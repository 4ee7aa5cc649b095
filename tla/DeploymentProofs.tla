-------------------------- MODULE DeploymentProofs --------------------------
(***************************************************************************)
(* Proofs about Deployment and VerifyDeploy, for any number of chains and  *)
(* of disturbances.                                                        *)
(*                                                                         *)
(* What lies on one chain is described by ChainOK, an operator of the      *)
(* chain's values, so that the effect of each transaction is a lemma       *)
(* without state.  Its core is that no two extensions of this checkout     *)
(* have one sender, those still in the pool included: every pre-build      *)
(* deploys a contract of its own.                                          *)
(***************************************************************************)
EXTENDS VerifyDeploy, TLAPS

-----------------------------------------------------------------------------
(* The inductive invariant.                                                *)

Txs == [op : DOMAIN After \cup {"goodbye"}, arg : Nat]
           \cup [op : {"registerTee"}, arg : Machine]

Extensions(n) == [sender : 0 .. n, granted : SUBSET Grants]

\* Neither registered nor about to be: a contract no extension names.
Unnamed(r, p, s) ==
    /\ \A i \in DOMAIN r : r[i].sender # s
    /\ \A k \in DOMAIN p : p[k].op = "register" => p[k].arg # s

\* n contracts with the IDs b, extensions r, transactions p.
ChainOK(n, b, r, p) ==
    /\ n \in Nat
    /\ r \in Seq(Extensions(n))
    /\ b \in Seq(0 .. Len(r)) /\ Len(b) = n
    /\ p \in Seq(Txs)
    /\ \A s \in 1 .. n : b[s] # None => r[b[s]].sender = s
    /\ \A i, j \in DOMAIN r : r[i].sender # None /\ r[i].sender = r[j].sender => i = j
    /\ \A k \in DOMAIN p : p[k].op \in {"register", "bind"} => p[k].arg \in 1 .. n
    /\ \A k \in DOMAIN p : p[k].op = "register" =>
         /\ \A i \in DOMAIN r : r[i].sender # p[k].arg
         /\ \A l \in DOMAIN p : p[l].op = "register" /\ p[l].arg = p[k].arg => l = k

ChainsOK == \A c \in Chains : ChainOK(contracts[c], bound[c], registry[c], pool[c])

\* The variables that are not about one chain, and the shape of the others.
VarInv ==
    /\ contracts \in [Chains -> Nat]
    /\ DOMAIN bound = Chains /\ DOMAIN registry = Chains
    /\ DOMAIN pool = Chains /\ DOMAIN env = Chains
    /\ machines \in [Chains -> SUBSET Machine] /\ paused \in [Chains -> SUBSET Machine]
    /\ receipt \in [Chains -> [ok : BOOLEAN, val : Nat]]
    /\ dotenv \in Chains
    /\ node \in [tee : Nat, ext : Nat, chain : Chains \cup {NoFlag}]
    /\ stage \in [Chains -> {"none", "built", "started", "done"}]
    /\ tested \in SUBSET Chains
    /\ events \in 0 .. MaxEvents

ScriptType ==
    /\ pc \in DOMAIN After \cup {"off", "write", "registerTee", "replay", "goodbye", "pause"}
    /\ wait \in BOOLEAN
    /\ loc \in [chain : Chains \cup {NoFlag}, sender : Nat, id : Nat,
                targets : SUBSET Machine]
    /\ pc # "off" => chain \in Chains
    /\ wait => pc \in DOMAIN After \cup Last

\* Extension i of chain c has sender s and what is in grants.
Ext(c, i, s, grants) ==
    /\ i \in Ids(c) /\ s \in 1 .. contracts[c]
    /\ registry[c][i].sender = s /\ grants \subseteq registry[c][i].granted

SetUp == {"owners", "projects", "keys"}

EnvInv ==
    \A c \in Chains :
        \/ env[c].file \in {"missing", "empty"} /\ env[c] = [NoEnv EXCEPT !.file = env[c].file]
        \/ /\ env[c] \in [file : {"written"}, id : Nat, sender : Nat]
           /\ Ext(c, env[c].id, env[c].sender, SetUp)

\* teeIDs grow: a machine is the running node's or an earlier one's.
TeeInv ==
    /\ \A c \in Chains :
         /\ \A m \in machines[c] : m.tee <= node.tee
         /\ \A m \in paused[c] : m.tee < node.tee
         /\ \A k \in DOMAIN pool[c] :
              pool[c][k].op = "registerTee" => pool[c][k].arg.tee <= node.tee
    /\ \A m \in loc.targets : m.tee < node.tee

NodeInv ==
    /\ \A c \in Chains : stage[c] \in {"started", "done"} => node.tee # 0
    /\ node.tee # 0 => node.ext # None

\* A machine of the extension was registered.
HadMachine(c, i) == \E m \in machines[c] \cup paused[c] : m.ext = i

TestInv ==
    \A c \in tested :
        /\ HasEnv(c) /\ node.tee # 0
        /\ bound[c][env[c].sender] # None
        /\ HadMachine(c, env[c].id)

\* What SetupExtension has done before it gets to a step.
DoneBefore == [owners |-> {}, projects |-> {"owners"}, keys |-> {"owners", "projects"},
               write |-> SetUp]

\* What a script knows at each step.
ScriptInv ==
    /\ pc = "register" =>
         /\ loc.sender \in 1 .. contracts[chain]
         /\ ~wait => Unnamed(registry[chain], pool[chain], loc.sender)
    /\ pc \in DOMAIN DoneBefore => Ext(chain, loc.id, loc.sender, DoneBefore[pc])
    /\ pc \in {"version", "governance", "registerTee"} =>
         loc.id # None /\ stage[chain] \in {"started", "done"}
    /\ pc \in {"bind", "replay", "hello", "goodbye"} =>
         HasEnv(chain) /\ loc.sender = env[chain].sender
    /\ pc \in {"hello", "goodbye"} => bound[chain][loc.sender] # None

\* What a script learns from the receipt it waits for.
Result ==
    LET val == receipt[chain].val IN
    /\ pc = "deploy" =>
         /\ val \in 1 .. contracts[chain]
         /\ \A i \in Ids(chain) : registry[chain][i].sender # val
    /\ pc = "register" => val \in Ids(chain) /\ registry[chain][val].sender = loc.sender
    /\ pc \in SetUp => pc \in registry[chain][loc.id].granted
    /\ pc = "bind" => bound[chain][loc.sender] # None
    /\ pc = "goodbye" => HadMachine(chain, bound[chain][loc.sender])

\* The transaction waited for is the last in the pool, or the last mined.
WaitInv ==
    wait =>
        /\ pool[chain] = <<>> /\ receipt[chain].ok => Result
        /\ pool[chain] # <<>> =>
             LET tx == pool[chain][Len(pool[chain])] IN
             /\ tx.op = pc
             /\ pc \in {"register", "bind", "hello", "goodbye"} => tx.arg = loc.sender
             /\ pc \in Grants => tx.arg = loc.id

Inv ==
    /\ VarInv /\ ScriptType /\ ChainsOK
    /\ EnvInv /\ TeeInv /\ NodeInv /\ TestInv
    /\ ScriptInv /\ WaitInv


-----------------------------------------------------------------------------
(* Transactions and what they leave of a chain.                            *)

\* A sequence over a set is one over a larger set.
LEMMA WidenSeq ==
  ASSUME NEW S, NEW T, S \subseteq T, NEW q \in Seq(S)
  PROVE  q \in Seq(T)
OBVIOUS

\* What a transaction carries.
LEMMA TxArg ==
  ASSUME NEW tx \in Txs
  PROVE  /\ tx.op \in DOMAIN After \cup {"goodbye", "registerTee"}
         /\ tx.op # "registerTee" => tx.arg \in Nat
         /\ tx.op = "registerTee" => tx.arg \in Machine
BY DEF Txs, After

\* The rest of a pool whose first transaction is mined.
LEMMA TailPool ==
  ASSUME NEW p \in Seq(Txs), p # <<>>
  PROVE  /\ Tail(p) \in Seq(Txs) /\ Head(p) = p[1] /\ p[1] \in Txs
         /\ Len(p) \in Nat \ {0} /\ 1 \in DOMAIN p
         /\ DOMAIN Tail(p) = 1 .. (Len(p) - 1) /\ DOMAIN p = 1 .. Len(p)
         /\ \A k \in DOMAIN Tail(p) : k + 1 \in DOMAIN p /\ Tail(p)[k] = p[k + 1]
OBVIOUS

\* The first transaction leaves the pool.
LEMMA ChainTail ==
  ASSUME NEW n, NEW b, NEW r, NEW p, ChainOK(n, b, r, p), p # <<>>
  PROVE  ChainOK(n, b, r, Tail(p))
<1>1. p \in Seq(Txs)
  BY DEF ChainOK
<1>2. PICK q : q = Tail(p)
  OBVIOUS
<1>3. /\ q \in Seq(Txs)
      /\ \A k \in DOMAIN q : k \in Nat /\ k + 1 \in DOMAIN p /\ q[k] = p[k + 1]
  BY <1>1, <1>2, TailPool
<1>4. \A k \in DOMAIN q : q[k].op \in {"register", "bind"} => q[k].arg \in 1 .. n
  BY <1>3 DEF ChainOK
<1>5. \A k \in DOMAIN q : q[k].op = "register" => \A i \in DOMAIN r : r[i].sender # q[k].arg
  BY <1>3 DEF ChainOK
<1>6. \A k, l \in DOMAIN q : q[k].op = "register" /\ q[l].op = "register" /\ q[l].arg = q[k].arg
                               => l = k
  <2> SUFFICES ASSUME NEW k \in DOMAIN q, NEW l \in DOMAIN q, q[k].op = "register",
                      q[l].op = "register", q[l].arg = q[k].arg
               PROVE  l = k
    OBVIOUS
  <2>1. l + 1 = k + 1
    BY <1>3 DEF ChainOK
  <2>. QED  BY <1>3, <2>1
<1>7. ChainOK(n, b, r, q)
  BY <1>3, <1>4, <1>5, <1>6 DEF ChainOK
<1>. QED  BY <1>2, <1>7

\* One more contract, without an ID.
LEMMA ChainDeploy ==
  ASSUME NEW n, NEW b, NEW r, NEW p, ChainOK(n, b, r, p),
         n \in Nat, NEW m \in Nat, m = n + 1
  PROVE  /\ ChainOK(m, Append(b, None), r, p)
         /\ m \in 1 .. m
         /\ \A i \in DOMAIN r : r[i].sender # m
         /\ \A s \in 1 .. n : Append(b, None)[s] = b[s]
<1>1. n \in Nat /\ b \in Seq(0 .. Len(r)) /\ Len(b) = n /\ Len(r) \in Nat
  BY DEF ChainOK
<1>2. m \in Nat /\ m = n + 1
  BY <1>1
<1>3. PICK d \in Seq(0 .. Len(r)) : d = Append(b, None)
  <2>1. None \in 0 .. Len(r)
    BY <1>1 DEF None
  <2>2. Append(b, None) \in Seq(0 .. Len(r))
    BY <1>1, <2>1
  <2>. QED  BY <2>2
<1>4. Len(d) = m /\ (\A s \in 1 .. n : d[s] = b[s]) /\ d[m] = None
  BY <1>1, <1>2, <1>3
<1>5. 0 .. n \subseteq 0 .. m /\ 1 .. n \subseteq 1 .. m
  BY <1>1, <1>2
<1>6. Extensions(n) \subseteq Extensions(m)
  BY <1>5 DEF Extensions
<1>7. r \in Seq(Extensions(m)) /\ \A i \in DOMAIN r : r[i].sender \in 0 .. n
  <2>1. r \in Seq(Extensions(n))
    BY DEF ChainOK
  <2>2. \A i \in DOMAIN r : r[i] \in Extensions(n)
    BY <2>1
  <2>3. r \in Seq(Extensions(m))
    BY <1>6, <2>1, WidenSeq
  <2>. QED  BY <2>2, <2>3 DEF Extensions
<1>8. \A s \in 1 .. m : d[s] # None => r[d[s]].sender = s
  <2> SUFFICES ASSUME NEW s \in 1 .. m, d[s] # None
               PROVE  r[d[s]].sender = s
    OBVIOUS
  <2>1. s # m
    BY <1>4
  <2>2. s \in 1 .. n
    BY <1>1, <1>2, <2>1
  <2>3. d[s] = b[s]
    BY <1>4, <2>2
  <2>. QED  BY <2>2, <2>3 DEF ChainOK
<1>9. \A k \in DOMAIN p : p[k].op \in {"register", "bind"} => p[k].arg \in 1 .. m
  BY <1>5 DEF ChainOK
<1>10. ChainOK(m, d, r, p)
  <2>1. p \in Seq(Txs)
    BY DEF ChainOK
  <2>2. \A i, j \in DOMAIN r : r[i].sender # None /\ r[i].sender = r[j].sender => i = j
    BY DEF ChainOK
  <2>3. \A k \in DOMAIN p : p[k].op = "register" =>
         /\ \A i \in DOMAIN r : r[i].sender # p[k].arg
         /\ \A l \in DOMAIN p : p[l].op = "register" /\ p[l].arg = p[k].arg => l = k
    BY DEF ChainOK
  <2>. QED  BY <1>4, <1>7, <1>8, <1>9, <2>1, <2>2, <2>3 DEF ChainOK
<1>11. m \in 1 .. m /\ \A i \in DOMAIN r : r[i].sender # m
  BY <1>1, <1>2, <1>7
<1>. QED  BY <1>2, <1>3, <1>4, <1>10, <1>11

\* One more extension, of a sender no other names.
LEMMA ChainExtend ==
  ASSUME NEW n, NEW b, NEW r, NEW p, ChainOK(n, b, r, p),
         NEW s \in 0 .. n, s # None => Unnamed(r, p, s)
  PROVE  /\ ChainOK(n, b, Append(r, [sender |-> s, granted |-> {}]), p)
         /\ Len(Append(r, [sender |-> s, granted |-> {}])) = Len(r) + 1
         /\ DOMAIN Append(r, [sender |-> s, granted |-> {}]) = 1 .. (Len(r) + 1)
         /\ Append(r, [sender |-> s, granted |-> {}])[Len(r) + 1].sender = s
         /\ \A i \in DOMAIN r : /\ i \in 1 .. (Len(r) + 1)
                                /\ Append(r, [sender |-> s, granted |-> {}])[i] = r[i]
<1> DEFINE e == [sender |-> s, granted |-> {}]
<1>1. /\ n \in Nat /\ r \in Seq(Extensions(n)) /\ b \in Seq(0 .. Len(r)) /\ Len(b) = n
      /\ p \in Seq(Txs)
  BY DEF ChainOK
<1>2. e \in Extensions(n) /\ e.sender = s
  BY DEF Extensions
<1> HIDE DEF e
<1>3. PICK q \in Seq(Extensions(n)) : q = Append(r, e)
  <2>1. Append(r, e) \in Seq(Extensions(n))
    BY <1>1, <1>2
  <2>. QED  BY <2>1
<1>4. /\ Len(r) \in Nat /\ Len(q) = Len(r) + 1 /\ DOMAIN r = 1 .. Len(r)
      /\ DOMAIN q = 1 .. (Len(r) + 1) /\ q[Len(r) + 1] = e
      /\ \A i \in DOMAIN r : q[i] = r[i]
  BY <1>1, <1>2, <1>3
<1>5. \A i \in DOMAIN q : i \in DOMAIN r \/ i = Len(r) + 1
  BY <1>4
<1>6. b \in Seq(0 .. Len(q))
  <2>1. 0 .. Len(r) \subseteq 0 .. Len(q)
    BY <1>4
  <2>. QED  BY <1>1, <2>1, WidenSeq
<1>7. \A t \in 1 .. n : b[t] # None => q[b[t]].sender = t
  <2> SUFFICES ASSUME NEW t \in 1 .. n, b[t] # None
               PROVE  q[b[t]].sender = t
    OBVIOUS
  <2>1. b[t] \in 0 .. Len(r)
    BY <1>1
  <2>2. b[t] \in DOMAIN r
    BY <1>4, <2>1 DEF None
  <2>. QED  BY <1>4, <2>2 DEF ChainOK
<1>8. \A i, j \in DOMAIN q : q[i].sender # None /\ q[i].sender = q[j].sender => i = j
  <2> SUFFICES ASSUME NEW i \in DOMAIN q, NEW j \in DOMAIN q, q[i].sender # None,
                      q[i].sender = q[j].sender
               PROVE  i = j
    OBVIOUS
  <2>1. CASE i \in DOMAIN r /\ j \in DOMAIN r
    BY <1>4, <2>1 DEF ChainOK
  <2>2. CASE i \in DOMAIN r /\ j = Len(r) + 1
    BY <1>2, <1>4, <2>2 DEF Unnamed
  <2>3. CASE i = Len(r) + 1 /\ j \in DOMAIN r
    BY <1>2, <1>4, <2>3 DEF Unnamed
  <2>. QED  BY <1>5, <2>1, <2>2, <2>3
<1>9. ASSUME NEW k \in DOMAIN p, p[k].op = "register"
      PROVE  \A i \in DOMAIN q : q[i].sender # p[k].arg
  <2>1. p[k].arg \in 1 .. n /\ \A i \in DOMAIN r : r[i].sender # p[k].arg
    BY <1>9 DEF ChainOK
  <2>2. p[k].arg # s
    BY <1>1, <1>9, <2>1 DEF Unnamed, None
  <2>. QED  BY <1>2, <1>4, <1>5, <2>1, <2>2
<1>10. \A k \in DOMAIN p : p[k].op \in {"register", "bind"} => p[k].arg \in 1 .. n
  BY DEF ChainOK
<1>11. \A k, l \in DOMAIN p :
          p[k].op = "register" /\ p[l].op = "register" /\ p[l].arg = p[k].arg => l = k
  BY DEF ChainOK
<1>12. ChainOK(n, b, q, p)
  BY <1>1, <1>6, <1>7, <1>8, <1>9, <1>10, <1>11 DEF ChainOK
<1>. QED  BY <1>2, <1>3, <1>4, <1>12 DEF e


\* One more grant for an extension.
LEMMA ChainGrant ==
  ASSUME NEW n, NEW b, NEW r, NEW p, ChainOK(n, b, r, p),
         NEW i \in DOMAIN r, NEW g \in Grants
  PROVE  /\ ChainOK(n, b, [r EXCEPT ![i].granted = @ \cup {g}], p)
         /\ DOMAIN [r EXCEPT ![i].granted = @ \cup {g}] = DOMAIN r
         /\ g \in [r EXCEPT ![i].granted = @ \cup {g}][i].granted
         /\ \A j \in DOMAIN r :
              /\ [r EXCEPT ![i].granted = @ \cup {g}][j].sender = r[j].sender
              /\ r[j].granted \subseteq [r EXCEPT ![i].granted = @ \cup {g}][j].granted
<1> DEFINE e == [r[i] EXCEPT !.granted = @ \cup {g}]
<1>1. n \in Nat /\ r \in Seq(Extensions(n)) /\ r[i] \in Extensions(n)
  BY DEF ChainOK
<1>2. e \in Extensions(n) /\ e.sender = r[i].sender /\ e.granted = r[i].granted \cup {g}
  BY <1>1 DEF Extensions
<1>3. [r EXCEPT ![i].granted = @ \cup {g}] = [r EXCEPT ![i] = e]
  OBVIOUS
<1> HIDE DEF e
<1>4. [r EXCEPT ![i] = e] \in Seq(Extensions(n))
  BY <1>1, <1>2
<1>5. PICK q \in Seq(Extensions(n)) : q = [r EXCEPT ![i] = e]
  BY <1>4
<1>6. /\ DOMAIN q = DOMAIN r /\ Len(q) = Len(r)
      /\ \A j \in DOMAIN r : q[j] = IF j = i THEN e ELSE r[j]
  BY <1>1, <1>5
<1>7. \A j \in DOMAIN r : q[j].sender = r[j].sender /\ r[j].granted \subseteq q[j].granted
  BY <1>2, <1>6
<1>8. \A t \in 1 .. n : b[t] # None => q[b[t]].sender = t
  <2> SUFFICES ASSUME NEW t \in 1 .. n, b[t] # None
               PROVE  q[b[t]].sender = t
    OBVIOUS
  <2>1. b \in Seq(0 .. Len(r)) /\ Len(b) = n /\ r[b[t]].sender = t
    BY DEF ChainOK
  <2>2. b[t] \in 0 .. Len(r)
    BY <2>1
  <2>3. b[t] \in DOMAIN r
    BY <1>1, <2>2 DEF None
  <2>. QED  BY <1>7, <2>1, <2>3
<1>9. ChainOK(n, b, q, p)
  <2>1. b \in Seq(0 .. Len(q)) /\ Len(b) = n /\ p \in Seq(Txs)
    BY <1>6 DEF ChainOK
  <2>2. \A j, k \in DOMAIN q : q[j].sender # None /\ q[j].sender = q[k].sender => j = k
    BY <1>6, <1>7 DEF ChainOK
  <2>3. \A k \in DOMAIN p : p[k].op = "register" => \A j \in DOMAIN q : q[j].sender # p[k].arg
    BY <1>6, <1>7 DEF ChainOK
  <2>4. /\ \A k \in DOMAIN p : p[k].op \in {"register", "bind"} => p[k].arg \in 1 .. n
        /\ \A k, l \in DOMAIN p :
             p[k].op = "register" /\ p[l].op = "register" /\ p[l].arg = p[k].arg => l = k
    BY DEF ChainOK
  <2>. QED  BY <1>1, <1>8, <2>1, <2>2, <2>3, <2>4 DEF ChainOK
<1>. QED  BY <1>2, <1>3, <1>5, <1>6, <1>7, <1>9

\* A contract gets the ID of the extension that names it.
LEMMA ChainBind ==
  ASSUME NEW n, NEW b, NEW r, NEW p, ChainOK(n, b, r, p),
         NEW s \in 1 .. n, b[s] = None, NEW i \in DOMAIN r, r[i].sender = s
  PROVE  /\ ChainOK(n, [b EXCEPT ![s] = i], r, p)
         /\ [b EXCEPT ![s] = i][s] # None
         /\ \A t \in 1 .. n : b[t] # None => [b EXCEPT ![s] = i][t] = b[t]
<1>1. n \in Nat /\ r \in Seq(Extensions(n)) /\ b \in Seq(0 .. Len(r)) /\ Len(b) = n
  BY DEF ChainOK
<1>2. i \in 1 .. Len(r) /\ i \in 0 .. Len(r) /\ i # None /\ DOMAIN b = 1 .. n
  BY <1>1 DEF None
<1>3. [b EXCEPT ![s] = i] \in Seq(0 .. Len(r)) /\ Len([b EXCEPT ![s] = i]) = n
  BY <1>1, <1>2
<1>4. PICK d \in Seq(0 .. Len(r)) : d = [b EXCEPT ![s] = i]
  BY <1>3
<1>5. \A t \in 1 .. n : d[t] = IF t = s THEN i ELSE b[t]
  BY <1>2, <1>4
<1>6. \A t \in 1 .. n : d[t] # None => r[d[t]].sender = t
  BY <1>5 DEF ChainOK
<1>7. ChainOK(n, d, r, p)
  BY <1>3, <1>4, <1>6 DEF ChainOK
<1>. QED  BY <1>2, <1>4, <1>5, <1>7

\* One more transaction; a registration, of a sender no other names.
LEMMA ChainSend ==
  ASSUME NEW n, NEW b, NEW r, NEW p, ChainOK(n, b, r, p), NEW tx \in Txs,
         tx.op \in {"register", "bind"} => tx.arg \in 1 .. n,
         tx.op = "register" => Unnamed(r, p, tx.arg)
  PROVE  /\ ChainOK(n, b, r, Append(p, tx))
         /\ Append(p, tx) # <<>> /\ Append(p, tx)[Len(Append(p, tx))] = tx
         /\ \A k \in DOMAIN Append(p, tx) :
              (k \in DOMAIN p /\ Append(p, tx)[k] = p[k]) \/ Append(p, tx)[k] = tx
<1>1. p \in Seq(Txs)
  BY DEF ChainOK
<1>2. Append(p, tx) \in Seq(Txs)
  BY <1>1
<1>3. PICK q \in Seq(Txs) : q = Append(p, tx)
  BY <1>2
<1>4. /\ Len(p) \in Nat /\ Len(q) = Len(p) + 1 /\ DOMAIN p = 1 .. Len(p)
      /\ DOMAIN q = 1 .. (Len(p) + 1) /\ q[Len(p) + 1] = tx
      /\ \A k \in DOMAIN p : q[k] = p[k]
  BY <1>1, <1>3
<1>5. \A k \in DOMAIN q : k \in DOMAIN p \/ k = Len(p) + 1
  BY <1>4
<1>6. \A k \in DOMAIN q : q[k].op \in {"register", "bind"} => q[k].arg \in 1 .. n
  BY <1>4, <1>5 DEF ChainOK
<1>7. \A k \in DOMAIN q : q[k].op = "register" => \A i \in DOMAIN r : r[i].sender # q[k].arg
  BY <1>4, <1>5 DEF ChainOK, Unnamed
<1>8. \A k, l \in DOMAIN q :
         q[k].op = "register" /\ q[l].op = "register" /\ q[l].arg = q[k].arg => l = k
  <2> SUFFICES ASSUME NEW k \in DOMAIN q, NEW l \in DOMAIN q, q[k].op = "register",
                      q[l].op = "register", q[l].arg = q[k].arg
               PROVE  l = k
    OBVIOUS
  <2>1. CASE k \in DOMAIN p /\ l \in DOMAIN p
    BY <1>4, <2>1 DEF ChainOK
  <2>2. CASE k \in DOMAIN p /\ l = Len(p) + 1
    BY <1>4, <2>2 DEF Unnamed
  <2>3. CASE k = Len(p) + 1 /\ l \in DOMAIN p
    BY <1>4, <2>3 DEF Unnamed
  <2>. QED  BY <1>5, <2>1, <2>2, <2>3
<1>9. ChainOK(n, b, r, q)
  <2>1. /\ n \in Nat /\ r \in Seq(Extensions(n)) /\ b \in Seq(0 .. Len(r)) /\ Len(b) = n
        /\ \A s \in 1 .. n : b[s] # None => r[b[s]].sender = s
        /\ \A i, j \in DOMAIN r : r[i].sender # None /\ r[i].sender = r[j].sender => i = j
    BY DEF ChainOK
  <2>. QED  BY <1>6, <1>7, <1>8, <2>1 DEF ChainOK
<1>. QED  BY <1>3, <1>4, <1>5, <1>9

\* setExtensionId finds an extension that names the contract, or none.
LEMMA FoundNames ==
  ASSUME NEW c \in Chains, ChainOK(contracts[c], bound[c], registry[c], pool[c]),
         NEW s \in 1 .. contracts[c], FoundId(c, s) # None
  PROVE  FoundId(c, s) \in DOMAIN registry[c] /\ registry[c][FoundId(c, s)].sender = s
<1> DEFINE found == {i \in Ids(c) : registry[c][i].sender = s}
<1>1. found # {}
  BY DEF FoundId, Ids
<1>2. PICK i \in found : TRUE
  BY <1>1
<1>3. s # None /\ i \in Nat
  BY <1>2 DEF None, ChainOK, Ids
<1>4. \A j \in found : j = i
  BY <1>2, <1>3 DEF ChainOK, Ids
<1>5. \E k \in found : \A j \in found : k <= j
  BY <1>2, <1>3, <1>4
<1>6. FoundId(c, s) = CHOOSE k \in found : \A j \in found : k <= j
  BY <1>1 DEF FoundId
<1>7. FoundId(c, s) \in found
  BY <1>5, <1>6
<1>. QED  BY <1>7 DEF Ids


-----------------------------------------------------------------------------
(* Mining.                                                                 *)

\* What lies on a chain stays: contracts, senders, grants and IDs.
Grown(c) ==
    /\ contracts[c] <= contracts'[c]
    /\ \A i \in DOMAIN registry[c] :
         /\ i \in DOMAIN registry'[c]
         /\ registry'[c][i].sender = registry[c][i].sender
         /\ registry[c][i].granted \subseteq registry'[c][i].granted
    /\ \A s \in 1 .. contracts[c] : bound[c][s] # None => bound'[c][s] = bound[c][s]
    /\ machines[c] \cup paused[c] \subseteq machines'[c] \cup paused'[c]
    /\ \A s : s # None /\ Unnamed(registry[c], pool[c], s)
                 => Unnamed(registry'[c], pool'[c], s)

\* What the receipt of a transaction that was accepted says.
Learned(c, tx) ==
    /\ tx.op = "deploy" =>
         /\ receipt'[c].val \in 1 .. contracts'[c]
         /\ \A i \in DOMAIN registry'[c] : registry'[c][i].sender # receipt'[c].val
    /\ tx.op = "register" =>
         /\ receipt'[c].val \in DOMAIN registry'[c]
         /\ registry'[c][receipt'[c].val].sender = tx.arg
    /\ tx.op \in Grants => tx.op \in registry'[c][tx.arg].granted
    /\ tx.op = "bind" => bound'[c][tx.arg] # None
    /\ tx.op = "goodbye" => \E m \in machines'[c] \cup paused'[c] : m.ext = bound'[c][tx.arg]

\* What a step on chain c leaves of the others.
Apart(c) ==
    \A d \in Chains \ {c} :
        /\ contracts'[d] = contracts[d] /\ bound'[d] = bound[d] /\ registry'[d] = registry[d]
        /\ machines'[d] = machines[d] /\ paused'[d] = paused[d]
        /\ pool'[d] = pool[d] /\ receipt'[d] = receipt[d]

\* Shapes and types of what a chain's step changes.
OnChainType ==
    /\ contracts \in [Chains -> Nat]
    /\ DOMAIN bound = Chains /\ DOMAIN registry = Chains
    /\ DOMAIN pool = Chains
    /\ machines \in [Chains -> SUBSET Machine] /\ paused \in [Chains -> SUBSET Machine]
    /\ receipt \in [Chains -> [ok : BOOLEAN, val : Nat]]

\* An accepted transaction is executed, and leaves the pool.
LEMMA Executed ==
  ASSUME OnChainType, NEW c \in Chains, NEW tx \in Txs,
         ChainOK(contracts[c], bound[c], registry[c], pool[c]),
         pool[c] # <<>>, tx = Head(pool[c]), pool' = [pool EXCEPT ![c] = Tail(@)],
         Accepts(c, tx), Execute(c, tx), UNCHANGED paused
  PROVE  /\ ChainOK(contracts'[c], bound'[c], registry'[c], pool'[c])
         /\ OnChainType' /\ Grown(c) /\ Learned(c, tx) /\ Apart(c)
         /\ machines'[c] \subseteq machines[c] \cup (IF tx.op = "registerTee" THEN {tx.arg} ELSE {})
<1>0. PICK n, b, r, p : n = contracts[c] /\ b = bound[c] /\ r = registry[c] /\ p = Tail(pool[c])
  OBVIOUS
<1>1. /\ pool'[c] = p /\ DOMAIN pool' = Chains
      /\ \A d \in Chains \ {c} : pool'[d] = pool[d]
  BY <1>0 DEF OnChainType
<1>2. ChainOK(n, b, r, p)
  BY <1>0, ChainTail
<1>3. /\ n \in Nat /\ r \in Seq(Extensions(n)) /\ Len(r) \in Nat /\ DOMAIN r = 1 .. Len(r)
      /\ b \in Seq(0 .. Len(r)) /\ Len(b) = n
  BY <1>0 DEF ChainOK
<1>4. pool[c] \in Seq(Txs)
  BY <1>0 DEF ChainOK
<1>5. /\ tx = pool[c][1] /\ 1 \in DOMAIN pool[c]
      /\ \A k \in DOMAIN p : k \in Nat \ {0} /\ k + 1 \in DOMAIN pool[c] /\ p[k] = pool[c][k + 1]
  BY <1>0, <1>4, TailPool
<1>6. \A s : Unnamed(r, pool[c], s) => Unnamed(r, p, s)
  BY <1>0, <1>5 DEF Unnamed
<1>7. paused'[c] = paused[c] /\ \A d \in Chains \ {c} : paused'[d] = paused[d]
  OBVIOUS
<1>8. CASE tx.op = "deploy"
  <2>1. /\ contracts' = [contracts EXCEPT ![c] = @ + 1]
        /\ bound' = [bound EXCEPT ![c] = Append(@, None)]
        /\ receipt' = [receipt EXCEPT ![c] = [ok |-> TRUE, val |-> contracts'[c]]]
        /\ UNCHANGED <<registry, machines>>
    BY <1>0, <1>8 DEF Execute, Grants
  <2>2. /\ contracts'[c] = n + 1 /\ bound'[c] = Append(b, None) /\ registry'[c] = r
        /\ machines'[c] = machines[c]
        /\ receipt'[c] = [ok |-> TRUE, val |-> n + 1]
    BY <1>0, <2>1 DEF OnChainType
  <2>3. Apart(c)
    BY <1>0, <1>1, <1>7, <2>1 DEF Apart, OnChainType
  <2>4. OnChainType'
    BY <1>0, <1>1, <1>3, <2>1, <2>2 DEF OnChainType
  <2>m. PICK m \in Nat : m = n + 1
    BY <1>3
  <2>5. /\ ChainOK(m, Append(b, None), r, p) /\ m \in 1 .. m
        /\ \A i \in DOMAIN r : r[i].sender # m
        /\ \A s \in 1 .. n : Append(b, None)[s] = b[s]
    BY <1>2, <1>3, <2>m, ChainDeploy
  <2>6. Grown(c)
    BY <1>0, <1>1, <1>3, <1>6, <1>7, <2>m, <2>2, <2>5 DEF Grown
  <2>7. Learned(c, tx)
    BY <1>0, <1>8, <2>m, <2>2, <2>5 DEF Learned, Grants
  <2>. QED  BY <1>0, <1>1, <2>m, <2>2, <2>3, <2>4, <2>5, <2>6, <2>7
<1>9. CASE tx.op = "register"
  <2> DEFINE e == [sender |-> tx.arg, granted |-> {}]
  <2>1. /\ registry' = [registry EXCEPT ![c] = Append(@, e)]
        /\ receipt' = [receipt EXCEPT ![c] = [ok |-> TRUE, val |-> Len(registry'[c])]]
        /\ UNCHANGED <<contracts, bound, machines>>
    BY <1>0, <1>9 DEF Execute, Grants
  <2>2. /\ contracts'[c] = n /\ bound'[c] = b /\ registry'[c] = Append(r, e)
        /\ machines'[c] = machines[c]
        /\ receipt'[c] = [ok |-> TRUE, val |-> Len(registry'[c])]
    BY <1>0, <2>1 DEF OnChainType
  <2>3. Apart(c)
    BY <1>0, <1>1, <1>7, <2>1 DEF Apart, OnChainType
  <2>4. tx.arg \in 1 .. n /\ tx.arg \in 0 .. n /\ \A i \in DOMAIN r : r[i].sender # tx.arg
    BY <1>0, <1>5, <1>9, <1>3 DEF ChainOK
  <2>5. \A k \in DOMAIN p : p[k].op = "register" => p[k].arg # tx.arg
    <3> SUFFICES ASSUME NEW k \in DOMAIN p, p[k].op = "register", p[k].arg = tx.arg
                 PROVE  FALSE
      OBVIOUS
    <3>1. k + 1 = 1
      BY <1>0, <1>5, <1>9 DEF ChainOK
    <3>. QED  BY <1>0, <1>5, <3>1
  <2>6. Unnamed(r, p, tx.arg)
    BY <1>0, <2>4, <2>5 DEF Unnamed
  <2>7. /\ ChainOK(n, b, Append(r, e), p) /\ Len(Append(r, e)) = Len(r) + 1
        /\ DOMAIN Append(r, e) = 1 .. (Len(r) + 1) /\ Append(r, e)[Len(r) + 1].sender = tx.arg
        /\ \A i \in DOMAIN r : i \in 1 .. (Len(r) + 1) /\ Append(r, e)[i] = r[i]
    BY <1>2, <2>4, <2>6, ChainExtend
  <2> HIDE DEF e
  <2>8. receipt'[c].val = Len(r) + 1 /\ receipt'[c] \in [ok : BOOLEAN, val : Nat]
    BY <1>0, <1>3, <2>2, <2>7
  <2>9. OnChainType'
    BY <1>0, <1>1, <2>1, <2>2, <2>8 DEF OnChainType
  <2>10. ASSUME NEW s, Unnamed(r, pool[c], s)
         PROVE  Unnamed(Append(r, e), p, s)
    <3>1. s # tx.arg /\ Unnamed(r, p, s)
      BY <1>0, <1>5, <1>6, <1>9, <2>10 DEF Unnamed
    <3>2. \A i \in 1 .. (Len(r) + 1) : i \in DOMAIN r \/ i = Len(r) + 1
      BY <1>3
    <3>. QED  BY <2>7, <3>1, <3>2 DEF Unnamed
  <2>11. Grown(c)
    BY <1>0, <1>1, <1>3, <1>7, <2>2, <2>7, <2>10 DEF Grown
  <2>12. Learned(c, tx)
    <3>1. receipt'[c].val \in DOMAIN registry'[c]
      BY <1>0, <1>3, <2>2, <2>7, <2>8
    <3>. QED  BY <1>0, <1>9, <2>2, <2>7, <2>8, <3>1 DEF Learned, Grants
  <2>. QED  BY <1>0, <1>1, <2>2, <2>3, <2>7, <2>9, <2>11, <2>12
<1>10. CASE tx.op \in Grants
  <2>1. /\ registry' = [registry EXCEPT ![c][tx.arg].granted = @ \cup {tx.op}]
        /\ receipt' = [receipt EXCEPT ![c] = [ok |-> TRUE, val |-> None]]
        /\ UNCHANGED <<contracts, bound, machines>>
    BY <1>0, <1>10 DEF Execute, Grants
  <2>2. tx.arg \in DOMAIN r
    BY <1>0, <1>10 DEF Accepts, Grants, Ids
  <2>3. PICK i \in DOMAIN r, g \in Grants : i = tx.arg /\ g = tx.op
    BY <1>0, <1>10, <2>2
  <2>4. /\ contracts'[c] = n /\ bound'[c] = b /\ machines'[c] = machines[c]
        /\ registry'[c] = [r EXCEPT ![i].granted = @ \cup {g}]
        /\ receipt'[c] = [ok |-> TRUE, val |-> None]
    BY <1>0, <2>1, <2>3 DEF OnChainType
  <2>5. Apart(c)
    BY <1>0, <1>1, <1>7, <2>1 DEF Apart, OnChainType
  <2>6. OnChainType'
    BY <1>0, <1>1, <2>1, <2>4 DEF OnChainType, None
  <2>7. /\ ChainOK(n, b, [r EXCEPT ![i].granted = @ \cup {g}], p)
         /\ DOMAIN [r EXCEPT ![i].granted = @ \cup {g}] = DOMAIN r
         /\ g \in [r EXCEPT ![i].granted = @ \cup {g}][i].granted
         /\ \A j \in DOMAIN r :
              /\ [r EXCEPT ![i].granted = @ \cup {g}][j].sender = r[j].sender
              /\ r[j].granted \subseteq [r EXCEPT ![i].granted = @ \cup {g}][j].granted
    BY <1>2, ChainGrant
  <2>8. PICK q : q = [r EXCEPT ![i].granted = @ \cup {g}]
    OBVIOUS
  <2>9. \A s : Unnamed(r, pool[c], s) => Unnamed(q, p, s)
    BY <1>6, <2>7, <2>8 DEF Unnamed
  <2>10. Grown(c)
    <3>1. contracts[c] <= contracts'[c] /\ machines[c] = machines'[c]
      BY <1>0, <1>3, <2>4
    <3>2. \A j \in DOMAIN r : /\ j \in DOMAIN q /\ q[j].sender = r[j].sender
                             /\ r[j].granted \subseteq q[j].granted
      BY <2>7, <2>8
    <3>3. registry'[c] = q
      BY <2>4, <2>8
    <3>. QED  BY <1>0, <1>1, <1>7, <2>4, <2>9, <3>1, <3>2, <3>3 DEF Grown
  <2>11. Learned(c, tx)
    BY <1>0, <1>10, <2>3, <2>4, <2>7 DEF Learned, Grants
  <2>. QED  BY <1>0, <1>1, <2>4, <2>5, <2>6, <2>7, <2>10, <2>11
<1>11. CASE tx.op = "registerTee"
  <2>1. /\ machines' = [machines EXCEPT ![c] = @ \cup {tx.arg}]
        /\ receipt' = [receipt EXCEPT ![c] = [ok |-> TRUE, val |-> None]]
        /\ UNCHANGED <<contracts, bound, registry>>
    BY <1>0, <1>11 DEF Execute, Grants
  <2>2. tx.arg \in Machine
    BY <1>11, TxArg
  <2>3. Apart(c)
    BY <1>0, <1>1, <1>7, <2>1 DEF Apart, OnChainType
  <2>4. OnChainType'
    BY <1>0, <1>1, <2>1, <2>2 DEF OnChainType, None
  <2>5. machines'[c] = machines[c] \cup {tx.arg}
    BY <1>0, <2>1 DEF OnChainType
  <2>6. Grown(c)
    BY <1>0, <1>1, <1>3, <1>6, <1>7, <2>1, <2>5 DEF Grown
  <2>7. Learned(c, tx)
    BY <1>0, <1>11 DEF Learned, Grants
  <2>. QED  BY <1>0, <1>1, <1>2, <1>11, <2>1, <2>3, <2>4, <2>5, <2>6, <2>7
<1>12. CASE tx.op = "bind"
  <2>1. PICK s, i : s = tx.arg /\ i = FoundId(c, s)
    OBVIOUS
  <2>2. /\ bound' = [bound EXCEPT ![c][s] = i]
        /\ receipt' = [receipt EXCEPT ![c] = [ok |-> TRUE, val |-> None]]
        /\ UNCHANGED <<contracts, registry, machines>>
    BY <1>0, <1>12, <2>1 DEF Execute, Grants
  <2>3. b[s] = None /\ i # None
    BY <1>0, <1>12, <2>1 DEF Accepts, Grants
  <2>4. s \in 1 .. n
    BY <1>0, <1>5, <1>12, <2>1 DEF ChainOK
  <2>5. i \in DOMAIN r /\ r[i].sender = s
    BY <1>0, <2>1, <2>3, <2>4, FoundNames
  <2>6. /\ contracts'[c] = n /\ registry'[c] = r /\ machines'[c] = machines[c]
        /\ bound'[c] = [b EXCEPT ![s] = i]
        /\ receipt'[c] = [ok |-> TRUE, val |-> None]
    BY <1>0, <2>2 DEF OnChainType
  <2>7. Apart(c)
    BY <1>0, <1>1, <1>7, <2>2 DEF Apart, OnChainType
  <2>8. OnChainType'
    BY <1>0, <1>1, <2>2, <2>6 DEF OnChainType, None
  <2>9. /\ ChainOK(n, [b EXCEPT ![s] = i], r, p)
        /\ [b EXCEPT ![s] = i][s] # None
        /\ \A t \in 1 .. n : b[t] # None => [b EXCEPT ![s] = i][t] = b[t]
    BY <1>2, <2>3, <2>4, <2>5, ChainBind
  <2>10. Grown(c)
    <3>1. contracts[c] <= contracts'[c] /\ machines[c] = machines'[c]
      BY <1>0, <1>3, <2>6
    <3>2. \A t \in 1 .. n : b[t] # None => bound'[c][t] = b[t]
      BY <2>6, <2>9
    <3>3. registry'[c] = registry[c] /\ pool'[c] = p
      BY <1>0, <1>1, <2>6
    <3>. QED  BY <1>0, <1>6, <1>7, <3>1, <3>2, <3>3 DEF Grown
  <2>11. Learned(c, tx)
    BY <1>0, <1>12, <2>1, <2>6, <2>9 DEF Learned, Grants
  <2>. QED  BY <1>0, <1>1, <2>6, <2>7, <2>8, <2>9, <2>10, <2>11
<1>13. CASE tx.op \in {"hello", "goodbye"}
  <2>1. PICK m \in ActiveFor(c, bound[c][tx.arg]) :
             receipt' = [receipt EXCEPT ![c] = [ok |-> TRUE, val |-> m.tee]]
    BY <1>0, <1>13 DEF Execute, Grants
  <2>2. UNCHANGED <<contracts, bound, registry, machines>>
    BY <1>0, <1>13 DEF Execute, Grants
  <2>3. m \in machines[c] /\ m.ext = bound[c][tx.arg] /\ m.tee \in Nat
    BY DEF ActiveFor, OnChainType, Machine
  <2>4. Apart(c)
    BY <1>0, <1>1, <1>7, <2>1, <2>2 DEF Apart, OnChainType
  <2>5. OnChainType'
    BY <1>0, <1>1, <2>1, <2>2, <2>3 DEF OnChainType
  <2>6. Grown(c)
    BY <1>0, <1>1, <1>3, <1>6, <1>7, <2>2 DEF Grown
  <2>7. Learned(c, tx)
    BY <1>0, <1>13, <2>2, <2>3 DEF Learned, Grants
  <2>. QED  BY <1>0, <1>1, <1>2, <2>2, <2>4, <2>5, <2>6, <2>7
<1>14. tx.op \in {"deploy", "register", "bind", "hello", "goodbye", "registerTee"} \cup Grants
  BY TxArg DEF After, Grants
<1>. QED  BY <1>8, <1>9, <1>10, <1>11, <1>12, <1>13, <1>14


-----------------------------------------------------------------------------
(* What a step leaves of the invariant.                                    *)

\* A chain on which nothing happens.
LEMMA StillGrown ==
  ASSUME ChainsOK, NEW c \in Chains,
         contracts'[c] = contracts[c] /\ bound'[c] = bound[c] /\ registry'[c] = registry[c],
         machines'[c] \cup paused'[c] = machines[c] \cup paused[c], pool'[c] = pool[c]
  PROVE  Grown(c)
<1>1. contracts[c] \in Nat
  BY DEF ChainsOK, ChainOK
<1>. QED  BY <1>1 DEF Grown

\* An extension stays what it is.
LEMMA ExtKeeps ==
  ASSUME ChainsOK, ChainsOK', NEW c \in Chains, Grown(c), NEW i, NEW s, NEW g, Ext(c, i, s, g)
  PROVE  /\ i \in DOMAIN registry'[c] /\ s \in 1 .. contracts'[c]
         /\ registry'[c][i].sender = s /\ g \subseteq registry'[c][i].granted
<1>1. contracts[c] \in Nat /\ contracts'[c] \in Nat /\ contracts[c] <= contracts'[c]
  BY DEF ChainsOK, ChainOK, Grown
<1>2. s \in 1 .. contracts[c] /\ i \in DOMAIN registry[c]
  BY DEF Ext, Ids
<1>3. s \in 1 .. contracts'[c]
  BY <1>1, <1>2
<1>. QED  BY <1>2, <1>3 DEF Ext, Grown

\* An ID that is set stays.
LEMMA BoundKeeps ==
  ASSUME NEW c, Grown(c), NEW s \in 1 .. contracts[c], bound[c][s] # None
  PROVE  bound'[c][s] = bound[c][s]
BY DEF Grown

\* A file that is there stays true while chains grow.
LEMMA EnvKeeps ==
  ASSUME ChainsOK, ChainsOK', EnvInv, \A c \in Chains : Grown(c), env' = env
  PROVE  EnvInv'
<1> SUFFICES ASSUME NEW c \in Chains
             PROVE  \/ /\ env[c].file \in {"missing", "empty"}
                       /\ env[c] = [NoEnv EXCEPT !.file = env[c].file]
                    \/ /\ env[c] \in [file : {"written"}, id : Nat, sender : Nat]
                       /\ env[c].id \in DOMAIN registry'[c]
                       /\ env[c].sender \in 1 .. contracts'[c]
                       /\ registry'[c][env[c].id].sender = env[c].sender
                       /\ SetUp \subseteq registry'[c][env[c].id].granted
  BY DEF EnvInv, Ext, Ids
<1>1. CASE env[c].file \in {"missing", "empty"} /\ env[c] = [NoEnv EXCEPT !.file = env[c].file]
  BY <1>1
<1>2. CASE /\ env[c] \in [file : {"written"}, id : Nat, sender : Nat]
           /\ Ext(c, env[c].id, env[c].sender, SetUp)
  BY <1>2, ExtKeeps
<1>. QED  BY <1>1, <1>2 DEF EnvInv

\* A file that is there names an extension that was set up.
LEMMA EnvNames ==
  ASSUME EnvInv, NEW c \in Chains, HasEnv(c)
  PROVE  Ext(c, env[c].id, env[c].sender, SetUp) /\ env[c].sender \in 1 .. contracts[c]
<1>1. Ext(c, env[c].id, env[c].sender, SetUp)
  BY DEF EnvInv, HasEnv
<1>. QED  BY <1>1 DEF Ext

\* A contract with an ID has the one of the extension that names it.
LEMMA EnvBound ==
  ASSUME ChainsOK, EnvInv, NEW c \in Chains, HasEnv(c)
  PROVE  /\ bound[c][env[c].sender] \in {None, env[c].id}
         /\ env[c].id # None /\ env[c].sender # None
         /\ \A i \in DOMAIN registry[c] :
              registry[c][i].sender = env[c].sender => i = env[c].id
<1> DEFINE n == contracts[c]
           b == bound[c]
           r == registry[c]
<1>1. /\ n \in Nat /\ r \in Seq(Extensions(n)) /\ b \in Seq(0 .. Len(r)) /\ Len(b) = n
      /\ \A s \in 1 .. n : b[s] # None => r[b[s]].sender = s
      /\ \A i, j \in DOMAIN r : r[i].sender # None /\ r[i].sender = r[j].sender => i = j
  BY DEF ChainsOK, ChainOK
<1>2. PICK i \in DOMAIN r, s \in 1 .. n : i = env[c].id /\ s = env[c].sender /\ r[i].sender = s
  BY EnvNames DEF Ext, Ids
<1> HIDE DEF n, b, r
<1>3. i \in 1 .. Len(r) /\ Len(r) \in Nat /\ i # None /\ s # None
  BY <1>1 DEF None
<1>4. \A j \in DOMAIN r : r[j].sender = s => j = i
  BY <1>1, <1>2, <1>3
<1>5. b[s] # None => b[s] = i
  <2> SUFFICES ASSUME b[s] # None PROVE b[s] = i
    OBVIOUS
  <2>1. b[s] \in 0 .. Len(r)
    BY <1>1
  <2>2. b[s] \in DOMAIN r
    BY <1>1, <1>3, <2>1 DEF None
  <2>. QED  BY <1>1, <1>4, <2>2
<1>. QED  BY <1>2, <1>3, <1>4, <1>5 DEF b, r

\* A machine that was registered stays registered, or paused.
LEMMA TestKeeps ==
  ASSUME ChainsOK, EnvInv, TestInv, tested \in SUBSET Chains, \A c \in Chains : Grown(c),
         env' = env, tested' \subseteq tested, node.tee # 0 => node'.tee # 0
  PROVE  TestInv'
<1> SUFFICES ASSUME NEW c \in tested'
             PROVE  /\ env[c].file = "written" /\ node'.tee # 0
                    /\ bound'[c][env[c].sender] # None
                    /\ \E m \in machines'[c] \cup paused'[c] : m.ext = env[c].id
  BY DEF TestInv, HasEnv, HadMachine
<1>1. c \in Chains /\ Grown(c) /\ HasEnv(c) /\ node.tee # 0 /\ bound[c][env[c].sender] # None
  BY DEF TestInv
<1>2. bound'[c][env[c].sender] # None
  BY <1>1, EnvNames, BoundKeeps
<1>3. \E m \in machines[c] \cup paused[c] : m.ext = env[c].id
  BY DEF TestInv, HadMachine
<1>. QED  BY <1>1, <1>2, <1>3 DEF Grown, HasEnv

\* What a script knows stays true while chains grow and it stands still.
LEMMA ScriptKeeps ==
  ASSUME ChainsOK, ChainsOK', EnvInv, ScriptType, ScriptInv, \A c \in Chains : Grown(c),
         UNCHANGED <<env, stage, script>>
  PROVE  ScriptInv'
<1>1. UNCHANGED <<pc, wait, loc, chain>>
  BY DEF script, chain
<1>2. CASE pc = "off"
  BY <1>1, <1>2 DEF ScriptInv, DoneBefore
<1>3. CASE pc # "off"
  <2>1. chain \in Chains /\ Grown(chain)
    BY <1>3 DEF ScriptType
  <2>2. CASE pc = "register"
    <3>1. contracts[chain] \in Nat /\ contracts'[chain] \in Nat
          /\ contracts[chain] <= contracts'[chain]
      BY <2>1 DEF ChainsOK, ChainOK, Grown
    <3>2. loc.sender \in 1 .. contracts[chain] /\ loc.sender # None
      BY <2>2, <3>1 DEF ScriptInv, None
    <3>3. loc.sender \in 1 .. contracts'[chain]
      BY <3>1, <3>2
    <3>4. ~wait => Unnamed(registry'[chain], pool'[chain], loc.sender)
      BY <2>1, <2>2, <3>2 DEF ScriptInv, Grown
    <3>. QED  BY <1>1, <2>2, <3>3, <3>4 DEF ScriptInv, DoneBefore
  <2>3. CASE pc \in DOMAIN DoneBefore
    <3>1. Ext(chain, loc.id, loc.sender, DoneBefore[pc])
      BY <2>3 DEF ScriptInv
    <3>2. /\ loc.id \in DOMAIN registry'[chain] /\ loc.sender \in 1 .. contracts'[chain]
          /\ registry'[chain][loc.id].sender = loc.sender
          /\ DoneBefore[pc] \subseteq registry'[chain][loc.id].granted
      BY <2>1, <3>1, ExtKeeps
    <3>3. Ext(chain, loc.id, loc.sender, DoneBefore[pc])'
      BY <1>1, <3>2 DEF Ext, Ids
    <3>4. pc \in {"owners", "projects", "keys", "write"}
      BY <2>3 DEF DoneBefore
    <3>. QED  BY <1>1, <3>3, <3>4 DEF ScriptInv
  <2>4. CASE pc \in {"version", "governance", "registerTee"}
    BY <1>1, <2>4 DEF ScriptInv, DoneBefore
  <2>5. CASE pc \in {"bind", "replay", "hello", "goodbye"}
    <3>1. HasEnv(chain) /\ loc.sender = env[chain].sender
      BY <2>5 DEF ScriptInv
    <3>2. pc \in {"hello", "goodbye"} => bound'[chain][loc.sender] # None
      BY <2>1, <3>1, EnvNames, BoundKeeps DEF ScriptInv
    <3>. QED  BY <1>1, <2>5, <3>1, <3>2 DEF ScriptInv, HasEnv, DoneBefore
  <2>6. CASE pc \in {"deploy", "pause"}
    BY <1>1, <2>6 DEF ScriptInv, DoneBefore
  <2>. QED  BY <1>3, <2>2, <2>3, <2>4, <2>5, <2>6 DEF ScriptType, After, DoneBefore
<1>. QED  BY <1>2, <1>3


\* What a receipt says stays true while chains grow.
LEMMA ResultKeeps ==
  ASSUME ChainsOK, ChainsOK', EnvInv, ScriptType, ScriptInv, \A c \in Chains : Grown(c),
         UNCHANGED script, wait, Result, pool[chain] = <<>>,
         receipt'[chain] = receipt[chain]
  PROVE  Result'
<1> DEFINE val == receipt[chain].val
<1>1. UNCHANGED <<pc, wait, loc, chain>>
  BY DEF script, chain
<1>2. chain \in Chains /\ Grown(chain) /\ pc \in DOMAIN After \cup Last
  BY DEF ScriptType, After, Last
<1>3. /\ contracts[chain] \in Nat /\ contracts'[chain] \in Nat
      /\ contracts[chain] <= contracts'[chain]
  BY <1>2 DEF ChainsOK, ChainOK, Grown
<1>4. CASE pc = "deploy"
  <2>1. val \in 1 .. contracts[chain] /\ \A i \in DOMAIN registry[chain] :
                                            registry[chain][i].sender # val
    BY <1>4 DEF Result, Ids
  <2>2. Unnamed(registry[chain], pool[chain], val) /\ val # None
    BY <1>3, <2>1 DEF Unnamed, None
  <2>3. Unnamed(registry'[chain], pool'[chain], val)
    BY <1>2, <2>2 DEF Grown
  <2>4. val \in 1 .. contracts'[chain]
    BY <1>3, <2>1
  <2>. QED  BY <1>1, <1>4, <2>3, <2>4 DEF Result, Ids, Unnamed, SetUp
<1>5. CASE pc = "register"
  BY <1>1, <1>2, <1>5 DEF Result, Ids, Grown, SetUp
<1>6. CASE pc \in SetUp
  <2>1. Ext(chain, loc.id, loc.sender, DoneBefore[pc])
    BY <1>6 DEF ScriptInv, SetUp, DoneBefore
  <2>2. loc.id \in DOMAIN registry[chain]
    BY <2>1 DEF Ext, Ids
  <2>. QED  BY <1>1, <1>2, <1>6, <2>2 DEF Result, Grown, SetUp
<1>7. CASE pc \in {"bind", "goodbye"}
  <2>1. HasEnv(chain) /\ loc.sender = env[chain].sender
    BY <1>7 DEF ScriptInv
  <2>2. loc.sender \in 1 .. contracts[chain]
    BY <1>2, <2>1, EnvNames
  <2>3. bound[chain][loc.sender] # None
    BY <1>7 DEF ScriptInv, Result
  <2>4. bound'[chain][loc.sender] = bound[chain][loc.sender]
    BY <1>2, <2>2, <2>3, BoundKeeps
  <2>5. pc = "goodbye" => \E m \in machines[chain] \cup paused[chain] :
                             m.ext = bound[chain][loc.sender]
    BY <1>7 DEF Result, HadMachine
  <2>6. pc = "goodbye" => \E m \in machines'[chain] \cup paused'[chain] :
                             m.ext = bound'[chain][loc.sender]
    BY <1>2, <2>4, <2>5 DEF Grown
  <2>. QED  BY <1>1, <1>7, <2>3, <2>4, <2>6 DEF Result, HadMachine, SetUp
<1>8. CASE pc \in {"version", "governance", "registerTee", "hello"}
  BY <1>1, <1>8 DEF Result, SetUp
<1>. QED  BY <1>2, <1>4, <1>5, <1>6, <1>7, <1>8 DEF After, Last, SetUp

\* The last transaction of a pool, when the first is mined.
LEMMA LastOfTail ==
  ASSUME NEW p \in Seq(Txs), p # <<>>
  PROVE  /\ Tail(p) = <<>> => Head(p) = p[Len(p)]
         /\ Tail(p) # <<>> => Tail(p)[Len(Tail(p))] = p[Len(p)]
<1>1. /\ Len(Tail(p)) = Len(p) - 1 /\ Len(p) \in Nat
      /\ Tail(p) \in Seq(Txs) /\ Head(p) = p[1]
  OBVIOUS
<1>2. PICK q \in Seq(Txs) : q = Tail(p)
  BY <1>1
<1>3. q = <<>> => Len(q) = 0
  OBVIOUS
<1>4. Tail(p) = <<>> => Head(p) = p[Len(p)]
  BY <1>1, <1>2, <1>3
<1>5. Tail(p) # <<>> => Tail(p)[Len(Tail(p))] = p[Len(p)]
  OBVIOUS
<1>. QED  BY <1>4, <1>5

\* Mining keeps the invariant: the transaction waited for, when its turn comes,
\* tells what its step takes it to tell; those before it, left by scripts that
\* died, add to the chain and take nothing away.
LEMMA MineKeeps ==
  ASSUME Inv, NEW c \in Chains, Mine(c)
  PROVE  Inv'
<1>0. /\ VarInv /\ ScriptType /\ ChainsOK /\ EnvInv /\ TeeInv /\ NodeInv /\ TestInv
      /\ ScriptInv /\ WaitInv
  BY DEF Inv
<1>1. /\ UNCHANGED <<paused, dotenv, env, stage, tested, node, pc, wait, loc, chain, events>>
      /\ UNCHANGED script
      /\ pool[c] # <<>> /\ pool' = [pool EXCEPT ![c] = Tail(@)]
  BY DEF Mine, checkout, script, chain
<1>2. OnChainType /\ pool[c] \in Seq(Txs)
      /\ ChainOK(contracts[c], bound[c], registry[c], pool[c])
  BY <1>0 DEF VarInv, OnChainType, ChainsOK, ChainOK
<1>3. PICK tx \in Txs : tx = Head(pool[c])
  BY <1>1, <1>2, TailPool
<1>4. pool'[c] = Tail(pool[c]) /\ \A d \in Chains \ {c} : pool'[d] = pool[d]
  BY <1>1, <1>2 DEF OnChainType
<1>5. /\ ChainOK(contracts'[c], bound'[c], registry'[c], pool'[c])
      /\ OnChainType' /\ Grown(c) /\ Apart(c)
      /\ receipt'[c].ok => Learned(c, tx)
      /\ machines'[c] \subseteq machines[c] \cup (IF tx.op = "registerTee" THEN {tx.arg} ELSE {})
  <2>1. CASE Accepts(c, tx)
    <3>1. Execute(c, tx)
      BY <1>3, <2>1 DEF Mine
    <3>. QED  BY <1>1, <1>2, <1>3, <2>1, <3>1, Executed
  <2>2. CASE ~Accepts(c, tx)
    <3>1. /\ receipt' = [receipt EXCEPT ![c] = NoReceipt]
          /\ UNCHANGED <<contracts, bound, registry, machines>>
      BY <1>3, <2>2 DEF Mine
    <3>2. ChainOK(contracts[c], bound[c], registry[c], Tail(pool[c]))
      BY <1>1, <1>2, ChainTail
    <3>3. receipt'[c] = NoReceipt /\ ~receipt'[c].ok
      BY <1>2, <3>1 DEF OnChainType, NoReceipt
    <3>4. NoReceipt \in [ok : BOOLEAN, val : Nat]
      BY DEF NoReceipt, None
    <3>5. OnChainType'
      BY <1>1, <1>2, <3>1, <3>4 DEF OnChainType
    <3>6. Apart(c)
      BY <1>1, <1>2, <1>4, <3>1 DEF Apart, OnChainType
    <3>7. \A s : Unnamed(registry[c], pool[c], s) => Unnamed(registry[c], Tail(pool[c]), s)
      BY <1>1, <1>2, TailPool DEF Unnamed
    <3>8. contracts[c] \in Nat
      BY <1>2 DEF ChainOK
    <3>9. Grown(c)
      BY <1>1, <1>4, <3>1, <3>7, <3>8 DEF Grown
    <3>. QED  BY <1>4, <3>1, <3>2, <3>3, <3>5, <3>6, <3>9
  <2>. QED  BY <2>1, <2>2
<1>6. ChainsOK' /\ VarInv'
  <2>1. ChainsOK'
    BY <1>0, <1>5 DEF ChainsOK, Apart
  <2>2. VarInv'
    BY <1>0, <1>1, <1>5 DEF VarInv, OnChainType
  <2>. QED  BY <2>1, <2>2
<1>7. \A d \in Chains : Grown(d)
  <2> SUFFICES ASSUME NEW d \in Chains \ {c} PROVE Grown(d)
    BY <1>5
  <2>. QED  BY <1>0, <1>5, StillGrown DEF Apart
<1>8. EnvInv' /\ TestInv' /\ ScriptInv'
  BY <1>0, <1>1, <1>6, <1>7, EnvKeeps, TestKeeps, ScriptKeeps DEF VarInv
<1>9. TeeInv'
  <2>1. \A k \in DOMAIN pool'[c] : \E l \in DOMAIN pool[c] : pool'[c][k] = pool[c][l]
    BY <1>1, <1>2, <1>4, TailPool
  <2>2. \A k \in DOMAIN pool'[c] :
           pool'[c][k].op = "registerTee" => pool'[c][k].arg.tee <= node.tee
    BY <1>0, <2>1 DEF TeeInv
  <2>3. tx.op = "registerTee" => tx.arg.tee <= node.tee
    BY <1>0, <1>1, <1>2, <1>3, TailPool DEF TeeInv
  <2>4. \A m \in machines'[c] : m.tee <= node.tee
    BY <1>0, <1>5, <2>3 DEF TeeInv
  <2>5. \A d \in Chains \ {c} : machines'[d] = machines[d] /\ pool'[d] = pool[d]
    BY <1>5 DEF Apart
  <2>. QED  BY <1>0, <1>1, <2>2, <2>4, <2>5 DEF TeeInv
<1>10. WaitInv'
  <2> SUFFICES ASSUME wait
               PROVE  /\ pool'[chain] = <<>> /\ receipt'[chain].ok => Result'
                      /\ pool'[chain] # <<>> =>
                           LET last == pool'[chain][Len(pool'[chain])] IN
                           /\ last.op = pc
                           /\ pc \in {"register", "bind", "hello", "goodbye"} =>
                                last.arg = loc.sender
                           /\ pc \in Grants => last.arg = loc.id
    BY <1>1 DEF WaitInv
  <2>1. chain \in Chains
    BY <1>0 DEF ScriptType, After, Last
  <2>2. CASE chain # c
    <3>1. pool'[chain] = pool[chain] /\ receipt'[chain] = receipt[chain]
      BY <1>5, <2>1, <2>2 DEF Apart
    <3>2. CASE pool[chain] # <<>>
      BY <1>0, <3>1, <3>2 DEF WaitInv
    <3>3. CASE pool[chain] = <<>> /\ receipt[chain].ok
      <4>1. Result
        BY <1>0, <3>3 DEF WaitInv
      <4>2. Result'
        BY <1>0, <1>1, <1>6, <1>7, <3>1, <3>3, <4>1, ResultKeeps
      <4>. QED  BY <3>1, <3>3, <4>2
    <3>. QED  BY <3>1, <3>2, <3>3
  <2>3. CASE chain = c
    <3>1. PICK last : last = pool[c][Len(pool[c])]
      OBVIOUS
    <3>2. /\ last.op = pc
          /\ pc \in {"register", "bind", "hello", "goodbye"} => last.arg = loc.sender
          /\ pc \in Grants => last.arg = loc.id
      BY <1>0, <1>1, <2>3, <3>1 DEF WaitInv
    <3>3. CASE pool'[c] # <<>>
      <4>1. pool'[c][Len(pool'[c])] = last
        BY <1>1, <1>2, <1>4, <3>1, <3>3, LastOfTail
      <4>. QED  BY <2>3, <3>2, <3>3, <4>1
    <3>4. CASE pool'[c] = <<>> /\ receipt'[c].ok
      <4>1. tx = last
        BY <1>1, <1>2, <1>3, <1>4, <3>1, <3>4, LastOfTail
      <4>2. Learned(c, tx)
        BY <1>5, <3>4
      <4>3. Result'
        BY <1>1, <2>3, <3>2, <4>1, <4>2
        DEF Learned, Result, Ids, SetUp, Grants, HadMachine
      <4>. QED  BY <2>3, <3>4, <4>3
    <3>. QED  BY <2>3, <3>3, <3>4
  <2>. QED  BY <2>2, <2>3
<1>11. ScriptType' /\ NodeInv'
  BY <1>0, <1>1 DEF ScriptType, NodeInv
<1>. QED  BY <1>6, <1>8, <1>9, <1>10, <1>11 DEF Inv


\* Extensions of others name no contract of this checkout.
LEMMA OthersKeep ==
  ASSUME Inv, NEW c \in Chains, OtherRegisters(c)
  PROVE  Inv'
<1>0. /\ VarInv /\ ScriptType /\ ChainsOK /\ EnvInv /\ TeeInv /\ NodeInv /\ TestInv
      /\ ScriptInv /\ WaitInv
  BY DEF Inv
<1> DEFINE e == [sender |-> None, granted |-> {}]
<1>1. /\ UNCHANGED <<contracts, bound, machines, paused, pool, receipt, dotenv, env, stage,
                     tested, node, pc, wait, loc, chain>>
      /\ UNCHANGED script
      /\ registry' = [registry EXCEPT ![c] = Append(@, e)]
  BY DEF OtherRegisters, checkout, script, chain
<1>2. events' \in 0 .. MaxEvents
  BY <1>0, MaxEventsAssumption DEF OtherRegisters, Disturbance, VarInv
<1>3. /\ registry'[c] = Append(registry[c], e) /\ DOMAIN registry' = Chains
      /\ \A d \in Chains \ {c} : registry'[d] = registry[d]
  BY <1>0, <1>1 DEF VarInv
<1>4. PICK n, b, r, p : n = contracts[c] /\ b = bound[c] /\ r = registry[c] /\ p = pool[c]
  OBVIOUS
<1>5. ChainOK(n, b, r, p)
  BY <1>0, <1>4 DEF ChainsOK
<1>6. n \in Nat /\ None \in 0 .. n /\ r \in Seq(Extensions(n))
  BY <1>5 DEF ChainOK, None
<1>7. /\ ChainOK(n, b, Append(r, e), p)
      /\ DOMAIN Append(r, e) = 1 .. (Len(r) + 1) /\ Append(r, e)[Len(r) + 1].sender = None
      /\ \A i \in DOMAIN r : i \in 1 .. (Len(r) + 1) /\ Append(r, e)[i] = r[i]
  BY <1>5, <1>6, ChainExtend
<1> HIDE DEF e
<1>8. ChainsOK'
  BY <1>0, <1>1, <1>3, <1>4, <1>7 DEF ChainsOK
<1>9. ASSUME NEW s, s # None, Unnamed(r, p, s)
      PROVE  Unnamed(Append(r, e), p, s)
  <2>1. \A i \in 1 .. (Len(r) + 1) : i \in DOMAIN r \/ i = Len(r) + 1
    BY <1>6
  <2>. QED  BY <1>7, <1>9, <2>1 DEF Unnamed
<1>10. Grown(c)
  BY <1>1, <1>3, <1>4, <1>6, <1>7, <1>9 DEF Grown
<1>11. \A d \in Chains : Grown(d)
  <2> SUFFICES ASSUME NEW d \in Chains \ {c} PROVE Grown(d)
    BY <1>10
  <2>. QED  BY <1>0, <1>1, <1>3, StillGrown
<1>12. EnvInv' /\ TestInv' /\ ScriptInv'
  BY <1>0, <1>1, <1>8, <1>11, EnvKeeps, TestKeeps, ScriptKeeps DEF VarInv
<1>13. VarInv' /\ ScriptType' /\ TeeInv' /\ NodeInv'
  BY <1>0, <1>1, <1>2, <1>3 DEF VarInv, ScriptType, TeeInv, NodeInv
<1>14. WaitInv'
  <2>1. wait /\ pool[chain] = <<>> /\ receipt[chain].ok => Result'
    BY <1>0, <1>1, <1>8, <1>11, ResultKeeps DEF WaitInv
  <2>. QED  BY <1>0, <1>1, <2>1 DEF WaitInv
<1>. QED  BY <1>8, <1>12, <1>13, <1>14 DEF Inv

\* A step of a script that leaves chains, pools, file, node and stages alone.
LEMMA ScriptStep ==
  ASSUME Inv, UNCHANGED <<contracts, bound, registry, machines, paused, pool, dotenv, env,
                          stage, tested, node>>,
         receipt' \in [Chains -> [ok : BOOLEAN, val : Nat]], events' \in 0 .. MaxEvents,
         ScriptType', ScriptInv', WaitInv', \A m \in loc'.targets : m.tee < node.tee
  PROVE  Inv'
<1>0. VarInv /\ ChainsOK /\ EnvInv /\ TeeInv /\ NodeInv /\ TestInv
  BY DEF Inv
<1>1. VarInv' /\ ChainsOK'
  BY <1>0 DEF VarInv, ChainsOK
<1>2. EnvInv'
  BY <1>0 DEF EnvInv, Ext, Ids
<1>3. TeeInv' /\ NodeInv'
  BY <1>0 DEF TeeInv, NodeInv
<1>4. TestInv'
  BY <1>0 DEF TestInv, HasEnv, HadMachine
<1>. QED  BY <1>1, <1>2, <1>3, <1>4 DEF Inv

\* A script that ended knows nothing.
LEMMA EndKnows ==
  ASSUME End
  PROVE  /\ ScriptType' /\ ScriptInv' /\ WaitInv'
         /\ loc'.targets = {}
<1>1. pc' = "off" /\ wait' = FALSE /\ loc' = NoLocals
  BY DEF End
<1>2. /\ NoLocals \in [chain : Chains \cup {NoFlag}, sender : Nat, id : Nat,
                       targets : SUBSET Machine]
      /\ NoLocals.targets = {}
  BY DEF NoLocals, None
<1>3. ScriptType'
  BY <1>1, <1>2 DEF ScriptType
<1>4. ScriptInv' /\ WaitInv'
  BY <1>1 DEF ScriptInv, WaitInv, DoneBefore
<1>. QED  BY <1>1, <1>2, <1>3, <1>4

\* A script ends and leaves everything else as it is.
LEMMA EndKeeps ==
  ASSUME Inv, End, UNCHANGED <<onChain, pool, checkout, node>>,
         receipt' \in [Chains -> [ok : BOOLEAN, val : Nat]], events' \in 0 .. MaxEvents
  PROVE  Inv'
<1>1. UNCHANGED <<contracts, bound, registry, machines, paused, pool, dotenv, env,
                  stage, tested, node>>
  BY DEF onChain, checkout
<1>2. \A m \in loc'.targets : m.tee < node.tee
  BY EndKnows
<1>. QED  BY <1>1, <1>2, EndKnows, ScriptStep

\* A script sends a transaction of its own.
LEMMA SendKeeps ==
  ASSUME Inv, NEW tx \in Txs, Send(tx), pc \in DOMAIN After \cup Last, ~wait,
         UNCHANGED <<onChain, receipt, checkout, node, events>>,
         tx.op = pc,
         pc \in {"register", "bind", "hello", "goodbye"} => tx.arg = loc.sender,
         pc \in Grants => tx.arg = loc.id,
         tx.op = "registerTee" => tx.arg.tee <= node.tee
  PROVE  Inv'
<1>0. /\ VarInv /\ ScriptType /\ ChainsOK /\ EnvInv /\ TeeInv /\ NodeInv /\ TestInv
      /\ ScriptInv /\ WaitInv
  BY DEF Inv
<1>1. UNCHANGED <<contracts, bound, registry, machines, paused, receipt, dotenv, env,
                  stage, tested, node, events>>
  BY DEF onChain, checkout
<1>2. CASE ~Accepts(chain, tx)
  <2>1. End /\ UNCHANGED pool
    BY <1>2 DEF Send
  <2>2. receipt' \in [Chains -> [ok : BOOLEAN, val : Nat]] /\ events' \in 0 .. MaxEvents
    BY <1>0, <1>1 DEF VarInv
  <2>. QED  BY <2>1, <2>2, EndKeeps
<1>3. CASE Accepts(chain, tx)
  <2>1. PICK c \in Chains : c = chain
    BY <1>0 DEF ScriptType, After, Last
  <2>2. /\ pool' = [pool EXCEPT ![c] = Append(@, tx)]
        /\ wait' = TRUE /\ UNCHANGED <<pc, loc, chain>>
    BY <1>3, <2>1 DEF Send, chain
  <2>3. /\ pool'[c] = Append(pool[c], tx) /\ DOMAIN pool' = Chains
        /\ \A d \in Chains \ {c} : pool'[d] = pool[d]
    BY <1>0, <2>2 DEF VarInv
  <2>4. tx.op \in {"register", "bind"} => tx.arg \in 1 .. contracts[c]
    <3>1. CASE pc = "register"
      BY <1>0, <2>1, <3>1 DEF ScriptInv
    <3>2. CASE pc = "bind"
      <4>1. HasEnv(c) /\ loc.sender = env[c].sender
        BY <1>0, <2>1, <3>2 DEF ScriptInv
      <4>2. env[c].sender \in 1 .. contracts[c]
        BY <1>0, <4>1, EnvNames
      <4>. QED  BY <3>2, <4>1, <4>2
    <3>. QED  BY <3>1, <3>2
  <2>5. tx.op = "register" => Unnamed(registry[c], pool[c], tx.arg)
    BY <1>0, <2>1 DEF ScriptInv
  <2>6. ChainOK(contracts[c], bound[c], registry[c], pool[c])
    BY <1>0 DEF ChainsOK
  <2>7. /\ ChainOK(contracts[c], bound[c], registry[c], pool'[c])
        /\ pool'[c] # <<>> /\ pool'[c][Len(pool'[c])] = tx
        /\ \A k \in DOMAIN pool'[c] :
              (k \in DOMAIN pool[c] /\ pool'[c][k] = pool[c][k]) \/ pool'[c][k] = tx
    BY <2>3, <2>4, <2>5, <2>6, ChainSend
  <2>8. ChainsOK' /\ VarInv'
    BY <1>0, <1>1, <2>3, <2>7 DEF ChainsOK, VarInv
  <2>9. EnvInv' /\ TestInv' /\ NodeInv'
    BY <1>0, <1>1 DEF EnvInv, Ext, Ids, TestInv, HasEnv, HadMachine, NodeInv
  <2>10. TeeInv'
    <3>1. \A k \in DOMAIN pool'[c] :
             pool'[c][k].op = "registerTee" => pool'[c][k].arg.tee <= node.tee
      BY <1>0, <2>7 DEF TeeInv
    <3>. QED  BY <1>0, <1>1, <2>2, <2>3, <3>1 DEF TeeInv
  <2>11. ScriptType'
    BY <1>0, <2>2 DEF ScriptType
  <2>12. ScriptInv'
    BY <1>0, <1>1, <2>2 DEF ScriptInv, Ext, Ids, HasEnv
  <2>13. WaitInv'
    BY <2>1, <2>2, <2>7 DEF WaitInv
  <2>. QED  BY <2>8, <2>9, <2>10, <2>11, <2>12, <2>13 DEF Inv
<1>. QED  BY <1>2, <1>3


-----------------------------------------------------------------------------
(* The texts decisions are taken on.                                       *)

\* A payload that is decoded says its reason or nothing.
LEMMA DecodedSays ==
  ASSUME NEW payload
  PROVE  decodeRevertHex(payload).says \subseteq {payload.reason}
<1>1. CASE payload.kind = "Error"
  BY <1>1 DEF decodeRevertHex, Text
<1>2. CASE payload.kind = "custom"
  BY <1>2 DEF decodeRevertHex, Raw, Text
<1>3. CASE payload.kind \notin {"Error", "custom"}
  BY <1>3 DEF decodeRevertHex, Empty
<1>. QED  BY <1>1, <1>2, <1>3

\* An RPC error's message and its data say the reason of the revert or nothing.
LEMMA ErrorSays ==
  ASSUME NEW n, NEW payload, NEW withData
  PROVE  /\ RpcError(n, payload, withData).message.says \subseteq {payload.reason}
         /\ DecodeRevertReason(RpcError(n, payload, withData)).says \subseteq {payload.reason}
<1> DEFINE err == RpcError(n, payload, withData)
<1>1. err.message.says \subseteq {payload.reason}
  BY DEF RpcError, Text
<1>2. err.data = payload \/ err.data = NoData
  BY DEF RpcError
<1>3. decodeRevertHex(NoData) = Empty
  BY DEF decodeRevertHex, NoData, Payload
<1>4. decodeRevertHex(err.data).says \subseteq {payload.reason}
  BY <1>2, <1>3, DecodedSays DEF Empty
<1>. QED  BY <1>1, <1>4 DEF DecodeRevertReason

\* The replay of a call says the reason it finds or nothing.
LEMMA ReplaySays ==
  ASSUME NEW n, NEW payload
  PROVE  SimulateAndDecodeRevert(n, payload).says \subseteq {payload.reason}
<1> DEFINE err == RpcError(n, payload, n.call = "data")
<1>1. /\ err.message.says \subseteq {payload.reason}
      /\ DecodeRevertReason(err).says \subseteq {payload.reason}
  BY ErrorSays
<1>2. \/ SimulateAndDecodeRevert(n, payload) = Empty
      \/ SimulateAndDecodeRevert(n, payload) = decodeRevertHex(payload)
      \/ SimulateAndDecodeRevert(n, payload) = err.message
      \/ SimulateAndDecodeRevert(n, payload) = DecodeRevertReason(err)
  BY DEF SimulateAndDecodeRevert
<1>. QED  BY <1>1, <1>2, DecodedSays DEF Empty

\* SetExtensionId's error says the reason of the revert or nothing.
LEMMA SendSays ==
  ASSUME NEW n, NEW payload
  PROVE  /\ SendErrorSays(n, EstimateError(n, payload), payload) \subseteq {payload.reason}
         /\ SendErrorSays(n, NetworkError, payload) \subseteq {payload.reason}
<1>1. SendErrorSays(n, EstimateError(n, payload), payload) \subseteq {payload.reason}
  <2>1. /\ EstimateError(n, payload).message.says \subseteq {payload.reason}
        /\ DecodeRevertReason(EstimateError(n, payload)).says \subseteq {payload.reason}
    BY ErrorSays DEF EstimateError
  <2>. QED  BY <2>1, ReplaySays DEF SendErrorSays
<1>2. SendErrorSays(n, NetworkError, payload) \subseteq {payload.reason}
  <2>1. NetworkError.message.says = {} /\ NetworkError.data = NoData
    BY DEF NetworkError, Raw, Text
  <2>2. decodeRevertHex(NoData) = Empty
    BY DEF decodeRevertHex, NoData, Payload
  <2>3. DecodeRevertReason(NetworkError) = Empty
    BY <2>1, <2>2 DEF DecodeRevertReason
  <2>. QED  BY <2>1, <2>3, ReplaySays DEF SendErrorSays, Empty
<1>. QED  BY <1>1, <1>2

\* The reason is "already set" only where an ID is set.
LEMMA AlreadySetIsSet ==
  ASSUME Outcome(chain, Bind).reason = "already set"
  PROVE  bound[chain][loc.sender] # None
<1>1. Bind.op = "bind" /\ Bind.arg = loc.sender
  BY DEF Bind, Tx
<1>2. CASE Accepts(chain, Bind)
  BY <1>2 DEF Outcome, Success, Payload
<1>3. CASE ~Accepts(chain, Bind)
  <2>1. Outcome(chain, Bind) =
          ErrorString(IF bound[chain][loc.sender] # None THEN "already set" ELSE "not found")
    BY <1>1, <1>3 DEF Outcome
  <2>2. ErrorString("not found").reason = "not found"
    BY DEF ErrorString, Payload
  <2>. QED  BY <2>1, <2>2
<1>. QED  BY <1>2, <1>3

-----------------------------------------------------------------------------
(* The steps of the scripts.                                               *)

\* Receipts and events a step does not touch.
LEMMA OtherTypes ==
  ASSUME Inv, UNCHANGED receipt \/ receipt' = [receipt EXCEPT ![chain] = NoReceipt],
         UNCHANGED events \/ Disturbance
  PROVE  /\ receipt' \in [Chains -> [ok : BOOLEAN, val : Nat]]
         /\ events' \in 0 .. MaxEvents
<1>1. receipt \in [Chains -> [ok : BOOLEAN, val : Nat]] /\ events \in 0 .. MaxEvents
  BY DEF Inv, VarInv
<1>2. NoReceipt \in [ok : BOOLEAN, val : Nat]
  BY DEF NoReceipt, None
<1>3. receipt' \in [Chains -> [ok : BOOLEAN, val : Nat]]
  BY <1>1, <1>2
<1>4. events' \in 0 .. MaxEvents
  BY <1>1, MaxEventsAssumption DEF Disturbance
<1>. QED  BY <1>3, <1>4

\* A script goes on to a step that waits for nothing, knowing what is due there.
LEMMA GoOn ==
  ASSUME Inv, UNCHANGED <<onChain, pool, checkout, node>>,
         UNCHANGED receipt \/ receipt' = [receipt EXCEPT ![chain] = NoReceipt],
         UNCHANGED events \/ Disturbance,
         wait' = FALSE,
         pc' \in DOMAIN After \cup {"write", "registerTee", "replay", "goodbye", "pause"},
         loc' \in [chain : Chains, sender : Nat, id : Nat, targets : SUBSET Machine],
         \A m \in loc'.targets : m.tee < node.tee,
         ScriptInv'
  PROVE  Inv'
<1>1. UNCHANGED <<contracts, bound, registry, machines, paused, pool, dotenv, env,
                  stage, tested, node>>
  BY DEF onChain, checkout
<1>2. ScriptType'
  BY DEF ScriptType, chain, After
<1>3. WaitInv'
  BY DEF WaitInv
<1>. QED  BY <1>1, <1>2, <1>3, OtherTypes, ScriptStep

\* The steps that send.
LEMMA SendSteps ==
  ASSUME Inv, Deploy \/ RegisterExtension \/ SendInstruction \/ RegisterTee
  PROVE  Inv'
<1>0. VarInv /\ ScriptType /\ ScriptInv /\ NodeInv
  BY DEF Inv
<1>1. CASE Deploy
  <2>1. Tx("deploy", None) \in Txs /\ Tx("deploy", None).op = "deploy"
    BY DEF Tx, Txs, None, After
  <2>2. pc = "deploy" /\ ~wait /\ Send(Tx("deploy", None))
        /\ UNCHANGED <<onChain, receipt, checkout, node, events>>
    BY <1>1 DEF Deploy, Due
  <2>. QED  BY <2>1, <2>2, SendKeeps DEF After, Grants
<1>2. CASE RegisterExtension
  <2> DEFINE tx == Tx("register", loc.sender)
  <2>1. tx \in Txs /\ tx.op = "register" /\ tx.arg = loc.sender
    BY <1>0 DEF Tx, Txs, After, ScriptType
  <2>2. pc = "register" /\ ~wait /\ Send(tx)
        /\ UNCHANGED <<onChain, receipt, checkout, node, events>>
    BY <1>2 DEF RegisterExtension, Due
  <2> HIDE DEF tx
  <2>. QED  BY <2>1, <2>2, SendKeeps DEF After, Grants
<1>3. CASE SendInstruction
  <2> DEFINE tx == Tx(pc, loc.sender)
  <2>1. pc \in {"hello", "goodbye"} /\ ~wait /\ Send(tx)
        /\ UNCHANGED <<onChain, receipt, checkout, node, events>>
    BY <1>3 DEF SendInstruction
  <2>2. tx \in Txs /\ tx.op = pc /\ tx.arg = loc.sender
    BY <1>0, <2>1 DEF Tx, Txs, After, ScriptType
  <2> HIDE DEF tx
  <2>. QED  BY <2>1, <2>2, SendKeeps DEF After, Grants, Last
<1>4. CASE RegisterTee
  <2> DEFINE m == [tee |-> node.tee, ext |-> loc.id]
             tx == Tx(pc, m)
  <2>1. pc = "registerTee" /\ ~wait /\ Send(tx)
        /\ UNCHANGED <<onChain, receipt, checkout, node, events>>
    BY <1>4 DEF RegisterTee, Due
  <2>2. loc.id # None /\ loc.id \in Nat /\ node.tee \in Nat /\ node.tee # 0
    BY <1>0, <2>1 DEF ScriptInv, ScriptType, NodeInv, VarInv
  <2>3. m \in Machine
    BY <2>2 DEF Machine
  <2>4. tx \in Txs /\ tx.op = "registerTee" /\ tx.arg.tee = node.tee
    BY <2>1, <2>3 DEF Tx, Txs
  <2> HIDE DEF tx, m
  <2>. QED  BY <2>1, <2>2, <2>4, SendKeeps DEF Last, Grants
<1>. QED  BY <1>1, <1>2, <1>3, <1>4

\* The steps that skip what an extension has, or grant it.
LEMMA GrantSteps ==
  ASSUME Inv, SetupExtension \/ AllowTeeVersion \/ SetTeeGovernance
  PROVE  Inv'
<1>0. VarInv /\ ScriptType /\ ScriptInv
  BY DEF Inv
<1>1. /\ pc \in Grants /\ ~wait /\ GrantUnless(pc \in Granted(loc.id))
      /\ UNCHANGED <<onChain, receipt, checkout, node, events>>
  BY DEF SetupExtension, AllowTeeVersion, SetTeeGovernance, GrantUnless, Due, Grants
<1>2. CASE ~(loc.id \in Ids(chain) /\ pc \in Granted(loc.id))
  <2> DEFINE tx == Tx(pc, loc.id)
  <2>1. Send(tx)
    BY <1>1, <1>2 DEF GrantUnless
  <2>2. tx \in Txs /\ tx.op = pc /\ tx.arg = loc.id
    BY <1>0, <1>1 DEF Tx, Txs, After, Grants, ScriptType
  <2> HIDE DEF tx
  <2>. QED  BY <1>1, <2>1, <2>2, SendKeeps DEF After, Grants
<1>3. CASE loc.id \in Ids(chain) /\ pc \in Granted(loc.id)
  <2>1. pc' = After[pc] /\ UNCHANGED <<pool, wait, loc>>
    BY <1>1, <1>3 DEF GrantUnless
  <2>2. loc' \in [chain : Chains, sender : Nat, id : Nat, targets : SUBSET Machine]
        /\ chain' = chain /\ chain \in Chains
    BY <1>0, <1>1, <2>1 DEF ScriptType, chain, Grants
  <2>3. UNCHANGED <<contracts, bound, registry, env, stage>>
    BY <1>1 DEF onChain, checkout
  <2>4. \A m \in loc'.targets : m.tee < node.tee
    BY <2>1 DEF Inv, TeeInv
  <2>5. ScriptInv'
    <3>1. CASE pc \in SetUp
      <4>1. /\ pc' \in {"projects", "keys", "write"}
            /\ DoneBefore[pc'] \subseteq DoneBefore[pc] \cup {pc}
        BY <2>1, <3>1 DEF SetUp, After, DoneBefore
      <4>2. Ext(chain, loc.id, loc.sender, DoneBefore[pc])
        BY <1>0, <3>1 DEF ScriptInv, SetUp, DoneBefore
      <4>3. pc \in registry[chain][loc.id].granted
        BY <1>3 DEF Granted
      <4>4. Ext(chain, loc.id, loc.sender, DoneBefore[pc'])
        BY <4>1, <4>2, <4>3 DEF Ext
      <4>5. Ext(chain, loc.id, loc.sender, DoneBefore[pc])'
        BY <2>1, <2>2, <2>3, <4>4 DEF Ext, Ids
      <4>. QED  BY <4>1, <4>5 DEF ScriptInv
    <3>2. CASE pc \in {"version", "governance"}
      <4>1. pc' \in {"governance", "registerTee"}
        BY <2>1, <3>2 DEF After
      <4>. QED  BY <1>0, <2>1, <2>2, <2>3, <3>2, <4>1 DEF ScriptInv, DoneBefore
    <3>. QED  BY <1>1, <3>1, <3>2 DEF Grants, SetUp
  <2>6. pc' \in DOMAIN After \cup {"write", "registerTee", "replay", "goodbye", "pause"}
    BY <1>1, <2>1 DEF After, Grants
  <2>7. wait' = FALSE
    BY <1>0, <1>1, <2>1 DEF ScriptType
  <2>. QED  BY <1>1, <2>1, <2>2, <2>4, <2>5, <2>6, <2>7, GoOn
<1>. QED  BY <1>2, <1>3


\* What the contract's ID is known to be when setExtensionId is passed over.
LEMMA GoToHello ==
  ASSUME Inv, pc \in {"bind", "replay"}, ~wait, bound[chain][loc.sender] # None,
         pc' = "hello", UNCHANGED <<wait, loc>>,
         UNCHANGED <<onChain, pool, receipt, checkout, node, events>>
  PROVE  Inv'
<1>0. VarInv /\ ScriptType /\ ScriptInv /\ TeeInv
  BY DEF Inv
<1>1. UNCHANGED <<bound, env, chain>>
  BY DEF onChain, checkout, chain
<1>2. ScriptInv'
  BY <1>0, <1>1 DEF ScriptInv, HasEnv, DoneBefore
<1>3. wait' = FALSE /\ loc' \in [chain : Chains, sender : Nat, id : Nat, targets : SUBSET Machine]
  BY <1>0 DEF ScriptType, chain
<1>4. \A m \in loc'.targets : m.tee < node.tee
  BY <1>0 DEF TeeInv
<1>5. pc' \in DOMAIN After
  BY DEF After
<1>. QED  BY <1>2, <1>3, <1>4, <1>5, GoOn

\* The steps around setExtensionId.
LEMMA BindSteps ==
  ASSUME Inv, SetExtensionId \/ ReplaySetExtensionId
  PROVE  Inv'
<1>0. VarInv /\ ScriptType /\ ScriptInv
  BY DEF Inv
<1>t. receipt \in [Chains -> [ok : BOOLEAN, val : Nat]] /\ events \in 0 .. MaxEvents
  BY <1>0 DEF VarInv
<1>1. CASE SetExtensionId
  <2>1. pc = "bind" /\ ~wait /\ UNCHANGED <<onChain, receipt, checkout, node, events>>
    BY <1>1 DEF SetExtensionId, Due
  <2>2. CASE Accepts(chain, Bind)
    <3>1. Send(Bind)
      BY <1>1, <2>2 DEF SetExtensionId
    <3>2. Bind \in Txs /\ Bind.op = "bind" /\ Bind.arg = loc.sender
      BY <1>0 DEF Bind, Tx, Txs, After, ScriptType
    <3>. QED  BY <2>1, <3>1, <3>2, SendKeeps DEF After, Grants
  <2>3. CASE ~Accepts(chain, Bind)
    <3>1. PICK n \in Telling :
             IF "already set" \in SendErrorSays(n, EstimateError(n, Outcome(chain, Bind)),
                                                Outcome(chain, Bind))
             THEN pc' = "hello" /\ UNCHANGED <<pool, wait, loc>>
             ELSE End /\ UNCHANGED pool
      BY <1>1, <2>3 DEF SetExtensionId
    <3>2. CASE "already set" \in SendErrorSays(n, EstimateError(n, Outcome(chain, Bind)),
                                               Outcome(chain, Bind))
      <4>1. Outcome(chain, Bind).reason = "already set"
        BY <3>2, SendSays
      <4>. QED  BY <2>1, <3>1, <3>2, <4>1, AlreadySetIsSet, GoToHello
    <3>3. CASE "already set" \notin SendErrorSays(n, EstimateError(n, Outcome(chain, Bind)),
                                                  Outcome(chain, Bind))
      BY <1>t, <2>1, <3>1, <3>3, EndKeeps
    <3>. QED  BY <3>2, <3>3
  <2>. QED  BY <2>2, <2>3
<1>2. CASE ReplaySetExtensionId
  <2>1. pc = "replay" /\ ~wait /\ UNCHANGED <<onChain, pool, receipt, checkout, node, events>>
    BY <1>2 DEF ReplaySetExtensionId, Due
  <2>2. PICK n \in Telling :
           IF "already set" \in SendErrorSays(n, NetworkError, Outcome(chain, Bind))
           THEN pc' = "hello" /\ UNCHANGED <<wait, loc>> ELSE End
    BY <1>2 DEF ReplaySetExtensionId
  <2>3. CASE "already set" \in SendErrorSays(n, NetworkError, Outcome(chain, Bind))
    <3>1. Outcome(chain, Bind).reason = "already set"
      BY <2>3, SendSays
    <3>. QED  BY <2>1, <2>2, <2>3, <3>1, AlreadySetIsSet, GoToHello
  <2>4. CASE "already set" \notin SendErrorSays(n, NetworkError, Outcome(chain, Bind))
    BY <1>t, <2>1, <2>2, <2>4, EndKeeps
  <2>. QED  BY <2>3, <2>4
<1>. QED  BY <1>1, <1>2

\* A send without an answer may leave a transaction nobody waits for.
LEMMA LostStep ==
  ASSUME Inv, SetExtensionIdLost
  PROVE  Inv'
<1>0. /\ VarInv /\ ScriptType /\ ChainsOK /\ EnvInv /\ TeeInv /\ NodeInv /\ TestInv
      /\ ScriptInv /\ WaitInv
  BY DEF Inv
<1>1. /\ pc = "bind" /\ wait = FALSE /\ wait' = FALSE /\ pc' = "replay"
      /\ UNCHANGED <<loc, chain>>
      /\ UNCHANGED <<contracts, bound, registry, machines, paused, receipt, dotenv, env,
                     stage, tested, node>>
      /\ UNCHANGED pool \/ pool' = [pool EXCEPT ![chain] = Append(@, Bind)]
  BY <1>0 DEF SetExtensionIdLost, Due, onChain, checkout, chain, ScriptType
<1>2. receipt' \in [Chains -> [ok : BOOLEAN, val : Nat]] /\ events' \in 0 .. MaxEvents
  BY <1>1, OtherTypes DEF SetExtensionIdLost
<1>3. PICK c \in Chains : c = chain
  BY <1>0, <1>1 DEF ScriptType
<1>4. HasEnv(c) /\ loc.sender = env[c].sender
  BY <1>0, <1>1, <1>3 DEF ScriptInv
<1>5. loc.sender \in 1 .. contracts[c]
  BY <1>0, <1>4, EnvNames
<1>6. Bind \in Txs /\ Bind.op = "bind" /\ Bind.arg = loc.sender
  BY <1>0 DEF Bind, Tx, Txs, After, ScriptType
<1>7. /\ DOMAIN pool' = Chains /\ \A d \in Chains \ {c} : pool'[d] = pool[d]
      /\ pool'[c] = pool[c] \/ pool'[c] = Append(pool[c], Bind)
  BY <1>0, <1>1, <1>3 DEF VarInv
<1>8. ChainOK(contracts[c], bound[c], registry[c], pool[c])
  BY <1>0 DEF ChainsOK
<1>9. /\ ChainOK(contracts[c], bound[c], registry[c], pool'[c])
      /\ \A k \in DOMAIN pool'[c] :
            (k \in DOMAIN pool[c] /\ pool'[c][k] = pool[c][k]) \/ pool'[c][k] = Bind
  <2>1. CASE pool'[c] = pool[c]
    BY <1>8, <2>1
  <2>2. CASE pool'[c] = Append(pool[c], Bind)
    <3>1. /\ Bind.op \in {"register", "bind"} => Bind.arg \in 1 .. contracts[c]
          /\ Bind.op = "register" => Unnamed(registry[c], pool[c], Bind.arg)
      BY <1>5, <1>6
    <3>. QED  BY <1>6, <1>8, <2>2, <3>1, ChainSend
  <2>. QED  BY <1>7, <2>1, <2>2
<1>10. ChainsOK' /\ VarInv'
  BY <1>0, <1>1, <1>2, <1>7, <1>9 DEF ChainsOK, VarInv
<1>11. EnvInv' /\ TestInv' /\ NodeInv'
  BY <1>0, <1>1 DEF EnvInv, Ext, Ids, TestInv, HasEnv, HadMachine, NodeInv
<1>12. TeeInv'
  <2>1. \A k \in DOMAIN pool'[c] :
           pool'[c][k].op = "registerTee" => pool'[c][k].arg.tee <= node.tee
    BY <1>0, <1>6, <1>9 DEF TeeInv
  <2>. QED  BY <1>0, <1>1, <1>7, <2>1 DEF TeeInv
<1>13. ScriptType' /\ WaitInv'
  BY <1>0, <1>1 DEF ScriptType, WaitInv
<1>14. ScriptInv'
  BY <1>1, <1>3, <1>4 DEF ScriptInv, DoneBefore, HasEnv
<1>. QED  BY <1>10, <1>11, <1>12, <1>13, <1>14 DEF Inv

\* The receipt is taken for success only where the step has had its effect.
LEMMA SuccessTells ==
  ASSUME Inv, wait, pool[chain] = <<>>, NEW n, Succeeded(n)
  PROVE  pc # "version" => Result
<1>0. WaitInv /\ ScriptType
  BY DEF Inv
<1>1. receipt[chain].ok => Result
  BY <1>0 DEF WaitInv
<1>2. CASE pc = "bind" /\ ~receipt[chain].ok
  <2>1. "already set" \in SimulateAndDecodeRevert(n, Outcome(chain, Bind)).says
    BY <1>2 DEF Succeeded, AlreadySet, VersionAlreadyExists
  <2>2. Outcome(chain, Bind).reason = "already set"
    BY <2>1, ReplaySays
  <2>3. bound[chain][loc.sender] # None
    BY <2>2, AlreadySetIsSet
  <2>. QED  BY <1>2, <2>3 DEF Result, SetUp
<1>3. CASE pc # "bind" /\ pc # "version" /\ ~receipt[chain].ok
  BY <1>3 DEF Succeeded, AlreadySet, VersionAlreadyExists
<1>. QED  BY <1>1, <1>2, <1>3


\* A receipt that lets the script go on.
LEMMA ReceiptGoesOn ==
  ASSUME Inv, wait, pool[chain] = <<>>, NEW n, Succeeded(n), pc \notin Last,
         receipt' = [receipt EXCEPT ![chain] = NoReceipt],
         pc' = After[pc], wait' = FALSE,
         loc' = CASE pc = "deploy"   -> [loc EXCEPT !.sender = receipt[chain].val]
                  [] pc = "register" -> [loc EXCEPT !.id = RegisteredId]
                  [] OTHER           -> loc,
         UNCHANGED <<onChain, pool, checkout, node, events>>
  PROVE  Inv'
<1>0. VarInv /\ ScriptType /\ ScriptInv /\ TeeInv /\ ChainsOK
  BY DEF Inv
<1>1. chain \in Chains /\ pc \in DOMAIN After /\ pc' = After[pc]
  BY <1>0 DEF ScriptType, After, Last
<1>2. pc # "version" => Result
  BY SuccessTells
<1>3. UNCHANGED <<contracts, bound, registry, env, stage>>
  BY DEF onChain, checkout
<1>4. receipt[chain].val \in Nat
  BY <1>0, <1>1 DEF VarInv
<1>5. loc \in [chain : Chains, sender : Nat, id : Nat, targets : SUBSET Machine]
  BY <1>0, <1>1 DEF ScriptType, chain
<1>6. CASE pc = "deploy"
  <2>1. loc' = [loc EXCEPT !.sender = receipt[chain].val] /\ pc' = "register"
    BY <1>1, <1>6 DEF After
  <2>2. /\ loc' \in [chain : Chains, sender : Nat, id : Nat, targets : SUBSET Machine]
        /\ loc'.chain = loc.chain /\ loc'.sender = receipt[chain].val
        /\ loc'.targets = loc.targets
    BY <1>4, <1>5, <2>1
  <2>3. chain' = chain
    BY <2>2 DEF chain
  <2>4. /\ receipt[chain].val \in 1 .. contracts[chain]
        /\ Unnamed(registry[chain], pool[chain], receipt[chain].val)
    BY <1>2, <1>6 DEF Result, Unnamed, Ids
  <2>5. ScriptInv'
    BY <1>3, <2>1, <2>2, <2>3, <2>4 DEF ScriptInv, DoneBefore
  <2>6. \A m \in loc'.targets : m.tee < node.tee
    BY <1>0, <2>2 DEF TeeInv
  <2>7. pc' \in DOMAIN After
    BY <2>1 DEF After
  <2>. QED  BY <2>2, <2>5, <2>6, <2>7, GoOn
<1>7. CASE pc = "register"
  <2>1. loc' = [loc EXCEPT !.id = receipt[chain].val] /\ pc' = "owners"
    BY <1>1, <1>7 DEF After, RegisteredId
  <2>2. /\ loc' \in [chain : Chains, sender : Nat, id : Nat, targets : SUBSET Machine]
        /\ loc'.chain = loc.chain /\ loc'.sender = loc.sender
        /\ loc'.id = receipt[chain].val /\ loc'.targets = loc.targets
    BY <1>4, <1>5, <2>1
  <2>3. chain' = chain
    BY <2>2 DEF chain
  <2>4. /\ receipt[chain].val \in DOMAIN registry[chain] /\ loc.sender \in 1 .. contracts[chain]
        /\ registry[chain][receipt[chain].val].sender = loc.sender
    BY <1>0, <1>2, <1>7 DEF Result, ScriptInv, Ids
  <2>5. Ext(chain, loc.id, loc.sender, {})'
    BY <1>3, <2>2, <2>3, <2>4 DEF Ext, Ids
  <2>6. ScriptInv'
    BY <2>1, <2>5 DEF ScriptInv, DoneBefore
  <2>7. \A m \in loc'.targets : m.tee < node.tee
    BY <1>0, <2>2 DEF TeeInv
  <2>8. pc' \in DOMAIN After
    BY <2>1 DEF After
  <2>. QED  BY <2>2, <2>6, <2>7, <2>8, GoOn
<1>8. CASE pc \notin {"deploy", "register"}
  <2>1. loc' = loc /\ chain' = chain
    BY <1>8 DEF chain
  <2>2. \A m \in loc'.targets : m.tee < node.tee
    BY <1>0, <2>1 DEF TeeInv
  <2>3. pc' \in DOMAIN After \cup {"write", "registerTee", "goodbye"}
    BY <1>1 DEF After
  <2>4. CASE pc \in SetUp
    <3>1. /\ pc' \in {"projects", "keys", "write"}
          /\ DoneBefore[pc'] \subseteq DoneBefore[pc] \cup {pc}
      BY <2>4 DEF SetUp, After, DoneBefore
    <3>2. Ext(chain, loc.id, loc.sender, DoneBefore[pc])
      BY <1>0, <2>4 DEF ScriptInv, SetUp, DoneBefore
    <3>3. pc \in registry[chain][loc.id].granted
      BY <1>2, <2>4 DEF Result, SetUp
    <3>4. Ext(chain, loc.id, loc.sender, DoneBefore[pc'])
      BY <3>1, <3>2, <3>3 DEF Ext
    <3>5. Ext(chain, loc.id, loc.sender, DoneBefore[pc])'
      BY <1>3, <2>1, <3>4 DEF Ext, Ids
    <3>6. ScriptInv'
      BY <3>1, <3>5 DEF ScriptInv
    <3>. QED  BY <1>5, <2>1, <2>2, <2>3, <3>6, GoOn
  <2>5. CASE pc \in {"version", "governance"}
    <3>1. pc' \in {"governance", "registerTee"}
      BY <2>5 DEF After
    <3>2. ScriptInv'
      BY <1>0, <1>3, <2>1, <2>5, <3>1 DEF ScriptInv, DoneBefore
    <3>. QED  BY <1>5, <2>1, <2>2, <2>3, <3>2, GoOn
  <2>6. CASE pc \in {"bind", "hello"}
    <3>1. pc' \in {"hello", "goodbye"}
      BY <2>6 DEF After
    <3>2. bound[chain][loc.sender] # None
      BY <1>0, <1>2, <2>6 DEF ScriptInv, Result
    <3>3. ScriptInv'
      BY <1>0, <1>3, <2>1, <2>6, <3>1, <3>2 DEF ScriptInv, HasEnv, DoneBefore
    <3>. QED  BY <1>5, <2>1, <2>2, <2>3, <3>3, GoOn
  <2>. QED  BY <1>1, <1>8, <2>4, <2>5, <2>6 DEF After, SetUp
<1>. QED  BY <1>6, <1>7, <1>8

\* A receipt that ends the script: a machine is registered, a test has passed.
LEMMA ReceiptEnds ==
  ASSUME Inv, wait, pool[chain] = <<>>, NEW n, End,
         receipt' = [receipt EXCEPT ![chain] = NoReceipt],
         tested' = IF Succeeded(n) /\ pc = "goodbye" THEN tested \cup {chain} ELSE tested,
         stage' = IF Succeeded(n) /\ pc = "registerTee" THEN [stage EXCEPT ![chain] = "done"]
                  ELSE stage,
         UNCHANGED <<onChain, pool, dotenv, env, node, events>>
  PROVE  Inv'
<1>0. /\ VarInv /\ ScriptType /\ ChainsOK /\ EnvInv /\ TeeInv /\ NodeInv /\ TestInv
      /\ ScriptInv /\ WaitInv
  BY DEF Inv
<1>1. chain \in Chains
  BY <1>0 DEF ScriptType, After, Last
<1>2. UNCHANGED <<contracts, bound, registry, machines, paused>>
  BY DEF onChain
<1>3. stage' \in [Chains -> {"none", "built", "started", "done"}] /\ tested' \in SUBSET Chains
  BY <1>0, <1>1 DEF VarInv
<1>4. VarInv' /\ ChainsOK'
  BY <1>0, <1>2, <1>3, OtherTypes DEF VarInv, ChainsOK
<1>5. EnvInv'
  BY <1>0, <1>2 DEF EnvInv, Ext, Ids
<1>6. TeeInv'
  BY <1>0, <1>2, EndKnows DEF TeeInv
<1>7. NodeInv'
  <2>1. pc = "registerTee" => stage[chain] \in {"started", "done"}
    BY <1>0 DEF ScriptInv
  <2>2. \A c \in Chains : stage'[c] \in {"started", "done"} => stage[c] \in {"started", "done"}
    BY <1>0, <2>1 DEF VarInv
  <2>. QED  BY <1>0, <2>2 DEF NodeInv
<1>8. TestInv'
  <2>1. \A c \in tested : HasEnv(c) /\ node.tee # 0 /\ bound[c][env[c].sender] # None
                            /\ HadMachine(c, env[c].id)
    BY <1>0 DEF TestInv
  <2>2. ASSUME Succeeded(n), pc = "goodbye"
        PROVE  /\ HasEnv(chain) /\ node.tee # 0 /\ bound[chain][env[chain].sender] # None
               /\ HadMachine(chain, env[chain].id)
    <3>1. /\ HasEnv(chain) /\ loc.sender = env[chain].sender
          /\ bound[chain][loc.sender] # None
      BY <1>0, <2>2 DEF ScriptInv
    <3>2. Result
      BY <2>2, SuccessTells
    <3>3. PICK m \in machines[chain] \cup paused[chain] : m.ext = bound[chain][loc.sender]
      BY <2>2, <3>2 DEF Result, HadMachine
    <3>4. bound[chain][loc.sender] = env[chain].id
      BY <1>0, <1>1, <3>1, EnvBound
    <3>5. m \in Machine /\ (m.tee <= node.tee \/ m.tee < node.tee)
      BY <1>0, <1>1 DEF VarInv, TeeInv
    <3>6. node.tee \in Nat /\ m.tee \in Nat /\ m.tee # 0
      BY <1>0, <3>5 DEF VarInv, Machine
    <3>7. node.tee # 0
      BY <3>5, <3>6
    <3>. QED  BY <3>1, <3>3, <3>4, <3>7 DEF HadMachine
  <2>3. \A c \in tested' : HasEnv(c) /\ node.tee # 0 /\ bound[c][env[c].sender] # None
                             /\ HadMachine(c, env[c].id)
    BY <2>1, <2>2
  <2>. QED  BY <1>2, <2>3 DEF TestInv, HasEnv, HadMachine
<1>. QED  BY <1>4, <1>5, <1>6, <1>7, <1>8, EndKnows DEF Inv

\* CheckTx and what follows it.
LEMMA ReceiptStep ==
  ASSUME Inv, Receipt
  PROVE  Inv'
<1>1. /\ wait /\ pool[chain] = <<>>
      /\ receipt' = [receipt EXCEPT ![chain] = NoReceipt]
      /\ UNCHANGED <<onChain, pool, dotenv, env, node, events>>
  BY DEF Receipt
<1>2. PICK n \in Telling :
         /\ IF Succeeded(n) /\ pc \notin Last
            THEN /\ pc' = After[pc] /\ wait' = FALSE
                 /\ loc' = CASE pc = "deploy"   -> [loc EXCEPT !.sender = receipt[chain].val]
                             [] pc = "register" -> [loc EXCEPT !.id = RegisteredId]
                             [] OTHER           -> loc
            ELSE End
         /\ tested' = IF Succeeded(n) /\ pc = "goodbye" THEN tested \cup {chain} ELSE tested
         /\ stage' = IF Succeeded(n) /\ pc = "registerTee" THEN [stage EXCEPT ![chain] = "done"]
                     ELSE stage
  BY DEF Receipt
<1>3. CASE Succeeded(n) /\ pc \notin Last
  <2>1. tested' = tested /\ stage' = stage
    BY <1>2, <1>3 DEF Last
  <2>2. UNCHANGED <<onChain, pool, checkout, node, events>>
    BY <1>1, <2>1 DEF checkout
  <2>. QED  BY <1>1, <1>2, <1>3, <2>2, ReceiptGoesOn
<1>4. CASE ~(Succeeded(n) /\ pc \notin Last)
  BY <1>1, <1>2, <1>4, ReceiptEnds
<1>. QED  BY <1>3, <1>4


\* The end of pre-build, whether or not the file gets filled.
LEMMA EnvSteps ==
  ASSUME Inv, WriteEnv \/ TornEnv
  PROVE  Inv'
<1>0. /\ VarInv /\ ScriptType /\ ChainsOK /\ EnvInv /\ TeeInv /\ NodeInv /\ TestInv
      /\ ScriptInv
  BY DEF Inv
<1>1. /\ pc = "write" /\ End /\ tested' = tested \ {chain}
      /\ UNCHANGED <<contracts, bound, registry, machines, paused, pool, receipt, dotenv, node>>
  BY DEF WriteEnv, TornEnv, Due, onChain
<1>2. PICK c \in Chains : c = chain
  BY <1>0, <1>1 DEF ScriptType
<1>3. PICK e, g : /\ env' = [env EXCEPT ![c] = e] /\ stage' = [stage EXCEPT ![c] = g]
                  /\ g \in {"none", "built"}
                  /\ e = Written(loc.id, loc.sender) \/ e = [NoEnv EXCEPT !.file = "empty"]
  BY <1>2 DEF WriteEnv, TornEnv
<1>4. receipt' \in [Chains -> [ok : BOOLEAN, val : Nat]] /\ events' \in 0 .. MaxEvents
  BY <1>1, OtherTypes DEF WriteEnv, TornEnv
<1>5. /\ env'[c] = e /\ DOMAIN env' = Chains
      /\ \A d \in Chains \ {c} : env'[d] = env[d]
      /\ stage' \in [Chains -> {"none", "built", "started", "done"}]
      /\ stage'[c] = g /\ \A d \in Chains \ {c} : stage'[d] = stage[d]
  BY <1>0, <1>3 DEF VarInv
<1>6. VarInv' /\ ChainsOK'
  BY <1>0, <1>1, <1>4, <1>5 DEF VarInv, ChainsOK
<1>7. TeeInv'
  BY <1>0, <1>1, EndKnows DEF TeeInv
<1>8. NodeInv'
  BY <1>0, <1>1, <1>3, <1>5 DEF NodeInv
<1>9. TestInv'
  <2>1. \A d \in tested' : d \in tested /\ d \in Chains \ {c}
    BY <1>0, <1>1, <1>2 DEF VarInv
  <2>. QED  BY <1>0, <1>1, <1>5, <2>1 DEF TestInv, HasEnv, HadMachine
<1>10. \/ e.file \in {"missing", "empty"} /\ e = [NoEnv EXCEPT !.file = e.file]
       \/ /\ e \in [file : {"written"}, id : Nat, sender : Nat]
          /\ Ext(c, e.id, e.sender, SetUp)
  <2>1. CASE e = Written(loc.id, loc.sender)
    <3>1. Ext(c, loc.id, loc.sender, SetUp)
      BY <1>0, <1>1, <1>2 DEF ScriptInv, DoneBefore
    <3>2. e \in [file : {"written"}, id : Nat, sender : Nat] /\ e.id = loc.id /\ e.sender = loc.sender
      BY <1>0, <2>1 DEF Written, ScriptType
    <3>. QED  BY <3>1, <3>2
  <2>2. CASE e = [NoEnv EXCEPT !.file = "empty"]
    BY <2>2 DEF NoEnv
  <2>. QED  BY <1>3, <2>1, <2>2
<1>11. \A d \in Chains : \A i, t : Ext(d, i, t, SetUp) => Ext(d, i, t, SetUp)'
  BY <1>1 DEF Ext, Ids
<1>12. EnvInv'
  <2> SUFFICES ASSUME NEW d \in Chains
               PROVE  \/ /\ env'[d].file \in {"missing", "empty"}
                         /\ env'[d] = [NoEnv EXCEPT !.file = env'[d].file]
                      \/ /\ env'[d] \in [file : {"written"}, id : Nat, sender : Nat]
                         /\ Ext(d, env'[d].id, env'[d].sender, SetUp)
    BY <1>11 DEF EnvInv, Ext, Ids
  <2>1. CASE d = c
    BY <1>5, <1>10, <2>1
  <2>2. CASE d # c
    <3>1. env'[d] = env[d]
      BY <1>5, <2>2
    <3>. QED  BY <1>0, <3>1 DEF EnvInv
  <2>. QED  BY <2>1, <2>2
<1>. QED  BY <1>1, <1>6, <1>7, <1>8, <1>9, <1>12, EndKnows DEF Inv

\* A script that stops, and a machine that is not paused after all.
LEMMA GiveUpSteps ==
  ASSUME Inv, SkipPause \/ Abort
  PROVE  Inv'
<1>0. ScriptType /\ TeeInv
  BY DEF Inv
<1>1. UNCHANGED <<onChain, pool, receipt, checkout, node>> /\ Disturbance
  BY DEF SkipPause, Abort
<1>2. CASE End
  BY <1>1, <1>2, OtherTypes, EndKeeps
<1>3. CASE ~End
  <2>1. PICK m \in loc.targets :
          /\ pc = "pause" /\ wait = FALSE
          /\ loc' = [loc EXCEPT !.targets = @ \ {m}] /\ UNCHANGED <<pc, wait>>
    BY <1>0, <1>3 DEF SkipPause, Abort, Due, ScriptType
  <2>2. loc \in [chain : Chains, sender : Nat, id : Nat, targets : SUBSET Machine]
    BY <1>0, <2>1 DEF ScriptType, chain
  <2>3. /\ loc' \in [chain : Chains, sender : Nat, id : Nat, targets : SUBSET Machine]
        /\ loc'.targets \subseteq loc.targets
    BY <2>1, <2>2
  <2>4. \A t \in loc'.targets : t.tee < node.tee
    BY <1>0, <2>3 DEF TeeInv
  <2>5. ScriptInv'
    BY <2>1 DEF ScriptInv, DoneBefore
  <2>. QED  BY <1>1, <2>1, <2>3, <2>4, <2>5, GoOn
<1>. QED  BY <1>2, <1>3

\* A stale machine is paused.
LEMMA PauseStep ==
  ASSUME Inv, Pause
  PROVE  Inv'
<1>0. /\ VarInv /\ ScriptType /\ ChainsOK /\ EnvInv /\ TeeInv /\ NodeInv /\ TestInv
  BY DEF Inv
<1>1. /\ pc = "pause" /\ wait = FALSE
      /\ UNCHANGED <<contracts, bound, registry, pool, receipt, dotenv, env, stage, tested,
                     node, events>>
  BY <1>0 DEF Pause, Due, checkout, ScriptType
<1>2. PICK c \in Chains : c = chain
  BY <1>0, <1>1 DEF ScriptType
<1>3. PICK m \in loc.targets :
        /\ machines' = [machines EXCEPT ![c] = @ \ {m}]
        /\ paused' = [paused EXCEPT ![c] = @ \cup {m}]
        /\ IF loc.targets = {m} THEN End
           ELSE loc' = [loc EXCEPT !.targets = @ \ {m}] /\ UNCHANGED <<pc, wait>>
  BY <1>2 DEF Pause
<1>4. m \in Machine /\ m.tee < node.tee
  BY <1>0 DEF ScriptType, TeeInv
<1>5. /\ machines' \in [Chains -> SUBSET Machine] /\ paused' \in [Chains -> SUBSET Machine]
      /\ \A d \in Chains : /\ machines'[d] \subseteq machines[d]
                           /\ paused'[d] \subseteq paused[d] \cup {m}
                           /\ machines[d] \cup paused[d] \subseteq machines'[d] \cup paused'[d]
  BY <1>0, <1>3, <1>4 DEF VarInv
<1>6. VarInv' /\ ChainsOK' /\ NodeInv'
  BY <1>0, <1>1, <1>5 DEF VarInv, ChainsOK, NodeInv
<1>7. EnvInv'
  BY <1>0, <1>1 DEF EnvInv, Ext, Ids
<1>8. TestInv'
  <2>1. \A d \in tested : d \in Chains
    BY <1>0 DEF VarInv
  <2>2. \A d \in Chains : \A i : HadMachine(d, i) => HadMachine(d, i)'
    BY <1>5 DEF HadMachine
  <2>3. \A d \in tested : /\ HasEnv(d)' /\ node'.tee # 0 /\ bound'[d][env'[d].sender] # None
                           /\ HadMachine(d, env[d].id)'
    BY <1>0, <1>1, <2>1, <2>2 DEF TestInv, HasEnv
  <2>. QED  BY <1>1, <2>3 DEF TestInv, HadMachine
<1>9. ScriptType' /\ ScriptInv' /\ WaitInv' /\ \A t \in loc'.targets : t.tee < node.tee
  <2>1. CASE loc.targets = {m}
    BY <1>3, <2>1, EndKnows
  <2>2. CASE loc.targets # {m}
    <3>1. loc' = [loc EXCEPT !.targets = @ \ {m}] /\ UNCHANGED <<pc, wait>>
      BY <1>3, <2>2
    <3>2. loc \in [chain : Chains \cup {NoFlag}, sender : Nat, id : Nat, targets : SUBSET Machine]
      BY <1>0 DEF ScriptType
    <3>3. /\ loc' \in [chain : Chains \cup {NoFlag}, sender : Nat, id : Nat, targets : SUBSET Machine]
          /\ loc'.targets \subseteq loc.targets /\ loc'.chain = loc.chain
      BY <3>1, <3>2
    <3>4. ScriptType'
      BY <1>0, <3>1, <3>3 DEF ScriptType, chain
    <3>5. ScriptInv' /\ WaitInv'
      BY <1>1, <3>1 DEF ScriptInv, DoneBefore, WaitInv
    <3>. QED  BY <1>0, <3>3, <3>4, <3>5 DEF TeeInv
  <2>. QED  BY <2>1, <2>2
<1>10. TeeInv'
  BY <1>0, <1>1, <1>4, <1>5, <1>9 DEF TeeInv
<1>. QED  BY <1>6, <1>7, <1>8, <1>9, <1>10 DEF Inv


-----------------------------------------------------------------------------
(* The operator, and the node.                                             *)

\* The chain a script works on is one of config/.
LEMMA Resolved ==
  ASSUME VarInv, NEW flag \in Flags
  PROVE  Resolve(flag) \in Chains
BY ChainsAssumption DEF VarInv, Resolve

\* Nothing but the CHAIN of .env changes.
LEMMA UseChainStep ==
  ASSUME Inv, NEW c \in Chains, UseChain(c)
  PROVE  Inv'
<1>0. /\ VarInv /\ ScriptType /\ ChainsOK /\ EnvInv /\ TeeInv /\ NodeInv /\ TestInv
      /\ ScriptInv /\ WaitInv
  BY DEF Inv
<1>1. /\ pc = "off" /\ dotenv' = c
      /\ UNCHANGED <<contracts, bound, registry, machines, paused, pool, receipt, env, stage,
                     tested, node, pc, wait, loc, chain>>
  BY DEF UseChain, onChain, script, chain
<1>2. events' \in 0 .. MaxEvents
  BY <1>1, OtherTypes DEF UseChain
<1>3. VarInv' /\ ChainsOK' /\ NodeInv' /\ TeeInv' /\ ScriptType'
  BY <1>0, <1>1, <1>2 DEF VarInv, ChainsOK, NodeInv, TeeInv, ScriptType
<1>4. EnvInv' /\ TestInv'
  BY <1>0, <1>1 DEF EnvInv, Ext, Ids, TestInv, HasEnv, HadMachine
<1>5. ScriptInv'
  BY <1>1 DEF ScriptInv, DoneBefore
<1>6. WaitInv'
  BY <1>0, <1>1 DEF WaitInv, ScriptType, After, Last
<1>. QED  BY <1>3, <1>4, <1>5, <1>6 DEF Inv

\* A script begins, knowing what is due at its first step.
LEMMA BeginKeeps ==
  ASSUME Inv, NEW step, NEW locals, Begin(step, locals),
         UNCHANGED <<onChain, pool, receipt, checkout, node>>,
         UNCHANGED events \/ Disturbance,
         step \in DOMAIN After \cup {"pause"},
         locals \in [chain : Chains, sender : Nat, id : Nat, targets : SUBSET Machine],
         \A m \in locals.targets : m.tee < node.tee,
         ScriptInv'
  PROVE  Inv'
<1>1. pc = "off" /\ pc' = step /\ loc' = locals /\ wait' = FALSE
  <2>1. ScriptType
    BY DEF Inv
  <2>2. pc = "off" /\ pc' = step /\ loc' = locals /\ wait' = wait
    BY DEF Begin
  <2>3. wait = FALSE
    BY <2>1, <2>2 DEF ScriptType, After, Last
  <2>. QED  BY <2>2, <2>3
<1>. QED  BY <1>1, GoOn

\* The scripts that begin.
LEMMA BeginSteps ==
  ASSUME Inv, NEW flag \in Flags,
         PreBuild(flag) \/ PostBuild(flag) \/ Test(flag) \/ CheckTeeMachines(flag)
  PROVE  Inv'
<1>0. VarInv /\ ScriptType /\ EnvInv /\ NodeInv /\ TeeInv
  BY DEF Inv
<1>1. PICK c \in Chains : c = Resolve(flag)
  BY <1>0, Resolved
<1>2. CASE PreBuild(flag)
  <2>1. PICK l : l = [NoLocals EXCEPT !.chain = c]
    OBVIOUS
  <2>2. /\ Begin("deploy", l) /\ UNCHANGED <<onChain, pool, receipt, checkout, node>>
        /\ UNCHANGED events \/ Disturbance
    BY <1>1, <1>2, <2>1 DEF PreBuild
  <2>3. /\ l \in [chain : Chains, sender : Nat, id : Nat, targets : SUBSET Machine]
        /\ l.targets = {}
    BY <2>1 DEF NoLocals, None
  <2>4. ScriptInv'
    BY <2>2 DEF Begin, ScriptInv, DoneBefore
  <2>5. "deploy" \in DOMAIN After
    BY DEF After
  <2>. QED  BY <2>2, <2>3, <2>4, <2>5, BeginKeeps
<1>3. CASE PostBuild(flag)
  <2>1. PICK l : l = [NoLocals EXCEPT !.chain = c, !.id = node.ext]
    OBVIOUS
  <2>2. /\ Begin("version", l) /\ UNCHANGED <<onChain, pool, receipt, checkout, node, events>>
        /\ stage[c] \in {"started", "done"}
    BY <1>1, <1>3, <2>1 DEF PostBuild
  <2>3. node.ext \in Nat /\ node.ext # None
    BY <1>0, <2>2 DEF VarInv, NodeInv
  <2>4. /\ l \in [chain : Chains, sender : Nat, id : Nat, targets : SUBSET Machine]
        /\ l.targets = {} /\ l.id = node.ext /\ l.chain = c
    BY <2>1, <2>3 DEF NoLocals, None
  <2>5. pc' = "version" /\ loc' = l /\ chain' = c /\ stage' = stage
    BY <2>2, <2>4 DEF Begin, chain, checkout
  <2>6. ScriptInv'
    BY <2>2, <2>3, <2>4, <2>5 DEF ScriptInv, DoneBefore
  <2>7. "version" \in DOMAIN After
    BY DEF After
  <2>. QED  BY <2>2, <2>4, <2>6, <2>7, BeginKeeps
<1>4. CASE Test(flag)
  <2>1. PICK l : l = [NoLocals EXCEPT !.chain = c, !.sender = env[c].sender]
    OBVIOUS
  <2>2. /\ Begin("bind", l) /\ UNCHANGED <<onChain, pool, receipt, checkout, node, events>>
        /\ HasEnv(c)
    BY <1>1, <1>4, <2>1 DEF Test
  <2>3. env[c].sender \in Nat
    BY <1>0, <2>2 DEF EnvInv, HasEnv, NoEnv
  <2>4. /\ l \in [chain : Chains, sender : Nat, id : Nat, targets : SUBSET Machine]
        /\ l.targets = {} /\ l.sender = env[c].sender /\ l.chain = c
    BY <2>1, <2>3 DEF NoLocals, None
  <2>5. pc' = "bind" /\ loc' = l /\ chain' = c /\ env' = env
    BY <2>2, <2>4 DEF Begin, chain, checkout
  <2>6. ScriptInv'
    BY <2>2, <2>4, <2>5 DEF ScriptInv, DoneBefore, HasEnv
  <2>7. "bind" \in DOMAIN After
    BY DEF After
  <2>. QED  BY <2>2, <2>4, <2>6, <2>7, BeginKeeps
<1>5. CASE CheckTeeMachines(flag)
  <2>1. PICK l : l = [NoLocals EXCEPT !.chain = c, !.targets = Stale(c)]
    OBVIOUS
  <2>2. /\ Begin("pause", l) /\ UNCHANGED <<onChain, pool, receipt, checkout, node, events>>
    BY <1>1, <1>5, <2>1 DEF CheckTeeMachines
  <2>3. \A m \in Stale(c) : m \in machines[c] /\ m \in Machine /\ m.tee # node.tee
    BY <1>0 DEF Stale, ActiveFor, VarInv
  <2>4. ASSUME NEW m \in Stale(c)
        PROVE  m.tee < node.tee
    <3>1. m.tee \in Nat /\ node.tee \in Nat
      BY <1>0, <2>3 DEF VarInv, Machine
    <3>2. m.tee <= node.tee /\ m.tee # node.tee
      BY <1>0, <2>3 DEF TeeInv
    <3>. QED  BY <3>1, <3>2
  <2>5. /\ l \in [chain : Chains, sender : Nat, id : Nat, targets : SUBSET Machine]
        /\ l.targets = Stale(c)
    BY <2>1, <2>3 DEF NoLocals, None
  <2>6. ScriptInv'
    BY <2>2 DEF Begin, ScriptInv, DoneBefore
  <2>. QED  BY <2>2, <2>4, <2>5, <2>6, BeginKeeps
<1>. QED  BY <1>2, <1>3, <1>4, <1>5

\* teeIDs grow with every launch.
LEMMA LaunchKeeps ==
  ASSUME Inv, node'.tee = node.tee + 1,
         UNCHANGED <<machines, paused, pool, loc>>
  PROVE  TeeInv' /\ node'.tee \in Nat \ {0}
<1>0. VarInv /\ ScriptType /\ ChainsOK /\ TeeInv
  BY DEF Inv
<1>1. PICK t \in Nat : t = node.tee
  BY <1>0 DEF VarInv
<1>2. node'.tee = t + 1
  BY <1>1
<1>3. ASSUME NEW c \in Chains
      PROVE  /\ \A m \in machines[c] : m.tee <= t + 1
             /\ \A m \in paused[c] : m.tee < t + 1
             /\ \A k \in DOMAIN pool[c] :
                  pool[c][k].op = "registerTee" => pool[c][k].arg.tee <= t + 1
  <2>1. machines[c] \in SUBSET Machine /\ paused[c] \in SUBSET Machine
    BY <1>0 DEF VarInv
  <2>2. \A m \in machines[c] : m.tee \in Nat /\ m.tee <= t
    BY <1>0, <1>1, <2>1 DEF TeeInv, Machine
  <2>3. \A m \in paused[c] : m.tee \in Nat /\ m.tee < t
    BY <1>0, <1>1, <2>1 DEF TeeInv, Machine
  <2>4. pool[c] \in Seq(Txs)
    BY <1>0 DEF ChainsOK, ChainOK
  <2>5. ASSUME NEW k \in DOMAIN pool[c], pool[c][k].op = "registerTee"
        PROVE  pool[c][k].arg.tee <= t + 1
    <3>1. pool[c][k] \in Txs
      BY <2>4
    <3>2. pool[c][k].arg \in Machine
      BY <2>5, <3>1, TxArg
    <3>3. pool[c][k].arg.tee \in Nat /\ pool[c][k].arg.tee <= t
      BY <1>0, <1>1, <2>5, <3>2 DEF TeeInv, Machine
    <3>. QED  BY <3>3
  <2>. QED  BY <2>2, <2>3, <2>5
<1>4. \A m \in loc.targets : m.tee < t + 1
  <2>1. \A m \in loc.targets : m \in Machine
    BY <1>0 DEF ScriptType
  <2>2. \A m \in loc.targets : m.tee \in Nat /\ m.tee < t
    BY <1>0, <1>1, <2>1 DEF TeeInv, Machine
  <2>. QED  BY <2>2
<1>5. TeeInv'
  BY <1>2, <1>3, <1>4 DEF TeeInv
<1>. QED  BY <1>1, <1>2, <1>5

\* start-services launches a node for the extension of the file it reads.
LEMMA StartStep ==
  ASSUME Inv, NEW flag \in Flags, StartServices(flag)
  PROVE  Inv'
<1>0. /\ VarInv /\ ScriptType /\ ChainsOK /\ EnvInv /\ TeeInv /\ NodeInv /\ TestInv
      /\ ScriptInv /\ WaitInv
  BY DEF Inv
<1>1. /\ pc = "off" /\ HasEnv(dotenv)
      /\ node' = [tee |-> node.tee + 1, ext |-> env[dotenv].id, chain |-> Resolve(flag)]
      /\ stage' = [c \in Chains |->
                     IF c = Resolve(flag) THEN "started"
                     ELSE IF stage[c] = "none" THEN "none" ELSE "built"]
      /\ UNCHANGED <<contracts, bound, registry, machines, paused, pool, receipt, dotenv, env,
                     tested, pc, wait, loc, chain, events>>
  BY DEF StartServices, onChain, script, chain
<1>2. Resolve(flag) \in Chains /\ dotenv \in Chains
  BY <1>0, Resolved DEF VarInv
<1>3. env[dotenv].id \in Nat \ {None}
  <2>1. Ext(dotenv, env[dotenv].id, env[dotenv].sender, SetUp)
    BY <1>0, <1>1, <1>2 DEF EnvInv, HasEnv
  <2>2. registry[dotenv] \in Seq(Extensions(contracts[dotenv]))
    BY <1>0, <1>2 DEF ChainsOK, ChainOK
  <2>. QED  BY <2>1, <2>2 DEF Ext, Ids, None
<1>4. TeeInv' /\ node'.tee \in Nat \ {0}
  BY <1>1, LaunchKeeps
<1>5. node' \in [tee : Nat, ext : Nat, chain : Chains \cup {NoFlag}] /\ node'.ext # None
  BY <1>1, <1>2, <1>3, <1>4
<1>6. stage' \in [Chains -> {"none", "built", "started", "done"}]
  BY <1>1
<1>7. VarInv' /\ ChainsOK' /\ NodeInv' /\ ScriptType'
  BY <1>0, <1>1, <1>4, <1>5, <1>6 DEF VarInv, ChainsOK, NodeInv, ScriptType
<1>8. EnvInv' /\ TestInv'
  BY <1>0, <1>1, <1>4 DEF EnvInv, Ext, Ids, TestInv, HasEnv, HadMachine
<1>9. ScriptInv'
  BY <1>1 DEF ScriptInv, DoneBefore
<1>10. WaitInv'
  BY <1>0, <1>1 DEF WaitInv, ScriptType, After, Last
<1>. QED  BY <1>4, <1>7, <1>8, <1>9, <1>10 DEF Inv

\* A relaunch under a running script.
LEMMA RelaunchStep ==
  ASSUME Inv, Relaunch
  PROVE  Inv'
<1>0. /\ VarInv /\ ScriptType /\ ChainsOK /\ EnvInv /\ TeeInv /\ NodeInv /\ TestInv
      /\ ScriptInv /\ WaitInv
  BY DEF Inv
<1>1. /\ node.tee # 0 /\ node' = [node EXCEPT !.tee = @ + 1]
      /\ UNCHANGED <<contracts, bound, registry, machines, paused, pool, receipt, dotenv, env,
                     stage, tested, pc, wait, loc, chain>>
  BY DEF Relaunch, onChain, checkout, script, chain
<1>2. events' \in 0 .. MaxEvents
  BY <1>1, OtherTypes DEF Relaunch
<1>3. node'.tee = node.tee + 1
  BY <1>0, <1>1 DEF VarInv
<1>4. TeeInv' /\ node'.tee \in Nat \ {0}
  BY <1>1, <1>3, LaunchKeeps
<1>5. node' \in [tee : Nat, ext : Nat, chain : Chains \cup {NoFlag}] /\ node'.ext = node.ext
  BY <1>0, <1>1, <1>3, <1>4 DEF VarInv
<1>6. VarInv' /\ ChainsOK' /\ NodeInv' /\ ScriptType'
  BY <1>0, <1>1, <1>2, <1>4, <1>5 DEF VarInv, ChainsOK, NodeInv, ScriptType
<1>7. EnvInv' /\ TestInv'
  BY <1>0, <1>1, <1>4 DEF EnvInv, Ext, Ids, TestInv, HasEnv, HadMachine
<1>8. ScriptInv'
  BY <1>0, <1>1 DEF ScriptInv, Ext, Ids, HasEnv
<1>9. WaitInv'
  BY <1>0, <1>1 DEF WaitInv, Result, Ids, HadMachine
<1>. QED  BY <1>4, <1>6, <1>7, <1>8, <1>9 DEF Inv


-----------------------------------------------------------------------------
(* The invariant.                                                          *)

\* A fresh checkout on chains it has not been to.
LEMMA InitKeeps ==
  ASSUME Init
  PROVE  Inv
<1>1. /\ contracts = [c \in Chains |-> 0] /\ bound = [c \in Chains |-> <<>>]
      /\ registry = [c \in Chains |-> <<>>] /\ machines = [c \in Chains |-> {}]
      /\ paused = [c \in Chains |-> {}] /\ pool = [c \in Chains |-> <<>>]
      /\ receipt = [c \in Chains |-> NoReceipt] /\ dotenv = CHOOSE c \in Chains : TRUE
      /\ env = [c \in Chains |-> NoEnv] /\ stage = [c \in Chains |-> "none"]
      /\ tested = {} /\ pc = "off" /\ wait = FALSE /\ loc = NoLocals /\ events = 0
      /\ node = [tee |-> 0, ext |-> None, chain |-> NoFlag]
  BY DEF Init
<1>2. VarInv
  <2>1. dotenv \in Chains
    BY <1>1, ChainsAssumption
  <2>2. NoReceipt \in [ok : BOOLEAN, val : Nat]
    BY DEF NoReceipt, None
  <2>3. node \in [tee : Nat, ext : Nat, chain : Chains \cup {NoFlag}]
    BY <1>1 DEF None
  <2>4. events \in 0 .. MaxEvents
    BY <1>1, MaxEventsAssumption
  <2>. QED  BY <1>1, <2>1, <2>2, <2>3, <2>4 DEF VarInv
<1>3. ScriptType
  <2>1. NoLocals \in [chain : Chains \cup {NoFlag}, sender : Nat, id : Nat,
                      targets : SUBSET Machine]
    BY DEF NoLocals, None
  <2>. QED  BY <1>1, <2>1 DEF ScriptType
<1>4. ChainsOK
  <2>1. /\ <<>> \in Seq(Extensions(0)) /\ <<>> \in Seq(0 .. Len(<<>>)) /\ <<>> \in Seq(Txs)
        /\ Len(<<>>) = 0 /\ DOMAIN <<>> = {}
    OBVIOUS
  <2>2. \A s \in 1 .. 0 : FALSE
    OBVIOUS
  <2>3. ChainOK(0, <<>>, <<>>, <<>>)
    BY <2>1, <2>2 DEF ChainOK
  <2>. QED  BY <1>1, <2>3 DEF ChainsOK
<1>5. EnvInv
  <2>1. NoEnv.file = "missing" /\ NoEnv = [NoEnv EXCEPT !.file = NoEnv.file]
    BY DEF NoEnv
  <2>. QED  BY <1>1, <2>1 DEF EnvInv
<1>6. TeeInv
  <2>1. NoLocals.targets = {} /\ DOMAIN <<>> = {}
    BY DEF NoLocals
  <2>. QED  BY <1>1, <2>1 DEF TeeInv
<1>7. NodeInv /\ TestInv
  BY <1>1 DEF NodeInv, TestInv
<1>8. ScriptInv /\ WaitInv
  BY <1>1 DEF ScriptInv, WaitInv, DoneBefore
<1>. QED  BY <1>2, <1>3, <1>4, <1>5, <1>6, <1>7, <1>8 DEF Inv

\* No step leaves the invariant.
LEMMA NextKeeps ==
  ASSUME Inv, [Next]_vars
  PROVE  Inv'
<1>1. CASE Deploy \/ RegisterExtension \/ SendInstruction \/ RegisterTee
  BY <1>1, SendSteps
<1>2. CASE SetupExtension \/ AllowTeeVersion \/ SetTeeGovernance
  BY <1>2, GrantSteps
<1>3. CASE SetExtensionId \/ ReplaySetExtensionId
  BY <1>3, BindSteps
<1>4. CASE SetExtensionIdLost
  BY <1>4, LostStep
<1>5. CASE Receipt
  BY <1>5, ReceiptStep
<1>6. CASE WriteEnv \/ TornEnv
  BY <1>6, EnvSteps
<1>7. CASE SkipPause \/ Abort
  BY <1>7, GiveUpSteps
<1>8. CASE Pause
  BY <1>8, PauseStep
<1>9. CASE Relaunch
  BY <1>9, RelaunchStep
<1>10. ASSUME NEW c \in Chains, UseChain(c) \/ Mine(c) \/ OtherRegisters(c)
       PROVE  Inv'
  BY <1>10, UseChainStep, MineKeeps, OthersKeep
<1>11. ASSUME NEW flag \in Flags,
              \/ PreBuild(flag) \/ StartServices(flag) \/ PostBuild(flag)
              \/ Test(flag) \/ CheckTeeMachines(flag)
       PROVE  Inv'
  BY <1>11, BeginSteps, StartStep
<1>12. CASE UNCHANGED vars
  <2>1. UNCHANGED <<contracts, bound, registry, machines, paused, pool, receipt, dotenv, env,
                    stage, tested, node, pc, wait, loc, events, chain>>
    BY <1>12 DEF vars, onChain, checkout, script, chain
  <2>0. /\ VarInv /\ ScriptType /\ ChainsOK /\ EnvInv /\ TeeInv /\ NodeInv /\ TestInv
        /\ ScriptInv /\ WaitInv
    BY DEF Inv
  <2>2. VarInv' /\ ScriptType' /\ ChainsOK'
    BY <2>0, <2>1 DEF VarInv, ScriptType, ChainsOK
  <2>3. EnvInv' /\ TeeInv' /\ NodeInv' /\ TestInv'
    BY <2>0, <2>1 DEF EnvInv, Ext, Ids, TeeInv, NodeInv, TestInv, HasEnv, HadMachine
  <2>4. ScriptInv'
    BY <2>0, <2>1 DEF ScriptInv, Ext, Ids, HasEnv
  <2>5. WaitInv'
    BY <2>0, <2>1 DEF WaitInv, Result, Ids, HadMachine
  <2>. QED  BY <2>2, <2>3, <2>4, <2>5 DEF Inv
<1>. QED  BY <1>1, <1>2, <1>3, <1>4, <1>5, <1>6, <1>7, <1>8, <1>9, <1>10, <1>11, <1>12
          DEF Next, Tool, Operator

\* The invariant holds at all times.
THEOREM Invariance == Spec => []Inv
<1>1. Init => Inv
  BY InitKeeps
<1>2. Inv /\ [Next]_vars => Inv'
  BY NextKeeps
<1>. QED  BY <1>1, <1>2, PTL DEF Spec

-----------------------------------------------------------------------------
(* Its consequences.                                                       *)

\* Everything stays within its type.
THEOREM TypeCorrect == Spec => []TypeOK
<1>1. Inv => TypeOK
  <2> SUFFICES ASSUME Inv PROVE TypeOK
    OBVIOUS
  <2>0. VarInv /\ ScriptType /\ ChainsOK /\ EnvInv
    BY DEF Inv
  <2>1. contracts \in [Chains -> Nat]
    BY <2>0 DEF VarInv
  <2>2. ASSUME NEW c \in Chains
        PROVE  /\ bound[c] \in Seq(0 .. Len(registry[c])) /\ Len(bound[c]) = contracts[c]
               /\ registry[c] \in Seq([sender : 0 .. contracts[c], granted : SUBSET Grants])
               /\ machines[c] \in SUBSET Machine /\ paused[c] \in SUBSET Machine
               /\ pool[c] \in Seq([op : DOMAIN After \cup {"goodbye"}, arg : Nat]
                                  \cup [op : {"registerTee"}, arg : Machine])
               /\ \/ /\ env[c].file \in {"missing", "empty"}
                     /\ env[c] = [NoEnv EXCEPT !.file = env[c].file]
                  \/ env[c] \in [file : {"written"}, id : Ids(c), sender : 1 .. contracts[c]]
    <3>1. ChainOK(contracts[c], bound[c], registry[c], pool[c])
      BY <2>0 DEF ChainsOK
    <3>2. /\ bound[c] \in Seq(0 .. Len(registry[c])) /\ Len(bound[c]) = contracts[c]
          /\ registry[c] \in Seq([sender : 0 .. contracts[c], granted : SUBSET Grants])
          /\ pool[c] \in Seq([op : DOMAIN After \cup {"goodbye"}, arg : Nat]
                              \cup [op : {"registerTee"}, arg : Machine])
      BY <3>1 DEF ChainOK, Extensions, Txs
    <3>3. machines[c] \in SUBSET Machine /\ paused[c] \in SUBSET Machine
      BY <2>0 DEF VarInv
    <3>4. \/ /\ env[c].file \in {"missing", "empty"}
             /\ env[c] = [NoEnv EXCEPT !.file = env[c].file]
          \/ env[c] \in [file : {"written"}, id : Ids(c), sender : 1 .. contracts[c]]
      BY <2>0 DEF EnvInv, Ext
    <3>. QED  BY <3>2, <3>3, <3>4
  <2>. QED  BY <2>0, <2>1, <2>2 DEF TypeOK, VarInv, ScriptType
<1>. QED  BY <1>1, Invariance, PTL

\* extension.env names an extension that is set up, and a contract that is bound
\* to it or to none.
THEOREM EnvIsSetUp == Spec => []EnvSetUp
<1>1. Inv => EnvSetUp
  <2> SUFFICES ASSUME Inv, NEW c \in Chains, HasEnv(c)
               PROVE  /\ {"owners", "projects", "keys"} \subseteq registry[c][env[c].id].granted
                      /\ bound[c][env[c].sender] \in {None, env[c].id}
    BY DEF EnvSetUp
  <2>1. ChainsOK /\ EnvInv
    BY DEF Inv
  <2>2. {"owners", "projects", "keys"} \subseteq registry[c][env[c].id].granted
    BY <2>1 DEF EnvInv, HasEnv, Ext, SetUp
  <2>3. bound[c][env[c].sender] # None => bound[c][env[c].sender] = env[c].id
    BY <2>1, EnvBound
  <2>. QED  BY <2>2, <2>3
<1>. QED  BY <1>1, Invariance, PTL

\* A machine that was paused is never the running one.
THEOREM PausedStayDead == Spec => []PausedAreDead
<1>1. Inv => PausedAreDead
  <2> SUFFICES ASSUME Inv, NEW c \in Chains, NEW m \in paused[c]
               PROVE  m.tee # node.tee
    BY DEF PausedAreDead
  <2>1. m.tee < node.tee
    BY DEF Inv, TeeInv
  <2>2. m.tee \in Nat /\ node.tee \in Nat
    BY DEF Inv, VarInv, Machine
  <2>. QED  BY <2>1, <2>2
<1>. QED  BY <1>1, Invariance, PTL

\* An instruction is only sent from a contract bound to the extension of the file.
THEOREM InstructionsAreBound == Spec => []BoundBeforeInstructions
<1>1. Inv => BoundBeforeInstructions
  <2> SUFFICES ASSUME Inv, pc \in {"hello", "goodbye"}
               PROVE  bound[chain][loc.sender] = env[chain].id
    BY DEF BoundBeforeInstructions
  <2>1. ChainsOK /\ EnvInv /\ ScriptType /\ ScriptInv
    BY DEF Inv
  <2>2. chain \in Chains
    BY <2>1 DEF ScriptType
  <2>3. HasEnv(chain) /\ loc.sender = env[chain].sender /\ bound[chain][loc.sender] # None
    BY <2>1 DEF ScriptInv
  <2>. QED  BY <2>1, <2>2, <2>3, EnvBound
<1>. QED  BY <1>1, Invariance, PTL


\* The reason of an Error(string) is in SetExtensionId's error, whichever way
\* the RPC node lets it through.
LEMMA SendErrorExplains ==
  ASSUME NEW n \in Telling, NEW x
  PROVE  x \in SendErrorSays(n, EstimateError(n, ErrorString(x)), ErrorString(x))
<1> DEFINE r == ErrorString(x)
           err == EstimateError(n, r)
<1>0. r.kind = "Error" /\ r.reason = x /\ r # Success
  BY DEF ErrorString, Payload, Success
<1>1. decodeRevertHex(r) = Text({x}) /\ decodeRevertHex(NoData) = Empty
  BY <1>0 DEF decodeRevertHex, NoData, Payload
<1>2. Text({x}).says = {x} /\ ~Text({x}).empty /\ Empty.empty
  BY DEF Text, Empty
<1>3. CASE "Error" \in n.spells
  <2>1. err.message.says = {x}
    BY <1>0, <1>3 DEF EstimateError, RpcError, Text
  <2>. QED  BY <2>1 DEF SendErrorSays
<1>4. CASE n.estimate = TRUE
  <2>1. DecodeRevertReason(err) = Text({x})
    BY <1>1, <1>4 DEF EstimateError, RpcError, DecodeRevertReason
  <2>. QED  BY <1>2, <2>1 DEF SendErrorSays
<1>5. CASE n.estimate = FALSE /\ n.call # "none"
  <2>1. DecodeRevertReason(err) = Empty
    BY <1>1, <1>5 DEF EstimateError, RpcError, DecodeRevertReason
  <2>2. n.call \in {"data", "result"}
    BY <1>5 DEF Telling, RpcNode
  <2>3. SimulateAndDecodeRevert(n, r) = Text({x})
    <3>1. CASE n.call = "result"
      BY <1>0, <1>1, <3>1 DEF SimulateAndDecodeRevert
    <3>2. CASE n.call = "data"
      <4>1. DecodeRevertReason(RpcError(n, r, n.call = "data")) = Text({x})
        BY <1>1, <3>2 DEF RpcError, DecodeRevertReason
      <4>. QED  BY <1>0, <1>2, <3>2, <4>1 DEF SimulateAndDecodeRevert
    <3>. QED  BY <2>2, <3>1, <3>2
  <2>. QED  BY <1>2, <2>1, <2>3 DEF SendErrorSays
<1>. QED  BY <1>3, <1>4, <1>5 DEF Telling, RpcNode

\* register-tee names an Error(string) and a custom error of the ABI alike.
LEMMA RegisterErrorExplains ==
  ASSUME NEW n \in RpcNode, n.call # "none", NEW r \in Reasons
  PROVE  r.reason \in RegisterErrorSays(n, EstimateError(n, r), r)
<1>0. n.call \in {"data", "result"}
  BY DEF RpcNode
<1>1. CASE r = Custom("VersionAlreadyExists")
  <2>1. r.kind = "custom"
    BY <1>1 DEF Custom, Payload
  <2>2. MatchCustomError(n, r) = Text({r.reason})
    BY <2>1 DEF MatchCustomError
  <2>3. Text({r.reason}).says = {r.reason} /\ ~Text({r.reason}).empty
    BY DEF Text
  <2>. QED  BY <2>2, <2>3 DEF RegisterErrorSays
<1>2. CASE r = ErrorString("already set")
  <2>1. r.kind = "Error" /\ r # Success
    BY <1>2 DEF ErrorString, Payload, Success
  <2>2. MatchCustomError(n, r) = Empty
    BY <2>1 DEF MatchCustomError
  <2>3. /\ Text({r.reason}).says = {r.reason} /\ Text({r.reason}).empty = FALSE
        /\ Empty.empty = TRUE
    BY DEF Text, Empty
  <2>4. decodeRevertHex(r) = Text({r.reason}) /\ decodeRevertHex(NoData) = Empty
    BY <2>1 DEF decodeRevertHex, NoData, Payload
  <2>5. \/ DecodeRevertReason(EstimateError(n, r)) = Text({r.reason})
        \/ DecodeRevertReason(EstimateError(n, r)) = Empty
    BY <2>4 DEF EstimateError, RpcError, DecodeRevertReason
  <2>6. SimulateAndDecodeRevert(n, r) = Text({r.reason})
    <3>1. CASE n.call = "result"
      BY <2>1, <2>4, <3>1 DEF SimulateAndDecodeRevert
    <3>2. CASE n.call = "data"
      <4>1. DecodeRevertReason(RpcError(n, r, n.call = "data")) = Text({r.reason})
        BY <2>4, <3>2 DEF RpcError, DecodeRevertReason
      <4>. QED  BY <2>1, <2>3, <3>2, <4>1 DEF SimulateAndDecodeRevert
    <3>. QED  BY <1>0, <3>1, <3>2
  <2>. QED  BY <2>2, <2>3, <2>5, <2>6 DEF RegisterErrorSays
<1>. QED  BY <1>1, <1>2 DEF Reasons

\* The replays that read the error's data name what has a selector.
LEMMA ReplayExplains ==
  ASSUME NEW n, n.call = "data", NEW r, r.kind \in {"Error", "custom"}
  PROVE  r.reason \in diagAvailabilityCheckRevert(n, r) /\ r.reason \in replayAddTeeVersion(n, r)
BY DEF diagAvailabilityCheckRevert, replayAddTeeVersion, SelectorSays, ExtractRevertData, RpcError

\* The reason of a revert is in what the tools report, for every RPC node that
\* lets it through.
THEOREM ReasonsAreReported == Spec => []RevertsExplained
<1>1. RevertsExplained
  <2> SUFFICES ASSUME NEW n \in Telling
               PROVE
        /\ LET r == Outcome(chain, Bind) IN
           Due("bind") /\ r # Success => r.reason \in SendErrorSays(n, EstimateError(n, r), r)
        /\ Due("registerTee") =>
               \A r \in Reasons :
                   /\ n.call # "none" => r.reason \in RegisterErrorSays(n, EstimateError(n, r), r)
                   /\ n.call = "data" => r.reason \in diagAvailabilityCheckRevert(n, r)
        /\ LET r == Outcome(chain, Tx(pc, loc.id)) IN
           pc = "version" /\ r.kind = "custom" /\ n.call = "data"
               => r.reason \in replayAddTeeVersion(n, r)
    BY DEF RevertsExplained
  <2>0. n \in RpcNode
    BY DEF Telling
  <2>1. ASSUME Outcome(chain, Bind) # Success
        PROVE  Outcome(chain, Bind).reason \in
                 SendErrorSays(n, EstimateError(n, Outcome(chain, Bind)), Outcome(chain, Bind))
    <3>1. ~Accepts(chain, Bind) /\ Bind.op = "bind"
      BY <2>1 DEF Outcome, Bind, Tx
    <3>2. PICK x : Outcome(chain, Bind) = ErrorString(x)
      BY <3>1 DEF Outcome
    <3>3. ErrorString(x).reason = x
      BY DEF ErrorString, Payload
    <3>. QED  BY <3>2, <3>3, SendErrorExplains
  <2>2. ASSUME NEW r \in Reasons
        PROVE  /\ n.call # "none" => r.reason \in RegisterErrorSays(n, EstimateError(n, r), r)
               /\ n.call = "data" => r.reason \in diagAvailabilityCheckRevert(n, r)
    <3>1. r.kind \in {"Error", "custom"}
      <4>1. ErrorString("already set").kind = "Error"
        BY DEF ErrorString, Payload
      <4>2. Custom("VersionAlreadyExists").kind = "custom"
        BY DEF Custom, Payload
      <4>. QED  BY <4>1, <4>2 DEF Reasons
    <3>. QED  BY <2>0, <3>1, RegisterErrorExplains, ReplayExplains
  <2>3. ASSUME NEW r, r.kind = "custom", n.call = "data"
        PROVE  r.reason \in replayAddTeeVersion(n, r)
    BY <2>3, ReplayExplains
  <2>. QED  BY <2>1, <2>2, <2>3
<1>. QED  BY <1>1, PTL

\* Settings never make a report fail.
LEMMA SettingsPass ==
  ASSUME NEW s \in Settings
  PROVE  /\ "FAIL" \notin {Reachable(s), CheckDeployerKeySource(s)}
         /\ "FAIL" \notin TeeMachineChecks(s)
         /\ \A b : Advice(b) # "FAIL"
<1>1. \A b : Advice(b) # "FAIL"
  BY DEF Advice
<1>2. s.ftdc \in {"SKIP", "PASS", "WARN"}
  BY SettingsAssumption
<1>. QED  BY <1>1, <1>2 DEF Reachable, CheckDeployerKeySource, TeeMachineChecks

\* What verify-deploy reports of the registration where there is an
\* extension.env, and where not.
LEMMA RegistrationIs ==
  ASSUME Inv, NEW c \in Chains
  PROVE  RegistrationChecks(c) = {IF HasEnv(c) THEN "PASS" ELSE "SKIP"}
<1>0. ChainsOK /\ EnvInv
  BY DEF Inv
<1>1. CASE HasEnv(c)
  <2>1. /\ env[c].id \in Ids(c) /\ env[c].id # None /\ env[c].sender # None
        /\ registry[c][env[c].id].sender = env[c].sender
        /\ {"owners", "keys"} \subseteq registry[c][env[c].id].granted
    BY <1>0, <1>1, EnvNames, EnvBound DEF HasEnv, Ext, SetUp
  <2>2. CheckR2(c) = "PASS" /\ CheckR3(c) = "PASS" /\ CheckR4(c) = "PASS"
    BY <2>1 DEF CheckR2, CheckR3, CheckR4, Verdict
  <2>3. CheckR7(c) = "PASS"
    <3>1. \A i \in Ids(c) : registry[c][i].sender = env[c].sender => i = env[c].id
      BY <1>0, <1>1, EnvBound DEF Ids
    <3>2. \A i, j \in Ids(c) :
            {registry[c][i].sender, registry[c][j].sender} = {env[c].sender} => i = j
      <4> SUFFICES ASSUME NEW i \in Ids(c), NEW j \in Ids(c),
                          {registry[c][i].sender, registry[c][j].sender} = {env[c].sender}
                   PROVE  i = j
        OBVIOUS
      <4>1. registry[c][i].sender = env[c].sender /\ registry[c][j].sender = env[c].sender
        OBVIOUS
      <4>. QED  BY <3>1, <4>1
    <3>. QED  BY <3>2 DEF CheckR7
  <2>. QED  BY <1>1, <2>1, <2>2, <2>3 DEF RegistrationChecks
<1>2. CASE ~HasEnv(c)
  <2>1. env[c] = [NoEnv EXCEPT !.file = env[c].file]
    BY <1>0, <1>2 DEF EnvInv, HasEnv
  <2>. QED  BY <1>2, <2>1 DEF NoEnv, RegistrationChecks
<1>. QED  BY <1>1, <1>2

\* What verify-deploy reports under any settings.
LEMMA ReportIs ==
  ASSUME Inv, NEW c \in Chains, NEW s \in Settings
  PROVE  "FAIL" \in Report(c, s) <=> ~HasEnv(c)
<1>0. ChainsOK /\ EnvInv
  BY DEF Inv
<1>1. CASE HasEnv(c)
  <2>1. env[c].file = "written" /\ env[c].id # None /\ env[c].sender # None
    BY <1>0, <1>1, EnvNames, EnvBound DEF HasEnv, Ext, SetUp
  <2>2. /\ OfFile(c, env[c].sender) = "PASS" /\ OfFile(c, env[c].id) = "PASS"
        /\ Verdict(env[c].id # None) = "PASS"
    BY <2>1 DEF OfFile, Verdict
  <2>3. "FAIL" \notin DeployChecks(c, s) \cup TestChecks(c, s)
    BY <2>2, SettingsPass DEF DeployChecks, CheckExtensionEnvFormat, TestChecks
  <2>4. "FAIL" \notin ServicesChecks(c, s) \cup TeeVersionChecks(c, s)
    BY <2>2, SettingsPass DEF ServicesChecks, TeeVersionChecks
  <2>5. "FAIL" \notin RegistrationChecks(c)
    BY <1>1, RegistrationIs
  <2>. QED  BY <1>1, <2>3, <2>4, <2>5, SettingsPass DEF Report
<1>2. CASE ~HasEnv(c)
  <2>1. env[c] = [NoEnv EXCEPT !.file = env[c].file]
    BY <1>0, <1>2 DEF EnvInv, HasEnv
  <2>2. Verdict(env[c].id # None) = "FAIL"
    BY <2>1 DEF Verdict, NoEnv
  <2>. QED  BY <1>2, <2>2 DEF ServicesChecks, Report
<1>. QED  BY <1>1, <1>2

\* verify-deploy fails exactly where there is no extension.env to work with.
THEOREM VerifierIsRight == Spec => []VerifierAgrees
<1>1. Inv => VerifierAgrees
  <2> SUFFICES ASSUME Inv, NEW c \in Chains
               PROVE  /\ \A s \in Settings : HasFailures(c, s) <=> ~HasEnv(c)
                      /\ "WARN" \notin RegistrationChecks(c)
    BY DEF VerifierAgrees
  <2>1. "WARN" \notin RegistrationChecks(c)
    BY RegistrationIs
  <2>. QED  BY <2>1, ReportIs DEF HasFailures
<1>. QED  BY <1>1, Invariance, PTL

\* TestedIsVerified: whatever is deployed for other chains, a chain whose test
\* passed keeps a report without failures, checks of the registration that pass,
\* a contract bound to the extension of its extension.env and a machine.
THEOREM TestedStaysVerified == Spec => []TestedIsVerified
<1>1. Inv => TestedIsVerified
  <2> SUFFICES ASSUME Inv, NEW c \in tested
               PROVE  /\ \A s \in Settings : ~HasFailures(c, s)
                      /\ RegistrationChecks(c) = {"PASS"}
                      /\ bound[c][env[c].sender] = env[c].id
                      /\ \E m \in machines[c] \cup paused[c] : m.ext = env[c].id
    BY DEF TestedIsVerified
  <2>1. c \in Chains /\ ChainsOK /\ EnvInv
    BY DEF Inv, VarInv
  <2>2. /\ HasEnv(c) /\ node.tee # 0 /\ bound[c][env[c].sender] # None
        /\ \E m \in machines[c] \cup paused[c] : m.ext = env[c].id
    BY DEF Inv, TestInv, HadMachine
  <2>3. /\ \A s \in Settings : ~HasFailures(c, s)
        /\ RegistrationChecks(c) = {"PASS"}
    BY <2>1, <2>2, ReportIs, RegistrationIs DEF HasFailures
  <2>4. bound[c][env[c].sender] = env[c].id
    BY <2>1, <2>2, EnvBound
  <2>. QED  BY <2>2, <2>3, <2>4
<1>. QED  BY <1>1, Invariance, PTL
=============================================================================
