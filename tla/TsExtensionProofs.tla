------------------------- MODULE TsExtensionProofs -------------------------
(***************************************************************************)
(* Proofs about TsExtension, for any set of requests, names and messages   *)
(* and with or without handlers that await and throw: the promise chain of *)
(* serialize runs one handler at a time and in order, a process ended by a *)
(* signal has answered everything, and the server implements               *)
(* ExtensionContract.                                                      *)
(***************************************************************************)
EXTENDS TsExtension, ExtensionProofs, TLAPS

-----------------------------------------------------------------------------
(* The inductive invariant.                                                *)

Pcs == {"idle", "readBody", "chained", "awaiting", "send", "rejected", "done"}

\* A request is given to serialize once.  What settled has left the chain with
\* an answer or a rejection, the next one may have started, the others wait.
ChainInv ==
    /\ \A i, j \in 1 .. Len(chain) : chain[i] = chain[j] => i = j
    /\ \A i \in 1 .. Len(chain) :
          /\ i <= settled => pc[chain[i]] \in {"send", "rejected", "done"}
          /\ i = settled + 1 => pc[chain[i]] \in {"chained", "awaiting"}
          /\ i > settled + 1 => pc[chain[i]] = "chained"
    /\ \A r \in Requests : pc[r] \in {"chained", "awaiting"} =>
          \E i \in 1 .. Len(chain) : chain[i] = r

\* Only a handler awaits, and only a request for one or for the state waits.
ControlInv ==
    \A r \in Requests :
        /\ pc[r] = "awaiting" => V(r).kind = "run"
        /\ pc[r] = "chained" => V(r).kind \in {"run", "fail", "state"}

SafeInv == TypeOK /\ ChainInv /\ ControlInv

\* A handler of op has incremented its counter and awaits.
Mid(op) == \E r \in Requests : pc[r] = "awaiting" /\ V(r).op = op

Top(op) == IF Mid(op) THEN count[op] - 1 ELSE count[op]

\* No handler that settled has a number beyond the handlers counted so far,
\* and the last of those counted has settled.
BoundInv ==
    \A op \in Ops :
        /\ Top(op) \in Nat
        /\ \A i \in 1 .. settled : Ok(i, op) => number[chain[i]] <= Top(op)
        /\ Drawn(Top(op), op, settled)

OrderInv == BoundInv /\ ChainOrder

-----------------------------------------------------------------------------
(* The chain.                                                              *)

\* handleRequest classifies whatever arrives, and only a request for a
\* registered op with a name reaches a handler's body.
LEMMA RouteType ==
  ASSUME NEW m \in Message \cup {NoMessage}
  PROVE  /\ handleRequest(m) \in Verdict
         /\ handleRequest(m).kind = "run" =>
              handleRequest(m).op \in Ops /\ handleRequest(m).name \in Texts
<1> DEFINE Good(v) == v \in Verdict /\ (v.kind = "run" => v.op \in Ops /\ v.name \in Texts)
<1>1. Good(Http(400)) /\ Good(Http(404)) /\ Good(Http(405)) /\ Good(Http(501))
  BY DEF Http, Verdict, Texts, NoOp
<1>2. Good(Raise) /\ Good(ReadState)
  BY DEF Raise, ReadState, Verdict, Texts, NoOp
<1>3. Good(Fail("SAY_HELLO")) /\ Good(Fail("SAY_GOODBYE"))
  BY DEF Fail, Verdict, Texts, Ops
<1>4. \A n \in Names : Good(Run("SAY_HELLO", n)) /\ Good(Run("SAY_GOODBYE", n))
  BY DEF Run, Verdict, Ops, Texts
<1>5. Good(handleSayHello(m)) /\ Good(handleSayGoodbye(m))
  BY <1>3, <1>4 DEF handleSayHello, handleSayGoodbye
<1>6. Good(processAction(m))
  BY <1>1, <1>2, <1>5 DEF processAction
<1>. QED  BY <1>1, <1>2, <1>6 DEF handleRequest

\* The same of the request being served, or yet to be received.
LEMMA VType ==
  ASSUME TypeOK, NEW r \in Requests
  PROVE  /\ V(r) \in Verdict
         /\ V(r).kind = "run" => V(r).op \in Ops /\ V(r).name \in Texts
<1>1. msg[r] \in Message \cup {NoMessage}
  BY MessagesAssumption DEF TypeOK
<1>. QED  BY <1>1, RouteType DEF V

\* While no request arrives, every verdict stays what it was.
LEMMA VStable ==
  ASSUME UNCHANGED msg
  PROVE  \A r \in Requests : V(r)' = V(r)
BY DEF V

\* Moving one request moves no other.
LEMMA GotoMoves ==
  ASSUME TypeOK, NEW r \in Requests, NEW from, NEW to \in Pcs, Goto(r, from, to)
  PROVE  /\ pc' \in [Requests -> Pcs]
         /\ pc[r] = from /\ pc'[r] = to
         /\ \A s \in Requests : s # r => pc'[s] = pc[s]
BY DEF TypeOK, Goto, Pcs

\* Before the first request the chain is empty.
LEMMA InitInv == Init => SafeInv /\ OrderInv /\ GracefulShutdown
<1> SUFFICES ASSUME Init PROVE SafeInv /\ OrderInv /\ GracefulShutdown
  OBVIOUS
<1>1. TypeOK
  BY DEF Init, TypeOK, ZeroCount, NoLast, ZeroSnap, Snapshot, Texts
<1>2. ChainInv /\ ControlInv
  BY DEF Init, ChainInv, ControlInv
<1>3. \A op \in Ops : Top(op) = 0
  BY DEF Init, Top, Mid, ZeroCount
<1>4. OrderInv
  BY <1>3 DEF Init, OrderInv, BoundInv, ChainOrder, Drawn
<1>. QED  BY <1>1, <1>2, <1>4 DEF SafeInv, Init, GracefulShutdown

\* The function whose turn it is is the first unsettled one, and no handler but
\* its own can be awaiting anything.
LEMMA InTurn ==
  ASSUME SafeInv, NEW r \in Requests, Turn(r)
  PROVE  /\ settled \in Nat /\ settled + 1 \in 1 .. Len(chain) /\ chain[settled + 1] = r
         /\ pc[r] \in {"chained", "awaiting"}
         /\ \A i \in 1 .. Len(chain) : i # settled + 1 => chain[i] # r
         /\ \A s \in Requests : s # r => pc[s] # "awaiting"
<1> USE DEF SafeInv
<1>1. /\ settled \in Nat /\ settled + 1 \in 1 .. Len(chain) /\ chain[settled + 1] = r
      /\ Len(chain) \in Nat
  BY DEF Turn, TypeOK
<1>2. pc[r] \in {"chained", "awaiting"}
  BY <1>1 DEF ChainInv
<1>3. \A i \in 1 .. Len(chain) : i # settled + 1 => chain[i] # r
  BY <1>1 DEF ChainInv
<1>4. ASSUME NEW s \in Requests, s # r, pc[s] = "awaiting" PROVE FALSE
  <2>1. PICK i \in 1 .. Len(chain) : chain[i] = s
    BY <1>4 DEF ChainInv
  <2>2. i <= settled \/ i = settled + 1 \/ i > settled + 1
    BY <1>1
  <2>. QED  BY <1>1, <1>4, <2>1, <2>2 DEF ChainInv
<1>. QED  BY <1>1, <1>2, <1>3, <1>4

\* A function that settles, with a result or an exception, leaves the chain to
\* the next one.
LEMMA SettleKeeps ==
  ASSUME SafeInv, NEW r \in Requests, Turn(r), Settle, UNCHANGED <<msg, chain>>,
         pc'[r] \in {"send", "rejected"},
         \A s \in Requests : s # r => pc'[s] = pc[s]
  PROVE  settled' \in 0 .. Len(chain') /\ ChainInv' /\ ControlInv'
<1> USE DEF SafeInv
<1>1. /\ settled \in Nat /\ settled + 1 \in 1 .. Len(chain) /\ chain[settled + 1] = r
      /\ \A i \in 1 .. Len(chain) : i # settled + 1 => chain[i] # r
  BY InTurn
<1>2. settled' = settled + 1 /\ chain' = chain
  BY DEF Settle
<1>3. Len(chain) \in Nat /\ \A i \in 1 .. Len(chain) : chain[i] \in Requests
  BY DEF TypeOK
<1>4. \A s \in Requests : V(s)' = V(s)
  BY VStable
<1>5. ControlInv'
  BY <1>4 DEF ControlInv
<1>6. ASSUME NEW i \in 1 .. Len(chain)
      PROVE  /\ i <= settled + 1 => pc'[chain[i]] \in {"send", "rejected", "done"}
             /\ i = settled + 2 => pc'[chain[i]] \in {"chained", "awaiting"}
             /\ i > settled + 2 => pc'[chain[i]] = "chained"
  <2>1. CASE i = settled + 1
    BY <1>1, <2>1
  <2>2. CASE i # settled + 1
    <3>1. pc'[chain[i]] = pc[chain[i]]
      BY <1>1, <1>3, <2>2
    <3>. QED  BY <1>1, <2>2, <3>1 DEF ChainInv
  <2>. QED  BY <2>1, <2>2
<1>7. ASSUME NEW s \in Requests, pc'[s] \in {"chained", "awaiting"}
      PROVE  \E i \in 1 .. Len(chain) : chain[i] = s
  BY <1>7 DEF ChainInv
<1>8. ChainInv'
  <2>1. (settled + 1) + 1 = settled + 2
    BY <1>1
  <2>. QED  BY <1>2, <1>6, <1>7, <2>1 DEF ChainInv
<1>. QED  BY <1>1, <1>2, <1>3, <1>5, <1>8

\* Every callback of the event loop keeps the chain in order.
LEMMA NextSafe == SafeInv /\ [Next]_vars => SafeInv'
<1> SUFFICES ASSUME SafeInv, [Next]_vars PROVE SafeInv'
  OBVIOUS
<1> USE DEF SafeInv
<1>0. /\ pc \in [Requests -> Pcs] /\ chain \in Seq(Requests) /\ Len(chain) \in Nat
      /\ settled \in 0 .. Len(chain)
      /\ \A i \in 1 .. Len(chain) : chain[i] \in Requests
  BY DEF TypeOK, Pcs
<1>1. ASSUME NEW r \in Requests, NEW m \in Messages, Accept(r, m) PROVE SafeInv'
  <2>1. /\ pc' \in [Requests -> Pcs] /\ pc[r] = "idle" /\ pc'[r] = "readBody"
        /\ \A s \in Requests : s # r => pc'[s] = pc[s]
    BY <1>1, GotoMoves DEF Accept, Pcs
  <2>2. TypeOK'
    BY <1>1, <2>1 DEF Accept, TypeOK, Pcs, state
  <2>3. \A s \in Requests : s # r => V(s)' = V(s)
    BY <1>1 DEF Accept, TypeOK, V
  <2>4. ControlInv'
    BY <2>1, <2>3 DEF ControlInv
  <2>5. UNCHANGED <<chain, settled>> /\ \A i \in 1 .. Len(chain) : chain[i] # r
    BY <1>0, <1>1, <2>1 DEF Accept, ChainInv
  <2>6. ChainInv'
    BY <1>0, <2>1, <2>5 DEF ChainInv
  <2>. QED  BY <2>2, <2>4, <2>6
<1>2. ASSUME NEW r \in Requests, HandleRequest(r) PROVE SafeInv'
  <2>1. UNCHANGED <<msg, settled, count, last, number, snap, proc>>
        /\ \A s \in Requests : V(s)' = V(s)
    BY <1>2, VStable DEF HandleRequest, state
  <2>2. V(r).kind \in {"http", "fail", "run", "state", "raise"}
    BY VType DEF Verdict
  <2>3. CASE V(r).kind \in {"http", "raise"}
    <3>1. /\ pc[r] = "readBody" /\ pc'[r] \in {"send", "rejected"}
          /\ pc' \in [Requests -> Pcs] /\ chain' = chain
          /\ \A s \in Requests : s # r => pc'[s] = pc[s]
      <4>1. CASE V(r).kind = "http"
        BY <1>2, <4>1 DEF HandleRequest, Goto, TypeOK, Pcs
      <4>2. CASE V(r).kind = "raise"
        BY <1>2, <4>2 DEF HandleRequest, Goto, TypeOK, Pcs
      <4>. QED  BY <2>3, <4>1, <4>2
    <3>2. TypeOK'
      BY <2>1, <3>1 DEF TypeOK, Pcs
    <3>3. ControlInv'
      BY <2>1, <3>1 DEF ControlInv
    <3>4. \A i \in 1 .. Len(chain) : chain[i] # r
      BY <1>0, <3>1 DEF ChainInv
    <3>5. ChainInv'
      BY <1>0, <2>1, <3>1, <3>4 DEF ChainInv
    <3>. QED  BY <3>2, <3>3, <3>5
  <2>4. CASE V(r).kind \in {"run", "fail", "state"}
    <3>1. /\ pc[r] = "readBody" /\ pc'[r] = "chained"
          /\ pc' \in [Requests -> Pcs] /\ chain' = Append(chain, r)
          /\ \A s \in Requests : s # r => pc'[s] = pc[s]
      BY <1>2, <2>4 DEF HandleRequest, Goto, TypeOK, Pcs
    <3>2. /\ chain' \in Seq(Requests) /\ Len(chain') = Len(chain) + 1
          /\ chain'[Len(chain) + 1] = r
          /\ \A i \in 1 .. Len(chain) : chain'[i] = chain[i]
      BY <1>0, <3>1
    <3>3. TypeOK'
      BY <1>0, <2>1, <3>1, <3>2 DEF TypeOK, Pcs
    <3>4. ControlInv'
      BY <2>1, <2>4, <3>1 DEF ControlInv
    <3>5. \A i \in 1 .. Len(chain) : chain[i] # r
      BY <1>0, <3>1 DEF ChainInv
    <3>6. \A i, j \in 1 .. Len(chain') : chain'[i] = chain'[j] => i = j
      BY <1>0, <3>2, <3>5 DEF ChainInv
    <3>7. ASSUME NEW i \in 1 .. Len(chain')
          PROVE  /\ i <= settled => pc'[chain'[i]] \in {"send", "rejected", "done"}
                 /\ i = settled + 1 => pc'[chain'[i]] \in {"chained", "awaiting"}
                 /\ i > settled + 1 => pc'[chain'[i]] = "chained"
      <4>1. CASE i = Len(chain) + 1
        BY <1>0, <3>1, <3>2, <4>1
      <4>2. CASE i # Len(chain) + 1
        <5>1. i \in 1 .. Len(chain) /\ pc'[chain'[i]] = pc[chain[i]]
          BY <1>0, <3>1, <3>2, <3>5, <4>2
        <5>. QED  BY <5>1 DEF ChainInv
      <4>. QED  BY <4>1, <4>2
    <3>8. ASSUME NEW s \in Requests, pc'[s] \in {"chained", "awaiting"}
          PROVE  \E i \in 1 .. Len(chain') : chain'[i] = s
      <4>1. CASE s = r
        BY <1>0, <3>2, <4>1
      <4>2. CASE s # r
        <5>1. PICK i \in 1 .. Len(chain) : chain[i] = s
          BY <3>1, <3>8, <4>2 DEF ChainInv
        <5>2. i \in 1 .. Len(chain') /\ chain'[i] = s
          BY <1>0, <3>2, <5>1
        <5>. QED  BY <5>2
      <4>. QED  BY <4>1, <4>2
    <3>9. ChainInv'
      BY <2>1, <3>6, <3>7, <3>8 DEF ChainInv
    <3>. QED  BY <3>3, <3>4, <3>9
  <2>. QED  BY <2>2, <2>3, <2>4
<1>3. ASSUME NEW r \in Requests, RunHandler(r) PROVE SafeInv'
  <2>1. /\ pc' \in [Requests -> Pcs] /\ pc'[r] = "send"
        /\ \A s \in Requests : s # r => pc'[s] = pc[s]
    BY <1>3, GotoMoves DEF RunHandler, Pcs
  <2>2. settled' \in 0 .. Len(chain') /\ ChainInv' /\ ControlInv'
    BY <1>3, <2>1, SettleKeeps DEF RunHandler
  <2>3. /\ count' \in [Ops -> Nat] /\ last' \in [Ops -> Texts]
        /\ number' \in [Requests -> Nat]
    <3>1. CASE V(r).kind = "run"
      <4>1. V(r).op \in Ops /\ V(r).name \in Texts
        BY <3>1, VType
      <4>2. /\ count' = [count EXCEPT ![V(r).op] = @ + 1]
            /\ last' = [last EXCEPT ![V(r).op] = V(r).name]
            /\ number' = [number EXCEPT ![r] = count'[V(r).op]]
        BY <1>3, <3>1 DEF RunHandler
      <4>3. count' \in [Ops -> Nat] /\ last' \in [Ops -> Texts] /\ count'[V(r).op] \in Nat
        BY <4>1, <4>2 DEF TypeOK
      <4>4. number' \in [Requests -> Nat]
        BY <4>2, <4>3 DEF TypeOK
      <4>. QED  BY <4>3, <4>4
    <3>2. CASE V(r).kind # "run"
      BY <1>3, <3>2 DEF RunHandler, TypeOK, state
    <3>. QED  BY <3>1, <3>2
  <2>4. TypeOK'
    BY <1>3, <2>1, <2>2, <2>3 DEF RunHandler, TypeOK, Pcs
  <2>. QED  BY <2>2, <2>4
<1>4. ASSUME NEW r \in Requests, BeginHandler(r) PROVE SafeInv'
  <2>1. /\ pc' \in [Requests -> Pcs] /\ pc'[r] = "awaiting"
        /\ \A s \in Requests : s # r => pc'[s] = pc[s]
    BY <1>4, GotoMoves DEF BeginHandler, Pcs
  <2>2. UNCHANGED <<msg, chain, settled>> /\ \A s \in Requests : V(s)' = V(s)
    BY <1>4, VStable DEF BeginHandler
  <2>3. V(r).kind = "run" /\ V(r).op \in Ops
    BY <1>4, VType DEF BeginHandler
  <2>4. TypeOK'
    BY <1>4, <2>1, <2>3 DEF BeginHandler, TypeOK, Pcs
  <2>5. ControlInv'
    BY <2>1, <2>2, <2>3 DEF ControlInv
  <2>6. /\ chain[settled + 1] = r /\ settled + 1 \in 1 .. Len(chain)
        /\ \A i \in 1 .. Len(chain) : i # settled + 1 => chain[i] # r
    BY <1>4, InTurn DEF BeginHandler
  <2>7. ASSUME NEW i \in 1 .. Len(chain)
        PROVE  /\ i <= settled => pc'[chain[i]] \in {"send", "rejected", "done"}
               /\ i = settled + 1 => pc'[chain[i]] \in {"chained", "awaiting"}
               /\ i > settled + 1 => pc'[chain[i]] = "chained"
    BY <1>0, <2>1, <2>6 DEF ChainInv
  <2>8. ASSUME NEW s \in Requests, pc'[s] \in {"chained", "awaiting"}
        PROVE  \E i \in 1 .. Len(chain) : chain[i] = s
    BY <2>1, <2>6, <2>8 DEF ChainInv
  <2>9. ChainInv'
    BY <2>2, <2>7, <2>8 DEF ChainInv
  <2>. QED  BY <2>4, <2>5, <2>9
<1>5. ASSUME NEW r \in Requests, FinishHandler(r) PROVE SafeInv'
  <2>1. /\ pc' \in [Requests -> Pcs] /\ pc[r] = "awaiting" /\ pc'[r] = "send"
        /\ \A s \in Requests : s # r => pc'[s] = pc[s]
    BY <1>5, GotoMoves DEF FinishHandler, Pcs
  <2>2. settled' \in 0 .. Len(chain') /\ ChainInv' /\ ControlInv'
    BY <1>5, <2>1, SettleKeeps DEF FinishHandler
  <2>3. V(r).op \in Ops /\ V(r).name \in Texts
    BY <2>1, VType DEF ControlInv
  <2>4. TypeOK'
    BY <1>5, <2>1, <2>2, <2>3 DEF FinishHandler, TypeOK, Pcs
  <2>. QED  BY <2>2, <2>4
<1>6. ASSUME NEW r \in Requests, HandlerThrows(r) PROVE SafeInv'
  <2>1. /\ pc' \in [Requests -> Pcs] /\ pc'[r] = "rejected"
        /\ \A s \in Requests : s # r => pc'[s] = pc[s]
    BY <1>6, GotoMoves DEF HandlerThrows, Pcs
  <2>2. settled' \in 0 .. Len(chain') /\ ChainInv' /\ ControlInv'
    BY <1>6, <2>1, SettleKeeps DEF HandlerThrows
  <2>3. TypeOK'
    BY <1>6, <2>1, <2>2 DEF HandlerThrows, TypeOK, Pcs, state
  <2>. QED  BY <2>2, <2>3
<1>7. ASSUME NEW r \in Requests, ReportState(r) PROVE SafeInv'
  <2>1. /\ pc' \in [Requests -> Pcs] /\ pc'[r] = "send"
        /\ \A s \in Requests : s # r => pc'[s] = pc[s]
    BY <1>7, GotoMoves DEF ReportState, Pcs
  <2>2. settled' \in 0 .. Len(chain') /\ ChainInv' /\ ControlInv'
    BY <1>7, <2>1, SettleKeeps DEF ReportState
  <2>3. snap' \in [Requests -> Snapshot]
    BY <1>7 DEF ReportState, TypeOK, Snapshot
  <2>4. TypeOK'
    BY <1>7, <2>1, <2>2, <2>3 DEF ReportState, TypeOK, Pcs, state
  <2>. QED  BY <2>2, <2>4
<1>8. ASSUME NEW r \in Requests, Send(r) PROVE SafeInv'
  <2>1. /\ pc' \in [Requests -> Pcs] /\ pc[r] = "send" /\ pc'[r] = "done"
        /\ \A s \in Requests : s # r => pc'[s] = pc[s]
    BY <1>8, GotoMoves DEF Send, Pcs
  <2>2. UNCHANGED <<msg, chain, settled>> /\ \A s \in Requests : V(s)' = V(s)
    BY <1>8, VStable DEF Send
  <2>3. TypeOK'
    BY <1>8, <2>1 DEF Send, TypeOK, Pcs, state
  <2>4. ControlInv'
    BY <2>1, <2>2 DEF ControlInv
  <2>5. ASSUME NEW i \in 1 .. Len(chain)
        PROVE  /\ i <= settled => pc'[chain[i]] \in {"send", "rejected", "done"}
               /\ i = settled + 1 => pc'[chain[i]] \in {"chained", "awaiting"}
               /\ i > settled + 1 => pc'[chain[i]] = "chained"
    BY <1>0, <2>1 DEF ChainInv
  <2>6. ChainInv'
    BY <2>1, <2>2, <2>5 DEF ChainInv
  <2>. QED  BY <2>3, <2>4, <2>6
<1>9. ASSUME UNCHANGED <<pc, msg, chain, settled, state, number, snap>>,
             proc' \in {"up", "closing", "exited", "crashed"}
      PROVE  SafeInv'
  <2>1. \A s \in Requests : V(s)' = V(s)
    BY <1>9, VStable
  <2>2. TypeOK'
    BY <1>9 DEF TypeOK, state
  <2>3. ChainInv' /\ ControlInv'
    BY <1>9, <2>1 DEF ChainInv, ControlInv
  <2>. QED  BY <2>2, <2>3
<1>10. CASE UnhandledRejection \/ Shutdown \/ Closed
  BY <1>9, <1>10 DEF UnhandledRejection, Shutdown, Closed
<1>11. CASE UNCHANGED vars
  BY <1>9, <1>11 DEF vars, TypeOK, state
<1>. QED
  BY <1>1, <1>2, <1>3, <1>4, <1>5, <1>6, <1>7, <1>8, <1>10, <1>11 DEF Next, Step, Quiet

\* serialize calls one function at a time, in the order it was given them.
THEOREM SafeInvariant == Spec => []SafeInv
<1>1. Init => SafeInv
  BY InitInv
<1>. QED  BY <1>1, NextSafe, PTL DEF Spec

\* The type invariant of the TypeScript server.
THEOREM TypeCorrect == Spec => []TypeOK
<1>1. SafeInv => TypeOK
  BY DEF SafeInv
<1>. QED  BY <1>1, SafeInvariant, PTL

\* server.close() resolves only once the last connection has ended, and no
\* request is accepted after the signal: a process that exits by itself owes
\* nobody an answer.
THEOREM ShutdownIsGraceful == Spec => []GracefulShutdown
<1>1. Init => GracefulShutdown
  BY InitInv
<1>2. GracefulShutdown /\ [Next]_vars => GracefulShutdown'
  <2> SUFFICES ASSUME GracefulShutdown, [Next]_vars PROVE GracefulShutdown'
    OBVIOUS
  <2>1. ASSUME NEW r \in Requests, \/ Step(r) \/ \E m \in Messages : Accept(r, m)
        PROVE  proc' # "exited"
    BY <2>1 DEF Step, Accept, HandleRequest, RunHandler, BeginHandler, FinishHandler,
                HandlerThrows, ReportState, Send, Turn, Alive
  <2>2. CASE UnhandledRejection \/ Shutdown
    BY <2>2 DEF UnhandledRejection, Shutdown, GracefulShutdown
  <2>3. CASE Closed
    BY <2>3 DEF Closed, GracefulShutdown
  <2>4. CASE UNCHANGED vars
    BY <2>4 DEF vars, GracefulShutdown
  <2>. QED  BY <2>1, <2>2, <2>3, <2>4 DEF Next, Quiet, GracefulShutdown
<1>. QED  BY <1>1, <1>2, PTL DEF Spec


-----------------------------------------------------------------------------
(* The order of the results.                                               *)

\* The requests whose functions have settled.
Past == {chain[i] : i \in 1 .. settled}

\* A step that settles nothing leaves the order of the past as it was.
LEMMA OrderFrame ==
  ASSUME SafeInv, OrderInv, settled' = settled,
         \A i \in 1 .. settled : chain'[i] = chain[i],
         \A s \in Past : /\ V(s)' = V(s)
                         /\ number'[s] = number[s] /\ snap'[s] = snap[s]
                         /\ pc'[s] \in {"send", "done"} <=> pc[s] \in {"send", "done"},
         \A op \in Ops : Top(op)' = Top(op)
  PROVE  OrderInv'
<1>1. ASSUME NEW i \in 1 .. settled
      PROVE  /\ V(chain[i])' = V(chain[i])
             /\ number'[chain'[i]] = number[chain[i]] /\ snap'[chain'[i]] = snap[chain[i]]
             /\ pc'[chain'[i]] \in {"send", "done"} <=> pc[chain[i]] \in {"send", "done"}
  <2>1. PICK s \in Past : s = chain[i] /\ s = chain'[i]
    BY DEF Past
  <2>2. V(chain[i])' = V(s)'
    BY <2>1 DEF V
  <2>. QED  BY <2>1, <2>2
<1>2. \A i \in 1 .. settled, op \in Ops : Ok(i, op)' <=> Ok(i, op)
  BY <1>1 DEF Ok
<1>d. ASSUME NEW n, NEW op \in Ops, NEW k \in 0 .. settled, Drawn(n, op, k)
      PROVE  n = 0 \/ \E i \in 1 .. k : Ok(i, op)' /\ number'[chain'[i]] = n
  <2>1. CASE n = 0
    BY <2>1
  <2>2. CASE n # 0
    <3>1. PICK i \in 1 .. k : Ok(i, op) /\ number[chain[i]] = n
      BY <1>d, <2>2 DEF Drawn
    <3>2. i \in 1 .. settled
      BY DEF SafeInv, TypeOK
    <3>. QED  BY <1>1, <1>2, <3>1, <3>2
  <2>. QED  BY <2>1, <2>2
<1>s. settled \in Nat
  BY DEF SafeInv, TypeOK
<1>3. BoundInv'
  <2>1. ASSUME NEW op \in Ops PROVE Drawn(Top(op), op, settled)'
    <3>1. Drawn(Top(op), op, settled)
      BY DEF OrderInv, BoundInv
    <3>2. Top(op) = 0 \/ \E i \in 1 .. settled : Ok(i, op)' /\ number'[chain'[i]] = Top(op)
      BY <1>d, <1>s, <3>1
    <3>. QED  BY <3>2 DEF Drawn
  <2>2. \A op \in Ops : /\ Top(op)' \in Nat
                        /\ \A i \in 1 .. settled : Ok(i, op)' => number'[chain'[i]] <= Top(op)'
    BY <1>1, <1>2 DEF OrderInv, BoundInv
  <2>. QED  BY <2>1, <2>2 DEF BoundInv
<1>4. ChainOrder'
  <2>a. ASSUME NEW i \in 1 .. settled, NEW j \in 1 .. settled, i < j,
               NEW op \in Ops, Ok(i, op)'
        PROVE  /\ Ok(j, op)' => number'[chain'[i]] < number'[chain'[j]]
               /\ V(chain[j])'.kind = "state" =>
                    number'[chain'[i]] <= snap'[chain'[j]].count[op]
    <3>1. /\ Ok(j, op) => number[chain[i]] < number[chain[j]]
          /\ V(chain[j]).kind = "state" => number[chain[i]] <= snap[chain[j]].count[op]
      BY <1>2, <2>a DEF OrderInv, ChainOrder
    <3>. QED  BY <1>1, <1>2, <2>a, <3>1
  <2>b. ASSUME NEW j \in 1 .. settled, V(chain[j])'.kind = "state", NEW op \in Ops
        PROVE  Drawn(snap[chain[j]].count[op], op, j - 1)'
    <3>1. V(chain[j]).kind = "state" /\ snap'[chain'[j]] = snap[chain[j]]
      BY <1>1, <2>b
    <3>2. Drawn(snap[chain[j]].count[op], op, j - 1)
      BY <3>1 DEF OrderInv, ChainOrder
    <3>3. j - 1 \in 0 .. settled
      BY <1>s
    <3>4. \/ snap[chain[j]].count[op] = 0
          \/ \E i \in 1 .. (j - 1) : Ok(i, op)' /\ number'[chain'[i]] = snap[chain[j]].count[op]
      BY <1>d, <3>2, <3>3
    <3>. QED  BY <3>1, <3>4 DEF Drawn
  <2>. QED  BY <2>a, <2>b DEF ChainOrder
<1>. QED  BY <1>3, <1>4 DEF OrderInv

\* A function that settles is the newest of the past: a handler takes the next
\* number of its op, a state read has seen every number drawn before.
LEMMA OrderSettle ==
  ASSUME SafeInv, OrderInv, NEW r \in Requests, Turn(r), Settle,
         UNCHANGED <<msg, chain>>, pc'[r] \in {"send", "rejected"},
         \A s \in Requests : s # r => /\ pc'[s] = pc[s] /\ number'[s] = number[s]
                                      /\ snap'[s] = snap[s],
         number'[r] \in Nat,
         \A op \in Ops :
            /\ Top(op)' \in Nat /\ Top(op) <= Top(op)'
            /\ Top(op)' = Top(op) \/ (pc'[r] = "send" /\ V(r).kind = "run" /\ V(r).op = op)
            /\ pc'[r] = "send" /\ V(r).kind = "run" /\ V(r).op = op =>
                 number'[r] = Top(op)' /\ Top(op)' = Top(op) + 1
            /\ V(r).kind = "state" => snap'[r].count[op] \in Nat
                                      /\ snap'[r].count[op] = Top(op)
  PROVE  OrderInv'
<1>1. /\ settled \in Nat /\ settled + 1 \in 1 .. Len(chain) /\ chain[settled + 1] = r
      /\ settled' = settled + 1 /\ chain' = chain
      /\ \A i \in 1 .. settled : chain[i] # r /\ chain[i] \in Requests
  <2>1. Len(chain) \in Nat /\ \A i \in 1 .. Len(chain) : chain[i] \in Requests
    BY DEF SafeInv, TypeOK
  <2>. QED  BY <2>1, InTurn DEF Settle
<1>2. \A s \in Requests : V(s)' = V(s)
  BY VStable
<1>3. ASSUME NEW i \in 1 .. settled
      PROVE  /\ V(chain[i])' = V(chain[i]) /\ pc'[chain[i]] = pc[chain[i]]
             /\ number'[chain[i]] = number[chain[i]] /\ snap'[chain[i]] = snap[chain[i]]
             /\ number[chain[i]] \in Nat
  BY <1>1, <1>2 DEF V, SafeInv, TypeOK
<1>k. PICK k \in 1 .. Len(chain) : k = settled + 1
  BY <1>1
<1>4. V(chain[k])' = V(r) /\ chain[k] = r
  BY <1>1, <1>2, <1>k DEF V
<1>5. \A i \in 1 .. settled, op \in Ops : Ok(i, op)' <=> Ok(i, op)
  BY <1>1, <1>3 DEF Ok
<1>6. \A op \in Ops : Ok(k, op)' <=> pc'[r] = "send" /\ V(r).kind = "run" /\ V(r).op = op
  BY <1>1, <1>4 DEF Ok
<1>7. ASSUME NEW op \in Ops, NEW i \in 1 .. settled, Ok(i, op)
      PROVE  number[chain[i]] \in Nat /\ number[chain[i]] <= Top(op) /\ Top(op) \in Nat
  BY <1>3, <1>7 DEF OrderInv, BoundInv
<1>d. ASSUME NEW n, NEW op \in Ops, NEW j \in 0 .. settled, Drawn(n, op, j)
      PROVE  n = 0 \/ \E i \in 1 .. j : Ok(i, op)' /\ number'[chain[i]] = n
  <2>1. CASE n = 0
    BY <2>1
  <2>2. CASE n # 0
    <3>1. PICK i \in 1 .. j : Ok(i, op) /\ number[chain[i]] = n
      BY <1>d, <2>2 DEF Drawn
    <3>2. i \in 1 .. settled
      BY <1>1
    <3>. QED  BY <1>3, <1>5, <3>1, <3>2
  <2>. QED  BY <2>1, <2>2
<1>t. \A op \in Ops : Drawn(Top(op), op, settled)
  BY DEF OrderInv, BoundInv
<1>8. BoundInv'
  <2>a. ASSUME NEW op \in Ops, NEW i \in 1 .. (settled + 1), Ok(i, op)'
        PROVE  number'[chain[i]] <= Top(op)'
    <3>1. CASE i = k
      BY <1>4, <1>6, <2>a, <3>1
    <3>2. CASE i # k
      <4>1. i \in 1 .. settled
        BY <1>1, <1>k, <3>2
      <4>. QED  BY <1>3, <1>5, <1>7, <2>a, <4>1
    <3>. QED  BY <3>1, <3>2
  <2>b. ASSUME NEW op \in Ops PROVE Drawn(Top(op), op, settled)'
    <3>1. CASE pc'[r] = "send" /\ V(r).kind = "run" /\ V(r).op = op
      <4>1. Ok(k, op)' /\ number'[chain[k]] = Top(op)'
        BY <1>4, <1>6, <3>1
      <4>2. k \in 1 .. settled'
        BY <1>1, <1>k
      <4>. QED  BY <1>1, <4>1, <4>2 DEF Drawn
    <3>2. CASE Top(op)' = Top(op)
      <4>1. Top(op) = 0 \/ \E i \in 1 .. settled : Ok(i, op)' /\ number'[chain[i]] = Top(op)
        BY <1>1, <1>d, <1>t
      <4>2. \A i \in 1 .. settled : i \in 1 .. settled'
        BY <1>1
      <4>. QED  BY <1>1, <3>2, <4>1, <4>2 DEF Drawn
    <3>. QED  BY <3>1, <3>2
  <2>. QED  BY <1>1, <2>a, <2>b DEF BoundInv
<1>9. ChainOrder'
  <2>a. ASSUME NEW i \in 1 .. (settled + 1), NEW j \in 1 .. (settled + 1), i < j,
               NEW op \in Ops, Ok(i, op)'
        PROVE  /\ Ok(j, op)' => number'[chain[i]] < number'[chain[j]]
               /\ V(chain[j])'.kind = "state" =>
                    number'[chain[i]] <= snap'[chain[j]].count[op]
    <3>1. i \in 1 .. settled /\ Ok(i, op) /\ number'[chain[i]] = number[chain[i]]
      BY <1>1, <1>3, <1>5, <2>a
    <3>2. CASE j = k
      BY <1>4, <1>6, <1>7, <3>1, <3>2
    <3>3. CASE j # k
      <4>1. j \in 1 .. settled
        BY <1>1, <1>k, <3>3
      <4>2. /\ Ok(j, op) => number[chain[i]] < number[chain[j]]
            /\ V(chain[j]).kind = "state" => number[chain[i]] <= snap[chain[j]].count[op]
        BY <2>a, <3>1, <4>1 DEF OrderInv, ChainOrder
      <4>. QED  BY <1>3, <1>5, <3>1, <4>1, <4>2
    <3>. QED  BY <3>2, <3>3
  <2>b. ASSUME NEW j \in 1 .. (settled + 1), V(chain[j])'.kind = "state", NEW op \in Ops
        PROVE  Drawn(snap[chain[j]].count[op], op, j - 1)'
    <3>1. CASE j = k
      <4>1. snap'[chain[j]].count[op] = Top(op) /\ j - 1 = settled
        BY <1>1, <1>4, <1>k, <2>b, <3>1
      <4>2. Top(op) = 0 \/ \E i \in 1 .. settled : Ok(i, op)' /\ number'[chain[i]] = Top(op)
        BY <1>1, <1>d, <1>t
      <4>. QED  BY <1>1, <4>1, <4>2 DEF Drawn
    <3>2. CASE j # k
      <4>1. j \in 1 .. settled /\ j - 1 \in 0 .. settled
        BY <1>1, <1>k, <3>2
      <4>2. V(chain[j]).kind = "state" /\ snap'[chain[j]] = snap[chain[j]]
        BY <1>3, <2>b, <4>1
      <4>3. Drawn(snap[chain[j]].count[op], op, j - 1)
        BY <4>1, <4>2 DEF OrderInv, ChainOrder
      <4>4. \/ snap[chain[j]].count[op] = 0
            \/ \E i \in 1 .. (j - 1) : Ok(i, op)' /\ number'[chain[i]] = snap[chain[j]].count[op]
        BY <1>d, <4>1, <4>3
      <4>. QED  BY <1>1, <4>2, <4>4 DEF Drawn
    <3>. QED  BY <3>1, <3>2
  <2>. QED  BY <1>1, <2>a, <2>b DEF ChainOrder
<1>. QED  BY <1>8, <1>9 DEF OrderInv


\* When a function's turn comes, no handler is half-way.
LEMMA NoneAwaits ==
  ASSUME SafeInv, NEW r \in Requests, Turn(r), pc[r] = "chained"
  PROVE  \A op \in Ops : ~Mid(op) /\ Top(op) = count[op]
<1>1. \A s \in Requests : pc[s] # "awaiting"
  BY InTurn
<1>. QED  BY <1>1 DEF Mid, Top

\* The handlers counted stay the same while no counter changes and no handler
\* starts or stops awaiting.
LEMMA TopStable ==
  ASSUME UNCHANGED count,
         \A s \in Requests : /\ pc'[s] = "awaiting" <=> pc[s] = "awaiting"
                             /\ pc[s] = "awaiting" => V(s)' = V(s)
  PROVE  \A op \in Ops : (Mid(op)' <=> Mid(op)) /\ Top(op)' = Top(op)
<1>1. \A op \in Ops : Mid(op)' <=> Mid(op)
  BY DEF Mid
<1>. QED  BY <1>1 DEF Top

\* What has settled is in the past for good.
LEMMA PastSettled ==
  ASSUME SafeInv, NEW s \in Past
  PROVE  s \in Requests /\ pc[s] \in {"send", "rejected", "done"}
<1>1. PICK i \in 1 .. settled : s = chain[i]
  BY DEF Past
<1>2. i \in 1 .. Len(chain) /\ i <= settled /\ chain[i] \in Requests
  BY DEF SafeInv, TypeOK
<1>. QED  BY <1>1, <1>2 DEF SafeInv, ChainInv

\* Every callback keeps the results in the order of the chain.
LEMMA NextOrder == SafeInv /\ OrderInv /\ [Next]_vars => OrderInv'
<1> SUFFICES ASSUME SafeInv, OrderInv, [Next]_vars PROVE OrderInv'
  OBVIOUS
<1>0. /\ TypeOK /\ \A op \in Ops : count[op] \in Nat
      /\ settled \in Nat /\ settled <= Len(chain) /\ Len(chain) \in Nat
  BY DEF SafeInv, TypeOK
<1>1. ASSUME NEW r \in Requests, NEW m \in Messages, Accept(r, m) PROVE OrderInv'
  <2>1. /\ pc[r] = "idle" /\ pc'[r] = "readBody"
        /\ \A s \in Requests : s # r => pc'[s] = pc[s] /\ V(s)' = V(s)
        /\ UNCHANGED <<chain, settled, count, number, snap>>
    BY <1>0, <1>1 DEF Accept, Goto, TypeOK, V, state
  <2>2. \A op \in Ops : Top(op)' = Top(op)
    BY <2>1, TopStable
  <2>3. \A s \in Past : s \in Requests /\ s # r
    BY <2>1, PastSettled
  <2>. QED  BY <2>1, <2>2, <2>3, OrderFrame
<1>2. ASSUME NEW r \in Requests, HandleRequest(r) PROVE OrderInv'
  <2>1. /\ pc[r] = "readBody" /\ pc'[r] \in {"send", "rejected", "chained"}
        /\ \A s \in Requests : s # r => pc'[s] = pc[s]
    <3>1. CASE V(r).kind = "http"
      BY <1>0, <1>2, <3>1 DEF HandleRequest, Goto, TypeOK
    <3>2. CASE V(r).kind = "raise"
      BY <1>0, <1>2, <3>2 DEF HandleRequest, Goto, TypeOK
    <3>3. CASE V(r).kind \notin {"http", "raise"}
      BY <1>0, <1>2, <3>3 DEF HandleRequest, Goto, TypeOK
    <3>. QED  BY <3>1, <3>2, <3>3
  <2>2. UNCHANGED <<msg, settled, count, number, snap>> /\ \A s \in Requests : V(s)' = V(s)
    BY <1>2, VStable DEF HandleRequest, state
  <2>3. \A i \in 1 .. settled : chain'[i] = chain[i]
    <3>1. chain' = chain \/ chain' = Append(chain, r)
      BY <1>2 DEF HandleRequest
    <3>2. chain \in Seq(Requests)
      BY <1>0 DEF TypeOK
    <3>. QED  BY <1>0, <3>1, <3>2
  <2>4. \A op \in Ops : Top(op)' = Top(op)
    BY <2>1, <2>2, TopStable
  <2>5. \A s \in Past : s \in Requests /\ s # r
    BY <2>1, PastSettled
  <2>. QED  BY <2>1, <2>2, <2>3, <2>4, <2>5, OrderFrame
<1>3. ASSUME NEW r \in Requests, RunHandler(r) PROVE OrderInv'
  <2>1. /\ pc[r] = "chained" /\ pc'[r] = "send" /\ Turn(r) /\ Settle
        /\ \A s \in Requests : s # r => pc'[s] = pc[s]
        /\ UNCHANGED <<msg, chain, snap>> /\ V(r).kind \in {"run", "fail"}
    BY <1>0, <1>3 DEF RunHandler, Goto, TypeOK
  <2>2. \A op \in Ops : ~Mid(op) /\ Top(op) = count[op]
    BY <2>1, NoneAwaits
  <2>3. \A op \in Ops : ~Mid(op)' /\ Top(op)' = count'[op]
    <3>1. \A s \in Requests : pc'[s] # "awaiting"
      BY <2>1, InTurn
    <3>2. \A op \in Ops : ~Mid(op)'
      BY <3>1 DEF Mid
    <3>. QED  BY <3>2 DEF Top
  <2>4. CASE V(r).kind = "run"
    <3>1. V(r).op \in Ops
      BY <1>0, <2>4, VType
    <3>2. /\ count' = [count EXCEPT ![V(r).op] = @ + 1]
          /\ number' = [number EXCEPT ![r] = count'[V(r).op]]
      BY <1>3, <2>4 DEF RunHandler
    <3>3. \A op \in Ops : count'[op] = IF op = V(r).op THEN count[op] + 1 ELSE count[op]
      BY <1>0, <3>1, <3>2 DEF TypeOK
    <3>4. /\ number'[r] = count[V(r).op] + 1
          /\ \A s \in Requests : s # r => number'[s] = number[s]
      BY <1>0, <3>1, <3>2, <3>3 DEF TypeOK
    <3>. QED  BY <1>0, <2>1, <2>2, <2>3, <2>4, <3>1, <3>3, <3>4, OrderSettle
  <2>5. CASE V(r).kind # "run"
    <3>1. UNCHANGED <<count, number>> /\ number[r] \in Nat
      BY <1>0, <1>3, <2>5 DEF RunHandler, state, TypeOK
    <3>. QED  BY <1>0, <2>1, <2>2, <2>3, <2>5, <3>1, OrderSettle
  <2>. QED  BY <2>4, <2>5
<1>4. ASSUME NEW r \in Requests, BeginHandler(r) PROVE OrderInv'
  <2>1. /\ pc[r] = "chained" /\ pc'[r] = "awaiting" /\ Turn(r) /\ V(r).kind = "run"
        /\ \A s \in Requests : s # r => pc'[s] = pc[s]
        /\ UNCHANGED <<msg, chain, settled, number, snap>>
    BY <1>0, <1>4 DEF BeginHandler, Goto, TypeOK
  <2>2. V(r).op \in Ops /\ \A s \in Requests : V(s)' = V(s)
    BY <1>0, <2>1, VType, VStable
  <2>3. \A op \in Ops : ~Mid(op) /\ Top(op) = count[op]
    BY <2>1, NoneAwaits
  <2>4. \A op \in Ops : count'[op] = IF op = V(r).op THEN count[op] + 1 ELSE count[op]
    BY <1>0, <1>4, <2>2 DEF BeginHandler, TypeOK
  <2>5. \A op \in Ops : Mid(op)' <=> op = V(r).op
    BY <2>1, <2>2, InTurn DEF Mid
  <2>6. \A op \in Ops : Top(op)' = Top(op)
    BY <1>0, <2>3, <2>4, <2>5 DEF Top
  <2>7. \A s \in Past : s \in Requests /\ s # r
    BY <2>1, PastSettled
  <2>. QED  BY <2>1, <2>2, <2>6, <2>7, OrderFrame
<1>5. ASSUME NEW r \in Requests, FinishHandler(r) PROVE OrderInv'
  <2>1. /\ pc[r] = "awaiting" /\ pc'[r] = "send" /\ Turn(r) /\ Settle
        /\ \A s \in Requests : s # r => pc'[s] = pc[s] /\ number'[s] = number[s]
        /\ number'[r] = count[V(r).op]
        /\ UNCHANGED <<msg, chain, count, snap>>
    BY <1>0, <1>5 DEF FinishHandler, Goto, TypeOK
  <2>2. V(r).kind = "run" /\ V(r).op \in Ops
    BY <1>0, <2>1, VType DEF SafeInv, ControlInv
  <2>3. \A op \in Ops : (Mid(op) <=> op = V(r).op) /\ ~Mid(op)'
    <3>1. \A s \in Requests : pc'[s] # "awaiting" /\ (s # r => pc[s] # "awaiting")
      BY <2>1, InTurn
    <3>. QED  BY <2>1, <3>1 DEF Mid
  <2>4. \A op \in Ops : /\ Top(op) = IF op = V(r).op THEN count[op] - 1 ELSE count[op]
                        /\ Top(op)' = count[op]
                        /\ Top(op) \in Nat
    BY <2>1, <2>3 DEF Top, OrderInv, BoundInv
  <2>. QED  BY <1>0, <2>1, <2>2, <2>4, OrderSettle
<1>6. ASSUME NEW r \in Requests, HandlerThrows(r) PROVE OrderInv'
  <2>1. /\ pc[r] = "chained" /\ pc'[r] = "rejected" /\ Turn(r) /\ Settle
        /\ V(r).kind \in {"run", "fail"} /\ number[r] \in Nat
        /\ \A s \in Requests : s # r => pc'[s] = pc[s]
        /\ UNCHANGED <<msg, chain, count, number, snap>>
    BY <1>0, <1>6 DEF HandlerThrows, Goto, TypeOK, state
  <2>2. \A op \in Ops : Top(op) = count[op] /\ Top(op)' = Top(op)
    BY <2>1, NoneAwaits, TopStable, VStable
  <2>. QED  BY <1>0, <2>1, <2>2, OrderSettle
<1>7. ASSUME NEW r \in Requests, ReportState(r) PROVE OrderInv'
  <2>1. /\ pc[r] = "chained" /\ pc'[r] = "send" /\ Turn(r) /\ Settle
        /\ V(r).kind = "state" /\ number[r] \in Nat /\ snap'[r].count = count
        /\ \A s \in Requests : s # r => pc'[s] = pc[s] /\ snap'[s] = snap[s]
        /\ UNCHANGED <<msg, chain, count, number>>
    BY <1>0, <1>7 DEF ReportState, Goto, TypeOK, state
  <2>2. \A op \in Ops : Top(op) = count[op] /\ Top(op)' = Top(op)
    BY <2>1, NoneAwaits, TopStable, VStable
  <2>. QED  BY <1>0, <2>1, <2>2, OrderSettle
<1>8. ASSUME NEW r \in Requests, Send(r) PROVE OrderInv'
  <2>1. /\ pc[r] = "send" /\ pc'[r] = "done"
        /\ \A s \in Requests : s # r => pc'[s] = pc[s]
        /\ UNCHANGED <<msg, chain, settled, count, number, snap>>
    BY <1>0, <1>8 DEF Send, Goto, TypeOK, state
  <2>2. \A s \in Requests : V(s)' = V(s)
    BY <2>1, VStable
  <2>3. \A op \in Ops : Top(op)' = Top(op)
    BY <2>1, <2>2, TopStable
  <2>4. \A s \in Past : s \in Requests
    BY PastSettled
  <2>. QED  BY <2>1, <2>2, <2>3, <2>4, OrderFrame
<1>9. ASSUME UNCHANGED <<pc, msg, chain, settled, state, number, snap>> PROVE OrderInv'
  <2>1. \A s \in Requests : V(s)' = V(s)
    BY <1>9, VStable
  <2>2. \A op \in Ops : Top(op)' = Top(op)
    BY <1>9, <2>1, TopStable DEF state
  <2>3. \A s \in Past : s \in Requests
    BY PastSettled
  <2>. QED  BY <1>9, <2>1, <2>2, <2>3, OrderFrame
<1>10. CASE UnhandledRejection \/ Shutdown \/ Closed
  BY <1>9, <1>10 DEF UnhandledRejection, Shutdown, Closed
<1>11. CASE UNCHANGED vars
  BY <1>9, <1>11 DEF vars, state
<1>. QED
  BY <1>1, <1>2, <1>3, <1>4, <1>5, <1>6, <1>7, <1>8, <1>10, <1>11 DEF Next, Step, Quiet

\* However long the handlers await and whatever they throw, their numbers come
\* in the order their requests were chained, and a state read counts every
\* handler chained before it and no other.
THEOREM ResultsInChainOrder == Spec => []ChainOrder
<1>1. Init => SafeInv /\ OrderInv
  BY InitInv
<1>2. SafeInv /\ OrderInv /\ [Next]_vars => SafeInv' /\ OrderInv'
  BY NextSafe, NextOrder
<1>3. OrderInv => ChainOrder
  BY DEF OrderInv
<1>. QED  BY <1>1, <1>2, <1>3, PTL DEF Spec


-----------------------------------------------------------------------------
(* The refinement.                                                         *)

\* The answer the contract sees: determined when the handler settles.
AbstractAnswer(r) == IF pc[r] \in {"send", "done"} THEN Response(r) ELSE NoAnswer

\* The contract speaks of requests, states and answers in the same terms.
LEMMA Vocabulary ==
  /\ Contract!NoMessage = NoMessage /\ Contract!NoAnswer = NoAnswer
  /\ Contract!ZeroCount = ZeroCount /\ Contract!NoLast = NoLast
  /\ Contract!ZeroSnap = ZeroSnap
  /\ \A v, n, s : Contract!AnswerOf(v, n, s) = AnswerOf(v, n, s)
<1>1. /\ Contract!NoMessage = NoMessage /\ Contract!ZeroCount = ZeroCount
      /\ Contract!NoLast = NoLast
  BY DEF Contract!NoMessage, NoMessage, Contract!ZeroCount, ZeroCount, Contract!Ops,
         Ops, Contract!NoLast, NoLast
<1>2. Contract!ZeroSnap = ZeroSnap
  BY <1>1 DEF Contract!ZeroSnap, ZeroSnap
<1>3. Contract!NoAnswer = NoAnswer
  BY <1>2 DEF Contract!NoAnswer, NoAnswer, Contract!NoOp, NoOp
<1>4. \A v, n, s : Contract!AnswerOf(v, n, s) = AnswerOf(v, n, s)
  BY <1>3 DEF Contract!AnswerOf, AnswerOf
<1>. QED  BY <1>1, <1>2, <1>3, <1>4

\* A step that leaves the abstract view of every request and of the counters
\* alone is a stutter of the contract.
LEMMA Stutter ==
  ASSUME UNCHANGED <<msg, last>>, AbstractCount' = AbstractCount,
         \A s \in Requests : /\ AbstractPhase(s)' = AbstractPhase(s)
                             /\ AbstractAnswer(s)' = AbstractAnswer(s)
  PROVE  UNCHANGED Contract!vars
BY DEF Contract!vars, AbstractAnswer

\* A request that does not move is seen where it was.
LEMMA OthersUnseen ==
  ASSUME NEW s \in Requests, pc'[s] = pc[s], V(s)' = V(s), number'[s] = number[s],
         snap'[s] = snap[s]
  PROVE  AbstractPhase(s)' = AbstractPhase(s) /\ AbstractAnswer(s)' = AbstractAnswer(s)
BY DEF AbstractPhase, AbstractAnswer, Response

\* The counters the contract sees: those of the handlers that have settled.
LEMMA CountIsTop ==
  /\ AbstractCount = [op \in Ops |-> Top(op)]
  /\ AbstractCount' = [op \in Ops |-> Top(op)']
BY DEF AbstractCount, Top, Mid

\* The contract's step for a request that takes effect, from what is seen.
LEMMA Executes ==
  ASSUME NEW r \in Requests, UNCHANGED msg,
         AbstractPhase(r) = "received", AbstractPhase(r)' = "executed",
         \A s \in Requests : s # r => /\ AbstractPhase(s)' = AbstractPhase(s)
                                      /\ AbstractAnswer(s)' = AbstractAnswer(s),
         IF V(r).kind = "run"
         THEN /\ AbstractCount' = [AbstractCount EXCEPT ![V(r).op] = @ + 1]
              /\ last' = [last EXCEPT ![V(r).op] = V(r).name]
              /\ AbstractAnswer(r)' = AnswerOf(V(r), AbstractCount[V(r).op] + 1, ZeroSnap)
         ELSE /\ AbstractCount' = AbstractCount /\ last' = last
              /\ AbstractAnswer(r)' =
                   AnswerOf(V(r), 0, [count |-> AbstractCount, last |-> last])
  PROVE  Contract!Execute(r)
<1> DEFINE ph == [s \in Requests |-> AbstractPhase(s)]
           an == [s \in Requests |-> AbstractAnswer(s)]
<1>1. ph[r] = "received" /\ ph' = [ph EXCEPT ![r] = "executed"]
  OBVIOUS
<1>2. an' = [an EXCEPT ![r] = AbstractAnswer(r)']
  OBVIOUS
<1>3. handleRequest(msg[r]) = V(r)
  BY DEF V
<1>4. CASE V(r).kind = "run"
  <2>1. AnswerOf(V(r), AbstractCount[V(r).op] + 1, ZeroSnap)
          = Contract!AnswerOf(V(r), AbstractCount[V(r).op] + 1, Contract!ZeroSnap)
    BY Vocabulary
  <2>2. an' = [an EXCEPT ![r] =
                 Contract!AnswerOf(V(r), AbstractCount[V(r).op] + 1, Contract!ZeroSnap)]
    BY <1>2, <1>4, <2>1
  <2>3. /\ AbstractCount' = [AbstractCount EXCEPT ![V(r).op] = @ + 1]
        /\ last' = [last EXCEPT ![V(r).op] = V(r).name]
    BY <1>4
  <2>. QED  BY <1>1, <1>3, <1>4, <2>2, <2>3 DEF Contract!Execute, AbstractAnswer
<1>5. CASE V(r).kind # "run"
  <2> DEFINE now == [count |-> AbstractCount, last |-> last]
  <2>1. AnswerOf(V(r), 0, now) = Contract!AnswerOf(V(r), 0, now)
    BY Vocabulary
  <2>2. an' = [an EXCEPT ![r] = Contract!AnswerOf(V(r), 0, now)]
    BY <1>2, <1>5, <2>1
  <2>3. AbstractCount' = AbstractCount /\ last' = last
    BY <1>5
  <2>. QED  BY <1>1, <1>3, <1>5, <2>2, <2>3 DEF Contract!Execute, AbstractAnswer
<1>. QED  BY <1>4, <1>5

\* A request that takes effect without a handler's body: nothing changes but
\* its answer.
LEMMA ExecutesQuietly ==
  ASSUME TypeOK, NEW r \in Requests, UNCHANGED <<msg, last, number>>,
         pc[r] \in {"readBody", "chained"}, pc'[r] = "send", V(r).kind # "run",
         \A s \in Requests : s # r => pc'[s] = pc[s] /\ snap'[s] = snap[s],
         \A op \in Ops : Top(op)' = Top(op),
         V(r).kind = "state" => snap'[r] = [count |-> AbstractCount, last |-> last]
  PROVE  Contract!Execute(r)
<1>1. \A s \in Requests : V(s)' = V(s)
  BY VStable
<1>2. AbstractCount' = AbstractCount
  BY CountIsTop
<1>3. \A s \in Requests : s # r => AbstractPhase(s)' = AbstractPhase(s)
                                   /\ AbstractAnswer(s)' = AbstractAnswer(s)
  BY <1>1, OthersUnseen
<1>4. /\ AbstractPhase(r) = "received" /\ AbstractPhase(r)' = "executed"
      /\ AbstractAnswer(r)' = AnswerOf(V(r), number[r], snap'[r])
  BY <1>1 DEF AbstractPhase, AbstractAnswer, Response
<1>5. AbstractAnswer(r)' = AnswerOf(V(r), 0, [count |-> AbstractCount, last |-> last])
  BY <1>4, AnswerDepends, VType
<1>. QED  BY <1>2, <1>3, <1>4, <1>5, Executes

\* A request whose handler settles takes the next number of its op.
LEMMA ExecutesHandler ==
  ASSUME TypeOK, NEW r \in Requests, UNCHANGED <<msg, snap>>,
         pc[r] \in {"chained", "awaiting"}, pc'[r] = "send", V(r).kind = "run",
         \A s \in Requests : s # r => pc'[s] = pc[s] /\ number'[s] = number[s],
         last' = [last EXCEPT ![V(r).op] = V(r).name],
         \A op \in Ops : /\ Top(op) \in Nat
                         /\ Top(op)' = IF op = V(r).op THEN Top(op) + 1 ELSE Top(op)
                         /\ op = V(r).op => number'[r] = Top(op) + 1
  PROVE  Contract!Execute(r)
<1>1. \A s \in Requests : V(s)' = V(s)
  BY VStable
<1>2. V(r).op \in Ops
  BY VType
<1>3. /\ AbstractCount' = [AbstractCount EXCEPT ![V(r).op] = @ + 1]
      /\ AbstractCount[V(r).op] + 1 = number'[r]
  BY <1>2, CountIsTop
<1>4. \A s \in Requests : s # r => AbstractPhase(s)' = AbstractPhase(s)
                                   /\ AbstractAnswer(s)' = AbstractAnswer(s)
  BY <1>1, OthersUnseen
<1>5. /\ AbstractPhase(r) = "received" /\ AbstractPhase(r)' = "executed"
      /\ AbstractAnswer(r)' = AnswerOf(V(r), number'[r], snap'[r])
  BY <1>1 DEF AbstractPhase, AbstractAnswer, Response
<1>6. AbstractAnswer(r)' = AnswerOf(V(r), AbstractCount[V(r).op] + 1, ZeroSnap)
  BY <1>3, <1>5, AnswerDepends, VType
<1>. QED  BY <1>3, <1>4, <1>5, <1>6, Executes

\* An idle server is an idle contract.
LEMMA InitRefines == Init => Contract!Init
<1> SUFFICES ASSUME Init PROVE Contract!Init
  OBVIOUS
<1>1. \A r \in Requests : AbstractPhase(r) = "idle" /\ AbstractAnswer(r) = NoAnswer
  BY DEF Init, AbstractPhase, AbstractAnswer
<1>2. AbstractCount = ZeroCount
  BY DEF Init, AbstractCount, ZeroCount
<1>. QED  BY <1>1, <1>2, Vocabulary DEF Init, Contract!Init, AbstractAnswer

\* Every step of the server is a step of the contract, or none.
LEMMA NextRefines ==
  SafeInv /\ OrderInv /\ [Next]_vars => [Contract!Next]_(Contract!vars)
<1> SUFFICES ASSUME SafeInv, OrderInv, [Next]_vars
             PROVE  Contract!Next \/ UNCHANGED Contract!vars
  OBVIOUS
<1>0. TypeOK /\ \A op \in Ops : count[op] \in Nat /\ Top(op) \in Nat
  BY DEF SafeInv, TypeOK, OrderInv, BoundInv
<1>1. ASSUME NEW r \in Requests, NEW m \in Messages, Accept(r, m) PROVE Contract!Next
  <2>1. /\ pc[r] = "idle" /\ pc'[r] = "readBody"
        /\ \A s \in Requests : s # r => pc'[s] = pc[s] /\ V(s)' = V(s)
        /\ UNCHANGED <<count, last, number, snap>> /\ msg' = [msg EXCEPT ![r] = m]
    BY <1>0, <1>1 DEF Accept, Goto, TypeOK, V, state
  <2>2. \A s \in Requests : s # r => AbstractPhase(s)' = AbstractPhase(s)
                                     /\ AbstractAnswer(s)' = AbstractAnswer(s)
    BY <2>1, OthersUnseen
  <2>3. /\ AbstractPhase(r) = "idle" /\ AbstractPhase(r)' = "received"
        /\ AbstractAnswer(r)' = AbstractAnswer(r)
    BY <2>1 DEF AbstractPhase, AbstractAnswer
  <2>4. AbstractCount' = AbstractCount
    BY <2>1, TopStable, CountIsTop
  <2>5. Contract!Receive(r, m)
    BY <2>1, <2>2, <2>3, <2>4 DEF Contract!Receive, AbstractAnswer
  <2>. QED  BY <2>5 DEF Contract!Next
<1>2. ASSUME NEW r \in Requests, UNCHANGED <<msg, last, number, snap>>,
             pc[r] \in {"readBody", "chained"},
             pc'[r] \in {"chained", "awaiting", "rejected"},
             \A s \in Requests : s # r => pc'[s] = pc[s],
             \A op \in Ops : Top(op)' = Top(op)
      PROVE  UNCHANGED Contract!vars
  <2>1. \A s \in Requests : V(s)' = V(s)
    BY <1>2, VStable
  <2>2. \A s \in Requests : s # r => AbstractPhase(s)' = AbstractPhase(s)
                                     /\ AbstractAnswer(s)' = AbstractAnswer(s)
    BY <1>2, <2>1, OthersUnseen
  <2>3. AbstractPhase(r)' = AbstractPhase(r) /\ AbstractAnswer(r)' = AbstractAnswer(r)
    BY <1>2 DEF AbstractPhase, AbstractAnswer
  <2>4. AbstractCount' = AbstractCount
    BY <1>2, CountIsTop
  <2>. QED  BY <1>2, <2>2, <2>3, <2>4, Stutter
<1>3. ASSUME NEW r \in Requests, HandleRequest(r)
      PROVE  Contract!Next \/ UNCHANGED Contract!vars
  <2>1. UNCHANGED <<msg, count, last, number, snap>> /\ \A s \in Requests : V(s)' = V(s)
    BY <1>3, VStable DEF HandleRequest, state
  <2>2. /\ pc[r] = "readBody" /\ \A s \in Requests : s # r => pc'[s] = pc[s]
        /\ (pc'[r] = "send" /\ V(r).kind = "http") \/ pc'[r] \in {"rejected", "chained"}
    <3>1. CASE V(r).kind = "http"
      BY <1>0, <1>3, <3>1 DEF HandleRequest, Goto, TypeOK
    <3>2. CASE V(r).kind = "raise"
      BY <1>0, <1>3, <3>2 DEF HandleRequest, Goto, TypeOK
    <3>3. CASE V(r).kind \notin {"http", "raise"}
      BY <1>0, <1>3, <3>3 DEF HandleRequest, Goto, TypeOK
    <3>. QED  BY <3>1, <3>2, <3>3
  <2>3. \A op \in Ops : Top(op)' = Top(op)
    BY <2>1, <2>2, TopStable
  <2>4. CASE pc'[r] = "send" /\ V(r).kind = "http"
    <3>1. Contract!Execute(r)
      BY <1>0, <2>1, <2>2, <2>3, <2>4, ExecutesQuietly
    <3>. QED  BY <3>1 DEF Contract!Next
  <2>5. CASE pc'[r] \in {"rejected", "chained"}
    BY <1>2, <2>1, <2>2, <2>3, <2>5
  <2>. QED  BY <2>2, <2>4, <2>5
<1>4. ASSUME NEW r \in Requests, RunHandler(r) PROVE Contract!Next
  <2>1. /\ pc[r] = "chained" /\ pc'[r] = "send" /\ Turn(r)
        /\ \A s \in Requests : s # r => pc'[s] = pc[s]
        /\ UNCHANGED <<msg, snap>>
    BY <1>0, <1>4 DEF RunHandler, Goto, TypeOK
  <2>2. \A op \in Ops : Top(op) = count[op] /\ Top(op)' = count'[op]
    <3>1. \A s \in Requests : pc[s] # "awaiting" /\ pc'[s] # "awaiting"
      BY <2>1, InTurn
    <3>2. \A op \in Ops : ~Mid(op) /\ ~Mid(op)'
      BY <3>1 DEF Mid
    <3>. QED  BY <3>2 DEF Top
  <2>3. CASE V(r).kind = "run"
    <3>1. V(r).op \in Ops
      BY <1>0, <2>3, VType
    <3>2. /\ count' = [count EXCEPT ![V(r).op] = @ + 1]
          /\ last' = [last EXCEPT ![V(r).op] = V(r).name]
          /\ number' = [number EXCEPT ![r] = count'[V(r).op]]
      BY <1>4, <2>3 DEF RunHandler
    <3>3. \A op \in Ops : count'[op] = IF op = V(r).op THEN count[op] + 1 ELSE count[op]
      BY <1>0, <3>1, <3>2 DEF TypeOK
    <3>4. /\ number'[r] = count[V(r).op] + 1
          /\ \A s \in Requests : s # r => number'[s] = number[s]
      BY <1>0, <3>1, <3>2, <3>3 DEF TypeOK
    <3>5. \A op \in Ops : /\ Top(op)' = IF op = V(r).op THEN Top(op) + 1 ELSE Top(op)
                          /\ op = V(r).op => number'[r] = Top(op) + 1
      BY <2>2, <3>3, <3>4
    <3>6. Contract!Execute(r)
      BY <1>0, <2>1, <2>3, <3>2, <3>4, <3>5, ExecutesHandler
    <3>. QED  BY <3>6 DEF Contract!Next
  <2>4. CASE V(r).kind # "run"
    <3>1. V(r).kind # "state" /\ UNCHANGED <<count, last, number>>
      BY <1>4, <2>4 DEF RunHandler, state
    <3>2. Contract!Execute(r)
      BY <1>0, <2>1, <2>2, <2>4, <3>1, ExecutesQuietly
    <3>. QED  BY <3>2 DEF Contract!Next
  <2>. QED  BY <2>3, <2>4
<1>5. ASSUME NEW r \in Requests, BeginHandler(r) PROVE UNCHANGED Contract!vars
  <2>1. /\ pc[r] = "chained" /\ pc'[r] = "awaiting" /\ Turn(r) /\ V(r).kind = "run"
        /\ \A s \in Requests : s # r => pc'[s] = pc[s]
        /\ UNCHANGED <<msg, last, number, snap>>
    BY <1>0, <1>5 DEF BeginHandler, Goto, TypeOK
  <2>2. V(r).op \in Ops /\ \A s \in Requests : V(s)' = V(s)
    BY <1>0, <2>1, VType, VStable
  <2>3. \A op \in Ops : ~Mid(op) /\ Top(op) = count[op]
    BY <2>1, NoneAwaits
  <2>4. \A op \in Ops : count'[op] = IF op = V(r).op THEN count[op] + 1 ELSE count[op]
    BY <1>0, <1>5, <2>2 DEF BeginHandler, TypeOK
  <2>5. \A op \in Ops : Mid(op)' <=> op = V(r).op
    BY <2>1, <2>2, InTurn DEF Mid
  <2>6. \A op \in Ops : Top(op)' = Top(op)
    BY <1>0, <2>3, <2>4, <2>5 DEF Top
  <2>. QED  BY <1>2, <2>1, <2>6
<1>6. ASSUME NEW r \in Requests, FinishHandler(r) PROVE Contract!Next
  <2>1. /\ pc[r] = "awaiting" /\ pc'[r] = "send" /\ Turn(r)
        /\ \A s \in Requests : s # r => pc'[s] = pc[s] /\ number'[s] = number[s]
        /\ number'[r] = count[V(r).op] /\ last' = [last EXCEPT ![V(r).op] = V(r).name]
        /\ UNCHANGED <<msg, count, snap>>
    BY <1>0, <1>6 DEF FinishHandler, Goto, TypeOK
  <2>2. V(r).kind = "run" /\ V(r).op \in Ops
    BY <1>0, <2>1, VType DEF SafeInv, ControlInv
  <2>3. \A op \in Ops : (Mid(op) <=> op = V(r).op) /\ ~Mid(op)'
    <3>1. \A s \in Requests : pc'[s] # "awaiting" /\ (s # r => pc[s] # "awaiting")
      BY <2>1, InTurn
    <3>. QED  BY <2>1, <3>1 DEF Mid
  <2>4. \A op \in Ops : /\ Top(op) = IF op = V(r).op THEN count[op] - 1 ELSE count[op]
                        /\ Top(op)' = count[op]
    BY <2>1, <2>3 DEF Top
  <2>5. \A op \in Ops : /\ Top(op)' = IF op = V(r).op THEN Top(op) + 1 ELSE Top(op)
                        /\ op = V(r).op => number'[r] = Top(op) + 1
    BY <1>0, <2>1, <2>4
  <2>6. Contract!Execute(r)
    BY <1>0, <2>1, <2>2, <2>5, ExecutesHandler
  <2>. QED  BY <2>6 DEF Contract!Next
<1>7. ASSUME NEW r \in Requests, HandlerThrows(r) PROVE UNCHANGED Contract!vars
  <2>1. /\ pc[r] = "chained" /\ pc'[r] = "rejected"
        /\ \A s \in Requests : s # r => pc'[s] = pc[s]
        /\ UNCHANGED <<msg, count, last, number, snap>>
    BY <1>0, <1>7 DEF HandlerThrows, Goto, TypeOK, state
  <2>2. \A op \in Ops : Top(op)' = Top(op)
    BY <2>1, TopStable, VStable
  <2>. QED  BY <1>2, <2>1, <2>2
<1>8. ASSUME NEW r \in Requests, ReportState(r) PROVE Contract!Next
  <2>1. /\ pc[r] = "chained" /\ pc'[r] = "send" /\ Turn(r) /\ V(r).kind = "state"
        /\ snap'[r] = [count |-> count, last |-> last]
        /\ \A s \in Requests : s # r => pc'[s] = pc[s] /\ snap'[s] = snap[s]
        /\ UNCHANGED <<msg, count, last, number>>
    BY <1>0, <1>8 DEF ReportState, Goto, TypeOK, state
  <2>2. \A op \in Ops : Top(op) = count[op] /\ Top(op)' = Top(op)
    BY <2>1, NoneAwaits, TopStable, VStable
  <2>3. AbstractCount = count
    <3>1. count = [op \in Ops |-> count[op]]
      BY <1>0 DEF TypeOK
    <3>. QED  BY <2>2, <3>1, CountIsTop
  <2>4. Contract!Execute(r)
    BY <1>0, <2>1, <2>2, <2>3, ExecutesQuietly
  <2>. QED  BY <2>4 DEF Contract!Next
<1>9. ASSUME NEW r \in Requests, Send(r) PROVE Contract!Next
  <2>1. /\ pc[r] = "send" /\ pc'[r] = "done"
        /\ \A s \in Requests : s # r => pc'[s] = pc[s]
        /\ UNCHANGED <<msg, count, last, number, snap>>
    BY <1>0, <1>9 DEF Send, Goto, TypeOK, state
  <2>2. \A s \in Requests : V(s)' = V(s)
    BY <2>1, VStable
  <2>3. AbstractCount' = AbstractCount
    BY <2>1, <2>2, TopStable, CountIsTop
  <2>4. \A s \in Requests : s # r => AbstractPhase(s)' = AbstractPhase(s)
                                     /\ AbstractAnswer(s)' = AbstractAnswer(s)
    BY <2>1, <2>2, OthersUnseen
  <2>5. /\ AbstractPhase(r) = "executed" /\ AbstractPhase(r)' = "done"
        /\ AbstractAnswer(r)' = AbstractAnswer(r)
    BY <2>1, <2>2 DEF AbstractPhase, AbstractAnswer, Response
  <2>6. Contract!Reply(r)
    BY <2>1, <2>3, <2>4, <2>5 DEF Contract!Reply, AbstractAnswer
  <2>. QED  BY <2>6 DEF Contract!Next
<1>10. ASSUME UNCHANGED <<pc, msg, chain, settled, state, number, snap>>
       PROVE  UNCHANGED Contract!vars
  <2>1. UNCHANGED <<count, last>> /\ \A s \in Requests : V(s)' = V(s)
    BY <1>10, VStable DEF state
  <2>2. \A s \in Requests : AbstractPhase(s)' = AbstractPhase(s)
                            /\ AbstractAnswer(s)' = AbstractAnswer(s)
    BY <1>10, <2>1, OthersUnseen
  <2>3. AbstractCount' = AbstractCount
    BY <1>10, <2>1, TopStable, CountIsTop
  <2>. QED  BY <1>10, <2>1, <2>2, <2>3, Stutter
<1>11. CASE UnhandledRejection \/ Shutdown \/ Closed
  BY <1>10, <1>11 DEF UnhandledRejection, Shutdown, Closed
<1>12. CASE UNCHANGED vars
  BY <1>10, <1>12 DEF vars, state
<1>. QED
  BY <1>1, <1>3, <1>4, <1>5, <1>6, <1>7, <1>8, <1>9, <1>11, <1>12 DEF Next, Step, Quiet

\* The TypeScript server implements the contract, also when handlers await,
\* throw, or are cut off by the process's end: each request takes effect when
\* its function settles.
THEOREM TsImplementsContract == Spec => RefinesContract
<1>1. Init => SafeInv /\ OrderInv
  BY InitInv
<1>2. SafeInv /\ OrderInv /\ [Next]_vars => SafeInv' /\ OrderInv'
  BY NextSafe, NextOrder
<1>3. Init => Contract!Init
  BY InitRefines
<1>4. SafeInv /\ OrderInv /\ [Next]_vars => [Contract!Next]_(Contract!vars)
  BY NextRefines
<1>. QED  BY <1>1, <1>2, <1>3, <1>4, PTL DEF Spec, RefinesContract, Contract!Spec
=============================================================================
