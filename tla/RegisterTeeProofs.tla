------------------------- MODULE RegisterTeeProofs -------------------------
(***************************************************************************)
(* Proofs about RegisterTee, for any commands, faults, relaunches and      *)
(* bounds.  Without -resume, whatever earlier runs left in the pool: a run *)
(* asks for the availability check with a challenge of its own that nobody *)
(* has used, and what it reports as registered is registered.  With        *)
(* -resume the state file may be about another machine (see the run        *)
(* register_stale_file), so the two theorems say "without".                *)
(***************************************************************************)
EXTENDS RegisterTee, TLAPS

-----------------------------------------------------------------------------
(* The type invariant.                                                     *)

Txs == [op : {"register", "attest", "check", "promote"}, tee : Tees, id : Nat]

\* The promotion has nothing to save.
PhaseInv == step = "p" => phase # "save"

SafeInv == TypeOK /\ PhaseInv

\* Nothing was sent, nothing was run.
LEMMA InitSafe == Init => SafeInv
<1> SUFFICES ASSUME Init PROVE SafeInv
  OBVIOUS
<1>1. 1 \in Tees
  BY BoundsAssumption DEF Tees
<1>2. /\ issued \in Seq(Instruction) /\ pool \in Seq(Txs)
      /\ receipt \in [ok : BOOLEAN, id : Nat]
  BY DEF Init, NoId
<1>3. file \in [torn : BOOLEAN, saved : State] /\ state \in State
  BY DEF Init, NoFile, NoState, State, NoId
<1>4. run \in [tee : Tees, command : SUBSET Steps, flag : Nat]
  BY <1>1 DEF Init, NoId
<1>5. faults \in 0 .. MaxFaults /\ reruns \in 0 .. MaxReruns
  BY BoundsAssumption DEF Init
<1>. QED  BY <1>1, <1>2, <1>3, <1>4, <1>5 DEF Init, SafeInv, TypeOK, PhaseInv, Txs, NoId

\* What mining one transaction does to the chain.
LEMMA Mined ==
  ASSUME TypeOK, Mine
  PROVE  /\ pool # <<>> /\ pool' = Tail(pool) /\ Head(pool) \in Txs
         /\ UNCHANGED <<live, file, tool, history>>
         /\ ~Accepts(Head(pool)) => /\ receipt' = [ok |-> FALSE, id |-> NoId]
                                    /\ UNCHANGED <<registered, production, issued>>
         /\ Accepts(Head(pool)) =>
              /\ receipt' = [ok |-> TRUE, id |-> Len(issued')]
              /\ registered' = registered \cup
                   (IF Head(pool).op = "register" THEN {Head(pool).tee} ELSE {})
              /\ production' = production \cup
                   (IF Head(pool).op = "promote" THEN {Head(pool).tee} ELSE {})
              /\ Head(pool).op \in {"register", "attest"} =>
                   issued' = Append(issued, Attestation(Head(pool).tee))
              /\ Head(pool).op = "check" =>
                   /\ LiveChallenge(Head(pool).id, Head(pool).tee)
                   /\ issued' = Append([issued EXCEPT ![Head(pool).id].status = "used"],
                                       Check(Head(pool).tee))
              /\ Head(pool).op = "promote" =>
                   Head(pool).tee \in registered /\ issued' = issued
<1>1. pool \in Seq(Txs) /\ pool # <<>>
  BY DEF TypeOK, Txs, Mine
<1>2. PICK tx \in Txs : tx = Head(pool)
  BY <1>1
<1>3. /\ pool' = Tail(pool) /\ UNCHANGED <<live, file, tool, history>>
      /\ ~Accepts(tx) => /\ receipt' = [ok |-> FALSE, id |-> NoId]
                         /\ UNCHANGED <<registered, production, issued>>
      /\ Accepts(tx) =>
           /\ receipt' = [ok |-> TRUE, id |-> Len(issued')]
           /\ registered' = registered \cup (IF tx.op = "register" THEN {tx.tee} ELSE {})
           /\ production' = production \cup (IF tx.op = "promote" THEN {tx.tee} ELSE {})
           /\ issued' =
                 CASE tx.op \in {"register", "attest"} -> Append(issued, Attestation(tx.tee))
                   [] tx.op = "check" ->
                        Append([issued EXCEPT ![tx.id].status = "used"], Check(tx.tee))
                   [] tx.op = "promote" -> issued
  BY <1>2 DEF Mine
<1>4. CASE tx.op \in {"register", "attest"}
  BY <1>1, <1>2, <1>3, <1>4
<1>5. CASE tx.op = "check"
  <2>1. Accepts(tx) => LiveChallenge(tx.id, tx.tee)
    BY <1>5 DEF Accepts
  <2>. QED  BY <1>1, <1>2, <1>3, <1>5, <2>1
<1>6. CASE tx.op = "promote"
  <2>1. Accepts(tx) => tx.tee \in registered
    BY <1>6 DEF Accepts
  <2>. QED  BY <1>1, <1>2, <1>3, <1>6, <2>1
<1>7. tx.op \in {"register", "attest", "check", "promote"}
  BY DEF Txs
<1>. QED  BY <1>4, <1>5, <1>6, <1>7

\* Instructions are only added, and only their status changes: what an ID
\* stands for never does.
Grows ==
    /\ issued' \in Seq(Instruction) /\ Len(issued) <= Len(issued')
    /\ \A id \in DOMAIN issued : /\ id \in DOMAIN issued'
                                 /\ issued'[id].kind = issued[id].kind
                                 /\ issued'[id].tee = issued[id].tee

\* What Append does to the instructions, in one place.
LEMMA AppendGrows ==
  ASSUME NEW is \in Seq(Instruction), NEW i \in Instruction
  PROVE  /\ Append(is, i) \in Seq(Instruction)
         /\ Len(Append(is, i)) = Len(is) + 1 /\ Len(is) \in Nat
         /\ DOMAIN Append(is, i) = 1 .. (Len(is) + 1) /\ DOMAIN is = 1 .. Len(is)
         /\ Append(is, i)[Len(is) + 1] = i
         /\ \A id \in 1 .. Len(is) : Append(is, i)[id] = is[id]
OBVIOUS

\* A status written over one instruction.
LEMMA StatusKeeps ==
  ASSUME NEW is \in Seq(Instruction), NEW id \in DOMAIN is,
         NEW s \in {"live", "used", "expired", "pending", "proved"}
  PROVE  /\ [is EXCEPT ![id].status = s] \in Seq(Instruction)
         /\ Len([is EXCEPT ![id].status = s]) = Len(is)
         /\ DOMAIN [is EXCEPT ![id].status = s] = DOMAIN is
         /\ \A j \in DOMAIN is : /\ [is EXCEPT ![id].status = s][j].kind = is[j].kind
                                 /\ [is EXCEPT ![id].status = s][j].tee = is[j].tee
                                 /\ j # id => [is EXCEPT ![id].status = s][j] = is[j]
<1> DEFINE new == [is[id] EXCEPT !.status = s]
<1>1. is[id] \in Instruction
  OBVIOUS
<1>2. new \in Instruction /\ new.kind = is[id].kind /\ new.tee = is[id].tee
  BY <1>1 DEF Instruction
<1>3. [is EXCEPT ![id].status = s] = [is EXCEPT ![id] = new]
  OBVIOUS
<1> HIDE DEF new
<1>4. [is EXCEPT ![id] = new] \in Seq(Instruction) /\ Len([is EXCEPT ![id] = new]) = Len(is)
  BY <1>2
<1>5. \A j \in DOMAIN is : [is EXCEPT ![id] = new][j] = IF j = id THEN new ELSE is[j]
  OBVIOUS
<1>. QED  BY <1>2, <1>3, <1>4, <1>5

\* Mining lets the instructions grow.
LEMMA MineGrows ==
  ASSUME TypeOK, Mine
  PROVE  Grows
<1> DEFINE tx == Head(pool)
<1>1. issued \in Seq(Instruction) /\ tx \in Txs
  BY Mined DEF TypeOK
<1>2. Attestation(tx.tee) \in Instruction /\ Check(tx.tee) \in Instruction
  BY <1>1 DEF Attestation, Check, Instruction, Txs
<1>3. CASE issued' = issued
  BY <1>1, <1>3 DEF Grows
<1>4. CASE issued' = Append(issued, Attestation(tx.tee))
  BY <1>1, <1>2, <1>4, AppendGrows DEF Grows
<1>5. CASE LiveChallenge(tx.id, tx.tee) /\
           issued' = Append([issued EXCEPT ![tx.id].status = "used"], Check(tx.tee))
  <2>1. tx.id \in DOMAIN issued
    BY <1>5 DEF LiveChallenge
  <2>2. PICK is \in Seq(Instruction) : is = [issued EXCEPT ![tx.id].status = "used"]
    BY <1>1, <2>1, StatusKeeps
  <2>3. /\ DOMAIN is = DOMAIN issued /\ Len(is) = Len(issued)
        /\ \A j \in DOMAIN issued : is[j].kind = issued[j].kind /\ is[j].tee = issued[j].tee
    BY <1>1, <2>1, <2>2, StatusKeeps
  <2>4. issued' = Append(is, Check(tx.tee))
    BY <1>5, <2>2
  <2>. QED  BY <1>1, <1>2, <2>3, <2>4, AppendGrows DEF Grows
<1>. QED  BY <1>1, <1>3, <1>4, <1>5, Mined DEF Txs


\* Mining issues an instruction for no other machine than the transaction's.
LEMMA MineIssues ==
  ASSUME TypeOK, Mine
  PROVE  \A id \in DOMAIN issued' :
            \/ id \in DOMAIN issued /\ issued'[id].tee = issued[id].tee
            \/ Accepts(Head(pool)) /\ issued'[id].tee = Head(pool).tee
<1> DEFINE tx == Head(pool)
<1>1. issued \in Seq(Instruction) /\ tx \in Txs /\ Grows
  BY Mined, MineGrows DEF TypeOK
<1>2. /\ Attestation(tx.tee) \in Instruction /\ Attestation(tx.tee).tee = tx.tee
      /\ Check(tx.tee) \in Instruction /\ Check(tx.tee).tee = tx.tee
  BY <1>1 DEF Attestation, Check, Instruction, Txs
<1>3. CASE issued' = issued
  BY <1>3
<1>4. CASE Accepts(tx) /\ issued' = Append(issued, Attestation(tx.tee))
  BY <1>1, <1>2, <1>4, AppendGrows
<1>5. CASE Accepts(tx) /\ LiveChallenge(tx.id, tx.tee) /\
           issued' = Append([issued EXCEPT ![tx.id].status = "used"], Check(tx.tee))
  <2>1. tx.id \in DOMAIN issued
    BY <1>5 DEF LiveChallenge
  <2>2. PICK is \in Seq(Instruction) : is = [issued EXCEPT ![tx.id].status = "used"]
    BY <1>1, <2>1, StatusKeeps
  <2>3. DOMAIN is = DOMAIN issued /\ Len(is) = Len(issued)
    BY <1>1, <2>1, <2>2, StatusKeeps
  <2>4. issued' = Append(is, Check(tx.tee))
    BY <1>5, <2>2
  <2>. QED  BY <1>1, <1>2, <1>5, <2>3, <2>4, AppendGrows DEF Grows
<1>. QED  BY <1>1, <1>3, <1>4, <1>5, Mined DEF Txs

\* Sending a well-formed transaction keeps the pool, the step and the phase in
\* their types, and never makes a promotion one that has something to save.
LEMMA SendSafe ==
  ASSUME SafeInv, NEW tx \in Txs, Send(tx), phase = "begin"
  PROVE  /\ pool' \in Seq(Txs)
         /\ step' \in Steps \cup {"off"} /\ phase' \in {"begin", "wait"}
<1>1. pool \in Seq(Txs) /\ step \in Steps \cup {"off"}
  BY DEF SafeInv, TypeOK, Txs
<1>2. CASE Accepts(tx)
  BY <1>1, <1>2 DEF Send
<1>3. CASE ~Accepts(tx)
  BY <1>1, <1>3 DEF Send
<1>. QED  BY <1>2, <1>3

\* A fault stays within its bound.
LEMMA FaultBound ==
  ASSUME TypeOK, NEW k, Fault(k)
  PROVE  faults' \in 0 .. MaxFaults
BY BoundsAssumption DEF TypeOK, Fault

\* Every step keeps the types.
LEMMA NextSafe == SafeInv /\ [Next]_vars => SafeInv'
<1> SUFFICES ASSUME SafeInv, [Next]_vars
             PROVE  SafeInv'
  OBVIOUS
<1>t. TypeOK /\ PhaseInv
  BY DEF SafeInv
<1>u. pool \in Seq(Txs) /\ issued \in Seq(Instruction)
  BY <1>t DEF TypeOK, Txs
<1> USE <1>t
<1>1. ASSUME NEW c \in Commands, NEW b \in Resumes, NEW flag \in {NoId} \cup DOMAIN issued,
             Start(c, b, flag)
      PROVE  SafeInv'
  <2>1. flag \in Nat
    BY <1>u DEF NoId
  <2>2. c \in SUBSET Steps /\ b \in BOOLEAN
    BY CommandsAssumption, OperatorAssumption
  <2>3. NoFile \in [torn : BOOLEAN, saved : State]
    BY DEF NoFile, NoState, State, NoId
  <2>4. file' \in [torn : BOOLEAN, saved : State]
    BY <1>1, <2>2, <2>3 DEF Start, TypeOK
  <2>5. state' \in State
    BY <1>1, <2>4 DEF Start
  <2>6. run' \in [tee : Tees, command : SUBSET Steps, flag : Nat]
    BY <1>1, <2>1, <2>2 DEF Start, TypeOK
  <2>7. reruns' \in 0 .. MaxReruns
    BY <1>1, BoundsAssumption DEF Start, TypeOK
  <2>8. /\ step' = "r" /\ phase' = "begin" /\ attest' = NoId /\ avail' = NoId
        /\ UNCHANGED <<registered, production, issued, receipt, pool, live, reported, faults>>
    BY <1>1 DEF Start, chain
  <2>. QED  BY <2>4, <2>5, <2>6, <2>7, <2>8 DEF SafeInv, TypeOK, PhaseInv, Steps, NoId
<1>2. CASE Skip
  <2>1. step' \in Steps
    BY <1>2 DEF Skip, After, Steps
  <2>2. attest' \in Nat /\ avail' \in Nat
    BY <1>2 DEF Skip, TypeOK, State
  <2>3. /\ phase = "begin"
        /\ UNCHANGED <<registered, production, issued, receipt, pool, live, file, phase,
                       run, state, reported, faults, reruns>>
    BY <1>2 DEF Skip, chain, history
  <2>. QED  BY <2>1, <2>2, <2>3 DEF SafeInv, TypeOK, PhaseInv
<1>3. ASSUME NEW tx \in Txs, Send(tx), phase = "begin",
             UNCHANGED <<chain, live, file, run, state, attest, avail, history>>
      PROVE  SafeInv'
  <2>1. /\ pool' \in Seq(Txs)
        /\ step' \in Steps \cup {"off"} /\ phase' \in {"begin", "wait"}
    BY <1>3, SendSafe
  <2>2. UNCHANGED <<registered, production, issued, receipt, live, file, run, state,
                    attest, avail, reported, faults, reruns>>
    BY <1>3 DEF chain, history
  <2>. QED  BY <2>1, <2>2 DEF SafeInv, TypeOK, PhaseInv, Txs
<1>4. CASE PreRegister
  <2>1. Tx(IF run.tee \in registered THEN "attest" ELSE "register", run.tee, NoId) \in Txs
    BY DEF Tx, Txs, TypeOK, NoId
  <2>. QED  BY <1>3, <1>4, <2>1 DEF PreRegister, Due
<1>5. CASE RequestTeeAttestation
  <2>1. Tx("attest", run.tee, NoId) \in Txs
    BY DEF Tx, Txs, TypeOK, NoId
  <2>. QED  BY <1>3, <1>5, <2>1 DEF RequestTeeAttestation, Due
<1>6. CASE RequestFTDCAvailabilityCheck
  <2>1. Tx("check", run.tee, attest) \in Txs
    BY DEF Tx, Txs, TypeOK
  <2>. QED  BY <1>3, <1>6, <2>1 DEF RequestFTDCAvailabilityCheck, Due
<1>7. CASE ToProduction
  <2>1. issued[avail] \in Instruction
    BY <1>7, <1>u DEF ToProduction, Proved
  <2>2. Tx("promote", issued[avail].tee, NoId) \in Txs
    BY <2>1 DEF Tx, Txs, NoId, Instruction
  <2>. QED  BY <1>3, <1>7, <2>2 DEF ToProduction, Due
<1>8. CASE PollTimesOut
  <2>1. faults' \in 0 .. MaxFaults
    BY <1>8, FaultBound DEF PollTimesOut, TypeOK
  <2>2. /\ step' = "off"
        /\ UNCHANGED <<registered, production, issued, receipt, pool, live, file, phase,
                       run, state, attest, avail, reported, reruns>>
    BY <1>8 DEF PollTimesOut, chain
  <2>. QED  BY <2>1, <2>2 DEF SafeInv, TypeOK, PhaseInv
<1>9. CASE Receipt
  <2>1. /\ step \in {"r", "R", "a"}
        /\ UNCHANGED <<registered, production, issued, receipt, pool, live, file, run,
                       reported, faults, reruns>>
    BY <1>9 DEF Receipt, chain, history
  <2>2. receipt.id \in Nat /\ step \in Steps /\ state.steps \in SUBSET Steps
        /\ state.attest \in Nat /\ state.avail \in Nat
    BY <2>1 DEF TypeOK, State, Steps
  <2>3. CASE receipt.ok
    <3>1. /\ phase' = "save" /\ step' = step
          /\ attest' = (IF step = "a" THEN attest ELSE receipt.id)
          /\ avail' = (IF step = "a" THEN receipt.id ELSE avail)
          /\ state' = [steps |-> state.steps \cup {step},
                         attest |-> IF step = "a" THEN state.attest ELSE receipt.id,
                         avail |-> IF step = "a" THEN receipt.id ELSE state.avail]
      BY <1>9, <2>3 DEF Receipt
    <3>2. state' \in State /\ attest' \in Nat /\ avail' \in Nat
      BY <3>1, <2>2 DEF State, TypeOK
    <3>. QED  BY <2>1, <3>1, <3>2 DEF SafeInv, TypeOK, PhaseInv
  <2>4. CASE ~receipt.ok
    <3>1. step' = "off" /\ UNCHANGED <<phase, state, attest, avail>>
      BY <1>9, <2>4 DEF Receipt
    <3>. QED  BY <2>1, <3>1 DEF SafeInv, TypeOK, PhaseInv
  <2>. QED  BY <2>3, <2>4
<1>10. CASE Save
  <2>1. step \in {"r", "R", "a"}
    BY <1>10 DEF Save, TypeOK, PhaseInv, Steps
  <2>2. step' \in Steps /\ phase' = "begin"
        /\ UNCHANGED <<registered, production, issued, receipt, pool, live, run, state,
                       attest, avail, reported, reruns>>
    BY <1>10, <2>1 DEF Save, After, Steps, chain
  <2>3. faults' \in 0 .. MaxFaults
    BY <1>10, FaultBound DEF Save, TypeOK
  <2>4. file' \in [torn : BOOLEAN, saved : State]
    <3>1. [torn |-> FALSE, saved |-> state] \in [torn : BOOLEAN, saved : State]
      BY DEF TypeOK
    <3>2. file' = [torn |-> FALSE, saved |-> state] \/ file' = file
      BY <1>10 DEF Save
    <3>. QED  BY <3>1, <3>2 DEF TypeOK
  <2>. QED  BY <2>2, <2>3, <2>4 DEF SafeInv, TypeOK, PhaseInv
<1>11. CASE Finish
  <2>1. NoFile \in [torn : BOOLEAN, saved : State]
    BY DEF NoFile, NoState, State, NoId
  <2>2. /\ step' = "off" /\ file' = NoFile
        /\ UNCHANGED <<registered, production, issued, receipt, pool, live, phase, run, state,
                       attest, avail, faults, reruns>>
    BY <1>11 DEF Finish, chain
  <2>3. reported' \in SUBSET [tee : Tees, command : SUBSET Steps]
    <3>1. [tee |-> run.tee, command |-> run.command] \in [tee : Tees, command : SUBSET Steps]
      BY DEF TypeOK
    <3>2. reported' = reported \cup {[tee |-> run.tee, command |-> run.command]}
      BY <1>11 DEF Finish
    <3>. QED  BY <3>1, <3>2 DEF TypeOK
  <2>. QED  BY <2>1, <2>2, <2>3 DEF SafeInv, TypeOK, PhaseInv
<1>12. CASE Mine
  <2>1. Grows /\ pool' = Tail(pool) /\ pool # <<>> /\ Head(pool) \in Txs
    BY <1>12, MineGrows, Mined
  <2>2. UNCHANGED <<live, file, step, phase, run, state, attest, avail, reported, faults,
                    reruns>>
    BY <1>12, Mined DEF tool, history
  <2>3. pool' \in Seq(Txs)
    BY <2>1, <1>u
  <2>4. receipt' \in [ok : BOOLEAN, id : Nat]
    <3>1. Len(issued') \in Nat
      BY <2>1 DEF Grows
    <3>2. \/ receipt' = [ok |-> FALSE, id |-> 0]
          \/ receipt' = [ok |-> TRUE, id |-> Len(issued')]
      BY <1>12, Mined DEF NoId
    <3>3. PICK n \in Nat : n = Len(issued')
      BY <3>1
    <3>4. /\ [ok |-> FALSE, id |-> 0] \in [ok : BOOLEAN, id : Nat]
          /\ [ok |-> TRUE, id |-> n] \in [ok : BOOLEAN, id : Nat]
      OBVIOUS
    <3>. QED  BY <3>2, <3>3, <3>4
  <2>5. registered' \in SUBSET Tees /\ production' \in SUBSET registered'
    <3>1. Head(pool).tee \in Tees
      BY <2>1 DEF Txs
    <3>2. CASE Accepts(Head(pool))
      BY <1>12, <3>1, <3>2, Mined DEF TypeOK
    <3>3. CASE ~Accepts(Head(pool))
      BY <1>12, <3>3, Mined DEF TypeOK
    <3>. QED  BY <3>2, <3>3
  <2>. QED  BY <2>1, <2>2, <2>3, <2>4, <2>5 DEF SafeInv, TypeOK, PhaseInv, Grows, Txs
<1>13. ASSUME NEW id, Prove(id) \/ Expire(id)
       PROVE  SafeInv'
  <2>1. PICK s \in {"expired", "proved"} :
            id \in DOMAIN issued /\ issued' = [issued EXCEPT ![id].status = s]
    BY <1>13 DEF Prove, Expire
  <2>2. issued' \in Seq(Instruction)
    BY <2>1, <1>u, StatusKeeps
  <2>3. faults' \in 0 .. MaxFaults
    BY <1>13, FaultBound DEF Prove, Expire, TypeOK, history
  <2>4. UNCHANGED <<registered, production, receipt, pool, live, file, step, phase, run, state,
                    attest, avail, reported, reruns>>
    BY <1>13 DEF Prove, Expire, tool, history
  <2>. QED  BY <2>2, <2>3, <2>4 DEF SafeInv, TypeOK, PhaseInv
<1>14. CASE Abort
  <2>1. faults' \in 0 .. MaxFaults
    BY <1>14, FaultBound DEF Abort
  <2>. QED  BY <1>14, <2>1 DEF Abort, chain, SafeInv, TypeOK, PhaseInv
<1>15. CASE TornSave
  <2>1. faults' \in 0 .. MaxFaults
    BY <1>15, FaultBound DEF TornSave
  <2>2. file' \in [torn : BOOLEAN, saved : State]
    BY <1>15 DEF TornSave, TypeOK
  <2>. QED  BY <1>15, <2>1, <2>2 DEF TornSave, chain, SafeInv, TypeOK, PhaseInv
<1>16. CASE Relaunch
  <2>1. live' \in Tees
    BY <1>16, BoundsAssumption DEF Relaunch, TypeOK, Tees
  <2>. QED  BY <1>16, <2>1 DEF Relaunch, chain, tool, history, SafeInv, TypeOK, PhaseInv
<1>17. CASE UNCHANGED vars
  BY <1>17 DEF vars, chain, tool, history, SafeInv, TypeOK, PhaseInv
<1>. QED  BY <1>1, <1>2, <1>4, <1>5, <1>6, <1>7, <1>8, <1>9, <1>10, <1>11, <1>12, <1>13,
             <1>14, <1>15, <1>16, <1>17
          DEF Next, Tool, Operator, RunTool, Proofs, Expiries, Rest

\* The types and the phases, in every reachable state.
THEOREM SafeInvariant == Spec => []SafeInv
BY InitSafe, NextSafe, PTL DEF Spec

\* TypeOK: the tool, its state file and the chain keep their types.
THEOREM TypeCorrect == Spec => []TypeOK
<1>1. SafeInv => TypeOK
  BY DEF SafeInv
<1>. QED  BY <1>1, SafeInvariant, PTL


-----------------------------------------------------------------------------
(* What a run holds, without -resume.                                      *)

Tagged(id, kind, t) == id \in DOMAIN issued /\ issued[id].kind = kind /\ issued[id].tee = t

\* The steps a run may have completed when it begins step s.
Before == [r |-> {}, R |-> {"r"}, a |-> {"r", "R"}, p |-> {"r", "R", "a"}]

\* What the transaction of step s does.
Ops == [r |-> {"register", "attest"}, R |-> {"attest"}, a |-> {"check"}, p |-> {"promote"}]

\* What a receipt without error means to the step that waited for it.
Outcome ==
    /\ step \in {"r", "R"} => LiveChallenge(receipt.id, run.tee)
    /\ step = "a" => Tagged(receipt.id, "avail", run.tee)
    /\ step = "p" => run.tee \in production
    /\ run.tee \in registered

\* Only steps of this run are completed: none is skipped for an earlier one.
StepsInv ==
    step # "off" =>
        /\ state.steps \subseteq Before[step] \cup (IF phase = "save" THEN {step} ELSE {})
        /\ run.command \in Commands

\* The check whose proof the run will fetch is one of its own machine.
CheckInv ==
    step # "off" => \A id \in {run.flag, avail} : id = NoId \/ Tagged(id, "avail", run.tee)

\* The transaction waited for is the last in the pool; when the pool is empty
\* the receipt is the one of that transaction.
WaitInv ==
    step # "off" /\ phase = "wait" =>
        /\ pool = <<>> /\ receipt.ok => Outcome
        /\ pool # <<>> => /\ pool[Len(pool)].tee = run.tee
                          /\ pool[Len(pool)].op \in Ops[step]

\* A challenge the run holds is its machine's and unused, with nothing left in
\* the pool that could use it.
ChallengeInv ==
    /\ \/ step \in {"r", "R"} /\ phase \in {"begin", "save"}
       \/ step = "a" /\ phase = "begin"
    /\ attest # NoId
    => LiveChallenge(attest, run.tee) /\ pool = <<>>

\* A run that asked for a challenge has one by the time it needs it.
HoldsInv ==
    \/ step \in {"r", "R"} /\ phase = "save"
    \/ step = "R" /\ phase = "begin" /\ "r" \in run.command
    \/ step = "a" /\ phase = "begin" /\ {"r", "R"} \cap run.command # {}
    => attest # NoId

\* The registry issues instructions for machines it has.
IssuedInv == \A id \in DOMAIN issued : issued[id].tee \in registered

\* A machine for which a run has completed a step is in the registry.
PassedInv ==
    /\ step # "off"
    /\ run.command \cap (Before[step] \cup (IF phase = "save" THEN {step} ELSE {})) # {}
    => run.tee \in registered

RunInv ==
    /\ StepsInv /\ CheckInv /\ WaitInv /\ ChallengeInv /\ HoldsInv
    /\ IssuedInv /\ PassedInv /\ ReportedIsRegistered


\* A step of others: the tool and the pool stand still, instructions keep what
\* they are, and while a tool runs no challenge dies.
LEMMA OthersKeep ==
  ASSUME SafeInv, RunInv, UNCHANGED <<tool, pool, receipt, registered, production, reported>>,
         DOMAIN issued' = DOMAIN issued,
         \A id \in DOMAIN issued : /\ id \in DOMAIN issued'
                                   /\ issued'[id].kind = issued[id].kind
                                   /\ issued'[id].tee = issued[id].tee,
         step # "off" => \A id \in DOMAIN issued, t \in Tees :
                            issued[id] = Attestation(t) => issued'[id] = issued[id]
  PROVE  RunInv'
<1>1. UNCHANGED <<step, phase, run, state, attest, avail, pool, receipt, registered,
                  production, reported>>
  BY DEF tool
<1>2. run.tee \in Tees /\ (step = "off" \/ step \in Steps)
  BY DEF SafeInv, TypeOK
<1>3. ASSUME NEW id, NEW kind, Tagged(id, kind, run.tee)
      PROVE  id \in DOMAIN issued' /\ issued'[id].kind = kind /\ issued'[id].tee = run.tee
  BY <1>3 DEF Tagged
<1>4. ASSUME NEW id, LiveChallenge(id, run.tee), step # "off"
      PROVE  id \in DOMAIN issued' /\ issued'[id] = Attestation(run.tee)
  BY <1>2, <1>4 DEF LiveChallenge
<1>5. StepsInv' /\ ReportedIsRegistered' /\ HoldsInv' /\ PassedInv'
  BY <1>1 DEF RunInv, StepsInv, ReportedIsRegistered, HoldsInv, PassedInv
<1>9. IssuedInv'
  BY <1>1 DEF RunInv, IssuedInv
<1>6. CheckInv'
  BY <1>1, <1>3 DEF RunInv, CheckInv, Tagged
<1>7. ChallengeInv'
  BY <1>1, <1>4 DEF RunInv, ChallengeInv, LiveChallenge
<1>8. WaitInv'
  BY <1>1, <1>2, <1>3, <1>4 DEF RunInv, WaitInv, Outcome, LiveChallenge, Tagged, Steps
<1>. QED  BY <1>5, <1>6, <1>7, <1>8, <1>9 DEF RunInv

\* A tool that stops leaves no claim but what it reported.
LEMMA StopKeeps ==
  ASSUME RunInv, step' = "off", UNCHANGED <<issued, registered>>, ReportedIsRegistered'
  PROVE  RunInv'
BY DEF RunInv, StepsInv, CheckInv, WaitInv, ChallengeInv, HoldsInv, IssuedInv, PassedInv

\* Sending a transaction of the run's own machine.
LEMMA SendKeeps ==
  ASSUME SafeInv, RunInv, NEW tx \in Txs, Send(tx), step # "off", phase = "begin",
         tx.tee = run.tee, tx.op \in Ops[step],
         UNCHANGED <<chain, live, file, run, state, attest, avail, history>>
  PROVE  RunInv'
<1>1. UNCHANGED <<issued, registered, production, run, state, attest, avail, reported>>
  BY DEF chain, history
<1>2. ReportedIsRegistered'
  BY <1>1 DEF RunInv, ReportedIsRegistered
<1>3. CASE ~Accepts(tx)
  BY <1>1, <1>2, <1>3, StopKeeps DEF Send
<1>4. CASE Accepts(tx)
  <2>1. pool' = Append(pool, tx) /\ phase' = "wait" /\ step' = step
    BY <1>4 DEF Send
  <2>2. pool \in Seq(Txs)
    BY DEF SafeInv, TypeOK, Txs
  <2>3. pool' # <<>> /\ pool'[Len(pool')] = tx
    BY <2>1, <2>2
  <2>4. WaitInv'
    BY <1>1, <2>1, <2>3 DEF WaitInv
  <2>5. StepsInv' /\ CheckInv'
    BY <1>1, <2>1 DEF RunInv, StepsInv, CheckInv, Tagged
  <2>6. ChallengeInv' /\ HoldsInv'
    BY <2>1 DEF ChallengeInv, HoldsInv
  <2>7. IssuedInv' /\ PassedInv'
    BY <1>1, <2>1 DEF RunInv, IssuedInv, PassedInv
  <2>. QED  BY <1>2, <2>4, <2>5, <2>6, <2>7 DEF RunInv
<1>. QED  BY <1>3, <1>4

\* In a pool that mining empties, the first transaction is the last.
LEMMA OneLeft ==
  ASSUME NEW txs \in Seq(Txs), txs # <<>>, Tail(txs) = <<>>
  PROVE  Head(txs) = txs[Len(txs)]
<1>1. /\ Len(Tail(txs)) = Len(txs) - 1 /\ Len(txs) \in Nat
      /\ Tail(txs) \in Seq(Txs) /\ Head(txs) = txs[1]
  OBVIOUS
<1>2. PICK t \in Seq(Txs) : t = Tail(txs)
  BY <1>1
<1>3. Len(t) = 0
  BY <1>2
<1>. QED  BY <1>1, <1>2, <1>3

\* Mining: the transaction waited for, when its turn comes, has the outcome its
\* step expects; the ones before it are left by earlier runs and cannot touch
\* what the run holds.
LEMMA MineKeeps ==
  ASSUME SafeInv, RunInv, Mine
  PROVE  RunInv'
<1> DEFINE tx == Head(pool)
<1>1. TypeOK
  BY DEF SafeInv
<1>2. pool \in Seq(Txs) /\ pool # <<>> /\ pool' = Tail(pool) /\ tx \in Txs
  BY <1>1, Mined DEF TypeOK, Txs
<1>3. UNCHANGED <<step, phase, run, state, attest, avail, reported>>
  BY <1>1, Mined DEF tool, history
<1>4. Grows
  BY <1>1, MineGrows
<1>5. StepsInv' /\ HoldsInv'
  BY <1>3 DEF RunInv, StepsInv, HoldsInv
<1>6. CheckInv'
  BY <1>3, <1>4 DEF RunInv, CheckInv, Tagged, Grows
<1>7. ChallengeInv'
  BY <1>2, <1>3 DEF RunInv, ChallengeInv
<1>8. production \subseteq production' /\ registered \subseteq registered'
  BY <1>1, Mined
<1>9. ReportedIsRegistered' /\ PassedInv'
  BY <1>3, <1>8 DEF RunInv, ReportedIsRegistered, PassedInv
<1>a. Accepts(tx) => tx.tee \in registered'
  <2>1. tx.op \in {"attest", "promote"} /\ Accepts(tx) => tx.tee \in registered
    BY DEF Accepts
  <2>2. tx.op = "check" /\ Accepts(tx) => tx.tee \in registered
    BY <1>1, Mined DEF LiveChallenge, Attestation, RunInv, IssuedInv
  <2>3. tx.op = "register" /\ Accepts(tx) => tx.tee \in registered'
    BY <1>1, Mined
  <2>. QED  BY <1>2, <1>8, <2>1, <2>2, <2>3 DEF Txs
<1>b. IssuedInv'
  BY <1>1, <1>8, <1>a, MineIssues DEF RunInv, IssuedInv
<1>10. WaitInv'
  <2> SUFFICES ASSUME step # "off", phase = "wait"
               PROVE  /\ pool' = <<>> /\ receipt'.ok => Outcome'
                      /\ pool' # <<>> => /\ pool'[Len(pool')].tee = run'.tee
                                         /\ pool'[Len(pool')].op \in Ops[step']
    BY <1>3 DEF WaitInv
  <2>1. /\ pool[Len(pool)].tee = run.tee /\ pool[Len(pool)].op \in Ops[step]
        /\ step \in Steps
    BY <1>1, <1>2 DEF RunInv, WaitInv, TypeOK
  <2>2. CASE pool' # <<>>
    <3>1. pool'[Len(pool')] = pool[Len(pool)]
      BY <1>2, <2>2
    <3>. QED  BY <1>3, <2>1, <2>2, <3>1
  <2>3. CASE pool' = <<>>
    <3>1. tx = pool[Len(pool)]
      BY <1>2, <2>3, OneLeft
    <3>2. tx.tee = run.tee /\ tx.op \in Ops[step]
      BY <2>1, <3>1
    <3>3. SUFFICES ASSUME receipt'.ok PROVE Outcome'
      BY <2>3
    <3>4. Accepts(tx)
      BY <1>1, <3>3, Mined
    <3>r. run'.tee \in registered'
      BY <1>3, <1>a, <3>2, <3>4
    <3>5. receipt'.id = Len(issued')
      BY <1>1, <3>4, Mined
    <3>6. issued \in Seq(Instruction) /\ run.tee \in Tees
      BY <1>1 DEF TypeOK
    <3>7. CASE step \in {"r", "R"}
      <4>1. issued' = Append(issued, Attestation(run.tee))
        BY <1>1, <3>2, <3>4, <3>7, Mined DEF Ops
      <4>2. Attestation(run.tee) \in Instruction
        BY <3>6 DEF Attestation, Instruction
      <4>3. Len(issued') \in DOMAIN issued' /\ issued'[Len(issued')] = Attestation(run.tee)
        BY <3>6, <4>1, <4>2
      <4>. QED  BY <1>3, <3>r, <3>5, <3>7, <4>3 DEF Outcome, LiveChallenge
    <3>8. CASE step = "a"
      <4>1. /\ tx.id \in DOMAIN issued
            /\ issued' = Append([issued EXCEPT ![tx.id].status = "used"], Check(run.tee))
        BY <1>1, <3>2, <3>4, <3>8, Mined DEF Ops, LiveChallenge
      <4>2. PICK is \in Seq(Instruction) : is = [issued EXCEPT ![tx.id].status = "used"]
        BY <3>6, <4>1, StatusKeeps
      <4>3. Check(run.tee) \in Instruction
        BY <3>6 DEF Check, Instruction
      <4>4. issued' = Append(is, Check(run.tee))
        BY <4>1, <4>2
      <4>5. Len(issued') \in DOMAIN issued' /\ issued'[Len(issued')] = Check(run.tee)
        BY <4>3, <4>4
      <4>6. Check(run.tee).kind = "avail" /\ Check(run.tee).tee = run.tee
        BY DEF Check
      <4>. QED  BY <1>3, <3>r, <3>5, <3>8, <4>5, <4>6 DEF Outcome, Tagged
    <3>9. CASE step = "p"
      BY <1>1, <1>3, <3>r, <3>2, <3>4, <3>9, Mined DEF Ops, Outcome
    <3>. QED  BY <2>1, <3>7, <3>8, <3>9 DEF Steps
  <2>. QED  BY <2>2, <2>3
<1>. QED  BY <1>5, <1>6, <1>7, <1>9, <1>10, <1>b DEF RunInv


\* Every step of every actor keeps what a run holds.
LEMMA NextRun ==
  ASSUME TRUE \notin Resumes, SafeInv, RunInv, [Next]_vars
  PROVE  RunInv'
<1>t. /\ TypeOK /\ PhaseInv /\ StepsInv /\ CheckInv /\ WaitInv /\ ChallengeInv /\ HoldsInv
      /\ IssuedInv /\ PassedInv /\ ReportedIsRegistered
  BY DEF SafeInv, RunInv
<1>u. issued \in Seq(Instruction) /\ DOMAIN issued = 1 .. Len(issued)
  BY <1>t DEF TypeOK
<1>v. step \notin Before[step] \/ step = "off"
  BY <1>t DEF TypeOK, Steps, Before
<1>1. ASSUME NEW c \in Commands, NEW b \in Resumes,
             NEW flag \in {NoId} \cup {id \in DOMAIN issued :
                            issued[id].kind = "avail" /\ issued[id].tee = live},
             Start(c, b, flag)
      PROVE  RunInv'
  <2>1. b = FALSE
    BY <1>1, OperatorAssumption
  <2>2. state'.steps = {}
    BY <1>1, <2>1 DEF Start, NoFile, NoState
  <2>3. /\ run'.tee = live /\ run'.command = c /\ run'.flag = flag
        /\ step' = "r" /\ phase' = "begin" /\ attest' = NoId /\ avail' = NoId
        /\ UNCHANGED <<issued, registered, production, reported>>
    BY <1>1 DEF Start, chain
  <2>4. StepsInv' /\ WaitInv' /\ ChallengeInv' /\ HoldsInv'
    BY <2>2, <2>3 DEF StepsInv, WaitInv, ChallengeInv, HoldsInv
  <2>5. CheckInv'
    BY <2>3 DEF CheckInv, Tagged
  <2>6. IssuedInv' /\ PassedInv' /\ ReportedIsRegistered'
    BY <1>t, <2>3 DEF IssuedInv, PassedInv, Before, ReportedIsRegistered
  <2>. QED  BY <2>4, <2>5, <2>6 DEF RunInv
<1>2. CASE Skip
  <2>1. /\ step \in {"r", "R", "a"} /\ phase = "begin" /\ step \notin run.command
        /\ step' = After[step] /\ attest' = attest
        /\ avail' = IF step = "a" THEN run.flag ELSE avail
        /\ UNCHANGED <<issued, registered, production, pool, phase, run, state, reported>>
    <3>1. step \notin state.steps
      BY <1>2, <1>t, <1>v DEF Skip, StepsInv
    <3>. QED  BY <1>2, <3>1 DEF Skip, chain, history
  <2>2. /\ step = "r" => step' = "R"
        /\ step = "R" => step' = "a"
        /\ step = "a" => step' = "p"
    BY <2>1 DEF After
  <2>3. StepsInv'
    BY <1>t, <2>1, <2>2 DEF StepsInv, Before
  <2>4. CheckInv'
    BY <1>t, <2>1, <2>2 DEF CheckInv, Tagged
  <2>5. WaitInv'
    BY <2>1 DEF WaitInv
  <2>6. ChallengeInv'
    BY <1>t, <2>1, <2>2 DEF ChallengeInv, LiveChallenge
  <2>7. HoldsInv'
    BY <1>t, <2>1, <2>2 DEF HoldsInv
  <2>8. IssuedInv' /\ ReportedIsRegistered'
    BY <1>t, <2>1 DEF IssuedInv, ReportedIsRegistered
  <2>9. PassedInv'
    BY <1>t, <2>1, <2>2 DEF PassedInv, Before
  <2>. QED  BY <2>9, <2>3, <2>4, <2>5, <2>6, <2>7, <2>8 DEF RunInv
<1>3. CASE PreRegister
  <2> DEFINE tx == Tx(IF run.tee \in registered THEN "attest" ELSE "register", run.tee, NoId)
  <2>1. tx \in Txs /\ tx.tee = run.tee /\ tx.op \in {"register", "attest"}
    BY <1>t DEF Tx, Txs, TypeOK, NoId
  <2>2. /\ step = "r" /\ phase = "begin" /\ Send(tx)
        /\ UNCHANGED <<chain, live, file, run, state, attest, avail, history>>
    BY <1>3 DEF PreRegister, Due
  <2> HIDE DEF tx
  <2>3. tx.op \in Ops[step] /\ step # "off"
    BY <2>1, <2>2 DEF Ops
  <2>. QED  BY <2>1, <2>2, <2>3, SendKeeps
<1>4. CASE RequestTeeAttestation
  <2> DEFINE tx == Tx("attest", run.tee, NoId)
  <2>1. tx \in Txs /\ tx.tee = run.tee /\ tx.op = "attest"
    BY <1>t DEF Tx, Txs, TypeOK, NoId
  <2>2. /\ step = "R" /\ phase = "begin" /\ Send(tx)
        /\ UNCHANGED <<chain, live, file, run, state, attest, avail, history>>
    BY <1>4 DEF RequestTeeAttestation, Due
  <2> HIDE DEF tx
  <2>3. tx.op \in Ops[step] /\ step # "off"
    BY <2>1, <2>2 DEF Ops
  <2>. QED  BY <2>1, <2>2, <2>3, SendKeeps
<1>5. CASE RequestFTDCAvailabilityCheck
  <2> DEFINE tx == Tx("check", run.tee, attest)
  <2>1. tx \in Txs /\ tx.tee = run.tee /\ tx.op = "check"
    BY <1>t DEF Tx, Txs, TypeOK
  <2>2. /\ step = "a" /\ phase = "begin" /\ Send(tx)
        /\ UNCHANGED <<chain, live, file, run, state, attest, avail, history>>
    BY <1>5 DEF RequestFTDCAvailabilityCheck, Due
  <2> HIDE DEF tx
  <2>3. tx.op \in Ops[step] /\ step # "off"
    BY <2>1, <2>2 DEF Ops
  <2>. QED  BY <2>1, <2>2, <2>3, SendKeeps
<1>6. CASE ToProduction
  <2> DEFINE tx == Tx("promote", issued[avail].tee, NoId)
  <2>1. /\ step = "p" /\ phase = "begin" /\ Send(tx) /\ avail \in DOMAIN issued
        /\ UNCHANGED <<chain, live, file, run, state, attest, avail, history>>
    BY <1>6 DEF ToProduction, Due, Proved
  <2>2. issued[avail].tee = run.tee
    BY <1>t, <1>u, <2>1 DEF CheckInv, Tagged, NoId
  <2>3. tx \in Txs /\ tx.tee = run.tee /\ tx.op = "promote"
    BY <1>t, <2>2 DEF Tx, Txs, TypeOK, NoId
  <2> HIDE DEF tx
  <2>4. tx.op \in Ops[step] /\ step # "off"
    BY <2>1, <2>3 DEF Ops
  <2>. QED  BY <2>1, <2>3, <2>4, SendKeeps
<1>7. CASE Receipt
  <2>1. /\ phase = "wait" /\ step \in {"r", "R", "a"} /\ pool = <<>>
        /\ UNCHANGED <<issued, registered, production, pool, run, reported>>
    BY <1>7 DEF Receipt, chain, history
  <2>2. IssuedInv' /\ ReportedIsRegistered'
    BY <1>t, <2>1 DEF IssuedInv, ReportedIsRegistered
  <2>3. CASE ~receipt.ok
    BY <1>7, <2>1, <2>2, <2>3, StopKeeps DEF Receipt
  <2>4. CASE receipt.ok
    <3>1. /\ phase' = "save" /\ step' = step
          /\ attest' = (IF step = "a" THEN attest ELSE receipt.id)
          /\ avail' = (IF step = "a" THEN receipt.id ELSE avail)
          /\ state'.steps = state.steps \cup {step}
      BY <1>7, <2>4 DEF Receipt
    <3>2. Outcome
      BY <1>t, <2>1, <2>4 DEF WaitInv
    <3>3. StepsInv'
      BY <1>t, <2>1, <3>1 DEF StepsInv
    <3>4. CheckInv'
      BY <1>t, <2>1, <3>1, <3>2 DEF CheckInv, Outcome, Tagged
    <3>5. WaitInv'
      BY <3>1 DEF WaitInv
    <3>6. ChallengeInv'
      BY <2>1, <3>1, <3>2 DEF ChallengeInv, Outcome, LiveChallenge
    <3>7. HoldsInv'
      BY <1>u, <2>1, <3>1, <3>2 DEF HoldsInv, Outcome, LiveChallenge, NoId
    <3>8. PassedInv'
      BY <2>1, <3>2 DEF PassedInv, Outcome
    <3>. QED  BY <2>2, <3>3, <3>4, <3>5, <3>6, <3>7, <3>8 DEF RunInv
  <2>. QED  BY <2>3, <2>4
<1>8. CASE Save
  <2>1. /\ step \in {"r", "R", "a"} /\ phase = "save" /\ phase' = "begin"
        /\ step' = After[step]
        /\ UNCHANGED <<issued, registered, production, pool, run, state, attest, avail,
                       reported>>
    BY <1>8, <1>t DEF Save, TypeOK, PhaseInv, Steps, chain
  <2>2. /\ step = "r" => step' = "R"
        /\ step = "R" => step' = "a"
        /\ step = "a" => step' = "p"
    BY <2>1 DEF After
  <2>3. StepsInv'
    BY <1>t, <2>1, <2>2 DEF StepsInv, Before
  <2>4. CheckInv'
    BY <1>t, <2>1, <2>2 DEF CheckInv, Tagged
  <2>5. ChallengeInv'
    BY <1>t, <2>1, <2>2 DEF ChallengeInv, LiveChallenge
  <2>6. HoldsInv' /\ WaitInv' /\ IssuedInv' /\ ReportedIsRegistered'
    BY <1>t, <2>1, <2>2 DEF HoldsInv, WaitInv, IssuedInv, ReportedIsRegistered
  <2>7. PassedInv'
    BY <1>t, <2>1, <2>2 DEF PassedInv, Before
  <2>. QED  BY <2>3, <2>4, <2>5, <2>6, <2>7 DEF RunInv
<1>9. CASE Finish
  <2> DEFINE rep == [tee |-> run.tee, command |-> run.command]
  <2>1. reported' = reported \cup {rep} /\ rep.tee = run.tee /\ rep.command = run.command
    BY <1>9 DEF Finish
  <2> HIDE DEF rep
  <2>2. UNCHANGED <<issued, registered, production>> /\ step = "p" /\ step' = "off"
    BY <1>9 DEF Finish, chain
  <2>4. "p" \in run.command => run.tee \in production
    BY <1>9, <1>t, <2>2 DEF Finish, WaitInv, Outcome
  <2>5. run.command # {} => run.tee \in registered
    <3>1. production \subseteq registered /\ run.command \subseteq Steps
      BY <1>t DEF TypeOK
    <3>2. "p" \notin run.command /\ run.command # {} => run.tee \in registered
      BY <1>t, <2>2, <3>1 DEF PassedInv, Before, Steps
    <3>. QED  BY <2>4, <3>1, <3>2
  <2>3. ReportedIsRegistered'
    BY <1>t, <2>1, <2>2, <2>4, <2>5 DEF ReportedIsRegistered
  <2>. QED  BY <2>2, <2>3, StopKeeps
<1>10. CASE PollTimesOut \/ Abort \/ TornSave
  <2>1. step' = "off" /\ UNCHANGED <<issued, registered, production, reported>>
    BY <1>10 DEF PollTimesOut, Abort, TornSave, chain
  <2>2. ReportedIsRegistered'
    BY <1>t, <2>1 DEF ReportedIsRegistered
  <2>. QED  BY <2>1, <2>2, StopKeeps
<1>11. CASE Mine
  BY <1>11, MineKeeps
<1>12. ASSUME NEW id, Prove(id) \/ Expire(id)
       PROVE  RunInv'
  <2>1. PICK s \in {"expired", "proved"} :
            id \in DOMAIN issued /\ issued' = [issued EXCEPT ![id].status = s]
    BY <1>12 DEF Prove, Expire
  <2>2. UNCHANGED <<tool, pool, receipt, registered, production, reported>>
    BY <1>12 DEF Prove, Expire, history
  <2>3. \A j \in DOMAIN issued : /\ j \in DOMAIN issued'
                                 /\ issued'[j].kind = issued[j].kind
                                 /\ issued'[j].tee = issued[j].tee
                                 /\ j # id => issued'[j] = issued[j]
    BY <1>u, <2>1, StatusKeeps
  <2>5. DOMAIN issued' = DOMAIN issued
    BY <1>u, <2>1, StatusKeeps
  <2>4. step # "off" => \A t \in Tees : issued[id] # Attestation(t)
    <3>1. step # "off" => issued[id] = Check(live)
      BY <1>12 DEF Prove, Expire
    <3>2. \A t \in Tees : Check(live) # Attestation(t)
      BY DEF Check, Attestation
    <3>. QED  BY <3>1, <3>2
  <2>. QED  BY <2>2, <2>3, <2>4, <2>5, OthersKeep
<1>13. CASE Relaunch \/ UNCHANGED vars
  <2>1. UNCHANGED <<tool, issued, pool, receipt, registered, production, reported>>
    BY <1>13 DEF Relaunch, vars, chain, history
  <2>. QED  BY <2>1, OthersKeep
<1>. QED  BY <1>1, <1>2, <1>3, <1>4, <1>5, <1>6, <1>7, <1>8, <1>9, <1>10, <1>11, <1>12, <1>13
          DEF Next, Tool, Operator, RunTool, Proofs, Expiries, Rest

\* What a run holds, in every reachable state, when -resume is not used.
THEOREM RunInvariant ==
  ASSUME TRUE \notin Resumes
  PROVE  Spec => []RunInv
<1>1. Init => RunInv
  BY DEF Init, RunInv, StepsInv, CheckInv, WaitInv, ChallengeInv, HoldsInv,
         IssuedInv, PassedInv, ReportedIsRegistered
<1>2. SafeInv /\ RunInv /\ [Next]_vars => RunInv'
  BY NextRun
<1>. QED  BY <1>1, <1>2, SafeInvariant, PTL DEF Spec

\* ReportedIsRegistered: without -resume, the machine a run logs as registered
\* is in the registry, and in production when the run promoted it, whatever
\* aborted runs left in the pool and however often the node was relaunched.
THEOREM ReportsAreTrue ==
  ASSUME TRUE \notin Resumes
  PROVE  Spec => []ReportedIsRegistered
<1>1. RunInv => ReportedIsRegistered
  BY DEF RunInv
<1>. QED  BY <1>1, RunInvariant, PTL

\* ChallengeAtHand: without -resume, when every -command that has a has r or R
\* as well, the availability check names an unused challenge of the machine.
THEOREM ChecksHaveChallenge ==
  ASSUME TRUE \notin Resumes,
         \A c \in Commands : "a" \in c => {"r", "R"} \cap c # {}
  PROVE  Spec => []ChallengeAtHand
<1>1. RunInv => ChallengeAtHand
  <2> SUFFICES ASSUME RunInv, Due("a")
               PROVE  LiveChallenge(attest, run.tee)
    BY DEF ChallengeAtHand
  <2>1. step = "a" /\ phase = "begin" /\ "a" \in run.command
    BY DEF Due
  <2>2. run.command \in Commands
    BY <2>1 DEF RunInv, StepsInv
  <2>3. attest # NoId
    BY <2>1, <2>2 DEF RunInv, HoldsInv
  <2>. QED  BY <2>1, <2>3 DEF RunInv, ChallengeInv
<1>. QED  BY <1>1, RunInvariant, PTL
=============================================================================
