------------------------- MODULE GoExtensionProofs -------------------------
(***************************************************************************)
(* Proofs about GoExtension, for any set of requests, names and messages.  *)
(***************************************************************************)
EXTENDS GoExtension, ExtensionProofs, TLAPS

-----------------------------------------------------------------------------
(* The dispatcher.                                                         *)

\* Whatever arrives, the dispatcher classifies it, and only a request with a
\* registered op and a non-empty name reaches a critical section.
LEMMA RouteType ==
  ASSUME NEW m \in Message \cup {NoMessage}
  PROVE  /\ Route(m) \in Verdict
         /\ Route(m).kind = "run" => Route(m).op \in Ops /\ Route(m).name \in Names
<1>1. Http(400) \in Verdict /\ Http(404) \in Verdict /\ Http(405) \in Verdict
      /\ Http(501) \in Verdict
  BY DEF Http, Verdict, Texts, NoOp
<1>2. /\ processSayHelloDecode(m) \in Verdict
      /\ processSayHelloDecode(m).kind = "run" =>
           /\ processSayHelloDecode(m).op \in Ops
           /\ processSayHelloDecode(m).name \in Names
  BY DEF processSayHelloDecode, Run, Fail, Verdict, Texts, Ops, NoOp
<1>3. /\ processSayGoodbyeDecode(m) \in Verdict
      /\ processSayGoodbyeDecode(m).kind = "run" =>
           /\ processSayGoodbyeDecode(m).op \in Ops
           /\ processSayGoodbyeDecode(m).name \in Names
  BY DEF processSayGoodbyeDecode, Run, Fail, Verdict, Texts, Ops, NoOp
<1>4. Http(400).kind = "http" /\ Http(404).kind = "http" /\ Http(405).kind = "http"
      /\ Http(501).kind = "http"
  BY DEF Http
<1>5. /\ processGreeting(m) \in Verdict
      /\ processGreeting(m).kind = "run" =>
           processGreeting(m).op \in Ops /\ processGreeting(m).name \in Names
  BY <1>1, <1>2, <1>3, <1>4 DEF processGreeting
<1>6. /\ actionHandler(m) \in Verdict
      /\ actionHandler(m).kind = "run" =>
           actionHandler(m).op \in Ops /\ actionHandler(m).name \in Names
  BY <1>1, <1>4, <1>5 DEF actionHandler, processAction
<1>7. ReadState \in Verdict /\ ReadState.kind = "state"
  BY DEF ReadState, Verdict, Texts, NoOp
<1>. QED  BY <1>1, <1>4, <1>6, <1>7 DEF Route

\* The same of the request a goroutine is serving, or has yet to receive.
LEMMA VType ==
  ASSUME TypeOK, NEW r \in Requests
  PROVE  /\ V(r) \in Verdict
         /\ V(r).kind = "run" => V(r).op \in Ops /\ V(r).name \in Names
<1>1. msg[r] \in Message \cup {NoMessage}
  BY MessagesAssumption DEF TypeOK
<1>. QED  BY <1>1, RouteType DEF V

-----------------------------------------------------------------------------
(* The inductive invariant, part 1: control and locks.                     *)

Writing == {"count", "number", "last", "Unlock"}

\* A goroutine in a critical section was sent there by its verdict.
ControlInv ==
    \A r \in Requests :
        /\ pc[r] \in Writing \cup {"Lock"} => V(r).kind = "run"
        /\ pc[r] \in {"RLock", "read"} => V(r).kind = "state"
        /\ pc[r] = "idle" => V(r).kind = "http"

\* The program counters agree with the RWMutex, and a writer is alone.
LockInv ==
    /\ \A r \in Requests : pc[r] \in Writing <=> writer = r
    /\ \A r \in Requests : pc[r] = "read" <=> r \in readers
    /\ writer # NoOne => readers = {}

\* The inductive invariant behind type correctness and mutual exclusion.
SafeInv == TypeOK /\ ControlInv /\ LockInv

\* Before the first request nobody holds e.mu and nobody is in a section.
LEMMA InitSafe == Init => SafeInv
<1> SUFFICES ASSUME Init PROVE SafeInv
  OBVIOUS
<1>1. TypeOK
  BY DEF Init, TypeOK, Pcs, ZeroCount, NoLast, ZeroSnap, Snapshot, Texts, Fields
<1>2. ControlInv
  <2>1. \A r \in Requests : V(r).kind = "http"
    BY DEF Init, V, Route, NoMessage, Http
  <2>. QED  BY <2>1 DEF Init, ControlInv, Writing
<1>3. LockInv
  BY NoOneAssumption DEF Init, LockInv, Writing
<1>. QED  BY <1>1, <1>2, <1>3 DEF SafeInv

\* While no request arrives, every verdict stays what it was.
LEMMA VStable ==
  ASSUME UNCHANGED msg
  PROVE  \A r \in Requests : V(r)' = V(r)
BY DEF V

\* Moving one program counter moves no other.
LEMMA GotoMoves ==
  ASSUME TypeOK, NEW r \in Requests, NEW from, NEW to \in Pcs, Goto(r, from, to)
  PROVE  /\ pc' \in [Requests -> Pcs]
         /\ pc[r] = from /\ pc'[r] = to
         /\ \A s \in Requests : s # r => pc'[s] = pc[s]
BY DEF TypeOK, Goto

\* Every access of every goroutine preserves the invariant.
LEMMA NextSafe == SafeInv /\ [Next]_vars => SafeInv'
<1> SUFFICES ASSUME SafeInv, [Next]_vars PROVE SafeInv'
  OBVIOUS
<1> USE DEF SafeInv
<1> USE NoOneAssumption
<1>1. ASSUME NEW r \in Requests, NEW m \in Messages, Accept(r, m) PROVE SafeInv'
  <2>0. "decode" \in Pcs
    BY DEF Pcs
  <2>1. /\ pc' \in [Requests -> Pcs] /\ pc[r] = "idle" /\ pc'[r] = "decode"
        /\ \A s \in Requests : s # r => pc'[s] = pc[s]
    BY <1>1, <2>0, GotoMoves DEF Accept
  <2>2. TypeOK'
    BY <1>1, <2>1 DEF Accept, TypeOK, mu, fields, locals
  <2>3. \A s \in Requests : s # r => V(s)' = V(s)
    BY <1>1 DEF Accept, TypeOK, V
  <2>4. ControlInv'
    BY <1>1, <2>1, <2>3 DEF ControlInv, Writing
  <2>5. LockInv'
    BY <1>1, <2>1 DEF LockInv, Writing, Accept, mu
  <2>. QED  BY <2>2, <2>4, <2>5
<1>2. ASSUME NEW r \in Requests, Decode(r) PROVE SafeInv'
  <2> DEFINE to == CASE V(r).kind = "run"   -> "Lock"
                     [] V(r).kind = "state" -> "RLock"
                     [] OTHER               -> "write"
  <2>0. /\ V(r).kind = "run" => to = "Lock"
        /\ V(r).kind = "state" => to = "RLock"
        /\ V(r).kind \notin {"run", "state"} => to = "write"
    OBVIOUS
  <2>1. to \in {"Lock", "RLock", "write"} /\ to \in Pcs
    BY <2>0 DEF Pcs
  <2>2. Goto(r, "decode", to)
    BY <1>2 DEF Decode
  <2> HIDE DEF to
  <2>3. /\ pc' \in [Requests -> Pcs] /\ pc[r] = "decode" /\ pc'[r] = to
        /\ \A s \in Requests : s # r => pc'[s] = pc[s]
    BY <2>1, <2>2, GotoMoves
  <2>4. TypeOK'
    BY <1>2, <2>3 DEF Decode, TypeOK, mu, fields, locals
  <2>5. \A s \in Requests : V(s)' = V(s)
    BY <1>2, VStable DEF Decode
  <2>6. ControlInv'
    BY <2>0, <2>1, <2>3, <2>5 DEF ControlInv, Writing
  <2>7. LockInv'
    BY <1>2, <2>1, <2>3 DEF LockInv, Writing, Decode, mu
  <2>. QED  BY <2>4, <2>6, <2>7
<1>3. ASSUME NEW r \in Requests, Lock(r) PROVE SafeInv'
  <2>1. /\ pc' \in [Requests -> Pcs] /\ pc[r] = "Lock" /\ pc'[r] = "count"
        /\ \A s \in Requests : s # r => pc'[s] = pc[s]
    BY <1>3, GotoMoves DEF Lock, Pcs
  <2>2. TypeOK'
    BY <1>3, <2>1 DEF Lock, TypeOK, fields, locals
  <2>3. ControlInv'
    BY <1>3, <2>1, VStable DEF ControlInv, Writing, Lock
  <2>4. LockInv'
    BY <1>3, <2>1 DEF LockInv, Writing, Lock, TypeOK
  <2>. QED  BY <2>2, <2>3, <2>4
<1>4. ASSUME NEW r \in Requests, Increment(r) PROVE SafeInv'
  <2>1. /\ pc' \in [Requests -> Pcs] /\ pc[r] = "count" /\ pc'[r] = "number"
        /\ \A s \in Requests : s # r => pc'[s] = pc[s]
    BY <1>4, GotoMoves DEF Increment, Pcs
  <2>2. V(r).op \in Ops
    BY <2>1, VType DEF ControlInv, Writing
  <2>3. TypeOK'
    BY <1>4, <2>1, <2>2 DEF Increment, TypeOK, mu, locals
  <2>4. ControlInv'
    BY <1>4, <2>1, VStable DEF ControlInv, Writing, Increment
  <2>5. LockInv'
    BY <1>4, <2>1 DEF LockInv, Writing, Increment, mu
  <2>. QED  BY <2>3, <2>4, <2>5
<1>5. ASSUME NEW r \in Requests, TakeNumber(r) PROVE SafeInv'
  <2>1. /\ pc' \in [Requests -> Pcs] /\ pc[r] = "number" /\ pc'[r] = "last"
        /\ \A s \in Requests : s # r => pc'[s] = pc[s]
    BY <1>5, GotoMoves DEF TakeNumber, Pcs
  <2>2. V(r).op \in Ops
    BY <2>1, VType DEF ControlInv, Writing
  <2>3. TypeOK'
    BY <1>5, <2>1, <2>2 DEF TakeNumber, TypeOK, mu, fields
  <2>4. ControlInv'
    BY <1>5, <2>1, VStable DEF ControlInv, Writing, TakeNumber
  <2>5. LockInv'
    BY <1>5, <2>1 DEF LockInv, Writing, TakeNumber, mu
  <2>. QED  BY <2>3, <2>4, <2>5
<1>6. ASSUME NEW r \in Requests, SetLast(r) PROVE SafeInv'
  <2>1. /\ pc' \in [Requests -> Pcs] /\ pc[r] = "last" /\ pc'[r] = "Unlock"
        /\ \A s \in Requests : s # r => pc'[s] = pc[s]
    BY <1>6, GotoMoves DEF SetLast, Pcs
  <2>2. V(r).op \in Ops /\ V(r).name \in Texts
    BY <2>1, VType DEF ControlInv, Writing, Texts
  <2>3. TypeOK'
    BY <1>6, <2>1, <2>2 DEF SetLast, TypeOK, mu, locals
  <2>4. ControlInv'
    BY <1>6, <2>1, VStable DEF ControlInv, Writing, SetLast
  <2>5. LockInv'
    BY <1>6, <2>1 DEF LockInv, Writing, SetLast, mu
  <2>. QED  BY <2>3, <2>4, <2>5
<1>7. ASSUME NEW r \in Requests, Unlock(r) PROVE SafeInv'
  <2>1. /\ pc' \in [Requests -> Pcs] /\ pc[r] = "Unlock" /\ pc'[r] = "write"
        /\ \A s \in Requests : s # r => pc'[s] = pc[s]
    BY <1>7, GotoMoves DEF Unlock, Pcs
  <2>2. TypeOK'
    BY <1>7, <2>1 DEF Unlock, TypeOK, fields, locals
  <2>3. ControlInv'
    BY <1>7, <2>1, VStable DEF ControlInv, Writing, Unlock
  <2>4. LockInv'
    BY <1>7, <2>1 DEF LockInv, Writing, Unlock
  <2>. QED  BY <2>2, <2>3, <2>4
<1>8. ASSUME NEW r \in Requests, RLock(r) PROVE SafeInv'
  <2>1. /\ pc' \in [Requests -> Pcs] /\ pc[r] = "RLock" /\ pc'[r] = "read"
        /\ \A s \in Requests : s # r => pc'[s] = pc[s]
    BY <1>8, GotoMoves DEF RLock, Pcs
  <2>2. TypeOK'
    BY <1>8, <2>1 DEF RLock, TypeOK, fields, locals
  <2>3. ControlInv'
    BY <1>8, <2>1, VStable DEF ControlInv, Writing, RLock
  <2>4. LockInv'
    BY <1>8, <2>1 DEF LockInv, Writing, RLock
  <2>. QED  BY <2>2, <2>3, <2>4
<1>9. ASSUME NEW r \in Requests, NEW f \in Fields, ReadField(r, f) PROVE SafeInv'
  <2>1. pc' = pc /\ msg' = msg /\ writer' = writer /\ readers' = readers
    BY <1>9 DEF ReadField, mu
  <2>2. f[2] \in Ops /\ snap[r] \in Snapshot /\ count[f[2]] \in Nat
        /\ last[f[2]] \in Texts
    BY DEF TypeOK, Fields
  <2>3. /\ [snap[r] EXCEPT !.count[f[2]] = count[f[2]]] \in Snapshot
        /\ [snap[r] EXCEPT !.last[f[2]] = last[f[2]]] \in Snapshot
    BY <2>2 DEF Snapshot
  <2>4. snap' \in [Requests -> Snapshot]
    BY <1>9, <2>3 DEF ReadField, TypeOK
  <2>5. TypeOK'
    BY <1>9, <2>1, <2>4 DEF ReadField, TypeOK, fields
  <2>6. ControlInv' /\ LockInv'
    BY <2>1, VStable DEF ControlInv, LockInv
  <2>. QED  BY <2>5, <2>6
<1>10. ASSUME NEW r \in Requests, RUnlock(r) PROVE SafeInv'
  <2>1. /\ pc' \in [Requests -> Pcs] /\ pc[r] = "read" /\ pc'[r] = "write"
        /\ \A s \in Requests : s # r => pc'[s] = pc[s]
    BY <1>10, GotoMoves DEF RUnlock, Pcs
  <2>2. TypeOK'
    BY <1>10, <2>1 DEF RUnlock, TypeOK, fields, locals
  <2>3. ControlInv'
    BY <1>10, <2>1, VStable DEF ControlInv, Writing, RUnlock
  <2>4. LockInv'
    BY <1>10, <2>1 DEF LockInv, Writing, RUnlock
  <2>. QED  BY <2>2, <2>3, <2>4
<1>11. ASSUME NEW r \in Requests, WriteResponse(r) PROVE SafeInv'
  <2>1. /\ pc' \in [Requests -> Pcs] /\ pc[r] = "write" /\ pc'[r] = "done"
        /\ \A s \in Requests : s # r => pc'[s] = pc[s]
    BY <1>11, GotoMoves DEF WriteResponse, Pcs
  <2>2. TypeOK'
    BY <1>11, <2>1 DEF WriteResponse, TypeOK, mu, fields, locals
  <2>3. ControlInv'
    BY <1>11, <2>1, VStable DEF ControlInv, Writing, WriteResponse
  <2>4. LockInv'
    BY <1>11, <2>1 DEF LockInv, Writing, WriteResponse, mu
  <2>. QED  BY <2>2, <2>3, <2>4
<1>12. CASE UNCHANGED vars
  BY <1>12, VStable DEF vars, TypeOK, ControlInv, LockInv
<1>. QED
  BY <1>1, <1>2, <1>3, <1>4, <1>5, <1>6, <1>7, <1>8, <1>9, <1>10, <1>11, <1>12
  DEF Next, Step, AllServed

\* The goroutines never leave the types of their variables, and the program
\* counters always agree with the RWMutex.
THEOREM SafeInvariant == Spec => []SafeInv
BY InitSafe, NextSafe, PTL DEF Spec

\* Type correctness of the Go extension.
THEOREM TypeCorrect == Spec => []TypeOK
<1>1. SafeInv => TypeOK
  BY DEF SafeInv
<1>. QED  BY <1>1, SafeInvariant, PTL

-----------------------------------------------------------------------------
(* Part 2: numbering.  NumbersGapFree names a set; the proof works with    *)
(* its element-wise form.                                                  *)

\* The goroutine of op that has incremented the counter but not yet read it.
Pending(op) == \E r \in Requests : pc[r] = "number" /\ V(r).op = op

\* The highest number handed out for op.
Top(op) == IF Pending(op) THEN count[op] - 1 ELSE count[op]

\* The numbers drawn for an op are distinct and fill 1 up to the highest one.
NumInv ==
    \A op \in Ops :
        /\ Top(op) \in Nat
        /\ \A r, s \in Numbered(op) : number[r] = number[s] => r = s
        /\ \A r \in Numbered(op) : number[r] \in 1 .. Top(op)
        /\ \A k \in 1 .. Top(op) : \E r \in Numbered(op) : number[r] = k

\* The numbering invariant is at least as strong as the property.
LEMMA NumInvImplies == TypeOK /\ NumInv => NumbersGapFree
<1> SUFFICES ASSUME TypeOK, NumInv, NEW op \in Ops
             PROVE  /\ \A r, s \in Numbered(op) : number[r] = number[s] => r = s
                    /\ {number[r] : r \in Numbered(op)} = 1 .. Top(op)
  BY DEF NumbersGapFree, Top, Pending
<1>. QED  BY DEF NumInv

\* With the counters at zero no number has been drawn.
LEMMA InitNum == Init => NumInv
<1> SUFFICES ASSUME Init, NEW op \in Ops
             PROVE  Numbered(op) = {} /\ Top(op) = 0
  BY DEF NumInv
<1>. QED  BY DEF Init, Numbered, Top, Pending, ZeroCount

\* A step that changes no numbered request and no highest number keeps NumInv.
LEMMA NumFrame ==
  ASSUME NumInv,
         \A op \in Ops : Numbered(op)' = Numbered(op) /\ Top(op)' = Top(op),
         \A op \in Ops : \A r \in Numbered(op) : number'[r] = number[r]
  PROVE  NumInv'
BY DEF NumInv

\* Control steps of r that stay outside, or stay inside, the numbered part.
LEMMA NumControl ==
  ASSUME SafeInv, NumInv, NEW r \in Requests, NEW from \in Pcs, NEW to \in Pcs,
         Goto(r, from, to), from # "number", to # "number",
         UNCHANGED <<msg, count, number>>,
         V(r).kind = "run" => (from \in {"last", "Unlock", "write", "done"}
                               <=> to \in {"last", "Unlock", "write", "done"})
  PROVE  NumInv'
<1>1. /\ pc[r] = from /\ pc'[r] = to
      /\ \A s \in Requests : s # r => pc'[s] = pc[s]
  BY GotoMoves DEF SafeInv
<1>2. \A s \in Requests : V(s)' = V(s)
  BY VStable
<1>3. \A op \in Ops : Numbered(op)' = Numbered(op)
  BY <1>1, <1>2 DEF Numbered
<1>4. \A op \in Ops : Pending(op)' <=> Pending(op)
  BY <1>1, <1>2 DEF Pending
<1>5. \A op \in Ops : Top(op)' = Top(op)
  BY <1>4 DEF Top
<1>. QED  BY <1>3, <1>5, NumFrame

\* Every access preserves the numbering, given that a writer is alone.
LEMMA NextNum == SafeInv /\ NumInv /\ [Next]_vars => NumInv'
<1> SUFFICES ASSUME SafeInv, NumInv, [Next]_vars PROVE NumInv'
  OBVIOUS
<1>1. ASSUME NEW r \in Requests, NEW m \in Messages, Accept(r, m) PROVE NumInv'
  <2>1. /\ pc[r] = "idle" /\ pc'[r] = "decode"
        /\ \A s \in Requests : s # r => pc'[s] = pc[s]
    BY <1>1, GotoMoves DEF Accept, Pcs, SafeInv
  <2>2. \A s \in Requests : s # r => V(s)' = V(s)
    BY <1>1 DEF Accept, SafeInv, TypeOK, V
  <2>3. \A op \in Ops : Numbered(op)' = Numbered(op)
    BY <2>1, <2>2 DEF Numbered
  <2>4. \A op \in Ops : Pending(op)' <=> Pending(op)
    BY <2>1, <2>2 DEF Pending
  <2>5. \A op \in Ops : Top(op)' = Top(op)
    BY <1>1, <2>4 DEF Top, Accept, fields
  <2>. QED  BY <1>1, <2>3, <2>5, NumFrame DEF Accept, locals
<1>2. ASSUME NEW r \in Requests, Decode(r) PROVE NumInv'
  <2>1. CASE V(r).kind = "run"
    <3>1. Goto(r, "decode", "Lock")
      BY <1>2, <2>1 DEF Decode
    <3>. QED  BY <1>2, <3>1, NumControl DEF Decode, Pcs, fields, locals
  <2>2. CASE V(r).kind = "state"
    <3>1. Goto(r, "decode", "RLock")
      BY <1>2, <2>2 DEF Decode
    <3>. QED  BY <1>2, <3>1, NumControl DEF Decode, Pcs, fields, locals
  <2>3. CASE V(r).kind \notin {"run", "state"}
    <3>1. Goto(r, "decode", "write")
      BY <1>2, <2>3 DEF Decode
    <3>. QED  BY <1>2, <2>3, <3>1, NumControl DEF Decode, Pcs, fields, locals
  <2>. QED  BY <2>1, <2>2, <2>3
<1>3. ASSUME NEW r \in Requests, Lock(r) PROVE NumInv'
  BY <1>3, NumControl DEF Lock, Pcs, fields, locals
<1>4. ASSUME NEW r \in Requests, Increment(r) PROVE NumInv'
  <2>1. /\ pc[r] = "count" /\ pc'[r] = "number"
        /\ \A s \in Requests : s # r => pc'[s] = pc[s]
    BY <1>4, GotoMoves DEF Increment, Pcs, SafeInv
  <2>2. \A s \in Requests : V(s)' = V(s)
    BY <1>4, VStable DEF Increment
  <2>3. V(r).kind = "run" /\ V(r).op \in Ops
    BY <2>1, VType DEF SafeInv, ControlInv, Writing
  <2>4. \A s \in Requests : pc[s] # "number"
    BY <2>1 DEF SafeInv, LockInv, Writing
  <2>5. \A op \in Ops : Numbered(op)' = Numbered(op)
    BY <2>1, <2>2 DEF Numbered
  <2>6. \A op \in Ops : ~Pending(op) /\ (Pending(op)' <=> op = V(r).op)
    BY <2>1, <2>2, <2>4 DEF Pending
  <2>7. /\ count \in [Ops -> Nat]
        /\ count' = [count EXCEPT ![V(r).op] = @ + 1]
    BY <1>4 DEF Increment, SafeInv, TypeOK
  <2>8. \A op \in Ops : Top(op)' = Top(op)
    BY <2>3, <2>6, <2>7 DEF Top
  <2>. QED  BY <1>4, <2>5, <2>8, NumFrame DEF Increment, locals
<1>5. ASSUME NEW r \in Requests, TakeNumber(r) PROVE NumInv'
  <2>1. /\ pc[r] = "number" /\ pc'[r] = "last"
        /\ \A s \in Requests : s # r => pc'[s] = pc[s]
    BY <1>5, GotoMoves DEF TakeNumber, Pcs, SafeInv
  <2>2. \A s \in Requests : V(s)' = V(s)
    BY <1>5, VStable DEF TakeNumber
  <2>3. V(r).kind = "run" /\ V(r).op \in Ops
    BY <2>1, VType DEF SafeInv, ControlInv, Writing
  <2>4. \A s \in Requests : pc[s] = "number" => s = r
    BY <2>1 DEF SafeInv, LockInv, Writing
  <2>5. \A op \in Ops : ~Pending(op)' /\ (Pending(op) <=> op = V(r).op)
    BY <2>1, <2>2, <2>4 DEF Pending
  <2>6. /\ count \in [Ops -> Nat] /\ count' = count
        /\ number \in [Requests -> Nat]
        /\ number' = [number EXCEPT ![r] = count[V(r).op]]
    BY <1>5 DEF TakeNumber, fields, SafeInv, TypeOK
  <2>7. \A op \in Ops :
          /\ op = V(r).op => /\ Top(op)' = count[op] /\ Top(op) = count[op] - 1
                             /\ Numbered(op)' = Numbered(op) \cup {r}
          /\ op # V(r).op => Top(op)' = Top(op) /\ Numbered(op)' = Numbered(op)
    <3>1. \A op \in Ops : op # V(r).op => Numbered(op)' = Numbered(op)
      BY <2>1, <2>2 DEF Numbered
    <3>2. \A op \in Ops : op = V(r).op => Numbered(op)' = Numbered(op) \cup {r}
      BY <2>1, <2>2, <2>3 DEF Numbered
    <3>3. \A op \in Ops : op = V(r).op => Top(op)' = count[op] /\ Top(op) = count[op] - 1
      BY <2>5, <2>6 DEF Top
    <3>4. \A op \in Ops : op # V(r).op => Top(op)' = Top(op)
      BY <2>5, <2>6 DEF Top
    <3>. QED  BY <3>1, <3>2, <3>3, <3>4
  <2>8. \A op \in Ops : r \notin Numbered(op)
    BY <2>1 DEF Numbered
  <2> SUFFICES ASSUME NEW op \in Ops
               PROVE  /\ Top(op)' \in Nat
                      /\ \A q, s \in Numbered(op)' : number'[q] = number'[s] => q = s
                      /\ \A q \in Numbered(op)' : number'[q] \in 1 .. Top(op)'
                      /\ \A k \in 1 .. Top(op)' : \E q \in Numbered(op)' : number'[q] = k
    BY DEF NumInv
  <2>9. \A q \in Numbered(op) : q \in Requests /\ q # r /\ number'[q] = number[q]
    BY <2>6, <2>8 DEF Numbered
  <2>10. CASE op # V(r).op
    BY <2>7, <2>9, <2>10 DEF NumInv
  <2>11. CASE op = V(r).op
    <3>1. number'[r] = count[op] /\ count[op] \in Nat
      BY <2>6, <2>11
    <3>2. /\ Top(op)' = count[op] /\ Top(op) = count[op] - 1 /\ Top(op) \in Nat
          /\ Numbered(op)' = Numbered(op) \cup {r}
      BY <2>7, <2>11 DEF NumInv
    <3>3. /\ \A q, s \in Numbered(op) : number[q] = number[s] => q = s
          /\ \A q \in Numbered(op) : number[q] \in 1 .. Top(op)
          /\ \A k \in 1 .. Top(op) : \E q \in Numbered(op) : number[q] = k
      BY DEF NumInv
    <3>4. \A q \in Numbered(op) : number'[q] \in 1 .. (count[op] - 1)
      BY <2>9, <3>2, <3>3
    <3>5. \A q, s \in Numbered(op)' : number'[q] = number'[s] => q = s
      BY <2>9, <3>1, <3>2, <3>3, <3>4
    <3>6. \A q \in Numbered(op)' : number'[q] \in 1 .. Top(op)'
      BY <3>1, <3>2, <3>4
    <3>7. \A k \in 1 .. Top(op)' : \E q \in Numbered(op)' : number'[q] = k
      BY <2>9, <3>1, <3>2, <3>3
    <3>. QED  BY <3>1, <3>2, <3>5, <3>6, <3>7
  <2>. QED  BY <2>10, <2>11
<1>6. ASSUME NEW r \in Requests, SetLast(r) PROVE NumInv'
  BY <1>6, NumControl DEF SetLast, Pcs, locals
<1>7. ASSUME NEW r \in Requests, Unlock(r) PROVE NumInv'
  BY <1>7, NumControl DEF Unlock, Pcs, fields, locals
<1>8. ASSUME NEW r \in Requests, RLock(r) PROVE NumInv'
  BY <1>8, NumControl DEF RLock, Pcs, fields, locals
<1>9. ASSUME NEW r \in Requests, NEW f \in Fields, ReadField(r, f) PROVE NumInv'
  <2>1. UNCHANGED <<pc, msg, count, number>>
    BY <1>9 DEF ReadField, fields
  <2>. QED  BY <2>1, VStable DEF NumInv, Numbered, Top, Pending
<1>10. ASSUME NEW r \in Requests, RUnlock(r) PROVE NumInv'
  <2>1. V(r).kind = "state"
    BY <1>10 DEF RUnlock, Goto, SafeInv, ControlInv
  <2>. QED  BY <1>10, <2>1, NumControl DEF RUnlock, Pcs, fields, locals
<1>11. ASSUME NEW r \in Requests, WriteResponse(r) PROVE NumInv'
  BY <1>11, NumControl DEF WriteResponse, Pcs, fields, locals
<1>12. CASE UNCHANGED vars
  BY <1>12, VStable DEF vars, NumInv, Numbered, Top, Pending
<1>. QED
  BY <1>1, <1>2, <1>3, <1>4, <1>5, <1>6, <1>7, <1>8, <1>9, <1>10, <1>11, <1>12
  DEF Next, Step, AllServed

\* However the goroutines interleave, the numbers given to the successful
\* requests of an op are exactly 1 up to the counter, each given once.
THEOREM NumberingCorrect == Spec => []NumbersGapFree
<1>1. Init => SafeInv /\ NumInv
  BY InitSafe, InitNum
<1>2. SafeInv /\ NumInv /\ [Next]_vars => (SafeInv /\ NumInv)'
  BY NextSafe, NextNum
<1>3. SafeInv /\ NumInv => NumbersGapFree
  BY NumInvImplies DEF SafeInv
<1>. QED  BY <1>1, <1>2, <1>3, PTL DEF Spec

-----------------------------------------------------------------------------
(* Part 3: snapshots.  What the fields and the copies of them hold.        *)

\* A handler of op has incremented the counter but not stored the text.
Mid(op) == \E r \in Requests : pc[r] \in {"number", "last"} /\ V(r).op = op

\* A counter and a text that go together: nothing served yet, or those of one
\* request.
Matches(op, c, t) ==
    \/ c = 0 /\ t = NoName
    \/ \E s \in Numbered(op) : number[s] = c /\ V(s).name = t

\* Between two handlers of an op its fields are those of its last request; the
\* handler that is storing its text holds the counter as its number.
FieldsInv ==
    /\ \A op \in Ops : ~Mid(op) => Matches(op, count[op], last[op])
    /\ \A r \in Requests : pc[r] = "last" => number[r] = count[V(r).op]

\* Field f in a copy of the state.
Copied(r, f) ==
    IF f[1] = "count" THEN snap[r].count[f[2]] = count[f[2]]
                      ELSE snap[r].last[f[2]] = last[f[2]]

\* What a reader has copied so far is what the fields still hold, and a reader
\* that left its section had copied everything.
CopyInv ==
    \A r \in Requests :
        /\ pc[r] \notin {"read", "write", "done"} => unread[r] = Fields
        /\ pc[r] = "read" => \A f \in Fields \ unread[r] : Copied(r, f)
        /\ V(r).kind = "state" /\ pc[r] \in {"write", "done"} => unread[r] = {}

\* SnapshotConsistent with Matches for its inner disjunction.
SnapInv ==
    \A r \in Requests : pc[r] \in {"write", "done"} /\ V(r).kind = "state" =>
        \A op \in Ops : Matches(op, snap[r].count[op], snap[r].last[op])

StateInv == FieldsInv /\ CopyInv /\ SnapInv

\* A number once drawn is never given back: it stays with its request, for the
\* same op and name, whatever any goroutine does next.
LEMMA NumberedKept ==
  ASSUME SafeInv, [Next]_vars, NEW op \in Ops, NEW s \in Numbered(op)
  PROVE  s \in Numbered(op)' /\ number'[s] = number[s] /\ V(s)' = V(s)
<1> USE DEF SafeInv, Numbered
<1>0. s \in Requests /\ pc[s] \in {"last", "Unlock", "write", "done"}
  OBVIOUS
<1>1. ASSUME NEW r \in Requests, NEW m \in Messages, Accept(r, m)
      PROVE  s \in Numbered(op)' /\ number'[s] = number[s] /\ V(s)' = V(s)
  <2>1. s # r /\ pc'[s] = pc[s] /\ msg'[s] = msg[s] /\ number' = number
    BY <1>0, <1>1 DEF Accept, Goto, TypeOK, locals
  <2>. QED  BY <2>1 DEF V
<1>2. ASSUME NEW r \in Requests, NEW from, NEW to, Goto(r, from, to),
             UNCHANGED <<msg, number>>,
             from \in {"last", "Unlock", "write", "done"} =>
                 to \in {"last", "Unlock", "write", "done"}
      PROVE  s \in Numbered(op)' /\ number'[s] = number[s] /\ V(s)' = V(s)
  <2>1. V(s)' = V(s)
    BY <1>2 DEF V
  <2>2. pc'[s] \in {"last", "Unlock", "write", "done"}
    BY <1>0, <1>2 DEF Goto, TypeOK
  <2>. QED  BY <1>2, <2>1, <2>2
<1>3. ASSUME NEW r \in Requests, TakeNumber(r)
      PROVE  s \in Numbered(op)' /\ number'[s] = number[s] /\ V(s)' = V(s)
  <2>1. s # r /\ pc'[s] = pc[s] /\ msg' = msg /\ number'[s] = number[s]
    BY <1>0, <1>3 DEF TakeNumber, Goto, TypeOK
  <2>. QED  BY <2>1 DEF V
<1>4. ASSUME UNCHANGED <<pc, msg, number>>
      PROVE  s \in Numbered(op)' /\ number'[s] = number[s] /\ V(s)' = V(s)
  BY <1>4 DEF V
<1>5. ASSUME NEW r \in Requests, Decode(r)
      PROVE  s \in Numbered(op)' /\ number'[s] = number[s] /\ V(s)' = V(s)
  BY <1>2, <1>5 DEF Decode, locals
<1>. QED
  BY <1>1, <1>2, <1>3, <1>4, <1>5
  DEF Next, Step, AllServed, vars, Lock, Increment, SetLast, Unlock, RLock,
      ReadField, RUnlock, WriteResponse, locals

\* A counter and text that went together go together for ever.
LEMMA MatchesKept ==
  ASSUME SafeInv, [Next]_vars, NEW op \in Ops, NEW c, NEW t, Matches(op, c, t)
  PROVE  Matches(op, c, t)'
BY NumberedKept DEF Matches

\* Before the first request the fields match, with nothing served.
LEMMA InitState == Init => StateInv
<1> SUFFICES ASSUME Init PROVE StateInv
  OBVIOUS
<1>1. FieldsInv
  BY DEF Init, FieldsInv, Matches, ZeroCount, NoLast
<1>2. CopyInv /\ SnapInv
  BY DEF Init, CopyInv, SnapInv
<1>. QED  BY <1>1, <1>2 DEF StateInv

\* The three parts of StateInv survive what does not concern them: a step that
\* keeps the fields and enters or leaves no handler ...
LEMMA FieldsFrame ==
  ASSUME SafeInv, FieldsInv, [Next]_vars, UNCHANGED <<fields, number>>,
         \A s \in Requests : /\ pc'[s] = pc[s] \/ {pc[s], pc'[s]} \cap {"number", "last"} = {}
                             /\ pc[s] \in {"number", "last"} => V(s)' = V(s)
  PROVE  FieldsInv'
<1>1. \A op \in Ops : Mid(op) => Mid(op)'
  BY DEF Mid
<1>2. \A op \in Ops : Matches(op, count[op], last[op]) => Matches(op, count[op], last[op])'
  <2> SUFFICES ASSUME NEW op \in Ops, Matches(op, count[op], last[op])
               PROVE  Matches(op, count[op], last[op])'
    OBVIOUS
  <2>. QED  BY NumberedKept DEF Matches, fields
<1>. QED  BY <1>1, <1>2 DEF FieldsInv, fields

\* ... one that keeps the fields, the copies and who is copying ...
LEMMA CopyFrame ==
  ASSUME SafeInv, CopyInv, UNCHANGED <<fields, snap, unread>>,
         \A s \in Requests :
            /\ pc[s] \in {"read", "write", "done"} => pc'[s] \in {"read", "write", "done"}
            /\ pc'[s] = "read" => pc[s] = "read"
            /\ V(s)'.kind = "state" /\ pc'[s] \in {"write", "done"} =>
                   V(s).kind = "state" /\ pc[s] \in {"write", "done"}
  PROVE  CopyInv'
BY DEF CopyInv, Copied, fields

\* ... and one after which no other state read has its copy.
LEMMA SnapFrame ==
  ASSUME SafeInv, SnapInv, [Next]_vars,
         \A s \in Requests :
            V(s)'.kind = "state" /\ pc'[s] \in {"write", "done"} =>
                V(s).kind = "state" /\ pc[s] \in {"write", "done"} /\ snap'[s] = snap[s]
  PROVE  SnapInv'
<1> SUFFICES ASSUME NEW s \in Requests, V(s)'.kind = "state", pc'[s] \in {"write", "done"},
                    NEW op \in Ops
             PROVE  Matches(op, snap[s].count[op], snap[s].last[op])'
  BY DEF SnapInv
<1>1. Matches(op, snap[s].count[op], snap[s].last[op]) /\ snap'[s] = snap[s]
  BY DEF SnapInv
<1>. QED  BY <1>1, NumberedKept DEF Matches

\* Every access preserves what the fields and the copies hold: nobody writes
\* a field while somebody copies it.
LEMMA NextState == SafeInv /\ StateInv /\ [Next]_vars => StateInv'
<1> SUFFICES ASSUME SafeInv, StateInv, [Next]_vars PROVE StateInv'
  OBVIOUS
<1> USE DEF StateInv
<1>1. ASSUME NEW r \in Requests, NEW m \in Messages, Accept(r, m) PROVE StateInv'
  <2>1. /\ pc[r] = "idle" /\ pc'[r] = "decode"
        /\ \A s \in Requests : s # r => pc'[s] = pc[s]
        /\ \A s \in Requests : s # r => V(s)' = V(s)
    BY <1>1 DEF Accept, Goto, SafeInv, TypeOK, V
  <2>2. UNCHANGED <<fields, number, snap, unread>>
    BY <1>1 DEF Accept, locals
  <2>. QED  BY <2>1, <2>2, FieldsFrame, CopyFrame, SnapFrame
<1>2. ASSUME NEW r \in Requests, Decode(r) PROVE StateInv'
  <2>1. /\ pc[r] = "decode" /\ pc'[r] \in {"Lock", "RLock", "write"}
        /\ pc'[r] = "write" => V(r).kind # "state"
        /\ \A s \in Requests : s # r => pc'[s] = pc[s]
    <3>1. CASE V(r).kind = "run"
      BY <1>2, <3>1 DEF Decode, Goto, SafeInv, TypeOK
    <3>2. CASE V(r).kind = "state"
      BY <1>2, <3>2 DEF Decode, Goto, SafeInv, TypeOK
    <3>3. CASE V(r).kind \notin {"run", "state"}
      BY <1>2, <3>3 DEF Decode, Goto, SafeInv, TypeOK
    <3>. QED  BY <3>1, <3>2, <3>3
  <2>2. UNCHANGED <<fields, number, snap, unread>> /\ \A s \in Requests : V(s)' = V(s)
    BY <1>2, VStable DEF Decode, locals
  <2>. QED  BY <2>1, <2>2, FieldsFrame, CopyFrame, SnapFrame
<1>3. ASSUME NEW r \in Requests, Lock(r) PROVE StateInv'
  <2>1. /\ pc[r] = "Lock" /\ pc'[r] = "count"
        /\ \A s \in Requests : s # r => pc'[s] = pc[s]
    BY <1>3 DEF Lock, Goto, SafeInv, TypeOK
  <2>2. UNCHANGED <<fields, number, snap, unread>> /\ \A s \in Requests : V(s)' = V(s)
    BY <1>3, VStable DEF Lock, locals
  <2>. QED  BY <2>1, <2>2, FieldsFrame, CopyFrame, SnapFrame
<1>4. ASSUME NEW r \in Requests, Increment(r) PROVE StateInv'
  <2>1. /\ pc[r] = "count" /\ pc'[r] = "number"
        /\ \A s \in Requests : s # r => pc'[s] = pc[s]
    BY <1>4 DEF Increment, Goto, SafeInv, TypeOK
  <2>2. UNCHANGED <<last, number, snap, unread>> /\ \A s \in Requests : V(s)' = V(s)
    BY <1>4, VStable DEF Increment, locals
  <2>3. \A s \in Requests : s # r => pc[s] \notin Writing \cup {"read"}
    BY <2>1, NoOneAssumption DEF SafeInv, LockInv, Writing
  <2>4. \A op \in Ops : op # V(r).op => count'[op] = count[op]
    BY <1>4 DEF Increment, SafeInv, TypeOK
  <2>5. \A op \in Ops : Mid(op)' <=> op = V(r).op
    BY <2>1, <2>2, <2>3 DEF Mid, Writing
  <2>6. \A op \in Ops : ~Mid(op)
    BY <2>1, <2>3 DEF Mid, Writing
  <2>7. FieldsInv'
    <3>1. ASSUME NEW op \in Ops, op # V(r).op
          PROVE  Matches(op, count[op], last[op])'
      <4>1. Matches(op, count[op], last[op])
        BY <2>6 DEF FieldsInv
      <4>. QED  BY <2>2, <2>4, <3>1, <4>1, NumberedKept DEF Matches
    <3>2. \A s \in Requests : pc'[s] # "last"
      BY <2>1, <2>3 DEF Writing
    <3>. QED  BY <2>5, <3>1, <3>2 DEF FieldsInv
  <2>8. CopyInv'
    BY <2>1, <2>2, <2>3 DEF CopyInv
  <2>. QED  BY <2>1, <2>2, <2>7, <2>8, SnapFrame
<1>5. ASSUME NEW r \in Requests, TakeNumber(r) PROVE StateInv'
  <2>1. /\ pc[r] = "number" /\ pc'[r] = "last"
        /\ \A s \in Requests : s # r => pc'[s] = pc[s]
    BY <1>5 DEF TakeNumber, Goto, SafeInv, TypeOK
  <2>2. UNCHANGED <<fields, snap, unread>> /\ \A s \in Requests : V(s)' = V(s)
    BY <1>5, VStable DEF TakeNumber
  <2>3. \A s \in Requests : s # r => pc[s] \notin Writing
    BY <2>1 DEF SafeInv, LockInv, Writing
  <2>4. number'[r] = count[V(r).op]
    BY <1>5 DEF TakeNumber, SafeInv, TypeOK
  <2>5. \A op \in Ops : Mid(op)' <=> Mid(op)
    BY <2>1, <2>2 DEF Mid
  <2>6. FieldsInv'
    <3>1. ASSUME NEW op \in Ops, ~Mid(op)'
          PROVE  Matches(op, count[op], last[op])'
      <4>1. Matches(op, count[op], last[op])
        BY <2>5, <3>1 DEF FieldsInv
      <4>. QED  BY <2>2, <4>1, NumberedKept DEF Matches, fields
    <3>2. \A s \in Requests : pc'[s] = "last" => number'[s] = count'[V(s)'.op]
      BY <2>1, <2>2, <2>3, <2>4 DEF Writing, fields
    <3>. QED  BY <3>1, <3>2 DEF FieldsInv
  <2>7. CopyInv'
    BY <2>1, <2>2, CopyFrame
  <2>. QED  BY <2>1, <2>2, <2>6, <2>7, SnapFrame
<1>6. ASSUME NEW r \in Requests, SetLast(r) PROVE StateInv'
  <2>1. /\ pc[r] = "last" /\ pc'[r] = "Unlock"
        /\ \A s \in Requests : s # r => pc'[s] = pc[s]
    BY <1>6 DEF SetLast, Goto, SafeInv, TypeOK
  <2>2. UNCHANGED <<count, number, snap, unread>> /\ \A s \in Requests : V(s)' = V(s)
    BY <1>6, VStable DEF SetLast, locals
  <2>3. \A s \in Requests : s # r => pc[s] \notin Writing \cup {"read"}
    BY <2>1, NoOneAssumption DEF SafeInv, LockInv, Writing
  <2>4. V(r).kind = "run" /\ V(r).op \in Ops
    BY <2>1, VType DEF SafeInv, ControlInv, Writing
  <2>5. \A op \in Ops : last'[op] = IF op = V(r).op THEN V(r).name ELSE last[op]
    BY <1>6 DEF SetLast, SafeInv, TypeOK
  <2>6. FieldsInv'
    <3>1. ASSUME NEW op \in Ops, op # V(r).op
          PROVE  Matches(op, count[op], last[op])'
      <4>1. ~Mid(op)
        BY <2>1, <2>3, <3>1 DEF Mid, Writing
      <4>2. Matches(op, count[op], last[op])
        BY <4>1 DEF FieldsInv
      <4>. QED  BY <2>2, <2>5, <3>1, <4>2, NumberedKept DEF Matches
    <3>2. Matches(V(r).op, count[V(r).op], last[V(r).op])'
      <4>1. r \in Numbered(V(r).op)'
        BY <2>1, <2>2, <2>4 DEF Numbered
      <4>2. number'[r] = count'[V(r).op] /\ V(r)'.name = last'[V(r).op]
        BY <2>1, <2>2, <2>4, <2>5 DEF FieldsInv
      <4>. QED  BY <2>2, <4>1, <4>2 DEF Matches
    <3>3. \A s \in Requests : pc'[s] # "last"
      BY <2>1, <2>3 DEF Writing
    <3>. QED  BY <2>2, <3>1, <3>2, <3>3 DEF FieldsInv
  <2>7. CopyInv'
    BY <2>1, <2>2, <2>3 DEF CopyInv
  <2>. QED  BY <2>1, <2>2, <2>6, <2>7, SnapFrame
<1>7. ASSUME NEW r \in Requests, Unlock(r) PROVE StateInv'
  <2>1. /\ pc[r] = "Unlock" /\ pc'[r] = "write" /\ V(r).kind = "run"
        /\ \A s \in Requests : s # r => pc'[s] = pc[s]
    BY <1>7 DEF Unlock, Goto, SafeInv, TypeOK, ControlInv, Writing
  <2>2. UNCHANGED <<fields, number, snap, unread>> /\ \A s \in Requests : V(s)' = V(s)
    BY <1>7, VStable DEF Unlock, locals
  <2>. QED  BY <2>1, <2>2, FieldsFrame, CopyFrame, SnapFrame
<1>8. ASSUME NEW r \in Requests, RLock(r) PROVE StateInv'
  <2>1. /\ pc[r] = "RLock" /\ pc'[r] = "read"
        /\ \A s \in Requests : s # r => pc'[s] = pc[s]
    BY <1>8 DEF RLock, Goto, SafeInv, TypeOK
  <2>2. UNCHANGED <<fields, number, snap, unread>> /\ \A s \in Requests : V(s)' = V(s)
    BY <1>8, VStable DEF RLock, locals
  <2>3. CopyInv'
    BY <2>1, <2>2 DEF CopyInv, Copied, fields
  <2>. QED  BY <2>1, <2>2, <2>3, FieldsFrame, SnapFrame
<1>9. ASSUME NEW r \in Requests, NEW f \in Fields, ReadField(r, f) PROVE StateInv'
  <2>1. pc[r] = "read" /\ UNCHANGED <<pc, fields, number>>
        /\ \A s \in Requests : V(s)' = V(s)
    BY <1>9, VStable DEF ReadField
  <2>2. /\ \A s \in Requests : s # r => snap'[s] = snap[s] /\ unread'[s] = unread[s]
        /\ unread'[r] = unread[r] \ {f}
    BY <1>9 DEF ReadField, SafeInv, TypeOK
  <2>3. \A g \in Fields \ unread'[r] : Copied(r, g)'
    <3>1. CASE f[1] = "count"
      <4>1. snap'[r] = [snap[r] EXCEPT !.count[f[2]] = count[f[2]]]
        BY <1>9, <3>1 DEF ReadField, SafeInv, TypeOK
      <4>2. /\ snap[r] \in Snapshot
            /\ \A g \in Fields \ unread[r] : Copied(r, g)
        BY <2>1 DEF CopyInv, SafeInv, TypeOK
      <4>3. /\ snap'[r].last = snap[r].last
            /\ \A op \in Ops : snap'[r].count[op] =
                 IF op = f[2] THEN count[f[2]] ELSE snap[r].count[op]
        BY <4>1, <4>2 DEF Snapshot
      <4>4. \A g \in Fields : g[2] \in Ops /\ (g # f /\ g[1] = f[1] => g[2] # f[2])
        BY DEF Fields
      <4>. QED  BY <2>1, <2>2, <3>1, <4>2, <4>3, <4>4 DEF Copied, fields
    <3>2. CASE f[1] # "count"
      <4>1. snap'[r] = [snap[r] EXCEPT !.last[f[2]] = last[f[2]]]
        BY <1>9, <3>2 DEF ReadField, SafeInv, TypeOK
      <4>2. /\ snap[r] \in Snapshot
            /\ \A g \in Fields \ unread[r] : Copied(r, g)
        BY <2>1 DEF CopyInv, SafeInv, TypeOK
      <4>3. /\ snap'[r].count = snap[r].count
            /\ \A op \in Ops : snap'[r].last[op] =
                 IF op = f[2] THEN last[f[2]] ELSE snap[r].last[op]
        BY <4>1, <4>2 DEF Snapshot
      <4>4. \A g \in Fields : g[2] \in Ops /\ (g # f /\ g[1] # "count" => g[2] # f[2])
        BY <3>2 DEF Fields
      <4>. QED  BY <2>1, <2>2, <3>2, <4>2, <4>3, <4>4 DEF Copied, fields
    <3>. QED  BY <3>1, <3>2
  <2>4. CopyInv'
    BY <2>1, <2>2, <2>3 DEF CopyInv, Copied, fields
  <2>. QED  BY <2>1, <2>2, <2>4, FieldsFrame, SnapFrame
<1>10. ASSUME NEW r \in Requests, RUnlock(r) PROVE StateInv'
  <2>1. /\ pc[r] = "read" /\ pc'[r] = "write" /\ unread[r] = {}
        /\ \A s \in Requests : s # r => pc'[s] = pc[s]
    BY <1>10 DEF RUnlock, Goto, SafeInv, TypeOK
  <2>2. UNCHANGED <<fields, number, snap, unread>> /\ \A s \in Requests : V(s)' = V(s)
    BY <1>10, VStable DEF RUnlock, locals
  <2>3. \A op \in Ops : ~Mid(op)
    <3>1. \A s \in Requests : pc[s] \notin Writing
      BY <2>1, NoOneAssumption DEF SafeInv, LockInv
    <3>. QED  BY <3>1 DEF Mid, Writing
  <2>4. \A op \in Ops : snap[r].count[op] = count[op] /\ snap[r].last[op] = last[op]
    <3>1. \A f \in Fields : Copied(r, f)
      BY <2>1 DEF CopyInv
    <3>2. \A op \in Ops : <<"count", op>> \in Fields /\ <<"last", op>> \in Fields
      BY DEF Fields
    <3>. QED  BY <3>1, <3>2 DEF Copied
  <2>5. \A op \in Ops : Matches(op, snap[r].count[op], snap[r].last[op])
    BY <2>3, <2>4 DEF FieldsInv
  <2>6. SnapInv'
    <3> SUFFICES ASSUME NEW s \in Requests, V(s)'.kind = "state",
                        pc'[s] \in {"write", "done"}, NEW op \in Ops
                 PROVE  Matches(op, snap[s].count[op], snap[s].last[op])'
      BY DEF SnapInv
    <3>1. Matches(op, snap[s].count[op], snap[s].last[op])
      BY <2>1, <2>2, <2>5 DEF SnapInv
    <3>. QED  BY <2>2, <3>1, NumberedKept DEF Matches
  <2>7. CopyInv'
    BY <2>1, <2>2 DEF CopyInv, Copied, fields
  <2>. QED  BY <2>1, <2>2, <2>6, <2>7, FieldsFrame
<1>11. ASSUME NEW r \in Requests, WriteResponse(r) PROVE StateInv'
  <2>1. /\ pc[r] = "write" /\ pc'[r] = "done"
        /\ \A s \in Requests : s # r => pc'[s] = pc[s]
    BY <1>11 DEF WriteResponse, Goto, SafeInv, TypeOK
  <2>2. UNCHANGED <<fields, number, snap, unread>> /\ \A s \in Requests : V(s)' = V(s)
    BY <1>11, VStable DEF WriteResponse, locals
  <2>. QED  BY <2>1, <2>2, FieldsFrame, CopyFrame, SnapFrame
<1>12. CASE UNCHANGED vars
  <2>1. UNCHANGED <<pc, fields, number, snap, unread>> /\ \A s \in Requests : V(s)' = V(s)
    BY <1>12, VStable DEF vars, fields
  <2>. QED  BY <2>1, FieldsFrame, CopyFrame, SnapFrame
<1>. QED
  BY <1>1, <1>2, <1>3, <1>4, <1>5, <1>6, <1>7, <1>8, <1>9, <1>10, <1>11, <1>12
  DEF Next, Step, AllServed

\* The fields and copies are consistent in every reachable state.
THEOREM StateInvariant == Spec => [](SafeInv /\ StateInv)
<1>1. Init => SafeInv /\ StateInv
  BY InitSafe, InitState
<1>2. SafeInv /\ StateInv /\ [Next]_vars => (SafeInv /\ StateInv)'
  BY NextSafe, NextState
<1>. QED  BY <1>1, <1>2, PTL DEF Spec

\* However handlers and state reads interleave, a GET /state answer pairs each
\* counter with the text of the request that drew that number.
THEOREM SnapshotCorrect == Spec => []SnapshotConsistent
<1>1. SafeInv /\ StateInv => SnapshotConsistent
  BY DEF StateInv, SnapInv, SnapshotConsistent, Matches
<1>. QED  BY <1>1, StateInvariant, PTL

-----------------------------------------------------------------------------
(* Part 4: the refinement.  Every step of a goroutine is a step of the     *)
(* contract for its request, or changes nothing the contract can see.      *)

\* What the contract's ans is for r.
Answered(r) == IF Executed(r) THEN Response(r) ELSE NoAnswer

\* The contract speaks of requests, states and answers in the same terms.
LEMMA Vocabulary ==
  /\ Contract!NoMessage = NoMessage /\ Contract!NoAnswer = NoAnswer
  /\ Contract!ZeroCount = ZeroCount /\ Contract!NoLast = NoLast
  /\ Contract!ZeroSnap = ZeroSnap
  /\ \A v, n, s : Contract!AnswerOf(v, n, s) = AnswerOf(v, n, s)
<1>1. /\ Contract!NoMessage = NoMessage /\ Contract!ZeroCount = ZeroCount
      /\ Contract!NoLast = NoLast
  BY DEF Contract!NoMessage, NoMessage, Contract!ZeroCount, ZeroCount, Contract!Ops,
         Ops, Contract!NoLast, NoLast
<1>2. Contract!ZeroSnap = ZeroSnap
  BY <1>1 DEF Contract!ZeroSnap, ZeroSnap
<1>3. Contract!NoAnswer = NoAnswer
  BY <1>2 DEF Contract!NoAnswer, NoAnswer, Contract!NoOp, NoOp
<1>4. \A v, n, s : Contract!AnswerOf(v, n, s) = AnswerOf(v, n, s)
  BY <1>3 DEF Contract!AnswerOf, AnswerOf
<1>. QED  BY <1>1, <1>2, <1>3, <1>4

\* A step that leaves the abstract view of every request and of the counters
\* alone is a stutter of the contract.
LEMMA Stutter ==
  ASSUME UNCHANGED <<msg, last>>, AbstractCount' = AbstractCount,
         \A s \in Requests : AbstractPhase(s)' = AbstractPhase(s),
         \A s \in Requests : Answered(s)' = Answered(s)
  PROVE  UNCHANGED Contract!vars
BY DEF Contract!vars, Answered

\* An idle server is an idle contract.
LEMMA InitRefines == Init => Contract!Init
<1> SUFFICES ASSUME Init PROVE Contract!Init
  OBVIOUS
<1>1. \A r \in Requests : AbstractPhase(r) = "idle" /\ ~Executed(r)
  BY DEF Init, AbstractPhase, Executed
<1>2. AbstractCount = ZeroCount
  BY DEF Init, AbstractCount, ZeroCount
<1>. QED  BY <1>1, <1>2, Vocabulary DEF Init, Contract!Init

\* A goroutine that does not move is seen where it was.
LEMMA OthersUnseen ==
  ASSUME NEW s \in Requests, pc'[s] = pc[s], unread'[s] = unread[s], V(s)' = V(s),
         number'[s] = number[s], snap'[s] = snap[s]
  PROVE  AbstractPhase(s)' = AbstractPhase(s) /\ Answered(s)' = Answered(s)
BY DEF AbstractPhase, Answered, Executed, Response

\* The counters the contract sees, in terms of the handler half-way through.
LEMMA CountSeen ==
  /\ DOMAIN AbstractCount = Ops
  /\ \A op \in Ops : AbstractCount[op] = IF Mid(op) THEN count[op] - 1 ELSE count[op]
BY DEF AbstractCount, Mid

\* They stay while no field changes and no handler starts or ends.
LEMMA CountUnseen ==
  ASSUME UNCHANGED count, \A op \in Ops : Mid(op)' <=> Mid(op)
  PROVE  AbstractCount' = AbstractCount
BY DEF AbstractCount, Mid

\* The contract's step for a request that takes effect, from what is seen.
LEMMA Executes ==
  ASSUME NEW r \in Requests, UNCHANGED msg,
         AbstractPhase(r) = "received", AbstractPhase(r)' = "executed",
         \A s \in Requests : s # r => /\ AbstractPhase(s)' = AbstractPhase(s)
                                      /\ Answered(s)' = Answered(s),
         IF V(r).kind = "run"
         THEN /\ AbstractCount' = [AbstractCount EXCEPT ![V(r).op] = @ + 1]
              /\ last' = [last EXCEPT ![V(r).op] = V(r).name]
              /\ Answered(r)' = AnswerOf(V(r), AbstractCount[V(r).op] + 1, ZeroSnap)
         ELSE /\ AbstractCount' = AbstractCount /\ last' = last
              /\ Answered(r)' = AnswerOf(V(r), 0, [count |-> AbstractCount, last |-> last])
  PROVE  Contract!Execute(r)
<1> DEFINE ph == [s \in Requests |-> AbstractPhase(s)]
           an == [s \in Requests |-> Answered(s)]
<1>1. ph[r] = "received" /\ ph' = [ph EXCEPT ![r] = "executed"]
  OBVIOUS
<1>2. an' = [an EXCEPT ![r] = Answered(r)']
  OBVIOUS
<1>3. Route(msg[r]) = V(r)
  BY DEF V
<1>4. CASE V(r).kind = "run"
  <2>1. AnswerOf(V(r), AbstractCount[V(r).op] + 1, ZeroSnap)
          = Contract!AnswerOf(V(r), AbstractCount[V(r).op] + 1, Contract!ZeroSnap)
    BY Vocabulary
  <2>2. an' = [an EXCEPT ![r] =
                 Contract!AnswerOf(V(r), AbstractCount[V(r).op] + 1, Contract!ZeroSnap)]
    BY <1>2, <1>4, <2>1
  <2>3. /\ AbstractCount' = [AbstractCount EXCEPT ![V(r).op] = @ + 1]
        /\ last' = [last EXCEPT ![V(r).op] = V(r).name]
    BY <1>4
  <2>. QED  BY <1>1, <1>3, <1>4, <2>2, <2>3 DEF Contract!Execute, Answered
<1>5. CASE V(r).kind # "run"
  <2> DEFINE now == [count |-> AbstractCount, last |-> last]
  <2>1. AnswerOf(V(r), 0, now) = Contract!AnswerOf(V(r), 0, now)
    BY Vocabulary
  <2>2. an' = [an EXCEPT ![r] = Contract!AnswerOf(V(r), 0, now)]
    BY <1>2, <1>5, <2>1
  <2>3. AbstractCount' = AbstractCount /\ last' = last
    BY <1>5
  <2>. QED  BY <1>1, <1>3, <1>5, <2>2, <2>3 DEF Contract!Execute, Answered
<1>. QED  BY <1>4, <1>5

\* Every step of the server is a step of the contract, or none.
LEMMA NextRefines ==
  SafeInv /\ StateInv /\ [Next]_vars => [Contract!Next]_(Contract!vars)
<1> SUFFICES ASSUME SafeInv, StateInv, [Next]_vars
             PROVE  Contract!Next \/ UNCHANGED Contract!vars
  OBVIOUS
<1> USE DEF SafeInv
<1>1. ASSUME NEW r \in Requests, NEW m \in Messages, Accept(r, m) PROVE Contract!Next
  <2>1. /\ pc[r] = "idle" /\ pc'[r] = "decode"
        /\ \A s \in Requests : s # r => pc'[s] = pc[s] /\ V(s)' = V(s)
        /\ UNCHANGED <<fields, number, snap, unread>>
    BY <1>1 DEF Accept, Goto, TypeOK, V, locals
  <2>2. \A s \in Requests : s # r => AbstractPhase(s)' = AbstractPhase(s)
                                     /\ Answered(s)' = Answered(s)
    BY <2>1, OthersUnseen
  <2>3. /\ AbstractPhase(r) = "idle" /\ AbstractPhase(r)' = "received"
        /\ Answered(r)' = Answered(r)
    BY <2>1 DEF AbstractPhase, Answered, Executed
  <2>4. AbstractCount' = AbstractCount
    <3>1. \A op \in Ops : Mid(op)' <=> Mid(op)
      BY <2>1 DEF Mid
    <3>. QED  BY <2>1, <3>1, CountUnseen DEF fields
  <2>5. msg' = [msg EXCEPT ![r] = m] /\ last' = last
    BY <1>1 DEF Accept, fields
  <2>6. Contract!Receive(r, m)
    BY <2>2, <2>3, <2>4, <2>5 DEF Contract!Receive, Answered
  <2>. QED  BY <2>6 DEF Contract!Next
<1>2. ASSUME NEW r \in Requests, Decode(r)
      PROVE  Contract!Next \/ UNCHANGED Contract!vars
  <2>1. /\ pc[r] = "decode" /\ pc'[r] \in {"Lock", "RLock", "write"}
        /\ pc'[r] = "write" => V(r).kind \notin {"run", "state"}
        /\ \A s \in Requests : s # r => pc'[s] = pc[s]
    <3>1. CASE V(r).kind = "run"
      BY <1>2, <3>1 DEF Decode, Goto, TypeOK
    <3>2. CASE V(r).kind = "state"
      BY <1>2, <3>2 DEF Decode, Goto, TypeOK
    <3>3. CASE V(r).kind \notin {"run", "state"}
      BY <1>2, <3>3 DEF Decode, Goto, TypeOK
    <3>. QED  BY <3>1, <3>2, <3>3
  <2>2. UNCHANGED <<msg, count, last, number, snap, unread>>
        /\ \A s \in Requests : V(s)' = V(s)
    BY <1>2, VStable DEF Decode, locals, fields
  <2>3. \A s \in Requests : s # r => AbstractPhase(s)' = AbstractPhase(s)
                                     /\ Answered(s)' = Answered(s)
    BY <2>1, <2>2, OthersUnseen
  <2>4. AbstractCount' = AbstractCount
    <3>1. \A op \in Ops : Mid(op)' <=> Mid(op)
      BY <2>1, <2>2 DEF Mid
    <3>. QED  BY <2>2, <3>1, CountUnseen
  <2>5. AbstractPhase(r) = "received" /\ Answered(r) = NoAnswer
    BY <2>1 DEF AbstractPhase, Answered, Executed
  <2>6. CASE pc'[r] \in {"Lock", "RLock"}
    <3>1. AbstractPhase(r)' = "received" /\ Answered(r)' = NoAnswer
      BY <2>6 DEF AbstractPhase, Answered, Executed
    <3>. QED  BY <2>2, <2>3, <2>4, <2>5, <3>1, Stutter
  <2>7. CASE pc'[r] = "write"
    <3>1. /\ AbstractPhase(r)' = "executed"
          /\ Answered(r)' = AnswerOf(V(r), number[r], snap[r])
      BY <2>2, <2>7 DEF AbstractPhase, Answered, Executed, Response
    <3>2. Answered(r)' = AnswerOf(V(r), 0, [count |-> AbstractCount, last |-> last])
      BY <2>1, <2>7, <3>1, AnswerDepends, VType
    <3>3. Contract!Execute(r)
      BY <2>1, <2>2, <2>3, <2>4, <2>5, <2>7, <3>1, <3>2, Executes
    <3>. QED  BY <3>3 DEF Contract!Next
  <2>. QED  BY <2>1, <2>6, <2>7
<1>3. ASSUME NEW r \in Requests, NEW from, NEW to \in Pcs, Goto(r, from, to),
             UNCHANGED <<msg, fields, locals>>,
             <<from, to>> \in {<<"Lock", "count">>, <<"Unlock", "write">>,
                               <<"RLock", "read">>, <<"read", "write">>},
             pc[r] = "read" => unread[r] = {}
      PROVE  UNCHANGED Contract!vars
  <2>1. /\ pc[r] = from /\ pc'[r] = to
        /\ \A s \in Requests : s # r => pc'[s] = pc[s]
    BY <1>3 DEF Goto, TypeOK
  <2>2. UNCHANGED <<msg, count, last, number, snap, unread>>
        /\ \A s \in Requests : V(s)' = V(s)
    BY <1>3, VStable DEF locals, fields
  <2>3. \A s \in Requests : s # r => AbstractPhase(s)' = AbstractPhase(s)
                                     /\ Answered(s)' = Answered(s)
    BY <2>1, <2>2, OthersUnseen
  <2>4. AbstractCount' = AbstractCount
    <3>1. \A op \in Ops : Mid(op)' <=> Mid(op)
      BY <1>3, <2>1, <2>2 DEF Mid
    <3>. QED  BY <2>2, <3>1, CountUnseen
  <2>5. pc[r] = "RLock" => unread[r] # {}
    <3>1. <<"count", "SAY_HELLO">> \in Fields
      BY DEF Fields, Ops
    <3>. QED  BY <3>1 DEF StateInv, CopyInv
  <2>6. Executed(r)' <=> Executed(r)
    BY <1>3, <2>1, <2>2, <2>5 DEF Executed
  <2>7. AbstractPhase(r)' = AbstractPhase(r)
    BY <1>3, <2>1, <2>6 DEF AbstractPhase
  <2>8. Answered(r)' = Answered(r)
    BY <2>2, <2>6 DEF Answered, Response
  <2>. QED  BY <2>2, <2>3, <2>4, <2>7, <2>8, Stutter
<1>4. ASSUME NEW r \in Requests, Increment(r) PROVE UNCHANGED Contract!vars
  <2>1. /\ pc[r] = "count" /\ pc'[r] = "number"
        /\ \A s \in Requests : s # r => pc'[s] = pc[s]
    BY <1>4 DEF Increment, Goto, TypeOK
  <2>2. UNCHANGED <<msg, last, number, snap, unread>> /\ \A s \in Requests : V(s)' = V(s)
    BY <1>4, VStable DEF Increment, locals
  <2>3. \A s \in Requests : s # r => pc[s] \notin Writing
    BY <2>1 DEF LockInv, Writing
  <2>4. V(r).op \in Ops
    BY <2>1, VType DEF ControlInv, Writing
  <2>5. /\ count \in [Ops -> Nat]
        /\ \A op \in Ops : count'[op] = IF op = V(r).op THEN count[op] + 1 ELSE count[op]
    BY <1>4 DEF Increment, TypeOK
  <2>6. \A op \in Ops : ~Mid(op) /\ (Mid(op)' <=> op = V(r).op)
    BY <2>1, <2>2, <2>3 DEF Mid, Writing
  <2>7. AbstractCount' = AbstractCount
    <3>1. \A op \in Ops : (IF Mid(op)' THEN count'[op] - 1 ELSE count'[op])
                          = (IF Mid(op) THEN count[op] - 1 ELSE count[op])
      BY <2>5, <2>6
    <3>. QED  BY <3>1 DEF AbstractCount, Mid
  <2>8. \A s \in Requests : s # r => AbstractPhase(s)' = AbstractPhase(s)
                                     /\ Answered(s)' = Answered(s)
    BY <2>1, <2>2, OthersUnseen
  <2>9. AbstractPhase(r)' = AbstractPhase(r) /\ Answered(r)' = Answered(r)
    BY <2>1 DEF AbstractPhase, Answered, Executed
  <2>. QED  BY <2>2, <2>7, <2>8, <2>9, Stutter
<1>5. ASSUME NEW r \in Requests, TakeNumber(r) PROVE UNCHANGED Contract!vars
  <2>1. /\ pc[r] = "number" /\ pc'[r] = "last"
        /\ \A s \in Requests : s # r => pc'[s] = pc[s] /\ number'[s] = number[s]
    BY <1>5 DEF TakeNumber, Goto, TypeOK
  <2>2. UNCHANGED <<msg, count, last, snap, unread>> /\ \A s \in Requests : V(s)' = V(s)
    BY <1>5, VStable DEF TakeNumber, fields
  <2>3. AbstractCount' = AbstractCount
    <3>1. \A op \in Ops : Mid(op)' <=> Mid(op)
      BY <2>1, <2>2 DEF Mid
    <3>. QED  BY <2>2, <3>1, CountUnseen
  <2>4. \A s \in Requests : s # r => AbstractPhase(s)' = AbstractPhase(s)
                                     /\ Answered(s)' = Answered(s)
    BY <2>1, <2>2, OthersUnseen
  <2>5. AbstractPhase(r)' = AbstractPhase(r) /\ Answered(r)' = Answered(r)
    BY <2>1 DEF AbstractPhase, Answered, Executed
  <2>. QED  BY <2>2, <2>3, <2>4, <2>5, Stutter
<1>6. ASSUME NEW r \in Requests, SetLast(r) PROVE Contract!Next
  <2>1. /\ pc[r] = "last" /\ pc'[r] = "Unlock"
        /\ \A s \in Requests : s # r => pc'[s] = pc[s]
    BY <1>6 DEF SetLast, Goto, TypeOK
  <2>2. UNCHANGED <<msg, count, number, snap, unread>> /\ \A s \in Requests : V(s)' = V(s)
    BY <1>6, VStable DEF SetLast, locals
  <2>3. \A s \in Requests : s # r => pc[s] \notin Writing
    BY <2>1 DEF LockInv, Writing
  <2>4. V(r).kind = "run" /\ V(r).op \in Ops
    BY <2>1, VType DEF ControlInv, Writing
  <2>5. \A op \in Ops : ~Mid(op)' /\ (Mid(op) <=> op = V(r).op)
    BY <2>1, <2>2, <2>3, <2>4 DEF Mid, Writing
  <2>6. count \in [Ops -> Nat] /\ number[r] = count[V(r).op]
    BY <2>1 DEF TypeOK, StateInv, FieldsInv
  <2>7. /\ AbstractCount' = [AbstractCount EXCEPT ![V(r).op] = @ + 1]
        /\ AbstractCount[V(r).op] + 1 = number[r]
    <3>1. AbstractCount = [op \in Ops |-> IF op = V(r).op THEN count[op] - 1 ELSE count[op]]
      BY <2>5 DEF AbstractCount, Mid
    <3>2. AbstractCount' = [op \in Ops |-> count[op]]
      BY <2>2, <2>5 DEF AbstractCount, Mid
    <3>. QED  BY <2>4, <2>6, <3>1, <3>2
  <2>8. \A s \in Requests : s # r => AbstractPhase(s)' = AbstractPhase(s)
                                     /\ Answered(s)' = Answered(s)
    BY <2>1, <2>2, OthersUnseen
  <2>9. AbstractPhase(r) = "received" /\ AbstractPhase(r)' = "executed"
    BY <2>1 DEF AbstractPhase, Executed
  <2>10. Answered(r)' = AnswerOf(V(r), AbstractCount[V(r).op] + 1, ZeroSnap)
    <3>1. Answered(r)' = AnswerOf(V(r), number[r], snap[r])
      BY <2>1, <2>2 DEF Answered, Executed, Response
    <3>. QED  BY <2>4, <2>7, <3>1, AnswerDepends, VType
  <2>11. Contract!Execute(r)
    BY <1>6, <2>2, <2>4, <2>7, <2>8, <2>9, <2>10, Executes DEF SetLast
  <2>. QED  BY <2>11 DEF Contract!Next
<1>7. ASSUME NEW r \in Requests, NEW f \in Fields, ReadField(r, f)
      PROVE  Contract!Next \/ UNCHANGED Contract!vars
  <2>1. /\ pc[r] = "read" /\ V(r).kind = "state" /\ f \in unread[r]
        /\ UNCHANGED <<pc, msg, count, last, number>>
        /\ \A s \in Requests : V(s)' = V(s)
    BY <1>7, VStable DEF ReadField, fields, ControlInv
  <2>2. /\ \A s \in Requests : s # r => snap'[s] = snap[s] /\ unread'[s] = unread[s]
        /\ unread'[r] = unread[r] \ {f}
    BY <1>7 DEF ReadField, TypeOK
  <2>3. AbstractCount' = AbstractCount
    BY <2>1 DEF AbstractCount
  <2>4. \A s \in Requests : s # r => AbstractPhase(s)' = AbstractPhase(s)
                                     /\ Answered(s)' = Answered(s)
    BY <2>1, <2>2, OthersUnseen
  <2>5. AbstractPhase(r) = "received" /\ Answered(r) = NoAnswer
    BY <2>1 DEF AbstractPhase, Answered, Executed
  <2>6. CASE unread'[r] # {}
    <3>1. AbstractPhase(r)' = "received" /\ Answered(r)' = NoAnswer
      BY <2>1, <2>6 DEF AbstractPhase, Answered, Executed
    <3>. QED  BY <2>1, <2>3, <2>4, <2>5, <3>1, Stutter
  <2>7. CASE unread'[r] = {}
    <3>1. /\ AbstractPhase(r)' = "executed"
          /\ Answered(r)' = AnswerOf(V(r), number[r], snap'[r])
      BY <2>1, <2>7 DEF AbstractPhase, Answered, Executed, Response
    <3>2. \A op \in Ops : ~Mid(op)
      <4>1. \A s \in Requests : pc[s] \notin Writing
        BY <2>1, NoOneAssumption DEF LockInv
      <4>. QED  BY <4>1 DEF Mid, Writing
    <3>3. AbstractCount = count
      BY <3>2 DEF AbstractCount, Mid, TypeOK
    <3>4. SafeInv' /\ StateInv'
      BY NextSafe, NextState
    <3>5. \A g \in Fields : Copied(r, g)'
      BY <2>1, <2>7, <3>4 DEF StateInv, CopyInv
    <3>6. \A op \in Ops : snap'[r].count[op] = count[op] /\ snap'[r].last[op] = last[op]
      <4>1. \A op \in Ops : <<"count", op>> \in Fields /\ <<"last", op>> \in Fields
        BY DEF Fields
      <4>. QED  BY <2>1, <3>5, <4>1 DEF Copied
    <3>7. snap'[r] = [count |-> AbstractCount, last |-> last]
      <4>1. snap'[r] \in Snapshot /\ count \in [Ops -> Nat] /\ last \in [Ops -> Texts]
        BY <3>4 DEF TypeOK
      <4>2. snap'[r].count = count /\ snap'[r].last = last
        BY <3>6, <4>1 DEF Snapshot
      <4>. QED  BY <3>3, <4>1, <4>2 DEF Snapshot
    <3>8. Answered(r)' = AnswerOf(V(r), 0, [count |-> AbstractCount, last |-> last])
      BY <2>1, <3>1, <3>7, AnswerDepends, VType
    <3>9. Contract!Execute(r)
      BY <2>1, <2>3, <2>4, <2>5, <3>1, <3>8, Executes
    <3>. QED  BY <3>9 DEF Contract!Next
  <2>. QED  BY <2>6, <2>7
<1>8. ASSUME NEW r \in Requests, WriteResponse(r) PROVE Contract!Next
  <2>1. /\ pc[r] = "write" /\ pc'[r] = "done"
        /\ \A s \in Requests : s # r => pc'[s] = pc[s]
    BY <1>8 DEF WriteResponse, Goto, TypeOK
  <2>2. UNCHANGED <<msg, count, last, number, snap, unread>>
        /\ \A s \in Requests : V(s)' = V(s)
    BY <1>8, VStable DEF WriteResponse, locals, fields
  <2>3. AbstractCount' = AbstractCount
    <3>1. \A op \in Ops : Mid(op)' <=> Mid(op)
      BY <2>1, <2>2 DEF Mid
    <3>. QED  BY <2>2, <3>1, CountUnseen
  <2>4. \A s \in Requests : s # r => AbstractPhase(s)' = AbstractPhase(s)
                                     /\ Answered(s)' = Answered(s)
    BY <2>1, <2>2, OthersUnseen
  <2>5. /\ AbstractPhase(r) = "executed" /\ AbstractPhase(r)' = "done"
        /\ Answered(r)' = Answered(r)
    BY <2>1, <2>2 DEF AbstractPhase, Answered, Executed, Response
  <2>6. Contract!Reply(r)
    BY <2>2, <2>3, <2>4, <2>5 DEF Contract!Reply, Answered
  <2>. QED  BY <2>6 DEF Contract!Next
<1>9. CASE UNCHANGED vars
  BY <1>9 DEF vars, Contract!vars, AbstractPhase, AbstractCount, Executed, Response, V
<1>10. ASSUME NEW r \in Requests, Lock(r) \/ Unlock(r) \/ RLock(r) \/ RUnlock(r)
       PROVE  UNCHANGED Contract!vars
  BY <1>3, <1>10 DEF Lock, Unlock, RLock, RUnlock, Goto, Pcs
<1>. QED
  BY <1>1, <1>2, <1>4, <1>5, <1>6, <1>7, <1>8, <1>9, <1>10 DEF Next, Step, AllServed

\* The Go server implements the contract: each request takes effect at one
\* instant between its arrival and its answer, handlers one at a time, and a
\* state read sees the state between two handlers.
THEOREM GoImplementsContract == Spec => RefinesContract
<1>1. Init => Contract!Init
  BY InitRefines
<1>2. SafeInv /\ StateInv /\ [Next]_vars => [Contract!Next]_(Contract!vars)
  BY NextRefines
<1>. QED  BY <1>1, <1>2, StateInvariant, PTL DEF Spec, RefinesContract, Contract!Spec
=============================================================================
