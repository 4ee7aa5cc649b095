------------------------- MODULE PyExtensionProofs -------------------------
(***************************************************************************)
(* Proofs about PyExtension, for any set of requests, names and messages:  *)
(* Server._lock is held by one thread at a time and always given back,     *)
(* exceptions leave the handlers' globals whole, and the server implements *)
(* ExtensionContract.                                                      *)
(***************************************************************************)
EXTENDS PyExtension, ExtensionProofs, TLAPS

-----------------------------------------------------------------------------
(* The inductive invariant.                                                *)

Pcs == {"idle", "parse", "acquire", "count", "last", "respond", "report",
        "release", "send", "done"}

\* The places inside the with statement.
Holding == {"count", "last", "respond", "report", "release"}

\* A thread is where its request's verdict sends it; only a request that
\* raises is ever unwound; report_state has an entry left while it reports.
ControlInv ==
    \A r \in Requests :
        /\ pc[r] \in {"count", "last", "respond"} => V(r).kind = "run"
        /\ pc[r] = "report" => V(r).kind = "state" /\ reads[r] < 4
        /\ pc[r] = "idle" => V(r).kind = "http"
        /\ pc[r] = "acquire" => NeedsLock(msg[r])
        /\ pc[r] \in {"idle", "parse", "acquire"} => reads[r] = 0
        /\ raised[r] => V(r).kind = "raise"

\* The threads inside the with statement are those holding the lock: one.
LockInv == \A r \in Requests : pc[r] \in Holding <=> lock = r

SafeInv == TypeOK /\ ControlInv /\ LockInv

\* Requests of op that have read their number back.
Drawn(op) ==
    {r \in Requests : /\ pc[r] \in {"release", "send", "done"}
                      /\ V(r).kind = "run" /\ V(r).op = op}

\* A handler of op has incremented the counter and not read it back.
Pending(op) == \E r \in Requests : pc[r] \in {"last", "respond"} /\ V(r).op = op

Top(op) == IF Pending(op) THEN count[op] - 1 ELSE count[op]

\* The numbers of an op are distinct and fill 1 up to the highest one.
NumInv ==
    \A op \in Ops :
        /\ Top(op) \in Nat
        /\ \A r, s \in Drawn(op) : number[r] = number[s] => r = s
        /\ \A r \in Drawn(op) : number[r] \in 1 .. Top(op)
        /\ \A k \in 1 .. Top(op) : \E r \in Drawn(op) : number[r] = k

\* Between two handlers of an op the text is that of the newest number; a
\* handler about to respond has stored its own.
TextInv ==
    /\ \A op \in Ops : ~Pending(op) =>
          /\ count[op] = 0 => last[op] = NoName
          /\ \A r \in Drawn(op) : number[r] = count[op] => V(r).name = last[op]
    /\ \A r \in Requests : pc[r] = "respond" => last[V(r).op] = V(r).name

\* Field f in the dict of report_state.
Copied(r, f) ==
    IF f[1] = "count" THEN snap[r].count[f[2]] = count[f[2]]
                      ELSE snap[r].last[f[2]] = last[f[2]]

\* The entries evaluated so far are what the globals still hold.
CopyInv ==
    \A r \in Requests : pc[r] = "report" =>
        \A i \in 1 .. reads[r] : Copied(r, ReportOrder[i])

StateInv == NumInv /\ TextInv /\ CopyInv

-----------------------------------------------------------------------------
(* Control and the lock.                                                   *)

\* Whatever arrives, handle_request classifies it, and only a request for a
\* registered op with something to render reaches a handler's body.
LEMMA RouteType ==
  ASSUME NEW m \in Message \cup {NoMessage}
  PROVE  /\ handle_request(m) \in Verdict
         /\ handle_request(m).kind = "run" =>
              handle_request(m).op \in Ops /\ handle_request(m).name \in Texts
<1> DEFINE Good(v) == v \in Verdict /\ (v.kind = "run" => v.op \in Ops /\ v.name \in Texts)
<1>1. Good(Http(400)) /\ Good(Http(404)) /\ Good(Http(405)) /\ Good(Http(501))
  BY DEF Http, Verdict, Texts, NoOp
<1>2. Good(Raise) /\ Good(ReadState)
  BY DEF Raise, ReadState, Verdict, Texts, NoOp
<1>3. Good(Fail("SAY_HELLO")) /\ Good(Fail("SAY_GOODBYE"))
  BY DEF Fail, Verdict, Texts, Ops
<1>4. \A n \in Texts : Good(Run("SAY_HELLO", n)) /\ Good(Run("SAY_GOODBYE", n))
  BY DEF Run, Verdict, Ops
<1>5. Good(handle_say_hello(m)) /\ Good(handle_say_goodbye(m))
  <2>1. NumberText \in Texts /\ Names \subseteq Texts
    BY DEF Texts
  <2>. QED  BY <1>2, <1>3, <1>4, <2>1 DEF handle_say_hello, handle_say_goodbye
<1>6. Good(ParsesTo(m))
  BY <1>1, <1>2, <1>5 DEF ParsesTo
<1>. QED  BY <1>1, <1>2, <1>6 DEF handle_request

\* The same of the request a thread is serving, or has yet to receive.
LEMMA VType ==
  ASSUME TypeOK, NEW r \in Requests
  PROVE  /\ V(r) \in Verdict
         /\ V(r).kind = "run" => V(r).op \in Ops /\ V(r).name \in Texts
<1>1. msg[r] \in Message \cup {NoMessage}
  BY MessagesAssumption DEF TypeOK
<1>. QED  BY <1>1, RouteType DEF V

\* While no request arrives, every verdict stays what it was.
LEMMA VStable ==
  ASSUME UNCHANGED msg
  PROVE  \A r \in Requests : V(r)' = V(r)
BY DEF V

\* Moving one program counter moves no other.
LEMMA GotoMoves ==
  ASSUME TypeOK, NEW r \in Requests, NEW from, NEW to \in Pcs, Goto(r, from, to)
  PROVE  /\ pc' \in [Requests -> Pcs]
         /\ pc[r] = from /\ pc'[r] = to
         /\ \A s \in Requests : s # r => pc'[s] = pc[s]
BY DEF TypeOK, Goto, Pcs

\* Before the first request nobody holds the lock and nothing was served.
LEMMA InitInv == Init => SafeInv /\ StateInv
<1> SUFFICES ASSUME Init PROVE SafeInv /\ StateInv
  OBVIOUS
<1>1. TypeOK
  BY DEF Init, TypeOK, ZeroCount, NoLast, ZeroSnap, Snapshot, Texts
<1>2. ControlInv
  <2>1. \A r \in Requests : V(r).kind = "http"
    BY DEF Init, V, handle_request, NoMessage, Http
  <2>. QED  BY <2>1 DEF Init, ControlInv
<1>3. LockInv
  BY NoOneAssumption DEF Init, LockInv, Holding
<1>4. \A op \in Ops : ~Pending(op) /\ Drawn(op) = {} /\ Top(op) = 0
  BY DEF Init, Pending, Drawn, Top, ZeroCount
<1>5. NumInv
  BY <1>4 DEF NumInv
<1>6. TextInv /\ CopyInv
  BY <1>4 DEF Init, TextInv, CopyInv, ZeroCount, NoLast
<1>. QED  BY <1>1, <1>2, <1>3, <1>5, <1>6 DEF SafeInv, StateInv

\* The four entries of report_state's dict.
LEMMA Report ==
  /\ Len(ReportOrder) = 4
  /\ \A i \in 1 .. 4 : /\ ReportOrder[i][1] \in {"count", "last"}
                       /\ ReportOrder[i][2] \in Ops
                       /\ \A j \in 1 .. 4 : i # j =>
                            \/ ReportOrder[i][1] # ReportOrder[j][1]
                            \/ ReportOrder[i][2] # ReportOrder[j][2]
BY DEF ReportOrder, Ops

\* What report_state does with one entry.
LEMMA Reported ==
  ASSUME TypeOK, ControlInv, NEW r \in Requests, ReportField(r)
  PROVE  /\ pc[r] = "report" /\ V(r).kind = "state" /\ reads[r] \in 0 .. 3
         /\ reads' = [reads EXCEPT ![r] = @ + 1] /\ reads'[r] = reads[r] + 1
         /\ pc' \in [Requests -> Pcs]
         /\ pc'[r] = IF reads[r] = 3 THEN "release" ELSE "report"
         /\ \A s \in Requests : s # r => /\ pc'[s] = pc[s] /\ snap'[s] = snap[s]
                                         /\ reads'[s] = reads[s]
         /\ snap' \in [Requests -> Snapshot]
         /\ \A i \in 1 .. (reads[r] + 1) :
              i = reads[r] + 1 \/ Copied(r, ReportOrder[i]) => Copied(r, ReportOrder[i])'
         /\ UNCHANGED <<msg, lock, globals, number, raised>>
<1>1. pc[r] = "report" /\ V(r).kind = "state" /\ reads[r] \in 0 .. 3
  BY DEF ReportField, ControlInv, TypeOK
<1>i. PICK i \in 1 .. 4 : i = reads[r] + 1
  BY <1>1
<1> DEFINE f == ReportOrder[i]
<1>2. /\ reads' = [reads EXCEPT ![r] = @ + 1] /\ reads'[r] = reads[r] + 1
      /\ \A s \in Requests : s # r => reads'[s] = reads[s]
      /\ UNCHANGED <<msg, lock, globals, number, raised>>
  BY DEF ReportField, TypeOK
<1>3. /\ pc' \in [Requests -> Pcs] /\ \A s \in Requests : s # r => pc'[s] = pc[s]
      /\ pc'[r] = IF reads[r] = 3 THEN "release" ELSE "report"
  <2>1. pc' = [pc EXCEPT ![r] = IF reads'[r] = Len(ReportOrder) THEN "release" ELSE @]
    BY DEF ReportField
  <2>2. reads'[r] = Len(ReportOrder) <=> reads[r] = 3
    BY <1>1, <1>2, Report
  <2>. QED  BY <1>1, <2>1, <2>2 DEF TypeOK, Pcs
<1>4. snap[r] \in Snapshot /\ f[1] \in {"count", "last"} /\ f[2] \in Ops
      /\ count[f[2]] \in Nat /\ last[f[2]] \in Texts
  BY Report DEF TypeOK
<1>5. snap' = [snap EXCEPT ![r] =
                  IF f[1] = "count" THEN [@ EXCEPT !.count[f[2]] = count[f[2]]]
                                    ELSE [@ EXCEPT !.last[f[2]] = last[f[2]]]]
  BY <1>i DEF ReportField
<1>6. /\ \A s \in Requests : s # r => snap'[s] = snap[s]
      /\ snap' \in [Requests -> Snapshot]
  <2>1. /\ [snap[r] EXCEPT !.count[f[2]] = count[f[2]]] \in Snapshot
        /\ [snap[r] EXCEPT !.last[f[2]] = last[f[2]]] \in Snapshot
    BY <1>4 DEF Snapshot
  <2>. QED  BY <1>5, <2>1 DEF TypeOK
<1>7. CASE f[1] = "count"
  <2>1. snap'[r] = [snap[r] EXCEPT !.count[f[2]] = count[f[2]]]
    BY <1>5, <1>7 DEF TypeOK
  <2>2. /\ snap'[r].last = snap[r].last
        /\ \A op \in Ops : snap'[r].count[op] =
             IF op = f[2] THEN count[f[2]] ELSE snap[r].count[op]
    BY <1>4, <2>1 DEF Snapshot
  <2>3. Copied(r, f)'
    BY <1>2, <1>4, <1>7, <2>2 DEF Copied, globals
  <2>4. ASSUME NEW k \in 1 .. reads[r], Copied(r, ReportOrder[k])
        PROVE  Copied(r, ReportOrder[k])'
    <3> DEFINE g == ReportOrder[k]
    <3>1. g[1] \in {"count", "last"} /\ g[2] \in Ops /\ (g[1] # f[1] \/ g[2] # f[2])
      BY <1>1, <1>i, Report
    <3>. QED  BY <1>2, <1>7, <2>2, <2>4, <3>1 DEF Copied, globals
  <2>. QED  BY <1>1, <1>2, <1>3, <1>6, <1>i, <2>3, <2>4
<1>8. CASE f[1] = "last"
  <2>1. snap'[r] = [snap[r] EXCEPT !.last[f[2]] = last[f[2]]]
    BY <1>5, <1>8 DEF TypeOK
  <2>2. /\ snap'[r].count = snap[r].count
        /\ \A op \in Ops : snap'[r].last[op] =
             IF op = f[2] THEN last[f[2]] ELSE snap[r].last[op]
    BY <1>4, <2>1 DEF Snapshot
  <2>3. Copied(r, f)'
    BY <1>2, <1>4, <1>8, <2>2 DEF Copied, globals
  <2>4. ASSUME NEW k \in 1 .. reads[r], Copied(r, ReportOrder[k])
        PROVE  Copied(r, ReportOrder[k])'
    <3> DEFINE g == ReportOrder[k]
    <3>1. g[1] \in {"count", "last"} /\ g[2] \in Ops /\ (g[1] # f[1] \/ g[2] # f[2])
      BY <1>1, <1>i, Report
    <3>. QED  BY <1>2, <1>8, <2>2, <2>4, <3>1 DEF Copied, globals
  <2>. QED  BY <1>1, <1>2, <1>3, <1>6, <1>i, <2>3, <2>4
<1>. QED  BY <1>4, <1>7, <1>8

\* Every step of every thread keeps control and lock in order; the thread that
\* leaves the with statement, by return or by exception, frees the lock.
LEMMA NextSafe == SafeInv /\ [Next]_vars => SafeInv'
<1> SUFFICES ASSUME SafeInv, [Next]_vars PROVE SafeInv'
  OBVIOUS
<1> USE DEF SafeInv
<1> USE NoOneAssumption
<1>0. pc \in [Requests -> Pcs]
  BY DEF TypeOK, Pcs
<1>1. ASSUME NEW r \in Requests, NEW m \in Messages, Accept(r, m) PROVE SafeInv'
  <2>1. /\ pc' \in [Requests -> Pcs] /\ pc[r] = "idle" /\ pc'[r] = "parse"
        /\ \A s \in Requests : s # r => pc'[s] = pc[s]
    BY <1>1, GotoMoves DEF Accept, Pcs
  <2>2. TypeOK'
    BY <1>1, <2>1 DEF Accept, TypeOK, Pcs, globals, locals
  <2>3. \A s \in Requests : s # r => V(s)' = V(s) /\ msg'[s] = msg[s]
    BY <1>1 DEF Accept, TypeOK, V
  <2>4. UNCHANGED <<lock, reads, raised>> /\ ~raised[r]
    <3>1. raised[r] => V(r).kind = "raise" /\ V(r).kind = "http"
      BY <2>1 DEF ControlInv
    <3>. QED  BY <1>1, <3>1 DEF Accept, locals
  <2>5. ControlInv'
    BY <2>1, <2>3, <2>4 DEF ControlInv
  <2>6. LockInv'
    BY <2>1, <2>4 DEF LockInv, Holding
  <2>. QED  BY <2>2, <2>5, <2>6
<1>2. ASSUME NEW r \in Requests, Parse(r) PROVE SafeInv'
  <2>1. /\ pc' \in [Requests -> Pcs] /\ pc[r] = "parse"
        /\ pc'[r] = IF NeedsLock(msg[r]) THEN "acquire" ELSE "send"
        /\ \A s \in Requests : s # r => pc'[s] = pc[s]
    BY <1>2, GotoMoves DEF Parse, Pcs
  <2>2. /\ raised' \in [Requests -> BOOLEAN]
        /\ \A s \in Requests : s # r => raised'[s] = raised[s]
        /\ raised'[r] => V(r).kind = "raise"
    BY <1>2 DEF Parse, TypeOK
  <2>3. UNCHANGED <<msg, lock, count, last, number, snap, reads>>
        /\ \A s \in Requests : V(s)' = V(s)
    BY <1>2, VStable DEF Parse, globals
  <2>4. TypeOK'
    BY <2>1, <2>2, <2>3 DEF TypeOK, Pcs
  <2>5. ControlInv'
    BY <2>1, <2>2, <2>3 DEF ControlInv
  <2>6. LockInv'
    BY <2>1, <2>3 DEF LockInv, Holding
  <2>. QED  BY <2>4, <2>5, <2>6
<1>3. ASSUME NEW r \in Requests, Acquire(r) PROVE SafeInv'
  <2> DEFINE to == CASE V(r).kind = "run"   -> "count"
                     [] V(r).kind = "state" -> "report"
                     [] OTHER               -> "release"
  <2>0. /\ V(r).kind = "run" => to = "count"
        /\ V(r).kind = "state" => to = "report"
        /\ V(r).kind \notin {"run", "state"} => to = "release"
    OBVIOUS
  <2> HIDE DEF to
  <2>1. /\ pc' \in [Requests -> Pcs] /\ pc[r] = "acquire" /\ pc'[r] = to
        /\ \A s \in Requests : s # r => pc'[s] = pc[s]
    BY <1>3, <2>0, GotoMoves DEF Acquire, Pcs, to
  <2>2. /\ raised' \in [Requests -> BOOLEAN]
        /\ \A s \in Requests : s # r => raised'[s] = raised[s]
        /\ raised'[r] => V(r).kind = "raise"
    BY <1>3 DEF Acquire, TypeOK
  <2>3. UNCHANGED <<msg, count, last, number, snap, reads>>
        /\ lock = NoOne /\ lock' = r
        /\ \A s \in Requests : V(s)' = V(s)
    BY <1>3, VStable DEF Acquire, globals
  <2>4. TypeOK'
    BY <2>1, <2>2, <2>3 DEF TypeOK, Pcs
  <2>5. ControlInv'
    BY <2>0, <2>1, <2>2, <2>3 DEF ControlInv
  <2>6. LockInv'
    BY <2>0, <2>1, <2>3 DEF LockInv, Holding
  <2>. QED  BY <2>4, <2>5, <2>6
<1>4. ASSUME NEW r \in Requests, Increment(r) PROVE SafeInv'
  <2>1. /\ pc' \in [Requests -> Pcs] /\ pc[r] = "count" /\ pc'[r] = "last"
        /\ \A s \in Requests : s # r => pc'[s] = pc[s]
    BY <1>4, GotoMoves DEF Increment, Pcs
  <2>2. V(r).op \in Ops
    BY <2>1, VType DEF ControlInv
  <2>3. TypeOK'
    BY <1>4, <2>1, <2>2 DEF Increment, TypeOK, Pcs, locals
  <2>4. UNCHANGED <<msg, lock, reads, raised>> /\ \A s \in Requests : V(s)' = V(s)
    BY <1>4, VStable DEF Increment, locals
  <2>5. ControlInv' /\ LockInv'
    BY <2>1, <2>4 DEF ControlInv, LockInv, Holding
  <2>. QED  BY <2>3, <2>5
<1>5. ASSUME NEW r \in Requests, SetLast(r) PROVE SafeInv'
  <2>1. /\ pc' \in [Requests -> Pcs] /\ pc[r] = "last" /\ pc'[r] = "respond"
        /\ \A s \in Requests : s # r => pc'[s] = pc[s]
    BY <1>5, GotoMoves DEF SetLast, Pcs
  <2>2. V(r).op \in Ops /\ V(r).name \in Texts
    BY <2>1, VType DEF ControlInv
  <2>3. TypeOK'
    BY <1>5, <2>1, <2>2 DEF SetLast, TypeOK, Pcs, locals
  <2>4. UNCHANGED <<msg, lock, reads, raised>> /\ \A s \in Requests : V(s)' = V(s)
    BY <1>5, VStable DEF SetLast, locals
  <2>5. ControlInv' /\ LockInv'
    BY <2>1, <2>4 DEF ControlInv, LockInv, Holding
  <2>. QED  BY <2>3, <2>5
<1>6. ASSUME NEW r \in Requests, Respond(r) PROVE SafeInv'
  <2>1. /\ pc' \in [Requests -> Pcs] /\ pc[r] = "respond" /\ pc'[r] = "release"
        /\ \A s \in Requests : s # r => pc'[s] = pc[s]
    BY <1>6, GotoMoves DEF Respond, Pcs
  <2>2. V(r).op \in Ops
    BY <2>1, VType DEF ControlInv
  <2>3. TypeOK'
    BY <1>6, <2>1, <2>2 DEF Respond, TypeOK, Pcs, globals
  <2>4. UNCHANGED <<msg, lock, reads, raised>> /\ \A s \in Requests : V(s)' = V(s)
    BY <1>6, VStable DEF Respond
  <2>5. ControlInv' /\ LockInv'
    BY <2>1, <2>4 DEF ControlInv, LockInv, Holding
  <2>. QED  BY <2>3, <2>5
<1>7. ASSUME NEW r \in Requests, ReportField(r) PROVE SafeInv'
  <2>1. /\ pc[r] = "report" /\ V(r).kind = "state" /\ reads[r] \in 0 .. 3
        /\ reads' = [reads EXCEPT ![r] = @ + 1] /\ reads'[r] = reads[r] + 1
        /\ pc' \in [Requests -> Pcs]
        /\ pc'[r] = IF reads[r] = 3 THEN "release" ELSE "report"
        /\ \A s \in Requests : s # r => pc'[s] = pc[s] /\ reads'[s] = reads[s]
        /\ snap' \in [Requests -> Snapshot]
        /\ UNCHANGED <<msg, lock, globals, number, raised>>
    BY <1>7, Reported
  <2>2. \A s \in Requests : V(s)' = V(s)
    BY <2>1, VStable
  <2>3. TypeOK'
    BY <2>1 DEF TypeOK, Pcs, globals
  <2>4. ControlInv' /\ LockInv'
    BY <2>1, <2>2 DEF ControlInv, LockInv, Holding
  <2>. QED  BY <2>3, <2>4
<1>8. ASSUME NEW r \in Requests, Release(r) PROVE SafeInv'
  <2>1. /\ pc' \in [Requests -> Pcs] /\ pc[r] = "release" /\ pc'[r] = "send"
        /\ \A s \in Requests : s # r => pc'[s] = pc[s]
    BY <1>8, GotoMoves DEF Release, Pcs
  <2>2. TypeOK'
    BY <1>8, <2>1 DEF Release, TypeOK, Pcs, globals, locals
  <2>3. UNCHANGED <<msg, reads, raised>> /\ lock' = NoOne
        /\ \A s \in Requests : V(s)' = V(s)
    BY <1>8, VStable DEF Release, locals
  <2>4. ControlInv'
    BY <2>1, <2>3 DEF ControlInv
  <2>5. LockInv'
    BY <2>1, <2>3 DEF LockInv, Holding
  <2>. QED  BY <2>2, <2>4, <2>5
<1>9. ASSUME NEW r \in Requests, Send(r) PROVE SafeInv'
  <2>1. /\ pc' \in [Requests -> Pcs] /\ pc[r] = "send" /\ pc'[r] = "done"
        /\ \A s \in Requests : s # r => pc'[s] = pc[s]
    BY <1>9, GotoMoves DEF Send, Pcs
  <2>2. TypeOK'
    BY <1>9, <2>1 DEF Send, TypeOK, Pcs, globals, locals
  <2>3. UNCHANGED <<msg, lock, reads, raised>> /\ \A s \in Requests : V(s)' = V(s)
    BY <1>9, VStable DEF Send, locals
  <2>4. ControlInv' /\ LockInv'
    BY <2>1, <2>3 DEF ControlInv, LockInv, Holding
  <2>. QED  BY <2>2, <2>4
<1>10. CASE UNCHANGED vars
  BY <1>10, VStable DEF vars, TypeOK, ControlInv, LockInv
<1>. QED
  BY <1>1, <1>2, <1>3, <1>4, <1>5, <1>6, <1>7, <1>8, <1>9, <1>10
  DEF Next, Step, AllServed

\* The threads never leave the types of their variables, and exactly the
\* thread inside the with statement holds Server._lock.
THEOREM SafeInvariant == Spec => []SafeInv
<1>1. Init => SafeInv
  BY InitInv
<1>. QED  BY <1>1, NextSafe, PTL DEF Spec

\* Type correctness of the Python extension.
THEOREM TypeCorrect == Spec => []TypeOK
<1>1. SafeInv => TypeOK
  BY DEF SafeInv
<1>. QED  BY <1>1, SafeInvariant, PTL

-----------------------------------------------------------------------------
(* The globals of the handlers.                                            *)

\* The numbering survives a step that draws no number.
LEMMA NumFrame ==
  ASSUME NumInv,
         \A op \in Ops : Drawn(op)' = Drawn(op) /\ Top(op)' = Top(op),
         \A op \in Ops : \A r \in Drawn(op) : number'[r] = number[r]
  PROVE  NumInv'
BY DEF NumInv

\* A step outside the bodies of the handlers changes nothing that NumInv and
\* TextInv speak of.
LEMMA StateFrame ==
  ASSUME NumInv, TextInv, UNCHANGED <<count, last, number>>,
         \A s \in Requests :
            /\ (pc'[s] \in {"release", "send", "done"} /\ V(s)'.kind = "run")
                 <=> (pc[s] \in {"release", "send", "done"} /\ V(s).kind = "run")
            /\ pc'[s] \in {"last", "respond"} <=> pc[s] \in {"last", "respond"}
            /\ pc'[s] = "respond" <=> pc[s] = "respond"
            /\ pc[s] \in {"last", "respond", "release", "send", "done"} => V(s)' = V(s)
  PROVE  NumInv' /\ TextInv'
<1>1. \A op \in Ops : Drawn(op)' = Drawn(op)
  BY DEF Drawn
<1>2. \A op \in Ops : Pending(op)' <=> Pending(op)
  BY DEF Pending
<1>3. \A op \in Ops : Top(op)' = Top(op)
  BY <1>2 DEF Top
<1>4. NumInv'
  BY <1>1, <1>3, NumFrame
<1>5. \A op \in Ops : \A s \in Drawn(op) : V(s)' = V(s)
  BY DEF Drawn
<1>6. TextInv'
  BY <1>1, <1>2, <1>5 DEF TextInv
<1>. QED  BY <1>4, <1>6

\* report_state's entries survive a step that changes no global.
LEMMA CopyFrame ==
  ASSUME CopyInv, UNCHANGED <<count, last>>,
         \A s \in Requests : pc'[s] = "report" =>
            \/ reads'[s] = 0
            \/ pc[s] = "report" /\ reads'[s] = reads[s] /\ snap'[s] = snap[s]
  PROVE  CopyInv'
<1> SUFFICES ASSUME NEW s \in Requests, pc'[s] = "report", NEW i \in 1 .. reads'[s]
             PROVE  Copied(s, ReportOrder[i])'
  BY DEF CopyInv
<1>1. reads'[s] # 0
  OBVIOUS
<1>2. Copied(s, ReportOrder[i]) /\ snap'[s] = snap[s]
  BY <1>1 DEF CopyInv
<1>. QED  BY <1>2 DEF Copied

\* Every step keeps the globals whole: the counters are exactly the numbers
\* drawn, and the texts those of the newest numbers.
LEMMA NextState == SafeInv /\ StateInv /\ [Next]_vars => StateInv'
<1> SUFFICES ASSUME SafeInv, StateInv, [Next]_vars PROVE StateInv'
  OBVIOUS
<1> USE DEF SafeInv, StateInv
<1>1. ASSUME NEW r \in Requests, NEW m \in Messages, Accept(r, m) PROVE StateInv'
  <2>1. /\ pc[r] = "idle" /\ pc'[r] = "parse"
        /\ \A s \in Requests : s # r => pc'[s] = pc[s] /\ V(s)' = V(s)
        /\ UNCHANGED <<count, last, number, snap, reads>>
    BY <1>1 DEF Accept, Goto, TypeOK, V, globals, locals
  <2>. QED  BY <2>1, StateFrame, CopyFrame
<1>2. ASSUME NEW r \in Requests, Parse(r) PROVE StateInv'
  <2>1. /\ pc[r] = "parse" /\ pc'[r] \in {"acquire", "send"}
        /\ pc'[r] = "send" => V(r).kind # "run"
        /\ \A s \in Requests : s # r => pc'[s] = pc[s]
        /\ UNCHANGED <<count, last, number, snap, reads>>
    BY <1>2 DEF Parse, Goto, TypeOK, globals, NeedsLock, V
  <2>2. \A s \in Requests : V(s)' = V(s)
    BY <1>2, VStable DEF Parse
  <2>. QED  BY <2>1, <2>2, StateFrame, CopyFrame
<1>3. ASSUME NEW r \in Requests, Acquire(r) PROVE StateInv'
  <2>1. /\ pc[r] = "acquire" /\ pc'[r] \in {"count", "report", "release"}
        /\ pc'[r] = "release" => V(r).kind # "run"
        /\ \A s \in Requests : s # r => pc'[s] = pc[s]
    <3>1. CASE V(r).kind = "run"
      BY <1>3, <3>1 DEF Acquire, Goto, TypeOK
    <3>2. CASE V(r).kind = "state"
      BY <1>3, <3>2 DEF Acquire, Goto, TypeOK
    <3>3. CASE V(r).kind \notin {"run", "state"}
      BY <1>3, <3>3 DEF Acquire, Goto, TypeOK
    <3>. QED  BY <3>1, <3>2, <3>3
  <2>2. UNCHANGED <<count, last, number, snap, reads>> /\ \A s \in Requests : V(s)' = V(s)
    BY <1>3, VStable DEF Acquire, globals
  <2>3. reads'[r] = 0
    BY <2>1, <2>2 DEF ControlInv
  <2>. QED  BY <2>1, <2>2, <2>3, StateFrame, CopyFrame
<1>4. ASSUME NEW r \in Requests, Increment(r) PROVE StateInv'
  <2>1. /\ pc[r] = "count" /\ pc'[r] = "last"
        /\ \A s \in Requests : s # r => pc'[s] = pc[s]
    BY <1>4 DEF Increment, Goto, TypeOK
  <2>2. UNCHANGED <<last, number, snap, reads>> /\ \A s \in Requests : V(s)' = V(s)
    BY <1>4, VStable DEF Increment, locals
  <2>3. \A s \in Requests : s # r => pc[s] \notin Holding
    BY <2>1 DEF LockInv, Holding
  <2>4. V(r).kind = "run" /\ V(r).op \in Ops
    BY <2>1, VType DEF ControlInv
  <2>5. /\ count \in [Ops -> Nat]
        /\ \A op \in Ops : count'[op] = IF op = V(r).op THEN count[op] + 1 ELSE count[op]
    BY <1>4 DEF Increment, TypeOK
  <2>6. \A op \in Ops : ~Pending(op) /\ (Pending(op)' <=> op = V(r).op)
    BY <2>1, <2>2, <2>3 DEF Pending, Holding
  <2>7. \A op \in Ops : Drawn(op)' = Drawn(op)
    BY <2>1, <2>2 DEF Drawn
  <2>8. \A op \in Ops : Top(op)' = Top(op)
    BY <2>5, <2>6 DEF Top
  <2>9. NumInv'
    BY <2>2, <2>7, <2>8, NumFrame
  <2>10. TextInv'
    <3>1. \A s \in Requests : pc'[s] # "respond"
      BY <2>1, <2>3 DEF Holding
    <3>. QED  BY <2>2, <2>5, <2>6, <2>7, <3>1 DEF TextInv, Drawn
  <2>11. CopyInv'
    BY <2>1, <2>3 DEF CopyInv, Holding
  <2>. QED  BY <2>9, <2>10, <2>11
<1>5. ASSUME NEW r \in Requests, SetLast(r) PROVE StateInv'
  <2>1. /\ pc[r] = "last" /\ pc'[r] = "respond"
        /\ \A s \in Requests : s # r => pc'[s] = pc[s]
    BY <1>5 DEF SetLast, Goto, TypeOK
  <2>2. UNCHANGED <<count, number, snap, reads>> /\ \A s \in Requests : V(s)' = V(s)
    BY <1>5, VStable DEF SetLast, locals
  <2>3. \A s \in Requests : s # r => pc[s] \notin Holding
    BY <2>1 DEF LockInv, Holding
  <2>4. V(r).kind = "run" /\ V(r).op \in Ops
    BY <2>1, VType DEF ControlInv
  <2>5. \A op \in Ops : last'[op] = IF op = V(r).op THEN V(r).name ELSE last[op]
    BY <1>5 DEF SetLast, TypeOK
  <2>6. \A op \in Ops : Pending(op)' <=> Pending(op)
    BY <2>1, <2>2 DEF Pending
  <2>7. Pending(V(r).op)
    BY <2>1 DEF Pending
  <2>8. \A op \in Ops : Drawn(op)' = Drawn(op) /\ Top(op)' = Top(op)
    <3>1. \A op \in Ops : Drawn(op)' = Drawn(op)
      BY <2>1, <2>2 DEF Drawn
    <3>. QED  BY <2>2, <2>6, <3>1 DEF Top
  <2>9. NumInv'
    BY <2>2, <2>8, NumFrame
  <2>10. TextInv'
    <3>1. \A s \in Requests : pc'[s] = "respond" => s = r
      BY <2>1, <2>3 DEF Holding
    <3>2. last'[V(r).op] = V(r).name
      BY <2>4, <2>5
    <3>3. \A op \in Ops : ~Pending(op)' => ~Pending(op) /\ last'[op] = last[op]
      BY <2>5, <2>6, <2>7
    <3>. QED  BY <2>2, <2>8, <3>1, <3>2, <3>3 DEF TextInv, Drawn
  <2>11. CopyInv'
    BY <2>1, <2>3 DEF CopyInv, Holding
  <2>. QED  BY <2>9, <2>10, <2>11
<1>6. ASSUME NEW r \in Requests, Respond(r) PROVE StateInv'
  <2>1. /\ pc[r] = "respond" /\ pc'[r] = "release"
        /\ \A s \in Requests : s # r => pc'[s] = pc[s]
    BY <1>6 DEF Respond, Goto, TypeOK
  <2>2. UNCHANGED <<count, last, snap, reads>> /\ \A s \in Requests : V(s)' = V(s)
    BY <1>6, VStable DEF Respond, globals
  <2>3. \A s \in Requests : s # r => pc[s] \notin Holding
    BY <2>1 DEF LockInv, Holding
  <2>4. V(r).kind = "run" /\ V(r).op \in Ops
    BY <2>1, VType DEF ControlInv
  <2>5. /\ count \in [Ops -> Nat] /\ number'[r] = count[V(r).op]
        /\ \A s \in Requests : s # r => number'[s] = number[s]
    BY <1>6 DEF Respond, TypeOK
  <2>6. \A op \in Ops : ~Pending(op)' /\ (Pending(op) <=> op = V(r).op)
    BY <2>1, <2>2, <2>3 DEF Pending, Holding
  <2>7. \A op \in Ops : r \notin Drawn(op)
    BY <2>1 DEF Drawn
  <2>8. \A op \in Ops :
          Drawn(op)' = IF op = V(r).op THEN Drawn(op) \cup {r} ELSE Drawn(op)
    BY <2>1, <2>2, <2>4 DEF Drawn
  <2> SUFFICES ASSUME NEW op \in Ops
               PROVE  /\ Top(op)' \in Nat
                      /\ \A q, s \in Drawn(op)' : number'[q] = number'[s] => q = s
                      /\ \A q \in Drawn(op)' : number'[q] \in 1 .. Top(op)'
                      /\ \A k \in 1 .. Top(op)' : \E q \in Drawn(op)' : number'[q] = k
                      /\ count'[op] = 0 => last'[op] = NoName
                      /\ \A q \in Drawn(op)' : number'[q] = count'[op] => V(q)'.name = last'[op]
    <3>1. CopyInv'
      BY <2>1, <2>3 DEF CopyInv, Holding
    <3>2. \A s \in Requests : pc'[s] # "respond"
      BY <2>1, <2>3 DEF Holding
    <3>. QED  BY <3>1, <3>2 DEF NumInv, TextInv
  <2>9. \A q \in Drawn(op) : q \in Requests /\ q # r /\ number'[q] = number[q]
    BY <2>5, <2>7 DEF Drawn
  <2>10. CASE op # V(r).op
    <3>1. Drawn(op)' = Drawn(op) /\ Top(op)' = Top(op) /\ ~Pending(op)
      BY <2>2, <2>6, <2>8, <2>10 DEF Top
    <3>. QED  BY <2>2, <2>9, <3>1 DEF NumInv, TextInv
  <2>11. CASE op = V(r).op
    <3>1. /\ number'[r] = count[op] /\ count[op] \in Nat
          /\ Top(op)' = count[op] /\ Top(op) = count[op] - 1 /\ Top(op) \in Nat
          /\ Drawn(op)' = Drawn(op) \cup {r}
      BY <2>2, <2>5, <2>6, <2>8, <2>11 DEF NumInv, Top
    <3>2. /\ \A q, s \in Drawn(op) : number[q] = number[s] => q = s
          /\ \A q \in Drawn(op) : number[q] \in 1 .. Top(op)
          /\ \A k \in 1 .. Top(op) : \E q \in Drawn(op) : number[q] = k
      BY DEF NumInv
    <3>3. \A q \in Drawn(op) : number'[q] \in 1 .. (count[op] - 1)
      BY <2>9, <3>1, <3>2
    <3>4. /\ \A q, s \in Drawn(op)' : number'[q] = number'[s] => q = s
          /\ \A q \in Drawn(op)' : number'[q] \in 1 .. Top(op)'
      BY <2>9, <3>1, <3>2, <3>3
    <3>5. \A k \in 1 .. Top(op)' : \E q \in Drawn(op)' : number'[q] = k
      BY <2>9, <3>1, <3>2
    <3>6. count'[op] # 0
      BY <2>2, <3>1
    <3>7. \A q \in Drawn(op)' : number'[q] = count'[op] => V(q)'.name = last'[op]
      <4>1. V(r).name = last[op]
        BY <2>1, <2>11 DEF TextInv
      <4>2. \A q \in Drawn(op) : number'[q] # count[op]
        BY <3>1, <3>3
      <4>. QED  BY <2>2, <3>1, <4>1, <4>2
    <3>. QED  BY <3>1, <3>4, <3>5, <3>6, <3>7
  <2>. QED  BY <2>10, <2>11
<1>7. ASSUME NEW r \in Requests, ReportField(r) PROVE StateInv'
  <2>1. /\ pc[r] = "report" /\ V(r).kind = "state" /\ reads[r] \in 0 .. 3
        /\ reads'[r] = reads[r] + 1
        /\ pc'[r] \in {"release", "report"}
        /\ \A s \in Requests : s # r => pc'[s] = pc[s] /\ snap'[s] = snap[s]
                                        /\ reads'[s] = reads[s]
        /\ \A i \in 1 .. (reads[r] + 1) :
             i = reads[r] + 1 \/ Copied(r, ReportOrder[i]) => Copied(r, ReportOrder[i])'
        /\ UNCHANGED <<msg, count, last, number>>
    BY <1>7, Reported DEF globals
  <2>2. \A s \in Requests : V(s)' = V(s)
    BY <2>1, VStable
  <2>3. NumInv' /\ TextInv'
    BY <2>1, <2>2, StateFrame
  <2>4. CopyInv'
    <3> SUFFICES ASSUME NEW s \in Requests, pc'[s] = "report", NEW i \in 1 .. reads'[s]
                 PROVE  Copied(s, ReportOrder[i])'
      BY DEF CopyInv
    <3>1. CASE s = r
      BY <2>1, <3>1 DEF CopyInv
    <3>2. CASE s # r
      BY <2>1, <3>2 DEF CopyInv, Copied
    <3>. QED  BY <3>1, <3>2
  <2>. QED  BY <2>3, <2>4
<1>8. ASSUME NEW r \in Requests, Release(r) PROVE StateInv'
  <2>1. /\ pc[r] = "release" /\ pc'[r] = "send"
        /\ \A s \in Requests : s # r => pc'[s] = pc[s]
        /\ UNCHANGED <<count, last, number, snap, reads>>
    BY <1>8 DEF Release, Goto, TypeOK, globals, locals
  <2>2. \A s \in Requests : V(s)' = V(s)
    BY <1>8, VStable DEF Release
  <2>. QED  BY <2>1, <2>2, StateFrame, CopyFrame
<1>9. ASSUME NEW r \in Requests, Send(r) PROVE StateInv'
  <2>1. /\ pc[r] = "send" /\ pc'[r] = "done"
        /\ \A s \in Requests : s # r => pc'[s] = pc[s]
        /\ UNCHANGED <<count, last, number, snap, reads>>
    BY <1>9 DEF Send, Goto, TypeOK, globals, locals
  <2>2. \A s \in Requests : V(s)' = V(s)
    BY <1>9, VStable DEF Send
  <2>. QED  BY <2>1, <2>2, StateFrame, CopyFrame
<1>10. CASE UNCHANGED vars
  <2>1. UNCHANGED <<pc, count, last, number, snap, reads>> /\ \A s \in Requests : V(s)' = V(s)
    BY <1>10, VStable DEF vars
  <2>. QED  BY <2>1, StateFrame, CopyFrame
<1>. QED
  BY <1>1, <1>2, <1>3, <1>4, <1>5, <1>6, <1>7, <1>8, <1>9, <1>10
  DEF Next, Step, AllServed

\* The whole invariant in every reachable state.
THEOREM StateInvariant == Spec => [](SafeInv /\ StateInv)
<1>1. Init => SafeInv /\ StateInv
  BY InitInv
<1>2. SafeInv /\ StateInv /\ [Next]_vars => (SafeInv /\ StateInv)'
  BY NextSafe, NextState
<1>. QED  BY <1>1, <1>2, PTL DEF Spec

\* With the lock free, the requests answered with a result are those that have
\* read their number back.
LEMMA ServedAreDrawn ==
  ASSUME SafeInv, lock = NoOne, NEW op \in Ops
  PROVE  {r \in Requests : /\ pc[r] \in {"send", "done"}
                           /\ Response(r).status = "ok"
                           /\ Response(r).op = op} = Drawn(op)
<1>1. \A r \in Requests : pc[r] \notin Holding
  BY NoOneAssumption DEF SafeInv, LockInv
<1>2. ASSUME NEW r \in Requests
      PROVE  (Response(r).status = "ok" /\ Response(r).op = op)
               <=> (V(r).kind = "run" /\ V(r).op = op)
  <2>1. CASE raised[r]
    BY <2>1 DEF Response, NoAnswer, SafeInv, ControlInv
  <2>2. CASE ~raised[r]
    BY <2>2, AnswerStatus, VType DEF Response, SafeInv
  <2>. QED  BY <2>1, <2>2
<1>. QED  BY <1>1, <1>2 DEF Drawn, Holding

\* A handler that raises under Server._lock neither keeps the lock nor
\* half-applies: whenever the lock is free, the counters are exactly the
\* successful requests and each last text belongs to the newest number.
THEOREM ExceptionSafety == Spec => []ExceptionsLeaveStateWhole
<1>1. ASSUME SafeInv, StateInv PROVE ExceptionsLeaveStateWhole
  <2> SUFFICES ASSUME lock = NoOne, NEW op \in Ops
               PROVE  /\ {number[r] : r \in Drawn(op)} = 1 .. count[op]
                      /\ count[op] = 0 => last[op] = NoName
                      /\ \A r \in Drawn(op) : number[r] = count[op] => V(r).name = last[op]
    BY <1>1, ServedAreDrawn DEF ExceptionsLeaveStateWhole
  <2>1. ~Pending(op)
    <3>1. \A r \in Requests : pc[r] \notin Holding
      BY <1>1, NoOneAssumption DEF SafeInv, LockInv
    <3>. QED  BY <3>1 DEF Pending, Holding
  <2>2. Top(op) = count[op]
    BY <2>1 DEF Top
  <2>3. {number[r] : r \in Drawn(op)} = 1 .. count[op]
    BY <1>1, <2>2 DEF StateInv, NumInv
  <2>. QED  BY <1>1, <2>1, <2>3 DEF StateInv, TextInv
<1>. QED  BY <1>1, StateInvariant, PTL

-----------------------------------------------------------------------------
(* The refinement.                                                         *)

\* A handler of op has incremented the counter but not stored the text.
Mid(op) == \E r \in Requests : pc[r] = "last" /\ V(r).op = op

\* The contract speaks of requests, states and answers in the same terms.
LEMMA Vocabulary ==
  /\ Contract!NoMessage = NoMessage /\ Contract!NoAnswer = NoAnswer
  /\ Contract!ZeroCount = ZeroCount /\ Contract!NoLast = NoLast
  /\ Contract!ZeroSnap = ZeroSnap
  /\ \A v, n, s : Contract!AnswerOf(v, n, s) = AnswerOf(v, n, s)
<1>1. /\ Contract!NoMessage = NoMessage /\ Contract!ZeroCount = ZeroCount
      /\ Contract!NoLast = NoLast
  BY DEF Contract!NoMessage, NoMessage, Contract!ZeroCount, ZeroCount, Contract!Ops,
         Ops, Contract!NoLast, NoLast
<1>2. Contract!ZeroSnap = ZeroSnap
  BY <1>1 DEF Contract!ZeroSnap, ZeroSnap
<1>3. Contract!NoAnswer = NoAnswer
  BY <1>2 DEF Contract!NoAnswer, NoAnswer, Contract!NoOp, NoOp
<1>4. \A v, n, s : Contract!AnswerOf(v, n, s) = AnswerOf(v, n, s)
  BY <1>3 DEF Contract!AnswerOf, AnswerOf
<1>. QED  BY <1>1, <1>2, <1>3, <1>4

\* An exception is answered like the verdict it comes from: not at all.
LEMMA Unwound ==
  ASSUME NEW v, NEW e, NEW n, NEW s, e => v.kind = "raise"
  PROVE  (IF e THEN NoAnswer ELSE AnswerOf(v, n, s)) = AnswerOf(v, n, s)
BY DEF AnswerOf

\* A step that leaves the abstract view of every request and of the counters
\* alone is a stutter of the contract.
LEMMA Stutter ==
  ASSUME UNCHANGED <<msg, last>>, AbstractCount' = AbstractCount,
         \A s \in Requests : /\ AbstractPhase(s)' = AbstractPhase(s)
                             /\ AbstractAnswer(s)' = AbstractAnswer(s)
  PROVE  UNCHANGED Contract!vars
BY DEF Contract!vars

\* A thread that does not move is seen where it was, as long as nobody changes
\* the counter it is about to read back.
LEMMA OthersUnseen ==
  ASSUME NEW s \in Requests, pc'[s] = pc[s], V(s)' = V(s), number'[s] = number[s],
         snap'[s] = snap[s], raised'[s] = raised[s],
         pc[s] = "respond" => count'[V(s).op] = count[V(s).op]
  PROVE  AbstractPhase(s)' = AbstractPhase(s) /\ AbstractAnswer(s)' = AbstractAnswer(s)
BY DEF AbstractPhase, AbstractAnswer, Executed, Response

\* The counters the contract sees stay while no counter changes and no handler
\* starts or ends.
LEMMA CountUnseen ==
  ASSUME UNCHANGED count, \A op \in Ops : Mid(op)' <=> Mid(op)
  PROVE  AbstractCount' = AbstractCount
BY DEF AbstractCount, Mid

\* The contract's step for a request that takes effect, from what is seen.
LEMMA Executes ==
  ASSUME NEW r \in Requests, UNCHANGED msg,
         AbstractPhase(r) = "received", AbstractPhase(r)' = "executed",
         \A s \in Requests : s # r => /\ AbstractPhase(s)' = AbstractPhase(s)
                                      /\ AbstractAnswer(s)' = AbstractAnswer(s),
         IF V(r).kind = "run"
         THEN /\ AbstractCount' = [AbstractCount EXCEPT ![V(r).op] = @ + 1]
              /\ last' = [last EXCEPT ![V(r).op] = V(r).name]
              /\ AbstractAnswer(r)' = AnswerOf(V(r), AbstractCount[V(r).op] + 1, ZeroSnap)
         ELSE /\ AbstractCount' = AbstractCount /\ last' = last
              /\ AbstractAnswer(r)' =
                   AnswerOf(V(r), 0, [count |-> AbstractCount, last |-> last])
  PROVE  Contract!Execute(r)
<1> DEFINE ph == [s \in Requests |-> AbstractPhase(s)]
           an == [s \in Requests |-> AbstractAnswer(s)]
<1>1. ph[r] = "received" /\ ph' = [ph EXCEPT ![r] = "executed"]
  OBVIOUS
<1>2. an' = [an EXCEPT ![r] = AbstractAnswer(r)']
  OBVIOUS
<1>3. handle_request(msg[r]) = V(r)
  BY DEF V
<1>4. CASE V(r).kind = "run"
  <2>1. AnswerOf(V(r), AbstractCount[V(r).op] + 1, ZeroSnap)
          = Contract!AnswerOf(V(r), AbstractCount[V(r).op] + 1, Contract!ZeroSnap)
    BY Vocabulary
  <2>2. an' = [an EXCEPT ![r] =
                 Contract!AnswerOf(V(r), AbstractCount[V(r).op] + 1, Contract!ZeroSnap)]
    BY <1>2, <1>4, <2>1
  <2>3. /\ AbstractCount' = [AbstractCount EXCEPT ![V(r).op] = @ + 1]
        /\ last' = [last EXCEPT ![V(r).op] = V(r).name]
    BY <1>4
  <2>. QED  BY <1>1, <1>3, <1>4, <2>2, <2>3 DEF Contract!Execute
<1>5. CASE V(r).kind # "run"
  <2> DEFINE now == [count |-> AbstractCount, last |-> last]
  <2>1. AnswerOf(V(r), 0, now) = Contract!AnswerOf(V(r), 0, now)
    BY Vocabulary
  <2>2. an' = [an EXCEPT ![r] = Contract!AnswerOf(V(r), 0, now)]
    BY <1>2, <1>5, <2>1
  <2>3. AbstractCount' = AbstractCount /\ last' = last
    BY <1>5
  <2>. QED  BY <1>1, <1>3, <1>5, <2>2, <2>3 DEF Contract!Execute
<1>. QED  BY <1>4, <1>5

\* An idle server is an idle contract.
LEMMA InitRefines == Init => Contract!Init
<1> SUFFICES ASSUME Init PROVE Contract!Init
  OBVIOUS
<1>1. \A r \in Requests : AbstractPhase(r) = "idle" /\ AbstractAnswer(r) = NoAnswer
  BY DEF Init, AbstractPhase, AbstractAnswer, Executed
<1>2. AbstractCount = ZeroCount
  BY DEF Init, AbstractCount, ZeroCount
<1>. QED  BY <1>1, <1>2, Vocabulary DEF Init, Contract!Init

\* Every step of the server is a step of the contract, or none.
LEMMA NextRefines ==
  SafeInv /\ StateInv /\ [Next]_vars => [Contract!Next]_(Contract!vars)
<1> SUFFICES ASSUME SafeInv, StateInv, [Next]_vars
             PROVE  Contract!Next \/ UNCHANGED Contract!vars
  OBVIOUS
<1> USE DEF SafeInv
<1>0. SafeInv'
  BY NextSafe
<1>a. \A r \in Requests : Response(r)' = AnswerOf(V(r)', number'[r], snap'[r])
  BY <1>0, Unwound DEF ControlInv, Response
<1>1. ASSUME NEW r \in Requests, NEW m \in Messages, Accept(r, m) PROVE Contract!Next
  <2>1. /\ pc[r] = "idle" /\ pc'[r] = "parse"
        /\ \A s \in Requests : s # r => pc'[s] = pc[s] /\ V(s)' = V(s)
        /\ UNCHANGED <<count, last, number, snap, raised>>
    BY <1>1 DEF Accept, Goto, TypeOK, V, globals, locals
  <2>2. \A s \in Requests : s # r => AbstractPhase(s)' = AbstractPhase(s)
                                     /\ AbstractAnswer(s)' = AbstractAnswer(s)
    BY <2>1, OthersUnseen
  <2>3. /\ AbstractPhase(r) = "idle" /\ AbstractPhase(r)' = "received"
        /\ AbstractAnswer(r)' = AbstractAnswer(r)
    BY <2>1 DEF AbstractPhase, AbstractAnswer, Executed
  <2>4. AbstractCount' = AbstractCount
    <3>1. \A op \in Ops : Mid(op)' <=> Mid(op)
      BY <2>1 DEF Mid
    <3>. QED  BY <2>1, <3>1, CountUnseen
  <2>5. msg' = [msg EXCEPT ![r] = m]
    BY <1>1 DEF Accept
  <2>6. Contract!Receive(r, m)
    BY <2>1, <2>2, <2>3, <2>4, <2>5 DEF Contract!Receive
  <2>. QED  BY <2>6 DEF Contract!Next
<1>2. ASSUME NEW r \in Requests, UNCHANGED <<msg, count, last, number, snap>>,
             pc[r] \in {"parse", "acquire"},
             \A s \in Requests : s # r => pc'[s] = pc[s] /\ raised'[s] = raised[s],
             \/ pc'[r] \in {"acquire", "count", "report"}
             \/ pc'[r] \in {"release", "send"} /\ V(r).kind \notin {"run", "state"}
      PROVE  Contract!Next \/ UNCHANGED Contract!vars
  <2>1. \A s \in Requests : V(s)' = V(s)
    BY <1>2, VStable
  <2>2. \A s \in Requests : s # r => AbstractPhase(s)' = AbstractPhase(s)
                                     /\ AbstractAnswer(s)' = AbstractAnswer(s)
    BY <1>2, <2>1, OthersUnseen
  <2>3. AbstractCount' = AbstractCount
    <3>1. \A op \in Ops : Mid(op)' <=> Mid(op)
      BY <1>2, <2>1 DEF Mid
    <3>. QED  BY <1>2, <3>1, CountUnseen
  <2>4. AbstractPhase(r) = "received" /\ AbstractAnswer(r) = NoAnswer
    BY <1>2 DEF AbstractPhase, AbstractAnswer, Executed
  <2>5. CASE pc'[r] \in {"acquire", "count", "report"}
    <3>1. AbstractPhase(r)' = "received" /\ AbstractAnswer(r)' = NoAnswer
      BY <2>5 DEF AbstractPhase, AbstractAnswer, Executed
    <3>. QED  BY <1>2, <2>2, <2>3, <2>4, <3>1, Stutter
  <2>6. CASE pc'[r] \in {"release", "send"} /\ V(r).kind \notin {"run", "state"}
    <3>1. AbstractPhase(r)' = "executed" /\ AbstractAnswer(r)' = Response(r)'
      BY <2>6 DEF AbstractPhase, AbstractAnswer, Executed
    <3>2. AbstractAnswer(r)' = AnswerOf(V(r), number[r], snap[r])
      BY <1>2, <1>a, <2>1, <3>1
    <3>3. AbstractAnswer(r)' = AnswerOf(V(r), 0, [count |-> AbstractCount, last |-> last])
      BY <2>6, <3>2, AnswerDepends, VType
    <3>4. Contract!Execute(r)
      BY <1>2, <2>2, <2>3, <2>4, <2>6, <3>1, <3>3, Executes
    <3>. QED  BY <3>4 DEF Contract!Next
  <2>. QED  BY <1>2, <2>5, <2>6
<1>3. ASSUME NEW r \in Requests, Parse(r)
      PROVE  Contract!Next \/ UNCHANGED Contract!vars
  <2>1. /\ pc[r] = "parse" /\ pc'[r] \in {"acquire", "send"}
        /\ pc'[r] = "send" => V(r).kind \notin {"run", "state"}
        /\ \A s \in Requests : s # r => pc'[s] = pc[s] /\ raised'[s] = raised[s]
        /\ UNCHANGED <<msg, count, last, number, snap>>
    BY <1>3 DEF Parse, Goto, TypeOK, globals, NeedsLock, V
  <2>. QED  BY <1>2, <2>1
<1>4. ASSUME NEW r \in Requests, Acquire(r)
      PROVE  Contract!Next \/ UNCHANGED Contract!vars
  <2>1. /\ pc[r] = "acquire" /\ pc'[r] \in {"count", "report", "release"}
        /\ pc'[r] = "release" => V(r).kind \notin {"run", "state"}
        /\ \A s \in Requests : s # r => pc'[s] = pc[s]
    <3>1. CASE V(r).kind = "run"
      BY <1>4, <3>1 DEF Acquire, Goto, TypeOK
    <3>2. CASE V(r).kind = "state"
      BY <1>4, <3>2 DEF Acquire, Goto, TypeOK
    <3>3. CASE V(r).kind \notin {"run", "state"}
      BY <1>4, <3>3 DEF Acquire, Goto, TypeOK
    <3>. QED  BY <3>1, <3>2, <3>3
  <2>2. /\ \A s \in Requests : s # r => raised'[s] = raised[s]
        /\ UNCHANGED <<msg, count, last, number, snap>>
    BY <1>4 DEF Acquire, TypeOK, globals
  <2>. QED  BY <1>2, <2>1, <2>2
<1>5. ASSUME NEW r \in Requests, Increment(r) PROVE UNCHANGED Contract!vars
  <2>1. /\ pc[r] = "count" /\ pc'[r] = "last"
        /\ \A s \in Requests : s # r => pc'[s] = pc[s]
    BY <1>5 DEF Increment, Goto, TypeOK
  <2>2. UNCHANGED <<msg, last, number, snap, raised>> /\ \A s \in Requests : V(s)' = V(s)
    BY <1>5, VStable DEF Increment, locals
  <2>3. \A s \in Requests : s # r => pc[s] \notin Holding
    BY <2>1 DEF LockInv, Holding
  <2>4. V(r).op \in Ops
    BY <2>1, VType DEF ControlInv
  <2>5. /\ count \in [Ops -> Nat]
        /\ \A op \in Ops : count'[op] = IF op = V(r).op THEN count[op] + 1 ELSE count[op]
    BY <1>5 DEF Increment, TypeOK
  <2>6. \A op \in Ops : ~Mid(op) /\ (Mid(op)' <=> op = V(r).op)
    BY <2>1, <2>2, <2>3 DEF Mid, Holding
  <2>7. AbstractCount' = AbstractCount
    <3>1. \A op \in Ops : (IF Mid(op)' THEN count'[op] - 1 ELSE count'[op])
                          = (IF Mid(op) THEN count[op] - 1 ELSE count[op])
      BY <2>5, <2>6
    <3>. QED  BY <3>1 DEF AbstractCount, Mid
  <2>8. \A s \in Requests : s # r => AbstractPhase(s)' = AbstractPhase(s)
                                     /\ AbstractAnswer(s)' = AbstractAnswer(s)
    BY <2>1, <2>2, <2>3, OthersUnseen DEF Holding
  <2>9. AbstractPhase(r)' = AbstractPhase(r) /\ AbstractAnswer(r)' = AbstractAnswer(r)
    BY <2>1 DEF AbstractPhase, AbstractAnswer, Executed
  <2>. QED  BY <2>2, <2>7, <2>8, <2>9, Stutter
<1>6. ASSUME NEW r \in Requests, SetLast(r) PROVE Contract!Next
  <2>1. /\ pc[r] = "last" /\ pc'[r] = "respond"
        /\ \A s \in Requests : s # r => pc'[s] = pc[s]
    BY <1>6 DEF SetLast, Goto, TypeOK
  <2>2. UNCHANGED <<msg, count, number, snap, raised>> /\ \A s \in Requests : V(s)' = V(s)
    BY <1>6, VStable DEF SetLast, locals
  <2>3. \A s \in Requests : s # r => pc[s] \notin Holding
    BY <2>1 DEF LockInv, Holding
  <2>4. V(r).kind = "run" /\ V(r).op \in Ops /\ count \in [Ops -> Nat]
    BY <2>1, VType DEF ControlInv, TypeOK
  <2>5. \A op \in Ops : ~Mid(op)' /\ (Mid(op) <=> op = V(r).op)
    BY <2>1, <2>2, <2>3, <2>4 DEF Mid, Holding
  <2>6. /\ AbstractCount' = [AbstractCount EXCEPT ![V(r).op] = @ + 1]
        /\ AbstractCount[V(r).op] + 1 = count[V(r).op]
    <3>1. AbstractCount = [op \in Ops |-> IF op = V(r).op THEN count[op] - 1 ELSE count[op]]
      BY <2>5 DEF AbstractCount, Mid
    <3>2. AbstractCount' = [op \in Ops |-> count[op]]
      BY <2>2, <2>5 DEF AbstractCount, Mid
    <3>. QED  BY <2>4, <3>1, <3>2
  <2>7. \A s \in Requests : s # r => AbstractPhase(s)' = AbstractPhase(s)
                                     /\ AbstractAnswer(s)' = AbstractAnswer(s)
    BY <2>1, <2>2, OthersUnseen
  <2>8. AbstractPhase(r) = "received" /\ AbstractPhase(r)' = "executed"
    BY <2>1 DEF AbstractPhase, Executed
  <2>9. AbstractAnswer(r)' = AnswerOf(V(r), AbstractCount[V(r).op] + 1, ZeroSnap)
    BY <2>1, <2>2, <2>6 DEF AbstractAnswer
  <2>10. Contract!Execute(r)
    BY <1>6, <2>2, <2>4, <2>6, <2>7, <2>8, <2>9, Executes DEF SetLast
  <2>. QED  BY <2>10 DEF Contract!Next
<1>7. ASSUME NEW r \in Requests, Respond(r) PROVE UNCHANGED Contract!vars
  <2>1. /\ pc[r] = "respond" /\ pc'[r] = "release" /\ number'[r] = count[V(r).op]
        /\ \A s \in Requests : s # r => pc'[s] = pc[s] /\ number'[s] = number[s]
    BY <1>7 DEF Respond, Goto, TypeOK
  <2>2. UNCHANGED <<msg, count, last, snap, raised>> /\ \A s \in Requests : V(s)' = V(s)
    BY <1>7, VStable DEF Respond, globals
  <2>3. AbstractCount' = AbstractCount
    <3>1. \A op \in Ops : Mid(op)' <=> Mid(op)
      BY <2>1, <2>2 DEF Mid
    <3>. QED  BY <2>2, <3>1, CountUnseen
  <2>4. \A s \in Requests : s # r => AbstractPhase(s)' = AbstractPhase(s)
                                     /\ AbstractAnswer(s)' = AbstractAnswer(s)
    BY <2>1, <2>2, OthersUnseen
  <2>5. AbstractPhase(r)' = AbstractPhase(r)
    BY <2>1 DEF AbstractPhase, Executed
  <2>6. AbstractAnswer(r)' = AbstractAnswer(r)
    <3>1. AbstractAnswer(r) = AnswerOf(V(r), count[V(r).op], ZeroSnap)
      BY <2>1 DEF AbstractAnswer
    <3>2. AbstractAnswer(r)' = AnswerOf(V(r), count[V(r).op], snap[r])
      <4>1. AbstractAnswer(r)' = Response(r)'
        BY <2>1 DEF AbstractAnswer, Executed
      <4>. QED  BY <1>a, <2>1, <2>2, <4>1
    <3>3. V(r).kind = "run" /\ V(r) \in Verdict
      BY <2>1, VType DEF ControlInv
    <3>. QED  BY <3>1, <3>2, <3>3, AnswerDepends
  <2>. QED  BY <2>2, <2>3, <2>4, <2>5, <2>6, Stutter
<1>8. ASSUME NEW r \in Requests, ReportField(r)
      PROVE  Contract!Next \/ UNCHANGED Contract!vars
  <2>1. /\ pc[r] = "report" /\ V(r).kind = "state" /\ reads[r] \in 0 .. 3
        /\ pc'[r] = IF reads[r] = 3 THEN "release" ELSE "report"
        /\ \A s \in Requests : s # r => pc'[s] = pc[s] /\ snap'[s] = snap[s]
        /\ \A i \in 1 .. (reads[r] + 1) :
             i = reads[r] + 1 \/ Copied(r, ReportOrder[i]) => Copied(r, ReportOrder[i])'
        /\ UNCHANGED <<msg, count, last, number, raised>>
    BY <1>8, Reported DEF globals
  <2>2. \A s \in Requests : V(s)' = V(s)
    BY <2>1, VStable
  <2>3. AbstractCount' = AbstractCount
    <3>1. \A op \in Ops : Mid(op)' <=> Mid(op)
      BY <2>1, <2>2 DEF Mid
    <3>. QED  BY <2>1, <3>1, CountUnseen
  <2>4. \A s \in Requests : s # r => AbstractPhase(s)' = AbstractPhase(s)
                                     /\ AbstractAnswer(s)' = AbstractAnswer(s)
    BY <2>1, <2>2, OthersUnseen
  <2>5. AbstractPhase(r) = "received" /\ AbstractAnswer(r) = NoAnswer
    BY <2>1 DEF AbstractPhase, AbstractAnswer, Executed
  <2>6. CASE reads[r] # 3
    <3>1. AbstractPhase(r)' = "received" /\ AbstractAnswer(r)' = NoAnswer
      BY <2>1, <2>6 DEF AbstractPhase, AbstractAnswer, Executed
    <3>. QED  BY <2>1, <2>3, <2>4, <2>5, <3>1, Stutter
  <2>7. CASE reads[r] = 3
    <3>1. pc'[r] = "release"
      BY <2>1, <2>7
    <3>2. /\ AbstractPhase(r)' = "executed"
          /\ AbstractAnswer(r)' = AnswerOf(V(r), number[r], snap'[r])
      BY <1>a, <2>1, <2>2, <3>1 DEF AbstractPhase, AbstractAnswer, Executed
    <3>3. AbstractCount = count
      <4>1. \A op \in Ops : ~Mid(op)
        BY <2>1 DEF Mid, LockInv, Holding
      <4>. QED  BY <4>1 DEF AbstractCount, Mid, TypeOK
    <3>4. \A i \in 1 .. 4 : Copied(r, ReportOrder[i])'
      BY <2>1, <2>7 DEF StateInv, CopyInv
    <3>5. \A op \in Ops : snap'[r].count[op] = count[op] /\ snap'[r].last[op] = last[op]
      <4>1. /\ ReportOrder[1] = <<"count", "SAY_HELLO">>
            /\ ReportOrder[2] = <<"last", "SAY_HELLO">>
            /\ ReportOrder[3] = <<"count", "SAY_GOODBYE">>
            /\ ReportOrder[4] = <<"last", "SAY_GOODBYE">>
        BY DEF ReportOrder
      <4>2. /\ snap'[r].count["SAY_HELLO"] = count["SAY_HELLO"]
            /\ snap'[r].last["SAY_HELLO"] = last["SAY_HELLO"]
            /\ snap'[r].count["SAY_GOODBYE"] = count["SAY_GOODBYE"]
            /\ snap'[r].last["SAY_GOODBYE"] = last["SAY_GOODBYE"]
        BY <2>1, <3>4, <4>1 DEF Copied
      <4>. QED  BY <4>2 DEF Ops
    <3>6. snap'[r] = [count |-> AbstractCount, last |-> last]
      <4>1. snap'[r] \in Snapshot /\ count \in [Ops -> Nat] /\ last \in [Ops -> Texts]
        BY <1>0 DEF TypeOK
      <4>2. snap'[r].count = count /\ snap'[r].last = last
        BY <3>5, <4>1 DEF Snapshot
      <4>. QED  BY <3>3, <4>1, <4>2 DEF Snapshot
    <3>7. AbstractAnswer(r)' = AnswerOf(V(r), 0, [count |-> AbstractCount, last |-> last])
      BY <2>1, <3>2, <3>6, AnswerDepends, VType
    <3>8. Contract!Execute(r)
      BY <2>1, <2>3, <2>4, <2>5, <3>2, <3>7, Executes
    <3>. QED  BY <3>8 DEF Contract!Next
  <2>. QED  BY <2>6, <2>7
<1>9. ASSUME NEW r \in Requests, Release(r) PROVE UNCHANGED Contract!vars
  <2>1. /\ pc[r] = "release" /\ pc'[r] = "send"
        /\ \A s \in Requests : s # r => pc'[s] = pc[s]
        /\ UNCHANGED <<msg, count, last, number, snap, raised>>
    BY <1>9 DEF Release, Goto, TypeOK, globals, locals
  <2>2. \A s \in Requests : V(s)' = V(s)
    BY <2>1, VStable
  <2>3. AbstractCount' = AbstractCount
    <3>1. \A op \in Ops : Mid(op)' <=> Mid(op)
      BY <2>1, <2>2 DEF Mid
    <3>. QED  BY <2>1, <3>1, CountUnseen
  <2>4. \A s \in Requests : s # r => AbstractPhase(s)' = AbstractPhase(s)
                                     /\ AbstractAnswer(s)' = AbstractAnswer(s)
    BY <2>1, <2>2, OthersUnseen
  <2>5. AbstractPhase(r)' = AbstractPhase(r) /\ AbstractAnswer(r)' = AbstractAnswer(r)
    BY <2>1, <2>2 DEF AbstractPhase, AbstractAnswer, Executed, Response
  <2>. QED  BY <2>1, <2>3, <2>4, <2>5, Stutter
<1>10. ASSUME NEW r \in Requests, Send(r) PROVE Contract!Next
  <2>1. /\ pc[r] = "send" /\ pc'[r] = "done"
        /\ \A s \in Requests : s # r => pc'[s] = pc[s]
        /\ UNCHANGED <<msg, count, last, number, snap, raised>>
    BY <1>10 DEF Send, Goto, TypeOK, globals, locals
  <2>2. \A s \in Requests : V(s)' = V(s)
    BY <2>1, VStable
  <2>3. AbstractCount' = AbstractCount
    <3>1. \A op \in Ops : Mid(op)' <=> Mid(op)
      BY <2>1, <2>2 DEF Mid
    <3>. QED  BY <2>1, <3>1, CountUnseen
  <2>4. \A s \in Requests : s # r => AbstractPhase(s)' = AbstractPhase(s)
                                     /\ AbstractAnswer(s)' = AbstractAnswer(s)
    BY <2>1, <2>2, OthersUnseen
  <2>5. /\ AbstractPhase(r) = "executed" /\ AbstractPhase(r)' = "done"
        /\ AbstractAnswer(r)' = AbstractAnswer(r)
    BY <2>1, <2>2 DEF AbstractPhase, AbstractAnswer, Executed, Response
  <2>6. Contract!Reply(r)
    BY <2>1, <2>3, <2>4, <2>5 DEF Contract!Reply
  <2>. QED  BY <2>6 DEF Contract!Next
<1>11. CASE UNCHANGED vars
  <2>1. UNCHANGED <<pc, msg, count, last, number, snap, raised>>
        /\ \A s \in Requests : V(s)' = V(s)
    BY <1>11, VStable DEF vars
  <2>2. \A s \in Requests : AbstractPhase(s)' = AbstractPhase(s)
                            /\ AbstractAnswer(s)' = AbstractAnswer(s)
    BY <2>1, OthersUnseen
  <2>3. AbstractCount' = AbstractCount
    BY <2>1 DEF AbstractCount
  <2>. QED  BY <2>1, <2>2, <2>3, Stutter
<1>. QED
  BY <1>1, <1>3, <1>4, <1>5, <1>6, <1>7, <1>8, <1>9, <1>10, <1>11
  DEF Next, Step, AllServed

\* The Python server implements the contract, exceptions included: each
\* request takes effect at one instant between its arrival and its answer, or
\* the end of its connection.
THEOREM PyImplementsContract == Spec => RefinesContract
<1>1. Init => Contract!Init
  BY InitRefines
<1>2. SafeInv /\ StateInv /\ [Next]_vars => [Contract!Next]_(Contract!vars)
  BY NextRefines
<1>. QED  BY <1>1, <1>2, StateInvariant, PTL DEF Spec, RefinesContract, Contract!Spec
=============================================================================
