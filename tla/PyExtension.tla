---------------------------- MODULE PyExtension ----------------------------
(***************************************************************************)
(* The Python extension server: ThreadingHTTPServer gives every request a  *)
(* thread; base/server.py parses the request outside Server._lock and      *)
(* calls the handler, or report_state, inside it.  Handlers therefore run  *)
(* their decoding under the lock, and an exception in one of them leaves   *)
(* through the with statement: the lock is released, the thread ends, and  *)
(* socketserver closes the connection without an answer.                   *)
(***************************************************************************)
EXTENDS PyDispatch

CONSTANTS
    Messages,   \* the requests considered, a subset of Message
    NoOne       \* no thread holds the lock

ASSUME MessagesAssumption == Messages \subseteq Message
ASSUME NoOneAssumption == NoOne \notin Requests

VARIABLES
    pc,         \* where each request's thread is
    msg,        \* the request it serves
    lock,       \* Server._lock: the thread holding it
    count,      \* _greeting_count, _farewell_count
    last,       \* _last_greeting, _last_farewell
    number,     \* the number put into the handler's response
    snap,       \* the dict report_state returns
    reads,      \* how many of its entries are evaluated
    raised      \* an exception is unwinding the request

vars == <<pc, msg, lock, count, last, number, snap, reads, raised>>
globals == <<count, last>>
locals == <<number, snap, reads, raised>>

V(r) == handle_request(msg[r])

\* The request gets as far as a handler or report_state.
NeedsLock(m) ==
    \/ handle_request(m).kind \in {"run", "fail", "state"}
    \/ /\ handle_request(m).kind = "raise"
       /\ m.fixed \notin {"notString", "notObject"}
       /\ "notString" \notin {m.opType, m.opCommand}

\* The order of report_state's entries.
ReportOrder ==
    << <<"count", "SAY_HELLO">>, <<"last", "SAY_HELLO">>,
       <<"count", "SAY_GOODBYE">>, <<"last", "SAY_GOODBYE">> >>

-----------------------------------------------------------------------------
Init ==
    /\ pc = [r \in Requests |-> "idle"]
    /\ msg = [r \in Requests |-> NoMessage]
    /\ lock = NoOne
    /\ count = ZeroCount
    /\ last = NoLast
    /\ number = [r \in Requests |-> 0]
    /\ snap = [r \in Requests |-> ZeroSnap]
    /\ reads = [r \in Requests |-> 0]
    /\ raised = [r \in Requests |-> FALSE]

Goto(r, from, to) == pc[r] = from /\ pc' = [pc EXCEPT ![r] = to]

\* ThreadingHTTPServer starts a thread for the request.
Accept(r, m) ==
    /\ Goto(r, "idle", "parse")
    /\ msg' = [msg EXCEPT ![r] = m]
    /\ UNCHANGED <<lock, globals, locals>>

\* handle_request up to the lock.
Parse(r) ==
    /\ Goto(r, "parse", IF NeedsLock(msg[r]) THEN "acquire" ELSE "send")
    /\ raised' = [raised EXCEPT ![r] = V(r).kind = "raise" /\ ~NeedsLock(msg[r])]
    /\ UNCHANGED <<msg, lock, globals, number, snap, reads>>

\* Mutant: the handler is called without Server._lock.
Acquire_Unguarded(r) ==
    /\ Goto(r, "acquire", CASE V(r).kind = "run"   -> "count"
                            [] V(r).kind = "state" -> "report"
                            [] OTHER               -> "release")
    /\ raised' = [raised EXCEPT ![r] = V(r).kind = "raise"]
    /\ UNCHANGED <<msg, lock, globals, number, snap, reads>>

Acquire(r) ==
    /\ Goto(r, "acquire", CASE V(r).kind = "run"   -> "count"
                            [] V(r).kind = "state" -> "report"
                            [] OTHER               -> "release")
    /\ lock = NoOne
    /\ lock' = r
    /\ raised' = [raised EXCEPT ![r] = V(r).kind = "raise"]
    /\ UNCHANGED <<msg, globals, number, snap, reads>>

\* Mutant: the counter goes down.
Increment_Down(r) ==
    /\ Goto(r, "count", "last")
    /\ count' = [count EXCEPT ![V(r).op] = @ - 1]
    /\ UNCHANGED <<msg, lock, last, locals>>

\* _greeting_count += 1 / _farewell_count += 1
Increment(r) ==
    /\ Goto(r, "count", "last")
    /\ count' = [count EXCEPT ![V(r).op] = @ + 1]
    /\ UNCHANGED <<msg, lock, last, locals>>

\* Mutant: one handler overwrites the other handler's text as well.
SetLast_BothFields(r) ==
    /\ Goto(r, "last", "respond")
    /\ last' = [op \in Ops |-> V(r).name]
    /\ UNCHANGED <<msg, lock, count, locals>>

\* _last_greeting = greeting / _last_farewell = farewell
SetLast(r) ==
    /\ Goto(r, "last", "respond")
    /\ last' = [last EXCEPT ![V(r).op] = V(r).name]
    /\ UNCHANGED <<msg, lock, count, locals>>

\* The response re-reads the global counter.
Respond(r) ==
    /\ Goto(r, "respond", "release")
    /\ number' = [number EXCEPT ![r] = count[V(r).op]]
    /\ UNCHANGED <<msg, lock, globals, snap, reads, raised>>

\* report_state evaluates its dict literal entry by entry.
ReportField(r) ==
    LET f == ReportOrder[reads[r] + 1] IN
    /\ pc[r] = "report"
    /\ reads' = [reads EXCEPT ![r] = @ + 1]
    /\ snap' = [snap EXCEPT ![r] =
                  IF f[1] = "count" THEN [@ EXCEPT !.count[f[2]] = count[f[2]]]
                                    ELSE [@ EXCEPT !.last[f[2]] = last[f[2]]]]
    /\ pc' = [pc EXCEPT ![r] = IF reads'[r] = Len(ReportOrder) THEN "release" ELSE @]
    /\ UNCHANGED <<msg, lock, globals, number, raised>>

\* Mutant: acquire() and release() without a finally.
Release_NotOnException(r) ==
    /\ Goto(r, "release", "send")
    /\ lock' = IF raised[r] THEN lock ELSE NoOne
    /\ UNCHANGED <<msg, globals, locals>>

\* Leaving the with block, normally or by an exception.
Release(r) ==
    /\ Goto(r, "release", "send")
    /\ lock' = NoOne
    /\ UNCHANGED <<msg, globals, locals>>

\* _send, or the end of a thread whose exception nobody caught.
Send(r) ==
    /\ Goto(r, "send", "done")
    /\ UNCHANGED <<msg, lock, globals, locals>>

AllServed ==
    /\ \A r \in Requests : pc[r] = "done"
    /\ UNCHANGED vars

Step(r) ==
    \/ Parse(r) \/ Acquire(r) \/ Increment(r) \/ SetLast(r) \/ Respond(r)
    \/ ReportField(r) \/ Release(r) \/ Send(r)

Next ==
    \/ \E r \in Requests : Step(r) \/ \E m \in Messages : Accept(r, m)
    \/ AllServed

Spec == Init /\ [][Next]_vars

\* The interpreter gives every runnable thread its turn.
FairSpec == Spec /\ \A r \in Requests : WF_vars(Step(r))

-----------------------------------------------------------------------------
(* Properties.                                                             *)

\* What the client of r receives.
Response(r) == IF raised[r] THEN NoAnswer ELSE AnswerOf(V(r), number[r], snap[r])

\* The type invariant: the threads' places and locals, Server._lock and the four
\* handler globals stay within their types.
TypeOK ==
    /\ pc \in [Requests -> {"idle", "parse", "acquire", "count", "last",
                            "respond", "report", "release", "send", "done"}]
    /\ msg \in [Requests -> Messages \cup {NoMessage}]
    /\ lock \in Requests \cup {NoOne}
    /\ count \in [Ops -> Nat]
    /\ last \in [Ops -> Texts]
    /\ number \in [Requests -> Nat]
    /\ snap \in [Requests -> Snapshot]
    /\ reads \in [Requests -> 0 .. 4]
    /\ raised \in [Requests -> BOOLEAN]

\* A handler that raises while it holds Server._lock neither keeps the lock
\* nor half-applies: whenever nobody holds the lock, the counters are exactly
\* the successful requests and each last text belongs to the newest number.
ExceptionsLeaveStateWhole ==
    lock = NoOne =>
        \A op \in Ops :
            LET Served == {r \in Requests : /\ pc[r] \in {"send", "done"}
                                            /\ Response(r).status = "ok"
                                            /\ Response(r).op = op}
            IN  /\ {number[r] : r \in Served} = 1 .. count[op]
                /\ count[op] = 0 => last[op] = NoName
                /\ \A r \in Served : number[r] = count[op] => V(r).name = last[op]

\* Every request thread ends, whatever other threads raise: no request waits
\* forever on Server._lock.
EveryThreadEnds == \A r \in Requests : pc[r] = "parse" ~> pc[r] = "done"

-----------------------------------------------------------------------------
(* Refinement: a handler takes effect when it stores the last text (the    *)
(* number it will read back is then fixed), a state read when it has copied *)
(* its last field, any other request when its verdict is known.            *)

Executed(r) == pc[r] \in {"respond", "release", "send", "done"}

AbstractPhase(r) ==
    CASE pc[r] \in {"idle", "done"}     -> pc[r]
      [] pc[r] # "done" /\ Executed(r)  -> "executed"
      [] OTHER                          -> "received"

AbstractCount ==
    [op \in Ops |->
        IF \E r \in Requests : pc[r] = "last" /\ V(r).op = op
        THEN count[op] - 1 ELSE count[op]]

AbstractAnswer(r) ==
    CASE pc[r] = "respond"              -> AnswerOf(V(r), count[V(r).op], ZeroSnap)
      [] pc[r] # "respond" /\ Executed(r) -> Response(r)
      [] OTHER                          -> NoAnswer

Contract == INSTANCE ExtensionContract WITH
    VerdictOf <- handle_request,
    phase <- [r \in Requests |-> AbstractPhase(r)],
    count <- AbstractCount,
    ans <- [r \in Requests |-> AbstractAnswer(r)]

\* The server implements the contract's serialization of handlers and state
\* reads, exceptions included.
RefinesContract == Contract!Spec
=============================================================================
