---------------------------- MODULE GoExtension ----------------------------
(***************************************************************************)
(* The Go extension server: one goroutine per HTTP request, all sharing    *)
(* the Extension struct, whose four fields are guarded by a sync.RWMutex.  *)
(* Decoding and encoding happen outside the lock.                          *)
(*                                                                         *)
(* The RWMutex is external: a writer excludes everyone, readers exclude    *)
(* writers, and nothing is assumed about who is admitted first.            *)
(***************************************************************************)
EXTENDS GoDispatch

CONSTANTS
    Messages,   \* the requests considered, a subset of Message
    NoOne       \* no goroutine holds the write lock

ASSUME MessagesAssumption == Messages \subseteq Message
ASSUME NoOneAssumption == NoOne \notin Requests

VARIABLES
    pc,         \* where each request's goroutine is
    msg,        \* the request it serves
    writer,     \* e.mu: the goroutine holding the write lock
    readers,    \* e.mu: the goroutines holding the read lock
    count,      \* e.greetingCount, e.farewellCount
    last,       \* e.lastGreeting, e.lastFarewell
    number,     \* local greetingNumber / farewellNumber
    snap,       \* local stateResponse.State
    unread      \* fields stateHandler has yet to read into snap

vars == <<pc, msg, writer, readers, count, last, number, snap, unread>>
mu == <<writer, readers>>
fields == <<count, last>>
locals == <<number, snap, unread>>

\* The four struct fields stateHandler copies; Go leaves their order open.
Fields == {"count", "last"} \X Ops

V(r) == Route(msg[r])

-----------------------------------------------------------------------------
Init ==
    /\ pc = [r \in Requests |-> "idle"]
    /\ msg = [r \in Requests |-> NoMessage]
    /\ writer = NoOne
    /\ readers = {}
    /\ count = ZeroCount
    /\ last = NoLast
    /\ number = [r \in Requests |-> 0]
    /\ snap = [r \in Requests |-> ZeroSnap]
    /\ unread = [r \in Requests |-> Fields]

Goto(r, from, to) == pc[r] = from /\ pc' = [pc EXCEPT ![r] = to]

\* net/http accepts a request and starts its goroutine.
Accept(r, m) ==
    /\ Goto(r, "idle", "decode")
    /\ msg' = [msg EXCEPT ![r] = m]
    /\ UNCHANGED <<mu, fields, locals>>

\* Everything up to the lock: mux, decoding, routing, validation.
Decode(r) ==
    /\ Goto(r, "decode", CASE V(r).kind = "run"   -> "Lock"
                           [] V(r).kind = "state" -> "RLock"
                           [] OTHER               -> "write")
    /\ UNCHANGED <<msg, mu, fields, locals>>

\* Mutant: the critical section is entered without waiting for the lock.
Lock_Unguarded(r) ==
    /\ Goto(r, "Lock", "count")
    /\ writer' = r
    /\ UNCHANGED <<msg, readers, fields, locals>>

Lock(r) ==
    /\ Goto(r, "Lock", "count")
    /\ writer = NoOne /\ readers = {}
    /\ writer' = r
    /\ UNCHANGED <<msg, readers, fields, locals>>

\* Mutant: the counter goes down.
Increment_Down(r) ==
    /\ Goto(r, "count", "number")
    /\ count' = [count EXCEPT ![V(r).op] = @ - 1]
    /\ UNCHANGED <<msg, mu, last, locals>>

\* e.greetingCount++ / e.farewellCount++
Increment(r) ==
    /\ Goto(r, "count", "number")
    /\ count' = [count EXCEPT ![V(r).op] = @ + 1]
    /\ UNCHANGED <<msg, mu, last, locals>>

\* greetingNumber := e.greetingCount
TakeNumber(r) ==
    /\ Goto(r, "number", "last")
    /\ number' = [number EXCEPT ![r] = count[V(r).op]]
    /\ UNCHANGED <<msg, mu, fields, snap, unread>>

\* Mutant: one handler overwrites the other handler's text as well.
SetLast_BothFields(r) ==
    /\ Goto(r, "last", "Unlock")
    /\ last' = [op \in Ops |-> V(r).name]
    /\ UNCHANGED <<msg, mu, count, locals>>

\* e.lastGreeting = greeting / e.lastFarewell = farewell
SetLast(r) ==
    /\ Goto(r, "last", "Unlock")
    /\ last' = [last EXCEPT ![V(r).op] = V(r).name]
    /\ UNCHANGED <<msg, mu, count, locals>>

\* Mutant: a return path that forgets the unlock.
Unlock_Forgotten(r) ==
    /\ Goto(r, "Unlock", "write")
    /\ UNCHANGED <<msg, mu, fields, locals>>

Unlock(r) ==
    /\ Goto(r, "Unlock", "write")
    /\ writer' = NoOne
    /\ UNCHANGED <<msg, readers, fields, locals>>

\* Mutant: the state is read without waiting for the writer.
RLock_Unguarded(r) ==
    /\ Goto(r, "RLock", "read")
    /\ readers' = readers \cup {r}
    /\ UNCHANGED <<msg, writer, fields, locals>>

RLock(r) ==
    /\ Goto(r, "RLock", "read")
    /\ writer = NoOne
    /\ readers' = readers \cup {r}
    /\ UNCHANGED <<msg, writer, fields, locals>>

\* stateHandler copies one field into the response struct.
ReadField(r, f) ==
    /\ pc[r] = "read" /\ f \in unread[r]
    /\ unread' = [unread EXCEPT ![r] = @ \ {f}]
    /\ snap' = [snap EXCEPT ![r] =
                  IF f[1] = "count" THEN [@ EXCEPT !.count[f[2]] = count[f[2]]]
                                    ELSE [@ EXCEPT !.last[f[2]] = last[f[2]]]]
    /\ UNCHANGED <<pc, msg, mu, fields, number>>

RUnlock(r) ==
    /\ unread[r] = {}
    /\ Goto(r, "read", "write")
    /\ readers' = readers \ {r}
    /\ UNCHANGED <<msg, writer, fields, locals>>

\* buildResult, marshalling and the write to the connection.
WriteResponse(r) ==
    /\ Goto(r, "write", "done")
    /\ UNCHANGED <<msg, mu, fields, locals>>

\* Every request served: the server is idle, not deadlocked.
AllServed ==
    /\ \A r \in Requests : pc[r] = "done"
    /\ UNCHANGED vars

Step(r) ==
    \/ Decode(r) \/ Lock(r) \/ Increment(r) \/ TakeNumber(r) \/ SetLast(r)
    \/ Unlock(r) \/ RLock(r) \/ RUnlock(r) \/ WriteResponse(r)
    \/ \E f \in Fields : ReadField(r, f)

Next ==
    \/ \E r \in Requests : Step(r) \/ \E m \in Messages : Accept(r, m)
    \/ AllServed

Spec == Init /\ [][Next]_vars

\* Go schedules every runnable goroutine; arrivals are the node's business.
FairSpec == Spec /\ \A r \in Requests : WF_vars(Step(r))

-----------------------------------------------------------------------------
(* Properties.                                                             *)

\* What the client of r receives (buildResult and the JSON encoders).
Response(r) == AnswerOf(V(r), number[r], snap[r])

Pcs == {"idle", "decode", "Lock", "count", "number", "last", "Unlock",
        "RLock", "read", "write", "done"}

\* The type invariant: the goroutines' places and locals, e.mu and the four
\* fields of the Extension struct stay within their types.
TypeOK ==
    /\ pc \in [Requests -> Pcs]
    /\ msg \in [Requests -> Messages \cup {NoMessage}]
    /\ writer \in Requests \cup {NoOne}
    /\ readers \in SUBSET Requests
    /\ count \in [Ops -> Nat]
    /\ last \in [Ops -> Texts]
    /\ number \in [Requests -> Nat]
    /\ snap \in [Requests -> Snapshot]
    /\ unread \in [Requests -> SUBSET Fields]

\* Requests that have drawn a number for op.
Numbered(op) ==
    {r \in Requests : /\ pc[r] \in {"last", "Unlock", "write", "done"}
                      /\ V(r).kind = "run" /\ V(r).op = op}

\* The successful SAY_HELLO (SAY_GOODBYE) requests carry distinct numbers, and
\* together they carry every number up to the counter, except the one the
\* goroutine inside the critical section is about to take: no number is
\* skipped, given out twice, or consumed by a rejected request.
NumbersGapFree ==
    \A op \in Ops :
        /\ \A r, s \in Numbered(op) : number[r] = number[s] => r = s
        /\ {number[r] : r \in Numbered(op)} =
             1 .. (IF \E r \in Requests : pc[r] = "number" /\ V(r).op = op
                   THEN count[op] - 1 ELSE count[op])

\* A GET /state answer is a state the extension was in between two handlers:
\* each counter comes with the text of the request that drew that number.
SnapshotConsistent ==
    \A r \in Requests : pc[r] \in {"write", "done"} /\ V(r).kind = "state" =>
        \A op \in Ops :
            \/ snap[r].count[op] = 0 /\ snap[r].last[op] = NoName
            \/ \E s \in Numbered(op) : /\ number[s] = snap[r].count[op]
                                       /\ V(s).name = snap[r].last[op]

\* Every request the server accepts is answered: no goroutine waits forever
\* on the RWMutex.
EveryRequestAnswered == \A r \in Requests : pc[r] = "decode" ~> pc[r] = "done"

-----------------------------------------------------------------------------
(* Refinement: a handler takes effect when it stores the last text, a state *)
(* read when it has copied its last field.                                 *)

Executed(r) ==
    \/ pc[r] \in {"Unlock", "write", "done"}
    \/ pc[r] = "read" /\ unread[r] = {}

AbstractPhase(r) ==
    CASE pc[r] \in {"idle", "done"} -> pc[r]
      [] pc[r] # "done" /\ Executed(r) -> "executed"
      [] OTHER -> "received"

AbstractCount ==
    [op \in Ops |->
        IF \E r \in Requests : pc[r] \in {"number", "last"} /\ V(r).op = op
        THEN count[op] - 1 ELSE count[op]]

Contract == INSTANCE ExtensionContract WITH
    VerdictOf <- Route,
    phase <- [r \in Requests |-> AbstractPhase(r)],
    count <- AbstractCount,
    ans <- [r \in Requests |-> IF Executed(r) THEN Response(r) ELSE NoAnswer]

\* The server implements the contract: every request takes effect at one
\* instant between its arrival and its answer.
RefinesContract == Contract!Spec
=============================================================================
