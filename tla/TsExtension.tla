---------------------------- MODULE TsExtension ----------------------------
(***************************************************************************)
(* The TypeScript extension server: one Node.js event loop.  Code between  *)
(* two awaits is atomic; Server.serialize chains handlers and state reads  *)
(* on a promise, so a handler starts only when everything chained before   *)
(* it has settled.  serve() is called with void: when it rejects, nobody   *)
(* handles the rejection, and Node's default is to end the process.        *)
(*                                                                         *)
(* HandlerFunc may return a promise, and an extension author's handler may *)
(* throw; the handlers in app/handlers.ts do neither.  AuthorHandlers      *)
(* selects between the framework with any handlers and with those.         *)
(***************************************************************************)
EXTENDS TsDispatch

CONSTANTS
    Messages,       \* the requests considered, a subset of Message
    AuthorHandlers  \* handlers may await and may throw

ASSUME MessagesAssumption == Messages \subseteq Message
ASSUME AuthorHandlersAssumption == AuthorHandlers \in BOOLEAN

VARIABLES
    pc,         \* where each request's serve() call is
    msg,        \* the request it serves
    chain,      \* the functions given to serialize, in order
    settled,    \* how many of them have settled
    count,      \* greetingCount, farewellCount
    last,       \* lastGreeting, lastFarewell
    number,     \* the number in the handler's result
    snap,       \* what reportState returned
    proc        \* the process: "up", "closing", "exited", "crashed"

vars == <<pc, msg, chain, settled, count, last, number, snap, proc>>
state == <<count, last>>

Alive == proc \in {"up", "closing"}

V(r) == handleRequest(msg[r])

-----------------------------------------------------------------------------
Init ==
    /\ pc = [r \in Requests |-> "idle"]
    /\ msg = [r \in Requests |-> NoMessage]
    /\ chain = <<>>
    /\ settled = 0
    /\ count = ZeroCount
    /\ last = NoLast
    /\ number = [r \in Requests |-> 0]
    /\ snap = [r \in Requests |-> ZeroSnap]
    /\ proc = "up"

Goto(r, from, to) == pc[r] = from /\ pc' = [pc EXCEPT ![r] = to]

\* A connection arrives; serve() awaits its body.
Accept(r, m) ==
    /\ proc = "up"
    /\ Goto(r, "idle", "readBody")
    /\ msg' = [msg EXCEPT ![r] = m]
    /\ UNCHANGED <<chain, settled, state, number, snap, proc>>

\* The body is complete: handleRequest runs up to its first await.  A body that
\* cannot be read is answered 400, as one that is not JSON.
HandleRequest(r) ==
    /\ Alive
    /\ Goto(r, "readBody", CASE V(r).kind = "http"  -> "send"
                             [] V(r).kind = "raise" -> "rejected"
                             [] OTHER               -> "chained")
    /\ chain' = IF V(r).kind \in {"http", "raise"} THEN chain ELSE Append(chain, r)
    /\ UNCHANGED <<msg, settled, state, number, snap, proc>>

\* Mutant: handlers are called as their requests arrive, without the chain.
Turn_Unchained(r) == Alive /\ \E i \in (settled + 1) .. Len(chain) : chain[i] = r

\* Everything chained before r has settled, so the loop may call r's function.
Turn(r) == Alive /\ settled < Len(chain) /\ chain[settled + 1] = r

\* Mutant: the tail of the chain is never replaced by a settled promise.
Settle_Never == UNCHANGED settled

\* Mutant: both callbacks of then advance the chain.
Settle_Twice == settled' = settled + 2

\* serialize: the chain advances when the function settles, however it does.
Settle == settled' = settled + 1

\* A handler that returns without awaiting: the app's handlers.
RunHandler(r) ==
    /\ Turn(r)
    /\ V(r).kind \in {"run", "fail"}
    /\ Goto(r, "chained", "send")
    /\ IF V(r).kind = "run"
       THEN /\ count' = [count EXCEPT ![V(r).op] = @ + 1]
            /\ last' = [last EXCEPT ![V(r).op] = V(r).name]
            /\ number' = [number EXCEPT ![r] = count'[V(r).op]]
       ELSE UNCHANGED <<state, number>>
    /\ Settle
    /\ UNCHANGED <<msg, chain, snap, proc>>

\* An author's handler awaits (a call to the node, say) half-way through.
BeginHandler(r) ==
    /\ AuthorHandlers
    /\ Turn(r)
    /\ V(r).kind = "run"
    /\ Goto(r, "chained", "awaiting")
    /\ count' = [count EXCEPT ![V(r).op] = @ + 1]
    /\ UNCHANGED <<msg, chain, settled, last, number, snap, proc>>

FinishHandler(r) ==
    /\ Turn(r)
    /\ Goto(r, "awaiting", "send")
    /\ last' = [last EXCEPT ![V(r).op] = V(r).name]
    /\ number' = [number EXCEPT ![r] = count[V(r).op]]
    /\ Settle
    /\ UNCHANGED <<msg, chain, count, snap, proc>>

\* An author's handler throws before it changes anything.
HandlerThrows(r) ==
    /\ AuthorHandlers
    /\ Turn(r)
    /\ V(r).kind \in {"run", "fail"}
    /\ Goto(r, "chained", "rejected")
    /\ Settle
    /\ UNCHANGED <<msg, chain, state, number, snap, proc>>

ReportState(r) ==
    /\ Turn(r)
    /\ V(r).kind = "state"
    /\ Goto(r, "chained", "send")
    /\ snap' = [snap EXCEPT ![r] = [count |-> count, last |-> last]]
    /\ Settle
    /\ UNCHANGED <<msg, chain, state, number, proc>>

Send(r) ==
    /\ Alive
    /\ Goto(r, "send", "done")
    /\ UNCHANGED <<msg, chain, settled, state, number, snap, proc>>

\* serve() rejected and void discarded it: Node ends the process.
UnhandledRejection ==
    /\ Alive
    /\ \E r \in Requests : pc[r] = "rejected"
    /\ proc' = "crashed"
    /\ UNCHANGED <<pc, msg, chain, settled, state, number, snap>>

\* SIGTERM or SIGINT: server.close() refuses new connections.
Shutdown ==
    /\ proc = "up"
    /\ proc' = "closing"
    /\ UNCHANGED <<pc, msg, chain, settled, state, number, snap>>

\* Mutant: process.exit without awaiting close().
Closed_AtOnce ==
    /\ proc = "closing"
    /\ proc' = "exited"
    /\ UNCHANGED <<pc, msg, chain, settled, state, number, snap>>

\* close() resolves when the last connection has ended; process.exit(0).
Closed ==
    /\ proc = "closing"
    /\ \A r \in Requests : pc[r] \in {"idle", "done"}
    /\ proc' = "exited"
    /\ UNCHANGED <<pc, msg, chain, settled, state, number, snap>>

Quiet ==
    /\ ~Alive \/ \A r \in Requests : pc[r] = "done"
    /\ UNCHANGED vars

Step(r) ==
    \/ HandleRequest(r) \/ RunHandler(r) \/ BeginHandler(r) \/ FinishHandler(r)
    \/ HandlerThrows(r) \/ ReportState(r) \/ Send(r)

Next ==
    \/ \E r \in Requests : Step(r) \/ \E m \in Messages : Accept(r, m)
    \/ UnhandledRejection \/ Shutdown \/ Closed \/ Quiet

Spec == Init /\ [][Next]_vars

\* The event loop gets to every ready callback, and to its exit.
FairSpec ==
    /\ Spec
    /\ \A r \in Requests : WF_vars(Step(r))
    /\ WF_vars(UnhandledRejection) /\ WF_vars(Closed)

-----------------------------------------------------------------------------
(* Properties.                                                             *)

Response(r) == AnswerOf(V(r), number[r], snap[r])

\* The type invariant: the requests' places and locals, the promise chain of
\* serialize and the four handler fields stay within their types.
TypeOK ==
    /\ pc \in [Requests -> {"idle", "readBody", "chained", "awaiting", "send",
                            "rejected", "done"}]
    /\ msg \in [Requests -> Messages \cup {NoMessage}]
    /\ chain \in Seq(Requests)
    /\ settled \in 0 .. Len(chain)
    /\ count \in [Ops -> Nat]
    /\ last \in [Ops -> Texts]
    /\ number \in [Requests -> Nat]
    /\ snap \in [Requests -> Snapshot]
    /\ proc \in {"up", "closing", "exited", "crashed"}

\* The i-th function of the chain was a handler of op, and succeeded.
Ok(i, op) == /\ pc[chain[i]] \in {"send", "done"}
             /\ V(chain[i]).kind = "run" /\ V(chain[i]).op = op

\* n is 0, or the number of a handler of op among the first k of the chain.
Drawn(n, op, k) == n = 0 \/ \E i \in 1 .. k : Ok(i, op) /\ number[chain[i]] = n

\* Results come in the order the requests were chained, although requests keep
\* arriving while a handler awaits: of two successful requests for the same
\* op, the one chained first has the smaller number, and the counter a state
\* read reports is the highest number drawn by the requests chained before it,
\* 0 when there is none: it misses no earlier one and counts no later one.
ChainOrder ==
    /\ \A i, j \in 1 .. settled : i < j =>
          \A op \in Ops : Ok(i, op) =>
            /\ Ok(j, op) => number[chain[i]] < number[chain[j]]
            /\ V(chain[j]).kind = "state" =>
                 number[chain[i]] <= snap[chain[j]].count[op]
    /\ \A j \in 1 .. settled : V(chain[j]).kind = "state" =>
          \A op \in Ops : Drawn(snap[chain[j]].count[op], op, j - 1)

\* A process ended by a signal has answered every request it accepted.
GracefulShutdown ==
    proc = "exited" => \A r \in Requests : pc[r] \in {"idle", "done"}

\* Every accepted request is answered unless some handler threw, whatever the
\* handlers chained before it await and whenever the signal to stop arrives.
EveryRequestAnswered ==
    \A r \in Requests :
        pc[r] = "readBody" ~> (pc[r] = "done" \/ \E s \in Requests : pc[s] = "rejected")

\* The comment on serialize: one failing handler cannot wedge the server.  A
\* request whose own handler does not throw is answered.
OthersAnswered ==
    \A r \in Requests : pc[r] = "readBody" ~> pc[r] \in {"done", "rejected"}

-----------------------------------------------------------------------------
(* Refinement: a handler takes effect when it settles.                     *)

AbstractPhase(r) ==
    CASE pc[r] \in {"idle", "done"} -> pc[r]
      [] pc[r] = "send"             -> "executed"
      [] OTHER                      -> "received"

AbstractCount ==
    [op \in Ops |->
        IF \E r \in Requests : pc[r] = "awaiting" /\ V(r).op = op
        THEN count[op] - 1 ELSE count[op]]

Contract == INSTANCE ExtensionContract WITH
    VerdictOf <- handleRequest,
    phase <- [r \in Requests |-> AbstractPhase(r)],
    count <- AbstractCount,
    ans <- [r \in Requests |->
              IF pc[r] \in {"send", "done"} THEN Response(r) ELSE NoAnswer]

\* The promise chain implements the contract's serialization, also when the
\* handlers await.
RefinesContract == Contract!Spec
=============================================================================
