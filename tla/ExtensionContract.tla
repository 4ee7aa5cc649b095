------------------------- MODULE ExtensionContract -------------------------
(***************************************************************************)
(* What every extension server promises about concurrent requests: each    *)
(* request takes effect at one instant between its arrival and its answer, *)
(* handlers one at a time, and GET /state sees the state between two       *)
(* handlers.  The servers differ in which requests they accept, so the     *)
(* classification of requests is a parameter.                              *)
(***************************************************************************)
EXTENDS Extension

CONSTANTS
    Messages,       \* the requests considered, a subset of Message
    VerdictOf(_)    \* how the server classifies a request

VARIABLES
    phase,  \* idle -> received -> executed -> done, per request
    msg,    \* the request received
    count,  \* greetingCount, farewellCount
    last,   \* lastGreeting, lastFarewell
    ans     \* the answer determined, NoAnswer before

vars == <<phase, msg, count, last, ans>>

Init ==
    /\ phase = [r \in Requests |-> "idle"]
    /\ msg = [r \in Requests |-> NoMessage]
    /\ count = ZeroCount
    /\ last = NoLast
    /\ ans = [r \in Requests |-> NoAnswer]

Receive(r, m) ==
    /\ phase[r] = "idle"
    /\ phase' = [phase EXCEPT ![r] = "received"]
    /\ msg' = [msg EXCEPT ![r] = m]
    /\ UNCHANGED <<count, last, ans>>

\* The whole effect of a request, at one instant.
Execute(r) ==
    LET v == VerdictOf(msg[r]) IN
    /\ phase[r] = "received"
    /\ phase' = [phase EXCEPT ![r] = "executed"]
    /\ IF v.kind = "run"
       THEN /\ count' = [count EXCEPT ![v.op] = @ + 1]
            /\ last' = [last EXCEPT ![v.op] = v.name]
            /\ ans' = [ans EXCEPT ![r] = AnswerOf(v, count[v.op] + 1, ZeroSnap)]
       ELSE /\ ans' = [ans EXCEPT ![r] =
                          AnswerOf(v, 0, [count |-> count, last |-> last])]
            /\ UNCHANGED <<count, last>>
    /\ UNCHANGED msg

Reply(r) ==
    /\ phase[r] = "executed"
    /\ phase' = [phase EXCEPT ![r] = "done"]
    /\ UNCHANGED <<msg, count, last, ans>>

Next ==
    \E r \in Requests :
        \/ \E m \in Messages : Receive(r, m)
        \/ Execute(r)
        \/ Reply(r)

Spec == Init /\ [][Next]_vars
=============================================================================
