---------------------------- MODULE Conformance ----------------------------
(***************************************************************************)
(* The three extensions side by side: the same requests, one after the     *)
(* other, are sent to each of them, as scripts/test-conformance.sh does    *)
(* with its fixtures, and their answers and states are compared.           *)
(*                                                                         *)
(* ActionResult.data is the UTF-8 JSON encoding of the handler's response, *)
(* and its bytes are hashed and signed.  Names are classified by what the  *)
(* three JSON encoders do to them.                                         *)
(***************************************************************************)
EXTENDS Extension, Sequences

CONSTANTS
    Messages,       \* the requests sent
    HtmlNames,      \* names containing <, > or &
    NonAsciiNames,  \* names containing a character beyond ASCII
    MaxRequests     \* bound: requests sent

ASSUME ConformanceAssumption ==
    /\ Messages \subseteq Message
    /\ HtmlNames \subseteq Names /\ NonAsciiNames \subseteq Names
    /\ MaxRequests \in Nat

Go == INSTANCE GoDispatch
Py == INSTANCE PyDispatch
Ts == INSTANCE TsDispatch

Impls == {"go", "python", "typescript"}

VerdictOf(impl, m) ==
    CASE impl = "go"         -> Go!Route(m)
      [] impl = "python"     -> Py!handle_request(m)
      [] impl = "typescript" -> Ts!handleRequest(m)

\* encoding/json's Marshal writes <, > and & as \u escapes and keeps other
\* characters as UTF-8.
GoMarshal(name) == <<name, IF name \in HtmlNames THEN "escaped" ELSE "raw">>

\* json.dumps escapes everything beyond ASCII.
PyDumps(name) == <<name, IF name \in NonAsciiNames THEN "escaped" ELSE "raw">>

\* JSON.stringify escapes neither.
TsStringify(name) == <<name, "raw">>

Encode(impl, name) ==
    CASE impl = "go"         -> GoMarshal(name)
      [] impl = "python"     -> PyDumps(name)
      [] impl = "typescript" -> TsStringify(name)

-----------------------------------------------------------------------------
(* The requests the three are told apart by.  A body, message, identifier   *)
(* or payload one decoder accepts and another refuses is a fault.           *)

IsAction(m) == m.path = "/action" /\ m.method = "POST"

\* Refused with a 400 by every decoder, whatever else is wrong.
Rejected(m) == m.body \in {"notJSON", "noData"} \/ m.fixed \in {"badHex", "notJSON"}

IsHello(m) == m.opType = "GREETING" /\ m.opCommand = "SAY_HELLO"

LooseForms == {"otherCase", "trailing", "badUtf8"}

\* A SAY_HELLO written in a way only some JSON decoders take.
OddForm(m) == IsHello(m) /\ m.payload \in Names /\ m.form \in LooseForms

\* A SAY_HELLO whose name only some decoders insist to be a string.
OddName(m) == IsHello(m) /\ m.payload = NumberText /\ m.form \notin LooseForms

Faults(m) ==
    {f \in {"body", "fixed", "opType", "opCommand", "payload", "form"} :
       \/ f = "body" /\ m.body \in {"noId", "illTyped", "loose"}
       \/ f = "fixed" /\ m.fixed \notin {"ok", "badHex", "notJSON"}
       \/ f = "opType" /\ m.opType \notin {"GREETING", "other"}
       \/ f = "opCommand" /\ m.opCommand \in {"notHash", "notString"}
       \/ f = "payload" /\ m.payload \in {"notString", "badHex"}
       \/ f = "payload" /\ OddName(m)
       \/ f = "form" /\ m.form \in {"bareHex", "spacedHex"}
       \/ f = "form" /\ OddForm(m)}

\* The requests no decoder disputes.
Portable(m) == IsAction(m) /\ ~Rejected(m) => Faults(m) = {}

\* A request with a single fault.
Disputed(m) == IsAction(m) /\ ~Rejected(m) /\ \E f \in Faults(m) : Faults(m) = {f}

-----------------------------------------------------------------------------
VARIABLES
    st,     \* the state of each extension
    ans,    \* its answer to the latest request
    data,   \* the encoding of the text in that answer's data
    sent,   \* requests sent so far
    seen    \* history: were all of them portable, is the latest disputed

vars == <<st, ans, data, sent, seen>>

Init ==
    /\ st = [i \in Impls |-> ZeroSnap]
    /\ ans = [i \in Impls |-> NoAnswer]
    /\ data = [i \in Impls |-> <<NoName, "raw">>]
    /\ sent = 0
    /\ seen = [portable |-> TRUE, disputed |-> FALSE]

\* One request served alone: the handler's effect and its answer.
Serve(s, v) ==
    IF v.kind = "run"
    THEN [count |-> [s.count EXCEPT ![v.op] = @ + 1],
          last  |-> [s.last EXCEPT ![v.op] = v.name]]
    ELSE s

Send(m) ==
    /\ sent < MaxRequests
    /\ sent' = sent + 1
    /\ st' = [i \in Impls |-> Serve(st[i], VerdictOf(i, m))]
    /\ ans' = [i \in Impls |->
                 LET v == VerdictOf(i, m)
                 IN  AnswerOf(v, IF v.kind = "run" THEN st'[i].count[v.op] ELSE 0,
                              IF v.kind = "state" THEN st[i] ELSE ZeroSnap)]
    /\ data' = [i \in Impls |-> Encode(i, ans'[i].name)]
    /\ seen' = [portable |-> seen.portable /\ Portable(m), disputed |-> Disputed(m)]

Stop == sent = MaxRequests /\ UNCHANGED vars

Next == (\E m \in Messages : Send(m)) \/ Stop

Spec == Init /\ [][Next]_vars

-----------------------------------------------------------------------------
\* Whatever the sequence of portable requests, the three extensions hold the
\* same counters and last texts, so any of them can be swapped for another.
\* The decoders of the three are independent: which requests are portable is
\* found out, not assumed.
SameState == seen.portable => \A i, j \in Impls : st[i] = st[j]

\* "identical behaviour, identical wire format": after portable requests only,
\* the latest is answered with the same HTTP status, result status, number
\* and text.
SameAnswers == seen.portable => \A i, j \in Impls : ans[i] = ans[j]

\* The list of faults has none too many: a request with any single one of them
\* (a key in another case, something after the JSON value, an absent or empty
\* opType, no data.id, bare hex...) is answered differently by two of the
\* extensions, whatever came before.
FaultsShow == seen.disputed => \E i, j \in Impls : ans[i] # ans[j]

\* "data must be byte-exact across implementations": equal results are encoded
\* to equal bytes.
SameData == \A i, j \in Impls : ans[i] = ans[j] => data[i] = data[j]
=============================================================================
