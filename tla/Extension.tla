----------------------------- MODULE Extension -----------------------------
(***************************************************************************)
(* Vocabulary shared by the models of the three extension servers (Go,     *)
(* Python, TypeScript): the HTTP requests they are sent, the state they    *)
(* keep and the answers they give.                                         *)
(*                                                                         *)
(* Data is abstracted to what the servers branch on.  A greeting or        *)
(* farewell text is an injective rendering of the caller's payload, so it  *)
(* is represented by the payload's Name.  greetingCount / lastGreeting and *)
(* farewellCount / lastFarewell become count[op] and last[op].             *)
(***************************************************************************)
EXTENDS Naturals

CONSTANTS
    Requests,   \* HTTP requests the node may send to the extension
    Names,      \* payloads with a non-empty name (plus reason, for goodbye)
    NoName      \* the empty string

\* The text of a JSON number rendered where a name is expected.
NumberText == "numberName"

\* The payloads that carry no name to greet.
Nameless == {"undecodable", "emptyName", NumberText, "notString", "badHex"}

ASSUME NamesAssumption == NoName \notin Names /\ Names \cap Nameless = {}

\* The texts an extension can hold: one per name, and the empty one.
Texts == Names \cup {NoName, NumberText}

\* The first index of a set of registrations: registration order decides.
First(S) == CHOOSE i \in S : \A j \in S : i <= j

\* The op-commands registered under op-type GREETING.
Ops == {"SAY_HELLO", "SAY_GOODBYE"}
NoOp == "none"

(***************************************************************************)
(* A request, by the properties that at least one of the servers' decoders *)
(* tests.  Which of them a decoder accepts is said by the dispatch module  *)
(* of each language, not here.                                             *)
(*   body      - of POST /action: an Action; not JSON; without data;       *)
(*               without data.id; with a member of another type or format  *)
(*               than the wire gives it (an id that is no 32-byte hash);   *)
(*               or loosely written: keys in another case, or something    *)
(*               after the JSON value;                                     *)
(*   fixed     - data.message: the hex of a DataFixed; not hex; hex        *)
(*               without 0x; hex with spaces between the bytes; no string; *)
(*               not JSON; JSON that is neither object nor null; an object *)
(*               with keys in another case; one with a member, other than  *)
(*               those below, of another type or format;                   *)
(*   opType,   - a bytes32; absent (for opCommand that counts as another   *)
(*   opCommand   command); empty; not the hex of 32 bytes; no string;      *)
(*   payload   - originalMessage: a named payload, an undecodable one, one *)
(*               with an empty name, a SAY_HELLO whose "name" is a JSON    *)
(*               number, an originalMessage that is no string, or not hex; *)
(*   form      - how originalMessage is written: exactly; its JSON with    *)
(*               the key in another case, with something after the value,  *)
(*               or with bytes that are not UTF-8 (these three say nothing *)
(*               of an ABI-encoded payload); hex without 0x; hex with      *)
(*               spaces.                                                   *)
(***************************************************************************)
Payloads == Names \cup Nameless

Message ==
    [method : {"GET", "POST"}, path : {"/action", "/state", "other"},
     body : {"ok", "notJSON", "noData", "noId", "illTyped", "loose"},
     fixed : {"ok", "badHex", "bareHex", "spacedHex", "notString", "notJSON",
              "notObject", "otherCase", "illTyped"},
     opType : {"GREETING", "other", "missing", "empty", "notHash", "notString"},
     opCommand : Ops \cup {"other", "notHash", "notString"},
     payload : Payloads,
     form : {"exact", "otherCase", "trailing", "badUtf8", "bareHex", "spacedHex"}]

\* The slot of a request that has not arrived yet.
NoMessage ==
    [method |-> "GET", path |-> "none", body |-> "ok", fixed |-> "ok",
     opType |-> "other", opCommand |-> "other", payload |-> "emptyName",
     form |-> "exact"]

(***************************************************************************)
(* What a server makes of a request before it touches shared state.        *)
(*   http  - answer with this HTTP status, nothing else happens            *)
(*   fail  - the handler runs and reports ActionResult.status 0            *)
(*   run   - the handler of op executes for name                           *)
(*   state - GET /state                                                    *)
(*   raise - an exception no handler of the server catches                 *)
(***************************************************************************)
Verdict ==
    [kind : {"http", "fail", "run", "state", "raise"},
     code : {0, 200, 400, 404, 405, 501},
     op : Ops \cup {NoOp}, name : Texts]

Http(code)    == [kind |-> "http", code |-> code, op |-> NoOp, name |-> NoName]
Fail(op)      == [kind |-> "fail", code |-> 200, op |-> op, name |-> NoName]
Run(op, name) == [kind |-> "run", code |-> 200, op |-> op, name |-> name]
ReadState     == [kind |-> "state", code |-> 200, op |-> NoOp, name |-> NoName]
Raise         == [kind |-> "raise", code |-> 0, op |-> NoOp, name |-> NoName]

\* The pair of counters and last texts: the extension's whole state, and what
\* GET /state returns of it.
Snapshot == [count : [Ops -> Nat], last : [Ops -> Texts]]

ZeroCount == [op \in Ops |-> 0]
NoLast    == [op \in Ops |-> NoName]
ZeroSnap  == [count |-> ZeroCount, last |-> NoLast]

(***************************************************************************)
(* An answer: the HTTP status, ActionResult.status ("none" when the body   *)
(* is no ActionResult), the number and text in ActionResult.data, and the  *)
(* state in a StateResponse.  code 0 is a connection closed unanswered.    *)
(***************************************************************************)
Answer ==
    [code : {0, 200, 400, 404, 405, 501}, status : {"none", "error", "ok"},
     op : Ops \cup {NoOp}, number : Nat, name : Texts,
     snap : Snapshot]

NoAnswer ==
    [code |-> 0, status |-> "none", op |-> NoOp, number |-> 0,
     name |-> NoName, snap |-> ZeroSnap]

\* The answer a verdict leads to, given the number drawn and the state read.
AnswerOf(v, number, snap) ==
    CASE v.kind = "http"  -> [NoAnswer EXCEPT !.code = v.code]
      [] v.kind = "fail"  -> [NoAnswer EXCEPT !.code = 200, !.status = "error",
                                              !.op = v.op]
      [] v.kind = "run"   -> [NoAnswer EXCEPT !.code = 200, !.status = "ok",
                                              !.op = v.op, !.number = number,
                                              !.name = v.name]
      [] v.kind = "state" -> [NoAnswer EXCEPT !.code = 200, !.snap = snap]
      [] v.kind = "raise" -> NoAnswer
=============================================================================
