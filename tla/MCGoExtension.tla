--------------------------- MODULE MCGoExtension ---------------------------
(* Instances of GoExtension for TLC. *)
EXTENDS GoExtension

CONSTANTS n1, n2

\* A well-formed POST /action.
Act(command, payload) ==
    [method |-> "POST", path |-> "/action", body |-> "ok", fixed |-> "ok",
     opType |-> "GREETING", opCommand |-> command, payload |-> payload,
     form |-> "exact"]

Get == [Act("other", "emptyName") EXCEPT !.method = "GET", !.path = "/state"]

\* Two payloads for one op, the other op, the state read and a rejected
\* request: enough for writers of both kinds to race each other and readers.
MCMessages ==
    {Act("SAY_HELLO", n1), Act("SAY_HELLO", n2), Act("SAY_GOODBYE", n1), Get,
     Act("SAY_HELLO", "emptyName")}
=============================================================================
