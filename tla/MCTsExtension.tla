--------------------------- MODULE MCTsExtension ---------------------------
(* Instances of TsExtension for TLC. *)
EXTENDS TsExtension

CONSTANTS n1, n2

Act(command, payload) ==
    [method |-> "POST", path |-> "/action", body |-> "ok", fixed |-> "ok",
     opType |-> "GREETING", opCommand |-> command, payload |-> payload,
     form |-> "exact"]

Get == [Act("other", "emptyName") EXCEPT !.method = "GET", !.path = "/state"]

\* Handlers of both ops, state reads and requests that are turned away.
MCMessages ==
    {Act("SAY_HELLO", n1), Act("SAY_HELLO", n2), Act("SAY_GOODBYE", n1), Get,
     Act("SAY_HELLO", "notString"), Act("other", n1)}
=============================================================================
