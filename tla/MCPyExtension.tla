--------------------------- MODULE MCPyExtension ---------------------------
(* Instances of PyExtension for TLC. *)
EXTENDS PyExtension

CONSTANTS n1, n2

Act(command, payload) ==
    [method |-> "POST", path |-> "/action", body |-> "ok", fixed |-> "ok",
     opType |-> "GREETING", opCommand |-> command, payload |-> payload,
     form |-> "exact"]

Get == [Act("other", "emptyName") EXCEPT !.method = "GET", !.path = "/state"]

\* Handlers of both ops, state reads, a rejected payload, one whose handler
\* raises under the lock and two that raise before it.
MCMessages ==
    {Act("SAY_HELLO", n1), Act("SAY_HELLO", n2), Act("SAY_GOODBYE", n1), Get,
     Act("SAY_HELLO", "undecodable"), Act("SAY_GOODBYE", "notString"),
     [Act("SAY_HELLO", n1) EXCEPT !.fixed = "notObject"],
     [Act("SAY_HELLO", n1) EXCEPT !.opCommand = "notString"]}
=============================================================================
