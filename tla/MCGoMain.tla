------------------------------ MODULE MCGoMain ------------------------------
(* Instance of GoMain for TLC. *)
EXTENDS GoMain

CONSTANTS n1

MCMessages ==
    {[method |-> "POST", path |-> "/action", body |-> "ok", fixed |-> "ok",
      opType |-> "GREETING", opCommand |-> "SAY_HELLO", payload |-> n1,
      form |-> "exact"]}
=============================================================================
