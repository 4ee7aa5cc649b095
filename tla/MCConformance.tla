--------------------------- MODULE MCConformance ---------------------------
(* Instances of Conformance for TLC. *)
EXTENDS Conformance

CONSTANTS ascii1, ascii2, html, nonAscii

\* Well-formed requests of both ops, with every payload that is hex.
WellFormed ==
    {[method |-> "POST", path |-> "/action", body |-> "ok", fixed |-> "ok",
      opType |-> "GREETING", opCommand |-> op, payload |-> p, form |-> "exact"] :
        op \in Ops, p \in Names \cup {"undecodable", "emptyName", NumberText}}

\* The requests that differ from a well-formed one in one respect, or in route.
NearMessages ==
    WellFormed
    \cup {[w EXCEPT !.method = x, !.path = y] :
             w \in WellFormed, x \in {"GET", "POST"}, y \in {"/action", "/state", "other"}}
    \cup {[w EXCEPT !.body = x] :
             w \in WellFormed, x \in {"notJSON", "noData", "noId", "illTyped", "loose"}}
    \cup {[w EXCEPT !.fixed = x] :
             w \in WellFormed, x \in {"badHex", "bareHex", "spacedHex", "notString",
                                    "notJSON", "notObject", "otherCase", "illTyped"}}
    \cup {[w EXCEPT !.opType = x] :
             w \in WellFormed, x \in {"other", "missing", "empty", "notHash", "notString"}}
    \cup {[w EXCEPT !.opCommand = x] :
             w \in WellFormed, x \in {"other", "notHash", "notString"}}
    \cup {[w EXCEPT !.payload = x] : w \in WellFormed, x \in {"notString", "badHex"}}
    \cup {[w EXCEPT !.form = x] :
             w \in WellFormed, x \in {"otherCase", "trailing", "badUtf8", "bareHex", "spacedHex"}}

\* The requests every decoder accepts.
PlainMessages == {m \in WellFormed : Portable(m)}
=============================================================================
