----------------------------- MODULE TsDispatch -----------------------------
(***************************************************************************)
(* How the TypeScript extension classifies a request: handleRequest,       *)
(* processAction up to the promise chain, the registry, and the decoding   *)
(* and validation parts of the two handlers.                               *)
(***************************************************************************)
EXTENDS Extension, Sequences

\* hexToBytes throws on a non-string and on spaces, inside the handler's try,
\* and needs no 0x.  toString replaces bytes that are not UTF-8, JSON.parse
\* refuses anything after the value, and the only key allowed is "name", which
\* must be a non-empty string.
handleSayHello(m) ==
    IF m.payload \in Names /\ m.form \in {"exact", "badUtf8", "bareHex"}
    THEN Run("SAY_HELLO", m.payload)
    ELSE Fail("SAY_HELLO")

handleSayGoodbye(m) ==
    IF m.payload \in Names /\ m.form # "spacedHex"
    THEN Run("SAY_GOODBYE", m.payload)
    ELSE Fail("SAY_GOODBYE")

\* Framework.handle appends a registration; "" as op-command is the wildcard.
\* The app registers these two.
registered == << <<"GREETING", "SAY_HELLO">>, <<"GREETING", "SAY_GOODBYE">> >>

\* Framework.lookup: the first exact match, else the first wildcard of the
\* op-type, else 0.
lookup(handlers, opType, opCommand) ==
    LET exact == {i \in DOMAIN handlers : handlers[i] = <<opType, opCommand>>}
        wild  == {i \in DOMAIN handlers : handlers[i] = <<opType, "">>}
    IN  CASE exact # {} -> First(exact)
          [] exact = {} /\ wild # {} -> First(wild)
          [] OTHER -> 0

\* JSON.parse of the body and of the message, hexToBytes, and the three checks
\* that data and opType are there and not empty.
Invalid(m) ==
    \/ m.body \in {"notJSON", "noData", "loose"}
    \/ m.fixed \in {"badHex", "spacedHex", "notString", "notJSON", "notObject", "otherCase"}
    \/ m.opType \in {"missing", "empty"}

\* normalize calls toLowerCase on opType and opCommand outside every try.
processAction(m) ==
    IF Invalid(m)                                           THEN Http(400)
    ELSE IF "notString" \in {m.opType, m.opCommand}         THEN Raise
    ELSE IF lookup(registered, m.opType, m.opCommand) = 0   THEN Http(501)
    ELSE IF m.opCommand = "SAY_HELLO"                       THEN handleSayHello(m)
    ELSE handleSayGoodbye(m)

handleRequest(m) ==
    CASE m.path = "/action" /\ m.method = "POST" -> processAction(m)
      [] m.path = "/state"  /\ m.method = "GET"  -> ReadState
      [] m.path = "other"                        -> Http(404)
      [] OTHER                                   -> Http(405)
=============================================================================
