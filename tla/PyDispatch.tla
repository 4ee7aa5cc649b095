----------------------------- MODULE PyDispatch -----------------------------
(***************************************************************************)
(* How the Python extension classifies a request: handle_request, the      *)
(* parsers of base/types.py, the registry, and the decoding and validation *)
(* parts of the two handlers.                                              *)
(***************************************************************************)
EXTENDS Extension, Sequences

\* hex_to_bytes calls removeprefix on whatever originalMessage is: an
\* AttributeError, which no except clause names, when it is no string.  A JSON
\* number is a true value in Python: it passes the "not name" check and is
\* rendered into the text like any other name.  json.loads refuses bytes that
\* are not UTF-8 and anything after the value, and the only key allowed is
\* "name"; bytes.fromhex skips spaces and removeprefix needs no 0x.
handle_say_hello(m) ==
    CASE m.payload = "notString"                        -> Raise
      [] /\ m.payload \in Names \cup {NumberText}
         /\ m.form \in {"exact", "bareHex", "spacedHex"} -> Run("SAY_HELLO", m.payload)
      [] OTHER                                          -> Fail("SAY_HELLO")

handle_say_goodbye(m) ==
    CASE m.payload \in Names       -> Run("SAY_GOODBYE", m.payload)
      [] m.payload = "notString"   -> Raise
      [] OTHER                     -> Fail("SAY_GOODBYE")

\* Framework.handle appends a registration; "" as op-command is the wildcard.
\* The app registers these two.
registered == << <<"GREETING", "SAY_HELLO">>, <<"GREETING", "SAY_GOODBYE">> >>

\* Framework.lookup: the first exact match, else the first wildcard of the
\* op-type, else 0.
lookup(handlers, opType, opCommand) ==
    LET exact == {i \in DOMAIN handlers : handlers[i] = <<opType, opCommand>>}
        wild  == {i \in DOMAIN handlers : handlers[i] = <<opType, "">>}
    IN  CASE exact # {} -> First(exact)
          [] exact = {} /\ wild # {} -> First(wild)
          [] OTHER -> 0

\* json.loads of the body and of the message, and the KeyErrors of
\* parse_action and parse_data_fixed: data, data.id and opType must be there,
\* under these very keys.
Invalid(m) ==
    \/ m.body \in {"notJSON", "noData", "noId", "loose"}
    \/ m.fixed \in {"badHex", "notJSON", "otherCase"}

\* Mutant: an op nobody registered is reported as a failed action.
ParsesTo_UnknownOpFails(m) ==
    IF Invalid(m)                                           THEN Http(400)
    ELSE IF m.fixed \in {"notString", "notObject"}          THEN Raise
    ELSE IF m.opType = "missing"                            THEN Http(400)
    ELSE IF "notString" \in {m.opType, m.opCommand}         THEN Raise
    ELSE IF lookup(registered, m.opType, m.opCommand) = 0   THEN Fail(NoOp)
    ELSE IF m.opCommand = "SAY_HELLO"                       THEN handle_say_hello(m)
    ELSE handle_say_goodbye(m)

\* What happens before the lock.  hex_to_bytes uses removeprefix,
\* parse_data_fixed raw.get and _normalize op_type.lower, so JSON of another
\* shape raises AttributeError past the except clauses that answer 400.  An
\* empty opType is there, and is looked up like any other.
ParsesTo(m) ==
    IF Invalid(m)                                           THEN Http(400)
    ELSE IF m.fixed \in {"notString", "notObject"}          THEN Raise
    ELSE IF m.opType = "missing"                            THEN Http(400)
    ELSE IF "notString" \in {m.opType, m.opCommand}         THEN Raise
    ELSE IF lookup(registered, m.opType, m.opCommand) = 0   THEN Http(501)
    ELSE IF m.opCommand = "SAY_HELLO"                       THEN handle_say_hello(m)
    ELSE handle_say_goodbye(m)

handle_request(m) ==
    CASE m.path = "/action" /\ m.method = "POST" -> ParsesTo(m)
      [] m.path = "/state"  /\ m.method = "GET"  -> ReadState
      [] m.path = "other"                        -> Http(404)
      [] OTHER                                   -> Http(405)
=============================================================================
