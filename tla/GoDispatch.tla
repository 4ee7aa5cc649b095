----------------------------- MODULE GoDispatch -----------------------------
(***************************************************************************)
(* How the Go extension classifies a request: the ServeMux, the decoding   *)
(* of Action, DataFixed and payload, the two switches on op-type and       *)
(* op-command, and the empty-name checks.  No shared state is touched.     *)
(***************************************************************************)
EXTENDS Extension

\* JSON decoding into SayHelloRequest, then the empty-name check.  A Decoder
\* matches keys in any case, DisallowUnknownFields or not, stops at the end of
\* the first value and replaces bytes that are not UTF-8, so no form of the
\* payload is refused here.
processSayHelloDecode(m) ==
    IF m.payload \in Names THEN Run("SAY_HELLO", m.payload) ELSE Fail("SAY_HELLO")

\* Mutant: the empty-name check is missing.
processSayGoodbyeDecode_NoCheck(m) ==
    CASE m.payload \in Names     -> Run("SAY_GOODBYE", m.payload)
      [] m.payload = "emptyName" -> Run("SAY_GOODBYE", NoName)
      [] OTHER                   -> Fail("SAY_GOODBYE")

\* ABI decoding into SayGoodbyeRequest, then the empty-name check.
processSayGoodbyeDecode(m) ==
    IF m.payload \in Names THEN Run("SAY_GOODBYE", m.payload) ELSE Fail("SAY_GOODBYE")

processGreeting(m) ==
    CASE m.opCommand = "SAY_HELLO"   -> processSayHelloDecode(m)
      [] m.opCommand = "SAY_GOODBYE" -> processSayGoodbyeDecode(m)
      [] OTHER                       -> Http(501)

\* The members processorutils.Parse cannot unmarshal into the typed DataFixed
\* struct: a common.Hash wants 0x and 64 digits, an empty string included, a
\* hexutil.Bytes wants 0x and hex.
IllTyped(m) ==
    \/ m.fixed \in {"notJSON", "notObject", "illTyped"}
    \/ m.opType \in {"empty", "notHash", "notString"}
    \/ m.opCommand \in {"notHash", "notString"}
    \/ m.payload \in {"notString", "badHex"}
    \/ m.form \in {"bareHex", "spacedHex"}

\* An absent opType is the zero hash, of which the default case disposes.
processAction(m) ==
    IF IllTyped(m)                THEN Http(400)
    ELSE IF m.opType = "GREETING" THEN processGreeting(m)
    ELSE Http(501)

\* Mutant: the Decoder is asked whether anything follows, and for exact keys.
actionHandler_Strict(m) ==
    IF \/ m.body \in {"notJSON", "noData", "illTyped", "loose"}
       \/ m.fixed \in {"badHex", "bareHex", "spacedHex", "notString"}
    THEN Http(400)
    ELSE processAction(m)

\* Decoding into teetypes.Action covers the hex of data.message.  An Action
\* without data is a zero Action, whose empty message processAction then cannot
\* parse; one without an id has the zero hash for it; keys in another case
\* match and what follows the value is not read.
actionHandler(m) ==
    IF \/ m.body \in {"notJSON", "noData", "illTyped"}
       \/ m.fixed \in {"badHex", "bareHex", "spacedHex", "notString"}
    THEN Http(400)
    ELSE processAction(m)

\* The ServeMux with its method patterns.
Route(m) ==
    CASE m.path = "/action" /\ m.method = "POST" -> actionHandler(m)
      [] m.path = "/state"  /\ m.method = "GET"  -> ReadState
      [] m.path = "other"                        -> Http(404)
      [] OTHER                                   -> Http(405)
=============================================================================
