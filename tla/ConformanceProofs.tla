------------------------- MODULE ConformanceProofs -------------------------
(***************************************************************************)
(* Proofs about Conformance: any sequence of portable requests, with any   *)
(* names, leaves the three extensions in the same state and with the same  *)
(* answers, and a request with a single fault is answered differently by   *)
(* two of them.  The content is in the decoders and the dispatch code,     *)
(* which are written three times: typed structs and nested switches in Go, *)
(* dictionaries and a registry of op-type and op-command in Python and     *)
(* TypeScript.                                                             *)
(***************************************************************************)
EXTENDS Conformance, TLAPS

\* The identifiers a registry can be asked for.
Types == {"GREETING", "other", "empty", "notHash"}
Commands == Ops \cup {"other", "notHash"}

\* Framework.lookup finds a handler for exactly the two registered pairs.
LEMMA PyLookup ==
  ASSUME NEW t \in Types, NEW c \in Commands
  PROVE  Py!lookup(Py!registered, t, c) = 0 <=> ~(t = "GREETING" /\ c \in Ops)
<1> DEFINE exact == {i \in DOMAIN Py!registered : Py!registered[i] = <<t, c>>}
           wild  == {i \in DOMAIN Py!registered : Py!registered[i] = <<t, "">>}
<1>1. /\ DOMAIN Py!registered = {1, 2}
      /\ Py!registered[1] = <<"GREETING", "SAY_HELLO">>
      /\ Py!registered[2] = <<"GREETING", "SAY_GOODBYE">>
  BY DEF Py!registered
<1>2. wild = {}
  <2>1. Py!registered[1] # <<t, "">> /\ Py!registered[2] # <<t, "">>
    BY <1>1
  <2>. QED  BY <1>1, <2>1
<1>3. exact \subseteq {1, 2} /\ (exact # {} <=> t = "GREETING" /\ c \in Ops)
  BY <1>1 DEF Ops, Types, Commands
<1>4. exact # {} => Py!First(exact) # 0
  <2> SUFFICES ASSUME exact # {} PROVE Py!First(exact) # 0
    OBVIOUS
  <2>1. exact = {1} \/ exact = {2} \/ exact = {1, 2}
    BY <1>3
  <2>2. \E i \in exact : \A j \in exact : i <= j
    BY <2>1
  <2>3. Py!First(exact) \in exact
    BY <2>2 DEF Py!First
  <2>. QED  BY <1>3, <2>3
<1>5. Py!lookup(Py!registered, t, c) =
        CASE exact # {} -> Py!First(exact)
          [] exact = {} /\ wild # {} -> Py!First(wild)
          [] OTHER -> 0
  BY DEF Py!lookup
<1>. QED  BY <1>2, <1>3, <1>4, <1>5

\* The TypeScript registry holds the same two pairs.
LEMMA TsLookup ==
  ASSUME NEW t \in Types, NEW c \in Commands
  PROVE  Ts!lookup(Ts!registered, t, c) = 0 <=> ~(t = "GREETING" /\ c \in Ops)
<1>1. Ts!registered = Py!registered
  BY DEF Ts!registered, Py!registered
<1>2. \A S : Ts!First(S) = Py!First(S)
  BY DEF Ts!First, Py!First
<1>3. Ts!lookup(Ts!registered, t, c) = Py!lookup(Py!registered, t, c)
  BY <1>1, <1>2 DEF Ts!lookup, Py!lookup
<1>. QED  BY <1>3, PyLookup


\* The verdicts mean the same in the three dispatch modules.
LEMMA SameVerdicts ==
  /\ \A c : Go!Http(c) = Http(c) /\ Py!Http(c) = Http(c) /\ Ts!Http(c) = Http(c)
  /\ \A o : Go!Fail(o) = Fail(o) /\ Py!Fail(o) = Fail(o) /\ Ts!Fail(o) = Fail(o)
  /\ \A o, n : Go!Run(o, n) = Run(o, n) /\ Py!Run(o, n) = Run(o, n) /\ Ts!Run(o, n) = Run(o, n)
  /\ Go!ReadState = ReadState /\ Py!ReadState = ReadState /\ Ts!ReadState = ReadState
  /\ Py!Raise = Raise /\ Ts!Raise = Raise
BY DEF Http, Go!Http, Py!Http, Ts!Http, Fail, Go!Fail, Py!Fail, Ts!Fail,
       Run, Go!Run, Py!Run, Ts!Run, ReadState, Go!ReadState, Py!ReadState, Ts!ReadState,
       Raise, Py!Raise, Ts!Raise, NoOp, Go!NoOp, Py!NoOp, Ts!NoOp

\* What a request without a fault has to look like.
LEMMA PlainFacts ==
  ASSUME NEW m \in Message, Faults(m) = {}, ~Rejected(m)
  PROVE  /\ m.body = "ok" /\ m.fixed = "ok" /\ m.opType \in {"GREETING", "other"}
         /\ m.opCommand \in Ops \cup {"other"}
         /\ m.payload \notin {"notString", "badHex"}
         /\ m.form \notin {"bareHex", "spacedHex"}
         /\ ~OddForm(m) /\ ~OddName(m)
<1>1. \A f \in {"body", "fixed", "opType", "opCommand", "payload", "form"} : f \notin Faults(m)
  OBVIOUS
<1>2. m.body \notin {"noId", "illTyped", "loose"} /\ m.fixed \in {"ok", "badHex", "notJSON"}
  BY <1>1 DEF Faults
<1>3. m.opType \in {"GREETING", "other"} /\ m.opCommand \notin {"notHash", "notString"}
  BY <1>1 DEF Faults
<1>4. m.payload \notin {"notString", "badHex"} /\ ~OddName(m)
  BY <1>1 DEF Faults
<1>5. m.form \notin {"bareHex", "spacedHex"} /\ ~OddForm(m)
  BY <1>1 DEF Faults
<1>6. m.body \notin {"notJSON", "noData"} /\ m.fixed \notin {"badHex", "notJSON"}
  BY DEF Rejected
<1>7. /\ m.body \in {"ok", "notJSON", "noData", "noId", "illTyped", "loose"}
      /\ m.opCommand \in Ops \cup {"other", "notHash", "notString"}
  BY DEF Message
<1>. QED  BY <1>2, <1>3, <1>4, <1>5, <1>6, <1>7

\* What the three handlers of op make of a payload no decoder disputes.
Handled(op, m) == IF m.payload \in Names THEN Run(op, m.payload) ELSE Fail(op)

\* What the three servers make of a portable POST /action.
Acted(m) ==
    IF Rejected(m) THEN Http(400)
    ELSE IF m.opType # "GREETING" \/ m.opCommand \notin Ops THEN Http(501)
    ELSE Handled(m.opCommand, m)

\* Whatever else is wrong, a rejected request is a 400 for all three.
LEMMA RejectedByAll ==
  ASSUME NEW m \in Message, Rejected(m)
  PROVE  /\ Go!actionHandler(m) = Http(400)
         /\ Py!ParsesTo(m) = Http(400)
         /\ Ts!processAction(m) = Http(400)
<1>1. Go!actionHandler(m) = Http(400)
  <2>1. CASE m.fixed = "notJSON"
    BY SameVerdicts, <2>1 DEF Go!actionHandler, Go!processAction, Go!IllTyped
  <2>2. CASE m.fixed # "notJSON"
    BY SameVerdicts, <2>2 DEF Go!actionHandler, Rejected
  <2>. QED  BY <2>1, <2>2
<1>2. Py!ParsesTo(m) = Http(400)
  BY SameVerdicts DEF Py!ParsesTo, Py!Invalid, Rejected
<1>3. Ts!processAction(m) = Http(400)
  BY SameVerdicts DEF Ts!processAction, Ts!Invalid, Rejected
<1>. QED  BY <1>1, <1>2, <1>3

\* Go's nested switches.
LEMMA GoActed ==
  ASSUME NEW m \in Message, Faults(m) = {}, ~Rejected(m)
  PROVE  Go!actionHandler(m) = Acted(m)
<1>0. /\ m.body = "ok" /\ m.fixed = "ok" /\ m.opType \in {"GREETING", "other"}
      /\ m.opCommand \in {"SAY_HELLO", "SAY_GOODBYE", "other"}
      /\ m.payload \notin {"notString", "badHex"}
      /\ m.form \notin {"bareHex", "spacedHex"}
  BY PlainFacts DEF Ops
<1>1. Go!actionHandler(m) = Go!processAction(m) /\ ~Go!IllTyped(m)
  BY <1>0 DEF Go!actionHandler, Go!IllTyped
<1>2. /\ Go!processSayHelloDecode(m) = Handled("SAY_HELLO", m)
      /\ Go!processSayGoodbyeDecode(m) = Handled("SAY_GOODBYE", m)
  BY SameVerdicts DEF Go!processSayHelloDecode, Go!processSayGoodbyeDecode, Handled
<1>3. Go!processGreeting(m) =
        IF m.opCommand \in Ops THEN Handled(m.opCommand, m) ELSE Http(501)
  <2>1. CASE m.opCommand = "SAY_HELLO"
    BY <1>2, <2>1 DEF Go!processGreeting, Ops
  <2>2. CASE m.opCommand = "SAY_GOODBYE"
    BY <1>2, <2>2 DEF Go!processGreeting, Ops
  <2>3. CASE m.opCommand = "other"
    BY SameVerdicts, <2>3 DEF Go!processGreeting, Ops
  <2>. QED  BY <1>0, <2>1, <2>2, <2>3
<1>4. CASE m.opType = "GREETING"
  BY <1>1, <1>3, <1>4 DEF Go!processAction, Acted
<1>5. CASE m.opType # "GREETING"
  BY SameVerdicts, <1>1, <1>5 DEF Go!processAction, Acted
<1>. QED  BY <1>4, <1>5

\* Python's registry.
LEMMA PyActed ==
  ASSUME NEW m \in Message, Faults(m) = {}, ~Rejected(m)
  PROVE  Py!ParsesTo(m) = Acted(m)
<1>0. /\ m.body = "ok" /\ m.fixed = "ok" /\ m.opType \in {"GREETING", "other"}
      /\ m.opCommand \in Ops \cup {"other"}
      /\ m.payload \notin {"notString", "badHex"}
      /\ m.form \notin {"bareHex", "spacedHex"}
      /\ ~OddForm(m) /\ ~OddName(m)
  BY PlainFacts
<1>1. Py!NumberText = NumberText /\ Names \cap {NumberText} = {}
  BY NamesAssumption DEF NumberText, Py!NumberText, Nameless
<1>2. ASSUME IsHello(m) PROVE Py!handle_say_hello(m) = Handled("SAY_HELLO", m)
  <2>1. m.form \in LooseForms \cup {"exact"}
    BY <1>0 DEF Message, LooseForms
  <2>2. CASE m.payload \in Names
    <3>1. m.form = "exact"
      BY <1>0, <1>2, <2>1, <2>2 DEF OddForm
    <3>. QED  BY SameVerdicts, <1>0, <2>2, <3>1 DEF Py!handle_say_hello, Handled
  <2>3. CASE m.payload = NumberText
    <3>1. m.form \in LooseForms
      BY <1>0, <1>2, <2>3 DEF OddName
    <3>2. m.form \notin {"exact", "bareHex", "spacedHex"}
      BY <3>1 DEF LooseForms
    <3>. QED  BY SameVerdicts, <1>0, <1>1, <2>3, <3>2 DEF Py!handle_say_hello, Handled
  <2>4. CASE m.payload \notin Names \cup {NumberText}
    BY SameVerdicts, <1>0, <1>1, <2>4 DEF Py!handle_say_hello, Handled
  <2>. QED  BY <2>2, <2>3, <2>4
<1>3. Py!handle_say_goodbye(m) = Handled("SAY_GOODBYE", m)
  BY SameVerdicts, <1>0 DEF Py!handle_say_goodbye, Handled
<1>4. Py!lookup(Py!registered, m.opType, m.opCommand) = 0
        <=> ~(m.opType = "GREETING" /\ m.opCommand \in Ops)
  BY <1>0, PyLookup DEF Types, Commands
<1>5. Py!ParsesTo(m) =
        IF Py!lookup(Py!registered, m.opType, m.opCommand) = 0 THEN Http(501)
        ELSE IF m.opCommand = "SAY_HELLO" THEN Py!handle_say_hello(m)
        ELSE Py!handle_say_goodbye(m)
  BY SameVerdicts, <1>0 DEF Py!ParsesTo, Py!Invalid, Ops
<1>6. CASE ~(m.opType = "GREETING" /\ m.opCommand \in Ops)
  BY <1>4, <1>5, <1>6 DEF Acted
<1>7. CASE m.opType = "GREETING" /\ m.opCommand \in Ops
  <2>1. CASE m.opCommand = "SAY_HELLO"
    BY <1>2, <1>4, <1>5, <1>7, <2>1 DEF Acted, IsHello
  <2>2. CASE m.opCommand = "SAY_GOODBYE"
    BY <1>3, <1>4, <1>5, <1>7, <2>2 DEF Acted
  <2>. QED  BY <1>7, <2>1, <2>2 DEF Ops
<1>. QED  BY <1>6, <1>7

\* TypeScript's registry.
LEMMA TsActed ==
  ASSUME NEW m \in Message, Faults(m) = {}, ~Rejected(m)
  PROVE  Ts!processAction(m) = Acted(m)
<1>0. /\ m.body = "ok" /\ m.fixed = "ok" /\ m.opType \in {"GREETING", "other"}
      /\ m.opCommand \in Ops \cup {"other"}
      /\ m.form \notin {"bareHex", "spacedHex"}
      /\ ~OddForm(m)
  BY PlainFacts
<1>2. ASSUME IsHello(m) PROVE Ts!handleSayHello(m) = Handled("SAY_HELLO", m)
  <2>1. m.form \in LooseForms \cup {"exact"}
    BY <1>0 DEF Message, LooseForms
  <2>2. CASE m.payload \in Names
    <3>1. m.form = "exact"
      BY <1>0, <1>2, <2>1, <2>2 DEF OddForm
    <3>. QED  BY SameVerdicts, <2>2, <3>1 DEF Ts!handleSayHello, Handled
  <2>3. CASE m.payload \notin Names
    BY SameVerdicts, <2>3 DEF Ts!handleSayHello, Handled
  <2>. QED  BY <2>2, <2>3
<1>3. Ts!handleSayGoodbye(m) = Handled("SAY_GOODBYE", m)
  BY SameVerdicts, <1>0 DEF Ts!handleSayGoodbye, Handled
<1>4. Ts!lookup(Ts!registered, m.opType, m.opCommand) = 0
        <=> ~(m.opType = "GREETING" /\ m.opCommand \in Ops)
  BY <1>0, TsLookup DEF Types, Commands
<1>5. Ts!processAction(m) =
        IF Ts!lookup(Ts!registered, m.opType, m.opCommand) = 0 THEN Http(501)
        ELSE IF m.opCommand = "SAY_HELLO" THEN Ts!handleSayHello(m)
        ELSE Ts!handleSayGoodbye(m)
  BY SameVerdicts, <1>0 DEF Ts!processAction, Ts!Invalid, Ops
<1>6. CASE ~(m.opType = "GREETING" /\ m.opCommand \in Ops)
  BY <1>4, <1>5, <1>6 DEF Acted
<1>7. CASE m.opType = "GREETING" /\ m.opCommand \in Ops
  <2>1. CASE m.opCommand = "SAY_HELLO"
    BY <1>2, <1>4, <1>5, <1>7, <2>1 DEF Acted, IsHello
  <2>2. CASE m.opCommand = "SAY_GOODBYE"
    BY <1>3, <1>4, <1>5, <1>7, <2>2 DEF Acted
  <2>. QED  BY <1>7, <2>1, <2>2 DEF Ops
<1>. QED  BY <1>6, <1>7

\* The three servers classify every portable request alike, though each has
\* its own decoders.
THEOREM SameDispatch ==
  ASSUME NEW m \in Message, Portable(m)
  PROVE  \A i, j \in Impls : VerdictOf(i, m) = VerdictOf(j, m)
<1> DEFINE Routed == CASE m.path = "/action" /\ m.method = "POST" -> Acted(m)
                       [] m.path = "/state"  /\ m.method = "GET"  -> ReadState
                       [] m.path = "other"                        -> Http(404)
                       [] OTHER                                   -> Http(405)
<1>0. IsAction(m) => /\ Go!actionHandler(m) = Acted(m)
                     /\ Py!ParsesTo(m) = Acted(m)
                     /\ Ts!processAction(m) = Acted(m)
  <2>1. CASE Rejected(m)
    <3>1. Acted(m) = Http(400)
      BY <2>1 DEF Acted
    <3>. QED  BY <2>1, <3>1, RejectedByAll
  <2>2. CASE ~Rejected(m)
    BY <2>2, GoActed, PyActed, TsActed DEF Portable
  <2>. QED  BY <2>1, <2>2
<1>1. Go!Route(m) = Routed
  BY <1>0, SameVerdicts DEF Go!Route, IsAction
<1>2. Py!handle_request(m) = Routed
  BY <1>0, SameVerdicts DEF Py!handle_request, IsAction
<1>3. Ts!handleRequest(m) = Routed
  BY <1>0, SameVerdicts DEF Ts!handleRequest, IsAction
<1>4. \A i \in Impls : VerdictOf(i, m) = Routed
  BY <1>1, <1>2, <1>3 DEF Impls, VerdictOf
<1>. QED  BY <1>4

Same == seen.portable => /\ \A i, j \in Impls : st[i] = st[j]
                         /\ \A i, j \in Impls : ans[i] = ans[j]

\* One more portable request keeps the three together.
LEMMA NextSame ==
  ASSUME Same, [Next]_vars
  PROVE  Same'
<1>1. ASSUME NEW m \in Messages, Send(m) PROVE Same'
  <2> SUFFICES ASSUME seen'.portable
               PROVE  /\ \A i, j \in Impls : st'[i] = st'[j]
                      /\ \A i, j \in Impls : ans'[i] = ans'[j]
    BY DEF Same
  <2>0. seen.portable /\ Portable(m)
    BY <1>1 DEF Send
  <2>1. m \in Message
    BY ConformanceAssumption
  <2>2. ASSUME NEW i \in Impls, NEW j \in Impls PROVE st'[i] = st'[j] /\ ans'[i] = ans'[j]
    <3>1. PICK v : v = VerdictOf(i, m) /\ v = VerdictOf(j, m)
      BY <2>0, <2>1, SameDispatch
    <3>2. st[i] = st[j]
      BY <2>0 DEF Same
    <3>3. st'[i] = Serve(st[i], v) /\ st'[j] = Serve(st[j], v)
      BY <1>1, <3>1 DEF Send
    <3>4. st'[i] = st'[j]
      BY <3>2, <3>3
    <3>5. \A k \in Impls : VerdictOf(k, m) = v => ans'[k] =
             AnswerOf(v, IF v.kind = "run" THEN st'[k].count[v.op] ELSE 0,
                      IF v.kind = "state" THEN st[k] ELSE ZeroSnap)
      BY <1>1 DEF Send
    <3>. QED  BY <3>1, <3>2, <3>4, <3>5
  <2>. QED  BY <2>2
<1>2. CASE UNCHANGED vars
  BY <1>2 DEF vars, Same
<1>. QED  BY <1>1, <1>2 DEF Next, Stop

\* No sequence of portable requests, however long and with whatever names,
\* tells one extension's state from another's.
THEOREM StatesAgree == Spec => []SameState
<1>1. Init => Same
  BY DEF Init, Same
<1>2. Same /\ [Next]_vars => Same'
  BY NextSame
<1>3. Same => SameState
  BY DEF Same, SameState
<1>. QED  BY <1>1, <1>2, <1>3, PTL DEF Spec

\* Nor one extension's answers from another's.
THEOREM AnswersAgree == Spec => []SameAnswers
<1>1. Init => Same
  BY DEF Init, Same
<1>2. Same /\ [Next]_vars => Same'
  BY NextSame
<1>3. Same => SameAnswers
  BY DEF Same, SameAnswers
<1>. QED  BY <1>1, <1>2, <1>3, PTL DEF Spec


-----------------------------------------------------------------------------
(* Every fault tells two of the extensions apart.                          *)

\* The codes of the verdicts.
LEMMA Codes ==
  /\ \A c : Http(c).code = c /\ Http(c).kind = "http"
  /\ \A o : Fail(o).code = 200 /\ Fail(o).kind = "fail"
  /\ \A o, n : Run(o, n).code = 200 /\ Run(o, n).kind = "run"
  /\ Raise.code = 0 /\ Raise.kind = "raise"
  /\ ReadState.code = 200 /\ ReadState.kind = "state"
BY DEF Http, Fail, Run, Raise, ReadState

\* What passes Go's decoders is dispatched.
LEMMA GoDecoded ==
  ASSUME NEW m \in Message, m.body \in {"ok", "noId", "loose"},
         m.fixed \in {"ok", "otherCase"}, ~Go!IllTyped(m)
  PROVE  Go!actionHandler(m).code \in {200, 501}
<1>1. Go!actionHandler(m) = Go!processAction(m)
  BY DEF Go!actionHandler
<1>2. /\ Go!processSayHelloDecode(m).code = 200
      /\ Go!processSayGoodbyeDecode(m).code = 200
  BY SameVerdicts, Codes DEF Go!processSayHelloDecode, Go!processSayGoodbyeDecode
<1>3. Go!processGreeting(m).code \in {200, 501}
  BY SameVerdicts, Codes, <1>2 DEF Go!processGreeting
<1>. QED  BY SameVerdicts, Codes, <1>1, <1>3 DEF Go!processAction

\* What passes Python's is looked up.
LEMMA PyDecoded ==
  ASSUME NEW m \in Message, ~Py!Invalid(m), m.fixed \notin {"notString", "notObject"},
         m.opType \notin {"missing", "notString"}, m.opCommand # "notString"
  PROVE  /\ Py!ParsesTo(m).code \in {0, 200, 501}
         /\ m.payload # "notString" => Py!ParsesTo(m).code \in {200, 501}
<1>1. Py!ParsesTo(m) =
        IF Py!lookup(Py!registered, m.opType, m.opCommand) = 0 THEN Http(501)
        ELSE IF m.opCommand = "SAY_HELLO" THEN Py!handle_say_hello(m)
        ELSE Py!handle_say_goodbye(m)
  BY SameVerdicts DEF Py!ParsesTo
<1>2. /\ Py!handle_say_hello(m).code \in {0, 200}
      /\ m.payload # "notString" => Py!handle_say_hello(m).code = 200
  BY SameVerdicts, Codes DEF Py!handle_say_hello
<1>3. /\ Py!handle_say_goodbye(m).code \in {0, 200}
      /\ m.payload # "notString" => Py!handle_say_goodbye(m).code = 200
  BY SameVerdicts, Codes DEF Py!handle_say_goodbye
<1>. QED  BY Codes, <1>1, <1>2, <1>3

\* What passes TypeScript's is looked up.
LEMMA TsDecoded ==
  ASSUME NEW m \in Message, ~Ts!Invalid(m), "notString" \notin {m.opType, m.opCommand}
  PROVE  Ts!processAction(m).code \in {200, 501}
<1>1. Ts!processAction(m) =
        IF Ts!lookup(Ts!registered, m.opType, m.opCommand) = 0 THEN Http(501)
        ELSE IF m.opCommand = "SAY_HELLO" THEN Ts!handleSayHello(m)
        ELSE Ts!handleSayGoodbye(m)
  BY SameVerdicts DEF Ts!processAction
<1>2. Ts!handleSayHello(m).code = 200 /\ Ts!handleSayGoodbye(m).code = 200
  BY SameVerdicts, Codes DEF Ts!handleSayHello, Ts!handleSayGoodbye
<1>. QED  BY Codes, <1>1, <1>2

\* Two verdicts no caller takes for each other: another HTTP status, or a
\* success against a failure.
Apart(v, w) == v.code # w.code \/ (v.kind = "run" /\ w.kind = "fail")
                              \/ (v.kind = "fail" /\ w.kind = "run")

\* A request with a single fault is classified differently by two of the
\* three servers: none of the faults that Portable excludes is excluded idly.
THEOREM FaultsTellApart ==
  ASSUME NEW m \in Message, Disputed(m)
  PROVE  \E i, j \in Impls : Apart(VerdictOf(i, m), VerdictOf(j, m))
<1> DEFINE g == Go!actionHandler(m)
           p == Py!ParsesTo(m)
           t == Ts!processAction(m)
<1>1. VerdictOf("go", m) = g /\ VerdictOf("python", m) = p /\ VerdictOf("typescript", m) = t
  BY DEF Disputed, IsAction, VerdictOf, Go!Route, Py!handle_request, Ts!handleRequest
<1>2. SUFFICES Apart(g, p) \/ Apart(g, t) \/ Apart(p, t)
  BY <1>1 DEF Impls
<1> HIDE DEF g, p, t
<1>3. PICK f \in Faults(m) : Faults(m) = {f}
  BY DEF Disputed
<1>4. /\ m.body \in {"ok", "noId", "illTyped", "loose"}
      /\ m.fixed \notin {"badHex", "notJSON"}
      /\ m.fixed \in {"ok", "bareHex", "spacedHex", "notString", "notObject", "otherCase", "illTyped"}
      /\ m.opType \in {"GREETING", "other", "missing", "empty", "notHash", "notString"}
      /\ m.opCommand \in Ops \cup {"other", "notHash", "notString"}
      /\ m.form \in LooseForms \cup {"exact", "bareHex", "spacedHex"}
  BY DEF Disputed, Rejected, Message, LooseForms
<1>5. f \in {"body", "fixed", "opType", "opCommand", "payload", "form"}
  BY <1>3 DEF Faults
<1>6. /\ f # "body" => m.body = "ok"
      /\ f # "fixed" => m.fixed = "ok"
      /\ f # "opType" => m.opType \in {"GREETING", "other"}
      /\ f # "opCommand" => m.opCommand \in Ops \cup {"other"}
  <2>1. f # "body" => "body" \notin Faults(m)
    BY <1>3
  <2>2. f # "fixed" => "fixed" \notin Faults(m)
    BY <1>3
  <2>3. f # "opType" => "opType" \notin Faults(m)
    BY <1>3
  <2>4. f # "opCommand" => "opCommand" \notin Faults(m)
    BY <1>3
  <2>. QED  BY <1>4, <2>1, <2>2, <2>3, <2>4 DEF Faults
<1>7. /\ f # "payload" => m.payload \notin {"notString", "badHex"} /\ ~OddName(m)
      /\ f # "form" => m.form \notin {"bareHex", "spacedHex"} /\ ~OddForm(m)
  <2>1. f # "payload" => "payload" \notin Faults(m)
    BY <1>3
  <2>2. f # "form" => "form" \notin Faults(m)
    BY <1>3
  <2>. QED  BY <2>1, <2>2 DEF Faults
<1>g. g.code = 400 \/ g.code \in {200, 501}
  BY SameVerdicts, Codes DEF g, Go!actionHandler, Go!processAction, Go!processGreeting,
     Go!processSayHelloDecode, Go!processSayGoodbyeDecode
<1>8. CASE f = "body"
  <2>1. /\ m.fixed = "ok" /\ m.opType \in {"GREETING", "other"} /\ m.opCommand \in Ops \cup {"other"}
        /\ m.payload \notin {"notString", "badHex"} /\ m.form \notin {"bareHex", "spacedHex"}
    BY <1>6, <1>7, <1>8
  <2>2. m.body \in {"noId", "illTyped", "loose"}
    BY <1>3, <1>8 DEF Faults
  <2>3. CASE m.body = "noId"
    <3>1. p.code = 400
      BY SameVerdicts, Codes, <2>3 DEF p, Py!ParsesTo, Py!Invalid
    <3>2. t.code \in {200, 501}
      BY TsDecoded, <2>1, <2>3 DEF t, Ts!Invalid, Ops
    <3>. QED  BY <3>1, <3>2 DEF Apart
  <2>4. CASE m.body = "illTyped"
    <3>1. g.code = 400
      BY SameVerdicts, Codes, <2>4 DEF g, Go!actionHandler
    <3>2. t.code \in {200, 501}
      BY TsDecoded, <2>1, <2>4 DEF t, Ts!Invalid, Ops
    <3>. QED  BY <3>1, <3>2 DEF Apart
  <2>5. CASE m.body = "loose"
    <3>1. p.code = 400
      BY SameVerdicts, Codes, <2>5 DEF p, Py!ParsesTo, Py!Invalid
    <3>2. ~Go!IllTyped(m)
      BY <2>1 DEF Go!IllTyped, Ops
    <3>3. g.code \in {200, 501}
      BY GoDecoded, <2>1, <2>5, <3>2 DEF g
    <3>. QED  BY <3>1, <3>3 DEF Apart
  <2>. QED  BY <2>2, <2>3, <2>4, <2>5
<1>9. CASE f = "fixed"
  <2>1. /\ m.body = "ok" /\ m.opType \in {"GREETING", "other"} /\ m.opCommand \in Ops \cup {"other"}
        /\ m.payload \notin {"notString", "badHex"} /\ m.form \notin {"bareHex", "spacedHex"}
    BY <1>6, <1>7, <1>9
  <2>2. m.fixed \in {"bareHex", "spacedHex", "notString", "notObject", "otherCase", "illTyped"}
    <3>1. m.fixed # "ok"
      BY <1>3, <1>9 DEF Faults
    <3>. QED  BY <1>4, <3>1
  <2>3. CASE m.fixed \in {"bareHex", "illTyped"}
    <3>1. g.code = 400
      BY SameVerdicts, Codes, <2>1, <2>3 DEF g, Go!actionHandler, Go!processAction, Go!IllTyped
    <3>2. t.code \in {200, 501}
      BY TsDecoded, <2>1, <2>3 DEF t, Ts!Invalid, Ops
    <3>. QED  BY <3>1, <3>2 DEF Apart
  <2>4. CASE m.fixed = "spacedHex"
    <3>1. g.code = 400
      BY SameVerdicts, Codes, <2>4 DEF g, Go!actionHandler
    <3>2. p.code \in {200, 501}
      BY PyDecoded, <2>1, <2>4 DEF p, Py!Invalid, Ops
    <3>. QED  BY <3>1, <3>2 DEF Apart
  <2>5. CASE m.fixed \in {"notString", "notObject"}
    <3>1. p.code = 0
      BY SameVerdicts, Codes, <2>1, <2>5 DEF p, Py!ParsesTo, Py!Invalid
    <3>. QED  BY <1>g, <3>1 DEF Apart
  <2>6. CASE m.fixed = "otherCase"
    <3>1. p.code = 400
      BY SameVerdicts, Codes, <2>6 DEF p, Py!ParsesTo, Py!Invalid
    <3>2. ~Go!IllTyped(m)
      BY <2>1, <2>6 DEF Go!IllTyped, Ops
    <3>3. g.code \in {200, 501}
      BY GoDecoded, <2>1, <2>6, <3>2 DEF g
    <3>. QED  BY <3>1, <3>3 DEF Apart
  <2>. QED  BY <2>2, <2>3, <2>4, <2>5, <2>6
<1>10. CASE f = "opType"
  <2>1. /\ m.body = "ok" /\ m.fixed = "ok" /\ m.opCommand \in Ops \cup {"other"}
        /\ m.payload \notin {"notString", "badHex"} /\ m.form \notin {"bareHex", "spacedHex"}
    BY <1>6, <1>7, <1>10
  <2>2. m.opType \in {"missing", "empty", "notHash", "notString"}
    <3>1. m.opType \notin {"GREETING", "other"}
      BY <1>3, <1>10 DEF Faults
    <3>. QED  BY <1>4, <3>1
  <2>3. CASE m.opType = "missing"
    <3>1. p.code = 400
      BY SameVerdicts, Codes, <2>1, <2>3 DEF p, Py!ParsesTo, Py!Invalid
    <3>2. ~Go!IllTyped(m)
      BY <2>1, <2>3 DEF Go!IllTyped, Ops
    <3>3. g.code \in {200, 501}
      BY GoDecoded, <2>1, <3>2 DEF g
    <3>. QED  BY <3>1, <3>3 DEF Apart
  <2>4. CASE m.opType \in {"empty", "notHash"}
    <3>1. g.code = 400
      BY SameVerdicts, Codes, <2>1, <2>4 DEF g, Go!actionHandler, Go!processAction, Go!IllTyped
    <3>2. p.code \in {200, 501}
      BY PyDecoded, <2>1, <2>4 DEF p, Py!Invalid, Ops
    <3>. QED  BY <3>1, <3>2 DEF Apart
  <2>5. CASE m.opType = "notString"
    <3>1. p.code = 0
      BY SameVerdicts, Codes, <2>1, <2>5 DEF p, Py!ParsesTo, Py!Invalid
    <3>. QED  BY <1>g, <3>1 DEF Apart
  <2>. QED  BY <2>2, <2>3, <2>4, <2>5
<1>11. CASE f = "opCommand"
  <2>1. /\ m.body = "ok" /\ m.fixed = "ok" /\ m.opType \in {"GREETING", "other"}
        /\ m.payload \notin {"notString", "badHex"} /\ m.form \notin {"bareHex", "spacedHex"}
    BY <1>6, <1>7, <1>11
  <2>2. m.opCommand \in {"notHash", "notString"}
    BY <1>3, <1>11 DEF Faults
  <2>3. g.code = 400
    BY SameVerdicts, Codes, <2>1, <2>2 DEF g, Go!actionHandler, Go!processAction, Go!IllTyped
  <2>4. CASE m.opCommand = "notHash"
    <3>1. p.code \in {200, 501}
      BY PyDecoded, <2>1, <2>4 DEF p, Py!Invalid
    <3>. QED  BY <2>3, <3>1 DEF Apart
  <2>5. CASE m.opCommand = "notString"
    <3>1. p.code = 0
      BY SameVerdicts, Codes, <2>1, <2>5 DEF p, Py!ParsesTo, Py!Invalid
    <3>. QED  BY <2>3, <3>1 DEF Apart
  <2>. QED  BY <2>2, <2>4, <2>5
<1>12. CASE f = "payload"
  <2>1. /\ m.body = "ok" /\ m.fixed = "ok" /\ m.opType \in {"GREETING", "other"}
        /\ m.opCommand \in Ops \cup {"other"} /\ m.form \notin {"bareHex", "spacedHex"}
    BY <1>6, <1>7, <1>12
  <2>2. m.payload \in {"notString", "badHex"} \/ OddName(m)
    BY <1>3, <1>12 DEF Faults
  <2>3. CASE m.payload \in {"notString", "badHex"}
    <3>1. g.code = 400
      BY SameVerdicts, Codes, <2>1, <2>3 DEF g, Go!actionHandler, Go!processAction, Go!IllTyped
    <3>2. t.code \in {200, 501}
      BY TsDecoded, <2>1 DEF t, Ts!Invalid, Ops
    <3>. QED  BY <3>1, <3>2 DEF Apart
  <2>4. CASE OddName(m)
    <3>1. m.payload = NumberText /\ m.form = "exact" /\ IsHello(m)
      BY <1>4, <2>1, <2>4 DEF OddName
    <3>2. NumberText \notin Names /\ Py!NumberText = NumberText
          /\ NumberText \notin {"notString", "badHex"}
      BY NamesAssumption DEF NumberText, Py!NumberText, Nameless
    <3>3. g.kind = "fail"
      <4>1. ~Go!IllTyped(m)
        BY <2>1, <3>1, <3>2 DEF Go!IllTyped, Ops
      <4>2. g = Go!processSayHelloDecode(m)
        BY <2>1, <3>1, <4>1 DEF g, Go!actionHandler, Go!processAction, Go!processGreeting, IsHello
      <4>. QED  BY SameVerdicts, Codes, <3>1, <3>2, <4>2 DEF Go!processSayHelloDecode
    <3>4. p.kind = "run"
      <4>1. Py!lookup(Py!registered, m.opType, m.opCommand) # 0
        BY PyLookup, <3>1 DEF IsHello, Types, Commands, Ops
      <4>2. p = Py!handle_say_hello(m)
        BY <2>1, <3>1, <4>1 DEF p, Py!ParsesTo, Py!Invalid, IsHello
      <4>. QED  BY SameVerdicts, Codes, <3>1, <3>2, <4>2 DEF Py!handle_say_hello
    <3>. QED  BY <3>3, <3>4 DEF Apart
  <2>. QED  BY <2>2, <2>3, <2>4
<1>13. CASE f = "form"
  <2>1. /\ m.body = "ok" /\ m.fixed = "ok" /\ m.opType \in {"GREETING", "other"}
        /\ m.opCommand \in Ops \cup {"other"} /\ m.payload \notin {"notString", "badHex"}
    BY <1>6, <1>7, <1>13
  <2>2. m.form \in {"bareHex", "spacedHex"} \/ OddForm(m)
    BY <1>3, <1>13 DEF Faults
  <2>3. CASE m.form \in {"bareHex", "spacedHex"}
    <3>1. g.code = 400
      BY SameVerdicts, Codes, <2>1, <2>3 DEF g, Go!actionHandler, Go!processAction, Go!IllTyped
    <3>2. p.code \in {200, 501}
      BY PyDecoded, <2>1 DEF p, Py!Invalid, Ops
    <3>. QED  BY <3>1, <3>2 DEF Apart
  <2>4. CASE OddForm(m)
    <3>1. m.payload \in Names /\ m.form \in {"otherCase", "trailing", "badUtf8"} /\ IsHello(m)
      BY <2>4 DEF OddForm, LooseForms
    <3>3. g.kind = "run"
      <4>1. ~Go!IllTyped(m)
        BY <2>1, <3>1 DEF Go!IllTyped, Ops
      <4>2. g = Go!processSayHelloDecode(m)
        BY <2>1, <3>1, <4>1 DEF g, Go!actionHandler, Go!processAction, Go!processGreeting, IsHello
      <4>. QED  BY SameVerdicts, Codes, <3>1, <4>2 DEF Go!processSayHelloDecode
    <3>4. p.kind = "fail"
      <4>1. Py!lookup(Py!registered, m.opType, m.opCommand) # 0
        BY PyLookup, <3>1 DEF IsHello, Types, Commands, Ops
      <4>2. p = Py!handle_say_hello(m)
        BY <2>1, <3>1, <4>1 DEF p, Py!ParsesTo, Py!Invalid, IsHello
      <4>. QED  BY SameVerdicts, Codes, <2>1, <3>1, <4>2 DEF Py!handle_say_hello
    <3>. QED  BY <3>3, <3>4 DEF Apart
  <2>. QED  BY <2>2, <2>3, <2>4
<1>. QED  BY <1>5, <1>8, <1>9, <1>10, <1>11, <1>12, <1>13

\* A verdict of any of the servers: its code goes with its kind.
Coherent(v) ==
    /\ v.kind \in {"http", "fail", "run", "state", "raise"}
    /\ v.kind \in {"fail", "run", "state"} => v.code = 200
    /\ v.kind = "raise" => v.code = 0

LEMMA VerdictsCoherent ==
  ASSUME NEW m, NEW i \in Impls
  PROVE  Coherent(VerdictOf(i, m))
<1>1. /\ \A c : Coherent(Http(c)) /\ \A o : Coherent(Fail(o))
      /\ \A o, n : Coherent(Run(o, n)) /\ Coherent(Raise) /\ Coherent(ReadState)
  BY Codes DEF Coherent
<1>2. Coherent(Go!Route(m))
  <2>1. Coherent(Go!processGreeting(m))
    BY SameVerdicts, <1>1 DEF Go!processGreeting, Go!processSayHelloDecode, Go!processSayGoodbyeDecode
  <2>2. Coherent(Go!actionHandler(m))
    BY SameVerdicts, <1>1, <2>1 DEF Go!actionHandler, Go!processAction
  <2>. QED  BY SameVerdicts, <1>1, <2>2 DEF Go!Route
<1>3. Coherent(Py!handle_request(m))
  <2>1. Coherent(Py!handle_say_hello(m)) /\ Coherent(Py!handle_say_goodbye(m))
    BY SameVerdicts, <1>1 DEF Py!handle_say_hello, Py!handle_say_goodbye
  <2>2. Coherent(Py!ParsesTo(m))
    BY SameVerdicts, <1>1, <2>1 DEF Py!ParsesTo
  <2>. QED  BY SameVerdicts, <1>1, <2>2 DEF Py!handle_request
<1>4. Coherent(Ts!handleRequest(m))
  <2>1. Coherent(Ts!handleSayHello(m)) /\ Coherent(Ts!handleSayGoodbye(m))
    BY SameVerdicts, <1>1 DEF Ts!handleSayHello, Ts!handleSayGoodbye
  <2>2. Coherent(Ts!processAction(m))
    BY SameVerdicts, <1>1, <2>1 DEF Ts!processAction
  <2>. QED  BY SameVerdicts, <1>1, <2>2 DEF Ts!handleRequest
<1>. QED  BY <1>2, <1>3, <1>4 DEF Impls, VerdictOf

\* Verdicts that are apart lead to different answers.
LEMMA ApartAnswers ==
  ASSUME NEW v, NEW w, Coherent(v), Coherent(w), Apart(v, w),
         NEW n1, NEW n2, NEW s1, NEW s2
  PROVE  AnswerOf(v, n1, s1) # AnswerOf(w, n2, s2)
<1>1. \A u, n, s : Coherent(u) =>
        /\ AnswerOf(u, n, s).code = u.code
        /\ u.kind = "run" => AnswerOf(u, n, s).status = "ok"
        /\ u.kind = "fail" => AnswerOf(u, n, s).status = "error"
  BY DEF AnswerOf, NoAnswer, Coherent
<1>. QED  BY <1>1 DEF Apart

\* Whatever was sent before, the answers to a request with a single fault
\* differ.
THEOREM FaultsAreShown == Spec => []FaultsShow
<1>1. Init => FaultsShow
  BY DEF Init, FaultsShow
<1>2. FaultsShow /\ [Next]_vars => FaultsShow'
  <2> SUFFICES ASSUME FaultsShow, [Next]_vars PROVE FaultsShow'
    OBVIOUS
  <2>1. ASSUME NEW m \in Messages, Send(m), seen'.disputed
        PROVE  \E i, j \in Impls : ans'[i] # ans'[j]
    <3>1. m \in Message /\ Disputed(m)
      BY <2>1, ConformanceAssumption DEF Send
    <3>2. PICK i \in Impls, j \in Impls : Apart(VerdictOf(i, m), VerdictOf(j, m))
      BY <3>1, FaultsTellApart
    <3>3. Coherent(VerdictOf(i, m)) /\ Coherent(VerdictOf(j, m))
      BY VerdictsCoherent
    <3>4. \A k \in Impls : \E n, s : ans'[k] = AnswerOf(VerdictOf(k, m), n, s)
      BY <2>1 DEF Send
    <3>. QED  BY <3>2, <3>3, <3>4, ApartAnswers
  <2>2. CASE UNCHANGED vars
    BY <2>2 DEF vars, FaultsShow
  <2>. QED  BY <2>1, <2>2 DEF Next, Stop, FaultsShow
<1>. QED  BY <1>1, <1>2, PTL DEF Spec
=============================================================================
