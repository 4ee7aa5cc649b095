-------------------------- MODULE ExtensionProofs --------------------------
(***************************************************************************)
(* Lemmas about the vocabulary the three servers share.                    *)
(***************************************************************************)
EXTENDS Extension, TLAPS

\* Only a handler's answer depends on the number, only a state read's on the
\* snapshot (buildResult and the state encoders).
LEMMA AnswerDepends ==
  ASSUME NEW v \in Verdict, NEW n1, NEW n2, NEW s1, NEW s2,
         v.kind = "run" => n1 = n2, v.kind = "state" => s1 = s2
  PROVE  AnswerOf(v, n1, s1) = AnswerOf(v, n2, s2)
<1>1. v.kind \in {"http", "fail", "run", "state", "raise"}
  BY DEF Verdict
<1>2. CASE v.kind = "http"
  BY <1>2 DEF AnswerOf
<1>3. CASE v.kind = "fail"
  BY <1>3 DEF AnswerOf
<1>4. CASE v.kind = "run"
  BY <1>4 DEF AnswerOf
<1>5. CASE v.kind = "state"
  BY <1>5 DEF AnswerOf
<1>6. CASE v.kind = "raise"
  BY <1>6 DEF AnswerOf
<1>. QED  BY <1>1, <1>2, <1>3, <1>4, <1>5, <1>6

\* Only a handler that ran answers with status "ok", and it names its op.
LEMMA AnswerStatus ==
  ASSUME NEW v \in Verdict, NEW n, NEW s
  PROVE  /\ AnswerOf(v, n, s).status = "ok" <=> v.kind = "run"
         /\ v.kind = "run" => AnswerOf(v, n, s).op = v.op
<1>1. v.kind \in {"http", "fail", "run", "state", "raise"}
  BY DEF Verdict
<1>2. CASE v.kind = "http"
  BY <1>2 DEF AnswerOf, NoAnswer
<1>3. CASE v.kind = "fail"
  BY <1>3 DEF AnswerOf, NoAnswer
<1>4. CASE v.kind = "run"
  BY <1>4 DEF AnswerOf, NoAnswer
<1>5. CASE v.kind = "state"
  BY <1>5 DEF AnswerOf, NoAnswer
<1>6. CASE v.kind = "raise"
  BY <1>6 DEF AnswerOf, NoAnswer
<1>. QED  BY <1>1, <1>2, <1>3, <1>4, <1>5, <1>6
=============================================================================
