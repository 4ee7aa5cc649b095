------------------------------ MODULE Reverts -------------------------------
(***************************************************************************)
(* How the tools get at the reason of a reverted call, which decides       *)
(* whether an error is taken for success: run-test goes on when an error   *)
(* says "already set", allow-tee-version when it says                      *)
(* "VersionAlreadyExists".                                                 *)
(*                                                                         *)
(* A text is what matters of it: whether it is empty, and which reasons it *)
(* contains.  Revert data is Error(string), which spells its reason, a     *)
(* custom error, of which only the selector is known without an ABI, or    *)
(* too short or garbled to be either.                                      *)
(***************************************************************************)

\* The outcome of a call: the revert's payload, or none.
Payload(kind, reason) == [kind |-> kind, reason |-> reason]
ErrorString(reason) == Payload("Error", reason)
Custom(name) == Payload("custom", name)
Garbled == Payload("garbled", "")
NoData == Payload("none", "")
Success == Payload("success", "")

\* External: RPC nodes differ in whether the message of an error spells the
\* reason of an Error(string), and the name of a custom error; in whether an
\* error of eth_estimateGas carries the payload; and in whether eth_call gives
\* it in the error, as a result, or not at all.
RpcNode == [spells : SUBSET {"Error", "custom"}, estimate : BOOLEAN,
            call : {"data", "result", "none"}]

Empty == [empty |-> TRUE, says |-> {}]
Text(reasons) == [empty |-> FALSE, says |-> reasons]
Raw == Text({})  \* the payload in hexadecimal

RpcError(n, payload, withData) ==
    [message |-> Text(IF payload.kind \in n.spells THEN {payload.reason} ELSE {}),
     data |-> IF withData THEN payload ELSE NoData]

EstimateError(n, payload) == RpcError(n, payload, n.estimate)
\* A call that did not reach a node.
NetworkError == [message |-> Raw, data |-> NoData]

decodeRevertHex(payload) ==
    CASE payload.kind = "Error"  -> Text({payload.reason})
      [] payload.kind = "custom" -> Raw
      [] OTHER -> Empty

DecodeRevertReason(err) == decodeRevertHex(err.data)

\* Mutant: the error of the replay is not looked at when it has no data.
SimulateAndDecodeRevert_DataOnly(n, payload) ==
    IF payload = Success \/ n.call # "data" THEN Empty ELSE decodeRevertHex(payload)

\* The call replayed at the latest block. The calls it is used for return
\* nothing when they succeed.
SimulateAndDecodeRevert(n, payload) ==
    LET err == RpcError(n, payload, n.call = "data") IN
    IF payload = Success THEN Empty
    ELSE IF n.call = "result" THEN decodeRevertHex(payload)
    ELSE IF DecodeRevertReason(err).empty THEN err.message
    ELSE DecodeRevertReason(err)

\* What SetExtensionId's error says after a failed estimate: the error itself
\* and the reason in its data, or else that of a replay.
SendErrorSays(n, err, replay) ==
    LET reason == IF DecodeRevertReason(err).empty THEN SimulateAndDecodeRevert(n, replay)
                  ELSE DecodeRevertReason(err)
    IN  err.message.says \cup reason.says

\* CheckTx's error for a reverted transaction, from its replay: only an
\* Error(string) is unpacked.
getFailingMessage(n, payload) ==
    LET err == RpcError(n, payload, n.call = "data") IN
    IF payload = Success \/ n.call = "result"
    THEN decodeRevertHex(payload)
    ELSE IF err.data.kind = "Error" THEN Text({payload.reason})
    ELSE err.message

\* preregistration's: the ABI's custom errors are looked up by selector, in
\* the replay only.
MatchCustomError(n, payload) ==
    IF payload.kind = "custom" /\ n.call # "none" THEN Text({payload.reason}) ELSE Empty

RegisterErrorSays(n, err, replay) ==
    LET named == MatchCustomError(n, replay)
        reason == DecodeRevertReason(err)
    IN  IF ~named.empty THEN named.says
        ELSE IF ~reason.empty THEN reason.says
        ELSE SimulateAndDecodeRevert(n, replay).says

\* The diagnostic replays look only at the data of the replay's error: an
\* Error(string) is unpacked, other selectors are looked up in the ABIs.
ExtractRevertData(err) == err.data
SelectorSays(data) == IF data.kind \in {"Error", "custom"} THEN {data.reason} ELSE {}

\* What register-tee says of a refused availability check.
diagAvailabilityCheckRevert(n, payload) ==
    SelectorSays(ExtractRevertData(RpcError(n, payload, n.call = "data")))

\* What audit-deploy says of addTeeVersion.
replayAddTeeVersion(n, payload) ==
    SelectorSays(ExtractRevertData(RpcError(n, payload, n.call = "data")))

\* Reverts of a call, with an ABI at hand that has the custom error.
Reasons == {ErrorString("already set"), Custom("VersionAlreadyExists")}

\* The node lets the reason of an Error(string) through: in the message, in
\* the data of the estimate, or in the replay.
Telling == {n \in RpcNode : "Error" \in n.spells \/ n.estimate \/ n.call # "none"}
=============================================================================
