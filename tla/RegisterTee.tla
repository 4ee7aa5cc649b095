---------------------------- MODULE RegisterTee ----------------------------
(***************************************************************************)
(* tools/cmd/register-tee: the steps that take a TEE machine to production *)
(*                                                                         *)
(*   r  pre-register the machine (issues an attestation challenge)         *)
(*   R  request an attestation (issues a challenge)                        *)
(*   a  request the FTDC availability check, which consumes a challenge    *)
(*   p  fetch the availability proof and promote the machine               *)
(*                                                                         *)
(* with the state file that lets a run be resumed, the transactions that   *)
(* may be mined after the tool gave up on them, and the TEE node, which    *)
(* mints a new teeID whenever it is relaunched.                            *)
(*                                                                         *)
(* External: the registry contracts, known by the reverts the tool reports *)
(* and works around, and the FTDC proxy, which answers with a proof once   *)
(* the TEE has been found alive.                                           *)
(***************************************************************************)
EXTENDS Naturals, Sequences

CONSTANTS
    Commands,       \* values of -command, as sets of steps
    Resumes,        \* values of -resume the operator uses
    Faults,         \* what may go wrong, a subset of FaultKinds
    MaxFaults,      \* bound on the number of faults
    MaxRelaunches,  \* bound on relaunches of the TEE node
    MaxReruns,      \* bound on runs that do not serve to get to production
    MaxIssued       \* bound on instructions issued

Steps == {"r", "R", "a", "p"}
FaultKinds == {"abort", "saveFails", "torn", "expire", "poll"}

ASSUME CommandsAssumption == Commands \subseteq SUBSET Steps
ASSUME OperatorAssumption == Resumes \subseteq BOOLEAN /\ Faults \subseteq FaultKinds
ASSUME BoundsAssumption ==
    MaxFaults \in Nat /\ MaxRelaunches \in Nat /\ MaxReruns \in Nat /\ MaxIssued \in Nat

\* teeIDs, in the order the node mints them.
Tees == 1 .. (1 + MaxRelaunches)

\* An instruction ID is a position in issued; 0 is the zero hash.
NoId == 0

VARIABLES
    registered, \* chain: machines with an entry in TeeMachineRegistry
    production, \* chain: machines in production
    issued,     \* chain: instructions, by ID
    pool,       \* transactions sent and not yet mined, in nonce order
    receipt,    \* of the transaction mined last
    live,       \* teeID of the node behind the extension proxy
    file,       \* the state file
    step,       \* the step the running tool is at, "off" when none runs
    phase,      \* where in that step
    run,        \* teeID, -command and -i of the run
    state,      \* registrationState in memory
    attest,     \* local teeAttestInstructionID
    avail,      \* local instructionID
    reported,   \* machines logged as registered, each with its run's -command
    faults,     \* faults so far
    reruns      \* reruns so far

chain == <<registered, production, issued, receipt>>
tool == <<step, phase, run, state, attest, avail>>
history == <<reported, faults, reruns>>
vars == <<chain, pool, live, file, tool, history>>

NoState == [steps |-> {}, attest |-> NoId, avail |-> NoId]
NoFile == [torn |-> FALSE, saved |-> NoState]

\* Instructions: an attestation's challenge is live until it is used or
\* expires; an availability check is pending until the TEE is proved alive.
Attestation(t) == [kind |-> "attest", tee |-> t, status |-> "live"]
Check(t)       == [kind |-> "avail", tee |-> t, status |-> "pending"]

LiveChallenge(id, t) == id \in DOMAIN issued /\ issued[id] = Attestation(t)
Proved(id) ==
    id \in DOMAIN issued /\ issued[id].kind = "avail" /\ issued[id].status = "proved"

Init ==
    /\ registered = {} /\ production = {}
    /\ issued = <<>>
    /\ pool = <<>>
    /\ receipt = [ok |-> FALSE, id |-> NoId]
    /\ live = 1
    /\ file = NoFile
    /\ step = "off" /\ phase = "begin"
    /\ run = [tee |-> 1, command |-> {}, flag |-> NoId]
    /\ state = NoState
    /\ attest = NoId /\ avail = NoId
    /\ reported = {}
    /\ faults = 0 /\ reruns = 0

-----------------------------------------------------------------------------
(* The registry contracts.                                                 *)

Tx(op, t, id) == [op |-> op, tee |-> t, id |-> id]

Accepts(tx) ==
    CASE tx.op = "register" -> tx.tee \notin registered
      [] tx.op = "attest"   -> tx.tee \in registered
      [] tx.op = "check"    -> LiveChallenge(tx.id, tx.tee)
      [] tx.op = "promote"  -> tx.tee \in registered

\* The next transaction is mined, whoever still waits for it.
Mine ==
    /\ pool # <<>>
    /\ pool' = Tail(pool)
    /\ LET tx == Head(pool) IN
       IF ~Accepts(tx)
       THEN /\ receipt' = [ok |-> FALSE, id |-> NoId]
            /\ UNCHANGED <<registered, production, issued>>
       ELSE /\ registered' = registered \cup (IF tx.op = "register" THEN {tx.tee} ELSE {})
            /\ production' = production \cup (IF tx.op = "promote" THEN {tx.tee} ELSE {})
            /\ issued' =
                 CASE tx.op \in {"register", "attest"} -> Append(issued, Attestation(tx.tee))
                   [] tx.op = "check" ->
                        Append([issued EXCEPT ![tx.id].status = "used"], Check(tx.tee))
                   [] tx.op = "promote" -> issued
            /\ receipt' = [ok |-> TRUE, id |-> Len(issued')]
    /\ UNCHANGED <<live, file, tool, history>>

\* The FTDC finds the TEE alive and publishes the proof.
Prove(id) ==
    /\ id \in DOMAIN issued /\ issued[id] = Check(live)
    /\ issued' = [issued EXCEPT ![id].status = "proved"]
    /\ UNCHANGED <<registered, production, receipt, pool, live, file, tool, history>>

-----------------------------------------------------------------------------
(* The tool.                                                               *)

Fault(kind) == kind \in Faults /\ faults < MaxFaults /\ faults' = faults + 1

After == [r |-> "R", R |-> "a", a |-> "p"]

\* A run of the steps that follow each other to production.
Full(command) == {"r", "a", "p"} \subseteq command

\* A run for a machine already in production, or of single steps.
Rerun(command) == live \in production \/ ~Full(command)

\* The bound MaxIssued leaves room for the instructions of one more run.
RoomForARun == Len(issued) + Len(pool) + 3 <= MaxIssued

\* Mutant: the state file is kept without -resume.
Start_KeepsFile(command, resume, flag) ==
    /\ step = "off"
    /\ Rerun(command) => reruns < MaxReruns
    /\ RoomForARun
    /\ ~file.torn
    /\ UNCHANGED file
    /\ state' = file'.saved
    /\ run' = [tee |-> live, command |-> command, flag |-> flag]
    /\ step' = "r" /\ phase' = "begin"
    /\ attest' = NoId /\ avail' = NoId
    /\ reruns' = IF Rerun(command) THEN reruns + 1 ELSE reruns
    /\ UNCHANGED <<chain, pool, live, reported, faults>>

\* Mutant: an error of TeeProxyId is ignored and leaves the zero address.
Start_ZeroTee(command, resume, flag) ==
    /\ step = "off"
    /\ RoomForARun
    /\ file' = NoFile
    /\ state' = NoState
    /\ run' = [tee |-> 0, command |-> command, flag |-> flag]
    /\ step' = "r" /\ phase' = "begin"
    /\ attest' = NoId /\ avail' = NoId
    /\ UNCHANGED <<chain, pool, live, reported, faults, reruns>>

\* main up to the call of RegisterNode, and loadState.  The operator runs the
\* tool until the machine is in production, and MaxReruns times otherwise.
Start(command, resume, flag) ==
    /\ step = "off"
    /\ Rerun(command) => reruns < MaxReruns
    /\ RoomForARun
    /\ resume => ~file.torn
    /\ file' = IF resume THEN file ELSE NoFile
    /\ state' = file'.saved
    /\ run' = [tee |-> live, command |-> command, flag |-> flag]
    /\ step' = "r" /\ phase' = "begin"
    /\ attest' = NoId /\ avail' = NoId
    /\ reruns' = IF Rerun(command) THEN reruns + 1 ELSE reruns
    /\ UNCHANGED <<chain, pool, live, reported, faults>>

\* A step not asked for, or one the state file says is completed.
Skip ==
    /\ step \in {"r", "R", "a"} /\ phase = "begin"
    /\ step \notin run.command \/ step \in state.steps
    /\ attest' = IF step \in {"r", "R"} \cap run.command THEN state.attest ELSE attest
    /\ avail' = IF step # "a" THEN avail
                ELSE IF "a" \in run.command THEN state.avail ELSE run.flag
    /\ step' = After[step]
    /\ UNCHANGED <<chain, pool, live, file, phase, run, state, history>>

\* Sending simulates the call first (gas estimation): a call that reverts is
\* an error and leaves no transaction behind.
Send(tx) ==
    IF Accepts(tx) THEN pool' = Append(pool, tx) /\ phase' = "wait" /\ UNCHANGED step
                   ELSE step' = "off" /\ UNCHANGED <<pool, phase>>

Due(s) == step = s /\ phase = "begin" /\ s \in run.command /\ s \notin state.steps

\* Mutant: no look at the registry before registering.
PreRegister_Always ==
    /\ Due("r")
    /\ Send(Tx("register", run.tee, NoId))
    /\ UNCHANGED <<chain, live, file, run, state, attest, avail, history>>

\* Pre-registration, or a fresh attestation for a machine already registered.
PreRegister ==
    /\ Due("r")
    /\ Send(Tx(IF run.tee \in registered THEN "attest" ELSE "register", run.tee, NoId))
    /\ UNCHANGED <<chain, live, file, run, state, attest, avail, history>>

RequestTeeAttestation ==
    /\ Due("R")
    /\ Send(Tx("attest", run.tee, NoId))
    /\ UNCHANGED <<chain, live, file, run, state, attest, avail, history>>

\* The policy pre-flight that comes first can only end the run (Abort).
RequestFTDCAvailabilityCheck ==
    /\ Due("a")
    /\ Send(Tx("check", run.tee, attest))
    /\ UNCHANGED <<chain, live, file, run, state, attest, avail, history>>

\* The proof names the machine that was checked.
ToProduction ==
    /\ Due("p")
    /\ Proved(avail)
    /\ Send(Tx("promote", issued[avail].tee, NoId))
    /\ UNCHANGED <<chain, live, file, run, state, attest, avail, history>>

\* ActionResult runs out of polls.  While the checked TEE can still be proved
\* alive this is a fault; otherwise no proof will ever come.
PollTimesOut ==
    /\ Due("p")
    /\ ~Proved(avail)
    /\ IF avail \in DOMAIN issued /\ issued[avail] = Check(live)
       THEN Fault("poll") ELSE UNCHANGED faults
    /\ step' = "off"
    /\ UNCHANGED <<chain, pool, live, file, phase, run, state, attest, avail,
                   reported, reruns>>

\* CheckTx: the receipt of the tool's own transaction, always the last sent.
Receipt ==
    /\ phase = "wait" /\ step \in {"r", "R", "a"} /\ pool = <<>>
    /\ IF receipt.ok
       THEN /\ phase' = "save"
            /\ attest' = IF step = "a" THEN attest ELSE receipt.id
            /\ avail' = IF step = "a" THEN receipt.id ELSE avail
            /\ state' = [steps |-> state.steps \cup {step},
                         attest |-> IF step = "a" THEN state.attest ELSE receipt.id,
                         avail |-> IF step = "a" THEN receipt.id ELSE state.avail]
            /\ UNCHANGED step
       ELSE step' = "off" /\ UNCHANGED <<phase, state, attest, avail>>
    /\ UNCHANGED <<chain, pool, live, file, run, history>>

\* saveState; a failure is only logged.
Save ==
    /\ step # "off" /\ phase = "save"
    /\ \/ file' = [torn |-> FALSE, saved |-> state] /\ UNCHANGED faults
       \/ Fault("saveFails") /\ UNCHANGED file
    /\ phase' = "begin" /\ step' = After[step]
    /\ UNCHANGED <<chain, pool, live, run, state, attest, avail, reported, reruns>>

\* Mutant: success is reported without waiting for the promotion.
Finish_Early ==
    /\ step = "p"
    /\ \/ phase = "begin" /\ "p" \notin run.command
       \/ phase = "wait"
    /\ file' = NoFile
    /\ reported' = reported \cup {[tee |-> run.tee, command |-> run.command]}
    /\ step' = "off"
    /\ UNCHANGED <<chain, pool, live, phase, run, state, attest, avail, faults, reruns>>

\* The end of RegisterNode: the state file is deleted and, whatever steps were
\* asked for, main logs the machine as registered.
Finish ==
    /\ step = "p"
    /\ \/ phase = "begin" /\ "p" \notin run.command
       \/ phase = "wait" /\ pool = <<>> /\ receipt.ok
    /\ file' = NoFile
    /\ reported' = reported \cup {[tee |-> run.tee, command |-> run.command]}
    /\ step' = "off"
    /\ UNCHANGED <<chain, pool, live, phase, run, state, attest, avail, faults, reruns>>

\* The tool is killed, or a call it makes fails: RPC, proxy, policy
\* pre-flight, a promotion that reverts, the two minutes of CheckTx.  What it
\* sent stays in the pool.
Abort ==
    /\ step # "off"
    /\ Fault("abort")
    /\ step' = "off"
    /\ UNCHANGED <<chain, pool, live, file, phase, run, state, attest, avail,
                   reported, reruns>>

\* The tool is killed while os.WriteFile, which truncates first, is under way.
TornSave ==
    /\ step # "off" /\ phase = "save"
    /\ Fault("torn")
    /\ file' = [file EXCEPT !.torn = TRUE]
    /\ step' = "off"
    /\ UNCHANGED <<chain, pool, live, phase, run, state, attest, avail, reported, reruns>>

\* A challenge outlives a run, but not the time between two runs.
Expire(id) ==
    /\ step = "off"
    /\ id \in DOMAIN issued /\ issued[id].status = "live"
    /\ Fault("expire")
    /\ issued' = [issued EXCEPT ![id].status = "expired"]
    /\ UNCHANGED <<registered, production, receipt, pool, live, file, tool,
                   reported, reruns>>

\* The TEE key is in memory only: a relaunched node has another teeID.
Relaunch ==
    /\ live < 1 + MaxRelaunches
    /\ live' = live + 1
    /\ UNCHANGED <<chain, pool, file, tool, history>>

\* Registered, or out of the bound on instructions.
Rest ==
    /\ step = "off" /\ pool = <<>>
    /\ live \in production \/ ~RoomForARun
    /\ UNCHANGED vars

Tool ==
    \/ Skip \/ PreRegister \/ RequestTeeAttestation \/ RequestFTDCAvailabilityCheck
    \/ ToProduction \/ PollTimesOut \/ Receipt \/ Save \/ Finish

\* -i, only read by a run without a, names a check of the machine.
RunTool(commands) ==
    \E c \in commands, b \in Resumes,
       flag \in {NoId} \cup {id \in DOMAIN issued :
                            issued[id].kind = "avail" /\ issued[id].tee = live} :
        ("a" \in c => flag = NoId) /\ Start(c, b, flag)

Operator == RunTool(Commands)

Proofs == \E id \in 1 .. MaxIssued : Prove(id)
Expiries == \E id \in 1 .. MaxIssued : Expire(id)

Next ==
    \/ Tool \/ Operator \/ Mine \/ Proofs
    \/ Abort \/ TornSave \/ Expiries \/ Relaunch
    \/ Rest

Spec == Init /\ [][Next]_vars

\* The tool runs on, the chain mines, the FTDC proves what it can, and the
\* operator runs all steps again as long as the machine is not registered.
FairSpec ==
    /\ Spec
    /\ WF_vars(Tool) /\ WF_vars(Mine) /\ WF_vars(Proofs)
    /\ WF_vars(live \notin production /\ RunTool({c \in Commands : Full(c)}))

-----------------------------------------------------------------------------
(* Properties.                                                             *)

State == [steps : SUBSET Steps, attest : Nat, avail : Nat]
Instruction ==
    [kind : {"attest", "avail"}, tee : Tees,
     status : {"live", "used", "expired", "pending", "proved"}]

\* The type invariant: the tool's variables, the state file, the on-chain machines
\* and the issued challenges stay within their types.
TypeOK ==
    /\ registered \in SUBSET Tees /\ production \in SUBSET registered
    /\ issued \in Seq(Instruction)
    /\ pool \in Seq([op : {"register", "attest", "check", "promote"},
                     tee : Tees, id : Nat])
    /\ receipt \in [ok : BOOLEAN, id : Nat]
    /\ live \in Tees
    /\ file \in [torn : BOOLEAN, saved : State]
    /\ step \in Steps \cup {"off"} /\ phase \in {"begin", "wait", "save"}
    /\ run \in [tee : Tees, command : SUBSET Steps, flag : Nat]
    /\ state \in State
    /\ attest \in Nat /\ avail \in Nat
    /\ reported \in SUBSET [tee : Tees, command : SUBSET Steps]
    /\ faults \in 0 .. MaxFaults /\ reruns \in 0 .. MaxReruns

\* A machine has a challenge nobody used: the availability check that is about
\* to be requested for it names such a challenge, so it cannot revert with
\* ChallengeExpired, whatever earlier runs did, left behind or got mined late.
ChallengeAtHand ==
    Due("a") /\ (\E id \in DOMAIN issued : LiveChallenge(id, run.tee))
        => LiveChallenge(attest, run.tee)

\* Every run that ends with "Registered TEE node with id X" is right about X, and
\* not about some machine an earlier run dealt with: after a run with p, X is in
\* production; after a run of other steps, X has its entry in the registry.
\* (main logs the line after -command "" too, which does nothing.)
ReportedIsRegistered ==
    \A rep \in reported :
        /\ "p" \in rep.command => rep.tee \in production
        /\ rep.command # {} => rep.tee \in registered

\* Running the tool again after failures eventually brings the live machine
\* into production, where it stays.
RetriesSucceed == <>[](live \in production)
=============================================================================
