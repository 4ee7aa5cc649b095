----------------------------- MODULE Deployment -----------------------------
(***************************************************************************)
(* A checkout that brings the extension to one or more chains, script by   *)
(* script in the documented order, which full-setup.sh follows too:        *)
(*                                                                         *)
(*   pre-build      deploy an InstructionSender, register an extension for *)
(*                  it, set it up, write config/<chain>/extension.env      *)
(*   start-services launch the TEE node with the extension ID of that file *)
(*   post-build     allow the code version, set governance, register the   *)
(*                  machine                                                *)
(*   test           bind the contract to its extension, send instructions  *)
(*                                                                         *)
(* and check-tee-machines --pause.  A script may die at any point, leaving *)
(* a transaction that is mined later, and is then run again from its start.*)
(* register-tee is its last transaction here; RegisterTee has the details. *)
(*                                                                         *)
(* External: the registry, which hands out extension IDs to all deployers  *)
(* and picks the machine an instruction goes to.                           *)
(***************************************************************************)
EXTENDS Naturals, Sequences, Reverts

CONSTANTS
    Chains,         \* the chains of config/
    NoFlag,         \* no chain on the command line
    Flags,          \* chains given to scripts on the command line
    MaxEvents       \* bound on disturbances: a script that dies, a relaunch of
                    \* the node, an extension of others, a switch to another
                    \* chain, a pause refused, an RPC call without an answer, a
                    \* pre-build where there is an extension.env

ASSUME ChainsAssumption ==
    Chains # {} /\ NoFlag \notin Chains /\ Flags \subseteq Chains \cup {NoFlag}
ASSUME MaxEventsAssumption == MaxEvents \in Nat

\* What SetupExtension and post-build grant an extension, one transaction each.
Grants == {"owners", "projects", "keys", "version", "governance"}

\* Contracts and extension IDs are numbered from 1 on each chain; 0 is the
\* zero address, and the value of _extensionId before it is set.
None == 0

VARIABLES
    contracts,  \* chain: InstructionSenders deployed by this checkout
    bound,      \* chain: their _extensionId
    registry,   \* chain: extensions by ID
    machines,   \* chain: active TEE machines
    paused,     \* chain: machines that were paused
    pool,       \* transactions sent and not yet mined, in nonce order
    receipt,    \* of the transaction mined last
    dotenv,     \* the chain named in .env
    env,        \* config/<chain>/extension.env
    node,       \* the running TEE node: teeID, EXTENSION_ID, chain
    stage,      \* how far the documented order is followed for a chain
    tested,     \* chains whose test passed
    pc,         \* the step the running script is at, "off" when none runs
    wait,       \* that step waits for its transaction
    loc,        \* its CHAIN, INSTRUCTION_SENDER, extension ID and stale machines
    events      \* disturbances so far

onChain == <<contracts, bound, registry, machines, paused>>
checkout == <<dotenv, env, stage, tested>>
script == <<pc, wait, loc>>
vars == <<onChain, pool, receipt, checkout, node, script, events>>

\* extension.env is missing, empty when the shell died before it filled it, or
\* written.
NoEnv == [file |-> "missing", id |-> None, sender |-> None]
Written(i, s) == [file |-> "written", id |-> i, sender |-> s]
NoReceipt == [ok |-> FALSE, val |-> None]
NoLocals == [chain |-> NoFlag, sender |-> None, id |-> None, targets |-> {}]

chain == loc.chain

\* The scripts find EXTENSION_ID and INSTRUCTION_SENDER in extension.env.
HasEnv(c) == env[c].file = "written"

Init ==
    /\ contracts = [c \in Chains |-> 0]
    /\ bound = [c \in Chains |-> <<>>]
    /\ registry = [c \in Chains |-> <<>>]
    /\ machines = [c \in Chains |-> {}]
    /\ paused = [c \in Chains |-> {}]
    /\ pool = [c \in Chains |-> <<>>]
    /\ receipt = [c \in Chains |-> NoReceipt]
    /\ dotenv = CHOOSE c \in Chains : TRUE  \* the chains are alike
    /\ env = [c \in Chains |-> NoEnv]
    /\ node = [tee |-> 0, ext |-> None, chain |-> NoFlag]
    /\ stage = [c \in Chains |-> "none"]
    /\ tested = {}
    /\ pc = "off" /\ wait = FALSE
    /\ loc = NoLocals
    /\ events = 0

Disturbance == events < MaxEvents /\ events' = events + 1

-----------------------------------------------------------------------------
(* The chain.                                                              *)

Ids(c) == DOMAIN registry[c]

\* The extension setExtensionId finds: the first one with this sender.
FoundId(c, s) ==
    LET found == {i \in Ids(c) : registry[c][i].sender = s}
    IN  IF found = {} THEN None ELSE CHOOSE i \in found : \A j \in found : i <= j

\* The machines getRandomTeeIds picks from.
ActiveFor(c, i) == {m \in machines[c] : m.ext = i}

Tx(op, arg) == [op |-> op, arg |-> arg]

Accepts(c, tx) ==
    CASE tx.op \in {"deploy", "register"}  -> TRUE
      [] tx.op \in Grants ->
            /\ tx.arg \in Ids(c) /\ registry[c][tx.arg].sender # None
            /\ tx.op = "version" => "version" \notin registry[c][tx.arg].granted
      [] tx.op = "registerTee" ->
            /\ {"owners", "version", "governance"} \subseteq registry[c][tx.arg.ext].granted
            /\ tx.arg \notin paused[c]
      [] tx.op = "bind" -> bound[c][tx.arg] = None /\ FoundId(c, tx.arg) # None
      [] tx.op \in {"hello", "goodbye"} ->
            bound[c][tx.arg] # None /\ ActiveFor(c, bound[c][tx.arg]) # {}

\* What a call comes to, with the reason of the revert where a tool looks for it.
Outcome(c, tx) ==
    IF Accepts(c, tx) THEN Success
    ELSE CASE tx.op = "bind" ->
                ErrorString(IF bound[c][tx.arg] # None THEN "already set" ELSE "not found")
           [] tx.op = "version" /\ tx.arg \in Ids(c) /\ registry[c][tx.arg].sender # None ->
                Custom("VersionAlreadyExists")
           [] OTHER -> Garbled

\* What an accepted transaction changes, and what its receipt says: the
\* address, the ID in the event, or the machine an instruction was routed to.
Execute(c, tx) ==
    \/ /\ tx.op = "deploy"
       /\ contracts' = [contracts EXCEPT ![c] = @ + 1]
       /\ bound' = [bound EXCEPT ![c] = Append(@, None)]
       /\ receipt' = [receipt EXCEPT ![c] = [ok |-> TRUE, val |-> contracts'[c]]]
       /\ UNCHANGED <<registry, machines>>
    \/ /\ tx.op = "register"
       /\ registry' = [registry EXCEPT ![c] = Append(@, [sender |-> tx.arg, granted |-> {}])]
       /\ receipt' = [receipt EXCEPT ![c] = [ok |-> TRUE, val |-> Len(registry'[c])]]
       /\ UNCHANGED <<contracts, bound, machines>>
    \/ /\ tx.op \in Grants
       /\ registry' = [registry EXCEPT ![c][tx.arg].granted = @ \cup {tx.op}]
       /\ receipt' = [receipt EXCEPT ![c] = [ok |-> TRUE, val |-> None]]
       /\ UNCHANGED <<contracts, bound, machines>>
    \/ /\ tx.op = "registerTee"
       /\ machines' = [machines EXCEPT ![c] = @ \cup {tx.arg}]
       /\ receipt' = [receipt EXCEPT ![c] = [ok |-> TRUE, val |-> None]]
       /\ UNCHANGED <<contracts, bound, registry>>
    \/ /\ tx.op = "bind"
       /\ bound' = [bound EXCEPT ![c][tx.arg] = FoundId(c, tx.arg)]
       /\ receipt' = [receipt EXCEPT ![c] = [ok |-> TRUE, val |-> None]]
       /\ UNCHANGED <<contracts, registry, machines>>
    \/ /\ tx.op \in {"hello", "goodbye"}
       /\ \E m \in ActiveFor(c, bound[c][tx.arg]) :
             receipt' = [receipt EXCEPT ![c] = [ok |-> TRUE, val |-> m.tee]]
       /\ UNCHANGED <<contracts, bound, registry, machines>>

\* The next transaction is mined, whoever still waits for it.
Mine(c) ==
    /\ pool[c] # <<>>
    /\ pool' = [pool EXCEPT ![c] = Tail(@)]
    /\ IF Accepts(c, Head(pool[c]))
       THEN Execute(c, Head(pool[c]))
       ELSE /\ receipt' = [receipt EXCEPT ![c] = NoReceipt]
            /\ UNCHANGED <<contracts, bound, registry, machines>>
    /\ UNCHANGED <<paused, checkout, node, script, events>>

\* Somebody else registers an extension.
OtherRegisters(c) ==
    /\ Disturbance
    /\ registry' = [registry EXCEPT ![c] = Append(@, [sender |-> None, granted |-> {}])]
    /\ UNCHANGED <<contracts, bound, machines, paused, pool, receipt, checkout, node, script>>

-----------------------------------------------------------------------------
(* Steps of the tools the scripts run.                                     *)

After == [deploy |-> "register", register |-> "owners", owners |-> "projects",
          projects |-> "keys", keys |-> "write",
          version |-> "governance", governance |-> "registerTee",
          bind |-> "hello", hello |-> "goodbye"]

\* A script ends, with success or not.
End == pc' = "off" /\ wait' = FALSE /\ loc' = NoLocals

\* A call that reverts when its gas is estimated is an error, not a transaction.
Send(tx) ==
    IF Accepts(chain, tx)
    THEN /\ pool' = [pool EXCEPT ![chain] = Append(@, tx)]
         /\ wait' = TRUE /\ UNCHANGED <<pc, loc>>
    ELSE End /\ UNCHANGED pool

Due(s) == pc = s /\ ~wait

Deploy ==
    /\ Due("deploy")
    /\ Send(Tx("deploy", None))
    /\ UNCHANGED <<onChain, receipt, checkout, node, events>>

\* registerExtension: not idempotent, every run registers a new extension.
RegisterExtension ==
    /\ Due("register")
    /\ Send(Tx("register", loc.sender))
    /\ UNCHANGED <<onChain, receipt, checkout, node, events>>

\* A step that asks the chain first and skips what the extension already has.
GrantUnless(skip) ==
    /\ IF loc.id \in Ids(chain) /\ skip
       THEN pc' = After[pc] /\ UNCHANGED <<pool, wait, loc>>
       ELSE Send(Tx(pc, loc.id))
    /\ UNCHANGED <<onChain, receipt, checkout, node, events>>

Granted(i) == registry[chain][i].granted

\* Mutant: project owners are not added where there are machine owners.
SetupExtension_OneOwner ==
    /\ pc \in {"owners", "projects", "keys"} /\ ~wait
    /\ GrantUnless(pc \in Granted(loc.id) \/ (pc = "projects" /\ "owners" \in Granted(loc.id)))

\* The steps of SetupExtension after registerExtension.
SetupExtension ==
    /\ pc \in {"owners", "projects", "keys"} /\ ~wait
    /\ GrantUnless(pc \in Granted(loc.id))

\* allow-tee-version, for the extension ID and code hash of the node.
AllowTeeVersion == Due("version") /\ GrantUnless("version" \in Granted(loc.id))

\* set-governance: signers and threshold are those the node was started with.
SetTeeGovernance == Due("governance") /\ GrantUnless("governance" \in Granted(loc.id))

\* Mutant: an ID that is already set is an error like any other.
SetExtensionId_Fatal ==
    /\ Due("bind")
    /\ Send(Tx("bind", loc.sender))
    /\ UNCHANGED <<onChain, receipt, checkout, node, events>>

Bind == Tx("bind", loc.sender)

\* run-test goes on when the error says that the ID is already set.
SetExtensionId ==
    /\ Due("bind")
    /\ IF Accepts(chain, Bind) THEN Send(Bind)
       ELSE LET revert == Outcome(chain, Bind) IN
            \E says \in {SendErrorSays(n, EstimateError(n, revert), revert) : n \in Telling} :
                IF "already set" \in says
                THEN pc' = "hello" /\ UNCHANGED <<pool, wait, loc>>
                ELSE End /\ UNCHANGED pool
    /\ UNCHANGED <<onChain, receipt, checkout, node, events>>

\* The RPC node does not answer, whether or not the transaction got to it.
SetExtensionIdLost ==
    /\ Due("bind")
    /\ Disturbance
    /\ \/ UNCHANGED pool
       \/ Accepts(chain, Bind) /\ pool' = [pool EXCEPT ![chain] = Append(@, Bind)]
    /\ pc' = "replay" /\ UNCHANGED <<wait, loc>>
    /\ UNCHANGED <<onChain, receipt, checkout, node>>

\* Mutant: whatever the replay says is taken for "already set".
ReplaySetExtensionId_AnyError ==
    /\ Due("replay")
    /\ pc' = "hello" /\ UNCHANGED <<wait, loc>>
    /\ UNCHANGED <<onChain, pool, receipt, checkout, node, events>>

\* The call is replayed for its reason; by now the transaction may be mined.
ReplaySetExtensionId ==
    /\ Due("replay")
    /\ \E says \in {SendErrorSays(n, NetworkError, Outcome(chain, Bind)) : n \in Telling} :
          IF "already set" \in says THEN pc' = "hello" /\ UNCHANGED <<wait, loc>> ELSE End
    /\ UNCHANGED <<onChain, pool, receipt, checkout, node, events>>

SendInstruction ==
    /\ pc \in {"hello", "goodbye"} /\ ~wait
    /\ Send(Tx(pc, loc.sender))
    /\ UNCHANGED <<onChain, receipt, checkout, node, events>>

\* The failed transactions that are taken for done: the texts are looked for
\* in what a replay gives.
AlreadySet(n) ==
    /\ pc = "bind"
    /\ "already set" \in SimulateAndDecodeRevert(n, Outcome(chain, Bind)).says

VersionAlreadyExists(n) ==
    /\ pc = "version"
    /\ "VersionAlreadyExists" \in getFailingMessage(n, Outcome(chain, Tx(pc, loc.id))).says

\* The receipt of the script's own transaction, always the last sent, and for
\* an instruction the result, which only the machine it was routed to gives.
Succeeded(n) ==
    IF pc \in {"hello", "goodbye"}
    THEN receipt[chain].ok /\ receipt[chain].val = node.tee
    ELSE receipt[chain].ok \/ AlreadySet(n) \/ VersionAlreadyExists(n)

\* The ID in the TeeExtensionRegistered event of the transaction.
RegisteredId == receipt[chain].val

\* A script's last transaction ends it.
Last == {"registerTee", "goodbye"}

Receipt ==
    /\ wait /\ pool[chain] = <<>>
    /\ receipt' = [receipt EXCEPT ![chain] = NoReceipt]
    /\ \E ok \in {Succeeded(n) : n \in Telling} :
         /\ IF ok /\ pc \notin Last
            THEN /\ pc' = After[pc] /\ wait' = FALSE
                 /\ loc' = CASE pc = "deploy"   -> [loc EXCEPT !.sender = receipt[chain].val]
                             [] pc = "register" -> [loc EXCEPT !.id = RegisteredId]
                             [] OTHER           -> loc
            ELSE End
         /\ tested' = IF ok /\ pc = "goodbye" THEN tested \cup {chain} ELSE tested
         /\ stage' = IF ok /\ pc = "registerTee" THEN [stage EXCEPT ![chain] = "done"] ELSE stage
    /\ UNCHANGED <<onChain, pool, dotenv, env, node, events>>

\* Mutant: pre-build goes on with the ID it failed to read.
WriteEnv_NoId ==
    /\ Due("write")
    /\ env' = [env EXCEPT ![chain] = Written(None, loc.sender)]
    /\ stage' = [stage EXCEPT ![chain] = "built"]
    /\ tested' = tested \ {chain}
    /\ End
    /\ UNCHANGED <<onChain, pool, receipt, dotenv, node, events>>

\* Mutant: the file is the flat config/extension.env that all chains share.
WriteEnv_FlatFile ==
    /\ Due("write")
    /\ env' = [c \in Chains |-> Written(loc.id, loc.sender)]
    /\ stage' = [stage EXCEPT ![chain] = "built"]
    /\ tested' = tested \ {chain}
    /\ End
    /\ UNCHANGED <<onChain, pool, receipt, dotenv, node, events>>

\* The end of pre-build.
WriteEnv ==
    /\ Due("write")
    /\ env' = [env EXCEPT ![chain] = Written(loc.id, loc.sender)]
    /\ stage' = [stage EXCEPT ![chain] = "built"]
    /\ tested' = tested \ {chain}
    /\ End
    /\ UNCHANGED <<onChain, pool, receipt, dotenv, node, events>>

\* pre-build dies after the shell truncated the file.
TornEnv ==
    /\ Due("write")
    /\ Disturbance
    /\ env' = [env EXCEPT ![chain] = [NoEnv EXCEPT !.file = "empty"]]
    /\ stage' = [stage EXCEPT ![chain] = "none"]
    /\ tested' = tested \ {chain}
    /\ End
    /\ UNCHANGED <<onChain, pool, receipt, dotenv, node>>

\* register-tee, as far as its last transaction, toProduction, or an error.
RegisterTee ==
    /\ Due("registerTee")
    /\ Send(Tx(pc, [tee |-> node.tee, ext |-> loc.id]))
    /\ UNCHANGED <<onChain, receipt, checkout, node, events>>

\* The operator confirms that a machine be paused.
Pause ==
    /\ Due("pause")
    /\ \E m \in loc.targets :
         /\ machines' = [machines EXCEPT ![chain] = @ \ {m}]
         /\ paused' = [paused EXCEPT ![chain] = @ \cup {m}]
         /\ IF loc.targets = {m} THEN End
            ELSE loc' = [loc EXCEPT !.targets = @ \ {m}] /\ UNCHANGED <<pc, wait>>
    /\ UNCHANGED <<contracts, bound, registry, pool, receipt, checkout, node, events>>

\* Or answers N to it.
SkipPause ==
    /\ Due("pause")
    /\ Disturbance
    /\ \E m \in loc.targets :
         IF loc.targets = {m} THEN End
         ELSE loc' = [loc EXCEPT !.targets = @ \ {m}] /\ UNCHANGED <<pc, wait>>
    /\ UNCHANGED <<onChain, pool, receipt, checkout, node>>

\* A script is killed, or a call it makes fails or takes too long; what it
\* sent stays in the pool.
Abort ==
    /\ pc # "off"
    /\ Disturbance
    /\ End
    /\ UNCHANGED <<onChain, pool, receipt, checkout, node>>

Tool ==
    \/ Deploy \/ RegisterExtension \/ SetupExtension \/ AllowTeeVersion \/ SetTeeGovernance
    \/ SetExtensionId \/ ReplaySetExtensionId \/ SendInstruction \/ Receipt
    \/ WriteEnv \/ RegisterTee \/ Pause

-----------------------------------------------------------------------------
(* The operator and the scripts.                                           *)

\* resolve_chain_default: the argument, or else the CHAIN of .env.
Resolve(flag) == IF flag = NoFlag THEN dotenv ELSE flag

\* use-chain.sh
UseChain(c) ==
    /\ pc = "off"
    /\ c # dotenv
    /\ Disturbance
    /\ dotenv' = c
    /\ UNCHANGED <<onChain, pool, receipt, env, stage, tested, node, script>>

Begin(step, locals) == pc = "off" /\ pc' = step /\ loc' = locals /\ UNCHANGED wait

\* Mutant: a contract that is already deployed is registered again.
PreBuild_KeepsSender(flag) ==
    LET c == Resolve(flag) IN
    /\ IF HasEnv(c)
       THEN /\ Begin("register", [NoLocals EXCEPT !.chain = c, !.sender = env[c].sender])
            /\ Disturbance
       ELSE Begin("deploy", [NoLocals EXCEPT !.chain = c]) /\ UNCHANGED events
    /\ UNCHANGED <<onChain, pool, receipt, checkout, node>>

PreBuild(flag) ==
    LET c == Resolve(flag) IN
    /\ Begin("deploy", [NoLocals EXCEPT !.chain = c])
    /\ IF HasEnv(c) THEN Disturbance ELSE UNCHANGED events
    /\ UNCHANGED <<onChain, pool, receipt, checkout, node>>

\* The extension.env that is read is the one of the CHAIN in .env: its path is
\* computed before --chain is looked at.
StartServices(flag) ==
    /\ pc = "off"
    /\ HasEnv(dotenv)
    /\ stage[Resolve(flag)] \in {"none", "built"}
    /\ node' = [tee |-> node.tee + 1, ext |-> env[dotenv].id, chain |-> Resolve(flag)]
    /\ stage' = [c \in Chains |->
                    IF c = Resolve(flag) THEN "started"
                    ELSE IF stage[c] = "none" THEN "none" ELSE "built"]
    /\ UNCHANGED <<onChain, pool, receipt, dotenv, env, tested, script, events>>

\* allow-tee-version and set-governance take the extension ID from the node.
PostBuild(flag) ==
    LET c == Resolve(flag) IN
    /\ stage[c] \in {"started", "done"}
    /\ Begin("version", [NoLocals EXCEPT !.chain = c, !.id = node.ext])
    /\ UNCHANGED <<onChain, pool, receipt, checkout, node, events>>

Test(flag) ==
    LET c == Resolve(flag) IN
    /\ stage[c] = "done"
    /\ HasEnv(c)
    /\ Begin("bind", [NoLocals EXCEPT !.chain = c, !.sender = env[c].sender])
    /\ UNCHANGED <<onChain, pool, receipt, checkout, node, events>>

\* Mutant: the teeID of the proxy is not compared.
Stale_AllActive(c) == {m \in ActiveFor(c, env[c].id) : node.tee # 0}

\* The machines of the extension whose proxy, which is the running node's,
\* answers with another teeID.
Stale(c) == {m \in ActiveFor(c, env[c].id) : node.tee # 0 /\ m.tee # node.tee}

CheckTeeMachines(flag) ==
    LET c == Resolve(flag) IN
    /\ HasEnv(c)
    /\ Stale(c) # {}
    /\ Begin("pause", [NoLocals EXCEPT !.chain = c, !.targets = Stale(c)])
    /\ UNCHANGED <<onChain, pool, receipt, checkout, node, events>>

Operator ==
    \/ \E c \in Chains : UseChain(c)
    \/ \E flag \in Flags : \/ PreBuild(flag) \/ StartServices(flag) \/ PostBuild(flag)
                          \/ Test(flag) \/ CheckTeeMachines(flag)

\* The node's key is in memory only: relaunched, it has another teeID.
Relaunch ==
    /\ node.tee # 0
    /\ Disturbance
    /\ node' = [node EXCEPT !.tee = @ + 1]
    /\ UNCHANGED <<onChain, pool, receipt, checkout, script>>

Next ==
    \/ Tool \/ SetExtensionIdLost \/ TornEnv \/ SkipPause \/ Abort \/ Relaunch \/ Operator
    \/ \E c \in Chains : Mine(c) \/ OtherRegisters(c)

Spec == Init /\ [][Next]_vars

Registered == [tee |-> node.tee, ext |-> node.ext] \in machines[dotenv]

\* Scripts run on, chains mine, and the operator, who works on the chain of
\* .env, runs again and again the script that is due.
FairSpec ==
    /\ Spec
    /\ WF_vars(Tool) /\ \A c \in Chains : WF_vars(Mine(c))
    /\ SF_vars(~HasEnv(dotenv) /\ PreBuild(NoFlag))
    /\ SF_vars(StartServices(NoFlag))
    /\ SF_vars((~Registered \/ stage[dotenv] # "done") /\ PostBuild(NoFlag))
    /\ SF_vars(CheckTeeMachines(NoFlag))
    /\ SF_vars(Test(NoFlag))

-----------------------------------------------------------------------------
(* Properties.                                                             *)

Machine == [tee : Nat \ {0}, ext : Nat \ {None}]

\* The type invariant: .env, each chain's extension.env, the running node and the
\* on-chain entries stay within their types.
TypeOK ==
    /\ contracts \in [Chains -> Nat]
    /\ \A c \in Chains :
         /\ bound[c] \in Seq(0 .. Len(registry[c])) /\ Len(bound[c]) = contracts[c]
         /\ registry[c] \in Seq([sender : 0 .. contracts[c], granted : SUBSET Grants])
         /\ machines[c] \in SUBSET Machine /\ paused[c] \in SUBSET Machine
         /\ pool[c] \in Seq([op : DOMAIN After \cup {"goodbye"}, arg : Nat]
                            \cup [op : {"registerTee"}, arg : Machine])
         /\ \/ env[c].file \in {"missing", "empty"} /\ env[c] = [NoEnv EXCEPT !.file = env[c].file]
            \/ env[c] \in [file : {"written"}, id : Ids(c), sender : 1 .. contracts[c]]
    /\ receipt \in [Chains -> [ok : BOOLEAN, val : Nat]]
    /\ dotenv \in Chains
    /\ node \in [tee : Nat, ext : Nat, chain : Chains \cup {NoFlag}]
    /\ stage \in [Chains -> {"none", "built", "started", "done"}]
    /\ tested \in SUBSET Chains
    /\ pc \in DOMAIN After \cup {"off", "write", "registerTee", "replay", "goodbye", "pause"}
    /\ wait \in BOOLEAN
    /\ events \in 0 .. MaxEvents
    /\ loc \in [chain : Chains \cup {NoFlag}, sender : Nat, id : Nat,
               targets : SUBSET Machine]

\* extension.env names an extension that SetupExtension finished setting up,
\* the project owners that verify-deploy does not look at included, and the
\* contract it names is bound to that extension or to none: what others
\* registered, earlier runs left half done or got mined late is never mixed in.
EnvSetUp ==
    \A c \in Chains : HasEnv(c) =>
        /\ {"owners", "projects", "keys"} \subseteq registry[c][env[c].id].granted
        /\ bound[c][env[c].sender] \in {None, env[c].id}

\* start-services takes the extension ID of the chain it is started for: "Flag
\* beats .env", and no chain is handed another chain's extension ID.
NodeServesItsChain ==
    \A c \in Chains : stage[c] \in {"started", "done"} =>
        node.chain = c /\ node.ext = env[c].id

\* A machine that was paused, which cannot be undone, is never the running
\* one, although nodes are relaunched between the look and the answer.
PausedAreDead ==
    \A c \in Chains : \A m \in paused[c] : m.tee # node.tee

\* An instruction is only sent from a contract that is bound to the extension of
\* extension.env, although errors of setExtensionId are passed over by their
\* text and its transaction may be one of an earlier run or one nobody saw sent.
BoundBeforeInstructions ==
    pc \in {"hello", "goodbye"} => bound[chain][loc.sender] = env[chain].id

\* The reason of a revert is in what the tools report, wherever the RPC node
\* lets it through: what run-test decides on when setExtensionId fails, what
\* register-tee says of register() and of the availability check, and
\* audit-deploy of addTeeVersion.
RevertsExplained ==
    \A n \in Telling :
        /\ LET r == Outcome(chain, Bind) IN
           Due("bind") /\ r # Success => r.reason \in SendErrorSays(n, EstimateError(n, r), r)
        /\ Due("registerTee") =>
               \A r \in Reasons :
                   /\ n.call # "none" => r.reason \in RegisterErrorSays(n, EstimateError(n, r), r)
                   /\ n.call = "data" => r.reason \in diagAvailabilityCheckRevert(n, r)
        /\ LET r == Outcome(chain, Tx(pc, loc.id)) IN
           pc = "version" /\ r.kind = "custom" /\ n.call = "data"
               => r.reason \in replayAddTeeVersion(n, r)

\* Whatever fails, running the scripts again gets the test passed.
TestsEventuallyPass == <>[](dotenv \in tested)
=============================================================================
