---------------------------- MODULE VerifyDeploy ----------------------------
(***************************************************************************)
(* The verdicts that verify-deploy -step all, given an extension.env,      *)
(* gives at any moment of a deployment, under any settings of .env and of  *)
(* the host.  A report is the set of statuses of its checks.  Left out are *)
(* D1, D3, D6 and the funds of D5: the chain answers, has the contracts of *)
(* deployed-addresses.json, and the account can pay.                       *)
(***************************************************************************)
EXTENDS Deployment

CONSTANT Settings   \* what the checks of settings may find

ASSUME SettingsAssumption ==
    Settings \subseteq
        [local : BOOLEAN,       \* LOCAL_MODE is "true" or not set, or else "false"
         simulated : BOOLEAN,   \* SIMULATED_TEE
         keys : SUBSET {"DEPLOYMENT", "OWNER", "PROXY"},  \* private keys set
         port : BOOLEAN,        \* EXTENSION_PORT is in use on this host
         url : BOOLEAN,         \* EXT_PROXY_URL is set
         ftdc : {"SKIP", "PASS", "WARN"}]  \* NORMAL_PROXY_URL: not set, up, down

\* The status of a check that passes or warns.
Advice(passed) == IF passed THEN "PASS" ELSE "WARN"

\* The status of a check that passes or fails.
Verdict(passed) == IF passed THEN "PASS" ELSE "FAIL"

\* Every check of a setting below: SKIP when the file is missing, FAIL when
\* the setting is not in it.
OfFile(c, setting) ==
    IF env[c].file = "missing" THEN "SKIP" ELSE Verdict(setting # None)

\* EXT_PROXY_URL: the proxy answers when a node was started.
Reachable(s) == IF s.url THEN Advice(node.tee # 0) ELSE "SKIP"

\* D5: without a key the tools use the one of the local chain.
CheckDeployerKeySource(s) == Advice("DEPLOYMENT" \in s.keys \/ s.local)

\* D7.
CheckExtensionEnvFormat(c) == {OfFile(c, env[c].sender), OfFile(c, env[c].id)}

DeployChecks(c, s) == {CheckDeployerKeySource(s)} \cup CheckExtensionEnvFormat(c)

\* Instruction sender matches on-chain.
CheckR2(c) ==
    Verdict(env[c].id \in Ids(c) /\ registry[c][env[c].id].sender = env[c].sender)

\* Deployer is allowed TEE machine owner.
CheckR3(c) == Verdict(env[c].id \in Ids(c) /\ "owners" \in registry[c][env[c].id].granted)

\* EVM key type supported.
CheckR4(c) == Verdict(env[c].id \in Ids(c) /\ "keys" \in registry[c][env[c].id].granted)

\* Unique instruction sender.
CheckR7(c) ==
    IF \E i, j \in Ids(c) : i # j /\ {registry[c][i].sender, registry[c][j].sender} = {env[c].sender}
    THEN "WARN" ELSE "PASS"

\* An empty file is skipped like a missing one.
RegistrationChecks(c) ==
    IF env[c].id = None /\ env[c].sender = None THEN {"SKIP"}
    ELSE {CheckR2(c), CheckR3(c), CheckR4(c), CheckR7(c)}

\* S2, which fails for a missing file, S5, which warns of an extension that is
\* running on this host too, S7, S9 and S10.
ServicesChecks(c, s) ==
    {Verdict(env[c].id # None), Advice(~s.port), "PASS", Reachable(s),
     Advice(s.local \/ "PROXY" \in s.keys)}

\* V2, V4 and V6.
TeeVersionChecks(c, s) ==
    {Advice({"OWNER", "DEPLOYMENT"} \cap s.keys # {} \/ s.local), OfFile(c, env[c].id),
     Reachable(s)}

\* T1, T5 and T10.
TeeMachineChecks(s) == {Advice(~s.simulated \/ s.local), s.ftdc, Reachable(s)}

\* E1, E3 and E6.
TestChecks(c, s) == {OfFile(c, env[c].sender), Reachable(s), "PASS"}

Report(c, s) ==
    DeployChecks(c, s) \cup RegistrationChecks(c) \cup ServicesChecks(c, s)
        \cup TeeVersionChecks(c, s) \cup TeeMachineChecks(s) \cup TestChecks(c, s)

\* verify-deploy exits with 1.
HasFailures(c, s) == "FAIL" \in Report(c, s)

-----------------------------------------------------------------------------
(* Properties.                                                             *)

\* verify-deploy fails exactly where a pre-build has yet to finish: whenever
\* there is an extension.env to work with, at any time, it has no failure to
\* report, and of the registration not even a warning, while pre-build runs
\* again, after it died half-way, or when transactions it gave up on are mined.
VerifierAgrees ==
    \A c \in Chains :
        /\ \A s \in Settings : HasFailures(c, s) <=> ~HasEnv(c)
        /\ "WARN" \notin RegistrationChecks(c)

\* A chain whose test passed stays, until its own pre-build starts it over, one
\* of which verify-deploy has no failure to report, all checks of the
\* registration pass, the contract is bound to the extension of extension.env
\* and a machine was registered for it: whatever is deployed meanwhile for other
\* chains from the same checkout, no chain is handed another one's extension ID.
TestedIsVerified ==
    \A c \in tested :
        /\ \A s \in Settings : ~HasFailures(c, s)
        /\ RegistrationChecks(c) = {"PASS"}
        /\ bound[c][env[c].sender] = env[c].id
        /\ \E m \in machines[c] \cup paused[c] : m.ext = env[c].id
=============================================================================
