------------------------------ MODULE Services ------------------------------
(***************************************************************************)
(* One checkout's services from the scripts' side: the quick tunnel that   *)
(* every checkout on the host shares, the stack behind it (ext-proxy and   *)
(* the launcher's process), the URL's way through .env and the per-chain   *)
(* env file to the machine's on-chain record, and the scripts that keep    *)
(* them together: start-services.sh, post-build.sh, update-tee-url.sh,     *)
(* stop-services.sh and use-chain.sh. Under "start-tee" the scripts run    *)
(* with --local on the devnet, without a tunnel.                           *)
(*                                                                         *)
(* Every quick tunnel start mints a URL; the URL of the n-th start is n,   *)
(* and 0 is no URL. A node has a new identity each time it is launched:    *)
(* the n-th launch is machine n.                                           *)
(***************************************************************************)
EXTENDS Launcher, Naturals, FiniteSetsExt

CONSTANT MaxFaults  \* deaths, rotations, time-outs and other checkouts' acts

ASSUME MaxFaultsAssumption == MaxFaults \in Nat

VARIABLES
    tunnel,    \* the shared cloudflared container: status, starts so far, and
               \* the URLs in its log
    dotenv,    \* EXT_PROXY_URL in .env, 0 when it is empty or set by hand
    simulated, \* SIMULATED_TEE in .env
    source,    \* .env.local.<chain>: whether it is there, and its EXT_PROXY_URL
    port,      \* whose ext-proxy is published on the host port
    tee,       \* the identity of the node launched last
    pinned,    \* the identity ext-proxy has pinned, 0 before
    record,    \* the URL on-chain for machine tee, 0 when not registered
    prod,      \* machine tee is in production
    gov,       \* the governance .env asks for, the node of machine tee was
               \* launched with, and the extension has on-chain
    script,    \* the step the running script is at
    loc,       \* its shell variables
    reported,  \* the URL of the last start, 0 if it did not report success or
               \* there was no per-chain file to keep its URL in
    faults     \* what may still go wrong

scriptVars == <<script, loc, reported>>
files == <<dotenv, simulated, source>>
hostVars == <<tunnel, files, port, pinned>>
chainVars == <<tee, record, prod, gov>>
vars == <<launcherVars, scriptVars, hostVars, chainVars, faults>>

\* Signers and threshold: INITIAL_OWNER alone, or the GOVERNANCE_ settings.
Governances == {"owner", "signers"}

NoLoc == [since |-> 0, url |-> 0, tee |-> 0, gov |-> "owner"]

Steps == {"idle", "tunnel", "inspect", "logs", "env", "source", "stack", "proxy",
          "waitInfo", "postWait", "postGov", "postInfo", "postRegister",
          "postCheck", "urlInfo", "urlSend", "stopTerm", "stopStack", "stopTunnel"}

\* Every variable has its type.
TypeOK ==
    /\ LauncherTypeOK
    /\ tunnel \in [status: {"absent", "running", "exited"}, starts: Nat, log: SUBSET Nat]
    /\ {dotenv, tee, pinned, record, reported} \subseteq Nat
    /\ simulated \in BOOLEAN /\ source \in [there: BOOLEAN, url: Nat]
    /\ port \in {"free", "ours", "theirs"}
    /\ prod \in BOOLEAN /\ script \in Steps
    /\ loc \in [since: Nat, url: Nat, tee: Nat, gov: Governances]
    /\ gov \in [env: Governances, node: Governances, chain: Governances \cup {"none"}]
    /\ faults \in 0..MaxFaults

Init ==
    /\ LauncherInit
    /\ tunnel = [status |-> "absent", starts |-> 0, log |-> {}]
    /\ dotenv = 0 /\ simulated = TRUE /\ source \in [there: BOOLEAN, url: {0}]
    /\ port = "free" /\ pinned = 0
    /\ tee = 0 /\ record = 0 /\ prod = FALSE
    /\ gov = [env |-> "owner", node |-> "owner", chain |-> "none"]
    /\ script = "idle" /\ loc = NoLoc /\ reported = 0
    /\ faults = MaxFaults

Local == kind = "start-tee"

\* Something goes wrong, or somebody does what the routine does not ask for.
Fault == faults > 0 /\ faults' = faults - 1

Goto(s) == script' = s /\ UNCHANGED <<loc, reported>>
\* die, or the end of a script.
Exit == Goto("idle")
-----------------------------------------------------------------------------
(* The tunnel and the proxy, external.                                     *)

Live(url) == tunnel.status = "running" /\ url = tunnel.starts /\ url \in tunnel.log

\* Mutant: with a restart policy the container waits to be restarted.
TunnelRunning_Restarting ==
    [status |-> "restarting", starts |-> tunnel.starts + 1, log |-> tunnel.log]

\* The container started, or started again in place.
TunnelRunning ==
    [status |-> "running", starts |-> tunnel.starts + 1,
     log |-> IF tunnel.status = "absent" THEN {} ELSE tunnel.log]

UrlPrinted ==
    /\ tunnel.status = "running" /\ tunnel.starts \notin tunnel.log
    /\ tunnel' = [tunnel EXCEPT !.log = @ \union {tunnel.starts}]
    /\ UNCHANGED <<launcherVars, scriptVars, chainVars, files, port, pinned, faults>>

\* No restart policy: a tunnel that dies stays dead, with its log.
TunnelExits ==
    /\ Fault /\ tunnel.status = "running"
    /\ tunnel' = [tunnel EXCEPT !.status = "exited"]
    /\ UNCHANGED <<launcherVars, scriptVars, chainVars, files, port, pinned>>

\* ext-proxy takes the identity of the first node that polls it.
PinIdentity ==
    /\ port = "ours" /\ pinned = 0 /\ node = "serving"
    /\ pinned' = tee
    /\ UNCHANGED <<launcherVars, scriptVars, chainVars, tunnel, files, port, faults>>

\* /info on the host port, and through the tunnel.
InfoHere == port = "ours" /\ pinned # 0 /\ node = "serving"
Info(url) == Live(url) /\ InfoHere
-----------------------------------------------------------------------------
(* start-services.sh                                                       *)

\* In live mode, which the stack here cannot serve, it dies.
BeginStart ==
    /\ script = "idle" /\ (Local \/ simulated)
    /\ script' = IF Local THEN "stack" ELSE "tunnel"
    /\ loc' = NoLoc /\ reported' = 0
    /\ UNCHANGED <<launcherVars, hostVars, chainVars>>

TunnelUp ==
    /\ script = "tunnel"
    /\ tunnel' = IF tunnel.status = "running" THEN tunnel ELSE TunnelRunning
    /\ Goto("inspect")
    /\ UNCHANGED <<launcherVars, chainVars, files, port, pinned, faults>>

\* ps -q lists running containers only: without one, `started` is empty.
Inspect ==
    /\ script = "inspect"
    /\ script' = "logs"
    /\ loc' = [loc EXCEPT !.since = IF tunnel.status = "running" THEN tunnel.starts ELSE 0]
    /\ UNCHANGED <<launcherVars, hostVars, chainVars, reported, faults>>

\* Mutant: the whole log is scanned.
SinceStarted_AllLogs == tunnel.log
\* logs --since
SinceStarted == {u \in tunnel.log : u >= loc.since}

\* tail -1 of the URLs in the log, within 30 s.
ReadLogs ==
    /\ script = "logs"
    /\ SinceStarted # {}
    /\ loc' = [loc EXCEPT !.url = Max(SinceStarted)]
    /\ script' = "env"
    /\ UNCHANGED <<launcherVars, hostVars, chainVars, reported, faults>>

LogsTimeout ==
    /\ script = "logs"
    /\ SinceStarted = {}
    /\ IF tunnel.status = "running" THEN Fault ELSE UNCHANGED faults
    /\ Exit
    /\ UNCHANGED <<launcherVars, hostVars, chainVars>>

\* write_proxy_url, for .env and then for the per-chain file.
WriteEnv ==
    /\ script = "env"
    /\ dotenv' = loc.url
    /\ Goto("source")
    /\ UNCHANGED <<launcherVars, chainVars, tunnel, simulated, source, port, pinned, faults>>

\* Mutant: only .env is written.
WriteSource_Skipped ==
    /\ script = "source"
    /\ Goto("stack")
    /\ UNCHANGED <<launcherVars, hostVars, chainVars, faults>>

\* A per-chain file that is not there is not written.
WriteSource ==
    /\ script = "source"
    /\ source' = IF source.there THEN [source EXCEPT !.url = loc.url] ELSE source
    /\ Goto("stack")
    /\ UNCHANGED <<launcherVars, chainVars, tunnel, dotenv, simulated, port, pinned, faults>>

\* The compose file gives the node the governance of .env.
NewMachine ==
    /\ tee' = tee + 1 /\ record' = 0 /\ prod' = FALSE
    /\ gov' = [gov EXCEPT !.node = gov.env]

\* Mutant: up -d leaves containers that run as they are.
StackUp_NoRecreate ==
    /\ script = "stack" /\ ~Local
    /\ IF port = "theirs"
       THEN Exit /\ UNCHANGED <<launcherVars, hostVars, chainVars>>
       ELSE /\ IF Alive THEN UNCHANGED <<launcherVars, chainVars>> ELSE Launch /\ NewMachine
            /\ port' = "ours" /\ Goto("waitInfo")
            /\ UNCHANGED <<tunnel, files, pinned>>
    /\ UNCHANGED faults

\* up -d --force-recreate; the published port may be another checkout's.
StackUp ==
    /\ script = "stack" /\ ~Local
    /\ IF port = "theirs"
       THEN Exit /\ UNCHANGED <<launcherVars, hostVars, chainVars>>
       ELSE /\ Launch /\ NewMachine
            /\ port' = "ours" /\ pinned' = 0 /\ Goto("waitInfo")
            /\ UNCHANGED <<tunnel, files>>
    /\ UNCHANGED faults

\* e2e.sh start ext-tee: a process whose PID file names a live one is kept.
StartTee ==
    /\ script = "stack" /\ Local
    /\ IF Alive THEN UNCHANGED <<launcherVars, chainVars>> ELSE Launch /\ NewMachine
    /\ Goto("proxy")
    /\ UNCHANGED <<hostVars, faults>>

\* e2e.sh start ext-proxy.
StartProxy ==
    /\ script = "proxy"
    /\ port' = "ours"
    /\ Goto("waitInfo")
    /\ UNCHANGED <<launcherVars, chainVars, tunnel, files, pinned, faults>>

\* What wait-for-url asks: the tunnel's URL, or the devnet proxy on localhost.
Answers == IF Local THEN InfoHere ELSE Info(loc.url)
\* It can still come to answer by itself.
Promising ==
    /\ Local \/ (tunnel.status = "running" /\ loc.url = tunnel.starts)
    /\ port = "ours" /\ Alive /\ node # "down"

WaitInfo ==
    /\ script = "waitInfo" /\ Answers
    /\ script' = "idle" /\ reported' = loc.url
    /\ UNCHANGED <<launcherVars, hostVars, chainVars, loc, faults>>

\* wait-for-url and post-build's wait give up.
InfoTimeout ==
    /\ script \in {"waitInfo", "postWait"} /\ ~Answers
    /\ IF Promising THEN Fault ELSE UNCHANGED faults
    /\ Exit
    /\ UNCHANGED <<launcherVars, hostVars, chainVars>>
-----------------------------------------------------------------------------
(* post-build.sh, as far as the URL goes, and update-tee-url.sh            *)

\* .env is read once; in live mode it is about a machine elsewhere. An empty URL stands for localhost, where this checkout
\* has no proxy before its first URL is written.
BeginPost ==
    /\ script = "idle" /\ ~Local /\ simulated
    /\ script' = "postWait" /\ loc' = [NoLoc EXCEPT !.url = dotenv, !.gov = gov.env]
    /\ UNCHANGED <<launcherVars, hostVars, chainVars, reported>>

PostWait ==
    /\ script = "postWait" /\ Answers
    /\ Goto("postGov")
    /\ UNCHANGED <<launcherVars, hostVars, chainVars, faults>>

\* set-governance asks the node for the extension, and sends unless the latest
\* governance is the one wanted.
SetTeeGovernance ==
    /\ script = "postGov"
    /\ IF Info(loc.url)
       THEN gov' = [gov EXCEPT !.chain = loc.gov] /\ Goto("postInfo")
       ELSE Exit /\ UNCHANGED gov
    /\ UNCHANGED <<launcherVars, hostVars, tee, record, prod, faults>>

\* TeeInfo through the URL.
PostInfo ==
    /\ script = "postInfo"
    /\ IF Info(loc.url)
       THEN script' = "postRegister" /\ loc' = [loc EXCEPT !.tee = pinned] /\ UNCHANGED reported
       ELSE Exit
    /\ UNCHANGED <<launcherVars, hostVars, chainVars, faults>>

\* Pre-registration, the only step that writes the URL, for a new machine only:
\* it reverts with InvalidGovernanceHash for a node launched with another
\* governance than the extension's latest.
PostRegister ==
    /\ script = "postRegister"
    /\ IF record # 0 THEN Goto("postCheck") /\ UNCHANGED record
       ELSE IF gov.node = gov.chain THEN Goto("postCheck") /\ record' = loc.url
       ELSE Exit /\ UNCHANGED record
    /\ UNCHANGED <<launcherVars, hostVars, tee, prod, gov, faults>>

\* The availability check reaches the machine at the URL of its record.
PostCheck ==
    /\ script = "postCheck"
    /\ prod' = (prod \/ (Info(record) /\ loc.tee = tee))
    /\ Exit
    /\ UNCHANGED <<launcherVars, hostVars, tee, record, gov, faults>>

BeginUrl ==
    /\ script = "idle" /\ ~Local /\ simulated
    /\ script' = "urlInfo" /\ loc' = [NoLoc EXCEPT !.url = dotenv]
    /\ UNCHANGED <<launcherVars, hostVars, chainVars, reported>>

\* It dies without a URL. The machine is the one behind localhost; with the
\* proxy away curl fails.
UrlInfo ==
    /\ script = "urlInfo"
    /\ IF loc.url # 0 /\ InfoHere
       THEN script' = "urlSend" /\ loc' = [loc EXCEPT !.tee = pinned] /\ UNCHANGED reported
       ELSE Exit
    /\ UNCHANGED <<launcherVars, hostVars, chainVars, faults>>

\* Mutant: like pre-registration, skipped for a machine that exists.
UrlSend_NewOnly ==
    /\ script = "urlSend"
    /\ record' = IF loc.tee = tee /\ record = 0 THEN loc.url ELSE record
    /\ Exit
    /\ UNCHANGED <<launcherVars, hostVars, tee, prod, gov, faults>>

\* updateTeeMachineSettings, for the machine that was behind localhost.
UrlSend ==
    /\ script = "urlSend"
    /\ record' = IF loc.tee = tee /\ record # 0 THEN loc.url ELSE record
    /\ Exit
    /\ UNCHANGED <<launcherVars, hostVars, tee, prod, gov, faults>>
-----------------------------------------------------------------------------
(* stop-services.sh and use-chain.sh                                       *)

BeginStop ==
    /\ script = "idle"
    /\ script' = "stopTerm" /\ loc' = NoLoc /\ UNCHANGED reported
    /\ UNCHANGED <<launcherVars, hostVars, chainVars>>

StopTerm ==
    /\ script = "stopTerm"
    /\ Terminate
    /\ Goto("stopStack")
    /\ UNCHANGED <<hostVars, chainVars, faults>>

\* Once the grace period is over the process is killed.
StopStack ==
    /\ script = "stopStack"
    /\ IF Alive THEN End("killed") ELSE UNCHANGED launcherVars
    /\ port' = IF port = "ours" THEN "free" ELSE port
    /\ pinned' = IF port = "ours" THEN 0 ELSE pinned
    /\ Goto("stopTunnel")
    /\ UNCHANGED <<chainVars, tunnel, files, faults>>

\* With SIMULATED_TEE=true the shared tunnel goes too, running or exited.
StopTunnel ==
    /\ script = "stopTunnel"
    /\ tunnel' = IF Local \/ ~simulated THEN tunnel ELSE [tunnel EXCEPT !.status = "absent", !.log = {}]
    /\ Exit
    /\ UNCHANGED <<launcherVars, chainVars, files, port, pinned, faults>>

\* use-chain.sh <chain>, with --simulated or without, makes .env a copy of
\* .env.local.<chain> or .env.<chain>, and makes that file, with the URL left
\* empty, where it is missing: from .env by way of .env.<chain>. A URL that
\* only .env had is lost then. The URL of .env.<chain> is set by hand, and the
\* governance of either file need not be the one of .env.
UseChain(sim) ==
    /\ script = "idle" /\ ~Local
    /\ simulated' = sim
    /\ dotenv' = IF sim THEN source.url ELSE 0
    /\ source' = [source EXCEPT !.there = @ \/ sim]
    /\ reported' = IF sim /\ ~source.there THEN 0 ELSE reported
    /\ \E g \in Governances : gov' = [gov EXCEPT !.env = g]
    /\ UNCHANGED <<launcherVars, script, loc, tee, record, prod, tunnel, port, pinned>>

SwitchChain == Fault /\ \E sim \in BOOLEAN : UseChain(sim)

\* Somebody edits the GOVERNANCE_ settings of .env, and not of the per-chain
\* file.
EditGovernance ==
    /\ Fault /\ ~Local
    /\ gov' = [gov EXCEPT !.env = IF @ = "owner" THEN "signers" ELSE "owner"]
    /\ UNCHANGED <<launcherVars, scriptVars, hostVars, tee, record, prod>>
-----------------------------------------------------------------------------
(* The other checkouts on this host, and what else can happen.             *)

TheirTunnelUp ==
    /\ Fault /\ ~Local /\ tunnel.status # "running"
    /\ tunnel' = TunnelRunning
    /\ UNCHANGED <<launcherVars, scriptVars, chainVars, files, port, pinned>>

TheirStackUp ==
    /\ Fault /\ ~Local /\ port = "free"
    /\ port' = "theirs"
    /\ UNCHANGED <<launcherVars, scriptVars, chainVars, tunnel, files, pinned>>

TheirStackDown ==
    /\ port = "theirs"
    /\ port' = "free"
    /\ UNCHANGED <<launcherVars, scriptVars, chainVars, tunnel, files, pinned, faults>>

TheirTunnelDown ==
    /\ Fault /\ ~Local /\ tunnel.status # "absent"
    /\ tunnel' = [tunnel EXCEPT !.status = "absent", !.log = {}]
    /\ UNCHANGED <<launcherVars, scriptVars, chainVars, files, port, pinned>>

ScriptDies ==
    /\ Fault /\ script # "idle"
    /\ Exit
    /\ UNCHANGED <<launcherVars, hostVars, chainVars>>

ProcessFails ==
    /\ Fault
    /\ ExtensionFails \/ NodeFails \/ BadKey \/ SetProxyURLTooEarly
    /\ UNCHANGED <<scriptVars, hostVars, chainVars>>

\* The routine of docs/cloudflared.md: simulated mode, start when the proxy is out of reach,
\* register a new machine, repoint a registered one whose URL has changed; and
\* of docs/getting-started.md: the node and post-build.sh need one governance.
Operate ==
    /\ UNCHANGED faults
    /\ IF Local THEN ~InfoHere /\ BeginStart
       ELSE IF ~simulated THEN UseChain(TRUE)
       ELSE IF ~Info(dotenv) \/ (record = 0 /\ gov.node # gov.env) THEN BeginStart
       ELSE IF record = 0 THEN BeginPost
       ELSE IF record # dotenv THEN BeginUrl
       ELSE ~prod /\ BeginPost

\* A script run out of turn.
Interfere == Fault /\ (BeginStart \/ BeginPost \/ BeginUrl \/ BeginStop)

LauncherStep ==
    /\ MainStep \/ Bind \/ NodeListens
    /\ UNCHANGED <<scriptVars, hostVars, chainVars, faults>>

StartStep ==
    TunnelUp \/ Inspect \/ ReadLogs \/ LogsTimeout \/ WriteEnv \/ WriteSource
    \/ StackUp \/ StartTee \/ StartProxy \/ WaitInfo \/ InfoTimeout
UrlStep ==
    PostWait \/ SetTeeGovernance \/ PostInfo \/ PostRegister \/ PostCheck \/ UrlInfo \/ UrlSend
StopStep == StopTerm \/ StopStack \/ StopTunnel
ScriptStep == StartStep \/ UrlStep \/ StopStep

Environment ==
    TunnelExits \/ SwitchChain \/ EditGovernance \/ TheirTunnelUp \/ TheirStackUp \/ TheirTunnelDown
    \/ ScriptDies \/ ProcessFails

Next ==
    \/ UrlPrinted \/ PinIdentity \/ LauncherStep \/ ScriptStep
    \/ Operate \/ Interfere \/ TheirStackDown \/ Environment

Spec == Init /\ [][Next]_vars

\* Processes and scripts go on, the tunnel prints its URL, the other checkouts
\* give the port back, and the operator follows the routine.
FairSpec ==
    /\ Spec
    /\ WF_vars(UrlPrinted) /\ WF_vars(PinIdentity)
    /\ WF_vars(LauncherStep) /\ WF_vars(ScriptStep)
    /\ WF_vars(TheirStackDown) /\ WF_vars(Operate)
-----------------------------------------------------------------------------
\* ext-proxy never outlives, in the images, the node whose identity it has
\* pinned: it would reject the results of the next one. (start-services.sh
\* calls --force-recreate load-bearing for this.)
ProxyFollowsNode == ~Local /\ port = "ours" /\ pinned # 0 => pinned = tee

\* The URL read from the tunnel's log is the one it has now, unless it was
\* restarted or died while the script was reading: a restarted container
\* keeps the log of its earlier URLs.
AdoptsLiveUrl ==
    [][ReadLogs /\ tunnel.status = "running" /\ loc.since = tunnel.starts
       => loc'.url = tunnel.starts]_vars

\* A URL that start-services.sh reported is, in simulated mode, the one the other
\* scripts read, although use-chain.sh writes .env anew, to live mode and back,
\* scripts die and the shared tunnel comes and goes: "the per-chain source is
\* updated too so use-chain.sh keeps it". It ends with the next start, or with a
\* use-chain.sh that has to make .env.local.<chain>.
ReportedUrlKept == reported # 0 /\ simulated => dotenv = reported

\* However the tunnel rotated, scripts died and other checkouts interfered:
\* the routine ends with a running node in production whose on-chain record
\* has the URL the tunnel serves.
RecordCatchesUp ==
    <>[](Local \/ (Info(dotenv) /\ record = dotenv /\ prod /\ ext = "serving"))
=============================================================================
