--------------------------- MODULE ServicesProofs ---------------------------
(***************************************************************************)
(* Proofs about Services and Launcher, for any number of faults: the types *)
(* of the scripts' state, the pinned identity of ext-proxy, the URL taken  *)
(* from the tunnel's log, and the URL a start has reported.                *)
(***************************************************************************)
EXTENDS Services, WellFoundedInduction, TLAPS

-----------------------------------------------------------------------------
(* tail -1: the greatest URL of a log.                                     *)

\* A non-empty set of naturals has a member that is minimal for a well-founded
\* relation, and so a least one.
LEMMA MinimalMember ==
  ASSUME NEW T, T \subseteq Nat, T # {}, NEW less, IsWellFoundedOn(less, Nat)
  PROVE  \E k \in T : \A j \in T : ~(<<j, k>> \in less)
BY WFMin, ZenonT(30)

\* The least member, for the order of the naturals.
LEMMA LeastNat ==
  ASSUME NEW T \in SUBSET Nat, T # {}
  PROVE  \E k \in T : \A j \in T : k <= j
<1>1. PICK less : /\ IsWellFoundedOn(less, Nat)
                  /\ \A i, j \in Nat : <<i, j>> \in less <=> i < j
  <2>1. IsWellFoundedOn(OpToRel(<, Nat), Nat)
    BY NatLessThanWellFounded
  <2>2. \A i, j \in Nat : <<i, j>> \in OpToRel(<, Nat) <=> i < j
    BY DEF OpToRel
  <2>. QED  BY <2>1, <2>2, Zenon
<1>2. PICK k \in T : \A j \in T : ~(<<j, k>> \in less)
  BY <1>1, MinimalMember
<1>3. \A j \in T : ~(j < k)
  BY <1>1, <1>2
<1>. QED  BY <1>2, <1>3

\* A bounded set of naturals has a maximum.
LEMMA BoundedMax ==
  ASSUME NEW S \in SUBSET Nat, S # {}, NEW b \in Nat, \A u \in S : u <= b
  PROVE  Max(S) \in S /\ \A u \in S : u <= Max(S)
<1> DEFINE T == {k \in Nat : b - k \in S}
<1>1. T \in SUBSET Nat /\ T # {}
  <2>1. PICK u \in S : TRUE
    OBVIOUS
  <2>2. b - u \in Nat /\ b - (b - u) = u
    OBVIOUS
  <2>. QED  BY <2>1, <2>2
<1>2. PICK k \in T : \A j \in T : k <= j
  <2> HIDE DEF T
  <2>. QED  BY <1>1, LeastNat
<1>3. b - k \in S /\ \A u \in S : b - k >= u
  <2>1. ASSUME NEW u \in S PROVE b - k >= u
    <3>1. b - u \in T
      OBVIOUS
    <3>. QED  BY <1>2, <3>1
  <2>. QED  BY <2>1
<1>. QED  BY <1>3 DEF Max

-----------------------------------------------------------------------------
(* The inductive invariant.                                                *)

\* The container's log has no URL from the future.
LogInv == \A u \in tunnel.log : u <= tunnel.starts

\* In the images ext-proxy has pinned the node launched last, or none.
PinInv == ~Local => pinned \in {0, tee}

StartSteps == {"tunnel", "inspect", "logs", "env", "source", "stack", "proxy", "waitInfo"}

\* Where the URL of a start is on its way through the files, and that a start
\* takes the earlier report back before it touches them.
UrlInv ==
    /\ Local => script \notin {"tunnel", "inspect", "logs", "env", "source"}
    /\ Local /\ script \in {"stack", "proxy", "waitInfo"} => loc.url = 0
    /\ script = "source" => dotenv = loc.url
    /\ ~Local /\ script \in {"stack", "proxy", "waitInfo"} =>
          dotenv = loc.url /\ (source.there => source.url = loc.url)
    /\ ~source.there => source.url = 0
    /\ script \in StartSteps => reported = 0
    /\ reported # 0 => /\ simulated => dotenv = reported
                       /\ source.there => source.url = reported

Inv == TypeOK /\ LogInv /\ PinInv /\ UrlInv

\* Everything TypeOK says but the launcher's part.
ServicesTypeOK ==
    /\ tunnel \in [status: {"absent", "running", "exited"}, starts: Nat, log: SUBSET Nat]
    /\ dotenv \in Nat /\ simulated \in BOOLEAN /\ source \in [there: BOOLEAN, url: Nat]
    /\ tee \in Nat /\ pinned \in Nat
    /\ record \in Nat /\ reported \in Nat
    /\ port \in {"free", "ours", "theirs"}
    /\ prod \in BOOLEAN /\ script \in Steps
    /\ loc \in [since: Nat, url: Nat, tee: Nat, gov: Governances]
    /\ gov \in [env: Governances, node: Governances, chain: Governances \cup {"none"}]
    /\ faults \in 0..MaxFaults

\* The type invariant, by parts.
LEMMA TypeParts == TypeOK <=> LauncherTypeOK /\ ServicesTypeOK
BY DEF TypeOK, ServicesTypeOK

\* A host where nothing was started yet.
LEMMA InitInv == Init => Inv
<1> SUFFICES ASSUME Init PROVE Inv
  OBVIOUS
<1>1. LauncherTypeOK
  BY DEF Init, LauncherInit, LauncherTypeOK
<1>2. ServicesTypeOK
  <2>1. faults \in 0..MaxFaults
    BY MaxFaultsAssumption DEF Init
  <2>2. tunnel \in [status: {"absent", "running", "exited"}, starts: Nat, log: SUBSET Nat]
    BY DEF Init
  <2>. QED  BY <2>1, <2>2 DEF Init, ServicesTypeOK, Steps, NoLoc, Governances
<1>3. LogInv /\ PinInv /\ UrlInv
  BY DEF Init, LogInv, PinInv, UrlInv, StartSteps
<1>. QED  BY <1>1, <1>2, <1>3, TypeParts DEF Inv

\* Whatever the process does, it stays a launcher of its kind.
LEMMA LauncherKeeps ==
  ASSUME LauncherTypeOK,
         \/ UNCHANGED launcherVars \/ Launch \/ Terminate \/ End("killed")
         \/ MainStep \/ Bind \/ NodeListens
         \/ ExtensionFails \/ NodeFails \/ BadKey \/ SetProxyURLTooEarly
  PROVE  LauncherTypeOK' /\ kind' = kind
<1> USE DEF LauncherTypeOK
<1>1. ASSUME NEW how \in {"ok", "fail", "killed"}, End(how)
      PROVE  LauncherTypeOK' /\ kind' = kind
  BY <1>1 DEF End
<1>2. CASE UNCHANGED launcherVars
  BY <1>2 DEF launcherVars
<1>3. CASE Launch
  BY <1>3 DEF Launch
<1>4. CASE Terminate
  BY <1>1, <1>4 DEF Terminate, launcherVars
<1>5. CASE MainStep
  <2>1. CASE StartTeeInit \/ SpawnNode \/ StartExtension \/ Notify
    BY <2>1 DEF StartTeeInit, SpawnNode, StartExtension, Notify
  <2>2. CASE EarlyCheck \/ SetProxyURL
    BY <1>1, <2>2 DEF EarlyCheck, SetProxyURL
  <2>3. CASE ReceiveSignal \/ ReceiveError \/ Reap
    BY <1>1, <2>3 DEF ReceiveSignal, ReceiveError, Reap
  <2>4. CASE WaitAny
    BY <2>4 DEF WaitAny
  <2>. QED  BY <1>5, <2>1, <2>2, <2>3, <2>4 DEF MainStep
<1>6. CASE Bind \/ NodeListens \/ ExtensionFails \/ NodeFails
  BY <1>6 DEF Bind, NodeListens, ExtensionFails, NodeFails, InProcess
<1>7. CASE BadKey \/ SetProxyURLTooEarly \/ End("killed")
  BY <1>1, <1>7 DEF BadKey, SetProxyURLTooEarly
<1>. QED  BY <1>2, <1>3, <1>4, <1>5, <1>6, <1>7


\* Every step leaves the launcher a launcher of its kind.
LEMMA NextLauncher ==
  ASSUME LauncherTypeOK, [Next]_vars
  PROVE  LauncherTypeOK' /\ kind' = kind
<1>1. \/ UNCHANGED launcherVars \/ Launch \/ Terminate \/ End("killed")
      \/ MainStep \/ Bind \/ NodeListens
      \/ ExtensionFails \/ NodeFails \/ BadKey \/ SetProxyURLTooEarly
  <2>1. CASE UrlPrinted \/ PinIdentity \/ LauncherStep \/ TheirStackDown
    BY <2>1 DEF UrlPrinted, PinIdentity, LauncherStep, TheirStackDown
  <2>2. CASE StartStep
    BY <2>2 DEF StartStep, TunnelUp, Inspect, ReadLogs, LogsTimeout, WriteEnv, WriteSource,
                StackUp, StartTee, StartProxy, WaitInfo, InfoTimeout
  <2>3. CASE UrlStep
    BY <2>3 DEF UrlStep, PostWait, SetTeeGovernance, PostInfo, PostRegister, PostCheck,
                UrlInfo, UrlSend
  <2>4. CASE StopStep
    BY <2>4 DEF StopStep, StopTerm, StopStack, StopTunnel
  <2>5. CASE Operate \/ Interfere
    BY <2>5 DEF Operate, UseChain, Interfere, BeginStart, BeginPost, BeginUrl, BeginStop
  <2>6. CASE Environment
    BY <2>6 DEF Environment, TunnelExits, SwitchChain, UseChain, EditGovernance, TheirTunnelUp,
                TheirStackUp, TheirTunnelDown, ScriptDies, ProcessFails
  <2>7. CASE UNCHANGED vars
    BY <2>7 DEF vars
  <2>. QED  BY <2>1, <2>2, <2>3, <2>4, <2>5, <2>6, <2>7 DEF Next, ScriptStep
<1>. QED  BY <1>1, LauncherKeeps

\* The tunnel's log: a container started again in place keeps it, a new one
\* begins with an empty log, and the URL printed is that of the last start.
LEMMA TunnelKeeps ==
  ASSUME ServicesTypeOK, LogInv,
         \/ tunnel' = tunnel
         \/ tunnel' = TunnelRunning
         \/ tunnel' = [tunnel EXCEPT !.log = @ \union {tunnel.starts}]
         \/ tunnel' = [tunnel EXCEPT !.status = "exited"]
         \/ tunnel' = [tunnel EXCEPT !.status = "absent", !.log = {}]
  PROVE  /\ tunnel' \in [status: {"absent", "running", "exited"}, starts: Nat, log: SUBSET Nat]
         /\ LogInv'
<1> USE DEF ServicesTypeOK, LogInv
<1>1. CASE tunnel' = tunnel
  BY <1>1
<1>2. CASE tunnel' = TunnelRunning
  BY <1>2 DEF TunnelRunning
<1>3. CASE tunnel' = [tunnel EXCEPT !.log = @ \union {tunnel.starts}]
  BY <1>3
<1>4. CASE tunnel' = [tunnel EXCEPT !.status = "exited"]
  BY <1>4
<1>5. CASE tunnel' = [tunnel EXCEPT !.status = "absent", !.log = {}]
  BY <1>5
<1>. QED  BY <1>1, <1>2, <1>3, <1>4, <1>5

\* Every step keeps the tunnel's log, whatever it does to it.
LEMMA NextTunnel ==
  ASSUME ServicesTypeOK, LogInv, [Next]_vars
  PROVE  /\ tunnel' \in [status: {"absent", "running", "exited"}, starts: Nat, log: SUBSET Nat]
         /\ LogInv'
<1> USE DEF hostVars, files
<1>1. \/ tunnel' = tunnel
      \/ tunnel' = TunnelRunning
      \/ tunnel' = [tunnel EXCEPT !.log = @ \union {tunnel.starts}]
      \/ tunnel' = [tunnel EXCEPT !.status = "exited"]
      \/ tunnel' = [tunnel EXCEPT !.status = "absent", !.log = {}]
  <2>1. CASE UrlPrinted \/ PinIdentity \/ LauncherStep \/ TheirStackDown
    BY <2>1 DEF UrlPrinted, PinIdentity, LauncherStep, TheirStackDown
  <2>2. CASE StartStep
    BY <2>2 DEF StartStep, TunnelUp, Inspect, ReadLogs, LogsTimeout, WriteEnv, WriteSource,
                StackUp, StartTee, StartProxy, WaitInfo, InfoTimeout
  <2>3. CASE UrlStep
    BY <2>3 DEF UrlStep, PostWait, SetTeeGovernance, PostInfo, PostRegister, PostCheck,
                UrlInfo, UrlSend
  <2>4. CASE StopStep
    BY <2>4 DEF StopStep, StopTerm, StopStack, StopTunnel
  <2>5. CASE Operate \/ Interfere
    BY <2>5 DEF Operate, UseChain, Interfere, BeginStart, BeginPost, BeginUrl, BeginStop
  <2>6. CASE Environment
    BY <2>6 DEF Environment, TunnelExits, SwitchChain, UseChain, EditGovernance, TheirTunnelUp,
                TheirStackUp, TheirTunnelDown, ScriptDies, ProcessFails
  <2>7. CASE UNCHANGED vars
    BY <2>7 DEF vars
  <2>. QED  BY <2>1, <2>2, <2>3, <2>4, <2>5, <2>6, <2>7 DEF Next, ScriptStep
<1>. QED  BY <1>1, TunnelKeeps


\* The URL ReadLogs takes is a URL of the log.
LEMMA LogUrl ==
  ASSUME ServicesTypeOK, LogInv, SinceStarted # {}
  PROVE  /\ Max(SinceStarted) \in Nat
         /\ loc.since = tunnel.starts => Max(SinceStarted) = tunnel.starts
<1>1. /\ SinceStarted \in SUBSET Nat /\ tunnel.starts \in Nat /\ loc.since \in Nat
      /\ \A u \in SinceStarted : u <= tunnel.starts /\ u >= loc.since
  BY DEF SinceStarted, LogInv, ServicesTypeOK
<1>2. PICK m \in SinceStarted : m = Max(SinceStarted)
  BY <1>1, BoundedMax
<1>3. m \in Nat /\ m <= tunnel.starts /\ m >= loc.since
  BY <1>1
<1>. QED  BY <1>1, <1>2, <1>3

\* What may still go wrong becomes no more.
LEMMA NextFaults ==
  ASSUME faults \in 0..MaxFaults, [Next]_vars
  PROVE  faults' \in 0..MaxFaults
<1>1. Fault \/ UNCHANGED faults
  <2>1. CASE UrlPrinted \/ PinIdentity \/ LauncherStep \/ TheirStackDown \/ Operate \/ Interfere
    BY <2>1 DEF UrlPrinted, PinIdentity, LauncherStep, TheirStackDown, Operate, Interfere
  <2>2. CASE StartStep
    BY <2>2 DEF StartStep, TunnelUp, Inspect, ReadLogs, LogsTimeout, WriteEnv, WriteSource,
                StackUp, StartTee, StartProxy, WaitInfo, InfoTimeout
  <2>3. CASE UrlStep
    BY <2>3 DEF UrlStep, PostWait, SetTeeGovernance, PostInfo, PostRegister, PostCheck,
                UrlInfo, UrlSend
  <2>4. CASE StopStep
    BY <2>4 DEF StopStep, StopTerm, StopStack, StopTunnel
  <2>5. CASE Environment
    BY <2>5 DEF Environment, TunnelExits, SwitchChain, UseChain, EditGovernance, TheirTunnelUp,
                TheirStackUp, TheirTunnelDown, ScriptDies, ProcessFails
  <2>6. CASE UNCHANGED vars
    BY <2>6 DEF vars
  <2>. QED  BY <2>1, <2>2, <2>3, <2>4, <2>5, <2>6 DEF Next, ScriptStep
<1>. QED  BY <1>1, MaxFaultsAssumption DEF Fault

\* The scripts, the files and the proxy, step by step.
LEMMA NextRest ==
  ASSUME Inv, [Next]_vars
  PROVE  ServicesTypeOK' /\ PinInv' /\ UrlInv'
<1> DEFINE Goal == ServicesTypeOK' /\ PinInv' /\ UrlInv'
<1> SUFFICES Goal
  OBVIOUS
<1>t. ServicesTypeOK /\ LogInv /\ PinInv /\ UrlInv
  BY TypeParts DEF Inv
<1>k. kind' = kind
  BY NextLauncher, TypeParts DEF Inv
<1>l. tunnel' \in [status: {"absent", "running", "exited"}, starts: Nat, log: SUBSET Nat]
  BY <1>t, NextTunnel
<1>f. faults' \in 0..MaxFaults
  BY <1>t, NextFaults DEF ServicesTypeOK
<1> USE DEF ServicesTypeOK, PinInv, UrlInv, Local, StartSteps, Steps, Governances, hostVars,
            files, scriptVars, chainVars, Goto, Exit
<1>1. CASE UrlPrinted
  BY <1>t, <1>k, <1>l, <1>f, <1>1 DEF UrlPrinted
<1>2. CASE PinIdentity
  BY <1>t, <1>k, <1>l, <1>f, <1>2 DEF PinIdentity
<1>3. CASE LauncherStep
  BY <1>t, <1>k, <1>l, <1>f, <1>3 DEF LauncherStep
<1>4. CASE TunnelUp
  BY <1>t, <1>k, <1>l, <1>f, <1>4 DEF TunnelUp
<1>5. CASE Inspect
  BY <1>t, <1>k, <1>l, <1>f, <1>5 DEF Inspect
<1>6. CASE ReadLogs
  BY <1>t, <1>k, <1>l, <1>f, <1>6, LogUrl DEF ReadLogs
<1>7. CASE LogsTimeout
  BY <1>t, <1>k, <1>l, <1>f, <1>7 DEF LogsTimeout
<1>8. CASE WriteEnv
  BY <1>t, <1>k, <1>l, <1>f, <1>8 DEF WriteEnv
<1>9. CASE WriteSource
  BY <1>t, <1>k, <1>l, <1>f, <1>9 DEF WriteSource
<1>m. ASSUME NewMachine
      PROVE  /\ tee' = tee + 1 /\ tee' \in Nat /\ record' = 0 /\ prod' = FALSE
             /\ gov' \in [env: Governances, node: Governances, chain: Governances \cup {"none"}]
  BY <1>t, <1>m DEF NewMachine
<1>10. CASE StackUp
  <2>1. CASE port = "theirs"
    BY <1>t, <1>k, <1>l, <1>f, <1>10, <2>1 DEF StackUp
  <2>2. CASE port # "theirs"
    BY <1>t, <1>k, <1>l, <1>f, <1>m, <1>10, <2>2 DEF StackUp
  <2>. QED  BY <2>1, <2>2
<1>11. CASE StartTee
  <2>1. CASE Alive
    BY <1>t, <1>k, <1>l, <1>f, <1>11, <2>1 DEF StartTee
  <2>2. CASE ~Alive
    BY <1>t, <1>k, <1>l, <1>f, <1>m, <1>11, <2>2 DEF StartTee
  <2>. QED  BY <2>1, <2>2
<1>12. CASE StartProxy
  BY <1>t, <1>k, <1>l, <1>f, <1>12 DEF StartProxy
<1>13. CASE WaitInfo
  BY <1>t, <1>k, <1>l, <1>f, <1>13 DEF WaitInfo
<1>14. CASE InfoTimeout
  BY <1>t, <1>k, <1>l, <1>f, <1>14 DEF InfoTimeout
<1>15. CASE PostWait
  BY <1>t, <1>k, <1>l, <1>f, <1>15 DEF PostWait
<1>16. CASE SetTeeGovernance
  BY <1>t, <1>k, <1>l, <1>f, <1>16 DEF SetTeeGovernance
<1>17. CASE PostInfo
  BY <1>t, <1>k, <1>l, <1>f, <1>17 DEF PostInfo
<1>18. CASE PostRegister
  BY <1>t, <1>k, <1>l, <1>f, <1>18 DEF PostRegister
<1>19. CASE PostCheck
  BY <1>t, <1>k, <1>l, <1>f, <1>19 DEF PostCheck
<1>20. CASE UrlInfo
  BY <1>t, <1>k, <1>l, <1>f, <1>20 DEF UrlInfo
<1>21. CASE UrlSend
  BY <1>t, <1>k, <1>l, <1>f, <1>21 DEF UrlSend
<1>22. CASE StopTerm
  BY <1>t, <1>k, <1>l, <1>f, <1>22 DEF StopTerm
<1>23. CASE StopStack
  BY <1>t, <1>k, <1>l, <1>f, <1>23 DEF StopStack
<1>24. CASE StopTunnel
  BY <1>t, <1>k, <1>l, <1>f, <1>24 DEF StopTunnel
<1>25. CASE TunnelExits \/ TheirTunnelUp \/ TheirTunnelDown \/ TheirStackUp
  BY <1>t, <1>k, <1>l, <1>f, <1>25 DEF TunnelExits, TheirTunnelUp, TheirTunnelDown, TheirStackUp
<1>26. ASSUME NEW sim \in BOOLEAN, UseChain(sim)
       PROVE  Goal
  <2>1. PICK g \in Governances : gov' = [gov EXCEPT !.env = g]
    BY <1>26 DEF UseChain
  <2>2. gov' \in [env: Governances, node: Governances, chain: Governances \cup {"none"}]
    BY <1>t, <2>1
  <2>3. /\ source' = [source EXCEPT !.there = @ \/ sim] /\ simulated' = sim
        /\ dotenv' = (IF sim THEN source.url ELSE 0)
        /\ reported' = (IF sim /\ ~source.there THEN 0 ELSE reported)
        /\ script = "idle"
        /\ UNCHANGED <<script, loc, tee, record, prod, tunnel, port, pinned>>
    BY <1>26 DEF UseChain
  <2>4. /\ source' \in [there: BOOLEAN, url: Nat] /\ source'.url = source.url
        /\ source'.there <=> source.there \/ sim
    BY <1>t, <2>3
  <2>5. ServicesTypeOK'
    BY <1>t, <1>l, <1>f, <2>2, <2>3, <2>4
  <2>6. UrlInv' /\ PinInv'
    BY <1>t, <1>k, <2>3, <2>4
  <2>. QED  BY <2>5, <2>6
<1>27. CASE EditGovernance
  BY <1>t, <1>k, <1>l, <1>f, <1>27 DEF EditGovernance
<1>28. CASE ScriptDies
  BY <1>t, <1>k, <1>l, <1>f, <1>28 DEF ScriptDies
<1>29. CASE ProcessFails
  BY <1>t, <1>k, <1>l, <1>f, <1>29 DEF ProcessFails
<1>30. CASE TheirStackDown
  BY <1>t, <1>k, <1>l, <1>f, <1>30 DEF TheirStackDown
<1>31. CASE BeginStart
  BY <1>t, <1>k, <1>l, <1>f, <1>31 DEF BeginStart, NoLoc
<1>32. CASE BeginPost \/ BeginUrl \/ BeginStop
  <2>1. script' \in {"postWait", "urlInfo", "stopTerm"} /\ UNCHANGED <<reported, hostVars, chainVars>>
    BY <1>32 DEF BeginPost, BeginUrl, BeginStop
  <2>2. loc' \in [since: Nat, url: Nat, tee: Nat, gov: Governances]
    <3>1. dotenv \in Nat /\ gov.env \in Governances /\ "owner" \in Governances
      BY <1>t
    <3>2. CASE BeginPost
      <4>1. loc' = [since |-> 0, url |-> dotenv, tee |-> 0, gov |-> gov.env]
        BY <3>2 DEF BeginPost, NoLoc
      <4>. QED  BY <3>1, <4>1
    <3>3. CASE BeginUrl
      <4>1. loc' = [since |-> 0, url |-> dotenv, tee |-> 0, gov |-> "owner"]
        BY <3>3 DEF BeginUrl, NoLoc
      <4>. QED  BY <3>1, <4>1
    <3>4. CASE BeginStop
      BY <3>4 DEF BeginStop, NoLoc
    <3>. QED  BY <1>32, <3>2, <3>3, <3>4
  <2>. QED  BY <1>t, <1>k, <1>l, <1>f, <2>1, <2>2
<1>33. CASE Operate \/ Interfere
  BY <1>26, <1>31, <1>32, <1>33 DEF Operate, Interfere
<1>34. CASE UNCHANGED vars
  BY <1>t, <1>k, <1>l, <1>f, <1>34 DEF vars
<1> HIDE DEF Goal
<1>. QED
  BY <1>1, <1>2, <1>3, <1>4, <1>5, <1>6, <1>7, <1>8, <1>9, <1>10, <1>11, <1>12, <1>13, <1>14, <1>15, <1>16, <1>17, <1>18, <1>19, <1>20, <1>21, <1>22, <1>23, <1>24, <1>25, <1>26, <1>27, <1>28, <1>29, <1>30, <1>31, <1>32, <1>33, <1>34
  DEF Next, ScriptStep, StartStep, UrlStep, StopStep, Environment, SwitchChain


\* Every step of a script, of the operator or of somebody else keeps it.
LEMMA NextInv == Inv /\ [Next]_vars => Inv'
<1> SUFFICES ASSUME Inv, [Next]_vars PROVE Inv'
  OBVIOUS
<1>1. LauncherTypeOK /\ ServicesTypeOK /\ LogInv
  BY TypeParts DEF Inv
<1>2. LauncherTypeOK' /\ LogInv'
  BY <1>1, NextLauncher, NextTunnel
<1>3. ServicesTypeOK' /\ PinInv' /\ UrlInv'
  BY NextRest
<1>4. TypeOK'
  BY <1>2, <1>3 DEF TypeOK, ServicesTypeOK
<1>. QED  BY <1>2, <1>3, <1>4 DEF Inv

\* The invariant of the scripts and what they run.
THEOREM Invariance == Spec => []Inv
<1>. QED  BY InitInv, NextInv, PTL DEF Spec

\* The types of the launcher, the tunnel, the files and the scripts.
THEOREM TypeCorrect == Spec => []TypeOK
<1>1. Inv => TypeOK
  BY DEF Inv
<1>. QED  BY <1>1, Invariance, PTL

\* --force-recreate starts ext-proxy anew with the node: in the images, no
\* sequence of starts, stops, deaths and takeovers of the port leaves a proxy
\* that has pinned an earlier node's identity.
THEOREM ProxyPinsLastNode == Spec => []ProxyFollowsNode
<1>1. Inv => ProxyFollowsNode
  BY DEF Inv, PinInv, ProxyFollowsNode
<1>. QED  BY <1>1, Invariance, PTL

\* ReportedUrlKept: the URL a start reported is in .env whenever .env is in
\* simulated mode, since use-chain.sh finds the same one in the per-chain file
\* if start-services.sh found that file at all.
THEOREM ReportedUrlIsKept == Spec => []ReportedUrlKept
<1>1. Inv => ReportedUrlKept
  BY DEF Inv, UrlInv, ReportedUrlKept
<1>. QED  BY <1>1, Invariance, PTL

\* logs --since and tail -1 together give the URL the tunnel has now, whatever
\* earlier URLs its log holds.
THEOREM LiveUrlAdopted == Spec => AdoptsLiveUrl
<1>1. Inv /\ [Next]_vars =>
        [ReadLogs /\ tunnel.status = "running" /\ loc.since = tunnel.starts
         => loc'.url = tunnel.starts]_vars
  <2> SUFFICES ASSUME Inv, ReadLogs, loc.since = tunnel.starts
               PROVE  loc'.url = tunnel.starts
    OBVIOUS
  <2>1. ServicesTypeOK /\ LogInv
    BY TypeParts DEF Inv
  <2>2. Max(SinceStarted) = tunnel.starts
    BY <2>1, LogUrl DEF ReadLogs
  <2>3. loc'.url = Max(SinceStarted)
    BY <2>1 DEF ReadLogs, ServicesTypeOK
  <2>. QED  BY <2>2, <2>3
<1>. QED  BY <1>1, Invariance, PTL DEF Spec, AdoptsLiveUrl
=============================================================================
