------------------------------ MODULE Launcher ------------------------------
(***************************************************************************)
(* The process that runs tee-node and the extension side by side, in its   *)
(* three shapes:                                                           *)
(*   "docker"       go/cmd/docker: both linked into one binary, two        *)
(*                  goroutines, PID 1 of the Go image;                     *)
(*   "start-tee"    go/cmd/start-tee: the same on the host, for --local;   *)
(*   "two-process"  the CMD of the Python and TypeScript images: a shell   *)
(*                  as PID 1 that starts both and waits for either.        *)
(*                                                                         *)
(* The sleeps before the early check do not order it after the bind: a     *)
(* goroutine may be scheduled, and a listener may fail, at any time.       *)
(***************************************************************************)

Kinds == {"docker", "start-tee", "two-process"}

VARIABLES
    kind,   \* which of the launchers this is
    main,   \* where main, or the shell, stands; how it ended
    ext,    \* the extension's server: ListenAndServe, or the second child
    node,   \* tee-node: StartServerExtension, or the first child
    errCh,  \* the error channel of StartExtension holds an error
    sig     \* a signal is in the channel given to signal.Notify

launcherVars == <<kind, main, ext, node, errCh, sig>>

Ended == main \in {"ok", "fail", "killed"}
Alive == main \notin {"none", "ok", "fail", "killed"}
InProcess == kind # "two-process"

LauncherTypeOK ==
    /\ kind \in Kinds
    /\ main \in {"none", "init", "spawn", "listen", "early", "notify", "proxyURL",
                 "wait", "reap", "ok", "fail", "killed"}
    /\ ext \in {"none", "binding", "serving", "failed"}
    /\ node \in {"none", "starting", "serving", "down"}
    /\ errCh \in BOOLEAN /\ sig \in BOOLEAN

\* The end of main ends its goroutines; the end of PID 1 ends its children.
End(how) ==
    /\ main' = how
    /\ ext' = "none" /\ node' = "none"
    /\ errCh' = FALSE /\ sig' = FALSE
    /\ UNCHANGED kind

\* No process yet.
LauncherInit ==
    /\ kind \in Kinds
    /\ main = "none" /\ ext = "none" /\ node = "none"
    /\ errCh = FALSE /\ sig = FALSE

\* A new process, in place of any earlier one.
Launch ==
    /\ main' = IF kind = "start-tee" THEN "init" ELSE "spawn"
    /\ ext' = "none" /\ node' = "none"
    /\ errCh' = FALSE /\ sig' = FALSE
    /\ UNCHANGED kind

\* start-tee asks for signals before anything else, and takes the owner from
\* the environment or from the deployment key.
StartTeeInit ==
    /\ main = "init"
    /\ main' = "spawn"
    /\ UNCHANGED <<kind, ext, node, errCh, sig>>

\* The deployment key does not parse.
BadKey == main = "init" /\ End("fail")

SpawnNode ==
    /\ main = "spawn"
    /\ main' = "listen" /\ node' = "starting"
    /\ UNCHANGED <<kind, ext, errCh, sig>>

StartExtension ==
    /\ main = "listen"
    /\ main' = IF InProcess THEN "early" ELSE "wait"
    /\ ext' = "binding"
    /\ UNCHANGED <<kind, node, errCh, sig>>

Bind ==
    /\ ext = "binding"
    /\ ext' = "serving"
    /\ UNCHANGED <<kind, main, node, errCh, sig>>

\* The port is in use, the listener fails later, or the child dies.
ExtensionFails ==
    /\ ext \in {"binding", "serving"}
    /\ ext' = "failed"
    /\ errCh' = InProcess
    /\ UNCHANGED <<kind, main, node, sig>>

\* External: tee-node opens its ports.
NodeListens ==
    /\ node = "starting"
    /\ node' = "serving"
    /\ UNCHANGED <<kind, main, ext, errCh, sig>>

\* External: tee-node gives up. In one process StartServerExtension returns
\* nothing and main does not learn of it.
NodeFails ==
    /\ node \in {"starting", "serving"}
    /\ node' = "down"
    /\ UNCHANGED <<kind, main, ext, errCh, sig>>

\* The select with a default after the first sleep.
EarlyCheck ==
    /\ main = "early"
    /\ IF errCh
       THEN End("fail")
       ELSE /\ main' = IF kind = "docker" THEN "notify" ELSE "proxyURL"
            /\ UNCHANGED <<kind, ext, node, errCh, sig>>

\* go/cmd/docker asks for signals only now.
Notify ==
    /\ main = "notify"
    /\ main' = "wait"
    /\ UNCHANGED <<kind, ext, node, errCh, sig>>

\* start-tee posts the proxy's URL to the node.
SetProxyURL ==
    /\ main = "proxyURL" /\ node # "starting"
    /\ IF node = "serving"
       THEN main' = "wait" /\ UNCHANGED <<kind, ext, node, errCh, sig>>
       ELSE End("fail")

\* A node that does not listen yet, 250 ms after it was started, refuses the
\* connection.
SetProxyURLTooEarly == main = "proxyURL" /\ node = "starting" /\ End("fail")

ReceiveSignal ==
    /\ InProcess /\ main = "wait" /\ sig
    /\ End("ok")

\* Mutant: the error channel is not part of the last select.
ReceiveError_Never == FALSE /\ End("fail")

\* The other branch of go/cmd/docker's select; start-tee has no such branch.
ReceiveError ==
    /\ kind = "docker" /\ main = "wait" /\ errCh
    /\ End("fail")

\* wait -n: either child has ended.
WaitAny ==
    /\ ~InProcess /\ main = "wait"
    /\ node = "down" \/ ext = "failed"
    /\ main' = "reap"
    /\ UNCHANGED <<kind, ext, node, errCh, sig>>

\* kill -TERM to both, exit 1: the children do not outlive PID 1.
Reap == main = "reap" /\ End("fail")

\* Whether SIGTERM finds a channel waiting for it.
Notified == IF kind = "start-tee" THEN main # "init" ELSE main = "wait"

\* SIGTERM: into the channel; by default the end of a Go process; the shell
\* sets no trap and the kernel does not deliver it to PID 1.
Terminate ==
    IF ~Alive \/ ~InProcess THEN UNCHANGED launcherVars
    ELSE IF Notified THEN sig' = TRUE /\ UNCHANGED <<kind, main, ext, node, errCh>>
    ELSE End("killed")

\* What main does by itself.
MainStep ==
    \/ StartTeeInit \/ SpawnNode \/ StartExtension \/ EarlyCheck \/ Notify
    \/ SetProxyURL \/ ReceiveSignal \/ ReceiveError \/ WaitAny \/ Reap

\* The states in which a failed extension is going to be noticed.
Watched ==
    \/ kind \in {"docker", "two-process"}
    \/ main \in {"init", "spawn", "listen", "early"}
-----------------------------------------------------------------------------
\* An extension that fails (its port taken, its listener broken, its process
\* dead) ends the container, so that it can be replaced: whenever it fails in
\* the images, and up to the early check under start-tee. Likewise tee-node
\* where it is a process of its own.
FailureEndsProcess ==
    /\ (ext = "failed" /\ Watched) ~> ext # "failed"
    /\ (node = "down" /\ ~InProcess) ~> node # "down"
=============================================================================
