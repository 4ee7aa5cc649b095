------------------------------- MODULE GoMain -------------------------------
(***************************************************************************)
(* The standalone Go extension process: GoExtension run by main, which     *)
(* blocks in ListenAndServe, and the signal goroutine, which calls         *)
(* Server.Shutdown with a deadline and then os.Exit.  Shutdown (net/http,  *)
(* external) closes the listener, which makes ListenAndServe return        *)
(* ErrServerClosed at once, and then waits for the requests in flight.     *)
(* The process is gone as soon as either goroutine gets to its end.        *)
(***************************************************************************)
EXTENDS GoExtension

VARIABLES
    listener,   \* "new", "open" or "closed"
    mainPc,     \* main: "serving", "returned"
    signalPc,   \* the signal goroutine: "waiting", "Shutdown", "exit"
    exit        \* how the process ended: "running", "drained", "deadline",
                \* "main" or "fatal"

procVars == <<listener, mainPc, signalPc, exit>>

InFlight == {r \in Requests : pc[r] \notin {"idle", "done"}}

MainInit ==
    /\ Init
    /\ listener = "new"
    /\ mainPc = "serving"
    /\ signalPc = "waiting"
    /\ exit = "running"

\* ListenAndServe binds the port.
Listen ==
    /\ exit = "running"
    /\ mainPc = "serving"
    /\ listener = "new"
    /\ listener' = "open"
    /\ UNCHANGED <<vars, mainPc, signalPc, exit>>

\* It cannot bind the port, or to accept fails for good: logger.Fatalf.
ListenFails ==
    /\ exit = "running"
    /\ mainPc = "serving"
    /\ listener # "closed"
    /\ mainPc' = "returned"
    /\ exit' = "fatal"
    /\ UNCHANGED <<vars, listener, signalPc>>

\* A request goroutine moves, or a new connection is accepted.
Serve ==
    /\ exit = "running"
    /\ \E r \in Requests :
         Step(r) \/ (listener = "open" /\ \E m \in Messages : Accept(r, m))
    /\ UNCHANGED procVars

\* SIGINT or SIGTERM arrives; Shutdown closes the listener.
Signal ==
    /\ exit = "running"
    /\ signalPc = "waiting"
    /\ signalPc' = "Shutdown"
    /\ listener' = "closed"
    /\ UNCHANGED <<vars, mainPc, exit>>

\* Shutdown finds every connection idle; os.Exit(0) follows.
Drained ==
    /\ exit = "running"
    /\ signalPc = "Shutdown"
    /\ InFlight = {}
    /\ signalPc' = "exit"
    /\ exit' = "drained"
    /\ UNCHANGED <<vars, listener, mainPc>>

\* config.TimeoutShutdown passes first; the error is logged, os.Exit(0).
DeadlinePasses ==
    /\ exit = "running"
    /\ signalPc = "Shutdown"
    /\ InFlight # {}
    /\ signalPc' = "exit"
    /\ exit' = "deadline"
    /\ UNCHANGED <<vars, listener, mainPc>>

\* ListenAndServe returns ErrServerClosed and main runs to its end.
MainReturns ==
    /\ exit = "running"
    /\ mainPc = "serving"
    /\ listener = "closed"
    /\ mainPc' = "returned"
    /\ exit' = "main"
    /\ UNCHANGED <<vars, listener, signalPc>>

Gone == exit # "running" /\ UNCHANGED <<vars, procVars>>

MainNext ==
    \/ Listen \/ ListenFails \/ Serve \/ Signal \/ Drained \/ DeadlinePasses
    \/ MainReturns \/ Gone

MainSpec == MainInit /\ [][MainNext]_<<vars, procVars>>

\* main.go calls its signal handling a graceful shutdown: a request accepted
\* before the signal is answered before the process goes away, unless the
\* shutdown deadline cuts it off or the server could not go on anyway.
GracefulShutdown == exit \notin {"running", "deadline", "fatal"} => InFlight = {}
=============================================================================
