------------------------------- MODULE Lifecycle -------------------------------
(***************************************************************************)
(* The process (main.go, internal/simulation/runner.go): the goroutine of  *)
(* main, the one that waits for signals, the one of the engine, and the    *)
(* requests it serves.  The process ends when main returns, when anybody   *)
(* calls os.Exit, or when a panic leaves a goroutine other than main:      *)
(* app.OnExit recovers panics of main only.  What the program does not     *)
(* stop itself, the virtual cluster (processes of its own) and the         *)
(* requests in flight, is left as it is.                                   *)
(***************************************************************************)
EXTENDS Naturals

CONSTANTS
    Requests,
    MaxSignals,     \* bound: signals sent by the environment
    Arguments       \* command lines: "help", "malformed", "incomplete", "complete"

ASSUME LifecycleAssumption ==
    /\ MaxSignals \in Nat
    /\ Arguments \subseteq {"help", "malformed", "incomplete", "complete"}

VARIABLES
    arguments,
    main,           \* where main is
    quit,           \* signals in the channel, which holds two
    watcher,        \* which signal the goroutine waits for
    context,        \* of main: "live" or "cancelled"
    engine,         \* where the goroutine of the engine is
    virtualCluster,
    request,        \* per request: none, running, hung, answered, cut off
    exit,           \* none, or the exit code
    signals         \* the number of signals sent

goroutines == <<main, watcher, engine>>
vars == <<arguments, main, quit, watcher, context, engine, virtualCluster, request,
          exit, signals>>

Init ==
    /\ arguments \in Arguments
    /\ main = "parse" /\ quit = 0 /\ watcher = "first" /\ context = "live"
    /\ engine = "absent" /\ virtualCluster = "off"
    /\ request = [r \in Requests |-> "none"]
    /\ exit = "none" /\ signals = 0

Alive == exit = "none"
InFlight(r) == request[r] \in {"running", "hung"}

\* The process ends with this code, and with it every goroutine.
os_Exit(code) ==
    /\ exit' = code
    /\ request' = [r \in Requests |-> IF InFlight(r) THEN "cutOff" ELSE request[r]]

-----------------------------------------------------------------------------
(* main *)

\* The flag package exits itself; ExitAppWithError panics in main, where OnExit
\* turns the panic into an exit code.
parseCmdArgs ==
    /\ Alive /\ main = "parse"
    /\ \/ arguments = "help" /\ os_Exit("0") /\ UNCHANGED main
       \/ arguments = "malformed" /\ os_Exit("2") /\ UNCHANGED main
       \/ arguments = "incomplete" /\ os_Exit("1") /\ UNCHANGED main
       \/ arguments = "complete" /\ main' = "start" /\ UNCHANGED <<request, exit>>
    /\ UNCHANGED <<arguments, quit, watcher, context, engine, virtualCluster, signals>>

startExecutorEngine ==
    /\ Alive /\ main = "start"
    /\ main' = "wait" /\ engine' = "startCluster"
    /\ UNCHANGED <<arguments, quit, watcher, context, virtualCluster, request, exit,
                   signals>>

MainReturns_AtOnce ==
    /\ Alive /\ main = "wait"
    /\ os_Exit("0")
    /\ UNCHANGED <<arguments, goroutines, quit, context, virtualCluster, signals>>

\* Returning from main ends the process: nobody waits for the engine.
MainReturns ==
    /\ Alive /\ main = "wait" /\ context = "cancelled"
    /\ os_Exit("0")
    /\ UNCHANGED <<arguments, goroutines, quit, context, virtualCluster, signals>>

-----------------------------------------------------------------------------
(* Signals *)

Signal_Unbounded ==
    /\ Alive /\ signals < MaxSignals
    /\ signals' = signals + 1 /\ quit' = quit + 1
    /\ UNCHANGED <<arguments, goroutines, context, virtualCluster, request, exit>>

\* Sent by the environment; a full channel drops it.
Signal ==
    /\ Alive /\ signals < MaxSignals
    /\ signals' = signals + 1
    /\ quit' = IF quit < 2 THEN quit + 1 ELSE quit
    /\ UNCHANGED <<arguments, goroutines, context, virtualCluster, request, exit>>

setupSignalHandler_SecondOnly ==
    /\ Alive /\ quit > 0
    /\ quit' = quit - 1
    /\ \/ watcher = "first" /\ watcher' = "second" /\ UNCHANGED <<context, request, exit>>
       \/ watcher = "second" /\ os_Exit("1") /\ UNCHANGED <<context, watcher>>
    /\ UNCHANGED <<arguments, main, engine, virtualCluster, signals>>

\* The first signal cancels the context, the second ends the process.
setupSignalHandler ==
    /\ Alive /\ quit > 0
    /\ quit' = quit - 1
    /\ \/ /\ watcher = "first" /\ watcher' = "second"
          /\ context' = "cancelled" /\ UNCHANGED <<request, exit>>
       \/ watcher = "second" /\ os_Exit("1") /\ UNCHANGED <<context, watcher>>
    /\ UNCHANGED <<arguments, main, engine, virtualCluster, signals>>

-----------------------------------------------------------------------------
(* The engine *)

StartVirtualCluster ==
    /\ Alive /\ engine = "startCluster"
    /\ engine' = "clusterStarting" /\ virtualCluster' = "starting"
    /\ UNCHANGED <<arguments, main, quit, watcher, context, request, exit, signals>>

\* A failure is os.Exit: the deferred Shutdown does not run, and what has been
\* started of the cluster stays.
startEmbeddedVirtualCluster ==
    /\ Alive /\ engine = "clusterStarting"
    /\ \/ virtualCluster' = "on" /\ engine' = "initialize" /\ UNCHANGED <<request, exit>>
       \/ os_Exit("1") /\ UNCHANGED <<engine, virtualCluster>>
    /\ UNCHANGED <<arguments, main, quit, watcher, context, signals>>

\* Pricing access (the provider may be unknown), scorer, target client.
Start ==
    /\ Alive /\ engine = "initialize"
    /\ engine' \in {"serve", "failed"}
    /\ UNCHANGED <<arguments, main, quit, watcher, context, virtualCluster, request,
                   exit, signals>>

\* ListenAndServe returns with an error only.
startHTTPServer ==
    /\ Alive /\ engine = "serve"
    /\ engine' = "failed"
    /\ UNCHANGED <<arguments, main, quit, watcher, context, virtualCluster, request,
                   exit, signals>>

Accept(r) ==
    /\ Alive /\ engine = "serve" /\ request[r] = "none"
    /\ request' = [request EXCEPT ![r] = "running"]
    /\ UNCHANGED <<arguments, goroutines, quit, context, virtualCluster, exit, signals>>

\* Without a virtual cluster a handler ends with an error.
Answer(r) ==
    /\ Alive /\ request[r] = "running"
    /\ request' = [request EXCEPT ![r] = "answered"]
    /\ UNCHANGED <<arguments, goroutines, quit, context, virtualCluster, exit, signals>>

\* A send of a result may block a handler for ever (ScaleUp and Requests say when).
Hang(r) ==
    /\ Alive /\ request[r] = "running"
    /\ request' = [request EXCEPT ![r] = "hung"]
    /\ UNCHANGED <<arguments, goroutines, quit, context, virtualCluster, exit, signals>>

StopVirtualCluster_Skipped ==
    /\ Alive /\ engine = "failed"
    /\ engine' = "drain"
    /\ UNCHANGED <<arguments, main, quit, watcher, context, virtualCluster, request,
                   exit, signals>>

\* The error of Start panics; Shutdown, deferred, runs before the panic leaves
\* the goroutine.  The cluster is stopped while requests may still use it.
StopVirtualCluster ==
    /\ Alive /\ engine = "failed"
    /\ engine' = "drain"
    /\ \/ virtualCluster' = "off"
       \/ virtualCluster' = "notStopped"
    /\ UNCHANGED <<arguments, main, quit, watcher, context, request, exit, signals>>

Shutdown_Close ==
    /\ Alive /\ engine = "drain"
    /\ os_Exit("2")
    /\ UNCHANGED <<arguments, goroutines, quit, context, virtualCluster, signals>>

Shutdown_Recovered ==
    /\ Alive /\ engine = "drain"
    /\ \A r \in Requests : ~InFlight(r)
    /\ engine' = "done"
    /\ UNCHANGED <<arguments, main, watcher, quit, context, virtualCluster, request,
                   exit, signals>>

\* server.Shutdown waits for the requests in flight, without a time limit; then nothing
\* recovers the panic, and the runtime exits with 2, not with the 1 of ExitAppWithError.
Shutdown ==
    /\ Alive /\ engine = "drain"
    /\ \A r \in Requests : ~InFlight(r)
    /\ os_Exit("2")
    /\ UNCHANGED <<arguments, goroutines, quit, context, virtualCluster, signals>>

Ended == ~Alive /\ UNCHANGED vars

\* Without a signal or a failure the process serves on.
Serving == Alive /\ engine = "serve" /\ UNCHANGED vars

Main == parseCmdArgs \/ startExecutorEngine \/ MainReturns
Engine ==
    StartVirtualCluster \/ startEmbeddedVirtualCluster \/ Start \/ StopVirtualCluster \/ Shutdown

Next ==
    \/ Main \/ setupSignalHandler \/ Engine \/ startHTTPServer
    \/ Signal
    \/ \E r \in Requests : Accept(r) \/ Answer(r) \/ Hang(r)
    \/ Ended \/ Serving

\* Goroutines run on, those of handlers until they end or hang; a server need not fail
\* and nobody need send a request or a signal.
Spec ==
    /\ Init /\ [][Next]_vars
    /\ WF_vars(Main) /\ WF_vars(setupSignalHandler) /\ WF_vars(Engine)
    /\ \A r \in Requests : WF_vars(Answer(r) \/ Hang(r))

-----------------------------------------------------------------------------
(* Properties *)

\* Every goroutine is at one of its steps, and the engine only runs while main waits.
TypeOK ==
    /\ arguments \in Arguments
    /\ main \in {"parse", "start", "wait"}
    /\ quit \in 0 .. 2 /\ watcher \in {"first", "second"} /\ context \in {"live", "cancelled"}
    /\ engine \in {"absent", "startCluster", "clusterStarting", "initialize", "serve", "failed",
                   "drain"}
    /\ engine # "absent" => main = "wait"
    /\ virtualCluster \in {"off", "starting", "on", "notStopped"}
    /\ request \in [Requests -> {"none", "running", "hung", "answered", "cutOff"}]
    /\ exit \in {"none", "0", "1", "2"} /\ signals \in 0 .. MaxSignals

\* The virtual cluster outlives the process only if it did not start or stop, or if a
\* signal ended main before the deferred Shutdown of the engine, which main does not
\* wait for, got to it.
ClusterLeftBehind ==
    (~Alive /\ virtualCluster # "off") =>
        \/ virtualCluster = "notStopped"
        \/ virtualCluster = "starting" /\ engine = "clusterStarting"
        \/ virtualCluster = "on" /\ context = "cancelled" /\ engine # "drain"

\* A request is cut off by a signal that was received, never by the failure of the
\* server: that waits for the requests in flight before it ends the process.
CutOffOnlyBySignal ==
    (\E r \in Requests : request[r] = "cutOff") => context = "cancelled"

\* The process reports success only when it was asked to stop or for help: a failure of
\* the engine is never taken for a regular end, unless a signal came as well.  More the
\* exit code does not tell: a failed engine shares its 2 with malformed flags (main.go
\* asks for 1), and 1 stands for incomplete arguments, a second signal and a virtual
\* cluster that did not start.
SuccessOnlyWhenAsked == exit = "0" => context = "cancelled" \/ arguments = "help"

\* One signal is enough, whatever the engine and its requests are doing.
SignalEndsProcess == signals > 0 ~> ~Alive

\* An engine that fails takes the process with it, unless a handler hangs: then
\* server.Shutdown never returns, and a process without a virtual cluster lives on.
EngineFailureEndsProcess ==
    engine = "failed" ~> ~Alive \/ \E r \in Requests : request[r] = "hung"

=============================================================================
