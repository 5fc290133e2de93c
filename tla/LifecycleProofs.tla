--------------------------- MODULE LifecycleProofs ---------------------------
(***************************************************************************)
(* The safety properties of Lifecycle, for any number of requests and      *)
(* signals and any command line.                                           *)
(*                                                                         *)
(* IInv adds to them what makes them inductive: where the virtual cluster  *)
(* is at each step of the engine, that a request runs only while a server  *)
(* was started, and that every signal received was sent.                   *)
(***************************************************************************)
EXTENDS Lifecycle, TLAPS

\* Signals received are signals sent: one in the watcher's hands, two at most in
\* the channel; the first one received, and nothing else, cancels the context.
SignalsSent ==
    /\ quit + (IF watcher = "second" THEN 1 ELSE 0) <= signals
    /\ context = "cancelled" <=> watcher = "second"

\* The virtual cluster at each step of the engine.
ClusterFollowsEngine ==
    /\ engine \in {"absent", "startCluster"} => virtualCluster = "off"
    /\ engine = "clusterStarting" => virtualCluster = "starting"
    /\ engine \in {"initialize", "serve", "failed"} => virtualCluster = "on"
    /\ engine = "drain" => virtualCluster \in {"off", "notStopped"}

\* Requests are served only once the engine has a server.
ServedByEngine ==
    \A r \in Requests : InFlight(r) => engine \in {"serve", "failed", "drain"}

\* The engine is started by main after the command line was parsed.
EngineAfterMain == main # "wait" => engine = "absent"

IInv ==
    /\ TypeOK
    /\ SignalsSent /\ ClusterFollowsEngine /\ ServedByEngine /\ EngineAfterMain
    /\ ClusterLeftBehind /\ CutOffOnlyBySignal /\ SuccessOnlyWhenAsked

-----------------------------------------------------------------------------
\* Initially nothing runs and nothing was sent.
LEMMA InitIInv == Init => IInv
<1> SUFFICES ASSUME Init PROVE IInv
    OBVIOUS
<1> USE LifecycleAssumption DEF Init
<1>1. TypeOK
  BY DEF TypeOK
<1>2. SignalsSent
  BY DEF SignalsSent
<1>3. ClusterFollowsEngine /\ ServedByEngine /\ EngineAfterMain
  BY DEF ClusterFollowsEngine, ServedByEngine, EngineAfterMain, InFlight
<1>4. ClusterLeftBehind /\ CutOffOnlyBySignal /\ SuccessOnlyWhenAsked
  BY DEF ClusterLeftBehind, CutOffOnlyBySignal, SuccessOnlyWhenAsked, Alive, InFlight
<1> QED BY <1>1, <1>2, <1>3, <1>4 DEF IInv

\* The end of the process changes no request but those running, which it cuts off.
LEMMA ExitRequests ==
    ASSUME TypeOK, NEW code, os_Exit(code)
    PROVE  /\ exit' = code
           /\ request' \in [Requests -> {"none", "running", "hung", "answered", "cutOff"}]
           /\ \A r \in Requests : ~InFlight(r)'
           /\ \A r \in Requests : request'[r] = "cutOff" => InFlight(r) \/ request[r] = "cutOff"
BY DEF os_Exit, TypeOK, InFlight

\* The steps of main keep IInv.
LEMMA MainStep == ASSUME IInv, Main PROVE IInv'
<1> USE LifecycleAssumption
<1>1. CASE parseCmdArgs
  <2>1. CASE main' = "start" /\ UNCHANGED <<request, exit>>
    BY <1>1, <2>1 DEF parseCmdArgs, IInv, TypeOK, SignalsSent, ClusterFollowsEngine,
         ServedByEngine, EngineAfterMain, ClusterLeftBehind, CutOffOnlyBySignal,
         SuccessOnlyWhenAsked, Alive, InFlight
  <2>2. ASSUME NEW code \in {"0", "1", "2"}, os_Exit(code), UNCHANGED main,
               <<arguments, code>> \in
                 {<<"help", "0">>, <<"malformed", "2">>, <<"incomplete", "1">>}
        PROVE  IInv'
    BY <1>1, <2>2, ExitRequests DEF parseCmdArgs, IInv, TypeOK, SignalsSent,
         ClusterFollowsEngine, ServedByEngine, EngineAfterMain, ClusterLeftBehind,
         CutOffOnlyBySignal, SuccessOnlyWhenAsked, Alive, InFlight
  <2> QED BY <1>1, <2>1, <2>2 DEF parseCmdArgs
<1>2. CASE startExecutorEngine
  BY <1>2 DEF startExecutorEngine, IInv, TypeOK, SignalsSent, ClusterFollowsEngine,
       ServedByEngine, EngineAfterMain, ClusterLeftBehind, CutOffOnlyBySignal,
       SuccessOnlyWhenAsked, Alive, InFlight
<1>3. CASE MainReturns
  <2>a. TypeOK'
    BY <1>3, ExitRequests DEF MainReturns, goroutines, IInv, TypeOK, Alive
  <2>b. SignalsSent'
    BY <1>3 DEF MainReturns, goroutines, IInv, TypeOK, SignalsSent
  <2>c. ClusterFollowsEngine' /\ ServedByEngine' /\ EngineAfterMain'
    BY <1>3, ExitRequests DEF MainReturns, goroutines, IInv, TypeOK, Alive,
         ClusterFollowsEngine, ServedByEngine, EngineAfterMain, InFlight
  <2>d. ClusterLeftBehind' /\ CutOffOnlyBySignal' /\ SuccessOnlyWhenAsked'
    BY <1>3, ExitRequests DEF MainReturns, goroutines, IInv, TypeOK, SignalsSent,
         ClusterFollowsEngine, ServedByEngine, EngineAfterMain, ClusterLeftBehind,
         CutOffOnlyBySignal, SuccessOnlyWhenAsked, Alive, InFlight
  <2> QED BY <2>a, <2>b, <2>c, <2>d DEF IInv
<1> QED BY <1>1, <1>2, <1>3 DEF Main

\* Signals, sent and received, keep IInv.
LEMMA SignalStep == ASSUME IInv, Signal \/ setupSignalHandler PROVE IInv'
<1> USE LifecycleAssumption
<1>1. CASE Signal
  <2>a. TypeOK'
    BY <1>1 DEF Signal, goroutines, IInv, TypeOK, Alive
  <2>b. SignalsSent'
    BY <1>1 DEF Signal, goroutines, IInv, TypeOK, SignalsSent
  <2>c. ClusterFollowsEngine' /\ ServedByEngine' /\ EngineAfterMain'
    BY <1>1 DEF Signal, goroutines, IInv, TypeOK, Alive, ClusterFollowsEngine, ServedByEngine,
         EngineAfterMain, InFlight
  <2>d. ClusterLeftBehind' /\ CutOffOnlyBySignal' /\ SuccessOnlyWhenAsked'
    BY <1>1 DEF Signal, goroutines, IInv, TypeOK, SignalsSent, ClusterFollowsEngine,
         ServedByEngine, EngineAfterMain, ClusterLeftBehind, CutOffOnlyBySignal,
         SuccessOnlyWhenAsked, Alive, InFlight
  <2> QED BY <2>a, <2>b, <2>c, <2>d DEF IInv
<1>2. CASE setupSignalHandler
  <2>1. CASE watcher = "first"
    <3>a. TypeOK'
      BY <1>2, <2>1 DEF setupSignalHandler, IInv, TypeOK, Alive
    <3>b. SignalsSent'
      BY <1>2, <2>1 DEF setupSignalHandler, IInv, TypeOK, SignalsSent
    <3>c. ClusterFollowsEngine' /\ ServedByEngine' /\ EngineAfterMain'
      BY <1>2, <2>1 DEF setupSignalHandler, IInv, TypeOK, Alive, ClusterFollowsEngine,
           ServedByEngine, EngineAfterMain, InFlight
    <3>d. ClusterLeftBehind' /\ CutOffOnlyBySignal' /\ SuccessOnlyWhenAsked'
      BY <1>2, <2>1 DEF setupSignalHandler, IInv, TypeOK, SignalsSent, ClusterFollowsEngine,
           ServedByEngine, EngineAfterMain, ClusterLeftBehind, CutOffOnlyBySignal,
           SuccessOnlyWhenAsked, Alive, InFlight
    <3> QED BY <3>a, <3>b, <3>c, <3>d DEF IInv
  <2>2. CASE watcher = "second"
    <3>a. TypeOK'
      BY <1>2, <2>2, ExitRequests DEF setupSignalHandler, IInv, TypeOK, Alive
    <3>b. SignalsSent'
      BY <1>2, <2>2 DEF setupSignalHandler, IInv, TypeOK, SignalsSent
    <3>c. ClusterFollowsEngine' /\ ServedByEngine' /\ EngineAfterMain'
      BY <1>2, <2>2, ExitRequests DEF setupSignalHandler, IInv, TypeOK, Alive,
           ClusterFollowsEngine, ServedByEngine, EngineAfterMain, InFlight
    <3>d. ClusterLeftBehind' /\ CutOffOnlyBySignal' /\ SuccessOnlyWhenAsked'
      BY <1>2, <2>2, ExitRequests DEF setupSignalHandler, IInv, TypeOK, SignalsSent,
           ClusterFollowsEngine, ServedByEngine, EngineAfterMain, ClusterLeftBehind,
           CutOffOnlyBySignal, SuccessOnlyWhenAsked, Alive, InFlight
    <3> QED BY <3>a, <3>b, <3>c, <3>d DEF IInv
  <2> QED BY <2>1, <2>2 DEF IInv, TypeOK
<1> QED BY <1>1, <1>2

\* The steps of the engine keep IInv.
LEMMA EngineStep == ASSUME IInv, Engine \/ startHTTPServer PROVE IInv'
<1> USE LifecycleAssumption
<1>1. CASE StartVirtualCluster
  BY <1>1 DEF StartVirtualCluster, IInv, TypeOK, SignalsSent, ClusterFollowsEngine,
       ServedByEngine, EngineAfterMain, ClusterLeftBehind, CutOffOnlyBySignal,
       SuccessOnlyWhenAsked, Alive, InFlight
<1>2. CASE startEmbeddedVirtualCluster
  <2>1. CASE virtualCluster' = "on" /\ engine' = "initialize" /\ UNCHANGED <<request, exit>>
    BY <1>2, <2>1 DEF startEmbeddedVirtualCluster, IInv, TypeOK, SignalsSent,
         ClusterFollowsEngine, ServedByEngine, EngineAfterMain, ClusterLeftBehind,
         CutOffOnlyBySignal, SuccessOnlyWhenAsked, Alive, InFlight
  <2>2. CASE os_Exit("1") /\ UNCHANGED <<engine, virtualCluster>>
    <3>a. TypeOK'
      BY <1>2, <2>2, ExitRequests DEF startEmbeddedVirtualCluster, IInv, TypeOK, Alive
    <3>b. SignalsSent'
      BY <1>2, <2>2 DEF startEmbeddedVirtualCluster, IInv, TypeOK, SignalsSent
    <3>c. ClusterFollowsEngine' /\ ServedByEngine' /\ EngineAfterMain'
      BY <1>2, <2>2, ExitRequests DEF startEmbeddedVirtualCluster, IInv, TypeOK, Alive,
           ClusterFollowsEngine, ServedByEngine, EngineAfterMain, InFlight
    <3>d. ClusterLeftBehind' /\ CutOffOnlyBySignal' /\ SuccessOnlyWhenAsked'
      BY <1>2, <2>2, ExitRequests DEF startEmbeddedVirtualCluster, IInv, TypeOK, SignalsSent,
           ClusterFollowsEngine, ServedByEngine, EngineAfterMain, ClusterLeftBehind,
           CutOffOnlyBySignal, SuccessOnlyWhenAsked, Alive, InFlight
    <3> QED BY <3>a, <3>b, <3>c, <3>d DEF IInv
  <2> QED BY <1>2, <2>1, <2>2 DEF startEmbeddedVirtualCluster
<1>3. CASE Start
  BY <1>3 DEF Start, IInv, TypeOK, SignalsSent, ClusterFollowsEngine, ServedByEngine,
       EngineAfterMain, ClusterLeftBehind, CutOffOnlyBySignal, SuccessOnlyWhenAsked, Alive,
       InFlight
<1>4. CASE startHTTPServer
  BY <1>4 DEF startHTTPServer, IInv, TypeOK, SignalsSent, ClusterFollowsEngine, ServedByEngine,
       EngineAfterMain, ClusterLeftBehind, CutOffOnlyBySignal, SuccessOnlyWhenAsked, Alive,
       InFlight
<1>5. CASE StopVirtualCluster
  BY <1>5 DEF StopVirtualCluster, IInv, TypeOK, SignalsSent, ClusterFollowsEngine,
       ServedByEngine, EngineAfterMain, ClusterLeftBehind, CutOffOnlyBySignal,
       SuccessOnlyWhenAsked, Alive, InFlight
<1>6. CASE Shutdown
  <2>a. TypeOK'
    BY <1>6, ExitRequests DEF Shutdown, goroutines, IInv, TypeOK, Alive
  <2>b. SignalsSent'
    BY <1>6 DEF Shutdown, goroutines, IInv, TypeOK, SignalsSent
  <2>c. ClusterFollowsEngine' /\ ServedByEngine' /\ EngineAfterMain'
    BY <1>6, ExitRequests DEF Shutdown, goroutines, IInv, TypeOK, Alive, ClusterFollowsEngine,
         ServedByEngine, EngineAfterMain, InFlight
  <2>d. ClusterLeftBehind' /\ CutOffOnlyBySignal' /\ SuccessOnlyWhenAsked'
    BY <1>6, ExitRequests DEF Shutdown, goroutines, IInv, TypeOK, SignalsSent,
         ClusterFollowsEngine, ServedByEngine, EngineAfterMain, ClusterLeftBehind,
         CutOffOnlyBySignal, SuccessOnlyWhenAsked, Alive, InFlight
  <2> QED BY <2>a, <2>b, <2>c, <2>d DEF IInv
<1> QED BY <1>1, <1>2, <1>3, <1>4, <1>5, <1>6 DEF Engine

\* Accepting and answering requests keeps IInv, and so does a handler that hangs.
LEMMA RequestStep ==
    ASSUME IInv, NEW r \in Requests, Accept(r) \/ Answer(r) \/ Hang(r)
    PROVE  IInv'
<1> USE LifecycleAssumption
<1>1. CASE Accept(r)
  BY <1>1 DEF Accept, goroutines, IInv, TypeOK, SignalsSent, ClusterFollowsEngine,
       ServedByEngine, EngineAfterMain, ClusterLeftBehind, CutOffOnlyBySignal,
       SuccessOnlyWhenAsked, Alive, InFlight
<1>2. CASE Answer(r)
  BY <1>2 DEF Answer, goroutines, IInv, TypeOK, SignalsSent, ClusterFollowsEngine,
       ServedByEngine, EngineAfterMain, ClusterLeftBehind, CutOffOnlyBySignal,
       SuccessOnlyWhenAsked, Alive, InFlight
<1>3. CASE Hang(r)
  BY <1>3 DEF Hang, goroutines, IInv, TypeOK, SignalsSent, ClusterFollowsEngine, ServedByEngine,
       EngineAfterMain, ClusterLeftBehind, CutOffOnlyBySignal, SuccessOnlyWhenAsked, Alive,
       InFlight
<1> QED BY <1>1, <1>2, <1>3

\* A step that changes nothing keeps IInv.
LEMMA StutterStep == ASSUME IInv, UNCHANGED vars PROVE IInv'
BY DEF vars, goroutines, IInv, TypeOK, SignalsSent, ClusterFollowsEngine, ServedByEngine,
     EngineAfterMain, ClusterLeftBehind, CutOffOnlyBySignal, SuccessOnlyWhenAsked, Alive, InFlight

\* IInv holds in every reachable state.
THEOREM Invariance == Spec => []IInv
<1>1. IInv /\ [Next]_vars => IInv'
  BY MainStep, SignalStep, EngineStep, RequestStep, StutterStep DEF Next, Ended, Serving
<1> QED BY InitIInv, <1>1, PTL DEF Spec

\* Every goroutine stays at one of its steps.
THEOREM TypeCorrect == Spec => []TypeOK
<1>1. IInv => TypeOK BY DEF IInv
<1> QED BY Invariance, <1>1, PTL

\* Without a signal the virtual cluster does not outlive the process, but for one that
\* did not start or stop; and none outlives it once it was stopped.
THEOREM ClusterStopped == Spec => []ClusterLeftBehind
<1>1. IInv => ClusterLeftBehind BY DEF IInv
<1> QED BY Invariance, <1>1, PTL

\* No request is cut off before a signal was received.
THEOREM RequestsFinish == Spec => []CutOffOnlyBySignal
<1>1. IInv => CutOffOnlyBySignal BY DEF IInv
<1> QED BY Invariance, <1>1, PTL

\* Success is reported only when the process was asked to stop, or for help.
THEOREM NoFailureHidden == Spec => []SuccessOnlyWhenAsked
<1>1. IInv => SuccessOnlyWhenAsked BY DEF IInv
<1> QED BY Invariance, <1>1, PTL
=============================================================================
