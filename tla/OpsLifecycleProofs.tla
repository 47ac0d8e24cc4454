-------------------------- MODULE OpsLifecycleProofs --------------------------
(***************************************************************************)
(* Proofs about OpsLifecycle, for any number of requests and signals.      *)
(*                                                                         *)
(* IInv, the inductive invariant, adds to the types what the place main is *)
(* at says of the server and of the signals: once main is past a shutdown  *)
(* that returned no error, nothing is listening, no request runs and none  *)
(* can come on a connection that is still open.                            *)
(***************************************************************************)
EXTENDS OpsLifecycle, TLAPS

\* main is past serveHTTP.
Stopping == mpc \in {"stopWorker", "joinWorker", "stopHeartbeat", "joinHeartbeat", "exit"}

\* The worker is told to stop by main alone, when it is past serveHTTP.
StopIsOrdered == wstop => Stopping \/ mpc = "killed"

\* A signal in the channel was sent.
SignalsWereSent == signals > 0 => sent > 0

\* A server that is shut down was asked to, and takes no more requests.
ShutdownRefuses == mpc = "shutdown" => server # "listening" /\ sent > 0

\* Without an error, serveHTTP returned when the last request had ended, and no
\* connection was left open for another.
StopIsClean ==
  (Stopping \/ wstop) /\ err = "nil" =>
    /\ \A h \in Handler : handler[h] \in {"new", "done"}
    /\ server # "listening" /\ sent > 0

IInv == /\ TypeOK /\ LoopsEndBeforeExit
        /\ StopIsOrdered /\ SignalsWereSent /\ ShutdownRefuses /\ StopIsClean

-----------------------------------------------------------------------------

\* Flags are only ever set to TRUE or FALSE, or left alone.
LEMMA FlagsStay == ASSUME FlagsOK, [Next]_vars PROVE FlagsOK'
<1> USE DEF FlagsOK, Served, serverVars, signalVars, workerVars, heartbeatVars
<1>1. CASE Main
  BY <1>1, Zenon DEF Main, MainStarts, MainListens, MainNotifies, MainSeesFailure,
     MainSeesSignal, MainDrains, MainGivesUp, WorkerStop, WorkerJoin, HeartbeatStop,
     HeartbeatJoin
<1>2. CASE ~Main
  BY <1>2, Zenon DEF Next, vars, ListenFails, SignalComes, ConnectionComes, RequestComes,
     RequestEnds,
     TickerTicks, WorkerTicks, WorkerTickEnds, WorkerEnds, HeartbeatLoops
<1> QED
  BY <1>1, <1>2

LEMMA InitIInv == Init => IInv
<1> SUFFICES ASSUME Init PROVE IInv
  OBVIOUS
<1>1. FlagsOK
  BY Zenon DEF Init, FlagsOK
<1> QED
  BY <1>1, LifecycleAssumption
     DEF Init, IInv, TypeOK, LoopsEndBeforeExit, Stopping, StopIsOrdered,
         SignalsWereSent, ShutdownRefuses, StopIsClean

\* A step of main.
LEMMA MainStep == ASSUME IInv, Main PROVE IInv'
<1>0. FlagsOK'
  BY FlagsStay DEF IInv, TypeOK, Next
<1> USE <1>0, LifecycleAssumption
    DEF IInv, TypeOK, LoopsEndBeforeExit, Stopping, StopIsOrdered, SignalsWereSent,
        ShutdownRefuses, StopIsClean, Running, serverVars, signalVars, workerVars,
        heartbeatVars
<1>1. CASE MainStarts  BY <1>1 DEF MainStarts
<1>2. CASE MainListens  BY <1>2 DEF MainListens
<1>3. CASE MainNotifies  BY <1>3 DEF MainNotifies
<1>4. CASE MainSeesFailure  BY <1>4 DEF MainSeesFailure, Served
<1>5. CASE MainSeesSignal  BY <1>5 DEF MainSeesSignal
<1>6. CASE MainDrains  BY <1>6 DEF MainDrains, CloseIdle, Served
<1>7. CASE MainGivesUp  BY <1>7 DEF MainGivesUp, Served
<1>8. CASE WorkerStop  BY <1>8 DEF WorkerStop
<1>9. CASE WorkerJoin  BY <1>9 DEF WorkerJoin
<1>10. CASE HeartbeatStop  BY <1>10 DEF HeartbeatStop
<1>11. CASE HeartbeatJoin  BY <1>11 DEF HeartbeatJoin
<1> QED
  BY <1>1, <1>2, <1>3, <1>4, <1>5, <1>6, <1>7, <1>8, <1>9, <1>10, <1>11 DEF Main

\* A step of the server, of a request, or of whoever sends a signal.
LEMMA OutsideStep ==
  ASSUME IInv,
         \/ ListenFails \/ SignalComes
         \/ \E h \in Handler : ConnectionComes(h) \/ RequestComes(h) \/ RequestEnds(h)
  PROVE  IInv'
<1>0. FlagsOK'
  BY FlagsStay DEF IInv, TypeOK, Next
<1> USE <1>0, LifecycleAssumption
    DEF IInv, TypeOK, LoopsEndBeforeExit, Stopping, StopIsOrdered, SignalsWereSent,
        ShutdownRefuses, StopIsClean, Running, serverVars, signalVars, workerVars,
        heartbeatVars, Alive
<1>1. CASE ListenFails  BY <1>1 DEF ListenFails
<1>2. CASE SignalComes  BY <1>2 DEF SignalComes
<1>3. ASSUME NEW h \in Handler, RequestComes(h) PROVE IInv'
  BY <1>3 DEF RequestComes
<1>4. ASSUME NEW h \in Handler, RequestEnds(h) PROVE IInv'
  BY <1>4 DEF RequestEnds
<1>5. ASSUME NEW h \in Handler, ConnectionComes(h) PROVE IInv'
  BY <1>5 DEF ConnectionComes
<1> QED
  BY <1>1, <1>2, <1>3, <1>4, <1>5

\* A step of one of the loops: main and the server stay as they are.
LEMMA LoopStep ==
  ASSUME IInv, TickerTicks \/ WorkerTicks \/ WorkerTickEnds \/ WorkerEnds \/ HeartbeatLoops
  PROVE  IInv'
<1>0. FlagsOK'
  BY FlagsStay DEF IInv, TypeOK, Next
<1> USE <1>0 DEF IInv, TypeOK, LoopsEndBeforeExit, Stopping, StopIsOrdered, SignalsWereSent,
            ShutdownRefuses, StopIsClean, Running, serverVars, signalVars, workerVars,
            heartbeatVars, Alive
<1>1. CASE TickerTicks  BY <1>1 DEF TickerTicks
<1>2. CASE WorkerTicks  BY <1>2 DEF WorkerTicks
<1>3. CASE WorkerTickEnds  BY <1>3 DEF WorkerTickEnds
<1>4. CASE WorkerEnds  BY <1>4 DEF WorkerEnds
<1>5. CASE HeartbeatLoops  BY <1>5 DEF HeartbeatLoops
<1> QED
  BY <1>1, <1>2, <1>3, <1>4, <1>5

LEMMA NextIInv == IInv /\ [Next]_vars => IInv'
<1> SUFFICES ASSUME IInv, [Next]_vars PROVE IInv'
  OBVIOUS
<1>0. FlagsOK'
  BY FlagsStay DEF IInv, TypeOK
<1>1. CASE UNCHANGED vars
  BY <1>0, <1>1 DEF vars, serverVars, signalVars, workerVars, heartbeatVars, IInv, TypeOK,
              LoopsEndBeforeExit, Stopping, StopIsOrdered, SignalsWereSent,
              ShutdownRefuses, StopIsClean, Running
<1> QED
  BY <1>1, MainStep, OutsideStep, LoopStep DEF Next

THEOREM Inductive == Spec => []IInv
BY InitIInv, NextIInv, PTL DEF Spec

-----------------------------------------------------------------------------

\* Every variable keeps its type: one signal at most waits in the channel.
THEOREM TypeCorrect == Spec => []TypeOK
<1>1. IInv => TypeOK
  BY DEF IInv
<1> QED
  BY <1>1, Inductive, PTL

\* main returns only when both loops have ended, and no tick runs once
\* Worker.Stop has returned.
THEOREM LoopsEnd == Spec => []LoopsEndBeforeExit
<1>1. IInv => LoopsEndBeforeExit
  BY DEF IInv
<1> QED
  BY <1>1, Inductive, PTL

\* The worker is stopped under a running request only after an error.
THEOREM WorkerOutlives == Spec => []WorkerOutlivesRequests
<1>1. IInv => WorkerOutlivesRequests
  BY DEF IInv, StopIsClean, Running, WorkerOutlivesRequests
<1> QED
  BY <1>1, Inductive, PTL

\* Exit status 0 means that a signal asked for it and that every request the
\* server had taken was answered.
THEOREM CleanExit == Spec => []CleanExitAnswersAll
<1>1. IInv => CleanExitAnswersAll
  BY DEF IInv, StopIsClean, Stopping, Running, CleanExitAnswersAll
<1> QED
  BY <1>1, Inductive, PTL

=============================================================================
