----------------------------- MODULE OpsLifecycle -----------------------------
(***************************************************************************)
(* The process: main starts the worker and the heartbeat, serves until the *)
(* listener fails or a signal arrives, shuts the server down and stops the *)
(* two loops.  Each of them is a goroutine of its own, as is every request *)
(* being handled:                                                          *)
(*                                                                         *)
(*   main       start -> serve -> [shutdown] -> stopWorker -> joinWorker   *)
(*                -> stopHeartbeat -> joinHeartbeat -> exit                *)
(*   worker     select <-> tick, until ended                               *)
(*   heartbeat  check -> sample -> wait -> check, until ended              *)
(***************************************************************************)
EXTENDS Naturals

CONSTANTS
  Handler,      \* requests that the server may be given
  MaxSignals    \* bound: SIGINT and SIGTERM sent to the process

ASSUME LifecycleAssumption == MaxSignals \in Nat

VARIABLES
  mpc,         \* what main does next, or "killed" by a signal
  err,         \* what serveHTTP returned: "nil", "listen" or "deadline"
  server,      \* ListenAndServe: "none", "listening", "failed", "closed"
  handler,     \* each request: "new", "accepted" (its connection), "running", "done"
  notified,    \* signals go to the channel (signal.Notify to signal.Stop)
  signals,     \* how many signals are in the channel, of capacity 1
  sent,        \* signals sent so far
  worker,      \* OpsWorker.loop: "none", "select", "tick", "ended"
  ticker,      \* ticker.C, of capacity 1, holds a tick
  wstop,       \* OpsWorker.stopCh is closed; doneCh is when the loop has ended
  heartbeat,   \* OpsHeartbeat.loop: "none", "check", "sample", "wait", "ended"
  hstop        \* OpsHeartbeat.stopCh is closed

serverVars == <<err, server, handler>>
signalVars == <<notified, signals, sent>>
workerVars == <<worker, ticker, wstop>>
heartbeatVars == <<heartbeat, hstop>>
vars == <<mpc, serverVars, signalVars, workerVars, heartbeatVars>>

Alive == mpc \notin {"exit", "killed"}

-----------------------------------------------------------------------------
(***************************************************************************)
(* main and serveHTTP.                                                     *)
(***************************************************************************)

\* Worker.Start and Heartbeat.Start; a loop runs as soon as it is scheduled.
MainStarts ==
  /\ mpc = "start"
  /\ mpc' = "listen"
  /\ worker' = "select" /\ heartbeat' = "check"
  /\ UNCHANGED <<serverVars, signalVars, ticker, wstop, hstop>>

\* serveHTTP starts the server's goroutine, then asks for signals.
MainListens ==
  /\ mpc = "listen"
  /\ mpc' = "notify" /\ server' = "listening"
  /\ UNCHANGED <<err, handler, signalVars, workerVars, heartbeatVars>>

MainNotifies ==
  /\ mpc = "notify"
  /\ mpc' = "serve" /\ notified' = TRUE
  /\ UNCHANGED <<serverVars, signals, sent, workerVars, heartbeatVars>>

\* serveHTTP returns, and with it signal.Stop is called.
Served(with) ==
  /\ mpc' = "stopWorker" /\ err' = with
  /\ notified' = FALSE /\ signals' = 0

\* select, when the listener has failed and when a signal is there.
MainSeesFailure ==
  /\ mpc = "serve" /\ server = "failed"
  /\ Served("listen")
  /\ UNCHANGED <<server, handler, sent, workerVars, heartbeatVars>>

MainSeesSignal ==
  /\ mpc = "serve" /\ signals > 0
  /\ mpc' = "shutdown" /\ signals' = signals - 1
  /\ server' = IF server = "listening" THEN "closed" ELSE server
  /\ UNCHANGED <<err, handler, notified, sent, workerVars, heartbeatVars>>

Running == {h \in Handler : handler[h] = "running"}

\* Shutdown closes the connections on which no request has come.
CloseIdle ==
  handler' = [h \in Handler |-> IF handler[h] = "accepted" THEN "done" ELSE handler[h]]

\* Mutant of MainDrains: Close instead of Shutdown, which waits for no one.
MutantClose ==
  /\ mpc = "shutdown"
  /\ Served("nil")
  /\ UNCHANGED <<server, handler, sent, workerVars, heartbeatVars>>

\* Shutdown returns when no request is being handled any more.
MainDrains ==
  /\ mpc = "shutdown" /\ Running = {}
  /\ CloseIdle
  /\ Served("nil")
  /\ UNCHANGED <<server, sent, workerVars, heartbeatVars>>

\* Mutant of MainGivesUp: what Shutdown returns is dropped.
MutantErrorDropped ==
  /\ mpc = "shutdown"
  /\ Served("nil")
  /\ UNCHANGED <<server, handler, sent, workerVars, heartbeatVars>>

\* Its ten seconds are over; requests may still run.
MainGivesUp ==
  /\ mpc = "shutdown"
  /\ Served("deadline")
  /\ UNCHANGED <<server, handler, sent, workerVars, heartbeatVars>>

\* Mutant of WorkerStop: it does not wait for the loop.
MutantStopNoWait ==
  /\ mpc = "stopWorker"
  /\ mpc' = "stopHeartbeat" /\ wstop' = TRUE
  /\ UNCHANGED <<serverVars, signalVars, worker, ticker, heartbeatVars>>

WorkerStop ==
  /\ mpc = "stopWorker"
  /\ mpc' = "joinWorker" /\ wstop' = TRUE
  /\ UNCHANGED <<serverVars, signalVars, worker, ticker, heartbeatVars>>

WorkerJoin ==
  /\ mpc = "joinWorker" /\ worker = "ended"
  /\ mpc' = "stopHeartbeat"
  /\ UNCHANGED <<serverVars, signalVars, workerVars, heartbeatVars>>

\* Mutant of HeartbeatStop: the stop channel is not closed.
MutantStopUnsaid ==
  /\ mpc = "stopHeartbeat"
  /\ mpc' = "joinHeartbeat"
  /\ UNCHANGED <<serverVars, signalVars, workerVars, heartbeatVars>>

HeartbeatStop ==
  /\ mpc = "stopHeartbeat"
  /\ mpc' = "joinHeartbeat" /\ hstop' = TRUE
  /\ UNCHANGED <<serverVars, signalVars, workerVars, heartbeat>>

\* main ends, with log.Fatal if serveHTTP returned an error.
HeartbeatJoin ==
  /\ mpc = "joinHeartbeat" /\ heartbeat = "ended"
  /\ mpc' = "exit"
  /\ UNCHANGED <<serverVars, signalVars, workerVars, heartbeatVars>>

Main ==
  \/ MainStarts \/ MainListens \/ MainNotifies \/ MainSeesFailure \/ MainSeesSignal
  \/ MainDrains \/ MainGivesUp
  \/ WorkerStop \/ WorkerJoin \/ HeartbeatStop \/ HeartbeatJoin

-----------------------------------------------------------------------------
(***************************************************************************)
(* The server (net/http) and signals.                                      *)
(***************************************************************************)

\* The address is taken, or the listener breaks.
ListenFails ==
  /\ Alive /\ server = "listening"
  /\ server' = "failed"
  /\ UNCHANGED <<mpc, err, handler, signalVars, workerVars, heartbeatVars>>

ConnectionComes(h) ==
  /\ Alive /\ server = "listening" /\ handler[h] = "new"
  /\ handler' = [handler EXCEPT ![h] = "accepted"]
  /\ UNCHANGED <<mpc, err, server, signalVars, workerVars, heartbeatVars>>

\* A request comes on an accepted connection, also when the listener is closed
\* and Shutdown waits, or has given up.
RequestComes(h) ==
  /\ Alive /\ handler[h] = "accepted"
  /\ handler' = [handler EXCEPT ![h] = "running"]
  /\ UNCHANGED <<mpc, err, server, signalVars, workerVars, heartbeatVars>>

RequestEnds(h) ==
  /\ Alive /\ handler[h] = "running"
  /\ handler' = [handler EXCEPT ![h] = "done"]
  /\ UNCHANGED <<mpc, err, server, signalVars, workerVars, heartbeatVars>>

\* A signal goes into the channel, is dropped when the channel is full, and
\* ends the process when no one has asked for it, or no longer.
SignalComes ==
  /\ Alive /\ sent < MaxSignals
  /\ sent' = sent + 1
  /\ IF notified THEN signals' = 1 /\ UNCHANGED mpc
                 ELSE mpc' = "killed" /\ UNCHANGED signals
  /\ UNCHANGED <<serverVars, notified, workerVars, heartbeatVars>>

-----------------------------------------------------------------------------
(***************************************************************************)
(* The loops.                                                              *)
(***************************************************************************)

TickerTicks ==
  /\ Alive /\ worker \in {"select", "tick"} /\ ~ticker
  /\ ticker' = TRUE
  /\ UNCHANGED <<mpc, serverVars, signalVars, worker, wstop, heartbeatVars>>

\* select takes either channel when both are ready.
WorkerTicks ==
  /\ Alive /\ worker = "select" /\ ticker
  /\ worker' = "tick" /\ ticker' = FALSE
  /\ UNCHANGED <<mpc, serverVars, signalVars, wstop, heartbeatVars>>

\* A tick's calls end with its context, after five seconds at the latest.
WorkerTickEnds ==
  /\ Alive /\ worker = "tick"
  /\ worker' = "select"
  /\ UNCHANGED <<mpc, serverVars, signalVars, ticker, wstop, heartbeatVars>>

WorkerEnds ==
  /\ Alive /\ worker = "select" /\ wstop
  /\ worker' = "ended" /\ ticker' = FALSE
  /\ UNCHANGED <<mpc, serverVars, signalVars, wstop, heartbeatVars>>

\* The heartbeat looks at its stop channel once a round, without waiting; then
\* it takes a sample and waits for its timer.
HeartbeatLoops ==
  /\ Alive
  /\ \/ heartbeat = "check" /\ heartbeat' = IF hstop THEN "ended" ELSE "sample"
     \/ heartbeat = "sample" /\ heartbeat' = "wait"
     \/ heartbeat = "wait" /\ heartbeat' = "check"
  /\ UNCHANGED <<mpc, serverVars, signalVars, workerVars, hstop>>

-----------------------------------------------------------------------------

Init ==
  /\ mpc = "start" /\ err = "nil"
  /\ server = "none" /\ handler = [h \in Handler |-> "new"]
  /\ notified = FALSE /\ signals = 0 /\ sent = 0
  /\ worker = "none" /\ ticker = FALSE /\ wstop = FALSE
  /\ heartbeat = "none" /\ hstop = FALSE

Next ==
  \/ Main
  \/ ListenFails \/ SignalComes
  \/ \E h \in Handler : ConnectionComes(h) \/ RequestComes(h) \/ RequestEnds(h)
  \/ TickerTicks \/ WorkerTicks \/ WorkerTickEnds \/ WorkerEnds
  \/ HeartbeatLoops
  \/ ~Alive /\ UNCHANGED vars

Spec == Init /\ [][Next]_vars

\* Goroutines that can run do run, Shutdown's deadline comes, a tick comes to
\* an end (its context does), and select, which picks at random among what is
\* ready, does not leave out the stop channel for ever.  Nothing is assumed of
\* requests: a handler may hang.
FairSpec ==
  /\ Spec
  /\ WF_vars(Main) /\ WF_vars(HeartbeatLoops)
  /\ WF_vars(WorkerTickEnds) /\ SF_vars(WorkerEnds)

-----------------------------------------------------------------------------
(***************************************************************************)
(* Properties.                                                             *)
(***************************************************************************)

FlagsOK == /\ notified \in BOOLEAN /\ ticker \in BOOLEAN
           /\ wstop \in BOOLEAN /\ hstop \in BOOLEAN

\* Every variable keeps its type: the channel for signals holds one at most, and
\* the loops and main are where their code can be.
TypeOK ==
  /\ mpc \in {"start", "listen", "notify", "serve", "shutdown", "stopWorker",
              "joinWorker", "stopHeartbeat", "joinHeartbeat", "exit", "killed"}
  /\ err \in {"nil", "listen", "deadline"}
  /\ server \in {"none", "listening", "failed", "closed"}
  /\ handler \in [Handler -> {"new", "accepted", "running", "done"}]
  /\ signals \in 0..1 /\ sent \in 0..MaxSignals
  /\ worker \in {"none", "select", "tick", "ended"}
  /\ heartbeat \in {"none", "check", "sample", "wait", "ended"}
  /\ FlagsOK

\* "It must stop cleanly when the service shuts down" (ops_heartbeat.go:10-11):
\* once Worker.Stop has returned no tick runs or begins, and main returns only
\* when both loops have ended, on the failure path too.
LoopsEndBeforeExit ==
  /\ mpc \in {"stopHeartbeat", "joinHeartbeat", "exit"} => worker = "ended"
  /\ mpc = "exit" => heartbeat = "ended"

\* The worker keeps working for the requests: it is told to stop only when no
\* request is being handled, unless the server failed or ran out of time.
WorkerOutlivesRequests == wstop /\ Running # {} => err # "nil"

\* Exit status 0 means that the server was asked to stop and that every request
\* it had taken was answered.
CleanExitAnswersAll ==
  mpc = "exit" /\ err = "nil" =>
    server # "listening" /\ sent > 0 /\ \A h \in Handler : handler[h] # "running"

\* A signal, or a listener that fails, ends the process: neither a request that
\* hangs nor a tick nor the heartbeat's timer keeps it alive.
ProcessEnds == signals > 0 \/ server = "failed" ~> ~Alive

=============================================================================
