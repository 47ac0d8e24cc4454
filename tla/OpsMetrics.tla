------------------------------- MODULE OpsMetrics -------------------------------
(***************************************************************************)
(* OpsMetrics: a window of latencies, and a count of errors beside it.     *)
(* Every method holds the lock for its whole body.  The latencies          *)
(* themselves, and what Snapshot computes from them, are left out.         *)
(***************************************************************************)
EXTENDS Naturals

CONSTANT Window   \* latencies kept (256 in newOpsApp)

ASSUME WindowAssumption == Window \in Nat \ {0}

VARIABLES
  latency,   \* how many latencies OpsMetrics.latency holds
  errors     \* OpsMetrics.errors

metricsVars == <<latency, errors>>

MetricsInit == latency = 0 /\ errors = 0

\* The window drops its oldest latency; the errors are never dropped.
Record(failed) ==
  /\ latency' = IF latency < Window THEN latency + 1 ELSE Window
  /\ errors' = IF failed THEN errors + 1 ELSE errors

\* What GET /api/ops/metrics answers.
Snapshot == [requests |-> latency, errors |-> errors]

=============================================================================
