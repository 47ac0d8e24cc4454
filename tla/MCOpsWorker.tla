----------------------------- MODULE MCOpsWorker -----------------------------
(***************************************************************************)
(* Model values for TLC: one record that everyone is after.                *)
(***************************************************************************)
EXTENDS OpsWorker, TLC

CONSTANT lower   \* "art-1"

MCRawId == {lower}
MCNormal == [i \in MCRawId |-> i]

=============================================================================
