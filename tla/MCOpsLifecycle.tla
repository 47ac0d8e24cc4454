---------------------------- MODULE MCOpsLifecycle ----------------------------
(***************************************************************************)
(* Model values for TLC: two requests, which never meet in this module.    *)
(***************************************************************************)
EXTENDS OpsLifecycle, TLC

CONSTANTS h1, h2

MCHandler == {h1, h2}

=============================================================================
