----------------------------- MODULE MCOpsService -----------------------------
(***************************************************************************)
(* Model values for TLC: two spellings of one record id, so that requests  *)
(* meet on one record and also miss it by spelling.                        *)
(***************************************************************************)
EXTENDS OpsService, TLC

CONSTANTS lower, upper   \* "art-1" and " ART-1"

MCRawId == {lower, upper}
MCNormal == [i \in MCRawId |-> lower]

RequestSymmetry == Permutations(Request)

=============================================================================
