----------------------------- MODULE MCOpsArchive -----------------------------
(***************************************************************************)
(* Model values for TLC: one record id and one misspelling of it, so that  *)
(* every request that can meet another does.                               *)
(***************************************************************************)
EXTENDS OpsArchive, TLC

CONSTANTS lower, upper   \* "art-1" and " ART-1"

MCRawId == {lower, upper}
MCNormal == [i \in MCRawId |-> lower]

Symmetry == Permutations(Request) \cup Permutations(Archiver)

=============================================================================
