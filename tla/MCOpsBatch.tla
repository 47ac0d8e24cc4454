------------------------------ MODULE MCOpsBatch ------------------------------
(***************************************************************************)
(* Model values for TLC: batches over one record id and one misspelling of *)
(* it, so that a batch meets its own earlier writes, skips what it does    *)
(* not find, and moves that the table refuses.                             *)
(***************************************************************************)
EXTENDS OpsBatch, TLC

CONSTANTS lower, upper   \* "art-1" and " ART-1"

MCRawId == {lower, upper}
MCNormal == [i \in MCRawId |-> lower]

Batching(from, to, ids) == [owned |-> TRUE, from |-> from, to |-> to, ids |-> ids]

\* Chains of moves on one record, an item that is not found before one that
\* is, moves to the same status, one of them of a record that may be archived
\* meanwhile, and a move the table refuses.
MCBatchOrder ==
  { Batching("queued", "active", <<upper, lower>>),
    Batching("queued", "paused", <<lower>>),
    Batching("active", "active", <<lower, lower>>),
    Batching("active", "closed", <<lower>>),
    Batching("closed", "closed", <<lower>>) }

\* For the ledger: a batch with two items, and one whose move is refused.
MCBatchOrderLive ==
  { Batching("queued", "active", <<upper, lower>>),
    Batching("queued", "paused", <<lower>>),
    Batching("active", "closed", <<lower>>) }

Symmetry == Permutations(Request) \cup Permutations(Archiver) \cup Permutations(Batch)

=============================================================================
