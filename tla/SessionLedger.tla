----------------------------- MODULE SessionLedger -----------------------------
(***************************************************************************)
(* What the session manager promises: sessions are numbered as they are    *)
(* opened, a record has one open session at most, and every session ends   *)
(* at most once, by an abort or by one caller, who alone may count it.     *)
(***************************************************************************)
EXTENDS Naturals, Sequences

CONSTANTS
  RecordId,
  Capacity,
  Caller     \* whoever may complete a session

VARIABLE held   \* session n is held[n]

IsOpen(n) == held[n].status = "open"

Open(record) ==
  /\ Len(held) < Capacity
  /\ \A n \in DOMAIN held : held[n].record = record => ~IsOpen(n)
  /\ held' = Append(held, [record |-> record, status |-> "open", by |-> {}])

Complete(n, c) ==
  /\ IsOpen(n)
  /\ held' = [held EXCEPT ![n].status = "completed", ![n].by = {c}]

Abort(n) == IsOpen(n) /\ held' = [held EXCEPT ![n].status = "aborted"]

Init == held = <<>>

Next ==
  \/ \E record \in RecordId : Open(record)
  \/ \E n \in DOMAIN held : Abort(n) \/ \E c \in Caller : Complete(n, c)

Spec == Init /\ [][Next]_held

=============================================================================
