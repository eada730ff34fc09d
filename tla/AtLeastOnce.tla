---------------------------- MODULE AtLeastOnce ----------------------------
(***************************************************************************)
(* What the outbox promises to the modules that publish and consume events *)
(* (ADR-0003): an accepted event is offered to every consumer at least     *)
(* once before it counts as published, nothing is delivered that was not   *)
(* accepted, and no accepted event stays open for ever.                    *)
(***************************************************************************)
CONSTANTS Event, Consumer

VARIABLES
  row,          \* "absent", "unpublished", "published" or "poison"
  delivered     \* events that have taken effect at each consumer

Init ==
  /\ row = [e \in Event |-> "absent"]
  /\ delivered = [c \in Consumer |-> {}]

\* A unit of work commits.
Accept(rows) ==
  /\ \A e \in rows : row[e] = "absent"
  /\ row' = [e \in Event |-> IF e \in rows THEN "unpublished" ELSE row[e]]
  /\ UNCHANGED delivered

Deliver(c, e) ==
  /\ row[e] # "absent"
  /\ delivered' = [delivered EXCEPT ![c] = @ \union {e}]
  /\ UNCHANGED row

Publish(e) ==
  /\ row[e] # "absent"
  /\ \A c \in Consumer : e \in delivered[c]
  /\ row' = [row EXCEPT ![e] = "published"]
  /\ UNCHANGED delivered

Quarantine(e) ==
  /\ row[e] # "absent"
  /\ row' = [row EXCEPT ![e] = "poison"]
  /\ UNCHANGED delivered

Resolve(e) == Publish(e) \/ Quarantine(e)

Next ==
  \/ \E rows \in SUBSET Event : Accept(rows)
  \/ \E e \in Event : Resolve(e) \/ \E c \in Consumer : Deliver(c, e)

vars == <<row, delivered>>

SafeSpec == Init /\ [][Next]_vars

Spec == SafeSpec /\ \A e \in Event : WF_vars(row[e] = "unpublished" /\ Resolve(e))
=============================================================================
