--------------------------- MODULE MCOutboxRelay ---------------------------
(***************************************************************************)
(* OutboxRelay for TLC: relays and replays are interchangeable.            *)
(***************************************************************************)
EXTENDS OutboxRelay, TLC

Symmetry == Permutations(Relay) \union Permutations(Replayer)
=============================================================================
