----------------------------- MODULE MCFinance -----------------------------
(***************************************************************************)
(* Finance for TLC: one payable order, one that is not.                    *)
(***************************************************************************)
EXTENDS Finance

TLC == INSTANCE TLC

CONSTANTS o1, o2

Orders == (o1 :> "committed") @@ (o2 :> "draft")

Keys == Payment \union Journal \union {Source(e) : e \in SourceEvent}

Symmetry == TLC!Permutations(Call) \union TLC!Permutations(Journal) \union TLC!Permutations(Payment)
=============================================================================
