------------------------------ MODULE MCOrders ------------------------------
(***************************************************************************)
(* Orders for TLC.                                                         *)
(***************************************************************************)
EXTENDS Orders, TLC

CONSTANT o1

Of(l, q) == [line |-> l, quantity |-> q]

FewFulfilments == {<<>>, <<Of(1, 1)>>}

\* An order with two pieces of one item, and a line that may yet be added.
OneDraft == [o \in {o1} |-> <<2, 0>>]

Symmetry == Permutations(Client)
=============================================================================
