---------------------------- MODULE MCOrderStock ----------------------------
(***************************************************************************)
(* OrderStock for TLC: two orders for cups, the first also for tea.        *)
(***************************************************************************)
EXTENDS OrderStock, TLC

CONSTANTS o1, o2, cup, tea

Of(l, q) == [line |-> l, quantity |-> q]

\* Lines 1 and 2 belong to the first order, line 3 to the second.
TwoDrafts == (o1 :> <<2, 1, 0>>) @@ (o2 :> <<0, 0, 1>>)
Items == <<cup, tea, cup>>
Parts == {<<Of(1, 1)>>, <<Of(1, 1), Of(2, 1)>>, <<Of(3, 1)>>}
Shelf == (cup :> 3) @@ (tea :> 1)
=============================================================================
