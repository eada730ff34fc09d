---------------------------- MODULE MCInventory ----------------------------
(***************************************************************************)
(* Inventory for TLC: order events and stock requests to choose from.      *)
(***************************************************************************)
EXTENDS Inventory, TLC

CONSTANTS cup, tea

Line(s, q) == [sku |-> s, quantity |-> q]
Do(type, actions) == [type |-> type, actions |-> actions]

\* Two orders compete for three cups; the first is issued in parts.
OrderEvents ==
  [commit1 |-> Do("reserve", <<Line(cup, 2), Line(tea, 1)>>),
   commit2 |-> Do("reserve", <<Line(cup, 2)>>),
   fulfil1 |-> Do("issue", <<Line(cup, 1)>>)]

StockRequests ==
  [tea_in  |-> Do("receipt", <<Line(tea, 1)>>),
   cup_out |-> Do("adjustment", <<Line(cup, -1)>>)]

ThreeCups == [s \in {cup} |-> 3]

Symmetry == Permutations(Call)
=============================================================================
