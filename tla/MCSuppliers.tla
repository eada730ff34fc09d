---------------------------- MODULE MCSuppliers ----------------------------
(***************************************************************************)
(* Suppliers for TLC: two parties in a relationship, the first with a     *)
(* principal and supplier of an item with a variant.                       *)
(***************************************************************************)
EXTENDS Suppliers

TLC == INSTANCE TLC

CONSTANTS p1, p2, x1, r1, i1, v1, k1, m1, contact_of

Business ==
  (p1 :> NewParty("active", RoleKey, x1, {}, {}))
    @@ (p2 :> NewParty("draft", {}, NoPrincipal, {}, {}))
    @@ (r1 :> [from |-> p1, to |-> p2, type |-> contact_of, removed |-> FALSE])
    @@ (i1 :> [NewItem(k1, "active", TRUE, p1, NoVariant :> m1) EXCEPT
                 !.variants = v1 :> [code |-> k1, status |-> "active"]])

Starts == {Business}

Keys ==
  Party \union Channel \union Relationship \union Item \union Variant
    \union {PriceOf(i, v) : i \in Item, v \in Variant \union {NoVariant}}

Symmetry == TLC!Permutations(Call)
=============================================================================
