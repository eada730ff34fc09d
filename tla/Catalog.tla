------------------------------ MODULE Catalog ------------------------------
(***************************************************************************)
(* CatalogService over its repository of items, each with its variants and *)
(* list prices.  A supplier is a party; Parties is asked whether it is     *)
(* there.  Names, traits, tax categories and locations are left out, but   *)
(* each call saves the item as it read it.                                 *)
(***************************************************************************)
EXTENDS Parties

CONSTANTS
  Item,           \* catalogItemIds that may be drawn
  Code,           \* of items and of variants
  Variant,        \* variantIds that may be drawn
  NoVariant,      \* the variantId null of a price
  Money,
  NoMoney         \* no price

PriceOf(i, v) == <<"price", i, v>>

Prices == {PriceOf(i, v) : i \in Item, v \in Variant \union {NoVariant}}

Some(keys, values) == UNION {[some -> values] : some \in SUBSET keys}

VariantRecord == [code : Code, status : {"active", "inactive", "retired"}]

ItemRecord ==
  [code : Code, status : {"draft", "active", "inactive", "deleted"}, orderable : BOOLEAN,
   supplier : Party \union {NoParty}, variants : Some(Variant, VariantRecord),
   prices : Some(Variant \union {NoVariant}, Money)]

ASSUME CatalogAssumption ==
  /\ Item \union Variant \union Prices \subseteq Key
  /\ NoVariant \notin Variant /\ NoMoney \notin Money
  /\ NoRecord \notin ItemRecord

-----------------------------------------------------------------------------
IsItem(item) == Exists(item) /\ item.status # "deleted"

FindByCode(code) == {i \in Item : IsItem(store[i]) /\ store[i].code = code}

\* isItemOrderable, for the item or for one of its variants.
IsItemOrderable(item, v) ==
  /\ item.status = "active" /\ item.orderable
  /\ v # NoVariant => v \in DOMAIN item.variants /\ item.variants[v].status = "active"

\* resolveListPrice: a variant without a price of its own has that of the item.
ResolveListPrice(item, v) ==
  CASE v \in DOMAIN item.prices -> item.prices[v]
    [] v \notin DOMAIN item.prices /\ NoVariant \in DOMAIN item.prices -> item.prices[NoVariant]
    [] OTHER -> NoMoney

\* assertSupplierParty
IsSupplier(party) == Exists(party) /\ ~IsTerminal(party)

NewItem(code, status, orderable, supplier, prices) ==
  [code |-> code, status |-> status, orderable |-> orderable, supplier |-> supplier,
   variants |-> <<>>, prices |-> prices]

\* A price and the news of it, or neither.
Priced(v, money) == IF money = NoMoney THEN <<>> ELSE v :> money

PriceNews(i, v, money) == IF money = NoMoney THEN <<>> ELSE PriceOf(i, v) :> money

-----------------------------------------------------------------------------
\* createItem: the code is looked up, then the supplier if one is named.
CreateItem(c) ==
  \E i \in Fresh(Item), code \in Code, status \in {"draft", "active"}, orderable \in BOOLEAN,
     s \in Party \union {NoParty}, money \in Money \union {NoMoney} :
    LET op == <<"createItem", i, code, status, orderable, s, money>>
        reads == IF s = NoParty THEN << Item >> ELSE << Item, {s} >>
    IN  \/ FindByCode(code) = {} /\ Read(c, op, reads)
        \/ /\ LastRead(c, op, reads)
           /\ IF s = NoParty THEN FindByCode(code) = {} ELSE IsSupplier(store[s])
           /\ Stage(c, reads,
                    << i :> NewItem(code, status, orderable, s, Priced(NoVariant, money)) >>,
                    (i :> status) @@ PriceNews(i, NoVariant, money))

ChangeItem(c, i, next, news) == IsIdle(c) /\ Stage(c, << {i} >>, << i :> next >>, news)

\* updateItem.
UpdateItem(c) ==
  \E i \in Item, orderable \in BOOLEAN :
    /\ IsItem(store[i])
    /\ ChangeItem(c, i, [store[i] EXCEPT !.orderable = orderable], <<>>)

\* setTaxCategory, setLocationApplicability and the rest of updateItem.
ChangeDetails(c) == \E i \in Item : IsItem(store[i]) /\ ChangeItem(c, i, store[i], <<>>)

MoveItem(c, from, to) ==
  \E i \in Item :
    /\ Exists(store[i]) /\ store[i].status \in from
    /\ ChangeItem(c, i, [store[i] EXCEPT !.status = to, !.orderable = (to = "active")],
                  i :> to)

ActivateItem(c) == MoveItem(c, {"draft", "inactive"}, "active")
InactivateItem(c) == MoveItem(c, {"active", "draft"}, "inactive")
DeleteItem(c) == MoveItem(c, {"draft", "active", "inactive"}, "deleted")

AddVariant(c) ==
  \E i \in Item, v \in Fresh(Variant), code \in Code, money \in Money \union {NoMoney} :
    LET item == store[i]
        variant == [code |-> code, status |-> "active"]
    IN  /\ IsItem(item)
        /\ \A w \in DOMAIN item.variants :
             item.variants[w].code = code => item.variants[w].status = "retired"
        /\ ChangeItem(c, i, [item EXCEPT !.variants = (v :> variant) @@ @,
                                         !.prices = Priced(v, money) @@ @],
                      (v :> "created") @@ PriceNews(i, v, money))

\* updateVariant and retireVariant, also of an item that is deleted.
UpdateVariant(c) ==
  \E i \in Item, v \in Variant, to \in {"active", "inactive", "retired"} :
    /\ Exists(store[i]) /\ v \in DOMAIN store[i].variants
    /\ store[i].variants[v].status # "retired"
    /\ ChangeItem(c, i, [store[i] EXCEPT !.variants[v].status = to], <<>>)

\* Mutant of SetListPrice: the price of a variant is filed as that of the item.
SetItemPrice(c) ==
  \E i \in Item, v \in Variant \union {NoVariant}, money \in Money :
    LET item == store[i]
    IN  /\ IsItem(item)
        /\ v # NoVariant => v \in DOMAIN item.variants /\ item.variants[v].status # "retired"
        /\ ChangeItem(c, i, [item EXCEPT !.prices = (NoVariant :> money) @@ @],
                      PriceOf(i, v) :> money)

SetListPrice(c) ==
  \E i \in Item, v \in Variant \union {NoVariant}, money \in Money :
    LET item == store[i]
    IN  /\ IsItem(item)
        /\ v # NoVariant => v \in DOMAIN item.variants /\ item.variants[v].status # "retired"
        /\ ChangeItem(c, i, [item EXCEPT !.prices = (v :> money) @@ @],
                      PriceOf(i, v) :> money)

\* The item is read first, then the party.
LinkSupplierParty(c) ==
  \E i \in Item, s \in Party :
    LET op == <<"supplier", i, s>>
        reads == << {i}, {s} >>
    IN  \/ IsItem(store[i]) /\ Read(c, op, reads)
        \/ /\ LastRead(c, op, reads)
           /\ IsSupplier(store[s])
           /\ Stage(c, reads, << i :> [work[c].seen[i] EXCEPT !.supplier = s] >>, <<>>)

UnlinkSupplierParty(c) ==
  \E i \in Item :
    IsItem(store[i]) /\ ChangeItem(c, i, [store[i] EXCEPT !.supplier = NoParty], <<>>)

CatalogStep(c) ==
  \/ CreateItem(c)
  \/ UpdateItem(c)
  \/ ChangeDetails(c)
  \/ ActivateItem(c)
  \/ InactivateItem(c)
  \/ DeleteItem(c)
  \/ AddVariant(c)
  \/ UpdateVariant(c)
  \/ SetListPrice(c)
  \/ LinkSupplierParty(c)
  \/ UnlinkSupplierParty(c)
=============================================================================
