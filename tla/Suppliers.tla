----------------------------- MODULE Suppliers -----------------------------
(***************************************************************************)
(* Catalog and Parties together: who supplies what is offered.             *)
(***************************************************************************)
EXTENDS Catalog, BoundedCalls

CONSTANTS
  Openings        \* what the repositories may hold at the start

Kinds == << Party, Channel, Relationship, Item, Variant, Prices >>

\* The codes of the variants of an item that have not been retired differ.
VariantsApart(item) ==
  \A v, w \in {u \in DOMAIN item.variants : item.variants[u].status # "retired"} :
    item.variants[v].code = item.variants[w].code => v = w

IsRelated(relationship) == Exists(relationship) /\ ~relationship.removed

\* The records in the repositories s.
Records(s) ==
  /\ \A p \in Party : s[p] \in PartyRecord \union {NoRecord}
  /\ \A r \in Relationship : s[r] \in RelationshipRecord \union {NoRecord}
  /\ \A i \in Item : s[i] \in ItemRecord \union {NoRecord}
  /\ \A i \in Item : Exists(s[i]) => VariantsApart(s[i])

\* What has been saved past no other call is unique; rc are the keys that have raced.
Unique(s, rc) ==
  /\ \A p, q \in Party \ rc :
       IsSupplier(s[p]) /\ IsSupplier(s[q]) /\ s[p].principal = s[q].principal
         => p = q \/ s[p].principal = NoPrincipal
  /\ \A r, t \in Relationship \ rc :
       /\ IsRelated(s[r]) /\ IsRelated(s[t])
       /\ s[r].from = s[t].from /\ s[r].to = s[t].to /\ s[r].type = s[t].type
       => r = t
  /\ \A i, j \in Item \ rc : IsItem(s[i]) /\ IsItem(s[j]) /\ s[i].code = s[j].code => i = j

\* Merged parties come before the parties they were merged into.
InOrder(s, order) ==
  \A p \in Party : Exists(s[p]) /\ s[p].status = "merged" =>
    s[p].into \in Party /\ Exists(s[s[p].into]) /\ order[p] < order[s[p].into]

\* An opening is what calls that never overlapped have left.
ASSUME SuppliersAssumption ==
  /\ \A m, n \in DOMAIN Kinds : m # n => Kinds[m] \intersect Kinds[n] = {}
  /\ IsFiniteSet(Party)
  /\ \A opening \in Openings :
       LET s == [k \in Key |-> IF k \in DOMAIN opening THEN opening[k] ELSE NoRecord]
       IN  /\ Records(s) /\ Unique(s, {})
           /\ \E order \in [Party -> 0 .. Cardinality(Party)] : InOrder(s, order)

suppliersVars == <<serviceVars, calls>>

SuppliersInit == (\E opening \in Openings : ServiceInit(opening)) /\ calls = 0

SuppliersStep(c) ==
  \/ ~Committing(c) /\ (PartiesStep(c) \/ CatalogStep(c))
  \/ CallStep(c)

SuppliersNext == \E c \in Call : Bounded(c) /\ SuppliersStep(c)

SuppliersSpec == SuppliersInit /\ [][SuppliersNext]_suppliersVars
-----------------------------------------------------------------------------
(***************************************************************************)
(* Properties.                                                             *)
(***************************************************************************)
\* docs/modules/parties/design.md:121,142 and docs/modules/catalog/design.md:112,115:
\* whenever no call is running, a principal belongs to one party, one party has one
\* relationship of a type to another and a code names one item, those left aside that
\* were saved past another call; the codes of the variants of an item differ even when
\* calls overlap.
OneOfEach ==
  AtRest =>
    /\ \A p, q \in Party \ raced : Exists(store[p]) /\ Exists(store[q]) =>
         /\ store[p].principal = store[q].principal /\ store[p].principal # NoPrincipal
              => p = q \/ IsTerminal(store[p]) \/ IsTerminal(store[q])
         /\ \A type \in RelationshipType : Cardinality(FindActive(p, q, type) \ raced) <= 1
    /\ \A code \in Code : Cardinality(FindByCode(code) \ raced) <= 1
    /\ \A i \in Item : Exists(store[i]) => VariantsApart(store[i])

\* The party that p has come to after as many merges as there are parties.
Survivor(p) ==
  LET After[n \in 0..Cardinality(Party)] ==
        IF n = 0 THEN p
        ELSE LET q == After[n - 1]
             IN  IF store[q].status = "merged" THEN store[q].into ELSE q
  IN  After[Cardinality(Party)]

\* docs/modules/parties/design.md:133: whenever no call is running, the merges of a
\* party lead to one that was not merged, unless a party was saved past another call.
MergesEnd ==
  AtRest /\ raced \intersect Party = {} =>
    \A p \in Party : Exists(store[p]) =>
      store[Survivor(p)].status # "merged"

\* Whenever no call is running, the last status and the last price announced of an
\* item are those Orders would find, unless they were saved or announced past another
\* call.
OffersAreAnnounced ==
  AtRest => \A i \in Item \ raced : Exists(store[i]) =>
    /\ Exists(told[i]) => told[i] = store[i].status
    /\ \A v \in DOMAIN store[i].variants \union {NoVariant} :
         LET announced == told[PriceOf(i, v)]
         IN  PriceOf(i, v) \notin raced /\ Exists(announced)
               => announced = ResolveListPrice(store[i], v)
=============================================================================
