SPECIFICATION SuppliersSpec
CONSTANTS
  p1 = p1
  p2 = p2
  x1 = x1
  r1 = r1
  i1 = i1
  v1 = v1
  k1 = k1
  m1 = m1
  contact_of = contact_of
  Call = {c1, c2}
  NoRecord = NoRecord
  Key <- Keys
  Party = {p1, p2, p3}
  Principal = {x1}
  NoPrincipal = NoPrincipal
  NoParty = NoParty
  RoleKey = {supplier}
  Channel = {ch1}
  Relationship = {r1, r2}
  RelationshipType = {contact_of, subsidiary_of}
  Item = {i1, i2}
  Code = {k1}
  Variant = {v1, v2}
  NoVariant = NoVariant
  Money = {m1, m2}
  NoMoney = NoMoney
  Openings <- Starts
  MaxCalls = 3
SYMMETRY Symmetry
INVARIANTS
  OneOfEach
  MergesEnd
  OffersAreAnnounced
\* The calls are used up.
CHECK_DEADLOCK FALSE
