SPECIFICATION Spec
CONSTANTS
  o1 = o1
  l1 = l1
  p1 = p1
  p2 = p2
  r1 = r1
  r2 = r2
  a1 = a1
  a2 = a2
  i1 = i1
  n1 = n1
  s1 = s1
  Call = {c1, c2}
  NoRecord = NoRecord
  Key <- Keys
  Organization = {o1, o2}
  Location = {l1}
  LocationCode = {"main"}
  Slug = {s1}
  NoSlug = NoSlug
  Principal = {p1, p2}
  Invitation = {i1}
  Permission = {Manage}
  Manage = Manage
  AdminPermissions <- Admins
  RoleId = {r1, r2}
  RoleName = {n1}
  Admin = Admin
  Platform = Platform
  Assignment = {a1, a2, a3}
  OrgWide = OrgWide
  Openings <- Starts
  MaxCalls = 2
SYMMETRY Symmetry
INVARIANTS
  OrganizationsAreOwned
  GrantsHold
  AnswersAgree
PROPERTIES
  SettledOnce
\* The calls are used up.
CHECK_DEADLOCK FALSE
