SPECIFICATION IdentitySpec
CONSTANTS
  u1 = u1
  e1 = e1
  Call = {c1, c2}
  NoRecord = NoRecord
  Key <- Keys
  User = {u1, u2}
  Email = {e1}
  External = {x1}
  Session = {s1, s2}
  Challenge = {ch1}
  MaxFailedLogins = 2
  MaxPasswords = 2
  Registered <- OneUser
  MaxCalls = 4
SYMMETRY Symmetry
INVARIANTS
  ActiveSessionsAreCurrent
  IdentitiesAreUnique
  StandingIsAnnounced
\* The calls are used up.
CHECK_DEADLOCK FALSE
