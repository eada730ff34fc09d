SPECIFICATION RelaySpec
CONSTANTS
  Event = {1, 2}
  Relay = {r1, r2}
  Replayer = {p1}
  NumConsumers = 1
  MaxAttempts = 2
  BatchLimit = 2
  ReplayStatus = {"unpublished", "published", "poison"}
  MaxReplays = 1
SYMMETRY Symmetry
INVARIANTS
  PublishedReachedEveryone
  EffectsBoundedByOverlap
\* All rows may be resolved and all replays done.
CHECK_DEADLOCK FALSE
