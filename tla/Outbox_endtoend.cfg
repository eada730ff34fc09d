SPECIFICATION Spec
CONSTANTS
  Uow = {u1, u2}
  Event = {1, 2}
  NoUow = NoUow
  MaxMutations = 2
  Relay = {r1}
  Replayer = {}
  NumConsumers = 1
  MaxAttempts = 1
  BatchLimit = 1
  ReplayStatus = {"published"}
  MaxReplays = 0
INVARIANTS
  EffectsFollowMutations
  RowsFollowMutations
  OutcomeIsTruthful
  TornOnlyThroughGaps
PROPERTIES
  RowsKeepOwner
  BegunCommitsAreDelivered
\* Units settle and rows are resolved: nothing may be left to do.
CHECK_DEADLOCK FALSE
