SPECIFICATION FairRelaySpec
CONSTANTS
  Event = {1, 2}
  Relay = {r1}
  Replayer = {p1, p2}
  NumConsumers = 2
  MaxAttempts = 2
  BatchLimit = 1
  ReplayStatus = {"published"}
  MaxReplays = 2
INVARIANTS
  HandlerOncePerEvent
PROPERTIES
  ResolvedIsFinal
  EveryRowIsResolved
  KeepsPromise
\* All rows may be resolved and all replays done.
CHECK_DEADLOCK FALSE
