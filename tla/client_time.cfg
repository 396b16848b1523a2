SPECIFICATION ClientSpec
CONSTANTS
  c1 = c1
  c2 = c2
  c3 = c3
  NoEntry = NoEntry
  Call <- Calls
  Lifetimes <- ShortAndLong
  MaxSkew = 1
  Part = 2
  MaxTime = 2
  Stalls = FALSE
  Follows <- SmallFollows
  DefaultTimeout = 3
  DefaultEvents = 3
  MaxHappened = 1
  MaxNow = 3
INVARIANTS TokenTypes SingleFlight OwnFailure ServedUnexpired FollowTellsAll
PROPERTIES NoWastedFetch EveryCallReturns FollowEnds
CHECK_DEADLOCK FALSE
