SPECIFICATION Spec
CONSTANTS
  pa = pa
  pb = pb
  Ids = {1, 2, 3}
  Priorities = {0, 1}
  Order <- MCOrder
  WsProviders = {pa}
  Snapshots <- MCSnapshots
  MaxTried = 1
  MaxTime = 3
INVARIANTS TypeOK ShardsExact PicksTheBest FailsOnlyWhenAllWait EveryoneInTurn
