SPECIFICATION FairSpec
CONSTANTS
  s1 = s1
  s2 = s2
  free = free
  developer = developer
  team = team
  Subs <- TwoSubs
  PlanOf <- TwoPlans
  Free = free
  NoSub = NoSub
  MaxTime = 2
  MaxEvents = 4
INVARIANTS TypeOK  RowsFollowNewest CancellationsAsked
PROPERTIES EventsSettle
