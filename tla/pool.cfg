SPECIFICATION FairSpec
CONSTANTS
  p1 = p1
  s1 = s1
  s3 = s3
  Requests = {p1, s1, s3}
  Tasks <- MCTasks
  PoolSize = 5
  MaxLoad = 5
INVARIANTS ExhaustedOnlyWhenFull OutlivesOnlyAfterThrow
PROPERTIES EveryRequestAnswered
