CONSTANTS
  Workers = {w1, w2}
  Owner = o
  Waiters = {x1}
  Clients = {o, p, x1}
  Jobs = {j1, j2, j3}
  MaxChannels = 1
  PendingCapacity = 2
  Capacity0 = 1
  Capacity1 = 1
  CompletedCapacity <- MCCompletedCapacity
  NoJob = NoJob
  NoChannel = NoChannel
SPECIFICATION FairSpec
CHECK_DEADLOCK FALSE
PROPERTY JobsDelivered
PROPERTY OwnerReturns
