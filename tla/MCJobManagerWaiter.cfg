CONSTANTS
  Workers = {w1}
  Owner = o
  Waiters = {x1}
  Clients = {o, p, x1}
  Jobs = {j1}
  MaxChannels = 2
  PendingCapacity = 2
  Capacity0 = 1
  Capacity1 = 1
  CompletedCapacity <- MCCompletedCapacity
  NoJob = NoJob
  NoChannel = NoChannel
SPECIFICATION FairSpec
CHECK_DEADLOCK FALSE
PROPERTY WaitersReturn
