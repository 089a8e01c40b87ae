CONSTANTS
  Producers = {p1}
  Consumers = {c1}
  Values = {v1, v2}
  Capacity = 3
  NoValue = NoValue
  Null = Null
SPECIFICATION FairSpec
CHECK_DEADLOCK FALSE
INVARIANT ListSound
INVARIANT SleepsForAReason
PROPERTY ImplementsFifo
PROPERTY CallsReturn
