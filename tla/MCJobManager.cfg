CONSTANTS
  Workers = {w1, w2, w3}
  Owner = o
  Waiters = {x1, x2}
  Clients = {o, x1, x2}
  Jobs = {j1, j2, j3, j4}
  MaxChannels = 2
  PendingCapacity = 2
  Capacity0 = 2
  Capacity1 = 1
  CompletedCapacity <- MCCompletedCapacity
  NoJob = NoJob
  NoChannel = NoChannel
SPECIFICATION Spec
SYMMETRY Symmetry
CHECK_DEADLOCK FALSE
INVARIANT JobsConserved
INVARIANT NoLostJobSignal
INVARIANT NoLostRoomSignal
INVARIANT NoLostCompletedSignal
INVARIANT StopDrains
INVARIANT StopHeldUpOnlyByFullRing
PROPERTY ImplementsLifecycle
