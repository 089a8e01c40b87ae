CONSTANTS
  Jobs = {j1, j2}
  Data1 = {d1, null}
  Capacity = 3
  i1 = i1
  i2 = i2
  Ids = {i1, i2}
  Contents <- MCContents
  TooLarge = TooLarge
  Missing = Missing
  MappingsCapacity = 2
  JobWorkers = {w1, w2}
  PendingCapacity = 1
  MaxTime = 3
  PluginNames = {"a", "b", "c"}
  MaxPlugins = 2
  MaxOpened = 3
  Users = {1, 2, 3, 4, 5, 6}
  Shards = {0, 1}
  ShardOf <- MCShardOf
  MaxUsers = 5
  PoolSize = 4
  IndexRange = 4
  Words <- MCWords
  Documents <- MCDocuments
  Interrupted <- MCInterrupted
  Noise <- MCNoise
  Behind = {"q", "d1"}
  MaxProperties = 3
  Base = 3
  MacDigits = 2
SPECIFICATION PartsSpec
CHECK_DEADLOCK FALSE
INVARIANT PartsTypeOK
INVARIANT BufferHasOneUser
INVARIANT OverlookedInItsSecond
INVARIANT LibrariesAccountedFor
 
INVARIANT FreeOrHeld
 
INVARIANT DocumentsAreRead
INVARIANT ScannerKeepsToPacket
 
PROPERTY ImplementsFifo
 
