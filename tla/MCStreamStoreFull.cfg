CONSTANTS
  f1 = f1
  f2 = f2
  Files = {f1}
  Blank = {}
  Width <- MCWidth
  FileSize = 7
  Begin = 2
  HeaderSize = 2
  TimeSize = 1
  TimeRange = 4
  Times = {1, 3, 4, 6}
  MaxStreams = 1
  Nothing = Nothing
  Unknown = Unknown
SPECIFICATION Spec
CHECK_DEADLOCK FALSE
INVARIANT FullStreamsRefuse
