CONSTANTS
  r1 = r1
  r2 = r2
  r3 = r3
  i1 = i1
  i2 = i2
  Requests = {r1, r2, r3}
  Ids = {i1, i2}
  UserId <- MCUserId
  ActiveCapacity = 3
  ChannelCapacity = 2
  NoRequest = NoRequest
  NoFile = NoFile
SPECIFICATION ThreadSpec
CHECK_DEADLOCK FALSE
INVARIANT AnswersMatch
