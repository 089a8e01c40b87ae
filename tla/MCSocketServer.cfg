CONSTANTS
  c1 = c1
  c2 = c2
  c3 = c3
  Clients = {c1, c2, c3}
  ServerCap = 2
  ConnCap = 2
  BatchMax = 3
  MaxServerId = 2
  MaxSends = 1
  NoData = NoData
SPECIFICATION Spec
SYMMETRY MCSymmetry
CHECK_DEADLOCK FALSE
 
 
INVARIANT UnmovedServersAreSafe
PROPERTY OldConnectionsCloseForAReason
