SPECIFICATION Spec
CONSTANTS
  Session = {s1, s2}
  Name = {n1, n2}
  None = None
  Kinds = {"register", "login", "chat", "offline"}
  MaySever = TRUE
  MayFail = {"lookup", "select", "insert", "update"}
  Lengths = {1, 3}
  PushRoom = 2
  BatchRoom = 1
  FriendsRoom = 1
  MaxSendQue = 2
  MaxMessages = 2
  MaxBacklog = 2
  MaxCrashes = 1
SYMMETRY Symmetry
INVARIANT TypeOK
INVARIANT AckedIsStored
INVARIANT MarkedIsAccountedFor
 
PROPERTY MarkedWasFetched
\* an idle server waits for its clients, who may all be gone
CHECK_DEADLOCK FALSE
