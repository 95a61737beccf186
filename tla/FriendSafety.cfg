SPECIFICATION Spec
CONSTANTS
  Session = {s1, s2}
  Name = {n1, n2}
  None = None
  Kinds = {"register", "login", "add", "friends"}
  MaySever = TRUE
  MayFail = {"select", "insert"}
  MaxSendQue = 2
  Lengths = {1}
  PushRoom = 1
  BatchRoom = 2
  FriendsRoom = 2
  MaxMessages = 0
  MaxBacklog = 2
  MaxCrashes = 1
SYMMETRY Symmetry
INVARIANT FriendshipIsOneRow
INVARIANT AddedIsMutual
\* an idle server waits for its clients, who may all be gone
CHECK_DEADLOCK FALSE
