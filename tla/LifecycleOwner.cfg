SPECIFICATION Spec
CONSTANTS
  Session = {s1, s2}
  Uid = {u1, u2}
  Worker = W
  None = None
  Credentials <- OneAccount
  PeerMayLeave = TRUE
  MaxRecvQue = 1
  MaxRequests = 2
INVARIANT OnlineIsOwner
INVARIANT PushToOwner
\* an idle server waits for its clients, who may all be gone
CHECK_DEADLOCK FALSE
