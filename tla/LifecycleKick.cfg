SPECIFICATION Spec
CONSTANTS
  Session = {s1, s2}
  Uid = {u1, u2}
  Worker = W
  None = None
  Credentials <- AnyAccount
  PeerMayLeave = FALSE
  MaxRecvQue = 1
  MaxRequests = 2
SYMMETRY Symmetry
INVARIANT SingleLogin
INVARIANT BoundIsOnline
\* an idle server waits for its clients, who may all be gone
CHECK_DEADLOCK FALSE
