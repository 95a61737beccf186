SPECIFICATION Spec
CONSTANTS
  Session = {s1, s2, s3}
  Uid = {u1}
  Worker = W
  None = None
  Credentials <- OneAccount
  PeerMayLeave = TRUE
  MaxRecvQue = 2
  MaxRequests = 1
SYMMETRY Symmetry
INVARIANT SingleLogin
\* an idle server waits for its clients, who may all be gone
CHECK_DEADLOCK FALSE
