SPECIFICATION FairSpec
CONSTANTS
  Session = {s1, s2}
  Uid = {u1}
  Worker = W
  None = None
  Credentials <- OneAccount
  PeerMayLeave = TRUE
  MaxRecvQue = 2
  MaxRequests = 1
INVARIANT TeardownOnce
INVARIANT OpenIsCataloged
INVARIANT NoLiveGarbage
PROPERTY RequestsAreServed
PROPERTY StopEndsReader
PROPERTY FailureIsCleared
\* an idle server waits for its clients, who may all be gone
CHECK_DEADLOCK FALSE
