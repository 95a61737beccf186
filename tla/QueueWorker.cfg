SPECIFICATION FairSpec
CONSTANTS
  Producer = {p1, p2}
  None = None
  MaxRecvQue = 2
  MaxPosts = 4
INVARIANT SleepsOnlyWhenEmpty
INVARIANT DrainedAtExit
PROPERTY ImplementsFifo
PROPERTY JoinReturnsUnlessParked
\* everything ends once the worker has been joined
CHECK_DEADLOCK FALSE
