SPECIFICATION FairSpec
CONSTANTS
  PoolSize = 3
  MaxConns = 3
  MaxPosts = 2
INVARIANT AlwaysListening
INVARIANT ThreadsEndFirst
PROPERTY EndsUnlessListening
\* the process may end
CHECK_DEADLOCK FALSE
