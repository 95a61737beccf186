SPECIFICATION FairSpec
CONSTANTS
  None = None
  MaxSendQue = 2
  MaxLength = 2048
  ShortRange = 65536
  Lengths = {1, 2048, 2049, 32768, 65537}
  MaxSends = 5
INVARIANT OneWriteInFlight
INVARIANT BufferAlive
INVARIANT WholeUnlessWrapped
PROPERTY ImplementsFifo
PROPERTY Drains
\* the calls of Send are bounded
CHECK_DEADLOCK FALSE
