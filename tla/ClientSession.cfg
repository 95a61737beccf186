SPECIFICATION FairSpec
CONSTANTS
  Command = {"login", "friends", "offline"}
  None = None
  MaxRequests = 3
  MaxConns = 2
  MaxWire = 3
  MayDrop = TRUE
  Patient = FALSE
INVARIANT TypeOK
INVARIANT OwnAnswerUnlessLate
INVARIANT ConnectedIsTruthful
INVARIANT AbortsOnLoginOnly
PROPERTY PromptReturns
\* the user may leave, or be aborted
CHECK_DEADLOCK FALSE
