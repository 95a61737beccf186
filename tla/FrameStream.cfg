SPECIFICATION FairSpec
CONSTANTS
  MAX_LENGTH = 2
  ClientHeaders <- Headers
  MaxToServer = 2
  MaxToClient = 1
INVARIANT TypeOK
INVARIANT PostedIsSent
INVARIANT RefusedIffIllegal
PROPERTY LegalIsRead
PROPERTY RefusalIsSeen
\* both readers may have ended
CHECK_DEADLOCK FALSE
