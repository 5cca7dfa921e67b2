\* Logins of an online or an offline server, two play packets each way.
SPECIFICATION FairSpec
CONSTANTS
  MaxPlay = 2
INVARIANTS
  FramesReadable
  JoinedBeforeResponse
PROPERTIES
  PacketsArrive
  LoginSettles
CHECK_DEADLOCK FALSE
