SPECIFICATION FairSpec
CONSTANTS
  Sessions = {x1, x2}
  Vhosts = {v1}
  Ports = {p1}
  Commands = {"PAUSE", "UNPAUSE", "FORCE_DISCONNECT", "BACKEND_DISCONNECT", "SESSION PAUSE", "SESSION DISCONNECT_GRACEFUL", "SESSION FORCE_DISCONNECT", "LISTEN START", "LISTEN STOP", "EXIT"}
  MaxLoad = 5
  Null = Null
INVARIANTS
  PausedVhostHolds
  PortKeepsAccepting
PROPERTIES
  DestroyedOnIoThread
  FinishedIsDestroyed
  ExitEnds
CHECK_DEADLOCK FALSE
