SPECIFICATION Spec
CONSTANTS
  Tls = {{}}
  ProxyProtocol = {FALSE}
  NBackends = 1
  MaxEndpoints = 2
  Cap = 1
  Statuses = {"SUCCESS", "LIMIT", "NO_FARM"}
  Commands = {"pause", "vhost_pause", "unpause", "graceful", "force", "backend"}
  MaxCommands = 2
  MaxData = 2
  MaxHeartbeats = 0
  Misbehave = {"client_drop", "broker_drop", "refuse", "deny"}
INVARIANTS
  AuthorisedEgress
  PassThroughInOrder
PROPERTIES
  PausedForwardsNothing
  BlameStands
CHECK_DEADLOCK FALSE
