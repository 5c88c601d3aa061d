SPECIFICATION Spec
CONSTANTS
  Tls = {{}}
  ProxyProtocol = {FALSE}
  NBackends = 1
  MaxEndpoints = 1
  Cap = 1
  Statuses = {"SUCCESS"}
  Commands = {"vhost_pause", "unpause"}
  MaxCommands = 2
  MaxData = 0
  MaxHeartbeats = 1
  Misbehave = {}
INVARIANT ResumedSessionReads
CHECK_DEADLOCK FALSE
