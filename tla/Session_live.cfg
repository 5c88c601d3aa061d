SPECIFICATION FairSpec
CONSTANTS
  Tls = {{}, {"INGRESS", "EGRESS"}}
  ProxyProtocol = {TRUE}
  NBackends = 2
  MaxEndpoints = 1
  Cap = 1
  Statuses = {"SUCCESS", "LIMIT", "NO_FARM"}
  Commands = {"force", "backend"}
  MaxCommands = 1
  MaxData = 0
  MaxHeartbeats = 1
  Misbehave = {"old_header", "client_drop", "broker_drop", "refuse", "close", "deny", "tls"}
INVARIANTS
  IngressChain
  EgressChain
  OpenedByBroker
PROPERTIES
  FinishedIsStable
  ClientLossNoticed
  FinishedIsReleased
CHECK_DEADLOCK FALSE
