SPECIFICATION Spec
CONSTANTS
  Backends = {b1, b2}
  Configured = {{b1, b2}}
  Dns = {}
  Farms = {f1}
  Vhosts = {v1}
  Datacenters = {east, west}
  Sessions = {s1}
  Commands = {"backend_delete", "datacenter_set"}
  MaxCommands = 2
  MaxEndpoints = 1
  Null = Null
INVARIANT AllTriedBeforeGivingUp
CHECK_DEADLOCK FALSE
