SPECIFICATION Spec
CONSTANTS
  Backends = {b1, b2, b3, b4}
  Configured = {{b1, b2, b3}, {b1, b4}}
  Dns = {b4}
  Farms = {f1}
  Vhosts = {v1}
  Datacenters = {east, west}
  Sessions = {s1, s2}
  Commands = {"backend_add", "backend_delete", "farm_add", "farm_partition", "farm_delete", "datacenter_set", "map", "unmap", "default"}
  MaxCommands = 1
  MaxEndpoints = 2
  Null = Null
INVARIANTS
  NeverTwice
  PartitionsInOrder
  SameBackend
  LocalFirst
SYMMETRY Symmetry
CHECK_DEADLOCK FALSE
