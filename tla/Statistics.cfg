SPECIFICATION FairSpec
CONSTANTS
  x1 = x1
  x2 = x2
  Sessions = {x1, x2}
  Vhosts = {v1}
  Brokers = {b1}
  Machines = {a1}
  Clients = {c1}
  Width = 8
  Bounds <- TheBounds
  Null = Null
INVARIANTS
  NoByteReportedTwice
  CollectedIsReported
PROPERTIES
  ListenersHear
  ListenerForgotten
CHECK_DEADLOCK FALSE
