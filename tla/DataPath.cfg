SPECIFICATION Spec
CONSTANTS
  Flows = {"INGRESS", "EGRESS"}
  FrameSizes = {3, 5}
  FrameOverhead = 2
  MaxFrameSize = 4
  Buckets = {1, 4}
  MaxFrames = 2
INVARIANTS
  WritesIntact
  ReadHasRoom
  PoolAccounted
CHECK_DEADLOCK FALSE
