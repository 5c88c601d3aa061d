SPECIFICATION FairSpec
CONSTANTS
  Quotas = {0, 2}
  Unlimited = 9
  MaxRead = 2
  MaxUsed = 5
  MaxCommands = 2
  Bounds <- TheBounds
INVARIANTS
  ReadsGoOn
  QuotaEnforced
  LimitsReachSession
PROPERTY ClosedIsReleased
CHECK_DEADLOCK FALSE
