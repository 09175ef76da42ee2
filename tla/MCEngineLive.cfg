CONSTANTS
  Job = {j1}
  Relay = {r1, r2}
  None = None
  MaxAttempts = 2
  QueueLimit = 2
  Limit = 8
  MaxRev = 8
  MaxFaults = 2
SPECIFICATION FairSpec
PROPERTIES KeepsContract ExecutionSettles DrainEnds
