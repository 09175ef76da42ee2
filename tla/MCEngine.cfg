CONSTANTS
  Job = {j1, j2}
  Relay = {r1, r2}
  None = None
  MaxAttempts = 2
  QueueLimit = 2
  Limit = 4
  MaxRev = 4
  MaxFaults = 1
SPECIFICATION Spec
SYMMETRY Symmetric
INVARIANTS ReservesExact SettlementNeverRefused Exclusive
