CONSTANTS
  Client = {c1}
  Slot = {s1, s2}
  None = None
  Window = 1
  MaxBatch = 2
  MemLimit = 3
  MaxRequests = 2
  MaxRestarts = 1
SPECIFICATION FairSpec
INVARIANTS AnswersTrue BudgetExact DrainFrontier
PROPERTIES PermitReturns
