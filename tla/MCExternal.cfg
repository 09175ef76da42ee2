CONSTANTS
  Job = {j1, j2}
  Worker = {w1}
  Resv = {x1, x2}
  None = None
  MaxAttempts = 2
  Capacity = 2
  QueueLimit = 2
  Limit = 6
  MaxRev = 4
  MaxServerFaults = 1
  MaxMail = 2
SPECIFICATION FairSpec
\* The model ends with the generation of the Engine.
CHECK_DEADLOCK FALSE
INVARIANT BooksAgree
PROPERTIES KeepsContract ExecutionSettles
