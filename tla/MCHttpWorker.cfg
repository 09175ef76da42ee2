CONSTANTS
  c1 = c1
  c2 = c2
  e1 = e1
  e2 = e2
  None = None
  Loop = Loop
  Caller = {c1, c2}
  Exec = {e1, e2}
  Scripts <- MCScripts
  Capacity = 1
  MaxQueue = 2
  MaxSess = 2
SPECIFICATION FairSpec
CHECK_DEADLOCK FALSE
INVARIANTS
  OldWorkSettled
  
  ClosedHoldsNothing
PROPERTIES
  Recovers
