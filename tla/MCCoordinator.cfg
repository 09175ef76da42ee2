CONSTANTS
  s1 = s1
  None = None
  Sched = {s1}
  Definitions <- MCDefinitions
  Starts = {None}
  MaxTime = 2
  MaxRequests = 2
  MaxFaults = 1
SPECIFICATION FairSpec
CHECK_DEADLOCK FALSE
INVARIANTS
  TablesAgree
PROPERTIES
  AdmittedOnce
  AdmittedAlone
  OccurrencesHandled
