CONSTANTS
  c1 = c1
  c2 = c2
  e1 = e1
  e2 = e2
  t1 = t1
  s1 = s1
  None = None
  Boot = Boot
  Caller = {c1, c2}
  Exec = {e1, e2}
  Task = {t1}
  Sched = {s1}
  Scripts <- MCScripts
  Capacity = 1
  MaxConns = 3
SPECIFICATION FairSpec
CHECK_DEADLOCK FALSE
INVARIANTS
  AtMostOnce
  CapabilitiesAgree
  
PROPERTIES
  NoResurrection
  CallsEnd
  Reconnects
