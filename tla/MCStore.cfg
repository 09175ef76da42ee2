CONSTANTS
  Epoch = {e1, e2}
  None = None
  SegmentLimit = 2
  CatchUpTarget = 1
  MaxDelta = 2
  MaxRounds = 2
  MaxRecords = 4
  MaxFaults = 2
SPECIFICATION FairSpec
CHECK_DEADLOCK FALSE
INVARIANTS RefusedOnlyTorn
PROPERTIES KeepsJournal SwitchEnds
