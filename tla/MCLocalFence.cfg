SPECIFICATION FairSpec
CONSTANTS
  Generation = {g1, g2}
  Task = {t1, t2}
  None = None
INVARIANTS
  NoOverlap
  MarkerGuardsCallbacks
  OrderlyEndLeavesLedger
PROPERTIES
  RevokedRetires
