\* Every call, with limits small enough that each boundary is met.
SPECIFICATION Spec
CONSTANTS
  Caller = {1, 2, 3}
  PerSecond = 4
  MaxTime = 50
  MaxTimeout = 10
  DefaultTimeout = 6
  MaxRetries = 2
  MaxDate = 40
  PageLimit = 2
  PageBytes = 10
  MaxErrorBytes = 17
  MaxTypeBytes = 4
  Overhead = 3
  Clock = {13, 14}
  Factor <- MCFactor
  Size <- MCSize
  Scripts <- MCScripts
INVARIANTS
  
  JobsAsAsked
  
  ListingComplete
