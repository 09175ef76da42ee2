\* Values on both sides of every bound, chunks of up to a frame and one byte more.
\* A connection with nothing left to say stops.
SPECIFICATION FairSpec
CHECK_DEADLOCK FALSE
CONSTANTS
  HeaderBytes = 2
  EnvelopeFields = 1
  MaxFrame = 7
  MaxChunk = 10
  MaxDepth = 3
  MaxItems = 3
  MaxNodes = 5
  Scripts <- MCScripts
INVARIANT
  FramesAgree
PROPERTY
  Answered
