SPECIFICATION Spec
CONSTANTS
  SegmentEvents = 2
  MaxStreamBytes = 3
  PageLimit = 2
  MaxFaults = 1
  ReaderPinsStream = TRUE
  MaxStreams = 2
  MaxSequence = 3
INVARIANT CursorReplayIsContiguous
CHECK_DEADLOCK FALSE
