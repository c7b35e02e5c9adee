SPECIFICATION FairSpec
CONSTANTS
  SegmentEvents = 2
  MaxStreamBytes = 3
  PageLimit = 2
  MaxFaults = 1
  ReaderPinsStream = TRUE
  MaxStreams = 2
  MaxSequence = 4
INVARIANTS
    PublishedIsDurable
PROPERTIES
    FinishedReaderIsComplete
    ArchivesAreExact
    ReaderFinishes
CHECK_DEADLOCK FALSE
