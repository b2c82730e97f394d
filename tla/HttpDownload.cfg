\* A megabyte of one byte: a file of eight bytes is fetched whole or in two chunks.
SPECIFICATION FairSpec
CONSTANTS
  MB = 1
  Size = 8
  ThreadCount = 2
  RetryTimes = 1
  MaxPiece = 2
INVARIANTS
  
  FailureReal
  EntryOutlivesThread
PROPERTIES
  
  Answered
CHECK_DEADLOCK FALSE
