SPECIFICATION FairSpec
CONSTANTS
  Names = {"flight"}
  Subjects <- MCSubjects
  Requests <- MCRequests
  Durations = {0, 2}
  PerSecond = 2
  RestartDelay = 2
  MaxTime = 2
  MaxRecordings = 2
  MaxMessages = 2
  MaxReplays = 0
  MaxRestarts = 1
INVARIANTS
  TypeOK
  OneWriterPerFile
  FirstRecordingFaithful
  CopiesBounded
PROPERTIES
  RecordedFramesKept
  TimedRecordingEnds
CHECK_DEADLOCK FALSE
