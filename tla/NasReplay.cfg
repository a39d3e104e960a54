SPECIFICATION FairSpec
CONSTANTS
  Names = {"flight"}
  Subjects <- MCSubjects
  Requests <- OneRequest
  Durations = {1}
  PerSecond = 1
  RestartDelay = 1
  MaxTime = 1
  MaxRecordings = 2
  MaxMessages = 2
  MaxReplays = 1
  MaxRestarts = 1
INVARIANT
  FirstRecordingFaithful
CHECK_DEADLOCK FALSE
