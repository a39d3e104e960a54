SPECIFICATION Spec
CONSTANTS
  Names = {"flight"}
  Subjects <- MCSubjects
  Requests <- OneRequest
  Durations = {0}
  PerSecond = 1
  RestartDelay = 1
  MaxTime = 3
  MaxRecordings = 3
  MaxMessages = 3
  MaxReplays = 1
  MaxRestarts = 3
INVARIANT
  ReplayInOrder
CHECK_DEADLOCK FALSE
