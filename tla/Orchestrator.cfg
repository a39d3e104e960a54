SPECIFICATION FairSpec
CONSTANTS
  Scenarios <- MCScenarios
  Names <- MCNames
  Default = "faulty"
  Duration <- MCDuration
  InitialRate <- MCInitialRate
  FaultTime <- MCFaultTime
  Rates = {1, 2, 4}
  Window = 3
  Interval = 1
  MaxLag = 2
  MaxTicks = 16
  MaxCommands = 3
INVARIANTS
  TypeOK
  PausedTimeNeverSimulated
  OnlyLeapsSkipFaults
  FaultsPublishedOnTime
  CompletedNeedsResume
PROPERTIES
  EveryRunEnds
  StopEnds
CHECK_DEADLOCK FALSE
