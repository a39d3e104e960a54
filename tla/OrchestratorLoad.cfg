SPECIFICATION FairSpec
CONSTANTS
  Scenarios <- MCScenarios
  Names <- MCNames
  Default = "faulty"
  Duration <- MCDuration
  InitialRate <- MCInitialRate
  FaultTime <- MCFaultTime
  Rates = {1, 2}
  Window = 2
  Interval = 1
  MaxLag = 1
  MaxTicks = 16
  MaxCommands = 2
INVARIANT LoadsTheNamedScenario
CHECK_DEADLOCK FALSE
