SPECIFICATION FairSpec
CONSTANTS
  Scenarios <- MCScenarios
  Names <- MCNames
  Default = "faulty"
  Duration <- RealDuration
  InitialRate <- RealInitialRate
  FaultTime <- RealFaultTime
  Rates = {1}
  Window = 2
  Interval = 20
  MaxLag = 21
  MaxTicks = 16
  MaxCommands = 1
INVARIANT FaultsExecuted
CHECK_DEADLOCK FALSE
