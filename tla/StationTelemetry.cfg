SPECIFICATION Spec
CONSTANTS
  Deployments <- MCDeployments
  Subscriptions <- MCSubscriptions
  Backlog = 1
  MaxEvents <- MCMaxEvents
  MaxCalls = 3
  Asks <- MCAsks
  StatusOrder <- MCStatusOrder
  Answering = {"eps"}
  Publishers = {"eps"}
  MaxVersion <- MCMaxVersion
  Clients = {k1, k2}
  O2Start = 6
  O2Low = 5
  O2Consumed = 2
  O2Produced = 3
  Co2Start = 1
  Co2High = 2
  Co2Exhaled = 1
  ScrubGain = 1
  PressureStart = 3
  LeakRates = {1, 2}
  O2PerPressure = 8
  RegenerationTicks = 2
  Co2Max = 4
  LowestPressure <- MCLowestPressure
  Durations <- MCDurations
  StoresStart <- MCStoresStart
  StoresUsed <- MCStoresUsed
  Modes = {"spawn", "pipe"}
  PipeSize = 2
  StdinSize = 1
  MaxFrames = 4
  GroundCommands <- MCGroundCommands
  Parameters <- MCParameters
INVARIANTS
  TickedHavePublished
CHECK_DEADLOCK FALSE
