SPECIFICATION FairSpec
CONSTANTS
  Names <- MCNames
  InitialLoads <- MCLoads
  MaxPower = 5
  OnPower = 2
  OnPriority = 5
  PanelCount = 2
  PanelIds <- MCPanelIds
  PanelPower = 4
  Suns = {TRUE, FALSE}
  Full = 4
  InitialCharge = 3
  ChargeStep = 1
  DischargeStep = 1
  MaxCommands = 3
INVARIANTS
  TypeOK
  PublishedWithinLimit
  SolarPowerOfWellPanels
PROPERTIES
  ShedsInOrder
  ClearedWhenNextDoesNotFit
  SheddingEnds
  NoThrashing
