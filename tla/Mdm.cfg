SPECIFICATION FairSpec
CONSTANTS
  Commands <- MCCommands
  Uplinked <- MCUplinked
  Blank = "blank"
  Code <- MCCode
  Sum <- MCSum
  Delay <- MCDelay
  SeqId <- MCSeqId
  Count <- MCCount
  At <- MCAt
  SeqMax = 2
  StepMax = 3
  Byte = 16
  IdWidth = 4
  CountWidth = 8
  ParamBytes = 20
  Ring = 3
  Period = 4
  Threshold = 6
  Word = 200
  MaxMessages = 2
  MaxUptime = 1
INVARIANTS
  TypeOK
  EveryCommandCounted
  DelaysKept
  LoadedOnce
  StartsAtFirstCommand
PROPERTIES
  SequencesEnd
  OverflowsReported
