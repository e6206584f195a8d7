CONSTANTS
  Cores <- MCCores
  MasterCore = 1
  Capacity = 2
  UsePChar = TRUE
  Chars <- MCChars
  NoChar = "nul"
  MaxSent = 0
  RetryLimit = 10
  FirstPolls <- NeverPoll
  MaxCommands = 3
  MaxInterrupts = 0
  MaxNacks = 12
  MaxTimeouts = 0
  MaxGiveUps = 0
  MaxDupAcks = 9
  MaxLine = 6
SPECIFICATION FairSpec
CHECK_DEADLOCK FALSE
INVARIANTS TypeOK AckedMeansAccepted SentUntilLimit
PROPERTY CommandAnswered
PROPERTY PutPacketReturns
