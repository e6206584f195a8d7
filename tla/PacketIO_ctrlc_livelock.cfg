CONSTANTS
  Cores <- MCCores
  MasterCore = 1
  Capacity = 2
  UsePChar = TRUE
  Chars <- MCChars
  NoChar = "nul"
  MaxSent = 0
  RetryLimit = 3
  FirstPolls <- NeverPoll
  MaxCommands = 1
  MaxInterrupts = 1
  MaxNacks = 0
  MaxTimeouts = 0
  MaxGiveUps = 0
  MaxDupAcks = 9
  MaxLine = 6
SPECIFICATION FairSpec
CHECK_DEADLOCK FALSE
PROPERTY PutPacketReturns
