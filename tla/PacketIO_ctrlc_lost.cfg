CONSTANTS
  Cores <- MCCores
  MasterCore = 1
  Capacity = 1
  UsePChar = TRUE
  Chars <- MCChars
  NoChar = "nul"
  MaxSent = 0
  RetryLimit = 3
  FirstPolls <- NeverPoll
  MaxCommands = 2
  MaxInterrupts = 1
  MaxNacks = 1
  MaxTimeouts = 0
  MaxGiveUps = 1
  MaxDupAcks = 9
  MaxLine = 6
SPECIFICATION Spec
CHECK_DEADLOCK FALSE
INVARIANT InterruptNeverLost
