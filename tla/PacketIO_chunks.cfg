CONSTANTS
  Cores <- MCCores
  MasterCore = 1
  Capacity = 3
  UsePChar = TRUE
  Chars <- MCChars
  NoChar = "nul"
  MaxSent = 0
  RetryLimit = 2
  FirstPolls <- NeverPoll
  MaxCommands = 2
  MaxInterrupts = 2
  MaxNacks = 2
  MaxTimeouts = 2
  MaxGiveUps = 1
  MaxDupAcks = 9
  MaxLine = 6
SPECIFICATION FairSpec
CHECK_DEADLOCK FALSE
INVARIANTS UndoneForReader AckLoopRecordsInterrupt
PROPERTY PacketEndsWait
PROPERTY TrapHolds
