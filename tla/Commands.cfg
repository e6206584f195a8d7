CONSTANTS
  Cores = {0, 1, 2}
  CoreCount = 3
  Threads <- MCThreads
  Packets <- MCPackets
  Requests <- MCRequests
  StepCores = {0}
SPECIFICATION Spec
CHECK_DEADLOCK FALSE
INVARIANTS VContTypeOK AnsweredOnce LeftmostActionWins RefusedPacketRunsNothing
