CONSTANTS
  MasterCore = 1
  Addrs = {code, hole}
  Physical = {code}
  Valid = {code}
  Insns = {nop, trap}
  NoLine = none
  CallAddrs <- MCCallAddrs
  Probes <- MCProbes
  Accesses <- MCAccesses
  MaxCalls = 2
SPECIFICATION FairSpec
CHECK_DEADLOCK FALSE
INVARIANTS ExecutesWhatGdbReads WatchedEverywhere
PROPERTIES CallReturns StuckForGood
