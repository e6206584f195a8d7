CONSTANTS
  Cores = {c0}
  Insns <- MCInsns
  Regs <- MCRegs
SPECIFICATION FairSpec
CHECK_DEADLOCK FALSE
INVARIANTS TypeOK HangsOnlyNested WatchedWhileRunning WatchHitIsTrap SkipsTrapOnce StepDoneIsStopped LateStepTaken InterruptsNotLost StepsWhenTold
PROPERTIES ImplementsStopGo CommandTakesEffect
