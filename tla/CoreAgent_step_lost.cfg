CONSTANTS
  Cores = {c0}
  Insns <- MCInsns
  Regs <- MCRegs
SPECIFICATION Spec
CHECK_DEADLOCK FALSE
INVARIANT StepTaken
