CONSTANTS
  Cap = 13
  Word = 32
  Sizes <- MCSizes
  Lengths <- MCLengths
  LibLengths <- MCLibLengths
  Char <- MCChar
  ThreadCap = 31
  InfoCap = 10
  Snapshots <- MCSnapshots
SPECIFICATION Spec
CHECK_DEADLOCK FALSE
INVARIANTS WholeDocument ThreadsReadBack
PROPERTY ReadingEnds
