CONSTANTS
  Cap = 8
  Symbols <- MCSymbols
  Digits <- MCDigits
SPECIFICATION Spec
CHECK_DEADLOCK FALSE
INVARIANTS ReplyIsSent ReplyIsWhatWasPut FrameCarriesReply
