SPECIFICATION FairSpec
CONSTANTS
  TERM_MAX = 2
  MAX_PCB_MASK_LEN = 2
  RTC_MAX = 4
  Requests = {0, 1, 2, 3, 4, 8}
INVARIANTS
  NoDivisionByZero
  ExactWait
PROPERTY ReadReturns
