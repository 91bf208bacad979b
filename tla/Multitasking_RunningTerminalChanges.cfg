\* A violation run: what the repository says and the code does not do.
SPECIFICATION Spec
CONSTANTS
  TERM_MAX = 3
  MAX_PCB_MASK_LEN = 4
  MAX_TASKS = 6
PROPERTY RunningTerminalChanges
CHECK_DEADLOCK FALSE
