\* The sizes of the kernel: three terminals of four slots, six tasks; page
\* tables of eight entries.
SPECIFICATION FairPagedSpec
CONSTANTS
  TERM_MAX = 3
  MAX_PCB_MASK_LEN = 4
  MAX_TASKS = 6
  TAB_SIZE = 8
  VIDEO_PAGE = 4
INVARIANTS
  Coherent
  SavedContexts
  ParentsWait
  MemoryIsolated
PROPERTIES
  VideoIsolation
  EveryTerminalRuns
  ImplementsTerminalTasks
