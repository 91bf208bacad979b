\* Any order of calls, keys and ticks. The model stops where the kernel has
\* gone on with memory that is nobody's (derailed), hence no deadlock check.
SPECIFICATION Spec
CONSTANTS
  TERM_MAX = 2
  MAX_PCB_MASK_LEN = 2
  MAX_TASKS = 3
INVARIANTS
  TypeOK
  StackDiscipline
  TaskLimit
PROPERTY RootShells
CHECK_DEADLOCK FALSE
