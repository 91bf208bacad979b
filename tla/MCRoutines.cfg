\* One part of the system after another; each of them returns or exits.
INIT Init
NEXT Next
CONSTANTS
  Characters = {"NUL", "%", "#", "x", "d", "s", "u", "c", "a", "b", " ", "EOL"}
  Size = 11
  Before <- MCBefore
  Fill <- MCFill
  WORD = 256
  HexDigits = 2
  Texts <- MCTexts
  Behind <- MCBehind
  Stacks <- MCStacks
  CharOf <- MCCharOf
  StringAt <- MCStringAt
  MAX_FILENAME_LENGTH = 3
  MAX_ARG_LENGTH = 3
  Lines <- MCLines
  ExitLine <- MCExitLine
  Directory <- MCDirectory
  KindOf <- MCKindOf
  Stale = {"NUL", "a"}
  Requests = {1, 2, 4}
  FS_BLOCK_SIZE = 4
  num_datablocks = 2
  DATA_BLK = 4
  Chunks = {1, 3, 4, 20}
  BUFSIZE = 4
  Files <- MCFiles
  Patterns <- MCPatterns
  Garbage = {"b", "EOL"}
  EOL = "EOL"
  DescriptorCount = 8
  BIG = 1073741823
  NEG <- MCNeg
  Names = {".", "rtc", "shell", "hello"}
INVARIANTS
  CallFillsBlock
  NumbersReadBack
  StaysInFormat
  PlainTextVerbatim
  CommandUnderstood
  FailureLeavesNoTrace
  ReadsInOrder
  CatWritesFile
  EachMatchOnce
  ErrorTestsPass
CHECK_DEADLOCK FALSE
