\* Three terminals: a displayed one, a running one and a third.
SPECIFICATION MCSpec
CONSTANTS
  TERM_MAX = 3
  NUM_COLS = 2
  NUM_ROWS = 2
  Letters = {a}
  Blank = Blank
  NL = NL
INVARIANT TypeOK
PROPERTY ThirdTerminalUntouched
PROPERTY ImplementsConsoles
CONSTANT MaxOutputs = 4
