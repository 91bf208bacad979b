SPECIFICATION HistorySpec
CONSTANTS
  TERM_MAX = 2
  KEY_BUF_MAX = 3
  Keys = {a, b}
  NL = NL
  NUL = NUL
  Lengths = {1, 3}
INVARIANT BuffersAreText
PROPERTY ImplementsLineDiscipline
