SPECIFICATION FairSpec
CONSTANTS
  TERM_MAX = 2
  KEY_BUF_MAX = 2
  Keys = {a}
  NL = NL
  NUL = NUL
  Lengths = {2}
INVARIANT TypeOK
PROPERTY EnterWakesReader
