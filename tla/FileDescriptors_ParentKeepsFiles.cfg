SPECIFICATION Spec
CONSTANTS
  TERM_MAX = 1
  MAX_PCB_MASK_LEN = 2
  MAX_FILE_NUM = 3
  Regular <- MCRegular
  Size <- MCSize
  Lengths = {0, 1, 3}
PROPERTY ParentKeepsFiles
