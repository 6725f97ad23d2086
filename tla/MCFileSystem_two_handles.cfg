CONSTANTS
  FS_PRIV_MAX_SECTORS = 2
  FS_PRIV_PAGE_SIZE = 2
  FS_PRIV_USABLE_SIZE = 2
  FS_PRIV_NUM_WRITE_SESSIONS = 1
  PROTECT_BITS = 2
  MAX_COUNTER = 1
  NUM_FILES = 2
  FS_MAX_HANDLES = 2
  WriteSizes = {1}
  ReadSizes = {1}
  MAX_STREAM = 2
  Liberties = {}
SPECIFICATION Spec
INVARIANTS
  NoHiddenLoss HandlesFresh
