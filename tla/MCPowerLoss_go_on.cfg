CONSTANTS
  FS_PRIV_MAX_SECTORS = 2
  FS_PRIV_PAGE_SIZE = 12
  FS_PRIV_USABLE_SIZE = 12
  FS_PRIV_NUM_WRITE_SESSIONS = 1
  PROTECT_BITS = 2
  MAX_COUNTER = 1
  NUM_FILES = 1
  FS_MAX_HANDLES = 1
  WriteSizes = {12}
  ReadSizes = {}
  MAX_STREAM = 36
  Liberties = {}
  num_pages = 4
SPECIFICATION GoOnAfterLossSpec
INVARIANTS
  NeverUsedIsErased
