CONSTANTS
  FS_PRIV_MAX_SECTORS = 1
  FS_PRIV_PAGE_SIZE = 1
  FS_PRIV_USABLE_SIZE = 1
  FS_PRIV_NUM_WRITE_SESSIONS = 1
  PROTECT_BITS = 8
  MAX_COUNTER = 1
  NUM_FILES = 1
  FS_MAX_HANDLES = 1
  WriteSizes = {}
  ReadSizes = {}
  MAX_STREAM = 0
  Liberties = {}
SPECIFICATION Spec
PROPERTIES
  ProtectTakesEffect
