CONSTANTS
  FS_PRIV_MAX_SECTORS = 1
  FS_PRIV_PAGE_SIZE = 2
  FS_PRIV_USABLE_SIZE = 4
  FS_PRIV_NUM_WRITE_SESSIONS = 2
  PROTECT_BITS = 2
  MAX_COUNTER = 1
  NUM_FILES = 1
  FS_MAX_HANDLES = 1
  WriteSizes = {2,3}
  ReadSizes = {}
  MAX_STREAM = 6
  Liberties = {"dirty_unmount"}
SPECIFICATION Spec
INVARIANTS
  CommittedDataIntact
