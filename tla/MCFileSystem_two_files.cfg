CONSTANTS
  FS_PRIV_MAX_SECTORS = 2
  FS_PRIV_PAGE_SIZE = 2
  FS_PRIV_USABLE_SIZE = 2
  FS_PRIV_NUM_WRITE_SESSIONS = 2
  PROTECT_BITS = 2
  MAX_COUNTER = 1
  NUM_FILES = 2
  FS_MAX_HANDLES = 1
  WriteSizes = {1, 2}
  ReadSizes = {2}
  MAX_STREAM = 3
  Liberties = {}
SPECIFICATION Spec
INVARIANTS
  TypeOK MirrorCoherent FreeSectorsErased
PROPERTIES
  ProtectedUntouched ImplementsFileStore
