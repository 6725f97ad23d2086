CONSTANTS
  FS_PRIV_MAX_SECTORS = 3
  FS_PRIV_PAGE_SIZE = 12
  FS_PRIV_USABLE_SIZE = 12
  FS_PRIV_NUM_WRITE_SESSIONS = 1
  PROTECT_BITS = 2
  MAX_COUNTER = 1
  NUM_FILES = 1
  FS_MAX_HANDLES = 1
  WriteSizes = {8}
  ReadSizes = {12}
  MAX_STREAM = 40
  Liberties = {}
  num_pages = 6
SPECIFICATION FairReadAfterLossSpec
INVARIANTS
  CallsInPlace
PROPERTIES
  CallsReturnUnlessLost StoreSurvivesLoss ChangesOnlyRequested
