CONSTANTS
  page_size = 3
  block_size = 3
  num_pages = 2
  Bits = {b1}
  ReadSizes = {0, 1, 5}
  SPI_BUFFER = 6
SPECIFICATION FairSpec
INVARIANTS
  TypeOK CommandsObeyed
PROPERTIES
  BufferLeftAlone ImplementsNorFlash CallsReturn
