CONSTANTS
  page_size = 3
  block_size = 3
  num_pages = 2
  Bits = {b1}
  ReadSizes = {1}
  SPI_BUFFER = 6
SPECIFICATION OptimisedSpec
PROPERTIES
  CallsReturn
