SPECIFICATION PagingSpec
CONSTANTS
  PageSize = 4
  Entries = 5
  Pages = 25
  end = 17
  kernel_page_directory = 0
  kernel_page_table = 4
  other_page_directory = 8
  other_page_table = 12
  Sizes <- MCSizes
  MaxCalls = 3
INVARIANTS
  TypeOK
  DisjointUntilWrap
  ChunksAligned
  NothingWasted
  MapsFirstPages
  PhysIsPhysical
PROPERTIES ImplementsAllocator
CHECK_DEADLOCK FALSE
