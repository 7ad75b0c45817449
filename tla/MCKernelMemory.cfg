SPECIFICATION KMSpec
CONSTANTS
  ENTRY_COUNT = 3
  RAM = 38
  FIRST_FREE = 9
  LAST_FREE = 35
  FreeSets <- MCFreeSets
  TEMP = 40
  BootMaps <- MCBootMaps
  HEAP_START = 9
  HEAP_END = 10
  STACK_PAGES = 6
  Firmwares <- MCFirmwares
  StackSizes = {0, 1, 2}
INVARIANT KMTypeOK
INVARIANT AccessesAreSound
INVARIANT TlbCoherent
INVARIANT TranslationsAgree
INVARIANT OneUsePerFrame
INVARIANT StacksAreGuarded
PROPERTY AssertsOnlyOnOverlap
PROPERTY ImplementsAddressSpaces
