SPECIFICATION KSpec
CONSTANTS
  MAX_PROCS = 4
  SLICE = 1
  MAX_NESTED = 2
  NEEDS_EOI = TRUE
PROPERTY SliceEnds
