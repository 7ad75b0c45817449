SPECIFICATION InterruptSpec
CONSTANTS
  CAPACITY <- MCCapacity
  MAX_BUS = 1
  MAX_DEVICE = 2
  MAX_FUNCTION = 2
  BARS = 2
  WORD = 256
  Firmwares <- FewFirmwares
PROPERTY
  TimerHandlerCompletes
