SPECIFICATION FASpec
CONSTANTS
  PAGE_SIZE = 2
  TOP = 8
  Layouts <- MCLayouts
  Requests = {0, 1}
INVARIANT FATypeOK
INVARIANT HandsOutUsable
INVARIANT NeverTwice
INVARIANT NoFrameLost
PROPERTY NoneMeansExhausted
PROPERTY CallsReturn
