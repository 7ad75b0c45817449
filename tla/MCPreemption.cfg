SPECIFICATION KSpec
CONSTANTS
  MAX_PROCS = 4
  SLICE = 1
  MAX_NESTED = 2
  NEEDS_EOI = FALSE
INVARIANT KTypeOK
INVARIANT NotInterruptedUnderLock
INVARIANT ClosuresStayMasked
INVARIANT ContextsNotMixed
INVARIANT IdleIsInterruptible
PROPERTY SwitchesToLiveStack
PROPERTY MethodsAreAtomic
PROPERTY LocksAreReleased
