SPECIFICATION ListSpec
CONSTANT MAX_PROCS = 6
INVARIANT SearchStaysInTable
PROPERTY RetryFindsFreePid
