SPECIFICATION Spec
CONSTANT MAX_PROCS = 5
INVARIANT TypeOK
INVARIANT OneCurrent
INVARIANT ReadyListExact
INVARIANT NullProcessAvailable
PROPERTY DeadStaysDead
PROPERTY NobodyOvertakes
PROPERTY RoundRobinSteps
