SPECIFICATION Spec
CONSTANTS
    MaxOptions = 3
    Thresholds = {1}
    Leftover = {"s1"}
    ExitMax = 2
    Block = 2
INVARIANTS VerdictCounts
PROPERTY RunEnds
CHECK_DEADLOCK FALSE
