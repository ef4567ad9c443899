SPECIFICATION ReadySpec
CONSTANTS
    NoDeploy = NoDeploy
    Blank = Blank
    MaxReplicas = 2
    CheckCount = 3
INVARIANTS
    ReadyIsTrue
CHECK_DEADLOCK FALSE
