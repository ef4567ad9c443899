SPECIFICATION FairBothSpec
CONSTANTS
    NoObj = NoObj
    NoHolder = NoHolder
    p1 = p1
    n1 = n1
    Quantities <- MCQuantities
    Provisioners = {p1}
    Namespaces = {n1}
    NamespaceOf <- InFirst
    EndsWith <- NoSuffixes
    Specs <- OnlyHostPath
    Deletable = {p1}
    DeletionModes <- Background
    Drifting <- None
    Providable <- None
    Administered <- None
    MaxBirths = 1
    MaxEdits = 0
    MaxDrifts = 0
    Lagging <- None
    Scheme <- None
    ServedCRDs <- None
    ReadFaults = FALSE
    MaxFaults = 1
    LeaderElection = TRUE
INVARIANTS
    BothTypeOK
PROPERTIES
    BothKeepIntent
    Converges
    DeletionCompletes
CHECK_DEADLOCK FALSE
