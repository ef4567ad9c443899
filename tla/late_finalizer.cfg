SPECIFICATION FairSpec
CONSTANTS
    NoObj = NoObj
    p1 = p1
    p2 = p2
    n1 = n1
    n2 = n2
    Quantities <- MCQuantities
    Provisioners = {p1}
    Namespaces = {n1}
    NamespaceOf <- InFirst
    EndsWith <- NoSuffixes
    Specs <- OnlyHostPath
    Deletable = {p1}
    DeletionModes <- Background
    Drifting <- None
    Providable <- None
    Administered <- None
    MaxBirths = 1
    MaxEdits = 0
    MaxDrifts = 0
    Lagging <- None
    Scheme <- MainScheme
    ServedCRDs <- MainScheme
    ReadFaults = FALSE
    MaxFaults = 0
PROPERTIES
    ExternalsCleaned
CHECK_DEADLOCK FALSE
