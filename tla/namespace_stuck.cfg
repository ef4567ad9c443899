SPECIFICATION ClosingSpec
CONSTANTS
    NoObj = NoObj
    p1 = p1
    n1 = n1
    Quantities <- MCQuantities
    Provisioners = {p1}
    Namespaces = {n1}
    NamespaceOf <- InFirst
    EndsWith <- NoSuffixes
    Specs <- OnlyDefault
    Deletable <- None
    DeletionModes <- None
    Drifting <- None
    Providable <- None
    Administered <- None
    MaxBirths = 1
    MaxEdits = 0
    MaxDrifts = 0
    Lagging <- None
    Scheme <- None
    ServedCRDs <- None
    ReadFaults = FALSE
    MaxFaults = 0
PROPERTIES
    NamespaceFinishes
CHECK_DEADLOCK FALSE
