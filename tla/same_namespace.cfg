SPECIFICATION FairSpec
CONSTANTS
    NoObj = NoObj
    p1 = p1
    p2 = p2
    n1 = n1
    n2 = n2
    Quantities <- MCQuantities
    Provisioners = {p1, p2}
    Namespaces = {n1}
    NamespaceOf <- Together
    EndsWith <- NoSuffixes
    Specs <- OnlyHostPath
    Deletable = {p1}
    DeletionModes <- Background
    Drifting <- None
    Providable <- None
    Administered <- None
    MaxBirths = 1
    MaxEdits = 0
    MaxDrifts = 0
    Lagging <- DeploymentAlone
    Scheme <- MainScheme
    ServedCRDs <- MainScheme
    ReadFaults = FALSE
    MaxFaults = 1
PROPERTIES
    Converges
CHECK_DEADLOCK FALSE
