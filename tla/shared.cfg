SPECIFICATION Spec
CONSTANTS
    NoObj = NoObj
    p1 = p1
    p2 = p2
    n1 = n1
    n2 = n2
    Quantities <- MCQuantities
    Provisioners = {p1, p2}
    Namespaces = {n1, n2}
    NamespaceOf <- Apart
    EndsWith <- NoSuffixes
    Specs <- OnlyHostPath
    Deletable = {p1}
    DeletionModes <- Background
    Drifting <- None
    Providable <- None
    Administered <- Admins
    MaxBirths = 1
    MaxEdits = 0
    MaxDrifts = 1
    Lagging <- SCCAlone
    Scheme <- TestScheme
    ServedCRDs <- MainScheme
    ReadFaults = FALSE
    MaxFaults = 1
INVARIANTS
    SCCBeforeDeployment
PROPERTIES
    SCCUsersKept
    CleanBeforeRelease
    ImplementsLifecycle
CHECK_DEADLOCK FALSE
