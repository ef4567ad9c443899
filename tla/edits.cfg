SPECIFICATION Spec
CONSTANTS
    NoObj = NoObj
    p1 = p1
    p2 = p2
    n1 = n1
    n2 = n2
    Quantities <- MCQuantities
    Provisioners = {p1}
    Namespaces = {n1}
    NamespaceOf <- InFirst
    EndsWith <- NoSuffixes
    Specs <- AnyVolume
    Deletable = {p1}
    DeletionModes <- Background
    Drifting <- None
    Providable <- UserClaims
    Administered <- None
    MaxBirths = 1
    MaxEdits = 2
    MaxDrifts = 1
    Lagging <- AccountAndDeployment
    Scheme <- TestScheme
    ServedCRDs <- MainScheme
    ReadFaults = TRUE
    MaxFaults = 1
INVARIANTS
    TypeOK
    PrerequisitesInPlace
    NoneForgotten
PROPERTIES
    UserIntentKept
    ErrorsMatch
CHECK_DEADLOCK FALSE
