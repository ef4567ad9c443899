SPECIFICATION FairSpec
CONSTANTS
    NoObj = NoObj
    p1 = p1
    p2 = p2
    n1 = n1
    n2 = n2
    Quantities <- MCQuantities
    Provisioners = {p1}
    Namespaces = {n1}
    NamespaceOf <- InFirst
    EndsWith <- NoSuffixes
    Specs <- PlainOrInvalid
    Deletable = {p1}
    DeletionModes <- Both
    Drifting <- AccountAndDeployment
    Providable <- None
    Administered <- None
    MaxBirths = 1
    MaxEdits = 1
    MaxDrifts = 1
    Lagging <- DeploymentAlone
    Scheme <- MainScheme
    ServedCRDs <- MainScheme
    ReadFaults = FALSE
    MaxFaults = 1
PROPERTIES
    Converges
    DeletionCompletes
    OwnedCollected
    InvalidReported
    ImplementsLifecycle
CHECK_DEADLOCK FALSE
