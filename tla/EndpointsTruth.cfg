SPECIFICATION FairSpec
CONSTANTS
    Pods = {1, 2, 3}
    PodName <- NameUsedAgain
    Nodes = {"n1", "n2"}
    Addresses = {"a1", "a2"}
    Plans <- ModePlans
INVARIANTS
    HeldVerified
    OnePod
    GapIsSafe
PROPERTIES
    EventuallyTruth
