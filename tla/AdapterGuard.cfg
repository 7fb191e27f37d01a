SPECIFICATION Spec
CONSTANTS
    Routes = {1, 2}
    Listeners = {53}
    Services = {"a", "b"}
    FirstParent <- OnlyNewest
    Generations = 2
    Replicas = {"r1", "r2"}
    Plans <- GuardPlans
INVARIANTS
    RouteGuarded
    GatewayLast
    ArchiveFaithful
PROPERTIES
    LedgerNotReplaced
CHECK_DEADLOCK FALSE
