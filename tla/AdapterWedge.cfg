SPECIFICATION FairSpec
CONSTANTS
    Routes = {1, 2}
    Listeners = {53}
    Services = {"a", "b"}
    FirstParent <- OnlyNewest
    Generations = 2
    Replicas = {"r1"}
    Plans <- EarlyPlans
PROPERTIES
    RetirementCompletes
CHECK_DEADLOCK FALSE
