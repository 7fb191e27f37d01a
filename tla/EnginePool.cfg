SPECIFICATION FairSpec
CONSTANTS
    Occupancy = 2
    MaxShards = 1
    PortStart = 1
    MaxWorkers = 1
    Explicit = TRUE
    RequestedPort <- SamePort
    Bindings = {1, 2}
    Services = {"a", "b"}
    Service <- SharedService
    Mode <- ModeNodePort
    Hosts = {"h1"}
    NodePorts = {1, 2}
    FirstDest <- StartOnFirst
    ProvisionEmpty = TRUE
    Replicas = {"r1"}
    Plans <- PoolPlans
PROPERTIES
    PoolDeletionCompletes
    ImplementsContract
CHECK_DEADLOCK FALSE
