SPECIFICATION FairSpec
CONSTANTS
    Occupancy = 2
    MaxShards = 1
    PortStart = 1024
    MaxWorkers = 1
    Explicit = FALSE
    RequestedPort <- NoRequest
    Bindings = {1, 2, 3, 4}
    Services = {"a", "b", "c", "d"}
    Service <- OwnService
    Mode <- ModeMixed
    Hosts = {"h1", "h2"}
    NodePorts = {1, 2}
    FirstDest <- StartOnFirst
    ProvisionEmpty = FALSE
    Replicas = {"r1"}
    Plans <- ClusterPlans
INVARIANTS
    DestinationExclusive
PROPERTIES
    PinnedBeforeWrite
    EventuallySettled
