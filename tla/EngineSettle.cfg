SPECIFICATION FairSpec
CONSTANTS
    Occupancy = 1
    MaxShards = 2
    PortStart = 1024
    MaxWorkers = 1
    Explicit = FALSE
    RequestedPort <- NoRequest
    Bindings = {1, 2}
    Services = {"a", "b"}
    Service <- SharedService
    Mode <- ModeNodePort
    Hosts = {"h1", "h2"}
    NodePorts = {1, 2}
    FirstDest <- StartOnFirst
    ProvisionEmpty = FALSE
    Replicas = {"r1", "r2"}
    Plans <- SettlePlans
PROPERTIES
    EventuallySettled
    GapKeepsFlow
    DeletionCompletes
    RetiredGoesDark
