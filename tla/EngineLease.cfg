SPECIFICATION Spec
CONSTANTS
    Occupancy = 2
    MaxShards = 1
    PortStart = 1024
    MaxWorkers = 1
    Explicit = FALSE
    RequestedPort <- NoRequest
    Bindings = {1, 2, 3}
    Services = {"a", "b"}
    Service <- SharedService
    Mode <- ModeNodePort
    Hosts = {"h1"}
    NodePorts = {1, 2}
    FirstDest <- StartOnFirst
    ProvisionEmpty = FALSE
    Replicas = {"r1", "r2"}
    Plans <- LeasePlans
INVARIANTS
    NativeLeased
    RetiredDark
    FinalizersGuard
    ConfiguredServed
PROPERTIES
    ImplementsLedger
CHECK_DEADLOCK FALSE
