SPECIFICATION Spec
CONSTANTS
    Pools = {1, 2, 3}
    PoolName <- Reused
    Routes = {1, 2, 3}
    Services = {"a", "b"}
    FirstTarget <- OddEven
    Occupancy = 2
    MaxGateways = 1
    PortStart = 1024
    MaxWorkers = 0
    Replicas = {"r1", "r2"}
    Plans <- LeasePlans
INVARIANTS
    DurableFirst
    OnePoolPerRoute
    ArchiveFaithful
PROPERTIES
    ListenerKept
    NoSilentRepair
CHECK_DEADLOCK FALSE
