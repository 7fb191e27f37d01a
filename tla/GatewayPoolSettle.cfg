SPECIFICATION FairSpec
CONSTANTS
    Pools = {1}
    PoolName <- Reused
    Routes = {1, 2}
    Services = {"a", "b"}
    FirstTarget <- OddEven
    Occupancy = 1
    MaxGateways = 2
    PortStart = 1024
    MaxWorkers = 0
    Replicas = {"r1", "r2"}
    Plans <- SettlePlans
INVARIANTS
    PoolOutlivesGateways
PROPERTIES
    EventuallySettled
    DeletionCompletes
    ImplementsLedger
CHECK_DEADLOCK FALSE
