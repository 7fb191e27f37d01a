CONSTANTS
    Plans <- AdmissionPlans
    Services <- EditedServices
    PodPorts = {8, 9}
SPECIFICATION FairSpec
INVARIANTS
    PortProved
PROPERTIES
    NoWastedLease
    ServedRight
CHECK_DEADLOCK FALSE
