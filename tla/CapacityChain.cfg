CONSTANTS
    Specs <- EdgeSpecs
    Counts = {0, 20, 256, 341, 512, 513}
SPECIFICATION CapacitySpec
INVARIANTS
    NeverRefused
    BudgetNeverHit
