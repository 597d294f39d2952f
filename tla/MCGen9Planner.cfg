\* Every fleet, checkpoint, context and shelf size.
SPECIFICATION PlanSpec
CONSTANTS
    Cases <- All
CHECK_DEADLOCK FALSE
INVARIANTS
    WithinCapacity
    PlanWhole
    LossTakesAway
