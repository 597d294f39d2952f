\* Loads that overlap, replace each other and exceed the budget half-way.
SPECIFICATION NodeSpec
CONSTANTS
    h1 = h1
    h2 = h2
    Handlers = {h1, h2}
    Experts = {0, 1}
    Capacity = 6
    Bytes <- Sizes
    Tiers = {"fast", "ssd"}
    HasBlock = FALSE
    MaxLoads = 3
INVARIANTS
    StoredWithinBudget
    BudgetExact
PROPERTY
    AckedServed
