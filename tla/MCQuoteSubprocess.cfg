SPECIFICATION FairSpec
CONSTANTS
    Children = {c1, c2, c3, c4, c5}
    NoChild = NoChild
    Ceiling = 2
    Attempts = {0, 1, 2, 3}
    Timeouts = {0, 1, 2}
    Overalls = {6, 8, 12}
    MinLeg = 1
    MaxLeg = 1
    Grace = 1
    RestoreDeadline = 1
INVARIANTS ChildrenAccounted BootWithinBudget
PROPERTY BootAndFetchesEnd
CHECK_DEADLOCK FALSE
