CONSTANTS
    Enclaves = {e1}
    Strangers = {s1}
    Addrs = 2
    LegBudget = 2
    PumpBudget = 2
    ConnectBudget = 1
    Backoff = 1
    WriteCalls = 2
    MaxCalls = 2
    MaxFaults = 1
SPECIFICATION Spec
INVARIANTS DeadlinesHold
PROPERTIES EveryGuestServed Channel
