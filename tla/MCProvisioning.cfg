SPECIFICATION FairSpec
CONSTANTS
    Enclaves = {e1, e2}
    Challenges = {p1, p2}
    HostNonce = hostNonce
    ConfigBytes = {config1, config2, undecodable}
    WellFormed = {config1, config2}
    FrameBytes = 2
    None = None
INVARIANTS Agreement OneKeystorePerCeremony ServedIsHandedOut
PROPERTIES ConnectedEnds
CHECK_DEADLOCK FALSE
