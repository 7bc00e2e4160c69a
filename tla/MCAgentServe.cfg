CONSTANTS
    Peers = {"h", "p", "q"}
    Honest = "h"
    Nobody = "nobody"
    Purpose <- MCPurpose
    IdleTimeout = 2
    Pieces = 1
    Writes = 1
    Budget = 1
    MaxGood = 2
    MaxFaults = 2
SPECIFICATION Spec
INVARIANTS RefusedOnlyUnheard
PROPERTIES EveryPeerReached HonestClientDone
