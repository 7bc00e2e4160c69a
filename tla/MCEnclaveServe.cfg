SPECIFICATION ServeSpec
SYMMETRY Symmetry
CONSTANTS
    Conns = {c1, c2, c3}
    Nobody = Nobody
    Garbage = {c1}
    MaxSessions = 2
    IdleTimeout = 1
    Heights = {1, 2, 3}
    MaxSigned = 2
    MaxBoots = 2
INVARIANTS SlotsAccounted OneForkPerProof
PROPERTIES PoisonStopsService
