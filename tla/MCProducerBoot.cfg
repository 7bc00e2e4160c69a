CONSTANTS
    k1 = k1
    k2 = k2
    p1 = p1
    p2 = p2
    Procs = {p1, p2}
    Builds = {"release", "lab", "debug"}
    Pids = {"q1"}
    Keys = {k1, k2}
    Labels = {"a", "b"}
    Roots = {"own", "other"}
    Own = "own"
    Image = "image"
    Meas = {"image"}
    MaxSeals = 2
    MaxFaults = 2
SYMMETRY Symmetry
SPECIFICATION Spec
INVARIANTS AttestedKeyServed FetchUndisturbed ManifestUsable
CHECK_DEADLOCK FALSE
