CONSTANTS
    Dumpers = {d1, d2}
    Files = {f1, f2, f3, f4, f5}
    MaxEntries = 2
    MaxCrashes = 1
    None = None
SPECIFICATION Spec
INVARIANTS TypeOK WholeUntilOverlap
PROPERTY SoloDumpRepairs
SYMMETRY FileSymmetry
CHECK_DEADLOCK FALSE
