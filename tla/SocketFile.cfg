SPECIFICATION FileSpec
CONSTANTS
    Procs = {p1, p2, p3}
SYMMETRY Symmetry
INVARIANTS
    ListenersAreReachable
PROPERTIES
    RegularFilesAreKept
