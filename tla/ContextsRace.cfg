SPECIFICATION Spec
CONSTANTS
    Procs = {p1, p2}
    Names = {n1}
    Name <- OneName
    Nobody = Nobody
INVARIANT LiveIntact
