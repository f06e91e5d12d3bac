SPECIFICATION Spec
CONSTANTS
    Procs = {p1, p2, p3}
    Names = {n1, n2}
    Name <- TwoShare
    Nobody = Nobody
INVARIANTS RefusalJustified KeysAccounted OwnIntact
