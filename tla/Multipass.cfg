SPECIFICATION Spec
CONSTANTS
    Pids = {p1, p2}
    User = u
INVARIANTS RefusalJustified OwnMachine
PROPERTY LiveSpared
