SPECIFICATION Spec
CONSTANTS
    MaxOut = 3
    MaxErr = 1
INVARIANTS TypeOK LinesFaithful OutputWhole ErrorJustified
CHECK_DEADLOCK FALSE
