SPECIFICATION Spec
CONSTANTS
    NONE = NONE
    Proc = {p1, p2, p3}
    Purger = {p3}
    Aux = {a1}
    Wants = {"mod", "stage", "load"}
    MaxGc = 2
SYMMETRY Symmetry
INVARIANTS
    TypeOK
    PermInv
    Exclusive
    HandedOver
    NotLeaked
    NotForgotten
