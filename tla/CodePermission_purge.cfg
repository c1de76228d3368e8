SPECIFICATION Spec
CONSTANTS
    NONE = NONE
    Proc = {p1, p2, p3}
    Purger = {p3}
    Aux = {}
    Wants = {"mod", "stage", "load"}
    MaxGc = 0
INVARIANTS
    NoCircularWait
