SPECIFICATION FairSpec
CONSTANTS
    NONE = NONE
    Proc = {p1, p2}
    Purger = {}
    Aux = {a1}
    Wants = {"mod", "stage", "load"}
    MaxGc = 1
INVARIANTS
    NoCircularWait
PROPERTIES
    Served
    ServedAux
