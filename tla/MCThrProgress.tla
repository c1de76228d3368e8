--------------------------- MODULE MCThrProgress ---------------------------
EXTENDS ThrProgressRefine

CONSTANT u1

OneWord == [u \in Unmanaged |-> 0]
=============================================================================
