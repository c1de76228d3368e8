---------------------------- MODULE GraceService ----------------------------
(***************************************************************************)
(* What thread progress promises to its users, without values, leaders or  *)
(* reference counts: an operation that is started waits for the threads    *)
(* that are busy then, and completes after each of them has passed a point *)
(* where it holds no reference to the shared structures (erl_thr_progress.c, *)
(* the comment at its top, and erts_thr_progress_later/has_reached in .h). *)
(***************************************************************************)
CONSTANT Thread

VARIABLES
    busy,      \* the threads that may use shared structures
    running,   \* the threads with an operation that waits
    owed       \* owed[t]: the threads that t's operation still waits for

vars == <<busy, running, owed>>

Init ==
    /\ busy \in SUBSET Thread
    /\ running = {}
    /\ owed = [t \in Thread |-> {}]

\* A thread begins to use shared structures.
Enter(s) ==
    /\ busy' = busy \cup {s}
    /\ UNCHANGED <<running, owed>>

\* A busy thread passes a quiescent point, and stays busy or not.
Quiesce(s) ==
    /\ busy' \in {busy, busy \ {s}}
    /\ owed' = [t \in Thread |-> owed[t] \ {s}]
    /\ UNCHANGED running

Start(t) ==
    /\ t \notin running
    /\ running' = running \cup {t}
    /\ owed' = [owed EXCEPT ![t] = busy]
    /\ UNCHANGED busy

\* An operation completes only when it waits for nobody.
Complete(t) ==
    /\ t \in running
    /\ owed[t] = {}
    /\ running' = running \ {t}
    /\ UNCHANGED <<busy, owed>>

Next == \E t \in Thread : Enter(t) \/ Quiesce(t) \/ Start(t) \/ Complete(t)

Spec == Init /\ [][Next]_vars
=============================================================================
