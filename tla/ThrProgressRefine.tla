------------------------- MODULE ThrProgressRefine --------------------------
(***************************************************************************)
(* Thread progress implements GraceService: the operations are those that  *)
(* called erts_thr_progress_later and have not seen has_reached yet.       *)
(***************************************************************************)
EXTENDS ThrProgressInv

Grace ==
    INSTANCE GraceService WITH
        busy <- Busy,
        running <- {t \in Thread : later[t] # NONE},
        owed <- pend

\* The leader's protocol (update, leader_update, prepare_wait, finalize_wait and
\* unmanaged_delay) gives what the users of later and has_reached rely on: an
\* operation ends only after every thread that was busy when it began has
\* passed a quiescent point.
GraceServiceSpec == Grace!Spec
=============================================================================
