--------------------------- MODULE CodePermission ---------------------------
(***************************************************************************)
(* The code permissions of the run-time system (beam/code_ix.c): staging   *)
(* permission, needed to load or purge code, and modification permission,  *)
(* needed to trace or set breakpoints.  Code loading needs both.           *)
(*                                                                         *)
(* A permission that is released is handed over to the first waiter that   *)
(* can take it.  A process finds out by a flag in its xstate, when it has  *)
(* been resumed and tries again; an aux job is scheduled again.  A process *)
(* that exits or collects garbage rejects what it was handed.              *)
(*                                                                         *)
(* A critical section of a permission's lock is one step: it takes no      *)
(* other permission, and what it reads of a waiting process is read, and   *)
(* changed, atomically.                                                    *)
(***************************************************************************)
EXTENDS Naturals, Sequences, FiniteSets

CONSTANTS
    Proc,           \* processes
    Purger,         \* erts_code_purger, if it runs
    Aux,            \* aux jobs
    Wants,          \* what processes ask for
    MaxGc,          \* bound: garbage collections of waiting processes
    NONE

Actor == Proc \cup Aux
Kind == {"stage", "mod"}

ASSUME ActorAssumption ==
    /\ Proc \cap Aux = {}
    /\ NONE \notin Actor
    /\ Purger \subseteq Proc /\ \A p, q \in Purger : p = q
    /\ Wants \subseteq {"stage", "mod", "load"}
    /\ MaxGc \in Nat

VARIABLES
    owner,          \* perm->owner or the owner's aux job; NONE: not seized
    queue,          \* perm->first ...
    flag,           \* handover flags in xstate
    susp,           \* suspended by try_seize_code_permission
    exiting,
    want,           \* which erts_try_seize function a process calls
    kept,           \* the purger keeps stage permission (fe_count > 0)
    gcs,            \* garbage collections so far
    pc

permVars == <<owner, queue>>
vars == <<owner, queue, flag, susp, exiting, want, kept, gcs, pc>>

Init ==
    /\ owner = [k \in Kind |-> NONE]
    /\ queue = [k \in Kind |-> <<>>]
    /\ flag = [p \in Proc |-> {}]
    /\ susp = [p \in Proc |-> FALSE]
    /\ exiting = [p \in Proc |-> FALSE]
    /\ want = [p \in Proc |-> "mod"]
    /\ kept = [p \in Proc |-> FALSE]
    /\ gcs = 0
    /\ pc = [a \in Actor |-> "idle"]

Goto(a, l) == pc' = [pc EXCEPT ![a] = l]

-----------------------------------------------------------------------------
(* try_seize_code_permission by process p.  Won and Failed are the labels  *)
(* it continues at.                                                        *)

\* Mutant: the flag is not cleared.
TakeHandoverOnly(p, k, won) ==
    /\ k \in flag[p]
    /\ Goto(p, won)
    /\ UNCHANGED <<permVars, susp, flag>>

\* The flag says that the permission was handed over.
TakeHandover(p, k, won) ==
    /\ k \in flag[p]
    /\ flag' = [flag EXCEPT ![p] = @ \ {k}]
    /\ Goto(p, won)
    /\ UNCHANGED <<permVars, susp>>

\* Mutant: whether the permission is seized is not looked at.
SeizeAnyway(p, k, won) ==
    /\ k \notin flag[p]
    /\ owner' = [owner EXCEPT ![k] = p]
    /\ Goto(p, won)
    /\ UNCHANGED <<queue, flag, susp>>

Seize(p, k, won) ==
    /\ k \notin flag[p]
    /\ owner[k] = NONE
    /\ owner' = [owner EXCEPT ![k] = p]
    /\ Goto(p, won)
    /\ UNCHANGED <<queue, flag, susp>>

Enqueue(p, k, failed) ==
    /\ k \notin flag[p]
    /\ owner[k] # NONE
    /\ queue' = [queue EXCEPT ![k] = Append(@, p)]
    /\ susp' = [susp EXCEPT ![p] = TRUE]
    /\ Goto(p, failed)
    /\ UNCHANGED <<owner, flag>>

TrySeize(p, k, won, failed) ==
    /\ TakeHandover(p, k, won) \/ Seize(p, k, won) \/ Enqueue(p, k, failed)
    /\ UNCHANGED <<exiting, want, kept, gcs>>

-----------------------------------------------------------------------------
(* release_code_permission; pc1 is pc with the releaser moved on.          *)

\* Waiting processes that exit or collect garbage are passed over.
RejectPc == {"reject", "clearMod", "clearStage"}
Eligible(a) ==
    IF a \in Aux THEN TRUE ELSE ~exiting[a] /\ pc[a] \notin RejectPc \cup {"gc"}

\* Mutants: the first waiter is treated as aux work; a waiter that is passed
\* over is not resumed.
ReleaseAsAux(k, pc1) ==
    LET next == IF queue[k] = <<>> THEN NONE ELSE Head(queue[k])
    IN  /\ owner' = [owner EXCEPT ![k] = next]
        /\ queue' = [queue EXCEPT ![k] = SubSeq(@, 2, Len(@))]
        /\ pc' = [a \in Actor |-> IF a = next THEN "scheduled" ELSE pc1[a]]
        /\ UNCHANGED <<flag, susp>>

ReleaseOne(k, pc1) ==
    \E i \in 1 .. Len(queue[k]) + 1 :
        LET next == IF i <= Len(queue[k]) THEN queue[k][i] ELSE NONE
        IN  /\ \A j \in 1 .. i - 1 : ~Eligible(queue[k][j])
            /\ next # NONE => Eligible(next)
            /\ owner' = [owner EXCEPT ![k] = next]
            /\ queue' = [queue EXCEPT ![k] = SubSeq(@, i + 1, Len(@))]
            /\ flag' = [p \in Proc |-> IF p = next THEN flag[p] \cup {k} ELSE flag[p]]
            /\ susp' = [p \in Proc |-> susp[p] /\ p # next]
            /\ pc' = [a \in Actor |-> IF a \in Aux /\ a = next THEN "scheduled" ELSE pc1[a]]

\* Entry i of the queue is the first one eligible, if there is one.
Release(k, pc1) ==
    \E i \in 1 .. Len(queue[k]) + 1 :
        LET next == IF i <= Len(queue[k]) THEN queue[k][i] ELSE NONE
        IN  /\ \A j \in 1 .. i - 1 : ~Eligible(queue[k][j])
            /\ next # NONE => Eligible(next)
            /\ owner' = [owner EXCEPT ![k] = next]
            /\ queue' = [queue EXCEPT ![k] = SubSeq(@, i + 1, Len(@))]
            /\ flag' = [p \in Proc |-> IF p = next THEN flag[p] \cup {k} ELSE flag[p]]
            /\ susp' = [p \in Proc |->
                   /\ susp[p]
                   /\ exiting[p] \/ \A j \in 1 .. Len(queue[k]) : j <= i => queue[k][j] # p]
            /\ pc' = [a \in Actor |-> IF a \in Aux /\ a = next THEN "scheduled" ELSE pc1[a]]

ReleaseTo(p, k, l) == Release(k, [pc EXCEPT ![p] = l])

-----------------------------------------------------------------------------
(* A process that calls a BIF which needs permissions                      *)

Request(p) ==
    /\ pc[p] = "idle"
    /\ \E w \in Wants : want' = [want EXCEPT ![p] = IF p \in Purger THEN "stage" ELSE w]
    /\ Goto(p, "try")
    /\ UNCHANGED <<permVars, flag, susp, exiting, kept, gcs>>

\* erts_try_seize_code_{mod,stage,load}_permission
Try(p) ==
    /\ pc[p] = "try"
    /\ \/ want[p] = "mod" /\ TrySeize(p, "mod", "holds", "wait")
       \/ want[p] = "stage" /\ TrySeize(p, "stage", "holds", "wait")
       \/ want[p] = "load" /\ TrySeize(p, "stage", "tryMod", "wait")

TryMod(p) ==
    /\ pc[p] = "tryMod"
    /\ TrySeize(p, "mod", "holds", "backout")

\* Mutant: the stage permission is kept.
BackOutKeeps(p) ==
    /\ pc[p] = "backout"
    /\ Goto(p, "wait")
    /\ UNCHANGED <<permVars, flag, susp, exiting, want, kept, gcs>>

\* erts_try_seize_code_load_permission gives the stage permission back.
BackOut(p) ==
    /\ pc[p] = "backout"
    /\ ReleaseTo(p, "stage", "wait")
    /\ UNCHANGED <<exiting, want, kept, gcs>>

\* The process yielded; once resumed it calls the BIF again.
Retry(p) ==
    /\ pc[p] = "wait"
    /\ ~susp[p]
    /\ Goto(p, "try")
    /\ UNCHANGED <<permVars, flag, susp, exiting, want, kept, gcs>>

\* The operation is done, by the process or by an aux job it scheduled.
Done(p) ==
    /\ pc[p] = "holds"
    /\ p \notin Purger
    /\ \/ want[p] = "mod" /\ ReleaseTo(p, "mod", "idle")
       \/ want[p] = "stage" /\ ReleaseTo(p, "stage", "idle")
       \/ want[p] = "load" /\ ReleaseTo(p, "mod", "releaseStage")
    /\ UNCHANGED <<exiting, want, kept, gcs>>

\* erts_release_code_load_permission, its second half
ReleaseStage(p) ==
    /\ pc[p] = "releaseStage"
    /\ ReleaseTo(p, "stage", "idle")
    /\ kept' = [kept EXCEPT ![p] = FALSE]
    /\ UNCHANGED <<exiting, want, gcs>>

-----------------------------------------------------------------------------
(* erts_internal:purge_module/2, by the purger only                        *)

\* prepare: nothing to purge, or no funs to purge, or permission is kept.  The
\* purger makes its calls in order: that a call it does not make releases the
\* permission and raises badarg is left out.
Prepared(p) ==
    /\ pc[p] = "holds"
    /\ p \in Purger
    /\ want[p] = "stage"
    /\ \/ /\ ReleaseTo(p, "stage", "idle") \/ ReleaseTo(p, "stage", "purging")
          /\ UNCHANGED kept
       \/ /\ kept' = [kept EXCEPT ![p] = TRUE]
          /\ Goto(p, "purging")
          /\ UNCHANGED <<permVars, flag, susp>>
    /\ UNCHANGED <<exiting, want, gcs>>

\* abort
Abort(p) ==
    /\ pc[p] = "purging"
    /\ Goto(p, IF kept[p] THEN "releaseStage" ELSE "idle")
    /\ UNCHANGED <<permVars, flag, susp, exiting, want, kept, gcs>>

\* complete
Complete(p) ==
    /\ pc[p] = "purging"
    /\ want' = [want EXCEPT ![p] = "mod"]
    /\ Goto(p, "try")
    /\ UNCHANGED <<permVars, flag, susp, exiting, kept, gcs>>

Purged(p) ==
    /\ pc[p] = "holds"
    /\ p \in Purger
    /\ want[p] = "mod"
    /\ ReleaseTo(p, "mod", IF kept[p] THEN "releaseStage" ELSE "idle")
    /\ UNCHANGED <<exiting, want, kept, gcs>>

-----------------------------------------------------------------------------
(* Garbage collection and exit of a process that waits to try again        *)

\* set_proc_state_gc: sets the flag and reads the handover flags at once
StartGc(p) ==
    /\ pc[p] = "wait"
    /\ gcs < MaxGc
    /\ gcs' = gcs + 1
    /\ Goto(p, IF flag[p] = {} THEN "gc" ELSE "reject")
    /\ UNCHANGED <<permVars, flag, susp, exiting, want, kept>>

EndGc(p) ==
    /\ pc[p] = "gc"
    /\ Goto(p, "wait")
    /\ UNCHANGED <<permVars, flag, susp, exiting, want, kept, gcs>>

\* Mutant: what was handed over is not rejected.
ExitKeeps(p) ==
    /\ pc[p] = "wait"
    /\ p \notin Purger
    /\ exiting' = [exiting EXCEPT ![p] = TRUE]
    /\ Goto(p, "dead")
    /\ UNCHANGED <<permVars, flag, susp, want, kept, gcs>>

\* erts_do_exit_process; the purger does not exit.  Who holds a permission is
\* in a BIF, or a loader suspended for its commit: when that one exits, the
\* commit still releases both permissions for it, as Done does, and an exit
\* that only the operation's end would see is left out.
Exit(p) ==
    /\ pc[p] = "wait"
    /\ p \notin Purger
    /\ exiting' = [exiting EXCEPT ![p] = TRUE]
    /\ Goto(p, "reject")
    /\ UNCHANGED <<permVars, flag, susp, want, kept, gcs>>

\* erts_reject_code_permissions: releases, then clears the flag
Reject(p) ==
    /\ pc[p] = "reject"
    /\ \/ "mod" \in flag[p] /\ ReleaseTo(p, "mod", "clearMod")
       \/ "mod" \notin flag[p] /\ "stage" \in flag[p] /\ ReleaseTo(p, "stage", "clearStage")
       \/ /\ flag[p] = {}
          /\ Goto(p, IF exiting[p] THEN "dead" ELSE "gc")
          /\ UNCHANGED <<permVars, flag, susp>>
    /\ UNCHANGED <<exiting, want, kept, gcs>>

Clear(p) ==
    /\ \/ pc[p] = "clearMod" /\ flag' = [flag EXCEPT ![p] = @ \ {"mod"}]
       \/ pc[p] = "clearStage" /\ flag' = [flag EXCEPT ![p] = @ \ {"stage"}]
    /\ Goto(p, "reject")
    /\ UNCHANGED <<permVars, susp, exiting, want, kept, gcs>>

-----------------------------------------------------------------------------
(* An aux job, which asks for modification permission only                 *)

Schedule(a) ==
    /\ pc[a] = "idle"
    /\ Goto(a, "scheduled")
    /\ UNCHANGED <<permVars, flag, susp, exiting, want, kept, gcs>>

\* Mutant: that the permission was handed over is not noticed.
TryAuxAgain(a) ==
    /\ pc[a] = "scheduled"
    /\ \/ /\ owner["mod"] = NONE
          /\ owner' = [owner EXCEPT !["mod"] = a]
          /\ Goto(a, "holds")
          /\ UNCHANGED queue
       \/ /\ owner["mod"] # NONE
          /\ queue' = [queue EXCEPT !["mod"] = Append(@, a)]
          /\ Goto(a, "wait")
          /\ UNCHANGED owner
    /\ UNCHANGED <<flag, susp, exiting, want, kept, gcs>>

\* try_seize_code_permission; it has the permission if it was handed over.
TryAux(a) ==
    /\ pc[a] = "scheduled"
    /\ \/ /\ owner["mod"] \in {NONE, a}
          /\ owner' = [owner EXCEPT !["mod"] = a]
          /\ Goto(a, "holds")
          /\ UNCHANGED queue
       \/ /\ owner["mod"] \notin {NONE, a}
          /\ queue' = [queue EXCEPT !["mod"] = Append(@, a)]
          /\ Goto(a, "wait")
          /\ UNCHANGED owner
    /\ UNCHANGED <<flag, susp, exiting, want, kept, gcs>>

\* The job ends by a release (really_close_dynlib).
DoneAux(a) ==
    /\ pc[a] = "holds"
    /\ ReleaseTo(a, "mod", "idle")
    /\ UNCHANGED <<exiting, want, kept, gcs>>

-----------------------------------------------------------------------------
\* What a process or an aux job does without being asked
Step(p) ==
    \/ Try(p) \/ TryMod(p) \/ BackOut(p) \/ Retry(p) \/ Done(p) \/ ReleaseStage(p)
    \/ Prepared(p) \/ Abort(p) \/ Complete(p) \/ Purged(p)
    \/ EndGc(p) \/ Reject(p) \/ Clear(p)
StepAux(a) == TryAux(a) \/ DoneAux(a)

Next ==
    \/ \E p \in Proc : Step(p) \/ Request(p) \/ StartGc(p) \/ Exit(p)
    \/ \E a \in Aux : StepAux(a) \/ Schedule(a)

Spec == Init /\ [][Next]_vars
FairSpec ==
    /\ Spec
    /\ \A p \in Proc : WF_vars(Step(p))
    /\ \A a \in Aux : WF_vars(StepAux(a))

-----------------------------------------------------------------------------
(* Properties                                                              *)

ProcPc == {"idle", "try", "tryMod", "backout", "wait", "holds", "releaseStage",
           "purging", "gc", "dead"} \cup RejectPc
AuxPc == {"idle", "scheduled", "wait", "holds"}

TypeOK ==
    /\ owner \in [Kind -> Actor \cup {NONE}]
    /\ queue \in [Kind -> Seq(Actor)]
    /\ flag \in [Proc -> SUBSET Kind]
    /\ susp \in [Proc -> BOOLEAN]
    /\ exiting \in [Proc -> BOOLEAN]
    /\ want \in [Proc -> {"stage", "mod", "load"}]
    /\ kept \in [Proc -> BOOLEAN]
    /\ gcs \in Nat
    /\ pc \in [Actor -> ProcPc \cup AuxPc]
    /\ \A p \in Proc : pc[p] \in ProcPc
    /\ \A a \in Aux : pc[a] \in AuxPc

\* The caller was told that it has the permission.
Has(a, k) ==
    IF a \in Aux THEN k = "mod" /\ pc[a] = "holds"
    ELSE \/ k = "mod" /\ pc[a] = "holds" /\ want[a] \in {"mod", "load"}
         \/ k = "stage" /\ pc[a] = "holds" /\ want[a] \in {"stage", "load"}
         \/ k = "stage" /\ pc[a] \in {"tryMod", "backout", "releaseStage"}
         \/ k = "stage" /\ kept[a]

Clearing(p, k) == pc[p] = (IF k = "mod" THEN "clearMod" ELSE "clearStage")

\* No two callers of erts_try_seize_* have the same permission, whatever was
\* handed over, rejected or released meanwhile.
Exclusive ==
    \A k \in Kind : \A a, b \in Actor : Has(a, k) /\ Has(b, k) => a = b

\* A process with a handover flag owns the permission, as the assertions in
\* try_seize_code_permission say, until it has rejected it.
HandedOver ==
    \A k \in Kind, p \in Proc : k \in flag[p] /\ ~Clearing(p, k) => owner[k] = p

\* A permission that is seized is in use, or on its way to a waiter which will
\* find it or reject it: it never stays with a process that exited.
NotLeaked ==
    \A k \in Kind : owner[k] # NONE =>
        \/ Has(owner[k], k)
        \/ owner[k] \in Proc /\ k \in flag[owner[k]] /\ pc[owner[k]] # "dead"
        \/ owner[k] \in Aux /\ pc[owner[k]] = "scheduled"

\* A waiter that nobody has resumed is in a queue, once, of a permission that
\* somebody else has: some release will find it.
Waiting(a) == IF a \in Aux THEN pc[a] = "wait" ELSE susp[a] /\ ~exiting[a]
InQueue(a, k) == \E i \in 1 .. Len(queue[k]) : queue[k][i] = a
NotForgotten ==
    \A a \in Actor : Waiting(a) =>
        \E k \in Kind : /\ InQueue(a, k) /\ owner[k] \notin {NONE, a}
                        /\ \A m \in Kind \ {k} : ~InQueue(a, m)

\* Nobody who has yielded waits for a permission of somebody who waits for one
\* of theirs.
Blocked(a, b) ==
    /\ Waiting(a) /\ pc[a] # "backout"
    /\ \E k \in Kind : owner[k] = b /\ InQueue(a, k)
NoCircularWait == \A a, b \in Actor : ~(Blocked(a, b) /\ Blocked(b, a))

\* The queues: who is in one is in it once, waits for a permission that is
\* somebody else's and that it asked for, and whoever waits is in one.
WaitPc == {"wait", "gc", "dead"} \cup RejectPc

QueueInv ==
    /\ \A k \in Kind : \A i, j \in 1 .. Len(queue[k]) : queue[k][i] = queue[k][j] => i = j
    /\ \A a \in Actor : ~(InQueue(a, "stage") /\ InQueue(a, "mod"))
    /\ \A a \in Actor, k \in Kind : InQueue(a, k) => owner[k] \notin {NONE, a}
    /\ \A a \in Aux, k \in Kind : InQueue(a, k) => k = "mod" /\ pc[a] = "wait"
    /\ \A p \in Proc, k \in Kind : InQueue(p, k) => susp[p] /\ want[p] \in {k, "load"}
    /\ \A p \in Proc : InQueue(p, "stage") => pc[p] # "backout"
    /\ \A p \in Proc : InQueue(p, "mod") => "stage" \notin flag[p]
    /\ \A p \in Proc : susp[p] => pc[p] \in WaitPc \cup {"backout"}
    /\ \A a \in Actor : Waiting(a) => \E k \in Kind : InQueue(a, k)

\* The owners: the record agrees with what callers were told.
OwnerInv ==
    /\ \A a \in Actor, k \in Kind : Has(a, k) => owner[k] = a
    /\ HandedOver
    /\ NotLeaked
    /\ \A p \in Proc, k \in Kind : Clearing(p, k) => owner[k] # p
    /\ owner["stage"] \notin Aux

\* The callers: where a process is with a flag set, with stage permission kept,
\* or exiting.
CallerInv ==
    \A p \in Proc :
        /\ "stage" \in flag[p] => /\ want[p] \in {"stage", "load"}
                                  /\ pc[p] \in {"wait", "try"} \cup RejectPc
        /\ "mod" \in flag[p] => /\ want[p] \in {"mod", "load"}
                                /\ pc[p] \in {"wait", "try", "tryMod", "backout"} \cup RejectPc
        /\ pc[p] \in {"tryMod", "backout"} => want[p] = "load"
        /\ kept[p] => /\ p \in Purger
                      /\ pc[p] \notin {"idle", "dead", "tryMod", "backout"}
                      /\ pc[p] \notin {"purging", "releaseStage"} => want[p] = "mod"
        /\ p \in Purger => want[p] # "load" /\ ~exiting[p]
        /\ exiting[p] => pc[p] \in RejectPc \cup {"dead"}
        /\ pc[p] = "dead" => exiting[p]

\* The inductive invariant behind the properties above: what makes it safe to
\* hand a permission over to a process that finds out later.
PermInv == QueueInv /\ OwnerInv /\ CallerInv

\* Who asks for a permission gets it, or exits.
Served ==
    \A p \in Proc : (pc[p] = "try") ~> (pc[p] = "holds" \/ exiting[p])
ServedAux == \A a \in Aux : (pc[a] = "scheduled") ~> (pc[a] = "holds")
=============================================================================
