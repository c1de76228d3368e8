------------------------------- MODULE CodeIx -------------------------------
(***************************************************************************)
(* Code indices (beam/code_ix.c): the tables through which code is found   *)
(* exist three times.  Schedulers use the active set without locks or      *)
(* memory barriers, while a process with code load permission (see         *)
(* CodePermission) changes the staging set and then commits it: after code *)
(* barriers and thread progress (staging_epilogue of beam_bif_load.c), or  *)
(* with thread progress blocked when tracing requires it.                  *)
(*                                                                         *)
(* Of thread progress the module uses what GraceService promises: one      *)
(* instance for the operation that commits, one for the operation that     *)
(* ends a blocking code barrier.                                           *)
(*                                                                         *)
(* Memory is weak: mem[s] is what scheduler s sees of the shared memory,   *)
(* any part of which may be old until s executes a memory barrier.         *)
(***************************************************************************)
EXTENDS Naturals, FiniteSets

CONSTANTS
    Scheduler,
    Sleeper,        \* the schedulers that may go to sleep
    Blocking,       \* BOOLEAN values: whether a load blocks thread progress
    MaxLoads,       \* bound: loads that are started
    NONE

ASSUME CodeIxAssumption ==
    /\ Sleeper \subseteq Scheduler
    /\ Blocking \subseteq BOOLEAN
    /\ MaxLoads \in Nat
    /\ NONE \notin Scheduler /\ NONE \notin Nat

\* Mutant: no third set.
TwoCodeIx == 2

NumCodeIx == 3
Ix == 0 .. NumCodeIx - 1

\* Mutant: the staging index does not go round.
NextIxUp(ix) == ix + 1

NextIx(ix) == (ix + 1) % NumCodeIx

VARIABLES
    active,         \* the_active_code_index
    staging,        \* the_staging_code_index
    tab,            \* tab[ix]: which load wrote the tables of ix last
    blocked,        \* the loads that were committed with thread progress blocked
    loads,          \* number of loads started
    phase,          \* of the process that has code load permission
    loader,         \* the scheduler it runs on
    blocks,         \* whether it blocks thread progress
    pending,        \* barrier->pending_schedulers
    outstanding,    \* outstanding_blocking_code_barriers
    mem,            \* what each scheduler sees of active and tab
    use,            \* use[s]: the index s has read and still uses, or NONE
    ibar,           \* ibar[s]: s executed an instruction barrier since that load
    missed,         \* history: the blocking loads whose barriers ended as s slept
    parked,         \* schedulers in block_thread
    busy,           \* schedulers that are not asleep
    commits, commitOwed,    \* operations commit_code_ix
    decs, decOwed           \* operations decrement_blocking_code_barriers

Commit == INSTANCE GraceService WITH
              Thread <- Scheduler, running <- commits, owed <- commitOwed
Dec == INSTANCE GraceService WITH
              Thread <- Scheduler, running <- decs, owed <- decOwed

codeVars == <<active, staging, tab, blocked>>
loadVars == <<loads, phase, loader, blocks, pending>>
opVars == <<commits, commitOwed, decs, decOwed>>
vars == <<codeVars, loadVars, outstanding, mem, use, ibar, missed, parked, busy, opVars>>

Init ==
    /\ active = 0
    /\ staging = 1
    /\ tab = [ix \in Ix |-> 0]
    /\ blocked = {}
    /\ loads = 0
    /\ phase = "idle"
    /\ loader = NONE
    /\ blocks = FALSE
    /\ pending = {}
    /\ outstanding = 0
    /\ mem = [s \in Scheduler |-> [active |-> 0, tab |-> tab]]
    /\ use = [s \in Scheduler |-> NONE]
    /\ ibar = [s \in Scheduler |-> 0]
    /\ missed = [s \in Scheduler |-> {}]
    /\ parked = {}
    /\ busy = Scheduler
    /\ Commit!Init
    /\ Dec!Init

-----------------------------------------------------------------------------
(* Schedulers                                                              *)

\* s executes processes: not asleep, not parked, and not in the load's BIF
Runs(s) == s \in busy \ parked /\ (phase \in {"staging", "block"} => s # loader)

Shared == [active |-> active, tab |-> tab]

\* erts_active_code_ix
Read(s) ==
    /\ Runs(s)
    /\ use[s] = NONE
    /\ use' = [use EXCEPT ![s] = mem[s].active]
    /\ UNCHANGED <<missed, codeVars, loadVars, outstanding, mem, ibar, parked, busy, opVars>>

\* A part of memory becomes visible to s.
SeeActive(s) ==
    /\ mem' = [mem EXCEPT ![s].active = active]
    /\ UNCHANGED <<missed, codeVars, loadVars, outstanding, use, ibar, parked, busy, opVars>>

SeeTable(s, ix) ==
    /\ mem' = [mem EXCEPT ![s].tab[ix] = tab[ix]]
    /\ UNCHANGED <<missed, codeVars, loadVars, outstanding, use, ibar, parked, busy, opVars>>

\* The process on s is scheduled out; thread progress is updated, which is a
\* full memory barrier.
Quiesce(s) ==
    /\ Runs(s)
    /\ Commit!Quiesce(s) /\ Dec!Quiesce(s)
    /\ use' = [use EXCEPT ![s] = NONE]
    /\ mem' = [mem EXCEPT ![s] = Shared]
    /\ UNCHANGED <<missed, codeVars, loadVars, outstanding, ibar, parked>>

Pass(s) == Quiesce(s) /\ busy' = busy

\* handle_thr_prgr_later_op: s has an operation whose value has been reached.
Reached(s) ==
    \/ s \in commits /\ commitOwed[s] = {}
    \/ s \in decs /\ decOwed[s] = {}

\* A scheduler with aux work to do does not go to sleep, but one whose
\* operation still waits for thread progress does: it has asked to be woken.
Sleep(s) ==
    /\ s \in Sleeper
    /\ s \notin pending
    /\ ~Reached(s)
    /\ Quiesce(s) /\ busy' = busy \ {s}

\* The last load whose code is complete: not one that is still staged
Written == IF phase = "staging" THEN loads - 1 ELSE loads

\* erts_code_ix_finalize_wait
FinalizeWait(s) ==
    ibar' = IF outstanding # 0 THEN [ibar EXCEPT ![s] = Written] ELSE ibar

\* erts_thr_progress_finalize_wait: when progress is blocked, s parks.
Wake(s) ==
    /\ s \in Scheduler \ busy
    /\ Commit!Enter(s) /\ Dec!Enter(s)
    /\ mem' = [mem EXCEPT ![s] = Shared]
    /\ IF phase = "block"
       THEN parked' = parked \cup {s} /\ UNCHANGED ibar
       ELSE FinalizeWait(s) /\ UNCHANGED parked
    /\ UNCHANGED <<missed, codeVars, loadVars, outstanding, use>>

\* block_thread
Park(s) ==
    /\ phase = "block"
    /\ Runs(s)
    /\ parked' = parked \cup {s}
    /\ use' = [use EXCEPT ![s] = NONE]
    /\ UNCHANGED <<missed, codeVars, loadVars, outstanding, mem, ibar, busy, opVars>>

Unpark(s) ==
    /\ phase # "block"
    /\ s \in parked
    /\ parked' = parked \ {s}
    /\ mem' = [mem EXCEPT ![s] = Shared]
    /\ FinalizeWait(s)
    /\ UNCHANGED <<missed, codeVars, loadVars, outstanding, use, busy, opVars>>

-----------------------------------------------------------------------------
(* Loading                                                                 *)

\* erts_start_staging_code_ix, and changes to the staging tables, in a BIF:
\* nothing that s read for an earlier BIF is in use.
StartStaging(s, b) ==
    /\ phase = "idle"
    /\ loads < MaxLoads
    /\ Runs(s)
    /\ phase' = "staging"
    /\ loads' = loads + 1
    /\ loader' = s
    /\ blocks' = b
    /\ tab' = [tab EXCEPT ![staging] = loads + 1]
    /\ mem' = [mem EXCEPT ![s].tab[staging] = loads + 1]
    /\ use' = [use EXCEPT ![s] = NONE]
    /\ UNCHANGED <<missed, active, staging, blocked, pending, outstanding, ibar, parked, busy, opVars>>

\* staging_epilogue without commit
AbortStaging(s) ==
    /\ phase = "staging"
    /\ s = loader
    /\ phase' = "idle"
    /\ UNCHANGED <<missed, codeVars, loads, loader, blocks, pending, outstanding, mem, use, ibar,
                   parked, busy, opVars>>

\* Mutant: one scheduler too many is counted.
IssueBarrierOff(s, todo) ==
    /\ ibar' = [ibar EXCEPT ![s] = loads]
    /\ pending' = todo
    /\ UNCHANGED <<busy, commits, commitOwed>>

\* issue_instruction_barrier by s, the schedulers of todo being left: the last
\* one schedules the operation that commits.
IssueBarrier(s, todo) ==
    /\ ibar' = [ibar EXCEPT ![s] = loads]
    /\ pending' = todo
    /\ IF todo = {} THEN Commit!Start(s) ELSE UNCHANGED <<busy, commits, commitOwed>>

\* erts_end_staging_code_ix and erts_schedule_code_barrier
EndStaging(s) ==
    /\ phase = "staging" /\ ~blocks
    /\ s = loader
    /\ phase' = "barrier"
    /\ IssueBarrier(s, Scheduler \ {s})
    /\ UNCHANGED <<missed, codeVars, loads, loader, blocks, outstanding, mem, use, parked, decs, decOwed>>

\* Aux work of s, done when no process runs on s
CodeBarrier(s) ==
    /\ phase = "barrier"
    /\ s \in pending
    /\ Runs(s)
    /\ IssueBarrier(s, pending \ {s})
    /\ use' = [use EXCEPT ![s] = NONE]
    /\ UNCHANGED <<missed, codeVars, loads, phase, loader, blocks, outstanding, mem, parked, decs, decOwed>>

\* erts_commit_staging_code_ix, by scheduler s
CommitStaging(s) ==
    /\ active' = staging
    /\ staging' = NextIx(staging)
    /\ mem' = [mem EXCEPT ![s].active = staging]

\* Mutant: thread progress is not waited for.
CommitEarly(s) ==
    /\ s \in commits
    /\ Runs(s)
    /\ CommitStaging(s)
    /\ commits' = commits \ {s}
    /\ commitOwed' = [commitOwed EXCEPT ![s] = {}]
    /\ phase' = "idle"
    /\ use' = [use EXCEPT ![s] = NONE]
    /\ UNCHANGED <<missed, tab, blocked, loads, loader, blocks, pending, outstanding, ibar, parked,
                   busy, decs, decOwed>>

\* commit_code_ix, which releases the permission and resumes the loader
CommitCodeIx(s) ==
    /\ Runs(s)
    /\ Commit!Complete(s)
    /\ CommitStaging(s)
    /\ phase' = "idle"
    /\ use' = [use EXCEPT ![s] = NONE]
    /\ UNCHANGED <<missed, tab, blocked, loads, loader, blocks, pending, outstanding, ibar, parked,
                   decs, decOwed>>

\* erts_thr_progress_block is called ...
Block(s) ==
    /\ phase = "staging" /\ blocks
    /\ s = loader
    /\ phase' = "block"
    /\ UNCHANGED <<missed, codeVars, loads, loader, blocks, pending, outstanding, mem, use, ibar,
                   parked, busy, opVars>>

\* The first barrier schedules the operation that ends it.
StartDec(s, n) == IF n = 1 THEN Dec!Start(s) ELSE UNCHANGED <<decs, decOwed>>

\* ... and has returned: commit, erts_blocking_code_barrier, unblock
BlockingCommit(s) ==
    /\ phase = "block"
    /\ s = loader
    /\ busy \ {s} \subseteq parked
    /\ CommitStaging(s)
    /\ blocked' = blocked \cup {loads}
    /\ ibar' = [ibar EXCEPT ![s] = loads]
    /\ outstanding' = outstanding + 1
    /\ StartDec(s, outstanding + 1)
    /\ phase' = "idle"
    /\ UNCHANGED <<missed, tab, loads, loader, blocks, pending, use, parked, busy, commits, commitOwed>>

\* No barrier is outstanding any more, and who sleeps has executed none for
\* some loads.
Miss ==
    missed' = [s \in Scheduler |->
                   IF s \in busy THEN missed[s] ELSE {l \in blocked : ibar[s] < l}]

\* Mutant: one barrier ends all.
DecrementAll(s) ==
    /\ Runs(s)
    /\ Dec!Complete(s)
    /\ outstanding' = 0
    /\ Miss
    /\ use' = [use EXCEPT ![s] = NONE]
    /\ UNCHANGED <<codeVars, loadVars, mem, ibar, parked, commits, commitOwed>>

\* Mutant: the operation is not scheduled again.
DecrementOnce(s) ==
    /\ Runs(s)
    /\ Dec!Complete(s)
    /\ outstanding' = IF outstanding > 1 THEN 1 ELSE 0
    /\ missed' = missed
    /\ use' = [use EXCEPT ![s] = NONE]
    /\ UNCHANGED <<codeVars, loadVars, mem, ibar, parked, commits, commitOwed>>

\* decrement_blocking_code_barriers: when there was more than one barrier the
\* operation is scheduled once more.
Decrement(s) ==
    /\ Runs(s)
    /\ s \in decs
    /\ IF outstanding > 1
       THEN /\ decOwed[s] = {}
            /\ outstanding' = 1
            /\ decOwed' = [decOwed EXCEPT ![s] = busy]
            /\ UNCHANGED <<decs, busy, missed>>
       ELSE /\ Dec!Complete(s)
            /\ outstanding' = 0
            /\ Miss
    /\ use' = [use EXCEPT ![s] = NONE]
    /\ UNCHANGED <<codeVars, loadVars, mem, ibar, parked, commits, commitOwed>>

-----------------------------------------------------------------------------
Step(s) ==
    \/ Pass(s) \/ Park(s) \/ Unpark(s)
    \/ AbortStaging(s) \/ EndStaging(s) \/ CodeBarrier(s) \/ CommitCodeIx(s)
    \/ Block(s) \/ BlockingCommit(s) \/ Decrement(s)

Next ==
    \E s \in Scheduler :
        \/ Step(s)
        \/ Read(s) \/ Sleep(s) \/ Wake(s)
        \/ SeeActive(s)
        \/ \E ix \in Ix : SeeTable(s, ix)
        \/ \E b \in Blocking : StartStaging(s, b)

Spec == Init /\ [][Next]_vars

\* Every scheduler goes on scheduling, does the aux work it is given, for which
\* it is woken, and finishes the BIF it is in.  It is woken too when the value of
\* its operation has been reached, which is what erts_thr_progress_wakeup is for:
\* ThrProgress!RequestServed, and an assumption where a thread delays progress.
FairSpec ==
    /\ Spec
    /\ \A s \in Scheduler :
           /\ WF_vars(Pass(s))
           /\ WF_vars(Park(s))
           /\ WF_vars(Unpark(s))
           /\ WF_vars((s \in pending \/ Reached(s)) /\ Wake(s))
           /\ WF_vars(CodeBarrier(s))
           /\ WF_vars(CommitCodeIx(s))
           /\ WF_vars(Decrement(s))
           /\ WF_vars(AbortStaging(s) \/ EndStaging(s) \/ Block(s))
           /\ WF_vars(BlockingCommit(s))

-----------------------------------------------------------------------------
(* Properties                                                              *)

TypeOK ==
    /\ active \in Ix /\ staging \in Ix
    /\ tab \in [Ix -> Nat]
    /\ loads \in Nat /\ outstanding \in Nat /\ blocked \subseteq Nat
    /\ phase \in {"idle", "staging", "barrier", "block"}
    /\ loader \in Scheduler \cup {NONE}
    /\ blocks \in BOOLEAN
    /\ pending \subseteq Scheduler /\ parked \subseteq Scheduler
    /\ busy \subseteq Scheduler /\ commits \subseteq Scheduler /\ decs \subseteq Scheduler
    /\ mem \in [Scheduler -> [active : Ix, tab : [Ix -> Nat]]]
    /\ use \in [Scheduler -> Ix \cup {NONE}]
    /\ ibar \in [Scheduler -> Nat]
    /\ missed \in [Scheduler -> SUBSET Nat]
    /\ commitOwed \in [Scheduler -> SUBSET Scheduler]
    /\ decOwed \in [Scheduler -> SUBSET Scheduler]

Third == NextIx(staging)

\* Schedulers that can read the active index, now or when they wake from it
Using == busy \ parked

\* s executed an instruction barrier for the code of ix, or slept until the load's
\* blocking barrier had ended.
Issued(s, ix) == tab[ix] \in missed[s] \/ ibar[s] >= tab[ix]

\* s sleeps, and will execute one if it wakes now.
WillIssue(s, ix) == s \notin busy /\ outstanding > 0 /\ tab[ix] \in blocked

\* The three sets: the staging one is not seen by any scheduler, the other two
\* are seen in full.
IndexInv ==
    /\ staging = NextIx(active)
    /\ parked \subseteq busy
    /\ \A s \in Scheduler : use[s] # NONE => s \in Using /\ use[s] # staging
    /\ \A s \in Using : mem[s].active # staging
    /\ \A s \in Using, ix \in Ix \ {staging} : mem[s].tab[ix] = tab[ix]

\* The load in progress, and the scheduler it runs on
LoadInv ==
    /\ \A ix \in Ix : tab[ix] <= loads
    /\ phase # "idle" =>
           /\ tab[staging] = loads
           /\ \A ix \in Ix \ {staging} : tab[ix] < loads
    /\ phase \in {"staging", "block"} =>
           /\ loader \in Using
           /\ use[loader] = NONE
           /\ mem[loader].tab[staging] = tab[staging]

\* One commit waits, for every scheduler that may see the third set or may not
\* see all of the staging set.
CommitInv ==
    /\ commits # {} => phase = "barrier" /\ pending = {}
    /\ \A c, d \in commits : c = d
    /\ \A c \in commits : \A s \in Using \ commitOwed[c] :
           /\ mem[s].active # Third /\ use[s] # Third
           /\ mem[s].tab[staging] = tab[staging]

\* Instruction barriers: a parked scheduler will still find the count of
\* blocking barriers above zero.
BarrierInv ==
    /\ \A s \in Scheduler : ibar[s] <= Written /\ missed[s] \subseteq blocked
    /\ phase = "barrier" => \A s \in Scheduler \ pending : ibar[s] = loads
    /\ \A s \in Scheduler \ parked, ix \in Ix \ {staging} : Issued(s, ix) \/ WillIssue(s, ix)
    /\ phase # "block" => \A s \in parked :
           outstanding > 1 \/ \E d \in decs : s \in decOwed[d]

\* One operation ends blocking barriers.
DecInv ==
    /\ \A c, d \in decs : c = d
    /\ outstanding > 0 <=> decs # {}

\* The inductive invariant behind the properties below: what commit_code_ix
\* and a blocked commit rely on when they make the staging set active.
IndInv == IndexInv /\ LoadInv /\ CommitInv /\ BarrierInv /\ DecInv

\* While the staging tables are changed no scheduler uses them, not even one
\* that read the active index long ago: what three sets are for.
StagingUnused ==
    \A s \in Scheduler : phase # "idle" => use[s] # staging

\* A scheduler sees all of the tables that it uses, without having executed a
\* memory barrier of its own: staging_epilogue waits for thread progress.
UsesComplete ==
    \A s \in Scheduler : use[s] # NONE => mem[s].tab[use[s]] = tab[use[s]]

\* A scheduler that uses an index has executed an instruction barrier since the
\* code found through it was written: as aux work, or when it was unblocked or
\* woken while a blocking barrier was outstanding.  The exception: it slept from
\* before the blocking commit until its barrier had ended, and found the count at
\* zero (erts_code_ix_finalize_wait).
BarrierIssued ==
    \A s \in Scheduler :
        use[s] # NONE /\ tab[use[s]] \notin missed[s] => ibar[s] >= tab[use[s]]

\* The operation that ends blocking barriers, which has one global record, is
\* never scheduled while it is scheduled already, and is scheduled as long as a
\* barrier is outstanding.
DecScheduledOnce ==
    /\ Cardinality(decs) <= 1
    /\ outstanding > 0 <=> decs # {}

\* Who stages code is done in the end, and blocking barriers end.
LoadReturns == phase = "staging" ~> phase = "idle"
BarrierEnds == outstanding > 0 ~> outstanding = 0
=============================================================================
