---------------------------- MODULE ThrProgress ----------------------------
(***************************************************************************)
(* The thread progress functionality of the runtime system:                *)
(* erts/emulator/beam/erl_thr_progress.c and .h.                           *)
(*                                                                         *)
(* A global counter, `current', is incremented by a leader once every      *)
(* managed thread has confirmed the next value (or sleeps) and every       *)
(* unmanaged thread that delayed progress has continued.  A step makes at  *)
(* most one access to memory that another thread may write at that point.  *)
(* Accesses are sequentially consistent: the explicit memory barriers of   *)
(* the code are taken to do what their comments say.  A local variable     *)
(* that will be written before it is read again is set to a default.       *)
(***************************************************************************)
EXTENDS Integers, FiniteSets

CONSTANTS
    NoManaged,    \* intrnl->managed.no: how many managed threads there are
    Unmanaged,    \* the unmanaged threads (or nested delays of one)
    Word,         \* Word[u]: the word of the low bitmap that holds u's bit
    DeepSleepers, \* managed threads registered with deep_sleeper (pollers)
    Quarter,      \* 2^62 in the code: a quarter of the range of a value
    MaxVal,       \* bound: the leader makes no progress past this value
    Sleepers,     \* the managed threads that may go to sleep
    Delayers,     \* the unmanaged threads that may delay thread progress
    Initiators,   \* the threads that start operations waiting for progress
    Requesters,   \* the initiators that ask to be woken by thread progress
    Blockers      \* the managed threads that may block all managed threads

Managed == 0 .. NoManaged - 1
Thread == Managed \cup Unmanaged
Words == {Word[u] : u \in Unmanaged}

VAL_WAITING == 4 * Quarter - 1
Val == 0 .. VAL_WAITING - 1
NONE == -1
WAKEUP_DATA_SIZE == 4
Slot == 0 .. WAKEUP_DATA_SIZE - 1

ASSUME ThreadAssumption ==
    /\ NoManaged \in Nat \ {0}
    /\ IsFiniteSet(Unmanaged)
    /\ Managed \cap Unmanaged = {}
    /\ \A u \in Unmanaged : u \in DOMAIN Word
    /\ DeepSleepers \subseteq Managed
    /\ Sleepers \subseteq Managed
    /\ Delayers \subseteq Unmanaged
    /\ Initiators \subseteq Thread
    /\ Requesters \subseteq Initiators
    /\ Blockers \subseteq Managed
    /\ DeepSleepers \cap Initiators = {}
    /\ DeepSleepers # {} => NoManaged > 1

ASSUME ValueAssumption == Quarter \in Nat \ {0, 1} /\ MaxVal \in Nat

VARIABLES
    current,      \* erts_thr_prgr__.current
    thr,          \* intrnl->thr[].data.current
    confirmed,    \* tpd->confirmed
    leader,       \* tpd->leader
    active,       \* tpd->active
    lflgs,        \* intrnl->misc.data.lflgs
    lcur,         \* tpd->leader_state.current (next is always its successor)
    lchk,         \* tpd->leader_state.chk_next_ix
    lwait,        \* tpd->leader_state.umrefc_ix.waiting
    wum,          \* leader_update's local waiting_unmanaged
    umix,         \* intrnl->misc.data.umrefc_ix.current
    miscWait,     \* intrnl->misc.data.umrefc_ix.waiting
    umrefc,       \* intrnl->umrefc[].refc
    managedCount, \* intrnl->misc.data.managed_count
    blockCount,   \* intrnl->misc.data.block_count, without the flag
    notBlocking,  \* its flag ERTS_THR_PRGR_BC_FLG_NOT_BLOCKING
    blockerEvent, \* intrnl->misc.data.blocker_event
    evSet,        \* the blocker's event has been set
    sleeping,     \* ERTS_SSI_FLG_SLEEPING of the managed threads
    mlen, mid,    \* intrnl->managed.data[]: len and id[]
    mreq,         \* tpd->wakeup_request[] of the managed threads
    ulen, uhigh, ulow, \* intrnl->unmanaged.data[]: len, high[] and low[]
    ureq,         \* tpd->wakeup_request[] of the unmanaged threads
    hw,           \* handle_wakeup_requests' locals: len and hmask
    pc, uret, bret, \* where a managed thread is, and its return addresses
    val, ix,      \* its locals: a value read, and a loop index
    upc, uix, utmp, \* the same for the unmanaged threads; the delay handle
    woken,        \* the event of an unmanaged thread has been set
    later,        \* the value a thread's operation waits for, or NONE
    pend          \* history: threads not yet quiescent since it was started

valueVars == <<current, thr, confirmed>>
leaderVars == <<leader, lcur, lchk, lwait, wum>>
umVars == <<umix, miscWait, umrefc>>
blockVars == <<blockCount, notBlocking, blockerEvent, evSet>>
wakeVars == <<mlen, mid, mreq, ulen, uhigh, ulow, ureq, hw>>
localVars == <<uret, bret, val, ix>>
unmanagedVars == <<upc, uix, utmp, woken>>
opVars == <<later, pend>>
coreVars == <<valueVars, leaderVars, active, lflgs, umVars, managedCount>>
restVars == <<localVars, unmanagedVars, opVars>>
vars == <<coreVars, blockVars, sleeping, wakeVars, pc, restVars>>

-----------------------------------------------------------------------------
(* Thread progress values                                                  *)

Inc(v) == IF v + 1 = VAL_WAITING THEN 0 ELSE v + 1

\* Mutant: the next value, which threads may have confirmed already
NextAsLater(v) == Inc(v)

CurrentToLater(v) ==
    IF v = VAL_WAITING - 2 THEN 0
    ELSE IF v = VAL_WAITING - 1 THEN 1 ELSE v + 2

HasPassed(val1, val0) ==
    \/ /\ (val1 >= 2 * Quarter) # (val0 >= 2 * Quarter)
       /\ val1 < Quarter
       /\ val0 > 3 * Quarter
    \/ val1 > val0

HasReached(v) == current = v \/ HasPassed(current, v)

WakeupIx(v) == v % WAKEUP_DATA_SIZE

\* Mutant: a slot starts as if a request were in it.
ZeroRequest == [s \in Slot |-> s]

\* init_wakeup_request_array, at current = 0 (the subtraction wraps)
InitialRequest == [s \in Slot |-> VAL_WAITING - WAKEUP_DATA_SIZE - s]

-----------------------------------------------------------------------------
(* Initial state and helpers                                               *)

Init ==
    /\ current = 0
    /\ thr = [i \in Managed |-> 0]
    /\ confirmed = [i \in Managed |-> 0]
    /\ leader = [i \in Managed |-> FALSE]
    /\ active = [i \in Managed |-> TRUE]
    /\ lflgs = [block |-> FALSE, noLeader |-> TRUE, waitingUM |-> FALSE, active |-> 0]
    /\ lcur = [i \in Managed |-> VAL_WAITING]
    /\ lchk = [i \in Managed |-> 0]
    /\ lwait = [i \in Managed |-> NONE]
    /\ wum = [i \in Managed |-> FALSE]
    /\ umix = 0
    /\ miscWait = NONE
    /\ umrefc = [k \in {0, 1} |-> 0]
    /\ managedCount = 0
    /\ blockCount = NoManaged
    /\ notBlocking = TRUE
    /\ blockerEvent = NONE
    /\ evSet = FALSE
    /\ sleeping = [i \in Managed |-> FALSE]
    /\ mlen = [s \in Slot |-> 0]
    /\ mid = [s \in Slot |-> [k \in Managed |-> NONE]]
    /\ mreq = [i \in Managed |-> InitialRequest]
    /\ ulen = [s \in Slot |-> 0]
    /\ uhigh = [s \in Slot |-> {}]
    /\ ulow = [s \in Slot |-> [w \in Words |-> {}]]
    /\ ureq = [u \in Unmanaged |-> InitialRequest]
    /\ hw = [len |-> 0, hmask |-> {}]
    /\ pc = [i \in Managed |-> "register"]
    /\ uret = [i \in Managed |-> "run"]
    /\ bret = [i \in Managed |-> "run"]
    /\ val = [i \in Managed |-> 0]
    /\ ix = [i \in Managed |-> 0]
    /\ upc = [u \in Unmanaged |-> "idle"]
    /\ uix = [u \in Unmanaged |-> 0]
    /\ utmp = [u \in Unmanaged |-> 0]
    /\ woken = [u \in Unmanaged |-> FALSE]
    /\ later = [t \in Thread |-> NONE]
    /\ pend = [t \in Thread |-> {}]

Goto(i, l) == pc' = [pc EXCEPT ![i] = l]
UGoto(u, l) == upc' = [upc EXCEPT ![u] = l]

\* wakeup_managed of the threads in S: erts_sched_poke of each
Poke(S) == sleeping' = [j \in Managed |-> sleeping[j] /\ j \notin S]

\* A thread in one of these places is between the store of WAITING in
\* prepare_wait and the end of finalize_wait's loop.
AsleepPc == {"prepareFlags", "prepareGsw", "sleep",
             "finalize", "finalizeSet", "finalizeCheck"}
Asleep(i) == pc[i] \in AsleepPc

\* An unmanaged thread between unmanaged_delay and unmanaged_continue.
Delaying(u) == upc[u] = "delaying"

\* History: t has executed a full barrier outside other code.
Quiescent(t) == pend' = [s \in Thread |-> pend[s] \ {t}]

\* History: the threads an operation started now has to wait for.
Busy == {i \in Managed : ~Asleep(i)} \cup {u \in Unmanaged : Delaying(u)}

-----------------------------------------------------------------------------
(* erts_thr_progress_register_managed_thread: no thread leaves before all  *)
(* have registered.                                                        *)

Register(i) ==
    /\ pc[i] = "register"
    /\ lflgs' = [lflgs EXCEPT !.active = @ + 1]
    /\ sleeping' = [sleeping EXCEPT ![i] = TRUE]
    /\ Goto(i, "registerCount")
    /\ UNCHANGED <<valueVars, leaderVars, active, umVars, managedCount,
                   blockVars, wakeVars, restVars>>

RegisterCount(i) ==
    /\ pc[i] = "registerCount"
    /\ managedCount' = managedCount + 1
    /\ \/ /\ managedCount + 1 = NoManaged
          /\ Poke(Managed)
          /\ Goto(i, "run")
       \/ /\ managedCount + 1 # NoManaged
          /\ Goto(i, "registerWait")
          /\ UNCHANGED sleeping
    /\ UNCHANGED <<valueVars, leaderVars, active, lflgs, umVars, blockVars,
                   wakeVars, restVars>>

RegisterWait(i) ==
    /\ pc[i] = "registerWait"
    /\ ~sleeping[i]
    /\ sleeping' = [sleeping EXCEPT ![i] = TRUE]
    /\ Goto(i, "registerRead")
    /\ UNCHANGED <<coreVars, blockVars, wakeVars, restVars>>

RegisterRead(i) ==
    /\ pc[i] = "registerRead"
    /\ \/ /\ managedCount = NoManaged
          /\ Poke({i})
          /\ Goto(i, "run")
       \/ /\ managedCount # NoManaged
          /\ Goto(i, "registerWait")
          /\ UNCHANGED sleeping
    /\ UNCHANGED <<coreVars, blockVars, wakeVars, restVars>>

-----------------------------------------------------------------------------
(* update: confirm the current value, and take leadership if there is no   *)
(* leader.  Its callers run leader_update when it returns true.            *)

UpdateRead(i) ==
    /\ pc[i] = "update"
    /\ \/ /\ leader[i]
          /\ Goto(i, "leaderUpdate")
          /\ UNCHANGED val
       \/ /\ ~leader[i]
          /\ val' = [val EXCEPT ![i] = current]
          /\ Goto(i, "updateConfirm")
    /\ UNCHANGED <<coreVars, blockVars, sleeping, wakeVars, uret, bret, ix,
                   unmanagedVars, opVars>>

UpdateConfirm(i) ==
    /\ pc[i] = "updateConfirm"
    /\ \/ /\ confirmed[i] = val[i]
          /\ confirmed' = [confirmed EXCEPT ![i] = Inc(val[i])]
          /\ thr' = [thr EXCEPT ![i] = Inc(val[i])]
          /\ Quiescent(i)
       \/ /\ confirmed[i] # val[i]
          /\ UNCHANGED <<confirmed, thr, pend>>
    /\ val' = [val EXCEPT ![i] = 0]
    /\ Goto(i, "updateFlags")
    /\ UNCHANGED <<current, leaderVars, active, lflgs, umVars, managedCount,
                   blockVars, sleeping, wakeVars, uret, bret, ix,
                   unmanagedVars, later>>

UpdateFlags(i) ==
    /\ pc[i] = "updateFlags"
    /\ \/ /\ lflgs.noLeader
          /\ active[i] \/ lflgs.active = 0
          /\ Goto(i, IF lflgs.block THEN "updateTakeBlock" ELSE "updateTake")
       \/ /\ ~(lflgs.noLeader /\ (active[i] \/ lflgs.active = 0))
          /\ Goto(i, IF lflgs.block THEN "leaderUpdate" ELSE uret[i])
    /\ UNCHANGED <<coreVars, blockVars, sleeping, wakeVars, restVars>>

\* Mutant: leadership is taken without looking at the flags again.
UpdateTakeBlindly(i) ==
    /\ pc[i] \in {"updateTake", "updateTakeBlock"}
    /\ lflgs' = [lflgs EXCEPT !.noLeader = FALSE]
    /\ leader' = [leader EXCEPT ![i] = TRUE]
    /\ Goto(i, "leaderUpdate")
    /\ UNCHANGED <<valueVars, lcur, lchk, lwait, wum, active, umVars,
                   managedCount, blockVars, sleeping, wakeVars, restVars>>

\* At "updateTakeBlock" a block was seen, and update returns true anyway.
UpdateTake(i) ==
    /\ pc[i] \in {"updateTake", "updateTakeBlock"}
    /\ lflgs' = [lflgs EXCEPT !.noLeader = FALSE]
    /\ leader' = [leader EXCEPT ![i] = lflgs.noLeader]
    /\ Goto(i, IF pc[i] = "updateTakeBlock" \/ lflgs.noLeader
               THEN "leaderUpdate" ELSE uret[i])
    /\ UNCHANGED <<valueVars, lcur, lchk, lwait, wum, active, umVars,
                   managedCount, blockVars, sleeping, wakeVars, restVars>>

-----------------------------------------------------------------------------
(* leader_update                                                           *)

\* Call block_thread, which returns to l.
CallBlockThread(i, l) ==
    /\ Goto(i, "blockThread")
    /\ bret' = [bret EXCEPT ![i] = l]

\* Only a thread that is not leader gets here because of a block.
NotLeader(i) ==
    /\ pc[i] = "leaderUpdate"
    /\ ~leader[i]
    /\ CallBlockThread(i, uret[i])
    /\ UNCHANGED <<coreVars, blockVars, sleeping, wakeVars, uret, val, ix,
                   unmanagedVars, opVars>>

\* Where the leader goes on: at the bound it behaves as if some thread had
\* not confirmed the next value.
StartCheck(i, v) == Goto(i, IF v < MaxVal THEN "check" ELSE "done")

\* A new leader reads what the previous one left.  Only the leader writes
\* these variables, and chk_next_ix is never saved, so it is 0.
TakeOver(i) ==
    /\ pc[i] = "leaderUpdate"
    /\ leader[i]
    /\ lcur[i] = VAL_WAITING
    /\ lcur' = [lcur EXCEPT ![i] = current]
    /\ lchk' = [lchk EXCEPT ![i] = 0]
    /\ lwait' = [lwait EXCEPT ![i] = miscWait]
    /\ wum' = [wum EXCEPT ![i] = FALSE]
    /\ ix' = [ix EXCEPT ![i] = 0]
    /\ \/ /\ confirmed[i] = current
          /\ confirmed' = [confirmed EXCEPT ![i] = Inc(current)]
          /\ thr' = [thr EXCEPT ![i] = Inc(current)]
          /\ Quiescent(i)
       \/ /\ confirmed[i] # current
          /\ UNCHANGED <<confirmed, thr, pend>>
    /\ StartCheck(i, current)
    /\ UNCHANGED <<current, leader, active, lflgs, umVars, managedCount,
                   blockVars, sleeping, wakeVars, uret, bret, val,
                   unmanagedVars, later>>

ContinueCheck(i) ==
    /\ pc[i] = "leaderUpdate"
    /\ leader[i]
    /\ lcur[i] # VAL_WAITING
    /\ wum' = [wum EXCEPT ![i] = FALSE]
    /\ ix' = [ix EXCEPT ![i] = IF lcur[i] < MaxVal THEN lchk[i] ELSE 0]
    /\ StartCheck(i, lcur[i])
    /\ UNCHANGED <<valueVars, leader, lcur, lchk, lwait, active, lflgs, umVars,
                   managedCount, blockVars, sleeping, wakeVars, uret, bret,
                   val, unmanagedVars, opVars>>

\* What the leader accepts of another managed thread
Confirms(v, next) == v = next \/ v = VAL_WAITING

CheckManaged(i) ==
    /\ pc[i] = "check"
    /\ ix[i] < NoManaged
    /\ \/ /\ ix[i] = i \/ Confirms(thr[ix[i]], Inc(lcur[i]))
          /\ ix' = [ix EXCEPT ![i] = @ + 1]
          /\ UNCHANGED <<lchk, pc>>
       \/ /\ ix[i] # i /\ ~Confirms(thr[ix[i]], Inc(lcur[i]))
          /\ lchk' = [lchk EXCEPT ![i] = ix[i]]
          /\ ix' = [ix EXCEPT ![i] = 0]
          /\ Goto(i, "done")
    /\ UNCHANGED <<valueVars, leader, lcur, lwait, wum, active, lflgs, umVars,
                   managedCount, blockVars, sleeping, wakeVars, uret, bret,
                   val, unmanagedVars, opVars>>

\* Which reference count the leader waits for
UmrefcIx(i) == IF lwait[i] # NONE THEN lwait[i] ELSE umix

CheckUnmanaged(i) ==
    /\ pc[i] = "check"
    /\ ix[i] = NoManaged
    /\ wum' = [wum EXCEPT ![i] = lwait[i] # NONE]
    /\ ix' = [ix EXCEPT ![i] = 0]
    /\ Goto(i, IF umrefc[UmrefcIx(i)] = 0 THEN "advance"
               ELSE IF lwait[i] # NONE THEN "done" ELSE "flip")
    /\ UNCHANGED <<valueVars, leader, lcur, lchk, lwait, active, lflgs, umVars,
                   managedCount, blockVars, sleeping, wakeVars, uret, bret,
                   val, unmanagedVars, opVars>>

\* Mutant: the index is incremented, not flipped.
IncUmrefc(i) ==
    /\ pc[i] = "flip"
    /\ lwait' = [lwait EXCEPT ![i] = umix]
    /\ lchk' = [lchk EXCEPT ![i] = NoManaged]
    /\ wum' = [wum EXCEPT ![i] = TRUE]
    /\ umix' = umix + 1
    /\ Goto(i, "recheck")
    /\ UNCHANGED <<valueVars, leader, lcur, active, lflgs, miscWait, umrefc,
                   managedCount, blockVars, sleeping, wakeVars, restVars>>

FlipUmrefc(i) ==
    /\ pc[i] = "flip"
    /\ lwait' = [lwait EXCEPT ![i] = umix]
    /\ lchk' = [lchk EXCEPT ![i] = NoManaged]
    /\ wum' = [wum EXCEPT ![i] = TRUE]
    /\ umix' = 1 - umix
    /\ Goto(i, "recheck")
    /\ UNCHANGED <<valueVars, leader, lcur, active, lflgs, miscWait, umrefc,
                   managedCount, blockVars, sleeping, wakeVars, restVars>>

RecheckUnmanaged(i) ==
    /\ pc[i] = "recheck"
    /\ Goto(i, IF umrefc[lwait[i]] = 0 THEN "advance" ELSE "done")
    /\ UNCHANGED <<coreVars, blockVars, sleeping, wakeVars, restVars>>

\* The leader's own value is stored before the global one.
Advance(i) ==
    /\ pc[i] = "advance"
    /\ thr' = [thr EXCEPT ![i] = Inc(Inc(lcur[i]))]
    /\ Goto(i, "publish")
    /\ UNCHANGED <<current, confirmed, leaderVars, active, lflgs, umVars,
                   managedCount, blockVars, sleeping, wakeVars, restVars>>

Publish(i) ==
    /\ pc[i] = "publish"
    /\ current' = Inc(lcur[i])
    /\ confirmed' = [confirmed EXCEPT ![i] = Inc(Inc(lcur[i]))]
    /\ lcur' = [lcur EXCEPT ![i] = Inc(lcur[i])]
    /\ Quiescent(i)
    /\ Goto(i, "handleManaged")
    /\ UNCHANGED <<thr, leader, lchk, lwait, wum, active, lflgs, umVars,
                   managedCount, blockVars, sleeping, wakeVars, localVars,
                   unmanagedVars, later>>

\* After the wakeup requests have been handled
Progressed(i) ==
    /\ pc[i] = "progressed"
    /\ lchk' = [lchk EXCEPT ![i] = 0]
    /\ \/ /\ wum[i]
          /\ wum' = [wum EXCEPT ![i] = FALSE]
          /\ lwait' = [lwait EXCEPT ![i] = NONE]
          /\ lflgs' = [lflgs EXCEPT !.waitingUM = FALSE]
       \/ /\ ~wum[i]
          /\ UNCHANGED <<wum, lwait, lflgs>>
    /\ Goto(i, "done")
    /\ UNCHANGED <<valueVars, leader, lcur, active, umVars, managedCount,
                   blockVars, sleeping, wakeVars, restVars>>

\* Mutant: the leader does not see that somebody blocks.
StayLeaderUnblocked(i) ==
    /\ pc[i] = "done"
    /\ active[i]
    /\ wum' = [wum EXCEPT ![i] = FALSE]
    /\ Goto(i, uret[i])
    /\ UNCHANGED <<valueVars, leader, lcur, lchk, lwait, active, lflgs, umVars,
                   managedCount, blockVars, sleeping, wakeVars, uret, bret, val,
                   ix, unmanagedVars, opVars>>

StayLeader(i) ==
    /\ pc[i] = "done"
    /\ active[i]
    /\ wum' = [wum EXCEPT ![i] = FALSE]
    /\ \/ /\ lflgs.block
          /\ CallBlockThread(i, uret[i])
       \/ /\ ~lflgs.block
          /\ Goto(i, uret[i])
          /\ UNCHANGED bret
    /\ UNCHANGED <<valueVars, leader, lcur, lchk, lwait, active, lflgs, umVars,
                   managedCount, blockVars, sleeping, wakeVars, uret, val, ix,
                   unmanagedVars, opVars>>

\* Mutant: which reference count is waited for is not passed on.
RelinquishForgetting(i) ==
    /\ pc[i] = "done"
    /\ ~active[i]
    /\ leader' = [leader EXCEPT ![i] = FALSE]
    /\ lcur' = [lcur EXCEPT ![i] = VAL_WAITING]
    /\ lchk' = [lchk EXCEPT ![i] = 0]
    /\ lwait' = [lwait EXCEPT ![i] = NONE]
    /\ wum' = [wum EXCEPT ![i] = FALSE]
    /\ miscWait' = NONE
    /\ lflgs' = [lflgs EXCEPT !.noLeader = TRUE, !.waitingUM = @ \/ wum[i]]
    /\ Goto(i, uret[i])
    /\ UNCHANGED <<valueVars, active, umix, umrefc, managedCount, blockVars,
                   sleeping, wakeVars, uret, bret, val, ix, unmanagedVars, opVars>>

\* An inactive leader resigns.
Relinquish(i) ==
    /\ pc[i] = "done"
    /\ ~active[i]
    /\ leader' = [leader EXCEPT ![i] = FALSE]
    /\ lcur' = [lcur EXCEPT ![i] = VAL_WAITING]
    /\ lchk' = [lchk EXCEPT ![i] = 0]
    /\ lwait' = [lwait EXCEPT ![i] = IF wum[i] THEN @ ELSE NONE]
    /\ wum' = [wum EXCEPT ![i] = FALSE]
    /\ miscWait' = lwait[i]
    /\ lflgs' = [lflgs EXCEPT !.noLeader = TRUE, !.waitingUM = @ \/ wum[i]]
    /\ LET next == IF wum[i] THEN "relinquished" ELSE uret[i]
       IN  \/ /\ lflgs.block
              /\ CallBlockThread(i, next)
           \/ /\ ~lflgs.block
              /\ Goto(i, next)
              /\ UNCHANGED bret
    /\ UNCHANGED <<valueVars, active, umix, umrefc, managedCount, blockVars,
                   sleeping, wakeVars, uret, val, ix, unmanagedVars, opVars>>

Relinquished(i) ==
    /\ pc[i] = "relinquished"
    /\ lwait' = [lwait EXCEPT ![i] = NONE]
    /\ Goto(i, IF umrefc[lwait[i]] = 0 THEN "relinquishGsw" ELSE uret[i])
    /\ UNCHANGED <<valueVars, leader, lcur, lchk, wum, active, lflgs, umVars,
                   managedCount, blockVars, sleeping, wakeVars, restVars>>

-----------------------------------------------------------------------------
(* got_sched_wakeups reads the eight lengths one by one.                   *)

WakeupLen(k) ==
    IF k < WAKEUP_DATA_SIZE THEN mlen[k] ELSE ulen[k - WAKEUP_DATA_SIZE]

\* When nobody requests wakeups all of them are 0, and one read stands for
\* the eight.
LastLen == IF Requesters = {} THEN 0 ELSE 2 * WAKEUP_DATA_SIZE - 1

\* Managed thread i is in the loop; it goes on at l, and wakes `target' if a
\* length is not 0.
GotSchedWakeups(i, target, l) ==
    /\ \/ /\ WakeupLen(ix[i]) # 0
          /\ Poke({target})
          /\ ix' = [ix EXCEPT ![i] = 0]
          /\ Goto(i, l)
       \/ /\ WakeupLen(ix[i]) = 0
          /\ ix[i] < LastLen
          /\ ix' = [ix EXCEPT ![i] = @ + 1]
          /\ UNCHANGED <<pc, sleeping>>
       \/ /\ WakeupLen(ix[i]) = 0
          /\ ix[i] = LastLen
          /\ ix' = [ix EXCEPT ![i] = 0]
          /\ Goto(i, l)
          /\ UNCHANGED sleeping
    /\ UNCHANGED <<coreVars, blockVars, wakeVars, uret, bret, val,
                   unmanagedVars, opVars>>

RelinquishGsw(i) ==
    /\ pc[i] = "relinquishGsw"
    /\ GotSchedWakeups(i, i, uret[i])

-----------------------------------------------------------------------------
(* handle_wakeup_requests: the leader serves the slot of the new value.    *)

WakeSlot == WakeupIx(current)

HandleManaged(i) ==
    /\ pc[i] = "handleManaged"
    /\ hw' = [hw EXCEPT !.len = mlen[WakeSlot]]
    /\ Goto(i, IF mlen[WakeSlot] = 0 THEN "handleUnmanaged" ELSE "wakeManaged")
    /\ UNCHANGED <<coreVars, blockVars, sleeping, mlen, mid, mreq, ulen, uhigh,
                   ulow, ureq, restVars>>

WakeManaged(i) ==
    /\ pc[i] = "wakeManaged"
    /\ ix[i] < hw.len
    /\ Poke({mid[WakeSlot][ix[i]]})
    /\ ix' = [ix EXCEPT ![i] = @ + 1]
    /\ UNCHANGED <<coreVars, blockVars, wakeVars, pc, uret, bret, val,
                   unmanagedVars, opVars>>

ClearManaged(i) ==
    /\ pc[i] = "wakeManaged"
    /\ ix[i] = hw.len
    /\ mlen' = [mlen EXCEPT ![WakeSlot] = 0]
    /\ hw' = [hw EXCEPT !.len = 0]
    /\ ix' = [ix EXCEPT ![i] = 0]
    /\ Goto(i, "handleUnmanaged")
    /\ UNCHANGED <<coreVars, blockVars, sleeping, mid, mreq, ulen, uhigh, ulow,
                   ureq, uret, bret, val, unmanagedVars, opVars>>

HandleUnmanaged(i) ==
    /\ pc[i] = "handleUnmanaged"
    /\ Goto(i, IF ulen[WakeSlot] = 0 THEN "progressed" ELSE "readHigh")
    /\ UNCHANGED <<coreVars, blockVars, sleeping, wakeVars, restVars>>

\* wakeup_unmanaged_threads, with one word in the high bitmap (at most
\* ERTS_THR_PRGR_BM_BITS words in the low one)
ReadHigh(i) ==
    /\ pc[i] = "readHigh"
    /\ hw' = [hw EXCEPT !.hmask = uhigh[WakeSlot]]
    /\ Goto(i, IF uhigh[WakeSlot] = {} THEN "clearUnmanaged" ELSE "wakeLow")
    /\ UNCHANGED <<coreVars, blockVars, sleeping, mlen, mid, mreq, ulen, uhigh,
                   ulow, ureq, restVars>>

\* The next set bit of hmask
NextWord == CHOOSE w \in hw.hmask : \A x \in hw.hmask : w <= x

WakeLow(i) ==
    /\ pc[i] = "wakeLow"
    /\ hw.hmask # {}
    /\ LET lmask == ulow[WakeSlot][NextWord]
       IN  /\ woken' = [u \in Unmanaged |-> woken[u] \/ u \in lmask]
           /\ \/ /\ lmask # {}
                 /\ Goto(i, "clearLow")
                 /\ UNCHANGED hw
              \/ /\ lmask = {}
                 /\ hw' = [hw EXCEPT !.hmask = @ \ {NextWord}]
                 /\ UNCHANGED pc
    /\ UNCHANGED <<coreVars, blockVars, sleeping, mlen, mid, mreq, ulen, uhigh,
                   ulow, ureq, localVars, upc, uix, utmp, opVars>>

ClearLow(i) ==
    /\ pc[i] = "clearLow"
    /\ ulow' = [ulow EXCEPT ![WakeSlot][NextWord] = {}]
    /\ hw' = [hw EXCEPT !.hmask = @ \ {NextWord}]
    /\ Goto(i, "wakeLow")
    /\ UNCHANGED <<coreVars, blockVars, sleeping, mlen, mid, mreq, ulen, uhigh,
                   ureq, restVars>>

ClearHigh(i) ==
    /\ pc[i] = "wakeLow"
    /\ hw.hmask = {}
    /\ uhigh' = [uhigh EXCEPT ![WakeSlot] = {}]
    /\ Goto(i, "clearUnmanaged")
    /\ UNCHANGED <<coreVars, blockVars, sleeping, mlen, mid, mreq, ulen, ulow,
                   ureq, hw, restVars>>

ClearUnmanaged(i) ==
    /\ pc[i] = "clearUnmanaged"
    /\ ulen' = [ulen EXCEPT ![WakeSlot] = 0]
    /\ Goto(i, "progressed")
    /\ UNCHANGED <<coreVars, blockVars, sleeping, mlen, mid, mreq, uhigh, ulow,
                   ureq, hw, restVars>>

-----------------------------------------------------------------------------
(* block_count_dec and block_count_inc.  The thread whose decrement gives  *)
(* 0 sets the blocker's event in a second step, at evl.                    *)

\* Mutant: the old value of the count is tested, not the new one.
BlockCountDecLate(i, l, evl) ==
    /\ blockCount' = blockCount - 1
    /\ Goto(i, IF blockCount = 0 /\ ~notBlocking THEN evl ELSE l)

BlockCountDec(i, l, evl) ==
    /\ blockCount' = blockCount - 1
    /\ Goto(i, IF blockCount = 1 /\ ~notBlocking THEN evl ELSE l)

SetBlockerEvent == evSet' = (evSet \/ blockerEvent # NONE)

-----------------------------------------------------------------------------
(* erts_thr_progress_prepare_wait and erts_thr_progress_finalize_wait      *)

PrepareWait(i) ==
    /\ pc[i] = "prepare"
    /\ BlockCountDec(i, "prepareStore", "prepareEvent")
    /\ UNCHANGED <<coreVars, notBlocking, blockerEvent, evSet, sleeping,
                   wakeVars, restVars>>

PrepareEvent(i) ==
    /\ pc[i] = "prepareEvent"
    /\ SetBlockerEvent
    /\ Goto(i, "prepareStore")
    /\ UNCHANGED <<coreVars, blockCount, notBlocking, blockerEvent, sleeping,
                   wakeVars, restVars>>

PrepareStore(i) ==
    /\ pc[i] = "prepareStore"
    /\ confirmed' = [confirmed EXCEPT ![i] = VAL_WAITING]
    /\ thr' = [thr EXCEPT ![i] = VAL_WAITING]
    /\ Quiescent(i)
    /\ Goto(i, "prepareFlags")
    /\ UNCHANGED <<current, leaderVars, active, lflgs, umVars, managedCount,
                   blockVars, sleeping, wakeVars, localVars, unmanagedVars,
                   later>>

\* Mutant: the last thread to sleep does not look for pending requests.
PrepareNoGsw(i) ==
    /\ pc[i] = "prepareFlags"
    /\ Goto(i, "sleep")
    /\ UNCHANGED <<coreVars, blockVars, sleeping, wakeVars, restVars>>

PrepareFlags(i) ==
    /\ pc[i] = "prepareFlags"
    /\ Goto(i, IF lflgs.noLeader /\ ~lflgs.waitingUM /\ lflgs.active = 0
               THEN "prepareGsw" ELSE "sleep")
    /\ UNCHANGED <<coreVars, blockVars, sleeping, wakeVars, restVars>>

PrepareGsw(i) ==
    /\ pc[i] = "prepareGsw"
    /\ GotSchedWakeups(i, IF i \in DeepSleepers THEN 1 ELSE i, "sleep")

\* The thread sleeps until somebody clears its SLEEPING flag.
Wake(i) ==
    /\ pc[i] = "sleep"
    /\ ~sleeping[i]
    /\ Goto(i, "finalize")
    /\ UNCHANGED <<coreVars, blockVars, sleeping, wakeVars, restVars>>

FinalizeRead(i) ==
    /\ pc[i] = "finalize"
    /\ val' = [val EXCEPT ![i] = current]
    /\ Goto(i, "finalizeSet")
    /\ UNCHANGED <<coreVars, blockVars, sleeping, wakeVars, uret, bret, ix,
                   unmanagedVars, opVars>>

FinalizeSet(i) ==
    /\ pc[i] = "finalizeSet"
    /\ confirmed' = [confirmed EXCEPT ![i] = Inc(val[i])]
    /\ thr' = [thr EXCEPT ![i] = Inc(val[i])]
    /\ Goto(i, "finalizeCheck")
    /\ UNCHANGED <<current, leaderVars, active, lflgs, umVars, managedCount,
                   blockVars, sleeping, wakeVars, restVars>>

\* Mutant: the value read is not compared with the global one again.
FinalizeOnce(i) ==
    /\ pc[i] = "finalizeCheck"
    /\ val' = [val EXCEPT ![i] = 0]
    /\ Goto(i, "finalizeInc")
    /\ UNCHANGED <<coreVars, blockVars, sleeping, wakeVars, uret, bret, ix,
                   unmanagedVars, opVars>>

FinalizeCheck(i) ==
    /\ pc[i] = "finalizeCheck"
    /\ \/ /\ val[i] = current
          /\ val' = [val EXCEPT ![i] = 0]
          /\ Goto(i, "finalizeInc")
       \/ /\ val[i] # current
          /\ val' = [val EXCEPT ![i] = current]
          /\ Goto(i, "finalizeSet")
    /\ UNCHANGED <<coreVars, blockVars, sleeping, wakeVars, uret, bret, ix,
                   unmanagedVars, opVars>>

\* Mutant: a thread that wakes up runs on while another one blocks.
FinalizeIncOnly(i) ==
    /\ pc[i] = "finalizeInc"
    /\ blockCount' = blockCount + 1
    /\ uret' = [uret EXCEPT ![i] = "idle"]
    /\ Goto(i, "update")
    /\ UNCHANGED <<coreVars, notBlocking, blockerEvent, evSet, sleeping,
                   wakeVars, bret, val, ix, unmanagedVars, opVars>>

FinalizeInc(i) ==
    /\ pc[i] = "finalizeInc"
    /\ blockCount' = blockCount + 1
    /\ uret' = [uret EXCEPT ![i] = "idle"]
    /\ \/ /\ ~notBlocking
          /\ CallBlockThread(i, "update")
       \/ /\ notBlocking
          /\ Goto(i, "update")
          /\ UNCHANGED bret
    /\ UNCHANGED <<coreVars, notBlocking, blockerEvent, evSet, sleeping,
                   wakeVars, val, ix, unmanagedVars, opVars>>

-----------------------------------------------------------------------------
(* block_thread: wait until no thread blocks the managed threads.          *)

BlockThread(i) ==
    /\ pc[i] = "blockThread"
    /\ BlockCountDec(i, "blockPrepare", "blockEvent")
    /\ UNCHANGED <<coreVars, notBlocking, blockerEvent, evSet, sleeping,
                   wakeVars, restVars>>

BlockEvent(i) ==
    /\ pc[i] = "blockEvent"
    /\ SetBlockerEvent
    /\ Goto(i, "blockPrepare")
    /\ UNCHANGED <<coreVars, blockCount, notBlocking, blockerEvent, sleeping,
                   wakeVars, restVars>>

BlockPrepare(i) ==
    /\ pc[i] = "blockPrepare"
    /\ sleeping' = [sleeping EXCEPT ![i] = TRUE]
    /\ Goto(i, "blockFlags")
    /\ UNCHANGED <<coreVars, blockVars, wakeVars, restVars>>

BlockFlags(i) ==
    /\ pc[i] = "blockFlags"
    /\ Goto(i, IF lflgs.block THEN "blockWait" ELSE "blockInc")
    /\ UNCHANGED <<coreVars, blockVars, sleeping, wakeVars, restVars>>

BlockWait(i) ==
    /\ pc[i] = "blockWait"
    /\ ~sleeping[i]
    /\ Goto(i, "blockPrepare")
    /\ UNCHANGED <<coreVars, blockVars, sleeping, wakeVars, restVars>>

BlockInc(i) ==
    /\ pc[i] = "blockInc"
    /\ blockCount' = blockCount + 1
    /\ \/ /\ ~notBlocking
          /\ Goto(i, "blockThread")
          /\ UNCHANGED <<sleeping, bret>>
       \/ /\ notBlocking
          /\ Poke({i})
          /\ Goto(i, bret[i])
          /\ bret' = [bret EXCEPT ![i] = "run"]
    /\ UNCHANGED <<coreVars, notBlocking, blockerEvent, evSet, wakeVars, uret,
                   val, ix, unmanagedVars, opVars>>

-----------------------------------------------------------------------------
(* erts_thr_progress_block and erts_thr_progress_unblock, called by a      *)
(* managed thread                                                          *)

BlockRequest(i) ==
    /\ pc[i] = "block"
    /\ lflgs' = [lflgs EXCEPT !.block = TRUE]
    /\ \/ /\ lflgs.block
          /\ CallBlockThread(i, "block")
       \/ /\ ~lflgs.block
          /\ Goto(i, "blockSetEvent")
          /\ UNCHANGED bret
    /\ UNCHANGED <<valueVars, leaderVars, active, umVars, managedCount,
                   blockVars, sleeping, wakeVars, uret, val, ix, unmanagedVars,
                   opVars>>

BlockSetEvent(i) ==
    /\ pc[i] = "blockSetEvent"
    /\ evSet' = FALSE
    /\ blockerEvent' = i
    /\ Goto(i, "blockDec")
    /\ UNCHANGED <<coreVars, blockCount, notBlocking, sleeping, wakeVars,
                   restVars>>

BlockDec(i) ==
    /\ pc[i] = "blockDec"
    /\ blockCount' = blockCount - 1
    /\ Goto(i, "blockBlocking")
    /\ UNCHANGED <<coreVars, notBlocking, blockerEvent, evSet, sleeping,
                   wakeVars, restVars>>

BlockBlocking(i) ==
    /\ pc[i] = "blockBlocking"
    /\ notBlocking' = FALSE
    /\ Goto(i, IF blockCount = 0 THEN "blocked" ELSE "blockTse")
    /\ UNCHANGED <<coreVars, blockCount, blockerEvent, evSet, sleeping,
                   wakeVars, restVars>>

\* erts_tse_wait and erts_tse_reset of the blocker's event
BlockTse(i) ==
    /\ pc[i] = "blockTse"
    /\ evSet
    /\ evSet' = FALSE
    /\ Goto(i, "blockRead")
    /\ UNCHANGED <<coreVars, blockCount, notBlocking, blockerEvent, sleeping,
                   wakeVars, restVars>>

BlockRead(i) ==
    /\ pc[i] = "blockRead"
    /\ Goto(i, IF blockCount = 0 THEN "blocked" ELSE "blockTse")
    /\ UNCHANGED <<coreVars, blockVars, sleeping, wakeVars, restVars>>

\* Unblock starts at "blocked", when the blocker has done its work.
Unblock(i) ==
    /\ pc[i] = "blocked"
    /\ blockCount' = blockCount + 1
    /\ Goto(i, "unblockEvent")
    /\ UNCHANGED <<coreVars, notBlocking, blockerEvent, evSet, sleeping,
                   wakeVars, restVars>>

UnblockEvent(i) ==
    /\ pc[i] = "unblockEvent"
    /\ blockerEvent' = NONE
    /\ evSet' = FALSE
    /\ Goto(i, "unblockNotBlocking")
    /\ UNCHANGED <<coreVars, blockCount, notBlocking, sleeping, wakeVars,
                   restVars>>

UnblockNotBlocking(i) ==
    /\ pc[i] = "unblockNotBlocking"
    /\ notBlocking' = TRUE
    /\ Goto(i, "unblockFlag")
    /\ UNCHANGED <<coreVars, blockCount, blockerEvent, evSet, sleeping,
                   wakeVars, restVars>>

\* The thread after i, round robin
After(i) == IF i + 1 = NoManaged THEN 0 ELSE i + 1

\* Mutant: the round starts at thread 0 and ends before thread i.
UnblockFromZero(i) ==
    /\ pc[i] = "unblockFlag"
    /\ lflgs' = [lflgs EXCEPT !.block = FALSE]
    /\ \/ /\ i = 0
          /\ Goto(i, "run")
          /\ UNCHANGED ix
       \/ /\ i # 0
          /\ ix' = [ix EXCEPT ![i] = 0]
          /\ Goto(i, "unblockWake")
    /\ UNCHANGED <<valueVars, leaderVars, active, umVars, managedCount,
                   blockVars, sleeping, wakeVars, uret, bret, val,
                   unmanagedVars, opVars>>

UnblockFlag(i) ==
    /\ pc[i] = "unblockFlag"
    /\ lflgs' = [lflgs EXCEPT !.block = FALSE]
    /\ \/ /\ After(i) = i
          /\ Goto(i, "run")
          /\ UNCHANGED ix
       \/ /\ After(i) # i
          /\ ix' = [ix EXCEPT ![i] = After(i)]
          /\ Goto(i, "unblockWake")
    /\ UNCHANGED <<valueVars, leaderVars, active, umVars, managedCount,
                   blockVars, sleeping, wakeVars, uret, bret, val,
                   unmanagedVars, opVars>>

UnblockWake(i) ==
    /\ pc[i] = "unblockWake"
    /\ Poke({j \in {ix[i]} : thr[j] # VAL_WAITING})
    /\ \/ /\ After(ix[i]) = i
          /\ ix' = [ix EXCEPT ![i] = 0]
          /\ Goto(i, "run")
       \/ /\ After(ix[i]) # i
          /\ ix' = [ix EXCEPT ![i] = After(@)]
          /\ UNCHANGED pc
    /\ UNCHANGED <<coreVars, blockVars, wakeVars, uret, bret, val,
                   unmanagedVars, opVars>>

-----------------------------------------------------------------------------
(* request_wakeup_managed for the value of the thread's operation          *)

\* Mutant: a value the thread has confirmed is requested as it is.
SameRequestValue(i) == later[i]

\* The value requested: a confirmed value is moved forward.
RequestValue(i) == IF confirmed[i] = later[i] THEN Inc(later[i]) ELSE later[i]

Registered(i, v) == mreq[i][WakeupIx(v)] = v

RequestManaged(i) ==
    /\ pc[i] = "request"
    /\ \/ /\ HasReached(later[i])
          /\ Poke({i})
          /\ Goto(i, "run")
          /\ UNCHANGED <<mreq, val>>
       \/ /\ ~HasReached(later[i])
          /\ Registered(i, later[i]) \/ Registered(i, RequestValue(i))
          /\ Goto(i, "run")
          /\ UNCHANGED <<mreq, val, sleeping>>
       \/ /\ ~HasReached(later[i])
          /\ ~Registered(i, later[i]) /\ ~Registered(i, RequestValue(i))
          /\ mreq' = [mreq EXCEPT ![i][WakeupIx(RequestValue(i))] = RequestValue(i)]
          /\ val' = [val EXCEPT ![i] = WakeupIx(RequestValue(i))]
          /\ Goto(i, "requestLen")
          /\ UNCHANGED sleeping
    /\ UNCHANGED <<coreVars, blockVars, mlen, mid, ulen, uhigh, ulow, ureq, hw,
                   uret, bret, ix, unmanagedVars, opVars>>

RequestLen(i) ==
    /\ pc[i] = "requestLen"
    /\ ix' = [ix EXCEPT ![i] = mlen[val[i]]]
    /\ mlen' = [mlen EXCEPT ![val[i]] = @ + 1]
    /\ Goto(i, "requestId")
    /\ UNCHANGED <<coreVars, blockVars, sleeping, mid, mreq, ulen, uhigh, ulow,
                   ureq, hw, uret, bret, val, unmanagedVars, opVars>>

RequestId(i) ==
    /\ pc[i] = "requestId"
    /\ mid' = [mid EXCEPT ![val[i]][ix[i]] = i]
    /\ val' = [val EXCEPT ![i] = 0]
    /\ ix' = [ix EXCEPT ![i] = 0]
    /\ Goto(i, "run")
    /\ UNCHANGED <<coreVars, blockVars, sleeping, mlen, mreq, ulen, uhigh,
                   ulow, ureq, hw, uret, bret, unmanagedVars, opVars>>

-----------------------------------------------------------------------------
(* The managed threads' other code: a scheduler (erl_process.c) or another *)
(* thread that calls update often, starts operations that wait for thread  *)
(* progress, blocks, and sleeps.                                           *)

CallUpdate(i) ==
    /\ pc[i] = "run"
    /\ uret' = [uret EXCEPT ![i] = "run"]
    /\ Goto(i, "update")
    /\ UNCHANGED <<coreVars, blockVars, sleeping, wakeVars, bret, val, ix,
                   unmanagedVars, opVars>>

CallBlock(i) ==
    /\ pc[i] = "run"
    /\ i \in Blockers
    /\ Goto(i, "block")
    /\ UNCHANGED <<coreVars, blockVars, sleeping, wakeVars, restVars>>

\* Bound: the value, and the one a wakeup is requested for, can be reached.
LaterBound(i) == IF i \in Requesters THEN MaxVal - 1 ELSE MaxVal

\* erts_thr_progress_later
Later(i) ==
    /\ pc[i] = "run"
    /\ i \in Initiators
    /\ later[i] = NONE
    /\ CurrentToLater(confirmed[i]) <= LaterBound(i)
    /\ later' = [later EXCEPT ![i] = CurrentToLater(confirmed[i])]
    /\ pend' = [pend EXCEPT ![i] = Busy]
    /\ UNCHANGED <<coreVars, blockVars, sleeping, wakeVars, pc, localVars,
                   unmanagedVars>>

\* erts_thr_progress_wakeup, at any time after later
CallWakeup(i) ==
    /\ pc[i] = "run"
    /\ i \in Requesters
    /\ later[i] # NONE
    /\ Goto(i, "request")
    /\ UNCHANGED <<coreVars, blockVars, sleeping, wakeVars, restVars>>

\* The thread need not ask for a wakeup (again) before it sleeps.
Asked(i) ==
    later[i] # NONE /\ i \in Requesters =>
        Registered(i, later[i]) \/ Registered(i, Inc(later[i]))

\* The operation is carried out: erts_thr_progress_has_reached was true.
Finish(t) ==
    /\ later[t] # NONE
    /\ HasReached(later[t])
    /\ later' = [later EXCEPT ![t] = NONE]
    /\ pend' = [pend EXCEPT ![t] = {}]

FinishManaged(i) ==
    /\ pc[i] = "run"
    /\ Finish(i)
    /\ UNCHANGED <<coreVars, blockVars, sleeping, wakeVars, pc, localVars,
                   unmanagedVars>>

\* scheduler_wait: the SLEEPING flag is set, and only then are operations
\* looked at for the last time.
PrepareSleep(i) ==
    /\ \/ pc[i] = "run" /\ i \in Sleepers /\ Asked(i)
       \/ pc[i] = "idle"
    /\ sleeping' = [sleeping EXCEPT ![i] = TRUE]
    /\ Goto(i, "auxWork")
    /\ UNCHANGED <<coreVars, blockVars, wakeVars, restVars>>

\* erts_thr_progress_active(tpd, 1)
Activate(i) ==
    /\ active' = [active EXCEPT ![i] = TRUE]
    /\ lflgs' = [lflgs EXCEPT !.active = @ + 1]

AuxActivate(i) ==
    /\ pc[i] = "auxWork"
    /\ later[i] # NONE
    /\ ~active[i]
    /\ Activate(i)
    /\ UNCHANGED <<valueVars, leaderVars, umVars, managedCount, blockVars,
                   sleeping, wakeVars, pc, restVars>>

AuxFinish(i) ==
    /\ pc[i] = "auxWork"
    /\ active[i]
    /\ Finish(i)
    /\ Poke({i})
    /\ Goto(i, "run")
    /\ UNCHANGED <<coreVars, blockVars, wakeVars, localVars, unmanagedVars>>

\* erts_thr_progress_active(tpd, 0) if the thread is active, which runs
\* update, and then prepare_wait
AuxSleep(i) ==
    /\ pc[i] = "auxWork"
    /\ later[i] = NONE \/ (active[i] /\ ~HasReached(later[i]))
    /\ \/ /\ active[i]
          /\ active' = [active EXCEPT ![i] = FALSE]
          /\ lflgs' = [lflgs EXCEPT !.active = @ - 1]
          /\ Goto(i, "update")
       \/ /\ ~active[i]
          /\ Goto(i, "prepare")
          /\ UNCHANGED <<active, lflgs>>
    /\ uret' = [uret EXCEPT ![i] = "prepare"]
    /\ UNCHANGED <<valueVars, leaderVars, umVars, managedCount, blockVars,
                   sleeping, wakeVars, bret, val, ix, unmanagedVars, opVars>>

\* After finalize_wait the thread goes on running, or tries to sleep again.
IdleRun(i) ==
    /\ pc[i] = "idle"
    /\ Activate(i)
    /\ Poke({i})
    /\ uret' = [uret EXCEPT ![i] = "run"]
    /\ Goto(i, "run")
    /\ UNCHANGED <<valueVars, leaderVars, umVars, managedCount, blockVars,
                   wakeVars, bret, val, ix, unmanagedVars, opVars>>

\* Something else than thread progress wakes the thread: work, a timeout.
\* (Clearing the flag earlier has the same effect.)
OtherWakeup(i) ==
    /\ pc[i] \in {"sleep", "blockWait"}
    /\ sleeping[i]
    /\ Poke({i})
    /\ UNCHANGED <<coreVars, blockVars, wakeVars, pc, restVars>>

-----------------------------------------------------------------------------
(* erts_thr_progress_unmanaged_delay and unmanaged_continue                *)

DelayRead(u) ==
    /\ upc[u] = "idle"
    /\ u \in Delayers
    /\ uix' = [uix EXCEPT ![u] = umix]
    /\ UGoto(u, "delayInc")
    /\ UNCHANGED <<coreVars, blockVars, sleeping, wakeVars, pc, localVars,
                   utmp, woken, opVars>>

DelayInc(u) ==
    /\ upc[u] = "delayInc"
    /\ umrefc' = [umrefc EXCEPT ![uix[u]] = @ + 1]
    /\ UGoto(u, "delayCheck")
    /\ UNCHANGED <<valueVars, leaderVars, active, lflgs, umix, miscWait,
                   managedCount, blockVars, sleeping, wakeVars, pc, localVars,
                   uix, utmp, woken, opVars>>

DelayCheck(u) ==
    /\ upc[u] = "delayCheck"
    /\ UGoto(u, IF umix = uix[u] THEN "delaying" ELSE "delayRetry")
    /\ UNCHANGED <<coreVars, blockVars, sleeping, wakeVars, pc, localVars, uix,
                   utmp, woken, opVars>>

\* unmanaged_continue, called by the thread itself or by unmanaged_delay,
\* which then retries with the index it read, the other one
Continue(u) ==
    /\ upc[u] \in {"delaying", "delayRetry"}
    /\ umrefc' = [umrefc EXCEPT ![uix[u]] = @ - 1]
    /\ uix' = [uix EXCEPT ![u] = IF upc[u] = "delayRetry" THEN 1 - @ ELSE 0]
    /\ Quiescent(u)
    /\ UGoto(u, IF upc[u] = "delaying"
                THEN IF umrefc[uix[u]] = 1 THEN "continueFlags" ELSE "idle"
                ELSE IF umrefc[uix[u]] = 1 THEN "retryFlags" ELSE "delayInc")
    /\ UNCHANGED <<valueVars, leaderVars, active, lflgs, umix, miscWait,
                   managedCount, blockVars, sleeping, wakeVars, pc, localVars,
                   utmp, woken, later>>

\* Where unmanaged_continue returns to
Continued(u) ==
    UGoto(u, IF upc[u] \in {"continueFlags", "continueGsw"} THEN "idle" ELSE "delayInc")

ContinueFlags(u) ==
    /\ upc[u] \in {"continueFlags", "retryFlags"}
    /\ \/ /\ lflgs.noLeader /\ lflgs.waitingUM /\ lflgs.active = 0
          /\ UGoto(u, IF upc[u] = "continueFlags" THEN "continueGsw" ELSE "retryGsw")
       \/ /\ ~(lflgs.noLeader /\ lflgs.waitingUM /\ lflgs.active = 0)
          /\ Continued(u)
    /\ UNCHANGED <<coreVars, blockVars, sleeping, wakeVars, pc, localVars, uix,
                   utmp, woken, opVars>>

\* got_sched_wakeups and wakeup_managed(1); utmp is the loop's index
ContinueGsw(u) ==
    /\ upc[u] \in {"continueGsw", "retryGsw"}
    /\ \/ /\ WakeupLen(utmp[u]) # 0
          /\ Poke({1})
          /\ utmp' = [utmp EXCEPT ![u] = 0]
          /\ Continued(u)
       \/ /\ WakeupLen(utmp[u]) = 0
          /\ utmp[u] < LastLen
          /\ utmp' = [utmp EXCEPT ![u] = @ + 1]
          /\ UNCHANGED <<upc, sleeping>>
       \/ /\ WakeupLen(utmp[u]) = 0
          /\ utmp[u] = LastLen
          /\ utmp' = [utmp EXCEPT ![u] = 0]
          /\ Continued(u)
          /\ UNCHANGED sleeping
    /\ UNCHANGED <<coreVars, blockVars, wakeVars, pc, localVars, uix, woken,
                   opVars>>

-----------------------------------------------------------------------------
(* Unmanaged threads that wait for thread progress as the async threads do *)
(* (erl_async.c): reset the event, look, request a wakeup, wait.           *)

ULater(u) ==
    /\ upc[u] = "idle"
    /\ u \in Initiators
    /\ later[u] = NONE
    /\ CurrentToLater(current) <= MaxVal
    /\ later' = [later EXCEPT ![u] = CurrentToLater(current)]
    /\ pend' = [pend EXCEPT ![u] = Busy]
    /\ UGoto(u, IF u \in Requesters THEN "reset" ELSE "idle")
    /\ UNCHANGED <<coreVars, blockVars, sleeping, wakeVars, pc, localVars, uix,
                   utmp, woken>>

UReset(u) ==
    /\ \/ upc[u] = "reset"
       \/ upc[u] = "wait" /\ woken[u]
    /\ woken' = [woken EXCEPT ![u] = FALSE]
    /\ UGoto(u, "inspect")
    /\ UNCHANGED <<coreVars, blockVars, sleeping, wakeVars, pc, localVars, uix,
                   utmp, opVars>>

UFinish(u) ==
    /\ upc[u] \in {"idle", "inspect"}
    /\ Finish(u)
    /\ UGoto(u, "idle")
    /\ UNCHANGED <<coreVars, blockVars, sleeping, wakeVars, pc, localVars, uix,
                   utmp, woken>>

UNotYet(u) ==
    /\ upc[u] = "inspect"
    /\ ~HasReached(later[u])
    /\ UGoto(u, "request")
    /\ UNCHANGED <<coreVars, blockVars, sleeping, wakeVars, pc, localVars, uix,
                   utmp, woken, opVars>>

\* request_wakeup_unmanaged: progress may pass the value while the request
\* is being written, so it is looked at again at the end.
URequest(u) ==
    /\ upc[u] = "request"
    /\ \/ /\ HasReached(later[u])
          /\ woken' = [woken EXCEPT ![u] = TRUE]
          /\ UGoto(u, "wait")
       \/ /\ ~HasReached(later[u])
          /\ UGoto(u, IF ureq[u][WakeupIx(later[u])] = later[u]
                      THEN "wait" ELSE "requestLow")
          /\ UNCHANGED woken
    /\ UNCHANGED <<coreVars, blockVars, sleeping, wakeVars, pc, localVars, uix,
                   utmp, opVars>>

URequestLow(u) ==
    /\ upc[u] = "requestLow"
    /\ ulow' = [ulow EXCEPT ![WakeupIx(later[u])][Word[u]] = @ \cup {u}]
    /\ UGoto(u, "requestHigh")
    /\ UNCHANGED <<coreVars, blockVars, sleeping, mlen, mid, mreq, ulen, uhigh,
                   ureq, hw, pc, localVars, uix, utmp, woken, opVars>>

URequestHigh(u) ==
    /\ upc[u] = "requestHigh"
    /\ uhigh' = [uhigh EXCEPT ![WakeupIx(later[u])] = @ \cup {Word[u]}]
    /\ UGoto(u, "requestLen")
    /\ UNCHANGED <<coreVars, blockVars, sleeping, mlen, mid, mreq, ulen, ulow,
                   ureq, hw, pc, localVars, uix, utmp, woken, opVars>>

URequestLen(u) ==
    /\ upc[u] = "requestLen"
    /\ ulen' = [ulen EXCEPT ![WakeupIx(later[u])] = @ + 1]
    /\ UGoto(u, "requestCheck")
    /\ UNCHANGED <<coreVars, blockVars, sleeping, mlen, mid, mreq, uhigh, ulow,
                   ureq, hw, pc, localVars, uix, utmp, woken, opVars>>

\* Mutant: the value is not looked at again after the request was written.
URequestOnce(u) ==
    /\ upc[u] = "requestCheck"
    /\ ureq' = [ureq EXCEPT ![u][WakeupIx(later[u])] = later[u]]
    /\ UGoto(u, "wait")
    /\ UNCHANGED <<coreVars, blockVars, sleeping, mlen, mid, mreq, ulen, uhigh,
                   ulow, hw, pc, localVars, uix, utmp, woken, opVars>>

URequestCheck(u) ==
    /\ upc[u] = "requestCheck"
    /\ \/ /\ HasReached(later[u])
          /\ woken' = [woken EXCEPT ![u] = TRUE]
          /\ UNCHANGED ureq
       \/ /\ ~HasReached(later[u])
          /\ ureq' = [ureq EXCEPT ![u][WakeupIx(later[u])] = later[u]]
          /\ UNCHANGED woken
    /\ UGoto(u, "wait")
    /\ UNCHANGED <<coreVars, blockVars, sleeping, mlen, mid, mreq, ulen, uhigh,
                   ulow, hw, pc, localVars, uix, utmp, opVars>>

-----------------------------------------------------------------------------
RegisterStep(i) ==
    Register(i) \/ RegisterCount(i) \/ RegisterWait(i) \/ RegisterRead(i)

UpdateStep(i) ==
    UpdateRead(i) \/ UpdateConfirm(i) \/ UpdateFlags(i) \/ UpdateTake(i)

LeaderStep(i) ==
    \/ NotLeader(i) \/ TakeOver(i) \/ ContinueCheck(i)
    \/ CheckManaged(i) \/ CheckUnmanaged(i)
    \/ FlipUmrefc(i) \/ RecheckUnmanaged(i)
    \/ Advance(i) \/ Publish(i) \/ Progressed(i)
    \/ StayLeader(i) \/ Relinquish(i) \/ Relinquished(i) \/ RelinquishGsw(i)

HandleStep(i) ==
    \/ HandleManaged(i) \/ WakeManaged(i) \/ ClearManaged(i)
    \/ HandleUnmanaged(i) \/ ReadHigh(i) \/ WakeLow(i)
    \/ ClearLow(i) \/ ClearHigh(i) \/ ClearUnmanaged(i)

SleepStep(i) ==
    \/ PrepareWait(i) \/ PrepareEvent(i) \/ PrepareStore(i)
    \/ PrepareFlags(i) \/ PrepareGsw(i) \/ Wake(i)
    \/ FinalizeRead(i) \/ FinalizeSet(i) \/ FinalizeCheck(i) \/ FinalizeInc(i)

BlockThreadStep(i) ==
    \/ BlockThread(i) \/ BlockEvent(i) \/ BlockPrepare(i)
    \/ BlockFlags(i) \/ BlockWait(i) \/ BlockInc(i)

BlockStep(i) ==
    \/ BlockRequest(i) \/ BlockSetEvent(i) \/ BlockDec(i) \/ BlockBlocking(i)
    \/ BlockTse(i) \/ BlockRead(i)
    \/ Unblock(i) \/ UnblockEvent(i) \/ UnblockNotBlocking(i)
    \/ UnblockFlag(i) \/ UnblockWake(i)

RequestStep(i) == RequestManaged(i) \/ RequestLen(i) \/ RequestId(i)

AuxStep(i) == AuxActivate(i) \/ AuxFinish(i) \/ AuxSleep(i) \/ IdleRun(i)

\* What a managed thread does inside the thread progress functionality, and
\* outside it without choosing
InternalStep(i) ==
    \/ RegisterStep(i) \/ UpdateStep(i) \/ LeaderStep(i) \/ HandleStep(i)
    \/ SleepStep(i) \/ BlockThreadStep(i) \/ BlockStep(i) \/ RequestStep(i)
    \/ AuxStep(i)

ManagedStep(i) ==
    \/ InternalStep(i) \/ CallUpdate(i) \/ CallBlock(i) \/ Later(i)
    \/ CallWakeup(i) \/ FinishManaged(i) \/ PrepareSleep(i) \/ OtherWakeup(i)

DelayStep(u) ==
    \/ DelayRead(u) \/ DelayInc(u) \/ DelayCheck(u)
    \/ Continue(u) \/ ContinueFlags(u) \/ ContinueGsw(u)

URequestStep(u) ==
    \/ UReset(u) \/ UFinish(u) \/ UNotYet(u)
    \/ URequest(u) \/ URequestLow(u) \/ URequestHigh(u)
    \/ URequestLen(u) \/ URequestCheck(u)

UnmanagedStep(u) == DelayStep(u) \/ ULater(u) \/ URequestStep(u)

Next == (\E i \in Managed : ManagedStep(i)) \/ (\E u \in Unmanaged : UnmanagedStep(u))

Spec == Init /\ [][Next]_vars

-----------------------------------------------------------------------------
(* Properties                                                              *)

\* The places of a managed thread: update, leader_update before and after the
\* new value is published, block_thread, block and unblock, request_wakeup
RegisterPc == {"register", "registerCount", "registerWait", "registerRead"}
TakePc == {"updateConfirm", "updateFlags", "updateTake", "updateTakeBlock"}
UpdatePc == TakePc \cup {"update", "leaderUpdate"}
CheckedPc == {"flip", "recheck", "advance", "publish"}
HandlePc == {"handleManaged", "wakeManaged", "handleUnmanaged", "readHigh",
             "wakeLow", "clearLow", "clearUnmanaged"}
PublishedPc == HandlePc \cup {"progressed"}
LeadPc == {"check", "done"} \cup CheckedPc \cup PublishedPc
BlockThreadPc == {"blockThread", "blockEvent", "blockPrepare", "blockFlags",
                  "blockWait", "blockInc"}
BlockerPc == {"block", "blockSetEvent", "blockDec", "blockBlocking", "blockTse",
              "blockRead", "blocked", "unblockEvent", "unblockNotBlocking",
              "unblockFlag", "unblockWake"}
RequestPc == {"request", "requestLen", "requestId"}

\* A thread in one of these places is inactive.
InactivePc ==
    AsleepPc \cup {"relinquished", "relinquishGsw", "prepare", "prepareEvent",
                   "prepareStore", "finalizeInc", "idle"}

ManagedPc ==
    RegisterPc \cup UpdatePc \cup LeadPc \cup BlockThreadPc \cup BlockerPc
        \cup RequestPc \cup InactivePc \cup {"run", "auxWork"}

DelayPc == {"delayInc", "delayCheck", "delayRetry", "delaying", "continueFlags",
            "retryFlags", "continueGsw", "retryGsw"}
UnmanagedPc ==
    DelayPc \cup {"idle", "reset", "inspect", "request", "requestLow",
                  "requestHigh", "requestLen", "requestCheck", "wait"}

ValueType ==
    /\ current \in Val
    /\ thr \in [Managed -> Val \cup {VAL_WAITING}]
    /\ confirmed \in [Managed -> Val \cup {VAL_WAITING}]

LeaderType ==
    /\ leader \in [Managed -> BOOLEAN]
    /\ lcur \in [Managed -> Val \cup {VAL_WAITING}]
    /\ lchk \in [Managed -> 0 .. NoManaged]
    /\ lwait \in [Managed -> {NONE, 0, 1}]
    /\ wum \in [Managed -> BOOLEAN]

FlagType ==
    lflgs \in [block : BOOLEAN, noLeader : BOOLEAN, waitingUM : BOOLEAN, active : Int]

UmType ==
    /\ umix \in {0, 1}
    /\ miscWait \in {NONE, 0, 1}
    /\ umrefc \in [{0, 1} -> Int]

BlockType ==
    /\ blockCount \in Int
    /\ notBlocking \in BOOLEAN
    /\ blockerEvent \in Managed \cup {NONE}
    /\ evSet \in BOOLEAN

WakeType ==
    /\ mlen \in [Slot -> Nat]
    /\ mid \in [Slot -> [Managed -> Managed \cup {NONE}]]
    /\ mreq \in [Managed -> [Slot -> Int]]
    /\ ulen \in [Slot -> Nat]
    /\ uhigh \in [Slot -> SUBSET Words]
    /\ ulow \in [Slot -> [Words -> SUBSET Unmanaged]]
    /\ ureq \in [Unmanaged -> [Slot -> Int]]
    /\ hw \in [len : Nat, hmask : SUBSET Words]

LocalType ==
    /\ uret \in [Managed -> {"run", "prepare", "idle"}]
    /\ bret \in [Managed -> {"run", "prepare", "idle", "relinquished", "update", "block"}]
    /\ val \in [Managed -> Val]
    /\ ix \in [Managed -> Nat]

UnmanagedType ==
    /\ upc \in [Unmanaged -> UnmanagedPc]
    /\ uix \in [Unmanaged -> {0, 1}]
    /\ utmp \in [Unmanaged -> Nat]
    /\ woken \in [Unmanaged -> BOOLEAN]

OpType ==
    /\ later \in [Thread -> Nat \cup {NONE}]
    /\ pend \in [Thread -> SUBSET Thread]

\* Every variable has its type.  (A reference count, a block count or a count
\* of active threads is an integer here; what they count is said elsewhere.)
TypeOK ==
    /\ ValueType /\ LeaderType /\ FlagType /\ UmType /\ BlockType /\ WakeType
    /\ LocalType /\ UnmanagedType /\ OpType
    /\ active \in [Managed -> BOOLEAN]
    /\ sleeping \in [Managed -> BOOLEAN]
    /\ managedCount \in Nat
    /\ pc \in [Managed -> ManagedPc]

\* The promise of erts_thr_progress_later: when the value it returned has
\* been reached, every managed thread that was running then has since executed
\* a full barrier outside other code, and every unmanaged thread that was
\* delaying progress has continued.
GracePeriod ==
    \A t \in Thread : later[t] # NONE /\ HasReached(later[t]) => pend[t] = {}

\* "Latest confirmed value" versus "global value": an awake thread's value is
\* the global one or its successor; only the leader, between its two stores,
\* is one further.  A thread that is waking up may lag but is never ahead.
\* The assertion in leader_update's loop follows from it.
ConfirmedWindow ==
    \A i \in Managed :
        \/ thr[i] = VAL_WAITING /\ Asleep(i)
        \/ thr[i] \in {current, Inc(current)}
        \/ pc[i] = "publish" /\ thr[i] = Inc(Inc(current))
        \/ pc[i] \in {"finalizeSet", "finalizeCheck"} /\ HasPassed(current, thr[i])

\* update and leader_update hand leadership over: at most one thread is
\* leader, the NO_LEADER flag says whether there is none, and a thread that
\* sleeps is not leader (or nobody would make progress).
LeaderUnique ==
    /\ \A i, j \in Managed : leader[i] /\ leader[j] => i = j
    /\ lflgs.noLeader <=> \A i \in Managed : ~leader[i]
    /\ \A i \in Managed : leader[i] => ~Asleep(i)

\* Where a thread is out of the way of a blocker
ParkedPc ==
    AsleepPc \cup BlockThreadPc \cup {"prepareEvent", "prepareStore", "finalizeInc"}

\* erts_thr_progress_block returns when no other managed thread executes:
\* each of them sleeps or waits in block_thread until the unblock.
BlockExclusive ==
    \A i, j \in Managed : pc[i] = "blocked" /\ i # j => pc[j] \in ParkedPc

Handling == \E i \in Managed : pc[i] \in HandlePc

\* request_wakeup_managed writes the length and the id in two steps.  The
\* leader never reads an id that has not been written, and what it wakes did
\* ask for a value that has been reached.
WakeupIdsWritten ==
    \A i \in Managed : pc[i] = "wakeManaged" /\ ix[i] < hw.len =>
        LET j == mid[WakeSlot][ix[i]]
        IN  j \in Managed /\ mreq[j][WakeSlot] = current

\* A managed thread that asked for a wakeup does not sleep on after the value
\* was reached and the leader has served the requests.
ManagedWakeupKept ==
    \A i \in Managed \cap Requesters :
        pc[i] = "sleep" /\ sleeping[i] /\ later[i] # NONE /\ HasReached(later[i])
            => Handling \/ (Registered(i, Inc(later[i])) /\ ~HasReached(Inc(later[i])))

\* The same for an unmanaged thread, whose request may be written while the
\* leader serves the same slot.
UnmanagedWakeupKept ==
    \A u \in Unmanaged :
        upc[u] = "wait" /\ ~woken[u] /\ HasReached(later[u]) => Handling

\* Progress does not die out: when all managed threads sleep and nobody delays
\* progress, no managed thread still waits for progress it asked for.
NobodyForgotten ==
    (/\ \A i \in Managed : pc[i] = "sleep" /\ sleeping[i]
     /\ \A u \in Unmanaged : upc[u] \in {"idle", "wait"})
        => \A i \in Managed \cap Requesters : later[i] = NONE

\* The threads unblock has still to look at
StillToWake(i) ==
    IF ix[i] < i THEN ix[i] .. i - 1 ELSE {j \in Managed : j >= ix[i] \/ j < i}

\* erts_thr_progress_unblock forgets nobody: a thread sleeps in block_thread
\* only while a block is on or the thread that ended it has still to wake it.
BlockedWakeupKept ==
    \A j \in Managed : pc[j] = "blockWait" /\ sleeping[j] =>
        \/ lflgs.block
        \/ \E i \in Managed : pc[i] = "unblockWake" /\ j \in StillToWake(i)

\* block_count_dec decrements and sets the blocker's event in two steps: a
\* blocker does not wait for its event when everybody else is blocked already
\* and nobody is about to set it.
BlockerWakeupKept ==
    \A i \in Managed : pc[i] = "blockTse" /\ ~evSet /\ blockCount = 0 =>
        \E j \in Managed : pc[j] \in {"prepareEvent", "blockEvent"}

-----------------------------------------------------------------------------
(* Fairness: a thread inside the functionality goes on (every step of it   *)
(* is taken by the thread itself); a running managed thread calls update   *)
(* frequently and looks at its operations, as its registration obliges it  *)
(* to; an unmanaged thread that delays progress continues at some time.    *)
(* Nobody has to sleep, to be woken by anything but thread progress, to    *)
(* start an operation, to block or to delay progress.                      *)

UInternalStep(u) ==
    \/ DelayInc(u) \/ DelayCheck(u) \/ Continue(u)
    \/ ContinueFlags(u) \/ ContinueGsw(u) \/ URequestStep(u)

Fairness ==
    /\ \A i \in Managed : /\ WF_vars(InternalStep(i))
                          /\ SF_vars(CallUpdate(i))
                          /\ SF_vars(FinishManaged(i))
    /\ \A u \in Unmanaged : WF_vars(UInternalStep(u))

FairSpec == Spec /\ Fairness

\* A managed thread that asked for a wakeup (request_wakeup_managed) gets to
\* finish its operation, even if every managed thread goes to sleep; a thread
\* that blocks over and over can prevent it.
RequestServed ==
    \A i \in Managed \cap Requesters : later[i] # NONE ~> later[i] = NONE

\* While threads are in erts_thr_progress_block, time and again one of them
\* returns; of two of them that block over and over one may always lose.
BlockReturns ==
    \A i \in Blockers : pc[i] = "block" ~> \E j \in Blockers : pc[j] = "blocked"
=============================================================================
