--------------------------- MODULE ThrProgressInv ---------------------------
(***************************************************************************)
(* The inductive invariants of ThrProgress: the one from which GracePeriod *)
(* follows, part by part, as long as the counter does not wrap, and the    *)
(* one from which the properties of blocking follow.                       *)
(***************************************************************************)
EXTENDS ThrProgress

\* The counter stays well below its largest value, 2^64 - 2 in the code.
NoWrap == Quarter > 4 /\ MaxVal <= 3 * Quarter

\* Thread i is a leader that has run leader_update's takeover.
Leads(i) == lcur[i] # VAL_WAITING
NobodyLeads == \A i \in Managed : ~Leads(i)

\* An active thread returns to running code; an inactive leader resigns before
\* it leaves leader_update.
ControlInv ==
    \A i \in Managed :
        /\ active[i] => /\ pc[i] \notin InactivePc
                        /\ pc[i] \in UpdatePc \cup LeadPc => uret[i] = "run"
                        /\ pc[i] \in BlockThreadPc => bret[i] \in {"run", "block"}
        /\ leader[i] => pc[i] \notin TakePc
        /\ leader[i] /\ ~active[i] => pc[i] \in {"update", "leaderUpdate"} \cup LeadPc
        /\ leader[i] /\ ~Leads(i) => pc[i] = "leaderUpdate"
        /\ pc[i] \in LeadPc => Leads(i)
        /\ Leads(i) => leader[i]
        /\ pc[i] \in {"requestLen", "requestId"} => val[i] \in Slot

\* The value of a thread around the global one
ValueOK(i) ==
    /\ ~Asleep(i) => /\ confirmed[i] \in {current, current + 1}
                     /\ pc[i] # "publish" => thr[i] = confirmed[i]
    /\ pc[i] = "publish" => thr[i] = current + 2
    /\ Leads(i) => lcur[i] = current /\ confirmed[i] = current + 1
    /\ pc[i] \in CheckedPc \cup {"check"} => current < MaxVal
    /\ pc[i] \in {"prepareFlags", "prepareGsw", "sleep", "finalize"}
           => thr[i] = VAL_WAITING
    /\ pc[i] \in {"updateConfirm", "finalizeSet", "finalizeCheck"}
           => val[i] <= current
    /\ pc[i] = "finalizeSet" => thr[i] = VAL_WAITING \/ thr[i] <= current
    /\ pc[i] = "finalizeCheck" => thr[i] = val[i] + 1 /\ confirmed[i] = thr[i]

ValueInv == current <= MaxVal /\ \A i \in Managed : ValueOK(i)

\* What the leader has checked of the first n threads stays true.
Ready(j) == Asleep(j) \/ thr[j] = current + 1
Prefix(i, n) == \A j \in Managed : j < n => j = i \/ Ready(j)

CheckInv ==
    \A i \in Managed : Leads(i) =>
        /\ pc[i] \notin PublishedPc => Prefix(i, lchk[i])
        /\ pc[i] = "check" => Prefix(i, ix[i])
        /\ pc[i] \in CheckedPc => Prefix(i, NoManaged)

\* The unmanaged threads that have incremented reference count k
CountedPc == {"delayCheck", "delayRetry", "delaying"}
Counted(k) == {u \in Unmanaged : upc[u] \in CountedPc /\ uix[u] = k}

CountInv == \A k \in {0, 1} : umrefc[k] = Cardinality(Counted(k))

\* w: the index waited for, as the leader or the last one knows it
WaitingIx(w) ==
    /\ w \in {NONE, 1 - umix}
    /\ \A u \in Unmanaged : Delaying(u) => uix[u] \in {umix, w}

DelayInv ==
    /\ NobodyLeads => WaitingIx(miscWait)
    /\ \A i \in Managed : Leads(i) =>
        /\ WaitingIx(lwait[i])
        /\ pc[i] = "flip" => lwait[i] = NONE
        /\ pc[i] = "recheck" => lwait[i] # NONE /\ wum[i]
        /\ pc[i] \in PublishedPc \cup {"advance", "publish"} =>
               /\ wum[i] <=> lwait[i] # NONE
               /\ \A u \in Unmanaged : Delaying(u) => uix[u] # lwait[i]

\* Progress cannot be made past a delay of reference count h.
Held(h) ==
    /\ NobodyLeads => miscWait = h \/ (umix = h /\ miscWait = NONE)
    /\ \A i \in Managed : Leads(i) =>
        /\ pc[i] \notin {"advance", "publish"}
        /\ lwait[i] = h \/ (umix = h /\ (lwait[i] = NONE \/ pc[i] \in PublishedPc))

\* Why the value v of an operation that waits for the threads of S has not
\* been reached
Waits(v, S) ==
    /\ v <= MaxVal
    /\ \A i \in Managed \cap S : ~Asleep(i) /\ confirmed[i] < v
    /\ \A u \in Unmanaged \cap S :
        /\ Delaying(u)
        /\ v >= current + 2 \/ (v = current + 1 /\ Held(uix[u]))

PendInv == \A t \in Thread : Waits(later[t], pend[t])

\* What erts_thr_progress_update and leader_update keep whatever the values are:
\* the types, where each thread is in its code, and that only one thread at a time
\* has taken the leader flag.
SafeInv == TypeOK /\ ControlInv /\ LeaderUnique

\* What makes leader_update's checks sufficient: the values of the threads, what
\* the leader has checked so far, the two reference counts of unmanaged threads,
\* which of them is waited for, and why each operation still waits.
GraceInv == ValueInv /\ CheckInv /\ CountInv /\ DelayInv /\ PendInv
-----------------------------------------------------------------------------
(* The invariant behind the properties of blocking                         *)

\* Where a thread is after it has decremented the block count, and from where
\* to where one has the BLOCK flag, has made its event known, and has said that
\* it waits for the count
OutPc ==
    AsleepPc \cup {"prepareEvent", "prepareStore", "finalizeInc", "blockEvent",
                   "blockPrepare", "blockFlags", "blockWait", "blockInc",
                   "blockBlocking", "blockTse", "blockRead", "blocked"}
FlagPc == {"blockSetEvent", "blockDec", "blockBlocking", "blockTse", "blockRead",
           "blocked", "unblockEvent", "unblockNotBlocking", "unblockFlag"}
EventPc == FlagPc \ {"blockSetEvent", "unblockNotBlocking", "unblockFlag"}
BlockingPc == EventPc \ {"blockDec", "blockBlocking"}

\* The threads that block_count counts
BlockCounted == {i \in Managed : pc[i] \notin OutPc}

\* What unblock needs to know of a thread that waits in block_thread
AwakeInv ==
    \A i \in Managed : pc[i] \notin AsleepPc \ {"finalizeCheck"} => thr[i] # VAL_WAITING

\* The flags and the event belong to the one thread that blocks.
BlockerInv ==
    /\ \A i, j \in Managed : pc[i] \in FlagPc /\ pc[j] \in FlagPc => i = j
    /\ \A i \in Managed : pc[i] \in FlagPc => lflgs.block
    /\ \A i \in Managed : pc[i] \in EventPc => blockerEvent = i
    /\ \A i \in Managed : pc[i] \in BlockingPc \cup {"unblockNotBlocking"} => ~notBlocking
    /\ \A i \in Managed : pc[i] = "unblockWake" => ix[i] \in Managed \ {i}

\* What block_thread, erts_thr_progress_block and erts_thr_progress_unblock rely
\* on: the block count is what it says, one thread blocks, and nobody misses the
\* event or the wakeup that ends the wait.
BlockInv ==
    /\ blockCount = Cardinality(BlockCounted)
    /\ AwakeInv /\ BlockerInv
    /\ BlockExclusive /\ BlockerWakeupKept /\ BlockedWakeupKept
=============================================================================
