----------------------- MODULE ThrProgressBlockProofs -----------------------
(***************************************************************************)
(* Proofs about erts_thr_progress_block, erts_thr_progress_unblock and     *)
(* block_thread: when a block returns nobody else executes, and neither    *)
(* the blocker's event nor the wakeups that end a block are missed.  Most  *)
(* actions are calm: they leave the block count, the flag and the event    *)
(* alone and go neither into nor out of block.                             *)
(***************************************************************************)
EXTENDS ThrProgressPendProofs, FiniteSetTheorems

\* What no step of managed thread i does to another managed thread
OthersLeft(i) ==
    \A j \in Managed \ {i} :
        pc'[j] = pc[j] /\ ix'[j] = ix[j] /\ (sleeping'[j] => sleeping[j])

\* The places from or to which a step is not calm, and those of them where a
\* thread sleeps or waits in block_thread
BlockWatched == OutPc \cup FlagPc \cup {"unblockWake"}
RestPc == AsleepPc \cup {"prepareStore", "finalizeInc", "blockPrepare", "blockFlags",
                         "blockWait", "blockInc"}

\* What the actions that are not about blocking have in common
Calm(i) ==
    /\ UNCHANGED blockVars /\ lflgs'.block = lflgs.block
    /\ OthersLeft(i)
    /\ \/ pc[i] \notin BlockWatched \cup {"blockThread"} /\ pc'[i] \notin BlockWatched
       \/ /\ pc[i] \in RestPc /\ pc'[i] \in RestPc
          /\ pc'[i] = "blockWait" /\ sleeping'[i] =>
                lflgs.block \/ (pc[i] = "blockWait" /\ sleeping[i])

\* The actions that enter or leave block_thread or sleep, that block, and that
\* unblock
Parking(i) ==
    \/ PrepareWait(i) \/ PrepareEvent(i) \/ FinalizeInc(i)
    \/ BlockThread(i) \/ BlockEvent(i) \/ BlockInc(i)
BlockSpecial(i) == Parking(i) \/ BlockStep(i)

-----------------------------------------------------------------------------
(* Calm steps and steps of unmanaged threads                               *)

\* Every step of a managed thread is calm or about blocking.
LEMMA CalmOrSpecial ==
    ASSUME TypeOK, NEW i \in Managed, ManagedStep(i) PROVE Calm(i) \/ BlockSpecial(i)
<1> USE ZenonT(30)
<1> /\ pc \in [Managed -> ManagedPc] /\ ix \in [Managed -> Nat]
    /\ sleeping \in [Managed -> BOOLEAN]
    /\ lflgs \in [block : BOOLEAN, noLeader : BOOLEAN, waitingUM : BOOLEAN, active : Int]
    /\ uret \in [Managed -> {"run", "prepare", "idle"}]
    /\ bret \in [Managed -> {"run", "prepare", "idle", "relinquished", "update", "block"}]
  BY DEF TypeOK, LocalType, FlagType
<1> USE DEF Calm, OthersLeft, BlockWatched, RestPc, OutPc, FlagPc, AsleepPc, Poke, Goto,
            coreVars, restVars, localVars
<1>1. CASE RegisterStep(i)
  <2>1. CASE Register(i)
    BY <2>1 DEF Register
  <2>2. CASE RegisterCount(i)
    BY <2>2 DEF RegisterCount
  <2>3. CASE RegisterWait(i)
    BY <2>3 DEF RegisterWait
  <2>4. CASE RegisterRead(i)
    BY <2>4 DEF RegisterRead
  <2> HIDE DEF Calm
  <2> QED BY <1>1, <2>1, <2>2, <2>3, <2>4
      DEF RegisterStep
<1>2. CASE UpdateStep(i)
  <2>1. CASE UpdateRead(i)
    BY <2>1 DEF UpdateRead
  <2>2. CASE UpdateConfirm(i)
    BY <2>2 DEF UpdateConfirm
  <2>3. CASE UpdateFlags(i)
    BY <2>3 DEF UpdateFlags
  <2>4. CASE UpdateTake(i)
    BY <2>4 DEF UpdateTake
  <2> HIDE DEF Calm
  <2> QED BY <1>2, <2>1, <2>2, <2>3, <2>4
      DEF UpdateStep
<1>3. CASE LeaderStep(i)
  <2>1. CASE NotLeader(i)
    BY <2>1 DEF NotLeader, CallBlockThread
  <2>2. CASE TakeOver(i)
    BY <2>2 DEF TakeOver, StartCheck
  <2>3. CASE ContinueCheck(i)
    BY <2>3 DEF ContinueCheck, StartCheck
  <2>4. CASE CheckManaged(i)
    BY <2>4 DEF CheckManaged
  <2>5. CASE CheckUnmanaged(i)
    BY <2>5 DEF CheckUnmanaged
  <2>6. CASE FlipUmrefc(i)
    BY <2>6 DEF FlipUmrefc
  <2>7. CASE RecheckUnmanaged(i)
    BY <2>7 DEF RecheckUnmanaged
  <2>8. CASE Advance(i)
    BY <2>8 DEF Advance
  <2>9. CASE Publish(i)
    BY <2>9 DEF Publish
  <2>10. CASE Progressed(i)
    BY <2>10 DEF Progressed
  <2>11. CASE StayLeader(i)
    BY <2>11 DEF StayLeader, CallBlockThread
  <2>12. CASE Relinquish(i)
    BY <2>12 DEF Relinquish, CallBlockThread
  <2>13. CASE Relinquished(i)
    BY <2>13 DEF Relinquished
  <2>14. CASE RelinquishGsw(i)
    BY <2>14 DEF RelinquishGsw, GotSchedWakeups
  <2> HIDE DEF Calm
  <2> QED BY <1>3, <2>1, <2>2, <2>3, <2>4, <2>5, <2>6, <2>7, <2>8, <2>9, <2>10, <2>11, <2>12, <2>13, <2>14
      DEF LeaderStep
<1>4. CASE HandleStep(i)
  <2>1. CASE HandleManaged(i)
    BY <2>1 DEF HandleManaged
  <2>2. CASE WakeManaged(i)
    BY <2>2 DEF WakeManaged
  <2>3. CASE ClearManaged(i)
    BY <2>3 DEF ClearManaged
  <2>4. CASE HandleUnmanaged(i)
    BY <2>4 DEF HandleUnmanaged
  <2>5. CASE ReadHigh(i)
    BY <2>5 DEF ReadHigh
  <2>6. CASE WakeLow(i)
    BY <2>6 DEF WakeLow
  <2>7. CASE ClearLow(i)
    BY <2>7 DEF ClearLow
  <2>8. CASE ClearHigh(i)
    BY <2>8 DEF ClearHigh
  <2>9. CASE ClearUnmanaged(i)
    BY <2>9 DEF ClearUnmanaged
  <2> HIDE DEF Calm
  <2> QED BY <1>4, <2>1, <2>2, <2>3, <2>4, <2>5, <2>6, <2>7, <2>8, <2>9
      DEF HandleStep
<1>5. CASE SleepStep(i)
  <2>1. CASE PrepareStore(i)
    BY <2>1 DEF PrepareStore
  <2>2. CASE PrepareFlags(i)
    BY <2>2 DEF PrepareFlags
  <2>3. CASE PrepareGsw(i)
    BY <2>3 DEF PrepareGsw, GotSchedWakeups
  <2>4. CASE Wake(i)
    BY <2>4 DEF Wake
  <2>5. CASE FinalizeRead(i)
    BY <2>5 DEF FinalizeRead
  <2>6. CASE FinalizeSet(i)
    BY <2>6 DEF FinalizeSet
  <2>7. CASE FinalizeCheck(i)
    BY <2>7 DEF FinalizeCheck
  <2> HIDE DEF Calm
  <2> QED BY <1>5, <2>1, <2>2, <2>3, <2>4, <2>5, <2>6, <2>7
      DEF SleepStep, BlockSpecial, Parking
<1>6. CASE BlockThreadStep(i)
  <2>1. CASE BlockPrepare(i)
    BY <2>1 DEF BlockPrepare
  <2>2. CASE BlockFlags(i)
    BY <2>2 DEF BlockFlags
  <2>3. CASE BlockWait(i)
    BY <2>3 DEF BlockWait
  <2> HIDE DEF Calm
  <2> QED BY <1>6, <2>1, <2>2, <2>3
      DEF BlockThreadStep, BlockSpecial, Parking
<1>7. CASE RequestStep(i)
  <2>1. CASE RequestManaged(i)
    BY <2>1 DEF RequestManaged
  <2>2. CASE RequestLen(i)
    BY <2>2 DEF RequestLen
  <2>3. CASE RequestId(i)
    BY <2>3 DEF RequestId
  <2> HIDE DEF Calm
  <2> QED BY <1>7, <2>1, <2>2, <2>3
      DEF RequestStep
<1>8. CASE AuxStep(i)
  <2>1. CASE AuxActivate(i)
    BY <2>1 DEF AuxActivate, Activate
  <2>2. CASE AuxFinish(i)
    BY <2>2 DEF AuxFinish
  <2>3. CASE AuxSleep(i)
    BY <2>3 DEF AuxSleep
  <2>4. CASE IdleRun(i)
    BY <2>4 DEF IdleRun, Activate
  <2> HIDE DEF Calm
  <2> QED BY <1>8, <2>1, <2>2, <2>3, <2>4
      DEF AuxStep
<1>9. CASE \/ CallUpdate(i) \/ CallBlock(i) \/ Later(i) \/ CallWakeup(i)
          \/ FinishManaged(i) \/ PrepareSleep(i) \/ OtherWakeup(i)
  <2>1. CASE CallUpdate(i)
    BY <2>1 DEF CallUpdate
  <2>2. CASE CallBlock(i)
    BY <2>2 DEF CallBlock
  <2>3. CASE Later(i)
    BY <2>3 DEF Later
  <2>4. CASE CallWakeup(i)
    BY <2>4 DEF CallWakeup
  <2>5. CASE FinishManaged(i)
    BY <2>5 DEF FinishManaged
  <2>6. CASE PrepareSleep(i)
    BY <2>6 DEF PrepareSleep
  <2>7. CASE OtherWakeup(i)
    BY <2>7 DEF OtherWakeup
  <2> HIDE DEF Calm
  <2> QED BY <1>9, <2>1, <2>2, <2>3, <2>4, <2>5, <2>6, <2>7
<1> HIDE DEF Calm
<1> QED BY <1>1, <1>2, <1>3, <1>4, <1>5, <1>6, <1>7, <1>8, <1>9
    DEF ManagedStep, InternalStep, BlockSpecial

\* What the steps of an unmanaged thread leave alone
UCalm ==
    /\ UNCHANGED <<blockVars, lflgs, pc, ix, thr>>
    /\ \A j \in Managed : sleeping'[j] => sleeping[j]

\* An unmanaged thread does nothing about blocks, except that it may wake one.
LEMMA UnmanagedCalm ==
    ASSUME TypeOK, NEW u \in Unmanaged, UnmanagedStep(u) PROVE UCalm
<1> USE ZenonT(30)
<1> USE DEF UCalm, Poke, coreVars, valueVars, localVars
<1>1. CASE DelayStep(u)
  <2>1. CASE DelayRead(u)
    BY <2>1 DEF DelayRead
  <2>2. CASE DelayInc(u)
    BY <2>2 DEF DelayInc
  <2>3. CASE DelayCheck(u)
    BY <2>3 DEF DelayCheck
  <2>4. CASE Continue(u)
    BY <2>4 DEF Continue
  <2>5. CASE ContinueFlags(u)
    BY <2>5 DEF ContinueFlags
  <2>6. CASE ContinueGsw(u)
    BY <2>6 DEF ContinueGsw
  <2> HIDE DEF UCalm
  <2> QED BY <1>1, <2>1, <2>2, <2>3, <2>4, <2>5, <2>6 DEF DelayStep
<1>2. CASE URequestStep(u)
  <2>1. CASE UReset(u)
    BY <2>1 DEF UReset
  <2>2. CASE UFinish(u)
    BY <2>2 DEF UFinish
  <2>3. CASE UNotYet(u)
    BY <2>3 DEF UNotYet
  <2>4. CASE URequest(u)
    BY <2>4 DEF URequest
  <2>5. CASE URequestLow(u)
    BY <2>5 DEF URequestLow
  <2>6. CASE URequestHigh(u)
    BY <2>6 DEF URequestHigh
  <2>7. CASE URequestLen(u)
    BY <2>7 DEF URequestLen
  <2>8. CASE URequestCheck(u)
    BY <2>8 DEF URequestCheck
  <2> HIDE DEF UCalm
  <2> QED BY <1>2, <2>1, <2>2, <2>3, <2>4, <2>5, <2>6, <2>7, <2>8 DEF URequestStep
<1>3. CASE ULater(u)
  BY <1>3 DEF ULater
<1> QED BY <1>1, <1>2, <1>3 DEF UnmanagedStep

-----------------------------------------------------------------------------
(* The block count                                                         *)

BlockCountInv == blockCount = Cardinality(BlockCounted)

\* The threads that block_count counts are finitely many.
LEMMA BlockCountedFinite ==
    /\ IsFiniteSet(BlockCounted) /\ Cardinality(BlockCounted) \in Nat
    /\ IsFiniteSet(Managed) /\ Cardinality(Managed) = NoManaged
<1>1. IsFiniteSet(Managed) /\ Cardinality(Managed) = NoManaged
  BY FS_Interval, ThreadAssumption DEF Managed
<1>2. BlockCounted \subseteq Managed
  BY DEF BlockCounted
<1> QED BY <1>1, <1>2, FS_Subset, FS_CardinalityType

\* When the block count is 0 every thread has decremented it.
LEMMA BlockCountZero ==
    ASSUME BlockCountInv, blockCount = 0 PROVE \A j \in Managed : pc[j] \in OutPc
<1>1. BlockCounted = {}
  BY BlockCountedFinite, FS_EmptySet DEF BlockCountInv
<1> QED BY <1>1 DEF BlockCounted

\* A step that goes neither in nor out leaves what is counted as it is.
LEMMA BlockCountKept ==
    ASSUME BlockCountInv, NEW i \in Managed, OthersLeft(i), blockCount' = blockCount,
           pc'[i] \in OutPc <=> pc[i] \in OutPc
    PROVE  BlockCountInv'
<1>1. BlockCounted' = BlockCounted
  BY ZenonT(30) DEF BlockCounted, OthersLeft
<1> QED BY <1>1 DEF BlockCountInv

\* block_count_dec
LEMMA BlockCountDown ==
    ASSUME BlockCountInv, NEW i \in Managed, OthersLeft(i),
           blockCount' = blockCount - 1, pc[i] \notin OutPc, pc'[i] \in OutPc
    PROVE  BlockCountInv'
<1>1. BlockCounted' = BlockCounted \ {i} /\ i \in BlockCounted
  BY ZenonT(30) DEF BlockCounted, OthersLeft
<1>2. Cardinality(BlockCounted \ {i}) = Cardinality(BlockCounted) - 1
  BY <1>1, BlockCountedFinite, FS_RemoveElement, ZenonT(30)
<1> QED BY <1>1, <1>2, ZenonT(30) DEF BlockCountInv

\* block_count_inc
LEMMA BlockCountUp ==
    ASSUME BlockCountInv, NEW i \in Managed, OthersLeft(i),
           blockCount' = blockCount + 1, pc[i] \in OutPc, pc'[i] \notin OutPc
    PROVE  BlockCountInv'
<1>1. BlockCounted' = BlockCounted \cup {i} /\ i \notin BlockCounted
  BY ZenonT(30) DEF BlockCounted, OthersLeft
<1>2. Cardinality(BlockCounted \cup {i}) = Cardinality(BlockCounted) + 1
  BY <1>1, BlockCountedFinite, FS_AddElement, ZenonT(30)
<1> QED BY <1>1, <1>2, ZenonT(30) DEF BlockCountInv

-----------------------------------------------------------------------------
(* Steps of a thread that does not block                                   *)

\* A thread that neither blocks nor unblocks, before or after the step, keeps what
\* is said about the one that does: while that one is at "blocked" it does not
\* leave sleep or block_thread.
LEMMA BystanderKeeps ==
    ASSUME BlockInv, NEW i \in Managed, OthersLeft(i),
           UNCHANGED <<notBlocking, blockerEvent>>, lflgs'.block = lflgs.block,
           pc[i] \notin FlagPc \cup {"unblockWake"},
           pc'[i] \notin FlagPc \cup {"unblockWake"},
           notBlocking \/ (pc[i] \in ParkedPc => pc'[i] \in ParkedPc),
           pc'[i] = "blockWait" /\ sleeping'[i] =>
               lflgs.block \/ (pc[i] = "blockWait" /\ sleeping[i])
    PROVE  BlockerInv' /\ BlockExclusive' /\ BlockedWakeupKept'
<1> USE ZenonT(30)
<1>o. \A j \in Managed : j # i =>
        pc'[j] = pc[j] /\ ix'[j] = ix[j] /\ (sleeping'[j] => sleeping[j])
  BY DEF OthersLeft
<1>b. BlockerInv /\ BlockExclusive /\ BlockedWakeupKept
  BY DEF BlockInv
<1>1. BlockerInv'
  <2>1. /\ EventPc \subseteq FlagPc
        /\ BlockingPc \cup {"unblockNotBlocking"} \subseteq FlagPc
    BY DEF EventPc, BlockingPc, FlagPc
  <2> QED BY <1>o, <1>b, <2>1 DEF BlockerInv
<1>2. BlockExclusive'
  <2> SUFFICES ASSUME NEW k \in Managed, NEW j \in Managed, pc'[k] = "blocked", k # j
               PROVE  pc'[j] \in ParkedPc
    BY DEF BlockExclusive
  <2>1. k # i /\ pc[k] = "blocked"
    BY <1>o DEF FlagPc
  <2>2. ~notBlocking
    BY <1>b, <2>1 DEF BlockerInv, BlockingPc, EventPc, FlagPc
  <2>3. pc[j] \in ParkedPc
    BY <1>b, <2>1 DEF BlockExclusive
  <2> QED BY <1>o, <2>2, <2>3
<1>3. BlockedWakeupKept'
  <2> SUFFICES ASSUME NEW j \in Managed, pc'[j] = "blockWait", sleeping'[j], ~lflgs.block
               PROVE  \E k \in Managed : pc'[k] = "unblockWake" /\ j \in StillToWake(k)'
    BY DEF BlockedWakeupKept
  <2>1. pc[j] = "blockWait" /\ sleeping[j]
    BY <1>o
  <2>2. PICK k \in Managed : pc[k] = "unblockWake" /\ j \in StillToWake(k)
    BY <1>b, <2>1 DEF BlockedWakeupKept
  <2>3. pc'[k] = "unblockWake" /\ StillToWake(k)' = StillToWake(k)
    BY <1>o, <2>2 DEF StillToWake
  <2> QED BY <2>2, <2>3
<1> QED BY <1>1, <1>2, <1>3

\* A calm step keeps what is said about blocks.
LEMMA CalmKeeps ==
    ASSUME BlockInv, NEW i \in Managed, Calm(i)
    PROVE  BlockCountInv' /\ BlockerInv' /\ BlockExclusive' /\ BlockerWakeupKept'
           /\ BlockedWakeupKept'
<1> USE ZenonT(30)
<1>0. UNCHANGED <<blockCount, notBlocking, blockerEvent, evSet>> /\ lflgs'.block = lflgs.block
  BY DEF Calm, blockVars
<1>p. \/ pc[i] \notin BlockWatched \cup {"blockThread"} /\ pc'[i] \notin BlockWatched
      \/ pc[i] \in RestPc /\ pc'[i] \in RestPc
  BY DEF Calm
<1>f. /\ pc[i] \notin FlagPc \cup {"unblockWake"}
      /\ pc'[i] \notin FlagPc \cup {"unblockWake"}
      /\ pc[i] \notin {"prepareEvent", "blockEvent"}
      /\ pc'[i] \in OutPc <=> pc[i] \in OutPc
  BY <1>p DEF BlockWatched, RestPc, OutPc, FlagPc, AsleepPc
<1>w. pc'[i] = "blockWait" /\ sleeping'[i] =>
          lflgs.block \/ (pc[i] = "blockWait" /\ sleeping[i])
  BY DEF Calm, BlockWatched, OutPc
<1>1. BlockCountInv'
  BY <1>0, <1>f, BlockCountKept DEF Calm, BlockInv, BlockCountInv
<1>2. BlockerInv' /\ BlockExclusive' /\ BlockedWakeupKept'
  <2>1. pc[i] \in ParkedPc => pc'[i] \in ParkedPc
    BY <1>p DEF ParkedPc, RestPc, BlockThreadPc, BlockWatched, OutPc
  <2>2. OthersLeft(i)
    BY DEF Calm
  <2> QED BY <1>0, <1>f, <1>w, <2>1, <2>2, BystanderKeeps
<1>3. BlockerWakeupKept'
  <2>1. BlockerWakeupKept
    BY DEF BlockInv
  <2>2. pc'[i] # "blockTse"
    BY <1>f DEF FlagPc
  <2> QED BY <1>0, <1>f, <2>1, <2>2 DEF BlockerWakeupKept, Calm, OthersLeft
<1> QED BY <1>1, <1>2, <1>3

\* Who waits for the event of a block has made it known, and the count is watched.
LEMMA WaiterKnown ==
    ASSUME BlockInv, NEW k \in Managed, pc[k] = "blockTse"
    PROVE  blockerEvent = k /\ k # NONE /\ ~notBlocking
<1>1. blockerEvent = k /\ ~notBlocking
  BY ZenonT(30) DEF BlockInv, BlockerInv, EventPc, BlockingPc, FlagPc
<1>2. k # NONE
  BY ThreadAssumption DEF Managed, NONE
<1> QED BY <1>1, <1>2

\* Decrementing the count, as prepare_wait and block_thread do: who makes it 0 goes
\* on to set the blocker's event.
LEMMA DecKeeps ==
    ASSUME TypeOK, BlockInv, NEW i \in Managed, NEW l, NEW evl,
           BlockCountDec(i, l, evl), OthersLeft(i),
           UNCHANGED <<notBlocking, blockerEvent, evSet, lflgs>>,
           \/ pc[i] = "prepare" /\ l = "prepareStore" /\ evl = "prepareEvent"
           \/ pc[i] = "blockThread" /\ l = "blockPrepare" /\ evl = "blockEvent"
    PROVE  BlockCountInv' /\ BlockerInv' /\ BlockExclusive' /\ BlockerWakeupKept'
           /\ BlockedWakeupKept'
<1> USE ZenonT(30)
<1> pc \in [Managed -> ManagedPc] /\ blockCount \in Int
  BY DEF TypeOK, BlockType
<1>1. pc'[i] = IF blockCount = 1 /\ ~notBlocking THEN evl ELSE l
  BY DEF BlockCountDec, Goto
<1>2. /\ pc[i] \in {"prepare", "blockThread"}
      /\ pc'[i] \in {"prepareStore", "prepareEvent", "blockPrepare", "blockEvent"}
      /\ evl \in {"prepareEvent", "blockEvent"}
  BY <1>1
<1>3. BlockCountInv'
  BY <1>2, BlockCountDown DEF BlockInv, BlockCountInv, BlockCountDec, OutPc, AsleepPc
<1>4. BlockerInv' /\ BlockExclusive' /\ BlockedWakeupKept'
  <2>1. pc'[i] \in ParkedPc
    BY <1>2 DEF ParkedPc, BlockThreadPc
  <2>2. /\ pc[i] \notin FlagPc \cup {"unblockWake"}
        /\ pc'[i] \notin FlagPc \cup {"unblockWake", "blockWait"}
    BY <1>2 DEF FlagPc
  <2> QED BY <2>1, <2>2, BystanderKeeps
<1>5. BlockerWakeupKept'
  <2> SUFFICES ASSUME NEW k \in Managed, pc'[k] = "blockTse", blockCount' = 0
               PROVE  \E j \in Managed : pc'[j] \in {"prepareEvent", "blockEvent"}
    BY DEF BlockerWakeupKept
  <2>1. pc[k] = "blockTse"
    BY <1>2 DEF OthersLeft
  <2>2. blockCount = 1
    BY SMTT(30) DEF BlockCountDec
  <2>3. pc'[i] = evl
    BY <1>1, <2>1, <2>2, WaiterKnown
  <2> QED BY <1>2, <2>3
<1> QED BY <1>3, <1>4, <1>5

\* Setting the blocker's event, after the decrement that gave 0
LEMMA EventKeeps ==
    ASSUME TypeOK, BlockInv, NEW i \in Managed, PrepareEvent(i) \/ BlockEvent(i), OthersLeft(i)
    PROVE  BlockCountInv' /\ BlockerInv' /\ BlockExclusive' /\ BlockerWakeupKept'
           /\ BlockedWakeupKept'
<1> USE ZenonT(30)
<1> pc \in [Managed -> ManagedPc]
  BY DEF TypeOK
<1>1. /\ UNCHANGED <<blockCount, notBlocking, blockerEvent, lflgs>> /\ SetBlockerEvent
      /\ pc[i] \in {"prepareEvent", "blockEvent"}
      /\ pc'[i] \in {"prepareStore", "blockPrepare"}
  BY DEF PrepareEvent, BlockEvent, Goto, coreVars
<1>2. BlockCountInv'
  BY <1>1, BlockCountKept DEF BlockInv, BlockCountInv, OutPc
<1>3. BlockerInv' /\ BlockExclusive' /\ BlockedWakeupKept'
  <2>1. pc'[i] \in ParkedPc
    BY <1>1 DEF ParkedPc, BlockThreadPc
  <2>2. /\ pc[i] \notin FlagPc \cup {"unblockWake"}
        /\ pc'[i] \notin FlagPc \cup {"unblockWake", "blockWait"}
    BY <1>1 DEF FlagPc
  <2> QED BY <1>1, <2>1, <2>2, BystanderKeeps
<1>4. BlockerWakeupKept'
  <2> SUFFICES ASSUME NEW k \in Managed, pc'[k] = "blockTse"
               PROVE  evSet'
    BY DEF BlockerWakeupKept
  <2>1. pc[k] = "blockTse"
    BY <1>1 DEF OthersLeft
  <2> QED BY <1>1, <2>1, WaiterKnown DEF SetBlockerEvent
<1> QED BY <1>2, <1>3, <1>4

\* Incrementing the count, as finalize_wait and block_thread do: while a blocker
\* waits or runs alone the thread stays in block_thread.
LEMMA IncKeeps ==
    ASSUME TypeOK, BlockInv, NEW i \in Managed, FinalizeInc(i) \/ BlockInc(i), OthersLeft(i)
    PROVE  BlockCountInv' /\ BlockerInv' /\ BlockExclusive' /\ BlockerWakeupKept'
           /\ BlockedWakeupKept'
<1> USE ZenonT(30)
<1> /\ pc \in [Managed -> ManagedPc]
    /\ bret \in [Managed -> {"run", "prepare", "idle", "relinquished", "update", "block"}]
  BY DEF TypeOK, LocalType
<1>1. /\ UNCHANGED <<notBlocking, blockerEvent, lflgs>> /\ blockCount' = blockCount + 1
      /\ pc[i] \in {"finalizeInc", "blockInc"}
      /\ pc'[i] \in {"blockThread", "run", "prepare", "idle", "relinquished", "update", "block"}
      /\ notBlocking \/ pc'[i] = "blockThread"
  BY DEF FinalizeInc, BlockInc, CallBlockThread, Goto, coreVars
<1>2. BlockCountInv'
  BY <1>1, BlockCountUp DEF BlockInv, BlockCountInv, OutPc, AsleepPc
<1>3. BlockerInv' /\ BlockExclusive' /\ BlockedWakeupKept'
  <2>1. notBlocking \/ pc'[i] \in ParkedPc
    BY <1>1 DEF ParkedPc, BlockThreadPc
  <2>2. /\ pc[i] \notin FlagPc \cup {"unblockWake"}
        /\ pc'[i] \notin FlagPc \cup {"unblockWake", "blockWait"}
    BY <1>1 DEF FlagPc
  <2> QED BY <1>1, <2>1, <2>2, BystanderKeeps
<1>4. BlockerWakeupKept'
  <2>1. blockCount' # 0
    <3>1. blockCount \in Nat
      BY BlockCountedFinite DEF BlockInv
    <3> QED BY <1>1, <3>1, SMTT(30)
  <2> QED BY <2>1 DEF BlockerWakeupKept
<1> QED BY <1>2, <1>3, <1>4

-----------------------------------------------------------------------------
(* Steps of the thread that blocks                                         *)

\* Only one thread has the BLOCK flag, so what is said of blockers is said of it.
LEMMA BlockerKeeps ==
    ASSUME BlockInv, NEW i \in Managed, OthersLeft(i),
           \A j \in Managed : pc[j] \in FlagPc => j = i,
           pc'[i] \in FlagPc => lflgs'.block,
           pc'[i] \in EventPc => blockerEvent' = i,
           pc'[i] \in BlockingPc \cup {"unblockNotBlocking"} => ~notBlocking',
           pc'[i] = "unblockWake" => ix'[i] \in Managed \ {i},
           pc'[i] = "blocked" => \A j \in Managed : j # i => pc[j] \in ParkedPc,
           pc'[i] = "blockTse" => blockCount' # 0
    PROVE  BlockerInv' /\ BlockExclusive' /\ BlockerWakeupKept'
<1> USE ZenonT(30)
<1>o. \A j \in Managed : j # i => pc'[j] = pc[j] /\ ix'[j] = ix[j]
  BY DEF OthersLeft
<1>f. \A j \in Managed : pc'[j] \in FlagPc => j = i
  BY <1>o
<1>s. /\ EventPc \subseteq FlagPc
      /\ BlockingPc \cup {"unblockNotBlocking"} \subseteq FlagPc
      /\ "blocked" \in FlagPc /\ "blockTse" \in FlagPc
  BY DEF EventPc, BlockingPc, FlagPc
<1>1. BlockerInv'
  <2>1. \A j \in Managed : pc[j] = "unblockWake" => ix[j] \in Managed \ {j}
    BY DEF BlockInv, BlockerInv
  <2>2. \A j \in Managed : pc'[j] = "unblockWake" => ix'[j] \in Managed \ {j}
    BY <1>o, <2>1
  <2> QED BY <1>f, <1>s, <2>2 DEF BlockerInv
<1>2. BlockExclusive'
  BY <1>o, <1>f, <1>s DEF BlockExclusive
<1>3. BlockerWakeupKept'
  BY <1>f, <1>s DEF BlockerWakeupKept
<1> QED BY <1>1, <1>2, <1>3

\* The blocker found the block count to be 0: everybody else sleeps or waits in
\* block_thread.
LEMMA ZeroMeansParked ==
    ASSUME BlockInv, NEW i \in Managed, pc[i] \in FlagPc, blockCount = 0
    PROVE  \A j \in Managed : j # i => pc[j] \in ParkedPc
<1>1. \A j \in Managed : pc[j] \in OutPc
  BY BlockCountZero DEF BlockInv, BlockCountInv
<1>2. \A j \in Managed : j # i => pc[j] \notin FlagPc
  BY DEF BlockInv, BlockerInv
<1> QED BY <1>1, <1>2, ZenonT(30) DEF OutPc, FlagPc, ParkedPc, BlockThreadPc

\* erts_thr_progress_block: a thread that finds the BLOCK flag set waits in
\* block_thread and tries again.
LEMMA RequestKeeps ==
    ASSUME TypeOK, BlockInv, NEW i \in Managed, BlockRequest(i), OthersLeft(i)
    PROVE  BlockCountInv' /\ BlockerInv' /\ BlockExclusive' /\ BlockerWakeupKept'
           /\ BlockedWakeupKept'
<1> USE ZenonT(30)
<1> pc \in [Managed -> ManagedPc]
    /\ lflgs \in [block : BOOLEAN, noLeader : BOOLEAN, waitingUM : BOOLEAN, active : Int]
  BY DEF TypeOK, FlagType
<1>1. /\ UNCHANGED <<blockCount, notBlocking, blockerEvent, evSet>> /\ lflgs'.block
      /\ pc[i] = "block"
      /\ \/ lflgs.block /\ pc'[i] = "blockThread"
         \/ ~lflgs.block /\ pc'[i] = "blockSetEvent"
  BY DEF BlockRequest, CallBlockThread, Goto, blockVars
<1>2. BlockCountInv'
  BY <1>1, BlockCountKept DEF BlockInv, BlockCountInv, OutPc, AsleepPc
<1>3. BlockedWakeupKept'
  BY <1>1 DEF BlockedWakeupKept
<1>4. CASE lflgs.block
  <2>1. BlockerInv' /\ BlockExclusive'
    <3>1. /\ pc[i] \notin FlagPc \cup {"unblockWake"}
          /\ pc'[i] \notin FlagPc \cup {"unblockWake", "blockWait"}
          /\ pc'[i] \in ParkedPc
      BY <1>1, <1>4 DEF FlagPc, ParkedPc, BlockThreadPc
    <3>2. lflgs'.block = lflgs.block
      BY <1>1, <1>4, SMTT(30)
    <3> QED BY <1>1, <3>1, <3>2, BystanderKeeps
  <2>2. BlockerWakeupKept'
    <3>1. BlockerWakeupKept
      BY DEF BlockInv
    <3> QED BY <1>1, <3>1 DEF BlockerWakeupKept, OthersLeft
  <2> QED BY <1>2, <1>3, <2>1, <2>2
<1>5. CASE ~lflgs.block
  <2>1. \A j \in Managed : pc[j] \notin FlagPc
    BY <1>5 DEF BlockInv, BlockerInv
  <2>2. pc'[i] = "blockSetEvent" /\ "blockSetEvent" \notin EventPc \cup BlockingPc
    BY <1>1, <1>5 DEF EventPc, BlockingPc
  <2> QED BY <1>1, <1>2, <1>3, <2>1, <2>2, BlockerKeeps
<1> QED BY <1>4, <1>5

\* The steps of the blocker from its request until it gives the flag back: it
\* goes on alone only when it has read 0 from the block count.
LEMMA BlockingKeeps ==
    ASSUME TypeOK, BlockInv, NEW i \in Managed, OthersLeft(i),
           \/ BlockSetEvent(i) \/ BlockDec(i) \/ BlockBlocking(i) \/ BlockTse(i)
           \/ BlockRead(i) \/ Unblock(i) \/ UnblockEvent(i) \/ UnblockNotBlocking(i)
    PROVE  BlockCountInv' /\ BlockerInv' /\ BlockExclusive' /\ BlockerWakeupKept'
           /\ BlockedWakeupKept'
<1> USE ZenonT(30)
<1> pc \in [Managed -> ManagedPc]
  BY DEF TypeOK
<1>0. BlockCountInv /\ BlockerInv
  BY DEF BlockInv, BlockCountInv
<1>l. lflgs' = lflgs /\ pc[i] \in FlagPc
  BY DEF BlockSetEvent, BlockDec, BlockBlocking, BlockTse, BlockRead, Unblock,
         UnblockEvent, UnblockNotBlocking, coreVars, FlagPc
<1>u. (\A j \in Managed : pc[j] \in FlagPc => j = i) /\ lflgs'.block
  BY <1>0, <1>l DEF BlockerInv
<1>e. pc[i] \in EventPc => blockerEvent = i
  BY <1>0 DEF BlockerInv
<1>n. pc[i] \in BlockingPc \cup {"unblockNotBlocking"} => ~notBlocking
  BY <1>0 DEF BlockerInv
<1>w. BlockedWakeupKept'
  BY <1>u DEF BlockedWakeupKept
<1> USE DEF OutPc, AsleepPc, FlagPc, EventPc, BlockingPc, Goto
<1>1. CASE BlockSetEvent(i)
  <2>1. /\ blockCount' = blockCount /\ blockerEvent' = i
        /\ pc[i] = "blockSetEvent" /\ pc'[i] = "blockDec"
    BY <1>1 DEF BlockSetEvent
  <2>2. BlockCountInv'
    BY <1>0, <2>1, BlockCountKept
  <2> QED BY <1>u, <1>w, <2>1, <2>2, BlockerKeeps
<1>2. CASE BlockDec(i)
  <2>1. /\ blockCount' = blockCount - 1 /\ blockerEvent' = i
        /\ pc[i] = "blockDec" /\ pc'[i] = "blockBlocking"
    BY <1>2, <1>e DEF BlockDec
  <2>2. BlockCountInv'
    BY <1>0, <2>1, BlockCountDown
  <2> QED BY <1>u, <1>w, <2>1, <2>2, BlockerKeeps
<1>3. CASE BlockBlocking(i)
  <2>1. /\ blockCount' = blockCount /\ blockerEvent' = i /\ ~notBlocking'
        /\ pc[i] = "blockBlocking"
        /\ pc'[i] = IF blockCount = 0 THEN "blocked" ELSE "blockTse"
    BY <1>3, <1>e DEF BlockBlocking
  <2>2. BlockCountInv'
    BY <1>0, <2>1, BlockCountKept
  <2>3. pc'[i] = "blocked" => \A j \in Managed : j # i => pc[j] \in ParkedPc
    BY <1>l, <2>1, ZeroMeansParked
  <2>4. pc'[i] = "blockTse" => blockCount' # 0
    BY <2>1
  <2>5. pc'[i] \in {"blocked", "blockTse"}
    BY <2>1
  <2> QED BY <1>u, <1>w, <2>1, <2>2, <2>3, <2>4, <2>5, BlockerKeeps
<1>4. CASE BlockTse(i)
  <2>1. /\ blockCount' = blockCount /\ blockerEvent' = i /\ ~notBlocking'
        /\ pc[i] = "blockTse" /\ pc'[i] = "blockRead"
    BY <1>4, <1>e, <1>n DEF BlockTse
  <2>2. BlockCountInv'
    BY <1>0, <2>1, BlockCountKept
  <2> QED BY <1>u, <1>w, <2>1, <2>2, BlockerKeeps
<1>5. CASE BlockRead(i)
  <2>1. /\ blockCount' = blockCount /\ blockerEvent' = i /\ ~notBlocking'
        /\ pc[i] = "blockRead"
        /\ pc'[i] = IF blockCount = 0 THEN "blocked" ELSE "blockTse"
    BY <1>5, <1>e, <1>n DEF BlockRead, blockVars
  <2>2. BlockCountInv'
    BY <1>0, <2>1, BlockCountKept
  <2>3. pc'[i] = "blocked" => \A j \in Managed : j # i => pc[j] \in ParkedPc
    BY <1>l, <2>1, ZeroMeansParked
  <2>4. pc'[i] = "blockTse" => blockCount' # 0
    BY <2>1
  <2>5. pc'[i] \in {"blocked", "blockTse"}
    BY <2>1
  <2> QED BY <1>u, <1>w, <2>1, <2>2, <2>3, <2>4, <2>5, BlockerKeeps
<1>6. CASE Unblock(i)
  <2>1. /\ blockCount' = blockCount + 1 /\ blockerEvent' = i /\ ~notBlocking'
        /\ pc[i] = "blocked" /\ pc'[i] = "unblockEvent"
    BY <1>6, <1>e, <1>n DEF Unblock
  <2>2. BlockCountInv'
    BY <1>0, <2>1, BlockCountUp
  <2> QED BY <1>u, <1>w, <2>1, <2>2, BlockerKeeps
<1>7. CASE UnblockEvent(i)
  <2>1. /\ blockCount' = blockCount /\ ~notBlocking'
        /\ pc[i] = "unblockEvent" /\ pc'[i] = "unblockNotBlocking"
    BY <1>7, <1>n DEF UnblockEvent
  <2>2. BlockCountInv'
    BY <1>0, <2>1, BlockCountKept
  <2> QED BY <1>u, <1>w, <2>1, <2>2, BlockerKeeps
<1>8. CASE UnblockNotBlocking(i)
  <2>1. /\ blockCount' = blockCount
        /\ pc[i] = "unblockNotBlocking" /\ pc'[i] = "unblockFlag"
    BY <1>8 DEF UnblockNotBlocking
  <2>2. BlockCountInv'
    BY <1>0, <2>1, BlockCountKept
  <2> QED BY <1>u, <1>w, <2>1, <2>2, BlockerKeeps
<1> QED BY <1>1, <1>2, <1>3, <1>4, <1>5, <1>6, <1>7, <1>8

-----------------------------------------------------------------------------
(* unblock wakes the others one by one                                     *)

\* The threads of the round from n up to but not including i
RoundFrom(n, i) == IF n < i THEN n .. i - 1 ELSE {j \in Managed : j >= n \/ j < i}

\* The round goes through everybody but the thread that unblocks.
LEMMA RoundStarts ==
    ASSUME NEW i \in Managed, NEW j \in Managed, j # i
    PROVE  After(i) \in Managed \ {i} /\ j \in RoundFrom(After(i), i)
  BY ThreadAssumption, SMTT(30) DEF After, RoundFrom, Managed

\* One step of the round leaves out only the thread looked at.
LEMMA RoundGoesOn ==
    ASSUME NEW i \in Managed, NEW n \in Managed, NEW j \in Managed, n # i, j # n,
           j \in RoundFrom(n, i)
    PROVE  After(n) # i /\ j \in RoundFrom(After(n), i)
  BY ThreadAssumption, SMTT(30) DEF After, RoundFrom, Managed

\* The next thread is a managed thread.
LEMMA AfterType == \A n \in Managed : After(n) \in Managed
  BY ThreadAssumption, SMTT(30) DEF After, Managed

\* Clearing the BLOCK flag: who waits in block_thread is in the round.
LEMMA UnblockFlagKeeps ==
    ASSUME TypeOK, BlockInv, NEW i \in Managed, UnblockFlag(i), OthersLeft(i)
    PROVE  BlockCountInv' /\ BlockerInv' /\ BlockExclusive' /\ BlockerWakeupKept'
           /\ BlockedWakeupKept'
<1> USE ZenonT(30)
<1> pc \in [Managed -> ManagedPc] /\ ix \in [Managed -> Nat]
  BY DEF TypeOK, LocalType
<1>1. /\ blockCount' = blockCount /\ pc[i] = "unblockFlag"
      /\ pc'[i] \in {"run", "unblockWake"}
      /\ After(i) # i => pc'[i] = "unblockWake"
      /\ pc'[i] = "unblockWake" => After(i) # i /\ ix'[i] = After(i)
  BY DEF UnblockFlag, Goto, blockVars
<1>2. BlockCountInv'
  BY <1>1, BlockCountKept DEF BlockInv, BlockCountInv, OutPc, AsleepPc
<1>3. BlockerInv' /\ BlockExclusive' /\ BlockerWakeupKept'
  <2>1. \A j \in Managed : pc[j] \in FlagPc => j = i
    BY <1>1 DEF BlockInv, BlockerInv, FlagPc
  <2>2. pc'[i] \notin FlagPc \cup EventPc \cup BlockingPc
    BY <1>1 DEF FlagPc, EventPc, BlockingPc
  <2>3. pc'[i] = "unblockWake" => ix'[i] \in Managed \ {i}
    BY <1>1, AfterType
  <2> QED BY <1>1, <2>1, <2>2, <2>3, BlockerKeeps
<1>4. BlockedWakeupKept'
  <2> SUFFICES ASSUME NEW j \in Managed, pc'[j] = "blockWait"
               PROVE  pc'[i] = "unblockWake" /\ j \in StillToWake(i)'
    BY DEF BlockedWakeupKept
  <2>1. j # i
    BY <1>1
  <2>2. pc'[i] = "unblockWake" /\ ix'[i] = After(i) /\ j \in RoundFrom(After(i), i)
    BY <1>1, <2>1, RoundStarts
  <2> QED BY <2>2 DEF StillToWake, RoundFrom
<1> QED BY <1>2, <1>3, <1>4

\* Waking the next thread: one that waits in block_thread has a value.
LEMMA UnblockWakeKeeps ==
    ASSUME TypeOK, BlockInv, NEW i \in Managed, UnblockWake(i), OthersLeft(i)
    PROVE  BlockCountInv' /\ BlockerInv' /\ BlockExclusive' /\ BlockerWakeupKept'
           /\ BlockedWakeupKept'
<1> USE ZenonT(30)
<1> pc \in [Managed -> ManagedPc] /\ ix \in [Managed -> Nat]
    /\ sleeping \in [Managed -> BOOLEAN]
  BY DEF TypeOK, LocalType
<1>0. BlockerInv /\ BlockExclusive /\ BlockerWakeupKept /\ BlockedWakeupKept /\ AwakeInv
  BY DEF BlockInv
<1>1. /\ UNCHANGED <<blockCount, notBlocking, blockerEvent, evSet, lflgs>>
      /\ pc[i] = "unblockWake" /\ pc'[i] \in {"run", "unblockWake"}
      /\ After(ix[i]) # i => pc'[i] = "unblockWake"
      /\ pc'[i] = "unblockWake" => After(ix[i]) # i /\ ix'[i] = After(ix[i])
      /\ thr[ix[i]] # VAL_WAITING /\ ix[i] \in Managed => ~sleeping'[ix[i]]
  BY DEF UnblockWake, Goto, blockVars, coreVars, Poke
<1>n. ix[i] \in Managed \ {i}
  BY <1>0, <1>1 DEF BlockerInv
<1>o. \A j \in Managed : j # i =>
        pc'[j] = pc[j] /\ ix'[j] = ix[j] /\ (sleeping'[j] => sleeping[j])
  BY DEF OthersLeft
<1>f. pc[i] \notin FlagPc /\ pc'[i] \notin FlagPc
  BY <1>1 DEF FlagPc
<1>2. BlockCountInv'
  BY <1>1, BlockCountKept DEF BlockInv, BlockCountInv, OutPc, AsleepPc
<1>3. BlockerInv'
  <2>1. /\ EventPc \subseteq FlagPc
        /\ BlockingPc \cup {"unblockNotBlocking"} \subseteq FlagPc
    BY DEF EventPc, BlockingPc, FlagPc
  <2>2. pc'[i] = "unblockWake" => ix'[i] \in Managed \ {i}
    BY <1>1, <1>n, AfterType
  <2>3. \A j \in Managed : pc'[j] = "unblockWake" => ix'[j] \in Managed \ {j}
    BY <1>0, <1>o, <2>2 DEF BlockerInv
  <2> QED BY <1>0, <1>1, <1>o, <1>f, <2>1, <2>3 DEF BlockerInv
<1>4. BlockExclusive'
  <2>1. \A k \in Managed : pc[k] # "blocked"
    BY <1>0, <1>1 DEF BlockExclusive, ParkedPc, AsleepPc, BlockThreadPc
  <2>2. \A k \in Managed : pc'[k] # "blocked"
    BY <1>1, <1>o, <2>1
  <2> QED BY <2>2 DEF BlockExclusive
<1>5. BlockerWakeupKept'
  BY <1>0, <1>1, <1>o DEF BlockerWakeupKept
<1>6. BlockedWakeupKept'
  <2> SUFFICES ASSUME NEW j \in Managed, pc'[j] = "blockWait", sleeping'[j], ~lflgs.block
               PROVE  \E k \in Managed : pc'[k] = "unblockWake" /\ j \in StillToWake(k)'
    BY <1>1 DEF BlockedWakeupKept
  <2>1. j # i /\ pc[j] = "blockWait" /\ sleeping[j]
    BY <1>1, <1>o
  <2>2. PICK k \in Managed : pc[k] = "unblockWake" /\ j \in StillToWake(k)
    BY <1>0, <2>1 DEF BlockedWakeupKept
  <2>3. CASE k # i
    <3>1. pc'[k] = "unblockWake" /\ StillToWake(k)' = StillToWake(k)
      BY <1>o, <2>2, <2>3 DEF StillToWake
    <3> QED BY <2>2, <3>1
  <2>4. CASE k = i
    <3>1. thr[j] # VAL_WAITING
      BY <1>0, <2>1 DEF AwakeInv, AsleepPc
    <3>2. j # ix[i]
      BY <1>1, <1>n, <3>1
    <3>3. j \in RoundFrom(ix[i], i)
      BY <2>2, <2>4 DEF StillToWake, RoundFrom
    <3>4. After(ix[i]) # i /\ j \in RoundFrom(After(ix[i]), i)
      BY <1>n, <3>2, <3>3, RoundGoesOn
    <3>5. pc'[i] = "unblockWake" /\ j \in RoundFrom(ix'[i], i)
      BY <1>1, <3>4
    <3> QED BY <3>5 DEF StillToWake, RoundFrom
  <2> QED BY <2>3, <2>4
<1> QED BY <1>2, <1>3, <1>4, <1>5, <1>6

-----------------------------------------------------------------------------
(* The invariant                                                           *)

\* A step about blocking leaves the other threads alone.
LEMMA SpecialFrame ==
    ASSUME TypeOK, NEW i \in Managed, BlockSpecial(i) PROVE OthersLeft(i)
<1> USE ZenonT(30)
<1> /\ pc \in [Managed -> ManagedPc] /\ ix \in [Managed -> Nat]
    /\ sleeping \in [Managed -> BOOLEAN]
  BY DEF TypeOK, LocalType
<1> USE DEF OthersLeft, Poke, Goto, restVars, localVars
<1>1. CASE Parking(i)
  BY <1>1 DEF Parking, PrepareWait, PrepareEvent, FinalizeInc, BlockThread, BlockEvent,
              BlockInc, BlockCountDec, CallBlockThread
<1>2. CASE \/ BlockRequest(i) \/ BlockSetEvent(i) \/ BlockDec(i) \/ BlockBlocking(i)
           \/ BlockTse(i) \/ BlockRead(i)
  BY <1>2 DEF BlockRequest, BlockSetEvent, BlockDec, BlockBlocking, BlockTse, BlockRead,
              CallBlockThread
<1>3. CASE \/ Unblock(i) \/ UnblockEvent(i) \/ UnblockNotBlocking(i)
           \/ UnblockFlag(i) \/ UnblockWake(i)
  BY <1>3 DEF Unblock, UnblockEvent, UnblockNotBlocking, UnblockFlag, UnblockWake
<1> QED BY <1>1, <1>2, <1>3 DEF BlockSpecial, BlockStep

\* A thread stores WAITING only in prepare_wait, and takes it back before it
\* leaves finalize_wait's loop.
LEMMA AwakeManaged ==
    ASSUME TypeOK, ControlInv, AwakeInv, NEW i \in Managed, ManagedStep(i) PROVE AwakeInv'
<1> USE ZenonT(30)
<1>q. CASE Quiet(i)
  BY <1>q DEF Quiet, AwakeInv, valueVars, Watched, DozePc, CheckedPc, PublishedPc, HandlePc,
              AsleepPc
<1>v. /\ VAL_WAITING \notin Val /\ \A v \in Val : Inc(v) \in Val
      /\ current \in Val /\ val[i] \in Val /\ lcur[i] \in Val \cup {VAL_WAITING}
  <2>1. VAL_WAITING \notin Val
    BY ValueAssumption, SMTT(30) DEF Val, VAL_WAITING
  <2> QED BY <2>1, ValTypes DEF TypeOK, ValueType, LocalType, LeaderType
<1> /\ pc \in [Managed -> ManagedPc] /\ thr \in [Managed -> Val \cup {VAL_WAITING}]
    /\ uret \in [Managed -> {"run", "prepare", "idle"}]
  BY DEF TypeOK, ValueType, LocalType
<1> USE DEF AwakeInv, AsleepPc, Goto, coreVars, valueVars
<1>1. CASE Confirming(i)
  <2>1. CASE UpdateRead(i)
    BY <1>v, <2>1 DEF UpdateRead
  <2>2. CASE UpdateConfirm(i)
    BY <1>v, <2>2 DEF UpdateConfirm
  <2>3. CASE TakeOver(i)
    <3>1. /\ thr' = thr \/ thr' = [thr EXCEPT ![i] = Inc(current)]
          /\ pc[i] = "leaderUpdate" /\ pc' = [pc EXCEPT ![i] = pc'[i]]
      BY <2>3 DEF TakeOver, StartCheck
    <3>2. Inc(current) # VAL_WAITING
      BY <1>v
    <3> QED BY <3>1, <3>2
  <2>4. CASE ContinueCheck(i)
    BY <1>v, <2>4 DEF ContinueCheck, StartCheck
  <2> HIDE DEF AwakeInv
  <2> QED BY <1>1, <2>1, <2>2, <2>3, <2>4 DEF Confirming
<1>2. CASE Checking(i)
  <2>1. CASE CheckManaged(i)
    BY <1>v, <2>1 DEF CheckManaged
  <2>2. CASE CheckUnmanaged(i)
    BY <1>v, <2>2 DEF CheckUnmanaged
  <2>3. CASE FlipUmrefc(i)
    BY <1>v, <2>3 DEF FlipUmrefc
  <2>4. CASE RecheckUnmanaged(i)
    BY <1>v, <2>4 DEF RecheckUnmanaged
  <2> HIDE DEF AwakeInv
  <2> QED BY <1>2, <2>1, <2>2, <2>3, <2>4 DEF Checking
<1>3. CASE Publishing(i)
  <2>1. CASE Advance(i)
    <3>1. pc[i] \in LeadPc
      BY <2>1 DEF Advance, LeadPc, CheckedPc
    <3>2. lcur[i] # VAL_WAITING
      BY <3>1 DEF ControlInv, Leads
    <3>3. Inc(Inc(lcur[i])) # VAL_WAITING
      BY <1>v, <3>2
    <3> QED BY <2>1, <3>3 DEF Advance
  <2>2. CASE Publish(i)
    BY <1>v, <2>2 DEF Publish
  <2>3. CASE Progressed(i)
    BY <1>v, <2>3 DEF Progressed
  <2>4. CASE Relinquish(i)
    <3>1. /\ thr' = thr /\ pc[i] = "done"
          /\ pc' = [pc EXCEPT ![i] = pc'[i]]
      BY <2>4 DEF Relinquish, CallBlockThread
    <3> QED BY <3>1
  <2>5. CASE Relinquished(i)
    BY <1>v, <2>5 DEF Relinquished
  <2> HIDE DEF AwakeInv
  <2> QED BY <1>3, <2>1, <2>2, <2>3, <2>4, <2>5 DEF Publishing
<1>4. CASE Dozing(i)
  <2>1. CASE PrepareStore(i)
    BY <1>v, <2>1 DEF PrepareStore
  <2>2. CASE FinalizeRead(i)
    BY <1>v, <2>2 DEF FinalizeRead
  <2>3. CASE FinalizeSet(i)
    BY <1>v, <2>3 DEF FinalizeSet
  <2>4. CASE FinalizeCheck(i)
    BY <1>v, <2>4 DEF FinalizeCheck
  <2> HIDE DEF AwakeInv
  <2> QED BY <1>4, <2>1, <2>2, <2>3, <2>4 DEF Dozing
<1>5. CASE Operating(i)
  <2>1. CASE Later(i)
    BY <1>v, <2>1 DEF Later
  <2>2. CASE FinishManaged(i)
    BY <1>v, <2>2 DEF FinishManaged
  <2>3. CASE AuxFinish(i)
    BY <1>v, <2>3 DEF AuxFinish
  <2> HIDE DEF AwakeInv
  <2> QED BY <1>5, <2>1, <2>2, <2>3 DEF Operating
<1> HIDE DEF AwakeInv
<1> QED BY <1>q, <1>1, <1>2, <1>3, <1>4, <1>5, QuietOrSpecial DEF Special

\* BlockInv holds initially: every thread is counted.
LEMMA BlockInit == ASSUME Init PROVE BlockInv
<1> USE ZenonT(30)
<1>p. \A i \in Managed : pc[i] = "register" /\ thr[i] = 0
  BY DEF Init
<1>1. blockCount = Cardinality(BlockCounted)
  <2>1. BlockCounted = Managed
    BY <1>p DEF BlockCounted, OutPc, AsleepPc
  <2> QED BY <2>1, BlockCountedFinite DEF Init
<1>2. AwakeInv
  <2>1. VAL_WAITING # 0
    BY ValueAssumption, SMTT(30) DEF VAL_WAITING
  <2> QED BY <1>p, <2>1 DEF AwakeInv
<1>3. BlockerInv
  BY <1>p DEF BlockerInv, FlagPc, EventPc, BlockingPc
<1>4. BlockExclusive /\ BlockerWakeupKept /\ BlockedWakeupKept
  BY <1>p DEF BlockExclusive, BlockerWakeupKept, BlockedWakeupKept
<1> QED BY <1>1, <1>2, <1>3, <1>4 DEF BlockInv

\* BlockInv is inductive.
LEMMA BlockNext == ASSUME TypeOK, ControlInv, BlockInv, [Next]_vars PROVE BlockInv'
<1> USE ZenonT(30)
<1>1. ASSUME NEW i \in Managed, ManagedStep(i) PROVE BlockInv'
  <2>1. AwakeInv'
    BY <1>1, AwakeManaged DEF BlockInv
  <2>2. BlockSpecial(i) => OthersLeft(i)
    BY SpecialFrame
  <2> SUFFICES BlockCountInv' /\ BlockerInv' /\ BlockExclusive' /\ BlockerWakeupKept'
               /\ BlockedWakeupKept'
    BY <2>1 DEF BlockInv, BlockCountInv
  <2>3. CASE Calm(i)
    BY <2>3, CalmKeeps
  <2>4. CASE Parking(i)
    <3>1. OthersLeft(i)
      BY <2>2, <2>4 DEF BlockSpecial
    <3>2. CASE PrepareWait(i)
      BY <3>1, <3>2, DecKeeps DEF PrepareWait, coreVars
    <3>3. CASE BlockThread(i)
      BY <3>1, <3>3, DecKeeps DEF BlockThread, coreVars
    <3>4. CASE PrepareEvent(i) \/ BlockEvent(i)
      BY <3>1, <3>4, EventKeeps
    <3>5. CASE FinalizeInc(i) \/ BlockInc(i)
      BY <3>1, <3>5, IncKeeps
    <3> QED BY <2>4, <3>2, <3>3, <3>4, <3>5 DEF Parking
  <2>5. CASE BlockStep(i)
    <3>1. OthersLeft(i)
      BY <2>2, <2>5 DEF BlockSpecial
    <3>2. CASE BlockRequest(i)
      BY <3>1, <3>2, RequestKeeps
    <3>3. CASE \/ BlockSetEvent(i) \/ BlockDec(i) \/ BlockBlocking(i) \/ BlockTse(i)
               \/ BlockRead(i) \/ Unblock(i) \/ UnblockEvent(i) \/ UnblockNotBlocking(i)
      BY <3>1, <3>3, BlockingKeeps
    <3>4. CASE UnblockFlag(i)
      BY <3>1, <3>4, UnblockFlagKeeps
    <3>5. CASE UnblockWake(i)
      BY <3>1, <3>5, UnblockWakeKeeps
    <3> QED BY <2>5, <3>2, <3>3, <3>4, <3>5 DEF BlockStep
  <2> QED BY <1>1, <2>3, <2>4, <2>5, CalmOrSpecial DEF BlockSpecial
<1>2. ASSUME UCalm PROVE BlockInv'
  <2> USE DEF UCalm, blockVars
  <2>1. (blockCount = Cardinality(BlockCounted))'
    BY <1>2 DEF BlockInv, BlockCounted
  <2>2. AwakeInv' /\ BlockerInv'
    BY <1>2 DEF BlockInv, AwakeInv, BlockerInv
  <2>3. BlockExclusive' /\ BlockerWakeupKept'
    BY <1>2 DEF BlockInv, BlockExclusive, BlockerWakeupKept
  <2>4. BlockedWakeupKept'
    BY <1>2 DEF BlockInv, BlockedWakeupKept, StillToWake
  <2> QED BY <2>1, <2>2, <2>3, <2>4 DEF BlockInv
<1>3. ASSUME NEW u \in Unmanaged, UnmanagedStep(u) PROVE BlockInv'
  BY <1>2, <1>3, UnmanagedCalm
<1>4. CASE UNCHANGED vars
  <2>1. UCalm
    BY <1>4 DEF UCalm, vars, coreVars, valueVars, restVars, localVars
  <2> QED BY <1>2, <2>1
<1> QED BY <1>1, <1>3, <1>4 DEF Next

\* The block count is the number of threads that are neither asleep nor parked, one
\* thread blocks at a time, and no event or wakeup of a block is lost, for any
\* number of threads (block_count_dec, block_count_inc, block_thread,
\* erts_thr_progress_block and erts_thr_progress_unblock).
THEOREM BlockInvariant == Spec => []BlockInv
<1>1. Init => BlockInv
  BY BlockInit
<1>2. TypeOK /\ ControlInv /\ BlockInv /\ [Next]_vars => BlockInv'
  BY BlockNext
<1> QED BY <1>1, <1>2, SafeControl, PTL DEF Spec, SafeInv

\* When erts_thr_progress_block has returned, every other managed thread sleeps or
\* waits in block_thread, also one that is just waking up.
THEOREM BlockIsExclusive == Spec => []BlockExclusive
  BY BlockInvariant, PTL DEF BlockInv

\* A blocker never waits for its event when everybody else is blocked already and
\* nobody is about to set it (block_count_dec).
THEOREM BlockerIsWoken == Spec => []BlockerWakeupKept
  BY BlockInvariant, PTL DEF BlockInv

\* A thread sleeps in block_thread only while a block is on or the thread that
\* ended it (erts_thr_progress_unblock) has still to wake it.
THEOREM BlockedAreWoken == Spec => []BlockedWakeupKept
  BY BlockInvariant, PTL DEF BlockInv
=============================================================================
