---------------------- MODULE ThrProgressLeaderProofs -----------------------
(***************************************************************************)
(* Proofs that ThrProgress is type correct and that leadership is handed   *)
(* over between threads without two leaders or a leader that sleeps.       *)
(***************************************************************************)
EXTENDS ThrProgressTypeProofs

\* What the actions of an unmanaged thread have in common
UFrame(u) ==
    /\ UNCHANGED <<valueVars, leaderVars, active, lflgs, umix, miscWait, pc, localVars>>
    /\ \A w \in Unmanaged \ {u} : upc'[w] = upc[w] /\ uix'[w] = uix[w]
    /\ Delaying(u)' => uix'[u] = umix
    /\ Delaying(u) => \A t \in Thread : u \notin pend'[t]

\* A step of an unmanaged thread leaves the managed threads and the values
\* alone.  The thread starts to delay progress only with the current reference
\* count, and is quiescent when it stops.
LEMMA UnmanagedFrame ==
    ASSUME TypeOK, NEW u \in Unmanaged, UnmanagedStep(u) PROVE UFrame(u)
<1> USE ZenonT(30)
<1> upc \in [Unmanaged -> UnmanagedPc] /\ uix \in [Unmanaged -> {0, 1}]
  BY DEF TypeOK, UnmanagedType
<1> USE DEF UFrame, Delaying, UGoto, coreVars, umVars
<1>1. CASE DelayRead(u)
  BY <1>1 DEF DelayRead
<1>2. CASE DelayInc(u)
  BY <1>2 DEF DelayInc
<1>3. CASE DelayCheck(u)
  BY <1>3 DEF DelayCheck
<1>4. CASE Continue(u)
  BY <1>4 DEF Continue, Quiescent
<1>5. CASE ContinueFlags(u)
  BY <1>5 DEF ContinueFlags, Continued
<1>6. CASE ContinueGsw(u)
  BY <1>6 DEF ContinueGsw, Continued
<1>7. CASE ULater(u)
  BY <1>7 DEF ULater
<1>8. CASE UReset(u)
  BY <1>8 DEF UReset
<1>9. CASE UFinish(u)
  BY <1>9 DEF UFinish
<1>10. CASE UNotYet(u)
  BY <1>10 DEF UNotYet
<1>11. CASE URequest(u)
  BY <1>11 DEF URequest
<1>12. CASE URequestLow(u)
  BY <1>12 DEF URequestLow
<1>13. CASE URequestHigh(u)
  BY <1>13 DEF URequestHigh
<1>14. CASE URequestLen(u)
  BY <1>14 DEF URequestLen
<1>15. CASE URequestCheck(u)
  BY <1>15 DEF URequestCheck
<1> HIDE DEF UFrame
<1> QED BY <1>1, <1>2, <1>3, <1>4, <1>5, <1>6, <1>7, <1>8, <1>9, <1>10, <1>11, <1>12,
    <1>13, <1>14, <1>15
    DEF UnmanagedStep, DelayStep, URequestStep

\* ControlInv is kept by the managed threads: erts_thr_progress_active(tpd, 0)
\* runs update and leader_update before the thread waits.
LEMMA ControlManaged ==
    ASSUME TypeOK, ControlInv, NEW i \in Managed, ManagedStep(i) PROVE ControlInv'
<1> /\ pc \in [Managed -> ManagedPc] /\ active \in [Managed -> BOOLEAN]
    /\ leader \in [Managed -> BOOLEAN] /\ lcur \in [Managed -> Nat]
    /\ val \in [Managed -> Nat]
    /\ uret \in [Managed -> {"run", "prepare", "idle"}]
    /\ bret \in [Managed -> {"run", "prepare", "idle", "relinquished", "update", "block"}]
  BY ValTypes, Zenon DEF TypeOK, LeaderType, LocalType
<1> USE ZenonT(30) DEF ControlInv, Leads, LeadPc, UpdatePc, TakePc, CheckedPc,
    PublishedPc,
            HandlePc, InactivePc, BlockThreadPc, AsleepPc
<1>1. CASE RegisterStep(i)
  <2>1. CASE Register(i)
    BY <2>1, SMTT(30) DEF Register, Goto, leaderVars, restVars, localVars
  <2>2. CASE RegisterCount(i)
    BY <2>2, SMTT(30) DEF RegisterCount, Goto, leaderVars, restVars, localVars
  <2>3. CASE RegisterWait(i)
    BY <2>3, SMTT(30) DEF RegisterWait, Goto, coreVars, restVars, leaderVars, localVars
  <2>4. CASE RegisterRead(i)
    BY <2>4, SMTT(30) DEF RegisterRead, Goto, coreVars, restVars, leaderVars, localVars
  <2> HIDE DEF ControlInv
  <2> QED BY <1>1, <2>1, <2>2, <2>3, <2>4 DEF RegisterStep
<1>2. CASE UpdateStep(i)
  <2>1. CASE UpdateRead(i)
    BY <2>1, SMTT(30) DEF UpdateRead, Goto, coreVars, leaderVars
  <2>2. CASE UpdateConfirm(i)
    BY <2>2, SMTT(30) DEF UpdateConfirm, Goto, leaderVars
  <2>3. CASE UpdateFlags(i)
    BY <2>3, SMTT(30) DEF UpdateFlags, Goto, coreVars, restVars, leaderVars, localVars
  <2>4. CASE UpdateTake(i)
    BY <2>4, SMTT(30) DEF UpdateTake, Goto, restVars, localVars
  <2> HIDE DEF ControlInv
  <2> QED BY <1>2, <2>1, <2>2, <2>3, <2>4 DEF UpdateStep
<1>3. CASE LeaderStep(i)
  <2>1. CASE NotLeader(i)
    BY <2>1, SMTT(30) DEF NotLeader, CallBlockThread, coreVars, Goto, leaderVars
  <2>2. CASE TakeOver(i)
    <3>1. current # VAL_WAITING
      BY ValueAssumption, SMTT(30) DEF TypeOK, ValueType, Val, VAL_WAITING
    <3> QED BY <2>2, <3>1, SMTT(30) DEF TakeOver, StartCheck, Goto
  <2>3. CASE ContinueCheck(i)
    BY <2>3, SMTT(30) DEF ContinueCheck, StartCheck, Goto
  <2>4. CASE CheckManaged(i)
    BY <2>4, SMTT(30) DEF CheckManaged, Goto
  <2>5. CASE CheckUnmanaged(i)
    BY <2>5, SMTT(30) DEF CheckUnmanaged, Goto
  <2>6. CASE FlipUmrefc(i)
    BY <2>6, SMTT(30) DEF FlipUmrefc, Goto, restVars, localVars
  <2>7. CASE RecheckUnmanaged(i)
    BY <2>7, SMTT(30) DEF RecheckUnmanaged, Goto, coreVars, restVars, leaderVars,
        localVars
  <2>8. CASE Advance(i)
    BY <2>8, SMTT(30) DEF Advance, Goto, leaderVars, restVars, localVars
  <2>9. CASE Publish(i)
    BY <2>9, ValueAssumption, SMTT(30) DEF Publish, Goto, localVars, ValueType, Val,
        VAL_WAITING, Inc
  <2>10. CASE Progressed(i)
    BY <2>10, SMTT(30) DEF Progressed, Goto, restVars, localVars
  <2>11. CASE StayLeader(i)
    BY <2>11, SMTT(30) DEF StayLeader, CallBlockThread, Goto
  <2>12. CASE Relinquish(i)
    BY <2>12, SMTT(30) DEF Relinquish, CallBlockThread, Goto
  <2>13. CASE Relinquished(i)
    BY <2>13, SMTT(30) DEF Relinquished, Goto, restVars, localVars
  <2>14. CASE RelinquishGsw(i)
    BY <2>14, SMTT(30) DEF RelinquishGsw, GotSchedWakeups, Goto, coreVars, leaderVars
  <2> HIDE DEF ControlInv
  <2> QED BY <1>3, <2>1, <2>2, <2>3, <2>4, <2>5, <2>6, <2>7, <2>8, <2>9,
      <2>10, <2>11, <2>12, <2>13, <2>14 DEF LeaderStep
<1>4. CASE HandleStep(i)
  <2>1. CASE HandleManaged(i)
    BY <2>1, SMTT(30) DEF HandleManaged, Goto, coreVars, restVars, leaderVars, localVars
  <2>2. CASE WakeManaged(i)
    BY <2>2 DEF WakeManaged, coreVars, leaderVars
  <2>3. CASE ClearManaged(i)
    BY <2>3, SMTT(30) DEF ClearManaged, Goto, coreVars, leaderVars
  <2>4. CASE HandleUnmanaged(i)
    BY <2>4, SMTT(30) DEF HandleUnmanaged, Goto, coreVars, restVars, leaderVars,
        localVars
  <2>5. CASE ReadHigh(i)
    BY <2>5, SMTT(30) DEF ReadHigh, Goto, coreVars, restVars, leaderVars, localVars
  <2>6. CASE WakeLow(i)
    BY <2>6, SMTT(30) DEF WakeLow, Goto, coreVars, localVars, leaderVars
  <2>7. CASE ClearLow(i)
    BY <2>7, SMTT(30) DEF ClearLow, Goto, coreVars, restVars, leaderVars, localVars
  <2>8. CASE ClearHigh(i)
    BY <2>8, SMTT(30) DEF ClearHigh, Goto, coreVars, restVars, leaderVars, localVars
  <2>9. CASE ClearUnmanaged(i)
    BY <2>9, SMTT(30) DEF ClearUnmanaged, Goto, coreVars, restVars, leaderVars, localVars
  <2> HIDE DEF ControlInv
  <2> QED BY <1>4, <2>1, <2>2, <2>3, <2>4, <2>5, <2>6, <2>7, <2>8, <2>9 DEF HandleStep
<1>5. CASE SleepStep(i)
  <2>1. CASE PrepareWait(i)
    BY <2>1, SMTT(30) DEF PrepareWait, BlockCountDec, coreVars, restVars, Goto,
        leaderVars, localVars
  <2>2. CASE PrepareEvent(i)
    BY <2>2, SMTT(30) DEF PrepareEvent, Goto, coreVars, restVars, leaderVars, localVars
  <2>3. CASE PrepareStore(i)
    BY <2>3, SMTT(30) DEF PrepareStore, Goto, leaderVars, localVars
  <2>4. CASE PrepareFlags(i)
    BY <2>4, SMTT(30) DEF PrepareFlags, Goto, coreVars, restVars, leaderVars, localVars
  <2>5. CASE PrepareGsw(i)
    BY <2>5, SMTT(30) DEF PrepareGsw, GotSchedWakeups, Goto, coreVars, leaderVars
  <2>6. CASE Wake(i)
    BY <2>6, SMTT(30) DEF Wake, Goto, coreVars, restVars, leaderVars, localVars
  <2>7. CASE FinalizeRead(i)
    BY <2>7, SMTT(30) DEF FinalizeRead, Goto, coreVars, leaderVars
  <2>8. CASE FinalizeSet(i)
    BY <2>8, SMTT(30) DEF FinalizeSet, Goto, leaderVars, restVars, localVars
  <2>9. CASE FinalizeCheck(i)
    BY <2>9, SMTT(30) DEF FinalizeCheck, Goto, coreVars, leaderVars
  <2>10. CASE FinalizeInc(i)
    BY <2>10, SMTT(30) DEF FinalizeInc, CallBlockThread, Goto, coreVars, leaderVars
  <2> HIDE DEF ControlInv
  <2> QED BY <1>5, <2>1, <2>2, <2>3, <2>4, <2>5, <2>6, <2>7, <2>8, <2>9, <2>10 DEF SleepStep
<1>6. CASE BlockThreadStep(i)
  <2>1. CASE BlockThread(i)
    BY <2>1, SMTT(30) DEF BlockThread, BlockCountDec, coreVars, restVars, Goto,
        leaderVars, localVars
  <2>2. CASE BlockEvent(i)
    BY <2>2, SMTT(30) DEF BlockEvent, Goto, coreVars, restVars, leaderVars, localVars
  <2>3. CASE BlockPrepare(i)
    BY <2>3, SMTT(30) DEF BlockPrepare, Goto, coreVars, restVars, leaderVars, localVars
  <2>4. CASE BlockFlags(i)
    BY <2>4, SMTT(30) DEF BlockFlags, Goto, coreVars, restVars, leaderVars, localVars
  <2>5. CASE BlockWait(i)
    BY <2>5, SMTT(30) DEF BlockWait, Goto, coreVars, restVars, leaderVars, localVars
  <2>6. CASE BlockInc(i)
    BY <2>6, SMTT(30) DEF BlockInc, Goto, coreVars, leaderVars
  <2> HIDE DEF ControlInv
  <2> QED BY <1>6, <2>1, <2>2, <2>3, <2>4, <2>5, <2>6 DEF BlockThreadStep
<1>7. CASE BlockStep(i)
  <2>1. CASE BlockRequest(i)
    BY <2>1, SMTT(30) DEF BlockRequest, CallBlockThread, Goto, leaderVars
  <2>2. CASE BlockSetEvent(i)
    BY <2>2, SMTT(30) DEF BlockSetEvent, Goto, coreVars, restVars, leaderVars, localVars
  <2>3. CASE BlockDec(i)
    BY <2>3, SMTT(30) DEF BlockDec, Goto, coreVars, restVars, leaderVars, localVars
  <2>4. CASE BlockBlocking(i)
    BY <2>4, SMTT(30) DEF BlockBlocking, Goto, coreVars, restVars, leaderVars, localVars
  <2>5. CASE BlockTse(i)
    BY <2>5, SMTT(30) DEF BlockTse, Goto, coreVars, restVars, leaderVars, localVars
  <2>6. CASE BlockRead(i)
    BY <2>6, SMTT(30) DEF BlockRead, Goto, coreVars, restVars, leaderVars, localVars
  <2>7. CASE Unblock(i)
    BY <2>7, SMTT(30) DEF Unblock, Goto, coreVars, restVars, leaderVars, localVars
  <2>8. CASE UnblockEvent(i)
    BY <2>8, SMTT(30) DEF UnblockEvent, Goto, coreVars, restVars, leaderVars, localVars
  <2>9. CASE UnblockNotBlocking(i)
    BY <2>9, SMTT(30) DEF UnblockNotBlocking, Goto, coreVars, restVars, leaderVars,
        localVars
  <2>10. CASE UnblockFlag(i)
    BY <2>10, SMTT(30) DEF UnblockFlag, Goto, leaderVars
  <2>11. CASE UnblockWake(i)
    BY <2>11, SMTT(30) DEF UnblockWake, Goto, coreVars, leaderVars
  <2> HIDE DEF ControlInv
  <2> QED BY <1>7, <2>1, <2>2, <2>3, <2>4, <2>5, <2>6, <2>7, <2>8, <2>9,
      <2>10, <2>11 DEF BlockStep
<1>8. CASE RequestStep(i)
  <2>1. CASE RequestManaged(i)
    <3>1. WakeupIx(RequestValue(i)) \in Slot
      BY SlotType, ValTypes DEF TypeOK, OpType, RequestValue, Thread, NONE
    <3> QED BY <2>1, <3>1, SMTT(30) DEF RequestManaged, Goto, coreVars, leaderVars
  <2>2. CASE RequestLen(i)
    BY <2>2, SMTT(30) DEF RequestLen, Goto, coreVars, leaderVars
  <2>3. CASE RequestId(i)
    BY <2>3, SMTT(30) DEF RequestId, Goto, coreVars, leaderVars
  <2> HIDE DEF ControlInv
  <2> QED BY <1>8, <2>1, <2>2, <2>3 DEF RequestStep
<1>9. CASE AuxStep(i)
  <2>1. CASE AuxActivate(i)
    BY <2>1 DEF AuxActivate, Activate, leaderVars, restVars, localVars
  <2>2. CASE AuxFinish(i)
    BY <2>2, SMTT(30) DEF AuxFinish, Goto, coreVars, localVars, leaderVars
  <2>3. CASE AuxSleep(i)
    BY <2>3, SMTT(30) DEF AuxSleep, Goto, leaderVars
  <2>4. CASE IdleRun(i)
    BY <2>4, SMTT(30) DEF IdleRun, Activate, Goto, leaderVars
  <2> HIDE DEF ControlInv
  <2> QED BY <1>9, <2>1, <2>2, <2>3, <2>4 DEF AuxStep
<1>10. CASE \/ CallUpdate(i) \/ CallBlock(i) \/ Later(i) \/ CallWakeup(i)
           \/ FinishManaged(i) \/ PrepareSleep(i) \/ OtherWakeup(i)
  <2>1. CASE CallUpdate(i)
    BY <2>1, SMTT(30) DEF CallUpdate, Goto, coreVars, leaderVars
  <2>2. CASE CallBlock(i)
    BY <2>2, SMTT(30) DEF CallBlock, Goto, coreVars, restVars, leaderVars, localVars
  <2>3. CASE Later(i)
    BY <2>3 DEF Later, coreVars, localVars, leaderVars
  <2>4. CASE CallWakeup(i)
    BY <2>4, SMTT(30) DEF CallWakeup, Goto, coreVars, restVars, leaderVars, localVars
  <2>5. CASE FinishManaged(i)
    BY <2>5 DEF FinishManaged, coreVars, localVars, leaderVars
  <2>6. CASE PrepareSleep(i)
    BY <2>6, SMTT(30) DEF PrepareSleep, Goto, coreVars, restVars, leaderVars, localVars
  <2>7. CASE OtherWakeup(i)
    BY <2>7 DEF OtherWakeup, coreVars, restVars, leaderVars, localVars
  <2> HIDE DEF ControlInv
  <2> QED BY <1>10, <2>1, <2>2, <2>3, <2>4, <2>5, <2>6, <2>7
<1> HIDE DEF ControlInv
<1> QED BY <1>1, <1>2, <1>3, <1>4, <1>5, <1>6, <1>7, <1>8, <1>9, <1>10 DEF ManagedStep, InternalStep

\* Only update and leader_update change who is leader.
LEMMA LeaderFrame ==
    ASSUME TypeOK, NEW i \in Managed, ManagedStep(i)
    PROVE  \/ UpdateTake(i) \/ Relinquish(i)
           \/ leader' = leader /\ lflgs'.noLeader = lflgs.noLeader
<1> USE ZenonT(30)
<1> lflgs \in [block : BOOLEAN, noLeader : BOOLEAN, waitingUM : BOOLEAN, active : Int]
  BY DEF TypeOK, FlagType
<1> USE DEF coreVars, leaderVars
<1>1. CASE RegisterStep(i)
  BY <1>1 DEF RegisterStep, Register, RegisterCount, RegisterWait,
      RegisterRead
<1>2. CASE UpdateStep(i)
  BY <1>2 DEF UpdateStep, UpdateRead, UpdateConfirm, UpdateFlags
<1>3. CASE LeaderStep(i)
  BY <1>3 DEF LeaderStep, NotLeader, TakeOver, ContinueCheck, CheckManaged,
      CheckUnmanaged, FlipUmrefc, RecheckUnmanaged, Advance, Publish,
      Progressed, StayLeader, Relinquished, RelinquishGsw, GotSchedWakeups
<1>4. CASE HandleStep(i)
  BY <1>4 DEF HandleStep, HandleManaged, WakeManaged, ClearManaged,
      HandleUnmanaged, ReadHigh, WakeLow, ClearLow, ClearHigh, ClearUnmanaged
<1>5. CASE SleepStep(i)
  BY <1>5 DEF SleepStep, PrepareWait, PrepareEvent, PrepareStore,
      PrepareFlags, PrepareGsw, Wake, FinalizeRead, FinalizeSet,
      FinalizeCheck, FinalizeInc, GotSchedWakeups
<1>6. CASE BlockThreadStep(i)
  BY <1>6 DEF BlockThreadStep, BlockThread, BlockEvent, BlockPrepare,
      BlockFlags, BlockWait, BlockInc
<1>7. CASE BlockStep(i)
  BY <1>7 DEF BlockStep, BlockRequest, BlockSetEvent, BlockDec, BlockBlocking,
      BlockTse, BlockRead, Unblock, UnblockEvent, UnblockNotBlocking,
      UnblockFlag, UnblockWake
<1>8. CASE RequestStep(i)
  BY <1>8 DEF RequestStep, RequestManaged, RequestLen, RequestId
<1>9. CASE AuxStep(i)
  BY <1>9 DEF AuxStep, AuxActivate, AuxFinish, AuxSleep, IdleRun, Activate
<1>10. CASE \/ CallUpdate(i) \/ CallBlock(i) \/ Later(i) \/ CallWakeup(i)
           \/ FinishManaged(i) \/ PrepareSleep(i) \/ OtherWakeup(i)
  BY <1>10 DEF CallUpdate, CallBlock, Later, CallWakeup, FinishManaged, PrepareSleep,
               OtherWakeup
<1> QED BY <1>1, <1>2, <1>3, <1>4, <1>5, <1>6, <1>7, <1>8, <1>9, <1>10 DEF ManagedStep, InternalStep

\* LeaderUnique is kept: the NO_LEADER flag is cleared atomically by the thread
\* that becomes leader, and set by the leader that resigns.
LEMMA LeaderManaged ==
    ASSUME TypeOK, ControlInv, ControlInv', LeaderUnique, NEW i \in Managed, ManagedStep(i)
    PROVE  LeaderUnique'
<1> USE ZenonT(30)
<1>1. \A j \in Managed : leader'[j] => ~Asleep(j)'
  BY DEF ControlInv, Asleep, InactivePc, AsleepPc, LeadPc, CheckedPc, PublishedPc, HandlePc
<1>2. CASE UpdateTake(i)
  <2>1. ~leader[i] /\ lflgs'.noLeader = FALSE
    BY <1>2 DEF UpdateTake, ControlInv, TakePc, TypeOK, FlagType
  <2>2. leader'[i] = lflgs.noLeader /\ \A j \in Managed \ {i} : leader'[j] = leader[j]
    BY <1>2 DEF UpdateTake, TypeOK, LeaderType
  <2> QED BY <1>1, <2>1, <2>2 DEF LeaderUnique, TypeOK, LeaderType, FlagType
<1>3. CASE Relinquish(i)
  <2>1. leader[i]
    BY <1>3 DEF Relinquish, ControlInv, LeadPc
  <2>2. lflgs'.noLeader = TRUE
    BY <1>3 DEF Relinquish, TypeOK, FlagType
  <2>3. ~leader'[i] /\ \A j \in Managed \ {i} : leader'[j] = leader[j]
    BY <1>3 DEF Relinquish, TypeOK, LeaderType
  <2> QED BY <1>1, <2>1, <2>2, <2>3 DEF LeaderUnique
<1>4. CASE leader' = leader /\ lflgs'.noLeader = lflgs.noLeader
  BY <1>1, <1>4 DEF LeaderUnique
<1> QED BY <1>2, <1>3, <1>4, LeaderFrame

\* SafeInv holds initially.
LEMMA SafeInit == ASSUME Init PROVE SafeInv
<1> USE ZenonT(30)
<1>1. ControlInv
  BY DEF Init, ControlInv, Leads, InactivePc, AsleepPc, UpdatePc, TakePc, LeadPc,
      CheckedPc, PublishedPc, HandlePc, BlockThreadPc
<1>2. LeaderUnique
  BY ThreadAssumption DEF Init, LeaderUnique
<1> QED BY <1>1, <1>2, TypeInit DEF SafeInv

\* SafeInv is inductive.
LEMMA SafeNext == ASSUME SafeInv, [Next]_vars PROVE SafeInv'
<1> USE ZenonT(30)
<1> USE DEF SafeInv
<1>1. ASSUME NEW i \in Managed, ManagedStep(i) PROVE SafeInv'
  BY <1>1, TypeManaged, ControlManaged, LeaderManaged
<1>2. ASSUME NEW u \in Unmanaged, UnmanagedStep(u) PROVE SafeInv'
  <2>1. UFrame(u) /\ TypeOK'
    BY <1>2, UnmanagedFrame, TypeUnmanaged
  <2>2. ControlInv'
    BY <2>1 DEF UFrame, ControlInv, Leads, leaderVars, localVars
  <2>3. LeaderUnique'
    BY <2>1 DEF UFrame, LeaderUnique, Asleep, leaderVars
  <2> QED BY <2>1, <2>2, <2>3
<1>3. CASE UNCHANGED vars
  <2>1. TypeOK'
    BY <1>3, TypeFrame DEF vars, TypeOK, coreVars, restVars
  <2>2. ControlInv' /\ LeaderUnique'
    BY <1>3 DEF vars, coreVars, restVars, leaderVars, localVars, ControlInv, Leads,
                LeaderUnique, Asleep
  <2> QED BY <2>1, <2>2
<1> QED BY <1>1, <1>2, <1>3 DEF Next

\* The inductive invariant of update, leader_update, prepare_wait and
\* finalize_wait that does not depend on values, for any number of threads.
THEOREM SafeControl == Spec => []SafeInv
<1>1. Init => SafeInv
  BY SafeInit
<1>2. SafeInv /\ [Next]_vars => SafeInv'
  BY SafeNext
<1> QED BY <1>1, <1>2, PTL DEF Spec

\* The functionality is type correct: no step of update, leader_update,
\* prepare_wait, block_thread or a wakeup request leaves the types.
THEOREM TypeCorrect == Spec => []TypeOK
  BY SafeControl, PTL DEF SafeInv

\* Leadership is exclusive, the NO_LEADER flag tells the truth, and nobody
\* sleeps as leader, for any number of threads.
THEOREM LeaderUniqueHolds == Spec => []LeaderUnique
  BY SafeControl, PTL DEF SafeInv
=============================================================================
