----------------------- MODULE ThrProgressTypeProofs ------------------------
(***************************************************************************)
(* Proofs that the actions of ThrProgress keep TypeOK: first registration, *)
(* update and what a leader does, then sleeping, blocking, requests and    *)
(* the unmanaged threads.  TypeOK is proved group by group; a group in an  *)
(* action's frame is left to TypeFrame.                                    *)
(***************************************************************************)
EXTENDS ThrProgressInv, TLAPS

\* Increments stay within the type of a value.
LEMMA ValTypes ==
    /\ VAL_WAITING \in Nat /\ 0 \in Val /\ Slot \subseteq Val /\ Val \subseteq Nat
    /\ \A v \in Val : Inc(v) \in Val
    /\ \A v \in Val \cup {VAL_WAITING} : CurrentToLater(v) \in Nat
    /\ \A v \in Nat \cup {NONE} : Inc(v) \in Nat
  BY ValueAssumption
  DEF Val, VAL_WAITING, Slot, WAKEUP_DATA_SIZE, Inc, CurrentToLater, NONE

\* A value has a slot of the wakeup table.
LEMMA SlotType == \A v \in Nat \cup {NONE} : WakeupIx(v) \in Slot
  BY DEF WakeupIx, Slot, WAKEUP_DATA_SIZE, NONE

\* A group of variables that does not change keeps its type.
LEMMA TypeFrame ==
    /\ ValueType /\ UNCHANGED valueVars => ValueType'
    /\ LeaderType /\ UNCHANGED leaderVars => LeaderType'
    /\ FlagType /\ UNCHANGED lflgs => FlagType'
    /\ UmType /\ UNCHANGED umVars => UmType'
    /\ BlockType /\ UNCHANGED blockVars => BlockType'
    /\ WakeType /\ UNCHANGED wakeVars => WakeType'
    /\ LocalType /\ UNCHANGED localVars => LocalType'
    /\ UnmanagedType /\ UNCHANGED unmanagedVars => UnmanagedType'
    /\ OpType /\ UNCHANGED opVars => OpType'
  BY DEF ValueType, valueVars, LeaderType, leaderVars, FlagType, UmType, umVars,
         BlockType, blockVars, WakeType, wakeVars, LocalType, localVars,
         UnmanagedType, unmanagedVars, OpType, opVars

\* The steps of update and of leader_update keep TypeOK.  ControlInv is needed
\* where a value that may be VAL_WAITING is incremented.
LEMMA TypeLeading ==
    ASSUME TypeOK, ControlInv, NEW i \in Managed,
           RegisterStep(i) \/ UpdateStep(i) \/ LeaderStep(i) \/ HandleStep(i)
    PROVE  TypeOK'
<1> USE ZenonT(30)
<1>1. CASE RegisterStep(i)
  <2>1. CASE Register(i)
    BY <2>1, TypeFrame, SMTT(30) DEF TypeOK, Register, Goto, restVars, FlagType,
        ManagedPc, RegisterPc
  <2>2. CASE RegisterCount(i)
    <3>1. sleeping' \in [Managed -> BOOLEAN]
      BY <2>2 DEF TypeOK, RegisterCount, Poke
    <3>2. managedCount' \in Nat
      BY <2>2, SMTT(30) DEF TypeOK, RegisterCount
    <3>3. pc' \in [Managed -> ManagedPc]
      BY <2>2 DEF TypeOK, RegisterCount, Goto, ManagedPc, RegisterPc
    <3> QED BY <2>2, TypeFrame, <3>1, <3>2, <3>3 DEF TypeOK, RegisterCount,
        restVars
  <2>3. CASE RegisterWait(i)
    BY <2>3, TypeFrame DEF TypeOK, RegisterWait, Goto, coreVars, restVars,
        ManagedPc, RegisterPc
  <2>4. CASE RegisterRead(i)
    BY <2>4, TypeFrame DEF TypeOK, RegisterRead, Poke, Goto, coreVars, restVars,
        ManagedPc, RegisterPc
  <2> QED BY <1>1, <2>1, <2>2, <2>3, <2>4 DEF RegisterStep
<1>2. CASE UpdateStep(i)
  <2>1. CASE UpdateRead(i)
    <3>1. LocalType'
      BY <2>1 DEF TypeOK, UpdateRead, LocalType, ValueType
    <3>2. pc' \in [Managed -> ManagedPc]
      BY <2>1 DEF TypeOK, UpdateRead, Goto, ManagedPc, UpdatePc, TakePc
    <3> QED BY <2>1, TypeFrame, <3>1, <3>2 DEF TypeOK, UpdateRead, coreVars
  <2>2. CASE UpdateConfirm(i)
    <3>1. ValueType'
      <4>1. Inc(val[i]) \in Val
        BY ValTypes DEF TypeOK, LocalType
      <4> QED BY <2>2, <4>1 DEF TypeOK, UpdateConfirm, ValueType
    <3>2. LocalType'
      BY <2>2, ValTypes DEF TypeOK, UpdateConfirm, LocalType
    <3>3. OpType'
      BY <2>2 DEF TypeOK, UpdateConfirm, Quiescent, OpType
    <3>4. pc' \in [Managed -> ManagedPc]
      BY <2>2 DEF TypeOK, UpdateConfirm, Goto, ManagedPc, UpdatePc, TakePc
    <3> QED BY <2>2, TypeFrame, <3>1, <3>2, <3>3, <3>4 DEF TypeOK, UpdateConfirm
  <2>3. CASE UpdateFlags(i)
    <3>1. pc' \in [Managed -> ManagedPc]
      BY <2>3 DEF TypeOK, UpdateFlags, Goto, ManagedPc, UpdatePc, TakePc,
          InactivePc, LocalType
    <3> QED BY <2>3, TypeFrame, <3>1 DEF TypeOK, UpdateFlags, coreVars, restVars
  <2>4. CASE UpdateTake(i)
    <3>1. LeaderType'
      BY <2>4 DEF TypeOK, UpdateTake, LeaderType, FlagType
    <3>2. FlagType'
      BY <2>4 DEF TypeOK, UpdateTake, FlagType
    <3>3. pc' \in [Managed -> ManagedPc]
      BY <2>4 DEF TypeOK, UpdateTake, Goto, ManagedPc, UpdatePc, InactivePc,
          LocalType
    <3> QED BY <2>4, TypeFrame, <3>1, <3>2, <3>3 DEF TypeOK, UpdateTake,
        restVars
  <2> QED BY <1>2, <2>1, <2>2, <2>3, <2>4 DEF UpdateStep
<1>3. CASE LeaderStep(i)
  <2>1. CASE NotLeader(i)
    BY <2>1, TypeFrame DEF TypeOK, NotLeader, CallBlockThread, Goto, coreVars,
        LocalType, localVars, ManagedPc, BlockThreadPc, InactivePc
  <2>2. CASE TakeOver(i)
    <3>1. ValueType'
      BY <2>2, ValTypes, SMTT(30) DEF TypeOK, TakeOver, ValueType
    <3>2. LeaderType'
      BY <2>2, ValTypes, ThreadAssumption, SMTT(30) DEF TypeOK, TakeOver, LeaderType,
          ValueType, UmType
    <3>3. LocalType'
      BY <2>2 DEF TypeOK, TakeOver, LocalType
    <3>4. OpType'
      BY <2>2, SMTT(30) DEF TypeOK, TakeOver, Quiescent, OpType
    <3>5. pc' \in [Managed -> ManagedPc]
      <4>1. pc \in [Managed -> ManagedPc]
        BY DEF TypeOK
      <4>2. StartCheck(i, current)
        BY <2>2 DEF TakeOver
      <4> QED BY <4>1, <4>2 DEF StartCheck, Goto, ManagedPc, LeadPc
    <3> QED BY <2>2, TypeFrame, <3>1, <3>2, <3>3, <3>4, <3>5 DEF TypeOK,
        TakeOver
  <2>3. CASE ContinueCheck(i)
    BY <2>3, TypeFrame, ValTypes, SMTT(30) DEF TypeOK, ContinueCheck, StartCheck, Goto,
        LeaderType, leaderVars, LocalType, localVars, ManagedPc, LeadPc,
        ValueType
  <2>4. CASE CheckManaged(i)
    <3>1. LeaderType'
      BY <2>4, ThreadAssumption, SMTT(30) DEF TypeOK, CheckManaged, LeaderType, LocalType
    <3>2. LocalType'
      BY <2>4, SMTT(30) DEF TypeOK, CheckManaged, LocalType
    <3>3. pc' \in [Managed -> ManagedPc]
      BY <2>4 DEF TypeOK, CheckManaged, Goto, ManagedPc, LeadPc
    <3> QED BY <2>4, TypeFrame, <3>1, <3>2, <3>3 DEF TypeOK, CheckManaged
  <2>5. CASE CheckUnmanaged(i)
    BY <2>5, TypeFrame DEF TypeOK, CheckUnmanaged, NONE, Goto, UmrefcIx,
        LeaderType, leaderVars, LocalType, localVars, ManagedPc, LeadPc,
        CheckedPc
  <2>6. CASE FlipUmrefc(i)
    <3>1. LeaderType'
      BY <2>6, ThreadAssumption, SMTT(30) DEF TypeOK, FlipUmrefc, LeaderType, UmType
    <3>2. UmType'
      BY <2>6, SMTT(30) DEF TypeOK, FlipUmrefc, UmType
    <3>3. pc' \in [Managed -> ManagedPc]
      BY <2>6 DEF TypeOK, FlipUmrefc, Goto, ManagedPc, LeadPc, CheckedPc
    <3> QED BY <2>6, TypeFrame, <3>1, <3>2, <3>3 DEF TypeOK, FlipUmrefc,
        restVars
  <2>7. CASE RecheckUnmanaged(i)
    BY <2>7, TypeFrame DEF TypeOK, RecheckUnmanaged, Goto, coreVars, restVars,
        ManagedPc, LeadPc, CheckedPc
  <2>8. CASE Advance(i)
    <3>1. ValueType'
      BY <2>8, ValTypes, ControlInv DEF TypeOK, Advance, ValueType, ControlInv,
          Leads, LeadPc, CheckedPc, LeaderType
    <3>2. pc' \in [Managed -> ManagedPc]
      BY <2>8 DEF TypeOK, Advance, Goto, ManagedPc, LeadPc, CheckedPc
    <3> QED BY <2>8, TypeFrame, <3>1, <3>2 DEF TypeOK, Advance, restVars
  <2>9. CASE Publish(i)
    <3>1. ValueType'
      BY <2>9, ValTypes, ControlInv DEF TypeOK, Publish, ValueType, ControlInv,
          Leads, LeadPc, CheckedPc, LeaderType
    <3>2. LeaderType'
      BY <2>9, ValTypes, ControlInv DEF TypeOK, Publish, LeaderType,
          ControlInv, Leads, LeadPc, CheckedPc
    <3>3. OpType'
      BY <2>9 DEF TypeOK, Publish, Quiescent, OpType
    <3>4. pc' \in [Managed -> ManagedPc]
      BY <2>9 DEF TypeOK, Publish, Goto, ManagedPc, PublishedPc, LeadPc,
          HandlePc
    <3> QED BY <2>9, TypeFrame, <3>1, <3>2, <3>3, <3>4 DEF TypeOK, Publish
  <2>10. CASE Progressed(i)
    <3>1. LeaderType'
      <4>1. lchk' \in [Managed -> 0 .. NoManaged]
        BY <2>10, ThreadAssumption, SMTT(30) DEF TypeOK, Progressed, LeaderType
      <4>2. lwait' \in [Managed -> {NONE, 0, 1}] /\ wum' \in [Managed -> BOOLEAN]
        BY <2>10 DEF TypeOK, Progressed, LeaderType
      <4> QED BY <2>10, <4>1, <4>2 DEF TypeOK, Progressed, LeaderType
    <3>2. FlagType'
      BY <2>10 DEF TypeOK, Progressed, FlagType
    <3>3. pc' \in [Managed -> ManagedPc]
      <4>1. pc \in [Managed -> ManagedPc]
        BY DEF TypeOK
      <4>2. Goto(i, "done")
        BY <2>10 DEF Progressed
      <4> QED BY <4>1, <4>2 DEF Goto, ManagedPc, LeadPc
    <3> QED BY <2>10, TypeFrame, <3>1, <3>2, <3>3 DEF TypeOK, Progressed,
        restVars
  <2>11. CASE StayLeader(i)
    BY <2>11, TypeFrame, SMTT(30) DEF TypeOK, StayLeader, CallBlockThread, Goto,
        LeaderType, leaderVars, LocalType, localVars, ManagedPc, BlockThreadPc,
        InactivePc
  <2>12. CASE Relinquish(i)
    <3>1. LeaderType'
      BY <2>12, ThreadAssumption, SMTT(30) DEF TypeOK, Relinquish, LeaderType
    <3>2. UmType'
      BY <2>12 DEF TypeOK, Relinquish, UmType, LeaderType
    <3>3. LocalType'
      BY <2>12, SMTT(30) DEF TypeOK, Relinquish, CallBlockThread, LocalType
    <3>4. FlagType'
      BY <2>12 DEF TypeOK, Relinquish, FlagType
    <3>5. pc' \in [Managed -> ManagedPc]
      BY <2>12 DEF TypeOK, Relinquish, CallBlockThread, Goto, ManagedPc,
          InactivePc, BlockThreadPc, LocalType
    <3> QED BY <2>12, TypeFrame, <3>1, <3>2, <3>3, <3>4, <3>5 DEF TypeOK,
        Relinquish
  <2>13. CASE Relinquished(i)
    <3>1. LeaderType'
      BY <2>13 DEF TypeOK, Relinquished, LeaderType
    <3>2. pc' \in [Managed -> ManagedPc]
      BY <2>13 DEF TypeOK, Relinquished, Goto, ManagedPc, InactivePc, LocalType
    <3> QED BY <2>13, TypeFrame, <3>1, <3>2 DEF TypeOK, Relinquished, restVars
  <2>14. CASE RelinquishGsw(i)
    <3>1. LocalType'
      BY <2>14, SMTT(30) DEF TypeOK, RelinquishGsw, GotSchedWakeups, LocalType
    <3>2. sleeping' \in [Managed -> BOOLEAN]
      BY <2>14 DEF TypeOK, RelinquishGsw, GotSchedWakeups, Poke
    <3>3. pc' \in [Managed -> ManagedPc]
      BY <2>14 DEF TypeOK, RelinquishGsw, GotSchedWakeups, Goto, ManagedPc,
          InactivePc, LocalType
    <3> QED BY <2>14, TypeFrame, <3>1, <3>2, <3>3 DEF TypeOK, RelinquishGsw,
        GotSchedWakeups, coreVars
  <2> QED BY <1>3, <2>1, <2>2, <2>3, <2>4, <2>5, <2>6, <2>7, <2>8, <2>9,
      <2>10, <2>11, <2>12, <2>13, <2>14 DEF LeaderStep
<1>4. CASE HandleStep(i)
  <2>1. CASE HandleManaged(i)
    <3>1. (hw \in [len : Nat, hmask : SUBSET Words])'
      BY <2>1, SlotType, ValTypes DEF TypeOK, WakeType, HandleManaged,
          ValueType, WakeSlot
    <3>2. WakeType'
      BY <2>1, <3>1 DEF TypeOK, WakeType, HandleManaged
    <3>3. pc' \in [Managed -> ManagedPc]
      BY <2>1 DEF TypeOK, HandleManaged, Goto, ManagedPc, PublishedPc, LeadPc,
          HandlePc
    <3> QED BY <2>1, TypeFrame, <3>1, <3>2, <3>3 DEF TypeOK, HandleManaged,
        coreVars, restVars
  <2>2. CASE WakeManaged(i)
    <3>1. LocalType'
      <4>1. LocalType
        BY DEF TypeOK
      <4>2. UNCHANGED <<uret, bret, val>> /\ ix' = [ix EXCEPT ![i] = ix[i] + 1]
        BY <2>2 DEF WakeManaged
      <4>3. ix' \in [Managed -> Nat]
        BY <4>1, <4>2, SMTT(30) DEF LocalType
      <4> QED BY <4>1, <4>2, <4>3 DEF LocalType
    <3>2. sleeping' \in [Managed -> BOOLEAN]
      BY <2>2 DEF TypeOK, WakeManaged, Poke
    <3> QED BY <2>2, TypeFrame, <3>1, <3>2 DEF TypeOK, WakeManaged, coreVars
  <2>3. CASE ClearManaged(i)
    <3>1. (mlen \in [Slot -> Nat])'
      BY <2>3 DEF TypeOK, WakeType, ClearManaged
    <3>2. (hw \in [len : Nat, hmask : SUBSET Words])'
      <4>1. hw \in [len : Nat, hmask : SUBSET Words]
        BY DEF TypeOK, WakeType
      <4>2. hw' = [hw EXCEPT !.len = 0]
        BY <2>3 DEF ClearManaged
      <4> QED BY <4>1, <4>2
    <3>3. WakeType'
      BY <2>3, <3>1, <3>2 DEF TypeOK, WakeType, ClearManaged
    <3>4. LocalType'
      BY <2>3 DEF TypeOK, ClearManaged, LocalType
    <3>5. pc' \in [Managed -> ManagedPc]
      BY <2>3 DEF TypeOK, ClearManaged, Goto, ManagedPc, PublishedPc, LeadPc,
          HandlePc
    <3> QED BY <2>3, TypeFrame, <3>1, <3>2, <3>3, <3>4, <3>5 DEF TypeOK,
        ClearManaged, coreVars
  <2>4. CASE HandleUnmanaged(i)
    BY <2>4, TypeFrame DEF TypeOK, HandleUnmanaged, Goto, WakeSlot, WakeupIx,
        coreVars, restVars, ManagedPc, LeadPc, PublishedPc, HandlePc
  <2>5. CASE ReadHigh(i)
    <3>1. (hw \in [len : Nat, hmask : SUBSET Words])'
      BY <2>5, SlotType, ValTypes DEF TypeOK, WakeType, ReadHigh, ValueType,
          WakeSlot
    <3>2. WakeType'
      BY <2>5, <3>1 DEF TypeOK, WakeType, ReadHigh
    <3>3. pc' \in [Managed -> ManagedPc]
      BY <2>5 DEF TypeOK, ReadHigh, Goto, ManagedPc, PublishedPc, LeadPc,
          HandlePc
    <3> QED BY <2>5, TypeFrame, <3>1, <3>2, <3>3 DEF TypeOK, ReadHigh,
        coreVars, restVars
  <2>6. CASE WakeLow(i)
    <3>1. (hw \in [len : Nat, hmask : SUBSET Words])'
      BY <2>6, SMTT(30) DEF TypeOK, WakeType, WakeLow
    <3>2. WakeType'
      BY <2>6, <3>1 DEF TypeOK, WakeType, WakeLow
    <3>3. UnmanagedType'
      BY <2>6 DEF TypeOK, WakeLow, UnmanagedType, ManagedPc, PublishedPc,
          LeadPc, HandlePc
    <3>4. pc' \in [Managed -> ManagedPc]
      BY <2>6 DEF TypeOK, WakeLow, Goto, ManagedPc, PublishedPc, LeadPc,
          HandlePc
    <3> QED BY <2>6, TypeFrame, <3>1, <3>2, <3>3, <3>4 DEF TypeOK, WakeLow,
        coreVars
  <2>7. CASE ClearLow(i)
    <3>1. (ulow \in [Slot -> [Words -> SUBSET Unmanaged]])'
      BY <2>7 DEF TypeOK, WakeType, ClearLow
    <3>2. (hw \in [len : Nat, hmask : SUBSET Words])'
      BY <2>7 DEF TypeOK, WakeType, ClearLow
    <3>3. WakeType'
      BY <2>7, <3>1, <3>2 DEF TypeOK, WakeType, ClearLow
    <3>4. pc' \in [Managed -> ManagedPc]
      BY <2>7 DEF TypeOK, ClearLow, Goto, ManagedPc, PublishedPc, LeadPc,
          HandlePc
    <3> QED BY <2>7, TypeFrame, <3>1, <3>2, <3>3, <3>4 DEF TypeOK, ClearLow,
        coreVars, restVars
  <2>8. CASE ClearHigh(i)
    <3>1. (uhigh \in [Slot -> SUBSET Words])'
      BY <2>8 DEF TypeOK, WakeType, ClearHigh
    <3>2. WakeType'
      BY <2>8, <3>1 DEF TypeOK, WakeType, ClearHigh
    <3>3. pc' \in [Managed -> ManagedPc]
      BY <2>8 DEF TypeOK, ClearHigh, Goto, ManagedPc, PublishedPc, LeadPc,
          HandlePc
    <3> QED BY <2>8, TypeFrame, <3>1, <3>2, <3>3 DEF TypeOK, ClearHigh,
        coreVars, restVars
  <2>9. CASE ClearUnmanaged(i)
    <3>1. (ulen \in [Slot -> Nat])'
      BY <2>9 DEF TypeOK, WakeType, ClearUnmanaged
    <3>2. WakeType'
      BY <2>9, <3>1 DEF TypeOK, WakeType, ClearUnmanaged
    <3>3. pc' \in [Managed -> ManagedPc]
      BY <2>9 DEF TypeOK, ClearUnmanaged, Goto, ManagedPc, LeadPc, PublishedPc
    <3> QED BY <2>9, TypeFrame, <3>1, <3>2, <3>3 DEF TypeOK, ClearUnmanaged,
        coreVars, restVars
  <2> QED BY <1>4, <2>1, <2>2, <2>3, <2>4, <2>5, <2>6, <2>7, <2>8, <2>9 DEF HandleStep
<1> QED BY <1>1, <1>2, <1>3, <1>4

\* The other steps of a managed thread keep TypeOK.  ControlInv is needed where
\* a value is used as a slot.
LEMMA TypeOther ==
    ASSUME TypeOK, ControlInv, NEW i \in Managed,
           \/ SleepStep(i) \/ BlockThreadStep(i) \/ BlockStep(i) \/ RequestStep(i)
           \/ AuxStep(i) \/ CallUpdate(i) \/ CallBlock(i) \/ Later(i) \/ CallWakeup(i)
           \/ FinishManaged(i) \/ PrepareSleep(i) \/ OtherWakeup(i)
    PROVE  TypeOK'
<1> USE ZenonT(30)
<1>1. CASE SleepStep(i)
  <2>1. CASE PrepareWait(i)
    BY <2>1, TypeFrame, SMTT(30) DEF TypeOK, PrepareWait, BlockCountDec, Goto, coreVars,
        restVars, BlockType, blockVars, ManagedPc, InactivePc
  <2>2. CASE PrepareEvent(i)
    BY <2>2, TypeFrame DEF TypeOK, PrepareEvent, SetBlockerEvent, Goto, NONE,
        coreVars, restVars, BlockType, blockVars, ManagedPc, InactivePc
  <2>3. CASE PrepareStore(i)
    BY <2>3, TypeFrame, ValTypes DEF TypeOK, PrepareStore, Quiescent, Goto,
        ValueType, valueVars, OpType, opVars, ManagedPc, InactivePc, AsleepPc
  <2>4. CASE PrepareFlags(i)
    BY <2>4, TypeFrame DEF TypeOK, PrepareFlags, Goto, coreVars, restVars,
        ManagedPc, InactivePc, AsleepPc
  <2>5. CASE PrepareGsw(i)
    <3>1. LocalType'
      BY <2>5, SMTT(30) DEF TypeOK, PrepareGsw, GotSchedWakeups, LocalType
    <3>2. sleeping' \in [Managed -> BOOLEAN]
      BY <2>5 DEF TypeOK, PrepareGsw, GotSchedWakeups, Poke
    <3>3. pc' \in [Managed -> ManagedPc]
      BY <2>5 DEF TypeOK, PrepareGsw, GotSchedWakeups, Goto, ManagedPc,
          InactivePc, AsleepPc
    <3> QED BY <2>5, TypeFrame, <3>1, <3>2, <3>3 DEF TypeOK, PrepareGsw,
        GotSchedWakeups, coreVars
  <2>6. CASE Wake(i)
    BY <2>6, TypeFrame DEF TypeOK, Wake, Goto, coreVars, restVars, ManagedPc,
        InactivePc, AsleepPc
  <2>7. CASE FinalizeRead(i)
    <3>1. LocalType'
      BY <2>7 DEF TypeOK, FinalizeRead, LocalType, ValueType
    <3>2. pc' \in [Managed -> ManagedPc]
      BY <2>7 DEF TypeOK, FinalizeRead, Goto, ManagedPc, InactivePc, AsleepPc
    <3> QED BY <2>7, TypeFrame, <3>1, <3>2 DEF TypeOK, FinalizeRead, coreVars
  <2>8. CASE FinalizeSet(i)
    <3>1. ValueType'
      BY <2>8, ValTypes DEF TypeOK, FinalizeSet, ValueType, LocalType
    <3>2. pc' \in [Managed -> ManagedPc]
      BY <2>8 DEF TypeOK, FinalizeSet, Goto, ManagedPc, InactivePc, AsleepPc
    <3> QED BY <2>8, TypeFrame, <3>1, <3>2 DEF TypeOK, FinalizeSet, restVars
  <2>9. CASE FinalizeCheck(i)
    <3>1. LocalType'
      BY <2>9, ValTypes DEF TypeOK, FinalizeCheck, LocalType, ValueType
    <3>2. pc' \in [Managed -> ManagedPc]
      BY <2>9 DEF TypeOK, FinalizeCheck, Goto, ManagedPc, InactivePc, AsleepPc
    <3> QED BY <2>9, TypeFrame, <3>1, <3>2 DEF TypeOK, FinalizeCheck, coreVars
  <2>10. CASE FinalizeInc(i)
    <3>1. LocalType'
      BY <2>10 DEF TypeOK, FinalizeInc, CallBlockThread, LocalType
    <3>2. pc' \in [Managed -> ManagedPc]
      BY <2>10 DEF TypeOK, FinalizeInc, CallBlockThread, Goto, ManagedPc,
          UpdatePc, BlockThreadPc
    <3>3. BlockType'
      BY <2>10, SMTT(30) DEF TypeOK, FinalizeInc, BlockType
    <3> QED BY <2>10, TypeFrame, <3>1, <3>2, <3>3
        DEF TypeOK, FinalizeInc, coreVars
  <2> QED BY <1>1, <2>1, <2>2, <2>3, <2>4, <2>5, <2>6, <2>7, <2>8, <2>9, <2>10,
      SMTT(30) DEF SleepStep
<1>2. CASE BlockThreadStep(i)
  <2>1. CASE BlockThread(i)
    BY <2>1, TypeFrame, SMTT(30) DEF TypeOK, BlockThread, BlockCountDec, Goto, coreVars,
        restVars, BlockType, blockVars, ManagedPc, BlockThreadPc
  <2>2. CASE BlockEvent(i)
    BY <2>2, TypeFrame DEF TypeOK, BlockEvent, SetBlockerEvent, Goto, NONE,
        coreVars, restVars, BlockType, blockVars, ManagedPc, BlockThreadPc
  <2>3. CASE BlockPrepare(i)
    BY <2>3, TypeFrame DEF TypeOK, BlockPrepare, Goto, coreVars, restVars,
        ManagedPc, BlockThreadPc
  <2>4. CASE BlockFlags(i)
    BY <2>4, TypeFrame DEF TypeOK, BlockFlags, Goto, coreVars, restVars,
        ManagedPc, BlockThreadPc
  <2>5. CASE BlockWait(i)
    BY <2>5, TypeFrame DEF TypeOK, BlockWait, Goto, coreVars, restVars,
        ManagedPc, BlockThreadPc
  <2>6. CASE BlockInc(i)
    <3>1. BlockType'
      BY <2>6, SMTT(30) DEF TypeOK, BlockInc, BlockType
    <3>2. LocalType'
      BY <2>6 DEF TypeOK, BlockInc, LocalType
    <3>3. sleeping' \in [Managed -> BOOLEAN]
      BY <2>6 DEF TypeOK, BlockInc, Poke
    <3>4. pc' \in [Managed -> ManagedPc]
      BY <2>6, SMTT(30) DEF TypeOK, BlockInc, Goto, ManagedPc, BlockThreadPc, InactivePc,
          UpdatePc, BlockerPc, LocalType
    <3> QED BY <2>6, TypeFrame, <3>1, <3>2, <3>3, <3>4 DEF TypeOK, BlockInc,
        coreVars
  <2> QED BY <1>2, <2>1, <2>2, <2>3, <2>4, <2>5, <2>6 DEF BlockThreadStep
<1>3. CASE BlockStep(i)
  <2>1. CASE BlockRequest(i)
    <3>1. LocalType'
      BY <2>1 DEF TypeOK, BlockRequest, CallBlockThread, LocalType
    <3>2. FlagType'
      BY <2>1 DEF TypeOK, BlockRequest, FlagType
    <3>3. pc' \in [Managed -> ManagedPc]
      BY <2>1 DEF TypeOK, BlockRequest, CallBlockThread, Goto, ManagedPc,
          BlockerPc, BlockThreadPc
    <3> QED BY <2>1, TypeFrame, <3>1, <3>2, <3>3 DEF TypeOK, BlockRequest
  <2>2. CASE BlockSetEvent(i)
    BY <2>2, TypeFrame DEF TypeOK, BlockSetEvent, Goto, coreVars, restVars,
        BlockType, blockVars, ManagedPc, BlockerPc
  <2>3. CASE BlockDec(i)
    <3>1. BlockType'
      BY <2>3, SMTT(30) DEF TypeOK, BlockDec, BlockType
    <3>2. pc' \in [Managed -> ManagedPc]
      BY <2>3 DEF TypeOK, BlockDec, Goto, ManagedPc, BlockerPc
    <3> QED BY <2>3, TypeFrame, <3>1, <3>2, Zenon DEF TypeOK, BlockDec, coreVars,
        restVars
  <2>4. CASE BlockBlocking(i)
    BY <2>4, TypeFrame DEF TypeOK, BlockBlocking, Goto, coreVars, restVars,
        BlockType, blockVars, ManagedPc, BlockerPc
  <2>5. CASE BlockTse(i)
    BY <2>5, TypeFrame DEF TypeOK, BlockTse, Goto, coreVars, restVars,
        BlockType, blockVars, ManagedPc, BlockerPc
  <2>6. CASE BlockRead(i)
    BY <2>6, TypeFrame DEF TypeOK, BlockRead, Goto, coreVars, restVars,
        ManagedPc, BlockerPc
  <2>7. CASE Unblock(i)
    BY <2>7, TypeFrame, SMTT(30) DEF TypeOK, Unblock, Goto, coreVars, restVars,
        BlockType, blockVars, ManagedPc, BlockerPc
  <2>8. CASE UnblockEvent(i)
    BY <2>8, TypeFrame DEF TypeOK, UnblockEvent, NONE, Goto, coreVars,
        restVars, BlockType, blockVars, ManagedPc, BlockerPc
  <2>9. CASE UnblockNotBlocking(i)
    BY <2>9, TypeFrame DEF TypeOK, UnblockNotBlocking, Goto, coreVars,
        restVars, BlockType, blockVars, ManagedPc, BlockerPc
  <2>10. CASE UnblockFlag(i)
    <3>1. LocalType'
      BY <2>10, ThreadAssumption, SMTT(30) DEF TypeOK, UnblockFlag, LocalType, Managed,
          After
    <3>2. FlagType'
      BY <2>10 DEF TypeOK, UnblockFlag, FlagType
    <3>3. pc' \in [Managed -> ManagedPc]
      BY <2>10 DEF TypeOK, UnblockFlag, Goto, ManagedPc, BlockerPc
    <3> QED BY <2>10, TypeFrame, <3>1, <3>2, <3>3 DEF TypeOK, UnblockFlag
  <2>11. CASE UnblockWake(i)
    <3>1. LocalType'
      BY <2>11, ThreadAssumption, SMTT(30) DEF TypeOK, UnblockWake, LocalType, After
    <3>2. sleeping' \in [Managed -> BOOLEAN]
      BY <2>11 DEF TypeOK, UnblockWake, Poke
    <3>3. pc' \in [Managed -> ManagedPc]
      BY <2>11 DEF TypeOK, UnblockWake, Goto, ManagedPc
    <3> QED BY <2>11, TypeFrame, <3>1, <3>2, <3>3 DEF TypeOK, UnblockWake,
        coreVars
  <2> QED BY <1>3, <2>1, <2>2, <2>3, <2>4, <2>5, <2>6, <2>7, <2>8, <2>9,
      <2>10, <2>11 DEF BlockStep
<1>4. CASE RequestStep(i)
  <2>1. CASE RequestManaged(i)
    <3>0. RequestValue(i) \in Int /\ WakeupIx(RequestValue(i)) \in Slot
      BY SlotType, ValTypes, SMTT(30) DEF TypeOK, OpType, RequestValue, Thread, NONE
    <3>1. (mreq \in [Managed -> [Slot -> Int]])'
      <4> DEFINE v == RequestValue(i)  s == WakeupIx(v)
      <4> HIDE DEF v, s
      <4>1. mreq' = mreq \/ mreq' = [mreq EXCEPT ![i][s] = v]
        BY <2>1 DEF RequestManaged, s, v
      <4>2. mreq \in [Managed -> [Slot -> Int]]
        BY DEF TypeOK, WakeType
      <4> QED BY <4>1, <4>2, <3>0, SMTT(30) DEF s, v
    <3>2. WakeType'
      BY <2>1, <3>1 DEF TypeOK, WakeType, RequestManaged
    <3>3. LocalType'
      BY <2>1, <3>0, ValTypes DEF TypeOK, RequestManaged, LocalType
    <3>4. sleeping' \in [Managed -> BOOLEAN]
      BY <2>1 DEF TypeOK, RequestManaged, Poke
    <3>5. pc' \in [Managed -> ManagedPc]
      BY <2>1 DEF TypeOK, RequestManaged, Goto, ManagedPc, RequestPc
    <3> QED BY <2>1, TypeFrame, <3>1, <3>2, <3>3, <3>4, <3>5 DEF TypeOK,
        RequestManaged, coreVars
  <2>2. CASE RequestLen(i)
    <3>1. (mlen \in [Slot -> Nat])'
      <4>1. val[i] \in Slot
        BY <2>2 DEF ControlInv, RequestLen
      <4>2. mlen' = [mlen EXCEPT ![val[i]] = @ + 1] /\ mlen \in [Slot -> Nat]
        BY <2>2 DEF TypeOK, WakeType, RequestLen
      <4> QED BY <4>1, <4>2, SMTT(30)
    <3>2. WakeType'
      BY <2>2, <3>1 DEF TypeOK, WakeType, RequestLen
    <3>3. LocalType'
      BY <2>2, ControlInv DEF TypeOK, RequestLen, LocalType, ControlInv,
          WakeType
    <3>4. pc' \in [Managed -> ManagedPc]
      BY <2>2 DEF TypeOK, RequestLen, Goto, ManagedPc, RequestPc
    <3> QED BY <2>2, TypeFrame, <3>1, <3>2, <3>3, <3>4 DEF TypeOK, RequestLen,
        coreVars
  <2>3. CASE RequestId(i)
    <3>1. (mid \in [Slot -> [Managed -> Managed \cup {NONE}]])'
      BY <2>3 DEF TypeOK, WakeType, RequestId
    <3>2. WakeType'
      BY <2>3, <3>1 DEF TypeOK, WakeType, RequestId
    <3>3. LocalType'
      BY <2>3, ValTypes DEF TypeOK, RequestId, LocalType
    <3>4. pc' \in [Managed -> ManagedPc]
      BY <2>3 DEF TypeOK, RequestId, Goto, ManagedPc
    <3> QED BY <2>3, TypeFrame, <3>1, <3>2, <3>3, <3>4 DEF TypeOK, RequestId,
        coreVars
  <2> QED BY <1>4, <2>1, <2>2, <2>3 DEF RequestStep
<1>5. CASE AuxStep(i)
  <2>1. CASE AuxActivate(i)
    BY <2>1, TypeFrame, SMTT(30) DEF TypeOK, AuxActivate, NONE, Activate, restVars,
        FlagType
  <2>2. CASE AuxFinish(i)
    BY <2>2, TypeFrame DEF TypeOK, AuxFinish, Finish, Poke, Goto, NONE,
        coreVars, OpType, opVars, ManagedPc
  <2>3. CASE AuxSleep(i)
    <3>1. LocalType'
      BY <2>3 DEF TypeOK, AuxSleep, LocalType
    <3>2. FlagType'
      BY <2>3, SMTT(30) DEF TypeOK, AuxSleep, FlagType
    <3>3. active' \in [Managed -> BOOLEAN]
      BY <2>3 DEF TypeOK, AuxSleep
    <3>4. pc' \in [Managed -> ManagedPc]
      BY <2>3 DEF TypeOK, AuxSleep, Goto, ManagedPc, UpdatePc, InactivePc
    <3> QED BY <2>3, TypeFrame, <3>1, <3>2, <3>3, <3>4 DEF TypeOK, AuxSleep
  <2>4. CASE IdleRun(i)
    BY <2>4, TypeFrame, SMTT(30) DEF TypeOK, IdleRun, Activate, Poke, Goto, LocalType,
        localVars, FlagType, ManagedPc
  <2> QED BY <1>5, <2>1, <2>2, <2>3, <2>4 DEF AuxStep
<1>6. CASE \/ CallUpdate(i) \/ CallBlock(i) \/ Later(i) \/ CallWakeup(i)
           \/ FinishManaged(i) \/ PrepareSleep(i) \/ OtherWakeup(i)
  <2>1. CASE CallUpdate(i)
    BY <2>1, TypeFrame DEF TypeOK, CallUpdate, Goto, coreVars, LocalType,
        localVars, ManagedPc, UpdatePc
  <2>2. CASE CallBlock(i)
    BY <2>2, TypeFrame DEF TypeOK, CallBlock, Goto, coreVars, restVars,
        ManagedPc, BlockerPc
  <2>3. CASE Later(i)
    <3>1. OpType'
      BY <2>3, ValTypes, ThreadAssumption DEF TypeOK, Later, OpType, ValueType,
          Thread, Busy
    <3> QED BY <2>3, TypeFrame, <3>1 DEF TypeOK, Later, coreVars
  <2>4. CASE CallWakeup(i)
    BY <2>4, TypeFrame DEF TypeOK, CallWakeup, NONE, Goto, coreVars, restVars,
        ManagedPc, RequestPc
  <2>5. CASE FinishManaged(i)
    BY <2>5, TypeFrame DEF TypeOK, FinishManaged, Finish, NONE, coreVars,
        OpType, opVars
  <2>6. CASE PrepareSleep(i)
    BY <2>6, TypeFrame, ValTypes DEF TypeOK, PrepareSleep, Goto, coreVars,
        restVars, ManagedPc, ValueType
  <2>7. CASE OtherWakeup(i)
    BY <2>7, TypeFrame DEF TypeOK, OtherWakeup, Poke, coreVars, restVars
  <2> QED BY <1>6, <2>1, <2>2, <2>3, <2>4, <2>5, <2>6, <2>7
<1> QED BY <1>1, <1>2, <1>3, <1>4, <1>5, <1>6

\* The steps of a managed thread keep TypeOK.
LEMMA TypeManaged ==
    ASSUME TypeOK, ControlInv, NEW i \in Managed, ManagedStep(i) PROVE TypeOK'
  BY TypeLeading, TypeOther DEF ManagedStep, InternalStep

\* The steps of an unmanaged thread keep TypeOK.
LEMMA TypeUnmanaged ==
    ASSUME TypeOK, NEW u \in Unmanaged, UnmanagedStep(u) PROVE TypeOK'
<1> USE ZenonT(30)
<1>1. CASE DelayRead(u)
  <2>1. UnmanagedType'
    BY <1>1 DEF TypeOK, DelayRead, UGoto, UnmanagedType, UnmanagedPc, DelayPc,
        UmType
  <2> QED BY <1>1, TypeFrame, <2>1 DEF TypeOK, DelayRead, coreVars
<1>2. CASE DelayInc(u)
  <2>1. UmType'
    BY <1>2, SMTT(30) DEF TypeOK, DelayInc, UmType, UnmanagedType
  <2>2. UnmanagedType'
    BY <1>2 DEF TypeOK, DelayInc, UGoto, UnmanagedType, UnmanagedPc, DelayPc
  <2> QED BY <1>2, TypeFrame, <2>1, <2>2 DEF TypeOK, DelayInc
<1>3. CASE DelayCheck(u)
  <2>1. UnmanagedType'
    BY <1>3 DEF TypeOK, DelayCheck, UGoto, UnmanagedType, UnmanagedPc, DelayPc
  <2> QED BY <1>3, TypeFrame, <2>1 DEF TypeOK, DelayCheck, coreVars
<1>4. CASE Continue(u)
  <2>1. UmType'
    BY <1>4, SMTT(30) DEF TypeOK, Continue, UmType, UnmanagedType
  <2>2. UnmanagedType'
    BY <1>4, SMTT(30) DEF TypeOK, Continue, UGoto, UnmanagedType, UnmanagedPc, DelayPc
  <2>3. OpType'
    BY <1>4 DEF TypeOK, Continue, Quiescent, OpType
  <2> QED BY <1>4, TypeFrame, <2>1, <2>2, <2>3 DEF TypeOK, Continue
<1>5. CASE ContinueFlags(u)
  BY <1>5, TypeFrame DEF TypeOK, ContinueFlags, UGoto, Continued, coreVars,
      UnmanagedType, unmanagedVars, UnmanagedPc, DelayPc
<1>6. CASE ContinueGsw(u)
  <2>1. UnmanagedType'
    BY <1>6, SMTT(30) DEF TypeOK, ContinueGsw, Continued, UGoto, UnmanagedType,
        UnmanagedPc, DelayPc
  <2>2. sleeping' \in [Managed -> BOOLEAN]
    BY <1>6 DEF TypeOK, ContinueGsw, Poke
  <2> QED BY <1>6, TypeFrame, <2>1, <2>2 DEF TypeOK, ContinueGsw, coreVars
<1>7. CASE ULater(u)
  <2>1. UnmanagedType'
    BY <1>7 DEF TypeOK, ULater, UGoto, UnmanagedType, UnmanagedPc
  <2>2. OpType'
    BY <1>7, ValTypes DEF TypeOK, ULater, OpType, ValueType, Thread, Busy
  <2> QED BY <1>7, TypeFrame, <2>1, <2>2 DEF TypeOK, ULater, coreVars
<1>8. CASE UReset(u)
  BY <1>8, TypeFrame DEF TypeOK, UReset, UGoto, coreVars, UnmanagedType,
      unmanagedVars, UnmanagedPc
<1>9. CASE UFinish(u)
  BY <1>9, TypeFrame DEF TypeOK, UFinish, Finish, UGoto, NONE, coreVars,
      UnmanagedType, unmanagedVars, OpType, opVars, UnmanagedPc
<1>10. CASE UNotYet(u)
  BY <1>10, TypeFrame DEF TypeOK, UNotYet, UGoto, coreVars, UnmanagedType,
      unmanagedVars, UnmanagedPc
<1>11. CASE URequest(u)
  <2>1. UnmanagedType'
    BY <1>11 DEF TypeOK, URequest, UGoto, UnmanagedType, UnmanagedPc
  <2> QED BY <1>11, TypeFrame, <2>1 DEF TypeOK, URequest, coreVars
<1>12. CASE URequestLow(u)
  <2>0. later[u] \in Int /\ WakeupIx(later[u]) \in Slot
    BY SlotType, SMTT(30) DEF TypeOK, OpType, Thread, NONE
  <2>1. (ulow \in [Slot -> [Words -> SUBSET Unmanaged]])'
    <3> DEFINE s == WakeupIx(later[u])  w == Word[u]
    <3>1. s \in Slot /\ w \in Words
      BY <2>0, ThreadAssumption DEF Words
    <3> HIDE DEF s, w
    <3>2. ulow' = [ulow EXCEPT ![s][w] = @ \cup {u}]
      BY <1>12 DEF URequestLow, s, w
    <3>3. ulow \in [Slot -> [Words -> SUBSET Unmanaged]]
      BY DEF TypeOK, WakeType
    <3> QED BY <3>1, <3>2, <3>3
  <2>2. WakeType'
    BY <1>12, <2>1 DEF TypeOK, WakeType, URequestLow
  <2>3. UnmanagedType'
    BY <1>12 DEF TypeOK, URequestLow, UGoto, UnmanagedType, UnmanagedPc
  <2> QED BY <1>12, TypeFrame, <2>1, <2>2, <2>3 DEF TypeOK, URequestLow,
      coreVars
<1>13. CASE URequestHigh(u)
  <2>1. (uhigh \in [Slot -> SUBSET Words])'
    BY <1>13, SlotType DEF TypeOK, WakeType, URequestHigh, OpType, Thread,
        Words
  <2>2. WakeType'
    BY <1>13, <2>1 DEF TypeOK, WakeType, URequestHigh
  <2>3. UnmanagedType'
    BY <1>13 DEF TypeOK, URequestHigh, UGoto, UnmanagedType, UnmanagedPc
  <2> QED BY <1>13, TypeFrame, <2>1, <2>2, <2>3 DEF TypeOK, URequestHigh,
      coreVars
<1>14. CASE URequestLen(u)
  <2>0. later[u] \in Int /\ WakeupIx(later[u]) \in Slot
    BY SlotType, SMTT(30) DEF TypeOK, OpType, Thread, NONE
  <2>1. (ulen \in [Slot -> Nat])'
    <3> DEFINE s == WakeupIx(later[u])
    <3>1. s \in Slot
      BY <2>0
    <3> HIDE DEF s
    <3>2. ulen' = [ulen EXCEPT ![s] = @ + 1] /\ ulen \in [Slot -> Nat]
      BY <1>14 DEF TypeOK, WakeType, URequestLen, s
    <3> QED BY <3>1, <3>2, SMTT(30)
  <2>2. WakeType'
    BY <1>14, <2>1 DEF TypeOK, WakeType, URequestLen
  <2>3. UnmanagedType'
    BY <1>14 DEF TypeOK, URequestLen, UGoto, UnmanagedType, UnmanagedPc
  <2> QED BY <1>14, TypeFrame, <2>1, <2>2, <2>3 DEF TypeOK, URequestLen,
      coreVars
<1>15. CASE URequestCheck(u)
  <2>0. later[u] \in Int /\ WakeupIx(later[u]) \in Slot
    BY SlotType, SMTT(30) DEF TypeOK, OpType, Thread, NONE
  <2>1. (ureq \in [Unmanaged -> [Slot -> Int]])'
    <3> DEFINE s == WakeupIx(later[u])  v == later[u]
    <3>1. s \in Slot /\ v \in Int
      BY <2>0
    <3> HIDE DEF s, v
    <3>2. ureq' = ureq \/ ureq' = [ureq EXCEPT ![u][s] = v]
      BY <1>15 DEF URequestCheck, s, v
    <3>3. ureq \in [Unmanaged -> [Slot -> Int]]
      BY DEF TypeOK, WakeType
    <3> QED BY <3>1, <3>2, <3>3, SMTT(30)
  <2>2. WakeType'
    BY <1>15, <2>1 DEF TypeOK, WakeType, URequestCheck
  <2>3. UnmanagedType'
    BY <1>15 DEF TypeOK, URequestCheck, UGoto, UnmanagedType, UnmanagedPc
  <2> QED BY <1>15, TypeFrame, <2>1, <2>2, <2>3 DEF TypeOK, URequestCheck,
      coreVars
<1> QED BY <1>1, <1>2, <1>3, <1>4, <1>5, <1>6, <1>7, <1>8, <1>9, <1>10, <1>11,
    <1>12, <1>13, <1>14, <1>15
   DEF UnmanagedStep, DelayStep, URequestStep

\* TypeOK holds initially.
LEMMA TypeInit == ASSUME Init PROVE TypeOK
<1> USE ZenonT(30)
<1>1. ValueType
  BY ValTypes DEF Init, ValueType
<1>2. LeaderType
  <2>1. lchk = [i \in Managed |-> 0]
    BY DEF Init
  <2>2. lchk \in [Managed -> 0 .. NoManaged]
    BY <2>1, ThreadAssumption, SMTT(30)
  <2> QED BY <2>2, ValTypes DEF Init, LeaderType
<1>3. UmType /\ FlagType
  <2>1. lflgs = [block |-> FALSE, noLeader |-> TRUE, waitingUM |-> FALSE, active |-> 0]
    BY DEF Init
  <2>2. FlagType
    BY <2>1, SMTT(30) DEF FlagType
  <2>3. UmType
    BY SMTT(30) DEF Init, UmType
  <2> QED BY <2>2, <2>3
<1>4. BlockType
  <2>1. blockCount = NoManaged
    BY DEF Init
  <2>2. blockCount \in Int
    BY <2>1, ThreadAssumption, SMTT(30)
  <2> QED BY <2>2 DEF Init, BlockType
<1>5. WakeType
  <2>1. InitialRequest \in [Slot -> Int]
    BY ValTypes, SMTT(30) DEF InitialRequest, Slot, WAKEUP_DATA_SIZE
  <2> QED BY <2>1 DEF Init, WakeType
<1>6. LocalType /\ UnmanagedType /\ OpType
  BY ValTypes DEF Init, LocalType, UnmanagedType, UnmanagedPc, OpType
<1>7. /\ active \in [Managed -> BOOLEAN] /\ sleeping \in [Managed -> BOOLEAN]
      /\ managedCount \in Nat /\ pc \in [Managed -> ManagedPc]
  BY DEF Init, ManagedPc, RegisterPc
<1> QED BY <1>1, <1>2, <1>3, <1>4, <1>5, <1>6, <1>7 DEF TypeOK
=============================================================================
