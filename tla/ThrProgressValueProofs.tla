----------------------- MODULE ThrProgressValueProofs -----------------------
(***************************************************************************)
(* Proofs about the values the leader checks: the values of the threads    *)
(* stay near the global one, and what the leader has checked stays true.   *)
(* Most actions of a managed thread are quiet: they change nothing the     *)
(* argument is about. Each conjunct of the invariant is shown to be kept   *)
(* by a quiet step and by each of the special actions.                     *)
(***************************************************************************)
EXTENDS ThrProgressTypeProofs

\* The places where the invariant says something about a thread
Watched == {"updateConfirm", "check"} \cup CheckedPc \cup PublishedPc \cup AsleepPc
DozePc == {"prepareFlags", "prepareGsw", "sleep", "finalize"}

\* What the actions that are not special have in common
Quiet(i) ==
    /\ UNCHANGED <<valueVars, lcur, lchk, lwait, umVars, opVars, upc, uix>>
    /\ \A j \in Managed \ {i} :
        pc'[j] = pc[j] /\ val'[j] = val[j] /\ ix'[j] = ix[j] /\ wum'[j] = wum[j]
    /\ \/ pc[i] \notin Watched /\ pc'[i] \notin Watched
       \/ pc[i] \in PublishedPc /\ pc'[i] \in PublishedPc /\ wum'[i] = wum[i]
       \/ pc[i] \in DozePc /\ pc'[i] \in DozePc

\* The actions that confirm a value or start to check the others' values, check
\* them, publish the next value or resign, sleep or wake up, and start or end an
\* operation
Confirming(i) == UpdateRead(i) \/ UpdateConfirm(i) \/ TakeOver(i) \/ ContinueCheck(i)
Checking(i) ==
    CheckManaged(i) \/ CheckUnmanaged(i) \/ FlipUmrefc(i) \/ RecheckUnmanaged(i)
Publishing(i) ==
    Advance(i) \/ Publish(i) \/ Progressed(i) \/ Relinquish(i) \/ Relinquished(i)
Dozing(i) == PrepareStore(i) \/ FinalizeRead(i) \/ FinalizeSet(i) \/ FinalizeCheck(i)
Operating(i) == Later(i) \/ FinishManaged(i) \/ AuxFinish(i)
Special(i) ==
    Confirming(i) \/ Checking(i) \/ Publishing(i) \/ Dozing(i) \/ Operating(i)

-----------------------------------------------------------------------------
(* Quiet steps and steps of unmanaged threads                              *)

\* Every step of a managed thread is one of the special actions or is quiet.
LEMMA QuietOrSpecial ==
    ASSUME TypeOK, NEW i \in Managed, ManagedStep(i) PROVE Quiet(i) \/ Special(i)
<1> USE ZenonT(30)
<1> /\ pc \in [Managed -> ManagedPc] /\ val \in [Managed -> Val]
    /\ ix \in [Managed -> Nat] /\ wum \in [Managed -> BOOLEAN]
    /\ uret \in [Managed -> {"run", "prepare", "idle"}]
    /\ bret \in [Managed -> {"run", "prepare", "idle", "relinquished", "update", "block"}]
  BY DEF TypeOK, LocalType, LeaderType
<1> USE DEF Quiet, Watched, DozePc, CheckedPc, PublishedPc,
            HandlePc, AsleepPc, coreVars, restVars, leaderVars, unmanagedVars, localVars, Goto
<1>1. CASE RegisterStep(i)
  <2>1. CASE Register(i)
    BY <2>1 DEF Register
  <2>2. CASE RegisterCount(i)
    BY <2>2 DEF RegisterCount
  <2>3. CASE RegisterWait(i)
    BY <2>3 DEF RegisterWait
  <2>4. CASE RegisterRead(i)
    BY <2>4 DEF RegisterRead
  <2> HIDE DEF Quiet
  <2> QED BY <1>1, <2>1, <2>2, <2>3, <2>4
      DEF RegisterStep
<1>2. CASE UpdateStep(i)
  <2>1. CASE UpdateFlags(i)
    BY <2>1, SMTT(30) DEF UpdateFlags
  <2>2. CASE UpdateTake(i)
    BY <2>2 DEF UpdateTake
  <2> HIDE DEF Quiet
  <2> QED BY <1>2, <2>1, <2>2
      DEF UpdateStep, Special, Confirming
<1>3. CASE LeaderStep(i)
  <2>1. CASE NotLeader(i)
    BY <2>1 DEF NotLeader, CallBlockThread
  <2>2. CASE StayLeader(i)
    BY <2>2 DEF StayLeader, CallBlockThread
  <2>3. CASE RelinquishGsw(i)
    BY <2>3 DEF RelinquishGsw, GotSchedWakeups
  <2> HIDE DEF Quiet
  <2> QED BY <1>3, <2>1, <2>2, <2>3
      DEF LeaderStep, Special, Confirming, Checking, Publishing
<1>4. CASE HandleStep(i)
  <2>1. CASE HandleManaged(i)
    BY <2>1 DEF HandleManaged
  <2>2. CASE WakeManaged(i)
    BY <2>2 DEF WakeManaged
  <2>3. CASE ClearManaged(i)
    BY <2>3 DEF ClearManaged
  <2>4. CASE HandleUnmanaged(i)
    BY <2>4 DEF HandleUnmanaged
  <2>5. CASE ReadHigh(i)
    BY <2>5 DEF ReadHigh
  <2>6. CASE WakeLow(i)
    BY <2>6 DEF WakeLow
  <2>7. CASE ClearLow(i)
    BY <2>7 DEF ClearLow
  <2>8. CASE ClearHigh(i)
    BY <2>8 DEF ClearHigh
  <2>9. CASE ClearUnmanaged(i)
    BY <2>9 DEF ClearUnmanaged
  <2> HIDE DEF Quiet
  <2> QED BY <1>4, <2>1, <2>2, <2>3, <2>4, <2>5, <2>6, <2>7, <2>8, <2>9
      DEF HandleStep
<1>5. CASE SleepStep(i)
  <2>1. CASE PrepareWait(i)
    BY <2>1 DEF PrepareWait, BlockCountDec
  <2>2. CASE PrepareEvent(i)
    BY <2>2 DEF PrepareEvent
  <2>3. CASE PrepareFlags(i)
    BY <2>3 DEF PrepareFlags
  <2>4. CASE PrepareGsw(i)
    BY <2>4 DEF PrepareGsw, GotSchedWakeups
  <2>5. CASE Wake(i)
    BY <2>5 DEF Wake
  <2>6. CASE FinalizeInc(i)
    BY <2>6 DEF FinalizeInc, CallBlockThread
  <2> HIDE DEF Quiet
  <2> QED BY <1>5, <2>1, <2>2, <2>3, <2>4, <2>5, <2>6
      DEF SleepStep, Special, Dozing
<1>6. CASE BlockThreadStep(i)
  <2>1. CASE BlockThread(i)
    BY <2>1 DEF BlockThread, BlockCountDec
  <2>2. CASE BlockEvent(i)
    BY <2>2 DEF BlockEvent
  <2>3. CASE BlockPrepare(i)
    BY <2>3 DEF BlockPrepare
  <2>4. CASE BlockFlags(i)
    BY <2>4 DEF BlockFlags
  <2>5. CASE BlockWait(i)
    BY <2>5 DEF BlockWait
  <2>6. CASE BlockInc(i)
    BY <2>6 DEF BlockInc
  <2> HIDE DEF Quiet
  <2> QED BY <1>6, <2>1, <2>2, <2>3, <2>4, <2>5, <2>6
      DEF BlockThreadStep
<1>7. CASE BlockStep(i)
  <2>1. CASE BlockRequest(i)
    BY <2>1 DEF BlockRequest, CallBlockThread
  <2>2. CASE BlockSetEvent(i)
    BY <2>2 DEF BlockSetEvent
  <2>3. CASE BlockDec(i)
    BY <2>3 DEF BlockDec
  <2>4. CASE BlockBlocking(i)
    BY <2>4 DEF BlockBlocking
  <2>5. CASE BlockTse(i)
    BY <2>5 DEF BlockTse
  <2>6. CASE BlockRead(i)
    BY <2>6 DEF BlockRead
  <2>7. CASE Unblock(i)
    BY <2>7 DEF Unblock
  <2>8. CASE UnblockEvent(i)
    BY <2>8 DEF UnblockEvent
  <2>9. CASE UnblockNotBlocking(i)
    BY <2>9 DEF UnblockNotBlocking
  <2>10. CASE UnblockFlag(i)
    BY <2>10 DEF UnblockFlag
  <2>11. CASE UnblockWake(i)
    BY <2>11 DEF UnblockWake
  <2> HIDE DEF Quiet
  <2> QED BY <1>7, <2>1, <2>2, <2>3, <2>4, <2>5, <2>6, <2>7, <2>8, <2>9,
      <2>10, <2>11
     DEF BlockStep
<1>8. CASE RequestStep(i)
  <2>1. CASE RequestManaged(i)
    BY <2>1 DEF RequestManaged
  <2>2. CASE RequestLen(i)
    BY <2>2 DEF RequestLen
  <2>3. CASE RequestId(i)
    BY <2>3 DEF RequestId
  <2> HIDE DEF Quiet
  <2> QED BY <1>8, <2>1, <2>2, <2>3
      DEF RequestStep
<1>9. CASE AuxStep(i)
  <2>1. CASE AuxActivate(i)
    BY <2>1 DEF AuxActivate, Activate
  <2>2. CASE AuxSleep(i)
    BY <2>2 DEF AuxSleep
  <2>3. CASE IdleRun(i)
    BY <2>3 DEF IdleRun, Activate
  <2> HIDE DEF Quiet
  <2> QED BY <1>9, <2>1, <2>2, <2>3
      DEF AuxStep, Special, Operating
<1>10. CASE \/ CallUpdate(i) \/ CallBlock(i) \/ Later(i) \/ CallWakeup(i)
           \/ FinishManaged(i) \/ PrepareSleep(i) \/ OtherWakeup(i)
  <2>1. CASE CallUpdate(i)
    BY <2>1 DEF CallUpdate
  <2>2. CASE CallBlock(i)
    BY <2>2 DEF CallBlock
  <2>3. CASE CallWakeup(i)
    BY <2>3 DEF CallWakeup
  <2>4. CASE PrepareSleep(i)
    BY <2>4 DEF PrepareSleep
  <2>5. CASE OtherWakeup(i)
    BY <2>5 DEF OtherWakeup
  <2> HIDE DEF Quiet
  <2> QED BY <1>10, <2>1, <2>2, <2>3, <2>4, <2>5
      DEF Special, Operating
<1> HIDE DEF Quiet
<1> QED BY <1>1, <1>2, <1>3, <1>4, <1>5, <1>6, <1>7, <1>8, <1>9, <1>10 DEF ManagedStep, InternalStep

-----------------------------------------------------------------------------
(* The values of the threads                                               *)

\* Below the bound on the counter an increment does not wrap.
LEMMA IncNoWrap ==
    ASSUME NoWrap
    PROVE  /\ MaxVal \in Nat /\ VAL_WAITING \in Nat /\ MaxVal + 3 < VAL_WAITING
           /\ \A v \in 0 .. MaxVal + 1 : Inc(v) = v + 1
  BY ValueAssumption DEF NoWrap, Inc, VAL_WAITING

\* A quiet step keeps ValueInv.
LEMMA ValueQuiet ==
  ASSUME ValueInv, NEW i \in Managed, Quiet(i) PROVE ValueInv'
<1> USE ZenonT(30)
<1>1. ASSUME NEW j \in Managed PROVE ValueOK(j)'
  <2>1. CASE j # i
    BY <2>1 DEF ValueInv, ValueOK, Quiet, Asleep, Leads, valueVars
  <2>2. CASE j = i
    BY <2>2 DEF ValueInv, ValueOK, Quiet, Asleep, Leads, valueVars,
                Watched, DozePc, CheckedPc, PublishedPc, HandlePc, AsleepPc
  <2> QED BY <2>1, <2>2
<1> QED BY <1>1 DEF ValueInv, Quiet, valueVars

\* ValueInv is kept: a thread confirms the current value or sleeps before
\* leader_update publishes the next one.
LEMMA ValueManaged ==
    ASSUME TypeOK, ControlInv, LeaderUnique, ValueInv, CheckInv, NoWrap,
           NEW i \in Managed, ManagedStep(i)
    PROVE  ValueInv'
<1>q. Quiet(i) => ValueInv'
  BY ValueQuiet
<1> /\ current \in Nat /\ thr \in [Managed -> Nat] /\ confirmed \in [Managed -> Nat]
    /\ pc \in [Managed -> ManagedPc] /\ lcur \in [Managed -> Nat]
    /\ val \in [Managed -> Nat]
    /\ uret \in [Managed -> {"run", "prepare", "idle"}]
  BY ValTypes, Zenon DEF TypeOK, ValueType, LeaderType, LocalType
<1> USE IncNoWrap, ZenonT(30) DEF Goto, ValueInv, ValueOK, Asleep, Leads,
    AsleepPc, CheckedPc
<1> USE DEF coreVars, valueVars, leaderVars
<1>1. CASE Confirming(i)
  <2>1. CASE UpdateRead(i)
    BY <2>1, SMTT(30) DEF UpdateRead
  <2>2. CASE UpdateConfirm(i)
    <3>1. ASSUME NEW j \in Managed, j # i PROVE ValueOK(j)'
      BY <2>2, <3>1, SMTT(30) DEF UpdateConfirm
    <3>2. ~Leads(i) /\ ~Leads(i)'
      BY <2>2 DEF UpdateConfirm, ControlInv, TakePc
    <3>3. ValueOK(i)'
      BY <2>2, <3>2, SMTT(30) DEF UpdateConfirm
    <3>4. current' <= MaxVal
      BY <2>2 DEF UpdateConfirm
    <3> HIDE DEF ValueOK, Leads, Asleep
    <3> QED BY <3>1, <3>3, <3>4
  <2>3. CASE TakeOver(i)
    BY <2>3, SMTT(30) DEF TakeOver, StartCheck
  <2>4. CASE ContinueCheck(i)
    BY <2>4, SMTT(30) DEF ContinueCheck, StartCheck
  <2> HIDE DEF ValueInv
  <2> QED BY <1>1, <2>1, <2>2, <2>3, <2>4 DEF Confirming
<1>2. CASE Checking(i)
  <2>1. CASE CheckManaged(i)
    BY <2>1, SMTT(30) DEF CheckManaged
  <2>2. CASE CheckUnmanaged(i)
    BY <2>2 DEF CheckUnmanaged
  <2>3. CASE FlipUmrefc(i)
    BY <2>3 DEF FlipUmrefc, restVars, localVars
  <2>4. CASE RecheckUnmanaged(i)
    BY <2>4 DEF RecheckUnmanaged, restVars, localVars
  <2> HIDE DEF ValueInv
  <2> QED BY <1>2, <2>1, <2>2, <2>3, <2>4 DEF Checking
<1>3. CASE Publishing(i)
  <2>1. CASE Advance(i)
    BY <2>1, SMTT(30) DEF Advance, restVars, localVars, ControlInv, LeadPc
  <2>2. CASE Publish(i)
    <3>1. Leads(i) /\ lcur[i] = current /\ current < MaxVal /\ thr[i] = current + 2
      BY <2>2 DEF Publish, ControlInv, LeadPc
    <3>2. current' = current + 1 /\ confirmed'[i] = current + 2
      BY <2>2, <3>1, SMTT(30) DEF Publish
    <3>3. ASSUME NEW j \in Managed, j # i PROVE ValueOK(j)'
      <4>1. ~Leads(j)
        BY <3>1, <3>3 DEF ControlInv, LeaderUnique
      <4>2. Ready(j) /\ pc[j] \notin CheckedPc \cup {"check"}
        BY <2>2, <3>1, <3>3, <4>1, ThreadAssumption, SMTT(30)
        DEF Publish, CheckInv, Prefix, ControlInv, LeadPc, Managed
      <4> QED BY <2>2, <3>2, <3>3, <4>1, <4>2, SMTT(30) DEF Publish, Ready, localVars
    <3>4. ValueOK(i)'
      BY <2>2, <3>1, <3>2, SMTT(30) DEF Publish
    <3>5. current' <= MaxVal
      BY <3>1, <3>2, SMTT(30)
    <3> HIDE DEF ValueOK, Leads, Asleep
    <3> QED BY <3>3, <3>4, <3>5, SMTT(40)
  <2>3. CASE Progressed(i)
    BY <2>3 DEF Progressed, restVars, localVars
  <2>4. CASE Relinquish(i)
    BY <2>4, SMTT(30) DEF Relinquish, CallBlockThread
  <2>5. CASE Relinquished(i)
    BY <2>5, SMTT(30) DEF Relinquished, restVars, localVars
  <2> HIDE DEF ValueInv
  <2> QED BY <1>3, <2>1, <2>2, <2>3, <2>4, <2>5 DEF Publishing
<1>4. CASE Dozing(i)
  <2>1. CASE PrepareStore(i)
    <3>1. ~Leads(i)
      BY <2>1 DEF PrepareStore, ControlInv, InactivePc, LeadPc, PublishedPc, HandlePc
    <3> QED BY <2>1, <3>1 DEF PrepareStore, localVars
  <2>2. CASE FinalizeRead(i)
    BY <2>2, SMTT(30) DEF FinalizeRead
  <2>3. CASE FinalizeSet(i)
    <3>1. ~Leads(i)
      BY <2>3 DEF FinalizeSet, ControlInv, InactivePc, LeadPc, PublishedPc, HandlePc
    <3> QED BY <2>3, <3>1, SMTT(30) DEF FinalizeSet, restVars, localVars
  <2>4. CASE FinalizeCheck(i)
    BY <2>4, SMTT(30) DEF FinalizeCheck
  <2> HIDE DEF ValueInv
  <2> QED BY <1>4, <2>1, <2>2, <2>3, <2>4 DEF Dozing
<1>5. CASE Operating(i)
  <2>1. CASE Later(i)
    BY <2>1 DEF Later, localVars
  <2>2. CASE FinishManaged(i)
    BY <2>2 DEF FinishManaged, localVars
  <2>3. CASE AuxFinish(i)
    BY <2>3 DEF AuxFinish, localVars
  <2> HIDE DEF ValueInv
  <2> QED BY <1>5, <2>1, <2>2, <2>3 DEF Operating
<1> HIDE DEF ValueInv
<1> QED BY <1>q, QuietOrSpecial, <1>1, <1>2, <1>3, <1>4, <1>5 DEF Special

-----------------------------------------------------------------------------
(* What the leader has checked                                             *)

\* A quiet step keeps CheckInv.
LEMMA CheckQuiet ==
  ASSUME TypeOK, ControlInv, CheckInv, NEW i \in Managed, Quiet(i) PROVE CheckInv'
<1> USE ZenonT(30)
<1>1. ASSUME NEW j \in Managed, Ready(j) PROVE Ready(j)'
  BY <1>1 DEF Quiet, Ready, Asleep, valueVars, Watched, DozePc, CheckedPc, PublishedPc,
      HandlePc, AsleepPc
<1>2. ASSUME NEW j \in Managed, NEW n, Prefix(j, n) PROVE Prefix(j, n)'
  BY <1>1, <1>2 DEF Prefix
<1> QED BY <1>2 DEF CheckInv, Quiet, Leads, Watched, CheckedPc, PublishedPc, HandlePc,
    DozePc, AsleepPc

\* Threads found ready by leader_update's loop stay ready.
LEMMA PrefixKept ==
    ASSUME NEW i \in Managed, \A j \in Managed \ {i} : Ready(j) => Ready(j)'
    PROVE  \A n : Prefix(i, n) => Prefix(i, n)'
  BY DEF Prefix

\* A new loop has checked nothing.
LEMMA PrefixZero == \A i : Prefix(i, 0)'
  BY ThreadAssumption DEF Prefix, Managed

\* CheckInv is kept: a confirmed value changes only after the next is published.
LEMMA CheckManagedStep ==
    ASSUME TypeOK, ControlInv, LeaderUnique, ValueInv, CheckInv, NoWrap,
           NEW i \in Managed, ManagedStep(i)
    PROVE  CheckInv'
<1> /\ current \in Nat /\ thr \in [Managed -> Nat] /\ confirmed \in [Managed -> Nat]
    /\ pc \in [Managed -> ManagedPc] /\ lcur \in [Managed -> Nat]
    /\ lchk \in [Managed -> 0 .. NoManaged] /\ val \in [Managed -> Nat] /\ ix \in [Managed -> Nat]
    /\ uret \in [Managed -> {"run", "prepare", "idle"}]
  BY ValTypes, Zenon DEF TypeOK, ValueType, LeaderType, LocalType
<1> USE IncNoWrap, ZenonT(30) DEF Goto, Leads, CheckInv, CheckedPc, PublishedPc, HandlePc
<1> USE DEF coreVars, valueVars, leaderVars
<1>q. Quiet(i) => CheckInv'
  BY CheckQuiet
<1>1. CASE Confirming(i)
  <2>1. CASE UpdateRead(i)
    <3>1. \A j \in Managed : Ready(j) => Ready(j)'
      BY <2>1 DEF UpdateRead, Ready, Asleep, AsleepPc
    <3> QED BY <2>1, <3>1, PrefixKept, SMTT(30) DEF UpdateRead
  <2>2. CASE UpdateConfirm(i)
    <3>1. \A j \in Managed : Ready(j) => Ready(j)'
      BY <2>2, SMTT(30) DEF UpdateConfirm, ValueInv, ValueOK, Ready, Asleep, AsleepPc
    <3> QED BY <2>2, <3>1, PrefixKept DEF UpdateConfirm
  <2>3. CASE TakeOver(i)
    <3>1. \A j \in Managed : Leads(j)' => j = i
      BY <2>3 DEF TakeOver, ControlInv, LeaderUnique
    <3> QED BY <2>3, <3>1, PrefixZero DEF TakeOver, StartCheck
  <2>4. CASE ContinueCheck(i)
    <3>1. \A j \in Managed : Ready(j) => Ready(j)'
      BY <2>4 DEF ContinueCheck, StartCheck, Ready, Asleep, AsleepPc
    <3> QED BY <2>4, <3>1, PrefixKept DEF ContinueCheck, StartCheck
  <2> HIDE DEF CheckInv
  <2> QED BY <1>1, <2>1, <2>2, <2>3, <2>4 DEF Confirming
<1>2. CASE Checking(i)
  <2>1. CASE CheckManaged(i)
    <3>1. \A j \in Managed : Ready(j) => Ready(j)'
      BY <2>1 DEF CheckManaged, Ready, Asleep, AsleepPc
    <3>2. Leads(i) /\ lcur[i] = current /\ current < MaxVal /\ Prefix(i, ix[i])
      BY <2>1 DEF CheckManaged, ControlInv, LeadPc, ValueInv, ValueOK
    <3>3. CASE ix[i] # i /\ ~Confirms(thr[ix[i]], Inc(lcur[i]))
      BY <2>1, <3>1, <3>2, <3>3, PrefixKept, SMTT(30) DEF CheckManaged
    <3>4. CASE ix[i] = i \/ Confirms(thr[ix[i]], Inc(lcur[i]))
      <4>0. ix[i] \in Nat /\ ix[i] < NoManaged
        BY <2>1 DEF CheckManaged
      <4>1. ix[i] \in Nat /\ ix[i] \in Managed
        BY <4>0, ThreadAssumption, SMTT(30) DEF Managed
      <4>2. ix[i] # i => thr[ix[i]] = current + 1 \/ thr[ix[i]] = VAL_WAITING
        BY <3>2, <3>4, SMTT(30) DEF Confirms
      <4>3. thr[ix[i]] = VAL_WAITING => Asleep(ix[i])
        BY <4>1, SMTT(30) DEF ValueInv, ValueOK
      <4>4. Prefix(i, ix[i] + 1)
        <5> SUFFICES ASSUME NEW j \in Managed, j < ix[i] + 1, j # i PROVE Ready(j)
          BY DEF Prefix
        <5>1. j < ix[i] \/ j = ix[i]
          BY <4>1, SMTT(30) DEF Managed
        <5> QED BY <3>2, <4>2, <4>3, <5>1 DEF Prefix, Ready
      <4> QED BY <2>1, <3>1, <3>4, <4>4, PrefixKept DEF CheckManaged
    <3> QED BY <3>3, <3>4
  <2>2. CASE CheckUnmanaged(i)
    <3>1. \A j \in Managed : Ready(j) => Ready(j)'
      BY <2>2 DEF CheckUnmanaged, Ready, Asleep, AsleepPc
    <3> QED BY <2>2, <3>1, PrefixKept DEF CheckUnmanaged
  <2>3. CASE FlipUmrefc(i)
    <3>1. \A j \in Managed : Ready(j) => Ready(j)'
      BY <2>3 DEF FlipUmrefc, Ready, Asleep, AsleepPc
    <3> QED BY <2>3, <3>1, PrefixKept DEF FlipUmrefc, restVars, localVars
  <2>4. CASE RecheckUnmanaged(i)
    <3>1. \A j \in Managed : Ready(j) => Ready(j)'
      BY <2>4 DEF RecheckUnmanaged, Ready, Asleep, AsleepPc
    <3> QED BY <2>4, <3>1, PrefixKept DEF RecheckUnmanaged, restVars, localVars
  <2> HIDE DEF CheckInv
  <2> QED BY <1>2, <2>1, <2>2, <2>3, <2>4 DEF Checking
<1>3. CASE Publishing(i)
  <2>1. CASE Advance(i)
    <3>1. \A j \in Managed \ {i} : Ready(j) => Ready(j)'
      BY <2>1 DEF Advance, Ready, Asleep, AsleepPc
    <3>2. \A j \in Managed : Leads(j)' => j = i
      BY <2>1 DEF Advance, ControlInv, LeadPc, LeaderUnique
    <3> QED BY <2>1, <3>1, <3>2, PrefixKept DEF Advance
  <2>2. CASE Publish(i)
    <3>1. \A j \in Managed : Leads(j)' => j = i
      BY <2>2 DEF Publish, ControlInv, LeadPc, LeaderUnique
    <3> QED BY <2>2, <3>1 DEF Publish
  <2>3. CASE Progressed(i)
    <3>1. \A j \in Managed : Ready(j) => Ready(j)'
      BY <2>3 DEF Progressed, Ready, Asleep, AsleepPc
    <3> QED BY <2>3, <3>1, PrefixKept, PrefixZero DEF Progressed, restVars, localVars
  <2>4. CASE Relinquish(i)
    <3>1. \A j \in Managed : ~Leads(j)'
      BY <2>4 DEF Relinquish, ControlInv, LeadPc, LeaderUnique
    <3> QED BY <3>1
  <2>5. CASE Relinquished(i)
    <3>1. \A j \in Managed : Ready(j) => Ready(j)'
      BY <2>5 DEF Relinquished, Ready, Asleep, AsleepPc
    <3> QED BY <2>5, <3>1, PrefixKept DEF Relinquished, restVars, localVars
  <2> HIDE DEF CheckInv
  <2> QED BY <1>3, <2>1, <2>2, <2>3, <2>4, <2>5 DEF Publishing
<1>4. CASE Dozing(i)
  <2>1. CASE PrepareStore(i)
    <3>1. \A j \in Managed : Ready(j) => Ready(j)'
      BY <2>1 DEF PrepareStore, Ready, Asleep, AsleepPc
    <3> QED BY <2>1, <3>1, PrefixKept DEF PrepareStore, localVars
  <2>2. CASE FinalizeRead(i)
    <3>1. \A j \in Managed : Ready(j) => Ready(j)'
      BY <2>2 DEF FinalizeRead, Ready, Asleep, AsleepPc
    <3> QED BY <2>2, <3>1, PrefixKept DEF FinalizeRead
  <2>3. CASE FinalizeSet(i)
    <3>1. \A j \in Managed : Ready(j) => Ready(j)'
      BY <2>3 DEF FinalizeSet, Ready, Asleep, AsleepPc
    <3> QED BY <2>3, <3>1, PrefixKept DEF FinalizeSet, restVars, localVars
  <2>4. CASE FinalizeCheck(i)
    <3>1. \A j \in Managed : Ready(j) => Ready(j)'
      <4>1. Ready(i)'
        <5>1. thr[i] = val[i] + 1
          BY <2>4 DEF FinalizeCheck, ValueInv, ValueOK
        <5> QED BY <2>4, <5>1 DEF FinalizeCheck, Ready, Asleep, AsleepPc
      <4>2. \A j \in Managed \ {i} : Ready(j)' <=> Ready(j)
        BY <2>4 DEF FinalizeCheck, Ready, Asleep
      <4> QED BY <4>1, <4>2
    <3> QED BY <2>4, <3>1, PrefixKept DEF FinalizeCheck
  <2> HIDE DEF CheckInv
  <2> QED BY <1>4, <2>1, <2>2, <2>3, <2>4 DEF Dozing
<1>5. CASE Operating(i)
  <2>1. CASE Later(i)
    <3>1. \A j \in Managed : Ready(j) => Ready(j)'
      BY <2>1 DEF Later, Ready, Asleep, AsleepPc
    <3> QED BY <2>1, <3>1, PrefixKept DEF Later, localVars
  <2>2. CASE FinishManaged(i)
    <3>1. \A j \in Managed : Ready(j) => Ready(j)'
      BY <2>2 DEF FinishManaged, Ready, Asleep, AsleepPc
    <3> QED BY <2>2, <3>1, PrefixKept DEF FinishManaged, localVars
  <2>3. CASE AuxFinish(i)
    <3>1. \A j \in Managed : Ready(j) => Ready(j)'
      BY <2>3 DEF AuxFinish, Ready, Asleep, AsleepPc
    <3> QED BY <2>3, <3>1, PrefixKept DEF AuxFinish, localVars
  <2> HIDE DEF CheckInv
  <2> QED BY <1>5, <2>1, <2>2, <2>3 DEF Operating
<1> HIDE DEF CheckInv
<1> QED BY <1>q, QuietOrSpecial, <1>1, <1>2, <1>3, <1>4, <1>5 DEF Special
=============================================================================
