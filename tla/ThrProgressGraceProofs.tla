----------------------- MODULE ThrProgressGraceProofs -----------------------
(***************************************************************************)
(* Proof that thread progress is a grace period: the value that            *)
(* erts_thr_progress_later returns is reached only after every thread that *)
(* was running has been quiescent, and that it implements GraceService.    *)
(* The counter is assumed not to wrap.                                     *)
(***************************************************************************)
EXTENDS ThrProgressRefine, ThrProgressPendProofs, FiniteSetTheorems

\* When a reference count is 0 nobody delays progress with it.
LEMMA CountFacts ==
    ASSUME CountInv, TypeOK
    PROVE  ZeroCounts
<1> USE SMTT(20), ZenonT(20)
<1>1. \A k \in {0, 1} : IsFiniteSet(Counted(k))
  BY ThreadAssumption, FS_Subset DEF Counted
<1>2. \A k \in {0, 1} : umrefc[k] = 0 => Counted(k) = {}
  BY <1>1, FS_EmptySet DEF CountInv
<1> QED BY <1>2 DEF ZeroCounts, Counted, CountedPc, Delaying

\* A managed thread changes neither the reference counts nor what they count.
LEMMA CountManaged ==
    ASSUME TypeOK, CountInv, NEW i \in Managed, ManagedStep(i) PROVE CountInv'
<1> USE SMTT(20), ZenonT(20)
<1>1. UNCHANGED <<umrefc, upc, uix>>
  <2> USE DEF coreVars, umVars, restVars, unmanagedVars
  <2>1. CASE Quiet(i)
    BY <2>1, ZenonT(30) DEF Quiet
  <2>2. CASE Confirming(i)
    BY <2>2, ZenonT(30) DEF Confirming, UpdateRead, UpdateConfirm, TakeOver, ContinueCheck
  <2>3. CASE Checking(i)
    BY <2>3, ZenonT(30) DEF Checking, CheckManaged, CheckUnmanaged, FlipUmrefc, RecheckUnmanaged
  <2>4. CASE Publishing(i)
    BY <2>4, ZenonT(30) DEF Publishing, Advance, Publish, Progressed, Relinquish, Relinquished
  <2>5. CASE Dozing(i)
    BY <2>5, ZenonT(30) DEF Dozing, PrepareStore, FinalizeRead, FinalizeSet, FinalizeCheck
  <2>6. CASE Operating(i)
    BY <2>6, ZenonT(30) DEF Operating, Later, FinishManaged, AuxFinish
  <2> QED BY <2>1, <2>2, <2>3, <2>4, <2>5, <2>6, QuietOrSpecial DEF Special
<1>2. \A k \in {0, 1} : Counted(k)' = Counted(k)
  BY <1>1 DEF Counted
<1> QED BY <1>1, <1>2 DEF CountInv

\* unmanaged_delay and unmanaged_continue keep the reference counts right.
LEMMA CountUnmanaged ==
    ASSUME TypeOK, CountInv, NEW u \in Unmanaged, UnmanagedStep(u) PROVE CountInv'
<1> USE SMTT(6), ZenonT(20)
<1>0. \A k \in {0, 1} : IsFiniteSet(Counted(k))
  BY ThreadAssumption, FS_Subset DEF Counted
<1>f. \A w \in Unmanaged \ {u} : upc'[w] = upc[w] /\ uix'[w] = uix[w]
  BY UnmanagedFrame DEF UFrame
<1>c. ASSUME umrefc' = umrefc, upc[u] \notin CountedPc, upc'[u] \notin CountedPc
      PROVE  CountInv'
  <2>1. \A k \in {0, 1} : Counted(k)' = Counted(k)
    BY <1>c, <1>f DEF Counted, CountedPc
  <2> QED BY <1>c, <2>1 DEF CountInv
<1> /\ upc \in [Unmanaged -> UnmanagedPc] /\ uix \in [Unmanaged -> {0, 1}]
    /\ umrefc \in [{0, 1} -> Int]
  BY DEF TypeOK, UnmanagedType, UmType
<1> USE DEF CountedPc, UGoto, coreVars, umVars
<1>1. CASE DelayRead(u)
  BY <1>c, <1>1 DEF DelayRead
<1>2. CASE DelayInc(u)
  <2>1. uix[u] \in {0, 1} /\ u \notin Counted(uix[u])
    BY <1>2 DEF DelayInc, Counted
  <2>2. Counted(uix[u])' = Counted(uix[u]) \cup {u}
    BY <1>2, <2>1 DEF DelayInc, Counted, UGoto
  <2>3. \A k \in {0, 1} : k # uix[u] => Counted(k)' = Counted(k)
    BY <1>2, <2>1 DEF DelayInc, Counted, UGoto
  <2>4. Cardinality(Counted(uix[u]) \cup {u}) = Cardinality(Counted(uix[u])) + 1
    BY <1>0, <2>1, FS_AddElement, ZenonT(20)
  <2> QED BY <1>2, <2>1, <2>2, <2>3, <2>4, ZenonT(30) DEF DelayInc, CountInv
<1>3. CASE DelayCheck(u)
  BY <1>3 DEF DelayCheck, CountInv, Counted
<1>4. CASE Continue(u)
  <2>1. PICK k \in {0, 1} : k = uix[u]
    OBVIOUS
  <2>2. u \in Counted(k) /\ Counted(k)' = Counted(k) \ {u}
    BY <1>4, <2>1 DEF Continue, Counted, UGoto
  <2>3. \A l \in {0, 1} : l # k => Counted(l)' = Counted(l)
    BY <1>4, <2>1 DEF Continue, Counted, UGoto
  <2>4. Cardinality(Counted(k) \ {u}) = Cardinality(Counted(k)) - 1
    BY <1>0, <2>2, FS_RemoveElement, ZenonT(20)
  <2> QED BY <1>4, <2>1, <2>2, <2>3, <2>4, ZenonT(30) DEF Continue, CountInv
<1>5. CASE ContinueFlags(u)
  BY <1>c, <1>5 DEF ContinueFlags, Continued
<1>6. CASE ContinueGsw(u)
  BY <1>c, <1>6 DEF ContinueGsw, Continued
<1>7. CASE ULater(u)
  BY <1>c, <1>7 DEF ULater
<1>8. CASE UReset(u)
  BY <1>c, <1>8 DEF UReset
<1>9. CASE UFinish(u)
  BY <1>c, <1>9 DEF UFinish
<1>10. CASE UNotYet(u)
  BY <1>c, <1>10 DEF UNotYet
<1>11. CASE URequest(u)
  BY <1>c, <1>11 DEF URequest
<1>12. CASE URequestLow(u)
  BY <1>c, <1>12 DEF URequestLow
<1>13. CASE URequestHigh(u)
  BY <1>c, <1>13 DEF URequestHigh
<1>14. CASE URequestLen(u)
  BY <1>c, <1>14 DEF URequestLen
<1>15. CASE URequestCheck(u)
  BY <1>c, <1>15 DEF URequestCheck
<1> QED BY <1>1, <1>2, <1>3, <1>4, <1>5, <1>6, <1>7, <1>8, <1>9, <1>10, <1>11, <1>12,
    <1>13, <1>14, <1>15
    DEF UnmanagedStep, DelayStep, URequestStep

\* The invariant holds initially.
LEMMA GraceInit == ASSUME NoWrap, Init PROVE GraceInv
<1> USE SMTT(20), ZenonT(20)
<1> USE IncNoWrap, ThreadAssumption DEF Init, Leads, Asleep, AsleepPc, NONE
<1>1. ValueInv
  BY SMTT(30) DEF ValueInv, ValueOK, CheckedPc
<1>2. CheckInv
  BY SMTT(30) DEF CheckInv
<1>3. CountInv
  <2>1. \A k \in {0, 1} : Counted(k) = {}
    BY SMTT(30) DEF Counted, CountedPc
  <2> QED BY <2>1, FS_EmptySet, ZenonT(30) DEF CountInv
<1>4. DelayInv
  BY ZenonT(30) DEF DelayInv, WaitingIx, Delaying
<1>5. PendInv
  BY DEF PendInv, Waits, Thread
<1> QED BY <1>1, <1>2, <1>3, <1>4, <1>5, SMTT(30) DEF GraceInv

\* The invariant is inductive.
LEMMA GraceNext ==
    ASSUME NoWrap, TypeOK, ControlInv, LeaderUnique, GraceInv, [Next]_vars PROVE GraceInv'
<1> USE SMTT(20), ZenonT(20)
<1> USE DEF GraceInv
<1>1. ASSUME NEW i \in Managed, ManagedStep(i) PROVE GraceInv'
  BY <1>1, ValueManaged, CheckManagedStep, CountManaged, CountFacts, DelayManaged,
     PendManaged
<1>2. ASSUME NEW u \in Unmanaged, UnmanagedStep(u) PROVE GraceInv'
  <2>1. UFrame(u)
    BY <1>2, UnmanagedFrame, SMTT(30)
  <2>2. ValueInv'
    BY <2>1, ZenonT(30) DEF UFrame, ValueInv, ValueOK, Asleep, Leads, valueVars,
        leaderVars, localVars
  <2>3. CheckInv'
    BY <2>1, ZenonT(30) DEF UFrame, CheckInv, Prefix, Ready, Asleep, Leads, valueVars,
        leaderVars, localVars
  <2> QED BY <1>2, <2>1, <2>2, <2>3, CountUnmanaged, DelayUnmanaged, PendUnmanaged
<1>3. CASE UNCHANGED vars
  <2> USE <1>3 DEF vars, coreVars, restVars, valueVars, leaderVars, umVars, localVars,
                   unmanagedVars, opVars
  <2>1. ValueInv'
    BY Zenon DEF ValueInv, ValueOK, Asleep, Leads
  <2>2. CheckInv'
    BY Zenon DEF CheckInv, Prefix, Ready, Asleep, Leads
  <2>3. CountInv'
    BY Zenon DEF CountInv, Counted
  <2>4. DelayInv'
    BY Zenon DEF DelayInv, WaitingIx, Delaying, NobodyLeads, Leads
  <2>5. PendInv'
    BY ZenonT(90) DEF PendInv, Waits, Held, Delaying, NobodyLeads, Leads, Asleep
  <2> QED BY <2>1, <2>2, <2>3, <2>4, <2>5, SMTT(30)
<1> QED BY <1>1, <1>2, <1>3 DEF Next

\* The invariant that makes the checks of leader_update sufficient, for any number
\* of threads, as long as the counter does not wrap.
THEOREM GraceInvariant == ASSUME NoWrap PROVE Spec => []GraceInv
<1>1. Init => GraceInv
  BY GraceInit
<1>2. TypeOK /\ ControlInv /\ LeaderUnique /\ GraceInv /\ [Next]_vars => GraceInv'
  BY GraceNext
<1> QED BY <1>1, <1>2, SafeControl, PTL DEF Spec, SafeInv

\* An awake thread's value is the global value or its successor (update,
\* leader_update, finalize_wait), for any number of threads.
THEOREM WindowHolds == ASSUME NoWrap PROVE Spec => []ConfirmedWindow
<1>1. TypeOK /\ GraceInv => ConfirmedWindow
  <2> SUFFICES ASSUME TypeOK, GraceInv, NEW i \in Managed
               PROVE  \/ thr[i] = VAL_WAITING /\ Asleep(i)
                      \/ thr[i] \in {current, Inc(current)}
                      \/ pc[i] = "publish" /\ thr[i] = Inc(Inc(current))
                      \/ pc[i] \in {"finalizeSet", "finalizeCheck"} /\ HasPassed(current, thr[i])
    BY DEF ConfirmedWindow
  <2>1. ValueOK(i) /\ current <= MaxVal /\ current \in Nat /\ thr[i] \in Nat
    BY IncNoWrap DEF GraceInv, ValueInv, TypeOK, ValueType, Val
  <2>2. Inc(current) = current + 1 /\ Inc(Inc(current)) = current + 2
    BY <2>1, IncNoWrap, SMTT(30)
  <2>3. CASE ~Asleep(i)
    BY <2>1, <2>2, <2>3, ZenonT(30) DEF ValueOK
  <2>4. CASE Asleep(i)
    <3>1. thr[i] = VAL_WAITING \/ (pc[i] \in {"finalizeSet",
        "finalizeCheck"} /\ thr[i] <= current + 1)
      BY <2>1, <2>4, ValueAssumption, SMTT(30)
          DEF ValueOK, Asleep, AsleepPc, TypeOK, LocalType, Val, VAL_WAITING
    <3> QED BY <2>1, <2>2, <2>4, <3>1, SMTT(30) DEF HasPassed
  <2> QED BY <2>3, <2>4, ZenonT(30)
<1> QED BY <1>1, GraceInvariant, SafeControl, PTL DEF SafeInv

\* The promise of erts_thr_progress_later, for any number of managed and
\* unmanaged threads that sleep, delay, block and wake each other up.
THEOREM GracePeriodHolds == ASSUME NoWrap PROVE Spec => []GracePeriod
<1>1. TypeOK /\ GraceInv => GracePeriod
  <2> SUFFICES ASSUME TypeOK, GraceInv, NEW t \in Thread, later[t] # NONE,
                      HasReached(later[t]), NEW s \in pend[t]
               PROVE  FALSE
    BY DEF GracePeriod
  <2>1. /\ current \in Nat /\ current <= MaxVal /\ later[t] \in Nat
        /\ Waits(later[t], pend[t]) /\ s \in Thread
    BY DEF GraceInv, ValueInv, PendInv, TypeOK, ValueType, OpType, Val
  <2>2. later[t] <= current
    BY <2>1, ValueAssumption, SMTT(30) DEF HasReached, HasPassed, NoWrap, Waits
  <2>3. s \notin Managed
    <3> SUFFICES ASSUME s \in Managed PROVE FALSE
      OBVIOUS
    <3>1. ~Asleep(s) /\ confirmed[s] < later[t]
      BY <2>1, SMTT(30) DEF Waits
    <3>2. confirmed[s] \in {current, current + 1}
      BY <3>1, SMTT(30) DEF GraceInv, ValueInv, ValueOK
    <3> QED BY <2>1, <2>2, <3>1, <3>2, SMTT(30)
  <2>4. s \notin Unmanaged
    BY <2>1, <2>2, SMTT(30) DEF Waits
  <2> QED BY <2>1, <2>3, <2>4, SMTT(30) DEF Thread
<1> QED BY <1>1, GraceInvariant, SafeControl, PTL DEF SafeInv

-----------------------------------------------------------------------------
(* The steps of thread progress are steps of GraceService: a quiet step of *)
(* a managed thread is a stutter; each special action and each action of   *)
(* an unmanaged thread is a stutter or one of its actions.                 *)

GraceStep == Grace!Next \/ UNCHANGED Grace!vars

\* A step that leaves the busy threads and the operations alone is a stutter.
LEMMA Stutters == ASSUME Busy' = Busy, UNCHANGED opVars PROVE GraceStep
  BY DEF GraceStep, Grace!vars, opVars

\* Storing a confirmed value, or continuing after a delay, is Quiesce.
LEMMA Quiesces ==
    ASSUME NEW s \in Thread, Quiescent(s), UNCHANGED later, Busy' \in {Busy, Busy \ {s}}
    PROVE  GraceStep
  BY DEF GraceStep, Quiescent, Grace!Next, Grace!Quiesce

\* Leaving finalize_wait's loop, or a successful delay, is Enter.
LEMMA Enters ==
    ASSUME NEW s \in Thread, Busy' = Busy \cup {s}, UNCHANGED opVars PROVE GraceStep
  BY DEF GraceStep, opVars, Grace!Next, Grace!Enter

\* erts_thr_progress_later is Start.
LEMMA Starts ==
    ASSUME TypeOK, NEW t \in Thread, NEW v, v # NONE, later[t] = NONE, Busy' = Busy,
           later' = [later EXCEPT ![t] = v], pend' = [pend EXCEPT ![t] = Busy]
    PROVE  GraceStep
<1>1. {s \in Thread : later'[s] # NONE} = {s \in Thread : later[s] # NONE} \cup {t}
  BY DEF TypeOK, OpType
<1> QED BY <1>1, ZenonT(30) DEF GraceStep, Grace!Next, Grace!Start

\* The end of an operation is Complete: its value has been reached, so that by
\* GracePeriod it waits for nobody.
LEMMA Completes ==
    ASSUME TypeOK, GracePeriod, NEW t \in Thread, Finish(t), Busy' = Busy PROVE GraceStep
<1>1. pend[t] = {} /\ later[t] # NONE
  BY DEF Finish, GracePeriod
<1>2. pend' = pend
  BY <1>1 DEF Finish, TypeOK, OpType
<1>3. {s \in Thread : later'[s] # NONE} = {s \in Thread : later[s] # NONE} \ {t}
  BY DEF Finish, TypeOK, OpType
<1> QED BY <1>1, <1>2, <1>3 DEF GraceStep, Grace!Next, Grace!Complete

\* A step of a managed thread
LEMMA RefineManaged ==
    ASSUME TypeOK, GracePeriod, NEW i \in Managed, ManagedStep(i) PROVE GraceStep
<1> USE ZenonT(30)
<1> /\ pc \in [Managed -> ManagedPc] /\ uret \in [Managed -> {"run", "prepare", "idle"}]
    /\ later \in [Thread -> Nat \cup {NONE}] /\ i \in Thread
  BY Zenon DEF TypeOK, LocalType, OpType, Thread
<1>b. ASSUME upc' = upc, \A j \in Managed : Asleep(j)' <=> Asleep(j) PROVE Busy' = Busy
  BY <1>b DEF Busy, Delaying
<1>q. ASSUME Quiet(i) PROVE GraceStep
  <2>1. \A j \in Managed : Asleep(j)' <=> Asleep(j)
    BY <1>q DEF Quiet, Asleep, Watched, DozePc, CheckedPc, PublishedPc, HandlePc, AsleepPc
  <2> QED BY <1>b, <1>q, <2>1, Stutters DEF Quiet
<1>g. ASSUME NEW l, l \notin AsleepPc, Goto(i, l), pc[i] \notin AsleepPc, upc' = upc
      PROVE  Busy' = Busy
  <2>1. \A j \in Managed : Asleep(j)' <=> Asleep(j)
    BY <1>g DEF Goto, Asleep
  <2> QED BY <1>b, <1>g, <2>1
<1> USE DEF coreVars, umVars, localVars, unmanagedVars, opVars, restVars, AsleepPc
<1>1. CASE Confirming(i)
  <2>1. CASE UpdateRead(i)
    <3>1. Busy' = Busy
      BY <2>1, <1>g DEF UpdateRead
    <3> QED BY <2>1, <3>1, Stutters DEF UpdateRead
  <2>2. CASE UpdateConfirm(i)
    <3>1. Busy' = Busy
      BY <2>2, <1>g DEF UpdateConfirm
    <3> QED BY <2>2, <3>1, Stutters, Quiesces DEF UpdateConfirm
  <2>3. CASE TakeOver(i)
    <3>1. Busy' = Busy
      BY <2>3, <1>g DEF TakeOver, StartCheck
    <3> QED BY <2>3, <3>1, Stutters, Quiesces DEF TakeOver
  <2>4. CASE ContinueCheck(i)
    <3>1. Busy' = Busy
      BY <2>4, <1>g DEF ContinueCheck, StartCheck
    <3> QED BY <2>4, <3>1, Stutters DEF ContinueCheck
  <2> QED BY <1>1, <2>1, <2>2, <2>3, <2>4 DEF Confirming
<1>2. CASE Checking(i)
  <2>1. UNCHANGED <<later, pend, upc>>
    BY <1>2 DEF Checking, CheckManaged, CheckUnmanaged, FlipUmrefc, RecheckUnmanaged
  <2>2. \A j \in Managed : Asleep(j)' <=> Asleep(j)
    BY <1>2 DEF Checking, CheckManaged, CheckUnmanaged, FlipUmrefc, RecheckUnmanaged,
        Goto, Asleep
  <2> QED BY <1>b, <2>1, <2>2, Stutters
<1>3. CASE Publishing(i)
  <2>1. CASE Publish(i)
    <3>1. Busy' = Busy
      BY <2>1, <1>g DEF Publish
    <3> QED BY <2>1, <3>1, Quiesces DEF Publish
  <2>2. CASE Advance(i) \/ Progressed(i)
    <3>1. Busy' = Busy
      BY <2>2, <1>g DEF Advance, Progressed
    <3> QED BY <2>2, <3>1, Stutters DEF Advance, Progressed
  <2>3. CASE Relinquish(i)
    <3>1. Busy' = Busy
      BY <2>3, <1>g DEF Relinquish, CallBlockThread
    <3> QED BY <2>3, <3>1, Stutters DEF Relinquish
  <2>4. CASE Relinquished(i)
    <3>1. Busy' = Busy
      BY <2>4, <1>g DEF Relinquished
    <3> QED BY <2>4, <3>1, Stutters DEF Relinquished
  <2> QED BY <1>3, <2>1, <2>2, <2>3, <2>4 DEF Publishing
<1>4. CASE Dozing(i)
  <2>1. CASE PrepareStore(i)
    <3>1. Busy' = Busy \ {i}
      BY <2>1, ThreadAssumption DEF PrepareStore, Goto, Busy, Asleep, Delaying
    <3> QED BY <2>1, <3>1, Quiesces DEF PrepareStore
  <2>2. CASE FinalizeRead(i) \/ FinalizeSet(i)
    <3>1. \A j \in Managed : Asleep(j)' <=> Asleep(j)
      BY <2>2 DEF FinalizeRead, FinalizeSet, Goto, Asleep
    <3> QED BY <1>b, <2>2, <3>1, Stutters DEF FinalizeRead, FinalizeSet
  <2>3. CASE FinalizeCheck(i)
    <3>1. CASE val[i] = current
      <4>1. Busy' = Busy \cup {i}
        BY <2>3, <3>1 DEF FinalizeCheck, Goto, Busy, Asleep, Delaying
      <4> QED BY <2>3, <4>1, Enters DEF FinalizeCheck
    <3>2. CASE val[i] # current
      <4>1. \A j \in Managed : Asleep(j)' <=> Asleep(j)
        BY <2>3, <3>2 DEF FinalizeCheck, Goto, Asleep
      <4> QED BY <1>b, <2>3, <4>1, Stutters DEF FinalizeCheck
    <3> QED BY <3>1, <3>2
  <2> QED BY <1>4, <2>1, <2>2, <2>3 DEF Dozing
<1>5. CASE Operating(i)
  <2>1. CASE Later(i)
    <3>1. CurrentToLater(confirmed[i]) # NONE
      <4>1. confirmed[i] \in Val \cup {VAL_WAITING}
        BY DEF TypeOK, ValueType
      <4>2. CurrentToLater(confirmed[i]) \in Nat
        BY <4>1, ValTypes
      <4> QED BY <4>2, SMTT(30) DEF NONE
    <3>2. Busy' = Busy
      BY <2>1, <1>b DEF Later, Asleep
    <3> QED BY <2>1, <3>1, <3>2, Starts DEF Later
  <2>2. CASE FinishManaged(i)
    <3>1. Busy' = Busy
      BY <2>2, <1>b DEF FinishManaged, Asleep
    <3> QED BY <2>2, <3>1, Completes DEF FinishManaged
  <2>3. CASE AuxFinish(i)
    <3>1. Busy' = Busy
      BY <2>3, <1>g DEF AuxFinish
    <3> QED BY <2>3, <3>1, Completes DEF AuxFinish
  <2> QED BY <1>5, <2>1, <2>2, <2>3 DEF Operating
<1> QED BY <1>q, QuietOrSpecial, <1>1, <1>2, <1>3, <1>4, <1>5 DEF Special

\* A step of an unmanaged thread
LEMMA RefineUnmanaged ==
    ASSUME TypeOK, GracePeriod, NEW u \in Unmanaged, UnmanagedStep(u) PROVE GraceStep
<1> USE ZenonT(30)
<1> upc \in [Unmanaged -> UnmanagedPc] /\ u \in Thread
  BY Zenon DEF TypeOK, UnmanagedType, Thread
<1>b. ASSUME pc' = pc, \A w \in Unmanaged : Delaying(w)' <=> Delaying(w) PROVE Busy' = Busy
  BY <1>b DEF Busy, Asleep
<1>g. ASSUME NEW l, l # "delaying", UGoto(u, l), upc[u] # "delaying", pc' = pc
      PROVE  Busy' = Busy
  <2>1. \A w \in Unmanaged : Delaying(w)' <=> Delaying(w)
    BY <1>g DEF UGoto, Delaying
  <2> QED BY <1>b, <1>g, <2>1
<1> USE DEF opVars, Continued
<1>1. CASE DelayRead(u) \/ DelayInc(u)
  <2>1. Busy' = Busy
    BY <1>1, <1>g DEF DelayRead, DelayInc
  <2> QED BY <1>1, <2>1, Stutters DEF DelayRead, DelayInc
<1>2. CASE DelayCheck(u)
  <2>1. CASE umix = uix[u]
    <3>1. Busy' = Busy \cup {u}
      BY <1>2, <2>1 DEF DelayCheck, UGoto, Busy, Delaying, Asleep
    <3> QED BY <1>2, <3>1, Enters DEF DelayCheck
  <2>2. CASE umix # uix[u]
    <3>1. Busy' = Busy
      BY <1>2, <2>2, <1>g DEF DelayCheck
    <3> QED BY <1>2, <3>1, Stutters DEF DelayCheck
  <2> QED BY <2>1, <2>2
<1>3. CASE Continue(u)
  <2>1. CASE upc[u] = "delaying"
    <3>1. Busy' = Busy \ {u}
      BY <1>3, <2>1, ThreadAssumption DEF Continue, UGoto, Busy, Delaying, Asleep
    <3> QED BY <1>3, <3>1, Quiesces DEF Continue
  <2>2. CASE upc[u] = "delayRetry"
    <3>1. Busy' = Busy
      BY <1>3, <2>2, <1>g DEF Continue
    <3> QED BY <1>3, <3>1, Quiesces DEF Continue
  <2> QED BY <1>3, <2>1, <2>2 DEF Continue
<1>4. CASE ContinueFlags(u)
  <2>1. Busy' = Busy
    BY <1>4, <1>g DEF ContinueFlags
  <2> QED BY <1>4, <2>1, Stutters DEF ContinueFlags
<1>5. CASE ContinueGsw(u)
  <2>1. \A w \in Unmanaged : Delaying(w)' <=> Delaying(w)
    BY <1>5 DEF ContinueGsw, UGoto, Delaying
  <2> QED BY <1>b, <1>5, <2>1, Stutters DEF ContinueGsw
<1>6. CASE ULater(u)
  <2>1. Busy' = Busy
    BY <1>6, <1>g DEF ULater
  <2>2. CurrentToLater(current) # NONE
    BY ValTypes, SMTT(30) DEF TypeOK, ValueType, NONE
  <2> QED BY <1>6, <2>1, <2>2, Starts DEF ULater
<1>7. CASE UFinish(u)
  <2>1. Busy' = Busy
    BY <1>7, <1>g DEF UFinish
  <2> QED BY <1>7, <2>1, Completes DEF UFinish
<1>8. CASE UReset(u) \/ UNotYet(u) \/ URequest(u)
  <2>1. Busy' = Busy
    BY <1>8, <1>g DEF UReset, UNotYet, URequest
  <2> QED BY <1>8, <2>1, Stutters DEF UReset, UNotYet, URequest
<1>9. CASE URequestLow(u) \/ URequestHigh(u) \/ URequestLen(u) \/ URequestCheck(u)
  <2>1. Busy' = Busy
    BY <1>9, <1>g DEF URequestLow, URequestHigh, URequestLen, URequestCheck
  <2> QED BY <1>9, <2>1, Stutters DEF URequestLow, URequestHigh, URequestLen, URequestCheck
<1> QED BY <1>1, <1>2, <1>3, <1>4, <1>5, <1>6, <1>7, <1>8, <1>9
    DEF UnmanagedStep, DelayStep, URequestStep

\* Thread progress implements GraceService, as long as the counter does not wrap.
THEOREM Refinement == ASSUME NoWrap PROVE Spec => GraceServiceSpec
<1>1. Init => Grace!Init
  BY DEF Init, Grace!Init, Busy, Thread
<1>2. TypeOK /\ GracePeriod /\ [Next]_vars => GraceStep
  <2>1. ASSUME UNCHANGED vars PROVE GraceStep
    <3>1. Busy' = Busy /\ UNCHANGED opVars
      BY <2>1, Zenon DEF vars, restVars, unmanagedVars, Busy, Asleep, Delaying
    <3> QED BY <3>1, Stutters
  <2> QED BY <2>1, RefineManaged, RefineUnmanaged DEF Next
<1> QED BY <1>1, <1>2, SafeControl, GracePeriodHolds, PTL
    DEF Spec, SafeInv, GraceServiceSpec, Grace!Spec, GraceStep
=============================================================================
