----------------------- MODULE ThrProgressPendProofs ------------------------
(***************************************************************************)
(* Proofs that the leader waits for the right reference count, and that    *)
(* the value an operation waits for is not reached while a thread that was *)
(* running has not been quiescent.                                         *)
(***************************************************************************)
EXTENDS ThrProgressLeaderProofs, ThrProgressValueProofs

\* What CountInv is needed for: when a reference count is 0 nobody delays
\* progress with it.
ZeroCounts ==
    \A k \in {0, 1} : umrefc[k] = 0 => \A u \in Unmanaged : Delaying(u) => uix[u] # k

\* A quiet step keeps DelayInv.
LEMMA DelayQuiet ==
    ASSUME DelayInv, NEW i \in Managed, Quiet(i) PROVE DelayInv'
  BY DEF DelayInv, Quiet, NobodyLeads, Leads, WaitingIx, Delaying, umVars, Watched,
         DozePc, CheckedPc, PublishedPc, HandlePc, AsleepPc

\* DelayInv is kept: the leader, or the one that takes over, waits for the
\* reference count that is not the current one until it is 0.
LEMMA DelayManaged ==
    ASSUME TypeOK, ControlInv, LeaderUnique, ZeroCounts, DelayInv,
           NEW i \in Managed, ManagedStep(i)
    PROVE  DelayInv'
<1> USE ZenonT(30)
<1> /\ pc \in [Managed -> ManagedPc] /\ lcur \in [Managed -> Val \cup {VAL_WAITING}]
    /\ lwait \in [Managed -> {NONE, 0, 1}] /\ wum \in [Managed -> BOOLEAN]
    /\ umix \in {0, 1} /\ uix \in [Unmanaged -> {0, 1}]
  BY DEF TypeOK, LeaderType, UmType, UnmanagedType
<1> USE DEF Goto, Leads, DelayInv, NobodyLeads, WaitingIx, Delaying, CheckedPc,
    PublishedPc, HandlePc
<1> USE DEF coreVars, leaderVars, umVars, unmanagedVars
<1>q. Quiet(i) => DelayInv'
  BY DelayQuiet
<1>l. ASSUME leader[i] PROVE \A j \in Managed : Leads(j) => j = i
  BY <1>l DEF ControlInv, LeaderUnique
<1>1. CASE Confirming(i)
  <2>1. CASE UpdateRead(i)
    BY <2>1, SMTT(30) DEF UpdateRead
  <2>2. CASE UpdateConfirm(i)
    BY <2>2 DEF UpdateConfirm
  <2>3. CASE TakeOver(i)
    <3>1. NobodyLeads /\ WaitingIx(miscWait)
      BY <1>l, <2>3 DEF TakeOver
    <3>2. \A j \in Managed : Leads(j)' => j = i
      BY <2>3, <3>1 DEF TakeOver
    <3>3. WaitingIx(lwait[i])' /\ pc'[i] \in {"check", "done"}
      BY <2>3, <3>1 DEF TakeOver, StartCheck
    <3>4. Leads(i)'
      BY <2>3, ValueAssumption, SMTT(30) DEF TakeOver, TypeOK, ValueType, Val, VAL_WAITING
    <3> QED BY <3>2, <3>3, <3>4
  <2>4. CASE ContinueCheck(i)
    BY <2>4 DEF ContinueCheck, StartCheck
  <2> HIDE DEF DelayInv
  <2> QED BY <1>1, <2>1, <2>2, <2>3, <2>4 DEF Confirming
<1>2. CASE Checking(i)
  <2>1. CASE CheckManaged(i)
    BY <2>1, SMTT(30) DEF CheckManaged, ControlInv, LeadPc
  <2>2. CASE CheckUnmanaged(i)
    <3>1. Leads(i) /\ UmrefcIx(i) \in {0, 1}
      BY <2>2, SMTT(30) DEF CheckUnmanaged, ControlInv, LeadPc, UmrefcIx
    <3>2. umrefc[UmrefcIx(i)] = 0 => \A u \in Unmanaged : Delaying(u) => uix[u] # lwait[i]
      BY <3>1, SMTT(30) DEF ZeroCounts, UmrefcIx, UnmanagedType, NONE
    <3>3. /\ pc'[i] \in {"advance", "done", "flip"}
          /\ pc'[i] = "advance" => umrefc[UmrefcIx(i)] = 0
          /\ pc'[i] = "flip" => lwait[i] = NONE
          /\ wum'[i] <=> lwait[i] # NONE
      BY <2>2 DEF CheckUnmanaged
    <3>4. /\ UNCHANGED <<lcur, lwait, umVars, upc, uix>>
          /\ \A j \in Managed \ {i} : pc'[j] = pc[j] /\ wum'[j] = wum[j]
      BY <2>2 DEF CheckUnmanaged
    <3> QED BY <3>1, <3>2, <3>3, <3>4, SMTT(30)
  <2>3. CASE FlipUmrefc(i)
    <3>1. Leads(i) /\ lwait[i] = NONE /\ \A u \in Unmanaged : Delaying(u) => uix[u] = umix
      BY <2>3, SMTT(30) DEF FlipUmrefc, ControlInv, LeadPc, UnmanagedType, NONE
    <3>2. WaitingIx(lwait[i])'
      BY <2>3, <3>1, SMTT(30) DEF FlipUmrefc, restVars
    <3>3. \A j \in Managed : Leads(j)' => j = i
      BY <1>l, <2>3, <3>1 DEF FlipUmrefc, ControlInv
    <3> QED BY <2>3, <3>1, <3>2, <3>3, SMTT(30) DEF FlipUmrefc, NONE
  <2>4. CASE RecheckUnmanaged(i)
    <3>1. Leads(i) /\ lwait[i] \in {0, 1} /\ wum[i]
      BY <2>4, SMTT(30) DEF RecheckUnmanaged, ControlInv, LeadPc
    <3>2. umrefc[lwait[i]] = 0 => \A u \in Unmanaged : Delaying(u) => uix[u] # lwait[i]
      BY <3>1 DEF ZeroCounts
    <3> QED BY <2>4, <3>1, <3>2, SMTT(30) DEF RecheckUnmanaged, restVars
  <2> HIDE DEF DelayInv
  <2> QED BY <1>2, <2>1, <2>2, <2>3, <2>4 DEF Checking
<1>3. CASE Publishing(i)
  <2>1. CASE Advance(i)
    BY <2>1 DEF Advance, restVars
  <2>2. CASE Publish(i)
    <3>1. Leads(i) /\ lcur[i] \in Val
      <4>1. Leads(i)
        BY <2>2 DEF Publish, ControlInv, LeadPc
      <4> QED BY <4>1
    <3>2. \A j \in Managed : Leads(j)' => Leads(j)
      BY <2>2, <3>1 DEF Publish
    <3>3. Leads(i)'
      BY <2>2, <3>1, ValueAssumption, SMTT(30) DEF Publish, Inc, Val, VAL_WAITING
    <3> QED BY <2>2, <3>1, <3>2, <3>3, SMTT(30) DEF Publish
  <2>3. CASE Progressed(i)
    BY <2>3, SMTT(30) DEF Progressed, restVars, ControlInv, LeadPc
  <2>4. CASE Relinquish(i)
    <3>1. Leads(i) /\ \A j \in Managed : ~Leads(j)'
      BY <1>l, <2>4 DEF Relinquish, ControlInv, LeadPc
    <3>2. WaitingIx(miscWait)'
      BY <2>4, <3>1 DEF Relinquish
    <3> QED BY <3>1, <3>2
  <2>5. CASE Relinquished(i)
    <3>1. ~Leads(i)
      BY <2>5 DEF Relinquished, ControlInv, InactivePc, LeadPc
    <3> QED BY <2>5, <3>1 DEF Relinquished, restVars
  <2> HIDE DEF DelayInv
  <2> QED BY <1>3, <2>1, <2>2, <2>3, <2>4, <2>5 DEF Publishing
<1>4. CASE Dozing(i)
  <2>1. CASE PrepareStore(i)
    BY <2>1 DEF PrepareStore
  <2>2. CASE FinalizeRead(i)
    BY <2>2 DEF FinalizeRead
  <2>3. CASE FinalizeSet(i)
    BY <2>3 DEF FinalizeSet, restVars
  <2>4. CASE FinalizeCheck(i)
    BY <2>4, SMTT(30) DEF FinalizeCheck
  <2> HIDE DEF DelayInv
  <2> QED BY <1>4, <2>1, <2>2, <2>3, <2>4 DEF Dozing
<1>5. CASE Operating(i)
  <2>1. CASE Later(i)
    BY <2>1 DEF Later
  <2>2. CASE FinishManaged(i)
    BY <2>2 DEF FinishManaged
  <2>3. CASE AuxFinish(i)
    BY <2>3 DEF AuxFinish
  <2> HIDE DEF DelayInv
  <2> QED BY <1>5, <2>1, <2>2, <2>3 DEF Operating
<1> HIDE DEF DelayInv
<1> QED BY <1>q, QuietOrSpecial, <1>1, <1>2, <1>3, <1>4, <1>5 DEF Special

\* DelayInv is kept by the unmanaged threads.
LEMMA DelayUnmanaged ==
    ASSUME TypeOK, DelayInv, NEW u \in Unmanaged, UFrame(u) PROVE DelayInv'
<1> USE ZenonT(30)
<1>1. \A w \in Unmanaged : Delaying(w)' => uix'[w] = umix \/ (Delaying(w) /\ uix'[w] = uix[w])
  BY DEF UFrame, Delaying
<1>2. ASSUME NEW x, WaitingIx(x) PROVE WaitingIx(x)'
  BY <1>1, <1>2 DEF WaitingIx, UFrame
<1> QED BY <1>1, <1>2, SMTT(30) DEF TypeOK, UmType, DelayInv, NobodyLeads, Leads,
    WaitingIx, UFrame, leaderVars, NONE

\* A thread without an operation waits for nobody.
LEMMA NothingPending ==
    ASSUME NEW t, later'[t] = NONE, pend'[t] = {} PROVE Waits(later[t], pend[t])'
<1> USE ZenonT(30)
<1>1. NONE <= MaxVal
  BY ValueAssumption, SMTT(30) DEF NONE
<1>2. Managed \cap {} = {} /\ Unmanaged \cap {} = {}
  OBVIOUS
<1> QED BY <1>1, <1>2 DEF Waits

\* PendInv is kept when nothing that an operation waits for goes away.
LEMMA WaitsKept ==
    ASSUME TypeOK, PendInv, UNCHANGED <<current, later, upc, uix>>,
           \A t \in Thread : pend'[t] \subseteq pend[t],
           \A j \in Managed :
               \/ \A t \in Thread : j \notin pend'[t]
               \/ ~Asleep(j) => ~Asleep(j)' /\ confirmed'[j] = confirmed[j],
           \A u \in Unmanaged : Delaying(u) /\ Held(uix[u]) => Held(uix[u])'
    PROVE  PendInv'
<1> USE ZenonT(30)
<1> SUFFICES ASSUME NEW t \in Thread PROVE Waits(later[t], pend[t])'
  BY DEF PendInv
<1>1. Waits(later[t], pend[t])
  BY DEF PendInv
<1>2. \A i \in Managed \cap pend'[t] : ~Asleep(i)' /\ confirmed'[i] < later'[t]
  BY <1>1 DEF Waits
<1>3. ASSUME NEW u \in Unmanaged, u \in pend'[t]
      PROVE  /\ Delaying(u)'
             /\ later'[t] >= current' + 2 \/ (later'[t] = current' + 1 /\ Held(uix[u])')
  BY <1>1, <1>3 DEF Waits, Delaying
<1> QED BY <1>1, <1>2, <1>3 DEF Waits

\* No operation waits for a thread that has just been quiescent.
LEMMA QuiescentPend ==
    ASSUME NEW i, Quiescent(i) PROVE \A t \in Thread : pend'[t] = pend[t] \ {i}
  BY DEF Quiescent

\* A quiet step keeps PendInv.
LEMMA PendQuiet ==
    ASSUME TypeOK, PendInv, NEW i \in Managed, Quiet(i) PROVE PendInv'
<1> USE ZenonT(30)
<1>1. \A j \in Managed : ~Asleep(j) => ~Asleep(j)'
  BY DEF Quiet, Asleep, Watched, DozePc, CheckedPc, PublishedPc, HandlePc, AsleepPc
<1>2. ASSUME NEW u \in Unmanaged, Held(uix[u]) PROVE Held(uix[u])'
  BY <1>2, SMTT(30) DEF Quiet, Held, NobodyLeads, Leads, umVars, Watched, DozePc, CheckedPc,
              PublishedPc, HandlePc, AsleepPc
<1> QED BY <1>1, <1>2, WaitsKept DEF Quiet, valueVars, opVars

\* PendInv is kept: the leader does not publish a value some operation waits
\* for while a thread the operation waits for has not been quiescent.
LEMMA PendManaged ==
    ASSUME TypeOK, ControlInv, LeaderUnique, ValueInv, ZeroCounts, DelayInv, PendInv, NoWrap,
           NEW i \in Managed, ManagedStep(i)
    PROVE  PendInv'
<1> USE ZenonT(30)
<1> /\ pc \in [Managed -> ManagedPc] /\ lcur \in [Managed -> Val \cup {VAL_WAITING}]
    /\ lwait \in [Managed -> {NONE, 0, 1}] /\ wum \in [Managed -> BOOLEAN]
    /\ uret \in [Managed -> {"run", "prepare", "idle"}]
  BY DEF TypeOK, ValueType, LeaderType, LocalType
<1> /\ umix \in {0, 1} /\ uix \in [Unmanaged -> {0, 1}]
    /\ later \in [Thread -> Nat \cup {NONE}] /\ pend \in [Thread -> SUBSET Thread]
  BY DEF TypeOK, UmType, UnmanagedType, OpType
<1> /\ current \in Nat /\ confirmed \in [Managed -> Nat]
  BY ValTypes DEF TypeOK, ValueType
<1> USE DEF Goto, Leads, NobodyLeads, CheckedPc, PublishedPc, HandlePc, Asleep, AsleepPc, Quiescent
<1> USE DEF coreVars, valueVars, leaderVars, umVars, unmanagedVars, localVars, restVars, opVars
<1>q. Quiet(i) => PendInv'
  BY PendQuiet
<1>l. ASSUME leader[i] PROVE \A j \in Managed : Leads(j) => j = i
  BY <1>l DEF ControlInv, LeaderUnique
<1>f. ASSUME Finish(i), UNCHANGED <<coreVars, unmanagedVars>>,
             \A j \in Managed : Asleep(j)' => Asleep(j), \A h : Held(h)' <=> Held(h)
      PROVE  PendInv'
  <2>1. \A t \in Thread \ {i} : later'[t] = later[t] /\ pend'[t] = pend[t]
    BY <1>f DEF Finish
  <2>2. later'[i] = NONE /\ pend'[i] = {}
    BY <1>f DEF Finish, Thread
  <2>3. ASSUME NEW t \in Thread \ {i} PROVE Waits(later[t], pend[t])'
    BY <1>f, <2>1 DEF PendInv, Waits, Delaying
  <2>4. Waits(later[i], pend[i])'
    BY <2>2, NothingPending
  <2> QED BY <2>3, <2>4 DEF PendInv
<1>1. CASE Confirming(i)
  <2>1. CASE UpdateRead(i)
    BY <2>1, WaitsKept, SMTT(30) DEF UpdateRead, Held
  <2>2. CASE UpdateConfirm(i)
    <3>1. \A t \in Thread : pend'[t] \subseteq pend[t]
      BY <2>2, QuiescentPend, SMTT(30) DEF UpdateConfirm
    <3>2. confirmed'[i] = confirmed[i] \/ \A t \in Thread : i \notin pend'[t]
      BY <2>2, QuiescentPend, SMTT(30) DEF UpdateConfirm
    <3>3. \A j \in Managed \ {i} : confirmed'[j] = confirmed[j]
      BY <2>2 DEF UpdateConfirm, ValueType
    <3> QED BY <2>2, <3>1, <3>2, <3>3, WaitsKept, SMTT(30) DEF UpdateConfirm, Held
  <2>3. CASE TakeOver(i)
    <3>1. NobodyLeads
      BY <1>l, <2>3 DEF TakeOver
    <3>2. ASSUME NEW u \in Unmanaged, Held(uix[u]) PROVE Held(uix[u])'
      BY <2>3, <3>1, <3>2 DEF TakeOver, StartCheck, Held
    <3>3. \A t \in Thread : pend'[t] \subseteq pend[t]
      BY <2>3, QuiescentPend, SMTT(30) DEF TakeOver
    <3>4. confirmed'[i] = confirmed[i] \/ \A t \in Thread : i \notin pend'[t]
      BY <2>3, QuiescentPend, SMTT(30) DEF TakeOver
    <3>5. \A j \in Managed \ {i} : confirmed'[j] = confirmed[j]
      BY <2>3 DEF TakeOver, ValueType
    <3> QED BY <2>3, <3>2, <3>3, <3>4, <3>5, WaitsKept, SMTT(30) DEF TakeOver, StartCheck
  <2>4. CASE ContinueCheck(i)
    BY <2>4, WaitsKept DEF ContinueCheck, StartCheck, Held
  <2> QED BY <1>1, <2>1, <2>2, <2>3, <2>4 DEF Confirming
<1>2. CASE Checking(i)
  <2>1. CASE CheckManaged(i)
    BY <2>1, WaitsKept, SMTT(30) DEF CheckManaged, Held
  <2>2. CASE CheckUnmanaged(i)
    <3>1. Leads(i)
      BY <2>2 DEF CheckUnmanaged, ControlInv, LeadPc
    <3>2. ASSUME NEW u \in Unmanaged, Delaying(u), Held(uix[u]) PROVE Held(uix[u])'
      <4>1. UmrefcIx(i) = uix[u] /\ umrefc[uix[u]] # 0
        BY <2>2, <3>1, <3>2, SMTT(30) DEF ZeroCounts, CheckUnmanaged, Held, UmrefcIx, NONE
      <4> QED BY <2>2, <3>2, <4>1 DEF CheckUnmanaged, Held
    <3> QED BY <2>2, <3>2, WaitsKept DEF CheckUnmanaged
  <2>3. CASE FlipUmrefc(i)
    <3>1. Leads(i) /\ lwait[i] = NONE
      BY <2>3 DEF FlipUmrefc, ControlInv, LeadPc, DelayInv
    <3>2. \A j \in Managed : Leads(j) => j = i
      BY <1>l, <3>1 DEF ControlInv
    <3>3. ASSUME NEW u \in Unmanaged, Held(uix[u]) PROVE Held(uix[u])'
      BY <2>3, <3>1, <3>2, <3>3, SMTT(30) DEF FlipUmrefc, Held, NONE
    <3> QED BY <2>3, <3>3, WaitsKept DEF FlipUmrefc
  <2>4. CASE RecheckUnmanaged(i)
    <3>1. Leads(i) /\ lwait[i] # NONE
      BY <2>4 DEF RecheckUnmanaged, ControlInv, LeadPc, DelayInv
    <3>2. ASSUME NEW u \in Unmanaged, Delaying(u), Held(uix[u]) PROVE Held(uix[u])'
      <4>1. lwait[i] = uix[u] /\ umrefc[uix[u]] # 0
        BY <2>4, <3>1, <3>2 DEF ZeroCounts, RecheckUnmanaged, Held
      <4> QED BY <2>4, <3>2, <4>1 DEF RecheckUnmanaged, Held
    <3> QED BY <2>4, <3>2, WaitsKept DEF RecheckUnmanaged
  <2> QED BY <1>2, <2>1, <2>2, <2>3, <2>4 DEF Checking
<1>3. CASE Publishing(i)
  <2>1. CASE Advance(i)
    <3>1. ASSUME NEW u \in Unmanaged, Held(uix[u]) PROVE FALSE
      BY <2>1, <3>1 DEF Advance, Held, ControlInv, LeadPc
    <3> QED BY <2>1, <3>1, WaitsKept DEF Advance
  <2>2. CASE Publish(i)
    <3>1. Leads(i) /\ lcur[i] = current /\ current' = current + 1 /\ current \in Nat
      <4>1. Leads(i)
        BY <2>2 DEF Publish, ControlInv, LeadPc
      <4>2. lcur[i] = current /\ current <= MaxVal /\ current \in Nat
        BY <4>1 DEF ValueInv, ValueOK, ValueType, Val
      <4>3. current' = Inc(lcur[i])
        BY <2>2 DEF Publish
      <4> QED BY <4>1, <4>2, <4>3, IncNoWrap, SMTT(30)
    <3>2. \A j \in Managed : Leads(j)' => j = i
      BY <1>l, <2>2, <3>1 DEF Publish, ControlInv
    <3>3. ASSUME NEW u \in Unmanaged, Delaying(u) PROVE ~Held(uix[u]) /\ Held(uix[u])'
      <4>1. umix = uix[u]
        BY <2>2, <3>1, <3>3 DEF Publish, DelayInv, WaitingIx
      <4>2. Leads(i)'
        <5>1. lcur'[i] = current' /\ current' # VAL_WAITING
          BY <2>2, <3>1, IncNoWrap, SMTT(30) DEF Publish, ValueInv
        <5> QED BY <5>1
      <4> QED BY <2>2, <3>1, <3>2, <4>1, <4>2 DEF Publish, Held
    <3> SUFFICES ASSUME NEW t \in Thread PROVE Waits(later[t], pend[t])'
      BY DEF PendInv
    <3>4. Waits(later[t], pend[t]) /\ later[t] \in Int
      BY SMTT(30) DEF PendInv, NONE
    <3>5. \A j \in Managed \cap pend'[t] : ~Asleep(j)' /\ confirmed'[j] < later'[t]
      <4>1. \A j \in Managed \cap pend'[t] : j \in pend[t] /\ j # i
        BY <2>2, QuiescentPend DEF Publish
      <4>2. \A j \in Managed \ {i} : pc'[j] = pc[j] /\ confirmed'[j] = confirmed[j]
        BY <2>2 DEF Publish, ValueType
      <4> QED BY <2>2, <3>4, <4>1, <4>2 DEF Publish, Waits
    <3>6. ASSUME NEW u \in Unmanaged, u \in pend'[t]
          PROVE  Delaying(u)' /\ (later'[t] >= current' + 2 \/ (later'[t] = current' + 1 /\
              Held(uix[u])'))
      <4>1. Delaying(u) /\ Delaying(u)' /\ later'[t] = later[t]
        BY <2>2, <3>4, <3>6 DEF Publish, Waits, Delaying
      <4>2. later[t] >= current + 2
        BY <2>2, <3>3, <3>4, <3>6, <4>1 DEF Publish, Waits
      <4> QED BY <3>1, <3>3, <3>4, <4>1, <4>2, SMTT(30)
    <3> QED BY <2>2, <3>4, <3>5, <3>6 DEF Publish, Waits
  <2>3. CASE Progressed(i)
    <3>1. Leads(i)
      BY <2>3 DEF Progressed, ControlInv, LeadPc
    <3>2. ASSUME NEW u \in Unmanaged, Delaying(u), Held(uix[u]) PROVE Held(uix[u])'
      <4>1. umix = uix[u] /\ lwait'[i] = NONE
        BY <2>3, <3>1, <3>2 DEF Progressed, DelayInv, WaitingIx
      <4> QED BY <2>3, <3>2, <4>1, SMTT(30) DEF Progressed, Held
    <3> QED BY <2>3, <3>2, WaitsKept DEF Progressed
  <2>4. CASE Relinquish(i)
    <3>1. Leads(i) /\ \A j \in Managed : ~Leads(j)'
      BY <1>l, <2>4 DEF Relinquish, ControlInv, LeadPc
    <3>2. ASSUME NEW u \in Unmanaged, Held(uix[u]) PROVE Held(uix[u])'
      BY <2>4, <3>1, <3>2 DEF Relinquish, Held
    <3> QED BY <2>4, <3>2, WaitsKept, SMTT(30) DEF Relinquish, CallBlockThread
  <2>5. CASE Relinquished(i)
    <3>1. ~Leads(i)
      BY <2>5 DEF Relinquished, ControlInv, InactivePc, LeadPc
    <3> QED BY <2>5, <3>1, WaitsKept DEF Relinquished, Held
  <2> QED BY <1>3, <2>1, <2>2, <2>3, <2>4, <2>5 DEF Publishing
<1>4. CASE Dozing(i)
  <2>1. CASE PrepareStore(i)
    BY <2>1, WaitsKept DEF PrepareStore, Held
  <2>2. CASE FinalizeRead(i)
    BY <2>2, WaitsKept DEF FinalizeRead, Held
  <2>3. CASE FinalizeSet(i)
    <3>1. \A u \in Unmanaged : Held(uix[u]) => Held(uix[u])'
      BY <2>3 DEF FinalizeSet, Held
    <3> QED BY <2>3, <3>1, WaitsKept DEF FinalizeSet
  <2>4. CASE FinalizeCheck(i)
    <3>1. \A u \in Unmanaged : Held(uix[u]) => Held(uix[u])'
      BY <2>4, SMTT(30) DEF FinalizeCheck, Held
    <3> QED BY <2>4, <3>1, WaitsKept DEF FinalizeCheck
  <2> QED BY <1>4, <2>1, <2>2, <2>3, <2>4 DEF Dozing
<1>5. CASE Operating(i)
  <2>1. CASE Later(i)
    <3>1. later'[i] >= current + 2 /\ later'[i] <= MaxVal
      <4>1. confirmed[i] \in {current, current + 1} /\ current \in Nat /\ current <= MaxVal
        <5>1. ~Asleep(i)
          BY <2>1 DEF Later
        <5> QED BY <5>1 DEF ValueInv, ValueOK, ValueType, Val
      <4>2. CurrentToLater(confirmed[i]) = confirmed[i] + 2
        BY <4>1, IncNoWrap, SMTT(30) DEF CurrentToLater
      <4>3. later'[i] = confirmed[i] + 2 /\ confirmed[i] + 2 <= LaterBound(i)
        BY <2>1, <4>2 DEF Later, Thread
      <4>4. LaterBound(i) <= MaxVal /\ LaterBound(i) \in Int /\ MaxVal \in Nat
        BY ValueAssumption, SMTT(30) DEF LaterBound
      <4> QED BY <4>1, <4>3, <4>4, IncNoWrap, SMTT(30)
    <3>2. \A t \in Thread \ {i} : later'[t] = later[t] /\ pend'[t] = pend[t]
      BY <2>1 DEF Later
    <3>3. pend'[i] = Busy
      BY <2>1 DEF Later, Thread
    <3>4. \A h : Held(h)' <=> Held(h)
      BY <2>1 DEF Later, Held
    <3>5. ASSUME NEW t \in Thread \ {i} PROVE Waits(later[t], pend[t])'
      BY <2>1, <3>2, <3>4 DEF Later, PendInv, Waits, Delaying
    <3>6. Waits(later[i], pend[i])'
      <4>1. \A j \in Managed \cap Busy : ~Asleep(j)' /\ confirmed'[j] < later'[i]
        <5>1. \A j \in Managed \cap Busy : ~Asleep(j)
          BY ThreadAssumption DEF Busy
        <5>2. \A j \in Managed \cap Busy : confirmed[j] \in {current, current + 1}
          BY <5>1 DEF ValueInv, ValueOK
        <5>3. later'[i] \in Int /\ current \in Int
          BY <2>1, ValueAssumption, IncNoWrap, SMTT(30)
              DEF Later, CurrentToLater, ValueType, Val, Thread
        <5> QED BY <2>1, <3>1, <5>1, <5>2, <5>3, SMTT(30) DEF Later
      <4>2. \A u \in Unmanaged \cap Busy : Delaying(u)'
        BY <2>1, ThreadAssumption DEF Later, Busy, Delaying
      <4>3. current' = current
        BY <2>1 DEF Later
      <4> QED BY <3>1, <3>3, <4>1, <4>2, <4>3 DEF Waits
    <3> QED BY <3>5, <3>6, SMTT(30) DEF PendInv
  <2>2. CASE FinishManaged(i)
    BY <1>f, <2>2 DEF FinishManaged, Held
  <2>3. CASE AuxFinish(i)
    BY <1>f, <2>3 DEF AuxFinish, Held
  <2> QED BY <1>5, <2>1, <2>2, <2>3 DEF Operating
<1> QED BY <1>q, QuietOrSpecial, <1>1, <1>2, <1>3, <1>4, <1>5 DEF Special

\* PendInv is kept by the unmanaged threads.
LEMMA PendUnmanaged ==
    ASSUME TypeOK, ValueInv, PendInv, NoWrap, NEW u \in Unmanaged, UnmanagedStep(u) PROVE PendInv'
<1> USE ZenonT(30)
<1> UFrame(u)
  BY UnmanagedFrame
<1>h. \A h : Held(h)' <=> Held(h)
  BY DEF UFrame, Held, NobodyLeads, Leads, leaderVars
<1>t. ASSUME NEW t \in Thread, later'[t] = later[t], pend'[t] \subseteq pend[t]
      PROVE  Waits(later[t], pend[t])'
  <2>1. Waits(later[t], pend[t])
    BY DEF PendInv
  <2>2. \A i \in Managed \cap pend'[t] : ~Asleep(i)' /\ confirmed'[i] < later'[t]
    BY <1>t, <2>1 DEF Waits, UFrame, valueVars, Asleep
  <2>3. \A w \in Unmanaged \cap pend'[t] : Delaying(w)' /\ uix'[w] = uix[w]
    BY <1>t, <2>1 DEF Waits, UFrame, Delaying
  <2> QED BY <1>t, <1>h, <2>1, <2>2, <2>3 DEF Waits, UFrame, valueVars
<1>c. ASSUME UNCHANGED opVars PROVE PendInv'
  BY <1>c, <1>t DEF PendInv, opVars
<1>1. CASE DelayRead(u)
  BY <1>c, <1>1 DEF DelayRead
<1>2. CASE DelayInc(u)
  BY <1>c, <1>2 DEF DelayInc
<1>3. CASE DelayCheck(u)
  BY <1>c, <1>3 DEF DelayCheck
<1>4. CASE Continue(u)
  BY <1>4, <1>t DEF PendInv, Continue, Quiescent
<1>5. CASE ContinueFlags(u)
  BY <1>c, <1>5 DEF ContinueFlags
<1>6. CASE ContinueGsw(u)
  BY <1>c, <1>6 DEF ContinueGsw
<1>7. CASE ULater(u)
  <2>o. OpType
    BY DEF TypeOK
  <2>l. /\ later' = [later EXCEPT ![u] = CurrentToLater(current)]
        /\ pend' = [pend EXCEPT ![u] = Busy]
    BY <1>7 DEF ULater
  <2>1. later'[u] = current + 2 /\ later'[u] <= MaxVal
    <3>1. current \in Nat /\ current <= MaxVal
      BY SMTT(30) DEF ValueInv, TypeOK, ValueType, Val
    <3>2. CurrentToLater(current) = current + 2
      BY <3>1, IncNoWrap, SMTT(30) DEF CurrentToLater
    <3>3. CurrentToLater(current) <= MaxVal
      BY <1>7 DEF ULater
    <3> QED BY <2>o, <2>l, <3>2, <3>3 DEF OpType, Thread
  <2>2. \A t \in Thread \ {u} : later'[t] = later[t] /\ pend'[t] = pend[t]
    BY <2>o, <2>l DEF OpType
  <2>3. pend'[u] = Busy /\ current' = current /\ current \in Nat
    <3>1. UNCHANGED current
      BY <1>7 DEF ULater, coreVars, valueVars
    <3>2. current \in Nat
      BY SMTT(30) DEF TypeOK, ValueType, Val
    <3> QED BY <2>o, <2>l, <3>1, <3>2 DEF OpType, Thread
  <2>4. \A i \in Managed \cap Busy : ~Asleep(i) /\ confirmed[i] \in {current, current + 1}
    BY ThreadAssumption DEF Busy, ValueInv, ValueOK
  <2>5. \A i \in Managed \cap Busy : ~Asleep(i)' /\ confirmed'[i] < current + 2
    BY <2>3, <2>4, SMTT(30) DEF UFrame, valueVars, Asleep
  <2>6. \A w \in Unmanaged \cap Busy : Delaying(w)'
    <3>1. \A w \in Unmanaged \cap Busy : Delaying(w)
      BY ThreadAssumption DEF Busy
    <3>2. \A w \in Unmanaged : upc'[w] = upc[w] \/ (w = u /\ upc[u] = "idle")
      BY <1>7 DEF ULater, UGoto, TypeOK, UnmanagedType
    <3> QED BY <3>1, <3>2 DEF Delaying
  <2>7. Waits(later[u], pend[u])'
    BY <2>1, <2>3, <2>5, <2>6, SMTT(30) DEF Waits
  <2> QED BY <1>t, <2>2, <2>7 DEF PendInv
<1>8. CASE UReset(u)
  BY <1>c, <1>8 DEF UReset
<1>9. CASE UFinish(u)
  <2>1. \A t \in Thread \ {u} : later'[t] = later[t] /\ pend'[t] = pend[t]
    BY <1>9 DEF UFinish, Finish, TypeOK, OpType
  <2>2. later'[u] = NONE /\ pend'[u] = {}
    BY <1>9 DEF UFinish, Finish, TypeOK, OpType, Thread
  <2>3. Waits(later[u], pend[u])'
    BY <2>2, NothingPending
  <2> QED BY <1>t, <2>1, <2>3 DEF PendInv
<1>10. CASE UNotYet(u)
  BY <1>c, <1>10 DEF UNotYet
<1>11. CASE URequest(u)
  BY <1>c, <1>11 DEF URequest
<1>12. CASE URequestLow(u)
  BY <1>c, <1>12 DEF URequestLow
<1>13. CASE URequestHigh(u)
  BY <1>c, <1>13 DEF URequestHigh
<1>14. CASE URequestLen(u)
  BY <1>c, <1>14 DEF URequestLen
<1>15. CASE URequestCheck(u)
  BY <1>c, <1>15 DEF URequestCheck
<1> QED BY <1>1, <1>2, <1>3, <1>4, <1>5, <1>6, <1>7, <1>8, <1>9, <1>10, <1>11, <1>12,
    <1>13, <1>14, <1>15
    DEF UnmanagedStep, DelayStep, URequestStep
=============================================================================
