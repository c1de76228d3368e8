---------------------------- MODULE CodeIxProofs ----------------------------
(***************************************************************************)
(* Proofs about CodeIx, for every set of schedulers and every number of    *)
(* loads: IndInv is inductive, and the safety properties follow from it.   *)
(***************************************************************************)
EXTENDS CodeIx, FiniteSetTheorems, TLAPS

\* With three sets of tables the successors of an index (NextIx, as in
\* erts_commit_staging_code_ix) are the other two.
LEMMA NextIxFacts ==
    \A ix \in Ix :
        /\ NextIx(ix) \in Ix
        /\ NextIx(ix) # ix
        /\ NextIx(NextIx(ix)) # ix
        /\ NextIx(NextIx(NextIx(ix))) = ix
        /\ Ix = {ix, NextIx(ix), NextIx(NextIx(ix))}
<1> USE ZenonT(30)
<1>1. Ix = {0, 1, 2}
  BY SMTT(30) DEF Ix, NumCodeIx
<1>2. NextIx(0) = 1 /\ NextIx(1) = 2 /\ NextIx(2) = 0
  BY SMTT(30) DEF NextIx, NumCodeIx
<1> QED
  BY <1>1, <1>2, SMTT(30)

\* Which loads an instruction barrier of erts_code_ix_finalize_wait is good for:
\* all whose tables are not being staged.
LEMMA WrittenFacts ==
    ASSUME TypeOK, LoadInv
    PROVE  /\ Written \in Nat /\ Written <= loads
           /\ phase # "staging" => Written = loads
           /\ \A ix \in Ix \ {staging} : tab[ix] <= Written
<1>1. CASE phase = "staging"
  <2>1. NextIx(staging) \in Ix \ {staging}
    BY NextIxFacts, ZenonT(30) DEF TypeOK
  <2>2. loads \in Nat /\ \A ix \in Ix \ {staging} : tab[ix] < loads /\ tab[ix] \in Nat
    BY <1>1, SMTT(30) DEF LoadInv, TypeOK
  <2>3. Written = loads - 1
    BY <1>1 DEF Written
  <2> QED
    BY <1>1, <2>1, <2>2, <2>3, SMTT(30)
<1>2. CASE phase # "staging"
  BY <1>2, SMTT(30) DEF Written, LoadInv, TypeOK
<1> QED
  BY <1>1, <1>2

\* What a scheduler does preserves the types.
LEMMA TypeScheduler ==
    ASSUME TypeOK, LoadInv, NEW s \in Scheduler,
           \/ Read(s) \/ SeeActive(s) \/ (\E ix \in Ix : SeeTable(s, ix))
           \/ Pass(s) \/ Sleep(s) \/ Wake(s) \/ Park(s) \/ Unpark(s)
    PROVE  TypeOK'
<1> USE ZenonT(30)
<1> Shared \in [active : Ix, tab : [Ix -> Nat]]
  BY DEF TypeOK, Shared
<1>1. CASE Read(s)
  BY <1>1 DEF TypeOK, Read, codeVars, loadVars, opVars
<1>2. CASE SeeActive(s)
  BY <1>2 DEF TypeOK, SeeActive, codeVars, loadVars, opVars
<1>3. ASSUME NEW ix \in Ix, SeeTable(s, ix) PROVE TypeOK'
  BY <1>3 DEF TypeOK, SeeTable, codeVars, loadVars, opVars
<1>4. CASE Pass(s) \/ Sleep(s)
  <2>1. Quiesce(s) /\ busy' \in {busy, busy \ {s}}
    BY <1>4 DEF Pass, Sleep
  <2>2. /\ commitOwed' \in [Scheduler -> SUBSET Scheduler]
        /\ decOwed' \in [Scheduler -> SUBSET Scheduler]
        /\ commits' = commits /\ decs' = decs
    BY <2>1 DEF TypeOK, Quiesce, Commit!Quiesce, Dec!Quiesce
  <2>3. /\ mem' \in [Scheduler -> [active : Ix, tab : [Ix -> Nat]]]
        /\ use' \in [Scheduler -> Ix \cup {NONE}]
    BY <2>1 DEF TypeOK, Quiesce
  <2> QED
    BY <2>1, <2>2, <2>3 DEF TypeOK, Quiesce, codeVars, loadVars
<1>5. CASE Wake(s)
  <2>1. /\ busy' \subseteq Scheduler
        /\ UNCHANGED <<commits, commitOwed, decs, decOwed>>
    BY <1>5 DEF TypeOK, Wake, Commit!Enter, Dec!Enter
  <2>2. mem' \in [Scheduler -> [active : Ix, tab : [Ix -> Nat]]]
    BY <1>5 DEF TypeOK, Wake
  <2>3. ibar' = ibar \/ ibar' = [ibar EXCEPT ![s] = Written]
    BY <1>5 DEF Wake, FinalizeWait
  <2>4. ibar' \in [Scheduler -> Nat]
    BY <2>3, WrittenFacts DEF TypeOK
  <2>5. parked' \subseteq Scheduler
    BY <1>5 DEF TypeOK, Wake
  <2> QED
    BY <1>5, <2>1, <2>2, <2>4, <2>5 DEF TypeOK, Wake, codeVars, loadVars
<1>6. CASE Park(s)
  BY <1>6 DEF TypeOK, Park, codeVars, loadVars, opVars
<1>7. CASE Unpark(s)
  <2>1. ibar' = ibar \/ ibar' = [ibar EXCEPT ![s] = Written]
    BY <1>7 DEF Unpark, FinalizeWait
  <2>2. ibar' \in [Scheduler -> Nat]
    BY <2>1, WrittenFacts DEF TypeOK
  <2> QED
    BY <1>7, <2>2 DEF TypeOK, Unpark, codeVars, loadVars, opVars
<1> QED
  BY <1>1, <1>2, <1>3, <1>4, <1>5, <1>6, <1>7

\* So does what a loader and its operations do.
LEMMA TypeLoader ==
    ASSUME TypeOK, NEW s \in Scheduler, CodeIxAssumption,
           \/ (\E b \in Blocking : StartStaging(s, b)) \/ AbortStaging(s)
           \/ EndStaging(s) \/ CodeBarrier(s) \/ CommitCodeIx(s)
           \/ Block(s) \/ BlockingCommit(s) \/ Decrement(s)
    PROVE  TypeOK'
<1> USE ZenonT(30)
<1>0. NextIx(staging) \in Ix
  BY NextIxFacts DEF TypeOK
<1>1. ASSUME NEW b \in Blocking, StartStaging(s, b) PROVE TypeOK'
  <2>1. /\ tab' \in [Ix -> Nat] /\ loads' \in Nat
        /\ blocks' \in BOOLEAN
    BY <1>1, SMTT(30) DEF TypeOK, StartStaging, CodeIxAssumption
  <2> DEFINE m == [mem[s] EXCEPT !.tab = [@ EXCEPT ![staging] = loads + 1]]
  <2>a. m \in [active : Ix, tab : [Ix -> Nat]]
    <3> DEFINE t == [mem[s].tab EXCEPT ![staging] = loads + 1]
    <3>1. mem[s] \in [active : Ix, tab : [Ix -> Nat]]
      BY DEF TypeOK
    <3>2. t \in [Ix -> Nat]
      BY <3>1, SMTT(30) DEF TypeOK
    <3>3. m = [mem[s] EXCEPT !.tab = t]
      OBVIOUS
    <3> HIDE DEF t
    <3> QED
      BY <3>1, <3>2, <3>3
  <2>b. mem' = [mem EXCEPT ![s] = m]
    BY <1>1 DEF StartStaging
  <2>2. mem' \in [Scheduler -> [active : Ix, tab : [Ix -> Nat]]]
    <3> HIDE DEF m
    <3> QED
      BY <2>a, <2>b DEF TypeOK
  <2>3. use' \in [Scheduler -> Ix \cup {NONE}]
    BY <1>1 DEF TypeOK, StartStaging
  <2> QED
    BY <1>1, <2>1, <2>2, <2>3 DEF TypeOK, StartStaging, opVars
<1>2. CASE AbortStaging(s) \/ Block(s)
  BY <1>2 DEF TypeOK, AbortStaging, Block, codeVars, opVars
<1>3. ASSUME NEW todo \in SUBSET Scheduler, IssueBarrier(s, todo)
      PROVE  /\ ibar' \in [Scheduler -> Nat] /\ pending' \subseteq Scheduler
             /\ busy' \subseteq Scheduler /\ commits' \subseteq Scheduler
             /\ commitOwed' \in [Scheduler -> SUBSET Scheduler]
  <2>1. CASE todo = {}
    <3>1. Commit!Start(s) /\ ibar' = [ibar EXCEPT ![s] = loads] /\ pending' = todo
      BY <1>3, <2>1 DEF IssueBarrier
    <3>2. /\ busy' \subseteq Scheduler /\ commits' \subseteq Scheduler
          /\ commitOwed' \in [Scheduler -> SUBSET Scheduler]
      BY <3>1 DEF TypeOK, Commit!Start
    <3> QED
      BY <3>1, <3>2 DEF TypeOK
  <2>2. CASE todo # {}
    BY <1>3, <2>2 DEF TypeOK, IssueBarrier
  <2> QED
    BY <2>1, <2>2
<1>4. CASE EndStaging(s)
  <2>1. IssueBarrier(s, Scheduler \ {s})
    BY <1>4 DEF EndStaging
  <2> QED
    BY <1>3, <1>4, <2>1 DEF TypeOK, EndStaging, codeVars
<1>5. CASE CodeBarrier(s)
  <2>1. IssueBarrier(s, pending \ {s}) /\ pending \ {s} \in SUBSET Scheduler
    BY <1>5 DEF CodeBarrier, TypeOK
  <2>2. use' \in [Scheduler -> Ix \cup {NONE}]
    BY <1>5 DEF TypeOK, CodeBarrier
  <2> QED
    BY <1>3, <1>5, <2>1, <2>2 DEF TypeOK, CodeBarrier, codeVars
<1>6. ASSUME CommitStaging(s)
      PROVE  /\ active' \in Ix /\ staging' \in Ix
             /\ mem' \in [Scheduler -> [active : Ix, tab : [Ix -> Nat]]]
  BY <1>0, <1>6 DEF TypeOK, CommitStaging
<1>7. CASE CommitCodeIx(s)
  <2>1. use' \in [Scheduler -> Ix \cup {NONE}]
    BY <1>7 DEF TypeOK, CommitCodeIx
  <2>2. /\ CommitStaging(s)
        /\ commits' \subseteq Scheduler /\ UNCHANGED <<busy, commitOwed>>
    BY <1>7 DEF TypeOK, CommitCodeIx, Commit!Complete
  <2> QED
    BY <1>6, <1>7, <2>1, <2>2 DEF TypeOK, CommitCodeIx
<1>8. CASE BlockingCommit(s)
  <2>0. Dec!Start(s) \/ UNCHANGED <<decs, decOwed>>
    BY <1>8 DEF BlockingCommit, StartDec
  <2>1. /\ decs' \subseteq Scheduler
        /\ decOwed' \in [Scheduler -> SUBSET Scheduler]
    BY <2>0 DEF TypeOK, Dec!Start
  <2>a. /\ outstanding' = outstanding + 1 /\ blocked' = blocked \cup {loads}
        /\ ibar' = [ibar EXCEPT ![s] = loads]
    BY <1>8 DEF BlockingCommit
  <2>2. /\ outstanding' \in Nat /\ blocked' \subseteq Nat
        /\ ibar' \in [Scheduler -> Nat]
    BY <2>a, SMTT(30) DEF TypeOK
  <2>3. CommitStaging(s)
    BY <1>8 DEF BlockingCommit
  <2> QED
    BY <1>6, <1>8, <2>1, <2>2, <2>3 DEF TypeOK, BlockingCommit
<1>9. CASE Decrement(s)
  <2>1. /\ decs' \subseteq Scheduler
        /\ decOwed' \in [Scheduler -> SUBSET Scheduler]
        /\ busy' = busy /\ outstanding' \in Nat
    BY <1>9, SMTT(30) DEF TypeOK, Decrement, Dec!Complete
  <2>2. use' \in [Scheduler -> Ix \cup {NONE}]
    BY <1>9 DEF TypeOK, Decrement
  <2>3. missed' \in [Scheduler -> SUBSET Nat]
    <3>1. missed' = missed \/ Miss
      BY <1>9 DEF Decrement
    <3>2. missed \in [Scheduler -> SUBSET Nat] /\ blocked \subseteq Nat
      BY DEF TypeOK
    <3>3. CASE Miss
      <4> DEFINE M(t) == IF t \in busy THEN missed[t] ELSE {l \in blocked : ibar[t] < l}
      <4>1. \A t \in Scheduler : M(t) \in SUBSET Nat
        BY <3>2
      <4>2. missed' = [t \in Scheduler |-> M(t)]
        BY <3>3 DEF Miss
      <4> HIDE DEF M
      <4> QED
        BY <4>1, <4>2
    <3> QED
      BY <3>1, <3>2, <3>3
  <2> QED
    BY <1>9, <2>1, <2>2, <2>3 DEF TypeOK, Decrement, codeVars, loadVars
<1> QED
  BY <1>1, <1>2, <1>4, <1>5, <1>7, <1>8, <1>9

-----------------------------------------------------------------------------
(* What the steps do to the memory that each scheduler sees.               *)

\* A memory barrier makes all of memory visible (erts_thr_progress_update,
\* block_thread and erts_thr_progress_finalize_wait have one).
LEMMA MemShared ==
    ASSUME TypeOK, NEW s \in Scheduler, mem' = [mem EXCEPT ![s] = Shared]
    PROVE  /\ mem'[s].active = active /\ mem'[s].tab = tab
           /\ \A t \in Scheduler \ {s} : mem'[t] = mem[t]
  BY DEF TypeOK, Shared

\* The new index becomes visible to s, or s itself writes it
\* (erts_commit_staging_code_ix).
LEMMA MemActive ==
    ASSUME TypeOK, NEW s \in Scheduler, NEW ix, mem' = [mem EXCEPT ![s].active = ix]
    PROVE  /\ mem'[s].active = ix /\ mem'[s].tab = mem[s].tab
           /\ \A t \in Scheduler \ {s} : mem'[t] = mem[t]
  BY DEF TypeOK

\* A set of tables becomes visible to s, or s itself writes it (the changes of
\* finish_loading_1 to the staging tables).
LEMMA MemTable ==
    ASSUME TypeOK, NEW s \in Scheduler, NEW ix \in Ix, NEW n,
           mem' = [mem EXCEPT ![s].tab[ix] = n]
    PROVE  /\ mem'[s].active = mem[s].active
           /\ mem'[s].tab[ix] = n
           /\ \A i \in Ix \ {ix} : mem'[s].tab[i] = mem[s].tab[i]
           /\ \A t \in Scheduler \ {s} : mem'[t] = mem[t]
  BY DEF TypeOK

-----------------------------------------------------------------------------
(* IndexInv is preserved.                                                  *)

\* What a scheduler does leaves the staging set unseen (code_ix.c).
LEMMA IndexScheduler ==
    ASSUME TypeOK, IndexInv, NEW s \in Scheduler, CodeIxAssumption,
           \/ Read(s) \/ SeeActive(s) \/ (\E ix \in Ix : SeeTable(s, ix))
           \/ Pass(s) \/ Sleep(s) \/ Wake(s) \/ Park(s) \/ Unpark(s)
    PROVE  IndexInv'
<1> USE ZenonT(30)
<1>0. active # staging
  BY NextIxFacts DEF IndexInv, TypeOK
<1>1. CASE Read(s)
  BY <1>1 DEF TypeOK, IndexInv, Using, Read, Runs, codeVars
<1>2. CASE SeeActive(s)
  <2>1. /\ mem'[s].active = active /\ mem'[s].tab = mem[s].tab
        /\ \A t \in Scheduler \ {s} : mem'[t] = mem[t]
    BY <1>2, MemActive DEF SeeActive
  <2> QED
    BY <1>0, <1>2, <2>1, SMTT(30) DEF TypeOK, IndexInv, Using, SeeActive, codeVars
<1>3. ASSUME NEW ix \in Ix, SeeTable(s, ix) PROVE IndexInv'
  <2>1. /\ mem'[s].active = mem[s].active
        /\ mem'[s].tab[ix] = tab[ix]
        /\ \A i \in Ix \ {ix} : mem'[s].tab[i] = mem[s].tab[i]
        /\ \A t \in Scheduler \ {s} : mem'[t] = mem[t]
    BY <1>3, MemTable DEF SeeTable
  <2> QED
    BY <1>3, <2>1, SMTT(30) DEF TypeOK, IndexInv, Using, SeeTable, codeVars
<1>4. ASSUME mem' = [mem EXCEPT ![s] = Shared], UNCHANGED <<active, staging, tab>>,
             parked' \subseteq busy', Using' \subseteq Using \cup {s},
             use' = [use EXCEPT ![s] = NONE] \/ (use' = use /\ Using \subseteq Using'),
             Using \ {s} \subseteq Using'
      PROVE  IndexInv'
  <2>1. /\ mem'[s].active = active /\ mem'[s].tab = tab
        /\ \A t \in Scheduler \ {s} : mem'[t] = mem[t]
    BY <1>4, MemShared
  <2>2. \A t \in Scheduler : use'[t] # NONE => t \in Using' /\ use'[t] # staging
    BY <1>4 DEF TypeOK, IndexInv
  <2>3. Using' \subseteq Scheduler
    BY <1>4 DEF TypeOK, Using
  <2>4. \A t \in Using' : mem'[t].active # staging
    BY <1>0, <1>4, <2>1, <2>3 DEF IndexInv
  <2>5. \A t \in Using', ix \in Ix \ {staging} : mem'[t].tab[ix] = tab[ix]
    BY <1>4, <2>1, <2>3, SMTT(30) DEF IndexInv
  <2> QED
    BY <1>4, <2>2, <2>4, <2>5 DEF IndexInv
<1>5. CASE Pass(s) \/ Sleep(s)
  BY <1>4, <1>5 DEF TypeOK, IndexInv, Using, Pass, Sleep, Quiesce, Runs, codeVars
<1>6. CASE Wake(s)
  <2>1. /\ mem' = [mem EXCEPT ![s] = Shared] /\ UNCHANGED <<active, staging, tab, use>>
        /\ busy' = busy \cup {s} /\ s \notin busy
        /\ parked' = parked \/ parked' = parked \cup {s}
    BY <1>6 DEF Wake, Commit!Enter, codeVars
  <2>2. /\ parked' \subseteq busy' /\ Using' \subseteq Using \cup {s}
        /\ Using \subseteq Using'
    BY <2>1 DEF IndexInv, Using
  <2> QED
    BY <1>4, <2>1, <2>2
<1>7. CASE Park(s)
  BY <1>7 DEF TypeOK, IndexInv, Using, Park, Runs, codeVars
<1>8. CASE Unpark(s)
  BY <1>4, <1>8 DEF TypeOK, IndexInv, Using, Unpark, codeVars
<1> QED
  BY <1>1, <1>2, <1>3, <1>5, <1>6, <1>7, <1>8

\* Neither does a loader show it to anybody before it is committed, and then
\* the set that becomes the staging one is not in use (commit_code_ix,
\* staging_epilogue).
LEMMA IndexLoader ==
    ASSUME TypeOK, IndexInv, LoadInv, CommitInv, NEW s \in Scheduler, CodeIxAssumption,
           \/ (\E b \in Blocking : StartStaging(s, b)) \/ AbortStaging(s)
           \/ EndStaging(s) \/ CodeBarrier(s) \/ CommitCodeIx(s)
           \/ Block(s) \/ BlockingCommit(s) \/ Decrement(s)
    PROVE  IndexInv'
<1> USE ZenonT(30)
<1>1. ASSUME NEW b \in Blocking, StartStaging(s, b) PROVE IndexInv'
  <2>1. /\ mem'[s].active = mem[s].active
        /\ \A i \in Ix \ {staging} : mem'[s].tab[i] = mem[s].tab[i]
        /\ \A t \in Scheduler \ {s} : mem'[t] = mem[t]
    BY <1>1, MemTable DEF StartStaging, TypeOK
  <2>2. \A i \in Ix \ {staging} : tab'[i] = tab[i]
    BY <1>1 DEF StartStaging, TypeOK
  <2> QED
    BY <1>1, <2>1, <2>2, SMTT(30) DEF TypeOK, IndexInv, Using, StartStaging
<1>2. CASE AbortStaging(s) \/ Block(s)
  BY <1>2 DEF IndexInv, Using, AbortStaging, Block, codeVars
<1>3. CASE EndStaging(s) \/ CodeBarrier(s)
  <2>1. busy' = busy
    BY <1>3 DEF EndStaging, CodeBarrier, IssueBarrier, Commit!Start
  <2>2. /\ UNCHANGED <<active, staging, tab, mem, parked>>
        /\ use' = use \/ use' = [use EXCEPT ![s] = NONE]
    BY <1>3 DEF EndStaging, CodeBarrier, codeVars
  <2> QED
    BY <2>1, <2>2 DEF TypeOK, IndexInv, Using
<1>4. CASE Decrement(s)
  BY <1>4 DEF TypeOK, IndexInv, Using, Decrement, Dec!Complete, codeVars
<1>5. ASSUME CommitStaging(s), UNCHANGED <<busy, parked, tab>>,
             s \in Using,
             use' = [use EXCEPT ![s] = NONE] \/ (use' = use /\ use[s] = NONE),
             \A t \in Using \ {s} :
                 mem[t].active # Third /\ mem[t].tab[staging] = tab[staging],
             \A t \in Using \ {s} : use[t] # Third,
             mem[s].tab[staging] = tab[staging]
      PROVE  IndexInv'
  <2>1. /\ mem'[s].active = staging /\ mem'[s].tab = mem[s].tab
        /\ \A t \in Scheduler \ {s} : mem'[t] = mem[t]
    BY <1>5, MemActive DEF CommitStaging
  <2>2. staging # Third /\ Using \subseteq Scheduler
    BY NextIxFacts DEF TypeOK, Third, Using
  <2>3. staging' = Third /\ active' = staging /\ Using' = Using
    BY <1>5 DEF CommitStaging, Third, Using
  <2>4. \A t \in Scheduler : use'[t] # NONE => t \in Using /\ use'[t] # Third
    BY <1>5 DEF TypeOK, IndexInv
  <2>5. \A t \in Using : mem'[t].active # Third
    BY <1>5, <2>1, <2>2
  <2>6. \A t \in Using, ix \in Ix \ {Third} : mem'[t].tab[ix] = tab[ix]
    <3> SUFFICES ASSUME NEW t \in Using, NEW ix \in Ix PROVE mem'[t].tab[ix] = tab[ix]
      OBVIOUS
    <3>1. mem'[t].tab = mem[t].tab
      BY <2>1, <2>2
    <3>2. ix # staging => mem[t].tab[ix] = tab[ix]
      BY DEF IndexInv
    <3>3. mem[t].tab[staging] = tab[staging]
      BY <1>5
    <3> QED
      BY <3>1, <3>2, <3>3
  <2> QED
    BY <1>5, <2>3, <2>4, <2>5, <2>6, SMTT(30) DEF IndexInv, Third, CommitStaging
<1>6. CASE CommitCodeIx(s)
  <2>1. s \in commits /\ commitOwed[s] = {} /\ s \in Using
    BY <1>6 DEF CommitCodeIx, Commit!Complete, Runs, Using
  <2>2. \A t \in Using : /\ mem[t].active # Third /\ use[t] # Third
                         /\ mem[t].tab[staging] = tab[staging]
    BY <2>1 DEF CommitInv
  <2>3. /\ CommitStaging(s) /\ UNCHANGED <<busy, parked, tab>>
        /\ use' = [use EXCEPT ![s] = NONE]
    BY <1>6 DEF CommitCodeIx, Commit!Complete
  <2> QED
    BY <1>5, <2>1, <2>2, <2>3
<1>7. CASE BlockingCommit(s)
  <2>1. s \in Using /\ use[s] = NONE /\ mem[s].tab[staging] = tab[staging]
    BY <1>7 DEF BlockingCommit, LoadInv
  <2>2. Using \ {s} = {}
    BY <1>7 DEF BlockingCommit, Using
  <2>3. CommitStaging(s) /\ UNCHANGED <<busy, parked, tab, use>>
    BY <1>7 DEF BlockingCommit
  <2> QED
    BY <1>5, <2>1, <2>2, <2>3
<1> QED
  BY <1>1, <1>2, <1>3, <1>4, <1>6, <1>7

-----------------------------------------------------------------------------
(* LoadInv is preserved.                                                   *)

\* Other schedulers do not disturb a load: its loader is in a BIF, and neither
\* parks nor sleeps (finish_loading_1).
LEMMA LoadScheduler ==
    ASSUME TypeOK, IndexInv, LoadInv, NEW s \in Scheduler,
           \/ Read(s) \/ SeeActive(s) \/ (\E ix \in Ix : SeeTable(s, ix))
           \/ Pass(s) \/ Sleep(s) \/ Wake(s) \/ Park(s) \/ Unpark(s)
    PROVE  LoadInv'
<1> USE ZenonT(30)
<1> DEFINE InBif == phase \in {"staging", "block"}
<1>1. UNCHANGED <<staging, tab, loads, phase, loader>>
  BY DEF Read, SeeActive, SeeTable, Pass, Sleep, Quiesce, Wake, Park, Unpark, codeVars, loadVars
<1>2. SUFFICES ASSUME InBif
               PROVE  /\ loader \in Using' /\ use'[loader] = NONE
                      /\ mem'[loader].tab[staging] = tab[staging]
  BY <1>1 DEF LoadInv
<1>3. /\ loader \in Using /\ loader \in Scheduler /\ use[loader] = NONE
      /\ mem[loader].tab[staging] = tab[staging]
  BY <1>2 DEF LoadInv, TypeOK, Using
<1>4. CASE Read(s)
  BY <1>2, <1>3, <1>4 DEF Read, Runs, Using, TypeOK
<1>5. CASE SeeActive(s)
  <2>1. mem'[loader].tab = mem[loader].tab
    BY <1>3, <1>5, MemActive DEF SeeActive
  <2> QED
    BY <1>3, <1>5, <2>1 DEF SeeActive, Using
<1>6. ASSUME NEW ix \in Ix, SeeTable(s, ix)
      PROVE  /\ loader \in Using' /\ use'[loader] = NONE
             /\ mem'[loader].tab[staging] = tab[staging]
  <2>1. /\ mem'[s].active = mem[s].active
        /\ mem'[s].tab[ix] = tab[ix]
        /\ \A i \in Ix \ {ix} : mem'[s].tab[i] = mem[s].tab[i]
        /\ \A t \in Scheduler \ {s} : mem'[t] = mem[t]
    BY <1>6, MemTable DEF SeeTable
  <2> QED
    BY <1>3, <1>6, <2>1 DEF SeeTable, Using, TypeOK
<1>7. CASE Pass(s) \/ Sleep(s)
  <2>1. /\ s # loader /\ parked' = parked /\ busy \ {s} \subseteq busy'
        /\ use' = [use EXCEPT ![s] = NONE] /\ mem' = [mem EXCEPT ![s] = Shared]
    BY <1>2, <1>7 DEF Pass, Sleep, Quiesce, Runs
  <2>2. use'[loader] = use[loader] /\ mem'[loader] = mem[loader]
    BY <1>3, <2>1 DEF TypeOK
  <2> QED
    BY <1>3, <2>1, <2>2 DEF Using
<1>8. CASE Wake(s)
  <2>1. /\ s \notin busy /\ use' = use /\ mem' = [mem EXCEPT ![s] = Shared]
        /\ busy \subseteq busy' /\ parked' \subseteq parked \cup {s}
    BY <1>8 DEF Wake, Commit!Enter
  <2>2. s # loader
    BY <1>3, <2>1 DEF Using
  <2>3. mem'[loader] = mem[loader]
    BY <1>3, <2>1, <2>2 DEF TypeOK
  <2> QED
    BY <1>3, <2>1, <2>2, <2>3 DEF Using
<1>9. CASE Park(s)
  BY <1>2, <1>3, <1>9 DEF Park, Runs, Using, TypeOK
<1>10. CASE Unpark(s)
  BY <1>3, <1>10 DEF Unpark, Using, TypeOK
<1> QED
  BY <1>4, <1>5, <1>6, <1>7, <1>8, <1>9, <1>10

\* The load's own steps: the staging tables are those of the last load until
\* they are committed.
LEMMA LoadLoader ==
    ASSUME TypeOK, IndexInv, LoadInv, CommitInv, NEW s \in Scheduler,
           \/ (\E b \in Blocking : StartStaging(s, b)) \/ AbortStaging(s)
           \/ EndStaging(s) \/ CodeBarrier(s) \/ CommitCodeIx(s)
           \/ Block(s) \/ BlockingCommit(s) \/ Decrement(s)
    PROVE  LoadInv'
<1> USE ZenonT(30)
<1>1. ASSUME NEW b \in Blocking, StartStaging(s, b) PROVE LoadInv'
  <2>1. mem'[s].tab[staging] = loads + 1
    BY <1>1, MemTable, SMTT(30) DEF StartStaging, TypeOK
  <2>2. /\ tab'[staging] = loads + 1
        /\ \A i \in Ix \ {staging} : tab'[i] = tab[i]
    BY <1>1 DEF StartStaging, TypeOK
  <2>3. \A ix \in Ix : tab'[ix] <= loads + 1
    BY <2>2, SMTT(30) DEF LoadInv, TypeOK
  <2>5. \A ix \in Ix \ {staging} : tab'[ix] < loads + 1
    BY <2>2, SMTT(30) DEF LoadInv, TypeOK
  <2>4. s \in Using' /\ use'[s] = NONE
    BY <1>1 DEF StartStaging, Runs, Using, TypeOK
  <2> QED
    BY <1>1, <2>1, <2>2, <2>3, <2>4, <2>5 DEF LoadInv, StartStaging
<1>2. CASE AbortStaging(s) \/ Block(s)
  BY <1>2 DEF LoadInv, Using, AbortStaging, Block, codeVars
<1>3. CASE EndStaging(s) \/ CodeBarrier(s)
  BY <1>3 DEF LoadInv, EndStaging, CodeBarrier, codeVars
<1>4. CASE Decrement(s)
  <2>1. UNCHANGED <<staging, tab, loads, phase, loader, mem, busy, parked>>
    BY <1>4 DEF Decrement, Dec!Complete, codeVars, loadVars
  <2>2. phase \in {"staging", "block"} => use'[loader] = use[loader]
    BY <1>4, SMTT(30) DEF Decrement, Runs, TypeOK
  <2> QED
    BY <2>1, <2>2 DEF LoadInv, Using
<1>5. CASE CommitCodeIx(s) \/ BlockingCommit(s)
  BY <1>5 DEF LoadInv, CommitCodeIx, BlockingCommit, CommitStaging
<1> QED
  BY <1>1, <1>2, <1>3, <1>4, <1>5

-----------------------------------------------------------------------------
(* CommitInv is preserved.                                                 *)

\* A scheduler that quiesces, wakes up or leaves block_thread sees all of the
\* shared memory; so no operation waits for it in vain (erl_thr_progress.c).
LEMMA CommitScheduler ==
    ASSUME TypeOK, IndexInv, CommitInv, NEW s \in Scheduler, CodeIxAssumption,
           \/ Read(s) \/ SeeActive(s) \/ (\E ix \in Ix : SeeTable(s, ix))
           \/ Pass(s) \/ Sleep(s) \/ Wake(s) \/ Park(s) \/ Unpark(s)
    PROVE  CommitInv'
<1> USE ZenonT(30)
<1> DEFINE Fresh(t) == /\ mem[t].active # Third /\ use[t] # Third
                       /\ mem[t].tab[staging] = tab[staging]
<1>0. /\ Third \in Ix /\ active # Third /\ NONE # Third
      /\ Using \subseteq Scheduler
  BY NextIxFacts, SMTT(30) DEF TypeOK, IndexInv, Third, CodeIxAssumption, Ix, NumCodeIx, Using
<1>1. UNCHANGED <<staging, tab, phase, pending, commits>>
  BY DEF Read, SeeActive, SeeTable, Pass, Sleep, Quiesce, Commit!Quiesce, Wake, Commit!Enter,
         Park, Unpark, codeVars, loadVars, opVars
<1>2. SUFFICES ASSUME NEW c \in commits, NEW t \in Using' \ commitOwed'[c]
               PROVE  Fresh(t)'
  BY <1>1 DEF CommitInv
<1>3. c \in Scheduler /\ \A u \in Using \ commitOwed[c] : Fresh(u)
  BY DEF CommitInv, TypeOK
<1>4. Third' = Third
  BY <1>1 DEF Third
<1>5. CASE Read(s)
  <2>1. t \in Using \ commitOwed[c] /\ mem' = mem
    BY <1>5 DEF Read, Using, opVars
  <2> QED
    BY <1>0, <1>1, <1>3, <1>4, <1>5, <2>1 DEF Read, TypeOK
<1>6. CASE SeeActive(s)
  <2>1. t \in Using \ commitOwed[c] /\ use' = use
    BY <1>6 DEF SeeActive, Using, opVars
  <2>2. /\ mem'[s].active = active /\ mem'[s].tab = mem[s].tab
        /\ \A u \in Scheduler \ {s} : mem'[u] = mem[u]
    BY <1>6, MemActive DEF SeeActive
  <2> QED
    BY <1>0, <1>1, <1>3, <1>4, <2>1, <2>2
<1>7. ASSUME NEW ix \in Ix, SeeTable(s, ix) PROVE Fresh(t)'
  <2>1. t \in Using \ commitOwed[c] /\ use' = use
    BY <1>7 DEF SeeTable, Using, opVars
  <2>2. /\ mem'[s].active = mem[s].active
        /\ mem'[s].tab[ix] = tab[ix]
        /\ \A i \in Ix \ {ix} : mem'[s].tab[i] = mem[s].tab[i]
        /\ \A u \in Scheduler \ {s} : mem'[u] = mem[u]
    BY <1>7, MemTable DEF SeeTable
  <2> QED
    BY <1>0, <1>1, <1>3, <1>4, <2>1, <2>2 DEF TypeOK
<1>8. CASE Pass(s) \/ Sleep(s)
  <2>1. /\ mem' = [mem EXCEPT ![s] = Shared] /\ use' = [use EXCEPT ![s] = NONE]
        /\ Using' \subseteq Using /\ commitOwed'[c] = commitOwed[c] \ {s}
    BY <1>3, <1>8 DEF Pass, Sleep, Quiesce, Commit!Quiesce, Using
  <2>2. t = s \/ t \in Using \ commitOwed[c]
    BY <2>1
  <2> QED
    <3>1. /\ mem'[s].active = active /\ mem'[s].tab = tab
          /\ \A u \in Scheduler \ {s} : mem'[u] = mem[u]
      BY <2>1, MemShared
    <3>2. use'[s] = NONE /\ \A u \in Scheduler \ {s} : use'[u] = use[u]
      BY <2>1 DEF TypeOK
    <3> QED
      BY <1>0, <1>1, <1>3, <1>4, <2>2, <3>1, <3>2
<1>9. CASE Wake(s) \/ Unpark(s)
  <2>1. /\ mem' = [mem EXCEPT ![s] = Shared] /\ use' = use
        /\ Using' \subseteq Using \cup {s} /\ commitOwed' = commitOwed
        /\ use[s] = NONE
    <3>1. s \notin Using
      BY <1>9 DEF Wake, Unpark, Using
    <3>2. use[s] = NONE
      BY <3>1 DEF IndexInv
    <3>3. CASE Wake(s)
      BY <3>2, <3>3 DEF Wake, Commit!Enter, Using
    <3>4. CASE Unpark(s)
      BY <3>2, <3>4 DEF Unpark, Using, opVars
    <3> QED
      BY <1>9, <3>3, <3>4
  <2>2. t = s \/ t \in Using \ commitOwed[c]
    BY <2>1
  <2> QED
    BY <1>0, <1>1, <1>3, <1>4, <2>1, <2>2, MemShared
<1>10. CASE Park(s)
  <2>1. t \in Using \ commitOwed[c] /\ t # s /\ mem' = mem
    BY <1>10 DEF Park, Using, opVars
  <2> QED
    BY <1>0, <1>1, <1>3, <1>4, <1>10, <2>1 DEF Park, TypeOK
<1> QED
  BY <1>5, <1>6, <1>7, <1>8, <1>9, <1>10

\* A commit is scheduled by the last barrier only, and then waits for everybody
\* who is not asleep (schedule_code_barrier_later_op, commit_code_ix).
LEMMA CommitLoader ==
    ASSUME TypeOK, IndexInv, CommitInv, NEW s \in Scheduler, CodeIxAssumption,
           \/ (\E b \in Blocking : StartStaging(s, b)) \/ AbortStaging(s)
           \/ EndStaging(s) \/ CodeBarrier(s) \/ CommitCodeIx(s)
           \/ Block(s) \/ BlockingCommit(s) \/ Decrement(s)
    PROVE  CommitInv'
<1> USE ZenonT(30)
<1>1. ASSUME commits' = {} PROVE CommitInv'
  BY <1>1 DEF CommitInv
<1>2. CASE (\E b \in Blocking : StartStaging(s, b)) \/ AbortStaging(s) \/ Block(s) \/ BlockingCommit(s)
  <2>1. commits = {} /\ commits' = commits
    BY <1>2 DEF CommitInv, StartStaging, AbortStaging, Block, BlockingCommit, opVars
  <2> QED
    BY <1>1, <2>1
<1>3. ASSUME NEW todo, IssueBarrier(s, todo), commits = {}, phase' = "barrier", parked' = parked
      PROVE  CommitInv'
  <2>1. CASE todo = {}
    <3>1. /\ commits' = {s} /\ commitOwed'[s] = busy /\ busy' = busy
          /\ pending' = {}
      BY <1>3, <2>1 DEF IssueBarrier, Commit!Start, TypeOK
    <3>2. Using' \ commitOwed'[s] = {}
      BY <3>1 DEF Using
    <3> QED
      BY <1>3, <3>1, <3>2 DEF CommitInv
  <2>2. CASE todo # {}
    BY <1>1, <1>3, <2>2 DEF IssueBarrier
  <2> QED
    BY <2>1, <2>2
<1>4. CASE EndStaging(s)
  <2>1. commits = {}
    BY <1>4 DEF EndStaging, CommitInv
  <2> QED
    BY <1>3, <1>4, <2>1 DEF EndStaging
<1>5. CASE CodeBarrier(s)
  <2>1. commits = {}
    BY <1>5 DEF CodeBarrier, CommitInv
  <2> QED
    BY <1>3, <1>5, <2>1 DEF CodeBarrier
<1>6. CASE CommitCodeIx(s)
  <2>1. s \in commits /\ commits' = commits \ {s}
    BY <1>6 DEF CommitCodeIx, Commit!Complete
  <2> QED
    BY <1>1, <2>1 DEF CommitInv
<1>7. CASE Decrement(s)
  <2>1. UNCHANGED <<staging, tab, phase, pending, mem, busy, parked, commits, commitOwed>>
    BY <1>7 DEF Decrement, Dec!Complete, codeVars, loadVars
  <2>2. NONE # Third
    BY NextIxFacts, SMTT(30) DEF TypeOK, Third, CodeIxAssumption, Ix, NumCodeIx
  <2>3. \A t \in Scheduler : use'[t] # Third \/ use'[t] = use[t]
    BY <1>7, <2>2 DEF Decrement, TypeOK
  <2>4. Third' = Third /\ Using' = Using /\ Using \subseteq Scheduler
    BY <2>1 DEF Third, Using, TypeOK
  <2> QED
    BY <2>1, <2>3, <2>4 DEF CommitInv
<1> QED
  BY <1>2, <1>4, <1>5, <1>6, <1>7

-----------------------------------------------------------------------------
(* BarrierInv and DecInv are preserved.                                    *)

\* One operation that ends blocking barriers exists exactly while some are
\* outstanding (schedule_blocking_code_barriers).
LEMMA DecStep ==
    ASSUME TypeOK, DecInv, Next
    PROVE  DecInv'
<1> USE ZenonT(30)
<1>1. PICK s \in Scheduler :
          \/ Step(s) \/ Read(s) \/ Sleep(s) \/ Wake(s) \/ SeeActive(s)
          \/ \E ix \in Ix : SeeTable(s, ix)
          \/ \E b \in Blocking : StartStaging(s, b)
  BY DEF Next
<1>2. CASE BlockingCommit(s)
  <2>1. outstanding' = outstanding + 1 /\ StartDec(s, outstanding + 1)
    BY <1>2 DEF BlockingCommit
  <2>2. CASE outstanding = 0
    <3>1. decs = {} /\ decs' = decs \cup {s}
      BY <2>1, <2>2, SMTT(30) DEF StartDec, Dec!Start, DecInv, TypeOK
    <3> QED
      BY <2>1, <2>2, <3>1, SMTT(30) DEF DecInv
  <2>3. CASE outstanding # 0
    BY <2>1, <2>3, SMTT(30) DEF StartDec, DecInv, TypeOK
  <2> QED
    BY <2>2, <2>3
<1>3. CASE Decrement(s)
  <2>1. s \in decs
    BY <1>3 DEF Decrement
  <2>2. CASE outstanding > 1
    BY <1>3, <2>1, <2>2, SMTT(30) DEF Decrement, DecInv
  <2>3. CASE ~(outstanding > 1)
    BY <1>3, <2>1, <2>3, SMTT(30) DEF Decrement, Dec!Complete, DecInv
  <2> QED
    BY <2>2, <2>3
<1>4. CASE ~BlockingCommit(s) /\ ~Decrement(s)
  <2>1. UNCHANGED <<outstanding, decs>>
    BY <1>1, <1>4 DEF Step, Read, SeeActive, SeeTable, Pass, Sleep, Quiesce, Dec!Quiesce, Wake,
           Dec!Enter, Park, Unpark, StartStaging, AbortStaging, EndStaging, CodeBarrier,
           CommitCodeIx, Block, opVars
  <2> QED
    BY <2>1 DEF DecInv
<1> QED
  BY <1>2, <1>3, <1>4

\* A scheduler that leaves block_thread still finds a blocking barrier
\* outstanding, and issues its instruction barrier
\* (erts_code_ix_finalize_wait).
LEMMA BarrierScheduler ==
    ASSUME TypeOK, IndexInv, LoadInv, BarrierInv, DecInv, NEW s \in Scheduler,
           \/ Read(s) \/ SeeActive(s) \/ (\E ix \in Ix : SeeTable(s, ix))
           \/ Pass(s) \/ Sleep(s) \/ Wake(s) \/ Park(s) \/ Unpark(s)
    PROVE  BarrierInv'
<1> USE ZenonT(30)
<1>1. UNCHANGED <<staging, tab, blocked, loads, phase, pending, outstanding, missed, decs>>
  BY DEF Read, SeeActive, SeeTable, Pass, Sleep, Quiesce, Dec!Quiesce, Wake, Dec!Enter,
         Park, Unpark, codeVars, loadVars, opVars
<1>2. CASE Read(s) \/ SeeActive(s) \/ \E ix \in Ix : SeeTable(s, ix)
  <2>1. UNCHANGED <<ibar, busy, parked, decOwed>>
    BY <1>2 DEF Read, SeeActive, SeeTable, opVars
  <2> QED
    BY <1>1, <2>1 DEF BarrierInv, Issued, WillIssue, Written
<1>3. CASE Pass(s) \/ Sleep(s)
  <2>1. /\ UNCHANGED <<ibar, parked>> /\ s \notin parked
        /\ \A d \in Scheduler : decOwed'[d] = decOwed[d] \ {s}
        /\ busy' \subseteq busy
    BY <1>3 DEF Pass, Sleep, Quiesce, Dec!Quiesce, Runs
  <2>3. phase # "block" => \A t \in parked :
            outstanding > 1 \/ \E d \in decs : t \in decOwed'[d]
    BY <2>1 DEF BarrierInv, TypeOK
  <2> QED
    BY <1>1, <2>1, <2>3 DEF BarrierInv, Issued, WillIssue, Written
<1>4. CASE Park(s)
  <2>1. /\ phase = "block" /\ parked' = parked \cup {s}
        /\ UNCHANGED <<ibar, busy>>
    BY <1>4 DEF Park
  <2> QED
    BY <1>1, <2>1 DEF BarrierInv, Issued, WillIssue, Written
<1>5. ASSUME ibar' = [ibar EXCEPT ![s] = Written]
      PROVE  /\ \A t \in Scheduler : ibar'[t] <= Written'
             /\ phase = "barrier" => \A t \in Scheduler \ pending : ibar'[t] = loads
             /\ \A ix \in Ix \ {staging} : Issued(s, ix)'
             /\ \A t \in Scheduler \ {s}, ix \in Ix : Issued(t, ix) => Issued(t, ix)'
  <2>1. /\ ibar'[s] = Written
        /\ \A t \in Scheduler \ {s} : ibar'[t] = ibar[t]
    BY <1>5 DEF TypeOK
  <2>2. \A t \in Scheduler : ibar'[t] <= Written
    BY <2>1, WrittenFacts, SMTT(30) DEF BarrierInv
  <2>3. Written' = Written
    BY <1>1 DEF Written
  <2>4. \A ix \in Ix \ {staging} : Issued(s, ix)'
    BY <1>1, <2>1, WrittenFacts, SMTT(30) DEF Issued, TypeOK
  <2>5. phase = "barrier" => \A t \in Scheduler \ pending : ibar'[t] = loads
    BY <2>1, WrittenFacts DEF BarrierInv
  <2>6. \A t \in Scheduler \ {s}, ix \in Ix : Issued(t, ix) => Issued(t, ix)'
    BY <1>1, <2>1 DEF Issued
  <2> QED
    BY <2>2, <2>3, <2>4, <2>5, <2>6
<1>6. CASE Wake(s)
  <2>1. /\ s \notin parked /\ s \notin busy /\ busy' = busy \cup {s}
        /\ decOwed' = decOwed
    BY <1>6 DEF Wake, Commit!Enter, Dec!Enter, IndexInv
  <2>2. CASE phase = "block"
    <3>1. parked' = parked \cup {s} /\ ibar' = ibar
      BY <1>6, <2>2 DEF Wake
    <3> QED
      BY <1>1, <2>1, <2>2, <3>1 DEF BarrierInv, Issued, WillIssue, Written
  <2>3. CASE phase # "block"
    <3>1. parked' = parked /\ FinalizeWait(s)
      BY <1>6, <2>3 DEF Wake
    <3>2. CASE outstanding = 0
      <4>1. ibar' = ibar /\ ~(outstanding > 0)
        BY <3>1, <3>2, SMTT(30) DEF FinalizeWait
      <4> QED
        BY <1>1, <2>1, <3>1, <4>1 DEF BarrierInv, Issued, WillIssue, Written
    <3>3. CASE outstanding # 0
      <4>1. ibar' = [ibar EXCEPT ![s] = Written]
        BY <3>1, <3>3 DEF FinalizeWait
      <4> QED
        BY <1>1, <1>5, <2>1, <3>1, <4>1 DEF BarrierInv, WillIssue
    <3> QED
      BY <3>2, <3>3
  <2> QED
    BY <2>2, <2>3
<1>7. CASE Unpark(s)
  <2>1. /\ phase # "block" /\ s \in parked /\ parked' = parked \ {s}
        /\ UNCHANGED <<busy, decOwed>> /\ FinalizeWait(s)
    BY <1>7 DEF Unpark, opVars
  <2>2. outstanding # 0
    BY <2>1, SMTT(30) DEF BarrierInv, DecInv, TypeOK
  <2>3. ibar' = [ibar EXCEPT ![s] = Written]
    BY <2>1, <2>2 DEF FinalizeWait
  <2> QED
    BY <1>1, <1>5, <2>1, <2>3 DEF BarrierInv, WillIssue
<1> QED
  BY <1>2, <1>3, <1>4, <1>6, <1>7

\* Code is committed only when every scheduler has issued its barrier, or is
\* parked and will, or sleeps and will if it wakes in time (staging_epilogue, issue_instruction_barrier).
LEMMA BarrierLoader ==
    ASSUME TypeOK, IndexInv, LoadInv, CommitInv, BarrierInv, DecInv, NEW s \in Scheduler,
           \/ (\E b \in Blocking : StartStaging(s, b)) \/ AbortStaging(s)
           \/ EndStaging(s) \/ CodeBarrier(s) \/ CommitCodeIx(s)
           \/ Block(s) \/ BlockingCommit(s) \/ Decrement(s)
    PROVE  BarrierInv'
<1> USE ZenonT(30)
<1>1. ASSUME NEW b \in Blocking, StartStaging(s, b) PROVE BarrierInv'
  <2>1. /\ phase = "idle" /\ phase' = "staging" /\ loads' = loads + 1
        /\ UNCHANGED <<staging, blocked, outstanding, ibar, missed, parked, busy, decs, decOwed>>
    BY <1>1 DEF StartStaging, opVars
  <2>2. \A ix \in Ix \ {staging} : tab'[ix] = tab[ix]
    BY <1>1 DEF StartStaging, TypeOK
  <2>3. Written' = Written
    BY <2>1, SMTT(30) DEF Written, TypeOK
  <2> QED
    BY <2>1, <2>2, <2>3 DEF BarrierInv, Issued, WillIssue
<1>2. CASE AbortStaging(s) \/ Block(s)
  <2>1. /\ phase = "staging" /\ phase' \in {"idle", "block"}
        /\ UNCHANGED <<staging, tab, blocked, loads, outstanding, ibar, missed, parked, busy,
                       decs, decOwed>>
    BY <1>2 DEF AbortStaging, Block, codeVars, opVars
  <2>2. \A t \in Scheduler : ibar[t] <= Written'
    <3>1. Written' = loads
      BY <2>1 DEF Written
    <3> QED
      BY <3>1, WrittenFacts, SMTT(30) DEF BarrierInv, TypeOK
  <2> QED
    BY <2>1, <2>2 DEF BarrierInv, Issued, WillIssue
<1>3. ASSUME ibar' = [ibar EXCEPT ![s] = loads], UNCHANGED <<tab, loads, missed>>,
             phase' # "staging"
      PROVE  /\ ibar'[s] = loads /\ \A t \in Scheduler \ {s} : ibar'[t] = ibar[t]
             /\ \A t \in Scheduler : ibar'[t] <= Written'
             /\ \A ix \in Ix : Issued(s, ix)'
             /\ \A t \in Scheduler, ix \in Ix : Issued(t, ix) => Issued(t, ix)'
  <2>1. /\ ibar'[s] = loads
        /\ \A t \in Scheduler \ {s} : ibar'[t] = ibar[t]
    BY <1>3 DEF TypeOK
  <2>2. Written' = loads
    BY <1>3 DEF Written
  <2>3. \A t \in Scheduler : ibar'[t] <= loads
    BY <2>1, WrittenFacts, SMTT(30) DEF TypeOK, BarrierInv
  <2>4. \A ix \in Ix : Issued(s, ix)'
    BY <1>3, <2>1 DEF TypeOK, LoadInv, Issued
  <2> QED
    BY <1>3, <2>1, <2>2, <2>3, <2>4 DEF Issued
<1>4. ASSUME NEW todo, IssueBarrier(s, todo), phase # "block", phase' = "barrier",
             UNCHANGED <<staging, tab, blocked, loads, outstanding, missed, parked, decs, decOwed>>,
             \A t \in Scheduler \ todo : t = s \/ ibar[t] = loads
      PROVE  BarrierInv'
  <2>1. ibar' = [ibar EXCEPT ![s] = loads] /\ pending' = todo /\ busy' = busy
    BY <1>4 DEF IssueBarrier, Commit!Start
  <2>2. \A t \in Scheduler \ todo : ibar'[t] = loads
    BY <1>3, <1>4, <2>1
  <2> QED
    BY <1>3, <1>4, <2>1, <2>2 DEF BarrierInv, WillIssue
<1>5. CASE EndStaging(s)
  BY <1>4, <1>5 DEF EndStaging, codeVars
<1>6. CASE CodeBarrier(s)
  <2>1. \A t \in Scheduler \ (pending \ {s}) : t = s \/ ibar[t] = loads
    BY <1>6 DEF CodeBarrier, BarrierInv
  <2> QED
    BY <1>4, <1>6, <2>1 DEF CodeBarrier, codeVars
<1>7. CASE CommitCodeIx(s)
  <2>1. /\ phase = "barrier" /\ pending = {} /\ phase' = "idle" /\ staging' = Third
        /\ UNCHANGED <<tab, blocked, loads, outstanding, ibar, missed, parked, busy, decs, decOwed>>
    BY <1>7 DEF CommitCodeIx, Commit!Complete, CommitStaging, CommitInv, Third
  <2>2. \A t \in Scheduler, ix \in Ix : Issued(t, ix)
    BY <2>1, SMTT(30) DEF BarrierInv, LoadInv, Issued, TypeOK
  <2>3. \A t \in Scheduler : ibar[t] <= Written'
    <3>1. Written' = loads /\ Written = loads
      BY <2>1 DEF Written
    <3> QED
      BY <3>1 DEF BarrierInv
  <2> QED
    BY <2>1, <2>2, <2>3 DEF BarrierInv, Issued
<1>8. CASE BlockingCommit(s)
  <2>1. /\ phase = "block" /\ phase' = "idle" /\ s \in Using
        /\ busy \ {s} \subseteq parked /\ staging' = Third
        /\ blocked' = blocked \cup {loads} /\ ibar' = [ibar EXCEPT ![s] = loads]
        /\ outstanding' = outstanding + 1 /\ StartDec(s, outstanding + 1)
        /\ UNCHANGED <<tab, loads, missed, parked, busy>>
    BY <1>8 DEF BlockingCommit, CommitStaging, Third, LoadInv
  <2>2. \A t \in Scheduler \ parked, ix \in Ix : Issued(t, ix)' \/ WillIssue(t, ix)'
    <3> SUFFICES ASSUME NEW t \in Scheduler \ parked, NEW ix \in Ix, t # s
                 PROVE  Issued(t, ix)' \/ WillIssue(t, ix)'
      BY <1>3, <2>1
    <3>1. t \notin busy' /\ outstanding' > 0
      BY <2>1, SMTT(30) DEF TypeOK
    <3>2. tab[staging] = loads
      BY <2>1 DEF LoadInv
    <3>3. CASE ix = staging
      BY <2>1, <3>1, <3>2, <3>3 DEF WillIssue
    <3>4. CASE ix # staging
      <4>1. Issued(t, ix) \/ WillIssue(t, ix)
        BY <3>4 DEF BarrierInv
      <4>2. WillIssue(t, ix) => WillIssue(t, ix)'
        BY <2>1, <3>1 DEF WillIssue
      <4> QED
        BY <1>3, <2>1, <4>1, <4>2
    <3> QED
      BY <3>3, <3>4
  <2>3. \A t \in parked : outstanding' > 1 \/ \E d \in decs' : t \in decOwed'[d]
    <3>1. CASE outstanding = 0
      <4>1. s \in decs' /\ decOwed'[s] = busy
        BY <2>1, <3>1, SMTT(30) DEF StartDec, Dec!Start, TypeOK
      <4> QED
        BY <4>1 DEF IndexInv
    <3>2. CASE outstanding # 0
      BY <2>1, <3>2, SMTT(30) DEF TypeOK
    <3> QED
      BY <3>1, <3>2
  <2> QED
    BY <1>3, <2>1, <2>2, <2>3 DEF BarrierInv
<1>9. CASE Decrement(s)
  <2>1. /\ UNCHANGED <<staging, tab, blocked, loads, phase, pending, ibar, parked, busy>>
        /\ s \in decs /\ decOwed[s] = {}
        /\ outstanding > 1 => outstanding' = 1 /\ missed' = missed
        /\ ~(outstanding > 1) => Miss
    BY <1>9 DEF Decrement, Dec!Complete, codeVars, loadVars
  <2>2. phase # "block" => \A t \in parked :
            outstanding' > 1 \/ \E d \in decs' : t \in decOwed'[d]
    <3>1. CASE outstanding > 1
      <4>1. decs' = decs /\ decOwed'[s] = busy
        BY <1>9, <3>1 DEF Decrement, TypeOK
      <4> QED
        BY <2>1, <4>1 DEF IndexInv
    <3>2. CASE ~(outstanding > 1)
      BY <2>1, <3>2 DEF BarrierInv, DecInv
    <3> QED
      BY <3>1, <3>2
  <2>3. \A t \in Scheduler : missed'[t] \subseteq blocked
    BY <2>1 DEF BarrierInv, Miss
  <2>4. \A t \in Scheduler \ parked, ix \in Ix \ {staging} :
            Issued(t, ix)' \/ WillIssue(t, ix)'
    <3>1. CASE outstanding > 1
      <4>1. outstanding' > 0
        BY <2>1, <3>1, SMTT(30)
      <4> QED
        BY <2>1, <3>1, <4>1 DEF BarrierInv, Issued, WillIssue
    <3>2. CASE ~(outstanding > 1)
      <4> SUFFICES ASSUME NEW t \in Scheduler \ parked, NEW ix \in Ix \ {staging}
                   PROVE  Issued(t, ix)'
        OBVIOUS
      <4>1. Miss /\ ibar[t] \in Nat /\ tab[ix] \in Nat
        BY <2>1, <3>2 DEF TypeOK
      <4>2. CASE t \in busy
        <5>1. missed'[t] = missed[t] /\ Issued(t, ix)
          BY <4>1, <4>2 DEF Miss, BarrierInv, WillIssue
        <5> QED
          BY <2>1, <5>1 DEF Issued
      <4>3. CASE t \notin busy
        <5>1. missed'[t] = {l \in blocked : ibar[t] < l}
          BY <4>1, <4>3 DEF Miss
        <5>2. tab[ix] \in blocked \/ ibar[t] >= tab[ix]
          BY DEF BarrierInv, Issued, WillIssue
        <5>3. ibar[t] < tab[ix] \/ ibar[t] >= tab[ix]
          BY <4>1, SMTT(30)
        <5> QED
          BY <2>1, <5>1, <5>2, <5>3 DEF Issued
      <4> QED
        BY <4>2, <4>3
    <3> QED
      BY <3>1, <3>2
  <2>5. Written' = Written
    BY <2>1 DEF Written
  <2> QED
    BY <2>1, <2>2, <2>3, <2>4, <2>5 DEF BarrierInv
<1> QED
  BY <1>1, <1>2, <1>5, <1>6, <1>7, <1>8, <1>9

-----------------------------------------------------------------------------
(* The theorems                                                            *)

\* TypeOK and IndInv hold of code_ix.c as it is initialised.
LEMMA InitIndInv == Init => TypeOK /\ IndInv
<1> USE ZenonT(30)
<1> SUFFICES ASSUME Init PROVE TypeOK /\ IndInv
  OBVIOUS
<1> USE CodeIxAssumption
<1>1. 0 \in Ix /\ 1 \in Ix /\ NextIx(0) = 1
  BY SMTT(30) DEF Ix, NumCodeIx, NextIx
<1>2. TypeOK
  BY <1>1 DEF Init, Commit!Init, Dec!Init, TypeOK
<1>3. IndexInv
  BY <1>1, SMTT(30) DEF Init, IndexInv, Using
<1>4. LoadInv /\ DecInv
  BY <1>1, SMTT(30) DEF Init, Commit!Init, Dec!Init, LoadInv, DecInv
<1>5. CommitInv
  BY DEF Init, Commit!Init, CommitInv
<1>6. BarrierInv
  BY <1>1, SMTT(30) DEF Init, BarrierInv, Issued, Written
<1> QED
  BY <1>2, <1>3, <1>4, <1>5, <1>6 DEF IndInv

\* They are preserved by every step of schedulers and loaders.
LEMMA NextIndInv == TypeOK /\ IndInv /\ [Next]_vars => TypeOK' /\ IndInv'
<1> USE ZenonT(30)
<1> SUFFICES ASSUME TypeOK, IndInv, [Next]_vars PROVE TypeOK' /\ IndInv'
  OBVIOUS
<1> USE CodeIxAssumption
<1>0. IndexInv /\ LoadInv /\ CommitInv /\ BarrierInv /\ DecInv
  BY DEF IndInv
<1>1. CASE UNCHANGED vars
  <2>1. UNCHANGED <<active, staging, tab, blocked, loads, phase, loader, blocks, pending,
                    outstanding, mem, use, ibar, missed, parked, busy, commits, commitOwed, decs, decOwed>>
    BY <1>1 DEF vars, codeVars, loadVars, opVars
  <2>2. TypeOK'
    BY <2>1 DEF TypeOK
  <2>3. IndexInv' /\ LoadInv' /\ CommitInv'
    BY <1>0, <2>1, SMTT(30) DEF IndexInv, LoadInv, CommitInv, Using, Third
  <2>4. BarrierInv' /\ DecInv'
    BY <1>0, <2>1 DEF BarrierInv, DecInv, Issued, WillIssue, Written
  <2> QED
    BY <2>2, <2>3, <2>4 DEF IndInv
<1>2. CASE Next
  <2>1. DecInv'
    BY <1>0, <1>2, DecStep
  <2>2. PICK s \in Scheduler :
            \/ Step(s) \/ Read(s) \/ Sleep(s) \/ Wake(s) \/ SeeActive(s)
            \/ \E ix \in Ix : SeeTable(s, ix)
            \/ \E b \in Blocking : StartStaging(s, b)
    BY <1>2 DEF Next
  <2>3. CASE \/ Read(s) \/ SeeActive(s) \/ (\E ix \in Ix : SeeTable(s, ix))
             \/ Pass(s) \/ Sleep(s) \/ Wake(s) \/ Park(s) \/ Unpark(s)
    <3>1. TypeOK' /\ IndexInv' /\ LoadInv' /\ CommitInv' /\ BarrierInv'
      BY <1>0, <2>3, TypeScheduler, IndexScheduler, LoadScheduler, CommitScheduler,
         BarrierScheduler
    <3> QED
      BY <2>1, <3>1 DEF IndInv
  <2>4. CASE \/ (\E b \in Blocking : StartStaging(s, b)) \/ AbortStaging(s)
             \/ EndStaging(s) \/ CodeBarrier(s) \/ CommitCodeIx(s)
             \/ Block(s) \/ BlockingCommit(s) \/ Decrement(s)
    <3>1. TypeOK' /\ IndexInv' /\ LoadInv' /\ CommitInv' /\ BarrierInv'
      BY <1>0, <2>4, TypeLoader, IndexLoader, LoadLoader, CommitLoader, BarrierLoader
    <3> QED
      BY <2>1, <3>1 DEF IndInv
  <2> QED
    BY <2>2, <2>3, <2>4 DEF Step
<1> QED
  BY <1>1, <1>2

\* The invariant of code_ix.c: what is known of the three sets of tables, the
\* load in progress and the barriers, in every state.
THEOREM CodeIxInvariant == Spec => [](TypeOK /\ IndInv)
  BY InitIndInv, NextIndInv, PTL DEF Spec

\* The indices stay within the three sets of tables, and the count that
\* decrement_blocking_code_barriers brings down never falls below zero.
THEOREM CodeIxTypes == Spec => []TypeOK
  BY CodeIxInvariant, PTL

\* No scheduler uses the staging tables while they are changed, however long
\* ago it read the active index (erts_active_code_ix without a lock).
THEOREM NobodyUsesStaging == Spec => []StagingUnused
<1> USE ZenonT(30)
<1>1. TypeOK /\ IndInv => StagingUnused
  <2>1. NONE \notin Ix
    BY CodeIxAssumption, SMTT(30) DEF Ix, NumCodeIx
  <2> QED
    BY <2>1 DEF IndInv, IndexInv, StagingUnused, TypeOK
<1> QED
  BY <1>1, CodeIxInvariant, PTL

\* What a scheduler finds through the active index is what the load wrote,
\* although the reader executes no memory barrier.
THEOREM TablesSeenInFull == Spec => []UsesComplete
<1> USE ZenonT(30)
<1>1. TypeOK /\ IndInv => UsesComplete
  BY DEF IndInv, IndexInv, UsesComplete, TypeOK
<1> QED
  BY <1>1, CodeIxInvariant, PTL

\* A scheduler uses no code for which it has not issued an instruction barrier,
\* except when it slept until the blocking barrier for it had ended
\* (erts_code_ix_finalize_wait finds the count at zero).
THEOREM BarrierBeforeUse == Spec => []BarrierIssued
<1> USE ZenonT(30)
<1>1. TypeOK /\ IndInv => BarrierIssued
  BY DEF IndInv, IndexInv, BarrierInv, Issued, WillIssue, Using, BarrierIssued, TypeOK
<1> QED
  BY <1>1, CodeIxInvariant, PTL

\* The global record of the operation that ends blocking barriers is in the
\* queue of later operations at most once, and is there while it is needed.
THEOREM DecrementScheduledOnce == Spec => []DecScheduledOnce
<1> USE ZenonT(30)
<1>1. TypeOK /\ IndInv => DecScheduledOnce
  <2> SUFFICES ASSUME IndInv PROVE DecScheduledOnce
    OBVIOUS
  <2>1. decs = {} \/ \E d : decs = {d}
    BY SMTT(30) DEF IndInv, DecInv
  <2>2. Cardinality(decs) <= 1
    <3>1. Cardinality({}) = 0
      BY FS_EmptySet
    <3>2. \A d : Cardinality({d}) = 1
      BY FS_Singleton
    <3>3. Cardinality(decs) = 0 \/ Cardinality(decs) = 1
      BY <2>1, <3>1, <3>2, Zenon
    <3> QED
      BY <3>3, SMTT(30)
  <2> QED
    BY <2>2 DEF IndInv, DecInv, DecScheduledOnce
<1> QED
  BY <1>1, CodeIxInvariant, PTL
=============================================================================
