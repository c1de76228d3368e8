------------------------ MODULE CodePermissionProofs ------------------------
(***************************************************************************)
(* Proofs about CodePermission, for any number of processes and aux jobs:  *)
(* PermInv is inductive, and the safety properties follow from it.         *)
(***************************************************************************)
EXTENDS CodePermission, TLAPS

\* What is left of a queue when its first i entries are taken off, as
\* release_code_permission does.
LEMMA Suffix ==
    ASSUME NEW S, NEW q \in Seq(S), NEW i \in 1 .. Len(q) + 1,
           NEW r, r = SubSeq(q, i + 1, Len(q))
    PROVE  /\ r \in Seq(S)
           /\ Len(r) \in Nat
           /\ \A j \in 1 .. Len(r) : j + i \in 1 .. Len(q) /\ r[j] = q[j + i]
           /\ \A j \in 1 .. Len(q) : j > i => j - i \in 1 .. Len(r) /\ r[j - i] = q[j]
  BY SMTT(30)

\* try_seize_code_permission appends to a queue.
LEMMA Appended ==
    ASSUME NEW S, NEW q \in Seq(S), NEW e \in S, NEW r, r = Append(q, e)
    PROVE  /\ r \in Seq(S)
           /\ Len(q) \in Nat /\ Len(r) = Len(q) + 1
           /\ r[Len(q) + 1] = e
           /\ \A j \in 1 .. Len(q) : r[j] = q[j]
  BY SMTT(30)

-----------------------------------------------------------------------------
(* What release_code_permission does, with the queues seen as sets.        *)

\* next gets permission k (NONE: it is free), gone leave the queue.
HandOver(k, pc1, next, gone) ==
    /\ owner' = [owner EXCEPT ![k] = next]
    /\ queue' \in [Kind -> Seq(Actor)]
    /\ \A i, j \in 1 .. Len(queue'[k]) : queue'[k][i] = queue'[k][j] => i = j
    /\ \A m \in Kind \ {k} : queue'[m] = queue[m]
    /\ \A a \in Actor : InQueue(a, k)' <=> InQueue(a, k) /\ a \notin gone
    /\ \A a \in gone : a \in Actor /\ InQueue(a, k)
    /\ \A a \in gone \cap Aux : a = next
    /\ next = NONE => \A a \in Actor : ~InQueue(a, k)'
    /\ next # NONE => next \in gone /\ Eligible(next)
    /\ flag' = [p \in Proc |-> IF p = next THEN flag[p] \cup {k} ELSE flag[p]]
    /\ susp' = [p \in Proc |-> susp[p] /\ (exiting[p] \/ p \notin gone)]
    /\ pc' = [a \in Actor |-> IF a \in Aux /\ a = next THEN "scheduled" ELSE pc1[a]]

\* Everybody up to the first eligible entry leaves the queue, no aux job is
\* passed over, and if nobody is eligible the queue is empty afterwards.
LEMMA Released ==
    ASSUME TypeOK, QueueInv, ActorAssumption, NEW k \in Kind, NEW pc1, Release(k, pc1)
    PROVE  \E next, gone : HandOver(k, pc1, next, gone)
<1> USE ZenonT(30)
<1> DEFINE q == queue[k]
           Next1(i) == IF i <= Len(q) THEN q[i] ELSE NONE
           Gone(i) == {q[j] : j \in {j \in 1 .. Len(q) : j <= i}}
<1>0. q \in Seq(Actor) /\ Len(q) \in Nat /\ \A j \in 1 .. Len(q) : q[j] \in Actor
  BY SMTT(30) DEF TypeOK
<1>1. PICK i \in 1 .. Len(q) + 1 :
          /\ \A j \in 1 .. i - 1 : ~Eligible(q[j])
          /\ Next1(i) # NONE => Eligible(Next1(i))
          /\ owner' = [owner EXCEPT ![k] = Next1(i)]
          /\ queue' = [queue EXCEPT ![k] = SubSeq(q, i + 1, Len(q))]
          /\ flag' = [p \in Proc |-> IF p = Next1(i) THEN flag[p] \cup {k} ELSE flag[p]]
          /\ susp' = [p \in Proc |->
                 /\ susp[p]
                 /\ exiting[p] \/ \A j \in 1 .. Len(q) : j <= i => q[j] # p]
          /\ pc' = [a \in Actor |-> IF a \in Aux /\ a = Next1(i) THEN "scheduled" ELSE pc1[a]]
  BY DEF Release
<1> DEFINE r == SubSeq(q, i + 1, Len(q))
<1>a. r = SubSeq(q, i + 1, Len(q))
  OBVIOUS
<1> HIDE DEF r
<1>2. /\ r \in Seq(Actor) /\ Len(r) \in Nat
      /\ \A j \in 1 .. Len(r) : j + i \in 1 .. Len(q) /\ r[j] = q[j + i]
      /\ \A j \in 1 .. Len(q) : j > i => j - i \in 1 .. Len(r) /\ r[j - i] = q[j]
  <2> HIDE DEF q
  <2> QED
    BY <1>0, <1>a, Suffix, SMTT(30)
<1>3. queue'[k] = r /\ \A m \in Kind \ {k} : queue'[m] = queue[m]
  BY <1>1, <1>a DEF TypeOK
<1>4. queue' \in [Kind -> Seq(Actor)]
  BY <1>1, <1>2, <1>a DEF TypeOK
<1>5. \A m, n \in 1 .. Len(q) : q[m] = q[n] => m = n
  BY DEF QueueInv
<1>6. \A m, n \in 1 .. Len(queue'[k]) : queue'[k][m] = queue'[k][n] => m = n
  <2> SUFFICES ASSUME NEW m \in 1 .. Len(r), NEW n \in 1 .. Len(r), r[m] = r[n] PROVE m = n
    BY <1>3
  <2>1. /\ m + i \in 1 .. Len(q) /\ n + i \in 1 .. Len(q)
        /\ q[m + i] = q[n + i]
    BY <1>2
  <2>2. m + i = n + i
    BY <1>5, <2>1
  <2> QED
    BY <1>2, <2>2, SMTT(30)
<1>7. \A a \in Actor : InQueue(a, k)' <=> InQueue(a, k) /\ a \notin Gone(i)
  <2> SUFFICES ASSUME NEW a \in Actor
               PROVE  (\E j \in 1 .. Len(r) : r[j] = a) <=> InQueue(a, k) /\ a \notin Gone(i)
    BY <1>3 DEF InQueue
  <2>1. ASSUME NEW j \in 1 .. Len(r), r[j] = a PROVE InQueue(a, k) /\ a \notin Gone(i)
    <3>1. j + i \in 1 .. Len(q) /\ q[j + i] = a /\ j + i > i
      BY <1>0, <1>2, <2>1, SMTT(30)
    <3>2. ASSUME NEW n \in 1 .. Len(q), n <= i PROVE q[n] # a
      BY <1>0, <1>5, <3>1, <3>2, SMTT(30)
    <3> QED
      BY <3>1, <3>2 DEF InQueue
  <2>2. ASSUME InQueue(a, k), a \notin Gone(i) PROVE \E j \in 1 .. Len(r) : r[j] = a
    <3>1. PICK n \in 1 .. Len(q) : q[n] = a
      BY <2>2 DEF InQueue
    <3>2. n > i
      BY <1>0, <2>2, <3>1, SMTT(30)
    <3> QED
      BY <1>2, <3>1, <3>2
  <2> QED
    BY <2>1, <2>2
<1>8. \A a \in Gone(i) : a \in Actor /\ InQueue(a, k)
  BY <1>0 DEF InQueue
<1>9. \A a \in Gone(i) \cap Aux : a = Next1(i)
  <2> SUFFICES ASSUME NEW j \in 1 .. Len(q), j <= i, q[j] \in Aux PROVE q[j] = Next1(i)
    OBVIOUS
  <2>1. Eligible(q[j])
    BY DEF Eligible
  <2>2. j \notin 1 .. i - 1
    BY <1>1, <2>1
  <2>3. j = i /\ i <= Len(q)
    BY <1>0, <2>2, SMTT(30)
  <2> QED
    BY <2>3
<1>10. Next1(i) = NONE => \A a \in Actor : ~InQueue(a, k)'
  BY <1>0, <1>2, <1>3, ActorAssumption, SMTT(30) DEF InQueue
<1>11. Next1(i) # NONE => Next1(i) \in Gone(i)
  BY <1>0, SMTT(30)
<1>12. susp' = [p \in Proc |-> susp[p] /\ (exiting[p] \/ p \notin Gone(i))]
  BY <1>1
<1>13. HandOver(k, pc1, Next1(i), Gone(i))
  BY <1>1, <1>3, <1>4, <1>6, <1>7, <1>8, <1>9, <1>10, <1>11, <1>12 DEF HandOver
<1> QED
  BY <1>13

-----------------------------------------------------------------------------
(* PermInv with the state of one process as parameters                     *)

ClearPc(k) == IF k = "mod" THEN "clearMod" ELSE "clearStage"

\* A process at l, with want w and kept kp, was told that it has k.
HasAt(k, l, w, kp) ==
    \/ k = "mod" /\ l = "holds" /\ w \in {"mod", "load"}
    \/ k = "stage" /\ l = "holds" /\ w \in {"stage", "load"}
    \/ k = "stage" /\ l \in {"tryMod", "backout", "releaseStage"}
    \/ k = "stage" /\ kp

\* CallerInv for process p at l, with flags f, want w, exiting x, kept kp
CallerOK(p, l, f, w, x, kp) ==
    /\ "stage" \in f => w \in {"stage", "load"} /\ l \in {"wait", "try"} \cup RejectPc
    /\ "mod" \in f => /\ w \in {"mod", "load"}
                      /\ l \in {"wait", "try", "tryMod", "backout"} \cup RejectPc
    /\ l \in {"tryMod", "backout"} => w = "load"
    /\ kp => /\ p \in Purger
             /\ l \notin {"idle", "dead", "tryMod", "backout"}
             /\ l \notin {"purging", "releaseStage"} => w = "mod"
    /\ p \in Purger => w # "load" /\ ~x
    /\ x => l \in RejectPc \cup {"dead"}
    /\ l = "dead" => x

\* CallerInv is CallerOK of every process.
LEMMA CallerInvIs ==
    CallerInv <=> \A p \in Proc : CallerOK(p, pc[p], flag[p], want[p], exiting[p], kept[p])
  BY Zenon DEF CallerInv, CallerOK

\* Has is HasAt for processes.
LEMMA HasIs ==
    ASSUME ActorAssumption, NEW p \in Proc, NEW k
    PROVE  Has(p, k) <=> HasAt(k, pc[p], want[p], kept[p])
  BY Zenon DEF Has, HasAt, ActorAssumption

-----------------------------------------------------------------------------
(* A release preserves PermInv.                                            *)

\* The queues after r has released k and gone to l: whoever left the queue was
\* resumed or handed the permission (release_code_permission).
LEMMA ReleaseQueue ==
    ASSUME TypeOK, PermInv, ActorAssumption, NEW r \in Actor, NEW k \in Kind, NEW l,
           NEW next, NEW gone, HandOver(k, [pc EXCEPT ![r] = l], next, gone),
           UNCHANGED <<exiting, want>>, owner[k] = r,
           r \in Aux => pc[r] # "wait" /\ l # "wait",
           r \in Proc => l # "backout" /\ (susp[r] => l \in WaitPc)
    PROVE  QueueInv'
<1> USE ZenonT(30)
<1>0. QueueInv
  BY DEF PermInv
<1>a. /\ \A a \in Actor : InQueue(a, k)' <=> InQueue(a, k) /\ a \notin gone
      /\ \A m \in Kind \ {k} : queue'[m] = queue[m]
  BY DEF HandOver
<1>b. \A a \in Actor, m \in Kind \ {k} : InQueue(a, m)' <=> InQueue(a, m)
  BY <1>a DEF InQueue
<1>1. \A a \in Actor, m \in Kind : InQueue(a, m)' => InQueue(a, m)
  BY <1>a, <1>b
<1>2. \A a \in Actor, m \in Kind : InQueue(a, m) => InQueue(a, m)' \/ (m = k /\ a \in gone)
  BY <1>a, <1>b
<1>3. \A a \in gone : InQueue(a, k) /\ a \in Actor /\ \A m \in Kind : ~InQueue(a, m)'
  <2> SUFFICES ASSUME NEW a \in gone
               PROVE  InQueue(a, k) /\ a \in Actor /\ \A m \in Kind : ~InQueue(a, m)'
    OBVIOUS
  <2>1. InQueue(a, k) /\ a \in Actor /\ ~InQueue(a, k)'
    BY DEF HandOver
  <2>2. \A m \in Kind \ {k} : ~InQueue(a, m)
    BY <1>0, <2>1, SMTT(30) DEF QueueInv, Kind
  <2> QED
    BY <1>1, <2>1, <2>2
<1>4. /\ owner'[k] = next
      /\ \A m \in Kind \ {k} : owner'[m] = owner[m]
  BY DEF HandOver, TypeOK
<1>5. ~InQueue(r, k)
  BY <1>0 DEF QueueInv
<1>6. /\ \A p \in Proc : pc'[p] = IF p = r THEN l ELSE pc[p]
      /\ \A a \in Aux : pc'[a] = IF a = next THEN "scheduled" ELSE IF a = r THEN l ELSE pc[a]
  BY ActorAssumption DEF HandOver, TypeOK, Actor
<1>7. \A p \in Proc : susp'[p] <=> susp[p] /\ (exiting[p] \/ p \notin gone)
  BY DEF HandOver
<1>8. \A p \in Proc : flag'[p] = IF p = next THEN flag[p] \cup {k} ELSE flag[p]
  BY DEF HandOver
<1>9. next # NONE => next \in gone
  BY DEF HandOver
<1>10. \A m \in Kind : \A i, j \in 1 .. Len(queue'[m]) : queue'[m][i] = queue'[m][j] => i = j
  BY <1>0 DEF HandOver, QueueInv
<1>11. \A a \in Actor : ~(InQueue(a, "stage")' /\ InQueue(a, "mod")')
  BY <1>0, <1>1 DEF QueueInv, Kind
<1>12. \A a \in Actor, m \in Kind : InQueue(a, m)' => owner'[m] \notin {NONE, a}
  <2> SUFFICES ASSUME NEW a \in Actor, NEW m \in Kind, InQueue(a, m)'
               PROVE  owner'[m] \notin {NONE, a}
    OBVIOUS
  <2>1. CASE m = k
    <3>1. next # NONE
      BY <2>1 DEF HandOver
    <3> QED
      BY <1>3, <1>4, <1>9, <2>1, <3>1
  <2>2. CASE m # k
    BY <1>0, <1>1, <1>4, <2>2 DEF QueueInv
  <2> QED
    BY <2>1, <2>2
<1>13. \A a \in Aux, m \in Kind : InQueue(a, m)' => m = "mod" /\ pc'[a] = "wait"
  <2> SUFFICES ASSUME NEW a \in Aux, NEW m \in Kind, InQueue(a, m)'
               PROVE  m = "mod" /\ pc'[a] = "wait"
    OBVIOUS
  <2>1. a \in Actor /\ a # NONE
    BY ActorAssumption DEF Actor
  <2>2. InQueue(a, m) /\ m = "mod" /\ pc[a] = "wait"
    BY <1>0, <1>1, <2>1 DEF QueueInv
  <2>3. a # next /\ a # r
    BY <1>3, <1>9, <2>1, <2>2
  <2> QED
    BY <1>6, <2>2, <2>3
<1>14. Proc \subseteq Actor
  BY DEF Actor
<1>15. \A p \in Proc, m \in Kind : InQueue(p, m)' => susp'[p] /\ want'[p] \in {m, "load"}
  BY <1>0, <1>1, <1>3, <1>7, <1>14 DEF QueueInv
<1>16. \A p \in Proc : InQueue(p, "stage")' => pc'[p] # "backout"
  BY <1>0, <1>1, <1>6, <1>14 DEF QueueInv, Kind
<1>17. \A p \in Proc : InQueue(p, "mod")' => "stage" \notin flag'[p]
  <2> SUFFICES ASSUME NEW p \in Proc, InQueue(p, "mod")' PROVE "stage" \notin flag'[p]
    OBVIOUS
  <2>1. InQueue(p, "mod") /\ "stage" \notin flag[p]
    BY <1>0, <1>1, <1>14 DEF QueueInv, Kind
  <2>2. p # next
    BY <1>3, <1>9, <1>14, ActorAssumption DEF Kind
  <2> QED
    BY <1>8, <2>1, <2>2
<1>18. \A p \in Proc : susp'[p] => pc'[p] \in WaitPc \cup {"backout"}
  BY <1>0, <1>6, <1>7, SMTT(30) DEF QueueInv
<1>19. \A a \in Actor : Waiting(a)' => \E m \in Kind : InQueue(a, m)'
  <2> SUFFICES ASSUME NEW a \in Actor, Waiting(a)' PROVE \E m \in Kind : InQueue(a, m)'
    OBVIOUS
  <2>1. CASE a \in Aux
    <3>1. pc'[a] = "wait"
      BY <2>1 DEF Waiting
    <3>2. a # next /\ pc[a] = "wait"
      BY <1>6, <2>1, <3>1
    <3>3. a \notin gone
      BY <2>1, <3>2 DEF HandOver
    <3>4. \E m \in Kind : InQueue(a, m)
      BY <1>0, <2>1, <3>2 DEF QueueInv, Waiting
    <3> QED
      BY <1>2, <3>3, <3>4
  <2>2. CASE a \notin Aux
    <3>1. a \in Proc /\ susp'[a] /\ ~exiting[a]
      BY <2>2 DEF Waiting, Actor
    <3>2. susp[a] /\ a \notin gone
      BY <1>7, <3>1
    <3>3. \E m \in Kind : InQueue(a, m)
      BY <1>0, <2>2, <3>1, <3>2 DEF QueueInv, Waiting
    <3> QED
      BY <1>2, <3>2, <3>3
  <2> QED
    BY <2>1, <2>2
<1> QED
  BY <1>10, <1>11, <1>12, <1>13, <1>15, <1>16, <1>17, <1>18, <1>19 DEF QueueInv

\* Who is next was waiting, outside garbage collection and exit, and has not
\* been handed k before (the compare-and-swap in release_code_permission).
LEMMA NextFacts ==
    ASSUME TypeOK, PermInv, ActorAssumption, NEW r \in Actor, NEW k \in Kind, NEW pc1,
           NEW next, NEW gone, HandOver(k, pc1, next, gone), owner[k] = r, next # NONE
    PROVE  /\ next \in Actor /\ next # r /\ InQueue(next, k)
           /\ next \in Aux => k = "mod" /\ pc[next] = "wait"
           /\ next \in Proc => /\ pc[next] = "wait" \/ (pc[next] = "backout" /\ k = "mod")
                               /\ want[next] \in {k, "load"} /\ ~exiting[next]
<1> USE ZenonT(30)
<1>1. next \in Actor /\ InQueue(next, k) /\ Eligible(next)
  BY DEF HandOver
<1>2. next # r
  BY <1>1 DEF PermInv, QueueInv
<1>3. next \in Aux => k = "mod" /\ pc[next] = "wait"
  BY <1>1 DEF PermInv, QueueInv
<1>4. ASSUME next \in Proc
      PROVE  /\ pc[next] = "wait" \/ (pc[next] = "backout" /\ k = "mod")
             /\ want[next] \in {k, "load"} /\ ~exiting[next]
  <2>1. ~exiting[next] /\ pc[next] \notin RejectPc \cup {"gc"}
    BY <1>1, <1>4, ActorAssumption DEF Eligible
  <2>2. susp[next] /\ want[next] \in {k, "load"}
    BY <1>1, <1>4 DEF PermInv, QueueInv
  <2>3. pc[next] \in WaitPc \cup {"backout"}
    BY <1>4, <2>2 DEF PermInv, QueueInv
  <2>4. pc[next] # "dead"
    BY <1>4, <2>1 DEF PermInv, CallerInv
  <2>5. k = "stage" => pc[next] # "backout"
    BY <1>1, <1>4 DEF PermInv, QueueInv
  <2> QED
    BY <2>1, <2>2, <2>3, <2>4, <2>5 DEF WaitPc, Kind
<1> QED
  BY <1>1, <1>2, <1>3, <1>4

\* What a release leaves of actors other than the releaser.
LEMMA ReleaseFrame ==
    ASSUME TypeOK, PermInv, ActorAssumption, NEW r \in Actor, NEW k \in Kind, NEW l,
           NEW next, NEW gone, HandOver(k, [pc EXCEPT ![r] = l], next, gone), owner[k] = r
    PROVE  /\ owner'[k] = next /\ \A m \in Kind \ {k} : owner'[m] = owner[m]
           /\ \A p \in Proc \ {r} : pc'[p] = pc[p]
           /\ \A a \in Aux \ {r} : pc'[a] = pc[a] \/ (a = next /\ pc'[a] = "scheduled")
           /\ pc'[r] = l
           /\ r \in Proc => flag'[r] = flag[r]
           /\ \A p \in Proc : p # next => flag'[p] = flag[p]
           /\ next \in Proc => flag'[next] = flag[next] \cup {k}
           /\ next \in Aux => pc'[next] = "scheduled"
<1> USE ZenonT(30)
<1>1. r # next
  BY NextFacts, ActorAssumption, SMTT(30)
<1>2. owner'[k] = next /\ \A m \in Kind \ {k} : owner'[m] = owner[m]
  BY DEF HandOver, TypeOK
<1>3. /\ \A p \in Proc : pc'[p] = IF p = r THEN l ELSE pc[p]
      /\ \A a \in Aux : pc'[a] = IF a = next THEN "scheduled" ELSE IF a = r THEN l ELSE pc[a]
  BY ActorAssumption DEF HandOver, TypeOK, Actor
<1>4. \A p \in Proc : flag'[p] = IF p = next THEN flag[p] \cup {k} ELSE flag[p]
  BY DEF HandOver
<1>5. pc'[r] = l
  BY <1>1, <1>3 DEF Actor
<1> QED
  BY <1>1, <1>2, <1>3, <1>4, <1>5

\* The owners after process r has released k.
LEMMA ReleaseOwner ==
    ASSUME TypeOK, PermInv, ActorAssumption, NEW r \in Proc, NEW k \in Kind, NEW l,
           NEW next, NEW gone, HandOver(k, [pc EXCEPT ![r] = l], next, gone),
           \A p \in Proc \ {r} : kept'[p] = kept[p], UNCHANGED want, owner[k] = r,
           ~HasAt(k, l, want[r], kept'[r]),
           \A m \in Kind \ {k} : HasAt(m, l, want[r], kept'[r]) <=> Has(r, m),
           k \in flag[r] => l = ClearPc(k),
           \A m \in Kind \ {k} : l # ClearPc(m),
           \A m \in Kind : pc[r] # ClearPc(m),
           l # "dead"
    PROVE  OwnerInv'
<1> USE ZenonT(30)
<1>0. r \in Actor /\ Proc \subseteq Actor /\ Aux \subseteq Actor /\ NONE \notin Actor /\ Proc \cap Aux = {}
  BY ActorAssumption DEF Actor
<1>1. /\ owner'[k] = next /\ \A m \in Kind \ {k} : owner'[m] = owner[m]
      /\ \A p \in Proc \ {r} : pc'[p] = pc[p]
      /\ \A a \in Aux : pc'[a] = pc[a] \/ (a = next /\ pc'[a] = "scheduled")
      /\ pc'[r] = l /\ flag'[r] = flag[r]
      /\ \A p \in Proc : p # next => flag'[p] = flag[p]
      /\ next \in Proc => flag'[next] = flag[next] \cup {k}
      /\ next \in Aux => pc'[next] = "scheduled"
  BY <1>0, ReleaseFrame, SMTT(30)
<1>2. next # NONE =>
         /\ next \in Actor /\ next # r /\ InQueue(next, k)
         /\ next \in Aux => k = "mod" /\ pc[next] = "wait"
         /\ next \in Proc => /\ pc[next] = "wait" \/ (pc[next] = "backout" /\ k = "mod")
                             /\ want[next] \in {k, "load"} /\ ~exiting[next]
  BY <1>0, NextFacts, SMTT(30)
<1>3. /\ \A a \in Actor, m \in Kind : Has(a, m) => owner[m] = a
      /\ HandedOver /\ NotLeaked
      /\ \A p \in Proc, m \in Kind : Clearing(p, m) => owner[m] # p
      /\ owner["stage"] \notin Aux
  BY DEF PermInv, OwnerInv
<1>4. \A p \in Proc, m \in Kind : Clearing(p, m) <=> pc[p] = ClearPc(m)
  BY DEF Clearing, ClearPc
<1>5. \A p \in Proc, m \in Kind : Clearing(p, m)' <=> pc'[p] = ClearPc(m)
  BY DEF Clearing, ClearPc
<1>6. \A m \in Kind : Has(r, m)' <=> HasAt(m, l, want[r], kept'[r])
  BY <1>0, <1>1 DEF Has, HasAt, TypeOK
<1>7. \A p \in Proc \ {r}, m \in Kind : Has(p, m)' <=> Has(p, m)
  BY <1>0, <1>1 DEF Has, TypeOK
<1>8. \A a \in Aux, m \in Kind : Has(a, m)' <=> Has(a, m)
  <2> SUFFICES ASSUME NEW a \in Aux, NEW m \in Kind PROVE Has(a, m)' <=> Has(a, m)
    OBVIOUS
  <2>1. CASE pc'[a] = pc[a]
    BY <2>1 DEF Has
  <2>2. CASE a = next /\ pc'[a] = "scheduled"
    BY <1>0, <1>2, <2>2 DEF Has
  <2> QED
    BY <1>1, <2>1, <2>2
<1>9. \A a \in Actor, m \in Kind : Has(a, m)' => m # k /\ Has(a, m)
  BY <1>3, <1>6, <1>7, <1>8, SMTT(30) DEF Actor
<1>10. \A a \in Actor, m \in Kind : Has(a, m)' => owner'[m] = a
  BY <1>1, <1>3, <1>9
<1>11. HandedOver'
  <2> SUFFICES ASSUME NEW m \in Kind, NEW p \in Proc, m \in flag'[p], pc'[p] # ClearPc(m)
               PROVE  owner'[m] = p
    BY <1>5 DEF HandedOver
  <2>1. CASE p = next /\ m = k
    BY <1>1, <2>1
  <2>2. CASE p = r
    <3>1. m \in flag[r] /\ m # k /\ ~Clearing(r, m)
      BY <1>1, <1>4, <2>2
    <3> QED
      BY <1>1, <1>3, <2>2, <3>1, SMTT(30) DEF HandedOver
  <2>3. CASE p # r /\ ~(p = next /\ m = k)
    <3>1. m \in flag[p] /\ ~Clearing(p, m)
      BY <1>1, <1>4, <2>3, SMTT(30)
    <3>2. owner[m] = p
      BY <1>3, <3>1 DEF HandedOver
    <3> QED
      BY <1>1, <2>3, <3>2
  <2> QED
    BY <2>1, <2>2, <2>3
<1>12. NotLeaked'
  <2> SUFFICES ASSUME NEW m \in Kind, NEW o, o = owner'[m], o # NONE
               PROVE  \/ Has(o, m)'
                      \/ o \in Proc /\ m \in flag'[o] /\ pc'[o] # "dead"
                      \/ o \in Aux /\ pc'[o] = "scheduled"
    BY DEF NotLeaked, Has
  <2>1. CASE m = k
    <3>1. CASE next \in Aux
      BY <1>1, <2>1, <3>1
    <3>2. CASE next \in Proc
      <4>1. pc'[next] = pc[next] /\ pc[next] # "dead"
        BY <1>0, <1>1, <1>2, <3>2
      <4> QED
        BY <1>1, <2>1, <3>2, <4>1
    <3> QED
      BY <1>1, <1>2, <2>1, <3>1, <3>2 DEF Actor
  <2>2. CASE m # k
    <3>1. owner[m] = o
      BY <1>1, <2>2
    <3>2. CASE Has(o, m)
      <4>0. owner[m] \in Actor \cup {NONE}
        BY DEF TypeOK
      <4>1. o \in Actor
        BY <3>1, <4>0
      <4>2. CASE o \in Aux
        BY <1>8, <3>2, <4>2
      <4>3. CASE o = r
        BY <1>6, <2>2, <3>2, <4>3
      <4>4. CASE o \in Proc \ {r}
        BY <1>7, <3>2, <4>4
      <4> QED
        BY <4>1, <4>2, <4>3, <4>4 DEF Actor
    <3>3. CASE o \in Proc /\ m \in flag[o] /\ pc[o] # "dead"
      <4>1. m \in flag'[o]
        BY <1>1, <3>3
      <4>2. pc'[o] # "dead"
        BY <1>1, <3>3
      <4> QED
        BY <3>3, <4>1, <4>2
    <3>4. CASE o \in Aux /\ pc[o] = "scheduled"
      BY <1>1, <3>4
    <3>5. \/ Has(o, m)
          \/ o \in Proc /\ m \in flag[o] /\ pc[o] # "dead"
          \/ o \in Aux /\ pc[o] = "scheduled"
      BY <1>3, <3>1 DEF NotLeaked
    <3> QED
      BY <3>2, <3>3, <3>4, <3>5
  <2> QED
    BY <2>1, <2>2
<1>13. \A p \in Proc, m \in Kind : Clearing(p, m)' => owner'[m] # p
  <2> SUFFICES ASSUME NEW p \in Proc, NEW m \in Kind, pc'[p] = ClearPc(m)
               PROVE  owner'[m] # p
    BY <1>5
  <2>1. CASE p = r
    BY <1>0, <1>1, <1>2, <2>1, SMTT(30)
  <2>2. CASE p # r
    <3>1. Clearing(p, m) /\ owner[m] # p
      BY <1>1, <1>3, <1>4, <2>2, SMTT(30)
    <3>2. p # next
      <4>1. pc[p] = ClearPc(m) /\ p # NONE
        BY <1>0, <1>4, <3>1
      <4> QED
        BY <1>2, <4>1 DEF ClearPc
    <3> QED
      BY <1>1, <3>1, <3>2
  <2> QED
    BY <2>1, <2>2
<1>14. owner'["stage"] \notin Aux
  BY <1>0, <1>1, <1>2, <1>3 DEF Kind
<1> QED
  BY <1>10, <1>11, <1>12, <1>13, <1>14 DEF OwnerInv


\* The owners after aux job r has released modification permission.
LEMMA ReleaseOwnerAux ==
    ASSUME TypeOK, PermInv, ActorAssumption, NEW r \in Aux, pc[r] = "holds",
           NEW next, NEW gone, HandOver("mod", [pc EXCEPT ![r] = "idle"], next, gone),
           UNCHANGED <<want, kept>>, owner["mod"] = r
    PROVE  OwnerInv'
<1> USE ZenonT(30)
<1>0. /\ r \in Actor /\ Proc \subseteq Actor /\ Aux \subseteq Actor /\ NONE \notin Actor
      /\ Proc \cap Aux = {} /\ r \notin Proc /\ "mod" \in Kind
  BY ActorAssumption DEF Actor, Kind
<1>1. /\ owner'["mod"] = next /\ \A m \in Kind \ {"mod"} : owner'[m] = owner[m]
      /\ \A p \in Proc \ {r} : pc'[p] = pc[p]
      /\ \A a \in Aux \ {r} : pc'[a] = pc[a] \/ (a = next /\ pc'[a] = "scheduled")
      /\ pc'[r] = "idle"
      /\ \A p \in Proc : p # next => flag'[p] = flag[p]
      /\ next \in Proc => flag'[next] = flag[next] \cup {"mod"}
      /\ next \in Aux => pc'[next] = "scheduled"
  BY <1>0, ReleaseFrame, SMTT(30)
<1>2. next # NONE =>
         /\ next \in Actor /\ next # r
         /\ next \in Proc => pc[next] \in {"wait", "backout"}
  BY <1>0, NextFacts, SMTT(30)
<1>3. /\ \A a \in Actor, m \in Kind : Has(a, m) => owner[m] = a
      /\ HandedOver /\ NotLeaked
      /\ \A p \in Proc, m \in Kind : Clearing(p, m) => owner[m] # p
      /\ owner["stage"] \notin Aux
  BY DEF PermInv, OwnerInv
<1>4. \A p \in Proc : pc'[p] = pc[p]
  BY <1>0, <1>1
<1>5. \A p \in Proc, m \in Kind : Clearing(p, m)' <=> Clearing(p, m)
  BY <1>4 DEF Clearing
<1>6. \A p \in Proc, m \in Kind : Has(p, m)' <=> Has(p, m)
  BY <1>4 DEF Has
<1>7. \A a \in Aux, m \in Kind : Has(a, m)' => a # r /\ Has(a, m)
  <2> SUFFICES ASSUME NEW a \in Aux, NEW m \in Kind, m = "mod", pc'[a] = "holds"
               PROVE  a # r /\ Has(a, m)
    BY DEF Has
  <2>1. a # r
    BY <1>1
  <2>2. pc[a] = "holds"
    BY <1>1, <2>1
  <2> QED
    BY <2>1, <2>2 DEF Has
<1>8. \A a \in Actor, m \in Kind : Has(a, m)' => m # "mod" /\ Has(a, m)
  <2> SUFFICES ASSUME NEW a \in Actor, NEW m \in Kind, Has(a, m)'
               PROVE  m # "mod" /\ Has(a, m)
    OBVIOUS
  <2>1. a # r /\ Has(a, m)
    BY <1>0, <1>6, <1>7 DEF Actor
  <2> QED
    BY <1>3, <2>1
<1>9. \A a \in Actor, m \in Kind : Has(a, m)' => owner'[m] = a
  BY <1>1, <1>3, <1>8, SMTT(30)
<1>10. HandedOver'
  <2> SUFFICES ASSUME NEW m \in Kind, NEW p \in Proc, m \in flag'[p], ~Clearing(p, m)
               PROVE  owner'[m] = p
    BY <1>5 DEF HandedOver
  <2>1. CASE p = next /\ m = "mod"
    BY <1>1, <2>1
  <2>2. CASE ~(p = next /\ m = "mod")
    <3>1. m \in flag[p]
      BY <1>1, <2>2
    <3>2. owner[m] = p
      BY <1>3, <3>1 DEF HandedOver
    <3> QED
      BY <1>0, <1>1, <3>2
  <2> QED
    BY <2>1, <2>2
<1>11. NotLeaked'
  <2> SUFFICES ASSUME NEW m \in Kind, NEW o, o = owner'[m], o # NONE
               PROVE  \/ Has(o, m)'
                      \/ o \in Proc /\ m \in flag'[o] /\ pc'[o] # "dead"
                      \/ o \in Aux /\ pc'[o] = "scheduled"
    BY DEF NotLeaked, Has
  <2>1. CASE m = "mod"
    <3>1. CASE next \in Aux
      BY <1>1, <2>1, <3>1
    <3>2. CASE next \in Proc
      BY <1>0, <1>1, <1>2, <2>1, <3>2
    <3> QED
      BY <1>1, <1>2, <2>1, <3>1, <3>2 DEF Actor
  <2>2. CASE m # "mod"
    <3>1. owner[m] = o /\ m = "stage"
      BY <1>1, <2>2 DEF Kind
    <3>2. o \notin Aux
      BY <1>3, <3>1
    <3>3. \/ Has(o, m)
          \/ o \in Proc /\ m \in flag[o] /\ pc[o] # "dead"
      BY <1>3, <3>1, <3>2 DEF NotLeaked
    <3>4. o \in Proc
      BY <3>1, <3>2, SMTT(30) DEF TypeOK, Actor
    <3>5. m \in flag[o] => m \in flag'[o]
      BY <1>1, <3>4
    <3> QED
      BY <1>4, <1>6, <3>3, <3>4, <3>5
  <2> QED
    BY <2>1, <2>2
<1>12. \A p \in Proc, m \in Kind : Clearing(p, m)' => owner'[m] # p
  <2> SUFFICES ASSUME NEW p \in Proc, NEW m \in Kind, Clearing(p, m)
               PROVE  owner'[m] # p
    BY <1>5
  <2>1. owner[m] # p
    BY <1>3
  <2>2. p # next
    BY <1>0, <1>2 DEF Clearing
  <2> QED
    BY <1>1, <2>1, <2>2
<1>13. owner'["stage"] \notin Aux
  BY <1>1, <1>3 DEF Kind
<1> QED
  BY <1>9, <1>10, <1>11, <1>12, <1>13 DEF OwnerInv

\* The callers after r has released k: only the flag of who is next changes.
LEMMA ReleaseCaller ==
    ASSUME TypeOK, PermInv, ActorAssumption, NEW r \in Actor, NEW k \in Kind, NEW l,
           NEW next, NEW gone, HandOver(k, [pc EXCEPT ![r] = l], next, gone), owner[k] = r,
           \A p \in Proc \ {r} : kept'[p] = kept[p],
           UNCHANGED <<want, exiting>>,
           r \in Proc => CallerOK(r, l, flag[r], want[r], exiting[r], kept'[r])
    PROVE  CallerInv'
<1> USE ZenonT(30)
<1>1. /\ \A p \in Proc \ {r} : pc'[p] = pc[p]
      /\ pc'[r] = l
      /\ r \in Proc => flag'[r] = flag[r]
      /\ \A p \in Proc : p # next => flag'[p] = flag[p]
      /\ next \in Proc => flag'[next] = flag[next] \cup {k}
  BY ReleaseFrame, SMTT(30)
<1>2. next \in Proc => /\ next # r
                       /\ pc[next] = "wait" \/ (pc[next] = "backout" /\ k = "mod")
                       /\ want[next] \in {k, "load"}
  <2>1. next \in Proc => next # NONE
    BY ActorAssumption DEF Actor
  <2> QED
    BY <2>1, NextFacts, SMTT(30)
<1>3. \A p \in Proc : CallerOK(p, pc[p], flag[p], want[p], exiting[p], kept[p])
  BY CallerInvIs DEF PermInv
<1>4. ASSUME NEW p \in Proc
      PROVE  CallerOK(p, pc'[p], flag'[p], want'[p], exiting'[p], kept'[p])
  <2>1. CASE p = r
    BY <1>1, <2>1
  <2>2. CASE p # r /\ p # next
    BY <1>1, <1>3, <2>2
  <2>3. CASE p = next
    <3>1. CallerOK(p, pc[p], flag[p], want[p], exiting[p], kept[p])
      BY <1>3
    <3>2. /\ pc'[p] = pc[p] /\ want'[p] = want[p] /\ exiting'[p] = exiting[p] /\ kept'[p] = kept[p]
          /\ flag'[p] = flag[p] \cup {k}
      BY <1>1, <1>2, <2>3
    <3>3. CallerOK(p, pc[p], flag[p] \cup {k}, want[p], exiting[p], kept[p])
      <4>1. CASE k = "mod"
        BY <1>2, <2>3, <3>1, <4>1 DEF CallerOK
      <4>2. CASE k = "stage"
        BY <1>2, <2>3, <3>1, <4>2 DEF CallerOK
      <4> QED
        BY <4>1, <4>2 DEF Kind
    <3> QED
      BY <3>2, <3>3
  <2> QED
    BY <2>1, <2>2, <2>3
<1> QED
  BY <1>4 DEF CallerInv, CallerOK

\* The types after a release.
LEMMA ReleaseType ==
    ASSUME TypeOK, ActorAssumption, NEW r \in Actor, NEW k \in Kind, NEW l,
           NEW next, NEW gone, HandOver(k, [pc EXCEPT ![r] = l], next, gone),
           kept' \in [Proc -> BOOLEAN], UNCHANGED <<want, exiting, gcs>>,
           r \in Proc => l \in ProcPc, r \in Aux => l \in AuxPc
    PROVE  TypeOK'
<1> USE ZenonT(30)
<1>1. next \in Actor \cup {NONE}
  BY DEF HandOver
<1>2. owner' \in [Kind -> Actor \cup {NONE}]
  BY <1>1 DEF HandOver, TypeOK
<1>3. flag' \in [Proc -> SUBSET Kind]
  BY DEF HandOver, TypeOK
<1>4. susp' \in [Proc -> BOOLEAN]
  BY DEF HandOver, TypeOK
<1>5. /\ \A p \in Proc : pc'[p] = IF p = r THEN l ELSE pc[p]
      /\ \A a \in Aux : pc'[a] = IF a = next THEN "scheduled" ELSE IF a = r THEN l ELSE pc[a]
  BY ActorAssumption DEF HandOver, TypeOK, Actor
<1>6. \A p \in Proc : pc'[p] \in ProcPc
  BY <1>5 DEF TypeOK
<1>7. \A a \in Aux : pc'[a] \in AuxPc
  BY <1>5 DEF TypeOK, AuxPc
<1>8. pc' \in [Actor -> ProcPc \cup AuxPc]
  <2>1. \A a \in Actor : pc'[a] \in ProcPc \cup AuxPc
    BY <1>6, <1>7 DEF Actor
  <2>2. pc' = [a \in Actor |-> pc'[a]]
    BY SMTT(30) DEF HandOver
  <2> QED
    BY <2>1, <2>2
<1>9. queue' \in [Kind -> Seq(Actor)]
  BY DEF HandOver
<1> QED
  BY <1>2, <1>3, <1>4, <1>6, <1>7, <1>8, <1>9 DEF TypeOK


\* A release by process r, which goes to l.
LEMMA ReleaseProc ==
    ASSUME TypeOK, PermInv, ActorAssumption, NEW r \in Proc, NEW k \in Kind,
           NEW l \in ProcPc, ReleaseTo(r, k, l),
           kept' \in [Proc -> BOOLEAN], \A p \in Proc \ {r} : kept'[p] = kept[p],
           UNCHANGED <<want, exiting, gcs>>,
           owner[k] = r, ~HasAt(k, l, want[r], kept'[r]),
           \A m \in Kind \ {k} : HasAt(m, l, want[r], kept'[r]) <=> HasAt(m, pc[r], want[r], kept[r]),
           k \in flag[r] => l = ClearPc(k),
           \A m \in Kind \ {k} : l # ClearPc(m),
           \A m \in Kind : pc[r] # ClearPc(m),
           l \notin {"dead", "backout"}, susp[r] => l \in WaitPc,
           CallerOK(r, l, flag[r], want[r], exiting[r], kept'[r])
    PROVE  TypeOK' /\ PermInv'
<1> USE ZenonT(30)
<1>0. r \in Actor /\ r \notin Aux
  BY ActorAssumption DEF Actor
<1>1. PICK next, gone : HandOver(k, [pc EXCEPT ![r] = l], next, gone)
  BY Released DEF ReleaseTo, PermInv
<1>2. QueueInv'
  BY <1>0, <1>1, ReleaseQueue
<1>3. \A m \in Kind \ {k} : HasAt(m, l, want[r], kept'[r]) <=> Has(r, m)
  BY HasIs
<1>4. OwnerInv'
  <2>1. l # "dead" /\ UNCHANGED want
    OBVIOUS
  <2> QED
    BY <1>1, <1>3, <2>1, ReleaseOwner, SMTT(30)
<1>5. CallerInv'
  <2>1. UNCHANGED <<want, exiting>>
    OBVIOUS
  <2> QED
    BY <1>0, <1>1, <2>1, ReleaseCaller
<1>6. TypeOK'
  BY <1>0, <1>1, ReleaseType
<1> QED
  BY <1>2, <1>4, <1>5, <1>6 DEF PermInv

\* A release by an aux job.
LEMMA ReleaseAux ==
    ASSUME TypeOK, PermInv, ActorAssumption, NEW r \in Aux, DoneAux(r)
    PROVE  TypeOK' /\ PermInv'
<1> USE ZenonT(30)
<1>0. r \in Actor /\ r \notin Proc /\ "mod" \in Kind
  BY ActorAssumption DEF Actor, Kind
<1>1. pc[r] = "holds" /\ UNCHANGED <<exiting, want, kept, gcs>>
  BY DEF DoneAux
<1>2. PICK next, gone : HandOver("mod", [pc EXCEPT ![r] = "idle"], next, gone)
  BY <1>0, Released DEF DoneAux, ReleaseTo, PermInv
<1>3. owner["mod"] = r
  BY <1>0, <1>1 DEF PermInv, OwnerInv, Has
<1>4. QueueInv'
  BY <1>0, <1>1, <1>2, <1>3, ReleaseQueue
<1>5. OwnerInv'
  BY <1>1, <1>2, <1>3, ReleaseOwnerAux
<1>6. CallerInv'
  BY <1>0, <1>1, <1>2, <1>3, ReleaseCaller
<1>7. TypeOK'
  <2>1. kept' \in [Proc -> BOOLEAN] /\ "idle" \in AuxPc
    BY <1>1 DEF TypeOK, AuxPc
  <2> QED
    BY <1>0, <1>1, <1>2, <2>1, ReleaseType
<1> QED
  BY <1>4, <1>5, <1>6, <1>7 DEF PermInv

-----------------------------------------------------------------------------
(* Steps of one process that release nothing                               *)

\* The state of process r alone changes; it may take permissions that are free.
Moved(r) ==
    /\ pc' \in [Actor -> ProcPc \cup AuxPc] /\ pc'[r] \in ProcPc
    /\ flag' \in [Proc -> SUBSET Kind]
    /\ want' \in [Proc -> {"stage", "mod", "load"}]
    /\ exiting' \in [Proc -> BOOLEAN] /\ (exiting[r] => exiting'[r])
    /\ kept' \in [Proc -> BOOLEAN]
    /\ gcs' \in Nat
    /\ owner' \in [Kind -> Actor \cup {NONE}]
    /\ \A m \in Kind : owner'[m] = owner[m] \/ (owner[m] = NONE /\ owner'[m] = r)
    /\ \A a \in Aux : pc'[a] = pc[a]
    /\ \A p \in Proc \ {r} : /\ pc'[p] = pc[p] /\ flag'[p] = flag[p] /\ want'[p] = want[p]
                             /\ exiting'[p] = exiting[p] /\ kept'[p] = kept[p]

\* What r then owns is what it was told or will find by its flags.
Accounted(r) ==
    \A m \in Kind :
        /\ HasAt(m, pc'[r], want'[r], kept'[r]) => owner'[m] = r
        /\ m \in flag'[r] => pc'[r] = ClearPc(m) \/ owner'[m] = r
        /\ owner'[m] = r => \/ HasAt(m, pc'[r], want'[r], kept'[r])
                            \/ m \in flag'[r] /\ pc'[r] # "dead"
        /\ pc'[r] = ClearPc(m) => owner'[m] # r

\* It keeps the record of owners true.
LEMMA MoveOwner ==
    ASSUME TypeOK, PermInv, ActorAssumption, NEW r \in Proc, Moved(r), Accounted(r)
    PROVE  OwnerInv'
<1> USE ZenonT(30)
<1>1. /\ \A p \in Proc \ {r} : /\ pc'[p] = pc[p] /\ flag'[p] = flag[p]
                               /\ want'[p] = want[p] /\ kept'[p] = kept[p]
      /\ \A a \in Aux : pc'[a] = pc[a]
      /\ r \in Actor /\ r \notin Aux /\ r # NONE
  BY ActorAssumption DEF Moved, Actor
<1>2. \A m \in Kind : owner'[m] = owner[m] \/ (owner[m] = NONE /\ owner'[m] = r)
  BY DEF Moved
<1>3. /\ \A a \in Actor, m \in Kind : Has(a, m) => owner[m] = a
      /\ HandedOver /\ NotLeaked
      /\ \A p \in Proc, m \in Kind : Clearing(p, m) => owner[m] # p
      /\ owner["stage"] \notin Aux
  BY DEF PermInv, OwnerInv
<1>4. \A m \in Kind : Has(r, m)' <=> HasAt(m, pc'[r], want'[r], kept'[r])
  BY <1>1 DEF Has, HasAt
<1>5. \A a \in Actor \ {r}, m \in Kind : Has(a, m)' <=> Has(a, m)
  BY <1>1 DEF Has, Actor
<1>6. \A p \in Proc, m \in Kind : Clearing(p, m)' <=> pc'[p] = ClearPc(m)
  BY DEF Clearing, ClearPc
<1>7. \A p \in Proc \ {r}, m \in Kind : Clearing(p, m)' <=> Clearing(p, m)
  BY <1>1 DEF Clearing
<1>8. \A a \in Actor : a # NONE
  BY ActorAssumption
<1>9. \A a \in Actor, m \in Kind : Has(a, m)' => owner'[m] = a
  <2> SUFFICES ASSUME NEW a \in Actor, NEW m \in Kind, Has(a, m)' PROVE owner'[m] = a
    OBVIOUS
  <2>1. CASE a = r
    BY <1>4, <2>1 DEF Accounted
  <2>2. CASE a # r
    BY <1>2, <1>3, <1>5, <1>8, <2>2
  <2> QED
    BY <2>1, <2>2
<1>10. HandedOver'
  <2> SUFFICES ASSUME NEW m \in Kind, NEW p \in Proc, m \in flag'[p], ~Clearing(p, m)'
               PROVE  owner'[m] = p
    BY DEF HandedOver
  <2>1. CASE p = r
    BY <1>1, <1>6, <2>1 DEF Accounted
  <2>2. CASE p # r
    <3>1. owner[m] = p
      BY <1>1, <1>3, <1>7, <2>2 DEF HandedOver
    <3>2. p # NONE
      BY <1>8 DEF Actor
    <3> QED
      BY <1>2, <3>1, <3>2
  <2> QED
    BY <2>1, <2>2
<1>11. NotLeaked'
  <2> SUFFICES ASSUME NEW m \in Kind, NEW o, o = owner'[m], o # NONE
               PROVE  \/ Has(o, m)'
                      \/ o \in Proc /\ m \in flag'[o] /\ pc'[o] # "dead"
                      \/ o \in Aux /\ pc'[o] = "scheduled"
    BY DEF NotLeaked, Has
  <2>1. CASE o = r
    BY <1>1, <1>4, <2>1 DEF Accounted
  <2>2. CASE o # r
    <3>1. owner[m] = o /\ o \in Actor
      BY <1>2, <2>2 DEF TypeOK
    <3>2. \/ Has(o, m)
          \/ o \in Proc /\ m \in flag[o] /\ pc[o] # "dead"
          \/ o \in Aux /\ pc[o] = "scheduled"
      BY <1>3, <3>1 DEF NotLeaked
    <3>3. CASE Has(o, m)
      BY <1>5, <2>2, <3>1, <3>3
    <3>4. CASE o \in Proc /\ m \in flag[o] /\ pc[o] # "dead"
      BY <1>1, <2>2, <3>4
    <3>5. CASE o \in Aux /\ pc[o] = "scheduled"
      BY <1>1, <3>5
    <3> QED
      BY <3>2, <3>3, <3>4, <3>5
  <2> QED
    BY <2>1, <2>2
<1>12. \A p \in Proc, m \in Kind : Clearing(p, m)' => owner'[m] # p
  <2> SUFFICES ASSUME NEW p \in Proc, NEW m \in Kind, Clearing(p, m)' PROVE owner'[m] # p
    OBVIOUS
  <2>1. CASE p = r
    BY <1>1, <1>6, <2>1 DEF Accounted
  <2>2. CASE p # r
    BY <1>2, <1>3, <1>7, <2>2
  <2> QED
    BY <2>1, <2>2
<1>13. owner'["stage"] \notin Aux
  BY <1>1, <1>2, <1>3 DEF Kind
<1> QED
  BY <1>9, <1>10, <1>11, <1>12, <1>13 DEF OwnerInv

\* It keeps the callers in order, and the types.
LEMMA MoveCaller ==
    ASSUME TypeOK, PermInv, ActorAssumption, NEW r \in Proc, Moved(r), CallerOK(r, pc'[r], flag'[r], want'[r], exiting'[r], kept'[r])
    PROVE  CallerInv'
<1> USE ZenonT(30)
<1>1. \A p \in Proc : CallerOK(p, pc[p], flag[p], want[p], exiting[p], kept[p])
  BY CallerInvIs DEF PermInv
<1>2. ASSUME NEW p \in Proc
      PROVE  CallerOK(p, pc'[p], flag'[p], want'[p], exiting'[p], kept'[p])
  <2>1. CASE p = r
    BY <2>1
  <2>2. CASE p # r
    <3>1. /\ pc'[p] = pc[p] /\ flag'[p] = flag[p] /\ want'[p] = want[p]
          /\ exiting'[p] = exiting[p] /\ kept'[p] = kept[p]
      BY <2>2 DEF Moved
    <3> QED
      BY <1>1, <3>1
  <2> QED
    BY <2>1, <2>2
<1> QED
  BY <1>2 DEF CallerInv, CallerOK

\* Such a step keeps every variable in its type.
LEMMA MoveType ==
    ASSUME TypeOK, ActorAssumption, NEW r \in Proc, Moved(r),
           queue' \in [Kind -> Seq(Actor)], susp' \in [Proc -> BOOLEAN]
    PROVE  TypeOK'
<1> USE ZenonT(30)
<1>1. \A p \in Proc : pc'[p] \in ProcPc
  BY DEF Moved, TypeOK
<1>2. \A a \in Aux : pc'[a] \in AuxPc
  BY DEF Moved, TypeOK
<1> QED
  BY <1>1, <1>2 DEF Moved, TypeOK


\* It keeps the queues in order if r enters and leaves none.
LEMMA MoveQueue ==
    ASSUME TypeOK, PermInv, ActorAssumption, NEW r \in Proc, Moved(r),
           UNCHANGED <<queue, susp>>, flag'[r] \subseteq flag[r],
           susp[r] => pc'[r] \in WaitPc /\ want'[r] = want[r], pc'[r] # "backout"
    PROVE  QueueInv'
<1> USE ZenonT(30)
<1>0. QueueInv
  BY DEF PermInv
<1>1. /\ \A p \in Proc \ {r} : /\ pc'[p] = pc[p] /\ flag'[p] = flag[p]
                               /\ want'[p] = want[p] /\ exiting'[p] = exiting[p]
      /\ \A a \in Aux : pc'[a] = pc[a]
      /\ \A m \in Kind : owner'[m] = owner[m] \/ (owner[m] = NONE /\ owner'[m] = r)
      /\ exiting[r] => exiting'[r]
  BY DEF Moved
<1>2. r \notin Aux /\ Proc \subseteq Actor
  BY ActorAssumption DEF Actor
<1>3. \A a \in Actor, m \in Kind : InQueue(a, m)' <=> InQueue(a, m)
  BY DEF InQueue
<1>4. \A m \in Kind : \A i, j \in 1 .. Len(queue'[m]) : queue'[m][i] = queue'[m][j] => i = j
  BY <1>0 DEF QueueInv
<1>5. \A a \in Actor : ~(InQueue(a, "stage")' /\ InQueue(a, "mod")')
  BY <1>0, <1>3 DEF QueueInv, Kind
<1>6. \A a \in Actor, m \in Kind : InQueue(a, m)' => owner'[m] \notin {NONE, a}
  BY <1>0, <1>1, <1>3 DEF QueueInv
<1>7. \A a \in Aux, m \in Kind : InQueue(a, m)' => m = "mod" /\ pc'[a] = "wait"
  BY <1>0, <1>1, <1>3 DEF QueueInv, Actor
<1>8. \A p \in Proc, m \in Kind : InQueue(p, m)' => susp'[p] /\ want'[p] \in {m, "load"}
  <2> SUFFICES ASSUME NEW p \in Proc, NEW m \in Kind, InQueue(p, m)'
               PROVE  susp'[p] /\ want'[p] \in {m, "load"}
    OBVIOUS
  <2>1. susp[p] /\ want[p] \in {m, "load"}
    BY <1>0, <1>2, <1>3 DEF QueueInv
  <2> QED
    BY <1>1, <2>1
<1>9. \A p \in Proc : InQueue(p, "stage")' => pc'[p] # "backout"
  BY <1>0, <1>1, <1>2, <1>3, SMTT(30) DEF QueueInv, Kind
<1>10. \A p \in Proc : InQueue(p, "mod")' => "stage" \notin flag'[p]
  BY <1>0, <1>1, <1>2, <1>3 DEF QueueInv, Kind
<1>11. \A p \in Proc : susp'[p] => pc'[p] \in WaitPc \cup {"backout"}
  BY <1>0, <1>1 DEF QueueInv
<1>12. \A a \in Actor : Waiting(a)' => Waiting(a)
  BY <1>1 DEF Waiting, Actor
<1>13. \A a \in Actor : Waiting(a)' => \E m \in Kind : InQueue(a, m)'
  BY <1>0, <1>3, <1>12 DEF QueueInv
<1> QED
  BY <1>4, <1>5, <1>6, <1>7, <1>8, <1>9, <1>10, <1>11, <1>13 DEF QueueInv

\* The queue of permission k when r has been appended to it.
LEMMA Enqueued ==
    ASSUME TypeOK, QueueInv, NEW r \in Actor, NEW k \in Kind, ~InQueue(r, k),
           queue' = [queue EXCEPT ![k] = Append(@, r)]
    PROVE  /\ queue' \in [Kind -> Seq(Actor)]
           /\ \A m \in Kind : \A i, j \in 1 .. Len(queue'[m]) : queue'[m][i] = queue'[m][j] => i = j
           /\ \A a \in Actor, m \in Kind : InQueue(a, m)' <=> InQueue(a, m) \/ (m = k /\ a = r)
<1> USE ZenonT(30)
<1> DEFINE q == queue[k]
           s == Append(q, r)
<1>1. queue' = [queue EXCEPT ![k] = s] /\ queue'[k] = s /\ \A m \in Kind \ {k} : queue'[m] = queue[m]
  BY DEF TypeOK
<1>2. q \in Seq(Actor)
  BY DEF TypeOK
<1>3. s = Append(q, r)
  OBVIOUS
<1>4. \A i, j \in 1 .. Len(q) : q[i] = q[j] => i = j
  BY DEF QueueInv
<1>5. \A i \in 1 .. Len(q) : q[i] # r
  BY DEF InQueue
<1>6. \A a : InQueue(a, k) <=> \E i \in 1 .. Len(q) : q[i] = a
  BY DEF InQueue
<1>7. \A a : InQueue(a, k)' <=> \E i \in 1 .. Len(s) : s[i] = a
  BY <1>1 DEF InQueue
<1> HIDE DEF q, s
<1>8. /\ s \in Seq(Actor) /\ Len(q) \in Nat /\ Len(s) = Len(q) + 1 /\ s[Len(q) + 1] = r
      /\ \A j \in 1 .. Len(q) : s[j] = q[j]
  BY <1>2, <1>3, Appended, SMTT(30)
<1>9. queue' \in [Kind -> Seq(Actor)]
  BY <1>1, <1>8 DEF TypeOK
<1>10. \A i, j \in 1 .. Len(s) : s[i] = s[j] => i = j
  <2> SUFFICES ASSUME NEW i \in 1 .. Len(s), NEW j \in 1 .. Len(s), s[i] = s[j] PROVE i = j
    OBVIOUS
  <2>1. i \in 1 .. Len(q) \/ i = Len(q) + 1
    BY <1>8, SMTT(30)
  <2>2. j \in 1 .. Len(q) \/ j = Len(q) + 1
    BY <1>8, SMTT(30)
  <2>3. \A m \in 1 .. Len(q) : s[m] # r
    BY <1>5, <1>8
  <2>4. CASE i \in 1 .. Len(q) /\ j \in 1 .. Len(q)
    BY <1>4, <1>8, <2>4
  <2>5. CASE i \in 1 .. Len(q) /\ j = Len(q) + 1
    <3>1. s[j] = r
      BY <1>8, <2>5
    <3> QED
      BY <2>3, <2>5, <3>1
  <2>6. CASE i = Len(q) + 1 /\ j \in 1 .. Len(q)
    <3>1. s[i] = r
      BY <1>8, <2>6
    <3> QED
      BY <2>3, <2>6, <3>1
  <2> QED
    BY <2>1, <2>2, <2>4, <2>5, <2>6
<1>11. \A m \in Kind : \A i, j \in 1 .. Len(queue'[m]) : queue'[m][i] = queue'[m][j] => i = j
  BY <1>1, <1>10, SMTT(30) DEF QueueInv
<1>12. \A i \in 1 .. Len(s) : i \in 1 .. Len(q) \/ i = Len(q) + 1
  BY <1>8, SMTT(30)
<1>13. Len(q) + 1 \in 1 .. Len(s) /\ \A i \in 1 .. Len(q) : i \in 1 .. Len(s)
  BY <1>8, SMTT(30)
<1>14. \A a \in Actor : InQueue(a, k)' <=> InQueue(a, k) \/ a = r
  BY <1>6, <1>7, <1>8, <1>12, <1>13
<1>15. \A a \in Actor, m \in Kind \ {k} : InQueue(a, m)' <=> InQueue(a, m)
  BY <1>1 DEF InQueue
<1> QED
  BY <1>9, <1>11, <1>14, <1>15

\* r enters the queue of permission k, which is somebody else's.
LEMMA EnqueueQueue ==
    ASSUME TypeOK, PermInv, ActorAssumption, NEW r \in Proc, Moved(r), NEW k \in Kind,
           owner[k] \notin {NONE, r}, UNCHANGED owner, ~susp[r],
           queue' = [queue EXCEPT ![k] = Append(@, r)], susp' = [susp EXCEPT ![r] = TRUE],
           pc'[r] = "wait" \/ (pc'[r] = "backout" /\ k = "mod"),
           want'[r] \in {k, "load"}, k = "mod" => "stage" \notin flag'[r]
    PROVE  QueueInv' /\ queue' \in [Kind -> Seq(Actor)]
<1> USE ZenonT(30)
<1>0. QueueInv
  BY DEF PermInv
<1>1. /\ \A p \in Proc \ {r} : /\ pc'[p] = pc[p] /\ flag'[p] = flag[p]
                               /\ want'[p] = want[p] /\ exiting'[p] = exiting[p]
      /\ \A a \in Aux : pc'[a] = pc[a]
  BY DEF Moved
<1>2. r \in Actor /\ r \notin Aux /\ Proc \subseteq Actor /\ Aux \subseteq Actor
  BY ActorAssumption DEF Actor
<1>3. \A m \in Kind : ~InQueue(r, m)
  BY <1>0 DEF QueueInv
<1>4. /\ queue' \in [Kind -> Seq(Actor)]
      /\ \A m \in Kind : \A i, j \in 1 .. Len(queue'[m]) : queue'[m][i] = queue'[m][j] => i = j
      /\ \A a \in Actor, m \in Kind : InQueue(a, m)' <=> InQueue(a, m) \/ (m = k /\ a = r)
  BY <1>0, <1>2, <1>3, Enqueued
<1>5. susp'[r] /\ \A p \in Proc \ {r} : susp'[p] = susp[p]
  BY DEF TypeOK
<1>6. \A a \in Actor : ~(InQueue(a, "stage")' /\ InQueue(a, "mod")')
  <2>1. \A a \in Actor \ {r}, m \in Kind : InQueue(a, m)' <=> InQueue(a, m)
    BY <1>4
  <2>2. \A m \in Kind : InQueue(r, m)' => m = k
    BY <1>2, <1>3, <1>4
  <2> QED
    BY <1>0, <2>1, <2>2 DEF QueueInv, Kind
<1>7. \A a \in Actor, m \in Kind : InQueue(a, m)' => owner'[m] \notin {NONE, a}
  BY <1>0, <1>4 DEF QueueInv
<1>8. \A a \in Aux, m \in Kind : InQueue(a, m)' => m = "mod" /\ pc'[a] = "wait"
  BY <1>0, <1>1, <1>2, <1>4 DEF QueueInv
<1>9. \A p \in Proc, m \in Kind : InQueue(p, m)' => susp'[p] /\ want'[p] \in {m, "load"}
  <2> SUFFICES ASSUME NEW p \in Proc, NEW m \in Kind, InQueue(p, m)'
               PROVE  susp'[p] /\ want'[p] \in {m, "load"}
    OBVIOUS
  <2>1. CASE p = r
    BY <1>2, <1>3, <1>4, <1>5, <2>1
  <2>2. CASE p # r
    <3>1. susp[p] /\ want[p] \in {m, "load"}
      BY <1>0, <1>2, <1>4, <2>2 DEF QueueInv
    <3> QED
      BY <1>1, <1>5, <2>2, <3>1
  <2> QED
    BY <2>1, <2>2
<1>10. \A p \in Proc : InQueue(p, "stage")' => pc'[p] # "backout"
  <2> SUFFICES ASSUME NEW p \in Proc, InQueue(p, "stage")' PROVE pc'[p] # "backout"
    OBVIOUS
  <2>1. CASE p = r
    BY <1>2, <1>3, <1>4, <2>1 DEF Kind
  <2>2. CASE p # r
    BY <1>0, <1>1, <1>2, <1>4, <2>2, SMTT(30) DEF QueueInv, Kind
  <2> QED
    BY <2>1, <2>2
<1>11. \A p \in Proc : InQueue(p, "mod")' => "stage" \notin flag'[p]
  <2> SUFFICES ASSUME NEW p \in Proc, InQueue(p, "mod")' PROVE "stage" \notin flag'[p]
    OBVIOUS
  <2>1. CASE p = r
    BY <1>2, <1>3, <1>4, <2>1 DEF Kind
  <2>2. CASE p # r
    BY <1>0, <1>1, <1>2, <1>4, <2>2 DEF QueueInv, Kind
  <2> QED
    BY <2>1, <2>2
<1>12. \A p \in Proc : susp'[p] => pc'[p] \in WaitPc \cup {"backout"}
  BY <1>0, <1>1, <1>5 DEF QueueInv, WaitPc
<1>13. \A a \in Actor : Waiting(a)' => \E m \in Kind : InQueue(a, m)'
  <2> SUFFICES ASSUME NEW a \in Actor, Waiting(a)' PROVE \E m \in Kind : InQueue(a, m)'
    OBVIOUS
  <2>1. CASE a = r
    BY <1>2, <1>4, <2>1
  <2>2. CASE a # r
    <3>1. Waiting(a)
      BY <1>1, <1>5, <2>2 DEF Waiting, Actor
    <3> QED
      BY <1>0, <1>4, <3>1 DEF QueueInv
  <2> QED
    BY <2>1, <2>2
<1> QED
  BY <1>4, <1>6, <1>7, <1>8, <1>9, <1>10, <1>11, <1>12, <1>13 DEF QueueInv


-----------------------------------------------------------------------------
(* Steps of one aux job that release nothing                               *)

\* Aux job r goes to l; it may take modification permission if it is free.
MovedAux(r, l) ==
    /\ pc' = [pc EXCEPT ![r] = l] /\ l \in AuxPc
    /\ UNCHANGED <<flag, susp, exiting, want, kept, gcs>>
    /\ owner' \in [Kind -> Actor \cup {NONE}] /\ owner'["stage"] = owner["stage"]
    /\ owner'["mod"] = owner["mod"] \/ (owner["mod"] = NONE /\ owner'["mod"] = r)
    /\ l = "holds" => owner'["mod"] = r
    /\ owner'["mod"] = r => l \in {"holds", "scheduled"}

\* It keeps the record of owners true.
LEMMA AuxOwner ==
    ASSUME TypeOK, PermInv, ActorAssumption, NEW r \in Aux, NEW l, MovedAux(r, l)
    PROVE  OwnerInv'
<1> USE ZenonT(30)
<1>0. r \in Actor /\ r \notin Proc /\ Proc \subseteq Actor /\ Aux \subseteq Actor
      /\ \A a \in Actor : a # NONE
  BY ActorAssumption DEF Actor
<1>1. pc'[r] = l /\ \A a \in Actor \ {r} : pc'[a] = pc[a]
  BY <1>0 DEF MovedAux, TypeOK
<1>2. /\ owner'["stage"] = owner["stage"]
      /\ owner'["mod"] = owner["mod"] \/ (owner["mod"] = NONE /\ owner'["mod"] = r)
      /\ l = "holds" => owner'["mod"] = r
      /\ owner'["mod"] = r => l \in {"holds", "scheduled"}
      /\ UNCHANGED <<flag, want, kept>>
  BY DEF MovedAux
<1>3. /\ \A a \in Actor, m \in Kind : Has(a, m) => owner[m] = a
      /\ HandedOver /\ NotLeaked
      /\ \A p \in Proc, m \in Kind : Clearing(p, m) => owner[m] # p
      /\ owner["stage"] \notin Aux
  BY DEF PermInv, OwnerInv
<1>4. \A m \in Kind : owner'[m] = owner[m] \/ (owner[m] = NONE /\ owner'[m] = r)
  BY <1>2 DEF Kind
<1>5. \A m \in Kind : Has(r, m)' <=> m = "mod" /\ l = "holds"
  BY <1>1 DEF Has
<1>6. \A a \in Actor \ {r}, m \in Kind : Has(a, m)' <=> Has(a, m)
  BY <1>1, <1>2 DEF Has
<1>7. \A p \in Proc, m \in Kind : Clearing(p, m)' <=> Clearing(p, m)
  BY <1>0, <1>1 DEF Clearing
<1>8. \A a \in Actor, m \in Kind : Has(a, m)' => owner'[m] = a
  <2> SUFFICES ASSUME NEW a \in Actor, NEW m \in Kind, Has(a, m)' PROVE owner'[m] = a
    OBVIOUS
  <2>1. CASE a = r
    BY <1>2, <1>5, <2>1
  <2>2. CASE a # r
    BY <1>0, <1>3, <1>4, <1>6, <2>2
  <2> QED
    BY <2>1, <2>2
<1>9. HandedOver'
  <2> SUFFICES ASSUME NEW m \in Kind, NEW p \in Proc, m \in flag[p], ~Clearing(p, m)
               PROVE  owner'[m] = p
    BY <1>2, <1>7 DEF HandedOver
  <2>1. owner[m] = p /\ p # NONE
    BY <1>0, <1>3 DEF HandedOver
  <2> QED
    BY <1>4, <2>1
<1>10. NotLeaked'
  <2> SUFFICES ASSUME NEW m \in Kind, NEW o, o = owner'[m], o # NONE
               PROVE  \/ Has(o, m)'
                      \/ o \in Proc /\ m \in flag[o] /\ pc'[o] # "dead"
                      \/ o \in Aux /\ pc'[o] = "scheduled"
    BY <1>2 DEF NotLeaked, Has
  <2>1. CASE o = r
    <3>1. m = "mod"
      BY <1>2, <1>3, <2>1 DEF Kind
    <3>2. l \in {"holds", "scheduled"}
      BY <1>2, <2>1, <3>1
    <3> QED
      BY <1>1, <1>5, <2>1, <3>1, <3>2
  <2>2. CASE o # r
    <3>1. owner[m] = o /\ o \in Actor
      BY <1>4, <2>2 DEF TypeOK
    <3>2. \/ Has(o, m)
          \/ o \in Proc /\ m \in flag[o] /\ pc[o] # "dead"
          \/ o \in Aux /\ pc[o] = "scheduled"
      BY <1>3, <3>1 DEF NotLeaked
    <3> QED
      BY <1>1, <1>6, <2>2, <3>1, <3>2
  <2> QED
    BY <2>1, <2>2
<1>11. \A p \in Proc, m \in Kind : Clearing(p, m)' => owner'[m] # p
  BY <1>0, <1>3, <1>4, <1>7
<1>12. owner'["stage"] \notin Aux
  BY <1>2, <1>3
<1> QED
  BY <1>8, <1>9, <1>10, <1>11, <1>12 DEF OwnerInv

\* It keeps the queues in order; r enters one only to wait.
LEMMA AuxQueue ==
    ASSUME TypeOK, PermInv, ActorAssumption, NEW r \in Aux, NEW l, MovedAux(r, l), pc[r] # "wait",
           \/ l # "wait" /\ UNCHANGED queue
           \/ /\ l = "wait" /\ owner["mod"] \notin {NONE, r} /\ UNCHANGED owner
              /\ queue' = [queue EXCEPT !["mod"] = Append(@, r)]
    PROVE  QueueInv' /\ queue' \in [Kind -> Seq(Actor)]
<1> USE ZenonT(30)
<1>0. QueueInv
  BY DEF PermInv
<1>1. /\ r \in Actor /\ r \notin Proc /\ Proc \subseteq Actor /\ Aux \subseteq Actor
      /\ "mod" \in Kind /\ "stage" \in Kind
  BY ActorAssumption DEF Actor, Kind
<1>2. pc'[r] = l /\ \A a \in Actor \ {r} : pc'[a] = pc[a]
  BY <1>1 DEF MovedAux, TypeOK
<1>3. UNCHANGED <<flag, susp, exiting, want>>
  BY DEF MovedAux
<1>4. \A m \in Kind : owner'[m] = owner[m] \/ (owner[m] = NONE /\ owner'[m] = r)
  BY DEF MovedAux, Kind
<1>5. \A m \in Kind : ~InQueue(r, m)
  BY <1>0 DEF QueueInv
<1>6. /\ queue' \in [Kind -> Seq(Actor)]
      /\ \A m \in Kind : \A i, j \in 1 .. Len(queue'[m]) : queue'[m][i] = queue'[m][j] => i = j
      /\ \A a \in Actor, m \in Kind : InQueue(a, m)' <=> \/ InQueue(a, m)
                                                         \/ l = "wait" /\ m = "mod" /\ a = r
  <2>1. CASE l # "wait" /\ UNCHANGED queue
    <3>1. \A a, m : InQueue(a, m)' <=> InQueue(a, m)
      BY <2>1 DEF InQueue
    <3> QED
      BY <1>0, <2>1, <3>1 DEF QueueInv, TypeOK
  <2>2. CASE l = "wait" /\ queue' = [queue EXCEPT !["mod"] = Append(@, r)]
    BY <1>0, <1>1, <1>5, <2>2, Enqueued
  <2> QED
    BY <2>1, <2>2
<1>7. \A a \in Actor \ {r}, m \in Kind : InQueue(a, m)' <=> InQueue(a, m)
  BY <1>6
<1>8. \A m \in Kind : InQueue(r, m)' <=> l = "wait" /\ m = "mod"
  BY <1>1, <1>5, <1>6
<1>9. \A a \in Actor : ~(InQueue(a, "stage")' /\ InQueue(a, "mod")')
  BY <1>0, <1>1, <1>7, <1>8, SMTT(30) DEF QueueInv
<1>10. \A a \in Actor, m \in Kind : InQueue(a, m)' => owner'[m] \notin {NONE, a}
  <2> SUFFICES ASSUME NEW a \in Actor, NEW m \in Kind, InQueue(a, m)'
               PROVE  owner'[m] \notin {NONE, a}
    OBVIOUS
  <2>1. CASE a = r
    BY <1>8, <2>1
  <2>2. CASE a # r
    <3>1. owner[m] \notin {NONE, a}
      BY <1>0, <1>7, <2>2 DEF QueueInv
    <3> QED
      BY <1>4, <3>1
  <2> QED
    BY <2>1, <2>2
<1>11. \A a \in Aux, m \in Kind : InQueue(a, m)' => m = "mod" /\ pc'[a] = "wait"
  BY <1>0, <1>1, <1>2, <1>7, <1>8, SMTT(30) DEF QueueInv
<1>12. \A p \in Proc, m \in Kind : InQueue(p, m)' => susp'[p] /\ want'[p] \in {m, "load"}
  BY <1>0, <1>1, <1>3, <1>7 DEF QueueInv
<1>13. \A p \in Proc : pc'[p] = pc[p] /\ \A m \in Kind : InQueue(p, m)' <=> InQueue(p, m)
  BY <1>1, <1>2, <1>7
<1>14. \A p \in Proc : InQueue(p, "stage")' => pc'[p] # "backout"
  BY <1>0, <1>1, <1>13 DEF QueueInv
<1>15. \A p \in Proc : InQueue(p, "mod")' => "stage" \notin flag'[p]
  BY <1>0, <1>1, <1>3, <1>13 DEF QueueInv
<1>16. \A p \in Proc : susp'[p] => pc'[p] \in WaitPc \cup {"backout"}
  BY <1>0, <1>3, <1>13 DEF QueueInv
<1>17. \A a \in Actor : Waiting(a)' => \E m \in Kind : InQueue(a, m)'
  <2> SUFFICES ASSUME NEW a \in Actor, Waiting(a)' PROVE \E m \in Kind : InQueue(a, m)'
    OBVIOUS
  <2>1. CASE a = r
    <3>1. l = "wait"
      BY <1>2, <2>1 DEF Waiting
    <3> QED
      BY <1>1, <1>8, <2>1, <3>1
  <2>2. CASE a # r
    <3>1. Waiting(a)
      BY <1>2, <1>3, <2>2 DEF Waiting
    <3> QED
      BY <1>0, <1>7, <2>2, <3>1 DEF QueueInv
  <2> QED
    BY <2>1, <2>2
<1> QED
  BY <1>6, <1>9, <1>10, <1>11, <1>12, <1>14, <1>15, <1>16, <1>17 DEF QueueInv

\* Schedule and TryAux preserve the invariant.
LEMMA AuxStep ==
    ASSUME TypeOK, PermInv, ActorAssumption, NEW r \in Aux, NEW l, MovedAux(r, l), pc[r] # "wait",
           \/ l # "wait" /\ UNCHANGED queue
           \/ /\ l = "wait" /\ owner["mod"] \notin {NONE, r} /\ UNCHANGED owner
              /\ queue' = [queue EXCEPT !["mod"] = Append(@, r)]
    PROVE  TypeOK' /\ PermInv'
<1> USE ZenonT(30)
<1>0. r \in Actor /\ r \notin Proc /\ Proc \subseteq Actor /\ Aux \subseteq Actor
  BY ActorAssumption DEF Actor
<1>1. QueueInv' /\ queue' \in [Kind -> Seq(Actor)]
  BY AuxQueue
<1>2. OwnerInv'
  BY AuxOwner
<1>3. l \in AuxPc /\ pc' = [pc EXCEPT ![r] = l] /\ UNCHANGED <<flag, susp, exiting, want, kept, gcs>>
  BY DEF MovedAux
<1>4. pc'[r] = l /\ \A a \in Actor \ {r} : pc'[a] = pc[a]
  BY <1>0, <1>3 DEF TypeOK
<1>5. \A p \in Proc : pc'[p] = pc[p]
  BY <1>0, <1>4
<1>6. CallerInv'
  BY <1>3, <1>5 DEF PermInv, CallerInv
<1>7. TypeOK'
  <2>1. pc' \in [Actor -> ProcPc \cup AuxPc]
    BY <1>0, <1>3 DEF TypeOK
  <2>2. \A a \in Aux : pc'[a] \in AuxPc
    BY <1>0, <1>3, <1>4 DEF TypeOK
  <2>3. owner' \in [Kind -> Actor \cup {NONE}]
    BY DEF MovedAux
  <2> QED
    BY <1>1, <1>3, <1>5, <2>1, <2>2, <2>3 DEF TypeOK
<1> QED
  BY <1>1, <1>2, <1>6, <1>7 DEF PermInv


-----------------------------------------------------------------------------
(* The actions of a process                                                *)

\* What PermInv says of process p alone.
LEMMA ProcFacts ==
    ASSUME TypeOK, PermInv, ActorAssumption, NEW p \in Proc
    PROVE  /\ CallerOK(p, pc[p], flag[p], want[p], exiting[p], kept[p])
           /\ \A m \in Kind : HasAt(m, pc[p], want[p], kept[p]) => owner[m] = p
           /\ \A m \in Kind : m \in flag[p] => pc[p] = ClearPc(m) \/ owner[m] = p
           /\ \A m \in Kind : owner[m] = p => HasAt(m, pc[p], want[p], kept[p]) \/ m \in flag[p]
           /\ \A m \in Kind : pc[p] = ClearPc(m) => owner[m] # p
           /\ susp[p] => pc[p] \in WaitPc \cup {"backout"}
           /\ kept[p] \in BOOLEAN /\ flag[p] \subseteq Kind /\ want[p] \in {"stage", "mod", "load"}
           /\ exiting[p] \in BOOLEAN
<1> USE ZenonT(30)
<1>0. p \in Actor /\ p \notin Aux /\ p # NONE
  BY ActorAssumption DEF Actor
<1>1. CallerOK(p, pc[p], flag[p], want[p], exiting[p], kept[p])
  BY CallerInvIs DEF PermInv
<1>2. \A m \in Kind : Has(p, m) <=> HasAt(m, pc[p], want[p], kept[p])
  BY HasIs
<1>3. \A m \in Kind : Has(p, m) => owner[m] = p
  BY <1>0 DEF PermInv, OwnerInv
<1>4. \A m \in Kind : Clearing(p, m) <=> pc[p] = ClearPc(m)
  BY DEF Clearing, ClearPc
<1>5. \A m \in Kind : m \in flag[p] => Clearing(p, m) \/ owner[m] = p
  BY DEF PermInv, OwnerInv, HandedOver
<1>6. \A m \in Kind : owner[m] = p => Has(p, m) \/ m \in flag[p]
  BY <1>0 DEF PermInv, OwnerInv, NotLeaked
<1>7. \A m \in Kind : Clearing(p, m) => owner[m] # p
  BY DEF PermInv, OwnerInv
<1>8. susp[p] => pc[p] \in WaitPc \cup {"backout"}
  BY DEF PermInv, QueueInv
<1>9. /\ kept[p] \in BOOLEAN /\ flag[p] \subseteq Kind /\ want[p] \in {"stage", "mod", "load"}
      /\ exiting[p] \in BOOLEAN
  BY DEF TypeOK
<1> QED
  BY <1>1, <1>2, <1>3, <1>4, <1>5, <1>6, <1>7, <1>8, <1>9

\* erts_try_seize_code_load_permission gives staging permission back when it
\* does not get modification permission.
LEMMA BackOutStep ==
    ASSUME TypeOK, PermInv, ActorAssumption, NEW p \in Proc, BackOut(p)
    PROVE  TypeOK' /\ PermInv'
<1> USE ZenonT(30)
<1>1. /\ pc[p] = "backout" /\ ReleaseTo(p, "stage", "wait") /\ UNCHANGED <<want, exiting, gcs>>
      /\ kept' = kept
  BY DEF BackOut
<1>2. /\ CallerOK(p, "backout", flag[p], want[p], exiting[p], kept[p])
      /\ \A m \in Kind : HasAt(m, "backout", want[p], kept[p]) => owner[m] = p
      /\ kept[p] \in BOOLEAN
  BY <1>1, ProcFacts, SMTT(30)
<1>3. ~kept[p] /\ "stage" \notin flag[p]
  BY <1>2 DEF CallerOK, RejectPc
<1>4. "stage" \in Kind /\ owner["stage"] = p /\ "wait" \in ProcPc /\ "wait" \in WaitPc
  BY <1>2 DEF HasAt, Kind, ProcPc, WaitPc
<1>5. /\ ~HasAt("stage", "wait", want[p], kept[p])
      /\ \A m \in Kind \ {"stage"} :
             HasAt(m, "wait", want[p], kept[p]) <=> HasAt(m, "backout", want[p], kept[p])
  BY <1>3 DEF HasAt
<1>6. CallerOK(p, "wait", flag[p], want[p], exiting[p], kept[p])
  BY <1>2, <1>3 DEF CallerOK, RejectPc
<1>7. \A m \in Kind : "wait" # ClearPc(m) /\ pc[p] # ClearPc(m)
  BY <1>1 DEF ClearPc
<1>8. kept' \in [Proc -> BOOLEAN]
  BY <1>1 DEF TypeOK
<1> QED
  BY <1>1, <1>3, <1>4, <1>5, <1>6, <1>7, <1>8, ReleaseProc, SMTT(30)


\* A release of a permission that was in use.
LEMMA ReleaseHeld ==
    ASSUME TypeOK, PermInv, ActorAssumption, NEW p \in Proc, NEW k \in Kind,
           NEW l \in {"idle", "purging", "releaseStage"},
           pc[p] \in {"holds", "releaseStage"}, HasAt(k, pc[p], want[p], kept[p]),
           ReleaseTo(p, k, l), UNCHANGED <<want, exiting, gcs>>,
           kept' \in [Proc -> BOOLEAN], \A q \in Proc \ {p} : kept'[q] = kept[q],
           kept'[p] => kept[p] /\ l # "idle",
           ~HasAt(k, l, want[p], kept'[p]),
           \A m \in Kind \ {k} :
               HasAt(m, l, want[p], kept'[p]) <=> HasAt(m, pc[p], want[p], kept[p])
    PROVE  TypeOK' /\ PermInv'
<1> USE ZenonT(30)
<1>1. /\ CallerOK(p, pc[p], flag[p], want[p], exiting[p], kept[p])
      /\ owner[k] = p
      /\ susp[p] => pc[p] \in WaitPc \cup {"backout"}
      /\ flag[p] \subseteq Kind
  BY ProcFacts
<1>2. ~susp[p]
  BY <1>1 DEF WaitPc, RejectPc
<1>3. flag[p] = {} /\ ~exiting[p]
  BY <1>1, SMTT(30) DEF CallerOK, RejectPc, Kind
<1>4. \A m \in Kind : l # ClearPc(m) /\ pc[p] # ClearPc(m)
  BY DEF ClearPc
<1>5. CallerOK(p, l, flag[p], want[p], exiting[p], kept'[p])
  BY <1>1, <1>3 DEF CallerOK
<1>6. l \in ProcPc /\ l \notin {"dead", "backout"}
  BY DEF ProcPc
<1> QED
  BY <1>1, <1>2, <1>3, <1>4, <1>5, <1>6, ReleaseProc

\* erts_release_code_{mod,stage}_permission, and the first half of
\* erts_release_code_load_permission.
LEMMA DoneStep ==
    ASSUME TypeOK, PermInv, ActorAssumption, NEW p \in Proc, Done(p)
    PROVE  TypeOK' /\ PermInv'
<1> USE ZenonT(30)
<1>1. /\ pc[p] = "holds" /\ UNCHANGED <<want, exiting, gcs>> /\ kept' = kept /\ p \notin Purger
      /\ "mod" \in Kind /\ "stage" \in Kind
  BY DEF Done, Kind
<1>2. CallerOK(p, "holds", flag[p], want[p], exiting[p], kept[p])
  BY <1>1, ProcFacts
<1>3. ~kept[p] /\ kept' \in [Proc -> BOOLEAN]
  BY <1>1, <1>2 DEF CallerOK, TypeOK
<1>4. \A m \in Kind : ~HasAt(m, "idle", want[p], kept[p])
  BY <1>3 DEF HasAt
<1>5. CASE want[p] = "mod" /\ ReleaseTo(p, "mod", "idle")
  <2>1. HasAt("mod", "holds", want[p], kept[p])
    BY <1>5 DEF HasAt
  <2>2. \A m \in Kind \ {"mod"} : ~HasAt(m, "holds", want[p], kept[p])
    BY <1>3, <1>5 DEF HasAt, Kind
  <2> QED
    BY <1>1, <1>3, <1>4, <1>5, <2>1, <2>2, ReleaseHeld
<1>6. CASE want[p] = "stage" /\ ReleaseTo(p, "stage", "idle")
  <2>1. HasAt("stage", "holds", want[p], kept[p])
    BY <1>6 DEF HasAt
  <2>2. \A m \in Kind \ {"stage"} : ~HasAt(m, "holds", want[p], kept[p])
    BY <1>6 DEF HasAt, Kind
  <2> QED
    BY <1>1, <1>3, <1>4, <1>6, <2>1, <2>2, ReleaseHeld
<1>7. CASE want[p] = "load" /\ ReleaseTo(p, "mod", "releaseStage")
  <2>1. HasAt("mod", "holds", want[p], kept[p])
    BY <1>7 DEF HasAt
  <2>2. \A m \in Kind \ {"mod"} : /\ HasAt(m, "holds", want[p], kept[p])
                                  /\ HasAt(m, "releaseStage", want[p], kept[p])
    BY <1>7 DEF HasAt, Kind
  <2>3. ~HasAt("mod", "releaseStage", want[p], kept[p])
    BY DEF HasAt
  <2> QED
    BY <1>1, <1>3, <1>7, <2>1, <2>2, <2>3, ReleaseHeld
<1> QED
  BY <1>5, <1>6, <1>7 DEF Done

\* The second half of erts_release_code_load_permission.
LEMMA ReleaseStageStep ==
    ASSUME TypeOK, PermInv, ActorAssumption, NEW p \in Proc, ReleaseStage(p)
    PROVE  TypeOK' /\ PermInv'
<1> USE ZenonT(30)
<1>1. /\ pc[p] = "releaseStage" /\ ReleaseTo(p, "stage", "idle") /\ UNCHANGED <<want, exiting, gcs>>
  BY DEF ReleaseStage
<1>2. /\ kept' \in [Proc -> BOOLEAN] /\ ~kept'[p] /\ \A q \in Proc \ {p} : kept'[q] = kept[q]
      /\ "stage" \in Kind
  BY DEF ReleaseStage, TypeOK, Kind
<1>3. HasAt("stage", "releaseStage", want[p], kept[p])
  BY DEF HasAt
<1>4. \A m \in Kind : ~HasAt(m, "idle", want[p], kept'[p])
  BY <1>2 DEF HasAt
<1>5. \A m \in Kind \ {"stage"} : ~HasAt(m, "releaseStage", want[p], kept[p])
  BY DEF HasAt
<1> QED
  BY <1>1, <1>2, <1>3, <1>4, <1>5, ReleaseHeld

\* purge_module/2 gives modification permission back when it has purged.
LEMMA PurgedStep ==
    ASSUME TypeOK, PermInv, ActorAssumption, NEW p \in Proc, Purged(p)
    PROVE  TypeOK' /\ PermInv'
<1> USE ZenonT(30)
<1>1. /\ pc[p] = "holds" /\ want[p] = "mod" /\ UNCHANGED <<want, exiting, gcs>> /\ kept' = kept
      /\ ReleaseTo(p, "mod", IF kept[p] THEN "releaseStage" ELSE "idle")
      /\ "mod" \in Kind
  BY DEF Purged, Kind
<1>2. kept' \in [Proc -> BOOLEAN]
  BY <1>1 DEF TypeOK
<1>3. HasAt("mod", "holds", want[p], kept[p])
  BY <1>1 DEF HasAt
<1>4. CASE kept[p]
  <2>1. ReleaseTo(p, "mod", "releaseStage")
    BY <1>1, <1>4
  <2>2. \A m \in Kind \ {"mod"} : /\ HasAt(m, "holds", want[p], kept[p])
                                  /\ HasAt(m, "releaseStage", want[p], kept[p])
    BY <1>4 DEF HasAt, Kind
  <2>3. ~HasAt("mod", "releaseStage", want[p], kept[p])
    BY DEF HasAt
  <2> QED
    BY <1>1, <1>2, <1>3, <1>4, <2>1, <2>2, <2>3, ReleaseHeld
<1>5. CASE ~kept[p]
  <2>1. ReleaseTo(p, "mod", "idle")
    BY <1>1, <1>5
  <2>2. \A m \in Kind \ {"mod"} : ~HasAt(m, "holds", want[p], kept[p])
    BY <1>1, <1>5 DEF HasAt, Kind
  <2>3. \A m \in Kind : ~HasAt(m, "idle", want[p], kept[p])
    BY <1>5 DEF HasAt
  <2> QED
    BY <1>1, <1>2, <1>3, <1>5, <2>1, <2>2, <2>3, ReleaseHeld
<1> QED
  BY <1>4, <1>5


\* erts_reject_code_permissions releases what was handed over.
LEMMA RejectStep ==
    ASSUME TypeOK, PermInv, ActorAssumption, NEW p \in Proc, NEW k \in Kind, pc[p] = "reject",
           k \in flag[p], ReleaseTo(p, k, ClearPc(k)), UNCHANGED <<want, exiting, kept, gcs>>
    PROVE  TypeOK' /\ PermInv'
<1> USE ZenonT(30)
<1>1. /\ CallerOK(p, "reject", flag[p], want[p], exiting[p], kept[p])
      /\ "reject" = ClearPc(k) \/ owner[k] = p
  BY ProcFacts
<1>2. /\ ClearPc(k) \in {"clearMod", "clearStage"}
      /\ \A m \in Kind : "reject" # ClearPc(m)
      /\ \A m \in Kind \ {k} : ClearPc(k) # ClearPc(m)
  BY DEF ClearPc, Kind
<1>3. owner[k] = p
  BY <1>1, <1>2
<1>4. k = "stage" => ~kept[p]
  BY <1>1 DEF CallerOK
<1>5. ~HasAt(k, ClearPc(k), want[p], kept[p])
  BY <1>2, <1>4 DEF HasAt
<1>6. \A m \in Kind : HasAt(m, ClearPc(k), want[p], kept[p]) <=> HasAt(m, "reject", want[p], kept[p])
  BY <1>2 DEF HasAt
<1>7. CallerOK(p, ClearPc(k), flag[p], want[p], exiting[p], kept[p])
  BY <1>1, <1>2 DEF CallerOK, RejectPc
<1>8. /\ ClearPc(k) \in ProcPc /\ ClearPc(k) \in WaitPc /\ ClearPc(k) \notin {"dead", "backout"}
      /\ kept' \in [Proc -> BOOLEAN]
  BY <1>2 DEF ProcPc, WaitPc, RejectPc, TypeOK
<1> QED
  BY <1>2, <1>3, <1>5, <1>6, <1>7, <1>8, ReleaseProc, SMTT(30)

\* A step of process p that releases nothing and enters no queue.
LEMMA MoveStep ==
    ASSUME TypeOK, PermInv, ActorAssumption, NEW p \in Proc, Moved(p), Accounted(p),
           CallerOK(p, pc'[p], flag'[p], want'[p], exiting'[p], kept'[p]),
           UNCHANGED <<queue, susp>>, flag'[p] \subseteq flag[p],
           susp[p] => pc'[p] \in WaitPc /\ want'[p] = want[p], pc'[p] # "backout"
    PROVE  TypeOK' /\ PermInv'
<1> USE ZenonT(30)
<1>1. QueueInv'
  BY MoveQueue
<1>2. OwnerInv'
  BY MoveOwner
<1>3. CallerInv'
  BY MoveCaller
<1>4. queue' \in [Kind -> Seq(Actor)] /\ susp' \in [Proc -> BOOLEAN]
  BY DEF TypeOK
<1>5. TypeOK'
  BY <1>4, MoveType
<1> QED
  BY <1>1, <1>2, <1>3, <1>5 DEF PermInv

\* What Goto(p, l) does.
LEMMA PcMoved ==
    ASSUME TypeOK, ActorAssumption, NEW p \in Proc, NEW l \in ProcPc, Goto(p, l)
    PROVE  /\ pc' \in [Actor -> ProcPc \cup AuxPc] /\ pc'[p] = l
           /\ \A a \in Aux : pc'[a] = pc[a]
           /\ \A q \in Proc \ {p} : pc'[q] = pc[q]
<1> USE ZenonT(30)
<1>1. p \in Actor /\ p \notin Aux
  BY ActorAssumption DEF Actor
<1>2. pc' \in [Actor -> ProcPc \cup AuxPc]
  BY <1>1 DEF Goto, TypeOK
<1>3. pc'[p] = l /\ \A a \in Actor \ {p} : pc'[a] = pc[a]
  BY <1>1 DEF Goto, TypeOK
<1> QED
  BY <1>1, <1>2, <1>3 DEF Actor

\* The steps that only move the process on: Retry, Abort, StartGc, EndGc, and
\* Reject when nothing is left to reject.
LEMMA GotoStep ==
    ASSUME TypeOK, PermInv, ActorAssumption, NEW p \in Proc, NEW l \in ProcPc, Goto(p, l),
           UNCHANGED <<permVars, flag, susp, exiting, want, kept>>, gcs' \in Nat,
           susp[p] => l \in WaitPc, l # "backout",
           \A m \in Kind : l # ClearPc(m) /\ pc[p] # ClearPc(m),
           \A m \in Kind : HasAt(m, l, want[p], kept[p]) <=> HasAt(m, pc[p], want[p], kept[p]),
           l = "dead" => flag[p] = {},
           CallerOK(p, l, flag[p], want[p], exiting[p], kept[p])
    PROVE  TypeOK' /\ PermInv'
<1> USE ZenonT(30)
<1>1. UNCHANGED <<owner, queue, flag, susp, exiting, want, kept>>
  BY DEF permVars
<1>2. /\ pc' \in [Actor -> ProcPc \cup AuxPc] /\ pc'[p] = l
      /\ \A a \in Aux : pc'[a] = pc[a]
      /\ \A q \in Proc \ {p} : pc'[q] = pc[q]
  BY PcMoved
<1>3. Moved(p)
  BY <1>1, <1>2 DEF Moved, TypeOK
<1>4. /\ \A m \in Kind : HasAt(m, pc[p], want[p], kept[p]) => owner[m] = p
      /\ \A m \in Kind : m \in flag[p] => pc[p] = ClearPc(m) \/ owner[m] = p
      /\ \A m \in Kind : owner[m] = p => HasAt(m, pc[p], want[p], kept[p]) \/ m \in flag[p]
  BY ProcFacts
<1>5. Accounted(p)
  <2> SUFFICES ASSUME NEW m \in Kind
               PROVE  /\ HasAt(m, l, want[p], kept[p]) => owner[m] = p
                      /\ m \in flag[p] => l = ClearPc(m) \/ owner[m] = p
                      /\ owner[m] = p => \/ HasAt(m, l, want[p], kept[p])
                                         \/ m \in flag[p] /\ l # "dead"
                      /\ l = ClearPc(m) => owner[m] # p
    BY <1>1, <1>2 DEF Accounted
  <2>1. l # ClearPc(m) /\ pc[p] # ClearPc(m)
    OBVIOUS
  <2>2. m \in flag[p] => l # "dead"
    OBVIOUS
  <2> QED
    BY <1>4, <2>1, <2>2
<1>6. CallerOK(p, pc'[p], flag'[p], want'[p], exiting'[p], kept'[p])
  BY <1>1, <1>2
<1>7. /\ UNCHANGED <<queue, susp>> /\ flag'[p] \subseteq flag[p]
      /\ susp[p] => pc'[p] \in WaitPc /\ want'[p] = want[p]
      /\ pc'[p] # "backout"
  BY <1>1, <1>2
<1> QED
  BY <1>3, <1>5, <1>6, <1>7, MoveStep


\* A process that waits tries again, or starts or ends a garbage collection.
LEMMA WaitSteps ==
    ASSUME TypeOK, PermInv, ActorAssumption, NEW p \in Proc, Retry(p) \/ StartGc(p) \/ EndGc(p)
    PROVE  TypeOK' /\ PermInv'
<1> USE ZenonT(30)
<1>0. /\ CallerOK(p, pc[p], flag[p], want[p], exiting[p], kept[p])
      /\ flag[p] \subseteq Kind /\ gcs \in Nat
  BY ProcFacts DEF TypeOK
<1>1. \A m \in Kind : ClearPc(m) \notin {"wait", "gc", "reject", "try"}
  BY DEF ClearPc
<1>2. {"wait", "gc", "reject", "try"} \subseteq ProcPc /\ {"wait", "gc", "reject"} \subseteq WaitPc
  BY DEF ProcPc, WaitPc, RejectPc
<1>3. \A m \in Kind, a, b \in {"wait", "gc", "reject", "try"} :
         HasAt(m, a, want[p], kept[p]) <=> HasAt(m, b, want[p], kept[p])
  BY DEF HasAt
<1>4. CASE Retry(p)
  <2>1. /\ pc[p] = "wait" /\ ~susp[p] /\ Goto(p, "try") /\ gcs' = gcs
        /\ UNCHANGED <<permVars, flag, susp, exiting, want, kept>>
    BY <1>4 DEF Retry
  <2>2. CallerOK(p, "try", flag[p], want[p], exiting[p], kept[p])
    BY <1>0, <2>1 DEF CallerOK, RejectPc
  <2> QED
    BY <1>0, <1>1, <1>2, <1>3, <2>1, <2>2, GotoStep
<1>5. CASE StartGc(p)
  <2> DEFINE to == IF flag[p] = {} THEN "gc" ELSE "reject"
  <2>1. /\ pc[p] = "wait" /\ Goto(p, to) /\ gcs' = gcs + 1
        /\ UNCHANGED <<permVars, flag, susp, exiting, want, kept>>
    BY <1>5 DEF StartGc
  <2>2. to \in {"gc", "reject"} /\ gcs' \in Nat
    BY <1>0, <2>1, SMTT(30)
  <2>3. CallerOK(p, to, flag[p], want[p], exiting[p], kept[p])
    BY <1>0, <2>1 DEF CallerOK, RejectPc
  <2> HIDE DEF to
  <2> QED
    BY <1>1, <1>2, <1>3, <2>1, <2>2, <2>3, GotoStep
<1>6. CASE EndGc(p)
  <2>1. /\ pc[p] = "gc" /\ Goto(p, "wait") /\ gcs' = gcs
        /\ UNCHANGED <<permVars, flag, susp, exiting, want, kept>>
    BY <1>6 DEF EndGc
  <2>2. CallerOK(p, "wait", flag[p], want[p], exiting[p], kept[p])
    BY <1>0, <2>1 DEF CallerOK, RejectPc
  <2> QED
    BY <1>0, <1>1, <1>2, <1>3, <2>1, <2>2, GotoStep
<1> QED
  BY <1>4, <1>5, <1>6

\* purge_module/2 aborts.
LEMMA AbortStep ==
    ASSUME TypeOK, PermInv, ActorAssumption, NEW p \in Proc, Abort(p)
    PROVE  TypeOK' /\ PermInv'
<1> USE ZenonT(30)
<1> DEFINE to == IF kept[p] THEN "releaseStage" ELSE "idle"
<1>1. /\ pc[p] = "purging" /\ Goto(p, to) /\ gcs' = gcs
      /\ UNCHANGED <<permVars, flag, susp, exiting, want, kept>>
  BY DEF Abort
<1>2. /\ CallerOK(p, pc[p], flag[p], want[p], exiting[p], kept[p])
      /\ flag[p] \subseteq Kind /\ gcs \in Nat
      /\ susp[p] => pc[p] \in WaitPc \cup {"backout"}
  BY ProcFacts DEF TypeOK
<1>3. \A m \in Kind : ClearPc(m) \notin {"purging", "releaseStage", "idle"}
  BY DEF ClearPc
<1>4. ~susp[p]
  BY <1>1, <1>2 DEF WaitPc, RejectPc
<1>5. to \in {"releaseStage", "idle"} /\ to \in ProcPc
  BY DEF ProcPc
<1>6. \A m \in Kind : HasAt(m, to, want[p], kept[p]) <=> HasAt(m, "purging", want[p], kept[p])
  BY DEF HasAt
<1>7. CallerOK(p, to, flag[p], want[p], exiting[p], kept[p])
  BY <1>1, <1>2 DEF CallerOK, RejectPc
<1> HIDE DEF to
<1> QED
  BY <1>1, <1>2, <1>3, <1>4, <1>5, <1>6, <1>7, GotoStep

\* erts_reject_code_permissions, each round of it.
LEMMA RejectSteps ==
    ASSUME TypeOK, PermInv, ActorAssumption, NEW p \in Proc, Reject(p)
    PROVE  TypeOK' /\ PermInv'
<1> USE ZenonT(30)
<1> DEFINE to == IF exiting[p] THEN "dead" ELSE "gc"
<1>1. pc[p] = "reject" /\ UNCHANGED <<want, exiting, kept, gcs>>
  BY DEF Reject
<1>2. CASE "mod" \in flag[p] /\ ReleaseTo(p, "mod", "clearMod")
  <2>1. "mod" \in Kind /\ ClearPc("mod") = "clearMod"
    BY DEF ClearPc, Kind
  <2> QED
    BY <1>1, <1>2, <2>1, RejectStep
<1>3. CASE "stage" \in flag[p] /\ ReleaseTo(p, "stage", "clearStage")
  <2>1. "stage" \in Kind /\ ClearPc("stage") = "clearStage"
    BY DEF ClearPc, Kind
  <2> QED
    BY <1>1, <1>3, <2>1, RejectStep
<1>4. CASE flag[p] = {} /\ Goto(p, to) /\ UNCHANGED <<permVars, flag, susp>>
  <2>1. CallerOK(p, pc[p], flag[p], want[p], exiting[p], kept[p]) /\ gcs \in Nat
    BY ProcFacts DEF TypeOK
  <2>2. \A m \in Kind : ClearPc(m) \notin {"reject", "dead", "gc"}
    BY DEF ClearPc
  <2>3. to \in {"dead", "gc"} /\ to \in ProcPc /\ to \in WaitPc
    BY DEF ProcPc, WaitPc
  <2>4. \A m \in Kind : HasAt(m, to, want[p], kept[p]) <=> HasAt(m, pc[p], want[p], kept[p])
    BY <1>1 DEF HasAt
  <2>5. CallerOK(p, to, flag[p], want[p], exiting[p], kept[p])
    BY <1>1, <1>4, <2>1 DEF CallerOK, RejectPc
  <2>6. UNCHANGED <<permVars, flag, susp, exiting, want, kept>> /\ gcs' \in Nat
    BY <1>1, <1>4, <2>1
  <2>7. Goto(p, to) /\ flag[p] = {}
    BY <1>4
  <2> HIDE DEF to
  <2>8. /\ \A m \in Kind : to # ClearPc(m) /\ pc[p] # ClearPc(m)
        /\ to # "backout"
    BY <1>1, <2>2, <2>3
  <2> QED
    BY <2>3, <2>4, <2>5, <2>6, <2>7, <2>8, GotoStep
<1> QED
  BY <1>2, <1>3, <1>4 DEF Reject


\* Request and Complete: the process is not waiting and was handed nothing; it
\* decides which permission to ask for.
LEMMA AskStep ==
    ASSUME TypeOK, PermInv, ActorAssumption, NEW p \in Proc, Request(p) \/ Complete(p)
    PROVE  TypeOK' /\ PermInv'
<1> USE ZenonT(30)
<1>1. /\ pc[p] \in {"idle", "purging"} /\ Goto(p, "try")
      /\ UNCHANGED <<owner, queue, flag, susp, exiting, kept, gcs>>
  BY DEF Request, Complete, permVars
<1>2. PICK w : /\ want' = [want EXCEPT ![p] = w] /\ w \in {"stage", "mod", "load"}
               /\ p \in Purger => w # "load"
               /\ kept[p] => w = "mod"
  <2>1. CASE Request(p)
    <3>1. PICK v \in Wants : want' = [want EXCEPT ![p] = IF p \in Purger THEN "stage" ELSE v]
      BY <2>1 DEF Request
    <3>2. CallerOK(p, pc[p], flag[p], want[p], exiting[p], kept[p]) /\ pc[p] = "idle"
      BY <2>1, ProcFacts DEF Request
    <3>3. ~kept[p]
      BY <3>2 DEF CallerOK
    <3> QED
      BY <3>1, <3>3, ActorAssumption
  <2>2. CASE Complete(p)
    BY <2>2 DEF Complete
  <2> QED
    BY <2>1, <2>2
<1>3. /\ CallerOK(p, pc[p], flag[p], want[p], exiting[p], kept[p])
      /\ \A m \in Kind : HasAt(m, pc[p], want[p], kept[p]) => owner[m] = p
      /\ \A m \in Kind : owner[m] = p => HasAt(m, pc[p], want[p], kept[p]) \/ m \in flag[p]
      /\ susp[p] => pc[p] \in WaitPc \cup {"backout"}
      /\ flag[p] \subseteq Kind
  BY ProcFacts
<1>4. ~susp[p]
  BY <1>1, <1>3 DEF WaitPc, RejectPc
<1>5. flag[p] = {} /\ ~exiting[p]
  BY <1>1, <1>3 DEF CallerOK, RejectPc, Kind
<1>6. "try" \in ProcPc
  BY DEF ProcPc
<1>7. /\ pc' \in [Actor -> ProcPc \cup AuxPc] /\ pc'[p] = "try"
      /\ \A a \in Aux : pc'[a] = pc[a]
      /\ \A q \in Proc \ {p} : pc'[q] = pc[q]
  BY <1>1, <1>6, PcMoved
<1>8. /\ want' \in [Proc -> {"stage", "mod", "load"}] /\ want'[p] = w
      /\ \A q \in Proc \ {p} : want'[q] = want[q]
  BY <1>2 DEF TypeOK
<1>9. Moved(p)
  BY <1>1, <1>6, <1>7, <1>8 DEF Moved, TypeOK
<1>10. \A m \in Kind : HasAt(m, "try", w, kept[p]) <=> HasAt(m, pc[p], want[p], kept[p])
  BY <1>1 DEF HasAt
<1>11. Accounted(p)
  <2>1. \A m \in Kind : "try" # ClearPc(m)
    BY DEF ClearPc
  <2>2. \A m \in Kind : HasAt(m, "try", w, kept[p]) <=> owner[m] = p
    BY <1>3, <1>5, <1>10
  <2>3. owner' = owner /\ flag'[p] = {} /\ kept'[p] = kept[p]
    BY <1>1, <1>5
  <2> QED
    BY <1>7, <1>8, <2>1, <2>2, <2>3 DEF Accounted
<1>12. CallerOK(p, "try", flag[p], w, exiting[p], kept[p])
  BY <1>1, <1>2, <1>3, <1>5 DEF CallerOK
<1>13. /\ CallerOK(p, pc'[p], flag'[p], want'[p], exiting'[p], kept'[p])
       /\ UNCHANGED <<queue, susp>> /\ flag'[p] \subseteq flag[p]
       /\ pc'[p] # "backout"
  BY <1>1, <1>7, <1>8, <1>12
<1> QED
  BY <1>4, <1>9, <1>11, <1>13, MoveStep

\* purge_module/2 prepares: staging permission is given back or kept.
LEMMA PreparedStep ==
    ASSUME TypeOK, PermInv, ActorAssumption, NEW p \in Proc, Prepared(p)
    PROVE  TypeOK' /\ PermInv'
<1> USE ZenonT(30)
<1>1. /\ pc[p] = "holds" /\ want[p] = "stage" /\ UNCHANGED <<want, exiting, gcs>>
      /\ "stage" \in Kind /\ p \in Purger
  BY DEF Prepared, Kind
<1>2. /\ CallerOK(p, pc[p], flag[p], want[p], exiting[p], kept[p])
      /\ \A m \in Kind : HasAt(m, pc[p], want[p], kept[p]) => owner[m] = p
      /\ \A m \in Kind : owner[m] = p => HasAt(m, pc[p], want[p], kept[p]) \/ m \in flag[p]
      /\ susp[p] => pc[p] \in WaitPc \cup {"backout"}
      /\ flag[p] \subseteq Kind
  BY ProcFacts
<1>3. ~kept[p]
  BY <1>1, <1>2 DEF CallerOK
<1>4. \A m \in Kind : HasAt(m, "holds", want[p], kept[p]) <=> m = "stage"
  BY <1>1, <1>3 DEF HasAt
<1>5. ASSUME NEW l \in {"idle", "purging"}, ReleaseTo(p, "stage", l), UNCHANGED kept
      PROVE  TypeOK' /\ PermInv'
  <2>1. \A m \in Kind : ~HasAt(m, l, want[p], kept[p])
    BY <1>3 DEF HasAt
  <2>2. kept' \in [Proc -> BOOLEAN] /\ kept' = kept
    BY <1>5 DEF TypeOK
  <2> QED
    BY <1>1, <1>3, <1>4, <1>5, <2>1, <2>2, ReleaseHeld, SMTT(30)
<1>6. ASSUME kept' = [kept EXCEPT ![p] = TRUE], Goto(p, "purging"),
             UNCHANGED <<permVars, flag, susp>>
      PROVE  TypeOK' /\ PermInv'
  <2>0. "purging" \in ProcPc
    BY DEF ProcPc
  <2>1. /\ pc' \in [Actor -> ProcPc \cup AuxPc] /\ pc'[p] = "purging"
        /\ \A a \in Aux : pc'[a] = pc[a]
        /\ \A q \in Proc \ {p} : pc'[q] = pc[q]
    BY <1>6, <2>0, PcMoved
  <2>2. kept' \in [Proc -> BOOLEAN] /\ kept'[p] /\ \A q \in Proc \ {p} : kept'[q] = kept[q]
    BY <1>6 DEF TypeOK
  <2>3. UNCHANGED <<owner, queue, flag, susp>>
    BY <1>6 DEF permVars
  <2>4. Moved(p)
    BY <1>1, <2>0, <2>1, <2>2, <2>3 DEF Moved, TypeOK
  <2>5. ~susp[p]
    BY <1>1, <1>2 DEF WaitPc, RejectPc
  <2>6. flag[p] = {} /\ ~exiting[p]
    BY <1>1, <1>2 DEF CallerOK, RejectPc, Kind
  <2>7. \A m \in Kind : HasAt(m, "purging", want[p], kept'[p]) <=> m = "stage"
    BY <2>2 DEF HasAt
  <2>8. Accounted(p)
    <3>1. \A m \in Kind : "purging" # ClearPc(m)
      BY DEF ClearPc
    <3>2. \A m \in Kind : owner[m] = p <=> m = "stage"
      BY <1>1, <1>2, <1>4, <2>6
    <3>3. UNCHANGED <<want, owner, flag>>
      BY <1>1, <2>3
    <3> QED
      BY <2>1, <2>6, <2>7, <3>1, <3>2, <3>3 DEF Accounted
  <2>9. CallerOK(p, "purging", flag[p], want[p], exiting[p], kept'[p])
    BY <1>1, <2>6 DEF CallerOK
  <2>10. /\ CallerOK(p, pc'[p], flag'[p], want'[p], exiting'[p], kept'[p])
         /\ UNCHANGED <<queue, susp>> /\ flag'[p] \subseteq flag[p]
         /\ pc'[p] # "backout"
    BY <1>1, <2>1, <2>3, <2>9
  <2> QED
    BY <2>4, <2>5, <2>8, <2>10, MoveStep
<1> QED
  BY <1>5, <1>6 DEF Prepared

\* erts_continue_exit_process: the process starts to reject.
LEMMA ExitStep ==
    ASSUME TypeOK, PermInv, ActorAssumption, NEW p \in Proc, Exit(p)
    PROVE  TypeOK' /\ PermInv'
<1> USE ZenonT(30)
<1>1. /\ pc[p] = "wait" /\ p \notin Purger /\ Goto(p, "reject")
      /\ UNCHANGED <<owner, queue, flag, susp, want, kept, gcs>>
  BY DEF Exit, permVars
<1>2. /\ CallerOK(p, pc[p], flag[p], want[p], exiting[p], kept[p])
      /\ \A m \in Kind : HasAt(m, pc[p], want[p], kept[p]) => owner[m] = p
      /\ \A m \in Kind : m \in flag[p] => pc[p] = ClearPc(m) \/ owner[m] = p
      /\ \A m \in Kind : owner[m] = p => HasAt(m, pc[p], want[p], kept[p]) \/ m \in flag[p]
  BY ProcFacts
<1>3. /\ "reject" \in ProcPc /\ "reject" \in WaitPc
      /\ \A m \in Kind : "reject" # ClearPc(m) /\ "wait" # ClearPc(m)
  BY DEF ProcPc, WaitPc, RejectPc, ClearPc
<1>4. /\ pc' \in [Actor -> ProcPc \cup AuxPc] /\ pc'[p] = "reject"
      /\ \A a \in Aux : pc'[a] = pc[a]
      /\ \A q \in Proc \ {p} : pc'[q] = pc[q]
  BY <1>1, <1>3, PcMoved
<1>5. exiting' \in [Proc -> BOOLEAN] /\ exiting'[p] /\ \A q \in Proc \ {p} : exiting'[q] = exiting[q]
  BY DEF Exit, TypeOK
<1>6. Moved(p)
  BY <1>1, <1>3, <1>4, <1>5 DEF Moved, TypeOK
<1>7. \A m \in Kind : HasAt(m, "reject", want[p], kept[p]) <=> HasAt(m, "wait", want[p], kept[p])
  BY DEF HasAt
<1>8. Accounted(p)
  BY <1>1, <1>2, <1>3, <1>4, <1>7 DEF Accounted
<1>9. CallerOK(p, "reject", flag[p], want[p], exiting'[p], kept[p])
  BY <1>1, <1>2 DEF CallerOK, RejectPc
<1>10. /\ CallerOK(p, pc'[p], flag'[p], want'[p], exiting'[p], kept'[p])
       /\ UNCHANGED <<queue, susp>> /\ flag'[p] \subseteq flag[p]
       /\ pc'[p] \in WaitPc /\ want'[p] = want[p] /\ pc'[p] # "backout"
  BY <1>1, <1>3, <1>4, <1>9
<1> QED
  BY <1>6, <1>8, <1>10, MoveStep


\* erts_reject_code_permissions clears the flag of what it has released.
LEMMA ClearStep ==
    ASSUME TypeOK, PermInv, ActorAssumption, NEW p \in Proc, Clear(p)
    PROVE  TypeOK' /\ PermInv'
<1> USE ZenonT(30)
<1>1. /\ Goto(p, "reject") /\ UNCHANGED <<owner, queue, susp, exiting, want, kept, gcs>>
  BY DEF Clear, permVars
<1>2. PICK k \in Kind : pc[p] = ClearPc(k) /\ flag' = [flag EXCEPT ![p] = @ \ {k}]
  BY DEF Clear, ClearPc, Kind
<1>3. /\ CallerOK(p, pc[p], flag[p], want[p], exiting[p], kept[p])
      /\ \A m \in Kind : HasAt(m, pc[p], want[p], kept[p]) => owner[m] = p
      /\ \A m \in Kind : m \in flag[p] => pc[p] = ClearPc(m) \/ owner[m] = p
      /\ \A m \in Kind : owner[m] = p => HasAt(m, pc[p], want[p], kept[p]) \/ m \in flag[p]
      /\ \A m \in Kind : pc[p] = ClearPc(m) => owner[m] # p
  BY ProcFacts
<1>4. /\ "reject" \in ProcPc /\ "reject" \in WaitPc
      /\ \A m \in Kind : "reject" # ClearPc(m)
      /\ \A m \in Kind \ {k} : ClearPc(k) # ClearPc(m)
      /\ ClearPc(k) \in {"clearMod", "clearStage"}
  BY SMTT(30) DEF ProcPc, WaitPc, RejectPc, ClearPc, Kind
<1>5. /\ pc' \in [Actor -> ProcPc \cup AuxPc] /\ pc'[p] = "reject"
      /\ \A a \in Aux : pc'[a] = pc[a]
      /\ \A q \in Proc \ {p} : pc'[q] = pc[q]
  BY <1>1, <1>4, PcMoved
<1>6. /\ flag' \in [Proc -> SUBSET Kind] /\ flag'[p] = flag[p] \ {k}
      /\ \A q \in Proc \ {p} : flag'[q] = flag[q]
  BY <1>2 DEF TypeOK
<1>7. Moved(p)
  BY <1>1, <1>4, <1>5, <1>6 DEF Moved, TypeOK
<1>8. \A m \in Kind : HasAt(m, "reject", want[p], kept[p]) <=> HasAt(m, pc[p], want[p], kept[p])
  BY <1>2, <1>4 DEF HasAt
<1>9. Accounted(p)
  <2> SUFFICES ASSUME NEW m \in Kind
               PROVE  /\ HasAt(m, "reject", want[p], kept[p]) => owner[m] = p
                      /\ m \in flag[p] \ {k} => owner[m] = p
                      /\ owner[m] = p => \/ HasAt(m, "reject", want[p], kept[p])
                                         \/ m \in flag[p] \ {k}
    BY <1>1, <1>4, <1>5, <1>6 DEF Accounted
  <2>1. m \in flag[p] \ {k} => owner[m] = p
    BY <1>2, <1>3, <1>4
  <2>2. owner[m] = p => m # k
    BY <1>2, <1>3
  <2> QED
    BY <1>3, <1>8, <2>1, <2>2
<1>10. CallerOK(p, "reject", flag[p] \ {k}, want[p], exiting[p], kept[p])
  BY <1>2, <1>3, <1>4 DEF CallerOK, RejectPc
<1>11. /\ CallerOK(p, pc'[p], flag'[p], want'[p], exiting'[p], kept'[p])
       /\ UNCHANGED <<queue, susp>> /\ flag'[p] \subseteq flag[p]
       /\ pc'[p] \in WaitPc /\ want'[p] = want[p] /\ pc'[p] # "backout"
  BY <1>1, <1>4, <1>5, <1>6, <1>10
<1> QED
  BY <1>7, <1>9, <1>11, MoveStep

\* The caller gets k, by handover or because it is free.
LEMMA WonStep ==
    ASSUME TypeOK, PermInv, ActorAssumption, NEW p \in Proc, NEW k \in Kind,
           NEW won \in {"holds", "tryMod"}, pc[p] \in {"try", "tryMod"},
           TakeHandover(p, k, won) \/ Seize(p, k, won), UNCHANGED <<exiting, want, kept, gcs>>,
           HasAt(k, won, want[p], kept[p]),
           \A m \in Kind \ {k} : HasAt(m, won, want[p], kept[p]) <=> HasAt(m, pc[p], want[p], kept[p]),
           CallerOK(p, won, flag[p] \ {k}, want[p], exiting[p], kept[p])
    PROVE  TypeOK' /\ PermInv'
<1> USE ZenonT(30)
<1>1. /\ \A m \in Kind : HasAt(m, pc[p], want[p], kept[p]) => owner[m] = p
      /\ \A m \in Kind : m \in flag[p] => pc[p] = ClearPc(m) \/ owner[m] = p
      /\ \A m \in Kind : owner[m] = p => HasAt(m, pc[p], want[p], kept[p]) \/ m \in flag[p]
      /\ susp[p] => pc[p] \in WaitPc \cup {"backout"}
  BY ProcFacts
<1>2. /\ won \in ProcPc
      /\ \A m \in Kind : won # ClearPc(m) /\ pc[p] # ClearPc(m)
  BY DEF ProcPc, ClearPc
<1>3. ~susp[p]
  BY <1>1 DEF WaitPc, RejectPc
<1>4. Goto(p, won) /\ UNCHANGED <<queue, susp>>
  BY DEF TakeHandover, Seize, permVars
<1>5. /\ pc' \in [Actor -> ProcPc \cup AuxPc] /\ pc'[p] = won
      /\ \A a \in Aux : pc'[a] = pc[a]
      /\ \A q \in Proc \ {p} : pc'[q] = pc[q]
  BY <1>2, <1>4, PcMoved
<1>6. /\ owner' \in [Kind -> Actor \cup {NONE}] /\ owner'[k] = p
      /\ \A m \in Kind \ {k} : owner'[m] = owner[m]
      /\ owner[k] \in {p, NONE}
  <2>1. CASE TakeHandover(p, k, won)
    <3>1. k \in flag[p] /\ owner' = owner
      BY <2>1 DEF TakeHandover, permVars
    <3> QED
      BY <1>1, <1>2, <3>1 DEF TypeOK
  <2>2. CASE Seize(p, k, won)
    <3>1. owner[k] = NONE /\ owner' = [owner EXCEPT ![k] = p] /\ p \in Actor
      BY <2>2 DEF Seize, Actor
    <3> QED
      BY <3>1 DEF TypeOK
  <2> QED
    BY <2>1, <2>2
<1>7. /\ flag' \in [Proc -> SUBSET Kind] /\ flag'[p] = flag[p] \ {k}
      /\ \A q \in Proc \ {p} : flag'[q] = flag[q]
  <2>1. CASE TakeHandover(p, k, won)
    BY <2>1 DEF TakeHandover, TypeOK
  <2>2. CASE Seize(p, k, won)
    BY <2>2, SMTT(30) DEF Seize, TypeOK
  <2> QED
    BY <2>1, <2>2
<1>8. Moved(p)
  <2>1. \A m \in Kind : owner'[m] = owner[m] \/ (owner[m] = NONE /\ owner'[m] = p)
    BY <1>6
  <2> QED
    BY <1>2, <1>5, <1>6, <1>7, <2>1 DEF Moved, TypeOK
<1>9. Accounted(p)
  <2> SUFFICES ASSUME NEW m \in Kind
               PROVE  /\ HasAt(m, won, want[p], kept[p]) => owner'[m] = p
                      /\ m \in flag[p] \ {k} => owner'[m] = p
                      /\ owner'[m] = p => \/ HasAt(m, won, want[p], kept[p])
                                          \/ m \in flag[p] \ {k}
    BY <1>2, <1>5, <1>7 DEF Accounted
  <2>1. CASE m = k
    BY <1>6, <2>1
  <2>2. CASE m # k
    BY <1>1, <1>2, <1>6, <2>2
  <2> QED
    BY <2>1, <2>2
<1>10. /\ CallerOK(p, pc'[p], flag'[p], want'[p], exiting'[p], kept'[p])
       /\ flag'[p] \subseteq flag[p] /\ pc'[p] # "backout"
  BY <1>5, <1>7
<1> QED
  BY <1>3, <1>4, <1>8, <1>9, <1>10, MoveStep

\* The caller enters the queue of k, and is suspended.
LEMMA LostStep ==
    ASSUME TypeOK, PermInv, ActorAssumption, NEW p \in Proc, NEW k \in Kind,
           NEW failed \in {"wait", "backout"}, pc[p] \in {"try", "tryMod"},
           Enqueue(p, k, failed), UNCHANGED <<exiting, want, kept, gcs>>,
           failed = "backout" => k = "mod", want[p] \in {k, "load"},
           k = "mod" => "stage" \notin flag[p],
           ~HasAt(k, pc[p], want[p], kept[p]),
           \A m \in Kind : HasAt(m, failed, want[p], kept[p]) <=> HasAt(m, pc[p], want[p], kept[p]),
           CallerOK(p, failed, flag[p], want[p], exiting[p], kept[p])
    PROVE  TypeOK' /\ PermInv'
<1> USE ZenonT(30)
<1>1. /\ \A m \in Kind : HasAt(m, pc[p], want[p], kept[p]) => owner[m] = p
      /\ \A m \in Kind : m \in flag[p] => pc[p] = ClearPc(m) \/ owner[m] = p
      /\ \A m \in Kind : owner[m] = p => HasAt(m, pc[p], want[p], kept[p]) \/ m \in flag[p]
      /\ susp[p] => pc[p] \in WaitPc \cup {"backout"}
  BY ProcFacts
<1>2. /\ failed \in ProcPc
      /\ \A m \in Kind : failed # ClearPc(m) /\ pc[p] # ClearPc(m)
  BY DEF ProcPc, ClearPc
<1>3. ~susp[p]
  BY <1>1 DEF WaitPc, RejectPc
<1>4. /\ Goto(p, failed) /\ k \notin flag[p] /\ owner[k] # NONE /\ UNCHANGED <<owner, flag>>
      /\ queue' = [queue EXCEPT ![k] = Append(@, p)] /\ susp' = [susp EXCEPT ![p] = TRUE]
  BY DEF Enqueue
<1>5. owner[k] \notin {NONE, p}
  BY <1>1, <1>4
<1>6. /\ pc' \in [Actor -> ProcPc \cup AuxPc] /\ pc'[p] = failed
      /\ \A a \in Aux : pc'[a] = pc[a]
      /\ \A q \in Proc \ {p} : pc'[q] = pc[q]
  BY <1>2, <1>4, PcMoved
<1>7. UNCHANGED <<owner, flag>>
  BY <1>4
<1>8. Moved(p)
  BY <1>2, <1>6, <1>7 DEF Moved, TypeOK
<1>9. Accounted(p)
  BY <1>1, <1>2, <1>6, <1>7 DEF Accounted
<1>10. CallerOK(p, pc'[p], flag'[p], want'[p], exiting'[p], kept'[p])
  BY <1>6, <1>7
<1>11. QueueInv' /\ queue' \in [Kind -> Seq(Actor)]
  <2>1. /\ pc'[p] = "wait" \/ (pc'[p] = "backout" /\ k = "mod")
        /\ want'[p] \in {k, "load"} /\ (k = "mod" => "stage" \notin flag'[p])
    BY <1>6, <1>7
  <2> QED
    BY <1>3, <1>4, <1>5, <1>8, <2>1, EnqueueQueue
<1>12. susp' \in [Proc -> BOOLEAN]
  BY <1>4 DEF TypeOK
<1>13. TypeOK'
  BY <1>8, <1>11, <1>12, MoveType
<1>14. OwnerInv'
  BY <1>8, <1>9, MoveOwner
<1>15. CallerInv'
  BY <1>8, <1>10, MoveCaller
<1> QED
  BY <1>11, <1>13, <1>14, <1>15 DEF PermInv


\* erts_try_seize_code_{mod,stage,load}_permission.
LEMMA TryStep ==
    ASSUME TypeOK, PermInv, ActorAssumption, NEW p \in Proc, Try(p) \/ TryMod(p)
    PROVE  TypeOK' /\ PermInv'
<1> USE ZenonT(30)
<1>1. /\ CallerOK(p, pc[p], flag[p], want[p], exiting[p], kept[p])
      /\ flag[p] \subseteq Kind
  BY ProcFacts
<1>2. "mod" \in Kind /\ "stage" \in Kind
  BY DEF Kind
<1>3. ASSUME NEW k \in Kind, NEW won \in {"holds", "tryMod"}, NEW failed \in {"wait", "backout"},
             TrySeize(p, k, won, failed), pc[p] \in {"try", "tryMod"},
             HasAt(k, won, want[p], kept[p]), ~HasAt(k, pc[p], want[p], kept[p]),
             \A m \in Kind \ {k} : HasAt(m, won, want[p], kept[p]) <=> HasAt(m, pc[p], want[p], kept[p]),
             \A m \in Kind : HasAt(m, failed, want[p], kept[p]) <=> HasAt(m, pc[p], want[p], kept[p]),
             CallerOK(p, won, flag[p] \ {k}, want[p], exiting[p], kept[p]),
             CallerOK(p, failed, flag[p], want[p], exiting[p], kept[p]),
             failed = "backout" => k = "mod", want[p] \in {k, "load"},
             k = "mod" => "stage" \notin flag[p]
      PROVE  TypeOK' /\ PermInv'
  <2>1. UNCHANGED <<exiting, want, kept, gcs>>
    BY <1>3 DEF TrySeize
  <2>2. CASE TakeHandover(p, k, won) \/ Seize(p, k, won)
    BY <1>3, <2>1, <2>2, WonStep, SMTT(30)
  <2>3. CASE Enqueue(p, k, failed)
    BY <1>3, <2>1, <2>3, LostStep
  <2> QED
    BY <1>3, <2>2, <2>3 DEF TrySeize
<1>4. CASE pc[p] = "try" /\ want[p] = "mod" /\ TrySeize(p, "mod", "holds", "wait")
  <2>1. /\ HasAt("mod", "holds", want[p], kept[p]) /\ ~HasAt("mod", "try", want[p], kept[p])
        /\ \A m \in Kind \ {"mod"} : HasAt(m, "holds", want[p], kept[p]) <=> HasAt(m, "try", want[p], kept[p])
        /\ \A m \in Kind : HasAt(m, "wait", want[p], kept[p]) <=> HasAt(m, "try", want[p], kept[p])
    BY <1>4 DEF HasAt, Kind
  <2>2. "stage" \notin flag[p]
    BY <1>1, <1>4 DEF CallerOK
  <2>3. /\ CallerOK(p, "holds", flag[p] \ {"mod"}, want[p], exiting[p], kept[p])
        /\ CallerOK(p, "wait", flag[p], want[p], exiting[p], kept[p])
    BY <1>1, <1>4, <2>2 DEF CallerOK, RejectPc
  <2> QED
    BY <1>2, <1>3, <1>4, <2>1, <2>2, <2>3, SMTT(30)
<1>5. CASE pc[p] = "try" /\ want[p] = "stage" /\ TrySeize(p, "stage", "holds", "wait")
  <2>1. ~kept[p] /\ "mod" \notin flag[p]
    BY <1>1, <1>5 DEF CallerOK
  <2>2. /\ HasAt("stage", "holds", want[p], kept[p]) /\ ~HasAt("stage", "try", want[p], kept[p])
        /\ \A m \in Kind \ {"stage"} : HasAt(m, "holds", want[p], kept[p]) <=> HasAt(m, "try", want[p], kept[p])
        /\ \A m \in Kind : HasAt(m, "wait", want[p], kept[p]) <=> HasAt(m, "try", want[p], kept[p])
    BY <1>5, <2>1 DEF HasAt, Kind
  <2>3. /\ CallerOK(p, "holds", flag[p] \ {"stage"}, want[p], exiting[p], kept[p])
        /\ CallerOK(p, "wait", flag[p], want[p], exiting[p], kept[p])
    BY <1>1, <1>5, <2>1 DEF CallerOK, RejectPc
  <2> QED
    BY <1>2, <1>3, <1>5, <2>2, <2>3, SMTT(30)
<1>6. CASE pc[p] = "try" /\ want[p] = "load" /\ TrySeize(p, "stage", "tryMod", "wait")
  <2>1. ~kept[p]
    BY <1>1, <1>6 DEF CallerOK
  <2>2. /\ HasAt("stage", "tryMod", want[p], kept[p]) /\ ~HasAt("stage", "try", want[p], kept[p])
        /\ \A m \in Kind \ {"stage"} : HasAt(m, "tryMod", want[p], kept[p]) <=> HasAt(m, "try", want[p], kept[p])
        /\ \A m \in Kind : HasAt(m, "wait", want[p], kept[p]) <=> HasAt(m, "try", want[p], kept[p])
    BY <1>6, <2>1 DEF HasAt, Kind
  <2>3. /\ CallerOK(p, "tryMod", flag[p] \ {"stage"}, want[p], exiting[p], kept[p])
        /\ CallerOK(p, "wait", flag[p], want[p], exiting[p], kept[p])
    BY <1>1, <1>6, <2>1 DEF CallerOK, RejectPc
  <2> QED
    BY <1>2, <1>3, <1>6, <2>2, <2>3, SMTT(30)
<1>7. CASE pc[p] = "tryMod" /\ TrySeize(p, "mod", "holds", "backout")
  <2>1. ~kept[p] /\ "stage" \notin flag[p] /\ want[p] = "load"
    BY <1>1, <1>7 DEF CallerOK, RejectPc
  <2>2. /\ HasAt("mod", "holds", want[p], kept[p]) /\ ~HasAt("mod", "tryMod", want[p], kept[p])
        /\ \A m \in Kind \ {"mod"} : HasAt(m, "holds", want[p], kept[p]) <=> HasAt(m, "tryMod", want[p], kept[p])
        /\ \A m \in Kind : HasAt(m, "backout", want[p], kept[p]) <=> HasAt(m, "tryMod", want[p], kept[p])
    BY <1>7, <2>1 DEF HasAt, Kind
  <2>3. /\ CallerOK(p, "holds", flag[p] \ {"mod"}, want[p], exiting[p], kept[p])
        /\ CallerOK(p, "backout", flag[p], want[p], exiting[p], kept[p])
    BY <1>1, <1>7, <2>1 DEF CallerOK, RejectPc
  <2> QED
    BY <1>2, <1>3, <1>7, <2>1, <2>2, <2>3, SMTT(30)
<1> QED
  BY <1>4, <1>5, <1>6, <1>7 DEF Try, TryMod

\* An aux job is scheduled, or tries to seize modification permission.
LEMMA AuxSteps ==
    ASSUME TypeOK, PermInv, ActorAssumption, NEW a \in Aux, Schedule(a) \/ TryAux(a)
    PROVE  TypeOK' /\ PermInv'
<1> USE ZenonT(30)
<1>1. a \in Actor /\ "mod" \in Kind /\ {"scheduled", "holds", "wait"} \subseteq AuxPc
  BY DEF Actor, Kind, AuxPc
<1>2. owner["stage"] # a /\ (owner["mod"] = a => pc[a] \in {"holds", "scheduled"})
  <2>1. a \notin Proc /\ a # NONE
    BY <1>1, ActorAssumption
  <2> QED
    BY <1>1, <2>1 DEF PermInv, OwnerInv, NotLeaked, Has
<1>3. CASE Schedule(a)
  <2>1. /\ pc[a] = "idle" /\ pc' = [pc EXCEPT ![a] = "scheduled"] /\ UNCHANGED <<owner, queue>>
        /\ UNCHANGED <<flag, susp, exiting, want, kept, gcs>>
    BY <1>3 DEF Schedule, Goto, permVars
  <2>2. MovedAux(a, "scheduled")
    BY <1>1, <2>1 DEF MovedAux, TypeOK
  <2> QED
    BY <2>1, <2>2, AuxStep
<1>4. CASE TryAux(a)
  <2>1. pc[a] = "scheduled" /\ UNCHANGED <<flag, susp, exiting, want, kept, gcs>>
    BY <1>4 DEF TryAux
  <2>2. CASE /\ owner["mod"] \in {NONE, a} /\ owner' = [owner EXCEPT !["mod"] = a]
             /\ Goto(a, "holds") /\ UNCHANGED queue
    <3>1. /\ owner' \in [Kind -> Actor \cup {NONE}] /\ owner'["mod"] = a
          /\ owner'["stage"] = owner["stage"]
      BY <1>1, <2>2 DEF TypeOK, Kind
    <3>2. MovedAux(a, "holds")
      BY <1>1, <2>1, <2>2, <3>1 DEF MovedAux, Goto
    <3> QED
      BY <2>1, <2>2, <3>2, AuxStep
  <2>3. CASE /\ owner["mod"] \notin {NONE, a} /\ queue' = [queue EXCEPT !["mod"] = Append(@, a)]
             /\ Goto(a, "wait") /\ UNCHANGED owner
    <3>1. MovedAux(a, "wait")
      BY <1>1, <2>1, <2>3 DEF MovedAux, Goto, TypeOK
    <3> QED
      BY <2>1, <2>3, <3>1, AuxStep
  <2> QED
    BY <1>4, <2>2, <2>3 DEF TryAux
<1> QED
  BY <1>3, <1>4

-----------------------------------------------------------------------------
(* The theorems                                                            *)

\* Nobody has, waits for or was handed anything in the initial state.
LEMMA PermInit ==
    ASSUME ActorAssumption, Init
    PROVE  TypeOK /\ PermInv
<1> USE ZenonT(30)
<1>1. \A k \in Kind : owner[k] = NONE /\ queue[k] = <<>>
  BY DEF Init
<1>2. \A p \in Proc : /\ flag[p] = {} /\ ~susp[p] /\ ~exiting[p] /\ want[p] = "mod" /\ ~kept[p]
                      /\ pc[p] = "idle"
  BY DEF Init, Actor
<1>3. \A a \in Actor : pc[a] = "idle"
  BY DEF Init
<1>4. TypeOK
  <2>1. "idle" \in ProcPc /\ "idle" \in AuxPc
    BY DEF ProcPc, AuxPc
  <2>2. queue \in [Kind -> Seq(Actor)]
    BY SMTT(30) DEF Init
  <2> QED
    BY <2>1, <2>2 DEF Init, TypeOK, Actor
<1>5. \A a \in Actor, k \in Kind : ~InQueue(a, k)
  BY <1>1, SMTT(30) DEF InQueue
<1>6. QueueInv
  <2>1. \A a \in Actor : ~Waiting(a)
    BY <1>2, <1>3 DEF Waiting, Actor
  <2>2. \A k \in Kind : \A i, j \in 1 .. Len(queue[k]) : queue[k][i] = queue[k][j] => i = j
    BY <1>1, SMTT(30)
  <2>3. Proc \subseteq Actor /\ Aux \subseteq Actor /\ "stage" \in Kind /\ "mod" \in Kind
    BY DEF Actor, Kind
  <2> QED
    BY <1>2, <1>5, <2>1, <2>2, <2>3 DEF QueueInv
<1>7. OwnerInv
  <2>1. \A a \in Actor, k \in Kind : ~Has(a, k)
    BY <1>2, <1>3 DEF Has, Actor
  <2>2. HandedOver /\ NotLeaked
    BY <1>1, <1>2 DEF HandedOver, NotLeaked
  <2>3. \A p \in Proc, k \in Kind : ~Clearing(p, k)
    BY <1>2 DEF Clearing
  <2>4. owner["stage"] \notin Aux
    BY <1>1, ActorAssumption DEF Kind, Actor
  <2> QED
    BY <2>1, <2>2, <2>3, <2>4 DEF OwnerInv
<1>8. CallerInv
  BY <1>2 DEF CallerInv
<1> QED
  BY <1>4, <1>6, <1>7, <1>8 DEF PermInv

\* Every step preserves the invariant.
LEMMA PermNext ==
    ASSUME ActorAssumption, TypeOK, PermInv, [Next]_vars
    PROVE  TypeOK' /\ PermInv'
<1> USE ZenonT(30)
<1>1. ASSUME NEW p \in Proc, Step(p) \/ Request(p) \/ StartGc(p) \/ Exit(p)
      PROVE  TypeOK' /\ PermInv'
  <2>1. CASE Try(p) \/ TryMod(p)
    BY <2>1, TryStep
  <2>2. CASE BackOut(p)
    BY <2>2, BackOutStep
  <2>3. CASE Retry(p) \/ StartGc(p) \/ EndGc(p)
    BY <2>3, WaitSteps
  <2>4. CASE Done(p)
    BY <2>4, DoneStep
  <2>5. CASE ReleaseStage(p)
    BY <2>5, ReleaseStageStep
  <2>6. CASE Prepared(p)
    BY <2>6, PreparedStep
  <2>7. CASE Abort(p)
    BY <2>7, AbortStep
  <2>8. CASE Request(p) \/ Complete(p)
    BY <2>8, AskStep
  <2>9. CASE Purged(p)
    BY <2>9, PurgedStep
  <2>10. CASE Reject(p)
    BY <2>10, RejectSteps
  <2>11. CASE Clear(p)
    BY <2>11, ClearStep
  <2>12. CASE Exit(p)
    BY <2>12, ExitStep
  <2> QED
    BY <1>1, <2>1, <2>2, <2>3, <2>4, <2>5, <2>6, <2>7, <2>8, <2>9, <2>10, <2>11, <2>12 DEF Step
<1>2. ASSUME NEW a \in Aux, StepAux(a) \/ Schedule(a)
      PROVE  TypeOK' /\ PermInv'
  <2>1. CASE Schedule(a) \/ TryAux(a)
    BY <2>1, AuxSteps
  <2>2. CASE DoneAux(a)
    BY <2>2, ReleaseAux
  <2> QED
    BY <1>2, <2>1, <2>2 DEF StepAux
<1>3. ASSUME UNCHANGED vars
      PROVE  TypeOK' /\ PermInv'
  <2>1. /\ owner' = owner /\ queue' = queue /\ flag' = flag /\ susp' = susp /\ exiting' = exiting
        /\ want' = want /\ kept' = kept /\ gcs' = gcs /\ pc' = pc
    BY <1>3 DEF vars
  <2>2. TypeOK'
    BY <2>1 DEF TypeOK
  <2>3. QueueInv'
    BY <2>1, SMTT(30) DEF PermInv, QueueInv, InQueue, Waiting
  <2>4. OwnerInv'
    BY <2>1 DEF PermInv, OwnerInv, HandedOver, NotLeaked, Has, Clearing
  <2>5. CallerInv'
    BY <2>1 DEF PermInv, CallerInv
  <2> QED
    BY <2>2, <2>3, <2>4, <2>5 DEF PermInv
<1> QED
  BY <1>1, <1>2, <1>3 DEF Next


\* The record of owners, the queues and the handover flags agree with each
\* other and with what callers of erts_try_seize_code_*_permission were told,
\* for any number of processes and aux jobs, with or without a purger.
THEOREM PermInvariant == Spec => [](TypeOK /\ PermInv)
<1> USE ZenonT(30)
<1>1. Init => TypeOK /\ PermInv
  BY PermInit, ActorAssumption
<1>2. TypeOK /\ PermInv /\ [Next]_vars => (TypeOK /\ PermInv)'
  BY PermNext, ActorAssumption
<1> QED
  BY <1>1, <1>2, PTL DEF Spec

\* The state of every variable of the model of code_ix.c has its type.
THEOREM PermTypes == Spec => []TypeOK
  BY PermInvariant, PTL

\* At most one process or aux job has been told that it has staging permission,
\* and at most one that it has modification permission.
THEOREM OneHolder == Spec => []Exclusive
<1> USE ZenonT(30)
<1>1. PermInv => Exclusive
  BY DEF PermInv, OwnerInv, Exclusive
<1> QED
  BY <1>1, PermInvariant, PTL

\* A process with a handover flag owns the permission until it has rejected it:
\* the assertions of try_seize_code_permission never fail.
THEOREM FlagMeansOwner == Spec => []HandedOver
<1> USE ZenonT(30)
<1>1. PermInv => HandedOver
  BY DEF PermInv, OwnerInv
<1> QED
  BY <1>1, PermInvariant, PTL

\* A seized permission is in use or on its way to a waiter that will find it or
\* reject it: release_code_permission and erts_reject_code_permissions lose none.
THEOREM NoLeak == Spec => []NotLeaked
<1> USE ZenonT(30)
<1>1. PermInv => NotLeaked
  BY DEF PermInv, OwnerInv
<1> QED
  BY <1>1, PermInvariant, PTL

\* A waiter that nobody has resumed is in exactly one queue, of a permission
\* that somebody else owns, so a later release_code_permission comes to it.
THEOREM WaiterInQueue == Spec => []NotForgotten
<1> USE ZenonT(30)
<1>1. ASSUME PermInv PROVE NotForgotten
  <2> SUFFICES ASSUME NEW a \in Actor, Waiting(a)
               PROVE  \E k \in Kind : /\ InQueue(a, k) /\ owner[k] \notin {NONE, a}
                                      /\ \A m \in Kind \ {k} : ~InQueue(a, m)
    BY DEF NotForgotten
  <2>1. PICK k \in Kind : InQueue(a, k)
    BY <1>1 DEF PermInv, QueueInv
  <2>2. owner[k] \notin {NONE, a}
    BY <1>1, <2>1 DEF PermInv, QueueInv
  <2>3. ~(InQueue(a, "stage") /\ InQueue(a, "mod"))
    BY <1>1 DEF PermInv, QueueInv
  <2>4. \A m \in Kind \ {k} : ~InQueue(a, m)
    BY <2>1, <2>3, SMTT(30) DEF Kind
  <2> QED
    BY <2>1, <2>2, <2>4
<1> QED
  BY <1>1, PermInvariant, PTL

\* A waiter that owns a permission was handed it, or is the purger, which kept
\* staging permission.
LEMMA BlockedOwner ==
    ASSUME TypeOK, PermInv, ActorAssumption, NEW a \in Actor, NEW m \in Kind,
           Waiting(a), pc[a] # "backout", owner[m] = a
    PROVE  a \in Proc /\ (m \in flag[a] \/ kept[a])
<1> USE ZenonT(30)
<1>1. a # NONE
  BY ActorAssumption
<1>2. \/ Has(a, m)
      \/ a \in Proc /\ m \in flag[a]
      \/ a \in Aux /\ pc[a] = "scheduled"
  BY <1>1 DEF PermInv, OwnerInv, NotLeaked
<1>3. a \notin Aux
  <2> SUFFICES ASSUME a \in Aux PROVE FALSE
    OBVIOUS
  <2>1. pc[a] = "wait" /\ a \notin Proc
    BY ActorAssumption DEF Waiting
  <2> QED
    BY <1>2, <2>1 DEF Has
<1>4. a \in Proc /\ susp[a]
  BY <1>3 DEF Waiting, Actor
<1>5. pc[a] \in WaitPc
  BY <1>4 DEF PermInv, QueueInv
<1>6. Has(a, m) => kept[a]
  BY <1>3, <1>5 DEF Has, WaitPc, RejectPc
<1> QED
  BY <1>2, <1>3, <1>4, <1>6

\* Two that wait for each other's permissions: one of them is the purger with
\* staging permission kept.
LEMMA CircleIsKept ==
    ASSUME TypeOK, PermInv, ActorAssumption, NEW a \in Actor, NEW b \in Actor,
           Blocked(a, b), Blocked(b, a)
    PROVE  \E p \in Purger : kept[p] /\ p \in {a, b}
<1> USE ZenonT(30)
<1>1. PICK k \in Kind : owner[k] = b /\ InQueue(a, k)
  BY DEF Blocked
<1>2. PICK m \in Kind : owner[m] = a /\ InQueue(b, m)
  BY DEF Blocked
<1>3. a \in Proc /\ (m \in flag[a] \/ kept[a])
  BY <1>2, BlockedOwner DEF Blocked
<1>4. b \in Proc /\ (k \in flag[b] \/ kept[b])
  BY <1>1, BlockedOwner DEF Blocked
<1>5. owner[k] # a
  BY <1>1 DEF PermInv, QueueInv
<1>6. (k = "mod" /\ m = "stage") \/ (k = "stage" /\ m = "mod")
  BY <1>2, <1>5 DEF Kind
<1>7. ~(m \in flag[a] /\ k \in flag[b])
  <2>1. \A p \in Proc : InQueue(p, "mod") => "stage" \notin flag[p]
    BY DEF PermInv, QueueInv
  <2> QED
    BY <1>1, <1>2, <1>3, <1>4, <1>6, <2>1
<1>8. \A p \in Proc : kept[p] => p \in Purger
  BY DEF PermInv, CallerInv
<1> QED
  BY <1>3, <1>4, <1>7, <1>8

\* While the purger keeps no staging permission between the steps of a purge
\* (erts_internal:purge_module/2), no two actors wait for each other.
THEOREM CircleNeedsPurger ==
    Spec => []((\A p \in Purger : ~kept[p]) => NoCircularWait)
<1> USE ZenonT(30)
<1>1. TypeOK /\ PermInv => ((\A p \in Purger : ~kept[p]) => NoCircularWait)
  BY CircleIsKept, ActorAssumption DEF NoCircularWait
<1> QED
  BY <1>1, PermInvariant, PTL

\* Without a purger, code loading, tracing and breakpoints never wait for each
\* other's permissions in a circle, although loading needs both.
THEOREM NoCircle == ASSUME Purger = {} PROVE Spec => []NoCircularWait
<1> USE ZenonT(30)
<1>1. TypeOK /\ PermInv => NoCircularWait
  BY CircleIsKept, ActorAssumption DEF NoCircularWait
<1> QED
  BY <1>1, PermInvariant, PTL
=============================================================================
