------------------------------- MODULE PgData -------------------------------
(***************************************************************************)
(* The data callbacks of the process groups module (kernel/src/pg.erl).    *)
(* Lists of processes, in which a process may occur several times, are     *)
(* bags: `++' and `--' are bag union and difference.  Maps are functions   *)
(* whose domain is the set of keys.  An update is a sequence of entries    *)
(* [group, add, remove].                                                   *)
(***************************************************************************)
EXTENDS Bags, SequencesExt

Entry(g, add, remove) == [group |-> g, add |-> add, remove |-> remove]

\* Add ++ (Pids -- Remove)
Replaced(pids, e) == e.add (+) (pids (-) e.remove)

Put(f, k, v) == (k :> v) @@ f
Without(f, k) == [x \in DOMAIN f \ {k} |-> f[x]]

Members(data, g) == IF g \in DOMAIN data THEN data[g] ELSE EmptyBag

-----------------------------------------------------------------------------
\* One entry of update_local_data
UpdateEntry(data, e) ==
    IF e.group \notin DOMAIN data THEN Put(data, e.group, e.add)
    ELSE IF Replaced(data[e.group], e) = EmptyBag THEN Without(data, e.group)
    ELSE Put(data, e.group, Replaced(data[e.group], e))

UpdateLocalData(update, data) == FoldLeft(UpdateEntry, data, update)

DataDiff(old, new) ==
    SetToSeq({e \in {Entry(g, Members(new, g) (-) Members(old, g),
                              Members(old, g) (-) Members(new, g)) :
                         g \in DOMAIN old \cup DOMAIN new} :
                  e.add # EmptyBag \/ e.remove # EmptyBag})

-----------------------------------------------------------------------------
(* The table of groups: view[g] has all members, and the local ones.       *)

\* An entry of an update from another node ...
PeerEntry(view, e) ==
    IF e.group \notin DOMAIN view
    THEN Put(view, e.group, [all |-> e.add, loc |-> EmptyBag])
    ELSE LET old == view[e.group]
         IN  IF Replaced(old.all, e) = EmptyBag THEN Without(view, e.group)
             ELSE Put(view, e.group, [old EXCEPT !.all = Replaced(@, e)])

\* Mutant: the group goes with its last local member.
OwnEntryLast(view, e) ==
    IF e.group \notin DOMAIN view
    THEN Put(view, e.group, [all |-> e.add, loc |-> e.add])
    ELSE LET old == view[e.group]
         IN  IF Replaced(old.loc, e) = EmptyBag THEN Without(view, e.group)
             ELSE Put(view, e.group, [all |-> Replaced(old.all, e),
                                      loc |-> Replaced(old.loc, e)])

\* ... and from this one
OwnEntry(view, e) ==
    IF e.group \notin DOMAIN view
    THEN Put(view, e.group, [all |-> e.add, loc |-> e.add])
    ELSE LET old == view[e.group]
         IN  IF Replaced(old.all, e) = EmptyBag THEN Without(view, e.group)
             ELSE Put(view, e.group, [all |-> Replaced(old.all, e),
                                      loc |-> Replaced(old.loc, e)])

OwnUpdate(view, update) == FoldLeft(OwnEntry, view, update)
PeerUpdate(view, update) == FoldLeft(PeerEntry, view, update)

\* Mutant: no leave messages.
NotifiedJoins(seen, update) ==
    FoldLeft(LAMBDA s, e : [s EXCEPT ![e.group] = @ (+) e.add], seen, update)

\* What a subscriber makes of the join and leave messages of notify
Notified(seen, update) ==
    FoldLeft(LAMBDA s, e : [s EXCEPT ![e.group] = (@ (+) e.add) (-) e.remove],
             seen, update)

-----------------------------------------------------------------------------
(* The monitors of local members: a reference, and the groups joined, as   *)
(* often as they were joined.  A new monitor gets the reference ref[p].    *)

MonitorAdd(mon, e, ref) ==
    [p \in DOMAIN mon \cup BagToSet(e.add) |->
        LET k == CopiesIn(p, e.add)
            more == IF k = 0 THEN EmptyBag ELSE (e.group :> k)
        IN  IF p \in DOMAIN mon
            THEN [mon[p] EXCEPT !.groups = @ (+) more]
            ELSE [ref |-> ref[p], groups |-> more]]

\* Mutant: the monitor goes at the first leave.
MonitorDrop(mon, e) == [p \in DOMAIN mon \ BagToSet(e.remove) |-> mon[p]]

MonitorRemove(mon, e) ==
    LET left == [p \in DOMAIN mon |->
            LET k == CopiesIn(p, e.remove)
            IN  mon[p].groups (-) (IF k = 0 THEN EmptyBag ELSE (e.group :> k))]
    IN  [p \in {q \in DOMAIN mon : left[q] # EmptyBag} |->
            [mon[p] EXCEPT !.groups = left[p]]]

Monitors(mon, update, ref) ==
    FoldLeft(LAMBDA m, e : MonitorRemove(MonitorAdd(m, e, ref), e), mon, update)

\* Mutant: leave each group once.
DownUpdateOnce(p, groups) ==
    SetToSeq({Entry(g, EmptyBag, SetToBag({p})) : g \in DOMAIN groups})

\* translate_message of {'DOWN', pg}: leave once for every join
DownUpdate(p, groups) ==
    FlattenSeq([i \in 1 .. Cardinality(DOMAIN groups) |->
        LET g == SetToSeq(DOMAIN groups)[i]
        IN  [j \in 1 .. groups[g] |-> Entry(g, EmptyBag, SetToBag({p}))]])

-----------------------------------------------------------------------------
(* Version 0 of the protocol: translate_update makes leave messages, one   *)
(* for each list of processes, and join messages; translate_message turns  *)
(* them into updates again.                                                *)

\* Mutant: of the groups with the same list only one is left.
LeaveMessagesOnce(update) ==
    SetToSeq({[pids |-> r, groups |-> <<CHOOSE g \in {e.group : e \in Range(update)} :
                   \E e \in Range(update) : e.group = g /\ e.remove = r>>] :
                 r \in {e.remove : e \in Range(update)} \ {EmptyBag}})

LeaveMessages(update) ==
    SetToSeq({[pids |-> r,
               groups |-> LET s == SelectSeq(update, LAMBDA e : e.remove = r)
                          IN  [i \in DOMAIN s |-> s[i].group]] :
                 r \in {e.remove : e \in Range(update)} \ {EmptyBag}})

JoinMessages(update) == SelectSeq(update, LAMBDA e : e.add # EmptyBag)

\* What a receiver makes of the messages, one after the other
ReceiveLegacy(update) ==
    LET leaves == LeaveMessages(update)
    IN  FlattenSeq([i \in DOMAIN leaves |->
            [j \in DOMAIN leaves[i].groups |->
                Entry(leaves[i].groups[j], EmptyBag, leaves[i].pids)]])
        \o [i \in DOMAIN JoinMessages(update) |->
               [JoinMessages(update)[i] EXCEPT !.remove = EmptyBag]]
=============================================================================
