-------------------------------- MODULE MCPg --------------------------------
(* Instances of Pg for model checking: p1 and p2 live on n1, p3 on n2.  A behaviour  *)
(* follows one of several plans, each with its own bounds.                 *)
EXTENDS Pg, TLC

CONSTANTS n1, n2, p1, p2, p3

HomeOf == [p \in Pid |-> IF p = p3 THEN n2 ELSE n1]
SameVersion == [n \in Node |-> 1]

Limits(join, leave, exit, start, crash, connect, cut, subscribe) ==
    [join |-> join, leave |-> leave, exit |-> exit, start |-> start,
     crash |-> crash, connect |-> connect, cut |-> cut, subscribe |-> subscribe]

\* Repeated joins, racing leaves, exits, subscriptions, without a peer
MembersLimits == Limits(3, 2, 2, 1, 0, 0, 0, 1)
\* Joins on two nodes, of one group or of two, and a leave
SharedLimits == Limits(2, 1, 0, 2, 0, 1, 0, 0)
\* Two nodes whose connection is lost and made again
RejoinLimits == Limits(2, 0, 0, 2, 0, 2, 1, 0)
ReleaveLimits == Limits(1, 1, 0, 2, 0, 2, 1, 0)
\* A scope process that crashes and is restarted
RestartLimits == Limits(2, 0, 0, 3, 1, 1, 0, 0)
\* A subscriber while a peer is restarted
FollowLimits == Limits(1, 0, 0, 3, 1, 1, 0, 1)
\* A caller of leave that has read the table calls after the restart
LateLimits == Limits(1, 1, 0, 3, 1, 1, 0, 0)
\* A member that joined twice exits while a peer is connected
ExitLimits == Limits(2, 0, 1, 2, 0, 1, 0, 0)
SafetyPlans == {MembersLimits, SharedLimits, RejoinLimits, ReleaveLimits,
                RestartLimits, FollowLimits, LateLimits, ExitLimits}

LiveRestartLimits == Limits(1, 0, 1, 3, 1, 1, 1, 0)
LiveRejoinLimits == Limits(1, 0, 1, 2, 0, 2, 1, 0)
LivePlans == {LiveRestartLimits, LiveRejoinLimits}

\* DownUpdate chooses an order of the groups, but entries of different groups
\* commute, so that no state is told apart by it.
Symmetry == Permutations({p1, p2}) \cup Permutations(Group) \cup Permutations(Subscriber)
=============================================================================
