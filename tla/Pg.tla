--------------------------------- MODULE Pg ---------------------------------
(***************************************************************************)
(* Process groups: the scope process of pg on every node, that is the      *)
(* gen_server data_publisher (kernel/src/data_publisher.erl) with pg       *)
(* (kernel/src/pg.erl) as its callback module.                             *)
(*                                                                         *)
(* A scope process owns the memberships of its node's processes, publishes *)
(* every change to the scope processes it knows, and keeps in a table what *)
(* all of them published.  Nodes connect and disconnect, scope processes   *)
(* crash and are restarted, members exit.                                  *)
(*                                                                         *)
(* box[n][m] holds, in the order of arrival, the signals that node n gets  *)
(* because of node m: messages of m's scope process, DOWN signals of its   *)
(* monitors, and the nodeup of a new connection.                           *)
(***************************************************************************)
EXTENDS PgData

CONSTANTS
    Node,
    Group,
    Pid,            \* processes that join groups
    Home,           \* Home[p]: the node of process p
    Version,        \* Version[n]: the version of the callback module
    Subscriber,     \* processes that call monitor_scope, on each node
    Budget          \* how often the environment may act: a set of records

ASSUME PgAssumption ==
    /\ Home \in [Pid -> Node]
    /\ Version \in [Node -> Nat \ {0}]
    /\ \A b \in Budget : \A k \in DOMAIN b : b[k] \in Nat

VARIABLES
    inc,            \* inc[n]: incarnation of n's scope process
    up,             \* up[n]: it runs
    data,           \* local_data
    view,           \* the ETS table
    mon,            \* Monitors: of local members
    peers,          \* peers: scope pid -> [ref, ver, data]
    seen,           \* subscriptions, with what each subscriber made of them
    pmon,           \* active monitors of peers, <<scope pid, ref>>
    dn,             \* DOWN signals of local members not handled yet
    calls,          \* leave calls that have read the table
    box,
    conn,           \* connected pairs of nodes
    alive,          \* processes that have not exited
    left            \* what is left of a member of Budget

pubVars == <<data, view, mon, peers, seen>>
envVars == <<inc, up, conn, alive>>
vars == <<pubVars, envVars, pmon, dn, calls, box, left>>

NoData == [g \in {} |-> EmptyBag]
NoView == [g \in {} |-> [all |-> EmptyBag, loc |-> EmptyBag]]
NoPeers == [p \in {} |-> [ref |-> 0, ver |-> 0, data |-> NoData]]
NoMonitors == [p \in {} |-> [ref |-> 0, groups |-> EmptyBag]]
NoSeen == [s \in {} |-> [g \in Group |-> EmptyBag]]

Init ==
    /\ inc = [n \in Node |-> 0]
    /\ up = [n \in Node |-> FALSE]
    /\ data = [n \in Node |-> NoData]
    /\ view = [n \in Node |-> NoView]
    /\ mon = [n \in Node |-> NoMonitors]
    /\ peers = [n \in Node |-> NoPeers]
    /\ seen = [n \in Node |-> NoSeen]
    /\ pmon = [n \in Node |-> {}]
    /\ dn = [n \in Node |-> {}]
    /\ calls = [n \in Node |-> EmptyBag]
    /\ box = [n \in Node |-> [m \in Node |-> <<>>]]
    /\ conn = {}
    /\ alive = Pid
    /\ left \in Budget

Spend(k) == left[k] > 0 /\ left' = [left EXCEPT ![k] = @ - 1]

-----------------------------------------------------------------------------
(* Signals                                                                 *)

Scope(n) == <<n, inc[n]>>
NodeOf(peer) == peer[1]
Running(peer) == up[NodeOf(peer)] /\ peer = Scope(NodeOf(peer))
Linked(n, m) == {n, m} \in conn

\* A discover goes to whoever has the name of the scope.
Anyone == <<"name", 0>>
Message(type, n, to) == [type |-> type, from |-> Scope(n), to |-> to]

DiscoverMsg(n) == Message("discover", n, Anyone) @@ [ver |-> Version[n]]

\* translate_update(1, _, Update): as it is, for a peer of any version but 0
UpdateMsg(n, peer, update) == Message("update", n, peer) @@ [update |-> update]

\* translate_local_data: the version in the message is the one asked for.
LocalDataMsg(n, peer, ver) ==
    Message("local_data", n, peer) @@ [ver |-> ver, data |-> data[n]]

NodeupMsg(n, m) == [type |-> "nodeup", from |-> <<m, 0>>, to |-> Scope(n)]
DownMsg(n, peer, ref) == [type |-> "down", from |-> peer, to |-> Scope(n), ref |-> ref]

\* do_send (noconnect): n's messages, out[m] for node m, reach connected nodes.
Send(b, n, out) ==
    [m \in Node |-> IF m \in DOMAIN out /\ Linked(n, m)
                    THEN [b[m] EXCEPT ![n] = @ \o out[m]] ELSE b[m]]

SmallestNotIn(S) == CHOOSE k \in 0 .. Cardinality(S) :
                        k \notin S /\ \A j \in 0 .. k - 1 : j \in S

\* A reference no signal to n still carries
FreshRef(n, peer) ==
    SmallestNotIn({a[2] : a \in {x \in pmon[n] : x[1] = peer}}
        \cup {e.ref : e \in {x \in UNION {Range(box[n][m]) : m \in Node} :
                                x.type = "down" /\ x.from = peer /\ x.to = Scope(n)}})

\* monitor(process, Peer): at once a DOWN when the peer cannot be reached
Monitor(b, n, peer, ref) ==
    IF Linked(n, NodeOf(peer)) /\ Running(peer)
    THEN /\ pmon' = [pmon EXCEPT ![n] = @ \cup {<<peer, ref>>}]
         /\ box' = b
    ELSE /\ box' = [b EXCEPT ![n][NodeOf(peer)] = Append(@, DownMsg(n, peer, ref))]
         /\ UNCHANGED pmon

-----------------------------------------------------------------------------
(* Updates of the node's own data                                          *)

Local(n) == {p \in Pid : Home[p] = n}

\* Lists of processes: some of the node's or none, or one of them twice
Lists(n) == {SetToBag(S) : S \in SUBSET Local(n)} \cup {(p :> 2) : p \in Local(n)}

\* update_global_view_and_notify sends every subscriber the change.
Notify(n, update) ==
    seen' = [seen EXCEPT ![n] = [s \in DOMAIN @ |-> Notified(@[s], update)]]

FreshMemberRef(n) ==
    [p \in Pid |-> SmallestNotIn({d.ref : d \in {x \in dn[n] : x.pid = p}})]

\* do_update, with Monitors m; the pending DOWN signals are pending.  A new
\* monitor of a process that has exited gives a DOWN at once.
DoUpdate(n, update, m, pending) ==
    LET m1 == Monitors(m, update, FreshMemberRef(n))
        gone == {p \in (DOMAIN m1) \ DOMAIN m : p \notin alive}
    IN  /\ view' = [view EXCEPT ![n] = OwnUpdate(@, update)]
        /\ Notify(n, update)
        /\ mon' = [mon EXCEPT ![n] = m1]
        /\ data' = [data EXCEPT ![n] = UpdateLocalData(update, @)]
        /\ dn' = [dn EXCEPT ![n] = pending \cup {[pid |-> p, ref |-> m1[p].ref] : p \in gone}]
        /\ box' = Send(box, n,
               [to \in Node |-> SetToSeq({UpdateMsg(n, peer, update) :
                                    peer \in {q \in DOMAIN peers[n] : NodeOf(q) = to}})])

\* pg:join, which is one call of the scope process
Join(n, g, add) ==
    /\ up[n]
    /\ Spend("join")
    /\ DoUpdate(n, <<Entry(g, add, EmptyBag)>>, mon[n], dn[n])
    /\ UNCHANGED <<peers, envVars, pmon, calls>>

\* pg:leave reads the table in the calling process ...
Leave(n, g, remove) ==
    /\ up[n]
    /\ g \in DOMAIN view[n]
    /\ remove (-) view[n][g].all # remove
    /\ Spend("leave")
    /\ calls' = [calls EXCEPT ![n] = @ (+) SetToBag({Entry(g, EmptyBag, remove)})]
    /\ UNCHANGED <<pubVars, envVars, pmon, dn, box>>

\* ... and calls the scope process, which does not look again.
LeaveCall(n) ==
    /\ up[n]
    /\ \E e \in BagToSet(calls[n]) :
           /\ calls' = [calls EXCEPT ![n] = @ (-) SetToBag({e})]
           /\ DoUpdate(n, <<e>>, mon[n], dn[n])
    /\ UNCHANGED <<peers, envVars, pmon, left>>

\* {'DOWN', pg}: a DOWN with another reference is dropped.
MemberDown(n) ==
    /\ up[n]
    /\ \E d \in dn[n] :
           IF d.pid \in DOMAIN mon[n] /\ mon[n][d.pid].ref = d.ref
           THEN DoUpdate(n, DownUpdate(d.pid, mon[n][d.pid].groups),
                         Without(mon[n], d.pid), dn[n] \ {d})
           ELSE /\ dn' = [dn EXCEPT ![n] = @ \ {d}]
                /\ UNCHANGED <<data, view, mon, seen, box>>
    /\ UNCHANGED <<peers, envVars, pmon, calls, left>>

Subscribe(n, s) ==
    /\ up[n]
    /\ s \notin DOMAIN seen[n]
    /\ Spend("subscribe")
    /\ seen' = [seen EXCEPT ![n] = Put(@, s, [g \in Group |->
                   IF g \in DOMAIN view[n] THEN view[n][g].all ELSE EmptyBag])]
    /\ UNCHANGED <<data, view, mon, peers, envVars, pmon, dn, calls, box>>

\* remove_subscribe: by demonitor, or as the subscriber exits
Unsubscribe(n, s) ==
    /\ up[n]
    /\ s \in DOMAIN seen[n]
    /\ seen' = [seen EXCEPT ![n] = Without(@, s)]
    /\ UNCHANGED <<data, view, mon, peers, envVars, pmon, dn, calls, box, left>>

-----------------------------------------------------------------------------
(* handle_info                                                             *)

\* The next signal from node m is for this scope process.
Receives(n, m, type) ==
    /\ up[n]
    /\ box[n][m] # <<>>
    /\ Head(box[n][m]).type = type
    /\ Head(box[n][m]).to \in {Anyone, Scope(n)}
Rest(n, m) == [box EXCEPT ![n][m] = Tail(@)]

Discover(n, m) ==
    /\ Receives(n, m, "discover")
    /\ LET peer == Head(box[n][m]).from
           ver == Head(box[n][m]).ver
           sync == LocalDataMsg(n, peer, ver)
           ref == FreshRef(n, peer)
       IN  IF peer \in DOMAIN peers[n]
           THEN /\ box' = Send(Rest(n, m), n, (m :> <<sync>>))
                /\ UNCHANGED <<peers, pmon>>
           ELSE /\ Monitor(Send(Rest(n, m), n, (m :> <<sync, DiscoverMsg(n)>>)),
                           n, peer, ref)
                /\ peers' = [peers EXCEPT ![n] =
                       Put(@, peer, [ref |-> ref, ver |-> ver, data |-> NoData])]
    /\ UNCHANGED <<data, view, mon, seen, envVars, dn, calls, left>>

\* update_global_view_and_notify for another node
Apply(n, update) ==
    /\ view' = [view EXCEPT ![n] = PeerUpdate(@, update)]
    /\ Notify(n, update)

LocalData(n, m) ==
    /\ Receives(n, m, "local_data")
    /\ LET msg == Head(box[n][m])
           peer == msg.from
           known == peer \in DOMAIN peers[n]
           ref == IF known THEN peers[n][peer].ref ELSE FreshRef(n, peer)
           old == IF known THEN peers[n][peer].data ELSE NoData
       IN  /\ Apply(n, DataDiff(old, msg.data))
           /\ peers' = [peers EXCEPT ![n] =
                  Put(@, peer, [ref |-> ref, ver |-> msg.ver, data |-> msg.data])]
           /\ IF known THEN box' = Rest(n, m) /\ UNCHANGED pmon
                       ELSE Monitor(Rest(n, m), n, peer, ref)
    /\ UNCHANGED <<data, mon, envVars, dn, calls, left>>

\* Mutant: an update makes a peer known.
UpdateUnknown(n, m) ==
    /\ Receives(n, m, "update")
    /\ LET msg == Head(box[n][m])
           old == (peers[n] @@ (msg.from :> [ref |-> 0, ver |-> 1, data |-> NoData]))[msg.from]
       IN  /\ Apply(n, msg.update)
           /\ peers' = [peers EXCEPT ![n] =
                  Put(@, msg.from, [old EXCEPT !.data = UpdateLocalData(msg.update, @)])]
    /\ box' = Rest(n, m)
    /\ UNCHANGED <<data, mon, envVars, pmon, dn, calls, left>>

Update(n, m) ==
    /\ Receives(n, m, "update")
    /\ LET msg == Head(box[n][m])
       IN  IF msg.from \in DOMAIN peers[n]
           THEN /\ Apply(n, msg.update)
                /\ peers' = [peers EXCEPT ![n][msg.from].data =
                                 UpdateLocalData(msg.update, @)]
           ELSE UNCHANGED <<view, seen, peers>>
    /\ box' = Rest(n, m)
    /\ UNCHANGED <<data, mon, envVars, pmon, dn, calls, left>>

\* Mutant: no discovery of a node that joins the cluster.
NodeupQuiet(n, m) ==
    /\ Receives(n, m, "nodeup")
    /\ box' = Rest(n, m)
    /\ UNCHANGED <<pubVars, envVars, pmon, dn, calls, left>>

Nodeup(n, m) ==
    /\ Receives(n, m, "nodeup")
    /\ box' = Send(Rest(n, m), n, (m :> <<DiscoverMsg(n)>>))
    /\ UNCHANGED <<pubVars, envVars, pmon, dn, calls, left>>

\* {'DOWN', peer}
PeerDown(n, m) ==
    /\ Receives(n, m, "down")
    /\ LET msg == Head(box[n][m])
           peer == msg.from
       IN  IF peer \in DOMAIN peers[n] /\ peers[n][peer].ref = msg.ref
           THEN /\ Apply(n, DataDiff(peers[n][peer].data, NoData))
                /\ peers' = [peers EXCEPT ![n] = Without(@, peer)]
           ELSE UNCHANGED <<view, seen, peers>>
    /\ box' = Rest(n, m)
    /\ UNCHANGED <<data, mon, envVars, pmon, dn, calls, left>>

\* A signal to an earlier scope process, or to none, has no effect.
Lost(n, m) ==
    /\ box[n][m] # <<>>
    /\ ~up[n] \/ Head(box[n][m]).to \notin {Anyone, Scope(n)}
    /\ box' = Rest(n, m)
    /\ UNCHANGED <<pubVars, envVars, pmon, dn, calls, left>>

-----------------------------------------------------------------------------
(* The environment                                                         *)

\* init: the scope process is started, or restarted by its supervisor.
Start(n) ==
    /\ ~up[n]
    /\ Spend("start")
    /\ up' = [up EXCEPT ![n] = TRUE]
    /\ inc' = [inc EXCEPT ![n] = @ + 1]
    /\ box' = Send(box, n, [m \in Node \ {n} |->
           <<[DiscoverMsg(n) EXCEPT !.from = <<n, inc[n] + 1>>]>>])
    /\ UNCHANGED <<pubVars, conn, alive, pmon, dn, calls>>

\* DOWN signals for the monitors of S that are active at node n
Downs(n, S) ==
    LET due == {a \in pmon[n] : a[1] \in S}
    IN  SetToSeq({DownMsg(n, a[1], a[2]) : a \in due})

\* The scope process exits; its table and its monitors go with it.  A caller
\* of leave fails, if it does not happen to call only when init is done, which
\* the calls in later do.  The state is the one that init will make.
Crash(n) ==
    /\ up[n]
    /\ Spend("crash")
    /\ up' = [up EXCEPT ![n] = FALSE]
    /\ data' = [data EXCEPT ![n] = NoData]
    /\ view' = [view EXCEPT ![n] = NoView]
    /\ mon' = [mon EXCEPT ![n] = NoMonitors]
    /\ peers' = [peers EXCEPT ![n] = NoPeers]
    /\ seen' = [seen EXCEPT ![n] = NoSeen]
    /\ dn' = [dn EXCEPT ![n] = {}]
    /\ \E later \in SubBag(calls[n]) : calls' = [calls EXCEPT ![n] = later]
    /\ pmon' = [m \in Node |-> IF m = n THEN {}
                               ELSE {a \in pmon[m] : a[1] # Scope(n)}]
    /\ box' = [m \in Node |-> [box[m] EXCEPT ![n] = @ \o Downs(m, {Scope(n)})]]
    /\ UNCHANGED <<inc, conn, alive>>

Exit(p) ==
    /\ p \in alive
    /\ Spend("exit")
    /\ alive' = alive \ {p}
    /\ LET n == Home[p]
       IN  dn' = IF up[n] /\ p \in DOMAIN mon[n]
                 THEN [dn EXCEPT ![n] = @ \cup {[pid |-> p, ref |-> mon[n][p].ref]}]
                 ELSE dn
    /\ UNCHANGED <<pubVars, inc, up, conn, pmon, calls, box>>

\* Each end is told of the new connection before it gets signals over it.
Connect(n, m) ==
    /\ ~Linked(n, m)
    /\ Spend("connect")
    /\ conn' = conn \cup {{n, m}}
    /\ box' = LET told(b, x, y) == IF up[x] THEN [b EXCEPT ![x][y] = Append(@, NodeupMsg(x, y))]
                                            ELSE b
              IN  told(told(box, n, m), m, n)
    /\ UNCHANGED <<pubVars, inc, up, alive, pmon, dn, calls>>

\* Of what is on its way over the connection a suffix may be lost, but for
\* the DOWN signals.
Cut(s) ==
    LET first == SelectLastInSeq(s, LAMBDA x : x.type = "nodeup")
    IN  {SubSeq(s, 1, k) \o SelectSeq(SubSeq(s, k + 1, Len(s)), LAMBDA x : x.type = "down") :
            k \in first .. Len(s)}

Disconnect(n, m) ==
    /\ Linked(n, m)
    /\ Spend("cut")
    /\ conn' = conn \ {{n, m}}
    /\ \E a \in Cut(box[n][m]), b \in Cut(box[m][n]) :
           box' = [box EXCEPT ![n][m] = a \o Downs(n, {x[1] : x \in {y \in pmon[n] : NodeOf(y[1]) = m}}),
                              ![m][n] = b \o Downs(m, {x[1] : x \in {y \in pmon[m] : NodeOf(y[1]) = n}})]
    /\ pmon' = [pmon EXCEPT ![n] = {a \in @ : NodeOf(a[1]) # m},
                            ![m] = {a \in @ : NodeOf(a[1]) # n}]
    /\ UNCHANGED <<pubVars, inc, up, alive, dn, calls>>

-----------------------------------------------------------------------------
Handle(n) ==
    \/ LeaveCall(n)
    \/ MemberDown(n)
    \/ \E m \in Node \ {n} : \/ Discover(n, m)
                             \/ LocalData(n, m)
                             \/ Update(n, m)
                             \/ Nodeup(n, m)
                             \/ PeerDown(n, m)
                             \/ Lost(n, m)

Request(n) ==
    \/ \E g \in Group, pids \in Lists(n) : Join(n, g, pids) \/ Leave(n, g, pids)
    \/ \E s \in Subscriber : Subscribe(n, s) \/ Unsubscribe(n, s)

Environment ==
    \/ \E n \in Node : Start(n) \/ Crash(n)
    \/ \E p \in Pid : Exit(p)
    \/ \E n, m \in Node : n # m /\ (Connect(n, m) \/ Disconnect(n, m))

Next == Environment \/ \E n \in Node : Handle(n) \/ Request(n)

Spec == Init /\ [][Next]_vars
FairSpec == Spec /\ \A n \in Node : WF_vars(Handle(n))

-----------------------------------------------------------------------------
(* Properties                                                              *)

Listed(n, g) == IF g \in DOMAIN view[n] THEN view[n][g].all ELSE EmptyBag
LocalListed(n, g) == IF g \in DOMAIN view[n] THEN view[n][g].loc ELSE EmptyBag

\* What node n knows of group g from the node itself and from its peers
Known(n, g) ==
    FoldSet(LAMBDA peer, b : b (+) Members(peers[n][peer].data, g),
            Members(data[n], g), DOMAIN peers[n])

\* The table lists, as often as they joined, the processes of the node's own
\* data and of every peer's, and among them the local ones: two copies that
\* pg keeps in step entry by entry, never as a whole.
ViewIsSum ==
    \A n \in Node, g \in Group : up[n] =>
        /\ Listed(n, g) = Known(n, g)
        /\ LocalListed(n, g) = Members(data[n], g)

\* A process is monitored by its node's scope process while it is a member,
\* once for each time it joined.  When it has exited a DOWN with the reference
\* of that monitor is pending: no dead process stays in a group for ever.
MembersMonitored ==
    \A n \in Node, p \in Pid : up[n] =>
        /\ \A g \in Group :
               CopiesIn(p, Members(data[n], g))
                   = IF p \in DOMAIN mon[n] THEN CopiesIn(g, mon[n][p].groups) ELSE 0
        /\ p \in DOMAIN mon[n] /\ p \notin alive
               => [pid |-> p, ref |-> mon[n][p].ref] \in dn[n]

PendingDowns(n) ==
    {e \in UNION {Range(box[n][m]) : m \in Node} : e.type = "down" /\ e.to = Scope(n)}

\* Every peer is monitored, or its DOWN is pending; and each DOWN finds its
\* peer: the branch marked "should never happen" of {'DOWN', peer}.
PeersMonitored ==
    \A n \in Node : up[n] =>
        {<<peer, peers[n][peer].ref>> : peer \in DOMAIN peers[n]}
            = pmon[n] \cup {<<e.from, e.ref>> : e \in PendingDowns(n)}

Joined(d) == [g \in {h \in DOMAIN d : d[h] # EmptyBag} |-> d[g]]
Agrees(n, m) ==
    /\ Scope(m) \in DOMAIN peers[n]
    /\ Joined(peers[n][Scope(m)].data) = Joined(data[m])
Together(n, m) == up[n] /\ up[m] /\ Linked(n, m)

\* When nothing is on its way between two nodes: if they are connected each
\* has the other's data, whatever was lost, and else it has nothing of it.
Synchronised ==
    \A n, m \in Node : n # m /\ up[n] /\ box[n][m] = <<>> /\ box[m][n] = <<>> =>
        /\ Together(n, m) => Agrees(n, m)
        /\ \A peer \in DOMAIN peers[n] :
               NodeOf(peer) = m => peer = Scope(m) /\ Together(n, m)

\* A subscriber that applies the join and leave messages to the result of
\* monitor_scope has the members that the table lists.
SubscriberExact ==
    \A n \in Node : \A s \in DOMAIN seen[n], g \in Group :
        seen[n][s][g] = Listed(n, g)

\* When failures stop, in the end connected nodes agree, only running peers
\* are kept, and every process listed is alive.
Converges ==
    <>[] \A n, m \in Node : n # m /\ up[n] =>
        /\ Together(n, m) => Agrees(n, m)
        /\ \A peer \in DOMAIN peers[n] : Running(peer) /\ Linked(n, NodeOf(peer))
        /\ \A g \in Group : BagToSet(Listed(n, g)) \subseteq alive

\* A peer of version 0 is sent an update as leave and join messages.  From the
\* same copy it gets the same members, as often as they joined, also after an
\* exit, when translate_update puts the leaves of many groups in one message.
LegacyAgrees ==
    \A n, m \in Node : box[n][m] # <<>> /\ Head(box[n][m]).type = "update" =>
        LET msg == Head(box[n][m])
        IN  msg.from \in DOMAIN peers[n] => \A g \in Group :
                Members(UpdateLocalData(ReceiveLegacy(msg.update), peers[n][msg.from].data), g)
                    = Members(UpdateLocalData(msg.update, peers[n][msg.from].data), g)
=============================================================================
