------------------------------ MODULE Cluster ------------------------------
(***************************************************************************)
(* The client's picture of a cluster: cl_cluster.c and cl_partition.c.     *)
(*                                                                         *)
(* The tender thread, and every user thread inside                         *)
(* citrusleaf_cluster_add_host, calls cluster_tend: it discovers nodes     *)
(* from the seed hosts and from the service lists of known nodes, drops    *)
(* the nodes that are out of the partition map, asks each node for its     *)
(* partition generation and copies the ownership it claims into the        *)
(* partition table.  Transactions pick a node from that table, or any      *)
(* node, and hold a reference to it.  Nodes are freed by reference count.  *)
(*                                                                         *)
(* A step of a thread is what it does between two points where another     *)
(* thread or a server can interfere: one lock section, one info request.   *)
(*                                                                         *)
(* A server is known by its node name; an address leads to the server that *)
(* currently answers there.  A partition stands for one slot of one        *)
(* namespace's table, and a table not created yet for one of empty slots.  *)
(***************************************************************************)
EXTENDS Integers, Sequences, SequencesExt, FiniteSets

CONSTANTS
    Obj,            \* blocks the node allocator can hand out
    Addr,           \* socket addresses
    Name,           \* node names, one per server
    Part,           \* partitions
    TenderThr,      \* the tender thread
    User,           \* threads that add hosts
    Tx,             \* threads that run transactions
    Seeds,          \* the addresses registered before the model starts
    Follow,         \* asc->follow
    Renames,        \* may an address be taken over by another server?
    MaxChanges,     \* bound on the changes the servers go through
    NULL

ASSUME AddrAssumption == Seeds \subseteq Addr
ASSUME FlagAssumption == Follow \in BOOLEAN /\ Renames \in BOOLEAN
ASSUME ChangesAssumption == MaxChanges \in Nat
ASSUME ObjAssumption == {NULL, "idle", "random"} \cap Obj = {}
ASSUME ThreadAssumption == TenderThr \notin User
ASSUME FiniteAssumption == IsFiniteSet(Part) /\ IsFiniteSet(User) /\ IsFiniteSet(Tx)

VARIABLES
    rc,             \* reference count of each block, 0 when free
    node,           \* the cl_cluster_node kept in each block
    node_v,         \* asc->node_v
    ptab,           \* the partition tables
    npart_known,    \* asc->n_partitions # 0
    running,        \* asc->state & CLS_TENDER_RUNNING
    found_all,      \* asc->found_all
    hosts,          \* asc->host_str_v / host_port_v, resolved
    pc, lv,         \* where each tending thread is, and its locals
    tx,             \* what each transaction thread holds
    host, up, gen, own, changes     \* the servers

tendVars == <<node_v, ptab, npart_known, running, found_all, hosts, pc, lv>>
serverVars == <<host, up, gen, own, changes>>
vars == <<rc, node, tendVars, tx, serverVars>>

MAX_INTERVALS_ABSENT == 1

Tender == {TenderThr} \cup User
Role == {"master", "prole", "none"}
Blank == [name |-> NULL, addrs |-> {}, gen |-> -1, absent |-> 0]
Idle == [todo |-> {}, svc |-> {}, n_new |-> FALSE, i |-> 1, cn |-> NULL,
         claim |-> NULL, pend |-> {}, target |-> NULL, expired |-> FALSE]

-----------------------------------------------------------------------------
\* What the servers agree on when the cluster has settled: one master and at
\* most one prole for each partition, and no server without an address and a
\* partition to be master of.

Claims(n, p, r) == up[n] /\ own[n][p] = r

ServersAgree ==
    /\ \A p \in Part :
        /\ Cardinality({n \in Name : Claims(n, p, "master")}) = 1
        /\ Cardinality({n \in Name : Claims(n, p, "prole")}) <= 1
    /\ \A n \in Name : up[n] => \E p \in Part : own[n][p] = "master"
    /\ \A n \in Name : up[n] => \E a \in Addr : host[a] = n

Init ==
    /\ rc = [o \in Obj |-> 0] /\ node = [o \in Obj |-> Blank]
    /\ node_v = <<>>
    /\ ptab = [p \in Part |-> [master |-> NULL, prole |-> NULL]]
    /\ npart_known = FALSE /\ running = FALSE /\ found_all = FALSE
    /\ hosts = Seeds
    /\ pc = [t \in Tender |-> "idle"] /\ lv = [t \in Tender |-> Idle]
    /\ tx = [x \in Tx |-> "idle"]
    /\ host \in [Addr -> Name] /\ up \in [Name -> BOOLEAN]
    /\ gen = [n \in Name |-> 0]
    /\ own \in [Name -> [Part -> Role]] /\ ServersAgree
    /\ changes = 0

-----------------------------------------------------------------------------
\* Nodes and references.

Nodes == ToSet(node_v)
Free == {o \in Obj : rc[o] = 0}
ByAddr(a) == {o \in Nodes : a \in node[o].addrs}
ByName(n) == {o \in Nodes : node[o].name = n}

cl_cluster_node_reserve(o) == rc' = [rc EXCEPT ![o] = @ + 1]

\* The release that takes the count to zero destroys the node.
cl_cluster_node_release(o) ==
    /\ rc' = [rc EXCEPT ![o] = @ - 1]
    /\ node' = IF rc[o] = 1 THEN [node EXCEPT ![o] = Blank] ELSE node

\* An info request to a node goes to a server that answers at one of its
\* addresses; an address behind which no server is up gives no answer.
Answers(o, n) == up[n] /\ \E a \in node[o].addrs : host[a] = n
NoAnswer(o) == \A a \in node[o].addrs : ~up[host[a]]

-----------------------------------------------------------------------------
\* cluster_tend.

Goto(t, l) == pc' = [pc EXCEPT ![t] = l]
Assign(t, r) == lv' = [lv EXCEPT ![t] = r]

\* Mutant of TendBegin: CLS_TENDER_RUNNING is not looked at.
TendBeginAlways(t) ==
    /\ pc[t] = IF t = TenderThr THEN "idle" ELSE "call"
    /\ running' = TRUE /\ Goto(t, "seed")
    /\ Assign(t, [lv[t] EXCEPT !.todo = hosts, !.svc = hosts])
    /\ UNCHANGED <<rc, node, node_v, ptab, npart_known, found_all, hosts, tx,
                   serverVars>>

\* At most one thread tends: whoever finds the flag set returns at once.
TendBegin(t) ==
    /\ pc[t] = IF t = TenderThr THEN "idle" ELSE "call"
    /\ IF running
       THEN /\ t \in User /\ Goto(t, "loop") /\ UNCHANGED <<running, lv>>
       ELSE /\ running' = TRUE /\ Goto(t, "seed")
            /\ Assign(t, [lv[t] EXCEPT !.todo = hosts, !.svc = hosts])
    /\ UNCHANGED <<rc, node, node_v, ptab, npart_known, found_all, hosts, tx,
                   serverVars>>

\* The next address of the vector: one that a node has is not asked; n_new counts
\* the services that were.
Asked(a) == ByAddr(a) = {}
Took(t, a, o) ==
    Assign(t, [lv[t] EXCEPT !.todo = @ \ {a}, !.cn = o,
        !.n_new = lv[t].n_new \/ (pc[t] = "svc" /\ Asked(a))])

\* cluster_ping_address.  The address is known, or no server answers there, or
\* there is no memory for its node.
SkipAddress(t, a) ==
    /\ pc[t] \in {"seed", "svc"} /\ a \in lv[t].todo
    /\ \/ ~Asked(a)
       \/ ~up[host[a]]
       \/ ByName(host[a]) = {} /\ Free = {}
    /\ Took(t, a, NULL)
    /\ UNCHANGED <<rc, node, node_v, ptab, npart_known, running, found_all, hosts,
                   pc, tx, serverVars>>

\* A known server answers there: its node has one more address.
AddAddress(t, a) ==
    /\ pc[t] \in {"seed", "svc"} /\ a \in lv[t].todo
    /\ Asked(a) /\ up[host[a]]
    /\ \E o \in ByName(host[a]) :
        node' = [node EXCEPT ![o] = [@ EXCEPT !.addrs = node[o].addrs \cup {a}]]
    /\ Took(t, a, NULL)
    /\ UNCHANGED <<rc, node_v, ptab, npart_known, running, found_all, hosts, pc,
                   tx, serverVars>>

\* A new server answers there: its node is created here and appended in a lock
\* section of its own.
CreateNode(t, a) ==
    /\ pc[t] \in {"seed", "svc"} /\ a \in lv[t].todo
    /\ Asked(a) /\ up[host[a]] /\ ByName(host[a]) = {}
    /\ \E o \in Free :
        /\ rc' = [rc EXCEPT ![o] = 1]
        /\ node' = [node EXCEPT ![o] =
                        [Blank EXCEPT !.name = host[a], !.addrs = {a}]]
        /\ Took(t, a, o)
    /\ Goto(t, IF pc[t] = "seed" THEN "seed_add" ELSE "svc_add")
    /\ UNCHANGED <<node_v, ptab, npart_known, running, found_all, hosts, tx,
                   serverVars>>

AppendNode(t) ==
    /\ pc[t] \in {"seed_add", "svc_add"}
    /\ node_v' = Append(node_v, lv[t].cn)
    /\ Goto(t, IF pc[t] = "seed_add" THEN "seed" ELSE "svc")
    /\ Assign(t, [lv[t] EXCEPT !.cn = NULL])
    /\ UNCHANGED <<rc, node, ptab, npart_known, running, found_all, hosts, tx,
                   serverVars>>

\* The number of partitions is asked of the seeds this lap began with, until
\* one of them answers; the vector then starts over for the services.
cluster_get_n_partitions(t) ==
    /\ pc[t] = "seed" /\ lv[t].todo = {}
    /\ npart_known' = (npart_known \/ \E a \in lv[t].svc : up[host[a]])
    /\ Assign(t, [lv[t] EXCEPT !.svc = {}])
    /\ Goto(t, "node")
    /\ UNCHANGED <<rc, node, node_v, ptab, running, found_all, hosts, tx,
                   serverVars>>

\* Mutant of ProlesOf: a node that is master of nothing keeps its prole slots.
NoProles(o) == {}

\* cl_partition_table_is_node_present: the node of no master slot also loses
\* its prole slots.
Present(o) == \E p \in Part : ptab[p].master = o
ProlesOf(o) == {p \in Part : ptab[p].prole = o}
ProlesCleared(o) ==
    [p \in Part |-> IF p \in ProlesOf(o) THEN [ptab[p] EXCEPT !.prole = NULL]
                    ELSE ptab[p]]

\* Mutant of KeepNode: intervals_absent is not set, so the node stays new.
KeepNodeNew(t) ==
    /\ pc[t] = "node" /\ lv[t].i <= Len(node_v)
    /\ LET cn == node_v[lv[t].i]
       IN /\ node[cn].absent = 0 \/ Present(cn)
          /\ Assign(t, [lv[t] EXCEPT !.cn = cn])
    /\ Goto(t, "ping")
    /\ UNCHANGED <<rc, node, node_v, ptab, npart_known, running, found_all,
                   hosts, tx, serverVars>>

\* The node at index i of node_v was seen for the first time, or is in the map.
KeepNode(t) ==
    /\ pc[t] = "node" /\ lv[t].i <= Len(node_v)
    /\ LET cn == node_v[lv[t].i]
       IN /\ node[cn].absent = 0 \/ Present(cn)
          /\ node' = [node EXCEPT ![cn] = [@ EXCEPT !.absent = 1]]
          /\ Assign(t, [lv[t] EXCEPT !.cn = cn])
    /\ Goto(t, "ping")
    /\ UNCHANGED <<rc, node_v, ptab, npart_known, running, found_all, hosts, tx,
                   serverVars>>

\* It is out of the map: for MAX_INTERVALS_ABSENT laps that is tolerated, then
\* it is taken out of node_v (under the lock) and released (DropNode).
AbsentNode(t) ==
    /\ pc[t] = "node" /\ lv[t].i <= Len(node_v)
    /\ LET cn == node_v[lv[t].i]
       IN /\ node[cn].absent # 0 /\ ~Present(cn)
          /\ ptab' = ProlesCleared(cn)
          /\ rc' = [rc EXCEPT ![cn] = @ - Cardinality(ProlesOf(cn))]
          /\ node' = [node EXCEPT ![cn] = [@ EXCEPT !.absent = node[cn].absent + 1]]
          /\ Assign(t, [lv[t] EXCEPT !.cn = cn])
          /\ IF node[cn].absent > MAX_INTERVALS_ABSENT
             THEN node_v' = RemoveAt(node_v, lv[t].i) /\ Goto(t, "drop")
             ELSE UNCHANGED node_v /\ Goto(t, "ping")
    /\ UNCHANGED <<npart_known, running, found_all, hosts, tx, serverVars>>

DropNode(t) ==
    /\ pc[t] = "drop"
    /\ cl_cluster_node_release(lv[t].cn)
    /\ Assign(t, [lv[t] EXCEPT !.cn = NULL])
    /\ Goto(t, "node")
    /\ UNCHANGED <<node_v, ptab, npart_known, running, found_all, hosts, tx,
                   serverVars>>

\* After the ping of a node its own addresses join the services to explore.
NextNode(t, found) ==
    /\ Assign(t, [lv[t] EXCEPT !.svc = @ \cup found \cup node[lv[t].cn].addrs,
            !.i = @ + 1, !.cn = NULL, !.claim = NULL])
    /\ Goto(t, "node")

\* cl_cluster_node_parse_check: is the reply of server n news to the node?  A
\* reply with another name is dropped, before its services are read.
SameName(cn, n) == n = node[cn].name
UpdatePartitions(cn, n) == SameName(cn, n) /\ gen[n] # node[cn].gen

\* A server lists the addresses at which the cluster can be reached.
Services == {a \in Addr : up[host[a]]}

\* cluster_ping_node, first request: name, partition generation, services.
PingNode(t) ==
    /\ pc[t] = "ping"
    /\ LET cn == lv[t].cn
       IN \/ NoAnswer(cn) /\ NextNode(t, {})
          \/ \E n \in Name :
                /\ Answers(cn, n)
                /\ IF UpdatePartitions(cn, n)
                   THEN /\ Assign(t, [lv[t] EXCEPT !.svc = @ \cup Services])
                        /\ Goto(t, "fetch")
                   ELSE NextNode(t, IF SameName(cn, n) THEN Services ELSE {})
    /\ UNCHANGED <<rc, node, node_v, ptab, npart_known, running, found_all,
                   hosts, tx, serverVars>>

\* parse_replicas_map: a bitmap has the length it must have only once the
\* number of partitions is known; until then it is skipped.
BitmapsParsed == npart_known

\* Second request: generation and replicas.  The generation is stored first.
FetchReplicas(t) ==
    /\ pc[t] = "fetch"
    /\ LET cn == lv[t].cn
       IN \/ NoAnswer(cn) /\ NextNode(t, {}) /\ UNCHANGED node
          \/ \E n \in Name :
                /\ Answers(cn, n)
                /\ node' = [node EXCEPT ![cn] = [@ EXCEPT !.gen = gen[n]]]
                /\ IF BitmapsParsed
                   THEN /\ Assign(t, [lv[t] EXCEPT !.claim = own[n], !.pend = Part])
                        /\ Goto(t, "update")
                   ELSE NextNode(t, {})
    /\ UNCHANGED <<rc, node_v, ptab, npart_known, running, found_all, hosts, tx,
                   serverVars>>

\* Mutant of RefsAt: a prole slot holds no reference.
RefsAtMaster(slot, o) == IF slot.master = o THEN 1 ELSE 0

\* The references a slot of the table holds to a node.
RefsAt(slot, o) ==
    (IF slot.master = o THEN 1 ELSE 0) + (IF slot.prole = o THEN 1 ELSE 0)

\* One iteration of cl_partition_table_update, under the partition's lock: the
\* node leaves the slot, then takes the place it claims; whoever it replaces is
\* marked for a refresh.
SlotUpdate(slot, cn, role) ==
    LET left == [master |-> IF slot.master = cn THEN NULL ELSE slot.master,
                 prole  |-> IF slot.prole = cn THEN NULL ELSE slot.prole]
    IN CASE role = "master" -> [left EXCEPT !.master = cn]
         [] role = "prole"  -> [left EXCEPT !.prole = cn]
         [] role = "none"   -> left

\* Mutant of Replaced: force_replicas_refresh is not called.
ReplacedUnmarked(slot, cn, role) == {}

Replaced(slot, cn, role) ==
    CASE role = "master" -> {slot.master} \ {cn, NULL}
      [] role = "prole"  -> {slot.prole} \ {cn, NULL}
      [] role = "none"   -> {}

UpdatePartition(t, p) ==
    /\ pc[t] = "update" /\ p \in lv[t].pend
    /\ LET cn == lv[t].cn
           role == lv[t].claim[p]
           new == SlotUpdate(ptab[p], cn, role)
       IN /\ ptab' = [ptab EXCEPT ![p] = new]
          /\ rc' = [o \in Obj |-> rc[o] - RefsAt(ptab[p], o) + RefsAt(new, o)]
          /\ node' = [o \in Obj |-> IF o \in Replaced(ptab[p], cn, role)
                                    THEN [node[o] EXCEPT !.gen = -1]
                                    ELSE node[o]]
    /\ Assign(t, [lv[t] EXCEPT !.pend = @ \ {p}])
    /\ UNCHANGED <<node_v, npart_known, running, found_all, hosts, pc, tx,
                   serverVars>>

UpdateDone(t) ==
    /\ pc[t] = "update" /\ lv[t].pend = {}
    /\ NextNode(t, {})
    /\ UNCHANGED <<rc, node, node_v, ptab, npart_known, running, found_all,
                   hosts, tx, serverVars>>

\* Past the last node: explore the services.
Explore(t) ==
    /\ pc[t] = "node" /\ lv[t].i > Len(node_v)
    /\ Goto(t, "svc")
    /\ Assign(t, [lv[t] EXCEPT !.todo = IF Follow THEN lv[t].svc ELSE {}])
    /\ UNCHANGED <<rc, node, node_v, ptab, npart_known, running, found_all,
                   hosts, tx, serverVars>>

MarkFound(t) ==
    /\ pc[t] = "svc" /\ lv[t].todo = {}
    /\ found_all' = (found_all \/ (Follow /\ ~lv[t].n_new))
    /\ Goto(t, "end")
    /\ UNCHANGED <<rc, node, node_v, ptab, npart_known, running, hosts, lv, tx,
                   serverVars>>

TendEnd(t) ==
    /\ pc[t] = "end"
    /\ running' = FALSE
    /\ Assign(t, [Idle EXCEPT !.target = lv[t].target])
    /\ Goto(t, IF t = TenderThr THEN "idle" ELSE "loop")
    /\ UNCHANGED <<rc, node, node_v, ptab, npart_known, found_all, hosts, tx,
                   serverVars>>

Tend(t) ==
    \/ TendBegin(t) \/ AppendNode(t)
    \/ (\E a \in Addr : SkipAddress(t, a) \/ AddAddress(t, a) \/ CreateNode(t, a))
    \/ cluster_get_n_partitions(t) \/ KeepNode(t) \/ AbsentNode(t) \/ DropNode(t)
    \/ PingNode(t) \/ FetchReplicas(t) \/ (\E p \in Part : UpdatePartition(t, p))
    \/ UpdateDone(t) \/ Explore(t) \/ MarkFound(t) \/ TendEnd(t)

-----------------------------------------------------------------------------
\* citrusleaf_cluster_add_host(a), by a user thread.

RegisterHost(u, a) ==
    /\ pc[u] = "idle" /\ a \notin hosts
    /\ hosts' = hosts \cup {a}
    /\ Assign(u, [Idle EXCEPT !.target = a])
    /\ Goto(u, "mark")
    /\ UNCHANGED <<rc, node, node_v, ptab, npart_known, running, found_all, tx,
                   serverVars>>

NotFoundAll(u) ==
    /\ pc[u] = "mark"
    /\ found_all' = FALSE
    /\ Goto(u, "call")
    /\ UNCHANGED <<rc, node, node_v, ptab, npart_known, running, hosts, lv, tx,
                   serverVars>>

\* The waiting loop: tend again until everything is found or time is up.
AddHostLoop(u) ==
    /\ pc[u] = "loop"
    /\ \/ ~found_all /\ Goto(u, "call") /\ UNCHANGED lv
       \/ Goto(u, "check") /\ Assign(u, [lv[u] EXCEPT !.expired = ~found_all])
    /\ UNCHANGED <<rc, node, node_v, ptab, npart_known, running, found_all,
                   hosts, tx, serverVars>>

\* cl_cluster_node_get_byaddr without a lock: read a pointer out of node_v,
\* then read through it.
PeekNode(u) ==
    /\ pc[u] = "check"
    /\ IF lv[u].i <= Len(node_v)
       THEN /\ Assign(u, [lv[u] EXCEPT !.cn = node_v[lv[u].i]])
            /\ Goto(u, "deref")
       ELSE UNCHANGED lv /\ Goto(u, "FAIL_TIMEOUT")
    /\ UNCHANGED <<rc, node, node_v, ptab, npart_known, running, found_all,
                   hosts, tx, serverVars>>

\* Memory that has been freed reads as anything.
DerefNode(u) ==
    /\ pc[u] = "deref"
    /\ \E match \in IF rc[lv[u].cn] = 0 THEN BOOLEAN
                    ELSE {lv[u].target \in node[lv[u].cn].addrs} :
          Goto(u, IF match THEN "OK" ELSE "check")
    /\ Assign(u, [lv[u] EXCEPT !.cn = NULL, !.i = @ + 1])
    /\ UNCHANGED <<rc, node, node_v, ptab, npart_known, running, found_all,
                   hosts, tx, serverVars>>

AddHostReturn(u) ==
    /\ pc[u] \in {"OK", "FAIL_TIMEOUT"}
    /\ Goto(u, "idle")
    /\ Assign(u, Idle)
    /\ UNCHANGED <<rc, node, node_v, ptab, npart_known, running, found_all,
                   hosts, tx, serverVars>>

AddHost(u) ==
    \/ \E a \in Addr : RegisterHost(u, a)
    \/ NotFoundAll(u) \/ AddHostLoop(u) \/ PeekNode(u) \/ DerefNode(u)
    \/ AddHostReturn(u)

-----------------------------------------------------------------------------
\* Transactions: cl_cluster_node_get, then cl_cluster_node_put.

\* cl_partition_table_get: a write goes to the master, a read to either
\* replica in turn; the node is reserved before the slot is unlocked.
ReplicaOf(slot, write) ==
    IF write \/ slot.prole = NULL THEN {slot.master}
    ELSE IF slot.master = NULL THEN {slot.prole}
    ELSE {slot.master, slot.prole}

cl_partition_table_get(x, p, write) ==
    /\ tx[x] = "idle"
    /\ \E o \in ReplicaOf(ptab[p], write) :
        IF o = NULL
        THEN tx' = [tx EXCEPT ![x] = "random"] /\ UNCHANGED rc
        ELSE tx' = [tx EXCEPT ![x] = o] /\ cl_cluster_node_reserve(o)
    /\ UNCHANGED <<node, tendVars, serverVars>>

\* The rotating index last_node may stand anywhere in node_v.
cl_cluster_node_get_random(x) ==
    /\ tx[x] = "random"
    /\ IF node_v = <<>>
       THEN tx' = [tx EXCEPT ![x] = "idle"] /\ UNCHANGED rc
       ELSE \E o \in Nodes :
                tx' = [tx EXCEPT ![x] = o] /\ cl_cluster_node_reserve(o)
    /\ UNCHANGED <<node, tendVars, serverVars>>

cl_cluster_node_put(x) ==
    /\ tx[x] \in Obj
    /\ cl_cluster_node_release(tx[x])
    /\ tx' = [tx EXCEPT ![x] = "idle"]
    /\ UNCHANGED <<tendVars, serverVars>>

Transaction(x) ==
    \/ \E p \in Part, write \in BOOLEAN : cl_partition_table_get(x, p, write)
    \/ cl_cluster_node_get_random(x) \/ cl_cluster_node_put(x)

-----------------------------------------------------------------------------
\* The servers: crash, come back, change what they own, move.

ServerStep ==
    /\ changes < MaxChanges /\ changes' = changes + 1
    /\ \/ /\ \E n \in Name : up' = [up EXCEPT ![n] = ~@]
          /\ UNCHANGED <<host, gen, own>>
       \/ /\ \E n \in Name, claim \in [Part -> Role] :
                /\ claim # own[n]
                /\ own' = [own EXCEPT ![n] = claim]
                /\ gen' = [gen EXCEPT ![n] = @ + 1]
          /\ UNCHANGED <<host, up>>
       \/ /\ Renames
          /\ \E a \in Addr, n \in Name : host' = [host EXCEPT ![a] = n]
          /\ UNCHANGED <<up, gen, own>>
    /\ UNCHANGED <<rc, node, tendVars, tx>>

Next ==
    \/ \E t \in Tender : Tend(t)
    \/ \E u \in User : AddHost(u)
    \/ \E x \in Tx : Transaction(x)
    \/ ServerStep

Spec == Init /\ [][Next]_vars

\* cluster_tender_fn never stops tending.
FairSpec == Spec /\ WF_vars(Tend(TenderThr))

-----------------------------------------------------------------------------
\* Properties.

Pcs == {"idle", "seed", "seed_add", "node", "drop", "ping", "fetch", "update",
        "svc", "svc_add", "end", "mark", "call", "loop", "check", "deref", "OK",
        "FAIL_TIMEOUT"}

NodeRecord == [name : Name \cup {NULL}, addrs : SUBSET Addr,
               gen : -1 .. MaxChanges, absent : 0 .. MAX_INTERVALS_ABSENT + 2]

Locals == [todo : SUBSET Addr, svc : SUBSET Addr, n_new : BOOLEAN,
           i : Nat \ {0}, cn : Obj \cup {NULL}, claim : [Part -> Role] \cup {NULL},
           pend : SUBSET Part, target : Addr \cup {NULL}, expired : BOOLEAN]

ThreadTypes ==
    /\ pc \in [Tender -> Pcs] /\ lv \in [Tender -> Locals]
    /\ \A t \in Tender :
        /\ pc[t] \in {"seed_add", "svc_add", "drop", "ping", "fetch", "update",
                      "deref"} => lv[t].cn \in Obj
        /\ pc[t] = "update" => lv[t].claim \in [Part -> Role]
    /\ tx \in [Tx -> {"idle", "random"} \cup Obj]

ClientTypes ==
    /\ node \in [Obj -> NodeRecord]
    /\ node_v \in Seq(Obj)
    /\ ptab \in [Part -> [master : Obj \cup {NULL}, prole : Obj \cup {NULL}]]
    /\ npart_known \in BOOLEAN /\ running \in BOOLEAN /\ found_all \in BOOLEAN
    /\ hosts \subseteq Addr

ServerTypes ==
    /\ host \in [Addr -> Name] /\ up \in [Name -> BOOLEAN]
    /\ gen \in [Name -> 0 .. MaxChanges] /\ own \in [Name -> [Part -> Role]]
    /\ changes \in 0 .. MaxChanges

\* Every variable has its type; a tending thread inside the node loop has a
\* node, one past FetchReplicas the claim it is copying; and no node survives
\* in the list for more laps than MAX_INTERVALS_ABSENT allows.
TypeOK ==
    rc \in [Obj -> Nat] /\ ThreadTypes /\ ClientTypes /\ ServerTypes

\* A node on its way into the list, or just taken out of it, belongs to the
\* thread that moves it.
Carrying(t) ==
    IF pc[t] \in {"seed_add", "svc_add", "drop"} THEN lv[t].cn ELSE NULL

\* The references to a node, by the tags of cl_cluster_node_reserve and
\* cl_cluster_node_release: C the thread that moves it or the node list, PM and
\* PP the slots of the partition table, T the transactions.
Carriers(o) == {t \in Tender : Carrying(t) = o}
MasterSlots(o) == {p \in Part : ptab[p].master = o}
ProleSlots(o) == {p \in Part : ptab[p].prole = o}
Users(o) == {x \in Tx : tx[x] = o}

Refs(o) ==
    Cardinality(Carriers(o)) + (IF o \in Nodes THEN 1 ELSE 0)
    + Cardinality(MasterSlots(o)) + Cardinality(ProleSlots(o))
    + Cardinality(Users(o))

\* A node's reference count is the number of its holders at every moment, so
\* that it is freed exactly when the last one lets go: no block is leaked and
\* none is freed under a slot, a list entry or a transaction, whatever the
\* interleaving of tending, transactions and server failures.
RefCountExact == \A o \in Obj : rc[o] = Refs(o)

\* Every node in the partition table is in the node list.  This is why
\* cl_partition_table_update and cl_partition_table_is_node_present may call
\* cl_cluster_node_release under a partition lock: "these releases won't cause
\* node destruction", because the list still holds its own reference.
MapNodesListed ==
    \A p \in Part : {ptab[p].master, ptab[p].prole} \subseteq Nodes \cup {NULL}

\* One node object per server name in the list, and no address belongs to two
\* of them: discovery by seeds, by services and by both at once finds each
\* server once.
DiscoveryUnique ==
    \A i, j \in DOMAIN node_v :
        i # j => /\ node_v[i] # node_v[j]
                 /\ node[node_v[i]].name # node[node_v[j]].name
                 /\ node[node_v[i]].addrs \cap node[node_v[j]].addrs = {}

\* A node whose stored generation is its server's current one has every master
\* slot its server claims, unless its claim is being copied right now, or it is
\* out of the map altogether and about to be dropped.  So "generation unchanged,
\* no fetch" never freezes a wrong map.
ClaimsRecorded ==
    \A o \in Nodes, p \in Part :
        LET n == node[o].name
        IN (node[o].gen = gen[n] /\ own[n][p] = "master") =>
            \/ ptab[p].master = o
            \/ \E t \in Tender : pc[t] = "update" /\ lv[t].cn = o
            \/ ~Present(o)

\* Once the servers have settled, the table comes to say what they agree on,
\* for masters and proles, and stays so, provided one of the seeds is up.
MapMatches ==
    \A p \in Part, n \in Name :
        /\ Claims(n, p, "master") <=>
            (ptab[p].master # NULL /\ node[ptab[p].master].name = n)
        /\ Claims(n, p, "prole") <=>
            (ptab[p].prole # NULL /\ node[ptab[p].prole].name = n)

MapConverges ==
    <>[](ServersAgree /\ \E a \in hosts : up[host[a]]) => <>[]MapMatches

\* "No need to lock nodes list because this function is only called by
\* cluster_tend() thread" (cl_cluster_node_get_byaddr): the node read through
\* is still allocated.  citrusleaf_cluster_add_host calls it as well.
ByAddrReadsLive == \A u \in User : pc[u] = "deref" => rc[lv[u].cn] > 0

\* "the timeout is how long to wait before the cluster is settled"
\* (citrusleaf_cluster_add_host): while its server is up, the call gives up on
\* the host only after that time.
AddHostWaits ==
    \A u \in User :
        pc[u] = "FAIL_TIMEOUT" => lv[u].expired \/ ~up[host[lv[u].target]]

=============================================================================
