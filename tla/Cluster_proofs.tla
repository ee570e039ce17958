--------------------------- MODULE Cluster_proofs ---------------------------
(***************************************************************************)
(* Theorems about Cluster, for any number of servers, partitions, threads   *)
(* and blocks, whatever the servers do.                                     *)
(***************************************************************************)
EXTENDS Cluster, FiniteSetTheorems, SequenceTheorems, TLAPS

\* The steps of cluster_tend, and those with a node of the list in hand.
Tending == {"seed", "seed_add", "node", "drop", "ping", "fetch", "update",
            "svc", "svc_add", "end"}

Current(t) == IF pc[t] \in {"ping", "fetch", "update"} THEN lv[t].cn ELSE NULL

\* CLS_TENDER_RUNNING is a lock: one thread tends at a time.
OneTender ==
    \A t \in Tender : pc[t] \in Tending =>
        running /\ \A s \in Tender : pc[s] \in Tending => s = t

\* The node list has no node twice; the node being pinged is in it, a node on
\* its way in or out is not.
Distinct == \A i, j \in DOMAIN node_v : i # j => node_v[i] # node_v[j]
ListOK ==
    /\ Distinct
    /\ \A t \in Tender : Current(t) \in Nodes \cup {NULL}
    /\ \A t \in Tender : Carrying(t) \notin Nodes

\* A new node is known by no name and no address of the list.
FreshOK ==
    \A t \in Tender : pc[t] \in {"seed_add", "svc_add"} =>
        /\ node[lv[t].cn].absent = 0
        /\ ByName(node[lv[t].cn].name) = {}
        /\ \A a \in node[lv[t].cn].addrs : ByAddr(a) = {}

\* Laps of absence, and generations, stay within their bounds.
BoundsOK ==
    /\ \A o \in Nodes : node[o].absent <= MAX_INTERVALS_ABSENT + 1
    /\ \A n \in Name : gen[n] <= changes

IInv ==
    /\ TypeOK /\ OneTender /\ ListOK /\ MapNodesListed /\ RefCountExact
    /\ FreshOK /\ BoundsOK /\ DiscoveryUnique

-----------------------------------------------------------------------------
(* Types                                                                   *)

\* A counted node keeps its type when its count reaches zero.
LEMMA BlankType == Blank \in NodeRecord /\ Idle \in Locals
  BY ChangesAssumption DEF Blank, NodeRecord, Idle, Locals, MAX_INTERVALS_ABSENT

\* The servers keep their types: a generation counts changes.
LEMMA ServerTypesNext ==
  ASSUME IInv, [Next]_vars
  PROVE  ServerTypes'
<1> USE DEF ServerTypes
<1>0. ServerTypes /\ (\A n \in Name : gen[n] <= changes)
  BY DEF IInv, TypeOK, BoundsOK
<1>1. CASE ServerStep
  <2>1. changes' \in 0 .. MaxChanges
    BY <1>0, <1>1, ChangesAssumption DEF ServerStep
  <2>2. gen' \in [Name -> 0 .. MaxChanges]
    BY <1>0, <1>1, ChangesAssumption DEF ServerStep
  <2>3. own' \in [Name -> [Part -> Role]]
    BY <1>0, <1>1 DEF ServerStep
  <2>4. host' \in [Addr -> Name] /\ up' \in [Name -> BOOLEAN]
    BY <1>0, <1>1 DEF ServerStep
  <2> QED BY <2>1, <2>2, <2>3, <2>4
<1>2. ASSUME UNCHANGED serverVars PROVE ServerTypes'
  BY <1>0, <1>2 DEF serverVars
<1>3. ASSUME NEW t \in Tender, Tend(t) PROVE UNCHANGED serverVars
  BY <1>3, Zenon DEF Tend, TendBegin, SkipAddress, AddAddress, CreateNode, AppendNode,
     cluster_get_n_partitions, KeepNode, AbsentNode, DropNode, PingNode, FetchReplicas,
     UpdatePartition, UpdateDone, Explore, MarkFound, TendEnd
<1>4. ASSUME NEW u \in User, AddHost(u) PROVE UNCHANGED serverVars
  BY <1>4, Zenon DEF AddHost, RegisterHost, NotFoundAll, AddHostLoop, PeekNode, DerefNode,
     AddHostReturn
<1>5. ASSUME NEW x \in Tx, Transaction(x) PROVE UNCHANGED serverVars
  BY <1>5, Zenon DEF Transaction, cl_partition_table_get, cl_cluster_node_get_random,
     cl_cluster_node_put
<1>6. ASSUME UNCHANGED vars PROVE UNCHANGED serverVars
  BY <1>6, Zenon DEF vars
<1> QED BY <1>1, <1>2, <1>3, <1>4, <1>5, <1>6 DEF Next

\* Storing into one local keeps the type of the others, and which node is in
\* hand.
LEMMA StoreLocal ==
  ASSUME NEW r \in Locals
  PROVE  /\ \A v \in SUBSET Addr :
              [r EXCEPT !.todo = v] \in Locals /\ [r EXCEPT !.todo = v].cn = r.cn
         /\ \A v \in SUBSET Addr :
              [r EXCEPT !.svc = v] \in Locals /\ [r EXCEPT !.svc = v].cn = r.cn
         /\ \A v \in BOOLEAN :
              [r EXCEPT !.n_new = v] \in Locals /\ [r EXCEPT !.n_new = v].cn = r.cn
         /\ \A v \in Nat \ {0} :
              [r EXCEPT !.i = v] \in Locals /\ [r EXCEPT !.i = v].cn = r.cn
         /\ \A v \in Obj \cup {NULL} :
              [r EXCEPT !.cn = v] \in Locals /\ [r EXCEPT !.cn = v].cn = v
         /\ \A v \in [Part -> Role] \cup {NULL} :
              /\ [r EXCEPT !.claim = v] \in Locals
              /\ [r EXCEPT !.claim = v].cn = r.cn
              /\ [r EXCEPT !.claim = v].claim = v
         /\ \A v \in SUBSET Part :
              /\ [r EXCEPT !.pend = v] \in Locals
              /\ [r EXCEPT !.pend = v].cn = r.cn
              /\ [r EXCEPT !.pend = v].claim = r.claim
         /\ \A v \in Addr \cup {NULL} :
              [r EXCEPT !.target = v] \in Locals /\ [r EXCEPT !.target = v].cn = r.cn
         /\ \A v \in BOOLEAN :
              [r EXCEPT !.expired = v] \in Locals /\ [r EXCEPT !.expired = v].cn = r.cn
  BY DEF Locals

\* The places at which a thread has a node in hand.
Handling == {"seed_add", "svc_add", "drop", "ping", "fetch", "update", "deref"}

\* One step of one thread: it goes to l with node c in hand, and the others
\* stay.
Moves(t, l, c) ==
    /\ pc'[t] = l /\ lv'[t].cn = c
    /\ \A s \in Tender \ {t} : pc'[s] = pc[s] /\ lv'[s] = lv[s]

\* A place and locals that fit it keep the types of the threads.
LEMMA ThreadStep ==
  ASSUME ThreadTypes, NEW t \in Tender, NEW l \in Pcs, NEW r \in Locals,
         Goto(t, l), Assign(t, r), UNCHANGED tx,
         l \in Handling => r.cn \in Obj,
         l = "update" => r.claim \in [Part -> Role]
  PROVE  ThreadTypes' /\ Moves(t, l, r.cn)
<1>1. pc' \in [Tender -> Pcs] /\ lv' \in [Tender -> Locals]
  BY DEF ThreadTypes, Goto, Assign
<1>2. ASSUME NEW s \in Tender
      PROVE  /\ pc'[s] = IF s = t THEN l ELSE pc[s]
             /\ lv'[s] = IF s = t THEN r ELSE lv[s]
  BY DEF ThreadTypes, Goto, Assign
<1> QED BY <1>1, <1>2 DEF ThreadTypes, Handling, Moves

\* cluster_tend is refused, or begins.
LEMMA TendBeginMoves ==
  ASSUME TypeOK, NEW t \in Tender, TendBegin(t)
  PROVE  ThreadTypes' /\ IF running THEN Moves(t, "loop", lv[t].cn)
                                      ELSE Moves(t, "seed", lv[t].cn) /\ running'
<1>0. ThreadTypes /\ lv[t] \in Locals /\ pc[t] \in Pcs /\ UNCHANGED tx
  BY DEF TypeOK, ThreadTypes, TendBegin
<1>1. CASE running
  <2>1. Goto(t, "loop") /\ Assign(t, lv[t])
    BY <1>1, <1>0 DEF TendBegin, Assign, ThreadTypes
  <2> QED BY <2>1, <1>0, <1>1, ThreadStep DEF Pcs, Handling
<1>2. CASE ~running
  <2> DEFINE r == [lv[t] EXCEPT !.todo = hosts, !.svc = hosts]
  <2>1. Goto(t, "seed") /\ Assign(t, r) /\ running'
    BY <1>2 DEF TendBegin
  <2>2. hosts \in SUBSET Addr
    BY DEF TypeOK, ClientTypes
  <2>3. r \in Locals /\ r.cn = lv[t].cn
    <3>1. /\ [lv[t] EXCEPT !.todo = hosts] \in Locals
          /\ [lv[t] EXCEPT !.todo = hosts].cn = lv[t].cn
      BY <2>2, <1>0, StoreLocal, Zenon
    <3> QED BY <2>2, <3>1, StoreLocal, Zenon
  <2> HIDE DEF r
  <2>4. ThreadTypes' /\ Moves(t, "seed", r.cn)
    BY <2>1, <2>3, <1>0, ThreadStep DEF Pcs, Handling
  <2> QED BY <2>1, <2>3, <2>4, <1>2
<1> QED BY <1>1, <1>2

\* The address in turn is taken out of the vector.
LEMMA TookTypes ==
  ASSUME TypeOK, NEW t \in Tender, NEW a, NEW o \in Obj \cup {NULL}, NEW l \in Pcs,
         Took(t, a, o), Goto(t, l), UNCHANGED tx, l \in Handling => o \in Obj,
         l # "update"
  PROVE  ThreadTypes' /\ Moves(t, l, o)
<1>0. ThreadTypes /\ lv[t] \in Locals
  BY DEF TypeOK, ThreadTypes
<1> DEFINE todo == lv[t].todo \ {a}
           n_new == lv[t].n_new \/ (pc[t] = "svc" /\ Asked(a))
           r == [lv[t] EXCEPT !.todo = todo, !.cn = o, !.n_new = n_new]
<1>1. Assign(t, r)
  BY DEF Took
<1>2. todo \in SUBSET Addr /\ n_new \in BOOLEAN
  BY <1>0 DEF Locals
<1> HIDE DEF todo, n_new
<1>3. [lv[t] EXCEPT !.todo = todo] \in Locals
  BY <1>0, <1>2, StoreLocal, Zenon
<1>4. [lv[t] EXCEPT !.todo = todo, !.cn = o] \in Locals
      /\ [lv[t] EXCEPT !.todo = todo, !.cn = o].cn = o
  BY <1>3, StoreLocal, Zenon
<1>5. r \in Locals /\ r.cn = o
  BY <1>2, <1>4, StoreLocal, Zenon
<1> HIDE DEF r
<1>6. ThreadTypes' /\ Moves(t, l, r.cn)
  BY <1>0, <1>1, <1>5, ThreadStep
<1> QED BY <1>5, <1>6

\* The actions of cluster_tend, one by one: where the thread goes, and with
\* which node.

\* A node that has been created is appended.
LEMMA AppendNodeMoves ==
  ASSUME TypeOK, NEW t \in Tender, AppendNode(t)
  PROVE  ThreadTypes' /\ Moves(t, IF pc[t] = "seed_add" THEN "seed" ELSE "svc", NULL)
<1>0. ThreadTypes /\ lv[t] \in Locals /\ pc[t] \in Pcs /\ UNCHANGED tx
  BY DEF TypeOK, ThreadTypes, AppendNode
<1> DEFINE r == [lv[t] EXCEPT !.cn = NULL]
           l == IF pc[t] = "seed_add" THEN "seed" ELSE "svc"
<1>1. Goto(t, l) /\ Assign(t, r)
  BY DEF AppendNode
<1>2. r \in Locals /\ r.cn = NULL
  BY <1>0, StoreLocal, Zenon
<1>3. l \in Pcs /\ l \notin Handling
  BY DEF Pcs, Handling
<1> HIDE DEF r, l
<1>4. ThreadTypes' /\ Moves(t, l, r.cn)
  BY <1>0, <1>1, <1>2, <1>3, ThreadStep DEF Handling
<1> QED BY <1>2, <1>4 DEF l

\* The seeds are done.
LEMMA Cluster_get_n_partitionsMoves ==
  ASSUME TypeOK, NEW t \in Tender, cluster_get_n_partitions(t)
  PROVE  ThreadTypes' /\ Moves(t, "node", lv[t].cn)
<1>0. ThreadTypes /\ lv[t] \in Locals /\ pc[t] \in Pcs /\ UNCHANGED tx
  BY DEF TypeOK, ThreadTypes, cluster_get_n_partitions
<1> DEFINE v == {}
           r == [lv[t] EXCEPT !.svc = v]
<1>1. Goto(t, "node") /\ Assign(t, r)
  BY <1>0 DEF cluster_get_n_partitions
<1>2. v \in SUBSET Addr
  BY <1>0 DEF TypeOK
<1> HIDE DEF v
<1>3. r \in Locals /\ r.cn = lv[t].cn
  BY <1>0, <1>2, StoreLocal, Zenon
<1> HIDE DEF r
<1>4. ThreadTypes' /\ Moves(t, "node", r.cn)
  BY <1>0, <1>1, <1>3, ThreadStep DEF Pcs, Handling
<1> QED BY <1>3, <1>4

\* A node of the list is kept.
LEMMA KeepNodeMoves ==
  ASSUME TypeOK, NEW t \in Tender, KeepNode(t)
  PROVE  ThreadTypes' /\ Moves(t, "ping", node_v[lv[t].i])
<1>0. ThreadTypes /\ lv[t] \in Locals /\ pc[t] \in Pcs /\ UNCHANGED tx
  BY DEF TypeOK, ThreadTypes, KeepNode
<1>b. node_v[lv[t].i] \in Obj
  BY <1>0 DEF TypeOK, ClientTypes, Locals, KeepNode
<1> DEFINE c == node_v[lv[t].i]
           r == [lv[t] EXCEPT !.cn = c]
<1>1. Goto(t, "ping") /\ Assign(t, r)
  BY DEF KeepNode
<1> HIDE DEF c
<1>2. r \in Locals /\ r.cn = c
  BY <1>0, <1>b, StoreLocal, Zenon DEF c
<1> HIDE DEF r
<1>3. ThreadTypes' /\ Moves(t, "ping", r.cn)
  BY <1>0, <1>b, <1>1, <1>2, ThreadStep DEF Pcs, c
<1> QED BY <1>2, <1>3 DEF c

\* A node of the list is missed, or given up.
LEMMA AbsentNodeMoves ==
  ASSUME TypeOK, NEW t \in Tender, AbsentNode(t)
  PROVE  ThreadTypes' /\ (IF node[node_v[lv[t].i]].absent > MAX_INTERVALS_ABSENT
                          THEN Moves(t, "drop", node_v[lv[t].i])
                          ELSE Moves(t, "ping", node_v[lv[t].i]))
<1>0. ThreadTypes /\ lv[t] \in Locals /\ pc[t] \in Pcs /\ UNCHANGED tx
  BY DEF TypeOK, ThreadTypes, AbsentNode
<1>b. node_v[lv[t].i] \in Obj
  BY <1>0 DEF TypeOK, ClientTypes, Locals, AbsentNode
<1> DEFINE c == node_v[lv[t].i]
           r == [lv[t] EXCEPT !.cn = c]
           l == IF node[c].absent > MAX_INTERVALS_ABSENT THEN "drop" ELSE "ping"
<1>1. Goto(t, l) /\ Assign(t, r)
  BY DEF AbsentNode
<1>l. l \in Pcs /\ l # "update"
  BY DEF Pcs
<1> HIDE DEF c, l
<1>2. r \in Locals /\ r.cn = c
  BY <1>0, <1>b, StoreLocal, Zenon DEF c
<1> HIDE DEF r
<1>3. ThreadTypes' /\ Moves(t, l, r.cn)
  BY <1>0, <1>b, <1>l, <1>1, <1>2, ThreadStep DEF c
<1> QED BY <1>2, <1>3 DEF c, l

\* A node that was given up is let go.
LEMMA DropNodeMoves ==
  ASSUME TypeOK, NEW t \in Tender, DropNode(t)
  PROVE  ThreadTypes' /\ Moves(t, "node", NULL)
<1>0. ThreadTypes /\ lv[t] \in Locals /\ pc[t] \in Pcs /\ UNCHANGED tx
  BY DEF TypeOK, ThreadTypes, DropNode
<1> DEFINE r == [lv[t] EXCEPT !.cn = NULL]
<1>1. Goto(t, "node") /\ Assign(t, r)
  BY DEF DropNode
<1>2. r \in Locals /\ r.cn = NULL
  BY <1>0, StoreLocal, Zenon
<1> HIDE DEF r
<1>3. ThreadTypes' /\ Moves(t, "node", r.cn)
  BY <1>0, <1>1, <1>2, ThreadStep DEF Pcs, Handling
<1> QED BY <1>2, <1>3

\* Storing into a node.
LEMMA StoreNode ==
  ASSUME NEW r \in NodeRecord
  PROVE  /\ \A v \in SUBSET Addr :
              LET q == [r EXCEPT !.addrs = v]
              IN q \in NodeRecord /\ q.name = r.name /\ q.addrs = v /\ q.absent = r.absent
         /\ \A v \in -1 .. MaxChanges :
              LET q == [r EXCEPT !.gen = v]
              IN q \in NodeRecord /\ q.name = r.name /\ q.addrs = r.addrs
                 /\ q.absent = r.absent
         /\ \A v \in 0 .. MAX_INTERVALS_ABSENT + 2 :
              LET q == [r EXCEPT !.absent = v]
              IN q \in NodeRecord /\ q.name = r.name /\ q.addrs = r.addrs
                 /\ q.absent = v
         /\ r.absent \in 0 .. MAX_INTERVALS_ABSENT + 2 /\ r.addrs \in SUBSET Addr
  BY DEF NodeRecord

\* The next node of the list.
LEMMA NextNodeMoves ==
  ASSUME TypeOK, NEW t \in Tender, lv[t].cn \in Obj, NEW found \in SUBSET Addr,
         NextNode(t, found), UNCHANGED tx
  PROVE  ThreadTypes' /\ Moves(t, "node", NULL)
<1>0. ThreadTypes /\ lv[t] \in Locals
  BY DEF TypeOK, ThreadTypes
<1> DEFINE svc == lv[t].svc \cup found \cup node[lv[t].cn].addrs
           i == lv[t].i + 1
           r1 == [lv[t] EXCEPT !.svc = svc]
           r2 == [r1 EXCEPT !.i = i]
           r3 == [r2 EXCEPT !.cn = NULL]
           r == [r3 EXCEPT !.claim = NULL]
<1>1. Goto(t, "node") /\ Assign(t, r)
  BY Zenon DEF NextNode
<1>2. svc \in SUBSET Addr /\ i \in Nat \ {0}
  <2>1. node[lv[t].cn] \in NodeRecord
    BY DEF TypeOK, ClientTypes
  <2>2. node[lv[t].cn].addrs \in SUBSET Addr
    BY <2>1, StoreNode
  <2>3. lv[t].svc \in SUBSET Addr /\ lv[t].i \in Nat \ {0}
    BY <1>0 DEF Locals
  <2> QED BY <2>2, <2>3
<1> HIDE DEF svc, i
<1>3. r1 \in Locals
  BY <1>0, <1>2, StoreLocal, Zenon
<1> HIDE DEF r1
<1>4. r2 \in Locals
  BY <1>2, <1>3, StoreLocal, Zenon
<1> HIDE DEF r2
<1>5. r3 \in Locals /\ r3.cn = NULL
  BY <1>4, StoreLocal, Zenon
<1> HIDE DEF r3
<1>6. r \in Locals /\ r.cn = NULL
  <2>1. NULL \in [Part -> Role] \cup {NULL}
    OBVIOUS
  <2> QED BY <1>5, <2>1, StoreLocal
<1> HIDE DEF r
<1>7. ThreadTypes' /\ Moves(t, "node", r.cn)
  BY <1>0, <1>1, <1>6, ThreadStep DEF Pcs, Handling
<1> QED BY <1>6, <1>7

\* A node has been asked.
LEMMA PingNodeMoves ==
  ASSUME TypeOK, NEW t \in Tender, PingNode(t)
  PROVE  ThreadTypes' /\ (\/ Moves(t, "node", NULL)
                          \/ Moves(t, "fetch", lv[t].cn))
<1>0. ThreadTypes /\ lv[t] \in Locals /\ pc[t] \in Pcs /\ UNCHANGED tx
  BY DEF TypeOK, ThreadTypes, PingNode
<1>a. lv[t].cn \in Obj /\ Services \in SUBSET Addr
  BY DEF TypeOK, ThreadTypes, PingNode, Services
<1>1. ASSUME NEW found \in SUBSET Addr, NextNode(t, found)
      PROVE  ThreadTypes' /\ Moves(t, "node", NULL)
  BY <1>0, <1>a, <1>1, NextNodeMoves
<1> DEFINE svc == lv[t].svc \cup Services
           r == [lv[t] EXCEPT !.svc = svc]
<1>2. ASSUME Goto(t, "fetch"), Assign(t, r)
      PROVE  ThreadTypes' /\ Moves(t, "fetch", lv[t].cn)
  <2>1. svc \in SUBSET Addr
    BY <1>0, <1>a DEF Locals
  <2> HIDE DEF svc
  <2>2. r \in Locals /\ r.cn = lv[t].cn
    BY <1>0, <2>1, StoreLocal, Zenon
  <2> HIDE DEF r
  <2>3. ThreadTypes' /\ Moves(t, "fetch", r.cn)
    BY <1>0, <1>a, <1>2, <2>2, ThreadStep DEF Pcs
  <2> QED BY <2>2, <2>3
<1>3. \/ \E found \in SUBSET Addr : NextNode(t, found)
      \/ Goto(t, "fetch") /\ Assign(t, r)
  BY <1>a DEF PingNode
<1> QED BY <1>1, <1>2, <1>3

\* The claim of a server has been fetched, or not.
LEMMA FetchReplicasMoves ==
  ASSUME TypeOK, NEW t \in Tender, FetchReplicas(t)
  PROVE  ThreadTypes' /\ (\/ Moves(t, "node", NULL)
                          \/ Moves(t, "update", lv[t].cn))
<1>0. ThreadTypes /\ lv[t] \in Locals /\ pc[t] \in Pcs /\ UNCHANGED tx
  BY DEF TypeOK, ThreadTypes, FetchReplicas
<1>a. lv[t].cn \in Obj
  BY DEF TypeOK, ThreadTypes, FetchReplicas
<1>1. ASSUME NextNode(t, {})
      PROVE  ThreadTypes' /\ Moves(t, "node", NULL)
  BY <1>0, <1>a, <1>1, NextNodeMoves
<1>2. ASSUME NEW n \in Name, Goto(t, "update"),
             Assign(t, [lv[t] EXCEPT !.claim = own[n], !.pend = Part])
      PROVE  ThreadTypes' /\ Moves(t, "update", lv[t].cn)
  <2> DEFINE r1 == [lv[t] EXCEPT !.claim = own[n]]
             r == [r1 EXCEPT !.pend = Part]
  <2>0. Assign(t, r)
    BY <1>2
  <2>1. own[n] \in [Part -> Role]
    BY DEF TypeOK, ServerTypes
  <2>2. r1 \in Locals /\ r1.cn = lv[t].cn /\ r1.claim = own[n]
    BY <1>0, <2>1, StoreLocal, Zenon
  <2> HIDE DEF r1
  <2>3. r \in Locals /\ r.cn = lv[t].cn /\ r.claim = own[n]
    <3>1. Part \in SUBSET Part
      OBVIOUS
    <3> QED BY <2>2, <3>1, StoreLocal
  <2> HIDE DEF r
  <2>4. ThreadTypes' /\ Moves(t, "update", r.cn)
    BY <1>0, <1>a, <1>2, <2>0, <2>1, <2>3, ThreadStep DEF Pcs
  <2> QED BY <2>3, <2>4
<1> QED BY <1>1, <1>2 DEF FetchReplicas

\* One partition of the claim is copied.
LEMMA UpdatePartitionMoves ==
  ASSUME TypeOK, NEW t \in Tender, NEW p \in Part, UpdatePartition(t, p)
  PROVE  ThreadTypes' /\ Moves(t, "update", lv[t].cn)
<1>0. ThreadTypes /\ lv[t] \in Locals /\ pc[t] \in Pcs /\ UNCHANGED tx
  BY DEF TypeOK, ThreadTypes, UpdatePartition
<1> DEFINE pend == lv[t].pend \ {p}
           r == [lv[t] EXCEPT !.pend = pend]
<1>1. Assign(t, r) /\ Goto(t, "update")
  BY <1>0 DEF UpdatePartition, Goto, ThreadTypes
<1>2. pend \in SUBSET Part
  BY <1>0 DEF Locals
<1> HIDE DEF pend
<1>3. r \in Locals /\ r.cn = lv[t].cn /\ r.claim = lv[t].claim
  BY <1>0, <1>2, StoreLocal
<1>4. lv[t].cn \in Obj /\ lv[t].claim \in [Part -> Role]
  BY <1>0 DEF UpdatePartition, ThreadTypes
<1> HIDE DEF r
<1>5. ThreadTypes' /\ Moves(t, "update", r.cn)
  BY <1>0, <1>1, <1>3, <1>4, ThreadStep DEF Pcs
<1> QED BY <1>3, <1>5

\* The claim has been copied.
LEMMA UpdateDoneMoves ==
  ASSUME TypeOK, NEW t \in Tender, UpdateDone(t)
  PROVE  ThreadTypes' /\ Moves(t, "node", NULL)
<1>0. ThreadTypes /\ lv[t] \in Locals /\ pc[t] \in Pcs /\ UNCHANGED tx
  BY DEF TypeOK, ThreadTypes, UpdateDone
<1>1. lv[t].cn \in Obj /\ NextNode(t, {})
  BY <1>0 DEF ThreadTypes, UpdateDone
<1> QED BY <1>0, <1>1, NextNodeMoves

\* The nodes are done.
LEMMA ExploreMoves ==
  ASSUME TypeOK, NEW t \in Tender, Explore(t)
  PROVE  ThreadTypes' /\ Moves(t, "svc", lv[t].cn)
<1>0. ThreadTypes /\ lv[t] \in Locals /\ pc[t] \in Pcs /\ UNCHANGED tx
  BY DEF TypeOK, ThreadTypes, Explore
<1> DEFINE v == IF Follow THEN lv[t].svc ELSE {}
           r == [lv[t] EXCEPT !.todo = v]
<1>1. Goto(t, "svc") /\ Assign(t, r)
  BY <1>0 DEF Explore
<1>2. v \in SUBSET Addr
  BY <1>0 DEF Locals
<1> HIDE DEF v
<1>3. r \in Locals /\ r.cn = lv[t].cn
  BY <1>0, <1>2, StoreLocal, Zenon
<1> HIDE DEF r
<1>4. ThreadTypes' /\ Moves(t, "svc", r.cn)
  BY <1>0, <1>1, <1>3, ThreadStep DEF Pcs, Handling
<1> QED BY <1>3, <1>4

\* The services are done.
LEMMA MarkFoundMoves ==
  ASSUME TypeOK, NEW t \in Tender, MarkFound(t)
  PROVE  ThreadTypes' /\ Moves(t, "end", lv[t].cn)
<1>0. ThreadTypes /\ lv[t] \in Locals /\ pc[t] \in Pcs /\ UNCHANGED tx
  BY DEF TypeOK, ThreadTypes, MarkFound
<1>1. Goto(t, "end") /\ Assign(t, lv[t])
  BY <1>0 DEF MarkFound, Assign, ThreadTypes
<1> QED BY <1>0, <1>1, ThreadStep DEF Pcs, Handling

\* The lap is over.
LEMMA TendEndMoves ==
  ASSUME TypeOK, NEW t \in Tender, TendEnd(t)
  PROVE  ThreadTypes' /\ Moves(t, IF t = TenderThr THEN "idle" ELSE "loop", NULL)
<1>0. ThreadTypes /\ lv[t] \in Locals /\ pc[t] \in Pcs /\ UNCHANGED tx
  BY DEF TypeOK, ThreadTypes, TendEnd
<1> DEFINE v == lv[t].target
           r == [Idle EXCEPT !.target = v]
           l == IF t = TenderThr THEN "idle" ELSE "loop"
<1>1. Goto(t, l) /\ Assign(t, r)
  BY DEF TendEnd
<1>2. v \in Addr \cup {NULL} /\ Idle \in Locals /\ Idle.cn = NULL
  BY <1>0, BlankType DEF Locals, Idle
<1>3. l \in Pcs \ Handling
  BY DEF Pcs, Handling
<1> HIDE DEF v, l
<1>4. r \in Locals /\ r.cn = NULL
  BY <1>2, StoreLocal, Zenon
<1> HIDE DEF r
<1>5. ThreadTypes' /\ Moves(t, l, r.cn)
  BY <1>0, <1>1, <1>3, <1>4, ThreadStep DEF Handling
<1> QED BY <1>4, <1>5 DEF l

\* An address needs no node.
LEMMA SkipAddressMoves ==
  ASSUME TypeOK, NEW t \in Tender, NEW a \in Addr, SkipAddress(t, a)
  PROVE  ThreadTypes' /\ Moves(t, pc[t], NULL)
<1>0. ThreadTypes /\ lv[t] \in Locals /\ pc[t] \in Pcs /\ UNCHANGED tx
  BY DEF TypeOK, ThreadTypes, SkipAddress
<1>1. Took(t, a, NULL) /\ Goto(t, pc[t]) /\ pc[t] \in {"seed", "svc"}
  BY <1>0 DEF SkipAddress, Goto, ThreadTypes
<1> QED BY <1>0, <1>1, TookTypes DEF Handling

\* An address is one more of a known node.
LEMMA AddAddressMoves ==
  ASSUME TypeOK, NEW t \in Tender, NEW a \in Addr, AddAddress(t, a)
  PROVE  ThreadTypes' /\ Moves(t, pc[t], NULL)
<1>0. ThreadTypes /\ lv[t] \in Locals /\ pc[t] \in Pcs /\ UNCHANGED tx
  BY DEF TypeOK, ThreadTypes, AddAddress
<1>1. Took(t, a, NULL) /\ Goto(t, pc[t]) /\ pc[t] \in {"seed", "svc"}
  BY <1>0 DEF AddAddress, Goto, ThreadTypes
<1> QED BY <1>0, <1>1, TookTypes DEF Handling

\* An address has a new server: a free block becomes its node.
LEMMA CreateNodeMoves ==
  ASSUME TypeOK, NEW t \in Tender, NEW a \in Addr, CreateNode(t, a)
  PROVE  ThreadTypes' /\ \E o \in Free :
                    /\ rc' = [rc EXCEPT ![o] = 1]
                    /\ node' = [node EXCEPT ![o] =
                                   [Blank EXCEPT !.name = host[a], !.addrs = {a}]]
                    /\ Moves(t, IF pc[t] = "seed" THEN "seed_add" ELSE "svc_add", o)
<1>0. ThreadTypes /\ lv[t] \in Locals /\ pc[t] \in Pcs /\ UNCHANGED tx
  BY DEF TypeOK, ThreadTypes, CreateNode
<1>1. PICK o \in Free :
        /\ rc' = [rc EXCEPT ![o] = 1]
        /\ node' = [node EXCEPT ![o] = [Blank EXCEPT !.name = host[a], !.addrs = {a}]]
        /\ Took(t, a, o)
  BY Zenon DEF CreateNode
<1>2. o \in Obj
  BY DEF Free
<1> DEFINE l == IF pc[t] = "seed" THEN "seed_add" ELSE "svc_add"
<1>3. Goto(t, l) /\ l \in Pcs /\ l # "update"
  BY DEF CreateNode, Pcs
<1>4. ThreadTypes' /\ Moves(t, l, o)
  BY <1>0, <1>1, <1>2, <1>3, TookTypes
<1> QED BY <1>1, <1>4

\* The actions of citrusleaf_cluster_add_host.
\* A host is registered.
LEMMA RegisterHostMoves ==
  ASSUME TypeOK, NEW u \in User, NEW a \in Addr, RegisterHost(u, a)
  PROVE  ThreadTypes' /\ Moves(u, "mark", NULL)
<1>a. u \in Tender
  BY DEF Tender
<1>0. ThreadTypes /\ lv[u] \in Locals /\ pc[u] \in Pcs /\ UNCHANGED tx
  BY <1>a DEF TypeOK, ThreadTypes, RegisterHost
<1> DEFINE r == [Idle EXCEPT !.target = a]
<1>1. Goto(u, "mark") /\ Assign(u, r)
  BY DEF RegisterHost
<1>2. a \in Addr \cup {NULL} /\ Idle \in Locals /\ Idle.cn = NULL
  BY BlankType DEF Idle
<1>3. r \in Locals /\ r.cn = NULL
  BY <1>2, StoreLocal, Zenon
<1> HIDE DEF r
<1>4. ThreadTypes' /\ Moves(u, "mark", r.cn)
  BY <1>0, <1>a, <1>1, <1>3, ThreadStep DEF Pcs, Handling
<1> QED BY <1>3, <1>4

\* found_all is cleared.
LEMMA NotFoundAllMoves ==
  ASSUME TypeOK, NEW u \in User, NotFoundAll(u)
  PROVE  ThreadTypes' /\ Moves(u, "call", lv[u].cn)
<1>a. u \in Tender
  BY DEF Tender
<1>0. ThreadTypes /\ lv[u] \in Locals /\ pc[u] \in Pcs /\ UNCHANGED tx
  BY <1>a DEF TypeOK, ThreadTypes, NotFoundAll
<1>1. Goto(u, "call") /\ Assign(u, lv[u])
  BY <1>0 DEF NotFoundAll, Assign, ThreadTypes
<1> QED BY <1>0, <1>a, <1>1, ThreadStep DEF Pcs, Handling

\* Another turn of the waiting loop, or its end.
LEMMA AddHostLoopMoves ==
  ASSUME TypeOK, NEW u \in User, AddHostLoop(u)
  PROVE  ThreadTypes' /\ \E l \in {"call", "check"} : Moves(u, l, lv[u].cn)
<1>a. u \in Tender
  BY DEF Tender
<1>0. ThreadTypes /\ lv[u] \in Locals /\ pc[u] \in Pcs /\ UNCHANGED tx
  BY <1>a DEF TypeOK, ThreadTypes, AddHostLoop
<1>1. CASE Goto(u, "call") /\ UNCHANGED lv
  <2>1. Assign(u, lv[u])
    BY <1>0, <1>1 DEF Assign, ThreadTypes
  <2> QED BY <1>0, <1>a, <1>1, <2>1, ThreadStep DEF Pcs, Handling
<1>2. CASE Goto(u, "check") /\ Assign(u, [lv[u] EXCEPT !.expired = ~found_all])
  <2> DEFINE v == ~found_all
             r == [lv[u] EXCEPT !.expired = v]
  <2>1. v \in BOOLEAN /\ Assign(u, r)
    BY <1>2
  <2> HIDE DEF v
  <2>2. r \in Locals /\ r.cn = lv[u].cn
    BY <1>0, <2>1, StoreLocal, Zenon
  <2> HIDE DEF r
  <2>3. ThreadTypes' /\ Moves(u, "check", r.cn)
    BY <1>0, <1>a, <1>2, <2>1, <2>2, ThreadStep DEF Pcs, Handling
  <2> QED BY <2>2, <2>3
<1> QED BY <1>1, <1>2 DEF AddHostLoop

\* A pointer is read from the list, or the list is at its end.
LEMMA PeekNodeMoves ==
  ASSUME TypeOK, NEW u \in User, PeekNode(u)
  PROVE  ThreadTypes' /\ \E l \in {"deref", "FAIL_TIMEOUT"}, c \in Obj \cup {NULL} :
                    Moves(u, l, c)
<1>a. u \in Tender
  BY DEF Tender
<1>0. ThreadTypes /\ lv[u] \in Locals /\ pc[u] \in Pcs /\ UNCHANGED tx
  BY <1>a DEF TypeOK, ThreadTypes, PeekNode
<1>b. lv[u].cn \in Obj \cup {NULL}
  BY <1>0 DEF Locals
<1>1. CASE lv[u].i <= Len(node_v)
  <2> DEFINE c == node_v[lv[u].i]
             r == [lv[u] EXCEPT !.cn = c]
  <2>1. c \in Obj
    BY <1>0, <1>1 DEF TypeOK, ClientTypes, Locals
  <2>2. Goto(u, "deref") /\ Assign(u, r)
    BY <1>1 DEF PeekNode
  <2> HIDE DEF c
  <2>3. r \in Locals /\ r.cn = c
    BY <1>0, <2>1, StoreLocal, Zenon
  <2> HIDE DEF r
  <2>4. ThreadTypes' /\ Moves(u, "deref", r.cn)
    BY <1>0, <1>a, <2>1, <2>2, <2>3, ThreadStep DEF Pcs
  <2> QED BY <2>1, <2>3, <2>4
<1>2. CASE ~(lv[u].i <= Len(node_v))
  <2>1. Goto(u, "FAIL_TIMEOUT") /\ Assign(u, lv[u])
    BY <1>0, <1>2 DEF PeekNode, Assign, ThreadTypes
  <2>2. ThreadTypes' /\ Moves(u, "FAIL_TIMEOUT", lv[u].cn)
    BY <1>0, <1>a, <2>1, ThreadStep DEF Pcs, Handling
  <2> QED BY <1>b, <2>2
<1> QED BY <1>1, <1>2

\* The pointer is read through.
LEMMA DerefNodeMoves ==
  ASSUME TypeOK, NEW u \in User, DerefNode(u)
  PROVE  ThreadTypes' /\ \E l \in {"OK", "check"} : Moves(u, l, NULL)
<1>a. u \in Tender
  BY DEF Tender
<1>0. ThreadTypes /\ lv[u] \in Locals /\ pc[u] \in Pcs /\ UNCHANGED tx
  BY <1>a DEF TypeOK, ThreadTypes, DerefNode
<1> DEFINE i == lv[u].i + 1
           r1 == [lv[u] EXCEPT !.cn = NULL]
           r == [r1 EXCEPT !.i = i]
<1>1. Assign(u, r) /\ \E l \in {"OK", "check"} : Goto(u, l)
  <2>1. Assign(u, r)
    BY Zenon DEF DerefNode
  <2>2. \E l \in {"OK", "check"} : Goto(u, l)
    BY DEF DerefNode
  <2> QED BY <2>1, <2>2
<1>2. i \in Nat \ {0}
  BY <1>0 DEF Locals
<1> HIDE DEF i
<1>3. r1 \in Locals /\ r1.cn = NULL
  BY <1>0, StoreLocal, Zenon
<1> HIDE DEF r1
<1>4. r \in Locals /\ r.cn = NULL
  BY <1>2, <1>3, StoreLocal, Zenon
<1> HIDE DEF r
<1>5. PICK l \in {"OK", "check"} : Goto(u, l)
  BY <1>1
<1>6. ThreadTypes' /\ Moves(u, l, r.cn)
  BY <1>0, <1>a, <1>1, <1>4, <1>5, ThreadStep DEF Pcs, Handling
<1> QED BY <1>4, <1>6

\* The call returns.
LEMMA AddHostReturnMoves ==
  ASSUME TypeOK, NEW u \in User, AddHostReturn(u)
  PROVE  ThreadTypes' /\ Moves(u, "idle", NULL)
<1>a. u \in Tender
  BY DEF Tender
<1>0. ThreadTypes /\ lv[u] \in Locals /\ pc[u] \in Pcs /\ UNCHANGED tx
  BY <1>a DEF TypeOK, ThreadTypes, AddHostReturn
<1>1. Goto(u, "idle") /\ Assign(u, Idle) /\ Idle \in Locals /\ Idle.cn = NULL
  BY BlankType DEF AddHostReturn, Idle
<1>2. ThreadTypes' /\ Moves(u, "idle", Idle.cn)
  BY <1>0, <1>a, <1>1, ThreadStep DEF Pcs, Handling
<1> QED BY <1>1, <1>2

-----------------------------------------------------------------------------
(* One tender                                                              *)

\* A tending thread may go anywhere, any other thread to a place outside
\* cluster_tend.
LEMMA TenderMoves ==
  ASSUME OneTender, NEW t \in Tender, NEW l, NEW c, Moves(t, l, c), running' = running,
         pc[t] \in Tending \/ l \notin Tending
  PROVE  OneTender'
  BY DEF OneTender, Moves

\* cluster_tend is entered with CLS_TENDER_RUNNING clear, and left with it clear.
LEMMA TenderEnters ==
  ASSUME OneTender, NEW t \in Tender, NEW l, NEW c, Moves(t, l, c), ~running, running'
  PROVE  OneTender'
  BY DEF OneTender, Moves

\* The same at the end.
LEMMA TenderLeaves ==
  ASSUME OneTender, NEW t \in Tender, NEW l, NEW c, Moves(t, l, c), pc[t] \in Tending,
         l \notin Tending
  PROVE  OneTender'
  BY DEF OneTender, Moves

-----------------------------------------------------------------------------
(* The node list as a set                                                  *)

\* Appending a node that is not in the list.
LEMMA AppendedNodes ==
  ASSUME node_v \in Seq(Obj), Distinct, NEW c \in Obj, c \notin Nodes,
         node_v' = Append(node_v, c)
  PROVE  node_v' \in Seq(Obj) /\ Nodes' = Nodes \cup {c} /\ Distinct'
<1>1. /\ node_v' \in Seq(Obj) /\ Len(node_v') = Len(node_v) + 1
      /\ \A j \in 1 .. Len(node_v) : node_v'[j] = node_v[j]
      /\ node_v'[Len(node_v) + 1] = c
  BY AppendProperties
<1>2. DOMAIN node_v = 1 .. Len(node_v) /\ DOMAIN node_v' = 1 .. Len(node_v) + 1
  BY <1>1
<1>3. Nodes' = Nodes \cup {c}
  BY <1>1, <1>2 DEF Nodes, ToSet
<1>4. Distinct'
  BY <1>1, <1>2 DEF Distinct, Nodes, ToSet
<1> QED BY <1>1, <1>3, <1>4

\* Taking the node at an index out of the list.
LEMMA RemovedNodes ==
  ASSUME node_v \in Seq(Obj), Distinct, NEW i \in 1 .. Len(node_v),
         node_v' = RemoveAt(node_v, i)
  PROVE  node_v' \in Seq(Obj) /\ Nodes' = Nodes \ {node_v[i]} /\ Distinct'
<1>1. /\ node_v' \in Seq(Obj) /\ Len(node_v') = Len(node_v) - 1
      /\ \A j \in 1 .. Len(node_v) - 1 :
            node_v'[j] = IF j < i THEN node_v[j] ELSE node_v[j + 1]
  <2> DEFINE a == SubSeq(node_v, 1, i - 1)
             b == SubSeq(node_v, i + 1, Len(node_v))
  <2>0. Len(node_v) \in Nat
    OBVIOUS
  <2>1. a \in Seq(Obj) /\ Len(a) = i - 1
        /\ \A j \in 1 .. i - 1 : a[j] = node_v[j]
    BY <2>0, SubSeqProperties
  <2>2. b \in Seq(Obj) /\ Len(b) = Len(node_v) - i
        /\ \A j \in 1 .. Len(node_v) - i : b[j] = node_v[i + j]
    BY <2>0, SubSeqProperties
  <2>3. node_v' = a \o b
    BY DEF RemoveAt
  <2> HIDE DEF a, b
  <2>4. /\ node_v' \in Seq(Obj) /\ Len(node_v') = Len(node_v) - 1
        /\ \A j \in 1 .. Len(node_v) - 1 :
              node_v'[j] = IF j <= i - 1 THEN a[j] ELSE b[j - (i - 1)]
    <3>1. /\ a \o b \in Seq(Obj) /\ Len(a \o b) = Len(a) + Len(b)
          /\ \A j \in 1 .. Len(a) + Len(b) :
                (a \o b)[j] = IF j <= Len(a) THEN a[j] ELSE b[j - Len(a)]
      BY <2>1, <2>2, ConcatProperties
    <3>2. Len(a) + Len(b) = Len(node_v) - 1
      BY <2>0, <2>1, <2>2
    <3> QED BY <2>1, <2>3, <3>1, <3>2
  <2>5. ASSUME NEW j \in 1 .. Len(node_v) - 1
        PROVE  node_v'[j] = IF j < i THEN node_v[j] ELSE node_v[j + 1]
    <3>1. CASE j < i
      BY <2>0, <2>1, <2>4, <3>1
    <3>2. CASE ~(j < i)
      <4>1. j - (i - 1) \in 1 .. Len(node_v) - i /\ i + (j - (i - 1)) = j + 1
        BY <2>0, <3>2
      <4> QED BY <2>0, <2>2, <2>4, <3>2, <4>1
    <3> QED BY <3>1, <3>2
  <2> QED BY <2>4, <2>5
<1>2. DOMAIN node_v = 1 .. Len(node_v) /\ DOMAIN node_v' = 1 .. Len(node_v) - 1
      /\ Len(node_v) \in Nat
  BY <1>1
<1>3. Nodes' \subseteq Nodes \ {node_v[i]}
  BY <1>1, <1>2 DEF Nodes, ToSet, Distinct
<1>4. ASSUME NEW o \in Nodes, o # node_v[i] PROVE o \in Nodes'
  <2>1. PICK j \in 1 .. Len(node_v) : o = node_v[j]
    BY <1>2, <1>4 DEF Nodes, ToSet
  <2>2. CASE j < i
    <3>1. j \in 1 .. Len(node_v) - 1 /\ node_v'[j] = o
      BY <1>1, <1>2, <2>1, <2>2
    <3> QED BY <1>2, <3>1 DEF Nodes, ToSet
  <2>3. CASE j > i
    <3>1. j - 1 \in 1 .. Len(node_v) - 1 /\ node_v'[j - 1] = o
      BY <1>1, <1>2, <2>1, <2>3
    <3> QED BY <1>2, <3>1 DEF Nodes, ToSet
  <2> QED BY <1>4, <2>1, <2>2, <2>3
<1>5. Distinct'
  <2> SUFFICES ASSUME NEW j \in 1 .. Len(node_v) - 1, NEW k \in 1 .. Len(node_v) - 1,
                      j # k
               PROVE  node_v'[j] # node_v'[k]
    BY <1>2 DEF Distinct
  <2> DEFINE at(m) == IF m < i THEN m ELSE m + 1
  <2>1. at(j) \in 1 .. Len(node_v) /\ at(k) \in 1 .. Len(node_v) /\ at(j) # at(k)
    BY <1>2
  <2>2. node_v'[j] = node_v[at(j)] /\ node_v'[k] = node_v[at(k)]
    BY <1>1
  <2> HIDE DEF at
  <2> QED BY <1>2, <2>1, <2>2 DEF Distinct
<1> QED BY <1>1, <1>3, <1>4, <1>5

-----------------------------------------------------------------------------
(* Counting references                                                     *)

\* Two subsets of a finite set that agree but for one element.
LEMMA CountChange ==
  ASSUME NEW S, IsFiniteSet(S), NEW p \in S, NEW A \in SUBSET S, NEW B \in SUBSET S,
         \A q \in S \ {p} : q \in A <=> q \in B
  PROVE  /\ Cardinality(A) \in Nat /\ Cardinality(B) \in Nat
         /\ Cardinality(B) = Cardinality(A) - (IF p \in A THEN 1 ELSE 0)
                                            + (IF p \in B THEN 1 ELSE 0)
<1>1. IsFiniteSet(A) /\ IsFiniteSet(B)
  BY FS_Subset
<1>2. Cardinality(A) \in Nat /\ Cardinality(B) \in Nat
  BY <1>1, FS_CardinalityType
<1>3. CASE p \in A /\ p \notin B
  <2>1. B = A \ {p}
    BY <1>3
  <2> QED BY <1>1, <1>2, <1>3, <2>1, FS_RemoveElement
<1>4. CASE p \notin A /\ p \in B
  <2>1. B = A \cup {p}
    BY <1>4
  <2> QED BY <1>1, <1>2, <1>4, <2>1, FS_AddElement
<1>5. CASE (p \in A) = (p \in B)
  <2>1. A = B
    BY <1>5
  <2> QED BY <1>2, <1>5, <2>1
<1> QED BY <1>3, <1>4, <1>5

\* The sets that are counted are finite.
LEMMA Counts ==
  ASSUME NEW o
  PROVE  /\ IsFiniteSet(Tender)
         /\ Cardinality(Carriers(o)) \in Nat /\ Cardinality(MasterSlots(o)) \in Nat
         /\ Cardinality(ProleSlots(o)) \in Nat /\ Cardinality(Users(o)) \in Nat
         /\ Carriers(o) # {} => Cardinality(Carriers(o)) > 0
         /\ MasterSlots(o) # {} => Cardinality(MasterSlots(o)) > 0
         /\ ProleSlots(o) # {} => Cardinality(ProleSlots(o)) > 0
         /\ Users(o) # {} => Cardinality(Users(o)) > 0
<1>1. IsFiniteSet(Tender)
  BY FiniteAssumption, FS_Singleton, FS_Union DEF Tender
<1>2. ASSUME NEW S, IsFiniteSet(S), NEW A \in SUBSET S
      PROVE  Cardinality(A) \in Nat /\ (A # {} => Cardinality(A) > 0)
  BY <1>2, FS_Subset, FS_CardinalityType, FS_EmptySet
<1> QED
  BY <1>1, <1>2, FiniteAssumption DEF Carriers, MasterSlots, ProleSlots, Users

-----------------------------------------------------------------------------
(* The list, the partition table and the counts                            *)

Core == ListOK /\ MapNodesListed /\ RefCountExact

\* What a step of a thread does to the nodes that threads carry or ping.
LEMMA InHand ==
  ASSUME NEW t \in Tender, NEW l, NEW c, Moves(t, l, c), NEW s \in Tender
  PROVE  /\ Carrying(s)' = IF s # t THEN Carrying(s)
                           ELSE IF l \in {"seed_add", "svc_add", "drop"} THEN c ELSE NULL
         /\ Current(s)' = IF s # t THEN Current(s)
                          ELSE IF l \in {"ping", "fetch", "update"} THEN c ELSE NULL
  BY DEF Carrying, Current, Moves

\* Of all threads only the tending one carries or pings.
LEMMA OnlyTender ==
  ASSUME OneTender, NEW t \in Tender, pc[t] \in Tending, NEW s \in Tender, s # t
  PROVE  Carrying(s) = NULL /\ Current(s) = NULL
  BY DEF OneTender, Tending, Carrying, Current

\* A step that leaves list, table, counts and transactions alone, and neither
\* begins nor ends to carry a node.
LEMMA QuietCore ==
  ASSUME Core, NEW t \in Tender, NEW l, NEW c, Moves(t, l, c),
         UNCHANGED <<rc, node_v, ptab, tx>>,
         pc[t] \notin {"seed_add", "svc_add", "drop"},
         l \notin {"seed_add", "svc_add", "drop"},
         l \in {"ping", "fetch", "update"} => c \in Nodes
  PROVE  Core'
<1>1. Nodes' = Nodes
  BY DEF Nodes
<1>2. ASSUME NEW s \in Tender PROVE Carrying(s)' = Carrying(s)
  BY InHand DEF Carrying
<1>3. ListOK'
  BY <1>1, <1>2, InHand DEF Core, ListOK, Distinct
<1>4. MapNodesListed'
  BY <1>1 DEF Core, MapNodesListed
<1>5. ASSUME NEW o \in Obj PROVE Refs(o)' = Refs(o)
  <2>1. Carriers(o)' = Carriers(o)
    BY <1>2 DEF Carriers
  <2>2. MasterSlots(o)' = MasterSlots(o) /\ ProleSlots(o)' = ProleSlots(o)
        /\ Users(o)' = Users(o)
    BY DEF MasterSlots, ProleSlots, Users
  <2> QED BY <1>1, <2>1, <2>2 DEF Refs
<1> QED BY <1>3, <1>4, <1>5 DEF Core, RefCountExact

\* A free block is in nobody's hands.
LEMMA FreeUnheld ==
  ASSUME TypeOK, RefCountExact, NEW o \in Free
  PROVE  /\ o \in Obj /\ o \notin Nodes
         /\ Carriers(o) = {} /\ MasterSlots(o) = {} /\ ProleSlots(o) = {} /\ Users(o) = {}
<1>1. o \in Obj /\ Refs(o) = 0
  BY DEF Free, RefCountExact
<1> QED BY <1>1, Counts DEF Refs

\* CreateNode: the new block has one holder, its creator.
LEMMA CreateNodeCore ==
  ASSUME IInv, NEW t \in Tender, NEW a \in Addr, CreateNode(t, a)
  PROVE  Core'
<1>0. TypeOK /\ OneTender /\ Core /\ pc[t] \in Tending
  BY DEF IInv, Core, CreateNode, Tending
<1>1. PICK o \in Free :
        /\ rc' = [rc EXCEPT ![o] = 1]
        /\ Moves(t, IF pc[t] = "seed" THEN "seed_add" ELSE "svc_add", o)
  BY <1>0, CreateNodeMoves
<1>2. /\ o \in Obj /\ o \notin Nodes /\ Carriers(o) = {}
      /\ MasterSlots(o) = {} /\ ProleSlots(o) = {} /\ Users(o) = {}
  BY <1>0, FreeUnheld DEF Core
<1>3. UNCHANGED <<node_v, ptab, tx>> /\ Nodes' = Nodes /\ Carrying(t) = NULL
  BY DEF CreateNode, Nodes, Carrying
<1>4. ASSUME NEW s \in Tender
      PROVE  /\ Carrying(s)' = IF s = t THEN o ELSE Carrying(s)
             /\ Current(s)' = IF s = t THEN NULL ELSE Current(s)
  BY <1>1, InHand
<1>5. ListOK'
  BY <1>0, <1>2, <1>3, <1>4 DEF Core, ListOK, Distinct
<1>6. MapNodesListed'
  BY <1>0, <1>3 DEF Core, MapNodesListed
<1>7. ASSUME NEW b \in Obj PROVE rc'[b] = Refs(b)'
  <2>1. MasterSlots(b)' = MasterSlots(b) /\ ProleSlots(b)' = ProleSlots(b)
        /\ Users(b)' = Users(b)
    BY <1>3 DEF MasterSlots, ProleSlots, Users
  <2>2. CASE b = o
    <3>1. Carriers(o)' = {t}
      BY <1>2, <1>4 DEF Carriers
    <3>2. rc'[o] = 1
      BY <1>0, <1>1, <1>2 DEF TypeOK
    <3> QED BY <1>2, <1>3, <2>1, <2>2, <3>1, <3>2, FS_Singleton, FS_EmptySet DEF Refs
  <2>3. CASE b # o
    <3>1. Carriers(b)' = Carriers(b)
      BY <1>3, <1>4, <2>3, ObjAssumption DEF Carriers
    <3>2. rc'[b] = rc[b]
      BY <1>0, <1>1, <2>3 DEF TypeOK
    <3>3. rc[b] = Refs(b)
      BY <1>0 DEF Core, RefCountExact
    <3> QED BY <1>3, <2>1, <3>1, <3>2, <3>3 DEF Refs
  <2> QED BY <2>2, <2>3
<1> QED BY <1>5, <1>6, <1>7 DEF Core, RefCountExact

\* AppendNode: the creator's reference becomes the list's.
LEMMA AppendNodeCore ==
  ASSUME IInv, NEW t \in Tender, AppendNode(t)
  PROVE  Core' /\ node_v' \in Seq(Obj) /\ Nodes' = Nodes \cup {lv[t].cn}
<1>0. /\ TypeOK /\ OneTender /\ Core /\ pc[t] \in {"seed_add", "svc_add"}
      /\ pc[t] \in Tending
  BY DEF IInv, Core, AppendNode, Tending
<1> DEFINE c == lv[t].cn
<1>1. c \in Obj /\ Carrying(t) = c /\ c \notin Nodes
  BY <1>0 DEF TypeOK, ThreadTypes, Carrying, Core, ListOK
<1>2. node_v' \in Seq(Obj) /\ Nodes' = Nodes \cup {c} /\ Distinct'
  BY <1>0, <1>1, AppendedNodes DEF AppendNode, TypeOK, ClientTypes, Core, ListOK
<1>3. UNCHANGED <<rc, ptab, tx>>
  BY DEF AppendNode
<1> HIDE DEF c
<1>4. ASSUME NEW s \in Tender
      PROVE  /\ Carrying(s)' = NULL /\ Current(s)' = NULL
             /\ s # t => Carrying(s) = NULL
  BY <1>0, AppendNodeMoves, InHand, OnlyTender
<1>5. ListOK'
  BY <1>2, <1>4, <1>1, ObjAssumption DEF ListOK, Nodes, ToSet
<1>6. MapNodesListed'
  BY <1>0, <1>2, <1>3 DEF Core, MapNodesListed
<1>7. ASSUME NEW b \in Obj PROVE rc'[b] = Refs(b)'
  <2>1. MasterSlots(b)' = MasterSlots(b) /\ ProleSlots(b)' = ProleSlots(b)
        /\ Users(b)' = Users(b) /\ rc'[b] = rc[b]
    BY <1>3 DEF MasterSlots, ProleSlots, Users
  <2>2. rc[b] = Refs(b)
    BY <1>0 DEF Core, RefCountExact
  <2>3. Cardinality(Carriers(b)') = 0
    <3>1. Carriers(b)' = {}
      BY <1>4, ObjAssumption DEF Carriers
    <3> QED BY <3>1, FS_EmptySet
  <2>4. Cardinality(Carriers(b)) = IF b = c THEN 1 ELSE 0
    <3>1. Carriers(b) = IF b = c THEN {t} ELSE {}
      BY <1>1, <1>4, ObjAssumption DEF Carriers
    <3> QED BY <3>1, FS_EmptySet, FS_Singleton
  <2>5. Cardinality(MasterSlots(b)) \in Nat /\ Cardinality(ProleSlots(b)) \in Nat
        /\ Cardinality(Users(b)) \in Nat
    BY Counts
  <2>6. (IF b \in Nodes' THEN 1 ELSE 0)
        = (IF b = c THEN 1 ELSE 0) + (IF b \in Nodes THEN 1 ELSE 0)
    BY <1>1, <1>2
  <2> QED BY <2>1, <2>2, <2>3, <2>4, <2>5, <2>6 DEF Refs
<1> QED BY <1>2, <1>5, <1>6, <1>7 DEF Core, RefCountExact, c

\* The slots a node leaves when it is found out of the map.
LEMMA ClearedSlots ==
  ASSUME TypeOK, NEW o \in Obj, ptab' = ProlesCleared(o)
  PROVE  /\ ptab' \in [Part -> [master : Obj \cup {NULL}, prole : Obj \cup {NULL}]]
         /\ \A p \in Part :
              /\ ptab'[p].master = ptab[p].master
              /\ ptab'[p].prole = IF ptab[p].prole = o THEN NULL ELSE ptab[p].prole
<1>1. ptab \in [Part -> [master : Obj \cup {NULL}, prole : Obj \cup {NULL}]]
  BY DEF TypeOK, ClientTypes
<1>2. ASSUME NEW p \in Part
      PROVE  /\ ptab'[p] \in [master : Obj \cup {NULL}, prole : Obj \cup {NULL}]
             /\ ptab'[p].master = ptab[p].master
             /\ ptab'[p].prole = IF ptab[p].prole = o THEN NULL ELSE ptab[p].prole
  <2>1. ptab'[p] = IF ptab[p].prole = o THEN [ptab[p] EXCEPT !.prole = NULL] ELSE ptab[p]
    BY DEF ProlesCleared, ProlesOf
  <2> QED BY <1>1, <2>1
<1>3. ptab' = [p \in Part |-> ptab'[p]]
  BY DEF ProlesCleared
<1> QED BY <1>2, <1>3

\* AbsentNode: the prole slots let go of the node, and, when its time is up,
\* the list hands its reference to the thread.
LEMMA AbsentNodeCore ==
  ASSUME IInv, NEW t \in Tender, AbsentNode(t)
  PROVE  Core' /\ node_v' \in Seq(Obj) /\ Nodes' \subseteq Nodes
<1> DEFINE c == node_v[lv[t].i]
           out == node[c].absent > MAX_INTERVALS_ABSENT
<1>0. /\ TypeOK /\ OneTender /\ Core /\ pc[t] = "node" /\ pc[t] \in Tending
  BY DEF IInv, Core, AbsentNode, Tending
<1>1. lv[t].i \in 1 .. Len(node_v) /\ node_v \in Seq(Obj) /\ c \in Obj /\ c \in Nodes
  <2>1. node_v \in Seq(Obj) /\ lv[t].i \in Nat \ {0} /\ lv[t].i <= Len(node_v)
    BY <1>0 DEF TypeOK, ThreadTypes, ClientTypes, Locals, AbsentNode
  <2> QED BY <2>1 DEF Nodes, ToSet
<1>2. /\ ptab' = ProlesCleared(c) /\ ~Present(c)
      /\ rc' = [rc EXCEPT ![c] = @ - Cardinality(ProlesOf(c))]
      /\ UNCHANGED tx
      /\ IF out THEN node_v' = RemoveAt(node_v, lv[t].i) ELSE UNCHANGED node_v
  BY DEF AbsentNode
<1>3. /\ node_v' \in Seq(Obj) /\ Distinct'
      /\ Nodes' = IF out THEN Nodes \ {c} ELSE Nodes
  <2>1. CASE out
    BY <1>0, <1>1, <1>2, <2>1, RemovedNodes DEF Core, ListOK
  <2>2. CASE ~out
    BY <1>0, <1>1, <1>2, <2>2 DEF Core, ListOK, Distinct, Nodes
  <2> QED BY <2>1, <2>2
<1>4. IF out THEN Moves(t, "drop", c) ELSE Moves(t, "ping", c)
  BY <1>0, AbsentNodeMoves
<1>5. ASSUME NEW p \in Part
      PROVE  /\ ptab'[p].master = ptab[p].master /\ ptab[p].master # c
             /\ ptab'[p].prole = IF ptab[p].prole = c THEN NULL ELSE ptab[p].prole
  BY <1>0, <1>1, <1>2, ClearedSlots DEF Present
<1> HIDE DEF c, out
<1>6. ASSUME NEW s \in Tender
      PROVE  /\ Carrying(s) = NULL
             /\ Carrying(s)' = IF s = t /\ out THEN c ELSE NULL
             /\ Current(s)' = IF s = t /\ ~out THEN c ELSE NULL
  BY <1>0, <1>4, InHand, OnlyTender DEF Carrying
<1>7. ListOK'
  <2>1. NULL \notin Nodes'
    BY <1>3, ObjAssumption DEF Nodes, ToSet
  <2>2. IF out THEN c \notin Nodes' ELSE c \in Nodes'
    BY <1>1, <1>3
  <2> QED BY <1>3, <1>6, <2>1, <2>2 DEF ListOK
<1>8. MapNodesListed'
  BY <1>0, <1>3, <1>5 DEF Core, MapNodesListed
<1>9. ASSUME NEW b \in Obj PROVE rc'[b] = Refs(b)'
  <2>1. MasterSlots(b)' = MasterSlots(b) /\ Users(b)' = Users(b)
    BY <1>2, <1>5 DEF MasterSlots, Users
  <2>2. rc[b] = Refs(b)
    BY <1>0 DEF Core, RefCountExact
  <2>3. Cardinality(Carriers(b)) = 0
    <3>1. Carriers(b) = {}
      BY <1>6, ObjAssumption DEF Carriers
    <3> QED BY <3>1, FS_EmptySet
  <2>4. Cardinality(Carriers(b)') = IF b = c /\ out THEN 1 ELSE 0
    <3>1. Carriers(b)' = IF b = c /\ out THEN {t} ELSE {}
      BY <1>6, ObjAssumption DEF Carriers
    <3> QED BY <3>1, FS_EmptySet, FS_Singleton
  <2>5. (IF b \in Nodes' THEN 1 ELSE 0) + (IF b = c /\ out THEN 1 ELSE 0)
        = (IF b \in Nodes THEN 1 ELSE 0)
    BY <1>1, <1>3
  <2>6. Cardinality(MasterSlots(b)) \in Nat /\ Cardinality(ProleSlots(b)) \in Nat
        /\ Cardinality(Users(b)) \in Nat
    BY Counts
  <2>7. CASE b = c
    <3>1. rc'[b] = rc[b] - Cardinality(ProleSlots(b))
      BY <1>0, <1>1, <1>2, <2>7 DEF TypeOK, ProlesOf, ProleSlots
    <3>2. Cardinality(ProleSlots(b)') = 0
      <4>1. ProleSlots(b)' = {}
        BY <1>5, <2>7, ObjAssumption DEF ProleSlots
      <4> QED BY <4>1, FS_EmptySet
    <3> QED BY <2>1, <2>2, <2>3, <2>4, <2>5, <2>6, <3>1, <3>2 DEF Refs
  <2>8. CASE b # c
    <3>1. rc'[b] = rc[b]
      BY <1>0, <1>1, <1>2, <2>8 DEF TypeOK
    <3>2. ProleSlots(b)' = ProleSlots(b)
      BY <1>5, <2>8, ObjAssumption DEF ProleSlots
    <3> QED BY <2>1, <2>2, <2>3, <2>4, <2>5, <2>6, <3>1, <3>2 DEF Refs
  <2> QED BY <2>7, <2>8
<1> QED BY <1>3, <1>7, <1>8, <1>9 DEF Core, RefCountExact

\* DropNode: the thread lets go of the node it took out of the list.
LEMMA DropNodeCore ==
  ASSUME IInv, NEW t \in Tender, DropNode(t)
  PROVE  Core'
<1> DEFINE c == lv[t].cn
<1>0. /\ TypeOK /\ OneTender /\ Core /\ pc[t] = "drop" /\ pc[t] \in Tending
  BY DEF IInv, Core, DropNode, Tending
<1>1. c \in Obj /\ Carrying(t) = c
  BY <1>0 DEF TypeOK, ThreadTypes, Carrying
<1>2. /\ UNCHANGED <<node_v, ptab, tx>> /\ Nodes' = Nodes
      /\ rc' = [rc EXCEPT ![c] = @ - 1]
  BY DEF DropNode, Nodes, cl_cluster_node_release
<1> HIDE DEF c
<1>3. ASSUME NEW s \in Tender
      PROVE  /\ Carrying(s)' = NULL /\ Current(s)' = NULL
             /\ s # t => Carrying(s) = NULL
  BY <1>0, DropNodeMoves, InHand, OnlyTender
<1>4. NULL \notin Nodes
  BY <1>0, ObjAssumption DEF TypeOK, ClientTypes, Nodes, ToSet
<1>5. ListOK'
  BY <1>0, <1>2, <1>3, <1>4 DEF Core, ListOK, Distinct
<1>6. MapNodesListed'
  BY <1>0, <1>2 DEF Core, MapNodesListed
<1>7. ASSUME NEW b \in Obj PROVE rc'[b] = Refs(b)'
  <2>1. MasterSlots(b)' = MasterSlots(b) /\ ProleSlots(b)' = ProleSlots(b)
        /\ Users(b)' = Users(b)
    BY <1>2 DEF MasterSlots, ProleSlots, Users
  <2>2. rc[b] = Refs(b) /\ rc'[b] = IF b = c THEN rc[b] - 1 ELSE rc[b]
    BY <1>0, <1>1, <1>2 DEF Core, RefCountExact, TypeOK
  <2>3. Cardinality(Carriers(b)') = 0
    <3>1. Carriers(b)' = {}
      BY <1>3, ObjAssumption DEF Carriers
    <3> QED BY <3>1, FS_EmptySet
  <2>4. Cardinality(Carriers(b)) = IF b = c THEN 1 ELSE 0
    <3>1. Carriers(b) = IF b = c THEN {t} ELSE {}
      BY <1>1, <1>3, ObjAssumption DEF Carriers
    <3> QED BY <3>1, FS_EmptySet, FS_Singleton
  <2>5. Cardinality(MasterSlots(b)) \in Nat /\ Cardinality(ProleSlots(b)) \in Nat
        /\ Cardinality(Users(b)) \in Nat
    BY Counts
  <2> QED BY <1>2, <2>1, <2>2, <2>3, <2>4, <2>5 DEF Refs
<1> QED BY <1>5, <1>6, <1>7 DEF Core, RefCountExact

Slot == [master : Obj \cup {NULL}, prole : Obj \cup {NULL}]

\* A slot after the update holds nodes it held before, and the node that claims.
LEMMA SlotUpdated ==
  ASSUME NEW s \in Slot, NEW c \in Obj, NEW role \in Role
  PROVE  /\ SlotUpdate(s, c, role) \in Slot
         /\ SlotUpdate(s, c, role).master \in {s.master, c, NULL}
         /\ SlotUpdate(s, c, role).prole \in {s.prole, c, NULL}
<1> DEFINE left == [master |-> IF s.master = c THEN NULL ELSE s.master,
                    prole  |-> IF s.prole = c THEN NULL ELSE s.prole]
<1>1. left \in Slot /\ left.master \in {s.master, NULL} /\ left.prole \in {s.prole, NULL}
  BY DEF Slot
<1>2. SlotUpdate(s, c, role) = CASE role = "master" -> [left EXCEPT !.master = c]
                                 [] role = "prole"  -> [left EXCEPT !.prole = c]
                                 [] role = "none"   -> left
  BY DEF SlotUpdate
<1> HIDE DEF left
<1>3. CASE role = "master"
  BY <1>1, <1>2, <1>3 DEF Slot
<1>4. CASE role = "prole"
  BY <1>1, <1>2, <1>4 DEF Slot
<1>5. CASE role = "none"
  BY <1>1, <1>2, <1>5 DEF Slot
<1> QED BY <1>3, <1>4, <1>5 DEF Role

\* UpdatePartition: a slot's references move with what is stored in it.
LEMMA UpdatePartitionCore ==
  ASSUME IInv, NEW t \in Tender, NEW p \in Part, UpdatePartition(t, p)
  PROVE  Core' /\ ptab' \in [Part -> Slot]
<1> DEFINE c == lv[t].cn
           new == SlotUpdate(ptab[p], c, lv[t].claim[p])
<1>0. /\ TypeOK /\ OneTender /\ Core /\ pc[t] = "update" /\ pc[t] \in Tending
  BY DEF IInv, Core, UpdatePartition, Tending
<1>1. c \in Obj /\ lv[t].claim[p] \in Role /\ ptab \in [Part -> Slot] /\ Current(t) = c
  BY <1>0 DEF TypeOK, ThreadTypes, ClientTypes, Slot, Current
<1>2. /\ ptab' = [ptab EXCEPT ![p] = new]
      /\ rc' = [o \in Obj |-> rc[o] - RefsAt(ptab[p], o) + RefsAt(new, o)]
      /\ UNCHANGED <<node_v, tx>>
  BY DEF UpdatePartition
<1>3. /\ new \in Slot /\ new.master \in {ptab[p].master, c, NULL}
      /\ new.prole \in {ptab[p].prole, c, NULL}
  BY <1>1, SlotUpdated
<1>4. c \in Nodes
  BY <1>0, <1>1, ObjAssumption DEF Core, ListOK
<1> HIDE DEF c, new
<1>5. ptab' \in [Part -> Slot] /\ ptab'[p] = new
      /\ (\A q \in Part \ {p} : ptab'[q] = ptab[q])
  BY <1>1, <1>2, <1>3
<1>6. ASSUME NEW s \in Tender PROVE Carrying(s)' = Carrying(s) /\ Current(s)' = Current(s)
  BY <1>0, UpdatePartitionMoves, InHand DEF Carrying, Current
<1>7. Nodes' = Nodes
  BY <1>2 DEF Nodes
<1>8. ListOK'
  BY <1>0, <1>2, <1>6, <1>7 DEF Core, ListOK, Distinct
<1>9. MapNodesListed'
  BY <1>0, <1>3, <1>4, <1>5, <1>7 DEF Core, MapNodesListed
<1>10. ASSUME NEW b \in Obj PROVE rc'[b] = Refs(b)'
  <2>1. Carriers(b)' = Carriers(b) /\ Users(b)' = Users(b)
    BY <1>2, <1>6 DEF Carriers, Users
  <2>2. rc[b] = Refs(b)
    BY <1>0 DEF Core, RefCountExact
  <2>3. Cardinality(MasterSlots(b)') = Cardinality(MasterSlots(b))
            - (IF ptab[p].master = b THEN 1 ELSE 0) + (IF new.master = b THEN 1 ELSE 0)
    <3>1. /\ MasterSlots(b) \in SUBSET Part /\ MasterSlots(b)' \in SUBSET Part
          /\ \A q \in Part \ {p} : q \in MasterSlots(b) <=> q \in MasterSlots(b)'
          /\ p \in MasterSlots(b) <=> ptab[p].master = b
          /\ p \in MasterSlots(b)' <=> new.master = b
      BY <1>5 DEF MasterSlots
    <3>2. Cardinality(MasterSlots(b)') = Cardinality(MasterSlots(b))
            - (IF p \in MasterSlots(b) THEN 1 ELSE 0)
            + (IF p \in MasterSlots(b)' THEN 1 ELSE 0)
      BY <3>1, CountChange, FiniteAssumption
    <3> QED BY <3>1, <3>2
  <2>4. Cardinality(ProleSlots(b)') = Cardinality(ProleSlots(b))
            - (IF ptab[p].prole = b THEN 1 ELSE 0) + (IF new.prole = b THEN 1 ELSE 0)
    <3>1. /\ ProleSlots(b) \in SUBSET Part /\ ProleSlots(b)' \in SUBSET Part
          /\ \A q \in Part \ {p} : q \in ProleSlots(b) <=> q \in ProleSlots(b)'
          /\ p \in ProleSlots(b) <=> ptab[p].prole = b
          /\ p \in ProleSlots(b)' <=> new.prole = b
      BY <1>5 DEF ProleSlots
    <3>2. Cardinality(ProleSlots(b)') = Cardinality(ProleSlots(b))
            - (IF p \in ProleSlots(b) THEN 1 ELSE 0)
            + (IF p \in ProleSlots(b)' THEN 1 ELSE 0)
      BY <3>1, CountChange, FiniteAssumption
    <3> QED BY <3>1, <3>2
  <2>5. /\ Cardinality(Carriers(b)) \in Nat /\ Cardinality(MasterSlots(b)) \in Nat
        /\ Cardinality(ProleSlots(b)) \in Nat /\ Cardinality(Users(b)) \in Nat
    BY Counts
  <2>6. rc'[b] = rc[b] - ((IF ptab[p].master = b THEN 1 ELSE 0)
                          + (IF ptab[p].prole = b THEN 1 ELSE 0))
                 + ((IF new.master = b THEN 1 ELSE 0) + (IF new.prole = b THEN 1 ELSE 0))
    BY <1>2 DEF RefsAt
  <2>7. Refs(b)' = Cardinality(Carriers(b)) + (IF b \in Nodes THEN 1 ELSE 0)
        + Cardinality(MasterSlots(b)') + Cardinality(ProleSlots(b)')
        + Cardinality(Users(b))
    BY <1>7, <2>1 DEF Refs
  <2>8. rc[b] = Cardinality(Carriers(b)) + (IF b \in Nodes THEN 1 ELSE 0)
        + Cardinality(MasterSlots(b)) + Cardinality(ProleSlots(b))
        + Cardinality(Users(b))
    BY <2>2 DEF Refs
  <2> QED BY <2>3, <2>4, <2>5, <2>6, <2>7, <2>8
<1> QED BY <1>5, <1>8, <1>9, <1>10 DEF Core, RefCountExact

\* A transaction's reference is what its thread holds.
LEMMA TransactionCore ==
  ASSUME IInv, NEW x \in Tx, NEW v, tx' = [tx EXCEPT ![x] = v],
         UNCHANGED <<node_v, ptab, pc, lv>>,
         \A b \in Obj : rc'[b] = rc[b] - (IF tx[x] = b THEN 1 ELSE 0)
                                       + (IF v = b THEN 1 ELSE 0)
  PROVE  Core'
<1>0. TypeOK /\ Core
  BY DEF IInv, Core
<1>1. Nodes' = Nodes
  BY DEF Nodes
<1>2. ASSUME NEW s \in Tender PROVE Carrying(s)' = Carrying(s) /\ Current(s)' = Current(s)
  BY DEF Carrying, Current
<1>3. ListOK'
  BY <1>0, <1>1, <1>2 DEF Core, ListOK, Distinct
<1>4. MapNodesListed'
  BY <1>0, <1>1 DEF Core, MapNodesListed
<1>5. ASSUME NEW b \in Obj PROVE rc'[b] = Refs(b)'
  <2>1. /\ Carriers(b)' = Carriers(b) /\ MasterSlots(b)' = MasterSlots(b)
        /\ ProleSlots(b)' = ProleSlots(b)
    BY <1>2 DEF Carriers, MasterSlots, ProleSlots
  <2>2. rc[b] = Refs(b)
    BY <1>0 DEF Core, RefCountExact
  <2>3. Cardinality(Users(b)') = Cardinality(Users(b))
            - (IF tx[x] = b THEN 1 ELSE 0) + (IF v = b THEN 1 ELSE 0)
    <3>1. DOMAIN tx = Tx
      BY <1>0 DEF TypeOK, ThreadTypes
    <3>2. /\ Users(b) \in SUBSET Tx /\ Users(b)' \in SUBSET Tx
          /\ \A y \in Tx \ {x} : y \in Users(b) <=> y \in Users(b)'
          /\ x \in Users(b) <=> tx[x] = b
          /\ x \in Users(b)' <=> v = b
      BY <3>1 DEF Users
    <3>3. Cardinality(Users(b)') = Cardinality(Users(b))
            - (IF x \in Users(b) THEN 1 ELSE 0) + (IF x \in Users(b)' THEN 1 ELSE 0)
      BY <3>2, CountChange, FiniteAssumption
    <3> QED BY <3>2, <3>3
  <2>4. /\ Cardinality(Carriers(b)) \in Nat /\ Cardinality(MasterSlots(b)) \in Nat
        /\ Cardinality(ProleSlots(b)) \in Nat /\ Cardinality(Users(b)) \in Nat
    BY Counts
  <2> QED BY <1>1, <2>1, <2>2, <2>3, <2>4 DEF Refs
<1> QED BY <1>3, <1>4, <1>5 DEF Core, RefCountExact

-----------------------------------------------------------------------------
(* What is known of the nodes in the list                                  *)

Unique == \A o, q \in Nodes :
    o # q => node[o].name # node[q].name /\ node[o].addrs \cap node[q].addrs = {}

Catalog == FreshOK /\ BoundsOK /\ DiscoveryUnique

\* DiscoveryUnique speaks of positions, Unique of nodes.
LEMMA UniqueNodes ==
  ASSUME DiscoveryUnique
  PROVE  Unique
  BY DEF DiscoveryUnique, Unique, Nodes, ToSet

\* And back.
LEMMA UniquePositions ==
  ASSUME Distinct', Unique'
  PROVE  DiscoveryUnique'
<1> SUFFICES ASSUME NEW i \in DOMAIN node_v', NEW j \in DOMAIN node_v', i # j
             PROVE  /\ node_v'[i] # node_v'[j]
                    /\ node'[node_v'[i]].name # node'[node_v'[j]].name
                    /\ node'[node_v'[i]].addrs \cap node'[node_v'[j]].addrs = {}
  BY DEF DiscoveryUnique
<1>1. node_v'[i] # node_v'[j]
  BY DEF Distinct
<1>2. node_v'[i] \in Nodes' /\ node_v'[j] \in Nodes'
  BY DEF Nodes, ToSet
<1> QED BY <1>1, <1>2 DEF Unique

\* A step that adds nothing to the list, and leaves the names and addresses of
\* the listed nodes and the nodes being added as they are.
LEMMA KeptNodes ==
  ASSUME IInv, Distinct', Nodes' \subseteq Nodes, UNCHANGED <<gen, changes>>,
         \A o \in Nodes' : /\ node'[o].name = node[o].name
                           /\ node'[o].addrs = node[o].addrs
                           /\ node'[o].absent <= MAX_INTERVALS_ABSENT + 1,
         \A s \in Tender : pc'[s] \in {"seed_add", "svc_add"} =>
            /\ pc'[s] = pc[s] /\ lv'[s].cn = lv[s].cn
            /\ node'[lv[s].cn] = node[lv[s].cn]
  PROVE  Catalog'
<1>1. FreshOK'
  <2> SUFFICES ASSUME NEW s \in Tender, pc'[s] \in {"seed_add", "svc_add"}
               PROVE  /\ node'[lv'[s].cn].absent = 0
                      /\ ByName(node[lv[s].cn].name)' = {}
                      /\ \A a \in node'[lv'[s].cn].addrs : ByAddr(a)' = {}
    BY DEF FreshOK
  <2>1. /\ pc[s] \in {"seed_add", "svc_add"} /\ lv'[s].cn = lv[s].cn
        /\ node'[lv[s].cn] = node[lv[s].cn]
    OBVIOUS
  <2>2. /\ node[lv[s].cn].absent = 0 /\ ByName(node[lv[s].cn].name) = {}
        /\ \A a \in node[lv[s].cn].addrs : ByAddr(a) = {}
    BY <2>1 DEF IInv, FreshOK
  <2>3. ByName(node[lv[s].cn].name)' = {}
    BY <2>1, <2>2 DEF ByName
  <2>4. \A a \in node[lv[s].cn].addrs : ByAddr(a)' = {}
    BY <2>2 DEF ByAddr
  <2> QED BY <2>1, <2>2, <2>3, <2>4
<1>2. BoundsOK'
  BY DEF IInv, BoundsOK
<1>3. Unique'
  <2>1. Unique
    BY UniqueNodes DEF IInv
  <2> QED BY <2>1 DEF Unique
<1> QED BY <1>1, <1>2, <1>3, UniquePositions DEF Catalog

\* The threads that do not tend add no node.
LEMMA OthersAddNone ==
  ASSUME OneTender, NEW t \in Tender, pc[t] \in Tending, NEW l, NEW c, Moves(t, l, c),
         l \notin {"seed_add", "svc_add"}
  PROVE  \A s \in Tender : pc'[s] \notin {"seed_add", "svc_add"}
  BY DEF OneTender, Tending, Moves

\* A listed node is a block, and so is the one at index i.
LEMMA Listed ==
  ASSUME TypeOK
  PROVE  /\ Nodes \subseteq Obj
         /\ \A t \in Tender : lv[t].i <= Len(node_v) => node_v[lv[t].i] \in Nodes
<1>1. node_v \in Seq(Obj)
  BY DEF TypeOK, ClientTypes
<1>2. \A t \in Tender : lv[t].i \in Nat \ {0}
  BY DEF TypeOK, ThreadTypes, Locals
<1> QED BY <1>1, <1>2 DEF Nodes, ToSet

\* A step of a thread that leaves nodes, list, table and servers alone.
LEMMA QuietCatalog ==
  ASSUME IInv, NEW t \in Tender, NEW l, NEW c, Moves(t, l, c),
         UNCHANGED <<node, node_v, ptab, gen, changes>>, l \notin {"seed_add", "svc_add"},
         npart_known' \in BOOLEAN, running' \in BOOLEAN, found_all' \in BOOLEAN,
         hosts' \subseteq Addr
  PROVE  Catalog' /\ ClientTypes'
<1>1. ClientTypes'
  BY DEF IInv, TypeOK, ClientTypes
<1>2. Distinct' /\ Nodes' = Nodes
  BY DEF IInv, ListOK, Distinct, Nodes
<1>3. \A s \in Tender : pc'[s] \in {"seed_add", "svc_add"} =>
            pc'[s] = pc[s] /\ lv'[s].cn = lv[s].cn
  BY DEF Moves
<1>4. \A o \in Nodes : node[o].absent <= MAX_INTERVALS_ABSENT + 1
  BY DEF IInv, BoundsOK
<1> QED BY <1>1, <1>2, <1>3, <1>4, KeptNodes

\* AddAddress: no listed node had the address.
LEMMA AddAddressCatalog ==
  ASSUME IInv, NEW t \in Tender, NEW a \in Addr, AddAddress(t, a)
  PROVE  Catalog' /\ ClientTypes'
<1>0. /\ TypeOK /\ OneTender /\ pc[t] \in Tending /\ Distinct
      /\ UNCHANGED <<node_v, ptab, npart_known, running, found_all, hosts, gen, changes>>
  BY DEF IInv, ListOK, AddAddress, Tending, serverVars
<1>1. PICK o \in ByName(host[a]) :
        node' = [node EXCEPT ![o] = [node[o] EXCEPT !.addrs = node[o].addrs \cup {a}]]
  BY Zenon DEF AddAddress
<1>2. o \in Nodes /\ o \in Obj /\ node \in [Obj -> NodeRecord] /\ node[o] \in NodeRecord
  BY <1>0, <1>1, Listed DEF ByName, TypeOK, ClientTypes
<1> DEFINE r == [node[o] EXCEPT !.addrs = node[o].addrs \cup {a}]
<1>3. /\ r \in NodeRecord /\ r.name = node[o].name /\ r.addrs = node[o].addrs \cup {a}
      /\ r.absent = node[o].absent
  <2>1. node[o].addrs \cup {a} \in SUBSET Addr
    BY <1>2 DEF NodeRecord
  <2> QED BY <1>2, <2>1, StoreNode, Zenon
<1>4. node' = [node EXCEPT ![o] = r]
  BY <1>1
<1> HIDE DEF r
<1>5. node' \in [Obj -> NodeRecord] /\ \A q \in Obj : node'[q] = IF q = o THEN r ELSE node[q]
  BY <1>2, <1>3, <1>4
<1>6. Nodes' = Nodes /\ Nodes \subseteq Obj
  BY <1>0, Listed DEF Nodes
<1>7. \A q \in Nodes : a \notin node[q].addrs
  BY DEF AddAddress, Asked, ByAddr
<1>8. Unique'
  <2>1. Unique
    BY UniqueNodes DEF IInv
  <2> QED BY <1>2, <1>3, <1>5, <1>6, <1>7, <2>1 DEF Unique
<1>9. FreshOK'
  <2>1. \A s \in Tender : pc'[s] \notin {"seed_add", "svc_add"}
    BY <1>0, AddAddressMoves, OthersAddNone DEF AddAddress
  <2> QED BY <2>1 DEF FreshOK
<1>10. BoundsOK'
  BY <1>0, <1>2, <1>3, <1>5, <1>6 DEF IInv, BoundsOK
<1>11. ClientTypes'
  BY <1>0, <1>5 DEF TypeOK, ClientTypes
<1>12. Distinct'
  BY <1>0 DEF Distinct
<1> QED BY <1>8, <1>9, <1>10, <1>11, <1>12, UniquePositions DEF Catalog

\* CreateNode: neither the name nor the address is known.
LEMMA CreateNodeCatalog ==
  ASSUME IInv, NEW t \in Tender, NEW a \in Addr, CreateNode(t, a)
  PROVE  Catalog' /\ ClientTypes'
<1>0. /\ TypeOK /\ OneTender /\ pc[t] \in Tending /\ Distinct /\ RefCountExact
      /\ UNCHANGED <<node_v, ptab, npart_known, running, found_all, hosts, gen, changes>>
  BY DEF IInv, ListOK, CreateNode, Tending, serverVars
<1> DEFINE r == [Blank EXCEPT !.name = host[a], !.addrs = {a}]
           l == IF pc[t] = "seed" THEN "seed_add" ELSE "svc_add"
<1>1. PICK o \in Free : node' = [node EXCEPT ![o] = r] /\ Moves(t, l, o)
  BY <1>0, CreateNodeMoves
<1>2. o \in Obj /\ o \notin Nodes /\ node \in [Obj -> NodeRecord]
  BY <1>0, FreeUnheld DEF TypeOK, ClientTypes
<1>3. r \in NodeRecord /\ r.name = host[a] /\ r.addrs = {a} /\ r.absent = 0
  <2> DEFINE r1 == [Blank EXCEPT !.name = host[a]]
  <2>1. host[a] \in Name /\ {a} \in SUBSET Addr
    BY <1>0 DEF TypeOK, ServerTypes
  <2>2. r1 \in NodeRecord /\ r1.name = host[a] /\ r1.absent = 0
    BY <2>1, BlankType DEF NodeRecord, Blank
  <2>3. r = [r1 EXCEPT !.addrs = {a}]
    BY Zenon
  <2> HIDE DEF r, r1
  <2> QED BY <2>1, <2>2, <2>3, StoreNode, Zenon
<1> HIDE DEF r
<1>4. node' \in [Obj -> NodeRecord] /\ \A q \in Obj : node'[q] = IF q = o THEN r ELSE node[q]
  BY <1>1, <1>2, <1>3
<1>5. Nodes' = Nodes /\ Nodes \subseteq Obj /\ \A q \in Nodes : node'[q] = node[q]
  <2>1. Nodes' = Nodes /\ Nodes \subseteq Obj
    BY <1>0, Listed DEF Nodes
  <2> QED BY <1>2, <1>4, <2>1
<1>6. \A q \in Nodes : a \notin node[q].addrs /\ node[q].name # host[a]
  BY DEF CreateNode, Asked, ByAddr, ByName
<1>7. Unique'
  <2>1. Unique
    BY UniqueNodes DEF IInv
  <2> QED BY <1>5, <2>1 DEF Unique
<1>8. FreshOK'
  <2> SUFFICES ASSUME NEW s \in Tender, pc'[s] \in {"seed_add", "svc_add"}
               PROVE  /\ node'[lv'[s].cn].absent = 0
                      /\ ByName(node[lv[s].cn].name)' = {}
                      /\ \A b \in node'[lv'[s].cn].addrs : ByAddr(b)' = {}
    BY DEF FreshOK
  <2>1. s = t
    BY <1>0, <1>1 DEF OneTender, Moves, Tending
  <2>2. lv'[s].cn = o /\ node'[o] = r
    BY <1>1, <1>2, <1>4, <2>1 DEF Moves
  <2> QED BY <1>3, <1>5, <1>6, <2>2 DEF ByName, ByAddr
<1>9. BoundsOK'
  BY <1>0, <1>5 DEF IInv, BoundsOK
<1>10. ClientTypes'
  BY <1>0, <1>4 DEF TypeOK, ClientTypes
<1>11. Distinct'
  BY <1>0 DEF Distinct
<1> QED BY <1>7, <1>8, <1>9, <1>10, <1>11, UniquePositions DEF Catalog

\* AppendNode: what the new node is known by is still unknown to the list.
LEMMA AppendNodeCatalog ==
  ASSUME IInv, NEW t \in Tender, AppendNode(t)
  PROVE  Catalog' /\ ClientTypes'
<1> DEFINE c == lv[t].cn
<1>0. /\ TypeOK /\ OneTender /\ pc[t] \in Tending /\ pc[t] \in {"seed_add", "svc_add"}
      /\ UNCHANGED <<node, ptab, npart_known, running, found_all, hosts, gen, changes>>
  BY DEF IInv, AppendNode, Tending, serverVars
<1>1. node_v' \in Seq(Obj) /\ Nodes' = Nodes \cup {c} /\ Distinct'
  BY AppendNodeCore DEF Core, ListOK
<1>2. /\ node[c].absent = 0
      /\ \A q \in Nodes : node[q].name # node[c].name
                          /\ node[q].addrs \cap node[c].addrs = {}
  BY <1>0 DEF IInv, FreshOK, ByName, ByAddr
<1> HIDE DEF c
<1>3. Unique'
  <2>1. Unique
    BY UniqueNodes DEF IInv
  <2> QED BY <1>0, <1>1, <1>2, <2>1 DEF Unique
<1>4. FreshOK'
  <2>1. \A s \in Tender : pc'[s] \notin {"seed_add", "svc_add"}
    BY <1>0, AppendNodeMoves, OthersAddNone
  <2> QED BY <2>1 DEF FreshOK
<1>5. BoundsOK'
  BY <1>0, <1>1, <1>2 DEF IInv, BoundsOK, MAX_INTERVALS_ABSENT
<1>6. ClientTypes'
  BY <1>0, <1>1 DEF TypeOK, ClientTypes
<1> QED BY <1>1, <1>3, <1>4, <1>5, <1>6, UniquePositions DEF Catalog

\* KeepNode: a lap of absence is forgotten.
LEMMA KeepNodeCatalog ==
  ASSUME IInv, NEW t \in Tender, KeepNode(t)
  PROVE  Catalog' /\ ClientTypes'
<1> DEFINE c == node_v[lv[t].i]
           r == [node[c] EXCEPT !.absent = 1]
<1>0. /\ TypeOK /\ OneTender /\ pc[t] \in Tending /\ Distinct
      /\ UNCHANGED <<node_v, ptab, npart_known, running, found_all, hosts, gen, changes>>
      /\ node' = [node EXCEPT ![c] = r]
  BY DEF IInv, ListOK, KeepNode, Tending, serverVars
<1>1. Nodes' = Nodes /\ Nodes \subseteq Obj /\ c \in Obj /\ node \in [Obj -> NodeRecord]
  BY <1>0, Listed DEF Nodes, KeepNode, TypeOK, ClientTypes
<1>2. r \in NodeRecord /\ r.name = node[c].name /\ r.addrs = node[c].addrs /\ r.absent = 1
  <2>1. node[c] \in NodeRecord /\ 1 \in 0 .. MAX_INTERVALS_ABSENT + 2
    BY <1>1 DEF MAX_INTERVALS_ABSENT
  <2> QED BY <2>1, StoreNode, Zenon
<1> HIDE DEF c, r
<1>3. node' \in [Obj -> NodeRecord] /\ \A q \in Obj : node'[q] = IF q = c THEN r ELSE node[q]
  BY <1>0, <1>1, <1>2
<1>4. \A q \in Nodes : node[q].absent <= MAX_INTERVALS_ABSENT + 1
  BY DEF IInv, BoundsOK
<1>5. \A s \in Tender : pc'[s] \notin {"seed_add", "svc_add"}
  BY <1>0, KeepNodeMoves, OthersAddNone
<1>6. ClientTypes'
  BY <1>0, <1>3 DEF TypeOK, ClientTypes
<1>7. \A q \in Nodes' : /\ node'[q].name = node[q].name
                        /\ node'[q].addrs = node[q].addrs
                        /\ node'[q].absent <= MAX_INTERVALS_ABSENT + 1
  BY <1>1, <1>2, <1>3, <1>4 DEF MAX_INTERVALS_ABSENT
<1>8. Distinct'
  BY <1>0 DEF Distinct
<1> QED BY <1>0, <1>1, <1>5, <1>6, <1>7, <1>8, KeptNodes

\* AbsentNode: a lap more, and the node whose laps are over leaves the list.
LEMMA AbsentNodeCatalog ==
  ASSUME IInv, NEW t \in Tender, AbsentNode(t)
  PROVE  Catalog' /\ ClientTypes'
<1> DEFINE c == node_v[lv[t].i]
           v == node[c].absent + 1
           r == [node[c] EXCEPT !.absent = v]
           out == node[c].absent > MAX_INTERVALS_ABSENT
<1>0. /\ TypeOK /\ OneTender /\ pc[t] \in Tending /\ Distinct
      /\ UNCHANGED <<npart_known, running, found_all, hosts, gen, changes>>
      /\ ptab' = ProlesCleared(c)
      /\ IF out THEN node_v' = RemoveAt(node_v, lv[t].i) ELSE UNCHANGED node_v
      /\ lv[t].i <= Len(node_v)
  BY DEF IInv, ListOK, AbsentNode, Tending, serverVars
<1>a. node' = [node EXCEPT ![c] = r]
  BY Zenon DEF AbsentNode
<1>1. Nodes \subseteq Obj /\ c \in Nodes /\ node \in [Obj -> NodeRecord]
  BY <1>0, Listed DEF TypeOK, ClientTypes
<1>2. \A q \in Nodes : node[q].absent <= MAX_INTERVALS_ABSENT + 1
  BY DEF IInv, BoundsOK
<1>3. node[c].absent \in Nat /\ v \in 0 .. MAX_INTERVALS_ABSENT + 2
  BY <1>1, <1>2 DEF NodeRecord, MAX_INTERVALS_ABSENT
<1>4. node_v' \in Seq(Obj) /\ Nodes' \subseteq Nodes /\ Distinct'
  BY AbsentNodeCore DEF Core, ListOK
<1>5. out => c \notin Nodes'
  <2>1. node_v \in Seq(Obj) /\ lv[t].i \in 1 .. Len(node_v)
    BY <1>0 DEF TypeOK, ClientTypes, ThreadTypes, Locals
  <2> QED BY <1>0, <2>1, RemovedNodes
<1>6. ptab' \in [Part -> [master : Obj \cup {NULL}, prole : Obj \cup {NULL}]]
  BY <1>0, <1>1, ClearedSlots
<1>7. ~out => v <= MAX_INTERVALS_ABSENT + 1
  BY <1>3 DEF MAX_INTERVALS_ABSENT
<1> HIDE DEF out, v
<1>8. r \in NodeRecord /\ r.name = node[c].name /\ r.addrs = node[c].addrs /\ r.absent = v
  <2>1. node[c] \in NodeRecord
    BY <1>1
  <2> QED BY <1>3, <2>1, StoreNode, Zenon
<1> HIDE DEF c, r
<1>9. node' \in [Obj -> NodeRecord] /\ \A q \in Obj : node'[q] = IF q = c THEN r ELSE node[q]
  BY <1>a, <1>1, <1>8
<1>10. \A s \in Tender : pc'[s] \notin {"seed_add", "svc_add"}
  BY <1>0, AbsentNodeMoves, OthersAddNone
<1>11. ClientTypes'
  BY <1>0, <1>4, <1>6, <1>9 DEF TypeOK, ClientTypes
<1>12. \A q \in Nodes' : /\ node'[q].name = node[q].name
                         /\ node'[q].addrs = node[q].addrs
                         /\ node'[q].absent <= MAX_INTERVALS_ABSENT + 1
  BY <1>1, <1>2, <1>4, <1>5, <1>7, <1>8, <1>9
<1> QED BY <1>0, <1>4, <1>10, <1>11, <1>12, KeptNodes

\* DropNode: a block is blanked only once it is off the list.
LEMMA DropNodeCatalog ==
  ASSUME IInv, NEW t \in Tender, DropNode(t)
  PROVE  Catalog' /\ ClientTypes'
<1> DEFINE c == lv[t].cn
<1>0. /\ TypeOK /\ OneTender /\ pc[t] = "drop" /\ pc[t] \in Tending /\ Distinct
      /\ UNCHANGED <<node_v, ptab, npart_known, running, found_all, hosts, gen, changes>>
      /\ node' = IF rc[c] = 1 THEN [node EXCEPT ![c] = Blank] ELSE node
  BY DEF IInv, ListOK, DropNode, Tending, serverVars, cl_cluster_node_release
<1>1. c \in Obj /\ c \notin Nodes /\ node \in [Obj -> NodeRecord]
  BY <1>0 DEF IInv, TypeOK, ThreadTypes, ClientTypes, ListOK, Carrying
<1> HIDE DEF c
<1>2. Nodes' = Nodes /\ Nodes \subseteq Obj /\ Distinct'
  BY <1>0, Listed DEF Nodes, Distinct
<1>3. node' \in [Obj -> NodeRecord] /\ \A q \in Obj \ {c} : node'[q] = node[q]
  BY <1>0, <1>1, BlankType
<1>4. \A q \in Nodes' : /\ node'[q].name = node[q].name
                        /\ node'[q].addrs = node[q].addrs
                        /\ node'[q].absent <= MAX_INTERVALS_ABSENT + 1
  BY <1>1, <1>2, <1>3 DEF IInv, BoundsOK
<1>5. \A s \in Tender : pc'[s] \notin {"seed_add", "svc_add"}
  BY <1>0, DropNodeMoves, OthersAddNone
<1>6. ClientTypes'
  BY <1>0, <1>3 DEF TypeOK, ClientTypes
<1> QED BY <1>0, <1>2, <1>4, <1>5, <1>6, KeptNodes

\* FetchReplicas: a generation is stored.
LEMMA FetchReplicasCatalog ==
  ASSUME IInv, NEW t \in Tender, FetchReplicas(t)
  PROVE  Catalog' /\ ClientTypes'
<1> DEFINE c == lv[t].cn
<1>0. /\ TypeOK /\ OneTender /\ pc[t] = "fetch" /\ pc[t] \in Tending /\ Distinct
      /\ UNCHANGED <<node_v, ptab, npart_known, running, found_all, hosts, gen, changes>>
  BY DEF IInv, ListOK, FetchReplicas, Tending, serverVars
<1>1. c \in Obj /\ node \in [Obj -> NodeRecord] /\ node[c] \in NodeRecord
  BY <1>0 DEF TypeOK, ThreadTypes, ClientTypes
<1>2. \/ UNCHANGED node
      \/ \E n \in Name : node' = [node EXCEPT ![c] = [node[c] EXCEPT !.gen = gen[n]]]
  BY Zenon DEF FetchReplicas
<1>3. ASSUME NEW n \in Name
      PROVE  LET r == [node[c] EXCEPT !.gen = gen[n]]
             IN r \in NodeRecord /\ r.name = node[c].name /\ r.addrs = node[c].addrs
                /\ r.absent = node[c].absent
  <2>1. gen[n] \in -1 .. MaxChanges
    BY <1>0, ChangesAssumption DEF TypeOK, ServerTypes
  <2> QED BY <1>1, <2>1, StoreNode, Zenon
<1> HIDE DEF c
<1>4. /\ node' \in [Obj -> NodeRecord]
      /\ \A q \in Obj : /\ node'[q].name = node[q].name /\ node'[q].addrs = node[q].addrs
                        /\ node'[q].absent = node[q].absent
  <2>1. CASE UNCHANGED node
    BY <1>1, <2>1
  <2>2. CASE \E n \in Name : node' = [node EXCEPT ![c] = [node[c] EXCEPT !.gen = gen[n]]]
    <3>1. PICK n \in Name : node' = [node EXCEPT ![c] = [node[c] EXCEPT !.gen = gen[n]]]
      BY <2>2
    <3> DEFINE r == [node[c] EXCEPT !.gen = gen[n]]
    <3>2. /\ r \in NodeRecord /\ r.name = node[c].name /\ r.addrs = node[c].addrs
          /\ r.absent = node[c].absent
      BY <1>3, Zenon
    <3>3. node' = [node EXCEPT ![c] = r]
      BY <3>1
    <3> HIDE DEF r
    <3> QED BY <1>1, <3>2, <3>3
  <2> QED BY <1>2, <2>1, <2>2
<1>5. Nodes' = Nodes /\ Nodes \subseteq Obj /\ Distinct'
  BY <1>0, Listed DEF Nodes, Distinct
<1>6. \A q \in Nodes' : /\ node'[q].name = node[q].name
                        /\ node'[q].addrs = node[q].addrs
                        /\ node'[q].absent <= MAX_INTERVALS_ABSENT + 1
  BY <1>4, <1>5 DEF IInv, BoundsOK
<1>7. \A s \in Tender : pc'[s] \notin {"seed_add", "svc_add"}
  BY <1>0, FetchReplicasMoves, OthersAddNone
<1>8. ClientTypes'
  BY <1>0, <1>4 DEF TypeOK, ClientTypes
<1> QED BY <1>0, <1>5, <1>6, <1>7, <1>8, KeptNodes

\* UpdatePartition: the nodes it replaces lose their generation.
LEMMA UpdatePartitionCatalog ==
  ASSUME IInv, NEW t \in Tender, NEW p \in Part, UpdatePartition(t, p)
  PROVE  Catalog' /\ ClientTypes'
<1> DEFINE R == Replaced(ptab[p], lv[t].cn, lv[t].claim[p])
<1>0. /\ TypeOK /\ OneTender /\ pc[t] = "update" /\ pc[t] \in Tending /\ Distinct
      /\ UNCHANGED <<node_v, npart_known, running, found_all, hosts, gen, changes>>
  BY DEF IInv, ListOK, UpdatePartition, Tending, serverVars
<1>1. node' = [o \in Obj |-> IF o \in R THEN [node[o] EXCEPT !.gen = -1] ELSE node[o]]
  BY Zenon DEF UpdatePartition
<1> HIDE DEF R
<1>2. ASSUME NEW q \in Obj
      PROVE  /\ node'[q] \in NodeRecord
             /\ node'[q].name = node[q].name /\ node'[q].addrs = node[q].addrs
             /\ node'[q].absent = node[q].absent
  <2> DEFINE r == [node[q] EXCEPT !.gen = -1]
  <2>1. node[q] \in NodeRecord /\ -1 \in -1 .. MaxChanges
    BY <1>0, ChangesAssumption DEF TypeOK, ClientTypes
  <2>2. /\ r \in NodeRecord /\ r.name = node[q].name /\ r.addrs = node[q].addrs
        /\ r.absent = node[q].absent
    BY <2>1, StoreNode, Zenon
  <2>3. node'[q] = IF q \in R THEN r ELSE node[q]
    BY <1>1
  <2> HIDE DEF r
  <2> QED BY <2>1, <2>2, <2>3
<1>3. node' \in [Obj -> NodeRecord]
  <2>1. node' = [q \in Obj |-> node'[q]]
    BY <1>1
  <2> QED BY <1>2, <2>1
<1>4. Nodes' = Nodes /\ Nodes \subseteq Obj /\ Distinct'
  BY <1>0, Listed DEF Nodes, Distinct
<1>5. \A q \in Nodes' : /\ node'[q].name = node[q].name
                        /\ node'[q].addrs = node[q].addrs
                        /\ node'[q].absent <= MAX_INTERVALS_ABSENT + 1
  BY <1>2, <1>4 DEF IInv, BoundsOK
<1>6. \A s \in Tender : pc'[s] \notin {"seed_add", "svc_add"}
  BY <1>0, UpdatePartitionMoves, OthersAddNone
<1>7. ptab' \in [Part -> [master : Obj \cup {NULL}, prole : Obj \cup {NULL}]]
  BY UpdatePartitionCore DEF Slot
<1>8. ClientTypes'
  BY <1>0, <1>3, <1>7 DEF TypeOK, ClientTypes
<1> QED BY <1>0, <1>4, <1>5, <1>6, <1>8, KeptNodes

\* cl_cluster_node_put: the last holder of a block is neither the list nor a
\* thread that adds it.
LEMMA PutCatalog ==
  ASSUME IInv, NEW x \in Tx, cl_cluster_node_put(x)
  PROVE  Catalog' /\ ClientTypes'
<1> DEFINE c == tx[x]
<1>0. /\ TypeOK /\ Distinct /\ RefCountExact /\ c \in Obj
      /\ UNCHANGED <<node_v, ptab, npart_known, running, found_all, hosts, pc, lv, gen,
                     changes>>
      /\ node' = IF rc[c] = 1 THEN [node EXCEPT ![c] = Blank] ELSE node
  BY DEF IInv, ListOK, cl_cluster_node_put, tendVars, serverVars, cl_cluster_node_release
<1>1. node \in [Obj -> NodeRecord]
  BY <1>0 DEF TypeOK, ClientTypes
<1>2. rc[c] = 1 => c \notin Nodes /\ Carriers(c) = {}
  <2>1. rc[c] = Refs(c) /\ Users(c) # {}
    BY <1>0 DEF RefCountExact, Users
  <2>2. /\ Cardinality(Carriers(c)) \in Nat /\ Cardinality(MasterSlots(c)) \in Nat
        /\ Cardinality(ProleSlots(c)) \in Nat /\ Cardinality(Users(c)) \in Nat
        /\ Carriers(c) # {} => Cardinality(Carriers(c)) > 0
        /\ Users(c) # {} => Cardinality(Users(c)) > 0
    BY Counts
  <2> HIDE DEF c
  <2> QED BY <2>1, <2>2 DEF Refs
<1> HIDE DEF c
<1>3. /\ node' \in [Obj -> NodeRecord] /\ \A q \in Obj \ {c} : node'[q] = node[q]
      /\ rc[c] # 1 => node'[c] = node[c]
  BY <1>0, <1>1, BlankType
<1>4. Nodes' = Nodes /\ Nodes \subseteq Obj /\ Distinct'
  BY <1>0, Listed DEF Nodes, Distinct
<1>5. \A q \in Nodes' : /\ node'[q].name = node[q].name
                        /\ node'[q].addrs = node[q].addrs
                        /\ node'[q].absent <= MAX_INTERVALS_ABSENT + 1
  BY <1>2, <1>3, <1>4 DEF IInv, BoundsOK
<1>6. ASSUME NEW s \in Tender, pc'[s] \in {"seed_add", "svc_add"}
      PROVE  /\ pc'[s] = pc[s] /\ lv'[s].cn = lv[s].cn
             /\ node'[lv[s].cn] = node[lv[s].cn]
  <2>1. pc'[s] = pc[s] /\ lv'[s].cn = lv[s].cn
    BY <1>0
  <2>2. lv[s].cn \in Obj /\ Carrying(s) = lv[s].cn
    BY <1>0, <1>6, <2>1 DEF TypeOK, ThreadTypes, Carrying
  <2> QED BY <1>2, <1>3, <2>1, <2>2 DEF Carriers
<1>7. ClientTypes'
  BY <1>0, <1>3 DEF TypeOK, ClientTypes
<1> QED BY <1>0, <1>4, <1>5, <1>6, <1>7, KeptNodes

-----------------------------------------------------------------------------
(* Every step keeps the invariant                                          *)

\* An exact count is a natural number.
LEMMA CountsTyped ==
  ASSUME RefCountExact', rc' = [o \in Obj |-> rc'[o]]
  PROVE  rc' \in [Obj -> Nat]
<1>1. IsFiniteSet(Tender)
  BY Counts
<1>2. ASSUME NEW S, IsFiniteSet(S), NEW A \in SUBSET S PROVE Cardinality(A) \in Nat
  BY <1>2, FS_Subset, FS_CardinalityType
<1>3. ASSUME NEW o \in Obj PROVE rc'[o] \in Nat
  <2>1. /\ Cardinality(Carriers(o)') \in Nat /\ Cardinality(MasterSlots(o)') \in Nat
        /\ Cardinality(ProleSlots(o)') \in Nat /\ Cardinality(Users(o)') \in Nat
    BY <1>1, <1>2, FiniteAssumption DEF Carriers, MasterSlots, ProleSlots, Users
  <2>2. rc'[o] = Refs(o)'
    BY DEF RefCountExact
  <2> QED BY <2>1, <2>2 DEF Refs
<1> QED BY <1>3

\* A step of a thread that only looks: list, table, nodes and counts stay.
LEMMA QuietStep ==
  ASSUME IInv, NEW t \in Tender, NEW l, NEW c, Moves(t, l, c), ThreadTypes', OneTender',
         UNCHANGED <<rc, node, node_v, ptab, tx, serverVars>>,
         pc[t] \notin {"seed_add", "svc_add", "drop"},
         l \notin {"seed_add", "svc_add", "drop"},
         l \in {"ping", "fetch", "update"} => c \in Nodes,
         npart_known' \in BOOLEAN, running' \in BOOLEAN, found_all' \in BOOLEAN,
         hosts' \subseteq Addr, ServerTypes'
  PROVE  IInv'
<1>1. Core'
  BY QuietCore DEF IInv, Core
<1>2. Catalog' /\ ClientTypes'
  BY QuietCatalog DEF serverVars
<1>3. rc' \in [Obj -> Nat]
  BY DEF IInv, TypeOK
<1> QED BY <1>1, <1>2, <1>3 DEF IInv, TypeOK, Core, Catalog

\* A step that changes counts.
LEMMA CountedStep ==
  ASSUME ThreadTypes', OneTender', Core', Catalog', ClientTypes', ServerTypes',
         rc' = [o \in Obj |-> rc'[o]]
  PROVE  IInv'
  BY CountsTyped DEF IInv, TypeOK, Core, Catalog

\* Discovery: SkipAddress, AddAddress, CreateNode, AppendNode.
LEMMA DiscoveryKeeps ==
  ASSUME IInv, NEW t \in Tender, ServerTypes',
         \/ AppendNode(t)
         \/ \E a \in Addr : SkipAddress(t, a) \/ AddAddress(t, a) \/ CreateNode(t, a)
  PROVE  IInv'
<1>0. TypeOK /\ OneTender /\ Core /\ rc = [o \in Obj |-> rc[o]]
  BY DEF IInv, Core, TypeOK
<1>1. CASE AppendNode(t)
  <2>1. pc[t] \in Tending /\ UNCHANGED <<rc, running>>
    BY <1>1 DEF AppendNode, Tending
  <2>2. ThreadTypes' /\ OneTender'
    BY <1>0, <1>1, <2>1, AppendNodeMoves, TenderMoves
  <2>3. Core' /\ Catalog' /\ ClientTypes'
    BY <1>1, AppendNodeCore, AppendNodeCatalog
  <2> QED BY <1>0, <2>1, <2>2, <2>3, CountedStep
<1>2. ASSUME NEW a \in Addr, SkipAddress(t, a) PROVE IInv'
  <2>1. /\ pc[t] \in Tending /\ pc[t] \in {"seed", "svc"}
        /\ UNCHANGED <<rc, node, node_v, ptab, tx, npart_known, running, found_all, hosts>>
        /\ UNCHANGED serverVars
    BY <1>2 DEF SkipAddress, Tending
  <2>2. ThreadTypes' /\ Moves(t, pc[t], NULL) /\ OneTender'
    BY <1>0, <1>2, <2>1, SkipAddressMoves, TenderMoves
  <2> QED BY <1>0, <2>1, <2>2, QuietStep DEF TypeOK, ClientTypes
<1>3. ASSUME NEW a \in Addr, AddAddress(t, a) PROVE IInv'
  <2>1. /\ pc[t] \in Tending /\ pc[t] \in {"seed", "svc"}
        /\ UNCHANGED <<rc, node_v, ptab, tx, running>>
    BY <1>3 DEF AddAddress, Tending
  <2>2. ThreadTypes' /\ Moves(t, pc[t], NULL) /\ OneTender'
    BY <1>0, <1>3, <2>1, AddAddressMoves, TenderMoves
  <2>3. Core'
    BY <1>0, <2>1, <2>2, QuietCore
  <2> QED BY <1>0, <1>3, <2>1, <2>2, <2>3, AddAddressCatalog, CountedStep
<1>4. ASSUME NEW a \in Addr, CreateNode(t, a) PROVE IInv'
  <2>1. pc[t] \in Tending /\ running' = running
    BY <1>4 DEF CreateNode, Tending
  <2>2. ThreadTypes' /\ OneTender'
    BY <1>0, <1>4, <2>1, CreateNodeMoves, TenderMoves
  <2>3. rc' = [o \in Obj |-> rc'[o]]
    <3>1. PICK o \in Obj : rc' = [rc EXCEPT ![o] = 1]
      BY <1>4 DEF CreateNode, Free
    <3> QED BY <1>0, <3>1
  <2> QED BY <1>4, <2>2, <2>3, CreateNodeCore, CreateNodeCatalog, CountedStep
<1> QED BY <1>1, <1>2, <1>3, <1>4

\* The node loop: KeepNode, AbsentNode, DropNode, UpdatePartition.
LEMMA NodeLoopKeeps ==
  ASSUME IInv, NEW t \in Tender, ServerTypes',
         \/ KeepNode(t) \/ AbsentNode(t) \/ DropNode(t)
         \/ \E p \in Part : UpdatePartition(t, p)
  PROVE  IInv'
<1>0. TypeOK /\ OneTender /\ Core /\ rc \in [Obj -> Nat]
  BY DEF IInv, Core, TypeOK
<1>1. CASE KeepNode(t)
  <2>1. /\ pc[t] \in Tending /\ pc[t] = "node"
        /\ UNCHANGED <<rc, node_v, ptab, tx, running>>
    BY <1>1 DEF KeepNode, Tending
  <2>2. node_v[lv[t].i] \in Nodes
    BY <1>0, <1>1, Listed DEF KeepNode
  <2>3. ThreadTypes' /\ Moves(t, "ping", node_v[lv[t].i]) /\ OneTender'
    BY <1>0, <1>1, <2>1, KeepNodeMoves, TenderMoves
  <2>4. Core'
    BY <1>0, <2>1, <2>2, <2>3, QuietCore
  <2>5. rc' = [o \in Obj |-> rc'[o]]
    BY <1>0, <2>1
  <2> QED BY <1>1, <2>3, <2>4, <2>5, KeepNodeCatalog, CountedStep
<1>2. CASE AbsentNode(t)
  <2>1. pc[t] \in Tending /\ running' = running
    BY <1>2 DEF AbsentNode, Tending
  <2>2. ThreadTypes' /\ OneTender'
    BY <1>0, <1>2, <2>1, AbsentNodeMoves, TenderMoves
  <2>3. rc' = [o \in Obj |-> rc'[o]]
    BY <1>0, <1>2 DEF AbsentNode
  <2> QED BY <1>2, <2>2, <2>3, AbsentNodeCore, AbsentNodeCatalog, CountedStep
<1>3. CASE DropNode(t)
  <2>1. pc[t] \in Tending /\ running' = running
    BY <1>3 DEF DropNode, Tending
  <2>2. ThreadTypes' /\ OneTender'
    BY <1>0, <1>3, <2>1, DropNodeMoves, TenderMoves
  <2>3. rc' = [o \in Obj |-> rc'[o]]
    BY <1>0, <1>3 DEF DropNode, cl_cluster_node_release
  <2> QED BY <1>3, <2>2, <2>3, DropNodeCore, DropNodeCatalog, CountedStep
<1>4. ASSUME NEW p \in Part, UpdatePartition(t, p) PROVE IInv'
  <2>1. pc[t] \in Tending /\ running' = running
    BY <1>4 DEF UpdatePartition, Tending
  <2>2. ThreadTypes' /\ OneTender'
    BY <1>0, <1>4, <2>1, UpdatePartitionMoves, TenderMoves
  <2>3. rc' = [o \in Obj |-> rc'[o]]
    BY <1>4 DEF UpdatePartition
  <2> QED BY <1>4, <2>2, <2>3, UpdatePartitionCore, UpdatePartitionCatalog, CountedStep
<1> QED BY <1>1, <1>2, <1>3, <1>4

\* The other steps of cluster_tend.
LEMMA LapKeeps ==
  ASSUME IInv, NEW t \in Tender, ServerTypes',
         \/ TendBegin(t) \/ cluster_get_n_partitions(t) \/ PingNode(t) \/ FetchReplicas(t)
         \/ UpdateDone(t) \/ Explore(t) \/ MarkFound(t) \/ TendEnd(t)
  PROVE  IInv'
<1>0. /\ TypeOK /\ OneTender /\ Core /\ rc = [o \in Obj |-> rc[o]]
      /\ npart_known \in BOOLEAN /\ running \in BOOLEAN /\ found_all \in BOOLEAN
      /\ hosts \subseteq Addr
  BY DEF IInv, Core, TypeOK, ClientTypes
<1>1. CASE TendBegin(t)
  <2>1. /\ UNCHANGED <<rc, node, node_v, ptab, tx, npart_known, found_all, hosts>>
        /\ UNCHANGED serverVars /\ pc[t] \in {"idle", "call"}
        /\ running => running' = running
    BY <1>1 DEF TendBegin
  <2>2. CASE running
    <3>1. ThreadTypes' /\ Moves(t, "loop", lv[t].cn) /\ OneTender'
      BY <1>0, <1>1, <2>1, <2>2, TendBeginMoves, TenderMoves DEF Tending
    <3> QED BY <1>0, <2>1, <2>2, <3>1, QuietStep
  <2>3. CASE ~running
    <3>1. ThreadTypes' /\ Moves(t, "seed", lv[t].cn) /\ OneTender' /\ running'
      BY <1>0, <1>1, <2>3, TendBeginMoves, TenderEnters
    <3>2. running' \in BOOLEAN
      BY <1>1, <2>3 DEF TendBegin
    <3> QED BY <1>0, <2>1, <3>1, <3>2, QuietStep
  <2> QED BY <2>2, <2>3
<1>2. CASE cluster_get_n_partitions(t)
  <2>1. /\ UNCHANGED <<rc, node, node_v, ptab, tx, running, found_all, hosts>>
        /\ UNCHANGED serverVars /\ pc[t] = "seed" /\ npart_known' \in BOOLEAN
    BY <1>2 DEF cluster_get_n_partitions
  <2>2. ThreadTypes' /\ Moves(t, "node", lv[t].cn) /\ OneTender'
    BY <1>0, <1>2, <2>1, Cluster_get_n_partitionsMoves, TenderMoves DEF Tending
  <2> QED BY <1>0, <2>1, <2>2, QuietStep
<1>3. CASE PingNode(t)
  <2>1. /\ UNCHANGED <<rc, node, node_v, ptab, tx, npart_known, running, found_all, hosts>>
        /\ UNCHANGED serverVars /\ pc[t] = "ping"
    BY <1>3 DEF PingNode
  <2>2. lv[t].cn \in Nodes
    BY <1>0, <2>1, ObjAssumption DEF Core, ListOK, Current, TypeOK, ThreadTypes
  <2>3. ThreadTypes' /\ \E l \in {"node", "fetch"}, c \in {NULL, lv[t].cn} :
            Moves(t, l, c) /\ (l = "fetch" => c = lv[t].cn)
    BY <1>0, <1>3, PingNodeMoves
  <2>4. PICK l \in {"node", "fetch"}, c \in {NULL, lv[t].cn} :
            Moves(t, l, c) /\ (l = "fetch" => c = lv[t].cn)
    BY <2>3
  <2>5. OneTender'
    BY <1>0, <2>1, <2>4, TenderMoves DEF Tending
  <2> QED BY <1>0, <2>1, <2>2, <2>3, <2>4, <2>5, QuietStep
<1>4. CASE FetchReplicas(t)
  <2>1. UNCHANGED <<rc, node_v, ptab, tx, running>> /\ pc[t] = "fetch"
    BY <1>4 DEF FetchReplicas
  <2>2. lv[t].cn \in Nodes
    BY <1>0, <2>1, ObjAssumption DEF Core, ListOK, Current, TypeOK, ThreadTypes
  <2>3. ThreadTypes' /\ \E l \in {"node", "update"}, c \in {NULL, lv[t].cn} :
            Moves(t, l, c) /\ (l = "update" => c = lv[t].cn)
    BY <1>0, <1>4, FetchReplicasMoves
  <2>4. PICK l \in {"node", "update"}, c \in {NULL, lv[t].cn} :
            Moves(t, l, c) /\ (l = "update" => c = lv[t].cn)
    BY <2>3
  <2>5. OneTender'
    BY <1>0, <2>1, <2>4, TenderMoves DEF Tending
  <2>6. Core'
    BY <1>0, <2>1, <2>2, <2>4, QuietCore
  <2> QED BY <1>0, <1>4, <2>1, <2>3, <2>5, <2>6, FetchReplicasCatalog, CountedStep
<1>5. CASE UpdateDone(t)
  <2>1. /\ UNCHANGED <<rc, node, node_v, ptab, tx, npart_known, running, found_all, hosts>>
        /\ UNCHANGED serverVars /\ pc[t] = "update"
    BY <1>5 DEF UpdateDone
  <2>2. ThreadTypes' /\ Moves(t, "node", NULL) /\ OneTender'
    BY <1>0, <1>5, <2>1, UpdateDoneMoves, TenderMoves DEF Tending
  <2> QED BY <1>0, <2>1, <2>2, QuietStep
<1>6. CASE Explore(t)
  <2>1. /\ UNCHANGED <<rc, node, node_v, ptab, tx, npart_known, running, found_all, hosts>>
        /\ UNCHANGED serverVars /\ pc[t] = "node"
    BY <1>6 DEF Explore
  <2>2. ThreadTypes' /\ Moves(t, "svc", lv[t].cn) /\ OneTender'
    BY <1>0, <1>6, <2>1, ExploreMoves, TenderMoves DEF Tending
  <2> QED BY <1>0, <2>1, <2>2, QuietStep
<1>7. CASE MarkFound(t)
  <2>1. /\ UNCHANGED <<rc, node, node_v, ptab, tx, npart_known, running, hosts>>
        /\ UNCHANGED serverVars /\ pc[t] = "svc" /\ found_all' \in BOOLEAN
    BY <1>7 DEF MarkFound
  <2>2. ThreadTypes' /\ Moves(t, "end", lv[t].cn) /\ OneTender'
    BY <1>0, <1>7, <2>1, MarkFoundMoves, TenderMoves DEF Tending
  <2> QED BY <1>0, <2>1, <2>2, QuietStep
<1>8. CASE TendEnd(t)
  <2>1. /\ UNCHANGED <<rc, node, node_v, ptab, tx, npart_known, found_all, hosts>>
        /\ UNCHANGED serverVars /\ pc[t] = "end" /\ running' \in BOOLEAN
    BY <1>8 DEF TendEnd
  <2>2. ThreadTypes' /\ \E l \in {"idle", "loop"} : Moves(t, l, NULL)
    BY <1>0, <1>8, TendEndMoves
  <2>3. PICK l \in {"idle", "loop"} : Moves(t, l, NULL)
    BY <2>2
  <2>4. OneTender'
    BY <1>0, <2>1, <2>3, TenderLeaves DEF Tending
  <2> QED BY <1>0, <2>1, <2>2, <2>3, <2>4, QuietStep
<1> QED BY <1>1, <1>2, <1>3, <1>4, <1>5, <1>6, <1>7, <1>8

\* citrusleaf_cluster_add_host outside cluster_tend.
LEMMA AddHostKeeps ==
  ASSUME IInv, NEW u \in User, AddHost(u), ServerTypes'
  PROVE  IInv'
<1>0. /\ TypeOK /\ OneTender /\ Core /\ u \in Tender
      /\ npart_known \in BOOLEAN /\ running \in BOOLEAN /\ found_all \in BOOLEAN
      /\ hosts \subseteq Addr
  BY DEF IInv, Core, TypeOK, ClientTypes, Tender
<1> DEFINE quiet == {"idle", "mark", "call", "loop", "check", "deref", "OK", "FAIL_TIMEOUT"}
<1>1. UNCHANGED <<rc, node, node_v, ptab, tx, npart_known, running>> /\ UNCHANGED serverVars
  BY DEF AddHost, RegisterHost, NotFoundAll, AddHostLoop, PeekNode, DerefNode, AddHostReturn
<1>2. pc[u] \in quiet
  BY DEF AddHost, RegisterHost, NotFoundAll, AddHostLoop, PeekNode, DerefNode, AddHostReturn
<1>3. found_all' \in BOOLEAN /\ hosts' \subseteq Addr
  BY <1>0 DEF AddHost, RegisterHost, NotFoundAll, AddHostLoop, PeekNode, DerefNode,
     AddHostReturn
<1>4. ThreadTypes' /\ \E l \in quiet : \E c : Moves(u, l, c)
  <2>1. ASSUME NEW a \in Addr, RegisterHost(u, a)
        PROVE  ThreadTypes' /\ Moves(u, "mark", NULL)
    BY <1>0, <2>1, RegisterHostMoves
  <2>2. CASE NotFoundAll(u)
    BY <1>0, <2>2, NotFoundAllMoves
  <2>3. CASE AddHostLoop(u)
    BY <1>0, <2>3, AddHostLoopMoves
  <2>4. CASE PeekNode(u)
    BY <1>0, <2>4, PeekNodeMoves
  <2>5. CASE DerefNode(u)
    BY <1>0, <2>5, DerefNodeMoves
  <2>6. CASE AddHostReturn(u)
    BY <1>0, <2>6, AddHostReturnMoves
  <2> QED BY <2>1, <2>2, <2>3, <2>4, <2>5, <2>6 DEF AddHost
<1>a. PICK l \in quiet : \E c : Moves(u, l, c)
  BY <1>4
<1>5. PICK c : Moves(u, l, c)
  BY <1>a
<1>6. OneTender'
  BY <1>0, <1>1, <1>5, TenderMoves DEF Tending
<1> QED BY <1>0, <1>1, <1>2, <1>3, <1>4, <1>5, <1>6, QuietStep

\* A transaction takes or drops a reference.
LEMMA TransactionKeeps ==
  ASSUME IInv, NEW x \in Tx, Transaction(x), ServerTypes'
  PROVE  IInv'
<1>0. /\ TypeOK /\ OneTender /\ rc \in [Obj -> Nat] /\ DOMAIN tx = Tx
      /\ tx \in [Tx -> {"idle", "random"} \cup Obj] /\ Nodes \subseteq Obj
      /\ ptab \in [Part -> Slot] /\ tx[x] \in {"idle", "random"} \cup Obj
  BY Listed DEF IInv, TypeOK, ThreadTypes, ClientTypes, Slot
<1>1. UNCHANGED tendVars /\ UNCHANGED serverVars
  BY DEF Transaction, cl_partition_table_get, cl_cluster_node_get_random,
     cl_cluster_node_put
<1>2. UNCHANGED <<node_v, ptab, npart_known, running, found_all, hosts, pc, lv>>
  BY <1>1 DEF tendVars
<1>3. \E v \in {"idle", "random"} \cup Obj :
        /\ tx' = [tx EXCEPT ![x] = v]
        /\ \A b \in Obj : rc'[b] = rc[b] - (IF tx[x] = b THEN 1 ELSE 0)
                                         + (IF v = b THEN 1 ELSE 0)
        /\ rc' = [o \in Obj |-> rc'[o]]
  <2>1. ASSUME NEW p \in Part, NEW write \in BOOLEAN, cl_partition_table_get(x, p, write)
        PROVE  \/ tx' = [tx EXCEPT ![x] = "random"] /\ UNCHANGED rc /\ tx[x] = "idle"
               \/ \E o \in Obj : /\ tx' = [tx EXCEPT ![x] = o] /\ tx[x] = "idle"
                                 /\ rc' = [rc EXCEPT ![o] = @ + 1]
    <3>1. PICK o \in ReplicaOf(ptab[p], write) :
            IF o = NULL THEN tx' = [tx EXCEPT ![x] = "random"] /\ UNCHANGED rc
            ELSE tx' = [tx EXCEPT ![x] = o] /\ rc' = [rc EXCEPT ![o] = @ + 1]
      BY <2>1 DEF cl_partition_table_get, cl_cluster_node_reserve
    <3>2. o \in Obj \cup {NULL}
      BY <1>0, <3>1 DEF ReplicaOf, Slot
    <3>3. tx[x] = "idle"
      BY <2>1 DEF cl_partition_table_get
    <3> QED BY <3>1, <3>2, <3>3
  <2>2. ASSUME cl_cluster_node_get_random(x)
        PROVE  \/ tx' = [tx EXCEPT ![x] = "idle"] /\ UNCHANGED rc /\ tx[x] = "random"
               \/ \E o \in Obj : /\ tx' = [tx EXCEPT ![x] = o] /\ tx[x] = "random"
                                 /\ rc' = [rc EXCEPT ![o] = @ + 1]
    BY <1>0, <2>2 DEF cl_cluster_node_get_random, cl_cluster_node_reserve
  <2>3. ASSUME cl_cluster_node_put(x)
        PROVE  /\ tx' = [tx EXCEPT ![x] = "idle"] /\ tx[x] \in Obj
               /\ rc' = [rc EXCEPT ![tx[x]] = @ - 1]
    BY <2>3 DEF cl_cluster_node_put, cl_cluster_node_release
  <2>4. ASSUME NEW v \in {"idle", "random"}, tx' = [tx EXCEPT ![x] = v], UNCHANGED rc,
               tx[x] \in {"idle", "random"}
        PROVE  \A b \in Obj : rc'[b] = rc[b] - (IF tx[x] = b THEN 1 ELSE 0)
                                             + (IF v = b THEN 1 ELSE 0)
    BY <1>0, <2>4, ObjAssumption
  <2>5. ASSUME NEW o \in Obj, rc' = [rc EXCEPT ![o] = @ + 1], tx[x] \in {"idle", "random"}
        PROVE  \A b \in Obj : rc'[b] = rc[b] - (IF tx[x] = b THEN 1 ELSE 0)
                                             + (IF o = b THEN 1 ELSE 0)
    BY <1>0, <2>5, ObjAssumption
  <2>6. ASSUME tx[x] \in Obj, rc' = [rc EXCEPT ![tx[x]] = @ - 1]
        PROVE  \A b \in Obj : rc'[b] = rc[b] - (IF tx[x] = b THEN 1 ELSE 0)
                                             + (IF "idle" = b THEN 1 ELSE 0)
    BY <1>0, <2>6, ObjAssumption
  <2>7. rc' = [o \in Obj |-> rc'[o]]
    <3>1. rc = [o \in Obj |-> rc[o]]
      BY <1>0
    <3>2. \/ UNCHANGED rc
          \/ \E o \in Obj : rc' = [rc EXCEPT ![o] = @ + 1]
          \/ \E o \in Obj : rc' = [rc EXCEPT ![o] = @ - 1]
      BY <2>1, <2>2, <2>3, Zenon DEF Transaction
    <3> QED BY <3>1, <3>2
  <2>8. CASE \E p \in Part, write \in BOOLEAN : cl_partition_table_get(x, p, write)
    BY <2>1, <2>4, <2>5, <2>7, <2>8
  <2>9. CASE cl_cluster_node_get_random(x)
    BY <2>2, <2>4, <2>5, <2>7, <2>9
  <2>10. CASE cl_cluster_node_put(x)
    BY <2>3, <2>6, <2>7, <2>10
  <2> QED BY <2>8, <2>9, <2>10 DEF Transaction
<1>4. PICK v \in {"idle", "random"} \cup Obj :
        /\ tx' = [tx EXCEPT ![x] = v]
        /\ \A b \in Obj : rc'[b] = rc[b] - (IF tx[x] = b THEN 1 ELSE 0)
                                         + (IF v = b THEN 1 ELSE 0)
        /\ rc' = [o \in Obj |-> rc'[o]]
  BY <1>3
<1>5. ThreadTypes'
  BY <1>0, <1>2, <1>4 DEF TypeOK, ThreadTypes
<1>6. OneTender'
  BY <1>0, <1>2 DEF OneTender
<1>7. Core'
  <2>1. UNCHANGED <<node_v, ptab, pc, lv>>
    BY <1>2
  <2>2. tx' = [tx EXCEPT ![x] = v]
    BY <1>4
  <2>3. \A b \in Obj : rc'[b] = rc[b] - (IF tx[x] = b THEN 1 ELSE 0)
                                       + (IF v = b THEN 1 ELSE 0)
    BY <1>4
  <2> QED BY <2>1, <2>2, <2>3, TransactionCore
<1>8. Catalog' /\ ClientTypes'
  <2>1. CASE cl_cluster_node_put(x)
    BY <2>1, PutCatalog
  <2>2. CASE UNCHANGED node
    <3>1. ClientTypes'
      BY <1>0, <1>2, <2>2 DEF TypeOK, ClientTypes
    <3>2. Distinct' /\ Nodes' = Nodes
      BY <1>2 DEF IInv, ListOK, Distinct, Nodes
    <3>3. \A o \in Nodes : node[o].absent <= MAX_INTERVALS_ABSENT + 1
      BY DEF IInv, BoundsOK
    <3> QED BY <1>1, <1>2, <2>2, <3>1, <3>2, <3>3, KeptNodes DEF serverVars
  <2> QED BY <2>1, <2>2 DEF Transaction, cl_partition_table_get, cl_cluster_node_get_random
<1> QED BY <1>4, <1>5, <1>6, <1>7, <1>8, CountedStep

\* The servers may do anything.
LEMMA ServerKeeps ==
  ASSUME IInv, ServerStep, ServerTypes'
  PROVE  IInv'
<1>1. UNCHANGED <<rc, node, node_v, ptab, npart_known, running, found_all, hosts, pc, lv, tx>>
  BY DEF ServerStep, tendVars
<1>2. Nodes' = Nodes
  BY <1>1 DEF Nodes
<1>3. TypeOK'
  BY <1>1 DEF IInv, TypeOK, ThreadTypes, ClientTypes
<1>4. OneTender' /\ ListOK' /\ MapNodesListed'
  BY <1>1, <1>2 DEF IInv, OneTender, ListOK, Distinct, MapNodesListed, Current, Carrying
<1>5. RefCountExact'
  <2>1. ASSUME NEW o \in Obj PROVE Refs(o)' = Refs(o)
    BY <1>1, <1>2 DEF Refs, Carriers, Carrying, MasterSlots, ProleSlots, Users
  <2> QED BY <1>1, <2>1 DEF IInv, RefCountExact
<1>6. FreshOK' /\ DiscoveryUnique'
  BY <1>1, <1>2 DEF IInv, FreshOK, DiscoveryUnique, ByName, ByAddr
<1>7. BoundsOK'
  <2>1. changes \in Nat /\ changes' = changes + 1 /\ gen \in [Name -> 0 .. MaxChanges]
        /\ (\A n \in Name : gen[n] <= changes)
    BY DEF IInv, TypeOK, ServerTypes, BoundsOK, ServerStep
  <2>2. \A n \in Name : gen'[n] <= changes'
    BY <2>1, ChangesAssumption DEF ServerStep
  <2> QED BY <1>1, <1>2, <2>2 DEF IInv, BoundsOK
<1> QED BY <1>3, <1>4, <1>5, <1>6, <1>7 DEF IInv

\* Nothing happens.
LEMMA StutterKeeps ==
  ASSUME IInv, UNCHANGED vars
  PROVE  IInv'
<1>1. UNCHANGED <<rc, node, node_v, ptab, npart_known, running, found_all, hosts, pc, lv, tx>>
      /\ UNCHANGED <<host, up, gen, own, changes>>
  BY DEF vars, tendVars, serverVars
<1>2. Nodes' = Nodes
  BY <1>1 DEF Nodes
<1>3. TypeOK'
  BY <1>1 DEF IInv, TypeOK, ThreadTypes, ClientTypes, ServerTypes
<1>4. OneTender' /\ ListOK' /\ MapNodesListed'
  BY <1>1, <1>2 DEF IInv, OneTender, ListOK, Distinct, MapNodesListed, Current, Carrying
<1>5. RefCountExact'
  <2>1. ASSUME NEW o \in Obj PROVE Refs(o)' = Refs(o)
    BY <1>1, <1>2 DEF Refs, Carriers, Carrying, MasterSlots, ProleSlots, Users
  <2> QED BY <1>1, <2>1 DEF IInv, RefCountExact
<1>6. FreshOK' /\ DiscoveryUnique' /\ BoundsOK'
  BY <1>1, <1>2 DEF IInv, FreshOK, DiscoveryUnique, BoundsOK, ByName, ByAddr
<1> QED BY <1>3, <1>4, <1>5, <1>6 DEF IInv

\* At the start nothing is known and nothing is held.
LEMMA IInvInit ==
  ASSUME Init
  PROVE  IInv
<1>1. Nodes = {}
  BY DEF Init, Nodes, ToSet
<1>2. \A t \in Tender : pc[t] = "idle" /\ lv[t] = Idle
  BY DEF Init
<1>3. ThreadTypes
  BY BlankType DEF Init, ThreadTypes, Pcs
<1>4. ClientTypes
  <2>1. node \in [Obj -> NodeRecord]
    BY BlankType DEF Init
  <2>2. ptab \in [Part -> [master : Obj \cup {NULL}, prole : Obj \cup {NULL}]]
    BY DEF Init
  <2>3. node_v \in Seq(Obj) /\ hosts \subseteq Addr
    BY AddrAssumption DEF Init
  <2>4. npart_known \in BOOLEAN /\ running \in BOOLEAN /\ found_all \in BOOLEAN
    BY DEF Init
  <2> QED BY <2>1, <2>2, <2>3, <2>4 DEF ClientTypes
<1>5. ServerTypes
  BY ChangesAssumption DEF Init, ServerTypes
<1>6. OneTender /\ FreshOK /\ BoundsOK
  BY <1>1, <1>2 DEF OneTender, FreshOK, BoundsOK, Tending, Init
<1>7. ListOK /\ DiscoveryUnique
  BY <1>1, <1>2 DEF Init, ListOK, Distinct, DiscoveryUnique, Current, Carrying
<1>8. MapNodesListed
  BY DEF Init, MapNodesListed
<1>9. RefCountExact
  <2>1. ASSUME NEW o \in Obj PROVE Refs(o) = 0
    <3>1. Carriers(o) = {}
      BY <1>2, ObjAssumption DEF Carriers, Carrying
    <3>2. MasterSlots(o) = {} /\ ProleSlots(o) = {}
      BY ObjAssumption DEF Init, MasterSlots, ProleSlots
    <3>3. Users(o) = {}
      BY ObjAssumption DEF Init, Users
    <3> QED BY <1>1, <3>1, <3>2, <3>3, FS_EmptySet DEF Refs
  <2> QED BY <2>1 DEF Init, RefCountExact
<1>10. rc \in [Obj -> Nat]
  BY DEF Init
<1> QED BY <1>3, <1>4, <1>5, <1>6, <1>7, <1>8, <1>9, <1>10 DEF IInv, TypeOK

\* One step per component.
LEMMA IInvNext ==
  ASSUME IInv, [Next]_vars
  PROVE  IInv'
<1>1. ServerTypes'
  BY ServerTypesNext
<1>2. ASSUME NEW t \in Tender, Tend(t) PROVE IInv'
  BY <1>1, <1>2, DiscoveryKeeps, NodeLoopKeeps, LapKeeps, Zenon DEF Tend
<1>3. ASSUME NEW u \in User, AddHost(u) PROVE IInv'
  BY <1>1, <1>3, AddHostKeeps
<1>4. ASSUME NEW x \in Tx, Transaction(x) PROVE IInv'
  BY <1>1, <1>4, TransactionKeeps
<1>5. CASE ServerStep
  BY <1>1, <1>5, ServerKeeps
<1>6. CASE UNCHANGED vars
  BY <1>6, StutterKeeps
<1> QED BY <1>2, <1>3, <1>4, <1>5, <1>6 DEF Next

-----------------------------------------------------------------------------
(* What the partition table records, while addresses keep their servers    *)

\* A node that is listed, or on its way into the list, has a server's name.
NamedOK ==
    /\ \A o \in Nodes : node[o].name \in Name
    /\ \A t \in Tender :
        pc[t] \in {"seed_add", "svc_add"} => node[lv[t].cn].name \in Name

\* The server that answers at an address of a node is the node's.
HomeOK == \A o \in Obj : \A a \in node[o].addrs : host[a] = node[o].name

\* A node's generation is not ahead of its server's.
GenOK == \A o \in Obj : node[o].name \in Name => node[o].gen <= gen[node[o].name]

\* Without the number of partitions no claim is copied into the table.
KnownOK ==
    /\ ~npart_known => \A p \in Part : ptab[p].master = NULL
    /\ \A t \in Tender : pc[t] = "update" => npart_known

\* The claim being copied is the server's, if its generation is; and the part of
\* it that has been copied is in the table.
Copying(t) ==
    LET o == lv[t].cn
        n == node[o].name
    IN /\ node[o].gen = gen[n] => lv[t].claim = own[n]
       /\ \A p \in Part \ lv[t].pend : lv[t].claim[p] = "master" => ptab[p].master = o

CopyOK == \A t \in Tender : pc[t] = "update" => Copying(t)

Record == NamedOK /\ HomeOK /\ GenOK /\ KnownOK /\ CopyOK /\ ClaimsRecorded

\* What a step leaves of a node: its name, addresses and generation.
SameNode(o) ==
    /\ node'[o].name = node[o].name /\ node'[o].addrs = node[o].addrs
    /\ node'[o].gen = node[o].gen

\* A step that records nothing: nodes keep their names, addresses and
\* generations unless they are destroyed, slots keep their masters, and nobody
\* begins or ends to copy a claim or to add a node.
RecordsNothing ==
    /\ Nodes' \subseteq Nodes /\ UNCHANGED <<host, gen, own>>
    /\ \A o \in Obj : SameNode(o) \/ (o \notin Nodes /\ node'[o] = Blank)
    /\ \A p \in Part : ptab'[p].master = ptab[p].master
    /\ npart_known => npart_known'
    /\ \A s \in Tender : (pc'[s] = "update" \/ pc[s] = "update") =>
            pc'[s] = pc[s] /\ lv'[s] = lv[s]
    /\ \A s \in Tender : pc'[s] \in {"seed_add", "svc_add"} =>
            pc'[s] = pc[s] /\ lv'[s] = lv[s] /\ SameNode(lv[s].cn)

\* The thread that copies a claim has a node of the list.
LEMMA UpdatingListed ==
  ASSUME IInv, NEW t \in Tender, pc[t] = "update"
  PROVE  /\ lv[t].cn \in Nodes /\ lv[t].cn \in Obj /\ lv[t].cn # NULL
         /\ lv[t].claim \in [Part -> Role]
<1>1. lv[t].cn \in Obj /\ lv[t].claim \in [Part -> Role]
  BY DEF IInv, TypeOK, ThreadTypes
<1>2. lv[t].cn \in Nodes \cup {NULL}
  BY DEF IInv, ListOK, Current
<1> QED BY <1>1, <1>2, ObjAssumption

\* Such a step keeps the record.
LEMMA NothingRecorded ==
  ASSUME IInv, Record, RecordsNothing
  PROVE  Record'
<1>0. Nodes \subseteq Obj /\ Nodes' \subseteq Nodes
  BY Listed DEF IInv, RecordsNothing
<1>1. \A o \in Nodes : SameNode(o)
  BY <1>0 DEF RecordsNothing
<1>2. NamedOK'
  <2>1. \A o \in Nodes' : node'[o].name \in Name
    BY <1>0, <1>1 DEF Record, NamedOK, SameNode
  <2>2. ASSUME NEW s \in Tender, pc'[s] \in {"seed_add", "svc_add"}
        PROVE  node'[lv'[s].cn].name \in Name
    BY <2>2 DEF Record, NamedOK, SameNode, RecordsNothing
  <2> QED BY <2>1, <2>2 DEF NamedOK
<1>3. HomeOK'
  BY DEF Record, HomeOK, SameNode, RecordsNothing, Blank
<1>4. GenOK'
  <2> SUFFICES ASSUME NEW o \in Obj, node'[o].name \in Name
               PROVE  node'[o].gen <= gen[node'[o].name]
    BY DEF GenOK, RecordsNothing
  <2>1. CASE SameNode(o)
    BY <2>1 DEF SameNode, Record, GenOK
  <2>2. CASE node'[o] = Blank
    <3>1. node'[o].gen = -1 /\ gen[node'[o].name] \in Nat
      BY <2>2 DEF Blank, IInv, TypeOK, ServerTypes
    <3> QED BY <3>1
  <2> QED BY <2>1, <2>2 DEF RecordsNothing
<1>5. KnownOK'
  BY DEF Record, KnownOK, RecordsNothing
<1>6. CopyOK'
  <2> SUFFICES ASSUME NEW t \in Tender, pc'[t] = "update" PROVE Copying(t)'
    BY DEF CopyOK
  <2>1. pc[t] = "update" /\ lv'[t] = lv[t] /\ Copying(t)
    BY DEF RecordsNothing, Record, CopyOK
  <2>2. SameNode(lv[t].cn)
    BY <1>1, <2>1, UpdatingListed
  <2> QED BY <2>1, <2>2 DEF Copying, SameNode, RecordsNothing
<1>7. ClaimsRecorded'
  <2> SUFFICES ASSUME NEW o \in Nodes', NEW p \in Part,
                      node'[o].gen = gen'[node'[o].name],
                      own'[node'[o].name][p] = "master", Present(o)',
                      ~ \E t \in Tender : pc'[t] = "update" /\ lv'[t].cn = o
               PROVE  ptab'[p].master = o
    BY DEF ClaimsRecorded
  <2>1. SameNode(o) /\ o \in Nodes
    BY <1>0, <1>1
  <2>2. Present(o)
    BY DEF Present, RecordsNothing
  <2>3. ~ \E t \in Tender : pc[t] = "update" /\ lv[t].cn = o
    BY DEF RecordsNothing
  <2>4. node[o].gen = gen[node[o].name] /\ own[node[o].name][p] = "master"
    BY <2>1 DEF SameNode, RecordsNothing
  <2>5. ptab[p].master = o
    BY <2>1, <2>2, <2>3, <2>4 DEF Record, ClaimsRecorded
  <2> QED BY <2>5 DEF RecordsNothing
<1> QED BY <1>2, <1>3, <1>4, <1>5, <1>6, <1>7 DEF Record

\* A step of a thread that leaves nodes, list and table alone.
LEMMA QuietRecord ==
  ASSUME IInv, Record, NEW t \in Tender, NEW l, NEW c, Moves(t, l, c),
         UNCHANGED <<node, node_v, ptab>>, UNCHANGED serverVars,
         npart_known => npart_known',
         pc[t] # "update", l \notin {"update", "seed_add", "svc_add"}
  PROVE  Record'
<1>1. Nodes' = Nodes
  BY DEF Nodes
<1>2. UNCHANGED <<host, gen, own>>
  BY DEF serverVars
<1>3. \A o : SameNode(o)
  BY DEF SameNode
<1>4. \A s \in Tender : (pc'[s] = "update" \/ pc[s] = "update") =>
            pc'[s] = pc[s] /\ lv'[s] = lv[s]
  BY DEF Moves
<1>5. \A s \in Tender : pc'[s] \in {"seed_add", "svc_add"} =>
            pc'[s] = pc[s] /\ lv'[s] = lv[s]
  BY DEF Moves
<1>6. RecordsNothing
  BY <1>1, <1>2, <1>3, <1>4, <1>5 DEF RecordsNothing
<1> QED BY <1>6, NothingRecorded

\* Storing into a node: what becomes of its generation.
LEMMA StoreGen ==
  ASSUME NEW r \in NodeRecord
  PROVE  /\ \A v : [r EXCEPT !.addrs = v].gen = r.gen
         /\ \A v : [r EXCEPT !.absent = v].gen = r.gen
         /\ \A v : [r EXCEPT !.gen = v].gen = v
  BY DEF NodeRecord

\* While one thread tends and neither copies a claim nor adds a node, nobody does.
LEMMA NobodyElse ==
  ASSUME OneTender, NEW t \in Tender, pc[t] \in Tending \ {"update"}, NEW l, NEW c,
         Moves(t, l, c), l \notin {"update", "seed_add", "svc_add"}
  PROVE  \A s \in Tender : /\ pc[s] # "update"
                           /\ pc'[s] \notin {"update", "seed_add", "svc_add"}
  BY DEF OneTender, Tending, Moves

\* The same for a step of the tending thread that changes a node in no way that
\* the record tells.
LEMMA TenderRecord ==
  ASSUME IInv, Record, NEW t \in Tender, pc[t] \in Tending \ {"update"}, NEW l, NEW c,
         Moves(t, l, c), l \notin {"update", "seed_add", "svc_add"},
         Nodes' \subseteq Nodes, UNCHANGED serverVars, UNCHANGED npart_known,
         \A p \in Part : ptab'[p].master = ptab[p].master,
         \A o \in Obj : SameNode(o) \/ (o \notin Nodes /\ node'[o] = Blank)
  PROVE  Record'
<1>1. \A s \in Tender : /\ pc[s] # "update"
                        /\ pc'[s] \notin {"update", "seed_add", "svc_add"}
  BY NobodyElse DEF IInv
<1>2. UNCHANGED <<host, gen, own>>
  BY DEF serverVars
<1>3. RecordsNothing
  BY <1>1, <1>2 DEF RecordsNothing
<1> QED BY <1>3, NothingRecorded

\* AddAddress: the server that answers is the one the node is named for.
LEMMA AddAddressRecord ==
  ASSUME IInv, Record, NEW t \in Tender, NEW a \in Addr, AddAddress(t, a)
  PROVE  Record'
<1>0. /\ TypeOK /\ OneTender /\ pc[t] \in Tending \ {"update"} /\ pc[t] \in {"seed", "svc"}
      /\ UNCHANGED <<node_v, ptab, npart_known, host, gen, own>>
  BY DEF IInv, AddAddress, Tending, serverVars
<1>1. PICK o \in ByName(host[a]) :
        node' = [node EXCEPT ![o] = [node[o] EXCEPT !.addrs = node[o].addrs \cup {a}]]
  BY Zenon DEF AddAddress
<1>2. /\ o \in Nodes /\ o \in Obj /\ node \in [Obj -> NodeRecord] /\ node[o] \in NodeRecord
      /\ node[o].name = host[a]
  BY <1>0, <1>1, Listed DEF ByName, TypeOK, ClientTypes
<1> DEFINE r == [node[o] EXCEPT !.addrs = node[o].addrs \cup {a}]
<1>3. /\ r.name = node[o].name /\ r.addrs = node[o].addrs \cup {a}
      /\ r.gen = node[o].gen
  <2>1. node[o].addrs \cup {a} \in SUBSET Addr
    BY <1>2 DEF NodeRecord
  <2> QED BY <1>2, <2>1, StoreNode, StoreGen, Zenon
<1>4. node' = [node EXCEPT ![o] = r]
  BY <1>1
<1> HIDE DEF r
<1>5. \A q \in Obj : node'[q] = IF q = o THEN r ELSE node[q]
  BY <1>2, <1>4
<1>6. Nodes' = Nodes /\ Nodes \subseteq Obj
  BY <1>0, Listed DEF Nodes
<1>7. \A q \in Obj : node'[q].name = node[q].name /\ node'[q].gen = node[q].gen
  BY <1>3, <1>5
<1>8. \A s \in Tender : /\ pc[s] # "update"
                        /\ pc'[s] \notin {"update", "seed_add", "svc_add"}
  BY <1>0, AddAddressMoves, NobodyElse
<1>9. NamedOK'
  BY <1>6, <1>7, <1>8 DEF Record, NamedOK
<1>10. HomeOK'
  BY <1>0, <1>2, <1>3, <1>5 DEF Record, HomeOK
<1>11. GenOK'
  BY <1>0, <1>7 DEF Record, GenOK
<1>12. KnownOK' /\ CopyOK'
  BY <1>0, <1>8 DEF Record, KnownOK, CopyOK
<1>13. ClaimsRecorded'
  <2> SUFFICES ASSUME NEW q \in Nodes, NEW p \in Part,
                      node[q].gen = gen[node[q].name],
                      own[node[q].name][p] = "master", Present(q)'
               PROVE  ptab[p].master = q
    BY <1>0, <1>6, <1>7 DEF ClaimsRecorded
  <2>1. Present(q)
    BY <1>0 DEF Present
  <2> QED BY <1>8, <2>1 DEF Record, ClaimsRecorded
<1> QED BY <1>9, <1>10, <1>11, <1>12, <1>13 DEF Record

\* CreateNode: the new node has its server's name and no generation yet.
LEMMA CreateNodeRecord ==
  ASSUME IInv, Record, NEW t \in Tender, NEW a \in Addr, CreateNode(t, a)
  PROVE  Record'
<1>0. /\ TypeOK /\ OneTender /\ pc[t] \in Tending \ {"update"} /\ RefCountExact
      /\ UNCHANGED <<node_v, ptab, npart_known, host, gen, own>>
  BY DEF IInv, CreateNode, Tending, serverVars
<1> DEFINE r == [Blank EXCEPT !.name = host[a], !.addrs = {a}]
           l == IF pc[t] = "seed" THEN "seed_add" ELSE "svc_add"
<1>1. PICK o \in Free : node' = [node EXCEPT ![o] = r] /\ Moves(t, l, o)
  BY <1>0, CreateNodeMoves
<1>2. o \in Obj /\ o \notin Nodes /\ node \in [Obj -> NodeRecord]
  BY <1>0, FreeUnheld DEF TypeOK, ClientTypes
<1>3. r.name = host[a] /\ r.addrs = {a} /\ r.gen = -1 /\ host[a] \in Name
  BY <1>0 DEF Blank, TypeOK, ServerTypes
<1> HIDE DEF r
<1>4. \A q \in Obj : node'[q] = IF q = o THEN r ELSE node[q]
  BY <1>1, <1>2
<1>5. Nodes' = Nodes /\ Nodes \subseteq Obj /\ \A q \in Nodes : node'[q] = node[q]
  <2>1. Nodes' = Nodes /\ Nodes \subseteq Obj
    BY <1>0, Listed DEF Nodes
  <2> QED BY <1>2, <1>4, <2>1
<1>6. \A s \in Tender : pc[s] # "update" /\ pc'[s] # "update"
  BY <1>0, <1>1 DEF OneTender, Tending, Moves
<1>7. NamedOK'
  <2>1. ASSUME NEW s \in Tender, pc'[s] \in {"seed_add", "svc_add"} PROVE s = t
    BY <1>0, <1>1, <2>1 DEF OneTender, Tending, Moves
  <2>2. lv'[t].cn = o
    BY <1>1 DEF Moves
  <2>3. node'[o].name \in Name
    BY <1>2, <1>3, <1>4
  <2> QED BY <1>5, <2>1, <2>2, <2>3 DEF Record, NamedOK
<1>8. HomeOK'
  BY <1>0, <1>3, <1>4 DEF Record, HomeOK
<1>9. GenOK'
  <2>1. gen[host[a]] \in Nat
    BY <1>0, <1>3 DEF TypeOK, ServerTypes
  <2>2. node'[o].gen <= gen[node'[o].name]
    BY <1>2, <1>3, <1>4, <2>1
  <2> QED BY <1>0, <1>4, <2>2 DEF Record, GenOK
<1>10. KnownOK' /\ CopyOK'
  BY <1>0, <1>6 DEF Record, KnownOK, CopyOK
<1>11. ClaimsRecorded'
  <2> SUFFICES ASSUME NEW q \in Nodes, NEW p \in Part,
                      node[q].gen = gen[node[q].name],
                      own[node[q].name][p] = "master", Present(q)'
               PROVE  ptab[p].master = q
    BY <1>0, <1>5 DEF ClaimsRecorded
  <2>1. Present(q)
    BY <1>0 DEF Present
  <2> QED BY <1>6, <2>1 DEF Record, ClaimsRecorded
<1> QED BY <1>7, <1>8, <1>9, <1>10, <1>11 DEF Record

\* AppendNode: a node that was not listed is in no slot.
LEMMA AppendNodeRecord ==
  ASSUME IInv, Record, NEW t \in Tender, AppendNode(t)
  PROVE  Record'
<1> DEFINE c == lv[t].cn
<1>0. /\ TypeOK /\ OneTender /\ pc[t] \in Tending \ {"update"}
      /\ pc[t] \in {"seed_add", "svc_add"}
      /\ UNCHANGED <<node, ptab, npart_known, host, gen, own>>
  BY DEF IInv, AppendNode, Tending, serverVars
<1>1. Nodes' = Nodes \cup {c}
  BY AppendNodeCore
<1>2. c \in Obj /\ c \notin Nodes /\ c # NULL
  BY <1>0, ObjAssumption DEF IInv, TypeOK, ThreadTypes, Carrying, ListOK
<1>3. node[c].name \in Name
  BY <1>0 DEF Record, NamedOK
<1> HIDE DEF c
<1>4. \A s \in Tender : /\ pc[s] # "update"
                        /\ pc'[s] \notin {"update", "seed_add", "svc_add"}
  BY <1>0, AppendNodeMoves, NobodyElse
<1>5. NamedOK'
  BY <1>0, <1>1, <1>3, <1>4 DEF Record, NamedOK
<1>6. HomeOK' /\ GenOK' /\ KnownOK' /\ CopyOK'
  BY <1>0, <1>4 DEF Record, HomeOK, GenOK, KnownOK, CopyOK
<1>7. ClaimsRecorded'
  <2> SUFFICES ASSUME NEW q \in Nodes \cup {c}, NEW p \in Part,
                      node[q].gen = gen[node[q].name],
                      own[node[q].name][p] = "master", Present(q)'
               PROVE  ptab[p].master = q
    BY <1>0, <1>1 DEF ClaimsRecorded
  <2>1. Present(q)
    BY <1>0 DEF Present
  <2>2. q # c
    BY <1>2, <2>1 DEF Present, IInv, MapNodesListed
  <2> QED BY <1>4, <2>1, <2>2 DEF Record, ClaimsRecorded
<1> QED BY <1>5, <1>6, <1>7 DEF Record

\* The node loop up to the ping: laps of absence, proles and the list change.
LEMMA NodeLoopRecord ==
  ASSUME IInv, Record, NEW t \in Tender, KeepNode(t) \/ AbsentNode(t) \/ DropNode(t)
  PROVE  Record'
<1>0. /\ TypeOK /\ OneTender /\ node \in [Obj -> NodeRecord] /\ Nodes \subseteq Obj
  BY Listed DEF IInv, TypeOK, ClientTypes
<1>1. ASSUME NEW c \in Nodes, NEW v, node' = [node EXCEPT ![c] = [node[c] EXCEPT !.absent = v]]
      PROVE  \A o \in Obj : SameNode(o)
  <2> DEFINE r == [node[c] EXCEPT !.absent = v]
  <2>1. r.name = node[c].name /\ r.addrs = node[c].addrs /\ r.gen = node[c].gen
    BY <1>0 DEF NodeRecord
  <2>2. node' = [node EXCEPT ![c] = r]
    BY <1>1
  <2> HIDE DEF r
  <2> QED BY <1>0, <2>1, <2>2 DEF SameNode
<1>2. CASE KeepNode(t)
  <2>1. /\ pc[t] \in Tending \ {"update"} /\ UNCHANGED <<node_v, ptab, npart_known>>
        /\ UNCHANGED serverVars
    BY <1>2 DEF KeepNode, Tending
  <2>2. Nodes' = Nodes
    BY <2>1 DEF Nodes
  <2>3. \E c \in Nodes : node' = [node EXCEPT ![c] = [node[c] EXCEPT !.absent = 1]]
    <3>1. node_v[lv[t].i] \in Nodes
      BY <1>0, <1>2, Listed DEF KeepNode
    <3> QED BY <1>2, <3>1, Zenon DEF KeepNode
  <2>4. \A o \in Obj : SameNode(o)
    BY <1>1, <2>3
  <2>5. Moves(t, "ping", node_v[lv[t].i])
    BY <1>0, <1>2, KeepNodeMoves
  <2> QED BY <2>1, <2>2, <2>4, <2>5, TenderRecord
<1>3. CASE AbsentNode(t)
  <2>1. /\ pc[t] \in Tending \ {"update"} /\ UNCHANGED npart_known /\ UNCHANGED serverVars
        /\ ptab' = ProlesCleared(node_v[lv[t].i]) /\ lv[t].i <= Len(node_v)
    BY <1>3 DEF AbsentNode, Tending
  <2>2. Nodes' \subseteq Nodes
    BY <1>3, AbsentNodeCore
  <2>3. node_v[lv[t].i] \in Nodes
    BY <1>0, <2>1, Listed
  <2>4. \E c \in Nodes : \E v :
            node' = [node EXCEPT ![c] = [node[c] EXCEPT !.absent = v]]
    BY <1>3, <2>3, Zenon DEF AbsentNode
  <2>5. \A o \in Obj : SameNode(o)
    BY <1>1, <2>4
  <2>6. \A p \in Part : ptab'[p].master = ptab[p].master
    BY <1>0, <2>1, <2>3, ClearedSlots
  <2>7. \E l \in {"drop", "ping"} : Moves(t, l, node_v[lv[t].i])
    BY <1>0, <1>3, AbsentNodeMoves
  <2> QED BY <2>1, <2>2, <2>5, <2>6, <2>7, TenderRecord
<1>4. CASE DropNode(t)
  <2> DEFINE c == lv[t].cn
  <2>1. /\ pc[t] \in Tending \ {"update"} /\ pc[t] = "drop"
        /\ UNCHANGED <<node_v, ptab, npart_known>> /\ UNCHANGED serverVars
        /\ node' = IF rc[c] = 1 THEN [node EXCEPT ![c] = Blank] ELSE node
    BY <1>4 DEF DropNode, Tending, cl_cluster_node_release
  <2>2. Nodes' = Nodes
    BY <2>1 DEF Nodes
  <2>3. c \in Obj /\ c \notin Nodes
    BY <2>1 DEF IInv, TypeOK, ThreadTypes, ListOK, Carrying
  <2> HIDE DEF c
  <2>4. \A o \in Obj : SameNode(o) \/ (o \notin Nodes /\ node'[o] = Blank)
    BY <1>0, <2>1, <2>3 DEF SameNode
  <2>5. Moves(t, "node", NULL)
    BY <1>0, <1>4, DropNodeMoves
  <2> QED BY <2>1, <2>2, <2>4, <2>5, TenderRecord
<1> QED BY <1>2, <1>3, <1>4

\* FetchReplicas: only the node's own server answers at its addresses, so that the
\* generation stored and the claim to copy are that server's; and until claims
\* can be read, no node is in the map.
LEMMA FetchReplicasRecord ==
  ASSUME IInv, Record, NEW t \in Tender, FetchReplicas(t)
  PROVE  Record'
<1> DEFINE c == lv[t].cn
<1>0. /\ TypeOK /\ OneTender /\ pc[t] = "fetch" /\ pc[t] \in Tending \ {"update"}
      /\ UNCHANGED <<node_v, ptab, npart_known, host, gen, own>> /\ UNCHANGED serverVars
      /\ Nodes' = Nodes /\ Nodes \subseteq Obj
  BY Listed DEF IInv, FetchReplicas, Tending, serverVars, Nodes
<1>1. /\ c \in Obj /\ c # NULL /\ node \in [Obj -> NodeRecord] /\ node[c] \in NodeRecord
      /\ lv \in [Tender -> Locals] /\ c \in Nodes
  BY <1>0, ObjAssumption DEF IInv, TypeOK, ThreadTypes, ClientTypes, ListOK, Current
<1>2. CASE UNCHANGED node /\ NextNode(t, {})
  <2>1. Moves(t, "node", NULL)
    BY <1>0, <1>1, <1>2, NextNodeMoves DEF FetchReplicas
  <2> QED BY <1>0, <1>2, <2>1, QuietRecord
<1>3. ASSUME NEW n \in Name, Answers(c, n),
             node' = [node EXCEPT ![c] = [node[c] EXCEPT !.gen = gen[n]]],
             IF BitmapsParsed
             THEN /\ Assign(t, [lv[t] EXCEPT !.claim = own[n], !.pend = Part])
                  /\ Goto(t, "update")
             ELSE NextNode(t, {})
      PROVE  Record'
  <2> DEFINE r == [node[c] EXCEPT !.gen = gen[n]]
  <2>1. r.name = node[c].name /\ r.addrs = node[c].addrs /\ r.gen = gen[n]
    BY <1>1 DEF NodeRecord
  <2>2. node' = [node EXCEPT ![c] = r]
    BY <1>3
  <2> HIDE DEF r
  <2>3. \A o \in Obj : node'[o] = IF o = c THEN r ELSE node[o]
    BY <1>1, <2>2
  <2>4. node[c].name = n
    BY <1>1, <1>3 DEF Answers, Record, HomeOK
  <2>5. \E l \in {"node", "update"} : \E d : Moves(t, l, d)
    BY <1>0, FetchReplicasMoves
  <2>6. \A s \in Tender \ {t} : pc[s] \notin Tending /\ pc'[s] \notin Tending
    BY <1>0, <2>5 DEF OneTender, Moves
  <2>7. pc'[t] \notin {"seed_add", "svc_add"}
    BY <2>5 DEF Moves
  <2>8. pc'[t] = "update" => BitmapsParsed
    <3>1. ASSUME NextNode(t, {}) PROVE pc'[t] # "update"
      <4>1. pc \in [Tender -> Pcs]
        BY <1>0 DEF TypeOK, ThreadTypes
      <4> QED BY <3>1, <4>1 DEF NextNode, Goto
    <3> QED BY <1>3, <3>1
  <2>9. BitmapsParsed => pc'[t] = "update" /\ lv'[t].cn = c /\ lv'[t].claim = own[n]
                         /\ lv'[t].pend = Part
    <3> SUFFICES ASSUME BitmapsParsed
                 PROVE  pc'[t] = "update" /\ lv'[t].cn = c /\ lv'[t].claim = own[n]
                        /\ lv'[t].pend = Part
      OBVIOUS
    <3>1. lv' = [lv EXCEPT ![t] = [lv[t] EXCEPT !.claim = own[n], !.pend = Part]]
          /\ pc' = [pc EXCEPT ![t] = "update"]
      BY <1>3 DEF Assign, Goto
    <3> DEFINE q == [lv[t] EXCEPT !.claim = own[n], !.pend = Part]
    <3>2. q.cn = c /\ q.claim = own[n] /\ q.pend = Part
      BY <1>1 DEF Locals
    <3> HIDE DEF q
    <3>3. lv' = [lv EXCEPT ![t] = q]
      BY <3>1 DEF q
    <3>4. pc \in [Tender -> Pcs]
      BY <1>0 DEF TypeOK, ThreadTypes
    <3> HIDE DEF c
    <3> QED BY <1>1, <3>1, <3>2, <3>3, <3>4
  <2> HIDE DEF c
  <2>10. NamedOK'
    BY <1>0, <1>1, <2>1, <2>3, <2>6, <2>7 DEF Record, NamedOK, Tending
  <2>11. HomeOK'
    BY <1>0, <1>1, <2>1, <2>3 DEF Record, HomeOK
  <2>12. GenOK'
    <3>1. gen[n] \in Nat
      BY <1>0 DEF TypeOK, ServerTypes
    <3>2. node'[c].gen <= gen[node'[c].name]
      BY <1>1, <2>1, <2>3, <2>4, <3>1
    <3> QED BY <1>0, <2>3, <3>2 DEF Record, GenOK
  <2>13. KnownOK'
    BY <1>0, <2>6, <2>8 DEF Record, KnownOK, BitmapsParsed, Tending
  <2>14. CopyOK'
    <3> SUFFICES ASSUME NEW s \in Tender, pc'[s] = "update" PROVE Copying(s)'
      BY DEF CopyOK
    <3>1. s = t /\ BitmapsParsed
      BY <2>6, <2>8 DEF Tending
    <3>2. node'[c].name = n
      BY <1>1, <2>1, <2>3, <2>4
    <3> QED BY <1>0, <2>9, <3>1, <3>2 DEF Copying
  <2>15. ClaimsRecorded'
    <3> SUFFICES ASSUME NEW o \in Nodes, NEW p \in Part,
                        node'[o].gen = gen[node'[o].name],
                        own[node'[o].name][p] = "master", Present(o)',
                        ~ \E s \in Tender : pc'[s] = "update" /\ lv'[s].cn = o
                 PROVE  ptab[p].master = o
      BY <1>0 DEF ClaimsRecorded
    <3>1. Present(o)
      BY <1>0 DEF Present
    <3>2. o # c
      <4>1. BitmapsParsed => o # c
        BY <2>9
      <4>2. ~BitmapsParsed => o # c
        BY <1>1, <3>1 DEF Record, KnownOK, BitmapsParsed, Present
      <4> QED BY <4>1, <4>2
    <3>3. node'[o] = node[o]
      BY <1>0, <2>3, <3>2
    <3>4. ~ \E s \in Tender : pc[s] = "update" /\ lv[s].cn = o
      BY <1>0, <2>6 DEF Tending
    <3> QED BY <3>1, <3>3, <3>4 DEF Record, ClaimsRecorded
  <2> QED BY <2>10, <2>11, <2>12, <2>13, <2>14, <2>15 DEF Record
<1>4. \/ UNCHANGED node /\ NextNode(t, {})
      \/ \E n \in Name :
            /\ Answers(c, n)
            /\ node' = [node EXCEPT ![c] = [node[c] EXCEPT !.gen = gen[n]]]
            /\ IF BitmapsParsed
               THEN /\ Assign(t, [lv[t] EXCEPT !.claim = own[n], !.pend = Part])
                    /\ Goto(t, "update")
               ELSE NextNode(t, {})
  BY Zenon DEF FetchReplicas
<1> QED BY <1>2, <1>3, <1>4

\* What the update of a slot does to its master, and to the master it replaces.
LEMMA SlotMaster ==
  ASSUME NEW s \in Slot, NEW c \in Obj, NEW role \in Role
  PROVE  /\ role = "master" => SlotUpdate(s, c, role).master = c
         /\ \A o \in Obj \ {c} : SlotUpdate(s, c, role).master = o => s.master = o
         /\ \A o \in Obj \ {c} : s.master = o =>
                SlotUpdate(s, c, role).master = o \/ o \in Replaced(s, c, role)
         /\ c \notin Replaced(s, c, role)
<1> DEFINE left == [master |-> IF s.master = c THEN NULL ELSE s.master,
                    prole  |-> IF s.prole = c THEN NULL ELSE s.prole]
<1>1. left \in Slot /\ left.master = IF s.master = c THEN NULL ELSE s.master
  BY DEF Slot
<1>2. SlotUpdate(s, c, role) = CASE role = "master" -> [left EXCEPT !.master = c]
                                 [] role = "prole"  -> [left EXCEPT !.prole = c]
                                 [] role = "none"   -> left
  BY DEF SlotUpdate
<1> HIDE DEF left
<1>a. NULL \notin Obj
  BY ObjAssumption
<1>3. CASE role = "master"
  <2>1. SlotUpdate(s, c, role).master = c /\ Replaced(s, c, role) = {s.master} \ {c, NULL}
    BY <1>1, <1>2, <1>3 DEF Slot, Replaced
  <2> QED BY <1>a, <2>1
<1>4. CASE role = "prole"
  <2>1. SlotUpdate(s, c, role).master = left.master
        /\ Replaced(s, c, role) = {s.prole} \ {c, NULL}
    BY <1>1, <1>2, <1>4 DEF Slot, Replaced
  <2> QED BY <1>a, <1>1, <1>4, <2>1
<1>5. CASE role = "none"
  <2>1. SlotUpdate(s, c, role).master = left.master /\ Replaced(s, c, role) = {}
    BY <1>1, <1>2, <1>5 DEF Slot, Replaced
  <2> QED BY <1>a, <1>1, <1>5, <2>1
<1> QED BY <1>3, <1>4, <1>5 DEF Role

\* UpdatePartition: a node that loses a master slot loses its generation too, so
\* that its claim is fetched again.
LEMMA UpdatePartitionRecord ==
  ASSUME IInv, Record, NEW t \in Tender, NEW p \in Part, UpdatePartition(t, p)
  PROVE  Record'
<1> DEFINE c == lv[t].cn
           role == lv[t].claim[p]
           new == SlotUpdate(ptab[p], c, role)
           R == Replaced(ptab[p], c, role)
<1>0. /\ TypeOK /\ OneTender /\ pc[t] = "update" /\ pc[t] \in Tending
      /\ UNCHANGED <<node_v, npart_known, pc, host, gen, own>>
      /\ Nodes' = Nodes /\ Nodes \subseteq Obj
  BY Listed DEF IInv, UpdatePartition, Tending, serverVars, Nodes
<1>1. /\ c \in Obj /\ c \in Nodes /\ lv[t].claim \in [Part -> Role] /\ role \in Role
      /\ ptab \in [Part -> Slot] /\ ptab[p] \in Slot /\ lv \in [Tender -> Locals]
      /\ node \in [Obj -> NodeRecord]
  BY <1>0, UpdatingListed DEF TypeOK, ClientTypes, ThreadTypes, Slot
<1>2. /\ ptab' = [ptab EXCEPT ![p] = new]
      /\ node' = [o \in Obj |-> IF o \in R THEN [node[o] EXCEPT !.gen = -1] ELSE node[o]]
      /\ lv' = [lv EXCEPT ![t] = [lv[t] EXCEPT !.pend = lv[t].pend \ {p}]]
  BY Zenon DEF UpdatePartition, Assign
<1>3. /\ role = "master" => new.master = c
      /\ \A o \in Obj \ {c} : new.master = o => ptab[p].master = o
      /\ \A o \in Obj \ {c} : ptab[p].master = o => new.master = o \/ o \in R
      /\ c \notin R
  BY <1>1, SlotMaster
<1>4. /\ lv'[t].cn = c /\ lv'[t].claim = lv[t].claim /\ lv'[t].pend = lv[t].pend \ {p}
      /\ \A s \in Tender \ {t} : lv'[s] = lv[s] /\ pc[s] \notin Tending
  <2> DEFINE q == [lv[t] EXCEPT !.pend = lv[t].pend \ {p}]
  <2>1. q.cn = c /\ q.claim = lv[t].claim /\ q.pend = lv[t].pend \ {p}
    BY <1>1 DEF Locals
  <2>2. lv' = [lv EXCEPT ![t] = q]
    BY <1>2
  <2>3. \A s \in Tender \ {t} : pc[s] \notin Tending
    BY <1>0 DEF OneTender
  <2> HIDE DEF q, c
  <2> QED BY <1>1, <2>1, <2>2, <2>3
<1> HIDE DEF new, R
<1>5. ASSUME NEW o \in Obj
      PROVE  /\ node'[o].name = node[o].name /\ node'[o].addrs = node[o].addrs
             /\ node'[o].gen = IF o \in R THEN -1 ELSE node[o].gen
  <2> DEFINE r == [node[o] EXCEPT !.gen = -1]
  <2>1. r.name = node[o].name /\ r.addrs = node[o].addrs /\ r.gen = -1
    BY <1>1 DEF NodeRecord
  <2>2. node'[o] = IF o \in R THEN r ELSE node[o]
    BY <1>2
  <2> HIDE DEF r
  <2> QED BY <2>1, <2>2
<1>6. \A q \in Part : ptab'[q] = IF q = p THEN new ELSE ptab[q]
  BY <1>1, <1>2
<1> HIDE DEF c, role
<1>7. NamedOK'
  BY <1>0, <1>4, <1>5 DEF Record, NamedOK, Tending
<1>8. HomeOK'
  BY <1>0, <1>5 DEF Record, HomeOK
<1>9. GenOK'
  <2> SUFFICES ASSUME NEW o \in Obj, node[o].name \in Name
               PROVE  node'[o].gen <= gen[node[o].name]
    BY <1>0, <1>5 DEF GenOK
  <2>1. gen[node[o].name] \in Nat /\ node[o].gen <= gen[node[o].name]
    BY <1>0 DEF TypeOK, ServerTypes, Record, GenOK
  <2> QED BY <1>5, <2>1
<1>10. KnownOK'
  <2>1. npart_known
    BY <1>0 DEF Record, KnownOK
  <2> QED BY <1>0, <2>1 DEF KnownOK
<1>11. CopyOK'
  <2> SUFFICES ASSUME NEW s \in Tender, pc[s] = "update" PROVE Copying(s)'
    BY <1>0 DEF CopyOK
  <2>1. s = t
    BY <1>4 DEF Tending
  <2>2. /\ node[c].gen = gen[node[c].name] => lv[t].claim = own[node[c].name]
        /\ \A q \in Part \ lv[t].pend : lv[t].claim[q] = "master" => ptab[q].master = c
    BY <1>0 DEF Record, CopyOK, Copying, c
  <2>3. node'[c].gen = node[c].gen /\ node'[c].name = node[c].name
    BY <1>1, <1>3, <1>5
  <2>4. ASSUME NEW q \in Part \ (lv[t].pend \ {p}), lv[t].claim[q] = "master"
        PROVE  ptab'[q].master = c
    BY <1>3, <1>6, <2>2, <2>4 DEF role
  <2> QED BY <1>0, <1>4, <2>1, <2>2, <2>3, <2>4 DEF Copying
<1>12. ClaimsRecorded'
  <2> SUFFICES ASSUME NEW o \in Nodes, NEW q \in Part,
                      node'[o].gen = gen[node'[o].name],
                      own[node'[o].name][q] = "master", Present(o)',
                      ~ \E s \in Tender : pc[s] = "update" /\ lv'[s].cn = o
               PROVE  ptab'[q].master = o
    BY <1>0 DEF ClaimsRecorded
  <2>1. o \in Obj \ {c}
    BY <1>0, <1>4
  <2>2. o \notin R /\ node'[o].name = node[o].name /\ node'[o].gen = node[o].gen
    <3>1. gen[node[o].name] \in Nat
      BY <1>0 DEF TypeOK, ServerTypes, Record, NamedOK
    <3> QED BY <1>5, <2>1, <3>1
  <2>3. Present(o)
    BY <1>3, <1>6, <2>1 DEF Present
  <2>4. ~ \E s \in Tender : pc[s] = "update" /\ lv[s].cn = o
    BY <1>4, <2>1 DEF Tending, c
  <2>5. ptab[q].master = o
    BY <2>2, <2>3, <2>4 DEF Record, ClaimsRecorded
  <2> QED BY <1>3, <1>6, <2>1, <2>2, <2>5
<1> QED BY <1>7, <1>8, <1>9, <1>10, <1>11, <1>12 DEF Record

\* UpdateDone: the whole claim has been copied.
LEMMA UpdateDoneRecord ==
  ASSUME IInv, Record, NEW t \in Tender, UpdateDone(t)
  PROVE  Record'
<1> DEFINE c == lv[t].cn
<1>0. /\ TypeOK /\ OneTender /\ pc[t] = "update" /\ pc[t] \in Tending /\ lv[t].pend = {}
      /\ UNCHANGED <<node, node_v, ptab, npart_known, host, gen, own>>
      /\ Nodes' = Nodes
  BY DEF IInv, UpdateDone, Tending, serverVars, Nodes
<1>1. Moves(t, "node", NULL)
  BY <1>0, UpdateDoneMoves
<1>2. \A s \in Tender : /\ s # t => pc[s] # "update"
                        /\ pc'[s] \notin {"update", "seed_add", "svc_add"}
  BY <1>0, <1>1 DEF OneTender, Tending, Moves
<1>3. NamedOK' /\ HomeOK' /\ GenOK' /\ KnownOK' /\ CopyOK'
  BY <1>0, <1>2 DEF Record, NamedOK, HomeOK, GenOK, KnownOK, CopyOK
<1>4. ClaimsRecorded'
  <2> SUFFICES ASSUME NEW o \in Nodes, NEW p \in Part,
                      node[o].gen = gen[node[o].name],
                      own[node[o].name][p] = "master", Present(o)'
               PROVE  ptab[p].master = o
    BY <1>0 DEF ClaimsRecorded
  <2>1. Present(o)
    BY <1>0 DEF Present
  <2>2. CASE o = c
    BY <1>0, <2>2 DEF Record, CopyOK, Copying
  <2>3. CASE o # c
    BY <1>2, <2>1, <2>3 DEF Record, ClaimsRecorded
  <2> QED BY <2>2, <2>3
<1> QED BY <1>3, <1>4 DEF Record

\* The steps of a lap that only look, or move on.
LEMMA LapRecord ==
  ASSUME IInv, Record, NEW t \in Tender,
         \/ TendBegin(t) \/ cluster_get_n_partitions(t) \/ PingNode(t)
         \/ Explore(t) \/ MarkFound(t) \/ TendEnd(t)
         \/ \E a \in Addr : SkipAddress(t, a)
  PROVE  Record'
<1>0. TypeOK
  BY DEF IInv
<1> DEFINE places == {"loop", "seed", "node", "fetch", "svc", "end", "idle"}
<1>1. /\ UNCHANGED <<node, node_v, ptab>> /\ UNCHANGED serverVars
      /\ pc[t] # "update"
  BY DEF TendBegin, cluster_get_n_partitions, PingNode, Explore, MarkFound, TendEnd,
     SkipAddress
<1>a. npart_known => npart_known'
  BY DEF TendBegin, cluster_get_n_partitions, PingNode, Explore, MarkFound, TendEnd,
     SkipAddress
<1>2. \E l \in places : \E c : Moves(t, l, c)
  <2>1. CASE TendBegin(t)
    BY <1>0, <2>1, TendBeginMoves
  <2>2. CASE cluster_get_n_partitions(t)
    BY <1>0, <2>2, Cluster_get_n_partitionsMoves
  <2>3. CASE PingNode(t)
    BY <1>0, <2>3, PingNodeMoves
  <2>4. CASE Explore(t)
    BY <1>0, <2>4, ExploreMoves
  <2>5. CASE MarkFound(t)
    BY <1>0, <2>5, MarkFoundMoves
  <2>6. CASE TendEnd(t)
    BY <1>0, <2>6, TendEndMoves
  <2>7. ASSUME NEW a \in Addr, SkipAddress(t, a) PROVE \E l \in places : \E c : Moves(t, l, c)
    <3>1. pc[t] \in places
      BY <2>7 DEF SkipAddress
    <3> QED BY <1>0, <2>7, <3>1, SkipAddressMoves
  <2> QED BY <2>1, <2>2, <2>3, <2>4, <2>5, <2>6, <2>7
<1>3. PICK l \in places : \E c : Moves(t, l, c)
  BY <1>2
<1>4. PICK c : Moves(t, l, c)
  BY <1>3
<1>5. l \notin {"update", "seed_add", "svc_add"}
  OBVIOUS
<1> QED BY <1>1, <1>a, <1>4, <1>5, QuietRecord

\* citrusleaf_cluster_add_host outside cluster_tend.
LEMMA AddHostRecord ==
  ASSUME IInv, Record, NEW u \in User, AddHost(u)
  PROVE  Record'
<1>0. TypeOK /\ u \in Tender
  BY DEF IInv, Tender
<1> DEFINE places == {"idle", "mark", "call", "loop", "check", "deref", "OK", "FAIL_TIMEOUT"}
<1>1. /\ UNCHANGED <<node, node_v, ptab, npart_known>> /\ UNCHANGED serverVars
      /\ pc[u] # "update"
  BY DEF AddHost, RegisterHost, NotFoundAll, AddHostLoop, PeekNode, DerefNode, AddHostReturn
<1>2. \E l \in places : \E c : Moves(u, l, c)
  <2>1. ASSUME NEW a \in Addr, RegisterHost(u, a) PROVE \E l \in places : \E c : Moves(u, l, c)
    BY <1>0, <2>1, RegisterHostMoves
  <2>2. CASE NotFoundAll(u)
    BY <1>0, <2>2, NotFoundAllMoves
  <2>3. CASE AddHostLoop(u)
    BY <1>0, <2>3, AddHostLoopMoves
  <2>4. CASE PeekNode(u)
    BY <1>0, <2>4, PeekNodeMoves
  <2>5. CASE DerefNode(u)
    BY <1>0, <2>5, DerefNodeMoves
  <2>6. CASE AddHostReturn(u)
    BY <1>0, <2>6, AddHostReturnMoves
  <2> QED BY <2>1, <2>2, <2>3, <2>4, <2>5, <2>6 DEF AddHost
<1>3. PICK l \in places : \E c : Moves(u, l, c)
  BY <1>2
<1>4. PICK c : Moves(u, l, c)
  BY <1>3
<1>5. l \notin {"update", "seed_add", "svc_add"}
  OBVIOUS
<1> QED BY <1>0, <1>1, <1>4, <1>5, QuietRecord

\* A transaction may destroy a node, but none that is listed or being added.
LEMMA TransactionRecord ==
  ASSUME IInv, Record, NEW x \in Tx, Transaction(x)
  PROVE  Record'
<1>1. /\ UNCHANGED <<node_v, ptab, npart_known, pc, lv, host, gen, own>> /\ Nodes' = Nodes
  BY DEF Transaction, cl_partition_table_get, cl_cluster_node_get_random,
     cl_cluster_node_put, tendVars, serverVars, Nodes
<1>2. CASE UNCHANGED node
  <2>1. \A o : SameNode(o)
    BY <1>2 DEF SameNode
  <2>2. RecordsNothing
    BY <1>1, <2>1 DEF RecordsNothing
  <2> QED BY <2>2, NothingRecorded
<1>3. CASE cl_cluster_node_put(x) /\ node' # node
  <2> DEFINE c == tx[x]
  <2>1. c \in Obj /\ rc[c] = 1 /\ node' = [node EXCEPT ![c] = Blank]
    BY <1>3 DEF cl_cluster_node_put, cl_cluster_node_release
  <2>2. node \in [Obj -> NodeRecord] /\ RefCountExact
    BY DEF IInv, TypeOK, ClientTypes
  <2>3. c \notin Nodes /\ Carriers(c) = {}
    <3>1. rc[c] = Refs(c) /\ Users(c) # {}
      BY <2>1, <2>2 DEF RefCountExact, Users
    <3>2. /\ Cardinality(Carriers(c)) \in Nat /\ Cardinality(MasterSlots(c)) \in Nat
          /\ Cardinality(ProleSlots(c)) \in Nat /\ Cardinality(Users(c)) \in Nat
          /\ Carriers(c) # {} => Cardinality(Carriers(c)) > 0
          /\ Users(c) # {} => Cardinality(Users(c)) > 0
      BY <2>1, Counts
    <3> HIDE DEF c
    <3> QED BY <2>1, <3>1, <3>2 DEF Refs
  <2> HIDE DEF c
  <2>4. node'[c] = Blank /\ \A q \in Obj \ {c} : SameNode(q)
    BY <2>1, <2>2 DEF SameNode
  <2>5. ASSUME NEW s \in Tender, pc[s] \in {"seed_add", "svc_add"}
        PROVE  SameNode(lv[s].cn)
    <3>1. lv[s].cn \in Obj /\ Carrying(s) = lv[s].cn
      BY <2>5 DEF IInv, TypeOK, ThreadTypes, Carrying
    <3> QED BY <2>3, <2>4, <3>1 DEF Carriers
  <2>6. RecordsNothing
    BY <1>1, <2>3, <2>4, <2>5 DEF RecordsNothing
  <2> QED BY <2>6, NothingRecorded
<1> QED BY <1>2, <1>3 DEF Transaction, cl_partition_table_get, cl_cluster_node_get_random

\* A server that changes what it owns is a generation ahead of every copy.
LEMMA ServerRecord ==
  ASSUME IInv, Record, ServerStep, ~Renames
  PROVE  Record'
<1>0. /\ UNCHANGED <<node, node_v, ptab, npart_known, pc, lv, host>> /\ Nodes' = Nodes
      /\ gen \in [Name -> 0 .. MaxChanges] /\ Nodes \subseteq Obj
      /\ own \in [Name -> [Part -> Role]]
  BY Listed DEF ServerStep, tendVars, Nodes, IInv, TypeOK, ServerTypes
<1>1. ASSUME NEW n \in Name
      PROVE  \/ gen'[n] = gen[n] /\ own'[n] = own[n]
             \/ gen'[n] = gen[n] + 1
  BY <1>0 DEF ServerStep
<1>2. \A n \in Name : gen[n] \in Nat /\ gen[n] <= gen'[n]
  BY <1>0, <1>1
<1>3. NamedOK' /\ HomeOK' /\ KnownOK'
  BY <1>0 DEF Record, NamedOK, HomeOK, KnownOK
<1>4. ASSUME NEW o \in Obj, node[o].name \in Name
      PROVE  /\ node[o].gen \in Int /\ node[o].gen <= gen[node[o].name]
             /\ node[o].gen <= gen'[node[o].name]
             /\ node[o].gen = gen'[node[o].name] =>
                    /\ gen'[node[o].name] = gen[node[o].name]
                    /\ own'[node[o].name] = own[node[o].name]
  <2>1. node[o].gen \in Int
    BY DEF IInv, TypeOK, ClientTypes, NodeRecord
  <2>2. node[o].gen <= gen[node[o].name]
    BY <1>4 DEF Record, GenOK
  <2> QED BY <1>1, <1>2, <1>4, <2>1, <2>2
<1>5. GenOK'
  BY <1>0, <1>4 DEF GenOK
<1>6. CopyOK'
  <2> SUFFICES ASSUME NEW t \in Tender, pc[t] = "update" PROVE Copying(t)'
    BY <1>0 DEF CopyOK
  <2>1. lv[t].cn \in Nodes /\ lv[t].cn \in Obj
    BY UpdatingListed
  <2>2. node[lv[t].cn].name \in Name /\ Copying(t)
    BY <2>1 DEF Record, NamedOK, CopyOK
  <2> QED BY <1>0, <1>4, <2>1, <2>2 DEF Copying
<1>7. ClaimsRecorded'
  <2> SUFFICES ASSUME NEW o \in Nodes, NEW p \in Part,
                      node[o].gen = gen'[node[o].name],
                      own'[node[o].name][p] = "master", Present(o)',
                      ~ \E t \in Tender : pc[t] = "update" /\ lv[t].cn = o
               PROVE  ptab[p].master = o
    BY <1>0 DEF ClaimsRecorded
  <2>1. node[o].name \in Name /\ o \in Obj
    BY <1>0 DEF Record, NamedOK
  <2>2. node[o].gen = gen[node[o].name] /\ own[node[o].name][p] = "master"
    BY <1>4, <2>1
  <2>3. Present(o)
    BY <1>0 DEF Present
  <2> QED BY <2>2, <2>3 DEF Record, ClaimsRecorded
<1> QED BY <1>3, <1>5, <1>6, <1>7 DEF Record

\* At the start there is nothing to record.
LEMMA RecordInit ==
  ASSUME Init
  PROVE  Record
<1>1. Nodes = {}
  BY DEF Init, Nodes, ToSet
<1>2. \A t \in Tender : pc[t] = "idle"
  BY DEF Init
<1>3. \A o \in Obj : node[o] = Blank
  BY DEF Init
<1>4. NamedOK /\ CopyOK /\ ClaimsRecorded
  BY <1>1, <1>2 DEF NamedOK, CopyOK, ClaimsRecorded
<1>5. HomeOK
  BY <1>3 DEF HomeOK, Blank
<1>6. GenOK
  BY <1>3 DEF GenOK, Blank, Init
<1>7. KnownOK
  BY <1>2 DEF KnownOK, Init
<1> QED BY <1>4, <1>5, <1>6, <1>7 DEF Record

\* One step per action.
LEMMA RecordNext ==
  ASSUME IInv, Record, [Next]_vars, ~Renames
  PROVE  Record'
<1>1. ASSUME NEW t \in Tender, Tend(t) PROVE Record'
  <2>1. CASE \/ TendBegin(t) \/ cluster_get_n_partitions(t) \/ PingNode(t)
             \/ Explore(t) \/ MarkFound(t) \/ TendEnd(t)
             \/ \E a \in Addr : SkipAddress(t, a)
    BY <2>1, LapRecord, Zenon
  <2>2. ASSUME NEW a \in Addr, AddAddress(t, a) PROVE Record'
    BY <2>2, AddAddressRecord
  <2>3. ASSUME NEW a \in Addr, CreateNode(t, a) PROVE Record'
    BY <2>3, CreateNodeRecord
  <2>4. CASE AppendNode(t)
    BY <2>4, AppendNodeRecord
  <2>5. CASE KeepNode(t) \/ AbsentNode(t) \/ DropNode(t)
    BY <2>5, NodeLoopRecord
  <2>6. CASE FetchReplicas(t)
    BY <2>6, FetchReplicasRecord
  <2>7. ASSUME NEW p \in Part, UpdatePartition(t, p) PROVE Record'
    BY <2>7, UpdatePartitionRecord
  <2>8. CASE UpdateDone(t)
    BY <2>8, UpdateDoneRecord
  <2> QED BY <1>1, <2>1, <2>2, <2>3, <2>4, <2>5, <2>6, <2>7, <2>8, Zenon DEF Tend
<1>2. ASSUME NEW u \in User, AddHost(u) PROVE Record'
  BY <1>2, AddHostRecord
<1>3. ASSUME NEW x \in Tx, Transaction(x) PROVE Record'
  BY <1>3, TransactionRecord
<1>4. CASE ServerStep
  BY <1>4, ServerRecord
<1>5. CASE UNCHANGED vars
  <2>1. /\ UNCHANGED <<node, node_v, ptab, npart_known, pc, lv, host, gen, own>>
        /\ Nodes' = Nodes
    BY <1>5 DEF vars, tendVars, serverVars, Nodes
  <2>2. \A o : SameNode(o)
    BY <2>1 DEF SameNode
  <2>3. RecordsNothing
    BY <2>1, <2>2 DEF RecordsNothing
  <2> QED BY <2>3, NothingRecorded
<1> QED BY <1>1, <1>2, <1>3, <1>4, <1>5 DEF Next

-----------------------------------------------------------------------------
(* Theorems                                                                *)

\* Every variable keeps its type; in particular a node that is out of the
\* partition map is dropped from the list within MAX_INTERVALS_ABSENT laps, and
\* a thread that pings, fetches or updates has a node to do it with
\* (cluster_tend, cl_cluster.c).
THEOREM ClusterTypes == Spec => []TypeOK
<1>1. Init => IInv
  BY IInvInit
<1>2. IInv /\ [Next]_vars => IInv'
  BY IInvNext
<1>3. IInv => TypeOK
  BY DEF IInv
<1> QED BY <1>1, <1>2, <1>3, PTL DEF Spec

\* A node's reference count (cl_cluster_node_reserve, cl_cluster_node_release)
\* is the number of its holders, so no node is freed under a slot, a list entry
\* or a transaction, and none is leaked, for any number of threads tending,
\* adding hosts and running transactions.
THEOREM CountsAreExact == Spec => []RefCountExact
<1>1. Init => IInv
  BY IInvInit
<1>2. IInv /\ [Next]_vars => IInv'
  BY IInvNext
<1>3. IInv => RefCountExact
  BY DEF IInv
<1> QED BY <1>1, <1>2, <1>3, PTL DEF Spec

\* Every node in the partition table is in the node list, which is why a
\* release under a partition lock (cl_partition_table_update) never destroys it.
THEOREM MapIsListed == Spec => []MapNodesListed
<1>1. Init => IInv
  BY IInvInit
<1>2. IInv /\ [Next]_vars => IInv'
  BY IInvNext
<1>3. IInv => MapNodesListed
  BY DEF IInv
<1> QED BY <1>1, <1>2, <1>3, PTL DEF Spec

\* However it is found (cluster_ping_address of a seed or a service), a server
\* has one node in the list, and an address belongs to one node.
THEOREM NodesAreUnique == Spec => []DiscoveryUnique
<1>1. Init => IInv
  BY IInvInit
<1>2. IInv /\ [Next]_vars => IInv'
  BY IInvNext
<1>3. IInv => DiscoveryUnique
  BY DEF IInv
<1> QED BY <1>1, <1>2, <1>3, PTL DEF Spec

\* While every address keeps its server, "generation unchanged, no fetch"
\* (cl_cluster_node_parse_check) never freezes a wrong map: a node with its
\* server's generation, and in the map, has every master slot its server claims
\* (cl_partition_table_update), whatever the order in which nodes take slots from
\* each other and servers change what they own.
THEOREM ClaimsAreRecorded ==
  ASSUME ~Renames
  PROVE  Spec => []ClaimsRecorded
<1>1. Init => IInv /\ Record
  BY IInvInit, RecordInit
<1>2. (IInv /\ Record) /\ [Next]_vars => (IInv /\ Record)'
  BY IInvNext, RecordNext
<1>3. IInv /\ Record => ClaimsRecorded
  BY DEF Record
<1> QED BY <1>1, <1>2, <1>3, PTL DEF Spec
=============================================================================
