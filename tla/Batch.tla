------------------------------- MODULE Batch -------------------------------
(***************************************************************************)
(* Reads of many records: batch reads (cl_batch.c), which a pool of worker  *)
(* threads carries out node by node, and scans (cl_scan.c), which the       *)
(* caller's thread carries out itself.  Both read a reply of several protos *)
(* of several messages and take their connections from the nodes' pools.    *)
(*                                                                         *)
(* A connection may fail at any read or write.  A server's reply is put on  *)
(* the connection when the request is written: the reads wait without a     *)
(* time limit, so when it comes makes no difference.                        *)
(***************************************************************************)
EXTENDS Integers, Sequences, SequencesExt, FiniteSets

CONSTANTS
    User,           \* threads that read
    Node,           \* nodes of the cluster
    MaxDigests,     \* digests of a batch: 1 .. MaxDigests
    Found,          \* digests whose record exists
    MaxFds,         \* descriptors the process may have open: 1 .. MaxFds
    PoolMax,        \* connections a pool takes (300)
    NThreads,       \* worker threads of the lazy start (MAX_BATCH_THREADS, 6)
    Plans,          \* the calls made: per user "batch", "scan" or "all"
    Master,         \* per digest: the node of its partition
    NULL

ASSUME BatchAssumption ==
    /\ MaxDigests \in Nat \ {0} /\ MaxFds \in Nat /\ PoolMax \in Nat /\ NThreads \in Nat \ {0}
    /\ Found \subseteq 1 .. MaxDigests
    /\ IsFiniteSet(User) /\ IsFiniteSet(Node) /\ NULL \notin User
    /\ Plans \subseteq [User -> {"batch", "scan", "all"}]
    /\ Master \in [1 .. MaxDigests -> Node]

VARIABLES
    \* per user: its place, the call it makes, the call's locals ...
    pc, op,
    nodes,      \* the node of each digest, or the one node of a scan
    todo,       \* nodes whose work is to be pushed, or whose scan is to come
    left,       \* results still to be waited for
    fd, rv,
    \* ... and what the workers write for it
    cq,         \* the completion queue
    got,        \* callbacks per digest
    spoiled,    \* users whose request went out on a connection not read dry
    \* per worker thread: its place, its work and connection
    wpc, job, wfd,
    started,    \* batch_initialized
    made,       \* g_batch_q is not NULL
    bq,         \* the work queue; after the shutdown, what was lost with it
    main,       \* the thread that shuts down
    listed,     \* nodes in the cluster's node list
    refs,       \* per node: its reference count
    leaked,     \* per node: references nobody is going to put
    pool,       \* per node: conn_q
    open,       \* descriptors that are open
    conn,       \* per descriptor: the protos still to be read
    tainted     \* descriptors a scan gave back with a reply unread

workers == <<wpc, job, wfd>>
results == <<cq, got, spoiled>>
workQ == <<started, made, bq, main>>
nodeState == <<listed, refs, leaked>>
net == <<pool, open, conn, tainted>>
vars == <<pc, op, nodes, todo, left, fd, rv, workers, results, workQ, nodeState, net>>

Digest == 1 .. MaxDigests
Fd == 1 .. MaxFds
Worker == 1 .. NThreads
STOP == [user |-> NULL, node |-> NULL]      \* work.digests == NULL

Init ==
    /\ pc = [u \in User |-> "idle"] /\ op \in Plans
    /\ nodes = [u \in User |-> <<>>] /\ todo = [u \in User |-> <<>>]
    /\ left = [u \in User |-> 0] /\ fd = [u \in User |-> NULL]
    /\ rv = [u \in User |-> "OK"]
    /\ cq = [u \in User |-> <<>>] /\ got = [u \in User |-> [d \in Digest |-> 0]]
    /\ spoiled = {}
    /\ wpc = [w \in Worker |-> "none"] /\ job = [w \in Worker |-> STOP]
    /\ wfd = [w \in Worker |-> NULL]
    /\ started = FALSE /\ made = FALSE /\ bq = <<>> /\ main = "run"
    /\ listed = Node /\ refs = [n \in Node |-> 1] /\ leaked = [n \in Node |-> 0]
    /\ pool = [n \in Node |-> <<>>] /\ open = {}
    /\ conn = [f \in Fd |-> <<>>] /\ tainted = {}

Goto(u, place) == pc' = [pc EXCEPT ![u] = place]
\* The last failure is the call's result.
Result(u, r) == rv' = [rv EXCEPT ![u] = IF r = "OK" THEN @ ELSE r]

-----------------------------------------------------------------------------
\* What a server sends, and the loop that reads it.

Msg(m, d) == [is |-> m, digest |-> d]
Rec(d) == Msg(IF d \in Found THEN "rec" ELSE "notfound", d)
Split(s) == [k \in DOMAIN s |-> <<s[k]>>]

\* The digests of one node, which its request names.
Asked(u, n) == {d \in Digest : d \in DOMAIN nodes[u] /\ nodes[u][d] = n}

\* The records asked for and the last message in one proto; or, proto by proto,
\* some of them, an error, and what a server may still send after it.
Replies(S) ==
    LET ds == SetToSeq(S)
        recs == [k \in DOMAIN ds |-> Rec(ds[k])]
        last == Msg("last", 0)
    IN {<<Append(recs, last)>>} \cup
       {Split(SubSeq(recs, 1, k) \o <<Msg("error", 0), last>>) :
            k \in 0 .. Len(recs)}

\* A scan finds a record; a node that does not know the set sends "not found".
ScanReplies ==
    LET rec == Msg("rec", 0)
        last == Msg("last", 0)
    IN {<<<<rec, last>>>>, Split(<<rec, Msg("error", 0), last>>),
        <<<<Msg("notfound", 0)>>>>}

\* One proto of a batch: "not found" is for one record and goes on.
BatchDone(p) == \E k \in DOMAIN p : p[k].is \in {"error", "last"}
\* A record after an error in the same proto makes the result good again.
BatchRv(p) ==
    IF \E k \in DOMAIN p : /\ p[k].is = "error"
                           /\ \A j \in DOMAIN p : j > k => p[j].is # "rec"
    THEN "ERR" ELSE "OK"
\* How often a proto calls back for a digest.
Records(p, d) == Cardinality({k \in DOMAIN p : p[k] = Msg("rec", d)})

\* One proto of a scan: every code but OK ends it, "not found" as a success.
ScanDone(p) == \E k \in DOMAIN p : p[k].is # "rec"
ScanRv(p) == IF \E k \in DOMAIN p : p[k].is = "error" THEN "ERR" ELSE "OK"

\* cl_cluster_node_fd_get: the first of the pool, else the lowest free one.
FdOf(n) ==
    IF pool[n] # <<>> THEN {Head(pool[n])}
    ELSE {f \in Fd \ open : \A g \in 1 .. (f - 1) : g \in open}
Take(n) == pool' = [pool EXCEPT ![n] = IF @ = <<>> THEN @ ELSE Tail(@)]

\* cf_socket_write_forever writes a request that is answered by rep.
Write(f, rep) ==
    /\ open' = open \cup {f} /\ conn' = [conn EXCEPT ![f] = @ \o rep]
    /\ UNCHANGED tainted
Close(f) ==
    /\ open' = open \ {f} /\ conn' = [conn EXCEPT ![f] = <<>>]
    /\ tainted' = tainted \ {f}
ProtoRead(f) == conn' = [conn EXCEPT ![f] = Tail(@)]
\* cl_cluster_node_fd_put: a full pool takes no more, the connection is closed.
Full(n) == Len(pool[n]) >= PoolMax
Pool(n, f) == ~Full(n) /\ pool' = [pool EXCEPT ![n] = Append(@, f)]

-----------------------------------------------------------------------------
\* A batch: do_get_exists_many_digest.

Begin(u) ==
    /\ pc[u] = "idle"
    /\ \/ op[u] = "batch" /\ Goto(u, IF started THEN "node" ELSE "start")
          /\ UNCHANGED <<todo, rv>>
       \/ op[u] = "scan" /\ Goto(u, "random") /\ UNCHANGED <<todo, rv>>
       \/ /\ op[u] = "all" /\ listed # {} /\ Goto(u, "byname")
          /\ todo' = [todo EXCEPT ![u] = SetToSeq(listed)] /\ UNCHANGED rv
       \/ /\ op[u] = "all" /\ listed = {} /\ Goto(u, "done") /\ Result(u, "FAIL")
          /\ UNCHANGED todo
    /\ UNCHANGED <<op, nodes, left, fd, workers, results, workQ, nodeState, net>>

\* citrusleaf_batch_init: the flag first.
LazyStart(u) ==
    /\ pc[u] = "start"
    /\ Goto(u, IF started THEN "node" ELSE "create") /\ started' = TRUE
    /\ UNCHANGED <<op, nodes, todo, left, fd, rv, workers, results,
                   made, bq, main, nodeState, net>>

\* ... then the queue and the threads.
LazyCreate(u) ==
    /\ pc[u] = "create"
    /\ made' = TRUE /\ bq' = <<>> /\ wpc' = [w \in Worker |-> "pop"]
    /\ Goto(u, "node")
    /\ UNCHANGED <<op, nodes, todo, left, fd, rv, job, wfd, results,
                   started, main, nodeState, net>>

\* The references a call holds on a node: one per digest, or that of its scan.
Holds(u, n) == {h \in {u} \X Digest : h[2] \in DOMAIN nodes[u] /\ nodes[u][h[2]] = n}

\* cl_cluster_node_get: the partition's node, any other when that is gone.
NodesFor(d) == IF Master[d] \in listed THEN {Master[d]} ELSE listed

\* The next digest gets a node, with a reference.
BatchNode(u) ==
    /\ pc[u] = "node" /\ Len(nodes[u]) < MaxDigests
    /\ \E n \in NodesFor(Len(nodes[u]) + 1) :
        /\ nodes' = [nodes EXCEPT ![u] = Append(@, n)]
        /\ refs' = [refs EXCEPT ![n] = @ + 1]
    /\ UNCHANGED <<pc, op, todo, left, fd, rv, workers, results, workQ,
                   listed, leaked, net>>

\* No node for a digest: the call fails, and the nodes of the earlier digests
\* are never put.
BatchNoNode(u) ==
    /\ pc[u] = "node" /\ Len(nodes[u]) < MaxDigests /\ listed = {}
    /\ Goto(u, "done") /\ Result(u, "FAIL") /\ nodes' = [nodes EXCEPT ![u] = <<>>]
    /\ leaked' = [n \in Node |-> leaked[n] + Cardinality(Holds(u, n))]
    /\ UNCHANGED <<op, todo, left, fd, workers, results, workQ, listed, refs, net>>

\* All digests have a node: work for each node once, and as many results to
\* wait for.
BatchSplit(u) ==
    /\ pc[u] = "node" /\ Len(nodes[u]) = MaxDigests
    /\ Goto(u, "push") /\ todo' = [todo EXCEPT ![u] = SetToSeq(ToSet(nodes[u]))]
    /\ left' = [left EXCEPT ![u] = Cardinality(ToSet(nodes[u]))]
    /\ UNCHANGED <<op, nodes, fd, rv, workers, results, workQ, nodeState, net>>

\* One push to the work queue, which may not be there (yet, or any more).
BatchPush(u) ==
    /\ pc[u] = "push"
    /\ \/ ~made /\ Goto(u, "undefined") /\ UNCHANGED <<todo, bq>>
       \/ /\ made /\ bq' = Append(bq, [user |-> u, node |-> Head(todo[u])])
          /\ todo' = [todo EXCEPT ![u] = Tail(@)]
          /\ Goto(u, IF Len(todo[u]) = 1 THEN "wait" ELSE "push")
    /\ UNCHANGED <<op, nodes, left, fd, rv, workers, results,
                   started, made, main, nodeState, net>>

\* Mutant of BatchWait: the first failure ends the waiting.
BatchWaitLess(u) ==
    /\ pc[u] = "wait" /\ cq[u] # <<>>
    /\ cq' = [cq EXCEPT ![u] = Tail(@)] /\ Result(u, Head(cq[u]))
    /\ left' = [left EXCEPT ![u] = IF Head(cq[u]) = "OK" THEN @ - 1 ELSE 0]
    /\ UNCHANGED <<pc, op, nodes, todo, fd, got, spoiled, workers, workQ, nodeState, net>>

\* Mutant of BatchWait: the result is that of the last node.
BatchWaitLast(u) ==
    /\ pc[u] = "wait" /\ cq[u] # <<>>
    /\ cq' = [cq EXCEPT ![u] = Tail(@)] /\ rv' = [rv EXCEPT ![u] = Head(cq[u])]
    /\ left' = [left EXCEPT ![u] = @ - 1]
    /\ UNCHANGED <<pc, op, nodes, todo, fd, got, spoiled, workers, workQ, nodeState, net>>

\* One result of the completion queue.
BatchWait(u) ==
    /\ pc[u] = "wait" /\ cq[u] # <<>>
    /\ cq' = [cq EXCEPT ![u] = Tail(@)] /\ Result(u, Head(cq[u]))
    /\ left' = [left EXCEPT ![u] = @ - 1]
    /\ UNCHANGED <<pc, op, nodes, todo, fd, got, spoiled, workers, workQ, nodeState, net>>

\* The completion queue is destroyed, every digest's node put.
BatchReturn(u) ==
    /\ pc[u] = "wait" /\ left[u] = 0
    /\ Goto(u, "done") /\ nodes' = [nodes EXCEPT ![u] = <<>>]
    /\ refs' = [n \in Node |-> refs[n] - Cardinality(Holds(u, n))]
    /\ UNCHANGED <<op, todo, left, fd, rv, workers, results, workQ, listed, leaked, net>>

-----------------------------------------------------------------------------
\* A worker: batch_worker_fn and do_batch_monte.

WorkerPop(w) ==
    /\ wpc[w] = "pop" /\ made /\ bq # <<>>
    /\ wpc' = [wpc EXCEPT ![w] = IF Head(bq) = STOP THEN "exited" ELSE "send"]
    /\ job' = [job EXCEPT ![w] = Head(bq)] /\ bq' = Tail(bq)
    /\ UNCHANGED <<pc, op, nodes, todo, left, fd, rv, wfd, results,
                   started, made, main, nodeState, net>>

\* The result goes to the completion queue of the call the work is for.
Complete(w, r) ==
    /\ cq' = [cq EXCEPT ![job[w].user] = Append(@, r)]
    /\ wpc' = [wpc EXCEPT ![w] = "pop"] /\ job' = [job EXCEPT ![w] = STOP]
    /\ wfd' = [wfd EXCEPT ![w] = NULL]

\* No connection, or a request that cannot be written, fails the work.
WorkerSend(w) ==
    /\ wpc[w] = "send"
    /\ LET n == job[w].node
           u == job[w].user
       IN \/ \E f \in FdOf(n), rep \in Replies(Asked(u, n)) :
                /\ Take(n) /\ Write(f, rep)
                /\ wpc' = [wpc EXCEPT ![w] = "read"] /\ wfd' = [wfd EXCEPT ![w] = f]
                /\ spoiled' = IF conn[f] # <<>> THEN spoiled \cup {u} ELSE spoiled
                /\ UNCHANGED <<job, cq>>
          \/ \E f \in FdOf(n) :
                Take(n) /\ Close(f) /\ Complete(w, "FAIL") /\ UNCHANGED spoiled
          \/ pool[n] = <<>> /\ Complete(w, "FAIL") /\ UNCHANGED <<spoiled, net>>
    /\ UNCHANGED <<pc, op, nodes, todo, left, fd, rv, got, workQ, nodeState>>

\* Mutant of WorkerFails: the result of a failed read is not passed on.
WorkerFailsSilently(w) ==
    /\ wpc[w] = "read" /\ Close(wfd[w])
    /\ wpc' = [wpc EXCEPT ![w] = "pop"] /\ job' = [job EXCEPT ![w] = STOP]
    /\ wfd' = [wfd EXCEPT ![w] = NULL]
    /\ UNCHANGED <<pc, op, nodes, todo, left, fd, rv, results, workQ, nodeState, pool>>

\* A read that fails, a proto that cannot be read: the connection is closed.
WorkerFails(w) ==
    /\ wpc[w] = "read" /\ Close(wfd[w]) /\ Complete(w, "FAIL")
    /\ UNCHANGED <<pc, op, nodes, todo, left, fd, rv, got, spoiled, workQ, nodeState, pool>>

\* Mutant of WorkerEnd: the connection goes to the pool whatever the result.
WorkerEndPools(w, r) ==
    \/ Pool(job[w].node, wfd[w]) /\ ProtoRead(wfd[w]) /\ UNCHANGED <<open, tainted>>
    \/ Full(job[w].node) /\ Close(wfd[w]) /\ UNCHANGED pool

\* A good connection goes back to the pool, one with an error is closed with
\* whatever there is unread on it.
WorkerEnd(w, r) ==
    \/ /\ r = "OK" /\ Pool(job[w].node, wfd[w]) /\ ProtoRead(wfd[w])
       /\ UNCHANGED <<open, tainted>>
    \/ (r # "OK" \/ Full(job[w].node)) /\ Close(wfd[w]) /\ UNCHANGED pool

\* One proto: the callback for its records, and on to the next or to the end.
WorkerRead(w) ==
    /\ wpc[w] = "read" /\ conn[wfd[w]] # <<>>
    /\ LET p == Head(conn[wfd[w]])
           u == job[w].user
       IN /\ got' = [got EXCEPT ![u] = [d \in Digest |-> got[u][d] + Records(p, d)]]
          /\ \/ BatchDone(p) /\ WorkerEnd(w, BatchRv(p)) /\ Complete(w, BatchRv(p))
             \/ ~BatchDone(p) /\ ProtoRead(wfd[w])
                /\ UNCHANGED <<workers, cq, pool, open, tainted>>
    /\ UNCHANGED <<pc, op, nodes, todo, left, fd, rv, spoiled, workQ, nodeState>>

-----------------------------------------------------------------------------
\* A scan: do_scan_monte, by a random node or by the name of each node.

ScanRandom(u) ==
    /\ pc[u] = "random"
    /\ \/ \E n \in listed :
            /\ Goto(u, "scan") /\ nodes' = [nodes EXCEPT ![u] = <<n>>]
            /\ refs' = [refs EXCEPT ![n] = @ + 1] /\ UNCHANGED rv
       \/ listed = {} /\ Goto(u, "done") /\ Result(u, "FAIL") /\ UNCHANGED <<nodes, refs>>
    /\ UNCHANGED <<op, todo, left, fd, workers, results, workQ, listed, leaked, net>>

\* What follows the scan of one node: the next name, or the end.
Scanned(u, r) ==
    /\ Goto(u, IF Len(todo[u]) > 1 THEN "byname" ELSE "done") /\ Result(u, r)
    /\ todo' = [todo EXCEPT ![u] = IF @ = <<>> THEN @ ELSE Tail(@)]
    /\ nodes' = [nodes EXCEPT ![u] = <<>>] /\ fd' = [fd EXCEPT ![u] = NULL]

\* The node list is searched under its lock ...
ScanByName(u) ==
    /\ pc[u] = "byname"
    /\ \/ Head(todo[u]) \in listed /\ Goto(u, "reserve")
          /\ UNCHANGED <<todo, nodes, fd, rv>>
       \/ Head(todo[u]) \notin listed /\ Scanned(u, "FAIL")
    /\ UNCHANGED <<op, left, workers, results, workQ, nodeState, net>>

\* ... and the node it found reserved without: it may be freed memory.
ScanReserve(u) ==
    /\ pc[u] = "reserve"
    /\ LET n == Head(todo[u])
       IN \/ refs[n] = 0 /\ Goto(u, "undefined") /\ UNCHANGED <<nodes, refs>>
          \/ /\ refs[n] # 0 /\ Goto(u, "scan") /\ nodes' = [nodes EXCEPT ![u] = <<n>>]
             /\ refs' = [refs EXCEPT ![n] = @ + 1]
    /\ UNCHANGED <<op, todo, left, fd, rv, workers, results, workQ, listed, leaked, net>>

\* Every exit for an error leaves the node reserved.
Leak(u) == leaked' = [leaked EXCEPT ![nodes[u][1]] = @ + 1]

ScanSend(u) ==
    /\ pc[u] = "scan"
    /\ LET n == nodes[u][1]
       IN \/ \E f \in FdOf(n), rep \in ScanReplies :
                /\ Take(n) /\ Write(f, rep)
                /\ Goto(u, "scanread") /\ fd' = [fd EXCEPT ![u] = f]
                /\ UNCHANGED <<nodes, todo, rv, leaked>>
          \/ \E f \in FdOf(n) :
                Take(n) /\ Close(f) /\ Scanned(u, "FAIL") /\ Leak(u)
          \/ pool[n] = <<>> /\ Scanned(u, "FAIL") /\ Leak(u) /\ UNCHANGED net
    /\ UNCHANGED <<op, left, workers, results, workQ, listed, refs>>

ScanFails(u) ==
    /\ pc[u] = "scanread" /\ Close(fd[u]) /\ Scanned(u, "FAIL") /\ Leak(u)
    /\ UNCHANGED <<op, left, workers, results, workQ, listed, refs, pool>>

\* The connection goes to the pool, with what is left of the reply on it.
ScanEnd(f, n) ==
    \/ /\ Pool(n, f) /\ ProtoRead(f) /\ UNCHANGED open
       /\ tainted' = IF Len(conn[f]) > 1 THEN tainted \cup {f} ELSE tainted
    \/ Full(n) /\ Close(f) /\ UNCHANGED pool

\* Mutant of ScanRead: the node is put before every proto.
ScanReadPuts(u) ==
    /\ pc[u] = "scanread" /\ conn[fd[u]] # <<>>
    /\ LET p == Head(conn[fd[u]])
           n == nodes[u][1]
       IN /\ refs' = [refs EXCEPT ![n] = @ - 1]
          /\ \/ ScanDone(p) /\ ScanEnd(fd[u], n) /\ Scanned(u, ScanRv(p))
             \/ /\ ~ScanDone(p) /\ ProtoRead(fd[u])
                /\ UNCHANGED <<pc, nodes, todo, fd, rv, pool, open, tainted>>
    /\ UNCHANGED <<op, left, workers, results, workQ, listed, leaked>>

\* One proto; at the end the connection goes to the pool whatever the result,
\* and the node is put.
ScanRead(u) ==
    /\ pc[u] = "scanread" /\ conn[fd[u]] # <<>>
    /\ LET p == Head(conn[fd[u]])
           n == nodes[u][1]
       IN \/ /\ ScanDone(p) /\ ScanEnd(fd[u], n) /\ Scanned(u, ScanRv(p))
             /\ refs' = [refs EXCEPT ![n] = @ - 1]
          \/ /\ ~ScanDone(p) /\ ProtoRead(fd[u])
             /\ UNCHANGED <<pc, nodes, todo, fd, rv, refs, pool, open, tainted>>
    /\ UNCHANGED <<op, left, workers, results, workQ, listed, leaked>>

-----------------------------------------------------------------------------
\* The tender drops a node from the list, and with it the list's reference.
NodeDropped(n) ==
    /\ n \in listed
    /\ listed' = listed \ {n} /\ refs' = [refs EXCEPT ![n] = @ - 1]
    /\ UNCHANGED <<pc, op, nodes, todo, left, fd, rv, workers, results, workQ, leaked, net>>

\* citrusleaf_batch_shutdown: a stop for each worker, behind the queued work.
Shutdown ==
    /\ main = "run" /\ made
    /\ main' = "join" /\ bq' = bq \o [w \in Worker |-> STOP]
    /\ UNCHANGED <<pc, op, nodes, todo, left, fd, rv, workers, results,
                   started, made, nodeState, net>>

\* The queue goes, the flag that it was started stays.
ShutdownJoin ==
    /\ main = "join" /\ \A w \in Worker : wpc[w] = "exited"
    /\ main' = "down" /\ made' = FALSE
    /\ UNCHANGED <<pc, op, nodes, todo, left, fd, rv, workers, results,
                   started, bq, nodeState, net>>

-----------------------------------------------------------------------------
Batch(u) ==
    \/ LazyStart(u) \/ LazyCreate(u) \/ BatchNode(u) \/ BatchNoNode(u)
    \/ BatchSplit(u) \/ BatchPush(u) \/ BatchWait(u) \/ BatchReturn(u)
Scan(u) ==
    \/ ScanRandom(u) \/ ScanByName(u) \/ ScanReserve(u) \/ ScanSend(u)
    \/ ScanFails(u) \/ ScanRead(u)
Work(w) == WorkerPop(w) \/ WorkerSend(w) \/ WorkerFails(w) \/ WorkerRead(w)

\* No thread has used freed memory or the missing queue; nothing can be said
\* about a process after that.
Alive == \A u \in User : pc[u] # "undefined"

Next ==
    \/ \E u \in User : Batch(u) \/ Scan(u) \/ Begin(u)
    \/ \E w \in Worker : Work(w)
    \/ \E n \in Node : NodeDropped(n)
    \/ Shutdown \/ ShutdownJoin

Spec == Init /\ [][Next]_vars

\* Threads run, and a server answers or its connection fails.
FairSpec ==
    /\ Spec /\ WF_vars(ShutdownJoin)
    /\ \A u \in User : WF_vars(Batch(u) \/ Scan(u))
    /\ \A w \in Worker : WF_vars(Work(w))

-----------------------------------------------------------------------------
\* Properties.

Rv == {"OK", "ERR", "FAIL"}
Works == [user : User, node : Node] \cup {STOP}
Msgs == [is : {"rec", "notfound", "error", "last"}, digest : Digest \cup {0}]

CallTypes ==
    /\ pc \in [User -> {"idle", "start", "create", "node", "push", "wait",
                        "random", "byname", "reserve", "scan", "scanread",
                        "done", "undefined"}]
    /\ op \in [User -> {"batch", "scan", "all"}]
    /\ nodes \in [User -> Seq(Node)] /\ todo \in [User -> Seq(Node)]
    /\ left \in [User -> Nat] /\ fd \in [User -> Fd \cup {NULL}] /\ rv \in [User -> Rv]
ResultTypes ==
    /\ cq \in [User -> Seq(Rv)] /\ got \in [User -> [Digest -> Nat]]
    /\ spoiled \subseteq User
WorkerTypes ==
    /\ wpc \in [Worker -> {"none", "pop", "send", "read", "exited"}]
    /\ job \in [Worker -> Works] /\ wfd \in [Worker -> Fd \cup {NULL}]
QueueTypes ==
    /\ started \in BOOLEAN /\ made \in BOOLEAN /\ bq \in Seq(Works)
    /\ main \in {"run", "join", "down"}
NodeTypes ==
    listed \subseteq Node /\ refs \in [Node -> Nat] /\ leaked \in [Node -> Nat]
NetTypes ==
    /\ pool \in [Node -> Seq(Fd)] /\ open \subseteq Fd
    /\ conn \in [Fd -> Seq(Seq(Msgs))] /\ tainted \subseteq open

\* Every variable has its type.
TypeOK ==
    CallTypes /\ ResultTypes /\ WorkerTypes /\ QueueTypes /\ NodeTypes /\ NetTypes

\* All references that calls hold on a node.
Holders(n) == UNION {Holds(u, n) : u \in User}

\* Types apart, a node's reference count is the number of its holders: the node
\* list, each digest of each batch under way, each scan under way, and the
\* references that the error exits of batch and scan never put.
NodeRefs ==
    /\ TypeOK
    /\ \A n \in Node :
        refs[n] = Cardinality({n} \cap listed) + leaked[n] + Cardinality(Holders(n))

\* Work that is queued, being done or lost with the queue is for a call that
\* still waits for it: its completion queue and node array are there, and its
\* node has a reference.
WorkIsAwaited ==
    \A k \in (ToSet(bq) \cup {job[w] : w \in Worker}) \ {STOP} :
        /\ pc[k.user] \in {"push", "wait", "undefined"}
        /\ refs[k.node] > 0 /\ k.node \in ToSet(nodes[k.user])

\* A connection in a pool has nothing left to be read, unless a scan put it
\* there with the rest of a reply that ended in a code: from then on every call
\* that uses it reads the answer to the one before.  A batch that ends in an
\* error closes its connection.
PoolClean ==
    \A n \in Node : \A f \in ToSet(pool[n]) : conn[f] = <<>> \/ f \in tainted

\* A batch that returns success has called back once for every record that
\* exists, and never otherwise, unless a scan left it something to read.
BatchComplete ==
    \A u \in User \ spoiled :
        op[u] = "batch" /\ pc[u] = "done" =>
            /\ \A d \in Digest : got[u][d] <= 1
            /\ rv[u] = "OK" => {d \in Digest : got[u][d] > 0} = Found

\* In the end every call that was made has come back, and shutdown, if it was
\* called, has too; only a shutdown can leave a call waiting, for work that it
\* overtook.
Settles ==
    <>[](\/ main = "run" /\ \A u \in User : pc[u] \in {"idle", "done"}
         \/ main = "down"
         \/ ~Alive)

=============================================================================
