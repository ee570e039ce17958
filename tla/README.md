# A TLA+ development of the Citrusleaf C client and its PHP extension

The repository is the Citrusleaf (Aerospike) client library in C, with a PHP
extension on top of it. A process that uses it has

* a **tender thread** that keeps, for every cluster, a list of nodes and a table
  that says which node is master and which is prole of each partition;
* **user threads** that run transactions: choose a node from that table, take a
  connection from the node's pool, send a request, read the reply, retry;
* **worker threads** for batch reads and for the asynchronous client, fed
  through `cf_queue`;
* optionally a **shared memory segment** in which one process of many keeps the
  servers' information for all of them.

The specifications here model the client's own logic: its queues and containers,
the cluster's picture of its servers and the life of the cluster object, the
transaction loop with its connection pool, the messages and values, the
asynchronous client, batch reads and scans, and the shared segment. Each module
translates the C code definition by definition; `PROJECT.json` maps every
definition to the lines it stands for.

## 1. Inventory

| Component | State | Operations | Talks to |
|---|---|---|---|
| `cf_queue` (cf_queue.c) | ring, two offsets that only grow, mutex, condition variable | create, push, push_limit, pop (with a time limit), reduce, delete, sz; resize and unwrap inside them | connection pools, batch and async work queues |
| Cluster tending (cl_cluster.c) | node list, host list, `found_all`, tender flag, number of partitions, per node: name, addresses, generation, laps absent, reference count | `cluster_tend`, `citrusleaf_cluster_add_host`, node lookup, reserve and release | info protocol, partition table, shared memory |
| Partition table (cl_partition.c) | per partition: master, prole, a lock | presence check, update, get | node references |
| Transaction (citrusleaf.c `do_the_full_monte`) | locals of the loop: try, deadline, node, fd, read buffer | node get, fd get, write, read header, read body, retry, ok | partition table, connection pool, sockets |
| Connection pool (cl_cluster.c) | a `cf_queue` of descriptors per node | fd_get, fd_put with a limit of 300 | `cf_queue` |
| Asynchronous client (cl_async.c) | work queue, pool of work items, statistics, threads | put/get/delete hand-off, receiver threads, re-queueing, re-init, shutdown | queue, connection pool, node references |
| Batch (cl_batch.c) and scan (cl_scan.c) | work queue, per-call completion queue, threads | lazy start, fan-out, worker, join, shutdown | queue, connection pool, node references |
| Shared memory (cl_shm.c) | segment with entries per node, robust mutexes, updater | attach, find, add, ping, update, updater thread, free | tender reads instead of asking |
| Cluster object (cl_cluster.c, cf_ll.c) | list of clusters, reference count, state | create, get_or_create, release_or_destroy, destroy, shutdown; the tender's walk | tender thread |
| Containers (cf_vector.c, cf_ll.c, cf_shash.c, cf_alloc.c) | growing vector, linked list, hash table, counted blocks | the usual ones, reduce with deletion | everything |
| Messages (citrusleaf.c, cf_proto.c, cf_packet_compression.c) | none | compile, parse, swap, compress | transactions |
| Lookup and info (cl_lookup.c, cl_info.c) | none | resolve, ask a server for values by name | tending |
| Request structures (cl_request.c) | caller owned | init, set | transactions |
| PHP layer (php_citrusleaf.c, php_cl_query.c, php_cl_utils.c) | a connection object per PHP object | connect, get, put, ... by calls of the C client | C client |
| Statistics, logs, clock, digest, hooks | counters | | |

What is hard in this code, and to test in it:

* **interleavings**: the tender against transactions and against
  `citrusleaf_cluster_add_host`; threads of one pool; threads asleep in a queue;
* **references without a lock**: releases under a partition lock that must not
  destroy a node, lookups that return a node without a reference;
* **servers that fail**, come back, re-vote, and addresses that change hands;
  the map must match again although an unchanged generation suppresses the fetch;
* **late replies and retries**: replies are matched to requests by nothing but
  the connection; a request the client gave up on is still carried out;
* **rare data paths** of the ring: growth while wrapped, renumbering near 2^32,
  deletion in the middle while a walk goes on by index;
* **hand-off between threads**: work items, descriptors and references that pass
  through queues and come back on paths of error, at start and at shutdown;
* **lists walked without their lock**, counts that reach zero outside it;
* **processes that die** with a lock held and an entry half written;
* **sizes and layouts computed twice** that have to agree.

`PROJECT.json` lists these as hazards, each at its line, with the properties
that would notice it going wrong, or what is known of it where no listed run has one.

## 2. Modules

| Module | Models | State and actions |
|---|---|---|
| `CfQueue` | cf_queue.c under the mutex | `queue`, `allocsz`, `read_offset`, `write_offset` are the fields of `cf_queue`; one action per call; `cf_queue_reduce` and `cf_queue_delete` are one action per element with the lock (`scan`) held; `ret` is the answer of the last call |
| `Fifo` | what callers of the queue rely on | a sequence, with the freedom the code takes: a push may fail and may lose everything (realloc), a delete takes matches out one at a time |
| `CfQueueWait` | the condition variable of cf_queue.c | per thread: outside, asleep, woken; elements are counted only |
| `CfQueue_proofs`, `CfQueueWait_proofs` | | theorems |
| `Cluster` | cl_cluster.c tending, node list, references, add_host, node choice; cl_partition.c | an action is what a thread does between two points where another can interfere: a lock section, an info request, one iteration of the table update |
| `Cluster_proofs` | | theorems |
| `MCCluster` | | symmetry for TLC |
| `Transaction` | `do_the_full_monte`, `cl_cluster_node_fd_get`, `cl_cluster_node_fd_put`, the timed socket calls | per thread its locals; per descriptor the requests and replies in flight |
| `MCTransaction` | | the calls TLC makes, symmetry |
| `Transaction_proofs` | | theorems |
| `Message` | values and bins, `cl_compile`, `cl_parse` and the synchronous calls of citrusleaf.c | the caller's bins and the blocks in them, the record at the server and the record as the calls should have left it; one action per call |
| `Async` | cl_async.c | per sender and per receiver thread its locals; work queue, free pool, pool of connections; what each caller was told |
| `Async_proofs` | | theorems |
| `Batch`, `MCBatch`, `Batch_proofs` | cl_batch.c and cl_scan.c | per user thread its call, per worker its work; work queue, completions, references per node, connections with what is left to read |
| `ClusterLife`, `MCClusterLife` | creation, sharing, release, destruction and shutdown of clusters; the tender's walk; PHP's connect and close | blocks of memory with the cluster in them, the cluster list as `CfLL` has it, per thread its handles; the tender and the cluster it is at |
| `ClusterLife_proofs` | | theorems |
| `Shm` | cl_shm.c and its readers in cl_cluster.c | the segment's slots with their locks and contents, per process the updater's place and what its tender has read |
| `Shm_proofs` | | theorems |
| `CfShash`, `CfVector`, `CfQueuePriority`, `CfLL` | cf_shash.c, cf_vector.c, the priority queue of cf_queue.c, cf_ll.c | the structure as it lies in memory beside what it stands for |
| `Library`, `MCLibrary` | | the five parts that work on their caller's data, one at a time |

`Fifo` is what the modules with work queues (`CfQueuePriority`, `Async`, `Batch`)
take a queue to be; `ClusterLife` uses the pointers of `CfLL` themselves, since
its subject is a walk that races with a deletion.

Correspondence and abstractions, per module:

**CfQueue.** `UNWRAP` stands for 0x40000000, the lowest offset with a bit of
`0xC0000000` set; the code renumbers after a push that reached it. Because
`OffsetsBounded` holds, offsets never leave 32 bits, so they are naturals.
`MaxAllocsz` is the size at which realloc fails; a failed growth leaves `queue`
null and the sizes and offsets as they were, as the code does (cf_queue.c:153-156),
and there the model ends (`Callable`). In the code the next pop, reduce or delete
faults, and a later push may get memory after all and go on over slots that were
never written (210-219); neither is followed, so that no property speaks of a queue
after a failed growth. The
callback of reduce is any function from elements to 0, -1 and -2. Not
modelled: destroy.

**CfQueueWait.** A wait may end spuriously, by a signal, or by its time; a timed
wait that finds the queue empty returns. `MaxSz` bounds pushes.

**Cluster.** A block of memory (`Obj`) holds at most one node; a block is free
when its count is 0 and its content is then cleared, so that a use after free
shows as a count of 0. Servers are external: each has a name, is up or down,
claims a role for each partition, and raises its generation when the claim
changes; an address leads to one server, and with `Renames` may come to lead to
another. An info request is answered by a server that is up at one of the
node's addresses at that moment. `npart_known` is `n_partitions # 0`. Bounds:
`MaxChanges` on what the servers do; the tender itself is not bounded.
Abstracted or left out: `last_node` (any node may be chosen), host name lookup
(a host is one address), non-blocking connect, `intervals_unreachable`, the fork
check, shared memory as a source of information, malformed replies. A reply is
taken to list every namespace and to describe one moment of the server.

**Transaction.** Time is a deadline that is absent, pending or passed; a socket
call may fail at any moment, and fails once the deadline has passed. A reply
has a body that is empty, fits the buffer on the stack, or needs one from
malloc, which may fail. `MaxTry` saturates the counters of tries: nothing
distinguishes tries beyond the second. `sent` and `applied` are history
variables: how often the request left, and how often the servers carried it
out. Any call may come without write parameters, and then has no deadline, except a
read by `citrusleaf_get`, which makes its own. The message itself is the subject of `Message`.

**Message.** A name is a sequence of letters and a value a type with its bytes, so
that prefixes, byte order and the width of an integer are there to go wrong; the
blob types are one. `last` is the request just compiled, with the size
computed for it and the size laid out. The server stores what it is sent and
answers an integer in eight bytes or in as few as hold it. `blocks` forgets a
block whose only pointer `cl_parse` overwrote (the leak its comment mentions).
What a caller is due is the type and the value, in memory that is there. Three things
are excepted in `ReplyDelivered`, because the code does not deliver them although the call
returns OK: a short negative integer, whose sign extension goes to a buffer that is not used
(citrusleaf.c:568-575); a string or blob for which the malloc of `set_object` failed, since
the -1 of citrusleaf.c:940 and 952 is ignored at 987 and 1006 and the caller gets a null
pointer; and bins of which one's name begins another's, which `memcmp` over the shorter
length confuses (citrusleaf.c:977). The first two are marked in `Due` (`spoiled`), and
`AllDelivered` is the property without that exception, which TLC refutes. Left out: field order within a message, generation and
uniqueness policies.

**Async.** A reply comes in two pieces so that a header can be read in part; what
is read after that is any length and any code. A receiver that has read a
length through a dangling buffer, or one that is null after a malloc that failed, is
`undefined`, and nothing is said after it. A call has a deadline only if its write
parameters give a timeout (cl_async.c:379-381): `Timed` are the calls that surely have one, and
the others may never see `DeadlinePasses`; their work is put back on the queue for as long as the
server is silent (202-213), and `AcceptedAnswered` promises nothing to them. The queue limit and the free pool are tested in one step and used in
a later one. Left out: statistics, `citrusleaf_async_set_nw_timeout`.

**Batch.** A batch asks for each of its digests at the node `Master` gives or, when
there is none, at a random one, or finds none. A server may split its reply
into protos at any point and may end it with a code. `nodes[u]` is the node array of
a call, `todo[u]` the nodes whose work is still to be pushed, `left[u]` the results
it waits for. `leaked` counts the
references that the error exits of batch and scan never put; `tainted` marks a
connection that a scan gave back with a reply unread, and `spoiled` the callers whose
request went out on a connection not read dry. A connection is closed when
its pool has `PoolMax` already. `pc[u] = "undefined"` is a push to the work queue
that a lazy start has not created yet, or a scan of a freed node. After the shutdown `bq` keeps the work that was
lost with the queue: nobody pops it. Left out: the bins of the records.

**ClusterLife.** A tend is its beginning, its end and the flag in between. `twice`
marks a cluster destroyed twice (a shutdown beside a release), `torn` one that was
destroyed before its creator had added a host, `revived` one
that `get_or_create` found after its last release, and `ub` a read through freed
memory; the properties say which of them they except, so that each exception
is visible. `torn` is a race of three threads: a shutdown takes the new cluster from the
list and frees it, another thread's create gets its memory, and the first creator, which
knows nothing of this, adds its host before that cluster has its last fields. A thread's calls come from `Plans`.
`TenderPasses` is a lap whose number is no multiple of the cluster's period (cl_cluster.c:1942-1951); the
period itself is not counted. It is taken to be positive: a cluster with a negative `tend_speed` is
never tended, and a `g_clust_tend_speed` of 0 divides by zero.

**Shm.** A lock is free, held, or left by a dead process, and then taken over with
`EOWNERDEAD`. `MaxEvents` bounds crashes, failing requests and changes of the
servers together. `Readers` are the processes whose tender is followed.
`says` is the name a server answers. A slot is looked for by the name the process
knows the node by, and written with the name that is answered (cl_shm.c:359, 379). After a
server was replaced (`Replace`, to one of `NewNames`) the two differ, and then every lap counts one more slot
of that name until there is no room; `moved` keeps the names that such a server gave up or took, and the
properties except these names and no others. The readers compare the name under the lock
(cl_cluster.c:1491), and may find it changed since they looked (`NameStays`, by hand).
A process that leaves joins its updater only when the updater has said that it is one. Otherwise it
unmaps the segment under a thread that waits for the robust lock or has it already
(cl_shm.c:525-549), and a robust lock in memory its owner has unmapped is recovered by nobody: it
stays held. `Lost` says that the lock is in this state, or was locked before its creator died without
having initialised it (`seg = "raw"`); there is no updater any more, and `TakenOver` and `Converges` except it.
`ub` is a lock initialised while another process had it, or the segment unmapped under a
tender that was reading a slot: the PHP extension calls `citrusleaf_shm_free` without stopping the tender.
Left out: the names of hosts, text formats.

**Library.** The hash function is the key modulo the number of buckets, which is
where its quality does not matter; the callbacks of the walks delete any set of
elements. `shash_put` returns without giving back the lock of a bucket in which
it replaced a value (cf_shash.c:161-167), both puts do when memory is short, and the vector's returns for an index
out of bounds keep its lock; both are in the models, and the properties say so.

## 3. Runs

| Run | Bounds | Shows |
|---|---|---|
| `queue` | 2 elements, growth step 2 up to 4 slots, unwrap at 7, limits 1 and 3 | `RingSound`: types, offsets in order and bounded, live slots written, walks; `IsFifo`: the ring implements `Fifo` |
| `queue_wait` | 3 threads, 3 elements | `NoLostWakeup`; `SleepersServed` and `TimedPopReturns` under fairness |
| `cluster` | 3 blocks, 2 servers, 2 addresses, 1 partition, 1 transaction, 1 user thread adding hosts, 1 change, renames | `RefCountExact`, `MapNodesListed`, `DiscoveryUnique` |
| `cluster_converge` | 2 servers, 2 partitions, 1 seed, 2 changes | `ClaimsRecorded`, `MapConverges` |
| `transaction` | 2 threads, 2 descriptors, pool limit 1 | `HoldingsAccounted`: descriptors, clean pools, node references; `ReplyMatches` |
| `transaction_calls` | 1 thread, 2 calls of every kind, with write parameters or none | `ResultHonest`, `CallReturns` |
| `async` | 2 senders, 2 calls, 1 receiver, reinit with 1 or 3 where 2 are the most, limit 1, 2 items, 2 descriptors, a call that has a deadline and one that may have none | `Accounted`, `AnsweredOnce`, `ReplyMatches`; `AcceptedAnswered`, `ShutdownReturns` under fairness |
| `batch` | a batch of 2 digests beside a batch, a scan or a scan of all nodes; 2 nodes, 1 worker, 2 descriptors, pools of 1 | `NodeRefs`, `WorkIsAwaited`, `PoolClean`, `BatchComplete`, `Settles` |
| `cluster_life` | 2 blocks, 2 hosts, 2 threads with five pairs of programs, the tender | `ClustersSound`, `HandlesCounted`; `Returns`, `KeptTended` under fairness |
| `library` | 4 keys in 2 buckets with 2 heap cells and 3 elements; vectors up to 3; 3 list members; 3 poppers and 4 pushes; 3 names, arrays of 2 bins, 4 blocks | `HashSound`, `WalkMeetsAll`, `VectorSound`, `PrioritySound`, `ListSound`, `RequestSound`, `ReplyDelivered` |
| `shm` | 2 processes, one of them followed as a reader, 2 nodes, up to 2 slots, 2 events | `OneUpdater`, `SlotsNamed`, `MapBacksGeneration`, `TakenOver`, `Converges` |
| `cluster_life_tender` | 3 blocks and the programs of `cluster_life` | violated: `TenderSeesLive` |

Why the bounds are enough to be interesting. In `queue` a ring that starts with 2
slots grows once while wrapped, and can then be refused memory; 7 is past one
full turn of the larger ring, so unwrapping happens both with the ring wrapped
and not. In `cluster` a node can be dropped and found again while a transaction
holds the old block (hence 3 blocks for 2 servers), the list is empty at first, so
that the user thread and the tender discover the same servers, and the change is
a crash, a new claim or an address that changes hands; in `cluster_converge` two
changes are a crash and a takeover, or two disagreeing claims. In `transaction` the
pool limit of 1 stands for 300, so that a second connection is one too many; two
descriptors for two threads make reuse of a number happen at once. In `async` the
limit of 1 with two senders lets both pass the test, and an item and a descriptor
are each recycled once; `MaxThreads` of 2 stands for 32 threads, and a reinit with 3 is cut to
it as cl_async.c does. In `batch` two digests are on one node or on two, found or
not, and the second call contends for the one worker and for the connections. In
`cluster_life` two blocks are as many as its programs hold at a time, so that a third
create gets memory to which another thread may still have a pointer. In `library` three
keys share a bucket, so that a chain has a head, a middle and an end; the names are one that begins another and one that
does not. In `shm` two events are a crash and a vote, a crash of both processes, or a replaced
server and a vote or a crash; it takes the name of the other node, or its own again, and the
two slots are full after one more lap. Leaving is no event: each process may do it at any time.
In `cluster_life` two of the pairs keep a cluster beside a thread that releases one, and beside another that is kept.

`cluster_life_tender` states what the comment at cl_cluster.c:251 says, that once a
cluster is out of the list "the tender function will not look into it": the
tender may already be at it, holds no lock, and goes on to the freed cluster.

`ClusterLife_reuse.cfg` (module `MCClusterLife`) is kept for running by hand. It checks `ClustersSound`
and `HandlesCounted` with three blocks, on the programs of `cluster_life` and on one of three
threads, in which a shutdown destroys a cluster under its creator and a create gets its
memory; it passes, and would not without the exception that `torn` makes.

Seven more configurations are kept for running by hand; each states what a comment
says and the code does not do, and TLC refutes it:

* `CfQueue_DeleteTakesAll.cfg` (module `CfQueue`): `cf_queue_delete` with `only_one`
  false skips the element that a deletion in the wrapped part moved into its
  place (cf_queue.c:455).
* `Cluster_ByAddrReadsLive.cfg` (`MCCluster`): "No need to lock nodes list because this
  function is only called by cluster_tend() thread" (cl_cluster.c:96): the user's
  thread calls it too, at the end of `citrusleaf_cluster_add_host`, and may read
  a freed node.
* `Cluster_AddHostWaits.cfg` (`MCCluster`): a tend that began before the host was
  registered sets `found_all`, and `citrusleaf_cluster_add_host` gives up at once.
* `Transaction_SecondServerRead.cfg` (`MCTransaction`): after one failed body read
  `rd_buf` is null for all later tries (citrusleaf.c:1367), so the time given "to
  try two servers" is lost.
* `Library_AllDelivered.cfg` (`MCLibrary`): "0 if OK, -1 if fail" (citrusleaf.c:918) and
  "negative numbers must be sign extended" (citrusleaf.c:558): the failure is not looked
  at and the extension not used, and the call returns OK.
* `Shm_NameStays.cfg` (`Shm`): "Not sure how this could be since we look this up by node
  name" (cl_cluster.c:1490): the updater gives the slot another name between the look and
  the lock, when a server answers another name.
* `Transaction_DeleteMightHaveSucceeded.cfg` (`MCTransaction`): `try` counts turns of
  the loop, not requests sent, so a delete that was sent once and found nothing
  reports success.

Two comments of cf_queue.h disagree with the code in a way `Fifo` makes plain:
`cf_queue_pop` is first in first out (cf_queue.h:73 says LIFO), and
`cf_queue_reduce` stops at the first element it deletes (cf_queue.h:88 says that
it runs the entire queue). A timed pop that is woken to an empty queue returns
before its time is up (cf_queue.h:83).

**Fairness.** `CfQueueWait`: a woken thread gets the mutex, and time passes.
`Cluster`: `cluster_tender_fn` is an endless loop, so the tender always takes its
next step; nothing is assumed of servers, transactions or users.
`Transaction`: a thread inside the call runs, because every socket call has a
time limit; and deadlines pass. Nothing is assumed of the servers.
`Async`: receivers run, because their reads have a time limit and they never wait
but for work; the deadlines of the calls that have one pass; shutdown, once begun, goes on. Senders and the
network may stop. `Batch`: callers, workers and shutdown go on; a read either
finds the server's reply or fails. `ClusterLife`: threads inside a call and the
tender run; of the laps that come to a cluster every so many tend it, since the lap number is
a multiple of a positive period again and again; the polling of destroy is a thread that runs. A cancelled tender ends at its
next sleep or wait; the model asks less, that the join of a shutdown is not possible for
ever without being taken, which is enough for the programs of `cluster_life`. `Shm`: the updater of a live process runs, its
tender finishes what it has begun with a slot, and its endless laps look at every node again and again.
`MapConverges` is about executions in which the servers settle, agree on one
master and at most one prole per partition, each keeps a partition to be master
of, and a seed is up; addresses keep their servers. Under `Renames` it fails by
design: the code only warns about a node that changed its name (cl_cluster.c:1331).

## 4. Proofs

Checked by TLAPS for every value of the constants that satisfies the named
assumptions:

* `CfQueue_proofs!RingCorrect`: the invariant `RingSound` of the `queue` run, for any element
  set, growth step, memory bound and unwrap mark. The inductive invariant `Inv`
  is types, offsets in order, no more elements than slots, offsets bounded,
  every live slot written, and what a walk knows of the elements it has passed
  (`ScanSeen`). The arithmetic is in lemmas about offsets modulo the ring size
  (`ModOffset`, `ModDistinct`), which say where the d-th element after an offset
  is; the effect of each operation on the elements counted from the read offset
  is a lemma of its own (`InsertEffect`, `PopEffect`, `DeleteEffect`).
* `CfQueue_proofs!RingIsFifo`: the ring implements `Fifo`; the abstract contents are
  the elements between the offsets, and the effect lemmas turn into Append, Tail
  and removal of one element.
* `CfQueueWait_proofs!NoWakeupIsLost`: `NoLostWakeup` for any finite set of threads.
  It is inductive with the types: a push wakes one thread if one sleeps, a
  woken thread that leaves takes an element with it or found none.
* `Cluster_proofs`: `CountsAreExact`, `MapIsListed`, `NodesAreUnique` and `ClusterTypes`,
  the invariants of the run `cluster` with the types of the module, for any finite sets of
  partitions, threads and transactions, any addresses, names and blocks, and any
  behaviour of the servers. None of them is inductive alone; `IInv` adds
  * `OneTender`: `CLS_TENDER_RUNNING` admits one thread to `cluster_tend`, so that
    nobody else changes list, nodes or table while a lap runs;
  * `ListOK`: no node is listed twice, the node being pinged is listed (a table update
    therefore never maps an unlisted node), the node on its way in or out is not;
  * `FreshOK`: a node that was created and not yet appended is known by no name and no
    address of the list, which makes the append safe for `DiscoveryUnique`;
  * `BoundsOK`: laps of absence of a listed node, and generations, stay in their range.

  The proof has three parts. The `...Moves` lemmas say, per action, where the thread
  goes and with which node in hand. The `...Core` lemmas show list, table and counts:
  a reference count is a sum of cardinalities, and `CountChange` says what one
  slot, thread or transaction adds to or takes from one of them. The `...Catalog` lemmas
  show what is known of the listed nodes; the step that matters there is that a block
  is blanked only when its last holder is neither the list nor a thread adding it,
  which follows from `RefCountExact`. `IInvNext` puts them together, and steps that only
  look go through `QuietStep`.

  Assumed: sets of partitions, user threads and transactions are finite; the markers
  `NULL`, "idle" and "random" are no blocks; the tender is not a user thread.

* `Cluster_proofs!ClaimsAreRecorded`: `ClaimsRecorded` of the run `cluster_converge`, for any
  cluster, if no address comes to lead to another server (`~ Renames`, as in that run). On
  top of `IInv` it needs `Record`: a listed node's name is that of the server at its addresses
  (`NamedOK`, `HomeOK`, `KnownOK`), a recorded generation is never ahead of the server's
  (`GenOK`), and while a table update is under way its copy of the claim is the
  server's as long as the generation is, with the slots already written at the
  node (`CopyOK`). The step that matters is another node's update: it may take a
  slot, and then that server's claim, and this one's generation, have moved on.
* `Shm_proofs`: `OneUpdaterHolds`, `SlotsNamedHolds` and `MapBacksGenerationHolds`, for any set of
  processes (infinite ones too), any number of nodes and slots, and any number
  of crashes. The properties say nothing once the creator has
  initialised a lock that another process held, or a segment was unmapped under a tender (`ub`); the invariant excepts it
  in the same place. The names in `moved` are excepted from the last two, and the proof shows that nothing else
  has to be: the slot of a node that never moved is found by its name, written with its name, and no other
  slot comes to have it (`MovedOK`: a server that answers another name than its node's has moved, with both names). `IInv` adds: who updates holds the segment's lock (`LockOK`); what each
  place of the updater knows of the slot in its hand, in particular that one being added
  is the one behind the last and has a name no counted slot has (`HandOK`), so that a
  death between the name and the count is harmless; generation, replicas and server
  are ordered in each slot, and an uncounted slot has no replicas (`OrderOK`); and a
  segment not yet initialised is blank (`BlankOK`).
* `Transaction_proofs`: `HoldingsAccountedHolds`, `ReplyMatchesHolds` and `ResultHonestHolds`, for any sets of
  threads, nodes and descriptors, any pool limit from 1 and any number of tries and
  calls. `FdInv` says of descriptors: one that a thread has is open and no one else's
  (`HeldOK`), one that a pool has is clean, in one pool, once (`PoolOK`), an open one is
  somewhere (`NoLeak`), a thread's locals go with its place (`Control`), and a thread's connection has
  nothing on it but the request or the reply of its current try (`Wire`); the two
  properties follow. `IInv` adds what the servers did: for a call of one try, nothing
  before its request left or while it is unanswered (`Effects`), and what the reply on the
  wire, in hand or returned may therefore say (`Told`).
* `Async_proofs`: `AccountedHolds`, `AnsweredOnceHolds` and `ReplyMatchesHolds`, for any number of senders,
  receivers, items, descriptors and calls, and any sequence of re-initialisations.
  `IInv` counts, for each item, the places it can be in and finds one (`PlaceOK`); for each
  descriptor the pool entries and the items that carry it (`FdOK`); and the receivers at
  work against `count` (`ThreadsOK`). `Calls` adds that a call whose item is with a sender was told
  nothing, one whose item is on its way was told that it was accepted, and
  no two items are about one call. `Wires` adds what a connection holds: of an item on
  its way, the whole answer to its call; after the header, the rest of it; in the pool,
  nothing; unless part of a header was lost on it, which the property excepts.
* `ClusterLife_proofs!HandlesCountedHolds`: `HandlesCounted`, for any number of threads, hosts, blocks and
  calls. The property is about programs that get and release, each handle once
  (`Counted`), and excepts the revival of a cluster whose last release is under way (`revived`).
  `IInv` says where a thread is in its plan and what it then owns (`TurnOK`); that what a
  thread works at or owns is not freed, and a cluster being taken apart has no
  reference and one thread at it (`HeldOK`); and the count (`CountOK`). The proof does
  not use the cluster list: whatever a search finds, its count goes up with the
  handle that is made. So it holds also where the tender has followed a stale
  pointer up to the moment it reads freed memory.
* `ClusterLife_proofs!ClustersSoundHolds`: `ClustersSound`, for the same and for any plans, counted
  or not, shutdowns and uncounted PHP handles included. `LInv` is its strengthening (`ListInvariance`):
  * `LTypes` holds whatever was destroyed. The rest holds until a cluster is destroyed
    twice, because deleting what is not in the list empties or cuts it;
  * `Chain`: there is a sequence of the members, each once, that the pointers link in
    both directions (`Linked`). `AppendLinked` and `DeleteLinked` say what `cf_ll_append` and
    `cf_ll_delete` make of that sequence, `ForgetLinked` that a block outside it may be
    freed, and `ChainWalks` that a walk from either end meets exactly it;
  * `EndersOK`: whoever takes a cluster apart has it alone, out of the list, and a
    marked one stays marked. This is what keeps a block from being handed out while it is freed;
  * `TendersOK`: whoever tends a cluster holds its flag, and nobody else tends it, which is
    why `MarkFreed`, that waits for the flag, never frees a cluster under a tend, although the tender
    walks without the list's lock;
  * `NewOK`: a cluster being created is in the list, has one creator and no host, unless
    `torn`.

  That a walk of any length meets the sequence is by the least step at which it would not
  (`Least`, from the well-foundedness of the naturals).
* `Batch_proofs`: `NodeRefsHolds`, `WorkIsAwaitedHolds`, `PoolCleanHolds` and `BatchCompleteHolds`, for
  any finite sets of callers and nodes, any number of digests, workers and descriptors, any
  pool limit, and any replies. `IInv` is their strengthening, in named parts:
  * `Creation` and `Phases`: nothing is pushed or popped before one caller has made queue and
    threads; where each kind of call can be and what its locals are there;
  * `Refs`: the count of a node's holders. The references of a call are the pairs of the
    caller and a digest (`Holds`), so that getting, putting and leaking them add and remove
    disjoint finite sets;
  * `Fds` and `Pools`: a descriptor that is read has one reader and is in no pool, one in a
    pool is there once;
  * `Jobs`: a work is to be pushed, in the queue, or with one worker, never in two of these
    places, and its call is under way and has its node;
  * `Lefts`: what a call waits for is the number of nodes whose work is in one of these
    places (`Pend`) and of the results in its completion queue. So `left = 0` means that no work
    is left, and `BatchReturn` frees what nobody uses any more;
  * `Wires`: what a worker has still to read is a reply to its own request, whole
    or cut into single messages up to an error, unless a scan left it something to read;
    a reply that ends with success has been read to its end, hence `PoolClean`;
  * `Calls`: per digest, nothing has been called back while its node's reply is to come or
    while its record is still on the connection, and once the node's result is in and
    good its record has been called back for. It is what makes `BatchComplete`, which speaks of
    the end only, inductive.

  `ReplyRead` is the lemma about one proto on which `Wires` and `Calls` rest. `ReadersUser` and
  `ReadersWork` say that a step of another thread leaves a worker's connection alone,
  `PendStays` that only the end of a work changes what a call waits for.

Each of these modules has one lemma per action, and lemmas about counting that they
share in form: two sets that differ in one element differ in cardinality by at
most one, and the number of times something is in a sequence changes with Append
and Tail in the expected way.

The theorems assume the named assumptions of the modules and no others: that the
markers `NULL`, `DEAD`, `SHUT`, "idle" and "random" are not members of the sets they
mark; that the sets that are counted are finite; that limits are positive naturals.
`MaxCalls`, `MaxTry` (at least 2), `MaxItems`, `MaxDigests`, `NThreads`, `MaxFds`, `PoolMax`, `MaxThreads` and
`MaxEvents` are parameters of them,
so the bounds of the runs are no bounds of the theorems.

Only model-checked:

* all liveness (`SleepersServed`, `TimedPopReturns`, `MapConverges`, `CallReturns`,
  `AcceptedAnswered`, `ShutdownReturns`, `Settles`, `Returns`, `KeptTended`, `TakenOver`, `Converges`),
  since fairness is out of the prover's reach;
* the properties of `Library`: what a chain of a hash table, a compiled message or a walk
  that deletes what it stands on holds is an induction over data, which this prover cannot do
  (of the list, append, delete and a walk that changes nothing are proved for `ClusterLife`).

## 5. Not modelled, and the plan

Not modelled, and why:

* **PHP extension**, apart from how connect and close use clusters: the calls
  convert Zend values one at a time, and the query code builds a request whose
  client is not in the repository.
* **Packet compression, digest, resolver, logging, clock**: library calls or I/O on
  one buffer, with no state of their own.
* **Request parameters, histograms, averages, statistics**: builders and counters
  that nothing else reads.
* **Text formats** of the info protocol, base64 and the replica bitmap: the modules
  take an answer as what it says.
* Smaller operations, named with their components in `PROJECT.json`:
  `cf_vector_compact`, `cf_vector_getp_vlock`, the destroy functions of containers and
  queues, `compile_digests` (which nothing calls), the settings and statistics of the
  asynchronous client.
* The lookup of a partition in a table that is being created (cl_cluster.c:755): the
  table's size is not part of `Cluster`.

What is worth doing next: an abstract specification of a read of many records (asked for,
called back once each, told of the end) that `Batch` implements for callers that are not
spoiled, for which `Calls` is the invariant; `ListSound` of `Library` from the lemmas about
links that `ClusterLife_proofs` has; and `HashSound` with a prover that has induction over
sequences.

One defect seen while reading is outside any model here: `cl_cluster_node_get_info`
writes the terminating zero at `rbuf[rbuf_size]` (cl_cluster.c:1470).
