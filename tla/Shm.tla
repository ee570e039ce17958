-------------------------------- MODULE Shm ---------------------------------
(***************************************************************************)
(* Node information in shared memory (cl_shm.c): of the processes that use  *)
(* a segment one, the holder of the segment's robust lock, asks the servers *)
(* and writes what they answer; all of them read it instead of asking       *)
(* themselves (cl_cluster.c).  Processes crash, and leave, at any time, and *)
(* another then takes over what they were in the middle of.                 *)
(*                                                                          *)
(* A server's answer is its name and its partition generation, and the      *)
(* replicas text is the generation it was made at, which it contains.  A    *)
(* generation is at least 1; 0 is a slot that was never filled, and NULL    *)
(* the generation of a node whose partitions a process does not know.  A    *)
(* process knows its nodes, and the updater asks them, by the names they    *)
(* had when they were found; which nodes it knows does not change here.     *)
(***************************************************************************)
EXTENDS Naturals, FiniteSets

CONSTANTS
    Proc,       \* processes that use the segment
    Creator,    \* the one that finds no segment there
    NNodes,     \* the nodes of the cluster, 1 .. NNodes, that the tender has found
    Moving,     \* those whose partitions change, or whose server is replaced
    NewNames,   \* the names that a server which takes another's place may answer
    Readers,    \* the processes whose tender is followed
    MaxNodes,   \* bound on g_max_nodes
    MaxEvents,  \* bound: crashes, requests that fail, changes of a server's
                \* partition generation and replaced servers, together
    NULL, DEAD  \* a lock that is free, or whose owner died with it

Node == 1 .. NNodes
\* NULL is the empty name, and stands for every name by which no node is known.
Name == Node \cup {NULL}
Slot == 1 .. MaxNodes

ASSUME ProcAssumption == Creator \in Proc
ASSUME NodesAssumption == NNodes \in Nat \ {0} /\ MaxNodes \in Nat \ {0} /\ Moving \subseteq Node
ASSUME ReadersAssumption == NewNames \subseteq Name /\ Readers \subseteq Proc
ASSUME NullAssumption == NULL \notin Proc \cup Node /\ DEAD \notin Proc

VARIABLES
    srv,        \* the partition generation of the server at each node's addresses
    says,       \* and the name it answers
    moved,      \* history: the nodes whose server was replaced, and the names it took
    seg,        \* none, raw (created, not yet initialised) or ready
    shm,        \* node_count and shm_lock, and the room there is, g_max_nodes
    slot,       \* node_info: name, partition_generation, replicas, ninfo_lock
    pr,         \* processes
    up,         \* updater threads
    rd,         \* what each process knows of each node's partitions
    rt,         \* the tender of each process, between its two looks at a slot
    events,
    ub          \* the segment's lock was initialised while it was locked, or the
                \* segment was unmapped under a tender that had a slot in hand

server == <<srv, says, moved>>
vars == <<srv, says, moved, seg, shm, slot, pr, up, rd, rt, events, ub>>

Fresh == [name |-> NULL, gen |-> 0, rep |-> 0, lock |-> NULL]
Off == [pc |-> "off", i |-> 1, slot |-> 1, add |-> FALSE, req |-> 0, stale |-> FALSE]

Idle == [pc |-> "idle", node |-> 1, slot |-> 1]
Unread == [n \in Node |-> NULL]

Init ==
    /\ srv = [n \in Node |-> 1] /\ says = [n \in Node |-> n] /\ moved = {}
    /\ seg = "none" /\ ub = FALSE
    /\ shm \in [count : {0}, lock : {NULL}, max : Slot] /\ slot = [s \in Slot |-> Fresh]
    /\ pr = [p \in Proc |-> "new"] /\ up = [p \in Proc |-> Off]
    /\ rd = [p \in Proc |-> Unread] /\ rt = [p \in Proc |-> Idle]
    /\ events = 0

Runs(p) == pr[p] \in {"creating", "on", "leaving"}
At(p, pc) == ~ ub /\ Runs(p) /\ up[p].pc = pc
Named(n) == {s \in 1 .. shm.count : slot[s].name = n}
Free(l) == l \in {NULL, DEAD}
Event == events < MaxEvents /\ events' = events + 1

\* The memory of a process that is gone: its updater, and what it knew.
Gone(p) ==
    /\ up' = [up EXCEPT ![p] = Off]
    /\ rt' = [rt EXCEPT ![p] = Idle] /\ rd' = [rd EXCEPT ![p] = Unread]

\* shmdt: a tender that has a slot in hand reads memory that is gone.
Unmap(p) == pr' = [pr EXCEPT ![p] = "left"] /\ ub' = (rt[p].pc # "idle")

\* What becomes of the segment's lock when its owner's thread ends with the
\* segment mapped: the robust lock can be taken by the next, one that was never
\* initialised cannot.
Orphaned(p) == IF shm.lock = p /\ seg = "ready" THEN DEAD ELSE shm.lock

-----------------------------------------------------------------------------
\* citrusleaf_use_shm.

\* The exclusive shmget succeeds for one process.
Create(p) ==
    /\ ~ ub /\ pr[p] = "new" /\ seg = "none" /\ p = Creator
    /\ seg' = "raw" /\ pr' = [pr EXCEPT ![p] = "creating"]
    /\ UNCHANGED <<server, shm, slot, up, rd, rt, events, ub>>

\* memset and the initialisation of the lock, which a process that attached in
\* the meantime may have locked already.
CreateInit(p) ==
    /\ ~ ub /\ pr[p] = "creating" /\ ub' = (shm.lock # NULL)
    /\ seg' = "ready" /\ pr' = [pr EXCEPT ![p] = "on"]
    /\ up' = [up EXCEPT ![p].pc = "lock"]
    /\ UNCHANGED <<server, shm, slot, rd, rt, events>>

\* The others attach, whether or not it has been initialised; once a process
\* has left, the segment is marked for removal and can no longer be attached to.
Attach(p) ==
    /\ ~ ub /\ pr[p] = "new" /\ seg # "none" /\ \A q \in Proc : pr[q] # "left"
    /\ pr' = [pr EXCEPT ![p] = "on"] /\ up' = [up EXCEPT ![p].pc = "lock"]
    /\ UNCHANGED <<server, seg, shm, slot, rd, rt, events, ub>>

-----------------------------------------------------------------------------
\* cl_shm_updater_fn.

\* Mutant of Lockable: the lock of a dead owner is not made consistent.
LockableAlive(l) == l = NULL

\* A robust lock is also got, and made consistent, when its owner died.
Lockable(l) == Free(l)

\* Mutant of UpdaterLocks: what the lock returns is not looked at.
UpdaterLocksUnchecked(p) ==
    /\ At(p, "lock")
    /\ shm' = [shm EXCEPT !.lock = p] /\ up' = [up EXCEPT ![p].pc = "took"]
    /\ UNCHANGED <<server, seg, slot, pr, rd, rt, events, ub>>

UpdaterLocks(p) ==
    /\ At(p, "lock") /\ Lockable(shm.lock)
    /\ shm' = [shm EXCEPT !.lock = p] /\ up' = [up EXCEPT ![p].pc = "took"]
    /\ UNCHANGED <<server, seg, slot, pr, rd, rt, events, ub>>

\* It says so (g_shm_updater), and waits for its period.
UpdaterTook(p) ==
    /\ At(p, "took") /\ up' = [up EXCEPT ![p].pc = "sleep"]
    /\ UNCHANGED <<server, seg, shm, slot, pr, rd, rt, events, ub>>

\* A lap over the nodes, unless the process is leaving: then the thread ends
\* with the lock, the segment still mapped, and the process that waited for it
\* unmaps it.
UpdaterWakes(p) ==
    /\ At(p, "sleep")
    /\ IF pr[p] = "leaving"
       THEN shm' = [shm EXCEPT !.lock = Orphaned(p)] /\ Gone(p) /\ Unmap(p)
       ELSE up' = [up EXCEPT ![p].pc = "ping"] /\ UNCHANGED <<pr, shm, rt, rd, ub>>
    /\ UNCHANGED <<server, seg, slot, events>>

-----------------------------------------------------------------------------
\* cl_shm_node_ping, for node up[p].i.

\* cl_shm_update: the next node, or the end of the lap.
Onward(u) ==
    IF u.i < NNodes THEN [Off EXCEPT !.pc = "ping", !.i = u.i + 1] ELSE [Off EXCEPT !.pc = "sleep"]
Skip(p) == up' = [up EXCEPT ![p] = Onward(up[p])]

\* Mutant of Stale: the replicas are asked for once.
StaleNever(s, req) == slot[s].gen = 0

\* The replicas are asked for when the generations differ.
Stale(s, req) == slot[s].gen # req

\* cl_shm_find_node_from_name, by the name the process knows the node by, or for
\* a new node cl_shm_add_node: the slot behind the last, with a new lock, not yet
\* counted.
Place(n) == IF Named(n) # {} THEN CHOOSE s \in Named(n) : \A t \in Named(n) : s <= t
            ELSE shm.count + 1
Room(n) == Named(n) # {} \/ shm.count < shm.max

\* The server answers, and under the slot's lock the name it answered is written,
\* whatever the slot was found by; whether the replicas are to be asked for is
\* seen there.
PingInfo(p) ==
    /\ At(p, "ping")
    /\ LET n == up[p].i
           s == Place(n)
       IN IF ~ Room(n) THEN Skip(p) /\ UNCHANGED slot
          ELSE /\ Named(n) # {} => Lockable(slot[s].lock)
               /\ slot' = [slot EXCEPT ![s].name = says[n], ![s].lock = NULL]
               /\ up' = [up EXCEPT ![p] = [@ EXCEPT !.pc = "count", !.req = srv[n], !.slot = s,
                                !.add = (Named(n) = {}), !.stale = Stale(s, srv[n])]]
    /\ UNCHANGED <<server, seg, shm, pr, rd, rt, events, ub>>

\* It does not answer one of the two requests.
PingFails(p) ==
    /\ (At(p, "ping") \/ At(p, "replicas")) /\ Event /\ Skip(p)
    /\ UNCHANGED <<server, seg, shm, slot, pr, rd, rt, ub>>

\* Mutant of PingCount: also a slot that was there is counted.
PingCountAlways(p) ==
    /\ At(p, "count") /\ shm' = [shm EXCEPT !.count = IF @ < shm.max THEN @ + 1 ELSE @]
    /\ IF up[p].stale THEN up' = [up EXCEPT ![p].pc = "replicas"] ELSE Skip(p)
    /\ UNCHANGED <<server, seg, slot, pr, rd, rt, events, ub>>

\* Only now does a new slot count.
PingCount(p) ==
    /\ At(p, "count") /\ shm' = [shm EXCEPT !.count = IF up[p].add THEN @ + 1 ELSE @]
    /\ IF up[p].stale THEN up' = [up EXCEPT ![p].pc = "replicas"] ELSE Skip(p)
    /\ UNCHANGED <<server, seg, slot, pr, rd, rt, events, ub>>

\* Mutant of Writes: the generation before the replicas.
WritesSwapped(half, r, n, req) ==
    IF half = "gen" THEN [r EXCEPT !.rep = srv[n]] ELSE [r EXCEPT !.gen = req]

\* The two halves of the update: the replicas that the server at n sends, and
\* then the generation that the first request had brought.
Writes(half, r, n, req) ==
    IF half = "rep" THEN [r EXCEPT !.rep = srv[n]] ELSE [r EXCEPT !.gen = req]

\* The replicas come, and are written under the slot's lock;
PingReplicas(p) ==
    /\ At(p, "replicas") /\ Lockable(slot[up[p].slot].lock)
    /\ slot' = [slot EXCEPT ![up[p].slot] =
                    [Writes("rep", @, up[p].i, up[p].req) EXCEPT !.lock = p]]
    /\ up' = [up EXCEPT ![p].pc = "gen"]
    /\ UNCHANGED <<server, seg, shm, pr, rd, rt, events, ub>>

\* and then the generation.
PingGen(p) ==
    /\ At(p, "gen")
    /\ slot' = [slot EXCEPT ![up[p].slot] =
                    [Writes("gen", @, up[p].i, up[p].req) EXCEPT !.lock = NULL]]
    /\ Skip(p)
    /\ UNCHANGED <<server, seg, shm, pr, rd, rt, events, ub>>

-----------------------------------------------------------------------------
\* cluster_ping_node of a process's tender.

\* The slot that has the node's name is looked for, without a lock.  A look that
\* would find the generation it knows has no effect, and is left out.
ReadFind(p, n) ==
    /\ ~ ub /\ pr[p] = "on" /\ rt[p].pc = "idle" /\ Named(n) # {}
    /\ rd[p][n] # slot[Place(n)].gen
    /\ rt' = [rt EXCEPT ![p] = [pc |-> "found", node |-> n, slot |-> Place(n)]]
    /\ UNCHANGED <<server, seg, shm, slot, pr, up, rd, events, ub>>

\* A node that has no slot is asked itself, and its answer is not used when it
\* gives another name.
ReadServer(p, n) ==
    /\ ~ ub /\ pr[p] = "on" /\ rt[p].pc = "idle" /\ Named(n) = {}
    /\ says[n] = n /\ rd[p][n] # srv[n]
    /\ rd' = [rd EXCEPT ![p][n] = srv[n]]
    /\ UNCHANGED <<server, seg, shm, slot, pr, up, rt, events, ub>>

\* A tender that has found a slot goes on with it, also while its process leaves.
Reads(p, pc) == ~ ub /\ pr[p] \in {"on", "leaving"} /\ rt[p].pc = pc

\* cl_cluster_node_shm_gen_check: under the lock the slot must still have the name,
\* and another generation.
ReadCheck(p) ==
    /\ Reads(p, "found")
    /\ LET s == rt[p].slot
           n == rt[p].node
           update == slot[s].name = n /\ slot[s].gen # rd[p][n]
       IN /\ Lockable(slot[s].lock) /\ slot' = [slot EXCEPT ![s].lock = NULL]
          /\ rt' = [rt EXCEPT ![p] = IF update THEN [@ EXCEPT !.pc = "stale"] ELSE Idle]
    /\ UNCHANGED <<server, seg, shm, pr, up, rd, events, ub>>

\* cl_cluster_node_shm_get_replicas: the text there is by then, unless it is
\* still empty, with the generation it contains.
ReadReplicas(p) ==
    /\ Reads(p, "stale")
    /\ LET s == rt[p].slot
       IN /\ Lockable(slot[s].lock) /\ slot' = [slot EXCEPT ![s].lock = NULL]
          /\ rd' = [rd EXCEPT ![p][rt[p].node] = IF slot[s].rep # 0 THEN slot[s].rep ELSE @]
    /\ rt' = [rt EXCEPT ![p] = Idle]
    /\ UNCHANGED <<server, seg, shm, pr, up, events, ub>>

-----------------------------------------------------------------------------
\* Leaving, crashing, and the servers.

\* citrusleaf_shm_free: the process no longer looks into the segment.  An updater
\* that has said that it is one (g_shm_updater) is told to end and waited for.  Otherwise
\* the segment is unmapped at once: under a thread that waits for its lock, or
\* that has it and says so too late.  That thread ends without touching the segment
\* again, and a robust lock in memory that is no longer mapped is not recovered:
\* it stays held.
ShmFree(p) ==
    /\ ~ ub /\ pr[p] = "on"
    /\ CASE up[p].pc = "lock" -> /\ Unmap(p) /\ UNCHANGED up
                                 /\ rt' = [rt EXCEPT ![p] = Idle] /\ rd' = [rd EXCEPT ![p] = Unread]
         [] up[p].pc = "took" -> Unmap(p) /\ Gone(p)
         [] OTHER -> pr' = [pr EXCEPT ![p] = "leaving"] /\ UNCHANGED <<up, rt, rd, ub>>
    /\ UNCHANGED <<server, seg, shm, slot, events>>

\* The thread that was left waiting ends with its process, or it is woken by the
\* end of the lock's owner, touches memory that is gone, and ends then.  That wakeup
\* is used up: unless somebody does not sleep yet, the lock, though nobody's, is
\* lost to those who do.
StrayEnds(p) ==
    /\ ~ ub /\ pr[p] = "left" /\ up[p].pc = "lock"
    /\ up' = [up EXCEPT ![p] = Off]
    /\ \/ UNCHANGED shm
       \/ shm.lock = DEAD /\ shm' = [shm EXCEPT !.lock = p]
    /\ UNCHANGED <<server, seg, slot, pr, rd, rt, events, ub>>

\* A process dies, and with it the owner of its locks.
Crash(p) ==
    /\ ~ ub /\ Runs(p) /\ Event
    /\ pr' = [pr EXCEPT ![p] = "dead"] /\ Gone(p)
    /\ shm' = [shm EXCEPT !.lock = Orphaned(p)]
    /\ slot' = [s \in Slot |-> [slot[s] EXCEPT !.lock = IF @ = p THEN DEAD ELSE @]]
    /\ UNCHANGED <<server, seg, ub>>

\* The partitions of a node change.
Revote(n) ==
    /\ ~ ub /\ Event
    /\ srv' = [srv EXCEPT ![n] = @ + 1]
    /\ UNCHANGED <<says, moved, seg, shm, slot, pr, up, rd, rt, ub>>

\* A server begins anew, or another one gets its addresses: its generation starts
\* again, and it may answer another name, or none.
Replace(n, m) ==
    /\ ~ ub /\ Event
    /\ srv' = [srv EXCEPT ![n] = 1] /\ says' = [says EXCEPT ![n] = m]
    /\ moved' = moved \cup {n, m}
    /\ UNCHANGED <<seg, shm, slot, pr, up, rd, rt, ub>>

-----------------------------------------------------------------------------
Ping(p) == PingInfo(p) \/ PingCount(p) \/ PingReplicas(p) \/ PingGen(p)
Updater(p) == UpdaterLocks(p) \/ UpdaterTook(p) \/ UpdaterWakes(p) \/ Ping(p)
Look(p, n) == ReadFind(p, n) \/ ReadServer(p, n)
Tender(p) ==
    \/ \E n \in Node : Look(p, n)
    \/ ReadCheck(p) \/ ReadReplicas(p)

Next ==
    \/ \E p \in Proc :
        \/ Create(p) \/ CreateInit(p) \/ Attach(p)
        \/ Updater(p) \/ PingFails(p)
        \/ ShmFree(p) \/ StrayEnds(p) \/ Crash(p)
    \/ \E p \in Readers : Tender(p)
    \/ \E n \in Moving : Revote(n) \/ \E m \in NewNames : Replace(n, m)

Spec == Init /\ [][Next]_vars

\* A process's threads run, and the laps of a tender come to every node again and
\* again.  That a server answers at last is in the bound on the requests that fail.
FairSpec ==
    /\ Spec
    /\ \A p \in Proc : WF_vars(CreateInit(p) \/ Updater(p))
    /\ \A p \in Readers :
        /\ WF_vars(ReadCheck(p) \/ ReadReplicas(p))
        /\ \A n \in Node : SF_vars(Look(p, n))

-----------------------------------------------------------------------------
\* Properties.

\* Every variable has its type.
TypeOK ==
    /\ srv \in [Node -> Nat] /\ says \in [Node -> Name] /\ moved \subseteq Name
    /\ seg \in {"none", "raw", "ready"} /\ shm.count \in 0 .. shm.max
    /\ rd \in [Proc -> [Node -> Nat \cup {NULL}]]
    /\ \A s \in Slot : slot[s].name \in Name /\ slot[s].lock \in Proc \cup {NULL, DEAD}
    /\ pr \in [Proc -> {"new", "creating", "on", "leaving", "left", "dead"}]
    /\ \A p \in Proc : up[p].slot \in Slot /\ up[p].i \in Node
    /\ \A p \in Proc : rt[p].slot \in Slot /\ rt[p].node \in Node

Updating == {p \in Proc : Runs(p) /\ up[p].pc \notin {"off", "lock"}}

\* At most one process updates the segment, also while one takes over from a
\* process that crashed or left, unless the lock was overwritten in use.
OneUpdater == ~ ub => Cardinality(Updating) <= 1

\* Types apart: a node has one counted slot at the most, and no counted slot is nameless, also
\* after an updater died while it added one and the next one began again.
\* Excepted are the names that a replaced server gave up or took: the slot is looked
\* for by one name and written with the other, so every lap counts one more
\* (cl_shm_node_ping), until there is no room.  The other nodes' slots must bear that.
SlotsNamed ==
    TypeOK /\ (~ ub => \A s, t \in 1 .. shm.count :
        \/ slot[s].name \in moved
        \/ slot[s].name # NULL /\ (slot[s].name = slot[t].name => s = t))

\* "Update the local partition generation only after successful update of
\* partition map": a slot's replicas are never older than its generation, also
\* when the updater died between the two, so that a reader which goes by the
\* generation never keeps partitions that are older.  Excepted are names of replaced
\* servers, whose generations start again.
MapBacksGeneration ==
    ~ ub => \A s \in Slot : slot[s].name \in moved \/ slot[s].rep >= slot[s].gen

\* The segment's lock is held for ever: its owner is not there any more and could
\* not be found dead, because it had unmapped the segment or the lock was never
\* initialised (citrusleaf_shm_free, citrusleaf_use_shm).
Lost == shm.lock \in {p \in Proc : ~ Runs(p)}

\* What "Not sure how this could be since we look this up by node name..."
\* (cl_cluster.c:1490) takes for granted: a slot that was found by its name still has it when
\* its lock is taken.  It does not: the updater renames it in between.
NameStays == ~ ub => \A p \in Readers : rt[p].pc = "found" => slot[rt[p].slot].name = rt[p].node

\* A process that uses the segment is served: as long as it does, some process
\* updates, unless the lock is lost.
TakenOver ==
    \A p \in Proc : pr[p] = "on" ~> ub \/ Lost \/ pr[p] # "on" \/ Updating # {}

\* When the servers have come to rest every process that uses the segment knows
\* their partitions, unless the segment's lock is lost; of a node whose server was
\* replaced, or whose name a replaced one took, nothing is said.
Converges ==
    <>[](\/ ub \/ Lost
         \/ \A p \in Readers : pr[p] = "on" => \A n \in Node \ moved : rd[p][n] = srv[n])

=============================================================================
