---------------------------- MODULE ClusterLife -----------------------------
(***************************************************************************)
(* The life of a cluster object (cl_cluster.c): created and found through   *)
(* the global cluster list, counted by get_or_create and release, lent      *)
(* without a count by the PHP extension's connect, destroyed by the last    *)
(* release, by a connect that found no node or by shutdown, and walked all  *)
(* the while by the tender thread, which does not take the list's lock.     *)
(*                                                                          *)
(* A cluster is a block of memory that malloc hands out again once it is    *)
(* freed.  The contents of a tend (nodes, partitions) are the module        *)
(* Cluster's; here a tend has a beginning and an end, may find a node, and  *)
(* owns the state flag in between.                                          *)
(***************************************************************************)
EXTENDS Naturals, FiniteSets, Sequences, SequencesExt

CONSTANTS
    Block,      \* blocks of memory that can hold a cluster: an interval
    Host,
    User,       \* client threads
    Slot,       \* variables (or PHP objects) in which a thread keeps a cluster
    Plans,      \* what the threads do: a set of functions from User to calls
    NULL

LL == INSTANCE CfLL

ASSUME BlockAssumption == IsFiniteSet(Block) /\ Block \subseteq Nat /\ NULL \notin Block
ASSUME UserAssumption == IsFiniteSet(User) /\ IsFiniteSet(Slot)
ASSUME PlansAssumption ==
    \A p \in Plans : \A u \in User :
        p[u] \in Seq([op : {"get_or_create", "cluster_get", "release", "shutdown"},
                      slot : Slot, host : Host])

MaxTends == 2   \* tends of one add_host: the first, and one of its wait loop

VARIABLES
    plan,       \* the calls of each thread, chosen at the start
    blk,        \* the clusters
    ll,         \* cluster_ll
    member,     \* the clusters that were appended and not yet deleted
    ux,         \* client threads
    handle,     \* handle[u][s]: the pointer kept in a slot
    own,        \* the slots that hold a counted reference not yet given back
    tender,     \* the tender thread
    revived,    \* get_or_create has found a cluster with a count of zero
    twice,      \* some cluster was destroyed a second time
    torn,       \* one was destroyed while a thread was still creating it
    ub          \* freed memory or a null pointer was used

vars == <<plan, blk, ll, member, ux, handle, own, tender, revived, twice, torn, ub>>
ghosts == <<plan, revived, twice, torn>>

Blank == [mem |-> "fresh", tending |-> FALSE, freed |-> FALSE, ready |-> FALSE,
          ref |-> 0, hosts |-> {}, nodes |-> FALSE]

\* A thread about to make the n-th call of its plan.
Idle(n) == [pc |-> "idle", at |-> n, asc |-> NULL, tends |-> 0, ok |-> FALSE, look |-> {}]

\* citrusleaf_cluster_init: an empty list and the tender thread.
Init ==
    /\ plan \in Plans /\ ux = [u \in User |-> Idle(1)]
    /\ blk = [b \in Block |-> Blank] /\ ll = LL!cf_ll_init(Block) /\ member = {}
    /\ handle = [u \in User |-> [s \in Slot |-> NULL]]
    /\ own = [u \in User |-> {}]
    /\ tender = [pc |-> "sleep", e |-> NULL, look |-> {}]
    /\ revived = FALSE /\ twice = FALSE /\ torn = FALSE /\ ub = FALSE

Live(b) == blk[b].mem = "live"
\* Where a thread is, in a process about which something can still be said.
At(u, pc) == ~ ub /\ ux[u].pc = pc
TenderAt(pc) == ~ ub /\ tender.pc = pc
Busy(u) == ux[u].at <= Len(plan[u])
Call(u) == plan[u][ux[u].at]
Return(u) == ux' = [ux EXCEPT ![u] = Idle(ux[u].at + 1)]
\* The pointer of the caller after a call that left it no cluster: get_or_create
\* returns null, release nulls it, a connect that fails leaves it alone.
Nothing(u) ==
    /\ Return(u)
    /\ handle' = IF Call(u).op = "cluster_get" THEN handle
                 ELSE [handle EXCEPT ![u][Call(u).slot] = NULL]
Goto(u, pc) == ux' = [ux EXCEPT ![u].pc = pc]

\* A pointer to freed memory was followed.
Undefined ==
    ub' = TRUE /\ UNCHANGED <<blk, ll, member, ux, handle, own, tender, ghosts>>

-----------------------------------------------------------------------------
\* Finding and creating.

\* The first cluster of the list that has the host, if there is one.
Listed == LL!Walk(ll, TRUE, Cardinality(Block) + 1)
Found(h) ==
    {b \in Block : \E k \in DOMAIN Listed :
        /\ Listed[k] = b /\ h \in blk[b].hosts
        /\ \A j \in 1 .. (k - 1) : h \notin blk[Listed[j]].hosts}

\* get_or_create counts what it found; cluster_get, for PHP, does not.
GetHit(u, b) ==
    /\ IF Call(u).op = "get_or_create"
       THEN /\ blk' = [blk EXCEPT ![b].ref = @ + 1]
            /\ own' = [own EXCEPT ![u] = @ \cup {Call(u).slot}]
            /\ revived' = (revived \/ blk[b].ref = 0)
       ELSE UNCHANGED <<blk, own, revived>>
    /\ handle' = [handle EXCEPT ![u][Call(u).slot] = b] /\ Return(u)

\* The search, under the lock of the list.
Get(u) ==
    /\ At(u, "idle") /\ Busy(u)
    /\ Call(u).op \in {"get_or_create", "cluster_get"}
    /\ LET hits == Found(Call(u).host)
       IN IF \E c \in ToSet(Listed) : ~ Live(c) THEN Undefined
          ELSE /\ \/ \E b \in hits : GetHit(u, b)
                  \/ /\ hits = {} /\ Goto(u, "create")
                     /\ UNCHANGED <<blk, handle, own, revived>>
               /\ UNCHANGED <<plan, ll, member, tender, twice, torn, ub>>

\* malloc: memory that was freed, or the next that was never used.
Fresh == {b \in Block : blk[b].mem = "fresh"}
Malloced == {b \in Block : blk[b].mem = "freed"}
            \cup {b \in Fresh : \A c \in Fresh : b <= c}

\* citrusleaf_cluster_create: in the list, where the tender can see it, before
\* the last fields are set.
citrusleaf_cluster_create(u) ==
    /\ At(u, "create")
    /\ \E b \in Malloced :
        /\ blk' = [blk EXCEPT ![b] = [Blank EXCEPT !.mem = "live", !.ref = 1]]
        /\ ll' = LL!cf_ll_append(ll, b) /\ member' = member \cup {b}
        /\ ux' = [ux EXCEPT ![u].pc = "ready", ![u].asc = b]
    /\ UNCHANGED <<handle, own, tender, ghosts, ub>>

CreateEnd(u) ==
    /\ At(u, "ready")
    /\ IF Live(ux[u].asc)
       THEN /\ blk' = [blk EXCEPT ![ux[u].asc].ready = TRUE] /\ Goto(u, "add")
            /\ UNCHANGED <<ll, member, handle, own, tender, ghosts, ub>>
       ELSE Undefined

-----------------------------------------------------------------------------
\* Tending.

\* Mutant of TendBegins: two tends of one cluster at a time.
TendBeginsBusy(b) == ~ blk[b].freed

\* cluster_tend goes to work unless the cluster is being freed or tended.
TendBegins(b) == ~ blk[b].freed /\ ~ blk[b].tending

\* Mutant of TendEnds: the flag is left standing when a node was found.
TendEndsFlagged(b, look) ==
    \E found \in BOOLEAN :
        /\ found => look # {}
        /\ blk' = [blk EXCEPT ![b].tending = found, ![b].nodes = @ \/ found]

\* Its end; with a host to ask it may have found a node.
TendEnds(b, look) ==
    \E found \in BOOLEAN :
        /\ found => look # {}
        /\ blk' = [blk EXCEPT ![b].tending = FALSE, ![b].nodes = @ \/ found]

\* Hosts that a tend looks up, read as it begins.
TendLooks(b) == blk[b].hosts

-----------------------------------------------------------------------------
\* citrusleaf_cluster_add_host, called by both ways of getting a cluster.

\* A host that cannot be looked up is not added.
AddHost(u) ==
    /\ At(u, "add")
    /\ LET b == ux[u].asc
       IN IF ~ Live(b) THEN Undefined
          ELSE /\ \/ /\ blk' = [blk EXCEPT ![b].hosts = @ \cup {Call(u).host}]
                     /\ ux' = [ux EXCEPT ![u].pc = "tend", ![u].tends = MaxTends]
                  \/ UNCHANGED blk /\ Goto(u, "added")
               /\ UNCHANGED <<ll, member, handle, own, tender, ghosts, ub>>

AddHostTend(u) ==
    /\ At(u, "tend")
    /\ LET b == ux[u].asc
       IN IF ~ Live(b) THEN Undefined
          ELSE /\ IF ux[u].tends = 0
                  THEN /\ ux' = [ux EXCEPT ![u].pc = "added", ![u].ok = blk[b].nodes]
                       /\ UNCHANGED blk
                  ELSE IF TendBegins(b)
                  THEN /\ blk' = [blk EXCEPT ![b].tending = TRUE]
                       /\ ux' = [ux EXCEPT ![u].pc = "tending", ![u].look = TendLooks(b)]
                  ELSE ux' = [ux EXCEPT ![u].tends = @ - 1] /\ UNCHANGED blk
               /\ UNCHANGED <<ll, member, handle, own, tender, ghosts, ub>>

AddHostTended(u) ==
    /\ At(u, "tending")
    /\ TendEnds(ux[u].asc, ux[u].look)
    /\ ux' = [ux EXCEPT ![u].pc = "tend", ![u].tends = @ - 1]
    /\ UNCHANGED <<ll, member, handle, own, tender, ghosts, ub>>

\* A host that was not reached: get_or_create releases the cluster and
\* cluster_get destroys it, whoever may have found it in the list by now.
AddHostReturns(u) ==
    /\ At(u, "added")
    /\ IF ux[u].ok
       THEN /\ handle' = [handle EXCEPT ![u][Call(u).slot] = ux[u].asc]
            /\ own' = [own EXCEPT ![u] = @ \cup {Call(u).slot}] /\ Return(u)
       ELSE /\ Goto(u, IF Call(u).op = "cluster_get" THEN "destroy" ELSE "release")
            /\ UNCHANGED <<handle, own>>
    /\ UNCHANGED <<blk, ll, member, tender, ghosts, ub>>

-----------------------------------------------------------------------------
\* Releasing and destroying.

\* citrusleaf_cluster_release_or_destroy(&handle), PHP's close.
Close(u) ==
    /\ At(u, "idle") /\ Busy(u) /\ Call(u).op = "release"
    /\ LET b == handle[u][Call(u).slot]
       IN IF b = NULL THEN Return(u)
          ELSE ux' = [ux EXCEPT ![u].pc = "release", ![u].asc = b]
    /\ UNCHANGED <<blk, ll, member, handle, own, tender, ghosts, ub>>

\* Mutant of Release: the last reference is found before it is given back.
ReleaseEarly(u) ==
    /\ At(u, "release")
    /\ LET b == ux[u].asc
       IN IF ~ Live(b) THEN Undefined
          ELSE /\ blk' = [blk EXCEPT ![b].ref = IF @ > 0 THEN @ - 1 ELSE @]
               /\ own' = IF Call(u).op = "release" THEN [own EXCEPT ![u] = @ \ {Call(u).slot}]
                         ELSE own
               /\ IF blk[b].ref \in {1, 2} THEN Goto(u, "destroy") /\ UNCHANGED handle
                  ELSE IF Call(u).op = "release" THEN Return(u) /\ UNCHANGED handle
                  ELSE Nothing(u)
               /\ UNCHANGED <<ll, member, tender, ghosts, ub>>

\* The count goes down under the cluster's lock; who brought it to zero goes on
\* to destroy the cluster without it.  Only then is the caller's pointer nulled.
Release(u) ==
    /\ At(u, "release")
    /\ LET b == ux[u].asc
       IN IF ~ Live(b) THEN Undefined
          ELSE /\ blk' = [blk EXCEPT ![b].ref = IF @ > 0 THEN @ - 1 ELSE @]
               /\ own' = IF Call(u).op = "release" THEN [own EXCEPT ![u] = @ \ {Call(u).slot}]
                         ELSE own
               /\ IF blk[b].ref = 1 THEN Goto(u, "destroy") /\ UNCHANGED handle
                  ELSE IF Call(u).op = "release" THEN Return(u) /\ UNCHANGED handle
                  ELSE Nothing(u)
               /\ UNCHANGED <<ll, member, tender, ghosts, ub>>

\* citrusleaf_cluster_destroy: out of the list.
Unlink(u) ==
    /\ At(u, "destroy")
    /\ LET b == ux[u].asc
       IN IF ~ Live(b) \/ LL!DeleteFaults(ll, b) THEN Undefined
          ELSE /\ ll' = LL!cf_ll_delete(ll, b) /\ member' = member \ {b}
               /\ twice' = (twice \/ b \notin member) /\ Goto(u, "free")
               /\ torn' = (torn \/ \E v \in User : ux[v].pc \in {"ready", "add"} /\ ux[v].asc = b)
               /\ UNCHANGED <<plan, blk, handle, own, tender, revived, ub>>

\* Destroy sleeps for a second and looks again while the cluster is tended.
Destroyable(b) == ~ blk[b].tending

MarkFreed(u) ==
    /\ At(u, "free")
    /\ LET b == ux[u].asc
       IN IF ~ Live(b) THEN Undefined
          ELSE /\ Destroyable(b) /\ blk' = [blk EXCEPT ![b].freed = TRUE] /\ Goto(u, "freeing")
               /\ UNCHANGED <<ll, member, handle, own, tender, ghosts, ub>>

\* Hosts, nodes, partition tables and the block itself are freed.  A release
\* then nulls the pointer it was given, and shutdown takes the next cluster.
\* What the block held is forgotten: to read it is Undefined.
Free(u) ==
    /\ At(u, "freeing")
    /\ IF ~ Live(ux[u].asc) THEN Undefined
       ELSE /\ blk' = [blk EXCEPT ![ux[u].asc] = [Blank EXCEPT !.mem = "freed"]]
            /\ ll' = [ll EXCEPT !.next[ux[u].asc] = NULL, !.prev[ux[u].asc] = NULL]
            /\ IF Call(u).op = "shutdown" THEN Goto(u, "idle") /\ UNCHANGED handle
               ELSE Nothing(u)
            /\ UNCHANGED <<member, own, tender, ghosts, ub>>

-----------------------------------------------------------------------------
\* citrusleaf_cluster_shutdown, without the lock of the list.

Shutdown(u) ==
    /\ At(u, "idle") /\ Busy(u) /\ Call(u).op = "shutdown"
    /\ ux' = [ux EXCEPT ![u].pc = IF ll.head = NULL THEN "join" ELSE "destroy",
                        ![u].asc = ll.head]
    /\ UNCHANGED <<blk, ll, member, handle, own, tender, ghosts, ub>>

\* The tender ends where it sleeps or waits for a server.
ShutdownJoin(u) ==
    /\ At(u, "join") /\ tender.pc \in {"sleep", "tending", "cancelled"}
    /\ tender' = [tender EXCEPT !.pc = "cancelled"] /\ Return(u)
    /\ UNCHANGED <<blk, ll, member, handle, own, ghosts, ub>>

-----------------------------------------------------------------------------
\* cluster_tender_fn.

TenderWakes ==
    /\ TenderAt("sleep") /\ ll.head # NULL
    /\ tender' = [tender EXCEPT !.pc = "at", !.e = ll.head]
    /\ UNCHANGED <<blk, ll, member, ux, handle, own, ghosts, ub>>

TenderTends ==
    /\ TenderAt("at")
    /\ IF ~ Live(tender.e) THEN Undefined
       ELSE /\ IF TendBegins(tender.e)
               THEN /\ blk' = [blk EXCEPT ![tender.e].tending = TRUE]
                    /\ tender' = [tender EXCEPT !.pc = "tending", !.look = TendLooks(tender.e)]
               ELSE tender' = [tender EXCEPT !.pc = "next"] /\ UNCHANGED blk
            /\ UNCHANGED <<ll, member, ux, handle, own, ghosts, ub>>

\* In a lap whose number is no multiple of the cluster's period, it is passed over.
TenderPasses ==
    /\ TenderAt("at")
    /\ IF ~ Live(tender.e) THEN Undefined
       ELSE /\ tender' = [tender EXCEPT !.pc = "next"]
            /\ UNCHANGED <<blk, ll, member, ux, handle, own, ghosts, ub>>

TenderTended ==
    /\ TenderAt("tending") /\ TendEnds(tender.e, tender.look)
    /\ tender' = [tender EXCEPT !.pc = "next", !.look = {}]
    /\ UNCHANGED <<ll, member, ux, handle, own, ghosts, ub>>

\* Mutant of TenderNext: the walk ends after its first cluster.
TenderNextEnds ==
    /\ TenderAt("next")
    /\ IF ~ Live(tender.e) THEN Undefined
       ELSE /\ tender' = [tender EXCEPT !.e = NULL, !.pc = "sleep"]
            /\ UNCHANGED <<blk, ll, member, ux, handle, own, ghosts, ub>>

\* The next pointer is read from a cluster that is no longer held.
TenderNext ==
    /\ TenderAt("next")
    /\ IF ~ Live(tender.e) THEN Undefined
       ELSE /\ tender' = [tender EXCEPT !.e = ll.next[tender.e],
                !.pc = IF ll.next[tender.e] = NULL THEN "sleep" ELSE "at"]
            /\ UNCHANGED <<blk, ll, member, ux, handle, own, ghosts, ub>>

-----------------------------------------------------------------------------
Thread(u) ==
    \/ Get(u) \/ citrusleaf_cluster_create(u) \/ CreateEnd(u)
    \/ AddHost(u) \/ AddHostTend(u) \/ AddHostTended(u) \/ AddHostReturns(u)
    \/ Close(u) \/ Release(u) \/ Unlink(u) \/ MarkFreed(u) \/ Free(u)
    \/ Shutdown(u) \/ ShutdownJoin(u)

Tender == TenderWakes \/ TenderTends \/ TenderPasses \/ TenderTended \/ TenderNext

Next == (\E u \in User : Thread(u)) \/ Tender

Spec == Init /\ [][Next]_vars

\* Threads run; and of the laps that come to a cluster every so many tend it: the
\* periods are positive (tend_speed, and g_clust_tend_speed for those that have none).
FairSpec ==
    /\ Spec /\ WF_vars(Tender) /\ \A u \in User : WF_vars(Thread(u))
    /\ \A b \in Block : SF_vars(TenderTends /\ tender.e = b)

-----------------------------------------------------------------------------
\* Properties.

\* Every variable has its type.
TypeOK ==
    /\ \A b \in Block :
        /\ blk[b].mem \in {"fresh", "live", "freed"} /\ blk[b].ref \in Nat
        /\ blk[b].hosts \subseteq Host /\ {blk[b].nodes, blk[b].ready} \subseteq BOOLEAN
    /\ ll.head \in Block \cup {NULL} /\ ll.tail \in Block \cup {NULL} /\ ll.sz \in Nat
    /\ \A u \in User : handle[u] \in [Slot -> Block \cup {NULL}] /\ own[u] \subseteq Slot
    /\ tender.pc \in {"sleep", "at", "tending", "next", "cancelled"}
    /\ tender.e \in Block \cup {NULL}

\* The cluster list links exactly the clusters that were created and not yet
\* unlinked, alike in both directions, and counts them, unless one cluster was
\* destroyed twice.
ListSound ==
    ~ twice =>
        LET forth == Listed
        IN /\ ToSet(forth) = member /\ IsInjective(forth) /\ Len(forth) = ll.sz
           /\ LL!Walk(ll, FALSE, Cardinality(Block) + 1) = Reverse(forth)
           /\ \A b \in member : Live(b)

Tending(b) ==
    {u \in User : ux[u].pc = "tending" /\ ux[u].asc = b}
    \cup {t \in {NULL} : tender.pc = "tending" /\ tender.e = b}

\* The state flags keep destroy and the tends apart: a cluster is tended by one
\* thread at a time and is not freed under it, unless one cluster was destroyed
\* twice; and it is complete if it has hosts, unless one was destroyed (by a
\* shutdown, or a second close of a PHP object) while its creator, which may get
\* the same memory from someone else's create, had not added its host.
TendPinned ==
    ~ twice => \A b \in Block :
        /\ Cardinality(Tending(b)) <= 1
        /\ Tending(b) # {} => Live(b) /\ ~ blk[b].freed
        /\ ~ torn /\ blk[b].hosts # {} /\ Live(b) => blk[b].ready

\* The cluster list and the flags of its clusters are sound: types, ListSound and
\* TendPinned together, whatever the order of create, destroy and tend.
ClustersSound == TypeOK /\ ListSound /\ TendPinned

\* A program that only gets and releases, each handle once.
Counted ==
    \A u \in User : \A k \in DOMAIN plan[u] :
        IF k % 2 = 1 THEN plan[u][k].op = "get_or_create"
        ELSE plan[u][k].op = "release" /\ plan[u][k].slot = plan[u][k - 1].slot

Creating(u, b) ==
    /\ ux[u].asc = b /\ Call(u).op = "get_or_create"
    /\ ux[u].pc \in {"ready", "add", "tend", "tending", "added", "release"}

\* Of such a program every cluster's count is the number of handles on it, the
\* one being made included, also when several threads created clusters for one
\* host at once, found each other's, or failed to reach it; except after
\* get_or_create has found a cluster whose last release had not yet taken it out
\* of the list.
RefExact ==
    Counted /\ ~ revived => \A b \in Block : Live(b) =>
        blk[b].ref = Cardinality({x \in User \X Slot :
                                    x[2] \in own[x[1]] /\ handle[x[1]][x[2]] = b})
                     + Cardinality({u \in User : Busy(u) /\ Creating(u, b)})

\* And no handle is on a freed cluster, with the same exception.
HandleLive ==
    Counted /\ ~ revived => \A u \in User : \A s \in own[u] : Live(handle[u][s])

\* The references that get_or_create and release count are those the program
\* holds, and they keep its clusters: RefExact and HandleLive together.
HandlesCounted == RefExact /\ HandleLive

\* Every call comes back, if need be after the tend it waits for, unless a freed
\* cluster was looked into, after which anything may happen, shutdown cancelled
\* the tender in the middle of a tend, or a cluster was destroyed twice.
Returns ==
    <>[](\/ ub \/ twice
         \/ \A u \in User : ~ Busy(u)
         \/ tender.pc = "cancelled" /\ \E b \in Block : blk[b].tending)

\* A cluster that is in the list is tended again and again, at its period, until it
\* is taken out, or shutdown ends the tender, which no later init starts again; a
\* freed cluster that was looked into and one destroyed twice are excepted again.
KeptTended ==
    \A b \in Block :
        b \in member ~> \/ ub \/ twice \/ tender.pc = "cancelled"
                        \/ b \notin member \/ Tending(b) # {}

\* "First remove the entry from global linked list of clusters so that the
\* tender function will not look into it": the tender is never at a cluster
\* that was freed.
TenderSeesLive == tender.pc \in {"at", "next"} => Live(tender.e)

=============================================================================
