------------------------------- MODULE CfShash ------------------------------
(***************************************************************************)
(* The hash table of cf_shash.c: a table of head elements, each the start   *)
(* of a chain of elements from the heap.  A head is part of the table and   *)
(* cannot be unlinked: when it is deleted its successor is copied into it   *)
(* and the successor's cell is freed.                                       *)
(*                                                                          *)
(* The calls on one bucket hold the lock from begin to end and are one step *)
(* each.  With a lock for each bucket (MANYLOCK) shash_get_size,            *)
(* shash_reduce and shash_reduce_delete go through the table bucket by      *)
(* bucket, and other threads come in between; with one lock (BIGLOCK) they  *)
(* hold it all the way.                                                     *)
(***************************************************************************)
EXTENDS Integers, FiniteSets, Sequences, SequencesExt

CONSTANTS
    Key,
    Value,      \* the values each key is given
    NBuckets,   \* table_len
    Heap,       \* cells malloc can hand out: an interval above the buckets
    MaxElements,    \* bound: a table of this many keys is given no further one
    Walker,     \* threads that reduce or take the size
    NULL

VARIABLES
    mode,       \* flags: BIGLOCK or MANYLOCK
    cell,       \* the elements, in the table and in the heap
    heap,       \* cells that are allocated
    elements,   \* the counter
    held,       \* locks that some call has taken and not released
    vlocked,    \* the locks that shash_get_vlock has handed to its caller
    leaked,     \* the locks that a put has left locked for good
    walk,       \* walkers
    ref,        \* what the table stands for: the last value put for each key
    out         \* the last answer was what it should have been

vars == <<mode, cell, heap, elements, held, vlocked, leaked, walk, ref, out>>
table == <<cell, heap, elements, ref>>

Bucket == 0 .. NBuckets - 1
Hash(k) == k % NBuckets
BIG == -1
Lock(b) == IF mode = "biglock" THEN BIG ELSE b
Vacant == [in_use |-> FALSE, key |-> NULL, value |-> NULL, next |-> NULL]
NotFound == "notfound"

\* shash_create.
Init ==
    /\ mode \in {"biglock", "manylock"}
    /\ cell = [c \in Bucket \cup Heap |-> Vacant] /\ heap = {} /\ elements = 0
    /\ held = {} /\ vlocked = {} /\ leaked = {} /\ ref = [k \in Key |-> NULL]
    /\ walk = [w \in Walker |-> [pc |-> "idle"]]
    /\ out = TRUE

\* The cells of a bucket's chain, its head first.
Chain(b) ==
    LET w[n \in 1 .. Cardinality(Heap) + 1] ==
        IF n = 1 THEN IF cell[b].in_use THEN <<b>> ELSE <<>>
        ELSE LET p == w[n - 1]
             IN IF Len(p) < n - 1 \/ cell[p[n - 1]].next = NULL THEN p
                ELSE Append(p, cell[p[n - 1]].next)
    IN w[Cardinality(Heap) + 1]

\* The place of a key in its chain; 0 if it is not there.
Place(k) ==
    LET c == Chain(Hash(k))
    IN SelectInSeq(c, LAMBDA e : cell[e].key = k)

Cell(k) == Chain(Hash(k))[Place(k)]
Stored == {k \in Key : ref[k] # NULL}
Here(k) == Place(k) # 0
Lowest == CHOOSE c \in Heap \ heap : \A d \in Heap \ heap : c <= d

-----------------------------------------------------------------------------
\* Changing a chain.

\* The counter is kept right by BIGLOCK; under MANYLOCK it is not read.
Count(d) == elements' = IF mode = "biglock" THEN elements + d ELSE elements

\* A new key: into a vacant head, or into a cell linked behind the head.
Insert(k, v) ==
    LET b == Hash(k)
        e == [in_use |-> TRUE, key |-> k, value |-> v, next |-> cell[b].next]
    IN /\ IF cell[b].in_use
          THEN /\ cell' = [cell EXCEPT ![Lowest] = e, ![b].next = Lowest]
               /\ heap' = heap \cup {Lowest}
          ELSE cell' = [cell EXCEPT ![b] = e] /\ UNCHANGED heap
       /\ Count(1)

\* Mutant of Unchain: the copied successor's own successors are dropped.
UnchainCutsTail(t, c, i) ==
    LET e == c[i]
        n == t[e].next
    IN IF i > 1 THEN [table |-> [t EXCEPT ![c[i - 1]].next = n, ![e] = Vacant], freed |-> e]
       ELSE IF n = NULL THEN [table |-> [t EXCEPT ![e] = Vacant], freed |-> NULL]
       ELSE [table |-> [t EXCEPT ![e] = [t[n] EXCEPT !.next = NULL], ![n] = Vacant], freed |-> n]

\* The table t without the i-th cell of the chain c, and the cell it frees.
Unchain(t, c, i) ==
    LET e == c[i]
        n == t[e].next
    IN IF i > 1 THEN [table |-> [t EXCEPT ![c[i - 1]].next = n, ![e] = Vacant], freed |-> e]
       ELSE IF n = NULL THEN [table |-> [t EXCEPT ![e] = Vacant], freed |-> NULL]
       ELSE [table |-> [t EXCEPT ![e] = t[n], ![n] = Vacant], freed |-> n]

TakeOut(k) ==
    LET r == Unchain(cell, Chain(Hash(k)), Place(k))
    IN cell' = r.table /\ heap' = heap \ {r.freed} /\ Count(-1)

-----------------------------------------------------------------------------
\* The calls on one key.

Unlocked(k) == Lock(Hash(k)) \notin held
Answer(got, want) == out' = (got = want)
Holds(k, v) == ref' = [ref EXCEPT ![k] = v]

\* A walk under way no longer answers for a key that comes or goes.
Touch(k) ==
    walk' = [w \in Walker |-> IF walk[w].pc = "idle" THEN walk[w]
             ELSE [walk[w] EXCEPT !.through = @ \ {k}]]

\* A new value for a key that is there: only BIGLOCK is unlocked.
shash_put(k, v) ==
    /\ Unlocked(k) /\ Holds(k, v) /\ Answer("ok", "ok")
    /\ IF Here(k)
       THEN /\ cell' = [cell EXCEPT ![Cell(k)].value = v]
            /\ held' = IF mode = "manylock" THEN held \cup {Hash(k)} ELSE held
            /\ leaked' = IF mode = "manylock" THEN leaked \cup {Hash(k)} ELSE leaked
            /\ UNCHANGED <<heap, elements, walk>>
       ELSE Insert(k, v) /\ Touch(k) /\ UNCHANGED <<held, leaked>>
    /\ UNCHANGED <<mode, vlocked>>

PutFound(k) ==
    /\ Answer("found", IF ref[k] # NULL THEN "found" ELSE "ok")
    /\ UNCHANGED <<table, held, walk>>

shash_put_unique(k, v) ==
    /\ Unlocked(k)
    /\ IF Here(k) THEN PutFound(k)
       ELSE /\ Insert(k, v) /\ Touch(k) /\ Holds(k, v)
            /\ Answer("ok", IF ref[k] # NULL THEN "found" ELSE "ok") /\ UNCHANGED held
    /\ UNCHANGED <<mode, vlocked, leaked>>

\* Memory for a new cell is short: both puts return and forget their lock.
PutFails(k) ==
    /\ Unlocked(k) /\ ~ Here(k) /\ cell[Hash(k)].in_use
    /\ held' = held \cup {Lock(Hash(k))} /\ leaked' = leaked \cup {Lock(Hash(k))}
    /\ UNCHANGED <<mode, table, vlocked, walk, out>>

Lookup(k) == IF Here(k) THEN cell[Cell(k)].value ELSE NotFound
Wanted(k) == IF ref[k] # NULL THEN ref[k] ELSE NotFound

shash_get(k) ==
    /\ Unlocked(k) /\ Answer(Lookup(k), Wanted(k))
    /\ UNCHANGED <<mode, table, held, vlocked, leaked, walk>>

\* The value in place, with the lock kept if there is one.
shash_get_vlock(k) ==
    /\ Unlocked(k) /\ Answer(Lookup(k), Wanted(k))
    /\ LET l == IF Here(k) THEN {Lock(Hash(k))} ELSE {}
       IN held' = held \cup l /\ vlocked' = vlocked \cup l
    /\ UNCHANGED <<mode, table, leaked, walk>>

\* The caller of shash_get_vlock has done with the value.
VUnlock(l) ==
    /\ l \in vlocked /\ held' = held \ {l} /\ vlocked' = vlocked \ {l}
    /\ UNCHANGED <<mode, table, leaked, walk, out>>

\* shash_delete, shash_delete_lockfree and shash_get_and_delete, which also
\* returns the value.
shash_get_and_delete(k) ==
    /\ Unlocked(k) /\ Answer(Lookup(k), Wanted(k))
    /\ IF Here(k) THEN TakeOut(k) /\ Touch(k) /\ Holds(k, NULL)
       ELSE UNCHANGED <<table, walk>>
    /\ UNCHANGED <<mode, held, vlocked, leaked>>

-----------------------------------------------------------------------------
\* Walks: shash_get_size and shash_reduce (which delete nothing), and
\* shash_reduce_delete for a callback that wants the keys of D deleted.

WalkBegin(w, D) ==
    /\ walk[w].pc = "idle" /\ BIG \notin held
    /\ walk' = [walk EXCEPT ![w] = [pc |-> "walk", i |-> 0, met |-> {}, again |-> {},
                                    delete |-> D, through |-> Stored]]
    /\ held' = IF mode = "biglock" THEN held \cup {BIG} ELSE held
    /\ UNCHANGED <<mode, table, vlocked, leaked, out>>

\* Mutant of Onward: a deleted head ends the visit, also when its successor was
\* copied into it.
OnwardEnds(t, b, prev) == IF prev # NULL THEN t[prev].next ELSE NULL

\* Where a walk of bucket b goes on after it has deleted an element.
Onward(t, b, prev) ==
    IF prev # NULL THEN t[prev].next ELSE IF t[b].in_use THEN b ELSE NULL

\* The visit of bucket b, element by element.  prev is null as long as the walk
\* is at the head, also after the head was overwritten by its successor, which
\* is then visited in its new place.
Visited(b, D) ==
    LET v[n \in 0 .. Cardinality(Key)] ==
        IF n = 0 THEN [t |-> cell, prev |-> NULL, e |-> IF cell[b].in_use THEN b ELSE NULL,
                       seen |-> <<>>, freed |-> {}]
        ELSE LET p == v[n - 1]
                 k == p.t[p.e].key
                 r == Unchain(p.t, IF p.prev = NULL THEN <<p.e>> ELSE <<p.prev, p.e>>,
                              IF p.prev = NULL THEN 1 ELSE 2)
             IN IF p.e = NULL THEN p
                ELSE IF k \in D
                THEN [t |-> r.table, prev |-> p.prev, seen |-> Append(p.seen, k),
                      freed |-> p.freed \cup {r.freed},
                      e |-> Onward(r.table, b, p.prev)]
                ELSE [p EXCEPT !.prev = p.e, !.e = p.t[p.e].next, !.seen = Append(@, k)]
    IN v[Cardinality(Key)]

Twice(s) == {s[n] : n \in {n \in DOMAIN s : \E m \in 1 .. n - 1 : s[m] = s[n]}}

WalkBucket(w) ==
    /\ walk[w].pc = "walk" /\ walk[w].i < NBuckets
    /\ mode = "manylock" => walk[w].i \notin held
    /\ LET v == Visited(walk[w].i, walk[w].delete)
           gone == ToSet(v.seen) \cap walk[w].delete
       IN /\ cell' = v.t /\ heap' = heap \ v.freed
          /\ Count(- Len(SelectSeq(v.seen, LAMBDA k : k \in gone)))
          /\ ref' = [k \in Key |-> IF k \in gone THEN NULL ELSE ref[k]]
          /\ walk' = [x \in Walker |->
                IF x = w
                THEN [walk[w] EXCEPT !.i = @ + 1, !.met = @ \cup ToSet(v.seen),
                        !.again = @ \cup (ToSet(v.seen) \cap walk[w].met) \cup Twice(v.seen)]
                ELSE IF walk[x].pc = "idle" THEN walk[x]
                ELSE [walk[x] EXCEPT !.through = @ \ gone]]
    /\ UNCHANGED <<mode, held, vlocked, leaked, out>>

\* shash_get_size answers with the number of elements it met, or under BIGLOCK
\* with the counter.
WalkEnd(w) ==
    /\ walk[w].pc = "walk" /\ walk[w].i = NBuckets
    /\ walk' = [walk EXCEPT ![w] = [pc |-> "idle"]]
    /\ held' = held \ (IF mode = "biglock" THEN {BIG} ELSE {})
    /\ UNCHANGED <<mode, table, vlocked, leaked, out>>

-----------------------------------------------------------------------------
Next ==
    \/ \E k \in Key : /\ Here(k) \/ Cardinality(Stored) < MaxElements
                      /\ \E v \in Value[k] : shash_put(k, v) \/ shash_put_unique(k, v)
    \/ \E k \in Key : \/ PutFails(k) \/ shash_get(k) \/ shash_get_vlock(k)
                      \/ shash_get_and_delete(k)
    \/ \E l \in vlocked : VUnlock(l)
    \/ \E w \in Walker, D \in SUBSET Stored : WalkBegin(w, D)
    \/ \E w \in Walker : WalkBucket(w) \/ WalkEnd(w)

-----------------------------------------------------------------------------
\* The chains hold, each key once and in its bucket, what was last put; every
\* allocated cell is in a chain and no freed one is; the counter is right; and
\* the last answer was.
Sound ==
    /\ \A b \in Bucket : \A i, j \in DOMAIN Chain(b) :
        /\ Hash(cell[Chain(b)[i]].key) = b
        /\ cell[Chain(b)[i]].key = cell[Chain(b)[j]].key => i = j
    /\ {<<k, ref[k]>> : k \in Stored} =
        {<<cell[c].key, cell[c].value>> : c \in UNION {ToSet(Chain(b)) : b \in Bucket}}
    /\ heap = UNION {ToSet(Tail(Chain(b))) : b \in {b \in Bucket : cell[b].in_use}}
    /\ mode = "biglock" => elements = Cardinality(Stored)
    /\ out

\* A walk meets every key that was in the table from its begin to its end once:
\* whatever other threads put and delete in the buckets it is not in, and
\* whatever it deletes itself.
WalkMeetsAll ==
    \A w \in Walker : walk[w].pc = "walk" /\ walk[w].i = NBuckets =>
        walk[w].through \subseteq walk[w].met /\ walk[w].again \cap walk[w].through = {}

\* Locks outlast a call in two cases only: the value lock of a key that was
\* found and the lock of a walk under BIGLOCK; but a put that replaces a value
\* under MANYLOCK leaves its bucket locked, and no call on it returns again.
LocksReturned ==
    held = leaked \cup vlocked
           \cup {l \in {BIG} : mode = "biglock" /\ \E w \in Walker : walk[w].pc # "idle"}

=============================================================================
