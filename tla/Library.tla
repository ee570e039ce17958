------------------------------ MODULE Library ------------------------------
(***************************************************************************)
(* The parts of the client that work on what their callers own, each checked *)
(* against what it stands for: the hash table, the vector, the linked list,  *)
(* the priority queue, and the values and messages.  They do not interact: a *)
(* behaviour is one of one of them.                                         *)
(***************************************************************************)
EXTENDS Integers, FiniteSets, Sequences, SequencesExt

CONSTANTS
    Key, Value, NBuckets, Heap, MaxElements, Walker,    \* of the hash table
    Elem, InitSizes, MaxLen, Junk,          \* of the vector
    Popper, MaxPush,                        \* of the priority queue
    Member,                                 \* elements of the linked list
    Name, Data, KeyData, MaxBlocks, MaxBins,    \* of the messages
    NULL

VARIABLES
    which,      \* the part
    mode, cell, heap, elements, held, vlocked, leaked, walk, ref, out,
    vec, vlock, list, answer,
    pq, pushes, pc, early,
    rec, want, bins, copy, blocks, last,
    L,          \* the linked list
    order,      \* what it stands for
    seen        \* the last reduce met the elements it should have met

Hash == INSTANCE CfShash
Vector == INSTANCE CfVector
Priority == INSTANCE CfQueuePriority
LL == INSTANCE CfLL
Msg == INSTANCE Message

hashVars == <<mode, cell, heap, elements, held, vlocked, leaked, walk, ref, out>>
vecVars == <<vec, vlock, list, answer>>
priVars == <<pq, pushes, pc, early>>
listVars == <<L, order, seen>>
msgVars == <<rec, want, bins, copy, blocks, last>>
vars == <<which, hashVars, vecVars, priVars, listVars, msgVars>>

-----------------------------------------------------------------------------
\* The linked list.

ListInit == L = LL!cf_ll_init(Member) /\ order = <<>> /\ seen = TRUE

N == Cardinality(Member)
In == ToSet(order)
At(e) == CHOOSE i \in DOMAIN order : order[i] = e

Push(e) ==
    /\ e \notin In /\ UNCHANGED seen
    /\ \/ L' = LL!cf_ll_prepend(L, e) /\ order' = <<e>> \o order
       \/ L' = LL!cf_ll_append(L, e) /\ order' = Append(order, e)

Put(cur, e) ==
    /\ e \notin In /\ UNCHANGED seen
    /\ \/ L' = LL!cf_ll_insert_after(L, cur, e) /\ order' = InsertAt(order, At(cur) + 1, e)
       \/ L' = LL!cf_ll_insert_before(L, cur, e) /\ order' = InsertAt(order, At(cur), e)

Delete(e) ==
    L' = LL!cf_ll_delete(L, e) /\ order' = RemoveAt(order, At(e)) /\ UNCHANGED seen

\* A callback that deletes the elements of D and ends the walk at x.
Reduce(forward, D, x) ==
    LET walked == IF forward THEN order ELSE Reverse(order)
        met == IF x \in In \ D THEN SubSeq(walked, 1, SelectInSeq(walked, LAMBDA e : e = x))
               ELSE walked
    IN /\ L' = LL!cf_ll_reduce(L, forward, D, {x}, N)
       /\ seen' = (LL!Reduced(L, forward, D, {x} \ D, N).seen = met)
       /\ order' = SelectSeq(order, LAMBDA e : e \notin D \cap ToSet(met))

\* A callback that asks for the insertion at the first element in P, or at the
\* end.
InsertReduce(e, forward, P) ==
    LET at == {i \in DOMAIN order : order[i] \in P}
        here == IF forward
                THEN IF at = {} THEN Len(order) + 1 ELSE CHOOSE i \in at : \A j \in at : i <= j
                ELSE IF at = {} THEN 1 ELSE 1 + CHOOSE i \in at : \A j \in at : i >= j
    IN /\ e \notin In /\ UNCHANGED seen
       /\ L' = LL!cf_ll_insert_reduce(L, e, forward, P, N)
       /\ order' = InsertAt(order, here, e)

ListNext ==
    \/ \E e \in Member : Push(e) \/ (\E cur \in In : Put(cur, e))
    \/ \E e \in In : Delete(e)
    \/ \E forward \in BOOLEAN, D \in SUBSET In, x \in Member : Reduce(forward, D, x)
    \/ \E e \in Member, forward \in BOOLEAN, P \in SUBSET In : InsertReduce(e, forward, P)

-----------------------------------------------------------------------------
Init ==
    /\ which \in {"hash", "vector", "priority", "list", "message"}
    /\ Hash!Init /\ Vector!Init /\ Priority!Init /\ ListInit /\ Msg!Init
    /\ which # "hash" => mode = "biglock"
    /\ which # "vector" => vec = Vector!Empty(0, FALSE, FALSE)

\* A behaviour of one part: the others stay as they were created.
Next ==
    \/ which = "hash" /\ Hash!Next /\ UNCHANGED <<which, vecVars, priVars, listVars, msgVars>>
    \/ which = "vector" /\ Vector!Next /\ UNCHANGED <<which, hashVars, priVars, listVars, msgVars>>
    \/ which = "priority" /\ Priority!Next
       /\ UNCHANGED <<which, hashVars, vecVars, listVars, msgVars>>
    \/ which = "list" /\ ListNext /\ UNCHANGED <<which, hashVars, vecVars, priVars, msgVars>>
    \/ which = "message" /\ Msg!Next /\ UNCHANGED <<which, hashVars, vecVars, priVars, listVars>>

Spec == Init /\ [][Next]_vars

-----------------------------------------------------------------------------
\* Properties.

\* The hash table holds, each key once and in the chain of its bucket, what was
\* last put, also after the head of a chain was overwritten by its successor;
\* every allocated element is in a chain and no freed one is; under BIGLOCK the
\* counter is right; every call has given the right answer; and a call leaves
\* its lock taken only for the caller of shash_get_vlock, in shash_put, which
\* forgets the lock of a bucket in which it replaced a value, or in a put for
\* which memory was short.
HashSound == Hash!Sound /\ Hash!LocksReturned

\* A walk of the hash table meets every key that was there from its begin to
\* its end once, whatever other threads put and delete in the meantime under
\* MANYLOCK and whatever the walk deletes itself.
WalkMeetsAll == Hash!WalkMeetsAll

\* The vector's elements in use are, in order, what was appended and set and
\* not deleted since, also after the move from the stack to the heap and when
\* memory ran out; they lie in what is allocated; and the answers are right.
VectorSound == Vector!Sound

\* A pop of the priority queue returns the oldest of the highest priority, and
\* no wakeup is lost: while threads sleep, no more elements are queued than
\* woken threads are on their way to take.
PrioritySound == Priority!Sound

\* The linked list read forth is what it stands for and read back its reverse,
\* its size is right, and a walk that deletes meets every element up to the one
\* that ends it.
ListSound ==
    /\ LL!Walk(L, TRUE, N + 1) = order /\ LL!Walk(L, FALSE, N + 1) = Reverse(order)
    /\ L.sz = Len(order) /\ seen

\* A request ends where cl_compile computed that it would, but for the spare
\* byte of a digest and of scan options; the digest computed while it is laid
\* out is the one citrusleaf_calculate_digest gives; and the record at the
\* server is what the caller's puts, deletes and operates should have made of it.
RequestSound == Msg!Fits /\ Msg!DigestInSync /\ Msg!RecordAsAsked

\* After a call each bin has the type and the value that the record has under its
\* name, in memory that is there, unless its name begins another's, the integer
\* was sent short and is negative, or the malloc of set_object failed; and every
\* block is in one object and every object's block allocated, through parsing,
\* copying, a copy that fails half way, and freeing.
ReplyDelivered == Msg!Delivered /\ Msg!BlocksOwned

\* That a call which returned OK has delivered every value, as the code of set_object
\* ("0 if OK, -1 if fail", citrusleaf.c:918) and of op_to_value_int ("negative
\* numbers must be sign extended", citrusleaf.c:558) intends.  It does not hold: the
\* first is not looked at, and the second returns what it had before extending.
AllDelivered == Msg!AllDelivered
=============================================================================
