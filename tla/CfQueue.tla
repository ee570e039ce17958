------------------------------ MODULE CfQueue -------------------------------
(***************************************************************************)
(* cf_queue (src/cf_queue.c): a ring of allocsz slots under one mutex.     *)
(* read_offset and write_offset only grow; a slot is an offset modulo      *)
(* allocsz.  A call that runs to its end under the mutex is one action;    *)
(* cf_queue_reduce and cf_queue_delete walk the ring and are one action    *)
(* per element, with the mutex held (scan.op # "none") from the first to   *)
(* the last.                                                               *)
(***************************************************************************)
EXTENDS Integers, Sequences

CONSTANTS
  Elem,         \* the element values callers push
  Garbage,      \* what a slot of fresh memory holds
  NULL,         \* a null pointer
  ALLOCSZ,      \* CF_QUEUE_ALLOCSZ, the first size and the growth step
  MaxAllocsz,   \* bound: no memory for a ring of more slots than this
  UNWRAP,       \* the lowest offset with a bit of 0xC0000000 set
  Limits        \* limits callers give to cf_queue_push_limit

ASSUME AllocAssumption == ALLOCSZ \in Nat \ {0}
ASSUME BoundAssumption == MaxAllocsz \in Nat /\ MaxAllocsz >= ALLOCSZ
ASSUME UnwrapAssumption == UNWRAP \in Nat
ASSUME LimitsAssumption == Limits \subseteq Nat
ASSUME GarbageAssumption == Garbage \notin Elem
ASSUME NullAssumption ==
  \A n \in 1..MaxAllocsz : NULL \notin [0..(n - 1) -> Elem \cup {Garbage}]

VARIABLES
  queue,          \* the slots, or NULL
  allocsz,
  read_offset,
  write_offset,
  scan,           \* the walk in progress: which call, its arguments and locals
  ret             \* the last call that returned, and its answer

vars == <<queue, allocsz, read_offset, write_offset, scan, ret>>

Answer(op, rv) == [op |-> op, rv |-> rv]
Got(x) == [op |-> "pop", rv |-> 0, buf |-> x]

NoScan == [op |-> "none"]
ReduceScan(cb, i) == [op |-> "reduce", cb |-> cb, i |-> i]
DeleteScan(x, only_one, found, i) ==
  [op |-> "delete", x |-> x, only_one |-> only_one, found |-> found, i |-> i]

Slots == 0..(allocsz - 1)
CF_Q_SZ == write_offset - read_offset
CF_Q_EMPTY == write_offset = read_offset
ElemAt(i) == queue[i % allocsz]

\* The elements in the order a caller would pop them.
Contents == [k \in 1..CF_Q_SZ |-> ElemAt(read_offset + k - 1)]

\* cf_queue_create
Init ==
  /\ allocsz = ALLOCSZ
  /\ read_offset = 0
  /\ write_offset = 0
  /\ queue = [s \in 0..(ALLOCSZ - 1) |-> Garbage]
  /\ scan = NoScan
  /\ ret = Answer("create", 0)

\* The mutex is free and the buffer is there.  A failed realloc nulls the pointer
\* and leaves the sizes and the offsets, and the model follows the queue no
\* further: a pop, reduce or delete would then fault, and a push that gets memory
\* after all would go on over slots that were never written.
Callable == scan = NoScan /\ queue # NULL

-----------------------------------------------------------------------------
(* Growing and renumbering                                                 *)

\* Mutant of Unrolled: the part of the ring before read_offset is forgotten.
UnrolledHeadOnly(new_sz) ==
  [s \in 0..(new_sz - 1) |->
     IF s < allocsz - (read_offset % allocsz) THEN ElemAt(read_offset + s)
     ELSE Garbage]

\* The old ring copied to the front of a ring of new_sz slots, oldest first.
Unrolled(new_sz) ==
  [s \in 0..(new_sz - 1) |->
     IF s < allocsz THEN ElemAt(read_offset + s) ELSE Garbage]

\* memcpy of the element, write_offset++ and cf_queue_unwrap, on a ring q of
\* size a whose offsets are r and w.
Store(x, q, a, r, w) ==
  /\ queue' = [q EXCEPT ![w % a] = x]
  /\ allocsz' = a
  /\ IF w + 1 >= UNWRAP
       THEN read_offset' = r % a /\ write_offset' = (r % a) + (w + 1 - r)
       ELSE read_offset' = r /\ write_offset' = w + 1

\* cf_queue_resize on the full ring, then the store.
Grow(x) ==
  LET new_sz == allocsz + ALLOCSZ
  IN  Store(x, Unrolled(new_sz), new_sz, 0, allocsz)

\* cf_queue_resize without memory: a malloc that fails leaves the ring alone,
\* a realloc that fails has already overwritten the only pointer to it.
ResizeFails ==
  /\ queue' = IF read_offset % allocsz = 0 THEN NULL ELSE queue
  /\ UNCHANGED <<allocsz, read_offset, write_offset>>

Insert(x, op, ok, failed) ==
  \/ /\ CF_Q_SZ # allocsz
     /\ Store(x, queue, allocsz, read_offset, write_offset)
     /\ ret' = Answer(op, ok)
  \/ /\ CF_Q_SZ = allocsz
     /\ allocsz + ALLOCSZ <= MaxAllocsz
     /\ Grow(x)
     /\ ret' = Answer(op, ok)
  \/ /\ CF_Q_SZ = allocsz
     /\ ResizeFails
     /\ ret' = Answer(op, failed)

cf_queue_push(x) ==
  /\ Callable
  /\ Insert(x, "push", 0, -1)
  /\ UNCHANGED scan

cf_queue_push_limit(x, limit) ==
  /\ Callable
  /\ \/ /\ CF_Q_SZ >= limit
        /\ ret' = Answer("push_limit", FALSE)
        /\ UNCHANGED <<queue, allocsz, read_offset, write_offset>>
     \/ /\ CF_Q_SZ < limit
        /\ Insert(x, "push_limit", TRUE, FALSE)
  /\ UNCHANGED scan

-----------------------------------------------------------------------------
(* Taking out                                                              *)

\* cf_queue_pop once it holds the mutex and no longer waits (CfQueueWait has
\* the waiting).  An emptied ring starts again at offset 0.
cf_queue_pop ==
  /\ Callable
  /\ \/ /\ CF_Q_EMPTY
        /\ ret' = Answer("pop", -2)
        /\ UNCHANGED <<read_offset, write_offset>>
     \/ /\ ~CF_Q_EMPTY
        /\ ret' = Got(ElemAt(read_offset))
        /\ IF read_offset + 1 = write_offset
             THEN read_offset' = 0 /\ write_offset' = 0
             ELSE read_offset' = read_offset + 1 /\ UNCHANGED write_offset
  /\ UNCHANGED <<queue, allocsz, scan>>

cf_queue_sz ==
  /\ Callable
  /\ ret' = Answer("sz", CF_Q_SZ)
  /\ UNCHANGED <<queue, allocsz, read_offset, write_offset, scan>>

\* Close the hole at slot index by moving up the slots from r_index on ...
MovedUp(r_index, index) ==
  [s \in Slots |-> IF s \in (r_index + 1)..index THEN queue[s - 1] ELSE queue[s]]

\* Mutant of MovedDown: one element too few is moved.
MovedDownShort(index, w_index) ==
  [s \in Slots |-> IF s \in index..(w_index - 3) THEN queue[s + 1] ELSE queue[s]]

\* ... or by moving down the slots below w_index.
MovedDown(index, w_index) ==
  [s \in Slots |-> IF s \in index..(w_index - 2) THEN queue[s + 1] ELSE queue[s]]

cf_queue_delete_offset(i) ==
  LET index == i % allocsz
      r_index == read_offset % allocsz
      w_index == write_offset % allocsz
      atTail == w_index # 0 /\ index = w_index - 1
      fromHead == index = r_index \/ (~atTail /\ index > r_index)
      fromTail == ~fromHead /\ (atTail \/ index < w_index)
  IN  /\ queue' = IF fromHead THEN MovedUp(r_index, index)
                  ELSE IF fromTail THEN MovedDown(index, w_index)
                  ELSE queue
      /\ read_offset' = read_offset + (IF fromHead THEN 1 ELSE 0)
      /\ write_offset' = write_offset - (IF fromTail THEN 1 ELSE 0)
      /\ UNCHANGED allocsz

ReduceBegin(cb) ==
  /\ Callable
  /\ scan' = ReduceScan(cb, read_offset)
  /\ UNCHANGED <<queue, allocsz, read_offset, write_offset, ret>>

\* One round of the loop of cf_queue_reduce: 0 goes on, -2 deletes and
\* leaves, -1 leaves.
ReduceStep ==
  /\ scan.op = "reduce"
  /\ scan.i < write_offset
  /\ \/ /\ scan.cb[ElemAt(scan.i)] = 0
        /\ scan' = [scan EXCEPT !.i = @ + 1]
        /\ UNCHANGED <<queue, allocsz, read_offset, write_offset, ret>>
     \/ /\ scan.cb[ElemAt(scan.i)] = -2
        /\ cf_queue_delete_offset(scan.i)
        /\ scan' = NoScan
        /\ ret' = Answer("reduce", 0)
     \/ /\ scan.cb[ElemAt(scan.i)] = -1
        /\ scan' = NoScan
        /\ ret' = Answer("reduce", 0)
        /\ UNCHANGED <<queue, allocsz, read_offset, write_offset>>

ReduceEnd ==
  /\ scan.op = "reduce"
  /\ scan.i >= write_offset
  /\ scan' = NoScan
  /\ ret' = Answer("reduce", 0)
  /\ UNCHANGED <<queue, allocsz, read_offset, write_offset>>

DeleteBegin(x, only_one) ==
  /\ Callable
  /\ scan' = DeleteScan(x, only_one, FALSE, read_offset)
  /\ UNCHANGED <<queue, allocsz, read_offset, write_offset, ret>>

\* One round of the loop of cf_queue_delete.  write_offset is read again in
\* every round; i moves on whether or not the element was taken out.
DeleteStep ==
  /\ scan.op = "delete"
  /\ scan.i < write_offset
  /\ \/ /\ ElemAt(scan.i) # scan.x
        /\ scan' = [scan EXCEPT !.i = @ + 1]
        /\ UNCHANGED <<queue, allocsz, read_offset, write_offset, ret>>
     \/ /\ ElemAt(scan.i) = scan.x
        /\ cf_queue_delete_offset(scan.i)
        /\ IF scan.only_one
             THEN scan' = NoScan /\ ret' = Answer("delete", 0)
             ELSE /\ scan' = DeleteScan(scan.x, scan.only_one, TRUE, scan.i + 1)
                  /\ UNCHANGED ret

DeleteEnd ==
  /\ scan.op = "delete"
  /\ scan.i >= write_offset
  /\ scan' = NoScan
  /\ ret' = Answer("delete", IF scan.found THEN 0 ELSE -2)
  /\ UNCHANGED <<queue, allocsz, read_offset, write_offset>>

Next ==
  \/ \E x \in Elem : cf_queue_push(x)
  \/ \E x \in Elem, limit \in Limits : cf_queue_push_limit(x, limit)
  \/ cf_queue_pop
  \/ cf_queue_sz
  \/ \E cb \in [Elem -> {0, -1, -2}] : ReduceBegin(cb)
  \/ ReduceStep
  \/ ReduceEnd
  \/ \E x \in Elem, only_one \in BOOLEAN : DeleteBegin(x, only_one)
  \/ DeleteStep
  \/ DeleteEnd

Spec == Init /\ [][Next]_vars

-----------------------------------------------------------------------------
(* Properties                                                              *)

ReduceScans == [op : {"reduce"}, cb : [Elem -> {0, -1, -2}], i : Nat]
DeleteScans == [op : {"delete"}, x : Elem, only_one : BOOLEAN,
                found : BOOLEAN, i : Nat]

\* The ring has allocsz slots, allocsz is a multiple of the growth step up to
\* the bound, and a walk of cf_queue_reduce or cf_queue_delete runs only over
\* a buffer that is there.
TypeOK ==
  /\ allocsz \in Nat \ {0}
  /\ allocsz <= MaxAllocsz
  /\ queue = NULL \/ queue \in [Slots -> Elem \cup {Garbage}]
  /\ read_offset \in Nat
  /\ write_offset \in Nat
  /\ scan \in {NoScan} \cup ReduceScans \cup DeleteScans
  /\ queue = NULL => scan = NoScan

\* "write is always greater than or equal to read" (cf_queue.h:35), and the
\* ring never holds more than its slots, whatever sequence of pushes, pops,
\* resizes, unwraps and deletes moved the two offsets.
RingOK == read_offset <= write_offset /\ CF_Q_SZ <= allocsz

\* cf_queue_unwrap keeps both offsets away from the end of the 32-bit range:
\* they stay below the unwrap mark, or below two turns of the ring if the ring
\* is that large.
OffsetsBounded == write_offset < UNWRAP \/ write_offset < 2 * allocsz

\* Every element between the offsets was pushed by a caller: a resize, an
\* unwrap or a memmove never brings a slot that was not written into reach of
\* cf_queue_pop.
LiveSlotsWritten ==
  queue # NULL =>
    \A i \in read_offset..(write_offset - 1) : ElemAt(i) \in Elem

\* While a reduce or a delete walks the ring, its index stays at or after the
\* read offset although deletes move both offsets under it; a reduce has had a
\* 0 from its callback for every element it passed, and a delete that has found
\* nothing yet has passed no element equal to its argument, and goes on after a
\* find only if it is to delete all.
ScanSeen ==
  /\ scan.op # "none" => read_offset <= scan.i
  /\ scan.op = "reduce" =>
       /\ scan.i <= write_offset
       /\ \A j \in read_offset..(scan.i - 1) : scan.cb[ElemAt(j)] = 0
  /\ scan.op = "delete" /\ ~scan.found =>
       /\ scan.i <= write_offset
       /\ \A j \in read_offset..(scan.i - 1) : ElemAt(j) # scan.x
  /\ scan.op = "delete" /\ scan.only_one => ~scan.found

\* The ring is sound: the types, RingOK, OffsetsBounded, LiveSlotsWritten and
\* ScanSeen together, through any sequence of calls of cf_queue.
RingSound == TypeOK /\ RingOK /\ OffsetsBounded /\ LiveSlotsWritten /\ ScanSeen

\* The abstract queue: its elements, and the delete in progress.
AbsContents == IF queue = NULL THEN <<>> ELSE Contents
AbsPurge ==
  IF scan.op = "delete"
    THEN [on |-> TRUE, x |-> scan.x, only_one |-> scan.only_one, found |-> scan.found]
    ELSE [on |-> FALSE]
Abs == INSTANCE Fifo WITH
         contents <- AbsContents, lost <- (queue = NULL), purge <- AbsPurge

\* The ring is a queue: push appends, pop takes the oldest, sz counts, reduce
\* takes out at most the element its callback named, delete only elements
\* equal to its argument, and no call reorders the rest.
IsFifo == Abs!Spec

\* What the comment on cf_queue_delete says (cf_queue.c:440-442): called with
\* only_one false it deletes the elements with this value.
DeleteTakesAll ==
  [][scan.op = "delete" /\ ~scan.only_one /\ scan' = NoScan
       => \A k \in DOMAIN Contents' : Contents'[k] # scan.x]_vars
=============================================================================
