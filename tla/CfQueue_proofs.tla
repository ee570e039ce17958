--------------------------- MODULE CfQueue_proofs ---------------------------
(***************************************************************************)
(* The ring of cf_queue for every element type, growth step, memory bound  *)
(* and unwrap mark: the offsets stay in order and in range, no slot that   *)
(* was never written is ever popped, and the ring implements Fifo.         *)
(***************************************************************************)
EXTENDS CfQueue, TLAPS

-----------------------------------------------------------------------------
(* Slots: offsets modulo the size of the ring                              *)

\* A slot index is inside the ring.
LEMMA ModRange ==
  ASSUME NEW n \in Nat \ {0}, NEW r \in Nat
  PROVE  r % n \in 0..(n - 1)
  BY SMT

\* A remainder is determined by a quotient.
LEMMA ModUnique ==
  ASSUME NEW n \in Nat \ {0}, NEW q \in Nat, NEW m \in 0..(n - 1)
  PROVE  (q * n + m) % n = m
  BY SMT

\* The slot d places after the slot of r: the same turn of the ring or the next.
LEMMA ModOffset ==
  ASSUME NEW n \in Nat \ {0}, NEW r \in Nat, NEW d \in 0..n
  PROVE  (r + d) % n = IF (r % n) + d < n THEN (r % n) + d ELSE (r % n) + d - n
  <1> DEFINE q == r \div n
             m == r % n
  <1>1. q \in Nat /\ m \in 0..(n - 1) /\ r = q * n + m
    BY SMT
  <1> HIDE DEF q, m
  <1>2. CASE m + d < n
    <2>1. (q * n + (m + d)) % n = m + d
      BY <1>1, <1>2, ModUnique
    <2>2. r + d = q * n + (m + d)
      BY <1>1
    <2> QED BY <2>1, <2>2, <1>2 DEF m
  <1>3. CASE m + d >= n
    <2>1. q + 1 \in Nat /\ m + d - n \in 0..(n - 1)
      BY <1>1, <1>3
    <2>2. ((q + 1) * n + (m + d - n)) % n = m + d - n
      <3> HIDE <1>1
      <3> QED BY <2>1, ModUnique, Zenon
    <2>3. r + d = (q + 1) * n + (m + d - n)
      BY <1>1
    <2>4. ~(m + d < n)
      BY <1>1, <1>3
    <2> QED BY <2>2, <2>3, <2>4 DEF m
  <1> QED BY <1>1, <1>2, <1>3

\* Two places less than a turn apart are two slots.
LEMMA ModDistinct ==
  ASSUME NEW n \in Nat \ {0}, NEW r \in Nat,
         NEW d \in 0..(n - 1), NEW e \in 0..(n - 1), d # e
  PROVE  (r + d) % n # (r + e) % n
  <1> DEFINE m == r % n
             At(k) == (r + k) % n
  <1>1. m \in 0..(n - 1)
    BY ModRange
  <1>2. At(d) = IF m + d < n THEN m + d ELSE m + d - n
    BY ModOffset, d \in 0..n
  <1>3. At(e) = IF m + e < n THEN m + e ELSE m + e - n
    BY ModOffset, e \in 0..n
  <1>4. At(d) # At(e)
    <2> HIDE DEF m, At
    <2> QED BY <1>1, <1>2, <1>3
  <1> QED BY <1>4

-----------------------------------------------------------------------------
(* The operations on the elements between the offsets                      *)

Buffers(a) == [0..(a - 1) -> Elem \cup {Garbage}]

\* cf_queue_push, once there is room: it appends, and moves the offsets only
\* forward or a whole number of turns back.
LEMMA StoreAppends ==
  ASSUME NEW a \in Nat \ {0}, NEW q \in Buffers(a), NEW r \in Nat, NEW w \in Nat,
         r <= w, w - r < a, NEW x \in Elem, Store(x, q, a, r, w)
  PROVE  /\ allocsz' = a
         /\ queue' \in Buffers(a)
         /\ read_offset' \in Nat
         /\ write_offset' \in Nat
         /\ read_offset' <= write_offset'
         /\ write_offset' - read_offset' = w - r + 1
         /\ write_offset' < UNWRAP \/ write_offset' < 2 * a
         /\ \A k \in 1..(w - r) :
              queue'[(read_offset' + k - 1) % a] = q[(r + k - 1) % a]
         /\ queue'[(read_offset' + (w - r)) % a] = x
  <1>1. allocsz' = a /\ queue' = [q EXCEPT ![w % a] = x]
    BY DEF Store
  <1>2. w % a \in 0..(a - 1) /\ r % a \in 0..(a - 1)
    BY ModRange
  <1>3. queue' \in Buffers(a)
    BY <1>1, <1>2 DEF Buffers
  <1>4. /\ read_offset' \in Nat
        /\ write_offset' \in Nat
        /\ read_offset' <= write_offset'
        /\ write_offset' - read_offset' = w - r + 1
        /\ write_offset' < UNWRAP \/ write_offset' < 2 * a
    BY <1>2, UnwrapAssumption DEF Store
  <1>5. ASSUME NEW d \in 0..(w - r) PROVE (read_offset' + d) % a = (r + d) % a
    <2>1. CASE read_offset' = r
      BY <2>1
    <2>2. CASE read_offset' = r % a
      <3> DEFINE m == r % a
      <3>1. m \in Nat /\ m \in 0..(a - 1) /\ d \in 0..a
        BY <1>2
      <3>2. m % a = m
        BY <3>1
      <3>3. (r + d) % a = IF m + d < a THEN m + d ELSE m + d - a
        BY <3>1, ModOffset
      <3> HIDE DEF m
      <3>4. (m + d) % a = IF m + d < a THEN m + d ELSE m + d - a
        BY <3>1, <3>2, ModOffset
      <3>5. read_offset' = m
        BY <2>2 DEF m
      <3> QED BY <3>3, <3>4, <3>5
    <2> QED BY <2>1, <2>2 DEF Store
  <1>6. ASSUME NEW k \in 1..(w - r)
        PROVE  queue'[(read_offset' + k - 1) % a] = q[(r + k - 1) % a]
    <2>1. k - 1 \in 0..(w - r) /\ r + (k - 1) = r + k - 1
          /\ read_offset' + (k - 1) = read_offset' + k - 1
      BY <1>4
    <2>2. (read_offset' + k - 1) % a = (r + k - 1) % a
      BY <2>1, <1>5
    <2>3. k - 1 \in 0..(a - 1) /\ w - r \in 0..(a - 1) /\ k - 1 # w - r
      OBVIOUS
    <2>4. (r + (k - 1)) % a # (r + (w - r)) % a
      BY <2>3, ModDistinct
    <2>5. (r + k - 1) % a # w % a
      BY <2>4, <2>1
    <2>6. (r + k - 1) % a \in 0..(a - 1)
      BY ModRange, r + k - 1 \in Nat
    <2> QED BY <1>1, <2>2, <2>5, <2>6 DEF Buffers
  <1>7. queue'[(read_offset' + (w - r)) % a] = x
    <2>1. (read_offset' + (w - r)) % a = w % a
      BY <1>5, r + (w - r) = w
    <2> QED BY <2>1, <1>1, <1>2 DEF Buffers
  <1> QED BY <1>1, <1>3, <1>4, <1>6, <1>7

\* cf_queue_resize moves the elements to the front of the new ring in order.
LEMMA UnrolledKeepsOrder ==
  ASSUME allocsz \in Nat \ {0}, queue \in Buffers(allocsz), read_offset \in Nat,
         NEW new_sz \in Nat, new_sz > allocsz
  PROVE  /\ Unrolled(new_sz) \in Buffers(new_sz)
         /\ \A k \in 1..allocsz :
              Unrolled(new_sz)[(0 + k - 1) % new_sz] = ElemAt(read_offset + k - 1)
  <1>1. ASSUME NEW s \in Nat PROVE ElemAt(read_offset + s) \in Elem \cup {Garbage}
    BY ModRange, read_offset + s \in Nat DEF ElemAt, Buffers
  <1>2. Unrolled(new_sz) \in Buffers(new_sz)
    BY <1>1 DEF Unrolled, Buffers
  <1>3. ASSUME NEW k \in 1..allocsz
        PROVE  Unrolled(new_sz)[(0 + k - 1) % new_sz] = ElemAt(read_offset + k - 1)
    <2>1. (0 + k - 1) % new_sz = k - 1
      OBVIOUS
    <2>2. k - 1 \in 0..(new_sz - 1) /\ k - 1 < allocsz
      OBVIOUS
    <2>3. read_offset + (k - 1) = read_offset + k - 1
      OBVIOUS
    <2> QED BY <2>1, <2>2, <2>3 DEF Unrolled
  <1> QED BY <1>2, <1>3

\* cf_queue_delete_offset takes out exactly the element at offset i: the ones
\* before it and the ones after it keep their order, whichever end it moved.
LEMMA DeleteOffsetRemoves ==
  ASSUME allocsz \in Nat \ {0}, queue \in Buffers(allocsz),
         read_offset \in Nat, write_offset \in Nat, RingOK,
         NEW i \in read_offset..(write_offset - 1), cf_queue_delete_offset(i)
  PROVE  /\ allocsz' = allocsz
         /\ queue' \in Buffers(allocsz)
         /\ read_offset' \in {read_offset, read_offset + 1}
         /\ read_offset' <= write_offset' /\ write_offset' <= write_offset
         /\ write_offset' \in Nat
         /\ write_offset' - read_offset' = CF_Q_SZ - 1
         /\ \A k \in 1..(CF_Q_SZ - 1) :
              queue'[(read_offset' + k - 1) % allocsz]
                = IF k < i - read_offset + 1 THEN ElemAt(read_offset + k - 1)
                                             ELSE ElemAt(read_offset + k)
  <1> DEFINE a == allocsz
             r == read_offset
             S == write_offset - read_offset
             D == i - read_offset
             m == r % a
             At(d) == (r + d) % a
             index == i % a
             w_index == write_offset % a
             atTail == w_index # 0 /\ index = w_index - 1
             fromHead == index = m \/ (~atTail /\ index > m)
             fromTail == ~fromHead /\ (atTail \/ index < w_index)
  <1>1. /\ a \in Nat \ {0} /\ m \in 0..(a - 1)
        /\ S \in 1..a /\ D \in 0..(S - 1)
    <2>1. m \in 0..(a - 1)
      BY ModRange
    <2> HIDE DEF m
    <2> QED BY <2>1 DEF RingOK, CF_Q_SZ
  <1>2. ASSUME NEW d \in 0..a
        PROVE  At(d) = IF m + d < a THEN m + d ELSE m + d - a
    BY ModOffset
  <1>3. index = At(D) /\ w_index = At(S)
    BY r + D = i, r + S = write_offset
  <1>4. /\ queue' = IF fromHead THEN MovedUp(m, index)
                    ELSE IF fromTail THEN MovedDown(index, w_index)
                    ELSE queue
        /\ read_offset' = r + (IF fromHead THEN 1 ELSE 0)
        /\ write_offset' = write_offset - (IF fromTail THEN 1 ELSE 0)
        /\ allocsz' = a
    BY DEF cf_queue_delete_offset
  <1>5. ASSUME NEW k \in 1..(S - 1)
        PROVE  /\ At(k) = (r + k) % a /\ At(k - 1) = (r + k - 1) % a
               /\ k \in 0..a /\ k - 1 \in 0..a
               /\ At(k) \in 0..(a - 1) /\ At(k - 1) \in 0..(a - 1)
    <2>1. r + (k - 1) = r + k - 1 /\ r + k \in Nat /\ r + (k - 1) \in Nat
      OBVIOUS
    <2>2. k \in 0..a /\ k - 1 \in 0..a
      BY <1>1
    <2> QED BY <2>1, <2>2, ModRange
  <1>6. ASSUME NEW d \in 0..a PROVE ElemAt(r + d) = queue[At(d)]
    BY DEF ElemAt
  <1> HIDE DEF m, At, index, w_index, a, r, S, D
  <1>7. D \in 0..a /\ S \in 0..a
    BY <1>1
  <1>8. index = (IF m + D < a THEN m + D ELSE m + D - a)
        /\ w_index = (IF m + S < a THEN m + S ELSE m + S - a)
    BY <1>2, <1>3, <1>7
  <1>9. CASE fromHead
    <2>1. index = m + D /\ index < a
      BY <1>1, <1>8, <1>9
    <2>2. queue' = MovedUp(m, index)
      BY <1>4, <1>9
    <2>3. ASSUME NEW k \in 1..(S - 1)
          PROVE  queue'[At(k)] = IF k < D + 1 THEN queue[At(k - 1)] ELSE queue[At(k)]
      <3>1. At(k) = (IF m + k < a THEN m + k ELSE m + k - a)
        BY <1>2, <1>5
      <3>2. At(k - 1) = (IF m + k - 1 < a THEN m + k - 1 ELSE m + k - 1 - a)
        BY <1>2, <1>5, <1>1
      <3>3. CASE k < D + 1
        <4>1. At(k) \in (m + 1)..index /\ At(k - 1) = At(k) - 1
          BY <3>1, <3>2, <3>3, <2>1, <1>1
        <4> QED BY <4>1, <3>3, <2>2, <1>5 DEF MovedUp, Slots, a
      <3>4. CASE ~(k < D + 1)
        <4>1. At(k) \notin (m + 1)..index
          BY <3>1, <3>4, <2>1, <1>1
        <4> QED BY <4>1, <3>4, <2>2, <1>5 DEF MovedUp, Slots, a
      <3> QED BY <3>3, <3>4
    <2>4. queue' \in Buffers(a)
      BY <2>1, <2>2, <1>1 DEF MovedUp, Slots, a, Buffers
    <2>5. read_offset' = r + 1 /\ write_offset' = write_offset
      BY <1>4, <1>9, <1>1 DEF r
    <2>6. ASSUME NEW k \in 1..(S - 1)
          PROVE  queue'[(read_offset' + k - 1) % a]
                   = IF k < D + 1 THEN ElemAt(r + k - 1) ELSE ElemAt(r + k)
      <3>1. (read_offset' + k - 1) % a = At(k)
        <4>1. r \in Nat
          BY DEF r
        <4>2. read_offset' + k - 1 = r + k
          BY <4>1, <2>5
        <4> QED BY <4>2, <1>5
      <3>2. ElemAt(r + k) = queue[At(k)]
        BY <1>5, <1>6
      <3>3. ElemAt(r + k - 1) = queue[At(k - 1)]
        BY <1>5, <1>6, r + (k - 1) = r + k - 1 DEF r
      <3> QED BY <3>1, <3>2, <3>3, <2>3
    <2>7. /\ read_offset' \in {r, r + 1}
          /\ read_offset' <= write_offset' /\ write_offset' <= write_offset
          /\ write_offset' \in Nat
          /\ write_offset' - read_offset' = S - 1
      BY <2>5, <1>1 DEF S, r
    <2> QED BY <2>4, <2>6, <2>7, <1>4 DEF a, r, S, D, CF_Q_SZ
  <1>10. CASE ~fromHead
    <2>1. fromTail
      BY <1>1, <1>8, <1>10
    <2>2. queue' = MovedDown(index, w_index)
      BY <1>4, <1>10, <2>1
    <2>3. ASSUME NEW k \in 1..(S - 1)
          PROVE  queue'[At(k - 1)] = IF k < D + 1 THEN queue[At(k - 1)] ELSE queue[At(k)]
      <3>1. At(k) = (IF m + k < a THEN m + k ELSE m + k - a)
        BY <1>2, <1>5
      <3>2. At(k - 1) = (IF m + k - 1 < a THEN m + k - 1 ELSE m + k - 1 - a)
        BY <1>2, <1>5, <1>1
      <3>3. CASE k < D + 1
        <4>1. At(k - 1) \notin index..(w_index - 2)
          BY <3>1, <3>2, <3>3, <1>10, <2>1, <1>8, <1>1
        <4> QED BY <4>1, <3>3, <2>2, <1>5 DEF MovedDown, Slots, a
      <3>4. CASE ~(k < D + 1)
        <4>1. At(k - 1) \in index..(w_index - 2) /\ At(k) = At(k - 1) + 1
          BY <3>1, <3>2, <3>4, <1>10, <2>1, <1>8, <1>1
        <4> QED BY <4>1, <3>4, <2>2, <1>5 DEF MovedDown, Slots, a
      <3> QED BY <3>3, <3>4
    <2>4. queue' \in Buffers(a)
      BY <2>2, <1>1, <1>8 DEF MovedDown, Slots, a, Buffers
    <2>5. read_offset' = r /\ write_offset' = write_offset - 1
      BY <1>4, <1>10, <2>1, <1>1 DEF r
    <2>6. ASSUME NEW k \in 1..(S - 1)
          PROVE  queue'[(read_offset' + k - 1) % a]
                   = IF k < D + 1 THEN ElemAt(r + k - 1) ELSE ElemAt(r + k)
      <3>1. (read_offset' + k - 1) % a = At(k - 1)
        <4>1. r \in Nat
          BY DEF r
        <4>2. read_offset' + k - 1 = r + k - 1
          BY <4>1, <2>5
        <4> QED BY <4>2, <1>5
      <3>2. ElemAt(r + k) = queue[At(k)]
        BY <1>5, <1>6
      <3>3. ElemAt(r + k - 1) = queue[At(k - 1)]
        BY <1>5, <1>6, r + (k - 1) = r + k - 1 DEF r
      <3> QED BY <3>1, <3>2, <3>3, <2>3
    <2>7. /\ read_offset' \in {r, r + 1}
          /\ read_offset' <= write_offset' /\ write_offset' <= write_offset
          /\ write_offset' \in Nat
          /\ write_offset' - read_offset' = S - 1
      BY <2>5, <1>1 DEF S, r
    <2> QED BY <2>4, <2>6, <2>7, <1>4 DEF a, r, S, D, CF_Q_SZ
  <1> QED BY <1>9, <1>10

-----------------------------------------------------------------------------
(* The inductive invariant                                                 *)

\* The ring by itself: what every call needs and leaves behind.
Sound == TypeOK /\ RingOK /\ OffsetsBounded /\ LiveSlotsWritten

\* With what a walk under way has seen.
Inv == Sound /\ ScanSeen

\* A ring of a size within the bound is not the null pointer.
LEMMA BufferNotNull ==
  ASSUME NEW a \in Nat \ {0}, a <= MaxAllocsz, NEW q \in Buffers(a)
  PROVE  q # NULL
  BY NullAssumption, BoundAssumption, AllocAssumption DEF Buffers

\* The k-th element, counted from the oldest.
Nth(k) == ElemAt(read_offset + k - 1)

\* Every live offset is one of the elements, counted from the read offset.
LEMMA LiveByCount ==
  ASSUME NEW q, NEW a, NEW r \in Nat, NEW w \in Nat
  PROVE  (\A i \in r..(w - 1) : q[i % a] \in Elem)
           <=> (\A k \in 1..(w - r) : q[(r + k - 1) % a] \in Elem)
  <1>1. ASSUME NEW i \in r..(w - 1)
        PROVE  i - r + 1 \in 1..(w - r) /\ r + (i - r + 1) - 1 = i
    OBVIOUS
  <1>2. ASSUME NEW k \in 1..(w - r)
        PROVE  r + k - 1 \in r..(w - 1)
    OBVIOUS
  <1> QED BY <1>1, <1>2

\* What a push of x does to the elements when it succeeds.
Appended(x) ==
  /\ queue' # NULL
  /\ CF_Q_SZ' = CF_Q_SZ + 1
  /\ \A k \in 1..CF_Q_SZ : Nth(k)' = Nth(k)
  /\ Nth(CF_Q_SZ)' = x

\* A push appends, or refuses and leaves the ring alone, or loses the buffer;
\* the ring is sound again in each case.
LEMMA InsertEffect ==
  ASSUME Sound, queue # NULL, NEW x \in Elem, NEW op, NEW ok, NEW failed,
         Insert(x, op, ok, failed), scan' = scan, scan = NoScan
  PROVE  /\ Sound'
         /\ \/ Appended(x) /\ ret' = Answer(op, ok)
            \/ /\ UNCHANGED <<queue, allocsz, read_offset, write_offset>>
               /\ ret' = Answer(op, failed)
            \/ queue' = NULL /\ ret' = Answer(op, failed)
  <1>1. /\ allocsz \in Nat \ {0} /\ allocsz <= MaxAllocsz
        /\ queue \in Buffers(allocsz)
        /\ read_offset \in Nat /\ write_offset \in Nat
        /\ read_offset <= write_offset /\ CF_Q_SZ <= allocsz
    BY DEF Sound, TypeOK, RingOK, Buffers, Slots
  <1>2. \A k \in 1..CF_Q_SZ : Nth(k) \in Elem
    BY LiveByCount DEF Sound, LiveSlotsWritten, TypeOK, Nth, ElemAt, CF_Q_SZ
  <1>3. ASSUME NEW a \in Nat \ {0}, a <= MaxAllocsz, NEW q \in Buffers(a),
               NEW r \in Nat, NEW w \in Nat, r <= w, w - r < a,
               w - r = CF_Q_SZ,
               \A k \in 1..CF_Q_SZ : q[(r + k - 1) % a] = Nth(k),
               Store(x, q, a, r, w)
        PROVE  Sound' /\ Appended(x)
    <2>1. /\ allocsz' = a
          /\ queue' \in Buffers(a)
          /\ read_offset' \in Nat
          /\ write_offset' \in Nat
          /\ read_offset' <= write_offset'
          /\ write_offset' - read_offset' = w - r + 1
          /\ write_offset' < UNWRAP \/ write_offset' < 2 * a
          /\ \A k \in 1..(w - r) :
               queue'[(read_offset' + k - 1) % a] = q[(r + k - 1) % a]
          /\ queue'[(read_offset' + (w - r)) % a] = x
      BY <1>3, StoreAppends
    <2>2. queue' # NULL
      BY <2>1, <1>3, BufferNotNull
    <2>3. CF_Q_SZ' = CF_Q_SZ + 1
      BY <2>1, <1>3 DEF CF_Q_SZ
    <2>4. ASSUME NEW k \in 1..CF_Q_SZ PROVE Nth(k)' = Nth(k)
      BY <2>1, <1>3 DEF Nth, ElemAt
    <2>5. Nth(CF_Q_SZ)' = x
      <3>1. CF_Q_SZ' = (w - r) + 1 /\ CF_Q_SZ \in Nat
        BY <2>3, <1>3
      <3>2. read_offset' + CF_Q_SZ' - 1 = read_offset' + (w - r)
        BY <3>1, <2>1
      <3> QED BY <3>2, <2>1 DEF Nth, ElemAt
    <2>6. Appended(x)
      BY <2>2, <2>3, <2>4, <2>5 DEF Appended
    <2>7. TypeOK'
      BY <2>1, <1>3 DEF TypeOK, Buffers, Slots, NoScan
    <2>8. RingOK'
      <3>1. w - r + 1 <= a /\ w - r + 1 >= 0 /\ w - r + 1 \in Int
        BY <1>3
      <3>2. /\ read_offset' \in Nat /\ write_offset' \in Nat /\ allocsz' = a
            /\ write_offset' - read_offset' = w - r + 1
        BY <2>1
      <3> QED BY <3>1, <3>2, <2>1 DEF RingOK, CF_Q_SZ
    <2>9. OffsetsBounded'
      BY <2>1 DEF OffsetsBounded
    <2>10. LiveSlotsWritten'
      <3>1. ASSUME NEW k \in 1..(CF_Q_SZ') PROVE Nth(k)' \in Elem
        <4>1. CASE k \in 1..CF_Q_SZ
          BY <4>1, <2>4, <1>2
        <4>2. CASE k = CF_Q_SZ'
          BY <4>2, <2>5 DEF Nth
        <4>3. CF_Q_SZ \in Nat
          BY <1>3
        <4> QED BY <4>1, <4>2, <4>3, <2>3
      <3> QED BY <3>1, <2>1, LiveByCount DEF LiveSlotsWritten, Nth, ElemAt, CF_Q_SZ
    <2> QED BY <2>6, <2>7, <2>8, <2>9, <2>10 DEF Sound
  <1>4. CASE /\ CF_Q_SZ # allocsz
             /\ Store(x, queue, allocsz, read_offset, write_offset)
             /\ ret' = Answer(op, ok)
    <2>1. \A k \in 1..CF_Q_SZ : queue[(read_offset + k - 1) % allocsz] = Nth(k)
      BY DEF Nth, ElemAt
    <2>2. write_offset - read_offset = CF_Q_SZ /\ write_offset - read_offset < allocsz
      BY <1>1, <1>4 DEF CF_Q_SZ
    <2> QED BY <1>1, <1>3, <1>4, <2>1, <2>2
  <1>5. CASE /\ CF_Q_SZ = allocsz
             /\ allocsz + ALLOCSZ <= MaxAllocsz
             /\ Grow(x)
             /\ ret' = Answer(op, ok)
    <2> DEFINE new_sz == allocsz + ALLOCSZ
    <2>1. new_sz \in Nat \ {0} /\ new_sz <= MaxAllocsz /\ new_sz > allocsz
      BY <1>1, <1>5, AllocAssumption, BoundAssumption
    <2>2. Store(x, Unrolled(new_sz), new_sz, 0, allocsz)
      BY <1>5 DEF Grow
    <2> HIDE DEF new_sz
    <2>3. /\ Unrolled(new_sz) \in Buffers(new_sz)
          /\ \A k \in 1..CF_Q_SZ : Unrolled(new_sz)[(0 + k - 1) % new_sz] = Nth(k)
      BY <1>1, <1>5, <2>1, UnrolledKeepsOrder DEF Nth
    <2>4. allocsz - 0 = CF_Q_SZ /\ allocsz - 0 < new_sz /\ 0 <= allocsz
      BY <1>1, <1>5, <2>1
    <2> QED BY <1>1, <1>3, <1>5, <2>1, <2>2, <2>3, <2>4
  <1>6. CASE CF_Q_SZ = allocsz /\ ResizeFails /\ ret' = Answer(op, failed)
    <2>1. Sound'
      BY <1>1, <1>6 DEF Sound, TypeOK, RingOK, OffsetsBounded, LiveSlotsWritten,
           ResizeFails, Slots, CF_Q_SZ, ElemAt
    <2> QED BY <2>1, <1>6 DEF ResizeFails
  <1> QED BY <1>4, <1>5, <1>6 DEF Insert

Scans == {NoScan} \cup ReduceScans \cup DeleteScans

\* What taking out the d-th element does to the others.
RemovedNth(d) ==
  /\ queue' # NULL
  /\ CF_Q_SZ' = CF_Q_SZ - 1
  /\ \A k \in 1..(CF_Q_SZ - 1) : Nth(k)' = IF k < d THEN Nth(k) ELSE Nth(k + 1)

\* A pop takes out the first element, also when it starts the offsets afresh.
LEMMA PopEffect ==
  ASSUME Sound, cf_queue_pop, ~CF_Q_EMPTY
  PROVE  Sound' /\ RemovedNth(1) /\ ret' = Got(Nth(1))
  <1>1. /\ allocsz \in Nat \ {0} /\ queue # NULL
        /\ read_offset \in Nat /\ write_offset \in Nat
        /\ read_offset < write_offset /\ write_offset - read_offset <= allocsz
    BY DEF Sound, TypeOK, RingOK, CF_Q_SZ, CF_Q_EMPTY, cf_queue_pop, Callable
  <1>2. /\ UNCHANGED <<queue, allocsz, scan>>
        /\ ret' = Got(ElemAt(read_offset))
        /\ IF read_offset + 1 = write_offset
             THEN read_offset' = 0 /\ write_offset' = 0
             ELSE read_offset' = read_offset + 1 /\ write_offset' = write_offset
    BY DEF cf_queue_pop
  <1>3. ret' = Got(Nth(1))
    BY <1>1, <1>2, read_offset + 1 - 1 = read_offset DEF Nth
  <1>4. RemovedNth(1)
    <2>1. CF_Q_SZ' = CF_Q_SZ - 1
      BY <1>1, <1>2 DEF CF_Q_SZ
    <2>2. ASSUME NEW k \in 1..(CF_Q_SZ - 1) PROVE Nth(k)' = Nth(k + 1)
      <3>1. read_offset' = read_offset + 1
        BY <1>1, <1>2 DEF CF_Q_SZ
      <3>2. read_offset' + k - 1 = read_offset + (k + 1) - 1
        BY <3>1, <1>1
      <3> QED BY <3>2, <1>2 DEF Nth, ElemAt
    <2>3. ASSUME NEW k \in 1..(CF_Q_SZ - 1) PROVE ~(k < 1)
      OBVIOUS
    <2> QED BY <2>1, <2>2, <2>3, <1>1, <1>2 DEF RemovedNth
  <1>5. TypeOK' /\ RingOK'
    BY <1>1, <1>2 DEF Sound, TypeOK, RingOK, CF_Q_SZ, Slots
  <1>6. OffsetsBounded'
    BY <1>1, <1>2, UnwrapAssumption DEF Sound, OffsetsBounded
  <1>7. LiveSlotsWritten'
    BY <1>1, <1>2 DEF Sound, LiveSlotsWritten, ElemAt
  <1> QED BY <1>3, <1>4, <1>5, <1>6, <1>7 DEF Sound

\* A delete in the middle of a walk takes out the element the walk is at.
LEMMA DeleteEffect ==
  ASSUME Sound, queue # NULL, NEW i \in read_offset..(write_offset - 1),
         cf_queue_delete_offset(i), scan' \in Scans
  PROVE  /\ Sound'
         /\ RemovedNth(i - read_offset + 1)
         /\ read_offset' \in {read_offset, read_offset + 1}
  <1>1. /\ allocsz \in Nat \ {0} /\ allocsz <= MaxAllocsz
        /\ queue \in Buffers(allocsz)
        /\ read_offset \in Nat /\ write_offset \in Nat /\ RingOK
    BY DEF Sound, TypeOK, Buffers, Slots
  <1>2. /\ allocsz' = allocsz
        /\ queue' \in Buffers(allocsz)
        /\ read_offset' \in {read_offset, read_offset + 1}
        /\ read_offset' <= write_offset' /\ write_offset' <= write_offset
        /\ write_offset' \in Nat
        /\ write_offset' - read_offset' = CF_Q_SZ - 1
        /\ \A k \in 1..(CF_Q_SZ - 1) :
             queue'[(read_offset' + k - 1) % allocsz]
               = IF k < i - read_offset + 1 THEN ElemAt(read_offset + k - 1)
                                            ELSE ElemAt(read_offset + k)
    BY <1>1, DeleteOffsetRemoves
  <1>3. queue' # NULL
    BY <1>1, <1>2, BufferNotNull
  <1>4. CF_Q_SZ' = CF_Q_SZ - 1
    BY <1>2 DEF CF_Q_SZ
  <1>5. ASSUME NEW k \in 1..(CF_Q_SZ - 1)
        PROVE  Nth(k)' = IF k < i - read_offset + 1 THEN Nth(k) ELSE Nth(k + 1)
    BY <1>1, <1>2, read_offset + (k + 1) - 1 = read_offset + k DEF Nth, ElemAt
  <1>6. RemovedNth(i - read_offset + 1)
    BY <1>3, <1>4, <1>5 DEF RemovedNth
  <1>7. TypeOK'
    BY <1>1, <1>2, <1>3 DEF TypeOK, Buffers, Slots, Scans
  <1>8. RingOK'
    <2>1. CF_Q_SZ - 1 <= allocsz
      BY <1>1 DEF RingOK, CF_Q_SZ
    <2>2. CF_Q_SZ' <= allocsz'
      BY <2>1, <1>2, <1>4
    <2> QED BY <2>2, <1>2 DEF RingOK
  <1>9. OffsetsBounded'
    BY <1>1, <1>2, UnwrapAssumption DEF Sound, OffsetsBounded
  <1>10. LiveSlotsWritten'
    <2>1. \A k \in 1..CF_Q_SZ : Nth(k) \in Elem
      BY <1>1, LiveByCount DEF Sound, LiveSlotsWritten, Nth, ElemAt, CF_Q_SZ
    <2>2. CF_Q_SZ \in Nat
      BY <1>1 DEF RingOK, CF_Q_SZ
    <2>3. ASSUME NEW k \in 1..(CF_Q_SZ') PROVE Nth(k)' \in Elem
      <3>1. k \in 1..CF_Q_SZ /\ k + 1 \in 1..CF_Q_SZ /\ k \in 1..(CF_Q_SZ - 1)
        BY <1>4, <2>2
      <3> QED BY <3>1, <1>5, <2>1
    <2>4. read_offset' \in Nat
      BY <1>1, <1>2
    <2> QED
      BY <2>3, <2>4, <1>2, LiveByCount DEF LiveSlotsWritten, Nth, ElemAt, CF_Q_SZ
  <1> QED BY <1>2, <1>6, <1>7, <1>8, <1>9, <1>10 DEF Sound

\* The kinds of walk are told apart by op.
LEMMA ScanKinds ==
  ASSUME scan \in Scans
  PROVE  /\ scan.op = "reduce" => scan \in ReduceScans
         /\ scan.op = "delete" => scan \in DeleteScans
         /\ scan.op = "none" => scan = NoScan
         /\ scan.op \in {"none", "reduce", "delete"}
         /\ NoScan.op = "none"
  BY DEF Scans, ReduceScans, DeleteScans, NoScan

\* A call that leaves the ring alone leaves it sound.
LEMMA RingUntouched ==
  ASSUME Sound, scan' \in Scans, queue # NULL \/ scan' = NoScan,
         UNCHANGED <<queue, allocsz, read_offset, write_offset>>
  PROVE  Sound'
  BY DEF Sound, TypeOK, RingOK, OffsetsBounded, LiveSlotsWritten, Slots, CF_Q_SZ,
       ElemAt, Scans

\* The initial ring satisfies the invariant.
LEMMA InvInit == Init => Inv
  BY AllocAssumption, BoundAssumption, UnwrapAssumption
  DEF Init, Inv, Sound, TypeOK, RingOK, OffsetsBounded, LiveSlotsWritten, ScanSeen,
      NoScan, Slots, CF_Q_SZ

\* Every step of the queue preserves the invariant.
LEMMA InvNext == Inv /\ [Next]_vars => Inv'
  <1> SUFFICES ASSUME Inv, [Next]_vars PROVE Inv'
    OBVIOUS
  <1> USE DEF Inv
  <1>1. scan \in Scans /\ (queue = NULL => scan = NoScan)
    BY DEF Sound, TypeOK, Scans
  <1>2. ASSUME Sound', scan' = NoScan PROVE Inv'
    BY <1>2 DEF ScanSeen, NoScan
  <1>3. NoScan \in Scans
    BY DEF Scans
  <1>4. ASSUME NEW x \in Elem, cf_queue_push(x) PROVE Inv'
    BY <1>2, <1>4, InsertEffect DEF cf_queue_push, Callable
  <1>5. ASSUME NEW x \in Elem, NEW limit \in Limits, cf_queue_push_limit(x, limit)
        PROVE  Inv'
    <2>1. queue # NULL /\ scan = NoScan /\ scan' = NoScan
      BY <1>5 DEF cf_queue_push_limit, Callable
    <2>2. CASE UNCHANGED <<queue, allocsz, read_offset, write_offset>>
      BY <2>1, <2>2, <1>2, <1>3, RingUntouched
    <2>3. CASE Insert(x, "push_limit", TRUE, FALSE)
      BY <2>1, <2>3, <1>2, InsertEffect
    <2> QED BY <2>2, <2>3, <1>5 DEF cf_queue_push_limit
  <1>6. CASE cf_queue_pop
    <2>1. scan' = NoScan /\ queue # NULL
      BY <1>6 DEF cf_queue_pop, Callable
    <2>2. CASE CF_Q_EMPTY
      BY <2>1, <2>2, <1>2, <1>3, <1>6, RingUntouched DEF cf_queue_pop
    <2>3. CASE ~CF_Q_EMPTY
      BY <2>1, <2>3, <1>2, <1>6, PopEffect
    <2> QED BY <2>2, <2>3
  <1>7. CASE cf_queue_sz
    BY <1>2, <1>3, <1>7, RingUntouched DEF cf_queue_sz, Callable
  <1>8. ASSUME NEW cb \in [Elem -> {0, -1, -2}], ReduceBegin(cb) PROVE Inv'
    <2>1. /\ scan' = ReduceScan(cb, read_offset) /\ queue # NULL
          /\ UNCHANGED <<queue, allocsz, read_offset, write_offset>>
          /\ read_offset \in Nat /\ write_offset \in Nat /\ read_offset <= write_offset
      BY <1>8 DEF ReduceBegin, Callable, Sound, TypeOK, RingOK
    <2>2. scan' \in ReduceScans
      BY <2>1 DEF ReduceScan, ReduceScans
    <2>3. ScanSeen'
      BY <2>1 DEF ScanSeen, ReduceScan
    <2>4. Sound'
      BY <2>1, <2>2, RingUntouched DEF Scans
    <2> QED BY <2>3, <2>4
  <1>9. CASE ReduceStep
    <2>1. /\ scan \in ReduceScans /\ scan.i \in Nat
          /\ scan.i \in read_offset..(write_offset - 1) /\ queue # NULL
      BY <1>1, <1>9, ScanKinds DEF ReduceStep, ScanSeen, ReduceScans, Sound, TypeOK
    <2>2. CASE scan' = NoScan /\ UNCHANGED <<queue, allocsz, read_offset, write_offset>>
      BY <2>2, <1>2, <1>3, RingUntouched
    <2>3. CASE scan' = NoScan /\ cf_queue_delete_offset(scan.i)
      BY <2>1, <2>3, <1>2, <1>3, DeleteEffect
    <2>4. CASE /\ scan.cb[ElemAt(scan.i)] = 0
               /\ scan' = [scan EXCEPT !.i = @ + 1]
               /\ UNCHANGED <<queue, allocsz, read_offset, write_offset>>
      <3>1. scan' \in ReduceScans /\ scan'.i = scan.i + 1 /\ scan'.cb = scan.cb
            /\ scan'.op = "reduce"
        BY <2>1, <2>4 DEF ReduceScans
      <3>2. Sound'
        BY <3>1, <2>1, <2>4, RingUntouched DEF Scans
      <3>3. read_offset \in Nat /\ write_offset \in Nat
        BY DEF Sound, TypeOK
      <3>4. \A j \in read_offset..(scan.i - 1) : scan.cb[ElemAt(j)] = 0
        BY <1>9 DEF ScanSeen, ReduceStep
      <3>5. \A j \in read_offset..scan.i : scan.cb[ElemAt(j)] = 0
        BY <3>3, <3>4, <2>1, <2>4
      <3>6. scan'.i - 1 = scan.i
        BY <3>1, <2>1
      <3>7. (\A j \in read_offset..(scan.i - 1) : scan.cb[ElemAt(j)] = 0)'
        BY <3>1, <3>5, <3>6, <2>4 DEF ElemAt
      <3>8. ScanSeen'
        BY <3>1, <3>3, <3>7, <2>1, <2>4 DEF ScanSeen
      <3> QED BY <3>2, <3>8
    <2> QED BY <1>9, <2>2, <2>3, <2>4 DEF ReduceStep
  <1>10. CASE ReduceEnd
    BY <1>2, <1>3, <1>10, RingUntouched DEF ReduceEnd
  <1>11. ASSUME NEW x \in Elem, NEW only_one \in BOOLEAN, DeleteBegin(x, only_one)
         PROVE  Inv'
    <2>1. /\ scan' = DeleteScan(x, only_one, FALSE, read_offset) /\ queue # NULL
          /\ UNCHANGED <<queue, allocsz, read_offset, write_offset>>
          /\ read_offset \in Nat /\ write_offset \in Nat /\ read_offset <= write_offset
      BY <1>11 DEF DeleteBegin, Callable, Sound, TypeOK, RingOK
    <2>2. scan' \in DeleteScans
      BY <2>1 DEF DeleteScan, DeleteScans
    <2>3. ScanSeen'
      BY <2>1 DEF ScanSeen, DeleteScan
    <2>4. Sound'
      BY <2>1, <2>2, RingUntouched DEF Scans
    <2> QED BY <2>3, <2>4
  <1>12. CASE DeleteStep
    <2>1. /\ scan \in DeleteScans /\ scan.i \in Nat
          /\ scan.i \in read_offset..(write_offset - 1) /\ queue # NULL
      BY <1>1, <1>12, ScanKinds DEF DeleteStep, ScanSeen, DeleteScans, Sound, TypeOK
    <2>2. read_offset \in Nat /\ write_offset \in Nat
      BY DEF Sound, TypeOK
    <2>3. CASE scan' = NoScan /\ cf_queue_delete_offset(scan.i)
      BY <2>1, <2>3, <1>2, <1>3, DeleteEffect
    <2>4. CASE /\ ~scan.only_one
               /\ scan' = DeleteScan(scan.x, scan.only_one, TRUE, scan.i + 1)
               /\ cf_queue_delete_offset(scan.i)
      <3>1. scan' \in DeleteScans /\ scan'.i = scan.i + 1 /\ scan'.found = TRUE
            /\ scan'.op = "delete" /\ ~scan'.only_one
        BY <2>1, <2>4 DEF DeleteScans, DeleteScan
      <3>2. Sound' /\ read_offset' \in {read_offset, read_offset + 1}
        BY <3>1, <2>1, <2>4, DeleteEffect DEF Scans
      <3>3. ScanSeen'
        BY <3>1, <3>2, <2>1, <2>2 DEF ScanSeen
      <3> QED BY <3>2, <3>3
    <2>5. CASE /\ ElemAt(scan.i) # scan.x
               /\ scan' = [scan EXCEPT !.i = @ + 1]
               /\ UNCHANGED <<queue, allocsz, read_offset, write_offset>>
      <3>1. scan' \in DeleteScans /\ scan'.i = scan.i + 1 /\ scan'.x = scan.x
            /\ scan'.op = "delete" /\ scan'.found = scan.found
            /\ scan'.only_one = scan.only_one /\ scan.op = "delete"
        BY <2>1, <2>5 DEF DeleteScans
      <3>2. Sound'
        BY <3>1, <2>1, <2>5, RingUntouched DEF Scans
      <3>3. ASSUME ~scan.found
            PROVE  (\A j \in read_offset..(scan.i - 1) : ElemAt(j) # scan.x)'
        <4>1. \A j \in read_offset..(scan.i - 1) : ElemAt(j) # scan.x
          BY <1>12, <3>3 DEF ScanSeen, DeleteStep
        <4>2. \A j \in read_offset..scan.i : ElemAt(j) # scan.x
          BY <4>1, <2>1, <2>2, <2>5
        <4>3. scan'.i - 1 = scan.i
          BY <3>1, <2>1
        <4> QED BY <3>1, <4>2, <4>3, <2>5 DEF ElemAt
      <3>4. ScanSeen'
        BY <3>1, <3>3, <2>1, <2>2, <2>5 DEF ScanSeen
      <3> QED BY <3>2, <3>4
    <2> QED BY <1>12, <2>3, <2>4, <2>5 DEF DeleteStep
  <1>13. CASE DeleteEnd
    BY <1>2, <1>3, <1>13, RingUntouched DEF DeleteEnd
  <1>14. CASE UNCHANGED vars
    BY <1>14 DEF vars, Sound, TypeOK, RingOK, OffsetsBounded, LiveSlotsWritten,
         ScanSeen, Slots, CF_Q_SZ, ElemAt
  <1> QED
    BY <1>4, <1>5, <1>6, <1>7, <1>8, <1>9, <1>10, <1>11, <1>12, <1>13, <1>14
    DEF Next

\* In every execution of cf_queue the offsets are in order and in range, the
\* ring is never overfull, every element within reach of a pop was pushed, and
\* a walk knows what it has passed.
THEOREM RingCorrect ==
  Spec => []RingSound
  <1>1. Inv => RingSound
    BY DEF Inv, Sound, RingSound
  <1> QED BY InvInit, InvNext, <1>1, PTL DEF Spec

-----------------------------------------------------------------------------
(* The ring implements the abstract queue                                  *)

\* A function on 1..n is a sequence of length n.
LEMMA FunIsSeq ==
  ASSUME NEW S, NEW n \in Nat, NEW f \in [1..n -> S]
  PROVE  f \in Seq(S) /\ Len(f) = n /\ DOMAIN f = 1..n
  OBVIOUS

\* One more element at the end is Append.
LEMMA FunAppend ==
  ASSUME NEW S, NEW n \in Nat, NEW f \in [1..n -> S], NEW g \in [1..(n + 1) -> S],
         NEW x \in S, \A k \in 1..n : g[k] = f[k], g[n + 1] = x
  PROVE  g = Append(f, x)
  <1>1. f \in Seq(S) /\ Len(f) = n
    BY FunIsSeq
  <1>2. Append(f, x) \in Seq(S) /\ Len(Append(f, x)) = n + 1
    BY <1>1
  <1>3. g \in Seq(S) /\ Len(g) = n + 1
    BY FunIsSeq, n + 1 \in Nat
  <1>4. ASSUME NEW k \in 1..(n + 1) PROVE g[k] = Append(f, x)[k]
    BY <1>1
  <1> QED BY <1>2, <1>3, <1>4

\* One element less at the front is Tail.
LEMMA FunTail ==
  ASSUME NEW S, NEW n \in Nat \ {0}, NEW f \in [1..n -> S],
         NEW g \in [1..(n - 1) -> S], \A k \in 1..(n - 1) : g[k] = f[k + 1]
  PROVE  f # <<>> /\ Head(f) = f[1] /\ g = Tail(f)
  <1>1. f \in Seq(S) /\ Len(f) = n
    BY FunIsSeq
  <1>2. f # <<>> /\ Tail(f) \in Seq(S) /\ Len(Tail(f)) = n - 1
    BY <1>1
  <1>3. g \in Seq(S) /\ Len(g) = n - 1
    BY FunIsSeq, n - 1 \in Nat
  <1>4. ASSUME NEW k \in 1..(n - 1) PROVE g[k] = Tail(f)[k]
    BY <1>1
  <1> QED BY <1>1, <1>2, <1>3, <1>4

\* The elements of a sound ring are a sequence of pushed values.
LEMMA RingIsSeq ==
  ASSUME NEW q, NEW a, NEW r \in Nat, NEW w \in Nat, r <= w,
         \A i \in r..(w - 1) : q[i % a] \in Elem
  PROVE  w - r \in Nat /\ [k \in 1..(w - r) |-> q[(r + k - 1) % a]] \in [1..(w - r) -> Elem]
  BY LiveByCount

\* Contents is the sequence of the elements between the offsets.
LEMMA ContentsSeq ==
  ASSUME Sound, queue # NULL
  PROVE  /\ CF_Q_SZ \in Nat
         /\ Contents \in [1..CF_Q_SZ -> Elem]
         /\ Len(Contents) = CF_Q_SZ
         /\ \A k \in 1..CF_Q_SZ : Contents[k] = Nth(k)
  <1>1. CF_Q_SZ \in Nat /\ Contents \in [1..CF_Q_SZ -> Elem]
    <2>1. /\ read_offset \in Nat /\ write_offset \in Nat /\ read_offset <= write_offset
          /\ \A i \in read_offset..(write_offset - 1) : queue[i % allocsz] \in Elem
      BY DEF Sound, TypeOK, RingOK, LiveSlotsWritten, ElemAt
    <2>2. /\ write_offset - read_offset \in Nat
          /\ [k \in 1..(write_offset - read_offset) |->
                queue[(read_offset + k - 1) % allocsz]]
                  \in [1..(write_offset - read_offset) -> Elem]
      BY <2>1, RingIsSeq
    <2> QED BY <2>2, Zenon DEF Contents, CF_Q_SZ, ElemAt
  <1> QED BY <1>1, FunIsSeq DEF Contents, Nth

\* The same of the next state.
LEMMA ContentsSeqNext ==
  ASSUME Sound', queue' # NULL
  PROVE  /\ CF_Q_SZ' \in Nat
         /\ Contents' \in [1..CF_Q_SZ' -> Elem]
         /\ Len(Contents') = CF_Q_SZ'
         /\ \A k \in 1..CF_Q_SZ' : Contents'[k] = Nth(k)'
  <1>1. CF_Q_SZ' \in Nat /\ Contents' \in [1..CF_Q_SZ' -> Elem]
    <2>1. /\ read_offset' \in Nat /\ write_offset' \in Nat /\ read_offset' <= write_offset'
          /\ \A i \in read_offset'..(write_offset' - 1) : queue'[i % allocsz'] \in Elem
      BY DEF Sound, TypeOK, RingOK, LiveSlotsWritten, ElemAt
    <2>2. PICK q, a, r, w : /\ q = queue' /\ a = allocsz'
                            /\ r = read_offset' /\ w = write_offset'
      OBVIOUS
    <2>3. /\ r \in Nat /\ w \in Nat /\ r <= w
          /\ \A i \in r..(w - 1) : q[i % a] \in Elem
      BY <2>1, <2>2
    <2>4. /\ w - r \in Nat
          /\ [k \in 1..(w - r) |-> q[(r + k - 1) % a]] \in [1..(w - r) -> Elem]
      BY <2>3, RingIsSeq
    <2> QED BY <2>2, <2>4, Zenon DEF Contents, CF_Q_SZ, ElemAt
  <1> QED BY <1>1, FunIsSeq DEF Contents, Nth

\* What a push does to the ring is Append on the contents.
LEMMA AppendedIsAppend ==
  ASSUME Sound, Sound', queue # NULL, NEW x \in Elem, Appended(x)
  PROVE  Contents' = Append(Contents, x)
  <1>1. /\ CF_Q_SZ \in Nat /\ CF_Q_SZ' = CF_Q_SZ + 1
        /\ Contents \in [1..CF_Q_SZ -> Elem]
        /\ Contents' \in [1..(CF_Q_SZ + 1) -> Elem]
    BY ContentsSeq, ContentsSeqNext DEF Appended
  <1>2. ASSUME NEW k \in 1..CF_Q_SZ PROVE Contents'[k] = Contents[k]
    BY <1>1, ContentsSeq, ContentsSeqNext DEF Appended
  <1>3. Contents'[CF_Q_SZ + 1] = x
    <2>1. CF_Q_SZ + 1 \in 1..CF_Q_SZ'
      BY <1>1
    <2>2. Nth(CF_Q_SZ)' = x
      BY DEF Appended
    <2> QED BY <1>1, <2>1, <2>2, ContentsSeqNext DEF Contents, Nth, Appended
  <1> QED BY <1>1, <1>2, <1>3, FunAppend

\* What a pop or a deletion does to the ring takes one element out of the
\* contents and keeps the order of the others.
LEMMA RemovedIsWithout ==
  ASSUME Sound, Sound', queue # NULL, NEW d \in 1..CF_Q_SZ, RemovedNth(d)
  PROVE  /\ Contents' = Abs!Without(Contents, d)
         /\ d = 1 => Contents' = Tail(Contents) /\ Contents # <<>>
                       /\ Head(Contents) = Contents[1]
  <1>1. /\ CF_Q_SZ \in Nat \ {0} /\ CF_Q_SZ' = CF_Q_SZ - 1
        /\ Contents \in [1..CF_Q_SZ -> Elem]
        /\ Len(Contents) = CF_Q_SZ
        /\ Contents' \in [1..(CF_Q_SZ - 1) -> Elem]
    BY ContentsSeq, ContentsSeqNext DEF RemovedNth
  <1>2. ASSUME NEW k \in 1..(CF_Q_SZ - 1)
        PROVE  Contents'[k] = IF k < d THEN Contents[k] ELSE Contents[k + 1]
    <2>1. k \in 1..CF_Q_SZ /\ k + 1 \in 1..CF_Q_SZ
      BY <1>1
    <2>2. Contents[k] = Nth(k) /\ Contents[k + 1] = Nth(k + 1)
      BY <2>1, ContentsSeq
    <2>3. Contents'[k] = Nth(k)'
      BY <1>1, ContentsSeqNext DEF RemovedNth
    <2> QED BY <2>2, <2>3 DEF RemovedNth
  <1>3. Contents' = Abs!Without(Contents, d)
    BY <1>1, <1>2 DEF Abs!Without
  <1>4. ASSUME d = 1 PROVE Contents' = Tail(Contents) /\ Contents # <<>>
                             /\ Head(Contents) = Contents[1]
    <2>1. \A k \in 1..(CF_Q_SZ - 1) : Contents'[k] = Contents[k + 1]
      BY <1>1, <1>2, <1>4
    <2> QED BY <1>1, <2>1, FunTail
  <1> QED BY <1>3, <1>4

\* The answers are the same records in both modules.
LEMMA AnswersAgree ==
  /\ \A op, rv : Abs!Answer(op, rv) = Answer(op, rv)
  /\ \A x : Abs!Got(x) = Got(x)
  BY DEF Abs!Answer, Answer, Abs!Got, Got

\* cf_queue_create makes an empty abstract queue.
LEMMA RefineInit == Init => Abs!Init
  BY AnswersAgree, AllocAssumption, BoundAssumption, BufferNotNull
  DEF Init, Abs!Init, AbsContents, AbsPurge, Abs!NoPurge, NoScan, Contents, CF_Q_SZ,
      Buffers

\* Every step of the ring is a step of the abstract queue or leaves it as it is.
LEMMA RefineNext == Inv /\ Inv' /\ [Next]_vars => [Abs!Next]_(Abs!vars)
  <1> SUFFICES ASSUME Inv, Inv', [Next]_vars PROVE Abs!Next \/ UNCHANGED Abs!vars
    BY DEF Abs!vars
  <1>1. Sound /\ Sound' /\ scan \in Scans /\ (queue = NULL => scan = NoScan)
    BY DEF Inv, Sound, TypeOK, Scans
  <1>2. ASSUME Callable
        PROVE  Abs!Callable /\ AbsContents = Contents /\ AbsPurge = Abs!NoPurge
    BY <1>2 DEF Callable, Abs!Callable, AbsContents, AbsPurge, Abs!NoPurge, NoScan
  <1>3. ASSUME scan' = NoScan PROVE AbsPurge' = Abs!NoPurge
    BY <1>3 DEF AbsPurge, Abs!NoPurge, NoScan
  <1>4. ASSUME NEW x \in Elem, cf_queue_push(x) PROVE Abs!Next
    <2>1. /\ Callable /\ queue # NULL /\ scan = NoScan /\ scan' = NoScan
          /\ Insert(x, "push", 0, -1)
      BY <1>4 DEF cf_queue_push, Callable
    <2>2. \/ Appended(x) /\ ret' = Answer("push", 0)
          \/ /\ UNCHANGED <<queue, allocsz, read_offset, write_offset>>
             /\ ret' = Answer("push", -1)
          \/ queue' = NULL /\ ret' = Answer("push", -1)
      BY <2>1, <1>1, InsertEffect
    <2>3. AbsPurge' = AbsPurge
      BY <2>1, <1>2, <1>3
    <2>4. CASE Appended(x) /\ ret' = Answer("push", 0)
      <3>1. Contents' = Append(Contents, x) /\ queue' # NULL
        BY <2>1, <2>4, <1>1, AppendedIsAppend DEF Appended
      <3>2. AbsContents' = Append(AbsContents, x) /\ (queue = NULL)' = (queue = NULL)
        BY <3>1, <2>1 DEF AbsContents
      <3>3. Abs!Push(x)
        BY <3>2, <2>1, <2>3, <2>4, <1>2, AnswersAgree DEF Abs!Push
      <3> QED BY <3>3 DEF Abs!Next
    <2>5. CASE /\ UNCHANGED <<queue, allocsz, read_offset, write_offset>>
               /\ ret' = Answer("push", -1)
      <3>1. AbsContents' = AbsContents /\ (queue = NULL)' = (queue = NULL)
        BY <2>5 DEF AbsContents, Contents, ElemAt, CF_Q_SZ
      <3>2. Abs!Push(x)
        BY <3>1, <2>1, <2>3, <2>5, <1>2, AnswersAgree DEF Abs!Push
      <3> QED BY <3>2 DEF Abs!Next
    <2>6. CASE queue' = NULL /\ ret' = Answer("push", -1)
      <3>1. AbsContents' = <<>> /\ (queue = NULL)' = TRUE
        BY <2>6 DEF AbsContents
      <3>2. Abs!OutOfMemory
        BY <3>1, <2>1, <2>3, <2>6, <1>2, AnswersAgree DEF Abs!OutOfMemory
      <3> QED BY <3>2 DEF Abs!Next
    <2> QED BY <2>2, <2>4, <2>5, <2>6
  <1>5. ASSUME UNCHANGED <<queue, allocsz, read_offset, write_offset>>
        PROVE  AbsContents' = AbsContents /\ (queue = NULL)' = (queue = NULL)
    BY <1>5 DEF AbsContents, Contents, ElemAt, CF_Q_SZ
  <1>6. ASSUME NEW x \in Elem, NEW limit \in Limits, cf_queue_push_limit(x, limit)
        PROVE  Abs!Next
    <2>1. Callable /\ queue # NULL /\ scan = NoScan /\ scan' = NoScan
      BY <1>6 DEF cf_queue_push_limit, Callable
    <2>2. AbsPurge' = AbsPurge
      BY <2>1, <1>2, <1>3
    <2>3. CASE /\ UNCHANGED <<queue, allocsz, read_offset, write_offset>>
               /\ ret' = Answer("push_limit", FALSE)
      <3>1. Abs!PushLimit(x, limit)
        BY <2>1, <2>2, <2>3, <1>2, <1>5, AnswersAgree DEF Abs!PushLimit
      <3> QED BY <3>1 DEF Abs!Next
    <2>4. CASE CF_Q_SZ < limit /\ Insert(x, "push_limit", TRUE, FALSE)
      <3>1. \/ Appended(x) /\ ret' = Answer("push_limit", TRUE)
            \/ /\ UNCHANGED <<queue, allocsz, read_offset, write_offset>>
               /\ ret' = Answer("push_limit", FALSE)
            \/ queue' = NULL /\ ret' = Answer("push_limit", FALSE)
        BY <2>1, <2>4, <1>1, InsertEffect
      <3>2. CASE Appended(x) /\ ret' = Answer("push_limit", TRUE)
        <4>1. Contents' = Append(Contents, x) /\ queue' # NULL
          BY <2>1, <3>2, <1>1, AppendedIsAppend DEF Appended
        <4>2. AbsContents' = Append(AbsContents, x) /\ (queue = NULL)' = (queue = NULL)
          BY <4>1, <2>1 DEF AbsContents
        <4>3. Len(AbsContents) < limit
          BY <2>1, <2>4, <1>1, <1>2, ContentsSeq
        <4>4. Abs!PushLimit(x, limit)
          BY <4>2, <4>3, <2>1, <2>2, <3>2, <1>2, AnswersAgree DEF Abs!PushLimit
        <4> QED BY <4>4 DEF Abs!Next
      <3>3. CASE queue' = NULL /\ ret' = Answer("push_limit", FALSE)
        <4>1. AbsContents' = <<>> /\ (queue = NULL)' = TRUE
          BY <3>3 DEF AbsContents
        <4>2. Abs!OutOfMemory
          BY <4>1, <2>1, <2>2, <3>3, <1>2, AnswersAgree DEF Abs!OutOfMemory
        <4> QED BY <4>2 DEF Abs!Next
      <3> QED BY <2>3, <3>1, <3>2, <3>3
    <2> QED BY <2>3, <2>4, <1>6 DEF cf_queue_push_limit
  <1>7. CASE cf_queue_pop
    <2>1. Callable /\ queue # NULL /\ scan = NoScan /\ scan' = NoScan /\ queue' = queue
      BY <1>7 DEF cf_queue_pop, Callable
    <2>2. AbsPurge' = AbsPurge /\ (queue = NULL)' = (queue = NULL)
      BY <2>1, <1>2, <1>3
    <2>3. CASE CF_Q_EMPTY
      <3>1. /\ UNCHANGED <<queue, allocsz, read_offset, write_offset>>
            /\ ret' = Answer("pop", -2)
        BY <1>7, <2>3 DEF cf_queue_pop
      <3>2. AbsContents = <<>>
        <4>1. CF_Q_SZ = 0
          BY <2>3 DEF CF_Q_SZ, CF_Q_EMPTY, Sound, TypeOK, Inv
        <4>2. Contents \in [1..0 -> Elem] /\ Len(Contents) = 0
          BY <4>1, <2>1, <1>1, ContentsSeq
        <4> QED BY <4>2, <1>2, <2>1
      <3>3. Abs!Pop
        BY <3>1, <3>2, <2>1, <2>2, <1>2, <1>5, AnswersAgree DEF Abs!Pop
      <3> QED BY <3>3 DEF Abs!Next
    <2>4. CASE ~CF_Q_EMPTY
      <3>1. RemovedNth(1) /\ ret' = Got(Nth(1))
        BY <1>1, <1>7, <2>4, PopEffect
      <3>2. 1 \in 1..CF_Q_SZ
        BY <1>1, <2>4 DEF Sound, TypeOK, RingOK, CF_Q_SZ, CF_Q_EMPTY
      <3>3. /\ Contents' = Tail(Contents) /\ Contents # <<>>
            /\ Head(Contents) = Contents[1]
        BY <1>1, <2>1, <3>1, <3>2, RemovedIsWithout
      <3>4. Contents[1] = Nth(1)
        BY <1>1, <2>1, <3>2, ContentsSeq
      <3>5. AbsContents' = Contents'
        BY <2>1 DEF AbsContents
      <3>6. Abs!Pop
        BY <3>1, <3>3, <3>4, <3>5, <2>1, <2>2, <1>2, AnswersAgree DEF Abs!Pop
      <3> QED BY <3>6 DEF Abs!Next
    <2> QED BY <2>3, <2>4
  <1>8. CASE cf_queue_sz
    <2>1. /\ Callable /\ queue # NULL /\ scan' = NoScan
          /\ UNCHANGED <<queue, allocsz, read_offset, write_offset>>
          /\ ret' = Answer("sz", CF_Q_SZ)
      BY <1>8 DEF cf_queue_sz, Callable
    <2>2. Len(AbsContents) = CF_Q_SZ
      BY <2>1, <1>1, <1>2, ContentsSeq
    <2>3. Abs!Sz
      BY <2>1, <2>2, <1>2, <1>3, <1>5, AnswersAgree DEF Abs!Sz
    <2> QED BY <2>3 DEF Abs!Next
  <1>9. ASSUME NEW cb \in [Elem -> {0, -1, -2}], ReduceBegin(cb)
        PROVE  UNCHANGED Abs!vars
    <2>1. AbsPurge' = Abs!NoPurge
      BY <1>9 DEF ReduceBegin, ReduceScan, AbsPurge, Abs!NoPurge
    <2> QED BY <2>1, <1>2, <1>5, <1>9 DEF ReduceBegin, Abs!vars
  <1>10. ASSUME scan.op = "reduce"
         PROVE  /\ Abs!Callable /\ AbsPurge = Abs!NoPurge /\ queue # NULL
                /\ scan \in ReduceScans /\ scan.cb \in [Elem -> {0, -1, -2}]
                /\ scan.i \in Nat
    <2>1. scan \in ReduceScans /\ scan # NoScan
      BY <1>1, <1>10, ScanKinds
    <2>2. queue # NULL
      BY <2>1, <1>1
    <2> QED BY <1>10, <2>1, <2>2 DEF Abs!Callable, AbsPurge, Abs!NoPurge, ReduceScans
  <1>11. CASE ReduceStep
    <2>1. scan.op = "reduce"
      BY <1>11 DEF ReduceStep
    <2>2. /\ read_offset \in Nat /\ write_offset \in Nat
          /\ scan.i \in read_offset..(write_offset - 1)
          /\ \A j \in read_offset..(scan.i - 1) : scan.cb[ElemAt(j)] = 0
      BY <1>10, <1>11, <2>1 DEF Inv, ScanSeen, Sound, TypeOK, ReduceStep
    <2>3. CASE /\ scan' = [scan EXCEPT !.i = @ + 1]
               /\ UNCHANGED <<queue, allocsz, read_offset, write_offset, ret>>
      <3>1. scan'.op = "reduce"
        BY <2>1, <2>3, <1>10 DEF ReduceScans
      <3>2. AbsPurge' = Abs!NoPurge
        BY <3>1 DEF AbsPurge, Abs!NoPurge
      <3> QED BY <3>2, <2>1, <2>3, <1>5, <1>10 DEF Abs!vars
    <2>4. CASE /\ scan.cb[ElemAt(scan.i)] = -2
               /\ cf_queue_delete_offset(scan.i)
               /\ scan' = NoScan
               /\ ret' = Answer("reduce", 0)
      <3> DEFINE d == scan.i - read_offset + 1
      <3>1. d \in 1..CF_Q_SZ /\ read_offset + d - 1 = scan.i
        BY <2>2 DEF CF_Q_SZ
      <3>2. RemovedNth(d) /\ queue' # NULL
        BY <2>1, <2>2, <2>4, <1>1, <1>10, DeleteEffect DEF Scans, RemovedNth
      <3>3. AbsContents' = Abs!Without(AbsContents, d) /\ (queue = NULL)' = (queue = NULL)
        BY <3>1, <3>2, <2>1, <1>1, <1>10, RemovedIsWithout DEF AbsContents
      <3>4. /\ d \in 1..Len(AbsContents)
            /\ \A j \in 1..d : AbsContents[j] = Nth(j)
        <4>1. AbsContents = Contents
          BY <2>1, <1>10 DEF AbsContents
        <4>2. CF_Q_SZ \in Nat /\ Len(Contents) = CF_Q_SZ
              /\ \A j \in 1..CF_Q_SZ : Contents[j] = Nth(j)
          BY <2>1, <1>1, <1>10, ContentsSeq
        <4>3. \A j \in 1..d : j \in 1..CF_Q_SZ
          BY <3>1, <4>2
        <4> QED BY <3>1, <4>1, <4>2, <4>3
      <3>5. scan.cb[AbsContents[d]] = -2
        BY <3>1, <3>4, <2>4 DEF Nth
      <3>6. ASSUME NEW j \in 1..(d - 1) PROVE scan.cb[AbsContents[j]] = 0
        <4>1. j \in 1..d /\ read_offset + j - 1 \in read_offset..(scan.i - 1)
          BY <3>1, <2>2
        <4> QED BY <4>1, <3>4, <2>2 DEF Nth
      <3> HIDE DEF d
      <3>7. Abs!Reduce(scan.cb)
        BY <3>3, <3>4, <3>5, <3>6, <2>1, <2>4, <1>3, <1>10, AnswersAgree DEF Abs!Reduce
      <3> QED BY <3>7, <2>1, <1>10 DEF Abs!Next
    <2>5. CASE /\ scan' = NoScan
               /\ ret' = Answer("reduce", 0)
               /\ UNCHANGED <<queue, allocsz, read_offset, write_offset>>
      <3>1. Abs!Reduce(scan.cb)
        BY <2>1, <2>5, <1>3, <1>5, <1>10, AnswersAgree DEF Abs!Reduce
      <3> QED BY <3>1, <2>1, <1>10 DEF Abs!Next
    <2> QED BY <1>11, <2>3, <2>4, <2>5 DEF ReduceStep
  <1>12. CASE ReduceEnd
    <2>1. Abs!Reduce(scan.cb)
      BY <1>3, <1>5, <1>10, <1>12, AnswersAgree DEF Abs!Reduce, ReduceEnd
    <2> QED BY <2>1, <1>10, <1>12 DEF Abs!Next, ReduceEnd
  <1>13. ASSUME NEW x \in Elem, NEW only_one \in BOOLEAN, DeleteBegin(x, only_one)
         PROVE  Abs!Next
    <2>1. AbsPurge' = Abs!Purge(x, only_one, FALSE)
      BY <1>13 DEF DeleteBegin, DeleteScan, AbsPurge, Abs!Purge
    <2>2. Abs!DeleteBegin(x, only_one)
      BY <2>1, <1>2, <1>5, <1>13 DEF DeleteBegin, Abs!DeleteBegin
    <2> QED BY <2>2 DEF Abs!Next
  <1>14. ASSUME scan.op = "delete"
         PROVE  /\ queue # NULL /\ scan \in DeleteScans
                /\ scan.i \in Nat /\ scan.found \in BOOLEAN /\ scan.only_one \in BOOLEAN
                /\ AbsPurge.on /\ AbsPurge.x = scan.x
                /\ AbsPurge.only_one = scan.only_one /\ AbsPurge.found = scan.found
                /\ AbsContents = Contents
    <2>1. scan \in DeleteScans /\ scan # NoScan
      BY <1>1, <1>14, ScanKinds
    <2>2. queue # NULL
      BY <2>1, <1>1
    <2> QED BY <1>14, <2>1, <2>2 DEF AbsPurge, DeleteScans, AbsContents
  <1>15. CASE DeleteStep
    <2>1. scan.op = "delete"
      BY <1>15 DEF DeleteStep
    <2>2. /\ read_offset \in Nat /\ write_offset \in Nat
          /\ scan.i \in read_offset..(write_offset - 1)
      BY <1>14, <1>15, <2>1 DEF Inv, ScanSeen, Sound, TypeOK, DeleteStep
    <2>3. CASE /\ scan' = [scan EXCEPT !.i = @ + 1]
               /\ UNCHANGED <<queue, allocsz, read_offset, write_offset, ret>>
      <3>1. /\ scan'.op = scan.op /\ scan'.x = scan.x /\ scan'.found = scan.found
            /\ scan'.only_one = scan.only_one
        BY <2>1, <2>3, <1>14 DEF DeleteScans
      <3>2. AbsPurge' = AbsPurge
        BY <3>1 DEF AbsPurge
      <3> QED BY <3>2, <2>3, <1>5 DEF Abs!vars
    <2>4. CASE ElemAt(scan.i) = scan.x /\ cf_queue_delete_offset(scan.i)
      <3> DEFINE d == scan.i - read_offset + 1
      <3>1. d \in 1..CF_Q_SZ /\ read_offset + d - 1 = scan.i
        BY <2>2 DEF CF_Q_SZ
      <3>2. RemovedNth(d) /\ queue' # NULL
        <4>1. scan' \in Scans
          BY DEF Inv, Sound, TypeOK, Scans
        <4> QED BY <4>1, <2>1, <2>2, <2>4, <1>1, <1>14, DeleteEffect DEF RemovedNth
      <3>3. AbsContents' = Abs!Without(AbsContents, d) /\ (queue = NULL)' = (queue = NULL)
        BY <3>1, <3>2, <2>1, <1>1, <1>14, RemovedIsWithout DEF AbsContents
      <3>4. /\ d \in 1..Len(AbsContents)
            /\ \A j \in 1..d : AbsContents[j] = Nth(j)
        <4>1. CF_Q_SZ \in Nat /\ Len(Contents) = CF_Q_SZ
              /\ \A j \in 1..CF_Q_SZ : Contents[j] = Nth(j)
          BY <2>1, <1>1, <1>14, ContentsSeq
        <4>2. \A j \in 1..d : j \in 1..CF_Q_SZ
          BY <3>1, <4>1
        <4> QED BY <3>1, <4>1, <4>2, <2>1, <1>14
      <3>5. AbsContents[d] = scan.x
        BY <3>1, <3>4, <2>4 DEF Nth
      <3>6. ASSUME ~scan.found, NEW j \in 1..(d - 1) PROVE AbsContents[j] # scan.x
        <4>1. \A n \in read_offset..(scan.i - 1) : ElemAt(n) # scan.x
          BY <3>6, <2>1 DEF Inv, ScanSeen
        <4>2. j \in 1..d /\ read_offset + j - 1 \in read_offset..(scan.i - 1)
          BY <3>1, <2>2
        <4> QED BY <4>1, <4>2, <3>4 DEF Nth
      <3> HIDE DEF d
      <3>7. CASE scan.only_one
        <4>1. scan' = NoScan /\ ret' = Answer("delete", 0)
          BY <1>15, <3>7, <2>4 DEF DeleteStep
        <4>2. ~scan.found
          BY <3>7, <2>1, <1>15 DEF Inv, ScanSeen
        <4>3. Abs!Drop
          BY <4>1, <4>2, <3>3, <3>4, <3>5, <3>6, <3>7, <2>1, <1>3, <1>14, AnswersAgree
          DEF Abs!Drop
        <4> QED BY <4>3 DEF Abs!Next
      <3>8. CASE ~scan.only_one
        <4>1. /\ scan' = DeleteScan(scan.x, scan.only_one, TRUE, scan.i + 1)
              /\ ret' = ret
          BY <1>15, <3>8, <2>4 DEF DeleteStep
        <4>2. AbsPurge' = Abs!Purge(AbsPurge.x, AbsPurge.only_one, TRUE)
          BY <4>1, <2>1, <1>14 DEF AbsPurge, DeleteScan, Abs!Purge
        <4>3. Abs!Drop
          BY <4>1, <4>2, <3>3, <3>4, <3>5, <3>6, <3>8, <2>1, <1>14 DEF Abs!Drop
        <4> QED BY <4>3 DEF Abs!Next
      <3> QED BY <3>7, <3>8
    <2> QED BY <1>15, <2>3, <2>4 DEF DeleteStep
  <1>16. CASE DeleteEnd
    <2>1. /\ scan.op = "delete" /\ scan.i >= write_offset /\ scan' = NoScan
          /\ ret' = Answer("delete", IF scan.found THEN 0 ELSE -2)
          /\ UNCHANGED <<queue, allocsz, read_offset, write_offset>>
      BY <1>16 DEF DeleteEnd
    <2>2. ASSUME ~scan.found, NEW j \in 1..Len(AbsContents)
          PROVE  AbsContents[j] # scan.x
      <3>1. /\ \A n \in read_offset..(scan.i - 1) : ElemAt(n) # scan.x
            /\ read_offset \in Nat /\ write_offset \in Nat
        BY <2>1, <2>2 DEF Inv, ScanSeen, Sound, TypeOK
      <3>2. CF_Q_SZ \in Nat /\ Len(Contents) = CF_Q_SZ
            /\ \A k \in 1..CF_Q_SZ : Contents[k] = Nth(k)
        BY <2>1, <1>1, <1>14, ContentsSeq
      <3>3. j \in 1..CF_Q_SZ /\ AbsContents[j] = Nth(j)
        BY <3>2, <2>1, <1>14
      <3>4. read_offset + j - 1 \in read_offset..(scan.i - 1)
        BY <3>1, <3>3, <2>1, <1>14 DEF CF_Q_SZ
      <3> QED BY <3>1, <3>3, <3>4 DEF Nth
    <2>3. Abs!DeleteEnd
      BY <2>1, <2>2, <1>3, <1>5, <1>14, AnswersAgree DEF Abs!DeleteEnd
    <2> QED BY <2>3 DEF Abs!Next
  <1>17. CASE UNCHANGED vars
    BY <1>5, <1>17 DEF vars, Abs!vars, AbsPurge
  <1> QED
    BY <1>4, <1>6, <1>7, <1>8, <1>9, <1>11, <1>12, <1>13, <1>15, <1>16, <1>17
    DEF Next

\* The ring of cf_queue.c is a first-in first-out queue for every element type,
\* every growth step, every point at which memory runs out and every unwrap
\* mark: each call's answer and effect is the one Fifo gives it.
THEOREM RingIsFifo == Spec => IsFifo
  <1>1. Spec => []Inv
    BY InvInit, InvNext, PTL DEF Spec
  <1> QED BY <1>1, RefineInit, RefineNext, PTL DEF Spec, IsFifo, Abs!Spec
=============================================================================
