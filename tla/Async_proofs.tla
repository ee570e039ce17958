---------------------------- MODULE Async_proofs ----------------------------
(***************************************************************************)
(* Theorems about Async, for any number of senders, receiver threads, work   *)
(* items, descriptors and calls, whatever the servers and the network do.   *)
(***************************************************************************)
EXTENDS Async, FiniteSetTheorems, FunctionTheorems, SequenceTheorems, TLAPS

-----------------------------------------------------------------------------
(* The inductive invariant                                                 *)

Receiving == {"header", "body"}

\* The places a work item can be in, counted.
WithSender(i) == Cardinality(Senders(i))
Queued(i) == Times(q, i)
WithReceiver(i) == Cardinality(Receivers(i))
Recycled(i) == Times(freepool, i)
Gone(i) == Cardinality({i} \cap lost)

\* The items that carry a descriptor.
Carry(f) == {i \in InFlight : item[i].fd = f}

\* An item is in exactly one place.
PlaceOK ==
    \A i \in Item :
        WithSender(i) + Queued(i) + WithReceiver(i) + Recycled(i) + Gone(i)
          = IF item[i] = NULL THEN 0 ELSE 1

\* A descriptor is open as long as an item carries it or the pool has it.
FdOK ==
    /\ \A f \in Fd : Times(pool, f) + Cardinality(Carry(f)) = IF conn[f] = NULL THEN 0 ELSE 1
    /\ refs = Cardinality(InFlight)

\* A sender has an item only while it tries, and that item is for its call and
\* has no connection yet; a receiver's item, and one that is queued, has one.
SendersOK ==
    \A s \in Sender :
        /\ sx[s].pc = "try" <=> sx[s].item # NULL
        /\ sx[s].pc # "idle" => sx[s].call \in 1 .. calls
        /\ sx[s].pc = "try" => item[sx[s].item] = [call |-> sx[s].call, fd |-> NULL]
ReceiversOK ==
    \A t \in Slot :
        /\ rx[t].pc \in Receiving <=> rx[t].item # NULL
        /\ rx[t].pc = "body" => rx[t].msg \in Header
        /\ rx[t].item # NULL => item[rx[t].item].fd # NULL
QueueOK == \A i \in ToSet(q) \ {SHUT} : item[i].fd # NULL

\* The receivers at work are counted, and none that has not begun; no slot is
\* given a second thread.
Active == {t \in Slot : rx[t].pc \in {"pop", "header", "body"}}
Begun == {t \in Slot : rx[t].pc \notin {"none", "start"}}
ThreadsOK ==
    /\ Cardinality(Active) <= count /\ count <= Cardinality(Begun)
    /\ main = "off" => \A t \in Slot : rx[t].pc = "none"
    /\ main = "run" => \A t \in Slot : t > num => rx[t].pc = "none"

Shape == TypeOK /\ SendersOK /\ ReceiversOK /\ QueueOK
IInv == Shape /\ ThreadsOK /\ PlaceOK /\ FdOK

-----------------------------------------------------------------------------
(* Counting                                                                *)

\* Two subsets of a finite set that agree but for one element.
LEMMA CountChange ==
  ASSUME NEW S, IsFiniteSet(S), NEW p \in S, NEW A \in SUBSET S, NEW B \in SUBSET S,
         \A x \in S \ {p} : x \in A <=> x \in B
  PROVE  /\ Cardinality(A) \in Nat /\ Cardinality(B) \in Nat
         /\ Cardinality(B) = Cardinality(A) - (IF p \in A THEN 1 ELSE 0)
                                            + (IF p \in B THEN 1 ELSE 0)
<1>1. IsFiniteSet(A) /\ IsFiniteSet(B)
  BY FS_Subset
<1>2. Cardinality(A) \in Nat /\ Cardinality(B) \in Nat
  BY <1>1, FS_CardinalityType
<1>3. CASE p \in A /\ p \notin B
  <2>1. B = A \ {p}
    BY <1>3
  <2> QED BY <1>1, <1>2, <1>3, <2>1, FS_RemoveElement
<1>4. CASE p \notin A /\ p \in B
  <2>1. B = A \cup {p}
    BY <1>4
  <2> QED BY <1>1, <1>2, <1>4, <2>1, FS_AddElement
<1>5. CASE (p \in A) = (p \in B)
  <2>1. A = B
    BY <1>5
  <2> QED BY <1>2, <1>5, <2>1
<1> QED BY <1>3, <1>4, <1>5

\* A subset of a finite set is counted by a number, 0 when it is empty.
LEMMA CountNat ==
  ASSUME NEW S, IsFiniteSet(S), NEW A \in SUBSET S
  PROVE  /\ IsFiniteSet(A) /\ Cardinality(A) \in Nat
         /\ Cardinality(A) = 0 <=> A = {}
  BY FS_Subset, FS_CardinalityType, FS_EmptySet

\* How often an element occurs in a sequence.
LEMMA TimesNat ==
  ASSUME NEW T, NEW s \in Seq(T), NEW e
  PROVE  Times(s, e) \in Nat /\ (Times(s, e) > 0 <=> e \in ToSet(s))
<1> DEFINE A == {k \in DOMAIN s : s[k] = e}
<1>1. DOMAIN s = 1 .. Len(s) /\ Len(s) \in Nat /\ IsFiniteSet(1 .. Len(s))
  BY FS_Interval
<1>2. Cardinality(A) \in Nat /\ (Cardinality(A) = 0 <=> A = {})
  BY <1>1, CountNat
<1>3. A # {} <=> e \in ToSet(s)
  BY <1>1 DEF ToSet
<1> QED BY <1>2, <1>3 DEF Times

\* What an append adds to the count of each element.
LEMMA TimesAppend ==
  ASSUME NEW T, NEW s \in Seq(T), NEW x \in T, NEW e
  PROVE  /\ Append(s, x) \in Seq(T)
         /\ Times(Append(s, x), e) = Times(s, e) + (IF x = e THEN 1 ELSE 0)
<1> DEFINE n == Len(s)
           A == {k \in 1 .. n : s[k] = e}
           B == {k \in 1 .. n + 1 : Append(s, x)[k] = e}
<1>1. /\ n \in Nat /\ DOMAIN s = 1 .. n /\ IsFiniteSet(1 .. n + 1)
      /\ Append(s, x) \in Seq(T) /\ DOMAIN Append(s, x) = 1 .. n + 1
      /\ Append(s, x)[n + 1] = x /\ \A k \in 1 .. n : Append(s, x)[k] = s[k]
  BY FS_Interval
<1>2. /\ n + 1 \in 1 .. n + 1 /\ A \in SUBSET (1 .. n + 1) /\ B \in SUBSET (1 .. n + 1)
      /\ n + 1 \notin A /\ (n + 1 \in B <=> x = e)
      /\ \A k \in (1 .. n + 1) \ {n + 1} : k \in A <=> k \in B
  BY <1>1
<1>3. Cardinality(A) \in Nat /\ Cardinality(B) = Cardinality(A) + (IF x = e THEN 1 ELSE 0)
  <2> DEFINE S == 1 .. n + 1
             p == n + 1
  <2>1. IsFiniteSet(S) /\ p \in S /\ A \in SUBSET S /\ B \in SUBSET S
        /\ p \notin A /\ (p \in B <=> x = e) /\ \A k \in S \ {p} : k \in A <=> k \in B
    BY <1>1, <1>2
  <2> HIDE DEF A, B, S, p
  <2>2. /\ Cardinality(A) \in Nat
        /\ Cardinality(B) = Cardinality(A) - (IF p \in A THEN 1 ELSE 0)
                                           + (IF p \in B THEN 1 ELSE 0)
    BY <2>1, CountChange
  <2> QED BY <2>1, <2>2
<1> QED BY <1>1, <1>3 DEF Times

\* What taking the head off removes from the count of each element.
LEMMA TimesTail ==
  ASSUME NEW T, NEW s \in Seq(T), s # <<>>, NEW e
  PROVE  /\ Tail(s) \in Seq(T) /\ Head(s) \in T /\ Head(s) \in ToSet(s)
         /\ Times(Tail(s), e) = Times(s, e) - (IF Head(s) = e THEN 1 ELSE 0)
<1> DEFINE n == Len(s)
           A == {k \in 1 .. n : s[k] = e}
           B == {k \in 1 .. n - 1 : Tail(s)[k] = e}
           C == {k \in 2 .. n : s[k] = e}
           up == [k \in B |-> k + 1]
<1>1. /\ n \in Nat /\ n > 0 /\ DOMAIN s = 1 .. n /\ IsFiniteSet(1 .. n) /\ IsFiniteSet(1 .. n - 1)
      /\ Tail(s) \in Seq(T) /\ DOMAIN Tail(s) = 1 .. n - 1 /\ Head(s) = s[1]
      /\ \A k \in 1 .. n - 1 : Tail(s)[k] = s[k + 1]
  BY FS_Interval
<1>2. IsFiniteSet(B)
  <2>1. B \in SUBSET (1 .. n - 1)
    OBVIOUS
  <2> QED BY <1>1, <2>1, FS_Subset
<1>3. up \in [B -> C] /\ (\A a, b \in B : up[a] = up[b] => a = b)
  BY <1>1
<1>4. \A c \in C : \E b \in B : up[b] = c
  <2> SUFFICES ASSUME NEW c \in C PROVE \E b \in B : up[b] = c
    OBVIOUS
  <2>1. c - 1 \in B /\ up[c - 1] = c
    BY <1>1
  <2> QED BY <2>1
<1>5. Cardinality(C) = Cardinality(B)
  <2>1. up \in Bijection(B, C)
    BY <1>3, <1>4, Fun_IsBij
  <2> HIDE DEF B, C, up
  <2>2. ExistsBijection(B, C)
    BY <2>1, Fun_ExistsBij
  <2> QED BY <1>2, <2>2, FS_Bijection
<1>6. /\ 1 \in 1 .. n /\ A \in SUBSET (1 .. n) /\ C \in SUBSET (1 .. n)
      /\ 1 \notin C /\ (1 \in A <=> Head(s) = e)
      /\ \A k \in (1 .. n) \ {1} : k \in A <=> k \in C
  BY <1>1
<1>7. Cardinality(C) = Cardinality(A) - (IF Head(s) = e THEN 1 ELSE 0)
  <2> DEFINE S == 1 .. n
  <2>1. IsFiniteSet(S) /\ 1 \in S /\ A \in SUBSET S /\ C \in SUBSET S
        /\ \A k \in S \ {1} : k \in A <=> k \in C
    BY <1>1, <1>6
  <2> HIDE DEF A, C, S
  <2>2. /\ Cardinality(A) \in Nat
        /\ Cardinality(C) = Cardinality(A) - (IF 1 \in A THEN 1 ELSE 0)
                                           + (IF 1 \in C THEN 1 ELSE 0)
    BY <2>1, CountChange
  <2> QED BY <1>6, <2>2
<1>8. Head(s) \in T /\ Head(s) \in ToSet(s)
  BY <1>1 DEF ToSet
<1> QED BY <1>1, <1>5, <1>7, <1>8 DEF Times

\* A sequence put behind another that has none of an element.
LEMMA TimesConcat ==
  ASSUME NEW T, NEW s \in Seq(T), NEW u \in Seq(T), NEW e, \A k \in DOMAIN u : u[k] # e
  PROVE  Times(s \o u, e) = Times(s, e)
<1> DEFINE n == Len(u)
           w == s \o u
<1>1. DOMAIN u = 1 .. n /\ n \in Nat /\ Len(s) \in Nat /\ DOMAIN s = 1 .. Len(s)
  OBVIOUS
<1>2. /\ DOMAIN w = 1 .. Len(s) + n
      /\ \A k \in 1 .. Len(s) + n : w[k] = IF k <= Len(s) THEN s[k] ELSE u[k - Len(s)]
  BY <1>1
<1>3. ASSUME NEW k \in 1 .. Len(s) + n, k > Len(s) PROVE w[k] # e
  <2>1. k - Len(s) \in DOMAIN u
    BY <1>1, <1>3
  <2>2. w[k] = u[k - Len(s)]
    BY <1>1, <1>2, <1>3
  <2> QED BY <2>1, <2>2
<1>4. {k \in DOMAIN w : w[k] = e} = {k \in DOMAIN s : s[k] = e}
  <2> HIDE DEF w
  <2> QED BY <1>1, <1>2, <1>3
<1> QED BY <1>4 DEF Times

-----------------------------------------------------------------------------
(* What a step does to the counts                                          *)

\* The sets that are counted are finite.
LEMMA Finite ==
  /\ IsFiniteSet(Sender) /\ IsFiniteSet(Slot) /\ IsFiniteSet(Item)
  /\ IsFiniteSet(InFlight) /\ Cardinality(InFlight) \in Nat
  /\ Cardinality(Slot) = MaxThreads /\ MaxThreads \in Nat
<1>1. IsFiniteSet(Sender)
  BY SenderAssumption
<1>2. MaxThreads \in Nat /\ MaxItems \in Nat
  BY ThreadsAssumption, BoundsAssumption
<1>3. IsFiniteSet(Slot) /\ Cardinality(Slot) = MaxThreads /\ IsFiniteSet(Item)
  BY <1>2, FS_Interval DEF Slot, Item
<1>4. InFlight \in SUBSET Item
  BY DEF InFlight
<1> QED BY <1>1, <1>2, <1>3, <1>4, CountNat

\* The counts are numbers, and tell whether there is an item in the place.
LEMMA Counts ==
  ASSUME TypeOK, NEW i
  PROVE  /\ WithSender(i) \in Nat /\ (WithSender(i) > 0 <=> Senders(i) # {})
         /\ Queued(i) \in Nat /\ (Queued(i) > 0 <=> i \in ToSet(q))
         /\ WithReceiver(i) \in Nat /\ (WithReceiver(i) > 0 <=> Receivers(i) # {})
         /\ Recycled(i) \in Nat /\ (Recycled(i) > 0 <=> i \in ToSet(freepool))
         /\ Gone(i) = IF i \in lost THEN 1 ELSE 0
<1>1. Senders(i) \in SUBSET Sender /\ Receivers(i) \in SUBSET Slot
  BY DEF Senders, Receivers
<1>2. WithSender(i) \in Nat /\ (WithSender(i) > 0 <=> Senders(i) # {})
  BY <1>1, Finite, CountNat DEF WithSender
<1>3. WithReceiver(i) \in Nat /\ (WithReceiver(i) > 0 <=> Receivers(i) # {})
  BY <1>1, Finite, CountNat DEF WithReceiver
<1>4. Queued(i) \in Nat /\ (Queued(i) > 0 <=> i \in ToSet(q))
  BY TimesNat DEF Queued, TypeOK
<1>5. Recycled(i) \in Nat /\ (Recycled(i) > 0 <=> i \in ToSet(freepool))
  BY TimesNat DEF Recycled, TypeOK
<1>6. {i} \cap lost = IF i \in lost THEN {i} ELSE {}
  OBVIOUS
<1>7. Gone(i) = IF i \in lost THEN 1 ELSE 0
  BY <1>6, FS_Singleton, FS_EmptySet DEF Gone
<1> QED BY <1>2, <1>3, <1>4, <1>5, <1>7

\* An item that is in one place is in no other.
LEMMA OnePlace ==
  ASSUME TypeOK, PlaceOK, NEW i \in Item
  PROVE  /\ Senders(i) # {} \/ i \in ToSet(q) \/ Receivers(i) # {} \/ i \in ToSet(freepool)
              \/ i \in lost
            <=> item[i] # NULL
         /\ Senders(i) # {} => Receivers(i) = {} /\ i \notin ToSet(q) \cup ToSet(freepool) \cup lost
         /\ Receivers(i) # {} => i \notin ToSet(q) \cup ToSet(freepool) \cup lost
         /\ i \in ToSet(q) => i \notin ToSet(freepool) \cup lost
         /\ i \in ToSet(freepool) => i \notin lost
  BY Counts DEF PlaceOK

\* No two threads have an item.
LEMMA OneHolder ==
  ASSUME TypeOK, PlaceOK, NEW i \in Item
  PROVE  /\ \A r, s \in Sender : sx[r].item = i /\ sx[s].item = i => r = s
         /\ \A t, u \in Slot : rx[t].item = i /\ rx[u].item = i => t = u
<1>1. WithSender(i) <= 1 /\ WithReceiver(i) <= 1
  BY Counts DEF PlaceOK
<1>2. ASSUME NEW S, IsFiniteSet(S), Cardinality(S) <= 1, NEW x \in S, NEW y \in S PROVE x = y
  <2>1. Cardinality(S) = 1
    BY <1>2, FS_CardinalityType, FS_EmptySet
  <2>2. PICK z : S = {z}
    BY <1>2, <2>1, FS_Singleton
  <2> QED BY <2>2
<1>3. IsFiniteSet(Senders(i)) /\ IsFiniteSet(Receivers(i))
  BY Finite, FS_Subset DEF Senders, Receivers
<1>4. ASSUME NEW r \in Sender, NEW s \in Sender, sx[r].item = i, sx[s].item = i PROVE r = s
  <2>1. r \in Senders(i) /\ s \in Senders(i)
    BY <1>4 DEF Senders
  <2> QED BY <1>1, <1>2, <1>3, <2>1 DEF WithSender
<1>5. ASSUME NEW t \in Slot, NEW u \in Slot, rx[t].item = i, rx[u].item = i PROVE t = u
  <2>1. t \in Receivers(i) /\ u \in Receivers(i)
    BY <1>5 DEF Receivers
  <2> QED BY <1>1, <1>2, <1>3, <2>1 DEF WithReceiver
<1> QED BY <1>4, <1>5

\* A sender moves, and takes or lets go of an item.
LEMMA SenderStep ==
  ASSUME TypeOK, NEW s \in Sender, NEW l \in {"idle", "sized", "pop", "try"},
         NEW c \in 0 .. MaxCalls, NEW i \in Item \cup {NULL}, UpdS(s, l, c, i)
  PROVE  /\ sx' \in [Sender -> SenderRecord]
         /\ sx'[s].pc = l /\ sx'[s].call = c /\ sx'[s].item = i
         /\ \A r \in Sender \ {s} : sx'[r] = sx[r]
         /\ \A j \in Item : /\ WithSender(j)' = WithSender(j)
                                 - (IF sx[s].item = j THEN 1 ELSE 0) + (IF i = j THEN 1 ELSE 0)
                            /\ WithSender(j) \in Nat
<1>1. /\ sx' \in [Sender -> SenderRecord] /\ sx'[s].pc = l /\ sx'[s].call = c /\ sx'[s].item = i
      /\ \A r \in Sender \ {s} : sx'[r] = sx[r]
  BY DEF TypeOK, UpdS, SenderRecord
<1>2. ASSUME NEW j \in Item
      PROVE  /\ WithSender(j)' = WithSender(j) - (IF sx[s].item = j THEN 1 ELSE 0)
                                               + (IF i = j THEN 1 ELSE 0)
             /\ WithSender(j) \in Nat
  <2>1. /\ Senders(j) \in SUBSET Sender /\ Senders(j)' \in SUBSET Sender
        /\ \A x \in Sender \ {s} : x \in Senders(j) <=> x \in Senders(j)'
        /\ (s \in Senders(j) <=> sx[s].item = j) /\ (s \in Senders(j)' <=> sx'[s].item = j)
    BY <1>1 DEF Senders
  <2> QED BY <1>1, <2>1, Finite, CountChange DEF WithSender
<1> QED BY <1>1, <1>2

\* A receiver moves, and takes or lets go of an item.
LEMMA ReceiverStep ==
  ASSUME TypeOK, NEW t \in Slot, NEW r \in Receiver, UpdR(t, r)
  PROVE  /\ rx' \in [Slot -> Receiver] /\ rx'[t] = r
         /\ \A u \in Slot \ {t} : rx'[u] = rx[u]
         /\ \A j \in Item : /\ WithReceiver(j)' = WithReceiver(j)
                                 - (IF rx[t].item = j THEN 1 ELSE 0) + (IF r.item = j THEN 1 ELSE 0)
                            /\ WithReceiver(j) \in Nat
<1>1. rx' \in [Slot -> Receiver] /\ rx'[t] = r /\ \A u \in Slot \ {t} : rx'[u] = rx[u]
  BY DEF TypeOK, UpdR
<1>2. ASSUME NEW j \in Item
      PROVE  /\ WithReceiver(j)' = WithReceiver(j) - (IF rx[t].item = j THEN 1 ELSE 0)
                                                   + (IF r.item = j THEN 1 ELSE 0)
             /\ WithReceiver(j) \in Nat
  <2>1. /\ Receivers(j) \in SUBSET Slot /\ Receivers(j)' \in SUBSET Slot
        /\ \A x \in Slot \ {t} : x \in Receivers(j) <=> x \in Receivers(j)'
        /\ (t \in Receivers(j) <=> rx[t].item = j) /\ (t \in Receivers(j)' <=> rx'[t].item = j)
    BY <1>1 DEF Receivers
  <2> QED BY <1>1, <2>1, Finite, CountChange DEF WithReceiver
<1> QED BY <1>1, <1>2

\* The threads that are counted, when one of them moves.
LEMMA ThreadMoves ==
  ASSUME TypeOK, ThreadsOK, NEW t \in Slot, NEW r \in Receiver, UpdR(t, r),
         UNCHANGED <<main, num>>, rx[t].pc # "none", r.pc \notin {"none", "start"},
         \/ rx[t].pc = "start" /\ r.pc = "pop" /\ count' = count + 1
         \/ rx[t].pc \in {"pop", "header", "body"} /\ r.pc \in {"pop", "header", "body"}
              /\ count' = count
         \/ rx[t].pc \in {"pop", "header", "body"} /\ r.pc \notin {"pop", "header", "body"}
              /\ count' \in {count - 1, count}
  PROVE  ThreadsOK' /\ count' \in 0 .. MaxThreads
<1>1. rx'[t] = r /\ \A u \in Slot \ {t} : rx'[u] = rx[u]
  BY DEF TypeOK, UpdR
<1> DEFINE A == Active
           B == Active'
           C == Begun
           D == Begun'
<1>2. /\ A \in SUBSET Slot /\ B \in SUBSET Slot /\ C \in SUBSET Slot /\ D \in SUBSET Slot
      /\ \A u \in Slot \ {t} : (u \in A <=> u \in B) /\ (u \in C <=> u \in D)
      /\ (t \in A <=> rx[t].pc \in {"pop", "header", "body"})
      /\ (t \in B <=> r.pc \in {"pop", "header", "body"})
      /\ (t \in C <=> rx[t].pc # "start") /\ t \in D
  BY <1>1 DEF Active, Begun
<1>3. IsFiniteSet(Slot) /\ Cardinality(Slot) = MaxThreads /\ MaxThreads \in Nat
  BY Finite
<1>4. /\ Cardinality(A) \in Nat /\ Cardinality(B) \in Nat
      /\ Cardinality(B) = Cardinality(A) - (IF t \in A THEN 1 ELSE 0) + (IF t \in B THEN 1 ELSE 0)
  <2> HIDE DEF A, B
  <2> QED BY <1>2, <1>3, CountChange
<1>5. /\ Cardinality(C) \in Nat /\ Cardinality(D) \in Nat /\ Cardinality(D) <= MaxThreads
      /\ Cardinality(D) = Cardinality(C) - (IF t \in C THEN 1 ELSE 0) + (IF t \in D THEN 1 ELSE 0)
  <2> HIDE DEF C, D
  <2> QED BY <1>2, <1>3, CountChange, FS_Subset
<1>6. Cardinality(A) <= count /\ count <= Cardinality(C) /\ count \in Nat
  BY DEF ThreadsOK, TypeOK
<1>7. Cardinality(B) <= count' /\ count' <= Cardinality(D) /\ count' \in 0 .. MaxThreads
  BY <1>2, <1>3, <1>4, <1>5, <1>6
<1>8. /\ main' = "off" => \A u \in Slot : rx'[u].pc = "none"
      /\ main' = "run" => \A u \in Slot : u > num' => rx'[u].pc = "none"
  BY <1>1 DEF ThreadsOK
<1> QED BY <1>7, <1>8 DEF ThreadsOK

-----------------------------------------------------------------------------
(* Items and descriptors on their way                                      *)

\* No item begins or ends its way.
FlightKept == InFlight' = InFlight /\ \A i \in InFlight : item'[i] = item[i]

\* No item changes its place.
ItemsKept ==
    /\ \A s \in Sender : sx'[s].item = sx[s].item
    /\ \A t \in Slot : rx'[t].item = rx[t].item
    /\ \A i \in Item : Times(q', i) = Times(q, i) /\ (i \in ToSet(q') <=> i \in ToSet(q))
    /\ UNCHANGED <<freepool, item, lost>>

\* A step that changes no item's place.
LEMMA KeepItems ==
  ASSUME IInv, ItemsKept, q' \in Seq(Item \cup {SHUT})
  PROVE  PlaceOK' /\ FlightKept /\ QueueOK'
<1>1. ASSUME NEW i \in Item
      PROVE  /\ Senders(i)' = Senders(i) /\ Receivers(i)' = Receivers(i)
             /\ Queued(i)' = Queued(i) /\ Recycled(i)' = Recycled(i) /\ Gone(i)' = Gone(i)
  BY DEF ItemsKept, Senders, Receivers, Queued, Recycled, Gone
<1>2. PlaceOK'
  BY <1>1 DEF IInv, PlaceOK, ItemsKept, WithSender, WithReceiver
<1>3. FlightKept
  BY <1>1 DEF FlightKept, InFlight, ItemsKept
<1>4. QueueOK'
  <2> SUFFICES ASSUME NEW i \in ToSet(q') \ {SHUT} PROVE item'[i].fd # NULL
    BY DEF QueueOK
  <2>1. i \in Item
    BY DEF ToSet
  <2> QED BY <2>1 DEF IInv, Shape, QueueOK, ItemsKept
<1> QED BY <1>2, <1>3, <1>4

\* An item that a receiver has, that is queued, or that is lost with its
\* connection, is on its way; none of a sender's or of the free pool's is.
LEMMA OnItsWay ==
  ASSUME IInv
  PROVE  /\ \A t \in Slot : rx[t].item # NULL => rx[t].item \in InFlight
         /\ \A i \in ToSet(q) \ {SHUT} : i \in InFlight
         /\ \A s \in Sender : sx[s].item \notin InFlight
         /\ \A i \in ToSet(freepool) : i \notin InFlight
         /\ \A i \in InFlight : i \in Item /\ item[i] \in WorkItem /\ item[i].fd \in Fd
<1> USE DEF IInv, Shape
<1>1. ASSUME NEW t \in Slot, rx[t].item # NULL PROVE rx[t].item \in InFlight
  <2> DEFINE i == rx[t].item
  <2>1. i \in Item /\ i \in Item /\ Receivers(i) # {}
    BY <1>1 DEF TypeOK, Receiver, Receivers
  <2>2. item[i] # NULL /\ item[i].fd # NULL
    BY <1>1, <2>1, OnePlace DEF ReceiversOK
  <2> QED BY <2>1, <2>2 DEF InFlight
<1>2. ASSUME NEW i \in ToSet(q) \ {SHUT} PROVE i \in InFlight
  <2>1. i \in Item
    BY DEF TypeOK, ToSet
  <2>2. item[i] # NULL /\ item[i].fd # NULL
    BY <2>1, OnePlace DEF QueueOK
  <2> QED BY <2>1, <2>2 DEF InFlight
<1>3. ASSUME NEW s \in Sender PROVE sx[s].item \notin InFlight
  <2> SUFFICES ASSUME sx[s].item \in Item PROVE item[sx[s].item].fd = NULL
    BY DEF InFlight
  <2>1. sx[s].pc = "try"
    BY NullAssumption DEF SendersOK
  <2>2. item[sx[s].item] = [call |-> sx[s].call, fd |-> NULL]
    BY <2>1 DEF SendersOK
  <2> QED BY <2>2
<1>4. ASSUME NEW i \in ToSet(freepool) PROVE i \notin InFlight
  <2>1. i \in Item
    BY DEF TypeOK, ToSet
  <2> QED BY <2>1, OnePlace DEF InFlight
<1>5. ASSUME NEW i \in InFlight PROVE i \in Item /\ item[i] \in WorkItem /\ item[i].fd \in Fd
  BY DEF InFlight, TypeOK, WorkItem
<1> QED BY <1>1, <1>2, <1>3, <1>4, <1>5

\* A descriptor counted.
LEMMA FdCounts ==
  ASSUME TypeOK, NEW f
  PROVE  /\ Times(pool, f) \in Nat /\ (Times(pool, f) > 0 <=> f \in ToSet(pool))
         /\ IsFiniteSet(Carry(f)) /\ Cardinality(Carry(f)) \in Nat
         /\ Cardinality(Carry(f)) = 0 <=> Carry(f) = {}
<1>1. Times(pool, f) \in Nat /\ (Times(pool, f) > 0 <=> f \in ToSet(pool))
  BY TimesNat DEF TypeOK
<1>2. Carry(f) \in SUBSET InFlight
  BY DEF Carry
<1> QED BY <1>1, <1>2, Finite, CountNat

\* One item has a descriptor, and the pool has another.
LEMMA OneCarrier ==
  ASSUME IInv
  PROVE  /\ \A i \in InFlight : conn[item[i].fd] # NULL /\ item[i].fd \notin ToSet(pool)
         /\ \A i, j \in InFlight : item[i].fd = item[j].fd => i = j
         /\ \A f \in ToSet(pool) : f \in Fd /\ conn[f] # NULL
<1>0. TypeOK /\ FdOK
  BY DEF IInv, Shape
<1>1. ASSUME NEW i \in InFlight
      PROVE  /\ conn[item[i].fd] # NULL /\ item[i].fd \notin ToSet(pool)
             /\ Carry(item[i].fd) = {i}
  <2>1. item[i].fd \in Fd
    BY OnItsWay
  <2>2. i \in Carry(item[i].fd)
    BY DEF Carry
  <2> DEFINE f == item[i].fd
  <2> HIDE DEF f
  <2>3. Cardinality(Carry(f)) = 1 /\ Times(pool, f) = 0 /\ conn[f] # NULL
    BY <1>0, <2>1, <2>2, FdCounts DEF FdOK, f
  <2>4. Carry(f) = {i}
    BY <1>0, <2>2, <2>3, FdCounts, FS_Singleton DEF f
  <2> QED BY <1>0, <2>3, <2>4, FdCounts DEF f
<1>2. ASSUME NEW f \in ToSet(pool) PROVE f \in Fd /\ conn[f] # NULL
  <2>1. f \in Fd
    BY <1>0 DEF TypeOK, ToSet
  <2> QED BY <1>0, <2>1, FdCounts DEF FdOK
<1>3. ASSUME NEW i \in InFlight, NEW j \in InFlight, item[i].fd = item[j].fd PROVE i = j
  BY <1>1, <1>3
<1> QED BY <1>1, <1>2, <1>3

\* A step that neither begins nor ends an item's way, nor opens, closes or pools
\* a connection.
LEMMA KeepFds ==
  ASSUME FdOK, FlightKept, UNCHANGED <<pool, refs>>,
         \A f \in Fd : conn'[f] = NULL <=> conn[f] = NULL
  PROVE  FdOK'
<1>1. ASSUME NEW f \in Fd PROVE Carry(f)' = Carry(f)
  BY DEF Carry, FlightKept
<1> QED BY <1>1 DEF FdOK, FlightKept

\* NULL and the shutdown message are nothing else.
LEMMA NotNull ==
  NULL \notin Item /\ NULL \notin Fd /\ NULL \notin WorkItem /\ NULL \notin Connection
  /\ SHUT \notin Item
  BY NullAssumption

-----------------------------------------------------------------------------
(* The main thread keeps the invariant                                     *)

\* Init establishes the invariant.
LEMMA InitInv == Init => IInv
<1> SUFFICES ASSUME Init PROVE IInv
  OBVIOUS
<1> USE DEF Init
<1>1. MaxThreads \in Nat \ {0} /\ MaxCalls \in Nat
  BY ThreadsAssumption, LimitAssumption
<1>2. TypeOK
  <2>1. sx \in [Sender -> SenderRecord]
    BY <1>1 DEF SenderRecord
  <2>2. rx \in [Slot -> Receiver]
    BY DEF Receiver
  <2> QED BY <1>1, <2>1, <2>2 DEF TypeOK
<1>3. ASSUME NEW e PROVE Times(<<>>, e) = 0
  BY FS_EmptySet DEF Times
<1>4. ToSet(q) = {}
  BY DEF ToSet
<1>5. ASSUME NEW i \in Item PROVE Senders(i) = {} /\ Receivers(i) = {} /\ {i} \cap lost = {}
  BY NotNull DEF Senders, Receivers
<1>6. InFlight = {}
  BY DEF InFlight
<1>7. PlaceOK
  <2> SUFFICES ASSUME NEW i \in Item
               PROVE  WithSender(i) + Queued(i) + WithReceiver(i) + Recycled(i) + Gone(i) = 0
    BY DEF PlaceOK
  <2>1. WithSender(i) = 0 /\ WithReceiver(i) = 0 /\ Gone(i) = 0
    BY <1>5, FS_EmptySet DEF WithSender, WithReceiver, Gone
  <2>2. Queued(i) = 0 /\ Recycled(i) = 0
    BY <1>3 DEF Queued, Recycled
  <2> QED BY <2>1, <2>2
<1>8. FdOK
  <2>1. ASSUME NEW f \in Fd PROVE Carry(f) = {}
    BY <1>6 DEF Carry
  <2>2. ASSUME NEW f \in Fd PROVE Times(pool, f) = 0 /\ Cardinality(Carry(f)) = 0
    BY <1>3, <2>1, FS_EmptySet
  <2>3. refs = Cardinality(InFlight)
    BY <1>6, FS_EmptySet
  <2> QED BY <2>2, <2>3 DEF FdOK
<1>9. SendersOK /\ ReceiversOK /\ QueueOK
  BY <1>4 DEF SendersOK, ReceiversOK, QueueOK, Receiving
<1>10. ThreadsOK
  <2>1. Active = {} /\ Begun = {}
    BY DEF Active, Begun
  <2> QED BY <2>1, FS_EmptySet DEF ThreadsOK
<1> QED BY <1>2, <1>7, <1>8, <1>9, <1>10 DEF IInv, Shape

\* Threads are created in slots that have none.
LEMMA CreatedDoes ==
  ASSUME IInv, NEW ts, rx' = Created(ts), \A t \in Slot : t \in ts => rx[t].pc = "none",
         UNCHANGED <<sx, q, freepool, item, lost, pool, conn, refs, count, calls>>
  PROVE  /\ rx' \in [Slot -> Receiver]
         /\ \A t \in Slot : /\ rx'[t].item = rx[t].item /\ rx'[t].msg = rx[t].msg
                            /\ rx'[t].pc = IF t \in ts THEN "start" ELSE rx[t].pc
         /\ Active' = Active /\ Begun' = Begun /\ ReceiversOK' /\ FlightKept
         /\ PlaceOK' /\ QueueOK' /\ FdOK' /\ SendersOK'
<1> USE DEF IInv, Shape
<1>1. /\ rx' \in [Slot -> Receiver]
      /\ \A t \in Slot : /\ rx'[t].item = rx[t].item /\ rx'[t].msg = rx[t].msg
                         /\ rx'[t].pc = IF t \in ts THEN "start" ELSE rx[t].pc
  BY DEF Created, TypeOK, Receiver
<1>2. Active' = Active /\ Begun' = Begun
  BY <1>1 DEF Active, Begun
<1>3. ReceiversOK'
  BY <1>1 DEF ReceiversOK, Receiving
<1>4. ItemsKept /\ q' \in Seq(Item \cup {SHUT})
  BY <1>1 DEF ItemsKept, TypeOK
<1>5. PlaceOK' /\ FlightKept /\ QueueOK'
  BY <1>4, KeepItems
<1>6. FdOK'
  BY <1>5, KeepFds
<1>7. SendersOK'
  BY DEF SendersOK
<1> QED BY <1>1, <1>2, <1>3, <1>5, <1>6, <1>7

\* A thread count that is in bounds.
LEMMA ClampedIn ==
  ASSUME NEW n \in Nat \ {0}
  PROVE  Clamped(n) \in 0 .. MaxThreads
  BY ThreadsAssumption DEF Clamped

\* citrusleaf_async_init creates threads and touches no item.
LEMMA InitStep ==
  ASSUME IInv, citrusleaf_async_init
  PROVE  IInv' /\ FlightKept
<1> USE DEF IInv, Shape, citrusleaf_async_init
<1>1. num' \in 0 .. MaxThreads
  BY ThreadsAssumption, ClampedIn
<1>2. \A t \in Slot : t \in 1 .. num' => rx[t].pc = "none"
  BY DEF ThreadsOK
<1>3. /\ rx' \in [Slot -> Receiver]
      /\ \A t \in Slot : rx'[t].pc = IF t \in 1 .. num' THEN "start" ELSE rx[t].pc
      /\ Active' = Active /\ Begun' = Begun /\ ReceiversOK' /\ FlightKept
      /\ PlaceOK' /\ QueueOK' /\ FdOK' /\ SendersOK'
  BY <1>2, CreatedDoes
<1>4. TypeOK'
  BY <1>1, <1>3 DEF TypeOK
<1>5. ThreadsOK'
  <2>1. \A t \in Slot : t > num' => rx'[t].pc = "none"
    BY <1>1, <1>3 DEF ThreadsOK, Slot
  <2> QED BY <1>3, <2>1 DEF ThreadsOK
<1> QED BY <1>3, <1>4, <1>5

\* citrusleaf_async_reinit creates threads in empty slots, or lowers the count.
LEMMA ReinitStep ==
  ASSUME IInv, NEW n \in ReinitThreads, citrusleaf_async_reinit(n)
  PROVE  IInv' /\ FlightKept
<1> USE DEF IInv, Shape, citrusleaf_async_reinit
<1>1. Clamped(n) \in 0 .. MaxThreads /\ num \in 0 .. MaxThreads
  BY ThreadsAssumption, ClampedIn DEF TypeOK
<1>2. CASE Clamped(n) > num
  <2> DEFINE ts == (num + 1) .. Clamped(n)
  <2>1. \A t \in Slot : t \in ts => rx[t].pc = "none"
    BY <1>1 DEF ThreadsOK
  <2>2. rx' = Created(ts)
    BY <1>2
  <2> HIDE DEF ts
  <2>3. /\ rx' \in [Slot -> Receiver]
        /\ Active' = Active /\ Begun' = Begun /\ ReceiversOK' /\ FlightKept
        /\ PlaceOK' /\ QueueOK' /\ FdOK' /\ SendersOK'
    BY <2>1, <2>2, CreatedDoes
  <2>4. TypeOK' /\ ThreadsOK'
    BY <1>2, <2>3 DEF TypeOK, ThreadsOK
  <2> QED BY <2>3, <2>4
<1>3. CASE ~ (Clamped(n) > num)
  <2>1. UNCHANGED rx /\ num' \in 0 .. MaxThreads
    BY <1>1, <1>3
  <2>2. ItemsKept /\ q' \in Seq(Item \cup {SHUT})
    BY <2>1 DEF ItemsKept, TypeOK
  <2>3. PlaceOK' /\ FlightKept /\ QueueOK'
    BY <2>2, KeepItems
  <2>4. FdOK'
    BY <2>3, KeepFds
  <2>5. TypeOK'
    BY <2>1 DEF TypeOK
  <2>6. SendersOK' /\ ReceiversOK'
    BY <2>1 DEF SendersOK, ReceiversOK
  <2>7. ThreadsOK'
    BY <2>1 DEF ThreadsOK, Active, Begun
  <2> QED BY <2>3, <2>4, <2>5, <2>6, <2>7
<1> QED BY <1>2, <1>3

\* The shutdown messages go behind the queued work and are no items.
LEMMA ShutdownSendStep ==
  ASSUME IInv, ShutdownSend
  PROVE  IInv' /\ FlightKept
<1> USE DEF IInv, Shape, ShutdownSend
<1> DEFINE T == Item \cup {SHUT}
<1>1. q \in Seq(T) /\ num \in Nat /\ SHUT \in T
  BY DEF TypeOK
<1>2. q' = q \o [k \in 1 .. num |-> SHUT]
  OBVIOUS
<1> HIDE DEF T
<1>3. q' \in Seq(T)
  BY <1>1, <1>2, ConcatProperties
<1>4. ASSUME NEW i \in Item PROVE Times(q', i) = Times(q, i)
  <2>1. SHUT # i
    BY NotNull
  <2> DEFINE u == [k \in 1 .. num |-> SHUT]
  <2>2. u \in Seq(T) /\ \A k \in DOMAIN u : u[k] # i
    BY <1>1, <2>1
  <2> HIDE DEF u
  <2>3. Times(q \o u, i) = Times(q, i)
    BY <1>1, <2>2, TimesConcat
  <2> QED BY <1>2, <2>3 DEF u
<1>5. ASSUME NEW i \in Item PROVE i \in ToSet(q') <=> i \in ToSet(q)
  BY <1>1, <1>3, <1>4, TimesNat
<1>6. ItemsKept /\ q' \in Seq(Item \cup {SHUT})
  BY <1>3, <1>4, <1>5 DEF ItemsKept, T
<1>7. PlaceOK' /\ FlightKept /\ QueueOK'
  BY <1>6, KeepItems
<1>8. FdOK'
  BY <1>7, KeepFds
<1>9. TypeOK'
  BY <1>6 DEF TypeOK
<1>10. SendersOK' /\ ReceiversOK' /\ ThreadsOK'
  BY DEF SendersOK, ReceiversOK, ThreadsOK, Active, Begun
<1> QED BY <1>7, <1>8, <1>9, <1>10

\* The items still queued when the queue is destroyed are lost, with what they hold.
LEMMA ShutdownJoinStep ==
  ASSUME IInv, ShutdownJoin
  PROVE  IInv' /\ FlightKept
<1> USE DEF IInv, Shape, ShutdownJoin
<1>1. TypeOK'
  BY DEF TypeOK, ToSet
<1>2. ToSet(q') = {} /\ \A i \in Item : Times(q', i) = 0
  BY FS_EmptySet DEF ToSet, Times
<1>3. PlaceOK'
  <2> SUFFICES ASSUME NEW i \in Item
               PROVE  WithSender(i)' + Queued(i)' + WithReceiver(i)' + Recycled(i)' + Gone(i)'
                        = IF item'[i] = NULL THEN 0 ELSE 1
    BY DEF PlaceOK
  <2>1. /\ WithSender(i)' = WithSender(i) /\ WithReceiver(i)' = WithReceiver(i)
        /\ Recycled(i)' = Recycled(i) /\ Queued(i)' = 0
    BY <1>2 DEF WithSender, WithReceiver, Senders, Receivers, Recycled, Queued
  <2>2. {i} \cap lost' = IF i \in lost' THEN {i} ELSE {}
    OBVIOUS
  <2>3. Gone(i)' = IF i \in lost' THEN 1 ELSE 0
    BY <2>2, FS_Singleton, FS_EmptySet DEF Gone
  <2>4. i # SHUT
    BY NotNull
  <2>5. i \in ToSet(q) => Queued(i) = 1
    BY Counts DEF PlaceOK
  <2> QED BY <2>1, <2>3, <2>4, <2>5, Counts, OnePlace DEF PlaceOK
<1>4. FlightKept
  <2>1. ASSUME NEW i \in Item PROVE Receivers(i)' = Receivers(i) /\ i # SHUT
    BY NotNull DEF Receivers
  <2>2. ASSUME NEW i \in Item
        PROVE  i \in ToSet(q') \cup lost' <=> i \in ToSet(q) \cup lost
    BY <1>2, <2>1
  <2> QED BY <2>1, <2>2 DEF FlightKept, InFlight
<1>5. QueueOK'
  BY <1>2 DEF QueueOK
<1>6. FdOK'
  BY <1>4, KeepFds
<1>7. SendersOK' /\ ReceiversOK' /\ ThreadsOK'
  BY DEF SendersOK, ReceiversOK, ThreadsOK, Active, Begun
<1> QED BY <1>1, <1>3, <1>4, <1>5, <1>6, <1>7

-----------------------------------------------------------------------------
(* The senders keep the invariant                                          *)

\* One more report to the caller of a call.
LEMMA Answers ==
  ASSUME TypeOK, NEW c \in Call, NEW a \in Reports, Answer(c, a)
  PROVE  /\ answer' \in [Call -> Seq(Reports)] /\ answer'[c] = Append(answer[c], a)
         /\ \A d \in Call \ {c} : answer'[d] = answer[d]
<1>1. answer \in [Call -> Seq(Reports)] /\ Append(answer[c], a) \in Seq(Reports)
  BY DEF TypeOK
<1>2. answer' = [answer EXCEPT ![c] = Append(answer[c], a)]
  BY DEF Answer
<1> QED BY <1>1, <1>2

\* What a sender that has no item knows.
LEMMA SenderFacts ==
  ASSUME IInv, NEW s \in Sender
  PROVE  /\ sx[s] \in SenderRecord /\ calls \in 0 .. MaxCalls /\ MaxCalls \in Nat
         /\ sx[s].pc # "try" => sx[s].item = NULL
         /\ sx[s].pc # "idle" => sx[s].call \in Call /\ sx[s].call \in 0 .. MaxCalls
         /\ sx[s].pc = "try" => /\ sx[s].item \in Item
                                /\ item[sx[s].item] = [call |-> sx[s].call, fd |-> NULL]
<1>1. MaxCalls \in Nat
  BY LimitAssumption
<1>2. sx[s] \in SenderRecord /\ calls \in 0 .. MaxCalls
  BY DEF IInv, Shape, TypeOK
<1>3. sx[s].item \in Item \cup {NULL}
  BY <1>2 DEF SenderRecord
<1> QED BY <1>1, <1>2, <1>3 DEF IInv, Shape, SendersOK, Call

\* A step of a sender that changes no item's place.
LEMMA QuietSender ==
  ASSUME IInv, NEW s \in Sender, NEW l \in {"idle", "sized", "pop"}, NEW c \in 0 .. MaxCalls,
         UpdS(s, l, c, NULL), sx[s].item = NULL, l # "idle" => c \in 1 .. calls',
         calls' \in {calls, calls + 1}, calls' <= MaxCalls,
         answer' \in [Call -> Seq(Reports)],
         UNCHANGED <<rx, main, q, freepool, item, lost, pool, conn, refs, num, count, passed>>
  PROVE  IInv' /\ FlightKept
<1> USE DEF IInv, Shape
<1>1. /\ sx' \in [Sender -> SenderRecord]
      /\ sx'[s].pc = l /\ sx'[s].call = c /\ sx'[s].item = NULL
      /\ \A r \in Sender \ {s} : sx'[r] = sx[r]
  BY SenderStep
<1>2. ItemsKept /\ q' \in Seq(Item \cup {SHUT})
  BY <1>1 DEF ItemsKept, TypeOK
<1>3. PlaceOK' /\ FlightKept /\ QueueOK'
  BY <1>2, KeepItems
<1>4. FdOK'
  BY <1>3, KeepFds
<1>5. calls \in 0 .. MaxCalls /\ MaxCalls \in Nat
  BY SenderFacts
<1>6. TypeOK'
  BY <1>1, <1>5 DEF TypeOK
<1>7. SendersOK'
  <2> SUFFICES ASSUME NEW r \in Sender
               PROVE  /\ sx'[r].pc = "try" <=> sx'[r].item # NULL
                      /\ sx'[r].pc # "idle" => sx'[r].call \in 1 .. calls'
                      /\ sx'[r].pc = "try" => item'[sx'[r].item]
                                                = [call |-> sx'[r].call, fd |-> NULL]
    BY DEF SendersOK
  <2>1. CASE r = s
    BY <1>1, <2>1
  <2>2. CASE r # s
    <3>1. sx'[r] = sx[r] /\ \A n : n \in 1 .. calls => n \in 1 .. calls'
      BY <1>1, <1>5, <2>2
    <3> QED BY <3>1 DEF SendersOK
  <2> QED BY <2>1, <2>2
<1>8. ReceiversOK' /\ ThreadsOK'
  BY DEF ReceiversOK, ThreadsOK, Active, Begun
<1> QED BY <1>3, <1>4, <1>6, <1>7, <1>8

\* A call begins, or is refused because the queue is full.
LEMMA SendBeginStep ==
  ASSUME IInv, NEW s \in Sender, SendBegin(s)
  PROVE  IInv' /\ FlightKept
<1> USE DEF SendBegin
<1>0. /\ calls \in 0 .. MaxCalls /\ MaxCalls \in Nat /\ calls < MaxCalls
      /\ calls' = calls + 1 /\ sx[s].item = NULL /\ sx[s].pc = "idle"
  BY SenderFacts
<1>1. /\ calls \in 0 .. MaxCalls /\ MaxCalls \in Nat /\ calls' \in 1 .. MaxCalls
      /\ calls' = calls + 1 /\ sx[s].item = NULL /\ sx[s].pc = "idle" /\ calls' \in Call
  <2> HIDE DEF SendBegin
  <2> QED BY <1>0 DEF Call
<1>2. CASE Len(q) >= Limit
  <2>1. Answer(calls', "ASYNCQ_FULL") /\ UNCHANGED sx
    BY <1>2
  <2>2. answer' \in [Call -> Seq(Reports)]
    BY <1>1, <2>1, Answers DEF Reports, IInv, Shape
  <2>3. ItemsKept /\ q' \in Seq(Item \cup {SHUT})
    BY <2>1 DEF ItemsKept, IInv, Shape, TypeOK
  <2>4. PlaceOK' /\ FlightKept /\ QueueOK'
    BY <2>3, KeepItems
  <2>5. FdOK'
    BY <2>4, KeepFds DEF IInv
  <2>6. TypeOK'
    BY <1>1, <2>1, <2>2 DEF TypeOK, IInv, Shape
  <2>7. SendersOK'
    BY <1>1, <2>1 DEF SendersOK, IInv, Shape
  <2>8. ReceiversOK' /\ ThreadsOK'
    BY DEF ReceiversOK, ThreadsOK, Active, Begun, IInv, Shape
  <2> QED BY <2>4, <2>5, <2>6, <2>7, <2>8 DEF IInv, Shape
<1>3. CASE ~ (Len(q) >= Limit)
  <2>1. UpdS(s, "sized", calls', NULL) /\ UNCHANGED answer
    BY <1>3
  <2>2. answer' \in [Call -> Seq(Reports)]
    BY <2>1 DEF IInv, Shape, TypeOK
  <2> DEFINE c == calls'
  <2>3. /\ c \in 0 .. MaxCalls /\ c \in 1 .. calls' /\ calls' \in {calls, calls + 1}
        /\ calls' <= MaxCalls
    BY <1>1
  <2>4. UpdS(s, "sized", c, NULL)
    BY <2>1
  <2>5. UNCHANGED <<rx, main, q, freepool, item, lost, pool, conn, refs, num, count, passed>>
    OBVIOUS
  <2> HIDE DEF c, SendBegin
  <2> QED BY <1>1, <2>2, <2>3, <2>4, <2>5, QuietSender
<1> QED BY <1>2, <1>3

\* A sender takes an item that was not allocated, or the first of the free pool.
LEMMA TakeItem ==
  ASSUME IInv, NEW s \in Sender, sx[s].pc \in {"sized", "pop"}, NEW i \in Item,
         Reset(i, sx[s].call), UpdS(s, "try", sx[s].call, i),
         \/ item[i] = NULL /\ UNCHANGED freepool
         \/ freepool # <<>> /\ i = Head(freepool) /\ freepool' = Tail(freepool),
         UNCHANGED <<rx, main, q, lost, pool, conn, refs, num, count, calls, passed, answer>>
  PROVE  /\ IInv' /\ FlightKept /\ i \notin InFlight
         /\ \A j \in Item \ {i} : item'[j] = item[j]
<1> USE DEF IInv, Shape
<1> DEFINE c == sx[s].call
           new == [call |-> c, fd |-> NULL]
<1>1. c \in Call /\ c \in 0 .. MaxCalls /\ sx[s].item = NULL /\ c \in 1 .. calls
  BY SenderFacts DEF SendersOK
<1>2. new \in WorkItem /\ new # NULL /\ new.fd = NULL
  BY <1>1, NotNull DEF WorkItem
<1>3. /\ item' \in [Item -> WorkItem \cup {NULL}] /\ item'[i] = new
      /\ \A j \in Item \ {i} : item'[j] = item[j]
  BY <1>2 DEF Reset, TypeOK
<1>4. /\ sx' \in [Sender -> SenderRecord]
      /\ sx'[s].pc = "try" /\ sx'[s].call = c /\ sx'[s].item = i
      /\ \A r \in Sender \ {s} : sx'[r] = sx[r]
      /\ \A j \in Item : /\ WithSender(j)' = WithSender(j)
                              - (IF sx[s].item = j THEN 1 ELSE 0) + (IF i = j THEN 1 ELSE 0)
                         /\ WithSender(j) \in Nat
  <2> HIDE DEF c
  <2> QED BY <1>1, SenderStep DEF c
<1>5. /\ freepool' \in Seq(Item)
      /\ item[i] # NULL => i \in ToSet(freepool)
      /\ \A j \in Item : Recycled(j)' = Recycled(j)
                           - (IF j = i /\ item[i] # NULL THEN 1 ELSE 0)
  <2>1. CASE item[i] = NULL /\ UNCHANGED freepool
    BY <2>1, Counts DEF Recycled, TypeOK
  <2>2. CASE freepool # <<>> /\ i = Head(freepool) /\ freepool' = Tail(freepool)
    <3>1. freepool \in Seq(Item)
      BY DEF TypeOK
    <3>2. ASSUME NEW j \in Item
          PROVE  /\ Tail(freepool) \in Seq(Item) /\ i \in ToSet(freepool)
                 /\ Times(Tail(freepool), j) = Times(freepool, j) - (IF i = j THEN 1 ELSE 0)
      BY <2>2, <3>1, TimesTail
    <3>3. item[i] # NULL
      BY <3>2, OnePlace
    <3> QED BY <2>2, <3>2, <3>3 DEF Recycled
  <2> QED BY <2>1, <2>2
<1> HIDE DEF new
<1>6. Senders(i) = {} /\ Receivers(i) = {} /\ i \notin ToSet(q) /\ i \notin lost
  BY <1>5, OnePlace
<1>7. PlaceOK'
  <2> SUFFICES ASSUME NEW j \in Item
               PROVE  WithSender(j)' + Queued(j)' + WithReceiver(j)' + Recycled(j)' + Gone(j)'
                        = IF item'[j] = NULL THEN 0 ELSE 1
    BY DEF PlaceOK
  <2>1. /\ WithReceiver(j)' = WithReceiver(j) /\ Queued(j)' = Queued(j) /\ Gone(j)' = Gone(j)
    BY DEF WithReceiver, Receivers, Queued, Gone
  <2>2. WithSender(j) + Queued(j) + WithReceiver(j) + Recycled(j) + Gone(j)
          = IF item[j] = NULL THEN 0 ELSE 1
    BY DEF PlaceOK
  <2>3. WithSender(j)' = WithSender(j) + (IF i = j THEN 1 ELSE 0)
    BY <1>1, <1>4, NotNull
  <2>4. /\ Queued(j) \in Nat /\ WithReceiver(j) \in Nat /\ Recycled(j) \in Nat /\ Gone(j) \in Nat
        /\ WithSender(j) \in Nat
    BY Counts
  <2>5. Recycled(j)' = Recycled(j) - (IF j = i /\ item[i] # NULL THEN 1 ELSE 0)
    BY <1>5
  <2>6. CASE j = i
    <3>1. /\ WithSender(j)' = WithSender(j) + 1 /\ item'[j] # NULL
          /\ item[j] = NULL => Recycled(j)' = Recycled(j)
          /\ item[j] # NULL => Recycled(j)' = Recycled(j) - 1
      BY <1>2, <1>3, <2>3, <2>4, <2>5, <2>6
    <3> QED BY <2>1, <2>2, <2>4, <3>1
  <2>7. CASE j # i
    <3>1. WithSender(j)' = WithSender(j) /\ Recycled(j)' = Recycled(j) /\ item'[j] = item[j]
      BY <1>3, <2>3, <2>4, <2>5, <2>7
    <3> QED BY <2>1, <2>2, <3>1
  <2> QED BY <2>6, <2>7
<1>8. FlightKept /\ i \notin InFlight
  <2>1. i \notin InFlight
    BY <1>6 DEF InFlight
  <2>2. i \notin InFlight'
    BY <1>2, <1>3 DEF InFlight
  <2>3. ASSUME NEW j \in Item \ {i} PROVE Receivers(j)' = Receivers(j) /\ item'[j] = item[j]
    BY <1>3 DEF Receivers
  <2>4. ASSUME NEW j \in Item \ {i} PROVE j \in InFlight' <=> j \in InFlight
    BY <2>3 DEF InFlight
  <2>5. InFlight \subseteq Item /\ InFlight' \subseteq Item
    BY DEF InFlight
  <2> QED BY <2>1, <2>2, <2>3, <2>4, <2>5 DEF FlightKept
<1>9. FdOK'
  BY <1>8, KeepFds
<1>10. TypeOK'
  BY <1>3, <1>4, <1>5 DEF TypeOK
<1>11. SendersOK'
  <2>1. ASSUME NEW r \in Sender \ {s} PROVE sx[r].item # i
    BY <1>6 DEF Senders
  <2>2. ASSUME NEW r \in Sender \ {s}, sx[r].pc = "try" PROVE sx[r].item \in Item \ {i}
    BY <2>1, <2>2, SenderFacts
  <2>3. i # NULL
    BY NotNull
  <2> SUFFICES ASSUME NEW r \in Sender
               PROVE  /\ sx'[r].pc = "try" <=> sx'[r].item # NULL
                      /\ sx'[r].pc # "idle" => sx'[r].call \in 1 .. calls'
                      /\ sx'[r].pc = "try" => item'[sx'[r].item]
                                                = [call |-> sx'[r].call, fd |-> NULL]
    BY DEF SendersOK
  <2>4. CASE r = s
    BY <1>1, <1>3, <1>4, <2>3, <2>4 DEF new
  <2>5. CASE r # s
    <3>1. sx'[r] = sx[r] /\ (sx[r].pc = "try" => item'[sx[r].item] = item[sx[r].item])
      BY <1>3, <1>4, <2>2, <2>5
    <3> QED BY <3>1 DEF SendersOK
  <2> QED BY <2>4, <2>5
<1>12. ReceiversOK'
  <2>1. ASSUME NEW t \in Slot, rx[t].item # NULL PROVE rx[t].item \in Item \ {i}
    BY <1>6, <2>1 DEF Receivers, TypeOK, Receiver
  <2> QED BY <1>3, <2>1 DEF ReceiversOK
<1>13. QueueOK'
  <2>1. ASSUME NEW j \in ToSet(q) \ {SHUT} PROVE j \in Item \ {i}
    BY <1>6 DEF ToSet, TypeOK
  <2> QED BY <1>3, <2>1 DEF QueueOK
<1>14. ThreadsOK'
  BY DEF ThreadsOK, Active, Begun
<1> QED BY <1>3, <1>7, <1>8, <1>9, <1>10, <1>11, <1>12, <1>13, <1>14

\* A call finds the free pool filled, allocates an item, or fails to.
LEMMA SendItemStep ==
  ASSUME IInv, NEW s \in Sender, SendItem(s)
  PROVE  IInv' /\ FlightKept
<1> USE DEF SendItem
<1>1. /\ sx[s].pc = "sized" /\ sx[s].item = NULL /\ sx[s].call \in Call
      /\ sx[s].call \in 0 .. MaxCalls /\ calls \in 0 .. MaxCalls /\ MaxCalls \in Nat
      /\ sx[s].call \in 1 .. calls
  BY SenderFacts DEF IInv, Shape, SendersOK
<1>2. ASSUME UpdS(s, "pop", sx[s].call, NULL), UNCHANGED <<freepool, item, answer>>
      PROVE  IInv' /\ FlightKept
  <2>1. answer' \in [Call -> Seq(Reports)]
    BY <1>2 DEF IInv, Shape, TypeOK
  <2> QED BY <1>1, <1>2, <2>1, QuietSender
<1>3. ASSUME NEW i \in Lowest(item), Reset(i, sx[s].call), UpdS(s, "try", sx[s].call, i),
             UNCHANGED <<freepool, answer>>
      PROVE  IInv' /\ FlightKept
  <2>1. i \in Item /\ item[i] = NULL
    BY DEF Lowest, IInv, Shape, TypeOK
  <2> QED BY <1>1, <1>3, <2>1, TakeItem
<1>4. ASSUME UpdS(s, "idle", 0, NULL), Answer(sx[s].call, "CLIENT"), UNCHANGED <<freepool, item>>
      PROVE  IInv' /\ FlightKept
  <2>1. answer' \in [Call -> Seq(Reports)]
    BY <1>1, <1>4, Answers DEF Reports, IInv, Shape
  <2>2. 0 \in 0 .. MaxCalls
    BY <1>1
  <2> QED BY <1>1, <1>4, <2>1, <2>2, QuietSender
<1> QED BY <1>2, <1>3, <1>4

\* A call takes the first item of the free pool.
LEMMA SendPopStep ==
  ASSUME IInv, NEW s \in Sender, SendPop(s)
  PROVE  IInv' /\ FlightKept
<1> USE DEF SendPop
<1>1. Head(freepool) \in Item
  BY DEF IInv, Shape, TypeOK
<1> DEFINE i == Head(freepool)
<1>2. /\ i \in Item /\ Reset(i, sx[s].call) /\ UpdS(s, "try", sx[s].call, i)
      /\ freepool # <<>> /\ i = Head(freepool) /\ freepool' = Tail(freepool)
  BY <1>1
<1> HIDE DEF i
<1> QED BY <1>2, TakeItem

\* The connection of a try: the first of the pool, which leaves it, or one that
\* was not open.
LEMMA TryFdDoes ==
  ASSUME IInv, NEW f \in TryFd, pool' = PoolTaken
  PROVE  /\ f \in Fd /\ pool' \in Seq(Fd) /\ Carry(f) = {} /\ Cardinality(Carry(f)) = 0
         /\ conn[f] # NULL => f \in ToSet(pool)
         /\ \A g \in Fd : /\ Times(pool', g) \in Nat
                          /\ g # f => Times(pool', g) = Times(pool, g)
         /\ Times(pool', f) = 0
         /\ \A g \in ToSet(pool') : g \in ToSet(pool) \ {f}
<1> USE DEF IInv, Shape
<1>1. pool \in Seq(Fd)
  BY DEF TypeOK
<1>2. CASE pool # <<>>
  <2>1. f = Head(pool) /\ pool' = Tail(pool)
    BY <1>2 DEF TryFd, PoolTaken
  <2>2. ASSUME NEW g
        PROVE  /\ Tail(pool) \in Seq(Fd) /\ f \in Fd /\ f \in ToSet(pool)
               /\ Times(pool', g) = Times(pool, g) - (IF f = g THEN 1 ELSE 0)
    BY <1>1, <1>2, <2>1, TimesTail
  <2>3. Times(pool, f) = 1 /\ Cardinality(Carry(f)) = 0 /\ conn[f] # NULL
    <3>1. f \in Fd /\ f \in ToSet(pool)
      BY <2>2
    <3>2. Times(pool, f) + Cardinality(Carry(f)) = IF conn[f] = NULL THEN 0 ELSE 1
      BY <3>1 DEF FdOK
    <3> QED BY <3>1, <3>2, FdCounts
  <2>4. Times(pool', f) = 0 /\ \A g : g # f => Times(pool', g) = Times(pool, g)
    <3>1. Times(pool', f) = 0
      BY <2>2, <2>3
    <3>2. ASSUME NEW g, g # f PROVE Times(pool', g) = Times(pool, g)
      <4>1. Times(pool, g) \in Nat
        BY FdCounts
      <4> QED BY <2>2, <3>2, <4>1
    <3> QED BY <3>1, <3>2
  <2>5. ASSUME NEW g \in ToSet(pool') PROVE g \in ToSet(pool) \ {f}
    <3>1. Times(pool', g) > 0
      BY <2>1, <2>2, TimesNat
    <3> QED BY <2>4, <3>1, FdCounts
  <2>6. Carry(f) = {}
    BY <2>3, FdCounts
  <2>7. \A g \in Fd : Times(pool', g) \in Nat
    BY <2>1, <2>2, TimesNat
  <2> QED BY <2>1, <2>2, <2>3, <2>4, <2>5, <2>6, <2>7
<1>3. CASE pool = <<>>
  <2>1. f \in Fd /\ conn[f] = NULL /\ pool' = pool
    BY <1>3 DEF TryFd, PoolTaken, Lowest, TypeOK
  <2>2. Times(pool, f) = 0 /\ Cardinality(Carry(f)) = 0 /\ Carry(f) = {}
    <3>1. Times(pool, f) + Cardinality(Carry(f)) = 0
      BY <2>1 DEF FdOK
    <3> QED BY <3>1, FdCounts
  <2>3. \A g \in Fd : Times(pool', g) \in Nat
    BY <1>1, <2>1, TimesNat
  <2>4. ASSUME NEW g \in ToSet(pool') PROVE FALSE
    BY <1>3, <2>1 DEF ToSet
  <2> QED BY <1>1, <2>1, <2>2, <2>3, <2>4
<1> QED BY <1>2, <1>3

\* The request is written on a connection.
LEMMA AskedType ==
  ASSUME NEW c \in Connection, NEW k \in Call
  PROVE  /\ Asked(c, k) \in Connection /\ Asked(c, k) # NULL
         /\ Asked(c, k).torn = c.torn /\ Asked(c, k).in = c.in
         /\ Asked(c, k).due = c.due \o Pieces(k)
<1>1. Pieces(k) \in Seq(Piece) /\ c.due \in Seq(Piece)
  BY DEF Pieces, Piece, Connection
<1>2. c.due \o Pieces(k) \in Seq(Piece)
  BY <1>1
<1> QED BY <1>2, NotNull DEF Asked, Connection

\* An accepted call hands item, connection and node reference to the receivers.
LEMMA SendOkStep ==
  ASSUME IInv, NEW s \in Sender, NEW f \in TryFd, sx[s].pc = "try",
         conn' = [conn EXCEPT ![f] = Asked(IF @ = NULL THEN NewConn ELSE @, sx[s].call)],
         Accept(s, f), pool' = PoolTaken, refs' = refs + 1,
         UNCHANGED <<rx, main, freepool, lost, num, count, calls, passed>>
  PROVE  /\ IInv'
         /\ sx[s].item \notin InFlight /\ InFlight' = InFlight \cup {sx[s].item}
         /\ item'[sx[s].item] = [call |-> sx[s].call, fd |-> f]
         /\ \A j \in Item \ {sx[s].item} : item'[j] = item[j]
<1> USE DEF IInv, Shape
<1> DEFINE i == sx[s].item
           c == sx[s].call
           new == [call |-> c, fd |-> f]
           base == IF conn[f] = NULL THEN NewConn ELSE conn[f]
<1>1. i \in Item /\ c \in Call /\ item[i] = [call |-> c, fd |-> NULL] /\ 0 \in 0 .. MaxCalls
  BY SenderFacts
<1>2. /\ f \in Fd /\ f # NULL /\ pool' \in Seq(Fd) /\ Carry(f) = {} /\ Cardinality(Carry(f)) = 0
      /\ \A g \in Fd : /\ Times(pool', g) \in Nat
                       /\ g # f => Times(pool', g) = Times(pool, g)
      /\ Times(pool', f) = 0
  BY TryFdDoes, NotNull
<1>3. new \in WorkItem /\ new # NULL /\ new.fd = f /\ new = [item[i] EXCEPT !.fd = f]
  BY <1>1, <1>2, NotNull DEF WorkItem
<1>4. /\ item' \in [Item -> WorkItem \cup {NULL}] /\ item'[i] = new
      /\ \A j \in Item \ {i} : item'[j] = item[j]
  <2>1. item' = [item EXCEPT ![i] = new]
    BY <1>3 DEF Accept
  <2> HIDE DEF new, i
  <2> QED BY <1>1, <1>3, <2>1 DEF TypeOK
<1>5. base \in Connection
  BY <1>2 DEF NewConn, Connection, TypeOK
<1>6. Asked(base, c) \in Connection /\ Asked(base, c) # NULL
  <2> HIDE DEF base, c
  <2> QED BY <1>1, <1>5, AskedType
<1>7. /\ conn' \in [Fd -> Connection \cup {NULL}] /\ conn'[f] = Asked(base, c)
      /\ \A g \in Fd \ {f} : conn'[g] = conn[g]
  <2>1. conn' = [conn EXCEPT ![f] = Asked(base, c)]
    OBVIOUS
  <2> HIDE DEF base, c
  <2> QED BY <1>2, <1>6, <2>1 DEF TypeOK
<1> HIDE DEF new, base
<1>8. q \in Seq(Item \cup {SHUT}) /\ q' = Append(q, i)
  BY DEF TypeOK, Accept
<1>9. /\ q' \in Seq(Item \cup {SHUT})
      /\ \A j \in Item : Queued(j)' = Queued(j) + (IF i = j THEN 1 ELSE 0)
      /\ \A j : j \in ToSet(q') <=> j = i \/ j \in ToSet(q)
  <2> HIDE DEF i
  <2>1. q' \in Seq(Item \cup {SHUT})
    BY <1>1, <1>8
  <2>2. ASSUME NEW j PROVE Times(q', j) = Times(q, j) + (IF i = j THEN 1 ELSE 0)
    <3> DEFINE T == Item \cup {SHUT}
    <3>1. i \in T /\ q \in Seq(T)
      BY <1>1, <1>8
    <3> HIDE DEF T
    <3> QED BY <1>8, <3>1, TimesAppend
  <2>3. ASSUME NEW j PROVE j \in ToSet(q') <=> j = i \/ j \in ToSet(q)
    <3>1. /\ Times(q', j) \in Nat /\ (Times(q', j) > 0 <=> j \in ToSet(q'))
          /\ Times(q, j) \in Nat /\ (Times(q, j) > 0 <=> j \in ToSet(q))
      BY <1>8, <2>1, TimesNat
    <3> QED BY <2>2, <3>1
  <2> QED BY <2>1, <2>2, <2>3 DEF Queued
<1>10. UpdS(s, "idle", 0, NULL) /\ Answer(c, "ACCEPTED")
  BY DEF Accept
<1>11. /\ sx' \in [Sender -> SenderRecord]
       /\ sx'[s].pc = "idle" /\ sx'[s].call = 0 /\ sx'[s].item = NULL
       /\ \A r \in Sender \ {s} : sx'[r] = sx[r]
       /\ \A j \in Item : WithSender(j)' = WithSender(j)
                              - (IF i = j THEN 1 ELSE 0) + (IF NULL = j THEN 1 ELSE 0)
  BY <1>1, <1>10, SenderStep
<1>12. answer' \in [Call -> Seq(Reports)]
  BY <1>1, <1>10, Answers DEF Reports
<1>13. Senders(i) # {} /\ Receivers(i) = {} /\ i \notin ToSet(q) \cup ToSet(freepool) \cup lost
  <2>1. s \in Senders(i)
    BY DEF Senders
  <2> QED BY <1>1, <2>1, OnePlace
<1>22. ASSUME NEW r \in Sender \ {s} PROVE sx[r].item # i
  BY <1>1, OneHolder
<1> HIDE DEF i
<1>14. TypeOK'
  <2>1. refs' \in Nat
    BY DEF TypeOK
  <2> QED BY <1>2, <1>4, <1>7, <1>9, <1>11, <1>12, <2>1 DEF TypeOK
<1>15. PlaceOK'
  <2> SUFFICES ASSUME NEW j \in Item
               PROVE  WithSender(j)' + Queued(j)' + WithReceiver(j)' + Recycled(j)' + Gone(j)'
                        = IF item'[j] = NULL THEN 0 ELSE 1
    BY DEF PlaceOK
  <2>1. WithReceiver(j)' = WithReceiver(j) /\ Recycled(j)' = Recycled(j) /\ Gone(j)' = Gone(j)
    BY DEF WithReceiver, Receivers, Recycled, Gone
  <2>2. /\ WithSender(j) + Queued(j) + WithReceiver(j) + Recycled(j) + Gone(j)
             = IF item[j] = NULL THEN 0 ELSE 1
        /\ j # NULL
    BY NotNull DEF PlaceOK
  <2>3. /\ Queued(j) \in Nat /\ WithReceiver(j) \in Nat /\ Recycled(j) \in Nat /\ Gone(j) \in Nat
        /\ WithSender(j) \in Nat
    BY Counts
  <2>4. CASE j = i
    <3>1. WithSender(j)' = WithSender(j) - 1 /\ Queued(j)' = Queued(j) + 1
      <4>1. WithSender(j)' = WithSender(j) - (IF i = j THEN 1 ELSE 0) + (IF NULL = j THEN 1 ELSE 0)
        BY <1>11
      <4>2. Queued(j)' = Queued(j) + (IF i = j THEN 1 ELSE 0)
        BY <1>9
      <4> QED BY <2>2, <2>3, <2>4, <4>1, <4>2
    <3>2. item[j] # NULL /\ item'[j] # NULL
      BY <1>1, <1>3, <1>4, <1>13, <2>4, OnePlace
    <3> QED BY <2>1, <2>2, <2>3, <3>1, <3>2
  <2>5. CASE j # i
    <3>1. WithSender(j)' = WithSender(j) /\ Queued(j)' = Queued(j) /\ item'[j] = item[j]
      <4>1. WithSender(j)' = WithSender(j) - (IF i = j THEN 1 ELSE 0) + (IF NULL = j THEN 1 ELSE 0)
        BY <1>11
      <4>2. Queued(j)' = Queued(j) + (IF i = j THEN 1 ELSE 0)
        BY <1>9
      <4> QED BY <1>4, <2>2, <2>3, <2>5, <4>1, <4>2
    <3> QED BY <2>1, <2>2, <3>1
  <2> QED BY <2>4, <2>5
<1>16. i \notin InFlight /\ InFlight' = InFlight \cup {i}
  <2>1. i \notin InFlight
    BY <1>13 DEF InFlight
  <2>2. i \in InFlight'
    BY <1>1, <1>2, <1>3, <1>4, <1>9 DEF InFlight
  <2>3. ASSUME NEW j \in Item \ {i} PROVE j \in InFlight' <=> j \in InFlight
    <3>1. Receivers(j)' = Receivers(j)
      BY DEF Receivers
    <3> QED BY <1>4, <1>9, <3>1 DEF InFlight
  <2>4. InFlight \subseteq Item /\ InFlight' \subseteq Item
    BY DEF InFlight
  <2> QED BY <2>1, <2>2, <2>3, <2>4
<1>17. FdOK'
  <2>1. ASSUME NEW g \in Fd PROVE Carry(g)' = Carry(g) \cup (IF g = f THEN {i} ELSE {})
    <3>1. ASSUME NEW j \in InFlight PROVE j \in Item \ {i}
      BY <1>16, OnItsWay
    <3>2. ASSUME NEW j \in InFlight PROVE item'[j].fd = item[j].fd
      BY <1>4, <3>1
    <3>3. item'[i].fd = f
      BY <1>3, <1>4
    <3> QED BY <1>16, <3>2, <3>3 DEF Carry
  <2>2. Cardinality(Carry(f)') = 1
    <3>1. Carry(f)' = {i}
      BY <1>2, <2>1
    <3> QED BY <3>1, FS_Singleton
  <2>3. ASSUME NEW g \in Fd \ {f} PROVE Carry(g)' = Carry(g)
    BY <2>1
  <2>4. ASSUME NEW g \in Fd
        PROVE  Times(pool', g) + Cardinality(Carry(g)') = IF conn'[g] = NULL THEN 0 ELSE 1
    <3>1. CASE g = f
      BY <1>2, <1>6, <1>7, <2>2, <3>1
    <3>2. CASE g # f
      BY <1>2, <1>7, <2>3, <3>2 DEF FdOK
    <3> QED BY <3>1, <3>2
  <2>5. refs' = Cardinality(InFlight')
    BY <1>16, Finite, FS_AddElement DEF FdOK
  <2> QED BY <2>4, <2>5 DEF FdOK
<1>18. SendersOK'
  <2> SUFFICES ASSUME NEW r \in Sender
               PROVE  /\ sx'[r].pc = "try" <=> sx'[r].item # NULL
                      /\ sx'[r].pc # "idle" => sx'[r].call \in 1 .. calls'
                      /\ sx'[r].pc = "try" => item'[sx'[r].item]
                                                = [call |-> sx'[r].call, fd |-> NULL]
    BY DEF SendersOK
  <2>1. CASE r = s
    BY <1>11, <2>1
  <2>2. CASE r # s
    <3>1. sx'[r] = sx[r]
      BY <1>11, <2>2
    <3>3. sx[r].pc = "try" => item'[sx[r].item] = item[sx[r].item]
      BY <1>4, <1>22, <2>2, SenderFacts
    <3> QED BY <3>1, <3>3 DEF SendersOK
  <2> QED BY <2>1, <2>2
<1>19. ReceiversOK'
  <2>1. ASSUME NEW t \in Slot, rx[t].item # NULL PROVE rx[t].item \in Item \ {i}
    BY <1>13, <2>1 DEF Receivers, TypeOK, Receiver
  <2> QED BY <1>4, <2>1 DEF ReceiversOK
<1>20. QueueOK'
  <2>1. ASSUME NEW j \in ToSet(q) \ {SHUT} PROVE j \in Item \ {i}
    BY <1>13 DEF ToSet, TypeOK
  <2> QED BY <1>2, <1>3, <1>4, <1>9, <2>1 DEF QueueOK
<1>21. ThreadsOK'
  BY DEF ThreadsOK, Active, Begun
<1> QED BY <1>4, <1>14, <1>15, <1>16, <1>17, <1>18, <1>19, <1>20, <1>21 DEF new, i

\* A try that fails closes the connection it took from the pool or opened.
LEMMA RetryFds ==
  ASSUME IInv, FlightKept, UNCHANGED refs,
         \/ UNCHANGED <<pool, conn>>
         \/ \E f \in TryFd : pool' = PoolTaken /\ conn' = Closed(f)
  PROVE  FdOK' /\ pool' \in Seq(Fd) /\ conn' \in [Fd -> Connection \cup {NULL}]
<1> USE DEF IInv, Shape
<1>1. CASE UNCHANGED <<pool, conn>>
  BY <1>1, KeepFds DEF TypeOK
<1>2. ASSUME NEW f \in TryFd, pool' = PoolTaken, conn' = Closed(f)
      PROVE  FdOK' /\ pool' \in Seq(Fd) /\ conn' \in [Fd -> Connection \cup {NULL}]
  <2>1. /\ f \in Fd /\ pool' \in Seq(Fd) /\ Cardinality(Carry(f)) = 0
        /\ \A g \in Fd : g # f => Times(pool', g) = Times(pool, g)
        /\ Times(pool', f) = 0
    BY <1>2, TryFdDoes
  <2>2. /\ conn' \in [Fd -> Connection \cup {NULL}] /\ conn'[f] = NULL
        /\ \A g \in Fd \ {f} : conn'[g] = conn[g]
    BY <1>2, <2>1 DEF Closed, TypeOK
  <2>3. ASSUME NEW g \in Fd PROVE Carry(g)' = Carry(g)
    BY DEF Carry, FlightKept
  <2>4. ASSUME NEW g \in Fd
        PROVE  Times(pool', g) + Cardinality(Carry(g)') = IF conn'[g] = NULL THEN 0 ELSE 1
    <3>1. CASE g = f
      BY <2>1, <2>2, <2>3, <3>1
    <3>2. CASE g # f
      BY <2>1, <2>2, <2>3, <3>2 DEF FdOK
    <3> QED BY <3>1, <3>2
  <2>5. refs' = Cardinality(InFlight')
    BY DEF FdOK, FlightKept
  <2> QED BY <2>1, <2>2, <2>4, <2>5 DEF FdOK
<1> QED BY <1>1, <1>2

\* A failed try closes its connection; a call that gives up loses its item.
LEMMA SendRetryStep ==
  ASSUME IInv, NEW s \in Sender, SendRetry(s)
  PROVE  IInv' /\ FlightKept /\ UNCHANGED item
<1> USE DEF IInv, Shape
<1> DEFINE i == sx[s].item
<1>1. /\ sx[s].pc = "try" /\ i \in Item /\ sx[s].call \in Call /\ 0 \in 0 .. MaxCalls
      /\ item[i] = [call |-> sx[s].call, fd |-> NULL]
      /\ UNCHANGED <<rx, main, q, freepool, item, refs, num, count, calls, passed>>
  BY SenderFacts DEF SendRetry
<1>2. CASE sx[s].call \notin passed \cup Oneshot
  <2>1. UNCHANGED <<sx, lost, answer>>
    BY <1>2 DEF SendRetry, Again
  <2>2. ItemsKept /\ q' \in Seq(Item \cup {SHUT})
    BY <1>1, <2>1 DEF ItemsKept, TypeOK
  <2>3. PlaceOK' /\ FlightKept /\ QueueOK'
    BY <2>2, KeepItems
  <2>4. FdOK' /\ pool' \in Seq(Fd) /\ conn' \in [Fd -> Connection \cup {NULL}]
    BY <1>1, <2>3, RetryFds DEF SendRetry
  <2>5. TypeOK'
    BY <1>1, <2>1, <2>4 DEF TypeOK
  <2>6. SendersOK' /\ ReceiversOK' /\ ThreadsOK'
    BY <1>1, <2>1 DEF SendersOK, ReceiversOK, ThreadsOK, Active, Begun
  <2> QED BY <1>1, <2>3, <2>4, <2>5, <2>6
<1>3. CASE ~ (sx[s].call \notin passed \cup Oneshot)
  <2>1. UpdS(s, "idle", 0, NULL) /\ lost' = lost \cup {i} /\ Answer(sx[s].call, "TIMEOUT")
    BY <1>3 DEF SendRetry, Again
  <2>2. /\ sx' \in [Sender -> SenderRecord]
        /\ sx'[s].pc = "idle" /\ sx'[s].call = 0 /\ sx'[s].item = NULL
        /\ \A r \in Sender \ {s} : sx'[r] = sx[r]
        /\ \A j \in Item : WithSender(j)' = WithSender(j)
                               - (IF i = j THEN 1 ELSE 0) + (IF NULL = j THEN 1 ELSE 0)
    BY <1>1, <2>1, SenderStep
  <2>3. answer' \in [Call -> Seq(Reports)]
    BY <1>1, <2>1, Answers DEF Reports
  <2>4. Senders(i) # {} /\ Receivers(i) = {} /\ i \notin ToSet(q) \cup ToSet(freepool) \cup lost
        /\ item[i] # NULL
    <3>1. s \in Senders(i)
      BY DEF Senders
    <3> QED BY <1>1, <3>1, OnePlace
  <2>5. item[i].fd = NULL
    BY <1>1
  <2> HIDE DEF i
  <2>6. PlaceOK'
    <3> SUFFICES ASSUME NEW j \in Item
                 PROVE  WithSender(j)' + Queued(j)' + WithReceiver(j)' + Recycled(j)' + Gone(j)'
                          = IF item'[j] = NULL THEN 0 ELSE 1
      BY DEF PlaceOK
    <3>1. /\ WithReceiver(j)' = WithReceiver(j) /\ Recycled(j)' = Recycled(j)
          /\ Queued(j)' = Queued(j)
      BY <1>1 DEF WithReceiver, Receivers, Recycled, Queued
    <3>2. /\ WithSender(j) + Queued(j) + WithReceiver(j) + Recycled(j) + Gone(j)
               = IF item[j] = NULL THEN 0 ELSE 1
          /\ j # NULL
      BY NotNull DEF PlaceOK
    <3>3. /\ Queued(j) \in Nat /\ WithReceiver(j) \in Nat /\ Recycled(j) \in Nat /\ Gone(j) \in Nat
          /\ WithSender(j) \in Nat
      BY Counts
    <3>4. {j} \cap lost' = IF j = i \/ j \in lost THEN {j} ELSE {}
      BY <2>1
    <3>5. Gone(j)' = IF j = i \/ j \in lost THEN 1 ELSE 0
      BY <3>4, FS_Singleton, FS_EmptySet DEF Gone
    <3>6. WithSender(j)' = WithSender(j) - (IF i = j THEN 1 ELSE 0) + (IF NULL = j THEN 1 ELSE 0)
      BY <2>2
    <3>7. CASE j = i
      <4>1. WithSender(j)' = WithSender(j) - 1 /\ Gone(j)' = 1 /\ Gone(j) = 0
        BY <2>4, <3>2, <3>3, <3>5, <3>6, <3>7, Counts
      <4> QED BY <1>1, <3>1, <3>2, <3>3, <4>1
    <3>8. CASE j # i
      <4>1. WithSender(j)' = WithSender(j) /\ Gone(j)' = Gone(j)
        BY <3>2, <3>3, <3>5, <3>6, <3>8, Counts
      <4> QED BY <1>1, <3>1, <3>2, <4>1
    <3> QED BY <3>7, <3>8
  <2>7. FlightKept
    <3>1. ASSUME NEW j \in Item PROVE Receivers(j)' = Receivers(j)
      BY <1>1 DEF Receivers
    <3> QED BY <1>1, <2>1, <2>5, <3>1 DEF FlightKept, InFlight
  <2>8. FdOK' /\ pool' \in Seq(Fd) /\ conn' \in [Fd -> Connection \cup {NULL}]
    BY <1>1, <2>7, RetryFds DEF SendRetry
  <2>9. TypeOK'
    <3>1. lost' \subseteq Item
      BY <1>1, <2>1 DEF TypeOK
    <3> QED BY <1>1, <2>2, <2>3, <2>8, <3>1 DEF TypeOK
  <2>10. SendersOK'
    BY <1>1, <2>2 DEF SendersOK
  <2>11. ReceiversOK' /\ ThreadsOK' /\ QueueOK'
    BY <1>1 DEF ReceiversOK, ThreadsOK, Active, Begun, QueueOK
  <2> QED BY <1>1, <2>6, <2>7, <2>8, <2>9, <2>10, <2>11
<1> QED BY <1>2, <1>3

-----------------------------------------------------------------------------
(* The receivers keep the invariant                                        *)

\* What a receiver with an item has.
LEMMA ReceiverFacts ==
  ASSUME IInv, NEW t \in Slot, rx[t].pc \in Receiving
  PROVE  /\ rx[t] \in Receiver /\ rx[t].item \in Item /\ rx[t].item # NULL
         /\ rx[t].item \in InFlight /\ item[rx[t].item] \in WorkItem
         /\ ItemFd(t) \in Fd /\ ItemCall(t) \in Call
         /\ conn[ItemFd(t)] \in Connection /\ conn[ItemFd(t)] # NULL
         /\ In(t) \in Seq(Piece) /\ Carry(ItemFd(t)) = {rx[t].item}
         /\ rx[t].item \notin ToSet(q) \cup ToSet(freepool) \cup lost
         /\ \A u \in Slot \ {t} : rx[u].item # rx[t].item
<1> USE DEF IInv, Shape
<1> DEFINE i == rx[t].item
<1>1. rx[t] \in Receiver /\ i # NULL /\ i \in Item
  BY DEF TypeOK, Receiver, ReceiversOK
<1>2. i \in InFlight /\ item[i] \in WorkItem /\ item[i].fd \in Fd
  BY <1>1, OnItsWay
<1>3. item[i].call \in Call
  BY <1>2 DEF WorkItem
<1>4. conn[item[i].fd] # NULL /\ conn[item[i].fd] \in Connection
  BY <1>2, OneCarrier DEF TypeOK
<1>5. conn[item[i].fd].in \in Seq(Piece)
  BY <1>4 DEF Connection
<1>6. Carry(item[i].fd) = {i}
  BY <1>2, OneCarrier DEF Carry
<1>7. i \notin ToSet(q) \cup ToSet(freepool) \cup lost
  BY <1>1, OnePlace DEF Receivers
<1>8. \A u \in Slot \ {t} : rx[u].item # rx[t].item
  BY <1>1, OneHolder
<1> QED BY <1>1, <1>2, <1>3, <1>4, <1>5, <1>6, <1>7, <1>8 DEF ItemFd, ItemCall, In

\* A step of a receiver that changes no item's place.
LEMMA QuietReceiver ==
  ASSUME IInv, NEW t \in Slot, NEW r \in Receiver, UpdR(t, r), r.item = rx[t].item,
         r.pc \in Receiving <=> r.item # NULL, r.pc = "body" => r.msg \in Header,
         rx[t].pc # "none", r.pc \notin {"none", "start"},
         \/ rx[t].pc = "start" /\ r.pc = "pop" /\ count' = count + 1
         \/ rx[t].pc \in {"pop", "header", "body"} /\ r.pc \in {"pop", "header", "body"}
              /\ count' = count
         \/ rx[t].pc \in {"pop", "header", "body"} /\ r.pc \notin {"pop", "header", "body"}
              /\ count' \in {count - 1, count},
         conn' \in [Fd -> Connection \cup {NULL}],
         \A f \in Fd : conn'[f] = NULL <=> conn[f] = NULL,
         q' \in Seq(Item \cup {SHUT}),
         \A i \in Item : Times(q', i) = Times(q, i) /\ (i \in ToSet(q') <=> i \in ToSet(q)),
         UNCHANGED <<sx, main, freepool, item, lost, pool, refs, num, calls, passed, answer>>
  PROVE  IInv' /\ FlightKept
<1> USE DEF IInv, Shape
<1>1. rx' \in [Slot -> Receiver] /\ rx'[t] = r /\ \A u \in Slot \ {t} : rx'[u] = rx[u]
  BY ReceiverStep
<1>2. ItemsKept
  BY <1>1 DEF ItemsKept
<1>3. PlaceOK' /\ FlightKept /\ QueueOK'
  BY <1>2, KeepItems
<1>4. FdOK'
  BY <1>3, KeepFds
<1>5. ThreadsOK' /\ count' \in 0 .. MaxThreads
  BY ThreadMoves
<1>6. TypeOK'
  BY <1>1, <1>5 DEF TypeOK
<1>7. SendersOK'
  BY DEF SendersOK
<1>8. ReceiversOK'
  BY <1>1 DEF ReceiversOK
<1> QED BY <1>3, <1>4, <1>5, <1>6, <1>7, <1>8

\* A receiver thread begins and counts itself.
LEMMA ReceiverStartStep ==
  ASSUME IInv, NEW t \in Slot, ReceiverStart(t)
  PROVE  IInv' /\ FlightKept
<1> DEFINE r == [rx[t] EXCEPT !.pc = "pop", !.id = count + 1]
<1>1. rx[t] \in Receiver /\ rx[t].pc = "start" /\ count \in Nat
  BY DEF IInv, Shape, TypeOK, ReceiverStart
<1>2. r \in Receiver /\ r.pc = "pop" /\ r.item = rx[t].item
  <2>1. ASSUME NEW n \in Nat
        PROVE  /\ [rx[t] EXCEPT !.pc = "pop", !.id = n] \in Receiver
               /\ [rx[t] EXCEPT !.pc = "pop", !.id = n].pc = "pop"
               /\ [rx[t] EXCEPT !.pc = "pop", !.id = n].item = rx[t].item
    BY <1>1 DEF Receiver
  <2>2. count + 1 \in Nat
    BY <1>1
  <2> QED BY <2>1, <2>2
<1>6. UpdR(t, r)
  BY DEF ReceiverStart
<1>3. rx[t].item = NULL
  BY <1>1 DEF IInv, Shape, ReceiversOK, Receiving
<1>4. /\ count' = count + 1 /\ q' = q /\ conn' = conn
      /\ UNCHANGED <<sx, main, freepool, item, lost, pool, refs, num, calls, passed, answer>>
  BY DEF ReceiverStart
<1>5. q' \in Seq(Item \cup {SHUT}) /\ conn' \in [Fd -> Connection \cup {NULL}]
  BY <1>4 DEF IInv, Shape, TypeOK
<1> HIDE DEF r
<1> QED BY <1>1, <1>2, <1>3, <1>4, <1>5, <1>6, QuietReceiver DEF Receiving

\* A receiver takes an item off the queue, or the shutdown message, and leaves.
LEMMA ReceiverPopStep ==
  ASSUME IInv, NEW t \in Slot, ReceiverPop(t)
  PROVE  IInv' /\ FlightKept
<1> USE DEF IInv, Shape
<1> DEFINE i == Head(q)
           T == Item \cup {SHUT}
<1>1. /\ rx[t] \in Receiver /\ rx[t].pc = "pop" /\ rx[t].item = NULL /\ q # <<>>
      /\ q \in Seq(T) /\ q' = Tail(q)
      /\ UNCHANGED <<sx, main, freepool, item, lost, pool, conn, refs, num, count, calls,
                     passed, answer>>
  BY DEF TypeOK, ReceiverPop, ReceiversOK, Receiving
<1>2. /\ q' \in Seq(T) /\ i \in T /\ i \in ToSet(q)
      /\ \A j : Times(q', j) = Times(q, j) - (IF i = j THEN 1 ELSE 0)
  <2> HIDE DEF T, i
  <2> QED BY <1>1, TimesTail DEF i
<1>3. ASSUME NEW j
      PROVE  /\ Times(q', j) \in Nat /\ (Times(q', j) > 0 <=> j \in ToSet(q'))
             /\ Times(q, j) \in Nat /\ (Times(q, j) > 0 <=> j \in ToSet(q))
  <2> HIDE DEF T
  <2> QED BY <1>1, <1>2, TimesNat
<1>4. CASE i = SHUT
  <2> DEFINE r == [rx[t] EXCEPT !.pc = "exited"]
  <2>1. UpdR(t, r) /\ r \in Receiver /\ r.pc = "exited" /\ r.item = rx[t].item
    BY <1>1, <1>4 DEF ReceiverPop, Receiver
  <2>2. \A j \in Item : Times(q', j) = Times(q, j) /\ (j \in ToSet(q') <=> j \in ToSet(q))
    <3> SUFFICES ASSUME NEW j \in Item
                 PROVE  Times(q', j) = Times(q, j) /\ (j \in ToSet(q') <=> j \in ToSet(q))
      OBVIOUS
    <3>1. i # j
      BY <1>4, NotNull
    <3>2. Times(q', j) = Times(q, j) - (IF i = j THEN 1 ELSE 0)
      BY <1>2
    <3> HIDE DEF i
    <3> QED BY <1>3, <3>1, <3>2
  <2>3. conn' \in [Fd -> Connection \cup {NULL}] /\ count \in Nat
    BY <1>1 DEF TypeOK
  <2> HIDE DEF r
  <2> QED BY <1>1, <1>2, <2>1, <2>2, <2>3, QuietReceiver DEF Receiving
<1>5. CASE i # SHUT
  <2> DEFINE r == [rx[t] EXCEPT !.pc = "header", !.item = i]
  <2>1. i \in Item
    BY <1>2, <1>5
  <2>2. UpdR(t, r) /\ r \in Receiver /\ r.pc = "header" /\ r.item = i
    BY <1>1, <1>5, <2>1 DEF ReceiverPop, Receiver
  <2>3. item[i] # NULL /\ item[i].fd # NULL /\ i \in InFlight /\ Receivers(i) = {}
        /\ i \notin ToSet(freepool) \cup lost
    BY <1>2, <1>5, <2>1, OnePlace, OnItsWay DEF QueueOK
  <2> HIDE DEF r
  <2>4. /\ rx' \in [Slot -> Receiver] /\ rx'[t] = r
        /\ \A u \in Slot \ {t} : rx'[u] = rx[u]
        /\ \A j \in Item : WithReceiver(j)' = WithReceiver(j)
                               - (IF rx[t].item = j THEN 1 ELSE 0) + (IF i = j THEN 1 ELSE 0)
    BY <2>2, ReceiverStep
  <2>5. ThreadsOK' /\ count' \in 0 .. MaxThreads
    BY <1>1, <2>2, ThreadMoves
  <2> HIDE DEF i
  <2>6. PlaceOK' /\ i \notin ToSet(q')
    <3>1. ASSUME NEW j \in Item
          PROVE  /\ WithSender(j)' + Queued(j)' + WithReceiver(j)' + Recycled(j)' + Gone(j)'
                      = IF item'[j] = NULL THEN 0 ELSE 1
                 /\ j = i => Queued(j)' = 0
      <4>1. /\ WithSender(j)' = WithSender(j) /\ Recycled(j)' = Recycled(j)
            /\ Gone(j)' = Gone(j)
        BY <1>1 DEF WithSender, Senders, Recycled, Gone
      <4>2. /\ WithSender(j) + Queued(j) + WithReceiver(j) + Recycled(j) + Gone(j)
                 = IF item[j] = NULL THEN 0 ELSE 1
            /\ j # NULL
        BY NotNull DEF PlaceOK
      <4>3. /\ Queued(j) \in Nat /\ WithReceiver(j) \in Nat /\ Recycled(j) \in Nat /\ Gone(j) \in Nat
            /\ WithSender(j) \in Nat
        BY Counts
      <4>4. /\ WithReceiver(j)' = WithReceiver(j) - (IF rx[t].item = j THEN 1 ELSE 0)
                                                  + (IF i = j THEN 1 ELSE 0)
            /\ rx[t].item # j
        BY <1>1, <2>4, <4>2
      <4>5. Queued(j)' = Queued(j) - (IF i = j THEN 1 ELSE 0)
        BY <1>2 DEF Queued
      <4>6. CASE j = i
        <5>1. WithReceiver(j)' = WithReceiver(j) + 1 /\ Queued(j)' = Queued(j) - 1
          BY <4>3, <4>4, <4>5, <4>6
        <5>2. Queued(j) > 0
          BY <1>2, <1>3, <4>6 DEF Queued
        <5> QED BY <1>1, <4>1, <4>2, <4>3, <5>1, <5>2
      <4>7. CASE j # i
        <5>1. WithReceiver(j)' = WithReceiver(j) /\ Queued(j)' = Queued(j)
          BY <4>3, <4>4, <4>5, <4>7
        <5> QED BY <1>1, <4>1, <4>2, <4>7, <5>1
      <4> QED BY <4>6, <4>7
    <3>2. i \notin ToSet(q')
      BY <1>3, <2>1, <3>1 DEF Queued
    <3> QED BY <3>1, <3>2 DEF PlaceOK
  <2>7. \A j \in Item \ {i} : j \in ToSet(q') <=> j \in ToSet(q)
    BY <1>2, <1>3
  <2>8. FlightKept
    <3>2. ASSUME NEW j \in Item, j = i PROVE j \in InFlight' /\ j \in InFlight
      <4>1. t \in Receivers(j)'
        BY <2>2, <2>4, <3>2 DEF Receivers
      <4> QED BY <1>1, <2>3, <3>2, <4>1 DEF InFlight
    <3>3. ASSUME NEW j \in Item \ {i} PROVE j \in InFlight' <=> j \in InFlight
      <4>1. rx[t].item # j /\ rx'[t].item # j
        BY <1>1, <2>2, <2>4, NotNull
      <4>2. Receivers(j)' = Receivers(j)
        BY <2>4, <4>1 DEF Receivers
      <4> QED BY <1>1, <2>7, <4>2 DEF InFlight
    <3>4. InFlight \subseteq Item /\ InFlight' \subseteq Item
      BY DEF InFlight
    <3> QED BY <1>1, <3>2, <3>3, <3>4 DEF FlightKept
  <2>9. FdOK'
    BY <1>1, <2>8, KeepFds
  <2>10. TypeOK'
    BY <1>1, <1>2, <2>4, <2>5 DEF TypeOK
  <2>11. SendersOK'
    BY <1>1 DEF SendersOK
  <2>12. ReceiversOK'
    <3>1. i # NULL
      BY <2>1, NotNull
    <3> QED BY <1>1, <2>2, <2>3, <2>4, <3>1 DEF ReceiversOK, Receiving
  <2>13. QueueOK'
    <3>1. ASSUME NEW j \in ToSet(q') \ {SHUT} PROVE j \in ToSet(q) \ {SHUT}
      <4>1. j \in Item
        BY <1>2 DEF ToSet
      <4> QED BY <2>6, <2>7, <4>1
    <3> QED BY <1>1, <3>1 DEF QueueOK
  <2> QED BY <2>5, <2>6, <2>8, <2>9, <2>10, <2>11, <2>12, <2>13
<1> QED BY <1>4, <1>5

\* What is read is taken from the connection of the receiver's item.
LEMMA ConsumedDoes ==
  ASSUME IInv, NEW t \in Slot, rx[t].pc \in Receiving, NEW k \in 0 .. Len(In(t)),
         conn' = Consumed(t, k)
  PROVE  /\ conn' \in [Fd -> Connection \cup {NULL}]
         /\ conn'[ItemFd(t)].in = SubSeq(In(t), k + 1, Len(In(t)))
         /\ conn'[ItemFd(t)].due = conn[ItemFd(t)].due
         /\ conn'[ItemFd(t)].torn = conn[ItemFd(t)].torn
         /\ \A f \in Fd : conn'[f] = NULL <=> conn[f] = NULL
         /\ \A f \in Fd \ {ItemFd(t)} : conn'[f] = conn[f]
<1> DEFINE f == ItemFd(t)
           s == SubSeq(In(t), k + 1, Len(In(t)))
           new == [conn[f] EXCEPT !.in = s]
<1>1. f \in Fd /\ conn[f] \in Connection /\ conn[f] # NULL /\ In(t) \in Seq(Piece)
  BY ReceiverFacts
<1>2. s \in Seq(Piece)
  <2>1. k + 1 \in Int /\ Len(In(t)) \in Int /\ \A n \in (k + 1) .. Len(In(t)) : In(t)[n] \in Piece
    BY <1>1
  <2> QED BY <2>1, SubSeqProperties
<1>3. conn' = [conn EXCEPT ![f] = new]
  BY DEF Consumed
<1> HIDE DEF f, s
<1>4. new \in Connection /\ new.in = s /\ new.due = conn[f].due /\ new.torn = conn[f].torn
  BY <1>1, <1>2 DEF Connection
<1>5. new # NULL
  BY <1>4, NotNull
<1> HIDE DEF new
<1>6. conn \in [Fd -> Connection \cup {NULL}]
  BY DEF IInv, Shape, TypeOK
<1>7. conn'[f] = new /\ \A g \in Fd \ {f} : conn'[g] = conn[g]
  BY <1>1, <1>3, <1>6
<1>8. conn' \in [Fd -> Connection \cup {NULL}]
  BY <1>1, <1>3, <1>4, <1>6
<1> QED BY <1>1, <1>4, <1>5, <1>7, <1>8 DEF f, s

\* A connection that is closed.
LEMMA ClosedDoes ==
  ASSUME IInv, NEW f \in Fd, conn' = Closed(f)
  PROVE  /\ conn' \in [Fd -> Connection \cup {NULL}] /\ conn'[f] = NULL
         /\ \A g \in Fd \ {f} : conn'[g] = conn[g]
  BY DEF Closed, IInv, Shape, TypeOK

\* A receiver's item ends its way.
Ends(t) ==
    /\ rx[t].item \in InFlight /\ InFlight' = InFlight \ {rx[t].item} /\ UNCHANGED item
    /\ rx'[t].item = NULL /\ rx'[t].pc \notin Receiving
    /\ \A u \in Slot \ {t} : rx'[u] = rx[u]

\* The end of a receiver's work on an item: the item goes to the free pool, its
\* connection is closed or goes to the pool.
LEMMA RecycleStep ==
  ASSUME IInv, NEW t \in Slot, rx[t].pc \in Receiving,
         NEW buf \in {"stack", "heap", "null", "freed"}, Recycle(t, buf),
         answer' \in [Call -> Seq(Reports)], conn' \in [Fd -> Connection \cup {NULL}],
         \/ conn' = Closed(ItemFd(t)) /\ UNCHANGED pool
         \/ /\ pool' = Append(pool, ItemFd(t))
            /\ \A f \in Fd : conn'[f] = NULL <=> conn[f] = NULL
  PROVE  IInv' /\ Ends(t)
<1> USE DEF IInv, Shape
<1> DEFINE i == rx[t].item
           d == ItemFd(t)
           r == [pc |-> IF buf = "freed" THEN "undefined"
                        ELSE IF Leaves(t, buf) THEN "exited" ELSE "pop",
                 id |-> rx[t].id, item |-> NULL, msg |-> NULL,
                 buf |-> IF buf = "heap" THEN "freed" ELSE buf]
<1>1. /\ rx[t] \in Receiver /\ i \in Item /\ i # NULL /\ i \in InFlight
      /\ d \in Fd /\ conn[d] # NULL /\ Carry(d) = {i} /\ item[i] \in WorkItem /\ d = item[i].fd
      /\ i \notin ToSet(q) \cup ToSet(freepool) \cup lost
      /\ \A u \in Slot \ {t} : rx[u].item # i
  BY ReceiverFacts DEF ItemFd
<1>2. /\ r \in Receiver /\ r.item = NULL /\ r.pc \in {"undefined", "exited", "pop"}
      /\ r.pc = "pop" => ~ Leaves(t, buf)
  <2>1. rx[t].id \in Nat
    BY <1>1 DEF Receiver
  <2> QED BY <2>1 DEF Receiver
<1>3. /\ UpdR(t, r) /\ refs' = refs - 1 /\ freepool' = Append(freepool, i)
      /\ count' = IF Leaves(t, buf) THEN count - 1 ELSE count
      /\ UNCHANGED <<sx, main, q, item, lost, num, calls, passed>>
  BY DEF Recycle
<1> HIDE DEF r
<1>4. /\ rx' \in [Slot -> Receiver] /\ rx'[t] = r
      /\ \A u \in Slot \ {t} : rx'[u] = rx[u]
      /\ \A j \in Item : WithReceiver(j)' = WithReceiver(j)
                             - (IF i = j THEN 1 ELSE 0) + (IF NULL = j THEN 1 ELSE 0)
  BY <1>2, <1>3, ReceiverStep
<1>5. ThreadsOK' /\ count' \in 0 .. MaxThreads
  <2>1. count' \in {count - 1, count} /\ (r.pc = "pop" => count' = count)
    BY <1>2, <1>3
  <2>2. rx[t].pc \in {"pop", "header", "body"} /\ rx[t].pc # "none" /\ UNCHANGED <<main, num>>
    BY <1>3 DEF Receiving
  <2> QED BY <1>2, <1>3, <2>1, <2>2, ThreadMoves
<1>6. freepool \in Seq(Item) /\ pool \in Seq(Fd)
  BY DEF TypeOK
<1> HIDE DEF i, d
<1>7. /\ freepool' \in Seq(Item)
      /\ \A j \in Item : Recycled(j)' = Recycled(j) + (IF i = j THEN 1 ELSE 0)
  BY <1>1, <1>3, <1>6, TimesAppend DEF Recycled
<1>8. PlaceOK'
  <2> SUFFICES ASSUME NEW j \in Item
               PROVE  WithSender(j)' + Queued(j)' + WithReceiver(j)' + Recycled(j)' + Gone(j)'
                        = IF item'[j] = NULL THEN 0 ELSE 1
    BY DEF PlaceOK
  <2>1. WithSender(j)' = WithSender(j) /\ Queued(j)' = Queued(j) /\ Gone(j)' = Gone(j)
    BY <1>3 DEF WithSender, Senders, Queued, Gone
  <2>2. /\ WithSender(j) + Queued(j) + WithReceiver(j) + Recycled(j) + Gone(j)
             = IF item[j] = NULL THEN 0 ELSE 1
        /\ j # NULL
    BY NotNull DEF PlaceOK
  <2>3. /\ Queued(j) \in Nat /\ WithReceiver(j) \in Nat /\ Recycled(j) \in Nat /\ Gone(j) \in Nat
        /\ WithSender(j) \in Nat
    BY Counts
  <2>4. WithReceiver(j)' = WithReceiver(j) - (IF i = j THEN 1 ELSE 0) + (IF NULL = j THEN 1 ELSE 0)
    BY <1>4
  <2>5. Recycled(j)' = Recycled(j) + (IF i = j THEN 1 ELSE 0)
    BY <1>7
  <2>6. CASE j = i
    <3>1. WithReceiver(j)' = WithReceiver(j) - 1 /\ Recycled(j)' = Recycled(j) + 1
      BY <2>2, <2>3, <2>4, <2>5, <2>6
    <3> QED BY <1>3, <2>1, <2>2, <2>3, <3>1
  <2>7. CASE j # i
    <3>1. WithReceiver(j)' = WithReceiver(j) /\ Recycled(j)' = Recycled(j)
      BY <2>2, <2>3, <2>4, <2>5, <2>7
    <3> QED BY <1>3, <2>1, <2>2, <3>1
  <2> QED BY <2>6, <2>7
<1>9. InFlight' = InFlight \ {i}
  <2>1. i \notin InFlight'
    <3>1. ASSUME NEW j \in Item, j = i PROVE j \notin InFlight'
      <4>1. Receivers(j)' = {}
        BY <1>1, <1>2, <1>4, <3>1 DEF Receivers
      <4> QED BY <1>1, <1>3, <3>1, <4>1 DEF InFlight
    <3> QED BY <1>1, <3>1
  <2>2. ASSUME NEW j \in Item, j # i PROVE j \in InFlight' <=> j \in InFlight
    <3>1. Receivers(j)' = Receivers(j)
      <4>1. rx[t].item # j /\ rx'[t].item # j
        BY <1>2, <1>4, <2>2, NotNull DEF i
      <4> QED BY <1>4, <4>1 DEF Receivers
    <3> QED BY <1>3, <3>1 DEF InFlight
  <2>3. InFlight \subseteq Item /\ InFlight' \subseteq Item
    BY DEF InFlight
  <2> QED BY <2>1, <2>2, <2>3
<1>10. ASSUME NEW g \in Fd PROVE Carry(g)' = IF g = d THEN {} ELSE Carry(g)
  <2>1. CASE g = d
    <3>1. ASSUME NEW j \in Carry(g)' PROVE j \in Carry(g) \ {i}
      BY <1>3, <1>9 DEF Carry
    <3> QED BY <1>1, <2>1, <3>1
  <2>2. CASE g # d
    BY <1>1, <1>3, <1>9, <2>2 DEF Carry
  <2> QED BY <2>1, <2>2
<1>11. FdOK'
  <2>1. ASSUME NEW g \in Fd
        PROVE  Times(pool, g) + Cardinality(Carry(g)) = IF conn[g] = NULL THEN 0 ELSE 1
    BY DEF FdOK
  <2>2. ASSUME NEW g \in Fd
        PROVE  Cardinality(Carry(g)') = IF g = d THEN 0 ELSE Cardinality(Carry(g))
    BY <1>10, FS_EmptySet
  <2>3. Times(pool, d) = 0
    <3>1. Cardinality(Carry(d)) = 1 /\ Times(pool, d) \in Nat
      BY <1>1, FdCounts, FS_Singleton
    <3>2. Times(pool, d) + Cardinality(Carry(d)) = 1
      BY <1>1, <2>1
    <3> QED BY <3>1, <3>2
  <2>4. ASSUME NEW g \in Fd
        PROVE  Times(pool', g) + Cardinality(Carry(g)') = IF conn'[g] = NULL THEN 0 ELSE 1
    <3>1. Times(pool, g) \in Nat /\ Cardinality(Carry(g)) \in Nat
      BY FdCounts
    <3>2. CASE conn' = Closed(d) /\ UNCHANGED pool
      <4>1. conn'[d] = NULL /\ \A e \in Fd \ {d} : conn'[e] = conn[e]
        BY <1>1, <3>2, ClosedDoes
      <4> QED BY <2>1, <2>2, <2>3, <3>2, <4>1
    <3>3. CASE /\ pool' = Append(pool, d)
               /\ \A f \in Fd : conn'[f] = NULL <=> conn[f] = NULL
      <4>1. Times(pool', g) = Times(pool, g) + (IF d = g THEN 1 ELSE 0)
        BY <1>1, <1>6, <3>3, TimesAppend
      <4>2. CASE g = d
        BY <1>1, <2>2, <2>3, <3>3, <4>1, <4>2
      <4>3. CASE g # d
        BY <2>1, <2>2, <3>1, <3>3, <4>1, <4>3
      <4> QED BY <4>2, <4>3
    <3> QED BY <3>2, <3>3 DEF d
  <2>5. refs' = Cardinality(InFlight')
    <3>1. refs = Cardinality(InFlight)
      BY DEF FdOK
    <3> QED BY <1>1, <1>3, <1>9, <3>1, Finite, FS_RemoveElement
  <2> QED BY <2>4, <2>5 DEF FdOK
<1>12. TypeOK'
  <2>1. pool' \in Seq(Fd)
    <3>1. Append(pool, d) \in Seq(Fd)
      BY <1>1, <1>6
    <3>2. pool' = pool \/ pool' = Append(pool, d)
      BY DEF d
    <3> QED BY <1>6, <3>1, <3>2
  <2>2. refs' \in Nat
    <3>1. IsFiniteSet(InFlight')
      BY <1>9, Finite, FS_RemoveElement
    <3> QED BY <1>11, <3>1, FS_CardinalityType DEF FdOK
  <2> QED BY <1>3, <1>4, <1>5, <1>7, <2>1, <2>2 DEF TypeOK
<1>13. SendersOK' /\ QueueOK'
  BY <1>3 DEF SendersOK, QueueOK
<1>14. ReceiversOK'
  BY <1>2, <1>3, <1>4 DEF ReceiversOK, Receiving
<1>15. rx'[t].item = NULL /\ rx'[t].pc \notin Receiving
  BY <1>2, <1>4 DEF Receiving
<1> QED BY <1>1, <1>3, <1>4, <1>5, <1>8, <1>9, <1>11, <1>12, <1>13, <1>14, <1>15 DEF i, Ends

\* A failed item: its connection is closed, it goes to the free pool.
LEMMA FailStep ==
  ASSUME IInv, NEW t \in Slot, rx[t].pc \in Receiving,
         NEW buf \in {"stack", "heap", "null", "freed"}, Fail(t, buf)
  PROVE  IInv' /\ Ends(t)
<1>1. /\ conn' = Closed(ItemFd(t)) /\ UNCHANGED pool /\ Answer(ItemCall(t), "FAIL")
      /\ Recycle(t, buf)
  BY DEF Fail
<1>2. ItemFd(t) \in Fd /\ ItemCall(t) \in Call
  BY ReceiverFacts
<1>3. conn' \in [Fd -> Connection \cup {NULL}]
  BY <1>1, <1>2, ClosedDoes
<1>4. answer' \in [Call -> Seq(Reports)]
  BY <1>1, <1>2, Answers DEF Reports, IInv, Shape
<1> QED BY <1>1, <1>3, <1>4, RecycleStep

\* An answered item: its connection goes to the pool, it to the free pool.
LEMMA SucceedStep ==
  ASSUME IInv, NEW t \in Slot, rx[t].pc \in Receiving,
         NEW buf \in {"stack", "heap", "null", "freed"}, NEW id, NEW k \in 0 .. Len(In(t)),
         Succeed(t, buf, id, k)
  PROVE  IInv' /\ Ends(t)
<1>1. /\ conn' = Consumed(t, k) /\ pool' = Append(pool, ItemFd(t)) /\ Recycle(t, buf)
      /\ UNCHANGED answer \/ Answer(ItemCall(t), Told(t, id))
  BY DEF Succeed
<1>2. ItemCall(t) \in Call /\ Told(t, id) \in Reports
  BY ReceiverFacts DEF Told, Reports
<1>3. /\ conn' \in [Fd -> Connection \cup {NULL}]
      /\ \A f \in Fd : conn'[f] = NULL <=> conn[f] = NULL
  BY <1>1, ConsumedDoes
<1>4. answer' \in [Call -> Seq(Reports)]
  <2>1. answer \in [Call -> Seq(Reports)] /\ TypeOK
    BY DEF IInv, Shape, TypeOK
  <2> QED BY <1>1, <1>2, <2>1, Answers
<1> QED BY <1>1, <1>3, <1>4, RecycleStep

\* A receiver goes on to read the body, having taken what it read of the header.
LEMMA BodyStep ==
  ASSUME IInv, NEW t \in Slot, rx[t].pc = "header", NEW m \in Header,
         NEW k \in 0 .. Len(In(t)), conn' = Consumed(t, k),
         UpdR(t, [rx[t] EXCEPT !.pc = "body", !.msg = m]),
         UNCHANGED <<sx, main, q, freepool, item, lost, pool, refs, num, count, calls, passed,
                     answer>>
  PROVE  IInv' /\ FlightKept
<1> DEFINE r == [rx[t] EXCEPT !.pc = "body", !.msg = m]
<1>1. rx[t] \in Receiver /\ rx[t].item # NULL
  BY ReceiverFacts DEF Receiving
<1>2. r \in Receiver /\ r.pc = "body" /\ r.msg \in Header /\ r.item = rx[t].item
  BY <1>1 DEF Receiver
<1>3. UpdR(t, r)
  OBVIOUS
<1>4. /\ conn' \in [Fd -> Connection \cup {NULL}]
      /\ \A f \in Fd : conn'[f] = NULL <=> conn[f] = NULL
  BY ConsumedDoes DEF Receiving
<1>5. q' \in Seq(Item \cup {SHUT})
  BY DEF IInv, Shape, TypeOK
<1> HIDE DEF r
<1> QED BY <1>1, <1>2, <1>3, <1>4, <1>5, QuietReceiver DEF Receiving

\* A header is read: a body is to come, or the item is done.
LEMMA ReadHeaderStep ==
  ASSUME IInv, NEW t \in Slot, ReadHeader(t)
  PROVE  IInv' /\ ((FlightKept /\ UNCHANGED answer) \/ Ends(t))
<1>1. rx[t].pc = "header" /\ rx[t].pc \in Receiving /\ rx[t] \in Receiver
  BY ReceiverFacts DEF ReadHeader, Receiving
<1>2. In(t) \in Seq(Piece) /\ rx[t].buf \in {"stack", "heap", "null", "freed"}
  BY <1>1, ReceiverFacts DEF Receiver
<1>3. CASE /\ Whole(t) /\ conn' = Consumed(t, 1)
           /\ UpdR(t, [rx[t] EXCEPT !.pc = "body", !.msg = [id |-> In(t)[1].id, body |-> "stack"]])
           /\ UNCHANGED <<sx, main, q, freepool, item, lost, pool, refs, num, count, calls,
                          passed, answer>>
  <2> DEFINE m == [id |-> In(t)[1].id, body |-> "stack"]
  <2>1. 1 \in 0 .. Len(In(t)) /\ 1 \in DOMAIN In(t)
    BY <1>2, <1>3 DEF Whole
  <2>2. In(t)[1].id \in Call
    <3>1. In(t)[1] \in Piece
      BY <1>2, <2>1
    <3> QED BY <3>1 DEF Piece
  <2>3. m \in Header
    BY <2>2, LimitAssumption DEF Header, Call
  <2>4. UpdR(t, [rx[t] EXCEPT !.pc = "body", !.msg = m])
    BY <1>3
  <2> HIDE DEF m
  <2> QED BY <1>1, <1>3, <2>1, <2>3, <2>4, BodyStep
<1>4. ASSUME NEW k \in 0 .. Len(In(t)), NEW g \in Garbage,
             IF g.body = "empty" THEN Succeed(t, rx[t].buf, 0, k)
             ELSE /\ conn' = Consumed(t, k)
                  /\ UpdR(t, [rx[t] EXCEPT !.pc = "body", !.msg = g])
                  /\ UNCHANGED <<sx, main, q, freepool, item, lost, pool, refs,
                                 num, count, calls, passed, answer>>
      PROVE  IInv' /\ ((FlightKept /\ UNCHANGED answer) \/ Ends(t))
  <2>1. CASE g.body = "empty"
    BY <1>1, <1>2, <1>4, <2>1, SucceedStep
  <2>2. CASE g.body # "empty"
    <3>1. g \in Header
      BY <2>2, LimitAssumption DEF Garbage, Header
    <3> QED BY <1>1, <1>4, <2>2, <3>1, BodyStep
  <2> QED BY <2>1, <2>2
<1> QED BY <1>3, <1>4 DEF ReadHeader

\* The body is read, or its read fails: the item is done either way.
LEMMA ReadBodyStep ==
  ASSUME IInv, NEW t \in Slot, ReadBody(t)
  PROVE  IInv' /\ Ends(t)
<1> DEFINE buf == IF rx[t].msg.body = "heap" THEN "heap" ELSE rx[t].buf
<1>1. rx[t].pc \in Receiving /\ rx[t] \in Receiver /\ In(t) \in Seq(Piece)
  BY ReceiverFacts DEF ReadBody, Receiving
<1>2. buf \in {"stack", "heap", "null", "freed"}
  BY <1>1 DEF Receiver
<1>3. \/ /\ In(t) # <<>>
         /\ \E k \in IF rx[t].msg.id # 0 THEN {1} ELSE 0 .. Len(In(t)) :
                Succeed(t, buf, rx[t].msg.id, k)
      \/ Fail(t, buf)
      \/ Fail(t, "null")
  BY DEF ReadBody
<1> HIDE DEF buf
<1>4. ASSUME In(t) # <<>>, NEW k \in IF rx[t].msg.id # 0 THEN {1} ELSE 0 .. Len(In(t)),
             Succeed(t, buf, rx[t].msg.id, k)
      PROVE  IInv' /\ Ends(t)
  <2>1. k \in 0 .. Len(In(t))
    BY <1>1, <1>4
  <2> QED BY <1>1, <1>2, <1>4, <2>1, SucceedStep
<1> QED BY <1>1, <1>2, <1>3, <1>4, FailStep

\* The connection fails under the read of a header: the item is done.
LEMMA HeaderFailsStep ==
  ASSUME IInv, NEW t \in Slot, HeaderFails(t)
  PROVE  IInv' /\ Ends(t)
<1>1. rx[t].pc \in Receiving /\ Fail(t, rx[t].buf)
  BY DEF HeaderFails, Receiving
<1>2. rx[t].buf \in {"stack", "heap", "null", "freed"}
  BY <1>1, ReceiverFacts DEF Receiver
<1> QED BY <1>1, <1>2, FailStep

\* An answer arrives on an open connection.
LEMMA DeliverDoes ==
  ASSUME IInv, NEW f \in Fd, Deliver(f)
  PROVE  /\ conn' \in [Fd -> Connection \cup {NULL}]
         /\ \A g \in Fd : conn'[g] = NULL <=> conn[g] = NULL
         /\ \A g \in Fd \ {f} : conn'[g] = conn[g]
         /\ conn'[f].torn = conn[f].torn /\ conn'[f].due = Tail(conn[f].due)
         /\ conn'[f].in = Append(conn[f].in, Head(conn[f].due))
         /\ conn[f].due # <<>> /\ conn[f] \in Connection
<1> DEFINE new == [conn[f] EXCEPT !.due = Tail(conn[f].due),
                                  !.in = Append(conn[f].in, Head(conn[f].due))]
<1>1. /\ conn \in [Fd -> Connection \cup {NULL}] /\ conn[f] \in Connection
      /\ conn[f].due # <<>> /\ conn' = [conn EXCEPT ![f] = new]
  BY DEF Deliver, IInv, Shape, TypeOK
<1>2. conn[f].due \in Seq(Piece) /\ conn[f].in \in Seq(Piece)
  BY <1>1 DEF Connection
<1>3. Tail(conn[f].due) \in Seq(Piece) /\ Append(conn[f].in, Head(conn[f].due)) \in Seq(Piece)
  BY <1>1, <1>2
<1>4. /\ new \in Connection /\ new.torn = conn[f].torn /\ new.due = Tail(conn[f].due)
      /\ new.in = Append(conn[f].in, Head(conn[f].due))
  BY <1>1, <1>3 DEF Connection
<1>5. new # NULL
  BY <1>4, NotNull
<1> HIDE DEF new
<1>6. conn'[f] = new /\ \A g \in Fd \ {f} : conn'[g] = conn[g]
  BY <1>1
<1>7. conn' \in [Fd -> Connection \cup {NULL}]
  BY <1>1, <1>4
<1>8. \A g \in Fd : conn'[g] = NULL <=> conn[g] = NULL
  BY <1>1, <1>5, <1>6, NotNull
<1> QED BY <1>1, <1>4, <1>6, <1>7, <1>8

\* A piece that arrives changes neither who holds an item nor which connection is open.
LEMMA DeliverStep ==
  ASSUME IInv, NEW f \in Fd, Deliver(f)
  PROVE  IInv' /\ FlightKept
<1> USE DEF IInv, Shape
<1>1. /\ conn' \in [Fd -> Connection \cup {NULL}]
      /\ \A g \in Fd : conn'[g] = NULL <=> conn[g] = NULL
  BY DeliverDoes
<1>2. UNCHANGED <<sx, rx, main, q, freepool, item, lost, pool, refs, num, count, calls, passed,
                  answer>>
  BY DEF Deliver
<1>3. ItemsKept /\ q' \in Seq(Item \cup {SHUT})
  BY <1>2 DEF ItemsKept, TypeOK
<1>4. PlaceOK' /\ FlightKept /\ QueueOK'
  BY <1>3, KeepItems
<1>5. FdOK'
  BY <1>1, <1>2, <1>4, KeepFds
<1>6. TypeOK'
  BY <1>1, <1>2 DEF TypeOK
<1>7. SendersOK' /\ ReceiversOK' /\ ThreadsOK'
  BY <1>2 DEF SendersOK, ReceiversOK, ThreadsOK, Active, Begun
<1> QED BY <1>4, <1>5, <1>6, <1>7

\* A step that changes at most the deadlines.
LEMMA ClockStep ==
  ASSUME IInv, passed' \subseteq Call,
         UNCHANGED <<sx, rx, main, q, freepool, item, lost, pool, conn, refs, num, count, calls,
                     answer>>
  PROVE  IInv' /\ FlightKept
<1> USE DEF IInv, Shape
<1>3. ItemsKept /\ q' \in Seq(Item \cup {SHUT})
  BY DEF ItemsKept, TypeOK
<1>4. PlaceOK' /\ FlightKept /\ QueueOK'
  BY <1>3, KeepItems
<1>5. FdOK'
  BY <1>4, KeepFds
<1>6. TypeOK'
  BY DEF TypeOK
<1>7. SendersOK' /\ ReceiversOK' /\ ThreadsOK'
  BY DEF SendersOK, ReceiversOK, ThreadsOK, Active, Begun
<1> QED BY <1>4, <1>5, <1>6, <1>7

\* The connection of an item whose header did not come whole in time.
LEMMA TornDoes ==
  ASSUME IInv, NEW t \in Slot, rx[t].pc \in Receiving,
         conn' = IF In(t) = <<>> THEN conn ELSE [conn EXCEPT ![ItemFd(t)] = Torn(@)]
  PROVE  /\ conn' \in [Fd -> Connection \cup {NULL}]
         /\ \A f \in Fd : conn'[f] = NULL <=> conn[f] = NULL
         /\ \A f \in Fd \ {ItemFd(t)} : conn'[f] = conn[f]
         /\ conn'[ItemFd(t)] # conn[ItemFd(t)] => conn'[ItemFd(t)].torn
<1> DEFINE f == ItemFd(t)
           new == Torn(conn[f])
<1>1. f \in Fd /\ conn[f] \in Connection /\ conn[f] # NULL
      /\ conn \in [Fd -> Connection \cup {NULL}]
  BY ReceiverFacts DEF IInv, Shape, TypeOK
<1>2. conn' = conn \/ conn' = [conn EXCEPT ![f] = new]
  OBVIOUS
<1> HIDE DEF f
<1>3. new \in Connection
  <2>1. conn[f].due \in Seq(Piece) /\ <<>> \in Seq(Piece) /\ TRUE \in BOOLEAN
    BY <1>1 DEF Connection
  <2> QED BY <2>1 DEF Connection, Torn
<1>4. new.torn
  BY DEF Torn
<1>5. new # NULL
  BY <1>3, NotNull
<1> HIDE DEF new
<1>6. CASE conn' = conn
  BY <1>1, <1>6
<1>7. CASE conn' = [conn EXCEPT ![f] = new]
  <2>1. conn'[f] = new /\ \A g \in Fd \ {f} : conn'[g] = conn[g]
    BY <1>1, <1>7
  <2>2. conn' \in [Fd -> Connection \cup {NULL}]
    BY <1>1, <1>3, <1>7
  <2>3. conn'[f].torn
    BY <1>4, <2>1
  <2>4. \A g \in Fd : conn'[g] = NULL <=> conn[g] = NULL
    BY <1>1, <1>5, <2>1
  <2> QED BY <2>1, <2>2, <2>3, <2>4 DEF f
<1> QED BY <1>2, <1>6, <1>7

\* A timed-out item goes from its receiver back to the queue, or is done.
LEMMA HeaderTimeoutStep ==
  ASSUME IInv, NEW t \in Slot, HeaderTimeout(t)
  PROVE  IInv' /\ ((FlightKept /\ UNCHANGED answer) \/ (~InTime(t) /\ Ends(t)))
<1> USE DEF IInv, Shape
<1> DEFINE i == rx[t].item
           T == Item \cup {SHUT}
           r == [rx[t] EXCEPT !.item = NULL,
                              !.pc = IF rx[t].buf = "freed" THEN "undefined" ELSE "pop"]
<1>1. /\ rx[t].pc = "header" /\ rx[t].pc \in Receiving /\ rx[t] \in Receiver
      /\ i \in Item /\ i # NULL /\ i \in InFlight
      /\ i \notin ToSet(q) \cup ToSet(freepool) \cup lost
      /\ \A u \in Slot \ {t} : rx[u].item # i
      /\ rx[t].buf \in {"stack", "heap", "null", "freed"}
  <2>1. rx[t].pc = "header" /\ rx[t].pc \in Receiving
    BY DEF HeaderTimeout, Receiving
  <2>2. rx[t] \in Receiver
    BY DEF TypeOK
  <2> QED BY <2>1, <2>2, ReceiverFacts DEF Receiver
<1>2. CASE ~ InTime(t)
  <2>1. Fail(t, rx[t].buf)
    BY <1>2 DEF HeaderTimeout
  <2> QED BY <1>1, <1>2, <2>1, FailStep
<1>3. CASE InTime(t)
  <2>1. /\ conn' = IF In(t) = <<>> THEN conn ELSE [conn EXCEPT ![ItemFd(t)] = Torn(@)]
        /\ q' = Append(q, i) /\ UpdR(t, r)
        /\ UNCHANGED <<sx, main, freepool, item, lost, pool, refs, num, count, calls, passed,
                       answer>>
    BY <1>3 DEF HeaderTimeout
  <2>2. /\ conn' \in [Fd -> Connection \cup {NULL}]
        /\ \A f \in Fd : conn'[f] = NULL <=> conn[f] = NULL
    BY <1>1, <2>1, TornDoes
  <2>3. r \in Receiver /\ r.item = NULL /\ r.pc \in {"pop", "undefined"}
    BY <1>1 DEF Receiver
  <2> HIDE DEF r
  <2>4. /\ rx' \in [Slot -> Receiver] /\ rx'[t] = r
        /\ \A u \in Slot \ {t} : rx'[u] = rx[u]
        /\ \A j \in Item : WithReceiver(j)' = WithReceiver(j)
                               - (IF i = j THEN 1 ELSE 0) + (IF NULL = j THEN 1 ELSE 0)
    BY <2>1, <2>3, ReceiverStep
  <2>5. ThreadsOK' /\ count' \in 0 .. MaxThreads
    <3>1. count \in Nat
      BY DEF TypeOK
    <3> QED BY <1>1, <2>1, <2>3, <3>1, ThreadMoves
  <2>6. i \in T /\ q \in Seq(T)
    BY <1>1 DEF TypeOK
  <2> HIDE DEF i, T
  <2>7. /\ q' \in Seq(T)
        /\ \A j : Times(q', j) = Times(q, j) + (IF i = j THEN 1 ELSE 0)
    BY <2>1, <2>6, TimesAppend
  <2>8. ASSUME NEW j PROVE j \in ToSet(q') <=> j = i \/ j \in ToSet(q)
    <3>1. /\ Times(q', j) \in Nat /\ (Times(q', j) > 0 <=> j \in ToSet(q'))
          /\ Times(q, j) \in Nat /\ (Times(q, j) > 0 <=> j \in ToSet(q))
      BY <2>6, <2>7, TimesNat
    <3>2. Times(q', j) = Times(q, j) + (IF i = j THEN 1 ELSE 0)
      BY <2>7
    <3> QED BY <3>1, <3>2
  <2>9. PlaceOK'
    <3> SUFFICES ASSUME NEW j \in Item
                 PROVE  WithSender(j)' + Queued(j)' + WithReceiver(j)' + Recycled(j)' + Gone(j)'
                          = IF item'[j] = NULL THEN 0 ELSE 1
      BY DEF PlaceOK
    <3>1. /\ WithSender(j)' = WithSender(j) /\ Recycled(j)' = Recycled(j) /\ Gone(j)' = Gone(j)
          /\ item'[j] = item[j]
      BY <2>1 DEF WithSender, Senders, Recycled, Gone
    <3>2. /\ WithSender(j) + Queued(j) + WithReceiver(j) + Recycled(j) + Gone(j)
               = IF item[j] = NULL THEN 0 ELSE 1
          /\ j # NULL
      BY NotNull DEF PlaceOK
    <3>3. /\ Queued(j) \in Nat /\ WithReceiver(j) \in Nat /\ Recycled(j) \in Nat /\ Gone(j) \in Nat
          /\ WithSender(j) \in Nat
      BY Counts
    <3>4. WithReceiver(j)' = WithReceiver(j) - (IF i = j THEN 1 ELSE 0)
                                             + (IF NULL = j THEN 1 ELSE 0)
      BY <2>4
    <3>5. Queued(j)' = Queued(j) + (IF i = j THEN 1 ELSE 0)
      BY <2>7 DEF Queued
    <3>6. CASE j = i
      <4>1. WithReceiver(j)' = WithReceiver(j) - 1 /\ Queued(j)' = Queued(j) + 1
        BY <3>2, <3>3, <3>4, <3>5, <3>6
      <4> QED BY <3>1, <3>2, <3>3, <4>1
    <3>7. CASE j # i
      <4>1. WithReceiver(j)' = WithReceiver(j) /\ Queued(j)' = Queued(j)
        BY <3>2, <3>3, <3>4, <3>5, <3>7
      <4> QED BY <3>1, <3>2, <4>1
    <3> QED BY <3>6, <3>7
  <2>10. FlightKept
    <3>1. i \in InFlight'
      BY <1>1, <2>1, <2>8 DEF InFlight
    <3>2. ASSUME NEW j \in Item, j # i PROVE j \in InFlight' <=> j \in InFlight
      <4>1. rx[t].item # j /\ rx'[t].item # j
        BY <2>3, <2>4, <3>2, NotNull DEF i
      <4>2. Receivers(j)' = Receivers(j)
        BY <2>4, <4>1 DEF Receivers
      <4> QED BY <2>1, <2>8, <3>2, <4>2 DEF InFlight
    <3>3. InFlight \subseteq Item /\ InFlight' \subseteq Item
      BY DEF InFlight
    <3>4. InFlight' = InFlight
      BY <1>1, <3>1, <3>2, <3>3
    <3> QED BY <2>1, <3>4 DEF FlightKept
  <2>11. FdOK'
    BY <2>1, <2>2, <2>10, KeepFds
  <2>12. TypeOK'
    BY <2>1, <2>2, <2>4, <2>5, <2>7 DEF TypeOK, T
  <2>13. SendersOK'
    BY <2>1 DEF SendersOK
  <2>14. ReceiversOK'
    BY <2>1, <2>3, <2>4 DEF ReceiversOK, Receiving
  <2>15. QueueOK'
    <3>1. item[i].fd # NULL
      BY <1>1 DEF InFlight
    <3> QED BY <2>1, <2>8, <3>1 DEF QueueOK
  <2> QED BY <2>1, <2>5, <2>9, <2>10, <2>11, <2>12, <2>13, <2>14, <2>15
<1> QED BY <1>2, <1>3

-----------------------------------------------------------------------------
(* The first theorem                                                       *)

\* Every step keeps the invariant.
LEMMA NextInv == IInv /\ [Next]_vars => IInv'
<1> SUFFICES ASSUME IInv, [Next]_vars PROVE IInv'
  OBVIOUS
<1>1. CASE UNCHANGED vars
  <2>1. passed' \subseteq Call
    BY <1>1 DEF vars, IInv, Shape, TypeOK
  <2> QED BY <1>1, <2>1, ClockStep DEF vars
<1>2. ASSUME NEW s \in Sender, SendOk(s) PROVE IInv'
  <2>1. PICK f \in TryFd :
          /\ conn' = [conn EXCEPT ![f] = Asked(IF @ = NULL THEN NewConn ELSE @, sx[s].call)]
          /\ Accept(s, f)
    BY <1>2 DEF SendOk
  <2> QED BY <1>2, <2>1, SendOkStep DEF SendOk
<1>3. ASSUME NEW s \in Sender, SendBegin(s) \/ Send(s) PROVE IInv'
  BY <1>2, <1>3, SendBeginStep, SendItemStep, SendPopStep, SendRetryStep DEF Send
<1>4. ASSUME NEW t \in Slot, Receive(t) PROVE IInv'
  BY <1>4, ReceiverStartStep, ReceiverPopStep, ReadHeaderStep, HeaderFailsStep,
     HeaderTimeoutStep, ReadBodyStep DEF Receive
<1>5. ASSUME NEW c \in Call, DeadlinePasses(c) PROVE IInv'
  <2>1. passed' \subseteq Call
    BY <1>5 DEF DeadlinePasses, IInv, Shape, TypeOK
  <2> QED BY <1>5, <2>1, ClockStep DEF DeadlinePasses
<1>6. ASSUME NEW f \in Fd, Deliver(f) PROVE IInv'
  BY <1>6, DeliverStep
<1>7. ASSUME NEW n \in ReinitThreads, citrusleaf_async_reinit(n) PROVE IInv'
  BY <1>7, ReinitStep
<1> QED
  BY <1>1, <1>3, <1>4, <1>5, <1>6, <1>7, InitStep, ShutdownSendStep, ShutdownJoinStep
  DEF Next, Step

\* The invariant holds in every reachable state.
THEOREM Invariance == Spec => []IInv
  BY InitInv, NextInv, PTL DEF Spec

\* Items, descriptors and node references are accounted for in every reachable
\* state (cl_do_async_monte, async_receiver_fn): no item has two owners, no
\* descriptor is closed twice or left open, and every reference is put once.
THEOREM AccountedHolds == Spec => []Accounted
<1>1. IInv => Accounted
  BY DEF IInv, Shape, PlaceOK, FdOK, Accounted, WithSender, Queued, WithReceiver, Recycled, Gone,
         Carry
<1> QED BY <1>1, Invariance, PTL

-----------------------------------------------------------------------------
(* Who has been told what                                                  *)

\* Nothing was told of a call to come, or of one whose sender is at work; a call
\* whose item is on its way was told that it is accepted, and nothing more.
\* Neither two senders nor two items are about one call.
Untold ==
    /\ \A c \in Call : c > calls => answer[c] = <<>>
    /\ \A s \in Sender : sx[s].pc # "idle" =>
        /\ answer[sx[s].call] = <<>>
        /\ \A r \in Sender \ {s} : sx[r].pc # "idle" => sx[r].call # sx[s].call
OnlyAccepted ==
    \A i \in InFlight :
        /\ answer[item[i].call] = <<"ACCEPTED">>
        /\ \A j \in InFlight \ {i} : item[j].call # item[i].call
Calls == Untold /\ OnlyAccepted /\ AnsweredOnce

\* One more report, to a caller who was told nothing or that the call is accepted.
LEMMA ReportOnce ==
  ASSUME IInv, AnsweredOnce, NEW c \in Call, NEW a \in Reports, Answer(c, a),
         answer[c] = <<>> \/ answer[c] = <<"ACCEPTED">>
  PROVE  AnsweredOnce'
<1>1. answer'[c] = Append(answer[c], a) /\ \A d \in Call \ {c} : answer'[d] = answer[d]
  BY Answers DEF IInv, Shape
<1> SUFFICES ASSUME NEW d \in Call
             PROVE  \/ Len(answer'[d]) <= 1
                    \/ answer'[d][1] = "ACCEPTED" /\ Len(answer'[d]) = 2
  BY DEF AnsweredOnce
<1>2. CASE d # c
  BY <1>1, <1>2 DEF AnsweredOnce
<1>3. CASE d = c /\ answer[c] = <<>>
  <2>1. Len(Append(answer[c], a)) = 1
    BY <1>3
  <2>2. answer'[d] = Append(answer[c], a)
    BY <1>1, <1>3
  <2>3. Len(answer'[d]) = 1
    BY <2>1, <2>2
  <2> QED BY <2>3
<1>4. CASE d = c /\ answer[c] = <<"ACCEPTED">>
  <2>1. Append(answer[c], a)[1] = "ACCEPTED" /\ Len(Append(answer[c], a)) = 2
    BY <1>4
  <2> QED BY <1>1, <1>4, <2>1
<1> QED BY <1>2, <1>3, <1>4

\* The call of a sender at work, and that of an item on its way.
LEMMA CallFacts ==
  ASSUME IInv
  PROVE  /\ \A s \in Sender : sx[s].pc # "idle" => sx[s].call \in Call /\ sx[s].call <= calls
         /\ \A i \in InFlight : item[i].call \in Call
         /\ calls \in 0 .. MaxCalls /\ MaxCalls \in Nat
<1>1. MaxCalls \in Nat /\ calls \in 0 .. MaxCalls
  BY LimitAssumption DEF IInv, Shape, TypeOK
<1>2. ASSUME NEW s \in Sender, sx[s].pc # "idle" PROVE sx[s].call \in Call /\ sx[s].call <= calls
  <2>1. sx[s].call \in 1 .. calls
    BY <1>2 DEF IInv, Shape, SendersOK
  <2> QED BY <1>1, <2>1 DEF Call
<1>3. ASSUME NEW i \in InFlight PROVE item[i].call \in Call
  BY OnItsWay DEF WorkItem
<1> QED BY <1>1, <1>2, <1>3

\* A step that tells nobody anything and begins no call.
LEMMA KeepCalls ==
  ASSUME Calls, FlightKept, UNCHANGED <<answer, calls>>,
         \A s \in Sender : sx'[s].pc # "idle" => sx[s].pc # "idle" /\ sx'[s].call = sx[s].call
  PROVE  Calls'
<1>1. Untold'
  BY DEF Calls, Untold
<1>2. OnlyAccepted'
  BY DEF Calls, OnlyAccepted, FlightKept
<1>3. AnsweredOnce'
  BY DEF Calls, AnsweredOnce
<1> QED BY <1>1, <1>2, <1>3 DEF Calls

\* A sender is done: it tells its caller, and no one else.
LEMMA SenderEnds ==
  ASSUME IInv, Calls, NEW s \in Sender, sx[s].pc # "idle", FlightKept, UNCHANGED calls,
         NEW a \in Reports, Answer(sx[s].call, a),
         sx'[s].pc = "idle", \A r \in Sender \ {s} : sx'[r] = sx[r]
  PROVE  Calls'
<1> DEFINE c == sx[s].call
<1>1. c \in Call /\ c <= calls /\ answer[c] = <<>> /\ calls \in Nat /\ Call \subseteq Nat
  BY CallFacts DEF Calls, Untold, Call
<1>2. /\ answer'[c] = Append(answer[c], a) /\ \A d \in Call \ {c} : answer'[d] = answer[d]
  BY <1>1, Answers DEF IInv, Shape
<1>3. AnsweredOnce'
  BY <1>1, ReportOnce DEF Calls
<1>4. Untold'
  <2>1. ASSUME NEW d \in Call, d > calls PROVE answer'[d] = <<>>
    BY <1>1, <1>2, <2>1 DEF Calls, Untold
  <2>2. ASSUME NEW r \in Sender, sx'[r].pc # "idle"
        PROVE  /\ answer'[sx'[r].call] = <<>>
               /\ \A u \in Sender \ {r} : sx'[u].pc # "idle" => sx'[u].call # sx'[r].call
    <3>1. r # s /\ sx'[r] = sx[r]
      BY <2>2
    <3>2. sx[r].call \in Call /\ sx[r].call # c /\ answer[sx[r].call] = <<>>
      BY <2>2, <3>1, CallFacts DEF Calls, Untold
    <3>3. ASSUME NEW u \in Sender \ {r}, sx'[u].pc # "idle" PROVE sx'[u].call # sx'[r].call
      <4>1. u # s /\ sx'[u] = sx[u]
        BY <3>3
      <4> QED BY <2>2, <3>1, <3>3, <4>1 DEF Calls, Untold
    <3> QED BY <1>2, <3>1, <3>2, <3>3
  <2> QED BY <2>1, <2>2 DEF Untold
<1>5. OnlyAccepted'
  <2>1. ASSUME NEW i \in InFlight PROVE answer'[item[i].call] = answer[item[i].call]
    <3>1. item[i].call \in Call /\ item[i].call # c
      BY <1>1, CallFacts DEF Calls, OnlyAccepted
    <3> QED BY <1>2, <3>1
  <2> QED BY <2>1 DEF Calls, OnlyAccepted, FlightKept
<1> QED BY <1>3, <1>4, <1>5 DEF Calls

\* A receiver is done: it tells the caller of its item, or no one.
LEMMA ReceiverEnds ==
  ASSUME IInv, Calls, NEW t \in Slot, rx[t].pc \in Receiving, Ends(t), UNCHANGED <<sx, calls>>,
         UNCHANGED answer \/ \E a \in Reports : Answer(ItemCall(t), a)
  PROVE  Calls'
<1> DEFINE i == rx[t].item
           c == item[i].call
<1>0. InFlight' = InFlight \ {i} /\ UNCHANGED item /\ i \in InFlight
  BY DEF Ends
<1>1. c \in Call /\ answer[c] = <<"ACCEPTED">> /\ ItemCall(t) = c
      /\ \A j \in InFlight' : item'[j].call # c /\ j \in InFlight /\ item'[j] = item[j]
  BY <1>0, CallFacts DEF Calls, OnlyAccepted, ItemCall
<1>2. /\ \A d \in Call \ {c} : answer'[d] = answer[d]
      /\ AnsweredOnce'
  <2>1. CASE UNCHANGED answer
    BY <2>1 DEF Calls, AnsweredOnce
  <2>2. ASSUME NEW a \in Reports, Answer(c, a)
        PROVE  (\A d \in Call \ {c} : answer'[d] = answer[d]) /\ AnsweredOnce'
    BY <1>1, <2>2, ReportOnce, Answers DEF Calls, IInv, Shape
  <2> QED BY <1>1, <2>1, <2>2
<1>3. ASSUME NEW s \in Sender, sx[s].pc # "idle" PROVE sx[s].call \in Call \ {c}
  <2>1. sx[s].call \in Call /\ answer[sx[s].call] = <<>> /\ <<>> # <<"ACCEPTED">>
    BY <1>3, CallFacts DEF Calls, Untold
  <2> QED BY <1>1, <2>1
<1>4. Untold'
  <2>1. ASSUME NEW d \in Call, d > calls PROVE answer'[d] = <<>>
    BY <1>1, <1>2, <2>1 DEF Calls, Untold
  <2> QED BY <1>2, <1>3, <2>1 DEF Calls, Untold
<1>5. OnlyAccepted'
  <2>1. ASSUME NEW j \in InFlight'
        PROVE  /\ answer'[item'[j].call] = <<"ACCEPTED">>
               /\ \A k \in InFlight' \ {j} : item'[k].call # item'[j].call
    <3>1. j \in InFlight /\ item'[j] = item[j] /\ item[j].call \in Call \ {c}
      BY <1>1, CallFacts
    <3> QED BY <1>1, <1>2, <3>1 DEF Calls, OnlyAccepted
  <2> QED BY <2>1 DEF OnlyAccepted
<1> QED BY <1>2, <1>4, <1>5 DEF Calls

\* A call begins: it is refused, or its sender goes to work.
LEMMA BeginCalls ==
  ASSUME IInv, Calls, NEW s \in Sender, SendBegin(s)
  PROVE  Calls'
<1> DEFINE c == calls + 1
<1>1. /\ calls \in 0 .. MaxCalls /\ MaxCalls \in Nat /\ calls' = c /\ sx[s].pc = "idle"
      /\ calls < MaxCalls
  BY CallFacts DEF SendBegin
<1>2. c \in Call /\ c \in 0 .. MaxCalls /\ \A n \in Call : n > c => n > calls /\ n # c
  BY <1>1 DEF Call
<1>3. answer[c] = <<>> /\ c > calls
  BY <1>1, <1>2 DEF Calls, Untold
<1>4. FlightKept
  BY SendBeginStep
<1>5. ASSUME NEW r \in Sender, sx[r].pc # "idle"
      PROVE  sx[r].call \in Call \ {c} /\ answer[sx[r].call] = <<>>
  BY <1>1, <1>5, CallFacts DEF Calls, Untold
<1>6. ASSUME NEW i \in InFlight
      PROVE  item[i].call \in Call \ {c} /\ item'[i] = item[i]
  <2>1. item[i].call \in Call /\ answer[item[i].call] = <<"ACCEPTED">> /\ <<>> # <<"ACCEPTED">>
    BY CallFacts DEF Calls, OnlyAccepted
  <2> QED BY <1>3, <1>4, <2>1 DEF FlightKept
<1>7. CASE Len(q) >= Limit
  <2>1. Answer(c, "ASYNCQ_FULL") /\ UNCHANGED sx
    BY <1>1, <1>7 DEF SendBegin
  <2> HIDE DEF c
  <2>2. \A d \in Call \ {c} : answer'[d] = answer[d]
    BY <1>2, <2>1, Answers DEF IInv, Shape, Reports
  <2>3. AnsweredOnce'
    BY <1>2, <1>3, <2>1, ReportOnce DEF Calls, Reports
  <2>4. Untold'
    <3>1. ASSUME NEW d \in Call, d > calls' PROVE answer'[d] = <<>>
      BY <1>1, <1>2, <2>2, <3>1 DEF Calls, Untold
    <3> QED BY <1>5, <2>1, <2>2, <3>1 DEF Calls, Untold
  <2>5. OnlyAccepted'
    BY <1>4, <1>6, <2>2 DEF Calls, OnlyAccepted, FlightKept
  <2> QED BY <2>3, <2>4, <2>5 DEF Calls
<1>8. CASE ~ (Len(q) >= Limit)
  <2>1. UpdS(s, "sized", c, NULL) /\ UNCHANGED answer
    BY <1>1, <1>8 DEF SendBegin
  <2> HIDE DEF c
  <2>2. sx'[s].pc = "sized" /\ sx'[s].call = c /\ \A r \in Sender \ {s} : sx'[r] = sx[r]
    BY <1>2, <2>1, SenderStep DEF IInv, Shape
  <2>3. AnsweredOnce' /\ OnlyAccepted'
    BY <1>4, <2>1 DEF Calls, OnlyAccepted, FlightKept, AnsweredOnce
  <2>4. Untold'
    <3>1. ASSUME NEW d \in Call, d > calls' PROVE answer'[d] = <<>>
      BY <1>1, <1>2, <2>1, <3>1 DEF Calls, Untold
    <3>2. ASSUME NEW r \in Sender, sx'[r].pc # "idle"
          PROVE  /\ answer'[sx'[r].call] = <<>>
                 /\ \A u \in Sender \ {r} : sx'[u].pc # "idle" => sx'[u].call # sx'[r].call
      <4>1. CASE r = s
        BY <1>3, <1>5, <2>1, <2>2, <4>1
      <4>2. CASE r # s
        <5>1. sx'[r] = sx[r] /\ answer[sx[r].call] = <<>> /\ sx[r].call # c
          BY <1>5, <2>2, <3>2, <4>2
        <5>2. ASSUME NEW u \in Sender \ {r}, sx'[u].pc # "idle" PROVE sx'[u].call # sx[r].call
          <6>1. CASE u = s
            BY <2>2, <5>1, <6>1
          <6>2. CASE u # s
            BY <2>2, <3>2, <5>1, <5>2, <6>2 DEF Calls, Untold
          <6> QED BY <6>1, <6>2
        <5> QED BY <2>1, <5>1, <5>2
      <4> QED BY <4>1, <4>2
    <3> QED BY <3>1, <3>2 DEF Untold
  <2> QED BY <2>3, <2>4 DEF Calls
<1> QED BY <1>7, <1>8

\* A call is accepted: its item begins its way.
LEMMA AcceptCalls ==
  ASSUME IInv, Calls, NEW s \in Sender, NEW f \in TryFd, sx[s].pc = "try",
         conn' = [conn EXCEPT ![f] = Asked(IF @ = NULL THEN NewConn ELSE @, sx[s].call)],
         Accept(s, f), pool' = PoolTaken, refs' = refs + 1,
         UNCHANGED <<rx, main, freepool, lost, num, count, calls, passed>>
  PROVE  Calls'
<1> DEFINE c == sx[s].call
           i == sx[s].item
<1>1. c \in Call /\ c <= calls /\ answer[c] = <<>> /\ calls \in Nat /\ Call \subseteq Nat
  BY CallFacts DEF Calls, Untold, Call
<1>2. /\ i \notin InFlight /\ InFlight' = InFlight \cup {i}
      /\ item'[i] = [call |-> c, fd |-> f]
      /\ \A j \in Item \ {i} : item'[j] = item[j]
  BY SendOkStep
<1>10. 0 \in 0 .. MaxCalls
  BY LimitAssumption
<1>3. Answer(c, "ACCEPTED") /\ UpdS(s, "idle", 0, NULL)
  BY DEF Accept
<1>4. /\ answer'[c] = Append(answer[c], "ACCEPTED")
      /\ \A d \in Call \ {c} : answer'[d] = answer[d]
  BY <1>1, <1>3, Answers DEF IInv, Shape, Reports
<1>5. answer'[c] = <<"ACCEPTED">>
  BY <1>1, <1>4
<1>6. sx'[s].pc = "idle" /\ \A r \in Sender \ {s} : sx'[r] = sx[r]
  BY <1>3, <1>10, SenderStep DEF IInv, Shape
<1>7. AnsweredOnce'
  BY <1>1, <1>3, ReportOnce DEF Calls, Reports
<1>8. Untold'
  <2>1. ASSUME NEW d \in Call, d > calls PROVE answer'[d] = <<>>
    BY <1>1, <1>4, <2>1 DEF Calls, Untold
  <2>2. ASSUME NEW r \in Sender, sx'[r].pc # "idle"
        PROVE  /\ answer'[sx'[r].call] = <<>>
               /\ \A u \in Sender \ {r} : sx'[u].pc # "idle" => sx'[u].call # sx'[r].call
    <3>1. r # s /\ sx'[r] = sx[r]
      BY <1>6, <2>2
    <3>2. sx[r].call \in Call /\ sx[r].call # c /\ answer[sx[r].call] = <<>>
      BY <2>2, <3>1, CallFacts DEF Calls, Untold
    <3>3. ASSUME NEW u \in Sender \ {r}, sx'[u].pc # "idle" PROVE sx'[u].call # sx'[r].call
      <4>1. u # s /\ sx'[u] = sx[u]
        BY <1>6, <3>3
      <4> QED BY <2>2, <3>1, <3>3, <4>1 DEF Calls, Untold
    <3> QED BY <1>4, <3>1, <3>2, <3>3
  <2> QED BY <2>1, <2>2 DEF Untold
<1>9. OnlyAccepted'
  <2>1. ASSUME NEW j \in InFlight
        PROVE  /\ item'[j] = item[j] /\ item[j].call \in Call \ {c} /\ j # i
               /\ answer'[item[j].call] = <<"ACCEPTED">>
    <3>1. j \in Item \ {i} /\ item[j].call \in Call /\ answer[item[j].call] = <<"ACCEPTED">>
          /\ <<>> # <<"ACCEPTED">>
      BY <1>2, CallFacts, OnItsWay DEF Calls, OnlyAccepted
    <3> QED BY <1>1, <1>2, <1>4, <3>1
  <2>2. item'[i].call = c
    BY <1>2
  <2>3. ASSUME NEW j \in InFlight'
        PROVE  /\ answer'[item'[j].call] = <<"ACCEPTED">>
               /\ \A k \in InFlight' \ {j} : item'[k].call # item'[j].call
    <3> HIDE DEF c, i
    <3>1. CASE j = i
      BY <1>2, <1>5, <2>1, <2>2, <3>1
    <3>2. CASE j # i
      BY <1>2, <2>1, <2>2, <3>2 DEF Calls, OnlyAccepted
    <3> QED BY <3>1, <3>2
  <2> QED BY <2>3 DEF OnlyAccepted
<1> QED BY <1>7, <1>8, <1>9 DEF Calls

\* Every step keeps the bookkeeping of the answers.
LEMMA NextCalls == IInv /\ Calls /\ [Next]_vars => Calls'
<1> SUFFICES ASSUME IInv, Calls, [Next]_vars PROVE Calls'
  OBVIOUS
<1>0. TypeOK /\ 0 \in 0 .. MaxCalls
  BY LimitAssumption DEF IInv, Shape
<1>1. ASSUME FlightKept, UNCHANGED <<sx, answer, calls>> PROVE Calls'
  BY <1>1, KeepCalls
<1>2. CASE UNCHANGED vars
  <2>1. passed' \subseteq Call
    BY <1>2, <1>0 DEF vars, TypeOK
  <2> QED BY <1>1, <1>2, <2>1, ClockStep DEF vars
<1>3. CASE citrusleaf_async_init \/ ShutdownSend \/ ShutdownJoin
  <2>1. UNCHANGED <<sx, answer, calls>>
    BY <1>3 DEF citrusleaf_async_init, ShutdownSend, ShutdownJoin
  <2> QED BY <1>1, <1>3, <2>1, InitStep, ShutdownSendStep, ShutdownJoinStep
<1>4. ASSUME NEW n \in ReinitThreads, citrusleaf_async_reinit(n) PROVE Calls'
  BY <1>1, <1>4, ReinitStep DEF citrusleaf_async_reinit
<1>5. ASSUME NEW s \in Sender, SendItem(s) PROVE Calls'
  <2>0. FlightKept /\ UNCHANGED calls /\ sx[s].pc = "sized"
    BY <1>5, SendItemStep DEF SendItem
  <2>1. FlightKept /\ UNCHANGED calls /\ sx[s].pc = "sized" /\ sx[s].call \in 0 .. MaxCalls
    BY <2>0, SenderFacts
  <2>2. CASE UpdS(s, "pop", sx[s].call, NULL) /\ UNCHANGED <<item, answer>>
    <3>1. sx'[s].call = sx[s].call /\ \A r \in Sender \ {s} : sx'[r] = sx[r]
      BY <1>0, <2>1, <2>2, SenderStep
    <3> QED BY <2>1, <2>2, <3>1, KeepCalls
  <2>3. ASSUME NEW i \in Lowest(item), UpdS(s, "try", sx[s].call, i), UNCHANGED answer
        PROVE  Calls'
    <3>1. i \in Item \cup {NULL}
      BY <1>0 DEF Lowest, TypeOK
    <3>2. sx'[s].call = sx[s].call /\ \A r \in Sender \ {s} : sx'[r] = sx[r]
      BY <1>0, <2>1, <2>3, <3>1, SenderStep
    <3> QED BY <2>1, <2>3, <3>2, KeepCalls
  <2>4. CASE UpdS(s, "idle", 0, NULL) /\ Answer(sx[s].call, "CLIENT")
    <3>1. sx'[s].pc = "idle" /\ \A r \in Sender \ {s} : sx'[r] = sx[r]
      BY <1>0, <2>1, <2>4, SenderStep
    <3> QED BY <2>1, <2>4, <3>1, SenderEnds DEF Reports
  <2> QED BY <1>5, <2>2, <2>3, <2>4 DEF SendItem
<1>6. ASSUME NEW s \in Sender, SendPop(s) PROVE Calls'
  <2> DEFINE i == Head(freepool)
  <2>0. FlightKept /\ UNCHANGED <<answer, calls>> /\ sx[s].pc = "pop"
        /\ i \in Item \cup {NULL} /\ UpdS(s, "try", sx[s].call, i)
    BY <1>0, <1>6, SendPopStep DEF SendPop, TypeOK
  <2> HIDE DEF i
  <2>1. /\ FlightKept /\ UNCHANGED <<answer, calls>> /\ sx[s].pc = "pop"
        /\ sx[s].call \in 0 .. MaxCalls /\ i \in Item \cup {NULL} /\ UpdS(s, "try", sx[s].call, i)
    BY <2>0, SenderFacts
  <2> HIDE DEF i
  <2>2. sx'[s].call = sx[s].call /\ \A r \in Sender \ {s} : sx'[r] = sx[r]
    BY <1>0, <2>1, SenderStep
  <2> QED BY <2>1, <2>2, KeepCalls
<1>7. ASSUME NEW s \in Sender, SendOk(s) PROVE Calls'
  <2>1. PICK f \in TryFd :
          /\ conn' = [conn EXCEPT ![f] = Asked(IF @ = NULL THEN NewConn ELSE @, sx[s].call)]
          /\ Accept(s, f)
    BY <1>7 DEF SendOk
  <2> QED BY <1>7, <2>1, AcceptCalls DEF SendOk
<1>8. ASSUME NEW s \in Sender, SendRetry(s) PROVE Calls'
  <2>1. FlightKept /\ UNCHANGED calls /\ sx[s].pc = "try"
    BY <1>8, SendRetryStep DEF SendRetry
  <2>2. CASE UNCHANGED <<sx, lost, answer>>
    BY <1>1, <2>1, <2>2
  <2>3. CASE UpdS(s, "idle", 0, NULL) /\ Answer(sx[s].call, "TIMEOUT")
    <3>1. sx'[s].pc = "idle" /\ \A r \in Sender \ {s} : sx'[r] = sx[r]
      BY <1>0, <2>1, <2>3, SenderStep
    <3> QED BY <2>1, <2>3, <3>1, SenderEnds DEF Reports
  <2> QED BY <1>8, <2>2, <2>3 DEF SendRetry, Again
<1>9. ASSUME NEW t \in Slot, ReceiverStart(t) \/ ReceiverPop(t) PROVE Calls'
  <2>1. UNCHANGED <<sx, answer, calls>>
    BY <1>9 DEF ReceiverStart, ReceiverPop
  <2> QED BY <1>1, <1>9, <2>1, ReceiverStartStep, ReceiverPopStep
<1>10. ASSUME NEW t \in Slot, ReadHeader(t) \/ HeaderFails(t) \/ HeaderTimeout(t) \/ ReadBody(t)
       PROVE  Calls'
  <2>1. rx[t].pc \in Receiving
    BY <1>10 DEF ReadHeader, HeaderFails, HeaderTimeout, ReadBody, Receiving
  <2>2. (FlightKept /\ UNCHANGED answer) \/ Ends(t)
    BY <1>10, ReadHeaderStep, HeaderFailsStep, HeaderTimeoutStep, ReadBodyStep
  <2>3. UNCHANGED <<sx, calls>>
    BY <1>10 DEF ReadHeader, HeaderFails, HeaderTimeout, ReadBody, Fail, Succeed, Recycle
  <2>4. UNCHANGED answer \/ \E a \in Reports : Answer(ItemCall(t), a)
    <3>1. ASSUME NEW id PROVE Told(t, id) \in Reports /\ "FAIL" \in Reports
      BY DEF Told, Reports
    <3> QED
      BY <1>10, <3>1 DEF ReadHeader, HeaderFails, HeaderTimeout, ReadBody, Fail, Succeed
  <2> QED BY <1>1, <2>1, <2>2, <2>3, <2>4, ReceiverEnds
<1>11. ASSUME NEW f \in Fd, Deliver(f) PROVE Calls'
  BY <1>1, <1>11, DeliverStep DEF Deliver
<1>12. ASSUME NEW c \in Call, DeadlinePasses(c) PROVE Calls'
  <2>1. passed' \subseteq Call
    BY <1>0, <1>12 DEF DeadlinePasses, TypeOK
  <2> QED BY <1>1, <1>12, <2>1, ClockStep DEF DeadlinePasses
<1>13. ASSUME NEW s \in Sender, SendBegin(s) \/ Send(s) PROVE Calls'
  BY <1>5, <1>6, <1>7, <1>8, <1>13, BeginCalls DEF Send
<1>14. ASSUME NEW t \in Slot, Receive(t) PROVE Calls'
  BY <1>9, <1>10, <1>14 DEF Receive
<1> QED BY <1>2, <1>3, <1>4, <1>11, <1>12, <1>13, <1>14 DEF Next, Step

\* Nothing has been told at the start.
LEMMA InitCalls == Init => Calls
<1> SUFFICES ASSUME Init PROVE Calls
  OBVIOUS
<1> USE DEF Init
<1>1. InFlight = {}
  BY DEF InFlight
<1>2. Untold
  BY DEF Untold
<1>3. OnlyAccepted
  BY <1>1 DEF OnlyAccepted
<1>4. AnsweredOnce
  BY DEF AnsweredOnce
<1> QED BY <1>2, <1>3, <1>4 DEF Calls

\* The bookkeeping of the answers holds in every reachable state.
THEOREM CallsInvariance == Spec => []Calls
  BY InitCalls, NextCalls, Invariance, PTL DEF Spec

\* A caller gets at most one final answer (cl_do_async_monte's return value or the
\* callback of async_receiver_fn), whatever times out, fails or is put back.
THEOREM AnsweredOnceHolds == Spec => []AnsweredOnce
<1>1. Calls => AnsweredOnce
  BY DEF Calls
<1> QED BY <1>1, CallsInvariance, PTL

-----------------------------------------------------------------------------
(* What is on the wire                                                     *)

\* What a connection holds when no part of the answer to call k has been read, and
\* when the first part has: the rest of it, and nothing else.
Unread(c, k) == \/ c.in = <<>> /\ c.due = Pieces(k)
                \/ c.in = <<Pieces(k)[1]>> /\ c.due = <<Pieces(k)[2]>>
                \/ c.in = Pieces(k) /\ c.due = <<>>
HalfRead(c, k) == \/ c.in = <<>> /\ c.due = <<Pieces(k)[2]>>
                  \/ c.in = <<Pieces(k)[2]>> /\ c.due = <<>>

\* Unless a part of a header was lost: the connection of an item on its way holds
\* the answer to the item's call; of one whose header was read, the body, and the
\* header was of that call; a pooled one holds nothing.
AtBody(i) == \E t \in Slot : rx[t].item = i /\ rx[t].pc = "body"
ItemWire(i) == conn[item[i].fd].torn \/ AtBody(i) \/ Unread(conn[item[i].fd], item[i].call)
BodyWire(t) ==
    LET i == rx[t].item
    IN \/ conn[item[i].fd].torn
       \/ rx[t].msg.id = item[i].call /\ HalfRead(conn[item[i].fd], item[i].call)
PoolWire(f) == conn[f].torn \/ (conn[f].in = <<>> /\ conn[f].due = <<>>)

Wires ==
    /\ \A i \in InFlight : ItemWire(i)
    /\ \A t \in Slot : rx[t].pc = "body" => BodyWire(t)
    /\ \A f \in ToSet(pool) : PoolWire(f)

\* A report that is no other call's.
LEMMA HonestReport ==
  ASSUME IInv, ReplyMatches, NEW c \in Call, NEW a \in Reports, Answer(c, a), a # "OTHER"
  PROVE  ReplyMatches'
<1>1. answer'[c] = Append(answer[c], a) /\ \A d \in Call \ {c} : answer'[d] = answer[d]
  BY Answers DEF IInv, Shape
<1>2. answer[c] \in Seq(Reports)
  BY DEF IInv, Shape, TypeOK
<1>3. ASSUME NEW x \in ToSet(Append(answer[c], a)) PROVE x = a \/ x \in ToSet(answer[c])
  <2>1. PICK n \in DOMAIN Append(answer[c], a) : Append(answer[c], a)[n] = x
    BY DEF ToSet
  <2>2. CASE n = Len(answer[c]) + 1
    BY <1>2, <2>1, <2>2
  <2>3. CASE n # Len(answer[c]) + 1
    <3>1. n \in DOMAIN answer[c] /\ answer[c][n] = x
      BY <1>2, <2>1, <2>3
    <3> QED BY <3>1 DEF ToSet
  <2> QED BY <2>2, <2>3
<1> QED BY <1>1, <1>3 DEF ReplyMatches

\* The threads at a body, when another moves.
LEMMA AtBodyKept ==
  ASSUME NEW t \in Slot, \A u \in Slot \ {t} : rx'[u] = rx[u], NEW i, AtBody(i),
         rx[t].pc # "body" \/ rx[t].item # i
  PROVE  AtBody(i)'
<1>1. PICK u \in Slot : rx[u].item = i /\ rx[u].pc = "body"
  BY DEF AtBody
<1>2. u # t
  BY <1>1
<1> QED BY <1>1, <1>2 DEF AtBody

\* An item on its way whose connection no one touches.
LEMMA ItemWireKept ==
  ASSUME NEW i, ItemWire(i), item'[i] = item[i], conn'[item[i].fd] = conn[item[i].fd],
         AtBody(i) => AtBody(i)'
  PROVE  ItemWire(i)'
<1>1. CASE conn[item[i].fd].torn
  BY <1>1 DEF ItemWire
<1>2. CASE AtBody(i)
  BY <1>2 DEF ItemWire
<1>3. CASE Unread(conn[item[i].fd], item[i].call)
  BY <1>3 DEF ItemWire, Unread
<1> QED BY <1>1, <1>2, <1>3 DEF ItemWire

\* A thread at a body whose connection no one touches.
LEMMA BodyWireKept ==
  ASSUME NEW t, BodyWire(t), rx'[t] = rx[t], item'[rx[t].item] = item[rx[t].item],
         conn'[item[rx[t].item].fd] = conn[item[rx[t].item].fd]
  PROVE  BodyWire(t)'
<1> DEFINE i == rx[t].item
<1>1. CASE conn[item[i].fd].torn
  BY <1>1 DEF BodyWire
<1>2. CASE rx[t].msg.id = item[i].call /\ HalfRead(conn[item[i].fd], item[i].call)
  BY <1>2 DEF BodyWire, HalfRead
<1> QED BY <1>1, <1>2 DEF BodyWire

\* A thread at a body has an item on its way.
LEMMA BodyItem ==
  ASSUME IInv, NEW t \in Slot, rx[t].pc = "body"
  PROVE  /\ rx[t].item \in InFlight /\ rx[t].item # NULL
         /\ item[rx[t].item].fd = ItemFd(t) /\ item[rx[t].item].call = ItemCall(t)
         /\ rx[t].msg \in Header
  BY ReceiverFacts DEF Receiving, ItemFd, ItemCall, IInv, Shape, ReceiversOK

\* A step that touches no connection, and no thread at a body.
LEMMA KeepWires ==
  ASSUME IInv, Wires, FlightKept, UNCHANGED <<pool, conn>>,
         \A t \in Slot : rx[t].pc = "body" \/ rx'[t].pc = "body" => rx'[t] = rx[t]
  PROVE  Wires'
<1>1. ASSUME NEW i \in InFlight' PROVE ItemWire(i)'
  <2>1. i \in InFlight /\ item'[i] = item[i] /\ conn'[item[i].fd] = conn[item[i].fd]
    BY DEF FlightKept
  <2>2. AtBody(i) => AtBody(i)'
    BY DEF AtBody
  <2> QED BY <2>1, <2>2, ItemWireKept DEF Wires
<1>2. ASSUME NEW t \in Slot, rx'[t].pc = "body" PROVE BodyWire(t)'
  <2>1. rx'[t] = rx[t] /\ rx[t].pc = "body"
    BY <1>2
  <2>2. item'[rx[t].item] = item[rx[t].item]
    BY <2>1, BodyItem DEF FlightKept
  <2> QED BY <2>1, <2>2, BodyWireKept DEF Wires
<1>3. ASSUME NEW f \in ToSet(pool') PROVE PoolWire(f)'
  <2>1. PoolWire(f)
    BY DEF Wires
  <2> QED BY <2>1 DEF PoolWire
<1> QED BY <1>1, <1>2, <1>3 DEF Wires

\* A connection that no item carries is closed.
LEMMA RetryWires ==
  ASSUME IInv, Wires, FlightKept, UNCHANGED rx, NEW f \in TryFd, pool' = PoolTaken,
         conn' = Closed(f)
  PROVE  Wires'
<1>1. f \in Fd /\ Carry(f) = {} /\ \A g \in ToSet(pool') : g \in ToSet(pool) \ {f}
  BY TryFdDoes
<1>2. \A g \in Fd \ {f} : conn'[g] = conn[g]
  BY <1>1, ClosedDoes
<1>3. ASSUME NEW i \in InFlight PROVE item'[i] = item[i] /\ conn'[item[i].fd] = conn[item[i].fd]
  <2>1. item[i].fd \in Fd \ {f}
    BY <1>1, OnItsWay DEF Carry
  <2> QED BY <1>2, <2>1 DEF FlightKept
<1>4. ASSUME NEW i \in InFlight' PROVE ItemWire(i)'
  <2>1. i \in InFlight
    BY DEF FlightKept
  <2>2. AtBody(i) => AtBody(i)'
    BY DEF AtBody
  <2> QED BY <1>3, <2>1, <2>2, ItemWireKept DEF Wires
<1>5. ASSUME NEW t \in Slot, rx'[t].pc = "body" PROVE BodyWire(t)'
  <2>1. rx[t].item \in InFlight /\ BodyWire(t)
    BY <1>5, BodyItem DEF Wires
  <2> QED BY <1>3, <2>1, BodyWireKept
<1>6. ASSUME NEW g \in ToSet(pool') PROVE PoolWire(g)'
  <2>1. g \in Fd \ {f} /\ PoolWire(g)
    BY <1>1, OneCarrier DEF Wires
  <2> QED BY <1>2, <2>1 DEF PoolWire
<1> QED BY <1>4, <1>5, <1>6 DEF Wires

\* A receiver is done with its item and leaves its connection as PoolWire says, or
\* not in the pool.
LEMMA EndWires ==
  ASSUME IInv, Wires, NEW t \in Slot, rx[t].pc \in Receiving, Ends(t), NEW d, d = ItemFd(t),
         \A g \in Fd \ {d} : conn'[g] = conn[g],
         \A g \in ToSet(pool') : (g \in ToSet(pool) /\ g # d) \/ (g = d /\ PoolWire(d)')
  PROVE  Wires'
<1> DEFINE i == rx[t].item
<1>1. /\ i \in InFlight /\ InFlight' = InFlight \ {i} /\ UNCHANGED item
      /\ rx'[t].pc # "body" /\ \A u \in Slot \ {t} : rx'[u] = rx[u] /\ rx[u].item # i
      /\ d \in Fd /\ item[i].fd = d
  BY ReceiverFacts DEF Ends, Receiving, ItemFd
<1>2. ASSUME NEW j \in InFlight, j # i PROVE conn'[item[j].fd] = conn[item[j].fd]
  <2>1. item[j].fd \in Fd /\ item[j].fd # d
    BY <1>1, <1>2, OneCarrier, OnItsWay
  <2> QED BY <2>1
<1>3. ASSUME NEW j \in InFlight' PROVE ItemWire(j)'
  <2>1. j \in InFlight /\ j # i /\ item'[j] = item[j]
    BY <1>1
  <2>2. AtBody(j) => AtBody(j)'
    BY <1>1, <2>1, AtBodyKept
  <2> QED BY <1>2, <2>1, <2>2, ItemWireKept DEF Wires
<1>4. ASSUME NEW u \in Slot, rx'[u].pc = "body" PROVE BodyWire(u)'
  <2>1. u # t /\ rx'[u] = rx[u] /\ rx[u].pc = "body" /\ rx[u].item # i
    BY <1>1, <1>4
  <2>2. rx[u].item \in InFlight /\ BodyWire(u)
    BY <2>1, BodyItem DEF Wires
  <2> QED BY <1>1, <1>2, <2>1, <2>2, BodyWireKept
<1>5. ASSUME NEW g \in ToSet(pool') PROVE PoolWire(g)'
  <2>1. CASE g = d
    BY <2>1
  <2>2. CASE g # d
    <3>1. g \in Fd \ {d} /\ PoolWire(g)
      BY <2>2, OneCarrier DEF Wires
    <3> QED BY <3>1 DEF PoolWire
  <2> QED BY <2>1, <2>2
<1> QED BY <1>3, <1>4, <1>5 DEF Wires

\* A receiver keeps its item, or puts it back, and has touched its connection.
LEMMA TouchWires ==
  ASSUME IInv, Wires, NEW t \in Slot, rx[t].pc = "header", FlightKept, UNCHANGED pool,
         \A u \in Slot \ {t} : rx'[u] = rx[u], NEW d, d = ItemFd(t),
         \A g \in Fd \ {d} : conn'[g] = conn[g],
         NEW i, i = rx[t].item, ItemWire(i)', rx'[t].pc = "body" => BodyWire(t)'
  PROVE  Wires'
<1>1. /\ i \in InFlight /\ InFlight' = InFlight /\ d \in Fd /\ item[i].fd = d
      /\ d \notin ToSet(pool) /\ \A u \in Slot \ {t} : rx[u].item # i
  BY ReceiverFacts, OneCarrier DEF Receiving, ItemFd, FlightKept
<1>2. ASSUME NEW j \in InFlight, j # i
      PROVE  conn'[item[j].fd] = conn[item[j].fd] /\ item'[j] = item[j]
  <2>1. item[j].fd \in Fd /\ item[j].fd # d
    BY <1>1, <1>2, OneCarrier, OnItsWay
  <2> QED BY <2>1 DEF FlightKept
<1>3. ASSUME NEW j \in InFlight' PROVE ItemWire(j)'
  <2>1. CASE j = i
    BY <2>1
  <2>2. CASE j # i
    <3>1. AtBody(j) => AtBody(j)'
      BY AtBodyKept
    <3> QED BY <1>1, <1>2, <2>2, <3>1, ItemWireKept DEF Wires
  <2> QED BY <2>1, <2>2
<1>4. ASSUME NEW u \in Slot, rx'[u].pc = "body" PROVE BodyWire(u)'
  <2>1. CASE u = t
    BY <1>4, <2>1
  <2>2. CASE u # t
    <3>1. rx'[u] = rx[u] /\ rx[u].pc = "body" /\ rx[u].item # i
      BY <1>1, <1>4, <2>2
    <3>2. rx[u].item \in InFlight /\ BodyWire(u)
      BY <3>1, BodyItem DEF Wires
    <3> QED BY <1>2, <3>1, <3>2, BodyWireKept
  <2> QED BY <2>1, <2>2
<1>5. ASSUME NEW g \in ToSet(pool') PROVE PoolWire(g)'
  <2>1. g \in Fd \ {d} /\ PoolWire(g)
    BY <1>1, OneCarrier DEF Wires
  <2> QED BY <2>1 DEF PoolWire
<1> QED BY <1>3, <1>4, <1>5 DEF Wires

\* The pieces of an answer.
LEMMA PieceFacts ==
  ASSUME NEW k
  PROVE  /\ Len(Pieces(k)) = 2 /\ Pieces(k)[1].part = "h" /\ Pieces(k)[1].id = k
         /\ Pieces(k) # <<>> /\ Len(<<Pieces(k)[1]>>) = 1 /\ Len(<<Pieces(k)[2]>>) = 1
         /\ Head(Pieces(k)) = Pieces(k)[1] /\ Tail(Pieces(k)) = <<Pieces(k)[2]>>
         /\ Append(<<Pieces(k)[1]>>, Pieces(k)[2]) = Pieces(k)
<1> DEFINE a == [id |-> k, part |-> "h"]
           b == [id |-> k, part |-> "t"]
<1>1. a.part = "h" /\ a.id = k
  OBVIOUS
<1>2. Pieces(k) = <<a, b>>
  BY DEF Pieces
<1> HIDE DEF a, b
<1>3. <<a, b>>[1] = a /\ <<a, b>>[2] = b /\ Len(<<a, b>>) = 2 /\ <<a, b>> # <<>>
  OBVIOUS
<1>4. Len(<<a>>) = 1 /\ Len(<<b>>) = 1 /\ Head(<<a, b>>) = a
  OBVIOUS
<1>6. Append(<<a>>, b) = <<a, b>>
  <2> DEFINE o == <<a>>
  <2>1. o \in Seq({a, b}) /\ o[1] = a /\ Len(o) = 1
    OBVIOUS
  <2> HIDE DEF o
  <2> DEFINE p == Append(o, b)
  <2>2. p \in Seq({a, b}) /\ Len(p) = 2 /\ p[1] = a /\ p[2] = b
    <3>1. b \in {a, b} /\ 1 \in 1 .. Len(o) /\ Len(o) + 1 = 2
      BY <2>1
    <3>2. p \in Seq({a, b}) /\ Len(p) = 2
      BY <2>1, <3>1, AppendProperties
    <3>3. p[1] = o[1]
      BY <2>1, <3>1, AppendProperties
    <3>4. p[Len(o) + 1] = b
      BY <2>1, <3>1, AppendProperties
    <3> QED BY <2>1, <3>1, <3>2, <3>3, <3>4
  <2> HIDE DEF p
  <2>3. p = <<a, b>>
    BY <2>2
  <2> QED BY <2>3 DEF p, o
<1>5. Tail(<<a, b>>) = <<b>>
  <2>1. Tail(<<a, b>>) \in Seq({a, b}) /\ Len(Tail(<<a, b>>)) = 1 /\ Tail(<<a, b>>)[1] = b
    OBVIOUS
  <2> QED BY <2>1
<1> QED BY <1>1, <1>2, <1>3, <1>4, <1>5, <1>6

\* A request is written on a connection that held nothing, or was out of step.
LEMMA SendWires ==
  ASSUME IInv, Wires, NEW s \in Sender, NEW f \in TryFd, sx[s].pc = "try",
         conn' = [conn EXCEPT ![f] = Asked(IF @ = NULL THEN NewConn ELSE @, sx[s].call)],
         Accept(s, f), pool' = PoolTaken, refs' = refs + 1,
         UNCHANGED <<rx, main, freepool, lost, num, count, calls, passed>>
  PROVE  Wires'
<1> DEFINE i == sx[s].item
           c == sx[s].call
           base == IF conn[f] = NULL THEN NewConn ELSE conn[f]
<1>1. /\ i \notin InFlight /\ InFlight' = InFlight \cup {i} /\ item'[i] = [call |-> c, fd |-> f]
      /\ \A j \in Item \ {i} : item'[j] = item[j]
  BY SendOkStep
<1>2. /\ f \in Fd /\ Carry(f) = {} /\ (conn[f] # NULL => f \in ToSet(pool))
      /\ \A g \in ToSet(pool') : g \in ToSet(pool) \ {f}
  BY TryFdDoes
<1>3. base \in Connection /\ c \in Call
  <2>1. c \in Call
    BY SenderFacts
  <2>2. NewConn \in Connection
    <3>1. <<>> \in Seq(Piece)
      OBVIOUS
    <3> QED BY <3>1 DEF NewConn, Connection
  <2>3. conn[f] \in Connection \cup {NULL}
    BY <1>2 DEF IInv, Shape, TypeOK
  <2> QED BY <2>1, <2>2, <2>3
<1>4. base.torn \/ (base.in = <<>> /\ base.due = <<>>)
  <2>1. CASE conn[f] = NULL
    BY <2>1 DEF NewConn
  <2>2. CASE conn[f] # NULL
    BY <1>2, <2>2 DEF Wires, PoolWire
  <2> QED BY <2>1, <2>2
<1>5. conn'[f] = Asked(base, c) /\ \A g \in Fd \ {f} : conn'[g] = conn[g]
  BY <1>2 DEF IInv, Shape, TypeOK
<1> HIDE DEF base, c
<1>6. /\ Asked(base, c).torn = base.torn /\ Asked(base, c).in = base.in
      /\ Asked(base, c).due = base.due \o Pieces(c)
  BY <1>3, AskedType
<1>7. conn'[f].torn \/ Unread(conn'[f], c)
  <2>1. CASE base.torn
    BY <1>5, <1>6, <2>1
  <2>2. CASE base.in = <<>> /\ base.due = <<>>
    <3>1. <<>> \o Pieces(c) = Pieces(c)
      BY DEF Pieces
    <3> QED BY <1>5, <1>6, <2>2, <3>1 DEF Unread
  <2> QED BY <1>4, <2>1, <2>2
<1>8. ASSUME NEW j \in InFlight
      PROVE  item'[j] = item[j] /\ conn'[item[j].fd] = conn[item[j].fd]
  <2>1. item[j].fd \in Fd \ {f} /\ j \in Item \ {i}
    BY <1>1, <1>2, OnItsWay DEF Carry
  <2> QED BY <1>1, <1>5, <2>1
<1>9. ASSUME NEW j \in InFlight' PROVE ItemWire(j)'
  <2>1. CASE j \in InFlight
    <3>1. AtBody(j) => AtBody(j)'
      BY DEF AtBody
    <3> QED BY <1>8, <2>1, <3>1, ItemWireKept DEF Wires
  <2>2. CASE j = i
    <3>1. item'[j].fd = f /\ item'[j].call = c
      BY <1>1, <2>2
    <3> QED BY <1>7, <3>1 DEF ItemWire
  <2> QED BY <1>1, <2>1, <2>2
<1>10. ASSUME NEW t \in Slot, rx'[t].pc = "body" PROVE BodyWire(t)'
  <2>1. rx[t].item \in InFlight /\ BodyWire(t)
    BY <1>10, BodyItem DEF Wires
  <2> QED BY <1>8, <2>1, BodyWireKept
<1>11. ASSUME NEW g \in ToSet(pool') PROVE PoolWire(g)'
  <2>1. g \in Fd \ {f} /\ PoolWire(g)
    BY <1>2, OneCarrier DEF Wires
  <2> QED BY <1>5, <2>1 DEF PoolWire
<1> QED BY <1>9, <1>10, <1>11 DEF Wires

\* A piece of an answer arrives.
LEMMA DeliverWires ==
  ASSUME IInv, Wires, NEW f \in Fd, Deliver(f)
  PROVE  Wires'
<1>1. /\ \A g \in Fd \ {f} : conn'[g] = conn[g]
      /\ conn'[f].torn = conn[f].torn /\ conn'[f].due = Tail(conn[f].due)
      /\ conn'[f].in = Append(conn[f].in, Head(conn[f].due)) /\ conn[f].due # <<>>
  BY DeliverDoes
<1>2. FlightKept /\ UNCHANGED <<rx, item, pool>>
  BY DeliverStep DEF Deliver
<1>3. ASSUME NEW k, Unread(conn[f], k) PROVE Unread(conn'[f], k)
  <2>1. CASE conn[f].in = <<>> /\ conn[f].due = Pieces(k)
    <3>1. Append(<<>>, Pieces(k)[1]) = <<Pieces(k)[1]>>
      OBVIOUS
    <3> QED BY <1>1, <2>1, <3>1, PieceFacts DEF Unread
  <2>2. CASE conn[f].in = <<Pieces(k)[1]>> /\ conn[f].due = <<Pieces(k)[2]>>
    <3>1. Head(<<Pieces(k)[2]>>) = Pieces(k)[2] /\ Tail(<<Pieces(k)[2]>>) = <<>>
      OBVIOUS
    <3> QED BY <1>1, <2>2, <3>1, PieceFacts DEF Unread
  <2> QED BY <1>1, <1>3, <2>1, <2>2 DEF Unread
<1>4. ASSUME NEW k, HalfRead(conn[f], k) PROVE HalfRead(conn'[f], k)
  <2>1. conn[f].in = <<>> /\ conn[f].due = <<Pieces(k)[2]>>
    BY <1>1, <1>4 DEF HalfRead
  <2>2. /\ Head(<<Pieces(k)[2]>>) = Pieces(k)[2] /\ Tail(<<Pieces(k)[2]>>) = <<>>
        /\ Append(<<>>, Pieces(k)[2]) = <<Pieces(k)[2]>>
    OBVIOUS
  <2> QED BY <1>1, <2>1, <2>2 DEF HalfRead
<1>5. ASSUME NEW i \in InFlight' PROVE ItemWire(i)'
  <2>1. i \in InFlight /\ item[i].fd \in Fd /\ ItemWire(i) /\ (AtBody(i) => AtBody(i)')
    BY <1>2, OnItsWay DEF FlightKept, Wires, AtBody
  <2>2. CASE item[i].fd = f
    <3>1. CASE AtBody(i)
      BY <2>1, <3>1 DEF ItemWire
    <3>2. CASE conn[f].torn
      BY <1>1, <1>2, <2>2, <3>2 DEF ItemWire
    <3>3. CASE Unread(conn[f], item[i].call)
      BY <1>2, <1>3, <2>2, <3>3 DEF ItemWire
    <3> QED BY <2>1, <2>2, <3>1, <3>2, <3>3 DEF ItemWire
  <2>3. CASE item[i].fd # f
    BY <1>1, <1>2, <2>1, <2>3, ItemWireKept
  <2> QED BY <2>2, <2>3
<1>6. ASSUME NEW t \in Slot, rx'[t].pc = "body" PROVE BodyWire(t)'
  <2> DEFINE i == rx[t].item
  <2>1. i \in InFlight /\ item[i].fd \in Fd /\ BodyWire(t)
    BY <1>2, <1>6, BodyItem, OnItsWay DEF Wires
  <2>2. CASE item[i].fd = f
    <3>1. CASE conn[f].torn
      BY <1>1, <1>2, <2>2, <3>1 DEF BodyWire
    <3>2. CASE rx[t].msg.id = item[i].call /\ HalfRead(conn[f], item[i].call)
      BY <1>2, <1>4, <2>2, <3>2 DEF BodyWire
    <3> QED BY <2>1, <2>2, <3>1, <3>2 DEF BodyWire
  <2>3. CASE item[i].fd # f
    BY <1>1, <1>2, <2>1, <2>3, BodyWireKept
  <2> QED BY <2>2, <2>3
<1>7. ASSUME NEW g \in ToSet(pool') PROVE PoolWire(g)'
  <2>1. g \in Fd /\ PoolWire(g)
    BY <1>2, OneCarrier DEF Wires
  <2>2. CASE g = f
    BY <1>1, <2>1, <2>2 DEF PoolWire
  <2>3. CASE g # f
    BY <1>1, <2>1, <2>3 DEF PoolWire
  <2> QED BY <2>2, <2>3
<1> QED BY <1>5, <1>6, <1>7 DEF Wires

\* A receiver about to read a header: the whole answer is still to be read.
LEMMA HeaderWire ==
  ASSUME IInv, Wires, NEW t \in Slot, rx[t].pc = "header"
  PROVE  conn[ItemFd(t)].torn \/ Unread(conn[ItemFd(t)], ItemCall(t))
<1>1. rx[t].item \in InFlight /\ \A u \in Slot \ {t} : rx[u].item # rx[t].item
  BY ReceiverFacts DEF Receiving
<1>2. ~ AtBody(rx[t].item)
  BY <1>1 DEF AtBody
<1> QED BY <1>1, <1>2 DEF Wires, ItemWire, ItemFd, ItemCall

\* What has come is not the beginning of a header: a part of one was lost before.
LEMMA OutOfStep ==
  ASSUME IInv, Wires, NEW t \in Slot, rx[t].pc = "header", In(t) # <<>>, ~InStep(t)
  PROVE  conn[ItemFd(t)].torn
<1> DEFINE k == ItemCall(t)
<1> SUFFICES ASSUME Unread(conn[ItemFd(t)], k) PROVE FALSE
  BY HeaderWire
<1>1. In(t) = <<Pieces(k)[1]>> \/ In(t) = Pieces(k)
  BY DEF Unread, In
<1>2. Pieces(k)[1].part = "h" /\ <<Pieces(k)[1]>>[1] = Pieces(k)[1]
  BY PieceFacts
<1>3. In(t)[1].part = "h"
  BY <1>1, <1>2
<1> QED BY <1>3 DEF InStep

\* A connection that is closed holds nothing, and is not in the pool.
LEMMA FailWires ==
  ASSUME IInv, Wires, ReplyMatches, NEW t \in Slot, rx[t].pc \in Receiving,
         NEW buf \in {"stack", "heap", "null", "freed"}, Fail(t, buf)
  PROVE  Wires' /\ ReplyMatches'
<1>1. PICK d : d = ItemFd(t)
  OBVIOUS
<1>2. d \in Fd /\ rx[t].item \in InFlight /\ item[rx[t].item].fd = d /\ ItemCall(t) \in Call
  BY <1>1, ReceiverFacts DEF ItemFd
<1>3. d \notin ToSet(pool)
  BY <1>2, OneCarrier
<1>4. conn' = Closed(d) /\ UNCHANGED pool /\ Answer(ItemCall(t), "FAIL")
  BY <1>1 DEF Fail
<1>5. \A g \in Fd \ {d} : conn'[g] = conn[g]
  BY <1>2, <1>4, ClosedDoes
<1>6. Ends(t)
  BY FailStep
<1>7. Wires'
  BY <1>1, <1>3, <1>4, <1>5, <1>6, EndWires
<1>8. "FAIL" \in Reports /\ "FAIL" # "OTHER"
  BY DEF Reports
<1> QED BY <1>2, <1>4, <1>7, <1>8, HonestReport

\* A reply read to its end leaves nothing on the connection that goes to the pool.
LEMMA SucceedWires ==
  ASSUME IInv, Wires, ReplyMatches, NEW t \in Slot, rx[t].pc \in Receiving,
         NEW buf \in {"stack", "heap", "null", "freed"}, NEW id, NEW k \in 0 .. Len(In(t)),
         Succeed(t, buf, id, k),
         \/ conn[ItemFd(t)].torn
         \/ /\ id = ItemCall(t) /\ conn[ItemFd(t)].due = <<>>
            /\ SubSeq(In(t), k + 1, Len(In(t))) = <<>>
  PROVE  Wires' /\ ReplyMatches'
<1>1. PICK d : d = ItemFd(t)
  OBVIOUS
<1>2. d \in Fd /\ rx[t].item \in InFlight /\ item[rx[t].item].fd = d /\ ItemCall(t) \in Call
  BY <1>1, ReceiverFacts DEF ItemFd
<1>3. d \notin ToSet(pool) /\ pool \in Seq(Fd)
  BY <1>2, OneCarrier DEF IInv, Shape, TypeOK
<1>4. /\ conn' = Consumed(t, k) /\ pool' = Append(pool, d)
      /\ UNCHANGED answer \/ Answer(ItemCall(t), Told(t, id))
  BY <1>1 DEF Succeed
<1>5. /\ conn'[d].in = SubSeq(In(t), k + 1, Len(In(t)))
      /\ conn'[d].due = conn[d].due /\ conn'[d].torn = conn[d].torn
      /\ \A g \in Fd \ {d} : conn'[g] = conn[g]
  BY <1>1, <1>4, ConsumedDoes
<1>6. Ends(t)
  BY SucceedStep
<1>7. PoolWire(d)'
  BY <1>1, <1>5 DEF PoolWire
<1>8. ASSUME NEW g \in ToSet(pool') PROVE (g \in ToSet(pool) /\ g # d) \/ (g = d /\ PoolWire(d)')
  <2>1. PICK n \in DOMAIN Append(pool, d) : Append(pool, d)[n] = g
    BY <1>4 DEF ToSet
  <2>2. CASE n = Len(pool) + 1
    BY <1>2, <1>3, <1>7, <2>1, <2>2
  <2>3. CASE n # Len(pool) + 1
    <3>1. n \in DOMAIN pool /\ pool[n] = g
      BY <1>2, <1>3, <2>1, <2>3
    <3> QED BY <1>3, <3>1 DEF ToSet
  <2> QED BY <2>2, <2>3
<1>9. Wires'
  BY <1>1, <1>5, <1>6, <1>8, EndWires
<1>10. Told(t, id) \in Reports /\ Told(t, id) # "OTHER"
  BY DEF Told, Reports
<1>11. ReplyMatches'
  <2>1. CASE UNCHANGED answer
    BY <2>1 DEF ReplyMatches
  <2>2. CASE Answer(ItemCall(t), Told(t, id))
    BY <1>2, <1>10, <2>2, HonestReport
  <2> QED BY <1>4, <2>1, <2>2
<1> QED BY <1>9, <1>11

\* The second half of a pair.
LEMMA SecondOfTwo ==
  ASSUME NEW a, NEW b
  PROVE  SubSeq(<<a, b>>, 2, 2) = <<<<a, b>>[2]>>
<1>1. <<a, b>> \in Seq({a, b}) /\ Len(<<a, b>>) = 2
  OBVIOUS
<1> DEFINE p == <<a, b>>
<1> HIDE DEF p
<1>2. p \in Seq({a, b}) /\ Len(p) = 2
  BY <1>1 DEF p
<1> DEFINE r == SubSeq(p, 2, 2)
<1>3. r \in Seq({a, b}) /\ Len(r) = 1 /\ r[1] = p[2]
  <2>1. \A n \in 2 .. 2 : p[n] \in {a, b}
    BY <1>2
  <2>2. r \in Seq({a, b}) /\ Len(r) = 2 - 2 + 1
    BY <2>1, SubSeqProperties
  <2>3. r[1] = p[2 + 1 - 1]
    <3>1. 1 \in 1 .. (2 - 2 + 1)
      OBVIOUS
    <3> QED BY <2>1, <3>1, SubSeqProperties
  <2> QED BY <2>2, <2>3
<1> HIDE DEF r
<1>4. r = <<p[2]>>
  BY <1>3
<1> QED BY <1>4 DEF p, r

\* The header of a reply has been read and speaks of a body to come.
LEMMA BodyWires ==
  ASSUME IInv, Wires, NEW t \in Slot, rx[t].pc = "header", NEW m \in Header,
         NEW k \in 0 .. Len(In(t)), conn' = Consumed(t, k),
         UpdR(t, [rx[t] EXCEPT !.pc = "body", !.msg = m]),
         UNCHANGED <<sx, main, q, freepool, item, lost, pool, refs, num, count, calls, passed,
                     answer>>,
         \/ conn[ItemFd(t)].torn
         \/ Whole(t) /\ k = 1 /\ m.id = In(t)[1].id
  PROVE  Wires'
<1>1. PICK d, i : d = ItemFd(t) /\ i = rx[t].item
  OBVIOUS
<1>2. /\ FlightKept /\ d \in Fd /\ item[i].fd = d /\ item[i].call = ItemCall(t)
      /\ rx[t] \in Receiver /\ rx[t].pc \in Receiving
  BY <1>1, BodyStep, ReceiverFacts DEF ItemFd, ItemCall, Receiving
<1>3. rx'[t] = [rx[t] EXCEPT !.pc = "body", !.msg = m] /\ \A u \in Slot \ {t} : rx'[u] = rx[u]
  BY DEF UpdR, IInv, Shape, TypeOK
<1>4. rx'[t].pc = "body" /\ rx'[t].msg = m /\ rx'[t].item = i
  BY <1>1, <1>2, <1>3 DEF Receiver
<1>5. /\ conn'[d].in = SubSeq(In(t), k + 1, Len(In(t)))
      /\ conn'[d].due = conn[d].due /\ conn'[d].torn = conn[d].torn
      /\ \A g \in Fd \ {d} : conn'[g] = conn[g]
  BY <1>1, <1>2, ConsumedDoes
<1>6. ItemWire(i)'
  BY <1>4 DEF ItemWire, AtBody
<1>7. BodyWire(t)'
  <2>1. CASE conn[d].torn
    BY <1>2, <1>4, <1>5, <2>1 DEF BodyWire
  <2>2. CASE ~ conn[d].torn
    <3> DEFINE c == item[i].call
    <3>1. Whole(t) /\ k = 1 /\ m.id = In(t)[1].id /\ Unread(conn[d], c) /\ In(t) = conn[d].in
      BY <1>1, <1>2, <2>2, HeaderWire DEF In
    <3> HIDE DEF c
    <3>2. In(t) = Pieces(c) /\ conn[d].due = <<>>
      <4> DEFINE h == Pieces(c)[1]
                 w == In(t)
      <4>1. Len(w) >= 2 /\ w \in Seq(Piece)
        BY <1>2, <3>1, ReceiverFacts DEF Whole
      <4> HIDE DEF h, w
      <4>2. w # <<>> /\ w # <<h>>
        <5>1. Len(<<h>>) = 1 /\ Len(<<>>) = 0
          OBVIOUS
        <5>2. w # <<h>>
          <6> SUFFICES ASSUME w = <<h>> PROVE FALSE
            OBVIOUS
          <6>1. Len(w) = Len(<<h>>)
            OBVIOUS
          <6> QED BY <4>1, <5>1, <6>1
        <5> QED BY <4>1, <5>1, <5>2
      <4>3. In(t) # <<>> /\ In(t) # <<Pieces(c)[1]>>
        BY <4>2 DEF h, w
      <4> QED BY <3>1, <4>3 DEF Unread
    <3>3. m.id = c /\ Len(In(t)) = 2
      BY <3>1, <3>2, PieceFacts
    <3>4. SubSeq(Pieces(c), 2, 2) = <<Pieces(c)[2]>>
      BY PieceFacts, SecondOfTwo DEF Pieces
    <3>5. HalfRead(conn'[d], c) /\ rx'[t].msg.id = c
      BY <1>4, <1>5, <3>1, <3>2, <3>3, <3>4 DEF HalfRead
    <3> QED BY <1>2, <1>4, <3>5 DEF BodyWire, c
  <2> QED BY <2>1, <2>2
<1> QED BY <1>1, <1>2, <1>3, <1>5, <1>6, <1>7, TouchWires

\* A header is read: that of the item's own reply, or out of step.
LEMMA ReadHeaderWires ==
  ASSUME IInv, Wires, ReplyMatches, NEW t \in Slot, ReadHeader(t)
  PROVE  Wires' /\ ReplyMatches'
<1>1. rx[t].pc = "header" /\ rx[t].pc \in Receiving /\ In(t) # <<>>
  BY DEF ReadHeader, Receiving
<1>2. /\ rx[t].buf \in {"stack", "heap", "null", "freed"} /\ In(t) \in Seq(Piece)
      /\ Len(In(t)) \in Nat
  <2>1. rx[t] \in Receiver /\ In(t) \in Seq(Piece)
    BY <1>1, ReceiverFacts
  <2>2. rx[t].buf \in {"stack", "heap", "null", "freed"}
    BY <2>1 DEF Receiver
  <2> QED BY <2>1, <2>2
<1>3. CASE /\ Whole(t) /\ conn' = Consumed(t, 1)
           /\ UpdR(t, [rx[t] EXCEPT !.pc = "body",
                         !.msg = [id |-> In(t)[1].id, body |-> "stack"]])
           /\ UNCHANGED <<sx, main, q, freepool, item, lost, pool, refs, num,
                          count, calls, passed, answer>>
  <2> DEFINE m == [id |-> In(t)[1].id, body |-> "stack"]
  <2>1. m.id = In(t)[1].id
    OBVIOUS
  <2>2. m \in Header
    <3>1. In(t)[1] \in Piece
      BY <1>1, <1>2
    <3>2. In(t)[1].id \in 0 .. MaxCalls
      BY <3>1, LimitAssumption DEF Piece, Call
    <3> QED BY <3>2 DEF Header
  <2>3. 1 \in 0 .. Len(In(t))
    BY <1>2, <1>3 DEF Whole
  <2>4. UpdR(t, [rx[t] EXCEPT !.pc = "body", !.msg = m])
    BY <1>3
  <2> HIDE DEF m
  <2>5. Wires'
    BY <1>1, <1>3, <2>1, <2>2, <2>3, <2>4, BodyWires
  <2> QED BY <1>3, <2>5 DEF ReplyMatches
<1>4. ASSUME ~InStep(t), NEW k \in 0 .. Len(In(t)), NEW g \in Garbage,
             IF g.body = "empty" THEN Succeed(t, rx[t].buf, 0, k)
             ELSE /\ conn' = Consumed(t, k)
                  /\ UpdR(t, [rx[t] EXCEPT !.pc = "body", !.msg = g])
                  /\ UNCHANGED <<sx, main, q, freepool, item, lost, pool, refs,
                                 num, count, calls, passed, answer>>
      PROVE  Wires' /\ ReplyMatches'
  <2>1. conn[ItemFd(t)].torn
    BY <1>1, <1>4, OutOfStep
  <2>2. CASE g.body = "empty"
    BY <1>1, <1>2, <1>4, <2>1, <2>2, SucceedWires
  <2>3. CASE g.body # "empty"
    <3>1. g \in Header
      BY <1>4, <2>3, LimitAssumption DEF Garbage, Header
    <3>2. Wires'
      BY <1>1, <1>4, <2>1, <2>3, <3>1, BodyWires
    <3> QED BY <1>4, <2>3, <3>2 DEF ReplyMatches
  <2> QED BY <2>2, <2>3
<1> QED BY <1>3, <1>4 DEF ReadHeader

\* The read of a header times out: the item is put back with its connection as it
\* was, or marked, or it fails.
LEMMA HeaderTimeoutWires ==
  ASSUME IInv, Wires, ReplyMatches, NEW t \in Slot, HeaderTimeout(t)
  PROVE  Wires' /\ ReplyMatches'
<1>1. rx[t].pc = "header" /\ rx[t].pc \in Receiving
  BY DEF HeaderTimeout, Receiving
<1>2. rx[t] \in Receiver
  BY <1>1, ReceiverFacts
<1>3. rx[t].buf \in {"stack", "heap", "null", "freed"}
  BY <1>2 DEF Receiver
<1>4. CASE ~InTime(t)
  BY <1>1, <1>3, <1>4, FailWires DEF HeaderTimeout
<1>5. CASE InTime(t)
  <2>1. PICK d, i : d = ItemFd(t) /\ i = rx[t].item
    OBVIOUS
  <2>2. /\ conn' = IF In(t) = <<>> THEN conn ELSE [conn EXCEPT ![d] = Torn(@)]
        /\ UpdR(t, [rx[t] EXCEPT !.item = NULL,
                      !.pc = IF rx[t].buf = "freed" THEN "undefined" ELSE "pop"])
        /\ UNCHANGED <<pool, answer, item>>
    BY <1>5, <2>1 DEF HeaderTimeout
  <2>3. rx'[t].pc # "body" /\ rx'[t].item = NULL /\ \A u \in Slot \ {t} : rx'[u] = rx[u]
    BY <1>2, <2>2 DEF UpdR, IInv, Shape, TypeOK, Receiver
  <2>4. rx[t].item # NULL /\ i \in InFlight /\ d \in Fd
    BY <1>1, <2>1, ReceiverFacts
  <2>5. FlightKept
    BY <1>5, HeaderTimeoutStep
  <2>6. /\ \A g \in Fd \ {d} : conn'[g] = conn[g]
        /\ conn'[d] # conn[d] => conn'[d].torn
    BY <1>1, <2>1, <2>2, TornDoes
  <2>7. conn[d].torn \/ Unread(conn[d], item[i].call)
    BY <1>1, <2>1, HeaderWire DEF ItemCall
  <2>8. ItemWire(i)'
    <3>1. item'[i].fd = d /\ item'[i].call = item[i].call
      BY <2>1, <2>2 DEF ItemFd
    <3>2. CASE conn'[d] = conn[d]
      BY <2>7, <3>1, <3>2 DEF ItemWire
    <3>3. CASE conn'[d] # conn[d]
      BY <2>6, <3>1, <3>3 DEF ItemWire
    <3> QED BY <3>2, <3>3
  <2>9. Wires'
    BY <1>1, <2>1, <2>2, <2>3, <2>5, <2>6, <2>8, TouchWires
  <2> QED BY <2>2, <2>9 DEF ReplyMatches
<1> QED BY <1>4, <1>5

\* The body is read: the rest of the item's own reply, or out of step.
LEMMA ReadBodyWires ==
  ASSUME IInv, Wires, ReplyMatches, NEW t \in Slot, ReadBody(t)
  PROVE  Wires' /\ ReplyMatches'
<1> DEFINE buf == IF rx[t].msg.body = "heap" THEN "heap" ELSE rx[t].buf
           id == rx[t].msg.id
<1>1. /\ rx[t].pc = "body" /\ rx[t].pc \in Receiving /\ rx[t] \in Receiver
      /\ In(t) \in Seq(Piece) /\ ItemCall(t) \in Call
  BY ReceiverFacts DEF ReadBody, Receiving
<1>2. buf \in {"stack", "heap", "null", "freed"} /\ "null" \in {"stack", "heap", "null", "freed"}
  BY <1>1 DEF Receiver
<1>3. \/ /\ In(t) # <<>>
         /\ \E k \in IF id # 0 THEN {1} ELSE 0 .. Len(In(t)) : Succeed(t, buf, id, k)
      \/ Fail(t, buf)
      \/ Fail(t, "null")
  BY DEF ReadBody
<1> HIDE DEF buf
<1>4. ASSUME In(t) # <<>>, NEW k \in IF id # 0 THEN {1} ELSE 0 .. Len(In(t)),
             Succeed(t, buf, id, k)
      PROVE  Wires' /\ ReplyMatches'
  <2>1. k \in 0 .. Len(In(t))
    BY <1>1, <1>4
  <2> DEFINE d == ItemFd(t)
             c == ItemCall(t)
  <2>2. conn[d].torn \/ (id = c /\ HalfRead(conn[d], c))
    BY <1>1 DEF Wires, BodyWire, ItemFd, ItemCall
  <2>3. ASSUME id = c, HalfRead(conn[d], c)
        PROVE  conn[d].due = <<>> /\ SubSeq(In(t), k + 1, Len(In(t))) = <<>>
    <3>1. In(t) = <<Pieces(c)[2]>> /\ conn[d].due = <<>>
      BY <1>4, <2>3 DEF HalfRead, In
    <3>2. Len(In(t)) = 1
      BY <3>1, PieceFacts
    <3>3. k = 1
      BY <1>1, <1>4, <2>3, LimitAssumption DEF Call
    <3>4. SubSeq(In(t), 2, 1) = <<>>
      BY <1>1
    <3> QED BY <3>1, <3>2, <3>3, <3>4
  <2> HIDE DEF id, d, c
  <2>4. \/ conn[ItemFd(t)].torn
        \/ /\ id = ItemCall(t) /\ conn[ItemFd(t)].due = <<>>
           /\ SubSeq(In(t), k + 1, Len(In(t))) = <<>>
    BY <2>2, <2>3 DEF d, c
  <2> QED BY <1>1, <1>2, <1>4, <2>1, <2>4, SucceedWires
<1> QED BY <1>1, <1>2, <1>3, <1>4, FailWires

\* The connection fails before a header has come.
LEMMA HeaderFailsWires ==
  ASSUME IInv, Wires, ReplyMatches, NEW t \in Slot, HeaderFails(t)
  PROVE  Wires' /\ ReplyMatches'
<1>1. rx[t].pc \in Receiving /\ Fail(t, rx[t].buf)
  BY DEF HeaderFails, Receiving
<1>2. rx[t] \in Receiver
  BY <1>1, ReceiverFacts
<1>3. rx[t].buf \in {"stack", "heap", "null", "freed"}
  BY <1>2 DEF Receiver
<1> QED BY <1>1, <1>3, FailWires

\* Every step keeps the answers on the connections of their calls.
LEMMA NextWires == IInv /\ Wires /\ ReplyMatches /\ [Next]_vars => Wires' /\ ReplyMatches'
<1> SUFFICES ASSUME IInv, Wires, ReplyMatches, [Next]_vars PROVE Wires' /\ ReplyMatches'
  OBVIOUS
<1>0. TypeOK /\ rx \in [Slot -> Receiver]
  BY DEF IInv, Shape, TypeOK
<1>1. ASSUME FlightKept, UNCHANGED <<pool, conn>>,
             \A t \in Slot : rx[t].pc = "body" \/ rx'[t].pc = "body" => rx'[t] = rx[t]
      PROVE  Wires'
  BY <1>1, KeepWires
<1>2. ASSUME UNCHANGED answer PROVE ReplyMatches'
  BY <1>2 DEF ReplyMatches
<1>3. CASE UNCHANGED vars
  <2>1. passed' \subseteq Call
    BY <1>3, <1>0 DEF vars, TypeOK
  <2> QED BY <1>1, <1>2, <1>3, <2>1, ClockStep DEF vars
<1>4. CASE citrusleaf_async_init
  <2>1. UNCHANGED <<pool, conn, answer>> /\ FlightKept
    BY <1>4, InitStep DEF citrusleaf_async_init
  <2>2. ASSUME NEW t \in Slot, rx[t].pc = "body" \/ rx'[t].pc = "body" PROVE rx'[t] = rx[t]
    <3>1. rx[t].pc = "none"
      BY <1>4 DEF IInv, ThreadsOK, citrusleaf_async_init
    <3>2. rx' = Created(1 .. num')
      BY <1>4 DEF citrusleaf_async_init
    <3> QED BY <1>0, <2>2, <3>1, <3>2 DEF Created, Receiver
  <2> QED BY <1>1, <1>2, <2>1, <2>2
<1>5. ASSUME NEW n \in ReinitThreads, citrusleaf_async_reinit(n) PROVE Wires' /\ ReplyMatches'
  <2>1. UNCHANGED <<pool, conn, answer>> /\ FlightKept
    BY <1>5, ReinitStep DEF citrusleaf_async_reinit
  <2>2. ASSUME NEW t \in Slot, rx[t].pc = "body" \/ rx'[t].pc = "body" PROVE rx'[t] = rx[t]
    <3>1. CASE UNCHANGED rx
      BY <3>1
    <3>2. CASE rx' = Created((num + 1) .. Clamped(n))
      <4>1. CASE t \in (num + 1) .. Clamped(n)
        <5>1. t > num /\ rx[t].pc = "none"
          BY <1>0, <1>5, <4>1 DEF IInv, ThreadsOK, citrusleaf_async_reinit, TypeOK
        <5>2. rx'[t] = [rx[t] EXCEPT !.pc = "start"]
          BY <3>2, <4>1 DEF Created
        <5> QED BY <1>0, <2>2, <5>1, <5>2 DEF Receiver
      <4>2. CASE t \notin (num + 1) .. Clamped(n)
        BY <3>2, <4>2 DEF Created
      <4> QED BY <4>1, <4>2
    <3> QED BY <1>5, <3>1, <3>2 DEF citrusleaf_async_reinit
  <2> QED BY <1>1, <1>2, <2>1, <2>2
<1>6. CASE ShutdownSend \/ ShutdownJoin
  <2>1. UNCHANGED <<rx, pool, conn, answer>> /\ FlightKept
    BY <1>6, ShutdownSendStep, ShutdownJoinStep DEF ShutdownSend, ShutdownJoin
  <2> QED BY <1>1, <1>2, <2>1
<1>7. ASSUME NEW s \in Sender, NEW a \in Reports, a # "OTHER",
             sx[s].pc # "idle", UNCHANGED answer \/ Answer(sx[s].call, a)
      PROVE  ReplyMatches'
  <2>1. sx[s].call \in Call
    BY <1>7, SenderFacts
  <2> QED BY <1>2, <1>7, <2>1, HonestReport
<1>8. /\ {"ASYNCQ_FULL", "CLIENT", "TIMEOUT", "ACCEPTED"} \subseteq Reports
      /\ "OTHER" \notin {"ASYNCQ_FULL", "CLIENT", "TIMEOUT", "ACCEPTED"}
  BY DEF Reports
<1>9. ASSUME NEW s \in Sender, SendBegin(s) PROVE Wires' /\ ReplyMatches'
  <2>1. UNCHANGED <<rx, pool, conn>> /\ FlightKept
    BY <1>9, SendBeginStep DEF SendBegin
  <2>2. calls' \in Call /\ (UNCHANGED answer \/ Answer(calls', "ASYNCQ_FULL"))
    <3>1. calls \in 0 .. MaxCalls /\ calls < MaxCalls /\ calls' = calls + 1
      BY <1>0, <1>9 DEF SendBegin, TypeOK
    <3>2. calls' \in Call
      BY <3>1, LimitAssumption DEF Call
    <3> QED BY <1>9, <3>2 DEF SendBegin
  <2>3. ReplyMatches'
    BY <1>2, <1>8, <2>2, HonestReport
  <2> QED BY <1>1, <2>1, <2>3
<1>10. ASSUME NEW s \in Sender, SendItem(s) \/ SendPop(s) PROVE Wires' /\ ReplyMatches'
  <2>1. UNCHANGED <<rx, pool, conn>> /\ FlightKept /\ sx[s].pc # "idle"
    BY <1>10, SendItemStep, SendPopStep DEF SendItem, SendPop
  <2>2. UNCHANGED answer \/ Answer(sx[s].call, "CLIENT")
    BY <1>10 DEF SendItem, SendPop
  <2> QED BY <1>1, <1>7, <1>8, <2>1, <2>2
<1>11. ASSUME NEW s \in Sender, SendOk(s) PROVE Wires' /\ ReplyMatches'
  <2>1. PICK f \in TryFd :
          /\ conn' = [conn EXCEPT ![f] = Asked(IF @ = NULL THEN NewConn ELSE @, sx[s].call)]
          /\ Accept(s, f)
    BY <1>11 DEF SendOk
  <2>2. Answer(sx[s].call, "ACCEPTED") /\ sx[s].pc # "idle"
    BY <1>11, <2>1 DEF Accept, SendOk
  <2>3. Wires'
    BY <1>11, <2>1, SendWires DEF SendOk
  <2> QED BY <1>7, <1>8, <2>2, <2>3
<1>12. ASSUME NEW s \in Sender, SendRetry(s) PROVE Wires' /\ ReplyMatches'
  <2>1. UNCHANGED rx /\ FlightKept /\ sx[s].pc # "idle"
    BY <1>12, SendRetryStep DEF SendRetry
  <2>2. UNCHANGED answer \/ Answer(sx[s].call, "TIMEOUT")
    BY <1>12 DEF SendRetry, Again
  <2>3. CASE UNCHANGED <<pool, conn>>
    BY <1>1, <1>7, <1>8, <2>1, <2>2, <2>3
  <2>4. ASSUME NEW f \in TryFd, pool' = PoolTaken, conn' = Closed(f) PROVE Wires'
    BY <2>1, <2>4, RetryWires
  <2> QED BY <1>7, <1>8, <1>12, <2>1, <2>2, <2>3, <2>4 DEF SendRetry
<1>13. ASSUME NEW t \in Slot, ReceiverStart(t) \/ ReceiverPop(t) PROVE Wires' /\ ReplyMatches'
  <2>1. UNCHANGED <<pool, conn, answer>> /\ FlightKept /\ rx[t].pc \in {"start", "pop"}
    BY <1>13, ReceiverStartStep, ReceiverPopStep DEF ReceiverStart, ReceiverPop
  <2>2. rx'[t].pc # "body" /\ \A u \in Slot \ {t} : rx'[u] = rx[u]
    BY <1>0, <1>13 DEF ReceiverStart, ReceiverPop, UpdR, Receiver
  <2> QED BY <1>1, <1>2, <2>1, <2>2
<1>14. ASSUME NEW t \in Slot, Receive(t) PROVE Wires' /\ ReplyMatches'
  BY <1>13, <1>14, ReadHeaderWires, HeaderTimeoutWires, HeaderFailsWires, ReadBodyWires
     DEF Receive
<1>15. ASSUME NEW f \in Fd, Deliver(f) PROVE Wires' /\ ReplyMatches'
  BY <1>2, <1>15, DeliverWires DEF Deliver
<1>16. ASSUME NEW c \in Call, DeadlinePasses(c) PROVE Wires' /\ ReplyMatches'
  <2>1. passed' \subseteq Call
    BY <1>0, <1>16 DEF DeadlinePasses, TypeOK
  <2> QED BY <1>1, <1>2, <1>16, <2>1, ClockStep DEF DeadlinePasses
<1>17. ASSUME NEW s \in Sender, SendBegin(s) \/ Send(s) PROVE Wires' /\ ReplyMatches'
  BY <1>9, <1>10, <1>11, <1>12, <1>17 DEF Send
<1> QED BY <1>3, <1>4, <1>5, <1>6, <1>14, <1>15, <1>16, <1>17 DEF Next, Step

\* No connection is open at the start.
LEMMA InitWires == Init => Wires /\ ReplyMatches
<1> SUFFICES ASSUME Init PROVE Wires /\ ReplyMatches
  OBVIOUS
<1> USE DEF Init
<1>1. InFlight = {}
  BY DEF InFlight
<1>2. ToSet(pool) = {} /\ ToSet(<<>>) = {}
  BY DEF ToSet
<1>3. Wires
  BY <1>1, <1>2 DEF Wires
<1>4. ReplyMatches
  BY <1>2 DEF ReplyMatches
<1> QED BY <1>3, <1>4

\* In every reachable state a connection holds the rest of the answer its item waits
\* for, and a pooled one nothing, unless a part of a header was lost on it.
THEOREM WiresInvariance == Spec => [](Wires /\ ReplyMatches)
  BY InitWires, NextWires, Invariance, PTL DEF Spec

\* A caller is told of success only by the reply to its own request, unless its
\* connection lost a part of a header to a read that timed out: nothing in
\* async_receiver_fn compares the transaction ids, so this rests on which connections
\* cl_async.c puts back into conn_q_asyncfd.
THEOREM ReplyMatchesHolds == Spec => []ReplyMatches
  BY WiresInvariance, PTL

=============================================================================
