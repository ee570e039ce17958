------------------------- MODULE CfQueueWait_proofs -------------------------
(***************************************************************************)
(* cf_queue_pop and cf_queue_push lose no wakeup, for any number of        *)
(* waiting threads and any number of elements.                             *)
(***************************************************************************)
EXTENDS CfQueueWait, FiniteSetTheorems, TLAPS

\* The woken threads can be counted.
LEMMA WokenFinite ==
  ASSUME NEW p \in [Thread -> {"out", "asleep", "woken"}]
  PROVE  /\ IsFiniteSet({t \in Thread : p[t] = "woken"})
         /\ Cardinality({t \in Thread : p[t] = "woken"}) \in Nat
  BY ThreadAssumption, FS_Subset, FS_CardinalityType

\* Waking a thread adds it to the woken ones.
LEMMA WakeCounts ==
  ASSUME TypeOK, NEW t \in Thread, pc[t] # "woken",
         pc' = [pc EXCEPT ![t] = "woken"]
  PROVE  Cardinality(Woken') = Cardinality(Woken) + 1
  <1>1. Woken' = Woken \cup {t} /\ t \notin Woken
    BY DEF TypeOK, Woken
  <1>2. IsFiniteSet(Woken)
    BY WokenFinite DEF TypeOK, Woken
  <1> QED BY <1>1, <1>2, FS_AddElement

\* A woken thread that returns or sleeps again is one less.
LEMMA ResumeCounts ==
  ASSUME TypeOK, NEW t \in Thread, pc[t] = "woken",
         NEW there \in {"out", "asleep"}, pc' = [pc EXCEPT ![t] = there]
  PROVE  Cardinality(Woken') = Cardinality(Woken) - 1
  <1>1. Woken' = Woken \ {t} /\ t \in Woken
    BY DEF TypeOK, Woken
  <1>2. IsFiniteSet(Woken)
    BY WokenFinite DEF TypeOK, Woken
  <1> QED BY <1>1, <1>2, FS_RemoveElement

\* Nobody sleeps on a new queue.
LEMMA WakeupInit == Init => TypeOK /\ NoLostWakeup
  BY SizeAssumption DEF Init, TypeOK, NoLostWakeup, Asleep, Waits

\* Every step keeps the types: no call takes an element from an empty queue.
LEMMA TypeNext == TypeOK /\ [Next]_vars => TypeOK'
  <1> SUFFICES ASSUME TypeOK, [Next]_vars PROVE TypeOK'
    OBVIOUS
  <1> USE SizeAssumption DEF TypeOK
  <1>1. CASE cf_queue_push
    BY <1>1 DEF cf_queue_push, Asleep
  <1>2. CASE Remove
    BY <1>2 DEF Remove
  <1>3. ASSUME NEW t \in Thread, NEW w, NEW again, TryTake(t, w, again)
        PROVE  /\ sz' \in 0..MaxSz
               /\ pc' \in [Thread -> {"out", "asleep", "woken"}]
               /\ rv' \in [Thread -> {"none", "ok", "empty"}]
    BY <1>3 DEF TryTake, Return
  <1>4. ASSUME NEW t \in Thread, NEW w \in Waits, cf_queue_pop(t, w) PROVE TypeOK'
    BY <1>3, <1>4 DEF cf_queue_pop
  <1>5. ASSUME NEW t \in Thread, Resume(t) PROVE TypeOK'
    BY <1>3, <1>5 DEF Resume
  <1>6. ASSUME NEW t \in Thread, Expire(t) PROVE TypeOK'
    BY <1>6 DEF Expire
  <1>7. ASSUME NEW t \in Thread, SpuriousWake(t) PROVE TypeOK'
    BY <1>7 DEF SpuriousWake
  <1>8. CASE UNCHANGED vars
    BY <1>8 DEF vars
  <1> QED BY <1>1, <1>2, <1>4, <1>5, <1>6, <1>7, <1>8 DEF Next

\* Every step keeps a woken thread per element while a thread sleeps: a push
\* brings one with its element, and a thread that leaves takes an element with
\* it or found none.
LEMMA WakeupNext == TypeOK /\ NoLostWakeup /\ [Next]_vars => NoLostWakeup'
  <1> SUFFICES ASSUME TypeOK, NoLostWakeup, [Next]_vars PROVE NoLostWakeup'
    OBVIOUS
  <1>1. TypeOK'
    BY TypeNext
  <1>2. /\ sz \in Nat /\ sz' \in Nat
        /\ Cardinality(Woken) \in Nat /\ Cardinality(Woken') \in Nat
    BY <1>1, SizeAssumption, WokenFinite DEF TypeOK, Woken
  <1>3. CASE cf_queue_push
    <2>1. CASE Asleep = {} /\ pc' = pc
      BY <2>1 DEF NoLostWakeup, Asleep
    <2>2. ASSUME NEW t \in Asleep, pc' = [pc EXCEPT ![t] = "woken"]
          PROVE  NoLostWakeup'
      <3>1. t \in Thread /\ pc[t] # "woken" /\ sz <= Cardinality(Woken) /\ sz' = sz + 1
        BY <1>3 DEF Asleep, NoLostWakeup, cf_queue_push
      <3>2. Cardinality(Woken') = Cardinality(Woken) + 1
        BY <2>2, <3>1, WakeCounts
      <3>3. sz' <= Cardinality(Woken')
        BY <1>2, <3>1, <3>2
      <3> QED BY <3>3 DEF NoLostWakeup, Woken
    <2> QED BY <1>3, <2>1, <2>2 DEF cf_queue_push
  <1>4. CASE Remove
    <2>1. Asleep' = Asleep /\ Woken' = Woken /\ sz' <= sz
      BY <1>2, <1>4 DEF Remove, Asleep, Woken
    <2> QED BY <1>2, <2>1 DEF NoLostWakeup
  <1>5. ASSUME NEW t \in Thread, NEW w \in Waits, cf_queue_pop(t, w)
        PROVE  NoLostWakeup'
    <2>1. CASE sz = 0 /\ sz' = sz
      BY <1>2, <2>1 DEF NoLostWakeup
    <2>2. CASE sz > 0 /\ sz' = sz - 1 /\ Return(t, "ok")
      <3>1. Asleep' = Asleep /\ Woken' = Woken
        BY <1>5, <2>2 DEF cf_queue_pop, Return, Asleep, Woken, TypeOK
      <3> QED BY <1>2, <2>2, <3>1 DEF NoLostWakeup
    <2> QED BY <1>5, <2>1, <2>2 DEF cf_queue_pop, TryTake
  <1>6. ASSUME NEW t \in Thread, Resume(t) PROVE NoLostWakeup'
    <2>1. CASE sz = 0 /\ sz' = sz
      BY <1>2, <2>1 DEF NoLostWakeup
    <2>2. CASE sz > 0 /\ sz' = sz - 1 /\ Return(t, "ok")
      <3>1. pc[t] = "woken" /\ pc' = [pc EXCEPT ![t] = "out"]
        BY <1>6, <2>2 DEF Resume, Return
      <3>2. Cardinality(Woken') = Cardinality(Woken) - 1
        BY <3>1, ResumeCounts
      <3>3. Asleep' = Asleep
        BY <3>1 DEF Asleep, TypeOK
      <3> QED BY <1>2, <2>2, <3>2, <3>3 DEF NoLostWakeup
    <2> QED BY <1>6, <2>1, <2>2 DEF Resume, TryTake
  <1>7. ASSUME NEW t \in Thread, pc' = [pc EXCEPT ![t] = "woken"], sz' = sz
        PROVE  NoLostWakeup'
    <2>1. Asleep' \subseteq Asleep
      BY <1>7 DEF Asleep, TypeOK
    <2>2. CASE pc[t] = "woken"
      <3>1. pc' = pc
        BY <1>7, <2>2 DEF TypeOK
      <3> QED BY <3>1, <1>7 DEF NoLostWakeup, Asleep, Woken
    <2>3. CASE pc[t] # "woken"
      <3>1. Cardinality(Woken') = Cardinality(Woken) + 1
        BY <1>7, <2>3, WakeCounts
      <3>2. Asleep' # {} => sz' <= Cardinality(Woken')
        BY <1>2, <1>7, <2>1, <3>1 DEF NoLostWakeup
      <3> QED BY <3>2 DEF NoLostWakeup, Woken
    <2> QED BY <2>2, <2>3
  <1>8. CASE UNCHANGED vars
    BY <1>8 DEF vars, NoLostWakeup, Asleep, Woken
  <1> QED
    BY <1>3, <1>4, <1>5, <1>6, <1>7, <1>8 DEF Next, Expire, SpuriousWake

\* No sequence of pushes, pops, timeouts, spurious wakeups and deletes leaves a
\* thread asleep in cf_queue_pop beside an element nobody is coming for.
THEOREM NoWakeupIsLost == Spec => [](TypeOK /\ NoLostWakeup)
  BY WakeupInit, TypeNext, WakeupNext, PTL DEF Spec
=============================================================================
