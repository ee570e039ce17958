----------------------------- MODULE CfQueueWait ----------------------------
(***************************************************************************)
(* The waiting side of a thread-safe cf_queue: threads block in            *)
(* cf_queue_pop on the queue's condition variable and pushes wake them.    *)
(* CfQueue has the elements; here only their number counts.  A step is     *)
(* what a thread does between taking the mutex and giving it up, in        *)
(* pthread_cond_wait or at the end of the call.                            *)
(***************************************************************************)
EXTENDS Integers, FiniteSets

CONSTANTS Thread,      \* the threads that pop
          MaxSz        \* bound: pushes stop at this many elements

ASSUME ThreadAssumption == IsFiniteSet(Thread)
ASSUME SizeAssumption == MaxSz \in Nat

VARIABLES sz,          \* CF_Q_SZ
          pc,          \* where a thread is: outside, asleep in the wait, woken
          wait,        \* its ms_wait
          expired,     \* its ms_wait has passed
          rv           \* what its last pop returned

vars == <<sz, pc, wait, expired, rv>>

Waits == {"forever", "nowait", "timed"}

Asleep == {t \in Thread : pc[t] = "asleep"}
Woken == {t \in Thread : pc[t] = "woken"}

Init ==
  /\ sz = 0
  /\ pc = [t \in Thread |-> "out"]
  /\ wait = [t \in Thread |-> "nowait"]
  /\ expired = [t \in Thread |-> FALSE]
  /\ rv = [t \in Thread |-> "none"]

Return(t, result) ==
  /\ pc' = [pc EXCEPT ![t] = "out"]
  /\ rv' = [rv EXCEPT ![t] = result]

\* Mutant of TryTake: a timed pop that wakes to an empty queue waits again.
TryTakeForever(t, w, again) ==
  \/ sz > 0 /\ sz' = sz - 1 /\ Return(t, "ok")
  \/ sz = 0 /\ w = "nowait" /\ Return(t, "empty") /\ UNCHANGED sz
  \/ /\ sz = 0
     /\ w # "nowait"
     /\ pc' = [pc EXCEPT ![t] = "asleep"]
     /\ UNCHANGED <<sz, rv>>

\* The while loop of cf_queue_pop, from its test on; the mutex is held.
TryTake(t, w, again) ==
  \/ sz > 0 /\ sz' = sz - 1 /\ Return(t, "ok")
  \/ /\ sz = 0
     /\ w = "nowait" \/ (w = "timed" /\ again)
     /\ Return(t, "empty")
     /\ UNCHANGED sz
  \/ /\ sz = 0
     /\ w = "forever" \/ (w = "timed" /\ ~again)
     /\ pc' = [pc EXCEPT ![t] = "asleep"]
     /\ UNCHANGED <<sz, rv>>

\* A thread enters cf_queue_pop.
cf_queue_pop(t, w) ==
  /\ pc[t] = "out"
  /\ wait' = [wait EXCEPT ![t] = w]
  /\ expired' = [expired EXCEPT ![t] = FALSE]
  /\ TryTake(t, w, FALSE)

\* Mutant of Resume: after pthread_cond_wait the mutex is never had again.
ResumeBlocked(t) ==
  /\ pc[t] = "woken"
  /\ wait[t] = "timed"
  /\ TryTake(t, wait[t], TRUE)
  /\ UNCHANGED <<wait, expired>>

\* It has the mutex again after pthread_cond_wait or pthread_cond_timedwait.
Resume(t) ==
  /\ pc[t] = "woken"
  /\ TryTake(t, wait[t], TRUE)
  /\ UNCHANGED <<wait, expired>>

\* Mutant of cf_queue_push: it signals only when the queue was empty.
PushSignalsIfEmpty ==
  /\ sz < MaxSz
  /\ sz' = sz + 1
  /\ \/ (Asleep = {} \/ sz > 0) /\ pc' = pc
     \/ sz = 0 /\ \E t \in Asleep : pc' = [pc EXCEPT ![t] = "woken"]
  /\ UNCHANGED <<wait, expired, rv>>

\* The end of cf_queue_push and cf_queue_push_limit: the element is stored and
\* pthread_cond_signal wakes a waiting thread, if there is one.
cf_queue_push ==
  /\ sz < MaxSz
  /\ sz' = sz + 1
  /\ \/ Asleep = {} /\ pc' = pc
     \/ \E t \in Asleep : pc' = [pc EXCEPT ![t] = "woken"]
  /\ UNCHANGED <<wait, expired, rv>>

\* cf_queue_delete and cf_queue_reduce take elements without a signal.
Remove ==
  /\ sz > 0
  /\ sz' = sz - 1
  /\ UNCHANGED <<pc, wait, expired, rv>>

\* The time of a timed wait passes, asleep or not.
Expire(t) ==
  /\ pc[t] # "out"
  /\ wait[t] = "timed"
  /\ ~expired[t]
  /\ expired' = [expired EXCEPT ![t] = TRUE]
  /\ pc' = [pc EXCEPT ![t] = "woken"]
  /\ UNCHANGED <<sz, wait, rv>>

\* POSIX lets a wait end without a signal.
SpuriousWake(t) ==
  /\ pc[t] = "asleep"
  /\ pc' = [pc EXCEPT ![t] = "woken"]
  /\ UNCHANGED <<sz, wait, expired, rv>>

Next ==
  \/ cf_queue_push
  \/ Remove
  \/ \E t \in Thread :
       \/ \E w \in Waits : cf_queue_pop(t, w)
       \/ Resume(t)
       \/ Expire(t)
       \/ SpuriousWake(t)

Spec == Init /\ [][Next]_vars

\* A woken thread gets the mutex some day, and time passes.
Fairness == \A t \in Thread : WF_vars(Resume(t)) /\ WF_vars(Expire(t))

FairSpec == Spec /\ Fairness

-----------------------------------------------------------------------------
\* Every variable has its type: the count of elements never goes below zero.
TypeOK ==
  /\ sz \in 0..MaxSz
  /\ pc \in [Thread -> {"out", "asleep", "woken"}]
  /\ wait \in [Thread -> Waits]
  /\ expired \in [Thread -> BOOLEAN]
  /\ rv \in [Thread -> {"none", "ok", "empty"}]

\* No wakeup is lost: while a thread sleeps in cf_queue_pop, every element in
\* the queue has a woken thread of its own on the way to it.  A push must
\* therefore signal every time, not only when the queue was empty.
NoLostWakeup == Asleep # {} => sz <= Cardinality(Woken)

\* Threads asleep beside a queue with elements do not stay so: a woken thread
\* comes and takes them.
SleepersServed == (Asleep # {} /\ sz > 0) ~> (Asleep = {} \/ sz = 0)

\* A timed pop returns, with an element or without.
TimedPopReturns ==
  \A t \in Thread : (pc[t] # "out" /\ wait[t] = "timed") ~> (pc[t] = "out")
=============================================================================
