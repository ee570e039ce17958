--------------------------- MODULE CfQueuePriority --------------------------
(***************************************************************************)
(* The priority queue of cf_queue.c: three plain queues under one lock and  *)
(* one condition variable, with pops that wait for ever, for a time, or not *)
(* at all.  The plain queues are the first-in first-out queues that module  *)
(* CfQueue implements.                                                      *)
(***************************************************************************)
EXTENDS Naturals, FiniteSets, Sequences

CONSTANTS
    Popper,     \* threads that pop
    MaxPush     \* bound: pushes

HIGH == 1
MEDIUM == 2
LOW == 3
Priority == {HIGH, MEDIUM, LOW}

VARIABLES
    pq,         \* the queues, by priority: the numbers of the pushes
    pushes,     \* pushes so far
    pc,         \* where each popper is
    early       \* a pop has returned something with something before it

vars == <<pq, pushes, pc, early>>

\* cf_queue_priority_create.
Init ==
    /\ pq = [p \in Priority |-> <<>>] /\ pushes = 0 /\ early = FALSE
    /\ pc = [t \in Popper |-> "idle"]

CF_Q_PRI_EMPTY == \A p \in Priority : pq[p] = <<>>

Sleeping == {t \in Popper : pc[t] \in {"forever", "timed"}}
Woken(m) == IF m = "forever" THEN "woken" ELSE "wokentimed"

\* Mutant of Signal: only a push on an empty queue signals.
SignalFirst ==
    \/ CF_Q_PRI_EMPTY /\ \E t \in Sleeping : pc' = [pc EXCEPT ![t] = Woken(@)]
    \/ (Sleeping = {} \/ ~ CF_Q_PRI_EMPTY) /\ UNCHANGED pc

\* pthread_cond_signal wakes one of the sleepers.
Signal ==
    \/ \E t \in Sleeping : pc' = [pc EXCEPT ![t] = Woken(@)]
    \/ Sleeping = {} /\ UNCHANGED pc

\* A priority that there is not: nothing is pushed or signalled.
cf_queue_priority_push(pri) ==
    /\ pushes < MaxPush /\ pushes' = pushes + 1
    /\ IF pri \in Priority
       THEN pq' = [pq EXCEPT ![pri] = Append(@, pushes)] /\ Signal
       ELSE UNCHANGED <<pq, pc>>
    /\ UNCHANGED early

\* The first element of the highest queue that has one.
Take ==
    \E p \in Priority :
        /\ pq[p] # <<>> /\ \A r \in Priority : r < p => pq[r] = <<>>
        /\ pq' = [pq EXCEPT ![p] = Tail(@)]
        /\ early' = (early \/ \E r \in Priority : \E k \in DOMAIN pq[r] :
                        r < p \/ (r = p /\ pq[r][k] < Head(pq[p])))

\* The call: an element, or a sleep, or with CF_QUEUE_NOWAIT nothing.
cf_queue_priority_pop(t, wait) ==
    /\ pc[t] = "idle" /\ UNCHANGED pushes
    /\ IF CF_Q_PRI_EMPTY
       THEN /\ pc' = [pc EXCEPT ![t] = IF wait = "nowait" THEN "idle" ELSE wait]
            /\ UNCHANGED <<pq, early>>
       ELSE Take /\ UNCHANGED pc

\* After a signal or a time out the queues are looked at again.
PopWakes(t) ==
    /\ pc[t] \in {"woken", "wokentimed", "timed"} /\ UNCHANGED pushes
    /\ IF CF_Q_PRI_EMPTY
       THEN /\ pc' = [pc EXCEPT ![t] = IF @ = "woken" THEN "forever" ELSE "idle"]
            /\ UNCHANGED <<pq, early>>
       ELSE Take /\ pc' = [pc EXCEPT ![t] = "idle"]

Next ==
    \/ \E pri \in 0 .. 3 : cf_queue_priority_push(pri)
    \/ \E t \in Popper : PopWakes(t) \/ \E w \in {"forever", "timed", "nowait"} :
                                            cf_queue_priority_pop(t, w)

-----------------------------------------------------------------------------
\* No pop returns an element while one of a higher priority, or an older one of
\* its own, is queued; and no wakeup is lost: while threads sleep there are no
\* more elements than threads on their way to take one.
Sound ==
    /\ ~ early
    /\ Sleeping # {} =>
        Len(pq[HIGH]) + Len(pq[MEDIUM]) + Len(pq[LOW])
            <= Cardinality({t \in Popper : pc[t] \in {"woken", "wokentimed"}})

=============================================================================
