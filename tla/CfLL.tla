-------------------------------- MODULE CfLL --------------------------------
(***************************************************************************)
(* The doubly linked list of cf_ll.c.  A list L is a record of the header   *)
(* (head, tail, sz) and of the next and prev pointers of the elements; each *)
(* operator returns the list after the call.  The elements belong to the    *)
(* caller: an operation sets only the pointers the code sets, so that an    *)
(* element that was deleted keeps its own next and prev.                    *)
(***************************************************************************)
EXTENDS Naturals, Sequences, SequencesExt

CONSTANT NULL

\* cf_ll_init, with elements E that are in no list yet.
cf_ll_init(E) ==
    [head |-> NULL, tail |-> NULL, sz |-> 0,
     next |-> [e \in E |-> NULL], prev |-> [e \in E |-> NULL]]

Alone(L, e) ==
    [L EXCEPT !.head = e, !.tail = e, !.next[e] = NULL, !.prev[e] = NULL, !.sz = @ + 1]

cf_ll_prepend(L, e) ==
    IF L.head = NULL THEN Alone(L, e)
    ELSE [L EXCEPT !.next[e] = L.head, !.prev[e] = NULL, !.prev[L.head] = e,
                   !.head = e, !.sz = @ + 1]

cf_ll_append(L, e) ==
    IF L.head = NULL THEN Alone(L, e)
    ELSE [L EXCEPT !.next[e] = NULL, !.prev[e] = L.tail, !.next[L.tail] = e,
                   !.tail = e, !.sz = @ + 1]

cf_ll_insert_after(L, cur, ins) ==
    LET n == L.next[cur]
        M == [L EXCEPT !.next[ins] = n, !.prev[ins] = cur, !.sz = @ + 1]
        K == IF n = NULL THEN [M EXCEPT !.tail = ins] ELSE [M EXCEPT !.prev[n] = ins]
    IN [K EXCEPT !.next[cur] = ins]

cf_ll_insert_before(L, cur, ins) ==
    LET p == L.prev[cur]
        M == [L EXCEPT !.next[ins] = cur, !.prev[ins] = p, !.sz = @ + 1]
        K == IF p = NULL THEN [M EXCEPT !.head = ins] ELSE [M EXCEPT !.next[p] = ins]
    IN [K EXCEPT !.prev[cur] = ins]

\* Mutant of cf_ll_delete: the new head keeps its pointer to the old one.
DeleteKeepsPrev(L, e) ==
    IF L.sz = 0 THEN L
    ELSE IF L.sz = 1 THEN [L EXCEPT !.head = NULL, !.tail = NULL, !.sz = 0]
    ELSE IF e = L.head THEN [L EXCEPT !.head = L.next[e], !.sz = @ - 1]
    ELSE IF e = L.tail
    THEN [L EXCEPT !.tail = L.prev[e], !.next[L.prev[e]] = NULL, !.sz = @ - 1]
    ELSE [L EXCEPT !.next[L.prev[e]] = L.next[e], !.prev[L.next[e]] = L.prev[e],
                   !.sz = @ - 1]

\* The element is trusted to be in the list: with one element left, whatever
\* is deleted empties it.
cf_ll_delete(L, e) ==
    IF L.sz = 0 THEN L
    ELSE IF L.sz = 1 THEN [L EXCEPT !.head = NULL, !.tail = NULL, !.sz = 0]
    ELSE IF e = L.head
    THEN [L EXCEPT !.head = L.next[e], !.prev[L.next[e]] = NULL, !.sz = @ - 1]
    ELSE IF e = L.tail
    THEN [L EXCEPT !.tail = L.prev[e], !.next[L.prev[e]] = NULL, !.sz = @ - 1]
    ELSE [L EXCEPT !.next[L.prev[e]] = L.next[e], !.prev[L.next[e]] = L.prev[e],
                   !.sz = @ - 1]

\* cf_ll_delete would write through a null pointer.
DeleteFaults(L, e) ==
    /\ L.sz > 1
    /\ \/ L.next[e] = NULL /\ e # L.tail
       \/ L.prev[e] = NULL /\ e # L.head

-----------------------------------------------------------------------------
Step(L, forward, e) == IF forward THEN L.next[e] ELSE L.prev[e]
First(L, forward) == IF forward THEN L.head ELSE L.tail

\* The elements met from one end, in the order of a walk; n bounds the walk.
Start(L, forward) ==
    IF First(L, forward) = NULL THEN <<>> ELSE <<First(L, forward)>>
Longer(L, forward, p) ==
    IF p = <<>> \/ Step(L, forward, Last(p)) = NULL THEN p
    ELSE Append(p, Step(L, forward, Last(p)))
Walk(L, forward, n) ==
    LET w[k \in 0 .. n] ==
        IF k = 0 THEN Start(L, forward) ELSE Longer(L, forward, w[k - 1])
    IN w[n]

\* cf_ll_reduce with a callback that answers CF_LL_REDUCE_DELETE for the
\* elements of D, ends the walk at those of X and goes on at the others: the
\* list after it and the elements visited.
Reduced(L, forward, D, X, n) ==
    LET r[k \in 0 .. n] ==
        IF k = 0 THEN [list |-> L, cur |-> First(L, forward), seen |-> <<>>]
        ELSE LET p == r[k - 1]
             IN IF p.cur = NULL THEN p
                ELSE [list |-> IF p.cur \in D THEN cf_ll_delete(p.list, p.cur) ELSE p.list,
                      cur  |-> IF p.cur \in X THEN NULL ELSE Step(p.list, forward, p.cur),
                      seen |-> Append(p.seen, p.cur)]
    IN r[n]

cf_ll_reduce(L, forward, D, X, n) == Reduced(L, forward, D, X \ D, n).list

\* cf_ll_insert_reduce with a callback that asks for the insertion at the first
\* element in P, or at the end when the walk meets none.
cf_ll_insert_reduce(L, e, forward, P, n) ==
    LET hits == SelectSeq(Walk(L, forward, n), LAMBDA c : c \in P)
    IN IF hits # <<>>
       THEN IF forward THEN cf_ll_insert_before(L, hits[1], e)
            ELSE cf_ll_insert_after(L, hits[1], e)
       ELSE IF forward THEN cf_ll_append(L, e) ELSE cf_ll_prepend(L, e)

=============================================================================
