------------------------------ MODULE CfVector ------------------------------
(***************************************************************************)
(* The vector of cf_vector.c: a buffer of alloc_len elements, of which the  *)
(* first len are in use.  The buffer may start out on the caller's stack    *)
(* (cf_vector_define) and moves to the heap when the vector first grows.    *)
(* A vector with VECTOR_FLAG_BIGLOCK takes its lock in every call; the      *)
(* returns for an index out of bounds do not give it back.                  *)
(***************************************************************************)
EXTENDS Integers, Sequences, SequencesExt

CONSTANTS
    Elem,
    InitSizes,  \* sizes with which a vector is created
    MaxLen,     \* bound: a vector of this length is not appended to
    Junk        \* what uninitialised memory holds

VARIABLES
    vec,        \* vector, alloc_len, len, stack_vector, and whether BIGLOCK is set
    vlock,      \* the lock was left locked
    list,       \* what the vector stands for; Junk where nothing was ever set
    answer      \* the last answer was what it should have been

vars == <<vec, vlock, list, answer>>

Empty(sz, stack, big) ==
    [vector |-> [i \in 1 .. sz |-> Junk], alloc_len |-> sz, len |-> 0,
     stack_vector |-> stack, biglock |-> big]

\* cf_vector_create and cf_vector_init, or cf_vector_init_smalloc on a stack.
Init ==
    /\ \E sz \in InitSizes, stack, big \in BOOLEAN : vec = Empty(sz, stack, big)
    /\ vlock = FALSE /\ list = <<>> /\ answer = TRUE

Fail == "fail"
Says(got, want) == answer' = (got = want)
Fine == Says("ok", "ok")
\* An early return: the lock, if there is one, stays taken.
OutOfBounds == Says(Fail, Fail) /\ vlock' = vec.biglock /\ UNCHANGED <<vec, list>>

\* Onto the heap, or to more of it.
cf_vector_resize(v, new_sz) ==
    LET n == IF new_sz = 0 THEN 2 ELSE new_sz
    IN [v EXCEPT !.vector = [i \in 1 .. n |->
                            IF i <= v.alloc_len THEN v.vector[i] ELSE Junk],
                 !.alloc_len = n, !.stack_vector = FALSE]

\* cf_vector_append and its lock-free part; with no memory the vector is left
\* as it was.
cf_vector_append(x) ==
    /\ ~ vlock /\ vec.len < MaxLen
    /\ \/ /\ LET v == IF vec.len >= vec.alloc_len THEN cf_vector_resize(vec, vec.len * 2)
                      ELSE vec
             IN vec' = [v EXCEPT !.vector[v.len + 1] = x, !.len = @ + 1]
          /\ list' = Append(list, x) /\ Fine
       \/ vec.len >= vec.alloc_len /\ Says(Fail, Fail) /\ UNCHANGED <<vec, list>>
    /\ UNCHANGED vlock

\* Looks only at the elements in use; in one that was never set it may find
\* anything.
cf_vector_append_unique(x) ==
    /\ ~ vlock
    /\ IF \E i \in 1 .. vec.len : vec.vector[i] = x
       THEN /\ Says("found", IF {x, Junk} \cap ToSet(list) # {} THEN "found" ELSE "ok")
            /\ UNCHANGED <<vec, vlock, list>>
       ELSE cf_vector_append(x)

\* Anywhere in what is allocated: the vector grows up to there.
cf_vector_set(i, x) ==
    /\ ~ vlock
    /\ IF i >= vec.alloc_len THEN OutOfBounds
       ELSE /\ vec' = [vec EXCEPT !.vector[i + 1] = x, !.len = IF i >= @ THEN i + 1 ELSE @]
            /\ list' = [j \in 1 .. IF i >= Len(list) THEN i + 1 ELSE Len(list) |->
                            IF j = i + 1 THEN x ELSE IF j <= Len(list) THEN list[j] ELSE Junk]
            /\ Fine /\ UNCHANGED vlock

\* cf_vector_get and cf_vector_getp: the bound is what is allocated, so that
\* beyond the last element the answer is whatever the memory holds.
cf_vector_get(i) ==
    /\ ~ vlock
    /\ IF i >= vec.alloc_len THEN OutOfBounds
       ELSE /\ LET x == vec.vector[i + 1]
               IN Says(x, IF i < Len(list) /\ list[i + 1] # Junk THEN list[i + 1] ELSE x)
            /\ UNCHANGED <<vec, vlock, list>>

\* memmove of what follows the elements from a to b.
Shifted(v, a, b) ==
    [v EXCEPT !.vector = [i \in 1 .. v.alloc_len |->
                            IF i > a /\ i + (b - a + 1) <= v.len
                            THEN v.vector[i + (b - a + 1)] ELSE v.vector[i]],
              !.len = @ - (b - a + 1)]

\* Mutant of cf_vector_delete: the bound of cf_vector_get.
DeleteInAllocated(i) ==
    /\ ~ vlock
    /\ IF i >= vec.alloc_len \/ vec.len = 0 THEN OutOfBounds
       ELSE /\ vec' = Shifted(vec, i, i) /\ Fine
            /\ list' = IF i < Len(list) THEN RemoveAt(list, i + 1) ELSE list
            /\ UNCHANGED vlock

cf_vector_delete(i) ==
    /\ ~ vlock
    /\ IF i >= vec.len THEN OutOfBounds
       ELSE /\ vec' = Shifted(vec, i, i) /\ list' = RemoveAt(list, i + 1) /\ Fine
            /\ UNCHANGED vlock

cf_vector_delete_range(a, b) ==
    /\ ~ vlock
    /\ IF a >= b \/ a >= vec.len \/ b >= vec.len THEN OutOfBounds
       ELSE /\ vec' = Shifted(vec, a, b) /\ Fine
            /\ list' = SubSeq(list, 1, a) \o SubSeq(list, b + 2, Len(list))
            /\ UNCHANGED vlock

\* cf_vector_clone_stack, into a buffer of the caller's with room for len
\* elements: the vector goes on as the clone.
cf_vector_clone_stack ==
    /\ ~ vlock /\ vec.len > 0
    /\ vec' = [vec EXCEPT !.vector = SubSeq(@, 1, vec.len), !.alloc_len = vec.len,
                          !.stack_vector = TRUE]
    /\ Fine /\ UNCHANGED <<vlock, list>>

Index == 0 .. MaxLen

Next ==
    \/ \E x \in Elem : cf_vector_append(x) \/ cf_vector_append_unique(x)
    \/ \E i \in Index, x \in Elem : cf_vector_set(i, x)
    \/ \E i \in Index : cf_vector_get(i) \/ cf_vector_delete(i)
    \/ \E i, j \in Index : cf_vector_delete_range(i, j)
    \/ cf_vector_clone_stack

-----------------------------------------------------------------------------
\* The elements in use are, in order, what was appended and set and not deleted
\* since, through every move of the buffer; they lie in what is allocated; and
\* the last answer was right.
Sound ==
    /\ vec.len = Len(list) /\ vec.len <= vec.alloc_len
    /\ DOMAIN vec.vector = 1 .. vec.alloc_len
    /\ \A i \in 1 .. vec.len : list[i] # Junk => vec.vector[i] = list[i]
    /\ answer

=============================================================================
