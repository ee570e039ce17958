-------------------------------- MODULE Fifo --------------------------------
(***************************************************************************)
(* What a cf_queue promises its callers, with no ring, no offsets and no   *)
(* allocation: a sequence of elements and the answer of the last call.     *)
(* The answers are those of the C functions.  CfQueue implements this      *)
(* specification.                                                          *)
(***************************************************************************)
EXTENDS Integers, Sequences

CONSTANTS Elem,         \* the values the callers push
          Limits        \* the limits callers give to cf_queue_push_limit

VARIABLES contents,     \* the elements, oldest first
          lost,         \* running out of memory took the contents away
          purge,        \* the cf_queue_delete under way, or NoPurge
          ret           \* the last call that returned, and its answer

vars == <<contents, lost, purge, ret>>

Answer(op, rv) == [op |-> op, rv |-> rv]
Got(x) == [op |-> "pop", rv |-> 0, buf |-> x]

NoPurge == [on |-> FALSE]
Purge(x, only_one, found) ==
  [on |-> TRUE, x |-> x, only_one |-> only_one, found |-> found]

\* The sequence s without its k-th element.
Without(s, k) == [j \in 1..(Len(s) - 1) |-> IF j < k THEN s[j] ELSE s[j + 1]]

Init ==
  /\ contents = <<>>
  /\ lost = FALSE
  /\ purge = NoPurge
  /\ ret = Answer("create", 0)

\* A delete holds the queue's lock from its first step to its last.
Callable == ~lost /\ purge = NoPurge

Push(x) ==
  /\ Callable
  /\ \/ contents' = Append(contents, x) /\ ret' = Answer("push", 0)
     \/ contents' = contents /\ ret' = Answer("push", -1)
  /\ UNCHANGED <<lost, purge>>

PushLimit(x, limit) ==
  /\ Callable
  /\ \/ /\ Len(contents) < limit
        /\ contents' = Append(contents, x)
        /\ ret' = Answer("push_limit", TRUE)
     \/ contents' = contents /\ ret' = Answer("push_limit", FALSE)
  /\ UNCHANGED <<lost, purge>>

\* A push that finds no memory for a larger buffer may lose everything.
OutOfMemory ==
  /\ Callable
  /\ contents' = <<>>
  /\ lost' = TRUE
  /\ ret' \in {Answer("push", -1), Answer("push_limit", FALSE)}
  /\ UNCHANGED purge

Pop ==
  /\ Callable
  /\ \/ /\ contents # <<>>
        /\ contents' = Tail(contents)
        /\ ret' = Got(Head(contents))
     \/ /\ contents = <<>>
        /\ contents' = contents
        /\ ret' = Answer("pop", -2)
  /\ UNCHANGED <<lost, purge>>

Sz ==
  /\ Callable
  /\ ret' = Answer("sz", Len(contents))
  /\ UNCHANGED <<contents, lost, purge>>

\* At most one element leaves in a reduce: the first for which the callback
\* does not say "go on", if what it says is "delete".
Reduce(cb) ==
  /\ Callable
  /\ \/ /\ \E k \in 1..Len(contents) :
             /\ \A j \in 1..(k - 1) : cb[contents[j]] = 0
             /\ cb[contents[k]] = -2
             /\ contents' = Without(contents, k)
     \/ contents' = contents
  /\ ret' = Answer("reduce", 0)
  /\ UNCHANGED <<lost, purge>>

\* A delete takes out elements equal to x, one at a time, the first one first;
\* it answers "empty" only if there was none, and takes one at most if the
\* caller said so.
DeleteBegin(x, only_one) ==
  /\ Callable
  /\ purge' = Purge(x, only_one, FALSE)
  /\ UNCHANGED <<contents, lost, ret>>

Drop ==
  /\ purge.on
  /\ purge.found => ~purge.only_one
  /\ \E k \in 1..Len(contents) :
       /\ contents[k] = purge.x
       /\ purge.found \/ \A j \in 1..(k - 1) : contents[j] # purge.x
       /\ contents' = Without(contents, k)
  /\ \/ /\ ~purge.only_one
        /\ purge' = Purge(purge.x, purge.only_one, TRUE)
        /\ ret' = ret
     \/ purge.only_one /\ purge' = NoPurge /\ ret' = Answer("delete", 0)
  /\ UNCHANGED lost

DeleteEnd ==
  /\ purge.on
  /\ ~purge.found => \A j \in 1..Len(contents) : contents[j] # purge.x
  /\ ret' = Answer("delete", IF purge.found THEN 0 ELSE -2)
  /\ purge' = NoPurge
  /\ UNCHANGED <<contents, lost>>

Next ==
  \/ \E x \in Elem : Push(x)
  \/ \E x \in Elem, limit \in Limits : PushLimit(x, limit)
  \/ OutOfMemory
  \/ Pop
  \/ Sz
  \/ \E cb \in [Elem -> {0, -1, -2}] : Reduce(cb)
  \/ \E x \in Elem, only_one \in BOOLEAN : DeleteBegin(x, only_one)
  \/ Drop
  \/ DeleteEnd

Spec == Init /\ [][Next]_vars
=============================================================================
