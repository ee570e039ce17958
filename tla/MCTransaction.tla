--------------------------- MODULE MCTransaction ---------------------------
(***************************************************************************)
(* Transaction for TLC: the calls of each run.  Threads, and descriptors,  *)
(* are interchangeable.                                                    *)
(***************************************************************************)
EXTENDS Transaction

AllCalls == Callable

\* One call of each kind and of each policy.
SomeCalls ==
    {<<"read", "RETRY", "pending">>, <<"write", "ONESHOT", "pending">>,
     <<"delete", "none", "none">>}

Interchangeable == Permutations(Tx) \cup Permutations(Fd)
=============================================================================
