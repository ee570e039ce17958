----------------------------- MODULE MCCluster -----------------------------
(***************************************************************************)
(* Cluster for TLC: blocks of memory, servers and partitions are           *)
(* interchangeable.                                                        *)
(***************************************************************************)
EXTENDS Cluster

Interchangeable ==
    Permutations(Obj) \cup Permutations(Name) \cup Permutations(Part)
=============================================================================
