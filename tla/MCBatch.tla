------------------------------ MODULE MCBatch ------------------------------
(***************************************************************************)
(* Batch for TLC: two users, of which the first makes a batch and the other *)
(* a batch, a scan, or a scan of all nodes.                                 *)
(***************************************************************************)
EXTENDS Batch

CONSTANTS u1, u2, n1, n2

TwoUsers == {u1, u2}
TwoNodes == {n1, n2}
OneEach == <<n1, n2>>
BatchAndAny == {plan \in [TwoUsers -> {"batch", "scan", "all"}] : plan[u1] = "batch"}
=============================================================================
