--------------------------- MODULE MCLeaderLease ---------------------------
(* The replicas are interchangeable: nothing in LeaderLease names one. *)
EXTENDS LeaderLease, TLC

Replicas == Permutations(Replica)
=============================================================================
