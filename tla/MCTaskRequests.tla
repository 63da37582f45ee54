-------------------------- MODULE MCTaskRequests --------------------------
(* Instances of TaskRequests for TLC.                                      *)
EXTENDS TaskRequests, TLC

CONSTANTS t1, t2, a1, a2, m1, r1, r2, r3

OneMilestone == [t \in Tasks |-> m1]
Symmetry == Permutations(Tasks) \union Permutations(Requests)
=============================================================================
