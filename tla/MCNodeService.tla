--------------------------- MODULE MCNodeService ---------------------------
(* Small instances of NodeService for TLC. *)
EXTENDS NodeService, TLC

CONSTANTS l1, l2, a1, a2, m1, m2, m3, n1, n2, n3, n4, n5, p1, p2, p3, p4, p5

Symmetry == Permutations(Loop) \cup Permutations(Admin) \cup Permutations(Mac)
=============================================================================
