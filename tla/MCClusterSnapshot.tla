------------------------- MODULE MCClusterSnapshot --------------------------
(* Two concurrent clients, two workers that come and go. *)
EXTENDS ClusterSnapshot, TLC

CONSTANTS c1, c2, w1, w2

MCClient == {c1, c2}
MCMember == {w1, w2}

Symmetry == Permutations(MCClient) \cup Permutations(MCMember)
=============================================================================
