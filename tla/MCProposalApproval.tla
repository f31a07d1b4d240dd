-------------------------- MODULE MCProposalApproval --------------------------
(* Two versions, two challenges, two candidates and two overlapping          *)
(* activations, each interchangeable with the other of its kind.             *)
EXTENDS ProposalApproval, TLC

CONSTANTS c1, c2, s1, s2, k1, a1, a2

Symmetry == Permutations({c1, c2}) \cup Permutations({s1, s2}) \cup Permutations({a1, a2})

=============================================================================
