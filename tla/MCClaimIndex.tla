------------------------------ MODULE MCClaimIndex ------------------------------
(* Up to two claims, two quarantines, two drainers and one propagation worker. *)
EXTENDS ClaimIndex

CONSTANTS c1, c2, q1, q2, e1, e2, p1

=============================================================================
