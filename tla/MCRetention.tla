------------------------------ MODULE MCRetention ------------------------------
(* Two derivatives, the first of them blocking and built from what one actor
   wrote. *)
EXTENDS Retention, TLC

CONSTANTS d1, d2, t1, p1, p2

CausesOfOne == {"expiry", t1}
AuthoredByOne == t1 :> {d1}

=============================================================================
