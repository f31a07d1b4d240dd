--------------------------- MODULE MCExtractionDrain ---------------------------
(* Small instances of ExtractionDrain for TLC. *)
EXTENDS ExtractionDrain, TLC

CONSTANTS s1, s2, a1, a2, t1, t2, w1, w2

\* Two sessions of two actors of two tenants.
TenantOfTwo == s1 :> t1 @@ s2 :> t2
ActorOfTwo == s1 :> a1 @@ s2 :> a2

\* One session.
TenantOfOne == s1 :> t1
ActorOfOne == s1 :> a1
=============================================================================
