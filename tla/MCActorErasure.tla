---------------------------- MODULE MCActorErasure -----------------------------
(* Small instances of ActorErasure for TLC. *)
EXTENDS ActorErasure, TLC

CONSTANTS s1, s2, a1, a2, t1, w1

\* Two sessions of two actors of one tenant.
TenantOfTwo == s1 :> t1 @@ s2 :> t1
ActorOfTwo == s1 :> a1 @@ s2 :> a2

\* These sessions have said one thing each, and the drain has staged one
\* claim from each and finished.
SaidBy(sessions) ==
    /\ born = sessions
    /\ events = {[eid |-> n, sess |-> sessions[n], seq |-> 1, live |-> TRUE] : n \in DOMAIN sessions}
    /\ extracted = {<<<<sessions[n], st>>, n>> : n \in DOMAIN sessions, st \in Strategies}
    /\ \E strategy \in [DOMAIN sessions -> Strategies] :
        /\ provenance = {<<<<sessions[n], strategy[n]>>, n>> : n \in DOMAIN sessions}
        /\ claims = [c \in {<<p[1], p[2], NoActor>> : p \in provenance} |-> StagedRow(c[2])]

\* Either one actor has spoken, and another event and one curation are to come,
\* or both have, and only curations are to come: the two bounds are spent apart.
PastInit ==
    /\ \/ SaidBy(<<s1>>) /\ curations = 1
       \/ SaidBy(<<s1, s2>>) /\ curations = 0
    /\ outbox = [k \in Key |-> NoRow]
    /\ failed = {}
    /\ enabled = [c \in Tenants \X Strategies |-> TRUE]
    /\ erasing = [a \in Actors |-> 0]
    /\ pc = [w \in Workers |-> "idle"]
    /\ batch = [w \in Workers |-> << >>]
    /\ window = [w \in Workers |-> {}]
    /\ upto = [w \in Workers |-> 0]
    /\ skipped = {}
    /\ spared = {}
    /\ changes = 0
    /\ aborts = 0
    /\ IdleRequests

PastSpec == PastInit /\ [][ErasureNext]_allVars

=============================================================================
