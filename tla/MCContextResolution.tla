-------------------------- MODULE MCContextResolution --------------------------
(* A small instance of ContextResolution for TLC. *)
EXTENDS ContextResolution, TLC

CONSTANTS c1, c2, a1, a2, m1, m2, r1, r2, v1, d1, d2

AllEvents == ({"issued", "purged"} \X Challenges) \cup ({"resolved"} \X Attestations)
                 \cup ({"refused"} \X Requests) \cup ({"withdrawn"} \X Verifiers)

IssuedFor(m) == [state |-> "issued", manifest |-> m]
Logged == [state |-> "drained", attempts |-> 0]

\* Everything else is as in Init, but one call has been made for the challenge
\* it was signed for; which of the names it uses does not matter.  Either the
\* other challenge has been issued as well, and something may yet go wrong, or
\* it is still to come, and the verifier is withdrawn already: the bound on what
\* goes wrong and the rows that are to be drained are spent apart.
PastInit ==
    /\ \/ /\ \E m \in Manifests : challenge = (c1 :> IssuedFor(m1) @@ c2 :> IssuedFor(m))
          /\ withdrawn = {} /\ disturbances = 0
       \/ /\ challenge = (c1 :> IssuedFor(m1) @@ c2 :> NoRow)
          /\ withdrawn = {v1} /\ disturbances = 1
    /\ late = {}
    /\ revoked = FALSE
    /\ receipt = [a \in Attestations |-> NoReceipt]
    /\ request = (r1 :> [Uncalled EXCEPT !.step = "attempt", !.attestation = a1, !.challenge = c1,
                                         !.manifest = m1, !.attempts = 1]
                     @@ r2 :> Uncalled)
    /\ log = {<<"issued", c>> : c \in {d \in Challenges : challenge[d] # NoRow}}
                \cup {<<"withdrawn", v>> : v \in withdrawn}
    /\ outbox = [e \in Events |-> IF e \in log THEN Logged ELSE Unwritten]
    /\ pass = [d \in Drainers |-> {}]

PastSpec == PastInit /\ [][Next]_vars /\ Fairness

=============================================================================
