------------------------------- MODULE ClaimIndex -------------------------------
(***************************************************************************)
(* Claims, and the index that is to follow what may be served.             *)
(*                                                                         *)
(* A claim is servable once it is consolidated, until it is superseded,    *)
(* discarded, quarantined or erased.  The writers that change this project *)
(* the claim onto the index in their own transaction; a quarantine leaves  *)
(* it to the propagation outbox; an erasure does both; the payload clock   *)
(* deletes a claim's vectors while the claim lives on.  Meanwhile drainers *)
(* finish requests from copies they read earlier, and a rebuild applies    *)
(* what the claim was when it was read.                                    *)
(*                                                                         *)
(* A claim's derivative is its embedding, so both have one identity here.  *)
(***************************************************************************)
EXTENDS DerivativeWork, EmbeddingDrain

CONSTANTS
    Quarantines,      \* quarantine_ids
    MaxInterventions, \* bound: quarantines, expiry sweeps and erasures, together
    MaxLost           \* bound: ticks of either job that are lost, together

VARIABLES
    claim,       \* claim[c]: the memory_claims row
    quarantine,  \* quarantine[q]: the claim_quarantines row and its members
    open,        \* open[q]: the transaction that is applying or reverting q
    seen,        \* seen[w]: what the handler of worker w has read of the claim it rebuilds
    erasure,     \* how far the erasure of the actor has come
    raced,       \* history: claims last retired while a worker held a copy or a reading of them
    touched,     \* history: claims that a quarantine has matched
    contended,   \* history: claims that two open quarantine transactions matched
    interventions  \* quarantines, sweeps and erasures begun so far

claimVars == <<claim, quarantine, open, seen, erasure, raced, touched, contended, interventions>>
vars == <<registered, work, taken, lostTicks, queue, vectors, failed, batch, requests, lostDrains,
          claim, quarantine, open, seen, erasure, raced, touched, contended, interventions>>

Claims == Derivatives
\* The causes: (rebuild, policy_change, no tombstone), (delete, expiry, no
\* tombstone), and (delete, erasure, t).
PolicyChange == "policy_change"
Expired == "expiry"
Erased == "erasure"

ASSUME ClaimIndexAssumption ==
    /\ Targets = Derivatives
    /\ Causes = {PolicyChange, Expired, Erased}
    /\ MaxInterventions \in Nat
    /\ MaxLost \in Nat

\* A superseded claim is invalidated too.
Closed == {"superseded", "rejected"}
ClaimRow == [status : {"none", "staged", "erased"} \cup Closed, consolidated : BOOLEAN, withheld : BOOLEAN]
NoClaim == [status |-> "none", consolidated |-> FALSE, withheld |-> FALSE]
Quarantine == [state : {"none", "active", "reverted"}, members : SUBSET Claims]
\* A transaction and the claim rows it has updated and locked.
Transaction == [kind : {"none", "apply", "revert"}, writes : SUBSET Claims]
NoTransaction == [kind |-> "none", writes |-> {}]

Init ==
    /\ WorkInit
    /\ DrainInit
    /\ claim = [c \in Claims |-> NoClaim]
    /\ quarantine = [q \in Quarantines |-> [state |-> "none", members |-> {}]]
    /\ open = [q \in Quarantines |-> NoTransaction]
    /\ seen = [w \in Propagators |-> "unread"]
    /\ erasure = "none"
    /\ raced = {}
    /\ touched = {}
    /\ contended = {}
    /\ interventions = 0

Exists(c) == claim[c].status \in {"staged"} \cup Closed
ServableRow(row) == row.status = "staged" /\ row.consolidated /\ ~ row.withheld
Servable(c) == ServableRow(claim[c])

\* No open transaction holds the row lock of c.
Unlocked(c) == \A q \in Quarantines : c \notin open[q].writes

\* A worker has read that c is servable and not acted on it, or a drainer holds
\* a copy of its request.
Reading(c) == \E w \in Propagators : seen[w] = "servable" /\ Current(w)[1] = c
Watched(c) == InFlight(c) \/ Reading(c)

Intervene == interventions < MaxInterventions /\ interventions' = interventions + 1

-----------------------------------------------------------------------------
(* Claims *)

\* project_claim, in the transaction that updated the row to `row`: queue it and
\* register the artefact, or retract it.
Project(c, row) ==
    \/ /\ ServableRow(row)
       /\ EnqueueText(c)
       /\ registered' = registered \cup {c}
    \/ /\ ~ ServableRow(row)
       /\ Retract(c)
       /\ UNCHANGED registered

WriteClaim(c) ==
    /\ claim[c].status = "none"
    /\ claim' = [claim EXCEPT ![c].status = "staged"]
    /\ UNCHANGED <<workVars, drainVars, quarantine, open, seen, erasure, raced, touched, contended, interventions>>

\* mark_consolidated: the row is updated whatever its status.
MarkConsolidated(c) ==
    /\ Exists(c)
    /\ ~ claim[c].consolidated
    /\ Unlocked(c)
    /\ claim' = [claim EXCEPT ![c].consolidated = TRUE]
    /\ Project(c, claim'[c])
    /\ UNCHANGED <<work, taken, lostTicks, batch, lostDrains, quarantine, open, seen, erasure, raced, touched, contended, interventions>>

\* Mutant: the status is written and the index is not told.
CloseUnprojected(c, outcome) ==
    /\ claim[c].status = "staged"
    /\ Unlocked(c)
    /\ claim' = [claim EXCEPT ![c].status = outcome]
    /\ UNCHANGED <<workVars, drainVars, quarantine, open, seen, erasure, raced, touched, contended, interventions>>

\* close_superseded and discard.
Close(c, outcome) ==
    /\ claim[c].status = "staged"
    /\ Unlocked(c)
    /\ claim' = [claim EXCEPT ![c].status = outcome]
    /\ Project(c, claim'[c])
    /\ raced' = IF Watched(c) THEN raced \cup {c} ELSE raced \ {c}
    /\ UNCHANGED <<work, taken, lostTicks, batch, lostDrains, quarantine, open, seen, erasure, touched, contended, interventions>>

-----------------------------------------------------------------------------
(* Quarantine: each transaction reads, writes its rows, and commits later;  *)
(* until then the others read what was committed before.                    *)

\* The claims of M that an open transaction has matched.
MatchedByOpen(M) == {c \in M : \E p \in Quarantines : open[p].kind # "none" /\ c \in quarantine[p].members}

\* apply: the matched claims become members, and the ones that are not withheld
\* are updated.
ApplyWrites(q, M) ==
    /\ quarantine[q].state = "none" /\ open[q].kind = "none"
    /\ M # {} /\ \A c \in M : Exists(c)
    /\ LET writes == {c \in M : ~ claim[c].withheld}
       IN  /\ \A c \in writes : Unlocked(c)
           /\ open' = [open EXCEPT ![q] = [kind |-> "apply", writes |-> writes]]
    /\ quarantine' = [quarantine EXCEPT ![q].members = M]
    /\ contended' = contended \cup MatchedByOpen(M)
    /\ Intervene
    /\ UNCHANGED <<workVars, drainVars, claim, seen, erasure, raced, touched>>

\* Withhold, and rebuild what was derived from every member (_propagate).
ApplyCommits(q) ==
    /\ open[q].kind = "apply"
    /\ quarantine' = [quarantine EXCEPT ![q].state = "active"]
    /\ claim' = [c \in Claims |-> IF c \in open[q].writes THEN [claim[c] EXCEPT !.withheld = TRUE] ELSE claim[c]]
    /\ Enqueue(quarantine[q].members, PolicyChange)
    /\ open' = [open EXCEPT ![q] = NoTransaction]
    /\ touched' = touched \cup quarantine[q].members
    /\ UNCHANGED <<registered, taken, lostTicks, drainVars, seen, erasure, raced, contended, interventions>>

\* Mutant: the other quarantines are not looked at.
HeldByNone(c, q) == FALSE

HeldByAnother(c, q) == \E p \in Quarantines \ {q} : quarantine[p].state = "active" /\ c \in quarantine[p].members

\* revert: the members that no other quarantine holds are restored.
RevertWrites(q) ==
    /\ quarantine[q].state = "active" /\ open[q].kind = "none"
    /\ LET writes == {c \in quarantine[q].members : Exists(c) /\ claim[c].withheld /\ ~ HeldByAnother(c, q)}
       IN  /\ \A c \in writes : Unlocked(c)
           /\ open' = [open EXCEPT ![q] = [kind |-> "revert", writes |-> writes]]
    /\ contended' = contended \cup MatchedByOpen(quarantine[q].members)
    /\ UNCHANGED <<workVars, drainVars, claim, quarantine, seen, erasure, raced, touched, interventions>>

RevertCommits(q) ==
    /\ open[q].kind = "revert"
    /\ quarantine' = [quarantine EXCEPT ![q].state = "reverted"]
    /\ claim' = [c \in Claims |-> IF c \in open[q].writes THEN [claim[c] EXCEPT !.withheld = FALSE] ELSE claim[c]]
    /\ Enqueue(open[q].writes, PolicyChange)
    /\ open' = [open EXCEPT ![q] = NoTransaction]
    /\ UNCHANGED <<registered, taken, lostTicks, drainVars, seen, erasure, raced, touched, contended, interventions>>

-----------------------------------------------------------------------------
(* Retention and erasure *)

\* The expiry sweep finds c's registration past the payload clock of the claim,
\* which is shorter than the claim's life.
SweepExpired(c) ==
    /\ Insertable({c}, Expired) # {}
    /\ Enqueue({c}, Expired)
    /\ Intervene
    /\ UNCHANGED <<registered, taken, lostTicks, drainVars, claim, quarantine, open, seen, erasure, raced, touched, contended>>

\* The derivatives are queued first, for the claims A that the actor authored.
EraseDerivatives(A) ==
    /\ erasure = "none"
    /\ \A c \in A : Exists(c)
    /\ Intervene
    /\ erasure' = "queued"
    /\ Enqueue(A, Erased)
    /\ UNCHANGED <<registered, taken, lostTicks, drainVars, claim, quarantine, open, seen, raced, touched, contended>>

\* ClaimErasure: the rows of the selected claims S and what the index holds of
\* them are deleted, and the losers L of a chain that is erased whole are staged
\* again, unconsolidated.  Which claims these are is for ActorErasure.
EraseClaims(S, L) ==
    /\ erasure = "queued"
    /\ \A c \in S : Exists(c)
    /\ \A c \in L : c \notin S /\ claim[c].status = "superseded"
    /\ \A c \in S \cup L : Unlocked(c)
    /\ erasure' = "done"
    /\ claim' = [c \in Claims |->
          IF c \in S THEN [NoClaim EXCEPT !.status = "erased"]
          ELSE IF c \in L THEN [claim[c] EXCEPT !.status = "staged", !.consolidated = FALSE]
          ELSE claim[c]]
    /\ EraseTargets(S)
    /\ raced' = (raced \ S) \cup {c \in S : Watched(c)}
    /\ UNCHANGED <<workVars, batch, lostDrains, quarantine, open, seen, touched, contended, interventions>>

-----------------------------------------------------------------------------
(* The propagation worker's handler for embeddings, and the drain *)

\* A rebuild asks the claim what it is now, with a plain SELECT.
ReadClaim(w) ==
    /\ taken[w] # <<>>
    /\ Current(w)[2] = PolicyChange
    /\ seen[w] = "unread"
    /\ LET c == Current(w)[1]
       IN  seen' = [seen EXCEPT ![w] = IF ~ Exists(c) THEN "gone"
                                       ELSE IF Servable(c) THEN "servable" ELSE "unservable"]
    /\ UNCHANGED <<workVars, drainVars, claim, quarantine, open, erasure, raced, touched, contended, interventions>>

\* The transaction of w's handler ends, one way or the other.
Forget(w) ==
    /\ seen' = [seen EXCEPT ![w] = "unread"]
    /\ UNCHANGED <<claim, quarantine, open, erasure, raced, touched, contended, interventions>>

\* A rebuild does what its reading asks for (the artefact is registered already);
\* a claim whose row is gone is left alone.  A delete erases.
HandleItem(w) ==
    LET c == Current(w)[1]
    IN  \/ seen[w] = "servable" /\ EnqueueText(c)
        \/ seen[w] = "unservable" /\ Retract(c)
        \/ seen[w] = "gone" /\ UNCHANGED <<queue, vectors, failed, requests>>
        \/ Current(w)[2] # PolicyChange /\ EraseTargets({c})

Apply(w) ==
    /\ MarkDone(w)
    /\ HandleItem(w)
    /\ Forget(w)
    /\ UNCHANGED <<batch, lostDrains>>

ApplyFails(w) == MarkFailed(w) /\ Forget(w) /\ UNCHANGED drainVars

Propagation(w) == ReadClaim(w) \/ Apply(w) \/ ApplyFails(w)

\* The vectors are registered in the transaction that writes them, if the claim
\* is still there.
EmbedClaim(d) ==
    /\ Embed(d)
    /\ registered' = IF Exists(This(d).target) THEN registered \cup {This(d).target} ELSE registered
    /\ UNCHANGED <<work, taken, lostTicks, claimVars>>

DrainStep(d) == EmbedClaim(d) \/ (EmbedFails(d) /\ UNCHANGED <<workVars, claimVars>>)

MayLose == lostTicks + lostDrains < MaxLost

Next ==
    \/ \E c \in Claims : WriteClaim(c) \/ MarkConsolidated(c) \/ SweepExpired(c)
    \/ \E c \in Claims, outcome \in Closed : Close(c, outcome)
    \/ \E q \in Quarantines :
        \/ \E M \in SUBSET Claims : ApplyWrites(q, M)
        \/ ApplyCommits(q) \/ RevertWrites(q) \/ RevertCommits(q)
    \/ \E A \in SUBSET Claims : EraseDerivatives(A)
    \/ \E S, L \in SUBSET Claims : EraseClaims(S, L)
    \/ \E w \in Propagators :
        \/ Propagation(w)
        \/ Claim(w) /\ UNCHANGED <<drainVars, claimVars>>
        \/ MayLose /\ LoseTick(w) /\ Forget(w) /\ UNCHANGED drainVars
    \/ \E i \in Items : FallsDue(i) /\ UNCHANGED <<drainVars, claimVars>>
    \/ \E d \in Drainers :
        \/ DrainStep(d)
        \/ ReadBatch(d) /\ UNCHANGED <<workVars, claimVars>>
        \/ MayLose /\ LoseDrain(d) /\ UNCHANGED <<workVars, claimVars>>
    \/ \E t \in Targets : CooldownPasses(t) /\ UNCHANGED <<workVars, claimVars>>

Spec == Init /\ [][Next]_vars

\* The drain runs again and again and its statements end, and the clock moves on.
\* Nobody else is obliged to do anything.
Fairness ==
    /\ \A d \in Drainers :
        WF_vars(ReadBatch(d) /\ UNCHANGED <<workVars, claimVars>>) /\ WF_vars(DrainStep(d))
    /\ \A t \in Targets : WF_vars(CooldownPasses(t) /\ UNCHANGED <<workVars, claimVars>>)

FairSpec == Spec /\ Fairness

-----------------------------------------------------------------------------
(* Properties *)

\* Every variable has its type.
TypeOK ==
    /\ WorkTypeOK
    /\ DrainTypeOK
    /\ claim \in [Claims -> ClaimRow]
    /\ quarantine \in [Quarantines -> Quarantine]
    /\ open \in [Quarantines -> Transaction]
    /\ seen \in [Propagators -> {"unread", "gone", "servable", "unservable"}]
    /\ erasure \in {"none", "queued", "done"}
    /\ raced \subseteq Claims
    /\ touched \subseteq Claims
    /\ contended \subseteq Claims
    /\ interventions \in 0 .. MaxInterventions

\* What a search may find, or will: a vector, a request, or a dead letter that
\* tells the operator.
Indexed(c) == c \in vectors \/ Queued(c) \/ c \in failed

\* The payload clock or an erasure has asked for the deletion of c's artefacts.
DeletionQueued(c) == \E cause \in {Expired, Erased} : work[<<c, cause>>].state # "none"

\* A servable claim that no quarantine has matched and whose artefacts neither
\* the payload clock nor an erasure has asked to delete is in the index, whatever
\* the drainers' copies, failures and retries come to, and if it lost, was
\* reopened by an erasure and consolidated again (mark_consolidated,
\* _process_row, _handle_failure).
ServableIsIndexed == \A c \in Claims \ touched : Servable(c) /\ ~ DeletionQueued(c) => Indexed(c)

\* A claim that is superseded, rejected or erased while no drainer holds a copy of
\* its request and no rebuild a reading of it has neither vectors nor a request
\* from then on, and of an erased one no copy of the text is left (project_claim,
\* erase_targets).
RetiredLeavesIndex ==
    \A c \in Claims \ raced :
        /\ claim[c].status \in Closed \cup {"erased"} => c \notin vectors /\ ~ Queued(c)
        /\ claim[c].status = "erased" => c \notin failed

\* A quarantine in force has matched c.
Held(c) == \E q \in Quarantines : quarantine[q].state = "active" /\ c \in quarantine[q].members

\* "A claim still held by another, unreverted quarantine stays withheld", and
\* one that none holds is restored: a claim is withheld exactly while a quarantine
\* that matched it is in force, through overlapping transactions too, as long as
\* no two that were open at once matched that same claim (apply, revert).
WithheldIffHeld == \A c \in Claims \ contended : Exists(c) => (claim[c].withheld <=> Held(c))

\* A request becomes vectors or a dead letter, or is retracted.
RequestsSettle == \A t \in Targets : Queued(t) ~> ~ Queued(t)

=============================================================================
