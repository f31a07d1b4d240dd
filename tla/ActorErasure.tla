------------------------------ MODULE ActorErasure -----------------------------
(***************************************************************************)
(* A right-to-be-forgotten request beside a running extraction drain.      *)
(*                                                                         *)
(* ErasureRegistry.erase_actor runs the registered participants in order,  *)
(* each in a transaction of its own, and stops at the first that fails;    *)
(* the operator sends the request again.  Of the participants, the claims  *)
(* and the session memory act on the state modelled here; the others only  *)
(* delay the request or fail it.                                           *)
(*                                                                         *)
(* Claims do not stay as extraction staged them: a curator's confirmation  *)
(* copies a claim under another author, and consolidation closes one claim *)
(* in favour of another and may copy its evidence.  What an erasure has to *)
(* find and repair is the table these three writers leave.                 *)
(***************************************************************************)
EXTENDS ExtractionDrain

CONSTANTS
    PreferenceStrategies,  \* strategies that write to the actor's preference namespace
    NoActor,               \* no confirming actor
    NoClaim,               \* no other claim
    MaxRequests,           \* bound: erasure requests, retries included
    MaxCurations           \* bound: confirmations and consolidations

VARIABLES
    claims,     \* memory_claims with their memory_claim_provenance rows, by identifier
    curations,  \* confirmations and consolidations so far
    position,   \* position[a]: the participant a request runs next, 0 when none runs
    reported,   \* reported[a]: a request for a has returned success
    requests,   \* requests sent so far
    mark,       \* history: number of events written when the last request was sent
    standing,   \* history: of those, the actor's events that existed when its claims were erased
    overlapped  \* history: a worker held a row of the actor once claims were erased

claimVars == <<claims, curations>>
requestVars == <<position, reported, requests, mark, standing>>
allVars == <<vars, claimVars, requestVars, overlapped>>

ASSUME ErasureAssumption ==
    /\ PreferenceStrategies \subseteq Strategies
    /\ NoActor \notin Actors

-----------------------------------------------------------------------------
(* The claims *)

\* A claim is named by the key and the event it was staged from and by the
\* actor whose confirmation it is.  Two claims staged from one event under one
\* key are one claim here: nothing below tells them apart.
ClaimId == Key \X Nat \X (Actors \cup {NoActor})

\* Its session-event citations, whether it has evidence of another kind, the
\* claim that superseded it, the claim it confirms, and, as history, whether it
\* has never cited anything but its author's own events.
ClaimRow == [refs : SUBSET Nat, external : BOOLEAN, by : ClaimId \cup {NoClaim},
             confirms : ClaimId \cup {NoClaim}, own : BOOLEAN]

ASSUME NoClaimAssumption == NoClaim \notin ClaimId

Author(c) == IF c[3] = NoActor THEN Actor[c[1][1]] ELSE c[3]

\* The preference namespace names the actor of the session; a confirmation
\* copies the namespace.
InPreferencesOf(c, a) == c[1][2] \in PreferenceStrategies /\ Actor[c[1][1]] = a

StagedRow(eid) ==
    [refs |-> {eid}, external |-> FALSE, by |-> NoClaim, confirms |-> NoClaim, own |-> TRUE]

\* A candidate the drain stages becomes a claim that cites its event.
StageErasable(w, eid) ==
    LET c == <<CurrentRow(w).key, eid, NoActor>>
    IN  /\ StageClaim(w, eid)
        /\ claims' = IF c \in DOMAIN claims THEN claims
                     ELSE [i \in DOMAIN claims \cup {c} |-> IF i = c THEN StagedRow(eid) ELSE claims[i]]
        /\ UNCHANGED curations

Curate == curations < MaxCurations /\ curations' = curations + 1

\* confirm and stage_confirmation: a new claim of the confirming actor with the
\* evidence and the namespace of the old one and the curator's own row; the old
\* claim is closed in its favour.
Confirm(c, b) ==
    LET new == <<c[1], c[2], b>>
    IN  /\ Curate
        /\ claims[c].by = NoClaim /\ new \notin DOMAIN claims
        /\ claims' = [i \in DOMAIN claims \cup {new} |->
                        IF i = new THEN [claims[c] EXCEPT !.external = TRUE, !.confirms = c, !.own = FALSE]
                        ELSE IF i = c THEN [claims[c] EXCEPT !.by = new]
                        ELSE claims[i]]
        /\ UNCHANGED vars

\* Consolidation of two live claims: d lost a conflict with c, or d is a
\* duplicate whose evidence is copied to c (merge_provenance).
Consolidate(c, d, duplicate) ==
    LET merged == [claims[c] EXCEPT !.refs = @ \cup claims[d].refs,
                                    !.external = @ \/ claims[d].external,
                                    !.own = @ /\ claims[d].own /\ Author(c) = Author(d)]
    IN  /\ Curate
        /\ c # d /\ claims[c].by = NoClaim /\ claims[d].by = NoClaim
        /\ claims' = [i \in DOMAIN claims |->
                        IF i = d THEN [claims[d] EXCEPT !.by = c]
                        ELSE IF i = c /\ duplicate THEN merged
                        ELSE claims[i]]
        /\ UNCHANGED vars

-----------------------------------------------------------------------------
(* The request *)

\* The registration order, reduced to one participant of each kind that
\* matters here: one before the claims, the two that act, one after.
Participants == <<"workspace", "claims", "session_memory", "embeddings">>

\* A worker is between claiming a row of the actor and finishing it.
DrainHolds(a, batches) ==
    \E w \in Workers : \E i \in DOMAIN batches[w] : Actor[batches[w][i].key[1]] = a

\* DELETE /v1/admin/actors/{actor_id}/personal-data
SendRequest(a) ==
    /\ position[a] = 0
    /\ requests < MaxRequests
    /\ requests' = requests + 1
    /\ position' = [position EXCEPT ![a] = 1]
    /\ reported' = [reported EXCEPT ![a] = FALSE]
    /\ mark' = [mark EXCEPT ![a] = Len(born)]
    /\ standing' = [standing EXCEPT ![a] = {}]
    /\ UNCHANGED <<vars, claimVars, overlapped>>

\* The next participant, or the response after the last.
Advance(a) ==
    /\ position' = [position EXCEPT ![a] = IF @ = Len(Participants) THEN 0 ELSE @ + 1]
    /\ reported' = [reported EXCEPT ![a] = position[a] = Len(Participants)]
    /\ UNCHANGED <<requests, mark>>

Running(a, participant) == position[a] # 0 /\ Participants[position[a]] = participant

EventIdsOf(a) == {e.eid : e \in {d \in events : Actor[d.sess] = a}}

\* Evidence that keeps a claim alive: a row that is not a session event, or an
\* event that still exists and belongs to another actor.  A citation of an
\* event that is gone keeps nothing alive.
Disqualified(c, a) ==
    \/ claims[c].external
    \/ \E e \in events : e.eid \in claims[c].refs /\ Actor[e.sess] # a

\* _SELECT_CLAIMS: the actor's preferences whoever wrote them, and the actor's
\* own claims without independent evidence.
Selected(a) ==
    {c \in DOMAIN claims : InPreferencesOf(c, a) \/ (Author(c) = a /\ ~ Disqualified(c, a))}

\* The successors of s lead, inside S, to t.
LeadsTo(s, t, S) ==
    \E n \in 1 .. Cardinality(S) : \E path \in [1 .. n -> S] :
        /\ path[1] = s
        /\ \A i \in 1 .. n - 1 : claims[path[i]].by = path[i + 1]
        /\ claims[path[n]].by = t

\* A mutant of the repair: losers keep pointing at the claim that is erased.
KeptSuccessor(s, S) == s

\* The first successor of a selected claim that is not selected.  Without one,
\* the losers of that claim are reopened: staged again, with no successor.
SpliceTarget(s, S) ==
    IF \E t \in DOMAIN claims \ S : LeadsTo(s, t, S)
    THEN CHOOSE t \in DOMAIN claims \ S : LeadsTo(s, t, S)
    ELSE NoClaim

\* What erase_claims_for_actor makes of a claim it does not delete: the actor's
\* citations are scrubbed, and a confirmed claim or a successor that goes is
\* cleared or replaced.
Repaired(c, a, S) ==
    [claims[c] EXCEPT !.refs = @ \ EventIdsOf(a),
                      !.confirms = IF @ \in S THEN NoClaim ELSE @,
                      !.by = IF @ \in S THEN SpliceTarget(@, S) ELSE @]

\* ClaimErasure.erase_actor, one transaction: select, scrub, repair, delete.
EraseClaims(a) ==
    /\ Running(a, "claims")
    /\ claims' = [c \in DOMAIN claims \ Selected(a) |-> Repaired(c, a, Selected(a))]
    /\ overlapped' = [overlapped EXCEPT ![a] = DrainHolds(a, batch)]
    /\ standing' = [standing EXCEPT ![a] = {n \in EventIdsOf(a) : n <= mark[a]}]
    /\ Advance(a)
    /\ UNCHANGED <<vars, curations>>

\* SessionMemoryErasure.erase_actor, in the two steps of its transaction.
BeginEraseSessionMemory(a) ==
    /\ Running(a, "session_memory")
    /\ BeginEraseActorEvents(a)
    /\ UNCHANGED <<changes, claimVars, requestVars, overlapped>>

EraseSessionMemory(a) ==
    /\ Running(a, "session_memory")
    /\ EraseActorEvents(a)
    /\ Advance(a)
    /\ UNCHANGED <<changes, claimVars, standing, overlapped>>

\* A participant that holds nothing of what is modelled here.
EraseElsewhere(a) ==
    /\ Running(a, "workspace") \/ Running(a, "embeddings")
    /\ Advance(a)
    /\ UNCHANGED <<vars, claimVars, standing, overlapped>>

\* A mutant of the failure: the request goes on past the participant that
\* raised.
FailAndContinue(a) ==
    /\ position[a] # 0
    /\ erasing[a] = 0
    /\ Advance(a)
    /\ UNCHANGED <<vars, claimVars, standing, overlapped>>

\* A participant raises: its transaction rolls back and the request fails.
Fail(a) ==
    /\ position[a] # 0
    /\ position' = [position EXCEPT ![a] = 0]
    /\ erasing' = [erasing EXCEPT ![a] = 0]
    /\ UNCHANGED <<events, born, queueVars, enabled, workerVars, provenance, historyVars, boundVars,
                   claimVars, reported, requests, mark, standing, overlapped>>

\* The writers of claims: the drain, the curators and the consolidation sweep.
WriteClaim ==
    \/ \E w \in Workers, eid \in DOMAIN born : StageErasable(w, eid)
    \/ \E c \in DOMAIN claims, b \in Actors : Confirm(c, b)
    \/ \E c, d \in DOMAIN claims, duplicate \in BOOLEAN : Consolidate(c, d, duplicate)

\* Everything else goes on while a request runs.
Meanwhile ==
    /\ \/ ClientStep /\ UNCHANGED claimVars
       \/ \E k \in Key : BackoffElapses(k) /\ UNCHANGED claimVars
       \/ \E w \in Workers : DrainStep(w) /\ UNCHANGED claimVars
       \/ WriteClaim
    /\ overlapped' = [a \in Actors |->
                        \/ overlapped[a]
                        \/ Running(a, "session_memory") /\ DrainHolds(a, batch')]
    /\ UNCHANGED requestVars

IdleRequests ==
    /\ position = [a \in Actors |-> 0]
    /\ reported = [a \in Actors |-> FALSE]
    /\ requests = 0
    /\ mark = [a \in Actors |-> 0]
    /\ standing = [a \in Actors |-> {}]
    /\ overlapped = [a \in Actors |-> FALSE]

ErasureInit ==
    /\ Init
    /\ claims = << >>
    /\ curations = 0
    /\ IdleRequests

ErasureStep(a) ==
    \/ SendRequest(a)
    \/ EraseClaims(a)
    \/ BeginEraseSessionMemory(a)
    \/ EraseSessionMemory(a)
    \/ EraseElsewhere(a)
    \/ Fail(a)

ErasureNext == Meanwhile \/ \E a \in Actors : ErasureStep(a)

ErasureSpec == ErasureInit /\ [][ErasureNext]_allVars

-----------------------------------------------------------------------------
(* Properties *)

\* The actor has written nothing since the request was sent.
SilentSince(a) == \A n \in DOMAIN born : n > mark[a] => Actor[born[n]] # a

\* Of the claims the request was about, no preference of the actor is left, no
\* claim of the actor that rests on the actor's own words alone, and no citation
\* of an event the erasure could still attribute to the actor, whoever wrote the
\* claim that carries it.
ClaimsGone(a) ==
    \A c \in DOMAIN claims :
        /\ InPreferencesOf(c, a) => c[2] > mark[a]
        /\ Author(c) = a /\ claims[c].own => c[2] > mark[a]
        /\ claims[c].refs \cap standing[a] = {}

\* No event, queue row or dead letter of the actor is left.
SessionMemoryGone(a) ==
    /\ \A e \in events : Actor[e.sess] # a
    /\ \A k \in Key : Actor[k[1]] = a => outbox[k] = NoRow
    /\ \A f \in failed : Actor[f.key[1]] # a

\* A request that reported success, and that no drain worker overlapped from
\* the erasure of the claims to that of the events, left nothing behind and
\* nothing comes back later, however often requests failed part way before and
\* whatever curators and consolidation had copied (ErasureRegistry.erase_actor,
\* ClaimErasure, erase_claims_for_actor, erase_actor_events).
QuietErasureIsComplete ==
    \A a \in Actors :
        (reported[a] /\ ~ overlapped[a]) =>
            /\ ClaimsGone(a)
            /\ SilentSince(a) => SessionMemoryGone(a)

\* Erasing claims out of the middle of confirmations and supersessions leaves no
\* claim pointing at one that is gone, which the foreign keys of memory_claims
\* would refuse, failing every request for that actor (erase_claims_for_actor's
\* chain repair).
ChainsAreWhole ==
    \A c \in DOMAIN claims :
        /\ claims[c].by # NoClaim => claims[c].by \in DOMAIN claims
        /\ claims[c].confirms # NoClaim => claims[c].confirms \in DOMAIN claims

=============================================================================
