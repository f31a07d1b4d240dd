---------------------------- MODULE ProposalApproval ----------------------------
(***************************************************************************)
(* Authoring one governance artifact: proposal versions, the approval      *)
(* challenges that sign them, and the gate that puts a revision in force.  *)
(*                                                                         *)
(* An artifact family has one proposal thread, and a submitted version is  *)
(* bound to one revision, so versions and revisions share their numbers.   *)
(* Requests are transactions that read before they lock: an edit checks    *)
(* that the version is open and writes later, a challenge is counted and   *)
(* inserted later, an activation reads the family and the evidence, takes  *)
(* its locks, evaluates the predicates and only then writes.               *)
(*                                                                         *)
(* Who may ask, and the predicates about observation, actor separation and *)
(* the operational chain, may refuse a request at any time.  The risk      *)
(* class of the candidates is the same, so that only the retirement of the *)
(* reducer makes a classification irreproducible.                          *)
(***************************************************************************)
EXTENDS Naturals, FiniteSets

CONSTANTS
    MaxVersion,   \* bound: versions of the thread
    Challenges,   \* approval_challenge_ids
    Candidates,   \* artifact_semantics documents
    Verifiers,    \* approval_verifier_ids
    Activators,   \* concurrent activation requests
    MaxAttempts,  \* wrong proofs that fail a challenge
    MaxLive,      \* MAX_LIVE_CHALLENGES_PER_VERSION
    MaxDisturbances,  \* bound: decisions, revocations, expiries and retirements
    NoCandidate,
    NoChallenge

VARIABLES
    version,    \* version[v]: the arc_authoring_proposal_versions row
    revision,   \* revision[v]: the arc_revisions row, with its directives
    active,     \* arc_artifacts.active_revision_id, 0 for NULL
    challenge,  \* challenge[c]: the arc_approval_challenges row
    evidence,   \* evidence[v]: the challenge behind the live evidence of v
    revoked,    \* verifiers whose revoked_at is set
    retired,    \* versions whose pinned risk reducer is no longer known
    source,     \* source[v]: the status of the source that v cites
    edit,       \* the edit that has passed its check
    request,    \* request[a]: an activation request
    cascade,    \* the source transition that has read its dependents
    guesses,    \* history: wrong proofs checked against a challenge
    disturbances  \* how many of them there were

vars == <<version, revision, active, challenge, evidence, revoked, retired, source, edit, request,
          cascade, guesses, disturbances>>

Versions == 1 .. MaxVersion
Terminal == {"activated", "withdrawn", "rejected", "superseded", "stale"}

ASSUME ProposalAssumption ==
    /\ MaxVersion \in Nat
    /\ MaxAttempts \in Nat \ {0}
    /\ MaxLive \in Nat
    /\ MaxDisturbances \in Nat
    /\ NoCandidate \notin Candidates
    /\ NoChallenge \notin Challenges

Version == [state : {"absent", "open", "submitted", "approved"} \cup Terminal,
            baseline : 0 .. MaxVersion, semantics : Candidates \cup {NoCandidate}]
Revision == [state : {"none", "draft", "active", "superseded", "revoked", "expired"},
             content : Candidates \cup {NoCandidate}]
Challenge == [state : {"absent", "minting", "issued", "completed", "failed", "superseded", "expired"},
              version : 0 .. MaxVersion, verifiers : SUBSET Verifiers,
              digest : Candidates \cup {NoCandidate}, attempts : 0 .. MaxAttempts, late : BOOLEAN]
Request == [step : {"idle", "reading", "locked"}, version : 0 .. MaxVersion, seen : 0 .. MaxVersion,
            evidence : Challenges \cup {NoChallenge}, eligible : BOOLEAN]
Edit == [version : 0 .. MaxVersion, semantics : Candidates \cup {NoCandidate}]
Cascade == [version : 0 .. MaxVersion, status : {"current", "revoked", "expired"}, found : BOOLEAN]

NoVersion == [state |-> "absent", baseline |-> 0, semantics |-> NoCandidate]
NoRevision == [state |-> "none", content |-> NoCandidate]
Unissued == [state |-> "absent", version |-> 0, verifiers |-> {}, digest |-> NoCandidate,
             attempts |-> 0, late |-> FALSE]
Idle == [step |-> "idle", version |-> 0, seen |-> 0, evidence |-> NoChallenge, eligible |-> FALSE]
NoEdit == [version |-> 0, semantics |-> NoCandidate]
NoCascade == [version |-> 0, status |-> "current", found |-> FALSE]

Init ==
    /\ version = [v \in Versions |-> NoVersion]
    /\ revision = [v \in Versions |-> NoRevision]
    /\ active = 0
    /\ challenge = [c \in Challenges |-> Unissued]
    /\ evidence = [v \in Versions |-> NoChallenge]
    /\ revoked = {}
    /\ retired = {}
    /\ source = [v \in Versions |-> "current"]
    /\ edit = NoEdit
    /\ request = [a \in Activators |-> Idle]
    /\ cascade = NoCascade
    /\ guesses = [c \in Challenges |-> 0]
    /\ disturbances = 0

\* What may happen at any time happens at most MaxDisturbances times.
Disturb ==
    /\ disturbances < MaxDisturbances
    /\ disturbances' = disturbances + 1

-----------------------------------------------------------------------------
(* Locks.  An activation holds the family row, its version row and every   *)
(* revision row of the artifact; those who read a verifier hold it FOR     *)
(* SHARE, against its revocation.                                          *)

FamilyFree == \A a \in Activators : request[a].step # "locked"
VersionFree(v) == \A a \in Activators : request[a].step = "locked" => request[a].version # v
VerifierFree(k) ==
    /\ \A c \in Challenges : challenge[c].state = "minting" => k \notin challenge[c].verifiers
    /\ \A a \in Activators : request[a].evidence \in Challenges =>
          k \notin challenge[request[a].evidence].verifiers

-----------------------------------------------------------------------------
(* Proposal versions *)

\* open_proposal: a next version, when no earlier one is live.  The caller may
\* name the baseline; otherwise it is the active revision.
OpenProposal(v, b) ==
    /\ FamilyFree
    /\ version[v].state = "absent"
    /\ \A w \in Versions : w < v => version[w].state \in Terminal
    /\ b = active \/ (b \in Versions /\ revision[b].state # "none")
    /\ version' = [version EXCEPT ![v] = [state |-> "open", baseline |-> b, semantics |-> NoCandidate]]
    /\ UNCHANGED <<revision, active, challenge, evidence, revoked, retired, source, edit, request,
                   cascade, guesses, disturbances>>

\* edit: the state is read without a lock ...
EditRead(v, s) ==
    /\ edit = NoEdit
    /\ version[v].state = "open"
    /\ version[v].semantics # s
    /\ edit' = [version |-> v, semantics |-> s]
    /\ UNCHANGED <<version, revision, active, challenge, evidence, revoked, retired, source, request,
                   cascade, guesses, disturbances>>

\* ... and update_semantics does not look at it again.
EditWrite ==
    /\ edit # NoEdit
    /\ VersionFree(edit.version)
    /\ version' = [version EXCEPT ![edit.version].semantics = edit.semantics]
    /\ edit' = NoEdit
    /\ UNCHANGED <<revision, active, challenge, evidence, revoked, retired, source, request, cascade,
                   guesses, disturbances>>

\* submit: materialise the candidate as a draft and freeze the version.  An
\* edit that lands between its read and its freeze leaves what one that lands
\* after it leaves.
Submit(v) ==
    /\ version[v].state = "open"
    /\ version[v].semantics # NoCandidate
    /\ revision' = [revision EXCEPT ![v] = [state |-> "draft", content |-> version[v].semantics]]
    /\ version' = [version EXCEPT ![v].state = "submitted"]
    /\ UNCHANGED <<active, challenge, evidence, revoked, retired, source, edit, request, cascade, guesses,
                   disturbances>>

\* transition_version, and withdraw, reject and supersede.
Transition(v, from, to) ==
    /\ Disturb
    /\ VersionFree(v)
    /\ version[v].state \in from
    /\ version' = [version EXCEPT ![v].state = to]
    /\ UNCHANGED <<revision, active, challenge, evidence, revoked, retired, source, edit, request,
                   cascade, guesses>>

Decide(v) ==
    \/ Transition(v, {"open"}, "withdrawn")
    \/ Transition(v, {"submitted"}, "rejected")
    \/ Transition(v, {"submitted", "approved"}, "superseded")

-----------------------------------------------------------------------------
(* Approval challenges *)

Live(v) == {c \in Challenges : challenge[c].version = v /\ challenge[c].state = "issued" /\ ~ challenge[c].late}

\* create_challenge: the checks and the digest of the review package ...
CreateRead(c, v, k) ==
    /\ challenge[c].state = "absent"
    /\ version[v].state = "submitted"
    /\ k \notin revoked
    /\ Cardinality(Live(v)) < MaxLive
    /\ challenge' = [challenge EXCEPT ![c] = [Unissued EXCEPT !.state = "minting", !.version = v,
                                                 !.verifiers = {k}, !.digest = version[v].semantics]]
    /\ UNCHANGED <<version, revision, active, evidence, revoked, retired, source, edit, request, cascade,
                   guesses, disturbances>>

\* ... and the insert.
CreateInsert(c) ==
    /\ challenge[c].state = "minting"
    /\ challenge' = [challenge EXCEPT ![c].state = "issued"]
    /\ UNCHANGED <<version, revision, active, evidence, revoked, retired, source, edit, request, cascade,
                   guesses, disturbances>>

\* CHALLENGE_TTL passes.
FallsLate(c) ==
    /\ Disturb
    /\ challenge[c].state = "issued"
    /\ ~ challenge[c].late
    /\ challenge' = [challenge EXCEPT ![c].late = TRUE]
    /\ UNCHANGED <<version, revision, active, evidence, revoked, retired, source, edit, request, cascade,
                   guesses>>

\* The refusal whose transaction is rolled back with its writes.
CompleteWrongDiscarded(c) ==
    /\ challenge[c].state = "issued"
    /\ ~ challenge[c].late
    /\ guesses' = [guesses EXCEPT ![c] = @ + 1]
    /\ UNCHANGED <<version, revision, active, challenge, evidence, revoked, retired, source, edit, request,
                   cascade, disturbances>>

\* A ceiling that allows one attempt too many.
CompleteWrongOneMore(c) ==
    /\ challenge[c].state = "issued"
    /\ ~ challenge[c].late
    /\ challenge' = [challenge EXCEPT ![c].attempts = @ + 1,
                                      ![c].state = IF challenge[c].attempts + 1 > MaxAttempts
                                                   THEN "failed" ELSE "issued"]
    /\ guesses' = [guesses EXCEPT ![c] = @ + 1]
    /\ UNCHANGED <<version, revision, active, evidence, revoked, retired, source, edit, request, cascade,
                   disturbances>>

\* complete with a proof that does not verify, or by a verifier no longer
\* usable: record_failed_attempt, committed before the refusal is raised.
CompleteWrong(c) ==
    /\ challenge[c].state = "issued"
    /\ ~ challenge[c].late
    /\ challenge' = [challenge EXCEPT ![c].attempts = @ + 1,
                                      ![c].state = IF challenge[c].attempts + 1 >= MaxAttempts
                                                   THEN "failed" ELSE "issued"]
    /\ guesses' = [guesses EXCEPT ![c] = @ + 1]
    /\ UNCHANGED <<version, revision, active, evidence, revoked, retired, source, edit, request, cascade,
                   disturbances>>

\* An approval that trusts that its version is still submitted.
CompleteUnchecked(c) ==
    /\ challenge[c].state = "issued"
    /\ ~ challenge[c].late
    /\ challenge[c].verifiers \cap revoked = {}
    /\ challenge[c].digest = version[challenge[c].version].semantics
    /\ VersionFree(challenge[c].version)
    /\ version' = [version EXCEPT ![challenge[c].version].state = "approved"]
    /\ evidence' = [evidence EXCEPT ![challenge[c].version] = c]
    /\ challenge' = [challenge EXCEPT ![c].state = "completed"]
    /\ UNCHANGED <<revision, active, revoked, retired, source, edit, request, cascade, guesses, disturbances>>

\* complete with a proof that verifies, over a package that has not changed:
\* the compare-and-swap of the version decides between evidence and a loss.
CompleteValid(c) ==
    LET v == challenge[c].version
    IN  /\ challenge[c].state = "issued"
        /\ ~ challenge[c].late
        /\ challenge[c].verifiers \cap revoked = {}
        /\ challenge[c].digest = version[v].semantics
        /\ VersionFree(v)
        /\ \/ /\ version[v].state = "submitted"
              /\ version' = [version EXCEPT ![v].state = "approved"]
              /\ evidence' = [evidence EXCEPT ![v] = c]
              /\ challenge' = [challenge EXCEPT ![c].state = "completed"]
           \/ /\ version[v].state # "submitted"
              /\ challenge' = [challenge EXCEPT ![c].state = "superseded"]
              /\ UNCHANGED <<version, evidence>>
        /\ UNCHANGED <<revision, active, revoked, retired, source, edit, request, cascade, guesses, disturbances>>

\* complete after expires_at.
CompleteLate(c) ==
    /\ challenge[c].state = "issued"
    /\ challenge[c].late
    /\ challenge' = [challenge EXCEPT ![c].state = "expired"]
    /\ UNCHANGED <<version, revision, active, evidence, revoked, retired, source, edit, request, cascade,
                   guesses, disturbances>>

-----------------------------------------------------------------------------
(* Activation *)

\* activate and _evaluate, before any write lock: the family as it is now, and
\* the evidence with its verifier FOR SHARE.
ActivateRead(a, v) ==
    /\ request[a].step = "idle"
    /\ revision[v].state # "none"
    /\ request' = [request EXCEPT ![a] = [Idle EXCEPT !.step = "reading", !.version = v, !.seen = active,
                                                      !.evidence = evidence[v]]]
    /\ UNCHANGED <<version, revision, active, challenge, evidence, revoked, retired, source, edit, cascade,
                   guesses, disturbances>>

IsLatest(v) == \A w \in Versions : w > v => version[w].state = "absent"

\* The predicates of _evaluate that the model tells apart.
Eligible(v, e) ==
    /\ IsLatest(v)                                                  \* latest_version
    /\ version[v].state = "approved"                                \* state_approved
    /\ e # NoChallenge /\ challenge[e].digest = version[v].semantics  \* digest_chain
    /\ version[v].baseline = active                                 \* baseline_current
    /\ source[v] = "current"                                        \* source_valid
    /\ v \notin retired                                             \* risk_reproducible
    /\ challenge[e].verifiers \cap revoked = {}                     \* projection_evidence_valid

\* The write locks, and the predicates under them.
ActivateLock(a) ==
    /\ request[a].step = "reading"
    /\ FamilyFree
    /\ \E ok \in BOOLEAN :
          /\ ok => Eligible(request[a].version, request[a].evidence)
          /\ request' = [request EXCEPT ![a].step = "locked", ![a].eligible = ok]
    /\ UNCHANGED <<version, revision, active, challenge, evidence, revoked, retired, source, edit, cascade,
                   guesses, disturbances>>

\* What _commit_activation needs: the draft, and active_revision_id as it was
\* before the locks.
Commits(a) ==
    /\ request[a].eligible
    /\ revision[request[a].version].state = "draft"
    /\ request[a].seen = active

\* An activation that leaves the revision it replaces as it was.
ActivateBeside(a) ==
    LET v == request[a].version
    IN  /\ request[a].step = "locked"
        /\ Commits(a)
        /\ revision' = [revision EXCEPT ![v].state = "active"]
        /\ active' = v
        /\ version' = [version EXCEPT ![v].state = "activated"]
        /\ request' = [request EXCEPT ![a] = Idle]
        /\ UNCHANGED <<challenge, evidence, revoked, retired, source, edit, cascade, guesses, disturbances>>

\* _commit_activation: supersede, activate, move the family, end the version.
ActivateCommit(a) ==
    LET v == request[a].version
    IN  /\ request[a].step = "locked"
        /\ Commits(a)
        /\ revision' = [w \in Versions |->
                          CASE w = v -> [revision[w] EXCEPT !.state = "active"]
                            [] w # v /\ w = request[a].seen /\ revision[w].state = "active" ->
                                  [revision[w] EXCEPT !.state = "superseded"]
                            [] OTHER -> revision[w]]
        /\ active' = v
        /\ version' = [version EXCEPT ![v].state = "activated"]
        /\ request' = [request EXCEPT ![a] = Idle]
        /\ UNCHANGED <<challenge, evidence, revoked, retired, source, edit, cascade, guesses, disturbances>>

\* Every refusal raises inside the transaction and leaves the rows as they
\* were; so does the one for a retired reducer, with the stale it has written.
ActivateRefused(a) ==
    /\ request[a].step = "locked"
    /\ ~ Commits(a)
    /\ request' = [request EXCEPT ![a] = Idle]
    /\ UNCHANGED <<version, revision, active, challenge, evidence, revoked, retired, source, edit, cascade,
                   guesses, disturbances>>

-----------------------------------------------------------------------------
(* What takes a revision out of force *)

\* revoke and invalidate, from every state but revoked; active_revision_id stays.
Revoke(v) ==
    /\ Disturb
    /\ FamilyFree
    /\ revision[v].state \in {"draft", "active", "superseded", "expired"}
    /\ revision' = [revision EXCEPT ![v].state = "revoked"]
    /\ UNCHANGED <<version, active, challenge, evidence, revoked, retired, source, edit, request, cascade,
                   guesses>>

\* The review expiry worker, past review_expires_at; it skips locked rows.
ReviewExpires(v) ==
    /\ Disturb
    /\ FamilyFree
    /\ revision[v].state = "active"
    /\ revision' = [revision EXCEPT ![v].state = "expired"]
    /\ UNCHANGED <<version, active, challenge, evidence, revoked, retired, source, edit, request, cascade,
                   guesses>>

\* A revocation that does not wait for those who hold the verifier.
RevokeVerifierAtOnce(k) ==
    /\ Disturb
    /\ revoked' = revoked \cup {k}
    /\ UNCHANGED <<version, revision, active, challenge, evidence, retired, source, edit, request, cascade,
                   guesses>>

\* revoke_verifier.  Its cascade follows approval_evidence_id, which no
\* authored revision has.
RevokeVerifier(k) ==
    /\ Disturb
    /\ VerifierFree(k)
    /\ revoked' = revoked \cup {k}
    /\ UNCHANGED <<version, revision, active, challenge, evidence, retired, source, edit, request, cascade,
                   guesses>>

\* A deployment that no longer knows the reducer of the versions so far.
RetireReducer ==
    /\ Disturb
    /\ retired' = {v \in Versions : revision[v].state # "none"}
    /\ retired' # retired
    /\ UNCHANGED <<version, revision, active, challenge, evidence, revoked, source, edit, request, cascade,
                   guesses>>

\* _record_terminal_transition: flip the status, read the active dependents ...
CascadeRead(v, status) ==
    /\ Disturb
    /\ cascade = NoCascade
    /\ source[v] = "current"
    /\ version[v].state # "absent"
    /\ cascade' = [version |-> v, status |-> status, found |-> revision[v].state = "active"]
    /\ UNCHANGED <<version, revision, active, challenge, evidence, revoked, retired, source, edit, request,
                   guesses>>

\* ... and move each to the state of the source, whatever it is in by then.
CascadeCommit ==
    /\ cascade # NoCascade
    /\ cascade.found => FamilyFree
    /\ source' = [source EXCEPT ![cascade.version] = cascade.status]
    /\ revision' = IF cascade.found THEN [revision EXCEPT ![cascade.version].state = cascade.status]
                   ELSE revision
    /\ cascade' = NoCascade
    /\ UNCHANGED <<version, active, challenge, evidence, revoked, retired, edit, request, guesses, disturbances>>

-----------------------------------------------------------------------------

Next ==
    \/ \E v \in Versions, b \in 0 .. MaxVersion : OpenProposal(v, b)
    \/ \E v \in Versions, s \in Candidates : EditRead(v, s)
    \/ EditWrite
    \/ \E v \in Versions : Submit(v) \/ Decide(v) \/ Revoke(v) \/ ReviewExpires(v)
    \/ \E c \in Challenges, v \in Versions, k \in Verifiers : CreateRead(c, v, k)
    \/ \E c \in Challenges : CreateInsert(c) \/ FallsLate(c) \/ CompleteWrong(c) \/ CompleteValid(c)
                             \/ CompleteLate(c)
    \/ \E a \in Activators, v \in Versions : ActivateRead(a, v)
    \/ \E a \in Activators : ActivateLock(a) \/ ActivateCommit(a) \/ ActivateRefused(a)
    \/ \E k \in Verifiers : RevokeVerifier(k)
    \/ RetireReducer
    \/ \E v \in Versions, status \in {"revoked", "expired"} : CascadeRead(v, status)
    \/ CascadeCommit

Spec == Init /\ [][Next]_vars

-----------------------------------------------------------------------------
(* Properties *)

\* Every variable has its type; the attempts of a challenge stay within its limit.
TypeOK ==
    /\ version \in [Versions -> Version]
    /\ revision \in [Versions -> Revision]
    /\ active \in 0 .. MaxVersion
    /\ challenge \in [Challenges -> Challenge]
    /\ evidence \in [Versions -> Challenges \cup {NoChallenge}]
    /\ revoked \subseteq Verifiers
    /\ retired \subseteq Versions
    /\ source \in [Versions -> {"current", "revoked", "expired"}]
    /\ edit \in Edit
    /\ request \in [Activators -> Request]
    /\ cascade \in Cascade
    /\ guesses \in [Challenges -> Nat]
    /\ disturbances \in Nat

\* At most one revision of the family is in force, and it is the one the family
\* names: whatever activations, revocations, expiries and source transitions
\* overlap, none leaves a second one behind.
OneInForce == \A v \in Versions : revision[v].state = "active" => v = active

\* A version that is approved or activated has exactly one challenge that was
\* completed for it, its evidence: two completions that race for one version
\* do not both count, and none counts for a version that was decided meanwhile.
ApprovedOnce ==
    /\ \A v \in Versions : version[v].state \in {"approved", "activated"} => evidence[v] # NoChallenge
    /\ \A c \in Challenges : challenge[c].state = "completed" =>
          /\ evidence[challenge[c].version] = c
          /\ version[challenge[c].version].state \in {"approved", "activated", "superseded", "stale"}
    /\ \A v \in Versions : evidence[v] # NoChallenge =>
          challenge[evidence[v]].version = v /\ challenge[evidence[v]].state = "completed"

\* No more than MaxAttempts wrong proofs are ever checked against a challenge,
\* although every one of them ends in a request that fails.
AttemptCeiling == \A c \in Challenges : guesses[c] <= MaxAttempts

\* At the moment a revision comes in force, the predicates that were evaluated
\* earlier still hold: the version is the latest and approved, what is signed is
\* what is proposed, the reviewed baseline is what is replaced, and the verifier
\* is trusted.
GateHolds ==
    [][\A v \in Versions : revision[v].state # "active" /\ revision'[v].state = "active" =>
          /\ IsLatest(v) /\ version[v].state = "approved"
          /\ evidence[v] # NoChallenge
          /\ challenge[evidence[v]].digest = version[v].semantics
          /\ challenge[evidence[v]].verifiers \cap revoked = {}
          /\ version[v].baseline = active]_vars

\* What is in force is what was signed: the directives that submission
\* materialised are those of the candidate that the evidence covers.
SignedIsInForce ==
    \A v \in Versions : revision[v].state = "active" =>
        revision[v].content = challenge[evidence[v]].digest

=============================================================================
