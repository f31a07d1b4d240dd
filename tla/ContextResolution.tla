--------------------------- MODULE ContextResolution ---------------------------
(***************************************************************************)
(* resolve_context: one REPEATABLE READ transaction that answers a signed  *)
(* manifest with a receipt, consumes the challenge the manifest was signed *)
(* for, and writes its audit row.  It takes its snapshot with the replay   *)
(* check, locks the signer key FOR SHARE, the challenge FOR UPDATE and the *)
(* verifier of every selected revision FOR SHARE, and is run again with    *)
(* the same receipt id when one of these rows has changed since the        *)
(* snapshot.  A refusal is audited in a transaction of its own, after the  *)
(* rollback.                                                               *)
(*                                                                         *)
(* One host of one tenant, with one signer key.  Of what a call selects    *)
(* the model keeps who vouched for it.  The chain of a receipt begins with *)
(* its row, and nothing in the repository marks it as failed, so that a    *)
(* receipt stays valid.                                                    *)
(***************************************************************************)
EXTENDS AuditOutbox

CONSTANTS
    Challenges,     \* arc_context_challenges rows, one per idempotency key
    Attestations,   \* attestation_ids
    Manifests,      \* manifest claims, by their digest
    Requests,       \* calls of resolve, named by the receipt_id each preallocates
    Verifiers,      \* arc_approval_verifiers rows
    MaxAttempts,    \* MAX_RESOLUTION_ATTEMPTS
    None

VARIABLES
    challenge,  \* challenge[c]: its row
    late,       \* challenges whose expires_at has passed
    revoked,    \* revoked_at of the signer key is set
    withdrawn,  \* verifiers whose revoked_at is set
    receipt,    \* receipt[a]: the arc_receipts row of attestation a
    request     \* request[r]: a call of resolve

trustVars == <<late, revoked, withdrawn>>
vars == <<challenge, trustVars, receipt, request, disturbances, auditVars>>

ASSUME ResolutionAssumption ==
    /\ MaxAttempts \in Nat \ {0}
    /\ None \notin Requests \cup Challenges \cup Manifests \cup Attestations
    /\ Events = ({"issued", "purged"} \X Challenges) \cup ({"resolved"} \X Attestations)
                   \cup ({"refused"} \X Requests) \cup ({"withdrawn"} \X Verifiers)

Row == [state : {"absent", "issued", "consumed", "purged"}, manifest : Manifests \cup {None}]
\* Whether a bundle is blocked, and the verifiers that vouched for what it carries.
Bundle == [blocked : BOOLEAN, carries : SUBSET Verifiers]
Receipt == [id : Requests \cup {None}, challenge : Challenges \cup {None}, manifest : Manifests \cup {None},
            bundle : Bundle]
Steps == {"idle", "attempt", "replayed", "verified", "validated", "selected", "refusing", "ended"}
Request == [step : Steps, attestation : Attestations \cup {None}, challenge : Challenges \cup {None},
            manifest : Manifests \cup {None}, attempts : 0 .. MaxAttempts,
            row : Row, revoked : BOOLEAN, withdrawn : SUBSET Verifiers,     \* the snapshot
            shares : SUBSET Verifiers,      \* verifiers of the selected revisions
            result : {"none", "receipt", "conflict", "unverified", "duplicate", "exhausted", "lost"},
            receipt : Requests \cup {None}]

NoRow == [state |-> "absent", manifest |-> None]
NoReceipt == [id |-> None, challenge |-> None, manifest |-> None,
              bundle |-> [blocked |-> FALSE, carries |-> {}]]
Uncalled == [step |-> "idle", attestation |-> None, challenge |-> None, manifest |-> None, attempts |-> 0,
             row |-> NoRow, revoked |-> FALSE, withdrawn |-> {}, shares |-> {}, result |-> "none", receipt |-> None]

Init ==
    /\ challenge = [c \in Challenges |-> NoRow]
    /\ late = {}
    /\ revoked = FALSE
    /\ withdrawn = {}
    /\ receipt = [a \in Attestations |-> NoReceipt]
    /\ request = [r \in Requests |-> Uncalled]
    /\ AuditInit

-----------------------------------------------------------------------------
(* Challenges, the signer key and the verifiers *)

\* Row locks last until the transaction ends.
HoldsKey(r) == request[r].step \in {"verified", "validated", "selected"}
HoldsChallenge(r, c) == request[r].step \in {"validated", "selected"} /\ request[r].challenge = c
HoldsVerifier(r, v) == request[r].step = "selected" /\ v \in request[r].shares

ChallengeFree(c) == \A r \in Requests : ~ HoldsChallenge(r, c)
KeyFree == \A r \in Requests : ~ HoldsKey(r)
VerifierFree(v) == \A r \in Requests : ~ HoldsVerifier(r, v)

\* issue_challenge.  A later call with the same key resumes the row or is
\* refused, and so does the loser of a race for it.
Issue(c, m) ==
    /\ challenge[c].state = "absent"
    /\ challenge' = [challenge EXCEPT ![c] = [state |-> "issued", manifest |-> m]]
    /\ Emit(<<"issued", c>>)
    /\ UNCHANGED <<trustVars, receipt, request, disturbances, log, pass>>

\* CHALLENGE_TTL passes.
FallsLate(c) ==
    /\ challenge[c].state = "issued"
    /\ c \notin late
    /\ Disturb
    /\ late' = late \cup {c}
    /\ UNCHANGED <<challenge, revoked, withdrawn, receipt, request, auditVars>>

\* A cleanup that looks at the expiry alone.
PurgeAny(c) ==
    /\ challenge[c].state \in {"issued", "consumed"}
    /\ c \in late
    /\ ChallengeFree(c)
    /\ challenge' = [challenge EXCEPT ![c].state = "purged"]
    /\ Emit(<<"purged", c>>)
    /\ UNCHANGED <<trustVars, receipt, request, disturbances, log, pass>>

\* The cleanup worker, long after the expiry; one row per pass.
Purge(c) ==
    /\ challenge[c].state = "issued"
    /\ c \in late
    /\ ChallengeFree(c)
    /\ challenge' = [challenge EXCEPT ![c].state = "purged"]
    /\ Emit(<<"purged", c>>)
    /\ UNCHANGED <<trustVars, receipt, request, disturbances, log, pass>>

\* A revocation that does not wait for those who share the key.
RevokeAtOnce ==
    /\ ~ revoked
    /\ Disturb
    /\ revoked' = TRUE
    /\ UNCHANGED <<challenge, late, withdrawn, receipt, request, auditVars>>

\* HostSignerKeyRegistry.revoke waits for every transaction that shares the row.
Revoke ==
    /\ ~ revoked
    /\ KeyFree
    /\ Disturb
    /\ revoked' = TRUE
    /\ UNCHANGED <<challenge, late, withdrawn, receipt, request, auditVars>>

\* A withdrawal that does not wait for those who share the verifier.
WithdrawAtOnce(v) ==
    /\ v \notin withdrawn
    /\ Disturb
    /\ withdrawn' = withdrawn \cup {v}
    /\ Emit(<<"withdrawn", v>>)
    /\ UNCHANGED <<challenge, late, revoked, receipt, request, log, pass>>

\* revoke_verifier, which likewise waits, and is audited.  What it cascades to
\* is not read by a resolution.
Withdraw(v) ==
    /\ v \notin withdrawn
    /\ VerifierFree(v)
    /\ Disturb
    /\ withdrawn' = withdrawn \cup {v}
    /\ Emit(<<"withdrawn", v>>)
    /\ UNCHANGED <<challenge, late, revoked, receipt, request, log, pass>>

-----------------------------------------------------------------------------
(* Resolution *)

\* What is left of a call when its transaction is gone.
Asked(r) == [Uncalled EXCEPT !.attestation = request[r].attestation, !.challenge = request[r].challenge,
                             !.manifest = request[r].manifest]

End(r, result, id) ==
    request' = [request EXCEPT ![r] = [Asked(r) EXCEPT !.step = "ended", !.result = result, !.receipt = id]]

\* resolve is called; the receipt id is minted once.
Call(r, a, c, m) ==
    /\ request[r].step = "idle"
    /\ request' = [request EXCEPT ![r] = [Uncalled EXCEPT !.step = "attempt", !.attestation = a,
                                                          !.challenge = c, !.manifest = m, !.attempts = 1]]
    /\ UNCHANGED <<challenge, trustVars, receipt, disturbances, auditVars>>

\* A replay that does not look at what was asked for.
ReplayAny(r) ==
    LET found == receipt[request[r].attestation]
    IN  /\ request[r].step = "attempt"
        /\ \/ /\ found = NoReceipt
              /\ request' = [request EXCEPT ![r].step = "replayed", ![r].row = challenge[request[r].challenge],
                                            ![r].revoked = revoked, ![r].withdrawn = withdrawn]
           \/ /\ found # NoReceipt
              /\ End(r, "receipt", found.id)
        /\ UNCHANGED <<challenge, trustVars, receipt, disturbances, auditVars>>

\* The snapshot, and _replay: a receipt of this attestation answers the call.
Replay(r) ==
    LET found == receipt[request[r].attestation]
    IN  /\ request[r].step = "attempt"
        /\ \/ /\ found = NoReceipt
              /\ request' = [request EXCEPT ![r].step = "replayed", ![r].row = challenge[request[r].challenge],
                                            ![r].revoked = revoked, ![r].withdrawn = withdrawn]
           \/ /\ found # NoReceipt /\ found.manifest # request[r].manifest
              /\ End(r, "conflict", None)
           \/ /\ found # NoReceipt /\ found.manifest = request[r].manifest
              /\ End(r, "receipt", found.id)
        /\ UNCHANGED <<challenge, trustVars, receipt, disturbances, auditVars>>

\* The row to be locked has changed since the snapshot: the loop of resolve.
SerializationFailure(r) ==
    IF request[r].attempts < MaxAttempts
    THEN request' = [request EXCEPT ![r] = [Asked(r) EXCEPT !.step = "attempt", !.attempts = request[r].attempts + 1]]
    ELSE End(r, "exhausted", None)

\* The rollback before a refusal is audited.
Reject(r) == request' = [request EXCEPT ![r] = [Asked(r) EXCEPT !.step = "refusing"]]

\* verify_attestation: the key FOR SHARE, then everything about the envelope,
\* which may be found wanting.
Verify(r) ==
    /\ request[r].step = "replayed"
    /\ \/ /\ revoked # request[r].revoked
          /\ SerializationFailure(r)
       \/ /\ revoked = request[r].revoked
          /\ Reject(r)
       \/ /\ revoked = request[r].revoked
          /\ ~ revoked
          /\ request' = [request EXCEPT ![r].step = "verified"]
    /\ UNCHANGED <<challenge, trustVars, receipt, disturbances, auditVars>>

\* validate_challenge: the row FOR UPDATE, unless the snapshot does not have it.
Validate(r) ==
    LET c == request[r].challenge
    IN  /\ request[r].step = "verified"
        /\ ChallengeFree(c)
        /\ \/ /\ challenge[c] # request[r].row /\ request[r].row # NoRow
              /\ SerializationFailure(r)
           \/ /\ challenge[c] = request[r].row \/ request[r].row = NoRow
              /\ request[r].row # [state |-> "issued", manifest |-> request[r].manifest] \/ c \in late
              /\ Reject(r)
           \/ /\ challenge[c] = request[r].row
              /\ request[r].row = [state |-> "issued", manifest |-> request[r].manifest]
              /\ c \notin late
              /\ request' = [request EXCEPT ![r].step = "validated"]
        /\ UNCHANGED <<challenge, trustVars, receipt, disturbances, auditVars>>

\* select_and_verify: assess locks the verifier of each selected revision.
Select(r) ==
    /\ request[r].step = "validated"
    /\ \E selected \in SUBSET Verifiers :
          \/ /\ selected \cap (withdrawn \ request[r].withdrawn) # {}
             /\ SerializationFailure(r)
          \/ /\ selected \cap (withdrawn \ request[r].withdrawn) = {}
             /\ request' = [request EXCEPT ![r].step = "selected", ![r].shares = selected]
    /\ UNCHANGED <<challenge, trustVars, receipt, disturbances, auditVars>>

\* assemble: an optional revision that was refused is left out, whoever vouched
\* for it.  A mandatory one that was refused, a conflict, a missing obligation or
\* the budget block the bundle, which then carries every mandatory directive,
\* the refused ones included, or nothing.
Bundles(q) ==
    [blocked : {FALSE}, carries : SUBSET (q.shares \ q.withdrawn)]
        \cup [blocked : {TRUE}, carries : SUBSET Verifiers]

\* A commit whose audit row is left for later.
CommitUnaudited(r) ==
    LET q == request[r]
    IN  /\ q.step = "selected"
        /\ receipt[q.attestation] = NoReceipt
        /\ \E bundle \in Bundles(q) :
              receipt' = [receipt EXCEPT ![q.attestation] =
                            [id |-> r, challenge |-> q.challenge, manifest |-> q.manifest, bundle |-> bundle]]
        /\ challenge' = [challenge EXCEPT ![q.challenge].state = "consumed"]
        /\ End(r, "receipt", r)
        /\ UNCHANGED <<trustVars, disturbances, auditVars>>

\* create_receipt, consume_challenge, emit and commit.  A receipt for the same
\* attestation that the snapshot did not have is a unique violation, which is
\* not retried.
Commit(r) ==
    LET q == request[r]
    IN  /\ q.step = "selected"
        /\ \/ /\ receipt[q.attestation] = NoReceipt
              /\ \E bundle \in Bundles(q) :
                    receipt' = [receipt EXCEPT ![q.attestation] =
                                  [id |-> r, challenge |-> q.challenge, manifest |-> q.manifest, bundle |-> bundle]]
              /\ challenge' = [challenge EXCEPT ![q.challenge].state = "consumed"]
              /\ Emit(<<"resolved", q.attestation>>)
              /\ End(r, "receipt", r)
           \/ /\ receipt[q.attestation] # NoReceipt
              /\ End(r, "duplicate", None)
              /\ UNCHANGED <<receipt, challenge, outbox>>
        /\ UNCHANGED <<trustVars, disturbances, log, pass>>

\* _audit_failed_attempt, after the rollback, and then ManifestUnverified.
Refuse(r) ==
    /\ request[r].step = "refusing"
    /\ Emit(<<"refused", r>>)
    /\ End(r, "unverified", None)
    /\ UNCHANGED <<challenge, trustVars, receipt, disturbances, log, pass>>

\* The process stops in the middle of a call; what is open is rolled back.
Lose(r) ==
    /\ request[r].step \notin {"idle", "ended"}
    /\ Disturb
    /\ End(r, "lost", None)
    /\ UNCHANGED <<challenge, trustVars, receipt, auditVars>>

-----------------------------------------------------------------------------

Step(r) == Replay(r) \/ Verify(r) \/ Validate(r) \/ Select(r) \/ Commit(r) \/ Refuse(r)

Next ==
    \/ \E c \in Challenges : (\E m \in Manifests : Issue(c, m)) \/ FallsLate(c) \/ Purge(c)
    \/ Revoke
    \/ \E v \in Verifiers : Withdraw(v)
    \/ \E r \in Requests : \E a \in Attestations, c \in Challenges, m \in Manifests : Call(r, a, c, m)
    \/ \E r \in Requests : Step(r) \/ Lose(r)
    \/ DrainStep /\ UNCHANGED <<challenge, trustVars, receipt, request>>

Spec == Init /\ [][Next]_vars

\* A call in progress goes on; the drain job is scheduled, and a pass that was
\* begun ends.
Fairness ==
    /\ \A r \in Requests : WF_vars(Step(r))
    /\ \A d \in Drainers :
          WF_vars((DrainClaim(d) \/ DrainCommit(d)) /\ UNCHANGED <<challenge, trustVars, receipt, request>>)

FairSpec == Spec /\ Fairness

-----------------------------------------------------------------------------
(* Properties *)

\* Every variable has its type; no audit row is charged past its limit.
TypeOK ==
    /\ challenge \in [Challenges -> Row]
    /\ late \subseteq Challenges
    /\ revoked \in BOOLEAN
    /\ withdrawn \subseteq Verifiers
    /\ receipt \in [Attestations -> Receipt]
    /\ request \in [Requests -> Request]
    /\ AuditTypeOK

\* A challenge is consumed exactly when one receipt stands on it, whatever calls
\* race for it, are refused, are lost or run again.
ConsumedOnce ==
    \A c \in Challenges :
        LET standing == {a \in Attestations : receipt[a].challenge = c}
        IN  /\ challenge[c].state = "consumed" <=> standing # {}
            /\ \A a, b \in standing : a = b

\* Two calls that are answered for one attestation are answered with the same
\* receipt and asked for the same manifest: a retry never makes a second one.
RetryGetsTheReceipt ==
    \A r, s \in Requests :
        /\ request[r].result = "receipt" /\ request[s].result = "receipt"
        /\ request[r].attestation = request[s].attestation
        => /\ request[r].receipt = request[s].receipt
           /\ request[r].manifest = request[s].manifest

\* The audit trail: the log has the rows that were drained, a receipt and its
\* row appear together, and a refusal that was answered is on record although
\* its transaction was rolled back.
TrailIsComplete ==
    /\ \A e \in Events : e \in log <=> outbox[e].state = "drained"
    /\ \A a \in Attestations : receipt[a] # NoReceipt <=> outbox[<<"resolved", a>>].state # "absent"
    /\ \A r \in Requests : request[r].result = "unverified" <=> outbox[<<"refused", r>>].state # "absent"
    /\ \A v \in Verifiers : v \in withdrawn <=> outbox[<<"withdrawn", v>>].state # "absent"

\* No receipt is written once the key that signed for it is revoked.
RevocationLinearizes ==
    [][\A a \in Attestations : receipt[a] = NoReceipt /\ receipt'[a] # NoReceipt => ~ revoked]_vars

\* What a bundle that is not blocked carries was vouched for by a verifier that
\* is still trusted when its receipt is written, although the corpus was read,
\* the revisions selected and the verifiers looked up before.
ServesWhatIsVouched ==
    [][\A a \in Attestations :
        receipt[a] = NoReceipt /\ ~ receipt'[a].bundle.blocked => receipt'[a].bundle.carries \cap withdrawn = {}]_vars

\* Every audit row reaches the log, unless its writes fail as often as allowed:
\* in the end no row waits with attempts left, whatever was lost or refused.
RowsAreDrained ==
    <>[](\A e \in Events : outbox[e].state = "waiting" => outbox[e].attempts = MaxWrites)

=============================================================================
