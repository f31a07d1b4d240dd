# A TLA+ model of contextplane

contextplane is a multi-tenant FastAPI service over PostgreSQL: a catalog of
entities and relationships, a governed memory for agents, and ARC, which puts
governance artifacts in force and answers agents with signed receipts. This
directory holds TLA+ modules of the parts of it where several processes work on
shared rows, the TLC configurations that check them on small instances, and
TLAPS proofs of their central properties for instances of any size.
`PROJECT.json` maps every definition to the lines it models.

Run a configuration with `tlc -workers 2 -config Drain.cfg MCExtractionDrain`,
and check the proofs of a module with `tlapm ExtractionDrainProofs.tla`.

## 1. Inventory

Paths are relative to `src/contextplane/`. Every API replica runs the same
process: the HTTP routes and an APScheduler with all the periodic jobs
(`wiring/jobs.py`). The replicas (two by default in `src/deploy/helm`) meet
only in the database. Transactions run at READ COMMITTED, except those of
`arc/service/resolution.py`, which are REPEATABLE READ.

| Component | State | Operations | Hard behaviour | Must hold |
|---|---|---|---|---|
| Session-event log: `service/memory/session_events.py`, `session_event_expiry.py`, `workers/memory_expiry.py` | `memory_session_events`: per session numbered rows with a validity end | `record_event`, `list_events`, `delete_event`, retention sweep, physical purge, `erase_actor_events` | position computed from a snapshot and arbitrated by two unique indexes; purge lowers `MAX(seq)` | append is atomic; a paging reader misses nothing |
| Extraction outbox and drain: `workers/extraction_drain.py`, `extraction/*` | `memory_extraction_outbox`, `..._failed`, `memory_strategy_config` | `enqueue_extraction` inside the event's transaction; claim, load, provider call, stage, complete, retry, dead-letter | the claim's lock ends before the row is processed; the row is widened meanwhile; a batch is lost half way | no turn is lost silently; claims cite only their own session; the queue drains |
| Erasure of an actor: `service/governance/erasure.py`, `service/memory/claim_erasure.py`, `context/derivatives.py`, `api/routers/admin_workspaces.py` | none of its own; deletes from the tables of every participant | participants run in registration order, one transaction each; a failure ends the request | runs beside the drains; is retried after a partial failure; the first participants read what later ones delete | a reported erasure is complete; the chains of the claims that stay are whole |
| Webhook delivery: `workers/webhook_delivery.py`, `service/notifications/subscriptions.py` | `notification_deliveries`, `notification_subscriptions` | `emit_event`, claim, POST, bulk record; secret set or cleared | two replicas, lost ticks, attempt counters, head-of-line rows | every POST counted; success is final (says the docstring); abandoned only for cause; nobody starves |
| Retention and derivatives: `retention/*`, `workers/retention_expiry.py`, `workers/derivative_propagation.py` | `derivative_registrations`, `derivative_work_outbox`, `legal_holds` and renewals | register, place or renew a hold, sweep what is expired, erase, propagate | items applied after the claim commits; holds that come, lapse and return between selection and enqueue; items given up | no held record is queued; each cause is settled once and visibly |
| Claims and their index: `service/memory/claim_writer.py`, `quarantine.py`, `claim_curator_actions.py`, `service/retrieval/embedding_*.py`, `derivative_handlers.py` | `memory_claims`, `claim_quarantines`, `embedding_outbox`, `embeddings`, `embedding_outbox_failed` | write, consolidate, supersede, discard, quarantine, revert, erase; project, drain, retry | drainers finish from copies of rows that were refreshed, retracted or erased; overlapping quarantines | what may be served is indexed, what may not is not |
| ARC approval: `arc/service/proposal.py`, `provenance.py`, `submission.py`, `approval_challenge.py`, `activation.py`, `artifact.py`, `approval_trust.py`, `source_status.py`, `arc/workers/review_expiry.py` | proposal versions, revisions, challenges, evidence, verifiers, source status | open, edit, submit, decide, challenge, complete, activate, revoke, expire, cascade | reads before locks; refusals whose writes must survive; two activations at once | nothing is in force without a live approval of exactly that; one revision in force |
| ARC resolution and audit: `arc/service/resolution.py`, `challenge.py`, `attestation.py`, `receipt.py`, `audit_outbox.py`, `arc/workers/audit_drain.py`, `challenge_cleanup.py` | challenges, receipts, signer keys, the verifiers of what is selected, `arc_audit_outbox`, `audit_log` | issue, resolve, replay, revoke key or verifier, clean up; drain | serialization failures and retries; lost responses; revocation in the middle; a refusal that is rolled back | a challenge is used once; a retry gets the same receipt; nothing rests on revoked trust; the trail is complete |
| Scheduling: `workers/base.py` | the scheduler's jobs | `register_periodic` swallows what a tick raises, `max_instances=1` | overlap between replicas | ticks recur |
| ARC operational chain, observation, qualification, drafting | chain entries, runs, qualifications | append, export checkpoints, observe, qualify | hash chain order | verifiable chain |
| Closure cache: `workers/closure_refresh.py` | its queue and cache | claim, compute, store | a stale closure overwrites a newer one | the cache converges |
| HTTP middleware: `api/middleware/*` | `idempotency_keys`, rate counters | lookup, persist, count | two requests with one key on two replicas | one key, one effect |
| Ingest, signals, usage | sync cursors, buffered usage | pull, buffer, flush | a buffer lost or flushed twice, erasure of buffered rows | counted once |
| Workspaces, sharing, ownership, catalog, entities, profile, auth, audit | their tables | mostly one statement each | few | |

How the modelled parts interact. `record_event` writes the event and widens the
outbox row of each strategy in one transaction. A drain worker reads the outbox
and the log and writes claims with their evidence. A claim that becomes servable
is queued for embedding and registered as a derivative in the transaction that
changes it; drainers turn requests into vectors. An erasure request queues the
derivatives of the actor's records, deletes claims, selected by their evidence in
the log, with what the index holds of them, and then the log, the outbox and the
dead letters. The expiry sweep and quarantines feed the same propagation outbox.
ARC shares with the rest only the database and the scheduler: an activation
needs the evidence that a completed challenge left; a resolution consumes a
challenge, and both leave audit rows for the drain.

## 2. Modules and how they correspond to the code

| Module | Models |
|---|---|
| `ExtractionDrain` | session-event log, outbox, drain workers, one action per committed transaction |
| `ActorErasure` | extends `ExtractionDrain` with the claims, their confirmation and consolidation, and the erasure registry |
| `SessionLog` | the abstract promise of `record_event` |
| `SessionAppend` | `record_event` inside its transaction, and readers; implements `SessionLog` |
| `WebhookDelivery` | emission, delivery workers, subscription secrets |
| `CauseLedger` | the abstract promise of the propagation outbox |
| `DerivativeWork` | registrations, the propagation outbox and its workers; mapped to `CauseLedger`, which two workers violate |
| `Retention` | extends `DerivativeWork` with holds, the expiry sweep and an erasure |
| `EmbeddingDrain` | requests, vectors, dead letters and the drainers |
| `ClaimIndex` | composes `DerivativeWork` and `EmbeddingDrain` with claims, quarantines and an erasure |
| `ProposalApproval` | one artifact family from its proposal to a revision in force, and out of force |
| `AuditOutbox` | the audit rows of ARC and their drain |
| `ContextResolution` | extends `AuditOutbox` with challenges, the signer key, verifiers, receipts and `resolve` |
| `MC*` | the same modules with model values for TLC |
| `*Proofs` | theorems about the module they extend (`ExtractionDrainProofs` is about `ExtractionDrain` and `ActorErasure`) |

Definitions whose comment calls them a mutant, or describes a mistake, are
variants of the definition that follows them; no specification uses them. A
property is shown to depend on the code by putting the variant in its place.

### ExtractionDrain

`events` is the log; a record has its id, session, `seq` and whether it is live
(`invalidated_at` null). `outbox` is a function on the unique key of the
table (session and strategy, the tenant and actor being those of the session).
A row's `oid` stands for both `outbox_id` and `enqueued_at`: it is the id of the
event that inserted the row; rows of one event are told apart by an arbitrary
order on strategies (`TieBreak`), as random identifiers would. `waiting` says
that `next_attempt_at` is still to come.

A worker goes through `pc`: `Claim` copies a batch of rows (tenant rank first,
age second, any set of rows locked by others skipped) and commits; `NextRow`
looks up the strategy and whether it is enabled; `LoadWindow` reads the first
`WindowEvents` live events of the claimed window; `Extract` is the provider's
answer; `StageClaim` commits one claim with one citation at a time; `Complete`,
`ScheduleRetry` and `DeadLetter` end the row. Everything after the claim uses
the copy in `batch`, and finds the row by its identifier. `Abort` loses the rest
of a batch to an exception or to the end of the process. A claim that rolls
back left nothing, which is a `Claim` followed by an `Abort`.

`erase_actor_events` takes two steps, because at READ COMMITTED each of its
DELETEs sees what was committed by then: `BeginEraseActorEvents` fixes the
events it will delete, `EraseActorEvents` clears queue and dead letters and
commits. `Doomed` rows are locked meanwhile and nobody else changes them. The
upsert of an appending transaction would wait for the erasure when the row is
already deleted there; the model lets the append commit before or after.

`extracted`, `skipped` and `spared` are history variables: the events completed
after staging, passed over while disabled, and written while an erasure of their
actor was open. The purge (`DeleteExpiredEvents`) is an action of `PurgeSpec`
only: it lets numbers be used again, which `NoTurnLost` relies on not happening
(section 6).

### ActorErasure

The nine registered participants are reduced to four: one before the claims,
the two that act on the state modelled here, and one after. `Fail` may happen at
any of them and rolls back only the running one.

`claims` is the table with its evidence. A claim is named by the key and the
event it was staged from and the actor who confirmed it, if any. Three writers
fill it: the drain (`StageErasable`), a curator (`Confirm`: a copy under the
curator's name, with evidence of another kind, and the old claim closed in its
favour) and consolidation (`Consolidate`: the loser is closed, the evidence of a
duplicate is copied). `Selected` is `_SELECT_CLAIMS`: the preferences of the
actor whoever wrote them, and the claims the actor wrote, unless they have
evidence that is no session event or is another actor's event that still exists.
`EraseClaims` deletes these and repairs the rest: the actor's citations are
scrubbed, a confirmed claim that goes is cleared, and a loser whose successor
goes gets the first successor that stays (`SpliceTarget`) or is reopened. The
actors are those of one tenant, which every statement here filters on.

History variables: `own` (a claim never cited anything but its author's events),
`standing` (the actor's events that existed when the claims were erased),
`overlapped` (a worker held a row of the actor when the claims were erased, or
from then until the events are).

### SessionLog and SessionAppend

`SessionLog` says what a caller may rely on: one row at the next position with a
new upstream record, or no trace. `SessionAppend` splits a call into the
snapshot of its INSERT (`Compute`), the insertion in the unique indexes, where
an equal entry of an open transaction makes it wait (`Insert`, `Collide`), and
`Commit` or `RollBack`. `_is_duplicate_external_record` searches the text of the
exception for the column's name; SQLAlchemy puts the statement in that text, so
every unique violation is a `"conflict"` and the retry loop is never entered.
`Collide` models what the code does. `AppendIsAtomic` is the specification of
`SessionLog` under `INSTANCE SessionLog WITH rows <- rows, outcome <- outcome`.

### WebhookDelivery

`status`, `attempt`, `due`, `earlier` and `unset` are the row: `due` are the rows
whose `next_retry_at` has passed and `earlier` their order by it, `unset` those
where it is NULL (they sort first).
`flight[w][d]` is what a worker holds of a row in a tick. `Claim` counts the
attempt and leaves the row pending and due, as the code does. `Post` takes any
answer of the host and classifies it; `RecordOutcomes` is the bulk UPDATE, which
has no condition on the status the rows have by then; a row that raised, having
no secret, gets no outcome. Rows can be locked only by another worker's
transaction, so a claim skips at most the rows that others hold. Attempt
numbers are compared with MAX_ATTEMPTS only, so they are counted up to one past
it. Equal values of `next_retry_at` are ordered by arrival.

### CauseLedger, DerivativeWork and Retention

An item is a pair of a derivative and a cause; a cause stands for the triple of
operation, trigger and tombstone in `uq_work_per_cause`, so `work` is a function
on the keys of that index and `Insertable` is ON CONFLICT DO NOTHING. `due`
stands for `available_at <= now`. `Claim` copies items and attempts into
`taken[w]` and leaves the rows pending and due, since nothing reads `claimed_at`.
`MarkDone` and `MarkFailed` write the row whatever it has become, the latter with
the attempts of the copy. `Ledger` is `CauseLedger` with `ledger[i]` mapped to
the state of the row: what the docstring of the worker promises.

In `Retention` a sweep is four steps, because the selection, the question to the
hold store (a session of its own) and the INSERT are separate statements at READ
COMMITTED; the clock is read once per tick, which `overdue` and `held` keep. A
full selection makes another pass, up to MAX_BATCHES. A hold is placed once per
record, lapses on its review date and may be renewed afterwards, with a rank
that climbs the ladder. `covered` is a history variable: the live holds that came
into force before the sweep had decided about their record. Every cause here
deletes; applying an item removes the artefact and asks nobody about holds. An
erasure request takes the tombstone of its actor, creating it the first time, so
a repeated one queues only what was registered since.

### EmbeddingDrain and ClaimIndex

A request has the identity of its row and the time of its last enqueue, both
taken from one counter. `ReadBatch` copies the oldest requests that are not
cooling down and its locks are gone at once, since the session ends before the
first row is encoded. `Embed` writes the vectors and deletes the request if it is
still the one that was read; `EmbedFails` writes the attempts of the copy, or
moves the row to the dead letters, by identity alone.

`ClaimIndex` reduces a claim to whether it is staged, closed (superseded and
invalidated, or rejected) or erased, consolidated, and withheld; `Project` is
`project_claim` in the transaction of its caller. A quarantine transaction reads
and updates in one step and commits in another, with its rows locked in between;
any number of them may be open. The rebuild that it queues reads the claim with
a plain SELECT (`ReadClaim`) and acts on that reading in a later step
(`HandleItem`). `SweepExpired` is the payload clock of the claim's vectors, which
runs out while the claim is servable. The erasure is its two participants in
their order; `EraseClaims` also reopens losers, staged and unconsolidated, and
takes any choice of erased and reopened claims, of which `ActorErasure` says the
rule. A derivative and its claim have one identity.

Three history variables delimit the properties: `raced`, the claims that were
retired while a drainer held a copy of their request or a rebuild a reading of
them; `touched`, those that a quarantine matched; `contended`, those that two
quarantine transactions matched while both were open. What the code does to
these is in section 6.

### ProposalApproval

One family and one thread; versions and revisions share their numbers since a
submitted version is bound to one revision. Requests are split where the code
reads before it locks: `EditRead` and `EditWrite`; `CreateRead` and
`CreateInsert`; `ActivateRead` (family, evidence, and its verifier FOR SHARE),
`ActivateLock` (family, version and revisions, predicates), and `ActivateCommit`
or `ActivateRefused`; `CascadeRead` and `CascadeCommit`. Locks are derived from
the steps of the requests (`FamilyFree`, `VersionFree`, `VerifierFree`). A
completion locks its challenge for the whole transaction and is one step per
outcome; a package whose digest has changed leaves everything as it was, which
is a stutter. What a candidate says is a model value; signatures are the choice
between `CompleteWrong` and `CompleteValid`. `Eligible` has the predicates that
depend on the state of this module; observation, actor separation and the
operational chain make `ok` FALSE at any time. `Disturb` bounds what may happen
at any time: decisions, expiries, revocations and retirements.

### AuditOutbox and ContextResolution

A drain pass is one transaction: it locks rows with SKIP LOCKED, writes each
under a savepoint and commits, so the choice of `failed` and the effect on every
row are one step, and a lost pass leaves nothing. A row is named by what it
records, which is what makes a second entry for it visible.

`resolve` is an attempt under REPEATABLE READ: `Replay` takes the snapshot (the
challenge row and the revocations of the key and of the verifiers are kept in the
request), `Verify` locks the key FOR SHARE, `Validate` locks the challenge FOR
UPDATE, `Select` locks the verifier of each selected revision FOR SHARE, `Commit`
writes receipt, consumption and audit row together. A row to be locked that
differs from the snapshot is a serialization failure, which starts the next
attempt or ends the call as `"exhausted"`. A second receipt for one attestation is
a unique violation, which is not retried. A refusal is rolled back and audited by
`Refuse`. `Withdraw` is `revoke_verifier`, which waits for those who share the
row. One host and one signer key. Revisions are reduced to who vouched for them,
any choice of which may be selected; `Bundles` is what assembly may make of them:
a revision refused for its verifier is left out, or blocks the bundle, which then
carries every mandatory directive. What goes wrong (an expiry, a revocation, a
lost call, a lost pass) shares one bound, `MaxDisturbances`.

## 3. Runs

| Run | Instance | Result |
|---|---|---|
| `Drain` | 2 workers, 1 session, 2 events, window 1, 2 attempts, one change, one abort | `TypeOK`, `NoTurnLost`, `QueuedWindowsAreSound` and `QueueDrains` hold |
| `DrainTenants` | 2 tenants, 2 strategies (one retired), batch 2, with the purge | `ClaimsCiteOwnSession`, `FairBatches` hold |
| `Erasure` | 2 actors, 1 worker, 2 strategies (one of preferences), 2 requests, 2 curations, failures anywhere | `QuietErasureIsComplete`, `ChainsAreWhole` hold |
| `Append` | 4 calls in 2 sessions, 3 of them replaying one record | `TypeOK`, `CursorNeverSkips`, `AppendIsAtomic`, `CallsEnd` hold |
| `Webhook` | 2 workers, 2 deliveries, one unsigned, one changed secret, batch 1, one lost tick | `TypeOK`, `AttemptsCoverPosts`, `GivesUpOnlyWhenSpent`, `EveryDeliveryIsAttempted` hold |
| `WebhookReplicas` | 2 workers, 1 delivery | `SuccessIsFinal` is violated: a delivery is sent again, and its outcome replaced, after its success was recorded |
| `Retention` | 2 derivatives (one blocking, held and authored by the erased actor), 1 tombstone, 1 worker, selections of 1, 2 passes, 2 attempts, one lost tick | `TypeOK`, `HoldsProtect`, `OwedIsSettled`, `OverdueIsQueued` hold |
| `RetentionWorkers` | 2 workers, 1 derivative | `SettlesOnce` is violated: both apply one item, and the failure of one reopens what the other settled |
| `ClaimIndex` | 1 claim, 2 quarantines, 2 interventions, 2 drainers, 1 propagation worker, 2 embedding attempts, one lost tick | `TypeOK`, `ServableIsIndexed`, `RetiredLeavesIndex`, `WithheldIffHeld`, `RequestsSettle` hold |
| `Approval` | 2 versions, 2 challenges, 2 candidates, 1 verifier, 2 activations, 2 attempts, one disturbance | `TypeOK`, `OneInForce`, `ApprovedOnce`, `AttemptCeiling`, `GateHolds` hold |
| `ApprovalSigned` | the instance of `Approval` | `SignedIsInForce` is violated: an edit that lands after the submission, so that what is signed is not what is in force |
| `Resolution` | 2 calls, 2 challenges, 2 attestations, 2 manifests, 1 verifier, 2 attempts, 2 drain passes of up to 2 rows, 2 writes per row, one disturbance | `TypeOK`, `ConsumedOnce`, `RetryGetsTheReceipt`, `TrailIsComplete`, `RevocationLinearizes`, `ServesWhatIsVouched`, `RowsAreDrained` hold |

`WebhookReplicas`, `RetentionWorkers` and `ApprovalSigned` show disagreements
between the code and its own docstrings and comments; `findings` in
`PROJECT.json` quotes them. Their specifications state the same fairness as the
passing runs, where there is any, and their counterexamples are finite.

Why the bounds suffice. A stale worker needs one other worker that ends the
same row, one event that widens or recreates it and one lost batch; two workers,
two events, a window of one event and one abort give all of these, in every
order, and two attempts separate the retry from the spent row. Fair batches and
foreign citations need a second tenant, and a batch smaller than the queue. The
races of an append are pairwise, so three calls for one position with a shared
record are one more than needed.

An erasure fails, is sent again, and meets one worker. `Erasure` starts from
states of `MCActorErasure!PastInit` that the drain reaches: the sessions that have
spoken have one claim each, of either strategy. Two curations then confirm,
supersede and merge in every order, which gives chains of three claims (a splice
and a reopening both need one in the middle) and claims with the evidence of both
actors; where another event is still to be drained one curation is left.

Two deliveries with batches of one already make a line; one lost tick repeats a
POST; the unsigned row clogs the batch, and the one change of a secret clears it
or clogs it later. In `Retention` one derivative is held and reached by both
causes while the other competes with it for a selection of one, which the held
row fills; a tick makes two passes, and one renewal puts a lapsed hold in force
again. `ClaimIndex` needs one claim, since its properties are about one at a time
and requests meet only in the order of a batch; two drainers give the stale copy,
two quarantines the overlap, an expiry or an erasure beside one quarantine the
deletion, and two attempts the retry. In `Approval` a race is between two requests
with one other event in between, and a second version gives the superseded
revision and the stale baseline.

In `Resolution` the two calls race for a challenge or repeat an attestation, with
one disturbance between any two of their steps; two attempts separate the retry
from the exhausted call. `MCContextResolution!PastInit` starts after the first call
has been made, either with both challenges issued and the disturbance to come, or
with the verifier withdrawn and a challenge still to be issued: rows that are
still to be drained and disturbances multiply the states and no property needs
both. The theorems of section 5, which are about the `Init` of the modules, remove
the bounds for the safety properties they cover.

Symmetry is used in `Approval` and `ApprovalSigned`, which check no liveness: the
members of each permuted set are interchangeable model values.

`Append`, `ClaimIndex`, `Approval`, `ApprovalSigned` and `Resolution` switch
deadlock checking off: calls, quarantines, disturbances and audit rows are
bounded, and when they are used up nothing has to follow. The others always have
a tick to take.

## 4. Fairness

`register_periodic` catches every exception of a tick and schedules the next, so
a worker that is idle runs again: claims are weakly fair, in the extraction drain
only those that no other transaction's lock disturbed, since a tick is repeated
for ever and the claiming transactions are short. The steps of a running tick
are weakly fair because the provider call, the POST, the encoder and every
statement end. `BackoffElapses`, `RetryFallsDue`, `FallsDue` and `CooldownPasses`
are the clock. Quarantine transactions and rebuilds are not fair: the promise of
`ClaimIndex` is that of the drain alone. No client, provider,
subscriber, operator, abort, crash or lost tick is fair, and neither is success:
queues must drain when every call fails. In `SessionAppend` and
`ContextResolution` a request runs on until it returns; PostgreSQL ends a wait
when the transaction waited for ends. `QueueDrains` is about the end of clients'
activity, which the bound on events provides. `EveryDeliveryIsAttempted` promises
nothing while unsigned rows fill the batch again and again, `OverdueIsQueued`
nothing against a hold or while other held rows fill the selection again and
again, since the code starves there (section 6); `RowsAreDrained` gives up on
writes that fail as often as the limit allows.

## 5. Proofs

| Theorem | Says, for every value of the constants |
|---|---|
| `ExtractionDrainProofs!InductiveInvariant` and `TypeCorrect`, `NoTurnIsLost`, `ClaimsCite`, `WindowsAreSound` | `Spec => []IInv`, and each safety property of the drain |
| `ExtractionDrainProofs!PurgeInvariance` and `ClaimsCiteWithPurge`, `WindowsAreSoundWithPurge` | `PurgeSpec => []PurgeInv`, and the safety properties that survive the purge |
| `ExtractionDrainProofs!BatchesAreFair` | `PurgeSpec => FairBatches`, when sessions and strategies are finitely many |
| `ExtractionDrainProofs!ErasureInvariance` and `ErasureIsComplete`, `NoTurnIsLostByErasure` | `ErasureSpec => []ErasureInv`, and `QuietErasureIsComplete` and `NoTurnLost` from it |
| `ExtractionDrainProofs!ChainsStayWhole` | `ErasureSpec => []ChainsAreWhole` |
| `SessionAppendProofs!TypeCorrect`, `CursorIsSafe` | `Spec => []TypeOK`, `Spec => []CursorNeverSkips` |
| `SessionAppendProofs!AppendRefines` | `Spec => AppendIsAtomic`, the refinement of `SessionLog` |
| `WebhookDeliveryProofs!TypeCorrect`, `EveryPostIsCounted` | `Spec => []TypeOK`, `Spec => []AttemptsCoverPosts`, any number of replicas |
| `WebhookDeliveryProofs!AbandonedForCause` | `Spec => []GivesUpOnlyWhenSpent`, any number of replicas |
| `RetentionProofs!Invariance`, `TypeCorrect`, `HoldsProtectTheorem` | `Spec => []IInv`, and the types and `HoldsProtect` from it |
| `ClaimIndexProofs!Invariance`, `TypeCorrect`, `ServableTheorem`, `RetiredTheorem` | `Spec => []IInv`, and the types, `ServableIsIndexed` and `RetiredLeavesIndex` from it |
| `ClaimIndexProofs!WithheldTheorem` | `Spec => []WithheldIffHeld`, with any number of open transactions |
| `ProposalApprovalProofs!Invariance` and `TypeCorrect`, `OneInForceTheorem`, `ApprovedOnceTheorem`, `AttemptCeilingTheorem`, `GateHoldsTheorem` | the inductive invariant of the approval model and each of its safety properties |
| `ContextResolutionProofs!Invariance` and `TypeCorrect`, `ConsumedOnceTheorem`, `RetryTheorem`, `TrailTheorem`, `RevocationTheorem`, `VouchedTheorem` | the inductive invariant of the resolution and of the audit drain, and each of its safety properties |

**The drain.** `NoTurnLost` is not inductive: `Complete` deletes or advances a row
with a window that was read long before. The strengthening says what a snapshot
still means. `SnapshotIsSound`: if the row of that identifier is still queued, it
has only been widened, and every live turn before the snapshot's `from` is
handled. `WorkerIsSound`: while the row is queued, the loaded window holds every
live turn from `from` to the point that will be completed. So advancing the row
past that point leaves only handled turns behind. `RowsAreSound` is what keeps a
fresh event out of a queued window: the window ends at an event that still
exists, hence the next number lies beyond it. That is the conjunct the purge
breaks, and the reason `PurgeSpec` is not the specification of these theorems.
`EventIdsAreSound` keeps identifiers fresh, so a row that was recreated is never
taken for the one a worker claimed. The proof has a lemma per action.

**With the purge.** `PurgeInv` is what does not depend on numbers being new: the
upsert only moves the end of a window forward, a completion leaves a row only
when its end lies beyond the new start, and evidence is compared by identifier,
so queued windows and citations stay sound. `RowsAreOwn` says that the identifier
of a row is the event of its session that inserted it. Fairness of a batch rests
on that: rows of two sessions never share an age, so with the tie-break the rows
of a tenant are strictly ordered and its oldest one has rank 1 (`TenantHasOldest`).
Two rows of one tenant in a batch include one of rank 2 or more, which the order
puts after every row of rank 1; a tenant that is left out would have such a row.
The two finiteness hypotheses are what gives a rank a value.

**The erasure.** A request runs its participants one after the other, so what it
has achieved depends on how far it is. `RequestInv`: once the claims are erased
and no worker overlapped, no worker holds a row of the actor; once the events are
erased too, `LeftIsYounger`: every event and loaded event of the actor is younger
than the request, and of an actor who was silent since then nothing is queued or
dead-lettered. Without `overlapped` the first half fails: a worker that loaded its
window before stages a claim after. The steps of the drain and of its clients are
seen through `Effect`, what any of them may do to an actor's data (events get new
identifiers, a row is queued only with an event, a worker loads only stored
events, a claim cites only what its worker loaded), so the invariant has one proof
for all of them on top of the drain's, which is used as it is.

For the claims, `ClaimsErased` says from the erasure of the claims on what
`ClaimsGone` says of a reported request. It is kept because of `Derived`: every
claim after a step stems from a claim before it, with the same key and event, and
cites only what some claim cited before; confirmations and merges copy, they bring
nothing back. What the drain stages meanwhile cites an event that a worker held. `OwnIsOwn` ties the
history `own` to the selection: a claim that is `own` cites its author's events
only and has no other evidence, so `_SELECT_CLAIMS` takes it. `ClaimsInv` adds the
types and `ChainsAreWhole`, which `EraseClaims` keeps since a splice target is a
claim that stays.

**The append.** `Dense` (positions are 1..n without a gap), `CallIsSound` (a
position whose INSERT went through is still the next one), `HeldAreDistinct`
(the unique indexes on open transactions) and `CursorsAreSound` (a cursor stands
at a row). From these every `Commit` is an `Append` of `SessionLog`, `Collide`
and `RollBack` are `Refuse`, and the rest stutters.

**Webhooks.** `FlightIsSound`: the number a worker holds is at most the row's,
and it holds `"failed"` only for cause. The types need `RowsAreStamped` (no retry
time exactly for the terminal outcomes, so a row that joins the line was not in
it), which keeps the line a strict order. `AttemptsCoverPosts` is not inductive,
since a POST is under way long before it is counted in `posts`: `PostsAreCounted`
adds the POSTs under way, each of which was claimed with an attempt of its own.

**Retention.** `WorkInv`: pending rows and claimed copies have attempts left, and
only rows that exist are claimed, so `MarkFailed` stays within the limit.
`HoldsProtect` is not inductive: between the answer of the hold store and the
INSERT the sweep is already committed to a set. The strengthening adds that a
covered record is not in that set. `DerivativeWorkProofs` has a lemma per step of
the outbox, which `RetentionProofs` uses for the composed steps.

**Claims and their index.** A worker's copy of a request outlives the request, so
`RetiredInv` adds to `RetiredLeavesIndex` that no drainer holds a copy of a retired
claim and no rebuild a reading of it, which `raced` excludes at the moment of
retirement and which stays so because nothing queues a retired claim again: a
rebuild that reads it later sees that it is not servable (`SeenInv`: only a
rebuild holds a reading). `PolicyInv` says that only a quarantine queues a
rebuild, so that a claim no quarantine matched loses its vectors to a deletion
alone, which `ServableIsIndexed` names. `QuarantineInv` says what a transaction
that is open will write. `WorkInv` and the lemmas of `DerivativeWorkProofs` are
shared with `Retention`.

`WithheldIffHeld` rests on `WithheldInv`: of a claim outside `contended` at most
one open transaction has matched it (`WellHeld`), and what that one has still to
write is what separates the flag from the quarantines. Any number of transactions
may be open for other claims.

**Approval.** `CountInv`: the counter of a challenge is the number of wrong
proofs, with room for one more while the challenge is open. `ApprovedOnce` is
kept because a completion must find the version submitted and leaves it
approved, so evidence is never replaced, and what a request has read of it
stays true (`RequestInv`). `LockInv`: one activation holds the locks.
`HeldInv` is what the gate needs: what an activation found eligible under its
locks stays so until it commits, since opening, deciding, editing and every other
activation wait for it, and a verifier it shares cannot be revoked.

**Resolution.** None of the properties of `ContextResolution` is inductive. The
strengthening says what a call may rely on between its locks and its commit
(`KeyInv`: the key is not revoked under those who share it; `VerifierInv`: a
verifier that a call shares is withdrawn only if its snapshot already had it so;
`LockInv`: a validated challenge is still issued, for the manifest of the call, and
no other call has it), which audit rows are still to be written (`UnwrittenInv`),
that what a call was answered with is what stands (`AnswerInv`), and that a drain
pass holds only waiting rows with attempts left, shared with no other pass
(`AuditInv`). The steps that change one call and nothing else share one lemma,
`CallStep`. `VouchedTheorem` is `VerifierInv` at the commit: a bundle that is not
blocked carries what is shared and was trusted in the snapshot, hence still is.

The assumptions are the named ASSUMEs of the modules: batch, window, page and
attempt limits are positive naturals, bounds are naturals, the sets that share
identities are related as stated, and the null values are not members. TLC
evaluates them in the passing runs.

Only model-checked: the liveness properties (`QueueDrains`, `CallsEnd`,
`EveryDeliveryIsAttempted`, `OwedIsSettled`, `OverdueIsQueued`, `RequestsSettle`,
`RowsAreDrained`), which are out of the prover's reach. Every invariant, action
property and refinement that a passing run checks is stated by a theorem. Only
`BatchesAreFair` has a hypothesis beyond the assumptions of its module (finitely
many sessions and strategies), which the table states and the run satisfies.

## 6. Observed, without a run

Extraction and the log:

- Two drain workers do process one row at the same time, since a claim leaves no
  mark; the docstring at `extraction_drain.py:4-5` says they cannot. `Drain`
  includes it and shows that nothing is lost by it: the cost is a second
  provider call and a claim staged twice.
- `_dead_letter` (`extraction_drain.py:460`) deletes the row whatever its window is
  by then and records the window it claimed. A turn that widened the row during
  the call is named by neither; `_complete` guards against this (`:397-398`).
- `delete_expired_events` (`session_event_expiry.py:87`) can remove the last rows
  of a session; `MAX(seq)+1` then reuses numbers, below the `from_seq` of a
  pending row (`extraction_drain.py:543-544`) or behind a cursor that a reader
  holds (`session_events.py:366-367`).
- A lost race for a position is reported as a duplicate record
  (`session_events.py:552`), where `:58` says "Retried rather than surfaced".
- An event that commits between the DELETEs of `erase_actor_events` stays in the
  log while its outbox row goes (`spared`).
- A drain worker that held a row of the actor when the claims were erased leaves
  a claim or a dead letter after the request has reported success
  (`claim_erasure.py:107`; `erasure.py:10-11`).
- A claim that merged the evidence of two actors can lose all of it when both are
  erased, the second time by the scrub; `claim_erasure_writes.py:21-22` says
  survivors keep at least one row by construction.

Webhooks (beside the finding of `WebhookReplicas`):

- `deliver` answers a transport error with `pending` whatever the attempt number
  (`:214`), so an unreachable host is retried past MAX_ATTEMPTS (`:67`).
- A row whose subscription has no secret raises before its POST and records no
  outcome (`:273-283`); it stays first in line, and as many such rows as a batch
  holds keep every other delivery out. `EveryDeliveryIsAttempted` exempts just that.

Retention (beside the finding of `RetentionWorkers`):

- During the backoff after a failure an item is neither applied nor counted by
  `pending_overdue` (`derivative_propagation.py:277`); `OwedIsSettled` says that
  this does not last.
- A hold placed after the enqueue does not stop the deletion, since the
  propagation worker does not ask again (`retention_expiry.py:24`).
- Held rows stay in the selection; as many as a batch holds, all before the others
  in its order, keep the rest from being queued. `OverdueIsQueued` exempts just that.
- A repeated erasure request meets the tombstone of the first and queues only what
  was registered since (`context/derivatives.py:210-275`), so items that were given
  up are not queued again by it.

Claims and their index:

- A drainer that read a request before a retraction or an erasure writes the
  vectors after it (`embedding_drain.py:290`, `embedding_index.py:530-533`).
- A rebuild reads the claim without a lock (`embedding_index.py:59-71`, `:337`); a
  claim retired between the reading and the INSERT is queued again, and embedded.
  Both are what `raced` exempts.
- The vectors of a claim have a payload clock of their own, 180 days
  (`policies.py:289`, `embedding_index.py:159-181`): the sweep deletes them while
  the claim stays servable, after which search does not find it. Since the cause is
  unique, vectors that a later consolidation or rebuild writes are not swept again.
- The derivatives of every claim the actor wrote are queued for deletion before
  the claims are selected; a claim that is kept for another actor's evidence loses
  its vectors all the same. `ServableIsIndexed` exempts claims whose deletion was
  queued.
- The rebuild of a second quarantine, or of a revert, has the same cause as the
  first and is swallowed by `uq_work_per_cause` (`quarantine.py:482`); the serving
  predicate does not depend on it. Hence the exemption of `touched`.
- Two quarantine transactions that match one claim while both are open read each
  other's state as it was before: a claim is restored while a quarantine holds it,
  or stays withheld by none, where `quarantine.py:349-351` says it "stays withheld".
  `contended` exempts these claims, and only these.
- The failure of a stale copy moves a refreshed request to the dead letters.

ARC:

- The stale that `activate` writes for a retired reducer is rolled back by the
  exception that follows it in the same transaction (`activation.py:309-341`), so
  the version stays approved; the module docstring (`:59-62`) expects it to end.
- The source cascade moves the revisions it found active whatever they are by
  then, so a revoked one may become expired, and one activated in between keeps
  standing (`queries/source_admission.py:632-710`).
- The cascade of `revoke_verifier` follows `approval_evidence_id`, which no
  revision materialised from a proposal has.
- Live challenges are counted without a lock before the insert, so the limit may
  be passed by concurrent requests (`approval_challenge.py:259`).
- Two calls with one attestation and two challenges may both get as far as the
  receipt; the loser's unique violation is not retried and surfaces as an error.
- Key, challenge and verifier can change in turn between the snapshots of one call
  and their locks, so three attempts (`resolution.py:87`) do not always suffice; the
  call then ends without an answer and may be sent again.
- A bundle that is blocked carries every mandatory directive, those included whose
  revision was refused for its verifier (`bundle.py:137-146`), and the router
  returns it (`api/routers/arc.py:394`); `ServesWhatIsVouched` is about the others.
- `mark_integrity_failed` has no caller; the digest in a detail page token is
  issued and not compared (`detail_retrieval.py`).

## 7. What is not modelled

Content: texts, salience, PII and containment checks, ontology validation,
directives and applicability rules decide whether something is accepted, which
the models leave open. Formatting, metrics and logs. Cryptography: a signature
is valid or not, a digest is the thing digested. The per-tenant semaphore of
webhook delivery only delays a POST. Policies and the computation of
`expires_at`; the minimizers of other record classes; contest, promotion and
scoring of claims; observation, qualification and the operational
chain of ARC; receipt events after the first. Participants of the erasure other
than the ones named. Clocks are nondeterministic events, so nothing here is
about durations. The routers, schemas, the console and the SDK carry most of the
repository's lines and no state of their own; catalog, entities, relationships,
workspaces and profile are mostly single statements.

## 8. Plan

1. Stronger statements: what two replicas, workers or transactions still guarantee
   of `SuccessIsFinal`, `SettlesOnce` and, for contended claims, `WithheldIffHeld`.
2. The ARC operational chain with its checkpoint exporter, and observation and
   qualification as the predicates that `ProposalApproval` leaves open.
3. The idempotency and rate-limit middleware; closure refresh; the sync runner and
   the usage writer.
4. Contest and promotion of claims, as the operations that choose
   what `ClaimIndex` closes and consolidates.
