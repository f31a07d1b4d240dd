---------------------------- MODULE ExtractionDrain ----------------------------
(***************************************************************************)
(* The session-event log, the extraction outbox fed by it and the workers  *)
(* that drain the outbox into staged claims.                               *)
(*                                                                         *)
(* A session event commits together with one outbox row per strategy; a    *)
(* row names a window of sequence numbers.  Every API replica runs a drain *)
(* worker.  A worker claims a batch of rows in one transaction, which ends *)
(* BEFORE the rows are processed, so all that a worker does afterwards is  *)
(* done with a snapshot of the row that others may have changed since.     *)
(*                                                                         *)
(* One action is one committed transaction, or one step of a worker        *)
(* between two transactions.  Wall-clock time is abstracted: a row that    *)
(* backs off is "waiting" until BackoffElapses, and an event's deadline    *)
(* may pass at any moment.                                                 *)
(***************************************************************************)
EXTENDS Integers, Sequences, FiniteSets

CONSTANTS
    Sessions,         \* sessions, each of one actor of one tenant
    Strategies,       \* strategies the session-event service enqueues for
    KnownStrategies,  \* the strategies of this build (STRATEGIES)
    Tenants, Actors,
    Tenant,           \* Tenant[s]: the tenant a session belongs to
    Actor,            \* Actor[s]: the actor a session belongs to
    Workers,          \* drain workers, one per replica
    BatchSize,        \* rows claimed per tick (DEFAULT_BATCH_SIZE)
    WindowEvents,     \* events handed to the provider (DEFAULT_WINDOW_EVENTS)
    MaxAttempts,      \* MAX_ATTEMPTS
    NoRow,            \* no outbox row under a key
    MaxEvents,        \* bound: events ever recorded
    MaxChanges,       \* bound: deletions, expiries, erasures and configuration changes
    MaxAborts         \* bound: batches a worker loses to an exception or a crash

VARIABLES
    events,      \* memory_session_events
    born,        \* history: born[n] is the session the n-th event was written to
    outbox,      \* memory_extraction_outbox, by its unique key
    failed,      \* memory_extraction_outbox_failed
    erasing,     \* erasing[a]: 0, or one more than the last event that the open transaction
                 \* erasing actor a found to delete
    enabled,     \* memory_strategy_config.is_enabled, by tenant and strategy
    pc,          \* where each worker is in run_once and _process
    batch,       \* the claimed rows a worker has still to finish, current first
    window,      \* the events a worker loaded for the current row
    upto,        \* the sequence number the current row will be completed through
    provenance,  \* evidence rows that extraction has written: <<key, event id>>
    extracted,   \* history: <<key, event id>> staged and then completed
    skipped,     \* history: <<key, event id>> completed because disabled
    spared,      \* history: events written while their actor was being erased
    changes,     \* deletions, expiries, erasures and configuration changes so far
    aborts       \* batches lost so far

queueVars == <<outbox, failed>>
workerVars == <<pc, batch, window, upto>>
historyVars == <<extracted, skipped, spared>>
boundVars == <<changes, aborts>>
vars == <<events, born, outbox, failed, enabled, erasing, pc, batch, window, upto,
          provenance, extracted, skipped, spared, changes, aborts>>

-----------------------------------------------------------------------------
(* Types *)

Key == Sessions \X Strategies
Event == [eid : Nat, sess : Sessions, seq : Nat, live : BOOLEAN]
Row == [key : Key, oid : Nat, from : Nat, through : Nat, attempts : Nat, waiting : BOOLEAN]
FailedRow == [key : Key, from : Nat, through : Nat, attempts : Nat]
Step == {"idle", "next", "load", "call", "stage", "skip", "empty", "retry", "dead"}

ASSUME ConstantsAssumption ==
    /\ KnownStrategies \subseteq Strategies
    /\ Tenant \in [Sessions -> Tenants]
    /\ Actor \in [Sessions -> Actors]
    /\ BatchSize \in Nat \ {0}
    /\ WindowEvents \in Nat \ {0}
    /\ MaxAttempts \in Nat \ {0}
    /\ MaxEvents \in Nat
    /\ MaxChanges \in Nat
    /\ MaxAborts \in Nat

ASSUME NoRowAssumption == NoRow \notin Row

-----------------------------------------------------------------------------
(* The session-event log *)

EventsOf(s) == {e \in events : e.sess = s}

\* COALESCE(MAX(seq), 0) + 1 over every row of the session that still exists,
\* the invalidated ones included.
IsNextSeq(s, q) ==
    /\ \A e \in EventsOf(s) : e.seq < q
    /\ q = 1 \/ \E e \in EventsOf(s) : e.seq = q - 1

\* The upsert of one strategy's row: a new window of one event, or the pending
\* window widened and made eligible again.  The row's age is the event that
\* inserted it, which also serves as its identifier.
EnqueueExtraction(k, q, eid) ==
    IF outbox[k] = NoRow
    THEN [key |-> k, oid |-> eid, from |-> q, through |-> q, attempts |-> 0, waiting |-> FALSE]
    ELSE [outbox[k] EXCEPT !.through = IF @ < q THEN q ELSE @, !.waiting = FALSE]

\* record_event: the event and one upsert per strategy, in one transaction.  A
\* call that loses the race for the sequence number leaves nothing (SessionAppend).
RecordEvent(s) ==
    /\ Len(born) < MaxEvents
    /\ \E q \in 1 .. MaxEvents + 1 :
        /\ IsNextSeq(s, q)
        /\ LET eid == Len(born) + 1
           IN  /\ events' = events \cup {[eid |-> eid, sess |-> s, seq |-> q, live |-> TRUE]}
               /\ outbox' = [k \in Key |-> IF k[1] = s THEN EnqueueExtraction(k, q, eid) ELSE outbox[k]]
    /\ born' = Append(born, s)
    /\ UNCHANGED <<failed, enabled, erasing, workerVars, provenance, historyVars, boundVars>>

Invalidated(E) == {IF e \in E THEN [e EXCEPT !.live = FALSE] ELSE e : e \in events}

Change == changes < MaxChanges /\ changes' = changes + 1

\* The rows an open erasure has deleted but not committed.  Whoever would write
\* one of them waits, and finds it gone.
Doomed == {e \in events : e.eid < erasing[Actor[e.sess]]}

\* delete_event: the actor soft-invalidates one live event.
DeleteEvent(e) ==
    /\ Change
    /\ e.live /\ e \notin Doomed
    /\ events' = Invalidated({e})
    /\ UNCHANGED <<born, queueVars, enabled, erasing, workerVars, provenance, historyVars, aborts>>

\* The retention sweep soft-invalidates the live events past their deadline.
ExpireBatch(E) ==
    /\ Change
    /\ E # {} /\ \A e \in E : e.live /\ e \notin Doomed
    /\ events' = Invalidated(E)
    /\ UNCHANGED <<born, queueVars, enabled, erasing, workerVars, provenance, historyVars, aborts>>

\* delete_expired_events: the scheduled purge physically deletes events past
\* their deadline, and leaves the outbox alone.
DeleteExpiredEvents(E) ==
    /\ Change
    /\ E # {} /\ E \subseteq events \ Doomed
    /\ events' = events \ E
    /\ UNCHANGED <<born, queueVars, enabled, erasing, workerVars, provenance, historyVars, aborts>>

\* The first DELETE of erase_actor_events: it sees the events committed so far,
\* whose rows stay locked, and visible to others, until the transaction ends.
BeginEraseActorEvents(a) ==
    /\ erasing[a] = 0
    /\ erasing' = [erasing EXCEPT ![a] = Len(born) + 1]
    /\ UNCHANGED <<events, born, queueVars, enabled, workerVars, provenance, historyVars, aborts>>

\* The rest of erase_actor_events, to its commit: the queued rows and the dead
\* letters go as they are by then, so an event written since the first DELETE
\* stays and its row goes.
EraseActorEvents(a) ==
    /\ erasing[a] # 0
    /\ erasing' = [erasing EXCEPT ![a] = 0]
    /\ events' = events \ {e \in Doomed : Actor[e.sess] = a}
    /\ outbox' = [k \in Key |-> IF Actor[k[1]] = a THEN NoRow ELSE outbox[k]]
    /\ failed' = {f \in failed : Actor[f.key[1]] # a}
    /\ spared' = spared \cup {e.eid : e \in {d \in events' : Actor[d.sess] = a}}
    /\ UNCHANGED <<born, enabled, workerVars, provenance, extracted, skipped, aborts>>

\* A tenant turns a strategy on or off.
SetEnabled(t, st) ==
    /\ Change
    /\ enabled' = [enabled EXCEPT ![<<t, st>>] = ~ @]
    /\ UNCHANGED <<events, born, queueVars, erasing, workerVars, provenance, historyVars, aborts>>

\* next_attempt_at passes.
BackoffElapses(k) ==
    /\ outbox[k] # NoRow
    /\ outbox[k].waiting
    /\ outbox' = [outbox EXCEPT ![k].waiting = FALSE]
    /\ UNCHANGED <<events, born, failed, enabled, erasing, workerVars, provenance, historyVars, boundVars>>

-----------------------------------------------------------------------------
(* The drain worker: claiming *)

Eligible == {k \in Key : outbox[k] # NoRow /\ ~ outbox[k].waiting}

\* Rows of one event share enqueued_at; their random outbox_id breaks the tie.
TieBreak ==
    {f \in [Strategies -> 1 .. Cardinality(Strategies)] :
        \A a, b \in Strategies : f[a] = f[b] => a = b}

NotYounger(j, k, tie) ==
    \/ outbox[j].oid < outbox[k].oid
    \/ outbox[j].oid = outbox[k].oid /\ tie[j[2]] <= tie[k[2]]

\* row_number() over the tenant's eligible rows, oldest first.
TenantRank(k, tie) ==
    Cardinality({j \in Eligible : Tenant[j[1]] = Tenant[k[1]] /\ NotYounger(j, k, tie)})

\* A mutant of the order: age alone, so one tenant's backlog goes first.
ClaimedBeforeByAge(j, k, tie) == NotYounger(j, k, tie)

\* ORDER BY tenant_rank, enqueued_at, outbox_id.
ClaimedBefore(j, k, tie) ==
    \/ TenantRank(j, tie) < TenantRank(k, tie)
    \/ TenantRank(j, tie) = TenantRank(k, tie) /\ NotYounger(j, k, tie)

\* The keys a claim returns, in order, when other transactions hold the rows
\* of `locked`: rank first, age second, at most a batch, locked rows skipped.
IsBatch(ks, locked, tie) ==
    LET free == Eligible \ locked
        taken == {ks[i] : i \in DOMAIN ks}
    IN  /\ Cardinality(taken) = Len(ks)
        /\ Len(ks) = BatchSize \/ taken = free
        /\ \A i, j \in DOMAIN ks : i < j => ClaimedBefore(ks[i], ks[j], tie)
        /\ \A j \in taken, k \in free \ taken : ClaimedBefore(j, k, tie)

BatchKeys(locked) == UNION {[1 .. n -> Eligible \ locked] : n \in 1 .. BatchSize}

\* _claim: the claiming transaction commits, and so unlocks, at once.
Claim(w, locked) ==
    /\ pc[w] = "idle"
    /\ \E ks \in BatchKeys(locked), tie \in TieBreak :
        /\ IsBatch(ks, locked, tie)
        /\ batch' = [batch EXCEPT ![w] = [i \in DOMAIN ks |-> outbox[ks[i]]]]
    /\ pc' = [pc EXCEPT ![w] = "next"]
    /\ UNCHANGED <<events, born, queueVars, enabled, erasing, window, upto, provenance, historyVars, boundVars>>

\* A tick that finds no eligible row returns at once.
EmptyTick(w) ==
    /\ pc[w] = "idle"
    /\ Eligible = {}
    /\ UNCHANGED vars

-----------------------------------------------------------------------------
(* The drain worker: processing one row *)

CurrentRow(w) == Head(batch[w])

\* The statements of a worker find its row by outbox_id.
IsQueued(r) == outbox[r.key] # NoRow /\ outbox[r.key].oid = r.oid

\* _process up to the configuration lookup, or the end of the batch.
NextRow(w) ==
    /\ pc[w] = "next"
    /\ pc' = [pc EXCEPT ![w] =
                IF batch[w] = << >> THEN "idle"
                ELSE IF CurrentRow(w).key[2] \notin KnownStrategies THEN "dead"
                ELSE IF enabled[<<Tenant[CurrentRow(w).key[1]], CurrentRow(w).key[2]>>] THEN "load"
                ELSE "skip"]
    /\ upto' = [upto EXCEPT ![w] = IF batch[w] = << >> THEN 0 ELSE CurrentRow(w).through]
    /\ UNCHANGED <<events, born, queueVars, enabled, erasing, batch, window, provenance, historyVars, boundVars>>

LiveInWindow(r) == {e \in EventsOf(r.key[1]) : e.live /\ r.from <= e.seq /\ e.seq <= r.through}

\* ORDER BY seq LIMIT window_events.
IsFirstOf(W, E) ==
    /\ W \subseteq E
    /\ Cardinality(W) <= WindowEvents
    /\ Cardinality(W) = WindowEvents \/ W = E
    /\ \A e \in W, d \in E \ W : e.seq < d.seq

\* _load_window; an empty window completes the row without a call.
LoadWindow(w) ==
    LET E == LiveInWindow(CurrentRow(w))
    IN  /\ pc[w] = "load"
        /\ \/ /\ E = {}
              /\ pc' = [pc EXCEPT ![w] = "empty"]
              /\ UNCHANGED <<window, upto>>
           \/ /\ E # {}
              /\ \E W \in SUBSET E :
                    /\ IsFirstOf(W, E)
                    /\ window' = [window EXCEPT ![w] = W]
                    /\ \E last \in W :
                        /\ \A e \in W : e.seq <= last.seq
                        /\ upto' = [upto EXCEPT ![w] = last.seq]
              /\ pc' = [pc EXCEPT ![w] = "call"]
        /\ UNCHANGED <<events, born, queueVars, enabled, erasing, batch, provenance, historyVars, boundVars>>

\* provider.extract: a result, a retriable failure or a terminal one.  Any
\* other exception is an Abort.
Extract(w) ==
    /\ pc[w] = "call"
    /\ \E outcome \in {"stage", "retry", "dead"} : pc' = [pc EXCEPT ![w] = outcome]
    /\ UNCHANGED <<events, born, queueVars, enabled, erasing, batch, window, upto, provenance, historyVars, boundVars>>

\* A mutant of the citation check: any event id that exists is accepted.
EvidenceExists(w, eid) == eid \in {e.eid : e \in events}

\* assert_evidence_cited: a candidate may cite only the events of its request.
EvidenceCited(w, eid) == eid \in {e.eid : e \in window[w]}

\* stage_result, one candidate: the provider may return any event id, a
\* conforming claim commits in a transaction of its own, and a refused
\* candidate leaves no trace.
StageClaim(w, eid) ==
    /\ pc[w] = "stage"
    /\ EvidenceCited(w, eid)
    /\ provenance' = provenance \cup {<<CurrentRow(w).key, eid>>}
    /\ UNCHANGED <<events, born, queueVars, enabled, erasing, workerVars, historyVars, boundVars>>

FinishRow(w) ==
    /\ pc' = [pc EXCEPT ![w] = "next"]
    /\ batch' = [batch EXCEPT ![w] = Tail(@)]
    /\ window' = [window EXCEPT ![w] = {}]
    /\ upto' = [upto EXCEPT ![w] = 0]

\* A mutant of the completion: the row is deleted whatever its window is now.
CompletedByDeleting(r, through) == IF ~ IsQueued(r) THEN outbox[r.key] ELSE NoRow

\* A mutant of the completion: the row is advanced even when nothing is left.
CompletedByAdvancing(r, through) ==
    IF ~ IsQueued(r) THEN outbox[r.key]
    ELSE [outbox[r.key] EXCEPT !.from = through + 1, !.attempts = 0, !.waiting = FALSE]

\* _complete's two statements: delete the row unless it was widened past
\* `through`, else advance it and clear its failures.
CompletedRow(r, through) ==
    IF ~ IsQueued(r) THEN outbox[r.key]
    ELSE IF outbox[r.key].through <= through THEN NoRow
    ELSE [outbox[r.key] EXCEPT !.from = through + 1, !.attempts = 0, !.waiting = FALSE]

\* _complete, after staging, for a disabled strategy or for an empty window.
Complete(w) ==
    LET r == CurrentRow(w)
    IN  /\ pc[w] \in {"stage", "skip", "empty"}
        /\ outbox' = [outbox EXCEPT ![r.key] = CompletedRow(r, upto[w])]
        /\ extracted' = IF pc[w] = "stage"
                        THEN extracted \cup {<<r.key, e.eid>> : e \in window[w]} ELSE extracted
        /\ skipped' = IF pc[w] = "skip"
                      THEN skipped \cup {<<r.key, e.eid>> : e \in LiveInWindow(r)} ELSE skipped
        /\ FinishRow(w)
        /\ UNCHANGED <<events, born, failed, enabled, erasing, provenance, spared, boundVars>>

\* _dead_letter: insert the failure and delete the row, in one transaction.
\* The failure carries the window that was claimed, not the row's present one.
DeadLetterRow(w, attempts) ==
    LET r == CurrentRow(w)
    IN  /\ failed' = failed \cup {[key |-> r.key, from |-> r.from, through |-> r.through,
                                   attempts |-> attempts]}
        /\ outbox' = [outbox EXCEPT ![r.key] = IF IsQueued(r) THEN NoRow ELSE @]

DeadLetter(w) ==
    /\ pc[w] = "dead"
    /\ DeadLetterRow(w, CurrentRow(w).attempts)
    /\ FinishRow(w)
    /\ UNCHANGED <<events, born, enabled, erasing, provenance, historyVars, boundVars>>

\* A mutant of the retry: the attempt is not counted.
ScheduleRetryUncounted(w) ==
    LET r == CurrentRow(w)
    IN  /\ pc[w] = "retry"
        /\ outbox' = [outbox EXCEPT ![r.key] = IF IsQueued(r) THEN [@ EXCEPT !.waiting = TRUE] ELSE @]
        /\ FinishRow(w)
        /\ UNCHANGED <<events, born, failed, enabled, erasing, provenance, historyVars, boundVars>>

\* A mutant of the retry: the count goes down.
ScheduleRetryCountingDown(w) ==
    LET r == CurrentRow(w)
    IN  /\ pc[w] = "retry"
        /\ outbox' = [outbox EXCEPT ![r.key] =
                         IF IsQueued(r) THEN [@ EXCEPT !.attempts = r.attempts - 1, !.waiting = TRUE] ELSE @]
        /\ FinishRow(w)
        /\ UNCHANGED <<events, born, failed, enabled, erasing, provenance, historyVars, boundVars>>

\* _schedule_retry: attempts are counted from the claimed row.
ScheduleRetry(w) ==
    LET r == CurrentRow(w)
        attempts == r.attempts + 1
    IN  /\ pc[w] = "retry"
        /\ \/ attempts >= MaxAttempts /\ DeadLetterRow(w, attempts)
           \/ /\ attempts < MaxAttempts
              /\ outbox' = [outbox EXCEPT ![r.key] =
                               IF IsQueued(r) THEN [@ EXCEPT !.attempts = attempts, !.waiting = TRUE]
                                              ELSE @]
              /\ UNCHANGED failed
        /\ FinishRow(w)
        /\ UNCHANGED <<events, born, enabled, erasing, provenance, historyVars, boundVars>>

\* An exception outside the provider call aborts the whole batch, and so does
\* the death of the process; committed transactions stay.
Abort(w) ==
    /\ pc[w] # "idle"
    /\ aborts < MaxAborts
    /\ aborts' = aborts + 1
    /\ pc' = [pc EXCEPT ![w] = "idle"]
    /\ batch' = [batch EXCEPT ![w] = << >>]
    /\ window' = [window EXCEPT ![w] = {}]
    /\ upto' = [upto EXCEPT ![w] = 0]
    /\ UNCHANGED <<events, born, queueVars, enabled, erasing, provenance, historyVars, changes>>

-----------------------------------------------------------------------------
(* The specification *)

Init ==
    /\ events = {}
    /\ born = << >>
    /\ outbox = [k \in Key |-> NoRow]
    /\ failed = {}
    /\ enabled = [c \in Tenants \X Strategies |-> TRUE]
    /\ erasing = [a \in Actors |-> 0]
    /\ pc = [w \in Workers |-> "idle"]
    /\ batch = [w \in Workers |-> << >>]
    /\ window = [w \in Workers |-> {}]
    /\ upto = [w \in Workers |-> 0]
    /\ provenance = {}
    /\ extracted = {}
    /\ skipped = {}
    /\ spared = {}
    /\ changes = 0
    /\ aborts = 0

Process(w) ==
    \/ NextRow(w) \/ LoadWindow(w) \/ Extract(w) \/ Complete(w) \/ DeadLetter(w) \/ ScheduleRetry(w)

\* A step of a tick other than writing a claim.
DrainStep(w) ==
    \/ \E locked \in SUBSET Key : Claim(w, locked)
    \/ EmptyTick(w)
    \/ Process(w)
    \/ Abort(w)

WorkerStep(w) == DrainStep(w) \/ \E eid \in DOMAIN born : StageClaim(w, eid)

ClientStep ==
    \/ \E s \in Sessions : RecordEvent(s)
    \/ \E e \in events : DeleteEvent(e)
    \/ \E E \in SUBSET events : ExpireBatch(E)
    \/ \E t \in Tenants, st \in Strategies : SetEnabled(t, st)

Next ==
    \/ ClientStep
    \/ \E a \in Actors : Change /\ BeginEraseActorEvents(a)
    \/ \E a \in Actors : EraseActorEvents(a) /\ UNCHANGED changes
    \/ \E k \in Key : BackoffElapses(k)
    \/ \E w \in Workers : WorkerStep(w)

Spec == Init /\ [][Next]_vars

\* The scheduler runs every replica's drain again and again, swallowing what a
\* tick raises; a claim that another transaction's locks did not disturb, the
\* steps of a running tick and the clock are therefore weakly fair.  Nothing
\* obliges a client to act, a provider to succeed or a worker to abort.
Fairness ==
    /\ \A k \in Key : WF_vars(BackoffElapses(k))
    /\ \A w \in Workers : WF_vars(Claim(w, {})) /\ WF_vars(Process(w))

FairSpec == Spec /\ Fairness

\* With the scheduled purge of expired events beside everything else.  A purge
\* of the last events of a session lets MAX(seq) + 1 hand out their numbers
\* again, which Spec rules out.
NextWithPurge == Next \/ \E E \in SUBSET events : DeleteExpiredEvents(E)

PurgeSpec == Init /\ [][NextWithPurge]_vars

-----------------------------------------------------------------------------
(* Properties *)

\* Every variable has its type, and a worker between two rows holds nothing.
TypeOK ==
    /\ events \in SUBSET Event
    /\ born \in Seq(Sessions)
    /\ outbox \in [Key -> Row \cup {NoRow}]
    /\ failed \in SUBSET FailedRow
    /\ enabled \in [Tenants \X Strategies -> BOOLEAN]
    /\ erasing \in [Actors -> Nat]
    /\ pc \in [Workers -> Step]
    /\ batch \in [Workers -> Seq(Row)]
    /\ window \in [Workers -> SUBSET Event]
    /\ upto \in [Workers -> Nat]
    /\ provenance \in SUBSET (Key \X Nat)
    /\ extracted \in SUBSET (Key \X Nat)
    /\ skipped \in SUBSET (Key \X Nat)
    /\ spared \in SUBSET Nat
    /\ changes \in Nat
    /\ aborts \in Nat

Covers(r, e) == r # NoRow /\ r.from <= e.seq /\ e.seq <= r.through

Handled(k, e) ==
    \/ <<k, e.eid>> \in extracted
    \/ <<k, e.eid>> \in skipped
    \/ e.eid \in spared
    \/ \E f \in failed : f.key = k

\* No turn is lost silently (enqueue_extraction, _complete, _dead_letter): for
\* every strategy, a live event is in the window of a queued row, or has been
\* extracted, or was passed over while the strategy was disabled, or its
\* session has a dead letter for an operator to act on, or the event was
\* written while its actor was being erased.
NoTurnLost ==
    \A e \in events, st \in Strategies :
        e.live => Covers(outbox[<<e.sess, st>>], e) \/ Handled(<<e.sess, st>>, e)

\* A claim staged for one session never cites an event of another session,
\* whatever the provider returned and whatever the worker's row has become
\* (assert_evidence_cited over the ids of the loaded window).
ClaimsCiteOwnSession ==
    \A p \in provenance : p[2] \in DOMAIN born /\ born[p[2]] = p[1][1]

\* The window of a queued row is never empty or inverted
\* (ck_memory_outbox_window), however stale the worker that moved it was, and
\* its retries are not spent (a spent row is a dead letter).
QueuedWindowsAreSound ==
    \A k \in Key :
        outbox[k] # NoRow => /\ outbox[k].key = k
                             /\ outbox[k].from <= outbox[k].through
                             /\ outbox[k].attempts < MaxAttempts

\* The strengthening of the safety properties that every step preserves.

EventIdsAreSound == \A e \in events : e.eid \in DOMAIN born /\ born[e.eid] = e.sess

\* A queued window ends at an event that is still stored, so the next sequence
\* number lies beyond it; its identifier is older than the next one.
RowsAreSound ==
    \A k \in Key :
        outbox[k] # NoRow => /\ outbox[k].oid <= Len(born)
                             /\ \E e \in events : e.sess = k[1] /\ outbox[k].through <= e.seq

\* What a worker's snapshot still says of the queue: if the row is there, it
\* has only been widened, and the turns before the snapshot are settled.
SnapshotIsSound(r) ==
    /\ r.oid <= Len(born)
    /\ r.from <= r.through
    /\ r.attempts < MaxAttempts
    /\ IsQueued(r) =>
        /\ r.through <= outbox[r.key].through
        /\ \A e \in events :
            (e.sess = r.key[1] /\ e.live /\ e.seq < r.from) => Handled(r.key, e)

\* What a worker in the middle of a row knows: the loaded window holds every
\* live turn from the snapshot's start to the point it will complete through.
WorkerIsSound(w) ==
    /\ pc[w] \in {"idle", "next"} => window[w] = {}
    /\ pc[w] \notin {"idle", "next"} =>
        LET r == CurrentRow(w)
        IN  /\ batch[w] # << >>
            /\ upto[w] <= r.through
            /\ pc[w] = "skip" => upto[w] = r.through
            /\ \A x \in window[w] : x.eid \in DOMAIN born /\ born[x.eid] = r.key[1]
            /\ IsQueued(r) => \A e \in events :
                (e.sess = r.key[1] /\ e.live /\ r.from <= e.seq /\ e.seq <= upto[w]) =>
                    /\ pc[w] # "empty"
                    /\ pc[w] \in {"call", "stage"} => \E x \in window[w] : x.eid = e.eid

IInv ==
    /\ TypeOK
    /\ QueuedWindowsAreSound
    /\ EventIdsAreSound
    /\ RowsAreSound
    /\ \A w \in Workers : \A i \in DOMAIN batch[w] : SnapshotIsSound(batch[w][i])
    /\ \A w \in Workers : WorkerIsSound(w)
    /\ ClaimsCiteOwnSession
    /\ NoTurnLost

\* A tenant's backlog does not keep another tenant out of a batch (_claim's
\* ranking): a claim that no lock disturbs takes two rows of one tenant only
\* when every tenant with an eligible row is in the batch.
UnlockedClaimIsFair(w) ==
    LET tenants == {Tenant[batch'[w][i].key[1]] : i \in DOMAIN batch'[w]}
    IN  Claim(w, {}) => \/ Cardinality(tenants) = Len(batch'[w])
                        \/ \A k \in Eligible : Tenant[k[1]] \in tenants

FairBatches == [][\A w \in Workers : UnlockedClaimIsFair(w)]_vars

\* Once clients stop writing, the outbox drains and stays empty: no row is
\* immortal, whatever the provider does and however stale a worker is.
QueueDrains == <>[](\A k \in Key : outbox[k] = NoRow)

=============================================================================
