---------------------------- MODULE WebhookDelivery ----------------------------
(***************************************************************************)
(* The delivery of notifications to subscribers' webhooks.                 *)
(*                                                                         *)
(* Every API replica runs a delivery worker.  A tick claims a batch of due *)
(* rows, POSTs them all at once, waits for every answer and records the    *)
(* outcomes in one UPDATE.  The claim counts the attempt and nothing else: *)
(* the row stays pending and due until its outcome is recorded.            *)
(*                                                                         *)
(* Wall-clock time is abstracted: the rows whose next_retry_at has passed  *)
(* stand in line in the order of that time, and a row that backs off joins *)
(* the end of the line when RetryFallsDue.                                 *)
(***************************************************************************)
EXTENDS Naturals, FiniteSets

CONSTANTS
    Deliveries,   \* rows of notification_deliveries that events will insert
    Workers,      \* delivery workers, one per replica
    BatchSize,    \* rows claimed per tick (webhook_batch_size)
    MaxAttempts,  \* MAX_ATTEMPTS
    Unsigned,     \* deliveries whose subscription starts without an HMAC secret
    MaxUpdates,   \* bound: secrets set or cleared by update_subscription
    MaxCrashes    \* bound: ticks lost to an exception or the end of the process

VARIABLES
    status,   \* status[d]: "absent" until the row is inserted
    attempt,  \* attempt_number
    due,      \* rows whose next_retry_at has passed
    earlier,  \* pairs of due rows, the one with the older next_retry_at first
    unset,    \* rows whose next_retry_at is NULL
    secret,   \* secret[d]: the subscription of d has an HMAC secret
    flight,   \* flight[w][d]: what worker w holds of row d in this tick
    number,   \* number[w][d]: the attempt number w claimed d with
    posts,    \* history: POSTs made for d
    refused,  \* history: deliveries answered with a permanent refusal
    updates,  \* secrets set or cleared so far
    crashes   \* ticks lost so far

rowVars == <<status, attempt, due, earlier, unset>>
tickVars == <<flight, number>>
historyVars == <<posts, refused>>
boundVars == <<updates, crashes>>
vars == <<status, attempt, due, earlier, unset, secret, flight, number, posts, refused, updates, crashes>>

ASSUME DeliveryAssumption ==
    /\ BatchSize \in Nat \ {0}
    /\ MaxAttempts \in Nat \ {0}
    /\ Unsigned \subseteq Deliveries
    /\ MaxUpdates \in Nat
    /\ MaxCrashes \in Nat

Outcome == {"success", "pending", "failed"}
Flight == {"none", "posting", "raised"} \cup Outcome

\* The code only compares an attempt number with MAX_ATTEMPTS, so counting
\* stops one past it: all greater numbers behave alike.
CountUp(n) == IF n <= MaxAttempts THEN n + 1 ELSE n

Idle(w) == flight[w] = [d \in Deliveries |-> "none"]

-----------------------------------------------------------------------------
(* Rows arrive and fall due *)

\* next_retry_at of d becomes the latest that has passed.
JoinLine(d) ==
    /\ due' = due \cup {d}
    /\ earlier' = earlier \cup (due \X {d})

\* next_retry_at of the rows of D lies ahead, or is NULL.
LeaveLine(D) ==
    /\ due' = due \ D
    /\ earlier' = {p \in earlier : p[1] \notin D /\ p[2] \notin D}

\* emit_event: a pending row, due at once.
EmitEvent(d) ==
    /\ status[d] = "absent"
    /\ status' = [status EXCEPT ![d] = "pending"]
    /\ JoinLine(d)
    /\ UNCHANGED <<attempt, unset, secret, tickVars, historyVars, boundVars>>

\* update_subscription sets the secret, or clears it with an empty string.
UpdateSubscription(d) ==
    /\ updates < MaxUpdates
    /\ updates' = updates + 1
    /\ secret' = [secret EXCEPT ![d] = ~ @]
    /\ UNCHANGED <<rowVars, tickVars, historyVars, crashes>>

\* next_retry_at passes.
RetryFallsDue(d) ==
    /\ status[d] = "pending"
    /\ d \notin due
    /\ JoinLine(d)
    /\ UNCHANGED <<status, attempt, unset, secret, tickVars, historyVars, boundVars>>

-----------------------------------------------------------------------------
(* One tick of a worker *)

\* status = 'pending' AND (next_retry_at IS NULL OR next_retry_at <= :now)
IsDue(d) == status[d] = "pending" /\ (d \in unset \/ d \in due)

\* ORDER BY next_retry_at NULLS FIRST
Precedes(j, k) ==
    \/ j \in unset
    \/ /\ k \notin unset
       /\ <<j, k>> \in earlier

\* LIMIT :lim FOR UPDATE SKIP LOCKED
IsBatch(taken, locked) ==
    LET free == {d \in Deliveries : IsDue(d)} \ locked
    IN  /\ taken # {} /\ taken \subseteq free
        /\ Cardinality(taken) <= BatchSize
        /\ Cardinality(taken) = BatchSize \/ taken = free
        /\ \A j \in taken, k \in free \ taken : Precedes(j, k)

\* A mutant of the claim: the attempt is counted when it is recorded, if ever.
SameAttempt(d) == attempt[d]

NextAttempt(d) == CountUp(attempt[d])

\* Only the other workers lock rows, while they claim them or record them.
HeldByOthers(w) == {d \in Deliveries : \E v \in Workers \ {w} : flight[v][d] # "none"}

\* _claim_pending, when other transactions hold the rows of `locked`.  A row
\* without a secret raises in sign_payload before anything is sent.
Claim(w, locked) ==
    /\ Idle(w)
    /\ \E taken \in SUBSET Deliveries :
        /\ IsBatch(taken, locked)
        /\ attempt' = [d \in Deliveries |-> IF d \in taken THEN NextAttempt(d) ELSE attempt[d]]
        /\ number' = [number EXCEPT ![w] = [d \in Deliveries |-> IF d \in taken THEN NextAttempt(d) ELSE 0]]
        /\ flight' = [flight EXCEPT ![w] =
                        [d \in Deliveries |-> IF d \notin taken THEN "none"
                                              ELSE IF secret[d] THEN "posting" ELSE "raised"]]
    /\ UNCHANGED <<status, due, earlier, unset, secret, historyVars, boundVars>>

ClaimPending(w) == \E locked \in SUBSET HeldByOthers(w) : Claim(w, locked)

\* A tick that finds no due row returns at once.
EmptyTick(w) ==
    /\ Idle(w)
    /\ \A d \in Deliveries : ~ IsDue(d)
    /\ UNCHANGED vars

\* A mutant of the classification: it gives up one attempt early.
ClassifyGivingUpEarly(answer, n) ==
    CASE answer = "2xx" -> "success"
      [] answer = "transport" \/ (answer = "transient" /\ n + 1 < MaxAttempts) -> "pending"
      [] OTHER -> "failed"

\* _classify_response, and deliver's handling of an error of the transport.
Classify(answer, n) ==
    CASE answer = "2xx" -> "success"
      [] answer = "transport" \/ (answer = "transient" /\ n < MaxAttempts) -> "pending"
      [] OTHER -> "failed"

\* deliver: the POST and its answer, whatever the subscriber's host does.
Post(w, d) ==
    /\ flight[w][d] = "posting"
    /\ \E answer \in {"2xx", "transient", "permanent", "transport"} :
        /\ flight' = [flight EXCEPT ![w][d] = Classify(answer, number[w][d])]
        /\ refused' = IF answer = "permanent" THEN refused \cup {d} ELSE refused
    /\ posts' = [posts EXCEPT ![d] = CountUp(@)]
    /\ UNCHANGED <<rowVars, secret, number, boundVars>>

Recorded(w) == {d \in Deliveries : flight[w][d] \in Outcome}

EndTick(w) ==
    /\ flight' = [flight EXCEPT ![w] = [d \in Deliveries |-> "none"]]
    /\ number' = [number EXCEPT ![w] = [d \in Deliveries |-> 0]]

\* A mutant of the recording: what a row raised is recorded as its status.
RecordWhatWasRaised(w) ==
    /\ ~ Idle(w)
    /\ \A d \in Deliveries : flight[w][d] # "posting"
    /\ status' = [d \in Deliveries |-> IF flight[w][d] # "none" THEN flight[w][d] ELSE status[d]]
    /\ LeaveLine({d \in Deliveries : flight[w][d] # "none"})
    /\ UNCHANGED unset
    /\ EndTick(w)
    /\ UNCHANGED <<attempt, secret, historyVars, boundVars>>

\* A mutant of the recording: a retry keeps the old next_retry_at.
RecordWithoutBackoff(w) ==
    /\ ~ Idle(w)
    /\ \A d \in Deliveries : flight[w][d] # "posting"
    /\ status' = [d \in Deliveries |-> IF d \in Recorded(w) THEN flight[w][d] ELSE status[d]]
    /\ LeaveLine({d \in Deliveries : flight[w][d] \in {"success", "failed"}})
    /\ unset' = unset \cup {d \in Deliveries : flight[w][d] \in {"success", "failed"}}
    /\ EndTick(w)
    /\ UNCHANGED <<attempt, secret, historyVars, boundVars>>

\* gather has every answer; _record_outcomes_bulk writes the status and
\* next_retry_at of each row that has an outcome, whatever they are by now.
\* NULL after a terminal outcome, a time to come after a retry.
RecordOutcomes(w) ==
    /\ ~ Idle(w)
    /\ \A d \in Deliveries : flight[w][d] # "posting"
    /\ status' = [d \in Deliveries |-> IF d \in Recorded(w) THEN flight[w][d] ELSE status[d]]
    /\ LeaveLine(Recorded(w))
    /\ unset' = (unset \ Recorded(w)) \cup {d \in Recorded(w) : flight[w][d] # "pending"}
    /\ EndTick(w)
    /\ UNCHANGED <<attempt, secret, historyVars, boundVars>>

\* The tick is lost between the claim and the record; what was sent stays sent.
Crash(w) ==
    /\ ~ Idle(w)
    /\ crashes < MaxCrashes
    /\ crashes' = crashes + 1
    /\ EndTick(w)
    /\ UNCHANGED <<rowVars, secret, historyVars, updates>>

-----------------------------------------------------------------------------

Init ==
    /\ status = [d \in Deliveries |-> "absent"]
    /\ attempt = [d \in Deliveries |-> 0]
    /\ due = {}
    /\ earlier = {}
    /\ unset = {}
    /\ secret = [d \in Deliveries |-> d \notin Unsigned]
    /\ flight = [w \in Workers |-> [d \in Deliveries |-> "none"]]
    /\ number = [w \in Workers |-> [d \in Deliveries |-> 0]]
    /\ posts = [d \in Deliveries |-> 0]
    /\ refused = {}
    /\ updates = 0
    /\ crashes = 0

Deliver(w) == RecordOutcomes(w) \/ \E d \in Deliveries : Post(w, d)

Next ==
    \/ \E d \in Deliveries : EmitEvent(d) \/ UpdateSubscription(d) \/ RetryFallsDue(d)
    \/ \E w \in Workers :
        \/ ClaimPending(w)
        \/ EmptyTick(w)
        \/ Deliver(w)
        \/ Crash(w)

Spec == Init /\ [][Next]_vars

\* The scheduler runs every replica's tick again and again, a POST ends by its
\* timeout, and the clock moves on.
Fairness ==
    /\ \A d \in Deliveries : WF_vars(RetryFallsDue(d))
    /\ \A w \in Workers : WF_vars(ClaimPending(w)) /\ WF_vars(Deliver(w))

FairSpec == Spec /\ Fairness

-----------------------------------------------------------------------------
(* Properties *)

\* Every variable has its type; next_retry_at puts the due rows in one line, a
\* strict total order, and it is NULL for none of them.
TypeOK ==
    /\ status \in [Deliveries -> {"absent"} \cup Outcome]
    /\ attempt \in [Deliveries -> 0 .. MaxAttempts + 1]
    /\ due \in SUBSET Deliveries
    /\ earlier \in SUBSET (due \X due)
    /\ \A j, k \in due : j = k \/ <<j, k>> \in earlier \/ <<k, j>> \in earlier
    /\ \A j, k \in due : <<j, k>> \in earlier => <<k, j>> \notin earlier
    /\ \A i, j, k \in due : <<i, j>> \in earlier /\ <<j, k>> \in earlier => <<i, k>> \in earlier
    /\ unset \in SUBSET (Deliveries \ due)
    /\ secret \in [Deliveries -> BOOLEAN]
    /\ flight \in [Workers -> [Deliveries -> Flight]]
    /\ number \in [Workers -> [Deliveries -> 0 .. MaxAttempts + 1]]
    /\ posts \in [Deliveries -> 0 .. MaxAttempts + 1]
    /\ refused \in SUBSET Deliveries

\* No POST goes uncounted, however many ticks crashed between the POST and its
\* record or ran side by side (the claim counts the attempt and commits first).
AttemptsCoverPosts == \A d \in Deliveries : posts[d] <= attempt[d]

\* A delivery is abandoned only after a permanent refusal or when its attempts
\* are spent, although the number compared is the one a worker claimed with
\* and the row may have been claimed again since (_classify_response).
GivesUpOnlyWhenSpent ==
    \A d \in Deliveries : status[d] = "failed" => d \in refused \/ attempt[d] >= MaxAttempts

\* What the module docstring says of a 2xx: "mark success (no further
\* attempts)".  Once a success is recorded nothing more would be sent and the
\* record would stand.  With two replicas neither holds: the claim leaves the row
\* pending and due, so that the other replica may hold it too.
SuccessIsFinal ==
    [][\A d \in Deliveries :
        status[d] = "success" => status'[d] = "success" /\ posts'[d] = posts[d]]_vars

\* Rows that cannot be signed raise on every tick, keep their place at the head
\* of the line and so take their part of every batch.
BatchIsClogged == Cardinality({d \in Deliveries : status[d] = "pending" /\ ~ secret[d]}) >= BatchSize

\* A delivery that can be signed is sent at least once, unless rows without a
\* secret fill a batch again and again: a batch that was clogged and then signed,
\* fewer unsigned rows, a backlog of retries, a lost tick or another replica that
\* claims beside this one do not keep it out for ever (ORDER BY next_retry_at,
\* LIMIT and SKIP LOCKED in _claim_pending).
EveryDeliveryIsAttempted ==
    \A d \in Deliveries :
        \/ []<>BatchIsClogged
        \/ (status[d] = "pending" /\ secret[d]) ~> (posts[d] > 0 \/ ~ secret[d])

\* The strengthening of GivesUpOnlyWhenSpent that every step preserves.

CountersAreTyped ==
    /\ status \in [Deliveries -> {"absent"} \cup Outcome]
    /\ attempt \in [Deliveries -> Nat]
    /\ flight \in [Workers -> [Deliveries -> Flight]]
    /\ number \in [Workers -> [Deliveries -> Nat]]

\* What a worker holds is no newer than the row, and it gives up for cause.
FlightIsSound(w, d) ==
    /\ number[w][d] <= attempt[d]
    /\ flight[w][d] = "failed" => d \in refused \/ number[w][d] >= MaxAttempts

IInv ==
    /\ CountersAreTyped
    /\ \A w \in Workers, d \in Deliveries : FlightIsSound(w, d)
    /\ GivesUpOnlyWhenSpent

\* What TypeOK needs besides itself: next_retry_at is NULL for the rows with a
\* terminal outcome and for no others, and a row that is due was inserted.
RowsAreStamped ==
    /\ \A d \in Deliveries : d \in unset <=> status[d] \in {"success", "failed"}
    /\ \A d \in due : status[d] # "absent"

\* The strengthening of AttemptsCoverPosts: every POST under way was counted
\* apart, as long as the count is below the point where counting stops.
Posting(d) == {w \in Workers : flight[w][d] = "posting"}

PostsAreCounted(d) ==
    /\ IsFiniteSet(Posting(d))
    /\ attempt[d] <= MaxAttempts => posts[d] + Cardinality(Posting(d)) <= attempt[d]

=============================================================================
