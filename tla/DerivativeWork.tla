---------------------------- MODULE DerivativeWork ----------------------------
(***************************************************************************)
(* The derivative registry's outbox and the worker that drains it.         *)
(*                                                                         *)
(* A derivative (a vector, a summary, a receipt link...) is registered     *)
(* with the records it was built from.  An erasure, an expiry or a policy  *)
(* change inserts one item per derivative and cause, which a unique index  *)
(* keeps from ever being inserted a second time.  A tick of the            *)
(* propagation worker claims a batch and commits; the items stay pending   *)
(* and due, and each is then applied in a transaction of its own.          *)
(*                                                                         *)
(* This module holds the outbox and the worker.  What applying an item     *)
(* does to the artefact is for the modules that extend this one.           *)
(***************************************************************************)
EXTENDS Naturals, Sequences

CONSTANTS
    Derivatives,  \* identities of derivative_registrations rows
    Blocking,     \* the derivatives that are registered as blocking
    Causes,       \* (operation, trigger, tombstone) triples
    Propagators,  \* propagation workers, one per replica
    WorkBatch,    \* items claimed per tick (batch_size)
    MaxAttempts,  \* MAX_ATTEMPTS
    MaxLostTicks  \* bound: ticks lost to an exception or the end of the process

VARIABLES
    registered,  \* the derivatives that have a registration
    work,        \* work[i]: the outbox row of item i, state "none" before it is inserted
    taken,       \* taken[w]: the rows of its batch that worker w has still to apply
    lostTicks    \* ticks lost so far

workVars == <<registered, work, taken, lostTicks>>

ASSUME WorkAssumption ==
    /\ Blocking \subseteq Derivatives
    /\ WorkBatch \in Nat \ {0}
    /\ MaxAttempts \in Nat \ {0}
    /\ MaxLostTicks \in Nat

Items == Derivatives \X Causes
WorkState == {"none", "pending", "done", "failed"}
\* due stands for available_at <= now.
WorkRow == [state : WorkState, attempts : 0 .. MaxAttempts, due : BOOLEAN]
\* What the claim read: the item and the attempts it had then.
Claimed == [item : Items, attempts : 0 .. MaxAttempts]

NoWork == [state |-> "none", attempts |-> 0, due |-> FALSE]
NewWork == [state |-> "pending", attempts |-> 0, due |-> TRUE]

WorkInit ==
    /\ registered = {}
    /\ work = [i \in Items |-> NoWork]
    /\ taken = [w \in Propagators |-> <<>>]
    /\ lostTicks = 0

-----------------------------------------------------------------------------
(* Enqueuing *)

\* The items one INSERT ... ON CONFLICT DO NOTHING creates: uq_work_per_cause
\* refuses a second row for a derivative and a cause, whatever the first has
\* come to.
Insertable(D, c) == {i \in Items : i[1] \in D \cap registered /\ i[2] = c /\ work[i].state = "none"}

\* enqueue_for_sources, and the INSERT of the expiry sweep.
Enqueue(D, c) == work' = [i \in Items |-> IF i \in Insertable(D, c) THEN NewWork ELSE work[i]]

-----------------------------------------------------------------------------
(* DerivativePropagationWorker *)

\* Mutant: the claim skips what was claimed before.
FreshItems == {i \in Items : work[i].state = "pending" /\ work[i].due /\ work[i].attempts = 0}

DueItems == {i \in Items : work[i].state = "pending" /\ work[i].due}
IsBlocking(i) == i[1] \in Blocking

\* What the claim query may return: due items, the blocking ones first.  The
\* order by available_at among equals is left open.
ClaimableBatch(q) ==
    /\ \A j, k \in DOMAIN q : q[j] = q[k] => j = k
    /\ \A j, k \in DOMAIN q : j < k /\ IsBlocking(q[k]) => IsBlocking(q[j])
    /\ LET rest == DueItems \ {q[k] : k \in DOMAIN q}
       IN  /\ Len(q) < WorkBatch => rest = {}
           /\ \A i \in rest, k \in DOMAIN q : IsBlocking(i) => IsBlocking(q[k])

\* _claim: the batch is read and committed; claimed_at is written and nothing
\* reads it, so the rows are as claimable as before.
Claim(w) ==
    /\ taken[w] = <<>>
    /\ DueItems # {}
    /\ \E n \in 1 .. WorkBatch : \E q \in [1 .. n -> DueItems] :
        /\ ClaimableBatch(q)
        /\ taken' = [taken EXCEPT ![w] = [k \in 1 .. n |-> [item |-> q[k], attempts |-> work[q[k]].attempts]]]
    /\ UNCHANGED <<registered, work, lostTicks>>

\* The item worker w applies next.
Current(w) == Head(taken[w]).item

\* _apply_one, the outbox half: in the handler's transaction the row becomes
\* done, whatever it was by then.
MarkDone(w) ==
    /\ taken[w] # <<>>
    /\ work' = [work EXCEPT ![Current(w)].state = "done"]
    /\ taken' = [taken EXCEPT ![w] = Tail(@)]
    /\ UNCHANGED <<registered, lostTicks>>

\* Mutant: one attempt more than MAX_ATTEMPTS.
MarkFailedLate(w) ==
    /\ taken[w] # <<>>
    /\ LET attempts == Head(taken[w]).attempts + 1
       IN  work' = [work EXCEPT ![Current(w)] =
               [state |-> IF attempts > MaxAttempts THEN "failed" ELSE "pending",
                attempts |-> attempts,
                due |-> FALSE]]
    /\ taken' = [taken EXCEPT ![w] = Tail(@)]
    /\ UNCHANGED <<registered, lostTicks>>

\* _record_failure: the handler's transaction is rolled back and the attempt
\* counted on what the claim read.
MarkFailed(w) ==
    /\ taken[w] # <<>>
    /\ LET attempts == Head(taken[w]).attempts + 1
       IN  work' = [work EXCEPT ![Current(w)] =
               [state |-> IF attempts >= MaxAttempts THEN "failed" ELSE "pending",
                attempts |-> attempts,
                due |-> FALSE]]
    /\ taken' = [taken EXCEPT ![w] = Tail(@)]
    /\ UNCHANGED <<registered, lostTicks>>

\* The process ends in the middle of a batch, or a failure cannot be recorded:
\* the rest of the batch is dropped and its rows are claimed again later.
LoseTick(w) ==
    /\ taken[w] # <<>>
    /\ lostTicks < MaxLostTicks
    /\ lostTicks' = lostTicks + 1
    /\ taken' = [taken EXCEPT ![w] = <<>>]
    /\ UNCHANGED <<registered, work>>

\* The backoff written to available_at runs out.
FallsDue(i) ==
    /\ work[i].state \in {"pending", "failed"}
    /\ ~ work[i].due
    /\ work' = [work EXCEPT ![i].due = TRUE]
    /\ UNCHANGED <<registered, taken, lostTicks>>

\* pending_overdue(blocking_only=True): what makes a guarded read refuse.
PendingOverdue == {i \in Items : work[i].state \in {"pending", "failed"} /\ work[i].due /\ IsBlocking(i)}

-----------------------------------------------------------------------------
(* Properties of the outbox alone *)

WorkTypeOK ==
    /\ registered \subseteq Derivatives
    /\ work \in [Items -> WorkRow]
    /\ taken \in [Propagators -> Seq(Claimed)]
    /\ lostTicks \in 0 .. MaxLostTicks

\* What every step of the outbox preserves: a pending row and a claimed one
\* have attempts left, and only rows that exist are claimed.
WorkInv ==
    /\ WorkTypeOK
    /\ \A i \in Items : work[i].state = "pending" => work[i].attempts < MaxAttempts
    /\ \A w \in Propagators : \A k \in DOMAIN taken[w] :
        /\ taken[w][k].attempts < MaxAttempts
        /\ work[taken[w][k].item].state # "none"

\* The outbox as the ledger of causes it promises to be.
Ledger == INSTANCE CauseLedger WITH Items <- Items, ledger <- [i \in Items |-> work[i].state]

=============================================================================
