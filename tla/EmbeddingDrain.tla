----------------------------- MODULE EmbeddingDrain -----------------------------
(***************************************************************************)
(* The semantic index: vectors, the queue of embedding requests, the dead  *)
(* letters, and the drainers that turn requests into vectors.              *)
(*                                                                         *)
(* A target has at most one request; queueing it again refreshes the row   *)
(* in place.  A drainer reads a batch in a transaction that ends at once,  *)
(* so its row locks are gone before the first request is encoded, and      *)
(* finishes each request from the copy it read.                            *)
(***************************************************************************)
EXTENDS Naturals, Sequences

CONSTANTS
    Targets,           \* what is embedded
    Drainers,          \* one drain job per replica
    DrainBatch,        \* outbox_batch_size
    MaxEmbedAttempts,  \* outbox_max_attempts
    MaxLostDrains      \* bound: drain ticks that end without recording an outcome

VARIABLES
    queue,      \* queue[t]: the embedding_outbox row of t
    vectors,    \* the targets with rows in embeddings
    failed,     \* the targets with rows in embedding_outbox_failed
    batch,      \* batch[d]: the copies drainer d has still to process
    requests,   \* enqueues so far: the clock that stamps rows
    lostDrains  \* ticks lost so far

drainVars == <<queue, vectors, failed, batch, requests, lostDrains>>

ASSUME DrainAssumption ==
    /\ DrainBatch \in Nat \ {0}
    /\ MaxEmbedAttempts \in Nat \ {0}
    /\ MaxLostDrains \in Nat

\* id is the row's identity (outbox_id), at the time it was last enqueued, and
\* cooling that its last error is younger than the cooldown.
Request == [id : Nat, at : Nat, attempts : 0 .. MaxEmbedAttempts, cooling : BOOLEAN]
NoRequest == [id |-> 0, at |-> 0, attempts |-> 0, cooling |-> FALSE]
Copy == [target : Targets, id : Nat, at : Nat, attempts : 0 .. MaxEmbedAttempts]

Queued(t) == queue[t].id # 0

DrainInit ==
    /\ queue = [t \in Targets |-> NoRequest]
    /\ vectors = {}
    /\ failed = {}
    /\ batch = [d \in Drainers |-> <<>>]
    /\ requests = 0
    /\ lostDrains = 0

\* A drainer has read a request for t and not finished it.
InFlight(t) == \E d \in Drainers : \E k \in DOMAIN batch[d] : batch[d][k].target = t

-----------------------------------------------------------------------------
(* The writers of the index; each runs in its caller's transaction. *)

\* enqueue: an upsert that keeps the row and starts its attempts afresh.
EnqueueText(t) ==
    /\ requests' = requests + 1
    /\ queue' = [queue EXCEPT ![t] = [id |-> IF Queued(t) THEN @.id ELSE requests + 1, at |-> requests + 1,
                                      attempts |-> 0, cooling |-> FALSE]]
    /\ UNCHANGED <<vectors, failed>>

\* retract: the vectors and the request, not the dead letters.
Retract(t) ==
    /\ vectors' = vectors \ {t}
    /\ queue' = [queue EXCEPT ![t] = NoRequest]
    /\ UNCHANGED <<failed, requests>>

\* erase_targets: the dead letters too, which hold the text they failed on.
EraseTargets(T) ==
    /\ vectors' = vectors \ T
    /\ queue' = [t \in Targets |-> IF t \in T THEN NoRequest ELSE queue[t]]
    /\ failed' = failed \ T
    /\ UNCHANGED requests

-----------------------------------------------------------------------------
(* The drain *)

Ready == {t \in Targets : Queued(t) /\ ~ queue[t].cooling}

\* The claim query: the oldest requests that are not cooling down.
OldestFirst(q) ==
    /\ \A j, k \in DOMAIN q : j < k => queue[q[j]].at < queue[q[k]].at
    /\ LET rest == Ready \ {q[k] : k \in DOMAIN q}
       IN  /\ Len(q) < DrainBatch => rest = {}
           /\ \A t \in rest, k \in DOMAIN q : queue[q[k]].at < queue[t].at

\* _drain_batch: the rows are read, their locks released.
ReadBatch(d) ==
    /\ batch[d] = <<>>
    /\ Ready # {}
    /\ \E n \in 1 .. DrainBatch : \E q \in [1 .. n -> Ready] :
        /\ OldestFirst(q)
        /\ batch' = [batch EXCEPT ![d] = [k \in 1 .. n |->
               [target |-> q[k], id |-> queue[q[k]].id, at |-> queue[q[k]].at, attempts |-> queue[q[k]].attempts]]]
    /\ UNCHANGED <<queue, vectors, failed, requests, lostDrains>>

\* The copy of d's batch that is processed next.
This(d) == Head(batch[d])
\* The row a copy was read from is still in the queue.
SameRow(r) == Queued(r.target) /\ queue[r.target].id = r.id

Finish(d) ==
    /\ batch[d] # <<>>
    /\ batch' = [batch EXCEPT ![d] = Tail(@)]
    /\ UNCHANGED lostDrains

\* _process_row after encoding: the vectors are replaced, and the request is
\* deleted unless it was refreshed in the meantime.
Embed(d) ==
    /\ Finish(d)
    /\ vectors' = vectors \cup {This(d).target}
    /\ queue' = IF SameRow(This(d)) /\ queue[This(d).target].at = This(d).at
                THEN [queue EXCEPT ![This(d).target] = NoRequest]
                ELSE queue
    /\ UNCHANGED <<failed, requests>>

\* Mutant: a request that is out of attempts is only deleted.
EmbedFailsQuietly(d) ==
    /\ Finish(d)
    /\ queue' = IF ~ SameRow(This(d))
                THEN queue
                ELSE [queue EXCEPT ![This(d).target] =
                         IF This(d).attempts + 1 >= MaxEmbedAttempts
                         THEN NoRequest
                         ELSE [@ EXCEPT !.attempts = This(d).attempts + 1, !.cooling = TRUE]]
    /\ UNCHANGED <<vectors, failed, requests>>

\* Mutant: the error is recorded and the attempt is not.
EmbedFailsUncounted(d) ==
    /\ Finish(d)
    /\ queue' = IF SameRow(This(d)) THEN [queue EXCEPT ![This(d).target].cooling = TRUE] ELSE queue
    /\ UNCHANGED <<vectors, failed, requests>>

\* _handle_failure: the attempts are those of the copy, and they are written to
\* the row, or the row moved to the dead letters, even if it was refreshed.
EmbedFails(d) ==
    /\ Finish(d)
    /\ LET attempts == This(d).attempts + 1
           spent == attempts >= MaxEmbedAttempts
       IN  /\ failed' = IF spent THEN failed \cup {This(d).target} ELSE failed
           /\ queue' = IF ~ SameRow(This(d))
                       THEN queue
                       ELSE [queue EXCEPT ![This(d).target] =
                                IF spent THEN NoRequest ELSE [@ EXCEPT !.attempts = attempts, !.cooling = TRUE]]
    /\ UNCHANGED <<vectors, requests>>

\* The outcome cannot be recorded, or the process ends: the rows stay as they
\* are and are read again.
LoseDrain(d) ==
    /\ batch[d] # <<>>
    /\ lostDrains < MaxLostDrains
    /\ lostDrains' = lostDrains + 1
    /\ batch' = [batch EXCEPT ![d] = <<>>]
    /\ UNCHANGED <<queue, vectors, failed, requests>>

\* last_attempt_at falls behind the cooldown.
CooldownPasses(t) ==
    /\ Queued(t)
    /\ queue[t].cooling
    /\ queue' = [queue EXCEPT ![t].cooling = FALSE]
    /\ UNCHANGED <<vectors, failed, batch, requests, lostDrains>>

-----------------------------------------------------------------------------

DrainTypeOK ==
    /\ queue \in [Targets -> Request]
    /\ vectors \subseteq Targets
    /\ failed \subseteq Targets
    /\ batch \in [Drainers -> Seq(Copy)]
    /\ requests \in Nat
    /\ lostDrains \in 0 .. MaxLostDrains

=============================================================================
