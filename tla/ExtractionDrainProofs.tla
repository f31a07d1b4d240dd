------------------------- MODULE ExtractionDrainProofs -------------------------
(***************************************************************************)
(* Proofs that the drain loses no turn silently, alone and together with   *)
(* the erasure of an actor, that an erasure that no worker overlapped      *)
(* leaves nothing of the actor behind, and that it leaves the chains of    *)
(* the claims it spares whole: for every set of sessions, strategies and   *)
(* workers and every bound.                                                *)
(* With the scheduled purge: what is left of the invariant, and that no    *)
(* tenant keeps another one out of a batch.                                *)
(***************************************************************************)
EXTENDS ActorErasure, FiniteSetTheorems, WellFoundedInduction, TLAPS

\* The fields of a queued row have their types.
LEMMA RowFields ==
  \A r \in Row : /\ r.key \in Key /\ r.oid \in Nat /\ r.from \in Nat /\ r.through \in Nat
                 /\ r.attempts \in Nat /\ r.waiting \in BOOLEAN
  BY DEF Row

\* The fields of a stored event have their types.
LEMMA EventFields ==
  \A e \in Event : /\ e.eid \in Nat /\ e.sess \in Sessions /\ e.seq \in Nat /\ e.live \in BOOLEAN
                   /\ \A st \in Strategies : <<e.sess, st>> \in Key
  BY DEF Event, Key

\* A key is its session and its strategy.
LEMMA KeyFields == \A k \in Key : k[1] \in Sessions /\ k[2] \in Strategies /\ k = <<k[1], k[2]>>
  BY DEF Key

\* What a worker's batch holds are rows.
LEMMA BatchRows ==
  ASSUME TypeOK, NEW w \in Workers
  PROVE  /\ \A i \in DOMAIN batch[w] : batch[w][i] \in Row
         /\ batch[w] # << >> => /\ CurrentRow(w) \in Row
                                /\ 1 \in DOMAIN batch[w] /\ CurrentRow(w) = batch[w][1]
                                /\ Tail(batch[w]) \in Seq(Row)
                                /\ \A i \in DOMAIN Tail(batch[w]) :
                                      i + 1 \in DOMAIN batch[w] /\ Tail(batch[w])[i] = batch[w][i + 1]
  BY DEF TypeOK, CurrentRow

LEMMA InitIInv == Init => IInv
  BY ConstantsAssumption
  DEF Init, IInv, TypeOK, QueuedWindowsAreSound, EventIdsAreSound, RowsAreSound, SnapshotIsSound,
      WorkerIsSound, ClaimsCiteOwnSession, NoTurnLost, Step

\* Steps that only invalidate events: delete_event and the retention sweep.
LEMMA InvalidateStep ==
  ASSUME IInv, NEW E \in SUBSET events, events' = Invalidated(E), changes' \in Nat,
         UNCHANGED <<born, queueVars, enabled, erasing, workerVars, provenance, historyVars, aborts>>
  PROVE  IInv'
<1> DEFINE Inv(e) == IF e \in E THEN [e EXCEPT !.live = FALSE] ELSE e
<1>a. \A e \in events : e \in Event
  BY DEF IInv, TypeOK
<1>b. \A e \in events : /\ Inv(e) \in Event
                        /\ Inv(e).eid = e.eid /\ Inv(e).sess = e.sess /\ Inv(e).seq = e.seq
                        /\ Inv(e).live => e.live
  BY <1>a DEF Event
<1>c. events' = {Inv(e) : e \in events}
  BY DEF Invalidated
<1> HIDE DEF Inv
<1>1. TypeOK'
  <2>1. events' \in SUBSET Event
    BY <1>b, <1>c
  <2> QED
    BY <2>1 DEF IInv, TypeOK, queueVars, workerVars, historyVars
<1>2. \A d \in events' : \E e \in events : /\ d.eid = e.eid /\ d.sess = e.sess /\ d.seq = e.seq
                                           /\ d.live => e.live
  BY <1>b, <1>c
<1>3. \A e \in events : \E d \in events' : d.sess = e.sess /\ d.seq = e.seq
  BY <1>b, <1>c
<1>4. QueuedWindowsAreSound' /\ ClaimsCiteOwnSession'
  BY DEF IInv, QueuedWindowsAreSound, ClaimsCiteOwnSession, queueVars
<1>5. EventIdsAreSound'
  BY <1>2 DEF IInv, EventIdsAreSound
<1>6. RowsAreSound'
  BY <1>3 DEF IInv, RowsAreSound, queueVars
<1>7. NoTurnLost'
  BY <1>2 DEF IInv, NoTurnLost, Covers, Handled, queueVars, historyVars
<1>8. ASSUME NEW w \in Workers, NEW i \in DOMAIN batch'[w] PROVE SnapshotIsSound(batch[w][i])'
  BY <1>2 DEF IInv, SnapshotIsSound, IsQueued, Handled, queueVars, historyVars, workerVars
<1>9. ASSUME NEW w \in Workers PROVE WorkerIsSound(w)'
  BY <1>2 DEF IInv, WorkerIsSound, IsQueued, CurrentRow, queueVars, historyVars, workerVars
<1> QED
  BY <1>1, <1>4, <1>5, <1>6, <1>7, <1>8, <1>9 DEF IInv


\* A configuration change touches no part of the invariant.
LEMMA SetEnabledStep ==
  ASSUME IInv, NEW t \in Tenants, NEW st \in Strategies, SetEnabled(t, st)
  PROVE  IInv'
<1>1. TypeOK'
  BY DEF IInv, TypeOK, SetEnabled, Change, queueVars, workerVars, historyVars
<1>2. /\ QueuedWindowsAreSound' /\ ClaimsCiteOwnSession' /\ EventIdsAreSound'
      /\ RowsAreSound' /\ NoTurnLost'
  BY DEF IInv, QueuedWindowsAreSound, ClaimsCiteOwnSession, EventIdsAreSound, RowsAreSound, NoTurnLost,
         Covers, Handled, SetEnabled, queueVars, historyVars
<1>3. ASSUME NEW w \in Workers, NEW i \in DOMAIN batch'[w] PROVE SnapshotIsSound(batch[w][i])'
  BY DEF IInv, SnapshotIsSound, IsQueued, Handled, SetEnabled, queueVars, historyVars, workerVars
<1>4. ASSUME NEW w \in Workers PROVE WorkerIsSound(w)'
  BY DEF IInv, WorkerIsSound, IsQueued, CurrentRow, SetEnabled, queueVars, workerVars
<1> QED
  BY <1>1, <1>2, <1>3, <1>4 DEF IInv

\* A row whose back-off ends keeps its window.
LEMMA BackoffStep ==
  ASSUME IInv, NEW k \in Key, BackoffElapses(k)
  PROVE  IInv'
<1>1. outbox[k] \in Row
  BY DEF IInv, TypeOK, BackoffElapses
<1>2. /\ outbox' \in [Key -> Row \cup {NoRow}]
      /\ \A j \in Key : /\ (outbox'[j] = NoRow) = (outbox[j] = NoRow)
                        /\ outbox[j] # NoRow => /\ outbox'[j].key = outbox[j].key
                                                /\ outbox'[j].oid = outbox[j].oid
                                                /\ outbox'[j].from = outbox[j].from
                                                /\ outbox'[j].through = outbox[j].through
                                                /\ outbox'[j].attempts = outbox[j].attempts
  BY <1>1, NoRowAssumption DEF IInv, TypeOK, BackoffElapses, Row
<1>3. TypeOK'
  BY <1>2 DEF IInv, TypeOK, BackoffElapses, workerVars, historyVars, boundVars
<1>4. /\ QueuedWindowsAreSound' /\ ClaimsCiteOwnSession' /\ EventIdsAreSound' /\ RowsAreSound'
  BY <1>2 DEF IInv, QueuedWindowsAreSound, ClaimsCiteOwnSession, EventIdsAreSound, RowsAreSound,
              BackoffElapses
<1>5. NoTurnLost'
  <2>1. \A e \in events, st \in Strategies : <<e.sess, st>> \in Key
    BY EventFields DEF IInv, TypeOK
  <2> SUFFICES ASSUME NEW e \in events, NEW st \in Strategies, e.live
               PROVE  Covers(outbox[<<e.sess, st>>], e)' \/ Handled(<<e.sess, st>>, e)'
    BY DEF NoTurnLost, BackoffElapses
  <2>2. Covers(outbox[<<e.sess, st>>], e) \/ Handled(<<e.sess, st>>, e)
    BY DEF IInv, NoTurnLost
  <2> QED
    BY <1>2, <2>1, <2>2 DEF Covers, Handled, BackoffElapses, historyVars
<1>6. ASSUME NEW r \in Row, SnapshotIsSound(r) PROVE SnapshotIsSound(r)'
  BY <1>2, <1>6, RowFields DEF SnapshotIsSound, IsQueued, Handled, BackoffElapses, historyVars
<1>7. ASSUME NEW w \in Workers PROVE WorkerIsSound(w)'
  <2>1. batch[w] # << >> => CurrentRow(w) \in Row
    BY BatchRows DEF IInv
  <2> QED
    BY <1>2, <2>1, RowFields DEF IInv, WorkerIsSound, IsQueued, CurrentRow, BackoffElapses, workerVars
<1>8. \A w \in Workers : \A i \in DOMAIN batch'[w] : SnapshotIsSound(batch[w][i])'
  BY <1>6, BatchRows DEF IInv, BackoffElapses, workerVars
<1> QED
  BY <1>3, <1>4, <1>5, <1>7, <1>8 DEF IInv

\* erase_actor_events takes a session's rows and dead letters, and of its events
\* those that its first statement saw; the others are accounted for as spared.
LEMMA EraseStep ==
  ASSUME IInv, NEW a \in Actors, EraseActorEvents(a), changes' \in Nat
  PROVE  IInv'
<1>1. /\ outbox' = [k \in Key |-> IF Actor[k[1]] = a THEN NoRow ELSE outbox[k]]
      /\ events' \subseteq events /\ \A e \in events : Actor[e.sess] # a => e \in events'
      /\ \A e \in events' : Actor[e.sess] = a => e.eid \in spared'
      /\ spared \subseteq spared' /\ extracted' = extracted /\ skipped' = skipped /\ born' = born
      /\ failed' \subseteq failed /\ \A f \in failed : Actor[f.key[1]] # a => f \in failed'
      /\ provenance' = provenance /\ UNCHANGED <<pc, batch, window, upto>>
  BY DEF EraseActorEvents, workerVars
<1>2. TypeOK'
  <2>1. spared' \in SUBSET Nat
    <3>1. \A e \in events' : e.eid \in Nat
      BY <1>1, EventFields DEF IInv, TypeOK
    <3>2. spared' = spared \cup {e.eid : e \in {d \in events' : Actor[d.sess] = a}}
      BY DEF EraseActorEvents
    <3>3. spared \in SUBSET Nat
      BY DEF IInv, TypeOK
    <3> QED
      BY <3>1, <3>2, <3>3
  <2>2. erasing' \in [Actors -> Nat] /\ enabled' = enabled /\ aborts' = aborts
    BY DEF IInv, TypeOK, EraseActorEvents
  <2> QED
    BY <1>1, <2>1, <2>2 DEF IInv, TypeOK
<1>3. /\ QueuedWindowsAreSound' /\ ClaimsCiteOwnSession' /\ EventIdsAreSound'
  BY <1>1 DEF IInv, QueuedWindowsAreSound, ClaimsCiteOwnSession, EventIdsAreSound
<1>4. RowsAreSound'
  BY <1>1 DEF IInv, RowsAreSound
<1>5. NoTurnLost'
  <2> SUFFICES ASSUME NEW e \in events', NEW st \in Strategies, e.live
               PROVE  Covers(outbox[<<e.sess, st>>], e)' \/ Handled(<<e.sess, st>>, e)'
    BY DEF NoTurnLost
  <2>1. e \in events /\ <<e.sess, st>> \in Key
    BY <1>1, EventFields DEF IInv, TypeOK
  <2>2. CASE Actor[e.sess] = a
    BY <1>1, <2>2 DEF Handled
  <2>3. CASE Actor[e.sess] # a
    <3>1. outbox'[<<e.sess, st>>] = outbox[<<e.sess, st>>]
      BY <1>1, <2>1, <2>3
    <3>2. \A f \in failed : f.key = <<e.sess, st>> => f \in failed'
      BY <1>1, <2>3
    <3> QED
      BY <1>1, <2>1, <3>1, <3>2 DEF IInv, NoTurnLost, Covers, Handled
  <2> QED
    BY <2>2, <2>3
<1>6. \A r \in Row : IsQueued(r)' => /\ IsQueued(r) /\ outbox'[r.key] = outbox[r.key]
                                     /\ Actor[r.key[1]] # a
  BY <1>1 DEF IsQueued, Row
<1>7. ASSUME NEW r \in Row, SnapshotIsSound(r) PROVE SnapshotIsSound(r)'
  <2>1. \A f \in failed : Actor[r.key[1]] # a /\ f.key = r.key => f \in failed'
    BY <1>1
  <2> QED
    BY <1>1, <1>6, <1>7, <2>1 DEF SnapshotIsSound, Handled
<1>8. ASSUME NEW w \in Workers PROVE WorkerIsSound(w)'
  <2>1. batch[w] # << >> => CurrentRow(w) \in Row
    BY BatchRows DEF IInv
  <2> QED
    BY <1>1, <1>6, <2>1 DEF IInv, WorkerIsSound, CurrentRow
<1>9. \A w \in Workers : \A i \in DOMAIN batch'[w] : SnapshotIsSound(batch[w][i])'
  BY <1>1, <1>7, BatchRows DEF IInv
<1> QED
  BY <1>2, <1>3, <1>4, <1>5, <1>8, <1>9 DEF IInv

\* What holds of the tables still holds after a step that writes none of them.
LEMMA TablesUnchanged ==
  ASSUME IInv, UNCHANGED <<events, born, queueVars, historyVars>>
  PROVE  /\ QueuedWindowsAreSound' /\ EventIdsAreSound' /\ RowsAreSound' /\ NoTurnLost'
         /\ \A r : SnapshotIsSound(r) => SnapshotIsSound(r)'
         /\ \A r : IsQueued(r)' <=> IsQueued(r)
<1>1. QueuedWindowsAreSound' /\ EventIdsAreSound' /\ RowsAreSound' /\ NoTurnLost'
  BY DEF IInv, QueuedWindowsAreSound, EventIdsAreSound, RowsAreSound, NoTurnLost, Covers, Handled,
         queueVars, historyVars
<1>2. \A r : IsQueued(r)' <=> IsQueued(r)
  BY DEF IsQueued, queueVars
<1>3. \A r : SnapshotIsSound(r) => SnapshotIsSound(r)'
  BY DEF SnapshotIsSound, IsQueued, Handled, queueVars, historyVars
<1> QED
  BY <1>1, <1>2, <1>3

\* A claimed batch is made of rows as they are now.
LEMMA ClaimStep ==
  ASSUME IInv, NEW w \in Workers, NEW locked, Claim(w, locked)
  PROVE  IInv'
<1>1. PICK ks \in BatchKeys(locked) :
         batch' = [batch EXCEPT ![w] = [i \in DOMAIN ks |-> outbox[ks[i]]]]
  BY DEF Claim
<1>2. PICK n \in 1 .. BatchSize : ks \in [1 .. n -> Eligible \ locked]
  BY DEF BatchKeys
<1>3. \A i \in 1 .. n : outbox[ks[i]] \in Row /\ SnapshotIsSound(outbox[ks[i]])
  <2> SUFFICES ASSUME NEW i \in 1 .. n
               PROVE  outbox[ks[i]] \in Row /\ SnapshotIsSound(outbox[ks[i]])
    OBVIOUS
  <2> DEFINE k == ks[i]
  <2>1. k \in Key /\ outbox[k] # NoRow
    BY <1>2 DEF Eligible
  <2>2. outbox[k] \in Row
    BY <2>1 DEF IInv, TypeOK
  <2>3. outbox[k].key = k
    BY <2>1 DEF IInv, QueuedWindowsAreSound
  <2>4. \A e \in events : (e.sess = k[1] /\ e.live /\ e.seq < outbox[k].from) => Handled(k, e)
    <3> SUFFICES ASSUME NEW e \in events, e.sess = k[1], e.live, e.seq < outbox[k].from
                 PROVE  Handled(k, e)
      OBVIOUS
    <3>1. k[2] \in Strategies /\ k = <<e.sess, k[2]>>
      BY <2>1, KeyFields
    <3>2. ~ Covers(outbox[k], e)
      BY <2>2, RowFields, EventFields DEF Covers, IInv, TypeOK
    <3> QED
      BY <3>1, <3>2 DEF IInv, NoTurnLost
  <2>5. SnapshotIsSound(outbox[k])
    BY <2>1, <2>2, <2>3, <2>4, RowFields
    DEF SnapshotIsSound, IsQueued, IInv, QueuedWindowsAreSound, RowsAreSound
  <2> QED
    BY <2>2, <2>5
<1>4. [i \in DOMAIN ks |-> outbox[ks[i]]] \in Seq(Row)
  BY <1>2, <1>3, ConstantsAssumption
<1>5. TypeOK'
  BY <1>1, <1>4 DEF IInv, TypeOK, Claim, Step, queueVars, historyVars, boundVars
<1>6. ClaimsCiteOwnSession'
  BY DEF IInv, ClaimsCiteOwnSession, Claim
<1>7. UNCHANGED <<events, born, queueVars, historyVars>>
  BY DEF Claim
<1>8. \A v \in Workers : \A i \in DOMAIN batch'[v] : SnapshotIsSound(batch'[v][i])
  BY <1>1, <1>2, <1>3 DEF IInv, TypeOK
<1>9. \A v \in Workers : \A i \in DOMAIN batch'[v] : SnapshotIsSound(batch[v][i])'
  BY <1>7, <1>8, TablesUnchanged
<1>10. ASSUME NEW v \in Workers PROVE WorkerIsSound(v)'
  <2>1. CASE v = w
    BY <2>1 DEF IInv, TypeOK, WorkerIsSound, Claim
  <2>2. CASE v # w
    <3>1. /\ pc'[v] = pc[v] /\ batch'[v] = batch[v] /\ window'[v] = window[v] /\ upto'[v] = upto[v]
      BY <1>1, <2>2 DEF IInv, TypeOK, Claim
    <3> QED
      BY <1>7, <3>1, TablesUnchanged DEF IInv, WorkerIsSound, CurrentRow
  <2> QED
    BY <2>1, <2>2
<1> QED
  BY <1>5, <1>6, <1>7, <1>9, <1>10, TablesUnchanged DEF IInv

\* Reading the configuration, calling the provider and aborting only move the
\* worker.
LEMMA NextRowStep ==
  ASSUME IInv, NEW w \in Workers, NextRow(w)
  PROVE  IInv'
<1>1. UNCHANGED <<events, born, queueVars, historyVars>> /\ batch' = batch /\ window' = window
  BY DEF NextRow
<1>2. /\ pc'[w] \in {"idle", "dead", "load", "skip"}
      /\ pc'[w] # "idle" => batch[w] # << >> /\ upto'[w] = CurrentRow(w).through
  BY DEF NextRow, IInv, TypeOK
<1>3. TypeOK'
  <2>1. upto'[w] \in Nat
    BY BatchRows, RowFields DEF IInv, TypeOK, NextRow
  <2> QED
    BY <1>1, <1>2, <2>1 DEF IInv, TypeOK, NextRow, Step, queueVars, historyVars, boundVars
<1>4. ClaimsCiteOwnSession'
  BY DEF IInv, ClaimsCiteOwnSession, NextRow
<1>5. ASSUME NEW v \in Workers PROVE WorkerIsSound(v)'
  <2>1. CASE v = w
    <3>1. window[w] = {}
      BY DEF IInv, WorkerIsSound, NextRow
    <3>2. batch[w] # << >> => CurrentRow(w).through \in Nat
      BY BatchRows, RowFields DEF IInv
    <3> QED
      BY <1>1, <1>2, <2>1, <3>1, <3>2 DEF WorkerIsSound, CurrentRow
  <2>2. CASE v # w
    <3>1. pc'[v] = pc[v] /\ upto'[v] = upto[v]
      BY <2>2 DEF IInv, TypeOK, NextRow
    <3> QED
      BY <1>1, <3>1, TablesUnchanged DEF IInv, WorkerIsSound, CurrentRow
  <2> QED
    BY <2>1, <2>2
<1> QED
  BY <1>1, <1>3, <1>4, <1>5, TablesUnchanged DEF IInv

LEMMA ExtractStep ==
  ASSUME IInv, NEW w \in Workers, Extract(w)
  PROVE  IInv'
<1>1. /\ UNCHANGED <<events, born, queueVars, historyVars>>
      /\ batch' = batch /\ window' = window /\ upto' = upto
  BY DEF Extract
<1>2. pc[w] = "call" /\ pc'[w] \in {"stage", "retry", "dead"}
  BY DEF Extract, IInv, TypeOK
<1>3. TypeOK'
  BY <1>1, <1>2 DEF IInv, TypeOK, Extract, Step, queueVars, historyVars, boundVars
<1>4. ClaimsCiteOwnSession'
  BY DEF IInv, ClaimsCiteOwnSession, Extract
<1>5. ASSUME NEW v \in Workers PROVE WorkerIsSound(v)'
  <2>1. CASE v = w
    BY <1>1, <1>2, <2>1, TablesUnchanged DEF IInv, WorkerIsSound, CurrentRow
  <2>2. CASE v # w
    <3>1. pc'[v] = pc[v]
      BY <2>2 DEF IInv, TypeOK, Extract
    <3> QED
      BY <1>1, <3>1, TablesUnchanged DEF IInv, WorkerIsSound, CurrentRow
  <2> QED
    BY <2>1, <2>2
<1> QED
  BY <1>1, <1>3, <1>4, <1>5, TablesUnchanged DEF IInv

LEMMA AbortStep ==
  ASSUME IInv, NEW w \in Workers, Abort(w)
  PROVE  IInv'
<1>1. UNCHANGED <<events, born, queueVars, historyVars>>
  BY DEF Abort
<1>2. /\ pc'[w] = "idle" /\ batch'[w] = << >> /\ window'[w] = {}
      /\ \A v \in Workers \ {w} : /\ pc'[v] = pc[v] /\ batch'[v] = batch[v]
                                  /\ window'[v] = window[v] /\ upto'[v] = upto[v]
  BY DEF Abort, IInv, TypeOK
<1>3. TypeOK'
  BY <1>1 DEF IInv, TypeOK, Abort, Step, queueVars, historyVars
<1>4. ClaimsCiteOwnSession'
  BY DEF IInv, ClaimsCiteOwnSession, Abort
<1>5. ASSUME NEW v \in Workers PROVE WorkerIsSound(v)'
  BY <1>1, <1>2, TablesUnchanged DEF IInv, WorkerIsSound, CurrentRow
<1>6. \A v \in Workers : \A i \in DOMAIN batch'[v] : SnapshotIsSound(batch[v][i])'
  BY <1>1, <1>2, TablesUnchanged DEF IInv
<1> QED
  BY <1>1, <1>3, <1>4, <1>5, <1>6, TablesUnchanged DEF IInv

\* The loaded window holds every live turn up to the one it ends with.
LEMMA LoadWindowStep ==
  ASSUME IInv, NEW w \in Workers, LoadWindow(w)
  PROVE  IInv'
<1> DEFINE r == CurrentRow(w)
           E == LiveInWindow(r)
<1>1. /\ UNCHANGED <<events, born, queueVars, historyVars>> /\ batch' = batch
      /\ pc[w] = "load" /\ batch[w] # << >>
  BY DEF LoadWindow, IInv, WorkerIsSound
<1>2. r \in Row /\ r.key \in Key /\ r.from \in Nat /\ r.through \in Nat
  BY <1>1, BatchRows, RowFields DEF IInv
<1>3. \A e \in events : e \in Event /\ e.seq \in Nat /\ e.eid \in DOMAIN born /\ born[e.eid] = e.sess
  BY EventFields DEF IInv, TypeOK, EventIdsAreSound
<1>4. ClaimsCiteOwnSession'
  BY DEF IInv, ClaimsCiteOwnSession, LoadWindow
<1>5. CASE E = {} /\ pc' = [pc EXCEPT ![w] = "empty"] /\ UNCHANGED <<window, upto>>
  <2>1. TypeOK'
    BY <1>1, <1>5 DEF IInv, TypeOK, LoadWindow, Step, queueVars, historyVars, boundVars
  <2>2. ASSUME NEW v \in Workers PROVE WorkerIsSound(v)'
    <3>1. CASE v = w
      <4>1. \A e \in events : ~ (e.sess = r.key[1] /\ e.live /\ r.from <= e.seq /\ e.seq <= r.through)
        BY <1>5 DEF LiveInWindow, EventsOf
      <4>2. upto[w] <= r.through /\ upto[w] \in Nat
        BY <1>1 DEF IInv, WorkerIsSound, TypeOK
      <4>3. \A e \in events : ~ (e.sess = r.key[1] /\ e.live /\ r.from <= e.seq /\ e.seq <= upto[w])
        BY <4>1, <4>2, <1>2, <1>3
      <4> QED
        BY <1>1, <1>5, <3>1, <4>3, TablesUnchanged DEF IInv, TypeOK, WorkerIsSound, CurrentRow
    <3>2. CASE v # w
      <4>1. pc'[v] = pc[v]
        BY <1>5, <3>2 DEF IInv, TypeOK
      <4> QED
        BY <1>1, <1>5, <4>1, TablesUnchanged DEF IInv, WorkerIsSound, CurrentRow
    <3> QED
      BY <3>1, <3>2
  <2> QED
    BY <1>1, <1>4, <2>1, <2>2, TablesUnchanged DEF IInv
<1>6. ASSUME NEW W \in SUBSET E, IsFirstOf(W, E), window' = [window EXCEPT ![w] = W],
             NEW last \in W, \A e \in W : e.seq <= last.seq, upto' = [upto EXCEPT ![w] = last.seq],
             pc' = [pc EXCEPT ![w] = "call"]
      PROVE  IInv'
  <2>1. E \subseteq events /\ last \in events
    BY <1>6 DEF LiveInWindow, EventsOf
  <2>2. TypeOK'
    BY <1>1, <1>3, <1>6, <2>1 DEF IInv, TypeOK, LoadWindow, Step, queueVars, historyVars, boundVars
  <2>3. ASSUME NEW v \in Workers PROVE WorkerIsSound(v)'
    <3>1. CASE v = w
      <4>1. last.seq <= r.through
        BY <1>6 DEF LiveInWindow
      <4>2. \A x \in W : x.eid \in DOMAIN born /\ born[x.eid] = r.key[1]
        BY <1>3, <2>1 DEF LiveInWindow, EventsOf
      <4>3. ASSUME NEW e \in events, e.sess = r.key[1], e.live, r.from <= e.seq, e.seq <= last.seq
            PROVE  e \in W
        <5>1. e \in E
          BY <1>2, <1>3, <2>1, <4>1, <4>3 DEF LiveInWindow, EventsOf
        <5>2. e \notin W => last.seq < e.seq
          BY <1>6, <5>1 DEF IsFirstOf
        <5> QED
          BY <1>3, <2>1, <4>3, <5>2
      <4>4. pc'[w] = "call" /\ window'[w] = W /\ upto'[w] = last.seq
        BY <1>6 DEF IInv, TypeOK
      <4> QED
        BY <1>1, <3>1, <4>1, <4>2, <4>3, <4>4 DEF WorkerIsSound, CurrentRow
    <3>2. CASE v # w
      <4>1. pc'[v] = pc[v] /\ window'[v] = window[v] /\ upto'[v] = upto[v]
        BY <1>6, <3>2 DEF IInv, TypeOK
      <4> QED
        BY <1>1, <4>1, TablesUnchanged DEF IInv, WorkerIsSound, CurrentRow
    <3> QED
      BY <3>1, <3>2
  <2> QED
    BY <1>1, <1>4, <2>2, <2>3, TablesUnchanged DEF IInv
<1> QED
  BY <1>5, <1>6 DEF LoadWindow

\* A staged claim cites an event of the window, which is of the session.
LEMMA StageClaimStep ==
  ASSUME IInv, NEW w \in Workers, NEW eid \in DOMAIN born, StageClaim(w, eid)
  PROVE  IInv'
<1>1. /\ UNCHANGED <<events, born, queueVars, historyVars>> /\ UNCHANGED <<pc, batch, window, upto>>
      /\ pc[w] = "stage" /\ batch[w] # << >>
  BY DEF StageClaim, IInv, WorkerIsSound, workerVars
<1>2. CurrentRow(w).key \in Key
  BY <1>1, BatchRows, RowFields DEF IInv
<1>3. TypeOK'
  <2>1. eid \in Nat
    BY DEF IInv, TypeOK
  <2> QED
    BY <1>1, <1>2, <2>1 DEF IInv, TypeOK, StageClaim, queueVars, historyVars, boundVars
<1>4. born[eid] = CurrentRow(w).key[1]
  BY <1>1 DEF StageClaim, EvidenceCited, IInv, WorkerIsSound
<1>5. ClaimsCiteOwnSession'
  BY <1>1, <1>4 DEF IInv, ClaimsCiteOwnSession, StageClaim
<1>6. \A v \in Workers : WorkerIsSound(v)'
  BY <1>1, TablesUnchanged DEF IInv, WorkerIsSound, CurrentRow
<1> QED
  BY <1>1, <1>3, <1>5, <1>6, TablesUnchanged DEF IInv

\* A new event lies beyond every queued window and every snapshot of one, and
\* the upsert widens the windows of its session to it.
LEMMA RecordEventStep ==
  ASSUME IInv, NEW s \in Sessions, RecordEvent(s)
  PROVE  IInv'
<1> DEFINE eid == Len(born) + 1
<1>1. PICK q \in 1 .. MaxEvents + 1 :
        /\ IsNextSeq(s, q)
        /\ events' = events \cup {[eid |-> eid, sess |-> s, seq |-> q, live |-> TRUE]}
        /\ outbox' = [k \in Key |-> IF k[1] = s THEN EnqueueExtraction(k, q, eid) ELSE outbox[k]]
  BY DEF RecordEvent
<1> DEFINE new == [eid |-> eid, sess |-> s, seq |-> q, live |-> TRUE]
<1>2. /\ born' = Append(born, s) /\ born \in Seq(Sessions) /\ Len(born) \in Nat /\ q \in Nat
      /\ eid \in Nat /\ UNCHANGED <<failed, enabled, erasing, spared, pc, batch, window, upto, provenance, extracted,
                                    skipped, changes, aborts>>
  BY ConstantsAssumption DEF IInv, TypeOK, RecordEvent, workerVars, historyVars, boundVars
<1>3. /\ born' \in Seq(Sessions) /\ Len(born') = eid /\ DOMAIN born' = 1 .. eid /\ born'[eid] = s
      /\ DOMAIN born = 1 .. Len(born) /\ \A n \in DOMAIN born : n \in DOMAIN born' /\ born'[n] = born[n]
  BY <1>2
<1>4. \A e \in events : e.sess = s => e.seq < q
  BY <1>1 DEF IsNextSeq, EventsOf
<1>5. \A k \in Key : outbox[k] # NoRow /\ k[1] = s => outbox[k] \in Row /\ outbox[k].through < q
  <2> SUFFICES ASSUME NEW k \in Key, outbox[k] # NoRow, k[1] = s
               PROVE  outbox[k] \in Row /\ outbox[k].through < q
    OBVIOUS
  <2>1. outbox[k] \in Row
    BY DEF IInv, TypeOK
  <2>2. PICK e \in events : e.sess = s /\ outbox[k].through <= e.seq
    BY DEF IInv, RowsAreSound
  <2> QED
    BY <1>2, <1>4, <2>1, <2>2, RowFields, EventFields DEF IInv, TypeOK
<1>6. \A k \in Key : outbox[k] # NoRow =>
        /\ outbox'[k] \in Row /\ outbox'[k] # NoRow
        /\ outbox'[k].key = outbox[k].key /\ outbox'[k].oid = outbox[k].oid
        /\ outbox'[k].from = outbox[k].from /\ outbox'[k].attempts = outbox[k].attempts
        /\ outbox'[k].through = IF k[1] = s THEN q ELSE outbox[k].through
  <2> SUFFICES ASSUME NEW k \in Key, outbox[k] # NoRow
               PROVE  /\ outbox'[k] \in Row /\ outbox'[k] # NoRow
                      /\ outbox'[k].key = outbox[k].key /\ outbox'[k].oid = outbox[k].oid
                      /\ outbox'[k].from = outbox[k].from /\ outbox'[k].attempts = outbox[k].attempts
                      /\ outbox'[k].through = IF k[1] = s THEN q ELSE outbox[k].through
    OBVIOUS
  <2>1. outbox[k] \in Row
    BY DEF IInv, TypeOK
  <2>2. CASE k[1] = s
    <3>1. outbox'[k] = [outbox[k] EXCEPT !.through = IF @ < q THEN q ELSE @, !.waiting = FALSE]
      BY <1>1, <2>2 DEF EnqueueExtraction
    <3>2. outbox'[k] = [outbox[k] EXCEPT !.through = q, !.waiting = FALSE]
      BY <1>5, <2>2, <3>1
    <3>3. /\ outbox'[k] \in Row /\ outbox'[k].key = outbox[k].key /\ outbox'[k].oid = outbox[k].oid
          /\ outbox'[k].from = outbox[k].from /\ outbox'[k].attempts = outbox[k].attempts
          /\ outbox'[k].through = q
      BY <1>2, <2>1, <3>2 DEF Row
    <3> QED
      BY <2>2, <3>3, NoRowAssumption
  <2>3. CASE k[1] # s
    BY <1>1, <2>1, <2>3
  <2> QED
    BY <2>2, <2>3
<1>7. \A k \in Key : outbox[k] = NoRow =>
        IF k[1] = s
        THEN /\ outbox'[k] \in Row /\ outbox'[k] # NoRow /\ outbox'[k].key = k /\ outbox'[k].oid = eid
             /\ outbox'[k].from = q /\ outbox'[k].through = q /\ outbox'[k].attempts = 0
        ELSE outbox'[k] = NoRow
  <2> SUFFICES ASSUME NEW k \in Key, outbox[k] = NoRow
               PROVE  IF k[1] = s
                      THEN /\ outbox'[k] \in Row /\ outbox'[k] # NoRow /\ outbox'[k].key = k
                           /\ outbox'[k].oid = eid /\ outbox'[k].from = q
                           /\ outbox'[k].through = q /\ outbox'[k].attempts = 0
                      ELSE outbox'[k] = NoRow
    OBVIOUS
  <2>1. CASE k[1] # s
    BY <1>1, <2>1
  <2>2. CASE k[1] = s
    <3>1. outbox'[k] = [key |-> k, oid |-> eid, from |-> q, through |-> q, attempts |-> 0,
                        waiting |-> FALSE]
      BY <1>1, <2>2 DEF EnqueueExtraction
    <3>2. outbox'[k] \in Row
      BY <1>2, <3>1 DEF Row
    <3>3. /\ outbox'[k].key = k /\ outbox'[k].oid = eid /\ outbox'[k].from = q
          /\ outbox'[k].through = q /\ outbox'[k].attempts = 0
      BY <3>1
    <3>4. outbox'[k] # NoRow
      BY <3>2, NoRowAssumption
    <3> QED
      BY <2>2, <3>2, <3>3, <3>4
  <2> QED
    BY <2>1, <2>2
<1>8. TypeOK'
  <2>0. \A k \in Key : outbox'[k] \in Row \cup {NoRow}
    BY <1>6, <1>7
  <2>1. outbox' \in [Key -> Row \cup {NoRow}]
    <3> DEFINE row(k) == IF k[1] = s THEN EnqueueExtraction(k, q, eid) ELSE outbox[k]
    <3>1. outbox' = [k \in Key |-> row(k)]
      BY <1>1
    <3> HIDE DEF row
    <3>2. \A k \in Key : row(k) \in Row \cup {NoRow}
      BY <2>0, <3>1
    <3> QED
      BY <3>1, <3>2
  <2>2. events' \in SUBSET Event
    <3>1. new \in Event
      BY <1>2 DEF Event
    <3>2. events' = events \cup {new}
      BY <1>1
    <3> QED
      BY <3>1, <3>2 DEF IInv, TypeOK
  <2> QED
    BY <1>2, <1>3, <2>1, <2>2 DEF IInv, TypeOK
<1>9. QueuedWindowsAreSound'
  <2> SUFFICES ASSUME NEW k \in Key, outbox'[k] # NoRow
               PROVE  /\ outbox'[k].key = k /\ outbox'[k].from <= outbox'[k].through
                      /\ outbox'[k].attempts < MaxAttempts
    BY DEF QueuedWindowsAreSound
  <2>1. CASE outbox[k] = NoRow
    <3>1. outbox'[k].key = k /\ outbox'[k].from = q /\ outbox'[k].through = q /\ outbox'[k].attempts = 0
      BY <1>7, <2>1
    <3> QED
      BY <1>2, <3>1, ConstantsAssumption
  <2>2. CASE outbox[k] # NoRow
    <3>1. outbox[k] \in Row /\ outbox[k].from \in Nat /\ outbox[k].through \in Nat
      BY <2>2, RowFields DEF IInv, TypeOK
    <3>2. /\ outbox[k].key = k /\ outbox[k].from <= outbox[k].through
          /\ outbox[k].attempts < MaxAttempts
      BY <2>2 DEF IInv, QueuedWindowsAreSound
    <3>3. k[1] = s => outbox[k].through < q
      BY <1>5, <2>2
    <3> QED
      BY <1>2, <1>6, <2>2, <3>1, <3>2, <3>3
  <2> QED
    BY <2>1, <2>2
<1>10. EventIdsAreSound'
  BY <1>1, <1>3, <1>2 DEF IInv, EventIdsAreSound
<1>11. RowsAreSound'
  <2> SUFFICES ASSUME NEW k \in Key, outbox'[k] # NoRow
               PROVE  /\ outbox'[k].oid <= Len(born')
                      /\ \E e \in events' : e.sess = k[1] /\ outbox'[k].through <= e.seq
    BY DEF RowsAreSound
  <2>1. CASE outbox[k] = NoRow
    <3>1. outbox'[k].oid = eid /\ outbox'[k].through = q /\ k[1] = s
      BY <1>7, <2>1
    <3>2. new \in events' /\ new.sess = s /\ new.seq = q
      BY <1>1
    <3> QED
      BY <1>2, <1>3, <3>1, <3>2
  <2>2. CASE outbox[k] # NoRow
    <3>1. outbox[k].oid <= Len(born) /\ outbox[k].oid \in Nat
      BY <2>2, RowFields DEF IInv, TypeOK, RowsAreSound
    <3>2. \E e \in events' : e.sess = k[1] /\ outbox'[k].through <= e.seq
      <4>1. new \in events' /\ new.sess = s /\ new.seq = q /\ events \subseteq events'
        BY <1>1
      <4>2. CASE k[1] = s
        <5>1. outbox'[k].through = q
          BY <1>6, <2>2, <4>2
        <5> QED
          BY <1>2, <4>1, <4>2, <5>1
      <4>3. CASE k[1] # s
        <5>1. outbox'[k].through = outbox[k].through
          BY <1>6, <2>2, <4>3
        <5> QED
          BY <2>2, <4>1, <5>1 DEF IInv, RowsAreSound
      <4> QED
        BY <4>2, <4>3
    <3> QED
      BY <1>2, <1>3, <1>6, <2>2, <3>1, <3>2
  <2> QED
    BY <2>1, <2>2
<1>12. ClaimsCiteOwnSession'
  BY <1>2, <1>3 DEF IInv, ClaimsCiteOwnSession
<1>13. NoTurnLost'
  <2> SUFFICES ASSUME NEW e \in events', NEW st \in Strategies, e.live
               PROVE  Covers(outbox[<<e.sess, st>>], e)' \/ Handled(<<e.sess, st>>, e)'
    BY DEF NoTurnLost
  <2> DEFINE k == <<e.sess, st>>
  <2>1. k \in Key /\ k[1] = e.sess /\ e.seq \in Nat
    BY <1>8, EventFields DEF TypeOK
  <2>2. CASE e = new
    <3>1. e.sess = s /\ e.seq = q
      BY <2>2
    <3>2. CASE outbox[k] = NoRow
      BY <1>2, <1>7, <2>1, <3>1, <3>2 DEF Covers
    <3>3. CASE outbox[k] # NoRow
      <4>1. outbox[k].from <= outbox[k].through /\ outbox[k].through < q
        BY <1>5, <2>1, <3>1, <3>3 DEF IInv, QueuedWindowsAreSound
      <4>2. outbox[k].from \in Nat /\ outbox[k].through \in Nat
        BY <1>5, <2>1, <3>1, <3>3, RowFields
      <4> QED
        BY <1>2, <1>6, <2>1, <3>1, <3>3, <4>1, <4>2 DEF Covers
    <3> QED
      BY <3>2, <3>3
  <2>3. CASE e \in events
    <3>1. Covers(outbox[k], e) \/ Handled(k, e)
      BY <2>3 DEF IInv, NoTurnLost
    <3>2. Handled(k, e) => Handled(k, e)'
      BY <1>2 DEF Handled
    <3>3. Covers(outbox[k], e) => Covers(outbox[k], e)'
      <4>1. outbox[k] # NoRow => outbox[k].through \in Nat /\ outbox[k] \in Row
        BY <2>1, RowFields DEF IInv, TypeOK
      <4>2. e.sess = s => e.seq < q
        BY <1>4, <2>3
      <4> QED
        BY <1>2, <1>6, <2>1, <4>1, <4>2 DEF Covers
    <3> QED
      BY <3>1, <3>2, <3>3
  <2> QED
    BY <1>1, <2>2, <2>3
<1>14. ASSUME NEW r \in Row, r.oid <= Len(born), IsQueued(r)'
       PROVE  IsQueued(r) /\ outbox[r.key] \in Row /\ outbox[r.key].through <= outbox'[r.key].through
              /\ (r.key[1] = s => outbox[r.key].through < q)
  <2>1. r.key \in Key /\ r.oid \in Nat
    BY RowFields
  <2>2. outbox[r.key] # NoRow
    BY <1>2, <1>7, <1>14, <2>1 DEF IsQueued
  <2>3. outbox[r.key] \in Row /\ outbox[r.key].through \in Nat
    BY <2>1, <2>2, RowFields DEF IInv, TypeOK
  <2> QED
    BY <1>2, <1>5, <1>6, <1>14, <2>1, <2>2, <2>3 DEF IsQueued
<1>15. ASSUME NEW r \in Row, SnapshotIsSound(r) PROVE SnapshotIsSound(r)'
  <2>1. /\ r.oid \in Nat /\ r.from \in Nat /\ r.through \in Nat /\ r.key \in Key
        /\ r.oid <= Len(born) /\ r.from <= r.through /\ r.attempts < MaxAttempts
    BY <1>15, RowFields DEF SnapshotIsSound
  <2>2. r.oid <= Len(born')
    BY <1>2, <1>3, <2>1
  <2>3. ASSUME IsQueued(r)'
        PROVE  /\ r.through <= outbox'[r.key].through
               /\ \A e \in events' : (e.sess = r.key[1] /\ e.live /\ e.seq < r.from) => Handled(r.key, e)'
    <3>1. /\ IsQueued(r) /\ outbox[r.key].through \in Nat /\ outbox'[r.key].through \in Nat
          /\ outbox[r.key].through <= outbox'[r.key].through
          /\ (r.key[1] = s => outbox[r.key].through < q)
      BY <1>14, <1>6, <2>1, <2>3, RowFields DEF IsQueued
    <3>2. r.through <= outbox[r.key].through
      BY <1>15, <3>1 DEF SnapshotIsSound
    <3>3. ASSUME NEW e \in events', e.sess = r.key[1], e.live, e.seq < r.from
          PROVE  Handled(r.key, e)'
      <4>1. e # new
        BY <1>2, <2>1, <3>1, <3>2, <3>3
      <4>2. e \in events
        BY <1>1, <4>1
      <4>3. Handled(r.key, e)
        BY <1>15, <3>1, <3>3, <4>2 DEF SnapshotIsSound
      <4> QED
        BY <1>2, <4>3 DEF Handled
    <3> QED
      BY <2>1, <3>1, <3>2, <3>3
  <2> QED
    BY <2>1, <2>2, <2>3 DEF SnapshotIsSound
<1>16. \A w \in Workers : \A i \in DOMAIN batch'[w] : SnapshotIsSound(batch[w][i])'
  BY <1>2, <1>15, BatchRows DEF IInv
<1>17. ASSUME NEW w \in Workers PROVE WorkerIsSound(w)'
  <2>1. CASE pc[w] \in {"idle", "next"}
    BY <1>2, <2>1 DEF IInv, WorkerIsSound
  <2>2. CASE pc[w] \notin {"idle", "next"}
    <3> DEFINE r == CurrentRow(w)
    <3>1. /\ r \in Row /\ batch[w] # << >> /\ r.oid <= Len(born)
          /\ r.through \in Nat /\ r.key \in Key /\ upto[w] \in Nat /\ upto[w] <= r.through
      BY <2>2, BatchRows, RowFields DEF IInv, TypeOK, WorkerIsSound, SnapshotIsSound
    <3>2. IsQueued(r)' => IsQueued(r) /\ (r.key[1] = s => r.through < q)
      <4>1. r' = r
        BY <1>2 DEF CurrentRow
      <4>2. IsQueued(r)' => IsQueued(r) /\ outbox[r.key] \in Row /\ (r.key[1] = s => outbox[r.key].through < q)
        BY <1>14, <3>1, <4>1 DEF IsQueued
      <4>3. IsQueued(r) => r.through <= outbox[r.key].through
        BY <3>1, BatchRows DEF IInv, SnapshotIsSound
      <4> QED
        BY <1>2, <3>1, <4>2, <4>3, RowFields
    <3>3. ASSUME NEW e \in events', IsQueued(r)', e.sess = r.key[1], e.live, e.seq <= upto[w]
          PROVE  e \in events
      BY <1>1, <1>2, <3>1, <3>2, <3>3
    <3>4. \A x \in window[w] : x.eid \in DOMAIN born /\ born[x.eid] = r.key[1]
      BY <2>2 DEF IInv, WorkerIsSound
    <3>5. \A x \in window'[w] : x.eid \in DOMAIN born' /\ born'[x.eid] = r.key[1]
      BY <1>2, <1>3, <3>4
    <3>6. /\ batch'[w] # << >> /\ upto'[w] <= r.through /\ (pc'[w] = "skip" => upto'[w] = r.through)
      BY <1>2, <2>2 DEF IInv, WorkerIsSound
    <3>7. IsQueued(r)' => \A e \in events' :
            (e.sess = r.key[1] /\ e.live /\ r.from <= e.seq /\ e.seq <= upto[w]) =>
                    /\ pc[w] # "empty"
                    /\ pc[w] \in {"call", "stage"} => \E x \in window[w] : x.eid = e.eid
      BY <2>2, <3>2, <3>3 DEF IInv, WorkerIsSound
    <3>8. r' = r
      BY <1>2 DEF CurrentRow
    <3> QED
      BY <1>2, <2>2, <3>5, <3>6, <3>7, <3>8 DEF WorkerIsSound
  <2> QED
    BY <2>1, <2>2
<1> QED
  BY <1>8, <1>9, <1>10, <1>11, <1>12, <1>13, <1>16, <1>17 DEF IInv

\* The three ways a worker ends a row differ in what becomes of that row; all
\* leave its identifier and its end alone or delete it, and only add failures.
LEMMA FinishRowStep ==
  ASSUME IInv, NEW w \in Workers, pc[w] \notin {"idle", "next"}, FinishRow(w),
         UNCHANGED <<events, born, enabled, erasing, provenance, spared, boundVars>>,
         NEW row \in Row \cup {NoRow}, outbox' = [outbox EXCEPT ![CurrentRow(w).key] = row],
         row # NoRow => /\ outbox[CurrentRow(w).key] # NoRow
                        /\ row.key = CurrentRow(w).key /\ row.oid = outbox[CurrentRow(w).key].oid
                        /\ row.through = outbox[CurrentRow(w).key].through
                        /\ row.from <= row.through /\ row.attempts < MaxAttempts,
         failed \subseteq failed', failed' \in SUBSET FailedRow,
         extracted \subseteq extracted', extracted' \in SUBSET (Key \X Nat),
         skipped \subseteq skipped', skipped' \in SUBSET (Key \X Nat),
         NoTurnLost'
  PROVE  IInv'
<1> DEFINE key == CurrentRow(w).key
<1>1. /\ batch[w] # << >> /\ CurrentRow(w) \in Row /\ key \in Key
      /\ Tail(batch[w]) \in Seq(Row)
      /\ \A i \in DOMAIN Tail(batch[w]) :
            i + 1 \in DOMAIN batch[w] /\ Tail(batch[w])[i] = batch[w][i + 1]
  <2>1. batch[w] # << >>
    BY DEF IInv, WorkerIsSound
  <2> QED
    BY <2>1, BatchRows, RowFields DEF IInv
<1>2. outbox \in [Key -> Row \cup {NoRow}] /\ events' = events /\ born' = born
  BY DEF IInv, TypeOK
<1> HIDE DEF key
<1>3. outbox' = [outbox EXCEPT ![key] = row]
  BY DEF key
<1>4. \A k \in Key : outbox'[k] = IF k = key THEN row ELSE outbox[k]
  BY <1>1, <1>2, <1>3
<1>5. \A k \in Key : outbox'[k] # NoRow =>
        /\ outbox[k] # NoRow /\ outbox'[k].oid = outbox[k].oid
        /\ outbox'[k].through = outbox[k].through
  BY <1>4 DEF key
<1>6. TypeOK'
  <2>1. outbox' \in [Key -> Row \cup {NoRow}]
    BY <1>1, <1>2, <1>3
  <2>2. /\ pc' \in [Workers -> Step] /\ batch' \in [Workers -> Seq(Row)]
        /\ window' \in [Workers -> SUBSET Event] /\ upto' \in [Workers -> Nat]
    BY <1>1 DEF IInv, TypeOK, FinishRow, Step
  <2> QED
    BY <2>1, <2>2 DEF IInv, TypeOK, boundVars
<1>7. QueuedWindowsAreSound'
  BY <1>4 DEF IInv, QueuedWindowsAreSound, key
<1>8. EventIdsAreSound' /\ ClaimsCiteOwnSession'
  BY DEF IInv, EventIdsAreSound, ClaimsCiteOwnSession
<1>9. RowsAreSound'
  BY <1>2, <1>5 DEF IInv, RowsAreSound
<1>10. ASSUME NEW r \in Row PROVE IsQueued(r)' => IsQueued(r)
  BY <1>5, RowFields DEF IsQueued
<1>11. ASSUME NEW r \in Row, SnapshotIsSound(r) PROVE SnapshotIsSound(r)'
  <2>1. r.key \in Key
    BY RowFields
  <2>2. \A e : Handled(r.key, e) => Handled(r.key, e)'
    BY DEF Handled
  <2>3. IsQueued(r)' => outbox'[r.key].through = outbox[r.key].through
    BY <1>5, <2>1 DEF IsQueued
  <2> QED
    BY <1>2, <1>10, <1>11, <2>1, <2>2, <2>3 DEF SnapshotIsSound
<1>12. /\ pc'[w] = "next" /\ batch'[w] = Tail(batch[w]) /\ window'[w] = {}
       /\ \A v \in Workers \ {w} : /\ pc'[v] = pc[v] /\ batch'[v] = batch[v]
                                   /\ window'[v] = window[v] /\ upto'[v] = upto[v]
  BY DEF FinishRow, IInv, TypeOK
<1>13. ASSUME NEW v \in Workers, NEW i \in DOMAIN batch'[v] PROVE SnapshotIsSound(batch[v][i])'
  <2>1. \E j \in DOMAIN batch[v] : batch'[v][i] = batch[v][j]
    <3>1. CASE v = w
      <4>1. i \in DOMAIN Tail(batch[w]) /\ batch'[v][i] = Tail(batch[w])[i]
        BY <1>12, <3>1
      <4> QED
        BY <1>1, <3>1, <4>1
    <3>2. CASE v # w
      BY <1>12, <3>2
    <3> QED
      BY <3>1, <3>2
  <2>2. batch'[v][i] \in Row /\ SnapshotIsSound(batch'[v][i])
    BY <2>1, BatchRows DEF IInv
  <2> QED
    BY <1>11, <2>2
<1>14. ASSUME NEW v \in Workers PROVE WorkerIsSound(v)'
  <2>1. CASE v = w
    BY <1>12, <2>1 DEF WorkerIsSound
  <2>2. CASE v # w
    <3>1. /\ pc'[v] = pc[v] /\ batch'[v] = batch[v] /\ window'[v] = window[v] /\ upto'[v] = upto[v]
      BY <1>12, <2>2
    <3>2. batch[v] # << >> => CurrentRow(v) \in Row
      BY BatchRows DEF IInv
    <3>3. WorkerIsSound(v)
      BY DEF IInv
    <3> QED
      BY <1>2, <1>10, <3>1, <3>2, <3>3 DEF WorkerIsSound, CurrentRow
  <2> QED
    BY <2>1, <2>2
<1> QED
  BY <1>6, <1>7, <1>8, <1>9, <1>13, <1>14 DEF IInv

\* A dead letter accounts for every turn of its session.
LEMMA DeadLetterRowStep ==
  ASSUME IInv, NEW w \in Workers, pc[w] \notin {"idle", "next"}, NEW attempts \in Nat,
         DeadLetterRow(w, attempts), FinishRow(w),
         UNCHANGED <<events, born, enabled, erasing, provenance, historyVars, boundVars>>
  PROVE  IInv'
<1> DEFINE r == CurrentRow(w)
           row == IF IsQueued(r) THEN NoRow ELSE outbox[r.key]
<1>1. r \in Row /\ r.key \in Key /\ r.from \in Nat /\ r.through \in Nat
  <2>1. batch[w] # << >>
    BY DEF IInv, WorkerIsSound
  <2> QED
    BY <2>1, BatchRows, RowFields DEF IInv
<1>2. outbox' = [outbox EXCEPT ![r.key] = row]
  BY <1>1 DEF DeadLetterRow, IInv, TypeOK
<1>3. /\ row \in Row \cup {NoRow}
      /\ row # NoRow => /\ outbox[r.key] # NoRow /\ row.key = r.key /\ row.oid = outbox[r.key].oid
                        /\ row.through = outbox[r.key].through
                        /\ row.from <= row.through /\ row.attempts < MaxAttempts
  BY <1>1 DEF IInv, TypeOK, QueuedWindowsAreSound
<1>4. failed \subseteq failed' /\ failed' \in SUBSET FailedRow /\ \E f \in failed' : f.key = r.key
  <2> DEFINE f == [key |-> r.key, from |-> r.from, through |-> r.through, attempts |-> attempts]
  <2>1. f \in FailedRow /\ f.key = r.key
    BY <1>1 DEF FailedRow
  <2>2. failed' = failed \cup {f}
    BY DEF DeadLetterRow
  <2> QED
    BY <2>1, <2>2 DEF IInv, TypeOK
<1>5. NoTurnLost'
  <2> SUFFICES ASSUME NEW e \in events, NEW st \in Strategies, e.live
               PROVE  Covers(outbox[<<e.sess, st>>], e)' \/ Handled(<<e.sess, st>>, e)'
    BY DEF NoTurnLost
  <2>1. CASE <<e.sess, st>> = r.key
    BY <1>4, <2>1 DEF Handled
  <2>2. CASE <<e.sess, st>> # r.key
    <3>1. outbox'[<<e.sess, st>>] = outbox[<<e.sess, st>>]
      BY <1>2, <2>2, EventFields DEF IInv, TypeOK
    <3> QED
      BY <1>4, <3>1 DEF IInv, NoTurnLost, Covers, Handled, historyVars
  <2> QED
    BY <2>1, <2>2
<1>6. extracted' = extracted /\ skipped' = skipped /\ spared' = spared /\ extracted \in SUBSET (Key \X Nat)
      /\ skipped \in SUBSET (Key \X Nat)
  BY DEF historyVars, IInv, TypeOK
<1> HIDE DEF row
<1> QED
  BY <1>2, <1>3, <1>4, <1>5, <1>6, FinishRowStep

LEMMA DeadLetterStep ==
  ASSUME IInv, NEW w \in Workers, DeadLetter(w)
  PROVE  IInv'
<1>1. pc[w] = "dead" /\ batch[w] # << >>
  BY DEF DeadLetter, IInv, WorkerIsSound
<1>2. CurrentRow(w).attempts \in Nat
  BY <1>1, BatchRows, RowFields DEF IInv
<1> QED
  BY <1>1, <1>2, DeadLetterRowStep DEF DeadLetter

LEMMA ScheduleRetryStep ==
  ASSUME IInv, NEW w \in Workers, ScheduleRetry(w)
  PROVE  IInv'
<1> DEFINE r == CurrentRow(w)
           attempts == r.attempts + 1
<1>1. pc[w] = "retry" /\ batch[w] # << >>
  BY DEF ScheduleRetry, IInv, WorkerIsSound
<1>2. r \in Row /\ r.key \in Key /\ attempts \in Nat
  BY <1>1, BatchRows, RowFields DEF IInv
<1>3. CASE DeadLetterRow(w, attempts)
  BY <1>1, <1>2, <1>3, DeadLetterRowStep DEF ScheduleRetry
<1>4. CASE /\ attempts < MaxAttempts
           /\ outbox' = [outbox EXCEPT ![r.key] =
                            IF IsQueued(r) THEN [@ EXCEPT !.attempts = attempts, !.waiting = TRUE]
                                           ELSE @]
           /\ UNCHANGED failed
  <2> DEFINE row == IF IsQueued(r) THEN [outbox[r.key] EXCEPT !.attempts = attempts, !.waiting = TRUE]
                                   ELSE outbox[r.key]
  <2>1. outbox' = [outbox EXCEPT ![r.key] = row]
    BY <1>2, <1>4 DEF IInv, TypeOK
  <2>2. outbox[r.key] # NoRow =>
          /\ outbox[r.key] \in Row /\ outbox[r.key].key = r.key
          /\ outbox[r.key].from <= outbox[r.key].through /\ outbox[r.key].attempts < MaxAttempts
    BY <1>2 DEF IInv, TypeOK, QueuedWindowsAreSound
  <2>3. IsQueued(r) => /\ row \in Row /\ row.key = r.key /\ row.oid = outbox[r.key].oid
                       /\ row.through = outbox[r.key].through /\ row.from = outbox[r.key].from
                       /\ row.attempts = attempts
    BY <1>2, <2>2 DEF IsQueued, Row
  <2>4. ~ IsQueued(r) => row = outbox[r.key]
    OBVIOUS
  <2>5. row \in Row \cup {NoRow} /\ (row = NoRow => outbox[r.key] = NoRow)
    BY <1>2, <2>3, <2>4, NoRowAssumption DEF IInv, TypeOK
  <2> HIDE DEF row
  <2>6. row # NoRow => /\ outbox[r.key] # NoRow /\ row.key = r.key /\ row.oid = outbox[r.key].oid
                       /\ row.through = outbox[r.key].through /\ row.from = outbox[r.key].from
                       /\ row.from <= row.through /\ row.attempts < MaxAttempts
    BY <1>4, <2>2, <2>3, <2>4 DEF IsQueued
  <2>7. NoTurnLost'
    <3> SUFFICES ASSUME NEW e \in events, NEW st \in Strategies, e.live
                 PROVE  Covers(outbox[<<e.sess, st>>], e)' \/ Handled(<<e.sess, st>>, e)'
      BY DEF NoTurnLost, ScheduleRetry
    <3> DEFINE k == <<e.sess, st>>
    <3>1. k \in Key
      BY EventFields DEF IInv, TypeOK
    <3>2. Covers(outbox[k], e) => Covers(outbox[k], e)'
      <4>1. outbox'[k] = IF k = r.key THEN row ELSE outbox[k]
        BY <1>2, <2>1, <3>1 DEF IInv, TypeOK
      <4> QED
        BY <2>5, <2>6, <4>1 DEF Covers, ScheduleRetry
    <3>3. Handled(k, e) => Handled(k, e)'
      BY <1>4 DEF Handled, ScheduleRetry, historyVars
    <3> QED
      BY <3>2, <3>3 DEF IInv, NoTurnLost
  <2>8. /\ failed' = failed /\ extracted' = extracted /\ skipped' = skipped /\ spared' = spared
        /\ failed \in SUBSET FailedRow /\ extracted \in SUBSET (Key \X Nat)
        /\ skipped \in SUBSET (Key \X Nat)
    BY <1>4 DEF ScheduleRetry, historyVars, IInv, TypeOK
  <2> QED
    BY <1>1, <2>1, <2>5, <2>6, <2>7, <2>8, FinishRowStep DEF ScheduleRetry
<1> QED
  BY <1>3, <1>4 DEF ScheduleRetry

\* Completing a row through a sequence number settles every turn of the
\* claimed window up to it, and nothing else of the queued one.
LEMMA CompleteStep ==
  ASSUME IInv, NEW w \in Workers, Complete(w)
  PROVE  IInv'
<1> DEFINE r == CurrentRow(w)
           row == CompletedRow(r, upto[w])
           Settled(k, e) == \/ <<k, e.eid>> \in extracted' \/ <<k, e.eid>> \in skipped'
                            \/ e.eid \in spared'
                            \/ \E f \in failed' : f.key = k
<1>1. pc[w] \in {"stage", "skip", "empty"} /\ batch[w] # << >>
  BY DEF Complete, IInv, WorkerIsSound
<1>2. /\ r \in Row /\ r.key \in Key /\ r.from \in Nat /\ r.through \in Nat
      /\ upto[w] \in Nat /\ SnapshotIsSound(r)
  BY <1>1, BatchRows, RowFields DEF IInv, TypeOK
<1>3. /\ outbox' = [outbox EXCEPT ![r.key] = row] /\ FinishRow(w)
      /\ UNCHANGED <<events, born, failed, enabled, erasing, provenance, spared, boundVars>>
  BY DEF Complete
<1>4. outbox[r.key] # NoRow =>
        /\ outbox[r.key] \in Row /\ outbox[r.key].key = r.key
        /\ outbox[r.key].from <= outbox[r.key].through /\ outbox[r.key].attempts < MaxAttempts
        /\ outbox[r.key].through \in Nat /\ outbox[r.key].from \in Nat
  BY <1>2, RowFields DEF IInv, TypeOK, QueuedWindowsAreSound
<1>5. CASE ~ IsQueued(r)
  <2>1. row = outbox[r.key] /\ outbox' = outbox
    BY <1>2, <1>3, <1>5 DEF CompletedRow, IInv, TypeOK
  <2> HIDE DEF row
  <2>2. /\ extracted \subseteq extracted' /\ extracted' \in SUBSET (Key \X Nat)
        /\ skipped \subseteq skipped' /\ skipped' \in SUBSET (Key \X Nat)
    <3>1. \A e \in window[w] : e.eid \in Nat
      BY EventFields DEF IInv, TypeOK
    <3>2. \A e \in LiveInWindow(r) : e.eid \in Nat
      BY EventFields DEF IInv, TypeOK, LiveInWindow, EventsOf
    <3> QED
      BY <1>2, <3>1, <3>2 DEF Complete, IInv, TypeOK
  <2>3. NoTurnLost'
    BY <1>3, <2>1, <2>2 DEF IInv, NoTurnLost, Covers, Handled
  <2>4. row \in Row \cup {NoRow} /\ failed' = failed /\ failed \in SUBSET FailedRow
    BY <1>2, <1>3, <2>1 DEF IInv, TypeOK
  <2>5. row # NoRow => /\ outbox[r.key] # NoRow /\ row.key = r.key /\ row.oid = outbox[r.key].oid
                       /\ row.through = outbox[r.key].through
                       /\ row.from <= row.through /\ row.attempts < MaxAttempts
    BY <1>4, <2>1
  <2> QED
    BY <1>1, <1>3, <2>2, <2>3, <2>4, <2>5, FinishRowStep
<1>6. CASE IsQueued(r)
  <2>1. outbox[r.key] # NoRow
    BY <1>6 DEF IsQueued
  <2>2. /\ outbox[r.key].through <= upto[w] => row = NoRow
        /\ ~ (outbox[r.key].through <= upto[w]) =>
             row = [outbox[r.key] EXCEPT !.from = upto[w] + 1, !.attempts = 0, !.waiting = FALSE]
    BY <1>6 DEF CompletedRow
  <2> HIDE DEF row
  <2>3. ~ (outbox[r.key].through <= upto[w]) =>
          /\ row \in Row /\ row # NoRow /\ row.key = r.key /\ row.oid = outbox[r.key].oid
          /\ row.through = outbox[r.key].through /\ row.from = upto[w] + 1 /\ row.attempts = 0
    <3>1. SUFFICES ASSUME row = [outbox[r.key] EXCEPT !.from = upto[w] + 1, !.attempts = 0,
                                                      !.waiting = FALSE]
                   PROVE  /\ row \in Row /\ row # NoRow /\ row.key = r.key
                          /\ row.oid = outbox[r.key].oid /\ row.through = outbox[r.key].through
                          /\ row.from = upto[w] + 1 /\ row.attempts = 0
      BY <2>2
    <3>2. /\ row \in Row /\ row.key = r.key /\ row.oid = outbox[r.key].oid
          /\ row.through = outbox[r.key].through /\ row.from = upto[w] + 1 /\ row.attempts = 0
      <4>1. outbox[r.key] \in Row /\ outbox[r.key].key = r.key
        BY <1>4, <2>1
      <4>2. upto[w] + 1 \in Nat
        BY <1>2
      <4>3. PICK o : o = outbox[r.key]
        OBVIOUS
      <4>4. PICK n : n = upto[w] + 1
        OBVIOUS
      <4>5. o \in Row /\ n \in Nat
        BY <4>1, <4>2, <4>3, <4>4
      <4>6. row = [o EXCEPT !.from = n, !.attempts = 0, !.waiting = FALSE]
        BY <3>1, <4>3, <4>4
      <4>7. /\ row \in Row /\ row.key = o.key /\ row.oid = o.oid /\ row.through = o.through
            /\ row.from = n /\ row.attempts = 0
        BY <4>5, <4>6 DEF Row
      <4> QED
        BY <4>1, <4>3, <4>4, <4>7
    <3> QED
      BY <3>2, NoRowAssumption
  <2>4. /\ row \in Row \cup {NoRow}
        /\ row # NoRow => /\ row.key = r.key /\ row.oid = outbox[r.key].oid
                          /\ row.through = outbox[r.key].through /\ row.from = upto[w] + 1
                          /\ row.from <= row.through /\ row.attempts < MaxAttempts
        /\ row = NoRow => outbox[r.key].through <= upto[w]
    BY <1>2, <1>4, <2>1, <2>2, <2>3, ConstantsAssumption
  <2>5. /\ extracted \subseteq extracted' /\ extracted' \in SUBSET (Key \X Nat)
        /\ skipped \subseteq skipped' /\ skipped' \in SUBSET (Key \X Nat)
    <3>1. \A e \in window[w] : e.eid \in Nat
      BY EventFields DEF IInv, TypeOK
    <3>2. \A e \in LiveInWindow(r) : e.eid \in Nat
      BY EventFields DEF IInv, TypeOK, LiveInWindow, EventsOf
    <3> QED
      BY <1>2, <3>1, <3>2 DEF Complete, IInv, TypeOK
  <2>6. ASSUME NEW e \in events, e.sess = r.key[1], e.live, e.seq <= upto[w]
        PROVE  Settled(r.key, e)
    <3>1. e.seq \in Nat
      BY EventFields DEF IInv, TypeOK
    <3>2. CASE e.seq < r.from
      <4>1. Handled(r.key, e)
        BY <1>2, <1>6, <2>6, <3>2 DEF SnapshotIsSound
      <4> QED
        BY <1>3, <2>5, <4>1 DEF Handled
    <3>3. CASE r.from <= e.seq
      <4>1. /\ pc[w] # "empty" /\ upto[w] <= r.through
            /\ pc[w] = "stage" => \E x \in window[w] : x.eid = e.eid
        BY <1>1, <1>6, <2>6, <3>3 DEF IInv, WorkerIsSound
      <4>2. CASE pc[w] = "stage"
        <5>1. <<r.key, e.eid>> \in extracted'
          BY <4>1, <4>2 DEF Complete
        <5> QED
          BY <5>1
      <4>3. CASE pc[w] = "skip"
        <5>1. e \in LiveInWindow(r)
          BY <1>2, <2>6, <3>1, <3>3, <4>1 DEF LiveInWindow, EventsOf
        <5>2. <<r.key, e.eid>> \in skipped'
          BY <4>3, <5>1 DEF Complete
        <5> QED
          BY <5>2
      <4> QED
        BY <1>1, <4>1, <4>2, <4>3
    <3> QED
      BY <1>2, <3>1, <3>2, <3>3
  <2>7. NoTurnLost'
    <3> SUFFICES ASSUME NEW e \in events, NEW st \in Strategies, e.live
                 PROVE  Covers(outbox[<<e.sess, st>>], e)' \/ Handled(<<e.sess, st>>, e)'
      BY <1>3 DEF NoTurnLost
    <3> DEFINE k == <<e.sess, st>>
    <3>1. k \in Key /\ e.seq \in Nat /\ k[1] = e.sess
      BY EventFields DEF IInv, TypeOK
    <3>2. Covers(outbox[k], e) \/ Handled(k, e)
      BY DEF IInv, NoTurnLost
    <3>3. Handled(k, e) => Handled(k, e)'
      BY <1>3, <2>5 DEF Handled
    <3>4. outbox'[k] = IF k = r.key THEN row ELSE outbox[k]
      BY <1>2, <1>3, <3>1 DEF IInv, TypeOK
    <3> HIDE DEF k
    <3>5. CASE k # r.key
      BY <3>2, <3>3, <3>4, <3>5 DEF Covers, k
    <3>6. CASE k = r.key /\ e.seq <= upto[w]
      BY <2>6, <3>1, <3>6 DEF k, Handled
    <3>7. CASE k = r.key /\ ~ (e.seq <= upto[w]) /\ Covers(outbox[k], e)
      <4>1. upto[w] + 1 <= e.seq /\ e.seq <= outbox[r.key].through
        BY <1>2, <3>1, <3>7 DEF Covers
      <4>2. row # NoRow
        BY <1>2, <1>4, <2>1, <2>4, <3>1, <4>1
      <4> QED
        BY <2>4, <3>4, <3>7, <4>1, <4>2 DEF Covers, k
    <3> QED
      BY <3>2, <3>3, <3>5, <3>6, <3>7 DEF k
  <2>8. failed' = failed /\ failed \in SUBSET FailedRow
    BY <1>3 DEF IInv, TypeOK
  <2> QED
    BY <1>1, <1>3, <2>1, <2>4, <2>5, <2>7, <2>8, FinishRowStep
<1> QED
  BY <1>5, <1>6

\* The first statement of an erasure changes nothing that others see.
LEMMA BeginEraseStep ==
  ASSUME IInv, NEW a \in Actors, BeginEraseActorEvents(a), changes' \in Nat
  PROVE  IInv'
<1>1. UNCHANGED <<events, born, queueVars, historyVars>> /\ UNCHANGED <<pc, batch, window, upto>>
  BY DEF BeginEraseActorEvents, workerVars
<1>2. TypeOK' /\ ClaimsCiteOwnSession'
  <2>1. Len(born) + 1 \in Nat
    BY DEF IInv, TypeOK
  <2> QED
    BY <1>1, <2>1 DEF BeginEraseActorEvents, IInv, TypeOK, ClaimsCiteOwnSession, queueVars, historyVars
<1>3. \A w \in Workers : WorkerIsSound(w)'
  BY <1>1, TablesUnchanged DEF IInv, WorkerIsSound, CurrentRow
<1>4. \A w \in Workers : \A i \in DOMAIN batch'[w] : SnapshotIsSound(batch[w][i])'
  BY <1>1, TablesUnchanged DEF IInv
<1> QED
  BY <1>1, <1>2, <1>3, <1>4, TablesUnchanged DEF IInv

\* A tick that finds nothing to do changes nothing.
LEMMA StutterStep ==
  ASSUME IInv, UNCHANGED vars
  PROVE  IInv'
<1>1. UNCHANGED <<events, born, queueVars, historyVars>> /\ UNCHANGED <<pc, batch, window, upto>>
  BY DEF vars, queueVars, historyVars
<1>2. TypeOK' /\ ClaimsCiteOwnSession'
  BY DEF vars, IInv, TypeOK, ClaimsCiteOwnSession
<1>3. \A w \in Workers : WorkerIsSound(w)'
  BY <1>1, TablesUnchanged DEF IInv, WorkerIsSound, CurrentRow
<1> QED
  BY <1>1, <1>2, <1>3, TablesUnchanged DEF IInv

\* Every step preserves the strengthened invariant.
LEMMA NextIInv == IInv /\ [Next]_vars => IInv'
<1> SUFFICES ASSUME IInv, [Next]_vars PROVE IInv'
  OBVIOUS
<1>1. CASE ClientStep
  <2>1. CASE \E s \in Sessions : RecordEvent(s)
    BY <2>1, RecordEventStep
  <2>2. ASSUME NEW e \in events, DeleteEvent(e) PROVE IInv'
    <3>1. changes' \in Nat
      BY <2>2 DEF DeleteEvent, Change, IInv, TypeOK
    <3> QED
      BY <2>2, <3>1, InvalidateStep DEF DeleteEvent
  <2>3. ASSUME NEW E \in SUBSET events, ExpireBatch(E) PROVE IInv'
    <3>1. changes' \in Nat
      BY <2>3 DEF ExpireBatch, Change, IInv, TypeOK
    <3> QED
      BY <2>3, <3>1, InvalidateStep DEF ExpireBatch
  <2>4. CASE \E t \in Tenants, st \in Strategies : SetEnabled(t, st)
    BY <2>4, SetEnabledStep
  <2> QED
    BY <1>1, <2>1, <2>2, <2>3, <2>4 DEF ClientStep
<1>2. ASSUME NEW a \in Actors,
             (Change /\ BeginEraseActorEvents(a)) \/ (EraseActorEvents(a) /\ UNCHANGED changes)
      PROVE  IInv'
  <2>1. changes' \in Nat
    BY <1>2 DEF Change, IInv, TypeOK
  <2> QED
    BY <1>2, <2>1, BeginEraseStep, EraseStep
<1>3. CASE \E k \in Key : BackoffElapses(k)
  BY <1>3, BackoffStep
<1>4. ASSUME NEW w \in Workers, WorkerStep(w) PROVE IInv'
  <2>1. CASE \E locked \in SUBSET Key : Claim(w, locked)
    BY <2>1, ClaimStep
  <2>2. CASE Process(w)
    BY <2>2, NextRowStep, LoadWindowStep, ExtractStep, CompleteStep, DeadLetterStep, ScheduleRetryStep
    DEF Process
  <2>3. CASE \E eid \in DOMAIN born : StageClaim(w, eid)
    BY <2>3, StageClaimStep
  <2>4. CASE Abort(w)
    BY <2>4, AbortStep
  <2>5. CASE EmptyTick(w)
    BY <2>5, StutterStep DEF EmptyTick
  <2> QED
    BY <1>4, <2>1, <2>2, <2>3, <2>4, <2>5 DEF WorkerStep, DrainStep
<1>5. CASE UNCHANGED vars
  BY <1>5, StutterStep
<1> QED
  BY <1>1, <1>2, <1>3, <1>4, <1>5 DEF Next

\* The strengthened invariant holds throughout, whatever the interleaving of
\* clients, workers, erasures and aborts.
THEOREM InductiveInvariant == Spec => []IInv
  BY InitIInv, NextIInv, PTL DEF Spec

\* Every variable keeps its type (session_events.py, extraction_drain.py).
THEOREM TypeCorrect == Spec => []TypeOK
<1>1. IInv => TypeOK
  BY DEF IInv
<1> QED
  BY <1>1, InductiveInvariant, PTL

\* No turn of a session is lost silently: a live event is queued, extracted,
\* passed over while disabled, or its session has a dead letter.
THEOREM NoTurnIsLost == Spec => []NoTurnLost
<1>1. IInv => NoTurnLost
  BY DEF IInv
<1> QED
  BY <1>1, InductiveInvariant, PTL

\* Staged claims cite only events of the session they were staged for.
THEOREM ClaimsCite == Spec => []ClaimsCiteOwnSession
<1>1. IInv => ClaimsCiteOwnSession
  BY DEF IInv
<1> QED
  BY <1>1, InductiveInvariant, PTL

\* A queued window is never inverted and its retries are never spent, so the
\* table's CHECK constraints never refuse a worker's statement.
THEOREM WindowsAreSound == Spec => []QueuedWindowsAreSound
<1>1. IInv => QueuedWindowsAreSound
  BY DEF IInv
<1> QED
  BY <1>1, InductiveInvariant, PTL

-----------------------------------------------------------------------------
(* With the scheduled purge. *)

\* The identifier of a queued row is the event of its session that inserted it.
RowsAreOwn ==
  \A k \in Key : outbox[k] # NoRow => outbox[k].oid \in DOMAIN born /\ born[outbox[k].oid] = k[1]

\* A worker between two rows holds no window, and in the middle of one it holds
\* events written to the session of its row.
WindowIsOwn(w) ==
  /\ pc[w] \in {"idle", "next"} => window[w] = {}
  /\ pc[w] \notin {"idle", "next"} =>
        /\ batch[w] # << >>
        /\ \A x \in window[w] : x.eid \in DOMAIN born /\ born[x.eid] = CurrentRow(w).key[1]

\* What is left of IInv when a sequence number may be handed out twice.
PurgeInv ==
  /\ TypeOK
  /\ QueuedWindowsAreSound
  /\ EventIdsAreSound
  /\ RowsAreOwn
  /\ ClaimsCiteOwnSession
  /\ \A w \in Workers : WindowIsOwn(w)

LEMMA InitPurgeInv == Init => PurgeInv
  BY ConstantsAssumption
  DEF Init, PurgeInv, TypeOK, QueuedWindowsAreSound, EventIdsAreSound, RowsAreOwn,
      WindowIsOwn, ClaimsCiteOwnSession, Step

\* Steps that leave the queue and the workers alone.
LEMMA PurgeQueueIdle ==
  ASSUME PurgeInv, TypeOK', EventIdsAreSound',
         UNCHANGED <<born, outbox, pc, batch, window, provenance>>
  PROVE  PurgeInv'
  BY DEF PurgeInv, QueuedWindowsAreSound, RowsAreOwn, WindowIsOwn, CurrentRow, ClaimsCiteOwnSession

\* The clients' steps other than an append: events go or are invalidated.
LEMMA PurgeClientStep ==
  ASSUME PurgeInv, NEW E \in SUBSET events,
         \/ events' = Invalidated(E) /\ changes' \in Nat /\ UNCHANGED <<spared, enabled, erasing>>
         \/ events' = events \ E /\ changes' \in Nat /\ UNCHANGED <<spared, enabled, erasing>>
         \/ /\ events' = events /\ spared' = spared /\ changes' \in Nat
            /\ enabled' \in [Tenants \X Strategies -> BOOLEAN] /\ erasing' \in [Actors -> Nat],
         UNCHANGED <<born, queueVars, workerVars, provenance, extracted, skipped, aborts>>
  PROVE  PurgeInv'
<1>a. \A e \in events : e \in Event
  BY DEF PurgeInv, TypeOK
<1>1. \A d \in events' : d \in Event /\ \E e \in events : d.eid = e.eid /\ d.sess = e.sess
  <2> DEFINE Inv(e) == IF e \in E THEN [e EXCEPT !.live = FALSE] ELSE e
  <2>1. \A e \in events : Inv(e) \in Event /\ Inv(e).eid = e.eid /\ Inv(e).sess = e.sess
    BY <1>a DEF Event
  <2>2. events' = {Inv(e) : e \in events} \/ events' \subseteq events
    BY DEF Invalidated
  <2> HIDE DEF Inv
  <2> QED
    BY <1>a, <2>1, <2>2
<1>2. TypeOK'
  BY <1>1 DEF PurgeInv, TypeOK, queueVars, workerVars
<1>3. EventIdsAreSound'
  BY <1>1 DEF PurgeInv, EventIdsAreSound
<1> QED
  BY <1>2, <1>3, PurgeQueueIdle DEF queueVars, workerVars

\* A row that a step writes keeps its key and its identifier.
LEMMA RowWritten ==
  ASSUME PurgeInv, born' = born, NEW key \in Key, NEW row \in Row \cup {NoRow},
         outbox' = [outbox EXCEPT ![key] = row],
         row # NoRow => /\ outbox[key] # NoRow /\ row.key = key /\ row.oid = outbox[key].oid
                        /\ row.from <= row.through /\ row.attempts < MaxAttempts
  PROVE  outbox' \in [Key -> Row \cup {NoRow}] /\ QueuedWindowsAreSound' /\ RowsAreOwn'
<1>1. \A k \in Key : outbox'[k] = IF k = key THEN row ELSE outbox[k]
  BY DEF PurgeInv, TypeOK
<1>2. outbox' \in [Key -> Row \cup {NoRow}]
  BY DEF PurgeInv, TypeOK
<1>3. QueuedWindowsAreSound'
  BY <1>1 DEF PurgeInv, QueuedWindowsAreSound
<1>4. RowsAreOwn'
  BY <1>1 DEF PurgeInv, RowsAreOwn
<1> QED
  BY <1>2, <1>3, <1>4

LEMMA PurgeBackoffStep ==
  ASSUME PurgeInv, NEW k \in Key, BackoffElapses(k)
  PROVE  PurgeInv'
<1> DEFINE row == [outbox[k] EXCEPT !.waiting = FALSE]
<1>1. outbox[k] \in Row /\ outbox[k] # NoRow
  BY DEF PurgeInv, TypeOK, BackoffElapses
<1>2. /\ row \in Row /\ row.key = outbox[k].key /\ row.oid = outbox[k].oid /\ row.from = outbox[k].from
      /\ row.through = outbox[k].through /\ row.attempts = outbox[k].attempts
  BY <1>1 DEF Row
<1>3. outbox' = [outbox EXCEPT ![k] = row] /\ born' = born
  BY <1>1 DEF BackoffElapses, PurgeInv, TypeOK
<1> HIDE DEF row
<1>4. outbox' \in [Key -> Row \cup {NoRow}] /\ QueuedWindowsAreSound' /\ RowsAreOwn'
  BY <1>1, <1>2, <1>3, RowWritten DEF PurgeInv, QueuedWindowsAreSound
<1>5. TypeOK'
  BY <1>4 DEF PurgeInv, TypeOK, BackoffElapses, workerVars, historyVars, boundVars
<1> QED
  BY <1>4, <1>5 DEF PurgeInv, EventIdsAreSound, WindowIsOwn, CurrentRow, ClaimsCiteOwnSession,
                    BackoffElapses, workerVars

LEMMA PurgeEraseStep ==
  ASSUME PurgeInv, NEW a \in Actors, EraseActorEvents(a), changes' \in Nat
  PROVE  PurgeInv'
<1>1. /\ outbox' = [k \in Key |-> IF Actor[k[1]] = a THEN NoRow ELSE outbox[k]]
      /\ events' \subseteq events /\ born' = born /\ failed' \subseteq failed
      /\ provenance' = provenance /\ UNCHANGED <<pc, batch, window, upto>>
  BY DEF EraseActorEvents, workerVars
<1>2. TypeOK'
  <2>1. spared' \in SUBSET Nat
    <3>1. \A e \in events' : e.eid \in Nat
      BY <1>1, EventFields DEF PurgeInv, TypeOK
    <3>2. spared' = spared \cup {e.eid : e \in {d \in events' : Actor[d.sess] = a}}
      BY DEF EraseActorEvents
    <3>3. spared \in SUBSET Nat
      BY DEF PurgeInv, TypeOK
    <3> QED
      BY <3>1, <3>2, <3>3
  <2>2. /\ erasing' \in [Actors -> Nat] /\ enabled' = enabled /\ aborts' = aborts
        /\ extracted' = extracted /\ skipped' = skipped
    BY DEF PurgeInv, TypeOK, EraseActorEvents
  <2> QED
    BY <1>1, <2>1, <2>2 DEF PurgeInv, TypeOK
<1>3. QueuedWindowsAreSound' /\ RowsAreOwn'
  BY <1>1 DEF PurgeInv, QueuedWindowsAreSound, RowsAreOwn
<1> QED
  BY <1>1, <1>2, <1>3 DEF PurgeInv, EventIdsAreSound, WindowIsOwn, CurrentRow, ClaimsCiteOwnSession

\* A step of one worker that writes none of the tables.
LEMMA PurgeWorkerStep ==
  ASSUME PurgeInv, NEW w \in Workers, TypeOK', WindowIsOwn(w)', ClaimsCiteOwnSession',
         UNCHANGED <<events, born, outbox>>,
         \A v \in Workers \ {w} : pc'[v] = pc[v] /\ batch'[v] = batch[v] /\ window'[v] = window[v]
  PROVE  PurgeInv'
<1>1. ASSUME NEW v \in Workers PROVE WindowIsOwn(v)'
  <2>1. CASE v = w
    BY <2>1
  <2>2. CASE v # w
    BY <2>2 DEF PurgeInv, WindowIsOwn, CurrentRow
  <2> QED
    BY <2>1, <2>2
<1> QED
  BY <1>1 DEF PurgeInv, QueuedWindowsAreSound, RowsAreOwn, EventIdsAreSound

LEMMA PurgeClaimStep ==
  ASSUME PurgeInv, NEW w \in Workers, NEW locked, Claim(w, locked)
  PROVE  PurgeInv'
<1>1. PICK ks \in BatchKeys(locked) :
         batch' = [batch EXCEPT ![w] = [i \in DOMAIN ks |-> outbox[ks[i]]]]
  BY DEF Claim
<1>2. PICK n \in 1 .. BatchSize : ks \in [1 .. n -> Eligible \ locked]
  BY DEF BatchKeys
<1>3. \A i \in 1 .. n : outbox[ks[i]] \in Row
  BY <1>2 DEF Eligible, PurgeInv, TypeOK
<1>4. [i \in DOMAIN ks |-> outbox[ks[i]]] \in Seq(Row)
  BY <1>2, <1>3, ConstantsAssumption
<1>5. TypeOK'
  BY <1>1, <1>4 DEF PurgeInv, TypeOK, Claim, Step, queueVars, historyVars, boundVars
<1>6. WindowIsOwn(w)'
  BY DEF PurgeInv, TypeOK, WindowIsOwn, Claim
<1>7. \A v \in Workers \ {w} : pc'[v] = pc[v] /\ batch'[v] = batch[v] /\ window'[v] = window[v]
  BY <1>1 DEF PurgeInv, TypeOK, Claim
<1> QED
  BY <1>5, <1>6, <1>7, PurgeWorkerStep DEF PurgeInv, ClaimsCiteOwnSession, Claim, queueVars

\* Reading the configuration, calling the provider, staging a claim and aborting.
LEMMA PurgeMoveStep ==
  ASSUME PurgeInv, NEW w \in Workers, NextRow(w) \/ Extract(w) \/ Abort(w)
  PROVE  PurgeInv'
<1>1. UNCHANGED <<events, born, outbox, provenance>>
  BY DEF NextRow, Extract, Abort, queueVars
<1>2. batch[w] # << >> => CurrentRow(w).through \in Nat
  BY BatchRows, RowFields DEF PurgeInv
<1>3. TypeOK'
  <2>1. CASE NextRow(w)
    <3>1. upto'[w] \in Nat
      BY <1>2, <2>1 DEF PurgeInv, TypeOK, NextRow
    <3> QED
      BY <2>1, <3>1 DEF PurgeInv, TypeOK, NextRow, Step, queueVars, historyVars, boundVars
  <2>2. CASE Extract(w)
    BY <2>2 DEF PurgeInv, TypeOK, Extract, Step, queueVars, historyVars, boundVars
  <2>3. CASE Abort(w)
    BY <2>3 DEF PurgeInv, TypeOK, Abort, Step, queueVars, historyVars
  <2> QED
    BY <2>1, <2>2, <2>3
<1>4. WindowIsOwn(w)'
  <2>1. CASE NextRow(w)
    BY <2>1 DEF PurgeInv, TypeOK, WindowIsOwn, NextRow
  <2>2. CASE Extract(w)
    <3>1. pc[w] = "call" /\ pc'[w] \in {"stage", "retry", "dead"} /\ UNCHANGED <<batch, window, born>>
      BY <2>2 DEF PurgeInv, TypeOK, Extract
    <3> QED
      BY <3>1 DEF PurgeInv, WindowIsOwn, CurrentRow
  <2>3. CASE Abort(w)
    BY <2>3 DEF PurgeInv, TypeOK, WindowIsOwn, Abort
  <2> QED
    BY <2>1, <2>2, <2>3
<1>5. \A v \in Workers \ {w} : pc'[v] = pc[v] /\ batch'[v] = batch[v] /\ window'[v] = window[v]
  BY DEF PurgeInv, TypeOK, NextRow, Extract, Abort
<1>6. ClaimsCiteOwnSession'
  BY <1>1 DEF PurgeInv, ClaimsCiteOwnSession
<1> QED
  BY <1>1, <1>3, <1>4, <1>5, <1>6, PurgeWorkerStep

LEMMA PurgeLoadStep ==
  ASSUME PurgeInv, NEW w \in Workers, LoadWindow(w)
  PROVE  PurgeInv'
<1> DEFINE E == LiveInWindow(CurrentRow(w))
<1>1. /\ UNCHANGED <<events, born, outbox, batch, provenance>>
      /\ pc[w] = "load" /\ batch[w] # << >>
  BY DEF LoadWindow, queueVars, PurgeInv, WindowIsOwn
<1>2. /\ pc'[w] \in {"empty", "call"} /\ pc' \in [Workers -> Step]
      /\ \A v \in Workers \ {w} : pc'[v] = pc[v] /\ window'[v] = window[v]
  BY DEF LoadWindow, PurgeInv, TypeOK, Step
<1>3. \A x \in E : /\ x \in Event /\ x.seq \in Nat /\ x.eid \in DOMAIN born
                   /\ born[x.eid] = CurrentRow(w).key[1]
  BY EventFields DEF LiveInWindow, EventsOf, PurgeInv, TypeOK, EventIdsAreSound
<1> HIDE DEF E
<1>4. /\ window' \in [Workers -> SUBSET Event] /\ upto' \in [Workers -> Nat]
      /\ window'[w] \subseteq E \/ window'[w] = window[w]
  <2>1. CASE UNCHANGED <<window, upto>>
    BY <2>1 DEF PurgeInv, TypeOK
  <2>2. ASSUME NEW W \in SUBSET E, window' = [window EXCEPT ![w] = W],
               NEW last \in W, upto' = [upto EXCEPT ![w] = last.seq]
        PROVE  /\ window' \in [Workers -> SUBSET Event] /\ upto' \in [Workers -> Nat]
               /\ window'[w] \subseteq E
    BY <1>3, <2>2 DEF PurgeInv, TypeOK
  <2> QED
    BY <2>1, <2>2 DEF LoadWindow, E
<1>5. TypeOK'
  BY <1>1, <1>2, <1>4 DEF PurgeInv, TypeOK, LoadWindow, queueVars, historyVars, boundVars
<1>6. WindowIsOwn(w)'
  BY <1>1, <1>2, <1>3, <1>4 DEF PurgeInv, WindowIsOwn, CurrentRow
<1>7. ClaimsCiteOwnSession'
  BY <1>1 DEF PurgeInv, ClaimsCiteOwnSession
<1> QED
  BY <1>1, <1>2, <1>5, <1>6, <1>7, PurgeWorkerStep

LEMMA PurgeStageStep ==
  ASSUME PurgeInv, NEW w \in Workers, NEW eid \in DOMAIN born, StageClaim(w, eid)
  PROVE  PurgeInv'
<1>1. /\ UNCHANGED <<events, born, outbox, pc, batch, window, upto>>
      /\ pc[w] = "stage" /\ batch[w] # << >>
  BY DEF StageClaim, PurgeInv, WindowIsOwn, workerVars, queueVars
<1>2. CurrentRow(w).key \in Key /\ eid \in Nat
  BY <1>1, BatchRows, RowFields DEF PurgeInv, TypeOK
<1>3. TypeOK'
  BY <1>1, <1>2 DEF PurgeInv, TypeOK, StageClaim, queueVars, historyVars, boundVars
<1>4. born[eid] = CurrentRow(w).key[1]
  BY <1>1 DEF StageClaim, EvidenceCited, PurgeInv, WindowIsOwn
<1>5. ClaimsCiteOwnSession'
  BY <1>1, <1>4 DEF PurgeInv, ClaimsCiteOwnSession, StageClaim
<1>6. WindowIsOwn(w)'
  BY <1>1 DEF PurgeInv, WindowIsOwn, CurrentRow
<1> QED
  BY <1>1, <1>3, <1>5, <1>6, PurgeWorkerStep

\* The ways a worker ends a row.
LEMMA PurgeFinishStep ==
  ASSUME PurgeInv, NEW w \in Workers, pc[w] \notin {"idle", "next"}, FinishRow(w),
         UNCHANGED <<events, born, enabled, erasing, provenance, spared, boundVars>>,
         outbox' \in [Key -> Row \cup {NoRow}], QueuedWindowsAreSound', RowsAreOwn',
         failed' \in SUBSET FailedRow, extracted' \in SUBSET (Key \X Nat),
         skipped' \in SUBSET (Key \X Nat)
  PROVE  PurgeInv'
<1>1. batch[w] # << >> /\ Tail(batch[w]) \in Seq(Row)
  BY BatchRows DEF PurgeInv, WindowIsOwn
<1>2. /\ pc' \in [Workers -> Step] /\ batch' \in [Workers -> Seq(Row)]
      /\ window' \in [Workers -> SUBSET Event] /\ upto' \in [Workers -> Nat]
  BY <1>1 DEF PurgeInv, TypeOK, FinishRow, Step
<1>3. TypeOK'
  BY <1>2 DEF PurgeInv, TypeOK, boundVars
<1>4. /\ pc'[w] = "next" /\ window'[w] = {}
      /\ \A v \in Workers \ {w} : /\ pc'[v] = pc[v] /\ batch'[v] = batch[v] /\ window'[v] = window[v]
  BY DEF FinishRow, PurgeInv, TypeOK
<1>5. ASSUME NEW v \in Workers PROVE WindowIsOwn(v)'
  <2>1. CASE v = w
    BY <1>4, <2>1 DEF WindowIsOwn
  <2>2. CASE v # w
    BY <1>4, <2>2 DEF PurgeInv, WindowIsOwn, CurrentRow
  <2> QED
    BY <2>1, <2>2
<1> QED
  BY <1>3, <1>5 DEF PurgeInv, EventIdsAreSound, ClaimsCiteOwnSession

\* The row a worker is processing, and the row its key has in the queue.
LEMMA PurgeCurrent ==
  ASSUME PurgeInv, NEW w \in Workers, pc[w] \notin {"idle", "next"}
  PROVE  LET r == CurrentRow(w)
         IN  /\ r \in Row /\ r.key \in Key /\ r.attempts \in Nat /\ r.from \in Nat /\ r.through \in Nat
             /\ outbox[r.key] \in Row \cup {NoRow}
             /\ outbox[r.key] # NoRow =>
                   /\ outbox[r.key] \in Row /\ outbox[r.key].key = r.key
                   /\ outbox[r.key].from <= outbox[r.key].through /\ outbox[r.key].attempts < MaxAttempts
<1> DEFINE r == CurrentRow(w)
<1>1. batch[w] # << >>
  BY DEF PurgeInv, WindowIsOwn
<1>2. r \in Row
  BY <1>1, BatchRows DEF PurgeInv
<1>3. r.key \in Key /\ r.attempts \in Nat /\ r.from \in Nat /\ r.through \in Nat
  BY <1>2, RowFields
<1> HIDE DEF r
<1>4. outbox[r.key] \in Row \cup {NoRow}
  BY <1>3 DEF PurgeInv, TypeOK
<1>5. outbox[r.key] # NoRow =>
        /\ outbox[r.key] \in Row /\ outbox[r.key].key = r.key
        /\ outbox[r.key].from <= outbox[r.key].through /\ outbox[r.key].attempts < MaxAttempts
  BY <1>3, <1>4 DEF PurgeInv, QueuedWindowsAreSound
<1> QED
  BY <1>2, <1>3, <1>4, <1>5 DEF r

LEMMA PurgeCompleteStep ==
  ASSUME PurgeInv, NEW w \in Workers, Complete(w)
  PROVE  PurgeInv'
<1> DEFINE r == CurrentRow(w)
           row == CompletedRow(r, upto[w])
<1>1. pc[w] \notin {"idle", "next"} /\ upto[w] \in Nat
  BY DEF Complete, PurgeInv, TypeOK
<1>2. /\ r \in Row /\ r.key \in Key /\ outbox[r.key] \in Row \cup {NoRow}
      /\ outbox[r.key] # NoRow =>
             /\ outbox[r.key] \in Row /\ outbox[r.key].key = r.key
             /\ outbox[r.key].from <= outbox[r.key].through /\ outbox[r.key].attempts < MaxAttempts
  BY <1>1, PurgeCurrent
<1>3. outbox' = [outbox EXCEPT ![r.key] = row] /\ born' = born
  BY DEF Complete
<1> HIDE DEF r
<1>4. /\ row \in Row \cup {NoRow}
      /\ row # NoRow => /\ outbox[r.key] # NoRow /\ row.key = r.key /\ row.oid = outbox[r.key].oid
                        /\ row.from <= row.through /\ row.attempts < MaxAttempts
  <2>1. CASE ~ IsQueued(r)
    BY <1>2, <2>1 DEF CompletedRow
  <2>2. CASE IsQueued(r) /\ outbox[r.key].through <= upto[w]
    BY <2>2 DEF CompletedRow
  <2>3. CASE IsQueued(r) /\ ~ (outbox[r.key].through <= upto[w])
    <3>1. outbox[r.key] \in Row /\ outbox[r.key].through \in Nat /\ outbox[r.key] # NoRow
      BY <1>2, <2>3, RowFields DEF IsQueued
    <3>2. row = [outbox[r.key] EXCEPT !.from = upto[w] + 1, !.attempts = 0, !.waiting = FALSE]
      BY <2>3 DEF CompletedRow
    <3> HIDE DEF row
    <3>3. /\ row \in Row /\ row.key = outbox[r.key].key /\ row.oid = outbox[r.key].oid
          /\ row.from = upto[w] + 1 /\ row.through = outbox[r.key].through /\ row.attempts = 0
      <4>1. upto[w] + 1 \in Nat /\ 0 \in Nat
        BY <1>1
      <4> QED
        BY <3>1, <3>2, <4>1 DEF Row
    <3> QED
      BY <1>1, <1>2, <2>3, <3>1, <3>3, ConstantsAssumption
  <2> QED
    BY <2>1, <2>2, <2>3
<1> HIDE DEF row
<1>5. outbox' \in [Key -> Row \cup {NoRow}] /\ QueuedWindowsAreSound' /\ RowsAreOwn'
  BY <1>2, <1>3, <1>4, RowWritten
<1>6. extracted' \in SUBSET (Key \X Nat) /\ skipped' \in SUBSET (Key \X Nat)
  <2>1. \A e \in window[w] \cup LiveInWindow(r) : e.eid \in Nat
    BY EventFields DEF LiveInWindow, EventsOf, PurgeInv, TypeOK
  <2>2. /\ extracted' \subseteq extracted \cup {<<r.key, e.eid>> : e \in window[w]}
        /\ skipped' \subseteq skipped \cup {<<r.key, e.eid>> : e \in LiveInWindow(r)}
    BY DEF Complete, r
  <2>3. \A e \in window[w] \cup LiveInWindow(r) : <<r.key, e.eid>> \in Key \X Nat
    BY <1>2, <2>1
  <2>4. extracted \subseteq Key \X Nat /\ skipped \subseteq Key \X Nat
    BY DEF PurgeInv, TypeOK
  <2> QED
    BY <2>2, <2>3, <2>4
<1>7. failed' \in SUBSET FailedRow
  BY DEF Complete, PurgeInv, TypeOK
<1> QED
  BY <1>1, <1>5, <1>6, <1>7, PurgeFinishStep DEF Complete

LEMMA PurgeDeadLetterRow ==
  ASSUME PurgeInv, NEW w \in Workers, pc[w] \notin {"idle", "next"}, NEW attempts \in Nat,
         DeadLetterRow(w, attempts), FinishRow(w),
         UNCHANGED <<events, born, enabled, erasing, provenance, historyVars, boundVars>>
  PROVE  PurgeInv'
<1> DEFINE r == CurrentRow(w)
           row == IF IsQueued(r) THEN NoRow ELSE outbox[r.key]
<1>1. /\ r \in Row /\ r.key \in Key /\ r.from \in Nat /\ r.through \in Nat
      /\ outbox[r.key] \in Row \cup {NoRow}
      /\ outbox[r.key] # NoRow =>
             /\ outbox[r.key] \in Row /\ outbox[r.key].key = r.key
             /\ outbox[r.key].from <= outbox[r.key].through /\ outbox[r.key].attempts < MaxAttempts
  BY PurgeCurrent
<1>2. outbox' = [outbox EXCEPT ![r.key] = row]
  BY <1>1 DEF DeadLetterRow, PurgeInv, TypeOK
<1>3. failed' \in SUBSET FailedRow
  <2> DEFINE f == [key |-> r.key, from |-> r.from, through |-> r.through, attempts |-> attempts]
  <2>1. f \in FailedRow
    BY <1>1 DEF FailedRow
  <2>2. failed' = failed \cup {f}
    BY DEF DeadLetterRow
  <2> QED
    BY <2>1, <2>2 DEF PurgeInv, TypeOK
<1>4. /\ row \in Row \cup {NoRow}
      /\ row # NoRow => /\ outbox[r.key] # NoRow /\ row.key = r.key /\ row.oid = outbox[r.key].oid
                        /\ row.from <= row.through /\ row.attempts < MaxAttempts
  BY <1>1
<1> HIDE DEF row, r
<1>5. outbox' \in [Key -> Row \cup {NoRow}] /\ QueuedWindowsAreSound' /\ RowsAreOwn'
  BY <1>1, <1>2, <1>4, RowWritten
<1> QED
  BY <1>3, <1>5, PurgeFinishStep DEF historyVars, PurgeInv, TypeOK

LEMMA PurgeDeadLetterStep ==
  ASSUME PurgeInv, NEW w \in Workers, DeadLetter(w)
  PROVE  PurgeInv'
<1>1. pc[w] \notin {"idle", "next"}
  BY DEF DeadLetter
<1>2. CurrentRow(w).attempts \in Nat
  BY <1>1, PurgeCurrent
<1> QED
  BY <1>1, <1>2, PurgeDeadLetterRow DEF DeadLetter

LEMMA PurgeRetryStep ==
  ASSUME PurgeInv, NEW w \in Workers, ScheduleRetry(w)
  PROVE  PurgeInv'
<1> DEFINE r == CurrentRow(w)
           attempts == r.attempts + 1
<1>1. pc[w] \notin {"idle", "next"}
  BY DEF ScheduleRetry
<1>2. /\ r \in Row /\ r.key \in Key /\ attempts \in Nat /\ outbox[r.key] \in Row \cup {NoRow}
      /\ outbox[r.key] # NoRow =>
             /\ outbox[r.key] \in Row /\ outbox[r.key].key = r.key
             /\ outbox[r.key].from <= outbox[r.key].through /\ outbox[r.key].attempts < MaxAttempts
  BY <1>1, PurgeCurrent
<1>3. CASE DeadLetterRow(w, attempts)
  BY <1>1, <1>2, <1>3, PurgeDeadLetterRow DEF ScheduleRetry
<1>4. CASE /\ attempts < MaxAttempts
           /\ outbox' = [outbox EXCEPT ![r.key] =
                            IF IsQueued(r) THEN [@ EXCEPT !.attempts = attempts, !.waiting = TRUE]
                                           ELSE @]
           /\ UNCHANGED failed
  <2> DEFINE row == IF IsQueued(r) THEN [outbox[r.key] EXCEPT !.attempts = attempts, !.waiting = TRUE]
                                   ELSE outbox[r.key]
  <2>1. outbox' = [outbox EXCEPT ![r.key] = row] /\ born' = born
    BY <1>2, <1>4 DEF PurgeInv, TypeOK, ScheduleRetry
  <2>2. IsQueued(r) => /\ row \in Row /\ row.key = outbox[r.key].key /\ row.oid = outbox[r.key].oid
                       /\ row.through = outbox[r.key].through /\ row.from = outbox[r.key].from
                       /\ row.attempts = attempts /\ outbox[r.key] # NoRow
    BY <1>2 DEF IsQueued, Row
  <2>3. ~ IsQueued(r) => row = outbox[r.key]
    OBVIOUS
  <2> HIDE DEF row
  <2>4. /\ row \in Row \cup {NoRow}
        /\ row # NoRow => /\ outbox[r.key] # NoRow /\ row.key = r.key /\ row.oid = outbox[r.key].oid
                          /\ row.from <= row.through /\ row.attempts < MaxAttempts
    BY <1>2, <1>4, <2>2, <2>3
  <2>5. outbox' \in [Key -> Row \cup {NoRow}] /\ QueuedWindowsAreSound' /\ RowsAreOwn'
    BY <1>2, <2>1, <2>4, RowWritten
  <2> QED
    BY <1>1, <1>4, <2>5, PurgeFinishStep DEF ScheduleRetry, historyVars, PurgeInv, TypeOK
<1> QED
  BY <1>3, <1>4 DEF ScheduleRetry

\* An append widens the windows of its session, or opens them under its own
\* identifier; a reused number never shortens one.
LEMMA PurgeRecordStep ==
  ASSUME PurgeInv, NEW s \in Sessions, RecordEvent(s)
  PROVE  PurgeInv'
<1> DEFINE eid == Len(born) + 1
<1>1. PICK q \in 1 .. MaxEvents + 1 :
        /\ events' = events \cup {[eid |-> eid, sess |-> s, seq |-> q, live |-> TRUE]}
        /\ outbox' = [k \in Key |-> IF k[1] = s THEN EnqueueExtraction(k, q, eid) ELSE outbox[k]]
  BY DEF RecordEvent
<1>2. /\ born' = Append(born, s) /\ born \in Seq(Sessions) /\ Len(born) \in Nat /\ q \in Nat
      /\ eid \in Nat /\ UNCHANGED <<failed, enabled, erasing, spared, pc, batch, window, upto, provenance, extracted,
                                    skipped, changes, aborts>>
  BY ConstantsAssumption DEF PurgeInv, TypeOK, RecordEvent, workerVars, historyVars, boundVars
<1>3. /\ born' \in Seq(Sessions) /\ eid \in DOMAIN born' /\ born'[eid] = s
      /\ \A n \in DOMAIN born : n \in DOMAIN born' /\ born'[n] = born[n]
  BY <1>2
<1> DEFINE row(k) == IF k[1] = s THEN EnqueueExtraction(k, q, eid) ELSE outbox[k]
<1>4. outbox' = [k \in Key |-> row(k)]
  BY <1>1
<1>5. ASSUME NEW k \in Key
      PROVE  /\ row(k) \in Row \cup {NoRow}
             /\ row(k) # NoRow => /\ row(k).key = k /\ row(k).from <= row(k).through
                                  /\ row(k).attempts < MaxAttempts
                                  /\ row(k).oid \in DOMAIN born' /\ born'[row(k).oid] = k[1]
  <2>1. /\ outbox[k] \in Row \cup {NoRow}
        /\ outbox[k] # NoRow =>
             /\ outbox[k].key = k /\ outbox[k].from <= outbox[k].through /\ outbox[k].attempts < MaxAttempts
             /\ outbox[k].oid \in DOMAIN born' /\ born'[outbox[k].oid] = k[1]
    BY <1>3 DEF PurgeInv, TypeOK, QueuedWindowsAreSound, RowsAreOwn
  <2>2. CASE k[1] # s
    BY <2>1, <2>2
  <2>3. CASE k[1] = s /\ outbox[k] = NoRow
    <3>1. row(k) = [key |-> k, oid |-> eid, from |-> q, through |-> q, attempts |-> 0, waiting |-> FALSE]
      BY <2>3 DEF EnqueueExtraction
    <3> HIDE DEF row
    <3>2. /\ row(k) \in Row /\ row(k).key = k /\ row(k).oid = eid /\ row(k).from = q
          /\ row(k).through = q /\ row(k).attempts = 0
      BY <1>2, <3>1 DEF Row
    <3> QED
      BY <1>2, <1>3, <2>3, <3>2, ConstantsAssumption
  <2>4. CASE k[1] = s /\ outbox[k] # NoRow
    <3>1. PICK t \in {q, outbox[k].through} :
             /\ row(k) = [outbox[k] EXCEPT !.through = t, !.waiting = FALSE]
             /\ t = IF outbox[k].through < q THEN q ELSE outbox[k].through
      BY <2>4 DEF EnqueueExtraction
    <3> HIDE DEF row
    <3>2. outbox[k] \in Row /\ outbox[k].from \in Nat /\ outbox[k].through \in Nat /\ t \in Nat
      BY <1>2, <2>1, <2>4, <3>1, RowFields
    <3>3. /\ row(k) \in Row /\ row(k).key = outbox[k].key /\ row(k).oid = outbox[k].oid
          /\ row(k).from = outbox[k].from /\ row(k).through = t /\ row(k).attempts = outbox[k].attempts
      BY <3>1, <3>2 DEF Row
    <3>4. outbox[k].from <= t
      BY <1>2, <2>1, <2>4, <3>1, <3>2
    <3> QED
      BY <2>1, <2>4, <3>3, <3>4
  <2> QED
    BY <2>2, <2>3, <2>4
<1> HIDE DEF row
<1>6. outbox' \in [Key -> Row \cup {NoRow}] /\ QueuedWindowsAreSound' /\ RowsAreOwn'
  <2>1. outbox' \in [Key -> Row \cup {NoRow}]
    BY <1>4, <1>5
  <2>2. \A k \in Key : outbox'[k] = row(k)
    BY <1>4
  <2>3. QueuedWindowsAreSound'
    BY <1>5, <2>2 DEF QueuedWindowsAreSound
  <2>4. RowsAreOwn'
    BY <1>5, <2>2 DEF RowsAreOwn
  <2> QED
    BY <2>1, <2>3, <2>4
<1>7. TypeOK'
  <2> DEFINE new == [eid |-> eid, sess |-> s, seq |-> q, live |-> TRUE]
  <2>1. new \in Event
    BY <1>2 DEF Event
  <2>2. events' \in SUBSET Event
    BY <1>1, <2>1 DEF PurgeInv, TypeOK
  <2> QED
    BY <1>2, <1>3, <1>6, <2>2 DEF PurgeInv, TypeOK
<1>8. EventIdsAreSound'
  BY <1>1, <1>2, <1>3 DEF PurgeInv, EventIdsAreSound
<1>9. ClaimsCiteOwnSession'
  BY <1>2, <1>3 DEF PurgeInv, ClaimsCiteOwnSession
<1>10. \A w \in Workers : WindowIsOwn(w)'
  BY <1>2, <1>3 DEF PurgeInv, WindowIsOwn, CurrentRow
<1> QED
  BY <1>6, <1>7, <1>8, <1>9, <1>10 DEF PurgeInv

LEMMA NextPurgeInv == PurgeInv /\ [NextWithPurge]_vars => PurgeInv'
<1> SUFFICES ASSUME PurgeInv, [NextWithPurge]_vars PROVE PurgeInv'
  OBVIOUS
<1>t. changes \in Nat /\ events \subseteq events
  BY DEF PurgeInv, TypeOK
<1>1. CASE ClientStep
  <2>1. ASSUME NEW s \in Sessions, RecordEvent(s) PROVE PurgeInv'
    BY <2>1, PurgeRecordStep
  <2>2. ASSUME NEW e \in events, DeleteEvent(e) PROVE PurgeInv'
    <3>1. {e} \in SUBSET events /\ changes' \in Nat
      BY <1>t, <2>2 DEF DeleteEvent, Change
    <3> QED
      BY <2>2, <3>1, PurgeClientStep DEF DeleteEvent, historyVars
  <2>3. ASSUME NEW E \in SUBSET events, ExpireBatch(E) PROVE PurgeInv'
    BY <1>t, <2>3, PurgeClientStep DEF ExpireBatch, Change, historyVars
  <2>4. ASSUME NEW t \in Tenants, NEW st \in Strategies, SetEnabled(t, st) PROVE PurgeInv'
    <3>1. /\ enabled' \in [Tenants \X Strategies -> BOOLEAN] /\ changes' \in Nat
          /\ erasing' \in [Actors -> Nat] /\ {} \in SUBSET events
      BY <1>t, <2>4 DEF SetEnabled, Change, PurgeInv, TypeOK
    <3> QED
      BY <2>4, <3>1, PurgeClientStep DEF SetEnabled, historyVars
  <2> QED
    BY <1>1, <2>1, <2>2, <2>3, <2>4 DEF ClientStep
<1>2. ASSUME NEW a \in Actors, Change, BeginEraseActorEvents(a) PROVE PurgeInv'
  <2>1. /\ erasing' \in [Actors -> Nat] /\ changes' \in Nat
        /\ enabled' \in [Tenants \X Strategies -> BOOLEAN] /\ {} \in SUBSET events
    BY <1>t, <1>2 DEF BeginEraseActorEvents, Change, PurgeInv, TypeOK
  <2> QED
    BY <1>2, <2>1, PurgeClientStep DEF BeginEraseActorEvents, historyVars
<1>3. ASSUME NEW a \in Actors, EraseActorEvents(a), UNCHANGED changes PROVE PurgeInv'
  BY <1>t, <1>3, PurgeEraseStep
<1>4. ASSUME NEW k \in Key, BackoffElapses(k) PROVE PurgeInv'
  BY <1>4, PurgeBackoffStep
<1>5. ASSUME NEW E \in SUBSET events, DeleteExpiredEvents(E) PROVE PurgeInv'
  BY <1>t, <1>5, PurgeClientStep DEF DeleteExpiredEvents, Change, historyVars
<1>6. CASE UNCHANGED vars
  BY <1>6 DEF vars, PurgeInv, TypeOK, QueuedWindowsAreSound, EventIdsAreSound, RowsAreOwn,
              ClaimsCiteOwnSession, WindowIsOwn, CurrentRow
<1>7. ASSUME NEW w \in Workers, WorkerStep(w) PROVE PurgeInv'
  <2>1. ASSUME NEW locked \in SUBSET Key, Claim(w, locked) PROVE PurgeInv'
    BY <2>1, PurgeClaimStep
  <2>2. CASE EmptyTick(w)
    BY <1>6, <2>2 DEF EmptyTick
  <2>3. CASE Process(w)
    BY <2>3, PurgeMoveStep, PurgeLoadStep, PurgeCompleteStep, PurgeDeadLetterStep, PurgeRetryStep DEF Process
  <2>4. ASSUME NEW eid \in DOMAIN born, StageClaim(w, eid) PROVE PurgeInv'
    BY <2>4, PurgeStageStep
  <2>5. CASE Abort(w)
    BY <2>5, PurgeMoveStep
  <2> QED
    BY <1>7, <2>1, <2>2, <2>3, <2>4, <2>5 DEF WorkerStep, DrainStep
<1> QED
  BY <1>1, <1>2, <1>3, <1>4, <1>5, <1>6, <1>7 DEF NextWithPurge, Next

\* With the purge a number may be handed out twice; what is left of the
\* invariant still holds in every reachable state.
THEOREM PurgeInvariance == PurgeSpec => []PurgeInv
  BY InitPurgeInv, NextPurgeInv, PTL DEF PurgeSpec

\* Claims cite events of their own session (assert_evidence_cited), with the
\* scheduled purge of events beside the workers.
THEOREM ClaimsCiteWithPurge == PurgeSpec => []ClaimsCiteOwnSession
<1>1. PurgeInv => ClaimsCiteOwnSession
  BY DEF PurgeInv
<1> QED
  BY <1>1, PurgeInvariance, PTL

\* Queued windows stay sound (ck_memory_outbox_window) although the purge makes
\* MAX(seq) + 1 reuse the numbers that a queued window names.
THEOREM WindowsAreSoundWithPurge == PurgeSpec => []QueuedWindowsAreSound
<1>1. PurgeInv => QueuedWindowsAreSound
  BY DEF PurgeInv
<1> QED
  BY <1>1, PurgeInvariance, PTL

-----------------------------------------------------------------------------
(* The ranking of _claim. *)

\* A set of numbers has a least one.
LEMMA Smallest ==
  ASSUME NEW T, T \subseteq Nat, T # {}
  PROVE  \E x \in T : \A y \in T : x <= y
<1> DEFINE R == OpToRel(<, Nat)
<1>1. IsWellFoundedOn(R, Nat)
  BY NatLessThanWellFounded
<1>2. \A x, y \in Nat : x < y => <<x, y>> \in R
  BY DEF OpToRel
<1> HIDE DEF R
<1>3. \E x \in T : \A y \in T : ~ (<<y, x>> \in R)
  BY <1>1, WFMin
<1>4. PICK x \in T : \A y \in T : ~ (<<y, x>> \in R)
  BY <1>3
<1>5. \A y \in T : y \in Nat /\ x \in Nat /\ ~ (y < x)
  BY <1>2, <1>4
<1> QED
  BY <1>4, <1>5

\* Of the rows of a tenant one comes before all others.
LEMMA TenantHasOldest ==
  ASSUME TypeOK, RowsAreOwn, NEW tie \in TieBreak, NEW T, T \subseteq Eligible, T # {}
  PROVE  \E k \in T : \A j \in T : NotYounger(j, k, tie) => j = k
<1>1. \A k \in T : k \in Key /\ outbox[k] \in Row /\ outbox[k].oid \in Nat /\ outbox[k] # NoRow
  BY DEF Eligible, TypeOK, Row
<1>2. PICK x \in {outbox[k].oid : k \in T} : \A y \in {outbox[k].oid : k \in T} : x <= y
  BY <1>1, Smallest
<1> DEFINE O == {k \in T : outbox[k].oid = x}
<1>3. \A s \in Strategies : tie[s] \in Nat
  BY DEF TieBreak
<1>4. \A k \in T : k[2] \in Strategies /\ tie[k[2]] \in Nat /\ k = <<k[1], k[2]>>
  BY <1>1, <1>3 DEF Key
<1>5. PICK z \in {tie[k[2]] : k \in O} : \A y \in {tie[k[2]] : k \in O} : z <= y
  BY <1>2, <1>4, Smallest
<1>6. PICK k \in O : tie[k[2]] = z
  BY <1>5
<1>7. ASSUME NEW j \in T, NotYounger(j, k, tie) PROVE j = k
  <2>1. outbox[j].oid = x /\ outbox[k].oid = x /\ k \in T
    <3>1. x <= outbox[j].oid /\ outbox[k].oid = x /\ k \in T
      BY <1>2, <1>6
    <3>2. outbox[j].oid <= outbox[k].oid
      BY <1>1, <1>7, <3>1 DEF NotYounger
    <3> QED
      BY <1>1, <3>1, <3>2
  <2>2. tie[j[2]] = tie[k[2]]
    <3>1. tie[j[2]] <= tie[k[2]]
      BY <1>1, <1>7, <2>1 DEF NotYounger
    <3>2. tie[k[2]] <= tie[j[2]]
      BY <1>5, <1>6, <2>1
    <3> QED
      BY <1>4, <2>1, <3>1, <3>2
  <2>3. j[2] = k[2]
    BY <1>4, <1>6, <2>2 DEF TieBreak
  <2>4. j[1] = k[1]
    BY <1>1, <1>6, <2>1 DEF RowsAreOwn
  <2> QED
    BY <1>4, <1>6, <2>3, <2>4
<1> QED
  BY <1>6, <1>7

\* Age orders the eligible rows.
LEMMA AgeIsTotal ==
  ASSUME TypeOK, NEW tie \in TieBreak, NEW j \in Eligible, NEW k \in Eligible
  PROVE  NotYounger(j, k, tie) \/ NotYounger(k, j, tie)
<1>1. \A i \in Eligible : outbox[i] \in Row /\ i[2] \in Strategies
  BY DEF Eligible, TypeOK, Key
<1>2. \A i \in Eligible : outbox[i].oid \in Nat /\ tie[i[2]] \in Nat
  BY <1>1 DEF Row, TieBreak
<1> QED
  BY <1>2 DEF NotYounger

\* A rank is a number.
LEMMA RanksAreFinite ==
  ASSUME IsFiniteSet(Sessions), IsFiniteSet(Strategies)
  PROVE  \A S \in SUBSET Key : IsFiniteSet(S) /\ Cardinality(S) \in Nat
<1>1. IsFiniteSet(Key)
  BY FS_Product DEF Key
<1> QED
  BY <1>1, FS_Subset, FS_CardinalityType

\* Two members make a rank of two.
LEMMA PairCount ==
  ASSUME NEW S, IsFiniteSet(S), NEW x \in S, NEW y \in S, x # y
  PROVE  Cardinality(S) >= 2
<1>0. IsFiniteSet({x}) /\ Cardinality({x}) = 1
  BY FS_Singleton
<1>1. Cardinality({x} \cup {y}) = 1 + 1
  BY <1>0, FS_AddElement
<1>2. {x} \cup {y} \subseteq S
  OBVIOUS
<1> QED
  BY <1>1, <1>2, FS_Subset, FS_CardinalityType

\* Sets with as many members as there are indexes are indexed one to one.
LEMMA DistinctCount ==
  ASSUME NEW n \in Nat, NEW f, DOMAIN f = 1 .. n, f = [i \in 1 .. n |-> f[i]]
  PROVE  Cardinality({f[i] : i \in 1 .. n}) = n <=> \A i, j \in 1 .. n : i # j => f[i] # f[j]
<1> DEFINE T == {f[i] : i \in 1 .. n}
<1>1. f \in Surjection(1 .. n, T)
  BY DEF Surjection
<1>2. IsFiniteSet(1 .. n) /\ Cardinality(1 .. n) = n
  BY FS_Interval
<1>3. IsFiniteSet(T)
  BY <1>1, <1>2, FS_Surjection
<1>4. ASSUME Cardinality(T) = n PROVE \A i, j \in 1 .. n : i # j => f[i] # f[j]
  <2>1. f \in Injection(1 .. n, T)
    BY <1>1, <1>2, <1>3, <1>4, FS_SurjSameCardinalityImpliesInj
  <2> QED
    BY <2>1 DEF Injection, IsInjective
<1>5. ASSUME \A i, j \in 1 .. n : i # j => f[i] # f[j] PROVE Cardinality(T) = n
  <2>1. f \in Bijection(1 .. n, T)
    BY <1>1, <1>5 DEF Bijection, Injection, IsInjective, Surjection
  <2>2. ExistsBijection(1 .. n, T)
    BY <2>1 DEF ExistsBijection
  <2> QED
    BY <2>2, FS_CountingElements
<1> QED
  BY <1>4, <1>5

\* Two rows of one tenant in a batch have a row of rank two, which comes after
\* the oldest row of every tenant; so a tenant that is left out has none.
LEMMA ClaimIsFair ==
  ASSUME IsFiniteSet(Sessions), IsFiniteSet(Strategies), TypeOK, QueuedWindowsAreSound, RowsAreOwn,
         NEW w \in Workers
  PROVE  UnlockedClaimIsFair(w)
<1> DEFINE tenants == {Tenant[batch'[w][i].key[1]] : i \in DOMAIN batch'[w]}
<1> SUFFICES ASSUME Claim(w, {}), NEW k0 \in Eligible, Tenant[k0[1]] \notin tenants
             PROVE  Cardinality(tenants) = Len(batch'[w])
  BY DEF UnlockedClaimIsFair
<1>1. PICK ks \in BatchKeys({}), tie \in TieBreak :
        /\ IsBatch(ks, {}, tie)
        /\ batch' = [batch EXCEPT ![w] = [i \in DOMAIN ks |-> outbox[ks[i]]]]
  BY DEF Claim
<1>2. PICK n \in 1 .. BatchSize : ks \in [1 .. n -> Eligible]
  BY <1>1 DEF BatchKeys
<1>3. n \in Nat /\ DOMAIN ks = 1 .. n /\ ks = [i \in 1 .. n |-> ks[i]] /\ Len(ks) = n
  BY <1>2, ConstantsAssumption
<1> DEFINE f == [i \in 1 .. n |-> Tenant[ks[i][1]]]
<1>4. \A i \in 1 .. n : ks[i] \in Eligible /\ ks[i] \in Key /\ outbox[ks[i]].key = ks[i]
  BY <1>2 DEF Eligible, QueuedWindowsAreSound
<1>5. batch'[w] = [i \in 1 .. n |-> outbox[ks[i]]]
  BY <1>1, <1>3 DEF TypeOK
<1>6. DOMAIN batch'[w] = 1 .. n /\ Len(batch'[w]) = n
  BY <1>3, <1>5
<1>7. tenants = {f[i] : i \in 1 .. n}
  BY <1>4, <1>5, <1>6
<1> DEFINE taken == {ks[i] : i \in 1 .. n}
<1> HIDE DEF tenants
<1>8. \A i, j \in 1 .. n : i # j => ks[i] # ks[j]
  <2>1. Cardinality(taken) = n
    BY <1>1, <1>3 DEF IsBatch
  <2> QED
    BY <1>3, <2>1, DistinctCount
<1> DEFINE Same(k) == {j \in Eligible : Tenant[j[1]] = Tenant[k[1]] /\ NotYounger(j, k, tie)}
<1>9. \A k \in Key : IsFiniteSet(Same(k)) /\ Cardinality(Same(k)) \in Nat
  BY RanksAreFinite DEF Eligible
<1>10. PICK k1 \in Eligible : Tenant[k1[1]] = Tenant[k0[1]] /\ Same(k1) \subseteq {k1}
  <2> DEFINE T == {k \in Eligible : Tenant[k[1]] = Tenant[k0[1]]}
  <2>1. PICK k \in T : \A j \in T : NotYounger(j, k, tie) => j = k
    <3>1. T \subseteq Eligible /\ T # {}
      OBVIOUS
    <3> HIDE DEF T
    <3> QED
      BY <3>1, TenantHasOldest
  <2> QED
    BY <2>1
<1>11. Cardinality(Same(k1)) <= 1
  <2>1. IsFiniteSet({k1}) /\ Cardinality({k1}) = 1
    BY FS_Singleton
  <2> QED
    BY <1>10, <2>1, FS_Subset
<1>12. ASSUME NEW i \in 1 .. n, NEW j \in 1 .. n, i # j, f[i] = f[j],
              NotYounger(ks[i], ks[j], tie)
       PROVE  FALSE
  <2>1. NotYounger(ks[j], ks[j], tie)
    BY <1>4, AgeIsTotal
  <2>2. ks[i] \in Same(ks[j]) /\ ks[j] \in Same(ks[j]) /\ ks[i] # ks[j]
    BY <1>4, <1>8, <1>12, <2>1
  <2>3. Cardinality(Same(ks[j])) >= 2
    <3> HIDE DEF Same
    <3> QED
      BY <1>4, <1>9, <2>2, PairCount
  <2>4. k1 \in (Eligible \ {}) \ taken
    BY <1>7, <1>10
  <2>5. ClaimedBefore(ks[j], k1, tie)
    BY <1>1, <1>3, <2>4 DEF IsBatch
  <2>6. Cardinality(Same(k1)) \in Nat /\ Cardinality(Same(ks[j])) \in Nat
    BY <1>4, <1>9, <1>10 DEF Eligible
  <2>7. Cardinality(Same(ks[j])) <= Cardinality(Same(k1))
    <3>1. TenantRank(ks[j], tie) = Cardinality(Same(ks[j])) /\ TenantRank(k1, tie) = Cardinality(Same(k1))
      BY DEF TenantRank
    <3> HIDE DEF Same
    <3> QED
      BY <2>5, <2>6, <3>1 DEF ClaimedBefore
  <2> HIDE DEF Same
  <2> QED
    BY <1>11, <2>3, <2>6, <2>7
<1>13. \A i, j \in 1 .. n : i # j => f[i] # f[j]
  BY <1>4, <1>12, AgeIsTotal
<1>14. DOMAIN f = 1 .. n /\ f = [i \in 1 .. n |-> f[i]]
  OBVIOUS
<1> HIDE DEF f
<1> QED
  BY <1>3, <1>6, <1>7, <1>13, <1>14, DistinctCount

\* No tenant's backlog keeps another tenant out of a batch (the ranking of
\* _claim), with finitely many sessions and strategies, any batch size, and the
\* scheduled purge beside everything else.
THEOREM BatchesAreFair ==
  ASSUME IsFiniteSet(Sessions), IsFiniteSet(Strategies)
  PROVE  PurgeSpec => FairBatches
<1>1. PurgeInv => \A w \in Workers : UnlockedClaimIsFair(w)
  <2> SUFFICES ASSUME PurgeInv, NEW w \in Workers PROVE UnlockedClaimIsFair(w)
    OBVIOUS
  <2>1. TypeOK /\ QueuedWindowsAreSound /\ RowsAreOwn
    BY DEF PurgeInv
  <2> QED
    BY <2>1, ClaimIsFair
<1>2. PurgeInv => [\A w \in Workers : UnlockedClaimIsFair(w)]_vars
  BY <1>1
<1> QED
  BY <1>2, PurgeInvariance, PTL DEF FairBatches

-----------------------------------------------------------------------------
(* Erasure requests beside the drain *)

\* Whatever is left of the actor is younger than the request, and of an actor
\* that has kept silent nothing is left anywhere, in a worker's hands included.
LeftIsYounger(a) ==
    /\ \A e \in events : Actor[e.sess] = a => mark[a] < e.eid
    /\ \A w \in Workers : \A x \in window[w] : Actor[CurrentRow(w).key[1]] = a => mark[a] < x.eid
    /\ SilentSince(a) => /\ ~ DrainHolds(a, batch)
                         /\ \A k \in Key : Actor[k[1]] = a => outbox[k] = NoRow
                         /\ \A f \in failed : Actor[f.key[1]] # a

\* How far a request has come, and what it has achieved by then if no worker
\* overlapped it.
RequestInv(a) ==
    /\ reported[a] => position[a] = 0
    /\ position[a] # 3 => erasing[a] = 0
    /\ erasing[a] # 0 => mark[a] < erasing[a]
    /\ mark[a] <= Len(born)
    /\ position[a] = 3 /\ ~ overlapped[a] => ~ DrainHolds(a, batch)
    /\ (position[a] = 4 \/ reported[a]) /\ ~ overlapped[a] => LeftIsYounger(a)

RequestTypeOK ==
    /\ position \in [Actors -> 0 .. 4]
    /\ reported \in [Actors -> BOOLEAN]
    /\ mark \in [Actors -> Nat]
    /\ standing \in [Actors -> SUBSET Nat]
    /\ overlapped \in [Actors -> BOOLEAN]

\* A claim that never cited but its author's own events is one that extraction
\* staged for that author.
OwnIsOwn ==
    \A c \in DOMAIN claims : claims[c].own =>
        /\ c[3] = NoActor /\ ~ claims[c].external
        /\ \A n \in claims[c].refs : n \in DOMAIN born /\ Actor[born[n]] = Actor[c[1][1]]

ClaimsInv ==
    /\ DOMAIN claims \subseteq ClaimId
    /\ \A c \in DOMAIN claims : claims[c] \in ClaimRow
    /\ OwnIsOwn
    /\ ChainsAreWhole

\* Once the claims are erased they stay erased, unless a worker overlapped.
ClaimsErased(a) ==
    /\ \A n \in standing[a] : n <= mark[a] /\ n \in DOMAIN born /\ Actor[born[n]] = a
    /\ (position[a] \in {3, 4} \/ reported[a]) /\ ~ overlapped[a] => ClaimsGone(a)

RequestsInv ==
    /\ IInv
    /\ RequestTypeOK
    /\ \A a \in Actors : RequestInv(a)

ErasureInv ==
    /\ RequestsInv
    /\ ClaimsInv
    /\ \A a \in Actors : ClaimsErased(a)

LEMMA ParticipantFacts ==
  /\ Len(Participants) = 4 /\ Participants[1] = "workspace" /\ Participants[2] = "claims"
  /\ Participants[3] = "session_memory" /\ Participants[4] = "embeddings"
  BY DEF Participants

\* Where a running participant puts the request.
LEMMA RunningFacts ==
  ASSUME RequestTypeOK, NEW a \in Actors
  PROVE  /\ Running(a, "claims") => position[a] = 2
         /\ Running(a, "session_memory") <=> position[a] = 3
         /\ Running(a, "workspace") \/ Running(a, "embeddings") => position[a] \in {1, 4}
<1>1. position[a] \in {0, 1, 2, 3, 4}
  BY DEF RequestTypeOK
<1> QED
  BY <1>1, ParticipantFacts DEF Running

LEMMA AdvanceFacts ==
  ASSUME RequestTypeOK, NEW b \in Actors, position[b] # 0, Advance(b), overlapped' \in [Actors -> BOOLEAN],
         standing' \in [Actors -> SUBSET Nat]
  PROVE  /\ RequestTypeOK' /\ mark' = mark
         /\ \A a \in Actors : a # b => position'[a] = position[a] /\ reported'[a] = reported[a]
         /\ position[b] = 4 => position'[b] = 0
         /\ position[b] # 4 => position'[b] = position[b] + 1 /\ ~ reported'[b]
<1>1. /\ position' = [position EXCEPT ![b] = IF position[b] = 4 THEN 0 ELSE position[b] + 1]
      /\ reported' = [reported EXCEPT ![b] = (position[b] = 4)]
      /\ mark' = mark
  BY ParticipantFacts DEF Advance
<1>2. position[b] \in 0 .. 4 /\ position \in [Actors -> 0 .. 4]
  BY DEF RequestTypeOK
<1>3. position' \in [Actors -> 0 .. 4]
  BY <1>1, <1>2
<1>4. reported' \in [Actors -> BOOLEAN] /\ reported'[b] = (position[b] = 4)
  BY <1>1 DEF RequestTypeOK
<1>5. \A a \in Actors : a # b => position'[a] = position[a] /\ reported'[a] = reported[a]
  BY <1>1 DEF RequestTypeOK
<1>6. RequestTypeOK'
  BY <1>1, <1>3, <1>4 DEF RequestTypeOK
<1> QED
  BY <1>1, <1>2, <1>4, <1>5, <1>6

-----------------------------------------------------------------------------
(* What the drain and its clients may do to an actor's data *)

\* New events get new numbers; nothing else is born.
EventsEffect ==
    /\ born' = born \/ \E s \in Sessions : born' = Append(born, s)
    /\ \A e \in events' : \/ \E d \in events : d.eid = e.eid /\ d.sess = e.sess
                          \/ e.eid = Len(born) + 1 /\ born' = Append(born, e.sess)

\* A row is queued only with an event, a dead letter written only for a batch.
QueueEffect ==
    /\ \A k \in Key : outbox'[k] = NoRow \/ outbox[k] # NoRow \/ born' = Append(born, k[1])
    /\ \A f \in failed' : f \in failed \/ \E w \in Workers : batch[w] # << >> /\ f.key = CurrentRow(w).key

\* Batches come from the queue, windows from the log.
WorkerEffect ==
    /\ \A w \in Workers : \A i \in DOMAIN batch'[w] :
        \/ \E j \in DOMAIN batch[w] : batch'[w][i] = batch[w][j]
        \/ \E k \in Key : outbox[k] # NoRow /\ batch'[w][i].key = k
    /\ \A w \in Workers : \A x \in window'[w] :
        \/ x \in window[w] /\ CurrentRow(w)' = CurrentRow(w)
        \/ \E e \in events : e.eid = x.eid /\ e.sess = CurrentRow(w)'.key[1]

Effect == EventsEffect /\ QueueEffect /\ WorkerEffect /\ UNCHANGED erasing

\* The sessions of events that were written do not change.
LEMMA BornGrows ==
  ASSUME born \in Seq(Sessions), EventsEffect
  PROVE  \A n \in DOMAIN born : n \in DOMAIN born' /\ born'[n] = born[n]
<1>1. CASE born' = born
  BY <1>1
<1>2. ASSUME NEW s \in Sessions, born' = Append(born, s)
      PROVE  \A n \in DOMAIN born : n \in DOMAIN born' /\ born'[n] = born[n]
  BY <1>2
<1> QED
  BY <1>1, <1>2 DEF EventsEffect

LEMMA EventsKept == ASSUME UNCHANGED <<events, born>> PROVE EventsEffect
  BY DEF EventsEffect

LEMMA QueueKept == ASSUME UNCHANGED <<outbox, failed>> PROVE QueueEffect
  BY DEF QueueEffect

LEMMA WorkersKept == ASSUME UNCHANGED <<batch, window>> PROVE WorkerEffect
  BY DEF WorkerEffect, CurrentRow

LEMMA RecordEventEffect ==
  ASSUME IInv, NEW s \in Sessions, RecordEvent(s)
  PROVE  Effect
<1>1. PICK q \in 1 .. MaxEvents + 1 :
        /\ events' = events \cup {[eid |-> Len(born) + 1, sess |-> s, seq |-> q, live |-> TRUE]}
        /\ outbox' = [k \in Key |-> IF k[1] = s THEN EnqueueExtraction(k, q, Len(born) + 1) ELSE outbox[k]]
  BY DEF RecordEvent
<1>2. /\ born' = Append(born, s)
      /\ UNCHANGED <<failed, erasing, pc, batch, window, upto, provenance>>
  BY DEF RecordEvent, workerVars
<1>3. EventsEffect
  BY <1>1, <1>2 DEF EventsEffect
<1>4. QueueEffect
  BY <1>1, <1>2 DEF QueueEffect
<1> QED
  BY <1>2, <1>3, <1>4, WorkersKept DEF Effect

LEMMA InvalidateEffect ==
  ASSUME IInv, NEW E \in SUBSET events, events' = Invalidated(E),
         UNCHANGED <<born, queueVars, erasing, workerVars, provenance>>
  PROVE  Effect
<1>1. UNCHANGED <<born, outbox, failed, erasing, batch, window, provenance>>
  BY DEF queueVars, workerVars
<1>2. \A e \in events : [e EXCEPT !.live = FALSE].eid = e.eid /\ [e EXCEPT !.live = FALSE].sess = e.sess
  BY DEF IInv, TypeOK, Event
<1>3. EventsEffect
  BY <1>1, <1>2 DEF EventsEffect, Invalidated
<1> QED
  BY <1>1, <1>3, QueueKept, WorkersKept DEF Effect

LEMMA ClientEffect == ASSUME IInv, ClientStep PROVE Effect
<1>1. CASE \E s \in Sessions : RecordEvent(s)
  BY <1>1, RecordEventEffect
<1>2. ASSUME NEW e \in events, DeleteEvent(e) PROVE Effect
  <2>1. {e} \in SUBSET events
    OBVIOUS
  <2> QED
    BY <1>2, <2>1, InvalidateEffect DEF DeleteEvent
<1>3. ASSUME NEW E \in SUBSET events, ExpireBatch(E) PROVE Effect
  BY <1>3, InvalidateEffect DEF ExpireBatch
<1>4. ASSUME NEW t \in Tenants, NEW st \in Strategies, SetEnabled(t, st) PROVE Effect
  BY <1>4, EventsKept, QueueKept, WorkersKept DEF SetEnabled, Effect, queueVars, workerVars
<1> QED
  BY <1>1, <1>2, <1>3, <1>4 DEF ClientStep

LEMMA BackoffEffect == ASSUME IInv, NEW k \in Key, BackoffElapses(k) PROVE Effect
<1>1. /\ outbox[k] # NoRow /\ outbox' = [outbox EXCEPT ![k].waiting = FALSE]
      /\ UNCHANGED <<events, born, failed, erasing, batch, window, provenance>>
  BY DEF BackoffElapses, workerVars
<1>2. QueueEffect
  BY <1>1 DEF QueueEffect, IInv, TypeOK
<1> QED
  BY <1>1, <1>2, EventsKept, WorkersKept DEF Effect

LEMMA ClaimBatchEffect ==
  ASSUME IInv, NEW w \in Workers, NEW locked, Claim(w, locked)
  PROVE  Effect
<1>1. PICK ks \in BatchKeys(locked) : batch' = [batch EXCEPT ![w] = [i \in DOMAIN ks |-> outbox[ks[i]]]]
  BY DEF Claim
<1>2. PICK n \in 1 .. BatchSize : ks \in [1 .. n -> Eligible \ locked]
  BY DEF BatchKeys
<1>3. \A i \in DOMAIN ks : ks[i] \in Key /\ outbox[ks[i]] # NoRow /\ outbox[ks[i]].key = ks[i]
  BY <1>2 DEF Eligible, IInv, QueuedWindowsAreSound
<1>4. UNCHANGED <<events, born, outbox, failed, erasing, window, provenance>> /\ pc[w] = "idle"
  BY DEF Claim, queueVars
<1>5. window[w] = {}
  BY <1>4 DEF IInv, WorkerIsSound
<1>6. /\ batch'[w] = [i \in DOMAIN ks |-> outbox[ks[i]]]
      /\ \A v \in Workers : v # w => batch'[v] = batch[v]
  BY <1>1 DEF IInv, TypeOK
<1>7. WorkerEffect
  <2>1. ASSUME NEW v \in Workers, NEW i \in DOMAIN batch'[v]
        PROVE  \/ \E j \in DOMAIN batch[v] : batch'[v][i] = batch[v][j]
               \/ \E k \in Key : outbox[k] # NoRow /\ batch'[v][i].key = k
    BY <1>3, <1>6, <2>1
  <2>2. ASSUME NEW v \in Workers, NEW x \in window'[v] PROVE x \in window[v] /\ CurrentRow(v)' = CurrentRow(v)
    BY <1>4, <1>5, <1>6, <2>2 DEF CurrentRow
  <2> QED
    BY <2>1, <2>2 DEF WorkerEffect
<1> QED
  BY <1>4, <1>7, EventsKept, QueueKept DEF Effect

\* Finishing a row drops it and the window.
LEMMA FinishEffect ==
  ASSUME IInv, NEW w \in Workers, batch[w] # << >>, FinishRow(w)
  PROVE  WorkerEffect
<1>1. batch' = [batch EXCEPT ![w] = Tail(batch[w])] /\ window' = [window EXCEPT ![w] = {}]
  BY DEF FinishRow
<1>2. /\ batch'[w] = Tail(batch[w]) /\ window'[w] = {}
      /\ \A v \in Workers : v # w => batch'[v] = batch[v] /\ window'[v] = window[v]
  BY <1>1 DEF IInv, TypeOK
<1>3. \A i \in DOMAIN Tail(batch[w]) : i + 1 \in DOMAIN batch[w] /\ Tail(batch[w])[i] = batch[w][i + 1]
  BY BatchRows DEF IInv
<1>4. ASSUME NEW v \in Workers, NEW i \in DOMAIN batch'[v] PROVE \E j \in DOMAIN batch[v] : batch'[v][i] = batch[v][j]
  <2>1. CASE v = w
    BY <1>2, <1>3, <1>4, <2>1
  <2>2. CASE v # w
    BY <1>2, <1>4, <2>2
  <2> QED
    BY <2>1, <2>2
<1>5. ASSUME NEW v \in Workers, NEW x \in window'[v] PROVE x \in window[v] /\ CurrentRow(v)' = CurrentRow(v)
  BY <1>2, <1>5 DEF CurrentRow
<1> QED
  BY <1>4, <1>5 DEF WorkerEffect

LEMMA ProcessEffect == ASSUME IInv, NEW w \in Workers, Process(w) PROVE Effect
<1>1. CASE NextRow(w) \/ Extract(w)
  BY <1>1, EventsKept, QueueKept, WorkersKept DEF NextRow, Extract, Effect, queueVars
<1>2. CASE LoadWindow(w)
  <2>1. /\ UNCHANGED <<events, born, outbox, failed, erasing, batch, provenance>>
    BY <1>2 DEF LoadWindow, queueVars
  <2>2. window' = window \/ \E W \in SUBSET LiveInWindow(CurrentRow(w)) : window' = [window EXCEPT ![w] = W]
    BY <1>2 DEF LoadWindow
  <2>3. CASE window' = window
    BY <2>1, <2>3, EventsKept, QueueKept, WorkersKept DEF Effect
  <2>4. ASSUME NEW W \in SUBSET LiveInWindow(CurrentRow(w)), window' = [window EXCEPT ![w] = W] PROVE WorkerEffect
    <3>1. window'[w] = W /\ (\A v \in Workers : v # w => window'[v] = window[v])
      BY <2>4 DEF IInv, TypeOK
    <3>2. \A x \in W : x \in events /\ x.sess = CurrentRow(w).key[1]
      BY DEF LiveInWindow, EventsOf
    <3>3. \A v \in Workers : CurrentRow(v)' = CurrentRow(v)
      BY <2>1 DEF CurrentRow
    <3> QED
      BY <2>1, <3>1, <3>2, <3>3 DEF WorkerEffect
  <2> QED
    BY <2>1, <2>2, <2>3, <2>4, EventsKept, QueueKept DEF Effect
<1>3. CASE Complete(w) \/ DeadLetter(w) \/ ScheduleRetry(w)
  <2> DEFINE r == CurrentRow(w)
  <2>1. batch[w] # << >>
    BY <1>3 DEF IInv, WorkerIsSound, Complete, DeadLetter, ScheduleRetry
  <2>2. r \in Row /\ r.key \in Key
    BY <2>1, BatchRows, RowFields DEF IInv
  <2>3. FinishRow(w) /\ UNCHANGED <<events, born, erasing, provenance>>
    BY <1>3 DEF Complete, DeadLetter, ScheduleRetry
  <2>4. \E row : outbox' = [outbox EXCEPT ![r.key] = row] /\ (outbox[r.key] = NoRow => row = NoRow)
    BY <1>3, <2>2 DEF Complete, DeadLetter, ScheduleRetry, DeadLetterRow, CompletedRow, IsQueued, IInv, TypeOK
  <2>5. \A f \in failed' : f \in failed \/ f.key = r.key
    BY <1>3 DEF Complete, DeadLetter, ScheduleRetry, DeadLetterRow
  <2> HIDE DEF r
  <2>6. \A k \in Key : outbox'[k] = NoRow \/ outbox[k] # NoRow
    BY <2>2, <2>4 DEF IInv, TypeOK
  <2>7. QueueEffect
    BY <2>1, <2>5, <2>6 DEF QueueEffect, r
  <2> QED
    BY <2>1, <2>3, <2>7, FinishEffect, EventsKept DEF Effect
<1> QED
  BY <1>1, <1>2, <1>3 DEF Process

LEMMA WorkerStepEffect == ASSUME IInv, NEW w \in Workers, WorkerStep(w) PROVE Effect
<1>1. CASE \E locked \in SUBSET Key : Claim(w, locked)
  BY <1>1, ClaimBatchEffect
<1>2. CASE EmptyTick(w)
  BY <1>2, EventsKept, QueueKept, WorkersKept DEF EmptyTick, vars, Effect
<1>3. CASE Process(w)
  BY <1>3, ProcessEffect
<1>4. ASSUME NEW eid \in DOMAIN born, StageClaim(w, eid) PROVE Effect
  <2>1. /\ pc[w] = "stage" /\ provenance' = provenance \cup {<<CurrentRow(w).key, eid>>}
        /\ UNCHANGED <<events, born, outbox, failed, erasing, batch, window>>
    BY <1>4 DEF StageClaim, queueVars, workerVars
  <2> QED
    BY <2>1, EventsKept, QueueKept, WorkersKept DEF Effect
<1>5. CASE Abort(w)
  <2>1. /\ batch' = [batch EXCEPT ![w] = << >>] /\ window' = [window EXCEPT ![w] = {}]
        /\ UNCHANGED <<events, born, outbox, failed, erasing, provenance>>
    BY <1>5 DEF Abort, queueVars
  <2>2. /\ batch'[w] = << >> /\ window'[w] = {}
        /\ \A v \in Workers : v # w => batch'[v] = batch[v] /\ window'[v] = window[v]
    BY <2>1 DEF IInv, TypeOK
  <2>3. WorkerEffect
    BY <2>2 DEF WorkerEffect, CurrentRow
  <2> QED
    BY <2>1, <2>3, EventsKept, QueueKept DEF Effect
<1> QED
  BY <1>1, <1>2, <1>3, <1>4, <1>5 DEF WorkerStep, DrainStep

-----------------------------------------------------------------------------
(* The steps of the composition *)

\* The row a worker is at is in its batch.
LEMMA CurrentIsHeld ==
  ASSUME IInv, NEW a, NEW w \in Workers, batch[w] # << >>, Actor[CurrentRow(w).key[1]] = a
  PROVE  DrainHolds(a, batch)
  BY BatchRows DEF IInv, DrainHolds

LEMMA MeanwhileKeepsYounger ==
  ASSUME IInv, IInv', NEW a \in Actors, mark[a] \in Nat, mark' = mark, mark[a] <= Len(born),
         Effect, LeftIsYounger(a)
  PROVE  LeftIsYounger(a)'
<1>1. born \in Seq(Sessions) /\ Len(born) \in Nat
  BY DEF IInv, TypeOK
<1>2. \A s \in Sessions : born' = Append(born, s) => Len(born) + 1 \in DOMAIN born' /\ born'[Len(born) + 1] = s
  BY <1>1
<1>3. ASSUME SilentSince(a)' PROVE SilentSince(a)
  <2>1. \A n \in DOMAIN born : n \in DOMAIN born' /\ born'[n] = born[n]
    BY <1>1, BornGrows DEF Effect
  <2> QED
    BY <1>3, <2>1 DEF SilentSince
<1>4. ASSUME SilentSince(a)', NEW s \in Sessions, born' = Append(born, s) PROVE Actor[s] # a
  <2>1. Len(born) + 1 \in DOMAIN born' /\ born'[Len(born) + 1] = s /\ Len(born) + 1 > mark'[a]
    BY <1>1, <1>2, <1>4
  <2> QED
    BY <1>4, <2>1 DEF SilentSince
<1>5. \A e \in events' : Actor[e.sess] = a => mark'[a] < e.eid
  BY <1>1 DEF Effect, EventsEffect, LeftIsYounger
<1>6. ASSUME NEW w \in Workers, NEW x \in window'[w], Actor[CurrentRow(w)'.key[1]] = a PROVE mark'[a] < x.eid
  <2>1. CASE x \in window[w] /\ CurrentRow(w)' = CurrentRow(w)
    BY <1>6, <2>1 DEF LeftIsYounger
  <2>2. CASE \E e \in events : e.eid = x.eid /\ e.sess = CurrentRow(w)'.key[1]
    BY <1>6, <2>2 DEF LeftIsYounger
  <2> QED
    BY <1>6, <2>1, <2>2 DEF Effect, WorkerEffect
<1>8. ASSUME SilentSince(a)' PROVE ~ DrainHolds(a, batch')
  <2>1. SUFFICES ASSUME NEW w \in Workers, NEW i \in DOMAIN batch'[w], Actor[batch'[w][i].key[1]] = a
                 PROVE  FALSE
    BY DEF DrainHolds
  <2>2. CASE \E j \in DOMAIN batch[w] : batch'[w][i] = batch[w][j]
    BY <1>3, <1>8, <2>1, <2>2 DEF LeftIsYounger, DrainHolds
  <2>3. CASE \E k \in Key : outbox[k] # NoRow /\ batch'[w][i].key = k
    BY <1>3, <1>8, <2>1, <2>3 DEF LeftIsYounger
  <2> QED
    BY <2>2, <2>3 DEF Effect, WorkerEffect
<1>9. ASSUME SilentSince(a)', NEW k \in Key, Actor[k[1]] = a PROVE outbox'[k] = NoRow
  <2>1. outbox[k] = NoRow /\ k[1] \in Sessions
    BY <1>3, <1>9, KeyFields DEF LeftIsYounger
  <2>2. born' # Append(born, k[1])
    BY <1>4, <1>9, <2>1
  <2> QED
    BY <2>1, <2>2 DEF Effect, QueueEffect
<1>10. ASSUME SilentSince(a)', NEW f \in failed', Actor[f.key[1]] = a PROVE FALSE
  <2>1. ~ DrainHolds(a, batch) /\ f \notin failed
    BY <1>3, <1>10 DEF LeftIsYounger
  <2>2. PICK w \in Workers : batch[w] # << >> /\ f.key = CurrentRow(w).key
    BY <2>1 DEF Effect, QueueEffect
  <2> QED
    BY <1>10, <2>1, <2>2, CurrentIsHeld
<1> QED
  BY <1>5, <1>6, <1>8, <1>9, <1>10 DEF LeftIsYounger

LEMMA MeanwhileStep ==
  ASSUME RequestsInv, Meanwhile
  PROVE  RequestsInv' /\ Effect
<1>0. ClientStep \/ (\E k \in Key : BackoffElapses(k)) \/ (\E w \in Workers : WorkerStep(w)) \/ UNCHANGED vars
  <2>1. WriteClaim => (\E w \in Workers : WorkerStep(w)) \/ UNCHANGED vars
    <3>1. ASSUME NEW w \in Workers, NEW eid \in DOMAIN born, StageErasable(w, eid) PROVE WorkerStep(w)
      BY <3>1 DEF StageErasable, WorkerStep
    <3>2. \A c \in DOMAIN claims, b \in Actors : Confirm(c, b) => UNCHANGED vars
      BY DEF Confirm
    <3>3. \A c, d \in DOMAIN claims, duplicate \in BOOLEAN : Consolidate(c, d, duplicate) => UNCHANGED vars
      BY DEF Consolidate
    <3> QED
      BY <3>1, <3>2, <3>3 DEF WriteClaim
  <2>2. \A w \in Workers : DrainStep(w) => WorkerStep(w)
    BY DEF WorkerStep
  <2> QED
    BY <2>1, <2>2 DEF Meanwhile
<1>1. IInv /\ IInv'
  <2>1. Next \/ UNCHANGED vars
    BY <1>0 DEF Next
  <2> QED
    BY <2>1, NextIInv DEF RequestsInv
<1>2. Effect
  <2>1. CASE UNCHANGED vars
    BY <2>1, EventsKept, QueueKept, WorkersKept DEF vars, Effect
  <2> QED
    BY <1>0, <1>1, <2>1, ClientEffect, BackoffEffect, WorkerStepEffect
<1>3. /\ UNCHANGED <<position, reported, mark, standing>> /\ erasing' = erasing
      /\ overlapped' = [a \in Actors |-> overlapped[a] \/ (Running(a, "session_memory") /\ DrainHolds(a, batch'))]
  BY <1>2 DEF Meanwhile, Effect, requestVars
<1>4. RequestTypeOK'
  BY <1>3 DEF RequestsInv, RequestTypeOK
<1>5. ASSUME NEW a \in Actors PROVE RequestInv(a)'
  <2>1. RequestInv(a) /\ mark[a] \in Nat
    BY DEF RequestsInv, RequestTypeOK
  <2>2. ~ overlapped'[a] => ~ overlapped[a] /\ (position[a] = 3 => ~ DrainHolds(a, batch'))
    BY <1>3, RunningFacts DEF RequestsInv
  <2>3. mark'[a] <= Len(born')
    <3>1. born \in Seq(Sessions) /\ Len(born) \in Nat
      BY <1>1 DEF IInv, TypeOK
    <3>2. Len(born) <= Len(born') /\ Len(born') \in Nat
      BY <1>2, <3>1 DEF Effect, EventsEffect
    <3> QED
      BY <1>3, <2>1, <3>1, <3>2 DEF RequestInv
  <2>5. LeftIsYounger(a) => LeftIsYounger(a)'
    BY <1>1, <1>2, <1>3, <2>1, MeanwhileKeepsYounger DEF RequestInv
  <2> QED
    BY <1>3, <2>1, <2>2, <2>3, <2>5 DEF RequestInv
<1> QED
  BY <1>1, <1>2, <1>4, <1>5 DEF RequestsInv

\* A step that only takes rows away leaves a request where it was.
LEMMA ShrinkKeeps ==
  ASSUME NEW a \in Actors, events' \subseteq events, failed' \subseteq failed,
         \A k \in Key : outbox'[k] = outbox[k] \/ outbox'[k] = NoRow,
         UNCHANGED <<born, batch, window>>, mark'[a] = mark[a]
  PROVE  /\ LeftIsYounger(a) => LeftIsYounger(a)'
         /\ DrainHolds(a, batch') <=> DrainHolds(a, batch)
<1>1. SilentSince(a)' <=> SilentSince(a)
  BY DEF SilentSince
<1>2. \A w \in Workers : CurrentRow(w)' = CurrentRow(w)
  BY DEF CurrentRow
<1> QED
  BY <1>1, <1>2 DEF LeftIsYounger, DrainHolds

LEMMA OtherRequest ==
  ASSUME NEW a \in Actors, RequestInv(a),
         events' \subseteq events, failed' \subseteq failed,
         \A k \in Key : outbox'[k] = outbox[k] \/ outbox'[k] = NoRow,
         UNCHANGED <<born, batch, window>>, mark'[a] = mark[a],
         position'[a] = position[a], reported'[a] = reported[a], overlapped'[a] = overlapped[a],
         erasing'[a] = erasing[a]
  PROVE  RequestInv(a)'
  BY ShrinkKeeps DEF RequestInv

\* Ending a transaction touches no part of the drain's invariant.
LEMMA LesserStep ==
  ASSUME IInv, provenance' = provenance, erasing' \in [Actors -> Nat],
         UNCHANGED <<events, born, queueVars, enabled, workerVars, historyVars, boundVars>>
  PROVE  IInv'
<1>1. UNCHANGED <<events, born, queueVars, historyVars>> /\ UNCHANGED <<pc, batch, window, upto>>
  BY DEF workerVars
<1>2. TypeOK' /\ ClaimsCiteOwnSession'
  BY DEF IInv, TypeOK, ClaimsCiteOwnSession, queueVars, workerVars, historyVars, boundVars
<1>3. \A w \in Workers : WorkerIsSound(w)'
  BY <1>1, TablesUnchanged DEF IInv, WorkerIsSound, CurrentRow
<1>4. \A w \in Workers : \A i \in DOMAIN batch'[w] : SnapshotIsSound(batch[w][i])'
  BY <1>1, TablesUnchanged DEF IInv
<1> QED
  BY <1>1, <1>2, <1>3, <1>4, TablesUnchanged DEF IInv

LEMMA SendRequestStep ==
  ASSUME RequestsInv, NEW b \in Actors, SendRequest(b)
  PROVE  RequestsInv'
<1>1. /\ position[b] = 0 /\ position' = [position EXCEPT ![b] = 1] /\ reported' = [reported EXCEPT ![b] = FALSE]
      /\ mark' = [mark EXCEPT ![b] = Len(born)] /\ standing' = [standing EXCEPT ![b] = {}]
      /\ UNCHANGED <<vars, overlapped>>
  BY DEF SendRequest
<1>2. UNCHANGED <<events, born, outbox, failed, erasing, batch, window, provenance>>
  BY <1>1 DEF vars
<1>3. IInv' /\ Len(born) \in Nat
  BY <1>1, StutterStep DEF RequestsInv, IInv, TypeOK
<1>4. RequestTypeOK'
  BY <1>1, <1>3 DEF RequestsInv, RequestTypeOK
<1>5. ASSUME NEW a \in Actors PROVE RequestInv(a)'
  <2>1. CASE a = b
    <3>1. position'[a] = 1 /\ ~ reported'[a] /\ mark'[a] = Len(born) /\ erasing[a] = 0
      BY <1>1, <2>1 DEF RequestsInv, RequestTypeOK, RequestInv
    <3> QED
      BY <1>2, <1>3, <3>1 DEF RequestInv
  <2>2. CASE a # b
    <3>1. position'[a] = position[a] /\ reported'[a] = reported[a] /\ mark'[a] = mark[a]
      BY <1>1, <2>2 DEF RequestsInv, RequestTypeOK
    <3> QED
      BY <1>1, <1>2, <3>1, OtherRequest DEF RequestsInv
  <2> QED
    BY <2>1, <2>2
<1> QED
  BY <1>3, <1>4, <1>5 DEF RequestsInv

LEMMA EraseClaimsStep ==
  ASSUME RequestsInv, NEW b \in Actors, EraseClaims(b)
  PROVE  RequestsInv'
<1>1. /\ Running(b, "claims") /\ Advance(b) /\ UNCHANGED vars
      /\ overlapped' = [overlapped EXCEPT ![b] = DrainHolds(b, batch)]
      /\ standing' = [standing EXCEPT ![b] = {n \in EventIdsOf(b) : n <= mark[b]}]
  BY DEF EraseClaims
<1>2. UNCHANGED <<events, born, outbox, failed, erasing, batch, window>>
  BY <1>1 DEF vars
<1>3. IInv' /\ standing' \in [Actors -> SUBSET Nat]
  <2>1. EventIdsOf(b) \subseteq Nat
    BY EventFields DEF RequestsInv, IInv, TypeOK, EventIdsOf
  <2> QED
    BY <1>1, <2>1, StutterStep DEF RequestsInv, RequestTypeOK
<1>4. position[b] = 2
  BY <1>1, RunningFacts DEF RequestsInv
<1>5. /\ overlapped' \in [Actors -> BOOLEAN] /\ overlapped'[b] = DrainHolds(b, batch)
      /\ \A a \in Actors : a # b => overlapped'[a] = overlapped[a]
  BY <1>1 DEF RequestsInv, RequestTypeOK, DrainHolds
<1>6. /\ RequestTypeOK' /\ mark' = mark
      /\ \A a \in Actors : a # b => position'[a] = position[a] /\ reported'[a] = reported[a]
      /\ position'[b] = 3 /\ ~ reported'[b]
  BY <1>1, <1>3, <1>4, <1>5, AdvanceFacts DEF RequestsInv
<1>7. ASSUME NEW a \in Actors PROVE RequestInv(a)'
  <2>1. CASE a = b
    <3>1. erasing[a] = 0 /\ mark[a] <= Len(born)
      BY <1>4, <2>1 DEF RequestsInv, RequestInv
    <3>2. ~ overlapped'[a] => ~ DrainHolds(a, batch')
      BY <1>2, <1>5, <2>1
    <3> QED
      BY <1>2, <1>3, <1>6, <2>1, <3>1, <3>2 DEF RequestInv
  <2>2. CASE a # b
    BY <1>1, <1>2, <1>5, <1>6, <2>2, OtherRequest DEF RequestsInv
  <2> QED
    BY <2>1, <2>2
<1> QED
  BY <1>3, <1>6, <1>7 DEF RequestsInv

LEMMA BeginEraseSessionMemoryStep ==
  ASSUME RequestsInv, NEW b \in Actors, BeginEraseSessionMemory(b)
  PROVE  RequestsInv'
<1>1. /\ Running(b, "session_memory") /\ BeginEraseActorEvents(b)
      /\ UNCHANGED <<changes, position, reported, requests, mark, standing, overlapped>>
  BY DEF BeginEraseSessionMemory, requestVars
<1>2. /\ erasing' = [erasing EXCEPT ![b] = Len(born) + 1]
      /\ UNCHANGED <<events, born, outbox, failed, batch, window, provenance>>
  BY <1>1 DEF BeginEraseActorEvents, queueVars, workerVars
<1>3. IInv'
  BY <1>1, BeginEraseStep DEF RequestsInv, IInv, TypeOK
<1>4. Len(born) \in Nat /\ position[b] = 3 /\ erasing \in [Actors -> Nat]
  BY <1>1, RunningFacts DEF RequestsInv, IInv, TypeOK
<1>5. RequestTypeOK'
  BY <1>1 DEF RequestsInv, RequestTypeOK
<1>6. ASSUME NEW a \in Actors PROVE RequestInv(a)'
  <2>1. CASE a = b
    <3>1. erasing'[a] = Len(born) + 1
      BY <1>2, <1>4, <2>1
    <3>2. mark[a] \in Nat /\ RequestInv(a)
      BY DEF RequestsInv, RequestTypeOK
    <3>3. /\ LeftIsYounger(a) => LeftIsYounger(a)'
           /\ DrainHolds(a, batch') <=> DrainHolds(a, batch)
      BY <1>1, <1>2, ShrinkKeeps
    <3> QED
      BY <1>1, <1>2, <1>4, <2>1, <3>1, <3>2, <3>3 DEF RequestInv
  <2>2. CASE a # b
    BY <1>1, <1>2, <1>4, <2>2, OtherRequest DEF RequestsInv
  <2> QED
    BY <2>1, <2>2
<1> QED
  BY <1>3, <1>5, <1>6 DEF RequestsInv

LEMMA EraseSessionMemoryStep ==
  ASSUME RequestsInv, NEW b \in Actors, EraseSessionMemory(b)
  PROVE  RequestsInv'
<1>1. Running(b, "session_memory") /\ EraseActorEvents(b) /\ Advance(b)
      /\ UNCHANGED <<changes, standing, overlapped>>
  BY DEF EraseSessionMemory
<1>2. /\ erasing[b] # 0 /\ erasing' = [erasing EXCEPT ![b] = 0]
      /\ events' = events \ {e \in Doomed : Actor[e.sess] = b}
      /\ outbox' = [k \in Key |-> IF Actor[k[1]] = b THEN NoRow ELSE outbox[k]]
      /\ failed' = {f \in failed : Actor[f.key[1]] # b}
      /\ UNCHANGED <<born, batch, window, provenance>>
  BY <1>1 DEF EraseActorEvents, workerVars
<1>3. IInv'
  BY <1>1, EraseStep DEF RequestsInv, IInv, TypeOK
<1>4. position[b] = 3
  BY <1>1, RunningFacts DEF RequestsInv
<1>5. /\ RequestTypeOK' /\ mark' = mark
      /\ \A a \in Actors : a # b => position'[a] = position[a] /\ reported'[a] = reported[a]
      /\ position'[b] = 4 /\ ~ reported'[b]
  BY <1>1, <1>4, AdvanceFacts DEF RequestsInv, RequestTypeOK
<1>6. ASSUME NEW a \in Actors PROVE RequestInv(a)'
  <2>1. RequestInv(a) /\ mark[a] \in Nat /\ erasing \in [Actors -> Nat]
    BY DEF RequestsInv, RequestTypeOK, IInv, TypeOK
  <2>2. CASE a = b
    <3>1. mark[a] < erasing[a] /\ mark[a] <= Len(born) /\ erasing'[a] = 0
      BY <1>2, <2>1, <2>2 DEF RequestInv
    <3>2. ASSUME ~ overlapped[a] PROVE LeftIsYounger(a)'
      <4>1. ~ DrainHolds(a, batch)
        BY <1>4, <2>1, <2>2, <3>2 DEF RequestInv
      <4>2. ASSUME NEW e \in events', Actor[e.sess] = a PROVE mark[a] < e.eid
        <5>1. e \in events /\ e.eid \in Nat
          BY <1>2, EventFields DEF RequestsInv, IInv, TypeOK
        <5>2. ~ (e.eid < erasing[a])
          BY <1>2, <2>2, <4>2, <5>1 DEF Doomed
        <5> QED
          BY <2>1, <3>1, <5>1, <5>2
      <4>3. ASSUME NEW w \in Workers, NEW x \in window[w], Actor[CurrentRow(w).key[1]] = a PROVE FALSE
        <5>1. batch[w] # << >>
          BY <4>3 DEF RequestsInv, IInv, WorkerIsSound
        <5> QED
          BY <4>1, <4>3, <5>1, CurrentIsHeld DEF RequestsInv
      <4>4. \A w \in Workers : CurrentRow(w)' = CurrentRow(w)
        BY <1>2 DEF CurrentRow
      <4>5. ~ DrainHolds(a, batch')
        BY <1>2, <4>1
      <4>7. /\ \A k \in Key : Actor[k[1]] = a => outbox'[k] = NoRow
            /\ \A f \in failed' : Actor[f.key[1]] # a
        BY <1>2, <2>2
      <4> QED
        BY <1>2, <1>5, <4>2, <4>3, <4>4, <4>5, <4>7 DEF LeftIsYounger
    <3> QED
      BY <1>1, <1>2, <1>5, <2>2, <3>1, <3>2 DEF RequestInv
  <2>3. CASE a # b
    <3>1. events' \subseteq events /\ failed' \subseteq failed /\ erasing'[a] = erasing[a]
      BY <1>2, <2>1, <2>3
    <3>2. \A k \in Key : outbox'[k] = outbox[k] \/ outbox'[k] = NoRow
      BY <1>2
    <3> QED
      BY <1>1, <1>2, <1>5, <2>1, <2>3, <3>1, <3>2, OtherRequest
  <2> QED
    BY <2>2, <2>3
<1> QED
  BY <1>3, <1>5, <1>6 DEF RequestsInv

LEMMA EraseElsewhereStep ==
  ASSUME RequestsInv, NEW b \in Actors, EraseElsewhere(b)
  PROVE  RequestsInv'
<1>1. (Running(b, "workspace") \/ Running(b, "embeddings")) /\ Advance(b)
      /\ UNCHANGED <<vars, standing, overlapped>>
  BY DEF EraseElsewhere
<1>2. UNCHANGED <<events, born, outbox, failed, erasing, batch, window, provenance>>
  BY <1>1 DEF vars
<1>3. IInv'
  BY <1>1, StutterStep DEF RequestsInv
<1>4. position[b] \in {1, 4}
  BY <1>1, RunningFacts DEF RequestsInv
<1>5. /\ RequestTypeOK' /\ mark' = mark
      /\ \A a \in Actors : a # b => position'[a] = position[a] /\ reported'[a] = reported[a]
      /\ position[b] = 4 => position'[b] = 0
      /\ position[b] = 1 => position'[b] = 2 /\ ~ reported'[b]
  BY <1>1, <1>4, AdvanceFacts DEF RequestsInv, RequestTypeOK
<1>6. ASSUME NEW a \in Actors PROVE RequestInv(a)'
  <2>1. RequestInv(a)
    BY DEF RequestsInv
  <2>2. LeftIsYounger(a) => LeftIsYounger(a)'
    BY <1>2, <1>5, ShrinkKeeps
  <2>3. CASE a = b
    BY <1>1, <1>2, <1>4, <1>5, <2>1, <2>2, <2>3 DEF RequestInv
  <2>4. CASE a # b
    BY <1>1, <1>2, <1>5, <2>1, <2>4, OtherRequest
  <2> QED
    BY <2>3, <2>4
<1> QED
  BY <1>3, <1>5, <1>6 DEF RequestsInv

LEMMA FailStep ==
  ASSUME RequestsInv, NEW b \in Actors, Fail(b)
  PROVE  RequestsInv'
<1>1. /\ position[b] # 0 /\ position' = [position EXCEPT ![b] = 0] /\ erasing' = [erasing EXCEPT ![b] = 0]
      /\ UNCHANGED <<events, born, queueVars, enabled, workerVars, provenance, historyVars, boundVars>>
      /\ UNCHANGED <<reported, mark, standing, overlapped>>
  BY DEF Fail
<1>2. UNCHANGED <<events, born, outbox, failed, batch, window, provenance>>
  BY <1>1 DEF queueVars, workerVars
<1>3. erasing \in [Actors -> Nat] /\ erasing' \in [Actors -> Nat]
  BY <1>1 DEF RequestsInv, IInv, TypeOK
<1>4. IInv'
  BY <1>1, <1>3, LesserStep DEF RequestsInv
<1>5. RequestTypeOK'
  BY <1>1 DEF RequestsInv, RequestTypeOK
<1>6. ASSUME NEW a \in Actors PROVE RequestInv(a)'
  <2>1. RequestInv(a) /\ position \in [Actors -> 0 .. 4]
    BY DEF RequestsInv, RequestTypeOK
  <2>2. CASE a = b
    <3>1. ~ reported[a] /\ position'[a] = 0 /\ erasing'[a] = 0
      BY <1>1, <1>3, <2>1, <2>2 DEF RequestInv
    <3> QED
      BY <1>1, <2>1, <3>1 DEF RequestInv
  <2>3. CASE a # b
    BY <1>1, <1>2, <1>3, <2>1, <2>3, OtherRequest
  <2> QED
    BY <2>2, <2>3
<1> QED
  BY <1>4, <1>5, <1>6 DEF RequestsInv



-----------------------------------------------------------------------------
(* The claims beside the requests *)

LEMMA ClaimFields ==
  ASSUME NEW c \in ClaimId
  PROVE  /\ c[1] \in Key /\ c[2] \in Nat /\ c[3] \in Actors \cup {NoActor}
         /\ c = <<c[1], c[2], c[3]>> /\ c # NoClaim
  BY NoClaimAssumption DEF ClaimId

\* Events that are written later change nothing for the claims.
LEMMA ClaimsKeptStep ==
  ASSUME ClaimsInv, claims' = claims, \A n \in DOMAIN born : n \in DOMAIN born' /\ born'[n] = born[n]
  PROVE  ClaimsInv'
<1>1. OwnIsOwn'
  BY DEF ClaimsInv, OwnIsOwn
<1>2. ChainsAreWhole'
  BY DEF ClaimsInv, ChainsAreWhole
<1> QED
  BY <1>1, <1>2 DEF ClaimsInv

\* A claim cites an event of its worker's window.
LEMMA StagedFrom ==
  ASSUME IInv, ClaimsInv, NEW w \in Workers, NEW eid \in DOMAIN born, StageErasable(w, eid)
  PROVE  \/ claims' = claims
         \/ /\ <<CurrentRow(w).key, eid, NoActor>> \notin DOMAIN claims
            /\ claims' = [i \in DOMAIN claims \cup {<<CurrentRow(w).key, eid, NoActor>>} |->
                            IF i = <<CurrentRow(w).key, eid, NoActor>> THEN StagedRow(eid) ELSE claims[i]]
  BY DEF StageErasable

LEMMA StagerFacts ==
  ASSUME IInv, NEW w \in Workers, NEW eid \in DOMAIN born, StageClaim(w, eid)
  PROVE  /\ UNCHANGED <<events, born>> /\ batch[w] # << >> /\ CurrentRow(w).key \in Key /\ eid \in Nat
         /\ (\E x \in window[w] : x.eid = eid) /\ born[eid] = CurrentRow(w).key[1]
<1>1. pc[w] = "stage" /\ UNCHANGED <<events, born>>
  BY DEF StageClaim
<1>2. PICK x \in window[w] : x.eid = eid
  BY DEF StageClaim, EvidenceCited
<1>3. batch[w] # << >> /\ born[x.eid] = CurrentRow(w).key[1]
  BY <1>1 DEF IInv, WorkerIsSound
<1>4. CurrentRow(w).key \in Key
  BY <1>3, BatchRows, RowFields DEF IInv
<1>5. eid \in Nat
  BY DEF IInv, TypeOK
<1> QED
  BY <1>1, <1>2, <1>3, <1>4, <1>5

LEMMA StageClaimsInv ==
  ASSUME IInv, ClaimsInv, NEW w \in Workers, NEW eid \in DOMAIN born, StageErasable(w, eid)
  PROVE  ClaimsInv'
<1> DEFINE new == <<CurrentRow(w).key, eid, NoActor>>
<1>1. /\ UNCHANGED <<events, born>> /\ CurrentRow(w).key \in Key /\ eid \in Nat
      /\ born[eid] = CurrentRow(w).key[1]
  BY StagerFacts DEF StageErasable
<1>2. CASE claims' = claims
  BY <1>1, <1>2, ClaimsKeptStep
<1>3. CASE claims' = [i \in DOMAIN claims \cup {new} |-> IF i = new THEN StagedRow(eid) ELSE claims[i]]
           /\ new \notin DOMAIN claims
  <2>1. new \in ClaimId /\ new[1] = CurrentRow(w).key /\ new[3] = NoActor
    BY <1>1 DEF ClaimId
  <2>2. /\ StagedRow(eid) \in ClaimRow /\ StagedRow(eid).refs = {eid} /\ ~ StagedRow(eid).external
        /\ StagedRow(eid).by = NoClaim /\ StagedRow(eid).confirms = NoClaim
    BY <1>1 DEF StagedRow, ClaimRow
  <2> HIDE DEF new
  <2>3. /\ DOMAIN claims' = DOMAIN claims \cup {new} /\ claims'[new] = StagedRow(eid)
        /\ \A i \in DOMAIN claims : claims'[i] = claims[i]
    BY <1>3
  <2>4. OwnIsOwn'
    BY <1>1, <2>1, <2>2, <2>3 DEF ClaimsInv, OwnIsOwn
  <2>5. ChainsAreWhole'
    BY <2>2, <2>3 DEF ClaimsInv, ChainsAreWhole
  <2> QED
    BY <2>1, <2>2, <2>3, <2>4, <2>5 DEF ClaimsInv
<1> QED
  BY <1>2, <1>3, StagedFrom

\* Curation adds no claim that is not derived from one of the same event, none
\* that counts as its author's own, and no citation that no claim had.
DerivedClaim(i) ==
    /\ \E j \in DOMAIN claims : i[1] = j[1] /\ i[2] = j[2]
    /\ claims'[i].own => i \in DOMAIN claims /\ claims[i].own
    /\ \A n \in claims'[i].refs : \E j \in DOMAIN claims : n \in claims[j].refs

Derived == \A i \in DOMAIN claims' : DerivedClaim(i)

LEMMA ConfirmEffect ==
  ASSUME ClaimsInv, NEW c \in DOMAIN claims, NEW b \in Actors, Confirm(c, b), born' = born
  PROVE  ClaimsInv' /\ Derived
<1>0. PICK new : new = <<c[1], c[2], b>>
  OBVIOUS
<1>1. c \in ClaimId /\ new \in ClaimId /\ new[1] = c[1] /\ new[2] = c[2]
  BY <1>0, ClaimFields DEF ClaimsInv, ClaimId
<1>2. /\ new \notin DOMAIN claims
      /\ claims' = [i \in DOMAIN claims \cup {new} |->
                      IF i = new THEN [claims[c] EXCEPT !.external = TRUE, !.confirms = c, !.own = FALSE]
                      ELSE IF i = c THEN [claims[c] EXCEPT !.by = new]
                      ELSE claims[i]]
  BY <1>0 DEF Confirm
<1>3. claims[c] \in ClaimRow /\ claims[c].by = NoClaim /\ new # c
  BY <1>2 DEF ClaimsInv, Confirm
<1>5. /\ DOMAIN claims' = DOMAIN claims \cup {new}
      /\ claims'[new] = [claims[c] EXCEPT !.external = TRUE, !.confirms = c, !.own = FALSE]
      /\ claims'[c] = [claims[c] EXCEPT !.by = new]
      /\ \A i \in DOMAIN claims : i # c => claims'[i] = claims[i]
  BY <1>2, <1>3
<1>6. /\ claims'[new] \in ClaimRow /\ ~ claims'[new].own /\ claims'[new].by = NoClaim
      /\ claims'[new].confirms = c /\ claims'[new].refs = claims[c].refs
  BY <1>1, <1>3, <1>5 DEF ClaimRow
<1>7. /\ claims'[c] \in ClaimRow /\ claims'[c].own = claims[c].own /\ claims'[c].refs = claims[c].refs
      /\ claims'[c].external = claims[c].external /\ claims'[c].by = new
      /\ claims'[c].confirms = claims[c].confirms
  BY <1>1, <1>3, <1>5 DEF ClaimRow
<1>8. ASSUME NEW i \in DOMAIN claims'
      PROVE  i = new \/ i = c \/ (i \in DOMAIN claims /\ claims'[i] = claims[i])
  BY <1>5, <1>8
<1>9. OwnIsOwn'
  <2> SUFFICES ASSUME NEW i \in DOMAIN claims', claims'[i].own
               PROVE  /\ i[3] = NoActor /\ ~ claims'[i].external
                      /\ \A n \in claims'[i].refs : n \in DOMAIN born /\ Actor[born[n]] = Actor[i[1][1]]
    BY DEF OwnIsOwn
  <2> QED
    BY <1>6, <1>7, <1>8 DEF ClaimsInv, OwnIsOwn
<1>10. ChainsAreWhole'
  <2> SUFFICES ASSUME NEW i \in DOMAIN claims'
               PROVE  /\ claims'[i].by # NoClaim => claims'[i].by \in DOMAIN claims'
                      /\ claims'[i].confirms # NoClaim => claims'[i].confirms \in DOMAIN claims'
    BY DEF ChainsAreWhole
  <2>1. \A j \in DOMAIN claims : j \in DOMAIN claims'
    BY <1>5
  <2>2. CASE i = new
    BY <1>6, <2>1, <2>2
  <2>3. CASE i = c
    BY <1>5, <1>7, <2>1, <2>3 DEF ClaimsInv, ChainsAreWhole
  <2>4. CASE i \in DOMAIN claims /\ claims'[i] = claims[i]
    BY <2>1, <2>4 DEF ClaimsInv, ChainsAreWhole
  <2> QED
    BY <1>8, <2>2, <2>3, <2>4
<1>11. ClaimsInv'
  BY <1>1, <1>5, <1>6, <1>7, <1>9, <1>10 DEF ClaimsInv
<1>12. Derived
  <2> SUFFICES ASSUME NEW i \in DOMAIN claims' PROVE DerivedClaim(i)
    BY DEF Derived
  <2>1. /\ \E j \in DOMAIN claims : i[1] = j[1] /\ i[2] = j[2]
        /\ claims'[i].own => i \in DOMAIN claims /\ claims[i].own
    BY <1>1, <1>6, <1>7, <1>8
  <2>2. ASSUME NEW n \in claims'[i].refs
        PROVE  \E j \in DOMAIN claims : n \in claims[j].refs
    BY <1>6, <1>7, <1>8, <2>2
  <2> QED
    BY <2>1, <2>2 DEF DerivedClaim
<1> QED
  BY <1>11, <1>12

LEMMA ConsolidateEffect ==
  ASSUME ClaimsInv, NEW c \in DOMAIN claims, NEW d \in DOMAIN claims, NEW duplicate \in BOOLEAN,
         Consolidate(c, d, duplicate), born' = born
  PROVE  ClaimsInv' /\ Derived
<1> DEFINE merged == [claims[c] EXCEPT !.refs = claims[c].refs \cup claims[d].refs,
                                      !.external = claims[c].external \/ claims[d].external,
                                      !.own = claims[c].own /\ claims[d].own /\ Author(c) = Author(d)]
           closed == [claims[d] EXCEPT !.by = c]
<1>1. c # d /\ claims' = [i \in DOMAIN claims |-> IF i = d THEN closed
                                                ELSE IF i = c /\ duplicate THEN merged ELSE claims[i]]
  BY DEF Consolidate
<1>2. claims[c] \in ClaimRow /\ claims[d] \in ClaimRow /\ c \in ClaimId /\ d \in ClaimId
  BY DEF ClaimsInv
<1>3. /\ closed \in ClaimRow /\ closed.by = c /\ closed.own = claims[d].own
      /\ closed.external = claims[d].external /\ closed.refs = claims[d].refs
      /\ closed.confirms = claims[d].confirms
  BY <1>2 DEF ClaimRow
<1>4. /\ merged \in ClaimRow /\ merged.by = claims[c].by /\ merged.confirms = claims[c].confirms
      /\ merged.refs = claims[c].refs \cup claims[d].refs
      /\ merged.own => /\ claims[c].own /\ claims[d].own /\ Author(c) = Author(d)
      /\ merged.external => claims[c].external \/ claims[d].external
  <2>1. /\ claims[c].refs \cup claims[d].refs \in SUBSET Nat
        /\ (claims[c].external \/ claims[d].external) \in BOOLEAN
        /\ (claims[c].own /\ claims[d].own /\ Author(c) = Author(d)) \in BOOLEAN
    BY <1>2 DEF ClaimRow
  <2> QED
    BY <1>2, <2>1 DEF ClaimRow
<1> HIDE DEF merged, closed
<1>5. /\ DOMAIN claims' = DOMAIN claims /\ claims'[d] = closed
      /\ \A i \in DOMAIN claims : i # c /\ i # d => claims'[i] = claims[i]
      /\ claims'[c] = claims[c] \/ claims'[c] = merged
  BY <1>1
<1>6. OwnIsOwn'
  <2> SUFFICES ASSUME NEW i \in DOMAIN claims', claims'[i].own
               PROVE  /\ i[3] = NoActor /\ ~ claims'[i].external
                      /\ \A n \in claims'[i].refs : n \in DOMAIN born /\ Actor[born[n]] = Actor[i[1][1]]
    BY DEF OwnIsOwn
  <2>1. CASE claims'[i] = merged /\ i = c
    <3>1. claims[c].own /\ claims[d].own /\ Author(c) = Author(d)
      BY <1>4, <2>1
    <3>2. /\ c[3] = NoActor /\ ~ claims[c].external /\ d[3] = NoActor /\ ~ claims[d].external
          /\ \A n \in claims[c].refs : n \in DOMAIN born /\ Actor[born[n]] = Actor[c[1][1]]
          /\ \A n \in claims[d].refs : n \in DOMAIN born /\ Actor[born[n]] = Actor[d[1][1]]
      BY <3>1 DEF ClaimsInv, OwnIsOwn
    <3>3. Actor[c[1][1]] = Actor[d[1][1]]
      BY <3>1, <3>2 DEF Author
    <3> QED
      BY <1>4, <2>1, <3>2, <3>3
  <2>2. CASE claims'[i] = closed /\ i = d
    BY <1>3, <2>2 DEF ClaimsInv, OwnIsOwn
  <2>3. CASE claims'[i] = claims[i] /\ i \in DOMAIN claims
    BY <2>3 DEF ClaimsInv, OwnIsOwn
  <2> QED
    BY <1>5, <2>1, <2>2, <2>3
<1>7. ChainsAreWhole'
  <2> SUFFICES ASSUME NEW i \in DOMAIN claims'
               PROVE  /\ claims'[i].by # NoClaim => claims'[i].by \in DOMAIN claims'
                      /\ claims'[i].confirms # NoClaim => claims'[i].confirms \in DOMAIN claims'
    BY DEF ChainsAreWhole
  <2>1. CASE claims'[i] = merged /\ i = c
    BY <1>4, <1>5, <2>1 DEF ClaimsInv, ChainsAreWhole
  <2>2. CASE claims'[i] = closed /\ i = d
    BY <1>3, <1>5, <2>2 DEF ClaimsInv, ChainsAreWhole
  <2>3. CASE claims'[i] = claims[i] /\ i \in DOMAIN claims
    BY <1>5, <2>3 DEF ClaimsInv, ChainsAreWhole
  <2> QED
    BY <1>5, <2>1, <2>2, <2>3
<1>8. \A i \in DOMAIN claims' : claims'[i] \in ClaimRow
  BY <1>3, <1>4, <1>5 DEF ClaimsInv
<1>9. ClaimsInv'
  BY <1>5, <1>6, <1>7, <1>8 DEF ClaimsInv
<1>10. Derived
  <2> SUFFICES ASSUME NEW i \in DOMAIN claims' PROVE DerivedClaim(i)
    BY DEF Derived
  <2>1. i \in DOMAIN claims /\ (claims'[i].own => claims[i].own)
    BY <1>3, <1>4, <1>5
  <2>2. ASSUME NEW n \in claims'[i].refs
        PROVE  \E j \in DOMAIN claims : n \in claims[j].refs
    BY <1>3, <1>4, <1>5, <2>2
  <2> QED
    BY <2>1, <2>2 DEF DerivedClaim
<1> QED
  BY <1>9, <1>10

\* A successor is spliced to a claim that stays, or cleared.
LEMMA SpliceFacts ==
  ASSUME NEW s, NEW S
  PROVE  SpliceTarget(s, S) = NoClaim \/ SpliceTarget(s, S) \in DOMAIN claims \ S
  BY DEF SpliceTarget

LEMMA RepairedFacts ==
  ASSUME ClaimsInv, NEW a, NEW S, NEW c \in DOMAIN claims
  PROVE  /\ Repaired(c, a, S) \in ClaimRow
         /\ Repaired(c, a, S).refs = claims[c].refs \ EventIdsOf(a)
         /\ Repaired(c, a, S).external = claims[c].external
         /\ Repaired(c, a, S).own = claims[c].own
         /\ Repaired(c, a, S).by # NoClaim => Repaired(c, a, S).by \in DOMAIN claims \ S
         /\ Repaired(c, a, S).confirms # NoClaim => Repaired(c, a, S).confirms \in DOMAIN claims \ S
<1> DEFINE by == IF claims[c].by \in S THEN SpliceTarget(claims[c].by, S) ELSE claims[c].by
           confirms == IF claims[c].confirms \in S THEN NoClaim ELSE claims[c].confirms
           refs == claims[c].refs \ EventIdsOf(a)
<1>1. claims[c] \in ClaimRow /\ DOMAIN claims \subseteq ClaimId
  BY DEF ClaimsInv
<1>2. (by # NoClaim => by \in DOMAIN claims \ S) /\ (confirms # NoClaim => confirms \in DOMAIN claims \ S)
  BY SpliceFacts DEF ClaimsInv, ChainsAreWhole
<1>3. refs \in SUBSET Nat
  BY <1>1 DEF ClaimRow
<1>4. Repaired(c, a, S) = [claims[c] EXCEPT !.refs = refs, !.confirms = confirms, !.by = by]
  BY DEF Repaired
<1> HIDE DEF by, confirms, refs
<1>5. by \in ClaimId \cup {NoClaim} /\ confirms \in ClaimId \cup {NoClaim}
  BY <1>1, <1>2
<1>6. /\ Repaired(c, a, S) \in ClaimRow
      /\ Repaired(c, a, S).refs = refs /\ Repaired(c, a, S).by = by /\ Repaired(c, a, S).confirms = confirms
      /\ Repaired(c, a, S).external = claims[c].external /\ Repaired(c, a, S).own = claims[c].own
  BY <1>1, <1>3, <1>4, <1>5 DEF ClaimRow
<1> QED
  BY <1>2, <1>6 DEF refs

LEMMA EraseClaimsEffect ==
  ASSUME ClaimsInv, NEW a \in Actors, EraseClaims(a)
  PROVE  ClaimsInv' /\ Derived
<1>1. /\ DOMAIN claims' = DOMAIN claims \ Selected(a)
      /\ \A c \in DOMAIN claims' : claims'[c] = Repaired(c, a, Selected(a))
      /\ born' = born
  BY DEF EraseClaims, vars
<1>2. ASSUME NEW c \in DOMAIN claims'
      PROVE  /\ c \in DOMAIN claims /\ claims'[c] \in ClaimRow
             /\ claims'[c].refs = claims[c].refs \ EventIdsOf(a)
             /\ claims'[c].external = claims[c].external /\ claims'[c].own = claims[c].own
             /\ claims'[c].by # NoClaim => claims'[c].by \in DOMAIN claims'
             /\ claims'[c].confirms # NoClaim => claims'[c].confirms \in DOMAIN claims'
  BY <1>1, RepairedFacts
<1>3. OwnIsOwn'
  <2> SUFFICES ASSUME NEW i \in DOMAIN claims', claims'[i].own
               PROVE  /\ i[3] = NoActor /\ ~ claims'[i].external
                      /\ \A n \in claims'[i].refs : n \in DOMAIN born' /\ Actor[born'[n]] = Actor[i[1][1]]
    BY DEF OwnIsOwn
  <2> QED
    BY <1>1, <1>2 DEF ClaimsInv, OwnIsOwn
<1>4. ChainsAreWhole'
  BY <1>2 DEF ChainsAreWhole
<1>5. ClaimsInv'
  BY <1>1, <1>2, <1>3, <1>4 DEF ClaimsInv
<1>6. ASSUME NEW i \in DOMAIN claims' PROVE DerivedClaim(i)
  BY <1>2, <1>6 DEF DerivedClaim
<1> QED
  BY <1>5, <1>6 DEF Derived

\* The transaction leaves of the actor's claims only what has other support.
LEMMA EraseClaimsErases ==
  ASSUME IInv, ClaimsInv, RequestTypeOK, NEW a \in Actors, EraseClaims(a)
  PROVE  ClaimsErased(a)'
<1>1. /\ DOMAIN claims' = DOMAIN claims \ Selected(a)
      /\ \A c \in DOMAIN claims' : claims'[c] = Repaired(c, a, Selected(a))
      /\ UNCHANGED <<born, mark>>
      /\ standing' = [standing EXCEPT ![a] = {n \in EventIdsOf(a) : n <= mark[a]}]
  BY DEF EraseClaims, vars, Advance
<1>2. standing'[a] = {n \in EventIdsOf(a) : n <= mark[a]}
  BY <1>1 DEF RequestTypeOK
<1>3. \A n \in EventIdsOf(a) : n \in DOMAIN born /\ Actor[born[n]] = a
  BY DEF EventIdsOf, IInv, EventIdsAreSound
<1>4. ASSUME NEW c \in DOMAIN claims'
      PROVE  /\ ~ InPreferencesOf(c, a)
             /\ ~ (Author(c) = a /\ claims'[c].own)
             /\ claims'[c].refs \cap standing'[a] = {}
  <2>1. /\ c \in DOMAIN claims /\ c \notin Selected(a)
        /\ claims'[c].refs = claims[c].refs \ EventIdsOf(a) /\ claims'[c].own = claims[c].own
    BY <1>1, <1>4, RepairedFacts
  <2>2. ~ InPreferencesOf(c, a) /\ (Author(c) = a => Disqualified(c, a))
    BY <2>1 DEF Selected
  <2>3. ASSUME Author(c) = a, claims[c].own PROVE FALSE
    <3>1. /\ c[3] = NoActor /\ ~ claims[c].external
          /\ \A n \in claims[c].refs : n \in DOMAIN born /\ Actor[born[n]] = Actor[c[1][1]]
      BY <2>1, <2>3 DEF ClaimsInv, OwnIsOwn
    <3>2. Actor[c[1][1]] = a
      BY <2>3, <3>1 DEF Author
    <3>3. PICK e \in events : e.eid \in claims[c].refs /\ Actor[e.sess] # a
      BY <2>2, <2>3, <3>1 DEF Disqualified
    <3>4. born[e.eid] = e.sess
      BY DEF IInv, EventIdsAreSound
    <3> QED
      BY <3>1, <3>2, <3>3, <3>4
  <2> QED
    BY <1>2, <2>1, <2>2, <2>3
<1>5. ClaimsGone(a)'
  BY <1>4 DEF ClaimsGone, InPreferencesOf, Author
<1> QED
  BY <1>1, <1>2, <1>3, <1>5 DEF ClaimsErased

\* A request for which the claims were erased, with no worker in the way.
ClaimsAreErased(a) == (position[a] \in {3, 4} \/ reported[a]) /\ ~ overlapped[a]

LEMMA DerivedKeepsGone ==
  ASSUME NEW a \in Actors, ClaimsGone(a), Derived, mark'[a] = mark[a], standing'[a] = standing[a]
  PROVE  ClaimsGone(a)'
<1> SUFFICES ASSUME NEW c \in DOMAIN claims'
             PROVE  /\ InPreferencesOf(c, a) => c[2] > mark[a]
                    /\ Author(c) = a /\ claims'[c].own => c[2] > mark[a]
                    /\ claims'[c].refs \cap standing[a] = {}
  BY DEF ClaimsGone, InPreferencesOf, Author
<1>1. DerivedClaim(c)
  BY DEF Derived
<1>2. PICK d \in DOMAIN claims : c[1] = d[1] /\ c[2] = d[2]
  BY <1>1 DEF DerivedClaim
<1>3. InPreferencesOf(c, a) => c[2] > mark[a]
  BY <1>2 DEF ClaimsGone, InPreferencesOf
<1>4. Author(c) = a /\ claims'[c].own => c[2] > mark[a]
  BY <1>1 DEF DerivedClaim, ClaimsGone
<1>5. claims'[c].refs \cap standing[a] = {}
  BY <1>1 DEF DerivedClaim, ClaimsGone
<1> QED
  BY <1>3, <1>4, <1>5

LEMMA SameIsDerived == ASSUME claims' = claims PROVE Derived
<1>1. ASSUME NEW i \in DOMAIN claims' PROVE DerivedClaim(i)
  BY <1>1 DEF DerivedClaim
<1> QED
  BY <1>1 DEF Derived

\* Steps that add no claim and move no request past the erasure of its claims.
LEMMA DerivedKeepsErased ==
  ASSUME NEW a \in Actors, ClaimsErased(a), Derived, mark'[a] = mark[a], standing'[a] = standing[a],
         \A n \in DOMAIN born : n \in DOMAIN born' /\ born'[n] = born[n],
         ClaimsAreErased(a)' => ClaimsAreErased(a)
  PROVE  ClaimsErased(a)'
<1>1. ClaimsAreErased(a)' => ClaimsGone(a)'
  BY DerivedKeepsGone DEF ClaimsErased, ClaimsAreErased
<1>2. \A n \in standing'[a] : n <= mark'[a] /\ n \in DOMAIN born' /\ Actor[born'[n]] = a
  BY DEF ClaimsErased
<1> QED
  BY <1>1, <1>2 DEF ClaimsErased, ClaimsAreErased

\* What the drain stages for the actor now comes from events the actor has
\* written since.
LEMMA StageKeepsErased ==
  ASSUME RequestsInv, ClaimsInv, NEW a \in Actors, ClaimsErased(a),
         NEW w \in Workers, NEW eid \in DOMAIN born, StageErasable(w, eid),
         mark' = mark, standing' = standing, ClaimsAreErased(a)' => ClaimsAreErased(a)
  PROVE  ClaimsErased(a)'
<1>0. PICK key : key = CurrentRow(w).key
  OBVIOUS
<1>1. PICK new : new = <<key, eid, NoActor>>
  OBVIOUS
<1>2. /\ UNCHANGED <<events, born>> /\ batch[w] # << >> /\ key \in Key /\ eid \in Nat
      /\ (\E x \in window[w] : x.eid = eid) /\ born[eid] = key[1]
  BY <1>0, StagerFacts DEF StageErasable, RequestsInv
<1>3. CASE claims' = claims
  BY <1>2, <1>3, SameIsDerived, DerivedKeepsErased
<1>4. CASE claims' = [i \in DOMAIN claims \cup {new} |-> IF i = new THEN StagedRow(eid) ELSE claims[i]]
           /\ new \notin DOMAIN claims
  <2>1. new[1] = key /\ new[2] = eid /\ new[3] = NoActor /\ StagedRow(eid).refs = {eid}
    BY <1>1 DEF StagedRow
  <2>2. /\ DOMAIN claims' = DOMAIN claims \cup {new} /\ claims'[new] = StagedRow(eid)
        /\ \A i \in DOMAIN claims : claims'[i] = claims[i]
    BY <1>4
  <2>3. \A n \in standing[a] : n <= mark[a] /\ n \in DOMAIN born /\ Actor[born[n]] = a
    BY DEF ClaimsErased
  <2>4. ASSUME ClaimsAreErased(a), Actor[key[1]] = a PROVE eid > mark[a]
    <3>1. ~ overlapped[a] /\ (position[a] = 3 \/ position[a] = 4 \/ reported[a]) /\ RequestInv(a)
      BY <2>4 DEF ClaimsAreErased, RequestsInv
    <3>2. position[a] # 3
      BY <1>0, <1>2, <2>4, <3>1, CurrentIsHeld DEF RequestsInv, RequestInv
    <3>3. LeftIsYounger(a)
      BY <3>1, <3>2 DEF RequestInv
    <3>4. mark[a] < eid
      BY <1>0, <1>2, <2>4, <3>3 DEF LeftIsYounger
    <3> QED
      BY <1>2, <3>4 DEF RequestsInv, RequestTypeOK
  <2>5. Author(new) = Actor[key[1]] /\ (InPreferencesOf(new, a) => Actor[key[1]] = a)
    BY <2>1 DEF Author, InPreferencesOf
  <2>6. ASSUME ClaimsAreErased(a) PROVE ClaimsGone(a)'
    <3>1. ClaimsGone(a)
      BY <2>6 DEF ClaimsErased, ClaimsAreErased
    <3>2. eid \notin standing[a]
      <4>1. CASE Actor[key[1]] = a
        <5>1. eid > mark[a] /\ mark[a] \in Nat
          BY <2>4, <2>6, <4>1 DEF RequestsInv, RequestTypeOK
        <5> QED
          BY <1>2, <2>3, <5>1
      <4>2. CASE Actor[key[1]] # a
        BY <1>2, <2>3, <4>2
      <4> QED
        BY <4>1, <4>2
    <3>3. ASSUME NEW c \in DOMAIN claims'
          PROVE  /\ InPreferencesOf(c, a) => c[2] > mark[a]
                 /\ Author(c) = a /\ claims'[c].own => c[2] > mark[a]
                 /\ claims'[c].refs \cap standing[a] = {}
      <4>1. CASE c = new
        BY <2>1, <2>2, <2>4, <2>5, <2>6, <3>2, <4>1
      <4>2. CASE c \in DOMAIN claims
        BY <2>2, <3>1, <4>2 DEF ClaimsGone
      <4> QED
        BY <2>2, <4>1, <4>2
    <3> QED
      BY <3>3 DEF ClaimsGone, InPreferencesOf, Author
  <2> QED
    BY <1>2, <2>3, <2>6 DEF ClaimsErased, ClaimsAreErased
<1> QED
  BY <1>0, <1>1, <1>3, <1>4, StagedFrom DEF RequestsInv

LEMMA MeanwhileClaims ==
  ASSUME ErasureInv, Meanwhile
  PROVE  ClaimsInv' /\ \A a \in Actors : ClaimsErased(a)'
<1>1. RequestsInv /\ ClaimsInv /\ \A a \in Actors : ClaimsErased(a)
  BY DEF ErasureInv
<1>2. Effect
  BY <1>1, MeanwhileStep
<1>3. \A n \in DOMAIN born : n \in DOMAIN born' /\ born'[n] = born[n]
  BY <1>1, <1>2, BornGrows DEF Effect, RequestsInv, IInv, TypeOK
<1>4. UNCHANGED <<position, reported, mark, standing>> /\ \A a \in Actors : overlapped[a] => overlapped'[a]
  BY DEF Meanwhile, requestVars
<1>5. \A a \in Actors : ClaimsAreErased(a)' => ClaimsAreErased(a)
  BY <1>4 DEF ClaimsAreErased
<1>6. ASSUME Derived PROVE \A a \in Actors : ClaimsErased(a)'
  BY <1>1, <1>3, <1>4, <1>5, <1>6, DerivedKeepsErased
<1>7. CASE UNCHANGED claimVars
  <2>1. claims' = claims
    BY <1>7 DEF claimVars
  <2> QED
    BY <1>1, <1>3, <1>6, <2>1, SameIsDerived, ClaimsKeptStep
<1>8. ASSUME NEW w \in Workers, NEW eid \in DOMAIN born, StageErasable(w, eid)
      PROVE  ClaimsInv' /\ \A a \in Actors : ClaimsErased(a)'
  <2>1. ClaimsInv'
    BY <1>1, <1>8, StageClaimsInv DEF RequestsInv
  <2>2. \A a \in Actors : ClaimsErased(a)'
    BY <1>1, <1>4, <1>5, <1>8, StageKeepsErased
  <2> QED
    BY <2>1, <2>2
<1>9. ASSUME NEW c \in DOMAIN claims, NEW b \in Actors, Confirm(c, b)
      PROVE  ClaimsInv' /\ \A a \in Actors : ClaimsErased(a)'
  <2>1. born' = born
    BY <1>9 DEF Confirm, vars
  <2> QED
    BY <1>1, <1>6, <1>9, <2>1, ConfirmEffect
<1>10. ASSUME NEW c \in DOMAIN claims, NEW d \in DOMAIN claims, NEW duplicate \in BOOLEAN,
              Consolidate(c, d, duplicate)
       PROVE  ClaimsInv' /\ \A a \in Actors : ClaimsErased(a)'
  <2>1. born' = born
    BY <1>10 DEF Consolidate, vars
  <2> QED
    BY <1>1, <1>6, <1>10, <2>1, ConsolidateEffect
<1> QED
  BY <1>7, <1>8, <1>9, <1>10 DEF Meanwhile, WriteClaim

\* The steps of a request about b, for every actor.
LEMMA RequestClaims ==
  ASSUME ErasureInv, NEW b \in Actors, ErasureStep(b)
  PROVE  ClaimsInv' /\ \A a \in Actors : ClaimsErased(a)'
<1>1. RequestsInv /\ ClaimsInv /\ (\A a \in Actors : ClaimsErased(a)) /\ IInv /\ RequestTypeOK /\ RequestInv(b)
  BY DEF ErasureInv, RequestsInv
<1>2. born' = born
  BY DEF ErasureStep, SendRequest, EraseClaims, BeginEraseSessionMemory, BeginEraseActorEvents,
         EraseSessionMemory, EraseActorEvents, EraseElsewhere, Fail, vars
<1>3. ASSUME Derived, NEW a \in Actors, mark'[a] = mark[a], standing'[a] = standing[a],
             ClaimsAreErased(a)' => ClaimsAreErased(a)
      PROVE  ClaimsErased(a)'
  BY <1>1, <1>2, <1>3, DerivedKeepsErased
<1>4. CASE claims' = claims /\ ~ EraseClaims(b)
  <2>1. Derived /\ ClaimsInv'
    BY <1>1, <1>2, <1>4, SameIsDerived, ClaimsKeptStep
  <2>2. CASE SendRequest(b)
    <3>1. /\ \A a \in Actors : a # b => /\ mark'[a] = mark[a] /\ standing'[a] = standing[a]
                                        /\ position'[a] = position[a] /\ reported'[a] = reported[a]
          /\ overlapped' = overlapped /\ standing'[b] = {} /\ position'[b] = 1 /\ ~ reported'[b]
      BY <1>1, <2>2 DEF SendRequest, RequestTypeOK
    <3>2. ClaimsErased(b)'
      BY <3>1 DEF ClaimsErased
    <3>3. ASSUME NEW a \in Actors, a # b PROVE ClaimsErased(a)'
      BY <1>3, <2>1, <3>1, <3>3 DEF ClaimsAreErased
    <3> QED
      BY <2>1, <3>2, <3>3
  <2>3. CASE BeginEraseSessionMemory(b)
    <3>1. UNCHANGED <<position, reported, mark, standing, overlapped>>
      BY <2>3 DEF BeginEraseSessionMemory, requestVars
    <3> QED
      BY <1>3, <2>1, <3>1 DEF ClaimsAreErased
  <2>4. CASE EraseSessionMemory(b) \/ EraseElsewhere(b)
    <3>1. UNCHANGED <<standing, overlapped>> /\ Advance(b) /\ position[b] \in {1, 3, 4}
      BY <1>1, <2>4, RunningFacts DEF EraseSessionMemory, EraseElsewhere
    <3>2. /\ mark' = mark
          /\ \A a \in Actors : a # b => position'[a] = position[a] /\ reported'[a] = reported[a]
          /\ position[b] = 1 => position'[b] = 2 /\ ~ reported'[b]
      BY <1>1, <3>1, AdvanceFacts DEF RequestTypeOK
    <3>3. \A a \in Actors : ClaimsAreErased(a)' => ClaimsAreErased(a)
      BY <3>1, <3>2 DEF ClaimsAreErased
    <3> QED
      BY <1>3, <2>1, <3>1, <3>2, <3>3
  <2>5. CASE Fail(b)
    <3>1. UNCHANGED <<reported, mark, standing, overlapped>> /\ position[b] # 0
          /\ position' = [position EXCEPT ![b] = 0]
      BY <2>5 DEF Fail
    <3>2. \A a \in Actors : ClaimsAreErased(a)' => ClaimsAreErased(a)
      BY <1>1, <3>1 DEF ClaimsAreErased, RequestTypeOK, RequestInv
    <3> QED
      BY <1>3, <2>1, <3>1, <3>2
  <2> QED
    BY <1>4, <2>2, <2>3, <2>4, <2>5 DEF ErasureStep
<1>5. CASE EraseClaims(b)
  <2>1. ClaimsInv' /\ Derived /\ ClaimsErased(b)'
    BY <1>1, <1>5, EraseClaimsEffect, EraseClaimsErases
  <2>2. /\ position[b] = 2 /\ Advance(b)
        /\ overlapped' = [overlapped EXCEPT ![b] = DrainHolds(b, batch)]
        /\ standing' = [standing EXCEPT ![b] = {n \in EventIdsOf(b) : n <= mark[b]}]
    BY <1>1, <1>5, RunningFacts DEF EraseClaims
  <2>3. \A a \in Actors : a # b => overlapped'[a] = overlapped[a] /\ standing'[a] = standing[a]
    BY <1>1, <2>2 DEF RequestTypeOK
  <2>4. mark' = mark /\ \A a \in Actors : a # b => position'[a] = position[a] /\ reported'[a] = reported[a]
    BY <1>1, <2>2 DEF Advance, RequestTypeOK
  <2>5. \A a \in Actors : a # b => (ClaimsAreErased(a)' => ClaimsAreErased(a))
    BY <2>3, <2>4 DEF ClaimsAreErased
  <2>6. ASSUME NEW a \in Actors, a # b PROVE ClaimsErased(a)'
    BY <1>3, <2>1, <2>3, <2>4, <2>5, <2>6
  <2> QED
    BY <2>1, <2>6
<1>6. EraseClaims(b) \/ claims' = claims
  BY DEF ErasureStep, SendRequest, BeginEraseSessionMemory, EraseSessionMemory, EraseElsewhere, Fail, claimVars
<1> QED
  BY <1>4, <1>5, <1>6

LEMMA NextErasure == ErasureInv /\ [ErasureNext]_allVars => ErasureInv'
<1> SUFFICES ASSUME ErasureInv, [ErasureNext]_allVars PROVE ErasureInv'
  OBVIOUS
<1>0. RequestsInv
  BY DEF ErasureInv
<1>1. CASE Meanwhile
  BY <1>0, <1>1, MeanwhileStep, MeanwhileClaims DEF ErasureInv
<1>2. ASSUME NEW a \in Actors, ErasureStep(a) PROVE ErasureInv'
  <2>1. RequestsInv'
    BY <1>0, <1>2, SendRequestStep, EraseClaimsStep, BeginEraseSessionMemoryStep, EraseSessionMemoryStep,
       EraseElsewhereStep, FailStep
    DEF ErasureStep
  <2> QED
    BY <1>2, <2>1, RequestClaims DEF ErasureInv
<1>3. CASE UNCHANGED allVars
  <2>1. UNCHANGED vars /\ UNCHANGED <<claims, position, reported, mark, standing, overlapped>>
    BY <1>3 DEF allVars, claimVars, requestVars
  <2>2. UNCHANGED <<events, born, outbox, failed, erasing, batch, window, provenance>>
    BY <2>1 DEF vars
  <2>3. IInv' /\ RequestTypeOK'
    BY <1>0, <2>1, StutterStep DEF RequestsInv, RequestTypeOK
  <2>4. \A a \in Actors : RequestInv(a)'
    BY <1>0, <2>1, <2>2, OtherRequest DEF RequestsInv
  <2>5. ClaimsInv'
    BY <2>1, <2>2, ClaimsKeptStep DEF ErasureInv
  <2>6. \A a \in Actors : ClaimsAreErased(a)' => ClaimsAreErased(a)
    BY <2>1 DEF ClaimsAreErased
  <2>7. \A a \in Actors : ClaimsErased(a)'
    BY <2>1, <2>2, <2>6, SameIsDerived, DerivedKeepsErased DEF ErasureInv
  <2> QED
    BY <2>3, <2>4, <2>5, <2>7 DEF ErasureInv, RequestsInv
<1> QED
  BY <1>1, <1>2, <1>3 DEF ErasureNext

LEMMA InitErasure == ErasureInit => ErasureInv
<1> SUFFICES ASSUME ErasureInit PROVE ErasureInv
  OBVIOUS
<1>1. IInv
  BY InitIInv DEF ErasureInit
<1>2. RequestTypeOK
  BY DEF ErasureInit, IdleRequests, RequestTypeOK
<1>3. \A a \in Actors : /\ position[a] = 0 /\ ~ reported[a] /\ mark[a] = 0 /\ standing[a] = {}
                        /\ erasing[a] = 0 /\ Len(born) = 0
  BY DEF ErasureInit, IdleRequests, Init
<1>4. \A a \in Actors : RequestInv(a)
  BY <1>3 DEF RequestInv
<1>5. DOMAIN claims = {}
  BY DEF ErasureInit
<1>6. ClaimsInv
  BY <1>5 DEF ClaimsInv, OwnIsOwn, ChainsAreWhole
<1>7. \A a \in Actors : ClaimsErased(a)
  BY <1>3 DEF ClaimsErased
<1> QED
  BY <1>1, <1>2, <1>4, <1>6, <1>7 DEF ErasureInv, RequestsInv

\* The drain's invariant, the requests' and the claims' hold together, whatever
\* fails and is sent again (ErasureRegistry.erase_actor beside the drain workers,
\* the curators and consolidation).
THEOREM ErasureInvariance == ErasureSpec => []ErasureInv
  BY InitErasure, NextErasure, PTL DEF ErasureSpec

\* A request that reported success and that no worker overlapped left none of
\* the claims it was about and neither events, queue rows nor dead letters of the
\* actor, and nothing of what it erased comes back, for any number of sessions,
\* workers, failed and repeated requests and whatever curators and consolidation
\* copied (ClaimErasure, erase_claims_for_actor, erase_actor_events).
THEOREM ErasureIsComplete == ErasureSpec => []QuietErasureIsComplete
<1>1. ErasureInv => QuietErasureIsComplete
  <2> SUFFICES ASSUME ErasureInv, NEW a \in Actors, reported[a], ~ overlapped[a]
               PROVE  ClaimsGone(a) /\ (SilentSince(a) => SessionMemoryGone(a))
    BY DEF QuietErasureIsComplete
  <2>1. LeftIsYounger(a) /\ mark[a] \in Nat /\ IInv
    BY DEF ErasureInv, RequestsInv, RequestInv, RequestTypeOK
  <2>2. ClaimsGone(a)
    BY DEF ErasureInv, ClaimsErased
  <2>3. ASSUME SilentSince(a), NEW e \in events, Actor[e.sess] = a PROVE FALSE
    <3>1. mark[a] < e.eid /\ e.eid \in DOMAIN born /\ born[e.eid] = e.sess /\ e.eid \in Nat
      BY <2>1, <2>3, EventFields DEF LeftIsYounger, IInv, TypeOK, EventIdsAreSound
    <3> QED
      BY <2>1, <2>3, <3>1 DEF SilentSince
  <2> QED
    BY <2>1, <2>2, <2>3 DEF LeftIsYounger, SessionMemoryGone
<1> QED
  BY <1>1, ErasureInvariance, PTL

\* However confirmations, supersessions and erasures interleave, no claim points
\* at one that is gone: the chain repair of erase_claims_for_actor never leaves a
\* reference that the foreign keys of memory_claims would refuse.
THEOREM ChainsStayWhole == ErasureSpec => []ChainsAreWhole
<1>1. ErasureInv => ChainsAreWhole
  BY DEF ErasureInv, ClaimsInv
<1> QED
  BY <1>1, ErasureInvariance, PTL

\* Erasures lose no turn either: beside any number of requests, a live event is
\* queued, settled, dead-lettered or was written while its actor was erased.
THEOREM NoTurnIsLostByErasure == ErasureSpec => []NoTurnLost
<1>1. ErasureInv => NoTurnLost
  BY DEF ErasureInv, RequestsInv, IInv
<1> QED
  BY <1>1, ErasureInvariance, PTL

=============================================================================
