---------------------------- MODULE ClaimIndexProofs ----------------------------
(***************************************************************************)
(* For any number of claims, quarantines, drainers and propagation         *)
(* workers: the type invariant, that a servable claim stays in the index,  *)
(* that a retired one leaves it, and that a claim is withheld exactly      *)
(* while a quarantine holds it, each with the exceptions its property      *)
(* names.                                                                  *)
(***************************************************************************)
EXTENDS ClaimIndex, DerivativeWorkProofs

\* What a quarantine and its transaction are about.
QuarantineInv ==
    \A q \in Quarantines :
        /\ \A c \in quarantine[q].members : claim[c].status # "none"
        /\ quarantine[q].state \in {"active", "reverted"} => quarantine[q].members \subseteq touched
        /\ open[q].kind = "apply" => quarantine[q].state = "none"
        /\ open[q].kind = "revert" => quarantine[q].state = "active"
        /\ open[q].writes \subseteq quarantine[q].members

\* Only a quarantine queues a rebuild.
PolicyInv == \A i \in Items : i[2] = PolicyChange /\ work[i].state # "none" => i[1] \in touched

\* Only a rebuild reads the claim.
SeenInv == \A w \in Propagators : seen[w] # "unread" => taken[w] # <<>> /\ Current(w)[2] = PolicyChange

\* RetiredLeavesIndex, and that neither a copy nor a reading is left that could
\* undo it.
Retired == Closed \cup {"erased"}
RetiredInv ==
    \A c \in Claims \ raced :
        /\ claim[c].status \in Retired => c \notin vectors /\ ~ Queued(c) /\ ~ InFlight(c) /\ ~ Reading(c)
        /\ claim[c].status = "erased" => c \notin failed

\* A claim that is not written yet has a blank row.
UnwrittenInv == \A c \in Claims : claim[c].status = "none" => claim[c] = NoClaim

IInv ==
    /\ TypeOK
    /\ WorkInv
    /\ UnwrittenInv
    /\ QuarantineInv
    /\ PolicyInv
    /\ SeenInv
    /\ RetiredInv
    /\ ServableIsIndexed


-----------------------------------------------------------------------------
(* The index *)

LEMMA EnqueueTextFacts ==
    ASSUME DrainTypeOK, NEW t \in Targets, EnqueueText(t), UNCHANGED <<batch, lostDrains>>
    PROVE  /\ DrainTypeOK' /\ Queued(t)' /\ UNCHANGED <<vectors, failed>>
           /\ \A u \in Targets : u # t => queue'[u] = queue[u]
<1> DEFINE new == [id |-> IF Queued(t) THEN queue[t].id ELSE requests + 1, at |-> requests + 1,
                   attempts |-> 0, cooling |-> FALSE]
<1>1. /\ queue' = [queue EXCEPT ![t] = new] /\ requests' = requests + 1
      /\ UNCHANGED <<vectors, failed>>
    BY DEF EnqueueText
<1>2. requests \in Nat /\ queue[t] \in Request
    BY DEF DrainTypeOK
<1>3. new.id \in Nat /\ new.id # 0
    BY <1>2 DEF Request, Queued
<1>4. new \in Request
    BY <1>2, <1>3, DrainAssumption DEF Request
<1>5. queue' \in [Targets -> Request] /\ queue'[t] = new
    BY <1>1, <1>4 DEF DrainTypeOK
<1>6. requests' \in Nat
    BY <1>1, <1>2
<1> QED
    BY <1>1, <1>3, <1>5, <1>6 DEF DrainTypeOK, Queued

LEMMA NoRequestFacts == NoRequest \in Request /\ NoRequest.id = 0
BY DrainAssumption DEF NoRequest, Request

LEMMA EraseFacts ==
    ASSUME DrainTypeOK, NEW T, EraseTargets(T), UNCHANGED <<batch, lostDrains>>
    PROVE  /\ DrainTypeOK' /\ vectors' = vectors \ T /\ failed' = failed \ T
           /\ \A u \in Targets : u \in T => ~ Queued(u)'
           /\ \A u \in Targets : u \notin T => queue'[u] = queue[u]
<1>1. queue' = [t \in Targets |-> IF t \in T THEN NoRequest ELSE queue[t]]
    BY DEF EraseTargets
<1>2. queue' \in [Targets -> Request]
    BY <1>1, NoRequestFacts DEF DrainTypeOK
<1> QED
    BY <1>1, <1>2, NoRequestFacts DEF EraseTargets, DrainTypeOK, Queued

LEMMA RetractFacts ==
    ASSUME DrainTypeOK, NEW t \in Targets, Retract(t), UNCHANGED <<batch, lostDrains>>
    PROVE  /\ DrainTypeOK' /\ vectors' = vectors \ {t} /\ failed' = failed
           /\ ~ Queued(t)'
           /\ \A u \in Targets : u # t => queue'[u] = queue[u]
<1>1. queue' = [queue EXCEPT ![t] = NoRequest]
    BY DEF Retract
<1>2. queue' \in [Targets -> Request] /\ queue'[t] = NoRequest
    BY <1>1, NoRequestFacts DEF DrainTypeOK
<1> QED
    BY <1>1, <1>2, NoRequestFacts DEF Retract, DrainTypeOK, Queued

\* The copy that is processed next, and what is left after it.
LEMMA FinishFacts ==
    ASSUME DrainTypeOK, NEW d \in Drainers, Finish(d)
    PROVE  /\ This(d) \in Copy /\ This(d).target \in Targets /\ This(d).attempts \in 0 .. MaxEmbedAttempts
           /\ InFlight(This(d).target)
           /\ batch' \in [Drainers -> Seq(Copy)]
           /\ \A t \in Targets : InFlight(t)' => InFlight(t)
<1>1. batch[d] \in Seq(Copy) /\ batch[d] # <<>> /\ batch' = [batch EXCEPT ![d] = Tail(batch[d])]
    BY DEF DrainTypeOK, Finish
<1>2. This(d) = batch[d][1] /\ 1 \in DOMAIN batch[d] /\ This(d) \in Copy
    BY <1>1 DEF This
<1>3. InFlight(This(d).target)
    BY <1>2 DEF InFlight
<1>4. Tail(batch[d]) \in Seq(Copy)
    BY <1>1
<1>5. batch' \in [Drainers -> Seq(Copy)]
    BY <1>1, <1>4 DEF DrainTypeOK
<1>6. ASSUME NEW t \in Targets, InFlight(t)' PROVE InFlight(t)
    <2>1. PICK e \in Drainers : \E k \in DOMAIN batch'[e] : batch'[e][k].target = t
        BY <1>6 DEF InFlight
    <2>2. PICK k \in DOMAIN batch'[e] : batch'[e][k].target = t
        BY <2>1
    <2>3. CASE e = d
        <3>1. batch'[e] = Tail(batch[d])
            BY <1>1, <2>3 DEF DrainTypeOK
        <3>2. \A j \in DOMAIN Tail(batch[d]) : j + 1 \in DOMAIN batch[d] /\ Tail(batch[d])[j] = batch[d][j + 1]
            BY <1>1
        <3>3. k + 1 \in DOMAIN batch[d] /\ batch[d][k + 1].target = t
            BY <2>2, <3>1, <3>2
        <3> QED
            BY <3>3 DEF InFlight
    <2>4. CASE e # d
        BY <1>1, <2>2, <2>4 DEF InFlight, DrainTypeOK
    <2> QED
        BY <2>3, <2>4
<1>7. This(d).target \in Targets /\ This(d).attempts \in 0 .. MaxEmbedAttempts
    BY <1>2 DEF Copy
<1> QED
    BY <1>2, <1>3, <1>5, <1>6, <1>7

\* What the drain may do to the index: it loses nothing that is indexed, and it
\* does nothing to what is neither indexed nor in a batch.
DrainKeeps ==
    /\ \A t \in Targets : t \in vectors \/ Queued(t) \/ t \in failed => (t \in vectors \/ Queued(t) \/ t \in failed)'
    /\ \A t \in Targets : t \notin vectors /\ ~ Queued(t) /\ ~ InFlight(t) =>
          /\ (t \notin vectors /\ ~ Queued(t) /\ ~ InFlight(t))'
          /\ t \notin failed => t \notin failed'

LEMMA EmbedKeeps ==
    ASSUME DrainTypeOK, NEW d \in Drainers, Embed(d)
    PROVE  DrainTypeOK' /\ DrainKeeps
<1> DEFINE t == This(d).target
<1>1. Finish(d)
    BY DEF Embed
<1>2. /\ t \in Targets /\ InFlight(t)
      /\ batch' \in [Drainers -> Seq(Copy)]
      /\ \A u \in Targets : InFlight(u)' => InFlight(u)
    BY <1>1, FinishFacts
<1>3. /\ vectors' = vectors \cup {t} /\ failed' = failed /\ requests' = requests /\ lostDrains' = lostDrains
      /\ queue' = [queue EXCEPT ![t] = NoRequest] \/ queue' = queue
    BY DEF Embed, Finish
<1>4. queue' \in [Targets -> Request] /\ (\A u \in Targets : u # t => queue'[u] = queue[u])
    BY <1>2, <1>3, NoRequestFacts DEF DrainTypeOK
<1>5. DrainTypeOK'
    BY <1>2, <1>3, <1>4 DEF DrainTypeOK
<1>6. DrainKeeps
    BY <1>2, <1>3, <1>4 DEF DrainKeeps, Queued
<1> QED
    BY <1>5, <1>6

LEMMA EmbedFailsKeeps ==
    ASSUME DrainTypeOK, NEW d \in Drainers, EmbedFails(d)
    PROVE  DrainTypeOK' /\ DrainKeeps
<1> DEFINE t == This(d).target
           attempts == This(d).attempts + 1
           spent == attempts >= MaxEmbedAttempts
<1>1. Finish(d)
    BY DEF EmbedFails
<1>2. /\ t \in Targets /\ InFlight(t) /\ This(d).attempts \in 0 .. MaxEmbedAttempts
      /\ batch' \in [Drainers -> Seq(Copy)]
      /\ \A u \in Targets : InFlight(u)' => InFlight(u)
    BY <1>1, FinishFacts
<1>3. /\ vectors' = vectors /\ requests' = requests /\ lostDrains' = lostDrains
      /\ failed' = IF spent THEN failed \cup {t} ELSE failed
    BY DEF EmbedFails, Finish
<1>4. queue' = IF ~ SameRow(This(d)) THEN queue
               ELSE [queue EXCEPT ![t] = IF spent THEN NoRequest
                                         ELSE [queue[t] EXCEPT !.attempts = attempts, !.cooling = TRUE]]
    BY DEF EmbedFails
<1>5. CASE ~ SameRow(This(d))
    <2>1. queue' = queue
        BY <1>4, <1>5
    <2>2. DrainTypeOK'
        BY <1>2, <1>3, <2>1 DEF DrainTypeOK
    <2> QED
        BY <1>2, <1>3, <2>1, <2>2 DEF DrainKeeps, Queued
<1>6. CASE SameRow(This(d)) /\ spent
    <2>1. queue' = [queue EXCEPT ![t] = NoRequest] /\ failed' = failed \cup {t}
        BY <1>3, <1>4, <1>6
    <2>2. queue' \in [Targets -> Request] /\ (\A u \in Targets : u # t => queue'[u] = queue[u])
        BY <1>2, <2>1, NoRequestFacts DEF DrainTypeOK
    <2>3. DrainTypeOK'
        BY <1>2, <1>3, <2>1, <2>2 DEF DrainTypeOK
    <2> QED
        BY <1>2, <1>3, <2>1, <2>2, <2>3 DEF DrainKeeps, Queued
<1>7. CASE SameRow(This(d)) /\ ~ spent
    <2> DEFINE row == [queue[t] EXCEPT !.attempts = attempts, !.cooling = TRUE]
    <2>1. queue' = [queue EXCEPT ![t] = row] /\ failed' = failed
        BY <1>3, <1>4, <1>7
    <2>2. attempts \in 0 .. MaxEmbedAttempts
        BY <1>2, <1>7, DrainAssumption
    <2>3. queue[t] \in Request
        BY <1>2 DEF DrainTypeOK
    <2>4. row \in Request /\ row.id = queue[t].id
        BY <2>2, <2>3 DEF Request
    <2>5. /\ queue' \in [Targets -> Request] /\ queue'[t] = row
          /\ \A u \in Targets : u # t => queue'[u] = queue[u]
        BY <1>2, <2>1, <2>4 DEF DrainTypeOK
    <2>6. \A u \in Targets : Queued(u)' <=> Queued(u)
        BY <2>4, <2>5 DEF Queued
    <2>7. DrainTypeOK'
        BY <1>2, <1>3, <2>1, <2>5 DEF DrainTypeOK
    <2> QED
        BY <1>2, <1>3, <2>1, <2>6, <2>7 DEF DrainKeeps
<1> QED
    BY <1>5, <1>6, <1>7

LEMMA ReadBatchKeeps ==
    ASSUME DrainTypeOK, NEW d \in Drainers, ReadBatch(d)
    PROVE  DrainTypeOK' /\ DrainKeeps
<1>1. PICK n \in 1 .. DrainBatch : \E q \in [1 .. n -> Ready] :
        batch' = [batch EXCEPT ![d] = [k \in 1 .. n |->
            [target |-> q[k], id |-> queue[q[k]].id, at |-> queue[q[k]].at, attempts |-> queue[q[k]].attempts]]]
    BY DEF ReadBatch
<1>2. PICK q \in [1 .. n -> Ready] :
        batch' = [batch EXCEPT ![d] = [k \in 1 .. n |->
            [target |-> q[k], id |-> queue[q[k]].id, at |-> queue[q[k]].at, attempts |-> queue[q[k]].attempts]]]
    BY <1>1
<1> DEFINE read == [k \in 1 .. n |->
            [target |-> q[k], id |-> queue[q[k]].id, at |-> queue[q[k]].at, attempts |-> queue[q[k]].attempts]]
<1>3. n \in Nat
    BY DrainAssumption
<1>4. \A k \in 1 .. n : q[k] \in Targets /\ Queued(q[k])
    BY DEF Ready
<1>5. \A k \in 1 .. n : read[k] \in Copy /\ read[k].target = q[k]
    <2> SUFFICES ASSUME NEW k \in 1 .. n PROVE read[k] \in Copy /\ read[k].target = q[k]
        OBVIOUS
    <2>1. queue[q[k]] \in Request /\ q[k] \in Targets
        BY <1>4 DEF DrainTypeOK
    <2> QED
        BY <2>1 DEF Request, Copy
<1>6. read \in Seq(Copy) /\ DOMAIN read = 1 .. n
    BY <1>3, <1>5
<1>7. /\ batch' \in [Drainers -> Seq(Copy)] /\ batch'[d] = read
      /\ \A e \in Drainers : e # d => batch'[e] = batch[e]
    <2> HIDE DEF read
    <2> QED
        BY <1>2, <1>6 DEF DrainTypeOK, read
<1>8. UNCHANGED <<queue, vectors, failed, requests, lostDrains>>
    BY DEF ReadBatch
<1>9. DrainTypeOK'
    BY <1>7, <1>8 DEF DrainTypeOK
<1>10. ASSUME NEW t \in Targets, InFlight(t)' PROVE InFlight(t) \/ Queued(t)
    <2>1. PICK e \in Drainers : \E k \in DOMAIN batch'[e] : batch'[e][k].target = t
        BY <1>10 DEF InFlight
    <2>2. CASE e = d
        BY <1>4, <1>5, <1>6, <1>7, <2>1, <2>2
    <2>3. CASE e # d
        BY <1>7, <2>1, <2>3 DEF InFlight
    <2> QED
        BY <2>2, <2>3
<1>11. DrainKeeps
    BY <1>8, <1>10 DEF DrainKeeps, Queued
<1> QED
    BY <1>9, <1>11

LEMMA LoseDrainKeeps ==
    ASSUME DrainTypeOK, NEW d \in Drainers, LoseDrain(d)
    PROVE  DrainTypeOK' /\ DrainKeeps
<1>1. /\ batch' = [batch EXCEPT ![d] = <<>>] /\ lostDrains' = lostDrains + 1 /\ lostDrains < MaxLostDrains
      /\ UNCHANGED <<queue, vectors, failed, requests>>
    BY DEF LoseDrain
<1>2. lostDrains' \in 0 .. MaxLostDrains
    BY <1>1, DrainAssumption DEF DrainTypeOK
<1>3. batch' \in [Drainers -> Seq(Copy)] /\ batch'[d] = <<>> /\ (\A e \in Drainers : e # d => batch'[e] = batch[e])
    BY <1>1 DEF DrainTypeOK
<1>4. \A t \in Targets : InFlight(t)' => InFlight(t)
    BY <1>3 DEF InFlight
<1> QED
    BY <1>1, <1>2, <1>3, <1>4 DEF DrainTypeOK, DrainKeeps, Queued

LEMMA CooldownKeeps ==
    ASSUME DrainTypeOK, NEW t \in Targets, CooldownPasses(t)
    PROVE  DrainTypeOK' /\ DrainKeeps
<1>1. queue' = [queue EXCEPT ![t].cooling = FALSE] /\ UNCHANGED <<vectors, failed, batch, requests, lostDrains>>
    BY DEF CooldownPasses
<1>2. queue' \in [Targets -> Request] /\ (\A u \in Targets : queue'[u].id = queue[u].id)
    BY <1>1 DEF DrainTypeOK, Request
<1> QED
    BY <1>1, <1>2 DEF DrainTypeOK, DrainKeeps, Queued, InFlight

-----------------------------------------------------------------------------
(* The outbox, the readings and what a step owes the rest of the invariant *)

\* No row of the outbox goes away.
WorkStays == \A i \in Items : work[i].state # "none" => work'[i].state # "none"

LEMMA DeletionStays ==
    ASSUME WorkStays
    PROVE  \A c \in Claims : DeletionQueued(c) => DeletionQueued(c)'
<1> SUFFICES ASSUME NEW c \in Claims, NEW cause \in {Expired, Erased}, work[<<c, cause>>].state # "none"
             PROVE  work'[<<c, cause>>].state # "none"
    BY DEF DeletionQueued
<1>1. <<c, cause>> \in Items
    BY ClaimIndexAssumption DEF Items, Claims
<1> QED
    BY <1>1 DEF WorkStays

LEMMA EnqueueStays ==
    ASSUME WorkInv, NEW D, NEW cause, Enqueue(D, cause)
    PROVE  WorkStays
BY EnqueueRow DEF WorkInv, WorkStays, NewWork

LEMMA ReadingsStay ==
    ASSUME UNCHANGED <<taken, seen>>
    PROVE  (\A c \in Claims : Reading(c)' <=> Reading(c)) /\ (SeenInv => SeenInv')
BY DEF Reading, SeenInv, Current

\* Worker w's handler ends, whatever becomes of its batch.
LEMMA ForgetFacts ==
    ASSUME TypeOK, SeenInv, NEW w \in Propagators, Forget(w), \A v \in Propagators : v # w => taken'[v] = taken[v]
    PROVE  /\ seen' \in [Propagators -> {"unread", "gone", "servable", "unservable"}]
           /\ SeenInv' /\ \A c \in Claims : Reading(c)' => Reading(c)
<1>1. /\ seen' \in [Propagators -> {"unread", "gone", "servable", "unservable"}]
      /\ seen'[w] = "unread" /\ \A v \in Propagators : v # w => seen'[v] = seen[v]
    BY DEF TypeOK, Forget
<1>2. \A v \in Propagators : v # w => Current(v)' = Current(v)
    BY DEF Current
<1>3. SeenInv'
    BY <1>1, <1>2 DEF SeenInv
<1>4. \A c \in Claims : Reading(c)' => Reading(c)
    BY <1>1, <1>2 DEF Reading
<1> QED
    BY <1>1, <1>3, <1>4

LEMMA RegisteredKeepsWork ==
    ASSUME WorkInv, registered' \subseteq Derivatives, UNCHANGED <<work, taken, lostTicks>>
    PROVE  WorkInv'
BY DEF WorkInv, WorkTypeOK

\* A row that is written stays written: enough where no quarantine changes.
LEMMA QuarantineKeeps ==
    ASSUME TypeOK, QuarantineInv, UNCHANGED <<quarantine, open, touched>>,
           \A c \in Claims : claim[c].status # "none" => claim'[c].status # "none"
    PROVE  QuarantineInv'
<1>1. \A q \in Quarantines : quarantine[q].members \subseteq Claims
    BY DEF TypeOK, Quarantine
<1> QED
    BY <1>1 DEF QuarantineInv

\* No rebuild is queued.
LEMMA PolicyKeeps ==
    ASSUME PolicyInv, touched \subseteq touched',
           \A i \in Items : i[2] = PolicyChange /\ work'[i].state # "none" => work[i].state # "none"
    PROVE  PolicyInv'
BY DEF PolicyInv

\* A quarantine queues rebuilds.
LEMMA PolicyChangeKeeps ==
    ASSUME WorkInv, PolicyInv, NEW D, Enqueue(D, PolicyChange), touched \subseteq touched', D \subseteq touched'
    PROVE  PolicyInv'
<1> SUFFICES ASSUME NEW i \in Items, i[2] = PolicyChange, work'[i].state # "none" PROVE i[1] \in touched'
    BY DEF PolicyInv
<1>1. CASE i \in Insertable(D, PolicyChange)
    BY <1>1 DEF Insertable
<1>2. CASE i \notin Insertable(D, PolicyChange)
    BY <1>2, EnqueueRow DEF WorkInv, PolicyInv
<1> QED
    BY <1>1, <1>2

\* A deletion is queued.
LEMMA DeletionKeeps ==
    ASSUME WorkInv, PolicyInv, NEW D, NEW cause \in {Expired, Erased}, Enqueue(D, cause), touched' = touched
    PROVE  PolicyInv'
<1>1. cause # PolicyChange
    BY DEF PolicyChange, Expired, Erased
<1>2. \A i \in Items : i[2] = PolicyChange => work'[i] = work[i]
    BY <1>1, EnqueueRow DEF WorkInv, Insertable
<1> QED
    BY <1>2, PolicyKeeps

-----------------------------------------------------------------------------
(* The steps, and the part of the invariant that is about the index *)

\* A writer that projects the claim it changes.
LEMMA ProjectStep ==
    ASSUME TypeOK, RetiredInv, ServableIsIndexed,
           NEW c \in Claims, NEW row, row.status \in {"staged"} \cup Closed, Project(c, row),
           claim'[c] = row, \A u \in Claims : u # c => claim'[u] = claim[u],
           UNCHANGED <<work, taken, seen, batch, lostDrains, touched>>,
           raced' \subseteq Claims, \A u \in Claims : u # c /\ u \notin raced' => u \notin raced,
           row.status \in Closed /\ c \notin raced' => ~ Watched(c)
    PROVE  DrainTypeOK' /\ RetiredInv' /\ ServableIsIndexed' /\ registered' \subseteq Derivatives
<1>1. Targets = Claims /\ DrainTypeOK /\ registered \subseteq Derivatives
    BY ClaimIndexAssumption DEF Claims, TypeOK, WorkTypeOK
<1>2. \A u \in Claims : (InFlight(u)' <=> InFlight(u)) /\ (Reading(u)' <=> Reading(u))
    BY ReadingsStay DEF InFlight
<1>3. \A u \in Claims : DeletionQueued(u)' <=> DeletionQueued(u)
    BY DEF DeletionQueued
<1>4. row.status # "erased" /\ (row.status \in Retired => row.status \in Closed)
    BY DEF Retired, Closed
<1>5. CASE ServableRow(row)
    <2>1. EnqueueText(c) /\ registered' = registered \cup {c}
        BY <1>5 DEF Project
    <2>2. /\ DrainTypeOK' /\ Queued(c)' /\ UNCHANGED <<vectors, failed>>
          /\ \A u \in Claims : u # c => queue'[u] = queue[u]
        BY <1>1, <2>1, EnqueueTextFacts
    <2>3. \A u \in Claims : u # c => (Queued(u)' <=> Queued(u))
        BY <2>2 DEF Queued
    <2>4. row.status \notin Retired
        BY <1>5 DEF ServableRow, Retired, Closed
    <2>5. ASSUME NEW u \in Claims \ raced'
          PROVE  /\ claim'[u].status \in Retired => u \notin vectors' /\ ~ Queued(u)' /\ ~ InFlight(u)' /\ ~ Reading(u)'
                 /\ claim'[u].status = "erased" => u \notin failed'
        <3>1. CASE u = c
            BY <1>4, <2>4, <3>1
        <3>2. CASE u # c
            BY <1>2, <2>2, <2>3, <3>2 DEF RetiredInv
        <3> QED
            BY <3>1, <3>2
    <2>6. RetiredInv'
        BY <2>5 DEF RetiredInv
    <2>7. ServableIsIndexed'
        BY <1>3, <2>2, <2>3 DEF ServableIsIndexed, Servable, Indexed
    <2> QED
        BY <1>1, <2>1, <2>2, <2>6, <2>7 DEF Claims
<1>6. CASE ~ ServableRow(row)
    <2>1. Retract(c) /\ registered' = registered
        BY <1>6 DEF Project
    <2>2. /\ DrainTypeOK' /\ vectors' = vectors \ {c} /\ failed' = failed /\ ~ Queued(c)'
          /\ \A u \in Claims : u # c => queue'[u] = queue[u]
        BY <1>1, <2>1, RetractFacts
    <2>3. \A u \in Claims : u # c => (Queued(u)' <=> Queued(u))
        BY <2>2 DEF Queued
    <2>4. ASSUME NEW u \in Claims \ raced'
          PROVE  /\ claim'[u].status \in Retired => u \notin vectors' /\ ~ Queued(u)' /\ ~ InFlight(u)' /\ ~ Reading(u)'
                 /\ claim'[u].status = "erased" => u \notin failed'
        <3>1. CASE u = c
            BY <1>2, <1>4, <2>2, <3>1 DEF Watched
        <3>2. CASE u # c
            BY <1>2, <2>2, <2>3, <3>2 DEF RetiredInv
        <3> QED
            BY <3>1, <3>2
    <2>5. RetiredInv'
        BY <2>4 DEF RetiredInv
    <2>6. ServableIsIndexed'
        BY <1>3, <1>6, <2>2, <2>3 DEF ServableIsIndexed, Servable, Indexed
    <2> QED
        BY <1>1, <2>1, <2>2, <2>5, <2>6 DEF Claims
<1> QED
    BY <1>5, <1>6

\* The drain, which changes nothing but the index and its batches.
LEMMA DrainStepIndex ==
    ASSUME TypeOK, RetiredInv, ServableIsIndexed, DrainKeeps, UNCHANGED <<work, taken, claimVars>>
    PROVE  RetiredInv' /\ ServableIsIndexed'
<1>1. Targets = Claims
    BY ClaimIndexAssumption DEF Claims
<1>2. UNCHANGED <<claim, seen, raced, touched, taken, work>>
    BY DEF claimVars
<1>3. \A u \in Claims : Reading(u)' <=> Reading(u)
    BY <1>2, ReadingsStay
<1>4. RetiredInv'
    BY <1>1, <1>2, <1>3 DEF RetiredInv, Retired, DrainKeeps
<1>5. \A u \in Claims : DeletionQueued(u)' <=> DeletionQueued(u)
    BY <1>2 DEF DeletionQueued
<1>6. ServableIsIndexed'
    BY <1>1, <1>2, <1>5 DEF ServableIsIndexed, DrainKeeps, Servable, Indexed
<1> QED
    BY <1>4, <1>6

\* A deletion from the index: of claims that go with it, or whose artefacts are
\* to go.
LEMMA EraseStep ==
    ASSUME TypeOK, RetiredInv, ServableIsIndexed, NEW T \in SUBSET Claims, EraseTargets(T),
           UNCHANGED <<batch, lostDrains, touched>>, WorkStays,
           \A u \in Claims : Reading(u)' => Reading(u),
           \A u \in T : DeletionQueued(u)' \/ ~ Servable(u)',
           \A u \in Claims \ T : Servable(u)' => Servable(u),
           \A u \in Claims \ raced' : claim'[u].status \in Retired =>
               (u \in T /\ ~ Watched(u)) \/ (u \notin raced /\ claim'[u].status = claim[u].status)
    PROVE  DrainTypeOK' /\ RetiredInv' /\ ServableIsIndexed'
<1>1. Targets = Claims /\ DrainTypeOK
    BY ClaimIndexAssumption DEF Claims, TypeOK
<1>2. \A u \in Claims : InFlight(u)' <=> InFlight(u)
    BY DEF InFlight
<1>3. /\ DrainTypeOK' /\ vectors' = vectors \ T /\ failed' = failed \ T
      /\ \A u \in Claims : u \in T => ~ Queued(u)'
      /\ \A u \in Claims : u \notin T => queue'[u] = queue[u]
    BY <1>1, EraseFacts
<1>4. \A u \in Claims : u \notin T => (Queued(u)' <=> Queued(u))
    BY <1>3 DEF Queued
<1>5. ASSUME NEW u \in Claims \ raced', claim'[u].status \in Retired
      PROVE  /\ u \notin vectors' /\ ~ Queued(u)' /\ ~ InFlight(u)' /\ ~ Reading(u)'
             /\ claim'[u].status = "erased" => u \notin failed'
    <2>1. CASE u \in T /\ ~ Watched(u)
        BY <1>2, <1>3, <2>1 DEF Watched
    <2>2. CASE u \notin raced /\ claim'[u].status = claim[u].status
        BY <1>2, <1>3, <1>4, <1>5, <2>2 DEF RetiredInv
    <2> QED
        BY <1>5, <2>1, <2>2
<1>6. RetiredInv'
    BY <1>5 DEF RetiredInv, Retired
<1>7. \A u \in Claims : DeletionQueued(u) => DeletionQueued(u)'
    BY DeletionStays
<1>8. ServableIsIndexed'
    BY <1>3, <1>4, <1>7 DEF ServableIsIndexed, Indexed
<1> QED
    BY <1>3, <1>6, <1>8

\* A step that leaves the index alone.
LEMMA IndexUntouched ==
    ASSUME TypeOK, RetiredInv, ServableIsIndexed, UNCHANGED <<drainVars, raced>>, WorkStays,
           \A u \in Claims : Reading(u)' => Reading(u) \/ claim'[u].status = "staged",
           \A c \in Claims : claim'[c].status \in Retired => claim'[c].status = claim[c].status,
           \A c \in Claims \ touched' : c \notin touched /\ (Servable(c)' => Servable(c))
    PROVE  DrainTypeOK' /\ RetiredInv' /\ ServableIsIndexed'
<1>1. UNCHANGED <<queue, vectors, failed, batch, requests, lostDrains, raced>>
    BY DEF drainVars
<1>2. \A u \in Claims : (InFlight(u)' <=> InFlight(u)) /\ (Queued(u)' <=> Queued(u))
    BY <1>1 DEF InFlight, Queued
<1>3. RetiredInv'
    BY <1>1, <1>2 DEF RetiredInv, Retired, Closed
<1>4. \A u \in Claims : DeletionQueued(u) => DeletionQueued(u)'
    BY DeletionStays
<1>5. ServableIsIndexed'
    BY <1>1, <1>2, <1>4 DEF ServableIsIndexed, Indexed
<1> QED
    BY <1>1, <1>3, <1>5 DEF TypeOK, DrainTypeOK

-----------------------------------------------------------------------------
(* The steps *)

LEMMA InitIInv == Init => IInv
<1> SUFFICES ASSUME Init PROVE IInv
    OBVIOUS
<1>1. WorkInv
    BY WorkInitLemma DEF Init
<1>2. DrainTypeOK
    BY NoRequestFacts, DrainAssumption DEF Init, DrainInit, DrainTypeOK
<1>3. TypeOK
    BY <1>1, <1>2, ClaimIndexAssumption
       DEF Init, TypeOK, WorkInv, ClaimRow, NoClaim, Quarantine, Transaction, NoTransaction
<1>4. UnwrittenInv /\ QuarantineInv
    BY DEF Init, UnwrittenInv, QuarantineInv, NoClaim, NoTransaction
<1>5. PolicyInv /\ SeenInv
    BY DEF Init, WorkInit, PolicyInv, SeenInv, NoWork
<1>6. RetiredInv /\ ServableIsIndexed
    BY DEF Init, RetiredInv, Retired, Closed, ServableIsIndexed, Servable, ServableRow, NoClaim
<1> QED
    BY <1>1, <1>3, <1>4, <1>5, <1>6 DEF IInv

LEMMA InterveneType ==
    ASSUME TypeOK, Intervene
    PROVE  interventions' \in 0 .. MaxInterventions
BY ClaimIndexAssumption DEF TypeOK, Intervene

LEMMA WriteClaimStep ==
    ASSUME IInv, NEW c \in Claims, WriteClaim(c)
    PROVE  IInv'
<1>1. /\ claim[c].status = "none" /\ claim' = [claim EXCEPT ![c].status = "staged"]
      /\ UNCHANGED <<workVars, drainVars, quarantine, open, seen, erasure, raced, touched, contended, interventions>>
    BY DEF WriteClaim
<1>2. claim \in [Claims -> ClaimRow] /\ ~ claim[c].consolidated
    BY <1>1 DEF IInv, TypeOK, UnwrittenInv, NoClaim
<1>3. /\ claim' \in [Claims -> ClaimRow] /\ claim'[c].status = "staged" /\ ~ claim'[c].consolidated
      /\ \A u \in Claims : u # c => claim'[u] = claim[u]
    <2>1. claim'[c].consolidated = claim[c].consolidated
        BY <1>1, <1>2 DEF ClaimRow
    <2>2. /\ claim' \in [Claims -> ClaimRow] /\ claim'[c].status = "staged"
          /\ \A u \in Claims : u # c => claim'[u] = claim[u]
        BY <1>1, <1>2 DEF ClaimRow
    <2> QED
        BY <1>2, <2>1, <2>2
<1>4. UNCHANGED <<registered, work, taken, lostTicks>>
    BY <1>1 DEF workVars
<1>5. WorkInv'
    BY <1>4, RegisteredKeepsWork DEF IInv, WorkInv, WorkTypeOK
<1>6. QuarantineInv'
    <2>1. \A u \in Claims : claim[u].status # "none" => claim'[u].status # "none"
        BY <1>3
    <2>2. UNCHANGED <<quarantine, open, touched>> /\ TypeOK /\ QuarantineInv
        BY <1>1 DEF IInv
    <2> QED
        BY <2>1, <2>2, QuarantineKeeps
<1>7. PolicyInv'
    BY <1>1, <1>4, PolicyKeeps DEF IInv
<1>8. SeenInv' /\ (\A u \in Claims : Reading(u)' <=> Reading(u)) /\ WorkStays
    BY <1>1, <1>4, ReadingsStay DEF IInv, WorkStays
<1>9. \A u \in Claims : Servable(u)' => Servable(u)
    BY <1>3 DEF Servable, ServableRow
<1>10. \A u \in Claims : claim'[u].status \in Retired => claim'[u].status = claim[u].status
    BY <1>3 DEF Retired, Closed
<1>11. DrainTypeOK' /\ RetiredInv' /\ ServableIsIndexed'
    BY <1>1, <1>8, <1>9, <1>10, IndexUntouched DEF IInv
<1>12. UnwrittenInv'
    BY <1>3 DEF IInv, UnwrittenInv
<1>13. TypeOK'
    BY <1>1, <1>3, <1>5, <1>11 DEF IInv, TypeOK, WorkInv
<1> QED
    BY <1>5, <1>6, <1>7, <1>8, <1>11, <1>12, <1>13 DEF IInv

\* The writers that project what they wrote.
LEMMA ProjectingStep ==
    ASSUME IInv, NEW c \in Claims, Exists(c),
           claim' \in [Claims -> ClaimRow], claim'[c].status \in {"staged"} \cup Closed,
           \A u \in Claims : u # c => claim'[u] = claim[u],
           Project(c, claim'[c]),
           UNCHANGED <<work, taken, lostTicks, batch, lostDrains, quarantine, open, seen, erasure, touched,
                       contended, interventions>>,
           raced' \subseteq Claims, \A u \in Claims : u # c /\ u \notin raced' => u \notin raced,
           claim'[c].status \in Closed /\ c \notin raced' => ~ Watched(c)
    PROVE  IInv'
<1>1. PICK row : row = claim'[c]
    OBVIOUS
<1>2. Project(c, row) /\ row.status \in {"staged"} \cup Closed /\ claim'[c] = row
    BY <1>1 DEF Project, ServableRow
<1>3. TypeOK /\ RetiredInv /\ ServableIsIndexed
    BY DEF IInv
<1>4. row.status \in Closed /\ c \notin raced' => ~ Watched(c)
    BY <1>1
<1>5. DrainTypeOK' /\ RetiredInv' /\ ServableIsIndexed' /\ registered' \subseteq Derivatives
    BY <1>2, <1>3, <1>4, ProjectStep
<1>6. WorkInv'
    BY <1>5, RegisteredKeepsWork DEF IInv
<1>7. \A u \in Claims : claim'[u].status = "none" => u # c
    BY DEF Closed
<1>8. QuarantineInv'
    BY <1>7, QuarantineKeeps DEF IInv
<1>9. PolicyInv' /\ SeenInv'
    BY PolicyKeeps, ReadingsStay DEF IInv
<1>10. UnwrittenInv'
    BY <1>7 DEF IInv, UnwrittenInv
<1>11. TypeOK'
    BY <1>5, <1>6 DEF IInv, TypeOK, WorkInv
<1> QED
    BY <1>5, <1>6, <1>8, <1>9, <1>10, <1>11 DEF IInv

LEMMA MarkConsolidatedStep ==
    ASSUME IInv, NEW c \in Claims, MarkConsolidated(c)
    PROVE  IInv'
<1>1. /\ claim \in [Claims -> ClaimRow] /\ Exists(c) /\ claim' = [claim EXCEPT ![c].consolidated = TRUE]
      /\ raced' = raced /\ raced \subseteq Claims
    BY DEF IInv, TypeOK, MarkConsolidated
<1>2. /\ claim' \in [Claims -> ClaimRow] /\ claim'[c].status = claim[c].status
      /\ \A u \in Claims : u # c => claim'[u] = claim[u]
    BY <1>1 DEF ClaimRow
<1>3. claim'[c].status \in Closed /\ c \notin raced' => ~ Watched(c)
    BY <1>1, <1>2 DEF IInv, RetiredInv, Retired, Watched
<1>4. claim'[c].status \in {"staged"} \cup Closed
    BY <1>1, <1>2 DEF Exists
<1>5. /\ Project(c, claim'[c])
      /\ UNCHANGED <<work, taken, lostTicks, batch, lostDrains, quarantine, open, seen, erasure, touched,
                     contended, interventions>>
    BY DEF MarkConsolidated
<1> QED
    BY <1>1, <1>2, <1>3, <1>4, <1>5, ProjectingStep

LEMMA CloseStep ==
    ASSUME IInv, NEW c \in Claims, NEW outcome \in Closed, Close(c, outcome)
    PROVE  IInv'
<1>1. /\ claim \in [Claims -> ClaimRow] /\ Exists(c) /\ claim' = [claim EXCEPT ![c].status = outcome]
      /\ raced' = (IF Watched(c) THEN raced \cup {c} ELSE raced \ {c}) /\ raced \subseteq Claims
    BY DEF IInv, TypeOK, Close, Exists
<1>2. outcome \in {"none", "staged", "erased"} \cup Closed
    OBVIOUS
<1>3. /\ claim' \in [Claims -> ClaimRow] /\ claim'[c].status = outcome
      /\ \A u \in Claims : u # c => claim'[u] = claim[u]
    BY <1>1, <1>2 DEF ClaimRow
<1>4. /\ raced' \subseteq Claims /\ (c \notin raced' => ~ Watched(c))
      /\ \A u \in Claims : u # c /\ u \notin raced' => u \notin raced
    BY <1>1
<1>5. /\ Project(c, claim'[c])
      /\ UNCHANGED <<work, taken, lostTicks, batch, lostDrains, quarantine, open, seen, erasure, touched,
                     contended, interventions>>
    BY DEF Close
<1>6. claim'[c].status \in {"staged"} \cup Closed
    BY <1>3
<1> QED
    BY <1>1, <1>3, <1>4, <1>5, <1>6, ProjectingStep

\* What an open transaction rests on.
LEMMA OpenFacts ==
    ASSUME IInv, NEW q \in Quarantines
    PROVE  /\ quarantine[q] \in Quarantine /\ open[q] \in Transaction
           /\ open[q].writes \subseteq quarantine[q].members
           /\ quarantine[q].members \subseteq Claims
           /\ \A c \in quarantine[q].members : claim[c].status # "none"
           /\ open[q].kind = "revert" => quarantine[q].members \subseteq touched
BY DEF IInv, TypeOK, QuarantineInv, Quarantine, Transaction

LEMMA ApplyWritesStep ==
    ASSUME IInv, NEW q \in Quarantines, NEW M \in SUBSET Claims, ApplyWrites(q, M)
    PROVE  IInv'
<1> DEFINE W == {c \in M : ~ claim[c].withheld}
<1>1. /\ quarantine[q].state = "none"
      /\ open' = [open EXCEPT ![q] = [kind |-> "apply", writes |-> W]]
      /\ quarantine' = [quarantine EXCEPT ![q].members = M]
      /\ \A c \in M : Exists(c)
      /\ UNCHANGED <<workVars, drainVars, claim, seen, erasure, raced, touched>>
      /\ contended' = contended \cup MatchedByOpen(M) /\ Intervene
    BY DEF ApplyWrites
<1>2. /\ quarantine \in [Quarantines -> Quarantine] /\ open \in [Quarantines -> Transaction]
      /\ W \subseteq M /\ W \subseteq Claims
    BY DEF IInv, TypeOK
<1> HIDE DEF W
<1>3. /\ quarantine' \in [Quarantines -> Quarantine]
      /\ quarantine'[q].state = "none" /\ quarantine'[q].members = M
      /\ \A p \in Quarantines : p # q => quarantine'[p] = quarantine[p]
    BY <1>1, <1>2 DEF Quarantine
<1>4. /\ open' \in [Quarantines -> Transaction]
      /\ open'[q].kind = "apply" /\ open'[q].writes = W
      /\ \A p \in Quarantines : p # q => open'[p] = open[p]
    BY <1>1, <1>2 DEF Transaction
<1>5. UNCHANGED <<registered, work, taken, lostTicks>>
    BY <1>1 DEF workVars
<1>6. WorkInv'
    BY <1>5, RegisteredKeepsWork DEF IInv, WorkInv, WorkTypeOK
<1>7. QuarantineInv'
    BY <1>1, <1>2, <1>3, <1>4 DEF IInv, QuarantineInv, Exists, Closed
<1>8. PolicyInv' /\ SeenInv' /\ WorkStays /\ (\A u \in Claims : Reading(u)' <=> Reading(u))
    BY <1>1, <1>5, PolicyKeeps, ReadingsStay DEF IInv, WorkStays
<1>9. DrainTypeOK' /\ RetiredInv' /\ ServableIsIndexed'
    BY <1>1, <1>8, IndexUntouched DEF IInv, Servable
<1>10. contended' \subseteq Claims /\ interventions' \in 0 .. MaxInterventions
    BY <1>1, InterveneType DEF IInv, TypeOK, MatchedByOpen
<1>11. TypeOK'
    BY <1>1, <1>3, <1>4, <1>6, <1>9, <1>10 DEF IInv, TypeOK, WorkInv
<1> QED
    BY <1>1, <1>6, <1>7, <1>8, <1>9, <1>11 DEF IInv, UnwrittenInv

LEMMA ApplyCommitsStep ==
    ASSUME IInv, NEW q \in Quarantines, ApplyCommits(q)
    PROVE  IInv'
<1>1. /\ quarantine' = [quarantine EXCEPT ![q].state = "active"]
      /\ claim' = [c \in Claims |-> IF c \in open[q].writes THEN [claim[c] EXCEPT !.withheld = TRUE] ELSE claim[c]]
      /\ Enqueue(quarantine[q].members, PolicyChange)
      /\ open' = [open EXCEPT ![q] = NoTransaction]
      /\ touched' = touched \cup quarantine[q].members
      /\ UNCHANGED <<registered, taken, lostTicks, drainVars, seen, erasure, raced, contended, interventions>>
    BY DEF ApplyCommits
<1>2. /\ quarantine \in [Quarantines -> Quarantine] /\ open \in [Quarantines -> Transaction]
      /\ claim \in [Claims -> ClaimRow] /\ touched \subseteq Claims
    BY DEF IInv, TypeOK
<1>3. /\ open[q].writes \subseteq quarantine[q].members /\ quarantine[q].members \subseteq Claims
      /\ \A c \in quarantine[q].members : claim[c].status # "none"
    BY OpenFacts
<1>4. /\ quarantine' \in [Quarantines -> Quarantine]
      /\ quarantine'[q].state = "active" /\ quarantine'[q].members = quarantine[q].members
      /\ \A p \in Quarantines : p # q => quarantine'[p] = quarantine[p]
    BY <1>1, <1>2 DEF Quarantine
<1>5. /\ open' \in [Quarantines -> Transaction]
      /\ open'[q].kind = "none" /\ open'[q].writes = {}
      /\ \A p \in Quarantines : p # q => open'[p] = open[p]
    BY <1>1, <1>2 DEF Transaction, NoTransaction
<1>6. /\ claim' \in [Claims -> ClaimRow]
      /\ \A c \in Claims : claim'[c].status = claim[c].status
      /\ \A c \in Claims : c \notin open[q].writes => claim'[c] = claim[c]
    BY <1>1, <1>2 DEF ClaimRow
<1>7. WorkInv'
    BY <1>1, EnqueueLemma DEF IInv
<1>8. QuarantineInv'
    <2>1. \A p \in Quarantines : quarantine[p].members \subseteq Claims
        BY OpenFacts
    <2>2. \A p \in Quarantines : \A c \in quarantine[p].members : claim'[c].status # "none"
        BY <1>6, <2>1 DEF IInv, QuarantineInv
    <2> QED
        BY <1>1, <1>4, <1>5, <2>2 DEF IInv, QuarantineInv
<1>9. PolicyInv' /\ SeenInv' /\ WorkStays /\ (\A u \in Claims : Reading(u)' <=> Reading(u))
    BY <1>1, <1>3, PolicyChangeKeeps, EnqueueStays, ReadingsStay DEF IInv
<1>10. \A c \in Claims \ touched' : c \notin touched /\ (Servable(c)' => Servable(c))
    BY <1>1, <1>3, <1>6 DEF Servable
<1>11. DrainTypeOK' /\ RetiredInv' /\ ServableIsIndexed'
    BY <1>1, <1>6, <1>9, <1>10, IndexUntouched DEF IInv
<1>12. UnwrittenInv'
    BY <1>3, <1>6 DEF IInv, UnwrittenInv
<1>13. TypeOK'
    BY <1>1, <1>2, <1>3, <1>4, <1>5, <1>6, <1>7, <1>11 DEF IInv, TypeOK, WorkInv
<1> QED
    BY <1>7, <1>8, <1>9, <1>11, <1>12, <1>13 DEF IInv

LEMMA RevertWritesStep ==
    ASSUME IInv, NEW q \in Quarantines, RevertWrites(q)
    PROVE  IInv'
<1> DEFINE W == {c \in quarantine[q].members : Exists(c) /\ claim[c].withheld /\ ~ HeldByAnother(c, q)}
<1>1. /\ quarantine[q].state = "active"
      /\ open' = [open EXCEPT ![q] = [kind |-> "revert", writes |-> W]]
      /\ UNCHANGED <<workVars, drainVars, claim, quarantine, seen, erasure, raced, touched, interventions>>
      /\ contended' = contended \cup MatchedByOpen(quarantine[q].members)
    BY DEF RevertWrites
<1>2. open \in [Quarantines -> Transaction] /\ quarantine[q].members \subseteq Claims
    BY OpenFacts DEF IInv, TypeOK
<1>3. W \subseteq quarantine[q].members /\ W \subseteq Claims
    BY <1>2
<1> HIDE DEF W
<1>4. /\ open' \in [Quarantines -> Transaction]
      /\ open'[q].kind = "revert" /\ open'[q].writes = W
      /\ \A p \in Quarantines : p # q => open'[p] = open[p]
    BY <1>1, <1>2, <1>3 DEF Transaction
<1>5. UNCHANGED <<registered, work, taken, lostTicks>>
    BY <1>1 DEF workVars
<1>6. WorkInv'
    BY <1>5, RegisteredKeepsWork DEF IInv, WorkInv, WorkTypeOK
<1>7. QuarantineInv'
    BY <1>1, <1>3, <1>4 DEF IInv, QuarantineInv
<1>8. PolicyInv' /\ SeenInv' /\ WorkStays /\ (\A u \in Claims : Reading(u)' <=> Reading(u))
    BY <1>1, <1>5, PolicyKeeps, ReadingsStay DEF IInv, WorkStays
<1>9. DrainTypeOK' /\ RetiredInv' /\ ServableIsIndexed'
    BY <1>1, <1>8, IndexUntouched DEF IInv, Servable
<1>10. contended' \subseteq Claims
    BY <1>1, <1>2 DEF IInv, TypeOK, MatchedByOpen
<1>11. TypeOK'
    BY <1>1, <1>4, <1>6, <1>9, <1>10 DEF IInv, TypeOK, WorkInv
<1> QED
    BY <1>1, <1>6, <1>7, <1>8, <1>9, <1>11 DEF IInv, UnwrittenInv

LEMMA RevertCommitsStep ==
    ASSUME IInv, NEW q \in Quarantines, RevertCommits(q)
    PROVE  IInv'
<1>1. /\ open[q].kind = "revert"
      /\ quarantine' = [quarantine EXCEPT ![q].state = "reverted"]
      /\ claim' = [c \in Claims |-> IF c \in open[q].writes THEN [claim[c] EXCEPT !.withheld = FALSE] ELSE claim[c]]
      /\ Enqueue(open[q].writes, PolicyChange)
      /\ open' = [open EXCEPT ![q] = NoTransaction]
      /\ UNCHANGED <<registered, taken, lostTicks, drainVars, seen, erasure, raced, touched, contended, interventions>>
    BY DEF RevertCommits
<1>2. /\ quarantine \in [Quarantines -> Quarantine] /\ open \in [Quarantines -> Transaction]
      /\ claim \in [Claims -> ClaimRow]
    BY DEF IInv, TypeOK
<1>3. /\ open[q].writes \subseteq quarantine[q].members /\ quarantine[q].members \subseteq Claims
      /\ quarantine[q].members \subseteq touched
      /\ \A c \in quarantine[q].members : claim[c].status # "none"
    BY <1>1, OpenFacts
<1>4. /\ quarantine' \in [Quarantines -> Quarantine]
      /\ quarantine'[q].state = "reverted" /\ quarantine'[q].members = quarantine[q].members
      /\ \A p \in Quarantines : p # q => quarantine'[p] = quarantine[p]
    BY <1>1, <1>2 DEF Quarantine
<1>5. /\ open' \in [Quarantines -> Transaction]
      /\ open'[q].kind = "none" /\ open'[q].writes = {}
      /\ \A p \in Quarantines : p # q => open'[p] = open[p]
    BY <1>1, <1>2 DEF Transaction, NoTransaction
<1>6. /\ claim' \in [Claims -> ClaimRow]
      /\ \A c \in Claims : claim'[c].status = claim[c].status
      /\ \A c \in Claims : c \notin open[q].writes => claim'[c] = claim[c]
    BY <1>1, <1>2 DEF ClaimRow
<1>7. WorkInv'
    BY <1>1, EnqueueLemma DEF IInv
<1>8. QuarantineInv'
    <2>1. \A p \in Quarantines : quarantine[p].members \subseteq Claims
        BY OpenFacts
    <2>2. \A p \in Quarantines : \A c \in quarantine[p].members : claim'[c].status # "none"
        BY <1>6, <2>1 DEF IInv, QuarantineInv
    <2> QED
        BY <1>1, <1>3, <1>4, <1>5, <2>2 DEF IInv, QuarantineInv
<1>9. PolicyInv' /\ SeenInv' /\ WorkStays /\ (\A u \in Claims : Reading(u)' <=> Reading(u))
    BY <1>1, <1>3, PolicyChangeKeeps, EnqueueStays, ReadingsStay DEF IInv
<1>10. \A c \in Claims \ touched' : c \notin touched /\ (Servable(c)' => Servable(c))
    BY <1>1, <1>3, <1>6 DEF Servable
<1>11. DrainTypeOK' /\ RetiredInv' /\ ServableIsIndexed'
    BY <1>1, <1>6, <1>9, <1>10, IndexUntouched DEF IInv
<1>12. UnwrittenInv'
    BY <1>3, <1>6 DEF IInv, UnwrittenInv
<1>13. TypeOK'
    BY <1>1, <1>4, <1>5, <1>6, <1>7, <1>11 DEF IInv, TypeOK, WorkInv
<1> QED
    BY <1>7, <1>8, <1>9, <1>11, <1>12, <1>13 DEF IInv

\* A deletion is queued and nothing else changes but the erasure's progress.
LEMMA QueueDeletionStep ==
    ASSUME IInv, NEW D, NEW cause \in {Expired, Erased}, Enqueue(D, cause), Intervene,
           erasure' \in {"none", "queued", "done"},
           UNCHANGED <<registered, taken, lostTicks, drainVars, claim, quarantine, open, seen, raced, touched, contended>>
    PROVE  IInv'
<1>1. WorkInv' /\ WorkStays
    BY EnqueueLemma, EnqueueStays DEF IInv
<1>2. QuarantineInv'
    BY QuarantineKeeps DEF IInv
<1>3. PolicyInv'
    BY DeletionKeeps DEF IInv
<1>4. SeenInv' /\ (\A u \in Claims : Reading(u)' <=> Reading(u))
    BY ReadingsStay DEF IInv
<1>5. DrainTypeOK' /\ RetiredInv' /\ ServableIsIndexed'
    BY <1>1, <1>4, IndexUntouched DEF IInv, Servable
<1>6. TypeOK'
    BY <1>1, <1>5, InterveneType DEF IInv, TypeOK, WorkInv
<1> QED
    BY <1>1, <1>2, <1>3, <1>4, <1>5, <1>6 DEF IInv, UnwrittenInv

LEMMA SweepExpiredStep ==
    ASSUME IInv, NEW c \in Claims, SweepExpired(c)
    PROVE  IInv'
<1>1. erasure' \in {"none", "queued", "done"}
    BY DEF IInv, TypeOK, SweepExpired
<1> QED
    BY <1>1, QueueDeletionStep DEF SweepExpired

LEMMA EraseDerivativesStep ==
    ASSUME IInv, NEW A \in SUBSET Claims, EraseDerivatives(A)
    PROVE  IInv'
BY QueueDeletionStep DEF EraseDerivatives

\* What the claims' erasure does to their rows.
LEMMA EraseClaimsRows ==
    ASSUME IInv, NEW S \in SUBSET Claims, NEW L \in SUBSET Claims, EraseClaims(S, L)
    PROVE  /\ claim' \in [Claims -> ClaimRow]
           /\ \A c \in S : claim'[c].status = "erased"
           /\ \A c \in L : c \notin S /\ claim[c].status = "superseded" /\ claim'[c].status = "staged"
           /\ \A c \in L : claim'[c].withheld = claim[c].withheld /\ ~ claim'[c].consolidated
           /\ \A c \in Claims : c \notin S /\ c \notin L => claim'[c] = claim[c]
<1> DEFINE blank == [NoClaim EXCEPT !.status = "erased"]
           again(c) == [claim[c] EXCEPT !.status = "staged", !.consolidated = FALSE]
<1>1. /\ claim' = [c \in Claims |-> IF c \in S THEN blank ELSE IF c \in L THEN again(c) ELSE claim[c]]
      /\ \A c \in L : c \notin S /\ claim[c].status = "superseded"
    BY Zenon DEF EraseClaims
<1>2. claim \in [Claims -> ClaimRow]
    BY DEF IInv, TypeOK
<1>3. blank \in ClaimRow /\ blank.status = "erased"
    BY DEF ClaimRow, NoClaim
<1>4. \A c \in Claims : /\ again(c) \in ClaimRow /\ again(c).status = "staged"
                        /\ again(c).consolidated = FALSE /\ again(c).withheld = claim[c].withheld
    BY <1>2 DEF ClaimRow
<1> HIDE DEF blank, again
<1>5. claim' \in [Claims -> ClaimRow]
    BY <1>1, <1>2, <1>3, <1>4
<1>6. \A c \in S : claim'[c] = blank
    BY <1>1
<1>7. \A c \in L : claim'[c] = again(c)
    BY <1>1
<1>8. \A c \in Claims : c \notin S /\ c \notin L => claim'[c] = claim[c]
    BY <1>1
<1>9. \A c \in L : claim'[c].withheld = claim[c].withheld /\ claim'[c].consolidated = FALSE
    BY <1>4, <1>7
<1> QED
    BY <1>1, <1>3, <1>4, <1>5, <1>6, <1>7, <1>8, <1>9

LEMMA EraseClaimsStep ==
    ASSUME IInv, NEW S \in SUBSET Claims, NEW L \in SUBSET Claims, EraseClaims(S, L)
    PROVE  IInv'
<1>1. /\ erasure' = "done"
      /\ EraseTargets(S)
      /\ raced' = (raced \ S) \cup {c \in S : Watched(c)}
      /\ UNCHANGED <<workVars, batch, lostDrains, quarantine, open, seen, touched, contended, interventions>>
    BY Zenon DEF EraseClaims
<1>2. /\ claim' \in [Claims -> ClaimRow]
      /\ \A c \in S : claim'[c].status = "erased"
      /\ \A c \in L : claim'[c].status = "staged" /\ ~ claim'[c].consolidated
      /\ \A c \in Claims : c \notin S /\ c \notin L => claim'[c] = claim[c]
    BY EraseClaimsRows
<1>3. UNCHANGED <<registered, work, taken, lostTicks>>
    BY <1>1 DEF workVars
<1>4. WorkInv' /\ WorkStays
    BY <1>3, RegisteredKeepsWork DEF IInv, WorkInv, WorkTypeOK, WorkStays
<1>5. \A u \in Claims : claim'[u].status = "none" => claim'[u] = claim[u]
    BY <1>2
<1>6. QuarantineInv'
    <2>1. UNCHANGED <<quarantine, open, touched>> /\ TypeOK /\ QuarantineInv
        BY <1>1 DEF IInv
    <2> QED
        BY <1>5, <2>1, QuarantineKeeps
<1>7. PolicyInv'
    BY <1>1, <1>3, PolicyKeeps DEF IInv
<1>8. SeenInv' /\ (\A u \in Claims : Reading(u)' <=> Reading(u))
    BY <1>1, <1>3, ReadingsStay DEF IInv
<1>9. DrainTypeOK' /\ RetiredInv' /\ ServableIsIndexed'
    <2>1. \A u \in S : ~ Servable(u)'
        BY <1>2 DEF Servable, ServableRow
    <2>2. \A u \in Claims \ S : Servable(u)' => Servable(u)
        BY <1>2 DEF Servable, ServableRow
    <2>3. ASSUME NEW u \in Claims \ raced', claim'[u].status \in Retired
          PROVE  (u \in S /\ ~ Watched(u)) \/ (u \notin raced /\ claim'[u].status = claim[u].status)
        BY <1>1, <1>2, <2>3 DEF Retired, Closed
    <2>4. TypeOK /\ RetiredInv /\ ServableIsIndexed /\ UNCHANGED <<batch, lostDrains, touched>>
        BY <1>1 DEF IInv
    <2> QED
        BY <1>1, <1>4, <1>8, <2>1, <2>2, <2>3, <2>4, EraseStep
<1>10. UnwrittenInv'
    BY <1>5 DEF IInv, UnwrittenInv
<1>11. raced' \subseteq Claims
    BY <1>1 DEF IInv, TypeOK
<1>12. TypeOK'
    BY <1>1, <1>2, <1>4, <1>9, <1>11 DEF IInv, TypeOK, WorkInv
<1> QED
    BY <1>4, <1>6, <1>7, <1>8, <1>9, <1>10, <1>12 DEF IInv

-----------------------------------------------------------------------------
(* The propagation worker *)

\* The steps of the outbox that leave the index alone.
LEMMA WorkStep ==
    ASSUME IInv, WorkInv', \A i \in Items : work'[i].state # "none" <=> work[i].state # "none",
           SeenInv', seen' \in [Propagators -> {"unread", "gone", "servable", "unservable"}],
           \A u \in Claims : Reading(u)' => Reading(u) \/ claim[u].status = "staged",
           UNCHANGED <<drainVars, claim, quarantine, open, erasure, raced, touched, contended, interventions>>
    PROVE  IInv'
<1>1. QuarantineInv'
    BY QuarantineKeeps DEF IInv
<1>2. PolicyInv'
    BY PolicyKeeps DEF IInv
<1>3. WorkStays
    BY DEF WorkStays
<1>4. DrainTypeOK' /\ RetiredInv' /\ ServableIsIndexed'
    BY <1>3, IndexUntouched DEF IInv, Servable
<1>5. TypeOK'
    BY <1>4 DEF IInv, TypeOK, WorkInv
<1> QED
    BY <1>1, <1>2, <1>4, <1>5 DEF IInv, UnwrittenInv

\* The item that is applied is in the outbox.
LEMMA CurrentIsQueued ==
    ASSUME WorkInv, NEW w \in Propagators, taken[w] # <<>>
    PROVE  Current(w) \in Items /\ work[Current(w)].state # "none"
<1>1. taken[w] \in Seq(Claimed)
    BY DEF WorkInv, WorkTypeOK
<1>2. Head(taken[w]) = taken[w][1] /\ 1 \in DOMAIN taken[w] /\ taken[w][1] \in Claimed
    BY <1>1
<1> QED
    BY <1>2 DEF WorkInv, Current, Claimed

LEMMA ReadClaimStep ==
    ASSUME IInv, NEW w \in Propagators, ReadClaim(w)
    PROVE  IInv'
<1>1. PICK answer \in {"gone", "servable", "unservable"} :
          /\ seen' = [seen EXCEPT ![w] = answer]
          /\ answer = "servable" => Servable(Current(w)[1])
    BY DEF ReadClaim
<1>2. /\ taken[w] # <<>> /\ Current(w)[2] = PolicyChange
      /\ UNCHANGED <<workVars, drainVars, claim, quarantine, open, erasure, raced, touched, contended, interventions>>
    BY DEF ReadClaim
<1>3. UNCHANGED <<registered, work, taken, lostTicks>> /\ (\A v \in Propagators : Current(v)' = Current(v))
    BY <1>2 DEF workVars, Current
<1>4. /\ seen' \in [Propagators -> {"unread", "gone", "servable", "unservable"}]
      /\ seen'[w] = answer /\ \A v \in Propagators : v # w => seen'[v] = seen[v]
    BY <1>1 DEF IInv, TypeOK
<1>5. SeenInv'
    BY <1>2, <1>3, <1>4 DEF IInv, SeenInv
<1>6. \A u \in Claims : Reading(u)' => Reading(u) \/ claim[u].status = "staged"
    BY <1>1, <1>3, <1>4 DEF Reading, Servable, ServableRow
<1>7. WorkInv'
    BY <1>3, RegisteredKeepsWork DEF IInv, WorkInv, WorkTypeOK
<1> QED
    BY <1>2, <1>3, <1>4, <1>5, <1>6, <1>7, WorkStep

\* A worker's tick ends or goes on to the next item without touching the index.
LEMMA ForgettingStep ==
    ASSUME IInv, NEW w \in Propagators, WorkInv', Forget(w), UNCHANGED drainVars,
           \A v \in Propagators : v # w => taken'[v] = taken[v],
           \A i \in Items : work'[i].state # "none" <=> work[i].state # "none"
    PROVE  IInv'
<1>1. /\ seen' \in [Propagators -> {"unread", "gone", "servable", "unservable"}]
      /\ SeenInv' /\ \A c \in Claims : Reading(c)' => Reading(c)
    BY ForgetFacts DEF IInv
<1>2. UNCHANGED <<drainVars, claim, quarantine, open, erasure, raced, touched, contended, interventions>>
    BY DEF Forget
<1> QED
    BY <1>1, <1>2, WorkStep

\* A rebuild queues a claim that it has read as servable: one that retired since
\* then is in raced.
LEMMA RequeueStep ==
    ASSUME TypeOK, RetiredInv, ServableIsIndexed, NEW c \in Claims, EnqueueText(c), Reading(c),
           UNCHANGED <<batch, lostDrains, claim, raced, touched>>, WorkStays,
           \A u \in Claims : Reading(u)' => Reading(u)
    PROVE  DrainTypeOK' /\ RetiredInv' /\ ServableIsIndexed'
<1>1. Targets = Claims /\ DrainTypeOK
    BY ClaimIndexAssumption DEF Claims, TypeOK
<1>2. /\ DrainTypeOK' /\ Queued(c)' /\ UNCHANGED <<vectors, failed>>
      /\ \A u \in Claims : u # c => queue'[u] = queue[u]
    BY <1>1, EnqueueTextFacts
<1>3. \A u \in Claims : u # c => (Queued(u)' <=> Queued(u))
    BY <1>2 DEF Queued
<1>4. \A u \in Claims : (InFlight(u)' <=> InFlight(u)) /\ (DeletionQueued(u) => DeletionQueued(u)')
    BY DeletionStays DEF InFlight
<1>5. RetiredInv'
    BY <1>2, <1>3, <1>4 DEF RetiredInv, Retired
<1>6. ServableIsIndexed'
    BY <1>2, <1>3, <1>4 DEF ServableIsIndexed, Servable, Indexed
<1> QED
    BY <1>2, <1>5, <1>6

\* A rebuild retracts a claim, which a quarantine has matched.
LEMMA RetractStep ==
    ASSUME TypeOK, RetiredInv, ServableIsIndexed, NEW c \in Claims, Retract(c), c \in touched,
           UNCHANGED <<batch, lostDrains, claim, raced, touched>>, WorkStays,
           \A u \in Claims : Reading(u)' => Reading(u)
    PROVE  DrainTypeOK' /\ RetiredInv' /\ ServableIsIndexed'
<1>1. Targets = Claims /\ DrainTypeOK
    BY ClaimIndexAssumption DEF Claims, TypeOK
<1>2. /\ DrainTypeOK' /\ vectors' = vectors \ {c} /\ failed' = failed /\ ~ Queued(c)'
      /\ \A u \in Claims : u # c => queue'[u] = queue[u]
    BY <1>1, RetractFacts
<1>3. \A u \in Claims : u # c => (Queued(u)' <=> Queued(u))
    BY <1>2 DEF Queued
<1>4. \A u \in Claims : (InFlight(u)' <=> InFlight(u)) /\ (DeletionQueued(u) => DeletionQueued(u)')
    BY DeletionStays DEF InFlight
<1>5. RetiredInv'
    BY <1>2, <1>3, <1>4 DEF RetiredInv
<1>6. ServableIsIndexed'
    BY <1>2, <1>3, <1>4 DEF ServableIsIndexed, Servable, Indexed
<1> QED
    BY <1>2, <1>5, <1>6

LEMMA ApplyStep ==
    ASSUME IInv, NEW w \in Propagators, Apply(w)
    PROVE  IInv'
<1> DEFINE i == Current(w)
           c == i[1]
<1>1. MarkDone(w) /\ HandleItem(w) /\ Forget(w) /\ UNCHANGED <<batch, lostDrains>>
    BY DEF Apply
<1>2. UNCHANGED <<claim, quarantine, open, erasure, raced, touched, contended, interventions>>
    BY <1>1 DEF Forget
<1>3. WorkInv /\ WorkInv'
    BY <1>1, MarkDoneLemma DEF IInv
<1>4. /\ i \in Items /\ work[i].state # "none" /\ work'[i].state # "none" /\ taken[w] # <<>>
      /\ \A j \in Items : j # i => work'[j] = work[j]
    BY <1>1, <1>3, CurrentIsQueued, SettleRow DEF MarkDone
<1>5. WorkStays /\ (\A j \in Items : work'[j].state # "none" => work[j].state # "none")
    BY <1>4 DEF WorkStays
<1>6. \A v \in Propagators : v # w => taken'[v] = taken[v]
    BY <1>1 DEF MarkDone, IInv, TypeOK, WorkTypeOK
<1>7. /\ seen' \in [Propagators -> {"unread", "gone", "servable", "unservable"}]
      /\ SeenInv' /\ \A u \in Claims : Reading(u)' => Reading(u)
    BY <1>1, <1>6, ForgetFacts DEF IInv
<1>8. QuarantineInv'
    BY <1>2, QuarantineKeeps DEF IInv
<1>9. PolicyInv'
    BY <1>2, <1>5, PolicyKeeps DEF IInv
<1>10. c \in Claims /\ i = <<c, i[2]>> /\ i[2] \in Causes
    BY <1>4 DEF Items, Claims
<1>11. TypeOK /\ RetiredInv /\ ServableIsIndexed
    BY DEF IInv
<1>12. DrainTypeOK' /\ RetiredInv' /\ ServableIsIndexed'
    <2>1. CASE seen[w] = "servable" /\ EnqueueText(c)
        <3>1. Reading(c)
            BY <2>1 DEF Reading
        <3> HIDE DEF i
        <3> QED
            BY <1>1, <1>2, <1>5, <1>7, <1>10, <1>11, <2>1, <3>1, RequeueStep
    <2>2. CASE seen[w] = "unservable" /\ Retract(c)
        <3>1. c \in touched
            BY <1>4, <2>2 DEF IInv, SeenInv, PolicyInv
        <3> HIDE DEF i
        <3> QED
            BY <1>1, <1>2, <1>5, <1>7, <1>10, <1>11, <2>2, <3>1, RetractStep
    <2>3. CASE UNCHANGED <<queue, vectors, failed, requests>>
        <3>1. UNCHANGED <<drainVars, raced>>
            BY <1>1, <1>2, <2>3 DEF drainVars
        <3> QED
            BY <1>2, <1>5, <1>7, <1>11, <3>1, IndexUntouched DEF Servable
    <2>4. CASE i[2] # PolicyChange /\ EraseTargets({c})
        <3>1. DeletionQueued(c)
            <4>1. i[2] \in {Expired, Erased}
                BY <1>10, <2>4, ClaimIndexAssumption
            <4> QED
                BY <1>4, <1>10, <4>1 DEF DeletionQueued
        <3>2. \A u \in {c} : DeletionQueued(u)' \/ ~ Servable(u)'
            BY <1>5, <1>10, <3>1, DeletionStays
        <3>3. {c} \in SUBSET Claims
            BY <1>10
        <3>4. /\ \A u \in Claims \ {c} : Servable(u)' => Servable(u)
              /\ \A u \in Claims \ raced' : claim'[u].status \in Retired =>
                     (u \in {c} /\ ~ Watched(u)) \/ (u \notin raced /\ claim'[u].status = claim[u].status)
            BY <1>2 DEF Servable
        <3> HIDE DEF i
        <3> QED
            BY <1>1, <1>2, <1>5, <1>7, <1>11, <2>4, <3>2, <3>3, <3>4, EraseStep
    <2> QED
        BY <1>1, <2>1, <2>2, <2>3, <2>4 DEF HandleItem
<1>13. TypeOK'
    BY <1>2, <1>3, <1>7, <1>12 DEF IInv, TypeOK, WorkInv
<1> QED
    BY <1>2, <1>3, <1>7, <1>8, <1>9, <1>12, <1>13 DEF IInv, UnwrittenInv

-----------------------------------------------------------------------------
(* The drain, and every step *)

\* A step of the drain.
LEMMA DrainStepIInv ==
    ASSUME IInv, DrainTypeOK', DrainKeeps, registered' \subseteq Derivatives,
           UNCHANGED <<work, taken, lostTicks, claimVars>>
    PROVE  IInv'
<1>1. UNCHANGED <<claim, quarantine, open, seen, erasure, raced, touched, contended, interventions>>
    BY DEF claimVars
<1>2. WorkInv'
    BY RegisteredKeepsWork DEF IInv
<1>3. QuarantineInv'
    BY <1>1, QuarantineKeeps DEF IInv
<1>4. PolicyInv' /\ SeenInv'
    BY <1>1, PolicyKeeps, ReadingsStay DEF IInv
<1>5. RetiredInv' /\ ServableIsIndexed'
    BY DrainStepIndex DEF IInv
<1>6. TypeOK'
    BY <1>1, <1>2 DEF IInv, TypeOK, WorkInv
<1> QED
    BY <1>1, <1>2, <1>3, <1>4, <1>5, <1>6 DEF IInv, UnwrittenInv

LEMMA EmbedClaimStep ==
    ASSUME IInv, NEW d \in Drainers, EmbedClaim(d)
    PROVE  IInv'
<1>1. DrainTypeOK /\ registered \subseteq Derivatives
    BY DEF IInv, TypeOK, WorkTypeOK
<1>2. Embed(d) /\ UNCHANGED <<work, taken, lostTicks, claimVars>>
    BY DEF EmbedClaim
<1>3. DrainTypeOK' /\ DrainKeeps
    BY <1>1, <1>2, EmbedKeeps
<1>4. This(d).target \in Targets
    BY <1>1, <1>2, FinishFacts DEF Embed
<1>5. registered' \subseteq Derivatives
    BY <1>1, <1>4, ClaimIndexAssumption DEF EmbedClaim
<1> QED
    BY <1>2, <1>3, <1>5, DrainStepIInv

LEMMA OtherDrainStep ==
    ASSUME IInv, DrainTypeOK', DrainKeeps, UNCHANGED <<workVars, claimVars>>
    PROVE  IInv'
<1>1. UNCHANGED <<registered, work, taken, lostTicks, claimVars>>
    BY DEF workVars
<1>2. registered' \subseteq Derivatives
    BY <1>1 DEF IInv, TypeOK, WorkTypeOK
<1> QED
    BY <1>1, <1>2, DrainStepIInv

\* The outbox's own steps, without a handler.
LEMMA PlainWorkStep ==
    ASSUME IInv, WorkInv', SeenInv', \A u \in Claims : Reading(u)' => Reading(u),
           \A i \in Items : work'[i].state # "none" <=> work[i].state # "none",
           UNCHANGED <<drainVars, claimVars>>
    PROVE  IInv'
<1>1. UNCHANGED <<drainVars, claim, quarantine, open, seen, erasure, raced, touched, contended, interventions>>
    BY DEF claimVars
<1>2. seen' \in [Propagators -> {"unread", "gone", "servable", "unservable"}]
    BY <1>1 DEF IInv, TypeOK
<1> QED
    BY <1>1, <1>2, WorkStep

\* A worker claims a batch when it has none, and then it has read nothing.
LEMMA ClaimStep ==
    ASSUME IInv, NEW w \in Propagators, Claim(w), UNCHANGED <<drainVars, claimVars>>
    PROVE  IInv'
<1>1. /\ taken[w] = <<>> /\ work' = work /\ seen' = seen
      /\ \A v \in Propagators : v # w => taken'[v] = taken[v]
    BY DEF Claim, claimVars, IInv, TypeOK, WorkTypeOK
<1>2. seen[w] = "unread"
    BY <1>1 DEF IInv, SeenInv
<1>3. \A v \in Propagators : v # w => Current(v)' = Current(v)
    BY <1>1 DEF Current
<1>4. SeenInv'
    BY <1>1, <1>2, <1>3 DEF IInv, SeenInv
<1>5. \A u \in Claims : Reading(u)' => Reading(u)
    BY <1>1, <1>2, <1>3 DEF Reading
<1>6. WorkInv'
    BY ClaimLemma DEF IInv
<1> QED
    BY <1>1, <1>4, <1>5, <1>6, PlainWorkStep

LEMMA NextIInv == IInv /\ [Next]_vars => IInv'
<1> SUFFICES ASSUME IInv, [Next]_vars PROVE IInv'
    OBVIOUS
<1>0. DrainTypeOK /\ WorkInv
    BY DEF IInv, TypeOK
<1>1. ASSUME NEW c \in Claims, WriteClaim(c) \/ MarkConsolidated(c) \/ SweepExpired(c) PROVE IInv'
    BY <1>1, WriteClaimStep, MarkConsolidatedStep, SweepExpiredStep
<1>2. ASSUME NEW c \in Claims, NEW outcome \in Closed, Close(c, outcome) PROVE IInv'
    BY <1>2, CloseStep
<1>3. ASSUME NEW q \in Quarantines,
             (\E M \in SUBSET Claims : ApplyWrites(q, M)) \/ ApplyCommits(q) \/ RevertWrites(q) \/ RevertCommits(q)
      PROVE  IInv'
    BY <1>3, ApplyWritesStep, ApplyCommitsStep, RevertWritesStep, RevertCommitsStep
<1>4. ASSUME NEW A \in SUBSET Claims, EraseDerivatives(A) PROVE IInv'
    BY <1>4, EraseDerivativesStep
<1>5. ASSUME NEW S \in SUBSET Claims, NEW L \in SUBSET Claims, EraseClaims(S, L) PROVE IInv'
    BY <1>5, EraseClaimsStep
<1>6. ASSUME NEW w \in Propagators, ApplyFails(w) PROVE IInv'
    <2>1. MarkFailed(w) /\ Forget(w) /\ UNCHANGED drainVars
        BY <1>6 DEF ApplyFails
    <2>2. WorkInv'
        BY <1>0, <2>1, MarkFailedLemma
    <2>3. /\ \A i \in Items : work'[i].state # "none" <=> work[i].state # "none"
          /\ \A v \in Propagators : v # w => taken'[v] = taken[v]
        <3>1. /\ taken[w] # <<>> /\ taken' = [taken EXCEPT ![w] = Tail(@)]
              /\ \A i \in Items : i # Current(w) => work'[i] = work[i]
              /\ work'[Current(w)].state # "none"
            BY <1>0, <2>1, SettleRow
        <3>2. work[Current(w)].state # "none"
            BY <1>0, <3>1, CurrentIsQueued
        <3> QED
            BY <1>0, <3>1, <3>2 DEF WorkInv, WorkTypeOK
    <2> QED
        BY <2>1, <2>2, <2>3, ForgettingStep
<1>7. ASSUME NEW w \in Propagators, Propagation(w) PROVE IInv'
    BY <1>6, <1>7, ReadClaimStep, ApplyStep DEF Propagation
<1>8. ASSUME NEW w \in Propagators, Claim(w), UNCHANGED <<drainVars, claimVars>> PROVE IInv'
    BY <1>8, ClaimStep
<1>9. ASSUME NEW w \in Propagators, LoseTick(w), Forget(w), UNCHANGED drainVars PROVE IInv'
    <2>1. WorkInv'
        BY <1>0, <1>9, LoseTickLemma
    <2>2. work' = work /\ (\A v \in Propagators : v # w => taken'[v] = taken[v])
        BY <1>0, <1>9 DEF LoseTick, WorkInv, WorkTypeOK
    <2> QED
        BY <1>9, <2>1, <2>2, ForgettingStep
<1>10. ASSUME NEW i \in Items, FallsDue(i), UNCHANGED <<drainVars, claimVars>> PROVE IInv'
    <2>1. WorkInv'
        BY <1>0, <1>10, FallsDueLemma
    <2>2. \A j \in Items : work'[j].state = work[j].state
        BY <1>0, <1>10 DEF FallsDue, WorkInv, WorkTypeOK, WorkRow
    <2>3. SeenInv' /\ (\A u \in Claims : Reading(u)' => Reading(u))
        BY <1>10, ReadingsStay DEF FallsDue, claimVars, IInv
    <2> QED
        BY <1>10, <2>1, <2>2, <2>3, PlainWorkStep
<1>11. ASSUME NEW d \in Drainers, DrainStep(d) PROVE IInv'
    <2>1. CASE EmbedClaim(d)
        BY <2>1, EmbedClaimStep
    <2>2. CASE EmbedFails(d) /\ UNCHANGED <<workVars, claimVars>>
        BY <1>0, <2>2, EmbedFailsKeeps, OtherDrainStep
    <2> QED
        BY <1>11, <2>1, <2>2 DEF DrainStep
<1>12. ASSUME NEW d \in Drainers, ReadBatch(d) \/ LoseDrain(d), UNCHANGED <<workVars, claimVars>> PROVE IInv'
    BY <1>0, <1>12, ReadBatchKeeps, LoseDrainKeeps, OtherDrainStep
<1>13. ASSUME NEW t \in Targets, CooldownPasses(t), UNCHANGED <<workVars, claimVars>> PROVE IInv'
    BY <1>0, <1>13, CooldownKeeps, OtherDrainStep
<1>14. CASE UNCHANGED vars
    <2>1. UNCHANGED <<drainVars, claimVars>> /\ UNCHANGED <<registered, work, taken, lostTicks, seen>>
        BY <1>14 DEF vars, drainVars, claimVars
    <2>2. WorkInv'
        BY <1>0, <2>1, RegisteredKeepsWork DEF WorkInv, WorkTypeOK
    <2>3. SeenInv' /\ (\A u \in Claims : Reading(u)' => Reading(u))
        BY <2>1, ReadingsStay DEF IInv
    <2> QED
        BY <2>1, <2>2, <2>3, PlainWorkStep
<1> QED
    BY <1>1, <1>2, <1>3, <1>4, <1>5, <1>7, <1>8, <1>9, <1>10, <1>11, <1>12, <1>13, <1>14 DEF Next

-----------------------------------------------------------------------------
(* Theorems *)

\* The inductive invariant of the claims, the outboxes and the index.
THEOREM Invariance == Spec => []IInv
BY InitIInv, NextIInv, PTL DEF Spec

\* memory_claims, claim_quarantines, embedding_outbox, derivative_work_outbox
\* and the workers' batches keep their types.
THEOREM TypeCorrect == Spec => []TypeOK
<1>1. IInv => TypeOK
    BY DEF IInv
<1> QED
    BY <1>1, Invariance, PTL

\* Whatever copies the drainers hold, fail on and retry, a servable claim that
\* no quarantine has matched, and whose artefacts neither the payload clock nor
\* an erasure has asked to delete, keeps its vectors, its request or its dead
\* letter (project_claim, _process_row, _handle_failure).
THEOREM ServableTheorem == Spec => []ServableIsIndexed
<1>1. IInv => ServableIsIndexed
    BY DEF IInv
<1> QED
    BY <1>1, Invariance, PTL

\* A claim that was last closed or erased while no drainer held a copy of its
\* request and no rebuild had read it as servable stays out of the index: no
\* later drain, rebuild or retry brings it back (project_claim, erase_targets).
THEOREM RetiredTheorem == Spec => []RetiredLeavesIndex
<1>1. IInv => RetiredLeavesIndex
    BY DEF IInv, RetiredInv, Retired, RetiredLeavesIndex
<1> QED
    BY <1>1, Invariance, PTL

-----------------------------------------------------------------------------
(* Quarantines *)

\* A claim that no two open transactions matched: what the one that matched it
\* will have done when it commits.
WellHeld(c) ==
    /\ Exists(c) => (claim[c].withheld <=> Held(c))
    /\ \A p, q \in Quarantines :
          open[p].kind # "none" /\ open[q].kind # "none" /\ c \in quarantine[p].members /\ c \in quarantine[q].members
              => p = q
    /\ \A q \in Quarantines : open[q].kind = "apply" /\ c \in quarantine[q].members /\ Exists(c) =>
          c \in open[q].writes \/ claim[c].withheld
    /\ \A q \in Quarantines : open[q].kind = "revert" /\ c \in quarantine[q].members /\ Exists(c) =>
          (c \in open[q].writes <=> ~ HeldByAnother(c, q))

WithheldInv == \A c \in Claims \ contended : WellHeld(c)

LEMMA InitWithheld == Init => WithheldInv
<1> SUFFICES ASSUME Init PROVE WithheldInv
    OBVIOUS
<1>1. \A q \in Quarantines : open[q].kind = "none"
    BY DEF Init, NoTransaction
<1>2. \A c \in Claims : ~ Exists(c)
    BY DEF Init, Exists, Closed, NoClaim
<1> QED
    BY <1>1, <1>2 DEF WithheldInv, WellHeld

\* The steps that are no quarantine's: a claim that exists afterwards is withheld
\* as it was, and one that did not exist before is nobody's.
LEMMA WithheldKeeps ==
    ASSUME WithheldInv, IInv, UNCHANGED <<quarantine, open, contended>>,
           \A c \in Claims : Exists(c)' => Exists(c) \/ (claim[c].status = "none" /\ ~ claim'[c].withheld),
           \A c \in Claims : Exists(c) /\ Exists(c)' => claim'[c].withheld = claim[c].withheld
    PROVE  WithheldInv'
<1> SUFFICES ASSUME NEW c \in Claims \ contended PROVE WellHeld(c)'
    BY DEF WithheldInv
<1>1. WellHeld(c)
    BY DEF WithheldInv
<1>2. (Held(c)' <=> Held(c)) /\ (\A q \in Quarantines : HeldByAnother(c, q)' <=> HeldByAnother(c, q))
    BY DEF Held, HeldByAnother
<1>3. \A q \in Quarantines : c \in quarantine[q].members => claim[c].status # "none"
    BY OpenFacts
<1>4. CASE ~ Exists(c)'
    BY <1>1, <1>4 DEF WellHeld
<1>5. CASE Exists(c) /\ Exists(c)'
    BY <1>1, <1>2, <1>5 DEF WellHeld
<1>6. CASE claim[c].status = "none" /\ ~ claim'[c].withheld
    BY <1>1, <1>2, <1>3, <1>6 DEF WellHeld, Held
<1> QED
    BY <1>4, <1>5, <1>6

LEMMA WithheldApplyWrites ==
    ASSUME IInv, WithheldInv, NEW q \in Quarantines, NEW M \in SUBSET Claims, ApplyWrites(q, M)
    PROVE  WithheldInv'
<1> DEFINE W == {c \in M : ~ claim[c].withheld}
<1>1. /\ quarantine[q].state = "none" /\ open[q].kind = "none"
      /\ open' = [open EXCEPT ![q] = [kind |-> "apply", writes |-> W]]
      /\ quarantine' = [quarantine EXCEPT ![q].members = M]
      /\ contended' = contended \cup MatchedByOpen(M) /\ claim' = claim
    BY DEF ApplyWrites
<1>2. quarantine \in [Quarantines -> Quarantine] /\ open \in [Quarantines -> Transaction]
    BY DEF IInv, TypeOK
<1>3. /\ quarantine'[q].state = "none" /\ quarantine'[q].members = M
      /\ \A p \in Quarantines : p # q => quarantine'[p] = quarantine[p]
    BY <1>1, <1>2 DEF Quarantine
<1>4. /\ open'[q].kind = "apply" /\ open'[q].writes = W
      /\ \A p \in Quarantines : p # q => open'[p] = open[p]
    BY <1>1, <1>2
<1> SUFFICES ASSUME NEW c \in Claims \ contended' PROVE WellHeld(c)'
    BY DEF WithheldInv
<1>5. WellHeld(c) /\ c \notin MatchedByOpen(M)
    BY <1>1 DEF WithheldInv
<1>6. (Held(c)' <=> Held(c)) /\ (Exists(c)' <=> Exists(c))
    BY <1>1, <1>3 DEF Held, Exists
<1>7. \A p \in Quarantines : p # q => (HeldByAnother(c, p)' <=> HeldByAnother(c, p))
    BY <1>1, <1>3 DEF HeldByAnother
<1>8. c \in M => c \in W \/ claim'[c].withheld
    BY <1>1
<1> HIDE DEF W
<1>9. \A p \in Quarantines : p # q /\ open[p].kind # "none" /\ c \in quarantine[p].members => c \notin M
    BY <1>5 DEF MatchedByOpen
<1>10. \A p, r \in Quarantines :
          open'[p].kind # "none" /\ open'[r].kind # "none" /\ c \in quarantine'[p].members /\ c \in quarantine'[r].members
              => p = r
    BY <1>3, <1>4, <1>5, <1>9 DEF WellHeld
<1>11. \A p \in Quarantines : open'[p].kind = "apply" /\ c \in quarantine'[p].members /\ Exists(c)' =>
          c \in open'[p].writes \/ claim'[c].withheld
    BY <1>1, <1>3, <1>4, <1>5, <1>6, <1>8 DEF WellHeld
<1>12. \A p \in Quarantines : open'[p].kind = "revert" /\ c \in quarantine'[p].members /\ Exists(c)' =>
          (c \in open'[p].writes <=> ~ HeldByAnother(c, p)')
    BY <1>3, <1>4, <1>5, <1>6, <1>7 DEF WellHeld
<1> QED
    BY <1>1, <1>5, <1>6, <1>10, <1>11, <1>12 DEF WellHeld

LEMMA WithheldApplyCommits ==
    ASSUME IInv, WithheldInv, NEW q \in Quarantines, ApplyCommits(q)
    PROVE  WithheldInv'
<1>1. /\ open[q].kind = "apply"
      /\ quarantine' = [quarantine EXCEPT ![q].state = "active"]
      /\ claim' = [c \in Claims |-> IF c \in open[q].writes THEN [claim[c] EXCEPT !.withheld = TRUE] ELSE claim[c]]
      /\ open' = [open EXCEPT ![q] = NoTransaction]
      /\ contended' = contended
    BY DEF ApplyCommits
<1>2. /\ quarantine \in [Quarantines -> Quarantine] /\ open \in [Quarantines -> Transaction]
      /\ claim \in [Claims -> ClaimRow]
    BY DEF IInv, TypeOK
<1>3. open[q].writes \subseteq quarantine[q].members /\ quarantine[q].members \subseteq Claims
    BY OpenFacts
<1>4. /\ quarantine[q].state = "none"
      /\ quarantine'[q].state = "active" /\ quarantine'[q].members = quarantine[q].members
      /\ \A p \in Quarantines : p # q => quarantine'[p] = quarantine[p]
    BY <1>1, <1>2 DEF Quarantine, IInv, QuarantineInv
<1>5. open'[q].kind = "none" /\ (\A p \in Quarantines : p # q => open'[p] = open[p])
    BY <1>1, <1>2 DEF NoTransaction
<1>6. /\ \A c \in Claims : claim'[c].status = claim[c].status
      /\ \A c \in Claims : c \in open[q].writes => claim'[c].withheld
      /\ \A c \in Claims : c \notin open[q].writes => claim'[c] = claim[c]
    BY <1>1, <1>2 DEF ClaimRow
<1> SUFFICES ASSUME NEW c \in Claims \ contended PROVE WellHeld(c)'
    BY <1>1 DEF WithheldInv
<1>7. WellHeld(c) /\ (Exists(c)' <=> Exists(c))
    BY <1>6 DEF WithheldInv, Exists
<1>8. \A p, r \in Quarantines :
          open'[p].kind # "none" /\ open'[r].kind # "none" /\ c \in quarantine'[p].members /\ c \in quarantine'[r].members
              => p = r
    BY <1>4, <1>5, <1>7 DEF WellHeld
<1>9. CASE c \in quarantine[q].members
    <2>1. Exists(c) => claim'[c].withheld
        BY <1>1, <1>6, <1>7, <1>9 DEF WellHeld
    <2>2. Held(c)'
        BY <1>4, <1>9 DEF Held
    <2>3. \A p \in Quarantines : open'[p].kind # "none" => c \notin quarantine'[p].members
        BY <1>1, <1>4, <1>5, <1>7, <1>9 DEF WellHeld
    <2> QED
        BY <1>7, <1>8, <2>1, <2>2, <2>3 DEF WellHeld
<1>10. CASE c \notin quarantine[q].members
    <2>1. claim'[c] = claim[c]
        BY <1>3, <1>6, <1>10
    <2>2. (Held(c)' <=> Held(c)) /\ (\A p \in Quarantines : HeldByAnother(c, p)' <=> HeldByAnother(c, p))
        BY <1>4, <1>10 DEF Held, HeldByAnother
    <2>3. \A p \in Quarantines : open'[p].kind # "none" /\ c \in quarantine'[p].members =>
              p # q /\ open'[p] = open[p] /\ c \in quarantine[p].members
        BY <1>4, <1>5, <1>10
    <2> QED
        BY <1>7, <1>8, <2>1, <2>2, <2>3 DEF WellHeld
<1> QED
    BY <1>9, <1>10

LEMMA WithheldRevertWrites ==
    ASSUME IInv, WithheldInv, NEW q \in Quarantines, RevertWrites(q)
    PROVE  WithheldInv'
<1> DEFINE W == {c \in quarantine[q].members : Exists(c) /\ claim[c].withheld /\ ~ HeldByAnother(c, q)}
<1>1. /\ quarantine[q].state = "active" /\ open[q].kind = "none"
      /\ open' = [open EXCEPT ![q] = [kind |-> "revert", writes |-> W]]
      /\ contended' = contended \cup MatchedByOpen(quarantine[q].members)
      /\ UNCHANGED <<claim, quarantine>>
    BY DEF RevertWrites
<1>2. /\ open'[q].kind = "revert" /\ open'[q].writes = W
      /\ \A p \in Quarantines : p # q => open'[p] = open[p]
    BY <1>1 DEF IInv, TypeOK
<1> SUFFICES ASSUME NEW c \in Claims \ contended' PROVE WellHeld(c)'
    BY DEF WithheldInv
<1>3. WellHeld(c) /\ c \notin MatchedByOpen(quarantine[q].members)
    BY <1>1 DEF WithheldInv
<1>4. /\ Held(c)' <=> Held(c)
      /\ Exists(c)' <=> Exists(c)
      /\ \A p \in Quarantines : HeldByAnother(c, p)' <=> HeldByAnother(c, p)
    BY <1>1 DEF Held, Exists, HeldByAnother
<1>5. c \in quarantine[q].members /\ Exists(c) => (c \in W <=> ~ HeldByAnother(c, q))
    BY <1>1, <1>3 DEF WellHeld, Held
<1> HIDE DEF W
<1>6. \A p \in Quarantines : p # q /\ open[p].kind # "none" /\ c \in quarantine[p].members => c \notin quarantine[q].members
    BY <1>3 DEF MatchedByOpen
<1>7. \A p, r \in Quarantines :
          open'[p].kind # "none" /\ open'[r].kind # "none" /\ c \in quarantine'[p].members /\ c \in quarantine'[r].members
              => p = r
    BY <1>1, <1>2, <1>3, <1>6 DEF WellHeld
<1>8. \A p \in Quarantines : open'[p].kind = "apply" /\ c \in quarantine'[p].members /\ Exists(c)' =>
          c \in open'[p].writes \/ claim'[c].withheld
    BY <1>1, <1>2, <1>3, <1>4 DEF WellHeld
<1>9. \A p \in Quarantines : open'[p].kind = "revert" /\ c \in quarantine'[p].members /\ Exists(c)' =>
          (c \in open'[p].writes <=> ~ HeldByAnother(c, p)')
    BY <1>1, <1>2, <1>3, <1>4, <1>5 DEF WellHeld
<1> QED
    BY <1>1, <1>3, <1>4, <1>7, <1>8, <1>9 DEF WellHeld

LEMMA WithheldRevertCommits ==
    ASSUME IInv, WithheldInv, NEW q \in Quarantines, RevertCommits(q)
    PROVE  WithheldInv'
<1>1. /\ open[q].kind = "revert"
      /\ quarantine' = [quarantine EXCEPT ![q].state = "reverted"]
      /\ claim' = [c \in Claims |-> IF c \in open[q].writes THEN [claim[c] EXCEPT !.withheld = FALSE] ELSE claim[c]]
      /\ open' = [open EXCEPT ![q] = NoTransaction]
      /\ contended' = contended
    BY DEF RevertCommits
<1>2. /\ quarantine \in [Quarantines -> Quarantine] /\ open \in [Quarantines -> Transaction]
      /\ claim \in [Claims -> ClaimRow]
    BY DEF IInv, TypeOK
<1>3. open[q].writes \subseteq quarantine[q].members /\ quarantine[q].members \subseteq Claims
    BY OpenFacts
<1>4. /\ quarantine[q].state = "active"
      /\ quarantine'[q].state = "reverted" /\ quarantine'[q].members = quarantine[q].members
      /\ \A p \in Quarantines : p # q => quarantine'[p] = quarantine[p]
    BY <1>1, <1>2 DEF Quarantine, IInv, QuarantineInv
<1>5. open'[q].kind = "none" /\ (\A p \in Quarantines : p # q => open'[p] = open[p])
    BY <1>1, <1>2 DEF NoTransaction
<1>6. /\ \A c \in Claims : claim'[c].status = claim[c].status
      /\ \A c \in Claims : c \in open[q].writes => ~ claim'[c].withheld
      /\ \A c \in Claims : c \notin open[q].writes => claim'[c] = claim[c]
    BY <1>1, <1>2 DEF ClaimRow
<1> SUFFICES ASSUME NEW c \in Claims \ contended PROVE WellHeld(c)'
    BY <1>1 DEF WithheldInv
<1>7. WellHeld(c) /\ (Exists(c)' <=> Exists(c))
    BY <1>6 DEF WithheldInv, Exists
<1>8. \A p, r \in Quarantines :
          open'[p].kind # "none" /\ open'[r].kind # "none" /\ c \in quarantine'[p].members /\ c \in quarantine'[r].members
              => p = r
    BY <1>4, <1>5, <1>7 DEF WellHeld
<1>9. Held(c)' <=> HeldByAnother(c, q)
    BY <1>4 DEF Held, HeldByAnother
<1>10. CASE c \in quarantine[q].members
    <2>1. Held(c) /\ (Exists(c) => (c \in open[q].writes <=> ~ HeldByAnother(c, q)))
        BY <1>1, <1>4, <1>7, <1>10 DEF WellHeld, Held
    <2>2. Exists(c) => (claim'[c].withheld <=> Held(c)')
        BY <1>6, <1>7, <1>9, <2>1 DEF WellHeld
    <2>3. \A p \in Quarantines : open'[p].kind # "none" => c \notin quarantine'[p].members
        BY <1>1, <1>4, <1>5, <1>7, <1>10 DEF WellHeld
    <2> QED
        BY <1>7, <1>8, <2>2, <2>3 DEF WellHeld
<1>11. CASE c \notin quarantine[q].members
    <2>1. claim'[c] = claim[c]
        BY <1>3, <1>6, <1>11
    <2>2. (Held(c)' <=> Held(c)) /\ (\A p \in Quarantines : HeldByAnother(c, p)' <=> HeldByAnother(c, p))
        BY <1>4, <1>11 DEF Held, HeldByAnother
    <2>3. \A p \in Quarantines : open'[p].kind # "none" /\ c \in quarantine'[p].members =>
              p # q /\ open'[p] = open[p] /\ c \in quarantine[p].members
        BY <1>4, <1>5, <1>11
    <2> QED
        BY <1>7, <1>8, <2>1, <2>2, <2>3 DEF WellHeld
<1> QED
    BY <1>10, <1>11

LEMMA NextWithheld == IInv /\ WithheldInv /\ [Next]_vars => WithheldInv'
<1> SUFFICES ASSUME IInv, WithheldInv, [Next]_vars PROVE WithheldInv'
    OBVIOUS
<1>0. claim \in [Claims -> ClaimRow]
    BY DEF IInv, TypeOK
<1>1. ASSUME NEW q \in Quarantines,
             (\E M \in SUBSET Claims : ApplyWrites(q, M)) \/ ApplyCommits(q) \/ RevertWrites(q) \/ RevertCommits(q)
      PROVE  WithheldInv'
    BY <1>1, WithheldApplyWrites, WithheldApplyCommits, WithheldRevertWrites, WithheldRevertCommits
<1>2. ASSUME NEW c \in Claims, WriteClaim(c) PROVE WithheldInv'
    <2>1. /\ claim[c].status = "none" /\ claim' = [claim EXCEPT ![c].status = "staged"]
          /\ UNCHANGED <<quarantine, open, contended>>
        BY <1>2 DEF WriteClaim
    <2>2. ~ claim[c].withheld
        BY <2>1 DEF IInv, UnwrittenInv, NoClaim
    <2>3. claim'[c].withheld = claim[c].withheld /\ (\A u \in Claims : u # c => claim'[u] = claim[u])
        BY <1>0, <2>1 DEF ClaimRow
    <2> QED
        BY <2>1, <2>2, <2>3, WithheldKeeps DEF Exists
<1>3. ASSUME NEW c \in Claims, MarkConsolidated(c) \/ (\E outcome \in Closed : Close(c, outcome)) PROVE WithheldInv'
    <2>1. /\ claim' = [claim EXCEPT ![c].consolidated = TRUE]
             \/ \E outcome \in Closed : claim' = [claim EXCEPT ![c].status = outcome]
          /\ Exists(c) /\ UNCHANGED <<quarantine, open, contended>>
        BY <1>3 DEF MarkConsolidated, Close, Exists
    <2>2. claim'[c].withheld = claim[c].withheld /\ (\A u \in Claims : u # c => claim'[u] = claim[u])
        BY <1>0, <2>1 DEF ClaimRow
    <2> QED
        BY <2>1, <2>2, WithheldKeeps DEF Exists
<1>4. ASSUME NEW S \in SUBSET Claims, NEW L \in SUBSET Claims, EraseClaims(S, L) PROVE WithheldInv'
    <2>1. UNCHANGED <<quarantine, open, contended>>
        BY <1>4, Zenon DEF EraseClaims
    <2>2. /\ \A c \in S : claim'[c].status = "erased"
          /\ \A c \in L : claim[c].status = "superseded" /\ claim'[c].withheld = claim[c].withheld
          /\ \A c \in Claims : c \notin S /\ c \notin L => claim'[c] = claim[c]
        BY <1>4, EraseClaimsRows
    <2>3. /\ \A c \in S : ~ Exists(c)'
          /\ \A c \in L : Exists(c)
          /\ \A c \in Claims : c \notin S /\ c \notin L => (Exists(c)' <=> Exists(c))
        BY <2>2 DEF Exists, Closed
    <2> QED
        BY <2>1, <2>2, <2>3, WithheldKeeps
<1>5. CASE UNCHANGED <<claim, quarantine, open, contended>>
    BY <1>5, WithheldKeeps DEF Exists
<1>6. ASSUME NEW w \in Propagators, Propagation(w) \/ Forget(w) PROVE UNCHANGED <<claim, quarantine, open, contended>>
    BY <1>6 DEF Propagation, ReadClaim, Apply, ApplyFails, Forget
<1>7. ASSUME NEW d \in Drainers, DrainStep(d) PROVE UNCHANGED <<claim, quarantine, open, contended>>
    BY <1>7 DEF DrainStep, EmbedClaim, claimVars
<1>8. ASSUME \/ \E A \in SUBSET Claims : EraseDerivatives(A)
             \/ \E c \in Claims : SweepExpired(c)
             \/ UNCHANGED claimVars
             \/ UNCHANGED vars
      PROVE  UNCHANGED <<claim, quarantine, open, contended>>
    BY <1>8 DEF EraseDerivatives, SweepExpired, claimVars, vars
<1> QED
    BY <1>1, <1>2, <1>3, <1>4, <1>5, <1>6, <1>7, <1>8 DEF Next

\* "A claim still held by another, unreverted quarantine stays withheld", and
\* the last revert restores it: a claim is withheld exactly while some quarantine
\* that matched it is in force, whatever transactions overlap and in whatever
\* order they commit, unless two that were open at once matched that very claim
\* (apply, revert).
THEOREM WithheldTheorem == Spec => []WithheldIffHeld
<1>1. WithheldInv => WithheldIffHeld
    BY DEF WithheldInv, WellHeld, WithheldIffHeld
<1> QED
    BY <1>1, InitWithheld, NextWithheld, Invariance, PTL DEF Spec

=============================================================================
