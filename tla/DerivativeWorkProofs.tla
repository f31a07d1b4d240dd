------------------------- MODULE DerivativeWorkProofs -------------------------
(***************************************************************************)
(* What the steps of the propagation outbox preserve, whatever else the    *)
(* transaction they run in does: the lemmas that the proofs about the      *)
(* modules built on DerivativeWork rest on.                                *)
(***************************************************************************)
EXTENDS DerivativeWork, TLAPS

\* The empty outbox satisfies its invariant.
LEMMA WorkInitLemma ==
    ASSUME WorkInit
    PROVE  WorkInv
BY WorkAssumption DEF WorkInit, WorkInv, WorkTypeOK, NoWork, WorkRow, WorkState, Claimed

\* A claimed row names an item and an attempt count.
LEMMA ClaimedRow ==
    ASSUME WorkTypeOK, NEW v \in Propagators, NEW k \in DOMAIN taken[v]
    PROVE  taken[v][k].item \in Items /\ taken[v][k].attempts \in 0 .. MaxAttempts
<1>1. taken[v] \in Seq(Claimed)
    BY DEF WorkTypeOK
<1>2. taken[v][k] \in Claimed
    BY <1>1
<1>3. QED BY <1>2 DEF Claimed

\* What one INSERT does to a row: it appears, or nothing happens to it.
LEMMA EnqueueRow ==
    ASSUME NEW D, NEW c, Enqueue(D, c), WorkTypeOK, NEW i \in Items
    PROVE  /\ i \in Insertable(D, c) => work[i].state = "none" /\ work'[i] = NewWork
           /\ i \notin Insertable(D, c) => work'[i] = work[i]
BY DEF Enqueue, Insertable

LEMMA EnqueueLemma ==
    ASSUME NEW D, NEW c, Enqueue(D, c), WorkInv, UNCHANGED <<registered, taken, lostTicks>>
    PROVE  WorkInv'
<1>1. work' \in [Items -> WorkRow]
    BY WorkAssumption DEF Enqueue, WorkInv, WorkTypeOK, NewWork, WorkRow, WorkState
<1>2. WorkTypeOK'
    BY <1>1 DEF WorkInv, WorkTypeOK
<1>3. \A i \in Items : work'[i].state = "pending" => work'[i].attempts < MaxAttempts
    <2>1. SUFFICES ASSUME NEW i \in Items, work'[i].state = "pending"
                   PROVE  work'[i].attempts < MaxAttempts
        OBVIOUS
    <2>2. CASE i \in Insertable(D, c)
        BY <2>2, EnqueueRow, WorkAssumption DEF WorkInv, NewWork
    <2>3. CASE i \notin Insertable(D, c)
        BY <2>1, <2>3, EnqueueRow DEF WorkInv
    <2>4. QED BY <2>2, <2>3
<1>4. \A w \in Propagators : \A k \in DOMAIN taken[w] : taken[w][k].item \in Items
    BY ClaimedRow DEF WorkInv
<1>5. \A i \in Items : work[i].state # "none" => work'[i].state # "none"
    BY EnqueueRow DEF WorkInv
<1>6. QED BY <1>2, <1>3, <1>4, <1>5 DEF WorkInv

LEMMA ClaimLemma ==
    ASSUME NEW w \in Propagators, Claim(w), WorkInv
    PROVE  WorkInv'
<1>0. PICK n \in 1 .. WorkBatch : \E q \in [1 .. n -> DueItems] :
        taken' = [taken EXCEPT ![w] = [k \in 1 .. n |-> [item |-> q[k], attempts |-> work[q[k]].attempts]]]
    BY DEF Claim
<1>1. PICK q \in [1 .. n -> DueItems] :
        taken' = [taken EXCEPT ![w] = [k \in 1 .. n |-> [item |-> q[k], attempts |-> work[q[k]].attempts]]]
    BY <1>0
<1> DEFINE batch == [k \in 1 .. n |-> [item |-> q[k], attempts |-> work[q[k]].attempts]]
<1>2. /\ n \in Nat
      /\ \A k \in 1 .. n : q[k] \in Items /\ work[q[k]].state = "pending" /\ work[q[k]].attempts < MaxAttempts
    BY WorkAssumption DEF DueItems, WorkInv
<1>3. \A k \in 1 .. n : batch[k] \in Claimed
    BY <1>2, WorkAssumption DEF WorkInv, WorkTypeOK, WorkRow, Claimed
<1>4. batch \in Seq(Claimed) /\ DOMAIN batch = 1 .. n
    BY <1>2, <1>3
<1>5. \A k \in DOMAIN batch : batch[k].attempts < MaxAttempts /\ work[batch[k].item].state # "none"
    BY <1>2, <1>4
<1>6. taken' = [taken EXCEPT ![w] = batch] /\ UNCHANGED <<registered, work, lostTicks>>
    BY <1>1 DEF Claim
<1> HIDE DEF batch
<1>7. WorkTypeOK'
    BY <1>4, <1>6 DEF WorkInv, WorkTypeOK
<1>8. ASSUME NEW v \in Propagators, NEW k \in DOMAIN taken'[v]
      PROVE  taken'[v][k].attempts < MaxAttempts /\ work'[taken'[v][k].item].state # "none"
    <2>1. CASE v = w
        BY <1>5, <1>6, <1>8, <2>1 DEF WorkInv, WorkTypeOK
    <2>2. CASE v # w
        BY <1>6, <1>8, <2>2 DEF WorkInv, WorkTypeOK
    <2>3. QED BY <2>1, <2>2
<1>9. QED BY <1>6, <1>7, <1>8 DEF WorkInv

\* The claimed rows that stay claimed when worker w drops its first one.
LEMMA TailLemma ==
    ASSUME NEW w \in Propagators, WorkTypeOK, taken[w] # <<>>, taken' = [taken EXCEPT ![w] = Tail(@)]
    PROVE  /\ taken' \in [Propagators -> Seq(Claimed)]
           /\ Head(taken[w]) \in Claimed /\ Head(taken[w]) = taken[w][1] /\ 1 \in DOMAIN taken[w]
           /\ \A v \in Propagators : \A k \in DOMAIN taken'[v] :
                /\ v = w => k + 1 \in DOMAIN taken[w] /\ k \in Nat \ {0} /\ taken'[v][k] = taken[w][k + 1]
                /\ v # w => k \in DOMAIN taken[v] /\ taken'[v][k] = taken[v][k]
<1>1. taken[w] \in Seq(Claimed)
    BY DEF WorkTypeOK
<1>2. /\ Tail(taken[w]) \in Seq(Claimed)
      /\ Head(taken[w]) \in Claimed
      /\ Head(taken[w]) = taken[w][1]
      /\ 1 \in DOMAIN taken[w]
    BY <1>1
<1>3. \A k \in DOMAIN Tail(taken[w]) :
        k + 1 \in DOMAIN taken[w] /\ k \in Nat \ {0} /\ Tail(taken[w])[k] = taken[w][k + 1]
    BY <1>1
<1>4. QED BY <1>2, <1>3 DEF WorkTypeOK

LEMMA RemainingRow ==
    ASSUME NEW w \in Propagators, WorkTypeOK, taken[w] # <<>>, taken' = [taken EXCEPT ![w] = Tail(@)],
           NEW v \in Propagators, NEW k \in DOMAIN taken'[v]
    PROVE  \E j \in DOMAIN taken[v] : taken'[v][k] = taken[v][j]
<1>1. CASE v = w
    <2>1. taken[w] \in Seq(Claimed) /\ taken'[v] = Tail(taken[w])
        BY <1>1 DEF WorkTypeOK
    <2>2. k \in DOMAIN Tail(taken[w])
        BY <2>1
    <2>3. k + 1 \in DOMAIN taken[w] /\ Tail(taken[w])[k] = taken[w][k + 1]
        BY <2>1, <2>2
    <2>4. QED BY <1>1, <2>1, <2>3
<1>2. CASE v # w
    <2>1. k \in DOMAIN taken[v] /\ taken'[v][k] = taken[v][k]
        BY <1>2, TailLemma
    <2>2. QED BY <2>1
<1>3. QED BY <1>1, <1>2

LEMMA MarkDoneLemma ==
    ASSUME NEW w \in Propagators, MarkDone(w), WorkInv
    PROVE  WorkInv'
<1>1. /\ taken[w] # <<>>
      /\ taken' = [taken EXCEPT ![w] = Tail(@)]
      /\ work' = [work EXCEPT ![Current(w)].state = "done"]
      /\ UNCHANGED <<registered, lostTicks>>
    BY DEF MarkDone
<1>2. Current(w) \in Items
    BY <1>1, TailLemma DEF Current, WorkInv, Claimed
<1>3. work' \in [Items -> WorkRow]
    BY <1>1, <1>2 DEF WorkInv, WorkTypeOK, WorkRow, WorkState
<1>4. \A i \in Items : /\ work'[i].state = "pending" => work[i].state = "pending" /\ work'[i].attempts = work[i].attempts
                       /\ work[i].state # "none" => work'[i].state # "none"
    BY <1>1, <1>2 DEF WorkInv, WorkTypeOK, WorkRow
<1>5. WorkTypeOK'
    BY <1>1, <1>3, TailLemma DEF WorkInv, WorkTypeOK
<1>6. \A v \in Propagators : \A k \in DOMAIN taken[v] : taken[v][k].item \in Items
    BY ClaimedRow DEF WorkInv
<1>7. ASSUME NEW v \in Propagators, NEW k \in DOMAIN taken'[v]
      PROVE  taken'[v][k].attempts < MaxAttempts /\ work'[taken'[v][k].item].state # "none"
    <2>1. PICK j \in DOMAIN taken[v] : taken'[v][k] = taken[v][j]
        BY <1>1, <1>7, RemainingRow DEF WorkInv
    <2>2. QED BY <2>1, <1>4, <1>6 DEF WorkInv
<1>8. QED BY <1>4, <1>5, <1>7 DEF WorkInv

LEMMA MarkFailedLemma ==
    ASSUME NEW w \in Propagators, MarkFailed(w), WorkInv
    PROVE  WorkInv'
<1> DEFINE attempts == Head(taken[w]).attempts + 1
           row == [state |-> IF attempts >= MaxAttempts THEN "failed" ELSE "pending",
                   attempts |-> attempts, due |-> FALSE]
<1>1. /\ taken[w] # <<>>
      /\ taken' = [taken EXCEPT ![w] = Tail(@)]
      /\ work' = [work EXCEPT ![Current(w)] = row]
      /\ UNCHANGED <<registered, lostTicks>>
    BY DEF MarkFailed
<1>2. Current(w) \in Items /\ Head(taken[w]).attempts \in 0 .. MaxAttempts /\ Head(taken[w]).attempts < MaxAttempts
    <2>1. Head(taken[w]) = taken[w][1] /\ 1 \in DOMAIN taken[w]
        BY <1>1, TailLemma DEF WorkInv
    <2>2. QED BY <2>1, ClaimedRow DEF Current, WorkInv
<1>3. row \in WorkRow /\ row.state # "none" /\ (row.state = "pending" => row.attempts < MaxAttempts)
    BY <1>2, WorkAssumption DEF WorkRow, WorkState
<1> HIDE DEF row
<1>4. work' \in [Items -> WorkRow]
    BY <1>1, <1>2, <1>3 DEF WorkInv, WorkTypeOK
<1>5. \A i \in Items : /\ work'[i].state = "pending" => work'[i].attempts < MaxAttempts
                       /\ work[i].state # "none" => work'[i].state # "none"
    BY <1>1, <1>2, <1>3 DEF WorkInv, WorkTypeOK
<1>6. WorkTypeOK'
    BY <1>1, <1>4, TailLemma DEF WorkInv, WorkTypeOK
<1>7. \A v \in Propagators : \A k \in DOMAIN taken[v] : taken[v][k].item \in Items
    BY ClaimedRow DEF WorkInv
<1>8. ASSUME NEW v \in Propagators, NEW k \in DOMAIN taken'[v]
      PROVE  taken'[v][k].attempts < MaxAttempts /\ work'[taken'[v][k].item].state # "none"
    <2>1. PICK j \in DOMAIN taken[v] : taken'[v][k] = taken[v][j]
        BY <1>1, <1>8, RemainingRow DEF WorkInv
    <2>2. QED BY <2>1, <1>5, <1>7 DEF WorkInv
<1>9. QED BY <1>5, <1>6, <1>8 DEF WorkInv

LEMMA LoseTickLemma ==
    ASSUME NEW w \in Propagators, LoseTick(w), WorkInv
    PROVE  WorkInv'
BY WorkAssumption DEF LoseTick, WorkInv, WorkTypeOK

LEMMA FallsDueLemma ==
    ASSUME NEW i \in Items, FallsDue(i), WorkInv
    PROVE  WorkInv'
<1>1. work' = [work EXCEPT ![i].due = TRUE] /\ UNCHANGED <<registered, taken, lostTicks>>
    BY DEF FallsDue
<1>2. \A j \in Items : work'[j].state = work[j].state /\ work'[j].attempts = work[j].attempts
    BY <1>1 DEF WorkInv, WorkTypeOK, WorkRow
<1>3. WorkTypeOK'
    BY <1>1 DEF WorkInv, WorkTypeOK, WorkRow
<1>4. \A v \in Propagators : \A k \in DOMAIN taken[v] : taken[v][k].item \in Items
    BY ClaimedRow DEF WorkInv
<1>5. QED BY <1>1, <1>2, <1>3, <1>4 DEF WorkInv

\* The row that is settled, and the others.
LEMMA SettleRow ==
    ASSUME NEW w \in Propagators, WorkInv, MarkDone(w) \/ MarkFailed(w)
    PROVE  /\ taken[w] # <<>> /\ taken' = [taken EXCEPT ![w] = Tail(@)]
           /\ Current(w) \in Items
           /\ \A i \in Items : i # Current(w) => work'[i] = work[i]
           /\ work'[Current(w)].state \in {"pending", "done", "failed"}
<1>1. taken[w] # <<>> /\ taken' = [taken EXCEPT ![w] = Tail(@)]
    BY DEF MarkDone, MarkFailed
<1>2. Current(w) \in Items
    BY <1>1, TailLemma DEF Current, WorkInv, Claimed
<1>3. CASE MarkDone(w)
    BY <1>1, <1>2, <1>3 DEF MarkDone, WorkInv, WorkTypeOK, WorkRow
<1>4. CASE MarkFailed(w)
    BY <1>1, <1>2, <1>4 DEF MarkFailed, WorkInv, WorkTypeOK
<1>5. QED BY <1>1, <1>2, <1>3, <1>4

=============================================================================
