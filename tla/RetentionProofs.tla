---------------------------- MODULE RetentionProofs ----------------------------
(***************************************************************************)
(* Proofs about Retention: the type invariant, and that the expiry sweep   *)
(* never queues a record past a hold that was in force before it asked,    *)
(* for any number of derivatives, propagation workers and erasures.        *)
(***************************************************************************)
EXTENDS Retention, DerivativeWorkProofs

-----------------------------------------------------------------------------
(* Rows that do not exist stay absent under the worker's steps. *)

\* The row a worker applies exists.
LEMMA CurrentExists ==
    ASSUME NEW w \in Propagators, WorkInv, taken[w] # <<>>
    PROVE  Current(w) \in Items /\ work[Current(w)].state # "none"
<1>1. taken[w] \in Seq(Claimed)
    BY DEF WorkInv, WorkTypeOK
<1>2. Head(taken[w]) = taken[w][1] /\ 1 \in DOMAIN taken[w]
    BY <1>1
<1>3. QED BY <1>2, ClaimedRow DEF Current, WorkInv

\* Neither a success nor a failure creates a row.
LEMMA AbsentStays ==
    ASSUME NEW w \in Propagators, WorkInv, MarkDone(w) \/ MarkFailed(w),
           NEW i \in Items, work[i].state = "none"
    PROVE  work'[i].state = "none"
<1>1. taken[w] # <<>> /\ i # Current(w)
    BY CurrentExists DEF MarkDone, MarkFailed
<1>2. CASE MarkDone(w)
    BY <1>1, <1>2, CurrentExists DEF MarkDone, WorkInv, WorkTypeOK
<1>3. CASE MarkFailed(w)
    BY <1>1, <1>3, CurrentExists DEF MarkFailed, WorkInv, WorkTypeOK
<1>4. QED BY <1>2, <1>3

-----------------------------------------------------------------------------
(* The inductive invariant *)

\* A derivative of the registry has an expiry item.
LEMMA ExpiryItem == \A d \in Derivatives : <<d, Expiry>> \in Items
BY RetentionAssumption DEF Items

LEMMA InitInv == Init => IInv
<1>1. SUFFICES ASSUME Init PROVE IInv
    OBVIOUS
<1>2. WorkInv
    BY <1>1, WorkInitLemma DEF Init
<1>3. hold \in [Derivatives -> Hold]
    BY <1>1, RetentionAssumption DEF Init, NoHold, Hold
<1>4. sweep \in Sweep
    BY <1>1, RetentionAssumption DEF Init, IdleSweep, Sweep
<1>5. TypeOK
    BY <1>1, <1>2, <1>3, <1>4, RetentionAssumption DEF Init, TypeOK, WorkInv
<1>6. QED BY <1>1, <1>2, <1>5 DEF IInv, HoldsProtect, Init

\* The steps of the worker that touch nothing else.
LEMMA WorkerStep ==
    ASSUME IInv, WorkInv', UNCHANGED <<registered, expired, hold, sweep, builds, covered>>,
           artefact' \subseteq artefact,
           \A i \in Items : work[i].state = "none" => work'[i].state = "none"
    PROVE  IInv'
<1>1. TypeOK'
    BY DEF IInv, TypeOK, WorkInv, Live
<1>2. HoldsProtect'
    BY ExpiryItem DEF IInv, TypeOK, HoldsProtect, Live
<1>3. QED BY <1>1, <1>2 DEF IInv

\* The steps that leave the outbox alone.
LEMMA WorkUnchanged ==
    ASSUME IInv, UNCHANGED <<work, taken, lostTicks>>, registered' \subseteq Derivatives
    PROVE  WorkInv' /\ WorkTypeOK'
BY DEF IInv, WorkInv, WorkTypeOK

LEMMA BuildInv == ASSUME NEW d \in Derivatives, IInv, Build(d) PROVE IInv'
<1>1. WorkInv' /\ WorkTypeOK'
    BY WorkUnchanged DEF Build, IInv, TypeOK, WorkTypeOK
<1>2. TypeOK'
    BY <1>1, RetentionAssumption DEF Build, IInv, TypeOK, Live
<1>3. QED BY <1>1, <1>2 DEF Build, IInv, HoldsProtect

LEMMA ExpiresInv == ASSUME NEW d \in Derivatives, IInv, Expires(d) PROVE IInv'
<1>1. WorkInv' /\ WorkTypeOK'
    BY WorkUnchanged DEF Expires, IInv, TypeOK, WorkTypeOK
<1>2. TypeOK'
    BY <1>1 DEF Expires, IInv, TypeOK, Live
<1>3. QED BY <1>1, <1>2 DEF Expires, IInv, HoldsProtect

\* A hold that comes into force is counted only when the expiry has not
\* overtaken it.
LEMMA HoldInForce ==
    ASSUME NEW d \in Derivatives, IInv, CoverIfInTime(d), hold' \in [Derivatives -> Hold],
           hold'[d].live, \A e \in Derivatives \ {d} : hold'[e] = hold[e],
           UNCHANGED <<registered, work, taken, lostTicks, artefact, expired, sweep, builds>>
    PROVE  IInv'
<1>1. WorkInv' /\ WorkTypeOK'
    BY WorkUnchanged DEF IInv, TypeOK, WorkTypeOK
<1>2. covered' \subseteq covered \cup {d}
    BY DEF CoverIfInTime
<1>3. covered' \subseteq Live'
    BY <1>2 DEF Live, IInv, TypeOK
<1>4. TypeOK'
    BY <1>1, <1>3 DEF IInv, TypeOK
<1>5. HoldsProtect' /\ (covered \cap sweep.deletable = {})'
    BY DEF CoverIfInTime, IInv, HoldsProtect
<1>6. QED BY <1>1, <1>4, <1>5 DEF IInv

LEMMA PlaceHoldInv == ASSUME NEW d \in Derivatives, IInv, PlaceHold(d) PROVE IInv'
<1>1. hold' \in [Derivatives -> Hold]
    BY DEF PlaceHold, IInv, TypeOK, Hold
<1>2. hold'[d].live /\ \A e \in Derivatives \ {d} : hold'[e] = hold[e]
    BY DEF PlaceHold, IInv, TypeOK, Hold
<1>3. QED BY <1>1, <1>2, HoldInForce DEF PlaceHold

LEMMA RenewHoldInv == ASSUME NEW d \in Derivatives, NEW rank \in Ranks, IInv, RenewHold(d, rank) PROVE IInv'
<1>1. hold' \in [Derivatives -> Hold]
    BY RetentionAssumption DEF RenewHold, IInv, TypeOK, Hold, Ranks
<1>2. hold'[d].live /\ \A e \in Derivatives \ {d} : hold'[e] = hold[e]
    BY DEF RenewHold, IInv, TypeOK, Hold
<1>3. QED BY <1>1, <1>2, HoldInForce DEF RenewHold

LEMMA HoldLapsesInv == ASSUME NEW d \in Derivatives, IInv, HoldLapses(d) PROVE IInv'
<1>1. WorkInv' /\ WorkTypeOK'
    BY WorkUnchanged DEF HoldLapses, IInv, TypeOK, WorkTypeOK
<1>2. hold' \in [Derivatives -> Hold] /\ \A e \in Derivatives \ {d} : hold'[e] = hold[e]
    BY DEF HoldLapses, IInv, TypeOK, Hold
<1>3. covered' \subseteq Live'
    BY <1>2 DEF HoldLapses, IInv, TypeOK, Live
<1>4. TypeOK'
    BY <1>1, <1>2, <1>3 DEF HoldLapses, IInv, TypeOK
<1>5. QED BY <1>1, <1>4 DEF HoldLapses, IInv, HoldsProtect

\* The steps of the sweep that only move the tick on.
LEMMA SweepStep ==
    ASSUME IInv, sweep' \in Sweep, covered \cap sweep'.deletable = {}, lostTicks' \in 0 .. MaxLostTicks,
           UNCHANGED <<registered, work, taken, artefact, expired, hold, builds, covered>>
    PROVE  IInv'
<1>1. WorkInv' /\ WorkTypeOK'
    BY DEF IInv, WorkInv, WorkTypeOK
<1>2. TypeOK'
    BY <1>1 DEF IInv, TypeOK, Live
<1>3. QED BY <1>1, <1>2 DEF IInv, HoldsProtect

LEMMA StartTickInv == ASSUME IInv, StartTick PROVE IInv'
<1>0. expired \in SUBSET Derivatives /\ Live \in SUBSET Derivatives
    BY DEF IInv, TypeOK, WorkTypeOK, Live
<1>1. sweep' = [phase |-> "select", overdue |-> expired, held |-> Live, due |-> {}, deletable |-> {}, passes |-> 0]
    BY DEF StartTick, IdleSweep
<1>2. sweep' \in Sweep /\ sweep'.deletable = {}
    BY <1>0, <1>1, RetentionAssumption DEF Sweep
<1>3. QED BY <1>2, SweepStep DEF StartTick, IInv, TypeOK, WorkTypeOK

LEMMA SelectDueInv == ASSUME IInv, SelectDue PROVE IInv'
<1>0. PICK due \in SUBSET {d \in sweep.overdue : work[<<d, Expiry>>].state = "none"} :
        sweep' = [sweep EXCEPT !.phase = "consult", !.due = due]
    BY DEF SelectDue
<1>1. sweep' \in Sweep /\ sweep'.deletable = sweep.deletable
    BY <1>0 DEF Sweep, IInv, TypeOK
<1>2. QED BY <1>1, SweepStep DEF SelectDue, IInv, TypeOK, WorkTypeOK

\* The holds consulted include every hold in force now.
LEMMA ConsultHoldsInv == ASSUME IInv, ConsultHolds PROVE IInv'
<1>1. sweep' \in Sweep /\ sweep'.deletable = sweep.due \ HeldNow
    BY DEF ConsultHolds, Sweep, IInv, TypeOK
<1>2. covered \cap sweep'.deletable = {}
    BY <1>1 DEF HeldNow, IInv, TypeOK
<1>3. QED BY <1>1, <1>2, SweepStep DEF ConsultHolds, IInv, TypeOK, WorkTypeOK

LEMMA LoseSweepInv == ASSUME IInv, LoseSweep PROVE IInv'
<1>1. sweep' \in Sweep /\ sweep'.deletable = {}
    BY RetentionAssumption DEF LoseSweep, IdleSweep, Sweep
<1>2. QED BY <1>1, SweepStep, WorkAssumption DEF LoseSweep, IInv, TypeOK, WorkTypeOK

\* What is queued is disjoint from what a timely hold covers.
LEMMA EnqueueExpiredInv == ASSUME IInv, EnqueueExpired PROVE IInv'
<1>1. WorkInv'
    BY EnqueueLemma DEF EnqueueExpired, IInv
<1>2. sweep' \in Sweep /\ sweep'.deletable = {}
    <2>1. CASE sweep' = IdleSweep
        BY <2>1, RetentionAssumption DEF IdleSweep, Sweep
    <2>2. CASE /\ sweep.passes + 1 < MaxPasses
               /\ sweep' = [sweep EXCEPT !.phase = "select", !.due = {}, !.deletable = {}, !.passes = @ + 1]
        <3>1. sweep \in Sweep /\ sweep.passes + 1 \in 0 .. MaxPasses
            BY <2>2, RetentionAssumption DEF IInv, TypeOK, Sweep
        <3>2. QED BY <2>2, <3>1 DEF Sweep
    <2>3. QED BY <2>1, <2>2 DEF EnqueueExpired
<1>3. TypeOK'
    BY <1>1, <1>2 DEF EnqueueExpired, IInv, TypeOK, WorkInv, Live
<1>4. ASSUME NEW d \in covered PROVE work'[<<d, Expiry>>].state = "none"
    <2>1. d \in Derivatives /\ d \notin sweep.deletable
        BY DEF IInv, TypeOK, Live
    <2>2. <<d, Expiry>> \in Items /\ <<d, Expiry>> \notin Insertable(sweep.deletable, Expiry)
        BY <2>1, ExpiryItem DEF Insertable
    <2>3. QED BY <2>2, EnqueueRow DEF EnqueueExpired, IInv, HoldsProtect, WorkInv
<1>5. QED BY <1>1, <1>2, <1>3, <1>4 DEF EnqueueExpired, IInv, HoldsProtect

LEMMA RequestErasureInv == ASSUME NEW t \in Tombstones, IInv, RequestErasure(t) PROVE IInv'
<1>1. WorkInv'
    BY EnqueueLemma DEF RequestErasure, IInv
<1>2. TypeOK'
    BY <1>1 DEF RequestErasure, IInv, TypeOK, WorkInv, Live
<1>3. ASSUME NEW d \in covered PROVE work'[<<d, Expiry>>].state = "none"
    <2>1. d \in Derivatives
        BY DEF IInv, TypeOK, Live
    <2>2. <<d, Expiry>> \in Items /\ <<d, Expiry>> \notin Insertable(Authored[t], t)
        BY <2>1, ExpiryItem, RetentionAssumption DEF Insertable
    <2>3. QED BY <2>2, EnqueueRow DEF RequestErasure, IInv, HoldsProtect, WorkInv
<1>4. QED BY <1>1, <1>2, <1>3 DEF RequestErasure, IInv, HoldsProtect

LEMMA PropagationInv == ASSUME NEW w \in Propagators, IInv, Propagation(w) PROVE IInv'
<1>1. MarkDone(w) \/ MarkFailed(w)
    BY DEF Propagation, Apply, ApplyFails
<1>2. WorkInv'
    BY <1>1, MarkDoneLemma, MarkFailedLemma DEF IInv
<1>3. /\ UNCHANGED <<registered, expired, hold, sweep, builds, covered>>
      /\ artefact' \subseteq artefact
    BY DEF Propagation, Apply, ApplyFails, MarkDone, MarkFailed, sweepVars
<1>4. QED BY <1>1, <1>2, <1>3, AbsentStays, WorkerStep DEF IInv

LEMMA TickInv == ASSUME NEW w \in Propagators, IInv, Claim(w) \/ LoseTick(w), UNCHANGED sweepVars PROVE IInv'
<1>1. WorkInv'
    BY ClaimLemma, LoseTickLemma DEF IInv
<1>2. UNCHANGED <<registered, work>>
    BY DEF Claim, LoseTick
<1>3. QED BY <1>1, <1>2, WorkerStep DEF sweepVars

LEMMA FallsDueInv == ASSUME NEW i \in Items, IInv, FallsDue(i), UNCHANGED sweepVars PROVE IInv'
<1>1. WorkInv'
    BY FallsDueLemma DEF IInv
<1>2. \A j \in Items : work'[j].state = work[j].state
    BY DEF FallsDue, IInv, WorkInv, WorkTypeOK, WorkRow
<1>3. QED BY <1>1, <1>2, WorkerStep DEF sweepVars, FallsDue

LEMMA StepInv == IInv /\ [Next]_vars => IInv'
<1>1. SUFFICES ASSUME IInv, [Next]_vars PROVE IInv'
    OBVIOUS
<1>2. ASSUME UNCHANGED vars PROVE IInv'
    BY <1>1, <1>2 DEF vars, IInv, TypeOK, WorkInv, WorkTypeOK, HoldsProtect, Live
<1>3. ASSUME NEW d \in Derivatives, Build(d) \/ Expires(d) \/ PlaceHold(d) \/ HoldLapses(d) PROVE IInv'
    BY <1>1, <1>3, BuildInv, ExpiresInv, PlaceHoldInv, HoldLapsesInv
<1>4. ASSUME NEW d \in Derivatives, NEW rank \in Ranks, RenewHold(d, rank) PROVE IInv'
    BY <1>1, <1>4, RenewHoldInv
<1>5. ASSUME StartTick \/ SelectDue \/ ConsultHolds \/ EnqueueExpired \/ LoseSweep PROVE IInv'
    BY <1>1, <1>5, StartTickInv, SelectDueInv, ConsultHoldsInv, EnqueueExpiredInv, LoseSweepInv
<1>6. ASSUME NEW t \in Tombstones, RequestErasure(t) PROVE IInv'
    BY <1>1, <1>6, RequestErasureInv
<1>7. ASSUME NEW w \in Propagators, Propagation(w) PROVE IInv'
    BY <1>1, <1>7, PropagationInv
<1>8. ASSUME NEW w \in Propagators, Claim(w) \/ LoseTick(w), UNCHANGED sweepVars PROVE IInv'
    BY <1>1, <1>8, TickInv
<1>9. ASSUME NEW i \in Items, FallsDue(i), UNCHANGED sweepVars PROVE IInv'
    BY <1>1, <1>9, FallsDueInv
<1>10. QED BY <1>1, <1>2, <1>3, <1>4, <1>5, <1>6, <1>7, <1>8, <1>9 DEF Next

\* IInv is an invariant of the specification.
THEOREM Invariance == Spec => []IInv
BY InitInv, StepInv, PTL DEF Spec

\* Every variable has its type in every reachable state, for every number of
\* derivatives, workers, batches and attempts.
THEOREM TypeCorrect == Spec => []TypeOK
<1>1. IInv => TypeOK
    BY DEF IInv
<1>2. QED BY <1>1, Invariance, PTL

\* The expiry sweep never queues a record past a hold that was in force before
\* it asked (RetentionExpiryWorker._expire_derivatives, partition_by_hold).
THEOREM HoldsProtectTheorem == Spec => []HoldsProtect
<1>1. IInv => HoldsProtect
    BY DEF IInv
<1>2. QED BY <1>1, Invariance, PTL

=============================================================================
