------------------------------- MODULE Retention -------------------------------
(***************************************************************************)
(* The retention of derivatives: what removes an artefact, and what keeps  *)
(* it.                                                                     *)
(*                                                                         *)
(* The expiry sweep selects the derivatives past their expiry, asks the    *)
(* hold store which of them a legal hold keeps, and queues the rest for    *)
(* deletion; an erasure queues what the erased actor's records were built  *)
(* into; the propagation worker carries the items out later and asks       *)
(* nobody.  Operators place holds, holds lapse on their review date, and a *)
(* renewal needs an approval that climbs a ladder.                         *)
(***************************************************************************)
EXTENDS DerivativeWork, FiniteSets

CONSTANTS
    Tombstones,  \* one per actor who is erased (source_tombstones' unique subject)
    Authored,    \* Authored[t]: the derivatives built from records of the actor of t
    Subjects,    \* the derivatives that operators place holds on
    SweepBatch,  \* derivatives selected per pass (DEFAULT_BATCH)
    MaxPasses,   \* MAX_BATCHES
    Rungs,       \* rungs of the approval ladder, lowest authority first (APPROVAL_LEVELS)
    MaxBuilds,   \* bound: artefacts built or rebuilt
    MaxRenewals  \* bound: renewals of one hold

VARIABLES
    artefact,  \* the derivatives whose artefact exists and holds content
    expired,   \* the registrations whose expires_at has passed
    hold,      \* hold[d]: the legal_holds row of d and its latest renewal
    sweep,     \* the tick of the expiry sweep
    builds,    \* artefacts built so far
    covered    \* history: live holds that no enqueued or consulted expiry preceded

sweepVars == <<artefact, expired, hold, sweep, builds, covered>>
vars == <<registered, work, taken, lostTicks, artefact, expired, hold, sweep, builds, covered>>

Expiry == "expiry"

ASSUME RetentionAssumption ==
    /\ Causes = {Expiry} \cup Tombstones
    /\ Expiry \notin Tombstones
    /\ Authored \in [Tombstones -> SUBSET Derivatives]
    /\ Subjects \subseteq Derivatives
    /\ SweepBatch \in Nat \ {0}
    /\ MaxPasses \in Nat \ {0}
    /\ Rungs \in Nat \ {0}
    /\ MaxBuilds \in Nat
    /\ MaxRenewals \in Nat

\* Rank 0 is no approval.
Ranks == 1 .. Rungs
Hold == [placed : BOOLEAN, live : BOOLEAN, renewals : 0 .. MaxRenewals, rank : {0} \cup Ranks]
NoHold == [placed |-> FALSE, live |-> FALSE, renewals |-> 0, rank |-> 0]

\* A tick reads the clock once: overdue and held are the derivatives that were
\* past their expiry, and under a live hold, at that moment.
Sweep == [phase : {"idle", "select", "consult", "enqueue"}, overdue : SUBSET Derivatives,
          held : SUBSET Derivatives, due : SUBSET Derivatives, deletable : SUBSET Derivatives,
          passes : 0 .. MaxPasses]
IdleSweep == [phase |-> "idle", overdue |-> {}, held |-> {}, due |-> {}, deletable |-> {}, passes |-> 0]

Init ==
    /\ WorkInit
    /\ artefact = {}
    /\ expired = {}
    /\ hold = [d \in Derivatives |-> NoHold]
    /\ sweep = IdleSweep
    /\ builds = 0
    /\ covered = {}

Live == {d \in Derivatives : hold[d].live}

-----------------------------------------------------------------------------
(* Derivatives and the clock *)

\* register_derivative in the transaction that writes the artefact.  The upsert
\* keeps the earlier expiry, so a rebuild of an expired derivative stays expired.
Build(d) ==
    /\ builds < MaxBuilds
    /\ builds' = builds + 1
    /\ registered' = registered \cup {d}
    /\ artefact' = artefact \cup {d}
    /\ UNCHANGED <<work, taken, lostTicks, expired, hold, sweep, covered>>

\* The earliest expiry among the sources of d passes.
Expires(d) ==
    /\ d \in registered \ expired
    /\ expired' = expired \cup {d}
    /\ UNCHANGED <<registered, work, taken, lostTicks, artefact, hold, sweep, builds, covered>>

-----------------------------------------------------------------------------
(* PostgresHoldStore *)

\* A hold that no expiry of d has overtaken.
CoverIfInTime(d) ==
    covered' = IF work[<<d, Expiry>>].state = "none" /\ d \notin sweep.deletable
               THEN covered \cup {d}
               ELSE covered

\* place: one hold per record (uq_legal_holds_record), lapsed or not.
PlaceHold(d) ==
    /\ d \in registered \cap Subjects
    /\ ~ hold[d].placed
    /\ hold' = [hold EXCEPT ![d].placed = TRUE, ![d].live = TRUE]
    /\ CoverIfInTime(d)
    /\ UNCHANGED <<registered, work, taken, lostTicks, artefact, expired, sweep, builds>>

RequiredRank(sequence) == IF sequence > Rungs THEN Rungs ELSE sequence

\* renew: the approval must reach the rung of its sequence number and, below
\* the top of the ladder, exceed the previous one.  A lapsed hold may be
\* renewed, which puts it in force again.
RenewHold(d, rank) ==
    /\ hold[d].placed
    /\ hold[d].renewals < MaxRenewals
    /\ rank >= RequiredRank(hold[d].renewals + 1)
    /\ hold[d].rank < Rungs => rank > hold[d].rank
    /\ hold' = [hold EXCEPT ![d].live = TRUE, ![d].renewals = @ + 1, ![d].rank = rank]
    /\ CoverIfInTime(d)
    /\ UNCHANGED <<registered, work, taken, lostTicks, artefact, expired, sweep, builds>>

\* The review date passes unreviewed.
HoldLapses(d) ==
    /\ hold[d].live
    /\ hold' = [hold EXCEPT ![d].live = FALSE]
    /\ covered' = covered \ {d}
    /\ UNCHANGED <<registered, work, taken, lostTicks, artefact, expired, sweep, builds>>

-----------------------------------------------------------------------------
(* RetentionExpiryWorker *)

StartTick ==
    /\ sweep.phase = "idle"
    /\ sweep' = [IdleSweep EXCEPT !.phase = "select", !.overdue = expired, !.held = Live]
    /\ UNCHANGED <<registered, work, taken, lostTicks, artefact, expired, hold, builds, covered>>

\* Mutant: an item for any cause takes the derivative out of the selection.
SelectUntouched ==
    /\ sweep.phase = "select"
    /\ \E due \in SUBSET {d \in sweep.overdue : \A c \in Causes : work[<<d, c>>].state = "none"} :
        LET rest == {d \in sweep.overdue : \A c \in Causes : work[<<d, c>>].state = "none"} \ due
        IN  /\ Cardinality(due) <= SweepBatch
            /\ Cardinality(due) < SweepBatch => rest = {}
            /\ \A d \in due, e \in rest : e \in Blocking => d \in Blocking
            /\ sweep' = [sweep EXCEPT !.phase = "consult", !.due = due]
    /\ UNCHANGED <<registered, work, taken, lostTicks, artefact, expired, hold, builds, covered>>

\* _expire_derivatives, the selection: a derivative with any item for this
\* cause is not due, and blocking derivatives come first.
SelectDue ==
    /\ sweep.phase = "select"
    /\ \E due \in SUBSET {d \in sweep.overdue : work[<<d, Expiry>>].state = "none"} :
        LET rest == {d \in sweep.overdue : work[<<d, Expiry>>].state = "none"} \ due
        IN  /\ Cardinality(due) <= SweepBatch
            /\ Cardinality(due) < SweepBatch => rest = {}
            /\ \A d \in due, e \in rest : e \in Blocking => d \in Blocking
            /\ sweep' = [sweep EXCEPT !.phase = "consult", !.due = due]
    /\ UNCHANGED <<registered, work, taken, lostTicks, artefact, expired, hold, builds, covered>>

\* What active_holds returns for the tick's clock: a hold that lapsed since
\* the tick began still counts.
HeldNow == Live \cup sweep.held

\* Mutant: the holds as the tick found them when it began.
ConsultAtStart ==
    /\ sweep.phase = "consult"
    /\ sweep' = [sweep EXCEPT !.phase = "enqueue", !.deletable = sweep.due \ sweep.held]
    /\ UNCHANGED <<registered, work, taken, lostTicks, artefact, expired, hold, builds, covered>>

\* partition_by_hold, in a session of its own.
ConsultHolds ==
    /\ sweep.phase = "consult"
    /\ sweep' = [sweep EXCEPT !.phase = "enqueue", !.deletable = sweep.due \ HeldNow]
    /\ UNCHANGED <<registered, work, taken, lostTicks, artefact, expired, hold, builds, covered>>

\* A full selection may have left some behind, so the tick makes another pass,
\* up to MAX_BATCHES.
EnqueueExpired ==
    /\ sweep.phase = "enqueue"
    /\ Enqueue(sweep.deletable, Expiry)
    /\ sweep' = IF Cardinality(sweep.due) = SweepBatch /\ sweep.passes + 1 < MaxPasses
                THEN [sweep EXCEPT !.phase = "select", !.due = {}, !.deletable = {}, !.passes = @ + 1]
                ELSE IdleSweep
    /\ UNCHANGED <<registered, taken, lostTicks, artefact, expired, hold, builds, covered>>

LoseSweep ==
    /\ sweep.phase # "idle"
    /\ lostTicks < MaxLostTicks
    /\ lostTicks' = lostTicks + 1
    /\ sweep' = IdleSweep
    /\ UNCHANGED <<registered, work, taken, artefact, expired, hold, builds, covered>>

-----------------------------------------------------------------------------
(* Erasure and propagation *)

\* ContextDerivativeErasure.erase_actor, the first time or again: the actor's
\* tombstone is written or found, and every derivative registered by now from
\* what the actor wrote gets an item for it, unless it has one, whatever that
\* has come to.
RequestErasure(t) ==
    /\ Enqueue(Authored[t], t)
    /\ UNCHANGED <<registered, taken, lostTicks, artefact, expired, hold, sweep, builds, covered>>

\* _apply_one: every cause here deletes, and the registration stays.
Apply(w) ==
    /\ MarkDone(w)
    /\ artefact' = artefact \ {Current(w)[1]}
    /\ UNCHANGED <<expired, hold, sweep, builds, covered>>

ApplyFails(w) == MarkFailed(w) /\ UNCHANGED sweepVars

Propagation(w) == Apply(w) \/ ApplyFails(w)

Next ==
    \/ \E d \in Derivatives :
        \/ Build(d) \/ Expires(d)
        \/ PlaceHold(d) \/ HoldLapses(d)
        \/ \E rank \in Ranks : RenewHold(d, rank)
    \/ StartTick \/ SelectDue \/ ConsultHolds \/ EnqueueExpired \/ LoseSweep
    \/ \E t \in Tombstones : RequestErasure(t)
    \/ \E w \in Propagators :
        \/ Propagation(w)
        \/ (Claim(w) \/ LoseTick(w)) /\ UNCHANGED sweepVars
    \/ \E i \in Items : FallsDue(i) /\ UNCHANGED sweepVars

Spec == Init /\ [][Next]_vars

\* The scheduler runs both workers again and again, their statements end, and
\* the clock moves on.  Nobody is obliged to build, hold or erase.
Fairness ==
    /\ WF_vars(StartTick) /\ WF_vars(SelectDue) /\ WF_vars(ConsultHolds) /\ WF_vars(EnqueueExpired)
    /\ \A w \in Propagators : WF_vars(Claim(w) /\ UNCHANGED sweepVars) /\ WF_vars(Propagation(w))
    /\ \A i \in Items : WF_vars(FallsDue(i) /\ UNCHANGED sweepVars)

FairSpec == Spec /\ Fairness

-----------------------------------------------------------------------------
(* Properties *)

\* Every variable has its type.
TypeOK ==
    /\ WorkTypeOK
    /\ artefact \subseteq Derivatives
    /\ expired \subseteq registered
    /\ hold \in [Derivatives -> Hold]
    /\ sweep \in Sweep
    /\ builds \in 0 .. MaxBuilds
    /\ covered \subseteq Live

\* The sweep never queues a record for deletion past a hold that was in force
\* before it asked: for as long as such a hold stays in force, whatever ticks,
\* passes and renewals go by, the record has no expiry item (partition_by_hold).
HoldsProtect == \A d \in covered : work[<<d, Expiry>>].state = "none"

\* What the worker's docstring says of its claim: "two instances and two
\* overlapping ticks cannot process one item twice".  Each cause would be owed to
\* a derivative once and settled once (CauseLedger).  The claim commits before the
\* items are applied and leaves them pending and due, so that two workers apply
\* one item and the failure of the second undoes the record of the first.
SettlesOnce == Ledger!Spec

\* The strengthening of HoldsProtect that every step preserves: a hold that came
\* in time also keeps its record out of what the sweep is about to queue.
IInv ==
    /\ TypeOK
    /\ WorkInv
    /\ HoldsProtect
    /\ covered \cap sweep.deletable = {}

\* Every item is carried out, or given up in a way that shows: from some moment
\* on the guarded reads count an item of a blocking derivative that was given up
\* and refuse to answer (_record_failure, pending_overdue).
OwedIsSettled ==
    \A i \in Items :
        work[i].state = "pending" ~>
            \/ work[i].state = "done"
            \/ [](work[i].state = "failed" /\ (IsBlocking(i) => i \in PendingOverdue))

\* Held derivatives are selected again on every pass, before the hold store is
\* asked.
SelectionIsHeld ==
    Cardinality({d \in expired \cap Live : work[<<d, Expiry>>].state = "none"}) >= SweepBatch

\* A derivative past its expiry is queued unless a hold comes into force for it,
\* or others that are held fill a whole selection again and again: a selection
\* that was held and then released, lost ticks and items queued for other causes
\* do not keep it out (_DUE_DERIVATIVES_SQL, partition_by_hold, MAX_BATCHES).
OverdueIsQueued ==
    \A d \in Derivatives :
        \/ []<>SelectionIsHeld
        \/ (d \in expired /\ ~ hold[d].live) ~> (work[<<d, Expiry>>].state # "none" \/ hold[d].live)

=============================================================================
