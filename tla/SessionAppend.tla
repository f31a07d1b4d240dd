----------------------------- MODULE SessionAppend -----------------------------
(***************************************************************************)
(* Racing appends to the sessions of a tenant, and readers that page       *)
(* through them.                                                           *)
(*                                                                         *)
(* record_event's INSERT computes the next position from the rows its      *)
(* statement sees, and two unique indexes arbitrate: one on the positions  *)
(* of a session, one on the upstream records of the tenant.  An entry that *)
(* is not committed makes an equal one wait until its transaction ends.    *)
(* Which unique violation was raised is read off the text of the error,    *)
(* which holds the statement and with it the name of the record's column:  *)
(* every violation is taken for a duplicate record, so none is retried.    *)
(*                                                                         *)
(* Rows are only added here; the purge is a step of ExtractionDrain.       *)
(***************************************************************************)
EXTENDS Naturals, FiniteSets

CONSTANTS
    Sessions,  \* sessions of one tenant
    Calls,     \* calls of record_event
    Session,   \* Session[c]: the session the call writes to
    Record,    \* Record[c]: the upstream record it replays, or NoRecord
    NoRecord,
    PageSize   \* rows of one page of list_events (limit)

VARIABLES
    rows,     \* committed rows of memory_session_events
    outcome,  \* what each call returned
    pc,       \* where each call is: "start", "insert", "held" or "done"
    seq,      \* the position each call's INSERT has computed, 0 before it has
    cursor,   \* cursor[s]: the last position a reader of session s has seen
    seen      \* the calls whose rows readers have seen

vars == <<rows, outcome, pc, seq, cursor, seen>>
readerVars == <<cursor, seen>>

\* The abstract log has the same rows and answers; what a call computes and holds
\* before it commits is hidden.
Log == INSTANCE SessionLog WITH rows <- rows, outcome <- outcome

RowType == [call : Calls, seq : Nat]

ASSUME AppendAssumption ==
    /\ Session \in [Calls -> Sessions]
    /\ PageSize \in Nat \ {0}

RowsOf(s) == {r \in rows : Session[r.call] = s}

-----------------------------------------------------------------------------
(* record_event *)

\* A mutant of the allocation: a counter that other calls have moved on, as a
\* database sequence would be.
CounterSeq(c) == {1 + Cardinality({d \in Calls : Session[d] = Session[c] /\ seq[d] # 0})}

\* COALESCE(MAX(seq), 0) + 1 over what the statement sees.
NextSeq(c) == {q \in {1} \cup {r.seq + 1 : r \in rows} : Log!IsNextSeq(Session[c], q)}

\* The INSERT takes its snapshot.
Compute(c) ==
    /\ pc[c] = "start"
    /\ \E q \in NextSeq(c) : seq' = [seq EXCEPT ![c] = q]
    /\ pc' = [pc EXCEPT ![c] = "insert"]
    /\ UNCHANGED <<rows, outcome, readerVars>>

\* uq_mse_session_seq and uq_mse_external_record.
SamePosition(c, s, q) == Session[c] = s /\ seq[c] = q

Collides(c) ==
    \E r \in rows : SamePosition(c, Session[r.call], r.seq) \/ Log!SameRecord(c, r.call)

\* An equal entry of a transaction that is still open.
Waits(c) ==
    \E d \in Calls \ {c} :
        /\ pc[d] = "held"
        /\ SamePosition(c, Session[d], seq[d]) \/ Log!SameRecord(c, d)

\* A mutant of the unique indexes: the one on upstream records is missing.
InsertReplay(c) ==
    /\ pc[c] = "insert"
    /\ \A r \in rows : ~ SamePosition(c, Session[r.call], r.seq)
    /\ \A d \in Calls \ {c} : ~ (pc[d] = "held" /\ SamePosition(c, Session[d], seq[d]))
    /\ pc' = [pc EXCEPT ![c] = "held"]
    /\ UNCHANGED <<rows, outcome, seq, readerVars>>

\* The INSERT succeeds; the transaction goes on to the outbox.
Insert(c) ==
    /\ pc[c] = "insert"
    /\ ~ Collides(c)
    /\ ~ Waits(c)
    /\ pc' = [pc EXCEPT ![c] = "held"]
    /\ UNCHANGED <<rows, outcome, seq, readerVars>>

\* A mutant of the collision: the driver's own exception is returned.
CollideRaw(c) ==
    /\ pc[c] = "insert"
    /\ Collides(c)
    /\ pc' = [pc EXCEPT ![c] = "done"]
    /\ outcome' = [outcome EXCEPT ![c] = "integrity_error"]
    /\ UNCHANGED <<rows, seq, readerVars>>

\* A mutant of the collision: retried at the same position, without a bound.
CollideForever(c) ==
    /\ pc[c] = "insert"
    /\ Collides(c)
    /\ UNCHANGED vars

\* The INSERT raises a unique violation, taken for a duplicate upstream record.
Collide(c) ==
    /\ pc[c] = "insert"
    /\ Collides(c)
    /\ pc' = [pc EXCEPT ![c] = "done"]
    /\ outcome' = [outcome EXCEPT ![c] = "conflict"]
    /\ UNCHANGED <<rows, seq, readerVars>>

\* The transaction commits the event and its outbox rows together.
Commit(c) ==
    /\ pc[c] = "held"
    /\ rows' = rows \cup {[call |-> c, seq |-> seq[c]]}
    /\ pc' = [pc EXCEPT ![c] = "done"]
    /\ outcome' = [outcome EXCEPT ![c] = "ok"]
    /\ UNCHANGED <<seq, readerVars>>

\* Another error, or the end of the process, rolls the transaction back.
RollBack(c) ==
    /\ pc[c] \in {"start", "insert", "held"}
    /\ pc' = [pc EXCEPT ![c] = "done"]
    /\ outcome' = [outcome EXCEPT ![c] = "error"]
    /\ UNCHANGED <<rows, seq, readerVars>>

-----------------------------------------------------------------------------
(* list_events, forward from a cursor *)

\* ORDER BY seq LIMIT limit.
IsPage(P, E) ==
    /\ P \subseteq E
    /\ Cardinality(P) <= PageSize
    /\ Cardinality(P) = PageSize \/ P = E
    /\ \A e \in P, d \in E \ P : e.seq < d.seq

ReadPage(s) ==
    LET E == {r \in RowsOf(s) : r.seq > cursor[s]}
    IN  \E P \in SUBSET E : \E last \in P :
            /\ IsPage(P, E)
            /\ \A e \in P : e.seq <= last.seq
            /\ cursor' = [cursor EXCEPT ![s] = last.seq]
            /\ seen' = seen \cup {e.call : e \in P}
            /\ UNCHANGED <<rows, outcome, pc, seq>>

-----------------------------------------------------------------------------

Init ==
    /\ rows = {}
    /\ outcome = [c \in Calls |-> "none"]
    /\ pc = [c \in Calls |-> "start"]
    /\ seq = [c \in Calls |-> 0]
    /\ cursor = [s \in Sessions |-> 0]
    /\ seen = {}

RecordEvent(c) == Compute(c) \/ Insert(c) \/ Collide(c) \/ Commit(c)

Next ==
    \/ \E c \in Calls : RecordEvent(c) \/ RollBack(c)
    \/ \E s \in Sessions : ReadPage(s)

Spec == Init /\ [][Next]_vars

\* A request runs on until it returns; nobody has to fail, or to read.
FairSpec == Spec /\ \A c \in Calls : WF_vars(RecordEvent(c))

-----------------------------------------------------------------------------
(* Properties *)

\* The types of the calls' and the readers' state.
TypeOK ==
    /\ rows \in SUBSET RowType
    /\ outcome \in [Calls -> {"none", "ok", "conflict", "error"}]
    /\ pc \in [Calls -> {"start", "insert", "held", "done"}]
    /\ seq \in [Calls -> Nat]
    /\ cursor \in [Sessions -> Nat]
    /\ seen \in SUBSET Calls

\* Racing calls implement the atomic append: whatever the snapshot a call
\* computed its position from, the position is the next one when it commits,
\* and its upstream record is still new (record_event, _append).
AppendIsAtomic == Log!Spec

\* A reader that pages forward misses no row: no row ever appears at or behind
\* a cursor that was returned (list_events's `seq > :cursor`).
CursorNeverSkips == \A r \in rows : r.seq <= cursor[Session[r.call]] => r.call \in seen

\* Every call ends: waiting for an equal entry never becomes waiting for ever.
CallsEnd == \A c \in Calls : <>(pc[c] = "done")

\* The strengthening that every step preserves.

\* The positions of a session are 1, 2, ... without a gap.
Dense == \A s \in Sessions : \E n \in {0} \cup {r.seq : r \in rows} : {r.seq : r \in RowsOf(s)} = 1 .. n

\* A computed position follows a committed one, and one whose INSERT went
\* through is still the next.
CallIsSound(c) ==
    /\ (outcome[c] = "none") = (pc[c] # "done")
    /\ pc[c] = "insert" => \/ seq[c] = 1
                           \/ \E r \in RowsOf(Session[c]) : r.seq = seq[c] - 1
    /\ pc[c] = "held" => Log!IsNextSeq(Session[c], seq[c])
    /\ pc[c] = "held" => \A r \in rows : ~ Log!SameRecord(c, r.call)

\* Open transactions never hold equal entries.
HeldAreDistinct ==
    \A c, d \in Calls :
        (c # d /\ pc[c] = "held" /\ pc[d] = "held") =>
            ~ (SamePosition(c, Session[d], seq[d]) \/ Log!SameRecord(c, d))

\* A cursor stands at a row, or at the start.
CursorsAreSound == \A s \in Sessions : cursor[s] = 0 \/ \E r \in RowsOf(s) : r.seq = cursor[s]

IInv ==
    /\ TypeOK
    /\ Dense
    /\ \A c \in Calls : CallIsSound(c)
    /\ HeldAreDistinct
    /\ CursorsAreSound
    /\ CursorNeverSkips

=============================================================================
