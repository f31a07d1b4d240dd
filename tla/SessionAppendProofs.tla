-------------------------- MODULE SessionAppendProofs --------------------------
(***************************************************************************)
(* Proofs that racing appends implement the atomic append of SessionLog    *)
(* and that a reader's cursor never skips a row, for every set of calls,   *)
(* sessions and upstream records.                                          *)
(***************************************************************************)
EXTENDS SessionAppend, TLAPS

\* The fields of a row have their types.
LEMMA RowTypes ==
  ASSUME TypeOK
  PROVE  \A r \in rows : r.call \in Calls /\ r.seq \in Nat /\ Session[r.call] \in Sessions
  BY AppendAssumption DEF TypeOK, RowType

LEMMA InitIInv == Init => IInv
  BY DEF Init, IInv, TypeOK, Dense, CallIsSound, HeldAreDistinct, CursorsAreSound, CursorNeverSkips, RowsOf

\* A position that follows a committed one and that no row has is the next.
LEMMA FreeIsNext ==
  ASSUME TypeOK, Dense, NEW s \in Sessions, NEW q \in Nat,
         q = 1 \/ \E r \in RowsOf(s) : r.seq = q - 1,
         \A r \in RowsOf(s) : r.seq # q
  PROVE  Log!IsNextSeq(s, q)
<1>1. PICK n \in {0} \cup {r.seq : r \in rows} : {r.seq : r \in RowsOf(s)} = 1 .. n
  BY DEF Dense
<1>2. n \in Nat
  BY <1>1, RowTypes
<1>3. \A r \in RowsOf(s) : r.seq \in 1 .. n
  BY <1>1
<1>4. q \notin 1 .. n
  BY <1>1
<1>5. q = 1 \/ q - 1 \in 1 .. n
  BY <1>3
<1>6. \A r \in RowsOf(s) : r.seq < q
  BY <1>2, <1>3, <1>4, <1>5
<1> QED
  BY <1>6 DEF Log!IsNextSeq, RowsOf

\* There is only one next position.
LEMMA NextIsUnique ==
  ASSUME TypeOK, NEW s \in Sessions, NEW p \in Nat, NEW q \in Nat,
         Log!IsNextSeq(s, p), Log!IsNextSeq(s, q)
  PROVE  p = q
  BY RowTypes DEF Log!IsNextSeq

\* What holds of the rows and the readers holds after a step of a call that
\* commits nothing.
LEMMA RowsUnchanged ==
  ASSUME IInv, UNCHANGED <<rows, cursor, seen>>
  PROVE  Dense' /\ CursorsAreSound' /\ CursorNeverSkips'
  BY DEF IInv, Dense, CursorsAreSound, CursorNeverSkips, RowsOf

\* Computing a position.
LEMMA ComputeStep ==
  ASSUME IInv, NEW c \in Calls, Compute(c)
  PROVE  IInv'
<1>1. PICK q \in NextSeq(c) : seq' = [seq EXCEPT ![c] = q]
  BY DEF Compute
<1>2. q \in Nat /\ Log!IsNextSeq(Session[c], q)
  BY <1>1, RowTypes DEF NextSeq, IInv
<1>3. /\ pc[c] = "start" /\ pc' = [pc EXCEPT ![c] = "insert"]
      /\ UNCHANGED <<rows, outcome, cursor, seen>>
  BY DEF Compute, readerVars
<1>4. TypeOK'
  BY <1>1, <1>2, <1>3 DEF IInv, TypeOK
<1>5. ASSUME NEW d \in Calls PROVE CallIsSound(d)'
  <2>1. CASE d = c
    BY <1>1, <1>2, <1>3, <2>1 DEF IInv, TypeOK, CallIsSound, Log!IsNextSeq, RowsOf
  <2>2. CASE d # c
    <3>1. pc'[d] = pc[d] /\ seq'[d] = seq[d]
      BY <1>1, <1>3, <2>2 DEF IInv, TypeOK
    <3> QED
      BY <1>3, <3>1 DEF IInv, CallIsSound, Log!IsNextSeq, Log!SameRecord, RowsOf
  <2> QED
    BY <2>1, <2>2
<1>6. HeldAreDistinct'
  <2>1. \A d \in Calls : pc'[d] = "held" => d # c /\ pc[d] = "held" /\ seq'[d] = seq[d]
    BY <1>1, <1>3 DEF IInv, TypeOK
  <2> QED
    BY <2>1 DEF IInv, HeldAreDistinct, SamePosition, Log!SameRecord
<1> QED
  BY <1>3, <1>4, <1>5, <1>6, RowsUnchanged DEF IInv

\* An INSERT that neither collides nor waits holds the next position.
LEMMA InsertStep ==
  ASSUME IInv, NEW c \in Calls, Insert(c)
  PROVE  IInv'
<1>1. /\ pc[c] = "insert" /\ pc' = [pc EXCEPT ![c] = "held"] /\ ~ Collides(c) /\ ~ Waits(c)
      /\ UNCHANGED <<rows, outcome, seq, cursor, seen>>
  BY DEF Insert, readerVars
<1>2. TypeOK'
  BY <1>1 DEF IInv, TypeOK
<1>3. Log!IsNextSeq(Session[c], seq[c])
  <2>1. seq[c] \in Nat /\ Session[c] \in Sessions
    BY AppendAssumption DEF IInv, TypeOK
  <2>2. seq[c] = 1 \/ \E r \in RowsOf(Session[c]) : r.seq = seq[c] - 1
    BY <1>1 DEF IInv, CallIsSound
  <2>3. \A r \in RowsOf(Session[c]) : r.seq # seq[c]
    BY <1>1 DEF Collides, SamePosition, RowsOf
  <2> QED
    BY <2>1, <2>2, <2>3, FreeIsNext DEF IInv
<1>4. ASSUME NEW d \in Calls PROVE CallIsSound(d)'
  <2>1. CASE d = c
    BY <1>1, <1>3, <2>1 DEF IInv, TypeOK, CallIsSound, Collides, Log!IsNextSeq, Log!SameRecord
  <2>2. CASE d # c
    <3>1. pc'[d] = pc[d]
      BY <1>1, <2>2 DEF IInv, TypeOK
    <3> QED
      BY <1>1, <3>1 DEF IInv, CallIsSound, Log!IsNextSeq, Log!SameRecord, RowsOf
  <2> QED
    BY <2>1, <2>2
<1>5. HeldAreDistinct'
  <2>1. \A d \in Calls : pc'[d] = "held" => d = c \/ pc[d] = "held"
    BY <1>1 DEF IInv, TypeOK
  <2> QED
    BY <1>1, <2>1 DEF IInv, HeldAreDistinct, Waits, SamePosition, Log!SameRecord
<1> QED
  BY <1>1, <1>2, <1>4, <1>5, RowsUnchanged DEF IInv

\* A call that ends without a row: a collision or a rollback.
LEMMA EndStep ==
  ASSUME IInv, NEW c \in Calls, NEW answer \in {"conflict", "error"}, pc[c] # "done",
         pc' = [pc EXCEPT ![c] = "done"], outcome' = [outcome EXCEPT ![c] = answer],
         UNCHANGED <<rows, seq, readerVars>>
  PROVE  IInv'
<1>1. UNCHANGED <<rows, seq, cursor, seen>>
  BY DEF readerVars
<1>2. TypeOK'
  BY <1>1 DEF IInv, TypeOK
<1>3. ASSUME NEW d \in Calls PROVE CallIsSound(d)'
  <2>1. CASE d = c
    BY <2>1 DEF IInv, TypeOK, CallIsSound
  <2>2. CASE d # c
    <3>1. pc'[d] = pc[d] /\ outcome'[d] = outcome[d]
      BY <2>2 DEF IInv, TypeOK
    <3> QED
      BY <1>1, <3>1 DEF IInv, CallIsSound, Log!IsNextSeq, Log!SameRecord, RowsOf
  <2> QED
    BY <2>1, <2>2
<1>4. HeldAreDistinct'
  <2>1. \A d \in Calls : pc'[d] = "held" => pc[d] = "held"
    BY DEF IInv, TypeOK
  <2> QED
    BY <1>1, <2>1 DEF IInv, HeldAreDistinct, SamePosition, Log!SameRecord
<1> QED
  BY <1>1, <1>2, <1>3, <1>4, RowsUnchanged DEF IInv

\* A commit takes the next position of its session, so the positions stay
\* dense, no cursor is overtaken and no other open call held it.
LEMMA CommitStep ==
  ASSUME IInv, NEW c \in Calls, Commit(c)
  PROVE  IInv'
<1> DEFINE s == Session[c]
           q == seq[c]
           new == [call |-> c, seq |-> q]
<1>1. /\ pc[c] = "held" /\ pc' = [pc EXCEPT ![c] = "done"] /\ outcome' = [outcome EXCEPT ![c] = "ok"]
      /\ rows' = rows \cup {new} /\ UNCHANGED <<seq, cursor, seen>>
  BY DEF Commit, readerVars
<1>2. s \in Sessions /\ q \in Nat /\ Log!IsNextSeq(s, q) /\ \A r \in rows : ~ Log!SameRecord(c, r.call)
  BY <1>1, AppendAssumption DEF IInv, TypeOK, CallIsSound
<1>3. new \in RowType /\ new.call = c /\ new.seq = q
  BY <1>2 DEF RowType
<1>4. TypeOK'
  BY <1>1, <1>3 DEF IInv, TypeOK
<1>5. \A r \in rows : r.call \in Calls /\ r.seq \in Nat /\ (Session[r.call] = s => r.seq < q)
  BY <1>2, RowTypes DEF IInv, Log!IsNextSeq
<1> HIDE DEF new
<1>6. Dense'
  <2> SUFFICES ASSUME NEW t \in Sessions
               PROVE  \E n \in {0} \cup {r.seq : r \in rows'} :
                        {r.seq : r \in {x \in rows' : Session[x.call] = t}} = 1 .. n
    BY DEF Dense, RowsOf
  <2>1. PICK n \in {0} \cup {r.seq : r \in rows} : {r.seq : r \in RowsOf(t)} = 1 .. n
    BY DEF IInv, Dense
  <2>2. n \in Nat
    BY <2>1, <1>5
  <2>3. CASE t = s
    <3>1. \A r \in RowsOf(s) : r.seq < q
      BY <1>5 DEF RowsOf
    <3>2. q = 1 \/ \E r \in RowsOf(s) : r.seq = q - 1
      BY <1>2 DEF Log!IsNextSeq, RowsOf
    <3>3. \A m \in 1 .. n : m < q
      BY <2>1, <2>3, <3>1
    <3>4. q = 1 \/ q - 1 \in 1 .. n
      BY <2>1, <2>3, <3>2
    <3>5. q = n + 1
      BY <1>2, <2>2, <3>3, <3>4
    <3>6. {x \in rows' : Session[x.call] = t} = RowsOf(s) \cup {new}
      BY <1>1, <1>3, <2>3 DEF RowsOf
    <3>7. {r.seq : r \in RowsOf(s) \cup {new}} = (1 .. n) \cup {q}
      BY <1>3, <2>1, <2>3
    <3>8. (1 .. n) \cup {q} = 1 .. q
      BY <2>2, <3>5
    <3>9. q \in {r.seq : r \in rows'}
      BY <1>1, <1>3
    <3> QED
      BY <3>6, <3>7, <3>8, <3>9
  <2>4. CASE t # s
    <3>1. {x \in rows' : Session[x.call] = t} = RowsOf(t)
      BY <1>1, <1>3, <2>4 DEF RowsOf
    <3>2. n \in {0} \cup {r.seq : r \in rows'}
      BY <1>1, <2>1
    <3> QED
      BY <2>1, <3>1, <3>2
  <2> QED
    BY <2>3, <2>4
<1>7. ASSUME NEW d \in Calls PROVE CallIsSound(d)'
  <2>1. CASE d = c
    BY <1>1, <2>1 DEF IInv, TypeOK, CallIsSound
  <2>2. CASE d # c
    <3>1. pc'[d] = pc[d] /\ outcome'[d] = outcome[d] /\ seq'[d] = seq[d]
      BY <1>1, <2>2 DEF IInv, TypeOK
    <3>2. (outcome'[d] = "none") = (pc'[d] # "done")
      BY <3>1 DEF IInv, CallIsSound
    <3>3. pc'[d] = "insert" => \/ seq'[d] = 1
                               \/ \E r \in rows' : Session[r.call] = Session[d] /\ r.seq = seq'[d] - 1
      BY <1>1, <3>1 DEF IInv, CallIsSound, RowsOf
    <3>4. ASSUME pc'[d] = "held"
          PROVE  /\ \A r \in rows' : Session[r.call] = Session[d] => r.seq < seq'[d]
                 /\ seq'[d] = 1 \/ \E r \in rows' : Session[r.call] = Session[d] /\ r.seq = seq'[d] - 1
                 /\ \A r \in rows' : ~ Log!SameRecord(d, r.call)
      <4>1. /\ pc[d] = "held" /\ Log!IsNextSeq(Session[d], seq[d]) /\ seq[d] \in Nat
            /\ Session[d] \in Sessions /\ \A r \in rows : ~ Log!SameRecord(d, r.call)
        BY <3>1, <3>4, AppendAssumption DEF IInv, TypeOK, CallIsSound
      <4>2. ~ (SamePosition(d, s, q) \/ Log!SameRecord(d, c))
        BY <1>1, <2>2, <4>1 DEF IInv, HeldAreDistinct
      <4>3. Session[d] # s
        BY <1>2, <4>1, <4>2, NextIsUnique DEF IInv, SamePosition
      <4> QED
        BY <1>1, <1>3, <3>1, <4>1, <4>2, <4>3 DEF Log!IsNextSeq
    <3> QED
      BY <3>2, <3>3, <3>4 DEF CallIsSound, Log!IsNextSeq, Log!SameRecord, RowsOf
  <2> QED
    BY <2>1, <2>2
<1>8. HeldAreDistinct'
  <2>1. \A d \in Calls : pc'[d] = "held" => pc[d] = "held"
    BY <1>1 DEF IInv, TypeOK
  <2> QED
    BY <1>1, <2>1 DEF IInv, HeldAreDistinct, SamePosition, Log!SameRecord
<1>9. CursorsAreSound'
  BY <1>1 DEF IInv, CursorsAreSound, RowsOf
<1>10. CursorNeverSkips'
  <2>1. cursor[s] < q
    <3>1. cursor[s] = 0 \/ \E r \in RowsOf(s) : r.seq = cursor[s]
      BY <1>2 DEF IInv, CursorsAreSound
    <3>2. q # 0
      BY <1>2, <1>5 DEF Log!IsNextSeq
    <3> QED
      BY <1>2, <1>5, <3>1, <3>2 DEF RowsOf
  <2>2. cursor[s] \in Nat
    BY <1>2 DEF IInv, TypeOK
  <2> QED
    BY <1>1, <1>2, <1>3, <2>1, <2>2 DEF IInv, CursorNeverSkips
<1> QED
  BY <1>4, <1>6, <1>7, <1>8, <1>9, <1>10 DEF IInv

\* A page holds every row between the old cursor and the new one.
LEMMA ReadPageStep ==
  ASSUME IInv, NEW s \in Sessions, ReadPage(s)
  PROVE  IInv'
<1> DEFINE E == {r \in RowsOf(s) : r.seq > cursor[s]}
<1>1. PICK P \in SUBSET E : \E last \in P :
        /\ IsPage(P, E) /\ \A e \in P : e.seq <= last.seq
        /\ cursor' = [cursor EXCEPT ![s] = last.seq] /\ seen' = seen \cup {e.call : e \in P}
        /\ UNCHANGED <<rows, outcome, pc, seq>>
  BY DEF ReadPage
<1>a. PICK last \in P :
        /\ IsPage(P, E) /\ \A e \in P : e.seq <= last.seq
        /\ cursor' = [cursor EXCEPT ![s] = last.seq] /\ seen' = seen \cup {e.call : e \in P}
        /\ UNCHANGED <<rows, outcome, pc, seq>>
  BY <1>1
<1>2. \A r \in rows : r.call \in Calls /\ r.seq \in Nat
  BY RowTypes DEF IInv
<1>3. P \subseteq rows /\ last \in rows /\ Session[last.call] = s
  BY <1>a DEF RowsOf
<1>4. TypeOK'
  BY <1>a, <1>2, <1>3 DEF IInv, TypeOK
<1>5. Dense' /\ HeldAreDistinct' /\ \A c \in Calls : CallIsSound(c)'
  BY <1>a DEF IInv, Dense, HeldAreDistinct, CallIsSound, SamePosition, Log!IsNextSeq, Log!SameRecord, RowsOf
<1>6. \A t \in Sessions : cursor'[t] = IF t = s THEN last.seq ELSE cursor[t]
  BY <1>a DEF IInv, TypeOK
<1>7. CursorsAreSound'
  BY <1>a, <1>3, <1>6 DEF IInv, CursorsAreSound, RowsOf
<1>8. CursorNeverSkips'
  <2> SUFFICES ASSUME NEW r \in rows, r.seq <= cursor'[Session[r.call]]
               PROVE  r.call \in seen'
    BY <1>a DEF CursorNeverSkips
  <2>1. Session[r.call] \in Sessions /\ r.seq \in Nat /\ cursor[Session[r.call]] \in Nat
    BY RowTypes DEF IInv, TypeOK
  <2>2. CASE r.seq <= cursor[Session[r.call]]
    BY <1>a, <2>2 DEF IInv, CursorNeverSkips
  <2>3. CASE ~ (r.seq <= cursor[Session[r.call]])
    <3>1. Session[r.call] = s /\ r.seq <= last.seq
      BY <1>6, <2>1, <2>3
    <3>2. r \in E
      BY <2>1, <2>3, <3>1 DEF RowsOf
    <3>3. r \in P
      BY <1>a, <1>2, <1>3, <2>1, <3>1, <3>2 DEF IsPage
    <3> QED
      BY <1>a, <3>3
  <2> QED
    BY <2>2, <2>3
<1> QED
  BY <1>4, <1>5, <1>7, <1>8 DEF IInv

LEMMA NextIInv == IInv /\ [Next]_vars => IInv'
<1> SUFFICES ASSUME IInv, [Next]_vars PROVE IInv'
  OBVIOUS
<1>1. ASSUME NEW c \in Calls, Collide(c) PROVE IInv'
  BY <1>1, EndStep DEF Collide
<1>2. ASSUME NEW c \in Calls, RollBack(c) PROVE IInv'
  BY <1>2, EndStep DEF RollBack
<1>3. CASE UNCHANGED vars
  <2>1. UNCHANGED <<rows, outcome, pc, seq, cursor, seen>>
    BY <1>3 DEF vars
  <2> QED
    BY <2>1 DEF IInv, TypeOK, Dense, CallIsSound, HeldAreDistinct, CursorsAreSound, CursorNeverSkips,
                SamePosition, RowsOf, Log!IsNextSeq, Log!SameRecord
<1> QED
  BY <1>1, <1>2, <1>3, ComputeStep, InsertStep, CommitStep, ReadPageStep DEF Next, RecordEvent

\* The strengthened invariant holds of every interleaving of calls and readers.
THEOREM InductiveInvariant == Spec => []IInv
  BY InitIInv, NextIInv, PTL DEF Spec

\* Every call, row and cursor keeps its type.
THEOREM TypeCorrect == Spec => []TypeOK
<1>1. IInv => TypeOK
  BY DEF IInv
<1> QED
  BY <1>1, InductiveInvariant, PTL

\* A reader that pages forward through a session misses no row (list_events):
\* positions become visible in order, so none appears behind a cursor.
THEOREM CursorIsSafe == Spec => []CursorNeverSkips
<1>1. IInv => CursorNeverSkips
  BY DEF IInv
<1> QED
  BY <1>1, InductiveInvariant, PTL

\* A step of a call is an atomic append, a refusal, or invisible.
LEMMA StepSimulates ==
  ASSUME IInv, [Next]_vars
  PROVE  [Log!Next]_<<rows, outcome>>
<1>1. ASSUME NEW c \in Calls, Commit(c) PROVE Log!Append(c)
  <2>1. outcome[c] = "none" /\ Log!IsNextSeq(Session[c], seq[c]) /\ \A r \in rows : ~ Log!SameRecord(c, r.call)
    BY <1>1 DEF Commit, IInv, CallIsSound
  <2>2. PICK r : r = [call |-> c, seq |-> seq[c]]
    OBVIOUS
  <2>3. r \in rows' /\ r.call = c /\ r.seq = seq[c] /\ rows' = rows \cup {[call |-> c, seq |-> r.seq]}
    BY <1>1, <2>2 DEF Commit
  <2>4. outcome' = [outcome EXCEPT ![c] = "ok"]
    BY <1>1 DEF Commit
  <2> QED
    BY <2>1, <2>3, <2>4 DEF Log!Append
<1>2. ASSUME NEW c \in Calls, Collide(c) PROVE Log!Refuse(c)
  BY <1>2 DEF Collide, IInv, CallIsSound, Log!Refuse
<1>3. ASSUME NEW c \in Calls, RollBack(c) PROVE Log!Refuse(c)
  BY <1>3 DEF RollBack, IInv, CallIsSound, Log!Refuse
<1>4. ASSUME NEW c \in Calls, Compute(c) \/ Insert(c) PROVE UNCHANGED <<rows, outcome>>
  BY <1>4 DEF Compute, Insert
<1>5. ASSUME NEW s \in Sessions, ReadPage(s) PROVE UNCHANGED <<rows, outcome>>
  BY <1>5 DEF ReadPage
<1>6. CASE UNCHANGED vars
  BY <1>6 DEF vars
<1> QED
  BY <1>1, <1>2, <1>3, <1>4, <1>5, <1>6 DEF Next, RecordEvent, Log!Next

\* Racing calls of record_event implement the atomic append of SessionLog.
THEOREM AppendRefines == Spec => AppendIsAtomic
<1>1. Init => Log!Init
  BY DEF Init, Log!Init
<1> QED
  BY <1>1, StepSimulates, InductiveInvariant, PTL DEF Spec, AppendIsAtomic, Log!Spec

=============================================================================
