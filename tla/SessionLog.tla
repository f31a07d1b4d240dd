------------------------------- MODULE SessionLog ------------------------------
(***************************************************************************)
(* What the session-event service promises of record_event: a call either  *)
(* appends one row, at the position after the session's last one and for   *)
(* an upstream record no other row carries, or it leaves no trace.         *)
(***************************************************************************)
EXTENDS Naturals

CONSTANTS
    Calls,    \* calls of record_event
    Session,  \* Session[c]: the session the call writes to
    Record,   \* Record[c]: the upstream record it replays, or NoRecord
    NoRecord

VARIABLES
    rows,     \* committed rows of memory_session_events
    outcome   \* outcome[c]: what the call returned, "none" until it has

\* MAX(seq) + 1 over the rows of the session, or 1.
IsNextSeq(s, q) ==
    /\ \A r \in rows : Session[r.call] = s => r.seq < q
    /\ q = 1 \/ \E r \in rows : Session[r.call] = s /\ r.seq = q - 1

SameRecord(c, d) == Record[c] # NoRecord /\ Record[c] = Record[d]

Init ==
    /\ rows = {}
    /\ outcome = [c \in Calls |-> "none"]

Append(c) ==
    /\ outcome[c] = "none"
    /\ \A r \in rows : ~ SameRecord(c, r.call)
    /\ \E r \in rows' : /\ r.call = c /\ IsNextSeq(Session[c], r.seq)
                         /\ rows' = rows \cup {[call |-> c, seq |-> r.seq]}
    /\ outcome' = [outcome EXCEPT ![c] = "ok"]

Refuse(c) ==
    /\ outcome[c] = "none"
    /\ \E answer \in {"conflict", "error"} : outcome' = [outcome EXCEPT ![c] = answer]
    /\ UNCHANGED rows

Next == \E c \in Calls : Append(c) \/ Refuse(c)

Spec == Init /\ [][Next]_<<rows, outcome>>

=============================================================================
