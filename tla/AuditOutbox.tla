------------------------------ MODULE AuditOutbox ------------------------------
(***************************************************************************)
(* The audit path of ARC.  A service writes an outbox row in the           *)
(* transaction whose effect it records; drain workers move the rows to     *)
(* audit_log.  A pass is one transaction: it locks its rows with SKIP      *)
(* LOCKED, writes each to the log under a savepoint of its own, and marks  *)
(* it drained or charges it an attempt.                                    *)
(*                                                                         *)
(* A row is named by what it records.  Which of the eligible rows a pass   *)
(* takes first is left open: created_at is the start of the writing        *)
(* transaction, which is not the order in which rows appear.               *)
(***************************************************************************)
EXTENDS Naturals, FiniteSets

CONSTANTS
    Events,         \* what an outbox row can record
    Drainers,       \* overlapping passes of AuditDrainWorker
    Limit,          \* rows that one pass claims
    MaxWrites,      \* max_attempts of a row
    MaxDisturbances \* bound: lost passes, and what else goes wrong around them

VARIABLES
    outbox,     \* outbox[e]: the arc_audit_outbox row of e
    log,        \* audit_log: the outbox rows it has an entry for
    pass,       \* pass[d]: the rows that a pass holds locked
    disturbances    \* how much went wrong so far

auditVars == <<outbox, log, pass>>

ASSUME AuditAssumption ==
    /\ Limit \in Nat \ {0}
    /\ MaxWrites \in Nat \ {0}
    /\ MaxDisturbances \in Nat

OutboxRow == [state : {"absent", "waiting", "drained"}, attempts : 0 .. MaxWrites]
Unwritten == [state |-> "absent", attempts |-> 0]

AuditInit ==
    /\ outbox = [e \in Events |-> Unwritten]
    /\ log = {}
    /\ pass = [d \in Drainers |-> {}]
    /\ disturbances = 0

Disturb == disturbances < MaxDisturbances /\ disturbances' = disturbances + 1

\* emit: a row in the transaction of the caller.
Emit(e) == outbox' = [outbox EXCEPT ![e].state = "waiting"]

\* A claim that allows one attempt too many.
ClaimableOneMore == {e \in Events : /\ outbox[e].state = "waiting"
                                    /\ outbox[e].attempts <= MaxWrites
                                    /\ \A d \in Drainers : e \notin pass[d]}

\* _claim: undrained rows with attempts left, that no other pass holds.
Claimable == {e \in Events : /\ outbox[e].state = "waiting"
                             /\ outbox[e].attempts < MaxWrites
                             /\ \A d \in Drainers : e \notin pass[d]}

DrainClaim(d) ==
    /\ pass[d] = {}
    /\ \E batch \in SUBSET Claimable :
          /\ batch # {}
          /\ Cardinality(batch) = Limit \/ (Cardinality(batch) < Limit /\ batch = Claimable)
          /\ pass' = [pass EXCEPT ![d] = batch]
    /\ UNCHANGED <<outbox, log, disturbances>>

\* A failed row that is not charged for it.
DrainCommitUncharged(d) ==
    /\ pass[d] # {}
    /\ \E failed \in SUBSET pass[d] :
          /\ outbox' = [e \in Events |-> IF e \in pass[d] \ failed THEN [outbox[e] EXCEPT !.state = "drained"]
                                         ELSE outbox[e]]
          /\ log' = log \cup (pass[d] \ failed)
    /\ pass' = [pass EXCEPT ![d] = {}]
    /\ UNCHANGED disturbances

\* run_once commits: the rows whose write failed keep waiting, charged one
\* attempt; the others are logged and drained.
DrainCommit(d) ==
    /\ pass[d] # {}
    /\ \E failed \in SUBSET pass[d] :
          /\ outbox' = [e \in Events |->
                          CASE e \in failed -> [outbox[e] EXCEPT !.attempts = @ + 1]
                            [] e \in pass[d] \ failed -> [outbox[e] EXCEPT !.state = "drained"]
                            [] OTHER -> outbox[e]]
          /\ log' = log \cup (pass[d] \ failed)
    /\ pass' = [pass EXCEPT ![d] = {}]
    /\ UNCHANGED disturbances

\* The process stops, and the transaction with it.
DrainLost(d) ==
    /\ pass[d] # {}
    /\ Disturb
    /\ pass' = [pass EXCEPT ![d] = {}]
    /\ UNCHANGED <<outbox, log>>

DrainStep == \E d \in Drainers : DrainClaim(d) \/ DrainCommit(d) \/ DrainLost(d)

AuditTypeOK ==
    /\ outbox \in [Events -> OutboxRow]
    /\ log \subseteq Events
    /\ pass \in [Drainers -> SUBSET Events]
    /\ disturbances \in Nat

=============================================================================
