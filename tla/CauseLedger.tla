------------------------------ MODULE CauseLedger ------------------------------
(***************************************************************************)
(* What the propagation outbox promises of one cause and one derivative.   *)
(*                                                                         *)
(* An erasure, an expiry or a policy change owes each derivative it        *)
(* reaches one operation, however often the sweep or the request is run    *)
(* again, and that debt is settled once: carried out, or given up loudly.  *)
(* A settled debt is never owed again and never settled differently.       *)
(***************************************************************************)
CONSTANT Items   \* pairs of a derivative and a cause

VARIABLE ledger  \* ledger[i]: "none", "pending", "done" or "failed"

Init == ledger = [i \in Items |-> "none"]

\* One statement schedules the operation for every derivative it reaches.
Owe(S) ==
    /\ \A i \in S : ledger[i] = "none"
    /\ ledger' = [i \in Items |-> IF i \in S THEN "pending" ELSE ledger[i]]

Settle(i) ==
    /\ ledger[i] = "pending"
    /\ \E outcome \in {"done", "failed"} : ledger' = [ledger EXCEPT ![i] = outcome]

Next ==
    \/ \E S \in SUBSET Items : Owe(S)
    \/ \E i \in Items : Settle(i)

Spec == Init /\ [][Next]_ledger

=============================================================================
