------------------------ MODULE ContextResolutionProofs ------------------------
(***************************************************************************)
(* For every number of challenges, attestations, calls and drain passes:   *)
(* the type invariant, one receipt per challenge, one receipt per          *)
(* attestation, the audit trail, and the revocation of the key and of the  *)
(* verifiers.  The strengthening says what a call may rely on between its  *)
(* locks and its commit, and which audit rows are still to be written.     *)
(***************************************************************************)
EXTENDS ContextResolution, TLAPS

\* What a pass holds is waiting, has attempts left and is held by no other; what
\* is drained is logged.
AuditInv ==
    /\ \A d \in Drainers : \A e \in pass[d] : outbox[e].state = "waiting" /\ outbox[e].attempts < MaxWrites
    /\ \A c, d \in Drainers : \A e \in Events : e \in pass[c] /\ e \in pass[d] => c = d
    /\ \A e \in Events : e \in log <=> outbox[e].state = "drained"

\* The rows that the effects so far have not written.
UnwrittenInv ==
    /\ \A c \in Challenges : challenge[c].state = "absent" => outbox[<<"issued", c>>].state = "absent"
    /\ \A c \in Challenges : challenge[c].state # "purged" => outbox[<<"purged", c>>].state = "absent"
    /\ \A a \in Attestations : receipt[a] # NoReceipt <=> outbox[<<"resolved", a>>].state # "absent"
    /\ \A r \in Requests : request[r].result = "unverified" <=> outbox[<<"refused", r>>].state # "absent"
    /\ \A v \in Verifiers : v \in withdrawn <=> outbox[<<"withdrawn", v>>].state # "absent"

\* A call that was made names what it is about; only one that ended has a result.
CallInv ==
    \A r \in Requests :
        /\ request[r].step # "idle" => /\ request[r].attestation \in Attestations
                                       /\ request[r].challenge \in Challenges
                                       /\ request[r].manifest \in Manifests
        /\ request[r].result # "none" => request[r].step = "ended"

\* The key is not revoked under those who share it.
KeyInv == \A r \in Requests : HoldsKey(r) => ~ revoked

\* Of the verifiers that a call shares only those are withdrawn that its
\* snapshot says are.
VerifierInv ==
    \A r \in Requests : request[r].step = "selected" =>
        request[r].shares \cap withdrawn \subseteq request[r].withdrawn

Locking == {"validated", "selected"}

\* Under its lock the challenge of a call is as it was validated, and no other
\* call has it.
LockInv ==
    /\ \A r \in Requests : request[r].step \in Locking =>
          challenge[request[r].challenge] = [state |-> "issued", manifest |-> request[r].manifest]
    /\ \A r, s \in Requests :
          /\ request[r].step \in Locking /\ request[s].step \in Locking
          /\ request[r].challenge = request[s].challenge
          => r = s

ReceiptInv ==
    \A a \in Attestations : receipt[a] # NoReceipt =>
        receipt[a].id \in Requests /\ receipt[a].challenge \in Challenges /\ receipt[a].manifest \in Manifests

\* What a call was answered with is what stands.
AnswerInv ==
    \A r \in Requests : request[r].result = "receipt" =>
        LET a == request[r].attestation
        IN  /\ receipt[a] # NoReceipt
            /\ receipt[a].id = request[r].receipt
            /\ receipt[a].manifest = request[r].manifest

IInv ==
    /\ TypeOK
    /\ AuditInv
    /\ UnwrittenInv
    /\ CallInv
    /\ KeyInv
    /\ VerifierInv
    /\ LockInv
    /\ ReceiptInv
    /\ ConsumedOnce
    /\ AnswerInv

-----------------------------------------------------------------------------
(* The audit outbox *)

\* A row that is written for the first time.
LEMMA EmitStep ==
    ASSUME AuditTypeOK, AuditInv, NEW e \in Events, outbox[e].state = "absent", Emit(e),
           UNCHANGED <<log, pass>>, disturbances' \in Nat
    PROVE  /\ AuditTypeOK' /\ AuditInv'
           /\ outbox'[e].state = "waiting"
           /\ \A f \in Events : f # e => outbox'[f] = outbox[f]
<1>1. /\ outbox'[e] = [outbox[e] EXCEPT !.state = "waiting"]
      /\ \A f \in Events : f # e => outbox'[f] = outbox[f]
      /\ outbox[e] \in OutboxRow
  BY DEF Emit, AuditTypeOK
<1>2. outbox' \in [Events -> OutboxRow]
  BY <1>1 DEF Emit, AuditTypeOK, OutboxRow
<1>3. AuditTypeOK'
  BY <1>2 DEF AuditTypeOK
<1>4. \A d \in Drainers : e \notin pass[d]
  BY DEF AuditInv
<1>5. outbox'[e].state = "waiting"
  BY <1>1 DEF OutboxRow
<1>6. AuditInv'
  BY <1>1, <1>4, <1>5 DEF AuditInv, AuditTypeOK
<1> QED
  BY <1>1, <1>3, <1>5, <1>6

LEMMA AuditStutter ==
    ASSUME AuditTypeOK, AuditInv, UNCHANGED auditVars, disturbances' \in Nat
    PROVE  AuditTypeOK' /\ AuditInv'
  BY DEF AuditTypeOK, AuditInv, auditVars

\* No step of a pass creates a row or takes one away.
LEMMA DrainSteps ==
    ASSUME AuditTypeOK, AuditInv, DrainStep
    PROVE  /\ AuditTypeOK' /\ AuditInv'
           /\ \A e \in Events : outbox'[e].state = "absent" <=> outbox[e].state = "absent"
<1>1. PICK d \in Drainers : DrainClaim(d) \/ DrainCommit(d) \/ DrainLost(d)
  BY DEF DrainStep
<1>2. CASE DrainClaim(d)
  <2>1. PICK batch \in SUBSET Claimable : pass' = [pass EXCEPT ![d] = batch]
    BY <1>2 DEF DrainClaim
  <2>2. UNCHANGED <<outbox, log, disturbances>> /\ batch \subseteq Events
    BY <1>2 DEF DrainClaim, Claimable
  <2>3. AuditTypeOK'
    BY <2>1, <2>2 DEF AuditTypeOK
  <2>4. AuditInv'
    BY <2>1, <2>2 DEF AuditInv, AuditTypeOK, Claimable
  <2> QED
    BY <2>2, <2>3, <2>4
<1>3. CASE DrainCommit(d)
  <2>1. PICK failed \in SUBSET pass[d] :
           /\ outbox' = [e \in Events |->
                           CASE e \in failed -> [outbox[e] EXCEPT !.attempts = @ + 1]
                             [] e \in pass[d] \ failed -> [outbox[e] EXCEPT !.state = "drained"]
                             [] OTHER -> outbox[e]]
           /\ log' = log \cup (pass[d] \ failed)
    BY <1>3 DEF DrainCommit
  <2>2. pass' = [pass EXCEPT ![d] = {}] /\ UNCHANGED disturbances
    BY <1>3 DEF DrainCommit
  <2>3. \A e \in Events :
           /\ outbox[e] \in OutboxRow
           /\ e \in failed => outbox[e].attempts < MaxWrites /\ outbox'[e] = [outbox[e] EXCEPT !.attempts = @ + 1]
           /\ e \in pass[d] \ failed => outbox'[e] = [outbox[e] EXCEPT !.state = "drained"]
           /\ e \notin pass[d] => outbox'[e] = outbox[e]
    BY <2>1 DEF AuditInv, AuditTypeOK
  <2>4. \A e \in Events :
           /\ outbox'[e] \in OutboxRow
           /\ e \in failed => outbox'[e].state = outbox[e].state
           /\ e \in pass[d] \ failed => outbox'[e].state = "drained"
    <3> SUFFICES ASSUME NEW e \in Events
                 PROVE  /\ outbox'[e] \in OutboxRow
                        /\ e \in failed => outbox'[e].state = outbox[e].state
                        /\ e \in pass[d] \ failed => outbox'[e].state = "drained"
      OBVIOUS
    <3>1. CASE e \in failed
      <4>1. outbox[e].attempts \in 0 .. MaxWrites /\ outbox[e].state \in {"absent", "waiting", "drained"}
        BY <2>3 DEF OutboxRow
      <4>2. outbox[e].attempts < MaxWrites /\ outbox'[e] = [outbox[e] EXCEPT !.attempts = @ + 1]
        BY <2>3, <3>1
      <4>3. outbox[e].attempts + 1 \in 0 .. MaxWrites
        BY <4>1, <4>2, AuditAssumption
      <4>4. outbox'[e] = [state |-> outbox[e].state, attempts |-> outbox[e].attempts + 1]
        BY <2>3, <4>2 DEF OutboxRow
      <4> QED
        BY <3>1, <4>1, <4>3, <4>4 DEF OutboxRow
    <3>2. CASE e \in pass[d] \ failed
      BY <2>3, <3>2 DEF OutboxRow
    <3>3. CASE e \notin pass[d]
      BY <2>3, <3>3
    <3> QED
      BY <3>1, <3>2, <3>3
  <2>5. AuditTypeOK'
    <3>1. outbox' \in [Events -> OutboxRow]
      BY <2>1, <2>4
    <3>2. log' \subseteq Events
      BY <2>1 DEF AuditTypeOK
    <3> QED
      BY <2>2, <3>1, <3>2 DEF AuditTypeOK
  <2>6. AuditInv'
    <3>1. \A c \in Drainers : \A e \in pass'[c] : c # d /\ e \in pass[c] /\ e \notin pass[d] /\ e \in Events
      BY <2>2 DEF AuditInv, AuditTypeOK
    <3>2. \A c \in Drainers : \A e \in pass'[c] : outbox'[e].state = "waiting" /\ outbox'[e].attempts < MaxWrites
      BY <2>3, <3>1 DEF AuditInv
    <3>3. \A b, c \in Drainers : \A e \in Events : e \in pass'[b] /\ e \in pass'[c] => b = c
      BY <3>1 DEF AuditInv
    <3>4. \A e \in Events : e \in log' <=> outbox'[e].state = "drained"
      <4> SUFFICES ASSUME NEW e \in Events PROVE e \in log' <=> outbox'[e].state = "drained"
        OBVIOUS
      <4>1. CASE e \in failed
        BY <2>1, <2>4, <4>1 DEF AuditInv
      <4>2. CASE e \in pass[d] \ failed
        BY <2>1, <2>4, <4>2 DEF AuditInv
      <4>3. CASE e \notin pass[d]
        BY <2>1, <2>3, <4>3 DEF AuditInv
      <4> QED
        BY <4>1, <4>2, <4>3
    <3> QED
      BY <3>2, <3>3, <3>4 DEF AuditInv
  <2>7. \A e \in Events : outbox'[e].state = "absent" <=> outbox[e].state = "absent"
    BY <2>3, <2>4 DEF AuditInv
  <2> QED
    BY <2>5, <2>6, <2>7
<1>4. CASE DrainLost(d)
  <2>1. pass' = [pass EXCEPT ![d] = {}] /\ disturbances' = disturbances + 1 /\ UNCHANGED <<outbox, log>>
    BY <1>4 DEF DrainLost, Disturb
  <2>2. AuditTypeOK'
    BY <2>1 DEF AuditTypeOK
  <2>3. AuditInv'
    BY <2>1 DEF AuditInv, AuditTypeOK
  <2> QED
    BY <2>1, <2>2, <2>3
<1> QED
  BY <1>1, <1>2, <1>3, <1>4

-----------------------------------------------------------------------------
(* Steps that change one call and nothing else *)

\* What the new record of a call has to satisfy.
Admissible(r, q) ==
    /\ q \in Request
    /\ q.step # "idle" => q.attestation \in Attestations /\ q.challenge \in Challenges /\ q.manifest \in Manifests
    /\ q.result # "none" => q.step = "ended"
    /\ q.result = "unverified" <=> request[r].result = "unverified"
    /\ q.step \in {"verified", "validated", "selected"} => ~ revoked
    /\ q.step = "selected" => q.shares \cap withdrawn \subseteq q.withdrawn
    /\ q.step \in Locking => /\ challenge[q.challenge] = [state |-> "issued", manifest |-> q.manifest]
                             /\ \A s \in Requests \ {r} : ~ HoldsChallenge(s, q.challenge)
    /\ q.result = "receipt" => /\ receipt[q.attestation] # NoReceipt
                               /\ receipt[q.attestation].id = q.receipt
                               /\ receipt[q.attestation].manifest = q.manifest

LEMMA CallStep ==
    ASSUME IInv, NEW r \in Requests, NEW q, Admissible(r, q), request' = [request EXCEPT ![r] = q],
           UNCHANGED <<challenge, trustVars, receipt, auditVars>>, disturbances' \in Nat
    PROVE  IInv'
<1>1. /\ request'[r] = q
      /\ \A s \in Requests : s # r => request'[s] = request[s]
      /\ request' \in [Requests -> Request]
  BY DEF IInv, TypeOK, Admissible
<1>2. TypeOK' /\ AuditInv'
  BY <1>1, AuditStutter DEF IInv, TypeOK, trustVars
<1>3. UnwrittenInv'
  BY <1>1 DEF IInv, UnwrittenInv, Admissible, auditVars, trustVars
<1>4. CallInv'
  BY <1>1 DEF IInv, CallInv, Admissible
<1>5. KeyInv' /\ VerifierInv'
  BY <1>1 DEF IInv, KeyInv, VerifierInv, HoldsKey, Admissible, trustVars
<1>6. LockInv'
  <2>1. \A s \in Requests : request'[s].step \in Locking =>
           challenge'[request'[s].challenge] = [state |-> "issued", manifest |-> request'[s].manifest]
    BY <1>1 DEF IInv, LockInv, Admissible
  <2>2. ASSUME NEW s \in Requests, NEW u \in Requests, request'[s].step \in Locking,
               request'[u].step \in Locking, request'[s].challenge = request'[u].challenge
        PROVE  s = u
    BY <1>1, <2>2 DEF IInv, LockInv, Admissible, HoldsChallenge, Locking
  <2> QED
    BY <2>1, <2>2 DEF LockInv
<1>7. ReceiptInv' /\ ConsumedOnce'
  BY DEF IInv, ReceiptInv, ConsumedOnce
<1>8. AnswerInv'
  BY <1>1 DEF IInv, AnswerInv, Admissible
<1> QED
  BY <1>2, <1>3, <1>4, <1>5, <1>6, <1>7, <1>8 DEF IInv

\* The record that End leaves.
Ended(r, result, id) ==
    [Asked(r) EXCEPT !.step = "ended", !.result = result, !.receipt = id]

LEMMA UncalledFacts == Uncalled \in Request /\ NoRow \in Row /\ NoReceipt \in Receipt
  BY ResolutionAssumption DEF Uncalled, Request, NoRow, Row, Steps, NoReceipt, Receipt, Bundle

LEMMA AskedFacts ==
    ASSUME IInv, NEW r \in Requests, request[r].step \notin {"idle", "ended"}
    PROVE  /\ Asked(r) \in Request
           /\ Asked(r).attestation = request[r].attestation
           /\ Asked(r).challenge = request[r].challenge
           /\ Asked(r).manifest = request[r].manifest
           /\ Asked(r).result = request[r].result
<1>1. /\ request[r] \in Request /\ request[r].result = "none"
      /\ request[r].attestation \in Attestations
      /\ request[r].challenge \in Challenges
      /\ request[r].manifest \in Manifests
  BY DEF IInv, TypeOK, CallInv
<1> QED
  BY <1>1, UncalledFacts DEF Asked, Uncalled, Request

LEMMA EndedFacts ==
    ASSUME IInv, NEW r \in Requests, NEW result, NEW id \in Requests \cup {None},
           result \in {"receipt", "conflict", "unverified", "duplicate", "exhausted", "lost"},
           request[r].step # "idle"
    PROVE  /\ Ended(r, result, id) \in Request
           /\ Ended(r, result, id).step = "ended"
           /\ Ended(r, result, id).attestation = request[r].attestation
           /\ Ended(r, result, id).attestation \in Attestations
           /\ Ended(r, result, id).challenge = request[r].challenge
           /\ Ended(r, result, id).challenge \in Challenges
           /\ Ended(r, result, id).manifest = request[r].manifest
           /\ Ended(r, result, id).manifest \in Manifests
           /\ Ended(r, result, id).result = result
           /\ Ended(r, result, id).receipt = id
<1>1. /\ request[r] \in Request
      /\ request[r].attestation \in Attestations
      /\ request[r].challenge \in Challenges
      /\ request[r].manifest \in Manifests
  BY DEF IInv, TypeOK, CallInv
<1> QED
  BY <1>1, UncalledFacts DEF Ended, Asked, Uncalled, Request, Steps

\* A call that ends without an effect.
LEMMA EndStep ==
    ASSUME IInv, NEW r \in Requests, NEW result, NEW id \in Requests \cup {None},
           result \in {"receipt", "conflict", "duplicate", "exhausted", "lost"},
           request[r].step \notin {"idle", "ended"}, End(r, result, id),
           result = "receipt" => /\ receipt[request[r].attestation] # NoReceipt
                                 /\ receipt[request[r].attestation].id = id
                                 /\ receipt[request[r].attestation].manifest = request[r].manifest,
           UNCHANGED <<challenge, trustVars, receipt, auditVars>>, disturbances' \in Nat
    PROVE  IInv'
<1>1. request' = [request EXCEPT ![r] = Ended(r, result, id)]
  BY DEF End, Ended
<1>2. request[r].result = "none"
  BY DEF IInv, CallInv
<1>3. Admissible(r, Ended(r, result, id))
  BY <1>2, EndedFacts DEF Admissible, Locking
<1> QED
  BY <1>1, <1>3, CallStep

LEMMA CallPreserves ==
    ASSUME IInv, NEW r \in Requests, NEW a \in Attestations, NEW c \in Challenges, NEW m \in Manifests, Call(r, a, c, m)
    PROVE  IInv'
<1> DEFINE q == [Uncalled EXCEPT !.step = "attempt", !.attestation = a, !.challenge = c, !.manifest = m, !.attempts = 1]
<1>1. /\ q \in Request /\ q.step = "attempt" /\ q.result = "none"
      /\ q.attestation = a /\ q.challenge = c /\ q.manifest = m
  <2>1. 1 \in 0 .. MaxAttempts
    BY ResolutionAssumption
  <2> QED
    BY <2>1, UncalledFacts DEF Uncalled, Request, Steps
<1>2. request[r].result = "none"
  BY DEF IInv, CallInv, Call
<1>3. Admissible(r, q)
  BY <1>1, <1>2 DEF Admissible, Locking
<1>4. request' = [request EXCEPT ![r] = q] /\ disturbances' \in Nat /\ UNCHANGED <<challenge, trustVars, receipt, auditVars>>
  BY DEF Call, IInv, TypeOK, AuditTypeOK
<1> QED
  BY <1>3, <1>4, CallStep

\* A call that goes on with another step.
LEMMA ProceedStep ==
    ASSUME IInv, NEW r \in Requests, NEW q \in Request, request' = [request EXCEPT ![r] = q],
           request[r].step \notin {"idle", "ended"},
           q.attestation = request[r].attestation, q.challenge = request[r].challenge,
           q.manifest = request[r].manifest, q.result = request[r].result,
           q.step \in {"verified", "validated", "selected"} => ~ revoked,
           q.step = "selected" => q.shares \cap withdrawn \subseteq q.withdrawn,
           q.step \in Locking => /\ challenge[q.challenge] = [state |-> "issued", manifest |-> q.manifest]
                                 /\ \A s \in Requests \ {r} : ~ HoldsChallenge(s, q.challenge),
           UNCHANGED <<challenge, trustVars, receipt, disturbances, auditVars>>
    PROVE  IInv'
<1>1. /\ request[r].attestation \in Attestations
      /\ request[r].challenge \in Challenges
      /\ request[r].manifest \in Manifests
      /\ request[r].result = "none"
  BY DEF IInv, CallInv
<1>2. Admissible(r, q)
  BY <1>1 DEF Admissible
<1>3. disturbances' \in Nat
  BY DEF IInv, TypeOK, AuditTypeOK
<1> QED
  BY <1>2, <1>3, CallStep

LEMMA SerializationFailurePreserves ==
    ASSUME IInv, NEW r \in Requests, SerializationFailure(r), request[r].step \in {"replayed", "verified", "validated"},
           UNCHANGED <<challenge, trustVars, receipt, disturbances, auditVars>>
    PROVE  IInv'
<1>1. request[r] \in Request
  BY DEF IInv, TypeOK
<1>2. CASE request[r].attempts < MaxAttempts
  <2> DEFINE q == [Asked(r) EXCEPT !.step = "attempt", !.attempts = request[r].attempts + 1]
  <2>1. request[r].attempts + 1 \in 0 .. MaxAttempts
    <3>1. request[r].attempts \in 0 .. MaxAttempts
      BY <1>1 DEF Request
    <3> QED
      BY <1>2, <3>1, ResolutionAssumption
  <2>2. /\ q \in Request /\ q.step = "attempt"
        /\ q.attestation = request[r].attestation /\ q.challenge = request[r].challenge
        /\ q.manifest = request[r].manifest /\ q.result = request[r].result
    BY <2>1, AskedFacts DEF Request, Steps
  <2>3. request' = [request EXCEPT ![r] = q]
    BY <1>2 DEF SerializationFailure
  <2> QED
    BY <2>2, <2>3, ProceedStep DEF Locking
<1>3. CASE ~ (request[r].attempts < MaxAttempts)
  <2>1. End(r, "exhausted", None) /\ disturbances' \in Nat
    BY <1>3 DEF SerializationFailure, IInv, TypeOK, AuditTypeOK
  <2> QED
    BY <2>1, EndStep
<1> QED
  BY <1>2, <1>3

LEMMA ReplayPreserves ==
    ASSUME IInv, NEW r \in Requests, Replay(r)
    PROVE  IInv'
<1> DEFINE found == receipt[request[r].attestation]
<1>1. /\ request[r] \in Request /\ request[r].step = "attempt"
      /\ request[r].attestation \in Attestations /\ request[r].challenge \in Challenges
      /\ UNCHANGED <<challenge, trustVars, receipt, disturbances, auditVars>> /\ disturbances' \in Nat
      /\ found \in Receipt /\ challenge[request[r].challenge] \in Row
  BY DEF IInv, TypeOK, AuditTypeOK, CallInv, Replay
<1>2. CASE /\ found = NoReceipt
           /\ request' = [request EXCEPT ![r].step = "replayed", ![r].row = challenge[request[r].challenge],
                                         ![r].revoked = revoked, ![r].withdrawn = withdrawn]
  <2> DEFINE q == [request[r] EXCEPT !.step = "replayed", !.row = challenge[request[r].challenge],
                                     !.revoked = revoked, !.withdrawn = withdrawn]
  <2>1. /\ q \in Request /\ q.step = "replayed"
        /\ q.attestation = request[r].attestation /\ q.challenge = request[r].challenge
        /\ q.manifest = request[r].manifest /\ q.result = request[r].result
    BY <1>1 DEF Request, Steps, IInv, TypeOK
  <2>2. request' = [request EXCEPT ![r] = q]
    BY <1>2 DEF IInv, TypeOK
  <2> QED
    BY <1>1, <2>1, <2>2, ProceedStep DEF Locking
<1>3. CASE found # NoReceipt /\ End(r, "conflict", None)
  BY <1>1, <1>3, EndStep
<1>4. CASE found # NoReceipt /\ found.manifest = request[r].manifest /\ End(r, "receipt", found.id)
  <2>1. found.id \in Requests \cup {None}
    BY <1>1 DEF Receipt
  <2> QED
    BY <1>1, <1>4, <2>1, EndStep
<1> QED
  BY <1>2, <1>3, <1>4 DEF Replay

LEMMA RejectPreserves ==
    ASSUME IInv, NEW r \in Requests, Reject(r), request[r].step \notin {"idle", "ended"},
           UNCHANGED <<challenge, trustVars, receipt, disturbances, auditVars>>
    PROVE  IInv'
<1> DEFINE q == [Asked(r) EXCEPT !.step = "refusing"]
<1>1. /\ q \in Request /\ q.step = "refusing"
      /\ q.attestation = request[r].attestation /\ q.challenge = request[r].challenge
      /\ q.manifest = request[r].manifest /\ q.result = request[r].result
  BY AskedFacts DEF Request, Steps
<1>2. request' = [request EXCEPT ![r] = q]
  BY DEF Reject
<1> QED
  BY <1>1, <1>2, ProceedStep DEF Locking

LEMMA VerifyPreserves ==
    ASSUME IInv, NEW r \in Requests, Verify(r)
    PROVE  IInv'
<1>1. request[r].step = "replayed" /\ UNCHANGED <<challenge, trustVars, receipt, disturbances, auditVars>>
  BY DEF Verify
<1>2. CASE SerializationFailure(r)
  BY <1>1, <1>2, SerializationFailurePreserves
<1>3. CASE Reject(r)
  BY <1>1, <1>3, RejectPreserves
<1>4. CASE ~ revoked /\ request' = [request EXCEPT ![r].step = "verified"]
  <2> DEFINE q == [request[r] EXCEPT !.step = "verified"]
  <2>1. /\ q \in Request /\ q.step = "verified"
        /\ q.attestation = request[r].attestation /\ q.challenge = request[r].challenge
        /\ q.manifest = request[r].manifest /\ q.result = request[r].result
    BY DEF IInv, TypeOK, Request, Steps
  <2>2. request' = [request EXCEPT ![r] = q]
    BY <1>4 DEF IInv, TypeOK
  <2> QED
    BY <1>1, <1>4, <2>1, <2>2, ProceedStep DEF Locking
<1> QED
  BY <1>2, <1>3, <1>4 DEF Verify

LEMMA ValidatePreserves ==
    ASSUME IInv, NEW r \in Requests, Validate(r)
    PROVE  IInv'
<1>1. /\ request[r].step = "verified" /\ ChallengeFree(request[r].challenge)
      /\ UNCHANGED <<challenge, trustVars, receipt, disturbances, auditVars>>
  BY DEF Validate
<1>2. CASE SerializationFailure(r)
  BY <1>1, <1>2, SerializationFailurePreserves
<1>3. CASE Reject(r)
  BY <1>1, <1>3, RejectPreserves
<1>4. CASE /\ challenge[request[r].challenge] = [state |-> "issued", manifest |-> request[r].manifest]
           /\ request' = [request EXCEPT ![r].step = "validated"]
  <2> DEFINE q == [request[r] EXCEPT !.step = "validated"]
  <2>1. /\ q \in Request /\ q.step = "validated"
        /\ q.attestation = request[r].attestation /\ q.challenge = request[r].challenge
        /\ q.manifest = request[r].manifest /\ q.result = request[r].result
    BY DEF IInv, TypeOK, Request, Steps
  <2>2. request' = [request EXCEPT ![r] = q]
    BY <1>4 DEF IInv, TypeOK
  <2>3. ~ revoked
    BY <1>1 DEF IInv, KeyInv, HoldsKey
  <2>4. \A s \in Requests \ {r} : ~ HoldsChallenge(s, q.challenge)
    BY <1>1, <2>1 DEF ChallengeFree
  <2> QED
    BY <1>1, <1>4, <2>1, <2>2, <2>3, <2>4, ProceedStep
<1> QED
  BY <1>2, <1>3, <1>4 DEF Validate

\* The verifiers are locked as the snapshot has them; the key and the challenge
\* were locked before.
LEMMA SelectPreserves ==
    ASSUME IInv, NEW r \in Requests, Select(r)
    PROVE  IInv'
<1>1. /\ request[r].step = "validated"
      /\ UNCHANGED <<challenge, trustVars, receipt, disturbances, auditVars>>
  BY DEF Select
<1>2. CASE SerializationFailure(r)
  BY <1>1, <1>2, SerializationFailurePreserves
<1>3. ASSUME NEW selected \in SUBSET Verifiers, selected \cap (withdrawn \ request[r].withdrawn) = {},
             request' = [request EXCEPT ![r].step = "selected", ![r].shares = selected]
      PROVE  IInv'
  <2> DEFINE q == [request[r] EXCEPT !.step = "selected", !.shares = selected]
  <2>1. /\ q \in Request /\ q.step = "selected" /\ q.shares = selected /\ q.withdrawn = request[r].withdrawn
        /\ q.attestation = request[r].attestation /\ q.challenge = request[r].challenge
        /\ q.manifest = request[r].manifest /\ q.result = request[r].result
    BY DEF IInv, TypeOK, Request, Steps
  <2>2. request' = [request EXCEPT ![r] = q]
    BY <1>3 DEF IInv, TypeOK
  <2>3. ~ revoked
    BY <1>1 DEF IInv, KeyInv, HoldsKey
  <2>4. q.shares \cap withdrawn \subseteq q.withdrawn
    BY <1>3, <2>1
  <2>5. /\ challenge[q.challenge] = [state |-> "issued", manifest |-> q.manifest]
        /\ \A s \in Requests \ {r} : ~ HoldsChallenge(s, q.challenge)
    BY <1>1, <2>1 DEF IInv, LockInv, Locking, HoldsChallenge
  <2> QED
    BY <1>1, <2>1, <2>2, <2>3, <2>4, <2>5, ProceedStep
<1> QED
  BY <1>2, <1>3 DEF Select

LEMMA LosePreserves ==
    ASSUME IInv, NEW r \in Requests, Lose(r)
    PROVE  IInv'
<1>1. disturbances' \in Nat
  BY DEF Lose, Disturb, IInv, TypeOK, AuditTypeOK
<1> QED
  BY <1>1, EndStep DEF Lose

-----------------------------------------------------------------------------
(* Steps with an effect *)

LEMMA EventFacts ==
    /\ \A c \in Challenges : <<"issued", c>> \in Events /\ <<"purged", c>> \in Events
    /\ \A a \in Attestations : <<"resolved", a>> \in Events
    /\ \A r \in Requests : <<"refused", r>> \in Events
    /\ \A v \in Verifiers : <<"withdrawn", v>> \in Events
  BY ResolutionAssumption

\* A challenge row that changes under no lock, with no receipt on it before or after.
LEMMA RowStep ==
    ASSUME IInv, NEW c \in Challenges, NEW row \in Row, challenge' = [challenge EXCEPT ![c] = row],
           challenge[c].state # "consumed", row.state # "consumed", ChallengeFree(c),
           UNCHANGED <<trustVars, receipt, request>>, AuditTypeOK', AuditInv', UnwrittenInv'
    PROVE  IInv'
<1>1. /\ challenge'[c] = row
      /\ \A d \in Challenges : d # c => challenge'[d] = challenge[d]
      /\ challenge' \in [Challenges -> Row]
  BY DEF IInv, TypeOK
<1>2. TypeOK'
  BY <1>1 DEF IInv, TypeOK, trustVars
<1>3. CallInv' /\ KeyInv' /\ VerifierInv' /\ ReceiptInv' /\ AnswerInv'
  BY DEF IInv, CallInv, KeyInv, HoldsKey, VerifierInv, ReceiptInv, AnswerInv, trustVars
<1>4. LockInv'
  <2>1. \A r \in Requests : request[r].step \in Locking => request[r].challenge # c /\ request[r].challenge \in Challenges
    BY DEF ChallengeFree, HoldsChallenge, Locking, IInv, CallInv
  <2> QED
    BY <1>1, <2>1 DEF IInv, LockInv
<1>5. ConsumedOnce'
  BY <1>1 DEF IInv, ConsumedOnce
<1> QED
  BY <1>2, <1>3, <1>4, <1>5 DEF IInv

LEMMA IssuePreserves ==
    ASSUME IInv, NEW c \in Challenges, NEW m \in Manifests, Issue(c, m)
    PROVE  IInv'
<1> DEFINE row == [state |-> "issued", manifest |-> m]
<1> DEFINE e == <<"issued", c>>
<1>1. /\ challenge' = [challenge EXCEPT ![c] = row] /\ row \in Row
      /\ challenge[c].state = "absent"
      /\ UNCHANGED <<trustVars, receipt, request, disturbances>> /\ disturbances' \in Nat
  BY DEF Issue, Row, IInv, TypeOK, AuditTypeOK
<1>2. e \in Events /\ outbox[e].state = "absent"
  BY <1>1, EventFacts DEF IInv, UnwrittenInv
<1>3. /\ AuditTypeOK' /\ AuditInv'
      /\ outbox'[e].state = "waiting"
      /\ \A f \in Events : f # e => outbox'[f] = outbox[f]
  BY <1>1, <1>2, EmitStep DEF Issue, IInv, TypeOK
<1>4. ChallengeFree(c)
  <2> SUFFICES ASSUME NEW r \in Requests, request[r].step \in Locking, request[r].challenge = c PROVE FALSE
    BY DEF ChallengeFree, HoldsChallenge, Locking
  <2>1. challenge[c] = [state |-> "issued", manifest |-> request[r].manifest]
    BY DEF IInv, LockInv
  <2> QED
    BY <1>1, <2>1
<1>5. UnwrittenInv'
  <2>1. /\ challenge'[c] = row
        /\ \A d \in Challenges : d # c => challenge'[d] = challenge[d]
    BY <1>1 DEF IInv, TypeOK
  <2>2. \A d \in Challenges : challenge'[d].state = "absent" => outbox'[<<"issued", d>>].state = "absent"
    <3> SUFFICES ASSUME NEW d \in Challenges, challenge'[d].state = "absent"
                 PROVE  outbox'[<<"issued", d>>].state = "absent"
      OBVIOUS
    <3>1. d # c
      BY <2>1
    <3>2. outbox'[<<"issued", d>>] = outbox[<<"issued", d>>]
      BY <1>3, <3>1, EventFacts
    <3> QED
      BY <2>1, <3>1, <3>2 DEF IInv, UnwrittenInv
  <2>3. \A d \in Challenges : outbox'[<<"purged", d>>] = outbox[<<"purged", d>>]
    BY <1>3, EventFacts
  <2>4. \A d \in Challenges : challenge'[d].state # "purged" => outbox'[<<"purged", d>>].state = "absent"
    BY <1>1, <2>1, <2>3 DEF IInv, UnwrittenInv
  <2>5. \A a \in Attestations : outbox'[<<"resolved", a>>] = outbox[<<"resolved", a>>]
    BY <1>3, EventFacts
  <2>6. \A r \in Requests : outbox'[<<"refused", r>>] = outbox[<<"refused", r>>]
    BY <1>3, EventFacts
  <2>7. \A v \in Verifiers : outbox'[<<"withdrawn", v>>] = outbox[<<"withdrawn", v>>]
    BY <1>3, EventFacts
  <2> QED
    BY <1>1, <2>2, <2>4, <2>5, <2>6, <2>7 DEF IInv, UnwrittenInv, trustVars
<1> QED
  BY <1>1, <1>3, <1>4, <1>5, RowStep

LEMMA PurgePreserves ==
    ASSUME IInv, NEW c \in Challenges, Purge(c)
    PROVE  IInv'
<1> DEFINE row == [challenge[c] EXCEPT !.state = "purged"]
<1> DEFINE e == <<"purged", c>>
<1>1. /\ challenge' = [challenge EXCEPT ![c] = row] /\ row \in Row /\ row.state = "purged"
      /\ challenge[c].state = "issued" /\ ChallengeFree(c)
      /\ UNCHANGED <<trustVars, receipt, request, disturbances>> /\ disturbances' \in Nat
  BY DEF Purge, Row, IInv, TypeOK, AuditTypeOK
<1>2. e \in Events /\ outbox[e].state = "absent"
  BY <1>1, EventFacts DEF IInv, UnwrittenInv
<1>3. /\ AuditTypeOK' /\ AuditInv'
      /\ outbox'[e].state = "waiting"
      /\ \A f \in Events : f # e => outbox'[f] = outbox[f]
  BY <1>1, <1>2, EmitStep DEF Purge, IInv, TypeOK
<1>4. UnwrittenInv'
  <2>1. /\ challenge'[c] = row
        /\ \A d \in Challenges : d # c => challenge'[d] = challenge[d]
    BY <1>1 DEF IInv, TypeOK
  <2>2. \A d \in Challenges : outbox'[<<"issued", d>>] = outbox[<<"issued", d>>]
    BY <1>3, EventFacts
  <2>3. \A d \in Challenges : challenge'[d].state = "absent" => outbox'[<<"issued", d>>].state = "absent"
    BY <1>1, <2>1, <2>2 DEF IInv, UnwrittenInv
  <2>4. \A d \in Challenges : challenge'[d].state # "purged" => outbox'[<<"purged", d>>].state = "absent"
    BY <1>1, <1>3, <2>1, EventFacts DEF IInv, UnwrittenInv
  <2>5. \A a \in Attestations : outbox'[<<"resolved", a>>] = outbox[<<"resolved", a>>]
    BY <1>3, EventFacts
  <2>6. \A r \in Requests : outbox'[<<"refused", r>>] = outbox[<<"refused", r>>]
    BY <1>3, EventFacts
  <2>7. \A v \in Verifiers : outbox'[<<"withdrawn", v>>] = outbox[<<"withdrawn", v>>]
    BY <1>3, EventFacts
  <2> QED
    BY <1>1, <2>3, <2>4, <2>5, <2>6, <2>7 DEF IInv, UnwrittenInv, trustVars
<1> QED
  BY <1>1, <1>3, <1>4, RowStep

LEMMA FallsLatePreserves ==
    ASSUME IInv, NEW c \in Challenges, FallsLate(c)
    PROVE  IInv'
<1>1. AuditTypeOK' /\ AuditInv' /\ UnwrittenInv'
  <2>1. disturbances' \in Nat
    BY DEF FallsLate, Disturb, IInv, TypeOK, AuditTypeOK
  <2> QED
    BY <2>1, AuditStutter DEF FallsLate, IInv, TypeOK, UnwrittenInv, auditVars
<1>2. TypeOK'
  BY <1>1 DEF FallsLate, IInv, TypeOK
<1>3. CallInv' /\ KeyInv' /\ VerifierInv' /\ LockInv'
  BY DEF FallsLate, IInv, CallInv, KeyInv, HoldsKey, VerifierInv, LockInv
<1> QED
  BY <1>1, <1>2, <1>3 DEF FallsLate, IInv, ReceiptInv, ConsumedOnce, AnswerInv

LEMMA RevokePreserves ==
    ASSUME IInv, Revoke
    PROVE  IInv'
<1>1. AuditTypeOK' /\ AuditInv' /\ UnwrittenInv'
  <2>1. disturbances' \in Nat
    BY DEF Revoke, Disturb, IInv, TypeOK, AuditTypeOK
  <2> QED
    BY <2>1, AuditStutter DEF Revoke, IInv, TypeOK, UnwrittenInv, auditVars
<1>2. TypeOK'
  BY <1>1 DEF Revoke, IInv, TypeOK
<1>3. KeyInv'
  BY DEF Revoke, KeyFree, HoldsKey, KeyInv
<1>4. CallInv' /\ VerifierInv' /\ LockInv'
  BY DEF Revoke, IInv, CallInv, VerifierInv, LockInv
<1> QED
  BY <1>1, <1>2, <1>3, <1>4 DEF Revoke, IInv, ReceiptInv, ConsumedOnce, AnswerInv

\* A withdrawal waits for the calls that share the verifier.
LEMMA WithdrawPreserves ==
    ASSUME IInv, NEW v \in Verifiers, Withdraw(v)
    PROVE  IInv'
<1> DEFINE e == <<"withdrawn", v>>
<1>1. /\ v \notin withdrawn /\ VerifierFree(v) /\ withdrawn' = withdrawn \cup {v}
      /\ UNCHANGED <<challenge, late, revoked, receipt, request, log, pass>> /\ Emit(e)
      /\ disturbances' \in Nat
  BY DEF Withdraw, Disturb, IInv, TypeOK, AuditTypeOK
<1>2. e \in Events /\ outbox[e].state = "absent"
  BY <1>1, EventFacts DEF IInv, UnwrittenInv
<1>3. /\ AuditTypeOK' /\ AuditInv'
      /\ outbox'[e].state = "waiting"
      /\ \A f \in Events : f # e => outbox'[f] = outbox[f]
  BY <1>1, <1>2, EmitStep DEF IInv, TypeOK
<1>4. UnwrittenInv'
  <2>1. \A c \in Challenges : outbox'[<<"issued", c>>] = outbox[<<"issued", c>>]
    BY <1>3, EventFacts
  <2>2. \A c \in Challenges : outbox'[<<"purged", c>>] = outbox[<<"purged", c>>]
    BY <1>3, EventFacts
  <2>3. \A a \in Attestations : outbox'[<<"resolved", a>>] = outbox[<<"resolved", a>>]
    BY <1>3, EventFacts
  <2>4. \A r \in Requests : outbox'[<<"refused", r>>] = outbox[<<"refused", r>>]
    BY <1>3, EventFacts
  <2>5. \A u \in Verifiers : u # v => outbox'[<<"withdrawn", u>>] = outbox[<<"withdrawn", u>>]
    BY <1>3, EventFacts
  <2>6. \A u \in Verifiers : u \in withdrawn' <=> outbox'[<<"withdrawn", u>>].state # "absent"
    BY <1>1, <1>3, <2>5 DEF IInv, UnwrittenInv
  <2> QED
    BY <1>1, <2>1, <2>2, <2>3, <2>4, <2>6 DEF IInv, UnwrittenInv
<1>5. TypeOK'
  BY <1>1, <1>3 DEF IInv, TypeOK
<1>6. VerifierInv'
  BY <1>1 DEF IInv, VerifierInv, VerifierFree, HoldsVerifier
<1>7. CallInv' /\ KeyInv' /\ LockInv'
  BY <1>1 DEF IInv, CallInv, KeyInv, HoldsKey, LockInv
<1> QED
  BY <1>1, <1>3, <1>4, <1>5, <1>6, <1>7 DEF IInv, ReceiptInv, ConsumedOnce, AnswerInv

LEMMA DrainPreserves ==
    ASSUME IInv, DrainStep, UNCHANGED <<challenge, trustVars, receipt, request>>
    PROVE  IInv'
<1>1. /\ AuditTypeOK' /\ AuditInv'
      /\ \A e \in Events : outbox'[e].state = "absent" <=> outbox[e].state = "absent"
  BY DrainSteps DEF IInv, TypeOK
<1>2. UnwrittenInv'
  BY <1>1, EventFacts DEF IInv, UnwrittenInv, trustVars
<1>3. TypeOK'
  BY <1>1 DEF IInv, TypeOK, trustVars
<1>4. CallInv' /\ KeyInv' /\ VerifierInv' /\ LockInv'
  BY DEF IInv, CallInv, KeyInv, HoldsKey, VerifierInv, LockInv, trustVars
<1> QED
  BY <1>1, <1>2, <1>3, <1>4 DEF IInv, ReceiptInv, ConsumedOnce, AnswerInv

LEMMA RefusePreserves ==
    ASSUME IInv, NEW r \in Requests, Refuse(r)
    PROVE  IInv'
<1> DEFINE q == Ended(r, "unverified", None)
<1> DEFINE e == <<"refused", r>>
<1>1. /\ request[r].step = "refusing" /\ request' = [request EXCEPT ![r] = q]
      /\ UNCHANGED <<challenge, trustVars, receipt, disturbances, log, pass>> /\ disturbances' \in Nat
  BY DEF Refuse, End, Ended, IInv, TypeOK, AuditTypeOK
<1>2. /\ q \in Request /\ q.step = "ended" /\ q.result = "unverified"
      /\ q.attestation \in Attestations /\ q.challenge \in Challenges /\ q.manifest \in Manifests
  BY <1>1, EndedFacts
<1>3. /\ request'[r] = q
      /\ \A s \in Requests : s # r => request'[s] = request[s]
      /\ request' \in [Requests -> Request]
  BY <1>1, <1>2 DEF IInv, TypeOK
<1>4. e \in Events /\ outbox[e].state = "absent"
  <2>1. request[r].result = "none"
    BY <1>1 DEF IInv, CallInv
  <2> QED
    BY <2>1, EventFacts DEF IInv, UnwrittenInv
<1>5. /\ AuditTypeOK' /\ AuditInv'
      /\ outbox'[e].state = "waiting"
      /\ \A f \in Events : f # e => outbox'[f] = outbox[f]
  BY <1>1, <1>4, EmitStep DEF Refuse, IInv, TypeOK
<1>6. UnwrittenInv'
  <2>1. \A c \in Challenges : outbox'[<<"issued", c>>] = outbox[<<"issued", c>>]
    BY <1>5, EventFacts
  <2>2. \A c \in Challenges : outbox'[<<"purged", c>>] = outbox[<<"purged", c>>]
    BY <1>5, EventFacts
  <2>3. \A a \in Attestations : outbox'[<<"resolved", a>>] = outbox[<<"resolved", a>>]
    BY <1>5, EventFacts
  <2>4. \A s \in Requests : s # r => outbox'[<<"refused", s>>] = outbox[<<"refused", s>>]
    BY <1>5, EventFacts
  <2>5. \A s \in Requests : request'[s].result = "unverified" <=> outbox'[<<"refused", s>>].state # "absent"
    BY <1>2, <1>3, <1>5, <2>4 DEF IInv, UnwrittenInv
  <2>6. \A v \in Verifiers : outbox'[<<"withdrawn", v>>] = outbox[<<"withdrawn", v>>]
    BY <1>5, EventFacts
  <2> QED
    BY <1>1, <2>1, <2>2, <2>3, <2>5, <2>6 DEF IInv, UnwrittenInv, trustVars
<1>7. TypeOK'
  BY <1>1, <1>3, <1>5 DEF IInv, TypeOK, trustVars
<1>8. CallInv' /\ KeyInv' /\ VerifierInv' /\ LockInv'
  BY <1>1, <1>2, <1>3 DEF IInv, CallInv, KeyInv, HoldsKey, VerifierInv, LockInv, Locking, trustVars
<1>9. ReceiptInv' /\ ConsumedOnce' /\ AnswerInv'
  BY <1>1, <1>2, <1>3 DEF IInv, ReceiptInv, ConsumedOnce, AnswerInv
<1> QED
  BY <1>5, <1>6, <1>7, <1>8, <1>9 DEF IInv

\* The commit that is answered with a new receipt: the lock on the challenge
\* says that no receipt stands on it, and the unwritten row that none was
\* written for the attestation.
LEMMA ReceiptPreserves ==
    ASSUME IInv, NEW r \in Requests, Commit(r), receipt[request[r].attestation] = NoReceipt
    PROVE  IInv'
<1> DEFINE a == request[r].attestation
<1> DEFINE c == request[r].challenge
<1> DEFINE m == request[r].manifest
<1> DEFINE q == Ended(r, "receipt", r)
<1> DEFINE e == <<"resolved", a>>
<1>0. PICK bundle \in Bundles(request[r]) :
         receipt' = [receipt EXCEPT ![a] = [id |-> r, challenge |-> c, manifest |-> m, bundle |-> bundle]]
  BY DEF Commit
<1> DEFINE new == [id |-> r, challenge |-> c, manifest |-> m, bundle |-> bundle]
<1>1. /\ request[r].step = "selected"
      /\ receipt' = [receipt EXCEPT ![a] = new]
      /\ challenge' = [challenge EXCEPT ![c].state = "consumed"]
      /\ Emit(e)
      /\ request' = [request EXCEPT ![r] = q]
      /\ UNCHANGED <<trustVars, disturbances, log, pass>> /\ disturbances' \in Nat
  BY <1>0 DEF Commit, End, Ended, IInv, TypeOK, AuditTypeOK
<1>2. a \in Attestations /\ c \in Challenges /\ m \in Manifests
  BY <1>1 DEF IInv, CallInv
<1>3. /\ q \in Request /\ q.step = "ended" /\ q.result = "receipt" /\ q.receipt = r
      /\ q.attestation = a /\ q.challenge = c /\ q.manifest = m
  BY <1>1, EndedFacts
<1>4. /\ request'[r] = q
      /\ \A s \in Requests : s # r => request'[s] = request[s]
      /\ request' \in [Requests -> Request]
  BY <1>1, <1>3 DEF IInv, TypeOK
<1>5. challenge[c] = [state |-> "issued", manifest |-> m]
  BY <1>1 DEF IInv, LockInv, Locking
<1>6. /\ challenge'[c] = [state |-> "consumed", manifest |-> m]
      /\ \A d \in Challenges : d # c => challenge'[d] = challenge[d]
      /\ challenge' \in [Challenges -> Row]
  BY <1>1, <1>2, <1>5 DEF IInv, TypeOK, Row
<1>7. /\ receipt'[a] = new /\ new # NoReceipt /\ new \in Receipt
      /\ \A b \in Attestations : b # a => receipt'[b] = receipt[b]
      /\ receipt' \in [Attestations -> Receipt]
  <2>1. new # NoReceipt
    BY <1>2, ResolutionAssumption DEF NoReceipt
  <2>2. new \in Receipt
    <3>1. request[r].shares \subseteq Verifiers
      BY DEF IInv, TypeOK, Request
    <3> QED
      BY <1>2, <3>1 DEF Receipt, Bundle, Bundles
  <2> QED
    BY <1>1, <1>2, <2>1, <2>2 DEF IInv, TypeOK
<1>8. e \in Events /\ outbox[e].state = "absent"
  BY <1>2, EventFacts DEF IInv, UnwrittenInv
<1>9. /\ AuditTypeOK' /\ AuditInv'
      /\ outbox'[e].state = "waiting"
      /\ \A f \in Events : f # e => outbox'[f] = outbox[f]
  BY <1>1, <1>8, EmitStep DEF IInv, TypeOK
<1>10. UnwrittenInv'
  <2>1. \A d \in Challenges : outbox'[<<"issued", d>>] = outbox[<<"issued", d>>]
    BY <1>9, EventFacts
  <2>2. \A d \in Challenges : outbox'[<<"purged", d>>] = outbox[<<"purged", d>>]
    BY <1>9, EventFacts
  <2>3. \A b \in Attestations : b # a => outbox'[<<"resolved", b>>] = outbox[<<"resolved", b>>]
    BY <1>9, EventFacts
  <2>4. \A s \in Requests : outbox'[<<"refused", s>>] = outbox[<<"refused", s>>]
    BY <1>9, EventFacts
  <2>5. \A d \in Challenges : challenge'[d].state = "absent" => challenge[d].state = "absent"
    BY <1>6
  <2>6. \A d \in Challenges : challenge'[d].state # "purged" => challenge[d].state # "purged"
    BY <1>5, <1>6
  <2>7. \A d \in Challenges : challenge'[d].state = "absent" => outbox'[<<"issued", d>>].state = "absent"
    BY <2>1, <2>5 DEF IInv, UnwrittenInv
  <2>8. \A d \in Challenges : challenge'[d].state # "purged" => outbox'[<<"purged", d>>].state = "absent"
    BY <2>2, <2>6 DEF IInv, UnwrittenInv
  <2>9. \A b \in Attestations : receipt'[b] # NoReceipt <=> outbox'[<<"resolved", b>>].state # "absent"
    <3> SUFFICES ASSUME NEW b \in Attestations
                 PROVE  receipt'[b] # NoReceipt <=> outbox'[<<"resolved", b>>].state # "absent"
      OBVIOUS
    <3>1. CASE b = a
      BY <1>7, <1>9, <3>1
    <3>2. CASE b # a
      BY <1>7, <2>3, <3>2 DEF IInv, UnwrittenInv
    <3> QED
      BY <3>1, <3>2
  <2>10. request[r].result = "none"
    BY <1>1 DEF IInv, CallInv
  <2>11. \A s \in Requests : request'[s].result = "unverified" <=> request[s].result = "unverified"
    BY <1>3, <1>4, <2>10
  <2>12. \A s \in Requests : request'[s].result = "unverified" <=> outbox'[<<"refused", s>>].state # "absent"
    BY <2>4, <2>11 DEF IInv, UnwrittenInv
  <2>13. \A v \in Verifiers : v \in withdrawn' <=> outbox'[<<"withdrawn", v>>].state # "absent"
    BY <1>1, <1>9, EventFacts DEF IInv, UnwrittenInv, trustVars
  <2> QED
    BY <2>7, <2>8, <2>9, <2>12, <2>13 DEF UnwrittenInv
<1>11. TypeOK'
  BY <1>1, <1>4, <1>6, <1>7, <1>9 DEF IInv, TypeOK, trustVars
<1>12. CallInv' /\ KeyInv' /\ VerifierInv'
  BY <1>1, <1>2, <1>3, <1>4 DEF IInv, CallInv, KeyInv, HoldsKey, VerifierInv, trustVars
<1>13. LockInv'
  <2>1. ASSUME NEW s \in Requests, request'[s].step \in Locking
        PROVE  s # r /\ request'[s] = request[s] /\ request[s].challenge # c /\ request[s].challenge \in Challenges
    <3>1. s # r /\ request'[s] = request[s]
      BY <1>3, <1>4, <2>1 DEF Locking
    <3> QED
      BY <1>1, <2>1, <3>1 DEF IInv, LockInv, CallInv, Locking
  <2>2. \A s \in Requests : request'[s].step \in Locking =>
           challenge'[request'[s].challenge] = [state |-> "issued", manifest |-> request'[s].manifest]
    BY <1>6, <2>1 DEF IInv, LockInv
  <2> QED
    BY <2>1, <2>2 DEF IInv, LockInv
<1>14. ReceiptInv'
  BY <1>2, <1>7 DEF IInv, ReceiptInv
<1>15. ConsumedOnce'
  <2>1. \A b \in Attestations : receipt[b].challenge # c
    BY <1>2, <1>5 DEF IInv, ConsumedOnce
  <2>2. \A b \in Attestations : b # a => receipt'[b].challenge = receipt[b].challenge
    BY <1>7
  <2>3. receipt'[a].challenge = c
    BY <1>7
  <2>4. receipt[a].challenge \notin Challenges
    BY ResolutionAssumption DEF NoReceipt
  <2> SUFFICES ASSUME NEW d \in Challenges
               PROVE  /\ challenge'[d].state = "consumed" <=> \E b \in Attestations : receipt'[b].challenge = d
                      /\ \A b, b2 \in Attestations : receipt'[b].challenge = d /\ receipt'[b2].challenge = d => b = b2
    BY Zenon DEF ConsumedOnce
  <2>5. CASE d = c
    BY <1>2, <1>6, <2>1, <2>2, <2>3, <2>5
  <2>6. CASE d # c
    <3>1. \A b \in Attestations : receipt'[b].challenge = d <=> receipt[b].challenge = d
      BY <2>2, <2>3, <2>4, <2>6
    <3>2. challenge'[d] = challenge[d]
      BY <1>6, <2>6
    <3> QED
      BY <3>1, <3>2 DEF IInv, ConsumedOnce
  <2> QED
    BY <2>5, <2>6
<1>16. AnswerInv'
  <2> SUFFICES ASSUME NEW s \in Requests, request'[s].result = "receipt"
               PROVE  /\ receipt'[request'[s].attestation] # NoReceipt
                      /\ receipt'[request'[s].attestation].id = request'[s].receipt
                      /\ receipt'[request'[s].attestation].manifest = request'[s].manifest
    BY DEF AnswerInv
  <2>1. CASE s = r
    BY <1>3, <1>4, <1>7, <2>1
  <2>2. CASE s # r
    <3>1. request'[s] = request[s] /\ request[s].result = "receipt"
      BY <1>4, <2>2
    <3>2. request[s].attestation \in Attestations
      BY <3>1 DEF IInv, CallInv
    <3>3. receipt[request[s].attestation] # NoReceipt
      BY <3>1 DEF IInv, AnswerInv
    <3>4. receipt'[request[s].attestation] = receipt[request[s].attestation]
      BY <1>7, <3>2, <3>3
    <3> QED
      BY <3>1, <3>4 DEF IInv, AnswerInv
  <2> QED
    BY <2>1, <2>2
<1> QED
  BY <1>9, <1>10, <1>11, <1>12, <1>13, <1>14, <1>15, <1>16 DEF IInv

LEMMA CommitPreserves ==
    ASSUME IInv, NEW r \in Requests, Commit(r)
    PROVE  IInv'
<1>1. CASE receipt[request[r].attestation] = NoReceipt
  BY <1>1, ReceiptPreserves
<1>2. CASE receipt[request[r].attestation] # NoReceipt
  <2>1. /\ request[r].step = "selected" /\ End(r, "duplicate", None)
        /\ UNCHANGED <<challenge, trustVars, receipt, auditVars>> /\ disturbances' \in Nat
    BY <1>2 DEF Commit, auditVars, IInv, TypeOK, AuditTypeOK
  <2> QED
    BY <2>1, EndStep
<1> QED
  BY <1>1, <1>2

-----------------------------------------------------------------------------
(* Theorems *)

LEMMA InitEstablishes == Init => IInv
<1> SUFFICES ASSUME Init PROVE IInv
  OBVIOUS
<1>1. AuditTypeOK /\ AuditInv
  <2>1. Unwritten \in OutboxRow /\ Unwritten.state = "absent"
    BY AuditAssumption DEF Unwritten, OutboxRow
  <2> QED
    BY <2>1 DEF Init, AuditInit, AuditTypeOK, AuditInv
<1>2. TypeOK
  BY <1>1, UncalledFacts DEF Init, TypeOK
<1>3. \A e \in Events : outbox[e].state = "absent"
  BY DEF Init, AuditInit, Unwritten
<1>4. \A r \in Requests : request[r].step = "idle" /\ request[r].result = "none"
  BY DEF Init, Uncalled
<1>5. UnwrittenInv
  BY <1>3, <1>4, EventFacts DEF Init, UnwrittenInv
<1>6. CallInv /\ KeyInv /\ VerifierInv /\ LockInv /\ AnswerInv
  BY <1>4 DEF CallInv, KeyInv, HoldsKey, VerifierInv, LockInv, Locking, AnswerInv
<1>7. ReceiptInv /\ ConsumedOnce
  BY ResolutionAssumption DEF Init, ReceiptInv, ConsumedOnce, NoReceipt, NoRow
<1> QED
  BY <1>1, <1>2, <1>5, <1>6, <1>7 DEF IInv

LEMMA NextPreserves == IInv /\ [Next]_vars => IInv'
<1> SUFFICES ASSUME IInv, [Next]_vars PROVE IInv'
  OBVIOUS
<1>1. CASE UNCHANGED vars
  <2>1. disturbances' \in Nat /\ UNCHANGED auditVars /\ UNCHANGED <<challenge, trustVars, receipt, request>>
    BY <1>1 DEF vars, IInv, TypeOK, AuditTypeOK
  <2>2. AuditTypeOK' /\ AuditInv' /\ TypeOK' /\ UnwrittenInv'
    BY <2>1, AuditStutter DEF IInv, TypeOK, UnwrittenInv, trustVars, auditVars
  <2>3. CallInv' /\ KeyInv' /\ VerifierInv' /\ LockInv'
    BY <2>1 DEF IInv, CallInv, KeyInv, HoldsKey, VerifierInv, LockInv, trustVars
  <2> QED
    BY <2>1, <2>2, <2>3 DEF IInv, ReceiptInv, ConsumedOnce, AnswerInv
<1>2. CASE \E c \in Challenges : (\E m \in Manifests : Issue(c, m)) \/ FallsLate(c) \/ Purge(c)
  BY <1>2, IssuePreserves, FallsLatePreserves, PurgePreserves
<1>3. CASE Revoke
  BY <1>3, RevokePreserves
<1>4. CASE \E r \in Requests : \E a \in Attestations, c \in Challenges, m \in Manifests : Call(r, a, c, m)
  BY <1>4, CallPreserves
<1>5. CASE \E r \in Requests : Step(r) \/ Lose(r)
  BY <1>5, ReplayPreserves, VerifyPreserves, ValidatePreserves, SelectPreserves,
     CommitPreserves, RefusePreserves, LosePreserves DEF Step
<1>6. CASE DrainStep /\ UNCHANGED <<challenge, trustVars, receipt, request>>
  BY <1>6, DrainPreserves
<1>7. CASE \E v \in Verifiers : Withdraw(v)
  BY <1>7, WithdrawPreserves
<1> QED
  BY <1>1, <1>2, <1>3, <1>4, <1>5, <1>6, <1>7 DEF Next

\* The strengthened invariant, for all of the theorems below.
THEOREM Invariance == Spec => []IInv
  BY InitEstablishes, NextPreserves, PTL DEF Spec

\* Every variable of resolve_context and of the audit drain keeps its type, and
\* no audit row is charged past max_attempts.
THEOREM TypeCorrect == Spec => []TypeOK
<1>1. IInv => TypeOK
  BY DEF IInv
<1> QED
  BY <1>1, Invariance, PTL

\* A challenge is consumed exactly when one receipt stands on it, whatever calls
\* of resolve race for it, are refused, are lost or run again.
THEOREM ConsumedOnceTheorem == Spec => []ConsumedOnce
<1>1. IInv => ConsumedOnce
  BY DEF IInv
<1> QED
  BY <1>1, Invariance, PTL

\* Two calls of resolve that are answered for one attestation have the same
\* receipt and asked for the same manifest.
THEOREM RetryTheorem == Spec => []RetryGetsTheReceipt
<1>1. IInv => RetryGetsTheReceipt
  BY DEF IInv, AnswerInv, RetryGetsTheReceipt
<1> QED
  BY <1>1, Invariance, PTL

\* audit_log has the rows that were drained; a receipt has its row, and an
\* answered refusal has its row although its transaction was rolled back.
THEOREM TrailTheorem == Spec => []TrailIsComplete
<1>1. IInv => TrailIsComplete
  BY DEF IInv, AuditInv, UnwrittenInv, TrailIsComplete
<1> QED
  BY <1>1, Invariance, PTL

\* No step writes a receipt once the key that signed for it is revoked.
THEOREM RevocationTheorem == Spec => RevocationLinearizes
<1>1. IInv /\ [Next]_vars =>
         [\A a \in Attestations : receipt[a] = NoReceipt /\ receipt'[a] # NoReceipt => ~ revoked]_vars
  <2> SUFFICES ASSUME IInv, Next, NEW a \in Attestations, receipt[a] = NoReceipt, receipt'[a] # NoReceipt
               PROVE  ~ revoked
    OBVIOUS
  <2>1. PICK r \in Requests : Commit(r)
    BY DEF Next, Issue, FallsLate, Purge, Revoke, Withdraw, Call, Step, Replay, Verify, Validate, Select, Refuse, Lose
  <2> QED
    BY <2>1 DEF Commit, IInv, KeyInv, HoldsKey
<1> QED
  BY <1>1, Invariance, PTL DEF Spec, RevocationLinearizes

\* No step writes a receipt whose bundle is not blocked and carries what a
\* verifier vouched for that is revoked by then.
THEOREM VouchedTheorem == Spec => ServesWhatIsVouched
<1>1. IInv /\ [Next]_vars =>
         [\A a \in Attestations :
            receipt[a] = NoReceipt /\ ~ receipt'[a].bundle.blocked => receipt'[a].bundle.carries \cap withdrawn = {}]_vars
  <2> SUFFICES ASSUME IInv, Next, NEW a \in Attestations, receipt[a] = NoReceipt, ~ receipt'[a].bundle.blocked
               PROVE  receipt'[a].bundle.carries \cap withdrawn = {}
    OBVIOUS
  <2>1. CASE receipt' = receipt
    BY <2>1 DEF NoReceipt
  <2>2. CASE receipt' # receipt
    <3>1. PICK r \in Requests : Commit(r)
      BY <2>2 DEF Next, Issue, FallsLate, Purge, Revoke, Withdraw, Call, Step, Replay, Verify, Validate, Select, Refuse, Lose
    <3>2. PICK bundle \in Bundles(request[r]) :
             receipt' = [receipt EXCEPT ![request[r].attestation] =
                           [id |-> r, challenge |-> request[r].challenge, manifest |-> request[r].manifest,
                            bundle |-> bundle]]
      BY <2>2, <3>1 DEF Commit
    <3>3. bundle.blocked \/ bundle.carries \cap withdrawn = {}
      BY <3>1 DEF Commit, Bundles, IInv, VerifierInv
    <3>4. receipt'[a] = receipt[a] \/ receipt'[a].bundle = bundle
      BY <3>2 DEF IInv, TypeOK
    <3> QED
      BY <3>3, <3>4 DEF NoReceipt
  <2> QED
    BY <2>1, <2>2
<1> QED
  BY <1>1, Invariance, PTL DEF Spec, ServesWhatIsVouched

=============================================================================
