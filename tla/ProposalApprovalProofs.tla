------------------------- MODULE ProposalApprovalProofs -------------------------
(***************************************************************************)
(* For every number of versions, challenges, verifiers and overlapping     *)
(* activations: the type invariant, the attempt ceiling, one approval per  *)
(* version, one revision in force, and the gate at the moment of           *)
(* activation.  The strengthening says what a challenge may still be       *)
(* charged, that evidence is never replaced, and what an activation that   *)
(* holds its locks may rely on.                                            *)
(***************************************************************************)
EXTENDS ProposalApproval, TLAPS

\* The counter of a challenge is the number of wrong proofs, and leaves room
\* for one more as long as the challenge is open.
CountInv ==
    \A c \in Challenges :
        /\ guesses[c] = challenge[c].attempts
        /\ challenge[c].state = "absent" => challenge[c].attempts = 0
        /\ challenge[c].state \in {"minting", "issued"} => challenge[c].attempts < MaxAttempts

\* A challenge names a version that was submitted.
ChallengeInv ==
    \A c \in Challenges : challenge[c].state # "absent" =>
        /\ challenge[c].version \in Versions
        /\ version[challenge[c].version].state \notin {"absent", "open"}

\* The requests that are under way, and the evidence they have read.
RequestInv ==
    \A a \in Activators :
        /\ request[a].step # "idle" => request[a].version \in Versions
        /\ request[a].step = "idle" => request[a].evidence = NoChallenge
        /\ request[a].evidence # NoChallenge => evidence[request[a].version] = request[a].evidence

\* One activation at a time holds the locks.
LockInv ==
    \A a, b \in Activators : request[a].step = "locked" /\ request[b].step = "locked" => a = b

\* What an activation found eligible stays so while it holds them.
Relies(a) ==
    LET v == request[a].version
        e == request[a].evidence
    IN  /\ IsLatest(v)
        /\ version[v].state = "approved"
        /\ e # NoChallenge
        /\ challenge[e].digest = version[v].semantics
        /\ challenge[e].verifiers \cap revoked = {}
        /\ version[v].baseline = active

HeldInv == \A a \in Activators : request[a].step = "locked" /\ request[a].eligible => Relies(a)

\* A source transition that has found its dependent has a terminal status for it.
CascadeInv == cascade.found => cascade.status \in {"revoked", "expired"}

IInv ==
    /\ TypeOK
    /\ CountInv
    /\ CascadeInv
    /\ ChallengeInv
    /\ ApprovedOnce
    /\ OneInForce
    /\ RequestInv
    /\ LockInv
    /\ HeldInv

-----------------------------------------------------------------------------
(* The records *)

LEMMA Constants == NoEdit \in Edit /\ NoCascade \in Cascade /\ Idle \in Request /\ Unissued \in Challenge
<1>1. NoEdit \in Edit
  BY ProposalAssumption DEF Edit, NoEdit
<1>2. NoCascade \in Cascade
  BY ProposalAssumption DEF Cascade, NoCascade
<1>3. Idle \in Request
  BY ProposalAssumption DEF Request, Idle
<1>4. Unissued \in Challenge
  BY ProposalAssumption DEF Challenge, Unissued
<1>5. QED
  BY <1>1, <1>2, <1>3, <1>4

\* What create_challenge writes, over a row that is there.
LEMMA MintedChallenge ==
    ASSUME NEW r \in Challenge, NEW v \in 0 .. MaxVersion, NEW K \in SUBSET Verifiers,
           NEW d \in Candidates \cup {NoCandidate}
    PROVE  [r EXCEPT !.state = "minting", !.version = v, !.verifiers = K, !.digest = d] \in Challenge
  BY DEF Challenge

LEMMA LateChallenge == ASSUME NEW r \in Challenge PROVE [r EXCEPT !.late = TRUE] \in Challenge
  BY DEF Challenge

LEMMA ChargedChallenge ==
    ASSUME NEW r \in Challenge, NEW n \in 0 .. MaxAttempts, NEW s \in {"issued", "failed"}
    PROVE  [r EXCEPT !.attempts = n, !.state = s] \in Challenge
  BY DEF Challenge

\* What an activation reads, and what it keeps once it has its locks.
LEMMA ReadingRequest ==
    ASSUME NEW r \in Request, NEW v \in 0 .. MaxVersion, NEW s \in 0 .. MaxVersion,
           NEW e \in Challenges \cup {NoChallenge}
    PROVE  [r EXCEPT !.step = "reading", !.version = v, !.seen = s, !.evidence = e] \in Request
  BY DEF Request

LEMMA LockedRequest ==
    ASSUME NEW r \in Request, NEW p \in BOOLEAN
    PROVE  [r EXCEPT !.step = "locked", !.eligible = p] \in Request
  BY DEF Request

LEMMA EditedVersion ==
    ASSUME NEW r \in Version, NEW d \in Candidates \cup {NoCandidate}
    PROVE  [r EXCEPT !.semantics = d] \in Version
  BY DEF Version

LEMMA MovedRevision ==
    ASSUME NEW r \in Revision, NEW s \in {"active", "superseded", "revoked", "expired"}
    PROVE  [r EXCEPT !.state = s] \in Revision
  BY DEF Revision

LEMMA MovedVersion ==
    ASSUME NEW r \in Version, NEW s \in {"submitted", "approved"} \cup Terminal
    PROVE  [r EXCEPT !.state = s] \in Version
  BY DEF Version, Terminal

LEMMA MovedChallenge ==
    ASSUME NEW r \in Challenge, NEW s \in {"issued", "completed", "superseded", "expired"}
    PROVE  [r EXCEPT !.state = s] \in Challenge
  BY DEF Challenge

-----------------------------------------------------------------------------

\* The type invariant is preserved; a wrong proof needs room in the counter.
LEMMA TypeLemma == TypeOK /\ CountInv /\ CascadeInv /\ [Next]_vars => TypeOK'
<1> SUFFICES ASSUME TypeOK, CountInv, CascadeInv, [Next]_vars PROVE TypeOK'
  OBVIOUS
<1>1. ASSUME NEW v \in Versions, NEW b \in 0 .. MaxVersion, OpenProposal(v, b) PROVE TypeOK'
  <2>1. version' \in [Versions -> Version]
    BY <1>1 DEF OpenProposal, TypeOK, Version, Terminal
  <2>q. QED
    BY <1>1, <2>1 DEF OpenProposal, TypeOK
<1>2. ASSUME NEW v \in Versions, NEW s \in Candidates, EditRead(v, s) PROVE TypeOK'
  <2>1. edit' \in Edit
    BY <1>2 DEF EditRead, TypeOK, Edit, Versions
  <2>q. QED
    BY <1>2, <2>1 DEF EditRead, TypeOK
<1>3. ASSUME EditWrite PROVE TypeOK'
  <2>1. version' \in [Versions -> Version]
    <3>1. edit.semantics \in Candidates \cup {NoCandidate}
      BY DEF TypeOK, Edit
    <3>2. QED
      BY <1>3, <3>1, EditedVersion DEF EditWrite, TypeOK
  <2>2. edit' \in Edit
    BY <1>3, Constants DEF EditWrite
  <2>q. QED
    BY <1>3, <2>1, <2>2 DEF EditWrite, TypeOK
<1>4. ASSUME NEW v \in Versions, Submit(v) PROVE TypeOK'
  <2>1. revision' \in [Versions -> Revision]
    BY <1>4 DEF Submit, TypeOK, Revision, Version
  <2>2. version' \in [Versions -> Version]
    BY <1>4 DEF Submit, TypeOK, Version, Terminal
  <2>q. QED
    BY <1>4, <2>1, <2>2 DEF Submit, TypeOK
<1>5. ASSUME NEW v \in Versions, Decide(v) PROVE TypeOK'
  <2>1. version' \in [Versions -> Version]
    BY <1>5 DEF Decide, Transition, Disturb, TypeOK, Version, Terminal
  <2>2. disturbances' \in Nat
    BY <1>5 DEF Decide, Transition, Disturb, TypeOK
  <2>q. QED
    BY <1>5, <2>1, <2>2 DEF Decide, Transition, Disturb, TypeOK
<1>6. ASSUME NEW v \in Versions, Revoke(v) PROVE TypeOK'
  <2>1. revision' \in [Versions -> Revision]
    BY <1>6 DEF Revoke, Disturb, TypeOK, Revision
  <2>2. disturbances' \in Nat
    BY <1>6 DEF Revoke, Disturb, TypeOK
  <2>q. QED
    BY <1>6, <2>1, <2>2 DEF Revoke, Disturb, TypeOK
<1>7. ASSUME NEW v \in Versions, ReviewExpires(v) PROVE TypeOK'
  <2>1. revision' \in [Versions -> Revision]
    BY <1>7 DEF ReviewExpires, Disturb, TypeOK, Revision
  <2>2. disturbances' \in Nat
    BY <1>7 DEF ReviewExpires, Disturb, TypeOK
  <2>q. QED
    BY <1>7, <2>1, <2>2 DEF ReviewExpires, Disturb, TypeOK
<1>8. ASSUME NEW c \in Challenges, NEW v \in Versions, NEW k \in Verifiers, CreateRead(c, v, k) PROVE TypeOK'
  <2>1. challenge' \in [Challenges -> Challenge]
    <3>1. v \in 0 .. MaxVersion /\ {k} \in SUBSET Verifiers
      BY ProposalAssumption DEF Versions
    <3>2. version[v].semantics \in Candidates \cup {NoCandidate}
      BY DEF TypeOK, Version
    <3>3. [Unissued EXCEPT !.state = "minting", !.version = v, !.verifiers = {k},
                           !.digest = version[v].semantics] \in Challenge
      BY <3>1, <3>2, Constants, MintedChallenge
    <3>4. QED
      BY <1>8, <3>3 DEF CreateRead, TypeOK
  <2>q. QED
    BY <1>8, <2>1 DEF CreateRead, TypeOK
<1>9. ASSUME NEW c \in Challenges, CreateInsert(c) PROVE TypeOK'
  <2>1. challenge' \in [Challenges -> Challenge]
    BY <1>9 DEF CreateInsert, TypeOK, Challenge
  <2>q. QED
    BY <1>9, <2>1 DEF CreateInsert, TypeOK
<1>10. ASSUME NEW c \in Challenges, FallsLate(c) PROVE TypeOK'
  <2>1. challenge' \in [Challenges -> Challenge]
    BY <1>10, LateChallenge DEF FallsLate, Disturb, TypeOK
  <2>2. disturbances' \in Nat
    BY <1>10 DEF FallsLate, Disturb, TypeOK
  <2>q. QED
    BY <1>10, <2>1, <2>2 DEF FallsLate, Disturb, TypeOK
<1>11. ASSUME NEW c \in Challenges, CompleteWrong(c) PROVE TypeOK'
  <2>1. challenge' \in [Challenges -> Challenge]
    <3>1. challenge[c].attempts + 1 \in 0 .. MaxAttempts
      BY <1>11, ProposalAssumption DEF CompleteWrong, TypeOK, CountInv, Challenge
    <3> DEFINE s == IF challenge[c].attempts + 1 >= MaxAttempts THEN "failed" ELSE "issued"
    <3>2. challenge' = [challenge EXCEPT ![c] = [challenge[c] EXCEPT !.attempts = challenge[c].attempts + 1,
                                                                    !.state = s]]
      BY <1>11 DEF CompleteWrong, TypeOK, Challenge
    <3>3. s \in {"issued", "failed"}
      OBVIOUS
    <3> HIDE DEF s
    <3>4. [challenge[c] EXCEPT !.attempts = challenge[c].attempts + 1, !.state = s] \in Challenge
      BY <3>1, <3>3, ChargedChallenge DEF TypeOK
    <3>5. QED
      BY <3>2, <3>4 DEF TypeOK
  <2>2. guesses' \in [Challenges -> Nat]
    BY <1>11 DEF CompleteWrong, TypeOK
  <2>q. QED
    BY <1>11, <2>1, <2>2 DEF CompleteWrong, TypeOK
<1>12. ASSUME NEW c \in Challenges, CompleteValid(c) PROVE TypeOK'
  <2>1. version' \in [Versions -> Version]
    <3>1. \/ version' = version
          \/ version' = [version EXCEPT ![challenge[c].version].state = "approved"]
      BY <1>12 DEF CompleteValid
    <3>2. QED
      BY <3>1, MovedVersion DEF TypeOK
  <2>2. evidence' \in [Versions -> Challenges \cup {NoChallenge}]
    <3>1. \/ evidence' = evidence
          \/ evidence' = [evidence EXCEPT ![challenge[c].version] = c]
      BY <1>12 DEF CompleteValid
    <3>2. QED
      BY <3>1 DEF TypeOK
  <2>3. challenge' \in [Challenges -> Challenge]
    <3>1. PICK s \in {"completed", "superseded"} : challenge' = [challenge EXCEPT ![c].state = s]
      BY <1>12 DEF CompleteValid
    <3>2. QED
      BY <3>1, MovedChallenge DEF TypeOK
  <2>q. QED
    BY <1>12, <2>1, <2>2, <2>3 DEF CompleteValid, TypeOK
<1>13. ASSUME NEW c \in Challenges, CompleteLate(c) PROVE TypeOK'
  <2>1. challenge' \in [Challenges -> Challenge]
    BY <1>13, MovedChallenge DEF CompleteLate, TypeOK
  <2>q. QED
    BY <1>13, <2>1 DEF CompleteLate, TypeOK
<1>14. ASSUME NEW a \in Activators, NEW v \in Versions, ActivateRead(a, v) PROVE TypeOK'
  <2>1. request' \in [Activators -> Request]
    <3>1. v \in 0 .. MaxVersion
      BY ProposalAssumption DEF Versions
    <3>2. [Idle EXCEPT !.step = "reading", !.version = v, !.seen = active, !.evidence = evidence[v]] \in Request
      BY <3>1, Constants, ReadingRequest DEF TypeOK
    <3>3. QED
      BY <1>14, <3>2 DEF ActivateRead, TypeOK
  <2>q. QED
    BY <1>14, <2>1 DEF ActivateRead, TypeOK
<1>15. ASSUME NEW a \in Activators, ActivateLock(a) PROVE TypeOK'
  <2>1. request' \in [Activators -> Request]
    <3>1. PICK ok \in BOOLEAN : request' = [request EXCEPT ![a].step = "locked", ![a].eligible = ok]
      BY <1>15 DEF ActivateLock
    <3>2. request' = [request EXCEPT ![a] = [request[a] EXCEPT !.step = "locked", !.eligible = ok]]
      BY <3>1 DEF TypeOK, Request
    <3>3. [request[a] EXCEPT !.step = "locked", !.eligible = ok] \in Request
      BY LockedRequest DEF TypeOK
    <3>4. QED
      BY <3>2, <3>3 DEF TypeOK
  <2>q. QED
    BY <1>15, <2>1 DEF ActivateLock, TypeOK
<1>16. ASSUME NEW a \in Activators, ActivateCommit(a) PROVE TypeOK'
  <2>1. revision' \in [Versions -> Revision]
    BY <1>16 DEF ActivateCommit, TypeOK, Revision
  <2>2. active' \in 0 .. MaxVersion
    BY <1>16 DEF ActivateCommit, TypeOK, Request
  <2>3. version' \in [Versions -> Version]
    BY <1>16 DEF ActivateCommit, TypeOK, Version, Terminal
  <2>4. request' \in [Activators -> Request]
    BY <1>16, Constants DEF ActivateCommit, TypeOK
  <2>q. QED
    BY <1>16, <2>1, <2>2, <2>3, <2>4 DEF ActivateCommit, TypeOK
<1>17. ASSUME NEW a \in Activators, ActivateRefused(a) PROVE TypeOK'
  <2>1. request' \in [Activators -> Request]
    BY <1>17, Constants DEF ActivateRefused, TypeOK
  <2>q. QED
    BY <1>17, <2>1 DEF ActivateRefused, TypeOK
<1>18. ASSUME NEW k \in Verifiers, RevokeVerifier(k) PROVE TypeOK'
  <2>1. revoked' \in SUBSET Verifiers
    BY <1>18 DEF RevokeVerifier, Disturb, TypeOK
  <2>2. disturbances' \in Nat
    BY <1>18 DEF RevokeVerifier, Disturb, TypeOK
  <2>q. QED
    BY <1>18, <2>1, <2>2 DEF RevokeVerifier, Disturb, TypeOK
<1>19. ASSUME RetireReducer PROVE TypeOK'
  <2>1. retired' \in SUBSET Versions
    BY <1>19 DEF RetireReducer, Disturb, TypeOK
  <2>2. disturbances' \in Nat
    BY <1>19 DEF RetireReducer, Disturb, TypeOK
  <2>q. QED
    BY <1>19, <2>1, <2>2 DEF RetireReducer, Disturb, TypeOK
<1>20. ASSUME NEW v \in Versions, NEW status \in {"revoked", "expired"}, CascadeRead(v, status) PROVE TypeOK'
  <2>1. cascade' \in Cascade
    BY <1>20 DEF CascadeRead, Disturb, TypeOK, Cascade, Versions
  <2>2. disturbances' \in Nat
    BY <1>20 DEF CascadeRead, Disturb, TypeOK
  <2>q. QED
    BY <1>20, <2>1, <2>2 DEF CascadeRead, Disturb, TypeOK
<1>21. ASSUME CascadeCommit PROVE TypeOK'
  <2>1. source' \in [Versions -> {"current", "revoked", "expired"}]
    BY <1>21 DEF CascadeCommit, TypeOK, Cascade
  <2>2. revision' \in [Versions -> Revision]
    <3>1. CASE cascade.found
      <4>1. cascade.status \in {"revoked", "expired"} \/ cascade.version \notin Versions
        BY <1>21, <3>1 DEF TypeOK, CascadeInv
      <4>2. QED
        BY <1>21, <3>1, <4>1, MovedRevision DEF CascadeCommit, TypeOK
    <3>2. CASE ~ cascade.found
      BY <1>21, <3>2 DEF CascadeCommit, TypeOK
    <3>3. QED
      BY <3>1, <3>2
  <2>3. cascade' \in Cascade
    BY <1>21, Constants DEF CascadeCommit
  <2>q. QED
    BY <1>21, <2>1, <2>2, <2>3 DEF CascadeCommit, TypeOK
<1>22. CASE UNCHANGED vars
  BY <1>22 DEF vars, TypeOK
<1>q. QED
  BY <1>1, <1>2, <1>3, <1>4, <1>5, <1>6, <1>7, <1>8, <1>9, <1>10, <1>11, <1>12, <1>13, <1>14, <1>15, <1>16, <1>17, <1>18, <1>19, <1>20, <1>21, <1>22 DEF Next

\* A wrong proof is counted, and the last one closes the challenge.
LEMMA CountLemma == TypeOK /\ CountInv /\ [Next]_vars => CountInv'
<1> SUFFICES ASSUME TypeOK, CountInv, [Next]_vars PROVE CountInv'
  OBVIOUS
<1>1. ASSUME NEW v \in Versions, NEW b \in 0 .. MaxVersion, OpenProposal(v, b) PROVE CountInv'
  BY <1>1 DEF OpenProposal, CountInv
<1>2. ASSUME NEW v \in Versions, NEW s \in Candidates, EditRead(v, s) PROVE CountInv'
  BY <1>2 DEF EditRead, CountInv
<1>3. ASSUME EditWrite PROVE CountInv'
  BY <1>3 DEF EditWrite, CountInv
<1>4. ASSUME NEW v \in Versions, Submit(v) PROVE CountInv'
  BY <1>4 DEF Submit, CountInv
<1>5. ASSUME NEW v \in Versions, Decide(v) PROVE CountInv'
  BY <1>5 DEF Decide, Transition, Disturb, CountInv
<1>6. ASSUME NEW v \in Versions, Revoke(v) PROVE CountInv'
  BY <1>6 DEF Revoke, Disturb, CountInv
<1>7. ASSUME NEW v \in Versions, ReviewExpires(v) PROVE CountInv'
  BY <1>7 DEF ReviewExpires, Disturb, CountInv
<1>8. ASSUME NEW c \in Challenges, NEW v \in Versions, NEW k \in Verifiers, CreateRead(c, v, k) PROVE CountInv'
  BY <1>8, ProposalAssumption DEF CreateRead, CountInv, TypeOK, Challenge, Unissued
<1>9. ASSUME NEW c \in Challenges, CreateInsert(c) PROVE CountInv'
  BY <1>9 DEF CreateInsert, CountInv, TypeOK, Challenge
<1>10. ASSUME NEW c \in Challenges, FallsLate(c) PROVE CountInv'
  BY <1>10 DEF FallsLate, Disturb, CountInv, TypeOK, Challenge
<1>11. ASSUME NEW c \in Challenges, CompleteWrong(c) PROVE CountInv'
  BY <1>11, ProposalAssumption DEF CompleteWrong, CountInv, TypeOK, Challenge
<1>12. ASSUME NEW c \in Challenges, CompleteValid(c) PROVE CountInv'
  BY <1>12 DEF CompleteValid, CountInv, TypeOK, Challenge
<1>13. ASSUME NEW c \in Challenges, CompleteLate(c) PROVE CountInv'
  BY <1>13 DEF CompleteLate, CountInv, TypeOK, Challenge
<1>14. ASSUME NEW a \in Activators, NEW v \in Versions, ActivateRead(a, v) PROVE CountInv'
  BY <1>14 DEF ActivateRead, CountInv
<1>15. ASSUME NEW a \in Activators, ActivateLock(a) PROVE CountInv'
  BY <1>15 DEF ActivateLock, CountInv
<1>16. ASSUME NEW a \in Activators, ActivateCommit(a) PROVE CountInv'
  BY <1>16 DEF ActivateCommit, CountInv
<1>17. ASSUME NEW a \in Activators, ActivateRefused(a) PROVE CountInv'
  BY <1>17 DEF ActivateRefused, CountInv
<1>18. ASSUME NEW k \in Verifiers, RevokeVerifier(k) PROVE CountInv'
  BY <1>18 DEF RevokeVerifier, Disturb, CountInv
<1>19. ASSUME RetireReducer PROVE CountInv'
  BY <1>19 DEF RetireReducer, Disturb, CountInv
<1>20. ASSUME NEW v \in Versions, NEW status \in {"revoked", "expired"}, CascadeRead(v, status) PROVE CountInv'
  BY <1>20 DEF CascadeRead, Disturb, CountInv
<1>21. ASSUME CascadeCommit PROVE CountInv'
  BY <1>21 DEF CascadeCommit, CountInv
<1>22. CASE UNCHANGED vars
  BY <1>22 DEF vars, CountInv
<1>q. QED
  BY <1>1, <1>2, <1>3, <1>4, <1>5, <1>6, <1>7, <1>8, <1>9, <1>10, <1>11, <1>12, <1>13, <1>14, <1>15, <1>16, <1>17, <1>18, <1>19, <1>20, <1>21, <1>22 DEF Next

\* Only a source transition reads dependents.
LEMMA CascadeLemma == CascadeInv /\ [Next]_vars => CascadeInv'
<1> SUFFICES ASSUME CascadeInv, [Next]_vars PROVE CascadeInv'
  OBVIOUS
<1>1. ASSUME NEW v \in Versions, NEW b \in 0 .. MaxVersion, OpenProposal(v, b) PROVE CascadeInv'
  BY <1>1 DEF OpenProposal, CascadeInv
<1>2. ASSUME NEW v \in Versions, NEW s \in Candidates, EditRead(v, s) PROVE CascadeInv'
  BY <1>2 DEF EditRead, CascadeInv
<1>3. ASSUME EditWrite PROVE CascadeInv'
  BY <1>3 DEF EditWrite, CascadeInv
<1>4. ASSUME NEW v \in Versions, Submit(v) PROVE CascadeInv'
  BY <1>4 DEF Submit, CascadeInv
<1>5. ASSUME NEW v \in Versions, Decide(v) PROVE CascadeInv'
  BY <1>5 DEF Decide, Transition, Disturb, CascadeInv
<1>6. ASSUME NEW v \in Versions, Revoke(v) PROVE CascadeInv'
  BY <1>6 DEF Revoke, Disturb, CascadeInv
<1>7. ASSUME NEW v \in Versions, ReviewExpires(v) PROVE CascadeInv'
  BY <1>7 DEF ReviewExpires, Disturb, CascadeInv
<1>8. ASSUME NEW c \in Challenges, NEW v \in Versions, NEW k \in Verifiers, CreateRead(c, v, k) PROVE CascadeInv'
  BY <1>8 DEF CreateRead, CascadeInv
<1>9. ASSUME NEW c \in Challenges, CreateInsert(c) PROVE CascadeInv'
  BY <1>9 DEF CreateInsert, CascadeInv
<1>10. ASSUME NEW c \in Challenges, FallsLate(c) PROVE CascadeInv'
  BY <1>10 DEF FallsLate, Disturb, CascadeInv
<1>11. ASSUME NEW c \in Challenges, CompleteWrong(c) PROVE CascadeInv'
  BY <1>11 DEF CompleteWrong, CascadeInv
<1>12. ASSUME NEW c \in Challenges, CompleteValid(c) PROVE CascadeInv'
  BY <1>12 DEF CompleteValid, CascadeInv
<1>13. ASSUME NEW c \in Challenges, CompleteLate(c) PROVE CascadeInv'
  BY <1>13 DEF CompleteLate, CascadeInv
<1>14. ASSUME NEW a \in Activators, NEW v \in Versions, ActivateRead(a, v) PROVE CascadeInv'
  BY <1>14 DEF ActivateRead, CascadeInv
<1>15. ASSUME NEW a \in Activators, ActivateLock(a) PROVE CascadeInv'
  BY <1>15 DEF ActivateLock, CascadeInv
<1>16. ASSUME NEW a \in Activators, ActivateCommit(a) PROVE CascadeInv'
  BY <1>16 DEF ActivateCommit, CascadeInv
<1>17. ASSUME NEW a \in Activators, ActivateRefused(a) PROVE CascadeInv'
  BY <1>17 DEF ActivateRefused, CascadeInv
<1>18. ASSUME NEW k \in Verifiers, RevokeVerifier(k) PROVE CascadeInv'
  BY <1>18 DEF RevokeVerifier, Disturb, CascadeInv
<1>19. ASSUME RetireReducer PROVE CascadeInv'
  BY <1>19 DEF RetireReducer, Disturb, CascadeInv
<1>20. ASSUME NEW v \in Versions, NEW status \in {"revoked", "expired"}, CascadeRead(v, status) PROVE CascadeInv'
  BY <1>20 DEF CascadeRead, Disturb, CascadeInv
<1>21. ASSUME CascadeCommit PROVE CascadeInv'
  BY <1>21 DEF CascadeCommit, CascadeInv, NoCascade
<1>22. CASE UNCHANGED vars
  BY <1>22 DEF vars, CascadeInv
<1>q. QED
  BY <1>1, <1>2, <1>3, <1>4, <1>5, <1>6, <1>7, <1>8, <1>9, <1>10, <1>11, <1>12, <1>13, <1>14, <1>15, <1>16, <1>17, <1>18, <1>19, <1>20, <1>21, <1>22 DEF Next

\* A version never goes back to where no challenge can name it.
LEMMA ChallengeLemma == TypeOK /\ ChallengeInv /\ [Next]_vars => ChallengeInv'
<1> SUFFICES ASSUME TypeOK, ChallengeInv, [Next]_vars PROVE ChallengeInv'
  OBVIOUS
<1>1. ASSUME NEW v \in Versions, NEW b \in 0 .. MaxVersion, OpenProposal(v, b) PROVE ChallengeInv'
  BY <1>1 DEF OpenProposal, ChallengeInv, TypeOK, Challenge, Version
<1>2. ASSUME NEW v \in Versions, NEW s \in Candidates, EditRead(v, s) PROVE ChallengeInv'
  BY <1>2 DEF EditRead, ChallengeInv
<1>3. ASSUME EditWrite PROVE ChallengeInv'
  BY <1>3 DEF EditWrite, ChallengeInv, TypeOK, Challenge, Version
<1>4. ASSUME NEW v \in Versions, Submit(v) PROVE ChallengeInv'
  BY <1>4 DEF Submit, ChallengeInv, TypeOK, Challenge, Version
<1>5. ASSUME NEW v \in Versions, Decide(v) PROVE ChallengeInv'
  <2>1. PICK to \in {"withdrawn", "rejected", "superseded"} :
           /\ version' = [version EXCEPT ![v].state = to]
           /\ to # "superseded" => version[v].state \in {"open", "submitted"}
    BY <1>5 DEF Decide, Transition
  <2>2. UNCHANGED <<challenge, evidence>>
    BY <1>5 DEF Decide, Transition
  <2>3. QED
    BY <2>1, <2>2, ProposalAssumption DEF ChallengeInv, TypeOK, Challenge, Version
<1>6. ASSUME NEW v \in Versions, Revoke(v) PROVE ChallengeInv'
  BY <1>6 DEF Revoke, Disturb, ChallengeInv
<1>7. ASSUME NEW v \in Versions, ReviewExpires(v) PROVE ChallengeInv'
  BY <1>7 DEF ReviewExpires, Disturb, ChallengeInv
<1>8. ASSUME NEW c \in Challenges, NEW v \in Versions, NEW k \in Verifiers, CreateRead(c, v, k) PROVE ChallengeInv'
  BY <1>8 DEF CreateRead, ChallengeInv, TypeOK, Challenge, Version, Unissued
<1>9. ASSUME NEW c \in Challenges, CreateInsert(c) PROVE ChallengeInv'
  BY <1>9 DEF CreateInsert, ChallengeInv, TypeOK, Challenge, Version
<1>10. ASSUME NEW c \in Challenges, FallsLate(c) PROVE ChallengeInv'
  BY <1>10 DEF FallsLate, Disturb, ChallengeInv, TypeOK, Challenge, Version
<1>11. ASSUME NEW c \in Challenges, CompleteWrong(c) PROVE ChallengeInv'
  BY <1>11 DEF CompleteWrong, ChallengeInv, TypeOK, Challenge, Version
<1>12. ASSUME NEW c \in Challenges, CompleteValid(c) PROVE ChallengeInv'
  <2> DEFINE v == challenge[c].version
  <2>1. challenge[c].state = "issued"
    BY <1>12 DEF CompleteValid
  <2>2. CASE /\ version[v].state = "submitted"
             /\ version' = [version EXCEPT ![v].state = "approved"]
             /\ evidence' = [evidence EXCEPT ![v] = c]
             /\ challenge' = [challenge EXCEPT ![c].state = "completed"]
    BY <2>1, <2>2 DEF ChallengeInv, TypeOK, Challenge, Version
  <2>3. CASE /\ challenge' = [challenge EXCEPT ![c].state = "superseded"]
             /\ UNCHANGED <<version, evidence>>
    BY <2>1, <2>3 DEF ChallengeInv, TypeOK, Challenge, Version
  <2>4. QED
    BY <1>12, <2>2, <2>3 DEF CompleteValid
<1>13. ASSUME NEW c \in Challenges, CompleteLate(c) PROVE ChallengeInv'
  BY <1>13 DEF CompleteLate, ChallengeInv, TypeOK, Challenge, Version
<1>14. ASSUME NEW a \in Activators, NEW v \in Versions, ActivateRead(a, v) PROVE ChallengeInv'
  BY <1>14 DEF ActivateRead, ChallengeInv
<1>15. ASSUME NEW a \in Activators, ActivateLock(a) PROVE ChallengeInv'
  BY <1>15 DEF ActivateLock, ChallengeInv
<1>16. ASSUME NEW a \in Activators, ActivateCommit(a) PROVE ChallengeInv'
  BY <1>16 DEF ActivateCommit, ChallengeInv, TypeOK, Challenge, Version
<1>17. ASSUME NEW a \in Activators, ActivateRefused(a) PROVE ChallengeInv'
  BY <1>17 DEF ActivateRefused, ChallengeInv
<1>18. ASSUME NEW k \in Verifiers, RevokeVerifier(k) PROVE ChallengeInv'
  BY <1>18 DEF RevokeVerifier, Disturb, ChallengeInv
<1>19. ASSUME RetireReducer PROVE ChallengeInv'
  BY <1>19 DEF RetireReducer, Disturb, ChallengeInv
<1>20. ASSUME NEW v \in Versions, NEW status \in {"revoked", "expired"}, CascadeRead(v, status) PROVE ChallengeInv'
  BY <1>20 DEF CascadeRead, Disturb, ChallengeInv
<1>21. ASSUME CascadeCommit PROVE ChallengeInv'
  BY <1>21 DEF CascadeCommit, ChallengeInv
<1>22. CASE UNCHANGED vars
  BY <1>22 DEF vars, ChallengeInv
<1>q. QED
  BY <1>1, <1>2, <1>3, <1>4, <1>5, <1>6, <1>7, <1>8, <1>9, <1>10, <1>11, <1>12, <1>13, <1>14, <1>15, <1>16, <1>17, <1>18, <1>19, <1>20, <1>21, <1>22 DEF Next

\* The version that the swap finds submitted has no evidence yet.
LEMMA ApprovedLemma == TypeOK /\ ChallengeInv /\ ApprovedOnce /\ HeldInv /\ [Next]_vars => ApprovedOnce'
<1> SUFFICES ASSUME TypeOK, ChallengeInv, ApprovedOnce, HeldInv, [Next]_vars PROVE ApprovedOnce'
  OBVIOUS
<1>1. ASSUME NEW v \in Versions, NEW b \in 0 .. MaxVersion, OpenProposal(v, b) PROVE ApprovedOnce'
  BY <1>1, ProposalAssumption DEF OpenProposal, ApprovedOnce, ChallengeInv, TypeOK, Challenge, Version
<1>2. ASSUME NEW v \in Versions, NEW s \in Candidates, EditRead(v, s) PROVE ApprovedOnce'
  BY <1>2 DEF EditRead, ApprovedOnce
<1>3. ASSUME EditWrite PROVE ApprovedOnce'
  BY <1>3, ProposalAssumption DEF EditWrite, ApprovedOnce, ChallengeInv, TypeOK, Challenge, Version
<1>4. ASSUME NEW v \in Versions, Submit(v) PROVE ApprovedOnce'
  BY <1>4, ProposalAssumption DEF Submit, ApprovedOnce, ChallengeInv, TypeOK, Challenge, Version
<1>5. ASSUME NEW v \in Versions, Decide(v) PROVE ApprovedOnce'
  <2>1. PICK to \in {"withdrawn", "rejected", "superseded"} :
           /\ version' = [version EXCEPT ![v].state = to]
           /\ to # "superseded" => version[v].state \in {"open", "submitted"}
    BY <1>5 DEF Decide, Transition
  <2>2. UNCHANGED <<challenge, evidence>>
    BY <1>5 DEF Decide, Transition
  <2>3. QED
    BY <2>1, <2>2, ProposalAssumption DEF ApprovedOnce, ChallengeInv, TypeOK, Challenge, Version
<1>6. ASSUME NEW v \in Versions, Revoke(v) PROVE ApprovedOnce'
  BY <1>6 DEF Revoke, Disturb, ApprovedOnce
<1>7. ASSUME NEW v \in Versions, ReviewExpires(v) PROVE ApprovedOnce'
  BY <1>7 DEF ReviewExpires, Disturb, ApprovedOnce
<1>8. ASSUME NEW c \in Challenges, NEW v \in Versions, NEW k \in Verifiers, CreateRead(c, v, k) PROVE ApprovedOnce'
  BY <1>8, ProposalAssumption DEF CreateRead, ApprovedOnce, ChallengeInv, TypeOK, Challenge, Version
<1>9. ASSUME NEW c \in Challenges, CreateInsert(c) PROVE ApprovedOnce'
  BY <1>9, ProposalAssumption DEF CreateInsert, ApprovedOnce, ChallengeInv, TypeOK, Challenge, Version
<1>10. ASSUME NEW c \in Challenges, FallsLate(c) PROVE ApprovedOnce'
  BY <1>10, ProposalAssumption DEF FallsLate, Disturb, ApprovedOnce, ChallengeInv, TypeOK, Challenge, Version
<1>11. ASSUME NEW c \in Challenges, CompleteWrong(c) PROVE ApprovedOnce'
  BY <1>11, ProposalAssumption DEF CompleteWrong, ApprovedOnce, ChallengeInv, TypeOK, Challenge, Version
<1>12. ASSUME NEW c \in Challenges, CompleteValid(c) PROVE ApprovedOnce'
  <2> DEFINE v == challenge[c].version
  <2>1. challenge[c].state = "issued"
    BY <1>12 DEF CompleteValid
  <2>2. CASE /\ version[v].state = "submitted"
             /\ version' = [version EXCEPT ![v].state = "approved"]
             /\ evidence' = [evidence EXCEPT ![v] = c]
             /\ challenge' = [challenge EXCEPT ![c].state = "completed"]
    <3>1. v \in Versions /\ c # NoChallenge
      BY <2>1, ProposalAssumption DEF ChallengeInv
    <3>2. \A d \in Challenges : challenge[d].state = "completed" => challenge[d].version # v
      BY <2>2 DEF ApprovedOnce
    <3>3. \A w \in Versions : evidence[w] # c
      BY <2>1, <3>1 DEF ApprovedOnce
    <3>4. \A d \in Challenges : challenge'[d].version = challenge[d].version
             /\ challenge'[d].state = IF d = c THEN "completed" ELSE challenge[d].state
      BY <2>2 DEF TypeOK, Challenge
    <3>5. \A w \in Versions : version'[w].state = IF w = v THEN "approved" ELSE version[w].state
      BY <2>2 DEF TypeOK, Version
    <3>6. \A w \in Versions : evidence'[w] = IF w = v THEN c ELSE evidence[w]
      BY <2>2 DEF TypeOK
    <3>7. \A w \in Versions : version'[w].state \in {"approved", "activated"} => evidence'[w] # NoChallenge
      BY <3>1, <3>5, <3>6 DEF ApprovedOnce
    <3>8. \A d \in Challenges : challenge'[d].state = "completed" =>
             /\ evidence'[challenge'[d].version] = d
             /\ version'[challenge'[d].version].state \in {"approved", "activated", "superseded", "stale"}
      BY <3>1, <3>2, <3>4, <3>5, <3>6 DEF ApprovedOnce, ChallengeInv
    <3>9. \A w \in Versions : evidence'[w] # NoChallenge => evidence'[w] \in Challenges
      BY <3>6 DEF TypeOK
    <3>10. \A w \in Versions : evidence'[w] # NoChallenge =>
             challenge'[evidence'[w]].version = w /\ challenge'[evidence'[w]].state = "completed"
      BY <3>3, <3>4, <3>6, <3>9 DEF ApprovedOnce
    <3>11. QED
      BY <3>7, <3>8, <3>10 DEF ApprovedOnce
  <2>3. CASE /\ challenge' = [challenge EXCEPT ![c].state = "superseded"]
             /\ UNCHANGED <<version, evidence>>
    BY <2>1, <2>3 DEF ApprovedOnce, ChallengeInv, TypeOK, Challenge, Version
  <2>4. QED
    BY <1>12, <2>2, <2>3 DEF CompleteValid
<1>13. ASSUME NEW c \in Challenges, CompleteLate(c) PROVE ApprovedOnce'
  BY <1>13, ProposalAssumption DEF CompleteLate, ApprovedOnce, ChallengeInv, TypeOK, Challenge, Version
<1>14. ASSUME NEW a \in Activators, NEW v \in Versions, ActivateRead(a, v) PROVE ApprovedOnce'
  BY <1>14 DEF ActivateRead, ApprovedOnce
<1>15. ASSUME NEW a \in Activators, ActivateLock(a) PROVE ApprovedOnce'
  BY <1>15 DEF ActivateLock, ApprovedOnce
<1>16. ASSUME NEW a \in Activators, ActivateCommit(a) PROVE ApprovedOnce'
  BY <1>16, ProposalAssumption DEF ActivateCommit, Commits, HeldInv, Relies, ApprovedOnce, ChallengeInv, TypeOK, Challenge, Version
<1>17. ASSUME NEW a \in Activators, ActivateRefused(a) PROVE ApprovedOnce'
  BY <1>17 DEF ActivateRefused, ApprovedOnce
<1>18. ASSUME NEW k \in Verifiers, RevokeVerifier(k) PROVE ApprovedOnce'
  BY <1>18 DEF RevokeVerifier, Disturb, ApprovedOnce
<1>19. ASSUME RetireReducer PROVE ApprovedOnce'
  BY <1>19 DEF RetireReducer, Disturb, ApprovedOnce
<1>20. ASSUME NEW v \in Versions, NEW status \in {"revoked", "expired"}, CascadeRead(v, status) PROVE ApprovedOnce'
  BY <1>20 DEF CascadeRead, Disturb, ApprovedOnce
<1>21. ASSUME CascadeCommit PROVE ApprovedOnce'
  BY <1>21 DEF CascadeCommit, ApprovedOnce
<1>22. CASE UNCHANGED vars
  BY <1>22 DEF vars, ApprovedOnce
<1>q. QED
  BY <1>1, <1>2, <1>3, <1>4, <1>5, <1>6, <1>7, <1>8, <1>9, <1>10, <1>11, <1>12, <1>13, <1>14, <1>15, <1>16, <1>17, <1>18, <1>19, <1>20, <1>21, <1>22 DEF Next

\* The revision that was in force is the one the family named before the locks.
LEMMA ForceLemma == TypeOK /\ CascadeInv /\ OneInForce /\ [Next]_vars => OneInForce'
<1> SUFFICES ASSUME TypeOK, CascadeInv, OneInForce, [Next]_vars PROVE OneInForce'
  OBVIOUS
<1>1. ASSUME NEW v \in Versions, NEW b \in 0 .. MaxVersion, OpenProposal(v, b) PROVE OneInForce'
  BY <1>1 DEF OpenProposal, OneInForce
<1>2. ASSUME NEW v \in Versions, NEW s \in Candidates, EditRead(v, s) PROVE OneInForce'
  BY <1>2 DEF EditRead, OneInForce
<1>3. ASSUME EditWrite PROVE OneInForce'
  BY <1>3 DEF EditWrite, OneInForce
<1>4. ASSUME NEW v \in Versions, Submit(v) PROVE OneInForce'
  BY <1>4 DEF Submit, OneInForce, TypeOK, Revision
<1>5. ASSUME NEW v \in Versions, Decide(v) PROVE OneInForce'
  BY <1>5 DEF Decide, Transition, Disturb, OneInForce
<1>6. ASSUME NEW v \in Versions, Revoke(v) PROVE OneInForce'
  BY <1>6 DEF Revoke, Disturb, OneInForce, TypeOK, Revision
<1>7. ASSUME NEW v \in Versions, ReviewExpires(v) PROVE OneInForce'
  BY <1>7 DEF ReviewExpires, Disturb, OneInForce, TypeOK, Revision
<1>8. ASSUME NEW c \in Challenges, NEW v \in Versions, NEW k \in Verifiers, CreateRead(c, v, k) PROVE OneInForce'
  BY <1>8 DEF CreateRead, OneInForce
<1>9. ASSUME NEW c \in Challenges, CreateInsert(c) PROVE OneInForce'
  BY <1>9 DEF CreateInsert, OneInForce
<1>10. ASSUME NEW c \in Challenges, FallsLate(c) PROVE OneInForce'
  BY <1>10 DEF FallsLate, Disturb, OneInForce
<1>11. ASSUME NEW c \in Challenges, CompleteWrong(c) PROVE OneInForce'
  BY <1>11 DEF CompleteWrong, OneInForce
<1>12. ASSUME NEW c \in Challenges, CompleteValid(c) PROVE OneInForce'
  BY <1>12 DEF CompleteValid, OneInForce
<1>13. ASSUME NEW c \in Challenges, CompleteLate(c) PROVE OneInForce'
  BY <1>13 DEF CompleteLate, OneInForce
<1>14. ASSUME NEW a \in Activators, NEW v \in Versions, ActivateRead(a, v) PROVE OneInForce'
  BY <1>14 DEF ActivateRead, OneInForce
<1>15. ASSUME NEW a \in Activators, ActivateLock(a) PROVE OneInForce'
  BY <1>15 DEF ActivateLock, OneInForce
<1>16. ASSUME NEW a \in Activators, ActivateCommit(a) PROVE OneInForce'
  BY <1>16 DEF ActivateCommit, OneInForce, TypeOK, Revision, Commits
<1>17. ASSUME NEW a \in Activators, ActivateRefused(a) PROVE OneInForce'
  BY <1>17 DEF ActivateRefused, OneInForce
<1>18. ASSUME NEW k \in Verifiers, RevokeVerifier(k) PROVE OneInForce'
  BY <1>18 DEF RevokeVerifier, Disturb, OneInForce
<1>19. ASSUME RetireReducer PROVE OneInForce'
  BY <1>19 DEF RetireReducer, Disturb, OneInForce
<1>20. ASSUME NEW v \in Versions, NEW status \in {"revoked", "expired"}, CascadeRead(v, status) PROVE OneInForce'
  BY <1>20 DEF CascadeRead, Disturb, OneInForce
<1>21. ASSUME CascadeCommit PROVE OneInForce'
  BY <1>21 DEF CascadeCommit, CascadeInv, OneInForce, TypeOK, Revision
<1>22. CASE UNCHANGED vars
  BY <1>22 DEF vars, OneInForce
<1>q. QED
  BY <1>1, <1>2, <1>3, <1>4, <1>5, <1>6, <1>7, <1>8, <1>9, <1>10, <1>11, <1>12, <1>13, <1>14, <1>15, <1>16, <1>17, <1>18, <1>19, <1>20, <1>21, <1>22 DEF Next

\* The evidence of a version is never replaced.
LEMMA RequestLemma == TypeOK /\ ApprovedOnce /\ RequestInv /\ [Next]_vars => RequestInv'
<1> SUFFICES ASSUME TypeOK, ApprovedOnce, RequestInv, [Next]_vars PROVE RequestInv'
  OBVIOUS
<1>1. ASSUME NEW v \in Versions, NEW b \in 0 .. MaxVersion, OpenProposal(v, b) PROVE RequestInv'
  BY <1>1 DEF OpenProposal, RequestInv
<1>2. ASSUME NEW v \in Versions, NEW s \in Candidates, EditRead(v, s) PROVE RequestInv'
  BY <1>2 DEF EditRead, RequestInv
<1>3. ASSUME EditWrite PROVE RequestInv'
  BY <1>3 DEF EditWrite, RequestInv
<1>4. ASSUME NEW v \in Versions, Submit(v) PROVE RequestInv'
  BY <1>4 DEF Submit, RequestInv
<1>5. ASSUME NEW v \in Versions, Decide(v) PROVE RequestInv'
  BY <1>5 DEF Decide, Transition, Disturb, RequestInv
<1>6. ASSUME NEW v \in Versions, Revoke(v) PROVE RequestInv'
  BY <1>6 DEF Revoke, Disturb, RequestInv
<1>7. ASSUME NEW v \in Versions, ReviewExpires(v) PROVE RequestInv'
  BY <1>7 DEF ReviewExpires, Disturb, RequestInv
<1>8. ASSUME NEW c \in Challenges, NEW v \in Versions, NEW k \in Verifiers, CreateRead(c, v, k) PROVE RequestInv'
  BY <1>8 DEF CreateRead, RequestInv
<1>9. ASSUME NEW c \in Challenges, CreateInsert(c) PROVE RequestInv'
  BY <1>9 DEF CreateInsert, RequestInv
<1>10. ASSUME NEW c \in Challenges, FallsLate(c) PROVE RequestInv'
  BY <1>10 DEF FallsLate, Disturb, RequestInv
<1>11. ASSUME NEW c \in Challenges, CompleteWrong(c) PROVE RequestInv'
  BY <1>11 DEF CompleteWrong, RequestInv
<1>12. ASSUME NEW c \in Challenges, CompleteValid(c) PROVE RequestInv'
  <2> DEFINE v == challenge[c].version
  <2>1. challenge[c].state = "issued"
    BY <1>12 DEF CompleteValid
  <2>2. CASE /\ version[v].state = "submitted"
             /\ version' = [version EXCEPT ![v].state = "approved"]
             /\ evidence' = [evidence EXCEPT ![v] = c]
             /\ challenge' = [challenge EXCEPT ![c].state = "completed"]
    <3>1. v \in Versions => evidence[v] = NoChallenge
      BY <2>2, ProposalAssumption DEF ApprovedOnce, TypeOK
    <3>2. \A w \in Versions : w # v => evidence'[w] = evidence[w]
      BY <2>2 DEF TypeOK
    <3>3. request' = request
      BY <1>12 DEF CompleteValid
    <3>4. \A a \in Activators : request[a].evidence # NoChallenge => request[a].version \in Versions
      BY DEF RequestInv, TypeOK, Request
    <3>5. QED
      BY <3>1, <3>2, <3>3, <3>4 DEF RequestInv
  <2>3. CASE /\ challenge' = [challenge EXCEPT ![c].state = "superseded"]
             /\ UNCHANGED <<version, evidence>>
    BY <1>12, <2>3 DEF CompleteValid, RequestInv
  <2>4. QED
    BY <1>12, <2>2, <2>3 DEF CompleteValid
<1>13. ASSUME NEW c \in Challenges, CompleteLate(c) PROVE RequestInv'
  BY <1>13 DEF CompleteLate, RequestInv
<1>14. ASSUME NEW a \in Activators, NEW v \in Versions, ActivateRead(a, v) PROVE RequestInv'
  BY <1>14 DEF ActivateRead, RequestInv, TypeOK, Request, Idle
<1>15. ASSUME NEW a \in Activators, ActivateLock(a) PROVE RequestInv'
  BY <1>15 DEF ActivateLock, RequestInv, TypeOK, Request
<1>16. ASSUME NEW a \in Activators, ActivateCommit(a) PROVE RequestInv'
  BY <1>16 DEF ActivateCommit, RequestInv, TypeOK, Request, Idle
<1>17. ASSUME NEW a \in Activators, ActivateRefused(a) PROVE RequestInv'
  BY <1>17 DEF ActivateRefused, RequestInv, TypeOK, Request, Idle
<1>18. ASSUME NEW k \in Verifiers, RevokeVerifier(k) PROVE RequestInv'
  BY <1>18 DEF RevokeVerifier, Disturb, RequestInv
<1>19. ASSUME RetireReducer PROVE RequestInv'
  BY <1>19 DEF RetireReducer, Disturb, RequestInv
<1>20. ASSUME NEW v \in Versions, NEW status \in {"revoked", "expired"}, CascadeRead(v, status) PROVE RequestInv'
  BY <1>20 DEF CascadeRead, Disturb, RequestInv
<1>21. ASSUME CascadeCommit PROVE RequestInv'
  BY <1>21 DEF CascadeCommit, RequestInv
<1>22. CASE UNCHANGED vars
  BY <1>22 DEF vars, RequestInv
<1>q. QED
  BY <1>1, <1>2, <1>3, <1>4, <1>5, <1>6, <1>7, <1>8, <1>9, <1>10, <1>11, <1>12, <1>13, <1>14, <1>15, <1>16, <1>17, <1>18, <1>19, <1>20, <1>21, <1>22 DEF Next

\* The locks are taken one activation at a time.
LEMMA LockLemma == TypeOK /\ LockInv /\ [Next]_vars => LockInv'
<1> SUFFICES ASSUME TypeOK, LockInv, [Next]_vars PROVE LockInv'
  OBVIOUS
<1>1. ASSUME NEW v \in Versions, NEW b \in 0 .. MaxVersion, OpenProposal(v, b) PROVE LockInv'
  BY <1>1 DEF OpenProposal, LockInv
<1>2. ASSUME NEW v \in Versions, NEW s \in Candidates, EditRead(v, s) PROVE LockInv'
  BY <1>2 DEF EditRead, LockInv
<1>3. ASSUME EditWrite PROVE LockInv'
  BY <1>3 DEF EditWrite, LockInv
<1>4. ASSUME NEW v \in Versions, Submit(v) PROVE LockInv'
  BY <1>4 DEF Submit, LockInv
<1>5. ASSUME NEW v \in Versions, Decide(v) PROVE LockInv'
  BY <1>5 DEF Decide, Transition, Disturb, LockInv
<1>6. ASSUME NEW v \in Versions, Revoke(v) PROVE LockInv'
  BY <1>6 DEF Revoke, Disturb, LockInv
<1>7. ASSUME NEW v \in Versions, ReviewExpires(v) PROVE LockInv'
  BY <1>7 DEF ReviewExpires, Disturb, LockInv
<1>8. ASSUME NEW c \in Challenges, NEW v \in Versions, NEW k \in Verifiers, CreateRead(c, v, k) PROVE LockInv'
  BY <1>8 DEF CreateRead, LockInv
<1>9. ASSUME NEW c \in Challenges, CreateInsert(c) PROVE LockInv'
  BY <1>9 DEF CreateInsert, LockInv
<1>10. ASSUME NEW c \in Challenges, FallsLate(c) PROVE LockInv'
  BY <1>10 DEF FallsLate, Disturb, LockInv
<1>11. ASSUME NEW c \in Challenges, CompleteWrong(c) PROVE LockInv'
  BY <1>11 DEF CompleteWrong, LockInv
<1>12. ASSUME NEW c \in Challenges, CompleteValid(c) PROVE LockInv'
  BY <1>12 DEF CompleteValid, LockInv
<1>13. ASSUME NEW c \in Challenges, CompleteLate(c) PROVE LockInv'
  BY <1>13 DEF CompleteLate, LockInv
<1>14. ASSUME NEW a \in Activators, NEW v \in Versions, ActivateRead(a, v) PROVE LockInv'
  BY <1>14 DEF ActivateRead, LockInv, TypeOK, Request, FamilyFree, Idle
<1>15. ASSUME NEW a \in Activators, ActivateLock(a) PROVE LockInv'
  BY <1>15 DEF ActivateLock, LockInv, TypeOK, Request, FamilyFree
<1>16. ASSUME NEW a \in Activators, ActivateCommit(a) PROVE LockInv'
  BY <1>16 DEF ActivateCommit, LockInv, TypeOK, Request, FamilyFree, Idle
<1>17. ASSUME NEW a \in Activators, ActivateRefused(a) PROVE LockInv'
  BY <1>17 DEF ActivateRefused, LockInv, TypeOK, Request, FamilyFree, Idle
<1>18. ASSUME NEW k \in Verifiers, RevokeVerifier(k) PROVE LockInv'
  BY <1>18 DEF RevokeVerifier, Disturb, LockInv
<1>19. ASSUME RetireReducer PROVE LockInv'
  BY <1>19 DEF RetireReducer, Disturb, LockInv
<1>20. ASSUME NEW v \in Versions, NEW status \in {"revoked", "expired"}, CascadeRead(v, status) PROVE LockInv'
  BY <1>20 DEF CascadeRead, Disturb, LockInv
<1>21. ASSUME CascadeCommit PROVE LockInv'
  BY <1>21 DEF CascadeCommit, LockInv
<1>22. CASE UNCHANGED vars
  BY <1>22 DEF vars, LockInv
<1>q. QED
  BY <1>1, <1>2, <1>3, <1>4, <1>5, <1>6, <1>7, <1>8, <1>9, <1>10, <1>11, <1>12, <1>13, <1>14, <1>15, <1>16, <1>17, <1>18, <1>19, <1>20, <1>21, <1>22 DEF Next

\* The locks keep what an activation found: nobody else moves its version, the family or the verifier.
LEMMA HeldLemma == TypeOK /\ ChallengeInv /\ ApprovedOnce /\ RequestInv /\ LockInv /\ HeldInv /\ [Next]_vars => HeldInv'
<1> SUFFICES ASSUME TypeOK, ChallengeInv, ApprovedOnce, RequestInv, LockInv, HeldInv, [Next]_vars PROVE HeldInv'
  OBVIOUS
<1>1. ASSUME NEW v \in Versions, NEW b \in 0 .. MaxVersion, OpenProposal(v, b) PROVE HeldInv'
  BY <1>1 DEF OpenProposal, HeldInv, Relies, IsLatest, VersionFree, FamilyFree, TypeOK, Version, Request, Challenge
<1>2. ASSUME NEW v \in Versions, NEW s \in Candidates, EditRead(v, s) PROVE HeldInv'
  BY <1>2 DEF EditRead, HeldInv, Relies, IsLatest
<1>3. ASSUME EditWrite PROVE HeldInv'
  BY <1>3 DEF EditWrite, HeldInv, Relies, IsLatest, VersionFree, FamilyFree, TypeOK, Version, Request, Challenge
<1>4. ASSUME NEW v \in Versions, Submit(v) PROVE HeldInv'
  BY <1>4 DEF Submit, HeldInv, Relies, IsLatest, VersionFree, FamilyFree, TypeOK, Version, Request, Challenge
<1>5. ASSUME NEW v \in Versions, Decide(v) PROVE HeldInv'
  <2>1. VersionFree(v) /\ version[v].state # "absent" /\ UNCHANGED <<challenge, active, revoked, request>>
    BY <1>5 DEF Decide, Transition
  <2>2. \A w \in Versions : w # v => version'[w] = version[w]
    BY <1>5 DEF Decide, Transition, TypeOK
  <2>3. version'[v].state # "absent"
    <3>1. PICK to \in {"withdrawn", "rejected", "superseded"} : version' = [version EXCEPT ![v].state = to]
      BY <1>5 DEF Decide, Transition
    <3>2. QED
      BY <3>1 DEF TypeOK, Version
  <2>4. QED
    BY <2>1, <2>2, <2>3 DEF HeldInv, Relies, IsLatest, VersionFree, RequestInv
<1>6. ASSUME NEW v \in Versions, Revoke(v) PROVE HeldInv'
  BY <1>6 DEF Revoke, Disturb, HeldInv, Relies, IsLatest
<1>7. ASSUME NEW v \in Versions, ReviewExpires(v) PROVE HeldInv'
  BY <1>7 DEF ReviewExpires, Disturb, HeldInv, Relies, IsLatest
<1>8. ASSUME NEW c \in Challenges, NEW v \in Versions, NEW k \in Verifiers, CreateRead(c, v, k) PROVE HeldInv'
  <2>1. \A a \in Activators : request[a].evidence # NoChallenge => request[a].evidence # c
    BY <1>8 DEF CreateRead, ApprovedOnce, RequestInv, TypeOK, Request
  <2>2. \A d \in Challenges : d # c => challenge'[d] = challenge[d]
    BY <1>8 DEF CreateRead, TypeOK
  <2>3. \A a \in Activators : request[a].step = "locked" /\ request[a].eligible => request[a].evidence \in Challenges
    BY DEF HeldInv, Relies, TypeOK, Request
  <2>4. UNCHANGED <<version, active, revoked, request>>
    BY <1>8 DEF CreateRead
  <2>5. QED
    BY <2>1, <2>2, <2>3, <2>4 DEF HeldInv, Relies, IsLatest
<1>9. ASSUME NEW c \in Challenges, CreateInsert(c) PROVE HeldInv'
  <2>1. \A a \in Activators : request[a].evidence # NoChallenge => request[a].evidence # c
    BY <1>9 DEF CreateInsert, ApprovedOnce, RequestInv, TypeOK, Request
  <2>2. \A d \in Challenges : d # c => challenge'[d] = challenge[d]
    BY <1>9 DEF CreateInsert, TypeOK
  <2>3. \A a \in Activators : request[a].step = "locked" /\ request[a].eligible => request[a].evidence \in Challenges
    BY DEF HeldInv, Relies, TypeOK, Request
  <2>4. UNCHANGED <<version, active, revoked, request>>
    BY <1>9 DEF CreateInsert
  <2>5. QED
    BY <2>1, <2>2, <2>3, <2>4 DEF HeldInv, Relies, IsLatest
<1>10. ASSUME NEW c \in Challenges, FallsLate(c) PROVE HeldInv'
  <2>1. \A a \in Activators : request[a].evidence # NoChallenge => request[a].evidence # c
    BY <1>10 DEF FallsLate, Disturb, ApprovedOnce, RequestInv, TypeOK, Request
  <2>2. \A d \in Challenges : d # c => challenge'[d] = challenge[d]
    BY <1>10 DEF FallsLate, Disturb, TypeOK
  <2>3. \A a \in Activators : request[a].step = "locked" /\ request[a].eligible => request[a].evidence \in Challenges
    BY DEF HeldInv, Relies, TypeOK, Request
  <2>4. UNCHANGED <<version, active, revoked, request>>
    BY <1>10 DEF FallsLate, Disturb
  <2>5. QED
    BY <2>1, <2>2, <2>3, <2>4 DEF HeldInv, Relies, IsLatest
<1>11. ASSUME NEW c \in Challenges, CompleteWrong(c) PROVE HeldInv'
  <2>1. \A a \in Activators : request[a].evidence # NoChallenge => request[a].evidence # c
    BY <1>11 DEF CompleteWrong, ApprovedOnce, RequestInv, TypeOK, Request
  <2>2. \A d \in Challenges : d # c => challenge'[d] = challenge[d]
    BY <1>11 DEF CompleteWrong, TypeOK
  <2>3. \A a \in Activators : request[a].step = "locked" /\ request[a].eligible => request[a].evidence \in Challenges
    BY DEF HeldInv, Relies, TypeOK, Request
  <2>4. UNCHANGED <<version, active, revoked, request>>
    BY <1>11 DEF CompleteWrong
  <2>5. QED
    BY <2>1, <2>2, <2>3, <2>4 DEF HeldInv, Relies, IsLatest
<1>12. ASSUME NEW c \in Challenges, CompleteValid(c) PROVE HeldInv'
  <2> DEFINE v == challenge[c].version
  <2>1. VersionFree(v) /\ challenge[c].state = "issued" /\ UNCHANGED <<active, revoked, request>>
    BY <1>12 DEF CompleteValid
  <2>2. v \in Versions /\ version[v].state # "absent"
    BY <2>1 DEF ChallengeInv
  <2>3. \A w \in Versions : w # v => version'[w] = version[w]
    BY <1>12 DEF CompleteValid, TypeOK
  <2>4. version'[v].state # "absent"
    BY <1>12, <2>2 DEF CompleteValid, TypeOK, Version
  <2>5. \A d \in Challenges : d # c => challenge'[d] = challenge[d]
    BY <1>12 DEF CompleteValid, TypeOK
  <2>6. \A a \in Activators : request[a].evidence # NoChallenge => request[a].evidence # c
    BY <2>1 DEF ApprovedOnce, RequestInv, TypeOK, Request
  <2>7. \A a \in Activators : request[a].step = "locked" /\ request[a].eligible =>
           request[a].evidence \in Challenges /\ request[a].version \in Versions /\ request[a].version # v
    BY <2>1 DEF HeldInv, Relies, TypeOK, Request, RequestInv, VersionFree
  <2>8. QED
    BY <2>1, <2>2, <2>3, <2>4, <2>5, <2>6, <2>7 DEF HeldInv, Relies, IsLatest
<1>13. ASSUME NEW c \in Challenges, CompleteLate(c) PROVE HeldInv'
  <2>1. \A a \in Activators : request[a].evidence # NoChallenge => request[a].evidence # c
    BY <1>13 DEF CompleteLate, ApprovedOnce, RequestInv, TypeOK, Request
  <2>2. \A d \in Challenges : d # c => challenge'[d] = challenge[d]
    BY <1>13 DEF CompleteLate, TypeOK
  <2>3. \A a \in Activators : request[a].step = "locked" /\ request[a].eligible => request[a].evidence \in Challenges
    BY DEF HeldInv, Relies, TypeOK, Request
  <2>4. UNCHANGED <<version, active, revoked, request>>
    BY <1>13 DEF CompleteLate
  <2>5. QED
    BY <2>1, <2>2, <2>3, <2>4 DEF HeldInv, Relies, IsLatest
<1>14. ASSUME NEW a \in Activators, NEW v \in Versions, ActivateRead(a, v) PROVE HeldInv'
  BY <1>14 DEF ActivateRead, HeldInv, Relies, IsLatest, VersionFree, FamilyFree, TypeOK, Version, Request, Challenge, Idle
<1>15. ASSUME NEW a \in Activators, ActivateLock(a) PROVE HeldInv'
  BY <1>15 DEF ActivateLock, HeldInv, Relies, IsLatest, VersionFree, FamilyFree, TypeOK, Version, Request, Challenge, Eligible
<1>16. ASSUME NEW a \in Activators, ActivateCommit(a) PROVE HeldInv'
  BY <1>16 DEF ActivateCommit, HeldInv, Relies, IsLatest, VersionFree, FamilyFree, TypeOK, Version, Request, Challenge, Idle, LockInv
<1>17. ASSUME NEW a \in Activators, ActivateRefused(a) PROVE HeldInv'
  BY <1>17 DEF ActivateRefused, HeldInv, Relies, IsLatest, VersionFree, FamilyFree, TypeOK, Version, Request, Challenge, Idle, LockInv
<1>18. ASSUME NEW k \in Verifiers, RevokeVerifier(k) PROVE HeldInv'
  BY <1>18 DEF RevokeVerifier, Disturb, HeldInv, Relies, IsLatest, VersionFree, FamilyFree, TypeOK, Version, Request, Challenge, VerifierFree
<1>19. ASSUME RetireReducer PROVE HeldInv'
  BY <1>19 DEF RetireReducer, Disturb, HeldInv, Relies, IsLatest
<1>20. ASSUME NEW v \in Versions, NEW status \in {"revoked", "expired"}, CascadeRead(v, status) PROVE HeldInv'
  BY <1>20 DEF CascadeRead, Disturb, HeldInv, Relies, IsLatest
<1>21. ASSUME CascadeCommit PROVE HeldInv'
  BY <1>21 DEF CascadeCommit, HeldInv, Relies, IsLatest
<1>22. CASE UNCHANGED vars
  BY <1>22 DEF vars, HeldInv, Relies, IsLatest
<1>q. QED
  BY <1>1, <1>2, <1>3, <1>4, <1>5, <1>6, <1>7, <1>8, <1>9, <1>10, <1>11, <1>12, <1>13, <1>14, <1>15, <1>16, <1>17, <1>18, <1>19, <1>20, <1>21, <1>22 DEF Next

-----------------------------------------------------------------------------

LEMMA InitIInv == Init => IInv
<1> SUFFICES ASSUME Init PROVE IInv
  OBVIOUS
<1>1. TypeOK
  <2>1. NoVersion \in Version /\ NoRevision \in Revision
    BY ProposalAssumption DEF NoVersion, NoRevision, Version, Revision
  <2>2. 0 \in 0 .. MaxVersion
    BY ProposalAssumption
  <2>3. QED
    BY <2>1, <2>2, Constants DEF Init, TypeOK
<1>2. CountInv /\ CascadeInv /\ ChallengeInv
  BY ProposalAssumption DEF Init, CountInv, CascadeInv, ChallengeInv, Unissued, NoCascade
<1>3. ApprovedOnce
  BY DEF Init, ApprovedOnce, Unissued, NoVersion
<1>4. OneInForce
  BY DEF Init, OneInForce, NoRevision
<1>5. RequestInv /\ LockInv /\ HeldInv
  BY DEF Init, RequestInv, LockInv, HeldInv, Idle
<1>6. QED
  BY <1>1, <1>2, <1>3, <1>4, <1>5 DEF IInv

\* The inductive invariant: rows of a known shape, what a challenge may still be
\* charged, evidence that is never replaced, one holder of the locks, and what
\* it may rely on.
THEOREM Invariance == Spec => []IInv
<1>1. Init => IInv
  BY InitIInv
<1>2. IInv /\ [Next]_vars => IInv'
  BY TypeLemma, CountLemma, CascadeLemma, ChallengeLemma, ApprovedLemma, ForceLemma, RequestLemma,
     LockLemma, HeldLemma DEF IInv
<1>3. QED
  BY <1>1, <1>2, PTL DEF Spec

\* Every row of the authoring tables keeps its shape, the attempts of a challenge
\* within the ceiling included.
THEOREM TypeCorrect == Spec => []TypeOK
<1>1. IInv => TypeOK
  BY DEF IInv
<1>2. QED
  BY <1>1, Invariance, PTL

\* At most one revision of a family is in force, the one the family names, for
\* any number of overlapping activations, revocations, expiries and cascades.
THEOREM OneInForceTheorem == Spec => []OneInForce
<1>1. IInv => OneInForce
  BY DEF IInv
<1>2. QED
  BY <1>1, Invariance, PTL

\* An approved version has exactly one completed challenge, its evidence.
THEOREM ApprovedOnceTheorem == Spec => []ApprovedOnce
<1>1. IInv => ApprovedOnce
  BY DEF IInv
<1>2. QED
  BY <1>1, Invariance, PTL

\* No challenge is ever tried more often than the ceiling allows.
THEOREM AttemptCeilingTheorem == Spec => []AttemptCeiling
<1>1. IInv => AttemptCeiling
  BY ProposalAssumption DEF IInv, TypeOK, Challenge, CountInv, AttemptCeiling
<1>2. QED
  BY <1>1, Invariance, PTL

\* The predicates of the gate hold when the revision comes in force, not only
\* when they were evaluated: only the commit puts a revision in force, and it
\* relies on what HeldInv keeps.
THEOREM GateHoldsTheorem == Spec => GateHolds
<1> DEFINE Gate(v) ==
       revision[v].state # "active" /\ revision'[v].state = "active" =>
          /\ IsLatest(v) /\ version[v].state = "approved"
          /\ evidence[v] # NoChallenge
          /\ challenge[evidence[v]].digest = version[v].semantics
          /\ challenge[evidence[v]].verifiers \cap revoked = {}
          /\ version[v].baseline = active
<1>1. IInv /\ [Next]_vars => [\A v \in Versions : Gate(v)]_vars
  <2> SUFFICES ASSUME IInv, Next, NEW v \in Versions,
                      revision[v].state # "active", revision'[v].state = "active"
               PROVE  Gate(v)
    OBVIOUS
  <2>1. ASSUME NEW a \in Activators, ActivateCommit(a) PROVE Gate(v)
    <3>1. request[a].version = v
      BY <2>1 DEF ActivateCommit, IInv, TypeOK, Revision
    <3>2. Relies(a) /\ evidence[v] = request[a].evidence
      BY <2>1, <3>1 DEF ActivateCommit, Commits, IInv, HeldInv, Relies, RequestInv
    <3>3. QED
      BY <3>1, <3>2 DEF Relies
  <2>2. ASSUME NEW w \in Versions, Submit(w) \/ Decide(w) \/ Revoke(w) \/ ReviewExpires(w) PROVE FALSE
    BY <2>2 DEF Submit, Decide, Transition, Revoke, ReviewExpires, IInv, TypeOK, Revision
  <2>3. ASSUME CascadeCommit PROVE FALSE
    BY <2>3 DEF CascadeCommit, IInv, TypeOK, CascadeInv, Revision
  <2>4. revision' # revision
    OBVIOUS
  <2>5. QED
    BY <2>1, <2>2, <2>3, <2>4
       DEF Next, OpenProposal, EditRead, EditWrite, CreateRead, CreateInsert, FallsLate, CompleteWrong,
           CompleteValid, CompleteLate, ActivateRead, ActivateLock, ActivateRefused, RevokeVerifier,
           RetireReducer, CascadeRead
<1>2. QED
  BY <1>1, Invariance, PTL DEF Spec, GateHolds

=============================================================================
