------------------------- MODULE WebhookDeliveryProofs -------------------------
(***************************************************************************)
(* Proofs about WebhookDelivery, for any number of deliveries, workers and *)
(* attempts: the types, that the attempt counter covers every POST sent,   *)
(* and why a delivery is abandoned.                                        *)
(***************************************************************************)
EXTENDS WebhookDelivery, FiniteSetTheorems, TLAPS

\* Counting goes up, and stays a number.
LEMMA CountingUp == \A n \in Nat : CountUp(n) \in Nat /\ n <= CountUp(n)
BY DeliveryAssumption DEF CountUp

\* An answer has one of the three outcomes, and a failure has a cause.
LEMMA Classified ==
    ASSUME NEW n \in Nat, NEW answer \in {"2xx", "transient", "permanent", "transport"}
    PROVE  /\ Classify(answer, n) \in Outcome
           /\ Classify(answer, n) = "failed" => answer = "permanent" \/ n >= MaxAttempts
BY DeliveryAssumption DEF Classify, Outcome

\* The strengthening holds in every reachable state: every attempt number a
\* worker claimed with is at most the row's, and every failure has its cause.
THEOREM InductiveInvariant == Spec => []IInv
<1>1. Init => IInv
    BY DeliveryAssumption
    DEF Init, IInv, CountersAreTyped, FlightIsSound, GivesUpOnlyWhenSpent, Outcome, Flight
<1>2. IInv /\ [Next]_vars => IInv'
    <2> SUFFICES ASSUME IInv, [Next]_vars PROVE IInv'
        OBVIOUS
    <2> USE DeliveryAssumption DEF IInv, CountersAreTyped, FlightIsSound, GivesUpOnlyWhenSpent
    <2>1. ASSUME NEW d \in Deliveries, EmitEvent(d) PROVE IInv'
        BY <2>1 DEF EmitEvent, tickVars, historyVars, Outcome
    <2>2. ASSUME NEW d \in Deliveries, UpdateSubscription(d) PROVE IInv'
        BY <2>2 DEF UpdateSubscription, rowVars, tickVars, historyVars
    <2>3. ASSUME NEW d \in Deliveries, RetryFallsDue(d) PROVE IInv'
        BY <2>3 DEF RetryFallsDue, tickVars, historyVars
    <2>4. ASSUME NEW w \in Workers, NEW locked \in SUBSET HeldByOthers(w), Claim(w, locked) PROVE IInv'
        <3>1. PICK taken \in SUBSET Deliveries :
                /\ attempt' = [d \in Deliveries |-> IF d \in taken THEN NextAttempt(d) ELSE attempt[d]]
                /\ number' = [number EXCEPT ![w] =
                        [d \in Deliveries |-> IF d \in taken THEN NextAttempt(d) ELSE 0]]
                /\ flight' = [flight EXCEPT ![w] =
                        [d \in Deliveries |-> IF d \notin taken THEN "none"
                                              ELSE IF secret[d] THEN "posting" ELSE "raised"]]
            BY <2>4 DEF Claim
        <3>2. \A d \in Deliveries : NextAttempt(d) \in Nat /\ attempt[d] <= NextAttempt(d)
            BY CountingUp DEF NextAttempt
        <3>3. status' = status /\ refused' = refused
            BY <2>4 DEF Claim, historyVars
        <3>4. CountersAreTyped'
            BY <3>1, <3>2, <3>3 DEF Flight
        <3>5. \A d \in Deliveries : attempt'[d] \in Nat /\ attempt[d] <= attempt'[d]
            BY <3>1, <3>2
        <3>6. ASSUME NEW v \in Workers, NEW d \in Deliveries PROVE FlightIsSound(v, d)'
            <4>1. CASE v = w
                BY <4>1, <3>1, <3>2
            <4>2. CASE v # w
                BY <4>2, <3>1, <3>3, <3>5
            <4> QED BY <4>1, <4>2
        <3>7. GivesUpOnlyWhenSpent'
            BY <3>3, <3>5
        <3> QED BY <3>4, <3>6, <3>7
    <2>5. ASSUME NEW w \in Workers, NEW d \in Deliveries, Post(w, d) PROVE IInv'
        <3>1. PICK answer \in {"2xx", "transient", "permanent", "transport"} :
                /\ flight' = [flight EXCEPT ![w][d] = Classify(answer, number[w][d])]
                /\ refused' = IF answer = "permanent" THEN refused \cup {d} ELSE refused
            BY <2>5 DEF Post
        <3>2. status' = status /\ attempt' = attempt /\ number' = number
            BY <2>5 DEF Post, rowVars
        <3>3. /\ Classify(answer, number[w][d]) \in Outcome
              /\ Classify(answer, number[w][d]) = "failed" =>
                    answer = "permanent" \/ number[w][d] >= MaxAttempts
            BY Classified
        <3>4. CountersAreTyped'
            BY <3>1, <3>2, <3>3 DEF Flight
        <3>5. ASSUME NEW v \in Workers, NEW e \in Deliveries PROVE FlightIsSound(v, e)'
            <4>1. CASE v = w /\ e = d
                BY <4>1, <3>1, <3>2, <3>3
            <4>2. CASE ~ (v = w /\ e = d)
                <5>1. flight'[v][e] = flight[v][e]
                    BY <4>2, <3>1
                <5> QED BY <5>1, <3>1, <3>2
            <4> QED BY <4>1, <4>2
        <3>6. GivesUpOnlyWhenSpent'
            BY <3>1, <3>2
        <3> QED BY <3>4, <3>5, <3>6
    <2>6. ASSUME NEW w \in Workers, RecordOutcomes(w) PROVE IInv'
        <3>1. /\ status' = [d \in Deliveries |-> IF d \in Recorded(w) THEN flight[w][d] ELSE status[d]]
              /\ flight' = [flight EXCEPT ![w] = [d \in Deliveries |-> "none"]]
              /\ number' = [number EXCEPT ![w] = [d \in Deliveries |-> 0]]
              /\ attempt' = attempt /\ refused' = refused
            BY <2>6 DEF RecordOutcomes, EndTick, historyVars
        <3>2. CountersAreTyped'
            BY <3>1 DEF Recorded, Flight
        <3>3. ASSUME NEW v \in Workers, NEW d \in Deliveries PROVE FlightIsSound(v, d)'
            BY <3>1
        <3>4. GivesUpOnlyWhenSpent'
            BY <3>1
        <3> QED BY <3>2, <3>3, <3>4
    <2>7. ASSUME NEW w \in Workers, Crash(w) PROVE IInv'
        BY <2>7 DEF Crash, EndTick, rowVars, historyVars, Flight
    <2>8. CASE UNCHANGED vars
        BY <2>8 DEF vars
    <2>9. ASSUME NEW w \in Workers, EmptyTick(w) PROVE IInv'
        BY <2>9, <2>8 DEF EmptyTick
    <2> QED
        BY <2>1, <2>2, <2>3, <2>4, <2>5, <2>6, <2>7, <2>8, <2>9 DEF Next, ClaimPending, Deliver
<1> QED BY <1>1, <1>2, PTL DEF Spec

\* A delivery is abandoned only for a permanent refusal or with its attempts
\* spent (_classify_response), for any number of replicas and attempts.
THEOREM AbandonedForCause == Spec => []GivesUpOnlyWhenSpent
<1>1. IInv => GivesUpOnlyWhenSpent
    BY DEF IInv
<1> QED BY <1>1, InductiveInvariant, PTL

-----------------------------------------------------------------------------
(* Types, and the line of due rows *)

Counts == 0 .. MaxAttempts + 1

\* Counting stops one past the limit.
LEMMA CountStops == \A n \in Counts : CountUp(n) \in Counts
BY DeliveryAssumption DEF CountUp, Counts

\* The order of next_retry_at, as TypeOK has it.
LineOK ==
    /\ due \in SUBSET Deliveries
    /\ earlier \in SUBSET (due \X due)
    /\ \A j, k \in due : j = k \/ <<j, k>> \in earlier \/ <<k, j>> \in earlier
    /\ \A j, k \in due : <<j, k>> \in earlier => <<k, j>> \notin earlier
    /\ \A i, j, k \in due : <<i, j>> \in earlier /\ <<j, k>> \in earlier => <<i, k>> \in earlier

CountsOK ==
    /\ status \in [Deliveries -> {"absent"} \cup Outcome]
    /\ attempt \in [Deliveries -> Counts]
    /\ secret \in [Deliveries -> BOOLEAN]
    /\ flight \in [Workers -> [Deliveries -> Flight]]
    /\ number \in [Workers -> [Deliveries -> Counts]]
    /\ posts \in [Deliveries -> Counts]
    /\ refused \in SUBSET Deliveries

TInv == CountsOK /\ LineOK /\ unset \in SUBSET (Deliveries \ due) /\ RowsAreStamped

\* A row that was not in line goes to its end.
LEMMA Joins ==
    ASSUME LineOK, NEW d \in Deliveries, d \notin due, JoinLine(d)
    PROVE  LineOK' /\ due' = due \cup {d}
BY DEF LineOK, JoinLine

\* Rows leave the line and the others keep their places.
LEMMA Leaves ==
    ASSUME LineOK, NEW D, LeaveLine(D)
    PROVE  LineOK' /\ due' = due \ D
BY DEF LineOK, LeaveLine

LEMMA TypesPreserved == TInv /\ [Next]_vars => TInv'
<1> SUFFICES ASSUME TInv, [Next]_vars PROVE TInv'
    OBVIOUS
<1> USE DEF TInv
<1>1. ASSUME NEW d \in Deliveries, EmitEvent(d) PROVE TInv'
    <2>1. d \notin unset /\ d \notin due
        BY <1>1 DEF EmitEvent, RowsAreStamped
    <2>2. LineOK' /\ due' = due \cup {d}
        BY <1>1, <2>1, Joins DEF EmitEvent
    <2>3. CountsOK'
        BY <1>1 DEF EmitEvent, CountsOK, Outcome, tickVars, historyVars
    <2>4. RowsAreStamped'
        BY <1>1, <2>2 DEF EmitEvent, RowsAreStamped, CountsOK, LineOK
    <2> QED BY <2>1, <2>2, <2>3, <2>4, <1>1 DEF EmitEvent
<1>2. ASSUME NEW d \in Deliveries, UpdateSubscription(d) PROVE TInv'
    BY <1>2 DEF UpdateSubscription, CountsOK, LineOK, RowsAreStamped, rowVars, tickVars, historyVars
<1>3. ASSUME NEW d \in Deliveries, RetryFallsDue(d) PROVE TInv'
    <2>1. d \notin unset
        BY <1>3 DEF RetryFallsDue, RowsAreStamped
    <2>2. LineOK' /\ due' = due \cup {d}
        BY <1>3, Joins DEF RetryFallsDue
    <2>3. CountsOK' /\ RowsAreStamped'
        BY <1>3, <2>2 DEF RetryFallsDue, CountsOK, RowsAreStamped, tickVars, historyVars
    <2> QED BY <2>1, <2>2, <2>3, <1>3 DEF RetryFallsDue
<1>4. ASSUME NEW w \in Workers, NEW locked, Claim(w, locked) PROVE TInv'
    <2>1. PICK taken \in SUBSET Deliveries :
            /\ attempt' = [d \in Deliveries |-> IF d \in taken THEN NextAttempt(d) ELSE attempt[d]]
            /\ number' = [number EXCEPT ![w] =
                    [d \in Deliveries |-> IF d \in taken THEN NextAttempt(d) ELSE 0]]
            /\ flight' = [flight EXCEPT ![w] =
                    [d \in Deliveries |-> IF d \notin taken THEN "none"
                                          ELSE IF secret[d] THEN "posting" ELSE "raised"]]
        BY <1>4 DEF Claim
    <2>2. \A d \in Deliveries : NextAttempt(d) \in Counts
        BY CountStops DEF NextAttempt, CountsOK
    <2>3. 0 \in Counts
        BY DeliveryAssumption DEF Counts
    <2>4. CountsOK'
        BY <2>1, <2>2, <2>3, <1>4 DEF Claim, CountsOK, Flight, historyVars
    <2> QED BY <2>4, <1>4 DEF Claim, LineOK, RowsAreStamped
<1>5. ASSUME NEW w \in Workers, NEW d \in Deliveries, Post(w, d) PROVE TInv'
    <2>1. PICK answer \in {"2xx", "transient", "permanent", "transport"} :
            /\ flight' = [flight EXCEPT ![w][d] = Classify(answer, number[w][d])]
            /\ refused' = IF answer = "permanent" THEN refused \cup {d} ELSE refused
        BY <1>5 DEF Post
    <2>2. number[w][d] \in Nat
        BY DeliveryAssumption DEF CountsOK, Counts
    <2>3. Classify(answer, number[w][d]) \in Flight
        BY <2>2, Classified DEF Flight
    <2>4. posts' \in [Deliveries -> Counts]
        BY <1>5, CountStops DEF Post, CountsOK
    <2>5. CountsOK'
        BY <2>1, <2>3, <2>4, <1>5 DEF Post, CountsOK, rowVars
    <2> QED BY <2>5, <1>5 DEF Post, LineOK, RowsAreStamped, rowVars
<1>6. ASSUME NEW w \in Workers, RecordOutcomes(w) PROVE TInv'
    <2>1. /\ status' = [d \in Deliveries |-> IF d \in Recorded(w) THEN flight[w][d] ELSE status[d]]
          /\ unset' = (unset \ Recorded(w)) \cup {d \in Recorded(w) : flight[w][d] # "pending"}
          /\ UNCHANGED <<attempt, secret, posts, refused>>
        BY <1>6 DEF RecordOutcomes, historyVars
    <2>2. \A d \in Deliveries : d \in Recorded(w) => flight[w][d] \in Outcome
        BY DEF Recorded
    <2>3. Recorded(w) \subseteq Deliveries
        BY DEF Recorded
    <2>4. LineOK' /\ due' = due \ Recorded(w)
        BY <1>6, Leaves DEF RecordOutcomes
    <2>5. CountsOK'
        <3>1. 0 \in Counts
            BY DeliveryAssumption DEF Counts
        <3> QED BY <2>1, <2>2, <3>1, <1>6 DEF RecordOutcomes, EndTick, CountsOK, Flight
    <2>6. RowsAreStamped'
        BY <2>1, <2>2, <2>4 DEF RowsAreStamped, LineOK, Outcome
    <2> QED BY <2>1, <2>3, <2>4, <2>5, <2>6
<1>7. ASSUME NEW w \in Workers, Crash(w) PROVE TInv'
    <2>1. 0 \in Counts
        BY DeliveryAssumption DEF Counts
    <2> QED BY <2>1, <1>7 DEF Crash, EndTick, CountsOK, LineOK, RowsAreStamped, Flight, rowVars, historyVars
<1>8. CASE UNCHANGED vars
    BY <1>8 DEF vars, CountsOK, LineOK, RowsAreStamped
<1>9. ASSUME NEW w \in Workers, EmptyTick(w) PROVE TInv'
    BY <1>9, <1>8 DEF EmptyTick
<1> QED
    BY <1>1, <1>2, <1>3, <1>4, <1>5, <1>6, <1>7, <1>8, <1>9 DEF Next, ClaimPending, Deliver

THEOREM TypeInvariant == Spec => []TInv
<1>1. Init => TInv
    <2>1. 0 \in Counts
        BY DeliveryAssumption DEF Counts
    <2> QED BY <2>1 DEF Init, TInv, CountsOK, LineOK, RowsAreStamped, Outcome, Flight
<1> QED BY <1>1, TypesPreserved, PTL DEF Spec

\* Every variable keeps its type: the counters never pass the point where
\* counting stops, and next_retry_at keeps the due rows in one line, with none
\* of them NULL, for any number of replicas recording over each other.
THEOREM TypeCorrect == Spec => []TypeOK
<1>1. TInv => TypeOK
    BY DEF TInv, CountsOK, LineOK, Counts, TypeOK
<1> QED BY <1>1, TypeInvariant, PTL

-----------------------------------------------------------------------------
(* Every POST is counted *)

\* A worker joins those that are sending d, or leaves them.
LEMMA PostingChanges ==
    ASSUME NEW S, IsFiniteSet(S), NEW w
    PROVE  /\ Cardinality(S) \in Nat
           /\ IsFiniteSet(S \cup {w}) /\ Cardinality(S \cup {w}) \in Nat
           /\ w \notin S => Cardinality(S \cup {w}) = Cardinality(S) + 1
           /\ IsFiniteSet(S \ {w}) /\ Cardinality(S \ {w}) \in Nat
           /\ w \in S => Cardinality(S \ {w}) = Cardinality(S) - 1
           /\ w \notin S => Cardinality(S \ {w}) = Cardinality(S)
<1>1. /\ IsFiniteSet(S \cup {w})
      /\ Cardinality(S \cup {w}) = IF w \in S THEN Cardinality(S) ELSE Cardinality(S) + 1
    BY FS_AddElement
<1>2. /\ IsFiniteSet(S \ {w})
      /\ Cardinality(S \ {w}) = IF w \in S THEN Cardinality(S) - 1 ELSE Cardinality(S)
    BY FS_RemoveElement
<1>3. Cardinality(S) \in Nat /\ Cardinality(S \cup {w}) \in Nat /\ Cardinality(S \ {w}) \in Nat
    BY <1>1, <1>2, FS_CardinalityType
<1> QED BY <1>1, <1>2, <1>3

\* The claim of a row counts for the POST it will lead to.
LEMMA ClaimCounts ==
    ASSUME TInv, NEW w \in Workers, NEW locked, Claim(w, locked), NEW d \in Deliveries, PostsAreCounted(d)
    PROVE  PostsAreCounted(d)'
<1>1. PICK taken \in SUBSET Deliveries :
        /\ attempt' = [e \in Deliveries |-> IF e \in taken THEN NextAttempt(e) ELSE attempt[e]]
        /\ flight' = [flight EXCEPT ![w] =
                [e \in Deliveries |-> IF e \notin taken THEN "none"
                                      ELSE IF secret[e] THEN "posting" ELSE "raised"]]
    BY DEF Claim
<1>2. posts' = posts /\ flight[w][d] = "none"
    BY DEF Claim, Idle, historyVars
<1>3. \A v \in Workers : v # w => flight'[v][d] = flight[v][d]
    BY <1>1 DEF TInv, CountsOK
<1>4. attempt[d] \in Counts /\ posts[d] \in Counts
    BY DEF TInv, CountsOK
<1>5. CASE d \in taken
    <2>1. attempt'[d] = CountUp(attempt[d])
        BY <1>1, <1>5 DEF NextAttempt
    <2>2. Posting(d)' = Posting(d) \/ Posting(d)' = Posting(d) \cup {w}
        <3>1. flight'[w][d] = "posting" \/ flight'[w][d] = "raised"
            BY <1>1, <1>5 DEF TInv, CountsOK
        <3> QED BY <1>2, <1>3, <3>1 DEF Posting
    <2>3. IsFiniteSet(Posting(d)) /\ w \notin Posting(d)
        BY <1>2 DEF PostsAreCounted, Posting
    <2>4. /\ IsFiniteSet(Posting(d)')
          /\ Cardinality(Posting(d)) \in Nat
          /\ Cardinality(Posting(d)') \in Nat
          /\ Cardinality(Posting(d)') <= Cardinality(Posting(d)) + 1
        <3>1. CASE Posting(d)' = Posting(d)
            <4>1. Cardinality(Posting(d)) \in Nat
                BY <2>3, PostingChanges
            <4> QED BY <2>3, <3>1, <4>1
        <3>2. CASE Posting(d)' = Posting(d) \cup {w}
            BY <2>3, <3>2, PostingChanges
        <3> QED BY <2>2, <3>1, <3>2
    <2>5. attempt'[d] <= MaxAttempts => attempt[d] <= MaxAttempts /\ attempt'[d] = attempt[d] + 1
        BY <1>4, <2>1, DeliveryAssumption DEF CountUp, Counts
    <2>6. attempt'[d] <= MaxAttempts => posts'[d] + Cardinality(Posting(d)') <= attempt'[d]
        BY <1>2, <1>4, <2>4, <2>5, DeliveryAssumption DEF PostsAreCounted, Counts
    <2> QED BY <2>4, <2>6 DEF PostsAreCounted
<1>6. CASE d \notin taken
    <2>1. attempt'[d] = attempt[d] /\ flight'[w][d] = "none"
        BY <1>1, <1>6 DEF TInv, CountsOK
    <2>2. Posting(d)' = Posting(d)
        BY <1>2, <1>3, <2>1 DEF Posting
    <2> QED BY <1>2, <2>1, <2>2 DEF PostsAreCounted
<1> QED BY <1>5, <1>6

\* A POST ends and is no longer under way.
LEMMA PostCounts ==
    ASSUME TInv, NEW w \in Workers, NEW e \in Deliveries, Post(w, e), NEW d \in Deliveries, PostsAreCounted(d)
    PROVE  PostsAreCounted(d)'
<1>1. PICK answer \in {"2xx", "transient", "permanent", "transport"} :
        flight' = [flight EXCEPT ![w][e] = Classify(answer, number[w][e])]
    BY DEF Post
<1>2. attempt' = attempt /\ posts' = [posts EXCEPT ![e] = CountUp(@)] /\ flight[w][e] = "posting"
    BY DEF Post, rowVars
<1>3. number[w][e] \in Nat
    BY DeliveryAssumption DEF TInv, CountsOK, Counts
<1>4. Classify(answer, number[w][e]) \in Outcome
    BY <1>3, Classified
<1>5. attempt[d] \in Counts /\ posts[d] \in Counts
    BY DEF TInv, CountsOK
<1>6. CASE d = e
    <2>1. flight'[w][d] # "posting"
        BY <1>1, <1>4, <1>6 DEF TInv, CountsOK, Outcome
    <2>2. \A v \in Workers : v # w => flight'[v][d] = flight[v][d]
        BY <1>1 DEF TInv, CountsOK
    <2>3. Posting(d)' = Posting(d) \ {w} /\ w \in Posting(d)
        BY <1>2, <1>6, <2>1, <2>2 DEF Posting
    <2>4. IsFiniteSet(Posting(d))
        BY DEF PostsAreCounted
    <2>5. /\ IsFiniteSet(Posting(d)')
          /\ Cardinality(Posting(d)) \in Nat
          /\ Cardinality(Posting(d)') = Cardinality(Posting(d)) - 1
        BY <2>3, <2>4, PostingChanges
    <2>6. posts'[d] <= posts[d] + 1 /\ posts'[d] \in Nat
        BY <1>2, <1>5, <1>6, DeliveryAssumption DEF CountUp, Counts, TInv, CountsOK
    <2>7. attempt[d] <= MaxAttempts => posts'[d] + Cardinality(Posting(d)') <= attempt[d]
        BY <1>5, <2>5, <2>6, DeliveryAssumption DEF PostsAreCounted, Counts
    <2> QED BY <1>2, <2>5, <2>7 DEF PostsAreCounted
<1>7. CASE d # e
    <2>1. \A v \in Workers : flight'[v][d] = flight[v][d]
        BY <1>1, <1>7 DEF TInv, CountsOK
    <2>2. Posting(d)' = Posting(d) /\ posts'[d] = posts[d]
        BY <1>2, <1>7, <2>1 DEF Posting, TInv, CountsOK
    <2> QED BY <1>2, <2>2 DEF PostsAreCounted
<1> QED BY <1>6, <1>7

\* A tick that ends sends nothing more; what it had counted stays counted.
LEMMA EndTickCounts ==
    ASSUME TInv, NEW w \in Workers, EndTick(w), UNCHANGED <<attempt, posts>>, NEW d \in Deliveries, PostsAreCounted(d)
    PROVE  PostsAreCounted(d)'
<1>1. Posting(d)' = Posting(d) \ {w}
    BY DEF EndTick, Posting, TInv, CountsOK
<1>2. IsFiniteSet(Posting(d))
    BY DEF PostsAreCounted
<1>3. /\ IsFiniteSet(Posting(d)')
      /\ Cardinality(Posting(d)) \in Nat /\ Cardinality(Posting(d)') \in Nat
      /\ Cardinality(Posting(d)') <= Cardinality(Posting(d))
    <2>1. CASE w \in Posting(d)
        BY <1>1, <1>2, <2>1, PostingChanges
    <2>2. CASE w \notin Posting(d)
        <3>1. Posting(d)' = Posting(d)
            BY <1>1, <2>2
        <3>2. Cardinality(Posting(d)) \in Nat
            BY <1>2, PostingChanges
        <3> QED BY <1>2, <3>1, <3>2
    <2> QED BY <2>1, <2>2
<1>4. attempt[d] \in Counts /\ posts[d] \in Counts
    BY DEF TInv, CountsOK
<1>5. attempt[d] <= MaxAttempts => posts[d] + Cardinality(Posting(d)') <= attempt[d]
    BY <1>3, <1>4, DeliveryAssumption DEF PostsAreCounted, Counts
<1> QED BY <1>3, <1>5 DEF PostsAreCounted

\* Nothing is sent.
LEMMA SameCounts ==
    ASSUME UNCHANGED <<flight, attempt, posts>>, NEW d \in Deliveries, PostsAreCounted(d)
    PROVE  PostsAreCounted(d)'
BY DEF PostsAreCounted, Posting

\* No POST goes uncounted (_claim_pending commits the attempt before deliver is
\* called), for any number of replicas that send one row side by side and of
\* ticks lost between the POST and its record.
THEOREM EveryPostIsCounted == Spec => []AttemptsCoverPosts
<1> DEFINE Counted == \A d \in Deliveries : PostsAreCounted(d)
<1>1. Init => Counted
    <2> SUFFICES ASSUME Init, NEW d \in Deliveries PROVE PostsAreCounted(d)
        OBVIOUS
    <2>1. Posting(d) = {} /\ posts[d] = 0 /\ attempt[d] = 0
        BY DEF Init, Posting
    <2> QED BY <2>1, FS_EmptySet DEF PostsAreCounted
<1>2. TInv /\ Counted /\ [Next]_vars => Counted'
    <2> SUFFICES ASSUME TInv, Counted, [Next]_vars, NEW d \in Deliveries PROVE PostsAreCounted(d)'
        OBVIOUS
    <2>1. ASSUME NEW e \in Deliveries, EmitEvent(e) \/ UpdateSubscription(e) \/ RetryFallsDue(e)
          PROVE  PostsAreCounted(d)'
        BY <2>1, SameCounts DEF EmitEvent, UpdateSubscription, RetryFallsDue, rowVars, tickVars, historyVars
    <2>2. ASSUME NEW w \in Workers, NEW locked, Claim(w, locked) PROVE PostsAreCounted(d)'
        BY <2>2, ClaimCounts
    <2>3. ASSUME NEW w \in Workers, NEW e \in Deliveries, Post(w, e) PROVE PostsAreCounted(d)'
        BY <2>3, PostCounts
    <2>4. ASSUME NEW w \in Workers, RecordOutcomes(w) \/ Crash(w) PROVE PostsAreCounted(d)'
        BY <2>4, EndTickCounts DEF RecordOutcomes, Crash, rowVars, historyVars
    <2>5. CASE UNCHANGED vars
        BY <2>5, SameCounts DEF vars
    <2>6. ASSUME NEW w \in Workers, EmptyTick(w) PROVE PostsAreCounted(d)'
        BY <2>6, <2>5 DEF EmptyTick
    <2> QED
        BY <2>1, <2>2, <2>3, <2>4, <2>5, <2>6 DEF Next, ClaimPending, Deliver
<1>3. TInv /\ Counted => AttemptsCoverPosts
    <2> SUFFICES ASSUME TInv, Counted, NEW d \in Deliveries PROVE posts[d] <= attempt[d]
        BY DEF AttemptsCoverPosts
    <2>1. attempt[d] \in Counts /\ posts[d] \in Counts
        BY DEF TInv, CountsOK
    <2>2. PostsAreCounted(d)
        OBVIOUS
    <2>3. Cardinality(Posting(d)) \in Nat
        BY <2>2, FS_CardinalityType DEF PostsAreCounted
    <2> QED BY <2>1, <2>2, <2>3, DeliveryAssumption DEF PostsAreCounted, Counts
<1> QED BY <1>1, <1>2, <1>3, TypeInvariant, PTL DEF Spec

=============================================================================
