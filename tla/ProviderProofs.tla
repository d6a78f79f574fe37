--------------------------- MODULE ProviderProofs ---------------------------
(* Theorems about what MCProvider runs, for every value of the constants: a   *)
(* request's way through the router, and the stream it is answered by. The    *)
(* router's invariant (Ordered) says what the attempts so far tell of the     *)
(* candidates, the stream's (FlowInv) that every event the adapter sent is at *)
(* one place of the chain and in its turn.                                    *)
EXTENDS MCProvider, SequenceTheorems, FiniteSetTheorems, TLAPS

-----------------------------------------------------------------------------
(* Sequences                                                               *)

\* What Append gives.
LEMMA Appended ==
  ASSUME NEW X, NEW s \in Seq(X), NEW e \in X
  PROVE  /\ Append(s, e) \in Seq(X)
         /\ Len(Append(s, e)) = Len(s) + 1
         /\ Append(s, e)[Len(s) + 1] = e
         /\ \A i \in 1 .. Len(s) : Append(s, e)[i] = s[i]
OBVIOUS

\* How many are picked from a sequence is a number.
LEMMA PickedAreCounted ==
  ASSUME NEW n \in Nat, NEW positions, positions \subseteq 1 .. n
  PROVE  Cardinality(positions) \in Nat
<1>1. IsFiniteSet(1 .. n)
  BY FS_Interval
<1>2. IsFiniteSet(positions)
  BY <1>1, FS_Subset
<1> QED
  BY <1>2, FS_CardinalityType

-----------------------------------------------------------------------------
(* The router                                                              *)

\* What may stand in dec.Attempts of a request.
Attempt(r) ==
  [target : {cands[r][i] : i \in 1 .. Len(cands[r])}, tried : BOOLEAN, why : Outcomes \cup {"ok"}]

\* How the attempts so far, where the request is and what it returned go
\* together.
Ordered(r) ==
  LET n == Len(attempts[r])
  IN  /\ attempts[r] \in Seq(Attempt(r))
      /\ Len(cands[r]) \in Nat /\ n <= Len(cands[r])
      /\ pc[r] = "idle" => n = 0
      /\ pc[r] \in {"considering", "peeking"} => n < Len(cands[r])
      /\ \A i \in 1 .. n : attempts[r][i].target = cands[r][i]
      /\ \A i \in 1 .. n : attempts[r][i].tried =>
           attempts[r][i].why \in Retryable \/ (i = n /\ pc[r] = "returned")
      /\ (pc[r] = "returned" /\ n > 0) =>
           IF attempts[r][n].tried /\ attempts[r][n].why = "ok" THEN result[r] = "served"
           ELSE IF attempts[r][n].tried /\ attempts[r][n].why \notin Retryable
                THEN result[r] = attempts[r][n].why
           ELSE n = Len(cands[r]) /\ result[r] = attempts[r][1].why

Stages == {"idle", "considering", "peeking", "probing", "returned"}

RouterInv ==
  /\ pc \in [Requests \cup Probers -> Stages]
  /\ DOMAIN cands = Requests /\ DOMAIN attempts = Requests /\ DOMAIN result = Requests
  /\ \A r \in Requests : Ordered(r)

\* The candidates are a sequence, and there is one unless nothing was found.
LEMMA CandidatesAreSequence ==
  ASSUME NEW s
  PROVE  /\ Len(Candidates(s)) \in Nat
         /\ Candidates(s) # <<>> => 0 < Len(Candidates(s))
<1> DEFINE others == Picked(Fallback,
                       {i \in DOMAIN Fallback : Fallback[i] # Primary(s).provider})
           rest == [i \in DOMAIN others |->
                      [provider |-> others[i], model |-> ModelFor(others[i], ClassFor(s), s.model)]]
           tail == IF s.noFallback THEN <<>> ELSE rest
<1>1. PICK m \in Nat : DOMAIN others = 1 .. m
  <2>1. Fallback \in Seq(Range(Fallback))
    BY RouterAssumption DEF RouterAssumption
  <2>2. Len(Fallback) \in Nat /\ DOMAIN Fallback = 1 .. Len(Fallback)
    BY <2>1
  <2>3. {i \in DOMAIN Fallback : Fallback[i] # Primary(s).provider} \subseteq 1 .. Len(Fallback)
    BY <2>2
  <2>4. DOMAIN others = 1 .. Cardinality({i \in DOMAIN Fallback : Fallback[i] # Primary(s).provider})
    BY DEF Picked
  <2> QED
    BY <2>2, <2>3, <2>4, PickedAreCounted
<1>2. \E X : rest \in Seq(X)
  <2> DEFINE X == {rest[i] : i \in 1 .. m}
  <2>1. rest = [i \in 1 .. m |-> rest[i]]
    BY <1>1
  <2> HIDE DEF rest
  <2>2. \A i \in 1 .. m : rest[i] \in X
    OBVIOUS
  <2> HIDE DEF X
  <2>3. rest \in Seq(X)
    BY <2>1, <2>2
  <2> QED
    BY <2>3
<1>3. PICK X : tail \in Seq(X)
  <2>1. PICK X : rest \in Seq(X)
    BY <1>2
  <2> HIDE DEF rest
  <2>2. <<>> \in Seq(X)
    OBVIOUS
  <2>3. tail \in Seq(X)
    BY <2>1, <2>2
  <2> QED
    BY <2>3
<1>4. Candidates(s) = IF Primary(s) = NoTarget THEN <<>> ELSE <<Primary(s)>> \o tail
  BY DEF Candidates
<1> DEFINE first == Primary(s)
<1> HIDE DEF tail, first
<1>5. LET c == <<first>> \o tail IN Len(c) \in Nat /\ 0 < Len(c)
  BY <1>3
<1>6. Len(<<>>) \in Nat
  OBVIOUS
<1> QED
  BY <1>4, <1>5, <1>6 DEF first

LEMMA RouterInit == Init => RouterInv
<1> SUFFICES ASSUME Init PROVE RouterInv
  OBVIOUS
<1>1. \A r \in Requests : Ordered(r)
  <2> TAKE r \in Requests
  <2>1. pc[r] = "idle" /\ cands[r] = <<>> /\ attempts[r] = <<>>
    BY DEF Init
  <2> QED
    BY <2>1 DEF Ordered
<1>2. pc \in [Requests \cup Probers -> Stages]
  BY DEF Init, Stages
<1> QED
  BY <1>1, <1>2 DEF Init, RouterInv

\* A request of which a step says nothing.
LEMMA OrderedStays ==
  ASSUME NEW r \in Requests, Ordered(r),
         pc'[r] = pc[r], cands'[r] = cands[r], attempts'[r] = attempts[r], result'[r] = result[r]
  PROVE  Ordered(r)'
BY DEF Ordered, Attempt

\* What recording an attempt adds.
LEMMA Recorded ==
  ASSUME RouterInv, NEW r \in Requests, NEW tried \in BOOLEAN, NEW why \in Outcomes \cup {"ok"},
         pc[r] \in {"considering", "peeking"}, Record(r, tried, why), cands' = cands
  PROVE  LET n == Len(attempts[r])
         IN  /\ attempts'[r] \in Seq(Attempt(r))
             /\ Len(attempts'[r]) = n + 1
             /\ attempts'[r][n + 1] = [target |-> cands[r][n + 1], tried |-> tried, why |-> why]
             /\ \A i \in 1 .. n : attempts'[r][i] = attempts[r][i]
<1> DEFINE e == [target |-> Target(r), tried |-> tried, why |-> why]
<1>1. attempts[r] \in Seq(Attempt(r)) /\ Len(attempts[r]) < Len(cands[r]) /\ Len(cands[r]) \in Nat
  BY DEF RouterInv, Ordered
<1>2. Target(r) = cands[r][Len(attempts[r]) + 1]
  BY DEF Target, Index
<1>3. Len(attempts[r]) + 1 \in 1 .. Len(cands[r])
  <2>1. Len(attempts[r]) \in Nat
    BY <1>1
  <2> QED
    BY <2>1, <1>1
<1>4. e \in Attempt(r)
  BY <1>2, <1>3 DEF Attempt
<1>5. attempts'[r] = Append(attempts[r], e)
  BY DEF Record, RouterInv
<1> HIDE DEF e
<1>6. /\ Append(attempts[r], e) \in Seq(Attempt(r))
      /\ Len(Append(attempts[r], e)) = Len(attempts[r]) + 1
      /\ Append(attempts[r], e)[Len(attempts[r]) + 1] = e
      /\ \A i \in 1 .. Len(attempts[r]) : Append(attempts[r], e)[i] = attempts[r][i]
  BY <1>1, <1>4, Appended
<1> QED
  BY <1>2, <1>5, <1>6 DEF e

\* A candidate is left for the next one, or the last of them was.
LEMMA OrderedMovesOn ==
  ASSUME RouterInv, NEW r \in Requests, NEW tried \in BOOLEAN, NEW why \in Outcomes \cup {"ok"},
         tried => why \in Retryable,
         pc[r] \in {"considering", "peeking"}, MoveOn(r, tried, why), cands' = cands
  PROVE  RouterInv'
<1> DEFINE n == Len(attempts[r])
<1>1. Record(r, tried, why)
  BY DEF MoveOn
<1>2. /\ attempts'[r] \in Seq(Attempt(r))
      /\ Len(attempts'[r]) = n + 1
      /\ attempts'[r][n + 1] = [target |-> cands[r][n + 1], tried |-> tried, why |-> why]
      /\ \A i \in 1 .. n : attempts'[r][i] = attempts[r][i]
  BY <1>1, Recorded
<1>3. Ordered(r) /\ n \in Nat /\ Len(cands[r]) \in Nat /\ n < Len(cands[r])
  <2>1. Ordered(r) /\ attempts[r] \in Seq(Attempt(r))
    BY DEF RouterInv, Ordered
  <2>2. n \in Nat
    BY <2>1
  <2> QED
    BY <2>1, <2>2 DEF Ordered
<1>4. IF n + 1 < Len(cands[r])
      THEN pc'[r] = "considering" /\ result'[r] = result[r]
      ELSE pc'[r] = "returned" /\ result'[r] = attempts'[r][1].why
  BY DEF MoveOn, Return, RouterInv, Index
<1>5. \A x \in Requests \ {r} :
        pc'[x] = pc[x] /\ cands'[x] = cands[x] /\ attempts'[x] = attempts[x] /\ result'[x] = result[x]
  BY <1>1 DEF MoveOn, Record, Return, RouterInv
<1>6. /\ \A i \in 1 .. n : attempts[r][i].target = cands[r][i]
      /\ \A i \in 1 .. n : attempts[r][i].tried => attempts[r][i].why \in Retryable
  BY <1>3 DEF Ordered
<1>7. /\ \A i \in 1 .. n + 1 : attempts'[r][i].target = cands[r][i]
      /\ \A i \in 1 .. n + 1 : attempts'[r][i].tried => attempts'[r][i].why \in Retryable
  <2> HIDE DEF n
  <2>1. \A i \in 1 .. n + 1 : i \in 1 .. n \/ i = n + 1
    BY <1>3
  <2> QED
    BY <1>2, <1>6, <2>1
<1>8. Ordered(r)'
  <2>1. "ok" \notin Retryable
    BY DEF Retryable
  <2>2. Attempt(r)' = Attempt(r)
    BY DEF Attempt
  <2> HIDE DEF n
  <2>3. ~(n + 1 < Len(cands[r])) => n + 1 = Len(cands[r])
    BY <1>3
  <2>4. n + 1 \in 1 .. n + 1
    BY <1>3
  <2> QED
    BY <1>2, <1>3, <1>4, <1>7, <2>1, <2>2, <2>3, <2>4 DEF Ordered
<1>9. \A x \in Requests : Ordered(x)'
  BY <1>5, <1>8, OrderedStays DEF RouterInv
<1>10. pc' \in [Requests \cup Probers -> Stages]
  BY DEF RouterInv, MoveOn, Return, Stages
<1> QED
  BY <1>1, <1>9, <1>10 DEF RouterInv, MoveOn, Record, Return

\* The request ends at a candidate.
LEMMA OrderedStops ==
  ASSUME RouterInv, NEW r \in Requests, NEW why \in Outcomes \cup {"ok"}, NEW told,
         why \notin Retryable, told = IF why = "ok" THEN "served" ELSE why,
         pc[r] \in {"considering", "peeking"}, Record(r, TRUE, why), Return(r, told), cands' = cands
  PROVE  RouterInv'
<1> DEFINE n == Len(attempts[r])
<1>2. /\ attempts'[r] \in Seq(Attempt(r))
      /\ Len(attempts'[r]) = n + 1
      /\ attempts'[r][n + 1] = [target |-> cands[r][n + 1], tried |-> TRUE, why |-> why]
      /\ \A i \in 1 .. n : attempts'[r][i] = attempts[r][i]
  BY Recorded
<1>3. Ordered(r) /\ n \in Nat /\ Len(cands[r]) \in Nat /\ n < Len(cands[r])
  <2>1. Ordered(r) /\ attempts[r] \in Seq(Attempt(r))
    BY DEF RouterInv, Ordered
  <2>2. n \in Nat
    BY <2>1
  <2> QED
    BY <2>1, <2>2 DEF Ordered
<1>4. pc'[r] = "returned" /\ result'[r] = told
  BY DEF Return, RouterInv
<1>5. \A x \in Requests \ {r} :
        pc'[x] = pc[x] /\ cands'[x] = cands[x] /\ attempts'[x] = attempts[x] /\ result'[x] = result[x]
  BY DEF Record, Return, RouterInv
<1>6. /\ \A i \in 1 .. n : attempts[r][i].target = cands[r][i]
      /\ \A i \in 1 .. n : attempts[r][i].tried => attempts[r][i].why \in Retryable
  BY <1>3 DEF Ordered
<1>7. /\ \A i \in 1 .. n + 1 : attempts'[r][i].target = cands[r][i]
      /\ \A i \in 1 .. n + 1 : attempts'[r][i].tried =>
           attempts'[r][i].why \in Retryable \/ i = n + 1
  <2> HIDE DEF n
  <2>1. \A i \in 1 .. n + 1 : i \in 1 .. n \/ i = n + 1
    BY <1>3
  <2> QED
    BY <1>2, <1>6, <2>1
<1>8. Ordered(r)'
  <2>2. Attempt(r)' = Attempt(r)
    BY DEF Attempt
  <2> HIDE DEF n
  <2>3. n + 1 \in Nat /\ n + 1 <= Len(cands[r])
    BY <1>3
  <2> QED
    BY <1>2, <1>3, <1>4, <1>7, <2>2, <2>3 DEF Ordered
<1>9. \A x \in Requests : Ordered(x)'
  BY <1>5, <1>8, OrderedStays DEF RouterInv
<1>10. pc' \in [Requests \cup Probers -> Stages]
  BY DEF RouterInv, Return, Stages
<1> QED
  BY <1>9, <1>10 DEF RouterInv, Record, Return

LEMMA RouterStutters == ASSUME RouterInv, UNCHANGED vars PROVE RouterInv'
BY OrderedStays DEF vars, RouterInv

LEMMA RouterBegins ==
  ASSUME RouterInv, NEW r \in Requests, NEW s, Begin(r, s)
  PROVE  RouterInv'
<1>1. /\ attempts' = attempts
      /\ cands'[r] = Candidates(s)
      /\ IF Candidates(s) = <<>> THEN pc'[r] = "returned" ELSE pc'[r] = "considering"
  BY DEF Begin, Return, RouterInv
<1>2. attempts[r] \in Seq(Attempt(r)) /\ Len(attempts[r]) = 0
  BY DEF Begin, RouterInv, Ordered
<1>3. attempts[r] = <<>>
  BY <1>2
<1>4. Ordered(r)'
  <2>1. Len(Candidates(s)) \in Nat /\ (Candidates(s) # <<>> => 0 < Len(Candidates(s)))
    BY CandidatesAreSequence
  <2>2. Len(attempts'[r]) = 0 /\ attempts'[r] \in Seq(Attempt(r)')
    BY <1>1, <1>3
  <2>3. 0 <= Len(Candidates(s))
    BY <2>1
  <2> QED
    BY <1>1, <2>1, <2>2, <2>3 DEF Ordered
<1>5. \A x \in Requests \ {r} :
        pc'[x] = pc[x] /\ cands'[x] = cands[x] /\ attempts'[x] = attempts[x] /\ result'[x] = result[x]
  BY DEF Begin, Return, RouterInv
<1>6. \A x \in Requests : Ordered(x)'
  BY <1>4, <1>5, OrderedStays DEF RouterInv
<1>7. pc' \in [Requests \cup Probers -> Stages]
  BY DEF RouterInv, Begin, Return, Stages
<1> QED
  BY <1>6, <1>7 DEF RouterInv, Begin, Return

LEMMA RouterSkips ==
  ASSUME RouterInv, NEW r \in Requests, Skip(r)
  PROVE  RouterInv'
<1>1. PICK why \in Skips(r) : MoveOn(r, FALSE, why)
  BY DEF Skip
<1>2. why \in Outcomes
  BY DEF Skips, CheckErrors, Outcomes
<1> QED
  BY <1>1, <1>2, OrderedMovesOn DEF Skip

LEMMA RouterFails ==
  ASSUME RouterInv, NEW r \in Requests, pc[r] = "peeking",
         NEW why \in Failures \cup {"malformed_response", "cancelled"}, Fail(r, why)
  PROVE  RouterInv'
<1>1. why \in Outcomes /\ why # "ok"
  BY RouterAssumption DEF Outcomes, RouterAssumption
<1>2. CASE why \in Retryable
  BY <1>1, <1>2, OrderedMovesOn DEF Fail
<1>3. CASE why \notin Retryable
  BY <1>1, <1>3, OrderedStops DEF Fail
<1> QED
  BY <1>2, <1>3

LEMMA RouterStep == RouterInv /\ [Next]_vars => RouterInv'
<1> SUFFICES ASSUME RouterInv, [Next]_vars PROVE RouterInv'
  OBVIOUS
<1>1. ASSUME NEW r \in Requests, NEW s \in Selections[r], Begin(r, s) PROVE RouterInv'
  BY <1>1, RouterBegins
<1>2. ASSUME NEW r \in Requests, Skip(r) PROVE RouterInv'
  BY <1>2, RouterSkips
<1>3. ASSUME NEW r \in Requests, Contact(r) PROVE RouterInv'
  <2>1. /\ pc[r] = "considering" /\ pc' = [pc EXCEPT ![r] = "peeking"]
        /\ UNCHANGED <<cands, attempts, result>>
    BY <1>3 DEF Contact
  <2>2. pc'[r] = "peeking" /\ \A x \in Requests \ {r} : pc'[x] = pc[x]
    BY <2>1 DEF RouterInv
  <2>3. Ordered(r)'
    <3>1. Attempt(r)' = Attempt(r)
      BY <2>1 DEF Attempt
    <3> QED
      BY <2>1, <2>2, <3>1 DEF RouterInv, Ordered
  <2>4. \A x \in Requests : Ordered(x)'
    BY <2>1, <2>2, <2>3, OrderedStays DEF RouterInv
  <2>5. pc' \in [Requests \cup Probers -> Stages]
    BY <2>1 DEF RouterInv, Stages
  <2> QED
    BY <2>1, <2>4, <2>5 DEF RouterInv
<1>4. ASSUME NEW r \in Requests, PeekError(r) PROVE RouterInv'
  BY <1>4, RouterFails DEF PeekError
<1>5. ASSUME NEW r \in Requests, PeekEnded(r) PROVE RouterInv'
  BY <1>5, RouterFails DEF PeekEnded
<1>6. ASSUME NEW r \in Requests, PeekEvent(r) PROVE RouterInv'
  <2>1. "ok" \notin Retryable
    BY DEF Retryable
  <2> QED
    BY <1>6, <2>1, OrderedStops DEF PeekEvent
<1>7. ASSUME NEW r \in Requests, EndContext(r) PROVE RouterInv'
  BY <1>7, OrderedStays DEF EndContext, RouterInv
<1>8. ASSUME NEW q \in Probers, LearnHealth(q) \/ \E p \in Registered : AskHealth(q, p)
      PROVE  RouterInv'
  <2>1. /\ UNCHANGED <<cands, attempts, result>>
        /\ pc' = [pc EXCEPT ![q] = "idle"] \/ pc' = [pc EXCEPT ![q] = "probing"]
    BY <1>8 DEF LearnHealth, AskHealth
  <2>2. \A x \in Requests : pc'[x] = pc[x]
    BY <2>1, RouterAssumption DEF RouterInv, RouterAssumption
  <2>3. \A x \in Requests : Ordered(x)'
    BY <2>1, <2>2, OrderedStays DEF RouterInv
  <2>4. pc' \in [Requests \cup Probers -> Stages]
    BY <2>1 DEF RouterInv, Stages
  <2> QED
    BY <2>1, <2>3, <2>4 DEF RouterInv
<1>9. ASSUME NEW p \in Names, Expire(p) PROVE RouterInv'
  BY <1>9, OrderedStays DEF Expire, RouterInv
<1>10. CASE UNCHANGED vars
  BY <1>10, RouterStutters
<1> QED
  BY <1>1, <1>2, <1>3, <1>4, <1>5, <1>6, <1>7, <1>8, <1>9, <1>10 DEF Next, Consider

LEMMA OrderedFallsBack == RouterInv => FallsBackInOrder
<1> SUFFICES ASSUME RouterInv, NEW r \in Requests
    PROVE  LET n == Len(attempts[r])
               tried == [i \in 1 .. n |-> attempts[r][i].tried]
               why == [i \in 1 .. n |-> attempts[r][i].why]
           IN  /\ \A i \in 1 .. n : attempts[r][i].target = cands[r][i]
               /\ \A i \in 1 .. n - 1 : tried[i] => why[i] \in Retryable
               /\ pc[r] = "returned" /\ n > 0 =>
                    CASE tried[n] /\ why[n] = "ok" -> result[r] = "served"
                      [] tried[n] /\ why[n] \notin Retryable \cup {"ok"} -> result[r] = why[n]
                      [] OTHER -> n = Len(cands[r]) /\ result[r] = why[1]
  BY DEF FallsBackInOrder
<1> DEFINE n == Len(attempts[r])
           tried == [i \in 1 .. n |-> attempts[r][i].tried]
           why == [i \in 1 .. n |-> attempts[r][i].why]
<1>1. n \in Nat
  <2>1. attempts[r] \in Seq(Attempt(r))
    BY DEF RouterInv, Ordered
  <2> QED
    BY <2>1
<1>2. /\ \A i \in 1 .. n : attempts[r][i].target = cands[r][i]
      /\ \A i \in 1 .. n : attempts[r][i].tried =>
           attempts[r][i].why \in Retryable \/ (i = n /\ pc[r] = "returned")
      /\ (pc[r] = "returned" /\ n > 0) =>
           IF attempts[r][n].tried /\ attempts[r][n].why = "ok" THEN result[r] = "served"
           ELSE IF attempts[r][n].tried /\ attempts[r][n].why \notin Retryable
                THEN result[r] = attempts[r][n].why
           ELSE n = Len(cands[r]) /\ result[r] = attempts[r][1].why
  BY DEF RouterInv, Ordered
<1>3. \A i \in 1 .. n : tried[i] = attempts[r][i].tried /\ why[i] = attempts[r][i].why
  OBVIOUS
<1> HIDE DEF n, tried, why
<1>4. \A i \in 1 .. n - 1 : i \in 1 .. n /\ i # n
  BY <1>1
<1>5. \A i \in 1 .. n - 1 : tried[i] => why[i] \in Retryable
  BY <1>2, <1>3, <1>4
<1>6. ASSUME pc[r] = "returned", n > 0
      PROVE  CASE tried[n] /\ why[n] = "ok" -> result[r] = "served"
               [] tried[n] /\ why[n] \notin Retryable \cup {"ok"} -> result[r] = why[n]
               [] OTHER -> n = Len(cands[r]) /\ result[r] = why[1]
  <2>1. n \in 1 .. n /\ 1 \in 1 .. n
    BY <1>1, <1>6
  <2>2. /\ tried[n] = attempts[r][n].tried /\ why[n] = attempts[r][n].why
        /\ why[1] = attempts[r][1].why
    BY <1>3, <2>1
  <2>3. "ok" \notin Retryable
    BY DEF Retryable
  <2>4. CASE tried[n] /\ why[n] = "ok"
    BY <1>2, <1>6, <2>2, <2>4
  <2>5. CASE tried[n] /\ why[n] # "ok" /\ why[n] \notin Retryable
    BY <1>2, <1>6, <2>2, <2>5
  <2>6. CASE ~(tried[n] /\ why[n] = "ok") /\ ~(tried[n] /\ why[n] \notin Retryable)
    BY <1>2, <1>6, <2>2, <2>3, <2>6
  <2> QED
    BY <2>4, <2>5, <2>6
<1> QED
  BY <1>2, <1>5, <1>6 DEF n, tried, why

\* Whatever the backends answer, whatever other requests and the status page
\* learn of them meanwhile, and whenever contexts end, a request goes through
\* its candidates in order, leaves one it tried for the next only after a failure
\* worth a retry, and reports what decided it (router.go Do, Chat).
THEOREM RequestsFallBackInOrder == Spec => []FallsBackInOrder
<1>1. Init => RouterInv
  BY RouterInit
<1>2. RouterInv /\ [Next]_vars => RouterInv'
  BY RouterStep
<1>3. RouterInv => FallsBackInOrder
  BY OrderedFallsBack
<1> QED
  BY <1>1, <1>2, <1>3, PTL DEF Spec

-----------------------------------------------------------------------------
(* Sequences of whatever                                                   *)

IsSeq(s) == \E X : s \in Seq(X)

LEMMA EmptyIsSeq == IsSeq(<<>>) /\ Len(<<>>) = 0
<1>1. <<>> \in Seq({})
  OBVIOUS
<1> QED
  BY <1>1 DEF IsSeq

LEMMA OneIsSeq ==
  ASSUME NEW e
  PROVE  IsSeq(<<e>>) /\ Len(<<e>>) = 1 /\ <<e>>[1] = e
<1>1. <<e>> \in Seq({e})
  OBVIOUS
<1> QED
  BY <1>1 DEF IsSeq

LEMMA LengthIsNat ==
  ASSUME NEW s, IsSeq(s)
  PROVE  Len(s) \in Nat /\ DOMAIN s = 1 .. Len(s) /\ (s # <<>> => 0 < Len(s))
BY DEF IsSeq

LEMMA FunctionIsSeq ==
  ASSUME NEW n \in Nat, NEW s, s = [i \in 1 .. n |-> s[i]]
  PROVE  IsSeq(s) /\ Len(s) = n
<1> DEFINE X == {s[i] : i \in 1 .. n}
<1>1. \A i \in 1 .. n : s[i] \in X
  OBVIOUS
<1> HIDE DEF X
<1>2. s \in Seq(X)
  BY <1>1
<1>3. DOMAIN s = 1 .. n
  OBVIOUS
<1>4. Len(s) = n
  BY <1>2, <1>3
<1> QED
  BY <1>2, <1>4 DEF IsSeq

LEMMA AppendIsSeq ==
  ASSUME NEW s, IsSeq(s), NEW e
  PROVE  /\ IsSeq(Append(s, e))
         /\ Len(Append(s, e)) = Len(s) + 1
         /\ Append(s, e)[Len(s) + 1] = e
         /\ \A i \in 1 .. Len(s) : Append(s, e)[i] = s[i]
         /\ Append(s, e) = s \o <<e>>
         /\ Append(s, e) # <<>>
<1>1. PICK X : s \in Seq(X)
  BY DEF IsSeq
<1> DEFINE Y == X \cup {e}
<1>2. s \in Seq(Y) /\ e \in Y
  BY <1>1
<1> HIDE DEF Y
<1>3. Append(s, e) \in Seq(Y)
  BY <1>2
<1>4. /\ Len(Append(s, e)) = Len(s) + 1
      /\ Append(s, e)[Len(s) + 1] = e
      /\ \A i \in 1 .. Len(s) : Append(s, e)[i] = s[i]
      /\ Append(s, e) # <<>>
  BY <1>2
<1>5. Append(s, e) = s \o <<e>>
  BY <1>2
<1> QED
  BY <1>3, <1>4, <1>5 DEF IsSeq

LEMMA ConcatIsSeq ==
  ASSUME NEW s, IsSeq(s), NEW t, IsSeq(t)
  PROVE  /\ IsSeq(s \o t)
         /\ Len(s \o t) = Len(s) + Len(t)
         /\ \A i \in 1 .. Len(s) + Len(t) :
              (s \o t)[i] = IF i <= Len(s) THEN s[i] ELSE t[i - Len(s)]
<1>1. PICK X, Y : s \in Seq(X) /\ t \in Seq(Y)
  BY DEF IsSeq
<1> DEFINE Z == X \cup Y
<1>2. s \in Seq(Z) /\ t \in Seq(Z)
  BY <1>1
<1> HIDE DEF Z
<1>3. s \o t \in Seq(Z)
  BY <1>2
<1>4. /\ Len(s \o t) = Len(s) + Len(t)
      /\ \A i \in 1 .. Len(s) + Len(t) :
           (s \o t)[i] = IF i <= Len(s) THEN s[i] ELSE t[i - Len(s)]
  BY <1>2
<1> QED
  BY <1>3, <1>4 DEF IsSeq

LEMMA ConcatEmpty ==
  ASSUME NEW s, IsSeq(s)
  PROVE  <<>> \o s = s /\ s \o <<>> = s
BY DEF IsSeq

\* The concatenation, closed to the provers: they need no more of it than these
\* lemmas.
Then(s, t) == s \o t

LEMMA ThenIsSeq ==
  ASSUME NEW s, IsSeq(s), NEW t, IsSeq(t)
  PROVE  IsSeq(Then(s, t))
BY ConcatIsSeq DEF Then

LEMMA ThenTwice ==
  ASSUME NEW s, IsSeq(s), NEW t, IsSeq(t), NEW u, IsSeq(u)
  PROVE  Then(Then(s, t), u) = Then(s, Then(t, u))
<1>1. PICK X, Y, W : s \in Seq(X) /\ t \in Seq(Y) /\ u \in Seq(W)
  BY DEF IsSeq
<1> DEFINE Z == X \cup Y \cup W
<1>2. s \in Seq(Z) /\ t \in Seq(Z) /\ u \in Seq(Z)
  BY <1>1
<1> HIDE DEF Z
<1> QED
  BY <1>2, ConcatAssociative DEF Then

LEMMA AppendIsThen ==
  ASSUME NEW s, IsSeq(s), NEW e
  PROVE  Append(s, e) = Then(s, <<e>>)
BY AppendIsSeq DEF Then

LEMMA TailIsSeq ==
  ASSUME NEW s, IsSeq(s), s # <<>>
  PROVE  /\ IsSeq(Tail(s))
         /\ Len(Tail(s)) = Len(s) - 1
         /\ Head(s) = s[1]
         /\ \A i \in 1 .. Len(s) - 1 : Tail(s)[i] = s[i + 1]
         /\ <<Head(s)>> \o Tail(s) = s
<1>1. PICK X : s \in Seq(X)
  BY DEF IsSeq
<1>2. /\ Tail(s) \in Seq(X)
      /\ Len(Tail(s)) = Len(s) - 1
      /\ Head(s) = s[1]
      /\ \A i \in 1 .. Len(s) - 1 : Tail(s)[i] = s[i + 1]
  BY <1>1
<1>3. <<Head(s)>> \o Tail(s) = s
  BY <1>1
<1> QED
  BY <1>2, <1>3 DEF IsSeq

-----------------------------------------------------------------------------
(* The stream                                                              *)

\* Only these two events end a stream.
EndsKnown(events) ==
  \A i \in 1 .. Len(events) : S!IsTerminal(events[i]) => events[i] \in {S!Done, S!Error}

\* The events of four sequences, one after the other.
Chain(g, o, h, r) == Then(g, Then(o, Then(h, r)))

StreamShape ==
  /\ IsSeq(calls) /\ IsSeq(pending) /\ IsSeq(emitted)
  /\ IsSeq(raw) /\ IsSeq(hand) /\ IsSeq(out) /\ IsSeq(got)
  /\ next \in Nat /\ 1 <= next
  /\ adapter \in {"off", "on", "ended"}
  /\ adapter # "off" => script \in Scripts
  /\ EndsKnown(pending)

\* As long as the ferry runs, what was emitted is what collect has, what its
\* channel holds, what the ferry holds and what the adapter's channel holds, in
\* this order; a ferry that ended on its own has left nothing behind, and one that
\* drains has nobody who takes its stream for an answer.
FlowInv ==
  /\ ferry \in {"off", "give", "take"} => Chain(got, out, hand, raw) = emitted
  /\ ferry = "off" => got = <<>> /\ out = <<>> /\ hand = <<>>
  /\ ferry = "take" => hand = <<>>
  /\ ferry = "drain" => outcome \notin {"", "failing", "answer"}
  /\ (ferry = "ended" /\ ~ctxEnded /\ outcome \in {"", "failing"}) =>
       got \o out = emitted /\ adapter = "ended"

\* The adapter ends at the event that ends the stream and at no other, unless the
\* context ended.
EndInv ==
  /\ \A i \in 1 .. Len(emitted) : S!IsTerminal(emitted[i]) =>
       i = Len(emitted) /\ adapter = "ended" /\ emitted[i] \in {S!Done, S!Error}
  /\ adapter = "ended" => ctxEnded \/ (emitted # <<>> /\ S!IsTerminal(emitted[Len(emitted)]))
  /\ outcome \in {"", "answer"} => \A i \in 1 .. Len(got) : got[i] # S!Error
  /\ outcome = "answer" => ferry = "ended" /\ adapter = "ended" /\ S!AnswerIsWhole

StreamInv == StreamShape /\ FlowInv /\ EndInv

LEMMA StreamInit == S!Init => StreamInv
<1> SUFFICES ASSUME S!Init PROVE StreamInv
  OBVIOUS
<1>1. /\ next = 1 /\ adapter = "off" /\ ferry = "off" /\ outcome = ""
      /\ calls = <<>> /\ pending = <<>> /\ emitted = <<>>
      /\ raw = <<>> /\ hand = <<>> /\ out = <<>> /\ got = <<>>
  BY Zenon DEF S!Init
<1>0. \A i \in 1 .. Len(<<>>) : FALSE
  OBVIOUS
<1>2. StreamShape
  <2>1. EndsKnown(pending)
    BY <1>0, <1>1 DEF EndsKnown
  <2>2. next \in Nat /\ 1 <= next
    <3>1. 1 \in Nat /\ 1 <= 1
      OBVIOUS
    <3> QED
      BY <1>1, <3>1
  <2> QED
    BY <1>1, <2>1, <2>2, EmptyIsSeq, Zenon DEF StreamShape
<1>3. FlowInv
  BY <1>1, EmptyIsSeq, ConcatEmpty DEF FlowInv, Chain, Then
<1>4. EndInv
  BY <1>0, <1>1 DEF EndInv
<1> QED
  BY <1>2, <1>3, <1>4 DEF StreamInv

\* An instance counts like the module it is in.
LEMMA SameCount == ASSUME NEW x PROVE S!Cardinality(x) = Cardinality(x)
BY Zenon DEF S!Cardinality, Cardinality

\* The end of a stream: the calls that were left, then the event that says so.
LEMMA CompletionEnds ==
  ASSUME IsSeq(calls)
  PROVE  IsSeq(S!Completion) /\ EndsKnown(S!Completion)
<1> DEFINE left == {i \in DOMAIN calls : calls[i].named /\ ~calls[i].emitted}
           events == [i \in DOMAIN S!Unemitted |-> S!ToolCall(S!Unemitted[i])]
<1>1. PICK m \in Nat : DOMAIN S!Unemitted = 1 .. m
  <2>1. Len(calls) \in Nat /\ DOMAIN calls = 1 .. Len(calls)
    BY LengthIsNat
  <2>2. left \subseteq 1 .. Len(calls)
    BY <2>1
  <2>3. DOMAIN S!Unemitted = 1 .. S!Cardinality(left)
    BY DEF S!Unemitted, S!Picked
  <2> HIDE DEF left
  <2> QED
    BY <2>1, <2>2, <2>3, PickedAreCounted, SameCount
<1>2. IsSeq(events) /\ Len(events) = m
  <2>1. events = [i \in 1 .. m |-> events[i]]
    BY <1>1
  <2> HIDE DEF events
  <2> QED
    BY <2>1, FunctionIsSeq
<1>3. \A i \in 1 .. m : ~S!IsTerminal(events[i])
  BY <1>1 DEF S!IsTerminal, S!ToolCall
<1>4. S!Completion = events \o <<S!Done>>
  BY DEF S!Completion
<1> HIDE DEF events
<1> DEFINE d == S!Done
<1>5. IsSeq(<<d>>) /\ Len(<<d>>) = 1 /\ <<d>>[1] = d
  BY OneIsSeq
<1> DEFINE c == events \o <<d>>
<1>6. /\ IsSeq(c) /\ Len(c) = m + 1
      /\ \A i \in 1 .. m + 1 : c[i] = IF i <= m THEN events[i] ELSE <<d>>[i - m]
  BY <1>2, <1>5, ConcatIsSeq
<1> HIDE DEF c
<1>7. ASSUME NEW i \in 1 .. m + 1, S!IsTerminal(c[i]) PROVE c[i] = d
  <2>1. CASE i <= m
    BY <1>3, <1>6, <1>7, <2>1
  <2>2. CASE i = m + 1
    <3>1. i - m = 1 /\ ~(i <= m)
      BY <2>2
    <3> QED
      BY <1>5, <1>6, <3>1
  <2> QED
    BY <2>1, <2>2
<1> QED
  BY <1>4, <1>6, <1>7 DEF EndsKnown, c

\* The adapter reads: only what it is to emit and its calls change.
LEMMA StreamReads ==
  ASSUME StreamInv, UNCHANGED <<script, adapter, emitted, raw, ferry, hand, out, got, outcome, ctxEnded>>,
         IsSeq(calls'), IsSeq(pending'), EndsKnown(pending'), next' \in Nat, 1 <= next'
  PROVE  StreamInv'
<1>1. StreamShape'
  BY DEF StreamInv, StreamShape, EndsKnown
<1>2. FlowInv'
  BY DEF StreamInv, FlowInv
<1>3. EndInv'
  BY DEF StreamInv, EndInv, S!AnswerIsWhole
<1> QED
  BY <1>1, <1>2, <1>3 DEF StreamInv

LEMMA OneEventEnds ==
  ASSUME NEW e, S!IsTerminal(e) => e \in {S!Done, S!Error}
  PROVE  IsSeq(<<e>>) /\ EndsKnown(<<e>>)
<1>1. IsSeq(<<e>>) /\ Len(<<e>>) = 1 /\ <<e>>[1] = e
  BY OneIsSeq
<1>2. \A i \in 1 .. 1 : i = 1
  OBVIOUS
<1> QED
  BY <1>1, <1>2 DEF EndsKnown

LEMMA NoEventEnds == IsSeq(<<>>) /\ EndsKnown(<<>>)
BY EmptyIsSeq DEF EndsKnown

\* A fragment goes to a call there is or makes a new one.
LEMMA FoldedIsSeq ==
  ASSUME IsSeq(calls), NEW frag, NEW at
  PROVE  IsSeq(S!Folded(frag, at))
<1> DEFINE index == IF frag.index = NoIndex THEN 0 ELSE frag.index
           all == IF at = 0 THEN Append(calls, S!NewCall(index)) ELSE calls
           k == IF at = 0 THEN Len(all) ELSE at
           f == [all EXCEPT ![k].id = @ \o frag.id, ![k].named = @ \/ frag.named,
                            ![k].args = @ \o frag.args]
<1>1. S!Folded(frag, at) = f
  BY DEF S!Folded
<1>2. IsSeq(all)
  <2> DEFINE c == S!NewCall(index)
  <2>1. IsSeq(Append(calls, c))
    BY AppendIsSeq
  <2> QED
    BY <2>1
<1> HIDE DEF all, k
<1>3. Len(all) \in Nat /\ DOMAIN all = 1 .. Len(all)
  BY <1>2, LengthIsNat
<1>4. f = [i \in 1 .. Len(all) |-> f[i]]
  BY <1>3
<1> HIDE DEF f
<1> QED
  BY <1>1, <1>3, <1>4, FunctionIsSeq

LEMMA FlushedEnds ==
  ASSUME NEW index
  PROVE  IsSeq(S!Flushed(index)) /\ EndsKnown(S!Flushed(index))
<1> DEFINE at == S!Latest(index)
           e == S!ToolCall(calls[at])
<1>1. S!Flushed(index) = <<>> \/ S!Flushed(index) = <<e>>
  BY DEF S!Flushed
<1>2. ~S!IsTerminal(e)
  BY DEF S!IsTerminal, S!ToolCall
<1> HIDE DEF e
<1>3. IsSeq(<<e>>) /\ EndsKnown(<<e>>)
  BY <1>2, OneEventEnds
<1> QED
  BY <1>1, <1>3, NoEventEnds

LEMMA ReadFrameKeeps == ASSUME StreamInv, S!ReadFrame PROVE StreamInv'
<1> DEFINE frame == script.frames[next]
<1>1. /\ IsSeq(calls) /\ IsSeq(pending) /\ EndsKnown(pending)
      /\ next \in Nat /\ 1 <= next /\ script \in Scripts
  BY DEF StreamInv, StreamShape, S!ReadFrame, S!Reading
<1>2. frame.kind \in {"fragment", "stop", "text", "error", "end"}
  <2>1. /\ script.frames \in Seq(Range(script.frames))
        /\ \A i \in 1 .. Len(script.frames) :
             script.frames[i].kind \in {"fragment", "stop", "text", "error", "end"}
    BY <1>1, StreamAssumption
  <2>2. Len(script.frames) \in Nat /\ next <= Len(script.frames)
    BY <2>1 DEF S!ReadFrame
  <2>3. next \in 1 .. Len(script.frames)
    BY <1>1, <2>2
  <2> QED
    BY <2>1, <2>3
<1>3. /\ UNCHANGED <<script, adapter, emitted, raw, ferry, hand, out, got, outcome, ctxEnded>>
      /\ next' = next + 1
  BY DEF S!ReadFrame
<1>4. next' \in Nat /\ 1 <= next'
  BY <1>1, <1>3
<1>5. CASE frame.kind = "fragment"
  <2>1. PICK at : calls' = S!Folded(frame, at) /\ pending' = pending
    BY <1>5 DEF S!ReadFrame, S!Frame
  <2>2. IsSeq(calls') /\ IsSeq(pending') /\ EndsKnown(pending')
    BY <1>1, <2>1, FoldedIsSeq DEF EndsKnown
  <2> QED
    BY <1>3, <1>4, <2>2, StreamReads
<1>6. CASE frame.kind = "stop"
  <2>1. /\ pending' = S!Flushed(frame.index)
        /\ calls' = [i \in DOMAIN calls |->
                      IF i = S!Latest(frame.index) THEN [calls[i] EXCEPT !.emitted = TRUE]
                      ELSE calls[i]]
    BY <1>6 DEF S!ReadFrame, S!Frame
  <2>2. IsSeq(pending') /\ EndsKnown(pending')
    BY <2>1, FlushedEnds
  <2>3. Len(calls) \in Nat /\ DOMAIN calls = 1 .. Len(calls)
    BY <1>1, LengthIsNat
  <2>4. calls' = [i \in 1 .. Len(calls) |-> calls'[i]]
    BY <2>1, <2>3
  <2>5. IsSeq(calls')
    BY <2>3, <2>4, FunctionIsSeq
  <2> QED
    BY <1>3, <1>4, <2>2, <2>5, StreamReads
<1>7. CASE frame.kind \in {"text", "error", "end"}
  <2>1. calls' = calls /\ (pending' = <<S!Text>> \/ pending' = <<S!Error>> \/ pending' = S!Completion)
    BY <1>7 DEF S!ReadFrame, S!Frame
  <2>2. IsSeq(<<S!Text>>) /\ EndsKnown(<<S!Text>>) /\ IsSeq(<<S!Error>>) /\ EndsKnown(<<S!Error>>)
    <3>1. ~S!IsTerminal(S!Text)
      BY DEF S!IsTerminal, S!Text
    <3> QED
      BY <3>1, OneEventEnds
  <2>3. IsSeq(pending') /\ EndsKnown(pending')
    BY <1>1, <2>1, <2>2, CompletionEnds
  <2> QED
    BY <1>1, <1>3, <1>4, <2>1, <2>3, StreamReads
<1> QED
  BY <1>2, <1>5, <1>6, <1>7

LEMMA ReadEndKeeps == ASSUME StreamInv, S!ReadEOF \/ S!ReadFailure PROVE StreamInv'
<1>1. /\ UNCHANGED <<script, adapter, emitted, raw, ferry, hand, out, got, outcome, ctxEnded>>
      /\ UNCHANGED <<next, calls>>
      /\ pending' = S!Completion \/ pending' = <<S!Error>>
  BY DEF S!ReadEOF, S!ReadFailure
<1>2. IsSeq(calls) /\ next \in Nat /\ 1 <= next
  BY DEF StreamInv, StreamShape
<1>3. IsSeq(<<S!Error>>) /\ EndsKnown(<<S!Error>>)
  BY OneEventEnds
<1>4. IsSeq(pending') /\ EndsKnown(pending')
  BY <1>1, <1>2, <1>3, CompletionEnds
<1> QED
  BY <1>1, <1>2, <1>4, StreamReads

\* What follows an event at the end of the chain follows it at its beginning.
LEMMA AppendedToAll ==
  ASSUME NEW g, IsSeq(g), NEW o, IsSeq(o), NEW h, IsSeq(h), NEW r, IsSeq(r), NEW w, IsSeq(w)
  PROVE  Chain(g, o, h, Then(r, w)) = Then(Chain(g, o, h, r), w)
<1> DEFINE t == Then(h, r)
           u == Then(o, t)
<1>1. IsSeq(t) /\ IsSeq(u)
  BY Zenon, ThenIsSeq
<1>2. Then(t, w) = Then(h, Then(r, w))
  BY ThenTwice
<1>3. Then(u, w) = Then(o, Then(t, w))
  BY <1>1, ThenTwice
<1>4. Then(Then(g, u), w) = Then(g, Then(u, w))
  BY <1>1, ThenTwice
<1> QED
  BY Zenon, <1>2, <1>3, <1>4 DEF Chain

\* The chain as its links pass events on.
LEMMA ChainTakes ==
  ASSUME NEW g, NEW o, NEW r, IsSeq(r), r # <<>>
  PROVE  Chain(g, o, <<>>, r) = Chain(g, o, <<Head(r)>>, Tail(r))
<1>1. Then(<<>>, r) = r /\ Then(<<Head(r)>>, Tail(r)) = r
  BY ConcatEmpty, TailIsSeq DEF Then
<1> QED
  BY Zenon, <1>1 DEF Chain

LEMMA ChainGives ==
  ASSUME NEW g, NEW o, IsSeq(o), NEW h, IsSeq(h), NEW r, IsSeq(r)
  PROVE  Chain(g, o, h, r) = Chain(g, o \o h, <<>>, r)
<1>1. Then(Then(o, h), r) = Then(o, Then(h, r))
  BY ThenTwice
<1>2. Then(<<>>, r) = r
  BY ConcatEmpty DEF Then
<1>3. Then(o, h) = o \o h
  BY DEF Then
<1> QED
  BY Zenon, <1>1, <1>2, <1>3 DEF Chain

LEMMA ChainCollects ==
  ASSUME NEW g, IsSeq(g), NEW o, IsSeq(o), NEW h, IsSeq(h), NEW r, IsSeq(r), o # <<>>
  PROVE  Chain(g, o, h, r) = Chain(Append(g, Head(o)), Tail(o), h, r)
<1> DEFINE w == <<Head(o)>>
           u == Tail(o)
           t == Then(h, r)
<1>1. IsSeq(w) /\ Append(g, Head(o)) = Then(g, w)
  BY OneIsSeq, AppendIsThen
<1>2. IsSeq(u) /\ Then(w, u) = o
  BY TailIsSeq DEF Then
<1>3. IsSeq(t)
  BY Zenon, ThenIsSeq
<1> HIDE DEF w, u, t
<1>4. IsSeq(Then(u, t))
  BY Zenon, <1>2, <1>3, ThenIsSeq
<1>5. Then(Then(w, u), t) = Then(w, Then(u, t))
  BY <1>1, <1>2, <1>3, ThenTwice
<1>6. Then(Then(g, w), Then(u, t)) = Then(g, Then(w, Then(u, t)))
  BY <1>1, <1>4, ThenTwice
<1>7. Then(g, Then(o, t)) = Then(Append(g, Head(o)), Then(u, t))
  BY Zenon, <1>1, <1>2, <1>5, <1>6
<1> QED
  BY Zenon, <1>7 DEF u, t, Chain

LEMMA ChainEnds ==
  ASSUME NEW g, NEW o, IsSeq(o)
  PROVE  Chain(g, o, <<>>, <<>>) = g \o o
<1>1. Then(<<>>, <<>>) = <<>> /\ Then(o, <<>>) = o /\ Then(g, o) = g \o o
  BY EmptyIsSeq, ConcatEmpty DEF Then
<1> QED
  BY Zenon, <1>1 DEF Chain

LEMMA EmitKeeps == ASSUME StreamInv, S!Emit PROVE StreamInv'
<1> DEFINE e == Head(pending)
<1>1. /\ raw' = Append(raw, e) /\ emitted' = Append(emitted, e) /\ pending' = Tail(pending)
      /\ adapter = "on" /\ pending # <<>>
      /\ adapter' = IF S!IsTerminal(e) THEN "ended" ELSE "on"
      /\ UNCHANGED <<script, next, calls, ferry, hand, out, got, outcome, ctxEnded>>
  BY DEF S!Emit
<1>2. /\ IsSeq(calls) /\ IsSeq(pending) /\ IsSeq(emitted)
      /\ IsSeq(raw) /\ IsSeq(hand) /\ IsSeq(out) /\ IsSeq(got)
      /\ next \in Nat /\ 1 <= next /\ script \in Scripts /\ EndsKnown(pending)
  BY <1>1 DEF StreamInv, StreamShape
<1>3. /\ IsSeq(Tail(pending)) /\ Len(Tail(pending)) = Len(pending) - 1 /\ e = pending[1]
      /\ \A i \in 1 .. Len(pending) - 1 : Tail(pending)[i] = pending[i + 1]
  BY <1>1, <1>2, TailIsSeq
<1>4. Len(pending) \in Nat /\ 0 < Len(pending)
  BY <1>1, <1>2, LengthIsNat
<1>5. S!IsTerminal(e) => e \in {S!Done, S!Error}
  <2>1. 1 \in 1 .. Len(pending)
    BY <1>4
  <2> QED
    BY <1>2, <1>3, <2>1 DEF EndsKnown
<1> DEFINE rest == Tail(pending)
<1>6. EndsKnown(pending')
  <2>1. \A i \in 1 .. Len(pending) - 1 : i + 1 \in 1 .. Len(pending)
    BY <1>4
  <2>2. pending' = rest
    BY <1>1
  <2> HIDE DEF rest
  <2> QED
    BY <1>2, <1>3, <2>1, <2>2 DEF EndsKnown, rest
<1> HIDE DEF e
<1>7. /\ IsSeq(emitted') /\ Len(emitted') = Len(emitted) + 1 /\ emitted'[Len(emitted) + 1] = e
      /\ emitted' # <<>>
      /\ \A i \in 1 .. Len(emitted) : emitted'[i] = emitted[i]
  BY <1>1, <1>2, AppendIsSeq
<1>8. IsSeq(raw')
  BY <1>1, <1>2, AppendIsSeq
<1>9. StreamShape'
  BY <1>1, <1>2, <1>3, <1>6, <1>7, <1>8 DEF StreamShape
<1>10. FlowInv'
  <2>1. Chain(got, out, hand, Append(raw, e)) = Append(Chain(got, out, hand, raw), e)
    <3> DEFINE w == <<e>>
    <3>1. /\ IsSeq(w) /\ IsSeq(got) /\ IsSeq(out) /\ IsSeq(hand) /\ IsSeq(raw)
          /\ IsSeq(Chain(got, out, hand, raw))
      BY <1>2, OneIsSeq, ThenIsSeq DEF Chain
    <3>2. /\ Append(raw, e) = Then(raw, w)
          /\ Append(Chain(got, out, hand, raw), e) = Then(Chain(got, out, hand, raw), w)
      BY Zenon, <3>1, AppendIsThen
    <3> HIDE DEF w
    <3>3. Chain(got, out, hand, Then(raw, w)) = Then(Chain(got, out, hand, raw), w)
      BY <3>1, AppendedToAll
    <3> QED
      BY Zenon, <3>2, <3>3
  <2>2. ferry \in {"off", "give", "take"} => Chain(got, out, hand, raw) = emitted
    BY DEF StreamInv, FlowInv
  <2>3. ferry' \in {"off", "give", "take"} => Chain(got', out', hand', raw') = emitted'
    BY <1>1, <2>1, <2>2
  <2> QED
    BY <1>1, <2>3 DEF StreamInv, FlowInv
<1>11. EndInv'
  <2>1. Len(emitted) \in Nat
    BY <1>2, LengthIsNat
  <2>2. \A i \in 1 .. Len(emitted) + 1 : i \in 1 .. Len(emitted) \/ i = Len(emitted) + 1
    BY <2>1
  <2>3. \A i \in 1 .. Len(emitted) : ~S!IsTerminal(emitted[i])
    BY <1>1 DEF StreamInv, EndInv
  <2>4. outcome # "answer"
    BY <1>1 DEF StreamInv, EndInv
  <2>5. \A i \in 1 .. Len(emitted') : S!IsTerminal(emitted'[i]) =>
          i = Len(emitted') /\ adapter' = "ended" /\ emitted'[i] \in {S!Done, S!Error}
    BY <1>1, <1>5, <1>7, <2>2, <2>3
  <2>6. adapter' = "ended" => emitted' # <<>> /\ S!IsTerminal(emitted'[Len(emitted')])
    BY <1>1, <1>7
  <2> QED
    BY <1>1, <2>4, <2>5, <2>6 DEF StreamInv, EndInv
<1> QED
  BY <1>9, <1>10, <1>11 DEF StreamInv

LEMMA AbandonKeeps == ASSUME StreamInv, S!AbandonEmit PROVE StreamInv'
<1>1. /\ adapter = "on" /\ ctxEnded /\ adapter' = "ended"
      /\ UNCHANGED <<script, next, calls, pending, emitted, raw, ferry, hand, out, got, outcome, ctxEnded>>
  BY DEF S!AbandonEmit
<1>2. StreamShape'
  BY <1>1 DEF StreamInv, StreamShape, EndsKnown
<1>3. FlowInv'
  BY <1>1 DEF StreamInv, FlowInv
<1>4. EndInv'
  BY <1>1 DEF StreamInv, EndInv
<1> QED
  BY <1>2, <1>3, <1>4 DEF StreamInv

LEMMA PeekKeeps == ASSUME StreamInv, S!PeekEvent PROVE StreamInv'
<1>1. /\ ferry = "off" /\ outcome = "" /\ raw # <<>> /\ raw' = Tail(raw)
      /\ UNCHANGED <<script, next, adapter, calls, pending, emitted, out, got, ctxEnded>>
      /\ \/ outcome' = "error" /\ ferry' = "drain" /\ hand' = hand
         \/ ferry' = "give" /\ hand' = <<Head(raw)>> /\ outcome' = outcome
  BY DEF S!PeekEvent, S!Finish
<1>2. IsSeq(raw) /\ IsSeq(hand)
  BY DEF StreamInv, StreamShape
<1>3. IsSeq(Tail(raw))
  BY <1>1, <1>2, TailIsSeq
<1>4. IsSeq(<<Head(raw)>>)
  BY OneIsSeq
<1>5. StreamShape'
  BY <1>1, <1>2, <1>3, <1>4 DEF StreamInv, StreamShape, EndsKnown
<1>6. Chain(got, out, hand, raw) = emitted /\ hand = <<>>
  BY <1>1 DEF StreamInv, FlowInv
<1>7. Chain(got, out, <<>>, raw) = Chain(got, out, <<Head(raw)>>, Tail(raw))
  BY <1>1, <1>2, ChainTakes
<1>8. ferry' = "give" => Chain(got', out', hand', raw') = emitted'
  BY <1>1, <1>6, <1>7
<1>9. FlowInv'
  BY <1>1, <1>8 DEF StreamInv, FlowInv
<1>10. EndInv'
  BY <1>1 DEF StreamInv, EndInv
<1> QED
  BY <1>5, <1>9, <1>10 DEF StreamInv

LEMMA PeekNothingKeeps == ASSUME StreamInv, S!PeekNothing PROVE StreamInv'
<1>1. /\ ferry = "off" /\ outcome = "" /\ outcome' \in {"malformed", "cancelled"} /\ ferry' = "drain"
      /\ UNCHANGED <<script, next, adapter, calls, pending, emitted, raw, hand, out, got, ctxEnded>>
  BY DEF S!PeekNothing, S!Finish
<1>2. StreamShape'
  BY <1>1 DEF StreamInv, StreamShape, EndsKnown
<1>3. FlowInv'
  BY <1>1 DEF StreamInv, FlowInv
<1>4. EndInv'
  BY <1>1 DEF StreamInv, EndInv
<1> QED
  BY <1>2, <1>3, <1>4 DEF StreamInv

LEMMA FerryGivesKeeps == ASSUME StreamInv, S!FerryGives PROVE StreamInv'
<1>1. /\ ferry = "give" /\ ferry' = "take" /\ out' = out \o hand /\ hand' = <<>>
      /\ UNCHANGED <<script, next, adapter, calls, pending, emitted, raw, got, outcome, ctxEnded>>
  BY DEF S!FerryGives
<1>2. IsSeq(raw) /\ IsSeq(hand) /\ IsSeq(out)
  BY DEF StreamInv, StreamShape
<1>3. IsSeq(out \o hand)
  BY <1>2, ConcatIsSeq
<1>4. StreamShape'
  BY <1>1, <1>3, EmptyIsSeq DEF StreamInv, StreamShape, EndsKnown
<1>5. Chain(got, out, hand, raw) = Chain(got, out \o hand, <<>>, raw)
  BY <1>2, ChainGives
<1>6. Chain(got', out', hand', raw') = emitted'
  BY <1>1, <1>5 DEF StreamInv, FlowInv
<1>7. FlowInv'
  BY <1>1, <1>6 DEF StreamInv, FlowInv
<1>8. EndInv'
  BY <1>1 DEF StreamInv, EndInv
<1> QED
  BY <1>4, <1>7, <1>8 DEF StreamInv

LEMMA FerryTakesKeeps == ASSUME StreamInv, S!FerryTakes PROVE StreamInv'
<1>1. /\ ferry = "take" /\ ferry' = "give" /\ raw # <<>> /\ hand' = <<Head(raw)>> /\ raw' = Tail(raw)
      /\ UNCHANGED <<script, next, adapter, calls, pending, emitted, out, got, outcome, ctxEnded>>
  BY DEF S!FerryTakes
<1>2. IsSeq(raw)
  BY DEF StreamInv, StreamShape
<1>3. IsSeq(Tail(raw)) /\ IsSeq(<<Head(raw)>>)
  BY <1>1, <1>2, TailIsSeq, OneIsSeq
<1>4. StreamShape'
  BY <1>1, <1>3 DEF StreamInv, StreamShape, EndsKnown
<1>5. Chain(got, out, <<>>, raw) = Chain(got, out, <<Head(raw)>>, Tail(raw))
  BY <1>1, <1>2, ChainTakes
<1>6. Chain(got', out', hand', raw') = emitted'
  BY <1>1, <1>5 DEF StreamInv, FlowInv
<1>7. FlowInv'
  BY <1>1, <1>6 DEF StreamInv, FlowInv
<1>8. EndInv'
  BY <1>1 DEF StreamInv, EndInv
<1> QED
  BY <1>4, <1>7, <1>8 DEF StreamInv

LEMMA FerryDrainsKeeps == ASSUME StreamInv, S!FerryDrains PROVE StreamInv'
<1>1. /\ ferry = "drain" /\ raw # <<>> /\ raw' = Tail(raw)
      /\ UNCHANGED <<script, next, adapter, calls, pending, emitted, ferry, hand, out, got, outcome, ctxEnded>>
  BY DEF S!FerryDrains
<1>2. IsSeq(Tail(raw))
  BY <1>1, TailIsSeq DEF StreamInv, StreamShape
<1>3. StreamShape'
  BY <1>1, <1>2 DEF StreamInv, StreamShape, EndsKnown
<1>4. FlowInv'
  BY <1>1 DEF StreamInv, FlowInv
<1>5. EndInv'
  BY <1>1 DEF StreamInv, EndInv
<1> QED
  BY <1>3, <1>4, <1>5 DEF StreamInv

LEMMA FerryEndsKeeps == ASSUME StreamInv, S!FerryEnds PROVE StreamInv'
<1>1. /\ \/ ferry \in {"take", "drain"} /\ raw = <<>> /\ adapter = "ended"
         \/ ferry = "give" /\ ctxEnded
      /\ ferry' = "ended"
      /\ UNCHANGED <<script, next, adapter, calls, pending, emitted, raw, hand, out, got, outcome, ctxEnded>>
  BY DEF S!FerryEnds
<1>2. StreamShape'
  BY <1>1 DEF StreamInv, StreamShape, EndsKnown
<1>3. ferry = "take" => got \o out = emitted
  <2>1. IsSeq(out)
    BY DEF StreamInv, StreamShape
  <2>2. Chain(got, out, <<>>, <<>>) = got \o out
    BY <2>1, ChainEnds
  <2>3. ferry = "take" => Chain(got, out, hand, raw) = emitted /\ hand = <<>>
    BY DEF StreamInv, FlowInv
  <2> QED
    BY <1>1, <2>2, <2>3
<1>4. FlowInv'
  BY <1>1, <1>3 DEF StreamInv, FlowInv
<1>5. EndInv'
  BY <1>1 DEF StreamInv, EndInv, S!AnswerIsWhole
<1> QED
  BY <1>2, <1>4, <1>5 DEF StreamInv

LEMMA CollectKeeps == ASSUME StreamInv, S!Collect PROVE StreamInv'
<1> DEFINE e == Head(out)
<1>1. /\ out # <<>> /\ outcome \in {"", "failing"} /\ out' = Tail(out) /\ got' = Append(got, e)
      /\ UNCHANGED <<script, next, adapter, calls, pending, emitted, raw, ferry, hand, ctxEnded>>
      /\ \/ outcome = "failing" /\ outcome' = outcome
         \/ outcome = "" /\ e = S!Error /\ outcome' = "failing"
         \/ outcome = "" /\ e # S!Error /\ ctxEnded /\ outcome' = "cancelled"
         \/ outcome = "" /\ e # S!Error /\ ~ctxEnded /\ outcome' = outcome
  BY DEF S!Collect, S!Finish
<1>2. IsSeq(got) /\ IsSeq(out) /\ IsSeq(hand) /\ IsSeq(raw)
  BY DEF StreamInv, StreamShape
<1>3. IsSeq(Tail(out))
  BY <1>1, <1>2, TailIsSeq
<1>4. Chain(got, out, hand, raw) = Chain(Append(got, e), Tail(out), hand, raw)
  <2>1. out # <<>>
    BY <1>1
  <2> QED
    BY ONLY <1>2, <2>1, ChainCollects DEF e
<1>5. got \o out = Append(got, e) \o Tail(out)
  <2>1. Chain(got, out, <<>>, <<>>) = Chain(Append(got, e), Tail(out), <<>>, <<>>)
    <3>1. out # <<>>
      BY <1>1
    <3> QED
      BY ONLY <1>2, <3>1, EmptyIsSeq, ChainCollects DEF e
  <2>2. Chain(got, out, <<>>, <<>>) = got \o out
    BY <1>2, ChainEnds
  <2>3. Chain(Append(got, e), Tail(out), <<>>, <<>>) = Append(got, e) \o Tail(out)
    BY <1>3, ChainEnds
  <2> QED
    BY <2>1, <2>2, <2>3
<1> HIDE DEF e
<1>6. /\ IsSeq(got') /\ Len(got') = Len(got) + 1 /\ got'[Len(got) + 1] = e
      /\ \A i \in 1 .. Len(got) : got'[i] = got[i]
  BY <1>1, <1>2, AppendIsSeq
<1>7. StreamShape'
  BY <1>1, <1>3, <1>6 DEF StreamInv, StreamShape, EndsKnown
<1>8. FlowInv'
  <2>1. ferry # "off" /\ ferry # "drain"
    BY <1>1 DEF StreamInv, FlowInv
  <2>2. ferry' \in {"off", "give", "take"} => Chain(got', out', hand', raw') = emitted'
    BY <1>1, <1>4 DEF StreamInv, FlowInv
  <2>3. (ferry' = "ended" /\ ~ctxEnded' /\ outcome' \in {"", "failing"}) =>
          got' \o out' = emitted' /\ adapter' = "ended"
    BY <1>1, <1>5 DEF StreamInv, FlowInv
  <2>4. ferry' = "take" => hand' = <<>>
    BY <1>1 DEF StreamInv, FlowInv
  <2> QED
    BY <1>1, <2>1, <2>2, <2>3, <2>4 DEF FlowInv
<1>9. EndInv'
  <2>1. outcome' # "answer"
    BY <1>1
  <2>2. outcome' = "" => \A i \in 1 .. Len(got') : got'[i] # S!Error
    <3>1. SUFFICES ASSUME outcome' = "", NEW i \in 1 .. Len(got') PROVE got'[i] # S!Error
      OBVIOUS
    <3>2. Len(got) \in Nat
      BY <1>2, LengthIsNat
    <3>3. i \in 1 .. Len(got) \/ i = Len(got) + 1
      <4>1. i \in 1 .. Len(got) + 1
        BY <1>6, <3>1
      <4> QED
        BY ONLY <3>2, <4>1
    <3>4. outcome = "" /\ e # S!Error
      BY <1>1, <3>1
    <3>5. \A j \in 1 .. Len(got) : got[j] # S!Error
      BY <3>4 DEF StreamInv, EndInv
    <3> QED
      BY <1>6, <3>3, <3>4, <3>5
  <2> QED
    BY <1>1, <2>1, <2>2 DEF StreamInv, EndInv
<1> QED
  BY <1>7, <1>8, <1>9 DEF StreamInv

\* Only here an answer is made.
LEMMA CollectClosedKeeps == ASSUME StreamInv, S!CollectClosed PROVE StreamInv'
<1>1. /\ out = <<>> /\ ferry = "ended" /\ outcome \in {"", "failing"}
      /\ UNCHANGED <<script, next, adapter, calls, pending, emitted, raw, ferry, hand, out, got, ctxEnded>>
      /\ \/ outcome' \in {"error", "cancelled", "malformed"}
         \/ outcome' = "answer" /\ outcome = "" /\ ~ctxEnded /\ got # <<>>
  BY DEF S!CollectClosed, S!Finish
<1>2. StreamShape'
  BY <1>1 DEF StreamInv, StreamShape, EndsKnown
<1>3. FlowInv'
  BY <1>1 DEF StreamInv, FlowInv
<1>4. ASSUME outcome' = "answer" PROVE adapter = "ended" /\ got = emitted /\ got[Len(got)] = S!Done
  <2>1. outcome = "" /\ ~ctxEnded /\ got # <<>>
    BY <1>1, <1>4
  <2>2. got \o out = emitted /\ adapter = "ended"
    BY <1>1, <2>1 DEF StreamInv, FlowInv
  <2>3. IsSeq(got)
    BY DEF StreamInv, StreamShape
  <2>4. got = emitted
    <3>1. got \o <<>> = got
      BY <2>3, ConcatEmpty
    <3> QED
      BY <1>1, <2>2, <3>1
  <2>5. Len(got) \in Nat /\ 0 < Len(got)
    BY <2>1, <2>3, LengthIsNat
  <2>6. Len(got) \in 1 .. Len(got)
    BY <2>5
  <2>7. S!IsTerminal(got[Len(got)])
    BY <2>1, <2>2, <2>4 DEF StreamInv, EndInv
  <2>8. got[Len(got)] \in {S!Done, S!Error}
    BY <2>4, <2>6, <2>7 DEF StreamInv, EndInv
  <2>9. got[Len(got)] # S!Error
    BY <2>1, <2>6 DEF StreamInv, EndInv
  <2> QED
    BY <2>2, <2>4, <2>8, <2>9
<1>5. outcome' = "answer" => S!AnswerIsWhole'
  BY <1>1, <1>4 DEF S!AnswerIsWhole, S!Last, Last
<1>6. outcome' = "answer" => outcome = ""
  BY <1>1
<1>7. EndInv'
  BY <1>1, <1>4, <1>5, <1>6 DEF StreamInv, EndInv
<1> QED
  BY <1>2, <1>3, <1>7 DEF StreamInv

LEMMA StreamEndContextKeeps == ASSUME StreamInv, S!EndContext PROVE StreamInv'
<1>1. /\ outcome = "" /\ ctxEnded' = TRUE
      /\ UNCHANGED <<script, next, adapter, calls, pending, emitted, raw, ferry, hand, out, got, outcome>>
  BY DEF S!EndContext
<1>2. StreamShape'
  BY <1>1 DEF StreamInv, StreamShape, EndsKnown
<1>3. FlowInv'
  BY <1>1 DEF StreamInv, FlowInv
<1>4. EndInv'
  BY <1>1 DEF StreamInv, EndInv
<1> QED
  BY <1>2, <1>3, <1>4 DEF StreamInv

LEMMA ChatKeeps == ASSUME StreamInv, S!Chat PROVE StreamInv'
<1>1. /\ adapter = "off" /\ adapter' = "on" /\ script' \in Scripts
      /\ UNCHANGED <<next, calls, pending, emitted, raw, ferry, hand, out, got, outcome, ctxEnded>>
  BY DEF S!Chat
<1>2. StreamShape'
  BY <1>1 DEF StreamInv, StreamShape, EndsKnown
<1>3. FlowInv'
  BY <1>1 DEF StreamInv, FlowInv
<1>4. EndInv'
  BY <1>1 DEF StreamInv, EndInv
<1> QED
  BY <1>2, <1>3, <1>4 DEF StreamInv

LEMMA StreamStep == StreamInv /\ [S!Next]_S!vars => StreamInv'
<1> SUFFICES ASSUME StreamInv, [S!Next]_S!vars PROVE StreamInv'
  OBVIOUS
<1>1. CASE S!Chat
  BY <1>1, ChatKeeps
<1>2. CASE S!Adapter
  BY <1>2, ReadFrameKeeps, ReadEndKeeps, EmitKeeps, AbandonKeeps DEF S!Adapter
<1>3. CASE S!Ferry
  BY <1>3, FerryGivesKeeps, FerryTakesKeeps, FerryDrainsKeeps, FerryEndsKeeps DEF S!Ferry
<1>4. CASE S!Caller
  BY <1>4, PeekKeeps, PeekNothingKeeps, CollectKeeps, CollectClosedKeeps DEF S!Caller
<1>5. CASE S!EndContext
  BY <1>5, StreamEndContextKeeps
<1>6. CASE UNCHANGED S!vars
  <2>1. UNCHANGED <<script, next, adapter, calls, pending, emitted, raw, ferry, hand, out,
                    got, outcome, ctxEnded>>
    BY <1>6 DEF S!vars
  <2>2. StreamShape'
    BY <2>1 DEF StreamInv, StreamShape, EndsKnown
  <2>3. FlowInv'
    BY <2>1 DEF StreamInv, FlowInv
  <2>4. EndInv'
    BY <2>1 DEF StreamInv, EndInv, S!AnswerIsWhole
  <2> QED
    BY <2>2, <2>3, <2>4 DEF StreamInv
<1> QED
  BY <1>1, <1>2, <1>3, <1>4, <1>5, <1>6 DEF S!Next

\* Whatever a backend sends, at whatever capacity the channels have, and wherever
\* a cancellation meets the stream, what the loop takes for an answer is every
\* event the adapter sent, in order and up to the one that completes it
\* (loop.go collect, router.go replayEvents, stream.go emit).
THEOREM AnswersAreWhole == S!Spec => []AnswerIsWhole
<1>1. S!Init => StreamInv
  BY StreamInit
<1>2. StreamInv /\ [S!Next]_S!vars => StreamInv'
  BY StreamStep
<1>3. StreamInv => AnswerIsWhole
  BY DEF StreamInv, EndInv, AnswerIsWhole, S!AnswerIsWhole
<1> QED
  BY <1>1, <1>2, <1>3, PTL DEF S!Spec

-----------------------------------------------------------------------------
(* The stream implements its delivery                                      *)

\* What the loop has received and what it will are the adapter's events, also
\* when the ferry was stopped and leaves some behind; or else nothing was ever
\* handed on.
DeliverInv ==
  /\ Chain(got, out, hand, raw) = emitted \/ (got = <<>> /\ out = <<>>)
  /\ ferry = "drain" => got = <<>> /\ out = <<>>
  /\ outcome = "failing" => \E i \in 1 .. Len(got) : got[i] = S!Error

\* A chain with nothing handed on yet is the adapter's channel.
LEMMA ChainStarts ==
  ASSUME NEW r, IsSeq(r)
  PROVE  Chain(<<>>, <<>>, <<>>, r) = r
<1>1. Then(<<>>, r) = r
  BY ConcatEmpty DEF Then
<1> QED
  BY Zenon, <1>1 DEF Chain

\* After g, c goes on with the head of o, if o has one.
Continues(c, g, o) ==
  \E u : IsSeq(u) /\ c = g \o u /\ (o # <<>> => 0 < Len(u) /\ u[1] = Head(o))

LEMMA ChainSplits ==
  ASSUME NEW g, NEW o, IsSeq(o), NEW h, IsSeq(h), NEW r, IsSeq(r)
  PROVE  Continues(Chain(g, o, h, r), g, o)
<1> DEFINE t == Then(h, r)
           u == Then(o, t)
<1>1. IsSeq(t) /\ IsSeq(u)
  BY Zenon, ThenIsSeq
<1>2. /\ Len(u) = Len(o) + Len(t)
      /\ \A i \in 1 .. Len(o) + Len(t) : u[i] = IF i <= Len(o) THEN o[i] ELSE t[i - Len(o)]
  BY <1>1, ConcatIsSeq DEF Then
<1>3. Chain(g, o, h, r) = g \o u
  BY Zenon DEF Chain, Then
<1> HIDE DEF t, u
<1>4. Len(o) \in Nat /\ Len(t) \in Nat
  BY <1>1, LengthIsNat
<1>5. ASSUME o # <<>> PROVE 0 < Len(u) /\ u[1] = Head(o)
  <2>1. 0 < Len(o) /\ Head(o) = o[1]
    BY <1>5, LengthIsNat, TailIsSeq
  <2>2. 1 \in 1 .. Len(o) + Len(t) /\ 1 <= Len(o)
    BY <1>4, <2>1
  <2> QED
    BY <1>2, <1>4, <2>1, <2>2
<1> QED
  BY Zenon, <1>1, <1>3, <1>5 DEF Continues

LEMMA ChainBegins ==
  ASSUME NEW g, IsSeq(g), NEW o, IsSeq(o), NEW h, IsSeq(h), NEW r, IsSeq(r),
         NEW k \in 1 .. Len(g)
  PROVE  k \in 1 .. Len(Chain(g, o, h, r)) /\ Chain(g, o, h, r)[k] = g[k]
<1>0. Continues(Chain(g, o, h, r), g, o)
  BY ChainSplits
<1>1. PICK u : IsSeq(u) /\ Chain(g, o, h, r) = g \o u
  BY <1>0 DEF Continues
<1> DEFINE c == g \o u
<1>2. /\ Len(c) = Len(g) + Len(u)
      /\ \A i \in 1 .. Len(g) + Len(u) : c[i] = IF i <= Len(g) THEN g[i] ELSE u[i - Len(g)]
  BY <1>1, ConcatIsSeq
<1>3. Len(g) \in Nat /\ Len(u) \in Nat
  BY <1>1, LengthIsNat
<1> HIDE DEF c
<1>4. k \in 1 .. Len(c) /\ c[k] = g[k]
  BY <1>2, <1>3
<1> QED
  BY Zenon, <1>1, <1>4 DEF c

LEMMA ChainNext ==
  ASSUME NEW g, IsSeq(g), NEW o, IsSeq(o), NEW h, IsSeq(h), NEW r, IsSeq(r), o # <<>>
  PROVE  Len(g) < Len(Chain(g, o, h, r)) /\ Chain(g, o, h, r)[Len(g) + 1] = Head(o)
<1>0. Continues(Chain(g, o, h, r), g, o)
  BY ChainSplits
<1>1. PICK u : IsSeq(u) /\ Chain(g, o, h, r) = g \o u /\ 0 < Len(u) /\ u[1] = Head(o)
  BY <1>0 DEF Continues
<1> DEFINE c == g \o u
<1>2. /\ Len(c) = Len(g) + Len(u)
      /\ \A i \in 1 .. Len(g) + Len(u) : c[i] = IF i <= Len(g) THEN g[i] ELSE u[i - Len(g)]
  BY <1>1, ConcatIsSeq
<1>3. Len(g) \in Nat /\ Len(u) \in Nat
  BY <1>1, LengthIsNat
<1> HIDE DEF c
<1>4. /\ Len(g) + 1 \in 1 .. Len(g) + Len(u) /\ ~(Len(g) + 1 <= Len(g))
      /\ (Len(g) + 1) - Len(g) = 1
  BY <1>1, <1>3
<1>5. c[Len(g) + 1] = Head(o) /\ Len(g) < Len(c)
  BY <1>1, <1>2, <1>3, <1>4
<1> QED
  BY Zenon, <1>1, <1>5 DEF c

LEMMA DeliverInit == S!Init => DeliverInv
<1> SUFFICES ASSUME S!Init PROVE DeliverInv
  OBVIOUS
<1>1. ferry = "off" /\ outcome = "" /\ out = <<>> /\ got = <<>>
  BY Zenon DEF S!Init
<1> QED
  BY <1>1 DEF DeliverInv

\* A step that neither sends nor receives.
LEMMA QuietDelivers ==
  ASSUME DeliverInv, UNCHANGED <<emitted, got, out, hand, raw>>,
         ferry' = ferry \/ ferry' # "drain",
         outcome' = outcome \/ outcome' # "failing"
  PROVE  DeliverInv'
BY DEF DeliverInv

LEMMA AdapterDelivers ==
  ASSUME StreamInv, DeliverInv, S!Adapter
  PROVE  DeliverInv'
<1>1. CASE S!ReadFrame \/ S!ReadEOF \/ S!ReadFailure \/ S!AbandonEmit
  <2>1. UNCHANGED <<emitted, got, out, hand, raw, ferry, outcome>>
    BY <1>1 DEF S!ReadFrame, S!ReadEOF, S!ReadFailure, S!AbandonEmit
  <2> QED
    BY <2>1, QuietDelivers
<1>2. CASE S!Emit
  <2> DEFINE e == Head(pending)
             w == <<e>>
  <2>1. /\ raw' = Append(raw, e) /\ emitted' = Append(emitted, e)
        /\ UNCHANGED <<got, out, hand, ferry, outcome>>
    BY <1>2 DEF S!Emit
  <2>2. IsSeq(got) /\ IsSeq(out) /\ IsSeq(hand) /\ IsSeq(raw) /\ IsSeq(emitted)
    BY DEF StreamInv, StreamShape
  <2>3. IsSeq(w) /\ Append(raw, e) = Then(raw, w) /\ Append(emitted, e) = Then(emitted, w)
    BY <2>2, OneIsSeq, AppendIsThen
  <2> HIDE DEF w
  <2>4. Chain(got, out, hand, Then(raw, w)) = Then(Chain(got, out, hand, raw), w)
    BY <2>2, <2>3, AppendedToAll
  <2>5. Chain(got, out, hand, raw) = emitted => Chain(got', out', hand', raw') = emitted'
    BY Zenon, <2>1, <2>3, <2>4
  <2> QED
    BY <2>1, <2>5 DEF DeliverInv
<1> QED
  BY <1>1, <1>2 DEF S!Adapter

LEMMA FerryDelivers ==
  ASSUME StreamInv, DeliverInv, StreamInv', S!Ferry
  PROVE  DeliverInv'
<1>1. CASE S!FerryGives \/ S!FerryTakes
  <2>1. /\ ferry' \in {"give", "take"} /\ got' = got /\ outcome' = outcome
    BY <1>1 DEF S!FerryGives, S!FerryTakes
  <2>2. Chain(got', out', hand', raw') = emitted'
    BY <2>1 DEF StreamInv, FlowInv
  <2> QED
    BY <2>1, <2>2 DEF DeliverInv
<1>2. CASE S!FerryDrains
  <2>1. ferry = "drain" /\ UNCHANGED <<got, out, ferry, outcome>>
    BY <1>2 DEF S!FerryDrains
  <2> QED
    BY <2>1 DEF DeliverInv
<1>3. CASE S!FerryEnds
  <2>1. ferry' = "ended" /\ UNCHANGED <<emitted, got, out, hand, raw, outcome>>
    BY <1>3 DEF S!FerryEnds
  <2> QED
    BY <2>1, QuietDelivers
<1> QED
  BY <1>1, <1>2, <1>3 DEF S!Ferry

LEMMA CollectDelivers ==
  ASSUME StreamInv, DeliverInv, S!Collect
  PROVE  DeliverInv'
<1> DEFINE e == Head(out)
<1>1. /\ out # <<>> /\ out' = Tail(out) /\ got' = Append(got, e)
      /\ outcome' = "failing" => outcome = "failing" \/ e = S!Error
      /\ UNCHANGED <<emitted, raw, hand, ferry>>
  BY DEF S!Collect, S!Finish
<1>2. IsSeq(got) /\ IsSeq(out) /\ IsSeq(hand) /\ IsSeq(raw)
  BY DEF StreamInv, StreamShape
<1>3. Chain(got, out, hand, raw) = Chain(Append(got, e), Tail(out), hand, raw)
  BY <1>1, <1>2, ChainCollects
<1>4. Chain(got', out', hand', raw') = emitted'
  BY <1>1, <1>3 DEF DeliverInv
<1>5. ferry' # "drain"
  BY <1>1 DEF DeliverInv
<1> HIDE DEF e
<1>6. /\ Len(got') = Len(got) + 1 /\ got'[Len(got) + 1] = e
      /\ \A i \in 1 .. Len(got) : got'[i] = got[i]
      /\ Len(got) \in Nat
  BY <1>1, <1>2, AppendIsSeq, LengthIsNat
<1>7. Len(got) + 1 \in 1 .. Len(got') /\ \A i \in 1 .. Len(got) : i \in 1 .. Len(got')
  BY <1>6
<1>8. outcome' = "failing" => \E i \in 1 .. Len(got') : got'[i] = S!Error
  BY <1>1, <1>6, <1>7 DEF DeliverInv
<1> QED
  BY <1>4, <1>5, <1>8 DEF DeliverInv

LEMMA PeekDelivers ==
  ASSUME StreamInv, DeliverInv, StreamInv', S!PeekEvent \/ S!PeekNothing
  PROVE  DeliverInv'
<1>1. /\ ferry = "off" /\ UNCHANGED <<got, out, emitted>> /\ ferry' \in {"give", "drain"}
      /\ outcome' # "failing"
  BY DEF S!PeekEvent, S!PeekNothing, S!Finish
<1>2. got = <<>> /\ out = <<>>
  BY <1>1 DEF StreamInv, FlowInv
<1> QED
  BY <1>1, <1>2 DEF DeliverInv

LEMMA DeliverStep == StreamInv /\ DeliverInv /\ StreamInv' /\ [S!Next]_S!vars => DeliverInv'
<1> SUFFICES ASSUME StreamInv, DeliverInv, StreamInv', [S!Next]_S!vars PROVE DeliverInv'
  OBVIOUS
<1>1. CASE S!Chat \/ S!CollectClosed \/ S!EndContext \/ UNCHANGED S!vars
  <2>1. /\ UNCHANGED <<emitted, got, out, hand, raw, ferry>>
        /\ outcome' = outcome \/ outcome' # "failing"
    BY <1>1 DEF S!Chat, S!CollectClosed, S!EndContext, S!Finish, S!vars
  <2> QED
    BY <2>1, QuietDelivers
<1>2. CASE S!Adapter
  BY <1>2, AdapterDelivers
<1>3. CASE S!Ferry
  BY <1>3, FerryDelivers
<1>4. CASE S!Caller
  BY <1>1, <1>4, PeekDelivers, CollectDelivers DEF S!Caller
<1> QED
  BY <1>1, <1>2, <1>3, <1>4 DEF S!Next

LEMMA DeliveryStarts == S!Init => S!D!Init
BY Zenon DEF S!Init, S!D!Init

\* An adapter that goes on has not sent its last event.
LEMMA EmitSends == ASSUME StreamInv, S!Emit PROVE S!D!Send
<1> DEFINE e == Head(pending)
<1>1. /\ adapter = "on" /\ emitted' = Append(emitted, e) /\ UNCHANGED <<got, outcome, ctxEnded>>
  BY DEF S!Emit
<1>2. IsSeq(emitted)
  BY DEF StreamInv, StreamShape
<1> HIDE DEF e
<1>3. Len(emitted') = Len(emitted) + 1 /\ \A i \in 1 .. Len(emitted) : emitted'[i] = emitted[i]
  BY <1>1, <1>2, AppendIsSeq
<1>4. ASSUME emitted # <<>> PROVE ~S!IsTerminal(emitted[Len(emitted)])
  <2>1. Len(emitted) \in 1 .. Len(emitted)
    BY <1>2, <1>4, LengthIsNat
  <2> QED
    BY <1>1, <2>1 DEF StreamInv, EndInv
<1>5. S!IsTerminal(S!Done) /\ S!IsTerminal(S!Error)
  BY DEF S!IsTerminal, S!Done, S!Error
<1>6. ~S!D!EndsWith(S!Done) /\ ~S!D!EndsWith(S!Error)
  BY <1>4, <1>5 DEF S!D!EndsWith
<1> QED
  BY <1>1, <1>3, <1>6 DEF S!D!Send

LEMMA CollectReceives == ASSUME StreamInv, DeliverInv, S!Collect PROVE S!D!Receive \/ S!D!Cancel
<1> DEFINE e == Head(out)
<1>1. /\ out # <<>> /\ outcome \in {"", "failing"} /\ got' = Append(got, e)
      /\ \/ outcome' \in {"", "failing"}
         \/ outcome = "" /\ outcome' = "cancelled" /\ ctxEnded
      /\ UNCHANGED <<emitted, ctxEnded>>
  BY DEF S!Collect, S!Finish
<1>2. IsSeq(got) /\ IsSeq(out) /\ IsSeq(hand) /\ IsSeq(raw)
  BY DEF StreamInv, StreamShape
<1>3. Chain(got, out, hand, raw) = emitted
  BY <1>1 DEF DeliverInv
<1>4. Len(got) < Len(emitted) /\ emitted[Len(got) + 1] = e
  <2> DEFINE c == Chain(got, out, hand, raw)
  <2>1. out # <<>>
    BY <1>1
  <2>2. Len(got) < Len(c) /\ c[Len(got) + 1] = e
    BY ONLY <1>2, <2>1, ChainNext DEF c, e
  <2> QED
    BY Zenon, <1>3, <2>2
<1> HIDE DEF e
<1>5. S!D!TakeNext
  BY <1>1, <1>4 DEF S!D!TakeNext
<1> QED
  BY <1>1, <1>5 DEF S!D!Receive, S!D!Cancel

LEMMA ErrorIsLast ==
  ASSUME StreamInv, NEW i \in 1 .. Len(emitted), emitted[i] = S!Error
  PROVE  S!D!EndsWith(S!Error)
<1>1. S!IsTerminal(emitted[i])
  BY DEF S!IsTerminal, S!Error
<1>2. i = Len(emitted)
  BY <1>1 DEF StreamInv, EndInv
<1>3. emitted # <<>>
  <2>1. SUFFICES ASSUME emitted = <<>> PROVE FALSE
    OBVIOUS
  <2>2. Len(emitted) = 0
    BY <2>1
  <2> QED
    BY <2>2
<1> QED
  BY <1>2, <1>3 DEF S!D!EndsWith

\* The verdict of a stream that was closed.
LEMMA CloseDecides ==
  ASSUME StreamInv, DeliverInv, StreamInv', S!CollectClosed
  PROVE  S!D!Answer \/ S!D!Fail \/ S!D!Cancel
<1>1. /\ outcome \in {"", "failing"} /\ out = <<>> /\ ferry = "ended"
      /\ outcome' = IF outcome = "failing" THEN "error"
                    ELSE IF ctxEnded THEN "cancelled"
                    ELSE IF got = <<>> THEN "malformed"
                    ELSE "answer"
      /\ UNCHANGED <<emitted, got, ctxEnded>>
  BY DEF S!CollectClosed, S!Finish
<1>2. IsSeq(got) /\ IsSeq(out) /\ IsSeq(hand) /\ IsSeq(raw) /\ IsSeq(emitted)
  BY DEF StreamInv, StreamShape
<1>3. CASE outcome = "failing"
  <2>1. PICK i \in 1 .. Len(got) : got[i] = S!Error
    BY <1>3 DEF DeliverInv
  <2>2. Chain(got, out, hand, raw) = emitted
    <3>1. got # <<>>
      <4>1. SUFFICES ASSUME got = <<>> PROVE FALSE
        OBVIOUS
      <4>2. Len(got) = 0
        BY <4>1
      <4> QED
        BY <2>1, <4>2
    <3> QED
      BY <3>1 DEF DeliverInv
  <2>3. i \in 1 .. Len(emitted) /\ emitted[i] = got[i]
    <3> DEFINE c == Chain(got, out, hand, raw)
    <3>1. i \in 1 .. Len(c) /\ c[i] = got[i]
      BY ONLY <1>2, ChainBegins DEF c
    <3> QED
      BY Zenon, <2>2, <3>1
  <2>5. S!D!EndsWith(S!Error)
    BY <2>1, <2>3, ErrorIsLast
  <2> QED
    BY <1>1, <1>3, <2>5 DEF S!D!Fail
<1>4. CASE outcome = "" /\ ctxEnded
  BY <1>1, <1>4 DEF S!D!Cancel
<1>5. CASE outcome = "" /\ ~ctxEnded
  <2>1. got \o out = emitted /\ adapter = "ended"
    BY <1>1, <1>5 DEF StreamInv, FlowInv
  <2>2. got = emitted
    BY <1>1, <1>2, <2>1, ConcatEmpty
  <2>3. got # <<>>
    BY <1>5, <2>1, <2>2 DEF StreamInv, EndInv
  <2>4. outcome' = "answer"
    BY <1>1, <1>5, <2>3
  <2>5. S!AnswerIsWhole'
    BY <2>4 DEF StreamInv, EndInv
  <2>6. emitted[Len(emitted)] = S!Done
    BY <1>1, <2>2, <2>4, <2>5 DEF S!AnswerIsWhole, S!Last, Last
  <2>7. S!D!EndsWith(S!Done)
    BY <2>2, <2>3, <2>6 DEF S!D!EndsWith
  <2> QED
    BY <1>1, <1>5, <2>2, <2>4, <2>7 DEF S!D!Answer
<1> QED
  BY <1>1, <1>3, <1>4, <1>5

\* The verdict of a stream whose first event, or its absence, decides.
LEMMA PeekDecides ==
  ASSUME StreamInv, S!PeekEvent \/ S!PeekNothing
  PROVE  S!D!Fail \/ S!D!Cancel \/ S!D!Reject \/ UNCHANGED S!D!deliveryVars
<1>1. ferry = "off" /\ outcome = "" /\ UNCHANGED <<emitted, got, ctxEnded>>
  BY DEF S!PeekEvent, S!PeekNothing
<1>2. raw = emitted
  <2>1. Chain(got, out, hand, raw) = emitted /\ got = <<>> /\ out = <<>> /\ hand = <<>>
    BY <1>1 DEF StreamInv, FlowInv
  <2>2. Chain(<<>>, <<>>, <<>>, raw) = raw
    BY ChainStarts DEF StreamInv, StreamShape
  <2> QED
    BY <2>1, <2>2
<1>3. CASE S!PeekEvent /\ Head(raw) = S!Error
  <2>1. raw # <<>> /\ outcome' = "error"
    BY <1>3 DEF S!PeekEvent, S!Finish
  <2>2. IsSeq(raw) /\ Head(raw) = raw[1] /\ Len(raw) \in Nat /\ 0 < Len(raw)
    BY <2>1, TailIsSeq, LengthIsNat DEF StreamInv, StreamShape
  <2>3. 1 \in 1 .. Len(emitted) /\ emitted[1] = S!Error
    BY <1>2, <1>3, <2>2
  <2>4. S!D!EndsWith(S!Error)
    BY <2>3, ErrorIsLast
  <2> QED
    BY <1>1, <2>1, <2>4 DEF S!D!Fail
<1>4. CASE S!PeekEvent /\ Head(raw) # S!Error
  <2>1. outcome' = outcome
    BY <1>4 DEF S!PeekEvent
  <2> QED
    BY <1>1, <2>1 DEF S!D!deliveryVars
<1>5. CASE S!PeekNothing
  <2>1. \/ raw = <<>> /\ adapter = "ended" /\ outcome' = "malformed"
        \/ ctxEnded /\ outcome' = "cancelled"
    BY <1>5 DEF S!PeekNothing, S!Finish
  <2>2. raw = <<>> /\ adapter = "ended" => emitted = <<>> /\ ctxEnded
    BY <1>2 DEF StreamInv, EndInv
  <2> QED
    BY <1>1, <2>1, <2>2 DEF S!D!Cancel, S!D!Reject
<1> QED
  BY <1>3, <1>4, <1>5

LEMMA StreamRefines ==
  StreamInv /\ DeliverInv /\ StreamInv' /\ [S!Next]_S!vars => [S!D!Next]_(S!D!deliveryVars)
<1> SUFFICES ASSUME StreamInv, DeliverInv, StreamInv', [S!Next]_S!vars
             PROVE  S!D!Next \/ UNCHANGED S!D!deliveryVars
  OBVIOUS
<1>1. CASE \/ S!Chat \/ S!ReadFrame \/ S!ReadEOF \/ S!ReadFailure \/ S!AbandonEmit
           \/ S!FerryGives \/ S!FerryTakes \/ S!FerryDrains \/ S!FerryEnds
           \/ UNCHANGED S!vars
  <2>1. UNCHANGED <<emitted, got, outcome, ctxEnded>>
    BY <1>1 DEF S!Chat, S!ReadFrame, S!ReadEOF, S!ReadFailure, S!AbandonEmit,
                S!FerryGives, S!FerryTakes, S!FerryDrains, S!FerryEnds, S!vars
  <2> QED
    BY <2>1 DEF S!D!deliveryVars
<1>2. CASE S!Emit
  BY <1>2, EmitSends DEF S!D!Next
<1>3. CASE S!PeekEvent \/ S!PeekNothing
  BY <1>3, PeekDecides DEF S!D!Next
<1>4. CASE S!Collect
  BY <1>4, CollectReceives DEF S!D!Next
<1>5. CASE S!CollectClosed
  BY <1>5, CloseDecides DEF S!D!Next
<1>6. CASE S!EndContext
  BY <1>6 DEF S!EndContext, S!D!Next, S!D!Stop
<1> QED
  BY <1>1, <1>2, <1>3, <1>4, <1>5, <1>6 DEF S!Next, S!Adapter, S!Ferry, S!Caller

\* Between the adapter and the loop no event is lost, repeated or overtaken; the
\* loop gets one verdict, which what was sent and the context justify, and nothing
\* after it (stream.go emit, router.go Chat, replayEvents, loop.go collect).
THEOREM StreamImplementsDelivery == S!Spec => DeliverySpec
<1>1. S!Init => StreamInv /\ DeliverInv /\ S!D!Init
  BY StreamInit, DeliverInit, DeliveryStarts
<1>2. StreamInv /\ [S!Next]_S!vars => StreamInv'
  BY StreamStep
<1>3. StreamInv /\ DeliverInv /\ StreamInv' /\ [S!Next]_S!vars => DeliverInv'
  BY DeliverStep
<1>4. StreamInv /\ DeliverInv /\ StreamInv' /\ [S!Next]_S!vars => [S!D!Next]_(S!D!deliveryVars)
  BY StreamRefines
<1> QED
  BY <1>1, <1>2, <1>3, <1>4, PTL DEF S!Spec, DeliverySpec, S!DeliverySpec, S!D!Spec

-----------------------------------------------------------------------------
\* What MCProvider runs is a behaviour of the router and of the stream.
THEOREM ProviderRunsParts == ProviderSpec => Spec /\ S!Spec
<1>1. ProviderInit => Init /\ S!Init
  BY DEF ProviderInit
<1>2. [ProviderNext]_<<vars, streamVars, turnVars, terminalVars>> => [Next]_vars /\ [S!Next]_S!vars
  <2>1. UNCHANGED streamVars => UNCHANGED S!vars
    BY DEF streamVars, S!vars
  <2> QED
    BY Zenon, <2>1 DEF ProviderNext
<1> QED
  BY <1>1, <1>2, PTL DEF ProviderSpec, Spec, S!Spec
=============================================================================
