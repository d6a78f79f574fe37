---------------------------- MODULE BrokerProofs ----------------------------
(***************************************************************************)
(* Theorems about the approval broker, for any number of callers,          *)
(* frontends and actions and any channel capacity.                         *)
(***************************************************************************)
EXTENDS Broker, SequenceTheorems, TLAPS

-----------------------------------------------------------------------------
(* The sequences the broker keeps *)

\* Dropping an id from the order leaves a sequence of ids.
LEMMA WithoutType ==
  ASSUME NEW s \in Seq(Requests), NEW r
  PROVE  Without(s, r) \in Seq(Requests)
<1>1. CASE r \in {s[j] : j \in DOMAIN s}
  <2> DEFINE i == CHOOSE i \in DOMAIN s : s[i] = r
  <2>1. Without(s, r) = [j \in 1..Len(s) - 1 |-> IF j < i THEN s[j] ELSE s[j + 1]]
    BY <1>1 DEF Without
  <2>2. i \in 1..Len(s)
    BY <1>1
  <2>3. Len(s) - 1 \in Nat
    BY <2>2
  <2>4. \A j \in 1..Len(s) - 1 : (IF j < i THEN s[j] ELSE s[j + 1]) \in Requests
    BY <2>2
  <2> QED
    BY <2>1, <2>3, <2>4
<1>2. CASE r \notin {s[j] : j \in DOMAIN s}
  BY <1>2 DEF Without
<1> QED
  BY <1>1, <1>2

\* Dropping an id from an order without duplicates leaves exactly the others,
\* still without duplicates.
LEMMA WithoutElements ==
  ASSUME NEW s \in Seq(Requests), NEW r,
         \A i, j \in DOMAIN s : s[i] = s[j] => i = j
  PROVE  LET w == Without(s, r)
         IN  /\ \A i, j \in DOMAIN w : w[i] = w[j] => i = j
             /\ \A i \in DOMAIN w : w[i] # r /\ \E j \in DOMAIN s : s[j] = w[i]
             /\ \A j \in DOMAIN s : s[j] # r => \E i \in DOMAIN w : w[i] = s[j]
<1>1. CASE r \in {s[j] : j \in DOMAIN s}
  <2> DEFINE i == CHOOSE i \in DOMAIN s : s[i] = r
             w == Without(s, r)
  <2>1. w = [j \in 1..Len(s) - 1 |-> IF j < i THEN s[j] ELSE s[j + 1]]
    BY <1>1 DEF Without
  <2>2. i \in 1..Len(s) /\ s[i] = r
    BY <1>1
  <2>3. DOMAIN s = 1..Len(s) /\ Len(s) \in Nat /\ DOMAIN w = 1..Len(s) - 1
    BY <2>1
  <2> HIDE DEF i, w
  <2> DEFINE at(k) == IF k < i THEN k ELSE k + 1
  <2>7. \A k \in DOMAIN w : /\ k \in 1..Len(s) - 1
                            /\ at(k) \in DOMAIN s /\ at(k) # i /\ w[k] = s[at(k)]
    BY <2>1, <2>2, <2>3
  <2>8. \A k, j \in DOMAIN w : at(k) = at(j) => k = j
    BY <2>2, <2>3, <2>7
  <2> HIDE DEF at
  <2>4. \A k, j \in DOMAIN w : w[k] = w[j] => k = j
    BY Zenon, <2>7, <2>8
  <2>5. \A k \in DOMAIN w : w[k] # r /\ \E j \in DOMAIN s : s[j] = w[k]
    BY <2>1, <2>2, <2>3
  <2>6. ASSUME NEW j \in DOMAIN s, s[j] # r
        PROVE  \E k \in DOMAIN w : w[k] = s[j]
    <3>1. CASE j < i
      BY <3>1, <2>1, <2>2, <2>3
    <3>2. CASE j > i
      <4>1. j - 1 \in DOMAIN w /\ w[j - 1] = s[j]
        BY <3>2, <2>1, <2>2, <2>3
      <4> QED
        BY <4>1
    <3> QED
      BY <3>1, <3>2, <2>2, <2>3, <2>6
  <2> QED
    BY <2>4, <2>5, <2>6 DEF w
<1>2. CASE r \notin {s[j] : j \in DOMAIN s}
  BY <1>2 DEF Without
<1> QED
  BY <1>1, <1>2

\* Publishing keeps every channel a sequence of events within its capacity.
LEMMA PublishType ==
  ASSUME TypeOK, NEW events \in Seq(Events), Publish(events)
  PROVE  /\ queue' \in [Frontends -> Seq(Events)]
         /\ \A f \in Frontends : Len(queue'[f]) <= SubBuffer
         /\ step' \in [Frontends -> {"new", "listed", "lost"}]
         /\ view' \in [Frontends -> SUBSET Requests]
<1> DEFINE kept(f) == SubSeq(events, 1, IF Len(events) < Room(f) THEN Len(events) ELSE Room(f))
<1>1. ASSUME NEW f \in Frontends
      PROVE  queue[f] \o kept(f) \in Seq(Events) /\ Len(queue[f] \o kept(f)) <= SubBuffer
  <2>1. queue[f] \in Seq(Events) /\ Len(queue[f]) <= SubBuffer /\ Len(queue[f]) \in Nat
    BY DEF TypeOK
  <2>2. Room(f) \in Nat
    BY <2>1, BrokerAssumption DEF Room
  <2> DEFINE n == IF Len(events) < Room(f) THEN Len(events) ELSE Room(f)
  <2>3. n \in Nat /\ n <= Len(events) /\ n <= Room(f)
    BY <2>2
  <2>4. kept(f) \in Seq(Events) /\ Len(kept(f)) = n
    BY <2>3, SubSeqProperties
  <2>5. Len(queue[f] \o kept(f)) = Len(queue[f]) + n
    BY <2>1, <2>4, ConcatProperties
  <2>6. queue[f] \o kept(f) \in Seq(Events)
    BY <2>1, <2>4, ConcatProperties
  <2> HIDE DEF n, kept
  <2>7. Len(queue[f]) + n <= SubBuffer
    BY <2>1, <2>3, BrokerAssumption DEF Room
  <2> QED
    BY <2>5, <2>6, <2>7
<1>2. queue' = [f \in Frontends |-> IF sub[f] = "on" THEN queue[f] \o kept(f) ELSE queue[f]]
  BY DEF Publish
<1> HIDE DEF kept
<1>3. queue' \in [Frontends -> Seq(Events)] /\ \A f \in Frontends : Len(queue'[f]) <= SubBuffer
  BY <1>1, <1>2 DEF TypeOK
<1>4. step' \in [Frontends -> {"new", "listed", "lost"}] /\ view' \in [Frontends -> SUBSET Requests]
  BY DEF Publish, TypeOK
<1> QED
  BY <1>3, <1>4

-----------------------------------------------------------------------------
(* Types *)

\* A request that was made has an action, and only such a one is pending.
Asked ==
  \A r \in Requests : /\ phase[r] # "idle" => action[r] \in Actions
                      /\ r \in pending => phase[r] # "idle"

LEMMA InitTypes == Init => TypeOK /\ Asked
<1> SUFFICES ASSUME Init
             PROVE  TypeOK /\ Asked
  OBVIOUS
<1>1. queue \in [Frontends -> Seq(Events)] /\ \A f \in Frontends : Len(queue[f]) <= SubBuffer
  BY BrokerAssumption, EmptySeq DEF Init
<1>2. order \in Seq(Requests) /\ grants \subseteq GrantKeys
  BY EmptySeq DEF Init
<1>3. TypeOK
  BY <1>1, <1>2 DEF Init, TypeOK, Answers
<1> QED
  BY <1>3 DEF Init, Asked

LEMMA StepAsked == TypeOK /\ Asked /\ [Next]_vars => Asked'
<1> SUFFICES ASSUME TypeOK, Asked, [Next]_vars
             PROVE  Asked'
  OBVIOUS
<1> USE DEF TypeOK, Asked
<1>1. ASSUME NEW r \in Requests, Caller(r)
      PROVE  Asked'
  <2>1. CASE \E a \in Actions : Call(r, a)
    BY <2>1 DEF Call, Return
  <2>2. CASE EnterClosed(r) \/ EnterGranted(r) \/ EnterQueued(r)
    BY <2>2 DEF EnterClosed, EnterGranted, EnterQueued, Return
  <2>3. CASE TakeResult(r)
    BY <2>3 DEF TakeResult, Return
  <2>5. CASE NoticeEnd(r)
    BY <2>5 DEF NoticeEnd
  <2>4. CASE Withdraw(r) \/ LeaveAnswered(r)
    BY <2>4 DEF Withdraw, LeaveAnswered, Return, Remove
  <2> QED
    BY <1>1, <2>1, <2>2, <2>3, <2>4, <2>5 DEF Caller
<1>5. ASSUME NEW r \in Requests, EndContext(r)
      PROVE  Asked'
  BY <1>5 DEF EndContext, callerVars
<1>2. CASE User
  BY <1>2 DEF User, ResolveWithScope, AllowCategoryForSession, AllowActionForSession,
              ClearSessionGrants, RevokeSessionGrant, Remove, callerVars
<1>3. CASE Close
  BY <1>3 DEF Close, callerVars
<1>4. CASE UNCHANGED vars \/ \E f \in Frontends : Frontend(f)
  BY <1>4 DEF vars, Frontend, Subscribe, Unsubscribe, List, Receive, callerVars
<1> QED
  BY <1>1, <1>2, <1>3, <1>4, <1>5 DEF Next

LEMMA StepTypeOK == TypeOK /\ Asked /\ [Next]_vars => TypeOK'
<1> SUFFICES ASSUME TypeOK, Asked, [Next]_vars
             PROVE  TypeOK'
  OBVIOUS
<1>1. ASSUME NEW r \in Requests, NEW a \in Actions, Call(r, a)
      PROVE  TypeOK'
  BY <1>1 DEF TypeOK, Call, Return, frontendVars, Answers
<1>2. ASSUME NEW r \in Requests, EnterClosed(r) \/ EnterGranted(r)
      PROVE  TypeOK'
  <2>1. CASE EnterClosed(r)
    BY <2>1 DEF TypeOK, EnterClosed, Return, frontendVars, Answers
  <2>2. CASE EnterGranted(r)
    BY <2>2 DEF TypeOK, EnterGranted, Return, frontendVars, Answers
  <2> QED
    BY <1>2, <2>1, <2>2
<1>3. ASSUME NEW r \in Requests, EnterQueued(r)
      PROVE  TypeOK'
  <2>1. <<Event("added", r)>> \in Seq(Events)
    BY DEF Event, Events
  <2>2. order' \in Seq(Requests)
    BY <1>3, AppendProperties DEF EnterQueued, TypeOK
  <2> QED
    BY <1>3, <2>1, <2>2, PublishType DEF TypeOK, EnterQueued
<1>4. ASSUME NEW r \in Requests, TakeResult(r) \/ NoticeEnd(r) \/ LeaveAnswered(r)
      PROVE  TypeOK'
  <2>1. CASE TakeResult(r)
    BY <2>1 DEF TypeOK, TakeResult, Return, frontendVars, Answers
  <2>2. CASE NoticeEnd(r)
    BY <2>2 DEF TypeOK, NoticeEnd, frontendVars
  <2>3. CASE LeaveAnswered(r)
    BY <2>3 DEF TypeOK, LeaveAnswered, Return, frontendVars, Answers
  <2> QED
    BY <1>4, <2>1, <2>2, <2>3
<1>5. ASSUME NEW r \in Requests, Withdraw(r)
      PROVE  TypeOK'
  <2>1. <<Event("cancelled", r)>> \in Seq(Events)
    BY DEF Event, Events
  <2>2. order' \in Seq(Requests)
    BY <1>5, WithoutType DEF Withdraw, Remove, TypeOK
  <2> QED
    BY <1>5, <2>1, <2>2, PublishType DEF TypeOK, Withdraw, Remove, Return, Answers
<1>6. ASSUME NEW r \in Requests, EndContext(r)
      PROVE  TypeOK'
  BY <1>6 DEF TypeOK, EndContext, callerVars, frontendVars
<1>7. ASSUME NEW f \in Frontends, Frontend(f)
      PROVE  TypeOK'
  <2>1. CASE Receive(f)
    <3>1. queue[f] \in Seq(Events) /\ queue[f] # <<>> /\ Len(queue[f]) <= SubBuffer
      BY <2>1 DEF Receive, TypeOK
    <3>2. Tail(queue[f]) \in Seq(Events) /\ Len(Tail(queue[f])) <= SubBuffer
      BY <3>1, BrokerAssumption, HeadTailProperties
    <3>3. queue' \in [Frontends -> Seq(Events)] /\ \A g \in Frontends : Len(queue'[g]) <= SubBuffer
      BY <2>1, <3>2 DEF Receive, TypeOK
    <3>4. view' \in [Frontends -> SUBSET Requests]
      BY <2>1 DEF Receive, TypeOK, Replay
    <3> QED
      BY <2>1, <3>3, <3>4 DEF Receive, TypeOK, callerVars
  <2>2. CASE Subscribe(f)
    BY <2>2 DEF Subscribe, TypeOK, callerVars
  <2>4. CASE List(f)
    BY <2>4 DEF List, Pending, TypeOK, callerVars
  <2>3. CASE Unsubscribe(f)
    BY <2>3, EmptySeq, BrokerAssumption DEF Unsubscribe, TypeOK, callerVars
  <2> QED
    BY <1>7, <2>1, <2>2, <2>3, <2>4 DEF Frontend
<1>8. ASSUME NEW r \in Requests, NEW ok \in BOOLEAN, NEW s \in Scopes, ResolveWithScope(r, ok, s)
      PROVE  TypeOK'
  <2>1. <<Event("resolved", r)>> \in Seq(Events)
    BY DEF Event, Events
  <2>2. order' \in Seq(Requests)
    BY <1>8, WithoutType DEF ResolveWithScope, Remove, TypeOK
  <2>3. grants' \subseteq GrantKeys
    <3>1. action[r] \in Actions
      BY <1>8 DEF ResolveWithScope, Asked
    <3>2. GrantFor(action[r], s) \subseteq GrantKeys
      BY <3>1 DEF GrantFor, GrantKeys, Categories
    <3> QED
      BY <3>2, <1>8 DEF ResolveWithScope, TypeOK
  <2> QED
    BY <1>8, <2>1, <2>2, <2>3, PublishType DEF TypeOK, ResolveWithScope, Remove, callerVars
<1>9. ASSUME NEW c \in Categories, AllowCategoryForSession(c)
      PROVE  TypeOK'
  BY <1>9 DEF TypeOK, AllowCategoryForSession, GrantKeys, callerVars, frontendVars
<1>10. ASSUME NEW a \in Actions, AllowActionForSession(a)
      PROVE  TypeOK'
  BY <1>10 DEF TypeOK, AllowActionForSession, GrantFor, GrantKeys, callerVars, frontendVars
<1>11. CASE ClearSessionGrants \/ \E k \in GrantKeys : RevokeSessionGrant(k)
  BY <1>11 DEF TypeOK, ClearSessionGrants, RevokeSessionGrant, callerVars, frontendVars
<1>12. CASE Close
  <2>1. [i \in DOMAIN order |-> Event("cancelled", order[i])] \in Seq(Events)
    <3>1. DOMAIN order = 1..Len(order) /\ Len(order) \in Nat
      BY DEF TypeOK
    <3>2. \A i \in 1..Len(order) : Event("cancelled", order[i]) \in Events
      BY DEF TypeOK, Event, Events
    <3> QED
      BY <3>1, <3>2
  <2>2. <<>> \in Seq(Requests)
    BY EmptySeq
  <2> QED
    BY <1>12, <2>1, <2>2, PublishType DEF TypeOK, Close, callerVars
<1>13. CASE UNCHANGED vars
  BY <1>13 DEF TypeOK, vars
<1> QED
  BY <1>1, <1>2, <1>3, <1>4, <1>5, <1>6, <1>7, <1>8, <1>9, <1>10, <1>11, <1>12, <1>13
  DEF Next, Caller, User

\* Every reachable state is well typed and no channel overflows.
THEOREM TypeCorrect == Spec => []TypeOK
  BY InitTypes, StepTypeOK, StepAsked, PTL DEF Spec

-----------------------------------------------------------------------------
(* Safety *)

LEMMA InitInv == Init => BrokerInv
  BY DEF Init, BrokerInv, PendingIsUnanswered, CallerInv, FailClosed, AnswerHonoured

\* The part of the types these proofs use.
CoreTypes ==
  /\ phase \in [Requests -> {"idle", "entering", "waiting", "leaving", "returned"}]
  /\ action \in [Requests -> Actions \cup {NoAction}]
  /\ answer \in [Requests -> Answers \cup {"none"}]
  /\ result \in [Requests -> {"empty", "approved", "declined", "closed"}]
  /\ pending \subseteq Requests
  /\ order \in Seq(Requests)
  /\ said \in [Requests -> {"nothing", "yes", "no"}]

\* The steps of a caller.
LEMMA CallerKeepsInv ==
  ASSUME TypeOK, Asked, BrokerInv, NEW r \in Requests, Caller(r)
  PROVE  BrokerInv'
<1>0. CoreTypes
  BY DEF TypeOK, CoreTypes
<1> USE DEF CoreTypes, BrokerInv, PendingIsUnanswered, CallerInv, FailClosed, AnswerHonoured,
            Answers, Delivered
<1>1. ASSUME NEW a \in Actions, Call(r, a)
      PROVE  BrokerInv'
  <2>1. /\ a # NoAction
        /\ phase[r] = "idle"
        /\ action' = [action EXCEPT ![r] = a]
        /\ UNCHANGED <<result, pending, order, said, closed>>
    BY <1>1, BrokerAssumption DEF Call
  <2>2. said[r] = "nothing" /\ r \notin pending /\ result[r] = "empty" /\ answer[r] = "none"
    BY <2>1, <1>0
  <2>3. \/ phase' = [phase EXCEPT ![r] = "entering"] /\ answer' = answer
        \/ phase' = [phase EXCEPT ![r] = "returned"] /\ answer' = [answer EXCEPT ![r] = "ctx"]
    BY <1>1 DEF Call, Return
  <2>4. PendingIsUnanswered' /\ CallerInv'
    BY <1>0, <2>1, <2>2, <2>3
  <2>5. FailClosed' /\ AnswerHonoured'
    BY <1>0, <2>1, <2>2, <2>3
  <2> QED
    BY <2>4, <2>5
<1>2. CASE EnterClosed(r)
  BY <1>0, <1>2 DEF EnterClosed, Return
<1>3. CASE EnterGranted(r)
  BY <1>0, <1>3 DEF EnterGranted, Return, MatchGrant, CanGrantSession
<1>4. CASE EnterQueued(r)
  <2>1. /\ phase[r] = "entering"
        /\ order' = Append(order, r)
        /\ phase' = [phase EXCEPT ![r] = "waiting"]
        /\ pending' = pending \cup {r}
        /\ UNCHANGED <<action, answer, result, said, closed>>
        /\ ~closed
    BY <1>4 DEF EnterQueued
  <2>2. /\ DOMAIN order = 1..Len(order) /\ Len(order) \in Nat
        /\ DOMAIN order' = 1..Len(order) + 1
        /\ order'[Len(order) + 1] = r
        /\ \A i \in DOMAIN order : order'[i] = order[i]
    BY <1>0, <2>1, AppendProperties
  <2>3. r \notin pending /\ result[r] = "empty" /\ said[r] = "nothing" /\ action[r] # NoAction
    BY <1>0, <2>1
  <2>4. PendingIsUnanswered'
    <3>1. ASSUME NEW q \in pending'
          PROVE  \E i \in DOMAIN order' : order'[i] = q
      <4>1. CASE q = r
        BY <4>1, <2>2
      <4>2. CASE q \in pending
        BY <4>2, <2>2
      <4> QED
        BY <4>1, <4>2, <2>1
    <3>2. \A i, j \in DOMAIN order' :
            order'[i] \in pending' /\ (order'[i] = order'[j] => i = j)
      BY <2>1, <2>2, <2>3
    <3>3. \A q \in pending' : phase'[q] \in {"waiting", "leaving"}
                                /\ result'[q] = "empty" /\ said'[q] = "nothing"
      BY <1>0, <2>1, <2>3
    <3> QED
      BY <2>1, <3>1, <3>2, <3>3
  <2>5. CallerInv'
    BY <1>0, <2>1, <2>3
  <2>6. FailClosed' /\ AnswerHonoured'
    BY <1>0, <2>1, <2>3 DEF IsProduction
  <2> QED
    BY <2>4, <2>5, <2>6
<1>5. CASE TakeResult(r)
  BY <1>0, <1>5 DEF TakeResult, Return
<1>6. CASE NoticeEnd(r)
  BY <1>0, <1>6 DEF NoticeEnd
<1>7. CASE Withdraw(r)
  BY <1>0, <1>7, WithoutElements DEF Withdraw, Return, Remove
<1>8. CASE LeaveAnswered(r)
  BY <1>0, <1>8 DEF LeaveAnswered, Return
<1> QED
  BY <1>1, <1>2, <1>3, <1>4, <1>5, <1>6, <1>7, <1>8 DEF Caller

\* The steps of everyone else.
LEMMA OthersKeepInv ==
  ASSUME TypeOK, Asked, BrokerInv,
         \/ \E r \in Requests : EndContext(r)
         \/ \E f \in Frontends : Frontend(f)
         \/ User
         \/ Close
         \/ UNCHANGED vars
  PROVE  BrokerInv'
<1>0. CoreTypes
  BY DEF TypeOK, CoreTypes
<1> USE DEF CoreTypes, BrokerInv, PendingIsUnanswered, CallerInv, FailClosed, AnswerHonoured,
            Answers, Delivered
<1>1. ASSUME NEW r \in Requests, EndContext(r)
      PROVE  BrokerInv'
  BY <1>0, <1>1 DEF EndContext, callerVars
<1>2. ASSUME NEW f \in Frontends, Frontend(f)
      PROVE  BrokerInv'
  BY <1>0, <1>2 DEF Frontend, Subscribe, Unsubscribe, List, Receive, callerVars
<1>3. ASSUME NEW r \in Requests, NEW ok \in BOOLEAN, NEW s \in Scopes, ResolveWithScope(r, ok, s)
      PROVE  BrokerInv'
  <2>1. /\ r \in pending
        /\ pending' = pending \ {r}
        /\ order' = Without(order, r)
        /\ result' = [result EXCEPT ![r] = IF ok THEN "approved" ELSE "declined"]
        /\ said' = [said EXCEPT ![r] = IF ok THEN "yes" ELSE "no"]
        /\ UNCHANGED <<phase, action, answer, closed>>
    BY <1>3 DEF ResolveWithScope, Remove, callerVars
  <2>2. phase[r] \in {"waiting", "leaving"} /\ answer[r] = "none"
    BY <1>0, <2>1
  <2>3. PendingIsUnanswered'
    BY <1>0, <2>1, WithoutElements
  <2>4. CallerInv'
    BY <1>0, <2>1, <2>2
  <2>5. FailClosed' /\ AnswerHonoured'
    BY <1>0, <2>1, <2>2
  <2> QED
    BY <2>3, <2>4, <2>5
<1>4. CASE \/ \E c \in Categories : AllowCategoryForSession(c)
           \/ \E a \in Actions : AllowActionForSession(a)
           \/ \E k \in GrantKeys : RevokeSessionGrant(k)
           \/ ClearSessionGrants
  BY <1>0, <1>4 DEF AllowCategoryForSession, AllowActionForSession, RevokeSessionGrant,
              ClearSessionGrants, callerVars
<1>5. CASE Close
  BY <1>0, <1>5 DEF Close, Pending, callerVars
<1>6. CASE UNCHANGED vars
  BY <1>0, <1>6 DEF vars
<1> QED
  BY <1>1, <1>2, <1>3, <1>4, <1>5, <1>6 DEF User

\* The inductive invariant: what is pending is unanswered and queued once,
\* what is not pending any more holds its answer.
THEOREM InvCorrect == Spec => []BrokerInv
<1>1. TypeOK /\ Asked /\ BrokerInv /\ [Next]_vars => BrokerInv'
  BY CallerKeepsInv, OthersKeepInv DEF Next
<1> QED
  BY <1>1, InitTypes, InitInv, StepTypeOK, StepAsked, PTL DEF Spec

\* The broker never blocks on a result channel and never forgets a request.
THEOREM PendingUnanswered == Spec => []PendingIsUnanswered
  BY InvCorrect, PTL DEF BrokerInv

\* Dangerous work runs only on the user's own "yes" to it.
THEOREM ApprovalFailsClosed == Spec => []FailClosed
  BY InvCorrect, PTL DEF BrokerInv

\* An answer the broker accepted is the answer the core gets.
THEOREM AnswersHonoured == Spec => []AnswerHonoured
  BY InvCorrect, PTL DEF BrokerInv

-----------------------------------------------------------------------------
(* The frontends stay in sync                                              *)

\* What a queue says of a request, and what it says last.
Mentions(q, r) == \E i \in DOMAIN q : q[i].req = r
AddedLast(q, r) ==
  \E i \in DOMAIN q : /\ q[i].req = r /\ q[i].kind = "added"
                      /\ \A j \in DOMAIN q : q[j].req = r => j <= i

LEMMA ReplayOf ==
  ASSUME NEW v, NEW q, NEW r \in Requests
  PROVE  r \in Replay(v, q) <=> (~Mentions(q, r) /\ r \in v) \/ AddedLast(q, r)
BY DEF Replay, Mentions, AddedLast

\* Where a frontend lost nothing, the last word of its channel on a request is
\* whether it is pending; and of what its channel is silent about, its view is
\* right.
SyncInv ==
  \A f \in Frontends :
    /\ sub[f] = "off" => step[f] = "new" /\ queue[f] = <<>>
    /\ sub[f] = "on" <=> sub[f] # "off" /\ ~closed
    /\ (sub[f] # "off" /\ step[f] # "lost") =>
         \A r \in Requests : Mentions(queue[f], r) => (AddedLast(queue[f], r) <=> r \in pending)
    /\ step[f] = "listed" =>
         \A r \in Requests : ~Mentions(queue[f], r) => (r \in view[f] <=> r \in pending)

LEMMA SyncedIsInSync == TypeOK /\ SyncInv => InSync
<1> SUFFICES ASSUME TypeOK, SyncInv, NEW f \in Frontends, step[f] = "listed"
    PROVE  Replay(view[f], queue[f]) = pending
  BY DEF InSync
<1>1. sub[f] # "off"
  BY DEF SyncInv
<1>2. ASSUME NEW r \in Requests PROVE r \in Replay(view[f], queue[f]) <=> r \in pending
  <2>1. Mentions(queue[f], r) => (AddedLast(queue[f], r) <=> r \in pending)
    BY <1>1 DEF SyncInv
  <2>2. ~Mentions(queue[f], r) => (r \in view[f] <=> r \in pending)
    BY DEF SyncInv
  <2>3. AddedLast(queue[f], r) => Mentions(queue[f], r)
    BY DEF AddedLast, Mentions
  <2> QED
    BY <2>1, <2>2, <2>3, ReplayOf
<1>3. Replay(view[f], queue[f]) \subseteq Requests /\ pending \subseteq Requests
  BY DEF Replay, TypeOK
<1> QED
  BY <1>2, <1>3

LEMMA InitSync == Init => SyncInv
BY DEF Init, SyncInv, Mentions

\* What further events say of a request none of them is about, and of one that
\* one of them is about.
LEMMA SilentEvents ==
  ASSUME NEW n \in Nat, NEW m \in Nat, NEW q, NEW u, NEW r,
         DOMAIN q = 1 .. n, DOMAIN u = 1 .. n + m, \A i \in 1 .. n : u[i] = q[i],
         \A i \in n + 1 .. n + m : u[i].req # r
  PROVE  (Mentions(u, r) <=> Mentions(q, r)) /\ (AddedLast(u, r) <=> AddedLast(q, r))
<1>1. \A i \in 1 .. n + m : i \in 1 .. n \/ i \in n + 1 .. n + m
  OBVIOUS
<1>2. \A i \in 1 .. n : i \in 1 .. n + m
  OBVIOUS
<1>3. \A i \in 1 .. n + m : u[i].req = r => i \in 1 .. n /\ q[i].req = r /\ u[i] = q[i]
  BY <1>1
<1>4. \A i \in 1 .. n : q[i].req = r => i \in 1 .. n + m /\ u[i].req = r /\ u[i] = q[i]
  BY <1>2
<1> QED
  BY <1>3, <1>4, Zenon DEF Mentions, AddedLast

LEMMA TellingEvents ==
  ASSUME NEW n \in Nat, NEW m \in Nat, NEW u, NEW r, NEW kind,
         kind = "added" => m = 1,
         DOMAIN u = 1 .. n + m, \A i \in n + 1 .. n + m : u[i].kind = kind,
         \E i \in n + 1 .. n + m : u[i].req = r
  PROVE  Mentions(u, r) /\ (AddedLast(u, r) <=> kind = "added")
<1>0. PICK k \in n + 1 .. n + m : u[k].req = r
  OBVIOUS
<1>1. k \in 1 .. n + m
  OBVIOUS
<1>2. \A i \in 1 .. n + m : k <= i => i \in n + 1 .. n + m
  OBVIOUS
<1>3. Mentions(u, r)
  BY <1>0, <1>1 DEF Mentions
<1>4. ASSUME kind # "added" PROVE ~AddedLast(u, r)
  BY <1>0, <1>1, <1>2, <1>4 DEF AddedLast
<1>5. ASSUME kind = "added" PROVE AddedLast(u, r)
  <2>1. \A j \in 1 .. n + m : j <= k
    BY <1>5
  <2> QED
    BY <1>0, <1>1, <1>5, <2>1 DEF AddedLast
<1> QED
  BY <1>3, <1>4, <1>5

\* What a queue says once its first event is taken.
LEMMA ShorterQueue ==
  ASSUME NEW n \in Nat, 0 < n, NEW q, NEW u, NEW r,
         DOMAIN q = 1 .. n, DOMAIN u = 1 .. n - 1, \A i \in 1 .. n - 1 : u[i] = q[i + 1]
  PROVE  /\ Mentions(u, r) => Mentions(q, r) /\ (AddedLast(u, r) <=> AddedLast(q, r))
         /\ ~Mentions(u, r) /\ q[1].req = r =>
              Mentions(q, r) /\ (AddedLast(q, r) <=> q[1].kind = "added")
         /\ ~Mentions(u, r) /\ q[1].req # r => ~Mentions(q, r)
<1>1. \A i \in 1 .. n - 1 : i + 1 \in 1 .. n
  OBVIOUS
<1>2. \A i \in 1 .. n : i = 1 \/ (i - 1 \in 1 .. n - 1 /\ u[i - 1] = q[i])
  OBVIOUS
<1>3. 1 \in 1 .. n
  OBVIOUS
<1>4. Mentions(u, r) => Mentions(q, r)
  BY <1>1 DEF Mentions
<1>5. ASSUME Mentions(u, r), AddedLast(u, r) PROVE AddedLast(q, r)
  <2>1. PICK i \in 1 .. n - 1 : /\ u[i].req = r /\ u[i].kind = "added"
                               /\ \A j \in 1 .. n - 1 : u[j].req = r => j <= i
    BY <1>5 DEF AddedLast
  <2>2. i + 1 \in 1 .. n /\ q[i + 1] = u[i]
    BY <1>1
  <2>3. ASSUME NEW j \in 1 .. n, q[j].req = r PROVE j <= i + 1
    <3>1. CASE j = 1
      BY <3>1
    <3>2. CASE j # 1
      <4>1. j - 1 \in 1 .. n - 1 /\ u[j - 1] = q[j]
        BY <1>2, <3>2
      <4>2. j - 1 <= i
        BY <2>1, <2>3, <4>1
      <4> QED
        BY <4>2
    <3> QED
      BY <3>1, <3>2
  <2> QED
    BY <2>1, <2>2, <2>3 DEF AddedLast
<1>6. ASSUME Mentions(u, r), AddedLast(q, r) PROVE AddedLast(u, r)
  <2>1. PICK i \in 1 .. n : /\ q[i].req = r /\ q[i].kind = "added"
                           /\ \A j \in 1 .. n : q[j].req = r => j <= i
    BY <1>6 DEF AddedLast
  <2>2. PICK k \in 1 .. n - 1 : u[k].req = r
    BY <1>6 DEF Mentions
  <2>3. k + 1 \in 1 .. n /\ q[k + 1].req = r
    BY <2>2
  <2>4. k + 1 <= i
    BY <2>1, <2>3
  <2>5. i # 1
    BY <2>4
  <2>6. i - 1 \in 1 .. n - 1 /\ u[i - 1] = q[i]
    BY <1>2, <2>5
  <2>7. ASSUME NEW j \in 1 .. n - 1, u[j].req = r PROVE j <= i - 1
    <3>1. j + 1 \in 1 .. n /\ q[j + 1].req = r
      BY <2>7
    <3>2. j + 1 <= i
      BY <2>1, <3>1
    <3> QED
      BY <3>2
  <2> QED
    BY <2>1, <2>6, <2>7 DEF AddedLast
<1>7. ASSUME ~Mentions(u, r) PROVE \A i \in 1 .. n : q[i].req = r => i = 1
  BY <1>2, <1>7 DEF Mentions
<1>8. ASSUME ~Mentions(u, r), q[1].req = r
      PROVE  Mentions(q, r) /\ (AddedLast(q, r) <=> q[1].kind = "added")
  BY <1>3, <1>7, <1>8 DEF Mentions, AddedLast
<1>9. ASSUME ~Mentions(u, r), q[1].req # r PROVE ~Mentions(q, r)
  BY <1>7, <1>9 DEF Mentions
<1> QED
  BY <1>4, <1>5, <1>6, <1>8, <1>9

\* A channel that loses nothing gets all that is published.
LEMMA PublishedTo ==
  ASSUME TypeOK, NEW events \in Seq(Events), Publish(events), NEW f \in Frontends
  PROVE  /\ sub[f] # "on" => queue'[f] = queue[f] /\ step'[f] = step[f] /\ view'[f] = view[f]
         /\ sub[f] = "on" => step'[f] = "lost" \/
              (step'[f] = step[f] /\ view'[f] = view[f] /\ queue'[f] = queue[f] \o events)
<1> DEFINE n == Len(events)
           room == Room(f)
           cut == SubSeq(events, 1, IF n < room THEN n ELSE room)
<1>1. /\ queue'[f] = IF sub[f] = "on" THEN queue[f] \o cut ELSE queue[f]
      /\ step'[f] = IF sub[f] = "on" /\ room < n THEN "lost" ELSE step[f]
      /\ view'[f] = IF sub[f] = "on" /\ room < n THEN {} ELSE view[f]
  BY DEF Publish
<1>2. room \in Int
  BY BrokerAssumption DEF Room, TypeOK
<1>3. n \in Nat
  OBVIOUS
<1>4. ~(room < n) => cut = events
  <2>1. ~(room < n) => (IF n < room THEN n ELSE room) = n
    BY <1>2, <1>3
  <2>2. SubSeq(events, 1, n) = events
    OBVIOUS
  <2> QED
    BY <2>1, <2>2
<1> HIDE DEF n, room, cut
<1> QED
  BY <1>1, <1>4

\* Events of one kind about the requests in R, and only these change, and are
\* then pending if the kind is added.
LEMMA PublishSynced ==
  ASSUME TypeOK, SyncInv, ~closed, NEW events \in Seq(Events), Publish(events), NEW kind, NEW R,
         kind = "added" => Len(events) = 1,
         \A i \in 1 .. Len(events) : events[i].kind = kind /\ events[i].req \in R,
         \A r \in R : \E i \in 1 .. Len(events) : events[i].req = r,
         \A r \in Requests : r \in R => (r \in pending' <=> kind = "added"),
         \A r \in Requests : r \notin R => (r \in pending' <=> r \in pending),
         sub' = sub \/ (closed' /\ sub' = [f \in Frontends |-> IF sub[f] = "on" THEN "closed" ELSE sub[f]]),
         sub' = sub => closed' = closed
  PROVE  SyncInv'
<1> SUFFICES ASSUME NEW f \in Frontends
    PROVE  /\ sub'[f] = "off" => step'[f] = "new" /\ queue'[f] = <<>>
           /\ sub'[f] = "on" <=> sub'[f] # "off" /\ ~closed'
           /\ (sub'[f] # "off" /\ step'[f] # "lost") =>
                \A r \in Requests :
                  Mentions(queue'[f], r) => (AddedLast(queue'[f], r) <=> r \in pending')
           /\ step'[f] = "listed" =>
                \A r \in Requests : ~Mentions(queue'[f], r) => (r \in view'[f] <=> r \in pending')
  BY DEF SyncInv
<1>1. /\ sub[f] = "off" => step[f] = "new" /\ queue[f] = <<>>
      /\ sub[f] = "on" <=> sub[f] # "off"
      /\ (sub[f] # "off" /\ step[f] # "lost") =>
           \A r \in Requests : Mentions(queue[f], r) => (AddedLast(queue[f], r) <=> r \in pending)
      /\ step[f] = "listed" =>
           \A r \in Requests : ~Mentions(queue[f], r) => (r \in view[f] <=> r \in pending)
  BY DEF SyncInv
<1>2. /\ sub[f] # "on" => queue'[f] = queue[f] /\ step'[f] = step[f] /\ view'[f] = view[f]
      /\ sub[f] = "on" => step'[f] = "lost" \/
           (step'[f] = step[f] /\ view'[f] = view[f] /\ queue'[f] = queue[f] \o events)
  BY PublishedTo
<1>3. /\ sub'[f] = "off" <=> sub[f] = "off"
      /\ sub'[f] = "on" <=> sub'[f] # "off" /\ ~closed'
  <2>1. sub[f] \in {"off", "on", "closed"}
    BY DEF TypeOK
  <2> QED
    BY <1>1, <2>1
<1>4. CASE sub[f] = "off"
  BY <1>1, <1>2, <1>3, <1>4
<1>5. CASE sub[f] # "off" /\ step'[f] = "lost"
  BY <1>3, <1>5
<1>6. CASE sub[f] # "off" /\ step'[f] # "lost"
  <2> DEFINE q == queue[f]
             u == q \o events
             n == Len(q)
             m == Len(events)
  <2>1. step'[f] = step[f] /\ view'[f] = view[f] /\ queue'[f] = u
    BY <1>1, <1>2, <1>6
  <2>2. q \in Seq(Events)
    BY DEF TypeOK
  <2>3. n \in Nat /\ m \in Nat /\ DOMAIN q = 1 .. n /\ DOMAIN u = 1 .. n + m
    BY <2>2
  <2>4. \A i \in 1 .. n : u[i] = q[i]
    BY <2>2
  <2>5. \A i \in 1 .. m : u[n + i] = events[i]
    BY <2>2
  <2> HIDE DEF q, u, n
  <2> HIDE DEF m
  <2>12. /\ \A i \in n + 1 .. n + m : i - n \in 1 .. m /\ n + (i - n) = i
        /\ \A i \in 1 .. m : n + i \in n + 1 .. n + m
    BY <2>3
  <2>6. /\ \A i \in n + 1 .. n + m : i - n \in 1 .. m /\ u[i] = events[i - n]
        /\ \A i \in 1 .. m : n + i \in n + 1 .. n + m
    <3>1. \A i \in n + 1 .. n + m : u[n + (i - n)] = events[i - n]
      BY Zenon, <2>5, <2>12
    <3> QED
      BY Zenon, <2>12, <3>1
  <2>7. \A i \in n + 1 .. n + m : u[i].kind = kind /\ u[i].req \in R
    BY <2>6 DEF m
  <2>11. \A i \in n + 1 .. n + m : u[i].kind = kind
    BY <2>7
  <2>8. \A r \in R : \E i \in n + 1 .. n + m : u[i].req = r
    <3> SUFFICES ASSUME NEW r \in R PROVE \E i \in n + 1 .. n + m : u[i].req = r
      OBVIOUS
    <3>1. PICK i \in 1 .. m : events[i].req = r
      BY DEF m
    <3>2. n + i \in n + 1 .. n + m /\ u[n + i].req = r
      BY <2>5, <2>6, <3>1
    <3> QED
      BY <3>2
  <2> HIDE DEF m
  <2>9. ASSUME NEW r \in Requests, r \in R
        PROVE  Mentions(u, r) /\ (AddedLast(u, r) <=> r \in pending')
    <3>1. \E i \in n + 1 .. n + m : u[i].req = r
      BY <2>8, <2>9
    <3>2. kind = "added" => m = 1
      BY DEF m
    <3>3. Mentions(u, r) /\ (AddedLast(u, r) <=> kind = "added")
      BY ONLY <2>3, <2>11, <3>1, <3>2, TellingEvents
    <3> QED
      BY <2>9, <3>3
  <2>10. ASSUME NEW r \in Requests, r \notin R
         PROVE  (Mentions(u, r) <=> Mentions(q, r)) /\ (AddedLast(u, r) <=> AddedLast(q, r))
    <3>1. \A i \in n + 1 .. n + m : u[i].req # r
      BY <2>7, <2>10
    <3> QED
      BY <2>3, <2>4, <3>1, SilentEvents
  <2> QED
    BY <1>1, <1>3, <1>6, <2>1, <2>9, <2>10 DEF q
<1> QED
  BY <1>4, <1>5, <1>6

LEMMA QuietSynced ==
  ASSUME SyncInv, UNCHANGED <<frontendVars, pending, closed>> PROVE SyncInv'
BY DEF SyncInv, frontendVars

\* One event about a request.
LEMMA OneEventSynced ==
  ASSUME TypeOK, SyncInv, ~closed, NEW r \in Requests, NEW kind \in {"added", "resolved", "cancelled"},
         Publish(<<Event(kind, r)>>), UNCHANGED <<sub, closed>>,
         pending' = IF kind = "added" THEN pending \cup {r} ELSE pending \ {r}
  PROVE  SyncInv'
<1> DEFINE e == Event(kind, r)
           events == <<e>>
<1>1. e \in Events /\ e.kind = kind /\ e.req = r
  BY DEF Event, Events
<1> HIDE DEF e
<1>2. events \in Seq(Events) /\ Len(events) = 1 /\ events[1] = e
  BY <1>1
<1>3. Publish(events)
  BY DEF e
<1> HIDE DEF events
<1>4. /\ \A i \in 1 .. Len(events) : events[i].kind = kind /\ events[i].req \in {r}
      /\ \A x \in {r} : \E i \in 1 .. Len(events) : events[i].req = x
  BY <1>1, <1>2
<1>5. /\ \A x \in Requests : x \in {r} => (x \in pending' <=> kind = "added")
      /\ \A x \in Requests : x \notin {r} => (x \in pending' <=> x \in pending)
  OBVIOUS
<1>6. sub' = sub /\ closed' = closed
  OBVIOUS
<1> QED
  BY <1>2, <1>3, <1>4, <1>5, <1>6, PublishSynced

LEMMA CloseSynced ==
  ASSUME TypeOK, PendingIsUnanswered, SyncInv, Close
  PROVE  SyncInv'
<1> DEFINE events == [i \in DOMAIN order |-> Event("cancelled", order[i])]
           n == Len(order)
<1>1. order \in Seq(Requests) /\ n \in Nat /\ DOMAIN order = 1 .. n
  BY DEF TypeOK
<1>2. /\ \A r \in pending : \E i \in 1 .. n : order[i] = r
      /\ \A i \in 1 .. n : order[i] \in pending
  BY <1>1 DEF PendingIsUnanswered
<1>3. Pending = pending
  BY <1>1, <1>2 DEF Pending
<1>4. /\ ~closed /\ closed' /\ pending' = {}
      /\ sub' = [f \in Frontends |-> IF sub[f] = "on" THEN "closed" ELSE sub[f]]
      /\ Publish(events)
  BY <1>3 DEF Close
<1>5. \A i \in 1 .. n : events[i] \in Events /\ events[i].kind = "cancelled" /\ events[i].req = order[i]
  BY <1>1 DEF Event, Events
<1>6. events \in Seq(Events) /\ Len(events) = n
  BY <1>1, <1>5
<1> HIDE DEF events, n
<1>7. /\ \A i \in 1 .. Len(events) : events[i].kind = "cancelled" /\ events[i].req \in pending
      /\ \A r \in pending : \E i \in 1 .. Len(events) : events[i].req = r
  BY <1>2, <1>5, <1>6
<1>8. /\ \A r \in Requests : r \in pending => (r \in pending' <=> "cancelled" = "added")
      /\ \A r \in Requests : r \notin pending => (r \in pending' <=> r \in pending)
  BY <1>4
<1>9. "cancelled" = "added" => Len(events) = 1
  OBVIOUS
<1>10. CASE \E f \in Frontends : sub[f] = "on"
  <2>1. sub' # sub
    BY <1>4, <1>10
  <2> QED
    BY <1>4, <1>6, <1>7, <1>8, <1>9, <2>1, PublishSynced
<1>11. CASE \A f \in Frontends : sub[f] # "on"
  <2>1. \A f \in Frontends : sub[f] = "off"
    BY <1>4, <1>11 DEF SyncInv
  <2>2. \A f \in Frontends :
          queue'[f] = queue[f] /\ step'[f] = step[f] /\ view'[f] = view[f] /\ sub'[f] = "off"
    BY <1>4, <1>6, <1>11, <2>1, PublishedTo
  <2> QED
    BY <2>1, <2>2 DEF SyncInv
<1> QED
  BY <1>10, <1>11

\* What a frontend does changes what it alone knows.
LEMMA FrontendSynced ==
  ASSUME TypeOK, PendingIsUnanswered, SyncInv, NEW g \in Frontends, Frontend(g)
  PROVE  SyncInv'
<1>1. CASE Subscribe(g)
  <2>1. /\ sub[g] = "off" /\ UNCHANGED <<pending, closed, queue, step, view>>
        /\ sub' = [sub EXCEPT ![g] = IF closed THEN "closed" ELSE "on"]
    BY <1>1 DEF Subscribe
  <2>2. queue[g] = <<>> /\ step[g] = "new"
    BY <2>1 DEF SyncInv
  <2>3. \A r \in Requests : ~Mentions(queue[g], r)
    BY <2>2 DEF Mentions
  <2>4. /\ sub'[g] = IF closed THEN "closed" ELSE "on"
        /\ \A f \in Frontends \ {g} : sub'[f] = sub[f]
    BY <2>1 DEF TypeOK
  <2> QED
    BY <2>1, <2>2, <2>3, <2>4 DEF SyncInv
<1>2. CASE Unsubscribe(g)
  <2>1. /\ UNCHANGED <<pending, closed>>
        /\ sub'[g] = "off" /\ queue'[g] = <<>> /\ step'[g] = "new"
        /\ \A f \in Frontends \ {g} :
             sub'[f] = sub[f] /\ queue'[f] = queue[f] /\ step'[f] = step[f] /\ view'[f] = view[f]
    BY <1>2 DEF Unsubscribe, TypeOK
  <2> QED
    BY <2>1 DEF SyncInv
<1>3. CASE List(g)
  <2>1. Pending = pending
    BY DEF Pending, PendingIsUnanswered
  <2>2. /\ UNCHANGED <<pending, closed, sub, queue>>
        /\ sub[g] # "off" /\ step[g] # "lost" /\ view'[g] = pending /\ step'[g] = "listed"
        /\ \A f \in Frontends \ {g} : step'[f] = step[f] /\ view'[f] = view[f]
    BY <1>3, <2>1 DEF List, TypeOK
  <2> QED
    BY <2>2 DEF SyncInv
<1>4. CASE Receive(g)
  <2> DEFINE q == queue[g]
             u == Tail(q)
             n == Len(q)
             v == IF step[g] = "listed" THEN Replay(view[g], <<Head(q)>>) ELSE view[g]
  <2>1. /\ UNCHANGED <<pending, closed, sub, step>>
        /\ sub[g] # "off" /\ q # <<>> /\ queue'[g] = u /\ view'[g] = v
        /\ \A f \in Frontends \ {g} : queue'[f] = queue[f] /\ view'[f] = view[f]
    BY <1>4 DEF Receive, TypeOK
  <2>2. q \in Seq(Events)
    BY DEF TypeOK
  <2>3. /\ n \in Nat /\ 0 < n /\ DOMAIN q = 1 .. n /\ DOMAIN u = 1 .. n - 1
        /\ \A i \in 1 .. n - 1 : u[i] = q[i + 1]
        /\ Head(q) = q[1]
    BY <2>1, <2>2
  <2>4. step[g] = "listed" =>
          \A r \in Requests : r \in v <=> (q[1].req # r /\ r \in view[g]) \/
                                          (q[1].req = r /\ q[1].kind = "added")
    <3> DEFINE h == q[1]
    <3>1. DOMAIN <<h>> = {1} /\ <<h>>[1] = h
      OBVIOUS
    <3>2. v = IF step[g] = "listed" THEN Replay(view[g], <<h>>) ELSE view[g]
      BY <2>3
    <3> HIDE DEF h, v
    <3>3. \A r : (Mentions(<<h>>, r) <=> h.req = r) /\
                 (AddedLast(<<h>>, r) <=> h.req = r /\ h.kind = "added")
      BY <3>1 DEF Mentions, AddedLast
    <3> QED
      BY <3>2, <3>3, ReplayOf DEF h
  <2> HIDE DEF q, u, n, v
  <2>5. ASSUME NEW r \in Requests
        PROVE  /\ Mentions(u, r) => Mentions(q, r) /\ (AddedLast(u, r) <=> AddedLast(q, r))
               /\ ~Mentions(u, r) /\ q[1].req = r =>
                    Mentions(q, r) /\ (AddedLast(q, r) <=> q[1].kind = "added")
               /\ ~Mentions(u, r) /\ q[1].req # r => ~Mentions(q, r)
    BY <2>3, ShorterQueue
  <2>6. /\ step[g] # "lost" =>
             \A r \in Requests : Mentions(q, r) => (AddedLast(q, r) <=> r \in pending)
        /\ step[g] = "listed" =>
             \A r \in Requests : ~Mentions(q, r) => (r \in view[g] <=> r \in pending)
    BY <2>1 DEF SyncInv, q
  <2>7. /\ step'[g] # "lost" =>
             \A r \in Requests : Mentions(queue'[g], r) => (AddedLast(queue'[g], r) <=> r \in pending')
        /\ step'[g] = "listed" =>
             \A r \in Requests : ~Mentions(queue'[g], r) => (r \in view'[g] <=> r \in pending')
    BY <2>1, <2>4, <2>5, <2>6
  <2> QED
    BY <2>1, <2>7 DEF SyncInv
<1> QED
  BY <1>1, <1>2, <1>3, <1>4 DEF Frontend

LEMMA StepSync == TypeOK /\ BrokerInv /\ SyncInv /\ [Next]_vars => SyncInv'
<1> SUFFICES ASSUME TypeOK, BrokerInv, SyncInv, [Next]_vars PROVE SyncInv'
  OBVIOUS
<1>0. PendingIsUnanswered
  BY DEF BrokerInv
<1>1. ASSUME NEW r \in Requests, EnterQueued(r) PROVE SyncInv'
  BY <1>1, OneEventSynced DEF EnterQueued
<1>2. ASSUME NEW r \in Requests, Withdraw(r) PROVE SyncInv'
  <2>1. ~closed
    BY <1>0, <1>2 DEF Withdraw, PendingIsUnanswered
  <2> QED
    BY <1>2, <2>1, OneEventSynced DEF Withdraw, Remove
<1>3. ASSUME NEW r \in Requests, NEW ok \in BOOLEAN, NEW s \in Scopes, ResolveWithScope(r, ok, s)
      PROVE  SyncInv'
  <2>1. ~closed
    BY <1>0, <1>3 DEF ResolveWithScope, PendingIsUnanswered
  <2> QED
    BY <1>3, <2>1, OneEventSynced DEF ResolveWithScope, Remove
<1>4. ASSUME NEW r \in Requests,
             \/ \E a \in Actions : Call(r, a)
             \/ EnterClosed(r) \/ EnterGranted(r) \/ TakeResult(r) \/ NoticeEnd(r)
             \/ LeaveAnswered(r) \/ EndContext(r)
      PROVE  SyncInv'
  BY <1>4, QuietSynced DEF Call, EnterClosed, EnterGranted, TakeResult, NoticeEnd, LeaveAnswered, EndContext
<1>5. ASSUME \/ \E c \in Categories : AllowCategoryForSession(c)
             \/ \E a \in Actions : AllowActionForSession(a)
             \/ \E k \in GrantKeys : RevokeSessionGrant(k)
             \/ ClearSessionGrants
             \/ UNCHANGED vars
      PROVE  SyncInv'
  BY <1>5, QuietSynced DEF AllowCategoryForSession, AllowActionForSession, RevokeSessionGrant,
                           ClearSessionGrants, vars, frontendVars
<1>6. ASSUME NEW f \in Frontends, Frontend(f) PROVE SyncInv'
  BY <1>0, <1>6, FrontendSynced
<1>7. CASE Close
  BY <1>0, <1>7, CloseSynced
<1> QED
  BY <1>1, <1>2, <1>3, <1>4, <1>5, <1>6, <1>7 DEF Next, Caller, User

\* Whatever happens between its subscription, its listing of the queue and each
\* event it receives, a frontend whose channel never overflowed knows, or finds in
\* its channel, exactly what is pending.
THEOREM FrontendsInSync == Spec => []InSync
<1>1. Init => SyncInv
  BY InitSync
<1>2. TypeOK /\ BrokerInv /\ SyncInv /\ [Next]_vars => SyncInv'
  BY StepSync
<1>3. TypeOK /\ SyncInv => InSync
  BY SyncedIsInSync
<1> QED
  BY <1>1, <1>2, <1>3, TypeCorrect, InvCorrect, PTL DEF Spec

-----------------------------------------------------------------------------
(* The broker implements the gate *)

\* The verdict of one request.
LEMMA VerdictOf ==
  ASSUME NEW q \in Requests
  PROVE  verdict[q] = IF answer[q] = "approved" \/ result[q] = "approved" THEN "approved"
                      ELSE IF q \in pending THEN "open"
                      ELSE IF phase[q] \in {"idle", "entering"} THEN "unasked"
                      ELSE "refused"
  BY DEF verdict

LEMMA CallerRefines ==
  ASSUME TypeOK, Asked, BrokerInv, NEW r \in Requests, Caller(r)
  PROVE  [Gate!Next]_(Gate!gateVars)
<1>0. CoreTypes /\ CallerInv /\ PendingIsUnanswered
  BY DEF TypeOK, CoreTypes, BrokerInv
<1> USE DEF CoreTypes, CallerInv, PendingIsUnanswered, Answers, Delivered
<1>1. ASSUME NEW a \in Actions, Call(r, a)
      PROVE  Gate!Ask(r)
  <2>1. verdict[r] = "unasked"
    BY <1>0, <1>1, VerdictOf DEF Call
  <2>2. CASE ctxDone[r]
    <3>1. /\ phase' = [phase EXCEPT ![r] = "returned"]
          /\ answer' = [answer EXCEPT ![r] = "ctx"]
          /\ UNCHANGED <<result, pending>>
      BY <1>1, <2>2 DEF Call, Return
    <3>2. result[r] = "empty" /\ r \notin pending
      BY <1>0, <1>1 DEF Call
    <3>3. verdict' = [verdict EXCEPT ![r] = "refused"]
      <4>1. ~(answer'[r] = "approved" \/ result'[r] = "approved")
        BY <1>0, <3>1, <3>2
      <4>2. phase'[r] = "returned" /\ r \notin pending'
        BY <1>0, <3>1, <3>2
      <4>3. \A q \in Requests \ {r} : phase'[q] = phase[q] /\ answer'[q] = answer[q]
        BY <1>0, <3>1
      <4> QED
        BY <3>1, <4>1, <4>2, <4>3 DEF verdict
    <3> QED
      BY <1>1, <2>1, <3>3 DEF Gate!Ask, Call
  <2>3. CASE ~ctxDone[r]
    <3>1. verdict' = verdict
      BY <1>0, <1>1, <2>3 DEF Call, verdict
    <3> QED
      BY <1>1, <2>1, <3>1 DEF Gate!Ask, Call
  <2> QED
    BY <2>2, <2>3
<1>2. CASE EnterClosed(r)
  <2>1. verdict[r] = "unasked"
    BY <1>0, <1>2, VerdictOf DEF EnterClosed
  <2>2. verdict' = [verdict EXCEPT ![r] = "refused"]
    BY <1>0, <1>2 DEF EnterClosed, Return, verdict
  <2> QED
    BY <1>2, <2>1, <2>2 DEF Gate!Next, Gate!Refuse, EnterClosed
<1>3. CASE EnterGranted(r)
  <2>1. verdict[r] = "unasked"
    BY <1>0, <1>3, VerdictOf DEF EnterGranted
  <2>2. verdict' = [verdict EXCEPT ![r] = "approved"]
    BY <1>0, <1>3 DEF EnterGranted, Return, verdict
  <2>3. action[r] \in Actions /\ CanGrantSession(action[r])
    BY <1>3 DEF EnterGranted, MatchGrant, Asked
  <2> QED
    BY <1>3, <2>1, <2>2, <2>3 DEF Gate!Next, Gate!Wave, EnterGranted
<1>4. CASE EnterQueued(r)
  <2>1. verdict[r] = "unasked"
    BY <1>0, <1>4, VerdictOf DEF EnterQueued
  <2>2. verdict' = [verdict EXCEPT ![r] = "open"]
    BY <1>0, <1>4 DEF EnterQueued, verdict
  <2> QED
    BY <1>4, <2>1, <2>2 DEF Gate!Next, Gate!Queue, EnterQueued
<1>5. CASE TakeResult(r)
  <2>1. verdict' = verdict
    BY <1>0, <1>5 DEF TakeResult, Return, verdict
  <2> QED
    BY <1>5, <2>1 DEF Gate!gateVars, TakeResult
<1>6. CASE NoticeEnd(r)
  <2>1. verdict' = verdict
    BY <1>0, <1>6 DEF NoticeEnd, verdict
  <2> QED
    BY <1>6, <2>1 DEF Gate!gateVars, NoticeEnd
<1>7. CASE Withdraw(r)
  <2>1. verdict[r] = "open"
    BY <1>0, <1>7, VerdictOf DEF Withdraw
  <2>2. verdict' = [verdict EXCEPT ![r] = "refused"]
    <3>1. /\ answer' = [answer EXCEPT ![r] = "ctx"]
          /\ phase' = [phase EXCEPT ![r] = "returned"]
          /\ pending' = pending \ {r} /\ result' = result
      BY <1>7 DEF Withdraw, Return, Remove
    <3>2. ~(answer'[r] = "approved" \/ result'[r] = "approved")
      BY <1>0, <1>7, <3>1 DEF Withdraw
    <3>3. phase'[r] = "returned" /\ r \notin pending'
      BY <1>0, <3>1
    <3>4. \A q \in Requests \ {r} : phase'[q] = phase[q] /\ answer'[q] = answer[q]
      BY <1>0, <3>1
    <3> QED
      BY <3>1, <3>2, <3>3, <3>4 DEF verdict
  <2> QED
    BY <1>7, <2>1, <2>2 DEF Gate!Next, Gate!Refuse, Withdraw
<1>8. CASE LeaveAnswered(r)
  <2>1. verdict' = verdict
    BY <1>0, <1>8 DEF LeaveAnswered, Return, verdict
  <2> QED
    BY <1>8, <2>1 DEF Gate!gateVars, LeaveAnswered
<1> QED
  BY <1>1, <1>2, <1>3, <1>4, <1>5, <1>6, <1>7, <1>8 DEF Caller, Gate!Next

LEMMA OthersRefine ==
  ASSUME TypeOK, Asked, BrokerInv,
         \/ \E r \in Requests : EndContext(r)
         \/ \E f \in Frontends : Frontend(f)
         \/ User
         \/ Close
         \/ UNCHANGED vars
  PROVE  [Gate!Next]_(Gate!gateVars)
<1>0. CoreTypes /\ CallerInv /\ PendingIsUnanswered
  BY DEF TypeOK, CoreTypes, BrokerInv
<1> USE DEF CoreTypes, CallerInv, PendingIsUnanswered, Answers, Delivered
<1>1. CASE \/ \E r \in Requests : EndContext(r)
           \/ \E f \in Frontends : Frontend(f)
           \/ \E c \in Categories : AllowCategoryForSession(c)
           \/ \E a \in Actions : AllowActionForSession(a)
           \/ \E k \in GrantKeys : RevokeSessionGrant(k)
           \/ ClearSessionGrants
           \/ UNCHANGED vars
  <2>1. UNCHANGED <<phase, answer, result, pending, action, closed>>
    BY <1>1 DEF EndContext, Frontend, Subscribe, Unsubscribe, List, Receive,
                AllowCategoryForSession, AllowActionForSession, RevokeSessionGrant,
                ClearSessionGrants, callerVars, vars
  <2> QED
    BY <2>1 DEF Gate!gateVars, verdict
<1>2. ASSUME NEW r \in Requests, NEW ok \in BOOLEAN, NEW s \in Scopes, ResolveWithScope(r, ok, s)
      PROVE  Gate!Decide(r)
  <2>1. verdict[r] = "open" /\ ~closed
    BY <1>0, <1>2, VerdictOf DEF ResolveWithScope
  <2>2. verdict' = [verdict EXCEPT ![r] = IF ok THEN "approved" ELSE "refused"]
    <3>1. /\ r \in pending /\ pending' = pending \ {r}
          /\ result' = [result EXCEPT ![r] = IF ok THEN "approved" ELSE "declined"]
          /\ UNCHANGED <<phase, answer>>
      BY <1>2 DEF ResolveWithScope, Remove, callerVars
    <3>2. phase[r] \in {"waiting", "leaving"} /\ answer[r] = "none"
      BY <1>0, <3>1
    <3> QED
      BY <1>0, <3>1, <3>2 DEF verdict
  <2>3. UNCHANGED <<action, closed>>
    BY <1>2 DEF ResolveWithScope, callerVars
  <2> QED
    BY <2>1, <2>2, <2>3 DEF Gate!Decide
<1>3. CASE Close
  <2>1. pending' = {} /\ UNCHANGED <<phase, answer, action>> /\ ~closed /\ closed'
    BY <1>0, <1>3 DEF Close, Pending, callerVars
  <2>2. \A q \in Requests : result'[q] = IF q \in pending THEN "closed" ELSE result[q]
    BY <1>0, <1>3 DEF Close, Pending
  <2>3. verdict' = [q \in Requests |-> IF verdict[q] = "open" THEN "refused" ELSE verdict[q]]
    BY <1>0, <2>1, <2>2 DEF verdict
  <2> QED
    BY <2>1, <2>3 DEF Gate!Next, Gate!Shut
<1> QED
  BY <1>1, <1>2, <1>3 DEF User, Gate!Next

\* Every behaviour of the broker is one the gate allows.
THEOREM BrokerImplementsGate == Spec => GateSpec
<1>1. Init => Gate!Init
  BY DEF Init, Gate!Init, verdict
<1>2. TypeOK /\ Asked /\ BrokerInv /\ [Next]_vars => [Gate!Next]_(Gate!gateVars)
  BY CallerRefines, OthersRefine DEF Next
<1>3. Spec => []TypeOK /\ []Asked /\ []BrokerInv
  <2>1. TypeOK /\ Asked /\ BrokerInv /\ [Next]_vars => BrokerInv'
    BY CallerKeepsInv, OthersKeepInv DEF Next
  <2> QED
    BY <2>1, InitTypes, InitInv, StepTypeOK, StepAsked, PTL DEF Spec
<1> QED
  BY <1>1, <1>2, <1>3, PTL DEF Spec, GateSpec, Gate!Spec
=============================================================================
