------------------------------- MODULE Broker -------------------------------
(***************************************************************************)
(* The approval broker of internal/permissions/approvals.go.               *)
(*                                                                         *)
(* A tool call that needs the user's consent blocks in RequestDecision     *)
(* while any number of frontends list the queue and answer it.  Four       *)
(* actors interleave: the callers, their contexts, the frontends and the   *)
(* shutdown that closes the broker.  One action is one critical section    *)
(* of Broker.mu, or one step a caller takes outside of it.                 *)
(***************************************************************************)
EXTENDS Naturals, Sequences, FiniteSets

CONSTANTS
  Requests,          \* calls of RequestDecision, each with its own fresh id
  Frontends,         \* subscribers of the approval event stream
  Actions,           \* records [key, cat, critical, production]
  NoAction,          \* the action of a request that was not made yet
  NoCategory,        \* the empty Category
  ProductionChange,  \* CatProductionChange
  SubBuffer          \* capacity of a subscription channel (32 in the code)

ASSUME BrokerAssumption ==
  /\ NoAction \notin Actions
  /\ SubBuffer \in Nat \ {0}
  /\ \A a \in Actions : a.critical \in BOOLEAN /\ a.production \in BOOLEAN

VARIABLES
  phase,     \* where each caller is inside RequestDecision
  action,    \* the action each request asks about
  ctxDone,   \* has the caller's context ended (cancel or timeout)?
  answer,    \* what RequestDecision returned
  result,    \* the request's result channel, capacity one
  pending,   \* Broker.pending: requests without an answer
  order,     \* Broker.order: the same requests, oldest first
  grants,    \* Broker.grants: keys remembered for the session
  closed,    \* Broker.closed
  sub,       \* Broker.subs: is the frontend subscribed?
  queue,     \* events buffered in the frontend's channel
  step,      \* history: "new" subscription, "listed", or "lost" an event
  view,      \* history: what a listed frontend believes to be pending
  said       \* history: the answer a successful Resolve gave

vars == <<phase, action, ctxDone, answer, result, pending, order, grants,
          closed, sub, queue, step, view, said>>
callerVars   == <<phase, action, answer>>
frontendVars == <<sub, queue, step, view>>

Categories == {a.cat : a \in Actions}
Keys       == {a.key : a \in Actions}

CategoryKey(c) == <<"category", c>>
ActionKey(a)   == <<"action", a.key>>
GrantKeys == {CategoryKey(c) : c \in Categories} \cup {ActionKey(a) : a \in Actions}

Scopes == {"once", "category", "command"}
Events == [kind : {"added", "resolved", "cancelled"}, req : Requests]

-----------------------------------------------------------------------------
(* Session memory *)

IsProduction(a) == a.production \/ a.cat = ProductionChange

\* Mutant: only the production gate, not the risk, limits a session grant.
CanGrantAnyRisk(a) == ~IsProduction(a)

CanGrantSession(a) == ~IsProduction(a) /\ ~a.critical

MatchGrant(a) ==
  CanGrantSession(a) /\ {ActionKey(a), CategoryKey(a.cat)} \cap grants # {}

\* addGrantLocked: the keys a session-wide answer adds.
GrantFor(a, scope) ==
  {k \in {CategoryKey(a.cat)} : scope = "category" /\ a.cat \notin {NoCategory, ProductionChange}}
    \cup {k \in {ActionKey(a)} : scope = "command"}

-----------------------------------------------------------------------------
(* The event stream.  Sends never block: a full channel loses the event.   *)

Room(f) == SubBuffer - Len(queue[f])

\* One send per event, in order, to every open subscription.
Publish(events) ==
  LET subscribed == {f \in Frontends : sub[f] = "on"}
      kept(f) == SubSeq(events, 1, IF Len(events) < Room(f) THEN Len(events) ELSE Room(f))
      losers == {f \in subscribed : Room(f) < Len(events)}
  IN  /\ queue' = [f \in Frontends |->
                     IF f \in subscribed THEN queue[f] \o kept(f) ELSE queue[f]]
      /\ step' = [f \in Frontends |-> IF f \in losers THEN "lost" ELSE step[f]]
      /\ view' = [f \in Frontends |-> IF f \in losers THEN {} ELSE view[f]]

Event(k, r) == [kind |-> k, req |-> r]

\* removeLocked drops the first occurrence of an id from the order.
Without(s, r) ==
  LET i == CHOOSE i \in DOMAIN s : s[i] = r
  IN  IF r \in {s[j] : j \in DOMAIN s}
      THEN [j \in 1..Len(s) - 1 |-> IF j < i THEN s[j] ELSE s[j + 1]]
      ELSE s

\* Mutant: the id leaves the order but stays in the map.
RemoveFromOrder(r) ==
  /\ order' = Without(order, r)
  /\ UNCHANGED pending

Remove(r) ==
  /\ pending' = pending \ {r}
  /\ order' = Without(order, r)

-----------------------------------------------------------------------------
Init ==
  /\ phase   = [r \in Requests |-> "idle"]
  /\ action  = [r \in Requests |-> NoAction]
  /\ ctxDone = [r \in Requests |-> FALSE]
  /\ answer  = [r \in Requests |-> "none"]
  /\ result  = [r \in Requests |-> "empty"]
  /\ pending = {}
  /\ order   = <<>>
  /\ grants  = {}
  /\ closed  = FALSE
  /\ sub     = [f \in Frontends |-> "off"]
  /\ queue   = [f \in Frontends |-> <<>>]
  /\ view    = [f \in Frontends |-> {}]
  /\ step    = [f \in Frontends |-> "new"]
  /\ said    = [r \in Requests |-> "nothing"]

Return(r, a) ==
  /\ phase'  = [phase EXCEPT ![r] = "returned"]
  /\ answer' = [answer EXCEPT ![r] = a]

\* RequestDecision: the context is looked at once before the lock.
Call(r, a) ==
  /\ phase[r] = "idle"
  /\ action' = [action EXCEPT ![r] = a]
  /\ IF ctxDone[r] THEN Return(r, "ctx")
                   ELSE phase' = [phase EXCEPT ![r] = "entering"] /\ UNCHANGED answer
  /\ UNCHANGED <<ctxDone, result, pending, order, grants, closed, said, frontendVars>>

\* Under the lock: refuse when closed ...
EnterClosed(r) ==
  /\ phase[r] = "entering"
  /\ closed
  /\ Return(r, "closed")
  /\ UNCHANGED <<action, ctxDone, result, pending, order, grants, closed, said, frontendVars>>

\* Mutant: grants are consulted before the closed flag.
EnterGrantedWhenClosed(r) ==
  /\ phase[r] = "entering"
  /\ MatchGrant(action[r])
  /\ Return(r, "approved")
  /\ UNCHANGED <<action, ctxDone, result, pending, order, grants, closed, said, frontendVars>>

\* ... answer from a standing grant ...
EnterGranted(r) ==
  /\ phase[r] = "entering"
  /\ ~closed
  /\ MatchGrant(action[r])
  /\ Return(r, "approved")
  /\ UNCHANGED <<action, ctxDone, result, pending, order, grants, closed, said, frontendVars>>

\* ... or queue the request and wait.
EnterQueued(r) ==
  /\ phase[r] = "entering"
  /\ ~closed
  /\ ~MatchGrant(action[r])
  /\ phase' = [phase EXCEPT ![r] = "waiting"]
  /\ pending' = pending \cup {r}
  /\ order' = Append(order, r)
  /\ Publish(<<Event("added", r)>>)
  /\ UNCHANGED <<action, ctxDone, answer, result, grants, closed, sub, said>>

\* The select of a waiting caller: its result arrived ...
TakeResult(r) ==
  /\ phase[r] = "waiting"
  /\ result[r] # "empty"
  /\ Return(r, result[r])
  /\ result' = [result EXCEPT ![r] = "empty"]
  /\ UNCHANGED <<action, ctxDone, pending, order, grants, closed, said, frontendVars>>

\* ... or its context ended.  With both ready the choice is arbitrary.
NoticeEnd(r) ==
  /\ phase[r] = "waiting"
  /\ ctxDone[r]
  /\ phase' = [phase EXCEPT ![r] = "leaving"]
  /\ UNCHANGED <<action, ctxDone, answer, result, pending, order, grants, closed, said,
                 frontendVars>>

\* Mutant: a withdrawn request is not announced to the frontends.
WithdrawSilently(r) ==
  /\ phase[r] = "leaving"
  /\ r \in pending
  /\ Remove(r)
  /\ Return(r, "ctx")
  /\ UNCHANGED <<action, ctxDone, result, grants, closed, said, frontendVars>>

\* The context ended first: the request is withdrawn ...
Withdraw(r) ==
  /\ phase[r] = "leaving"
  /\ r \in pending
  /\ Remove(r)
  /\ Publish(<<Event("cancelled", r)>>)
  /\ Return(r, "ctx")
  /\ UNCHANGED <<action, ctxDone, result, grants, closed, sub, said>>

\* Mutant: the context's end always wins over the answer.
LeaveUnheard(r) ==
  /\ phase[r] = "leaving"
  /\ r \notin pending
  /\ Return(r, "ctx")
  /\ UNCHANGED <<action, ctxDone, result, pending, order, grants, closed, said, frontendVars>>

\* ... unless an answer came in between, which then counts.
LeaveAnswered(r) ==
  /\ phase[r] = "leaving"
  /\ r \notin pending
  /\ Return(r, IF result[r] # "empty" THEN result[r] ELSE "ctx")
  /\ result' = [result EXCEPT ![r] = "empty"]
  /\ UNCHANGED <<action, ctxDone, pending, order, grants, closed, said, frontendVars>>

\* The caller's context is cancelled or times out, at any moment of the call.
EndContext(r) ==
  /\ ~ctxDone[r]
  /\ phase[r] # "returned"
  /\ ctxDone' = [ctxDone EXCEPT ![r] = TRUE]
  /\ UNCHANGED <<callerVars, result, pending, order, grants, closed, said, frontendVars>>

-----------------------------------------------------------------------------
(* What a frontend may do *)

ResolveWithScope(r, approved, scope) ==
  /\ r \in pending
  /\ Remove(r)
  /\ grants' = IF approved /\ scope # "once" /\ CanGrantSession(action[r])
               THEN grants \cup GrantFor(action[r], scope) ELSE grants
  /\ result' = [result EXCEPT ![r] = IF approved THEN "approved" ELSE "declined"]
  /\ said' = [said EXCEPT ![r] = IF approved THEN "yes" ELSE "no"]
  /\ Publish(<<Event("resolved", r)>>)
  /\ UNCHANGED <<callerVars, ctxDone, closed, sub>>

AllowCategoryForSession(c) ==
  /\ c \notin {NoCategory, ProductionChange}
  /\ grants' = grants \cup {CategoryKey(c)}
  /\ UNCHANGED <<callerVars, ctxDone, result, pending, order, closed, said, frontendVars>>

AllowActionForSession(a) ==
  /\ CanGrantSession(a)
  /\ grants' = grants \cup GrantFor(a, "command")
  /\ UNCHANGED <<callerVars, ctxDone, result, pending, order, closed, said, frontendVars>>

RevokeSessionGrant(k) ==
  /\ k \in grants
  /\ grants' = grants \ {k}
  /\ UNCHANGED <<callerVars, ctxDone, result, pending, order, closed, said, frontendVars>>

ClearSessionGrants ==
  /\ grants' = {}
  /\ UNCHANGED <<callerVars, ctxDone, result, pending, order, closed, said, frontendVars>>

Subscribe(f) ==
  /\ sub[f] = "off"
  /\ sub' = [sub EXCEPT ![f] = IF closed THEN "closed" ELSE "on"]
  /\ UNCHANGED <<callerVars, ctxDone, result, pending, order, grants, closed, said,
                 queue, step, view>>

Unsubscribe(f) ==
  /\ sub[f] = "on"
  /\ sub' = [sub EXCEPT ![f] = "off"]
  /\ queue' = [queue EXCEPT ![f] = <<>>]
  /\ step' = [step EXCEPT ![f] = "new"]
  /\ view' = [view EXCEPT ![f] = {}]
  /\ UNCHANGED <<callerVars, ctxDone, result, pending, order, grants, closed, said>>

\* Pending walks the order and keeps the ids that are still in the map.
Pending == pending \cap {order[i] : i \in DOMAIN order}

\* A frontend lists the queue.  What it believes after an event was dropped
\* is of no account until it subscribes again.
List(f) ==
  /\ sub[f] # "off"
  /\ step[f] # "lost"
  /\ step' = [step EXCEPT ![f] = "listed"]
  /\ view' = [view EXCEPT ![f] = Pending]
  /\ UNCHANGED <<callerVars, ctxDone, result, pending, order, grants, closed, said,
                 sub, queue>>

\* The view after the events of a queue: the last word on each request counts.
Replay(v, q) ==
  {r \in Requests :
     LET about == {i \in DOMAIN q : q[i].req = r}
     IN  \/ about = {} /\ r \in v
         \/ \E i \in about : q[i].kind = "added" /\ \A j \in about : j <= i}

Receive(f) ==
  /\ sub[f] # "off"
  /\ queue[f] # <<>>
  /\ view' = [view EXCEPT ![f] = IF step[f] = "listed" THEN Replay(@, <<Head(queue[f])>>) ELSE @]
  /\ queue' = [queue EXCEPT ![f] = Tail(@)]
  /\ UNCHANGED <<callerVars, ctxDone, result, pending, order, grants, closed, said,
                 sub, step>>

-----------------------------------------------------------------------------
\* Mutant: the queue is emptied without telling the blocked callers.
CloseForgetting ==
  /\ ~closed
  /\ closed' = TRUE
  /\ pending' = {}
  /\ order' = <<>>
  /\ Publish([i \in DOMAIN order |-> Event("cancelled", order[i])])
  /\ sub' = [f \in Frontends |-> IF sub[f] = "on" THEN "closed" ELSE sub[f]]
  /\ UNCHANGED <<callerVars, ctxDone, result, grants, said>>

\* Close walks the order: it fails, and announces, every request still pending.
Close ==
  /\ ~closed
  /\ closed' = TRUE
  /\ result' = [r \in Requests |-> IF r \in Pending THEN "closed" ELSE result[r]]
  /\ pending' = pending \ Pending
  /\ order' = <<>>
  /\ Publish([i \in DOMAIN order |-> Event("cancelled", order[i])])
  /\ sub' = [f \in Frontends |-> IF sub[f] = "on" THEN "closed" ELSE sub[f]]
  /\ UNCHANGED <<callerVars, ctxDone, grants, said>>

Caller(r) ==
  \/ \E a \in Actions : Call(r, a)
  \/ EnterClosed(r) \/ EnterGranted(r) \/ EnterQueued(r)
  \/ TakeResult(r) \/ NoticeEnd(r) \/ Withdraw(r) \/ LeaveAnswered(r)

Frontend(f) == Subscribe(f) \/ Unsubscribe(f) \/ List(f) \/ Receive(f)

User ==
  \/ \E r \in Requests, ok \in BOOLEAN, s \in Scopes : ResolveWithScope(r, ok, s)
  \/ \E c \in Categories : AllowCategoryForSession(c)
  \/ \E a \in Actions : AllowActionForSession(a)
  \/ \E k \in GrantKeys : RevokeSessionGrant(k)
  \/ ClearSessionGrants

Next ==
  \/ \E r \in Requests : Caller(r) \/ EndContext(r)
  \/ \E f \in Frontends : Frontend(f)
  \/ User
  \/ Close

Spec == Init /\ [][Next]_vars

\* The Go scheduler runs every caller that can take a step; it promises
\* nothing about users, contexts or frontends.
Fairness == \A r \in Requests :
  WF_vars(EnterClosed(r) \/ EnterGranted(r) \/ EnterQueued(r)
          \/ TakeResult(r) \/ NoticeEnd(r) \/ Withdraw(r) \/ LeaveAnswered(r))

FairSpec == Spec /\ Fairness
-----------------------------------------------------------------------------
(* Properties *)

Answers == {"approved", "declined", "ctx", "closed"}

\* Every variable has its type, and no subscription channel holds more
\* events than it has room for (publishLocked drops instead of blocking).
TypeOK ==
  /\ phase \in [Requests -> {"idle", "entering", "waiting", "leaving", "returned"}]
  /\ action \in [Requests -> Actions \cup {NoAction}]
  /\ ctxDone \in [Requests -> BOOLEAN]
  /\ answer \in [Requests -> Answers \cup {"none"}]
  /\ result \in [Requests -> {"empty", "approved", "declined", "closed"}]
  /\ pending \subseteq Requests
  /\ order \in Seq(Requests)
  /\ grants \subseteq GrantKeys
  /\ closed \in BOOLEAN
  /\ sub \in [Frontends -> {"off", "on", "closed"}]
  /\ queue \in [Frontends -> Seq(Events)]
  /\ \A f \in Frontends : Len(queue[f]) <= SubBuffer
  /\ view \in [Frontends -> SUBSET Requests]
  /\ step \in [Frontends -> {"new", "listed", "lost"}]
  /\ said \in [Requests -> {"nothing", "yes", "no"}]

\* A request that is pending has a caller still inside RequestDecision, an
\* empty result channel (so the send under the lock cannot block the broker)
\* and no answer on record, and the order lists it exactly once; a closed
\* broker has none.
PendingIsUnanswered ==
  /\ closed => pending = {}
  /\ \A r \in pending : /\ phase[r] \in {"waiting", "leaving"}
                        /\ result[r] = "empty"
                        /\ said[r] = "nothing"
                        /\ \E i \in DOMAIN order : order[i] = r
  /\ \A i, j \in DOMAIN order : order[i] \in pending /\ (order[i] = order[j] => i = j)

\* Production work and critical risk are approved only by a "yes" to that
\* very request: no grant, race or shutdown stands in for the user.
FailClosed ==
  \A r \in Requests :
    answer[r] = "approved" /\ (action[r].critical \/ IsProduction(action[r]))
      => said[r] = "yes"

\* Once Resolve has told a frontend that its answer was taken, the caller
\* returns that answer, also when its context ended at the same moment; and
\* a caller that returns an answer of the user's had one.
AnswerHonoured ==
  \A r \in Requests : phase[r] = "returned" =>
    /\ said[r] = "yes" => answer[r] = "approved"
    /\ said[r] = "no" <=> answer[r] = "declined"

\* What the proofs need of a caller: while it waits without being pending,
\* its channel holds the answer on record, or the news that the broker closed.
Delivered == [nothing |-> "closed", yes |-> "approved", no |-> "declined"]

CallerInv ==
  \A r \in Requests :
    /\ action[r] = NoAction <=> phase[r] = "idle"
    /\ phase[r] = "returned" <=> answer[r] # "none"
    /\ phase[r] \in {"waiting", "leaving"} /\ r \notin pending
         => result[r] = Delivered[said[r]]
    /\ phase[r] \notin {"waiting", "leaving"} => result[r] = "empty"
    /\ phase[r] \in {"idle", "entering"} => said[r] = "nothing"

BrokerInv == PendingIsUnanswered /\ CallerInv /\ FailClosed /\ AnswerHonoured

\* A frontend that subscribed, then listed the queue, and lost no event has
\* been told, or will be by what is in its channel, exactly what is pending.
InSync ==
  \A f \in Frontends :
    step[f] = "listed" => Replay(view[f], queue[f]) = pending

\* A caller whose request was answered, whose context ended or whose broker
\* closed does not stay blocked.
Settles ==
  \A r \in Requests :
    (phase[r] = "waiting" /\ (ctxDone[r] \/ closed \/ said[r] # "nothing"))
      ~> phase[r] = "returned"

\* The broker implements the gate: see the comment there for what it promises.
verdict == [r \in Requests |->
  IF answer[r] = "approved" \/ result[r] = "approved" THEN "approved"
  ELSE IF r \in pending THEN "open"
  ELSE IF phase[r] \in {"idle", "entering"} THEN "unasked"
  ELSE "refused"]

Gate == INSTANCE ApprovalGate WITH
  asked <- action, shut <- closed, Repeatable <- CanGrantSession

GateSpec == Gate!Spec
=============================================================================
