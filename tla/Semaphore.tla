----------------------------- MODULE Semaphore -----------------------------
(***************************************************************************)
(* The resizable semaphore of internal/agent/semaphore.go at the grain of  *)
(* its mutex and condition variable.  A waiter tests, looks at its context *)
(* and joins the condition's list while it holds the mutex; a broadcast    *)
(* needs no mutex, and the one that announces a cancelled context comes    *)
(* from a goroutine of its own (context.AfterFunc).                        *)
(* A critical section is one action where nobody can see its middle.       *)
(***************************************************************************)
EXTENDS Naturals, FiniteSets

CONSTANTS
  Procs,     \* goroutines that use the semaphore
  Free,      \* no goroutine: the mutex is not held
  MaxLimit   \* bound on the values setLimit is given

ASSUME SemaphoreAssumption ==
  /\ IsFiniteSet(Procs)
  /\ Free \notin Procs
  /\ MaxLimit \in Nat \ {0}

VARIABLES
  pc,        \* where each goroutine is
  ctxDone,   \* has the context of its call of acquire ended?
  callback,  \* is the AfterFunc of its last call about to broadcast?
  mu,        \* who holds semaphore.mu across steps
  waiters,   \* goroutines on the condition's list
  held,      \* semaphore.held
  limit,     \* semaphore.limit
  resized    \* has setLimit still to broadcast?

vars == <<pc, ctxDone, callback, mu, waiters, held, limit, resized>>

Init ==
  /\ pc       = [p \in Procs |-> "idle"]
  /\ ctxDone  = [p \in Procs |-> FALSE]
  /\ callback = [p \in Procs |-> FALSE]
  /\ mu       = Free
  /\ waiters  = {}
  /\ held     = 0
  /\ limit    \in 1..MaxLimit
  /\ resized  = FALSE

\* Inside acquire, past the first look at the context.
Acquiring(p) == pc[p] \in {"register", "loop", "wait", "asleep"}

Goto(p, l) == pc' = [pc EXCEPT ![p] = l]

-----------------------------------------------------------------------------
(* acquire *)

\* The first look at the context, without the mutex: a context that has ended
\* already ends the call before it does anything.
Acquire(p) ==
  /\ pc[p] = "idle"
  /\ ~callback[p]
  /\ Goto(p, "register")
  /\ UNCHANGED <<ctxDone, callback, mu, waiters, held, limit, resized>>

\* acquire returns; its context is of no account from then on.
Return(p, l) ==
  /\ Goto(p, l)
  /\ ctxDone' = [ctxDone EXCEPT ![p] = FALSE]

\* context.AfterFunc: of a context that has ended already it fires at once.
Register(p) ==
  /\ pc[p] = "register"
  /\ callback' = [callback EXCEPT ![p] = @ \/ ctxDone[p]]
  /\ Goto(p, "loop")
  /\ UNCHANGED <<ctxDone, mu, waiters, held, limit, resized>>

\* Mutant: one slot too many.
TakeOver(p) ==
  /\ pc[p] = "loop"
  /\ mu = Free
  /\ held <= limit
  /\ held' = held + 1
  /\ Return(p, "holding")
  /\ UNCHANGED <<callback, mu, waiters, limit, resized>>

\* The loop, with the mutex: take a slot ...
Take(p) ==
  /\ pc[p] = "loop"
  /\ mu = Free
  /\ held < limit
  /\ held' = held + 1
  /\ Return(p, "holding")
  /\ UNCHANGED <<callback, mu, waiters, limit, resized>>

\* ... or look at the context and give up ...
GiveUp(p) ==
  /\ pc[p] = "loop"
  /\ mu = Free
  /\ held >= limit
  /\ ctxDone[p]
  /\ Return(p, "idle")
  /\ UNCHANGED <<callback, mu, waiters, held, limit, resized>>

\* Mutant: the waiter does not look at its context before it sleeps.
DecideBlindly(p) ==
  /\ pc[p] = "loop"
  /\ mu = Free
  /\ held >= limit
  /\ mu' = p
  /\ Goto(p, "wait")
  /\ UNCHANGED <<ctxDone, callback, waiters, held, limit, resized>>

\* ... or find that it has not ended, and go on to wait with the mutex held.
Decide(p) ==
  /\ pc[p] = "loop"
  /\ mu = Free
  /\ held >= limit
  /\ ~ctxDone[p]
  /\ mu' = p
  /\ Goto(p, "wait")
  /\ UNCHANGED <<ctxDone, callback, waiters, held, limit, resized>>

\* cond.Wait: join the list, then let go of the mutex.
Wait(p) ==
  /\ pc[p] = "wait"
  /\ waiters' = waiters \cup {p}
  /\ mu' = Free
  /\ Goto(p, "asleep")
  /\ UNCHANGED <<ctxDone, callback, held, limit, resized>>

Wake(p) ==
  /\ pc[p] = "asleep"
  /\ p \notin waiters
  /\ Goto(p, "loop")
  /\ UNCHANGED <<ctxDone, callback, mu, waiters, held, limit, resized>>

-----------------------------------------------------------------------------
(* The other operations: each one critical section, then a broadcast *)

TryAcquire(p) ==
  /\ pc[p] = "idle"
  /\ mu = Free
  /\ held < limit
  /\ held' = held + 1
  /\ Goto(p, "holding")
  /\ UNCHANGED <<ctxDone, callback, mu, waiters, limit, resized>>

\* Mutant: nobody is told of the slot that a nested run lends.
ReleaseQuietly(p, next) ==
  /\ pc[p] = "holding"
  /\ mu = Free
  /\ held' = IF held > 0 THEN held - 1 ELSE held
  /\ Goto(p, IF next = "lending" THEN "lent" ELSE next)
  /\ UNCHANGED <<ctxDone, callback, mu, waiters, limit, resized>>

\* release, at the end of a task ("leaving") or for a nested run ("lending").
Release(p, next) ==
  /\ pc[p] = "holding"
  /\ mu = Free
  /\ held' = IF held > 0 THEN held - 1 ELSE held
  /\ Goto(p, next)
  /\ UNCHANGED <<ctxDone, callback, mu, waiters, limit, resized>>

Announce(p) ==
  /\ pc[p] \in {"leaving", "lending"}
  /\ waiters' = {}
  /\ Goto(p, IF pc[p] = "leaving" THEN "idle" ELSE "lent")
  /\ UNCHANGED <<ctxDone, callback, mu, held, limit, resized>>

Reclaim(p) ==
  /\ pc[p] = "lent"
  /\ mu = Free
  /\ held' = held + 1
  /\ Goto(p, "holding")
  /\ UNCHANGED <<ctxDone, callback, mu, waiters, limit, resized>>

SetLimit(n) ==
  /\ mu = Free
  /\ ~resized
  /\ limit' = n
  /\ resized' = TRUE
  /\ UNCHANGED <<pc, ctxDone, callback, mu, waiters, held>>

AnnounceLimit ==
  /\ resized
  /\ resized' = FALSE
  /\ waiters' = {}
  /\ UNCHANGED <<pc, ctxDone, callback, mu, held, limit>>

-----------------------------------------------------------------------------
(* Contexts *)

\* The context of p's call ends.  Its AfterFunc, if it is registered by then,
\* starts in a new goroutine.
Cancel(p) ==
  /\ Acquiring(p)
  /\ ~ctxDone[p]
  /\ ctxDone' = [ctxDone EXCEPT ![p] = TRUE]
  /\ callback' = [callback EXCEPT ![p] = pc[p] # "register"]
  /\ UNCHANGED <<pc, mu, waiters, held, limit, resized>>

Callback(p) ==
  /\ callback[p]
  /\ callback' = [callback EXCEPT ![p] = FALSE]
  /\ waiters' = {}
  /\ UNCHANGED <<pc, ctxDone, mu, held, limit, resized>>

InAcquire(p) ==
  Register(p) \/ Take(p) \/ GiveUp(p) \/ Decide(p) \/ Wait(p) \/ Wake(p)

Next ==
  \/ \E p \in Procs : \/ Acquire(p) \/ InAcquire(p) \/ TryAcquire(p)
                      \/ Release(p, "leaving") \/ Release(p, "lending")
                      \/ Announce(p) \/ Reclaim(p)
                      \/ Cancel(p) \/ Callback(p)
  \/ \E n \in 1..MaxLimit : SetLimit(n)
  \/ AnnounceLimit

Spec == Init /\ [][Next]_vars

\* Every goroutine inside an operation goes on; a Go mutex that is free over
\* and over is not withheld for good from one that waits for it.
Fairness ==
  /\ \A p \in Procs : SF_vars(InAcquire(p)) /\ WF_vars(Announce(p)) /\ WF_vars(Callback(p))
  /\ WF_vars(AnnounceLimit)

FairSpec == Spec /\ Fairness

\* Moreover, a task ends some time, or lends its slot, and a nested run ends.
PatientSpec ==
  /\ FairSpec
  /\ \A p \in Procs : SF_vars(Release(p, "leaving") \/ Release(p, "lending") \/ Reclaim(p))
-----------------------------------------------------------------------------
(* Properties *)

Labels == {"idle", "register", "loop", "wait", "asleep",
           "holding", "leaving", "lending", "lent"}

Typed ==
  /\ pc \in [Procs -> Labels]
  /\ ctxDone \in [Procs -> BOOLEAN]
  /\ callback \in [Procs -> BOOLEAN]
  /\ mu \in Procs \cup {Free}
  /\ waiters \subseteq {p \in Procs : pc[p] = "asleep"}
  /\ held \in Nat
  /\ limit \in 1..MaxLimit
  /\ resized \in BOOLEAN
  /\ \A p \in Procs : pc[p] = "wait" <=> mu = p

\* Every variable has its type; only sleepers are on the condition's list,
\* between steps the mutex is held exactly by a goroutine about to sleep, and
\* the count never exceeds the goroutines there are.
TypeOK == Typed /\ held <= Cardinality(Procs)

\* No free slot is forgotten: while a goroutine sleeps, or is about to, and a
\* slot is free, the broadcast that announces the slot is still to come.
SlotIsAnnounced ==
  waiters # {} /\ held < limit =>
    resized \/ \E p \in Procs : pc[p] \in {"leaving", "lending"}

\* What the proofs need: the count is that of the goroutines with a slot, and
\* one that is about to sleep has seen that there was none, under the mutex.
SlotHolders == {p \in Procs : pc[p] = "holding"}

SemaphoreInv ==
  /\ held = Cardinality(SlotHolders)
  /\ \A p \in Procs : pc[p] = "wait" => held >= limit
  /\ SlotIsAnnounced

\* "acquire waits for a slot, or for ctx to end": once its context has ended,
\* the call returns.
CancelEndsAcquire ==
  \A p \in Procs : (Acquiring(p) /\ ctxDone[p]) ~> ~Acquiring(p)

\* The scheduler's view of it all: operations on a pool of slots.
Pool == INSTANCE SlotPool WITH
  Users <- Procs,
  holders <- SlotHolders,
  lent <- {p \in Procs : pc[p] \in {"lending", "lent"}}

PoolSpec == Pool!Spec
=============================================================================
