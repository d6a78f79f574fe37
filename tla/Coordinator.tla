---------------------------- MODULE Coordinator ----------------------------
(***************************************************************************)
(* The agent fleet of internal/agent/coordinator.go.  The scheduler's      *)
(* goroutines run executeTask, one agent each; frontends spawn, stop, wait *)
(* for and forget agents meanwhile.  What happens under Coordinator.mu is  *)
(* one action, and so is each change of an agent's status (Agent.mu), each *)
(* cancel and each close of a done channel.                                *)
(***************************************************************************)
EXTENDS Naturals, FiniteSets

CONSTANTS
  Agents,      \* agents that may be created: by executeTask, one for each task,
  Owned,       \* or, these, by a call of Spawn
  NoAgent,     \* no agent: the empty ParentID or RootID
  Parents,     \* the ParentIDs an agent may be spawned with
  Callers,     \* calls of Stop, StopAll and SetEnabled under way
  Waiters,     \* calls of Wait
  MaxDepth, MaxAgents,   \* the largest values the caps are ever given
  Retain       \* finished agents remembered

ASSUME CoordinatorAssumption ==
  /\ IsFiniteSet(Agents)
  /\ NoAgent \notin Agents
  /\ Owned \subseteq Agents
  /\ Parents \in [Agents -> SUBSET (Agents \cup {NoAgent})]
  /\ MaxDepth \in Nat \ {0} /\ MaxAgents \in Nat \ {0} /\ Retain \in Nat \ {0}

VARIABLES
  enabled,     \* Coordinator.enabled
  fleet,       \* the ids in Coordinator.agents and Coordinator.order
  serial,      \* [Agents -> Nat]: the place in that order, 0 before creation
  status,      \* Agent.Status; the statuses of a busy agent are all "working"
  depth, root, \* Agent.depth and Agent.rootID
  worker,      \* the goroutine in executeTask, or "owned" by the caller of Spawn
  ctxDone,     \* has the context of the worker ended?
  closed,      \* record.done is closed
  stage,       \* where each call of Stop, StopAll or SetEnabled is
  todo,        \* the records it has still to stop
  target,      \* the one it is stopping
  wait         \* what each call of Wait waits for

agentVars == <<status, worker, ctxDone, closed>>
treeVars  == <<serial, depth, root>>
callVars  == <<stage, todo, target>>
vars == <<enabled, fleet, treeVars, agentVars, callVars, wait>>

Terminal == {"complete", "error", "cancelled"}
Live(a)  == status[a] \in {"idle", "working"}

Init ==
  /\ enabled \in BOOLEAN
  /\ fleet   = {}
  /\ serial  = [a \in Agents |-> 0]
  /\ status  = [a \in Agents |-> "none"]
  /\ depth   = [a \in Agents |-> 0]
  /\ root    = [a \in Agents |-> NoAgent]
  /\ worker  = [a \in Agents |-> "none"]
  /\ ctxDone = [a \in Agents |-> FALSE]
  /\ closed  = [a \in Agents |-> FALSE]
  /\ stage   = [c \in Callers |-> "idle"]
  /\ todo    = [c \in Callers |-> {}]
  /\ target  = [c \in Callers |-> NoAgent]
  /\ wait    = [w \in Waiters |-> "idle"]

-----------------------------------------------------------------------------
(* spawn *)

\* Mutant: only the agents directly under the root are counted.
ChildrenOf(r) == Cardinality({a \in fleet : root[a] = r /\ depth[a] = 2})

\* treeSizeLocked: the agents of a tree that are still remembered.
TreeSize(r) == Cardinality({a \in fleet : root[a] = r})

DepthUnder(p) == IF p = NoAgent THEN 1 ELSE depth[p] + 1

\* Mutant: the switch is looked at when a plan starts, not at every spawn.
AdmitsWhenOff(p) ==
  /\ p \in fleet \cup {NoAgent}
  /\ DepthUnder(p) <= MaxDepth
  /\ p # NoAgent => TreeSize(root[p]) < MaxAgents

\* Otherwise spawn returns an error, and nothing changes.  SetMaxDepth and
\* SetMaxAgents may lower a cap and raise it again at any time: a spawn that
\* the largest caps admit may be refused all the same, by not happening.
Admits(p) ==
  /\ enabled
  /\ p \in fleet \cup {NoAgent}
  /\ DepthUnder(p) <= MaxDepth
  /\ p # NoAgent => TreeSize(root[p]) < MaxAgents

\* Mutant: the oldest records go first, finished or not.
OldestOf(F) ==
  {a \in F : Cardinality({b \in F : serial[b] < serial[a]}) + Retain < Cardinality(F)}

\* trimLocked: the oldest finished agents beyond the bound.
TrimmedOf(F) ==
  {a \in F : /\ status[a] \in Terminal
             /\ Cardinality({b \in F : status[b] \in Terminal /\ serial[b] < serial[a]})
                  + Retain < Cardinality(F)}

Created == {a \in Agents : status[a] # "none"}

\* One critical section registers agent a under p, with the means to stop it.
Register(a, p, s, w) ==
  /\ status[a] = "none"
  /\ Admits(p)
  /\ status' = [status EXCEPT ![a] = s]
  /\ worker' = [worker EXCEPT ![a] = w]
  /\ depth'  = [depth EXCEPT ![a] = DepthUnder(p)]
  /\ root'   = [root EXCEPT ![a] = IF p = NoAgent THEN a ELSE root[p]]
  /\ serial' = [serial EXCEPT ![a] = Cardinality(Created) + 1]
  /\ fleet'  = (fleet \cup {a}) \ TrimmedOf(fleet \cup {a})
  /\ UNCHANGED <<enabled, ctxDone, closed, callVars, wait>>

\* executeTask spawns its agent working, Spawn one that is idle.
SpawnWorker(a, p) == a \notin Owned /\ Register(a, p, "working", "spawned")
Spawn(a, p)       == a \in Owned /\ Register(a, p, "idle", "owned")

\* A status changes only if it is not final.
Become(a, s) == status' = [status EXCEPT ![a] = IF @ \in Terminal THEN @ ELSE s]

-----------------------------------------------------------------------------
(* executeTask, after the spawn *)

\* The record is looked up by its id: it may be forgotten by now, and then
\* executeTask returns, ends its context, and nobody closes the done channel.
Lookup(a) ==
  /\ worker[a] = "spawned"
  /\ worker' = [worker EXCEPT ![a] = IF a \in fleet THEN "running" ELSE "lost"]
  /\ ctxDone' = [ctxDone EXCEPT ![a] = @ \/ a \notin fleet]
  /\ UNCHANGED <<enabled, fleet, treeVars, status, closed, callVars, wait>>

\* Mutant: an early return leaves the done channel open when the runner fails.
SettleLeaking(a, s) ==
  /\ worker[a] = "running"
  /\ Become(a, s)
  /\ worker' = [worker EXCEPT ![a] = IF s = "error" THEN "lost" ELSE "settled"]
  /\ UNCHANGED <<enabled, fleet, treeVars, ctxDone, closed, callVars, wait>>

\* RunTask returned, with or without an error; a stopped one may do either.
Settle(a, s) ==
  /\ worker[a] = "running"
  /\ Become(a, s)
  /\ worker' = [worker EXCEPT ![a] = "settled"]
  /\ UNCHANGED <<enabled, fleet, treeVars, ctxDone, closed, callVars, wait>>

\* RunTask panics: the status stays what it is, and the scheduler recovers once
\* the deferred calls have run.
Panic(a) ==
  /\ worker[a] = "running"
  /\ worker' = [worker EXCEPT ![a] = "panicked"]
  /\ UNCHANGED <<enabled, fleet, treeVars, status, ctxDone, closed, callVars, wait>>

\* The owner of a spawned agent reports that it works ...
Begin(a) ==
  /\ worker[a] = "owned"
  /\ status[a] = "idle"
  /\ Become(a, "working")
  /\ UNCHANGED <<enabled, fleet, treeVars, worker, ctxDone, closed, callVars, wait>>

\* ... and that it is done: Coordinator.Finish looks the record up.
FinishOwned(a, s) ==
  /\ worker[a] = "owned"
  /\ a \in fleet
  /\ Become(a, s)
  /\ worker' = [worker EXCEPT ![a] = "settled"]
  /\ UNCHANGED <<enabled, fleet, treeVars, ctxDone, closed, callVars, wait>>

\* record.finish, once, is deferred by executeTask, and so is the end of its
\* context.
CloseDone(a) ==
  /\ worker[a] \in {"settled", "panicked"}
  /\ closed' = [closed EXCEPT ![a] = TRUE]
  /\ worker' = [worker EXCEPT ![a] = IF @ = "settled" THEN "ended" ELSE "crashed"]
  /\ ctxDone' = [ctxDone EXCEPT ![a] = a \notin Owned]
  /\ UNCHANGED <<enabled, fleet, treeVars, status, callVars, wait>>

\* The run an agent works for is cancelled or times out.
EndContext(a) ==
  /\ worker[a] \in {"spawned", "running", "panicked", "settled"}
  /\ a \notin Owned
  /\ ctxDone' = [ctxDone EXCEPT ![a] = TRUE]
  /\ UNCHANGED <<enabled, fleet, treeVars, status, worker, closed, callVars, wait>>

-----------------------------------------------------------------------------
(* Stop, StopAll, SetEnabled *)

Stop(c, a) ==
  /\ stage[c] = "idle"
  /\ a \in fleet
  /\ stage' = [stage EXCEPT ![c] = "sweep"]
  /\ todo' = [todo EXCEPT ![c] = {a}]
  /\ UNCHANGED <<enabled, fleet, treeVars, agentVars, target, wait>>

\* SetEnabled(false): the flag first, the sweep later.
Disable(c) ==
  /\ stage[c] = "idle"
  /\ enabled' = FALSE
  /\ stage' = [stage EXCEPT ![c] = "off"]
  /\ UNCHANGED <<fleet, treeVars, agentVars, todo, target, wait>>

Enable ==
  /\ enabled' = TRUE
  /\ UNCHANGED <<fleet, treeVars, agentVars, callVars, wait>>

\* StopAll, on its own or for SetEnabled(false): a snapshot of the records.
StopAll(c) ==
  /\ stage[c] \in {"idle", "off"}
  /\ stage' = [stage EXCEPT ![c] = "sweep"]
  /\ todo' = [todo EXCEPT ![c] = fleet]
  /\ UNCHANGED <<enabled, fleet, treeVars, agentVars, target, wait>>

\* stopRecord: nothing to do for an agent that has ended ...
SkipEnded(c, a) ==
  /\ stage[c] = "sweep"
  /\ a \in todo[c] /\ ~Live(a)
  /\ todo' = [todo EXCEPT ![c] = @ \ {a}]
  /\ UNCHANGED <<enabled, fleet, treeVars, agentVars, stage, target, wait>>

\* Mutant: the agent is marked, but its context is not cancelled.
CancelNobody(c, a) ==
  /\ stage[c] = "sweep"
  /\ a \in todo[c] /\ Live(a)
  /\ todo' = [todo EXCEPT ![c] = @ \ {a}]
  /\ target' = [target EXCEPT ![c] = a]
  /\ stage' = [stage EXCEPT ![c] = IF a \in Owned THEN "markOwned" ELSE "mark"]
  /\ UNCHANGED <<enabled, fleet, treeVars, agentVars, wait>>

\* ... cancel the context of a worker; a record without a cancel function is
\* that of an agent created by Spawn ...
CancelWorker(c, a) ==
  /\ stage[c] = "sweep"
  /\ a \in todo[c] /\ Live(a)
  /\ todo' = [todo EXCEPT ![c] = @ \ {a}]
  /\ target' = [target EXCEPT ![c] = a]
  /\ stage' = [stage EXCEPT ![c] = IF a \in Owned THEN "markOwned" ELSE "mark"]
  /\ ctxDone' = [ctxDone EXCEPT ![a] = a \notin Owned]
  /\ UNCHANGED <<enabled, fleet, treeVars, status, worker, closed, wait>>

\* Mutant: the done channel is closed for every agent that is stopped.
MarkClosing(c) ==
  /\ stage[c] \in {"mark", "markOwned"}
  /\ Become(target[c], "cancelled")
  /\ stage' = [stage EXCEPT ![c] = "close"]
  /\ UNCHANGED <<enabled, fleet, treeVars, worker, ctxDone, closed, todo, target, wait>>

\* ... mark it cancelled, unless it ended in between ...
Mark(c) ==
  /\ stage[c] \in {"mark", "markOwned"}
  /\ Become(target[c], "cancelled")
  /\ stage' = [stage EXCEPT ![c] = IF @ = "mark" THEN "sweep" ELSE "close"]
  /\ target' = [target EXCEPT ![c] = IF stage[c] = "mark" THEN NoAgent ELSE @]
  /\ UNCHANGED <<enabled, fleet, treeVars, worker, ctxDone, closed, todo, wait>>

\* ... and close the done channel of one that no goroutine drives.
CloseOwned(c) ==
  /\ stage[c] = "close"
  /\ closed' = [closed EXCEPT ![target[c]] = TRUE]
  /\ target' = [target EXCEPT ![c] = NoAgent]
  /\ stage' = [stage EXCEPT ![c] = "sweep"]
  /\ UNCHANGED <<enabled, fleet, treeVars, status, worker, ctxDone, todo, wait>>

SweepDone(c) ==
  /\ stage[c] = "sweep"
  /\ todo[c] = {}
  /\ stage' = [stage EXCEPT ![c] = "idle"]
  /\ UNCHANGED <<enabled, fleet, treeVars, agentVars, todo, target, wait>>

-----------------------------------------------------------------------------
(* Wait and Prune *)

Working == {a \in fleet : status[a] = "working"}

\* Wait looks for the first agent that works, and waits for its done channel.
Scan(w) ==
  /\ wait[w] \in {"idle", "scan"}
  /\ IF Working = {}
     THEN wait' = [wait EXCEPT ![w] = "returned"]
     ELSE \E a \in Working : /\ \A b \in Working : serial[a] <= serial[b]
                             /\ wait' = [wait EXCEPT ![w] = a]
  /\ UNCHANGED <<enabled, fleet, treeVars, agentVars, callVars>>

Woken(w) ==
  /\ wait[w] \in Agents
  /\ closed[wait[w]]
  /\ wait' = [wait EXCEPT ![w] = "scan"]
  /\ UNCHANGED <<enabled, fleet, treeVars, agentVars, callVars>>

\* The context of the call of Wait ends.
GiveUp(w) ==
  /\ wait[w] \in Agents
  /\ wait' = [wait EXCEPT ![w] = "gaveUp"]
  /\ UNCHANGED <<enabled, fleet, treeVars, agentVars, callVars>>

Prune ==
  /\ fleet' = {a \in fleet : status[a] \notin Terminal}
  /\ UNCHANGED <<enabled, treeVars, agentVars, callVars, wait>>

WorkerStep(a) ==
  \/ Lookup(a) \/ Panic(a) \/ CloseDone(a)
  \/ \E s \in Terminal : Settle(a, s) \/ (s # "cancelled" /\ FinishOwned(a, s))

CallStep(c) ==
  \/ \E a \in Agents : SkipEnded(c, a) \/ CancelWorker(c, a)
  \/ Mark(c) \/ CloseOwned(c) \/ SweepDone(c)
  \/ stage[c] = "off" /\ StopAll(c)

WaitStep(w) == (wait[w] = "scan" /\ Scan(w)) \/ Woken(w)

Next ==
  \/ \E a \in Agents :
       \/ \E p \in Parents[a] : SpawnWorker(a, p) \/ Spawn(a, p)
       \/ WorkerStep(a) \/ Begin(a) \/ EndContext(a)
  \/ \E c \in Callers : CallStep(c) \/ Disable(c) \/ StopAll(c) \/ \E a \in Agents : Stop(c, a)
  \/ \E w \in Waiters : WaitStep(w) \/ Scan(w) \/ GiveUp(w)
  \/ Enable \/ Prune

Spec == Init /\ [][Next]_vars

\* Runners return or panic and owners finish their agents some time; calls of Stop and
\* Wait that can go on do.  Nobody is obliged to spawn, stop or prune.
Fairness ==
  /\ \A a \in Agents : WF_vars(WorkerStep(a))
  /\ \A c \in Callers : WF_vars(CallStep(c))
  /\ \A w \in Waiters : WF_vars(WaitStep(w))

FairSpec == Spec /\ Fairness
-----------------------------------------------------------------------------
(* Properties *)

Typed ==
  /\ enabled \in BOOLEAN
  /\ fleet \subseteq Created
  /\ serial \in [Agents -> Nat]
  /\ status \in [Agents -> {"none", "idle", "working"} \cup Terminal]
  /\ depth \in [Agents -> 0..MaxDepth]
  /\ root \in [Agents -> Agents \cup {NoAgent}]
  /\ worker \in [Agents -> {"none", "owned", "spawned", "running", "panicked", "settled",
                          "ended", "crashed", "lost"}]
  /\ ctxDone \in [Agents -> BOOLEAN]
  /\ closed \in [Agents -> BOOLEAN]
  /\ stage \in [Callers -> {"idle", "off", "sweep", "mark", "markOwned", "close"}]
  /\ todo \in [Callers -> SUBSET Created]
  /\ target \in [Callers -> Created \cup {NoAgent}]
  /\ wait \in [Waiters -> {"idle", "scan", "returned", "gaveUp"} \cup Created]

\* Every variable has its type; no agent is deeper in its tree than any cap
\* that was ever set.
TypeOK == Typed

\* An agent that has not ended is never forgotten, however many there are:
\* trimming and Prune drop only what /agents stop has no more use for.
LiveAreRemembered == \A a \in Agents : Live(a) => a \in fleet

\* "/agents off" means stop: while the system is off, every agent that has not
\* ended is on the list of a call that is stopping it, those included that
\* were spawned at the same moment.
OffMeansOff ==
  ~enabled => \A a \in Agents : Live(a) =>
    \E c \in Callers : stage[c] = "off" \/ a \in todo[c] \/ target[c] = a

\* An agent is never marked cancelled while its worker goes on unaware.
StoppedAreTold ==
  \A a \in Agents :
    status[a] = "cancelled" /\ worker[a] \in {"spawned", "running"} => ctxDone[a]

\* The done channel of an agent closes when no goroutine drives it any more, and
\* after its status is final, or its runner panicked: then the agent goes on
\* counting as one that works, until it is stopped. And a goroutine that ends,
\* by a panic too, has closed the channel, unless the agent was forgotten before
\* it could look it up.
DoneIsFinal ==
  \A a \in Agents :
    /\ closed[a] => /\ worker[a] \notin {"spawned", "running"}
                    /\ status[a] \in Terminal \/ worker[a] = "crashed"
    /\ worker[a] \in {"ended", "crashed"} => closed[a]
    /\ worker[a] = "lost" => a \notin fleet

\* A tree never has more unfinished agents than any budget that was ever set.
BudgetHolds ==
  \A r \in Agents : Cardinality({a \in Agents : root[a] = r /\ Live(a)}) <= MaxAgents

\* What the proofs need.  Where a worker is determines how its agent stands;
WorkerInv ==
  \A a \in Agents :
    /\ worker[a] = "none" <=> status[a] = "none"
    /\ worker[a] \in {"settled", "ended"} => status[a] \in Terminal
    /\ IF a \in Owned THEN worker[a] \in {"none", "owned", "settled", "ended"}
                     ELSE worker[a] # "owned"

\* a call of Stop holds what it has still to do, and nothing else;
CallInv ==
  \A c \in Callers :
    /\ stage[c] \in {"idle", "off"} => todo[c] = {}
    /\ target[c] = NoAgent <=> stage[c] \in {"idle", "off", "sweep"}
    /\ stage[c] = "mark" => target[c] \notin Owned /\ ctxDone[target[c]]
    /\ stage[c] \in {"markOwned", "close"} => target[c] \in Owned
    /\ stage[c] = "close" => status[target[c]] \in Terminal

\* and a tree is named by an agent that exists.
TreeInv ==
  \A a \in Agents :
    root[a] # NoAgent => status[a] # "none" /\ status[root[a]] # "none"

CoordinatorInv ==
  /\ Typed /\ WorkerInv /\ CallInv /\ TreeInv
  /\ LiveAreRemembered /\ OffMeansOff /\ StoppedAreTold /\ DoneIsFinal /\ BudgetHolds

\* Wait never stays with an agent that is still remembered: it ends, and Wait
\* looks again.
WaitMovesOn ==
  \A w \in Waiters, a \in Agents : wait[w] = a ~> wait[w] # a \/ a \notin fleet

\* "Wait blocks until no agent is working": when all have ended, it returns.
WaitReturns ==
  \A w \in Waiters, a \in Agents : wait[w] = a ~> wait[w] # a
=============================================================================
