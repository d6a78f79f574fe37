------------------------- MODULE CoordinatorProofs -------------------------
(***************************************************************************)
(* Theorems about the agent fleet, for any agents, trees, caps and bounds. *)
(* CoordinatorInv is the inductive invariant; the lemmas below show what   *)
(* each kind of step keeps of it.                                          *)
(***************************************************************************)
EXTENDS Coordinator, FiniteSetTheorems, TLAPS

LEMMA FiniteAgents ==
  ASSUME NEW S \in SUBSET Agents
  PROVE  IsFiniteSet(S) /\ Cardinality(S) \in Nat
BY CoordinatorAssumption, FS_Subset, FS_CardinalityType

Unfinished(r) == {a \in Agents : root[a] = r /\ Live(a)}

\* The steps that change neither the fleet nor what becomes of an agent.
LEMMA QuietStep ==
  ASSUME CoordinatorInv,
         UNCHANGED <<enabled, fleet, treeVars, agentVars, callVars>>
  PROVE  /\ WorkerInv' /\ CallInv' /\ TreeInv' /\ LiveAreRemembered' /\ OffMeansOff'
         /\ StoppedAreTold' /\ DoneIsFinal' /\ BudgetHolds'
BY DEF CoordinatorInv, treeVars, agentVars, callVars, WorkerInv, CallInv, TreeInv,
       LiveAreRemembered, OffMeansOff, StoppedAreTold, DoneIsFinal, BudgetHolds, Live, Terminal

-----------------------------------------------------------------------------
(* Types *)

LEMMA InitTyped == Init => Typed
BY CoordinatorAssumption DEF Init, Typed, Created

LEMMA RegisterTyped ==
  ASSUME Typed, NEW a \in Agents, NEW p \in Parents[a],
         NEW s \in {"idle", "working"}, NEW w \in {"spawned", "owned"}, Register(a, p, s, w)
  PROVE  Typed'
<1>1. Created' = Created \cup {a}
  BY DEF Register, Typed, Created
<1>2. DepthUnder(p) \in 0..MaxDepth
  <2>1. p \in Agents \cup {NoAgent}
    BY CoordinatorAssumption
  <2> QED
    BY <2>1, CoordinatorAssumption DEF Register, Admits, DepthUnder, Typed, Created
<1>3. Cardinality(Created) + 1 \in Nat
  BY FiniteAgents DEF Created
<1>4. fleet' \subseteq Created'
  BY <1>1 DEF Register, Typed
<1>5. root' \in [Agents -> Agents \cup {NoAgent}]
  BY CoordinatorAssumption DEF Register, Typed
<1>6. /\ serial' \in [Agents -> Nat]
      /\ depth' \in [Agents -> 0..MaxDepth]
  BY <1>2, <1>3 DEF Register, Typed
<1>7. /\ status' \in [Agents -> {"none", "idle", "working"} \cup Terminal]
      /\ worker' \in [Agents -> {"none", "owned", "spawned", "running", "panicked", "settled",
                           "ended", "crashed", "lost"}]
  BY DEF Register, Typed
<1>8. /\ UNCHANGED <<enabled, ctxDone, closed, stage, todo, target, wait>>
  BY DEF Register, callVars
<1> QED
  BY <1>1, <1>4, <1>5, <1>6, <1>7, <1>8 DEF Typed

\* An agent that changes its status has been created before.
LEMMA BecomeTyped ==
  ASSUME Typed, NEW a \in Agents, status[a] # "none",
         NEW s \in {"working"} \cup Terminal, Become(a, s)
  PROVE  /\ status' \in [Agents -> {"none", "idle", "working"} \cup Terminal]
         /\ Created' = Created
BY DEF Become, Typed, Created, Terminal

LEMMA StepTyped == CoordinatorInv /\ [Next]_vars => Typed'
<1> SUFFICES ASSUME CoordinatorInv, [Next]_vars
             PROVE  Typed'
  OBVIOUS
<1> USE DEF CoordinatorInv
<1>1. ASSUME NEW a \in Agents, NEW p \in Parents[a], SpawnWorker(a, p) \/ Spawn(a, p)
      PROVE  Typed'
  BY <1>1, RegisterTyped DEF SpawnWorker, Spawn
<1>2. ASSUME NEW a \in Agents, Lookup(a) \/ Panic(a) \/ CloseDone(a) \/ EndContext(a)
      PROVE  Typed'
  <2>1. Created' = Created
    BY <1>2 DEF Lookup, Panic, CloseDone, EndContext, Created
  <2> QED
    BY <1>2, <2>1 DEF Lookup, Panic, CloseDone, EndContext, Typed, treeVars, callVars
<1>3. ASSUME NEW a \in Agents, Begin(a) \/ \E s \in Terminal : Settle(a, s) \/ FinishOwned(a, s)
      PROVE  Typed'
  <2>1. status[a] # "none"
    BY <1>3 DEF Settle, FinishOwned, Begin, WorkerInv
  <2>2. PICK x \in {"working"} \cup Terminal : Become(a, x)
    BY <1>3 DEF Settle, FinishOwned, Begin
  <2>3. /\ status' \in [Agents -> {"none", "idle", "working"} \cup Terminal]
        /\ Created' = Created
    BY <2>1, <2>2, BecomeTyped
  <2> QED
    BY <1>3, <2>3 DEF Settle, FinishOwned, Begin, Typed, treeVars, callVars
<1>4. ASSUME NEW c \in Callers,
             \/ Disable(c) \/ StopAll(c) \/ CloseOwned(c) \/ SweepDone(c)
             \/ \E a \in Agents : Stop(c, a) \/ SkipEnded(c, a) \/ CancelWorker(c, a)
      PROVE  Typed'
  <2>1. UNCHANGED <<fleet, serial, depth, root, status, worker, wait>>
    BY <1>4 DEF Stop, Disable, StopAll, SkipEnded, CancelWorker, CloseOwned, SweepDone,
                agentVars, treeVars
  <2>2. Created' = Created
    BY <2>1 DEF Created
  <2>3. enabled' \in BOOLEAN
    BY <1>4 DEF Stop, Disable, StopAll, SkipEnded, CancelWorker, CloseOwned, SweepDone, Typed
  <2>4. stage' \in [Callers -> {"idle", "off", "sweep", "mark", "markOwned", "close"}]
    BY <1>4 DEF Stop, Disable, StopAll, SkipEnded, CancelWorker, CloseOwned, SweepDone, Typed
  <2>5. todo' \in [Callers -> SUBSET Created]
    BY <1>4 DEF Stop, Disable, StopAll, SkipEnded, CancelWorker, CloseOwned, SweepDone, Typed
  <2>6. target' \in [Callers -> Created \cup {NoAgent}]
    BY <1>4 DEF Stop, Disable, StopAll, SkipEnded, CancelWorker, CloseOwned, SweepDone, Typed
  <2>7. ctxDone' \in [Agents -> BOOLEAN] /\ closed' \in [Agents -> BOOLEAN]
    BY <1>4 DEF Stop, Disable, StopAll, SkipEnded, CancelWorker, CloseOwned, SweepDone, Typed, agentVars
  <2> QED
    BY <2>1, <2>2, <2>3, <2>4, <2>5, <2>6, <2>7 DEF Typed
<1>5. ASSUME NEW c \in Callers, Mark(c)
      PROVE  Typed'
  <2>1. target[c] \in Agents /\ status[target[c]] # "none"
    BY <1>5 DEF Mark, CallInv, Typed, Created
  <2>2. /\ status' \in [Agents -> {"none", "idle", "working"} \cup Terminal]
        /\ Created' = Created
    BY <1>5, <2>1, BecomeTyped DEF Mark, Terminal
  <2> QED
    BY <1>5, <2>2 DEF Mark, Typed, treeVars
<1>6. ASSUME NEW w \in Waiters, Scan(w) \/ Woken(w) \/ GiveUp(w)
      PROVE  Typed'
  BY <1>6 DEF Scan, Woken, GiveUp, Working, Typed, Created, treeVars, agentVars, callVars
<1>7. CASE Prune \/ UNCHANGED vars
  BY <1>7 DEF Prune, vars, Typed, Created, treeVars, agentVars, callVars
<1>8. CASE Enable
  BY <1>8 DEF Enable, Typed, Created, treeVars, agentVars, callVars
<1> QED
  BY <1>1, <1>2, <1>3, <1>4, <1>5, <1>6, <1>7, <1>8
     DEF Next, WorkerStep, CallStep, WaitStep

-----------------------------------------------------------------------------
(* Workers, calls and trees *)

\* What a spawn does to the fleet: the new agent is in it, and nobody who has
\* not ended is trimmed.
LEMMA RegisterKeeps ==
  ASSUME CoordinatorInv, NEW a \in Agents, NEW p \in Parents[a],
         NEW s \in {"idle", "working"}, NEW w \in {"spawned", "owned"}, Register(a, p, s, w)
  PROVE  /\ a \in fleet'
         /\ \A b \in fleet : status[b] \in Terminal \/ b \in fleet'
         /\ fleet' \subseteq fleet \cup {a}
BY DEF CoordinatorInv, Register, TrimmedOf, Terminal

LEMMA SpawnInv ==
  ASSUME CoordinatorInv, NEW a \in Agents, NEW p \in Parents[a],
         SpawnWorker(a, p) \/ Spawn(a, p)
  PROVE  /\ WorkerInv' /\ CallInv' /\ TreeInv' /\ LiveAreRemembered' /\ OffMeansOff'
         /\ StoppedAreTold' /\ DoneIsFinal'
<1> USE DEF CoordinatorInv
<1>1. PICK s \in {"idle", "working"}, w \in {"spawned", "owned"} :
        /\ Register(a, p, s, w)
        /\ w = "owned" <=> a \in Owned
  BY DEF SpawnWorker, Spawn
<1>2. /\ a \in fleet'
      /\ \A b \in fleet : status[b] \in Terminal \/ b \in fleet'
      /\ fleet' \subseteq fleet \cup {a}
  BY <1>1, RegisterKeeps
<1>3. /\ status[a] = "none" /\ enabled /\ p \in fleet \cup {NoAgent}
      /\ status' = [status EXCEPT ![a] = s]
      /\ worker' = [worker EXCEPT ![a] = w]
      /\ root' = [root EXCEPT ![a] = IF p = NoAgent THEN a ELSE root[p]]
      /\ UNCHANGED <<enabled, ctxDone, closed, stage, todo, target>>
  BY <1>1 DEF Register, Admits, callVars
<1>4. worker[a] = "none" /\ ~closed[a]
  BY <1>3 DEF WorkerInv, DoneIsFinal, Terminal
<1>5. WorkerInv'
  BY <1>1, <1>3, <1>4 DEF WorkerInv, Typed, Terminal
<1>6. CallInv'
  BY <1>3 DEF CallInv, Typed, Terminal, Created
<1>7. TreeInv'
  <2>1. p # NoAgent => p \in Agents /\ status[p] # "none"
    BY <1>3 DEF Typed, Created
  <2> QED
    BY <1>3, <2>1, CoordinatorAssumption DEF TreeInv, Typed
<1>8. LiveAreRemembered'
  BY <1>2, <1>3 DEF LiveAreRemembered, Live, Typed, Terminal
<1>9. OffMeansOff'
  BY <1>3 DEF OffMeansOff
<1>10. StoppedAreTold' /\ DoneIsFinal'
  BY <1>1, <1>2, <1>3, <1>4 DEF StoppedAreTold, DoneIsFinal, Typed, Terminal
<1> QED
  BY <1>5, <1>6, <1>7, <1>8, <1>9, <1>10

\* A worker's steps, those of an owner, and the end of a context.
LEMMA WorkerStepInv ==
  ASSUME CoordinatorInv, NEW a \in Agents, WorkerStep(a) \/ Begin(a) \/ EndContext(a)
  PROVE  /\ WorkerInv' /\ CallInv' /\ TreeInv' /\ LiveAreRemembered' /\ OffMeansOff'
         /\ StoppedAreTold' /\ DoneIsFinal'
<1> USE DEF CoordinatorInv
<1>1. UNCHANGED <<enabled, fleet, root, stage, todo, target>>
  BY DEF WorkerStep, Lookup, Panic, CloseDone, Settle, FinishOwned, Begin, EndContext, treeVars, callVars
<1>2. /\ \A b \in Agents : status[b] \in Terminal => status'[b] = status[b]
      /\ \A b \in Agents : status[b] = "none" <=> status'[b] = "none"
      /\ \A b \in Agents : Live(b)' => Live(b)
  BY DEF WorkerStep, Lookup, Panic, CloseDone, Settle, FinishOwned, Begin, EndContext, Become,
         WorkerInv, Typed, Live, Terminal
<1>3. \A b \in Agents : ctxDone[b] /\ b \notin Owned => ctxDone'[b]
  BY DEF WorkerStep, Lookup, Panic, CloseDone, Settle, FinishOwned, Begin, EndContext, Typed
<1>4. WorkerInv'
  BY DEF WorkerStep, Lookup, Panic, CloseDone, Settle, FinishOwned, Begin, EndContext, Become,
         WorkerInv, Typed, Terminal
<1>5. CallInv'
  BY <1>1, <1>2, <1>3 DEF CallInv, Typed, Created
<1>6. TreeInv' /\ LiveAreRemembered' /\ OffMeansOff'
  BY <1>1, <1>2 DEF TreeInv, LiveAreRemembered, OffMeansOff, Typed
<1>7. StoppedAreTold'
  BY DEF WorkerStep, Lookup, Panic, CloseDone, Settle, FinishOwned, Begin, EndContext, Become,
         StoppedAreTold, WorkerInv, Typed, Terminal
<1>8. DoneIsFinal'
  BY DEF WorkerStep, Lookup, Panic, CloseDone, Settle, FinishOwned, Begin, EndContext, Become,
         DoneIsFinal, WorkerInv, LiveAreRemembered, Live, Typed, Terminal
<1> QED
  BY <1>4, <1>5, <1>6, <1>7, <1>8

\* Enabling, disabling and the steps of Stop and StopAll other than Mark.
LEMMA CallStepInv ==
  ASSUME CoordinatorInv, NEW c \in Callers,
         \/ Disable(c) \/ StopAll(c) \/ CloseOwned(c) \/ SweepDone(c)
         \/ \E a \in Agents : Stop(c, a) \/ SkipEnded(c, a) \/ CancelWorker(c, a)
  PROVE  /\ WorkerInv' /\ CallInv' /\ TreeInv' /\ LiveAreRemembered' /\ OffMeansOff'
         /\ StoppedAreTold' /\ DoneIsFinal'
<1> USE DEF CoordinatorInv
<1>1. UNCHANGED <<fleet, root, status, worker>>
  BY DEF Stop, Disable, StopAll, SkipEnded, CancelWorker, CloseOwned, SweepDone,
         agentVars, treeVars
<1>2. \A b \in Agents : ctxDone[b] /\ b \notin Owned => ctxDone'[b]
  BY DEF Stop, Disable, StopAll, SkipEnded, CancelWorker, CloseOwned, SweepDone,
         agentVars, Typed
<1>3. WorkerInv' /\ TreeInv' /\ LiveAreRemembered'
  BY <1>1 DEF WorkerInv, TreeInv, LiveAreRemembered, Live, Typed
<1>4. CallInv' /\ OffMeansOff'
  <2>1. \A x \in Callers : target[x] = NoAgent \/ target[x] \in Agents
    BY DEF Typed, Created
  <2>2. CASE Disable(c)
    BY <2>2, <1>1 DEF Disable, CallInv, OffMeansOff, Live, Typed, agentVars
  <2>3. CASE StopAll(c)
    BY <2>3, <1>1 DEF StopAll, CallInv, OffMeansOff, LiveAreRemembered, Live, Typed, agentVars
  <2>4. CASE CloseOwned(c)
    BY <2>4, <1>1 DEF CloseOwned, CallInv, OffMeansOff, Live, Typed, Terminal
  <2>5. CASE SweepDone(c)
    BY <2>5, <1>1 DEF SweepDone, CallInv, OffMeansOff, Live, Typed, agentVars
  <2>6. ASSUME NEW a \in Agents, Stop(c, a)
        PROVE  CallInv' /\ OffMeansOff'
    BY <2>6, <1>1 DEF Stop, CallInv, OffMeansOff, Live, Typed, agentVars
  <2>7. ASSUME NEW a \in Agents, SkipEnded(c, a)
        PROVE  CallInv' /\ OffMeansOff'
    BY <2>7, <1>1 DEF SkipEnded, CallInv, OffMeansOff, Live, Typed, agentVars
  <2>8. ASSUME NEW a \in Agents, CancelWorker(c, a)
        PROVE  CallInv' /\ OffMeansOff'
    <3>1. a # NoAgent
      BY CoordinatorAssumption
    <3>2. CallInv'
      <4>1. /\ todo' = [todo EXCEPT ![c] = @ \ {a}]
            /\ target' = [target EXCEPT ![c] = a]
            /\ stage' = [stage EXCEPT ![c] = IF a \in Owned THEN "markOwned" ELSE "mark"]
            /\ status' = status
        BY <2>8, <1>1 DEF CancelWorker
      <4>2. /\ stage'[c] = IF a \in Owned THEN "markOwned" ELSE "mark"
            /\ target'[c] = a /\ ctxDone'[a] = (a \notin Owned)
        BY <2>8, <4>1 DEF CancelWorker, Typed
      <4>3. \A x \in Callers \ {c} :
              /\ stage'[x] = stage[x] /\ target'[x] = target[x] /\ todo'[x] = todo[x]
              /\ stage[x] = "mark" => ctxDone'[target[x]]
        BY <2>1, <1>2, <4>1, CoordinatorAssumption DEF CallInv, Typed
      <4> SUFFICES ASSUME NEW x \in Callers
                   PROVE  /\ stage'[x] \in {"idle", "off"} => todo'[x] = {}
                          /\ target'[x] = NoAgent <=> stage'[x] \in {"idle", "off", "sweep"}
                          /\ stage'[x] = "mark" => target'[x] \notin Owned /\ ctxDone'[target'[x]]
                          /\ stage'[x] \in {"markOwned", "close"} => target'[x] \in Owned
                          /\ stage'[x] = "close" => status'[target'[x]] \in Terminal
        BY DEF CallInv
      <4>4. CASE x = c
        BY <3>1, <4>2, <4>4
      <4>5. CASE x # c
        BY <4>1, <4>3, <4>5 DEF CallInv
      <4> QED
        BY <4>4, <4>5
    <3>3. OffMeansOff'
      <4>1. target[c] = NoAgent
        BY <2>8 DEF CancelWorker, CallInv
      <4>2. /\ stage[c] = "sweep" /\ enabled' = enabled /\ status' = status
            /\ target' = [target EXCEPT ![c] = a]
            /\ todo' = [todo EXCEPT ![c] = @ \ {a}]
            /\ \A x \in Callers : stage[x] = "off" => stage'[x] = "off"
        BY <2>8, <1>1 DEF CancelWorker, Typed
      <4>3. \A b \in Agents, x \in Callers :
              b \in todo[x] \/ target[x] = b => b \in todo'[x] \/ target'[x] = b
        BY <3>1, <4>1, <4>2, CoordinatorAssumption DEF Typed
      <4> QED
        BY <4>2, <4>3 DEF OffMeansOff, Live
    <3> QED
      BY <3>2, <3>3
  <2> QED
    BY <2>2, <2>3, <2>4, <2>5, <2>6, <2>7, <2>8
<1>5. StoppedAreTold'
  BY <1>1, <1>2 DEF StoppedAreTold, WorkerInv, Typed
<1>6. DoneIsFinal'
  <2>1. CASE CloseOwned(c)
    <3>1. target[c] \in Owned /\ status[target[c]] \in Terminal
      BY <2>1 DEF CloseOwned, CallInv
    <3>2. closed' = [closed EXCEPT ![target[c]] = TRUE]
      BY <2>1 DEF CloseOwned
    <3> QED
      BY <1>1, <3>1, <3>2 DEF DoneIsFinal, WorkerInv, Typed
  <2>2. CASE UNCHANGED closed
    BY <1>1, <2>2 DEF DoneIsFinal
  <2> QED
    BY <2>1, <2>2 DEF Stop, Disable, StopAll, SkipEnded, CancelWorker, SweepDone, agentVars
<1> QED
  BY <1>3, <1>4, <1>5, <1>6

\* An agent is marked after its context was cancelled, or when it has no worker.
LEMMA MarkInv ==
  ASSUME CoordinatorInv, NEW c \in Callers, Mark(c)
  PROVE  /\ WorkerInv' /\ CallInv' /\ TreeInv' /\ LiveAreRemembered' /\ OffMeansOff'
         /\ StoppedAreTold' /\ DoneIsFinal'
<1> USE DEF CoordinatorInv
<1> DEFINE a == target[c]
<1>1. /\ a \in Agents /\ status[a] # "none" /\ a # NoAgent
      /\ a \in Owned \/ ctxDone[a]
  BY CoordinatorAssumption DEF Mark, CallInv, Typed, Created
<1>2. /\ UNCHANGED <<enabled, fleet, root, worker, ctxDone, closed, todo>>
      /\ status' = [status EXCEPT ![a] = IF @ \in Terminal THEN @ ELSE "cancelled"]
  BY DEF Mark, Become, treeVars
<1>3. /\ \A b \in Agents : status[b] \in Terminal => status'[b] = status[b]
      /\ \A b \in Agents : status[b] = "none" <=> status'[b] = "none"
      /\ \A b \in Agents : b # a => status'[b] = status[b]
      /\ status'[a] \in Terminal
  BY <1>1, <1>2 DEF Typed, Terminal
<1>4. WorkerInv' /\ TreeInv' /\ DoneIsFinal'
  BY <1>2, <1>3 DEF WorkerInv, TreeInv, DoneIsFinal, Typed
<1>5. LiveAreRemembered'
  BY <1>2, <1>3 DEF LiveAreRemembered, Live, Terminal
<1>6. CallInv'
  BY <1>1, <1>2, <1>3 DEF Mark, CallInv, Typed, Created
<1>7. OffMeansOff'
  BY <1>2, <1>3 DEF Mark, OffMeansOff, Live, Typed, Terminal
<1>8. StoppedAreTold'
  BY <1>1, <1>2, <1>3 DEF StoppedAreTold, WorkerInv, Typed
<1> QED
  BY <1>4, <1>5, <1>6, <1>7, <1>8

\* Enable and Prune.
LEMMA EnablePruneInv ==
  ASSUME CoordinatorInv, Enable \/ Prune
  PROVE  /\ WorkerInv' /\ CallInv' /\ TreeInv' /\ LiveAreRemembered' /\ OffMeansOff'
         /\ StoppedAreTold' /\ DoneIsFinal'
<1> USE DEF CoordinatorInv
<1>1. /\ UNCHANGED <<root, status, worker, ctxDone, closed, stage, todo, target>>
      /\ fleet' \subseteq fleet
      /\ \A a \in fleet : Live(a) => a \in fleet'
      /\ ~enabled' => ~enabled
  BY DEF Enable, Prune, treeVars, agentVars, callVars, Live, Terminal
<1>2. WorkerInv' /\ CallInv' /\ TreeInv' /\ StoppedAreTold' /\ DoneIsFinal'
  BY <1>1 DEF WorkerInv, CallInv, TreeInv, StoppedAreTold, DoneIsFinal
<1>3. LiveAreRemembered' /\ OffMeansOff'
  BY <1>1 DEF LiveAreRemembered, OffMeansOff, Live
<1> QED
  BY <1>2, <1>3

-----------------------------------------------------------------------------
(* The budget of a tree *)

\* A step that starts no agent keeps the budget.
LEMMA NobodyStarts ==
  ASSUME BudgetHolds, UNCHANGED root, \A a \in Agents : Live(a)' => Live(a), MaxAgents \in Nat
  PROVE  BudgetHolds'
<1> SUFFICES ASSUME NEW r \in Agents
             PROVE  Cardinality(Unfinished(r)') <= MaxAgents
  BY DEF BudgetHolds, Unfinished
<1>1. Unfinished(r)' \subseteq Unfinished(r) /\ Unfinished(r) \in SUBSET Agents
  BY DEF Unfinished
<1>2. IsFiniteSet(Unfinished(r)) /\ Cardinality(Unfinished(r)) \in Nat
  BY <1>1, FiniteAgents
<1>3. Cardinality(Unfinished(r)') <= Cardinality(Unfinished(r)) /\ Cardinality(Unfinished(r)') \in Nat
  BY <1>1, <1>2, FS_Subset, FS_CardinalityType
<1>4. Cardinality(Unfinished(r)) <= MaxAgents
  BY DEF BudgetHolds, Unfinished
<1> QED
  BY <1>2, <1>3, <1>4

\* A spawn admits one agent to a tree whose remembered agents, and so its
\* unfinished ones, are fewer than the budget.
LEMMA SpawnKeepsBudget ==
  ASSUME CoordinatorInv, NEW a \in Agents, NEW p \in Parents[a],
         SpawnWorker(a, p) \/ Spawn(a, p)
  PROVE  BudgetHolds'
<1> USE DEF CoordinatorInv
<1> DEFINE t == IF p = NoAgent THEN a ELSE root[p]
<1>1. PICK s \in {"idle", "working"} :
        /\ status[a] = "none" /\ Admits(p)
        /\ status' = [status EXCEPT ![a] = s]
        /\ root' = [root EXCEPT ![a] = t]
  BY DEF SpawnWorker, Spawn, Register
<1>2. MaxAgents \in Nat /\ 1 <= MaxAgents
  BY CoordinatorAssumption
<1> SUFFICES ASSUME NEW r \in Agents
             PROVE  Cardinality(Unfinished(r)') <= MaxAgents
  BY DEF BudgetHolds, Unfinished
<1>3. /\ Unfinished(r) \in SUBSET Agents /\ IsFiniteSet(Unfinished(r))
      /\ Cardinality(Unfinished(r)) \in Nat /\ Cardinality(Unfinished(r)) <= MaxAgents
  <2>1. Unfinished(r) \in SUBSET Agents
    BY DEF Unfinished
  <2> QED
    BY <2>1, FiniteAgents DEF BudgetHolds, Unfinished
<1>4. a \notin Unfinished(r)
  BY <1>1 DEF Unfinished, Live
<1>5. CASE r # t
  <2>1. Unfinished(r)' = Unfinished(r)
    BY <1>1, <1>4, <1>5 DEF Unfinished, Live, Typed
  <2> QED
    BY <1>3, <2>1
<1>6. CASE r = t
  <2>1. Unfinished(r)' = Unfinished(r) \cup {a}
    BY <1>1, <1>4, <1>6 DEF Unfinished, Live, Typed
  <2>2. Cardinality(Unfinished(r)') = Cardinality(Unfinished(r)) + 1
    BY <1>3, <1>4, <2>1, FS_AddElement
  <2>3. CASE p = NoAgent
    <3>1. Unfinished(r) = {}
      BY <1>1, <1>6, <2>3, CoordinatorAssumption DEF Unfinished, TreeInv
    <3> QED
      BY <1>2, <2>2, <3>1, FS_EmptySet
  <2>4. CASE p # NoAgent
    <3> DEFINE K == {b \in fleet : root[b] = r}
    <3>1. K \in SUBSET Agents
      BY DEF Typed, Created
    <3>2. Cardinality(K) < MaxAgents
      BY <1>1, <1>6, <2>4 DEF Admits, TreeSize
    <3>3. Unfinished(r) \subseteq K
      BY DEF Unfinished, LiveAreRemembered
    <3>4. Cardinality(Unfinished(r)) <= Cardinality(K) /\ Cardinality(K) \in Nat
      BY <3>1, <3>3, FiniteAgents, FS_Subset
    <3> QED
      BY <1>2, <1>3, <2>2, <3>2, <3>4
  <2> QED
    BY <2>3, <2>4
<1> QED
  BY <1>5, <1>6

LEMMA StepKeepsBudget == CoordinatorInv /\ [Next]_vars => BudgetHolds'
<1> SUFFICES ASSUME CoordinatorInv, [Next]_vars
             PROVE  BudgetHolds'
  OBVIOUS
<1>1. CASE \E a \in Agents : \E p \in Parents[a] : SpawnWorker(a, p) \/ Spawn(a, p)
  BY <1>1, SpawnKeepsBudget
<1>2. ASSUME UNCHANGED root, \A a \in Agents : Live(a)' => Live(a)
      PROVE  BudgetHolds'
  BY <1>2, NobodyStarts, CoordinatorAssumption DEF CoordinatorInv
<1>3. ASSUME UNCHANGED <<root, status>>
      PROVE  BudgetHolds'
  BY <1>2, <1>3 DEF Live
<1>4. ASSUME NEW a \in Agents, WorkerStep(a) \/ Begin(a) \/ EndContext(a)
      PROVE  BudgetHolds'
  <2>1. UNCHANGED root
    BY <1>4 DEF WorkerStep, Lookup, Panic, CloseDone, Settle, FinishOwned, Begin, EndContext, treeVars
  <2>2. \A b \in Agents : Live(b)' => Live(b)
    BY <1>4 DEF WorkerStep, Lookup, Panic, CloseDone, Settle, FinishOwned, Begin, EndContext, Become,
                CoordinatorInv, WorkerInv, Typed, Live, Terminal
  <2> QED
    BY <1>2, <2>1, <2>2
<1>5. ASSUME NEW c \in Callers, Mark(c)
      PROVE  BudgetHolds'
  <2>1. UNCHANGED root
    BY <1>5 DEF Mark, treeVars
  <2>2. \A b \in Agents : Live(b)' => Live(b)
    BY <1>5 DEF Mark, Become, CoordinatorInv, Typed, Live, Terminal
  <2> QED
    BY <1>2, <2>1, <2>2
<1>6. ASSUME NEW c \in Callers,
             \/ Disable(c) \/ StopAll(c) \/ CloseOwned(c) \/ SweepDone(c)
             \/ \E a \in Agents : Stop(c, a) \/ SkipEnded(c, a) \/ CancelWorker(c, a)
      PROVE  BudgetHolds'
  BY <1>3, <1>6 DEF Stop, Disable, StopAll, SkipEnded, CancelWorker, CloseOwned, SweepDone,
                    agentVars, treeVars
<1>7. ASSUME NEW w \in Waiters, Scan(w) \/ Woken(w) \/ GiveUp(w)
      PROVE  BudgetHolds'
  BY <1>3, <1>7 DEF Scan, Woken, GiveUp, agentVars, treeVars
<1>8. CASE Enable \/ Prune \/ UNCHANGED vars
  BY <1>3, <1>8 DEF Enable, Prune, vars, agentVars, treeVars
<1> QED
  BY <1>1, <1>4, <1>5, <1>6, <1>7, <1>8 DEF Next, CallStep, WaitStep

-----------------------------------------------------------------------------
(* The theorems *)

LEMMA InitInv == Init => CoordinatorInv
<1> SUFFICES ASSUME Init
             PROVE  CoordinatorInv
  OBVIOUS
<1>1. Typed
  BY InitTyped
<1>2. WorkerInv /\ CallInv /\ TreeInv
  BY DEF Init, WorkerInv, CallInv, TreeInv, Terminal
<1>3. LiveAreRemembered /\ OffMeansOff /\ StoppedAreTold /\ DoneIsFinal
  BY DEF Init, LiveAreRemembered, OffMeansOff, StoppedAreTold, DoneIsFinal, Live
<1>4. BudgetHolds
  <2>1. ASSUME NEW r \in Agents
        PROVE  Unfinished(r) = {}
    BY DEF Init, Unfinished, Live
  <2> QED
    BY <2>1, CoordinatorAssumption, FS_EmptySet DEF BudgetHolds, Unfinished
<1> QED
  BY <1>1, <1>2, <1>3, <1>4 DEF CoordinatorInv

LEMMA StepInv == CoordinatorInv /\ [Next]_vars => CoordinatorInv'
<1> SUFFICES ASSUME CoordinatorInv, [Next]_vars
             PROVE  CoordinatorInv'
  OBVIOUS
<1> DEFINE Kept == /\ WorkerInv' /\ CallInv' /\ TreeInv' /\ LiveAreRemembered'
                   /\ OffMeansOff' /\ StoppedAreTold' /\ DoneIsFinal'
<1>1. ASSUME NEW a \in Agents
      PROVE  /\ \A p \in Parents[a] : SpawnWorker(a, p) \/ Spawn(a, p) => Kept
             /\ WorkerStep(a) \/ Begin(a) \/ EndContext(a) => Kept
  BY SpawnInv, WorkerStepInv
<1>2. ASSUME NEW c \in Callers,
             CallStep(c) \/ Disable(c) \/ StopAll(c) \/ \E a \in Agents : Stop(c, a)
      PROVE  Kept
  BY <1>2, CallStepInv, MarkInv DEF CallStep
<1>3. ASSUME Enable \/ Prune
      PROVE  Kept
  BY <1>3, EnablePruneInv
<1>4. ASSUME UNCHANGED vars \/ \E w \in Waiters : Scan(w) \/ Woken(w) \/ GiveUp(w)
      PROVE  Kept
  <2>1. UNCHANGED <<enabled, fleet, treeVars, agentVars, callVars>>
    BY <1>4 DEF Scan, Woken, GiveUp, vars
  <2> QED
    BY <2>1, QuietStep
<1>5. Kept
  BY <1>1, <1>2, <1>3, <1>4 DEF Next, WaitStep
<1> QED
  BY <1>5, StepTyped, StepKeepsBudget DEF CoordinatorInv

LEMMA InvHolds == Spec => []CoordinatorInv
BY InitInv, StepInv, PTL DEF Spec

\* Every variable of the coordinator keeps its type, and no agent is deeper in
\* its tree than the largest depth cap (spawn).
THEOREM CoordinatorTypes == Spec => []TypeOK
<1>1. CoordinatorInv => TypeOK
  BY DEF CoordinatorInv, TypeOK
<1> QED
  BY <1>1, InvHolds, PTL

\* Trimming and pruning never forget an agent that has not ended.
THEOREM LiveRemembered == Spec => []LiveAreRemembered
<1>1. CoordinatorInv => LiveAreRemembered
  BY DEF CoordinatorInv
<1> QED
  BY <1>1, InvHolds, PTL

\* Once agents are switched off, every live agent is about to be stopped,
\* whichever spawns the switch raced (SetEnabled, StopAll).
THEOREM OffStopsAll == Spec => []OffMeansOff
<1>1. CoordinatorInv => OffMeansOff
  BY DEF CoordinatorInv
<1> QED
  BY <1>1, InvHolds, PTL

\* An agent is marked cancelled only after its worker was told (stopRecord).
THEOREM StoppedTold == Spec => []StoppedAreTold
<1>1. CoordinatorInv => StoppedAreTold
  BY DEF CoordinatorInv
<1> QED
  BY <1>1, InvHolds, PTL

\* A done channel closes when nobody drives the agent any more, with a final status
\* unless the runner panicked (record.finish, executeTask).
THEOREM DoneFinal == Spec => []DoneIsFinal
<1>1. CoordinatorInv => DoneIsFinal
  BY DEF CoordinatorInv
<1> QED
  BY <1>1, InvHolds, PTL

\* However agents are pruned, trimmed and stopped, a tree never has more
\* unfinished agents than its budget (spawn, treeSizeLocked).
THEOREM BudgetKept == Spec => []BudgetHolds
<1>1. CoordinatorInv => BudgetHolds
  BY DEF CoordinatorInv
<1> QED
  BY <1>1, InvHolds, PTL

\* An agent that has ended stays as it ended: no call of Stop and no worker that
\* comes later revises its status, its done channel stays closed, and a record
\* that was pruned does not come back (agent.go SetStatus, coordinator.go).
EndIsFinal ==
  [][\A a \in Agents : status[a] \in Terminal =>
       /\ status'[a] = status[a]
       /\ closed[a] => closed'[a]
       /\ a \notin fleet => a \notin fleet']_vars

THEOREM EndsStand == Spec => EndIsFinal
<1>1. Typed /\ [Next]_vars
        => [\A a \in Agents : status[a] \in Terminal =>
              /\ status'[a] = status[a]
              /\ closed[a] => closed'[a]
              /\ a \notin fleet => a \notin fleet']_vars
  <2> SUFFICES ASSUME Typed, Next, NEW a \in Agents, status[a] \in Terminal
               PROVE  /\ status'[a] = status[a]
                      /\ closed[a] => closed'[a]
                      /\ a \notin fleet => a \notin fleet'
    OBVIOUS
  <2>1. /\ status \in [Agents -> {"none", "idle", "working"} \cup Terminal]
        /\ closed \in [Agents -> BOOLEAN]
        /\ "none" \notin Terminal
    BY DEF Typed, Terminal
  <2>2. \A b, s : Become(b, s) => status'[a] = status[a]
    BY <2>1 DEF Become
  <2>3. ASSUME NEW b \in Agents, NEW p, SpawnWorker(b, p) \/ Spawn(b, p)
        PROVE  status'[a] = status[a] /\ closed' = closed /\ (a \notin fleet => a \notin fleet')
    <3>1. b # a /\ closed' = closed /\ status'[a] = status[a]
      BY <2>1, <2>3 DEF SpawnWorker, Spawn, Register
    <3>2. fleet' \subseteq fleet \cup {b}
      BY <2>3 DEF SpawnWorker, Spawn, Register
    <3> QED
      BY <3>1, <3>2
  <2>4. ASSUME NEW b \in Agents, WorkerStep(b) \/ Begin(b) \/ EndContext(b)
        PROVE  /\ status'[a] = status[a] /\ fleet' = fleet
               /\ closed' = closed \/ closed' = [closed EXCEPT ![b] = TRUE]
    BY <2>2, <2>4 DEF WorkerStep, Lookup, Panic, Settle, FinishOwned, CloseDone, Begin, EndContext
  <2>5. ASSUME NEW c \in Callers,
               CallStep(c) \/ Disable(c) \/ StopAll(c) \/ \E b \in Agents : Stop(c, b)
        PROVE  /\ status'[a] = status[a] /\ fleet' = fleet
               /\ closed' = closed \/ closed' = [closed EXCEPT ![target[c]] = TRUE]
    BY <2>2, <2>5 DEF CallStep, SkipEnded, CancelWorker, Mark, CloseOwned, SweepDone, Disable,
                      StopAll, Stop, agentVars
  <2>6. ASSUME \/ \E w \in Waiters : WaitStep(w) \/ Scan(w) \/ GiveUp(w)
               \/ Enable \/ Prune
        PROVE  status' = status /\ closed' = closed /\ fleet' \subseteq fleet
    BY <2>6 DEF WaitStep, Scan, Woken, GiveUp, Enable, Prune, agentVars
  <2> QED
    BY <2>1, <2>3, <2>4, <2>5, <2>6 DEF Next
<1>2. CoordinatorInv => Typed
  BY DEF CoordinatorInv
<1> QED
  BY <1>1, <1>2, InvHolds, PTL DEF Spec, EndIsFinal
=============================================================================
