------------------------------ MODULE Scheduler ------------------------------
(***************************************************************************)
(* The task scheduler of internal/agent/scheduler.go: several Runs of one  *)
(* Scheduler share its permits, and a task may start a nested Run, which   *)
(* borrows the permit of the task that waits for it.                       *)
(*                                                                         *)
(* A Run is a goroutine that dispatches its ready tasks, each in a         *)
(* goroutine of its own, and waits for their results or for its context.   *)
(* One action is what such a goroutine does between two points where       *)
(* another one can see it: an operation on the shared semaphore, a receive *)
(* from the done channel, or a step of a task.                             *)
(***************************************************************************)
EXTENDS Integers, FiniteSets, SequencesExt

CONSTANTS
  Runs,       \* calls of Scheduler.Run
  Tasks,      \* all their tasks
  NoTask,
  RunOf,      \* [Tasks -> Runs]
  Rank,       \* [Tasks -> Nat]: the position of a task in the input
  Deps,       \* [Tasks -> SUBSET Tasks]: Task.Dependencies
  Spellings,  \* the sets of tasks that may have blanks around their ids
  Writes,     \* [Tasks -> SUBSET Paths]: Task.Writes, normalised
  Paths,      \* workspace-relative paths, as sequences of names; "." is <<>>
  Caller,     \* [Runs -> Tasks \cup {NoTask}]: the task that starts a nested run
  Ancestry,   \* [Runs -> SUBSET Runs]: the runs whose context a run inherits
  MaxLimit    \* bound on the values SetMax is given

VARIABLES
  padded,     \* the tasks that have blanks around their ids: part of the input
  pc,         \* where each Run is
  status,     \* runState.status of each task
  held,       \* the write claims of each Run: pairs of a path and its owner
  worker,     \* the goroutine of each task
  outcome,    \* what the executor returned
  done,       \* the done channel of each Run, oldest result first
  permits,    \* semaphore.held
  limit,      \* semaphore.limit
  cancelled   \* runs whose own context was cancelled

vars == <<padded, pc, status, held, worker, outcome, done, permits, limit, cancelled>>

TasksOf(r) == {t \in Tasks : RunOf[t] = r}
Terminal   == {"complete", "failed", "blocked", "cancelled"}
Over       == {"returned", "noProgress"}   \* the ends of a Run

\* What Validate accepts.  It compares ids without the blanks around them, and
\* so finds every dependency; but it looks for cycles from the ids as they are
\* written, and misses one that is reached from no id without blanks.
ASSUME GraphAssumption ==
  /\ RunOf \in [Tasks -> Runs]
  /\ Rank \in [Tasks -> Nat]
  /\ \A t, u \in Tasks : RunOf[t] = RunOf[u] /\ Rank[t] = Rank[u] => t = u
  /\ Deps \in [Tasks -> SUBSET Tasks]
  /\ \A t \in Tasks : \A d \in Deps[t] : RunOf[d] = RunOf[t]
  /\ Spellings \subseteq SUBSET Tasks
  /\ \A P \in Spellings, S \in SUBSET Tasks :
       ~(S \subseteq P) => \E t \in S : Deps[t] \cap S = {}
  /\ Writes \in [Tasks -> SUBSET Paths]

ASSUME NestingAssumption ==
  /\ IsFiniteSet(Tasks) /\ IsFiniteSet(Runs)
  /\ NoTask \notin Tasks
  /\ Caller \in [Runs -> Tasks \cup {NoTask}]
  /\ \A r, s \in Runs : Caller[r] = Caller[s] /\ Caller[r] # NoTask => r = s
  /\ \A r \in Runs : Ancestry[r] = {r} \cup (IF Caller[r] = NoTask THEN {}
                                             ELSE Ancestry[RunOf[Caller[r]]])
  /\ MaxLimit \in Nat \ {0}

-----------------------------------------------------------------------------
(* Readiness *)

\* Equal, or one contains the other; the root contains all.
PathsConflict(p, q) == p = q \/ IsPrefix(p, q) \/ IsPrefix(q, p)

\* Mutant: only equal paths conflict.
ConflictsExactly(t, claims) == \E w \in Writes[t], c \in claims : w = c[1]

Conflicts(t, claims) ==
  \E w \in Writes[t], c \in claims : PathsConflict(w, c[1])

\* The statuses are kept under the ids as written and looked up without blanks:
\* a padded task is never found, and counts as one that is not complete.
Found(t) == Deps[t] \ padded

DepsComplete(t) == \A d \in Deps[t] : d \in Found(t) /\ status[d] = "complete"

Ready(r) ==
  {t \in TasksOf(r) : /\ status[t] = "pending"
                      /\ DepsComplete(t)
                      /\ ~Conflicts(t, held[r])}

\* nextReady picks the first in input order.
IsNext(r, t) == t \in Ready(r) /\ \A u \in Ready(r) : Rank[t] <= Rank[u]

Running(r) == {t \in TasksOf(r) : status[t] = "running"}

CtxDone(r) == Ancestry[r] \cap cancelled # {}

\* Mutant: a failure is not passed on.
NoDownstream(t) == {}

\* failDependents: the pending tasks reached from t through pending tasks.
Downstream(t) ==
  LET pending == {u \in TasksOf(RunOf[t]) : status[u] = "pending"}
      covers(S) == \A u \in pending : Found(u) \cap (S \cup {t}) # {} => u \in S
  IN  {u \in pending : \A S \in SUBSET pending : covers(S) => u \in S}

-----------------------------------------------------------------------------
Init ==
  /\ padded    \in Spellings
  /\ pc        = [r \in Runs |-> "idle"]
  /\ status    = [t \in Tasks |-> "pending"]
  /\ held      = [r \in Runs |-> {}]
  /\ worker    = [t \in Tasks |-> "none"]
  /\ outcome   = [t \in Tasks |-> "none"]
  /\ done      = [r \in Runs |-> <<>>]
  /\ permits   = 0
  /\ limit     \in 1..MaxLimit
  /\ cancelled = {}

\* semaphore.release never counts below zero.
Released == IF permits > 0 THEN permits - 1 ELSE permits

\* A nested Run gives up the permit of the task it runs inside of.
Start(r) ==
  /\ pc[r] = "idle"
  /\ pc' = [pc EXCEPT ![r] = IF CtxDone(r) THEN "drain" ELSE "dispatch"]
  /\ IF Caller[r] = NoTask
     THEN UNCHANGED <<worker, permits>>
     ELSE /\ worker[Caller[r]] = "executing"
          /\ worker' = [worker EXCEPT ![Caller[r]] = "nested"]
          /\ permits' = Released
  /\ UNCHANGED <<padded, status, held, outcome, done, limit, cancelled>>

\* A permit was taken for t: its claims are recorded and its goroutine runs.
Launch(r, t) ==
  /\ permits < limit
  /\ permits' = permits + 1
  /\ status' = [status EXCEPT ![t] = "running"]
  /\ held' = [held EXCEPT ![r] = {c \in @ : c[1] \notin Writes[t]} \cup (Writes[t] \X {t})]
  /\ worker' = [worker EXCEPT ![t] = "executing"]
  /\ UNCHANGED <<padded, outcome, done, limit, cancelled>>

Dispatch(r, t) ==
  /\ pc[r] = "dispatch"
  /\ IsNext(r, t)
  /\ Launch(r, t)
  /\ UNCHANGED pc

\* Mutant: without a permit the Run always waits for a task of its own.
DispatchFullSelecting(r) ==
  /\ pc[r] = "dispatch"
  /\ Ready(r) # {}
  /\ permits >= limit
  /\ pc' = [pc EXCEPT ![r] = "select"]
  /\ UNCHANGED <<padded, status, held, worker, outcome, done, permits, limit, cancelled>>

\* No permit: wait for a task of this Run, or else for any permit at all.
DispatchFull(r) ==
  /\ pc[r] = "dispatch"
  /\ Ready(r) # {}
  /\ permits >= limit
  /\ pc' = [pc EXCEPT ![r] = IF Running(r) # {} THEN "select" ELSE "acquire"]
  /\ UNCHANGED <<padded, status, held, worker, outcome, done, permits, limit, cancelled>>

AcquireSlot(r, t) ==
  /\ pc[r] = "acquire"
  /\ IsNext(r, t)
  /\ Launch(r, t)
  /\ pc' = [pc EXCEPT ![r] = "dispatch"]

AcquireCancelled(r) ==
  /\ pc[r] = "acquire"
  /\ CtxDone(r)
  /\ pc' = [pc EXCEPT ![r] = "drain"]
  /\ UNCHANGED <<padded, status, held, worker, outcome, done, permits, limit, cancelled>>

\* Nothing (more) to start: wait for a result, finish, or report ErrNoProgress.
DispatchDone(r) ==
  /\ pc[r] = "dispatch"
  /\ Ready(r) = {}
  /\ pc' = [pc EXCEPT ![r] =
              IF Running(r) # {} THEN "select"
              ELSE IF \A t \in TasksOf(r) : status[t] # "pending" THEN "drain"
              ELSE "stuck"]
  /\ UNCHANGED <<padded, status, held, worker, outcome, done, permits, limit, cancelled>>

-----------------------------------------------------------------------------
(* Results *)

Verdict(t) ==
  IF outcome[t] = "ok" THEN "complete"
  ELSE IF outcome[t] = "ctx" THEN "cancelled" ELSE "failed"

\* Mutant: what follows a cancelled task is reported as blocked.
ApplyBlocking(r, t) ==
  LET downstream == IF Verdict(t) = "complete" THEN {} ELSE Downstream(t)
  IN  /\ held' = [held EXCEPT ![r] = {c \in @ : c[2] # t}]
      /\ status' = [u \in Tasks |-> IF u = t THEN Verdict(t)
                                    ELSE IF u \in downstream THEN "blocked"
                                    ELSE status[u]]

\* apply: free the claims, record the status, cascade a failure.
Apply(r, t) ==
  LET downstream == IF Verdict(t) = "complete" THEN {} ELSE Downstream(t)
      cause == IF Verdict(t) = "cancelled" THEN "cancelled" ELSE "blocked"
  IN  /\ held' = [held EXCEPT ![r] = {c \in @ : c[2] # t}]
      /\ status' = [u \in Tasks |-> IF u = t THEN Verdict(t)
                                    ELSE IF u \in downstream THEN cause
                                    ELSE status[u]]

\* The result that is next in the channel.
NextResult(r, t) == done[r] # <<>> /\ t = Head(done[r])

Receive(r, t) ==
  /\ pc[r] = "select"
  /\ NextResult(r, t)
  /\ done' = [done EXCEPT ![r] = Tail(@)]
  /\ Apply(r, t)
  /\ pc' = [pc EXCEPT ![r] = "dispatch"]
  /\ UNCHANGED <<padded, worker, outcome, permits, limit, cancelled>>

SelectCancelled(r) ==
  /\ pc[r] = "select"
  /\ CtxDone(r)
  /\ pc' = [pc EXCEPT ![r] = "drain"]
  /\ UNCHANGED <<padded, status, held, worker, outcome, done, permits, limit, cancelled>>

\* Mutant: the goroutines are not waited for.
JoinedByNobody(r) == TRUE

Joined(r) == \A t \in TasksOf(r) : worker[t] \in {"none", "exited"}

\* After wg.Wait the results still in the channel are applied one by one ...
DrainApply(r, t) ==
  /\ pc[r] = "drain"
  /\ Joined(r)
  /\ NextResult(r, t)
  /\ done' = [done EXCEPT ![r] = Tail(@)]
  /\ IF status[t] = "running" THEN Apply(r, t) ELSE UNCHANGED <<status, held>>
  /\ UNCHANGED <<padded, pc, worker, outcome, permits, limit, cancelled>>

\* Mutant: a nested Run does not take the permit back.
ReclaimNothing(r) ==
  /\ worker' = IF Caller[r] = NoTask THEN worker
               ELSE [worker EXCEPT ![Caller[r]] = "executing"]
  /\ UNCHANGED permits

\* However a nested Run ends, it takes its caller's permit back, free or not.
Reclaim(r) ==
  IF Caller[r] = NoTask
  THEN UNCHANGED <<worker, permits>>
  ELSE /\ worker' = [worker EXCEPT ![Caller[r]] = "executing"]
       /\ permits' = permits + 1

\* ... and Run returns.
Return(r) ==
  /\ pc[r] = "drain"
  /\ Joined(r)
  /\ done[r] = <<>>
  /\ pc' = [pc EXCEPT ![r] = "returned"]
  /\ status' = [t \in Tasks |->
                  IF t \in TasksOf(r) /\ CtxDone(r) /\ status[t] \in {"pending", "running"}
                  THEN "cancelled" ELSE status[t]]
  /\ Reclaim(r)
  /\ UNCHANGED <<padded, held, outcome, done, limit, cancelled>>

\* Run ends with ErrNoProgress, and does not wait: the goroutines whose results
\* it has may have their permits still.
ReportNoProgress(r) ==
  /\ pc[r] = "stuck"
  /\ pc' = [pc EXCEPT ![r] = "noProgress"]
  /\ Reclaim(r)
  /\ UNCHANGED <<padded, status, held, outcome, done, limit, cancelled>>

-----------------------------------------------------------------------------
(* Tasks, and the world outside *)

\* The executor returns, fails, panics or reports a context error: its own
\* context, or a deadline of a request it made.
Finish(t, o) ==
  /\ worker[t] = "executing"
  /\ worker' = [worker EXCEPT ![t] = "sent"]
  /\ outcome' = [outcome EXCEPT ![t] = o]
  /\ done' = [done EXCEPT ![RunOf[t]] = Append(@, t)]
  /\ UNCHANGED <<padded, pc, status, held, permits, limit, cancelled>>

\* The deferred release, then wg.Done.
Release(t) ==
  /\ worker[t] = "sent"
  /\ worker' = [worker EXCEPT ![t] = "exited"]
  /\ permits' = Released
  /\ UNCHANGED <<padded, pc, status, held, outcome, done, limit, cancelled>>

SetMax(n) ==
  /\ limit # n
  /\ limit' = n
  /\ UNCHANGED <<padded, pc, status, held, worker, outcome, done, permits, cancelled>>

Cancel(r) ==
  /\ pc[r] \notin Over
  /\ cancelled' = cancelled \cup {r}
  /\ UNCHANGED <<padded, pc, status, held, worker, outcome, done, permits, limit>>

Progress(r) ==
  \/ \E t \in Tasks : \/ Dispatch(r, t) \/ AcquireSlot(r, t)
                      \/ Receive(r, t) \/ DrainApply(r, t)
  \/ DispatchFull(r) \/ DispatchDone(r) \/ SelectCancelled(r)
  \/ Return(r) \/ ReportNoProgress(r)

Outcomes == {"ok", "error", "ctx"}

Next ==
  \/ \E r \in Runs : Start(r) \/ Progress(r) \/ AcquireCancelled(r) \/ Cancel(r)
  \/ \E t \in Tasks : Release(t) \/ \E o \in Outcomes : Finish(t, o)
  \/ \E n \in 1..MaxLimit : SetMax(n)

Spec == Init /\ [][Next]_vars

\* A Run that can go on does, and an executor returns some time.  Nothing is
\* promised about cancellation or SetMax, nor that a Run waiting in acquire
\* hears of its context's end: the next permit wakes it, and that suffices.
Fairness ==
  /\ \A r \in Runs : WF_vars(Progress(r))
  /\ \A t \in Tasks : WF_vars(Release(t) \/ \E o \in Outcomes : Finish(t, o))

FairSpec == Spec /\ Fairness
-----------------------------------------------------------------------------
(* Properties *)

Typed ==
  /\ padded \in Spellings
  /\ pc \in [Runs -> {"idle", "dispatch", "acquire", "select", "drain", "stuck"} \cup Over]
  /\ status \in [Tasks -> {"pending", "running"} \cup Terminal]
  /\ held \in [Runs -> SUBSET (Paths \X Tasks)]
  /\ worker \in [Tasks -> {"none", "executing", "nested", "sent", "exited"}]
  /\ outcome \in [Tasks -> Outcomes \cup {"none"}]
  /\ done \in [Runs -> Seq(Tasks)]
  /\ permits \in Nat
  /\ limit \in 1..MaxLimit
  /\ cancelled \subseteq Runs

\* Every variable has its type, and a done channel never holds more results
\* than it has room for, so no task's goroutine blocks while sending its own.
TypeOK == Typed /\ \A r \in Runs : Len(done[r]) <= Cardinality(TasksOf(r))

\* Inside its executor, a nested run included.
Active(t) == worker[t] \in {"executing", "nested"}

Overlap(t, u) == \E w \in Writes[t], x \in Writes[u] : PathsConflict(w, x)

\* Two tasks of one Run whose writes overlap are never inside their executors
\* at the same time, also not while one of them waits for a nested Run.
WriteExclusion ==
  \A t, u \in Tasks :
    t # u /\ RunOf[t] = RunOf[u] /\ Active(t) /\ Active(u) => ~Overlap(t, u)

\* No task starts, ever, before all it depends on is complete.
DependenciesFirst ==
  \A t \in Tasks : worker[t] # "none" => \A d \in Deps[t] : status[d] = "complete"

\* The semaphore's count is the number of tasks that hold a permit, however
\* Runs nest and whatever fails or is cancelled: none leaks, none is counted
\* twice, and so release never finds the counter at zero.
PermitHolders == {t \in Tasks : worker[t] \in {"executing", "sent"}}

PermitsMatchWorkers == permits = Cardinality(PermitHolders)

\* A Run returns only after all its goroutines ended, with a final status for
\* every task, whether it ran out of work, failed or was cancelled.
ReturnJoinsAll ==
  \A r \in Runs : pc[r] = "returned" =>
    \A t \in TasksOf(r) : worker[t] \in {"none", "exited"} /\ status[t] \in Terminal

\* A failure stops what depends on it and nothing else: a task is blocked by a
\* dependency that failed or was blocked; it is cancelled without running only
\* by a cancelled dependency or the end of its own context; and what depends
\* on a task that will not complete is dead as well, if it finds that task.
FailureContained ==
  \A t \in Tasks :
    /\ status[t] = "blocked" => \E d \in Deps[t] : status[d] \in {"failed", "blocked"}
    /\ status[t] = "cancelled" /\ worker[t] = "none" =>
         CtxDone(RunOf[t]) \/ \E d \in Deps[t] : status[d] = "cancelled"
    /\ \A d \in Found(t) : status[d] \in {"failed", "blocked", "cancelled"}
         => status[t] \in {"blocked", "cancelled"}

\* A Run ends with ErrNoProgress only for a task that depends on one whose id
\* has blanks around it, which Validate accepts and nobody finds: with ids such as
\* the planner leaves them there is always something to start or to wait for.
NeverStuck ==
  \A r \in Runs : pc[r] \in {"stuck", "noProgress"} =>
    \E t \in TasksOf(r) : status[t] = "pending" /\ Found(t) # Deps[t]

\* What the proofs need besides: where a task's goroutine is says what its
\* status may be, the channel holds what was sent and not applied ...
Results(r) == {done[r][i] : i \in DOMAIN done[r]}
Ended(r)   == {t \in TasksOf(r) : worker[t] \in {"sent", "exited"}}

WorkerInv ==
  \A t \in Tasks :
    /\ worker[t] = "none" => status[t] \in {"pending", "blocked", "cancelled"}
    /\ status[t] = "pending" => worker[t] = "none"
    /\ Active(t) => status[t] = "running"
    /\ status[t] = "running" => Active(t) \/ t \in Results(RunOf[t])

ResultInv ==
  \A r \in Runs :
    /\ \A t \in Results(r) : t \in Ended(r) /\ status[t] = "running"
    /\ \A i, j \in DOMAIN done[r] : done[r][i] = done[r][j] => i = j
    /\ Len(done[r]) <= Cardinality(Ended(r))

\* ... the claims held are those of the running tasks, which do not overlap ...
ClaimInv ==
  /\ \A r \in Runs :
       held[r] = {c \in Paths \X Tasks : /\ c[2] \in Running(r)
                                         /\ c[1] \in Writes[c[2]]}
  /\ \A t, u \in Tasks :
       t # u /\ RunOf[t] = RunOf[u] /\ status[t] = "running" /\ status[u] = "running"
         => ~Overlap(t, u)

\* ... and a Run stops dispatching with nothing pending or on cancellation,
\* while the task that started it waits.
RunInv ==
  \A r \in Runs :
    /\ pc[r] = "drain" /\ ~CtxDone(r) => \A t \in TasksOf(r) : status[t] # "pending"
    /\ pc[r] \notin {"idle"} \cup Over /\ Caller[r] # NoTask
         => worker[Caller[r]] = "nested"

SchedulerInv ==
  /\ WorkerInv /\ ResultInv /\ ClaimInv /\ RunInv
  /\ DependenciesFirst /\ FailureContained /\ ReturnJoinsAll /\ NeverStuck
  /\ PermitsMatchWorkers

\* A Run that has started returns: permits lent to nested Runs, limits lowered
\* and other Runs' tasks holding the permits never leave it waiting for good.
RunsReturn == \A r \in Runs : pc[r] # "idle" ~> pc[r] \in Over
-----------------------------------------------------------------------------
(* The tasks of all Runs use the permits as a pool of slots: a task lends its *)
(* own to the Run it started.                                                 *)

Lent == {t \in Tasks : worker[t] = "nested"}

Pool == INSTANCE SlotPool WITH Users <- Tasks, holders <- PermitHolders, lent <- Lent

\* No task of any Run takes a permit that is not free, and none but one that lent
\* its own exceeds the limit (scheduler.go dispatch, Run, semaphore.go).
PoolSpec == Pool!Spec
=============================================================================
