--------------------------- MODULE SchedulerProofs ---------------------------
(***************************************************************************)
(* Theorems about the scheduler, for any number of Runs, tasks and permits *)
(* and any dependencies and ids that Validate accepts.  One inductive invariant,   *)
(* SchedulerInv, carries them all; there is a lemma per kind of step.      *)
(***************************************************************************)
EXTENDS Scheduler, SequenceTheorems, FiniteSetTheorems, TLAPS

-----------------------------------------------------------------------------
(* Types *)

LEMMA ApplyTyped ==
  ASSUME Typed, NEW r \in Runs, NEW t \in Tasks, Apply(r, t)
  PROVE  /\ held' \in [Runs -> SUBSET (Paths \X Tasks)]
         /\ status' \in [Tasks -> {"pending", "running"} \cup Terminal]
BY DEF Typed, Apply, Verdict, Terminal

LEMMA LaunchTyped ==
  ASSUME Typed, NEW r \in Runs, NEW t \in Tasks, Launch(r, t)
  PROVE  /\ permits' \in Nat
         /\ status' \in [Tasks -> {"pending", "running"} \cup Terminal]
         /\ held' \in [Runs -> SUBSET (Paths \X Tasks)]
         /\ worker' \in [Tasks -> {"none", "executing", "nested", "sent", "exited"}]
<1>1. Writes[t] \X {t} \subseteq Paths \X Tasks
  BY GraphAssumption
<1>2. {c \in held[r] : c[1] \notin Writes[t]} \subseteq Paths \X Tasks
  BY DEF Typed
<1>3. held' \in [Runs -> SUBSET (Paths \X Tasks)]
  BY <1>1, <1>2 DEF Typed, Launch
<1> QED
  BY <1>3 DEF Typed, Launch

LEMMA ReclaimTyped ==
  ASSUME Typed, NEW r \in Runs, Reclaim(r)
  PROVE  /\ worker' \in [Tasks -> {"none", "executing", "nested", "sent", "exited"}]
         /\ permits' \in Nat
<1>1. /\ worker \in [Tasks -> {"none", "executing", "nested", "sent", "exited"}]
      /\ permits \in Nat
  BY DEF Typed
<1>2. CASE Caller[r] = NoTask
  BY <1>1, <1>2 DEF Reclaim
<1>3. CASE Caller[r] # NoTask
  <2>1. worker' = [worker EXCEPT ![Caller[r]] = "executing"] /\ permits' = permits + 1
    BY <1>3 DEF Reclaim
  <2>2. permits' \in Nat
    BY <1>1, <2>1
  <2>3. worker' \in [Tasks -> {"none", "executing", "nested", "sent", "exited"}]
    BY <1>1, <2>1
  <2> QED
    BY <2>2, <2>3
<1> QED
  BY <1>2, <1>3

LEMMA InitTyped == Init => Typed
BY EmptySeq, NestingAssumption DEF Init, Typed

LEMMA StepTyped == Typed /\ [Next]_vars => Typed'
<1> SUFFICES ASSUME Typed, [Next]_vars
             PROVE  Typed'
  OBVIOUS
<1>1. ASSUME NEW r \in Runs, Start(r)
      PROVE  Typed'
  <2>1. /\ worker' \in [Tasks -> {"none", "executing", "nested", "sent", "exited"}]
        /\ permits' \in Nat
    BY <1>1, NestingAssumption DEF Start, Typed, Released
  <2>2. pc' \in [Runs -> {"idle", "dispatch", "acquire", "select", "drain", "stuck"} \cup Over]
    BY <1>1 DEF Start, Typed
  <2> QED
    BY <1>1, <2>1, <2>2 DEF Start, Typed
<1>2. ASSUME NEW r \in Runs, NEW t \in Tasks, Dispatch(r, t) \/ AcquireSlot(r, t)
      PROVE  Typed'
  <2>1. Launch(r, t)
    BY <1>2 DEF Dispatch, AcquireSlot
  <2>2. UNCHANGED <<padded, outcome, done, limit, cancelled>>
    BY <2>1 DEF Launch
  <2>3. pc' \in [Runs -> {"idle", "dispatch", "acquire", "select", "drain", "stuck"} \cup Over]
    BY <1>2 DEF Dispatch, AcquireSlot, Typed
  <2> QED
    BY <2>1, <2>2, <2>3, LaunchTyped DEF Typed
<1>3. ASSUME NEW r \in Runs, NEW t \in Tasks, Receive(r, t) \/ DrainApply(r, t)
      PROVE  Typed'
  <2>1. done' \in [Runs -> Seq(Tasks)]
    <3>1. done[r] \in Seq(Tasks) /\ done[r] # <<>>
      BY <1>3 DEF Receive, DrainApply, NextResult, Typed
    <3>2. Tail(done[r]) \in Seq(Tasks)
      BY <3>1, HeadTailProperties
    <3> QED
      BY <1>3, <3>2 DEF Receive, DrainApply, Typed
  <2>2. Apply(r, t) \/ UNCHANGED <<status, held>>
    BY <1>3 DEF Receive, DrainApply
  <2>3. /\ held' \in [Runs -> SUBSET (Paths \X Tasks)]
        /\ status' \in [Tasks -> {"pending", "running"} \cup Terminal]
    BY <2>2, ApplyTyped DEF Typed
  <2> QED
    BY <1>3, <2>1, <2>3 DEF Receive, DrainApply, Typed
<1>4. ASSUME NEW r \in Runs, DispatchFull(r) \/ DispatchDone(r)
      PROVE  Typed'
  BY <1>4 DEF DispatchFull, DispatchDone, Typed
<1>5. ASSUME NEW r \in Runs, AcquireCancelled(r) \/ SelectCancelled(r)
      PROVE  Typed'
  BY <1>5 DEF AcquireCancelled, SelectCancelled, Typed
<1>6. ASSUME NEW r \in Runs, Return(r) \/ ReportNoProgress(r)
      PROVE  Typed'
  <2>1. status' \in [Tasks -> {"pending", "running"} \cup Terminal]
    BY <1>6 DEF Return, ReportNoProgress, Typed, Terminal
  <2>2. /\ worker' \in [Tasks -> {"none", "executing", "nested", "sent", "exited"}]
        /\ permits' \in Nat
    <3>1. Reclaim(r)
      BY <1>6 DEF Return, ReportNoProgress
    <3> QED
      BY <3>1, ReclaimTyped
  <2>3. pc' \in [Runs -> {"idle", "dispatch", "acquire", "select", "drain", "stuck"} \cup Over]
    BY <1>6 DEF Return, ReportNoProgress, Typed, Over
  <2> QED
    BY <1>6, <2>1, <2>2, <2>3 DEF Return, ReportNoProgress, Typed
<1>7. ASSUME NEW r \in Runs, Cancel(r)
      PROVE  Typed'
  BY <1>7 DEF Cancel, Typed
<1>8. ASSUME NEW t \in Tasks, Release(t)
      PROVE  Typed'
  BY <1>8 DEF Release, Typed, Released
<1>9. ASSUME NEW t \in Tasks, NEW o \in Outcomes, Finish(t, o)
      PROVE  Typed'
  <2>1. RunOf[t] \in Runs /\ Append(done[RunOf[t]], t) \in Seq(Tasks)
    BY GraphAssumption, AppendProperties DEF Typed
  <2> QED
    BY <1>9, <2>1 DEF Finish, Typed
<1>10. CASE (\E n \in 1..MaxLimit : SetMax(n)) \/ UNCHANGED vars
  BY <1>10 DEF SetMax, vars, Typed
<1> QED
  BY <1>1, <1>2, <1>3, <1>4, <1>5, <1>6, <1>7, <1>8, <1>9, <1>10 DEF Next, Progress

-----------------------------------------------------------------------------
(* Lemmas about the graph and the permits *)

\* The cascade reaches every pending task that depends on what it reached.
LEMMA DownstreamCovers ==
  ASSUME NEW t, NEW u \in TasksOf(RunOf[t]), status[u] = "pending",
         Found(u) \cap (Downstream(t) \cup {t}) # {}
  PROVE  u \in Downstream(t)
<1> DEFINE pending == {v \in TasksOf(RunOf[t]) : status[v] = "pending"}
           covers(S) == \A v \in pending : Found(v) \cap (S \cup {t}) # {} => v \in S
<1>1. Downstream(t) = {v \in pending : \A S \in SUBSET pending : covers(S) => v \in S}
  BY DEF Downstream
<1>2. ASSUME NEW S \in SUBSET pending, covers(S)
      PROVE  u \in S
  <2>1. Downstream(t) \subseteq S
    BY <1>1, <1>2
  <2>2. Found(u) \cap (S \cup {t}) # {}
    BY <2>1
  <2> QED
    BY <1>2, <2>2
<1> QED
  BY <1>1, <1>2

\* It reaches nothing else: each task it reaches is pending and depends on the
\* task it started from or on another one it reached.
LEMMA DownstreamCause ==
  ASSUME NEW t, NEW u \in Downstream(t)
  PROVE  /\ u \in Tasks /\ RunOf[u] = RunOf[t] /\ status[u] = "pending"
         /\ Found(u) \cap (Downstream(t) \cup {t}) # {}
<1> DEFINE pending == {v \in TasksOf(RunOf[t]) : status[v] = "pending"}
           covers(S) == \A v \in pending : Found(v) \cap (S \cup {t}) # {} => v \in S
           D == Downstream(t)
<1>1. D = {v \in pending : \A S \in SUBSET pending : covers(S) => v \in S}
  BY DEF Downstream
<1>2. u \in pending
  BY <1>1
<1>3. SUFFICES ASSUME Found(u) \cap (D \cup {t}) = {}
               PROVE  FALSE
  BY <1>2 DEF TasksOf
<1>4. ASSUME NEW v \in pending, Found(v) \cap ((D \ {u}) \cup {t}) # {}
      PROVE  v \in D \ {u}
  <2>1. v \in D
    BY <1>4, DownstreamCovers
  <2>2. v # u
    BY <1>3, <1>4
  <2> QED
    BY <2>1, <2>2
<1>5. covers(D \ {u}) /\ D \ {u} \in SUBSET pending
  BY <1>1, <1>4
<1>6. u \in D \ {u}
  BY <1>1, <1>5
<1> QED
  BY <1>6

LEMMA FiniteTasks ==
  ASSUME NEW S \in SUBSET Tasks
  PROVE  IsFiniteSet(S) /\ Cardinality(S) \in Nat
BY NestingAssumption, FS_Subset, FS_CardinalityType

\* A task that comes to hold a permit, or ceases to, counts for one.
LEMMA HolderAdded ==
  ASSUME PermitsMatchWorkers, NEW t \in Tasks, t \notin PermitHolders,
         PermitHolders' = PermitHolders \cup {t}, permits' = permits + 1
  PROVE  PermitsMatchWorkers'
<1>1. Cardinality(PermitHolders \cup {t}) = Cardinality(PermitHolders) + 1
  BY FS_AddElement, FiniteTasks DEF PermitHolders
<1> QED
  BY <1>1 DEF PermitsMatchWorkers

LEMMA HolderRemoved ==
  ASSUME PermitsMatchWorkers, NEW t \in PermitHolders,
         PermitHolders' = PermitHolders \ {t}, permits' = Released
  PROVE  PermitsMatchWorkers'
<1>1. IsFiniteSet(PermitHolders) /\ Cardinality(PermitHolders) \in Nat
  BY FiniteTasks DEF PermitHolders
<1>2. Cardinality(PermitHolders \ {t}) = Cardinality(PermitHolders) - 1
  BY <1>1, FS_RemoveElement
<1>3. Cardinality(PermitHolders) # 0
  BY <1>1, FS_EmptySet
<1> QED
  BY <1>1, <1>2, <1>3 DEF PermitsMatchWorkers, Released

-----------------------------------------------------------------------------
(* The invariant *)

LEMMA InitScheduler == Init => SchedulerInv
<1> SUFFICES ASSUME Init
             PROVE  SchedulerInv
  OBVIOUS
<1>1. WorkerInv
  BY DEF Init, WorkerInv, Active
<1>2. ResultInv
  <2>1. ASSUME NEW r \in Runs
        PROVE  done[r] = <<>> /\ Len(done[r]) = 0 /\ DOMAIN done[r] = {}
    BY DEF Init
  <2>2. ASSUME NEW r \in Runs
        PROVE  Cardinality(Ended(r)) \in Nat
    BY FiniteTasks DEF Ended, TasksOf
  <2> QED
    BY <2>1, <2>2 DEF ResultInv, Results
<1>3. ClaimInv
  BY DEF Init, ClaimInv, Running
<1>4. PermitsMatchWorkers
  <2>1. PermitHolders = {}
    BY DEF Init, PermitHolders
  <2> QED
    BY <2>1, FS_EmptySet DEF Init, PermitsMatchWorkers
<1>5. RunInv /\ ReturnJoinsAll /\ NeverStuck
  BY DEF Init, RunInv, ReturnJoinsAll, NeverStuck
<1>6. DependenciesFirst /\ FailureContained
  BY GraphAssumption DEF Init, DependenciesFirst, FailureContained, Found
<1> QED
  BY <1>1, <1>2, <1>3, <1>4, <1>5, <1>6 DEF SchedulerInv

\* A step that leaves the tasks alone disturbs only what is said of Runs.
LEMMA TasksUntouched ==
  ASSUME SchedulerInv, UNCHANGED <<padded, status, held, worker, done, permits>>,
         cancelled \subseteq cancelled'
  PROVE  /\ WorkerInv' /\ ResultInv' /\ ClaimInv' /\ PermitsMatchWorkers'
         /\ DependenciesFirst' /\ FailureContained'
<1>1. WorkerInv' /\ ResultInv'
  <2>1. \A r : Results(r)' = Results(r)
    BY DEF Results
  <2>2. \A r : Ended(r)' = Ended(r)
    BY DEF Ended, TasksOf
  <2>3. \A t : Active(t)' = Active(t)
    BY DEF Active
  <2>4. WorkerInv'
    BY <2>1, <2>3 DEF SchedulerInv, WorkerInv
  <2>5. ResultInv'
    BY <2>1, <2>2 DEF SchedulerInv, ResultInv
  <2> QED
    BY <2>4, <2>5
<1>2. ClaimInv'
  BY DEF SchedulerInv, ClaimInv, Running, TasksOf, Overlap
<1>3. PermitsMatchWorkers'
  BY DEF SchedulerInv, PermitsMatchWorkers, PermitHolders
<1>4. DependenciesFirst'
  BY DEF SchedulerInv, DependenciesFirst
<1>5. FailureContained'
  <2>1. \A r : CtxDone(r) => CtxDone(r)'
    BY DEF CtxDone
  <2>2. \A t : Found(t)' = Found(t)
    BY DEF Found
  <2> QED
    BY <2>1, <2>2 DEF SchedulerInv, FailureContained
<1> QED
  BY <1>1, <1>2, <1>3, <1>4, <1>5

LEMMA OutsideKeepsInv ==
  ASSUME Typed, SchedulerInv,
         (\E r \in Runs : Cancel(r)) \/ (\E n \in 1..MaxLimit : SetMax(n)) \/ UNCHANGED vars
  PROVE  SchedulerInv'
<1>1. UNCHANGED <<padded, pc, status, held, worker, done, permits>> /\ cancelled \subseteq cancelled'
  BY DEF Cancel, SetMax, vars
<1>2. RunInv'
  <2>1. \A r : CtxDone(r) => CtxDone(r)'
    BY <1>1 DEF CtxDone
  <2> QED
    BY <1>1, <2>1 DEF SchedulerInv, RunInv, TasksOf
<1>3. ReturnJoinsAll' /\ NeverStuck'
  BY <1>1 DEF SchedulerInv, ReturnJoinsAll, NeverStuck, Found, TasksOf
<1> QED
  BY <1>1, <1>2, <1>3, TasksUntouched DEF SchedulerInv

\* A step that changes no status, no claim and no result, and moves workers
\* only between "executing" and "nested" or from "sent" to "exited".
LEMMA WorkersMoved ==
  ASSUME SchedulerInv, UNCHANGED <<padded, status, held, done, cancelled>>,
         \A t \in Tasks : Active(t)' = Active(t),
         \A t \in Tasks : worker'[t] = "none" <=> worker[t] = "none",
         \A t \in Tasks : worker'[t] \in {"sent", "exited"} <=> worker[t] \in {"sent", "exited"}
  PROVE  WorkerInv' /\ ResultInv' /\ ClaimInv' /\ DependenciesFirst' /\ FailureContained'
<1>1. \A r : Results(r)' = Results(r) /\ Running(r)' = Running(r) /\ CtxDone(r)' = CtxDone(r)
  BY DEF Results, Running, CtxDone, TasksOf
<1>2. \A r : Ended(r)' = Ended(r)
  BY DEF Ended, TasksOf
<1>3. WorkerInv'
  BY <1>1 DEF SchedulerInv, WorkerInv
<1>4. ResultInv'
  BY <1>1, <1>2 DEF SchedulerInv, ResultInv
<1>5. ClaimInv'
  BY <1>1 DEF SchedulerInv, ClaimInv, Overlap
<1>6. DependenciesFirst'
  BY GraphAssumption DEF SchedulerInv, DependenciesFirst
<1>7. FailureContained'
  <2>1. \A t : Found(t)' = Found(t)
    BY DEF Found
  <2> QED
    BY <1>1, <2>1, GraphAssumption DEF SchedulerInv, FailureContained
<1> QED
  BY <1>3, <1>4, <1>5, <1>6, <1>7

\* The task that calls a nested Run.
LEMMA CallerIsTask ==
  ASSUME NEW r \in Runs, Caller[r] # NoTask
  PROVE  Caller[r] \in Tasks /\ \A s \in Runs : Caller[s] = Caller[r] => s = r
BY NestingAssumption

LEMMA StartKeepsInv ==
  ASSUME Typed, SchedulerInv, NEW r \in Runs, Start(r)
  PROVE  SchedulerInv'
<1> DEFINE c == Caller[r]
<1>1. UNCHANGED <<padded, status, held, done, cancelled>>
  BY DEF Start
<1>2. c # NoTask => worker[c] = "executing" /\ worker' = [worker EXCEPT ![c] = "nested"]
  BY DEF Start
<1>3. c = NoTask => worker' = worker /\ permits' = permits
  BY DEF Start
<1>4. \A t \in Tasks : /\ t # c => worker'[t] = worker[t]
                       /\ t = c /\ c # NoTask => worker'[t] = "nested"
                       /\ c = NoTask => worker'[t] = worker[t]
  BY <1>2, <1>3 DEF Typed
<1>5. /\ \A t \in Tasks : Active(t)' = Active(t)
      /\ \A t \in Tasks : worker'[t] = "none" <=> worker[t] = "none"
      /\ \A t \in Tasks : worker'[t] \in {"sent", "exited"} <=> worker[t] \in {"sent", "exited"}
  BY <1>2, <1>4 DEF Active
<1>6. WorkerInv' /\ ResultInv' /\ ClaimInv' /\ DependenciesFirst' /\ FailureContained'
  BY <1>1, <1>5, WorkersMoved
<1>7. PermitsMatchWorkers'
  <2>1. CASE c = NoTask
    BY <1>3, <2>1 DEF SchedulerInv, PermitsMatchWorkers, PermitHolders
  <2>2. CASE c # NoTask
    <3>1. c \in PermitHolders /\ permits' = Released
      BY <1>2, <2>2, CallerIsTask DEF PermitHolders, Start
    <3>2. PermitHolders' = PermitHolders \ {c}
      BY <1>2, <1>4, <2>2 DEF PermitHolders
    <3> QED
      BY <3>1, <3>2, HolderRemoved DEF SchedulerInv
  <2> QED
    BY <2>1, <2>2
<1>8. /\ pc' = [pc EXCEPT ![r] = IF CtxDone(r) THEN "drain" ELSE "dispatch"]
      /\ pc[r] = "idle"
      /\ \A s : CtxDone(s)' = CtxDone(s)
  BY <1>1 DEF Start, CtxDone
<1>9. RunInv'
  <2> SUFFICES ASSUME NEW s \in Runs
               PROVE  /\ pc'[s] = "drain" /\ ~CtxDone(s)' => \A t \in TasksOf(s) : status'[t] # "pending"
                      /\ pc'[s] \notin {"idle"} \cup Over /\ Caller[s] # NoTask
                           => worker'[Caller[s]] = "nested"
    BY DEF RunInv, TasksOf
  <2>1. CASE s = r
    BY <1>4, <1>8, <2>1, CallerIsTask DEF Typed
  <2>2. CASE s # r
    BY <1>1, <1>4, <1>8, <2>2, CallerIsTask DEF Typed, SchedulerInv, RunInv
  <2> QED
    BY <2>1, <2>2
<1>10. ReturnJoinsAll'
  <2> SUFFICES ASSUME NEW s \in Runs, pc'[s] = "returned", NEW t \in TasksOf(s)
               PROVE  worker'[t] \in {"none", "exited"} /\ status'[t] \in Terminal
    BY DEF ReturnJoinsAll, TasksOf
  <2>1. pc[s] = "returned" /\ t \in Tasks
    BY <1>8 DEF Typed, TasksOf
  <2>2. worker[t] \in {"none", "exited"} /\ status[t] \in Terminal
    BY <2>1 DEF SchedulerInv, ReturnJoinsAll
  <2> QED
    BY <1>1, <1>2, <1>4, <2>1, <2>2
<1>11. NeverStuck'
  BY <1>1, <1>8 DEF Typed, SchedulerInv, NeverStuck, Found, TasksOf
<1> QED
  BY <1>6, <1>7, <1>9, <1>10, <1>11 DEF SchedulerInv

LEMMA ReleaseKeepsInv ==
  ASSUME Typed, SchedulerInv, NEW t \in Tasks, Release(t)
  PROVE  SchedulerInv'
<1>1. /\ worker[t] = "sent" /\ worker' = [worker EXCEPT ![t] = "exited"]
      /\ permits' = Released
      /\ UNCHANGED <<padded, pc, status, held, done, cancelled>>
  BY DEF Release
<1>2. worker'[t] = "exited" /\ \A u \in Tasks : u # t => worker'[u] = worker[u]
  BY <1>1 DEF Typed
<1>3. /\ \A u \in Tasks : Active(u)' = Active(u)
      /\ \A u \in Tasks : worker'[u] = "none" <=> worker[u] = "none"
      /\ \A u \in Tasks : worker'[u] \in {"sent", "exited"} <=> worker[u] \in {"sent", "exited"}
  BY <1>1, <1>2 DEF Active
<1>4. WorkerInv' /\ ResultInv' /\ ClaimInv' /\ DependenciesFirst' /\ FailureContained'
  BY <1>1, <1>3, WorkersMoved
<1>5. PermitsMatchWorkers'
  <2>1. t \in PermitHolders /\ PermitHolders' = PermitHolders \ {t}
    BY <1>1, <1>2 DEF PermitHolders
  <2> QED
    BY <1>1, <2>1, HolderRemoved DEF SchedulerInv
<1>6. RunInv'
  BY <1>1, <1>2, CallerIsTask DEF SchedulerInv, RunInv, CtxDone, TasksOf
<1>7. ReturnJoinsAll' /\ NeverStuck'
  BY <1>1, <1>2 DEF SchedulerInv, ReturnJoinsAll, NeverStuck, Found, TasksOf
<1> QED
  BY <1>4, <1>5, <1>6, <1>7 DEF SchedulerInv

\* Starting a task: its writes overlap with those of no running task.
LEMMA LaunchClaims ==
  ASSUME Typed, SchedulerInv, NEW r \in Runs, NEW t \in Tasks, t \in Ready(r), Launch(r, t)
  PROVE  ClaimInv'
<1>1. /\ RunOf[t] = r /\ status[t] = "pending" /\ ~Conflicts(t, held[r])
      /\ \A u \in Tasks : status'[u] = IF u = t THEN "running" ELSE status[u]
  BY DEF Ready, TasksOf, Launch, Typed
<1>2. \A s \in Runs : Running(s)' = IF s = r THEN Running(s) \cup {t} ELSE Running(s)
  BY <1>1 DEF Running, TasksOf
<1>3. \A c \in held[r] : c[1] \notin Writes[t]
  BY <1>1 DEF Conflicts, PathsConflict
<1>4. held' = [held EXCEPT ![r] = held[r] \cup (Writes[t] \X {t})]
  <2>1. {c \in held[r] : c[1] \notin Writes[t]} = held[r]
    BY <1>3
  <2> QED
    BY <2>1 DEF Launch
<1>5. ASSUME NEW s \in Runs
      PROVE  held'[s] = {c \in Paths \X Tasks : c[2] \in Running(s)' /\ c[1] \in Writes[c[2]]}
  <2>1. held[s] = {c \in Paths \X Tasks : c[2] \in Running(s) /\ c[1] \in Writes[c[2]]}
    BY DEF SchedulerInv, ClaimInv
  <2>2. CASE s # r
    BY <1>2, <1>4, <2>1, <2>2 DEF Typed
  <2>3. CASE s = r
    <3>1. held'[s] = held[s] \cup (Writes[t] \X {t})
      BY <1>4, <2>3 DEF Typed
    <3>2. Writes[t] \X {t} = {c \in Paths \X Tasks : c[2] = t /\ c[1] \in Writes[c[2]]}
      BY GraphAssumption
    <3> QED
      BY <1>2, <2>1, <2>3, <3>1, <3>2
  <2> QED
    BY <2>2, <2>3
<1>6. ASSUME NEW u \in Tasks, RunOf[u] = r, status[u] = "running"
      PROVE  ~Overlap(t, u) /\ ~Overlap(u, t)
  <2>1. ASSUME NEW w \in Writes[t], NEW x \in Writes[u]
        PROVE  ~PathsConflict(w, x)
    <3>1. <<x, u>> \in held[r]
      BY <1>6, GraphAssumption DEF SchedulerInv, ClaimInv, Running, TasksOf
    <3> QED
      BY <1>1, <3>1 DEF Conflicts
  <2> QED
    BY <2>1 DEF Overlap, PathsConflict
<1>7. ASSUME NEW v \in Tasks, NEW u \in Tasks, v # u, RunOf[v] = RunOf[u],
             status'[v] = "running", status'[u] = "running"
      PROVE  ~Overlap(v, u)
  BY <1>1, <1>6, <1>7 DEF SchedulerInv, ClaimInv
<1> QED
  BY <1>5, <1>7 DEF ClaimInv, Overlap

LEMMA LaunchKeepsInv ==
  ASSUME Typed, SchedulerInv, NEW r \in Runs, NEW t \in Tasks,
         Dispatch(r, t) \/ AcquireSlot(r, t)
  PROVE  SchedulerInv'
<1>1. /\ t \in Ready(r) /\ Launch(r, t) /\ pc[r] \in {"dispatch", "acquire"}
      /\ pc' = [pc EXCEPT ![r] = "dispatch"]
  BY DEF Dispatch, AcquireSlot, IsNext, Typed
<1>2. RunOf[t] = r /\ status[t] = "pending" /\ DepsComplete(t) /\ worker[t] = "none"
  BY <1>1 DEF Ready, TasksOf, SchedulerInv, WorkerInv
<1>3. /\ \A u \in Tasks : status'[u] = IF u = t THEN "running" ELSE status[u]
      /\ \A u \in Tasks : worker'[u] = IF u = t THEN "executing" ELSE worker[u]
      /\ permits' = permits + 1 /\ done' = done /\ cancelled' = cancelled
      /\ \A u : Found(u)' = Found(u)
  BY <1>1 DEF Launch, Typed, Found
<1>4. /\ \A s \in Runs : Results(s)' = Results(s) /\ Ended(s)' = Ended(s)
      /\ \A s : CtxDone(s)' = CtxDone(s)
  BY <1>2, <1>3 DEF Results, Ended, TasksOf, CtxDone
<1>5. WorkerInv'
  BY <1>3, <1>4, GraphAssumption DEF SchedulerInv, WorkerInv, Active
<1>6. ResultInv'
  <2>1. \A s \in Runs : t \notin Results(s)
    BY <1>2 DEF SchedulerInv, ResultInv
  <2>2. \A s \in Runs : \A u \in Results(s) : u \in Tasks
    BY DEF SchedulerInv, ResultInv, Ended, TasksOf
  <2> QED
    BY <1>3, <1>4, <2>1, <2>2 DEF SchedulerInv, ResultInv
<1>7. ClaimInv'
  BY <1>1, LaunchClaims
<1>8. PermitsMatchWorkers'
  <2>1. t \notin PermitHolders /\ PermitHolders' = PermitHolders \cup {t}
    BY <1>2, <1>3 DEF PermitHolders
  <2> QED
    BY <1>3, <2>1, HolderAdded DEF SchedulerInv
<1>9. DependenciesFirst'
  BY <1>2, <1>3, GraphAssumption DEF SchedulerInv, DependenciesFirst, DepsComplete
<1>10. FailureContained'
  <2> SUFFICES ASSUME NEW u \in Tasks
               PROVE  /\ status'[u] = "blocked" => \E d \in Deps[u] : status'[d] \in {"failed", "blocked"}
                      /\ status'[u] = "cancelled" /\ worker'[u] = "none" =>
                           CtxDone(RunOf[u])' \/ \E d \in Deps[u] : status'[d] = "cancelled"
                      /\ \A d \in Found(u) : status'[d] \in {"failed", "blocked", "cancelled"}
                           => status'[u] \in {"blocked", "cancelled"}
    BY <1>3 DEF FailureContained
  <2>1. /\ \A d \in Deps[u] : d \in Tasks
        /\ Found(u) \subseteq Deps[u]
    BY GraphAssumption DEF Found
  <2>2. CASE u = t
    <3>1. \A d \in Deps[u] : status'[d] \notin {"failed", "blocked", "cancelled"}
      BY <1>2, <1>3, <2>1, <2>2 DEF DepsComplete
    <3> QED
      BY <1>3, <2>1, <2>2, <3>1
  <2>3. CASE u # t
    BY <1>2, <1>3, <1>4, <2>1, <2>3 DEF SchedulerInv, FailureContained
  <2> QED
    BY <2>2, <2>3
<1>11. RunInv'
  <2> SUFFICES ASSUME NEW s \in Runs
               PROVE  /\ pc'[s] = "drain" /\ ~CtxDone(s)' => \A u \in TasksOf(s) : status'[u] # "pending"
                      /\ pc'[s] \notin {"idle"} \cup Over /\ Caller[s] # NoTask
                           => worker'[Caller[s]] = "nested"
    BY DEF RunInv, TasksOf
  <2>1. pc'[s] = IF s = r THEN "dispatch" ELSE pc[s]
    BY <1>1 DEF Typed
  <2>2. Caller[s] # NoTask /\ pc'[s] \notin {"idle"} \cup Over => worker[Caller[s]] = "nested"
    BY <1>1, <2>1 DEF SchedulerInv, RunInv, Over
  <2>3. Caller[s] # NoTask /\ pc'[s] \notin {"idle"} \cup Over => worker'[Caller[s]] = "nested"
    BY <1>2, <1>3, <2>2, CallerIsTask
  <2>4. pc'[s] = "drain" /\ ~CtxDone(s)' => \A u \in TasksOf(s) : status'[u] # "pending"
    BY <1>3, <1>4, <2>1 DEF SchedulerInv, RunInv, TasksOf
  <2> QED
    BY <2>3, <2>4
<1>12. ReturnJoinsAll'
  <2> SUFFICES ASSUME NEW s \in Runs, pc'[s] = "returned", NEW u \in TasksOf(s)
               PROVE  worker'[u] \in {"none", "exited"} /\ status'[u] \in Terminal
    BY DEF ReturnJoinsAll, TasksOf
  <2>1. s # r /\ pc[s] = "returned" /\ u \in Tasks /\ u # t
    BY <1>1, <1>2 DEF Typed, TasksOf
  <2> QED
    BY <1>3, <2>1 DEF SchedulerInv, ReturnJoinsAll
<1>13. NeverStuck'
  <2>1. \A s \in Runs : pc'[s] \in {"stuck", "noProgress"} => s # r /\ pc[s] = pc'[s]
    BY <1>1 DEF Typed
  <2>2. \A s \in Runs : \A u \in TasksOf(s) : s # r => status'[u] = status[u]
    BY <1>2, <1>3 DEF TasksOf
  <2> QED
    BY <1>3, <2>1, <2>2 DEF SchedulerInv, NeverStuck, TasksOf
<1> QED
  BY <1>5, <1>6, <1>7, <1>8, <1>9, <1>10, <1>11, <1>12, <1>13 DEF SchedulerInv

\* A Run that has nothing ready and nothing running has nothing pending, or a
\* task that does not find what it depends on: among the others there is no cycle,
\* and no dead task has a pending dependent.
LEMMA NothingPending ==
  ASSUME Typed, SchedulerInv, NEW r \in Runs, Ready(r) = {}, Running(r) = {},
         \A t \in TasksOf(r) : status[t] = "pending" => Found(t) = Deps[t]
  PROVE  \A t \in TasksOf(r) : status[t] # "pending"
<1> DEFINE S == {t \in TasksOf(r) : status[t] = "pending"}
<1>1. SUFFICES ASSUME S # {}
               PROVE  FALSE
  OBVIOUS
<1>2. PICK t \in S : Deps[t] \cap S = {}
  <2>1. CASE S \subseteq padded
    BY <1>1, <2>1 DEF Found
  <2>2. CASE ~(S \subseteq padded)
    <3>1. S \in SUBSET Tasks /\ padded \in Spellings
      BY DEF TasksOf, Typed
    <3>2. \A P \in Spellings, T \in SUBSET Tasks :
            ~(T \subseteq P) => \E t \in T : Deps[t] \cap T = {}
      BY GraphAssumption
    <3> HIDE DEF S
    <3> QED
      BY <2>2, <3>1, <3>2
  <2> QED
    BY <2>1, <2>2
<1>3. ASSUME NEW d \in Deps[t]
      PROVE  d \in Found(t) /\ status[d] = "complete"
  <2>1. /\ d \in TasksOf(r) /\ t \in Tasks /\ status[t] = "pending"
        /\ d \in Found(t)
    BY GraphAssumption DEF TasksOf
  <2>2. status[d] \notin {"pending", "running"}
    BY <1>2, <2>1 DEF Running
  <2>3. status[d] \notin {"failed", "blocked", "cancelled"}
    BY <2>1 DEF SchedulerInv, FailureContained
  <2> QED
    BY <2>1, <2>2, <2>3 DEF Typed, Terminal, TasksOf
<1>4. ~Conflicts(t, held[r])
  BY DEF SchedulerInv, ClaimInv, Conflicts
<1> QED
  BY <1>3, <1>4 DEF Ready, DepsComplete

LEMMA WaitKeepsInv ==
  ASSUME Typed, SchedulerInv, NEW r \in Runs,
         DispatchFull(r) \/ DispatchDone(r) \/ AcquireCancelled(r) \/ SelectCancelled(r)
  PROVE  SchedulerInv'
<1> DEFINE Lost(t) == status[t] = "pending" /\ Found(t) # Deps[t]
<1>1. UNCHANGED <<padded, status, held, worker, done, permits, cancelled>>
  BY DEF DispatchFull, DispatchDone, AcquireCancelled, SelectCancelled
<1>2. /\ pc[r] \notin {"idle"} \cup Over
      /\ pc'[r] \in {"select", "acquire", "drain", "stuck"}
      /\ pc'[r] = "drain" => CtxDone(r) \/ \A t \in TasksOf(r) : status[t] # "pending"
      /\ pc'[r] = "stuck" => \E t \in TasksOf(r) : Lost(t)
      /\ \A s \in Runs : s # r => pc'[s] = pc[s]
  <2>1. CASE DispatchFull(r)
    BY <2>1 DEF DispatchFull, Typed, Over
  <2>2. CASE DispatchDone(r)
    <3>1. \/ Running(r) # {} \/ \A t \in TasksOf(r) : status[t] # "pending"
          \/ \E t \in TasksOf(r) : Lost(t)
      BY <2>2, NothingPending DEF DispatchDone
    <3> HIDE DEF Lost
    <3> QED
      BY <2>2, <3>1 DEF DispatchDone, Typed, Over
  <2>3. CASE AcquireCancelled(r) \/ SelectCancelled(r)
    BY <2>3 DEF AcquireCancelled, SelectCancelled, Typed, Over
  <2> QED
    BY <2>1, <2>2, <2>3
<1>3. RunInv'
  BY <1>1, <1>2 DEF SchedulerInv, RunInv, CtxDone, TasksOf, Over
<1>4. ReturnJoinsAll'
  BY <1>1, <1>2 DEF SchedulerInv, ReturnJoinsAll, TasksOf
<1>5. NeverStuck'
  <2>1. \A t : Found(t)' = Found(t)
    BY <1>1 DEF Found
  <2> QED
    BY <1>1, <1>2, <2>1 DEF SchedulerInv, NeverStuck, TasksOf
<1> QED
  BY <1>1, <1>3, <1>4, <1>5, TasksUntouched DEF SchedulerInv

\* Taking the first result leaves the others.
LEMMA TailResults ==
  ASSUME Typed, SchedulerInv, NEW r \in Runs, NEW t \in Tasks, NextResult(r, t),
         done' = [done EXCEPT ![r] = Tail(@)]
  PROVE  /\ t \in Results(r)
         /\ Results(r)' = Results(r) \ {t}
         /\ \A s \in Runs : s # r => Results(s)' = Results(s)
         /\ \A s \in Runs : \A i, j \in DOMAIN done'[s] : done'[s][i] = done'[s][j] => i = j
         /\ \A s \in Runs : Len(done'[s]) <= Len(done[s])
<1> DEFINE d == done[r]
<1>1. d \in Seq(Tasks) /\ d # <<>> /\ t = d[1]
  BY DEF NextResult, Typed
<1>2. Tail(d) \in Seq(Tasks) /\ Len(Tail(d)) = Len(d) - 1
      /\ \A i \in 1..Len(Tail(d)) : Tail(d)[i] = d[i + 1]
  BY <1>1, HeadTailProperties
<1>3. Len(d) \in Nat /\ Len(d) > 0 /\ DOMAIN d = 1..Len(d) /\ DOMAIN Tail(d) = 1..(Len(d) - 1)
  BY <1>1, <1>2, EmptySeq
<1>4. \A i, j \in 1..Len(d) : d[i] = d[j] => i = j
  BY <1>3 DEF SchedulerInv, ResultInv
<1>5. done'[r] = Tail(d) /\ \A s \in Runs : s # r => done'[s] = done[s]
  BY DEF Typed
<1>6. t \in Results(r)
  BY <1>1, <1>3 DEF Results
<1>7. Results(r)' = Results(r) \ {t}
  <2>1. Results(r) = {d[i] : i \in 1..Len(d)} /\ Results(r)' = {Tail(d)[i] : i \in 1..(Len(d) - 1)}
    BY <1>3, <1>5 DEF Results
  <2> HIDE DEF d
  <2>2. ASSUME NEW u \in Results(r)'
        PROVE  u \in Results(r) /\ u # t
    <3>1. PICK i \in 1..(Len(d) - 1) : u = Tail(d)[i]
      BY <2>1
    <3>2. u = d[i + 1] /\ i + 1 \in 1..Len(d) /\ 1 \in 1..Len(d) /\ i + 1 # 1
      BY <1>2, <1>3, <3>1
    <3>3. u # d[1]
      BY <1>4, <3>2
    <3> QED
      BY <1>1, <2>1, <3>2, <3>3
  <2>3. ASSUME NEW u \in Results(r), u # t
        PROVE  u \in Results(r)'
    <3>1. PICK i \in 1..Len(d) : u = d[i]
      BY <2>1
    <3>2. i - 1 \in 1..(Len(d) - 1) /\ (i - 1) + 1 = i
      BY <1>1, <1>3, <2>3, <3>1
    <3>3. Tail(d)[i - 1] = u
      BY <1>2, <3>1, <3>2
    <3> QED
      BY <2>1, <3>2, <3>3
  <2> QED
    BY <2>2, <2>3
<1>8. \A s \in Runs : s # r => Results(s)' = Results(s)
  BY <1>5 DEF Results
<1>9. ASSUME NEW s \in Runs, NEW i \in DOMAIN done'[s], NEW j \in DOMAIN done'[s],
             done'[s][i] = done'[s][j]
      PROVE  i = j
  <2>1. CASE s # r
    BY <1>5, <1>9, <2>1 DEF SchedulerInv, ResultInv
  <2>2. CASE s = r
    <3>1. i \in 1..(Len(d) - 1) /\ j \in 1..(Len(d) - 1) /\ Tail(d)[i] = Tail(d)[j]
      BY <1>3, <1>5, <1>9, <2>2
    <3>2. d[i + 1] = d[j + 1] /\ i + 1 \in 1..Len(d) /\ j + 1 \in 1..Len(d)
      BY <1>2, <1>3, <3>1
    <3>3. i + 1 = j + 1
      BY <1>4, <3>2
    <3> QED
      BY <3>1, <3>3
  <2> QED
    BY <2>1, <2>2
<1>10. ASSUME NEW s \in Runs
       PROVE  Len(done'[s]) <= Len(done[s])
  <2>1. done[s] \in Seq(Tasks) /\ Len(done[s]) \in Nat
    BY DEF Typed
  <2>2. CASE s # r
    BY <1>5, <2>1, <2>2
  <2>3. CASE s = r
    BY <1>2, <1>3, <1>5, <2>3
  <2> QED
    BY <2>2, <2>3
<1> QED
  BY <1>6, <1>7, <1>8, <1>9, <1>10

LEMMA ApplyKeepsInv ==
  ASSUME Typed, SchedulerInv, NEW r \in Runs, NEW t \in Tasks,
         Receive(r, t) \/ DrainApply(r, t)
  PROVE  SchedulerInv'
<1> DEFINE D == IF Verdict(t) = "complete" THEN {} ELSE Downstream(t)
           cause == IF Verdict(t) = "cancelled" THEN "cancelled" ELSE "blocked"
<1>1. /\ NextResult(r, t) /\ done' = [done EXCEPT ![r] = Tail(@)]
      /\ UNCHANGED <<padded, worker, permits, cancelled>>
      /\ \/ pc[r] = "select" /\ pc' = [pc EXCEPT ![r] = "dispatch"]
         \/ pc[r] = "drain" /\ pc' = pc
  BY DEF Receive, DrainApply
<1>2. t \in Results(r)
  BY <1>1, TailResults
<1>3. RunOf[t] = r /\ worker[t] \in {"sent", "exited"} /\ status[t] = "running"
  BY <1>2 DEF SchedulerInv, ResultInv, Ended, TasksOf
<1>4. Apply(r, t)
  BY <1>3 DEF Receive, DrainApply
<1>5. /\ \A u \in Tasks : status'[u] = IF u = t THEN Verdict(t) ELSE IF u \in D THEN cause
                                       ELSE status[u]
      /\ held' = [held EXCEPT ![r] = {c \in @ : c[2] # t}]
  BY <1>4 DEF Apply
<1>6. Verdict(t) \in {"complete", "failed", "cancelled"} /\ cause \in {"blocked", "cancelled"}
  BY DEF Verdict
<1>7. \A u \in D : /\ u \in Tasks /\ RunOf[u] = r /\ u # t
                   /\ status[u] = "pending" /\ worker[u] = "none"
  BY <1>3, DownstreamCause DEF SchedulerInv, WorkerInv
<1>8. /\ \A s : CtxDone(s)' = CtxDone(s)
      /\ \A u : Found(u)' = Found(u)
  BY <1>1 DEF CtxDone, Found
<1> HIDE DEF D, cause
\* What changes: t stops running, pending tasks die.
<1>9. /\ status'[t] = Verdict(t)
      /\ \A u \in Tasks : u # t /\ u \notin D => status'[u] = status[u]
      /\ \A u \in D : status'[u] = cause
      /\ \A u \in Tasks : status'[u] = "running" <=> status[u] = "running" /\ u # t
      /\ \A u \in Tasks : status[u] \notin {"pending", "running"} => status'[u] = status[u]
      /\ \A u \in Tasks : status'[u] = "pending" => status[u] = "pending"
  BY <1>3, <1>5, <1>6, <1>7
<1>10. WorkerInv'
  <2> SUFFICES ASSUME NEW u \in Tasks
               PROVE  /\ worker'[u] = "none" => status'[u] \in {"pending", "blocked", "cancelled"}
                      /\ status'[u] = "pending" => worker'[u] = "none"
                      /\ Active(u)' => status'[u] = "running"
                      /\ status'[u] = "running" => Active(u)' \/ u \in Results(RunOf[u])'
    BY DEF WorkerInv
  <2>1. RunOf[u] \in Runs /\ Active(u)' = Active(u) /\ worker'[u] = worker[u]
    BY <1>1, GraphAssumption DEF Active
  <2>2. status'[u] = "running" => Active(u)' \/ u \in Results(RunOf[u])'
    <3>1. Results(r)' = Results(r) \ {t} /\ \A s \in Runs : s # r => Results(s)' = Results(s)
      BY <1>1, TailResults
    <3>2. status[u] = "running" => Active(u) \/ u \in Results(RunOf[u])
      BY DEF SchedulerInv, WorkerInv
    <3>3. status'[u] = "running" => status[u] = "running" /\ u # t
      BY <1>9
    <3> QED
      BY Zenon, <2>1, <3>1, <3>2, <3>3
  <2>3. Active(u)' => status'[u] = "running"
    BY <1>3, <1>9, <2>1 DEF SchedulerInv, WorkerInv, Active
  <2>4. worker'[u] = "none" => status'[u] \in {"pending", "blocked", "cancelled"}
    BY <1>3, <1>6, <1>9, <2>1 DEF SchedulerInv, WorkerInv
  <2> QED
    BY <1>9, <2>1, <2>2, <2>3, <2>4 DEF SchedulerInv, WorkerInv
<1>11. ResultInv'
  <2> SUFFICES ASSUME NEW s \in Runs
               PROVE  /\ \A u \in Results(s)' : u \in Ended(s)' /\ status'[u] = "running"
                      /\ \A i, j \in DOMAIN done'[s] : done'[s][i] = done'[s][j] => i = j
                      /\ Len(done'[s]) <= Cardinality(Ended(s))'
    BY DEF ResultInv
  <2>1. Ended(s)' = Ended(s) /\ Ended(s) \in SUBSET Tasks
    BY <1>1 DEF Ended, TasksOf
  <2>2. \A u \in Results(s)' : u \in Results(s) /\ u # t
    <3>1. CASE s = r
      BY <1>1, <3>1, TailResults
    <3>2. CASE s # r
      <4>1. Results(s)' = Results(s)
        BY <1>1, <3>2, TailResults
      <4>2. \A u \in Results(s) : RunOf[u] = s
        BY DEF SchedulerInv, ResultInv, Ended, TasksOf
      <4> QED
        BY <1>3, <3>2, <4>1, <4>2
    <3> QED
      BY <3>1, <3>2
  <2>3. \A u \in Results(s)' : u \in Ended(s)' /\ status'[u] = "running"
    BY <1>9, <2>1, <2>2 DEF SchedulerInv, ResultInv
  <2>4. Len(done'[s]) <= Cardinality(Ended(s))'
    <3>1. Len(done[s]) <= Cardinality(Ended(s)) /\ Cardinality(Ended(s)) \in Nat
      BY <2>1, FiniteTasks DEF SchedulerInv, ResultInv
    <3>2. Len(done'[s]) <= Len(done[s]) /\ Len(done[s]) \in Nat
      BY <1>1, TailResults DEF Typed
    <3>3. done'[s] \in Seq(Tasks)
      BY <1>1, HeadTailProperties DEF Typed, NextResult
    <3>4. Len(done'[s]) \in Nat
      BY <3>3
    <3> QED
      BY <2>1, <3>1, <3>2, <3>4
  <2> QED
    BY <1>1, <2>3, <2>4, TailResults
<1>12. ClaimInv'
  <2>1. \A s \in Runs : Running(s)' = Running(s) \ {t}
    BY <1>9 DEF Running, TasksOf
  <2>2. ASSUME NEW s \in Runs
        PROVE  held'[s] = {c \in Paths \X Tasks : c[2] \in Running(s)' /\ c[1] \in Writes[c[2]]}
    <3>1. held[s] = {c \in Paths \X Tasks : c[2] \in Running(s) /\ c[1] \in Writes[c[2]]}
      BY DEF SchedulerInv, ClaimInv
    <3>2. CASE s = r
      BY <1>5, <2>1, <3>1, <3>2 DEF Typed
    <3>3. CASE s # r
      BY <1>3, <1>5, <2>1, <3>1, <3>3 DEF Typed, Running, TasksOf
    <3> QED
      BY <3>2, <3>3
  <2> QED
    BY <1>9, <2>2 DEF SchedulerInv, ClaimInv, Overlap
<1>13. DependenciesFirst' /\ PermitsMatchWorkers'
  BY <1>1, <1>9, GraphAssumption
     DEF SchedulerInv, DependenciesFirst, PermitsMatchWorkers, PermitHolders
<1>14. FailureContained'
  <2> SUFFICES ASSUME NEW u \in Tasks
               PROVE  /\ status'[u] = "blocked" => \E d \in Deps[u] : status'[d] \in {"failed", "blocked"}
                      /\ status'[u] = "cancelled" /\ worker'[u] = "none" =>
                           CtxDone(RunOf[u])' \/ \E d \in Deps[u] : status'[d] = "cancelled"
                      /\ \A d \in Found(u) : status'[d] \in {"failed", "blocked", "cancelled"}
                           => status'[u] \in {"blocked", "cancelled"}
    BY <1>8 DEF FailureContained
  <2>1. /\ \A d \in Deps[u] : d \in Tasks
        /\ Found(u) \subseteq Deps[u]
    BY GraphAssumption DEF Found
  <2>2. u \in D => \E d \in Deps[u] : /\ cause = "blocked" => status'[d] \in {"failed", "blocked"}
                                      /\ cause = "cancelled" => status'[d] = "cancelled"
    <3>1. SUFFICES ASSUME u \in D
                   PROVE  \E d \in Deps[u] : /\ cause = "blocked" => status'[d] \in {"failed", "blocked"}
                                             /\ cause = "cancelled" => status'[d] = "cancelled"
      OBVIOUS
    <3>2. D = Downstream(t) /\ Verdict(t) # "complete"
      BY <3>1 DEF D
    <3>3. PICK d \in Found(u) : d \in D \cup {t}
      BY <3>1, <3>2, DownstreamCause
    <3>4. cause = IF Verdict(t) = "cancelled" THEN "cancelled" ELSE "blocked"
      BY DEF cause
    <3> QED
      BY <1>6, <1>9, <2>1, <3>2, <3>3, <3>4
  <2>3. status'[u] = "blocked" => \E d \in Deps[u] : status'[d] \in {"failed", "blocked"}
    <3>1. CASE u \in D
      BY <1>9, <2>2, <3>1
    <3>2. CASE u \notin D
      BY <1>6, <1>9, <2>1, <3>2 DEF SchedulerInv, FailureContained
    <3> QED
      BY <3>1, <3>2
  <2>4. status'[u] = "cancelled" /\ worker'[u] = "none" =>
          CtxDone(RunOf[u])' \/ \E d \in Deps[u] : status'[d] = "cancelled"
    <3>1. CASE u \in D
      BY <1>9, <2>2, <3>1
    <3>2. CASE u \notin D
      BY <1>1, <1>3, <1>8, <1>9, <2>1, <3>2 DEF SchedulerInv, FailureContained
    <3> QED
      BY <3>1, <3>2
  <2>5. ASSUME NEW d \in Found(u), status'[d] \in {"failed", "blocked", "cancelled"}
        PROVE  status'[u] \in {"blocked", "cancelled"}
    <3>1. CASE d = t \/ d \in D
      <4>1. D = Downstream(t)
        BY <1>6, <1>7, <1>9, <2>5, <3>1 DEF D
      <4>2. status[d] # "complete"
        BY <1>3, <1>7, <3>1
      <4>3. worker[u] = "none"
        BY <2>1, <4>2 DEF SchedulerInv, DependenciesFirst
      <4>4. status[u] \in {"pending", "blocked", "cancelled"}
        BY <4>3 DEF SchedulerInv, WorkerInv
      <4>5. status[u] = "pending" => u \in D
        <5>1. RunOf[u] = RunOf[t]
          BY <1>3, <1>7, <2>1, <3>1, GraphAssumption
        <5>2. Found(u) \cap (Downstream(t) \cup {t}) # {}
          BY <3>1, <4>1
        <5> QED
          BY <4>1, <5>1, <5>2, DownstreamCovers DEF TasksOf
      <4> QED
        BY <1>6, <1>9, <4>4, <4>5
    <3>2. CASE d # t /\ d \notin D
      <4>1. status[d] \in {"failed", "blocked", "cancelled"}
        BY <1>9, <2>1, <2>5, <3>2
      <4> QED
        BY <1>9, <4>1 DEF SchedulerInv, FailureContained
    <3> QED
      BY <3>1, <3>2
  <2> QED
    BY <2>3, <2>4, <2>5
<1>15. RunInv'
  BY <1>1, <1>8, <1>9 DEF Typed, SchedulerInv, RunInv, Over, TasksOf
<1>16. ReturnJoinsAll'
  <2> SUFFICES ASSUME NEW s \in Runs, pc'[s] = "returned", NEW u \in TasksOf(s)
               PROVE  worker'[u] \in {"none", "exited"} /\ status'[u] \in Terminal
    BY DEF ReturnJoinsAll, TasksOf
  <2>1. pc[s] = "returned" /\ u \in Tasks
    BY <1>1 DEF Typed, TasksOf
  <2> QED
    BY <1>1, <1>9, <2>1 DEF SchedulerInv, ReturnJoinsAll, Terminal
<1>17. NeverStuck'
  <2>1. \A s \in Runs : pc'[s] \in {"stuck", "noProgress"} => s # r /\ pc[s] = pc'[s]
    BY <1>1 DEF Typed
  <2>2. \A s \in Runs : \A u \in TasksOf(s) : s # r => status'[u] = status[u]
    BY <1>3, <1>7, <1>9 DEF TasksOf
  <2> QED
    BY <1>8, <2>1, <2>2 DEF SchedulerInv, NeverStuck, TasksOf
<1> QED
  BY <1>10, <1>11, <1>12, <1>13, <1>14, <1>15, <1>16, <1>17 DEF SchedulerInv

LEMMA FinishKeepsInv ==
  ASSUME Typed, SchedulerInv, NEW t \in Tasks, NEW o \in Outcomes, Finish(t, o)
  PROVE  SchedulerInv'
<1> DEFINE r == RunOf[t]
           d == done[r]
<1>1. /\ worker[t] = "executing" /\ status[t] = "running" /\ r \in Runs
      /\ \A u \in Tasks : worker'[u] = IF u = t THEN "sent" ELSE worker[u]
      /\ \A s \in Runs : done'[s] = IF s = r THEN Append(d, t) ELSE done[s]
      /\ UNCHANGED <<padded, pc, status, held, permits, cancelled>>
  BY GraphAssumption DEF Finish, Typed, SchedulerInv, WorkerInv, Active
<1>2. /\ d \in Seq(Tasks) /\ Len(d) \in Nat /\ DOMAIN d = 1..Len(d)
      /\ Len(Append(d, t)) = Len(d) + 1 /\ DOMAIN Append(d, t) = 1..(Len(d) + 1)
      /\ \A i \in 1..Len(d) : Append(d, t)[i] = d[i]
      /\ Append(d, t)[Len(d) + 1] = t
  <2>1. d \in Seq(Tasks)
    BY <1>1 DEF Typed
  <2> QED
    BY <2>1, AppendProperties
<1>3. /\ Results(r)' = Results(r) \cup {t}
      /\ \A s \in Runs : s # r => Results(s)' = Results(s)
  <2>1. /\ Results(r) = {d[i] : i \in 1..Len(d)}
        /\ Results(r)' = {Append(d, t)[i] : i \in 1..(Len(d) + 1)}
    <3>1. Results(r) = {d[i] : i \in DOMAIN d} /\ Results(r)' = {done'[r][i] : i \in DOMAIN done'[r]}
      BY DEF Results
    <3>2. done'[r] = Append(d, t)
      BY <1>1
    <3> HIDE DEF d, r
    <3> QED
      BY <1>2, <3>1, <3>2
  <2> HIDE DEF d
  <2>2. \A i \in 1..(Len(d) + 1) : i \in 1..Len(d) \/ i = Len(d) + 1
    BY <1>2
  <2>3. \A i \in 1..Len(d) : i \in 1..(Len(d) + 1)
    BY <1>2
  <2>4. Len(d) + 1 \in 1..(Len(d) + 1)
    BY <1>2
  <2>5. Results(r)' \subseteq Results(r) \cup {t}
    BY <1>2, <2>1, <2>2
  <2>6. Results(r) \cup {t} \subseteq Results(r)'
    BY <1>2, <2>1, <2>3, <2>4
  <2>7. \A s \in Runs : s # r => Results(s)' = Results(s)
    BY <1>1 DEF Results
  <2> QED
    BY <2>5, <2>6, <2>7
<1>4. t \notin Results(r)
  BY <1>1 DEF SchedulerInv, ResultInv, Ended
<1>5. /\ \A s \in Runs : Ended(s) \subseteq Tasks
      /\ Ended(r)' = Ended(r) \cup {t} /\ t \notin Ended(r)
      /\ \A s \in Runs : s # r => Ended(s)' = Ended(s)
  BY <1>1 DEF Ended, TasksOf
<1> HIDE DEF r, d
<1>6. WorkerInv'
  <2> SUFFICES ASSUME NEW u \in Tasks
               PROVE  /\ worker'[u] = "none" => status'[u] \in {"pending", "blocked", "cancelled"}
                      /\ status'[u] = "pending" => worker'[u] = "none"
                      /\ Active(u)' => status'[u] = "running"
                      /\ status'[u] = "running" => Active(u)' \/ u \in Results(RunOf[u])'
    BY DEF WorkerInv
  <2>1. CASE u = t
    BY <1>1, <1>3, <2>1 DEF r, Active
  <2>2. CASE u # t
    <3>1. RunOf[u] \in Runs /\ worker'[u] = worker[u] /\ Active(u)' = Active(u)
      BY <1>1, <2>2, GraphAssumption DEF Active
    <3>2. u \in Results(RunOf[u]) => u \in Results(RunOf[u])'
      BY <1>3, <3>1
    <3> QED
      BY <1>1, <3>1, <3>2 DEF SchedulerInv, WorkerInv
  <2> QED
    BY <2>1, <2>2
<1>7. ResultInv'
  <2> SUFFICES ASSUME NEW s \in Runs
               PROVE  /\ \A u \in Results(s)' : u \in Ended(s)' /\ status'[u] = "running"
                      /\ \A i, j \in DOMAIN done'[s] : done'[s][i] = done'[s][j] => i = j
                      /\ Len(done'[s]) <= Cardinality(Ended(s))'
    BY DEF ResultInv
  <2>1. CASE s # r
    BY <1>1, <1>3, <1>5, <2>1 DEF SchedulerInv, ResultInv
  <2>2. CASE s = r
    <3>1. \A u \in Results(s)' : u \in Ended(s)' /\ status'[u] = "running"
      BY <1>1, <1>3, <1>5, <2>2 DEF SchedulerInv, ResultInv
    <3>2. ASSUME NEW i \in DOMAIN done'[s], NEW j \in DOMAIN done'[s], done'[s][i] = done'[s][j]
          PROVE  i = j
      <4>1. \A k \in 1..Len(d) : d[k] \in Results(r)
        BY <1>2 DEF Results, d
      <4>2. \A k \in 1..Len(d) : Append(d, t)[k] # t
        BY <1>2, <1>4, <4>1
      <4>3. i \in 1..(Len(d) + 1) /\ j \in 1..(Len(d) + 1) /\ Append(d, t)[i] = Append(d, t)[j]
        BY <1>1, <1>2, <2>2, <3>2
      <4>4. CASE i \in 1..Len(d) /\ j \in 1..Len(d)
        <5>1. d[i] = d[j]
          BY <1>2, <4>3, <4>4
        <5>2. \A k, l \in 1..Len(d) : d[k] = d[l] => k = l
          BY <1>1, <1>2 DEF SchedulerInv, ResultInv, d
        <5> QED
          BY <4>4, <5>1, <5>2
      <4>5. CASE i = Len(d) + 1 \/ j = Len(d) + 1
        BY <1>2, <4>2, <4>3, <4>5
      <4> QED
        BY <1>2, <4>3, <4>4, <4>5
    <3>3. Len(done'[s]) <= Cardinality(Ended(s))'
      <4>1. Cardinality(Ended(r) \cup {t}) = Cardinality(Ended(r)) + 1 /\ Cardinality(Ended(r)) \in Nat
        BY <1>1, <1>5, FiniteTasks, FS_AddElement
      <4>2. Len(d) <= Cardinality(Ended(r))
        BY <1>1 DEF SchedulerInv, ResultInv, d
      <4>3. Len(done'[s]) = Len(d) + 1 /\ Cardinality(Ended(s))' = Cardinality(Ended(r)) + 1
        BY <1>1, <1>2, <1>5, <2>2, <4>1
      <4> QED
        BY <1>2, <4>1, <4>2, <4>3
    <3> QED
      BY <3>1, <3>2, <3>3
  <2> QED
    BY <2>1, <2>2
<1>8. ClaimInv'
  BY <1>1 DEF SchedulerInv, ClaimInv, Running, TasksOf, Overlap
<1>9. PermitsMatchWorkers'
  <2>1. PermitHolders' = PermitHolders
    BY <1>1 DEF PermitHolders
  <2> QED
    BY <1>1, <2>1 DEF SchedulerInv, PermitsMatchWorkers
<1>10. DependenciesFirst'
  BY <1>1, GraphAssumption DEF SchedulerInv, DependenciesFirst
<1>11. FailureContained'
  BY <1>1, GraphAssumption DEF SchedulerInv, FailureContained, CtxDone, Found
<1>12. RunInv'
  BY <1>1, CallerIsTask DEF SchedulerInv, RunInv, CtxDone, TasksOf
<1>13. ReturnJoinsAll' /\ NeverStuck'
  BY <1>1 DEF SchedulerInv, ReturnJoinsAll, NeverStuck, Found, TasksOf
<1> QED
  BY <1>6, <1>7, <1>8, <1>9, <1>10, <1>11, <1>12, <1>13 DEF SchedulerInv

LEMMA ReturnKeepsInv ==
  ASSUME Typed, SchedulerInv, NEW r \in Runs, Return(r)
  PROVE  SchedulerInv'
<1> DEFINE c == Caller[r]
<1>1. /\ pc[r] = "drain" /\ Joined(r) /\ done[r] = <<>>
      /\ pc' = [pc EXCEPT ![r] = "returned"]
      /\ UNCHANGED <<padded, held, done, cancelled>>
  BY DEF Return
<1>2. \A t \in TasksOf(r) : /\ t \in Tasks /\ worker[t] \in {"none", "exited"}
                            /\ status[t] # "running"
  <2>1. Results(r) = {}
    BY <1>1 DEF Results
  <2> QED
    BY <1>1, <2>1 DEF Joined, TasksOf, SchedulerInv, WorkerInv, Active
<1>3. \A t \in Tasks : status'[t] = IF t \in TasksOf(r) /\ CtxDone(r) /\ status[t] = "pending"
                                    THEN "cancelled" ELSE status[t]
  BY <1>2 DEF Return
<1>4. c # NoTask => c \in Tasks /\ worker[c] = "nested" /\ status[c] = "running" /\ c \notin TasksOf(r)
  <2>1. c # NoTask => c \in Tasks /\ worker[c] = "nested"
    BY <1>1, CallerIsTask DEF SchedulerInv, RunInv, Over
  <2> QED
    BY <1>2, <2>1 DEF SchedulerInv, WorkerInv, Active
<1>5. \A t \in Tasks : worker'[t] = IF t = c THEN "executing" ELSE worker[t]
  BY <1>4, NestingAssumption DEF Return, Reclaim, Typed
<1>6. \A s : /\ CtxDone(s)' = CtxDone(s) /\ Results(s)' = Results(s)
            /\ Found(s)' = Found(s)
  BY <1>1 DEF CtxDone, Results, Found
<1>7. \A t \in Tasks : /\ Active(t)' = Active(t)
                       /\ worker'[t] = "none" <=> worker[t] = "none"
                       /\ worker'[t] \in {"sent", "exited"} <=> worker[t] \in {"sent", "exited"}
                       /\ status'[t] = "running" <=> status[t] = "running"
                       /\ status[t] # "pending" => status'[t] = status[t]
                       /\ status'[t] = "pending" => status[t] = "pending"
  BY <1>3, <1>4, <1>5, NestingAssumption DEF Active
<1> HIDE DEF c
<1>8. WorkerInv'
  BY <1>3, <1>6, <1>7 DEF SchedulerInv, WorkerInv
<1>9. ResultInv'
  <2>1. \A s \in Runs : Ended(s)' = Ended(s) /\ Ended(s) \subseteq Tasks
    BY <1>7 DEF Ended, TasksOf
  <2> QED
    BY <1>1, <1>6, <1>7, <2>1 DEF SchedulerInv, ResultInv
<1>10. ClaimInv'
  <2>1. \A s \in Runs : Running(s)' = Running(s)
    BY <1>7 DEF Running, TasksOf
  <2> QED
    BY <1>1, <1>7, <2>1 DEF SchedulerInv, ClaimInv, Overlap
<1>11. PermitsMatchWorkers'
  <2>1. CASE c = NoTask
    <3>1. permits' = permits /\ worker' = worker
      BY <2>1 DEF Return, Reclaim, c
    <3> QED
      BY <3>1 DEF SchedulerInv, PermitsMatchWorkers, PermitHolders
  <2>2. CASE c # NoTask
    <3>1. c \in Tasks /\ c \notin PermitHolders /\ PermitHolders' = PermitHolders \cup {c}
      BY <1>4, <1>5, <2>2 DEF PermitHolders
    <3>2. permits' = permits + 1
      BY <2>2 DEF Return, Reclaim, c
    <3> QED
      BY <3>1, <3>2, HolderAdded DEF SchedulerInv
  <2> QED
    BY <2>1, <2>2
<1>12. DependenciesFirst'
  BY <1>7, GraphAssumption DEF SchedulerInv, DependenciesFirst
<1>13. FailureContained'
  <2> SUFFICES ASSUME NEW u \in Tasks
               PROVE  /\ status'[u] = "blocked" => \E d \in Deps[u] : status'[d] \in {"failed", "blocked"}
                      /\ status'[u] = "cancelled" /\ worker'[u] = "none" =>
                           CtxDone(RunOf[u])' \/ \E d \in Deps[u] : status'[d] = "cancelled"
                      /\ \A d \in Found(u) : status'[d] \in {"failed", "blocked", "cancelled"}
                           => status'[u] \in {"blocked", "cancelled"}
    BY <1>6 DEF FailureContained
  <2>1. /\ \A d \in Deps[u] : d \in Tasks /\ RunOf[d] = RunOf[u]
        /\ Found(u) \subseteq Deps[u]
    BY GraphAssumption DEF Found
  <2>2. status'[u] = "blocked" => \E d \in Deps[u] : status'[d] \in {"failed", "blocked"}
    BY <1>3, <1>7, <2>1 DEF SchedulerInv, FailureContained
  <2>3. status'[u] = "cancelled" /\ worker'[u] = "none" =>
          CtxDone(RunOf[u])' \/ \E d \in Deps[u] : status'[d] = "cancelled"
    BY <1>3, <1>6, <1>7, <2>1 DEF SchedulerInv, FailureContained, TasksOf
  <2>4. ASSUME NEW d \in Found(u), status'[d] \in {"failed", "blocked", "cancelled"}
        PROVE  status'[u] \in {"blocked", "cancelled"}
    <3>1. CASE status'[d] = status[d]
      <4>1. status[u] \in {"blocked", "cancelled"}
        BY <1>6, <2>4, <3>1 DEF SchedulerInv, FailureContained
      <4> QED
        BY <1>7, <4>1
    <3>2. CASE status'[d] # status[d]
      <4>1. d \in TasksOf(r) /\ CtxDone(r) /\ status[d] = "pending"
        BY <1>3, <2>1, <3>2
      <4>2. worker[u] = "none" /\ u \in TasksOf(r)
        BY <2>1, <4>1 DEF SchedulerInv, DependenciesFirst, TasksOf
      <4>3. status[u] \in {"pending", "blocked", "cancelled"}
        BY <4>2 DEF SchedulerInv, WorkerInv
      <4> QED
        BY <1>3, <4>1, <4>2, <4>3
    <3> QED
      BY <3>1, <3>2
  <2> QED
    BY <2>2, <2>3, <2>4
<1>14. RunInv'
  <2> SUFFICES ASSUME NEW s \in Runs
               PROVE  /\ pc'[s] = "drain" /\ ~CtxDone(s)' => \A u \in TasksOf(s) : status'[u] # "pending"
                      /\ pc'[s] \notin {"idle"} \cup Over /\ Caller[s] # NoTask
                           => worker'[Caller[s]] = "nested"
    BY DEF RunInv, TasksOf
  <2>1. pc'[s] = IF s = r THEN "returned" ELSE pc[s]
    BY <1>1 DEF Typed
  <2>2. pc'[s] = "drain" /\ ~CtxDone(s)' => \A u \in TasksOf(s) : status'[u] # "pending"
    BY <1>6, <1>7, <2>1 DEF SchedulerInv, RunInv, TasksOf
  <2>3. ASSUME pc'[s] \notin {"idle"} \cup Over, Caller[s] # NoTask
        PROVE  worker'[Caller[s]] = "nested"
    <3>1. s # r /\ worker[Caller[s]] = "nested" /\ Caller[s] \in Tasks
      BY <2>1, <2>3, CallerIsTask DEF SchedulerInv, RunInv, Over
    <3>2. Caller[s] # c
      BY <2>3, <3>1, CallerIsTask DEF c
    <3> QED
      BY <1>5, <3>1, <3>2
  <2> QED
    BY <2>2, <2>3
<1>15. ReturnJoinsAll'
  <2> SUFFICES ASSUME NEW s \in Runs, pc'[s] = "returned", NEW t \in TasksOf(s)
               PROVE  worker'[t] \in {"none", "exited"} /\ status'[t] \in Terminal
    BY DEF ReturnJoinsAll, TasksOf
  <2>1. t \in Tasks /\ status[t] \in {"pending", "running"} \cup Terminal
    BY DEF TasksOf, Typed
  <2>2. CASE s = r
    <3>1. t # c /\ worker'[t] \in {"none", "exited"}
      BY <1>2, <1>4, <1>5, <2>1, <2>2, NestingAssumption
    <3>2. status[t] = "pending" => CtxDone(r)
      BY <1>1, <2>2 DEF SchedulerInv, RunInv
    <3> QED
      BY <1>2, <1>3, <2>1, <2>2, <3>1, <3>2 DEF Terminal
  <2>3. CASE s # r
    <3>1. pc[s] = "returned"
      BY <1>1, <2>3 DEF Typed
    <3>2. worker[t] \in {"none", "exited"} /\ status[t] \in Terminal
      BY <3>1 DEF SchedulerInv, ReturnJoinsAll
    <3>3. t # c
      BY <1>4, <2>1, <3>2, NestingAssumption
    <3> QED
      BY <1>5, <1>7, <2>1, <3>2, <3>3 DEF Terminal
  <2> QED
    BY <2>2, <2>3
<1>16. NeverStuck'
  <2>1. \A s \in Runs : pc'[s] \in {"stuck", "noProgress"} => s # r /\ pc[s] = pc'[s]
    BY <1>1 DEF Typed
  <2>2. \A s \in Runs : \A u \in TasksOf(s) : s # r => status'[u] = status[u]
    BY <1>3 DEF TasksOf
  <2> QED
    BY <1>6, <2>1, <2>2 DEF SchedulerInv, NeverStuck, TasksOf
<1> QED
  BY <1>8, <1>9, <1>10, <1>11, <1>12, <1>13, <1>14, <1>15, <1>16 DEF SchedulerInv

LEMMA ReportKeepsInv ==
  ASSUME Typed, SchedulerInv, NEW r \in Runs, ReportNoProgress(r)
  PROVE  SchedulerInv'
<1> DEFINE c == Caller[r]
<1>1. /\ pc[r] = "stuck" /\ pc' = [pc EXCEPT ![r] = "noProgress"]
      /\ UNCHANGED <<padded, status, held, done, cancelled>>
  BY DEF ReportNoProgress
<1>2. c # NoTask => c \in Tasks /\ worker[c] = "nested"
  BY <1>1, CallerIsTask DEF SchedulerInv, RunInv, Over
<1>3. \A t \in Tasks : worker'[t] = IF t = c THEN "executing" ELSE worker[t]
  BY <1>2, NestingAssumption DEF ReportNoProgress, Reclaim, Typed
<1>4. /\ \A t \in Tasks : Active(t)' = Active(t)
      /\ \A t \in Tasks : worker'[t] = "none" <=> worker[t] = "none"
      /\ \A t \in Tasks : worker'[t] \in {"sent", "exited"} <=> worker[t] \in {"sent", "exited"}
  BY <1>2, <1>3, NestingAssumption DEF Active
<1>5. WorkerInv' /\ ResultInv' /\ ClaimInv' /\ DependenciesFirst' /\ FailureContained'
  BY <1>1, <1>4, WorkersMoved
<1> HIDE DEF c
<1>6. PermitsMatchWorkers'
  <2>1. CASE c = NoTask
    <3>1. permits' = permits /\ worker' = worker
      BY <2>1 DEF ReportNoProgress, Reclaim, c
    <3> QED
      BY <3>1 DEF SchedulerInv, PermitsMatchWorkers, PermitHolders
  <2>2. CASE c # NoTask
    <3>1. c \in Tasks /\ c \notin PermitHolders /\ PermitHolders' = PermitHolders \cup {c}
      BY <1>2, <1>3, <2>2 DEF PermitHolders
    <3>2. permits' = permits + 1
      BY <2>2 DEF ReportNoProgress, Reclaim, c
    <3> QED
      BY <3>1, <3>2, HolderAdded DEF SchedulerInv
  <2> QED
    BY <2>1, <2>2
<1>7. \A s \in Runs : pc'[s] = IF s = r THEN "noProgress" ELSE pc[s]
  BY <1>1 DEF Typed
<1>8. RunInv'
  <2> SUFFICES ASSUME NEW s \in Runs
               PROVE  /\ pc'[s] = "drain" /\ ~CtxDone(s)' => \A u \in TasksOf(s) : status'[u] # "pending"
                      /\ pc'[s] \notin {"idle"} \cup Over /\ Caller[s] # NoTask
                           => worker'[Caller[s]] = "nested"
    BY DEF RunInv, TasksOf
  <2>1. pc'[s] = "drain" /\ ~CtxDone(s)' => \A u \in TasksOf(s) : status'[u] # "pending"
    BY <1>1, <1>7 DEF SchedulerInv, RunInv, CtxDone, TasksOf
  <2>2. ASSUME pc'[s] \notin {"idle"} \cup Over, Caller[s] # NoTask
        PROVE  worker'[Caller[s]] = "nested"
    <3>1. s # r /\ worker[Caller[s]] = "nested" /\ Caller[s] \in Tasks
      BY <1>7, <2>2, CallerIsTask DEF SchedulerInv, RunInv, Over
    <3>2. Caller[s] # c
      BY <2>2, <3>1, CallerIsTask DEF c
    <3> QED
      BY <1>3, <3>1, <3>2
  <2> QED
    BY <2>1, <2>2
<1>9. ReturnJoinsAll'
  <2> SUFFICES ASSUME NEW s \in Runs, pc'[s] = "returned", NEW t \in TasksOf(s)
               PROVE  worker'[t] \in {"none", "exited"} /\ status'[t] \in Terminal
    BY DEF ReturnJoinsAll, TasksOf
  <2>1. t \in Tasks /\ worker[t] \in {"none", "exited"} /\ status[t] \in Terminal
    BY <1>7 DEF SchedulerInv, ReturnJoinsAll, TasksOf
  <2> QED
    BY <1>1, <1>2, <1>3, <2>1, NestingAssumption
<1>10. NeverStuck'
  BY <1>1, <1>7 DEF SchedulerInv, NeverStuck, Found, TasksOf
<1> QED
  BY <1>5, <1>6, <1>8, <1>9, <1>10 DEF SchedulerInv

-----------------------------------------------------------------------------
(* The theorems *)

\* The semaphore, claims, results and statuses of all Runs fit together, in
\* every reachable state.
THEOREM SchedulerCorrect == Spec => [](Typed /\ SchedulerInv)
<1>1. Init => Typed /\ SchedulerInv
  BY InitTyped, InitScheduler
<1>2. Typed /\ SchedulerInv /\ [Next]_vars => (Typed /\ SchedulerInv)'
  <2> SUFFICES ASSUME Typed, SchedulerInv, [Next]_vars
               PROVE  SchedulerInv'
    BY StepTyped
  <2>1. ASSUME NEW r \in Runs, Start(r) \/ Progress(r) \/ AcquireCancelled(r) \/ Cancel(r)
        PROVE  SchedulerInv'
    BY <2>1, StartKeepsInv, LaunchKeepsInv, WaitKeepsInv, ApplyKeepsInv, ReturnKeepsInv,
       ReportKeepsInv, OutsideKeepsInv DEF Progress
  <2>2. ASSUME NEW t \in Tasks, Release(t) \/ \E o \in Outcomes : Finish(t, o)
        PROVE  SchedulerInv'
    BY <2>2, ReleaseKeepsInv, FinishKeepsInv
  <2>3. CASE (\E n \in 1..MaxLimit : SetMax(n)) \/ UNCHANGED vars
    BY <2>3, OutsideKeepsInv
  <2> QED
    BY <2>1, <2>2, <2>3 DEF Next
<1> QED
  BY <1>1, <1>2, PTL DEF Spec

\* A task's goroutine never blocks while sending its result, whatever the Run.
THEOREM SchedulerTypes == Spec => []TypeOK
<1>1. Typed /\ SchedulerInv => TypeOK
  <2> SUFFICES ASSUME Typed, SchedulerInv, NEW r \in Runs
               PROVE  Len(done[r]) <= Cardinality(TasksOf(r))
    BY DEF TypeOK
  <2>1. Ended(r) \subseteq TasksOf(r) /\ TasksOf(r) \subseteq Tasks
    BY DEF Ended, TasksOf
  <2>2. /\ IsFiniteSet(TasksOf(r)) /\ Cardinality(TasksOf(r)) \in Nat
        /\ Cardinality(Ended(r)) \in Nat
    BY <2>1, FiniteTasks
  <2>3. Cardinality(Ended(r)) <= Cardinality(TasksOf(r))
    BY <2>1, <2>2, FS_Subset
  <2>4. Len(done[r]) <= Cardinality(Ended(r)) /\ Len(done[r]) \in Nat
    BY DEF SchedulerInv, ResultInv, Typed
  <2> QED
    BY <2>2, <2>3, <2>4
<1> QED
  BY <1>1, SchedulerCorrect, PTL

\* Two tasks of one Run whose declared writes overlap never execute together.
THEOREM WritersExclude == Spec => []WriteExclusion
<1>1. Typed /\ SchedulerInv => WriteExclusion
  BY DEF SchedulerInv, WorkerInv, ClaimInv, WriteExclusion
<1> QED
  BY <1>1, SchedulerCorrect, PTL

\* Nothing runs before what it depends on is complete.
THEOREM DependenciesComplete == Spec => []DependenciesFirst
<1>1. Typed /\ SchedulerInv => DependenciesFirst
  BY DEF SchedulerInv
<1> QED
  BY <1>1, SchedulerCorrect, PTL

\* No permit leaks or is counted twice, through any nesting of Runs.
THEOREM PermitsBalance == Spec => []PermitsMatchWorkers
<1>1. Typed /\ SchedulerInv => PermitsMatchWorkers
  BY DEF SchedulerInv
<1> QED
  BY <1>1, SchedulerCorrect, PTL

\* No goroutine outlives the Run that started it.
THEOREM RunsJoin == Spec => []ReturnJoinsAll
<1>1. Typed /\ SchedulerInv => ReturnJoinsAll
  BY DEF SchedulerInv
<1> QED
  BY <1>1, SchedulerCorrect, PTL

\* A failure reaches exactly what depends on it.
THEOREM FailuresContained == Spec => []FailureContained
<1>1. Typed /\ SchedulerInv => FailureContained
  BY DEF SchedulerInv
<1> QED
  BY <1>1, SchedulerCorrect, PTL

\* ErrNoProgress is reported only for a task that depends on one whose id has
\* blanks around it, as Validate accepts it; without such ids a graph that passed
\* Validate always has a next step (scheduler.go Run, Validate, depsComplete).
THEOREM NoProgressExplained == Spec => []NeverStuck
<1>1. Typed /\ SchedulerInv => NeverStuck
  BY DEF SchedulerInv
<1> QED
  BY <1>1, SchedulerCorrect, PTL

-----------------------------------------------------------------------------
(* What a Run reports of its tasks *)

\* A task's goroutine goes on, or nothing happens to the task; ...
GoesOn(t) ==
  /\ status'[t] = status[t] /\ outcome'[t] = outcome[t]
  /\ \/ worker'[t] = worker[t]
     \/ Active(t) /\ worker'[t] \in {"executing", "nested"}
     \/ worker[t] = "sent" /\ worker'[t] = "exited"

\* ... it is launched; its executor returns; its result is applied; ...
Launched(t) ==
  /\ status[t] = "pending" /\ worker[t] = "none"
  /\ status'[t] = "running" /\ worker'[t] = "executing" /\ outcome'[t] = outcome[t]

Finished(t) ==
  /\ worker[t] = "executing" /\ worker'[t] = "sent"
  /\ status'[t] = status[t] /\ outcome'[t] \in Outcomes

Applied(t) ==
  /\ status[t] = "running" /\ worker[t] \in {"sent", "exited"}
  /\ status'[t] = Verdict(t) /\ worker'[t] = worker[t] /\ outcome'[t] = outcome[t]

\* ... or it is passed over, for another task's failure or a cancellation.
Skipped(t) ==
  /\ status[t] = "pending" /\ worker[t] = "none"
  /\ status'[t] \in {"blocked", "cancelled"}
  /\ worker'[t] = worker[t] /\ outcome'[t] = outcome[t]

TaskStep(t) == GoesOn(t) \/ Launched(t) \/ Finished(t) \/ Applied(t) \/ Skipped(t)

LEMMA ApplySteps ==
  ASSUME Typed, SchedulerInv, NEW r \in Runs, NEW t \in Tasks,
         Receive(r, t) \/ DrainApply(r, t), NEW u \in Tasks
  PROVE  TaskStep(u)
<1> DEFINE D == IF Verdict(t) = "complete" THEN {} ELSE Downstream(t)
           cause == IF Verdict(t) = "cancelled" THEN "cancelled" ELSE "blocked"
<1>1. /\ NextResult(r, t) /\ done' = [done EXCEPT ![r] = Tail(@)]
      /\ UNCHANGED <<worker, outcome>>
  BY DEF Receive, DrainApply
<1>2. t \in Results(r)
  BY <1>1, TailResults
<1>3. worker[t] \in {"sent", "exited"} /\ status[t] = "running"
  BY <1>2 DEF SchedulerInv, ResultInv, Ended, TasksOf
<1>4. status'[u] = IF u = t THEN Verdict(t) ELSE IF u \in D THEN cause ELSE status[u]
  BY <1>3 DEF Receive, DrainApply, Apply
<1>5. u \in D => status[u] = "pending" /\ worker[u] = "none"
  BY DownstreamCause DEF SchedulerInv, WorkerInv
<1>6. cause \in {"blocked", "cancelled"}
  OBVIOUS
<1> HIDE DEF D, cause
<1>7. CASE u = t
  BY <1>1, <1>3, <1>4, <1>7 DEF TaskStep, Applied
<1>8. CASE u # t /\ u \in D
  BY <1>1, <1>4, <1>5, <1>6, <1>8 DEF TaskStep, Skipped
<1>9. CASE u # t /\ u \notin D
  BY <1>1, <1>4, <1>9 DEF TaskStep, GoesOn
<1> QED
  BY <1>7, <1>8, <1>9

LEMMA ReturnSteps ==
  ASSUME Typed, SchedulerInv, NEW r \in Runs, Return(r), NEW u \in Tasks
  PROVE  TaskStep(u)
<1> DEFINE c == Caller[r]
<1>1. pc[r] = "drain" /\ Joined(r) /\ done[r] = <<>> /\ outcome' = outcome
  BY DEF Return
<1>2. u \in TasksOf(r) => status[u] # "running"
  <2>1. Results(r) = {}
    BY <1>1 DEF Results
  <2> QED
    BY <1>1, <2>1 DEF Joined, TasksOf, SchedulerInv, WorkerInv, Active
<1>3. \/ status'[u] = status[u]
      \/ status[u] = "pending" /\ status'[u] = "cancelled"
  BY <1>2 DEF Return
<1>4. c # NoTask => c \in Tasks /\ worker[c] = "nested" /\ status[c] = "running"
  <2>1. c # NoTask => c \in Tasks /\ worker[c] = "nested"
    BY <1>1, CallerIsTask DEF SchedulerInv, RunInv, Over
  <2> QED
    BY <2>1 DEF SchedulerInv, WorkerInv, Active
<1>5. worker'[u] = worker[u] \/ (Active(u) /\ worker'[u] = "executing" /\ status[u] = "running")
  <2>1. worker'[u] = IF u = c THEN "executing" ELSE worker[u]
    BY <1>4, NestingAssumption DEF Return, Reclaim, Typed
  <2> QED
    BY <1>4, <2>1, NestingAssumption DEF Active
<1>6. status[u] = "pending" => worker[u] = "none"
  BY DEF SchedulerInv, WorkerInv
<1>7. CASE status'[u] = status[u]
  BY <1>1, <1>5, <1>7 DEF TaskStep, GoesOn
<1>8. CASE status[u] = "pending" /\ status'[u] = "cancelled"
  BY <1>1, <1>5, <1>6, <1>8 DEF TaskStep, Skipped
<1> QED
  BY <1>3, <1>7, <1>8

LEMMA TasksStep ==
  ASSUME Typed, SchedulerInv, [Next]_vars, NEW u \in Tasks
  PROVE  TaskStep(u)
<1>1. ASSUME UNCHANGED <<status, worker, outcome>> PROVE TaskStep(u)
  BY <1>1 DEF TaskStep, GoesOn
<1>2. ASSUME NEW r \in Runs, Start(r) PROVE TaskStep(u)
  <2>1. UNCHANGED <<status, outcome>>
    BY <1>2 DEF Start
  <2>2. worker'[u] = worker[u] \/ (worker[u] = "executing" /\ worker'[u] = "nested")
    BY <1>2, CallerIsTask DEF Start, Typed
  <2> QED
    BY <2>1, <2>2 DEF TaskStep, GoesOn, Active
<1>3. ASSUME NEW r \in Runs, NEW t \in Tasks, Dispatch(r, t) \/ AcquireSlot(r, t)
      PROVE  TaskStep(u)
  <2>1. status[t] = "pending" /\ worker[t] = "none"
    BY <1>3 DEF Dispatch, AcquireSlot, IsNext, Ready, TasksOf, SchedulerInv, WorkerInv
  <2>2. /\ outcome' = outcome
        /\ status'[u] = IF u = t THEN "running" ELSE status[u]
        /\ worker'[u] = IF u = t THEN "executing" ELSE worker[u]
    BY <1>3 DEF Dispatch, AcquireSlot, Launch, Typed
  <2> QED
    BY <2>1, <2>2 DEF TaskStep, Launched, GoesOn
<1>4. ASSUME NEW t \in Tasks, NEW o \in Outcomes, Finish(t, o) PROVE TaskStep(u)
  <2>1. /\ status' = status /\ worker[t] = "executing"
        /\ worker'[u] = IF u = t THEN "sent" ELSE worker[u]
        /\ outcome'[u] = IF u = t THEN o ELSE outcome[u]
    BY <1>4 DEF Finish, Typed
  <2> QED
    BY <2>1 DEF TaskStep, Finished, GoesOn
<1>5. ASSUME NEW t \in Tasks, Release(t) PROVE TaskStep(u)
  <2>1. /\ UNCHANGED <<status, outcome>> /\ worker[t] = "sent"
        /\ worker'[u] = IF u = t THEN "exited" ELSE worker[u]
    BY <1>5 DEF Release, Typed
  <2> QED
    BY <2>1 DEF TaskStep, GoesOn
<1>6. ASSUME NEW r \in Runs, \/ DispatchFull(r) \/ DispatchDone(r) \/ SelectCancelled(r)
                             \/ AcquireCancelled(r) \/ Cancel(r)
      PROVE  TaskStep(u)
  BY <1>1, <1>6 DEF DispatchFull, DispatchDone, SelectCancelled, AcquireCancelled, Cancel
<1>7. CASE (\E n \in 1..MaxLimit : SetMax(n)) \/ UNCHANGED vars
  BY <1>1, <1>7 DEF SetMax, vars
<1>8. ASSUME NEW r \in Runs, ReportNoProgress(r) PROVE TaskStep(u)
  <2>1. UNCHANGED <<status, outcome>> /\ pc[r] = "stuck"
    BY <1>8 DEF ReportNoProgress
  <2>2. Caller[r] # NoTask => worker[Caller[r]] = "nested"
    BY <2>1 DEF SchedulerInv, RunInv, Over
  <2>3. worker'[u] = worker[u] \/ (worker[u] = "nested" /\ worker'[u] = "executing")
    BY <1>8, <2>2, CallerIsTask DEF ReportNoProgress, Reclaim, Typed
  <2> QED
    BY <2>1, <2>3 DEF TaskStep, GoesOn, Active
<1> QED
  BY <1>2, <1>3, <1>4, <1>5, <1>6, <1>7, <1>8, ApplySteps, ReturnSteps DEF Next, Progress

\* An executor that has returned left its outcome, and a task that ran has no
\* status but the one that this outcome calls for.
OutcomeInv ==
  \A t \in Tasks :
    /\ worker[t] \in {"sent", "exited"} <=> outcome[t] # "none"
    /\ status[t] \in Terminal => worker[t] = "none" \/ status[t] = Verdict(t)

LEMMA OutcomeStep ==
  ASSUME Typed, SchedulerInv, OutcomeInv, [Next]_vars
  PROVE  OutcomeInv'
<1> SUFFICES ASSUME NEW t \in Tasks
             PROVE  /\ worker'[t] \in {"sent", "exited"} <=> outcome'[t] # "none"
                    /\ status'[t] \in Terminal => worker'[t] = "none" \/ status'[t] = Verdict(t)'
  BY DEF OutcomeInv
<1>1. TaskStep(t)
  BY TasksStep
<1>2. /\ worker[t] \in {"sent", "exited"} <=> outcome[t] # "none"
      /\ status[t] \in Terminal => worker[t] = "none" \/ status[t] = Verdict(t)
      /\ Active(t) => status[t] = "running"
  BY DEF OutcomeInv, SchedulerInv, WorkerInv
<1>3. outcome'[t] = outcome[t] => Verdict(t)' = Verdict(t)
  BY DEF Verdict
<1>4. CASE GoesOn(t)
  BY <1>2, <1>3, <1>4 DEF GoesOn, Active
<1>5. CASE Launched(t)
  BY <1>2, <1>5 DEF Launched, Terminal
<1>6. CASE Finished(t)
  BY <1>2, <1>6 DEF Finished, Outcomes, Terminal, Active
<1>7. CASE Applied(t)
  BY <1>2, <1>3, <1>7 DEF Applied
<1>8. CASE Skipped(t)
  BY <1>2, <1>8 DEF Skipped
<1> QED
  BY <1>1, <1>4, <1>5, <1>6, <1>7, <1>8 DEF TaskStep

\* What Run returns of a task is what its executor came to, also when the Run was
\* cancelled meanwhile, and blocked or cancelled for one that never started; and a
\* task that has a final status keeps it and is not started again
\* (scheduler.go apply, failDependents, Run).
OutcomesAreReported ==
  \A r \in Runs : pc[r] = "returned" =>
    \A t \in TasksOf(r) :
      IF worker[t] = "none" THEN status[t] \in {"blocked", "cancelled"}
                            ELSE outcome[t] # "none" /\ status[t] = Verdict(t)

ReportsStand ==
  [][\A t \in Tasks : status[t] \in Terminal =>
       /\ status'[t] = status[t] /\ outcome'[t] = outcome[t]
       /\ worker'[t] = worker[t] \/ (worker[t] = "sent" /\ worker'[t] = "exited")]_vars

THEOREM ReportsAreTrue == Spec => []OutcomesAreReported /\ ReportsStand
<1>1. Init => OutcomeInv
  BY DEF Init, OutcomeInv, Terminal
<1>2. Typed /\ SchedulerInv /\ OutcomeInv => OutcomesAreReported
  <2> SUFFICES ASSUME Typed, SchedulerInv, OutcomeInv, NEW r \in Runs, pc[r] = "returned",
                      NEW t \in TasksOf(r)
               PROVE  IF worker[t] = "none" THEN status[t] \in {"blocked", "cancelled"}
                      ELSE outcome[t] # "none" /\ status[t] = Verdict(t)
    BY DEF OutcomesAreReported
  <2>1. t \in Tasks /\ worker[t] \in {"none", "exited"} /\ status[t] \in Terminal
    BY DEF SchedulerInv, ReturnJoinsAll, TasksOf
  <2>2. worker[t] = "none" => status[t] \in {"pending", "blocked", "cancelled"}
    BY <2>1 DEF SchedulerInv, WorkerInv
  <2> QED
    BY <2>1, <2>2 DEF OutcomeInv, Terminal
<1>3. Typed /\ SchedulerInv /\ OutcomeInv /\ [Next]_vars => OutcomeInv'
  BY OutcomeStep
<1>4. Typed /\ SchedulerInv /\ [Next]_vars
        => [\A t \in Tasks : status[t] \in Terminal =>
              /\ status'[t] = status[t] /\ outcome'[t] = outcome[t]
              /\ worker'[t] = worker[t] \/ (worker[t] = "sent" /\ worker'[t] = "exited")]_vars
  <2> SUFFICES ASSUME Typed, SchedulerInv, [Next]_vars, NEW t \in Tasks, status[t] \in Terminal
               PROVE  /\ status'[t] = status[t] /\ outcome'[t] = outcome[t]
                      /\ worker'[t] = worker[t] \/ (worker[t] = "sent" /\ worker'[t] = "exited")
    OBVIOUS
  <2>1. TaskStep(t) /\ (Active(t) => status[t] = "running")
    BY TasksStep DEF SchedulerInv, WorkerInv
  <2> QED
    BY <2>1 DEF TaskStep, GoesOn, Launched, Finished, Applied, Skipped, Active, Terminal
<1> QED
  BY <1>1, <1>2, <1>3, <1>4, SchedulerCorrect, PTL DEF Spec, ReportsStand

-----------------------------------------------------------------------------
(* The tasks share a pool of slots *)

\* One task changes how it stands to the pool.
LEMMA OneStands ==
  ASSUME Typed, NEW t \in Tasks, \A u \in Tasks : u # t => worker'[u] = worker[u]
  PROVE  /\ \A u \in Tasks : u # t => (u \in PermitHolders' <=> u \in PermitHolders)
         /\ \A u \in Tasks : u # t => (u \in Lent' <=> u \in Lent)
         /\ t \in PermitHolders <=> worker[t] \in {"executing", "sent"}
         /\ t \in PermitHolders' <=> worker'[t] \in {"executing", "sent"}
         /\ t \in Lent <=> worker[t] = "nested"
         /\ t \in Lent' <=> worker'[t] = "nested"
         /\ PermitHolders \subseteq Tasks /\ PermitHolders' \subseteq Tasks
         /\ Lent \subseteq Tasks /\ Lent' \subseteq Tasks
BY DEF PermitHolders, Lent

LEMMA SameCount == ASSUME NEW x PROVE Pool!Cardinality(x) = Cardinality(x)
BY Zenon DEF Pool!Cardinality, Cardinality

\* A nested Run begins.
LEMMA StartLends ==
  ASSUME Typed, SchedulerInv, NEW r \in Runs, Start(r)
  PROVE  [Pool!Next]_(Pool!poolVars)
<1> DEFINE c == Caller[r]
<1>1. CASE c = NoTask
  <2>1. worker' = worker /\ limit' = limit
    BY <1>1 DEF Start
  <2> QED
    BY <2>1 DEF Pool!poolVars, PermitHolders, Lent
<1>2. CASE c # NoTask
  <2>1. c \in Tasks /\ worker[c] = "executing" /\ worker' = [worker EXCEPT ![c] = "nested"]
        /\ limit' = limit
    BY <1>2, CallerIsTask DEF Start
  <2>2. worker'[c] = "nested" /\ \A u \in Tasks : u # c => worker'[u] = worker[u]
    BY <2>1 DEF Typed
  <2> HIDE DEF c
  <2>3. c \in PermitHolders /\ PermitHolders' = PermitHolders \ {c} /\ Lent' = Lent \cup {c}
    BY <2>1, <2>2, OneStands
  <2> QED
    BY <2>1, <2>3 DEF Pool!Next, Pool!Give
<1> QED
  BY <1>1, <1>2

LEMMA LaunchTakes ==
  ASSUME Typed, SchedulerInv, NEW r \in Runs, NEW t \in Tasks,
         Dispatch(r, t) \/ AcquireSlot(r, t)
  PROVE  Pool!Next
<1>1. t \in Ready(r) /\ Launch(r, t)
  BY DEF Dispatch, AcquireSlot, IsNext
<1>2. worker[t] = "none" /\ permits = Cardinality(PermitHolders)
  BY <1>1 DEF Ready, TasksOf, SchedulerInv, WorkerInv, PermitsMatchWorkers
<1>3. /\ worker'[t] = "executing" /\ \A u \in Tasks : u # t => worker'[u] = worker[u]
      /\ permits < limit /\ limit' = limit
  BY <1>1 DEF Launch, Typed
<1>4. t \notin PermitHolders \cup Lent /\ PermitHolders' = PermitHolders \cup {t} /\ Lent' = Lent
  BY <1>2, <1>3, OneStands
<1>5. Pool!Cardinality(PermitHolders) < limit
  BY <1>2, <1>3, SameCount
<1>6. Pool!Take(t)
  BY <1>3, <1>4, <1>5 DEF Pool!Take
<1> QED
  BY <1>6 DEF Pool!Next

\* Only here may the limit be exceeded.
LEMMA ReturnTakesBack ==
  ASSUME Typed, SchedulerInv, NEW r \in Runs, Return(r) \/ ReportNoProgress(r)
  PROVE  [Pool!Next]_(Pool!poolVars)
<1> DEFINE c == Caller[r]
<1>1. CASE c = NoTask
  <2>1. worker' = worker /\ limit' = limit
    BY <1>1 DEF Return, ReportNoProgress, Reclaim
  <2> QED
    BY <2>1 DEF Pool!poolVars, PermitHolders, Lent
<1>2. CASE c # NoTask
  <2>1. c \in Tasks /\ worker' = [worker EXCEPT ![c] = "executing"] /\ limit' = limit
    BY <1>2, CallerIsTask DEF Return, ReportNoProgress, Reclaim
  <2>2. worker[c] = "nested"
    BY <1>2 DEF Return, ReportNoProgress, SchedulerInv, RunInv, Over
  <2>3. worker'[c] = "executing" /\ \A u \in Tasks : u # c => worker'[u] = worker[u]
    BY <2>1 DEF Typed
  <2> HIDE DEF c
  <2>4. c \in Lent /\ PermitHolders' = PermitHolders \cup {c} /\ Lent' = Lent \ {c}
    BY <2>1, <2>2, <2>3, OneStands
  <2> QED
    BY <2>1, <2>4 DEF Pool!Next, Pool!TakeBack
<1> QED
  BY <1>1, <1>2

LEMMA TaskGives ==
  ASSUME Typed, NEW t \in Tasks, Release(t) \/ \E o \in Outcomes : Finish(t, o)
  PROVE  [Pool!Next]_(Pool!poolVars)
<1>1. CASE Release(t)
  <2>1. /\ worker[t] = "sent" /\ worker'[t] = "exited" /\ limit' = limit
        /\ \A u \in Tasks : u # t => worker'[u] = worker[u]
    BY <1>1 DEF Release, Typed
  <2>2. t \in PermitHolders /\ PermitHolders' = PermitHolders \ {t} /\ Lent' = Lent
    BY <2>1, OneStands
  <2> QED
    BY <2>1, <2>2 DEF Pool!Next, Pool!Give
<1>2. CASE \E o \in Outcomes : Finish(t, o)
  <2>1. /\ worker[t] = "executing" /\ worker'[t] = "sent" /\ limit' = limit
        /\ \A u \in Tasks : u # t => worker'[u] = worker[u]
    BY <1>2 DEF Finish, Typed
  <2>2. PermitHolders' = PermitHolders /\ Lent' = Lent
    BY <2>1, OneStands
  <2> QED
    BY <2>1, <2>2 DEF Pool!poolVars
<1> QED
  BY <1>1, <1>2

\* The tasks of all Runs, however they nest, are users of one pool of slots: what
\* the semaphore is shown to give, the scheduler relies on and no more
\* (scheduler.go dispatch, Run; semaphore.go acquire, tryAcquire, reclaim).
THEOREM SchedulerSharesPool == Spec => PoolSpec
<1>1. Init => Pool!Init
  <2> SUFFICES ASSUME Init PROVE Pool!Init
    OBVIOUS
  <2>1. PermitHolders = {} /\ Lent = {}
    BY DEF Init, PermitHolders, Lent
  <2> QED
    BY <2>1 DEF Init, Pool!Init
<1>2. Typed /\ SchedulerInv /\ [Next]_vars => [Pool!Next]_(Pool!poolVars)
  <2> SUFFICES ASSUME Typed, SchedulerInv, [Next]_vars
               PROVE  [Pool!Next]_(Pool!poolVars)
    OBVIOUS
  <2>1. ASSUME NEW r \in Runs, Start(r) \/ Progress(r) \/ AcquireCancelled(r) \/ Cancel(r)
        PROVE  [Pool!Next]_(Pool!poolVars)
    <3>1. CASE \/ \E t \in Tasks : Receive(r, t) \/ DrainApply(r, t)
               \/ DispatchFull(r) \/ DispatchDone(r) \/ SelectCancelled(r)
               \/ AcquireCancelled(r) \/ Cancel(r)
      <4>1. worker' = worker /\ limit' = limit
        BY <3>1 DEF Receive, DrainApply, DispatchFull, DispatchDone, SelectCancelled,
                    AcquireCancelled, Cancel
      <4> QED
        BY <4>1 DEF Pool!poolVars, PermitHolders, Lent
    <3> QED
      BY <2>1, <3>1, StartLends, LaunchTakes, ReturnTakesBack DEF Progress
  <2>2. ASSUME NEW t \in Tasks, Release(t) \/ \E o \in Outcomes : Finish(t, o)
        PROVE  [Pool!Next]_(Pool!poolVars)
    BY <2>2, TaskGives
  <2>3. ASSUME NEW n \in 1..MaxLimit, SetMax(n)
        PROVE  Pool!Next
    <3>1. worker' = worker /\ limit' = n
      BY <2>3 DEF SetMax
    <3> QED
      BY <3>1 DEF Pool!Next, Pool!Resize, PermitHolders, Lent
  <2>4. CASE UNCHANGED vars
    BY <2>4 DEF vars, Pool!poolVars, PermitHolders, Lent
  <2> QED
    BY <2>1, <2>2, <2>3, <2>4 DEF Next
<1> QED
  BY <1>1, <1>2, SchedulerCorrect, PTL DEF Spec, PoolSpec, Pool!Spec
=============================================================================
