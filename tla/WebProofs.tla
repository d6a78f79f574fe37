----------------------------- MODULE WebProofs ------------------------------
(* Theorems about the parts of the web frontend that MCWeb runs: the work of  *)
(* the server, for any sessions, turns and runs and any retention, and its    *)
(* hub, for any clients and publishers and any lengths of queues.             *)
(*                                                                            *)
(* ServerInv is inductive: besides WorkIsKnown it says that a turn is         *)
(* registered for its own session, and that the runs that are done are those  *)
(* that have finished. HubInv is, too: a step of the shutdown or of a         *)
(* connection changes few variables, and what becomes of members, stopping    *)
(* and kill is all that ClosedReachesAll depends on.                          *)
EXTENDS MCWeb, SequenceTheorems, FiniteSetTheorems, WellFoundedInduction, TLAPS

TurnInv ==
  /\ TurnsAreKnown
  /\ \A s \in Sessions : running[s] # None => SessionOf[running[s]] = s

RunInv ==
  /\ RunsAreKnown
  /\ \A r \in Runs : run[r] = "done" <=> \E i \in DOMAIN finished : finished[i] = r

ServerInv == TypeOK /\ TurnInv /\ RunInv

LEMMA Ranks ==
  /\ DOMAIN Rank = {"up", "signalled", "turns", "fleets", "stopping", "waiting", "hub", "base",
                    "http", "down"}
  /\ Rank["up"] = 0 /\ Rank["signalled"] = 1 /\ Rank["turns"] = 2 /\ Rank["fleets"] = 3
  /\ Rank["stopping"] = 4 /\ Rank["waiting"] = 5 /\ Rank["hub"] = 6 /\ Rank["base"] = 7
  /\ Rank["http"] = 8 /\ Rank["down"] = 9
BY DEF Rank

-----------------------------------------------------------------------------
(* Types *)

LEMMA TurnsTyped == TypeOK /\ [Next]_vars => /\ turn' \in [Turns -> {"new", "working", "asking", "ended"}]
                                            /\ turnDone' \subseteq Turns
                                            /\ running' \in [Sessions -> Turns \cup {None}]
<1> SUFFICES ASSUME TypeOK, [Next]_vars
             PROVE  /\ turn' \in [Turns -> {"new", "working", "asking", "ended"}]
                    /\ turnDone' \subseteq Turns
                    /\ running' \in [Sessions -> Turns \cup {None}]
  OBVIOUS
<1>1. CASE UNCHANGED turns
  BY <1>1 DEF TypeOK, turns
<1>2. ASSUME NEW t \in Turns,
             BeginTurn(t) \/ AskApproval(t) \/ EndApproval(t) \/ HangUp(t) \/ EndTurn(t)
      PROVE  /\ turn' \in [Turns -> {"new", "working", "asking", "ended"}]
             /\ turnDone' \subseteq Turns
             /\ running' \in [Sessions -> Turns \cup {None}]
  BY <1>2 DEF BeginTurn, AskApproval, EndApproval, HangUp, EndTurn, TypeOK
<1>3. CASE \E s \in Sessions : CancelTurn(s)
  BY <1>3 DEF CancelTurn, TypeOK
<1>4. CASE CancelTurns
  <2>1. turn' = turn /\ running' = [s \in Sessions |-> None]
        /\ turnDone' = turnDone \cup ({running[s] : s \in Sessions} \ {None})
    BY <1>4 DEF CancelTurns
  <2>2. {running[s] : s \in Sessions} \subseteq Turns \cup {None}
    BY DEF TypeOK
  <2> QED
    BY <2>1, <2>2 DEF TypeOK
<1>5. CASE CancelBase
  BY <1>5 DEF CancelBase, TypeOK
<1> QED
  BY <1>1, <1>2, <1>3, <1>4, <1>5
  DEF Next, FindFleet, StartRun, SpawnAgent, EndAgent, CancelRun, FinishRun, Signal,
      Shutdown, Unsubscribe, CloseFleets, StopAgent, StopFleets, WaitFleets, CloseHub,
      CloseHTTP, vars

LEMMA RunsTyped == TypeOK /\ [Next]_vars => /\ run' \in [Runs -> {"new", "checked", "running", "done"}]
                                           /\ runDone' \subseteq Runs /\ known' \subseteq Runs
                                           /\ finished' \in Seq(Runs)
<1> SUFFICES ASSUME TypeOK, [Next]_vars
             PROVE  /\ run' \in [Runs -> {"new", "checked", "running", "done"}]
                    /\ runDone' \subseteq Runs /\ known' \subseteq Runs
                    /\ finished' \in Seq(Runs)
  OBVIOUS
<1>1. CASE UNCHANGED runs
  BY <1>1 DEF TypeOK, runs
<1>2. ASSUME NEW r \in Runs, FindFleet(r) \/ StartRun(r) \/ CancelRun(r)
      PROVE  /\ run' \in [Runs -> {"new", "checked", "running", "done"}]
             /\ runDone' \subseteq Runs /\ known' \subseteq Runs
             /\ finished' \in Seq(Runs)
  BY <1>2 DEF FindFleet, StartRun, CancelRun, TypeOK
<1>3. ASSUME NEW r \in Runs, FinishRun(r)
      PROVE  /\ run' \in [Runs -> {"new", "checked", "running", "done"}]
             /\ runDone' \subseteq Runs /\ known' \subseteq Runs
             /\ finished' \in Seq(Runs)
  <2>1. finished' \in Seq(Runs)
    BY <1>3, AppendProperties DEF FinishRun, TypeOK
  <2> QED
    BY <1>3, <2>1 DEF FinishRun, TypeOK
<1>4. CASE CloseFleets \/ CancelBase
  BY <1>4 DEF CloseFleets, CancelBase, TypeOK
<1> QED
  BY <1>1, <1>2, <1>3, <1>4
  DEF Next, BeginTurn, AskApproval, EndApproval, HangUp, EndTurn, CancelTurn, SpawnAgent,
      EndAgent, Signal, Shutdown, Unsubscribe, CancelTurns, StopAgent, StopFleets, WaitFleets,
      CloseHub, CloseHTTP, vars

LEMMA PublishedTyped ==
  ASSUME TypeOK, NEW r \in Runs, NEW s \in {"none", "working"} \cup Ended,
         Published(r, s)
  PROVE  /\ agent' \in [Runs -> {"none", "working"} \cup Ended]
         /\ shown' \in [Runs -> {"none", "working"} \cup Ended]
BY DEF Published, TypeOK

LEMMA AgentsTyped == TypeOK /\ [Next]_vars => /\ agent' \in [Runs -> {"none", "working"} \cup Ended]
                                             /\ shown' \in [Runs -> {"none", "working"} \cup Ended]
                                             /\ fleets' \subseteq Sessions
<1> SUFFICES ASSUME TypeOK, [Next]_vars
             PROVE  /\ agent' \in [Runs -> {"none", "working"} \cup Ended]
                    /\ shown' \in [Runs -> {"none", "working"} \cup Ended]
                    /\ fleets' \subseteq Sessions
  OBVIOUS
<1>1. CASE UNCHANGED agents
  BY <1>1 DEF TypeOK, agents
<1>2. ASSUME NEW r \in Runs, FindFleet(r)
      PROVE  UNCHANGED <<agent, shown>> /\ fleets' \subseteq Sessions
  BY <1>2, ServerAssumption DEF FindFleet, TypeOK
<1>3. ASSUME NEW r \in Runs, SpawnAgent(r) \/ EndAgent(r) \/ StopAgent(r)
      PROVE  /\ agent' \in [Runs -> {"none", "working"} \cup Ended]
             /\ shown' \in [Runs -> {"none", "working"} \cup Ended]
             /\ fleets' = fleets
  <2>1. PICK s \in {"none", "working"} \cup Ended : Published(r, s)
    BY <1>3 DEF SpawnAgent, EndAgent, StopAgent, Ended
  <2>2. fleets' = fleets
    BY <1>3 DEF SpawnAgent, EndAgent, StopAgent
  <2> QED
    BY <2>1, <2>2, PublishedTyped
<1> QED
  BY <1>1, <1>2, <1>3
  DEF Next, BeginTurn, AskApproval, EndApproval, HangUp, EndTurn, CancelTurn, StartRun,
      CancelRun, FinishRun, Signal, Shutdown, Unsubscribe, CancelTurns, CloseFleets, StopFleets,
      WaitFleets, CloseHub, CancelBase, CloseHTTP, vars, TypeOK

\* The shutdown only goes on.
LEMMA ShutdownGoesOn ==
  ASSUME NEW from \in DOMAIN Rank, NEW to \in DOMAIN Rank, Rank[from] <= Rank[to],
         Advance(from, to)
  PROVE  stage' \in DOMAIN Rank /\ Rank[stage'] >= Rank[stage]
BY Ranks DEF Advance

LEMMA Flags ==
  ASSUME TypeOK,
         subscribed' = subscribed \/ subscribed' = FALSE,
         fleetClosed' = fleetClosed \/ fleetClosed' = TRUE,
         hubClosed' = hubClosed \/ hubClosed' = TRUE
  PROVE  subscribed' \in BOOLEAN /\ fleetClosed' \in BOOLEAN /\ hubClosed' \in BOOLEAN
BY DEF TypeOK

LEMMA StageStep == TypeOK /\ [Next]_vars => /\ stage' \in DOMAIN Rank /\ Rank[stage'] >= Rank[stage]
                                           /\ subscribed' \in BOOLEAN /\ fleetClosed' \in BOOLEAN
                                           /\ hubClosed' \in BOOLEAN
<1> SUFFICES ASSUME TypeOK, [Next]_vars
             PROVE  /\ stage' \in DOMAIN Rank /\ Rank[stage'] >= Rank[stage]
                    /\ subscribed' \in BOOLEAN /\ fleetClosed' \in BOOLEAN
                    /\ hubClosed' \in BOOLEAN
  OBVIOUS
<1>1. CASE UNCHANGED server
  <2>1. stage \in DOMAIN Rank /\ Rank[stage] \in Int
    BY Ranks DEF TypeOK
  <2> QED
    BY <1>1, <2>1, Flags DEF server
<1>2. CASE Signal
  BY <1>2, Ranks, ShutdownGoesOn, Flags DEF Signal
<1>3. CASE Unsubscribe
  <2>1. Advance("signalled", "turns") /\ subscribed' = FALSE
        /\ fleetClosed' = fleetClosed /\ hubClosed' = hubClosed
    BY <1>3 DEF Unsubscribe
  <2>2. stage' \in DOMAIN Rank /\ Rank[stage'] >= Rank[stage]
    BY <2>1, Ranks, ShutdownGoesOn
  <2> QED
    BY <2>1, <2>2, Flags
<1>4. CASE CancelTurns
  BY <1>4, Ranks, ShutdownGoesOn, Flags DEF CancelTurns
<1>5. CASE CloseFleets
  BY <1>5, Ranks, ShutdownGoesOn, Flags DEF CloseFleets
<1>6. CASE StopFleets
  BY <1>6, Ranks, ShutdownGoesOn, Flags DEF StopFleets
<1>7. CASE WaitFleets
  BY <1>7, Ranks, ShutdownGoesOn, Flags DEF WaitFleets
<1>8. CASE CloseHub
  BY <1>8, Ranks, ShutdownGoesOn, Flags DEF CloseHub
<1>9. CASE CancelBase
  BY <1>9, Ranks, ShutdownGoesOn, Flags DEF CancelBase
<1>10. CASE CloseHTTP
  BY <1>10, Ranks, ShutdownGoesOn, Flags DEF CloseHTTP
<1> QED
  BY <1>1, <1>2, <1>3, <1>4, <1>5, <1>6, <1>7, <1>8, <1>9, <1>10
  DEF Next, BeginTurn, AskApproval, EndApproval, HangUp, EndTurn, CancelTurn, FindFleet,
      StartRun, SpawnAgent, EndAgent, CancelRun, FinishRun, Shutdown, StopAgent, vars

-----------------------------------------------------------------------------
(* Turns *)

\* Turns that go on as they were stay known.
LEMMA SameTurns ==
  ASSUME TypeOK, TurnInv, stage' \in DOMAIN Rank, Rank[stage'] >= Rank[stage],
         running' = running, \A t \in Turns : Live(t)' <=> Live(t)
  PROVE  TurnInv'
<1>1. Reached("fleets") => Reached("fleets")'
  BY Ranks DEF Reached, TypeOK
<1> QED
  BY <1>1, ServerAssumption DEF TurnInv, TurnsAreKnown, TypeOK

LEMMA TurnStep == TypeOK /\ TurnInv /\ [Next]_vars => TurnInv'
<1> SUFFICES ASSUME TypeOK, TurnInv, [Next]_vars
             PROVE  TurnInv'
  OBVIOUS
<1>0. stage' \in DOMAIN Rank /\ Rank[stage'] >= Rank[stage]
  BY StageStep
<1>1. CASE UNCHANGED <<turn, running>>
  BY <1>0, <1>1, SameTurns DEF Live
<1>2. ASSUME NEW t \in Turns, BeginTurn(t)
      PROVE  TurnInv'
  <2>1. running' = [running EXCEPT ![SessionOf[t]] = t] /\ running[SessionOf[t]] = None
        /\ turn' = [turn EXCEPT ![t] = "working"] /\ stage' = stage
    BY <1>2 DEF BeginTurn, server
  <2>2. SessionOf[t] \in Sessions
    BY ServerAssumption
  <2>3. \A u \in Turns : Live(u)' <=> Live(u) \/ u = t
    BY <2>1 DEF Live, TypeOK
  <2>4. \A s \in Sessions : running'[s] = IF s = SessionOf[t] THEN t ELSE running[s]
    BY <2>1 DEF TypeOK
  <2>5. Reached("fleets")' <=> Reached("fleets")
    BY <2>1 DEF Reached
  <2>6. t # None
    BY ServerAssumption
  <2> QED
    BY <2>1, <2>2, <2>3, <2>4, <2>5, <2>6, ServerAssumption DEF TurnInv, TurnsAreKnown, TypeOK
<1>3. ASSUME NEW t \in Turns, AskApproval(t) \/ EndApproval(t)
      PROVE  TurnInv'
  BY <1>0, <1>3, SameTurns DEF AskApproval, EndApproval, Live, TypeOK
<1>4. ASSUME NEW t \in Turns, EndTurn(t)
      PROVE  TurnInv'
  <2>1. running' = [running EXCEPT ![SessionOf[t]] = None] /\ turn[t] = "working"
        /\ turn' = [turn EXCEPT ![t] = "ended"] /\ stage' = stage
    BY <1>4 DEF EndTurn, server
  <2>2. \A u \in Turns : Live(u)' <=> Live(u) /\ u # t
    BY <2>1 DEF Live, TypeOK
  <2>3. \A s \in Sessions : running'[s] = IF s = SessionOf[t] THEN None ELSE running[s]
    BY <2>1 DEF TypeOK
  <2>4. Reached("fleets")' <=> Reached("fleets")
    BY <2>1 DEF Reached
  <2>5. Live(t)
    BY <2>1 DEF Live
  <2> QED
    BY <2>2, <2>3, <2>4, <2>5, ServerAssumption DEF TurnInv, TurnsAreKnown, TypeOK
<1>5. CASE CancelTurns
  <2>1. stage' = "fleets" /\ \A s \in Sessions : running'[s] = None
    BY <1>5 DEF CancelTurns, Advance
  <2>2. Reached("fleets")'
    BY <2>1, Ranks DEF Reached
  <2> QED
    BY <2>1, <2>2 DEF TurnInv, TurnsAreKnown
<1> QED
  BY <1>1, <1>2, <1>3, <1>4, <1>5
  DEF Next, HangUp, CancelTurn, FindFleet, StartRun, SpawnAgent, EndAgent, CancelRun, FinishRun,
      Signal, Shutdown, Unsubscribe, CloseFleets, StopAgent, StopFleets, WaitFleets, CloseHub,
      CancelBase, CloseHTTP, vars, turns

-----------------------------------------------------------------------------
(* Runs *)

\* Runs that are done and known as before.
LEMMA SameRuns ==
  ASSUME TypeOK, RunInv, run' \in [Runs -> {"new", "checked", "running", "done"}],
         finished' = finished, known' \subseteq Runs,
         \A r \in Runs : /\ run'[r] = "done" <=> run[r] = "done"
                         /\ run'[r] = "running" => r \in known'
                         /\ run[r] = "done" /\ r \in known' => r \in known
                         /\ run[r] = "done" /\ r \in known => r \in known'
  PROVE  RunInv'
<1>1. {r \in known' : run'[r] = "done"} = {r \in known : run[r] = "done"}
  BY DEF TypeOK
<1>2. RunsAreKnown'
  BY <1>1 DEF RunInv, RunsAreKnown
<1> QED
  BY <1>2 DEF RunInv

LEMMA Least ==
  ASSUME NEW I \in SUBSET Nat, I # {}
  PROVE  \E x \in I : \A y \in I : x <= y
<1>1. PICK x \in I : \A y \in I : <<y, x>> \notin OpToRel(<, Nat)
  BY NatLessThanWellFounded, WFMin
<1>2. OpToRel(<, Nat) = {ss \in Nat \X Nat : ss[1] < ss[2]}
  BY Zenon DEF OpToRel
<1>3. \A y \in I : ~(y < x)
  BY <1>1, <1>2
<1> QED
  BY <1>3

\* When a run has finished, those forgotten leave no more than may be kept: the
\* oldest that is kept has at most Retain behind it, and all others are there.
LEMMA KeptAreFew ==
  ASSUME TypeOK, RunInv, NEW r \in Runs, FinishRun(r)
  PROVE  RunInv'
<1> DEFINE n == Len(finished')
           Since(i) == {j \in DOMAIN finished' : j >= i /\ finished'[j] \in known}
           K == {j \in DOMAIN finished' : finished'[j] \in known'}
<1>1. /\ run[r] = "running" /\ run' = [run EXCEPT ![r] = "done"]
      /\ finished' = Append(finished, r)
      /\ known' = {q \in known :
                     \A i \in DOMAIN finished' : finished'[i] = q => Cardinality(Since(i)) <= Retain}
  BY DEF FinishRun, Over
<1>2. /\ finished' \in Seq(Runs) /\ n \in Nat /\ DOMAIN finished' = 1..n
      /\ n = Len(finished) + 1 /\ finished'[n] = r /\ DOMAIN finished = 1..Len(finished)
      /\ \A i \in 1..Len(finished) : finished'[i] = finished[i]
  BY <1>1, AppendProperties, LenProperties DEF TypeOK
<1>3. \A q \in Runs : run'[q] = "done" <=> run[q] = "done" \/ q = r
  BY <1>1 DEF TypeOK
<1>4. ASSUME NEW q \in Runs
      PROVE  run'[q] = "done" <=> \E i \in DOMAIN finished' : finished'[i] = q
  <2>1. CASE q = r
    BY <1>2, <1>3, <2>1
  <2>2. CASE q # r
    <3>1. (\E i \in DOMAIN finished' : finished'[i] = q)
          <=> (\E i \in DOMAIN finished : finished[i] = q)
      BY <1>2, <2>2
    <3> QED
      BY <1>3, <2>2, <3>1 DEF RunInv
  <2> QED
    BY <2>1, <2>2
<1>5. \A i \in DOMAIN finished' : run'[finished'[i]] = "done"
  BY <1>2, <1>4, ElementOfSeq
<1>6. ASSUME NEW q \in Runs, run'[q] = "running"
      PROVE  q \in known'
  <2>1. run[q] = "running" /\ q \in known
    BY <1>1, <1>6 DEF TypeOK, RunInv, RunsAreKnown
  <2>2. \A i \in DOMAIN finished' : finished'[i] # q
    BY <1>5, <1>6
  <2> QED
    BY <1>1, <2>1, <2>2
<1>7. {q \in known' : run'[q] = "done"} = {finished'[j] : j \in K}
  <2>1. known' \subseteq Runs
    BY <1>1 DEF TypeOK
  <2> QED
    BY <1>4, <1>5, <2>1
<1>8. IsFiniteSet(K) /\ Cardinality(K) <= Retain
  <2>1. CASE K = {}
    BY <2>1, FS_EmptySet, ServerAssumption
  <2>2. CASE K # {}
    <3>1. K \in SUBSET Nat
      BY <1>2
    <3>2. PICK m \in K : \A j \in K : m <= j
      BY <2>2, <3>1, Least
    <3>3. K \subseteq Since(m)
      BY <1>1, <3>2, <1>2
    <3>4. IsFiniteSet(Since(m))
      <4>1. IsFiniteSet(1..n)
        BY <1>2, FS_Interval
      <4>2. Since(m) \subseteq 1..n
        BY <1>2
      <4> QED
        BY <4>1, <4>2, FS_Subset
    <3>5. Cardinality(Since(m)) <= Retain
      BY <1>1, <3>2
    <3>6. IsFiniteSet(K) /\ Cardinality(K) <= Cardinality(Since(m))
      BY <3>3, <3>4, FS_Subset
    <3>7. Cardinality(K) \in Nat /\ Cardinality(Since(m)) \in Nat
      BY <3>4, <3>6, FS_CardinalityType
    <3> QED
      BY <3>5, <3>6, <3>7, ServerAssumption
  <2> QED
    BY <2>1, <2>2
<1>9. Cardinality({finished'[j] : j \in K}) <= Retain
  <2> DEFINE T == {finished'[j] : j \in K}
  <2>1. [j \in K |-> finished'[j]] \in Surjection(K, T)
    BY DEF Surjection
  <2> HIDE DEF K, T
  <2>2. IsFiniteSet(T) /\ Cardinality(T) <= Cardinality(K)
    BY <1>8, <2>1, FS_Surjection
  <2>3. Cardinality(K) \in Nat /\ Cardinality(T) \in Nat
    BY <1>8, <2>2, FS_CardinalityType
  <2> USE DEF T
  <2> QED
    BY <1>8, <2>1, <2>2, <2>3, ServerAssumption
<1> QED
  BY <1>4, <1>6, <1>7, <1>9 DEF RunInv, RunsAreKnown

LEMMA RunStep == TypeOK /\ RunInv /\ [Next]_vars => RunInv'
<1> SUFFICES ASSUME TypeOK, RunInv, [Next]_vars
             PROVE  RunInv'
  OBVIOUS
<1>0. run' \in [Runs -> {"new", "checked", "running", "done"}] /\ known' \subseteq Runs
  BY RunsTyped
<1>1. CASE UNCHANGED <<run, known, finished>>
  BY <1>0, <1>1, SameRuns DEF RunInv, RunsAreKnown
<1>2. ASSUME NEW r \in Runs, FindFleet(r) \/ StartRun(r)
      PROVE  RunInv'
  BY <1>0, <1>2, SameRuns DEF FindFleet, StartRun, RunInv, RunsAreKnown, TypeOK
<1>3. ASSUME NEW r \in Runs, FinishRun(r)
      PROVE  RunInv'
  BY <1>3, KeptAreFew
<1> QED
  BY <1>1, <1>2, <1>3
  DEF Next, BeginTurn, AskApproval, EndApproval, HangUp, EndTurn, CancelTurn, SpawnAgent,
      EndAgent, CancelRun, Signal, Shutdown, Unsubscribe, CancelTurns, CloseFleets, StopAgent,
      StopFleets, WaitFleets, CloseHub, CancelBase, CloseHTTP, vars, runs

-----------------------------------------------------------------------------
(* Theorems *)

\* What works is known, and the types are right.
THEOREM ServerInvariant == Spec => []ServerInv
<1>1. Init => ServerInv
  <2> SUFFICES ASSUME Init
               PROVE  ServerInv
    OBVIOUS
  <2>1. DOMAIN <<>> = {} /\ <<>> \in Seq(Runs)
    BY EmptySeq
  <2>2. TypeOK
    BY <2>1, Ranks DEF Init, TypeOK
  <2>3. TurnInv
    BY DEF Init, TurnInv, TurnsAreKnown, Live
  <2>4. {r \in known : run[r] = "done"} = {}
    BY DEF Init
  <2>5. RunInv
    BY <2>1, <2>4, FS_EmptySet, ServerAssumption DEF Init, RunInv, RunsAreKnown
  <2> QED
    BY <2>2, <2>3, <2>5 DEF ServerInv
<1>2. ServerInv /\ [Next]_vars => ServerInv'
  <2> SUFFICES ASSUME ServerInv, [Next]_vars
               PROVE  ServerInv'
    OBVIOUS
  <2>1. TypeOK'
    BY TurnsTyped, RunsTyped, AgentsTyped, StageStep DEF ServerInv, TypeOK
  <2>2. TurnInv' /\ RunInv'
    BY TurnStep, RunStep DEF ServerInv
  <2> QED
    BY <2>1, <2>2 DEF ServerInv
<1> QED
  BY <1>1, <1>2, PTL DEF Spec

\* The turn that works in a session is alone there and can be cancelled, and so
\* can every run; few that are done are remembered (server.go:599-618,
\* agents.go:603-631).
THEOREM WorkStaysKnown == Spec => []WorkIsKnown
<1>1. ServerInv => WorkIsKnown
  BY DEF ServerInv, TurnInv, RunInv, WorkIsKnown
<1> QED
  BY <1>1, ServerInvariant, PTL

-----------------------------------------------------------------------------
(* The hub.                                                                   *)

HubInv == H!TypeOK /\ H!ClosedReachesAll

\* A message counts as queued or as lost, and may be the reason to cut off.
LEMMA EnqueuedTyped ==
  ASSUME H!TypeOK, NEW c \in Clients, H!Enqueued(c)
  PROVE  /\ queued' \in [Clients -> Nat] /\ dropped' \in [Clients -> Nat]
         /\ kill' \in [Clients -> {"no", "normal", "slow", "away"}]
         /\ \A d \in Clients : kill[d] # "no" => kill'[d] = kill[d]
         /\ \A d \in Clients : dropped[d] <= dropped'[d]
<1>1. CASE queued[c] < Buffer
  BY <1>1 DEF H!TypeOK, H!Enqueued
<1>2. CASE ~(queued[c] < Buffer)
  <2>1. dropped' = [dropped EXCEPT ![c] = @ + 1] /\ queued' = queued
    BY <1>2 DEF H!Enqueued
  <2>2. kill' = kill \/ (kill[c] = "no" /\ kill' = [kill EXCEPT ![c] = "slow"])
    BY <1>2 DEF H!Enqueued
  <2> QED
    BY <2>1, <2>2 DEF H!TypeOK
<1> QED
  BY <1>1, <1>2

\* As long as the hub keeps its state and no reason is withdrawn, all are reached.
LEMMA StillReached ==
  ASSUME H!ClosedReachesAll, closed' = closed, members' \subseteq members, stopping' = stopping,
         \A c \in Clients : kill[c] # "no" => kill'[c] = kill[c]
  PROVE  H!ClosedReachesAll'
BY DEF H!ClosedReachesAll

\* Every step keeps the invariant.
LEMMA StepKeeps == HubInv /\ [H!Next]_H!vars => HubInv'
<1> SUFFICES ASSUME HubInv, [H!Next]_H!vars
             PROVE  HubInv'
  OBVIOUS
<1> USE DEF HubInv
<1>1. ASSUME NEW c \in Clients, H!Join(c)
      PROVE  HubInv'
  BY <1>1 DEF H!Join, H!TypeOK, H!ClosedReachesAll
<1>2. ASSUME NEW c \in Clients, H!SendHello(c) \/ H!Answer(c)
      PROVE  HubInv'
  <2>1. H!Enqueued(c)
    BY <1>2 DEF H!SendHello, H!Answer
  <2>2. H!TypeOK'
    BY <1>2, <2>1, EnqueuedTyped DEF H!SendHello, H!Answer, H!TypeOK, H!hub
  <2>3. H!ClosedReachesAll'
    BY <1>2, <2>1, EnqueuedTyped, StillReached DEF H!SendHello, H!Answer, H!hub
  <2> QED
    BY <2>2, <2>3
<1>3. ASSUME NEW c \in Clients, H!PeerCloses(c) \/ H!StopReading(c) \/ H!Finish(c)
      PROVE  HubInv'
  <2>1. H!TypeOK'
    BY <1>3 DEF H!PeerCloses, H!StopReading, H!Finish, H!TypeOK, H!hub
  <2>2. /\ closed' = closed /\ stopping' = stopping /\ members' \subseteq members
        /\ \A d \in Clients : kill[d] # "no" => kill'[d] = kill[d]
    BY <1>3 DEF H!PeerCloses, H!StopReading, H!Finish, H!TypeOK, H!hub
  <2> QED
    BY <2>1, <2>2, StillReached
<1>4. ASSUME NEW c \in Clients,
             \/ \E written \in BOOLEAN : H!Write(c, written)
             \/ \E answered \in BOOLEAN : H!Tick(c, answered)
             \/ H!StartClosing(c) \/ H!EndClosing(c)
      PROVE  HubInv'
  <2>1. H!hub' = H!hub /\ kill' = kill /\ handler' = handler /\ casting' = casting
        /\ published' = published /\ dropped' = dropped
    BY <1>4 DEF H!Write, H!Tick, H!StartClosing, H!EndClosing, H!hub
  <2>2. pump' \in [Clients -> {"none", "running", "closing", "ended"}]
    BY <1>4 DEF H!Write, H!Tick, H!StartClosing, H!EndClosing, H!Drop, H!TypeOK
  <2>3. conn' \in [Clients -> {"none", "open", "closed"}]
    BY <1>4 DEF H!Write, H!Tick, H!StartClosing, H!EndClosing, H!Drop, H!TypeOK
  <2>4. queued' \in [Clients -> Nat] /\ told' \in [Clients -> Nat]
    BY <1>4 DEF H!Write, H!Tick, H!StartClosing, H!EndClosing, H!TypeOK
  <2> QED
    BY <2>1, <2>2, <2>3, <2>4, StillReached DEF H!TypeOK, H!hub
<1>5. ASSUME NEW p \in Publishers, H!Publish(p)
      PROVE  HubInv'
  BY <1>5, StillReached DEF H!Publish, H!TypeOK, H!hub, H!client
<1>6. ASSUME NEW p \in Publishers, NEW c \in Clients, H!Cast(p, c)
      PROVE  HubInv'
  <2>1. H!TypeOK'
    BY <1>6, EnqueuedTyped DEF H!Cast, H!TypeOK, H!hub
  <2>2. H!ClosedReachesAll'
    BY <1>6, EnqueuedTyped, StillReached DEF H!Cast, H!hub
  <2> QED
    BY <2>1, <2>2
<1>7. CASE H!Close
  BY <1>7 DEF H!Close, H!TypeOK, H!ClosedReachesAll, H!client
<1>8. ASSUME NEW c \in Clients, H!Stop(c)
      PROVE  HubInv'
  BY <1>8 DEF H!Stop, H!TypeOK, H!ClosedReachesAll
<1>9. ASSUME NEW c \in Clients, NEW inTime \in BOOLEAN, H!Await(c, inTime)
      PROVE  HubInv'
  BY <1>9, StillReached DEF H!Await, H!TypeOK
<1>10. CASE H!EndBase
  BY <1>10, StillReached DEF H!EndBase, H!TypeOK, H!client
<1>11. CASE UNCHANGED H!vars
  BY <1>11 DEF H!vars, H!hub, H!client, H!TypeOK, H!ClosedReachesAll
<1> QED
  BY <1>1, <1>2, <1>3, <1>4, <1>5, <1>6, <1>7, <1>8, <1>9, <1>10, <1>11
  DEF H!Next, H!Handler, H!Pump, H!Ticker, H!Shutdown

\* The variables of the hub have their types, and the shutdown reaches every
\* connection (shutdown, websocket.go:224-250).
THEOREM HubInvariant == H!Spec => []HubInv
<1>1. H!Init => HubInv
  <2> SUFFICES ASSUME H!Init
               PROVE  H!TypeOK /\ H!ClosedReachesAll
    BY DEF HubInv
  <2>1. H!ClosedReachesAll
    BY DEF H!Init, H!ClosedReachesAll
  <2>2. closed \in BOOLEAN /\ baseDone \in BOOLEAN
    BY DEF H!Init
  <2>3. members \subseteq Clients /\ stopping \subseteq Clients /\ awaited \subseteq Clients
    BY DEF H!Init
  <2>4. /\ handler \in [Clients -> {"new", "refused", "joined", "reading", "leaving", "finished"}]
        /\ pump \in [Clients -> {"none", "running", "closing", "ended"}]
        /\ conn \in [Clients -> {"none", "open", "closed"}]
        /\ kill \in [Clients -> {"no", "normal", "slow", "away"}]
    BY DEF H!Init
  <2>5. /\ queued \in [Clients -> Nat] /\ dropped \in [Clients -> Nat]
        /\ told \in [Clients -> Nat] /\ published \in Nat
        /\ casting \in [Publishers -> SUBSET Clients]
    BY DEF H!Init
  <2> QED
    BY <2>1, <2>2, <2>3, <2>4, <2>5 DEF H!TypeOK
<1> QED
  BY <1>1, StepKeeps, PTL DEF H!Spec

\* No connection outlives the shutdown of the hub: no client is left in it that
\* is neither told to stop nor about to be, whoever joins or leaves meanwhile.
THEOREM ShutdownReachesAll == H!Spec => []ClosedReachesAll
<1>1. HubInv => ClosedReachesAll
  BY DEF HubInv, ClosedReachesAll
<1> QED
  BY <1>1, HubInvariant, PTL

\* The first reason that a connection was given to end is never replaced, and
\* what a client is told it has missed never exceeds what it has.
THEOREM ReasonsStay == H!Spec => H!FirstReasonStays
<1>1. HubInv /\ [H!Next]_H!vars =>
        [\A c \in Clients : /\ kill[c] # "no" => kill'[c] = kill[c]
                            /\ told[c] <= dropped[c] => told'[c] <= dropped'[c]]_H!vars
  <2> SUFFICES ASSUME HubInv, H!Next, NEW c \in Clients
               PROVE  /\ kill[c] # "no" => kill'[c] = kill[c]
                      /\ told[c] <= dropped[c] => told'[c] <= dropped'[c]
    BY DEF HubInv
  <2> USE DEF HubInv
  <2>1. ASSUME NEW d \in Clients, H!SendHello(d) \/ H!Answer(d)
                                 \/ \E p \in Publishers : H!Cast(p, d)
        PROVE  /\ kill[c] # "no" => kill'[c] = kill[c]
               /\ told[c] <= dropped[c] => told'[c] <= dropped'[c]
    <3>1. H!Enqueued(d) /\ told' = told
      BY <2>1 DEF H!SendHello, H!Answer, H!Cast
    <3>2. kill[c] # "no" => kill'[c] = kill[c]
      BY <3>1, EnqueuedTyped
    <3>3. told[c] \in Nat /\ dropped[c] \in Nat /\ dropped'[c] \in Nat /\ dropped[c] <= dropped'[c]
      BY <3>1, EnqueuedTyped DEF H!TypeOK
    <3> QED
      BY <3>1, <3>2, <3>3
  <2>2. ASSUME NEW d \in Clients, H!Join(d) \/ H!PeerCloses(d) \/ H!StopReading(d) \/ H!Finish(d)
                                 \/ H!Pump(d) \/ H!Ticker(d) \/ H!Stop(d)
                                 \/ \E inTime \in BOOLEAN : H!Await(d, inTime)
        PROVE  /\ kill[c] # "no" => kill'[c] = kill[c]
               /\ told[c] <= dropped[c] => told'[c] <= dropped'[c]
    <3>1. kill[c] # "no" => kill'[c] = kill[c]
      BY <2>2 DEF H!Join, H!PeerCloses, H!StopReading, H!Finish, H!Pump, H!Ticker, H!Write, H!Tick,
                  H!StartClosing, H!EndClosing, H!Stop, H!Await, H!TypeOK
    <3>2. dropped' = dropped /\ (told' = told \/ told' = [told EXCEPT ![d] = dropped[d]])
      BY <2>2 DEF H!Join, H!PeerCloses, H!StopReading, H!Finish, H!Pump, H!Ticker, H!Write, H!Tick,
                  H!StartClosing, H!EndClosing, H!Stop, H!Await
    <3>3. told[c] <= dropped[c] => told'[c] <= dropped'[c]
      BY <3>2 DEF H!TypeOK
    <3> QED
      BY <3>1, <3>3
  <2>3. CASE H!Close \/ H!EndBase \/ \E p \in Publishers : H!Publish(p)
    BY <2>3 DEF H!Close, H!EndBase, H!Publish, H!client
  <2> QED
    BY <2>1, <2>2, <2>3 DEF H!Next, H!Handler, H!Shutdown
<1> QED
  BY <1>1, HubInvariant, PTL DEF H!Spec, H!FirstReasonStays

\* What MCWeb runs is a behaviour of each of its parts.
THEOREM WebRunsParts == WebSpec => Spec /\ H!Spec
<1>1. WebInit => Init /\ H!Init
  BY DEF WebInit
<1>2. [WebNext]_<<vars, hubVars, fleetVars>> => [Next]_vars /\ [H!Next]_H!vars
  <2>1. UNCHANGED hubVars => UNCHANGED H!vars
    BY DEF hubVars, H!vars, H!hub, H!client
  <2> QED
    BY Zenon, <2>1 DEF WebNext
<1> QED
  BY <1>1, <1>2, PTL DEF WebSpec, Spec, H!Spec
=============================================================================
