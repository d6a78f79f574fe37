------------------------------- MODULE Server -------------------------------
(* The web server's own work (web/server.go, web/api.go, web/agents.go): the  *)
(* turns that requests start, one at a time in a session, the background runs *)
(* of agents, what connected browsers are shown of them, and the shutdown     *)
(* that has to end it all while requests still come in.                       *)
(*                                                                            *)
(* A turn may be parked at an approval, whose wait is bound to the program    *)
(* and not to the turn. A run has one agent here, and the coordinator of its  *)
(* session the agents of its runs (Coordinator has the whole story).          *)
EXTENDS Integers, Sequences, FiniteSets

CONSTANTS Sessions, Turns, Runs,
          SessionOf,   \* of a turn or a run
          Background,  \* turns that outlive their request, as runs do
          None,
          Retain       \* retainedRuns: finished runs that are remembered

ASSUME ServerAssumption ==
  /\ SessionOf \in [Turns \cup Runs -> Sessions]
  /\ Background \subseteq Turns /\ None \notin Turns
  /\ Retain \in Nat

VARIABLES turn,       \* stage of a turn: "new", "working", "asking", "ended"
          turnDone,   \* turns whose context has ended
          running,    \* the turn registered for a session
          run,        \* stage of a run: "new", "checked", "running", "done"
          runDone,    \* runs whose context has ended
          known,      \* runs the server remembers
          finished,   \* runs that are done, in the order they finished
          agent,      \* how the agent of a run stands
          shown,      \* how the browsers see it
          fleets,     \* sessions that have a coordinator
          stage,      \* of Shutdown
          subscribed, fleetClosed, hubClosed

turns == <<turn, turnDone, running>>
runs == <<run, runDone, known, finished>>
agents == <<agent, shown, fleets>>
server == <<stage, subscribed, fleetClosed, hubClosed>>
vars == <<turns, runs, agents, server>>

\* What the shutdown has reached, or does next.
Rank == [up |-> 0, signalled |-> 1, turns |-> 2, fleets |-> 3, stopping |-> 4, waiting |-> 5,
         hub |-> 6, base |-> 7, http |-> 8, down |-> 9]
Reached(s) == Rank[stage] >= Rank[s]

\* Requests are served until the very end.
Serving == stage # "down"
Live(t) == turn[t] \in {"working", "asking"}
Ended == {"cancelled", "ended"}

-----------------------------------------------------------------------------
(* Turns.                                                                     *)

\* Mutant: a session that is busy is not asked.
BeginTurnAnyway(t) ==
  /\ turn[t] = "new" /\ Serving
  /\ running' = [running EXCEPT ![SessionOf[t]] = t]
  /\ turn' = [turn EXCEPT ![t] = "working"]
  /\ turnDone' = IF Reached("http") THEN turnDone \cup {t} ELSE turnDone
  /\ UNCHANGED <<runs, agents, server>>

\* One that is refused has left nothing behind. The context of a background
\* turn is the server's, that of another its request's, which derives from it.
BeginTurn(t) ==
  /\ turn[t] = "new" /\ Serving
  /\ running[SessionOf[t]] = None
  /\ running' = [running EXCEPT ![SessionOf[t]] = t]
  /\ turn' = [turn EXCEPT ![t] = "working"]
  /\ turnDone' = IF Reached("http") THEN turnDone \cup {t} ELSE turnDone
  /\ UNCHANGED <<runs, agents, server>>

\* A tool call waits for the user, until the program is told to stop.
AskApproval(t) ==
  /\ turn[t] = "working" /\ ~Reached("signalled")
  /\ turn' = [turn EXCEPT ![t] = "asking"]
  /\ UNCHANGED <<turnDone, running, runs, agents, server>>

EndApproval(t) ==
  /\ turn[t] = "asking"
  /\ turn' = [turn EXCEPT ![t] = "working"]
  /\ UNCHANGED <<turnDone, running, runs, agents, server>>

CancelTurn(s) ==
  /\ running[s] # None
  /\ turnDone' = turnDone \cup {running[s]}
  /\ UNCHANGED <<turn, running, runs, agents, server>>

\* The client of a turn that is answered in its response hangs up.
HangUp(t) ==
  /\ Live(t) /\ t \notin Background
  /\ turnDone' = turnDone \cup {t}
  /\ UNCHANGED <<turn, running, runs, agents, server>>

\* Whatever turn is registered for the session now is struck out.
EndTurn(t) ==
  /\ turn[t] = "working"
  /\ turn' = [turn EXCEPT ![t] = "ended"]
  /\ turnDone' = turnDone \cup {t}
  /\ running' = [running EXCEPT ![SessionOf[t]] = None]
  /\ UNCHANGED <<runs, agents, server>>

-----------------------------------------------------------------------------
(* Runs of agents.                                                            *)

\* A change of an agent reaches the browsers over the bus and the hub.
Published(r, status) ==
  /\ agent' = [agent EXCEPT ![r] = status]
  /\ shown' = IF subscribed /\ ~hubClosed THEN [shown EXCEPT ![r] = status] ELSE shown

\* The request finds the coordinator of the session, or makes it.
FindFleet(r) ==
  /\ run[r] = "new" /\ Serving /\ ~fleetClosed
  /\ run' = [run EXCEPT ![r] = "checked"]
  /\ fleets' = fleets \cup {SessionOf[r]}
  /\ UNCHANGED <<turns, runDone, known, finished, agent, shown, server>>

StartRun(r) ==
  /\ run[r] = "checked"
  /\ run' = [run EXCEPT ![r] = "running"]
  /\ known' = known \cup {r}
  /\ runDone' = IF Reached("http") THEN runDone \cup {r} ELSE runDone
  /\ UNCHANGED <<turns, finished, agents, server>>

SpawnAgent(r) ==
  /\ run[r] = "running" /\ agent[r] = "none" /\ r \notin runDone
  /\ Published(r, "working")
  /\ UNCHANGED <<turns, runs, fleets, server>>

\* The agent is through, or its context has ended.
EndAgent(r) ==
  /\ agent[r] = "working"
  /\ Published(r, IF r \in runDone THEN "cancelled" ELSE "ended")
  /\ UNCHANGED <<turns, runs, fleets, server>>

CancelRun(r) ==
  /\ run[r] = "running"
  /\ runDone' = runDone \cup {r}
  /\ UNCHANGED <<turns, run, known, finished, agents, server>>

\* A run that has done with its agents.
Over(r) == run[r] = "running" /\ (agent[r] \in Ended \/ (agent[r] = "none" /\ r \in runDone))

\* A run is forgotten when more than Retain that are known have finished since
\* it did, itself among them.
FinishRun(r) ==
  /\ Over(r)
  /\ run' = [run EXCEPT ![r] = "done"]
  /\ finished' = Append(finished, r)
  /\ LET Since(i) == {j \in DOMAIN finished' : j >= i /\ finished'[j] \in known}
     IN known' = {q \in known :
                    \A i \in DOMAIN finished' : finished'[i] = q => Cardinality(Since(i)) <= Retain}
  /\ UNCHANGED <<turns, runDone, agents, server>>

-----------------------------------------------------------------------------
(* Shutdown, one step after the other.                                        *)

Advance(from, to) == stage = from /\ stage' = to

\* The program's context ends: no approval is waited for from now on.
Signal ==
  /\ Advance("up", "signalled")
  /\ UNCHANGED <<turns, runs, agents, subscribed, fleetClosed, hubClosed>>

Unsubscribe ==
  /\ Advance("signalled", "turns")
  /\ subscribed' = FALSE
  /\ UNCHANGED <<turns, runs, agents, fleetClosed, hubClosed>>

CancelTurns ==
  /\ Advance("turns", "fleets")
  /\ turnDone' = turnDone \cup ({running[s] : s \in Sessions} \ {None})
  /\ running' = [s \in Sessions |-> None]
  /\ UNCHANGED <<turn, runs, agents, subscribed, fleetClosed, hubClosed>>

CloseFleets ==
  /\ Advance("fleets", "stopping")
  /\ fleetClosed' = TRUE
  /\ runDone' = runDone \cup {r \in known : run[r] = "running"}
  /\ UNCHANGED <<turns, run, known, finished, agents, subscribed, hubClosed>>

\* Each agent of a coordinator is told to stop and marked.
StopAgent(r) ==
  /\ stage = "stopping" /\ SessionOf[r] \in fleets /\ agent[r] = "working"
  /\ Published(r, "cancelled")
  /\ UNCHANGED <<turns, runs, fleets, server>>

StopFleets ==
  /\ \A r \in Runs : SessionOf[r] \in fleets => agent[r] # "working"
  /\ Advance("stopping", "waiting")
  /\ UNCHANGED <<turns, runs, agents, subscribed, fleetClosed, hubClosed>>

\* The agents have ended, or the grace is over.
WaitFleets ==
  /\ Advance("waiting", "hub")
  /\ UNCHANGED <<turns, runs, agents, subscribed, fleetClosed, hubClosed>>

CloseHub ==
  /\ Advance("hub", "base")
  /\ hubClosed' = TRUE
  /\ UNCHANGED <<turns, runs, agents, subscribed, fleetClosed>>

\* Mutant: the server's context is left alone.
CancelNothing ==
  /\ Advance("base", "http")
  /\ UNCHANGED <<turns, runs, agents, subscribed, fleetClosed, hubClosed>>

\* Every context of the server ends: the requests' too, by BaseContext.
CancelBase ==
  /\ Advance("base", "http")
  /\ turnDone' = turnDone \cup {t \in Turns : Live(t)}
  /\ runDone' = runDone \cup {r \in Runs : run[r] = "running"}
  /\ UNCHANGED <<turn, running, run, known, finished, agents, subscribed, fleetClosed, hubClosed>>

\* The listener is closed and requests under way are awaited, or dropped when
\* the grace is over: their contexts have ended already.
CloseHTTP ==
  /\ Advance("http", "down")
  /\ UNCHANGED <<turns, runs, agents, subscribed, fleetClosed, hubClosed>>

Shutdown ==
  \/ Unsubscribe \/ CancelTurns \/ CloseFleets \/ StopFleets \/ WaitFleets \/ CloseHub
  \/ CancelBase \/ CloseHTTP
  \/ \E r \in Runs : StopAgent(r)

Init ==
  /\ turn = [t \in Turns |-> "new"] /\ turnDone = {}
  /\ running = [s \in Sessions |-> None]
  /\ run = [r \in Runs |-> "new"] /\ runDone = {} /\ known = {} /\ finished = <<>>
  /\ agent = [r \in Runs |-> "none"] /\ shown = [r \in Runs |-> "none"] /\ fleets = {}
  /\ stage = "up" /\ subscribed = TRUE /\ fleetClosed = FALSE /\ hubClosed = FALSE

\* What goes on by itself: contexts that ended are noticed, an approval is not
\* awaited after the signal.
Unwind(t) == (t \in turnDone /\ EndTurn(t)) \/ (Reached("signalled") /\ EndApproval(t))
UnwindRun(r) == StartRun(r) \/ SpawnAgent(r) \/ (r \in runDone /\ EndAgent(r)) \/ FinishRun(r)

Next ==
  \/ \E t \in Turns :
       BeginTurn(t) \/ AskApproval(t) \/ EndApproval(t) \/ HangUp(t) \/ EndTurn(t)
  \/ \E s \in Sessions : CancelTurn(s)
  \/ \E r \in Runs :
       FindFleet(r) \/ StartRun(r) \/ SpawnAgent(r) \/ EndAgent(r) \/ CancelRun(r) \/ FinishRun(r)
  \/ Signal \/ Shutdown

Spec == Init /\ [][Next]_vars

(* Work whose context has ended comes to its end, shutdown goes on. Nobody is *)
(* obliged to answer, to cancel or to be done.                                *)
Fairness ==
  /\ \A t \in Turns : WF_vars(Unwind(t))
  /\ \A r \in Runs : WF_vars(UnwindRun(r))
  /\ WF_vars(Shutdown)

FairSpec == Spec /\ Fairness
-----------------------------------------------------------------------------
(* Properties.                                                                *)

\* Every variable has its type.
TypeOK ==
  /\ turn \in [Turns -> {"new", "working", "asking", "ended"}]
  /\ turnDone \subseteq Turns
  /\ running \in [Sessions -> Turns \cup {None}]
  /\ run \in [Runs -> {"new", "checked", "running", "done"}]
  /\ runDone \subseteq Runs /\ known \subseteq Runs
  /\ finished \in Seq(Runs)
  /\ agent \in [Runs -> {"none", "working"} \cup Ended]
  /\ shown \in [Runs -> {"none", "working"} \cup Ended]
  /\ fleets \subseteq Sessions
  /\ stage \in DOMAIN Rank
  /\ subscribed \in BOOLEAN /\ fleetClosed \in BOOLEAN /\ hubClosed \in BOOLEAN

\* What works can be found and cancelled. While the server is up, the turn that
\* works in a session is the one registered for it, so that it is alone there
\* (server.go:599-601); a session whose turn has ended takes another; and a run
\* that is going is remembered, while of those that are done only the newest are.
TurnsAreKnown ==
  /\ \A t \in Turns : Live(t) /\ ~Reached("fleets") => running[SessionOf[t]] = t
  /\ \A s \in Sessions : running[s] # None => Live(running[s])

RunsAreKnown ==
  /\ {r \in Runs : run[r] = "running"} \subseteq known
  /\ Cardinality({r \in known : run[r] = "done"}) <= Retain

WorkIsKnown == TurnsAreKnown /\ RunsAreKnown

\* Shutdown ends every turn and every run, also one that came in between its
\* steps.
ShutdownEndsAll ==
  Reached("signalled") ~>
    /\ stage = "down"
    /\ \A t \in Turns : ~Live(t)
    /\ \A r \in Runs : run[r] \in {"new", "done"}

\* As long as browsers are connected they see how an agent has ended
\* (agents.go:290-293: "the cancelled status of each agent still reaches
\* connected clients").
StatusReachesClients ==
  ~hubClosed => \A r \in Runs : agent[r] \in Ended => shown[r] = agent[r]
=============================================================================
