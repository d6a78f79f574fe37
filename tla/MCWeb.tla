-------------------------------- MODULE MCWeb --------------------------------
(* The server's share of the web frontend: its work and its hub; and the      *)
(* agents of a run, whom its owner waits for. They share no state of these    *)
(* models, so a behaviour is one of any of them. MCCoordinator has the safety *)
(* of the agents, with one more.                                              *)
EXTENDS Server

CONSTANTS t1, t2, Clients, Publishers, Buffer, MaxDropped, MaxMessages,
          g, h, Agents, Owned, NoAgent, Callers, Waiters, MaxDepth, MaxAgents, Retained

VARIABLES closed, members, stopping, awaited, baseDone, handler, pump, conn, kill, queued,
          dropped, told, casting, published,
          enabled, fleet, serial, status, depth, root, worker, ctxDone, done, call, todo,
          target, wait

hubVars == <<closed, members, stopping, awaited, baseDone, handler, pump, conn, kill, queued,
             dropped, told, casting, published>>
fleetVars == <<enabled, fleet, serial, status, depth, root, worker, ctxDone, done, call, todo,
               target, wait>>

MCSessionOf == [x \in Turns \cup Runs |-> "s"]

\* The second agent is a root or below the first.
MCParents == [a \in Agents |-> IF a = g THEN {NoAgent} ELSE {NoAgent, g}]

H == INSTANCE Hub
A == INSTANCE Coordinator WITH
  stage <- call, closed <- done, Parents <- MCParents, Retain <- Retained

\* While another part moves, the switch of the agents is on.
NoAgents == A!Init /\ enabled

WebInit == Init /\ H!Init /\ A!Init
WebNext ==
  \/ H!Init /\ NoAgents /\ Next /\ UNCHANGED <<hubVars, fleetVars>>
  \/ Init /\ NoAgents /\ H!Next /\ UNCHANGED <<vars, fleetVars>>
  \/ Init /\ H!Init /\ A!Next /\ UNCHANGED <<vars, hubVars>>
WebSpec == WebInit /\ [][WebNext]_<<vars, hubVars, fleetVars>>
WebFairSpec == WebSpec /\ Fairness /\ H!Fairness /\ A!Fairness

ClosedReachesAll == H!ClosedReachesAll
DropsAreTold == H!DropsAreTold

\* Shutdown ends the work, and every connection.
ShutdownEnds == ShutdownEndsAll /\ H!HubEmpties

WaitMovesOn == A!WaitMovesOn
=============================================================================
