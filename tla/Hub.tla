-------------------------------- MODULE Hub ---------------------------------
(* The WebSocket hub of web/websocket.go: connections join it, publishers     *)
(* hand it messages and never wait, each connection has a bounded queue and a *)
(* pump that writes it, and shutdown closes them all.                         *)
(*                                                                            *)
(* Of the messages only their number matters here, and of time that a write,  *)
(* a ping and a closing handshake end, well or badly.                         *)
EXTENDS Integers, FiniteSets

CONSTANTS Clients, Publishers,
          Buffer,       \* sendBuffer: the length of a client's queue
          MaxDropped,   \* maxDropped: messages lost until it is cut off
          MaxMessages   \* bound of the model

VARIABLES closed, members,       \* of the hub
          stopping, awaited,     \* what its shutdown has still to stop and await
          baseDone,              \* the server's context has ended
          handler,               \* of handleEvents, one for each client
          pump, conn,            \* the write pump and the connection
          kill,                  \* why the pump was asked to close, if it was
          queued, dropped, told, \* messages waiting, lost, reported as lost
          casting, published     \* whom a publisher has still to serve

hub == <<closed, members, stopping, awaited, baseDone>>
client == <<handler, pump, conn, kill, queued, dropped, told>>
vars == <<hub, client, casting, published>>

\* Non-blocking: a full queue loses the message, and a client that loses too
\* many is cut off; the reason that was given first stays.
Enqueued(c) ==
  IF queued[c] < Buffer
  THEN queued' = [queued EXCEPT ![c] = @ + 1] /\ UNCHANGED <<dropped, kill>>
  ELSE /\ dropped' = [dropped EXCEPT ![c] = @ + 1]
       /\ kill' = IF dropped[c] + 1 >= MaxDropped /\ kill[c] = "no"
                  THEN [kill EXCEPT ![c] = "slow"] ELSE kill
       /\ UNCHANGED queued

-----------------------------------------------------------------------------
(* A connection.                                                              *)

\* Mutant: a hub that is closed takes clients.
JoinAlways(c) ==
  /\ handler[c] = "new"
  /\ members' = members \cup {c}
  /\ handler' = [handler EXCEPT ![c] = "joined"]
  /\ pump' = [pump EXCEPT ![c] = "running"]
  /\ conn' = [conn EXCEPT ![c] = "open"]
  /\ UNCHANGED <<closed, stopping, awaited, baseDone, kill, queued, dropped, told, casting,
                 published>>

Join(c) ==
  /\ handler[c] = "new"
  /\ IF closed
     THEN handler' = [handler EXCEPT ![c] = "refused"] /\ UNCHANGED <<members, pump, conn>>
     ELSE /\ members' = members \cup {c}
          /\ handler' = [handler EXCEPT ![c] = "joined"]
          /\ pump' = [pump EXCEPT ![c] = "running"]
          /\ conn' = [conn EXCEPT ![c] = "open"]
  /\ UNCHANGED <<closed, stopping, awaited, baseDone, kill, queued, dropped, told, casting,
                 published>>

SendHello(c) ==
  /\ handler[c] = "joined"
  /\ Enqueued(c)
  /\ handler' = [handler EXCEPT ![c] = "reading"]
  /\ UNCHANGED <<hub, pump, conn, told, casting, published>>

\* The client asks for something and is answered.
Answer(c) ==
  /\ handler[c] = "reading" /\ conn[c] = "open" /\ ~baseDone
  /\ published < MaxMessages
  /\ published' = published + 1
  /\ Enqueued(c)
  /\ UNCHANGED <<hub, handler, pump, conn, told, casting>>

\* The peer goes away.
PeerCloses(c) ==
  /\ conn[c] = "open"
  /\ conn' = [conn EXCEPT ![c] = "closed"]
  /\ UNCHANGED <<hub, handler, pump, kill, queued, dropped, told, casting, published>>

\* The read fails; the pump is asked to stop.
StopReading(c) ==
  /\ handler[c] = "reading"
  /\ conn[c] = "closed" \/ baseDone
  /\ handler' = [handler EXCEPT ![c] = "leaving"]
  /\ kill' = IF kill[c] = "no" THEN [kill EXCEPT ![c] = "normal"] ELSE kill
  /\ UNCHANGED <<hub, pump, conn, queued, dropped, told, casting, published>>

Finish(c) ==
  /\ handler[c] = "leaving" /\ pump[c] = "ended"
  /\ handler' = [handler EXCEPT ![c] = "finished"]
  /\ members' = members \ {c}
  /\ UNCHANGED <<closed, stopping, awaited, baseDone, pump, conn, kill, queued, dropped, told,
                 casting, published>>

-----------------------------------------------------------------------------
(* Its pump, which takes any of what is ready.                                *)

\* The pump ends and so does the connection.
Drop(c) ==
  /\ pump' = [pump EXCEPT ![c] = "ended"]
  /\ conn' = [conn EXCEPT ![c] = "closed"]

Write(c, written) ==
  /\ pump[c] = "running" /\ queued[c] > 0
  /\ written => conn[c] = "open" /\ ~baseDone
  /\ queued' = [queued EXCEPT ![c] = @ - 1]
  /\ IF written THEN UNCHANGED <<pump, conn>> ELSE Drop(c)
  /\ UNCHANGED <<hub, handler, kill, dropped, told, casting, published>>

\* Mutant: it only pings.
TickWithoutNotice(c, answered) ==
  /\ pump[c] = "running"
  /\ answered => conn[c] = "open" /\ ~baseDone
  /\ IF answered THEN UNCHANGED <<pump, conn>> ELSE Drop(c)
  /\ UNCHANGED <<hub, handler, kill, queued, dropped, told, casting, published>>

\* The ticker: losses are reported before the ping, which a dead peer fails.
Tick(c, answered) ==
  /\ pump[c] = "running"
  /\ answered => conn[c] = "open" /\ ~baseDone
  /\ dropped[c] > told[c] \/ ~answered
  /\ IF answered
     THEN told' = [told EXCEPT ![c] = dropped[c]] /\ UNCHANGED <<pump, conn>>
     ELSE Drop(c) /\ UNCHANGED told
  /\ UNCHANGED <<hub, handler, kill, queued, dropped, casting, published>>

Asked(c) == kill[c] # "no" \/ baseDone \/ handler[c] = "leaving"

\* The closing handshake begins, and ends well or not at all.
StartClosing(c) ==
  /\ pump[c] = "running" /\ Asked(c)
  /\ pump' = [pump EXCEPT ![c] = "closing"]
  /\ UNCHANGED <<hub, handler, conn, kill, queued, dropped, told, casting, published>>

EndClosing(c) ==
  /\ pump[c] = "closing"
  /\ Drop(c)
  /\ UNCHANGED <<hub, handler, kill, queued, dropped, told, casting, published>>

-----------------------------------------------------------------------------
(* Publishers.                                                                *)

Publish(p) ==
  /\ casting[p] = {} /\ members # {} /\ published < MaxMessages
  /\ published' = published + 1
  /\ casting' = [casting EXCEPT ![p] = members]
  /\ UNCHANGED <<hub, client>>

\* Served in some order, also those that have left meanwhile.
Cast(p, c) ==
  /\ c \in casting[p]
  /\ casting' = [casting EXCEPT ![p] = @ \ {c}]
  /\ Enqueued(c)
  /\ UNCHANGED <<hub, handler, pump, conn, told, published>>

-----------------------------------------------------------------------------
(* Shutdown.                                                                  *)

Close ==
  /\ ~closed
  /\ closed' = TRUE /\ stopping' = members /\ awaited' = members
  /\ UNCHANGED <<members, baseDone, client, casting, published>>

Stop(c) ==
  /\ c \in stopping
  /\ stopping' = stopping \ {c}
  /\ kill' = IF kill[c] = "no" THEN [kill EXCEPT ![c] = "away"] ELSE kill
  /\ UNCHANGED <<closed, members, awaited, baseDone, handler, pump, conn, queued, dropped, told,
                 casting, published>>

\* It has finished, or the grace is over and its connection is dropped.
Await(c, inTime) ==
  /\ closed /\ stopping = {} /\ c \in awaited
  /\ inTime <=> handler[c] = "finished"
  /\ awaited' = awaited \ {c}
  /\ conn' = IF inTime THEN conn ELSE [conn EXCEPT ![c] = "closed"]
  /\ UNCHANGED <<closed, members, stopping, baseDone, handler, pump, kill, queued, dropped, told,
                 casting, published>>

EndBase ==
  /\ closed /\ stopping = {} /\ awaited = {} /\ ~baseDone
  /\ baseDone' = TRUE
  /\ UNCHANGED <<closed, members, stopping, awaited, client, casting, published>>

Init ==
  /\ closed = FALSE /\ members = {} /\ stopping = {} /\ awaited = {} /\ baseDone = FALSE
  /\ handler = [c \in Clients |-> "new"]
  /\ pump = [c \in Clients |-> "none"] /\ conn = [c \in Clients |-> "none"]
  /\ kill = [c \in Clients |-> "no"]
  /\ queued = [c \in Clients |-> 0] /\ dropped = [c \in Clients |-> 0]
  /\ told = [c \in Clients |-> 0]
  /\ casting = [p \in Publishers |-> {}] /\ published = 0

Handler(c) == SendHello(c) \/ StopReading(c) \/ Finish(c)
Pump(c) ==
  \/ \E written \in BOOLEAN : Write(c, written)
  \/ StartClosing(c) \/ EndClosing(c)
Ticker(c) == \E answered \in BOOLEAN : Tick(c, answered)
Shutdown ==
  \/ \E c \in Clients : Stop(c) \/ \E inTime \in BOOLEAN : Await(c, inTime)
  \/ EndBase

Next ==
  \/ \E c \in Clients :
       \/ Join(c) \/ Answer(c) \/ PeerCloses(c)
       \/ Handler(c) \/ Pump(c) \/ Ticker(c)
  \/ \E p \in Publishers : Publish(p) \/ \E c \in Clients : Cast(p, c)
  \/ Close \/ Shutdown

Spec == Init /\ [][Next]_vars

(* The goroutines of a connection run, the ticker is not passed over for ever *)
(* by a select that chooses at random (and a peer that does not answer it is   *)
(* dropped), and a shutdown that began goes on.                                *)
Fairness ==
  /\ \A c \in Clients : WF_vars(Handler(c)) /\ WF_vars(Pump(c)) /\ WF_vars(Tick(c, TRUE))
  /\ WF_vars(Shutdown)

FairSpec == Spec /\ Fairness
-----------------------------------------------------------------------------
(* Properties.                                                                *)

\* Every variable has its type. With ClosedReachesAll it is inductive.
TypeOK ==
  /\ closed \in BOOLEAN /\ baseDone \in BOOLEAN
  /\ members \subseteq Clients /\ stopping \subseteq Clients /\ awaited \subseteq Clients
  /\ handler \in [Clients -> {"new", "refused", "joined", "reading", "leaving", "finished"}]
  /\ pump \in [Clients -> {"none", "running", "closing", "ended"}]
  /\ conn \in [Clients -> {"none", "open", "closed"}]
  /\ kill \in [Clients -> {"no", "normal", "slow", "away"}]
  /\ queued \in [Clients -> Nat] /\ dropped \in [Clients -> Nat] /\ told \in [Clients -> Nat]
  /\ casting \in [Publishers -> SUBSET Clients]
  /\ published \in Nat

\* No connection outlives the shutdown of the hub: every member is stopped or
\* about to be, and none joins any more (websocket.go:224-235).
ClosedReachesAll ==
  closed => members \subseteq stopping \cup {c \in Clients : kill[c] # "no"}

\* A client learns that it has missed something, or is cut off: "a gap in the
\* event stream it does not know about is worse than a gap it can react to".
DropsAreTold ==
  \A c \in Clients : (dropped[c] > told[c]) ~> (dropped[c] = told[c] \/ conn[c] = "closed")

\* The reason a connection was first given to end is the one it is told
\* (stop, websocket.go:324-332), and a client is not told of losses it has not had.
FirstReasonStays ==
  [][\A c \in Clients : /\ kill[c] # "no" => kill'[c] = kill[c]
                        /\ told[c] <= dropped[c] => told'[c] <= dropped'[c]]_vars

\* When the hub closes, its connections end, whatever their peers do.
HubEmpties == closed ~> members = {}
=============================================================================
