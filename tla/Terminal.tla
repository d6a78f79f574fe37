------------------------------ MODULE Terminal ------------------------------
(* The terminal frontend (tui/): one goroutine, Bubble Tea's update loop,     *)
(* changes the model; everything else reaches it as a message that a          *)
(* goroutine of its own is blocked sending, so that messages of different     *)
(* senders arrive in any order. The senders are the pump of runtime events    *)
(* (pump.go), the watcher of the broker, the goroutine of the turn or of the  *)
(* tool that a slash command runs, and the commands that change the session.  *)
(*                                                                            *)
(* A task is a turn or such a tool run; there is one at a time. What is shown *)
(* of an event and how is left out, and so are the commands that only report. *)
EXTENDS Integers, Sequences, SequencesExt

CONSTANTS
  FeedSize,           \* room in the broker's channel to the watcher
  MaxTasks, MaxSteps  \* bounds: tasks; events, requests and session commands

VARIABLES
  prompt,     \* Model.prompt: the request on screen, 0 for none
  active,     \* Model.turnActive
  armed,      \* Model.interruptArmed
  quitting,   \* Model.quitting
  session,    \* Model.sessionID
  history,    \* Model.history: the tasks whose messages it holds
  queued,     \* events in the pump's queue
  pending,    \* pump.pending: a wake-up is thought to be under way
  wakes,      \* goroutines that send a flushMsg
  worker,     \* the goroutine of the task: where it is
  task,       \* the task it works on: [no, turn, session, cancelled, produced]
  waiting,    \* the broker's pending request, 0 for none
  closed,     \* Broker.closed
  feed,       \* the broker's events on their way to the update loop
  lost,       \* what a property knows: the events that found no room
  commands,   \* session commands under way: [session, read, history]
  store,      \* the stored transcripts, by session: tasks as well
  exited,     \* has the program returned?
  forgotten,  \* what a property knows: the tasks of before the last /reset
  steps       \* the events, requests and session commands so far; it numbers them

screen   == <<prompt, active, armed, quitting>>
memory   == <<session, history, forgotten>>
pump     == <<queued, pending, wakes>>
broker   == <<waiting, closed, feed, lost>>
vars == <<screen, memory, pump, worker, task, broker, commands, store, exited, steps>>

WithinBound == steps < MaxSteps
NoTask == [no |-> 0, turn |-> FALSE, session |-> 1, cancelled |-> FALSE, produced |-> FALSE]
Event(kind, r) == [kind |-> kind, of |-> r]

Init ==
  /\ prompt = 0 /\ active = FALSE /\ armed = FALSE /\ quitting = FALSE
  /\ session = 1 /\ history = {}
  /\ queued = 0 /\ pending = FALSE /\ wakes = 0
  /\ worker = "none" /\ task = NoTask
  /\ waiting = 0 /\ closed = FALSE /\ feed = <<>> /\ lost = {}
  /\ commands = {}
  /\ store = [s \in 1..MaxSteps + 1 |-> {}]
  /\ exited = FALSE
  /\ forgotten = {}
  /\ steps = 0

-----------------------------------------------------------------------------
(* The pump.                                                                  *)

\* Events of one stream merge, which only the transcript could tell.
Push ==
  /\ queued' = queued + 1
  /\ pending' = TRUE
  /\ wakes' = IF pending THEN wakes ELSE wakes + 1

\* Mutant: the wake-up is not re-armed.
DrainOnce ==
  /\ queued' = 0
  /\ UNCHANGED pending

Drain ==
  /\ queued' = 0
  /\ pending' = FALSE

Flush ==
  /\ ~exited /\ wakes > 0
  /\ wakes' = wakes - 1
  /\ Drain
  /\ UNCHANGED <<screen, memory, worker, task, broker, commands, store, exited, steps>>

-----------------------------------------------------------------------------
(* The goroutine of a task.                                                   *)

\* The prompt is stored under the session that was open when it was submitted;
\* a failure is told on the bus, unless the turn was cancelled.
StorePrompt(stored) ==
  /\ worker = "starting"
  /\ worker' = "running"
  /\ IF stored
     THEN /\ store' = [store EXCEPT ![task.session] = @ \cup {task.no}]
          /\ UNCHANGED pump
     ELSE /\ IF task.cancelled THEN UNCHANGED pump ELSE Push
          /\ UNCHANGED store
  /\ UNCHANGED <<screen, memory, task, broker, commands, exited, steps>>

\* Only the loop of a turn reports what it does on the bus.
Publish ==
  /\ worker = "running" /\ task.turn /\ WithinBound
  /\ steps' = steps + 1
  /\ Push
  /\ UNCHANGED <<screen, memory, worker, task, broker, commands, store, exited>>

\* publishLocked: an event for which the channel has no room is dropped. One
\* more is in the hands of the watcher, unless it has yet to take it.
Tell(e) ==
  \/ Len(feed) <= FeedSize /\ feed' = Append(feed, e) /\ UNCHANGED lost
  \/ Len(feed) >= FeedSize /\ lost' = lost \cup {e} /\ UNCHANGED feed

\* Approve binds the request to the context of the task. A request that finds
\* the context over or the broker closed is refused, and the task goes on.
Ask ==
  /\ worker = "running" /\ WithinBound
  /\ steps' = steps + 1
  /\ IF task.cancelled \/ closed
     THEN UNCHANGED <<worker, waiting, feed, lost>>
     ELSE /\ worker' = "asking"
          /\ waiting' = steps + 1
          /\ Tell(Event("added", steps + 1))
  /\ UNCHANGED <<screen, memory, pump, task, closed, commands, store, exited>>

Answered ==
  /\ worker = "asking" /\ waiting = 0
  /\ worker' = "running"
  /\ UNCHANGED <<screen, memory, pump, task, broker, commands, store, exited, steps>>

Withdraw ==
  /\ worker = "asking" /\ waiting # 0 /\ task.cancelled
  /\ worker' = "running"
  /\ waiting' = 0
  /\ Tell(Event("ended", waiting))
  /\ UNCHANGED <<screen, memory, pump, task, closed, commands, store, exited, steps>>

\* The loop returns, with messages or without. What a cancelled turn produced
\* is kept as well, under a context of its own.
Return(produced) ==
  /\ worker = "running"
  /\ task.turn \/ ~produced
  /\ task' = [task EXCEPT !.produced = produced]
  /\ worker' = IF produced THEN "saving" ELSE "reporting"
  /\ UNCHANGED <<screen, memory, pump, broker, commands, store, exited, steps>>

Save(stored) ==
  /\ worker = "saving"
  /\ worker' = "reporting"
  /\ IF stored
     THEN /\ store' = [store EXCEPT ![task.session] = @ \cup {task.no}]
          /\ UNCHANGED pump
     ELSE Push /\ UNCHANGED store
  /\ UNCHANGED <<screen, memory, task, broker, commands, exited, steps>>

\* finishTurn and finishToolRun: the update loop takes the goroutine's message.
\* What the pump still holds is shown before a turn ends.
Finish ==
  /\ ~exited /\ worker = "reporting"
  /\ worker' = "none"
  /\ active' = FALSE
  /\ IF task.turn THEN Drain /\ UNCHANGED wakes ELSE UNCHANGED pump
  /\ history' = IF task.produced THEN history \cup {task.no} ELSE history
  /\ task' = [NoTask EXCEPT !.no = task.no, !.cancelled = TRUE]
  /\ UNCHANGED <<prompt, armed, quitting, session, forgotten, broker, commands, store, exited,
                 steps>>

\* After the program has returned nobody takes the message.
Abandoned ==
  /\ exited /\ worker = "reporting"
  /\ worker' = "none"
  /\ UNCHANGED <<screen, memory, pump, task, broker, commands, store, exited, steps>>

-----------------------------------------------------------------------------
(* Approvals.                                                                 *)

\* Resolve answers a request that still waits; any other id is an error.
Resolve(r) ==
  IF r # 0 /\ waiting = r
  THEN waiting' = 0 /\ Tell(Event("ended", r))
  ELSE UNCHANGED <<waiting, feed, lost>>

\* Mutant: the events are trusted, and the queue is not read again.
SyncNothing(shown, queue) == shown

\* syncApprovals: without a prompt on screen, the first pending request is. One
\* that is there already is not compared with the queue.
Sync(shown, queue) == IF shown = 0 THEN queue ELSE shown

\* An event of the broker; after it, the queue is read.
HandleApproval ==
  /\ ~exited /\ feed # <<>>
  /\ feed' = Tail(feed)
  /\ LET e == Head(feed)
         shown == CASE e.kind = "added" /\ prompt = 0 -> e.of
                    [] e.kind = "ended" /\ prompt = e.of -> 0
                    [] OTHER -> prompt
     IN prompt' = Sync(shown, waiting)
  /\ UNCHANGED <<active, armed, quitting, memory, pump, worker, task, waiting, closed, lost,
                 commands, store, exited, steps>>

\* A key answers what is on screen.
AnswerApproval ==
  /\ ~exited /\ prompt # 0
  /\ armed' = FALSE
  /\ Resolve(prompt)
  /\ prompt' = Sync(0, waiting')
  /\ UNCHANGED <<active, quitting, memory, pump, worker, task, closed, commands, store, exited, steps>>

-----------------------------------------------------------------------------
(* Keys. A prompt takes all of them but Ctrl+C.                               *)

Composing == ~exited /\ prompt = 0

\* startTurn and invokeTool; while a task is active they leave a notice.
Start(turn) ==
  /\ Composing /\ ~active /\ task.no < MaxTasks
  /\ armed' = FALSE /\ active' = TRUE
  /\ LET no == task.no + 1 IN
       /\ task' = [no |-> no, turn |-> turn, session |-> session, cancelled |-> FALSE,
                   produced |-> FALSE]
       /\ history' = IF turn THEN history \cup {no} ELSE history
  /\ worker' = IF turn THEN "starting" ELSE "running"
  /\ UNCHANGED <<prompt, quitting, session, forgotten, pump, broker, commands, store, exited,
                 steps>>

\* cancelTurn: what is on screen is refused, and the task cancelled.
CancelTurn ==
  /\ prompt' = 0
  /\ task' = [task EXCEPT !.cancelled = TRUE]

\* The second Ctrl+C, Ctrl+D and /quit. Closing the broker ends the request
\* that waits.
Shutdown ==
  /\ ~exited
  /\ (armed /\ UNCHANGED armed) \/ (prompt = 0 /\ armed' = FALSE)
  /\ quitting' = TRUE
  /\ CancelTurn
  /\ closed' = TRUE
  /\ waiting' = 0
  /\ IF waiting = 0 THEN UNCHANGED <<feed, lost>> ELSE Tell(Event("ended", waiting))
  /\ UNCHANGED <<active, memory, pump, worker, commands, store, exited, steps>>

\* The first Ctrl+C.
Interrupt ==
  /\ ~exited /\ ~armed
  /\ armed' = TRUE
  /\ IF prompt # 0 \/ active
     THEN Resolve(prompt) /\ CancelTurn
     ELSE UNCHANGED <<prompt, waiting, feed, lost, task>>
  /\ UNCHANGED <<active, quitting, memory, pump, worker, closed, commands, store, exited, steps>>

OtherKey ==
  /\ ~exited /\ armed
  /\ armed' = FALSE
  /\ UNCHANGED <<prompt, active, quitting, memory, pump, worker, task, broker, commands, store,
                 exited, steps>>

-----------------------------------------------------------------------------
(* Sessions. A command works in a goroutine of its own; none of them minds a  *)
(* task that is active.                                                       *)

NewSession ==
  /\ WithinBound
  /\ steps' = steps + 1
  /\ commands' = commands \cup {[session |-> steps + 2, read |-> TRUE, history |-> {}]}

\* /session new
New ==
  /\ Composing
  /\ NewSession
  /\ armed' = FALSE
  /\ UNCHANGED <<prompt, active, quitting, memory, pump, worker, task, broker, store, exited>>

\* /reset: the conversation is dropped at once, the session when the new one is
\* there.
Reset ==
  /\ Composing
  /\ NewSession
  /\ armed' = FALSE
  /\ history' = {}
  /\ forgotten' = 1..task.no
  /\ UNCHANGED <<prompt, active, quitting, session, pump, worker, task, broker, store, exited>>

\* /session load, of the first session or the present one
Load(s) ==
  /\ Composing /\ WithinBound
  /\ steps' = steps + 1
  /\ armed' = FALSE
  /\ commands' = commands \cup {[session |-> s, read |-> FALSE, history |-> {}]}
  /\ UNCHANGED <<prompt, active, quitting, memory, pump, worker, task, broker, store, exited>>

ReadTranscript(c) ==
  /\ c \in commands /\ ~c.read
  /\ commands' = (commands \ {c}) \cup {[c EXCEPT !.read = TRUE, !.history = store[c.session]]}
  /\ UNCHANGED <<screen, memory, pump, worker, task, broker, store, exited, steps>>

\* It may fail, and says so.
CommandFails(c) ==
  /\ c \in commands
  /\ commands' = commands \ {c}
  /\ UNCHANGED <<screen, memory, pump, worker, task, broker, store, exited, steps>>

SwitchSession(c) ==
  /\ ~exited
  /\ c \in commands /\ c.read
  /\ commands' = commands \ {c}
  /\ session' = c.session
  /\ history' = c.history
  /\ forgotten' = forgotten \ c.history
  /\ UNCHANGED <<screen, pump, worker, task, broker, store, exited, steps>>

-----------------------------------------------------------------------------
(* The end of the program: the quit message arrives, behind any number of     *)
(* others, or a signal ends it. Run then cancels everything, closes the       *)
(* broker and gives the task a moment to end.                                 *)
Exit ==
  /\ ~exited
  /\ exited' = TRUE
  /\ task' = [task EXCEPT !.cancelled = TRUE]
  /\ closed' = TRUE
  /\ waiting' = 0
  /\ IF waiting = 0 THEN UNCHANGED <<feed, lost>> ELSE Tell(Event("ended", waiting))
  /\ UNCHANGED <<screen, memory, pump, worker, commands, store, steps>>

Work ==
  \/ \E stored \in BOOLEAN : StorePrompt(stored) \/ Save(stored)
  \/ Publish \/ Ask \/ Answered \/ Withdraw
  \/ (\E produced \in BOOLEAN : Return(produced))
  \/ Abandoned

Keys ==
  \/ AnswerApproval \/ Shutdown \/ Interrupt \/ OtherKey
  \/ (\E turn \in BOOLEAN : Start(turn))
  \/ New \/ Reset \/ (\E s \in {1, session} : Load(s))

Next ==
  \/ Work \/ Keys
  \/ Flush \/ Finish \/ HandleApproval
  \/ (\E c \in commands : ReadTranscript(c) \/ CommandFails(c) \/ SwitchSession(c))
  \/ Exit

Spec == Init /\ [][Next]_vars

\* The update loop takes every message some time, the loop of a turn goes on,
\* and a program that was told to quit does. Users do as they please.
Fairness ==
  /\ WF_vars(Work) /\ WF_vars(Flush) /\ WF_vars(Finish) /\ WF_vars(HandleApproval)
  /\ WF_vars(quitting /\ Exit)

FairSpec == Spec /\ Fairness
-----------------------------------------------------------------------------
(* Properties.                                                                *)

News == [kind : {"added", "ended"}, of : 1..MaxSteps]

\* Every variable has its type; one task works at a time, and the update loop
\* knows of it.
TypeOK ==
  /\ prompt \in 0..MaxSteps /\ waiting \in 0..MaxSteps
  /\ {active, armed, quitting, pending, closed, exited} \subseteq BOOLEAN
  /\ worker \in {"none", "starting", "running", "asking", "saving", "reporting"}
  /\ worker # "none" => active
  /\ task.no \in 0..MaxTasks
  /\ queued \in Nat /\ wakes \in Nat
  /\ feed \in Seq(News) /\ Len(feed) <= FeedSize + 1
  /\ lost \subseteq News

\* While a request of a task that goes on waits, there is a prompt on screen, or
\* an event on its way with which the queue is read again: no approval goes
\* unasked because its own event was dropped. The prompt is of the request that
\* waits, save that the news of its end is on its way, or was dropped
\* (model.go:380-432).
PromptFollowsQueue ==
  ~exited =>
    /\ waiting # 0 /\ ~task.cancelled => prompt # 0 \/ feed # <<>>
    /\ prompt # 0 /\ prompt # waiting =>
         Contains(feed, Event("ended", prompt)) \/ Event("ended", prompt) \in lost

\* What the pump holds is shown, however its wake-ups and the end of a turn
\* fall (pump.go:49-57).
EventsAreShown == queued > 0 ~> queued = 0 \/ exited

\* A program that ends leaves no task behind, one that waits for an approval
\* included (tui.go:126-130, model.go:639-649).
QuitEndsTask == quitting \/ exited ~> worker = "none"

\* "After /reset nothing that came before is sent to the model": what a turn
\* starts from is the conversation (dispatch.go:109-111, model.go:511-513).
ResetForgets == [][task'.no # task.no /\ task'.turn => history \cap forgotten = {}]_vars
=============================================================================
