# Boop: specifications, model checking and proofs

Boop is a local-first AI client and agent runtime written in Go. A model asks for tool calls, a permission
engine decides which need the user's consent, several frontends (TUI, web, CLI) attached to one core show the
queue of approvals, and a coordinator runs a fleet of agents over a graph of tasks. This directory keeps TLA+
specifications of the parts whose correctness depends on interleavings, failures or an order of events nobody
tests, the TLC configurations that check them, and theorems checked by TLAPS.

Run `tlc -config <cfg> <module>` for the runs listed below and `tlapm <module>` for the proof modules.

## Inventory

| component | state | operations | what is hard | what makes it correct |
|---|---|---|---|---|
| approval broker (`permissions/approvals.go`) | pending requests and their order, grants of the session, event subscriptions, closed | Request, Resolve with a scope, grants, Subscribe, Close | answers race contexts and Close; event channels drop | fails closed, honours answers, nobody stays blocked, frontends agree with the queue |
| scheduler (`agent/scheduler.go`) | per Run: task statuses, write claims, results channel; shared: slots | Run, nested Run, SetMax | runs share slots, nest, are cancelled; tasks fail | write exclusion, dependencies, no leak of slots, join before return, failure containment, termination |
| semaphore (`agent/semaphore.go`) | held, limit, a mutex and a condition variable | acquire, tryAcquire, release, reclaim, setLimit | lost wakeups, resizing, cancellation | implements a pool of slots; no free slot is forgotten |
| coordinator and agents (`agent/coordinator.go`, `agent.go`) | fleet of records, enabled, caps, agent statuses | spawn, stop, stop all, wait, prune, run | stop races the worker's end; budgets of a tree; retention | caps hold, a stopped agent stays stopped, Wait returns |
| delegate tool, worker (`agent/tool.go`, `worker.go`) | — | delegate an objective from inside a task | starts a nested Run under the caller's slot | depth and budget reach nested work |
| planner, worker context | — | decompose, brief | model output; budget of a prompt | falls back to one task |
| evaluator and policy (`permissions/evaluator.go`) | policy | Evaluate, SetPolicy | precedence of deny, production, risk, mode | the gravest is never allowed unasked by a policy that does not say so; escalation never loosens |
| classification (`classifications.go`) | — | classify a command line | chains, pipes, wrappers and shells nested in one another | nothing a line runs is hidden by what surrounds it |
| agent loop (`app/loop.go`) | conversation, failures per call | Run, Invoke, collect | policy and approval change while it waits; retries; cancellation anywhere | every call answered once and in order, repetition bounded, answers whole |
| event bus (`app/events.go`) | subscriptions | Publish, Subscribe | synchronous handlers, unsubscribing during a publish | order per publisher |
| provider router (`provider/router.go`) | health cache, candidates of a request | Do, Chat, Health | fallback, expiry, concurrent requests, a stream handed through goroutines | candidates in order, nothing after the first event, nobody left blocked |
| provider adapters (`openaicompat/`, `anthropic/`) | calls being assembled | consume a stream | fragments that interleave, streams cut off | calls kept apart |
| context assembly (`session/context.go`) | selection | Build | budgets, eviction, the summary's room | no result without its call |
| session and store (`session/`, `store/`) | transcripts, usage, agents in SQLite | append, restore, summarise | a crash or an error between two appends | what is stored can be replayed |
| web turns and agent runs (`web/server.go`, `api.go`, `agents.go`) | running turns, runs, fleets | start, cancel, shutdown | requests that slip between the steps of a shutdown | one turn per session, work can be found, shutdown ends it |
| web hub (`web/websocket.go`) | members, their queues and pumps | join, broadcast, close | slow clients, joins against the close | publishers never wait, losses are told, no connection outlives the hub |
| browser (`web/frontend/src/store.ts`, `app.ts`) | dialogs of approvals, an epoch | events, hello, list, answer | four sources that nothing orders | one dialog for a decision, none goes unanswered |
| TUI (`tui/model.go`, `pump.go`, `dispatch.go`, `approver.go`) | its own conversation and session, the prompt on screen, the pump of events, the running task | submit, cancel, finish, answer, switch the session, quit | messages of goroutines in any order; what an interrupted turn leaves | remembers what is stored, shows what waits, ends with its task |
| Tools, execution, documents, config, logging, stats, discovery, views | — | — | I/O, parsing and text | (by tests) |

How they interact: the loop calls the evaluator and, for a confirmation, blocks in the broker; the TUI and the
web server subscribe to the broker and the bus and answer requests; the web server keeps one coordinator per
session and starts each objective in a goroutine of its own; the coordinator gives the scheduler an executor
that spawns one agent per task and runs a loop for it; a worker's delegate tool calls the coordinator again,
inside the scheduler's slot of its own task. A loop's request goes to the router, which tries providers and hands
the stream of the first that answers through a goroutine of its own; the prompt comes from the context manager. A
frontend stores the prompt before the loop and what came of it afterwards. Events travel over the bus to the hub
and from its queues to the browsers, approvals also over the broker's subscription and a REST list.

PROJECT.json lists the hazards of this code with their lines and the properties that cover them.

## Modules

| module | what it is |
|---|---|
| `ApprovalGate` | what the broker promises: one verdict per request, positive only by the user's word or a repeatable consent, none after shutdown |
| `Broker`, `BrokerProofs` | `permissions/approvals.go`, one action per critical section of its mutex; its theorems |
| `Classification` | `permissions/classifications.go` over abstract programs (recursive operators, so without theorems) |
| `Evaluator` | `permissions/evaluator.go` and `policy.go` as operators |
| `CommandPolicy` | every command line that some steps of a shell's grammar make, judged by both |
| `MCBroker` | two callers, one frontend, three actions; lines over ten programs |
| `Scheduler`, `SchedulerProofs`, `MCScheduler` | `agent/scheduler.go`, over the semaphore seen as a counter; task graphs and nested runs |
| `Coordinator`, `CoordinatorProofs`, `MCCoordinator` | `agent/coordinator.go` and the life cycle of `agent/agent.go`; two or three agents, one call of Stop and one of Wait |
| `SlotPool` | what the semaphore promises: a pool of slots whose limit may change |
| `Semaphore`, `SemaphoreProofs`, `MCSemaphore` | `agent/semaphore.go` with its mutex, condition variable and cancellation callback |
| `Filtering` | what is picked from a sequence, without recursion, for `Router` and `ChatStream` |
| `Router` | `provider/router.go`: candidates, health, fallback, up to a stream's first event |
| `Delivery` | what the loop may rely on in a stream: the adapter's events in order, and one verdict |
| `ChatStream` | from the frames of a backend to the loop: the adapters' `consumeStream`, `replayEvents`, `collect` |
| `PromptWindow` | `session/context.go` as operators: what of a conversation a request sends |
| `Turn` | `app/loop.go` with the frontends around it (`web/api.go`, `tui/model.go`, `cmd/boop/cli.go`) and the transcript |
| `Server` | the web server's turns, agent runs and Shutdown (`web/server.go`, `api.go`, `agents.go`) |
| `Hub` | `web/websocket.go` |
| `Dialogs`, `DialogsProofs` | the approvals of a browser (`store.ts`, `app.ts`) against the broker's queue, the bus, the socket and the list |
| `Terminal` | the terminal frontend: update loop, pump, approvals, one task at a time, sessions, the end of the program |
| `MCProvider`, `ProviderProofs` | one instance each of `Router`, `ChatStream`, `Turn` and `Terminal`, for what must happen in the end; theorems about the first two |
| `MCTurn`, `TurnProofs` | one instance each of `Turn`, `Terminal` and `Dialogs`, for what must never happen; theorems about them and about `Evaluator` |
| `MCWeb`, `WebProofs` | one instance each of `Server`, `Hub` and `Coordinator`; theorems about the first two |

Composition. `Turn` extends `PromptWindow` and `Evaluator`, so its requests send what `Build` makes and its calls are
judged by `Evaluate`; `CommandPolicy` puts `Classification` under the same evaluator. `Broker`, `Semaphore` and `ChatStream`
implement `ApprovalGate`, `SlotPool` and `Delivery`; the tasks of `Scheduler` implement `SlotPool` as well. `Scheduler` sees the semaphore as its pool, `Turn` the broker as an answer
that may come, `Terminal` a turn as a goroutine that reports, asks and ends, `Server` a coordinator as agents that end. `MCBroker`, `MCProvider`, `MCTurn` and `MCWeb` put models that share no
variables into one run: a behaviour is one of any of them, so nothing is multiplied and each property is of its own
model.

The operators commented `Mutant` are deliberately wrong variants of the definition that follows them. No
specification uses them; putting one in the place of its definition must make the property named for it in
PROJECT.json fail, which shows that the property can fail.

### Broker

`phase` is where a caller is in RequestDecision: before the lock, blocked in the select, or past a context that
ended. `pending`, `order`, `grants`, `closed` and the subscriptions are the fields of Broker; `result` is the
request's channel of capacity one. A call looks at its context once before the lock (`Call`), is refused,
answered from a grant or queued under the lock (`EnterClosed`, `EnterGranted`, `EnterQueued`), and leaves by
its result or its context (`TakeResult`, `NoticeEnd`, then `Withdraw` or `LeaveAnswered` in the second
critical section). Publishing is part of the action that publishes. An action of the code is abstracted to what
grants tell apart: its key, its category, whether its risk is critical and whether it touches production.
`view`, `step` and `said` are history: what a frontend that subscribed and listed the queue believes, and what
a successful Resolve told it.

Simplifications: request ids are unique, as the UUIDs are; a frontend that lost an event is not followed
until it subscribes again; a critical section's sends to several frontends are one step.

### Scheduler

A Run's `pc` is "dispatch" (the inner loop), "acquire" (blocked in the semaphore), "select" (waiting for a
result or its context), "drain" (wg.Wait and the loop after it), "returned", "stuck" when nothing is ready and nothing
runs, or "noProgress" once it has ended with ErrNoProgress, which joins no goroutine but does take the caller's slot back.
`worker` is where a task's goroutine is: in its executor, in a nested Run, past the send of its result, or
gone. `held`, `status` and `done` are Run's local variables, `permits` and `limit` the semaphore's. Task
`outcome` is what the executor returned: success, an error (a panic included), or a context error.

The constants describe the graphs. `GraphAssumption` is what Validate accepts: dependencies within the graph, and no cycle
that is reached from an id without blanks around it. Validate and the run read an id differently: the first compares ids
trimmed, the second keeps its statuses under the ids as written and looks dependencies up trimmed. `padded`, chosen at the
start from the constant `Spellings`, is the set of tasks whose ids have such blanks; `Found` are the dependencies of a task
that the run finds. `NestingAssumption` says which task starts which nested Run; a context reaches the nested Runs of
the tasks that run under it (`Ancestry`). A task starts at most one nested Run. Paths are normalised
sequences of names. The semaphore is the counter that `Semaphore` is shown to implement.

### Semaphore

A goroutine's `pc` follows acquire statement by statement where another goroutine can come between: before
AfterFunc is registered, at the loop with the mutex free, holding the mutex about to Wait, and asleep.
`waiters` is the condition's list; `callback` is the goroutine AfterFunc starts, whose Broadcast takes no lock.
Release and setLimit are a critical section followed by their broadcast. A Broadcast takes one step. A goroutine starts a
new call only after the callback of its last one has run.

### Coordinator

`fleet` is Coordinator.agents together with Coordinator.order, whose positions are `serial`; `status`, `depth`
and `root` are fields of Agent, `closed` says that a record's done channel is closed. `worker` is where
executeTask is for an agent: registered, past its lookup of the record ("running"), after RunTask ("settled") or its
panic ("panicked", which leaves the status as it is), gone ("ended" or "crashed", by way of the deferred finish), or "lost"
when the lookup failed; an agent created by Spawn is "owned" by its caller, who ends it by Finish. A
call of Stop, StopAll or SetEnabled(false) has a `stage` and a list `todo`: the snapshot is one critical
section, and then, agent by agent, come the cancel, the mark and, for an agent without a worker, the close, each a
step of its own. `wait` is the agent whose done channel a call of Wait watches.

The busy statuses are one, "working". The state check of stopRecord and the call of cancel are one step, since
cancelling an agent that has just ended changes nothing. Caps may be changed at any time, so the constants are
their largest values and a spawn they admit may still be refused. `Parents` are the parents an agent may be
given; the fleet's events and the names and texts of agents are left out.

### Evaluator, Classification and CommandPolicy

A policy is its mode, its rules (a function on the categories it names), and the two permissions for everything and for
production; `Evaluate` has the branches of the code in its order. A program is a family (the classifier that knows it),
a use and the flags that the classifier reads; a command is a program with words, or something that runs another
command or a whole line. The tables of names, spellings and paths are what the families, uses and flags stand for.
`ClassifyLine` follows `classifyCommandLine`: each command of each pipeline, what is fetched and executed by a pipe,
the worst of it, production of any; `DepthLimit` is `maxClassifyDepth`. `CommandPolicy` builds lines by chaining,
piping, wrapping, quoting and adding words.

### Router and ChatStream

A caller of Chat is "considering" a candidate, "peeking" at the stream of the one it contacted, or has returned;
`attempts` is the decision's list, with whether a candidate was `tried` or passed over; `health` is the cache, whose entries
expire at any time. A capability check fails by itself only when the request's context has ended, since an adapter derives what a
model can do when its server does not say. A status page probes
beside them. `ChatStream` starts where a stream does: `adapter` reads the script of a backend, assembles calls and
emits; `ferry` is replayEvents (or drainEvents), `hand` what it holds; `raw` and `out` are the channels. A read may
fail or end anywhere, and the request's context may end anywhere. Arguments are the fragments they came in.

### PromptWindow and Turn

A message is its role, its calls, the call it answers and its cost in tokens; what an estimate is made of is left
out. `Build` is the two passes of the context manager. In `Turn`, `pc` is where Loop.Run is: about to send a
request, waiting for the model, at the first of the calls `todo`, at a question to the user, in a tool, or (outside the
loop) storing the outcome. `transcript` is the store's, and survives a `Crash`; `memory` is the TUI's own copy.
`saving` is what the frontend has still to append: in the TUI everything an interrupted turn produced, elsewhere
only what a turn that succeeded did. Arguments are left out: a call is its tool, so the same tool called again is the same
call again. The evaluator's policy may change at any moment of a TUI turn. `SelectionCost` is the message of selected files that
the TUI puts before a prompt.

### Server, Hub and Dialogs

`Server` has the table of running turns, the runs of agents with the two steps in which a request starts one
(`FindFleet`, `StartRun`), and `Shutdown` statement by statement; every request's context descends from the base context, so that `CancelBase` ends
those of the turns of both kinds; `shown` is what browsers see of an agent. A turn is
parked at an approval bound to the program, not to the turn. A run has one agent. `Hub` counts messages: a client's
queue, what it lost and what it was told of that; its handler, its pump and the connection end separately, and
Shutdown stops, awaits and drops. `Dialogs` follows two ways of events from a request to the browser (the bus, which carries
no id, and the broker's feed), the snapshot of a socket that connects, a list fetched meanwhile, and the user; a
dialog raised by the bus is a placeholder ("synthetic").

### Terminal

Bubble Tea's update loop is the only goroutine that changes the model; every message to it is sent by a goroutine that
blocks until it is taken, so that those of different senders arrive in any order, and an action of the update loop is one
message. `queued`, `pending` and `wakes` are the pump (`pump.go`): the events of its queue are counted, since only the
transcript could tell them apart. `worker` and `task` are the goroutine of a turn, or of a tool that a slash command runs;
`waiting` is the broker's queue, which has one request at most as there is one task; `feed` its events, which arrive in
order, of which the channel holds `FeedSize` and the watcher, blocked sending to the update loop, one more: `Tell` drops what finds no room. `history` and `store` are the tasks whose messages the conversation and the stored sessions contain; `commands` are
the /session and /reset commands whose result is still to come. `lost` (the events that were dropped) and `forgotten` are history.

## Runs

| run | instance | shows |
|---|---|---|
| `broker` | 2 requests, 1 frontend with a channel of 2, 3 actions; lines of 3 steps over 10 programs, nesting limit 1 | `PendingIsUnanswered`, `FailClosed`, `AnswerHonoured`, `InSync`, `NothingHidden`, `GravestConfirmed`, liveness `Settles`, and that Broker implements ApprovalGate (`GateSpec`) |
| `scheduler` | run A of 4 tasks (two overlapping writers, one that needs two), nested run N of 2, limit 1..2; all ids without blanks, or two that others depend on with them | `WriteExclusion`, `PermitsMatchWorkers`, `ReturnJoinsAll`, `FailureContained`, `NeverStuck`, and liveness `RunsReturn` |
| `coordinator` | 3 agents, one of them owned, in trees of 2 agents and depth 2; 1 call of Stop, StopAll or SetEnabled at a time, 1 of Wait; 1 finished agent retained | `LiveAreRemembered`, `OffMeansOff`, `StoppedAreTold`, `DoneIsFinal`, `BudgetHolds` |
| `coordinator_hang` | 2 agents in any trees | a counterexample to Wait's doc comment |
| `semaphore` | 3 goroutines, limit 1..2 | no lost wakeup for a free slot, a cancelled waiter returns, and the refinement of SlotPool |
| `semaphore_wakeup` | 2 goroutines, 1 slot that need not be returned | a cancelled waiter that sleeps on |
| `provider` | 2 requests with 4 selections over 2 providers and one that is missing, 1 status page; 4 streams in channels of 1; a turn of 2 model calls in the TUI or a browser; a terminal with 1 task | `FallsBackInOrder`, `CallsKeptApart`, that ChatStream implements Delivery (`DeliverySpec`), liveness `CancelEndsAll`, `TurnsEnd` (with the terminal's `QuitEndsTask`) and `EventsAreShown` |
| `turn` | 2 turns of 2 model calls in any frontend, 1 crash, 1 switch of the mode, failing appends, results of two sizes, a budget of 36 tokens; a terminal with 2 tasks, 2 events or commands and a channel of 1 from the broker; a browser with 2 approvals (1 denied), 2 connections, 1 list | `CallsAnswered`, `ResultsArePaired`, `RetriesAreBounded`, `MemoryHasTranscript`; `PromptFollowsQueue`; `OneDialogEach`, `ListErasesNothing` |
| `web` | 2 turns and 2 runs of a session with 1 finished run remembered; 1 client with a queue of 1, 2 publishers, 4 messages, cut off after 3 losses; 2 agents in any trees and a call of Wait | `WorkIsKnown`; `ClosedReachesAll`, `DropsAreTold`; `ShutdownEnds` (`ShutdownEndsAll` of the server and `HubEmpties`); `WaitMovesOn` |
| `dialogs_lost` | the browser of `turn`, without the list | a counterexample to "cannot be dismissed without an answer" |
| `reset_forgets` | the terminal of `turn` | a counterexample to what /reset promises |
| `shutdown_silent` | the server of `web` | a counterexample to the comment in Shutdown |

Bounds. Two requests suffice for every race in the broker, which is between a request and one other actor; the
second one distinguishes orders and keeps a channel of 2 able to overflow. The six tasks and one nesting level
give each guard of Run both outcomes, with two holders contending for one slot; the two spellings are a graph whose
dependencies are all found, and one in which a task of either Run waits for one that is not. Three goroutines let two
sleep while a third releases, lends, takes back or resizes. `MaxLimit` bounds only the values that
SetMax is given. Three agents are the least with which a tree of two is full, a finished one can be trimmed, and
pruning a parent lets the tree grow again; one call of Stop suffices as calls interact only through the agents.
Two candidates and a third that is missing give each way out of Do; a channel of one holds an event at every place a
cancellation can find it, and the streams are those that the adapters' comments name (interleaved fragments, no
index, no name, a block never stopped). Two turns are needed for what the first leaves to the second; two model calls with
a limit of one retry let a call be refused; the budget evicts the oldest messages of the second turn, among
them calls whose results stay, lets a summary in, and is less than a failed result needs, so that the prompt is sent whole. One session is enough since sessions share nothing in `Server`;
a turn in the background and one in its response are the two kinds; two publishers can both be inside a
broadcast when the queue of one is full. Three steps of grammar reach the nesting limit of one and go beyond it. `MaxTurns`,
`MaxCrashes`, `MaxSwitches`, `MaxMessages`, `MaxConnects`, `MaxFetches`, `MaxTasks` and `MaxSteps` bound the histories (a second task is what finds the
remains of a first, a second step lets a request or a switch of the session fall into a task that another one is in, and two
requests of a task make four events, more than a channel of one and the watcher take);
elsewhere histories end since every request, task and Run happens once; the theorems have no
bound.

Fairness. In the broker every blocked or entering caller is weakly fair (the Go scheduler runs what can run);
users, contexts and frontends promise nothing. In the scheduler a Run that can go on does and executors
return some time; nobody is obliged to cancel or to raise a limit, and a Run that waits for a slot is not
assumed to hear of its own cancellation. In the semaphore, a goroutine inside acquire is strongly fair, since Go's mutex
hands over to a starving waiter; broadcasts are weakly fair. In the
coordinator runners return, owners finish their agents, and calls of Stop and Wait go on when they can; nobody is
obliged to spawn, to stop or to prune. `PatientSpec`
adds that slots are returned in the end, and is what `CancelEndsAcquire` needs to hold. A request's goroutine and the
three of a stream go on and notice that their context has ended (a read of a cancelled request fails, as net/http's
does); backends, probers and the clock promise nothing. The loop goes on, model calls and tools return (both have
timeouts); the user need not answer, nor cancel. In the hub a connection's goroutines run, the ticker is not passed over for ever and a
shutdown that began continues; in the server work whose context has ended unwinds, and approvals return after the
signal, to whose context they are bound. In the terminal the update loop takes every
message some time, the task's goroutine goes on, and a program that was told to quit does; keys are the user's. The
dialogs have no liveness: nothing obliges a user.

### Findings

Those with a run:

1. `semaphore_wakeup`: acquire promises to wait "for a slot, or for ctx to end" (`semaphore.go:40`). A context
   that ends between the waiter's check and its Wait broadcasts to an empty list; the waiter then sleeps until
   some slot is returned.
2. `coordinator_hang`: executeTask looks its record up by id after the spawn and returns when it is gone
   (`coordinator.go:679-682`), before the deferred close of the done channel. An agent that is stopped and
   pruned or trimmed in between leaves a call of Wait watching a channel nobody closes, against
   `coordinator.go:428`.
3. `dialogs_lost`: the bus event that tells of an answer carries no id, and is also sent for an action that is
   denied without a question (`loop.go:285`); the browser closes the first dialog of that tool, or the first of all
   (`store.ts:281-286`). The request behind it still waits, against `ui/approvals.ts:10-11`.
4. `reset_forgets`: "after /reset nothing that came before is sent to the model" (`dispatch.go:109-111`). /reset is not
   refused while a turn runs; the turn's end appends what it produced to the conversation just emptied
   (`model.go:575`), and the next prompt is sent with it.
5. `shutdown_silent`: Shutdown unsubscribes from the bus first (`server.go:391-393`), so the cancelled
   status of the agents that it stops next never reaches a browser, against `server.go:396-397` and
   `agents.go:290-293`.

Observed while modelling, without a run of their own:

- Write claims belong to one Run (`scheduler.go:386`), while the comments (`:55`, `:303`) promise exclusion
  between any two running tasks. The web server runs several objectives of a session on one scheduler.
- reclaim exceeds the limit by the nested runs of siblings too, not only by the spawn depth (`semaphore.go:75-77`).
- An agent is reported cancelled while its goroutine still runs, which `coordinator.go:413-414` says would be a lie.
- A status page whose browser leaves makes `Router.Health` cache the provider as down (`router.go:822-832`), though a
  cancellation says nothing of it (`openaicompat/errors.go:72-73`).
- The orphan rule of `assemble` (`context.go:583-588`) can drop the whole history, the newest turn with it; the
  comment at `:512-514` would rather fail. A prompt that cannot be bounded is sent whole, and may begin with a
  result whose call is not there.
- The web server and the command line throw away what a failed or cancelled turn produced, though its tools have
  run (`api.go:1216-1219`, `cli.go:94-97`); the TUI keeps it, and its comment says why (`model.go:538-539`).
- /session load is not refused while a turn runs either, and its end appends to the conversation that was loaded; a prompt
  submitted before the new session of /reset exists is stored under the old one.
- The TUI's prompt is cleared by the event of its request's end alone (`model.go:398-403`), which the broker drops when
  its channel is full; `syncApprovals` only ever raises one. A stale prompt stays until a key answers it, in vain
  (`PromptFollowsQueue` allows it where the event was dropped, and only there).
- A runner that panics (`coordinator.go:699`) skips the switch that settles its agent's status; the deferred finish closes the done
  channel (`:683`) and the scheduler recovers (`scheduler.go:465`). The agent counts as working until somebody stops it: it
  keeps its place in the budget of its tree, no retention forgets it, and a call of Wait, whose channel is closed, loops.
- Validate trims ids (`scheduler.go:223`), the run does not (`:497-517`): tasks "a " and "b", with "b" on "a", pass, and end in the
  ErrNoProgress that the comment at `:430` calls unreachable with a validated graph; cycles among such ids pass too. The planner
  leaves no such ids (`planner.go:106-150` trims).
- A web turn parked at an approval does not return when it is cancelled (`approvals.go:233` waits on the program's
  context); the TUI binds the approval to the turn.
- Shutdown replaces the table of running turns (`server.go:429`): a turn accepted beside one that unwinds may be
  struck out by its end, and is found again only through the server's context.
- `Do` moves to the next candidate after a capability check that failed because the request was cancelled (`router.go:475-481`);
  only what the request's own function returns is looked at for being worth a retry.
- A line has one category, its worst command's, so a deny rule of another category says nothing of it.
- A crash between two appends leaves a call without its results in the transcript, which is replayed.
- The selected files' message is history, which the window may evict, though it "is sent with every request"
  (`commands_context.go:82`); nobody sets `Loop.Selected`, so that Build's files, results and memory are not used by the program.

## Proofs

All theorems hold for every value of the constants that satisfies the named assumptions.

- `BrokerProofs`: types, and `BrokerInv`, the conjunction of `PendingIsUnanswered`, `FailClosed`,
  `AnswerHonoured` and `CallerInv`. The last says what a caller's channel contains: a caller that waits without being
  pending finds there the answer on record, or the news of the close; without it neither `AnswerHonoured` nor
  `PendingIsUnanswered` is inductive. The refinement theorem maps each step to a step of
  ApprovalGate or a stutter, with the invariant ruling out steps that would revise a verdict.
- `SchedulerProofs`: `SchedulerInv` strengthens the properties by `WorkerInv` (a goroutine's position
  determines its status), `ResultInv` (the channel holds the results sent and not applied, each once), `ClaimInv` (the
  claims are exactly those of the running tasks, which do not overlap) and `RunInv` (the task that started a nested Run
  waits for it). `PermitsMatchWorkers` is a count over a finite set, by the library's cardinality theorems.
  `NeverStuck` takes the set of pending tasks: unless all of them have blanks around their ids, it has one without
  dependencies in it, by what Validate guarantees; that one waits for a task it does not find, or can start. If all have
  blanks, any dependency among them is one that is not found. `DependenciesFirst` (no task starts before all it depends on is
  complete) is left to the proof; no run lists it. `ReportsAreTrue` rests on
  `TaskStep`, the five things a step can do to one task, and on `OutcomeInv`: a task that ran has no final status but the
  one its outcome calls for. `SchedulerSharesPool` is the refinement of SlotPool by the tasks of all Runs: those that hold a
  slot are in their executor or have just sent their result, those that lent theirs wait for a nested Run, and only
  these exceed the limit.
- `CoordinatorProofs`: `CoordinatorInv` adds to the properties of the run `WorkerInv` (a worker's
  position and its agent's status, which a panic leaves open), `CallInv` (a call of Stop that is idle holds nothing, one about to mark an
  agent with a worker has cancelled it) and `TreeInv` (a tree is named by an agent that exists). `OffMeansOff` rests on
  `LiveAreRemembered`, or else the snapshot of StopAll could miss somebody; `BudgetHolds` too, since the
  code counts the agents it remembers. `EndsStand` is an action property, step by step: whoever comes late, a worker or a call
  of Stop, revises nothing.
- `SemaphoreProofs`: types with the mutex discipline, `SlotIsAnnounced` from the fact that a goroutine about to
  sleep has seen no free slot and still holds the mutex, and the refinement of SlotPool.
- `DialogsProofs`: `DialogsInv` has, besides types and `OneDialogEach`, `Single` (a placeholder has no twin), `ToldInv` (what
  is in the feed, the socket's queue, a snapshot or a dialog was told of a request that had entered the
  broker's queue) and `FetchInv` (a list that is not out of date contains every dialog of a request that waits). A request
  enters the queue once, which makes the epoch enough for `ListErasesNothing`; without `ToldInv` an old list could
  miss a dialog that no event had announced.

- `TurnProofs`, the loop and its frontends. `Shape` has the types and what each phase of a turn leaves empty. On it stand
  four invariants, each inductive with it:
  - `AnswerInv`: the calls still `todo` are exactly the last ones of the last message that makes calls, in what the turn
    produced and in the conversation; this gives `CallsAnswered`.
  - `PairInv`: what was produced, remembered, and stored together with what is still to store has every answer behind its
    call; the conversation too, once the results at its head are set aside, which is all that cutting the web server's
    window can break. `PairedCut` drops exactly those, so that `ResultsArePaired` holds for every budget and window; the lemmas say
    where the cuts of `Build` fall. `ResultsArePaired` alone is not inductive, since it says nothing of `saving`.
  - `IdInv` and `RetryInv`: ids grow, so that a call that was answered is not the one that is up, and the number of failed runs
    of a tool is at most its count in `failures`. Without the order of the ids an answer might belong to two calls and
    the count be too low.
  - `MemoryInv`: what the turn produced is what it has stored followed by what is to come, and the transcript is the memory and
    the stored part, less what failed to be stored.
  Two more say what has run. `DenyInv`: what ran, and what is about to, no rule of the policy denies; a switch of the mode
  changes no rule, and the session cannot be opened anew under a turn. `ToldInv`: what ran has one result in what the turn
  produced, since by `IdInv` the call that is up is none of those before it. `DeniedNeverRuns`, `RunOnceAndTold` and
  `RunsRemembered` follow.
- `TurnProofs`, the terminal. `TerminalInv`: a request waits only while the task asks, and `InStep`: if it waits and the task goes on,
  there is a prompt or an event to come; the prompt on screen is that request's, or the news that ends it is in the feed, or was
  dropped; each request announced in the feed that waits no more has its end behind it there, or among the dropped. The last
  part makes it inductive: a stale announcement raises a prompt, which only news still to come can take down. For
  every capacity of at least one: an event is dropped only when there are others in it, after each of which the queue is read.
- `TurnProofs`, the evaluator: three facts about every policy and action. Normalizing a policy changes no decision; an action
  judged more severe is not allowed where the milder judgement was not, so that the escalations of the
  classifier cannot loosen; and the mode confirm is the stricter.
- `WebProofs`, the server: types; `TurnInv`, that before shutdown reaches the turns a live turn is its session's registered one, for
  which the order of Shutdown's stages must be known to be monotonic; and `RunInv`, that the finished runs which are
  known are the last of `finished`, at most `Retain`, a count over a sequence by the library's cardinality theorems. The hub: types
  with `ClosedReachesAll`, which is inductive with them: the step that closes puts all members on the list
  of those to stop, and Join refuses afterwards. `FirstReasonStays` follows step by step.
- `ProviderProofs`, the router. `Ordered` says of one request that its attempts are of the first candidates in their order, that one
  that was tried and left failed with something worth a retry, and what was returned; it speaks of no other request, so that the health that
  others report cannot disturb it. Several properties of the list are one invariant, as the error returned at the end is the
  first attempt's.
- `ProviderProofs`, the stream. `FlowInv`: what the adapter emitted is what the loop has, followed by its channel, what the
  ferry holds and the adapter's channel, as long as the ferry runs; a ferry that ended by itself left nothing behind. `EndInv`: the
  event that ends a stream is the last one emitted. Together they say that a closed channel after a done event is a whole answer, whatever
  the capacities (`AnswersAreWhole`). `DeliverInv` carries this to the refinement of `Delivery`: what is sent, received and decided
  there are `emitted`, `got` and `outcome`, and what the loop has, followed by what is on its way, is what was emitted unless
  nothing was ever handed on. Each step of the adapter, the ferry and the loop is then one of Send, Receive, Answer, Fail, Cancel,
  Reject and Stop, or a stutter.

Parts and wholes. An MC module whose behaviours are of any of its parts extends one part and has the others as instances. A
theorem about an instance is one about that part's own specification (`U!Spec`, `H!Spec`, `S!Spec`); `TurnRunsParts`,
`WebRunsParts` and `ProviderRunsParts` prove that a behaviour of the whole is one of these parts, so that what is proved of a
part holds of the run. `DialogsProofs` is about `Dialogs` by itself; `TurnProofs` has an instance of it (`DP`) with the constants of
`MCTurn`.

Assumptions. `TurnAssumption`: the three frontends, a window and a number of kept messages that are not negative (Build sets a negative
one to 0), replies that are sequences of calls, and policies that have rules. `RouterAssumption`: `Classes` and its order name the same classes, as a map and its
sorted keys do, fallbacks are a sequence, and "ok" is no error. `StreamAssumption`: a backend's frames are a sequence of the
kinds the adapters tell apart; nothing is assumed of their order.

`FrontendsInSync` (in `BrokerProofs`) rests on `SyncInv`: the last event of a request in the channel of a frontend that lost none says
whether it is pending, and what the channel is silent about is right in its view. The first half must hold before the frontend
has listed the queue, or the events between subscribing and listing would prove nothing.

Model-checked only: the liveness properties (`Settles`, `RunsReturn`, `WaitMovesOn`, `CancelEndsAcquire`, `CancelEndsAll`,
`TurnsEnd`, `EventsAreShown`, `ShutdownEnds`, `DropsAreTold`), which are outside the prover's reach; `CallsKeptApart`, whose
reference is a fold over the fragments, so that a proof is an induction over data; `NothingHidden` and `GravestConfirmed`, since
`Classification` is recursive.

## Not modelled

The models stand for the program's logic of concurrency, permission and failure, a small share of its lines: most of
the implementation is I/O, SQL, HTTP handlers that read or write one thing, document formats, project discovery, configuration,
statistics, views and text, and a model of it would repeat it. In particular:

- `ClassifyPath`, and the tables by which a name or an option of a command is recognised: a program of the model is what
  they would find.
- The delegate tool, the planner and the composition of Coordinator and Scheduler in one model: `Scheduler` takes an
  executor that ends somehow, which is what the coordinator's `executeTask` does.
- The router's Resolve, Embed and ProbeHealth (used by nothing), registration, and the accounting of tokens.
- The estimate of tokens, the text of summaries, and the operations on the selection, which the program never calls.
- SQLite's tables other than the transcript; migrations, search and export.
- Web authentication, uploads, static files; the browser's transcript and panels; the reconnection's back-off.
- The TUI's views, and its commands that only report or configure.

## Plan

What would come next: `Coordinator` over `Scheduler` in one model, so that stopping an agent ends the runs below it; the
composition of `Dialogs` with `Broker`; an abstract specification of a turn, which the three frontends of `Turn` implement as
far as their ends differ; a model of the delegate tool, which joins `Turn` and `Scheduler`.
