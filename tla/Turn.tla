-------------------------------- MODULE Turn --------------------------------
(* A user turn: the prompt is stored, the loop (internal/app/loop.go) asks    *)
(* the model, runs the tools it calls through the permission engine, feeds    *)
(* the results back until the model answers, and the frontend stores what     *)
(* came of it (execTurn of web/api.go, startTurn of tui/model.go, runPrompt   *)
(* of cmd/boop/cli.go). The process may crash between any two steps; the      *)
(* transcript, of which every append is a transaction, is all that survives.  *)
(*                                                                            *)
(* The model's stream is ChatStream's matter: here the model answers or the   *)
(* request fails. A request whose context has ended fails.                    *)
EXTENDS PromptWindow, Evaluator

CONSTANTS Frontends,      \* of "web", "tui" and "cli"
          Registered,     \* the tools in the registry
          WellFormed,     \* the tools whose arguments are valid
          ActionOf,       \* what a tool would do: a permissions.Action
          Policies,       \* the policies the user configures and switches between
          Replies,        \* what the model may say: sequences of tools to call
          PromptCosts, ReplyCost, SystemCost,
          SelectionCost,  \* of the files selected in the TUI, 0 if there are none
          Results,        \* what a tool may come back with: [failed, cost]
          Opts,           \* of the context manager
          HistoryWindow,  \* stored messages replayed by the web frontend
          StoreMayFail,   \* whether the store may fail an append
          MaxIterations, MaxRetries,
          MaxTurns, MaxCrashes, MaxSwitches  \* bounds of the model

ASSUME TurnAssumption ==
  /\ Frontends \subseteq {"web", "tui", "cli"}
  /\ HistoryWindow \in Nat /\ MaxRetries \in Int
  /\ Opts.minRecent \in Nat   \* what is negative is set to 0
  /\ \A reply \in Replies : reply \in Seq(Range(reply))
  /\ \A result \in Results : result.failed \in BOOLEAN
  /\ \A p \in Policies : "rules" \in DOMAIN p

VARIABLES frontend,      \* the process that has the session open, or "none"
          policy,        \* of its evaluator
          transcript,    \* messages in the session store
          memory,        \* the TUI's own copy of the conversation
          pc, cancelled,
          conversation, produced, iteration, todo, failures,  \* of Loop.Run
          saving,        \* messages of the turn still to be stored
          sent,          \* the prompt of the last request, and whether it was bounded
          ran,           \* calls of the turn whose tool was executed
          asked, crashes, switches

loop == <<conversation, produced, iteration, todo, failures>>
bounds == <<asked, crashes, switches>>
vars == <<frontend, policy, transcript, memory, pc, cancelled, loop, saving, sent, ran,
          bounds>>

Tools == Registered \cup UNION {Range(r) : r \in Replies}
NoPrompt == [window |-> <<>>, bounded |-> FALSE]

Message(role, calls, answers, cost) ==
  [role |-> role, calls |-> calls, answers |-> answers, cost |-> cost]

\* A call is [id, tool]; ids are unique in a session.
UserMessage(cost) == Message("user", <<>>, <<>>, cost)
Assistant(calls)  == Message("assistant", calls, <<>>, ReplyCost)
Answer(call, failed, cost) == Message("tool", <<>>, <<[id |-> call.id, failed |-> failed]>>, cost)

-----------------------------------------------------------------------------
(* The process.                                                               *)

\* A frontend opens the session: the TUI reads the whole transcript, the CLI
\* only ever opens a session of its own.
Open(f) ==
  /\ frontend = "none"
  /\ f = "cli" => transcript = <<>>
  /\ frontend' = f
  /\ policy' \in {NormalizePolicy(p) : p \in Policies}
  /\ memory' = IF f = "tui" THEN transcript ELSE <<>>
  /\ UNCHANGED <<transcript, pc, cancelled, loop, saving, sent, ran, bounds>>

Forget ==
  /\ pc' = "idle" /\ cancelled' = FALSE
  /\ conversation' = <<>> /\ produced' = <<>> /\ iteration' = 0 /\ todo' = <<>>
  /\ failures' = [t \in Tools |-> 0]
  /\ saving' = <<>> /\ sent' = NoPrompt /\ ran' = {}

Crash ==
  /\ frontend # "none"
  /\ crashes < MaxCrashes
  /\ crashes' = crashes + 1
  /\ frontend' = "none"
  /\ memory' = <<>>
  /\ Forget
  /\ UNCHANGED <<policy, transcript, asked, switches>>

\* /permissions mode, also while a turn runs: the evaluator's policy changes
\* under it.
SwitchMode ==
  /\ frontend = "tui"
  /\ switches < MaxSwitches
  /\ switches' = switches + 1
  /\ \E m \in Modes \ {policy.mode} : policy' = [policy EXCEPT !.mode = m]
  /\ UNCHANGED <<frontend, transcript, memory, pc, cancelled, loop, saving, sent, ran,
                 asked, crashes>>

\* Ctrl+C, the cancel message of a browser, or the signal of the command line.
CancelTurn ==
  /\ pc # "idle" /\ ~cancelled
  /\ cancelled' = TRUE
  /\ UNCHANGED <<frontend, policy, transcript, memory, pc, loop, saving, sent, ran, bounds>>

-----------------------------------------------------------------------------
(* The turn.                                                                  *)

\* An append may fail: the store is busy, closed or full.
Stored(appended, message) == IF appended THEN Append(transcript, message) ELSE transcript

\* What the frontend hands to the loop. The web server reads it back from the
\* store before it appends the prompt, the others carry it themselves; the TUI
\* puts the selected files before the prompt, and remembers them nowhere.
Selection ==
  IF SelectionCost = 0 THEN <<>> ELSE <<Message("system", <<>>, <<>>, SelectionCost)>>
History(user) ==
  CASE frontend = "web" -> Append(From(transcript, Max({Len(transcript) - HistoryWindow, 0})),
                                  user)
    [] frontend = "tui" -> Append(memory \o Selection, user)
    [] frontend = "cli" -> <<user>>

\* The prompt is stored and the loop starts. The web server gives the turn up
\* when it cannot store the prompt; the others only say so.
Ask(cost, appended) ==
  /\ frontend # "none" /\ pc = "idle" /\ asked < MaxTurns
  /\ appended \/ StoreMayFail
  /\ asked' = asked + 1
  /\ LET user == UserMessage(cost) IN
       /\ transcript' = Stored(appended, user)
       /\ memory' = IF frontend = "tui" THEN Append(memory, user) ELSE memory
       /\ IF frontend = "web" /\ ~appended
          THEN UNCHANGED <<pc, loop>>
          ELSE /\ pc' = "request"
               /\ conversation' = History(user)
               /\ produced' = <<>> /\ iteration' = 1 /\ todo' = <<>>
               /\ failures' = [t \in Tools |-> 0]
  /\ UNCHANGED <<frontend, policy, cancelled, saving, sent, ran, crashes, switches>>

\* The prompt is the window that the context manager builds, or everything when
\* even the mandatory part does not fit.
Request ==
  /\ pc = "request"
  /\ iteration <= MaxIterations
  /\ \E built \in {Build([system |-> SystemCost, memory |-> 0, files |-> <<>>,
                         results |-> <<>>, history |-> conversation], Opts)} :
       sent' = IF built.ok THEN [window |-> built.window, bounded |-> TRUE]
               ELSE [window |-> conversation, bounded |-> FALSE]
  /\ pc' = "model"
  /\ UNCHANGED <<frontend, policy, transcript, memory, cancelled, loop, saving, ran, bounds>>

\* What the frontend stores when the loop returns: the TUI keeps what an
\* interrupted turn produced, the others only a turn that succeeded.
Finish(ok) ==
  /\ pc' = "saving"
  /\ saving' = IF ok \/ frontend = "tui" THEN produced' ELSE <<>>

\* The model still asks for tools and may not.
StopAtLimit ==
  /\ pc = "request"
  /\ iteration > MaxIterations
  /\ UNCHANGED <<conversation, produced, iteration, todo, failures>>
  /\ Finish(TRUE)
  /\ UNCHANGED <<frontend, policy, transcript, memory, cancelled, sent, ran, bounds>>

RequestFails ==
  /\ pc = "model"
  /\ UNCHANGED loop
  /\ Finish(FALSE)
  /\ UNCHANGED <<frontend, policy, transcript, memory, cancelled, sent, ran, bounds>>

CallsOf(reply) ==
  [k \in DOMAIN reply |-> [id |-> <<asked, iteration, k>>, tool |-> reply[k]]]

Reply(reply) ==
  /\ pc = "model" /\ ~cancelled
  /\ LET message == Assistant(CallsOf(reply)) IN
       /\ conversation' = Append(conversation, message)
       /\ produced' = Append(produced, message)
  /\ todo' = CallsOf(reply)
  /\ UNCHANGED <<iteration, failures>>
  /\ IF reply = <<>> THEN Finish(TRUE) ELSE pc' = "calls" /\ UNCHANGED saving
  /\ UNCHANGED <<frontend, policy, transcript, memory, cancelled, sent, ran, bounds>>

-----------------------------------------------------------------------------
(* A tool call.                                                               *)

\* The result of the call at the head of todo goes back to the model, and the
\* next call is up. A failed one that was tried counts against its repetition.
GiveBack(failed, counted, cost) ==
  /\ LET message == Answer(Head(todo), failed, cost) IN
       /\ conversation' = Append(conversation, message)
       /\ produced' = Append(produced, message)
  /\ failures' = IF counted THEN [failures EXCEPT ![Head(todo).tool] = @ + 1] ELSE failures
  /\ todo' = Tail(todo)
  /\ pc' = IF Len(todo) = 1 THEN "request" ELSE "calls"
  /\ iteration' = IF Len(todo) = 1 THEN iteration + 1 ELSE iteration

\* Mutant: one more try than allowed.
RetryExhaustedLate == MaxRetries > 0 /\ failures[Head(todo).tool] > MaxRetries

RetryExhausted == MaxRetries > 0 /\ failures[Head(todo).tool] >= MaxRetries

\* Mutant: the refused call is passed over without a result.
NotAgainSilently ==
  /\ pc = "calls" /\ RetryExhausted
  /\ todo' = Tail(todo)
  /\ pc' = IF Len(todo) = 1 THEN "request" ELSE "calls"
  /\ iteration' = IF Len(todo) = 1 THEN iteration + 1 ELSE iteration
  /\ UNCHANGED <<frontend, policy, transcript, memory, cancelled, conversation, produced, failures,
                 saving, sent, ran, bounds>>

\* This exact call has failed too often in this turn and is not run again.
NotAgain ==
  /\ pc = "calls" /\ RetryExhausted
  /\ GiveBack(TRUE, FALSE, ReplyCost)
  /\ UNCHANGED <<frontend, policy, transcript, memory, cancelled, saving, sent, ran, bounds>>

Verdict == Evaluate(policy, ActionOf[Head(todo).tool])
Valid == Head(todo).tool \in Registered \cap WellFormed

\* No such tool, bad arguments, or a rule that denies it.
Refuse ==
  /\ pc = "calls" /\ ~RetryExhausted
  /\ IF Valid THEN Verdict = "deny" ELSE TRUE
  /\ GiveBack(TRUE, TRUE, ReplyCost)
  /\ UNCHANGED <<frontend, policy, transcript, memory, cancelled, saving, sent, ran, bounds>>

Permit ==
  /\ pc = "calls" /\ ~RetryExhausted
  /\ Valid /\ Verdict # "deny"
  /\ pc' = IF Verdict = "confirm" THEN "approval" ELSE "execute"
  /\ UNCHANGED <<frontend, policy, transcript, memory, cancelled, loop, saving, sent, ran,
                 bounds>>

Approve ==
  /\ pc = "approval"
  /\ pc' = "execute"
  /\ UNCHANGED <<frontend, policy, transcript, memory, cancelled, loop, saving, sent, ran,
                 bounds>>

\* The user says no, or the approver fails.
Decline ==
  /\ pc = "approval"
  /\ GiveBack(TRUE, TRUE, ReplyCost)
  /\ UNCHANGED <<frontend, policy, transcript, memory, cancelled, saving, sent, ran, bounds>>

\* Mutant: the approval is bound to the turn in the browser instead.
ReleaseApprovalOfWeb ==
  /\ pc = "approval" /\ frontend = "web" /\ cancelled
  /\ GiveBack(TRUE, TRUE, ReplyCost)
  /\ UNCHANGED <<frontend, policy, transcript, memory, cancelled, saving, sent, ran, bounds>>

\* Only the TUI binds the approval to the turn: elsewhere a cancelled turn stays
\* at the question until somebody answers it.
ReleaseApproval ==
  /\ pc = "approval" /\ frontend = "tui" /\ cancelled
  /\ GiveBack(TRUE, TRUE, ReplyCost)
  /\ UNCHANGED <<frontend, policy, transcript, memory, cancelled, saving, sent, ran, bounds>>

\* The tool runs, cancelled or not; it fails or it does what it was asked.
Execute(result) ==
  /\ pc = "execute"
  /\ ran' = ran \cup {Head(todo)}
  /\ GiveBack(result.failed, result.failed, result.cost)
  /\ UNCHANGED <<frontend, policy, transcript, memory, cancelled, saving, sent, bounds>>

-----------------------------------------------------------------------------
(* The outcome is stored, one message at a time; the first that cannot be     *)
(* stored is the last that is tried. Outside the TUI the turn's own context   *)
(* has to be alive for it.                                                    *)

\* Mutant: a message that cannot be stored is skipped.
SavePastFailure(appended) ==
  /\ pc = "saving" /\ saving # <<>>
  /\ IF cancelled /\ frontend # "tui" THEN ~appended ELSE appended \/ StoreMayFail
  /\ transcript' = Stored(appended, Head(saving))
  /\ saving' = Tail(saving)
  /\ UNCHANGED <<frontend, policy, memory, pc, cancelled, loop, sent, ran, bounds>>

Save(appended) ==
  /\ pc = "saving" /\ saving # <<>>
  /\ IF cancelled /\ frontend # "tui" THEN ~appended ELSE appended \/ StoreMayFail
  /\ transcript' = Stored(appended, Head(saving))
  /\ saving' = IF appended THEN Tail(saving) ELSE <<>>
  /\ UNCHANGED <<frontend, policy, memory, pc, cancelled, loop, sent, ran, bounds>>

\* Mutant: the TUI forgets what an interrupted turn produced.
EndTurnForgetting ==
  /\ pc = "saving" /\ saving = <<>>
  /\ frontend' = IF frontend = "cli" THEN "none" ELSE frontend
  /\ memory' = IF frontend = "tui" /\ ~cancelled THEN memory \o produced ELSE memory
  /\ Forget
  /\ UNCHANGED <<policy, transcript, bounds>>

\* The turn is over; the TUI takes it into its conversation, and the command
\* line, which runs one prompt, exits.
EndTurn ==
  /\ pc = "saving" /\ saving = <<>>
  /\ frontend' = IF frontend = "cli" THEN "none" ELSE frontend
  /\ memory' = IF frontend = "tui" THEN memory \o produced ELSE memory
  /\ Forget
  /\ UNCHANGED <<policy, transcript, bounds>>

Init ==
  /\ frontend = "none" /\ policy = NormalizePolicy(CHOOSE p \in Policies : TRUE)
  /\ transcript = <<>> /\ memory = <<>>
  /\ pc = "idle" /\ cancelled = FALSE
  /\ conversation = <<>> /\ produced = <<>> /\ iteration = 0 /\ todo = <<>>
  /\ failures = [t \in Tools |-> 0]
  /\ saving = <<>> /\ sent = NoPrompt /\ ran = {}
  /\ asked = 0 /\ crashes = 0 /\ switches = 0

Loop ==
  \/ Request \/ StopAtLimit \/ RequestFails
  \/ \E reply \in Replies : Reply(reply)
  \/ NotAgain \/ Refuse \/ Permit \/ ReleaseApproval
  \/ \E result \in Results : Execute(result)
  \/ \E appended \in BOOLEAN : Save(appended)
  \/ EndTurn

User ==
  \/ \E cost \in PromptCosts, appended \in BOOLEAN : Ask(cost, appended)
  \/ Approve \/ Decline \/ CancelTurn \/ SwitchMode
  \/ \E f \in Frontends : Open(f)

Next == Loop \/ User \/ Crash
Spec == Init /\ [][Next]_vars

(* The loop runs, tools and model calls return (both are bounded by timeouts  *)
(* of their own). Nothing makes the user answer.                              *)
Fairness == WF_vars(Loop)
FairSpec == Spec /\ Fairness
-----------------------------------------------------------------------------
(* Properties.                                                                *)

\* Where the calls of an assistant's message are answered in messages: each in
\* order right after it, a tail of them not yet.
AnsweredAt(messages, i) ==
  {j \in (i + 1)..Len(messages) :
     \A k \in (i + 1)..j : messages[k].role = "tool" /\ k - i <= Len(messages[i].calls)
                            /\ messages[k].answers[1].id = messages[i].calls[k - i].id}
AllAnswered(messages, i) == Cardinality(AnsweredAt(messages, i)) = Len(messages[i].calls)

TypeOK ==
  /\ frontend \in Frontends \cup {"none"}
  /\ policy.mode \in Modes
  /\ pc \in {"idle", "request", "model", "calls", "approval", "execute", "saving"}
  /\ cancelled \in BOOLEAN
  /\ iteration \in 0..(MaxIterations + 1)
  /\ failures \in [Tools -> 0..(MaxIterations * Max({Len(r) : r \in Replies}))]
  /\ pc \in {"calls", "approval", "execute"} <=> todo # <<>>

\* Every call the model makes in a turn is answered once, in order, right after
\* the message that makes it, whatever becomes of the call: a model API rejects
\* a conversation with a call left open (loop.go:137-158).
CallsAnswered ==
  \A i \in DOMAIN produced : produced[i].role = "assistant" =>
     LET answered == Cardinality(AnsweredAt(produced, i)) IN
       IF todo # <<>> /\ i + answered = Len(produced)
       THEN SubSeq(produced[i].calls, answered + 1, Len(produced[i].calls)) = todo
       ELSE AllAnswered(produced, i)

\* A tool result is never sent, and never stored, without the call it answers
\* before it: providers reject the orphan (context.go:567-572). Only a prompt
\* that could not be bounded may begin with one.
Paired(messages) ==
  \A i \in DOMAIN messages : messages[i].role = "tool" =>
     \E j \in 1..(i - 1) : \E k \in DOMAIN messages[j].calls :
        messages[j].calls[k].id = messages[i].answers[1].id
ResultsArePaired == (sent.bounded => Paired(sent.window)) /\ Paired(transcript)

\* No call is run more than MaxRetries times in a turn after failing each time
\* (loop.go:326-341), whatever else the model calls in between.
FailedRuns(tool) ==
  {call \in ran : /\ call.tool = tool
                  /\ \E i \in DOMAIN produced : produced[i].role = "tool"
                        /\ produced[i].answers[1] = [id |-> call.id, failed |-> TRUE]}
RetriesAreBounded ==
  \A tool \in Tools : MaxRetries > 0 => Cardinality(FailedRuns(tool)) <= MaxRetries

\* s is t with some of its messages lost.
Subsequence(s, t) ==
  LET absent == {i \in DOMAIN t : t[i] \notin Range(s)}
  IN \E more \in SUBSET (DOMAIN t \ absent) :
       LET lost == absent \cup more IN
         /\ Len(s) = Len(t) - Cardinality(lost)
         /\ \A i \in DOMAIN t \ lost : t[i] = s[i - Cardinality({j \in lost : j < i})]

\* What the store has of a session that is open in the TUI, the TUI's
\* conversation has too, in the same order: the next prompt forgets nothing that
\* was recorded (model.go:536-548, 575).
MemoryHasTranscript == frontend = "tui" /\ pc = "idle" => Subsequence(transcript, memory)

\* A turn comes to an end, or waits for the user's answer; one that is cancelled
\* in the TUI waits for nobody (approver.go:20-24).
TurnsEnd ==
  (pc # "idle") ~> \/ pc = "idle"
                   \/ pc = "approval" /\ ~(cancelled /\ frontend = "tui")
=============================================================================
