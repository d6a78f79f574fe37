----------------------------- MODULE MCProvider -----------------------------
(* A request's way through the router, a stream of its own, the turn that     *)
(* makes requests, and the terminal that runs turns. The parts share no state *)
(* of these models, so a behaviour is one of any of them. The last two are    *)
(* here for their ends alone: MCTurn has their safety, with more of           *)
(* everything.                                                                *)
EXTENDS Router

CONSTANTS Scripts, Buffer, NoIndex, FeedSize, MaxTasks, MaxSteps

\* A backend sends frames of the kinds the adapters tell apart.
ASSUME StreamAssumption ==
  \A s \in Scripts :
    /\ s.frames \in Seq(Range(s.frames))
    /\ \A i \in 1 .. Len(s.frames) :
         s.frames[i].kind \in {"fragment", "stop", "text", "error", "end"}

VARIABLES script, next, adapter, calls, pending, emitted, raw, ferry, hand, out,
          got, outcome, ctxEnded

streamVars == <<script, next, adapter, calls, pending, emitted, raw, ferry, hand, out,
                got, outcome, ctxEnded>>

S == INSTANCE ChatStream

VARIABLES frontend, policy, transcript, memory, place, cancelled, conversation, produced,
          iteration, todo, failures, saving, sent, ran, asked, crashes, switches

turnVars == <<frontend, policy, transcript, memory, place, cancelled, conversation, produced,
              iteration, todo, failures, saving, sent, ran, asked, crashes, switches>>

\* A tool that asks, in the TUI and in a browser.
T == INSTANCE Turn WITH
  pc <- place, Frontends <- {"web", "tui"}, Registered <- {"read"}, WellFormed <- {"read"},
  ActionOf <- [t \in {"read"} |->
                 [category |-> "filesystem.read", risk |-> "low", production |-> FALSE]],
  Policies <- {[mode |-> "confirm", rules |-> <<>>, unrestricted |-> FALSE, production |-> FALSE]},
  Replies <- {<<>>, <<"read", "read">>, <<"gone">>},
  PromptCosts <- {8}, ReplyCost <- 6, SystemCost <- 4, SelectionCost <- 0,
  Results <- {[failed |-> FALSE, cost |-> 4], [failed |-> TRUE, cost |-> 4]},
  Opts <- [budget |-> 40, reserve |-> 4, minRecent |-> 2, summary |-> 8],
  HistoryWindow <- 4, StoreMayFail <- FALSE, MaxIterations <- 2, MaxRetries <- 1,
  MaxTurns <- 1, MaxCrashes <- 0, MaxSwitches <- 1

VARIABLES prompt, active, armed, quitting, session, history, forgotten, queued, waking, wakes,
          worker, task, waiting, closed, feed, lost, commands, store, exited, steps

terminalVars == <<prompt, active, armed, quitting, session, history, forgotten, queued, waking,
                  wakes, worker, task, waiting, closed, feed, lost, commands, store, exited, steps>>

U == INSTANCE Terminal WITH pending <- waking

\* Two providers, a third that the fallback names but nobody registered, and the
\* selections that take each way through Primary and ModelFor.
MCClasses == [c \in {"default", "fast"} |->
               IF c = "default" THEN [provider |-> "a", model |-> "m1"]
               ELSE [provider |-> "b", model |-> "m2"]]
MCClassOrder == <<"default", "fast">>
MCModels == <<>>
MCFallback == <<"b", "c", "a">>
MCAble == [m \in {"m1", "m2"} |-> IF m = "m1" THEN {} ELSE {"vision"}]

Select(provider, model, class, required, noFallback) ==
  [provider |-> provider, model |-> model, class |-> class,
   required |-> required, noFallback |-> noFallback]

MCSelections == [r \in Requests |->
  IF r = CHOOSE q \in Requests : TRUE
  THEN {Select("", "", "", {"vision"}, FALSE),  \* a class nobody configured
        Select("", "m9", "", {}, FALSE)}        \* a model nobody serves
  ELSE {Select("", "m2", "", {}, TRUE),         \* a bare model, and only it
        Select("c", "", "fast", {}, FALSE)}]    \* a provider nobody registered

\* What a backend may send.
Fragment(index, id, named, args) ==
  [kind |-> "fragment", index |-> index, id |-> id, named |-> named, args |-> args]
Of(kind) == [kind |-> kind]
Stop(index) == [kind |-> "stop", index |-> index]

MCScripts == {
  \* two calls whose fragments interleave, after some text
  [dialect |-> "openai", calls |-> << <<"a1", "a2">>, <<"b1", "b2">> >>,
   frames |-> <<Of("text"), Fragment(0, <<"x">>, TRUE, <<"a1">>),
                Fragment(1, <<"y">>, TRUE, <<"b1">>), Fragment(0, <<>>, FALSE, <<"a2">>),
                Fragment(1, <<>>, FALSE, <<"b2">>), Of("end")>>],
  \* calls without an index, back to back, the second one in two fragments
  [dialect |-> "openai", calls |-> << <<"a1">>, <<"b1", "b2">> >>,
   frames |-> <<Fragment(NoIndex, <<"x">>, TRUE, <<"a1">>),
                Fragment(NoIndex, <<"y">>, TRUE, <<"b1">>),
                Fragment(NoIndex, <<>>, FALSE, <<"b2">>), Of("end")>>],
  \* a call that never got a name, and an error
  [dialect |-> "openai", calls |-> << <<>> >>,
   frames |-> <<Of("text"), Fragment(0, <<"x">>, FALSE, <<"a1">>), Of("error")>>],
  \* two blocks, one of which is never stopped
  [dialect |-> "anthropic", calls |-> << <<"a1", "a2">>, <<"b1">> >>,
   frames |-> <<Fragment(0, <<"x">>, TRUE, <<>>), Fragment(0, <<>>, FALSE, <<"a1">>),
                Fragment(0, <<>>, FALSE, <<"a2">>), Stop(0),
                Fragment(1, <<"y">>, TRUE, <<"b1">>), Of("end")>>]}

ProviderInit == Init /\ S!Init /\ T!Init /\ U!Init
ProviderNext ==
  \/ /\ S!Init /\ T!Init /\ U!Init
     /\ Next /\ UNCHANGED <<streamVars, turnVars, terminalVars>>
  \/ /\ Init /\ T!Init /\ U!Init
     /\ S!Next /\ UNCHANGED <<vars, turnVars, terminalVars>>
  \/ /\ Init /\ S!Init /\ U!Init
     /\ T!Next /\ UNCHANGED <<vars, streamVars, terminalVars>>
  \/ /\ Init /\ S!Init /\ T!Init
     /\ U!Next /\ UNCHANGED <<vars, streamVars, turnVars>>
ProviderSpec ==
  /\ ProviderInit /\ [][ProviderNext]_<<vars, streamVars, turnVars, terminalVars>>
  /\ Fairness /\ S!Fairness /\ T!Fairness /\ U!Fairness

AnswerIsWhole == S!AnswerIsWhole
DeliverySpec == S!DeliverySpec
CallsKeptApart == S!CallsKeptApart

\* A turn that is told to end does, and so does what the terminal runs when it
\* quits.
TurnsEnd == T!TurnsEnd /\ U!QuitEndsTask
EventsAreShown == U!EventsAreShown

\* A request whose context ends returns, and one whose context ends while its
\* stream runs ends with all its goroutines.
CancelEndsAll == CancelEndsRequest /\ S!CancelEndsStream /\ S!ErrorEndsStream
=============================================================================
