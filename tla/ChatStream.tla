----------------------------- MODULE ChatStream -----------------------------
(***************************************************************************)
(* One streamed completion, from the backend's frames to the message the   *)
(* agent loop appends to the conversation:                                 *)
(*                                                                         *)
(*   backend --frames--> adapter --raw--> replayEvents --out--> collect    *)
(*                                                                         *)
(* The adapter (consumeStream of openaicompat and of anthropic, chosen by  *)
(* Dialect) assembles tool calls from fragments; Router.Chat has taken the *)
(* first event off raw when replayEvents starts.  Each of the goroutines   *)
(* gives up when the context ends.  Text and reasoning are one kind of     *)
(* event, and the arguments of a call are the fragments they came in.  An  *)
(* empty id stands for the fresh one that a call without id is given, and  *)
(* the accounting event before the last one is left out.                   *)
(***************************************************************************)
EXTENDS Naturals, FiniteSets, SequencesExt, Filtering

CONSTANTS
  Scripts,  (* what a backend may send: records [dialect, frames, calls]    *)
  Buffer,   (* capacity of the event channels (16 in the code)              *)
  NoIndex   (* the index of a fragment that names none                      *)

VARIABLES
  script,   \* the backend's script
  next,     \* the frame the adapter reads next
  adapter,  \* "off", "on", or "ended" (its channel is closed)
  calls,    \* the tool calls being assembled, in the order of their first fragment
  pending,  \* what the adapter has to emit before it reads on
  emitted,  \* what it has emitted
  raw,      \* its channel
  ferry,    \* replayEvents: "off", "give" (in a send), "take" (in a receive),
            \* "ended"; "drain" when drainEvents runs in its place
  hand,     \* the event it holds
  out,      \* its channel
  got,      \* the events collect has received
  outcome,  \* what the loop gets: "", "answer", "error", "cancelled",
            \* "malformed"; "failing" while collect drains after an error
  ctxEnded  \* the request's context has ended

vars == <<script, next, adapter, calls, pending, emitted, raw, ferry, hand, out,
          got, outcome, ctxEnded>>

Text == [kind |-> "text"]
Done == [kind |-> "done"]
Error == [kind |-> "error"]
ToolCall(c) == [kind |-> "call", id |-> c.id, args |-> c.args]
IsTerminal(e) == e.kind \in {"done", "error"}
-----------------------------------------------------------------------------
(* Assembling tool calls                                                   *)

NewCall(index) == [index |-> index, id |-> <<>>, named |-> FALSE, args |-> <<>>, emitted |-> FALSE]

\* The position of the call a fragment belongs to, 0 for a new one.  An index
\* stands for the latest call that has it.
Latest(index) ==
  LET same == {i \in DOMAIN calls : calls[i].index = index}
  IN  IF same = {} THEN 0 ELSE CHOOSE i \in same : \A j \in same : j <= i

\* Mutant: a fresh id does not start a new call.
CallOfIndex(frag) == Latest(IF frag.index = NoIndex THEN 0 ELSE frag.index)

\* openaicompat: a fragment without an index but with an id of its own starts
\* the next call of a server that sends whole calls back to back.
CallOf(frag) ==
  LET index == IF frag.index = NoIndex THEN 0 ELSE frag.index
      at == Latest(index)
  IN  IF at > 0 /\ frag.index = NoIndex /\ frag.id # <<>> /\ calls[at].id # <<>>
      THEN 0 ELSE at

\* The fragment's id, name and arguments are appended to its call; at is its
\* position or 0.
Folded(frag, at) ==
  LET index == IF frag.index = NoIndex THEN 0 ELSE frag.index
      all == IF at = 0 THEN Append(calls, NewCall(index)) ELSE calls
      i == IF at = 0 THEN Len(all) ELSE at
  IN  [all EXCEPT ![i].id = @ \o frag.id,
                  ![i].named = @ \/ frag.named,
                  ![i].args = @ \o frag.args]

\* complete: the calls nobody has emitted yet, those without a name dropped,
\* and the end of the stream.
Unemitted == Picked(calls, {i \in DOMAIN calls : calls[i].named /\ ~calls[i].emitted})
Completion == [i \in DOMAIN Unemitted |-> ToolCall(Unemitted[i])] \o <<Done>>

\* anthropic: a tool_use block is emitted when it stops.
Flushed(index) ==
  LET at == Latest(index)
  IN  IF at = 0 \/ calls[at].emitted \/ ~calls[at].named THEN <<>> ELSE <<ToolCall(calls[at])>>
-----------------------------------------------------------------------------
(* The adapter                                                             *)

Reading == adapter = "on" /\ pending = <<>>

Frame == script.frames[next]

\* Frames are read in order; those of a script that has no more, or that is
\* cut here, end with EOF or with a failed read.
ReadFrame ==
  /\ Reading
  /\ next <= Len(script.frames)
  /\ next' = next + 1
  /\ CASE Frame.kind = "fragment" ->
            calls' = Folded(Frame, IF script.dialect = "openai" THEN CallOf(Frame)
                                   ELSE Latest(Frame.index))
            /\ UNCHANGED pending
       [] Frame.kind = "stop" ->
            /\ pending' = Flushed(Frame.index)
            /\ calls' = [i \in DOMAIN calls |->
                          IF i = Latest(Frame.index) THEN [calls[i] EXCEPT !.emitted = TRUE]
                          ELSE calls[i]]
       [] Frame.kind = "text" -> pending' = <<Text>> /\ UNCHANGED calls
       [] Frame.kind = "error" -> pending' = <<Error>> /\ UNCHANGED calls
       [] Frame.kind = "end" -> pending' = Completion /\ UNCHANGED calls
  /\ UNCHANGED <<script, adapter, emitted, raw, ferry, hand, out, got, outcome, ctxEnded>>

\* A clean EOF completes the stream once a frame was read: servers that omit
\* the end marker are common.
ReadEOF ==
  /\ Reading
  /\ pending' = IF next > 1 THEN Completion ELSE <<Error>>
  /\ UNCHANGED <<script, next, adapter, calls, emitted, raw, ferry, hand, out, got, outcome, ctxEnded>>

\* A broken connection, a frame that does not parse, the end of the context.
ReadFailure ==
  /\ Reading
  /\ pending' = <<Error>>
  /\ UNCHANGED <<script, next, adapter, calls, emitted, raw, ferry, hand, out, got, outcome, ctxEnded>>

\* emit: the next event, as soon as the channel has room; after the last the
\* channel is closed.
Emit ==
  /\ pending # <<>> /\ adapter = "on"
  /\ Len(raw) < Buffer
  /\ raw' = Append(raw, Head(pending))
  /\ emitted' = Append(emitted, Head(pending))
  /\ pending' = Tail(pending)
  /\ adapter' = IF IsTerminal(Head(pending)) THEN "ended" ELSE "on"
  /\ UNCHANGED <<script, next, calls, ferry, hand, out, got, outcome, ctxEnded>>

\* emit: the context ends first.
AbandonEmit ==
  /\ pending # <<>> /\ adapter = "on"
  /\ ctxEnded
  /\ adapter' = "ended"
  /\ UNCHANGED <<script, next, calls, pending, emitted, raw, ferry, hand, out, got, outcome, ctxEnded>>
-----------------------------------------------------------------------------
(* Router.Chat peeks at the first event, replayEvents hands on             *)

Finish(how) == outcome' = how

\* The first event decides: an error is the request's, and a goroutine is left
\* to drain the stream; any other event starts replayEvents.
PeekEvent ==
  /\ ferry = "off" /\ outcome = "" /\ raw # <<>>
  /\ raw' = Tail(raw)
  /\ IF Head(raw) = Error
     THEN Finish("error") /\ ferry' = "drain" /\ UNCHANGED hand
     ELSE ferry' = "give" /\ hand' = <<Head(raw)>> /\ UNCHANGED outcome
  /\ UNCHANGED <<script, next, adapter, calls, pending, emitted, out, got, ctxEnded>>

PeekNothing ==
  /\ ferry = "off" /\ outcome = ""
  /\ \/ raw = <<>> /\ adapter = "ended" /\ Finish("malformed")
     \/ ctxEnded /\ Finish("cancelled")
  /\ ferry' = "drain"
  /\ UNCHANGED <<script, next, adapter, calls, pending, emitted, raw, hand, out, got, ctxEnded>>

FerryGives ==
  /\ ferry = "give"
  /\ Len(out) < Buffer
  /\ out' = out \o hand
  /\ hand' = <<>>
  /\ ferry' = "take"
  /\ UNCHANGED <<script, next, adapter, calls, pending, emitted, raw, got, outcome, ctxEnded>>

FerryTakes ==
  /\ ferry = "take" /\ raw # <<>>
  /\ hand' = <<Head(raw)>>
  /\ raw' = Tail(raw)
  /\ ferry' = "give"
  /\ UNCHANGED <<script, next, adapter, calls, pending, emitted, out, got, outcome, ctxEnded>>

FerryDrains ==
  /\ ferry = "drain" /\ raw # <<>>
  /\ raw' = Tail(raw)
  /\ UNCHANGED <<script, next, adapter, calls, pending, emitted, ferry, hand, out, got, outcome, ctxEnded>>

\* Mutant: a send is not given up when the context ends.
FerryEndsLate ==
  /\ ferry \in {"take", "drain"} /\ raw = <<>> /\ adapter = "ended"
  /\ ferry' = "ended"
  /\ UNCHANGED <<script, next, adapter, calls, pending, emitted, raw, hand, out, got, outcome, ctxEnded>>

\* The adapter's channel is closed, or the context ends a send that waits.
FerryEnds ==
  /\ \/ ferry \in {"take", "drain"} /\ raw = <<>> /\ adapter = "ended"
     \/ ferry = "give" /\ ctxEnded
  /\ ferry' = "ended"
  /\ UNCHANGED <<script, next, adapter, calls, pending, emitted, raw, hand, out, got, outcome, ctxEnded>>
-----------------------------------------------------------------------------
(* collect                                                                 *)

\* An error is the turn's, and what follows it is drained; after any other
\* event the context is looked at.
Collect ==
  /\ out # <<>> /\ outcome \in {"", "failing"}
  /\ out' = Tail(out)
  /\ got' = Append(got, Head(out))
  /\ IF outcome = "failing" THEN UNCHANGED outcome
     ELSE IF Head(out) = Error THEN Finish("failing")
     ELSE IF ctxEnded THEN Finish("cancelled")
     ELSE UNCHANGED outcome
  /\ UNCHANGED <<script, next, adapter, calls, pending, emitted, raw, ferry, hand, ctxEnded>>

\* Mutant: a closed channel is the end of an answer, whoever closed it.
CollectClosedTrusting ==
  /\ out = <<>> /\ ferry = "ended" /\ outcome \in {"", "failing"}
  /\ Finish(IF outcome = "failing" THEN "error" ELSE IF got = <<>> THEN "malformed" ELSE "answer")
  /\ UNCHANGED <<script, next, adapter, calls, pending, emitted, raw, ferry, hand, out, got, ctxEnded>>

\* The channel is closed.  The context is looked at once more; a stream that
\* brought nothing, or neither text nor calls nor an end, is no answer.
CollectClosed ==
  /\ out = <<>> /\ ferry = "ended" /\ outcome \in {"", "failing"}
  /\ Finish(IF outcome = "failing" THEN "error"
            ELSE IF ctxEnded THEN "cancelled"
            ELSE IF got = <<>> THEN "malformed"
            ELSE "answer")
  /\ UNCHANGED <<script, next, adapter, calls, pending, emitted, raw, ferry, hand, out, got, ctxEnded>>

\* The user stops the turn.
EndContext ==
  /\ adapter # "off" /\ outcome = "" /\ ~ctxEnded
  /\ ctxEnded' = TRUE
  /\ UNCHANGED <<script, next, adapter, calls, pending, emitted, raw, ferry, hand, out, got, outcome>>
-----------------------------------------------------------------------------
Init ==
  /\ script = CHOOSE s \in Scripts : TRUE
  /\ next = 1
  /\ adapter = "off"
  /\ calls = <<>> /\ pending = <<>> /\ emitted = <<>>
  /\ raw = <<>> /\ hand = <<>> /\ out = <<>> /\ got = <<>>
  /\ ferry = "off"
  /\ outcome = ""
  /\ ctxEnded = FALSE

\* Provider.Chat: the request is on its way to a backend that will answer it so.
Chat ==
  /\ adapter = "off"
  /\ adapter' = "on"
  /\ script' \in Scripts
  /\ UNCHANGED <<next, calls, pending, emitted, raw, ferry, hand, out, got, outcome, ctxEnded>>

Adapter == ReadFrame \/ ReadEOF \/ ReadFailure \/ Emit \/ AbandonEmit
Ferry == FerryGives \/ FerryTakes \/ FerryDrains \/ FerryEnds
Caller == (adapter # "off" /\ (PeekEvent \/ PeekNothing)) \/ Collect \/ CollectClosed

Next == Chat \/ Adapter \/ Ferry \/ Caller \/ EndContext

\* Boop's goroutines run; of the backend only that a read of a request whose
\* context has ended fails.
Fairness ==
  /\ WF_vars(Emit \/ AbandonEmit) /\ WF_vars(ctxEnded /\ ReadFailure)
  /\ WF_vars(Ferry) /\ WF_vars(Caller)

Spec == Init /\ [][Next]_vars /\ Fairness
-----------------------------------------------------------------------------
(* Properties                                                              *)

CallsOf(events) == SelectSeq(events, LAMBDA e : e.kind = "call")

TypeOK ==
  /\ script \in Scripts
  /\ next \in 1 .. Len(script.frames) + 1
  /\ adapter \in {"off", "on", "ended"}
  /\ ferry \in {"off", "give", "take", "drain", "ended"}
  /\ outcome \in {"", "failing", "answer", "error", "cancelled", "malformed"}
  /\ Len(raw) <= Buffer /\ Len(out) <= Buffer
  /\ Len(hand) <= 1 /\ (ferry = "give" => hand # <<>>)
  /\ ctxEnded \in BOOLEAN

\* What collect takes for an answer is every event the adapter sent, the one
\* peeked at included, in their order and up to the completion: a stream that a
\* cancellation cut short, at any of its channels, is never taken for one
\* (loop.go collect, router.go replayEvents, stream.go emit).
AnswerIsWhole ==
  outcome = "answer" => got = emitted /\ Last(got) = Done

\* A call never holds fragments of another: each is a beginning of one the
\* backend sent; and the answer to a stream that was read to its end holds the
\* backend's calls, whole and in their order (stream.go accumulateToolCall,
\* flushBlock, complete).
CallsKeptApart ==
  /\ \A i \in DOMAIN emitted : emitted[i].kind = "call" =>
       \E k \in DOMAIN script.calls : IsPrefix(emitted[i].args, script.calls[k])
  /\ outcome = "answer" /\ next > Len(script.frames) =>
       [i \in DOMAIN CallsOf(got) |-> CallsOf(got)[i].args] = script.calls

\* Once the context ends, the loop gets an answer to that effect and the
\* adapter and the goroutine behind it end: nobody stays blocked on a channel
\* that nobody reads (stream.go emit, router.go replayEvents, drainEvents).
CancelEndsStream ==
  ctxEnded ~> outcome \notin {"", "failing"} /\ adapter = "ended" /\ ferry = "ended"

\* A stream that broke off or brought an error leaves no goroutine behind
\* either.
ErrorEndsStream ==
  outcome = "error" ~> adapter = "ended" /\ ferry = "ended"
-----------------------------------------------------------------------------
(* The stream implements its delivery.  While collect drains what follows an *)
(* error, the verdict is still to come.                                      *)

D == INSTANCE Delivery WITH
  sent <- emitted, received <- got, stopped <- ctxEnded,
  verdict <- IF outcome = "failing" THEN "" ELSE outcome

\* Between the adapter and the loop no event is lost, repeated or overtaken, and
\* the loop's verdict is the one that what the adapter sent, and the context,
\* call for (stream.go emit, router.go Chat, replayEvents, loop.go collect).
DeliverySpec == D!Spec
=============================================================================
