---------------------------- MODULE PromptWindow ----------------------------
(* The prompt that is sent for a request, as ContextManager.Build of          *)
(* internal/session/context.go assembles it from a system prompt, the project *)
(* memory, the explicit selection and the history of a conversation.          *)
(*                                                                            *)
(* A message is a record with its role, the calls it makes (a sequence of     *)
(* call ids, for an assistant's message), the call it answers (for a tool's)  *)
(* and its estimated cost in tokens; a file or a tool result of the selection *)
(* is its cost, the overhead of its heading included. What an estimate is     *)
(* made of is left to the instance.                                           *)
EXTENDS Integers, Sequences, FiniteSets, SequencesExt, FiniteSetsExt

MessageOverhead == 4
SectionOverhead == 8

Cost(messages) ==
  LET sum[i \in 0..Len(messages)] == IF i = 0 THEN 0 ELSE messages[i].cost + sum[i - 1]
  IN sum[Len(messages)]

From(s, cut) == SubSeq(s, cut + 1, Len(s))

\* The guaranteed tail: at most the newest opts.minRecent messages, fewer when
\* they do not fit.
TailCut(history, opts, room) ==
  LET n == Len(history)
  IN Min({c \in Max({n - opts.minRecent, 0})..n : c = n \/ Cost(From(history, c)) <= room})

\* The oldest message that older history, newest first, reaches in the room
\* that is left.
OlderCut(history, cut, room) ==
  Min({c \in 0..cut : c = cut \/ Cost(SubSeq(history, c + 1, cut)) <= room})

\* A window does not begin with a result whose call was evicted.
PairedCut(history, cut) ==
  LET n == Len(history)
  IN Min({c \in cut..n : c < n => history[c + 1].role # "tool"})

\* The members of costs, in their order, that are included while room lasts; one
\* that does not fit is passed over, and smaller ones after it may still fit.
Included(costs, room) ==
  FoldLeft(LAMBDA acc, i : IF costs[i] > acc.room THEN acc
                           ELSE [room |-> acc.room - costs[i], in |-> acc.in \cup {i}],
           [room |-> room, in |-> {}], [i \in 1..Len(costs) |-> i])

\* As Included, the last of costs first: tool results, newest first.
IncludedNewest(costs, room) ==
  LET n == Len(costs)
      got == Included(Reverse(costs), room)
  IN [room |-> got.room, in |-> {n + 1 - i : i \in got.in}]

TooSmall == [ok |-> FALSE]

Least(a, b) == IF a < b THEN a ELSE b

(* One candidate. input is [system, memory, files, results, history]: two     *)
(* costs (a memory of 0 is none), two sequences of costs and the messages.    *)
(* Each stage takes the room that the ones before it left.                    *)
Assemble(input, opts, effective, allowance) ==
  LET history == input.history
      n       == Len(history)
      system  == MessageOverhead + input.system
      tail    == TailCut(history, opts, effective - system)
      afterTail == effective - system - Cost(From(history, tail))
      summary == Least(allowance, afterTail)
      memory  == IF input.memory = 0 THEN 0 ELSE SectionOverhead + input.memory
      withMemory == memory # 0 /\ memory <= afterTail - summary
      files   == Included(input.files,
                          afterTail - summary - (IF withMemory THEN memory ELSE 0))
      results == IncludedNewest(input.results, files.room)
      candidate[older \in 0..n] ==
        LET cut == PairedCut(history, older) IN
        [ok |-> TRUE, window |-> From(history, cut), evicted |-> cut,
         orphans |-> cut - older, memory |-> withMemory, files |-> files.in,
         results |-> results.in,
         summary |-> IF cut > 0 /\ summary > SectionOverhead THEN summary - SectionOverhead
                     ELSE 0]
  IN IF \/ system > effective
        \/ n > 0 /\ tail >= n /\ opts.minRecent > 0
     THEN TooSmall
     ELSE candidate[OlderCut(history, tail, results.room)]

(* The first pass holds nothing back; when it evicts something, a second one  *)
(* makes room for a summary, and a second pass that fails is forgotten.       *)
Build(input, opts) ==
  LET effective == opts.budget - opts.reserve
      first     == Assemble(input, opts, effective, 0)
      allowance == Least(opts.summary, effective \div 4)
      second    == Assemble(input, opts, effective, allowance)
  IN IF effective <= 0 THEN TooSmall
     ELSE IF ~first.ok \/ first.evicted = 0 \/ allowance <= 0 \/ ~second.ok
          THEN first ELSE second
=============================================================================
