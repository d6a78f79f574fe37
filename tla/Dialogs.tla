------------------------------ MODULE Dialogs -------------------------------
(* The approval dialogs of the web frontend (web/frontend/src/store.ts) and   *)
(* what they mirror: the broker's queue of pending approvals. The browser     *)
(* learns of it along four ways that nothing orders against each other: the   *)
(* agent loops' own bus events, broadcast at once; the broker's events, which *)
(* a goroutine of the server forwards (bridgeApprovals of web/server.go); the *)
(* snapshot sent to a socket that connects (sendHello of web/websocket.go);   *)
(* and GET /api/approval.                                                     *)
(*                                                                            *)
(* One browser. The limits of the queues between are the matter of Broker and *)
(* Hub; a socket that is lost loses what was in its queue.                    *)
EXTENDS Integers, Sequences, FiniteSets, SequencesExt

CONSTANTS Requests,      \* tool calls that the policy does not simply allow
          Denied,        \* those that it denies; the others need an approval
          ToolOf,        \* the tool a request calls
          ActionOf,      \* what it would do: the fingerprint of its action
          MaxConnects, MaxFetches  \* bounds of the model

VARIABLES stage,     \* of the loop that makes a request
          pending,   \* the broker's queue, oldest first
          feed,      \* the broker's events that the server has still to forward
          link,      \* of the socket: "down", "joined" the hub, "snapshot", "open"
          hello,     \* the snapshot read for a socket that connects
          queue,     \* messages for the browser
          answers,   \* answers sent over the socket
          view,      \* the dialogs, the first of which is shown
          fetch,     \* a GET /api/approval under way
          connects, fetches

broker == <<stage, pending, feed>>
socket == <<link, hello, queue>>
counts == <<connects, fetches>>
vars == <<broker, socket, answers, view, fetch, counts>>

Dialog(r, synthetic) == [of |-> r, synthetic |-> synthetic]
Real(requests) == [i \in DOMAIN requests |-> Dialog(requests[i], FALSE)]

\* A message is [kind, of]; of a "received" only the tool is told.
Message(kind, r) == [kind |-> kind, of |-> r]

\* The hub hands a message to the socket when it has joined.
Sent(message) == IF link = "down" THEN queue ELSE Append(queue, message)

NoFetch == [state |-> "none", moved |-> FALSE, answer |-> <<>>]
-----------------------------------------------------------------------------
(* The loops and the broker.                                                  *)

\* The evaluator wants a confirmation: the action is announced on the bus.
Announce(r) ==
  /\ stage[r] = "new" /\ r \notin Denied
  /\ stage' = [stage EXCEPT ![r] = "announced"]
  /\ queue' = Sent(Message("requested", r))
  /\ UNCHANGED <<pending, feed, link, hello, answers, view, fetch, counts>>

\* It is denied, which is announced as an answer that nobody was asked for.
Deny(r) ==
  /\ stage[r] = "new" /\ r \in Denied
  /\ stage' = [stage EXCEPT ![r] = "done"]
  /\ queue' = Sent(Message("received", r))
  /\ UNCHANGED <<pending, feed, link, hello, answers, view, fetch, counts>>

Enter(r) ==
  /\ stage[r] = "announced"
  /\ stage' = [stage EXCEPT ![r] = "waiting"]
  /\ pending' = Append(pending, r)
  /\ feed' = Append(feed, Message("added", r))
  /\ UNCHANGED <<socket, answers, view, fetch, counts>>

\* A standing grant answers it.
Granted(r) ==
  /\ stage[r] = "announced"
  /\ stage' = [stage EXCEPT ![r] = "answered"]
  /\ UNCHANGED <<pending, feed, socket, answers, view, fetch, counts>>

Resolved(r) ==
  /\ stage' = [stage EXCEPT ![r] = "answered"]
  /\ pending' = RemoveFirst(pending, r)
  /\ feed' = Append(feed, Message("resolved", r))

\* Another frontend answers, or nobody does in time.
AnswerElsewhere(r) ==
  /\ stage[r] = "waiting"
  /\ Resolved(r)
  /\ UNCHANGED <<socket, answers, view, fetch, counts>>

Report(r) ==
  /\ stage[r] = "answered"
  /\ stage' = [stage EXCEPT ![r] = "done"]
  /\ queue' = Sent(Message("received", r))
  /\ UNCHANGED <<pending, feed, link, hello, answers, view, fetch, counts>>

-----------------------------------------------------------------------------
(* The server.                                                                *)

\* An event that the goroutine has taken and not yet forwarded is as good as in
\* the feed.
Bridge ==
  /\ feed # <<>>
  /\ queue' = Sent(Head(feed))
  /\ feed' = Tail(feed)
  /\ UNCHANGED <<stage, pending, link, hello, answers, view, fetch, counts>>

Connect ==
  /\ link = "down" /\ connects < MaxConnects
  /\ connects' = connects + 1
  /\ link' = "joined"
  /\ UNCHANGED <<broker, hello, queue, answers, view, fetch, fetches>>

ReadPending ==
  /\ link = "joined"
  /\ link' = "snapshot"
  /\ hello' = pending
  /\ UNCHANGED <<broker, queue, answers, view, fetch, counts>>

SendHello ==
  /\ link = "snapshot"
  /\ link' = "open"
  /\ queue' = Append(queue, Message("hello", hello))
  /\ hello' = <<>>
  /\ UNCHANGED <<broker, answers, view, fetch, counts>>

\* What was under way in either direction is lost.
Disconnect ==
  /\ link # "down"
  /\ link' = "down" /\ hello' = <<>> /\ queue' = <<>> /\ answers' = <<>>
  /\ UNCHANGED <<broker, view, fetch, counts>>

\* An answer arrives; it counts when the request still waits.
TakeAnswer ==
  /\ link = "open" /\ answers # <<>>
  /\ answers' = Tail(answers)
  /\ LET d == Head(answers) IN
       IF ~d.synthetic /\ stage[d.of] = "waiting" THEN Resolved(d.of) ELSE UNCHANGED broker
  /\ UNCHANGED <<socket, view, fetch, counts>>

-----------------------------------------------------------------------------
(* The browser.                                                               *)

\* Every change of the dialogs that is not an answer of the server's moves the
\* epoch, by which a fetch knows that it is out of date.
Show(dialogs) ==
  /\ view' = dialogs
  /\ fetch' = IF fetch.state = "none" THEN fetch ELSE [fetch EXCEPT !.moved = TRUE]

\* Mutant: the twin is not looked for.
AddDoubled(d) ==
  IF Contains(view, d) THEN UNCHANGED <<view, fetch>> ELSE Show(Append(view, d))

\* A dialog for the same action is there: a placeholder gives way to the real
\* one, anything else stays.
AddApproval(d) ==
  LET twins == {i \in DOMAIN view : ActionOf[view[i].of] = ActionOf[d.of]}
      i == CHOOSE i \in twins : \A j \in twins : i <= j
  IN IF Contains(view, d) THEN UNCHANGED <<view, fetch>>
     ELSE IF twins = {} THEN Show(Append(view, d))
     ELSE IF view[i].synthetic /\ ~d.synthetic THEN Show([view EXCEPT ![i] = d])
     ELSE UNCHANGED <<view, fetch>>

ClearApproval(d) ==
  IF Contains(view, d) THEN Show(RemoveFirst(view, d)) ELSE UNCHANGED <<view, fetch>>

\* The event does not say which request was answered: the first dialog of the
\* tool is taken to be it, or else the first of all.
ClearByTool(tool) ==
  LET same == SelectSeq(view, LAMBDA d : ToolOf[d.of] = tool)
  IN IF same # <<>> THEN ClearApproval(Head(same))
     ELSE IF view # <<>> THEN ClearApproval(Head(view))
     ELSE UNCHANGED <<view, fetch>>

Receive ==
  /\ queue # <<>>
  /\ queue' = Tail(queue)
  /\ LET m == Head(queue) IN
       CASE m.kind = "hello"     -> Show(Real(m.of))
         [] m.kind = "requested" -> AddApproval(Dialog(m.of, TRUE))
         [] m.kind = "added"     -> AddApproval(Dialog(m.of, FALSE))
         [] m.kind = "resolved"  -> ClearApproval(Dialog(m.of, FALSE))
         [] m.kind = "received"  -> ClearByTool(ToolOf[m.of])
  /\ UNCHANGED <<broker, link, hello, answers, counts>>

\* The user answers the dialog that is shown; it closes at once.
AnswerHere ==
  /\ view # <<>> /\ link = "open"
  /\ answers' = Append(answers, Head(view))
  /\ Show(Tail(view))
  /\ UNCHANGED <<broker, socket, counts>>

\* Without a socket the answer is posted, and the dialog closes when the server
\* confirms it.
PostAnswer(confirmed) ==
  /\ view # <<>> /\ link = "down"
  /\ LET d == Head(view) IN
       IF ~d.synthetic /\ stage[d.of] = "waiting"
       THEN /\ Resolved(d.of)
            /\ IF confirmed THEN Show(Tail(view)) ELSE UNCHANGED <<view, fetch>>
       ELSE /\ ~confirmed
            /\ UNCHANGED <<broker, view, fetch>>
  /\ UNCHANGED <<socket, answers, counts>>

Fetch ==
  /\ fetch.state = "none" /\ fetches < MaxFetches
  /\ fetches' = fetches + 1
  /\ fetch' = [NoFetch EXCEPT !.state = "asked"]
  /\ UNCHANGED <<broker, socket, answers, view, connects>>

ListApprovals ==
  /\ fetch.state = "asked"
  /\ fetch' = [fetch EXCEPT !.state = "answered", !.answer = pending]
  /\ UNCHANGED <<broker, socket, answers, view, counts>>

\* Mutant: the epoch is not compared.
TakeAnyList ==
  /\ fetch.state = "answered"
  /\ view' = Real(fetch.answer)
  /\ fetch' = NoFetch
  /\ UNCHANGED <<broker, socket, answers, counts>>

TakeList ==
  /\ fetch.state = "answered"
  /\ view' = IF fetch.moved THEN view ELSE Real(fetch.answer)
  /\ fetch' = NoFetch
  /\ UNCHANGED <<broker, socket, answers, counts>>

Init ==
  /\ stage = [r \in Requests |-> "new"]
  /\ pending = <<>> /\ feed = <<>>
  /\ link = "down" /\ hello = <<>> /\ queue = <<>> /\ answers = <<>>
  /\ view = <<>> /\ fetch = NoFetch
  /\ connects = 0 /\ fetches = 0

Next ==
  \/ \E r \in Requests :
       Announce(r) \/ Deny(r) \/ Enter(r) \/ Granted(r) \/ AnswerElsewhere(r) \/ Report(r)
  \/ Bridge
  \/ Connect \/ ReadPending \/ SendHello \/ Disconnect \/ TakeAnswer
  \/ Receive \/ AnswerHere \/ (\E confirmed \in BOOLEAN : PostAnswer(confirmed))
  \/ Fetch \/ ListApprovals \/ TakeList

Spec == Init /\ [][Next]_vars
-----------------------------------------------------------------------------
(* Properties.                                                                *)

Requested == {r \in Requests : stage[r] \notin {"new", "announced"}}
Pendings == {s \in Seq(Requests) : \A i, j \in DOMAIN s : s[i] = s[j] => i = j}
AllDialogs == [of : Requests, synthetic : BOOLEAN]
Messages == [kind : {"requested", "added", "resolved", "received"}, of : Requests]
            \cup [kind : {"hello"}, of : Pendings]

\* Every variable has its type, and no list of pending requests has one twice.
TypeOK ==
  /\ stage \in [Requests -> {"new", "announced", "waiting", "answered", "done"}]
  /\ pending \in Pendings
  /\ feed \in Seq([kind : {"added", "resolved"}, of : Requests])
  /\ link \in {"down", "joined", "snapshot", "open"}
  /\ hello \in Pendings
  /\ queue \in Seq(Messages)
  /\ answers \in Seq(AllDialogs)
  /\ view \in Seq(AllDialogs)
  /\ fetch \in [state : {"none", "asked", "answered"}, moved : BOOLEAN, answer : Pendings]
  /\ connects \in Nat /\ fetches \in Nat

\* What the proofs need besides: a placeholder has no twin, what is told of a
\* request was told after it entered the queue, the queue holds those that wait ...
Single(v) ==
  \A i, j \in DOMAIN v :
    \/ v[i].of = v[j].of
    \/ v[i].synthetic /\ ActionOf[v[i].of] = ActionOf[v[j].of]
    => i = j

Told(m, requests) ==
  /\ m.kind = "added" => m.of \in requests
  /\ m.kind = "hello" => \A i \in DOMAIN m.of : m.of[i] \in requests

ToldInv ==
  /\ \A r \in Requests : stage[r] = "waiting" <=> Contains(pending, r)
  /\ \A i \in DOMAIN feed : Told(feed[i], Requested)
  /\ \A i \in DOMAIN queue : Told(queue[i], Requested)
  /\ \A i \in DOMAIN hello : hello[i] \in Requested
  /\ \A i \in DOMAIN view : ~view[i].synthetic => view[i].of \in Requested
  /\ \A i \in DOMAIN fetch.answer : fetch.answer[i] \in Requested

\* ... and a list that is not out of date has every dialog of one that waits.
FetchInv ==
  fetch.state = "answered" /\ ~fetch.moved =>
    \A i \in DOMAIN view :
      ~view[i].synthetic /\ stage[view[i].of] = "waiting" => Contains(fetch.answer, view[i].of)

\* One decision is one dialog: the placeholder that the bus event raises never
\* stands beside the dialog of the request itself (store.ts:131-138).
OneDialogEach ==
  \A i, j \in DOMAIN view :
    view[i].of = view[j].of => i = j

\* The list that was fetched never takes down the dialog of a request that is
\* still pending, whatever happened while it was under way (store.ts:50-57).
KeptByList ==
  fetch.state = "answered" /\ fetch' = NoFetch =>
    \A i \in DOMAIN view :
      ~view[i].synthetic /\ Contains(pending, view[i].of) => Contains(view', view[i])

ListErasesNothing == [][KeptByList]_vars

\* A dialog "cannot be dismissed without an answer" (approvals.ts:10-11): it
\* goes when its request is no longer pending, or the user has answered it.
DialogsStay ==
  [][\A i \in DOMAIN view :
       ~view[i].synthetic /\ Contains(pending, view[i].of) /\ ~Contains(view', view[i])
       => Contains(answers', view[i]) \/ ~Contains(pending', view[i].of)]_vars
=============================================================================
