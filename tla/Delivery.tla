------------------------------ MODULE Delivery ------------------------------
(***************************************************************************)
(* What the agent loop may rely on when it streams a completion, whatever  *)
(* channels and goroutines lie between it and the adapter: it receives the *)
(* adapter's events one by one, none lost, repeated or out of order; and   *)
(* it gets one verdict, which nothing follows.  The verdict is an answer   *)
(* only when all events were received and the last says that the model was *)
(* done; an error only when the adapter's last event says so; and anything *)
(* else only to a request that was stopped.                                *)
(***************************************************************************)
EXTENDS Naturals, Sequences

CONSTANTS Done, Error   \* the events that end a stream

VARIABLES
  sent,      \* the adapter's events
  received,  \* those the loop has received
  verdict,   \* "" or "answer", "error", "cancelled", "malformed"
  stopped    \* the request's context has ended

deliveryVars == <<sent, received, verdict, stopped>>

EndsWith(e) == sent # <<>> /\ sent[Len(sent)] = e

Init ==
  /\ sent = <<>>
  /\ received = <<>>
  /\ verdict = ""
  /\ stopped = FALSE

\* The adapter sends until its last event, to a loop that is gone as well.
Send ==
  /\ ~EndsWith(Done) /\ ~EndsWith(Error)
  /\ Len(sent') = Len(sent) + 1
  /\ \A i \in 1 .. Len(sent) : sent'[i] = sent[i]
  /\ UNCHANGED <<received, verdict, stopped>>

TakeNext ==
  /\ Len(received) < Len(sent)
  /\ received' = Append(received, sent[Len(received) + 1])

Receive ==
  /\ verdict = ""
  /\ TakeNext
  /\ UNCHANGED <<sent, verdict, stopped>>

Answer ==
  /\ verdict = "" /\ ~stopped
  /\ received = sent /\ EndsWith(Done)
  /\ verdict' = "answer"
  /\ UNCHANGED <<sent, received, stopped>>

Fail ==
  /\ verdict = ""
  /\ EndsWith(Error)
  /\ verdict' = "error"
  /\ UNCHANGED <<sent, received, stopped>>

\* The event that was just received may be the last.
Cancel ==
  /\ verdict = "" /\ stopped
  /\ TakeNext \/ UNCHANGED received
  /\ verdict' = "cancelled"
  /\ UNCHANGED <<sent, stopped>>

\* Without an event there is nothing to make an answer of.
Reject ==
  /\ verdict = "" /\ stopped
  /\ sent = <<>>
  /\ verdict' = "malformed"
  /\ UNCHANGED <<sent, received, stopped>>

Stop ==
  /\ verdict = "" /\ ~stopped
  /\ stopped' = TRUE
  /\ UNCHANGED <<sent, received, verdict>>

Next == Send \/ Receive \/ Answer \/ Fail \/ Cancel \/ Reject \/ Stop

Spec == Init /\ [][Next]_deliveryVars
=============================================================================
