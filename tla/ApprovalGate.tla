---------------------------- MODULE ApprovalGate ----------------------------
(***************************************************************************)
(* What the approval broker promises the core, whatever its queue, event   *)
(* streams and races look like: every request gets one verdict, which is   *)
(* never revised; a verdict is positive only by the user's word on that    *)
(* very request, or by a standing consent for an action that may be        *)
(* repeated unattended; and nothing is approved once the gate has shut.    *)
(***************************************************************************)
CONSTANTS
  Requests,
  Actions,
  NoAction,
  Repeatable(_)    \* may a consent for this action be remembered?

VARIABLES
  asked,           \* the action each request is about
  verdict,         \* "unasked", "open", "approved" or "refused"
  shut             \* has the session ended?

gateVars == <<asked, verdict, shut>>

Init ==
  /\ asked = [r \in Requests |-> NoAction]
  /\ verdict = [r \in Requests |-> "unasked"]
  /\ shut = FALSE

\* The core states its action; the verdict is still to come, unless the
\* caller has already given up.
Ask(r) ==
  /\ verdict[r] = "unasked"
  /\ \E a \in Actions : asked' = [asked EXCEPT ![r] = a]
  /\ verdict' \in {verdict, [verdict EXCEPT ![r] = "refused"]}
  /\ UNCHANGED shut

Queue(r) ==
  /\ verdict[r] = "unasked"
  /\ ~shut
  /\ verdict' = [verdict EXCEPT ![r] = "open"]
  /\ UNCHANGED <<asked, shut>>

\* A standing consent answers without the user.
Wave(r) ==
  /\ verdict[r] = "unasked"
  /\ ~shut
  /\ asked[r] \in Actions /\ Repeatable(asked[r])
  /\ verdict' = [verdict EXCEPT ![r] = "approved"]
  /\ UNCHANGED <<asked, shut>>

\* The user answers a request that is open.
Decide(r) ==
  /\ verdict[r] = "open"
  /\ ~shut
  /\ verdict' \in {[verdict EXCEPT ![r] = v] : v \in {"approved", "refused"}}
  /\ UNCHANGED <<asked, shut>>

\* Without an answer the request fails closed.
Refuse(r) ==
  /\ verdict[r] \in {"unasked", "open"}
  /\ verdict' = [verdict EXCEPT ![r] = "refused"]
  /\ UNCHANGED <<asked, shut>>

Shut ==
  /\ ~shut
  /\ shut' = TRUE
  /\ verdict' = [r \in Requests |-> IF verdict[r] = "open" THEN "refused" ELSE verdict[r]]
  /\ UNCHANGED asked

Next ==
  \/ \E r \in Requests : Ask(r) \/ Queue(r) \/ Wave(r) \/ Decide(r) \/ Refuse(r)
  \/ Shut

Spec == Init /\ [][Next]_gateVars
=============================================================================
