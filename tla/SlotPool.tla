------------------------------ MODULE SlotPool ------------------------------
(***************************************************************************)
(* What the scheduler's semaphore promises its users: a pool of slots with *)
(* a limit that may change.  A slot is taken only while fewer are held     *)
(* than the limit allows; a user that lent its slot takes it back at any   *)
(* time; and lowering the limit revokes nothing.                           *)
(***************************************************************************)
EXTENDS Naturals, FiniteSets

CONSTANTS Users, MaxLimit

VARIABLES
  holders,  \* users that hold a slot
  lent,     \* users that gave theirs up to wait for a nested run
  limit

poolVars == <<holders, lent, limit>>

Init ==
  /\ holders = {}
  /\ lent = {}
  /\ limit \in 1..MaxLimit

Take(u) ==
  /\ u \notin holders \cup lent
  /\ Cardinality(holders) < limit
  /\ holders' = holders \cup {u}
  /\ UNCHANGED <<lent, limit>>

Give(u) ==
  /\ u \in holders
  /\ holders' = holders \ {u}
  /\ lent' \in {lent, lent \cup {u}}
  /\ UNCHANGED limit

TakeBack(u) ==
  /\ u \in lent
  /\ lent' = lent \ {u}
  /\ holders' = holders \cup {u}
  /\ UNCHANGED limit

Resize ==
  /\ limit' \in 1..MaxLimit
  /\ UNCHANGED <<holders, lent>>

Next == Resize \/ \E u \in Users : Take(u) \/ Give(u) \/ TakeBack(u)

Spec == Init /\ [][Next]_poolVars
=============================================================================
