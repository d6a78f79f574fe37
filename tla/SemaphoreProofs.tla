-------------------------- MODULE SemaphoreProofs --------------------------
(***************************************************************************)
(* Theorems about the semaphore, for any number of goroutines and slots.   *)
(***************************************************************************)
EXTENDS Semaphore, FiniteSetTheorems, TLAPS

LEMMA FiniteProcs ==
  ASSUME NEW S \in SUBSET Procs
  PROVE  /\ IsFiniteSet(S) /\ Cardinality(S) \in Nat
         /\ Cardinality(S) <= Cardinality(Procs) /\ Cardinality(Procs) \in Nat
BY SemaphoreAssumption, FS_Subset, FS_CardinalityType

\* Taking a slot, or taking a lent one back, counts for one.
LEMMA SlotTaken ==
  ASSUME held = Cardinality(SlotHolders), NEW p \in Procs, p \notin SlotHolders,
         SlotHolders' = SlotHolders \cup {p}, held' = held + 1
  PROVE  held' = Cardinality(SlotHolders')
<1>1. IsFiniteSet(SlotHolders)
  BY FiniteProcs DEF SlotHolders
<1> QED
  BY <1>1, FS_AddElement

\* So does giving one up, for which the counter is never at zero.
LEMMA SlotReturned ==
  ASSUME held = Cardinality(SlotHolders), NEW p \in SlotHolders,
         SlotHolders' = SlotHolders \ {p}, held' = IF held > 0 THEN held - 1 ELSE held
  PROVE  held' = Cardinality(SlotHolders') /\ held > 0
<1>1. IsFiniteSet(SlotHolders) /\ Cardinality(SlotHolders) \in Nat
  BY FiniteProcs DEF SlotHolders
<1>2. Cardinality(SlotHolders \ {p}) = Cardinality(SlotHolders) - 1
  BY <1>1, FS_RemoveElement
<1>3. Cardinality(SlotHolders) # 0
  BY <1>1, FS_EmptySet
<1> QED
  BY <1>1, <1>2, <1>3

-----------------------------------------------------------------------------
(* The invariant *)

LEMMA InitSemaphore == Init => Typed /\ SemaphoreInv
<1> SUFFICES ASSUME Init
             PROVE  Typed /\ SemaphoreInv
  OBVIOUS
<1>1. Typed
  BY SemaphoreAssumption DEF Init, Typed, Labels
<1>2. SlotHolders = {}
  BY DEF Init, SlotHolders
<1> QED
  BY <1>1, <1>2, FS_EmptySet DEF Init, SemaphoreInv, SlotIsAnnounced

\* A step inside acquire that takes no slot.
LEMMA WaitingKeepsInv ==
  ASSUME Typed, SemaphoreInv, NEW p \in Procs,
         Acquire(p) \/ Register(p) \/ GiveUp(p) \/ Decide(p) \/ Wait(p) \/ Wake(p)
  PROVE  Typed' /\ SemaphoreInv'
<1>1. UNCHANGED <<held, limit, resized>>
  BY DEF Acquire, Register, GiveUp, Decide, Wait, Wake
<1>2. PICK l \in {"idle", "register", "loop", "wait", "asleep"} :
        pc' = [pc EXCEPT ![p] = l]
  BY DEF Acquire, Register, GiveUp, Decide, Wait, Wake, Goto, Return
<1>3. pc[p] \in {"idle", "register", "loop", "wait", "asleep"}
  BY DEF Acquire, Register, GiveUp, Decide, Wait, Wake
<1>4. \A q \in Procs : pc'[q] = IF q = p THEN l ELSE pc[q]
  BY <1>2 DEF Typed
<1>5. Typed'
  <2>1. CASE Acquire(p)
    BY <2>1 DEF Acquire, Goto, Typed, Labels
  <2>2. CASE Register(p)
    BY <2>2 DEF Register, Goto, Typed, Labels
  <2>3. CASE GiveUp(p)
    BY <2>3 DEF GiveUp, Return, Goto, Typed, Labels
  <2>4. CASE Decide(p)
    BY <2>4, SemaphoreAssumption DEF Decide, Goto, Typed, Labels
  <2>5. CASE Wait(p)
    BY <2>5, SemaphoreAssumption DEF Wait, Goto, Typed, Labels
  <2>6. CASE Wake(p)
    BY <2>6 DEF Wake, Goto, Typed, Labels
  <2> QED
    BY <2>1, <2>2, <2>3, <2>4, <2>5, <2>6
<1>6. held' = Cardinality(SlotHolders')
  <2>1. SlotHolders' = SlotHolders
    BY <1>3, <1>4 DEF SlotHolders
  <2> QED
    BY <1>1, <2>1 DEF SemaphoreInv
<1>7. \A q \in Procs : pc'[q] = "wait" => held' >= limit'
  <2>1. pc'[p] = "wait" => held >= limit
    BY <1>4 DEF Acquire, Register, GiveUp, Decide, Wait, Wake, Goto, Return, Typed
  <2> QED
    BY <1>1, <1>4, <2>1 DEF SemaphoreInv
<1>8. SlotIsAnnounced'
  <2>1. waiters' = waiters \/ (waiters' = waiters \cup {p} /\ held >= limit)
    BY DEF Acquire, Register, GiveUp, Decide, Wait, Wake, SemaphoreInv
  <2>2. held' < limit' /\ waiters' # {} => waiters # {}
    BY <1>1, <2>1 DEF Typed
  <2>3. \A q \in Procs : pc[q] \in {"leaving", "lending"} => pc'[q] = pc[q]
    BY <1>3, <1>4
  <2> QED
    BY <1>1, <2>2, <2>3 DEF SemaphoreInv, SlotIsAnnounced
<1> QED
  BY <1>5, <1>6, <1>7, <1>8 DEF SemaphoreInv

LEMMA TakingKeepsInv ==
  ASSUME Typed, SemaphoreInv, NEW p \in Procs, Take(p) \/ TryAcquire(p) \/ Reclaim(p)
  PROVE  Typed' /\ SemaphoreInv'
<1>1. /\ held' = held + 1 /\ UNCHANGED <<callback, mu, waiters, limit, resized>>
      /\ pc' = [pc EXCEPT ![p] = "holding"]
      /\ pc[p] \in {"loop", "idle", "lent"}
      /\ mu = Free
  BY DEF Take, TryAcquire, Reclaim, Return, Goto
<1>2. \A q \in Procs : pc'[q] = IF q = p THEN "holding" ELSE pc[q]
  BY <1>1 DEF Typed
<1>3. Typed'
  <2>1. ctxDone' \in [Procs -> BOOLEAN]
    BY DEF Take, TryAcquire, Reclaim, Return, Typed
  <2>2. waiters' \subseteq {q \in Procs : pc'[q] = "asleep"}
    BY <1>1, <1>2 DEF Typed
  <2>3. pc' \in [Procs -> Labels] /\ held' \in Nat
    BY <1>1 DEF Typed, Labels
  <2> QED
    BY <1>1, <1>2, <2>1, <2>2, <2>3 DEF Typed
<1>4. held' = Cardinality(SlotHolders')
  <2>1. p \notin SlotHolders /\ SlotHolders' = SlotHolders \cup {p}
    BY <1>1, <1>2 DEF SlotHolders
  <2> QED
    BY <1>1, <2>1, SlotTaken DEF SemaphoreInv
<1>5. \A q \in Procs : pc'[q] = "wait" => held' >= limit'
  BY <1>1, <1>2, SemaphoreAssumption DEF Typed
<1>6. SlotIsAnnounced'
  <2>1. \A q \in Procs : pc[q] \in {"leaving", "lending"} => pc'[q] = pc[q]
    BY <1>1, <1>2
  <2>2. held' < limit' => held < limit
    BY <1>1 DEF Typed
  <2> QED
    BY <1>1, <2>1, <2>2 DEF SemaphoreInv, SlotIsAnnounced
<1> QED
  BY <1>3, <1>4, <1>5, <1>6 DEF SemaphoreInv

LEMMA ReleaseKeepsInv ==
  ASSUME Typed, SemaphoreInv, NEW p \in Procs, NEW next \in {"leaving", "lending"},
         Release(p, next)
  PROVE  Typed' /\ SemaphoreInv'
<1>1. /\ held' = (IF held > 0 THEN held - 1 ELSE held)
      /\ UNCHANGED <<ctxDone, callback, mu, waiters, limit, resized>>
      /\ pc' = [pc EXCEPT ![p] = next] /\ pc[p] = "holding" /\ mu = Free
  BY DEF Release, Goto
<1>2. \A q \in Procs : pc'[q] = IF q = p THEN next ELSE pc[q]
  BY <1>1 DEF Typed
<1>3. Typed'
  <2>1. pc' \in [Procs -> Labels]
    BY <1>1 DEF Typed, Labels
  <2>2. held' \in Nat
    BY <1>1 DEF Typed
  <2> QED
    BY <1>1, <1>2, <2>1, <2>2 DEF Typed
<1>4. held' = Cardinality(SlotHolders')
  <2>1. p \in SlotHolders /\ SlotHolders' = SlotHolders \ {p}
    BY <1>1, <1>2 DEF SlotHolders
  <2> QED
    BY <1>1, <2>1, SlotReturned DEF SemaphoreInv
<1>5. \A q \in Procs : pc'[q] = "wait" => held' >= limit'
  BY <1>1, <1>2, SemaphoreAssumption DEF Typed
<1>6. SlotIsAnnounced'
  BY <1>2 DEF SlotIsAnnounced
<1> QED
  BY <1>3, <1>4, <1>5, <1>6 DEF SemaphoreInv

\* A broadcast empties the condition's list; a context's end only starts one.
LEMMA SignalsKeepInv ==
  ASSUME Typed, SemaphoreInv,
         \/ \E p \in Procs : Announce(p) \/ Callback(p) \/ Cancel(p)
         \/ AnnounceLimit
         \/ UNCHANGED vars
  PROVE  Typed' /\ SemaphoreInv'
<1>1. ASSUME NEW p \in Procs, Announce(p)
      PROVE  Typed' /\ SemaphoreInv'
  <2>1. /\ pc[p] \in {"leaving", "lending"} /\ waiters' = {}
        /\ UNCHANGED <<ctxDone, callback, mu, held, limit, resized>>
        /\ \A q \in Procs : q # p => pc'[q] = pc[q]
        /\ pc'[p] \in {"idle", "lent"} /\ pc' \in [Procs -> Labels]
    BY <1>1 DEF Announce, Goto, Typed, Labels
  <2>2. SlotHolders' = SlotHolders
    BY <2>1 DEF SlotHolders
  <2>3. Typed'
    BY <2>1 DEF Typed
  <2> QED
    BY <2>1, <2>2, <2>3 DEF SemaphoreInv, SlotIsAnnounced
<1>2. ASSUME NEW p \in Procs, Callback(p)
      PROVE  Typed' /\ SemaphoreInv'
  <2>1. SlotHolders' = SlotHolders
    BY <1>2 DEF SlotHolders, Callback
  <2> QED
    BY <1>2, <2>1 DEF Callback, Typed, SemaphoreInv, SlotIsAnnounced
<1>3. ASSUME NEW p \in Procs, Cancel(p)
      PROVE  Typed' /\ SemaphoreInv'
  <2>1. SlotHolders' = SlotHolders
    BY <1>3 DEF SlotHolders, Cancel
  <2> QED
    BY <1>3, <2>1 DEF Cancel, Typed, SemaphoreInv, SlotIsAnnounced
<1>4. CASE AnnounceLimit
  <2>1. SlotHolders' = SlotHolders
    BY <1>4 DEF SlotHolders, AnnounceLimit
  <2> QED
    BY <1>4, <2>1 DEF AnnounceLimit, Typed, SemaphoreInv, SlotIsAnnounced
<1>5. CASE UNCHANGED vars
  <2>1. SlotHolders' = SlotHolders
    BY <1>5 DEF SlotHolders, vars
  <2> QED
    BY <1>5, <2>1 DEF vars, Typed, SemaphoreInv, SlotIsAnnounced
<1> QED
  BY <1>1, <1>2, <1>3, <1>4, <1>5

LEMMA SetLimitKeepsInv ==
  ASSUME Typed, SemaphoreInv, NEW n \in 1..MaxLimit, SetLimit(n)
  PROVE  Typed' /\ SemaphoreInv'
<1>1. SlotHolders' = SlotHolders
  BY DEF SlotHolders, SetLimit
<1>2. \A q \in Procs : pc'[q] # "wait"
  BY SemaphoreAssumption DEF SetLimit, Typed
<1> QED
  BY <1>1, <1>2 DEF SetLimit, Typed, SemaphoreInv, SlotIsAnnounced

\* In every reachable state the count is that of the goroutines with a slot,
\* and a free slot that somebody sleeps beside is about to be announced.
THEOREM SemaphoreCorrect == Spec => [](Typed /\ SemaphoreInv)
<1>1. Typed /\ SemaphoreInv /\ [Next]_vars => (Typed /\ SemaphoreInv)'
  BY WaitingKeepsInv, TakingKeepsInv, ReleaseKeepsInv, SignalsKeepInv, SetLimitKeepsInv
     DEF Next, InAcquire
<1> QED
  BY <1>1, InitSemaphore, PTL DEF Spec

\* The types, and a count bounded by the goroutines whatever they do.
THEOREM SemaphoreTypes == Spec => []TypeOK
<1>1. Typed /\ SemaphoreInv => TypeOK
  BY FiniteProcs DEF SemaphoreInv, SlotHolders, TypeOK
<1> QED
  BY <1>1, SemaphoreCorrect, PTL

\* No wakeup for a free slot is lost.
THEOREM SlotsAnnounced == Spec => []SlotIsAnnounced
<1>1. Typed /\ SemaphoreInv => SlotIsAnnounced
  BY DEF SemaphoreInv
<1> QED
  BY <1>1, SemaphoreCorrect, PTL

-----------------------------------------------------------------------------
(* The semaphore implements the pool of slots *)

Lent == {p \in Procs : pc[p] \in {"lending", "lent"}}

\* The pool counts its holders with an instance of Cardinality of its own.
LEMMA SameCount == Pool!Cardinality(SlotHolders) = Cardinality(SlotHolders)
  BY DEF Pool!Cardinality, Cardinality

LEMMA StepImplementsPool ==
  ASSUME Typed, SemaphoreInv, [Next]_vars
  PROVE  [Pool!Next]_<<SlotHolders, Lent, limit>>
<1>1. ASSUME NEW p \in Procs,
             \/ Acquire(p) \/ Register(p) \/ GiveUp(p) \/ Decide(p) \/ Wait(p) \/ Wake(p)
             \/ Announce(p) \/ Callback(p) \/ Cancel(p)
      PROVE  UNCHANGED <<SlotHolders, Lent, limit>>
  <2>1. limit' = limit
    BY <1>1 DEF Acquire, Register, GiveUp, Decide, Wait, Wake, Announce, Callback, Cancel
  <2>2. CASE Announce(p)
    <3>1. pc[p] \in {"leaving", "lending"}
      BY <2>2 DEF Announce
    <3>2. pc' = [pc EXCEPT ![p] = IF pc[p] = "leaving" THEN "idle" ELSE "lent"]
      BY <2>2 DEF Announce, Goto
    <3>3. \A q \in Procs : pc'[q] = IF q # p THEN pc[q] ELSE IF pc[q] = "leaving" THEN "idle" ELSE "lent"
      BY <3>2 DEF Typed
    <3> QED
      BY <2>1, <3>1, <3>3 DEF SlotHolders, Lent
  <2>3. CASE Callback(p) \/ Cancel(p)
    <3>1. pc' = pc
      BY <2>3 DEF Callback, Cancel
    <3> QED
      BY <2>1, <3>1 DEF SlotHolders, Lent
  <2>4. CASE \/ Acquire(p) \/ Register(p) \/ GiveUp(p) \/ Decide(p) \/ Wait(p) \/ Wake(p)
    <3>1. PICK l \in {"register", "loop", "idle", "wait", "asleep"} : pc' = [pc EXCEPT ![p] = l]
      BY <2>4 DEF Acquire, Register, GiveUp, Decide, Wait, Wake, Return, Goto
    <3>2. pc[p] \in {"idle", "register", "loop", "wait", "asleep"}
      BY <2>4 DEF Acquire, Register, GiveUp, Decide, Wait, Wake
    <3>3. \A q \in Procs : pc'[q] = IF q = p THEN l ELSE pc[q]
      BY <3>1 DEF Typed
    <3> QED
      BY <2>1, <3>1, <3>2, <3>3 DEF SlotHolders, Lent
  <2> QED
    BY <1>1, <2>2, <2>3, <2>4
<1>2. ASSUME NEW p \in Procs, Take(p) \/ TryAcquire(p)
      PROVE  Pool!Take(p)
  <2>1. /\ held < limit /\ pc[p] \in {"loop", "idle"} /\ limit' = limit
        /\ \A q \in Procs : pc'[q] = IF q = p THEN "holding" ELSE pc[q]
    BY <1>2 DEF Take, TryAcquire, Return, Goto, Typed
  <2>2. /\ p \notin SlotHolders \cup Lent
        /\ SlotHolders' = SlotHolders \cup {p} /\ Lent' = Lent
    BY <2>1 DEF SlotHolders, Lent
  <2>3. Pool!Cardinality(SlotHolders) < limit
    BY <2>1, SameCount DEF SemaphoreInv
  <2> QED
    BY <2>1, <2>2, <2>3 DEF Pool!Take, Lent
<1>3. ASSUME NEW p \in Procs, Reclaim(p)
      PROVE  Pool!TakeBack(p)
  <2>1. /\ pc[p] = "lent" /\ limit' = limit
        /\ \A q \in Procs : pc'[q] = IF q = p THEN "holding" ELSE pc[q]
    BY <1>3 DEF Reclaim, Goto, Typed
  <2>2. p \in Lent /\ SlotHolders' = SlotHolders \cup {p} /\ Lent' = Lent \ {p}
    BY <2>1 DEF SlotHolders, Lent
  <2> QED
    BY <2>1, <2>2 DEF Pool!TakeBack, Lent
<1>4. ASSUME NEW p \in Procs, NEW next \in {"leaving", "lending"}, Release(p, next)
      PROVE  Pool!Give(p)
  <2>1. /\ pc[p] = "holding" /\ limit' = limit
        /\ \A q \in Procs : pc'[q] = IF q = p THEN next ELSE pc[q]
    BY <1>4 DEF Release, Goto, Typed
  <2>2. /\ p \in SlotHolders /\ SlotHolders' = SlotHolders \ {p}
        /\ Lent' \in {Lent, Lent \cup {p}}
    BY <2>1 DEF SlotHolders, Lent
  <2> QED
    BY <2>1, <2>2 DEF Pool!Give, Lent
<1>5. ASSUME NEW n \in 1..MaxLimit, SetLimit(n)
      PROVE  Pool!Resize
  BY <1>5 DEF SetLimit, Pool!Resize, SlotHolders
<1>6. CASE AnnounceLimit \/ UNCHANGED vars
  BY <1>6 DEF AnnounceLimit, vars, SlotHolders, Lent
<1> QED
  BY <1>1, <1>2, <1>3, <1>4, <1>5, <1>6 DEF Next, InAcquire, Pool!Next

\* To its users the semaphore is a pool of slots, for any number of them: the
\* mutex, the condition and the cancellations never show.
THEOREM SemaphoreImplementsPool == Spec => PoolSpec
<1>1. Init => Pool!Init
  BY DEF Init, Pool!Init, SlotHolders
<1>2. Typed /\ SemaphoreInv /\ [Next]_vars => [Pool!Next]_(Pool!poolVars)
  BY StepImplementsPool DEF Pool!poolVars, Lent
<1> QED
  BY <1>1, <1>2, SemaphoreCorrect, PTL DEF Spec, PoolSpec, Pool!Spec
=============================================================================
