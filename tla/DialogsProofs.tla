--------------------------- MODULE DialogsProofs ----------------------------
(* Theorems about the approval dialogs of a browser, for any requests, tools  *)
(* and actions, also several requests for one action, and any number of       *)
(* connections and fetches. DialogsInv is inductive.                          *)
EXTENDS Dialogs, SequenceTheorems, WellFoundedInduction, TLAPS

DialogsInv == TypeOK /\ Single(view) /\ ToldInv /\ FetchInv

-----------------------------------------------------------------------------
(* Sequences *)

\* An element of a sequence is removed: those behind it move up.
LEMMA RemoveAtElements ==
  ASSUME NEW S, NEW s \in Seq(S), NEW k \in 1..Len(s)
  PROVE  /\ RemoveAt(s, k) \in Seq(S)
         /\ Len(RemoveAt(s, k)) = Len(s) - 1
         /\ \A i \in 1..Len(s) - 1 : RemoveAt(s, k)[i] = IF i < k THEN s[i] ELSE s[i + 1]
<1> DEFINE front == SubSeq(s, 1, k - 1)
           back  == SubSeq(s, k + 1, Len(s))
<1>1. Len(s) \in Nat /\ k \in Nat
  BY LenProperties
<1>2. /\ front \in Seq(S) /\ Len(front) = k - 1
      /\ \A i \in 1..k - 1 : front[i] = s[i]
  <2>1. \A i \in 1..(k - 1) : s[i] \in S
    BY <1>1, ElementOfSeq
  <2> QED
    BY <1>1, <2>1, SubSeqProperties
<1>3. /\ back \in Seq(S) /\ Len(back) = Len(s) - k
      /\ \A i \in 1..Len(s) - k : back[i] = s[k + i]
  <2>1. \A i \in (k + 1)..Len(s) : s[i] \in S
    BY <1>1, ElementOfSeq
  <2> QED
    BY <1>1, <2>1, SubSeqProperties
<1>4. RemoveAt(s, k) = front \o back
  BY DEF RemoveAt
<1> HIDE DEF front, back
<1>5. /\ front \o back \in Seq(S)
      /\ Len(front \o back) = Len(front) + Len(back)
      /\ \A i \in 1..Len(front) + Len(back) :
           (front \o back)[i] = IF i <= Len(front) THEN front[i] ELSE back[i - Len(front)]
  BY <1>2, <1>3, ConcatProperties
<1> QED
  BY <1>1, <1>2, <1>3, <1>4, <1>5

LEMMA LeastNatural ==
  ASSUME NEW I \in SUBSET Nat, I # {}
  PROVE  Min(I) \in I
<1>1. PICK x \in I : \A y \in I : <<y, x>> \notin OpToRel(<, Nat)
  BY NatLessThanWellFounded, WFMin
<1>2. ASSUME NEW y \in I
      PROVE  x <= y
  <2>1. OpToRel(<, Nat) = {ss \in Nat \X Nat : ss[1] < ss[2]}
    BY Zenon DEF OpToRel
  <2>2. ~(y < x)
    BY <1>1, <2>1
  <2> QED
    BY <2>2
<1> QED
  BY <1>2 DEF Min

LEMMA FirstIndex ==
  ASSUME NEW S, NEW s \in Seq(S), NEW e, \E i \in 1..Len(s) : s[i] = e
  PROVE  \E k \in 1..Len(s) : s[k] = e /\ RemoveFirst(s, e) = RemoveAt(s, k)
<1> DEFINE I == {i \in 1..Len(s) : s[i] = e}
           k == SelectInSeq(s, LAMBDA v : v = e)
<1>1. RemoveFirst(s, e) = RemoveAt(s, k)
  BY DEF RemoveFirst
<1>2. I # {}
  OBVIOUS
<1>3. k = Min(I)
  BY <1>2 DEF SelectInSeq
<1>4. Min(I) \in I
  BY <1>2, LenProperties, LeastNatural
<1> QED
  BY <1>1, <1>3, <1>4

\* The elements of t are elements of s, at other places the one from others.
Thinned(s, t) ==
  /\ \A i \in DOMAIN t : \E m \in DOMAIN s : t[i] = s[m]
  /\ \A i, j \in DOMAIN t :
       \E m, n \in DOMAIN s : t[i] = s[m] /\ t[j] = s[n] /\ (m = n => i = j)

\* Nothing comes in and nothing is doubled when an element goes.
LEMMA ThinnedByRemoval ==
  ASSUME NEW S, NEW s \in Seq(S), NEW k \in 1..Len(s)
  PROVE  RemoveAt(s, k) \in Seq(S) /\ Thinned(s, RemoveAt(s, k))
<1> DEFINE t == RemoveAt(s, k)
<1>1. /\ Len(s) \in Nat /\ DOMAIN s = 1..Len(s)
      /\ t \in Seq(S) /\ DOMAIN t = 1..Len(s) - 1
      /\ \A i \in 1..Len(s) - 1 : t[i] = IF i < k THEN s[i] ELSE s[i + 1]
  <2>1. t \in Seq(S) /\ Len(t) = Len(s) - 1
    BY RemoveAtElements
  <2>2. \A i \in 1..Len(s) - 1 : t[i] = IF i < k THEN s[i] ELSE s[i + 1]
    BY RemoveAtElements
  <2> QED
    BY <2>1, <2>2, LenProperties
<1> DEFINE at(i) == IF i < k THEN i ELSE i + 1
<1>2. ASSUME NEW i \in DOMAIN t
      PROVE  at(i) \in DOMAIN s /\ t[i] = s[at(i)]
  BY <1>1
<1>3. ASSUME NEW i \in DOMAIN t, NEW j \in DOMAIN t, at(i) = at(j)
      PROVE  i = j
  BY <1>1, <1>3
<1> HIDE DEF at, t
<1>4. Thinned(s, t)
  BY <1>1, <1>2, <1>3 DEF Thinned
<1> QED
  BY <1>1, <1>4 DEF t

\* ... as at the head.
LEMMA ThinnedByTail ==
  ASSUME NEW S, NEW s \in Seq(S), s # <<>>
  PROVE  Tail(s) \in Seq(S) /\ Thinned(s, Tail(s))
<1>1. /\ Len(s) \in Nat /\ DOMAIN s = 1..Len(s)
      /\ Tail(s) \in Seq(S) /\ DOMAIN Tail(s) = 1..Len(s) - 1
      /\ \A i \in 1..Len(s) - 1 : Tail(s)[i] = s[i + 1]
  BY HeadTailProperties, LenProperties
<1>2. ASSUME NEW i \in DOMAIN Tail(s)
      PROVE  i + 1 \in DOMAIN s /\ Tail(s)[i] = s[i + 1]
  BY <1>1
<1>3. ASSUME NEW i \in DOMAIN Tail(s), NEW j \in DOMAIN Tail(s), i + 1 = j + 1
      PROVE  i = j
  BY <1>1, <1>3
<1> QED
  BY <1>1, <1>2, <1>3 DEF Thinned

LEMMA AppendedElements ==
  ASSUME NEW S, NEW s \in Seq(S), NEW e \in S
  PROVE  /\ Append(s, e) \in Seq(S)
         /\ \A i \in DOMAIN Append(s, e) : (i \in DOMAIN s /\ Append(s, e)[i] = s[i])
                                          \/ (i = Len(s) + 1 /\ Append(s, e)[i] = e)
         /\ \A i \in DOMAIN s : i \in DOMAIN Append(s, e) /\ Append(s, e)[i] = s[i]
         /\ Len(s) + 1 \in DOMAIN Append(s, e) /\ Append(s, e)[Len(s) + 1] = e
<1>1. /\ Len(s) \in Nat /\ DOMAIN s = 1..Len(s)
      /\ Append(s, e) \in Seq(S) /\ DOMAIN Append(s, e) = 1..Len(s) + 1
      /\ \A i \in 1..Len(s) : Append(s, e)[i] = s[i]
      /\ Append(s, e)[Len(s) + 1] = e
  BY AppendProperties, LenProperties
<1> QED
  BY <1>1

-----------------------------------------------------------------------------
(* The list of pending requests *)

LEMMA PendingAppended ==
  ASSUME NEW s \in Pendings, NEW r \in Requests, ~Contains(s, r)
  PROVE  /\ Append(s, r) \in Pendings
         /\ \A q : Contains(Append(s, r), q) <=> Contains(s, q) \/ q = r
<1>1. s \in Seq(Requests) /\ DOMAIN s = 1..Len(s) /\ Len(s) \in Nat
  BY LenProperties DEF Pendings
<1>2. DOMAIN Append(s, r) = 1..Len(Append(s, r))
  BY <1>1, AppendProperties, LenProperties
<1>3. ASSUME NEW i \in DOMAIN Append(s, r), NEW j \in DOMAIN Append(s, r),
             Append(s, r)[i] = Append(s, r)[j]
      PROVE  i = j
  BY <1>1, <1>3, AppendedElements DEF Contains, Pendings
<1>4. Append(s, r) \in Pendings
  BY <1>1, <1>3, AppendedElements DEF Pendings
<1> QED
  BY <1>1, <1>2, <1>4, AppendedElements DEF Contains

LEMMA PendingRemoved ==
  ASSUME NEW s \in Pendings, NEW r
  PROVE  /\ RemoveFirst(s, r) \in Pendings
         /\ \A q : Contains(RemoveFirst(s, r), q) <=> Contains(s, q) /\ q # r
<1> DEFINE t == RemoveFirst(s, r)
<1>1. s \in Seq(Requests) /\ DOMAIN s = 1..Len(s) /\ Len(s) \in Nat
  BY LenProperties DEF Pendings
<1>2. CASE ~Contains(s, r)
  BY <1>2 DEF RemoveFirst, Contains
<1>3. CASE Contains(s, r)
  <2>1. PICK k \in 1..Len(s) : s[k] = r /\ t = RemoveAt(s, k)
    BY <1>1, <1>3, FirstIndex DEF Contains
  <2>2. /\ t \in Seq(Requests) /\ Len(t) = Len(s) - 1 /\ DOMAIN t = 1..Len(s) - 1
        /\ \A i \in 1..Len(s) - 1 : t[i] = IF i < k THEN s[i] ELSE s[i + 1]
    <3>1. RemoveAt(s, k) \in Seq(Requests) /\ Len(RemoveAt(s, k)) = Len(s) - 1
      BY <1>1, RemoveAtElements
    <3>2. \A i \in 1..Len(s) - 1 : RemoveAt(s, k)[i] = IF i < k THEN s[i] ELSE s[i + 1]
      BY <1>1, RemoveAtElements
    <3>3. DOMAIN RemoveAt(s, k) = 1..Len(s) - 1
      BY <3>1, LenProperties
    <3> HIDE DEF t
    <3> QED
      BY <2>1, <3>1, <3>2, <3>3
  <2> HIDE DEF t
  <2>3. \A i, j \in DOMAIN s : s[i] = s[j] => i = j
    BY DEF Pendings
  <2>4. ASSUME NEW i \in DOMAIN t, NEW j \in DOMAIN t, t[i] = t[j]
        PROVE  i = j
    <3>1. PICK m \in DOMAIN s : m = (IF i < k THEN i ELSE i + 1) /\ t[i] = s[m]
      BY <1>1, <2>2
    <3>2. PICK n \in DOMAIN s : n = (IF j < k THEN j ELSE j + 1) /\ t[j] = s[n]
      BY <1>1, <2>2
    <3>3. m = n
      BY <2>3, <2>4, <3>1, <3>2
    <3> QED
      BY <2>2, <3>1, <3>2, <3>3
  <2>5. ASSUME NEW q, Contains(t, q)
        PROVE  Contains(s, q) /\ q # r
    BY <1>1, <2>1, <2>2, <2>3, <2>5 DEF Contains
  <2>6. ASSUME NEW q, Contains(s, q), q # r
        PROVE  Contains(t, q)
    <3>1. PICK m \in 1..Len(s) : s[m] = q
      BY <2>6 DEF Contains
    <3>2. m # k
      BY <2>1, <2>6, <3>1
    <3>3. LET n == IF m < k THEN m ELSE m - 1 IN n \in 1..Len(s) - 1 /\ t[n] = s[m]
      BY <1>1, <2>2, <3>2
    <3> QED
      BY <2>2, <3>1, <3>3 DEF Contains
  <2> QED
    BY <2>2, <2>4, <2>5, <2>6 DEF Pendings, t
<1> QED
  BY <1>2, <1>3

-----------------------------------------------------------------------------
(* The dialogs *)

\* Dialogs that are some of those of a view without twins have none either.
LEMMA ThinnedSingle ==
  ASSUME NEW s \in Seq(AllDialogs), Single(s), NEW t \in Seq(AllDialogs), Thinned(s, t)
  PROVE  Single(t)
<1> SUFFICES ASSUME NEW i \in DOMAIN t, NEW j \in DOMAIN t,
                    \/ t[i].of = t[j].of
                    \/ t[i].synthetic /\ ActionOf[t[i].of] = ActionOf[t[j].of]
             PROVE  i = j
  BY DEF Single
<1>1. PICK m \in DOMAIN s, n \in DOMAIN s : t[i] = s[m] /\ t[j] = s[n] /\ (m = n => i = j)
  BY DEF Thinned
<1>2. m = n
  BY <1>1 DEF Single
<1> QED
  BY <1>1, <1>2

LEMMA RealDialogs ==
  ASSUME NEW l \in Pendings
  PROVE  /\ Real(l) \in Seq(AllDialogs) /\ Single(Real(l)) /\ DOMAIN Real(l) = DOMAIN l
         /\ \A i \in DOMAIN l : Real(l)[i].of = l[i] /\ ~Real(l)[i].synthetic
<1>1. l \in Seq(Requests) /\ DOMAIN l = 1..Len(l) /\ Len(l) \in Nat
      /\ \A i \in 1..Len(l) : l[i] \in Requests
  BY LenProperties, ElementOfSeq DEF Pendings
<1>2. Real(l) = [i \in 1..Len(l) |-> Dialog(l[i], FALSE)]
  BY <1>1 DEF Real
<1>3. ASSUME NEW i \in 1..Len(l)
      PROVE  Real(l)[i] \in AllDialogs
  BY <1>1, <1>2 DEF Dialog, AllDialogs
<1>4. Real(l) \in Seq(AllDialogs)
  <2>1. Real(l) \in [1..Len(l) -> AllDialogs]
    BY <1>2, <1>3
  <2> QED
    BY <1>1, <2>1
<1>5. \A i \in DOMAIN l : Real(l)[i].of = l[i] /\ ~Real(l)[i].synthetic
  BY <1>1, <1>2 DEF Dialog
<1>6. DOMAIN Real(l) = DOMAIN l
  BY <1>1, <1>2
<1>7. Single(Real(l))
  BY <1>5, <1>6 DEF Single, Pendings
<1> QED
  BY <1>4, <1>5, <1>6, <1>7

\* Whoever changes the dialogs makes a list under way out of date.
LEMMA ShowMoves ==
  ASSUME TypeOK, NEW v, Show(v)
  PROVE  /\ view' = v
         /\ fetch' \in [state : {"none", "asked", "answered"}, moved : BOOLEAN,
                        answer : Pendings]
         /\ fetch'.answer = fetch.answer /\ fetch'.state = fetch.state
         /\ fetch.state # "none" => fetch'.moved
<1>1. view' = v
  BY DEF Show
<1>2. CASE fetch.state = "none"
  BY <1>1, <1>2 DEF Show, TypeOK
<1>3. CASE fetch.state # "none"
  <2>1. fetch' = [fetch EXCEPT !.moved = TRUE]
    BY <1>3 DEF Show
  <2> QED
    BY <1>1, <1>3, <2>1 DEF TypeOK
<1> QED
  BY <1>2, <1>3

\* What AddApproval and ClearApproval make of a view.
Changes(d) ==
  /\ view' \in Seq(AllDialogs) /\ Single(view')
  /\ \A i \in DOMAIN view' : view'[i] = d \/ \E m \in DOMAIN view : view'[i] = view[m]
  /\ (view' = view /\ fetch' = fetch) \/ Show(view')

LEMMA AddChanges ==
  ASSUME TypeOK, Single(view), NEW d \in AllDialogs, AddApproval(d)
  PROVE  Changes(d)
<1> DEFINE twins == {i \in DOMAIN view : ActionOf[view[i].of] = ActionOf[d.of]}
           k == CHOOSE i \in twins : \A j \in twins : i <= j
<1>1. view \in Seq(AllDialogs) /\ DOMAIN view = 1..Len(view) /\ Len(view) \in Nat
  BY LenProperties DEF TypeOK
<1>2. CASE UNCHANGED <<view, fetch>>
  BY <1>1, <1>2 DEF Changes, Single
<1>3. CASE twins = {} /\ Show(Append(view, d))
  <2>1. view' = Append(view, d)
    BY <1>3 DEF Show
  <2>2. \A i \in DOMAIN view : ActionOf[view[i].of] # ActionOf[d.of]
    BY <1>3
  <2>3. Single(Append(view, d))
    <3> SUFFICES ASSUME NEW i \in DOMAIN Append(view, d), NEW j \in DOMAIN Append(view, d),
                        LET t == Append(view, d)
                        IN \/ t[i].of = t[j].of
                           \/ t[i].synthetic /\ ActionOf[t[i].of] = ActionOf[t[j].of]
                 PROVE  i = j
      BY DEF Single
    <3>1. CASE i \in DOMAIN view /\ j \in DOMAIN view
      BY <1>1, <3>1, AppendedElements DEF Single
    <3>2. CASE ~(i \in DOMAIN view /\ j \in DOMAIN view)
      BY <1>1, <2>2, <3>2, AppendedElements
    <3> QED
      BY <3>1, <3>2
  <2> QED
    BY <1>1, <1>3, <2>1, <2>3, AppendedElements DEF Changes
<1>4. CASE twins # {} /\ view[k].synthetic /\ Show([view EXCEPT ![k] = d])
  <2>1. \A x, y \in twins : x \in Int /\ y \in Int
    BY <1>1
  <2>2. k \in twins
    <3>1. twins \in SUBSET Nat /\ twins # {}
      BY <1>1, <1>4
    <3>2. Min(twins) = k
      BY DEF Min
    <3> HIDE DEF twins
    <3>3. Min(twins) \in twins
      BY <3>1, LeastNatural
    <3> QED
      BY <3>2, <3>3
  <2>3. k \in DOMAIN view /\ ActionOf[view[k].of] = ActionOf[d.of]
    BY <2>2
  <2> HIDE DEF k
  <2>4. /\ [view EXCEPT ![k] = d] \in Seq(AllDialogs)
        /\ DOMAIN [view EXCEPT ![k] = d] = DOMAIN view
        /\ \A i \in DOMAIN view : [view EXCEPT ![k] = d][i] = IF i = k THEN d ELSE view[i]
    BY <1>1, <2>3, ExceptSeq
  <2>5. \A j \in DOMAIN view : ActionOf[view[j].of] = ActionOf[d.of] => j = k
    BY <1>4, <2>3 DEF Single
  <2>6. Single([view EXCEPT ![k] = d])
    BY <2>4, <2>5 DEF Single
  <2>7. view' = [view EXCEPT ![k] = d]
    BY <1>4 DEF Show
  <2> QED
    BY <1>4, <2>4, <2>6, <2>7 DEF Changes
<1> QED
  BY <1>2, <1>3, <1>4 DEF AddApproval

LEMMA ClearChanges ==
  ASSUME TypeOK, Single(view), NEW d, ClearApproval(d), NEW e
  PROVE  Changes(e)
<1>1. view \in Seq(AllDialogs) /\ DOMAIN view = 1..Len(view)
  BY LenProperties DEF TypeOK
<1>2. CASE UNCHANGED <<view, fetch>>
  BY <1>1, <1>2 DEF Changes, Single
<1>3. CASE Contains(view, d) /\ Show(RemoveFirst(view, d))
  <2>1. PICK k \in 1..Len(view) : RemoveFirst(view, d) = RemoveAt(view, k)
    BY <1>1, <1>3, FirstIndex DEF Contains
  <2>2. view' = RemoveAt(view, k) /\ Show(view')
    BY <1>3, <2>1 DEF Show
  <2>3. view' \in Seq(AllDialogs) /\ Thinned(view, view')
    BY <1>1, <2>2, ThinnedByRemoval
  <2>4. Single(view')
    BY <1>1, <2>3, ThinnedSingle
  <2> QED
    BY <2>2, <2>3, <2>4 DEF Changes, Thinned
<1> QED
  BY <1>2, <1>3 DEF ClearApproval

LEMMA TailChanges ==
  ASSUME TypeOK, Single(view), view # <<>>, Show(Tail(view)), NEW e
  PROVE  Changes(e)
<1>1. view \in Seq(AllDialogs)
  BY DEF TypeOK
<1>2. view' = Tail(view) /\ Show(view')
  BY DEF Show
<1>3. view' \in Seq(AllDialogs) /\ Thinned(view, view')
  BY <1>1, <1>2, ThinnedByTail
<1>4. Single(view')
  BY <1>1, <1>3, ThinnedSingle
<1> QED
  BY <1>2, <1>3, <1>4 DEF Changes, Thinned

-----------------------------------------------------------------------------
(* The broker's side of a step *)

BrokerKept ==
  /\ stage' \in [Requests -> {"new", "announced", "waiting", "answered", "done"}]
  /\ pending' \in Pendings
  /\ feed' \in Seq([kind : {"added", "resolved"}, of : Requests])
  /\ \A r \in Requests : stage'[r] = "waiting" <=> Contains(pending', r)
  /\ Requested \subseteq Requested'
  /\ \A r \in Requested : stage'[r] = "waiting" => stage[r] = "waiting"
  /\ \A i \in DOMAIN feed' : feed'[i].kind = "added" => feed'[i].of \in Requested'

LEMMA FeedAppended ==
  ASSUME TypeOK, ToldInv, NEW r \in Requests, NEW k \in {"added", "resolved"},
         feed' = Append(feed, Message(k, r)), Requested \subseteq Requested',
         k = "added" => r \in Requested'
  PROVE  /\ feed' \in Seq([kind : {"added", "resolved"}, of : Requests])
         /\ \A i \in DOMAIN feed' : feed'[i].kind = "added" => feed'[i].of \in Requested'
<1>1. Message(k, r) \in [kind : {"added", "resolved"}, of : Requests]
  BY DEF Message
<1>2. feed \in Seq([kind : {"added", "resolved"}, of : Requests])
  BY DEF TypeOK
<1>3. \A i \in DOMAIN feed : feed[i].kind = "added" => feed[i].of \in Requested
  BY DEF ToldInv, Told
<1>4. Message(k, r).kind = k /\ Message(k, r).of = r
  BY DEF Message
<1> QED
  BY <1>1, <1>2, <1>3, <1>4, AppendedElements

LEMMA ResolvedKeeps ==
  ASSUME TypeOK, ToldInv, NEW r \in Requests, stage[r] = "waiting", Resolved(r)
  PROVE  BrokerKept
<1>1. Requested \subseteq Requested'
  BY DEF Resolved, Requested, TypeOK
<1>2. /\ pending' \in Pendings
      /\ \A q : Contains(pending', q) <=> Contains(pending, q) /\ q # r
  BY PendingRemoved DEF Resolved, TypeOK
<1>3. /\ feed' \in Seq([kind : {"added", "resolved"}, of : Requests])
      /\ \A i \in DOMAIN feed' : feed'[i].kind = "added" => feed'[i].of \in Requested'
  BY <1>1, FeedAppended DEF Resolved
<1>4. \A q \in Requests : stage'[q] = IF q = r THEN "answered" ELSE stage[q]
  BY DEF Resolved, TypeOK
<1>5. stage' \in [Requests -> {"new", "announced", "waiting", "answered", "done"}]
  BY DEF Resolved, TypeOK
<1>6. \A q \in Requests : stage'[q] = "waiting" <=> Contains(pending', q)
  BY <1>2, <1>4 DEF ToldInv
<1>7. \A q \in Requested : stage'[q] = "waiting" => stage[q] = "waiting"
  BY <1>4 DEF Requested
<1> QED
  BY <1>1, <1>2, <1>3, <1>5, <1>6, <1>7 DEF BrokerKept

LEMMA EnterKeeps ==
  ASSUME TypeOK, ToldInv, NEW r \in Requests, Enter(r)
  PROVE  BrokerKept
<1>1. Requested \subseteq Requested' /\ r \in Requested'
  BY DEF Enter, Requested, TypeOK
<1>2. ~Contains(pending, r)
  BY DEF Enter, ToldInv
<1>3. /\ pending' \in Pendings
      /\ \A q : Contains(pending', q) <=> Contains(pending, q) \/ q = r
  BY <1>2, PendingAppended DEF Enter, TypeOK
<1>4. /\ feed' \in Seq([kind : {"added", "resolved"}, of : Requests])
      /\ \A i \in DOMAIN feed' : feed'[i].kind = "added" => feed'[i].of \in Requested'
  BY <1>1, FeedAppended DEF Enter
<1>5. \A q \in Requests : stage'[q] = IF q = r THEN "waiting" ELSE stage[q]
  BY DEF Enter, TypeOK
<1>6. stage' \in [Requests -> {"new", "announced", "waiting", "answered", "done"}]
  BY DEF Enter, TypeOK
<1>7. r \notin Requested
  BY DEF Enter, Requested
<1> QED
  BY <1>1, <1>3, <1>4, <1>5, <1>6, <1>7 DEF BrokerKept, ToldInv, Requested

LEMMA SameBrokerKeeps ==
  ASSUME TypeOK, ToldInv, UNCHANGED broker
  PROVE  BrokerKept
BY DEF broker, BrokerKept, TypeOK, ToldInv, Told, Requested

LEMMA BrokerStep ==
  ASSUME DialogsInv, [Next]_vars
  PROVE  BrokerKept
<1> USE DEF DialogsInv
<1>1. ASSUME NEW r \in Requests, Announce(r) \/ Deny(r) \/ Granted(r) \/ Report(r)
      PROVE  BrokerKept
  <2>1. PICK x \in {"announced", "answered", "done"} :
          /\ stage' = [stage EXCEPT ![r] = x] /\ stage[r] # "waiting"
          /\ x = "announced" => stage[r] = "new"
    BY <1>1 DEF Announce, Deny, Granted, Report
  <2>2. pending' = pending /\ feed' = feed
    BY <1>1 DEF Announce, Deny, Granted, Report
  <2>3. stage' \in [Requests -> {"new", "announced", "waiting", "answered", "done"}]
    BY <2>1 DEF TypeOK
  <2>4. Requested \subseteq Requested'
    BY <2>1 DEF Requested, TypeOK
  <2>5. \A q \in Requests : stage'[q] = "waiting" <=> stage[q] = "waiting"
    BY <2>1 DEF TypeOK
  <2> QED
    BY <2>2, <2>3, <2>4, <2>5 DEF BrokerKept, TypeOK, ToldInv, Told, Requested
<1>2. ASSUME NEW r \in Requests, Enter(r)
      PROVE  BrokerKept
  BY <1>2, EnterKeeps
<1>3. ASSUME NEW r \in Requests, AnswerElsewhere(r)
      PROVE  BrokerKept
  BY <1>3, ResolvedKeeps DEF AnswerElsewhere
<1>4. CASE Bridge
  <2>1. feed # <<>> /\ feed' = Tail(feed) /\ stage' = stage /\ pending' = pending
    BY <1>4 DEF Bridge
  <2>2. feed \in Seq([kind : {"added", "resolved"}, of : Requests])
    BY DEF TypeOK
  <2>3. feed' \in Seq([kind : {"added", "resolved"}, of : Requests]) /\ Thinned(feed, feed')
    BY <2>1, <2>2, ThinnedByTail
  <2> QED
    BY <2>1, <2>3 DEF BrokerKept, TypeOK, ToldInv, Told, Requested, Thinned
<1>5. CASE TakeAnswer
  <2>1. CASE UNCHANGED broker
    BY <2>1, SameBrokerKeeps
  <2>2. CASE stage[Head(answers).of] = "waiting" /\ Resolved(Head(answers).of)
    <3>1. Head(answers).of \in Requests
      <4>1. Head(answers) \in AllDialogs
        BY <1>5, HeadTailProperties DEF TakeAnswer, TypeOK
      <4> QED
        BY <4>1 DEF AllDialogs
    <3> QED
      BY <2>2, <3>1, ResolvedKeeps
  <2> QED
    BY <1>5, <2>1, <2>2 DEF TakeAnswer
<1>6. ASSUME NEW confirmed \in BOOLEAN, PostAnswer(confirmed)
      PROVE  BrokerKept
  <2>1. CASE UNCHANGED broker
    BY <2>1, SameBrokerKeeps
  <2>2. CASE stage[Head(view).of] = "waiting" /\ Resolved(Head(view).of)
    <3>1. Head(view).of \in Requests
      <4>1. Head(view) \in AllDialogs
        BY <1>6, HeadTailProperties DEF PostAnswer, TypeOK
      <4> QED
        BY <4>1 DEF AllDialogs
    <3> QED
      BY <2>2, <3>1, ResolvedKeeps
  <2> QED
    BY <1>6, <2>1, <2>2 DEF PostAnswer
<1>7. ASSUME UNCHANGED broker
      PROVE  BrokerKept
  BY <1>7, SameBrokerKeeps
<1> QED
  BY <1>1, <1>2, <1>3, <1>4, <1>5, <1>6, <1>7
  DEF Next, Connect, ReadPending, SendHello, Disconnect, Receive, AnswerHere, Fetch,
      ListApprovals, TakeList, vars

-----------------------------------------------------------------------------
(* What is under way to the browser and back *)

WayKept ==
  /\ queue' \in Seq(Messages)
  /\ \A i \in DOMAIN queue' : Told(queue'[i], Requested')
  /\ link' \in {"down", "joined", "snapshot", "open"}
  /\ hello' \in Pendings
  /\ \A i \in DOMAIN hello' : hello'[i] \in Requested'
  /\ answers' \in Seq(AllDialogs)

LEMMA ToldStays ==
  ASSUME NEW m, NEW R, NEW Q, R \subseteq Q, Told(m, R)
  PROVE  Told(m, Q)
BY DEF Told

LEMMA QueuedToo ==
  ASSUME TypeOK, ToldInv, Requested \subseteq Requested', NEW m \in Messages,
         Told(m, Requested'), queue' \in {queue, Append(queue, m)}
  PROVE  /\ queue' \in Seq(Messages)
         /\ \A i \in DOMAIN queue' : Told(queue'[i], Requested')
<1>1. queue \in Seq(Messages)
  BY DEF TypeOK
<1>2. \A i \in DOMAIN queue : Told(queue[i], Requested')
  BY ToldStays DEF ToldInv
<1>3. CASE queue' = queue
  BY <1>1, <1>2, <1>3
<1>4. CASE queue' = Append(queue, m)
  BY <1>1, <1>2, <1>4, AppendedElements
<1> QED
  BY <1>3, <1>4

LEMMA EmptyPendings == <<>> \in Pendings
BY EmptySeq DEF Pendings

LEMMA SameWayKept ==
  ASSUME TypeOK, ToldInv, Requested \subseteq Requested'
  PROVE  /\ queue' = queue => queue' \in Seq(Messages)
                              /\ \A i \in DOMAIN queue' : Told(queue'[i], Requested')
         /\ hello' = hello => hello' \in Pendings
                              /\ \A i \in DOMAIN hello' : hello'[i] \in Requested'
BY ToldStays DEF TypeOK, ToldInv

LEMMA WayStep ==
  ASSUME DialogsInv, [Next]_vars
  PROVE  WayKept
<1> USE DEF DialogsInv
<1>0. Requested \subseteq Requested'
  BY BrokerStep DEF BrokerKept
<1>1. ASSUME NEW r \in Requests, Announce(r) \/ Deny(r) \/ Report(r)
      PROVE  WayKept
  <2>1. PICK k \in {"requested", "received"} : queue' = Sent(Message(k, r))
    BY <1>1 DEF Announce, Deny, Report
  <2>2. Message(k, r) \in Messages /\ Told(Message(k, r), Requested')
    BY DEF Message, Messages, Told
  <2>3. queue' \in Seq(Messages) /\ \A i \in DOMAIN queue' : Told(queue'[i], Requested')
    BY <1>0, <2>1, <2>2, QueuedToo DEF Sent
  <2>4. link' = link /\ hello' = hello /\ answers' = answers
    BY <1>1 DEF Announce, Deny, Report
  <2> QED
    BY <1>0, <2>3, <2>4, SameWayKept DEF WayKept, TypeOK
<1>2. CASE Bridge
  <2>1. feed # <<>> /\ feed \in Seq([kind : {"added", "resolved"}, of : Requests])
    BY <1>2 DEF Bridge, TypeOK
  <2>2. Head(feed) = feed[1] /\ 1 \in DOMAIN feed
    BY <2>1, HeadTailProperties, LenProperties, EmptySeq
  <2>3. Head(feed) \in Messages /\ Told(Head(feed), Requested)
    <3>1. Head(feed) \in [kind : {"added", "resolved"}, of : Requests]
      BY <2>1, HeadTailProperties
    <3>2. Head(feed) \in Messages
      BY <3>1 DEF Messages
    <3>3. Told(Head(feed), Requested)
      BY <2>2 DEF ToldInv
    <3> QED
      BY <3>2, <3>3
  <2>4. Told(Head(feed), Requested')
    BY <1>0, <2>3, ToldStays
  <2>5. queue' \in Seq(Messages) /\ \A i \in DOMAIN queue' : Told(queue'[i], Requested')
    BY <1>0, <1>2, <2>3, <2>4, QueuedToo DEF Sent, Bridge
  <2>6. link' = link /\ hello' = hello /\ answers' = answers
    BY <1>2 DEF Bridge
  <2> QED
    BY <1>0, <2>5, <2>6, SameWayKept DEF WayKept, TypeOK
<1>3. CASE ReadPending
  <2>1. hello' = pending /\ hello' \in Pendings
    BY <1>3 DEF ReadPending, TypeOK
  <2>2. \A i \in DOMAIN hello' : hello'[i] \in Requested'
    <3>1. \A i \in 1..Len(pending) : pending[i] \in Requests
      BY ElementOfSeq DEF TypeOK, Pendings
    <3>2. DOMAIN pending = 1..Len(pending)
      BY LenProperties DEF TypeOK, Pendings
    <3>3. \A i \in DOMAIN pending : stage[pending[i]] = "waiting"
      BY <3>1, <3>2 DEF ToldInv, Contains
    <3> QED
      BY <1>0, <2>1, <3>1, <3>2, <3>3 DEF Requested
  <2>3. queue' = queue /\ answers' = answers /\ link' = "snapshot"
    BY <1>3 DEF ReadPending
  <2> QED
    BY <1>0, <2>1, <2>2, <2>3, SameWayKept DEF WayKept, TypeOK
<1>4. CASE SendHello
  <2>1. Message("hello", hello) \in Messages
    BY DEF Message, Messages, TypeOK
  <2>2. Told(Message("hello", hello), Requested')
    BY <1>0 DEF Told, Message, ToldInv
  <2>3. queue' \in Seq(Messages) /\ \A i \in DOMAIN queue' : Told(queue'[i], Requested')
    BY <1>0, <1>4, <2>1, <2>2, QueuedToo DEF SendHello
  <2>4. link' = "open" /\ hello' = <<>> /\ answers' = answers
    BY <1>4 DEF SendHello
  <2> QED
    BY <2>3, <2>4, EmptyPendings DEF WayKept, TypeOK
<1>5. CASE Disconnect
  BY <1>5, EmptyPendings, EmptySeq DEF Disconnect, WayKept
<1>6. CASE Receive
  <2>1. queue # <<>> /\ queue \in Seq(Messages) /\ queue' = Tail(queue)
    BY <1>6 DEF Receive, TypeOK
  <2>2. queue' \in Seq(Messages) /\ Thinned(queue, queue')
    BY <2>1, ThinnedByTail
  <2>3. \A i \in DOMAIN queue' : Told(queue'[i], Requested')
    BY <1>0, <2>2, ToldStays DEF Thinned, ToldInv
  <2>4. link' = link /\ hello' = hello /\ answers' = answers
    BY <1>6 DEF Receive
  <2> QED
    BY <1>0, <2>2, <2>3, <2>4, SameWayKept DEF WayKept, TypeOK
<1>7. ASSUME queue' = queue, hello' = hello, link' \in {link, "joined"},
             \/ answers' = answers
             \/ answers # <<>> /\ answers' = Tail(answers)
             \/ view # <<>> /\ answers' = Append(answers, Head(view))
      PROVE  WayKept
  <2>1. answers' \in Seq(AllDialogs)
    <3>1. answers \in Seq(AllDialogs) /\ view \in Seq(AllDialogs)
      BY DEF TypeOK
    <3>2. answers # <<>> => Tail(answers) \in Seq(AllDialogs)
      BY <3>1, HeadTailProperties
    <3>3. view # <<>> => Append(answers, Head(view)) \in Seq(AllDialogs)
      BY <3>1, HeadTailProperties, AppendProperties
    <3> QED
      BY <1>7, <3>1, <3>2, <3>3
  <2> QED
    BY <1>0, <1>7, <2>1, SameWayKept DEF WayKept, TypeOK
<1> QED
  BY <1>1, <1>2, <1>3, <1>4, <1>5, <1>6, <1>7
  DEF Next, Enter, Granted, AnswerElsewhere, Connect, TakeAnswer, AnswerHere, PostAnswer, Fetch,
      ListApprovals, TakeList, vars, socket

-----------------------------------------------------------------------------
(* The dialogs and the list under way *)

FetchKept ==
  /\ fetch' \in [state : {"none", "asked", "answered"}, moved : BOOLEAN, answer : Pendings]
  /\ \A i \in DOMAIN fetch'.answer : fetch'.answer[i] \in Requested'
  /\ FetchInv'

ViewKept ==
  /\ view' \in Seq(AllDialogs)
  /\ Single(view')
  /\ \A i \in DOMAIN view' : ~view'[i].synthetic => view'[i].of \in Requested'

LEMMA FetchMoved ==
  ASSUME TypeOK, ToldInv, BrokerKept, Show(view')
  PROVE  FetchKept
<1>1. /\ fetch' \in [state : {"none", "asked", "answered"}, moved : BOOLEAN,
                     answer : Pendings]
      /\ fetch'.answer = fetch.answer /\ fetch'.state = fetch.state
      /\ fetch.state # "none" => fetch'.moved
  BY ShowMoves
<1>2. FetchInv'
  BY <1>1 DEF FetchInv
<1> QED
  BY <1>1, <1>2 DEF FetchKept, BrokerKept, ToldInv

LEMMA FetchSame ==
  ASSUME TypeOK, ToldInv, FetchInv, BrokerKept, view' = view, fetch' = fetch
  PROVE  FetchKept
<1>1. \A i \in DOMAIN view :
        ~view[i].synthetic /\ stage'[view[i].of] = "waiting" => stage[view[i].of] = "waiting"
  BY DEF BrokerKept, ToldInv
<1>2. FetchInv'
  BY <1>1 DEF FetchInv
<1> QED
  BY <1>2 DEF FetchKept, BrokerKept, ToldInv, TypeOK

LEMMA ViewSame ==
  ASSUME TypeOK, Single(view), ToldInv, BrokerKept, view' = view
  PROVE  ViewKept
BY DEF ViewKept, TypeOK, BrokerKept, ToldInv, Single

LEMMA ViewChanged ==
  ASSUME TypeOK, ToldInv, FetchInv, BrokerKept, NEW d, Changes(d),
         ~d.synthetic => d.of \in Requested'
  PROVE  ViewKept /\ FetchKept
<1>1. \A i \in DOMAIN view : ~view[i].synthetic => view[i].of \in Requested'
  BY DEF ToldInv, BrokerKept
<1>2. ViewKept
  BY <1>1 DEF ViewKept, Changes
<1> QED
  BY <1>2, FetchMoved, FetchSame DEF Changes

\* The server's list of pending requests, taken for the view.
LEMMA ViewListed ==
  ASSUME NEW l \in Pendings, \A i \in DOMAIN l : l[i] \in Requested', view' = Real(l)
  PROVE  ViewKept
BY RealDialogs DEF ViewKept

LEMMA ReceiveCases ==
  ASSUME Receive, Head(queue) \in Messages
  PROVE  LET m == Head(queue) IN
           \/ m.kind = "hello" /\ Show(Real(m.of))
           \/ m.kind = "requested" /\ AddApproval(Dialog(m.of, TRUE))
           \/ m.kind = "added" /\ AddApproval(Dialog(m.of, FALSE))
           \/ m.kind = "resolved" /\ ClearApproval(Dialog(m.of, FALSE))
           \/ m.kind = "received" /\ ClearByTool(ToolOf[m.of])
BY DEF Receive, Messages

LEMMA ReceiveKeeps ==
  ASSUME DialogsInv, BrokerKept, Receive
  PROVE  ViewKept /\ FetchKept
<1> USE DEF DialogsInv
<1> DEFINE m == Head(queue)
<1>1. queue # <<>> /\ queue \in Seq(Messages) /\ 1 \in DOMAIN queue /\ m = queue[1]
  <2>1. queue # <<>> /\ queue \in Seq(Messages)
    BY DEF Receive, TypeOK
  <2> QED
    BY <2>1, HeadTailProperties, LenProperties, EmptySeq
<1>2. m \in Messages
  BY <1>1, HeadTailProperties
<1>3. Told(m, Requested')
  BY <1>1, ToldStays DEF ToldInv, BrokerKept
<1>4. \/ m.kind = "hello" /\ Show(Real(m.of))
      \/ m.kind = "requested" /\ AddApproval(Dialog(m.of, TRUE))
      \/ m.kind = "added" /\ AddApproval(Dialog(m.of, FALSE))
      \/ m.kind = "resolved" /\ ClearApproval(Dialog(m.of, FALSE))
      \/ m.kind = "received" /\ ClearByTool(ToolOf[m.of])
  BY <1>2, ReceiveCases
<1> HIDE DEF m
<1>5. CASE m.kind = "hello" /\ Show(Real(m.of))
  <2>1. m.of \in Pendings
    BY <1>2, <1>5 DEF Messages
  <2>2. \A i \in DOMAIN m.of : m.of[i] \in Requested'
    BY <1>3, <1>5 DEF Told
  <2>3. view' = Real(m.of) /\ Show(view')
    BY <1>5 DEF Show
  <2> QED
    BY <2>1, <2>2, <2>3, ViewListed, FetchMoved
<1>6. ASSUME NEW synthetic \in BOOLEAN, m.kind \in {"requested", "added"},
             m.kind = "requested" <=> synthetic, AddApproval(Dialog(m.of, synthetic))
      PROVE  ViewKept /\ FetchKept
  <2>1. m.of \in Requests
    BY <1>2, <1>6 DEF Messages
  <2>2. Dialog(m.of, synthetic) \in AllDialogs
    BY <2>1 DEF Dialog, AllDialogs
  <2>3. ~Dialog(m.of, synthetic).synthetic => Dialog(m.of, synthetic).of \in Requested'
    BY <1>3, <1>6 DEF Dialog, Told
  <2>4. Changes(Dialog(m.of, synthetic))
    BY <1>6, <2>2, AddChanges
  <2> QED
    BY <2>3, <2>4, ViewChanged
<1>7. ASSUME NEW d, ClearApproval(d)
      PROVE  ViewKept /\ FetchKept
  <2>1. Changes(Dialog(m.of, TRUE))
    BY <1>7, ClearChanges
  <2>2. Dialog(m.of, TRUE).synthetic
    BY DEF Dialog
  <2> QED
    BY <2>1, <2>2, ViewChanged
<1>8. CASE m.kind = "received" /\ ClearByTool(ToolOf[m.of])
  BY <1>7, <1>8, ViewSame, FetchSame DEF ClearByTool
<1> QED
  BY <1>4, <1>5, <1>6, <1>7, <1>8

LEMMA DialogStep ==
  ASSUME DialogsInv, [Next]_vars
  PROVE  ViewKept /\ FetchKept
<1> USE DEF DialogsInv
<1>0. BrokerKept
  BY BrokerStep
<1>1. CASE Receive
  BY <1>0, <1>1, ReceiveKeeps
<1>2. ASSUME view # <<>>, Show(Tail(view))
      PROVE  ViewKept /\ FetchKept
  <2>1. Changes(Dialog(CHOOSE r : TRUE, TRUE))
    BY <1>2, TailChanges
  <2> QED
    BY <1>0, <2>1, ViewChanged DEF Dialog
<1>3. CASE Fetch
  <2>1. /\ fetch' \in [state : {"none", "asked", "answered"}, moved : BOOLEAN,
                       answer : Pendings]
        /\ fetch'.answer = <<>> /\ fetch'.state = "asked" /\ view' = view
    BY <1>3, EmptyPendings DEF Fetch, NoFetch
  <2> QED
    BY <1>0, <2>1, ViewSame, EmptySeq DEF FetchKept, FetchInv
<1>4. CASE ListApprovals
  <2>1. /\ fetch' \in [state : {"none", "asked", "answered"}, moved : BOOLEAN,
                       answer : Pendings]
        /\ fetch'.answer = pending /\ view' = view /\ stage' = stage
    <3>1. fetch' = [fetch EXCEPT !.state = "answered", !.answer = pending]
      BY <1>4 DEF ListApprovals
    <3>2. fetch \in [state : {"none", "asked", "answered"}, moved : BOOLEAN, answer : Pendings]
          /\ pending \in Pendings
      BY DEF TypeOK
    <3>3. view' = view /\ stage' = stage
      BY <1>4 DEF ListApprovals, broker
    <3> QED
      BY <3>1, <3>2, <3>3
  <2>2. ASSUME NEW r \in Requests, stage[r] = "waiting"
        PROVE  Contains(pending, r) /\ r \in Requested
    BY <2>2 DEF ToldInv, Requested
  <2>3. FetchInv'
    BY <2>1, <2>2 DEF FetchInv, ToldInv, Requested
  <2>4. \A i \in DOMAIN pending : pending[i] \in Requested
    <3>1. DOMAIN pending = 1..Len(pending) /\ \A i \in 1..Len(pending) : pending[i] \in Requests
      BY LenProperties, ElementOfSeq DEF TypeOK, Pendings
    <3>2. \A i \in DOMAIN pending : stage[pending[i]] = "waiting"
      BY <3>1 DEF ToldInv, Contains
    <3> QED
      BY <3>1, <3>2 DEF Requested
  <2> QED
    BY <1>0, <2>1, <2>3, <2>4, ViewSame DEF FetchKept, BrokerKept
<1>5. CASE TakeList
  <2>1. fetch' = NoFetch /\ NoFetch.answer = <<>> /\ NoFetch.state = "none"
        /\ NoFetch \in [state : {"none", "asked", "answered"}, moved : BOOLEAN,
                        answer : Pendings]
    BY <1>5, EmptyPendings DEF TakeList, NoFetch
  <2>2. FetchKept
    BY <2>1, EmptySeq DEF FetchKept, FetchInv
  <2>3. CASE view' = view
    BY <1>0, <2>2, <2>3, ViewSame
  <2>4. CASE view' = Real(fetch.answer)
    <3>1. fetch.answer \in Pendings
      BY DEF TypeOK
    <3>2. \A i \in DOMAIN fetch.answer : fetch.answer[i] \in Requested'
      BY <1>0 DEF BrokerKept, ToldInv
    <3> QED
      BY <2>2, <2>4, <3>1, <3>2, ViewListed
  <2> QED
    BY <1>5, <2>3, <2>4 DEF TakeList
<1>6. ASSUME view' = view, fetch' = fetch
      PROVE  ViewKept /\ FetchKept
  BY <1>0, <1>6, ViewSame, FetchSame
<1> QED
  BY <1>1, <1>2, <1>3, <1>4, <1>5, <1>6
  DEF Next, Announce, Deny, Enter, Granted, AnswerElsewhere, Report, Bridge, Connect,
      ReadPending, SendHello, Disconnect, TakeAnswer, AnswerHere, PostAnswer, vars

-----------------------------------------------------------------------------
(* Theorems *)

LEMMA CountsStep ==
  ASSUME TypeOK, [Next]_vars
  PROVE  connects' \in Nat /\ fetches' \in Nat
<1>1. connects \in Nat /\ fetches \in Nat
  BY DEF TypeOK
<1>2. CASE UNCHANGED counts
  BY <1>1, <1>2 DEF counts
<1>3. CASE Connect
  BY <1>1, <1>3 DEF Connect
<1>4. CASE Fetch
  BY <1>1, <1>4 DEF Fetch
<1> QED
  BY <1>2, <1>3, <1>4
  DEF Next, Announce, Deny, Enter, Granted, AnswerElsewhere, Report, Bridge, ReadPending,
      SendHello, Disconnect, TakeAnswer, Receive, AnswerHere, PostAnswer, ListApprovals,
      TakeList, vars

LEMMA DialogsStart ==
  ASSUME Init
  PROVE  DialogsInv
<1>1. DOMAIN <<>> = {} /\ Len(<<>>) = 0 /\ \A S : <<>> \in Seq(S)
  BY EmptySeq
<1>2. /\ stage \in [Requests -> {"new", "announced", "waiting", "answered", "done"}]
      /\ fetch \in [state : {"none", "asked", "answered"}, moved : BOOLEAN, answer : Pendings]
      /\ fetch.answer = <<>> /\ fetch.state = "none"
  BY EmptyPendings DEF Init, NoFetch
<1>3. TypeOK
  BY <1>1, <1>2, EmptyPendings DEF Init, TypeOK
<1>4. ToldInv
  BY <1>1, <1>2 DEF Init, ToldInv, Contains
<1> QED
  BY <1>1, <1>2, <1>3, <1>4 DEF Init, DialogsInv, Single, FetchInv

\* The types, that nothing is told of a request before it waits, and that a
\* list in time is complete: all that the properties rest on.
THEOREM DialogsInvariant == Spec => []DialogsInv
<1>1. Init => DialogsInv
  BY DialogsStart
<1>2. DialogsInv /\ [Next]_vars => DialogsInv'
  <2> SUFFICES ASSUME DialogsInv, [Next]_vars
               PROVE  DialogsInv'
    OBVIOUS
  <2>1. BrokerKept /\ WayKept /\ ViewKept /\ FetchKept /\ TypeOK
    BY BrokerStep, WayStep, DialogStep DEF DialogsInv
  <2>2. TypeOK'
    BY <2>1, CountsStep DEF BrokerKept, WayKept, ViewKept, FetchKept, TypeOK
  <2>3. ToldInv'
    <3>1. \A i \in DOMAIN feed' : Told(feed'[i], Requested')
      <4> SUFFICES ASSUME NEW i \in DOMAIN feed'
                   PROVE  Told(feed'[i], Requested')
        OBVIOUS
      <4>1. feed'[i] \in [kind : {"added", "resolved"}, of : Requests]
        <5>1. feed' \in Seq([kind : {"added", "resolved"}, of : Requests])
          BY <2>1 DEF BrokerKept
        <5> QED
          BY <5>1, LenProperties, ElementOfSeq
      <4>2. feed'[i].kind # "hello"
        BY <4>1
      <4>3. feed'[i].kind = "added" => feed'[i].of \in Requested'
        BY <2>1 DEF BrokerKept
      <4> QED
        BY <4>2, <4>3 DEF Told
    <3> QED
      BY <2>1, <3>1 DEF BrokerKept, WayKept, ViewKept, FetchKept, ToldInv
  <2> QED
    BY <2>1, <2>2, <2>3 DEF DialogsInv, ViewKept, FetchKept
<1> QED
  BY <1>1, <1>2, PTL DEF Spec

\* One decision is one dialog (store.ts:131-138).
THEOREM OneDialogPerDecision == Spec => []OneDialogEach
<1>1. DialogsInv => OneDialogEach
  BY DEF DialogsInv, Single, OneDialogEach
<1> QED
  BY <1>1, DialogsInvariant, PTL

\* A list that was fetched takes down no dialog of a pending request
\* (store.ts:50-57).
THEOREM ListsEraseNothing == Spec => ListErasesNothing
<1>1. DialogsInv /\ [Next]_vars => [KeptByList]_vars
  <2> SUFFICES ASSUME DialogsInv, Next, fetch.state = "answered", fetch' = NoFetch,
                      NEW i \in DOMAIN view, ~view[i].synthetic, Contains(pending, view[i].of)
               PROVE  Contains(view', view[i])
    BY DEF KeptByList
  <2> USE DEF DialogsInv
  <2>1. view \in Seq(AllDialogs) /\ DOMAIN view = 1..Len(view) /\ view[i] \in AllDialogs
    BY LenProperties, ElementOfSeq DEF TypeOK
  <2>2. stage[view[i].of] = "waiting"
    BY <2>1 DEF ToldInv, AllDialogs
  <2>3. CASE view' = view
    BY <2>1, <2>3 DEF Contains
  <2>4. CASE ~fetch.moved /\ view' = Real(fetch.answer)
    <3>1. fetch.answer \in Pendings /\ DOMAIN fetch.answer = 1..Len(fetch.answer)
      BY LenProperties DEF TypeOK, Pendings
    <3>2. PICK k \in DOMAIN fetch.answer : fetch.answer[k] = view[i].of
      BY <2>2, <2>4, <3>1 DEF FetchInv, Contains
    <3>3. view'[k] = Dialog(view[i].of, FALSE)
      BY <2>4, <3>2 DEF Real
    <3>4. view[i] = Dialog(view[i].of, FALSE)
      BY <2>1 DEF AllDialogs, Dialog
    <3>5. DOMAIN view' = 1..Len(view') /\ k \in DOMAIN view'
      BY <2>4, <3>1, <3>2, RealDialogs, LenProperties
    <3> QED
      BY <3>3, <3>4, <3>5 DEF Contains
  <2>5. CASE UNCHANGED view
    BY <2>1, <2>5 DEF Contains
  <2>6. ASSUME NEW v, Show(v)
        PROVE  FALSE
    <3>1. fetch'.state = fetch.state
      BY <2>6, ShowMoves
    <3> QED
      BY <3>1 DEF NoFetch
  <2>7. CASE Receive
    <3>1. Head(queue) \in Messages
      BY <2>7, HeadTailProperties DEF Receive, TypeOK
    <3>2. \A d : AddApproval(d) => UNCHANGED view
      BY <2>6 DEF AddApproval
    <3>3. \A d : ClearApproval(d) => UNCHANGED view
      BY <2>6 DEF ClearApproval
    <3>4. \A tool : ClearByTool(tool) => UNCHANGED view
      BY <3>3 DEF ClearByTool
    <3> QED
      BY <2>5, <2>6, <2>7, <3>1, <3>2, <3>3, <3>4, ReceiveCases
  <2>8. CASE AnswerHere \/ \E confirmed \in BOOLEAN : PostAnswer(confirmed)
    BY <2>5, <2>6, <2>8 DEF AnswerHere, PostAnswer
  <2>9. CASE TakeList
    BY <2>3, <2>4, <2>9 DEF TakeList
  <2> QED
    BY <2>5, <2>7, <2>8, <2>9
    DEF Next, Announce, Deny, Enter, Granted, AnswerElsewhere, Report, Bridge, Connect,
        ReadPending, SendHello, Disconnect, TakeAnswer, Fetch, ListApprovals
<1> QED
  BY <1>1, DialogsInvariant, PTL DEF Spec, ListErasesNothing
=============================================================================
