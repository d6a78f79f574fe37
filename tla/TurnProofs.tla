----------------------------- MODULE TurnProofs -----------------------------
(* Theorems about what MCTurn runs, for every value of the constants: a turn  *)
(* of Turn with its window and its policy engine, the terminal, and the       *)
(* dialogs of a browser. Of a turn four inductive invariants are proved upon  *)
(* its types (Shape):                                                         *)
(*   AnswerInv  which calls of which message are still open,                  *)
(*   PairInv    what every list of messages keeps of calls and results,       *)
(*   IdInv, RetryInv  what has run, and how often it failed,                  *)
(*   MemoryInv  what the terminal remembers of what is stored.                *)
EXTENDS MCTurn, SequenceTheorems, FiniteSetTheorems, WellFoundedInduction, TLAPS

-----------------------------------------------------------------------------
(* The policy engine, with any categories and any words for rules and modes.  *)
(* The classifier escalates what it is not sure of, and a user may switch to  *)
(* confirm mode under a turn that runs: both rest on a decision never being   *)
(* looser for it.                                                             *)

\* A policy as it may come from a configuration file.
IsPolicy(p) ==
  \E C, W : p \in [mode : W, rules : [C -> W], unrestricted : BOOLEAN, production : BOOLEAN]

\* Taking a policy in puts confirm for what is no mode and no rule.
LEMMA NormalizedPolicy ==
  ASSUME NEW p, IsPolicy(p)
  PROVE  LET n == NormalizePolicy(p)
         IN /\ n.mode = (IF p.mode \in Modes THEN p.mode ELSE "confirm")
            /\ DOMAIN n.rules = DOMAIN p.rules
            /\ \A c \in DOMAIN p.rules :
                 n.rules[c] = (IF p.rules[c] \in Rules THEN p.rules[c] ELSE "confirm")
            /\ n.unrestricted = p.unrestricted /\ n.production = p.production
BY DEF NormalizePolicy, IsPolicy

LEMMA NormalizedRule ==
  ASSUME NEW p, IsPolicy(p), NEW c
  PROVE  LET n == NormalizePolicy(p)
         IN /\ ResolveRule(n, c) = ResolveRule(p, c)
            /\ Explicit(p, c) => Explicit(n, c)
            /\ Explicit(n, c) /\ ResolveRule(n, c) = "allow" => Explicit(p, c)
<1> DEFINE n == NormalizePolicy(p)
<1>1. /\ DOMAIN n.rules = DOMAIN p.rules
      /\ \A d \in DOMAIN p.rules :
           n.rules[d] = (IF p.rules[d] \in Rules THEN p.rules[d] ELSE "confirm")
  BY NormalizedPolicy
<1> HIDE DEF n
<1>2. CASE c \in DOMAIN p.rules
  BY <1>1, <1>2 DEF ResolveRule, Explicit, Rules, n
<1>3. CASE c \notin DOMAIN p.rules
  BY <1>1, <1>3 DEF ResolveRule, Explicit, n
<1> QED
  BY <1>2, <1>3

\* A word that is no mode or no rule is already taken for confirm: normalizing a
\* policy makes it well formed and changes no decision (policy.go,
\* NormalizePolicy; evaluator.go, resolveRule).
THEOREM NormalizingChangesNothing ==
  ASSUME NEW p, IsPolicy(p), NEW action
  PROVE  /\ NormalizePolicy(p).mode \in Modes
         /\ \A c \in DOMAIN NormalizePolicy(p).rules : NormalizePolicy(p).rules[c] \in Rules
         /\ Evaluate(NormalizePolicy(p), action) = Evaluate(p, action)
<1> DEFINE n == NormalizePolicy(p)
<1>1. /\ n.mode = (IF p.mode \in Modes THEN p.mode ELSE "confirm")
      /\ n.unrestricted = p.unrestricted /\ n.production = p.production
  BY NormalizedPolicy
<1>2. n.mode \in Modes /\ \A c \in DOMAIN n.rules : n.rules[c] \in Rules
  BY NormalizedPolicy DEF Modes, Rules
<1>3. /\ ResolveRule(n, action.category) = ResolveRule(p, action.category)
      /\ Explicit(p, action.category) => Explicit(n, action.category)
      /\ Explicit(n, action.category) /\ ResolveRule(n, action.category) = "allow"
           => Explicit(p, action.category)
  BY NormalizedRule
<1> HIDE DEF n
<1>4. n.mode = "auto" <=> p.mode = "auto"
  BY <1>1 DEF Modes
<1>5. Allowed(n, action) <=> Allowed(p, action)
  BY <1>1, <1>3, <1>4 DEF Allowed
<1>6. Evaluate(n, action) = Evaluate(p, action)
  BY <1>1, <1>3, <1>5 DEF Evaluate
<1> QED
  BY <1>2, <1>6 DEF n

\* What is judged more severe, of the same category, is never allowed where the
\* milder judgement was not: escalating an action loosens nothing.
THEOREM EscalatingNeverLoosens ==
  ASSUME NEW p, NEW mild, NEW severe, severe.category = mild.category,
         mild.risk = "critical" => severe.risk = "critical",
         IsProduction(mild) => IsProduction(severe),
         Evaluate(p, severe) = "allow"
  PROVE  Evaluate(p, mild) = "allow"
BY DEF Evaluate, Allowed

\* Switching from auto to confirm allows nothing that was not allowed, and
\* neither mode changes what is denied (dispatch.go, permissionsCmd).
THEOREM ConfirmModeIsStricter ==
  ASSUME NEW p, IsPolicy(p), NEW action
  PROVE  LET strict == [p EXCEPT !.mode = "confirm"]
             auto   == [p EXCEPT !.mode = "auto"]
         IN /\ Evaluate(strict, action) = "allow" => Evaluate(auto, action) = "allow"
            /\ Evaluate(strict, action) = "deny" <=> Evaluate(auto, action) = "deny"
<1> DEFINE strict == [p EXCEPT !.mode = "confirm"]
           auto   == [p EXCEPT !.mode = "auto"]
<1>1. /\ strict.rules = p.rules /\ auto.rules = p.rules /\ auto.mode = "auto"
      /\ strict.unrestricted = p.unrestricted /\ auto.unrestricted = p.unrestricted
      /\ strict.production = p.production /\ auto.production = p.production
  BY DEF IsPolicy
<1> HIDE DEF strict, auto
<1>2. /\ ResolveRule(strict, action.category) = ResolveRule(auto, action.category)
      /\ Explicit(strict, action.category) <=> Explicit(auto, action.category)
  BY <1>1 DEF ResolveRule, Explicit
<1>3. Allowed(strict, action) => Allowed(auto, action)
  BY <1>1, <1>2 DEF Allowed
<1> QED
  BY <1>1, <1>2, <1>3 DEF Evaluate, strict, auto

-----------------------------------------------------------------------------
(* How results stand to calls. The first n calls of the message at i are      *)
(* answered, each in order, right after it.                                   *)

AnsweredUpTo(messages, i, n) ==
  /\ i + n <= Len(messages) /\ n <= Len(messages[i].calls)
  /\ \A k \in 1..n : /\ messages[i + k].role = "tool"
                     /\ messages[i + k].answers[1].id = messages[i].calls[k].id

\* The calls of the message at i are answered but for rest, and nothing follows.
OpenAt(messages, i, rest) ==
  LET n == Len(messages) - i
  IN /\ AnsweredUpTo(messages, i, n)
     /\ Len(rest) = Len(messages[i].calls) - n
     /\ \A k \in 1..Len(rest) : rest[k] = messages[i].calls[n + k]

Follows(messages, i) ==
  \E j \in 1..(i - 1) :
    /\ i - j <= Len(messages[j].calls)
    /\ messages[j].calls[i - j].id = messages[i].answers[1].id
    /\ \A k \in (j + 1)..i : messages[k].role = "tool"

Whole(messages) ==
  \A i \in DOMAIN messages : messages[i].role = "tool" => Follows(messages, i)

Headless(messages) ==
  \A i \in DOMAIN messages : messages[i].role = "tool" =>
    Follows(messages, i) \/ \A k \in 1..i : messages[k].role = "tool"

-----------------------------------------------------------------------------
(* Sequences of messages *)

Calls == [id : Nat \X Nat \X Nat, tool : Tools]
Costs == PromptCosts \cup {ReplyCost, SelectionCost} \cup {r.cost : r \in Results}
Verdicts == [id : Nat \X Nat \X Nat, failed : BOOLEAN]
Messages == [role : {"user", "assistant", "tool", "system"}, calls : Seq(Calls),
             answers : Seq(Verdicts), cost : Costs]

LEMMA LeastMember ==
  ASSUME NEW I \in SUBSET Nat, I # {}
  PROVE  Min(I) \in I
<1>1. PICK x \in I : \A y \in I : <<y, x>> \notin OpToRel(<, Nat)
  BY NatLessThanWellFounded, WFMin
<1>2. OpToRel(<, Nat) = {ss \in Nat \X Nat : ss[1] < ss[2]}
  BY Zenon DEF OpToRel
<1>3. \A y \in I : ~(y < x)
  BY <1>1, <1>2
<1>4. \A y \in I : x <= y
  BY <1>3
<1> QED
  BY <1>4 DEF Min

\* A message that is appended: what is said of the others stays.
LEMMA FollowsAppend ==
  ASSUME NEW S, NEW s \in Seq(S), NEW m \in S, NEW i \in 1..Len(s)
  PROVE  Follows(Append(s, m), i) <=> Follows(s, i)
<1>1. \A k \in 1..Len(s) : Append(s, m)[k] = s[k]
  BY AppendProperties
<1> QED
  BY <1>1 DEF Follows

LEMMA AnsweredAppend ==
  ASSUME NEW S, NEW s \in Seq(S), NEW m \in S, NEW i \in 1..Len(s), NEW n \in Nat,
         AnsweredUpTo(s, i, n)
  PROVE  AnsweredUpTo(Append(s, m), i, n)
<1>1. /\ Len(Append(s, m)) = Len(s) + 1
      /\ \A k \in 1..Len(s) : Append(s, m)[k] = s[k]
  BY AppendProperties
<1>2. \A k \in 1..n : i + k \in 1..Len(s)
  BY DEF AnsweredUpTo
<1> QED
  BY <1>1, <1>2 DEF AnsweredUpTo

\* The next call of an open message is answered. First without the sequences.
Grown(s, t)    == Len(t) = Len(s) + 1 /\ \A k \in 1..Len(s) : t[k] = s[k]
Taken(s, tail) == Len(s) = Len(tail) + 1 /\ \A k \in 1..Len(tail) : tail[k] = s[k + 1]

LEMMA AnswerNext ==
  ASSUME NEW s, NEW i, NEW rest, OpenAt(s, i, rest),
         NEW t, Grown(s, t), NEW tail, Taken(rest, tail),
         Len(s) \in Nat, i \in 1..Len(s), Len(s[i].calls) \in Nat, Len(tail) \in Nat,
         t[Len(s) + 1].role = "tool", t[Len(s) + 1].answers[1].id = rest[1].id
  PROVE  /\ OpenAt(t, i, tail)
         /\ Follows(t, Len(s) + 1)
         /\ Len(tail) = 0 => AnsweredUpTo(t, i, Len(s[i].calls))
<1> DEFINE calls == s[i].calls
           l == Len(s)
           c == Len(calls)
           r == Len(tail)
<1>0. /\ l \in Nat /\ i \in 1..l /\ c \in Nat /\ r \in Nat
      /\ Len(s) = l /\ Len(t) = l + 1 /\ \A k \in 1..l : t[k] = s[k]
      /\ calls = s[i].calls /\ Len(calls) = c /\ Len(rest) = r + 1 /\ Len(tail) = r
      /\ \A k \in 1..r : tail[k] = rest[k + 1]
      /\ t[l + 1].role = "tool" /\ t[l + 1].answers[1].id = rest[1].id
  BY DEF Grown, Taken
<1> SUFFICES /\ OpenAt(t, i, tail) /\ Follows(t, l + 1)
             /\ r = 0 => AnsweredUpTo(t, i, c)
  OBVIOUS
<1> HIDE DEF calls, l, c, r
<1> USE <1>0
<1> DEFINE n == l - i
<1>1. /\ n \in Nat /\ n + i = l /\ n + 1 <= c /\ r + 1 = c - n
      /\ \A k \in 1..n : s[i + k].role = "tool" /\ s[i + k].answers[1].id = calls[k].id
      /\ \A k \in 1..r + 1 : rest[k] = calls[n + k]
  BY DEF OpenAt, AnsweredUpTo
<1>2. t[i].calls = calls /\ l + 1 - i = n + 1 /\ i + (n + 1) = l + 1
  OBVIOUS
<1> HIDE DEF n
<1>3. \A k \in 1..n + 1 : t[i + k].role = "tool" /\ t[i + k].answers[1].id = calls[k].id
  <2> SUFFICES ASSUME NEW k \in 1..n + 1
               PROVE  t[i + k].role = "tool" /\ t[i + k].answers[1].id = calls[k].id
    OBVIOUS
  <2>1. CASE k = n + 1
    <3>1. i + k = l + 1 /\ rest[1] = calls[n + 1]
      BY <2>1, <1>1, <1>2
    <3> QED
      BY <2>1, <3>1
  <2>2. CASE k \in 1..n
    <3>1. i + k \in 1..l
      BY <2>2, <1>1
    <3> QED
      BY <2>2, <3>1, <1>1
  <2> QED
    BY <2>1, <2>2, <1>1
<1>4. AnsweredUpTo(t, i, n + 1)
  BY <1>1, <1>2, <1>3 DEF AnsweredUpTo
<1>5. OpenAt(t, i, tail)
  <2>1. ASSUME NEW k \in 1..r PROVE tail[k] = calls[n + 1 + k]
    <3>1. tail[k] = rest[k + 1] /\ k + 1 \in 1..r + 1 /\ n + (k + 1) = n + 1 + k
      BY <1>1
    <3>2. rest[k + 1] = calls[n + (k + 1)]
      BY <3>1, <1>1
    <3> QED
      BY <3>1, <3>2
  <2>2. r = c - (n + 1) /\ (l + 1) - i = n + 1
    BY <1>1
  <2>3. Len(tail) = Len(calls) - (n + 1) /\ Len(t) - i = n + 1
    BY Zenon, <1>0, <2>2
  <2> HIDE DEF n
  <2> QED
    BY Zenon, <1>0, <1>4, <2>1, <2>3 DEF OpenAt, calls
<1>6. Follows(t, l + 1)
  <2>1. \A k \in (i + 1)..(l + 1) : t[k].role = "tool"
    <3> SUFFICES ASSUME NEW k \in (i + 1)..(l + 1) PROVE t[k].role = "tool"
      OBVIOUS
    <3>1. k - i \in 1..n + 1 /\ i + (k - i) = k
      BY <1>1
    <3> QED
      BY <3>1, <1>3
  <2>2. t[l + 1].answers[1].id = calls[n + 1].id
    BY <1>1, <1>2, <1>3
  <2>3. i \in 1..(l + 1) - 1
    OBVIOUS
  <2>4. l + 1 - i <= Len(t[i].calls) /\ t[i].calls[l + 1 - i].id = t[l + 1].answers[1].id
    BY <1>1, <1>2, <2>2
  <2> SUFFICES \E j \in 1..(l + 1) - 1 :
                 /\ (l + 1) - j <= Len(t[j].calls)
                 /\ t[j].calls[(l + 1) - j].id = t[l + 1].answers[1].id
                 /\ \A k \in (j + 1)..(l + 1) : t[k].role = "tool"
    BY Zenon DEF Follows
  <2> WITNESS i \in 1..(l + 1) - 1
  <2> QED
    BY <2>1, <2>4
<1>7. r = 0 => n + 1 = c
  BY <1>1
<1> QED
  BY <1>4, <1>5, <1>6, <1>7

LEMMA FirstAndRest ==
  ASSUME NEW S, NEW s \in Seq(S), s # <<>>
  PROVE  /\ Tail(s) \in Seq(S) /\ Head(s) \in S /\ Head(s) = s[1]
         /\ Len(Tail(s)) \in Nat /\ Len(s) = Len(Tail(s)) + 1
         /\ \A k \in 1..Len(Tail(s)) : Tail(s)[k] = s[k + 1]
         /\ Tail(s) = <<>> <=> Len(Tail(s)) = 0
         /\ Tail(s) = <<>> <=> Len(s) = 1
<1>1. Head(s) = s[1]
  OBVIOUS
<1>2. /\ Tail(s) \in Seq(S) /\ Head(s) \in S /\ Len(Tail(s)) = Len(s) - 1
      /\ \A k \in 1..Len(Tail(s)) : Tail(s)[k] = s[k + 1]
  BY HeadTailProperties
<1>3. Len(Tail(s)) \in Nat /\ Len(s) = Len(Tail(s)) + 1
  BY <1>2, LenProperties
<1>4. Tail(s) = <<>> <=> Len(Tail(s)) = 0
  BY <1>2, EmptySeq
<1>5. Len(Tail(s)) = 0 <=> Len(s) = 1
  BY <1>3
<1> QED
  BY Zenon, <1>1, <1>2, <1>3, <1>4, <1>5

LEMMA AnswerOpen ==
  ASSUME NEW S, NEW s \in Seq(S), NEW m \in S, NEW i \in 1..Len(s),
         NEW C, s[i].calls \in Seq(C), NEW rest \in Seq(C), rest # <<>>, OpenAt(s, i, rest),
         m.role = "tool", m.answers[1].id = Head(rest).id
  PROVE  /\ OpenAt(Append(s, m), i, Tail(rest))
         /\ Follows(Append(s, m), Len(s) + 1)
         /\ Tail(rest) = <<>> => AnsweredUpTo(Append(s, m), i, Len(s[i].calls))
<1> DEFINE t == Append(s, m)
           tail == Tail(rest)
<1>1. Grown(s, t) /\ t[Len(s) + 1] = m
  BY AppendProperties DEF Grown
<1>2. /\ Len(tail) \in Nat /\ Taken(rest, tail) /\ Head(rest) = rest[1]
      /\ tail = <<>> <=> Len(tail) = 0
  BY Zenon, FirstAndRest DEF Taken
<1>3. Len(s) \in Nat /\ i \in 1..Len(s) /\ Len(s[i].calls) \in Nat
  OBVIOUS
<1> SUFFICES /\ OpenAt(t, i, tail) /\ Follows(t, Len(s) + 1)
             /\ Len(tail) = 0 => AnsweredUpTo(t, i, Len(s[i].calls))
  BY <1>2
<1> HIDE DEF t, tail
<1>4. t[Len(s) + 1].role = "tool" /\ t[Len(s) + 1].answers[1].id = rest[1].id
  BY <1>1, <1>2
<1> QED
  BY Zenon, <1>1, <1>2, <1>3, <1>4, AnswerNext

-----------------------------------------------------------------------------
(* Calls and their results.                                                   *)

LEMMA DomainOfSeq ==
  ASSUME NEW S, NEW s \in Seq(S)
  PROVE  Len(s) \in Nat /\ DOMAIN s = 1..Len(s) /\ \A i \in 1..Len(s) : s[i] \in S
OBVIOUS

LEMMA CallsOfMessage ==
  ASSUME NEW s \in Seq(Messages), NEW i \in 1..Len(s)
  PROVE  /\ s[i].calls \in Seq(Calls)
         /\ Len(s[i].calls) \in Nat /\ DOMAIN s[i].calls = 1..Len(s[i].calls)
<1>1. s[i] \in Messages
  OBVIOUS
<1>2. s[i].calls \in Seq(Calls)
  BY <1>1 DEF Messages
<1> QED
  BY <1>2, DomainOfSeq

\* The call that a result follows is in the message that makes it.
LEMMA FollowsPaired ==
  ASSUME NEW s \in Seq(Messages), NEW i \in 1..Len(s), Follows(s, i)
  PROVE  \E j \in 1..(i - 1) : \E k \in DOMAIN s[j].calls :
            s[j].calls[k].id = s[i].answers[1].id
<1>1. PICK j \in 1..(i - 1) : /\ i - j <= Len(s[j].calls)
                             /\ s[j].calls[i - j].id = s[i].answers[1].id
  BY DEF Follows
<1>2. Len(s) \in Nat
  BY DomainOfSeq
<1>3. j \in 1..Len(s) /\ i - j >= 1 /\ i - j \in Int
  BY <1>2
<1>4. DOMAIN s[j].calls = 1..Len(s[j].calls) /\ Len(s[j].calls) \in Nat
  BY <1>3, CallsOfMessage
<1>5. i - j \in DOMAIN s[j].calls
  BY <1>1, <1>3, <1>4
<1> QED
  BY Zenon, <1>1, <1>5

LEMMA WholePaired ==
  ASSUME NEW s \in Seq(Messages), Whole(s)
  PROVE  Paired(s)
BY FollowsPaired, DomainOfSeq DEF Whole, Paired

\* A result keeps its place behind its call in every longer conversation ...
LEMMA FollowsPrefix ==
  ASSUME NEW s, NEW t, NEW i, NEW l \in Nat, i \in 1..l, \A k \in 1..l : t[k] = s[k]
  PROVE  Follows(t, i) <=> Follows(s, i)
<1>1. t[i] = s[i]
  OBVIOUS
<1>2. ASSUME NEW j \in 1..(i - 1)
      PROVE  /\ t[j] = s[j]
             /\ \A k \in (j + 1)..i : t[k].role = s[k].role
  <2>1. j \in 1..l /\ \A k \in (j + 1)..i : k \in 1..l
    OBVIOUS
  <2> QED
    BY <2>1
<1> QED
  BY <1>1, <1>2 DEF Follows

\* ... and in one that has something before it.
LEMMA FollowsShift ==
  ASSUME NEW s, NEW t, NEW i, NEW l \in Nat, i \in 1..l, NEW d \in Nat,
         \A k \in 1..l : t[k + d] = s[k], Follows(s, i)
  PROVE  Follows(t, i + d)
<1>1. PICK j \in 1..(i - 1) : /\ i - j <= Len(s[j].calls)
                             /\ s[j].calls[i - j].id = s[i].answers[1].id
                             /\ \A k \in (j + 1)..i : s[k].role = "tool"
  BY DEF Follows
<1>2. j + d \in 1..((i + d) - 1) /\ (i + d) - (j + d) = i - j /\ j \in 1..l /\ i \in 1..l
  OBVIOUS
<1>3. t[j + d] = s[j] /\ t[i + d] = s[i]
  BY <1>2
<1>4. ASSUME NEW k \in (j + d + 1)..(i + d)
      PROVE  t[k].role = "tool"
  <2>1. k - d \in (j + 1)..i /\ k - d \in 1..l /\ (k - d) + d = k
    OBVIOUS
  <2>2. t[(k - d) + d] = s[k - d]
    BY <2>1
  <2> QED
    BY <1>1, <2>1, <2>2
<1>5. \A k \in ((j + d) + 1)..(i + d) : t[k].role = "tool"
  BY <1>4
<1>6. /\ (i + d) - (j + d) <= Len(t[j + d].calls)
      /\ t[j + d].calls[(i + d) - (j + d)].id = t[i + d].answers[1].id
  BY <1>1, <1>2, <1>3
<1> SUFFICES \E jj \in 1..((i + d) - 1) :
               /\ (i + d) - jj <= Len(t[jj].calls)
               /\ t[jj].calls[(i + d) - jj].id = t[i + d].answers[1].id
               /\ \A k \in (jj + 1)..(i + d) : t[k].role = "tool"
  BY Zenon DEF Follows
<1> WITNESS j + d \in 1..((i + d) - 1)
<1> QED
  BY Zenon, <1>5, <1>6

LEMMA WholeConcat ==
  ASSUME NEW s \in Seq(Messages), NEW t \in Seq(Messages), Whole(s), Whole(t)
  PROVE  Whole(s \o t)
<1>1. /\ s \o t \in Seq(Messages) /\ Len(s \o t) = Len(s) + Len(t)
      /\ Len(s) \in Nat /\ Len(t) \in Nat
      /\ \A k \in 1..Len(s) : (s \o t)[k] = s[k]
      /\ \A k \in 1..Len(t) : (s \o t)[k + Len(s)] = t[k]
  BY ConcatProperties
<1> SUFFICES ASSUME NEW i \in 1..(Len(s) + Len(t)), (s \o t)[i].role = "tool"
             PROVE  Follows(s \o t, i)
  BY <1>1 DEF Whole
<1>2. CASE i \in 1..Len(s)
  <2>1. Follows(s, i)
    BY <1>1, <1>2, DomainOfSeq DEF Whole
  <2> QED
    BY Zenon, <1>1, <1>2, <2>1, FollowsPrefix
<1>3. CASE i \notin 1..Len(s)
  <2>1. i - Len(s) \in 1..Len(t) /\ (i - Len(s)) + Len(s) = i
    BY <1>1, <1>3
  <2>2. Follows(t, i - Len(s))
    BY <1>1, <2>1, DomainOfSeq DEF Whole
  <2>3. Follows(s \o t, (i - Len(s)) + Len(s))
    BY Zenon, <1>1, <2>1, <2>2, FollowsShift
  <2> QED
    BY <2>1, <2>3
<1> QED
  BY <1>2, <1>3

LEMMA WholePrefix ==
  ASSUME NEW s \in Seq(Messages), NEW t \in Seq(Messages), Whole(s \o t)
  PROVE  Whole(s)
<1>1. /\ s \o t \in Seq(Messages) /\ Len(s \o t) = Len(s) + Len(t)
      /\ Len(s) \in Nat /\ Len(t) \in Nat
      /\ \A k \in 1..Len(s) : (s \o t)[k] = s[k]
  BY ConcatProperties
<1> SUFFICES ASSUME NEW i \in 1..Len(s), s[i].role = "tool"
             PROVE  Follows(s, i)
  BY DomainOfSeq DEF Whole
<1>2. i \in 1..(Len(s) + Len(t)) /\ (s \o t)[i].role = "tool"
  BY <1>1
<1>3. Follows(s \o t, i)
  BY <1>1, <1>2, DomainOfSeq DEF Whole
<1> QED
  BY Zenon, <1>1, <1>3, FollowsPrefix

LEMMA WholeAppend ==
  ASSUME NEW s \in Seq(Messages), NEW m \in Messages, Whole(s),
         m.role = "tool" => Follows(Append(s, m), Len(s) + 1)
  PROVE  Whole(Append(s, m))
<1>1. /\ Append(s, m) \in Seq(Messages) /\ Len(Append(s, m)) = Len(s) + 1 /\ Len(s) \in Nat
      /\ \A k \in 1..Len(s) : Append(s, m)[k] = s[k]
      /\ Append(s, m)[Len(s) + 1] = m
  BY AppendProperties
<1> SUFFICES ASSUME NEW i \in 1..(Len(s) + 1), Append(s, m)[i].role = "tool"
             PROVE  Follows(Append(s, m), i)
  BY <1>1 DEF Whole
<1>2. CASE i \in 1..Len(s)
  <2>1. Follows(s, i)
    BY <1>1, <1>2, DomainOfSeq DEF Whole
  <2> QED
    BY Zenon, <1>1, <1>2, <2>1, FollowsPrefix
<1>3. CASE i = Len(s) + 1
  BY <1>1, <1>3
<1> QED
  BY <1>1, <1>2, <1>3

LEMMA WholeEmpty == Whole(<<>>) /\ Headless(<<>>)
BY DEF Whole, Headless

LEMMA WholeHeadless ==
  ASSUME NEW s, Whole(s)
  PROVE  Headless(s)
BY DEF Whole, Headless

LEMMA HeadlessAppend ==
  ASSUME NEW s \in Seq(Messages), NEW m \in Messages, Headless(s),
         m.role = "tool" => Follows(Append(s, m), Len(s) + 1)
  PROVE  Headless(Append(s, m))
<1>1. /\ Append(s, m) \in Seq(Messages) /\ Len(Append(s, m)) = Len(s) + 1 /\ Len(s) \in Nat
      /\ \A k \in 1..Len(s) : Append(s, m)[k] = s[k]
      /\ Append(s, m)[Len(s) + 1] = m
  BY AppendProperties
<1> SUFFICES ASSUME NEW i \in 1..(Len(s) + 1), Append(s, m)[i].role = "tool"
             PROVE  \/ Follows(Append(s, m), i)
                    \/ \A k \in 1..i : Append(s, m)[k].role = "tool"
  BY <1>1 DEF Headless
<1>2. CASE i \in 1..Len(s)
  <2>1. Follows(s, i) \/ \A k \in 1..i : s[k].role = "tool"
    BY <1>1, <1>2, DomainOfSeq DEF Headless
  <2>2. CASE Follows(s, i)
    BY Zenon, <1>1, <1>2, <2>2, FollowsPrefix
  <2>3. CASE \A k \in 1..i : s[k].role = "tool"
    <3>1. \A k \in 1..i : k \in 1..Len(s)
      BY <1>1, <1>2
    <3> QED
      BY <1>1, <2>3, <3>1
  <2> QED
    BY <2>1, <2>2, <2>3
<1>3. CASE i = Len(s) + 1
  BY <1>1, <1>3
<1> QED
  BY <1>1, <1>2, <1>3

\* What a conversation ends with.
LEMMA FromElements ==
  ASSUME NEW S, NEW s \in Seq(S), NEW cut \in 0..Len(s)
  PROVE  /\ From(s, cut) \in Seq(S) /\ Len(From(s, cut)) = Len(s) - cut
         /\ \A i \in 1..(Len(s) - cut) : From(s, cut)[i] = s[i + cut]
<1>1. From(s, cut) = SubSeq(s, cut + 1, Len(s))
  BY DEF From
<1>2. /\ cut + 1 \in 1..Len(s) + 1 /\ Len(s) \in cut..Len(s) /\ Len(s) \in Nat
  OBVIOUS
<1> QED
  BY <1>1, <1>2, SubSeqProperties

\* A result of the end of a conversation follows its call there, or its call and
\* what is between them were left out.
LEMMA FollowsFrom ==
  ASSUME NEW s \in Seq(Messages), NEW cut \in 0..Len(s), NEW i \in 1..(Len(s) - cut),
         Follows(s, i + cut)
  PROVE  Follows(From(s, cut), i) \/ \A k \in 1..i : From(s, cut)[k].role = "tool"
<1> DEFINE w == From(s, cut)
<1>1. Len(s) \in Nat /\ \A k \in 1..(Len(s) - cut) : w[k] = s[k + cut]
  BY Zenon, FromElements, DomainOfSeq
<1> HIDE DEF w
<1>2. PICK j \in 1..((i + cut) - 1) :
        /\ (i + cut) - j <= Len(s[j].calls)
        /\ s[j].calls[(i + cut) - j].id = s[i + cut].answers[1].id
        /\ \A k \in (j + 1)..(i + cut) : s[k].role = "tool"
  BY DEF Follows
<1>3. CASE j <= cut
  <2>1. ASSUME NEW k \in 1..i PROVE w[k].role = "tool"
    <3>1. k \in 1..(Len(s) - cut) /\ k + cut \in (j + 1)..(i + cut)
      BY <1>1, <1>3
    <3> QED
      BY <1>1, <1>2, <3>1
  <2> QED
    BY <2>1 DEF w
<1>4. CASE j > cut
  <2>1. /\ j - cut \in 1..(i - 1) /\ j - cut \in 1..(Len(s) - cut) /\ (j - cut) + cut = j
        /\ i - (j - cut) = (i + cut) - j
    <3>1. j - cut \in 1..(i - 1)
      BY <1>4
    <3>2. j - cut \in 1..(Len(s) - cut)
      BY <1>1, <3>1
    <3> QED
      BY Z3, <3>1, <3>2
  <2>2. w[j - cut] = s[j] /\ w[i] = s[i + cut]
    BY <1>1, <2>1
  <2>3. ASSUME NEW k \in ((j - cut) + 1)..i PROVE w[k].role = "tool"
    <3>1. k \in 1..(Len(s) - cut) /\ k + cut \in (j + 1)..(i + cut)
      BY <1>1, <1>4
    <3> QED
      BY <1>1, <1>2, <3>1
  <2>4. /\ i - (j - cut) <= Len(w[j - cut].calls)
        /\ w[j - cut].calls[i - (j - cut)].id = w[i].answers[1].id
    BY <1>2, <2>1, <2>2
  <2>5. \A k \in ((j - cut) + 1)..i : w[k].role = "tool"
    BY <2>3
  <2>6. Follows(w, i)
    <3> SUFFICES \E jj \in 1..(i - 1) : /\ i - jj <= Len(w[jj].calls)
                                        /\ w[jj].calls[i - jj].id = w[i].answers[1].id
                                        /\ \A k \in (jj + 1)..i : w[k].role = "tool"
      BY Zenon DEF Follows
    <3>1. j - cut \in 1..(i - 1)
      BY <2>1
    <3> WITNESS j - cut \in 1..(i - 1)
    <3> QED
      BY Zenon, <2>4, <2>5
  <2> QED
    BY <2>6 DEF w
<1> QED
  BY <1>1, <1>3, <1>4

LEMMA WholeFrom ==
  ASSUME NEW s \in Seq(Messages), Whole(s), NEW cut \in 0..Len(s)
  PROVE  Headless(From(s, cut))
<1>1. /\ Len(s) \in Nat /\ DOMAIN s = 1..Len(s)
      /\ From(s, cut) \in Seq(Messages) /\ Len(From(s, cut)) = Len(s) - cut
      /\ \A i \in 1..(Len(s) - cut) : From(s, cut)[i] = s[i + cut]
  BY Zenon, FromElements, DomainOfSeq
<1>2. DOMAIN From(s, cut) = 1..(Len(s) - cut)
  BY <1>1, DomainOfSeq
<1> SUFFICES ASSUME NEW i \in 1..(Len(s) - cut), From(s, cut)[i].role = "tool"
             PROVE  Follows(From(s, cut), i) \/ \A k \in 1..i : From(s, cut)[k].role = "tool"
  BY <1>2 DEF Headless
<1>3. i + cut \in 1..Len(s) /\ s[i + cut].role = "tool"
  BY <1>1
<1>4. Follows(s, i + cut)
  BY <1>1, <1>3 DEF Whole
<1> QED
  BY <1>4, FollowsFrom

\* What the window of a prompt needs: it does not begin with a result.
LEMMA HeadlessFrom ==
  ASSUME NEW s \in Seq(Messages), Headless(s), NEW cut \in 0..Len(s),
         cut < Len(s) => s[cut + 1].role # "tool"
  PROVE  Paired(From(s, cut))
<1> DEFINE w == From(s, cut)
<1>1. /\ Len(s) \in Nat /\ DOMAIN s = 1..Len(s)
      /\ w \in Seq(Messages) /\ Len(w) = Len(s) - cut
      /\ \A i \in 1..(Len(s) - cut) : w[i] = s[i + cut]
  BY Zenon, FromElements, DomainOfSeq
<1>2. DOMAIN w = 1..(Len(s) - cut)
  BY <1>1, DomainOfSeq
<1> SUFFICES ASSUME NEW i \in 1..(Len(s) - cut), w[i].role = "tool"
             PROVE  \E j \in 1..(i - 1) : \E k \in DOMAIN w[j].calls :
                       w[j].calls[k].id = w[i].answers[1].id
  BY <1>2 DEF Paired
<1>3. /\ i + cut \in 1..Len(s) /\ s[i + cut].role = "tool"
      /\ cut + 1 \in 1..(i + cut) /\ cut < Len(s)
  BY <1>1
<1>4. Follows(s, i + cut) \/ \A k \in 1..(i + cut) : s[k].role = "tool"
  BY <1>1, <1>3 DEF Headless
<1>5. Follows(s, i + cut)
  BY <1>3, <1>4
<1>6. Follows(w, i) \/ \A k \in 1..i : w[k].role = "tool"
  BY <1>5, FollowsFrom
<1>7. ~ \A k \in 1..i : w[k].role = "tool"
  <2>1. 1 \in 1..i /\ 1 \in 1..(Len(s) - cut) /\ 1 + cut = cut + 1
    BY <1>1
  <2>2. w[1] = s[cut + 1]
    BY <1>1, <2>1
  <2> QED
    BY <1>3, <2>1, <2>2
<1> QED
  BY <1>1, <1>6, <1>7, FollowsPaired

-----------------------------------------------------------------------------
(* The prompt. What a selection or an allowance costs decides how much of the *)
(* conversation is left out, never whether a result is left without its call. *)

LEMMA NewestInRange ==
  ASSUME NEW n \in Nat, NEW k \in Nat
  PROVE  Max({n - k, 0}) \in 0..n
<1>1. CASE n - k >= 0
  <2>1. n - k \in {n - k, 0} /\ \A x \in {n - k, 0} : x \in Int /\ n - k >= x
    BY <1>1
  <2>2. Max({n - k, 0}) = n - k
    BY <2>1 DEF Max
  <2> QED
    BY <1>1, <2>2
<1>2. CASE ~(n - k >= 0)
  <2>1. 0 \in {n - k, 0} /\ \A x \in {n - k, 0} : x \in Int /\ 0 >= x
    BY <1>2
  <2>2. Max({n - k, 0}) = 0
    BY <2>1 DEF Max
  <2> QED
    BY <2>2
<1> QED
  BY <1>1, <1>2

LEMMA TailCutInRange ==
  ASSUME NEW talk \in Seq(Messages), NEW opts, opts.minRecent \in Nat, NEW room
  PROVE  TailCut(talk, opts, room) \in 0..Len(talk)
<1> DEFINE n == Len(talk)
           m == Max({n - opts.minRecent, 0})
           I == {c \in m..n : c = n \/ Cost(From(talk, c)) <= room}
<1>1. n \in Nat
  OBVIOUS
<1> HIDE DEF n
<1>2. m \in 0..n
  BY <1>1, NewestInRange
<1> HIDE DEF m
<1>3. I \in SUBSET Nat /\ n \in I /\ I \subseteq 0..n
  BY <1>1, <1>2
<1>4. Min(I) \in I
  BY <1>3, LeastMember
<1> QED
  BY <1>3, <1>4 DEF TailCut, n, m

LEMMA OlderCutInRange ==
  ASSUME NEW talk, NEW cut \in Nat, NEW room
  PROVE  OlderCut(talk, cut, room) \in 0..cut
<1> DEFINE I == {c \in 0..cut : c = cut \/ Cost(SubSeq(talk, c + 1, cut)) <= room}
<1>1. I \in SUBSET Nat /\ cut \in I /\ I \subseteq 0..cut
  OBVIOUS
<1>2. Min(I) \in I
  BY <1>1, LeastMember
<1> QED
  BY <1>1, <1>2 DEF OlderCut

LEMMA PairedCutIsPaired ==
  ASSUME NEW talk \in Seq(Messages), NEW cut \in 0..Len(talk)
  PROVE  /\ PairedCut(talk, cut) \in 0..Len(talk)
         /\ PairedCut(talk, cut) < Len(talk) =>
              talk[PairedCut(talk, cut) + 1].role # "tool"
<1> DEFINE n == Len(talk)
           I == {c \in cut..n : c < n => talk[c + 1].role # "tool"}
<1>1. n \in Nat /\ cut \in 0..n
  OBVIOUS
<1>2. I \in SUBSET Nat /\ n \in I /\ I \subseteq 0..n
  BY <1>1
<1>3. Min(I) \in I
  BY <1>2, LeastMember
<1> QED
  BY <1>2, <1>3 DEF PairedCut

LEMMA Candidate ==
  ASSUME NEW input, input.history \in Seq(Messages), NEW opts, opts.minRecent \in Nat,
         NEW effective, NEW allowance, Assemble(input, opts, effective, allowance).ok
  PROVE  \E older \in 0..Len(input.history) :
            Assemble(input, opts, effective, allowance).window =
              From(input.history, PairedCut(input.history, older))
<1> DEFINE talk == input.history
           tail == TailCut(talk, opts, effective - (MessageOverhead + input.system))
<1>1. tail \in 0..Len(talk) /\ Len(talk) \in Nat
  BY TailCutInRange
<1>2. TooSmall.ok = FALSE
  BY DEF TooSmall
<1>3. \A room : OlderCut(talk, tail, room) \in 0..Len(talk)
  <2>1. \A room : OlderCut(talk, tail, room) \in 0..tail
    BY <1>1, OlderCutInRange
  <2> QED
    BY <1>1, <2>1
<1> HIDE DEF talk, tail
<1> QED
  BY Zenon, <1>2, <1>3 DEF Assemble, talk, tail

LEMMA BuiltWindow ==
  ASSUME NEW input, input.history \in Seq(Messages), NEW opts, opts.minRecent \in Nat,
         Build(input, opts).ok
  PROVE  \E older \in 0..Len(input.history) :
            Build(input, opts).window = From(input.history, PairedCut(input.history, older))
<1> DEFINE effective == opts.budget - opts.reserve
           allowance == Least(opts.summary, effective \div 4)
           first     == Assemble(input, opts, effective, 0)
           second    == Assemble(input, opts, effective, allowance)
<1>1. \/ Build(input, opts) = TooSmall
      \/ Build(input, opts) = first
      \/ Build(input, opts) = second /\ second.ok
  BY Zenon DEF Build
<1>2. ~TooSmall.ok
  BY DEF TooSmall
<1>3. ASSUME NEW e, NEW a, Build(input, opts) = Assemble(input, opts, e, a)
      PROVE  \E older \in 0..Len(input.history) :
                Build(input, opts).window = From(input.history, PairedCut(input.history, older))
  BY Zenon, <1>3, Candidate
<1> QED
  BY Zenon, <1>1, <1>2, <1>3

\* The window that is sent is the end of the conversation, and every result in
\* it comes with its call.
LEMMA WindowIsPaired ==
  ASSUME NEW input, input.history \in Seq(Messages), Headless(input.history),
         NEW opts, opts.minRecent \in Nat, Build(input, opts).ok
  PROVE  /\ Build(input, opts).window \in Seq(Messages)
         /\ Paired(Build(input, opts).window)
<1> DEFINE talk == input.history
<1>1. PICK older \in 0..Len(talk) :
        Build(input, opts).window = From(talk, PairedCut(talk, older))
  BY Zenon, BuiltWindow
<1>2. talk \in Seq(Messages) /\ Headless(talk)
  OBVIOUS
<1> HIDE DEF talk
<1>3. /\ PairedCut(talk, older) \in 0..Len(talk)
      /\ PairedCut(talk, older) < Len(talk) =>
           talk[PairedCut(talk, older) + 1].role # "tool"
  BY Zenon, <1>2, PairedCutIsPaired
<1>4. From(talk, PairedCut(talk, older)) \in Seq(Messages)
  BY Zenon, <1>2, <1>3, FromElements
<1>5. Paired(From(talk, PairedCut(talk, older)))
  BY Zenon, <1>2, <1>3, HeadlessFrom
<1> QED
  BY Zenon, <1>1, <1>4, <1>5

-----------------------------------------------------------------------------
(* The calls of a message are answered right behind it.                       *)

LEMMA Remaining ==
  ASSUME NEW l \in Nat, NEW i \in 1..l
  PROVE  l - i \in Nat /\ i + (l - i) = l
OBVIOUS

LEMMA AnsweredCount ==
  ASSUME NEW s, Len(s) \in Nat, NEW i \in 1..Len(s), NEW n \in Nat, AnsweredUpTo(s, i, n),
         Len(s[i].calls) \in Nat, n = Len(s[i].calls) \/ i + n = Len(s)
  PROVE  Cardinality(AnsweredAt(s, i)) = n
<1> DEFINE l == Len(s)
           c == Len(s[i].calls)
<1>1. /\ l \in Nat /\ i \in 1..l /\ c \in Nat /\ (n = c \/ i + n = l)
      /\ i + n <= l /\ n <= c
      /\ \A k \in 1..n : s[i + k].role = "tool" /\ s[i + k].answers[1].id = s[i].calls[k].id
  BY DEF AnsweredUpTo
<1>2. AnsweredAt(s, i) =
        {j \in (i + 1)..l : \A k \in (i + 1)..j :
           /\ s[k].role = "tool" /\ k - i <= c
           /\ s[k].answers[1].id = s[i].calls[k - i].id}
  BY Zenon DEF AnsweredAt
<1> HIDE DEF l, c
<1>3. ASSUME NEW j \in (i + 1)..(i + n), NEW k \in (i + 1)..j
      PROVE  /\ s[k].role = "tool" /\ k - i <= c
             /\ s[k].answers[1].id = s[i].calls[k - i].id
  <2>1. k - i \in 1..n /\ i + (k - i) = k
    BY SMTT(30), <1>1
  <2>2. s[i + (k - i)].role = "tool" /\ s[i + (k - i)].answers[1].id = s[i].calls[k - i].id
    BY <1>1, <2>1
  <2>3. k - i <= c
    BY <1>1, <2>1
  <2> QED
    BY <2>1, <2>2, <2>3
<1>4. (i + 1)..(i + n) \subseteq AnsweredAt(s, i)
  <2> SUFFICES ASSUME NEW j \in (i + 1)..(i + n) PROVE j \in AnsweredAt(s, i)
    OBVIOUS
  <2>1. j \in (i + 1)..l
    BY <1>1
  <2> QED
    BY <1>2, <1>3, <2>1
<1>5. AnsweredAt(s, i) \subseteq (i + 1)..(i + n)
  <2> SUFFICES ASSUME NEW j \in AnsweredAt(s, i) PROVE j \in (i + 1)..(i + n)
    OBVIOUS
  <2>1. j \in (i + 1)..l /\ \A k \in (i + 1)..j : k - i <= c
    BY <1>2
  <2>2. j - i <= c
    BY <2>1
  <2> QED
    BY <1>1, <2>1, <2>2
<1>6. AnsweredAt(s, i) = (i + 1)..(i + n)
  BY <1>4, <1>5
<1>7. Cardinality((i + 1)..(i + n)) = n
  <2>1. i + 1 \in Int /\ i + n \in Int
    OBVIOUS
  <2>2. Cardinality((i + 1)..(i + n)) = IF i + 1 > i + n THEN 0 ELSE (i + n) - (i + 1) + 1
    BY <2>1, FS_Interval
  <2> QED
    BY <2>2
<1> QED
  BY <1>6, <1>7

\* A message is open when the last calls of it are todo, and closed otherwise.
OpenOrClosed(messages, rest) ==
  \A i \in DOMAIN messages : messages[i].role = "assistant" =>
    \/ AnsweredUpTo(messages, i, Len(messages[i].calls))
    \/ OpenAt(messages, i, rest)
SomeOpen(messages, rest) ==
  \E i \in DOMAIN messages : messages[i].role = "assistant" /\ OpenAt(messages, i, rest)

LEMMA OpenOrClosedCounts ==
  ASSUME NEW s \in Seq(Messages), NEW rest \in Seq(Calls), OpenOrClosed(s, rest),
         rest # <<>> => SomeOpen(s, rest), NEW i \in DOMAIN s, s[i].role = "assistant"
  PROVE  IF rest # <<>> /\ i + Cardinality(AnsweredAt(s, i)) = Len(s)
         THEN SubSeq(s[i].calls, Cardinality(AnsweredAt(s, i)) + 1, Len(s[i].calls)) = rest
         ELSE AllAnswered(s, i)
<1>1. /\ Len(s) \in Nat /\ i \in 1..Len(s)
      /\ Len(s[i].calls) \in Nat /\ s[i].calls \in Seq(Calls)
  BY CallsOfMessage, DomainOfSeq
<1>2. Len(rest) \in Nat /\ (rest = <<>> <=> Len(rest) = 0)
  BY EmptySeq
<1>3. CASE OpenAt(s, i, rest)
  <2> DEFINE n == Len(s) - i
             calls == s[i].calls
             c == Len(calls)
  <2>1. /\ n \in Nat /\ i + n = Len(s)
        /\ AnsweredUpTo(s, i, n) /\ Len(rest) = c - n
        /\ \A k \in 1..Len(rest) : rest[k] = calls[n + k]
    <3>1. n \in Nat /\ i + n = Len(s)
      BY Zenon, <1>1, Remaining
    <3> QED
      BY Zenon, <1>3, <3>1 DEF OpenAt
  <2>2. Cardinality(AnsweredAt(s, i)) = n
    BY <1>1, <2>1, AnsweredCount
  <2>3. c = Len(calls) /\ c \in Nat /\ calls \in Seq(Calls) /\ \A k \in 1..c : calls[k] \in Calls
    BY <1>1, DomainOfSeq
  <2> HIDE DEF n, calls, c
  <2>4. CASE rest = <<>>
    BY <1>2, <2>1, <2>2, <2>3, <2>4 DEF AllAnswered, calls
  <2>5. CASE rest # <<>>
    <3>1. n + 1 \in Int /\ c \in Int /\ n + 1 <= c /\ \A k \in n + 1..c : calls[k] \in Calls
      BY <1>2, <2>1, <2>3, <2>5
    <3>2. /\ SubSeq(calls, n + 1, c) \in Seq(Calls)
          /\ Len(SubSeq(calls, n + 1, c)) = c - (n + 1) + 1
          /\ \A k \in 1..c - (n + 1) + 1 : SubSeq(calls, n + 1, c)[k] = calls[n + 1 + k - 1]
      BY <3>1, SubSeqProperties
    <3>3. Len(SubSeq(calls, n + 1, c)) = Len(rest)
      BY <2>1, <2>3, <3>2
    <3>4. ASSUME NEW k \in 1..Len(rest) PROVE SubSeq(calls, n + 1, c)[k] = rest[k]
      <4>1. k \in 1..c - (n + 1) + 1 /\ n + 1 + k - 1 = n + k
        BY Z3, <2>1, <2>3
      <4> QED
        BY <2>1, <3>2, <4>1
    <3>5. SubSeq(calls, n + 1, c) = rest
      BY <3>2, <3>3, <3>4, SeqEqual
    <3> QED
      BY <2>1, <2>2, <2>5, <3>5 DEF calls, c
  <2> QED
    BY <2>4, <2>5
<1>4. CASE AnsweredUpTo(s, i, Len(s[i].calls)) /\ ~OpenAt(s, i, rest)
  <2>1. Cardinality(AnsweredAt(s, i)) = Len(s[i].calls)
    BY <1>1, <1>4, AnsweredCount
  <2>2. ASSUME rest # <<>>, i + Len(s[i].calls) = Len(s) PROVE FALSE
    <3>1. PICK j \in 1..Len(s) : s[j].role = "assistant" /\ OpenAt(s, j, rest)
      BY <2>2, DomainOfSeq DEF SomeOpen
    <3>2. CASE j > i
      <4> DEFINE l == Len(s)
                 c == Len(s[i].calls)
      <4>0. l \in Nat /\ i \in 1..l /\ c \in Nat /\ i + c = l /\ j \in 1..l /\ j > i
        BY Zenon, <1>1, <2>2, <3>1, <3>2
      <4> HIDE DEF l, c
      <4>1. j - i \in 1..c /\ i + (j - i) = j
        BY <4>0
      <4>2. s[i + (j - i)].role = "tool"
        BY <1>4, <4>1 DEF AnsweredUpTo, c
      <4> QED
        BY <3>1, <4>1, <4>2
    <3>3. CASE j < i
      <4>1. i - j \in 1..(Len(s) - j) /\ j + (i - j) = i
        BY <1>1, <3>3
      <4>2. s[j + (i - j)].role = "tool"
        BY <3>1, <4>1 DEF OpenAt, AnsweredUpTo
      <4> QED
        BY <4>1, <4>2
    <3> QED
      BY <1>1, <1>4, <3>1, <3>2, <3>3
  <2> QED
    BY <2>1, <2>2 DEF AllAnswered
<1> QED
  BY <1>3, <1>4 DEF OpenOrClosed

-----------------------------------------------------------------------------
(* What is lost of a conversation is lost for good, and nothing else.         *)

Before(gone, i) == {j \in gone : j < i}

LEMMA PartOfInterval ==
  ASSUME NEW n \in Nat, NEW gone \in SUBSET (1..n)
  PROVE  IsFiniteSet(gone) /\ Cardinality(gone) \in 0..n
<1>1. IsFiniteSet(1..n) /\ Cardinality(1..n) = n
  BY FS_Interval
<1>2. IsFiniteSet(gone) /\ Cardinality(gone) <= n
  BY <1>1, FS_Subset
<1>3. Cardinality(gone) \in Nat
  BY <1>2, FS_CardinalityType
<1> QED
  BY <1>2, <1>3

\* Where a member of t that is not gone is found in s.
LEMMA PlaceInRange ==
  ASSUME NEW n \in Nat, NEW gone \in SUBSET (1..n), NEW i \in 1..n, i \notin gone
  PROVE  /\ IsFiniteSet(gone) /\ Cardinality(gone) \in 0..n
         /\ i - Cardinality(Before(gone, i)) \in 1..(n - Cardinality(gone))
<1>0. \A j \in gone : j \in 1..n
  OBVIOUS
<1>1. IsFiniteSet(gone) /\ Cardinality(gone) \in Nat /\ Cardinality(gone) <= n
  BY PartOfInterval
<1> DEFINE after == {j \in gone : j > i}
           b == Cardinality(Before(gone, i))
           a == Cardinality(after)
<1>2. IsFiniteSet(Before(gone, i)) /\ b \in Nat /\ b <= i - 1
  <2>1. IsFiniteSet(1..(i - 1)) /\ Cardinality(1..(i - 1)) = i - 1
    BY FS_Interval
  <2>2. Before(gone, i) \subseteq 1..(i - 1)
    <3> SUFFICES ASSUME NEW j \in gone, j < i PROVE j \in 1..(i - 1)
      BY DEF Before
    <3> QED
      BY <1>0
  <2> QED
    BY <2>1, <2>2, FS_Subset, FS_CardinalityType
<1>3. IsFiniteSet(after) /\ a \in Nat /\ a <= n - i
  <2>1. IsFiniteSet((i + 1)..n) /\ Cardinality((i + 1)..n) = n - i
    <3>1. Cardinality((i + 1)..n) = IF i + 1 > n THEN 0 ELSE n - (i + 1) + 1
      BY FS_Interval
    <3> QED
      BY <3>1, FS_Interval
  <2>2. after \subseteq (i + 1)..n
    <3> SUFFICES ASSUME NEW j \in gone, j > i PROVE j \in (i + 1)..n
      OBVIOUS
    <3> QED
      BY <1>0
  <2> QED
    BY <2>1, <2>2, FS_Subset, FS_CardinalityType
<1>4. Cardinality(gone) = b + a
  <2>1. gone = Before(gone, i) \cup after /\ Before(gone, i) \cap after = {}
    <3>1. \A j \in gone : (j < i \/ j > i) /\ ~(j < i /\ j > i)
      BY <1>0
    <3> QED
      BY Zenon, <3>1 DEF Before
  <2>2. Cardinality(Before(gone, i) \cup after) = b + a - Cardinality({})
    BY <1>2, <1>3, <2>1, FS_Union
  <2> QED
    BY <1>2, <1>3, <2>1, <2>2, FS_EmptySet
<1> HIDE DEF a, b
<1>5. i - b \in 1..(n - Cardinality(gone))
  BY <1>1, <1>2, <1>3, <1>4
<1> QED
  BY <1>1, <1>5 DEF b

\* All that can be gone is what the shorter one lacks, and copies of what it has.
Without(s, t, gone) ==
  /\ Len(s) = Len(t) - Cardinality(gone)
  /\ \A i \in DOMAIN t \ gone : t[i] = s[i - Cardinality({j \in gone : j < i})]

LEMMA SubsequenceByLoss ==
  ASSUME NEW S, NEW s \in Seq(S), NEW t \in Seq(S)
  PROVE  Subsequence(s, t) <=> \E gone \in SUBSET DOMAIN t : Without(s, t, gone)
<1> DEFINE absent == {i \in DOMAIN t : t[i] \notin Range(s)}
<1>1. ASSUME NEW more \in SUBSET (DOMAIN t \ absent), Without(s, t, absent \cup more)
      PROVE  \E gone \in SUBSET DOMAIN t : Without(s, t, gone)
  <2>1. absent \cup more \in SUBSET DOMAIN t
    OBVIOUS
  <2> QED
    BY Zenon, <1>1, <2>1
<1>2. ASSUME NEW gone \in SUBSET DOMAIN t, Without(s, t, gone)
      PROVE  \E more \in SUBSET (DOMAIN t \ absent) : Without(s, t, absent \cup more)
  <2>1. Len(t) \in Nat /\ DOMAIN t = 1..Len(t) /\ DOMAIN s = 1..Len(s)
    OBVIOUS
  <2>2. ASSUME NEW i \in DOMAIN t \ gone PROVE t[i] \in Range(s)
    <3>1. i - Cardinality(Before(gone, i)) \in 1..(Len(t) - Cardinality(gone))
      BY <2>1, PlaceInRange
    <3>2. i - Cardinality(Before(gone, i)) \in DOMAIN s
      BY Zenon, <1>2, <2>1, <3>1 DEF Without
    <3>3. t[i] = s[i - Cardinality(Before(gone, i))]
      BY Zenon, <1>2 DEF Without, Before
    <3> QED
      BY Zenon, <3>2, <3>3 DEF Range
  <2>3. absent \subseteq gone
    BY Zenon, <2>2
  <2> DEFINE more == gone \ absent
  <2>4. more \in SUBSET (DOMAIN t \ absent) /\ absent \cup more = gone
    BY <2>3
  <2>5. Without(s, t, absent \cup more)
    BY Zenon, <1>2, <2>4
  <2> QED
    BY Zenon, <2>4, <2>5
<1> QED
  BY Zenon, <1>1, <1>2 DEF Subsequence, Without

LEMMA SubsequenceSelf ==
  ASSUME NEW S, NEW s \in Seq(S)
  PROVE  Subsequence(s, s)
<1>1. Len(s) \in Nat /\ DOMAIN s = 1..Len(s)
  OBVIOUS
<1>2. Cardinality({}) = 0 /\ \A i : {j \in {} : j < i} = {}
  BY FS_EmptySet
<1>3. {} \in SUBSET DOMAIN s
  OBVIOUS
<1>4. Len(s) = Len(s) - Cardinality({})
  BY <1>1, <1>2
<1>5. ASSUME NEW i \in DOMAIN s \ {}
      PROVE  s[i] = s[i - Cardinality({j \in {} : j < i})]
  <2>1. i \in Int /\ i - 0 = i
    BY <1>1
  <2> QED
    BY <1>2, <2>1
<1> QED
  BY Zenon, <1>3, <1>4, <1>5, SubsequenceByLoss DEF Without

\* A message that both get.
LEMMA SubsequenceAppend ==
  ASSUME NEW S, NEW s \in Seq(S), NEW t \in Seq(S), NEW m \in S, Subsequence(s, t)
  PROVE  Subsequence(Append(s, m), Append(t, m))
<1> DEFINE n == Len(t)
           ss == Append(s, m)
           tt == Append(t, m)
<1>0. ss \in Seq(S) /\ tt \in Seq(S)
  OBVIOUS
<1>1. /\ n \in Nat /\ DOMAIN t = 1..n /\ DOMAIN tt = 1..(n + 1) /\ Len(tt) = n + 1
      /\ \A k \in 1..n : tt[k] = t[k]
      /\ tt[n + 1] = m /\ Len(ss) = Len(s) + 1 /\ ss[Len(s) + 1] = m /\ Len(s) \in Nat
      /\ \A k \in 1..Len(s) : ss[k] = s[k]
  BY AppendProperties
<1>2. PICK gone \in SUBSET (1..n) :
        /\ Len(s) = n - Cardinality(gone)
        /\ \A i \in (1..n) \ gone : t[i] = s[i - Cardinality({j \in gone : j < i})]
  <2>1. PICK gone \in SUBSET DOMAIN t : Without(s, t, gone)
    BY Zenon, SubsequenceByLoss
  <2>2. Len(t) = n /\ DOMAIN t = 1..n
    BY Zenon, <1>1
  <2> HIDE DEF n
  <2> QED
    BY Zenon, <2>1, <2>2 DEF Without
<1> HIDE DEF n, ss, tt
<1>3. IsFiniteSet(gone) /\ Cardinality(gone) \in 0..n
  BY Zenon, <1>1, PartOfInterval
<1>4. gone \in SUBSET DOMAIN tt /\ Len(ss) = Len(tt) - Cardinality(gone)
  BY <1>1, <1>2, <1>3
<1>5. ASSUME NEW i \in DOMAIN tt \ gone
      PROVE  tt[i] = ss[i - Cardinality({j \in gone : j < i})]
  <2>1. CASE i = n + 1
    <3>1. {j \in gone : j < i} = gone
      <4>1. \A j \in gone : j < i
        BY <1>1, <2>1
      <4> QED
        BY Zenon, <4>1
    <3>2. i - Cardinality(gone) = Len(s) + 1
      BY <1>1, <1>2, <1>3, <2>1
    <3> QED
      BY <1>1, <2>1, <3>1, <3>2
  <2>2. CASE i \in (1..n) \ gone
    <3>1. Before(gone, i) = {j \in gone : j < i}
      BY DEF Before
    <3>2. i - Cardinality(Before(gone, i)) \in 1..(n - Cardinality(gone))
      BY <1>1, <2>2, PlaceInRange
    <3>3. i - Cardinality({j \in gone : j < i}) \in 1..Len(s)
      BY <1>2, <3>1, <3>2
    <3> QED
      BY <1>1, <1>2, <2>2, <3>3
  <2> QED
    BY <1>1, <2>1, <2>2
<1>6. Subsequence(ss, tt)
  BY Zenon, <1>0, <1>4, <1>5, SubsequenceByLoss DEF Without
<1> QED
  BY <1>6 DEF ss, tt

\* Messages that only the longer one gets.
LEMMA SubsequenceExtend ==
  ASSUME NEW S, NEW s \in Seq(S), NEW t \in Seq(S), NEW u \in Seq(S), Subsequence(s, t)
  PROVE  Subsequence(s, t \o u)
<1> DEFINE n == Len(t)
           d == Len(u)
           tt == t \o u
<1>0. tt \in Seq(S)
  OBVIOUS
<1>1. /\ n \in Nat /\ d \in Nat /\ DOMAIN t = 1..n /\ DOMAIN tt = 1..(n + d) /\ Len(tt) = n + d
      /\ \A k \in 1..n : tt[k] = t[k]
      /\ Len(s) \in Nat
  BY ConcatProperties
<1>2. PICK gone \in SUBSET (1..n) :
        /\ Len(s) = n - Cardinality(gone)
        /\ \A i \in (1..n) \ gone : t[i] = s[i - Cardinality({j \in gone : j < i})]
  <2>1. PICK gone \in SUBSET DOMAIN t : Without(s, t, gone)
    BY Zenon, SubsequenceByLoss
  <2>2. Len(t) = n /\ DOMAIN t = 1..n
    BY Zenon, <1>1
  <2> HIDE DEF n
  <2> QED
    BY Zenon, <2>1, <2>2 DEF Without
<1> HIDE DEF n, d, tt
<1>3. IsFiniteSet(gone) /\ Cardinality(gone) \in 0..n
  BY Zenon, <1>1, PartOfInterval
<1> DEFINE more == gone \cup (n + 1)..(n + d)
<1>4. Cardinality(more) = Cardinality(gone) + d
  <2>1. IsFiniteSet((n + 1)..(n + d)) /\ Cardinality((n + 1)..(n + d)) = d
    <3>1. /\ IsFiniteSet((n + 1)..(n + d))
          /\ Cardinality((n + 1)..(n + d)) = IF n + 1 > n + d THEN 0 ELSE (n + d) - (n + 1) + 1
      BY <1>1, FS_Interval
    <3> QED
      BY <1>1, <3>1
  <2>2. gone \cap (n + 1)..(n + d) = {}
    BY <1>1
  <2>3. Cardinality(more) = Cardinality(gone) + d - Cardinality({})
    BY <1>3, <2>1, <2>2, FS_Union
  <2> QED
    BY <1>1, <1>3, <2>3, FS_EmptySet
<1>5. more \in SUBSET DOMAIN tt /\ Len(s) = Len(tt) - Cardinality(more)
  BY <1>1, <1>2, <1>3, <1>4
<1>6. ASSUME NEW i \in DOMAIN tt \ more
      PROVE  tt[i] = s[i - Cardinality({j \in more : j < i})]
  <2>1. i \in (1..n) \ gone
    BY <1>1
  <2>2. {j \in more : j < i} = {j \in gone : j < i}
    BY <1>1, <2>1
  <2> QED
    BY <1>1, <1>2, <2>1, <2>2
<1> HIDE DEF more
<1>7. Subsequence(s, tt)
  BY Zenon, <1>0, <1>5, <1>6, SubsequenceByLoss DEF Without
<1> QED
  BY <1>7 DEF tt

-----------------------------------------------------------------------------
(* The types, and what the phases of a turn leave of its variables.           *)

Phases == {"idle", "request", "model", "calls", "approval", "execute", "saving"}
Calling == {"calls", "approval", "execute"}

TypeInv ==
  /\ frontend \in {"none", "web", "tui", "cli"}
  /\ pc \in Phases
  /\ conversation \in Seq(Messages) /\ produced \in Seq(Messages)
  /\ memory \in Seq(Messages) /\ transcript \in Seq(Messages) /\ saving \in Seq(Messages)
  /\ todo \in Seq(Calls)
  /\ iteration \in Nat /\ asked \in Nat
  /\ failures \in [Tools -> Nat]
  /\ ran \in SUBSET Calls /\ IsFiniteSet(ran)
  /\ sent.window \in Seq(Messages)

PhaseInv ==
  /\ pc \in Calling <=> todo # <<>>
  /\ pc = "idle" => produced = <<>> /\ conversation = <<>> /\ ran = {}
  /\ pc # "saving" => saving = <<>>
  /\ frontend = "none" => pc = "idle"

Shape == TypeInv /\ PhaseInv

LEMMA UserMessages ==
  ASSUME NEW cost \in PromptCosts
  PROVE  UserMessage(cost) \in Messages /\ UserMessage(cost).role = "user"
BY EmptySeq DEF UserMessage, Message, Messages, Costs

LEMMA Selections == Selection \in Seq(Messages) /\ Whole(Selection)
<1>1. Message("system", <<>>, <<>>, SelectionCost) \in Messages
  BY EmptySeq DEF Message, Messages, Costs
<1>2. Selection \in Seq(Messages)
  BY <1>1 DEF Selection
<1>3. \A i \in DOMAIN Selection : Selection[i].role = "system"
  BY DEF Selection, Message
<1> QED
  BY <1>2, <1>3 DEF Whole

LEMMA AnswerMessages ==
  ASSUME NEW call \in Calls, NEW failed \in BOOLEAN, NEW cost \in Costs
  PROVE  LET m == Answer(call, failed, cost)
         IN /\ m \in Messages /\ m.role = "tool"
            /\ m.answers[1] = [id |-> call.id, failed |-> failed]
            /\ m.answers[1].id = call.id
<1>1. [id |-> call.id, failed |-> failed] \in Verdicts
  BY DEF Calls, Verdicts
<1>2. <<[id |-> call.id, failed |-> failed]>> \in Seq(Verdicts)
  BY <1>1
<1> QED
  BY <1>2, EmptySeq DEF Answer, Message, Messages

LEMMA AssistantMessages ==
  ASSUME NEW calls \in Seq(Calls)
  PROVE  /\ Assistant(calls) \in Messages /\ Assistant(calls).role = "assistant"
         /\ Assistant(calls).calls = calls
BY EmptySeq DEF Assistant, Message, Messages, Costs

LEMMA CallsOfReply ==
  ASSUME NEW reply \in Replies, asked \in Nat, iteration \in Nat
  PROVE  /\ CallsOf(reply) \in Seq(Calls)
         /\ CallsOf(reply) = <<>> <=> reply = <<>>
         /\ \A k \in 1..Len(CallsOf(reply)) : CallsOf(reply)[k].id = <<asked, iteration, k>>
<1>1. reply \in Seq(Range(reply)) /\ Range(reply) \subseteq Tools
  BY TurnAssumption DEF Tools
<1>2. PICK n \in Nat : reply \in [1..n -> Range(reply)]
  BY <1>1, SeqDef
<1>3. DOMAIN reply = 1..n /\ \A k \in 1..n : reply[k] \in Tools
  BY <1>1, <1>2
<1>4. CallsOf(reply) = [k \in 1..n |-> [id |-> <<asked, iteration, k>>, tool |-> reply[k]]]
  BY <1>3 DEF CallsOf
<1>5. \A k \in 1..n : [id |-> <<asked, iteration, k>>, tool |-> reply[k]] \in Calls
  BY <1>3 DEF Calls
<1>6. CallsOf(reply) \in Seq(Calls) /\ Len(CallsOf(reply)) = n /\ Len(reply) = n
  BY <1>2, <1>4, <1>5
<1>7. CallsOf(reply) = <<>> <=> reply = <<>>
  BY <1>1, <1>6, EmptySeq
<1> QED
  BY <1>4, <1>6, <1>7

\* What GiveBack does, whatever becomes of the call.
LEMMA GivenBack ==
  ASSUME Shape, todo # <<>>, NEW failed \in BOOLEAN, NEW counted \in BOOLEAN, NEW cost \in Costs,
         GiveBack(failed, counted, cost)
  PROVE  /\ Head(todo) \in Calls /\ Answer(Head(todo), failed, cost) \in Messages
         /\ conversation' = Append(conversation, Answer(Head(todo), failed, cost))
         /\ produced' = Append(produced, Answer(Head(todo), failed, cost))
         /\ conversation' \in Seq(Messages) /\ produced' \in Seq(Messages)
         /\ todo' = Tail(todo) /\ todo' \in Seq(Calls)
         /\ failures' \in [Tools -> Nat]
         /\ pc' = IF todo' = <<>> THEN "request" ELSE "calls"
         /\ iteration' = IF todo' = <<>> THEN iteration + 1 ELSE iteration
         /\ iteration' \in Nat
<1>1. todo \in Seq(Calls) /\ conversation \in Seq(Messages) /\ produced \in Seq(Messages)
  BY DEF Shape, TypeInv
<1>2. /\ Head(todo) \in Calls /\ Tail(todo) \in Seq(Calls)
      /\ Tail(todo) = <<>> <=> Len(todo) = 1
  BY Zenon, <1>1, FirstAndRest
<1>3. Answer(Head(todo), failed, cost) \in Messages
  BY <1>2, AnswerMessages
<1>4. /\ conversation' = Append(conversation, Answer(Head(todo), failed, cost))
      /\ produced' = Append(produced, Answer(Head(todo), failed, cost))
      /\ todo' = Tail(todo)
      /\ pc' = IF Len(todo) = 1 THEN "request" ELSE "calls"
      /\ iteration' = IF Len(todo) = 1 THEN iteration + 1 ELSE iteration
  BY Zenon DEF GiveBack
<1>5. conversation' \in Seq(Messages) /\ produced' \in Seq(Messages)
  BY <1>1, <1>3, <1>4, AppendProperties
<1>6. Len(todo) = 1 <=> todo' = <<>>
  BY <1>2, <1>4
<1>7. failures' \in [Tools -> Nat]
  <2>1. failures \in [Tools -> Nat] /\ Head(todo).tool \in Tools
    BY <1>2 DEF Shape, TypeInv, Calls
  <2>2. failures' = IF counted THEN [failures EXCEPT ![Head(todo).tool] = @ + 1] ELSE failures
    BY Zenon DEF GiveBack
  <2> QED
    BY <2>1, <2>2
<1>8. iteration' \in Nat
  BY <1>4 DEF Shape, TypeInv
<1> QED
  BY <1>2, <1>3, <1>4, <1>5, <1>6, <1>7, <1>8

\* The steps by their effect: a call that ends one way or another, ...
CallEnds(failed, counted, cost) ==
  /\ todo # <<>> /\ pc \in Calling
  /\ GiveBack(failed, counted, cost)
  /\ ran' = ran \/ (ran' = ran \cup {Head(todo)} /\ counted = failed)
  /\ counted => pc \in {"approval", "execute"} \/ ~RetryExhausted
  /\ UNCHANGED <<frontend, transcript, memory, saving, sent, asked>>

\* ... the loop that stops, ...
LoopStops(ok) ==
  /\ pc \in {"request", "model"}
  /\ UNCHANGED loop
  /\ Finish(ok)
  /\ UNCHANGED <<frontend, transcript, memory, sent, ran, asked>>

\* ... and what at most moves the call that is up.
CallMoves ==
  /\ \/ pc' = pc
     \/ /\ pc \in Calling /\ pc' \in {"approval", "execute"}
        /\ pc = "calls" => ~RetryExhausted
  /\ UNCHANGED <<frontend, transcript, memory, loop, saving, sent, ran, asked>>

OtherSteps ==
  \/ Request \/ EndTurn \/ Crash
  \/ \E reply \in Replies : Reply(reply)
  \/ \E appended \in BOOLEAN : Save(appended)
  \/ \E cost \in PromptCosts, appended \in BOOLEAN : Ask(cost, appended)
  \/ \E f \in Frontends : Open(f)

LEMMA StepCases ==
  ASSUME Shape, Next
  PROVE  \/ \E failed, counted \in BOOLEAN, cost \in Costs : CallEnds(failed, counted, cost)
         \/ \E ok \in BOOLEAN : LoopStops(ok)
         \/ CallMoves
         \/ OtherSteps
<1>1. ReplyCost \in Costs /\ \A result \in Results : result.cost \in Costs
  BY DEF Costs
<1>2. pc \in Calling => todo # <<>>
  BY DEF Shape, PhaseInv
<1>3. ASSUME NotAgain PROVE CallEnds(TRUE, FALSE, ReplyCost)
  BY Zenon, <1>2, <1>3 DEF NotAgain, CallEnds, Calling, bounds
<1>4. ASSUME Refuse PROVE CallEnds(TRUE, TRUE, ReplyCost)
  BY Zenon, <1>2, <1>4 DEF Refuse, CallEnds, Calling, bounds
<1>5. ASSUME Decline \/ ReleaseApproval PROVE CallEnds(TRUE, TRUE, ReplyCost)
  BY Zenon, <1>2, <1>5 DEF Decline, ReleaseApproval, CallEnds, Calling, bounds
<1>6. ASSUME NEW result \in Results, Execute(result)
      PROVE  CallEnds(result.failed, result.failed, result.cost)
  BY Zenon, <1>2, <1>6 DEF Execute, CallEnds, Calling, bounds
<1>7. ASSUME StopAtLimit PROVE LoopStops(TRUE)
  BY Zenon, <1>7 DEF StopAtLimit, LoopStops, loop, bounds
<1>8. ASSUME RequestFails PROVE LoopStops(FALSE)
  BY Zenon, <1>8 DEF RequestFails, LoopStops, loop, bounds
<1>9. ASSUME Permit \/ Approve \/ CancelTurn \/ SwitchMode PROVE CallMoves
  BY <1>9 DEF Permit, Approve, CancelTurn, SwitchMode, CallMoves, Calling, bounds, loop
<1>10. \A result \in Results : result.failed \in BOOLEAN
  BY TurnAssumption
<1>11. CASE Loop
  BY Zenon, <1>1, <1>3, <1>4, <1>5, <1>6, <1>7, <1>8, <1>9, <1>10, <1>11 DEF Loop, OtherSteps
<1>12. CASE User \/ Crash
  BY Zenon, <1>1, <1>5, <1>9, <1>12 DEF User, OtherSteps
<1> QED
  BY Zenon, <1>11, <1>12 DEF Next

LEMMA Built ==
  /\ <<>> \in Seq(Messages)
  /\ \A s \in Seq(Messages), m \in Messages : Append(s, m) \in Seq(Messages)
  /\ \A s, t \in Seq(Messages) : s \o t \in Seq(Messages)
BY EmptySeq, AppendProperties, ConcatProperties

LEMMA ForgetShape ==
  ASSUME Forget
  PROVE  /\ pc' = "idle" /\ conversation' = <<>> /\ produced' = <<>> /\ saving' = <<>>
         /\ todo' = <<>> /\ iteration' = 0 /\ ran' = {} /\ IsFiniteSet(ran')
         /\ conversation' \in Seq(Messages) /\ produced' \in Seq(Messages)
         /\ saving' \in Seq(Messages) /\ todo' \in Seq(Calls)
         /\ failures' \in [Tools -> Nat] /\ failures' = [t \in Tools |-> 0]
         /\ sent' = NoPrompt /\ sent'.window \in Seq(Messages)
         /\ ~sent'.bounded
BY EmptySeq, FS_EmptySet DEF Forget, NoPrompt

LEMMA HistoryShape ==
  ASSUME Shape, frontend # "none", NEW cost \in PromptCosts
  PROVE  History(UserMessage(cost)) \in Seq(Messages)
<1> DEFINE user == UserMessage(cost)
           cut == Max({Len(transcript) - HistoryWindow, 0})
<1>1. user \in Messages
  BY UserMessages
<1>2. /\ frontend \in {"web", "tui", "cli"}
      /\ memory \in Seq(Messages) /\ transcript \in Seq(Messages)
  BY DEF Shape, TypeInv
<1>3. cut \in 0..Len(transcript)
  BY <1>2, TurnAssumption, NewestInRange, DomainOfSeq
<1>4. From(transcript, cut) \in Seq(Messages)
  BY <1>2, <1>3, FromElements
<1>5. Append(From(transcript, cut), user) \in Seq(Messages) /\ <<user>> \in Seq(Messages)
  BY <1>1, <1>4
<1>6. Append(memory \o Selection, user) \in Seq(Messages)
  BY <1>1, <1>2, Selections
<1> HIDE DEF user, cut
<1> QED
  BY Zenon, <1>2, <1>5, <1>6 DEF History, user, cut

LEMMA ShapeInit == Init => Shape
BY EmptySeq, FS_EmptySet
DEF Init, Shape, TypeInv, PhaseInv, Phases, Calling, NoPrompt

LEMMA ShapeStep ==
  ASSUME Shape, [Next]_vars
  PROVE  Shape'
<1> USE DEF Shape, TypeInv, PhaseInv
<1>1. ASSUME NEW failed \in BOOLEAN, NEW counted \in BOOLEAN, NEW cost \in Costs,
             CallEnds(failed, counted, cost)
      PROVE  Shape'
  <2>1. /\ todo # <<>> /\ pc \in Calling /\ GiveBack(failed, counted, cost)
        /\ ran' = ran \/ ran' = ran \cup {Head(todo)}
        /\ UNCHANGED <<frontend, transcript, memory, saving, sent, asked>>
    BY <1>1 DEF CallEnds
  <2>2. /\ Head(todo) \in Calls
        /\ conversation' \in Seq(Messages) /\ produced' \in Seq(Messages)
        /\ todo' \in Seq(Calls) /\ failures' \in [Tools -> Nat]
        /\ pc' = IF todo' = <<>> THEN "request" ELSE "calls"
        /\ iteration' \in Nat
    BY Zenon, <2>1, GivenBack
  <2>3. ran' \in SUBSET Calls /\ IsFiniteSet(ran')
    <3>1. IsFiniteSet(ran) /\ ran \in SUBSET Calls
      OBVIOUS
    <3>2. IsFiniteSet(ran \cup {Head(todo)}) /\ ran \cup {Head(todo)} \in SUBSET Calls
      BY Zenon, <2>2, <3>1, FS_AddElement
    <3> QED
      BY Zenon, <2>1, <3>1, <3>2
  <2> QED
    BY <2>1, <2>2, <2>3 DEF Phases, Calling
<1>2. ASSUME NEW ok \in BOOLEAN, LoopStops(ok) PROVE Shape'
  <2>1. saving' \in Seq(Messages) /\ pc' = "saving"
    BY <1>2, EmptySeq DEF LoopStops, Finish, loop
  <2> QED
    BY <1>2, <2>1 DEF LoopStops, loop, Phases, Calling
<1>3. ASSUME CallMoves PROVE Shape'
  BY <1>3 DEF CallMoves, loop, Phases, Calling
<1>4. ASSUME Request PROVE Shape'
  <2> DEFINE input == [system |-> SystemCost, memory |-> 0, files |-> <<>>,
                       results |-> <<>>, history |-> conversation]
             built == Build(input, Opts)
  <2>1. /\ pc = "request" /\ pc' = "model"
        /\ sent' = IF built.ok THEN [window |-> built.window, bounded |-> TRUE]
                   ELSE [window |-> conversation, bounded |-> FALSE]
        /\ UNCHANGED <<frontend, transcript, memory, loop, saving, ran, asked>>
    BY Zenon, <1>4 DEF Request, bounds
  <2>2. input.history = conversation /\ conversation \in Seq(Messages)
    OBVIOUS
  <2>3. ASSUME built.ok PROVE built.window \in Seq(Messages)
    <3>1. PICK older \in 0..Len(conversation) :
            built.window = From(conversation, PairedCut(conversation, older))
      BY <2>2, <2>3, BuiltWindow, TurnAssumption
    <3> DEFINE cut == PairedCut(conversation, older)
    <3>2. cut \in 0..Len(conversation)
      BY Zenon, <2>2, PairedCutIsPaired
    <3> HIDE DEF cut
    <3>3. From(conversation, cut) \in Seq(Messages)
      BY Zenon, <2>2, <3>2, FromElements
    <3> QED
      BY Zenon, <3>1, <3>3 DEF cut
  <2> HIDE DEF built
  <2>4. sent'.window \in Seq(Messages)
    BY <2>1, <2>2, <2>3
  <2> QED
    BY <2>1, <2>4 DEF loop, Phases, Calling
<1>5. ASSUME NEW reply \in Replies, Reply(reply) PROVE Shape'
  <2>1. CallsOf(reply) \in Seq(Calls) /\ (CallsOf(reply) = <<>> <=> reply = <<>>)
    BY CallsOfReply
  <2>2. Assistant(CallsOf(reply)) \in Messages
    BY <2>1, AssistantMessages
  <2>3. /\ pc = "model" /\ todo' = CallsOf(reply)
        /\ conversation' = Append(conversation, Assistant(CallsOf(reply)))
        /\ produced' = Append(produced, Assistant(CallsOf(reply)))
        /\ \/ reply = <<>> /\ pc' = "saving" /\ saving' \in {produced', <<>>}
           \/ reply # <<>> /\ pc' = "calls" /\ saving' = saving
        /\ UNCHANGED <<frontend, transcript, memory, iteration, failures, sent, ran, asked>>
    BY Zenon, <1>5 DEF Reply, Finish, bounds
  <2>4. conversation' \in Seq(Messages) /\ produced' \in Seq(Messages)
    BY <2>2, <2>3
  <2>5. saving' \in Seq(Messages)
    BY <2>3, <2>4, EmptySeq
  <2> QED
    BY <2>1, <2>3, <2>4, <2>5 DEF Phases, Calling
<1>6. ASSUME NEW appended \in BOOLEAN, Save(appended) PROVE Shape'
  <2>1. /\ pc = "saving" /\ saving # <<>> /\ pc' = pc
        /\ transcript' = transcript \/ transcript' = Append(transcript, Head(saving))
        /\ saving' = <<>> \/ saving' = Tail(saving)
        /\ UNCHANGED <<frontend, memory, loop, sent, ran, asked>>
    BY <1>6 DEF Save, Stored, bounds
  <2>2. Head(saving) \in Messages /\ Tail(saving) \in Seq(Messages)
    BY <2>1, HeadTailProperties
  <2>3. transcript' \in Seq(Messages) /\ saving' \in Seq(Messages)
    BY Zenon, <2>1, <2>2, Built
  <2> QED
    BY <2>1, <2>3 DEF loop, Phases, Calling
<1>7. ASSUME EndTurn PROVE Shape'
  <2>1. /\ frontend' = frontend \/ frontend' = "none"
        /\ memory' = memory \/ memory' = memory \o produced
        /\ Forget /\ UNCHANGED <<transcript, asked>>
    BY <1>7 DEF EndTurn, bounds
  <2>2. memory' \in Seq(Messages)
    BY Zenon, <2>1, Built
  <2> QED
    BY <2>1, <2>2, ForgetShape DEF Phases, Calling
<1>8. ASSUME NEW cost \in PromptCosts, NEW appended \in BOOLEAN, Ask(cost, appended)
      PROVE  Shape'
  <2> DEFINE user == UserMessage(cost)
  <2>1. user \in Messages /\ History(user) \in Seq(Messages)
    BY <1>8, UserMessages, HistoryShape DEF Ask
  <2> HIDE DEF user
  <2>2. /\ frontend # "none" /\ pc = "idle" /\ asked' = asked + 1
        /\ transcript' = transcript \/ transcript' = Append(transcript, user)
        /\ memory' = memory \/ memory' = Append(memory, user)
        /\ \/ UNCHANGED <<pc, loop>>
           \/ /\ pc' = "request" /\ conversation' = History(user) /\ produced' = <<>>
              /\ iteration' = 1 /\ todo' = <<>> /\ failures' = [t \in Tools |-> 0]
        /\ UNCHANGED <<frontend, saving, sent, ran>>
    BY <1>8 DEF Ask, Stored, user
  <2>3. transcript' \in Seq(Messages) /\ memory' \in Seq(Messages) /\ asked' \in Nat
    <3>1. asked' \in Nat
      BY <2>2
    <3> QED
      BY ZenonT(60), <2>1, <2>2, <3>1, Built
  <2>4. CASE UNCHANGED <<pc, loop>>
    BY <2>2, <2>3, <2>4 DEF loop, Phases, Calling
  <2>5. CASE ~UNCHANGED <<pc, loop>>
    <3>1. /\ pc' = "request" /\ conversation' = History(user) /\ produced' = <<>>
          /\ iteration' = 1 /\ todo' = <<>> /\ failures' = [t \in Tools |-> 0]
      BY Zenon, <2>2, <2>5
    <3>2. conversation' \in Seq(Messages) /\ produced' \in Seq(Messages) /\ todo' \in Seq(Calls)
      BY Zenon, <2>1, <3>1, EmptySeq
    <3>3. failures' \in [Tools -> Nat] /\ iteration' \in Nat
      BY <3>1
    <3> QED
      BY <2>2, <2>3, <3>1, <3>2, <3>3 DEF Phases, Calling
  <2> QED
    BY Zenon, <2>4, <2>5
<1>9. ASSUME NEW f \in Frontends, Open(f) PROVE Shape'
  <2>1. /\ frontend = "none" /\ frontend' = f /\ memory' \in {transcript, <<>>}
        /\ UNCHANGED <<transcript, pc, loop, saving, sent, ran, asked>>
    BY <1>9 DEF Open, bounds
  <2>2. f \in {"web", "tui", "cli"} /\ memory' \in Seq(Messages)
    BY <2>1, TurnAssumption, EmptySeq
  <2> QED
    BY <2>1, <2>2 DEF loop, Phases, Calling
<1>10. ASSUME Crash PROVE Shape'
  <2>1. frontend' = "none" /\ memory' = <<>> /\ Forget /\ UNCHANGED <<transcript, asked>>
    BY <1>10 DEF Crash
  <2> QED
    BY <2>1, ForgetShape, EmptySeq DEF Phases, Calling
<1>11. ASSUME UNCHANGED vars PROVE Shape'
  BY <1>11 DEF vars, loop, bounds
<1> QED
  BY Zenon, <1>1, <1>2, <1>3, <1>4, <1>5, <1>6, <1>7, <1>8, <1>9, <1>10, <1>11, StepCases
     DEF OtherSteps

-----------------------------------------------------------------------------
(* Every call is answered, and every result has its call.                     *)

AnswerInv ==
  /\ OpenOrClosed(produced, todo)
  /\ todo # <<>> => SomeOpen(produced, todo) /\ SomeOpen(conversation, todo)

PairInv ==
  /\ Whole(produced) /\ Whole(memory) /\ Whole(transcript \o saving)
  /\ Headless(conversation)
  /\ sent.bounded => Paired(sent.window)

LEMMA SomeOpenGiven ==
  ASSUME NEW s \in Seq(Messages), NEW rest \in Seq(Calls), rest # <<>>, SomeOpen(s, rest),
         NEW m \in Messages, m.role = "tool", m.answers[1].id = Head(rest).id
  PROVE  /\ Follows(Append(s, m), Len(s) + 1)
         /\ SomeOpen(Append(s, m), Tail(rest))
<1>1. PICK i \in 1..Len(s) : s[i].role = "assistant" /\ OpenAt(s, i, rest)
  BY DomainOfSeq DEF SomeOpen
<1>2. s[i].calls \in Seq(Calls)
  BY CallsOfMessage
<1>3. /\ OpenAt(Append(s, m), i, Tail(rest))
      /\ Follows(Append(s, m), Len(s) + 1)
  BY Zenon, <1>1, <1>2, AnswerOpen
<1>4. i \in DOMAIN Append(s, m) /\ Append(s, m)[i] = s[i]
  BY <1>1, AppendProperties
<1> QED
  BY <1>1, <1>3, <1>4 DEF SomeOpen

LEMMA OpenOrClosedGiven ==
  ASSUME NEW s \in Seq(Messages), NEW rest \in Seq(Calls), rest # <<>>, OpenOrClosed(s, rest),
         NEW m \in Messages, m.role = "tool", m.answers[1].id = Head(rest).id
  PROVE  OpenOrClosed(Append(s, m), Tail(rest))
<1>1. /\ Len(s) \in Nat /\ DOMAIN s = 1..Len(s) /\ DOMAIN Append(s, m) = 1..(Len(s) + 1)
      /\ \A k \in 1..Len(s) : Append(s, m)[k] = s[k]
      /\ Append(s, m)[Len(s) + 1] = m
  BY AppendProperties
<1> SUFFICES ASSUME NEW i \in 1..(Len(s) + 1), Append(s, m)[i].role = "assistant"
             PROVE  \/ AnsweredUpTo(Append(s, m), i, Len(Append(s, m)[i].calls))
                    \/ OpenAt(Append(s, m), i, Tail(rest))
  BY <1>1 DEF OpenOrClosed
<1>2. i # Len(s) + 1
  BY <1>1
<1>3. i \in 1..Len(s) /\ Append(s, m)[i] = s[i]
  BY <1>1, <1>2
<1>4. s[i].calls \in Seq(Calls) /\ Len(s[i].calls) \in Nat
  BY <1>3, CallsOfMessage
<1>5. AnsweredUpTo(s, i, Len(s[i].calls)) \/ OpenAt(s, i, rest)
  BY <1>1, <1>3 DEF OpenOrClosed
<1>6. CASE AnsweredUpTo(s, i, Len(s[i].calls))
  <2>1. AnsweredUpTo(Append(s, m), i, Len(s[i].calls))
    BY Zenon, <1>3, <1>4, <1>6, AnsweredAppend
  <2> QED
    BY <1>3, <2>1
<1>7. CASE OpenAt(s, i, rest)
  BY Zenon, <1>3, <1>4, <1>7, AnswerOpen
<1> QED
  BY <1>5, <1>6, <1>7

\* A message is open at the end of a conversation when all its calls are todo.
LEMMA ReplyOpens ==
  ASSUME NEW s \in Seq(Messages), NEW m \in Messages, m.role = "assistant"
  PROVE  /\ SomeOpen(Append(s, m), m.calls)
         /\ OpenOrClosed(s, <<>>) => OpenOrClosed(Append(s, m), m.calls)
<1> DEFINE l == Len(s)
           t == Append(s, m)
<1>1. /\ l \in Nat /\ DOMAIN s = 1..l /\ DOMAIN t = 1..(l + 1) /\ Len(t) = l + 1
      /\ \A k \in 1..l : t[k] = s[k]
      /\ t[l + 1] = m
  BY AppendProperties
<1>2. m.calls \in Seq(Calls) /\ Len(m.calls) \in Nat
  BY DEF Messages
<1>3. \A i \in 1..l : Len(s[i].calls) \in Nat
  BY CallsOfMessage
<1>4. Len(<<>>) = 0
  OBVIOUS
<1>5. ASSUME NEW i \in 1..l, AnsweredUpTo(s, i, Len(s[i].calls))
      PROVE  AnsweredUpTo(t, i, Len(t[i].calls))
  <2>1. AnsweredUpTo(t, i, Len(s[i].calls))
    BY Zenon, <1>3, <1>5, AnsweredAppend
  <2> QED
    BY <1>1, <2>1
<1> HIDE DEF l, t
<1>6. OpenAt(t, l + 1, m.calls)
  <2>1. Len(t) - (l + 1) = 0
    BY <1>1
  <2>2. AnsweredUpTo(t, l + 1, 0)
    BY <1>1, <1>2 DEF AnsweredUpTo
  <2>3. Len(m.calls) = Len(m.calls) - 0 /\ \A k \in 1..Len(m.calls) : 0 + k = k
    BY <1>2
  <2> QED
    BY <1>1, <2>1, <2>2, <2>3 DEF OpenAt
<1>7. SomeOpen(t, m.calls)
  <2>1. l + 1 \in DOMAIN t /\ t[l + 1].role = "assistant"
    BY <1>1
  <2> QED
    BY <1>6, <2>1 DEF SomeOpen
<1>8. ASSUME OpenOrClosed(s, <<>>), NEW i \in 1..(l + 1), t[i].role = "assistant"
      PROVE  AnsweredUpTo(t, i, Len(t[i].calls)) \/ OpenAt(t, i, m.calls)
  <2>1. CASE i = l + 1
    BY <1>6, <2>1
  <2>2. CASE i \in 1..l
    <3>1. AnsweredUpTo(s, i, Len(s[i].calls)) \/ OpenAt(s, i, <<>>)
      BY <1>1, <1>8, <2>2 DEF OpenOrClosed
    <3>2. ASSUME OpenAt(s, i, <<>>) PROVE AnsweredUpTo(s, i, Len(s[i].calls))
      <4> DEFINE c == Len(s[i].calls)
      <4>1. AnsweredUpTo(s, i, l - i) /\ 0 = c - (l - i)
        BY Zenon, <1>4, <3>2 DEF OpenAt, l
      <4>2. c \in Nat /\ l \in Nat
        BY Zenon, <1>1, <1>3, <2>2
      <4> HIDE DEF c
      <4>3. l - i = c
        BY <2>2, <4>1, <4>2
      <4> QED
        BY <4>1, <4>3 DEF c
    <3> QED
      BY <1>5, <2>2, <3>1, <3>2
  <2> QED
    BY <1>1, <2>1, <2>2
<1> QED
  BY <1>1, <1>7, <1>8 DEF OpenOrClosed, l, t

LEMMA OpenEmpty == \A rest : OpenOrClosed(<<>>, rest)
BY DEF OpenOrClosed

LEMMA AnswersInit == Init => AnswerInv /\ PairInv
<1>1. <<>> \o <<>> = <<>>
  OBVIOUS
<1> QED
  BY <1>1, OpenEmpty, WholeEmpty DEF Init, AnswerInv, PairInv, NoPrompt

\* What the store will have when the turn is saved, or would have if it were not.
LEMMA Saved ==
  ASSUME NEW t \in Seq(Messages), NEW s \in Seq(Messages), s # <<>>
  PROVE  Append(t, Head(s)) \o Tail(s) = t \o s
<1>1. /\ Head(s) \in Messages /\ Tail(s) \in Seq(Messages) /\ Head(s) = s[1]
      /\ Len(Tail(s)) \in Nat /\ Len(s) = Len(Tail(s)) + 1
      /\ \A k \in 1..Len(Tail(s)) : Tail(s)[k] = s[k + 1]
  BY Zenon, FirstAndRest
<1> DEFINE a == Append(t, Head(s))
           r == Tail(s)
<1>2. /\ a \in Seq(Messages) /\ Len(a) = Len(t) + 1 /\ Len(t) \in Nat /\ a[Len(t) + 1] = s[1]
      /\ \A k \in 1..Len(t) : a[k] = t[k]
  BY <1>1, AppendProperties
<1>3. r \in Seq(Messages) /\ Len(r) \in Nat /\ Len(s) = Len(r) + 1
      /\ \A k \in 1..Len(r) : r[k] = s[k + 1]
  BY <1>1
<1> HIDE DEF a, r
<1>4. /\ a \o r \in Seq(Messages) /\ Len(a \o r) = Len(a) + Len(r)
      /\ \A k \in 1..Len(a) + Len(r) : (a \o r)[k] = IF k <= Len(a) THEN a[k] ELSE r[k - Len(a)]
  BY Zenon, <1>2, <1>3, ConcatProperties
<1>5. /\ t \o s \in Seq(Messages) /\ Len(t \o s) = Len(t) + Len(s)
      /\ \A k \in 1..Len(t) + Len(s) : (t \o s)[k] = IF k <= Len(t) THEN t[k] ELSE s[k - Len(t)]
  BY Zenon, ConcatProperties
<1>6. Len(a \o r) = Len(t \o s)
  BY <1>2, <1>3, <1>4, <1>5
<1>7. ASSUME NEW k \in 1..Len(t \o s) PROVE (a \o r)[k] = (t \o s)[k]
  <2> DEFINE l == Len(t)
             d == Len(r)
  <2>1. /\ l \in Nat /\ d \in Nat /\ k \in 1..(l + d + 1) /\ Len(a) = l + 1
        /\ (a \o r)[k] = IF k <= l + 1 THEN a[k] ELSE r[k - (l + 1)]
        /\ (t \o s)[k] = IF k <= l THEN t[k] ELSE s[k - l]
        /\ a[l + 1] = s[1] /\ \A j \in 1..l : a[j] = t[j]
        /\ \A j \in 1..d : r[j] = s[j + 1]
    BY <1>2, <1>3, <1>4, <1>5
  <2> HIDE DEF l, d
  <2>2. CASE k \in 1..l
    BY <2>1, <2>2
  <2>3. CASE k = l + 1
    BY <2>1, <2>3
  <2>4. CASE k > l + 1
    <3>1. k - (l + 1) \in 1..d /\ (k - (l + 1)) + 1 = k - l
      BY <2>1, <2>4
    <3> QED
      BY <2>1, <2>4, <3>1
  <2> QED
    BY <2>1, <2>2, <2>3, <2>4
<1>8. a \o r = t \o s
  BY Zenon, <1>4, <1>5, <1>6, <1>7, SeqEqual
<1> QED
  BY <1>8 DEF a, r

LEMMA HistoryIsHeadless ==
  ASSUME Shape, PairInv, frontend # "none", saving = <<>>, NEW cost \in PromptCosts
  PROVE  Headless(History(UserMessage(cost)))
<1> DEFINE user == UserMessage(cost)
           cut == Max({Len(transcript) - HistoryWindow, 0})
<1>1. user \in Messages /\ user.role # "tool"
  BY UserMessages
<1>2. /\ frontend \in {"web", "tui", "cli"}
      /\ memory \in Seq(Messages) /\ transcript \in Seq(Messages)
  BY DEF Shape, TypeInv
<1>3. Whole(memory) /\ Whole(transcript)
  <2>1. Whole(transcript \o <<>>)
    BY DEF PairInv
  <2> QED
    BY Zenon, <1>2, <2>1, Built, WholePrefix DEF PairInv
<1>4. cut \in 0..Len(transcript)
  BY <1>2, TurnAssumption, NewestInRange, DomainOfSeq
<1> HIDE DEF user, cut
<1>5. Headless(Append(From(transcript, cut), user))
  <2>1. From(transcript, cut) \in Seq(Messages) /\ Headless(From(transcript, cut))
    BY Zenon, <1>2, <1>3, <1>4, FromElements, WholeFrom
  <2> QED
    BY Zenon, <1>1, <2>1, HeadlessAppend
<1>6. Headless(Append(memory \o Selection, user))
  <2>1. memory \o Selection \in Seq(Messages) /\ Whole(memory \o Selection)
    BY Zenon, <1>2, <1>3, Selections, WholeConcat, Built
  <2> QED
    BY Zenon, <1>1, <2>1, WholeHeadless, HeadlessAppend
<1>7. Headless(<<user>>)
  <2>1. DOMAIN <<user>> = {1} /\ <<user>>[1] = user
    OBVIOUS
  <2> QED
    BY <1>1, <2>1 DEF Headless
<1> QED
  BY Zenon, <1>2, <1>5, <1>6, <1>7 DEF History, user, cut

LEMMA AnswersStep ==
  ASSUME Shape, AnswerInv, PairInv, [Next]_vars
  PROVE  AnswerInv' /\ PairInv'
<1>0. /\ conversation \in Seq(Messages) /\ produced \in Seq(Messages)
      /\ memory \in Seq(Messages) /\ transcript \in Seq(Messages) /\ saving \in Seq(Messages)
      /\ todo \in Seq(Calls) /\ asked \in Nat /\ iteration \in Nat
  BY DEF Shape, TypeInv
<1>1. ASSUME NEW failed \in BOOLEAN, NEW counted \in BOOLEAN, NEW cost \in Costs,
             CallEnds(failed, counted, cost)
      PROVE  AnswerInv' /\ PairInv'
  <2> DEFINE m == Answer(Head(todo), failed, cost)
  <2>1. /\ todo # <<>> /\ GiveBack(failed, counted, cost)
        /\ UNCHANGED <<frontend, transcript, memory, saving, sent>>
    BY Zenon, <1>1 DEF CallEnds
  <2>2. /\ Head(todo) \in Calls /\ m \in Messages
        /\ conversation' = Append(conversation, m) /\ produced' = Append(produced, m)
        /\ todo' = Tail(todo)
    BY Zenon, <2>1, GivenBack
  <2>3. m.role = "tool" /\ m.answers[1].id = Head(todo).id
    BY Zenon, <2>2, AnswerMessages
  <2> HIDE DEF m
  <2>4. SomeOpen(produced, todo) /\ SomeOpen(conversation, todo) /\ OpenOrClosed(produced, todo)
    BY Zenon, <2>1 DEF AnswerInv
  <2>5. /\ Follows(Append(produced, m), Len(produced) + 1)
        /\ SomeOpen(Append(produced, m), Tail(todo))
    BY Zenon, <1>0, <2>1, <2>2, <2>3, <2>4, SomeOpenGiven
  <2>6. /\ Follows(Append(conversation, m), Len(conversation) + 1)
        /\ SomeOpen(Append(conversation, m), Tail(todo))
    BY Zenon, <1>0, <2>1, <2>2, <2>3, <2>4, SomeOpenGiven
  <2>7. OpenOrClosed(Append(produced, m), Tail(todo))
    BY Zenon, <1>0, <2>1, <2>2, <2>3, <2>4, OpenOrClosedGiven
  <2>8. AnswerInv'
    BY Zenon, <2>2, <2>5, <2>6, <2>7 DEF AnswerInv
  <2>9. Whole(Append(produced, m)) /\ Headless(Append(conversation, m))
    BY Zenon, <1>0, <2>2, <2>5, <2>6, WholeAppend, HeadlessAppend DEF PairInv
  <2> QED
    BY <2>1, <2>2, <2>8, <2>9 DEF PairInv
<1>2. ASSUME NEW ok \in BOOLEAN, LoopStops(ok) PROVE AnswerInv' /\ PairInv'
  <2>1. /\ pc \in {"request", "model"} /\ UNCHANGED loop
        /\ saving' = produced \/ saving' = <<>>
        /\ UNCHANGED <<transcript, memory, sent>>
    BY <1>2 DEF LoopStops, Finish, loop
  <2>2. saving = <<>>
    BY <2>1 DEF Shape, PhaseInv
  <2>3. Whole(transcript)
    BY Zenon, <1>0, <2>2, WholePrefix DEF PairInv
  <2>4. Whole(transcript \o produced) /\ Whole(transcript \o <<>>)
    BY Zenon, <1>0, <2>3, Built, WholeConcat, WholeEmpty DEF PairInv
  <2>5. Whole(transcript' \o saving')
    BY Zenon, <2>1, <2>4
  <2> QED
    BY <2>1, <2>5 DEF AnswerInv, PairInv, loop
<1>3. ASSUME CallMoves PROVE AnswerInv' /\ PairInv'
  BY <1>3 DEF CallMoves, AnswerInv, PairInv, loop
<1>4. ASSUME Request PROVE AnswerInv' /\ PairInv'
  <2> DEFINE input == [system |-> SystemCost, memory |-> 0, files |-> <<>>,
                       results |-> <<>>, history |-> conversation]
             built == Build(input, Opts)
  <2>1. /\ sent' = IF built.ok THEN [window |-> built.window, bounded |-> TRUE]
                   ELSE [window |-> conversation, bounded |-> FALSE]
        /\ UNCHANGED <<transcript, memory, loop, saving>>
    BY Zenon, <1>4 DEF Request, bounds
  <2>2. input.history = conversation /\ Headless(conversation)
    BY DEF PairInv
  <2>3. built.ok => Paired(built.window)
    BY <1>0, <2>2, WindowIsPaired, TurnAssumption
  <2> HIDE DEF built
  <2>4. sent'.bounded => Paired(sent'.window)
    BY <2>1, <2>3
  <2> QED
    BY <2>1, <2>4 DEF AnswerInv, PairInv, loop
<1>5. ASSUME NEW reply \in Replies, Reply(reply) PROVE AnswerInv' /\ PairInv'
  <2> DEFINE m == Assistant(CallsOf(reply))
  <2>1. /\ pc = "model" /\ todo' = CallsOf(reply)
        /\ conversation' = Append(conversation, m) /\ produced' = Append(produced, m)
        /\ saving' = produced' \/ saving' = <<>> \/ saving' = saving
        /\ UNCHANGED <<transcript, memory, sent>>
    BY Zenon, <1>5 DEF Reply, Finish, bounds
  <2>2. saving = <<>> /\ todo = <<>>
    BY <2>1 DEF Shape, PhaseInv, Calling
  <2>3. CallsOf(reply) \in Seq(Calls)
    BY Zenon, <1>0, CallsOfReply
  <2>4. m \in Messages /\ m.role = "assistant" /\ m.calls = CallsOf(reply)
    BY Zenon, <2>3, AssistantMessages
  <2> HIDE DEF m
  <2>5. OpenOrClosed(produced, <<>>)
    BY <2>2 DEF AnswerInv
  <2>6. /\ SomeOpen(Append(produced, m), m.calls) /\ SomeOpen(Append(conversation, m), m.calls)
        /\ OpenOrClosed(Append(produced, m), m.calls)
    BY Zenon, <1>0, <2>4, <2>5, ReplyOpens
  <2>7. AnswerInv'
    BY Zenon, <2>1, <2>4, <2>6 DEF AnswerInv
  <2>8. m.role # "tool"
    BY <2>4
  <2>9. Whole(Append(produced, m)) /\ Headless(Append(conversation, m))
    BY Zenon, <1>0, <2>4, <2>8, WholeAppend, HeadlessAppend DEF PairInv
  <2>10. Whole(transcript)
    BY Zenon, <1>0, <2>2, WholePrefix DEF PairInv
  <2>11. Append(produced, m) \in Seq(Messages)
    BY Zenon, <1>0, <2>4, Built
  <2>12. Whole(transcript \o Append(produced, m)) /\ Whole(transcript \o <<>>)
    BY Zenon, <1>0, <2>9, <2>10, <2>11, Built, WholeConcat, WholeEmpty
  <2>13. Whole(transcript' \o saving')
    BY Zenon, <2>1, <2>2, <2>12
  <2> QED
    BY Zenon, <2>1, <2>7, <2>9, <2>13 DEF PairInv
<1>6. ASSUME NEW appended \in BOOLEAN, Save(appended) PROVE AnswerInv' /\ PairInv'
  <2>1. /\ saving # <<>>
        /\ \/ transcript' = Append(transcript, Head(saving)) /\ saving' = Tail(saving)
           \/ transcript' = transcript /\ saving' = <<>>
        /\ UNCHANGED <<memory, loop, sent>>
    BY <1>6 DEF Save, Stored
  <2>2. Append(transcript, Head(saving)) \o Tail(saving) = transcript \o saving
    BY Zenon, <1>0, <2>1, Saved
  <2>3. Whole(transcript)
    BY Zenon, <1>0, WholePrefix DEF PairInv
  <2>4. Whole(transcript \o <<>>)
    BY Zenon, <1>0, <2>3, Built, WholeConcat, WholeEmpty
  <2>5. Whole(transcript' \o saving')
    BY Zenon, <2>1, <2>2, <2>4 DEF PairInv
  <2> QED
    BY <2>1, <2>5 DEF AnswerInv, PairInv, loop
<1>7. ASSUME Forget, UNCHANGED transcript, Whole(memory') PROVE AnswerInv' /\ PairInv'
  <2>1. Whole(transcript)
    BY Zenon, <1>0, WholePrefix DEF PairInv
  <2>2. Whole(transcript \o <<>>)
    BY Zenon, <1>0, <2>1, Built, WholeConcat, WholeEmpty
  <2>3. /\ conversation' = <<>> /\ produced' = <<>> /\ todo' = <<>> /\ saving' = <<>>
        /\ ~sent'.bounded
    BY Zenon, <1>7, ForgetShape
  <2> QED
    BY Zenon, <1>7, <2>2, <2>3, WholeEmpty, OpenEmpty DEF AnswerInv, PairInv
<1>8. ASSUME EndTurn PROVE AnswerInv' /\ PairInv'
  <2>1. /\ memory' = memory \/ memory' = memory \o produced
        /\ Forget /\ UNCHANGED transcript
    BY <1>8 DEF EndTurn
  <2>2. Whole(memory')
    BY Zenon, <1>0, <2>1, WholeConcat DEF PairInv
  <2> QED
    BY Zenon, <1>7, <2>1, <2>2
<1>9. ASSUME Crash PROVE AnswerInv' /\ PairInv'
  BY Zenon, <1>7, <1>9, WholeEmpty DEF Crash
<1>10. ASSUME NEW cost \in PromptCosts, NEW appended \in BOOLEAN, Ask(cost, appended)
       PROVE  AnswerInv' /\ PairInv'
  <2> DEFINE user == UserMessage(cost)
  <2>1. user \in Messages /\ user.role # "tool"
    BY UserMessages
  <2>2. frontend # "none" /\ saving = <<>>
    BY <1>10 DEF Ask, Shape, PhaseInv
  <2>3. Headless(History(user))
    BY Zenon, <2>2, HistoryIsHeadless
  <2> HIDE DEF user
  <2>4. /\ transcript' = transcript \/ transcript' = Append(transcript, user)
        /\ memory' = memory \/ memory' = Append(memory, user)
        /\ \/ UNCHANGED loop
           \/ conversation' = History(user) /\ produced' = <<>> /\ todo' = <<>>
        /\ UNCHANGED <<saving, sent>>
    BY <1>10 DEF Ask, Stored, user
  <2>5. Whole(transcript)
    BY Zenon, <1>0, WholePrefix DEF PairInv
  <2>6. Whole(Append(transcript, user)) /\ Append(transcript, user) \in Seq(Messages)
    BY Zenon, <1>0, <2>1, <2>5, WholeAppend, Built
  <2>7. Whole(transcript \o <<>>) /\ Whole(Append(transcript, user) \o <<>>)
    BY Zenon, <1>0, <2>5, <2>6, Built, WholeConcat, WholeEmpty
  <2>8. Whole(transcript' \o saving')
    BY Zenon, <2>2, <2>4, <2>7
  <2>9. Whole(memory')
    BY Zenon, <1>0, <2>1, <2>4, WholeAppend DEF PairInv
  <2>10. CASE UNCHANGED loop
    BY <2>4, <2>8, <2>9, <2>10 DEF AnswerInv, PairInv, loop
  <2>11. CASE conversation' = History(user) /\ produced' = <<>> /\ todo' = <<>>
    BY <2>3, <2>4, <2>8, <2>9, <2>11, WholeEmpty, OpenEmpty DEF AnswerInv, PairInv
  <2> QED
    BY Zenon, <2>4, <2>10, <2>11
<1>11. ASSUME NEW f \in Frontends, Open(f) PROVE AnswerInv' /\ PairInv'
  <2>1. /\ memory' = transcript \/ memory' = <<>>
        /\ UNCHANGED <<transcript, loop, saving, sent>>
    BY <1>11 DEF Open
  <2>2. Whole(transcript)
    BY Zenon, <1>0, WholePrefix DEF PairInv
  <2>3. Whole(memory')
    BY Zenon, <2>1, <2>2, WholeEmpty
  <2> QED
    BY <2>1, <2>3 DEF AnswerInv, PairInv, loop
<1>12. ASSUME UNCHANGED vars PROVE AnswerInv' /\ PairInv'
  BY <1>12 DEF vars, loop, AnswerInv, PairInv
<1> QED
  BY Zenon, <1>1, <1>2, <1>3, <1>4, <1>5, <1>6, <1>8, <1>9, <1>10, <1>11, <1>12, StepCases
     DEF OtherSteps

-----------------------------------------------------------------------------
(* Retries. A call that was answered is over: its id comes before those of    *)
(* the calls that are still to do, so that no answer is of two of them.       *)

Ids == Nat \X Nat \X Nat

Past(id, n, rest) ==
  /\ id \in Ids
  /\ \/ id[2] < n
     \/ rest # <<>> /\ id[2] = n /\ id[3] < rest[1].id[3]

Numbered(rest, n) ==
  \A k \in 1..Len(rest) : rest[k].id[2] = n /\ rest[k].id[3] = rest[1].id[3] + (k - 1)

IdInv ==
  /\ Numbered(todo, iteration)
  /\ \A c \in ran : Past(c.id, iteration, todo)
  /\ \A i \in 1..Len(produced) : produced[i].role = "tool" =>
       Past(produced[i].answers[1].id, iteration, todo)

RetryInv ==
  /\ \A t \in Tools : Cardinality(FailedRuns(t)) <= failures[t]
  /\ MaxRetries > 0 => \A t \in Tools : failures[t] <= MaxRetries
  /\ MaxRetries > 0 /\ pc \in {"approval", "execute"} => failures[Head(todo).tool] < MaxRetries

LEMMA IdOfCall ==
  /\ \A c \in Calls : c.id \in Ids
  /\ \A id \in Ids : id[2] \in Nat /\ id[3] \in Nat
BY DEF Calls, Ids

\* What is past stays past, and the call that is up becomes it.
LEMMA NextCall ==
  ASSUME NEW rest \in Seq(Calls), rest # <<>>, NEW n \in Nat, Numbered(rest, n),
         NEW next, next = IF Tail(rest) = <<>> THEN n + 1 ELSE n
  PROVE  /\ Numbered(Tail(rest), next)
         /\ ~Past(Head(rest).id, n, rest)
         /\ Past(Head(rest).id, next, Tail(rest))
         /\ \A id : Past(id, n, rest) => Past(id, next, Tail(rest))
<1> DEFINE tail == Tail(rest)
           first == Head(rest)
           r == Len(tail)
<1>1. /\ first \in Calls /\ first = rest[1] /\ r \in Nat /\ Len(rest) = r + 1
      /\ \A k \in 1..r : tail[k] = rest[k + 1]
      /\ tail = <<>> <=> r = 0
  BY Zenon, FirstAndRest
<1>2. first.id \in Ids /\ first.id[2] \in Nat /\ first.id[3] \in Nat
  BY Zenon, <1>1, IdOfCall
<1>3. \A k \in 1..(r + 1) : rest[k].id[2] = n /\ rest[k].id[3] = first.id[3] + (k - 1)
  BY <1>1 DEF Numbered
<1> HIDE DEF tail, first, r
<1>4. first.id[2] = n
  <2>1. 1 \in 1..(r + 1)
    BY <1>1
  <2> QED
    BY <1>1, <1>3, <2>1
<1>5. ASSUME r # 0
      PROVE  /\ tail[1].id[3] = first.id[3] + 1
             /\ \A k \in 1..r : tail[k].id[2] = n /\ tail[k].id[3] = tail[1].id[3] + (k - 1)
  <2>1. ASSUME NEW k \in 1..r PROVE tail[k].id[2] = n /\ tail[k].id[3] = first.id[3] + k
    <3>1. k + 1 \in 1..(r + 1) /\ (k + 1) - 1 = k
      BY <1>1
    <3>2. tail[k] = rest[k + 1]
      BY <1>1
    <3> QED
      BY <1>3, <3>1, <3>2
  <2>2. 1 \in 1..r
    BY <1>1, <1>5
  <2>3. tail[1].id[3] = first.id[3] + 1
    BY <2>1, <2>2
  <2> DEFINE p == first.id[3]
  <2>4. p \in Nat
    BY <1>2
  <2> HIDE DEF p
  <2>5. \A k \in 1..r : p + k = (p + 1) + (k - 1)
    BY <1>1, <2>4
  <2> QED
    BY Zenon, <2>1, <2>3, <2>5 DEF p
<1>6. next = IF r = 0 THEN n + 1 ELSE n
  BY <1>1 DEF tail
<1>11. ASSUME r # 0 PROVE first.id[3] < tail[1].id[3] /\ next = n /\ tail # <<>>
  <2>1. tail[1].id[3] = first.id[3] + 1 /\ first.id[3] \in Nat
    BY Zenon, <1>2, <1>5, <1>11
  <2>2. first.id[3] < tail[1].id[3]
    BY <2>1
  <2> QED
    BY Zenon, <1>1, <1>6, <1>11, <2>2
<1>7. Numbered(tail, next)
  <2>1. CASE r = 0
    <3>1. 1..Len(tail) = {}
      BY <2>1 DEF r
    <3> QED
      BY Zenon, <3>1 DEF Numbered
  <2>2. CASE r # 0
    BY Zenon, <1>5, <1>6, <2>2 DEF Numbered, r
  <2> QED
    BY <2>1, <2>2
<1>8. ~Past(first.id, n, rest)
  BY <1>1, <1>2, <1>4 DEF Past
<1>9. Past(first.id, next, tail)
  <2>1. CASE r = 0
    BY <1>2, <1>4, <1>6, <2>1 DEF Past
  <2>2. CASE r # 0
    BY Zenon, <1>2, <1>11, <1>4, <2>2 DEF Past
  <2> QED
    BY <2>1, <2>2
<1>10. ASSUME NEW id, Past(id, n, rest)
       PROVE  Past(id, next, tail)
  <2>1. id \in Ids /\ id[2] \in Nat /\ id[3] \in Nat
    BY Zenon, <1>10, IdOfCall DEF Past
  <2>2. id[2] < n \/ (id[2] = n /\ id[3] < first.id[3])
    BY Zenon, <1>1, <1>10 DEF Past
  <2>3. CASE r = 0
    BY <1>6, <2>1, <2>2, <2>3 DEF Past
  <2>4. CASE r # 0
    <3>1. tail[1].id[3] = first.id[3] + 1 /\ next = n /\ tail # <<>>
      BY Zenon, <1>5, <1>11, <2>4
    <3>2. id[3] < first.id[3] => id[3] < first.id[3] + 1
      BY Z3, <1>2, <2>1
    <3>3. id[3] < first.id[3] => id[3] < tail[1].id[3]
      BY Zenon, <3>1, <3>2
    <3> QED
      BY Zenon, <2>1, <2>2, <3>1, <3>3 DEF Past
  <2> QED
    BY <2>3, <2>4
<1> QED
  BY <1>7, <1>8, <1>9, <1>10 DEF tail, first

LEMMA RetryInit == Init => IdInv /\ RetryInv
<1> SUFFICES ASSUME Init PROVE IdInv /\ RetryInv
  OBVIOUS
<1>1. 1..Len(<<>>) = {}
  OBVIOUS
<1>2. IdInv
  BY <1>1 DEF Init, IdInv, Numbered
<1>3. \A t \in Tools : FailedRuns(t) = {} /\ failures[t] = 0
  BY DEF Init, FailedRuns
<1>4. \A t \in Tools : Cardinality(FailedRuns(t)) <= failures[t]
  <2>1. Cardinality({}) = 0
    BY FS_EmptySet
  <2>2. \A t \in Tools : Cardinality(FailedRuns(t)) = 0 /\ failures[t] = 0
    BY Zenon, <1>3, <2>1
  <2> QED
    BY <2>2
<1>5. MaxRetries > 0 => \A t \in Tools : failures[t] <= MaxRetries
  BY <1>3, TurnAssumption
<1>6. pc = "idle"
  BY DEF Init
<1> QED
  BY <1>2, <1>4, <1>5, <1>6 DEF RetryInv

\* The failed runs after a call has ended: one more at most, and then it counts.
LEMMA FailedRunsAfter ==
  ASSUME Shape, IdInv, NEW failed \in BOOLEAN, NEW counted \in BOOLEAN, NEW cost \in Costs,
         CallEnds(failed, counted, cost), NEW t \in Tools
  PROVE  \/ FailedRuns(t)' \subseteq FailedRuns(t)
         \/ /\ counted /\ t = Head(todo).tool
            /\ FailedRuns(t)' \subseteq FailedRuns(t) \cup {Head(todo)}
<1> DEFINE m == Answer(Head(todo), failed, cost)
           l == Len(produced)
<1>1. /\ todo # <<>> /\ GiveBack(failed, counted, cost)
      /\ ran' = ran \/ (ran' = ran \cup {Head(todo)} /\ counted = failed)
  BY DEF CallEnds
<1>2. /\ produced \in Seq(Messages) /\ todo \in Seq(Calls) /\ iteration \in Nat
      /\ l \in Nat /\ DOMAIN produced = 1..l
  BY DEF Shape, TypeInv
<1>3. Head(todo) \in Calls /\ m \in Messages /\ produced' = Append(produced, m)
  BY Zenon, <1>1, GivenBack
<1>4. m.answers[1] = [id |-> Head(todo).id, failed |-> failed]
  BY Zenon, <1>3, AnswerMessages
<1> HIDE DEF m
<1>5. /\ DOMAIN produced' = 1..(l + 1) /\ produced'[l + 1] = m
      /\ \A k \in 1..l : produced'[k] = produced[k]
  BY <1>2, <1>3, AppendProperties
<1> HIDE DEF l
<1>6. ~Past(Head(todo).id, iteration, todo)
  BY Zenon, <1>1, <1>2, NextCall DEF IdInv
<1>7. ASSUME NEW call \in FailedRuns(t)'
      PROVE  call \in FailedRuns(t) \/ (counted /\ t = Head(todo).tool /\ call = Head(todo))
  <2>1. call \in ran' /\ call.tool = t
    BY DEF FailedRuns
  <2>2. PICK i \in 1..(l + 1) : /\ produced'[i].role = "tool"
                                /\ produced'[i].answers[1] = [id |-> call.id, failed |-> TRUE]
    BY <1>5 DEF FailedRuns
  <2>3. CASE i = l + 1
    <3>1. call.id = Head(todo).id /\ failed = TRUE
      BY <1>4, <1>5, <2>2, <2>3
    <3>2. call \notin ran
      BY Zenon, <1>6, <3>1 DEF IdInv
    <3> QED
      BY Zenon, <1>1, <2>1, <3>1, <3>2
  <2>4. CASE i \in 1..l
    <3>1. /\ produced[i].role = "tool"
          /\ produced[i].answers[1] = [id |-> call.id, failed |-> TRUE]
      BY Zenon, <1>5, <2>2, <2>4
    <3>2. Past(call.id, iteration, todo)
      <4>1. Past(produced[i].answers[1].id, iteration, todo)
        BY Zenon, <2>4, <3>1 DEF IdInv, l
      <4>2. produced[i].answers[1].id = call.id
        BY <3>1
      <4> QED
        BY Zenon, <4>1, <4>2
    <3>3. call \in ran
      BY Zenon, <1>1, <1>6, <2>1, <3>2
    <3>4. call \in FailedRuns(t)
      BY Zenon, <1>2, <2>1, <2>4, <3>1, <3>3 DEF FailedRuns
    <3> QED
      BY Zenon, <3>4
  <2> QED
    BY <1>2, <2>3, <2>4
<1> QED
  BY Zenon, <1>7

LEMMA RetryStep ==
  ASSUME Shape, IdInv, RetryInv, [Next]_vars
  PROVE  IdInv' /\ RetryInv'
<1>0. /\ produced \in Seq(Messages) /\ todo \in Seq(Calls) /\ ran \in SUBSET Calls
      /\ IsFiniteSet(ran)
      /\ iteration \in Nat /\ asked \in Nat /\ failures \in [Tools -> Nat]
      /\ Len(produced) \in Nat /\ DOMAIN produced = 1..Len(produced) /\ MaxRetries \in Int
  BY TurnAssumption DEF Shape, TypeInv
<1>10. ASSUME ran' = {}, failures' = [t \in Tools |-> 0], pc' \notin {"approval", "execute"}
       PROVE  RetryInv'
  <2>1. \A t \in Tools : FailedRuns(t)' = {} /\ failures'[t] = 0
    BY <1>10 DEF FailedRuns
  <2>2. Cardinality({}) = 0
    BY FS_EmptySet
  <2>3. \A t \in Tools : Cardinality(FailedRuns(t)') = 0 /\ failures'[t] = 0
    BY Zenon, <2>1, <2>2
  <2>4. \A t \in Tools : Cardinality(FailedRuns(t)') <= failures'[t]
    BY <2>3
  <2>5. MaxRetries > 0 => \A t \in Tools : failures'[t] <= MaxRetries
    BY <1>0, <2>3
  <2> QED
    BY Zenon, <1>10, <2>4, <2>5 DEF RetryInv
<1>1. ASSUME NEW failed \in BOOLEAN, NEW counted \in BOOLEAN, NEW cost \in Costs,
             CallEnds(failed, counted, cost)
      PROVE  IdInv' /\ RetryInv'
  <2> DEFINE m == Answer(Head(todo), failed, cost)
             l == Len(produced)
  <2>1. /\ todo # <<>> /\ GiveBack(failed, counted, cost)
        /\ ran' = ran \/ ran' = ran \cup {Head(todo)}
        /\ counted => pc \in {"approval", "execute"} \/ ~RetryExhausted
    BY <1>1 DEF CallEnds
  <2>2. /\ Head(todo) \in Calls /\ m \in Messages
        /\ produced' = Append(produced, m) /\ todo' = Tail(todo)
        /\ pc' \in {"request", "calls"}
        /\ iteration' = IF Tail(todo) = <<>> THEN iteration + 1 ELSE iteration
    BY <2>1, GivenBack
  <2>3. m.answers[1].id = Head(todo).id
    BY Zenon, <2>2, AnswerMessages
  <2>4. /\ Len(produced') = l + 1 /\ produced'[l + 1] = m
        /\ \A k \in 1..l : produced'[k] = produced[k] /\ produced[k] \in Messages
    BY <1>0, <2>2, AppendProperties
  <2> HIDE DEF m, l
  <2>5. /\ Numbered(todo', iteration')
        /\ Past(Head(todo).id, iteration', todo')
        /\ \A id : Past(id, iteration, todo) => Past(id, iteration', todo')
    BY Zenon, <1>0, <2>1, <2>2, NextCall DEF IdInv
  <2>6. \A c \in ran' : Past(c.id, iteration', todo')
    BY Zenon, <1>0, <2>1, <2>5 DEF IdInv
  <2>7. ASSUME NEW i \in 1..(l + 1), produced'[i].role = "tool"
        PROVE  Past(produced'[i].answers[1].id, iteration', todo')
    <3>1. CASE i = l + 1
      BY Zenon, <2>3, <2>4, <2>5, <3>1
    <3>2. CASE i \in 1..l
      <4>1. Past(produced[i].answers[1].id, iteration, todo)
        BY Zenon, <2>4, <2>7, <3>2 DEF IdInv, l
      <4>2. produced'[i] = produced[i]
        BY Zenon, <2>4, <3>2
      <4> QED
        BY Zenon, <2>5, <4>1, <4>2
    <3> QED
      BY <1>0, <3>1, <3>2 DEF l
  <2>8. IdInv'
    BY Zenon, <2>4, <2>5, <2>6, <2>7 DEF IdInv
  <2>9. ASSUME NEW t \in Tools
        PROVE  Cardinality(FailedRuns(t)') <= failures'[t]
    <3>1. /\ IsFiniteSet(FailedRuns(t)) /\ Cardinality(FailedRuns(t)) \in Nat
          /\ Cardinality(FailedRuns(t)) <= failures[t]
      <4>1. FailedRuns(t) \in SUBSET ran
        BY DEF FailedRuns
      <4> QED
        BY Zenon, <1>0, <4>1, FS_Subset, FS_CardinalityType DEF RetryInv
    <3> DEFINE f == FailedRuns(t)
               g == FailedRuns(t)'
               h == Head(todo)
    <3>2. g \subseteq f \/ (counted /\ t = h.tool /\ g \subseteq f \cup {h})
      BY Zenon, <1>1, FailedRunsAfter
    <3>3. failures' = IF counted THEN [failures EXCEPT ![h.tool] = @ + 1] ELSE failures
      BY Zenon, <2>1 DEF GiveBack
    <3>4. failures[t] \in Nat /\ failures'[t] = IF counted /\ t = h.tool THEN failures[t] + 1
                                                ELSE failures[t]
      BY <1>0, <3>3
    <3> HIDE DEF f, g, h
    <3>5. CASE g \subseteq f
      <4>1. Cardinality(g) \in Nat /\ Cardinality(g) <= Cardinality(f)
        BY <3>1, <3>5, FS_Subset, FS_CardinalityType DEF f
      <4> QED
        BY <3>1, <3>4, <4>1 DEF f, g
    <3>6. CASE counted /\ t = h.tool /\ g \subseteq f \cup {h}
      <4>0. IsFiniteSet(f) /\ Cardinality(f) \in Nat
        BY <3>1 DEF f
      <4>1. IsFiniteSet(f \cup {h}) /\ Cardinality(f \cup {h}) <= Cardinality(f) + 1
        <5>1. /\ IsFiniteSet(f \cup {h})
              /\ Cardinality(f \cup {h}) = IF h \in f THEN Cardinality(f) ELSE Cardinality(f) + 1
          BY Zenon, <4>0, FS_AddElement
        <5> QED
          BY <4>0, <5>1
      <4>2. Cardinality(g) \in Nat /\ Cardinality(g) <= Cardinality(f \cup {h})
            /\ Cardinality(f \cup {h}) \in Nat
        BY <3>6, <4>1, FS_Subset, FS_CardinalityType
      <4> QED
        BY <3>1, <3>4, <3>6, <4>1, <4>2 DEF f, g
    <3> QED
      BY <3>2, <3>5, <3>6
  <2>10. ASSUME MaxRetries > 0, NEW t \in Tools PROVE failures'[t] <= MaxRetries
    <3>1. failures' = IF counted THEN [failures EXCEPT ![Head(todo).tool] = @ + 1] ELSE failures
      BY Zenon, <2>1 DEF GiveBack
    <3>2. counted => failures[Head(todo).tool] < MaxRetries
      <4>1. Head(todo).tool \in Tools
        BY Zenon, <2>2 DEF Calls
      <4>2. failures[Head(todo).tool] \in Nat
        BY Zenon, <1>0, <4>1
      <4>3. ~RetryExhausted => failures[Head(todo).tool] < MaxRetries
        BY <1>0, <2>10, <4>2 DEF RetryExhausted
      <4> QED
        BY Zenon, <2>1, <2>10, <4>3 DEF RetryInv
    <3>3. failures[t] <= MaxRetries /\ failures[t] \in Nat
      BY <1>0, <2>10 DEF RetryInv
    <3>4. CASE counted /\ t = Head(todo).tool
      <4>1. failures'[t] = failures[t] + 1 /\ failures[t] < MaxRetries
        BY <1>0, <3>1, <3>2, <3>4
      <4> QED
        BY <1>0, <3>3, <4>1
    <3>5. CASE ~(counted /\ t = Head(todo).tool)
      BY <1>0, <3>1, <3>3, <3>5
    <3> QED
      BY <3>4, <3>5
  <2>11. RetryInv'
    BY <2>2, <2>9, <2>10 DEF RetryInv
  <2> QED
    BY <2>8, <2>11
<1>2. ASSUME Forget PROVE IdInv' /\ RetryInv'
  <2>1. /\ produced' = <<>> /\ todo' = <<>> /\ ran' = {} /\ pc' = "idle"
        /\ failures' = [t \in Tools |-> 0]
    BY Zenon, <1>2, ForgetShape
  <2>2. 1..Len(<<>>) = {}
    OBVIOUS
  <2>3. IdInv'
    BY Zenon, <2>1, <2>2 DEF IdInv, Numbered
  <2> QED
    BY Zenon, <1>10, <2>1, <2>3
<1>3. ASSUME CallMoves PROVE IdInv' /\ RetryInv'
  <2>1. UNCHANGED <<produced, todo, ran, iteration, failures>>
    BY <1>3 DEF CallMoves, loop
  <2>2. IdInv'
    BY <2>1 DEF IdInv
  <2>3. \A t \in Tools : FailedRuns(t)' = FailedRuns(t)
    BY <2>1 DEF FailedRuns
  <2>4. ASSUME MaxRetries > 0, pc' \in {"approval", "execute"}
        PROVE  failures[Head(todo).tool] < MaxRetries
    <3>1. CASE pc \in {"approval", "execute"}
      BY <2>4, <3>1 DEF RetryInv
    <3>2. CASE pc \notin {"approval", "execute"}
      <4>1. pc = "calls" /\ ~RetryExhausted /\ todo # <<>>
        BY <1>3, <2>4, <3>2 DEF CallMoves, Calling, Shape, PhaseInv
      <4>2. Head(todo) \in Calls
        BY Zenon, <1>0, <4>1, FirstAndRest
      <4>3. failures[Head(todo).tool] \in Nat
        BY <1>0, <4>2 DEF Calls
      <4> QED
        BY <1>0, <2>4, <4>1, <4>3 DEF RetryExhausted
    <3> QED
      BY <3>1, <3>2
  <2> QED
    BY <2>1, <2>2, <2>3, <2>4 DEF RetryInv
<1>4. ASSUME UNCHANGED <<produced, todo, ran, iteration, failures>>,
             pc' \notin {"approval", "execute"}
      PROVE  IdInv' /\ RetryInv'
  <2>1. IdInv'
    BY <1>4 DEF IdInv
  <2>2. \A t \in Tools : FailedRuns(t)' = FailedRuns(t)
    BY <1>4 DEF FailedRuns
  <2> QED
    BY <1>4, <2>1, <2>2 DEF RetryInv
<1>5. ASSUME NEW reply \in Replies, Reply(reply) PROVE IdInv' /\ RetryInv'
  <2> DEFINE m == Assistant(CallsOf(reply))
             l == Len(produced)
  <2>1. /\ pc = "model" /\ todo' = CallsOf(reply) /\ produced' = Append(produced, m)
        /\ UNCHANGED <<ran, iteration, failures>> /\ pc' \in {"saving", "calls"}
    BY <1>5 DEF Reply, Finish
  <2>2. todo = <<>>
    BY <2>1 DEF Shape, PhaseInv, Calling
  <2>3. /\ CallsOf(reply) \in Seq(Calls)
        /\ \A k \in 1..Len(CallsOf(reply)) : CallsOf(reply)[k].id = <<asked, iteration, k>>
    BY Zenon, <1>0, CallsOfReply
  <2>4. m \in Messages /\ m.role = "assistant"
    BY Zenon, <2>3, AssistantMessages
  <2> HIDE DEF m, l
  <2>5. /\ Len(produced') = l + 1 /\ produced'[l + 1] = m /\ DOMAIN produced' = 1..(l + 1)
        /\ \A k \in 1..l : produced'[k] = produced[k]
        /\ l \in Nat /\ DOMAIN produced = 1..l
    BY <1>0, <2>1, <2>4, AppendProperties DEF l
  <2>6. Numbered(todo', iteration')
    <3> DEFINE calls == CallsOf(reply)
               c == Len(calls)
    <3>1. c \in Nat /\ \A k \in 1..c : calls[k].id = <<asked, iteration, k>>
      BY <2>3
    <3> HIDE DEF calls, c
    <3>2. \A k \in 1..c : /\ calls[k].id[2] = iteration /\ calls[k].id[3] = k
                           /\ calls[1].id[3] = 1
      BY <3>1
    <3>3. \A k \in 1..c : calls[k].id[3] = calls[1].id[3] + (k - 1)
      BY <3>1, <3>2
    <3> QED
      BY <2>1, <3>2, <3>3 DEF Numbered, calls, c
  <2>7. \A id : Past(id, iteration, todo) => Past(id, iteration', todo')
    BY <2>1, <2>2 DEF Past
  <2>8. IdInv'
    <3>1. \A i \in 1..(l + 1) : produced'[i].role = "tool" =>
             i \in 1..l /\ Past(produced[i].answers[1].id, iteration, todo)
      BY <2>4, <2>5 DEF IdInv, l
    <3> QED
      BY Zenon, <2>1, <2>5, <2>6, <2>7, <3>1 DEF IdInv
  <2>9. \A t \in Tools : FailedRuns(t)' = FailedRuns(t)
    <3>1. \A call : (\E i \in 1..(l + 1) : /\ produced'[i].role = "tool"
                                         /\ produced'[i].answers[1] = [id |-> call.id, failed |-> TRUE])
                 <=> \E i \in 1..l : /\ produced[i].role = "tool"
                                     /\ produced[i].answers[1] = [id |-> call.id, failed |-> TRUE]
      <4>1. \A i \in 1..l : i \in 1..(l + 1)
        BY <2>5
      <4>2. \A i \in 1..(l + 1) : i \in 1..l \/ i = l + 1
        BY <2>5
      <4>3. \A i \in 1..(l + 1) : produced'[i].role = "tool" => i \in 1..l
        BY <2>4, <2>5, <4>2
      <4> QED
        BY Zenon, <2>5, <4>1, <4>3
    <3> QED
      BY ZenonT(60), <2>1, <2>5, <3>1 DEF FailedRuns
  <2> QED
    BY <2>1, <2>8, <2>9 DEF RetryInv
<1>6. ASSUME NEW cost \in PromptCosts, NEW appended \in BOOLEAN, Ask(cost, appended)
      PROVE  IdInv' /\ RetryInv'
  <2>1. CASE UNCHANGED <<pc, loop>>
    BY <1>4, <1>6, <2>1 DEF Ask, loop
  <2>2. CASE ~UNCHANGED <<pc, loop>>
    <3>1. /\ produced' = <<>> /\ todo' = <<>> /\ pc' = "request" /\ ran' = ran /\ ran = {}
          /\ failures' = [t \in Tools |-> 0]
      BY <1>6, <2>2 DEF Ask, Shape, PhaseInv
    <3>2. 1..Len(<<>>) = {}
      OBVIOUS
    <3>3. IdInv'
      BY Zenon, <3>1, <3>2 DEF IdInv, Numbered
    <3> QED
      BY <1>10, <3>1, <3>3
  <2> QED
    BY <2>1, <2>2
<1>7. ASSUME \/ \E ok \in BOOLEAN : LoopStops(ok)
             \/ Request
             \/ \E appended \in BOOLEAN : Save(appended)
             \/ \E f \in Frontends : Open(f)
      PROVE  IdInv' /\ RetryInv'
  <2>1. UNCHANGED <<produced, todo, ran, iteration, failures>>
    BY <1>7 DEF LoopStops, Request, Save, Open, loop
  <2>2. pc' \notin {"approval", "execute"}
    <3>1. ASSUME NEW f \in Frontends, Open(f) PROVE pc' = "idle"
      BY <3>1 DEF Open, Shape, PhaseInv
    <3> QED
      BY <1>7, <3>1 DEF LoopStops, Finish, Request, Save
  <2> QED
    BY Zenon, <1>4, <2>1, <2>2
<1>8. ASSUME UNCHANGED vars PROVE IdInv' /\ RetryInv'
  <2>1. UNCHANGED <<pc, produced, todo, ran, iteration, failures>>
    BY <1>8 DEF vars, loop
  <2>2. IdInv'
    BY <2>1 DEF IdInv
  <2>3. \A t \in Tools : FailedRuns(t)' = FailedRuns(t)
    BY <2>1 DEF FailedRuns
  <2> QED
    BY <2>1, <2>2, <2>3 DEF RetryInv
<1>9. EndTurn \/ Crash => Forget
  BY DEF EndTurn, Crash
<1> QED
  BY Zenon, <1>1, <1>2, <1>3, <1>5, <1>6, <1>7, <1>8, <1>9, StepCases DEF OtherSteps

-----------------------------------------------------------------------------
(* The TUI's conversation. The messages of the turn that are stored already   *)
(* are the beginning of what it produced; of the rest nothing is stored, or   *)
(* all that is left is still to come.                                         *)

Recorded(stored) ==
  /\ Subsequence(transcript, memory \o stored)
  /\ pc # "saving" => stored = <<>>
  /\ pc = "saving" => \E rest \in Seq(Messages) :
                         produced = stored \o rest /\ (saving = <<>> \/ saving = rest)
MemoryInv == frontend = "tui" => \E stored \in Seq(Messages) : Recorded(stored)

LEMMA JoinedThree ==
  ASSUME NEW s \in Seq(Messages), NEW t \in Seq(Messages), NEW u \in Seq(Messages)
  PROVE  (s \o t) \o u = s \o (t \o u)
BY ConcatAssociative

LEMMA JoinedAppend ==
  ASSUME NEW s \in Seq(Messages), NEW t \in Seq(Messages), NEW m \in Messages
  PROVE  /\ Append(s, m) \in Seq(Messages) /\ <<m>> \in Seq(Messages)
         /\ Append(s, m) = s \o <<m>>
         /\ Append(s \o t, m) = s \o Append(t, m)
<1>1. <<m>> \in Seq(Messages)
  OBVIOUS
<1>2. s \o t \in Seq(Messages)
  BY Zenon, ConcatProperties
<1>3. /\ Append(s, m) \in Seq(Messages) /\ Append(s, m) = s \o <<m>>
      /\ Append(s \o t, m) = (s \o t) \o <<m>> /\ Append(t, m) = t \o <<m>>
  BY Zenon, <1>2, AppendProperties, AppendIsConcat
<1>4. (s \o t) \o <<m>> = s \o (t \o <<m>>)
  BY <1>1, JoinedThree
<1> QED
  BY Zenon, <1>1, <1>3, <1>4

LEMMA Joined ==
  ASSUME NEW s \in Seq(Messages), NEW t \in Seq(Messages)
  PROVE  /\ s \o <<>> = s /\ <<>> \o s = s /\ s \o t \in Seq(Messages)
         /\ t # <<>> => s \o t = Append(s, Head(t)) \o Tail(t)
<1>1. s \o <<>> = s /\ <<>> \o s = s /\ s \o t \in Seq(Messages)
  BY Zenon, ConcatEmptySeq, ConcatProperties
<1>3. ASSUME t # <<>> PROVE s \o t = Append(s, Head(t)) \o Tail(t)
  <2>1. Head(t) \in Messages /\ Tail(t) \in Seq(Messages) /\ <<Head(t)>> \in Seq(Messages)
    BY <1>3, HeadTailProperties
  <2>2. t = <<Head(t)>> \o Tail(t)
    <3> DEFINE u == <<Head(t)>> \o Tail(t)
    <3>1. /\ u \in Seq(Messages) /\ Len(u) = 1 + Len(Tail(t))
          /\ \A i \in 1..(1 + Len(Tail(t))) :
               u[i] = IF i <= 1 THEN <<Head(t)>>[i] ELSE Tail(t)[i - 1]
      <4>1. Len(<<Head(t)>>) = 1
        OBVIOUS
      <4> QED
        BY Zenon, <2>1, <4>1, ConcatProperties
    <3>2. /\ Len(t) \in Nat /\ Len(Tail(t)) = Len(t) - 1
          /\ \A i \in 1..Len(Tail(t)) : Tail(t)[i] = t[i + 1]
      BY <1>3, HeadTailProperties
    <3>3. Head(t) = t[1]
      BY <1>3
    <3> DEFINE l == Len(t)
               tail == Tail(t)
               h == <<Head(t)>>
               lt == Len(tail)
    <3>4. /\ l \in Nat /\ lt = l - 1 /\ h[1] = t[1]
          /\ \A i \in 1..lt : tail[i] = t[i + 1]
          /\ Len(u) = 1 + lt
          /\ \A i \in 1..(1 + lt) : u[i] = IF i <= 1 THEN h[i] ELSE tail[i - 1]
      BY <3>1, <3>2, <3>3
    <3>5. u \in Seq(Messages)
      BY <3>1
    <3> HIDE DEF l, tail, h, u, lt
    <3>6. Len(u) = l
      BY <3>4
    <3>7. ASSUME NEW i \in 1..l PROVE u[i] = t[i]
      <4>1. CASE i = 1
        BY <3>4, <4>1
      <4>2. CASE i # 1
        <5>1. i - 1 \in 1..lt /\ (i - 1) + 1 = i /\ ~(i <= 1) /\ i \in 1..(1 + lt)
          BY <3>4, <4>2
        <5> QED
          BY <3>4, <5>1
      <4> QED
        BY <4>1, <4>2
    <3>8. u = t
      BY Zenon, <3>5, <3>6, <3>7, SeqEqual DEF l
    <3> QED
      BY <3>8 DEF u, tail
  <2>3. (s \o <<Head(t)>>) \o Tail(t) = s \o (<<Head(t)>> \o Tail(t))
    BY <2>1, JoinedThree
  <2> QED
    BY Zenon, JoinedAppend, <2>1, <2>2, <2>3
<1> QED
  BY Zenon, <1>1, <1>3

LEMMA MemoryInit == Init => MemoryInv
BY DEF Init, MemoryInv

LEMMA MemoryStep ==
  ASSUME Shape, MemoryInv, [Next]_vars
  PROVE  MemoryInv'
<1> SUFFICES ASSUME frontend' = "tui" PROVE \E stored \in Seq(Messages) : Recorded(stored)'
  BY Zenon DEF MemoryInv
<1>0. /\ transcript \in Seq(Messages) /\ memory \in Seq(Messages) /\ produced \in Seq(Messages)
      /\ produced' \in Seq(Messages) /\ <<>> \in Seq(Messages)
  BY ShapeStep, EmptySeq DEF Shape, TypeInv
<1>1. ASSUME UNCHANGED <<transcript, memory>>, pc # "saving", pc' # "saving", frontend = "tui"
      PROVE  Recorded(<<>>)'
  <2>1. Recorded(<<>>)
    BY <1>1 DEF MemoryInv, Recorded
  <2> QED
    BY Zenon, <1>1, <2>1 DEF Recorded
<1>2. ASSUME NEW ok \in BOOLEAN, Finish(ok), UNCHANGED <<transcript, memory>>, pc # "saving",
             frontend = "tui"
      PROVE  Recorded(<<>>)'
  <2>1. Recorded(<<>>)
    BY <1>2 DEF MemoryInv, Recorded
  <2>2. pc' = "saving" /\ saving' = produced'
    BY <1>2 DEF Finish
  <2>3. produced' = <<>> \o produced'
    BY Zenon, <1>0, Joined
  <2> QED
    BY Zenon, <1>0, <1>2, <2>1, <2>2, <2>3 DEF Recorded
<1>3. ASSUME NEW failed \in BOOLEAN, NEW counted \in BOOLEAN, NEW cost \in Costs,
             CallEnds(failed, counted, cost)
      PROVE  Recorded(<<>>)'
  <2>1. pc # "saving" /\ pc' # "saving"
    BY <1>3 DEF CallEnds, Calling, GiveBack
  <2> QED
    BY <1>1, <1>3, <2>1 DEF CallEnds
<1>4. ASSUME NEW ok \in BOOLEAN, LoopStops(ok) PROVE Recorded(<<>>)'
  BY <1>2, <1>4 DEF LoopStops
<1>5. ASSUME UNCHANGED <<transcript, memory, produced, saving, frontend>>,
             pc' = pc \/ (pc # "saving" /\ pc' # "saving")
      PROVE  \E stored \in Seq(Messages) : Recorded(stored)'
  <2>1. PICK stored \in Seq(Messages) : Recorded(stored)
    BY <1>5 DEF MemoryInv
  <2>2. Recorded(stored)'
    BY Zenon, <1>5, <2>1 DEF Recorded
  <2> QED
    BY Zenon, <2>2
<1>6. ASSUME CallMoves \/ UNCHANGED vars PROVE \E stored \in Seq(Messages) : Recorded(stored)'
  <2>1. UNCHANGED <<transcript, memory, produced, saving, frontend>>
    BY <1>6 DEF CallMoves, vars, loop
  <2>2. pc' = pc \/ (pc # "saving" /\ pc' # "saving")
    BY <1>6 DEF CallMoves, vars, Calling
  <2> QED
    BY Zenon, <1>5, <2>1, <2>2
<1>7. ASSUME Request PROVE Recorded(<<>>)'
  BY <1>1, <1>7 DEF Request
<1>8. ASSUME NEW reply \in Replies, Reply(reply) PROVE Recorded(<<>>)'
  <2>1. /\ pc # "saving" /\ UNCHANGED <<frontend, transcript, memory>>
        /\ Finish(TRUE) \/ pc' # "saving"
    BY <1>8 DEF Reply
  <2> QED
    BY Zenon, <1>1, <1>2, <2>1
<1>9. ASSUME NEW appended \in BOOLEAN, Save(appended)
      PROVE  \E stored \in Seq(Messages) : Recorded(stored)'
  <2>1. /\ pc = "saving" /\ pc' = "saving" /\ saving # <<>>
        /\ transcript' = IF appended THEN Append(transcript, Head(saving)) ELSE transcript
        /\ saving' = IF appended THEN Tail(saving) ELSE <<>>
        /\ UNCHANGED <<memory, produced, frontend>>
    BY <1>9 DEF Save, Stored, loop
  <2>2. PICK stored \in Seq(Messages) : Recorded(stored)
    BY <2>1 DEF MemoryInv
  <2>3. PICK rest \in Seq(Messages) : produced = stored \o rest /\ saving = rest
    BY <2>1, <2>2 DEF Recorded
  <2>4. CASE appended
    <3>1. Head(rest) \in Messages /\ Tail(rest) \in Seq(Messages)
      BY Zenon, <2>1, <2>3, HeadTailProperties
    <3> DEFINE more == Append(stored, Head(rest))
    <3>2. /\ more \in Seq(Messages) /\ memory \o stored \in Seq(Messages)
          /\ Append(memory \o stored, Head(rest)) = memory \o more
          /\ produced = more \o Tail(rest)
      <4>1. rest # <<>> /\ produced = stored \o rest
        BY <2>1, <2>3
      <4>2. /\ memory \o stored \in Seq(Messages)
            /\ Append(memory \o stored, Head(rest)) = memory \o more
        <5>1. memory \o stored \in Seq(Messages)
          BY Zenon, <1>0, Joined
        <5>2. Append(memory \o stored, Head(rest)) = memory \o Append(stored, Head(rest))
          BY ZenonT(60), <1>0, <3>1, JoinedAppend
        <5> QED
          BY <5>1, <5>2
      <4>3. stored \o rest = more \o Tail(rest) /\ more \in Seq(Messages)
        <5>1. stored \o rest = Append(stored, Head(rest)) \o Tail(rest)
          BY Zenon, <4>1, Joined
        <5>2. Append(stored, Head(rest)) \in Seq(Messages)
          BY Zenon, <3>1, AppendProperties
        <5> QED
          BY <5>1, <5>2
      <4> QED
        BY Zenon, <4>1, <4>2, <4>3
    <3>3. Subsequence(Append(transcript, Head(rest)), Append(memory \o stored, Head(rest)))
      BY Zenon, <1>0, <2>2, <3>1, <3>2, SubsequenceAppend DEF Recorded
    <3>4. Recorded(more)'
      <4>1. transcript' = Append(transcript, Head(rest)) /\ saving' = Tail(rest)
        BY <2>1, <2>3, <2>4
      <4>2. Subsequence(transcript', memory' \o more)
        BY Zenon, <2>1, <3>2, <3>3, <4>1
      <4> QED
        BY Zenon, <2>1, <3>1, <3>2, <4>1, <4>2 DEF Recorded
    <3> QED
      BY Zenon, <3>2, <3>4
  <2>5. CASE ~appended
    <3>1. transcript' = transcript /\ saving' = <<>>
      BY <2>1, <2>5
    <3>2. Recorded(stored)'
      BY Zenon, <2>1, <2>2, <2>3, <3>1 DEF Recorded
    <3> QED
      BY Zenon, <3>2
  <2> QED
    BY <2>4, <2>5
<1>10. ASSUME EndTurn PROVE Recorded(<<>>)'
  <2>1. /\ pc = "saving" /\ frontend = "tui" /\ pc' = "idle"
        /\ memory' = memory \o produced /\ transcript' = transcript
    BY <1>10 DEF EndTurn, Forget
  <2>2. PICK stored \in Seq(Messages) : Recorded(stored)
    BY <2>1 DEF MemoryInv
  <2>3. PICK rest \in Seq(Messages) : produced = stored \o rest
    BY <2>1, <2>2 DEF Recorded
  <2>4. /\ memory \o stored \in Seq(Messages) /\ memory' \in Seq(Messages)
        /\ memory' = (memory \o stored) \o rest /\ memory' \o <<>> = memory'
    <3>1. /\ memory \o stored \in Seq(Messages) /\ memory' \in Seq(Messages)
          /\ memory' \o <<>> = memory'
      BY Zenon, <1>0, <2>1, Joined
    <3>2. (memory \o stored) \o rest = memory \o (stored \o rest)
      BY SMTT(30), <1>0, JoinedThree
    <3> QED
      BY Zenon, <2>1, <2>3, <3>1, <3>2
  <2>5. Subsequence(transcript, (memory \o stored) \o rest)
    BY Zenon, <1>0, <2>2, <2>4, SubsequenceExtend DEF Recorded
  <2> QED
    BY <2>1, <2>4, <2>5 DEF Recorded
<1>11. ASSUME NEW cost \in PromptCosts, NEW appended \in BOOLEAN, Ask(cost, appended)
       PROVE  Recorded(<<>>)'
  <2> DEFINE user == UserMessage(cost)
  <2>1. /\ pc = "idle" /\ pc' = "request" /\ frontend = "tui"
        /\ memory' = Append(memory, user)
        /\ transcript' = IF appended THEN Append(transcript, user) ELSE transcript
    BY <1>11 DEF Ask, Stored
  <2>2. user \in Messages
    BY UserMessages
  <2> HIDE DEF user
  <2>3. Subsequence(transcript, memory)
    <3>1. Recorded(<<>>)
      BY <2>1 DEF MemoryInv, Recorded
    <3>2. memory \o <<>> = memory
      BY Zenon, <1>0, Joined
    <3> QED
      BY <3>1, <3>2 DEF Recorded
  <2>4. /\ Append(memory, user) = memory \o <<user>> /\ <<user>> \in Seq(Messages)
        /\ memory' \in Seq(Messages) /\ memory' \o <<>> = memory'
    <3>1. /\ Append(memory, user) = memory \o <<user>> /\ <<user>> \in Seq(Messages)
          /\ Append(memory, user) \in Seq(Messages)
      BY Zenon, <1>0, <2>2, JoinedAppend
    <3>2. Append(memory, user) \o <<>> = Append(memory, user)
      BY Zenon, <1>0, <3>1, Joined
    <3> QED
      BY Zenon, <2>1, <3>1, <3>2
  <2>5. /\ Subsequence(Append(transcript, user), Append(memory, user))
        /\ Subsequence(transcript, memory \o <<user>>)
    BY Zenon, <1>0, <2>2, <2>3, <2>4, SubsequenceAppend, SubsequenceExtend
  <2>6. Subsequence(transcript', memory' \o <<>>)
    BY <2>1, <2>4, <2>5
  <2> QED
    BY <2>1, <2>6 DEF Recorded
<1>12. ASSUME NEW f \in Frontends, Open(f) PROVE Recorded(<<>>)'
  <2>1. /\ memory' = transcript /\ transcript' = transcript /\ pc = "idle" /\ pc' = pc
    BY <1>12 DEF Open, Shape, PhaseInv
  <2>2. Subsequence(transcript, transcript) /\ transcript \o <<>> = transcript
    BY Zenon, <1>0, SubsequenceSelf, Joined
  <2> QED
    BY <2>1, <2>2 DEF Recorded
<1>13. ~Crash
  BY DEF Crash
<1> QED
  BY Zenon, <1>0, <1>3, <1>4, <1>6, <1>7, <1>8, <1>9, <1>10, <1>11, <1>12, <1>13, StepCases
  DEF OtherSteps

-----------------------------------------------------------------------------
(* What runs. A tool has its effects once it has run: whether it may is       *)
(* judged before, under a policy that may change until then, and what it did  *)
(* is known by its result alone.                                              *)

Forbidden(tool) == ResolveRule(policy, ActionOf[tool].category) = "deny"
Runnable(tool) == tool \in Registered \cap WellFormed /\ ~Forbidden(tool)

\* The policy is one that was taken in once a frontend has the session open.
DenyInv ==
  /\ frontend # "none" => "rules" \in DOMAIN policy
  /\ \A call \in ran : Runnable(call.tool)
  /\ pc \in {"approval", "execute"} => Runnable(Head(todo).tool)

ResultsOf(messages, call) ==
  {i \in DOMAIN messages : messages[i].role = "tool" /\ messages[i].answers[1].id = call.id}

ToldOnce(messages, call) == \E i \in DOMAIN messages : ResultsOf(messages, call) = {i}

\* Each run of the turn has one result among what the turn produced.
ToldInv == \A call \in ran : ToldOnce(produced, call)

LEMMA DeniedByRule ==
  \A tool : Evaluate(policy, ActionOf[tool]) = "deny" <=> Forbidden(tool)
BY DEF Evaluate, Forbidden

LEMMA RulesDecide ==
  ASSUME policy'.rules = policy.rules
  PROVE  \A tool : Runnable(tool)' <=> Runnable(tool)
BY DEF Runnable, Forbidden, ResolveRule

LEMMA DenyInit == Init => DenyInv
BY DEF Init, DenyInv

LEMMA DenyStep ==
  ASSUME Shape, DenyInv, [Next]_vars
  PROVE  DenyInv'
<1>1. ASSUME policy' = policy, frontend' \in {frontend, "none"},
             \A call \in ran' : call \in ran \/ Runnable(call.tool),
             pc' \in {"approval", "execute"} => Runnable(Head(todo').tool)
      PROVE  DenyInv'
  <2>1. \A tool : Runnable(tool)' <=> Runnable(tool)
    BY <1>1, RulesDecide
  <2> QED
    BY Zenon, <1>1, <2>1 DEF DenyInv
<1>2. ASSUME UNCHANGED <<frontend, policy, ran>>, pc' \notin {"approval", "execute"}
      PROVE  DenyInv'
  BY <1>1, <1>2
<1>3. ASSUME \/ Request \/ StopAtLimit \/ RequestFails
             \/ \E reply \in Replies : Reply(reply)
             \/ \E appended \in BOOLEAN : Save(appended)
      PROVE  DenyInv'
  BY <1>2, <1>3 DEF Request, StopAtLimit, RequestFails, Reply, Save, Finish
<1>4. ASSUME NotAgain \/ Refuse \/ Decline \/ ReleaseApproval
      PROVE  DenyInv'
  BY <1>2, <1>4 DEF NotAgain, Refuse, Decline, ReleaseApproval, GiveBack
<1>5. ASSUME Permit PROVE DenyInv'
  <2>1. /\ UNCHANGED <<frontend, policy, ran, todo>>
        /\ Head(todo).tool \in Registered \cap WellFormed
        /\ Evaluate(policy, ActionOf[Head(todo).tool]) # "deny"
    BY <1>5 DEF Permit, Valid, Verdict, loop
  <2>2. Runnable(Head(todo).tool)
    BY Zenon, <2>1, DeniedByRule DEF Runnable
  <2> QED
    BY <1>1, <2>1, <2>2
<1>6. ASSUME Approve \/ CancelTurn PROVE DenyInv'
  <2>1. /\ UNCHANGED <<frontend, policy, ran, todo>>
        /\ pc' \in {"approval", "execute"} => pc \in {"approval", "execute"}
    BY <1>6 DEF Approve, CancelTurn, loop
  <2> QED
    BY <1>1, <2>1 DEF DenyInv
<1>7. ASSUME NEW result \in Results, Execute(result) PROVE DenyInv'
  <2>1. /\ UNCHANGED <<frontend, policy>> /\ ran' = ran \cup {Head(todo)}
        /\ pc = "execute" /\ pc' \notin {"approval", "execute"}
    BY <1>7 DEF Execute, GiveBack
  <2> QED
    BY <1>1, <2>1 DEF DenyInv
<1>8. ASSUME EndTurn \/ Crash PROVE DenyInv'
  <2>1. policy' = policy /\ frontend' \in {frontend, "none"} /\ ran' = {} /\ pc' = "idle"
    BY <1>8 DEF EndTurn, Crash, Forget
  <2> QED
    BY <1>1, <2>1
<1>9. ASSUME NEW cost \in PromptCosts, NEW appended \in BOOLEAN, Ask(cost, appended)
      PROVE  DenyInv'
  <2>1. UNCHANGED <<frontend, policy, ran>> /\ pc' \in {"idle", "request"}
    BY <1>9 DEF Ask
  <2> QED
    BY <1>2, <2>1
<1>10. ASSUME NEW f \in Frontends, Open(f) PROVE DenyInv'
  <2>1. ran' = {} /\ pc' = "idle"
    BY <1>10 DEF Open, Shape, PhaseInv
  <2>2. "rules" \in DOMAIN policy'
    <3>1. PICK p \in Policies : policy' = NormalizePolicy(p)
      BY <1>10 DEF Open
    <3>2. "rules" \in DOMAIN p
      BY TurnAssumption
    <3> QED
      BY <3>1, <3>2 DEF NormalizePolicy
  <2> QED
    BY <2>1, <2>2 DEF DenyInv
<1>11. ASSUME SwitchMode PROVE DenyInv'
  <2>1. /\ UNCHANGED <<frontend, ran, pc, todo>> /\ frontend = "tui"
        /\ \E m \in Modes : policy' = [policy EXCEPT !.mode = m]
    BY <1>11 DEF SwitchMode, loop
  <2>2. "rules" \in DOMAIN policy' /\ policy'.rules = policy.rules
    BY <2>1 DEF DenyInv
  <2>3. \A tool : Runnable(tool)' <=> Runnable(tool)
    BY <2>2, RulesDecide
  <2> QED
    BY Zenon, <2>1, <2>2, <2>3 DEF DenyInv
<1>12. CASE UNCHANGED vars
  <2>1. UNCHANGED <<frontend, policy, ran, pc, todo>>
    BY <1>12 DEF vars, loop
  <2> QED
    BY <1>1, <2>1 DEF DenyInv
<1> QED
  BY Zenon, <1>3, <1>4, <1>5, <1>6, <1>7, <1>8, <1>9, <1>10, <1>11, <1>12
     DEF Next, Loop, User

\* A call that is given back is none of those that ran before.
LEMMA UpIsNew ==
  ASSUME Shape, IdInv, todo # <<>>
  PROVE  /\ Head(todo) \notin ran
         /\ \A call \in ran : call.id # Head(todo).id
         /\ ResultsOf(produced, Head(todo)) = {}
<1>1. todo \in Seq(Calls) /\ iteration \in Nat /\ DOMAIN produced = 1..Len(produced)
  BY DEF Shape, TypeInv
<1>2. ~Past(Head(todo).id, iteration, todo)
  BY Zenon, <1>1, NextCall DEF IdInv
<1> QED
  BY Zenon, <1>1, <1>2 DEF IdInv, ResultsOf

LEMMA ToldStep ==
  ASSUME Shape, IdInv, ToldInv, [Next]_vars
  PROVE  ToldInv'
<1>0. produced \in Seq(Messages) /\ DOMAIN produced = 1..Len(produced) /\ Len(produced) \in Nat
  BY DEF Shape, TypeInv
<1>1. ASSUME ran' = ran, produced' = produced PROVE ToldInv'
  BY <1>1 DEF ToldInv
<1>2. ASSUME ran' = {} PROVE ToldInv'
  BY <1>2 DEF ToldInv
<1>3. ASSUME NEW m \in Messages
      PROVE  LET l == Len(produced)
                 s == Append(produced, m)
             IN /\ l \in Nat /\ DOMAIN s = 1..(l + 1) /\ s[l + 1] = m
                /\ \A i \in 1..l : s[i] = produced[i]
                /\ \A i \in 1..(l + 1) : i \in 1..l \/ i = l + 1
                /\ l + 1 \notin 1..l /\ 1..l \subseteq 1..(l + 1) /\ l + 1 \in 1..(l + 1)
  BY <1>0, AppendProperties
<1>4. ASSUME NEW m \in Messages, NEW call, ToldOnce(produced, call),
             m.role = "tool" => m.answers[1].id # call.id
      PROVE  ToldOnce(Append(produced, m), call)
  <2> DEFINE l == Len(produced)
             s == Append(produced, m)
  <2>1. /\ DOMAIN s = 1..(l + 1) /\ s[l + 1] = m
        /\ \A i \in 1..l : s[i] = produced[i]
        /\ \A i \in 1..(l + 1) : i \in 1..l \/ i = l + 1
        /\ 1..l \subseteq 1..(l + 1) /\ DOMAIN produced = 1..l
    BY Zenon, <1>0, <1>3
  <2> HIDE DEF l, s
  <2>2. ASSUME NEW i \in ResultsOf(produced, call) PROVE i \in ResultsOf(s, call)
    BY Zenon, <2>1 DEF ResultsOf
  <2>3. ASSUME NEW i \in ResultsOf(s, call) PROVE i \in ResultsOf(produced, call)
    <3>1. i \in 1..(l + 1) /\ s[i].role = "tool" /\ s[i].answers[1].id = call.id
      BY Zenon, <2>1 DEF ResultsOf
    <3>2. i # l + 1
      BY Zenon, <1>4, <2>1, <3>1
    <3> QED
      BY Zenon, <2>1, <3>1, <3>2 DEF ResultsOf
  <2>4. ResultsOf(Append(produced, m), call) = ResultsOf(produced, call)
    BY Zenon, <2>2, <2>3 DEF s
  <2> QED
    BY Zenon, <1>0, <1>3, <1>4, <2>4 DEF ToldOnce
<1>5. ASSUME NEW failed \in BOOLEAN, NEW counted \in BOOLEAN, NEW cost \in Costs,
             CallEnds(failed, counted, cost)
      PROVE  ToldInv'
  <2> DEFINE h == Head(todo)
             m == Answer(h, failed, cost)
  <2>1. todo # <<>> /\ GiveBack(failed, counted, cost) /\ (ran' = ran \/ ran' = ran \cup {h})
    BY <1>5 DEF CallEnds
  <2>2. h \in Calls /\ m \in Messages /\ produced' = Append(produced, m)
    BY Zenon, <2>1, GivenBack
  <2>3. m.role = "tool" /\ m.answers[1].id = h.id
    BY Zenon, <2>2, AnswerMessages
  <2>4. /\ \A call \in ran : call.id # h.id
        /\ ResultsOf(produced, h) = {}
    BY Zenon, <2>1, UpIsNew
  <2> HIDE DEF h, m
  <2>5. \A call \in ran : ToldOnce(produced', call)
    BY Zenon, <1>4, <2>2, <2>3, <2>4 DEF ToldInv
  <2>6. ToldOnce(produced', h)
    <3>1. Len(produced) + 1 \in ResultsOf(produced', h)
      BY Zenon, <1>3, <2>2, <2>3 DEF ResultsOf
    <3>2. ASSUME NEW j \in ResultsOf(produced', h) PROVE j = Len(produced) + 1
      <4>1. /\ j \in 1..(Len(produced) + 1)
            /\ produced'[j].role = "tool" /\ produced'[j].answers[1].id = h.id
        BY Zenon, <1>3, <2>2 DEF ResultsOf
      <4>2. ASSUME j \in 1..Len(produced) PROVE FALSE
        <5>1. produced'[j] = produced[j] /\ j \in DOMAIN produced
          BY Zenon, <1>0, <1>3, <2>2, <4>2
        <5>2. j \in ResultsOf(produced, h)
          BY Zenon, <4>1, <5>1 DEF ResultsOf
        <5> QED
          BY Zenon, <2>4, <5>2
      <4> QED
        BY Zenon, <1>3, <2>2, <4>1, <4>2
    <3>3. Len(produced) + 1 \in DOMAIN produced'
      BY Zenon, <1>3, <2>2
    <3> QED
      BY Zenon, <3>1, <3>2, <3>3 DEF ToldOnce
  <2> QED
    BY Zenon, <2>1, <2>5, <2>6 DEF ToldInv
<1>6. ASSUME NEW reply \in Replies, Reply(reply) PROVE ToldInv'
  <2> DEFINE m == Assistant(CallsOf(reply))
  <2>1. m \in Messages /\ m.role = "assistant"
    BY Zenon, CallsOfReply, AssistantMessages DEF Shape, TypeInv
  <2>2. produced' = Append(produced, m) /\ ran' = ran
    BY <1>6 DEF Reply
  <2> HIDE DEF m
  <2>3. m.role # "tool"
    BY <2>1
  <2> QED
    BY Zenon, <1>4, <2>1, <2>2, <2>3 DEF ToldInv
<1>7. ASSUME \/ \E cost \in PromptCosts, appended \in BOOLEAN : Ask(cost, appended)
             \/ \E f \in Frontends : Open(f)
      PROVE  ToldInv'
  BY <1>2, <1>7 DEF Ask, Open, Shape, PhaseInv
<1>8. ASSUME EndTurn \/ Crash PROVE ToldInv'
  BY <1>2, <1>8 DEF EndTurn, Crash, Forget
<1>9. ASSUME \/ \E ok \in BOOLEAN : LoopStops(ok)
             \/ CallMoves \/ Request \/ UNCHANGED vars
             \/ \E appended \in BOOLEAN : Save(appended)
      PROVE  ToldInv'
  <2>1. ran' = ran /\ produced' = produced
    BY <1>9 DEF LoopStops, CallMoves, Request, Save, vars, loop
  <2> QED
    BY <1>1, <2>1
<1> QED
  BY Zenon, <1>5, <1>6, <1>7, <1>8, <1>9, StepCases DEF OtherSteps

-----------------------------------------------------------------------------
(* Theorems.                                                                  *)

LEMMA TypesHold == Spec => []Shape
BY ShapeInit, ShapeStep, PTL DEF Spec

\* Every call the model makes in a turn is answered once, in order, right after
\* the message that makes it, whatever becomes of the call (loop.go:137-158).
THEOREM EveryCallAnswered == Spec => []CallsAnswered
<1>1. Init => AnswerInv /\ PairInv
  BY AnswersInit
<1>2. Shape /\ AnswerInv /\ PairInv /\ [Next]_vars => AnswerInv' /\ PairInv'
  BY AnswersStep
<1>3. Shape /\ AnswerInv => CallsAnswered
  <2> SUFFICES ASSUME Shape, AnswerInv, NEW i \in DOMAIN produced,
                      produced[i].role = "assistant"
               PROVE  LET answered == Cardinality(AnsweredAt(produced, i)) IN
                        IF todo # <<>> /\ i + answered = Len(produced)
                        THEN SubSeq(produced[i].calls, answered + 1, Len(produced[i].calls)) = todo
                        ELSE AllAnswered(produced, i)
    BY Zenon DEF CallsAnswered
  <2>1. produced \in Seq(Messages) /\ todo \in Seq(Calls)
    BY DEF Shape, TypeInv
  <2> QED
    BY Zenon, <2>1, OpenOrClosedCounts DEF AnswerInv
<1> QED
  BY <1>1, <1>2, <1>3, TypesHold, PTL DEF Spec

\* A tool result is never sent in a bounded prompt, and never stored, without
\* the call it answers before it (context.go:567-572), however long the stored
\* conversation is and wherever it is cut.
THEOREM NoOrphanResults == Spec => []ResultsArePaired
<1>1. Init => AnswerInv /\ PairInv
  BY AnswersInit
<1>2. Shape /\ AnswerInv /\ PairInv /\ [Next]_vars => AnswerInv' /\ PairInv'
  BY AnswersStep
<1>3. Shape /\ PairInv => ResultsArePaired
  <2> SUFFICES ASSUME Shape, PairInv PROVE Paired(transcript)
    BY DEF ResultsArePaired, PairInv
  <2>1. transcript \in Seq(Messages) /\ saving \in Seq(Messages)
    BY DEF Shape, TypeInv
  <2>2. Whole(transcript)
    BY Zenon, <2>1, WholePrefix DEF PairInv
  <2> QED
    BY Zenon, <2>1, <2>2, WholePaired
<1> QED
  BY <1>1, <1>2, <1>3, TypesHold, PTL DEF Spec

\* A call that has failed MaxRetries times in a turn is not run again, whatever
\* else the model calls in between (loop.go:326-341).
THEOREM RetriesBounded == Spec => []RetriesAreBounded
<1>1. Init => IdInv /\ RetryInv
  BY RetryInit
<1>2. Shape /\ IdInv /\ RetryInv /\ [Next]_vars => IdInv' /\ RetryInv'
  BY RetryStep
<1>3. Shape /\ RetryInv => RetriesAreBounded
  <2> SUFFICES ASSUME Shape, RetryInv, NEW t \in Tools, MaxRetries > 0
               PROVE  Cardinality(FailedRuns(t)) <= MaxRetries
    BY Zenon DEF RetriesAreBounded
  <2>1. Cardinality(FailedRuns(t)) <= failures[t] /\ failures[t] <= MaxRetries
    BY DEF RetryInv
  <2>2. IsFiniteSet(ran) /\ FailedRuns(t) \in SUBSET ran /\ failures[t] \in Nat
    BY DEF Shape, TypeInv, FailedRuns
  <2>3. Cardinality(FailedRuns(t)) \in Nat
    BY Zenon, <2>2, FS_Subset, FS_CardinalityType
  <2> QED
    BY <2>1, <2>2, <2>3, TurnAssumption
<1> QED
  BY <1>1, <1>2, <1>3, TypesHold, PTL DEF Spec

\* What the store has of a session that is open in the TUI, the TUI's
\* conversation has too, in the same order (model.go:536-548, 575), although any
\* append may fail and a turn be interrupted anywhere.
THEOREM MemoryKeepsTranscript == Spec => []MemoryHasTranscript
<1>1. Init => MemoryInv
  BY MemoryInit
<1>2. Shape /\ MemoryInv /\ [Next]_vars => MemoryInv'
  BY MemoryStep
<1>3. Shape /\ MemoryInv => MemoryHasTranscript
  <2> SUFFICES ASSUME Shape, MemoryInv, frontend = "tui", pc = "idle"
               PROVE  Subsequence(transcript, memory)
    BY Zenon DEF MemoryHasTranscript
  <2>1. Recorded(<<>>)
    BY DEF MemoryInv, Recorded
  <2>2. memory \o <<>> = memory
    BY Zenon, Joined, EmptySeq DEF Shape, TypeInv
  <2> QED
    BY <2>1, <2>2 DEF Recorded
<1> QED
  BY <1>1, <1>2, <1>3, TypesHold, PTL DEF Spec

\* What a rule of the policy denies is never run, nor a tool that does not exist
\* or has bad arguments: whatever the user approves, and although he may switch
\* the mode while a call waits for his answer (loop.go:269-318, dispatch.go).
NeverDenied ==
  \A call \in ran : /\ call.tool \in Registered \cap WellFormed
                    /\ Evaluate(policy, ActionOf[call.tool]) # "deny"

THEOREM DeniedNeverRuns == Spec => []NeverDenied
<1>1. DenyInv => NeverDenied
  BY Zenon, DeniedByRule DEF DenyInv, Runnable, NeverDenied
<1> QED
  BY <1>1, DenyInit, DenyStep, TypesHold, PTL DEF Spec

\* No call is run twice, and every call that ran has one result in what the turn
\* produced: no effect of a tool is repeated or goes untold to the model
\* (loop.go:135-158).
RunsOnce == [][\A result \in Results : Execute(result) => Head(todo) \notin ran]_vars
RunsAreTold == \A call \in ran : ToldOnce(produced, call)

THEOREM RunOnceAndTold == Spec => []RunsAreTold /\ RunsOnce
<1>1. Shape /\ IdInv /\ RetryInv /\ [Next]_vars => IdInv' /\ RetryInv'
  BY RetryStep
<1>2. Init => ToldInv
  BY DEF Init, ToldInv
<1>3. Shape /\ IdInv /\ ToldInv /\ [Next]_vars => ToldInv'
  BY ToldStep
<1>4. Shape /\ IdInv /\ [Next]_vars
        => [\A result \in Results : Execute(result) => Head(todo) \notin ran]_vars
  <2>1. pc = "execute" /\ Shape => todo # <<>>
    BY DEF Shape, PhaseInv, Calling
  <2> QED
    BY Zenon, <2>1, UpIsNew DEF Execute
<1>5. Spec => [](Shape /\ IdInv /\ ToldInv)
  BY <1>1, <1>2, <1>3, RetryInit, TypesHold, PTL DEF Spec
<1>6. ToldInv => RunsAreTold
  BY DEF ToldInv, RunsAreTold
<1> QED
  BY <1>4, <1>5, <1>6, PTL DEF Spec, RunsOnce

\* What a tool did in a turn of the TUI, interrupted or not, is in the
\* conversation of the next one (model.go:536-548).
RunsAreRemembered ==
  [][EndTurn /\ frontend = "tui" =>
       \A call \in ran : ResultsOf(memory', call) # {}]_vars

THEOREM RunsRemembered == Spec => RunsAreRemembered
<1>1. ASSUME Shape, RunsAreTold, EndTurn, frontend = "tui", NEW call \in ran
      PROVE  ResultsOf(memory', call) # {}
  <2>1. PICK k : k \in ResultsOf(produced, call)
    BY <1>1 DEF RunsAreTold, ToldOnce
  <2>2. /\ memory \in Seq(Messages) /\ produced \in Seq(Messages)
        /\ memory' = memory \o produced
    BY <1>1 DEF EndTurn, Shape, TypeInv
  <2>3. k \in 1..Len(produced) /\ Len(memory) \in Nat /\ Len(produced) \in Nat
    BY <2>1, <2>2 DEF ResultsOf
  <2>4. /\ memory \o produced \in Seq(Messages)
        /\ Len(memory \o produced) = Len(memory) + Len(produced)
        /\ (memory \o produced)[Len(memory) + k] = produced[k]
    BY <2>2, <2>3
  <2>5. Len(memory) + k \in DOMAIN memory'
    BY <2>2, <2>3, <2>4
  <2> QED
    BY Zenon, <2>1, <2>2, <2>4, <2>5 DEF ResultsOf
<1>2. Shape /\ RunsAreTold /\ [Next]_vars
        => [EndTurn /\ frontend = "tui" => \A call \in ran : ResultsOf(memory', call) # {}]_vars
  BY Zenon, <1>1
<1> QED
  BY <1>2, RunOnceAndTold, TypesHold, PTL DEF Spec, RunsAreRemembered

-----------------------------------------------------------------------------
(* The terminal: what is on screen, what waits, and the news between them.    *)

\* An event that is on its way, or was dropped.
Sent(s, l, e) == U!Contains(s, e) \/ e \in l

\* A request that was announced and waits no more: the news of its end is behind,
\* or was dropped.
EndsFollow(s, l, w) ==
  \A i \in 1..Len(s) : s[i].kind = "added" /\ s[i].of # w =>
    \/ \E j \in (i + 1)..Len(s) : s[j] = U!Event("ended", s[i].of)
    \/ U!Event("ended", s[i].of) \in l

\* How the prompt on screen, the waiting request and the news of it stand, for a
\* task that goes on or has been cancelled.
InStep(p, w, s, l, over) ==
  /\ w # 0 /\ ~over => p # 0 \/ s # <<>>
  /\ p # 0 /\ p # w => Sent(s, l, U!Event("ended", p))
  /\ EndsFollow(s, l, w)

News == [kind : {"added", "ended"}, of : Nat \ {0}]

TerminalInv ==
  /\ steps \in Nat /\ prompt \in 0..steps /\ waiting \in 0..steps
  /\ news \in Seq(News) /\ \A i \in 1..Len(news) : news[i].of <= steps
  /\ worker # "none" => active
  /\ waiting # 0 => worker = "asking"
  /\ "cancelled" \in DOMAIN task
  /\ ~exited => InStep(prompt, waiting, news, lost, task.cancelled)

LEMMA AppendedNews ==
  ASSUME NEW s \in Seq(News), NEW m \in News
  PROVE  /\ Append(s, m) \in Seq(News) /\ Append(s, m) # <<>>
         /\ U!Contains(Append(s, m), m)
         /\ \A e : U!Contains(s, e) => U!Contains(Append(s, m), e)
         /\ \A i \in 1..Len(Append(s, m)) : Append(s, m)[i] = m \/ i \in 1..Len(s)
         /\ \A i \in 1..Len(s) : Append(s, m)[i] = s[i]
<1> DEFINE t == Append(s, m)
           l == Len(s)
<1>1. /\ t \in Seq(News) /\ t # <<>> /\ Len(t) = l + 1 /\ l \in Nat /\ t[l + 1] = m
      /\ \A k \in 1..l : t[k] = s[k]
  BY AppendProperties
<1> HIDE DEF t, l
<1>2. \A i \in 1..Len(t) : i \in 1..l \/ i = l + 1
  BY <1>1
<1>3. l + 1 \in 1..Len(t) /\ \A i \in 1..l : i \in 1..Len(t)
  BY <1>1
<1>4. \A e : U!Contains(s, e) => U!Contains(t, e)
  BY Zenon, <1>1, <1>3 DEF U!Contains, l
<1>5. U!Contains(t, m)
  BY Zenon, <1>1, <1>3 DEF U!Contains
<1> QED
  BY Zenon, <1>1, <1>2, <1>4, <1>5 DEF t, l

LEMMA TakenNews ==
  ASSUME NEW s \in Seq(News), s # <<>>
  PROVE  /\ Head(s) \in News /\ Tail(s) \in Seq(News)
         /\ \A e : U!Contains(s, e) /\ e # Head(s) => U!Contains(Tail(s), e)
         /\ \A e : U!Contains(Tail(s), e) => Tail(s) # <<>>
         /\ \A i \in 1..Len(Tail(s)) : i + 1 \in 1..Len(s) /\ Tail(s)[i] = s[i + 1]
         /\ 1 \in 1..Len(s) /\ Head(s) = s[1]
         /\ \A l, w : EndsFollow(s, l, w) =>
              /\ EndsFollow(Tail(s), l, w)
              /\ Head(s).kind = "added" /\ Head(s).of # w =>
                   Sent(Tail(s), l, U!Event("ended", Head(s).of))
<1> DEFINE t == Tail(s)
           l == Len(s)
           lt == Len(t)
           h == Head(s)
<1>1. /\ h \in News /\ t \in Seq(News) /\ l \in Nat /\ l # 0 /\ lt = l - 1 /\ h = s[1]
      /\ \A i \in 1..lt : t[i] = s[i + 1]
  BY HeadTailProperties, EmptySeq
<1>2. \A e : U!Contains(t, e) => t # <<>>
  <2>1. 1..Len(<<>>) = {}
    OBVIOUS
  <2> QED
    BY Zenon, <2>1 DEF U!Contains
<1> HIDE DEF t, lt, h, l
<1>3. \A i \in 1..lt : i + 1 \in 1..l
  BY <1>1
<1>4. 1 \in 1..l
  BY <1>1
<1>5. \A j \in 1..l : j = 1 \/ (j - 1 \in 1..lt /\ (j - 1) + 1 = j)
  BY <1>1
<1>6. \A j \in 1..l : j = 1 \/ (j - 1 \in 1..lt /\ t[j - 1] = s[j])
  BY Zenon, <1>1, <1>5
<1>7. ASSUME NEW e, U!Contains(s, e), e # h PROVE U!Contains(t, e)
  <2>1. PICK j \in 1..l : s[j] = e
    BY Zenon, <1>7 DEF U!Contains, l
  <2>2. j - 1 \in 1..lt /\ t[j - 1] = e
    BY Zenon, <1>1, <1>6, <1>7, <2>1
  <2> QED
    BY Zenon, <2>2 DEF U!Contains, lt
<1>8. ASSUME NEW d, NEW w, EndsFollow(s, d, w)
      PROVE  /\ EndsFollow(t, d, w)
             /\ h.kind = "added" /\ h.of # w => Sent(t, d, U!Event("ended", h.of))
  <2>1. ASSUME NEW i \in 1..lt, t[i].kind = "added", t[i].of # w,
               U!Event("ended", t[i].of) \notin d
        PROVE  \E j \in (i + 1)..lt : t[j] = U!Event("ended", t[i].of)
    <3>1. PICK j \in ((i + 1) + 1)..l : s[j] = U!Event("ended", t[i].of)
      BY Zenon, <1>1, <1>3, <1>8, <2>1 DEF EndsFollow, l
    <3>2. j - 1 \in (i + 1)..lt /\ j \in 1..l /\ j # 1
      BY <1>1, <3>1
    <3>3. t[j - 1] = s[j]
      BY Zenon, <1>6, <3>2
    <3> QED
      BY Zenon, <3>1, <3>2, <3>3
  <2>2. ASSUME h.kind = "added", h.of # w, U!Event("ended", h.of) \notin d
        PROVE  U!Contains(t, U!Event("ended", h.of))
    <3>1. PICK j \in (1 + 1)..l : s[j] = U!Event("ended", h.of)
      BY Zenon, <1>1, <1>4, <1>8, <2>2 DEF EndsFollow, l
    <3>2. j \in 1..l /\ j # 1
      BY <1>1, <3>1
    <3>3. j - 1 \in 1..lt /\ t[j - 1] = s[j]
      BY Zenon, <1>6, <3>2
    <3> QED
      BY Zenon, <3>1, <3>3 DEF U!Contains, lt
  <2> QED
    BY Zenon, <2>1, <2>2 DEF EndsFollow, Sent, lt
<1> QED
  BY Zenon, <1>1, <1>2, <1>3, <1>4, <1>7, <1>8 DEF t, l, lt, h

\* The request that waits is announced, or its end is.
LEMMA EndsFollowAppend ==
  ASSUME NEW s \in Seq(News), NEW d, NEW m \in News, NEW w, NEW v,
         EndsFollow(s, d, w), m.kind = "added" => m.of = v,
         \/ w = 0
         \/ v = w
         \/ m = U!Event("ended", w)
  PROVE  EndsFollow(Append(s, m), d, v)
<1> DEFINE t == Append(s, m)
           l == Len(s)
<1>1. /\ Len(t) = l + 1 /\ l \in Nat /\ t[l + 1] = m
      /\ \A k \in 1..l : t[k] = s[k]
  BY AppendProperties
<1>2. \A i \in 1..l : s[i].of # 0
  <2>1. \A i \in 1..l : s[i] \in News
    OBVIOUS
  <2>2. \A m1 \in News : m1.of # 0
    BY DEF News
  <2> QED
    BY Zenon, <2>1, <2>2
<1> HIDE DEF t, l
<1> SUFFICES ASSUME NEW i \in 1..(l + 1), t[i].kind = "added", t[i].of # v,
                    U!Event("ended", t[i].of) \notin d
             PROVE  \E j \in (i + 1)..(l + 1) : t[j] = U!Event("ended", t[i].of)
  BY Zenon, <1>1 DEF EndsFollow, t
<1>3. i # l + 1
  BY <1>1
<1>4. i \in 1..l /\ t[i] = s[i] /\ l + 1 \in (i + 1)..(l + 1)
  BY <1>1, <1>3
<1>5. CASE s[i].of = w
  <2>1. m = U!Event("ended", w)
    BY <1>2, <1>4, <1>5
  <2> QED
    BY Zenon, <1>1, <1>4, <1>5, <2>1
<1>6. CASE s[i].of # w
  <2>1. PICK j \in (i + 1)..l : s[j] = U!Event("ended", s[i].of)
    BY Zenon, <1>4, <1>6 DEF EndsFollow, l
  <2>2. j \in 1..l /\ j \in (i + 1)..(l + 1)
    BY <1>1, <1>4, <2>1
  <2> QED
    BY Zenon, <1>1, <1>4, <2>1, <2>2
<1> QED
  BY <1>5, <1>6

\* What telling an event does, whether it finds room or not: the news that was
\* sent stays sent.
LEMMA ToldKeeps ==
  ASSUME news \in Seq(News), NEW m \in News, U!Tell(m), NEW w, NEW v,
         EndsFollow(news, lost, w), m.kind = "added" => m.of = v,
         \/ w = 0
         \/ v = w
         \/ m = U!Event("ended", w)
  PROVE  /\ news' \in Seq(News) /\ news' # <<>>
         /\ Sent(news', lost', m)
         /\ \A e : Sent(news, lost, e) => Sent(news', lost', e)
         /\ \A i \in 1..Len(news') :
              news'[i] = m \/ (i \in 1..Len(news) /\ news'[i] = news[i])
         /\ EndsFollow(news', lost', v)
<1>1. CASE news' = Append(news, m) /\ lost' = lost
  <2>1. /\ news' \in Seq(News) /\ news' # <<>> /\ U!Contains(news', m)
        /\ \A e : U!Contains(news, e) => U!Contains(news', e)
        /\ \A i \in 1..Len(news') : news'[i] = m \/ i \in 1..Len(news)
        /\ \A i \in 1..Len(news) : news'[i] = news[i]
    BY Zenon, <1>1, AppendedNews
  <2>2. EndsFollow(news', lost', v)
    BY Zenon, <1>1, EndsFollowAppend
  <2> QED
    BY Zenon, <1>1, <2>1, <2>2 DEF Sent
<1>2. CASE news' = news /\ lost' = lost \cup {m} /\ Len(news) >= FeedSize
  <2>1. news # <<>>
    BY <1>2, EmptySeq, FeedAssumption
  <2>2. \A i \in 1..Len(news) : news[i].of # 0
    <3>1. \A i \in 1..Len(news) : news[i] \in News
      OBVIOUS
    <3>2. \A n \in News : n.of # 0
      BY DEF News
    <3> QED
      BY Zenon, <3>1, <3>2
  <2>3. m \in lost' /\ \A e \in lost : e \in lost'
    BY <1>2
  <2>4. EndsFollow(news, lost', v)
    <3> SUFFICES ASSUME NEW i \in 1..Len(news), news[i].kind = "added", news[i].of # v,
                        U!Event("ended", news[i].of) \notin lost'
                 PROVE  \E j \in (i + 1)..Len(news) : news[j] = U!Event("ended", news[i].of)
      BY Zenon DEF EndsFollow
    <3>1. news[i].of # w
      BY Zenon, <2>2, <2>3
    <3> QED
      BY Zenon, <2>3, <3>1 DEF EndsFollow
  <2> QED
    BY Zenon, <1>2, <2>1, <2>3, <2>4 DEF Sent
<1> QED
  BY Zenon, <1>1, <1>2 DEF U!Tell

LEMMA TerminalInit == U!Init => TerminalInv
<1>1. 1..Len(<<>>) = {}
  OBVIOUS
<1>2. "cancelled" \in DOMAIN U!NoTask
  BY DEF U!NoTask
<1> QED
  BY <1>1, <1>2, EmptySeq DEF U!Init, TerminalInv, InStep, EndsFollow

\* What a step does to the queue and the screen, whatever else it does.
Quiet == UNCHANGED <<prompt, waiting, news, lost, exited>>

\* It leaves a request waiting only for the task that asked, cancelled or not.
SameTask ==
  /\ "cancelled" \in DOMAIN task'
  /\ waiting' = 0 \/ task'.cancelled \/ task'.cancelled = task.cancelled

\* The request that waits, if one does, is over.
Over(p) ==
  /\ waiting' = 0 /\ prompt' = p
  /\ IF waiting = 0 THEN UNCHANGED <<news, lost>> ELSE U!Tell(U!Event("ended", waiting))

LEMMA OverKeeps ==
  ASSUME TerminalInv, NEW p, Over(p), p = 0 \/ p = prompt
  PROVE  /\ news' \in Seq(News)
         /\ \A i \in 1..Len(news') : news'[i].of <= steps
         /\ \A over : ~exited => InStep(prompt', waiting', news', lost', over)
<1>0. /\ steps \in Nat /\ prompt \in 0..steps /\ waiting \in 0..steps /\ news \in Seq(News)
      /\ \A i \in 1..Len(news) : news[i].of <= steps
      /\ ~exited => InStep(prompt, waiting, news, lost, task.cancelled)
  BY DEF TerminalInv
<1>1. CASE waiting = 0
  BY <1>0, <1>1 DEF Over, InStep
<1>2. CASE waiting # 0
  <2> DEFINE m == U!Event("ended", waiting)
  <2>1. m \in News /\ m.kind = "ended" /\ m.of = waiting
    BY <1>0, <1>2 DEF News, U!Event
  <2>2. U!Tell(m) /\ waiting' = 0 /\ prompt' = p
    BY <1>2 DEF Over
  <2> HIDE DEF m
  <2>3. CASE exited
    <3>1. news' = Append(news, m) \/ news' = news
      BY Zenon, <2>2 DEF U!Tell
    <3>2. m.of <= steps
      BY <1>0, <2>1
    <3>3. CASE news' = news
      BY Zenon, <1>0, <2>3, <3>3
    <3>4. CASE news' = Append(news, m)
      <4>1. /\ news' \in Seq(News)
            /\ \A i \in 1..Len(news') : news'[i] = m \/ i \in 1..Len(news)
            /\ \A i \in 1..Len(news) : news'[i] = news[i]
        BY Zenon, <1>0, <2>1, <3>4, AppendedNews
      <4>2. \A i \in 1..Len(news') : news'[i].of <= steps
        BY Zenon, <1>0, <3>2, <4>1
      <4> QED
        BY Zenon, <2>3, <4>1, <4>2
    <3> QED
      BY Zenon, <3>1, <3>3, <3>4
  <2>4. CASE ~exited
    <3>1. EndsFollow(news, lost, waiting)
      BY Zenon, <1>0, <2>4 DEF InStep
    <3>2. /\ news' \in Seq(News) /\ Sent(news', lost', m)
          /\ \A e : Sent(news, lost, e) => Sent(news', lost', e)
          /\ \A i \in 1..Len(news') :
               news'[i] = m \/ (i \in 1..Len(news) /\ news'[i] = news[i])
          /\ EndsFollow(news', lost', 0)
      BY Zenon, <1>0, <2>1, <2>2, <3>1, ToldKeeps DEF m
    <3>3. m.of <= steps
      BY <1>0, <2>1
    <3>4. \A i \in 1..Len(news') : news'[i].of <= steps
      BY Zenon, <1>0, <3>2, <3>3
    <3>5. p # 0 => Sent(news', lost', U!Event("ended", p))
      BY Zenon, <1>0, <2>4, <3>2 DEF InStep, m
    <3> QED
      BY Zenon, <2>2, <3>2, <3>4, <3>5 DEF InStep
  <2> QED
    BY <2>3, <2>4
<1> QED
  BY <1>1, <1>2

LEMMA TerminalStep ==
  ASSUME TerminalInv, [U!Next]_U!vars
  PROVE  TerminalInv'
<1>0. /\ steps \in Nat /\ prompt \in 0..steps /\ waiting \in 0..steps /\ news \in Seq(News)
      /\ \A i \in 1..Len(news) : news[i].of <= steps
      /\ worker # "none" => active
      /\ waiting # 0 => worker = "asking"
      /\ "cancelled" \in DOMAIN task
      /\ ~exited => InStep(prompt, waiting, news, lost, task.cancelled)
  BY DEF TerminalInv
<1>1. ASSUME NEW i \in 1..Len(news) PROVE news[i] \in News /\ news[i].of \in Nat
  <2>1. news[i] \in News
    BY <1>0
  <2>2. \A m \in News : m.of \in Nat
    BY DEF News
  <2> QED
    BY Zenon, <2>1, <2>2
<1>2. ASSUME Quiet, SameTask, steps' = steps \/ steps' = steps + 1,
             worker' # "none" => active', waiting # 0 => worker' = "asking"
      PROVE  TerminalInv'
  <2>1. /\ steps' \in Nat /\ prompt \in 0..steps' /\ waiting \in 0..steps'
        /\ \A k \in Nat : k <= steps => k <= steps'
    BY <1>0, <1>2
  <2>2. \A i \in 1..Len(news) : news[i].of <= steps'
    BY Zenon, <1>0, <1>1, <2>1
  <2>3. ~exited => InStep(prompt, waiting, news, lost, task'.cancelled)
    BY Zenon, <1>0, <1>2 DEF InStep, SameTask, Quiet
  <2> QED
    BY Zenon, <1>0, <1>2, <2>1, <2>2, <2>3 DEF TerminalInv, Quiet, SameTask
<1>3. ASSUME NEW p, Over(p), p = 0 \/ p = prompt, exited => exited', steps' = steps,
             SameTask, worker' # "none" => active'
      PROVE  TerminalInv'
  <2>1. /\ news' \in Seq(News)
        /\ \A i \in 1..Len(news') : news'[i].of <= steps
        /\ ~exited => InStep(prompt', waiting', news', lost', task'.cancelled)
    BY Zenon, <1>3, OverKeeps
  <2>2. prompt' \in 0..steps /\ waiting' = 0 /\ waiting' \in 0..steps
    BY <1>0, <1>3 DEF Over
  <2> QED
    BY Zenon, <1>0, <1>3, <2>1, <2>2 DEF TerminalInv, SameTask
<1>4. ASSUME UNCHANGED <<waiting, news, lost, exited, steps, worker, active>>, ~exited, SameTask,
             prompt' = waiting \/ (prompt' = 0 /\ task'.cancelled)
      PROVE  TerminalInv'
  <2>1. InStep(prompt', waiting, news, lost, task'.cancelled) /\ prompt' \in 0..steps
    BY <1>0, <1>4 DEF InStep
  <2> QED
    BY Zenon, <1>0, <1>4, <2>1 DEF TerminalInv, SameTask
<1>5. ASSUME U!StorePrompt(TRUE) \/ U!StorePrompt(FALSE) \/ U!Save(TRUE) \/ U!Save(FALSE)
             \/ U!Publish \/ U!Answered \/ U!Return(TRUE) \/ U!Return(FALSE) \/ U!Abandoned
      PROVE  TerminalInv'
  <2>1. Quiet /\ (steps' = steps \/ steps' = steps + 1) /\ active' = active
    BY <1>5 DEF Quiet, U!StorePrompt, U!Save, U!Publish, U!Answered, U!Return, U!Abandoned,
                U!screen, U!broker
  <2>2. waiting # 0 => worker' = "asking"
    BY <1>0, <1>5 DEF U!StorePrompt, U!Save, U!Publish, U!Answered, U!Return, U!Abandoned
  <2>3. worker' # "none" => worker # "none"
    BY <1>5 DEF U!StorePrompt, U!Save, U!Publish, U!Answered, U!Return, U!Abandoned
  <2>4. SameTask
    <3>1. CASE task' = task
      BY Zenon, <1>0, <3>1 DEF SameTask
    <3>2. CASE \E b : task' = [task EXCEPT !.produced = b]
      BY <1>0, <3>2 DEF SameTask
    <3> QED
      BY <1>5, <3>1, <3>2
      DEF U!StorePrompt, U!Save, U!Publish, U!Answered, U!Return, U!Abandoned
  <2> QED
    BY Zenon, <1>0, <1>2, <2>1, <2>2, <2>3, <2>4
<1>6. ASSUME U!Ask PROVE TerminalInv'
  <2>1. /\ worker = "running" /\ steps' = steps + 1
        /\ UNCHANGED <<prompt, active, exited, task>>
    BY <1>6 DEF U!Ask, U!screen
  <2>2. waiting = 0
    BY <1>0, <2>1
  <2>3. CASE UNCHANGED <<worker, waiting, news, lost>>
    <3>1. SameTask
      BY Zenon, <1>0, <2>1 DEF SameTask
    <3> QED
      BY <1>0, <1>2, <2>1, <2>3, <3>1 DEF Quiet
  <2>4. CASE ~UNCHANGED <<worker, waiting, news, lost>>
    <3> DEFINE m == U!Event("added", steps + 1)
    <3>1. worker' = "asking" /\ waiting' = steps + 1 /\ U!Tell(m)
      BY <1>6, <2>4 DEF U!Ask
    <3>2. m \in News /\ m.of = steps + 1
      BY <1>0 DEF News, U!Event
    <3> HIDE DEF m
    <3>3. CASE exited
      <4>1. news' = Append(news, m) \/ news' = news
        BY Zenon, <3>1 DEF U!Tell
      <4>2. news' \in Seq(News) /\ \A i \in 1..Len(news') : news'[i] = m \/ news'[i].of <= steps
        <5>1. CASE news' = news
          BY Zenon, <1>0, <5>1
        <5>2. CASE news' = Append(news, m)
          <6>1. /\ news' \in Seq(News)
                /\ \A i \in 1..Len(news') : news'[i] = m \/ i \in 1..Len(news)
                /\ \A i \in 1..Len(news) : news'[i] = news[i]
            BY Zenon, <1>0, <3>2, <5>2, AppendedNews
          <6> QED
            BY Zenon, <1>0, <6>1
        <5> QED
          BY Zenon, <4>1, <5>1, <5>2
      <4>3. \A n \in News : n.of \in Nat
        BY DEF News
      <4>4. \A i \in 1..Len(news') : news'[i] \in News
        BY <4>2
      <4>5. m.of <= steps' /\ \A k \in Nat : k <= steps => k <= steps'
        BY <1>0, <2>1, <3>2
      <4>6. \A i \in 1..Len(news') : news'[i].of <= steps'
        BY Zenon, <4>2, <4>3, <4>4, <4>5
      <4>7. prompt \in 0..steps' /\ waiting' \in 0..steps' /\ steps' \in Nat
        BY <1>0, <2>1, <3>1
      <4> QED
        BY Zenon, <1>0, <2>1, <3>1, <3>3, <4>2, <4>6, <4>7 DEF TerminalInv
    <3>4. CASE ~exited
      <4>1. EndsFollow(news, lost, 0)
        BY Zenon, <1>0, <2>2, <3>4 DEF InStep
      <4>2. /\ news' \in Seq(News) /\ news' # <<>>
            /\ \A e : Sent(news, lost, e) => Sent(news', lost', e)
            /\ \A i \in 1..Len(news') :
                 news'[i] = m \/ (i \in 1..Len(news) /\ news'[i] = news[i])
            /\ EndsFollow(news', lost', waiting')
        BY Zenon, <1>0, <3>1, <3>2, <4>1, ToldKeeps
      <4>3. m.of <= steps' /\ \A k \in Nat : k <= steps => k <= steps'
        BY <1>0, <2>1, <3>2
      <4>4. \A i \in 1..Len(news') : news'[i].of <= steps'
        BY Zenon, <1>0, <1>1, <4>2, <4>3
      <4>5. prompt # 0 => Sent(news', lost', U!Event("ended", prompt))
        BY Zenon, <1>0, <2>2, <3>4, <4>2 DEF InStep
      <4>6. InStep(prompt, waiting', news', lost', task'.cancelled)
        BY Zenon, <4>2, <4>5 DEF InStep
      <4>7. prompt \in 0..steps' /\ waiting' \in 0..steps' /\ steps' \in Nat
        BY <1>0, <2>1, <3>1
      <4> QED
        BY Zenon, <1>0, <2>1, <3>1, <4>2, <4>4, <4>6, <4>7 DEF TerminalInv
    <3> QED
      BY <3>3, <3>4
  <2> QED
    BY <2>3, <2>4
<1>7. ASSUME U!Withdraw PROVE TerminalInv'
  <2>1. /\ Over(prompt) /\ exited' = exited /\ steps' = steps /\ active' = active
        /\ worker = "asking" /\ task' = task
    BY <1>7 DEF U!Withdraw, Over, U!screen
  <2>2. SameTask
    BY Zenon, <1>0, <2>1 DEF SameTask
  <2> QED
    BY Zenon, <1>0, <1>3, <2>1, <2>2
<1>8. ASSUME task' = [task EXCEPT !.cancelled = TRUE]
      PROVE  SameTask /\ task'.cancelled
  BY <1>0, <1>8 DEF SameTask
<1>9. ASSUME U!Exit \/ U!Shutdown PROVE TerminalInv'
  <2>1. /\ Over(0) \/ Over(prompt)
        /\ (exited => exited') /\ UNCHANGED <<steps, active, worker>>
        /\ task' = [task EXCEPT !.cancelled = TRUE]
    BY <1>9 DEF U!Exit, U!Shutdown, U!CancelTurn, Over, U!screen
  <2> QED
    BY Zenon, <1>0, <1>3, <1>8, <2>1
<1>10. ASSUME U!AnswerApproval \/ U!Interrupt PROVE TerminalInv'
  <2>1. /\ ~exited /\ UNCHANGED <<exited, steps, active, worker>>
        /\ task' = task \/ task' = [task EXCEPT !.cancelled = TRUE]
    BY <1>10 DEF U!AnswerApproval, U!Interrupt, U!CancelTurn
  <2>2. SameTask
    <3>1. CASE task' = task
      BY Zenon, <1>0, <3>1 DEF SameTask
    <3> QED
      BY Zenon, <1>8, <2>1, <3>1
  <2>3. CASE prompt # 0 /\ waiting = prompt /\ U!Resolve(prompt)
    <3>1. waiting' = 0 /\ U!Tell(U!Event("ended", prompt))
      BY Zenon, <2>3 DEF U!Resolve
    <3>2. prompt' = 0
      BY <1>10, <2>3, <3>1 DEF U!AnswerApproval, U!Interrupt, U!CancelTurn, U!Sync
    <3>3. Over(0)
      BY Zenon, <2>3, <3>1, <3>2 DEF Over
    <3> QED
      BY Zenon, <1>0, <1>3, <2>1, <2>2, <3>3
  <2>4. CASE ~(prompt # 0 /\ waiting = prompt) /\ U!Resolve(prompt)
    <3>1. UNCHANGED <<waiting, news, lost>>
      BY Zenon, <2>4 DEF U!Resolve
    <3>2. \/ prompt' = waiting
          \/ prompt' = 0 /\ task' = [task EXCEPT !.cancelled = TRUE]
          \/ UNCHANGED <<prompt, task>>
      BY <1>10, <3>1 DEF U!AnswerApproval, U!Interrupt, U!CancelTurn, U!Sync
    <3>3. CASE UNCHANGED <<prompt, task>>
      BY <1>0, <1>2, <2>1, <2>2, <3>1, <3>3 DEF Quiet
    <3> QED
      BY Zenon, <1>4, <1>8, <2>1, <2>2, <3>1, <3>2, <3>3
  <2>5. CASE UNCHANGED <<prompt, waiting, news, lost>>
    BY <1>0, <1>2, <2>1, <2>2, <2>5 DEF Quiet
  <2>6. U!Resolve(prompt) \/ UNCHANGED <<prompt, waiting, news, lost>>
    BY Zenon, <1>10 DEF U!AnswerApproval, U!Interrupt
  <2> QED
    BY Zenon, <2>3, <2>4, <2>5, <2>6
<1>11. ASSUME U!HandleApproval PROVE TerminalInv'
  <2> DEFINE e == Head(news)
             rest == Tail(news)
  <2>1. /\ ~exited /\ news # <<>> /\ news' = rest
        /\ UNCHANGED <<exited, steps, active, worker, waiting, lost, task>>
    BY <1>11 DEF U!HandleApproval
  <2>2. PICK shown : /\ shown = CASE e.kind = "added" /\ prompt = 0 -> e.of
                                  [] e.kind = "ended" /\ prompt = e.of -> 0
                                  [] OTHER -> prompt
                     /\ prompt' = IF shown = 0 THEN waiting ELSE shown
    BY <1>11 DEF U!HandleApproval, U!Sync
  <2>3. /\ e \in News /\ rest \in Seq(News)
        /\ \A m : U!Contains(news, m) /\ m # e => U!Contains(rest, m)
        /\ \A i \in 1..Len(rest) : i + 1 \in 1..Len(news) /\ rest[i] = news[i + 1]
        /\ 1 \in 1..Len(news) /\ e = news[1]
        /\ EndsFollow(rest, lost, waiting)
        /\ e.kind = "added" /\ e.of # waiting => Sent(rest, lost, U!Event("ended", e.of))
    BY Zenon, <1>0, <2>1, TakenNews DEF InStep
  <2> HIDE DEF e, rest
  <2>4. \A i \in 1..Len(rest) : rest[i].of <= steps
    BY Zenon, <1>0, <2>3
  <2>5. e.of \in 0..steps
    <3>1. e.of <= steps /\ e.of \in Nat
      BY Zenon, <1>0, <1>1, <2>3
    <3> QED
      BY <1>0, <3>1
  <2>6. shown \in 0..steps
    BY <1>0, <2>2, <2>5
  <2>7. ASSUME shown # 0, shown # waiting
        PROVE  Sent(rest, lost, U!Event("ended", shown))
    <3>1. CASE e.kind = "added" /\ prompt = 0
      BY <2>2, <2>3, <2>7, <3>1
    <3>2. CASE ~(e.kind = "added" /\ prompt = 0)
      <4>1. shown = prompt /\ ~(e.kind = "ended" /\ prompt = e.of)
        BY <2>2, <2>7, <3>2
      <4>2. U!Event("ended", shown) # e
        BY <4>1 DEF U!Event
      <4>3. Sent(news, lost, U!Event("ended", shown))
        BY <1>0, <2>1, <2>7, <4>1 DEF InStep
      <4> QED
        BY Zenon, <2>3, <4>2, <4>3 DEF Sent
    <3> QED
      BY <3>1, <3>2
  <2>8. InStep(prompt', waiting, rest, lost, task.cancelled)
    <3>1. CASE prompt' = waiting
      BY Zenon, <2>3, <3>1 DEF InStep
    <3>2. CASE prompt' # waiting
      <4>1. prompt' = shown /\ shown # 0 /\ shown # waiting
        BY <2>2, <3>2
      <4> QED
        BY Zenon, <2>3, <2>7, <4>1 DEF InStep
    <3> QED
      BY <3>1, <3>2
  <2>9. prompt' \in 0..steps
    BY <1>0, <2>2, <2>6
  <2> QED
    BY Zenon, <1>0, <2>1, <2>3, <2>4, <2>8, <2>9 DEF TerminalInv
<1>12. ASSUME U!Flush \/ U!OtherKey \/ U!New \/ U!Reset
              \/ (\E s \in {1, session} : U!Load(s))
              \/ (\E c \in commands : U!ReadTranscript(c) \/ U!CommandFails(c) \/ U!SwitchSession(c))
       PROVE  TerminalInv'
  <2>1. Quiet /\ (steps' = steps \/ steps' = steps + 1) /\ task' = task
    BY <1>12 DEF Quiet, U!Flush, U!OtherKey, U!New, U!Reset, U!Load,
                 U!ReadTranscript, U!CommandFails, U!SwitchSession, U!NewSession, U!screen, U!broker
  <2>2. /\ worker' # "none" => active'
        /\ waiting # 0 => worker' = "asking"
    BY <1>0, <1>12
    DEF U!Flush, U!OtherKey, U!New, U!Reset, U!Load,
        U!ReadTranscript, U!CommandFails, U!SwitchSession, U!screen
  <2>3. SameTask
    BY Zenon, <1>0, <2>1 DEF SameTask
  <2> QED
    BY Zenon, <1>2, <2>1, <2>2, <2>3
<1>13. ASSUME U!Finish \/ (\E turn \in BOOLEAN : U!Start(turn)) PROVE TerminalInv'
  <2>1. Quiet /\ steps' = steps
    BY <1>13 DEF Quiet, U!Finish, U!Start, U!broker
  <2>2. worker' # "none" => active'
    BY <1>13 DEF U!Finish, U!Start
  <2>3. waiting = 0 /\ waiting' = 0
    BY <1>0, <1>13, <2>1 DEF U!Finish, U!Start, Quiet
  <2>4. "cancelled" \in DOMAIN task'
    <3>1. CASE U!Finish
      BY <3>1 DEF U!Finish, U!NoTask
    <3>2. CASE \E turn \in BOOLEAN : U!Start(turn)
      BY <3>2 DEF U!Start
    <3> QED
      BY <1>13, <3>1, <3>2
  <2> QED
    BY Zenon, <1>2, <2>1, <2>2, <2>3, <2>4 DEF SameTask
<1>14. ASSUME UNCHANGED U!vars PROVE TerminalInv'
  <2>1. Quiet /\ UNCHANGED <<steps, worker, active, task>>
    BY <1>14 DEF U!vars, U!screen, U!broker, Quiet
  <2>2. SameTask
    BY Zenon, <1>0, <2>1 DEF SameTask
  <2> QED
    BY Zenon, <1>0, <1>2, <2>1, <2>2
<1>15. \A b \in BOOLEAN : b = TRUE \/ b = FALSE
  OBVIOUS
<1>16. CASE U!Work
  BY Zenon, <1>5, <1>6, <1>7, <1>15, <1>16 DEF U!Work
<1>17. CASE U!Keys
  BY Zenon, <1>9, <1>10, <1>12, <1>13, <1>17 DEF U!Keys
<1> QED
  BY Zenon, <1>9, <1>11, <1>12, <1>13, <1>14, <1>16, <1>17 DEF U!Next

\* While a request of a task that goes on waits, the terminal has a prompt or
\* will read the queue again, however many events the broker dropped; a prompt
\* of what is over means that the news of its end is on its way or was dropped
\* (model.go:380-432, approvals.go:501-508).
THEOREM TerminalShowsWhatWaits == U!Spec => []PromptFollowsQueue
<1>1. TerminalInv => PromptFollowsQueue
  BY DEF TerminalInv, InStep, Sent, PromptFollowsQueue, U!PromptFollowsQueue
<1> QED
  BY <1>1, TerminalInit, TerminalStep, PTL DEF U!Spec

-----------------------------------------------------------------------------
(* The dialogs of MCTurn's browser: the instance D, of the module that has    *)
(* the theorems.                                                              *)

DP == INSTANCE DialogsProofs WITH
  stage <- asking, ToolOf <- MCToolOf, ActionOf <- [r \in Requests |-> r]

\* One decision is one dialog (store.ts:131-138), in the browser of MCTurn.
THEOREM OneDialogInBrowser == DP!Spec => []OneDialogEach
<1>1. DP!OneDialogEach => OneDialogEach
  BY DEF OneDialogEach, D!OneDialogEach, DP!OneDialogEach
<1> QED
  BY <1>1, DP!OneDialogPerDecision, PTL
\* A list that was fetched takes down no dialog of a pending request
\* (store.ts:50-57), in the browser of MCTurn.
THEOREM ListsEraseNothingInBrowser == DP!Spec => ListErasesNothing
<1>1. [DP!KeptByList]_DP!vars => [D!KeptByList]_D!vars
  <2>1. UNCHANGED DP!vars => UNCHANGED D!vars
    BY DEF D!vars, DP!vars, D!broker, DP!broker, D!socket, DP!socket, D!counts, DP!counts
  <2>2. DP!KeptByList => D!KeptByList
    BY DEF D!KeptByList, DP!KeptByList, D!NoFetch, DP!NoFetch, D!Contains, DP!Contains
  <2> QED
    BY <2>1, <2>2
<1>2. DP!ListErasesNothing => ListErasesNothing
  BY <1>1, PTL DEF DP!ListErasesNothing, ListErasesNothing, D!ListErasesNothing
<1> QED
  BY <1>2, DP!ListsEraseNothing, PTL

-----------------------------------------------------------------------------
\* What MCTurn runs is a behaviour of each of these parts.
THEOREM TurnRunsParts == TurnSpec => Spec /\ U!Spec
<1>1. TurnInit => Init /\ U!Init
  BY DEF TurnInit
<1>2. [TurnNext]_<<vars, terminalVars, dialogVars>> => [Next]_vars /\ [U!Next]_U!vars
  <2>1. UNCHANGED terminalVars => UNCHANGED U!vars
    BY DEF terminalVars, U!vars, U!screen, U!memory, U!pump, U!broker
  <2> QED
    BY Zenon, <2>1 DEF TurnNext
<1> QED
  BY <1>1, <1>2, PTL DEF TurnSpec, Spec, U!Spec
=============================================================================
