------------------------------- MODULE Router -------------------------------
(***************************************************************************)
(* The provider router: how a chat request finds a provider, falls back,   *)
(* and shares what it learned about the providers' health with others.     *)
(*                                                                         *)
(* Several goroutines call Router.Chat at once (a turn of each session, a  *)
(* run of each agent) while the status page probes providers with          *)
(* Router.Health.  A request is followed to the first event of a stream;   *)
(* what becomes of the stream is ChatStream.  Nobody sets ProbeHealth or   *)
(* calls Resolve, so a request learns of health from the cache alone.      *)
(***************************************************************************)
EXTENDS Naturals, FiniteSets, SequencesExt, Filtering

CONSTANTS
  Requests,    (* calls of Chat                                             *)
  Probers,     (* status pages that call Health                             *)
  Registered,  (* names of the registered providers                         *)
  Classes,     (* function from routing classes to targets                  *)
  ClassOrder,  (* its domain in the order orderedClasses gives              *)
  Models,      (* sequence of further configured targets                    *)
  Fallback,    (* sequence of provider names                                *)
  Selections,  (* function from a request to what it may ask for            *)
  Able,        (* function from a model to the capabilities it has          *)
  Failures     (* error categories a backend may answer with                *)

Retryable == {"unavailable", "timeout", "rate_limited", "server_error"}

\* A model "" is no model, a provider "" or class "" is left to the router.
Names == Registered \cup {Classes[c].provider : c \in DOMAIN Classes}
         \cup Range(Fallback)

Targets == [provider: Names \cup {""}, model: DOMAIN Able \cup {""}]
NoTarget == [provider |-> "", model |-> ""]

ASSUME RouterAssumption ==
  /\ IsFiniteSet(Requests) /\ Requests \cap Probers = {}
  /\ Range(ClassOrder) = DOMAIN Classes
  /\ \A c \in DOMAIN Classes : Classes[c] \in Targets
  /\ Fallback \in Seq(Range(Fallback))
  /\ "ok" \notin Failures

NoSelection ==
  [provider |-> "", model |-> "", class |-> "", required |-> {}, noFallback |-> FALSE]

VARIABLES
  health,   \* provider -> "none", "up" or "down"
  ended,    \* the requests whose context has ended
  pc,       \* where the caller is
  sel,      \* the selection it asked for; of a prober, the provider
  cands,    \* its candidates, in order
  attempts, \* dec.Attempts: what became of each candidate considered so far
  result    \* what it returned: "", "served" or the category of its error

vars == <<health, ended, pc, sel, cands, attempts, result>>
-----------------------------------------------------------------------------
(* Selection                                                               *)

ClassFor(s) ==
  IF s.class # "" THEN s.class
  ELSE IF "vision" \in s.required THEN "vision"
  ELSE IF "reasoning" \in s.required THEN "reasoning"
  ELSE "default"

\* The targets the configuration names, class targets first.
ConfiguredTargets == [i \in DOMAIN ClassOrder |-> Classes[ClassOrder[i]]] \o Models

\* The first of a sequence of targets that satisfies Test, if there is one.
FirstSuch(targets, Test(_)) ==
  LET hits == {i \in DOMAIN targets : Test(targets[i])}
  IN  IF hits = {} THEN NoTarget ELSE targets[CHOOSE i \in hits : \A j \in hits : i <= j]

ModelFor(name, class, requested) ==
  LET Serves(t) == t.provider = name /\ t.model # ""
      own == FirstSuch(ConfiguredTargets, Serves)
  IN  IF class \in DOMAIN Classes /\ Serves(Classes[class]) THEN Classes[class].model
      ELSE IF own # NoTarget THEN own.model
      ELSE requested

TargetForModel(model) ==
  FirstSuch(ConfiguredTargets, LAMBDA t : t.model = model /\ t.provider # "")

\* The first candidate, NoTarget when the selection cannot be resolved.
Primary(s) ==
  LET class == ClassFor(s)
      Configured(c) == c \in DOMAIN Classes /\ Classes[c].provider # ""
  IN  CASE s.provider # "" ->
             [provider |-> s.provider,
              model |-> IF s.model # "" THEN s.model ELSE ModelFor(s.provider, class, "")]
        [] s.provider = "" /\ s.model # "" ->
             IF TargetForModel(s.model) # NoTarget THEN TargetForModel(s.model)
             ELSE IF Cardinality(Registered) = 1
                  THEN [provider |-> CHOOSE n \in Registered : TRUE, model |-> s.model]
             ELSE NoTarget
        [] OTHER ->
             IF Configured(class) THEN Classes[class]
             ELSE IF Configured("default") THEN Classes["default"]
             ELSE NoTarget

Candidates(s) ==
  LET others == Picked(Fallback,
                       {i \in DOMAIN Fallback : Fallback[i] # Primary(s).provider})
  IN  IF Primary(s) = NoTarget THEN <<>>
      ELSE <<Primary(s)>> \o
           (IF s.noFallback THEN <<>>
            ELSE [i \in DOMAIN others |->
                   [provider |-> others[i], model |-> ModelFor(others[i], ClassFor(s), s.model)]])
-----------------------------------------------------------------------------
(* Health                                                                  *)

\* The error itself is kept for display only.
Verdicts == {"none", "up", "down"}

Down(p) == health[p] = "down"

Store(p, verdict) == health' = [health EXCEPT ![p] = verdict]

\* An entry is too old to be used, whatever it says.
Expire(p) ==
  /\ health[p] # "none"
  /\ Store(p, "none")
  /\ UNCHANGED <<ended, pc, sel, cands, attempts, result>>

\* The status page asks about a registered provider.  A cached verdict answers
\* at once and changes nothing.
AskHealth(q, p) ==
  /\ pc[q] = "idle"
  /\ health[p] = "none"
  /\ pc' = [pc EXCEPT ![q] = "probing"]
  /\ sel' = [sel EXCEPT ![q].provider = p]
  /\ UNCHANGED <<health, ended, cands, attempts, result>>

\* The probe comes back, healthy or not; one whose page has gone away fails
\* like any other.  Whatever it says is the verdict every request sees.
LearnHealth(q) ==
  /\ pc[q] = "probing"
  /\ \E verdict \in {"up", "down"} : Store(sel[q].provider, verdict)
  /\ pc' = [pc EXCEPT ![q] = "idle"]
  /\ sel' = [sel EXCEPT ![q] = NoSelection]
  /\ UNCHANGED <<ended, cands, attempts, result>>
-----------------------------------------------------------------------------
(* Do: the candidates in order                                             *)

\* What the request's caller is told.
Return(r, why) ==
  /\ pc' = [pc EXCEPT ![r] = "returned"]
  /\ result' = [result EXCEPT ![r] = why]

Begin(r, s) ==
  /\ pc[r] = "idle"
  /\ sel' = [sel EXCEPT ![r] = s]
  /\ cands' = [cands EXCEPT ![r] = Candidates(s)]
  /\ IF Candidates(s) = <<>>
     THEN Return(r, "invalid_request")
     ELSE pc' = [pc EXCEPT ![r] = "considering"] /\ UNCHANGED result
  /\ UNCHANGED <<health, ended, attempts>>

Index(r) == Len(attempts[r]) + 1
Target(r) == cands[r][Index(r)]

\* Whether the candidate's provider was tried or passed over, and why that
\* ended as it did.
Record(r, tried, why) ==
  attempts' = [attempts EXCEPT ![r] =
                 Append(@, [target |-> Target(r), tried |-> tried, why |-> why])]

\* Mutant: the last failure is reported instead of the first.
MoveOnReportingLast(r, tried, why) ==
  /\ Record(r, tried, why)
  /\ IF Index(r) < Len(cands[r])
     THEN pc' = [pc EXCEPT ![r] = "considering"] /\ UNCHANGED result
     ELSE Return(r, why)

\* The candidate is left for the next one; after the last, the first
\* candidate's error is the request's.
MoveOn(r, tried, why) ==
  /\ Record(r, tried, why)
  /\ IF Index(r) < Len(cands[r])
     THEN pc' = [pc EXCEPT ![r] = "considering"] /\ UNCHANGED result
     ELSE Return(r, attempts'[r][1].why)

\* A capability check fails only for a request whose context ended.
CheckErrors(r) == IF r \in ended THEN Failures \cup {"cancelled"} ELSE {}

\* Why a candidate is not even tried: it is looked up in the registry, has a
\* model, is not known to be down, and can do what the task needs.
Skips(r) ==
  LET t == Target(r)
  IN  IF t.provider \notin Registered \/ t.model = "" THEN {"invalid_request"}
      ELSE IF Down(t.provider) THEN {"skipped_down"}
      ELSE IF sel[r].required = {} THEN {}
      ELSE IF sel[r].required \subseteq Able[t.model] THEN CheckErrors(r)
      ELSE {"unsupported_capability"} \cup CheckErrors(r)

Skip(r) ==
  /\ pc[r] = "considering"
  /\ \E why \in Skips(r) : MoveOn(r, FALSE, why)
  /\ UNCHANGED <<health, ended, sel, cands>>

Fits(r) ==
  LET t == Target(r)
  IN  /\ t.provider \in Registered /\ t.model # "" /\ ~Down(t.provider)
      /\ sel[r].required \subseteq Able[t.model]

\* Provider.Chat starts a stream; Do waits for its first event.
Contact(r) ==
  /\ pc[r] = "considering"
  /\ Fits(r)
  /\ pc' = [pc EXCEPT ![r] = "peeking"]
  /\ UNCHANGED <<health, ended, sel, cands, attempts, result>>

\* The attempt failed with why: a failure worth retrying marks the provider
\* down and moves on, any other ends the request.
Fail(r, why) ==
  /\ IF why \in Retryable
     THEN MoveOn(r, TRUE, why) /\ Store(Target(r).provider, "down")
     ELSE /\ Record(r, TRUE, why)
          /\ Return(r, why)
          /\ UNCHANGED health
  /\ UNCHANGED <<ended, sel, cands>>

\* The stream starts with an error, or is closed without an event, or the
\* caller's context ends first.
PeekError(r) ==
  /\ pc[r] = "peeking"
  /\ \E why \in Failures \cup {"malformed_response"} : Fail(r, why)

PeekEnded(r) ==
  /\ pc[r] = "peeking" /\ r \in ended
  /\ Fail(r, "cancelled")

\* The first event is no error: the provider is up and the decision stands.
PeekEvent(r) ==
  /\ pc[r] = "peeking"
  /\ Record(r, TRUE, "ok")
  /\ Store(Target(r).provider, "up")
  /\ Return(r, "served")
  /\ UNCHANGED <<ended, sel, cands>>

\* The user stops the turn, the browser leaves.
EndContext(r) ==
  /\ r \notin ended /\ pc[r] \notin {"idle", "returned"}
  /\ ended' = ended \cup {r}
  /\ UNCHANGED <<health, pc, sel, cands, attempts, result>>
-----------------------------------------------------------------------------
Init ==
  /\ health = [p \in Names |-> "none"]
  /\ ended = {}
  /\ pc = [c \in Requests \cup Probers |-> "idle"]
  /\ sel = [c \in Requests \cup Probers |-> NoSelection]
  /\ cands = [r \in Requests |-> <<>>]
  /\ attempts = [r \in Requests |-> <<>>]
  /\ result = [r \in Requests |-> ""]

Consider(r) == Skip(r) \/ Contact(r)

Next ==
  \/ \E r \in Requests :
       \/ \E s \in Selections[r] : Begin(r, s)
       \/ Consider(r) \/ PeekError(r) \/ PeekEnded(r) \/ PeekEvent(r) \/ EndContext(r)
  \/ \E q \in Probers : LearnHealth(q) \/ \E p \in Registered : AskHealth(q, p)
  \/ \E p \in Names : Expire(p)

\* The goroutine of a request runs on, and notices that its context ended;
\* nothing is assumed of the backends, the probers or the clock.
Fairness == \A r \in Requests : WF_vars(Consider(r)) /\ WF_vars(PeekEnded(r))

Spec == Init /\ [][Next]_vars /\ Fairness
-----------------------------------------------------------------------------
(* Properties                                                              *)

Outcomes == Failures \cup {"malformed_response", "invalid_request", "unsupported_capability",
                           "cancelled", "skipped_down"}

TypeOK ==
  /\ health \in [Names -> Verdicts]
  /\ ended \subseteq Requests
  /\ pc \in [Requests \cup Probers -> {"idle", "considering", "peeking", "probing", "returned"}]
  /\ result \in [Requests -> Outcomes \cup {"", "served"}]
  /\ \A r \in Requests :
       /\ attempts[r] \in Seq([target : Targets, tried : BOOLEAN, why : Outcomes \cup {"ok"}])
       /\ cands[r] \in Seq(Targets)
       /\ pc[r] \in {"considering", "peeking"} => Index(r) \in DOMAIN cands[r]

\* The candidates are considered in their order; one whose provider was tried is
\* left for the next only when its failure is worth a retry, so nothing is tried
\* after an event, an answer that cannot be parsed or a cancellation; and the
\* request reports the first success, the failure that ended it, or when nobody
\* could serve it that of its first candidate (router.go Do).
FallsBackInOrder ==
  \A r \in Requests :
    LET n == Len(attempts[r])
        tried == [i \in 1 .. n |-> attempts[r][i].tried]
        why == [i \in 1 .. n |-> attempts[r][i].why]
    IN  /\ \A i \in 1 .. n : attempts[r][i].target = cands[r][i]
        /\ \A i \in 1 .. n - 1 : tried[i] => why[i] \in Retryable
        /\ pc[r] = "returned" /\ n > 0 =>
             CASE tried[n] /\ why[n] = "ok" -> result[r] = "served"
               [] tried[n] /\ why[n] \notin Retryable \cup {"ok"} -> result[r] = why[n]
               [] OTHER -> n = Len(cands[r]) /\ result[r] = why[1]

\* A request whose context ends returns, whatever the backends do.
CancelEndsRequest == \A r \in Requests : r \in ended ~> pc[r] = "returned"
=============================================================================
