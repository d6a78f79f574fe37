----------------------------- MODULE Evaluator ------------------------------
(* May this happen? Evaluator.Evaluate of internal/permissions/evaluator.go   *)
(* over a policy and an action, and how a policy is taken in.                 *)
(*                                                                            *)
(* A policy is [mode, rules, unrestricted, production]; rules is a function   *)
(* from the categories it names to a rule, or to a word that is none. An      *)
(* action is [category, risk, production].                                    *)
EXTENDS TLC

Rules == {"allow", "confirm", "deny"}
Modes == {"confirm", "auto"}
Outcomes == Rules

DefaultRules ==
  [c \in {"filesystem.read", "git.read", "network.search"} |-> "allow"] @@
  [c \in {"filesystem.write", "shell.execute", "git.commit", "git.push", "network.http",
          "network.fetch", "production.change"} |-> "confirm"]

\* An unknown mode or rule becomes confirm; a category that is missing stays so.
NormalizePolicy(p) ==
  [p EXCEPT !.mode  = IF @ \in Modes THEN @ ELSE "confirm",
            !.rules = [c \in DOMAIN @ |-> IF @[c] \in Rules THEN @[c] ELSE "confirm"]]

Explicit(policy, category) ==
  category \in DOMAIN policy.rules /\ policy.rules[category] \in Rules

ResolveRule(policy, category) ==
  IF category \in DOMAIN policy.rules
  THEN IF policy.rules[category] \in Rules THEN policy.rules[category] ELSE "confirm"
  ELSE IF category \in DOMAIN DefaultRules THEN DefaultRules[category] ELSE "confirm"

IsProduction(action) == action.production \/ action.category = "production.change"

Allowed(policy, action) ==
  LET rule == ResolveRule(policy, action.category)
  IN \/ policy.unrestricted
     \/ rule = "allow" /\ (policy.mode = "auto" \/ Explicit(policy, action.category))

\* Mutant: what a rule allows is settled before production and risk are looked at.
EvaluateRulesFirst(policy, action) ==
  CASE ResolveRule(policy, action.category) = "deny" -> "deny"
    [] OTHER -> IF Allowed(policy, action) THEN "allow" ELSE "confirm"

Evaluate(policy, action) ==
  CASE ResolveRule(policy, action.category) = "deny" -> "deny"
    [] OTHER ->
       IF \/ IsProduction(action) /\ ~policy.production
          \/ action.risk = "critical" /\ ~policy.unrestricted
          \/ ~Allowed(policy, action)
       THEN "confirm" ELSE "allow"
=============================================================================
