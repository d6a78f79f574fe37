------------------------------ MODULE MCBroker ------------------------------
(* The permission engine: the approval broker with two callers and one      *)
(* frontend, and the policy that decides which command lines come to it.    *)
(* They share no state of these models, so a behaviour is one of either.    *)
EXTENDS Broker

CONSTANTS shell, k1, k2, DepthLimit, MaxSteps

\* An ordinary command, the same command classified as critical, and one of
\* the same category that may touch production.
MCActions == {
  [key |-> k1, cat |-> shell, critical |-> FALSE, production |-> FALSE],
  [key |-> k1, cat |-> shell, critical |-> TRUE, production |-> FALSE],
  [key |-> k2, cat |-> shell, critical |-> FALSE, production |-> TRUE]}

VARIABLES command, steps

policyVars == <<command, steps>>

\* A program of each risk, of production or not, and those that lines treat apart.
Program(family, use, flags) == [family |-> family, use |-> use, flags |-> flags]
MCPrograms == {
  Program("ordinary", "read", {}), Program("ordinary", "touch", {}),
  Program("destructive", "rm", {"recursive", "force"}), Program("fetcher", "get", {}),
  Program("interpreter", "file", {}), Program("eval", "text", {}),
  Program("git", "push", {"protected"}), Program("deployment", "cluster", {}),
  Program("deployment", "terraform", {"mutating"}), Program("cloud", "read", {})}

P == INSTANCE CommandPolicy WITH
  Programs <- MCPrograms, ArgWords <- {"system", ">file", "substitutedFetch"}

EngineInit == Init /\ P!PolicyInit
EngineNext ==
  \/ P!PolicyInit /\ Next /\ UNCHANGED policyVars
  \/ Init /\ P!PolicyNext /\ UNCHANGED vars
EngineSpec == EngineInit /\ [][EngineNext]_<<vars, policyVars>> /\ Fairness

NothingHidden == P!NothingHidden
GravestConfirmed == P!GravestConfirmed
=============================================================================
