---------------------------- MODULE CommandPolicy ----------------------------
(* Classification and policy together, as Evaluator.EvaluateCommand: every    *)
(* command line that a few steps of a shell's grammar put together.           *)
EXTENDS Classification, Evaluator

CONSTANTS
  Programs,   \* the programs that lines are made of
  ArgWords,   \* the words that can be added to a command
  MaxSteps    \* bound on the steps that make a line

VARIABLES command, steps

NoProgram == [family |-> "none", use |-> "none", flags |-> {}]
Runs(p) == [form |-> "program", program |-> p, words |-> <<>>, inner |-> <<>>, script |-> <<>>]
RunsCommand(form, a) ==
  [form |-> form, program |-> NoProgram, words |-> <<>>, inner |-> <<a>>, script |-> <<>>]
RunsLine(form, line) ==
  [form |-> form, program |-> NoProgram, words |-> <<>>, inner |-> <<>>, script |-> <<line>>]

-----------------------------------------------------------------------------
(* How a line is put together.  A command that is wrapped, or gets another    *)
(* word, is the last of the line.                                             *)

LastCommand == Last(Last(command))
WithLast(a) ==
  [command EXCEPT ![Len(command)] = [@ EXCEPT ![Len(command[Len(command)])] = a]]

Chain(p) == command' = Append(command, <<Runs(p)>>)

Pipe(p) ==
  /\ command # <<>>
  /\ command' = [command EXCEPT ![Len(command)] = Append(@, Runs(p))]

Wrap(form) ==
  /\ command # <<>>
  /\ command' = WithLast(RunsCommand(form, LastCommand))

Quote(form) ==
  /\ command # <<>>
  /\ command' = <<<<RunsLine(form, command)>>>>

AddWord(word) ==
  /\ command # <<>>
  /\ LastCommand.form = "program"
  /\ command' = WithLast([LastCommand EXCEPT !.words = Append(@, word)])

PolicyInit == command = <<>> /\ steps = 0

PolicyNext ==
  /\ steps < MaxSteps
  /\ steps' = steps + 1
  /\ \/ \E p \in Programs : Chain(p) \/ Pipe(p)
     \/ \E form \in {"privileged", "wrapper", "find"} : Wrap(form)
     \/ \E form \in {"privileged", "shell", "remote"} : Quote(form)
     \/ \E word \in ArgWords : AddWord(word)
-----------------------------------------------------------------------------
(* Properties *)

\* Nothing that a line runs is hidden by what surrounds it: chains, pipes,
\* wrappers, nested shells and remote shells.  The line is at least as risky as
\* each of its programs by itself and touches production when one of them does;
\* what is nested too deep to be looked at makes it high.  (classifyCommandLine:
\* "the most severe verdict wins, with Production true if any segment touches
\* production".)
NothingHidden ==
  LET v == ClassifyCommand(command)
  IN \A found \in ProgramsOf(command, 0) :
       LET own == Program(found.program)
       IN IF found.depth <= DepthLimit
          THEN Severity(v.risk) >= Severity(own.risk) /\ (own.production => v.production)
          ELSE Severity(v.risk) >= Severity("high")

\* The policies a user can write, with one rule for everything or with none.
Policies ==
  {NormalizePolicy([mode |-> mode, rules |-> rules, unrestricted |-> all, production |-> live]) :
     mode \in Modes \cup {"misspelt"}, all \in BOOLEAN, live \in BOOLEAN,
     rules \in {<<>>} \cup {[c \in DOMAIN DefaultRules |-> r] : r \in Rules \cup {"misspelt"}}}

\* Whatever the policy allows, a line with a program of critical risk runs
\* without a question only if the policy says unrestricted, and one that touches
\* production only if it authorizes production.  (Evaluate, precedence 2 and 3.)
GravestConfirmed ==
  LET v == ClassifyCommand(command)
  IN \A found \in ProgramsOf(command, 0) : \A policy \in Policies :
       found.depth <= DepthLimit /\ Evaluate(policy, v) = "allow" =>
         LET own == Program(found.program)
         IN /\ own.risk = "critical" => policy.unrestricted
            /\ IsProduction(own) => policy.production
=============================================================================
