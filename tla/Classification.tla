--------------------------- MODULE Classification ---------------------------
(* What kind of operation is a command line? ClassifyCommand of               *)
(* internal/permissions/classifications.go: each simple command gets the      *)
(* verdict of its family, whatever wraps it included, and the worst of the    *)
(* line wins.                                                                 *)
(*                                                                            *)
(* A line is a sequence of pipelines, a pipeline one of commands. A command   *)
(* is [form, program, words, inner, script]: its form says whether it is a    *)
(* program of some family or one that runs another command (inner, at most    *)
(* one) or a line (script, at most one). Of the words only what a check asks  *)
(* of them is kept; names, quoting and assignments in front of a command are  *)
(* resolved, and the command given to ssh is taken as one quoted word. A      *)
(* program is [family, use, flags].                                           *)
EXTENDS Naturals, SequencesExt, FiniteSetsExt

CONSTANT DepthLimit   \* maxClassifyDepth, 6 in the code

Severity(risk) ==
  CASE risk = "low" -> 0 [] risk = "medium" -> 1 [] risk = "high" -> 2 [] risk = "critical" -> 3

Worse(a, b) == IF Severity(a) < Severity(b) THEN b ELSE a

Escalate(risk) ==
  CASE risk = "low" -> "medium" [] risk = "medium" -> "high" [] OTHER -> "critical"

Verdict(category, risk) == [category |-> category, risk |-> risk, production |-> FALSE]
Shell(risk) == Verdict("shell.execute", risk)
Writes(risk) == Verdict("filesystem.write", risk)
Production(risk) == [category |-> "production.change", risk |-> risk, production |-> TRUE]

Raise(v, risk) == [v EXCEPT !.risk = Worse(@, risk)]
-----------------------------------------------------------------------------
(* The families of programs.                                                  *)

Destructive(p) ==
  CASE p.use = "rm" ->
         IF "root" \in p.flags \/ {"recursive", "force"} \subseteq p.flags THEN Writes("critical")
         ELSE Writes(IF "recursive" \in p.flags THEN "high" ELSE "medium")
    [] p.use \in {"shred", "mkfs", "partition"} -> Writes("critical")
    [] p.use = "dd" -> Writes(IF "output" \in p.flags THEN "critical" ELSE "high")
    [] p.use = "truncate" -> Writes("high")
    [] p.use = "power" -> Shell("critical")

\* A mount without operands lists what is mounted.
Storage(p) == Shell(IF p.use = "read" THEN "low" ELSE "critical")

Push(flags) ==
  [category |-> "git.push", production |-> "protected" \in flags,
   risk |-> IF {"force", "protected"} \subseteq flags THEN "critical"
            ELSE IF flags \cap {"force", "protected"} # {} THEN "high" ELSE "medium"]

Git(p) ==
  LET Discards == Writes(IF "force" \in p.flags THEN "high" ELSE "medium") IN
  CASE p.use = "push"   -> Push(p.flags)
    [] p.use = "commit" -> Verdict("git.commit", "medium")
    [] p.use = "tag"    -> IF "delete" \in p.flags THEN Verdict("git.push", "high")
                           ELSE Verdict("git.commit", "medium")
    [] p.use = "clean"  -> IF "force" \in p.flags THEN Writes("high")
                           ELSE Verdict("git.read", "low")
    [] p.use \in {"reset", "checkout"} -> Discards
    [] p.use = "rebase" -> Writes("high")
    [] p.use \in {"add", "setConfig"} -> Writes("medium")
    [] p.use = "read"   -> Verdict("git.read", "low")
    [] OTHER            -> Shell("medium")

Deployment(p) ==
  CASE p.use = "cluster"   -> Production(IF "mutating" \in p.flags THEN "critical" ELSE "high")
    [] p.use = "terraform" -> IF "mutating" \in p.flags THEN Production("critical")
                              ELSE IF "live" \in p.flags THEN Production("high")
                              ELSE Shell("low")
    [] p.use = "ansible"   -> Production("critical")
    [] p.use = "systemctl" -> IF "power" \in p.flags THEN Shell("critical")
                              ELSE IF "mutating" \in p.flags THEN Production("high")
                              ELSE Shell("low")
    [] p.use = "service"   -> IF "mutating" \in p.flags THEN Production("high")
                              ELSE Shell(IF "verb" \in p.flags THEN "medium" ELSE "low")
    [] p.use = "crontab"   -> Shell("high")
    [] p.use = "netcat"    -> Verdict("network.http", "high")

Container(p) ==
  CASE p.use = "push" -> Production("high")
    [] p.use = "run"  -> Shell(IF "host" \in p.flags THEN "critical" ELSE "high")
    [] p.use = "rm"   -> Shell("high")
    [] p.use = "read" -> Shell("low")
    [] OTHER          -> Shell("medium")

Transfer(p) ==
  IF p.use = "remote" THEN Production("high")
  ELSE Writes(IF "delete" \in p.flags THEN "high" ELSE "medium")

\* What is not known to read is taken to change something.
Cloud(p) == IF p.use = "read" THEN Verdict("network.http", "medium") ELSE Production("critical")

NetworkConfig(p) ==
  CASE p.use = "readFirewall" -> Shell("medium")
    [] p.use = "read"         -> Shell("low")
    [] p.use = "change"       -> Production("high")
    [] p.use = "settings"     -> Shell("high")

Accounts(p) ==
  CASE p.use = "account" -> Shell("high")
    [] p.use = "mode"    -> Writes(IF p.flags # {} THEN "high" ELSE "medium")
    [] p.use = "keys"    -> Writes("high")

Packages(p) ==
  CASE p.use = "publish" -> Production("high")
    [] p.use \in {"system", "global", "foreign"} -> Shell("high")
    [] p.use \in {"project", "script"} -> Shell("medium")
    [] p.use \in {"query", "test"} -> Shell("low")

Ordinary(p) ==
  CASE p.use = "read"    -> Verdict("filesystem.read", "low")
    [] p.use = "delete"  -> Writes("high")       \* find -delete
    [] p.use = "build"   -> Shell("low")
    [] p.use = "runCode" -> Shell("medium")
    [] p.use = "install" -> Shell("high")
    [] p.use = "publish" -> Production("high")
    [] p.use = "copy"    -> Writes("medium")
    [] p.use = "touch"   -> Writes("low")
    [] p.use = "kill"    -> Shell("medium")

Program(p) ==
  CASE p.family = "destructive" -> Destructive(p)
    [] p.family = "storage"     -> Storage(p)
    [] p.family = "git"         -> Git(p)
    [] p.family = "deployment"  -> Deployment(p)
    [] p.family = "container"   -> Container(p)
    [] p.family = "transfer"    -> Transfer(p)
    [] p.family = "cloud"       -> Cloud(p)
    [] p.family = "network"     -> NetworkConfig(p)
    [] p.family = "accounts"    -> Accounts(p)
    [] p.family = "packages"    -> Packages(p)
    [] p.family = "ordinary"    -> Ordinary(p)
    [] p.family = "fetcher"     -> Verdict("network.http", "medium")
    [] p.family = "interpreter" -> Shell(IF "inline" \in p.flags THEN "high" ELSE "medium")
    [] p.family \in {"eval", "unknown"} -> Shell("medium")
-----------------------------------------------------------------------------
(* The words of a command.                                                    *)

\* Those of the command it runs are its own too; those of a script are one word,
\* in whose text only a substitution is found.
RECURSIVE Words(_), Spells(_, _)
Words(a) == a.words \o (IF a.inner = <<>> THEN <<>> ELSE Words(a.inner[1]))

\* Is the text of the command, with everything in it, one with such a word?
Spells(a, word) ==
  \/ Contains(a.words, word)
  \/ a.inner # <<>> /\ Spells(a.inner[1], word)
  \/ \E line \in Range(a.script) : \E pipeline \in Range(line) :
       \E b \in Range(pipeline) : Spells(b, word)

\* A redirection makes the command write; where to is judged like a path that
\* is written. v is the verdict so far, reads says whether the command only does.
WordStep(s, word) ==
  LET Location(v, reads) ==
        CASE word \in {"credential", ">credential"} -> Raise(v, "critical")
          [] word \in {"system", ">system"} -> Raise(v, IF reads THEN "medium" ELSE "critical")
          [] OTHER -> v
  IN CASE word = "device" -> [s EXCEPT !.v = Raise(@, "critical")]
       [] word \in {">file", ">system", ">credential"} ->
            LET written == [s.v EXCEPT !.category = IF s.reads THEN "filesystem.write" ELSE @]
            IN [v |-> Location(Raise(written, "medium"), FALSE), reads |-> FALSE]
       [] OTHER -> [s EXCEPT !.v = Location(@, s.reads)]

EscalateForArguments(v, a) ==
  LET substituted == IF Spells(a, "substitution") \/ Spells(a, "substitutedFetch")
                        \/ a.program.family = "eval"
                     THEN Raise(v, "high") ELSE v
      start == [v |-> substituted, reads |-> v.category \in {"filesystem.read", "git.read"}]
  IN FoldLeft(WordStep, start, Words(a)).v
-----------------------------------------------------------------------------
(* A line.                                                                    *)

TooDeep == Shell("high")

\* Mutant: what touches production is forgotten when something else is worse.
WorstAlone(verdicts) ==
  LET first == CHOOSE i \in DOMAIN verdicts :
        /\ \A j \in DOMAIN verdicts : Severity(verdicts[j].risk) <= Severity(verdicts[i].risk)
        /\ \A j \in 1..(i - 1) : Severity(verdicts[j].risk) < Severity(verdicts[i].risk)
  IN verdicts[first]

\* The first of the worst; production if any of them touches production.
Worst(verdicts) ==
  LET first == CHOOSE i \in DOMAIN verdicts :
        /\ \A j \in DOMAIN verdicts : Severity(verdicts[j].risk) <= Severity(verdicts[i].risk)
        /\ \A j \in 1..(i - 1) : Severity(verdicts[j].risk) < Severity(verdicts[i].risk)
  IN [verdicts[first] EXCEPT !.production = \E i \in DOMAIN verdicts : verdicts[i].production]

\* Something that was downloaded is executed at once.
FetchExec(pipeline) ==
  LET Runs(a) == LET b == IF a.form = "privileged" /\ a.inner # <<>> THEN a.inner[1] ELSE a
                 IN b.form = "shell" \/ b.program.family = "interpreter"
  IN \E i, j \in DOMAIN pipeline :
       i < j /\ pipeline[i].program.family = "fetcher" /\ Runs(pipeline[j])

RECURSIVE ClassifyLine(_, _), ClassifyArgv(_, _)

\* The command that another one runs, with its own words.
ClassifyInner(a, depth) == EscalateForArguments(ClassifyArgv(a.inner[1], depth + 1), a.inner[1])

ClassifyPrivileged(a, depth) ==
  LET v == IF a.script # <<>> THEN ClassifyLine(a.script[1], depth + 1)
           ELSE ClassifyInner(a, depth)
  IN IF a.script = <<>> /\ a.inner = <<>> THEN Shell("high")
     ELSE [v EXCEPT !.risk = Worse(Escalate(@), "high")]

ClassifyShell(a, depth) ==
  IF a.script # <<>> THEN ClassifyLine(a.script[1], depth + 1)
  ELSE Shell(CASE a.program.use = "encoded" -> "critical"
               [] a.program.use = "file" -> "high"
               [] OTHER -> "medium")

ClassifyRemote(a, depth) ==
  IF a.script = <<>> THEN Production("high")
  ELSE Production(Worse("high", ClassifyLine(a.script[1], depth + 1).risk))

ClassifyArgv(a, depth) ==
  IF depth > DepthLimit THEN TooDeep
  ELSE CASE a.form = "privileged" -> ClassifyPrivileged(a, depth)
         [] a.form = "shell"      -> ClassifyShell(a, depth)
         [] a.form = "wrapper"    -> IF a.inner = <<>> THEN Shell("medium")
                                     ELSE ClassifyInner(a, depth)
         [] a.form = "remote"     -> ClassifyRemote(a, depth)
         [] a.form = "find"       -> Raise(ClassifyArgv(a.inner[1], depth + 1), "medium")
         [] a.form = "program"    -> Program(a.program)

ClassifyLine(line, depth) ==
  LET Commands(pipeline) ==
        [i \in DOMAIN pipeline |->
           EscalateForArguments(ClassifyArgv(pipeline[i], depth), pipeline[i])]
        \o (IF FetchExec(pipeline) THEN <<Shell("critical")>> ELSE <<>>)
      fetched == \E pipeline \in Range(line) : \E a \in Range(pipeline) :
                   Spells(a, "substitutedFetch")
  IN IF depth > DepthLimit THEN TooDeep
     ELSE IF line = <<>> THEN Shell("low")
     ELSE Worst(FlattenSeq([i \in DOMAIN line |-> Commands(line[i])])
                \o (IF fetched THEN <<Shell("critical")>> ELSE <<>>))

ClassifyCommand(line) == ClassifyLine(line, 0)
-----------------------------------------------------------------------------
\* The programs that a line runs, each with how deep it is nested.
RECURSIVE ProgramsOf(_, _)
ProgramsOf(line, depth) ==
  LET Own(a) == IF a.form = "program" THEN {[program |-> a.program, depth |-> depth]} ELSE {}
      Inside(a) == (IF a.inner = <<>> THEN {} ELSE ProgramsOf(<<a.inner>>, depth + 1))
                   \cup (IF a.script = <<>> THEN {} ELSE ProgramsOf(a.script[1], depth + 1))
  IN UNION {Own(a) \cup Inside(a) : a \in UNION {Range(pipeline) : pipeline \in Range(line)}}
=============================================================================
