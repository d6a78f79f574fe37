---------------------------- MODULE MCScheduler ----------------------------
(* A root run A, whose task a1 starts a nested run N, and a second root run *)
(* B; a3 may start another one, M.  Runs and Tasks say which an instance    *)
(* has.  They all share the permits of one semaphore.                       *)
EXTENDS Scheduler

CONSTANTS A, B, N, M, a1, a2, a3, a4, b1, n1, n2, m1, src, file

MCRunOf == [t \in Tasks |->
  IF t \in {a1, a2, a3, a4} THEN A ELSE IF t \in {n1, n2} THEN N
  ELSE IF t = m1 THEN M ELSE B]
MCRank == [t \in Tasks |->
  IF t \in {a2, n2} THEN 1 ELSE IF t = a3 THEN 2 ELSE IF t = a4 THEN 3 ELSE 0]
MCDeps == [t \in Tasks |-> IF t = n2 THEN {n1} ELSE IF t = a4 THEN {a2, a3} ELSE {}]

\* All ids are as the planner leaves them, or two that others depend on are not.
MCSpellings == {{}, {a2, n1}}

\* a1 rewrites a directory, a2 and b1 a file in it.
MCPaths == {<<src>>, <<src, file>>}
MCWrites == [t \in Tasks |->
  IF t = a1 THEN {<<src>>} ELSE IF t \in {a2, b1} THEN {<<src, file>>} ELSE {}]

MCCaller == [r \in Runs |-> IF r = N THEN a1 ELSE IF r = M THEN a3 ELSE NoTask]
MCAncestry == [r \in Runs |-> IF r \in {N, M} THEN {r, A} ELSE {r}]
=============================================================================
