------------------------------- MODULE MCTurn -------------------------------
(* A turn, and the two frontends that ask for its approvals: the terminal and *)
(* the dialogs of a browser. They share no state of these models, so a        *)
(* behaviour is one of any of them.                                           *)
EXTENDS Turn

CONSTANTS o1, o2, FeedSize, MaxTasks, MaxSteps, Requests, Denied, MaxConnects, MaxFetches

ASSUME FeedAssumption == FeedSize \in Nat \ {0}

VARIABLES prompt, active, armed, quitting, session, history, forgotten, queued, waking, wakes,
          worker, task, waiting, closed, news, lost, commands, store, exited, steps,
          asking, pending, feed, link, hello, queue, answers, view, fetch, connects, fetches

terminalVars == <<prompt, active, armed, quitting, session, history, forgotten, queued, waking,
                  wakes, worker, task, waiting, closed, news, lost, commands, store, exited, steps>>
dialogVars == <<asking, pending, feed, link, hello, queue, answers, view, fetch, connects,
                fetches>>

\* "read" asks unless the mode is auto, "push" is denied, "gone" is not registered.
MCRegistered == {"read", "push"}
Act(category, risk) == [category |-> category, risk |-> risk, production |-> FALSE]
MCActionOf == [t \in MCRegistered |->
  IF t = "read" THEN Act("filesystem.read", "low") ELSE Act("git.push", "high")]
MCPolicies ==
  {[mode |-> "confirm", unrestricted |-> FALSE, production |-> FALSE,
    rules |-> [c \in {"git.push"} |-> "deny"]]}
MCReplies == {<<>>, <<"gone", "read">>, <<"push">>}
MCResults == {[failed |-> FALSE, cost |-> 4], [failed |-> TRUE, cost |-> 30]}
MCOpts == [budget |-> 40, reserve |-> 4, minRecent |-> 2, summary |-> 9]

\* The two requests of a browser are of two tools.
MCToolOf == [r \in Requests |-> IF r = o1 THEN "run" ELSE "write"]

U == INSTANCE Terminal WITH pending <- waking, feed <- news
D == INSTANCE Dialogs WITH
  stage <- asking, ToolOf <- MCToolOf, ActionOf <- [r \in Requests |-> r]

TurnInit == Init /\ U!Init /\ D!Init
TurnNext ==
  \/ U!Init /\ D!Init /\ Next /\ UNCHANGED <<terminalVars, dialogVars>>
  \/ Init /\ D!Init /\ U!Next /\ UNCHANGED <<vars, dialogVars>>
  \/ Init /\ U!Init /\ D!Next /\ UNCHANGED <<vars, terminalVars>>
TurnSpec == TurnInit /\ [][TurnNext]_<<vars, terminalVars, dialogVars>>

PromptFollowsQueue == U!PromptFollowsQueue
ResetForgets == U!ResetForgets
OneDialogEach == D!OneDialogEach
ListErasesNothing == D!ListErasesNothing
DialogsStay == D!DialogsStay
=============================================================================
