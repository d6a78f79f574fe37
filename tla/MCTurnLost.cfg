CONSTANTS
  Frontends = {"web", "tui", "cli"}
  Registered <- MCRegistered
  WellFormed <- MCRegistered
  ActionOf <- MCActionOf
  Policies <- MCPolicies
  Replies <- MCReplies
  PromptCosts = {8}
  ReplyCost = 6
  Results <- MCResults
  SystemCost = 4
  SelectionCost = 3
  Opts <- MCOpts
  HistoryWindow = 4
  StoreMayFail = TRUE
  MaxIterations = 2
  MaxRetries = 1
  MaxTurns = 2
  MaxCrashes = 1
  MaxSwitches = 1
  o1 = o1
  o2 = o2
  Requests = {o1, o2}
  Denied = {o2}
  MaxConnects = 2
  MaxFetches = 0
  FeedSize = 1
  MaxTasks = 2
  MaxSteps = 2
SPECIFICATION TurnSpec
PROPERTY DialogsStay
CHECK_DEADLOCK FALSE
