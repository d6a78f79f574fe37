CONSTANTS
  Requests = {r1, r2}
  Frontends = {f1}
  Actions <- MCActions
  NoAction = NoAction
  NoCategory = NoCategory
  ProductionChange = ProductionChange
  SubBuffer = 2
  shell = shell
  k1 = k1
  k2 = k2
  DepthLimit = 1
  MaxSteps = 3
SPECIFICATION EngineSpec
INVARIANTS PendingIsUnanswered FailClosed AnswerHonoured InSync NothingHidden GravestConfirmed
PROPERTIES Settles GateSpec
CHECK_DEADLOCK FALSE
