SPECIFICATION ProviderSpec
CONSTANTS
  Requests = {r1, r2}
  Probers = {q1}
  Registered = {"a", "b"}
  Classes <- MCClasses
  ClassOrder <- MCClassOrder
  Models <- MCModels
  Fallback <- MCFallback
  Selections <- MCSelections
  Able <- MCAble
  Failures = {"unavailable", "authentication"}
  Scripts <- MCScripts
  Buffer = 1
  NoIndex = 99
  FeedSize = 1
  MaxTasks = 1
  MaxSteps = 2
INVARIANT CallsKeptApart
INVARIANT FallsBackInOrder
PROPERTIES DeliverySpec CancelEndsAll TurnsEnd EventsAreShown
CHECK_DEADLOCK FALSE
