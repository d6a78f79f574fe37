SPECIFICATION WebSpec
CONSTANTS
  t1 = t1
  t2 = t2
  Sessions = {"s"}
  Turns = {t1, t2}
  Runs = {"r1", "r2"}
  SessionOf <- MCSessionOf
  Background = {t1}
  None = None
  Retain = 1
  Clients = {"c"}
  Publishers = {"p", "q"}
  Buffer = 1
  MaxDropped = 3
  MaxMessages = 4
  g = g
  h = h
  Agents = {g, h}
  Owned = {h}
  NoAgent = NoAgent
  Callers = {"c"}
  Waiters = {"w"}
  MaxDepth = 2
  MaxAgents = 2
  Retained = 1
INVARIANT StatusReachesClients
CHECK_DEADLOCK FALSE
