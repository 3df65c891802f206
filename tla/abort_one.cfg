\* One worker: an abort seen at a wait ends the get?
SPECIFICATION Spec
CONSTANTS
  Workers = {w1}
  Hosts = {h1}
  Conns = {c1, c2, c3}
  NoConn = NoConn
  NoHost = NoHost
  NoWorker = NoWorker
  Slots = 2
  IdleBudget = 1
  ConnectBudget = 1
  HandshakeBudget = 1
  StallBudget = 1
  TimeLimits = {0}
  MaxRedirects = 1
  MaxBody = 1
INVARIANT AbortIsFinal
