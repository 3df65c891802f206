\* Two workers: an abort reaches every get that was running?
SPECIFICATION Spec
CONSTANTS
  Workers = {w1, w2}
  Hosts = {h1, h2}
  Conns = {c1, c2, c3}
  NoConn = NoConn
  NoHost = NoHost
  NoWorker = NoWorker
  Slots = 1
  IdleBudget = 1
  ConnectBudget = 0
  HandshakeBudget = 0
  StallBudget = 0
  TimeLimits = {0}
  MaxRedirects = 0
  MaxBody = 1
PROPERTY AbortStands
