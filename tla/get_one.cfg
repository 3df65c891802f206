\* One worker, as the header asks for: safety and termination.
SPECIFICATION FairSpec
CONSTANTS
  Workers = {w1}
  Hosts = {h1, h2}
  Conns = {c1, c2, c3}
  NoConn = NoConn
  NoHost = NoHost
  NoWorker = NoWorker
  Slots = 2
  IdleBudget = 1
  ConnectBudget = 0
  HandshakeBudget = 0
  StallBudget = 0
  TimeLimits = {0, 1}
  MaxRedirects = 1
  MaxBody = 1
INVARIANTS RetryIsFresh HonestOutcome
PROPERTIES SinkNeverReplayed HeadInTime LimitEndsGet
