\* Two workers, as the changelog allows since 0.2.4: the shared state stays whole.
SPECIFICATION Spec
CONSTANTS
  Workers = {w1, w2}
  Hosts = {h1, h2}
  Conns = {c1, c2, c3}
  NoConn = NoConn
  NoHost = NoHost
  NoWorker = NoWorker
  Slots = 1
  IdleBudget = 1
  ConnectBudget = 0
  HandshakeBudget = 0
  StallBudget = 0
  TimeLimits = {0}
  MaxRedirects = 0
  MaxBody = 1
INVARIANTS OneOwner IdleIsQuiet OneHandshake
SYMMETRY Symmetry
PROPERTY ImplementsPool
