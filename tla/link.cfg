\* Two workers beside the roots thread, the access point and every failing call.
SPECIFICATION FairSpec
CONSTANTS
  Workers = {w1, w2}
  Roots = roots
  Ctxs = {c1, c2, c3}
  NoCtx = NoCtx
INVARIANTS LayersStacked ContextHeld
PROPERTIES ImplementsRootsCell TornDown ManualNeverDials CallsReturn
