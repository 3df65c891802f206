\* Two requests at once: does the second wait for the roots thread?
SPECIFICATION Spec
CONSTANTS
  Workers = {w1, w2}
  Roots = roots
  Ctxs = {c1, c2, c3}
  NoCtx = NoCtx
INVARIANT OneParser
