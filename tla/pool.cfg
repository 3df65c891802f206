\* An owner thread sweeps, stashes and forgets while a network thread draws, loads and saves.
SPECIFICATION FairSpec
CONSTANTS
  Owner = owner
  Net = {n1}
  Nobody = Nobody
  Units = 1
  Full = 2
  Payments = {1, 2}
  MaxUnits = 3
  MaxForgets = 1
INVARIANTS FilledIsEarned FullBarDraws ForgottenStaysForgotten
PROPERTIES OnlyForgetDries EveryCallReturns
