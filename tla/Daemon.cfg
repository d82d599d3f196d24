CONSTANTS
  c1 = c1
  c2 = c2
  Caller <- MCCaller
  Budgets <- MCBudgets
  MaxProcs = 2

SPECIFICATION FairSpec

INVARIANTS
  TypeOK
  SettledAgrees
  LoneProcessIsReachable

PROPERTIES
  SignalEndsProcess

CHECK_DEADLOCK FALSE
