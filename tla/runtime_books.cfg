\* Two executions and a revoker in a row on two grants, any of which may die anywhere.
CONSTANTS
  Execs = {e1, e2}
  Admins = {a1}
  Procs <- MCProcs
  GrantIds = {g1, g2}
  Terms <- MCTerms
  Packages <- MCPackages
  Budgets = {2}
  Amounts = {0, 1, 2}
  Lifetimes = {1}
  MaxTime = 0
  Serial = TRUE
  Faults = {"crash"}
  None = None
  m1 = m1
  m2 = m2
SPECIFICATION FairRuntimeSpec
INVARIANTS ReceiptsWithinSpending Reconciled
PROPERTIES EveryExecutionEnds RefinesLedger
CHECK_DEADLOCK FALSE
