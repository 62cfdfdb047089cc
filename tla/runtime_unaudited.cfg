\* An error of another type, in the adapter or after the charge.
CONSTANTS
  Execs = {e1}
  Admins = {}
  Procs <- MCProcs
  GrantIds = {g1}
  Terms <- MCTerms
  Packages <- MCPackages
  Budgets = {2}
  Amounts = {0, 1}
  Lifetimes = {1}
  MaxTime = 1
  Serial = TRUE
  Faults = {"provider", "output"}
  None = None
  m1 = m1
  m2 = m2
SPECIFICATION RuntimeSpec
INVARIANTS EveryFailureAudited
CHECK_DEADLOCK FALSE
