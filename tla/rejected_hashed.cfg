\* An execution whose output the schema rejects.
CONSTANTS
  Execs = {e1}
  Admins = {}
  Procs <- MCProcs
  GrantIds = {g1}
  Terms <- MCTerms
  Packages <- MCPackages
  Budgets = {2}
  Amounts = {0, 1}
  Lifetimes = {1}
  MaxTime = 1
  Serial = TRUE
  Faults = {}
  None = None
  m1 = m1
  m2 = m2
SPECIFICATION RuntimeSpec
INVARIANTS FailuresHashNothing
CHECK_DEADLOCK FALSE
