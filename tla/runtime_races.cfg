\* Two executions and a revocation in any order, any step cut off.
CONSTANTS
  Execs = {e1, e2}
  Admins = {a1}
  Procs <- MCProcs
  GrantIds = {g1}
  Terms <- MCTermsAll
  Packages <- MCPackagesAll
  Budgets <- MCBudgets
  Amounts = {0, 1, 2}
  Lifetimes = {0, 1}
  MaxTime = 1
  Serial = FALSE
  Faults = {"artifact", "provider", "output", "disk", "crash"}
  None = None
  m1 = m1
  m2 = m2
SPECIFICATION RuntimeSpec
SYMMETRY Symmetry
INVARIANTS RuntimeTypeOK DocumentsSound CallsCovered NothingMadeUp NothingLostAlone
PROPERTIES TermsImmutable ClosedForGood RefinesAudit
CHECK_DEADLOCK FALSE
