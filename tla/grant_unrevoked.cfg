\* A charge from a copy loaded before the revocation.
CONSTANTS
  GrantIds = {g1}
  Procs = {p1, p2}
  Terms = {t1, t2}
  Budgets <- MCBudgets
  Amounts <- MCAmounts
  Lifetimes <- MCLifetimes
  MaxTime = 1
  Serial = FALSE
  None = None
SPECIFICATION Spec
PROPERTIES RevokedIsTerminal
