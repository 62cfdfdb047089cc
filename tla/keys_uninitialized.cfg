\* A run that dies between the two files, and the next one.
CONSTANTS
  Procs = {p1}
  Keys = {k1}
  None = None
  Partial = Partial
SPECIFICATION KeySpec
INVARIANTS ExecuteInitializes
CHECK_DEADLOCK FALSE
