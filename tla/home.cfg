\* Two runs that may be started again until one has its receipt, and one
\* packaging run, each dying anywhere.
CONSTANTS
  Procs = {p1, p2}
  Keys = {k1, k2, k3}
  PkgIds = {w1}
  Contents = {a, b}
  Schemas = {b}
  None = None
  Partial = Partial
SPECIFICATION HomeSpec
SYMMETRY Symmetry
INVARIANTS KeyTypeOK OneBrokerKey FilesWhole EveryReceiptVerifies OkMeansWhatRan PackagesTyped
PROPERTIES KeySettles VerdictStands WholePackages
CHECK_DEADLOCK FALSE
