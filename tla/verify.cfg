\* Receipts and homes with up to two parts changed.
CONSTANTS
  Contents = {c1, c2}
  Keys = {k1, k2}
  MaxChanges = 2
  None = None
SPECIFICATION VerifySpec
INVARIANTS VerifyTypeOK GenuineVerifies OkMeansAsExecuted
CHECK_DEADLOCK FALSE
