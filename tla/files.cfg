\* Three writers of one path, cut off anywhere, and two power losses.
CONSTANTS
  Writers = {w1, w2, w3}
  MaxLosses = 2
  None = None
SPECIFICATION FileSpec
INVARIANTS FileTypeOK NeverTorn
CHECK_DEADLOCK FALSE
