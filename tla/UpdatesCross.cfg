SPECIFICATION Spec
CONSTANTS
  BadSecs = 2
  GoodSecs = 3
  MaxChanges = 2
INVARIANT CodecsAgree
CHECK_DEADLOCK FALSE
