\* Lists of at most two items of eleven kinds, or none.
SPECIFICATION Spec
CONSTANTS
  Items <- MCItems
  MaxItems = 2
  Absent = absent
INVARIANTS
  AllOrNothing
CHECK_DEADLOCK FALSE
