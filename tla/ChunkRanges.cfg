CONSTANTS
  MaxLength = 6
  Sizes = {2, 3}
  Overlaps = {0}
SPECIFICATION Spec
INVARIANT RangesPointBack
CHECK_DEADLOCK FALSE
