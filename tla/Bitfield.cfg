SPECIFICATION Spec
CONSTANTS
  MaxLength = 9
INVARIANTS Represents SpareBitsZero Accepted
