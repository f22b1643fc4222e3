SPECIFICATION Spec
CONSTANTS
  Types <- EightBits
  MaxDigits = 4
INVARIANTS Saturates ReportsOverflow WrapsAround
CHECK_DEADLOCK FALSE
