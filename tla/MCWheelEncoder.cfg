SPECIFICATION Spec
CONSTANTS
  Debounce = 1
  Enough = 5
INVARIANTS TypeOK DirectionTrusted
