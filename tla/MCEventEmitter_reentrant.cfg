CONSTANTS
  Handlers = {h1, h2, h3}
  NoHandler = NoHandler
  MaxEmits = 3
  MaxUses = 5
SPECIFICATION Spec
INVARIANTS
  TypeOK
  OnceIsOnce
  UndisturbedIsExact
  Announced
SYMMETRY Symmetry
CHECK_DEADLOCK FALSE
