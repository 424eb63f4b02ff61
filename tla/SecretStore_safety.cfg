SPECIFICATION Spec
CONSTANTS
  Ids = {i1, i2}
  Calls = {c1, c2, c3}
  None = None
SYMMETRY Symmetry
CHECK_DEADLOCK FALSE
INVARIANTS OkLasts LeaseBinds
PROPERTIES ImplementsAtomicStore
