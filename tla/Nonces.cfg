\* Three racing calls; the clock reaches the top of the range.
SPECIFICATION Spec
CONSTANTS
  Calls = {c1, c2, c3}
  Top = 4
SYMMETRY Symmetric
INVARIANTS TypeOK NonceInv NoncesDistinct RealTimeOrder
PROPERTIES ImplementsNonceSource
CHECK_DEADLOCK FALSE
