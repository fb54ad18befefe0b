SPECIFICATION Spec
CONSTANTS
  Names = {p1, p2, p3}
  Contents = {c1, c2}
  Absent = Absent
  Partial = Partial
  MaxChanges = 2
INVARIANTS NoContentLost AllOrNothing
PROPERTIES NoClobber EditIsAtomic
SYMMETRY Symmetry
CHECK_DEADLOCK FALSE
