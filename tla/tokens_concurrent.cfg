CONSTANTS
  Requests = {r1, r2}
  MaxFamilies = 1
  StrictBind = TRUE
  MaxRows = 3
  MaxVersion = 1
SPECIFICATION Spec
SYMMETRY RequestSymmetry
INVARIANTS LinearRotation
PROPERTIES ImplementsSessions
