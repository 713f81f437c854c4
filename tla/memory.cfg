SPECIFICATION Spec
CONSTANTS
  Keys = {k1, k2}
  Values = {v1, v2}
  None = None
  Absent = Absent
  Torn = Torn
INVARIANTS
  NoLitter
PROPERTY
  IsAtomic
