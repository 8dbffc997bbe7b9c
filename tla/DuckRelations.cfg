SPECIFICATION Spec
CONSTANTS Query = {q1, q2}
  Pooled = {u}
  Embedded = {m}
  Param = {a, b}
  Wild = Wild
  None = None
INVARIANTS EntriesStay ReadsOwn
CHECK_DEADLOCK FALSE
