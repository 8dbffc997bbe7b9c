SPECIFICATION Spec
CONSTANTS
  Cell = {1, 2, 3, 4}
  Callback = {k1, k2}
  Task = {}
  Ctor = {"int", "name", "ext"}
  Sort = {"type"}
  SortOf <- CellSorts
  Sig <- Signature
  Shared <- SharedFields
  Flipped = {}
  Opaque = {"name"}
  External = {"ext"}
  Unknown = Unknown
  NoCell = NoCell
  Main = Main
  Nobody = Nobody
SYMMETRY Symmetry
INVARIANTS PendingOnlyOnUnknown DueOnlyOnKnown NothingLost
PROPERTIES CalledOnce KnownIsStable ImplementsUnification
CHECK_DEADLOCK FALSE
