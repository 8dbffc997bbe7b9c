SPECIFICATION HSpec
CONSTANTS
  Cell = {1, 2, 3, 4, 5}
  Callback = {}
  Task = {}
  Ctor = {"int", "rec", "rec2"}
  Sort = {"type", "shape"}
  SortOf <- CellSorts
  Sig <- Signature
  Shared <- SharedFields
  Flipped = {"rec", "rec2"}
  Opaque = {}
  External = {}
  Unknown = Unknown
  NoCell = NoCell
  Main = Main
  Nobody = Nobody
INVARIANT UnifiedMeansEqual
PROPERTY ClassesOnlyGrow
