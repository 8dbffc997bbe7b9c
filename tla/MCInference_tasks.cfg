SPECIFICATION FairSpec
CONSTANTS
  Cell = {1, 2, 3}
  Callback = {k1}
  Task = {t1, t2}
  Ctor = {"int"}
  Sort = {"type"}
  SortOf <- CellSorts
  Sig <- Signature
  Shared <- SharedFields
  Flipped = {}
  Opaque = {}
  External = {}
  Unknown = Unknown
  NoCell = NoCell
  Main = Main
  Nobody = Nobody
INVARIANTS IdleUnlessError
PROPERTIES WokenEventually UnifyReturns
