SPECIFICATION Spec
CONSTANTS
  Expr <- MCExpr
  Declarable <- MCDeclarable
INVARIANTS OperandsHeld VerdictIsOrderFree NumbersMeet CaseIsOrderFree
CHECK_DEADLOCK FALSE
