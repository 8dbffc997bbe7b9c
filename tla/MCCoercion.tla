------------------------------ MODULE MCCoercion ------------------------------
(***************************************************************************)
(* Coercion for every operator over two columns or sums of columns, and    *)
(* for CASE of three branches, of every kind of type.                      *)
(***************************************************************************)
EXTENDS Coercion

Wide == {Signed(8), Signed(32), Signed(64), Unsigned(8), Unsigned(32), Unsigned(64),
         Float(32), Float(64), Decimal(5, 2), Decimal(20, 10), Decimal(38, 0),
         Text(32), Text(64), Bool, Null, Interval, Date(32), Date(64),
         Timestamp(0, 0), Timestamp(9, 0), Timestamp(3, 1), Timestamp(6, 2)}

Few == {Signed(8), Signed(64), Unsigned(64), Float(64), Decimal(5, 2), Decimal(38, 20), Decimal(38, 0),
        Text(32), Text(64), Null, Date(32), Date(64), Timestamp(0, 0), Timestamp(9, 0), Timestamp(3, 1)}

Column(t) == [type |-> t, summed |-> FALSE]
Sum(t) == [type |-> t, summed |-> TRUE]

MCExpr ==
  [op : {"plus", "multiply", "divide", "compare", "logic", "bits"},
   args : {<<Column(t), Column(u)>> : t, u \in Wide} \cup {<<Sum(t), Column(u)>> : t, u \in Wide}]
  \cup [op : {"case"}, args : {<<Column(t), Column(u), Column(v)>> : t, u, v \in Few}]
  \cup [op : {"sum"}, args : {<<Sum(t)>> : t \in Wide}]

\* A declaration of the right type, of that of an operand, or of a boolean.
MCDeclarable(e) ==
  {CoerceList(e.op, Operands(e)), e.args[1].type, Bool} \ {No}
================================================================================
