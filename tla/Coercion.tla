------------------------------- MODULE Coercion -------------------------------
(***************************************************************************)
(* The type of an expression over operands whose types become known in any *)
(* order (compile/coerce.rs, CoerceGeneric and SumGeneric of               *)
(* compile/generics.rs, coerce_all of compile/sql.rs).                     *)
(*                                                                         *)
(* An expression is one operator over columns and sums of columns.  Once   *)
(* all the columns are known, the operand types are folded into a target,  *)
(* which is the expression's type unless the operator gives a boolean;     *)
(* a task per operand casts the operand to the target.  A declaration      *)
(* (`let x decimal = ...`) is unified with the expression's type at any    *)
(* time.  Types are atoms; type parameters of functions are left out.      *)
(***************************************************************************)
EXTENDS Integers, Sequences, SequencesExt

CONSTANTS
  Expr,         \* the expressions that may be compiled
  Declarable(_) \* the types an expression may be declared to have

\* A type is its kind with a size and a scale: the bits of a number or a date,
\* the digits of a decimal, the digits of a timestamp's fractions of a second
\* with its time zone (0 is none).
Type(k, p, s) == [kind |-> k, p |-> p, s |-> s]
Signed(bits) == Type("int", bits, 0)
Unsigned(bits) == Type("uint", bits, 0)
Float(bits) == Type("float", bits, 0)
Decimal(p, s) == Type("decimal", p, s)
Date(bits) == Type("date", bits, 0)
Timestamp(unit, tz) == Type("timestamp", unit, tz)
Text(bits) == Type("text", bits, 0)
Bool == Type("bool", 0, 0)
Null == Type("null", 0, 0)
Interval == Type("interval", 0, 0)
No == Type("none", 0, 0)   \* Rust's Option::None; of a cell: not known yet

Numeric == {"int", "uint", "float", "decimal"}
AreNumeric(l, r) == {l.kind, r.kind} \subseteq Numeric
Is(k, t) == t.kind = k
Either(k, l, r) == k \in {l.kind, r.kind}

\* The types of columns that the language names or DuckDB's tables have; times
\* of day, which meet nothing but themselves and NULL, are left out.
AtomicType ==
  [kind : {"int", "uint"}, p : {8, 16, 32, 64}, s : {0}]
  \cup [kind : {"float", "date", "text"}, p : {32, 64}, s : {0}]
  \cup {d \in [kind : {"decimal"}, p : 1..38, s : 0..38] : d.s <= d.p}
  \cup [kind : {"timestamp"}, p : 0..9, s : Nat]
  \cup {Bool, Null, Interval}

\* An expression has columns: `sum` on its own one, an operator two.
ASSUME ExpressionsAssumption ==
  \A e \in Expr :
    /\ e.op \in {"sum", "case", "compare", "plus", "multiply", "divide", "logic", "bits"}
    /\ e.args \in Seq([type : AtomicType, summed : BOOLEAN]) \ {<<>>}
    /\ e.op = "sum" => Len(e.args) = 1
    /\ e.op \notin {"sum", "case"} => Len(e.args) = 2
    /\ No \notin Declarable(e)

\* The operand that is of the given kind, and the other one.
Of(k, l, r) == IF Is(k, l) THEN l ELSE r
Beside(k, l, r) == IF Is(k, l) THEN r ELSE l

-----------------------------------------------------------------------------
\* (mutant: the unsigned ones are forgotten)
SignedOnly == <<Signed(64), Signed(32), Signed(16), Signed(8)>>

\* "ordered from most informative to least informative".
Integral ==
  <<Signed(64), Signed(32), Signed(16), Signed(8),
    Unsigned(64), Unsigned(32), Unsigned(16), Unsigned(8)>>
Informative == <<Float(64), Float(32)>> \o Integral

\* The first type of the list that is one of the two.
FirstOf(types, l, r) ==
  LET i == SelectInSeq(types, LAMBDA t : t \in {l, r}) IN IF i = 0 THEN No ELSE types[i]

CreateDecimal(p, s) == Decimal(Min({p, 38}), Min({s, 38}))

WholeDigits(t) == t.p - t.s

Wider(d, e) ==
  LET s == Max({d.s, e.s}) IN CreateDecimal(s + Max({WholeDigits(d), WholeDigits(e)}), s)

\* (mutant: the largest Int32 has nine digits)
DigitsShort == [b \in {8, 16, 32, 64} |-> CASE b = 8 -> 3 [] b = 16 -> 5 [] b = 32 -> 9 [] b = 64 -> 20]

\* The digits of the decimal that a signed integer becomes.
DecimalDigits == [b \in {8, 16, 32, 64} |-> CASE b = 8 -> 3 [] b = 16 -> 5 [] b = 32 -> 10 [] b = 64 -> 20]

\* The decimal type that a signed number has; an unsigned one has none.
AsDecimal(t) ==
  CASE Is("int", t)   -> Decimal(DecimalDigits[t.p], 0)
    [] Is("float", t) -> IF t.p = 32 THEN Decimal(14, 7) ELSE Decimal(30, 15)
    [] OTHER          -> No

-----------------------------------------------------------------------------
\* Comparisons and CASE: the first of these rules that gives a type.

NumericComparison(l, r) ==
  IF ~AreNumeric(l, r) THEN No
  ELSE IF Is("decimal", l) /\ Is("decimal", r) THEN Wider(l, r)
  ELSE IF Either("decimal", l, r)
       THEN LET d == AsDecimal(Beside("decimal", l, r))
            IN  IF d = No THEN No ELSE Wider(Of("decimal", l, r), d)
  ELSE FirstOf(Informative, l, r)

\* The coarser unit, and the time zone of the one that has one.
Temporal(l, r) ==
  IF Is("date", l) /\ Is("date", r) THEN Date(64)
  ELSE IF {l.kind, r.kind} = {"date", "text"} /\ Of("text", l, r) = Text(32) THEN Of("date", l, r)
  ELSE IF Is("timestamp", l) /\ Is("timestamp", r) /\ (l.s = r.s \/ 0 \in {l.s, r.s})
       THEN Timestamp(Min({l.p, r.p}), Max({l.s, r.s}))
  ELSE No

\* (mutant: the left text decides)
TextsLeft(l, r) == IF Is("text", l) /\ Is("text", r) THEN l ELSE No

Texts(l, r) == IF Is("text", l) /\ Is("text", r) THEN Text(Max({l.p, r.p})) ELSE No

\* Arrow casts NULL to every type that there is here.
NullAnd(l, r) == IF Either("null", l, r) THEN Beside("null", l, r) ELSE No

TextAndNumber(l, r) ==
  IF Either("text", l, r) /\ Beside("text", l, r).kind \in Numeric THEN Of("text", l, r) ELSE No

Comparison(l, r) ==
  LET rules == <<NumericComparison(l, r), Temporal(l, r), Texts(l, r), NullAnd(l, r), TextAndNumber(l, r)>>
      i     == SelectInSeq(rules, LAMBDA t : t # No)
  IN  IF l = r THEN l ELSE IF i = 0 THEN No ELSE rules[i]

\* At least one number, and otherwise NULL.
Calculable(l, r) == {l.kind, r.kind} \subseteq Numeric \cup {"null"} /\ (l # Null \/ r # Null)

\* The result of a calculation with decimals.
DecimalResult(op, d, e) ==
  CASE op = "plus"     -> LET s == Max({d.s, e.s})
                          IN  CreateDecimal(s + Max({WholeDigits(d), WholeDigits(e)}) + 1, s)
    [] op = "multiply" -> CreateDecimal(d.p + e.p + 1, d.s + e.s)
    [] op = "divide"   -> LET s == Max({6, d.s + e.p + 1})
                          IN  CreateDecimal(s + WholeDigits(d) + e.s, s)

Mathematics(op, l, r) ==
  LET decimal(t) == IF Is("decimal", t) THEN t ELSE AsDecimal(t)
  IN  IF ~Calculable(l, r) THEN No
      ELSE IF l = r THEN l
      ELSE IF Either("decimal", l, r) /\ Either("null", l, r) THEN Of("decimal", l, r)
      ELSE IF Either("decimal", l, r) /\ Either("float", l, r) THEN Float(64)
      ELSE IF Either("decimal", l, r)
           THEN IF No \in {decimal(l), decimal(r)} THEN No
                ELSE DecimalResult(op, decimal(l), decimal(r))
      ELSE FirstOf(Informative, l, r)

\* `date + interval`; `-` has the rules of `+`.
Plus(l, r) ==
  IF l.kind \in {"date", "timestamp"} THEN IF r = Interval THEN l ELSE No
  ELSE Mathematics("plus", l, r)

Bits(l, r) ==
  IF ~Calculable(l, r) THEN No ELSE IF l = r THEN l ELSE FirstOf(Integral, l, r)

\* coerce_types.
Coerce(op, l, r) ==
  CASE op \in {"compare", "case"}    -> Comparison(l, r)
    [] op = "plus"                   -> Plus(l, r)
    [] op \in {"multiply", "divide"} -> Mathematics(op, l, r)
    [] op = "logic"                  -> IF l = Bool /\ r = Bool THEN Bool ELSE No
    [] op = "bits"                   -> Bits(l, r)

\* The type of DuckDB's sum.
SumType(t) ==
  CASE t.kind \in {"int", "uint"} -> Decimal(38, 0)
    [] Is("float", t)             -> Float(64)
    [] Is("decimal", t)           -> t
    [] OTHER                      -> No

Operand(a) == IF a.summed THEN SumType(a.type) ELSE a.type
Operands(e) == [i \in DOMAIN e.args |-> Operand(e.args[i])]

\* coerce_list: every operand has a type; then the first of them, with the others
\* one after the other.  The operators that want booleans are given another
\* one (sql.rs).
CoerceList(op, types) ==
  LET list == IF op \in {"logic", "bits"} THEN Append(types, Bool) ELSE types
      join(t, u) == IF t = No THEN No ELSE Coerce(op, t, u)
      upTo[n \in 1..Len(list)] == IF n = 1 THEN list[1] ELSE join(upTo[n - 1], list[n])
  IN  IF \E i \in DOMAIN types : types[i] = No THEN No ELSE upTo[Len(list)]

-----------------------------------------------------------------------------
VARIABLES
  expr,     \* the expression
  known,    \* the operands whose columns' types are known
  target,   \* the cell of the type the operands are coerced to
  declared, \* the type that was declared, No while it was not
  cast,     \* by operand, the type it has when it is evaluated, No before that
  failed    \* some unification or callback gave an error

vars == <<expr, known, target, declared, cast, failed>>

Init ==
  /\ expr \in Expr
  /\ known = {} /\ target = No /\ declared = No
  /\ cast = [i \in DOMAIN expr.args |-> No]
  /\ failed = FALSE

\* A sum on its own has no target: it is a SumGeneric.
Alone == expr.op = "sum"
Predicate == expr.op \in {"compare", "logic", "bits"}
AllKnown == known = DOMAIN expr.args

\* (mutant: a target that is known already is not compared)
UnifiedFirst(t) ==
  /\ target' = IF target = No THEN t ELSE target
  /\ failed' = (failed \/ t = No)

\* The target is unified with a type, or with the error that there is none.
Unified(t) ==
  /\ target' = IF target = No THEN t ELSE target
  /\ failed' = (failed \/ t = No \/ target \notin {No, t})

\* SumGeneric::unify: a declared type is compared with the sum's column once
\* the column is known.
SumUnified(type, column) ==
  /\ failed' = (failed \/ (No \notin {type, column} /\ type # column))
  /\ UNCHANGED target

\* A column's type becomes known: a sum of it is resolved, and with the last
\* one the target.
Learn(i) ==
  /\ known' = known \cup {i}
  /\ IF Alone THEN SumUnified(declared, expr.args[i].type)
     ELSE IF known' = DOMAIN expr.args THEN Unified(CoerceList(expr.op, Operands(expr)))
     ELSE /\ failed' = (failed \/ Operand(expr.args[i]) = No)
          /\ UNCHANGED target
  /\ UNCHANGED <<expr, declared, cast>>

\* The expression's type is unified with a declared one.
Declare(t) ==
  /\ declared = No
  /\ declared' = t
  /\ IF Alone THEN SumUnified(t, IF AllKnown THEN expr.args[1].type ELSE No)
     ELSE IF Predicate THEN failed' = (failed \/ t # Bool) /\ UNCHANGED target
     ELSE Unified(t)
  /\ UNCHANGED <<expr, known, cast>>

\* The task of coerce_all for one operand: a cast unless it has the target's type.
Cast(i) ==
  /\ target # No /\ i \in known /\ cast[i] = No
  /\ cast' = [cast EXCEPT ![i] = target]
  /\ UNCHANGED <<expr, known, target, declared, failed>>

Next ==
  \/ \E i \in DOMAIN expr.args \ known : Learn(i)
  \/ \E t \in Declarable(expr) : Declare(t)
  \/ \E i \in DOMAIN expr.args : Cast(i)

Spec == Init /\ [][Next]_vars

-----------------------------------------------------------------------------
\* Reference: the whole digits of an integer's largest value, the bits of a
\* float's mantissa, and the types that hold every value of another one.
Digits(t) == CASE t.p = 8 -> 3 [] t.p = 16 -> 5 [] t.p = 32 -> 10 [] t.p = 64 -> IF Is("int", t) THEN 19 ELSE 20
ExactBits(f) == IF f.p = 32 THEN 24 ELSE 53
ExactDigits(f) == IF f.p = 32 THEN 6 ELSE 15

Holds(into, t) ==
  \/ t \in {into, Null}
  \/ Is("text", into) /\ (t.kind \in Numeric \/ (Is("text", t) /\ t.p <= into.p))
  \/ Is("int", into) /\ ((Is("int", t) /\ t.p <= into.p) \/ (Is("uint", t) /\ t.p < into.p))
  \/ t.kind = into.kind /\ t.kind \in {"uint", "float", "date"} /\ t.p <= into.p
  \/ Is("decimal", into) /\ t.kind \in {"int", "uint"} /\ Digits(t) <= WholeDigits(into)
  \/ Is("decimal", into) /\ Is("decimal", t) /\ t.s <= into.s /\ WholeDigits(t) <= WholeDigits(into)
  \/ Is("float", into) /\ t.kind \in {"int", "uint"} /\ t.p <= ExactBits(into)
  \/ Is("float", into) /\ Is("decimal", t) /\ t.p <= ExactDigits(into)
  \/ Is("timestamp", into) /\ Is("timestamp", t) /\ t.p <= into.p /\ t.s \in {0, into.s}

\* The kinds of types that meet in the expression.
Kinds == {Operand(expr.args[i]).kind : i \in DOMAIN expr.args}

\* The casts that are known to change or to refuse values.
Approximates == "float" \in Kinds
TakesUnsigned(t) == Is("uint", t) /\ "int" \in Kinds
Capped(into) == Is("decimal", into) /\ into.p = 38
Coarsens(t, into) == Is("timestamp", t) /\ into.p < t.p
ReadsText(t, into) == Is("text", t) /\ Is("date", into)

\* An operand is never cast to a type that does not hold its values (coerce.rs:
\* "so that the coercion does not lose information via truncation"), but for
\* the casts above; for a decimal's divisor and an interval, which are cast to
\* the type of the result; and for a branch that met a text which met a date.
OperandsHeld ==
  AllKnown /\ ~failed =>
    \A i \in DOMAIN cast :
      LET t == Operand(expr.args[i])
      IN  \/ cast[i] = No \/ Holds(cast[i], t)
          \/ Approximates \/ TakesUnsigned(t) \/ Capped(cast[i])
          \/ Coarsens(t, cast[i]) \/ ReadsText(t, cast[i])
          \/ expr.op = "divide" /\ i = 2 /\ Is("decimal", cast[i])
          \/ expr.op = "plus" /\ t = Interval
          \/ expr.op = "case" /\ "text" \in Kinds /\ Is("date", cast[i])

\* What an expression's type is, when it has one; that of a sum on its own is
\* taken to be its column's, although DuckDB's sum has another (generics.rs).
Proper == IF Alone THEN expr.args[1].type
          ELSE IF CoerceList(expr.op, Operands(expr)) = No THEN No
          ELSE IF Predicate THEN Bool ELSE CoerceList(expr.op, Operands(expr))

\* Whether an expression compiles under a declaration, and what its operands
\* are then cast to, depends on the types and not on the order in which the
\* columns, the declaration and the tasks come (generics.rs, sql.rs).
VerdictIsOrderFree ==
  /\ AllKnown => failed = (Proper = No \/ declared \notin {No, Proper})
  /\ AllKnown /\ ~failed =>
       \A i \in DOMAIN cast : cast[i] \in {No, CoerceList(expr.op, Operands(expr))}

\* Numbers always meet: a calculation or CASE with numbers is refused only when
\* decimals meet unsigned numbers.
NumbersMeet ==
  AllKnown /\ failed /\ declared = No /\ expr.op \in {"plus", "multiply", "divide", "compare", "case"}
    /\ (\A i \in DOMAIN expr.args : Operand(expr.args[i]).kind \in Numeric) =>
      /\ \E i \in DOMAIN expr.args : Is("uint", Operand(expr.args[i]))
      /\ \E i \in DOMAIN expr.args : Is("decimal", Operand(expr.args[i]))

\* The branches of a CASE in another order.
Orders == {p \in [DOMAIN expr.args -> DOMAIN expr.args] : {p[i] : i \in DOMAIN p} = DOMAIN p}

\* The type of a CASE does not depend on the order of its branches (coerce.rs
\* takes them one after the other), unless decimals come with other numbers than
\* signed ones, or text with a date and a number.
CaseIsOrderFree ==
  AllKnown /\ expr.op = "case" =>
    \/ \A p \in Orders :
         CoerceList("case", [i \in DOMAIN p |-> Operand(expr.args[p[i]])]) =
         CoerceList("case", Operands(expr))
    \/ "decimal" \in Kinds /\ Kinds \cap {"uint", "float"} # {}
    \/ {"text", "date"} \subseteq Kinds /\ Kinds \cap Numeric # {}

-----------------------------------------------------------------------------
\* The inductive invariant behind VerdictIsOrderFree.

\* Until the last column is known nothing but the declaration gives a target,
\* and the only errors are those of sums without a type and of a declared type
\* that is not a boolean.
Early ==
  /\ target = IF Alone \/ Predicate THEN No ELSE declared
  /\ failed = IF Alone THEN FALSE
              ELSE \/ \E i \in known : Operand(expr.args[i]) = No
                   \/ Predicate /\ declared \notin {No, Bool}

\* From then on the verdict is that of the types, and the target their join.
Late ==
  /\ failed = (Proper = No \/ declared \notin {No, Proper})
  /\ ~failed => target = IF Alone THEN No ELSE CoerceList(expr.op, Operands(expr))

VerdictInv ==
  /\ expr \in Expr
  /\ known \subseteq DOMAIN expr.args
  /\ declared \in Declarable(expr) \cup {No}
  /\ failed \in BOOLEAN
  /\ cast \in [DOMAIN expr.args -> {No, target}]
  /\ ~AllKnown => Early
  /\ AllKnown => Late
================================================================================
