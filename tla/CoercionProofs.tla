---------------------------- MODULE CoercionProofs ----------------------------
(* What the coercion of an expression's operands guarantees for every      *)
(* expression, number of operands and declaration.                         *)
EXTENDS Coercion, WellFoundedInduction, TLAPS

\* A type, field by field.
Atomic(t) ==
  /\ t = Type(t.kind, t.p, t.s) /\ t.p \in Nat /\ t.s \in Nat
  /\ t.kind \in {"int", "uint", "float", "decimal", "date", "text", "timestamp", "bool", "null", "interval"}
  /\ t.kind \in {"int", "uint"} => t.p \in {8, 16, 32, 64} /\ t.s = 0
  /\ t.kind \in {"float", "date", "text"} => t.p \in {32, 64} /\ t.s = 0
  /\ t.kind = "decimal" => t.p \in 1..38 /\ t.s \in 0..t.p
  /\ t.kind \in {"bool", "null", "interval"} => t.p = 0 /\ t.s = 0

LEMMA AtomicFields ==
  ASSUME NEW t \in AtomicType
  PROVE  Atomic(t)
  <1>1. CASE t \in [kind : {"int", "uint"}, p : {8, 16, 32, 64}, s : {0}]
    BY <1>1 DEF Atomic, Type
  <1>2. CASE t \in [kind : {"float", "date", "text"}, p : {32, 64}, s : {0}]
    BY <1>2 DEF Atomic, Type
  <1>3. CASE t \in [kind : {"decimal"}, p : 1..38, s : 0..38] /\ t.s <= t.p
    BY <1>3 DEF Atomic, Type
  <1>4. CASE t \in [kind : {"timestamp"}, p : 0..9, s : Nat]
    BY <1>4 DEF Atomic, Type
  <1>5. CASE t \in {Bool, Null, Interval}
    BY <1>5 DEF Atomic, Type, Bool, Null, Interval
  <1> QED BY <1>1, <1>2, <1>3, <1>4, <1>5 DEF AtomicType

\* The types of the columns are known to be types, and there is at least one.
LEMMA Columns ==
  ASSUME NEW e \in Expr
  PROVE  /\ DOMAIN e.args = 1..Len(e.args) /\ Len(e.args) \in Nat \ {0}
         /\ \A i \in DOMAIN e.args : e.args[i].type # No
         /\ e.op = "sum" => DOMAIN e.args = {1}
         /\ No \notin Declarable(e)
  <1> DEFINE Argument == [type : AtomicType, summed : BOOLEAN]
  <1>1. /\ e.args \in Seq(Argument) /\ e.args # <<>>
        /\ e.op = "sum" => Len(e.args) = 1
        /\ No \notin Declarable(e)
    BY ExpressionsAssumption
  <1>2. \A t \in AtomicType : t # No
    <2>1. No.kind = "none"
      BY DEF No, Type
    <2> QED BY <2>1, AtomicFields DEF Atomic
  <1>3. \A a \in Argument : a.type \in AtomicType
    OBVIOUS
  <1> HIDE DEF Argument
  <1>4. /\ DOMAIN e.args = 1..Len(e.args) /\ Len(e.args) \in Nat \ {0}
        /\ \A i \in DOMAIN e.args : e.args[i] \in Argument
    BY <1>1
  <1> QED BY <1>1, <1>2, <1>3, <1>4

\* An operand without a type leaves the expression without one.
LEMMA NoJoin ==
  ASSUME NEW e, NEW i \in DOMAIN e.args, Operand(e.args[i]) = No
  PROVE  CoerceList(e.op, Operands(e)) = No
  BY DEF CoerceList, Operands

-----------------------------------------------------------------------------
LEMMA InitHolds == Init => VerdictInv
  <1> SUFFICES ASSUME Init PROVE VerdictInv
    OBVIOUS
  <1>1. expr \in Expr /\ known = {} /\ target = No /\ declared = No /\ failed = FALSE
        /\ cast = [i \in DOMAIN expr.args |-> No]
    BY DEF Init
  <1>2. ~AllKnown
    <2>1. 1 \in DOMAIN expr.args
      BY <1>1, Columns
    <2> QED BY <1>1, <2>1 DEF AllKnown
  <1> QED BY <1>1, <1>2 DEF VerdictInv, Early

\* The last column but one, and those before it.
LEMMA LearnEarly ==
  ASSUME VerdictInv, NEW i \in DOMAIN expr.args \ known, Learn(i), ~AllKnown'
  PROVE  VerdictInv'
  <1>1. /\ UNCHANGED <<expr, declared, cast>> /\ known' = known \cup {i}
        /\ known' # DOMAIN expr.args /\ ~AllKnown
    BY DEF Learn, AllKnown, VerdictInv
  <1>2. ~Alone
    BY <1>1, Columns DEF Alone, VerdictInv
  <1>3. failed' = (failed \/ Operand(expr.args[i]) = No) /\ target' = target
    BY <1>1, <1>2 DEF Learn
  <1>4. Early'
    BY <1>1, <1>2, <1>3 DEF VerdictInv, Early, Alone, Predicate
  <1> QED BY <1>1, <1>3, <1>4 DEF VerdictInv

\* The last column: the operands meet.
LEMMA LearnLast ==
  ASSUME VerdictInv, NEW i \in DOMAIN expr.args \ known, Learn(i), AllKnown'
  PROVE  VerdictInv'
  <1> DEFINE join == CoerceList(expr.op, Operands(expr))
  <1>1. /\ UNCHANGED <<expr, declared, cast>> /\ known' = known \cup {i}
        /\ known' = DOMAIN expr.args /\ ~AllKnown
    BY DEF Learn, AllKnown, VerdictInv
  <1>2. CASE Alone
    <2>1. i = 1
      BY <1>2, Columns DEF Alone, VerdictInv
    <2>2. /\ failed' = (failed \/ (No \notin {declared, expr.args[1].type} /\ declared # expr.args[1].type))
          /\ target' = target
      BY <1>2, <2>1 DEF Learn, SumUnified
    <2>3. expr.args[1].type # No
      BY <1>1, <2>1, Columns DEF VerdictInv
    <2>4. Late'
      BY <1>1, <1>2, <2>2, <2>3 DEF VerdictInv, Early, Late, Alone, Proper
    <2> QED BY <1>1, <2>2, <2>4 DEF VerdictInv
  <1>3. CASE ~Alone
    <2> HIDE DEF join
    <2>1. /\ target' = IF target = No THEN join ELSE target
          /\ failed' = (failed \/ join = No \/ target \notin {No, join})
      BY <1>1, <1>3 DEF Learn, Unified, join
    <2>2. (\E j \in known : Operand(expr.args[j]) = No) => join = No
      BY NoJoin DEF join, VerdictInv
    <2>3. Proper = IF join = No THEN No ELSE IF Predicate THEN Bool ELSE join
      BY <1>3 DEF Proper, join
    <2>4. Proper' = Proper /\ join' = join /\ (Alone <=> Alone')
      BY <1>1 DEF Proper, join, Alone, Predicate
    <2>5. Bool # No
      BY DEF Bool, No, Type
    <2>6. failed' = (Proper = No \/ declared \notin {No, Proper})
      BY <1>1, <1>3, <2>1, <2>2, <2>3, <2>5 DEF VerdictInv, Early
    <2>7. ~failed' => target' = join
      BY <2>1
    <2>8. Late'
      BY <1>1, <1>3, <2>4, <2>6, <2>7 DEF Late, join
    <2>9. cast \in [DOMAIN expr.args -> {No, target'}]
      BY <2>1 DEF VerdictInv
    <2> QED BY <1>1, <2>1, <2>8, <2>9 DEF VerdictInv
  <1> QED BY <1>2, <1>3

\* A declaration.
LEMMA DeclareKeeps ==
  ASSUME VerdictInv, NEW t \in Declarable(expr), Declare(t)
  PROVE  VerdictInv'
  <1> DEFINE join == CoerceList(expr.op, Operands(expr))
  <1>1. /\ UNCHANGED <<expr, known, cast>> /\ declared = No /\ declared' = t
        /\ t # No
    BY Columns DEF Declare, VerdictInv
  <1>2. /\ Proper' = Proper /\ join' = join /\ (Alone <=> Alone') /\ (Predicate <=> Predicate')
        /\ (AllKnown <=> AllKnown')
    BY <1>1 DEF Proper, Alone, Predicate, AllKnown
  <1>3. Bool # No
    BY DEF Bool, No, Type
  <1>4. expr.args[1].type # No
    BY Columns DEF VerdictInv
  <1> HIDE DEF join
  <1>5. CASE Alone
    <2>1. /\ failed' = (failed \/ (AllKnown /\ t # expr.args[1].type)) /\ target' = target
      BY <1>1, <1>4, <1>5 DEF Declare, SumUnified, VerdictInv
    <2>2. AllKnown => Late'
      BY <1>1, <1>2, <1>4, <1>5, <2>1 DEF VerdictInv, Late, Proper
    <2>3. ~AllKnown => Early'
      BY <1>1, <1>2, <1>5, <2>1 DEF VerdictInv, Early
    <2> QED BY <1>1, <1>2, <2>1, <2>2, <2>3 DEF VerdictInv
  <1>6. CASE ~Alone /\ Predicate
    <2>1. failed' = (failed \/ t # Bool) /\ target' = target
      BY <1>1, <1>6 DEF Declare
    <2>2. Proper \in {No, Bool}
      BY <1>6 DEF Proper
    <2>3. AllKnown => Late'
      BY <1>1, <1>2, <1>6, <2>1, <2>2 DEF VerdictInv, Late, join
    <2>4. ~AllKnown => Early'
      BY <1>1, <1>2, <1>3, <1>6, <2>1 DEF VerdictInv, Early
    <2> QED BY <1>1, <1>2, <2>1, <2>3, <2>4 DEF VerdictInv
  <1>7. CASE ~Alone /\ ~Predicate
    <2>1. /\ target' = IF target = No THEN t ELSE target
          /\ failed' = (failed \/ target \notin {No, t})
      BY <1>1, <1>7 DEF Declare, Unified
    <2>2. Proper = join
      BY <1>7 DEF Proper, join
    <2>3. AllKnown => Late'
      BY <1>1, <1>2, <1>7, <2>1, <2>2 DEF VerdictInv, Late, join
    <2>4. ~AllKnown => Early'
      BY <1>1, <1>2, <1>7, <2>1 DEF VerdictInv, Early
    <2>5. cast \in [DOMAIN expr.args -> {No, target'}]
      BY <2>1 DEF VerdictInv
    <2> QED BY <1>1, <1>2, <2>1, <2>3, <2>4, <2>5 DEF VerdictInv
  <1> QED BY <1>5, <1>6, <1>7

LEMMA CastKeeps ==
  ASSUME VerdictInv, NEW i \in DOMAIN expr.args, Cast(i)
  PROVE  VerdictInv'
  <1>1. /\ UNCHANGED <<expr, known, target, declared, failed>>
        /\ cast' \in [DOMAIN expr.args -> {No, target}]
    BY DEF Cast, VerdictInv
  <1> QED BY <1>1 DEF VerdictInv, Early, Late, Alone, Predicate, AllKnown, Proper

THEOREM Invariance == Spec => []VerdictInv
  <1>1. VerdictInv /\ [Next]_vars => VerdictInv'
    <2> SUFFICES ASSUME VerdictInv, [Next]_vars PROVE VerdictInv'
      OBVIOUS
    <2>1. ASSUME NEW i \in DOMAIN expr.args \ known, Learn(i) PROVE VerdictInv'
      BY <2>1, LearnEarly, LearnLast
    <2>2. CASE UNCHANGED vars
      BY <2>2 DEF vars, VerdictInv, Early, Late, Alone, Predicate, AllKnown, Proper
    <2> QED BY <2>1, <2>2, DeclareKeeps, CastKeeps DEF Next
  <1> QED BY <1>1, InitHolds, PTL DEF Spec

\* Whether an expression compiles, and what its operands are cast to, is decided
\* by the types and not by the order in which they come (generics.rs, sql.rs).
THEOREM OrderDoesNotMatter == Spec => []VerdictIsOrderFree
  <1>1. VerdictInv => VerdictIsOrderFree
    BY DEF VerdictInv, Late, VerdictIsOrderFree
  <1> QED BY <1>1, Invariance, PTL

-----------------------------------------------------------------------------
\* A set of natural numbers has a least one: what takes the place of induction.
LEMMA LeastOne ==
  ASSUME NEW T, T \subseteq Nat, T # {}
  PROVE  \E x \in T : \A y \in T : x <= y
  <1> DEFINE Less == OpToRel(<, Nat)
  <1>1. IsWellFoundedOn(Less, Nat)
    BY NatLessThanWellFounded
  <1>2. \A x, y \in Nat : <<y, x>> \in Less <=> y < x
    BY DEF OpToRel
  <1> HIDE DEF Less
  <1>3. PICK x \in T : \A y \in T : ~(<<y, x>> \in Less)
    BY <1>1, WFMin
  <1>4. ASSUME NEW y \in T PROVE x <= y
    <2>1. x \in Nat /\ y \in Nat
      OBVIOUS
    <2>2. ~(y < x)
      BY <1>2, <1>3, <2>1
    <2> QED BY <2>1, <2>2
  <1> QED BY <1>4

\* The least and the largest element of a set are in it.
LEMMA MinIsIn ==
  ASSUME NEW T, T \subseteq Nat, T # {}
  PROVE  Min(T) \in T /\ \A y \in T : Min(T) <= y
  BY LeastOne DEF Min

LEMMA OneOfTwo ==
  ASSUME NEW a \in Int, NEW b \in Int
  PROVE  Min({a, b}) \in {a, b} /\ Max({a, b}) \in {a, b}
  <1>1. CASE a <= b
    <2>1. \A y \in {a, b} : a <= y /\ b >= y
      BY <1>1
    <2> QED BY <2>1 DEF Min, Max
  <1>2. CASE b < a
    <2>1. \A y \in {a, b} : b <= y /\ a >= y
      BY <1>2
    <2> QED BY <2>1 DEF Min, Max
  <1> QED BY <1>1, <1>2

\* What coerce_list computes, step by step, and where it stays.
CoerceStep(op, t, u) == IF t = No THEN No ELSE Coerce(op, t, u)
CoerceSteps(f, op, list, L) ==
  f = [n \in 1..L |-> IF n = 1 THEN list[1] ELSE CoerceStep(op, f[n - 1], list[n])]

LEMMA StepsExist ==
  ASSUME NEW op, NEW list, NEW L \in Nat
  PROVE  \E f : CoerceSteps(f, op, list, L)
  <1> DEFINE Bad == {l \in Nat : ~ \E f : CoerceSteps(f, op, list, l)}
  <1>1. SUFFICES Bad = {}
    <2>1. PICK f : CoerceSteps(f, op, list, L)
      BY <1>1
    <2> QED BY <2>1
  <1>2. SUFFICES ASSUME Bad # {} PROVE FALSE
    OBVIOUS
  <1>3. PICK l \in Bad : \A k \in Bad : l <= k
    BY <1>2, LeastOne
  <1>4. l # 0
    <2>1. CoerceSteps([n \in 1..0 |-> No], op, list, 0)
      BY DEF CoerceSteps
    <2> QED BY <2>1
  <1>5. l - 1 \in Nat /\ l - 1 \notin Bad
    <2>1. l \in Nat
      OBVIOUS
    <2> HIDE DEF Bad
    <2> QED BY <1>3, <1>4, <2>1
  <1>6. PICK g : CoerceSteps(g, op, list, l - 1)
    BY <1>5
  <1> DEFINE f == [n \in 1..l |-> IF n < l THEN g[n] ELSE IF n = 1 THEN list[1] ELSE CoerceStep(op, g[n - 1], list[n])]
  <1>7. \A n \in 1..l : f[n] = IF n = 1 THEN list[1] ELSE CoerceStep(op, f[n - 1], list[n])
    BY <1>4, <1>5, <1>6 DEF CoerceSteps
  <1>8. CoerceSteps(f, op, list, l)
    BY <1>7 DEF CoerceSteps
  <1> QED BY <1>8

LEMMA JoinStays ==
  ASSUME NEW op, op \notin {"logic", "bits"}, NEW K, No \notin K,
         \A t, u \in K : Coerce(op, t, u) \in K,
         NEW types \in Seq(K), types # <<>>
  PROVE  CoerceList(op, types) \in K
  <1> DEFINE L == Len(types)
             upTo == CHOOSE f : CoerceSteps(f, op, types, L)
  <1>1. L \in Nat \ {0} /\ \A i \in 1..L : types[i] \in K
    OBVIOUS
  <1>2. CoerceList(op, types) = upTo[L]
    <2>1. DOMAIN types = 1..L /\ ~ \E i \in DOMAIN types : types[i] = No
      BY <1>1
    <2> QED BY <2>1 DEF CoerceList, CoerceSteps, CoerceStep
  <1>3. CoerceSteps(upTo, op, types, L)
    <2>1. L \in Nat
      BY <1>1
    <2>2. \E f : CoerceSteps(f, op, types, L)
      BY <2>1, StepsExist
    <2> QED BY <2>2
  <1> HIDE DEF upTo
  <1> DEFINE Bad == {n \in 1..L : upTo[n] \notin K}
  <1>4. SUFFICES ASSUME Bad # {} PROVE FALSE
    BY <1>1, <1>2
  <1>5. PICK n \in Bad : \A k \in Bad : n <= k
    <2>1. Bad \subseteq Nat
      BY <1>1
    <2> HIDE DEF Bad
    <2> QED BY <1>4, <2>1, LeastOne
  <1>6. n \in 1..L /\ upTo[n] \notin K
    BY <1>5
  <1>7. n # 1
    BY <1>1, <1>3, <1>6 DEF CoerceSteps
  <1>8. n - 1 \in 1..L /\ upTo[n - 1] \in K
    <2>1. n - 1 \in 1..L
      BY <1>1, <1>6, <1>7
    <2>2. n - 1 \notin Bad
      BY <1>1, <1>5, <1>6
    <2> QED BY <2>1, <2>2
  <1>9. upTo[n] = Coerce(op, upTo[n - 1], types[n])
    BY <1>1, <1>3, <1>6, <1>7, <1>8 DEF CoerceSteps, CoerceStep
  <1> QED BY <1>1, <1>6, <1>8, <1>9

-----------------------------------------------------------------------------
\* The numbers, apart from unsigned ones or from decimals.
Sized(kinds) ==
  [kind : {"int", "uint"} \cap kinds, p : {8, 16, 32, 64}, s : {0}]
  \cup [kind : {"float"}, p : {32, 64}, s : {0}]
Decimals == [kind : {"decimal"}, p : Int, s : Int]
Signs == Sized({"int"}) \cup Decimals
Sizes == Sized({"int", "uint"})

\* What is in the list is found in it.
LEMMA Listed ==
  ASSUME NEW l \in Sizes, NEW r \in Sizes
  PROVE  FirstOf(Informative, l, r) \in {l, r}
  <1>1. /\ Len(Informative) = 10
        /\ \E i \in 1..10 : Informative[i] = l
    BY DEF Informative, Integral, Signed, Unsigned, Float, Type, Sizes, Sized
  <1> DEFINE I == {i \in 1..Len(Informative) : Informative[i] \in {l, r}}
  <1>2. I # {} /\ I \subseteq Nat
    BY <1>1
  <1>3. SelectInSeq(Informative, LAMBDA t : t \in {l, r}) = Min(I)
    BY <1>2 DEF SelectInSeq
  <1>4. Min(I) \in I /\ Min(I) # 0
    BY <1>2, MinIsIn
  <1> HIDE DEF I
  <1>5. FirstOf(Informative, l, r) = Informative[Min(I)]
    BY <1>3, <1>4 DEF FirstOf
  <1> QED BY <1>4, <1>5 DEF I

LEMMA CreatedIsDecimal ==
  ASSUME NEW p \in Int, NEW s \in Int
  PROVE  CreateDecimal(p, s) \in Decimals
  <1>1. Min({p, 38}) \in Int /\ Min({s, 38}) \in Int
    BY OneOfTwo
  <1> QED BY <1>1 DEF CreateDecimal, Decimal, Type, Decimals

LEMMA WiderIsDecimal ==
  ASSUME NEW d \in Decimals, NEW e \in Decimals
  PROVE  Wider(d, e) \in Decimals
  <1>1. /\ WholeDigits(d) \in Int /\ WholeDigits(e) \in Int
        /\ d.s \in Int /\ e.s \in Int
    BY DEF Decimals, WholeDigits
  <1>2. Max({d.s, e.s}) \in Int /\ Max({WholeDigits(d), WholeDigits(e)}) \in Int
    BY <1>1, OneOfTwo
  <1> QED BY <1>1, <1>2, CreatedIsDecimal DEF Wider

LEMMA ResultIsDecimal ==
  ASSUME NEW op \in {"plus", "multiply", "divide"}, NEW d \in Decimals, NEW e \in Decimals
  PROVE  DecimalResult(op, d, e) \in Decimals
  <1>1. /\ WholeDigits(d) \in Int /\ WholeDigits(e) \in Int
        /\ d.p \in Int /\ e.p \in Int /\ d.s \in Int /\ e.s \in Int
    BY DEF Decimals, WholeDigits
  <1> DEFINE scale == Max({d.s, e.s})
             whole == Max({WholeDigits(d), WholeDigits(e)})
             exact == d.s + e.p + 1
             quotient == Max({6, exact})
  <1>2. scale \in Int /\ whole \in Int
    BY <1>1, OneOfTwo
  <1>3. quotient \in Int
    <2>1. exact \in Int
      BY <1>1
    <2>2. PICK six \in Int : six = 6
      OBVIOUS
    <2>3. quotient = Max({six, exact})
      BY <2>2
    <2> HIDE DEF exact, quotient
    <2> QED BY <2>1, <2>3, OneOfTwo
  <1>4. DecimalResult(op, d, e) =
          CASE op = "plus"     -> CreateDecimal(scale + whole + 1, scale)
            [] op = "multiply" -> CreateDecimal(d.p + e.p + 1, d.s + e.s)
            [] op = "divide"   -> CreateDecimal(quotient + WholeDigits(d) + e.s, quotient)
    BY DEF DecimalResult
  <1> HIDE DEF scale, whole, quotient
  <1>5. CreateDecimal(scale + whole + 1, scale) \in Decimals
    BY <1>2, CreatedIsDecimal
  <1>6. CreateDecimal(d.p + e.p + 1, d.s + e.s) \in Decimals
    BY <1>1, CreatedIsDecimal
  <1>7. CreateDecimal(quotient + WholeDigits(d) + e.s, quotient) \in Decimals
    BY <1>1, <1>3, CreatedIsDecimal
  <1> QED BY <1>4, <1>5, <1>6, <1>7

\* A signed number is a decimal.
LEMMA SignedIsDecimal ==
  ASSUME NEW t \in Sized({"int"})
  PROVE  AsDecimal(t) \in Decimals
  <1>1. CASE t.kind = "int"
    <2>1. t.p \in {8, 16, 32, 64}
      BY <1>1 DEF Sized
    <2>2. DecimalDigits[t.p] \in Int
      BY <2>1 DEF DecimalDigits
    <2> QED BY <1>1, <2>2 DEF AsDecimal, Is, Decimal, Type, Decimals
  <1>2. CASE t.kind = "float"
    BY <1>2 DEF AsDecimal, Is, Decimal, Type, Decimals
  <1> QED BY <1>1, <1>2 DEF Sized

\* What is known of a number is its kind.
LEMMA Kinded ==
  /\ \A t \in Signs : /\ t.kind \in {"int", "float", "decimal"}
                      /\ t.kind = "decimal" <=> t \in Decimals
                      /\ t.kind # "decimal" <=> t \in Sized({"int"})
  /\ \A t \in Sizes : t.kind \in {"int", "uint", "float"}
  /\ Sized({"int"}) \subseteq Sizes
  /\ No \notin Signs \cup Sizes
  /\ Null \notin Signs \cup Sizes
  /\ Float(64) \in Signs \cap Sizes
  BY DEF Signs, Sizes, Sized, Decimals, No, Null, Float, Type

\* Numbers are compared as numbers.
LEMMA ComparedAsNumbers ==
  ASSUME NEW l, NEW r, l # r, NumericComparison(l, r) # No
  PROVE  Comparison(l, r) = NumericComparison(l, r)
  <1> DEFINE rules == <<NumericComparison(l, r), Temporal(l, r), Texts(l, r), NullAnd(l, r), TextAndNumber(l, r)>>
             I == {i \in 1..Len(rules) : rules[i] # No}
  <1>1. I \subseteq Nat /\ 1 \in I
    OBVIOUS
  <1>2. Min(I) = 1
    <2>1. \A i \in I : i >= 1
      OBVIOUS
    <2> HIDE DEF I
    <2>2. Min(I) \in I /\ \A i \in I : Min(I) <= i
      BY <1>1, MinIsIn
    <2>3. Min(I) \in Nat /\ Min(I) <= 1 /\ Min(I) >= 1
      BY <1>1, <2>1, <2>2
    <2> QED BY <2>3
  <1>3. SelectInSeq(rules, LAMBDA t : t # No) = 1
    BY <1>1, <1>2 DEF SelectInSeq
  <1> QED BY <1>3 DEF Comparison

\* A decimal and a number beside it, on whatever side.
LEMMA Sides ==
  ASSUME NEW l \in Signs, NEW r \in Signs, l.kind = "decimal" <=> r.kind # "decimal"
  PROVE  /\ Of("decimal", l, r) \in Decimals
         /\ Beside("decimal", l, r) \in Sized({"int"})
         /\ Either("decimal", l, r)
  BY Kinded DEF Of, Beside, Either, Is

LEMMA NumbersCompare ==
  ASSUME NEW K \in {Signs, Sizes}, NEW l \in K, NEW r \in K
  PROVE  Comparison(l, r) \in K
  <1>1. CASE l = r
    BY <1>1 DEF Comparison
  <1>2. CASE l # r
    <2>1. AreNumeric(l, r)
      BY Kinded DEF AreNumeric, Numeric
    <2>2. NumericComparison(l, r) \in K
      <3>1. CASE Is("decimal", l) /\ Is("decimal", r)
        <4>1. K = Signs /\ l \in Decimals /\ r \in Decimals
          BY <3>1, Kinded DEF Is
        <4>2. NumericComparison(l, r) = Wider(l, r)
          BY <2>1, <3>1 DEF NumericComparison
        <4> QED BY <4>1, <4>2, WiderIsDecimal DEF Signs
      <3>2. CASE Is("decimal", l) <=> ~Is("decimal", r)
        <4>1. K = Signs /\ (l.kind = "decimal" <=> r.kind # "decimal")
          BY <3>2, Kinded DEF Is
        <4> DEFINE d == AsDecimal(Beside("decimal", l, r))
        <4>2. /\ Of("decimal", l, r) \in Decimals /\ d \in Decimals
              /\ Either("decimal", l, r)
          BY <4>1, Sides, SignedIsDecimal
        <4>3. d # No
          BY <4>2, Kinded DEF Signs
        <4>4. NumericComparison(l, r) = Wider(Of("decimal", l, r), d)
          BY <2>1, <3>2, <4>2, <4>3 DEF NumericComparison
        <4> QED BY <4>1, <4>2, <4>4, WiderIsDecimal DEF Signs
      <3>3. CASE ~Is("decimal", l) /\ ~Is("decimal", r)
        <4>1. l \in Sizes /\ r \in Sizes
          BY <3>3, Kinded DEF Is
        <4>2. NumericComparison(l, r) = FirstOf(Informative, l, r)
          BY <2>1, <3>3 DEF NumericComparison, Either, Is
        <4> QED BY <4>1, <4>2, Listed
      <3> QED BY <3>1, <3>2, <3>3
    <2>3. NumericComparison(l, r) # No
      BY <2>2, Kinded
    <2> QED BY <1>2, <2>2, <2>3, ComparedAsNumbers
  <1> QED BY <1>1, <1>2

LEMMA NumbersCalculate ==
  ASSUME NEW op \in {"plus", "multiply", "divide"},
         NEW K \in {Signs, Sizes}, NEW l \in K, NEW r \in K
  PROVE  Mathematics(op, l, r) \in K
  <1> DEFINE decimal(t) == IF Is("decimal", t) THEN t ELSE AsDecimal(t)
  <1>1. /\ Calculable(l, r) /\ ~Either("null", l, r)
        /\ {l.kind, r.kind} \subseteq Numeric
    BY Kinded DEF Calculable, Numeric, Either
  <1>2. CASE l = r
    BY <1>1, <1>2 DEF Mathematics
  <1>3. CASE l # r /\ Either("decimal", l, r) /\ Either("float", l, r)
    <2>1. Mathematics(op, l, r) = Float(64)
      BY <1>1, <1>3 DEF Mathematics
    <2> QED BY <2>1, Kinded
  <1>4. CASE l # r /\ Either("decimal", l, r) /\ ~Either("float", l, r)
    <2>1. K = Signs
      BY <1>4, Kinded DEF Either
    <2>2. \A t \in Signs : decimal(t) \in Decimals
      BY Kinded, SignedIsDecimal DEF Is
    <2>3. decimal(l) \in Decimals /\ decimal(r) \in Decimals
      BY <2>1, <2>2
    <2>4. No \notin {decimal(l), decimal(r)}
      BY <2>3, Kinded DEF Signs
    <2>5. Mathematics(op, l, r) = DecimalResult(op, decimal(l), decimal(r))
      BY <1>1, <1>4, <2>4 DEF Mathematics
    <2> HIDE DEF decimal
    <2> QED BY <2>1, <2>3, <2>5, ResultIsDecimal DEF Signs
  <1>5. CASE l # r /\ ~Either("decimal", l, r)
    <2>1. l \in Sizes /\ r \in Sizes
      BY <1>5, Kinded DEF Either
    <2>2. Mathematics(op, l, r) = FirstOf(Informative, l, r)
      BY <1>1, <1>5 DEF Mathematics
    <2> QED BY <2>1, <2>2, Listed
  <1> QED BY <1>2, <1>3, <1>4, <1>5

\* Numbers without unsigned ones, or without decimals, have a type in common.
LEMMA NumbersCoerce ==
  ASSUME NEW op \in {"plus", "multiply", "divide", "compare", "case"},
         NEW K \in {Signs, Sizes}, NEW types \in Seq(K), types # <<>>
  PROVE  CoerceList(op, types) # No
  <1>1. ASSUME NEW l \in K, NEW r \in K PROVE Coerce(op, l, r) \in K
    <2>1. CASE op \in {"compare", "case"}
      BY <2>1, NumbersCompare DEF Coerce
    <2>2. CASE op = "plus"
      <3>1. l.kind \notin {"date", "timestamp"}
        BY Kinded
      <3> QED BY <2>2, <3>1, NumbersCalculate DEF Coerce, Plus
    <2>3. CASE op \in {"multiply", "divide"}
      BY <2>3, NumbersCalculate DEF Coerce
    <2> QED BY <2>1, <2>2, <2>3
  <1>2. No \notin K
    BY Kinded
  <1>3. CoerceList(op, types) \in K
    BY <1>1, <1>2, JoinStays
  <1> QED BY <1>2, <1>3

LEMMA ColumnTypes ==
  ASSUME NEW e \in Expr, NEW i \in DOMAIN e.args
  PROVE  e.args[i].type \in AtomicType
  <1> DEFINE Argument == [type : AtomicType, summed : BOOLEAN]
  <1>1. e.args \in Seq(Argument)
    BY ExpressionsAssumption
  <1>2. \A a \in Argument : a.type \in AtomicType
    OBVIOUS
  <1> HIDE DEF Argument
  <1>3. e.args[i] \in Argument
    BY <1>1
  <1> QED BY <1>2, <1>3

\* The operands of an expression are types, and numbers of the sizes there are.
LEMMA OperandsAreNumbers ==
  ASSUME NEW e \in Expr, NEW i \in DOMAIN e.args, Operand(e.args[i]).kind \in Numeric
  PROVE  /\ Operand(e.args[i]).kind # "uint" => Operand(e.args[i]) \in Signs
         /\ Operand(e.args[i]).kind # "decimal" => Operand(e.args[i]) \in Sizes
  <1> DEFINE t == e.args[i].type
  <1>1. t \in AtomicType
    BY ColumnTypes
  <1> HIDE DEF t
  <1>2. \A u \in AtomicType : u.kind \in Numeric =>
          /\ u.kind # "uint" => u \in Signs
          /\ u.kind # "decimal" => u \in Sizes
    <2> SUFFICES ASSUME NEW u \in AtomicType, u.kind \in Numeric
                 PROVE  /\ u.kind # "uint" => u \in Signs
                        /\ u.kind # "decimal" => u \in Sizes
      OBVIOUS
    <2> Atomic(u)
      BY AtomicFields
    <2>1. CASE u.kind \in {"int", "uint", "float"}
      BY <2>1 DEF Atomic, Type, Signs, Sizes, Sized
    <2>2. CASE u.kind = "decimal"
      BY <2>2 DEF Atomic, Type, Signs, Decimals
    <2> QED BY <2>1, <2>2 DEF Numeric
  <1>3. SumType(t) \in {Decimal(38, 0), Float(64), t, No}
    BY DEF SumType
  <1>4. Operand(e.args[i]) \in {Decimal(38, 0), Float(64), t, No}
    BY <1>3 DEF Operand, t
  <1>5. Decimal(38, 0) \in Signs /\ Decimal(38, 0).kind = "decimal" /\ No.kind = "none"
        /\ Float(64) \in Signs \cap Sizes
    BY Kinded DEF Decimal, Type, Signs, Decimals, No
  <1> QED BY <1>1, <1>2, <1>4, <1>5 DEF Numeric

\* Numbers always have a type in common, unless decimals meet unsigned numbers
\* (coerce.rs).
THEOREM NumbersAlwaysMeet == Spec => []NumbersMeet
  <1>1. VerdictInv => NumbersMeet
    <2> SUFFICES ASSUME VerdictInv, AllKnown, failed, declared = No,
                        expr.op \in {"plus", "multiply", "divide", "compare", "case"},
                        \A i \in DOMAIN expr.args : Operand(expr.args[i]).kind \in Numeric
                 PROVE  /\ \E i \in DOMAIN expr.args : Is("uint", Operand(expr.args[i]))
                        /\ \E i \in DOMAIN expr.args : Is("decimal", Operand(expr.args[i]))
      BY DEF NumbersMeet
    <2>1. CoerceList(expr.op, Operands(expr)) = No
      BY DEF VerdictInv, Late, Proper, Alone, Bool, No, Type
    <2>2. /\ expr \in Expr
          /\ DOMAIN expr.args = 1..Len(expr.args) /\ Len(expr.args) \in Nat \ {0}
      BY Columns DEF VerdictInv
    <2>3. ASSUME NEW K \in {Signs, Sizes}, \A i \in DOMAIN expr.args : Operand(expr.args[i]) \in K
          PROVE  FALSE
      <3>1. Operands(expr) \in Seq(K) /\ Operands(expr) # <<>>
        BY <2>2, <2>3 DEF Operands
      <3> QED BY <2>1, <3>1, NumbersCoerce
    <2>4. \E i \in DOMAIN expr.args : Is("uint", Operand(expr.args[i]))
      <3> SUFFICES ASSUME \A i \in DOMAIN expr.args : Operand(expr.args[i]).kind # "uint" PROVE FALSE
        BY DEF Is
      <3>1. \A i \in DOMAIN expr.args : Operand(expr.args[i]) \in Signs
        BY <2>2, OperandsAreNumbers
      <3> QED BY <3>1, <2>3
    <2>5. \E i \in DOMAIN expr.args : Is("decimal", Operand(expr.args[i]))
      <3> SUFFICES ASSUME \A i \in DOMAIN expr.args : Operand(expr.args[i]).kind # "decimal" PROVE FALSE
        BY DEF Is
      <3>1. \A i \in DOMAIN expr.args : Operand(expr.args[i]) \in Sizes
        BY <2>2, OperandsAreNumbers
      <3> QED BY <3>1, <2>3
    <2> QED BY <2>4, <2>5
  <1> QED BY <1>1, Invariance, PTL

-----------------------------------------------------------------------------
\* What the operands are cast to.

LEMMA Larger ==
  ASSUME NEW a \in Int, NEW b \in Int
  PROVE  Max({a, b}) = IF a <= b THEN b ELSE a
  <1>1. CASE a <= b
    <2>1. \A y \in {a, b} : b >= y
      BY <1>1
    <2> QED BY <1>1, <2>1 DEF Max
  <1>2. CASE b < a
    <2>1. \A y \in {a, b} : a >= y
      BY <1>2
    <2> QED BY <1>2, <2>1 DEF Max
  <1> QED BY <1>1, <1>2

LEMMA Smaller ==
  ASSUME NEW a \in Int, NEW b \in Int
  PROVE  Min({a, b}) = IF a <= b THEN a ELSE b
  <1>1. CASE a <= b
    <2>1. \A y \in {a, b} : a <= y
      BY <1>1
    <2> QED BY <1>1, <2>1 DEF Min
  <1>2. CASE b < a
    <2>1. \A y \in {a, b} : b <= y
      BY <1>2
    <2> QED BY <1>2, <2>1 DEF Min
  <1> QED BY <1>1, <1>2

\* A decimal has the digits that were asked for, or all that there are.
LEMMA Created ==
  ASSUME NEW p \in Nat, NEW s \in Nat, s <= p, p # 0
  PROVE  LET d == CreateDecimal(p, s)
         IN  /\ Atomic(d) /\ d.kind = "decimal"
             /\ d.p = 38 \/ (p < 38 /\ d.p = p /\ d.s = s)
             /\ p >= 38 => d.p = 38
  <1>1. PICK most \in Int : most = 38
    OBVIOUS
  <1> DEFINE dp == Min({p, most})
             ds == Min({s, most})
  <1>2. dp = (IF p <= most THEN p ELSE most) /\ ds = (IF s <= most THEN s ELSE most)
    BY Smaller
  <1>3. CreateDecimal(p, s) = Type("decimal", dp, ds)
    BY <1>1 DEF CreateDecimal, Decimal
  <1> HIDE DEF dp, ds
  <1>4. /\ dp \in 1..38 /\ ds \in 0..dp
        /\ dp = 38 \/ (p < 38 /\ dp = p /\ ds = s)
        /\ p >= 38 => dp = 38
    BY <1>1, <1>2
  <1> QED BY <1>3, <1>4 DEF Atomic, Type

\* d is into or a part of it: no digit of it is lost, or the digits ran out.
Fits(d, into) ==
  \/ into.p = 38
  \/ d.s <= into.s /\ WholeDigits(d) <= WholeDigits(into)

LEMMA WiderFits ==
  ASSUME NEW d, NEW e, Atomic(d), Atomic(e), d.kind = "decimal", e.kind = "decimal"
  PROVE  LET w == Wider(d, e)
         IN  /\ Atomic(w) /\ w.kind = "decimal"
             /\ Fits(d, w) /\ Fits(e, w)
             /\ d.p = 38 \/ e.p = 38 => w.p = 38
  <1>1. /\ d.p \in 1..38 /\ d.s \in 0..d.p /\ e.p \in 1..38 /\ e.s \in 0..e.p
        /\ WholeDigits(d) = d.p - d.s /\ WholeDigits(e) = e.p - e.s
    BY DEF Atomic, WholeDigits
  <1> DEFINE dw == WholeDigits(d)
             ew == WholeDigits(e)
             s == Max({d.s, e.s})
             m == Max({dw, ew})
  <1>2. dw \in Nat /\ ew \in Nat /\ d.s \in Nat /\ e.s \in Nat
    BY <1>1
  <1>3. s = IF d.s <= e.s THEN e.s ELSE d.s
    BY <1>2, Larger
  <1>4. m = IF dw <= ew THEN ew ELSE dw
    <2> HIDE DEF dw, ew
    <2> QED BY <1>2, Larger
  <1>5. Wider(d, e) = CreateDecimal(s + m, s)
    BY DEF Wider
  <1>6. /\ dw = d.p - d.s /\ ew = e.p - e.s
    BY <1>1
  <1> HIDE DEF dw, ew, s, m
  <1>7. s \in Nat /\ m \in Nat /\ s + m \in Nat /\ s <= s + m /\ s + m # 0
        /\ (d.p = 38 \/ e.p = 38 => s + m >= 38)
        /\ d.s <= s /\ e.s <= s /\ dw <= m /\ ew <= m
    <2>1. s \in Nat /\ m \in Nat /\ d.s <= s /\ e.s <= s /\ dw <= m /\ ew <= m
      BY <1>2, <1>3, <1>4
    <2>2. d.p <= s + m /\ e.p <= s + m
      BY <1>1, <1>2, <1>6, <2>1
    <2> QED BY <1>1, <2>1, <2>2
  <1> DEFINE w == Wider(d, e)
  <1>8. /\ Atomic(w) /\ w.kind = "decimal"
        /\ w.p = 38 \/ (w.p = s + m /\ w.s = s)
        /\ s + m >= 38 => w.p = 38
    BY <1>5, <1>7, Created
  <1> HIDE DEF w
  <1>9. Fits(d, w) /\ Fits(e, w)
    <2>1. CASE w.p = 38
      BY <2>1 DEF Fits
    <2>2. CASE w.p = s + m /\ w.s = s
      <3>1. WholeDigits(w) = m
        BY <1>7, <2>2 DEF WholeDigits
      <3> QED BY <1>7, <2>2, <3>1 DEF Fits, dw, ew
    <2> QED BY <1>8, <2>1, <2>2
  <1> QED BY <1>7, <1>8, <1>9 DEF w

\* An integer's decimal has the digits of the integers of its size, and of the
\* unsigned ones of a smaller size.
LEMMA DigitsSuffice ==
  ASSUME NEW u, Atomic(u), u.kind = "int"
  PROVE  LET d == AsDecimal(u)
         IN  /\ Atomic(d) /\ d.kind = "decimal"
             /\ \A t : Atomic(t) /\ (\/ t.kind = "int" /\ t.p <= u.p
                                     \/ t.kind = "uint" /\ t.p < u.p)
                       => Digits(t) <= WholeDigits(d)
  <1>1. u.p \in {8, 16, 32, 64}
    BY DEF Atomic
  <1> DEFINE n == DecimalDigits[u.p]
  <1>2. n = IF u.p = 8 THEN 3 ELSE IF u.p = 16 THEN 5 ELSE IF u.p = 32 THEN 10 ELSE 20
    BY <1>1 DEF DecimalDigits
  <1>3. AsDecimal(u) = Type("decimal", n, 0)
    BY DEF AsDecimal, Is, Decimal
  <1> HIDE DEF n
  <1>4. Atomic(AsDecimal(u)) /\ AsDecimal(u).kind = "decimal" /\ WholeDigits(AsDecimal(u)) = n
    BY <1>1, <1>2, <1>3 DEF Atomic, Type, WholeDigits
  <1>5. ASSUME NEW t, Atomic(t), \/ t.kind = "int" /\ t.p <= u.p
                                 \/ t.kind = "uint" /\ t.p < u.p
        PROVE  Digits(t) <= n
    <2>1. t.p \in {8, 16, 32, 64}
      BY <1>5 DEF Atomic
    <2>2. Digits(t) = IF t.p = 8 THEN 3 ELSE IF t.p = 16 THEN 5 ELSE IF t.p = 32 THEN 10
                      ELSE IF t.kind = "int" THEN 19 ELSE 20
      BY <2>1 DEF Digits, Is
    <2> QED BY <1>1, <1>2, <1>5, <2>1, <2>2
  <1> QED BY <1>4, <1>5

\* Of two numbers, the one that comes first in the list.
LEMMA Earliest ==
  ASSUME NEW l, NEW r, FirstOf(Informative, l, r) # No
  PROVE  LET x == FirstOf(Informative, l, r)
         IN  /\ x \in {l, r}
             /\ \E i \in 1..10 : /\ Informative[i] = x
                                 /\ \A j \in 1..10 : Informative[j] \in {l, r} => i <= j
  <1> DEFINE I == {i \in 1..Len(Informative) : Informative[i] \in {l, r}}
  <1>1. Len(Informative) = 10 /\ I \subseteq Nat
    BY DEF Informative, Integral
  <1>2. SelectInSeq(Informative, LAMBDA t : t \in {l, r}) = IF I # {} THEN Min(I) ELSE 0
    BY DEF SelectInSeq
  <1>3. I # {}
    BY <1>2 DEF FirstOf
  <1>4. Min(I) \in I /\ Min(I) # 0 /\ \A j \in I : Min(I) <= j
    BY <1>1, <1>3, MinIsIn
  <1>5. FirstOf(Informative, l, r) = Informative[Min(I)]
    BY <1>2, <1>3, <1>4 DEF FirstOf
  <1> QED BY <1>1, <1>4, <1>5

\* What may have become of an operand that met others ...
Kept(t, into) ==
  \/ Holds(into, t)
  \/ Approximates \/ TakesUnsigned(t) \/ Capped(into) \/ Coarsens(t, into) \/ ReadsText(t, into)
  \/ "text" \in Kinds /\ Is("date", into)

\* ... and which kinds can have met.
Related(t, into) ==
  \/ t.kind \in {"null", into.kind}
  \/ {t.kind, into.kind} \subseteq Numeric
  \/ into.kind = "text" /\ t.kind \in Numeric
  \/ into.kind = "date" /\ "text" \in Kinds

LEMMA NullIsHeld ==
  ASSUME NEW t, Atomic(t), t.kind = "null", NEW into
  PROVE  Holds(into, t)
  BY DEF Atomic, Holds, Null

\* What a number holds.
LEMMA InInteger ==
  ASSUME NEW t, NEW u, Atomic(t), Atomic(u), u.kind \in {"int", "uint"}, Related(t, u), Kept(t, u)
  PROVE  \/ t.kind = "null" \/ Approximates \/ TakesUnsigned(t)
         \/ t.kind = u.kind /\ t.p <= u.p
         \/ u.kind = "int" /\ t.kind = "uint" /\ t.p < u.p
  <1>1. t.kind \in Numeric \cup {"null"}
    BY DEF Related, Numeric
  <1>2. ~Capped(u) /\ ~Coarsens(t, u) /\ ~ReadsText(t, u) /\ ~Is("date", u)
    BY <1>1 DEF Capped, Coarsens, ReadsText, Is, Numeric
  <1>3. CASE Holds(u, t)
    <2>1. t = u => t.kind = u.kind /\ t.p <= u.p
      BY DEF Atomic
    <2>2. t = Null => t.kind = "null"
      BY DEF Null, Type
    <2> QED BY <1>3, <2>1, <2>2 DEF Holds, Is
  <1> QED BY <1>2, <1>3 DEF Kept

LEMMA InDecimal ==
  ASSUME NEW t, NEW u, Atomic(t), Atomic(u), u.kind = "decimal", Related(t, u), Kept(t, u)
  PROVE  \/ t.kind = "null" \/ Approximates \/ TakesUnsigned(t) \/ u.p = 38
         \/ t.kind \in {"int", "uint"} /\ Digits(t) <= WholeDigits(u)
         \/ t.kind = "decimal" /\ t.s <= u.s /\ WholeDigits(t) <= WholeDigits(u)
  <1>1. t.kind \in Numeric \cup {"null"}
    BY DEF Related, Numeric
  <1>2. ~Coarsens(t, u) /\ ~ReadsText(t, u) /\ ~Is("date", u)
    BY <1>1 DEF Coarsens, ReadsText, Is, Numeric
  <1>3. CASE Holds(u, t)
    <2>1. t = u => t.kind = u.kind /\ t.s <= u.s /\ WholeDigits(t) <= WholeDigits(u)
      BY DEF Atomic, WholeDigits
    <2>2. t = Null => t.kind = "null"
      BY DEF Null, Type
    <2> QED BY <1>3, <2>1, <2>2 DEF Holds, Is
  <1> QED BY <1>2, <1>3 DEF Kept, Capped

\* A decimal that a decimal fits in holds what that one held.
LEMMA DecimalKeeps ==
  ASSUME NEW t, NEW u, NEW w, Atomic(t), Atomic(u), Atomic(w), u.kind = "decimal", w.kind = "decimal",
         Related(t, u), Kept(t, u), Fits(u, w), u.p = 38 => w.p = 38
  PROVE  Kept(t, w)
  <1>1. CASE w.p = 38
    BY <1>1 DEF Kept, Capped, Is
  <1>2. CASE t.kind = "null"
    BY <1>2, NullIsHeld DEF Kept
  <1>3. CASE Approximates \/ TakesUnsigned(t)
    BY <1>3 DEF Kept
  <1>4. CASE u.s <= w.s /\ WholeDigits(u) <= WholeDigits(w) /\ w.p # 38
    <2>1. WholeDigits(u) \in Int /\ WholeDigits(w) \in Int /\ WholeDigits(t) \in Int
          /\ u.s \in Int /\ w.s \in Int /\ t.s \in Int
      BY DEF Atomic, WholeDigits
    <2>2. CASE t.kind \in {"int", "uint"} /\ Digits(t) <= WholeDigits(u)
      <3>1. t.p \in {8, 16, 32, 64}
        BY <2>2 DEF Atomic
      <3>2. Digits(t) \in Int
        BY <3>1 DEF Digits
      <3> QED BY <1>4, <2>1, <2>2, <3>2 DEF Kept, Holds, Is
    <2>3. CASE t.kind = "decimal" /\ t.s <= u.s /\ WholeDigits(t) <= WholeDigits(u)
      BY <1>4, <2>1, <2>3 DEF Kept, Holds, Is
    <2> QED BY <1>2, <1>3, <1>4, <2>2, <2>3, InDecimal
  <1> QED BY <1>1, <1>4 DEF Fits

\* So does the decimal that an integer's decimal fits in.
LEMMA IntegerKeeps ==
  ASSUME NEW t, NEW u, NEW w, Atomic(t), Atomic(u), Atomic(w), u.kind = "int", w.kind = "decimal",
         Related(t, u), Kept(t, u), Fits(AsDecimal(u), w)
  PROVE  Kept(t, w)
  <1> DEFINE d == AsDecimal(u)
  <1>1. Atomic(d) /\ d.kind = "decimal"
    BY DigitsSuffice
  <1>2. CASE w.p = 38
    BY <1>2 DEF Kept, Capped, Is
  <1>3. CASE t.kind = "null"
    BY <1>3, NullIsHeld DEF Kept
  <1>4. CASE Approximates \/ TakesUnsigned(t)
    BY <1>4 DEF Kept
  <1>5. CASE /\ WholeDigits(d) <= WholeDigits(w)
             /\ \/ t.kind = u.kind /\ t.p <= u.p
                \/ t.kind = "uint" /\ t.p < u.p
    <2>1. Digits(t) <= WholeDigits(d)
      BY <1>5, DigitsSuffice
    <2>2. WholeDigits(d) \in Int /\ WholeDigits(w) \in Int
      BY <1>1 DEF Atomic, WholeDigits
    <2>3. t.p \in {8, 16, 32, 64}
      BY <1>5 DEF Atomic
    <2>4. Digits(t) \in Int
      BY <2>3 DEF Digits
    <2>5. Digits(t) <= WholeDigits(w)
      BY <1>5, <2>1, <2>2, <2>4
    <2> QED BY <1>5, <2>5 DEF Kept, Holds, Is
  <1> QED BY <1>2, <1>3, <1>4, <1>5, InInteger DEF Fits

\* The order of the list: what comes first holds what comes later, or is signed
\* where the other is not.
LEMMA ListOrder ==
  ASSUME NEW i \in 1..10, NEW j \in 1..10, i <= j
  PROVE  LET x == Informative[i]
             y == Informative[j]
         IN  /\ x.kind \in {"float", "int", "uint"} /\ y.kind \in {"float", "int", "uint"}
             /\ x.kind = "uint" => y.kind = "uint"
             /\ x.kind = y.kind => y.p <= x.p
  <1>1. \A k \in 1..10 :
          Informative[k] = IF k <= 2 THEN Float(IF k = 1 THEN 64 ELSE 32)
                           ELSE IF k <= 6 THEN Signed(IF k = 3 THEN 64 ELSE IF k = 4 THEN 32 ELSE IF k = 5 THEN 16 ELSE 8)
                           ELSE Unsigned(IF k = 7 THEN 64 ELSE IF k = 8 THEN 32 ELSE IF k = 9 THEN 16 ELSE 8)
    BY DEF Informative, Integral
  <1> QED BY <1>1 DEF Float, Signed, Unsigned, Type

\* Two numbers that are no decimals: the first of them in the list keeps what
\* either held.
LEMMA FirstKeeps ==
  ASSUME NEW t, NEW l, NEW r, NEW u \in {l, r}, NEW w,
         Atomic(t), Atomic(u), Atomic(w), u.kind \in Numeric, u.kind # "decimal",
         w = FirstOf(Informative, l, r), w # No,
         \E j \in 1..10 : Informative[j] = u,
         l.kind \in Kinds, r.kind \in Kinds,
         Related(t, u), Kept(t, u)
  PROVE  Kept(t, w) /\ w.kind \in Numeric
  <1>1. PICK j \in 1..10 : Informative[j] = u
    OBVIOUS
  <1>2. PICK i \in 1..10 : /\ Informative[i] = w
                           /\ \A k \in 1..10 : Informative[k] \in {l, r} => i <= k
    BY Earliest
  <1>3. w \in {l, r} /\ i <= j
    BY <1>1, <1>2, Earliest
  <1>4. /\ w.kind \in {"float", "int", "uint"} /\ u.kind \in {"float", "int", "uint"}
        /\ w.kind = "uint" => u.kind = "uint"
        /\ w.kind = u.kind => u.p <= w.p
    BY <1>1, <1>2, <1>3, ListOrder
  <1>5. CASE w.kind = "float" \/ u.kind = "float"
    <2>1. Approximates
      BY <1>3, <1>5 DEF Approximates
    <2> QED BY <1>4, <2>1 DEF Kept, Numeric
  <1>6. CASE w.kind \in {"int", "uint"} /\ u.kind \in {"int", "uint"}
    <2>1. CASE t.kind = "null"
      BY <1>4, <2>1, NullIsHeld DEF Kept, Numeric
    <2>2. CASE Approximates \/ TakesUnsigned(t)
      BY <1>4, <2>2 DEF Kept, Numeric
    <2>3. CASE t.kind = u.kind /\ t.p <= u.p
      <3>1. CASE w.kind = u.kind
        <4>1. t.p <= w.p
          BY <1>4, <2>3, <3>1 DEF Atomic
        <4> QED BY <1>6, <2>3, <3>1, <4>1 DEF Kept, Holds, Is, Numeric
      <3>2. CASE w.kind = "int" /\ u.kind = "uint"
        BY <1>3, <2>3, <3>2 DEF Kept, TakesUnsigned, Is, Numeric
      <3> QED BY <1>4, <1>6, <3>1, <3>2
    <2>4. CASE u.kind = "int" /\ t.kind = "uint" /\ t.p < u.p
      <3>1. w.kind = "int" /\ t.p < w.p
        BY <1>4, <1>6, <2>4 DEF Atomic
      <3> QED BY <2>4, <3>1 DEF Kept, Holds, Is, Numeric
    <2> QED BY <1>6, <2>1, <2>2, <2>3, <2>4, InInteger
  <1> QED BY <1>4, <1>5, <1>6

\* What a number is in the list.
LEMMA InList ==
  ASSUME NEW u, Atomic(u), u.kind \in {"int", "uint", "float"}
  PROVE  \E j \in 1..10 : Informative[j] = u
  <1>1. /\ Informative[1] = Float(64) /\ Informative[2] = Float(32)
        /\ Informative[3] = Signed(64) /\ Informative[4] = Signed(32)
        /\ Informative[5] = Signed(16) /\ Informative[6] = Signed(8)
        /\ Informative[7] = Unsigned(64) /\ Informative[8] = Unsigned(32)
        /\ Informative[9] = Unsigned(16) /\ Informative[10] = Unsigned(8)
    BY DEF Informative, Integral
  <1>2. CASE u.kind = "float"
    BY <1>1, <1>2 DEF Atomic, Float
  <1>3. CASE u.kind = "int"
    BY <1>1, <1>3 DEF Atomic, Signed
  <1>4. CASE u.kind = "uint"
    BY <1>1, <1>4 DEF Atomic, Unsigned
  <1> QED BY <1>2, <1>3, <1>4

\* Numbers that are compared.
LEMMA ComparedNumbers ==
  ASSUME NEW t, NEW l, NEW r, NEW u \in {l, r},
         Atomic(t), Atomic(l), Atomic(r), l # r,
         l.kind \in Kinds, r.kind \in Kinds, Related(t, u), Kept(t, u),
         NumericComparison(l, r) # No
  PROVE  LET w == NumericComparison(l, r)
         IN  Atomic(w) /\ w.kind \in Kinds /\ Related(t, w) /\ Kept(t, w)
  <1> DEFINE w == NumericComparison(l, r)
  <1>1. l.kind \in Numeric /\ r.kind \in Numeric
    BY DEF NumericComparison, AreNumeric
  <1>2. t.kind \in Numeric \cup {"null"}
    BY <1>1 DEF Related, Numeric
  <1>3. SUFFICES Atomic(w) /\ w.kind \in Numeric /\ w.kind \in Kinds /\ Kept(t, w)
    BY <1>2 DEF Related
  <1>4. CASE Is("decimal", l) /\ Is("decimal", r)
    <2>1. w = Wider(l, r)
      BY <1>1, <1>4 DEF NumericComparison, AreNumeric
    <2>2. /\ Atomic(w) /\ w.kind = "decimal" /\ Fits(u, w) /\ (u.p = 38 => w.p = 38)
      BY <1>4, <2>1, WiderFits DEF Is
    <2>3. Atomic(u) /\ u.kind = "decimal"
      BY <1>4 DEF Is
    <2> HIDE DEF w
    <2> QED BY <1>4, <2>2, <2>3, DecimalKeeps DEF Is, Numeric
  <1>5. CASE ~Is("decimal", l) /\ ~Is("decimal", r)
    <2>1. w = FirstOf(Informative, l, r)
      BY <1>1, <1>5 DEF NumericComparison, AreNumeric, Either, Is
    <2>2. w \in {l, r}
      BY <2>1, Earliest
    <2>3. u.kind \in {"int", "uint", "float"} /\ Atomic(u)
      BY <1>1, <1>5 DEF Is, Numeric
    <2> HIDE DEF w
    <2>4. Atomic(w) /\ w.kind \in Kinds /\ w # No
      BY <2>2 DEF w
    <2>5. \E j \in 1..10 : Informative[j] = u
      BY <2>3, InList
    <2> QED BY <2>1, <2>3, <2>4, <2>5, FirstKeeps DEF Numeric
  <1>6. ASSUME NEW d, NEW v, {l, r} = {d, v}, Is("decimal", d), ~Is("decimal", v),
               d = Of("decimal", l, r), v = Beside("decimal", l, r)
        PROVE  Atomic(w) /\ w.kind \in Numeric /\ w.kind \in Kinds /\ Kept(t, w)
    <2>1. w = (IF AsDecimal(v) = No THEN No ELSE Wider(d, AsDecimal(v)))
      BY <1>1, <1>6 DEF NumericComparison, AreNumeric, Either, Is
    <2>2. AsDecimal(v) # No /\ w = Wider(d, AsDecimal(v))
      BY <2>1
    <2>3. v.kind \in {"int", "float"}
      BY <2>2 DEF AsDecimal, Is
    <2>4. Atomic(AsDecimal(v)) /\ AsDecimal(v).kind = "decimal"
      <3>1. CASE v.kind = "int"
        <4>1. Atomic(v)
          BY <1>6
        <4> QED BY <3>1, <4>1, DigitsSuffice
      <3>2. CASE v.kind = "float"
        BY <3>2 DEF AsDecimal, Is, Decimal, Atomic, Type
      <3> QED BY <2>3, <3>1, <3>2
    <2>5. Atomic(d) /\ Atomic(v) /\ d.kind = "decimal" /\ d.kind \in Kinds /\ v.kind \in Kinds
      BY <1>6 DEF Is
    <2>6. /\ Atomic(w) /\ w.kind = "decimal" /\ Fits(d, w) /\ (d.p = 38 => w.p = 38)
          /\ Fits(AsDecimal(v), w)
      BY <2>2, <2>4, <2>5, WiderFits
    <2> HIDE DEF w
    <2>7. Kept(t, w)
      <3>1. CASE v.kind = "float"
        BY <2>5, <3>1 DEF Kept, Approximates
      <3>2. CASE v.kind = "int" /\ u = d
        BY <2>5, <2>6, <3>2, DecimalKeeps
      <3>3. CASE v.kind = "int" /\ u = v
        BY <2>5, <2>6, <3>3, IntegerKeeps
      <3> QED BY <1>6, <2>3, <3>1, <3>2, <3>3
    <2> QED BY <2>5, <2>6, <2>7 DEF Numeric
  <1>7. CASE Is("decimal", l) <=> ~Is("decimal", r)
    <2>1. CASE Is("decimal", l)
      <3>1. l = Of("decimal", l, r) /\ r = Beside("decimal", l, r)
        BY <2>1 DEF Of, Beside
      <3> QED BY <1>6, <1>7, <2>1, <3>1
    <2>2. CASE ~Is("decimal", l)
      <3>1. r = Of("decimal", l, r) /\ l = Beside("decimal", l, r)
        BY <2>2 DEF Of, Beside
      <3>2. {l, r} = {r, l}
        OBVIOUS
      <3> QED BY <1>6, <1>7, <2>2, <3>1, <3>2
    <2> QED BY <2>1, <2>2
  <1> QED BY <1>4, <1>5, <1>7

\* Dates and timestamps that are compared.
LEMMA ComparedTimes ==
  ASSUME NEW t, NEW l, NEW r, NEW u \in {l, r},
         Atomic(t), Atomic(l), Atomic(r), l # r,
         l.kind \in Kinds, r.kind \in Kinds, Related(t, u), Kept(t, u),
         Temporal(l, r) # No
  PROVE  LET w == Temporal(l, r)
         IN  Atomic(w) /\ w.kind \in Kinds /\ Related(t, w) /\ Kept(t, w)
  <1> DEFINE w == Temporal(l, r)
  <1> SUFFICES Atomic(w) /\ w.kind \in Kinds /\ Related(t, w) /\ Kept(t, w)
    OBVIOUS
  <1>1. CASE Is("date", l) /\ Is("date", r)
    <2>1. w = Date(64)
      BY <1>1 DEF Temporal
    <2>2. w.kind = "date" /\ w.p = 64 /\ Atomic(w) /\ u.kind = "date"
      BY <1>1, <2>1 DEF Date, Type, Atomic, Is
    <2> HIDE DEF w
    <2>3. Related(t, w) /\ w.kind \in Kinds
      BY <1>1, <2>2 DEF Related, Is, Numeric
    <2>4. CASE t.kind = "null"
      BY <2>2, <2>3, <2>4, NullIsHeld DEF Kept
    <2>5. CASE t.kind = "date"
      <3>1. t.p <= 64
        BY <2>5 DEF Atomic
      <3> QED BY <2>2, <2>3, <2>5, <3>1 DEF Kept, Holds
    <2>6. CASE "text" \in Kinds
      BY <2>2, <2>3, <2>6 DEF Kept, Is
    <2> QED BY <2>2, <2>3, <2>4, <2>5, <2>6 DEF Related, Numeric
  <1>2. CASE {l.kind, r.kind} = {"date", "text"}
    <2>1. w \in {l, r} /\ w.kind = "date"
      BY <1>2 DEF Temporal, Of, Is
    <2> HIDE DEF w
    <2> QED BY <1>2, <2>1 DEF Kept, Related, Is
  <1>3. CASE Is("timestamp", l) /\ Is("timestamp", r)
    <2>1. w = Timestamp(Min({l.p, r.p}), Max({l.s, r.s})) /\ (l.s = r.s \/ 0 \in {l.s, r.s})
      BY <1>3 DEF Temporal, Is
    <2>2. l.p \in Nat /\ r.p \in Nat /\ l.s \in Nat /\ r.s \in Nat /\ t.p \in Nat /\ t.s \in Nat
      BY DEF Atomic
    <2>3. /\ Min({l.p, r.p}) = (IF l.p <= r.p THEN l.p ELSE r.p)
          /\ Max({l.s, r.s}) = (IF l.s <= r.s THEN r.s ELSE l.s)
      BY <2>2, Smaller, Larger
    <2>4. /\ w.kind = "timestamp" /\ w.p = (IF l.p <= r.p THEN l.p ELSE r.p)
          /\ w.s = (IF l.s <= r.s THEN r.s ELSE l.s)
          /\ w = Type(w.kind, w.p, w.s)
      BY <2>1, <2>3 DEF Timestamp, Type
    <2> HIDE DEF w
    <2>5. w.p \in Nat /\ w.s \in Nat /\ w.p <= u.p /\ (u.s # 0 => w.s = u.s)
      BY <2>1, <2>2, <2>4
    <2>6. Atomic(w) /\ w.kind \in Kinds /\ u.kind = "timestamp"
      BY <1>3, <2>4, <2>5 DEF Atomic, Is
    <2>7. t.kind \in {"null", "timestamp"}
      BY <2>6 DEF Related, Numeric
    <2>8. Related(t, w)
      BY <2>4, <2>7 DEF Related
    <2>9. CASE t.kind = "null"
      BY <2>6, <2>8, <2>9, NullIsHeld DEF Kept
    <2>10. CASE t.kind = "timestamp" /\ (Approximates \/ t.p > w.p)
      BY <2>2, <2>5, <2>6, <2>8, <2>10 DEF Kept, Coarsens, Is
    <2>11. CASE t.kind = "timestamp" /\ ~Approximates /\ t.p <= w.p
      <3>1. u.p \in Nat
        BY <2>2
      <3>2. ~(u.p < t.p)
        BY <2>2, <2>5, <2>11, <3>1
      <3>3. ~TakesUnsigned(t) /\ ~Capped(u) /\ ~Coarsens(t, u) /\ ~ReadsText(t, u) /\ ~Is("date", u)
        BY <2>6, <2>11, <3>2 DEF TakesUnsigned, Capped, Coarsens, ReadsText, Is
      <3>4. Holds(u, t)
        BY <2>11, <3>3 DEF Kept
      <3>5. t.s \in {0, u.s}
        BY <2>6, <2>11, <3>4 DEF Holds, Is, Null, Type, Numeric
      <3>6. t.s \in {0, w.s}
        BY <2>5, <3>5
      <3> QED BY <2>4, <2>6, <2>8, <2>11, <3>6 DEF Kept, Holds, Is
    <2> QED BY <2>2, <2>5, <2>7, <2>9, <2>10, <2>11
  <1> QED BY <1>1, <1>2, <1>3 DEF Temporal

LEMMA ComparedTexts ==
  ASSUME NEW t, NEW l, NEW r, NEW u \in {l, r},
         Atomic(t), Atomic(l), Atomic(r),
         l.kind \in Kinds, r.kind \in Kinds, Related(t, u), Kept(t, u),
         Texts(l, r) # No
  PROVE  LET w == Texts(l, r)
         IN  Atomic(w) /\ w.kind \in Kinds /\ Related(t, w) /\ Kept(t, w)
  <1> DEFINE w == Texts(l, r)
  <1> SUFFICES Atomic(w) /\ w.kind \in Kinds /\ Related(t, w) /\ Kept(t, w)
    OBVIOUS
  <1>1. l.kind = "text" /\ r.kind = "text" /\ w = Text(Max({l.p, r.p}))
    BY DEF Texts, Is
  <1>2. l.p \in {32, 64} /\ r.p \in {32, 64}
    BY <1>1 DEF Atomic
  <1>3. Max({l.p, r.p}) = (IF l.p <= r.p THEN r.p ELSE l.p)
    BY <1>2, Larger
  <1>4. /\ w.kind = "text" /\ w.p \in {32, 64} /\ u.p \in {32, 64} /\ u.p <= w.p
        /\ w.s = 0 /\ w = Type(w.kind, w.p, w.s)
    BY <1>1, <1>2, <1>3 DEF Text, Type
  <1> HIDE DEF w
  <1>5. Atomic(w) /\ w.kind \in Kinds /\ u.kind = "text"
    BY <1>1, <1>4 DEF Atomic
  <1>6. t.kind \in {"null", "text"} \cup Numeric
    BY <1>5 DEF Related
  <1>7. Related(t, w)
    BY <1>4, <1>6 DEF Related
  <1>8. CASE t.kind = "null"
    BY <1>5, <1>7, <1>8, NullIsHeld DEF Kept
  <1>9. CASE t.kind \in Numeric
    BY <1>4, <1>5, <1>7, <1>9 DEF Kept, Holds, Is
  <1>10. CASE t.kind = "text"
    <2>1. CASE Approximates
      BY <1>5, <1>7, <2>1 DEF Kept
    <2>2. CASE ~Approximates
      <3>1. ~TakesUnsigned(t) /\ ~Capped(u) /\ ~Coarsens(t, u) /\ ~ReadsText(t, u) /\ ~Is("date", u)
        BY <1>5, <1>10 DEF TakesUnsigned, Capped, Coarsens, ReadsText, Is
      <3>2. Holds(u, t)
        BY <2>2, <3>1 DEF Kept
      <3>3. t.p <= u.p /\ t.p \in {32, 64}
        BY <1>5, <1>10, <3>2 DEF Holds, Is, Null, Type, Numeric, Atomic
      <3>4. t.p <= w.p
        BY <1>4, <3>3
      <3> QED BY <1>4, <1>5, <1>7, <1>10, <3>4 DEF Kept, Holds, Is
    <2> QED BY <2>1, <2>2
  <1> QED BY <1>6, <1>8, <1>9, <1>10

LEMMA ComparedWithNull ==
  ASSUME NEW t, NEW l, NEW r, NEW u \in {l, r},
         Atomic(t), Atomic(l), Atomic(r),
         l.kind \in Kinds, r.kind \in Kinds, Related(t, u), Kept(t, u),
         NullAnd(l, r) # No
  PROVE  LET w == NullAnd(l, r)
         IN  Atomic(w) /\ w.kind \in Kinds /\ Related(t, w) /\ Kept(t, w)
  <1> DEFINE w == NullAnd(l, r)
  <1> SUFFICES Atomic(w) /\ w.kind \in Kinds /\ Related(t, w) /\ Kept(t, w)
    OBVIOUS
  <1>1. w \in {l, r} /\ \E v \in {l, r} : v.kind = "null" /\ {l, r} = {v, w}
    BY DEF NullAnd, Either, Beside, Is
  <1> HIDE DEF w
  <1>2. Atomic(w) /\ w.kind \in Kinds
    BY <1>1
  <1>3. CASE u = w
    BY <1>2, <1>3
  <1>4. CASE u.kind = "null"
    <2>1. t.kind = "null"
      BY <1>4 DEF Related, Numeric
    <2> QED BY <1>2, <2>1, NullIsHeld DEF Kept, Related
  <1> QED BY <1>1, <1>3, <1>4

LEMMA ComparedAsText ==
  ASSUME NEW t, NEW l, NEW r, NEW u \in {l, r},
         Atomic(t), Atomic(l), Atomic(r),
         l.kind \in Kinds, r.kind \in Kinds, Related(t, u), Kept(t, u),
         TextAndNumber(l, r) # No
  PROVE  LET w == TextAndNumber(l, r)
         IN  Atomic(w) /\ w.kind \in Kinds /\ Related(t, w) /\ Kept(t, w)
  <1> DEFINE w == TextAndNumber(l, r)
  <1> SUFFICES Atomic(w) /\ w.kind \in Kinds /\ Related(t, w) /\ Kept(t, w)
    OBVIOUS
  <1>1. w \in {l, r} /\ w.kind = "text" /\ (u = w \/ u.kind \in Numeric)
    BY DEF TextAndNumber, Either, Beside, Of, Is
  <1> HIDE DEF w
  <1>2. Atomic(w) /\ w.kind \in Kinds
    BY <1>1
  <1>3. CASE u = w
    BY <1>2, <1>3
  <1>4. CASE u.kind \in Numeric
    <2>1. t.kind \in Numeric \cup {"null"}
      BY <1>4 DEF Related, Numeric
    <2> QED BY <1>1, <1>2, <2>1, NullIsHeld DEF Kept, Related, Holds, Is
  <1> QED BY <1>1, <1>3, <1>4

\* The rules of a comparison, one after the other.
LEMMA Rules ==
  ASSUME NEW l, NEW r, l # r
  PROVE  Comparison(l, r) =
           IF NumericComparison(l, r) # No THEN NumericComparison(l, r)
           ELSE IF Temporal(l, r) # No THEN Temporal(l, r)
           ELSE IF Texts(l, r) # No THEN Texts(l, r)
           ELSE IF NullAnd(l, r) # No THEN NullAnd(l, r)
           ELSE TextAndNumber(l, r)
  <1> DEFINE rules == <<NumericComparison(l, r), Temporal(l, r), Texts(l, r), NullAnd(l, r), TextAndNumber(l, r)>>
             I == {i \in 1..Len(rules) : rules[i] # No}
             m == Min(I)
  <1>1. Comparison(l, r) = IF I = {} THEN No ELSE IF m = 0 THEN No ELSE rules[m]
    BY DEF Comparison, SelectInSeq
  <1>2. /\ rules[1] = NumericComparison(l, r) /\ rules[2] = Temporal(l, r) /\ rules[3] = Texts(l, r)
        /\ rules[4] = NullAnd(l, r) /\ rules[5] = TextAndNumber(l, r) /\ Len(rules) = 5
    OBVIOUS
  <1> HIDE DEF rules
  <1>3. CASE I = {}
    BY <1>1, <1>2, <1>3
  <1>4. CASE I # {}
    <2>1. m \in I /\ \A i \in I : m <= i
      <3>1. I \subseteq Nat
        BY <1>2
      <3> HIDE DEF I
      <3> QED BY <1>4, <3>1, MinIsIn
    <2>2. m \in 1..5 /\ rules[m] # No /\ \A i \in 1..5 : rules[i] # No => m <= i
      BY <1>2, <2>1
    <2> HIDE DEF m, I
    <2>3. Comparison(l, r) = rules[m]
      BY <1>1, <1>4, <2>2
    <2>4. m = 1 \/ m = 2 \/ m = 3 \/ m = 4 \/ m = 5
      BY <2>2
    <2>5. /\ m > 1 => rules[1] = No
          /\ m > 2 => rules[2] = No
          /\ m > 3 => rules[3] = No
          /\ m > 4 => rules[4] = No
      BY <2>2
    <2> QED BY <1>2, <2>2, <2>3, <2>4, <2>5
  <1> QED BY <1>3, <1>4

\* A comparison's type keeps what both its operands held.
LEMMA ComparisonKeeps ==
  ASSUME NEW t, NEW l, NEW r, NEW u \in {l, r},
         Atomic(t), Atomic(l), Atomic(r),
         l.kind \in Kinds, r.kind \in Kinds, Related(t, u), Kept(t, u),
         Comparison(l, r) # No
  PROVE  LET w == Comparison(l, r)
         IN  Atomic(w) /\ w.kind \in Kinds /\ Related(t, w) /\ Kept(t, w)
  <1>1. CASE l = r
    BY <1>1 DEF Comparison
  <1>2. CASE l # r
    BY <1>2, Rules, ComparedNumbers, ComparedTimes, ComparedTexts, ComparedWithNull, ComparedAsText
  <1> QED BY <1>1, <1>2

\* What CoerceList computes, for the operators without a boolean of their own.
LEMMA Folded ==
  ASSUME NEW op, op \notin {"logic", "bits"}, NEW types, Len(types) \in Nat,
         ~ \E i \in DOMAIN types : types[i] = No
  PROVE  \E f : /\ CoerceSteps(f, op, types, Len(types))
                /\ CoerceList(op, types) = f[Len(types)]
  <1> DEFINE upTo == CHOOSE f : CoerceSteps(f, op, types, Len(types))
  <1>1. CoerceList(op, types) = upTo[Len(types)]
    BY DEF CoerceList, CoerceSteps, CoerceStep
  <1>2. \E f : CoerceSteps(f, op, types, Len(types))
    BY StepsExist
  <1>3. CoerceSteps(upTo, op, types, Len(types))
    BY <1>2
  <1> QED BY <1>1, <1>3

\* The type of compared operands keeps what each of them holds, however many.
LEMMA FoldKeeps ==
  ASSUME NEW op \in {"compare", "case"}, NEW types, Len(types) \in Nat \ {0}, DOMAIN types = 1..Len(types),
         \A i \in 1..Len(types) : Atomic(types[i]) /\ types[i].kind \in Kinds,
         CoerceList(op, types) # No
  PROVE  LET c == CoerceList(op, types)
         IN  /\ Atomic(c) /\ c.kind \in Kinds
             /\ \A i \in 1..Len(types) : Kept(types[i], c)
  <1> DEFINE L == Len(types)
  <1>1. PICK f : CoerceSteps(f, op, types, L) /\ CoerceList(op, types) = f[L]
    <2>1. ~ \E i \in DOMAIN types : types[i] = No
      BY DEF CoerceList
    <2> QED BY <2>1, Folded
  <1> DEFINE Sound(n) == f[n] # No =>
               /\ Atomic(f[n]) /\ f[n].kind \in Kinds
               /\ \A i \in 1..n : Related(types[i], f[n]) /\ Kept(types[i], f[n])
             Bad == {n \in 1..L : ~Sound(n)}
  <1>2. SUFFICES ASSUME Bad # {} PROVE FALSE
    BY <1>1
  <1>3. PICK n \in Bad : \A k \in Bad : n <= k
    <2>1. Bad \subseteq Nat
      OBVIOUS
    <2> HIDE DEF Bad
    <2> QED BY <1>2, <2>1, LeastOne
  <1>4. n \in 1..L /\ ~Sound(n)
    OBVIOUS
  <1>5. \A u : Atomic(u) => Related(u, u) /\ Kept(u, u)
    BY DEF Related, Kept, Holds
  <1>6. CASE n = 1
    <2>1. f[1] = types[1]
      BY <1>1, <1>4, <1>6 DEF CoerceSteps
    <2> QED BY <1>4, <1>5, <1>6, <2>1
  <1>7. CASE n # 1
    <2>1. n - 1 \in 1..L /\ n - 1 \notin Bad
      BY <1>3, <1>4, <1>7
    <2>2. Sound(n - 1)
      BY <2>1
    <2>3. f[n] = CoerceStep(op, f[n - 1], types[n]) /\ f[n] # No
      BY <1>1, <1>4, <1>7, <2>1 DEF CoerceSteps
    <2>4. f[n - 1] # No /\ f[n] = Comparison(f[n - 1], types[n])
      BY <2>3 DEF CoerceStep, Coerce
    <2>5. Atomic(f[n - 1]) /\ f[n - 1].kind \in Kinds /\ Atomic(types[n]) /\ types[n].kind \in Kinds
      BY <1>4, <2>2, <2>4
    <2>6. ASSUME NEW t, NEW u \in {f[n - 1], types[n]}, Atomic(t), Related(t, u), Kept(t, u)
          PROVE  Atomic(f[n]) /\ f[n].kind \in Kinds /\ Related(t, f[n]) /\ Kept(t, f[n])
      <3> DEFINE l == f[n - 1]
                 r == types[n]
      <3>1. /\ u \in {l, r} /\ Atomic(l) /\ l.kind \in Kinds /\ Atomic(r) /\ r.kind \in Kinds
            /\ Comparison(l, r) # No /\ f[n] = Comparison(l, r)
        BY <2>3, <2>4, <2>5, <2>6
      <3> HIDE DEF l, r, Bad, Sound
      <3>2. LET w == Comparison(l, r)
            IN  Atomic(w) /\ w.kind \in Kinds /\ Related(t, w) /\ Kept(t, w)
        BY <2>6, <3>1, ComparisonKeeps
      <3> QED BY <3>1, <3>2
    <2>7. Atomic(f[n]) /\ f[n].kind \in Kinds
      BY <1>5, <2>5, <2>6
    <2>8. ASSUME NEW i \in 1..n PROVE Related(types[i], f[n]) /\ Kept(types[i], f[n])
      <3>1. CASE i = n
        BY <1>5, <2>5, <2>6, <3>1
      <3>2. CASE i # n
        <4>1. i \in 1..(n - 1) /\ i \in 1..L
          BY <1>4, <2>8, <3>2
        <4>2. Related(types[i], f[n - 1]) /\ Kept(types[i], f[n - 1]) /\ Atomic(types[i])
          BY <2>2, <2>4, <4>1
        <4> QED BY <2>6, <4>2
      <3> QED BY <3>1, <3>2
    <2> QED BY <1>4, <2>7, <2>8
  <1> QED BY <1>6, <1>7

\* Two operands are coerced once.
LEMMA Twice ==
  ASSUME NEW op, op \notin {"logic", "bits"}, NEW types, Len(types) = 2, DOMAIN types = 1..2,
         CoerceList(op, types) # No
  PROVE  CoerceList(op, types) = Coerce(op, types[1], types[2])
  <1>1. PICK f : CoerceSteps(f, op, types, 2) /\ CoerceList(op, types) = f[2]
    <2>1. ~ \E i \in DOMAIN types : types[i] = No
      BY DEF CoerceList
    <2>2. Len(types) \in Nat
      OBVIOUS
    <2>3. \E f : CoerceSteps(f, op, types, Len(types)) /\ CoerceList(op, types) = f[Len(types)]
      BY <2>1, <2>2, Folded
    <2> QED BY <2>3
  <1>2. f[1] = types[1] /\ f[2] = CoerceStep(op, f[1], types[2])
    BY <1>1 DEF CoerceSteps
  <1> QED BY <1>1, <1>2 DEF CoerceStep

\* A sequence of two with another element.
LEMMA Appended ==
  ASSUME NEW S, NEW s \in Seq(S), NEW b \in S
  PROVE  Len(Append(s, b)) = Len(s) + 1
  OBVIOUS

LEMMA AppendedLast ==
  ASSUME NEW S, NEW s \in Seq(S), NEW b \in S
  PROVE  Append(s, b)[Len(s) + 1] = b
  OBVIOUS

LEMMA AppendedTo ==
  ASSUME NEW S, NEW s \in Seq(S), NEW b \in S, NEW i \in 1..Len(s)
  PROVE  Append(s, b)[i] = s[i]
  OBVIOUS

LEMMA OneMore ==
  ASSUME NEW S, NEW s \in Seq(S), NEW b \in S, Len(s) = 2
  PROVE  /\ Len(Append(s, b)) = 3
         /\ Append(s, b)[1] = s[1] /\ Append(s, b)[2] = s[2] /\ Append(s, b)[3] = b
  <1>1. 1 \in 1..Len(s) /\ 2 \in 1..Len(s)
    OBVIOUS
  <1>2. Append(s, b)[1] = s[1] /\ Append(s, b)[2] = s[2]
    BY <1>1, AppendedTo
  <1>3. Len(s) + 1 = 3
    OBVIOUS
  <1>4. Len(Append(s, b)) = Len(s) + 1 /\ Append(s, b)[Len(s) + 1] = b
    BY Appended, AppendedLast, Zenon
  <1> QED BY <1>2, <1>3, <1>4, Zenon

\* With the boolean that the operators on booleans are given, there is one type.
LEMMA Thrice ==
  ASSUME NEW op \in {"logic", "bits"}, NEW types, NEW S, types \in Seq(S), Bool \in S, Len(types) = 2,
         CoerceList(op, types) # No
  PROVE  op = "logic" /\ types[1] = Bool /\ types[2] = Bool /\ CoerceList(op, types) = Bool
  <1> DEFINE list == Append(types, Bool)
  <1>1. Len(list) = 3 /\ list[1] = types[1] /\ list[2] = types[2] /\ list[3] = Bool
    BY OneMore
  <1>2. PICK f : CoerceSteps(f, op, list, 3) /\ CoerceList(op, types) = f[3]
    <2>1. ~ \E i \in DOMAIN types : types[i] = No
      BY DEF CoerceList
    <2> DEFINE upTo == CHOOSE f : CoerceSteps(f, op, list, Len(list))
    <2>2. CoerceList(op, types) = upTo[Len(list)]
      BY <2>1 DEF CoerceList, CoerceSteps, CoerceStep
    <2>3. Len(list) = 3
      BY <1>1
    <2> HIDE DEF list
    <2>4. \E f : CoerceSteps(f, op, list, 3)
      BY StepsExist
    <2>5. CoerceSteps(upTo, op, list, 3)
      BY <2>3, <2>4
    <2> QED BY <2>2, <2>3, <2>5
  <1> HIDE DEF list
  <1>3. f[1] = types[1] /\ f[2] = CoerceStep(op, f[1], types[2]) /\ f[3] = CoerceStep(op, f[2], Bool)
    BY <1>1, <1>2 DEF CoerceSteps
  <1>4. f[2] # No /\ f[3] # No /\ f[3] = Coerce(op, f[2], Bool) /\ f[2] = Coerce(op, types[1], types[2])
    BY <1>2, <1>3 DEF CoerceStep
  <1>5. op # "bits"
    <2>1. Bool.kind \notin Numeric \cup {"null"}
      BY DEF Bool, Type, Numeric
    <2> QED BY <1>4, <2>1 DEF Coerce, Bits, Calculable
  <1> QED BY <1>2, <1>4, <1>5 DEF Coerce

\* A decimal with no less of either digits than another.
LEMMA Roomy ==
  ASSUME NEW d, Atomic(d), d.kind = "decimal",
         NEW p \in Int, NEW s \in Int, d.s <= s, WholeDigits(d) <= p - s
  PROVE  LET w == CreateDecimal(p, s)
         IN  Atomic(w) /\ w.kind = "decimal" /\ Fits(d, w) /\ (d.p = 38 => w.p = 38)
  <1> DEFINE w == CreateDecimal(p, s)
             n == WholeDigits(d)
  <1>1. /\ d.p \in 1..38 /\ d.s \in 0..d.p /\ n \in Nat /\ n = d.p - d.s
    BY DEF Atomic, WholeDigits
  <1> HIDE DEF n
  <1>2. p \in Nat /\ s \in Nat /\ s <= p /\ d.p <= p /\ p # 0
    BY <1>1 DEF n
  <1>3. /\ Atomic(w) /\ w.kind = "decimal"
        /\ w.p = 38 \/ (w.p = p /\ w.s = s)
        /\ p >= 38 => w.p = 38
    BY <1>2, Created
  <1> HIDE DEF w
  <1>4. CASE w.p = 38
    BY <1>3, <1>4 DEF Fits, w
  <1>5. CASE w.p = p /\ w.s = s
    <2>1. WholeDigits(w) = p - s
      BY <1>5 DEF WholeDigits
    <2> QED BY <1>1, <1>2, <1>3, <1>5, <2>1 DEF Fits, w
  <1> QED BY <1>3, <1>4, <1>5

\* The result of a calculation with decimals has room for both of them, and that
\* of a division for what is divided.
LEMMA ResultFits ==
  ASSUME NEW op \in {"plus", "multiply", "divide"},
         NEW d, NEW e, Atomic(d), Atomic(e), d.kind = "decimal", e.kind = "decimal"
  PROVE  LET w == DecimalResult(op, d, e)
         IN  /\ Atomic(w) /\ w.kind = "decimal"
             /\ Fits(d, w) /\ (d.p = 38 => w.p = 38)
             /\ op # "divide" => Fits(e, w) /\ (e.p = 38 => w.p = 38)
  <1> DEFINE dw == WholeDigits(d)
             ew == WholeDigits(e)
  <1>1. /\ d.p \in Nat /\ d.s \in Nat /\ e.p \in Nat /\ e.s \in Nat
        /\ dw \in Nat /\ ew \in Nat /\ d.p = dw + d.s /\ e.p = ew + e.s
    BY DEF Atomic, WholeDigits
  <1>2. CASE op = "plus"
    <2> DEFINE s == Max({d.s, e.s})
               m == Max({dw, ew})
               p == s + m + 1
    <2>1. DecimalResult(op, d, e) = CreateDecimal(p, s)
      BY <1>2 DEF DecimalResult
    <2>2. s = IF d.s <= e.s THEN e.s ELSE d.s
      BY <1>1, Larger
    <2> HIDE DEF dw, ew, s
    <2>3. m = IF dw <= ew THEN ew ELSE dw
      BY <1>1, Larger
    <2> HIDE DEF m
    <2>4. p \in Int /\ s \in Int /\ d.s <= s /\ e.s <= s /\ dw <= p - s /\ ew <= p - s
      BY <1>1, <2>2, <2>3
    <2> HIDE DEF p
    <2> QED BY <2>1, <2>4, Roomy DEF dw, ew
  <1>3. CASE op = "multiply"
    <2> DEFINE s == d.s + e.s
               p == d.p + e.p + 1
    <2>1. DecimalResult(op, d, e) = CreateDecimal(p, s)
      BY <1>3 DEF DecimalResult
    <2> HIDE DEF dw, ew
    <2>2. p \in Int /\ s \in Int /\ d.s <= s /\ e.s <= s /\ dw <= p - s /\ ew <= p - s
      BY <1>1
    <2> HIDE DEF p, s
    <2> QED BY <2>1, <2>2, Roomy DEF dw, ew
  <1>4. CASE op = "divide"
    <2>1. PICK six \in Int : six = 6
      OBVIOUS
    <2> DEFINE k == d.s + e.p + 1
               s == Max({six, k})
               p == s + dw + e.s
    <2>2. DecimalResult(op, d, e) = CreateDecimal(p, s)
      BY <1>4, <2>1 DEF DecimalResult
    <2>3. k \in Int /\ d.s <= k
      BY <1>1
    <2> HIDE DEF k, dw
    <2>4. s = IF six <= k THEN k ELSE six
      BY <2>3, Larger
    <2> HIDE DEF s
    <2>5. p \in Int /\ s \in Int /\ d.s <= s /\ dw <= p - s
      BY <1>1, <2>3, <2>4
    <2> HIDE DEF p
    <2> QED BY <1>4, <2>2, <2>5, Roomy DEF dw
  <1> QED BY <1>2, <1>3, <1>4

\* A calculation with decimals keeps both its operands, but for a divisor.
LEMMA CalculatedDecimals ==
  ASSUME NEW op \in {"plus", "multiply", "divide"}, NEW l, NEW r,
         Atomic(l), Atomic(r), l.kind \in {"int", "uint", "decimal"}, r.kind \in {"int", "uint", "decimal"},
         Is("decimal", l) \/ Is("decimal", r), l # r,
         Mathematics(op, l, r) # No
  PROVE  LET w == Mathematics(op, l, r)
         IN  w.kind = "decimal" /\ Kept(l, w) /\ (op # "divide" => Kept(r, w))
  <1> DEFINE w == Mathematics(op, l, r)
             d == IF Is("decimal", l) THEN l ELSE AsDecimal(l)
             e == IF Is("decimal", r) THEN r ELSE AsDecimal(r)
  <1>1. d # No /\ e # No /\ w = DecimalResult(op, d, e)
    <2>1. Either("decimal", l, r) /\ ~Either("null", l, r) /\ ~Either("float", l, r)
      BY DEF Either, Is
    <2> QED BY <2>1 DEF Mathematics
  <1> HIDE DEF w
  <1>2. l.kind \in {"int", "decimal"} /\ r.kind \in {"int", "decimal"}
    BY <1>1 DEF AsDecimal, Is
  <1>3. Atomic(d) /\ d.kind = "decimal" /\ Atomic(e) /\ e.kind = "decimal"
    <2>1. Atomic(d) /\ d.kind = "decimal"
      BY <1>2, DigitsSuffice DEF Is
    <2>2. Atomic(e) /\ e.kind = "decimal"
      BY <1>2, DigitsSuffice DEF Is
    <2> QED BY <2>1, <2>2
  <1>4. l.kind = "decimal" => d = l
    BY DEF Is
  <1>5. l.kind = "int" => d = AsDecimal(l)
    BY DEF Is
  <1>6. r.kind = "decimal" => e = r
    BY DEF Is
  <1>7. r.kind = "int" => e = AsDecimal(r)
    BY DEF Is
  <1> HIDE DEF d, e
  <1>8. /\ Atomic(w) /\ w.kind = "decimal"
        /\ Fits(d, w) /\ (d.p = 38 => w.p = 38)
        /\ op # "divide" => Fits(e, w) /\ (e.p = 38 => w.p = 38)
    BY <1>1, <1>3, ResultFits
  <1>9. \A u : Atomic(u) => Related(u, u) /\ Kept(u, u)
    BY DEF Related, Kept, Holds
  <1>10. Kept(l, w)
    <2>1. CASE l.kind = "decimal"
      BY <1>4, <1>8, <1>9, <2>1, DecimalKeeps
    <2>2. CASE l.kind = "int"
      BY <1>5, <1>8, <1>9, <2>2, IntegerKeeps
    <2> QED BY <1>2, <2>1, <2>2
  <1>11. op # "divide" => Kept(r, w)
    <2>1. CASE op # "divide" /\ r.kind = "decimal"
      BY <1>6, <1>8, <1>9, <2>1, DecimalKeeps
    <2>2. CASE op # "divide" /\ r.kind = "int"
      BY <1>7, <1>8, <1>9, <2>2, IntegerKeeps
    <2> QED BY <1>2, <2>1, <2>2
  <1> QED BY <1>8, <1>10, <1>11 DEF w

\* A calculation keeps both its operands, but for a decimal's divisor.
LEMMA Calculated ==
  ASSUME NEW op \in {"plus", "multiply", "divide"}, NEW l, NEW r,
         Atomic(l), Atomic(r), l.kind \in Kinds, r.kind \in Kinds,
         Mathematics(op, l, r) # No
  PROVE  LET w == Mathematics(op, l, r)
         IN  /\ w.kind \in Numeric /\ Kept(l, w)
             /\ Kept(r, w) \/ (op = "divide" /\ w.kind = "decimal")
  <1> DEFINE w == Mathematics(op, l, r)
  <1> SUFFICES /\ w.kind \in Numeric /\ Kept(l, w)
               /\ Kept(r, w) \/ (op = "divide" /\ w.kind = "decimal")
    OBVIOUS
  <1>1. /\ Calculable(l, r)
        /\ l.kind \in Numeric \cup {"null"} /\ r.kind \in Numeric \cup {"null"}
        /\ l # Null \/ r # Null
    BY DEF Mathematics, Calculable
  <1>2. \A u : Atomic(u) => Related(u, u) /\ Kept(u, u)
    BY DEF Related, Kept, Holds
  <1>3. \A u : Atomic(u) /\ u.kind = "null" => u = Null
    BY DEF Atomic, Null
  <1>4. CASE l = r
    <2>1. w = l
      BY <1>1, <1>4 DEF Mathematics
    <2> HIDE DEF w
    <2> QED BY <1>1, <1>2, <1>3, <1>4, <2>1
  <1>5. CASE l # r /\ Either("decimal", l, r) /\ Either("null", l, r)
    <2>1. w = Of("decimal", l, r)
      BY <1>1, <1>5 DEF Mathematics
    <2>2. \/ w = l /\ l.kind = "decimal" /\ r.kind = "null"
          \/ w = r /\ r.kind = "decimal" /\ l.kind = "null"
      BY <1>5, <2>1 DEF Of, Is, Either
    <2> HIDE DEF w
    <2> QED BY <1>2, <2>2, NullIsHeld DEF Kept, Numeric
  <1>6. CASE l # r /\ Either("decimal", l, r) /\ ~Either("null", l, r) /\ Either("float", l, r)
    <2>1. w = Float(64)
      BY <1>1, <1>6 DEF Mathematics
    <2>2. Approximates
      BY <1>6 DEF Either, Approximates
    <2> QED BY <2>1, <2>2 DEF Float, Type, Numeric, Kept
  <1>7. CASE l # r /\ Either("decimal", l, r) /\ ~Either("null", l, r) /\ ~Either("float", l, r)
    <2>1. /\ l.kind \in {"int", "uint", "decimal"} /\ r.kind \in {"int", "uint", "decimal"}
          /\ Is("decimal", l) \/ Is("decimal", r)
      BY <1>1, <1>7 DEF Either, Is, Numeric
    <2>2. w.kind = "decimal" /\ Kept(l, w) /\ (op # "divide" => Kept(r, w))
      BY <1>7, <2>1, CalculatedDecimals
    <2> HIDE DEF w
    <2> QED BY <2>2 DEF Numeric
  <1>8. CASE l # r /\ ~Either("decimal", l, r)
    <2>1. w = FirstOf(Informative, l, r) /\ w # No
      BY <1>1, <1>8 DEF Mathematics, Either
    <2> HIDE DEF w
    <2>2. PICK i \in 1..10 : Informative[i] = w
      BY <2>1, Earliest
    <2>3. w \in {l, r} /\ w.kind \in {"float", "int", "uint"} /\ Atomic(w)
      BY <2>1, <2>2, Earliest, ListOrder
    <2>4. ASSUME NEW u \in {l, r} PROVE Kept(u, w)
      <3>1. CASE u.kind = "null"
        BY <3>1, NullIsHeld DEF Kept
      <3>2. CASE u.kind \in {"int", "uint", "float"}
        <4>1. \E j \in 1..10 : Informative[j] = u
          BY <3>2, InList
        <4>2. Atomic(u) /\ u.kind \in Numeric /\ u.kind # "decimal" /\ Related(u, u) /\ Kept(u, u)
          BY <1>2, <3>2 DEF Numeric
        <4> QED BY <2>1, <2>3, <4>1, <4>2, FirstKeeps
      <3> QED BY <1>1, <1>8, <3>1, <3>2 DEF Either, Numeric
    <2> QED BY <2>3, <2>4 DEF Numeric
  <1> QED BY <1>4, <1>5, <1>6, <1>7, <1>8

\* A sum's type has its fields too, when it has one.
LEMMA OperandFields ==
  ASSUME NEW e \in Expr, NEW i \in DOMAIN e.args, Operand(e.args[i]) # No
  PROVE  Atomic(Operand(e.args[i]))
  <1> DEFINE t == e.args[i].type
  <1>1. Atomic(t)
    BY ColumnTypes, AtomicFields
  <1>2. Atomic(Decimal(38, 0)) /\ Atomic(Float(64))
    BY DEF Atomic, Decimal, Float, Type
  <1>3. Operand(e.args[i]) \in {Decimal(38, 0), Float(64), t, No}
    BY DEF Operand, SumType
  <1> HIDE DEF t
  <1> QED BY <1>1, <1>2, <1>3

\* Only a date that is compared with a text gives a date, when there is a text.
LEMMA TextAndDate ==
  ASSUME NEW l, NEW r, "text" \in {l.kind, r.kind},
         Comparison(l, r) # No, Comparison(l, r).kind = "date"
  PROVE  \A t \in {l, r} : t = Comparison(l, r) \/ t.kind = "text"
  <1> DEFINE w == Comparison(l, r)
  <1>1. l # r
    BY DEF Comparison
  <1>2. w \in {NumericComparison(l, r), Temporal(l, r), Texts(l, r), NullAnd(l, r), TextAndNumber(l, r)}
    BY <1>1, Rules
  <1>3. w # No /\ w.kind = "date"
    OBVIOUS
  <1> HIDE DEF w
  <1>4. w # NumericComparison(l, r)
    BY <1>3 DEF NumericComparison, AreNumeric, Numeric
  <1>5. w # Texts(l, r)
    BY <1>3 DEF Texts, Text, Type
  <1>6. w # NullAnd(l, r)
    BY <1>3 DEF NullAnd, Either, Beside, Is
  <1>7. w # TextAndNumber(l, r)
    BY <1>3 DEF TextAndNumber, Either, Beside, Of, Is, Numeric
  <1>8. w = Temporal(l, r)
    BY <1>2, <1>4, <1>5, <1>6, <1>7
  <1>9. {l.kind, r.kind} = {"date", "text"} /\ w = Of("date", l, r)
    BY <1>3, <1>8 DEF Temporal, Is
  <1> QED BY <1>9 DEF Of, Is, w

\* What operands of one expression are cast to keeps their values, but for the
\* casts that are known not to (coerce.rs).
THEOREM OperandsAreHeld == Spec => []OperandsHeld
  <1>1. VerdictInv => OperandsHeld
    <2> DEFINE op == expr.op
               T == Operands(expr)
               c == CoerceList(op, T)
    <2> SUFFICES ASSUME VerdictInv, AllKnown, ~failed, NEW i \in DOMAIN cast, cast[i] # No
                 PROVE  LET t == Operand(expr.args[i])
                        IN  \/ Holds(cast[i], t)
                            \/ Approximates \/ TakesUnsigned(t) \/ Capped(cast[i])
                            \/ Coarsens(t, cast[i]) \/ ReadsText(t, cast[i])
                            \/ expr.op = "divide" /\ i = 2 /\ Is("decimal", cast[i])
                            \/ expr.op = "plus" /\ t = Interval
                            \/ expr.op = "case" /\ "text" \in Kinds /\ Is("date", cast[i])
      BY DEF OperandsHeld
    <2>1. /\ expr \in Expr /\ i \in DOMAIN expr.args
          /\ DOMAIN expr.args = 1..Len(expr.args) /\ Len(expr.args) \in Nat \ {0}
          /\ op \in {"sum", "case", "compare", "plus", "multiply", "divide", "logic", "bits"}
          /\ op \notin {"sum", "case"} => Len(expr.args) = 2
      BY Columns, ExpressionsAssumption DEF VerdictInv
    <2>2. cast[i] = c /\ c # No /\ op # "sum"
      BY DEF VerdictInv, Late, Alone
    <2>3. /\ DOMAIN T = 1..Len(expr.args) /\ Len(T) = Len(expr.args)
          /\ \A j \in 1..Len(expr.args) : T[j] = Operand(expr.args[j])
      BY <2>1 DEF Operands
    <2>4. \A j \in 1..Len(expr.args) : Atomic(T[j]) /\ T[j].kind \in Kinds
      <3>1. ~ \E j \in DOMAIN T : T[j] = No
        BY <2>2 DEF CoerceList
      <3> QED BY <2>1, <2>3, <3>1, OperandFields DEF Kinds
    <2> DEFINE t == T[i]
    <2>5. t = Operand(expr.args[i]) /\ i \in 1..Len(expr.args)
      BY <2>1, <2>3
    <2> SUFFICES \/ Holds(c, t)
                 \/ Approximates \/ TakesUnsigned(t) \/ Capped(c) \/ Coarsens(t, c) \/ ReadsText(t, c)
                 \/ op = "divide" /\ i = 2 /\ Is("decimal", c)
                 \/ op = "plus" /\ t = Interval
                 \/ op = "case" /\ "text" \in Kinds /\ Is("date", c)
      BY <2>2, <2>5
    <2>6. Kinds = {T[j].kind : j \in 1..Len(expr.args)}
      BY <2>1, <2>3 DEF Kinds
    <2> HIDE DEF op, T, c
    <2>7. Len(T) \in Nat \ {0}
      BY <2>1, <2>3
    <2>8. CASE op \in {"case", "compare"}
      <3>1. Kept(t, c)
        BY <2>2, <2>3, <2>4, <2>5, <2>7, <2>8, FoldKeeps DEF c
      <3>2. CASE op = "compare" /\ "text" \in Kinds /\ Is("date", c)
        <4>1. DOMAIN T = 1..2 /\ Len(T) = 2 /\ i \in 1..2
          BY <2>1, <2>3, <2>5, <3>2 DEF op
        <4>2. c = Comparison(T[1], T[2])
          <5>1. c = Coerce(op, T[1], T[2])
            BY <2>2, <3>2, <4>1, Twice DEF c
          <5> QED BY <3>2, <5>1 DEF Coerce
        <4>3. "text" \in {T[1].kind, T[2].kind} /\ t \in {T[1], T[2]}
          BY <2>3, <2>6, <3>2, <4>1
        <4>4. t = c \/ t.kind = "text"
          BY <2>2, <3>2, <4>2, <4>3, TextAndDate DEF Is
        <4> QED BY <3>2, <4>4 DEF Holds, ReadsText, Is
      <3> QED BY <2>8, <3>1, <3>2 DEF Kept
    <2>9. CASE op \in {"plus", "multiply", "divide", "logic", "bits"}
      <3>1. DOMAIN T = 1..2 /\ Len(T) = 2 /\ i \in 1..2
        BY <2>1, <2>3, <2>5, <2>9 DEF op
      <3> DEFINE l == T[1]
                 r == T[2]
      <3>2. Atomic(l) /\ Atomic(r) /\ l.kind \in Kinds /\ r.kind \in Kinds
        BY <2>3, <2>4, <3>1
      <3>3. (i = 1 /\ t = l) \/ (i = 2 /\ t = r)
        BY <3>1
      <3>4. CASE op \notin {"logic", "bits"}
        <4>1. c = Coerce(op, l, r)
          BY <2>2, <3>1, <3>4, Twice DEF c
        <4> HIDE DEF l, r, t
        <4>2. CASE op = "plus" /\ l.kind \in {"date", "timestamp"}
          <5>1. c = l /\ r = Interval
            BY <2>2, <4>1, <4>2 DEF Coerce, Plus
          <5> QED BY <3>3, <4>2, <5>1 DEF Holds
        <4>3. CASE ~(op = "plus" /\ l.kind \in {"date", "timestamp"})
          <5>1. c = Mathematics(op, l, r)
            BY <2>9, <3>4, <4>1, <4>3 DEF Coerce, Plus
          <5>2. op \in {"plus", "multiply", "divide"}
            BY <2>9, <3>4
          <5>3. /\ c.kind \in Numeric /\ Kept(l, c)
                /\ Kept(r, c) \/ (op = "divide" /\ c.kind = "decimal")
            BY <2>2, <3>2, <5>1, <5>2, Calculated
          <5>4. ~Is("date", c)
            BY <5>3 DEF Is, Numeric
          <5> QED BY <3>3, <5>3, <5>4 DEF Kept, Is
        <4> QED BY <4>2, <4>3
      <3>5. CASE op \in {"logic", "bits"}
        <4> DEFINE S == {T[1], T[2], Bool}
        <4>1. T \in Seq(S) /\ Bool \in S
          <5>1. T = [j \in 1..Len(expr.args) |-> Operand(expr.args[j])]
            BY <2>1 DEF T, Operands
          <5>2. Len(expr.args) = 2 /\ \A j \in 1..2 : Operand(expr.args[j]) \in S
            BY <2>1, <2>3, <3>1
          <5> HIDE DEF S
          <5> QED BY <5>1, <5>2 DEF S
        <4> HIDE DEF S
        <4>2. l = Bool /\ r = Bool /\ c = Bool
          BY <2>2, <3>1, <3>5, <4>1, Thrice DEF c
        <4> QED BY <3>3, <4>2 DEF Holds
      <3> QED BY <3>4, <3>5
    <2> QED BY <2>1, <2>2, <2>8, <2>9 DEF op
  <1> QED BY <1>1, Invariance, PTL

-----------------------------------------------------------------------------
\* The order of the branches: a comparison's type is the least upper bound of
\* its operands' types, and so is the type of any number of them.

\* The place in the list; the first types have the least.
Place(t) == (CASE t.kind = "float" -> 0 [] t.kind = "int" -> 100 [] t.kind = "uint" -> 200) - t.p

Undecimal == {"float", "int", "uint"}

\* The decimal that a number meets decimals as, and whether one has no more of
\* either digits than another.
DecimalOf(t) == IF t.kind = "decimal" THEN t ELSE AsDecimal(t)
Under(d, e) == d.s <= e.s /\ (e.p = 38 \/ WholeDigits(d) <= WholeDigits(e))

\* t is cast to u when they meet.
Below(t, u) ==
  \/ u = No \/ t = u \/ t.kind = "null"
  \/ {t.kind, u.kind} \subseteq Undecimal /\ Place(u) <= Place(t)
  \/ u.kind = "decimal" /\ t.kind \in {"int", "decimal"} /\ Under(DecimalOf(t), u)
  \/ t.kind = "date" /\ u.kind = "date" /\ u.p = 64
  \/ t.kind = "timestamp" /\ u.kind = "timestamp" /\ u.p <= t.p /\ t.s \in {0, u.s}
  \/ u.kind = "text" /\ (t.kind \in Numeric \/ (t.kind = "text" /\ t.p <= u.p))
  \/ t.kind = "text" /\ t.p = 32 /\ u.kind = "date"

\* The kinds whose types have least upper bounds.
Ordered ==
  /\ "decimal" \notin Kinds \/ Kinds \cap {"uint", "float"} = {}
  /\ ~({"text", "date"} \subseteq Kinds) \/ Kinds \cap Numeric = {}

\* What has the place of another one is that one.
LEMMA Places ==
  ASSUME NEW t, NEW u, Atomic(t), Atomic(u), t.kind \in Undecimal, u.kind \in Undecimal,
         Place(t) <= Place(u)
  PROVE  /\ t.kind = "uint" => u.kind = "uint"
         /\ t.kind = "int" => u.kind # "float"
         /\ t.kind = u.kind => u.p <= t.p
         /\ Place(u) <= Place(t) => t = u
  <1>1. /\ t.p \in {8, 16, 32, 64} /\ u.p \in {8, 16, 32, 64}
        /\ t = Type(t.kind, t.p, 0) /\ u = Type(u.kind, u.p, 0)
    BY DEF Atomic, Undecimal
  <1>2. /\ Place(t) = (IF t.kind = "float" THEN 0 ELSE IF t.kind = "int" THEN 100 ELSE 200) - t.p
        /\ Place(u) = (IF u.kind = "float" THEN 0 ELSE IF u.kind = "int" THEN 100 ELSE 200) - u.p
    BY DEF Place, Undecimal
  <1>3. /\ t.kind = "uint" => u.kind = "uint"
        /\ t.kind = "int" => u.kind # "float"
    BY <1>1, <1>2 DEF Undecimal
  <1>4. t.kind = u.kind => u.p <= t.p
    BY <1>1, <1>2 DEF Undecimal
  <1>5. Place(u) <= Place(t) => t.kind = u.kind /\ t.p = u.p
    BY <1>1, <1>2 DEF Undecimal
  <1> QED BY <1>1, <1>3, <1>4, <1>5

LEMMA DecimalsOf ==
  ASSUME NEW t, Atomic(t), t.kind \in {"int", "decimal"}
  PROVE  LET d == DecimalOf(t)
         IN  /\ Atomic(d) /\ d.kind = "decimal" /\ (t.kind = "decimal" => d = t)
             /\ d.p \in 1..38 /\ d.s \in 0..d.p /\ WholeDigits(d) \in Nat /\ WholeDigits(d) = d.p - d.s
  <1> DEFINE d == DecimalOf(t)
  <1>1. Atomic(d) /\ d.kind = "decimal" /\ (t.kind = "decimal" => d = t)
    BY DigitsSuffice DEF DecimalOf
  <1> HIDE DEF d
  <1>2. d.p \in 1..38 /\ d.s \in 0..d.p /\ WholeDigits(d) \in Nat /\ WholeDigits(d) = d.p - d.s
    BY <1>1 DEF Atomic, WholeDigits
  <1> QED BY <1>1, <1>2 DEF d

\* A larger integer has a larger decimal.
LEMMA LargerDecimal ==
  ASSUME NEW t, NEW u, Atomic(t), Atomic(u), t.kind = "int", u.kind = "int", t.p <= u.p,
         NEW e, Atomic(e), e.kind = "decimal", Under(DecimalOf(u), e)
  PROVE  Under(DecimalOf(t), e)
  <1>1. t.p \in {8, 16, 32, 64} /\ u.p \in {8, 16, 32, 64}
    BY DEF Atomic
  <1>2. \A b \in {8, 16, 32, 64} :
          DecimalDigits[b] = IF b = 8 THEN 3 ELSE IF b = 16 THEN 5 ELSE IF b = 32 THEN 10 ELSE 20
    BY DEF DecimalDigits
  <1> DEFINE n == DecimalDigits[t.p]
             m == DecimalDigits[u.p]
  <1>3. n \in Nat /\ m \in Nat /\ n <= m
    BY <1>1, <1>2
  <1>4. DecimalOf(t) = Type("decimal", n, 0) /\ DecimalOf(u) = Type("decimal", m, 0)
    BY DEF DecimalOf, AsDecimal, Is, Decimal
  <1> HIDE DEF n, m
  <1>5. /\ DecimalOf(t).s = 0 /\ WholeDigits(DecimalOf(t)) = n
        /\ DecimalOf(u).s = 0 /\ WholeDigits(DecimalOf(u)) = m
    BY <1>3, <1>4 DEF WholeDigits, Type
  <1>6. WholeDigits(e) \in Int
    BY DEF Atomic, WholeDigits
  <1> QED BY <1>3, <1>5, <1>6 DEF Under

LEMMA WiderIsLeast ==
  ASSUME NEW d, NEW e, NEW u, Atomic(d), Atomic(e), Atomic(u),
         d.kind = "decimal", e.kind = "decimal", u.kind = "decimal"
  PROVE  Under(Wider(d, e), u) <=> Under(d, u) /\ Under(e, u)
  <1>1. PICK most \in Int : most = 38
    OBVIOUS
  <1> DEFINE dw == WholeDigits(d)
             ew == WholeDigits(e)
             uw == WholeDigits(u)
             s == Max({d.s, e.s})
             m == Max({dw, ew})
             n == s + m
             p == Min({n, most})
             q == Min({s, most})
             w == Wider(d, e)
  <1>2. /\ d.p \in 1..38 /\ d.s \in 0..d.p /\ dw = d.p - d.s
        /\ e.p \in 1..38 /\ e.s \in 0..e.p /\ ew = e.p - e.s
        /\ u.p \in 1..38 /\ u.s \in 0..u.p /\ uw = u.p - u.s
    BY DEF Atomic, WholeDigits
  <1>3. dw \in Nat /\ ew \in Nat /\ uw \in Nat
    BY <1>2
  <1>4. w = Type("decimal", p, q)
    BY <1>1 DEF Wider, CreateDecimal, Decimal
  <1>5. s = IF d.s <= e.s THEN e.s ELSE d.s
    BY <1>2, Larger
  <1> HIDE DEF dw, ew, uw, s
  <1>6. m = IF dw <= ew THEN ew ELSE dw
    BY <1>3, Larger
  <1> HIDE DEF m
  <1>7. n \in Int /\ s \in Int
    BY <1>2, <1>3, <1>5, <1>6
  <1>8. q = s
    BY <1>1, <1>2, <1>5, <1>7, Smaller
  <1>9. n = s + m
    OBVIOUS
  <1> HIDE DEF n
  <1>10. p = IF n <= most THEN n ELSE most
    BY <1>1, <1>7, Smaller
  <1> HIDE DEF p, q, w
  <1>11. w.s = s /\ WholeDigits(w) = p - s
    BY <1>4, <1>8 DEF Type, WholeDigits
  <1>12. (s <= u.s) = (d.s <= u.s /\ e.s <= u.s)
    BY <1>2, <1>5
  <1>13. ASSUME s <= u.s, u.p # 38
         PROVE  (p - s <= uw) = (dw <= uw /\ ew <= uw)
    <2>1. CASE n <= most
      BY <1>2, <1>3, <1>5, <1>6, <1>9, <1>10, <2>1
    <2>2. CASE ~(n <= most)
      <3>1. ~(p - s <= uw)
        BY <1>1, <1>2, <1>7, <1>10, <1>13, <2>2 DEF uw
      <3>2. ~(m <= uw)
        BY <1>1, <1>2, <1>3, <1>5, <1>6, <1>7, <1>9, <1>13, <2>2
      <3> QED BY <1>3, <1>6, <3>1, <3>2
    <2> QED BY <2>1, <2>2
  <1> QED BY <1>11, <1>12, <1>13 DEF Under, dw, ew, uw, w

\* Which kinds are below which.
LEMMA BelowKinds ==
  ASSUME NEW t, NEW u, Atomic(u), Below(t, u)
  PROVE  \/ t.kind \in {"null", u.kind}
         \/ {t.kind, u.kind} \subseteq Undecimal
         \/ u.kind = "decimal" /\ t.kind = "int"
         \/ u.kind = "text" /\ t.kind \in Numeric
         \/ u.kind = "date" /\ t.kind = "text"
  <1>1. u # No
    BY DEF Atomic, No, Type
  <1> QED BY <1>1 DEF Below

\* Of two numbers that are no decimals, the one with the first place.
LEMMA FirstIsLeast ==
  ASSUME NEW l, NEW r, NEW u, Atomic(l), Atomic(r), Atomic(u), l # r,
         {l.kind, r.kind, u.kind} \subseteq Kinds, Ordered,
         {l.kind, r.kind} \subseteq Undecimal
  PROVE  Below(Comparison(l, r), u) <=> Below(l, u) /\ Below(r, u)
  <1> DEFINE w == Comparison(l, r)
  <1>1. w = FirstOf(Informative, l, r) /\ w # No
    <2>1. AreNumeric(l, r) /\ ~Is("decimal", l) /\ ~Is("decimal", r) /\ ~Either("decimal", l, r)
      BY DEF Undecimal, AreNumeric, Numeric, Is, Either
    <2>2. NumericComparison(l, r) = FirstOf(Informative, l, r)
      BY <2>1 DEF NumericComparison
    <2>3. PICK j \in 1..10 : Informative[j] = l
      BY InList DEF Undecimal
    <2>4. FirstOf(Informative, l, r) # No
      <3> DEFINE I == {i \in 1..Len(Informative) : Informative[i] \in {l, r}}
      <3>1. Len(Informative) = 10
        BY DEF Informative, Integral
      <3>2. I # {} /\ I \subseteq Nat
        BY <2>3, <3>1
      <3>3. SelectInSeq(Informative, LAMBDA t : t \in {l, r}) = Min(I)
        BY <3>2 DEF SelectInSeq
      <3>4. 0 \notin I
        OBVIOUS
      <3> HIDE DEF I
      <3>5. Min(I) \in I /\ FirstOf(Informative, l, r) = Informative[Min(I)]
        BY <3>2, <3>3, <3>4, MinIsIn DEF FirstOf
      <3>6. FirstOf(Informative, l, r) \in {l, r}
        BY <3>5 DEF I
      <3> QED BY <3>6 DEF Atomic, No, Type
    <2> QED BY <2>2, <2>4, Rules
  <1> HIDE DEF w
  <1>2. PICK i \in 1..10 : Informative[i] = w /\ \A j \in 1..10 : Informative[j] \in {l, r} => i <= j
    BY <1>1, Earliest
  <1>3. w \in {l, r}
    BY <1>1, Earliest
  <1>4. ASSUME NEW x \in {l, r} PROVE Place(w) <= Place(x)
    <2>1. PICK j \in 1..10 : Informative[j] = x
      BY InList DEF Undecimal
    <2>2. i <= j
      BY <1>2, <1>4, <2>1
    <2>3. \A k \in 1..10 :
            Place(Informative[k]) = IF k <= 2 THEN (IF k = 1 THEN -64 ELSE -32)
              ELSE IF k <= 6 THEN (IF k = 3 THEN 36 ELSE IF k = 4 THEN 68 ELSE IF k = 5 THEN 84 ELSE 92)
              ELSE IF k = 7 THEN 136 ELSE IF k = 8 THEN 168 ELSE IF k = 9 THEN 184 ELSE 192
      <3>1. /\ Informative[1] = Float(64) /\ Informative[2] = Float(32)
            /\ Informative[3] = Signed(64) /\ Informative[4] = Signed(32)
            /\ Informative[5] = Signed(16) /\ Informative[6] = Signed(8)
            /\ Informative[7] = Unsigned(64) /\ Informative[8] = Unsigned(32)
            /\ Informative[9] = Unsigned(16) /\ Informative[10] = Unsigned(8)
        BY DEF Informative, Integral
      <3>2. \A b \in Int : /\ Place(Float(b)) = 0 - b /\ Place(Signed(b)) = 100 - b
                           /\ Place(Unsigned(b)) = 200 - b
        BY DEF Place, Float, Signed, Unsigned, Type
      <3> QED BY <3>1, <3>2
    <2>4. Place(Informative[i]) <= Place(Informative[j])
      BY <2>2, <2>3
    <2> QED BY <1>2, <2>1, <2>4
  <1>5. ASSUME NEW x \in {l, r}, Below(w, u) PROVE Below(x, u)
    <2>1. Atomic(x) /\ Atomic(w) /\ x.kind \in Undecimal /\ w.kind \in Undecimal /\ Place(w) <= Place(x)
      BY <1>3, <1>4
    <2>2. Place(w) \in Int /\ Place(x) \in Int /\ (u.kind \in Undecimal => Place(u) \in Int)
      <3>1. \A y : Atomic(y) /\ y.kind \in Undecimal => Place(y) \in Int
        BY DEF Atomic, Place, Undecimal
      <3> QED BY <2>1, <3>1
    <2>3. CASE u.kind \in Undecimal
      <3>1. Place(u) <= Place(w)
        <4>1. u # No
          BY DEF Atomic, No, Type
        <4>2. CASE u = w
          BY <2>2, <4>2
        <4> QED BY <1>5, <2>1, <2>3, <4>1, <4>2 DEF Below, Undecimal
      <3>2. Place(u) <= Place(x)
        BY <2>1, <2>2, <2>3, <3>1
      <3> QED BY <2>1, <2>3, <3>2 DEF Below
    <2>4. CASE u.kind = "decimal"
      <3>1. x.kind = "int" /\ w.kind = "int"
        BY <1>3, <2>1, <2>4 DEF Ordered, Undecimal
      <3>2. Under(DecimalOf(w), u)
        <4>1. u # No
          BY DEF Atomic, No, Type
        <4> QED BY <1>5, <2>4, <3>1, <4>1 DEF Below, Undecimal
      <3>3. x.p <= w.p
        BY <2>1, <3>1, Places
      <3>4. Under(DecimalOf(x), u)
        BY <2>1, <2>4, <3>1, <3>2, <3>3, LargerDecimal
      <3> QED BY <2>4, <3>1, <3>4 DEF Below
    <2>5. CASE u.kind = "text"
      BY <2>1, <2>5 DEF Below, Numeric, Undecimal
    <2> QED BY <1>5, <2>1, <2>3, <2>4, <2>5, BelowKinds DEF Undecimal
  <1>6. Below(w, u) <=> Below(l, u) /\ Below(r, u)
    BY <1>3, <1>5
  <1> QED BY <1>6 DEF w

\* Decimals, and decimals with signed numbers.
LEMMA DecimalIsLeast ==
  ASSUME NEW l, NEW r, NEW u, Atomic(l), Atomic(r), Atomic(u), l # r,
         {l.kind, r.kind} \subseteq {"int", "decimal"}, "decimal" \in {l.kind, r.kind}
  PROVE  Below(Comparison(l, r), u) <=> Below(l, u) /\ Below(r, u)
  <1> DEFINE w == Comparison(l, r)
             d == DecimalOf(l)
             e == DecimalOf(r)
  <1>1. /\ Atomic(d) /\ d.kind = "decimal" /\ Atomic(e) /\ e.kind = "decimal"
    BY DecimalsOf
  <1>2. w = Wider(d, e) \/ w = Wider(e, d)
    <2>1. AreNumeric(l, r)
      BY DEF AreNumeric, Numeric
    <2>2. d # No /\ e # No /\ \A x : Atomic(x) => x # No
      BY <1>1 DEF Atomic, No, Type
    <2>3. /\ Atomic(Wider(d, e)) /\ Atomic(Wider(e, d))
      BY <1>1, WiderFits
    <2>4. CASE l.kind = "decimal" /\ r.kind = "decimal"
      <3>1. d = l /\ e = r
        BY <2>4 DEF DecimalOf
      <3>2. NumericComparison(l, r) = Wider(d, e)
        BY <2>1, <2>4, <3>1 DEF NumericComparison, Is
      <3> QED BY <2>2, <2>3, <3>2, Rules
    <2>5. CASE l.kind = "decimal" /\ r.kind = "int"
      <3>1. d = l /\ e = AsDecimal(r)
        BY <2>5 DEF DecimalOf
      <3>2. Of("decimal", l, r) = l /\ Beside("decimal", l, r) = r /\ Either("decimal", l, r)
        BY <2>5 DEF Of, Beside, Is, Either
      <3> HIDE DEF d, e
      <3>3. NumericComparison(l, r) = Wider(d, e)
        BY <2>1, <2>2, <2>5, <3>1, <3>2 DEF NumericComparison, Is
      <3> QED BY <2>2, <2>3, <3>3, Rules
    <2>6. CASE l.kind = "int" /\ r.kind = "decimal"
      <3>1. d = AsDecimal(l) /\ e = r
        BY <2>6 DEF DecimalOf
      <3>2. Of("decimal", l, r) = r /\ Beside("decimal", l, r) = l /\ Either("decimal", l, r)
        BY <2>6 DEF Of, Beside, Is, Either
      <3> HIDE DEF d, e
      <3>3. NumericComparison(l, r) = Wider(e, d)
        BY <2>1, <2>2, <2>6, <3>1, <3>2 DEF NumericComparison, Is
      <3> QED BY <2>2, <2>3, <3>3, Rules
    <2> QED BY <2>4, <2>5, <2>6
  <1>3. Atomic(w) /\ w.kind = "decimal"
    <2> HIDE DEF d, e
    <2> QED BY <1>1, <1>2, WiderFits
  <1>4. u # No
    BY DEF Atomic, No, Type
  <1>5. CASE u.kind = "decimal"
    <2>1. Under(w, u) <=> Under(d, u) /\ Under(e, u)
      <3> HIDE DEF d, e, w
      <3> QED BY <1>1, <1>2, <1>5, WiderIsLeast
    <2>2. ASSUME NEW x, Atomic(x), x.kind \in {"int", "decimal"}
          PROVE  Below(x, u) <=> Under(DecimalOf(x), u)
      <3>1. x = u => Under(DecimalOf(x), u)
        <4>1. u.s <= u.s /\ WholeDigits(u) <= WholeDigits(u)
          BY DEF Atomic, WholeDigits
        <4> QED BY <1>5, <4>1 DEF DecimalOf, Under
      <3> QED BY <1>4, <1>5, <2>2, <3>1 DEF Below, Undecimal
    <2>3. DecimalOf(w) = w
      BY <1>3 DEF DecimalOf
    <2> HIDE DEF w
    <2>4. Below(w, u) <=> Under(w, u)
      BY <1>3, <2>2, <2>3
    <2>5. (Below(l, u) <=> Under(d, u)) /\ (Below(r, u) <=> Under(e, u))
      BY <2>2
    <2> QED BY <2>1, <2>4, <2>5 DEF w
  <1>6. CASE u.kind = "text"
    <2> HIDE DEF w
    <2>1. Below(w, u) /\ Below(l, u) /\ Below(r, u)
      BY <1>3, <1>6 DEF Below, Numeric
    <2> QED BY <2>1 DEF w
  <1>7. CASE u.kind \notin {"decimal", "text"}
    <2> HIDE DEF w
    <2>1. ~Below(w, u)
      BY <1>3, <1>7, BelowKinds DEF Undecimal
    <2>2. ~Below(l, u) \/ ~Below(r, u)
      BY <1>7, BelowKinds DEF Undecimal
    <2> QED BY <2>1, <2>2 DEF w
  <1> QED BY <1>5, <1>6, <1>7

\* Dates, and timestamps.
LEMMA TimeIsLeast ==
  ASSUME NEW l, NEW r, NEW u, Atomic(l), Atomic(r), Atomic(u), l # r,
         l.kind = r.kind, l.kind \in {"date", "timestamp"}
  PROVE  Below(Comparison(l, r), u) <=> Below(l, u) /\ Below(r, u)
  <1> DEFINE w == Comparison(l, r)
  <1>1. w = Temporal(l, r)
    <2>1. /\ NumericComparison(l, r) = No /\ Texts(l, r) = No /\ NullAnd(l, r) = No
          /\ TextAndNumber(l, r) = No
      BY DEF NumericComparison, AreNumeric, Numeric, Texts, NullAnd, TextAndNumber, Is, Either
    <2> QED BY <2>1, Rules
  <1>2. u # No
    BY DEF Atomic, No, Type
  <1> HIDE DEF w
  <1>3. CASE l.kind = "date"
    <2>1. w = Date(64)
      BY <1>1, <1>3 DEF Temporal, Is
    <2>2. w.kind = "date" /\ w.p = 64
      BY <2>1 DEF Date, Type
    <2>3. CASE u.kind = "date"
      <3>1. Below(w, u) <=> u.p = 64
        BY <1>2, <2>2, <2>3 DEF Below, Undecimal
      <3>2. Below(l, u) /\ Below(r, u) <=> u.p = 64
        <4>1. \A x \in {l, r} : Below(x, u) <=> x = u \/ u.p = 64
          BY <1>2, <1>3, <2>3 DEF Below, Undecimal
        <4> QED BY <1>3, <2>3, <4>1 DEF Atomic
      <3> QED BY <3>1, <3>2 DEF w
    <2>4. CASE u.kind # "date"
      BY <1>3, <2>2, <2>4, BelowKinds DEF w, Undecimal, Numeric
    <2> QED BY <2>3, <2>4
  <1>4. CASE l.kind = "timestamp"
    <2>1. l.p \in Nat /\ r.p \in Nat /\ l.s \in Nat /\ r.s \in Nat /\ u.p \in Nat /\ u.s \in Nat
      BY DEF Atomic
    <2>2. CASE u.kind = "timestamp"
      <3>1. ASSUME NEW x, x.kind = "timestamp", x.p \in Nat
            PROVE  Below(x, u) <=> u.p <= x.p /\ x.s \in {0, u.s}
        <4>1. x = u => u.p <= x.p /\ x.s \in {0, u.s}
          BY <2>1
        <4> QED BY <1>2, <2>2, <3>1, <4>1 DEF Below, Undecimal
      <3>2. CASE l.s = r.s \/ 0 \in {l.s, r.s}
        <4>1. w = Timestamp(Min({l.p, r.p}), Max({l.s, r.s}))
          BY <1>1, <1>4, <3>2 DEF Temporal, Is
        <4>2. /\ Min({l.p, r.p}) = (IF l.p <= r.p THEN l.p ELSE r.p)
              /\ Max({l.s, r.s}) = (IF l.s <= r.s THEN r.s ELSE l.s)
          BY <2>1, Smaller, Larger
        <4>3. w.kind = "timestamp" /\ w.p = (IF l.p <= r.p THEN l.p ELSE r.p)
              /\ w.s = (IF l.s <= r.s THEN r.s ELSE l.s)
          BY <4>1, <4>2 DEF Timestamp, Type
        <4>4. w.p \in Nat
          BY <2>1, <4>3
        <4>5. Below(w, u) <=> u.p <= w.p /\ w.s \in {0, u.s}
          BY <3>1, <4>3, <4>4
        <4>6. (u.p <= w.p) <=> (u.p <= l.p /\ u.p <= r.p)
          BY <2>1, <4>3
        <4>7. (w.s \in {0, u.s}) <=> (l.s \in {0, u.s} /\ r.s \in {0, u.s})
          BY <2>1, <3>2, <4>3
        <4>8. (Below(l, u) <=> u.p <= l.p /\ l.s \in {0, u.s}) /\ (Below(r, u) <=> u.p <= r.p /\ r.s \in {0, u.s})
          BY <1>4, <2>1, <3>1
        <4> QED BY <4>5, <4>6, <4>7, <4>8 DEF w
      <3>3. CASE ~(l.s = r.s \/ 0 \in {l.s, r.s})
        <4>1. w = No
          BY <1>1, <1>4, <3>3 DEF Temporal, Is
        <4>2. ~Below(w, u)
          BY <1>2, <4>1 DEF Below, No, Type, Undecimal, Numeric
        <4>3. ~(l.s \in {0, u.s} /\ r.s \in {0, u.s})
          BY <3>3
        <4>4. (Below(l, u) <=> u.p <= l.p /\ l.s \in {0, u.s}) /\ (Below(r, u) <=> u.p <= r.p /\ r.s \in {0, u.s})
          BY <1>4, <2>1, <3>1
        <4> QED BY <4>2, <4>3, <4>4 DEF w
      <3> QED BY <3>2, <3>3
    <2>3. CASE u.kind # "timestamp"
      <3>1. w.kind \in {"timestamp", "none"}
        BY <1>1, <1>4 DEF Temporal, Is, Timestamp, No, Type
      <3>2. ~Below(w, u)
        <4>1. u.kind # "none"
          BY DEF Atomic
        <4> QED BY <2>3, <3>1, <4>1, BelowKinds DEF Undecimal, Numeric
      <3>3. ~Below(l, u)
        BY <1>4, <2>3, BelowKinds DEF Undecimal, Numeric
      <3> QED BY <3>2, <3>3 DEF w
    <2> QED BY <2>2, <2>3
  <1> QED BY <1>3, <1>4

\* NULL is below everything.
LEMMA NullIsLeast ==
  ASSUME NEW l, NEW r, NEW u, Atomic(l), Atomic(r), l # r, "null" \in {l.kind, r.kind}
  PROVE  Below(Comparison(l, r), u) <=> Below(l, u) /\ Below(r, u)
  <1>1. l = Null <=> r # Null
    BY DEF Atomic, Null
  <1>2. /\ NumericComparison(l, r) = No /\ Temporal(l, r) = No /\ Texts(l, r) = No
    BY DEF NumericComparison, AreNumeric, Numeric, Temporal, Texts, Is
  <1>3. l # No /\ r # No
    BY DEF Atomic, No, Type
  <1>4. CASE l = Null
    <2>1. l.kind = "null"
      BY <1>4 DEF Null, Type
    <2>2. NullAnd(l, r) = r
      BY <2>1 DEF NullAnd, Either, Beside, Is
    <2>3. Comparison(l, r) = r
      BY <1>2, <1>3, <2>2, Rules
    <2> QED BY <2>1, <2>3 DEF Below
  <1>5. CASE r = Null
    <2>1. r.kind = "null" /\ l.kind # "null"
      BY <1>1, <1>5 DEF Null, Type, Atomic
    <2>2. NullAnd(l, r) = l
      BY <2>1 DEF NullAnd, Either, Beside, Is
    <2>3. Comparison(l, r) = l
      BY <1>2, <1>3, <2>2, Rules
    <2> QED BY <2>1, <2>3 DEF Below
  <1> QED BY <1>1, <1>4, <1>5

\* Texts, with numbers and with dates.
LEMMA TextIsLeast ==
  ASSUME NEW l, NEW r, NEW u, Atomic(l), Atomic(r), Atomic(u), l # r,
         {l.kind, r.kind, u.kind} \subseteq Kinds, Ordered,
         "text" \in {l.kind, r.kind}, {l.kind, r.kind} \subseteq {"text", "date"} \cup Numeric
  PROVE  Below(Comparison(l, r), u) <=> Below(l, u) /\ Below(r, u)
  <1> DEFINE w == Comparison(l, r)
  <1>1. u # No /\ l # No /\ r # No
    BY DEF Atomic, No, Type
  <1>2. NumericComparison(l, r) = No /\ NullAnd(l, r) = No
    BY DEF NumericComparison, AreNumeric, Numeric, NullAnd, Either
  <1>3. u.kind = "text" => u.p \in {32, 64}
    BY DEF Atomic
  <1> HIDE DEF w
  <1>4. CASE l.kind = "text" /\ r.kind = "text"
    <2>1. l.p \in {32, 64} /\ r.p \in {32, 64}
      BY <1>4 DEF Atomic
    <2>2. Temporal(l, r) = No
      BY <1>4 DEF Temporal, Is
    <2>3. Max({l.p, r.p}) = (IF l.p <= r.p THEN r.p ELSE l.p)
      BY <2>1, Larger
    <2>4. Texts(l, r) = Text(Max({l.p, r.p})) /\ Texts(l, r) # No
      BY <1>4 DEF Texts, Is, Text, No, Type
    <2>5. w = Text(Max({l.p, r.p}))
      BY <1>2, <2>2, <2>4, Rules DEF w
    <2>6. w.kind = "text" /\ w.p = (IF l.p <= r.p THEN r.p ELSE l.p)
      BY <2>3, <2>5 DEF Text, Type
    <2>7. ASSUME NEW x, x.kind = "text", x.p \in {32, 64}
          PROVE  Below(x, u) <=> (u.kind = "text" /\ x.p <= u.p) \/ (u.kind = "date" /\ x.p = 32)
      <3>1. x = u => u.kind = "text" /\ x.p <= u.p
        BY <2>7
      <3> QED BY <1>1, <2>7, <3>1 DEF Below, Undecimal, Numeric
    <2>8. w.p \in {32, 64} /\ (w.p = 32 <=> l.p = 32 /\ r.p = 32)
      BY <2>1, <2>6
    <2>9. u.kind = "text" => (w.p <= u.p <=> l.p <= u.p /\ r.p <= u.p)
      BY <1>3, <2>1, <2>6
    <2> QED BY <1>4, <2>1, <2>6, <2>7, <2>8, <2>9 DEF w
  <1>5. CASE Numeric \cap {l.kind, r.kind} # {}
    <2>1. PICK x \in {l, r} : x.kind = "text" /\ Of("text", l, r) = x
      BY <1>5 DEF Of, Is, Numeric
    <2>2. PICK y \in {l, r} : y.kind \in Numeric /\ Beside("text", l, r) = y /\ {l, r} = {x, y}
      BY <1>5, <2>1 DEF Beside, Of, Is, Numeric
    <2>3. w = x
      <3>1. Temporal(l, r) = No /\ Texts(l, r) = No
        BY <1>5 DEF Temporal, Texts, Is, Numeric
      <3>2. TextAndNumber(l, r) = x
        BY <2>1, <2>2 DEF TextAndNumber, Either
      <3> QED BY <1>2, <3>1, <3>2, Rules DEF w
    <2>4. Below(x, u) => Below(y, u)
      <3>1. CASE u.kind = "text"
        BY <2>2, <3>1 DEF Below
      <3>2. CASE u.kind = "date"
        BY <1>5, <3>2 DEF Ordered
      <3>3. CASE u.kind \notin {"text", "date"}
        BY <2>1, <3>3, BelowKinds DEF Undecimal, Numeric
      <3> QED BY <3>1, <3>2, <3>3
    <2> QED BY <2>2, <2>3, <2>4 DEF w
  <1>6. CASE "date" \in {l.kind, r.kind}
    <2>1. PICK x \in {l, r} : x.kind = "text" /\ Of("text", l, r) = x
      BY <1>6 DEF Of, Is
    <2>2. PICK y \in {l, r} : y.kind = "date" /\ Of("date", l, r) = y /\ {l, r} = {x, y}
      BY <1>6, <2>1 DEF Of, Is
    <2>3. {l.kind, r.kind} = {"date", "text"}
      BY <2>1, <2>2
    <2>4. CASE x.p = 32
      <3>1. x = Text(32)
        BY <2>1, <2>4 DEF Atomic, Text
      <3>2. Temporal(l, r) = y
        BY <2>1, <2>2, <2>3, <3>1 DEF Temporal, Is
      <3>3. w = y
        BY <1>1, <1>2, <2>2, <3>2, Rules DEF w
      <3>4. Below(y, u) => Below(x, u)
        BY <1>1, <2>1, <2>2, <2>4, BelowKinds DEF Below, Undecimal, Numeric
      <3> QED BY <2>2, <3>3, <3>4 DEF w
    <2>5. CASE x.p # 32
      <3>1. x # Text(32)
        BY <2>5 DEF Text, Type
      <3>2. Temporal(l, r) = No
        BY <2>1, <2>3, <3>1 DEF Temporal, Is
      <3>3. Texts(l, r) = No /\ TextAndNumber(l, r) = No
        BY <2>3 DEF Texts, TextAndNumber, Is, Beside, Numeric
      <3>4. w = No
        BY <1>2, <3>2, <3>3, Rules DEF w
      <3>5. ~Below(w, u)
        BY <1>1, <3>4 DEF Below, No, Type, Undecimal, Numeric
      <3>6. ~(Below(x, u) /\ Below(y, u))
        <4>1. CASE u.kind = "date"
          <5>1. x # u
            BY <2>1, <4>1
          <5> QED BY <1>1, <2>1, <2>5, <4>1, <5>1 DEF Below, Undecimal, Numeric
        <4>2. CASE u.kind # "date"
          BY <2>2, <4>2, BelowKinds DEF Undecimal, Numeric
        <4> QED BY <4>1, <4>2
      <3> QED BY <2>2, <3>5, <3>6 DEF w
    <2> QED BY <2>4, <2>5
  <1> QED BY <1>4, <1>5, <1>6

\* What does not meet has no type above it.
LEMMA ApartIsLeast ==
  ASSUME NEW l, NEW r, NEW u, Atomic(l), Atomic(r), Atomic(u), l # r,
         "null" \notin {l.kind, r.kind},
         ~({l.kind, r.kind} \subseteq Numeric),
         ~({l.kind, r.kind} \subseteq {"text", "date"} \cup Numeric /\ "text" \in {l.kind, r.kind}),
         ~(l.kind = r.kind /\ l.kind \in {"date", "timestamp"})
  PROVE  Below(Comparison(l, r), u) <=> Below(l, u) /\ Below(r, u)
  <1>1. l.kind # r.kind
    BY DEF Atomic, Numeric
  <1>2. /\ NumericComparison(l, r) = No /\ Texts(l, r) = No
        /\ NullAnd(l, r) = No
    BY <1>1 DEF NumericComparison, AreNumeric, Texts, NullAnd, Either, Is
  <1>3. Temporal(l, r) = No
    <2>1. {l.kind, r.kind} # {"date", "text"}
      OBVIOUS
    <2> QED BY <1>1, <2>1 DEF Temporal, Is
  <1>4. TextAndNumber(l, r) = No
    BY DEF TextAndNumber, Either, Beside, Is
  <1>5. Comparison(l, r) = No
    BY <1>2, <1>3, <1>4, Rules
  <1>6. u # No
    BY DEF Atomic, No, Type
  <1>7. ~Below(No, u)
    BY <1>6 DEF Below, No, Type, Undecimal, Numeric
  <1>8. ~(Below(l, u) /\ Below(r, u))
    <2> SUFFICES ASSUME Below(l, u), Below(r, u) PROVE FALSE
      OBVIOUS
    <2>1. /\ \/ l.kind = u.kind
             \/ {l.kind, u.kind} \subseteq Undecimal
             \/ u.kind = "decimal" /\ l.kind = "int"
             \/ u.kind = "text" /\ l.kind \in Numeric
             \/ u.kind = "date" /\ l.kind = "text"
          /\ \/ r.kind = u.kind
             \/ {r.kind, u.kind} \subseteq Undecimal
             \/ u.kind = "decimal" /\ r.kind = "int"
             \/ u.kind = "text" /\ r.kind \in Numeric
             \/ u.kind = "date" /\ r.kind = "text"
      BY BelowKinds
    <2> QED BY <1>1, <2>1 DEF Undecimal, Numeric
  <1> QED BY <1>5, <1>7, <1>8

\* A comparison's type is the least that both its operands' types are below.
LEMMA ComparisonIsLeast ==
  ASSUME NEW l, NEW r, NEW u, Atomic(l), Atomic(r), Atomic(u),
         {l.kind, r.kind, u.kind} \subseteq Kinds, Ordered
  PROVE  Below(Comparison(l, r), u) <=> Below(l, u) /\ Below(r, u)
  <1>1. CASE l = r
    BY <1>1 DEF Comparison
  <1>2. CASE l # r /\ {l.kind, r.kind} \subseteq Numeric
    <2>1. CASE "decimal" \in {l.kind, r.kind}
      <3>1. {l.kind, r.kind} \subseteq {"int", "decimal"}
        BY <1>2, <2>1 DEF Ordered, Numeric
      <3> QED BY <1>2, <2>1, <3>1, DecimalIsLeast
    <2>2. CASE "decimal" \notin {l.kind, r.kind}
      <3>1. {l.kind, r.kind} \subseteq Undecimal
        BY <1>2, <2>2 DEF Undecimal, Numeric
      <3> QED BY <1>2, <3>1, FirstIsLeast
    <2> QED BY <2>1, <2>2
  <1> QED BY <1>1, <1>2, NullIsLeast, TextIsLeast, TimeIsLeast, ApartIsLeast

\* Types that are below each other are the same.
LEMMA BelowEachOther ==
  ASSUME NEW t, NEW u, Atomic(t), Atomic(u), Below(t, u), Below(u, t)
  PROVE  t = u
  <1>1. t # No /\ u # No
    BY DEF Atomic, No, Type
  <1>2. t.kind = u.kind \/ {t.kind, u.kind} \subseteq Undecimal
    <2>1. /\ \/ t.kind \in {"null", u.kind}
             \/ {t.kind, u.kind} \subseteq Undecimal
             \/ u.kind = "decimal" /\ t.kind = "int"
             \/ u.kind = "text" /\ t.kind \in Numeric
             \/ u.kind = "date" /\ t.kind = "text"
          /\ \/ u.kind \in {"null", t.kind}
             \/ {u.kind, t.kind} \subseteq Undecimal
             \/ t.kind = "decimal" /\ u.kind = "int"
             \/ t.kind = "text" /\ u.kind \in Numeric
             \/ t.kind = "date" /\ u.kind = "text"
      BY BelowKinds
    <2> QED BY <2>1, <1>1 DEF Undecimal, Numeric, Below
  <1>3. SUFFICES ASSUME t # u PROVE FALSE
    OBVIOUS
  <1>4. t = Type(t.kind, t.p, t.s) /\ u = Type(u.kind, u.p, u.s)
    BY DEF Atomic
  <1>5. CASE {t.kind, u.kind} \subseteq Undecimal
    <2>1. Place(u) <= Place(t) /\ Place(t) <= Place(u)
      BY <1>1, <1>3, <1>5 DEF Below, Undecimal
    <2> QED BY <1>3, <1>5, <2>1, Places
  <1>6. CASE t.kind = "decimal" /\ u.kind = "decimal"
    <2>1. Under(t, u) /\ Under(u, t)
      BY <1>1, <1>3, <1>6 DEF Below, Undecimal, DecimalOf
    <2>2. /\ t.p \in 1..38 /\ t.s \in 0..t.p /\ WholeDigits(t) = t.p - t.s
          /\ u.p \in 1..38 /\ u.s \in 0..u.p /\ WholeDigits(u) = u.p - u.s
      BY <1>6 DEF Atomic, WholeDigits
    <2>3. t.s = u.s /\ t.p = u.p
      BY <2>1, <2>2 DEF Under
    <2> QED BY <1>3, <1>4, <1>6, <2>3
  <1>7. CASE t.kind = u.kind /\ t.kind \in {"date", "text"}
    <2>1. t.p \in {32, 64} /\ u.p \in {32, 64} /\ t.s = 0 /\ u.s = 0
      BY <1>7 DEF Atomic
    <2>2. t.p = u.p
      BY <1>1, <1>3, <1>7, <2>1 DEF Below, Undecimal, Numeric
    <2> QED BY <1>3, <1>4, <1>7, <2>1, <2>2
  <1>8. CASE t.kind = u.kind /\ t.kind = "timestamp"
    <2>1. t.p \in Nat /\ u.p \in Nat
      BY DEF Atomic
    <2>2. u.p <= t.p /\ t.s \in {0, u.s} /\ t.p <= u.p /\ u.s \in {0, t.s}
      BY <1>1, <1>3, <1>8 DEF Below, Undecimal, Numeric
    <2> QED BY <1>3, <1>4, <1>8, <2>1, <2>2
  <1>9. CASE t.kind = u.kind /\ t.kind \in {"bool", "null", "interval"}
    BY <1>3, <1>4, <1>9 DEF Atomic
  <1> QED BY <1>2, <1>5, <1>6, <1>7, <1>8, <1>9 DEF Atomic, Undecimal

\* The type of a CASE is the least that its branches' types are below.
LEMMA FoldIsLeast ==
  ASSUME NEW types, Len(types) \in Nat \ {0}, DOMAIN types = 1..Len(types),
         \A i \in 1..Len(types) : Atomic(types[i]) /\ types[i].kind \in Kinds,
         Ordered, NEW u, Atomic(u), u.kind \in Kinds
  PROVE  Below(CoerceList("case", types), u) <=> \A i \in 1..Len(types) : Below(types[i], u)
  <1> DEFINE L == Len(types)
  <1>1. PICK f : CoerceSteps(f, "case", types, L) /\ CoerceList("case", types) = f[L]
    <2>1. ~ \E i \in DOMAIN types : types[i] = No
      BY DEF Atomic, No, Type
    <2> QED BY <2>1, Folded
  <1> DEFINE Least(n) == /\ f[n] = No \/ (Atomic(f[n]) /\ f[n].kind \in Kinds)
                         /\ Below(f[n], u) <=> \A i \in 1..n : Below(types[i], u)
             Bad == {n \in 1..L : ~Least(n)}
  <1>2. SUFFICES ASSUME Bad # {} PROVE FALSE
    BY <1>1
  <1>3. PICK n \in Bad : \A k \in Bad : n <= k
    <2>1. Bad \subseteq Nat
      OBVIOUS
    <2> HIDE DEF Bad
    <2> QED BY <1>2, <2>1, LeastOne
  <1>4. n \in 1..L /\ ~Least(n)
    OBVIOUS
  <1>5. ~Below(No, u)
    BY DEF Below, Atomic, No, Type, Undecimal, Numeric
  <1>6. CASE n = 1
    <2>1. f[1] = types[1]
      BY <1>1, <1>4, <1>6 DEF CoerceSteps
    <2> QED BY <1>4, <1>6, <2>1
  <1>7. CASE n # 1
    <2>1. n - 1 \in 1..L /\ n - 1 \notin Bad
      BY <1>3, <1>4, <1>7
    <2>2. Least(n - 1)
      BY <2>1
    <2> DEFINE l == f[n - 1]
               r == types[n]
               w == f[n]
    <2>3. w = IF l = No THEN No ELSE Comparison(l, r)
      BY <1>1, <1>4, <1>7, <2>1 DEF CoerceSteps, CoerceStep, Coerce
    <2>4. Atomic(r) /\ r.kind \in Kinds
      BY <1>4
    <2>5. /\ l = No \/ (Atomic(l) /\ l.kind \in Kinds)
          /\ Below(l, u) <=> \A i \in 1..(n - 1) : Below(types[i], u)
      BY <2>2
    <2>6. (\A i \in 1..n : Below(types[i], u)) <=> (\A i \in 1..(n - 1) : Below(types[i], u)) /\ Below(r, u)
      <3>1. 1..n = 1..(n - 1) \cup {n}
        BY <1>4, <1>7
      <3> QED BY <3>1
    <2> HIDE DEF l, r, w, Bad, Least
    <2>7. CASE l = No
      <3>1. w = No /\ ~Below(l, u)
        BY <1>5, <2>3, <2>7
      <3> QED BY <1>4, <1>5, <2>5, <2>6, <3>1 DEF Least, w
    <2>8. CASE l # No
      <3>1. Below(w, u) <=> Below(l, u) /\ Below(r, u)
        BY <2>3, <2>4, <2>5, <2>8, ComparisonIsLeast
      <3>2. w = No \/ (Atomic(w) /\ w.kind \in Kinds)
        <4>1. Related(l, l) /\ Kept(l, l)
          BY <2>5, <2>8 DEF Related, Kept, Holds
        <4> QED BY <2>3, <2>4, <2>5, <2>8, <4>1, ComparisonKeeps
      <3> QED BY <1>4, <2>5, <2>6, <3>1, <3>2 DEF Least, w
    <2> QED BY <2>7, <2>8
  <1> QED BY <1>6, <1>7

\* The branches in any order have one type (coerce.rs), for the kinds that have
\* least upper bounds.
THEOREM BranchesInAnyOrder == Spec => []CaseIsOrderFree
  <1>1. VerdictInv => CaseIsOrderFree
    <2> SUFFICES ASSUME VerdictInv, expr.op = "case", Ordered, NEW p \in Orders
                 PROVE  CoerceList("case", [i \in DOMAIN p |-> Operand(expr.args[p[i]])]) =
                        CoerceList("case", Operands(expr))
      BY DEF CaseIsOrderFree, Ordered
    <2> DEFINE N == Len(expr.args)
               T == Operands(expr)
               U == [i \in DOMAIN p |-> Operand(expr.args[p[i]])]
               c == CoerceList("case", T)
               d == CoerceList("case", U)
    <2>1. expr \in Expr /\ DOMAIN expr.args = 1..N /\ N \in Nat \ {0}
      BY Columns DEF VerdictInv
    <2>2. DOMAIN p = 1..N /\ (\A i \in 1..N : p[i] \in 1..N) /\ (\A j \in 1..N : \E i \in 1..N : p[i] = j)
      BY <2>1 DEF Orders
    <2>3. /\ DOMAIN T = 1..N /\ Len(T) = N
          /\ \A j \in 1..N : T[j] = Operand(expr.args[j])
      BY <2>1 DEF Operands
    <2>4. /\ DOMAIN U = 1..N /\ Len(U) = N
          /\ \A i \in 1..N : U[i] = T[p[i]]
      <3>1. U = [i \in 1..N |-> Operand(expr.args[p[i]])]
        BY <2>2
      <3>2. ASSUME NEW i \in 1..N PROVE U[i] = T[p[i]]
        <4>1. p[i] \in 1..N
          BY <2>2
        <4>2. T[p[i]] = Operand(expr.args[p[i]])
          BY <2>3, <4>1
        <4> HIDE DEF T
        <4> QED BY <3>1, <4>2
      <3>3. DOMAIN U = 1..N /\ Len(U) = N
        <4> HIDE DEF U, N
        <4>1. N \in Nat
          BY <2>1
        <4> QED BY <3>1, <4>1
      <3> QED BY <3>2, <3>3
    <2>5. CASE \E j \in 1..N : T[j] = No
      <3>1. c = No
        BY <2>3, <2>5 DEF CoerceList
      <3>2. \E i \in DOMAIN U : U[i] = No
        <4>1. PICK j \in 1..N : T[j] = No
          BY <2>5
        <4>2. PICK i \in 1..N : p[i] = j
          BY <2>2
        <4> HIDE DEF T, U, N
        <4> QED BY <2>4, <4>1, <4>2
      <3>3. d = No
        BY <3>2 DEF CoerceList
      <3> QED BY <3>1, <3>3
    <2>6. CASE \A j \in 1..N : T[j] # No
      <3>1. \A j \in 1..N : Atomic(T[j]) /\ T[j].kind \in Kinds
        BY <2>1, <2>3, <2>6, OperandFields DEF Kinds
      <3>2. \A i \in 1..N : Atomic(U[i]) /\ U[i].kind \in Kinds
        BY <2>2, <2>4, <3>1
      <3> HIDE DEF T, U, N
      <3>3. c # No => Atomic(c) /\ c.kind \in Kinds
        BY <2>1, <2>3, <3>1, FoldKeeps
      <3>4. d # No => Atomic(d) /\ d.kind \in Kinds
        BY <2>1, <2>4, <3>2, FoldKeeps
      <3>5. ASSUME NEW u, Atomic(u), u.kind \in Kinds
            PROVE  Below(c, u) <=> Below(d, u)
        <4>1. Below(c, u) <=> \A j \in 1..N : Below(T[j], u)
          BY <2>1, <2>3, <3>1, <3>5, FoldIsLeast
        <4>2. Below(d, u) <=> \A i \in 1..N : Below(U[i], u)
          BY <2>1, <2>4, <3>2, <3>5, FoldIsLeast
        <4>3. ASSUME \A i \in 1..N : Below(U[i], u), NEW j \in 1..N PROVE Below(T[j], u)
          <5>1. PICK i \in 1..N : p[i] = j
            BY <2>2
          <5> QED BY <2>4, <4>3, <5>1
        <4>4. ASSUME \A j \in 1..N : Below(T[j], u), NEW i \in 1..N PROVE Below(U[i], u)
          <5>1. p[i] \in 1..N
            BY <2>2
          <5> QED BY <2>4, <4>4, <5>1
        <4> QED BY <4>1, <4>2, <4>3, <4>4
      <3> HIDE DEF c, d
      <3>6. \A u : Below(u, u)
        BY DEF Below
      <3>7. \A u : Atomic(u) => ~Below(No, u)
        BY DEF Below, Atomic, No, Type, Undecimal, Numeric
      <3>8. c = No <=> d = No
        BY <3>3, <3>4, <3>5, <3>6, <3>7
      <3>9. c # No => c = d
        BY <3>3, <3>4, <3>5, <3>6, <3>8, BelowEachOther
      <3> QED BY <3>8, <3>9 DEF c, d, T, U
    <2> QED BY <2>5, <2>6
  <1> QED BY <1>1, Invariance, PTL

===============================================================================
