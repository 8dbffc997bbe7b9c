----------------------------- MODULE MCRuntimeEval -----------------------------
(***************************************************************************)
(* RuntimeEval over small files: a declaration 1 that is a table b of      *)
(* database X or a load, a declaration 2 over it and a declaration 3 over  *)
(* both, each a query or another name, materialized or not, and one or two *)
(* expressions to evaluate; the declarations are in the file, or in a      *)
(* schema it imports, whose expressions are inlined again with the file's. *)
(***************************************************************************)
EXTENDS RuntimeEval, Inlining

CONSTANTS X, Y   \* two databases

MCName == {"b", "d1", "d2", "d3"}
MCSource == {"rows of b", "rows of a file"}
MCUrl == {NoUrl, X, Y}
MCBase == [u \in MCUrl |-> IF u = X THEN [n \in {"b"} |-> {"rows of b"}] ELSE [n \in {} |-> {}]]

\* Placeholders are numbered by what refers and what is referred to.
Uses(owner, S, decls) == [l \in {10 * owner + d : d \in S} |-> decls[l - 10 * owner]]

Over(owner, S, decls) == Sql(NoUrl, {}, Uses(owner, S, decls))

\* A load, and a query of one.
File == Load({"rows of a file"})
With(owner, e) == Sql(NoUrl, {}, [l \in {10 * owner} |-> e])

\* A function of one argument whose body reads it and a declaration, called
\* with one.
Calls(owner, a, d, decls) ==
  Call([l \in {10 * owner} |-> decls[a]],
       Sql(NoUrl, {}, [l \in {10 * owner + 8, 10 * owner + 9} |->
                        IF l = 10 * owner + 8 THEN Ref(10 * owner, decls[a]) ELSE decls[d]]))

Declared(form, owner, e) ==
  CASE form = "let"     -> e
    [] form = "mat"     -> Mat(owner, IF owner = 2 THEN "d2" ELSE "d3", NoUrl, e)
    [] form = "mat b"   -> Mat(owner, "b", NoUrl, e)
    [] form = "mat X"   -> Mat(owner, IF owner = 2 THEN "d2" ELSE "d3", X, e)
    [] form = "mat Y"   -> Mat(owner, IF owner = 2 THEN "d2" ELSE "d3", Y, e)

\* Each thing there is to choose about a file, as a sequence of its choices.
First == <<Sql(X, {"b"}, [l \in {} |-> {}]), File, Mat(1, "d1", NoUrl, With(1, File))>>

Second(d1) == LET of == <<d1, Over(2, {1}, <<d1>>)>>
              IN  [i \in 1..6 |-> Declared(<<"let", "mat", "mat X">>[(i + 1) \div 2], 2, of[1 + (i % 2)])]

Third(ds) ==
  LET of == <<ds[2], Over(3, {1}, ds), Over(3, {2}, ds), Over(3, {1, 2}, ds), Calls(3, 2, 2, ds),
            Sql(NoUrl, {}, [l \in {30, 32} |-> IF l = 30 THEN File ELSE ds[2]])>>
  IN  [i \in 1..30 |-> Declared(<<"let", "mat", "mat b", "mat X", "mat Y">>[(i + 5) \div 6], 3, of[1 + (i % 6)])]

Expression(owner, ds) ==
  <<Over(owner, {2}, ds), Over(owner, {3}, ds), Over(owner, {1, 3}, ds),
    Over(owner, {2, 3}, ds), Calls(owner, 2, 3, ds)>>

Compiled(ts) == [i \in DOMAIN ts |-> Inline(ts[i])]

Declarations ==
  [a \in 1..3 |-> [b \in 1..6 |-> [c \in 1..30 |->
    LET d2 == Second(First[a])[b]
    IN  <<First[a], d2, Third(<<First[a], d2>>)[c]>>]]]

Text(ds, s, t) == <<Expression(4, ds)[s]>> \o (IF t = 0 THEN <<>> ELSE <<Expression(5, ds)[t]>>)

\* By the choices of a file, the expressions it evaluates once compiled.
Code ==
  [a \in 1..3 |-> [b \in 1..6 |-> [c \in 1..30 |-> [imported \in {0, 1} |->
    LET ds == IF imported = 1 THEN Compiled(Declarations[a][b][c]) ELSE Declarations[a][b][c]
    IN  [s \in 1..5 |-> [t \in 0..5 |-> Compiled(Text(ds, s, t))]]]]]]

MCProgram == (1..3) \X (1..6) \X (1..30) \X {0, 1} \X (1..5) \X (0..5)

MCTops(p) == Code[p[1]][p[2]][p[3]][p[4]][p[5]][p[6]]
MCNodes(p) == UNION {Inside(MCTops(p)[i]) : i \in DOMAIN MCTops(p)}
MCMeans(e) == Meaning(MCBase, e)
MCRank(e) == LET keys == {m.key : m \in {m \in Inside(e) : m.op = "mat"}}
             IN  IF keys = {} THEN 0 ELSE CHOOSE k \in keys : \A j \in keys : j <= k
MCFree(e) == Unbound(e)
MCKey == 1..3

\* Inlining keeps what the expressions of a file stand for, once and again.
ASSUME InliningKeepsMeaning ==
  \A p \in MCProgram :
    LET written == Text(Declarations[p[1]][p[2]][p[3]], p[5], p[6])
    IN  Clean(p) => \A i \in DOMAIN written : Means(Tops(p)[i]) = Means(written[i])
================================================================================
