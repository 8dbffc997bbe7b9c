-------------------------------- MODULE Inlining -------------------------------
(***************************************************************************)
(* inline_params (compile/inline.rs): the params of a query that are SQL   *)
(* are written into its body, and a materialization is read as a table of  *)
(* its declaration's name, when everything belongs to one database.  The   *)
(* expressions are the records that RuntimeEval evaluates; schema entries  *)
(* are already replaced by what they stand for.  Placeholders are numbers, *)
(* in the order of their names.                                            *)
(***************************************************************************)
EXTENDS Naturals, FiniteSets

CONSTANT NoUrl   \* "no database of its own"

Sql(u, ts, ps) == [op |-> "sql", url |-> u, tables |-> ts, holes |-> DOMAIN ps, params |-> ps]
Mat(k, n, u, e) ==
  [op |-> "mat", key |-> k, name |-> n, url |-> u, inlined |-> FALSE, inner |-> e]
Load(s) == [op |-> "load", gives |-> s]
Call(as, b) == [op |-> "call", args |-> as, body |-> b]
Ref(l, e) == [op |-> "ref", name |-> l, of |-> e]

\* How many params of a param would be left.
Remaining(p) ==
  CASE p.op = "sql" -> Cardinality(DOMAIN p.params)
    [] p.op = "mat" -> 0
    [] OTHER        -> 1

UrlOf(p) == IF p.op \in {"sql", "mat"} THEN p.url ELSE NoUrl

\* The databases of a query and its params.
Conns(e, ps) == ({e.url} \cup {UrlOf(ps[l]) : l \in DOMAIN ps}) \ {NoUrl}

CanInlineTables(e, ps) ==
  /\ \A l \in DOMAIN ps : Remaining(ps[l]) = 0
  /\ Cardinality(Conns(e, ps)) <= 1

\* A query whose params were inlined to ps.  Every param keeps itself or, when it
\* is pasted, gives its own params; of two under one placeholder the later stays.
InlineSql(e, ps) ==
  LET can     == CanInlineTables(e, ps)
      pasted  == {l \in DOMAIN ps : ps[l].op = "sql" /\ (ps[l].url = NoUrl \/ can)}
      named   == {l \in DOMAIN ps : ps[l].op = "mat" /\ can}
      kept(l) ==
        CASE l \in pasted      -> {<<l, m, ps[l].params[m]>> : m \in DOMAIN ps[l].params}
          [] ps[l].op = "mat"  -> {<<l, l, [ps[l] EXCEPT !.inlined = can]>>}
          [] OTHER             -> {<<l, l, ps[l]>>}
      params  == UNION {kept(l) : l \in DOMAIN ps}
      last(m) == CHOOSE p \in {p \in params : p[2] = m} :
                   \A q \in params : q[2] = m => q[1] <= p[1]
      read    == e.holes \cap pasted
  IN  [e EXCEPT
        !.url    = IF ~can THEN @
                   ELSE IF Conns(e, ps) = {} THEN NoUrl
                   ELSE CHOOSE u \in Conns(e, ps) : TRUE,
        !.tables = @ \cup {ps[l].name : l \in e.holes \cap named}
                     \cup UNION {ps[b].tables : b \in read},
        !.holes  = (@ \ (pasted \cup named)) \cup UNION {ps[b].holes : b \in read},
        !.params = [m \in {p[2] : p \in params} |-> last(m)[3]]]

\* A materialization whose expression was inlined to i takes its database.
InlineMat(e, i) ==
  [e EXCEPT !.inner = i, !.url = IF @ # NoUrl THEN @ ELSE UrlOf(i)]

RECURSIVE Inline(_)
Inline(e) ==
  CASE e.op = "sql"  -> InlineSql(e, [l \in DOMAIN e.params |-> Inline(e.params[l])])
    [] e.op = "mat"  -> InlineMat(e, Inline(e.inner))
    [] e.op = "call" -> [e EXCEPT !.args = [l \in DOMAIN @ |-> Inline(@[l])],
                                  !.body = Inline(@)]
    [] OTHER         -> e

\* What an expression stands for: base gives the rows of the databases' own
\* tables; any other table a query names is one of its materializations.
RECURSIVE Meaning(_, _)
Meaning(base, e) ==
  CASE e.op = "sql"  ->
         UNION ({Meaning(base, e.params[l]) : l \in e.holes} \cup
                {IF \E l \in DOMAIN e.params : e.params[l].op = "mat" /\ e.params[l].name = n
                 THEN UNION {Meaning(base, e.params[l]) :
                               l \in {m \in DOMAIN e.params :
                                        e.params[m].op = "mat" /\ e.params[m].name = n}}
                 ELSE base[e.url][n] : n \in e.tables})
    [] e.op = "mat"  -> Meaning(base, e.inner)
    [] e.op = "load" -> e.gives
    [] e.op = "call" -> Meaning(base, e.body)
    [] e.op = "ref"  -> Meaning(base, e.of)

\* The arguments that an expression refers to and does not bind.
RECURSIVE Unbound(_)
Unbound(e) ==
  CASE e.op = "sql"  -> UNION {Unbound(e.params[l]) : l \in DOMAIN e.params}
    [] e.op = "mat"  -> Unbound(e.inner)
    [] e.op = "call" -> UNION {Unbound(e.args[l]) : l \in DOMAIN e.args}
    [] e.op = "ref"  -> {e}
    [] OTHER         -> {}

\* An expression and every one inside it.
RECURSIVE Inside(_)
Inside(e) ==
  {e} \cup
  CASE e.op = "sql"  -> UNION {Inside(e.params[l]) : l \in DOMAIN e.params}
    [] e.op = "mat"  -> Inside(e.inner)
    [] e.op = "call" -> Inside(e.body) \cup UNION {Inside(e.args[l]) : l \in DOMAIN e.args}
    [] e.op = "ref"  -> Inside(e.of)
    [] OTHER         -> {}
================================================================================
