---------------------------- MODULE MCSchemaImport ----------------------------
(***************************************************************************)
(* Three files and a session for SchemaImport and SchemaMeaning.           *)
(***************************************************************************)
EXTENDS SchemaMeaning

CONSTANTS main, mid, low, base,   \* files, and how they are imported
          T, U,                   \* declarations
          int, string             \* types

Use(x, list, items, export) ==
    [op |-> "import", from |-> x, list |-> list, items |-> items, export |-> export]
Let(k, x, p, l, extern, export) ==
    [op |-> "def", kind |-> k, name |-> x, path |-> p, lit |-> l,
     extern |-> extern, export |-> export]
Type(x, p, l, export) == Let("type", x, p, l, FALSE, export)
Expr(x, p, l, export) == Let("expr", x, p, l, FALSE, export)

MCRoot == main
MCFile == {main, mid, low, base}
MCName == {mid, base, T, U}
\* mid is in a folder with another file that it calls base.
MCResolves == [f \in MCFile |-> [x \in MCName |->
    IF x = mid THEN mid ELSE IF x = base THEN IF f = mid THEN low ELSE base ELSE main]]
MCBuiltin == {[kind |-> "type", name |-> U]}
MCLit == MCBuiltin \cup {int, string}

MCTexts == [f \in MCFile |->
    CASE f = main -> {Missing}
      [] f = mid ->
         { Broken,
           <<Type(T, <<>>, int, TRUE), Type(U, <<T>>, int, FALSE)>>,
           <<Type(T, <<base, T>>, int, TRUE), Use(base, "none", <<>>, TRUE)>>,
           <<Use(base, "star", <<>>, TRUE), Type(U, <<T>>, int, TRUE)>>,
           <<Use(base, "items", <<T, U>>, TRUE), Use(base, "none", <<>>, FALSE)>>,
           <<Expr(T, <<>>, int, TRUE), Type(T, <<T>>, int, TRUE)>> }
      [] f = low ->
         { Missing,
           <<Type(T, <<U>>, int, TRUE), Type(U, <<>>, string, TRUE)>>,
           <<Type(T, <<T>>, int, TRUE), Expr(U, <<>>, string, TRUE)>>,
           <<Type(T, <<U>>, int, FALSE)>>,
           <<Use(mid, "none", <<>>, TRUE)>>,
           <<Let("expr", T, <<>>, int, TRUE, TRUE)>> }
      [] f = base ->
         { Broken,
           <<Type(T, <<>>, int, TRUE), Expr(U, <<>>, int, TRUE)>>,
           <<Use(mid, "items", <<T>>, TRUE)>> } ]

MCInputs ==
    { <<Use(mid, "none", <<>>, FALSE), Type(T, <<mid, T>>, int, FALSE)>>,
      <<Type(U, <<mid, base, U>>, int, FALSE), Use(mid, "none", <<>>, FALSE)>>,
      <<Use(mid, "star", <<>>, FALSE), Type(T, <<>>, string, FALSE)>>,
      <<Use(mid, "star", <<>>, FALSE), Type(U, <<base, T>>, int, FALSE)>>,
      <<Use(mid, "items", <<T, base>>, FALSE), Expr(T, <<>>, string, FALSE)>>,
      <<Use(base, "items", <<U, U>>, FALSE)>>,
      <<Expr(T, <<U>>, int, FALSE), Use(base, "star", <<>>, FALSE),
        Expr(T, <<>>, string, FALSE)>> }
===============================================================================
