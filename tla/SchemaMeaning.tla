----------------------------- MODULE SchemaMeaning -----------------------------
(***************************************************************************)
(* What programs mean, said without schemas, cells or an order of          *)
(* statements, and that the compiler of SchemaImport finds that.           *)
(***************************************************************************)
EXTENDS SchemaImport

\* A statement stands in an input of the session, or in a file (input 0).
Session(j) == [file |-> Root, input |-> j]
TextOf(f) == [file |-> f, input |-> 0]
Places == {TextOf(f) : f \in File} \cup {Session(j) : j \in 1..Len(schemas[1].said)}

\* The statements that are seen at a place: an input sees those before it.
Statements(prog, p) == {[at |-> p, says |-> prog[n]] : n \in 1..Len(prog)}
Stated(p) ==
    IF p.input = 0
    THEN IF text[p.file] \in {Missing, Broken, Unread} THEN {} ELSE Statements(text[p.file], p)
    ELSE UNION {Statements(schemas[1].said[j], Session(j)) : j \in 1..p.input}
Statement == UNION {Stated(p) : p \in Places}

\* What a leads to: every set that contains a, and what its elements lead to, contains it.
Reached(edges, a) ==
    LET all == {a} \cup {e[2] : e \in edges} IN
    {b \in all : \A Z \in SUBSET all :
        a \in Z /\ (\A e \in edges : e[1] \in Z => e[2] \in Z) => b \in Z}

\* An import of declarations passes x on from the statements of the other file.
Listed(s, x, public) ==
    \/ s.list = "star" /\ public
    \/ s.list = "items" /\ \E n \in 1..Len(s.items) : s.items[n] = x
Passes(x) ==
    UNION {{<<a, b>> : b \in {o \in Stated(TextOf(Resolves[a.at.file][a.says.from])) :
                                Listed(a.says, x, o.says.export)}} :
              a \in {o \in Statement : o.says.op = "import"}}

\* What is declared as x at a place, and by which statement in the end.
Origin(s, k, x) ==
    IF s.op = "def" THEN s.kind = k /\ s.name = x
    ELSE s.list = "none" /\ k = "schema" /\ s.from = x
Declares(p, k, x) ==
    UNION {{[public |-> a.says.export, by |-> b] :
                b \in {o \in Reached(Passes(x), a) : Origin(o.says, k, x)}} : a \in Stated(p)}

\* A path is a name looked up in the file that the names before it lead to.
Walks(p, path) ==
    {w \in [1..Len(path) -> Places] :
        /\ w[1] = p
        /\ \A i \in 1..Len(path) - 1 : w[i + 1] = TextOf(Resolves[w[i].file][path[i]])}
Open(d, i) == i = 1 \/ d.public
Follows(p, k, x, i) ==
    Declares(p, k, x) = {} /\ \E d \in Declares(p, "schema", x) : Open(d, i)
Finds(p, k, x, i) ==
    LET own == Declares(p, k, x) IN
    {d.by : d \in {o \in own : Open(o, i)}}
    \cup {b \in Builtin : /\ own = {} /\ Declares(p, "schema", x) = {}
                         /\ b = [kind |-> k, name |-> x]}
Refers(p, k, path) ==
    UNION {Finds(w[Len(path)], k, path[Len(path)], Len(path)) :
              w \in {v \in Walks(p, path) :
                        \A i \in 1..Len(path) - 1 : Follows(v[i], k, path[i], i)}}

\* A definition means what the definitions that it refers to say in the end.
References ==
    UNION {{<<a, t>> : t \in Refers(a.at, a.says.kind, a.says.path)} :
              a \in {o \in Statement : o.says.op = "def" /\ o.says.path # <<>>}}
Meanings(refs, a) ==
    {l \in Lit : \E t \in Reached(refs, a) :
        \/ t \in Builtin /\ l = t
        \/ t \in Statement /\ t.says.path = <<>> /\ l = t.says.lit}

PlaceOf(c, j) == IF c = 1 THEN Session(j) ELSE TextOf(schemas[c].file)
OwnCellOf(c, s) == [at |-> c, kind |-> s.kind, name |-> s.name]

\* After a compilation without errors, each definition of a schema is what the reference
\* says: what a name means does not depend on the order of statements, on which file was
\* compiled first or how often, nor on imports that failed and were tried again.  Only
\* a schema with errors can give a meaning to a type that has none (type T = T), or change
\* that of an expression.
Errors == \/ \E c \in 1..Len(schemas) : schemas[c].result = "bad"
          \/ \E j \in 1..Len(stack) : stack[j].errs # {}
Said(c, j) == {schemas[c].said[j][n] : n \in 1..Len(schemas[c].said[j])}
MeansWhatItSays ==
    LET refs == References IN
    \A c \in 1..Len(schemas) : schemas[c].result = "ok" =>
        \A j \in 1..Len(schemas[c].said) : \A s \in Said(c, j) : s.op = "def" =>
            LET is == {val[OwnCellOf(c, s)]} \cap Lit
                says == Meanings(refs, [at |-> PlaceOf(c, j), says |-> s])
            IN is = says \/ (Errors /\ (says = {} \/ s.kind = "expr"))

-------------------------------------------------------------------------------
\* Why that is so: the inductive invariant, which speaks of schemas.  A schema of a file
\* holds the text of the file, and a call works on what was said last, which has no result.
Ongoing == {stack[i] : i \in 1..Len(stack)}
TextsSaid ==
    /\ schemas[1].file = Root
    /\ \A c \in 2..Len(schemas) :
         /\ text[schemas[c].file] \notin {Missing, Broken, Unread}
         /\ schemas[c].said = <<text[schemas[c].file]>>
    /\ \A f \in Ongoing :
         LET said == schemas[f.at].said IN
         said # <<>> /\ f.prog = said[Len(said)] /\ schemas[f.at].result # "ok"

\* What statement s declares in schema c, once its import is there.
Bare(d) == [kind |-> d.kind, name |-> d.name, public |-> d.public, value |-> d.value]
As(s, d) == [kind |-> d.kind, name |-> d.name, public |-> s.export, value |-> d.value]
Imported(c, s) == s.op = "import" => schemas[c].imports[s.from] # 0
Makes(c, s) ==
    IF s.op = "def"
    THEN {[kind |-> s.kind, name |-> s.name, public |-> s.export, value |-> OwnCellOf(c, s)]}
    ELSE IF s.list = "none"
    THEN {[kind |-> "schema", name |-> s.from, public |-> s.export, value |-> s.from]}
    ELSE IF schemas[c].imports[s.from] = 0 THEN {}
    ELSE {As(s, d) : d \in {e \in schemas[schemas[c].imports[s.from]].decls :
                               Listed(s, e.name, e.public)}}

\* Nothing has gone wrong in schema c; the statements of input j that it has declared, and
\* those that it has compiled.
Clean(c) == schemas[c].result # "bad" /\ \A f \in Ongoing : f.at = c => f.errs = {}
HasDecl(f, j, n) == j < Len(schemas[f.at].said) \/ f.phase # "declare" \/ n < f.n
HasDone(f, j, n) ==
    \/ j < Len(schemas[f.at].said) \/ f.phase = "gather"
    \/ f.phase = "compile" /\ n < f.n
DeclaredIn(c, j) ==
    {schemas[c].said[j][n] : n \in {m \in 1..Len(schemas[c].said[j]) :
                                      \A f \in Ongoing : f.at = c => HasDecl(f, j, m)}}
CompiledIn(c, j) ==
    {schemas[c].said[j][n] : n \in {m \in 1..Len(schemas[c].said[j]) :
                                      \A f \in Ongoing : f.at = c => HasDone(f, j, m)}}

\* The declarations of a schema are those that its statements make, one for a name.
DeclsFit ==
    \A c \in 1..Len(schemas) :
        /\ \A d, e \in schemas[c].decls : d.kind = e.kind /\ d.name = e.name => d = e
        /\ \A d \in schemas[c].decls :
             IF d.kind = "schema" THEN d.value = d.name
             ELSE d.value \in Cell /\ d.value.kind = d.kind
DeclsMade ==
    \A c \in 1..Len(schemas) : \A d \in schemas[c].decls :
        \E j \in 1..Len(schemas[c].said) : \E s \in Said(c, j) : Bare(d) \in Makes(c, s)
Keeps(c, s) ==
    /\ Imported(c, s)
    /\ \A m \in Makes(c, s) : \E d \in schemas[c].decls : Bare(d) = m
DeclsKept ==
    \A c \in 1..Len(schemas) : Clean(c) =>
        \A j \in 1..Len(schemas[c].said) : \A s \in DeclaredIn(c, j) : Keeps(c, s)

\* No name is defined twice: the definition whose name is added is the first one.
Twin(s, t) == s.op = "def" /\ t.op = "def" /\ s.kind = t.kind /\ s.name = t.name
DeclsOnce ==
    \A c \in 1..Len(schemas) : Clean(c) =>
        \A i, j \in 1..Len(schemas[c].said) :
            \A s \in DeclaredIn(c, i), t \in DeclaredIn(c, j) : Twin(s, t) => i = j /\ s = t
Alone(f) ==
    f.step = "add" /\ f.got = {} /\ f.prog[f.n].op = "def" /\ Clean(f.at) =>
        \A j \in 1..Len(schemas[f.at].said) : \A t \in DeclaredIn(f.at, j) :
            ~Twin(t, f.prog[f.n])

\* What a statement that is being declared has collected, and what it looks at for that.
Source(f) == schemas[schemas[f.at].imports[f.prog[f.n].from]].decls
Collects(f) ==
    LET s == f.prog[f.n] IN
    /\ \A e \in f.got : As(s, e) \in Makes(f.at, s)
    /\ f.step = "add" =>
         /\ Imported(f.at, s)
         /\ \A m \in Makes(f.at, s) :
              (\E d \in schemas[f.at].decls : Bare(d) = m) \/ \E e \in f.got : As(s, e) = m
    /\ f.step = "items" =>
         /\ s.list = "items"
         /\ \A i \in 1..Len(s.items), k \in 1..3 :
              i < f.item \/ (i = f.item /\ k < f.k) =>
                  \A d \in Source(f) : d.kind = Kinds[k] /\ d.name = s.items[i] =>
                      \E e \in f.got : As(s, e) = As(s, d)
LooksForItem(f) ==
    LET s == f.prog[f.n]
        source == {d \in Source(f) : d.kind = Kinds[f.k] /\ d.name = s.items[f.item]}
    IN /\ f.look.st = "going" =>
            /\ f.look.kind = Kinds[f.k] /\ f.look.path = <<s.items[f.item]>> /\ f.look.i = 1
            /\ ~f.look.global /\ f.look.at = schemas[f.at].imports[s.from]
       /\ f.look.st = "found" => /\ f.look.kind = Kinds[f.k]
                                 /\ \E d \in source : d.value = f.look.value
       /\ f.look.st = "error" => source = {}
Collected ==
    \A f \in Ongoing : f.phase = "declare" =>
        /\ IF f.step = "start" THEN f.item = 1 /\ f.k = 1 /\ f.got = {} ELSE Collects(f)
        /\ f.look.st # "idle" => LooksForItem(f)
        /\ Alone(f)

\* The walk along a path from input j of schema c, and what it finds.
Lacks(c, j, k, x) ==
    \A i \in 1..j : \A s \in Said(c, i) : \A d \in Makes(c, s) : ~(d.kind = k /\ d.name = x)
Shows(c, j, k, x, m, v) ==
    \E i \in 1..j : \E s \in Said(c, i) : \E d \in Makes(c, s) :
        d.kind = k /\ d.name = x /\ d.value = v /\ Open(d, m)
GoesOn(c, j, k, x, m, b) ==
    Lacks(c, j, k, x) /\ Shows(c, j, "schema", x, m, x) /\ b # 0 /\ b = schemas[c].imports[x]
InputAt(j, i) == IF i = 1 THEN j ELSE 1
Leads(c, j, k, path, i, a) ==
    \E w \in [1..i -> 1..Len(schemas)] :
        /\ w[1] = c /\ w[i] = a
        /\ \A m \in 1..i - 1 : GoesOn(w[m], InputAt(j, m), k, path[m], m, w[m + 1])
Ends(c, j, k, x, m, v) ==
    \/ Shows(c, j, k, x, m, v)
    \/ /\ Lacks(c, j, k, x) /\ Lacks(c, j, "schema", x)
       /\ v \in Builtin /\ v = [kind |-> k, name |-> x]
RefersTo(c, j, k, path, v) ==
    LET i == Len(path) IN
    \E a \in 1..Len(schemas) : Leads(c, j, k, path, i, a) /\ Ends(a, InputAt(j, i), k, path[i], i, v)

LooksForPath(f) ==
    LET s == f.prog[f.n]
        j == Len(schemas[f.at].said)
    IN /\ f.look.st # "idle" => f.n <= Len(f.prog) /\ s.op = "def" /\ s.path # <<>>
       /\ f.look.st = "going" =>
            /\ f.look.path = s.path /\ f.look.kind = s.kind /\ f.look.global
            /\ Clean(f.at) => Leads(f.at, j, s.kind, s.path, f.look.i, f.look.at)
       /\ f.look.st = "found" /\ Clean(f.at) => RefersTo(f.at, j, s.kind, s.path, f.look.value)
Looks == \A f \in Ongoing : f.phase = "compile" => LooksForPath(f)

\* What a definition that is compiled refers to, and that it means the same: the cells
\* solve the equations that the definitions are, and without errors they do no more.
Target(c, j, s) ==
    {v \in Cell \cup Lit :
        IF s.path = <<>> THEN v = s.lit ELSE RefersTo(c, j, s.kind, s.path, v)}
SolvedBy(c, s, v) == s.kind = "type" \/ ~Errors => val[OwnCellOf(c, s)] = Meaning(v)
Solved ==
    \A c \in 1..Len(schemas) : Clean(c) =>
        \A j \in 1..Len(schemas[c].said) : \A s \in CompiledIn(c, j) :
            s.op = "def" => \E v \in Target(c, j, s) : SolvedBy(c, s, v)
Targets ==
    {e \in Cell \X (Cell \cup Lit) :
        \E c \in 1..Len(schemas) : \E j \in 1..Len(schemas[c].said) : \E s \in CompiledIn(c, j) :
            s.op = "def" /\ e[1] = OwnCellOf(c, s) /\ e[2] \in Target(c, j, s)}
Grounded == ~Errors => \A t \in Cell : val[t] \in Reached(Targets, t)

MInv == /\ TextsSaid /\ DeclsFit /\ DeclsMade /\ DeclsKept /\ DeclsOnce /\ Collected
        /\ Looks /\ Solved /\ Grounded
===============================================================================
