----------------------------- MODULE SchemaImport -----------------------------
(***************************************************************************)
(* How a schema declares its names, imports those of other files and finds *)
(* what a path refers to (compile/compile.rs, compile/schema.rs).          *)
(*                                                                         *)
(* A file is compiled in the middle of the statement that needs it, by     *)
(* calls nested in one another: stack holds them, innermost first.  Each   *)
(* call works on a schema of its own, so a file that two others import is  *)
(* compiled twice; only its text is shared.  A session (the REPL) compiles *)
(* one input after the other on schema 1, a file is a session of one       *)
(* input.  A program is a sequence of statements:                          *)
(*                                                                         *)
(*   [op |-> "import", from, list, items, export]                          *)
(*   [op |-> "def", kind, name, path, lit, extern, export]                 *)
(*                                                                         *)
(* where a definition either refers to a path or, if that is empty, says   *)
(* what it is (lit: a record type, a literal, a query).  Functions, whose  *)
(* bodies have scopes of their own, and connections are left out.          *)
(***************************************************************************)
EXTENDS Naturals, Sequences

CONSTANTS
    File, Root,      \* files; the one that the session stands for
    Name,            \* identifiers; an import's path is one name
    Resolves,        \* Resolves[f][x]: the file that f means by path x
    Texts,           \* Texts[f]: what file f may hold when it is first read
    Missing, Broken, \* no such file; a text that does not parse
    Unread,          \* a text that the compiler has not read yet
    Inputs,          \* programs given to the session
    Builtin,         \* declarations of GLOBAL_SCHEMA: [kind, name]
    Lit,             \* what a definition can say; contains Builtin
    MaxSchema,       \* bound on schemas, which nest without end on a cycle
    MaxInputs        \* bound on inputs of a session

Kinds == <<"schema", "type", "expr">>       \* in the order of lines 1190-1229
Kind == {"schema", "type", "expr"}
Cell == [at : 1..MaxSchema, kind : {"type", "expr"}, name : Name]

\* What a name stands for: a path to import, or a cell.
Decl == [kind : {"schema"}, name : Name, public : BOOLEAN, extern : BOOLEAN, value : Name]
   \cup [kind : {"type", "expr"}, name : Name, public : BOOLEAN, extern : BOOLEAN,
         value : Cell \cup Lit]

Import == [op : {"import"}, from : Name, list : {"none", "star", "items"},
           items : Seq(Name), export : BOOLEAN]
Def == [op : {"def"}, kind : {"type", "expr"}, name : Name, path : Seq(Name),
        lit : Lit, extern : BOOLEAN, export : BOOLEAN]
Program == Seq(Import \cup Def)

ASSUME ImportAssumption ==
    /\ Root \in File /\ Name # {}
    /\ Resolves \in [File -> [Name -> File]]
    /\ {Missing, Broken, Unread} \cap Program = {}
    /\ Missing # Broken /\ Missing # Unread /\ Broken # Unread
    /\ DOMAIN Texts = File
    /\ \A f \in File : Texts[f] \subseteq Program \cup {Missing, Broken}
    /\ Inputs \subseteq Program
    /\ Builtin \subseteq Lit \cap [kind : {"type", "expr"}, name : Name]
    /\ Lit \cap Cell = {}
    /\ MaxSchema \in Nat \ {0} /\ MaxInputs \in Nat

VARIABLES
    text,      \* CompilerData.files
    schemas,   \* every Ref<Schema>, in the order of creation
    val,       \* val[c]: the class of cell c, or what it was unified with
    stack,     \* calls of compile_schema_ast, innermost first
    inputs,    \* inputs begun
    late       \* a task that drive will join ends with an error

vars == <<text, schemas, val, stack, inputs, late>>

Idle == [st |-> "idle"]
Going(k, p, global, c) ==
    [st |-> "going", kind |-> k, path |-> p, global |-> global, at |-> c, i |-> 1]
Found(k, v) == [st |-> "found", kind |-> k, value |-> v]
NoSuchEntry == [st |-> "error"]

NewSchema(f, by, path) ==
    [file |-> f, by |-> by, path |-> path, decls |-> {}, said |-> <<>>,
     imports |-> [x \in Name |-> 0], result |-> "open"]

\* by, path: the schema and the path whose lookup made the call (0: the session)
Call(s, prog, by, path) ==
    [at |-> s, by |-> by, path |-> path, prog |-> prog, phase |-> "declare", n |-> 1,
     step |-> "start", item |-> 1, k |-> 1, got |-> {}, found |-> FALSE,
     missed |-> FALSE, look |-> Idle, errs |-> {}]

Init ==
    /\ text = [f \in File |-> Unread]
    /\ schemas = <<NewSchema(Root, 0, CHOOSE x \in Name : TRUE)>>
    /\ val = [c \in Cell |-> c]
    /\ stack = <<>> /\ inputs = 0 /\ late = FALSE

-------------------------------------------------------------------------------
Top == Head(stack)
Stmt == Top.prog[Top.n]
Here == schemas[Top.at]
Becomes(call) == stack' = <<call>> \o Tail(stack)

\* The loops over statements go on whether a statement failed or not.
NextStatement(errs) ==
    Becomes([Top EXCEPT !.n = @ + 1, !.step = "start", !.item = 1, !.k = 1, !.got = {},
                        !.found = FALSE, !.missed = FALSE, !.look = Idle,
                        !.errs = @ \cup errs])
Succeed == NextStatement({})

\* (mutants: the first error ends the loop; a statement that failed is tried again)
GiveUp == Becomes([Top EXCEPT !.n = Len(Top.prog) + 1, !.step = "start", !.look = Idle,
                              !.errs = @ \cup {Top.n}])
Retry == Becomes([Top EXCEPT !.step = "start", !.item = 1, !.k = 1, !.got = {},
                             !.found = FALSE, !.missed = FALSE, !.look = Idle])
Fail == NextStatement({Top.n})

At(phase) == stack # <<>> /\ Top.phase = phase /\ Top.n <= Len(Top.prog)

\* compile_schema_ast of an input of the session
Input(prog) ==
    /\ stack = <<>> /\ inputs < MaxInputs
    /\ inputs' = inputs + 1 /\ late' = FALSE
    /\ stack' = <<Call(1, prog, 0, CHOOSE x \in Name : TRUE)>>
    /\ schemas' = [schemas EXCEPT ![1].said = Append(@, prog),
                                  ![1].result = IF @ = "bad" THEN @ ELSE "open"]
    /\ UNCHANGED <<text, val>>

\* lookup_schema(c, x) where c has not imported x: open_file reads a file once, and
\* keeps its text before it is parsed; then compile_schema_from_file calls itself.
Enter(c, x) ==
    LET f == Resolves[schemas[c].file][x] IN
    /\ schemas[c].imports[x] = 0 /\ ~Top.missed
    /\ \E t \in IF text[f] = Unread THEN Texts[f] ELSE {text[f]} :
         /\ text' = IF t = Missing THEN text ELSE [text EXCEPT ![f] = t]
         /\ \/ /\ t \in {Missing, Broken}
               /\ Becomes([Top EXCEPT !.missed = TRUE])
               /\ UNCHANGED schemas
            \/ /\ t \notin {Missing, Broken}
               /\ Len(schemas) < MaxSchema
               /\ schemas' = Append(schemas, [NewSchema(f, c, x) EXCEPT !.said = <<t>>])
               /\ stack' = <<Call(Len(schemas) + 1, t, c, x)>> \o stack
    /\ UNCHANGED <<val, inputs, late>>

-------------------------------------------------------------------------------
\* lookup_path, one component of the path at a time.
Looking == stack # <<>> /\ Top.look.st = "going"
Look == Top.look
Ident == Look.path[Look.i]
Matches(k) == {d \in schemas[Look.at].decls : d.kind = k /\ d.name = Ident}

\* (mutant: what is not exported is seen as well)
Seen(d) == TRUE
Visible(d) == Look.i = 1 \/ d.public
Answer(a) == Becomes([Top EXCEPT !.look = a, !.missed = FALSE])

\* get_and_check finds a declaration of the kind that is asked for.  What is left of
\* the path refers to nothing (to a field of an expression, which is left out).
LookFinds ==
    /\ Looking
    /\ \E d \in Matches(Look.kind) :
         Answer(IF Visible(d) /\ Look.i = Len(Look.path) 
                THEN Found(d.kind, d.value) ELSE NoSuchEntry)
    /\ UNCHANGED <<text, schemas, val, inputs, late>>

\* It is a schema instead: import it, on behalf of the schema that declares it, and
\* go on there.
LookFollows ==
    /\ Looking
    /\ Matches(Look.kind) = {}
    /\ \E d \in Matches("schema") :
         \/ /\ ~Visible(d) \/ Top.missed
            /\ Answer(NoSuchEntry)
            /\ UNCHANGED <<text, schemas, val, inputs, late>>
         \/ Visible(d) /\ Enter(Look.at, d.value)
         \/ /\ Visible(d) /\ schemas[Look.at].imports[d.value] # 0
            /\ Answer(IF Look.i = Len(Look.path) THEN NoSuchEntry
                      ELSE [Look EXCEPT !.at = schemas[@].imports[d.value], !.i = @ + 1])
            /\ UNCHANGED <<text, schemas, val, inputs, late>>

\* It is nothing: the rest of the path is looked up among the builtins, wherever the
\* walk has come to.
LookFallsBack ==
    /\ Looking
    /\ Matches(Look.kind) = {} /\ Matches("schema") = {}
    /\ LET b == [kind |-> Look.kind, name |-> Ident] IN
       Answer(IF Look.global /\ b \in Builtin /\ Look.i = Len(Look.path)
              THEN Found(b.kind, b) ELSE NoSuchEntry)
    /\ UNCHANGED <<text, schemas, val, inputs, late>>

-------------------------------------------------------------------------------
\* declare_schema_entry.  What it declares is collected in got, then added.
Entry(k, x, extern, v, pos) ==
    [kind |-> k, name |-> x, extern |-> extern, value |-> v, pos |-> pos]
Adds(got) == Becomes([Top EXCEPT !.step = "add", !.got = got])

DeclareDef ==
    /\ At("declare") /\ Top.step = "start" /\ Stmt.op = "def"
    /\ Adds({Entry(Stmt.kind, Stmt.name, Stmt.extern,
                   [at |-> Top.at, kind |-> Stmt.kind, name |-> Stmt.name], 1)})
    /\ UNCHANGED <<text, schemas, val, inputs, late>>

DeclareImport ==
    /\ At("declare") /\ Top.step = "start" /\ Stmt.op = "import"
    /\ LET c == Here.imports[Stmt.from] IN
       \/ Enter(Top.at, Stmt.from)
       \/ Top.missed /\ Fail /\ UNCHANGED <<text, schemas, val, inputs, late>>
       \/ /\ c # 0
          /\ CASE Stmt.list = "none" -> Adds({Entry("schema", Stmt.from, FALSE, Stmt.from, 1)})
               [] Stmt.list = "star" -> Adds({Entry(d.kind, d.name, FALSE, d.value, 1) :
                                                d \in {e \in schemas[c].decls : e.public}})
               [] Stmt.list = "items" -> Becomes([Top EXCEPT !.step = "items"])
          /\ UNCHANGED <<text, schemas, val, inputs, late>>

\* import_named_decl of each item as each kind; found is set for the whole list.
AtItem == At("declare") /\ Top.step = "items" /\ Top.item <= Len(Stmt.items)
Item == Stmt.items[Top.item]

LookForItem ==
    /\ AtItem /\ Look = Idle
    /\ Answer(Going(Kinds[Top.k], <<Item>>, FALSE, Here.imports[Stmt.from]))
    /\ UNCHANGED <<text, schemas, val, inputs, late>>

ImportItem ==
    /\ AtItem /\ Look.st \in {"found", "error"}
    /\ LET found == Top.found \/ Look.st = "found"
           got == IF Look.st = "found"
                  THEN {Entry(Look.kind, Item, FALSE, Look.value, Top.item)} ELSE {}
       IN IF Top.k = 3 /\ ~found THEN Fail
          ELSE Becomes([Top EXCEPT !.got = @ \cup got, !.found = found, !.look = Idle,
                                   !.k = IF @ = 3 THEN 1 ELSE @ + 1,
                                   !.item = IF Top.k = 3 THEN @ + 1 ELSE @])
    /\ UNCHANGED <<text, schemas, val, inputs, late>>

ItemsDone ==
    /\ At("declare") /\ Top.step = "items" /\ Top.item > Len(Stmt.items)
    /\ Adds(Top.got)
    /\ UNCHANGED <<text, schemas, val, inputs, late>>

\* add_decls of the schemas, the types, the expressions: it stops at the first name
\* that is taken.  The order of the names of a star is left open.
Rank(k) == CHOOSE i \in 1..3 : Kinds[i] = k
NotAfter(e, o) == Rank(e.kind) < Rank(o.kind) \/ (e.kind = o.kind /\ e.pos <= o.pos)

\* (mutant: a name is declared again)
NeverTaken(e) == FALSE
Taken(e) == \E d \in Here.decls : d.kind = e.kind /\ d.name = e.name
Added(e) == [kind |-> e.kind, name |-> e.name, public |-> Stmt.export,
             extern |-> e.extern, value |-> e.value]

AddDecl ==
    /\ At("declare") /\ Top.step = "add"
    /\ \E e \in Top.got :
         /\ \A o \in Top.got : NotAfter(e, o)
         /\ \/ Taken(e) /\ Fail /\ UNCHANGED schemas
            \/ /\ ~Taken(e)
               /\ schemas' = [schemas EXCEPT ![Top.at].decls = @ \cup {Added(e)}]
               /\ Becomes([Top EXCEPT !.got = @ \ {e}])
    /\ UNCHANGED <<text, val, inputs, late>>

Declared ==
    /\ At("declare") /\ Top.step = "add" /\ Top.got = {}
    /\ Succeed
    /\ UNCHANGED <<text, schemas, val, inputs, late>>

-------------------------------------------------------------------------------
\* compile_schema_entry of every statement, of those too that were not declared.
CompileImport ==
    /\ At("compile") /\ Stmt.op = "import"
    /\ Succeed
    /\ UNCHANGED <<text, schemas, val, inputs, late>>

LookForPath ==
    /\ At("compile") /\ Stmt.op = "def" /\ Stmt.path # <<>> /\ Look = Idle
    /\ Answer(Going(Stmt.kind, Stmt.path, TRUE, Top.at))
    /\ UNCHANGED <<text, schemas, val, inputs, late>>

\* The cell that unify_type_decl and unify_expr_decl find under the statement's name.
Own == {d \in Here.decls : d.kind = Stmt.kind /\ d.name = Stmt.name}
Meaning(v) == IF v \in Cell THEN val[v] ELSE v

Merge(x, y) == IF x \in Cell THEN [c \in Cell |-> IF val[c] = x THEN y ELSE val[c]]
               ELSE [c \in Cell |-> IF val[c] = y THEN x ELSE val[c]]

\* Two known types unify if they are equal, and one that is not known becomes the other.
UnifyTypes(d, v) ==
    LET x == Meaning(d.value)
        y == Meaning(v)
    IN \/ x = y /\ Succeed /\ UNCHANGED <<val, late>>
       \/ x # y /\ {x, y} \subseteq Lit /\ Fail /\ UNCHANGED <<val, late>>
       \/ x # y /\ ~({x, y} \subseteq Lit) /\ Succeed /\ val' = Merge(x, y) /\ UNCHANGED late

\* An expression becomes what defines it first, which for a path is a reference that
\* follows its target (let a = a is taken for no definition).  A second definition fails,
\* or succeeds and fails a task, where the first is known only when drive runs: then
\* either of the two comes first.
UnifyExprs(d, v) ==
    LET x == Meaning(d.value)
        y == Meaning(v)
    IN \/ x = d.value /\ Succeed /\ val' = Merge(x, y) /\ UNCHANGED late
       \/ x # d.value /\ Fail /\ UNCHANGED <<val, late>>
       \/ x # d.value /\ Succeed /\ late' = TRUE /\ val' \in {val, [val EXCEPT ![d.value] = y]}

Unify(d, v) == IF Stmt.kind = "type" THEN UnifyTypes(d, v) ELSE UnifyExprs(d, v)

CompileDef ==
    /\ At("compile") /\ Stmt.op = "def"
    /\ \/ Stmt.path = <<>> /\ \E d \in Own : Unify(d, Stmt.lit)
       \/ Look.st = "found" /\ \E d \in Own : Unify(d, Look.value)
       \/ Look.st = "error" /\ Fail /\ UNCHANGED <<val, late>>
    /\ UNCHANGED <<text, schemas, inputs>>

-------------------------------------------------------------------------------
NextPhase(from, to) ==
    /\ stack # <<>> /\ Top.phase = from /\ Top.n > Len(Top.prog)
    /\ Becomes([Top EXCEPT !.phase = to, !.n = 1])
    /\ UNCHANGED <<text, schemas, val, inputs, late>>
EndDeclare == NextPhase("declare", "compile")
EndCompile == NextPhase("compile", "gather")

\* gather_schema_externs writes the schema that it holds for reading: with an extern
\* among the declarations the thread waits for itself.
Hangs == stack # <<>> /\ Top.phase = "gather" /\ \E d \in Here.decls : d.extern

Outcome == IF Top.errs = {} THEN "ok" ELSE "bad"

\* (mutants: what failed is kept as well; nothing is kept)
KeptAnyway(old) == Top.at
Forgotten(old) == old
Kept(old) == IF Outcome = "ok" THEN Top.at ELSE old

\* The end of compile_schema_ast: back in lookup_schema, which keeps what compiled
\* without an error, or in the session, which drives the tasks.
Return ==
    /\ stack # <<>> /\ Top.phase = "gather" /\ ~Hangs
    /\ IF Top.by = 0
       THEN /\ schemas' = [schemas EXCEPT ![1].result =
                             IF @ = "bad" \/ late THEN "bad" ELSE Outcome]
            /\ stack' = <<>>
       ELSE LET caller == stack[2] IN
            /\ schemas' =
                 [schemas EXCEPT ![Top.at].result = Outcome,
                                 ![Top.by].imports[Top.path] = Kept(@)]
            /\ stack' = <<[caller EXCEPT !.missed = (Outcome = "bad")]>> \o Tail(Tail(stack))
    /\ UNCHANGED <<text, val, inputs, late>>

Lookup == LookFinds \/ LookFollows \/ LookFallsBack
Declare == DeclareDef \/ DeclareImport \/ LookForItem \/ ImportItem \/ ItemsDone \/ AddDecl \/ Declared
Compile == CompileImport \/ LookForPath \/ CompileDef
Work == Lookup \/ Declare \/ Compile \/ EndDeclare \/ EndCompile \/ Return

Next == (\E prog \in Inputs : Input(prog)) \/ Work

Spec == Init /\ [][Next]_vars

\* The thread that compiles goes on as long as it can.
FairSpec == Spec /\ WF_vars(Work)

-------------------------------------------------------------------------------
Results == {"open", "ok", "bad"}
EntryType ==
    [kind : {"schema"}, name : Name, extern : BOOLEAN, value : Name, pos : Nat]
    \cup [kind : {"type", "expr"}, name : Name, extern : BOOLEAN, value : Cell \cup Lit, pos : Nat]
LookType ==
    {Idle, NoSuchEntry} \cup [st : {"found"}, kind : {"schema"}, value : Name]
    \cup [st : {"found"}, kind : {"type", "expr"}, value : Cell \cup Lit]
    \cup [st : {"going"}, kind : Kind, path : Seq(Name), global : BOOLEAN,
           at : 1..MaxSchema, i : Nat \ {0}]

SchemaType ==
    [file : File, by : 0..MaxSchema, path : Name, decls : SUBSET Decl, said : Seq(Program),
     imports : [Name -> 0..MaxSchema], result : Results]

CallType ==
    [at : 1..MaxSchema, by : 0..MaxSchema, path : Name, prog : Program,
     phase : {"declare", "compile", "gather"}, n : Nat \ {0},
     step : {"start", "items", "add"}, item : Nat \ {0}, k : 1..3, got : SUBSET EntryType,
     found : BOOLEAN, missed : BOOLEAN, look : LookType, errs : SUBSET Nat]

\* Types of the variables; a call's schema exists, and got and decls hold what a schema
\* may declare.
TypeOK ==
    /\ text \in [File -> Program \cup {Missing, Broken, Unread}]
    /\ schemas \in Seq(SchemaType) /\ Len(schemas) \in 1..MaxSchema
    /\ val \in [Cell -> Cell \cup Lit]
    /\ stack \in Seq(CallType) /\ \A j \in 1..Len(stack) : stack[j].at <= Len(schemas)
    /\ inputs \in Nat /\ late \in BOOLEAN

\* What a schema keeps as an import is the schema of the file that the path means there,
\* made for it, compiled to the end and without an error: lookup_schema inserts it only
\* after the call has come back, so half-declared schemas are never read.
ImportsAreSound ==
    \A c \in 1..Len(schemas) : \A x \in Name :
        LET d == schemas[c].imports[x] IN
        d # 0 => /\ d \in 1..Len(schemas) /\ d # c
                 /\ schemas[d].file = Resolves[schemas[c].file][x]
                 /\ schemas[d].by = c /\ schemas[d].path = x
                 /\ schemas[d].result = "ok"
                 /\ \A j \in 1..Len(stack) : stack[j].at # d

\* A statement that is compiled finds a declaration under its name, even if its own
\* declaration failed: "Could not find type declaration during reprocessing"
\* (compile/compile.rs:1293-1297) is not reachable.
OwnDeclared == At("compile") /\ Stmt.op = "def" => Own # {}

\* A schema compiles the file of a path once, errors aside: what failed is tried again
\* each time it is looked up, what succeeded never.
CompiledOnce ==
    \A c, d \in 2..Len(schemas) :
        /\ schemas[c].by = schemas[d].by /\ schemas[c].path = schemas[d].path
        /\ schemas[c].result = "ok" /\ schemas[d].result = "ok"
        => c = d

\* A schema gives a meaning to cells of another one only if it reports an error itself
\* (a definition whose name it has imported already): the cells are shared, not copied.
NoForeignDefinition ==
    [][\A c \in Cell : val[c] \notin Lit /\ val'[c] \in Lit /\ c.at # Top.at
           => Top.errs # {}]_vars

\* The session never ends in the middle: it comes back, unless it waits for a lock that
\* it holds (an extern) or compiles a file in the middle of compiling that file.
Recursive == \E i, j \in 1..Len(stack) :
                 i # j /\ schemas[stack[i].at].file = schemas[stack[j].at].file
CompilationEnds == stack # <<>> ~> stack = <<>> \/ Hangs \/ Recursive

-------------------------------------------------------------------------------
\* The inductive invariant.  A schema is made by a lookup in an older one.
Parents ==
    /\ schemas[1].by = 0
    /\ \A c \in 2..Len(schemas) :
         /\ schemas[c].by \in 1..(c - 1)
         /\ schemas[c].file = Resolves[schemas[schemas[c].by].file][schemas[c].path]
         /\ schemas[c].result = "ok" => schemas[schemas[c].by].imports[schemas[c].path] = c

\* Calls work on ever newer schemas, which are not imported by anyone yet.
Nested ==
    /\ \A i, j \in 1..Len(stack) : i < j => stack[i].at > stack[j].at
    /\ \A j \in 1..Len(stack) : LET f == stack[j] IN
         IF j = Len(stack) THEN f.at = 1 /\ f.by = 0
         ELSE /\ f.at > 1 /\ f.by >= stack[j + 1].at
              /\ f.by = schemas[f.at].by /\ f.path = schemas[f.at].path
              /\ schemas[f.at].result = "open"
              /\ schemas[f.by].imports[f.path] = 0

\* Where a call is in a lookup, and what it looks for.
LookingAt(f) ==
    /\ f.look.st = "going" =>
         f.look.at \in f.at..Len(schemas) /\ f.look.i \in 1..Len(f.look.path)
    /\ f.phase = "compile" /\ f.look.st \in {"going", "found"} =>
         f.n <= Len(f.prog) /\ f.prog[f.n].op = "def" /\ f.look.kind = f.prog[f.n].kind
    /\ f.phase = "declare" /\ f.look.st # "idle" =>
         f.step = "items" /\ f.item <= Len(f.prog[f.n].items)
    /\ f.step = "items" =>
         /\ f.phase = "declare" /\ f.n <= Len(f.prog) /\ f.prog[f.n].op = "import"
         /\ schemas[f.at].imports[f.prog[f.n].from] # 0

\* What has been declared when the statement of a definition is done.
Has(c, k, x) == \E d \in schemas[c].decls : d.kind = k /\ d.name = x
HasDeclared(f) ==
    /\ \A m \in 1..Len(f.prog) :
         (f.phase = "declare" => m < f.n) /\ f.prog[m].op = "def"
         => Has(f.at, f.prog[m].kind, f.prog[m].name)
    /\ f.phase = "declare" /\ f.step = "add" =>
         /\ f.n <= Len(f.prog)
         /\ f.prog[f.n].op = "def" =>
              /\ \A e \in f.got : e.kind = f.prog[f.n].kind /\ e.name = f.prog[f.n].name
              /\ f.got # {} \/ Has(f.at, f.prog[f.n].kind, f.prog[f.n].name)
    /\ f.phase # "declare" => f.step = "start"

Calls == \A j \in 1..Len(stack) : LookingAt(stack[j]) /\ HasDeclared(stack[j])

IInv == TypeOK /\ ImportsAreSound /\ Parents /\ Nested /\ Calls

\* Why no call without errors touches cells that are not its own.  A value that a schema or
\* a call has come across is of a cell that was declared, by that schema or a newer one.
Rooted(k, v, c) ==
    k # "schema" /\ v \in Cell => v.at \in c..Len(schemas) /\ Has(v.at, v.kind, v.name)

CellOf(f, m) == [at |-> f.at, kind |-> f.prog[m].kind, name |-> f.prog[m].name]
AddsOwn(f) == f.phase = "declare" /\ f.step = "add" /\ f.prog[f.n].op = "def"
RootedCall(f) ==
    /\ f.look.st = "found" => Rooted(f.look.kind, f.look.value, f.at)
    /\ AddsOwn(f) => \A e \in f.got : /\ e.value = CellOf(f, f.n)
                                    /\ \A o \in f.got : o = e
    /\ ~AddsOwn(f) => \A e \in f.got : Rooted(e.kind, e.value, f.at)
Values ==
    /\ \A c \in 1..Len(schemas) : \A d \in schemas[c].decls : Rooted(d.kind, d.value, c)
    /\ \A j \in 1..Len(stack) : RootedCall(stack[j])

\* A cell that is not declared stands for itself, and for nothing else.
IsDeclared(t) == t.at <= Len(schemas) /\ Has(t.at, t.kind, t.name)
Untouched == \A t \in Cell : ~IsDeclared(t) => \A c \in Cell : val[c] = t <=> c = t

\* The definitions of a call that are declared and not compiled yet: each has a cell of its
\* own, which nothing has been said of, nor of a cell of another schema in its class.
Pending(f) ==
    {m \in 1..Len(f.prog) :
       /\ f.prog[m].op = "def"
       /\ \/ f.phase = "declare" /\ (m < f.n \/ (m = f.n /\ f.step = "add" /\ f.got = {}))
          \/ f.phase = "compile" /\ m >= f.n}
OwnCell(f, m) ==
    LET t == CellOf(f, m) IN
    /\ val[t] = t /\ \A c \in Cell : val[c] = t => c.at = f.at
    /\ \A d \in schemas[f.at].decls : d.kind = t.kind /\ d.name = t.name => d.value = t
    /\ \A l \in Pending(f) : CellOf(f, l) = t => l = m
Undefined(f) == f.errs = {} => \A m \in Pending(f) : OwnCell(f, m)

CellsInv == Values /\ Untouched /\ \A j \in 1..Len(stack) : Undefined(stack[j])
===============================================================================
