# QueryScript: models, checks and proofs

QueryScript is a typed language over SQL (`src/queryscript`, Rust): a file declares types, functions,
queries and views; the compiler infers types by unification, asks databases and files for the types
it cannot know, and the runtime evaluates expressions in DuckDB and saves views to a database. A
language server compiles a document again at every change.

This directory holds TLA+ modules of the parts where order, interleaving and partial failure matter,
the TLC configurations that check them on small instances, and proofs for every instance. Paths below
are relative to `src/queryscript`; `compile/...`, `materialize/...` and `runtime/...` are in its `src/`.

## 1. The system

| Component | State it keeps | Operations | Talks to |
|---|---|---|---|
| Inference engine, `compile/inference.rs` | a graph of cells: unknown with waiting constraints, known, or a `Ref` to another cell | `new_unknown`, `mkcref`, `unify`, `then`, `await` (`poll`), `find`, `union` | everything in the compiler holds `CRef`s; callbacks run inside `unify` |
| Schema types, `compile/schema.rs`, `compile/generics.rs` | values of cells (`MType`, fields, functions, `External<T>`, `SumGeneric`, `CoerceGeneric`) | `Constrainable::unify`, `substitute`, `instantiate` | called by `union` on two known cells |
| Compilation driver, `compile/compile.rs` | `CompilerData`: task handles, heap of external types, idle channel, imports, files | `async_cref`, `add_external_type`, `drive`, `on_park` | tokio's runtime of one thread; the jobs it spawns |
| Declarations and imports, `compile/compile.rs`, `compile/scope.rs` | schema table by path, declarations by name, scopes | `lookup_schema`, `lookup_path`, `declare_schema_entry`, `compile_schema_from_file`, `gather_schema_externs` | parser, inference engine, driver |
| SQL compiler, `compile/sql.rs`, `compile/coerce.rs`, `compile/inline.rs`, `compile/traverse.rs` | none of its own | compile a query to a typed query with parameters; coercions; inlining of parameters | inference engine, driver (loads) |
| Loads, unsafe expressions, connections, `compile/external.rs`, `compile/unsafe_expr.rs`, `compile/connection.rs` | none of their own | ask a database or a file for a type | driver (external types), runtime |
| Saving of views, `materialize/mod.rs` | a signal per view, handles of tasks | `save_views`, `process_view`, `execute_create_view` | runtime, tokio's threads |
| Runtime, `runtime/runtime.rs`, `runtime/context.rs` | a context: engines by URL, materializations, values | `eval`, `eval_params`, `expr` | engines |
| DuckDB engine, `runtime/duckdb/engine.rs` | table of relations shared by connections, pool of connections | `eval_in_place`, `query`, `load`, the replacement scan callback | DuckDB |
| Language server, `bin/lsp.rs` | documents: text, versions, schema, symbols; one compiler behind a mutex | `on_change`, `handle_document`, `register_symbols`, `get_schema`, `run_expr` | client, compiler, runtime |
| Parser, AST, runtime types, errors, completion, CLI, REPL | none between calls | | |

How they work together. A compilation (`compile_string`, `compile_schema_from_file`) walks the AST on
the thread of the compiler's runtime. Where a type is not known yet it leaves a cell, and either a
callback (`then`) or a task (`async_cref`) that goes on when the cell is known; where only a database
knows a type it registers an external type. `drive` then waits until that thread has nothing left to
do, infers external types of the lowest rank, waits again, and finally collects the errors of the
tasks and aborts the ones still waiting. The same compiler compiles the next schema. At run time the
same cells are used as one-shot signals between the tasks of `save_views`, on several threads, for
which they were not made: that is why the engine is modelled twice, once at the grain of its calls
and once at the grain of its locks.

### What is hard in it, and what has to hold

* **Inference engine.** Callbacks run in the middle of a unification and may unify, create and
  register. Constraints move from cell to cell as classes merge. An error leaves a loop over
  constraints half done. *To hold:* no constraint is lost, called early or called twice; known is for
  good; equal stays equal; every task that waits for a known cell is woken.
* **Driver.** It must know that nothing can make progress before it infers an external type or aborts
  a task, and it learns it from a callback of the runtime through a watch channel. It returns early on
  a panic with work claimed. *To hold:* it never aborts what could still be resolved, loses or
  misattributes an error, or sleeps for ever; loads come before unsafe expressions.
* **Saving of views.** Tasks of several threads, started by name, ordered by signals, any of them
  failing at any point. *To hold:* a view is created after what it reads; success means that all of it
  is of this run; the command returns.
* **Threads on one cell.** Two locks where one is needed. *To hold:* a waiter is woken or gets an
  error.
* **Language server.** Changes, compilations, storage of results and requests overlap. *To hold:* what
  is served was compiled from the text it is served for; a request is answered.
* **Runtime, inlining and DuckDB engine.** A query is rewritten so that it reads a materialization as a
  table, which the runtime has to make first, through the right engine; values are stashed by key and
  copied with the context; names registered for a query outlive it and connections share them. *To
  hold:* a query finds the tables it names, reads its own relations and gives what was written; a
  materialization is evaluated once.
* **Coercion.** The operand types of an expression become known in any order, and a declaration at any
  time; a fold over pairs of types decides. *To hold:* the outcome does not depend on the order, and
  casts keep values.
* **Declarations.** Import cycles, locks taken twice by one thread, state that survives an iteration.
  *To hold:* a name means what the files say, in whatever order they are compiled; what failed is never
  kept; a schema imports a file once; compilation ends.

`PROJECT.json` lists each hazard with its line and the property that would catch it.

## 2. The modules

Names follow the source where TLA+ allows it. Every definition that models code is listed in
`PROJECT.json` ("map") with its lines. Definitions marked *(mutant: ...)* are not part of any
specification: each is a definition with one plausible mistake in it, kept to show that a property
tells the two apart.

### Unification, Inference, InferenceProperties, Unified, MCInference, MCUnified

`Inference` is `compile/inference.rs` on the compiler's single thread, with the shapes of
`compile/schema.rs` as constants. A cell is one `Arc<RwLock<Constrained<T>>>`; the result of `find` is
`canon`, so path compression is invisible. The nested Rust calls are the sequence `stack`, innermost
first: a `unify` frame, a `fire` frame (a constraint about to be called), a `call` frame (a callback in
progress), an `err` frame (a mismatch that will be found after the arguments before it were unified).
So every point where foreign code can run inside a unification is a state. What runs there is not
the engine's: `Code` lets Main, a callback or a task do any operation in any order, and `Leave` lets
it return any cell, fail, or await any cell. `?` leaves all calls in progress: `Unwind`.

| Code | Model |
|---|---|
| `new_unknown`, `mkcref`, `then`, `add_constraint` | `NewUnknown`, `NewKnown`, `Then`, `AddConstraint` |
| `unify`, `union` (swap, drain, Ref, call) | `Unify`, `UnifySame`, `Winner`, `Loser`, `Union` |
| `Constrainable::unify` of `MType`, `MField`, `MFnType`, `Vec`, `Located`, `MName`, ... | `UnifyValues`, with `Sig`, `Shared`, `Flipped`, `Opaque` |
| `External<T>::unify` | `UnifyExternal` |
| `poll`, the waker constraint | `Poll`, `Await`, `Resume`, `FireWaker` |
| `async_cref`, the end of `drive` | `AsyncCref`, `TaskReturns`, `TaskDone`, `Idle`, `Collect` |

`Shared[a][b]` is how many leading parts two different constructors have in common: two records are
compared field by field, so fields before the first difference are unified although the call fails.

`Unification` says what the engine promises without cells that point to cells, queues or stacks:
classes merge, a class becomes known once and for good, who waits is told once and after it is known,
or is let go by an error. `InferenceProperties` states the properties, the inductive invariant and the
refinement mapping (`Promise`): `Classes` is `canon` without the cells that are not allocated, `Shapes`
what each class is known to be, and `Waits` gathers who waits from every list, stack frame and slot.
`Unified` adds history variables that watch one outermost call of `unify`, any one: the pairs of cells
that it comes to (`asked`), and, once it returned `Ok`, those it unified (`agreed`). `MCUnified` checks
it on records.

### CompilerDrive

`compile/compile.rs` around `drive`. A job is a task or a callback of an external type; its number is
also the cell it is to make known. `Register` is `async_cref` or `add_external_type`; `Step` is a poll
of a job, which may register, make cells known, wait, end, fail or panic; `Park` is `on_park`, called
when no job can run, and `changed` is the watch channel; `Drive`, `Claim`, `Trigger`, `Inferred`,
`Join`, `Again`, `Check` and `Return` are `drive` from one await to the next, and `GiveUp` is the
return hidden in `c_try!`. `Recompile` is the next schema on the same compiler. What `Inference`
details (who is woken by which cell) is abstract here, and the other way round.

### SaveViews

`materialize/mod.rs`. The schema (the kind of each view, what each reads) is chosen in `Init`, and any
schema is allowed, also one where a view reads its own name: dependencies are looked up by the
bare name of the declaration (lines 63-82), which another schema may use too. A task that loads a table
waits for nothing (line 149). Any other is a state machine: it awaits its dependencies one after the
other (`AwaitNext`, until `Ready`), evaluates its parameters (`Prepare`), runs its statement
(`Execute`), gives its signal (`Finish`), or ends before that on an error (`Abandon`).

A signal is a `CRef<()>`, so awaiting it can go wrong on several threads in the two ways that
`SignalThreads` shows lock by lock. `Finish` takes them over as what they mean for the tasks: each task
that awaits the signal at that moment may lose its waker for good (`lost`), or be `behind`: its poll
found the cell unknown and locks it when it is a `Ref` (`LockLate`). The first that does panics and
poisons the cell, the others end with an error, and so do those that await the cell later (`broken`).
`Join` returns at the error of a task and panics over one that panicked (line 215). The build with one
thread has neither, a subset of these behaviours.

### SignalThreads

One signal of `save_views` at the grain of its locks: `Drain`, `MakeRef`, `CallWaker` are `union`
(lines 328-358 of `compile/inference.rs`), `Find`, `Compress`, `Register` are `poll`. The threads are
real in a build with the feature `multi-thread`, which `lsp` implies and the `Makefile` turns on; the
default build of `qs` runs the same tasks on one thread, a subset of these behaviours. What may become
of a waiter here is what `SaveViews` lets happen to a task that awaits.

### LspServer

One document of `bin/lsp.rs`. A text is its version, and versions increase while a document is open,
as the protocol has it; closing and opening again is left out. `Change` is `on_change` up to the point
where it waits; `Lock` is a blocking thread that takes the compiler's mutex (line 819), in any order,
and keeps it until its `Compile` has ended; `Record` is `handle_document`, `Register` is
`register_symbols`, `Ask` is `get_schema(uri, true)`. Which versions do not parse (`bad`), and of which
the compilation never returns (`endless`), is chosen in `Init`: a text with an extern waits for a lock
that it holds itself (`Hangs` of `SchemaImport`), and one that imports itself compiles itself again until
the stack of the server overflows, which ends all that is modelled here. An endless compilation keeps
the mutex from all later ones. Completion takes the mutex too (line 360), for a compilation of its own
that is presumed to end. A compilation is presumed not to panic, which would poison the mutex, and
the databases and files that it asks are presumed to answer.

### DuckRelations

The relations that queries hand to DuckDB (`runtime/duckdb/engine.rs`). `Open` is `DuckDBEngine::new`: a
database that is opened by a url has a connection in the pool, and each query's is a clone of it that
shares its table of relations (`Cloned`); the callback of a database reads the table of the
connection that opened it (`Installed`, `Scanned`). The engine of an embedded database belongs to one
Context, so its queries come one at a time (`Free`). Two urls of one file are two databases here, as
they are in the pool. `Number` takes a placeholder (`DuckDBNormalizer::new`), `Insert` enters
the parameters under the lock, `Lookup` is `replacement_scan_callback`, which hands out a pointer to
an entry, and `Read` is what follows the pointer later without the lock: `get_schema` and
`rust_build_array_stream`. The entries are stored in the table itself, so they move when it grows
(`place`); when that happens depends on the hash map and is left open. Reading through a pointer
that is stale is undefined: it may give the entry or anything (`Wild`).

### SchemaImport, SchemaMeaning, MCSchemaImport

How a schema declares names, imports other files and looks up paths (`compile/compile.rs`, and the
declarations of `compile/schema.rs`). A file is compiled in the middle of the statement that needs it,
so `stack` holds the calls of `compile_schema_ast`, and a schema is added for each: a file that two
others import is compiled twice, and a file that imports itself for ever (`MaxSchema` cuts that off).
`val` says what each declared type or expression was unified with. `late` is an error of a task that
`drive` will find; `drive` itself is `CompilerDrive`. A session gives several inputs to one schema, as
the REPL does (`bin/repl.rs`); a file given to `qs` is a session of one.

| Code | Model |
|---|---|
| `compile_schema_ast`, its phases and its end | `Input`, `Call`, `EndDeclare`, `EndCompile`, `Return` |
| `open_file`, `lookup_schema` | `Enter`, `Return`, `Kept` |
| `lookup_path`, `get_and_check` | `LookFinds`, `LookFollows`, `LookFallsBack` |
| `declare_schema_entry`, `import_named_decl`, `add_decls` | `DeclareDef`, `DeclareImport`, `LookForItem`, `ImportItem`, `ItemsDone`, `AddDecl`, `Declared` |
| `compile_schema_entry`, `resolve_type`, `compile_reference`, `unify_type_decl`, `unify_expr_decl` | `CompileImport`, `LookForPath`, `CompileDef`, `Unify` |
| `gather_schema_externs` | `Hangs` |

`SchemaMeaning` models no code. It says what programs mean when the session and each file are read as
sets of statements, without schemas, cells, an order or a stack: what is declared as a name at a place
(`Declares`, along the imports of declarations, `Passes`), what a path refers to there (`Refers`, by the
one walk from file to file, `Walks`), and what a definition is in the end (`Meanings`). Chains of
imports and of definitions are closures (`Reached`: what every closed set contains) and not recursive
operators, so that they can be proved about; TLC evaluates them on a set of edges. `MeansWhatItSays` compares the cells of
`SchemaImport` with that, and the rest of the module is the inductive invariant that explains why they
agree. `MCSchemaImport` holds the files and the inputs.

### Inlining, RuntimeEval, MCRuntimeEval

What happens to an expression between the compiler and the engines. `Inlining` is `inline_params`
(`compile/inline.rs`) on expressions that are records with their parts inside; `InlineSql` decides
which params are written into the query's body, which materializations it reads as tables, what it
still carries and in which database it is. `Meaning` is what an expression stands for: the set of
the sources its rows come from.

`RuntimeEval` is `eval` (`runtime/runtime.rs`) with the Contexts it works in (`runtime/context.rs`), as
`qs file` runs it: the expressions of a file one after the other, until an error. `frame` is the stack
of evaluations; a call of a declared function runs in a copy of its Context one level up (`Body`).

| Code | Model |
|---|---|
| `run_file` | `Start`, `Return`, `Fail` |
| `eval_params`, the arguments of a call | `Part`, `Left` |
| `eval` of a reference, a native function, a query | `Leaf`, `Run`, `Fail` |
| `eval` of a materialization | `Cached`, `Missed`, then `Create` if it is a table of its query (`Placed`), else `Keep` |
| `QSFn::execute`, `Context::clone` | `Copied`, `Body`, `Called` |

`table_exists` is asked for the name with its quotes and so answers no (`Created`), and the value that
a placed materialization gives, an empty relation, is used by nobody.

`MCRuntimeEval` makes small files, inlines their declarations once more if they are imported, and
checks before it starts that inlining keeps what expressions stand for (`InliningKeepsMeaning`) and
that its results have the shape that the proofs assume (`ProgramAssumption`).

### Coercion, MCCoercion

The type of an operator's operands (`compile/coerce.rs`), found when the last of them is known
(`compile/generics.rs`), and the tasks that cast them to it (`coerce_all` of `compile/sql.rs`). The
types are the atoms with their sizes, units, digits and time zones; `Coerce` is `coerce_types`, and
each rule has the name of its function. `Learn`, `Declare` and `Cast` come in any order, as the
inference engine allows. The reference is `Holds`: which types hold every value of another one.
`AtomicType` is the set of types that columns may have, with every precision and scale;
`ExpressionsAssumption` says how many columns each operator has. `coerce_list` (`CoerceList`) gathers
the types of all operands before it looks at any, so one without a type leaves the whole without one.

## 3. What the runs check

| Run | Instance | Distinct states | Shows |
|---|---|---|---|
| `inference_tasks` | 3 cells, 1 callback, 2 tasks, 1 atom; fair | 55 k | an idle runtime leaves only tasks that wait for unknown cells, errors aside; who waits for a known cell is woken or dropped by an error; unification ends |
| `inference_calls` | 4 cells, 2 callbacks, an atom, a name, `External` | 126 k | constraints are stored only in canonical unknown cells, called only on known ones, called once, never lost; known is stable, also when `External<T>` copies; every step is a step of `Unification` or a stutter |
| `inference_unified` | 5 cells of two sorts, records | 620 k | after `unify` returned `Ok` both sides are one type down to every depth, for good; classes only grow, also in unifications that fail half way |
| `drive` | 3 jobs, 2 compilations, panics; fair | 645 k | drive aborts only what is stuck, forgets nothing, mixes no errors, infers loads first, and returns |
| `views` | every schema of 3 views; fair | 56 k | statements run after those they wait for; success means fresh; `save_views` returns, or panics over a task that did, but for the cases it names |
| `threads` | 4 waiters; fair | 4.8 k | a waker is lost only in one window, at most one waiter panics, all others end |
| `lsp` | 3 versions, 2 requests; fair | 62 k | what is stored and served is current unless changes overlap; a text that parses and can be compiled gets compiled, unless an endless compilation has the mutex |
| `lsp_asked` | 2 versions, 1 request | violation | see section 6 |
| `duck` | 2 queries, 2 relations each, a pooled and an embedded database | 845 k | each query's relations stay in the table that its database is shown and are the ones it reads, unless another query on the same pooled database entered some meanwhile |
| `runtime` | 32400 files of 3 declarations and 1 or 2 expressions, calls 2 deep, 3 databases | 1.2 M | what is evaluated is what was written; a table that a query misses is that of a misplaced materialization; a Context evaluates a materialization once |
| `coercion` | 22 types for two operands, 15 for CASE of three | 362 k | operands are cast to types that hold their values, but for the casts it names; the outcome does not depend on the order; numbers meet; the order of the branches of a CASE matters only where it says |
| `imports` | 2 inputs of 7, 3 imported files with 3 to 6 texts each; fair | 94 k | imports are complete and made once; a definition always finds its declaration; after a compilation without errors every name means what the reference says; compilation ends unless a file imports itself or declares an extern |

### The bounds and why they are enough

* *Inference.* The engine looks at two classes at a time. Three cells are needed for a `Ref` to a
  `Ref`, and a fourth for the slot of a callback or a task that is merged too; two constraints for
  their order in one queue. Five cells of two sorts give two composite values over three atoms or
  unknowns. Liveness is checked with three cells and without symmetry. The first cell of a sort that
  is not in use is taken, because allocation order is unobservable; symmetry is used on tasks and callbacks, in safety runs only. Operations start from
  canonical cells because each begins with `find`; cells lose that state while a call is in progress.
  `External` is not among the types of `inference_unified`, where it would multiply the states; the
  proof of `UnifiedMeansEqual` covers it.
* *CompilerDrive.* Three jobs are one more than the ranks, so that a batch of two can coexist with a
  job registered meanwhile; two compilations show what a compiler carries over.
* *SaveViews.* Three views give chains, diamonds' halves, cycles, a view with a waiting and a failing
  dependency, and two tasks that lock one signal late, one of which panics. All schemas are tried.
* *SignalThreads.* The proof covers any number; four shows every mix of outcomes.
* *LspServer.* Three versions allow two changes to overlap and a third to follow them, and a text that
  can be compiled to wait behind an endless one. Every choice of texts is tried.
* *DuckRelations.* Two queries with two relations each interleave their placeholders and their
  entries in every way, on one database or two, pooled or embedded; the proof covers any number.
* *RuntimeEval.* Three declarations give a materialization over a materialization over a table, and a
  function whose body uses what its caller used. Each is a query or another name, materialized or not,
  in no database or one of two, with a name of its own or that of a table; `MaxLevel` = 2 is as deep as
  the calls of these files go: a call that it stopped would be a deadlock, which TLC looks for. The proof covers any program and depth.
* *Coercion.* The types include each size at which a rule changes: the widest and the narrowest
  integers, decimals at and below 38 digits, with and without a scale, both texts, dates and floats,
  timestamps of several units with and without time zones. Two operands are all that the operators of
  `sql.rs` have; three branches are the least for which an order can matter. The proofs cover any
  number of branches and every type of `AtomicType`.
* *SchemaImport.* Two inputs show what a session carries over; `mid` and the session mean two files by
  the name `base`, and every text is combined with every other, so there are diamonds, cycles of one
  to three files, names that are re-exported, hidden, clashing, missing, used before they are declared
  and shadowed by schemas, and broken files that are asked for again. Eight schemas are enough for
  whatever does not import itself: `CompilationEnds` would fail if the bound stopped anything else.

### Fairness

* *Inference* (`FairSpec`): weak fairness of `Engine`, which is a loop in a thread that runs, and strong
  fairness of `Leave`: a callback and the body of a task are finite Rust code, so they return, although
  they do other operations in between. Nothing is assumed of `Code`.
* *CompilerDrive*: weak fairness of the thread as a whole, not of each job: it polls some job, goes on
  with drive, or calls `on_thread_park` when its queue is empty, in any order.
* *SaveViews*: weak fairness of `save_views` and its tasks together: the runtime polls something as long
  as something can go on, and the statement of a view ends. A task that lost its waker cannot go on.
  `ReturnsUnlessDeserted` names what may keep the task that is joined next for good: an error or a
  panic of a task it waits for, before its signal; a cycle of names; a lost waker.
* *SignalThreads*: weak fairness of each thread between the locks it takes, and of who waits for one.
* *LspServer*: weak fairness of the server's work, none of the client. The mutex need not be fair, since
  each change takes it once. That compilations end is not assumed: `endless` ones do not, and
  `GetsCompiled` names them as its exception.
* *SchemaImport*: weak fairness of the one thread that compiles; no input has to be given.
* *DuckRelations*, *RuntimeEval* and *Coercion* state safety only; the last has `CHECK_DEADLOCK FALSE`, as
  *DuckRelations* has, because an expression that is compiled and a query that has ended stop.

## 4. What is proved

All proofs are checked by TLAPS, with SMT, Zenon and LS4 as back ends, for every value of the constants
that the named assumptions allow.

* `InferenceProofs`. Assumption: `ConstantsAssumption` (signatures are well formed, constraint names do
  not clash, sentinels are not members). The inductive invariant `IInv` has named parts: `CellsInv`
  (`canon` is idempotent and stays in the allocated cells), `PendingInv` (a stored constraint is in the
  canonical cell of what it was registered on, once), `DueInv` (a call is pending once, on a known
  cell), `HeldInv` (what is held anywhere was not called), `LiveInv`, `ShapeInv`, and `NothingLost`.
  None of the safety properties is inductive alone: that a callback is called once needs that it is
  never held in two places, which needs that the cell it is in is the canonical one of what it was
  registered on, which `Union` re-establishes because it moves the whole queue when it moves the
  class. One lemma per action; `StackStep` and `AllocateStep` factor what most of them share. From it:
  `TypeCorrect`, `NoStrandedConstraint`, `CalledOnlyOnKnown`, `NoLostConstraint`, `IdleIsExhausted`
  (with the second invariant `Quiescent`), `MergesAreForGood`, `KnownForGood`, `AtMostOneCall`.
  `EngineImplements` is the refinement `Spec => Promise!USpec`: for each step of the engine, which step
  of `Unification` it is under the mapping, or why it is none. Moving a queue, popping a frame or
  finding that two values agree leaves `Classes`, `Shapes` and `Waits` as they are; `Union` merges two
  classes, a callback that fires is told, an unwinding lets go of those about to be called.
  `UnifiedIsEqual` needs no induction over the depth of types: `HInv` says that every pair the watched
  call came to is matched by what else it came to, or is in a frame that will unify it, unless an
  error is under way. Once the stack is empty `agreed` is thus a bisimulation, which means equality at
  every depth, also of cyclic types, and every later step keeps it because classes and values stay.
* `CompilerDriveProofs`. Assumption: `DriveAssumption`. `IInv` says where every job
  of the current compilation is (`Accounted`: in the compiler's data, in drive's hands, or done with),
  what may be left over from an earlier one (`Leftovers`), the state of the channels (`Channels`), and
  what drive relies on at each await (`Phases`): above all that from the moment the idle signal is
  seen until drive suspends again no job can run, since the jobs share its thread. From it
  `AbortsOnlyTheStuck`, `DrivesAreComplete`, `ErrorsAreOwn`, `LoadsAreDone`.
* `SaveViewsProofs`, of `SaveViews` and `SignalThreads`. Assumption: `ViewsAssumption`. `IInv` orders the tasks (`Ordered`): a view past its
  wait has awaited all that it reads, what was awaited is signalled, and a signal means that its task
  has ended; no waker that is lost and no poll that comes late changes that (`FinishKeeps`). From it
  `SuccessIsFresh` and `DependenciesGoFirst`, for every schema of any size. Of the threads nothing is
  assumed: from `SignalInv` follow `OnlyTheWindow` and `PanicsOnce`.
* `LspServerProofs`. Assumption: `VersionAssumption`. `IInv` bounds what is under way by the text's
  version (`Versions`) and says that it is the text's while changes do not overlap (`Current`). From
  it `WaitsAreJustified` and `ServesTheCurrent`.
* `DuckRelationsProofs`. Assumption: `ParamAssumption` (the names of parameters are not placeholders,
  the sentinels are not members). `IInv`: a query enters relations in the table that its database is
  shown, databases do not share one, and an embedded one runs one query at a time (`Connected`); a
  placeholder is given once (`Placeholders`); a stale pointer means an overlap on a pooled database
  (`Pointers`). From it `QueriesFindTheirOwn` and `QueriesReadTheirOwn`.
* `RuntimeEvalProofs`. Assumption: `ProgramAssumption` (the shape of what the compiler and the inliner
  make; TLC checks it of all the inliner's results in the run `runtime`). `ValuesAreMeant` speaks only
  of what the file's expressions gave, so `IInv` says of every evaluation under way whose part it is
  and in which Context (`Frames`, `Nested`), that what it has so far is what its parts and arguments
  mean (`Values`), and the same of everything stashed, copied and made into tables (`Contexts`,
  `Copies`). `Made` says that the materializations of a query that were evaluated are stashed or are
  tables where the query runs, which gives `OnlyMisplacedMissing`. `Once` needs that the evaluations
  nested in that of a materialization are of earlier declarations (`Rank`), so that none of them can be
  of the same key. From it `ValuesMeant`, `OnlyMisplacedMissing`, `OnceOnly`.
* `SchemaImportProofs`. Assumption: `ImportAssumption` (the sentinels of texts are not programs, builtins
  are things a definition can say). `ImportsAreSound` and `OwnDeclared` are not inductive. `IInv` adds
  that schemas form a tree that grows at its end and that what compiled is in its parent's table
  (`Parents`); that the calls of the stack work on ever newer schemas, each open and not in the table
  of the one that asked for it (`Nested`): hence a call that returns puts in what nobody else uses,
  and once; and, per call, where its lookup stands (`LookingAt`) and that what the statements before
  the current one define is declared, by them or by someone who took the name (`HasDeclared`). From
  it `ImportsAlwaysSound`, `AlwaysDeclared`, `NeverCompiledAgain`. `DefinesOwnCells` needs more: that
  values are rooted in the schema that came across them or a newer one (`Values`), that a cell that
  was not declared stands for itself only (`Untouched`), and that a call without errors has its own cell
  for each definition it has yet to compile, in a class without cells of other schemas (`Undefined`).
  `MeansAsSaid` (`MeansWhatItSays`) is proved in two halves. First, `MInv` is inductive, given `IInv` and
  `CellsInv`: it says in terms of schemas what has been achieved. A schema holds the text of its file
  (`TextsSaid`); its declarations are those that its statements make (`DeclsMade`), all of them once the
  statement is done (`DeclsKept`), one for a name and from one statement (`DeclsFit`, `DeclsOnce`); a
  statement that is being declared has collected what it should so far (`Collected`); a lookup has come
  along schemas that lack the name and show the import (`Looks`); the cells solve the equations that
  the compiled definitions are (`Solved`), and without errors they hold only what follows from them
  (`Grounded`: a cell's class can be reached from it along definitions). Most of the proof is that
  what a schema has said and declared stays as it is when other schemas grow (`Frame`, `StatedStays`,
  `RefersStays`), because an import is in a table only when its schema is finished. From it
  `DeclaresWhatIsSaid` and `CellsSolveDefinitions`. Second, in one state `MInv` gives the reference:
  a declaration of a schema stems from a statement along `Passes` and the other way round (`MadeStems`,
  which takes the newest schema for which that fails, since what a schema imports is newer;
  `StemsMade`), the walk of a path goes through the files of the schemas (`WalkPlaces`, `WalksOne`), so
  what was found is what the path refers to (`RefersFound`, `FoundRefersTo`). Then all that a definition
  leads to has the value of its cell (`MeaningIsValue`, from `Solved`) and, without errors, the value
  of its cell is something it leads to (`ValueIsMeaning`, from `Grounded`). The proof shows where
  the two exceptions of `MeansWhatItSays` come from: after an error `Grounded` is lost, and for
  expressions `Solved` too, since a second definition of a name may take the place of the first, even
  of one that another schema has imported.
* `CoercionProofs`. Assumption: `ExpressionsAssumption`. The inductive invariant `VerdictInv` says what
  target and verdict are before the last column is known (`Early`) and after it (`Late`); from it
  `OrderDoesNotMatter`. The other properties are about the fold of `coerce_list` over any number of
  operands. Where one would use induction, the proofs take the first prefix for which the claim fails
  (`LeastOne`, from the library's theorem on least elements) and show that there is none.
  `NumbersAlwaysMeet`: sets of numbers without decimals, and without unsigned ones, are closed under
  every operator (`JoinStays`). `OperandsAreHeld`: "t is held by the target, or its cast is one that is
  known to change values" (`Kept`) is not kept by later steps of the fold on its own; together with which
  kinds can have met (`Related`) it is, rule by rule (`ComparisonKeeps`), and the arithmetic of
  digits is `WiderFits` and `ResultFits`. `BranchesInAnyOrder`: `Below` is an order of types in which
  the type of a comparison is a least upper bound (`ComparisonIsLeast`), so the fold of a CASE is
  the least upper bound of its branches (`FoldIsLeast`), whatever their order. This holds for decimals
  that 38 digits cut off too, and shows that the two exceptions of `CaseIsOrderFree` are all.

Each of these modules also proves the type invariant of its specification (`TypeCorrect`), but
`CoercionProofs`, where the types are the first conjuncts of `VerdictInv`.

Model-checked only: all liveness (`WokenEventually`, `UnifyReturns`, `DriveReturns`,
`ReturnsUnlessDeserted`, `AwaitEnds`, `GetsCompiled`, `CompilationEnds`), because fairness and ENABLED are out of the
prover's reach; and that inlining keeps the meaning of an expression (`InliningKeepsMeaning`), an
induction over expressions.

## 5. What is abstracted

* Types are constructors with argument cells; names, locations, debug strings and the text of SQL are
  left out. Substitution and instantiation only create cells, which `NewKnown` and `NewUnknown` do.
* The code that uses the engine, and the jobs of the driver, may do anything the interface allows, so
  the properties do not depend on `compile/sql.rs`. The converse is not shown: that the compiler makes
  good use of the engine.
* A type that contains itself can be made in the code (there is no occurs check) and makes `unify`
  recurse without end. Runs about termination use sorts under which types are finite.
* In `RuntimeEval` a table or a relation is the set of the sources of its rows, and a query gives the
  union of what it reads: enough to see that something else was read, and not what a query computes.
  What a name in a query means, and that it must be found, is DuckDB's (`Reads`, `Unknown`, `Answer`,
  marked external).
* `Coercion` leaves out type parameters: an operand is a column or a sum of one, whose type becomes
  known as a whole. Times of day, which meet nothing but themselves and NULL, Float16 and Decimal256
  are left out.
* A step of a task between two awaits is atomic in `Inference` and `CompilerDrive`, where one thread
  runs them, and split at every lock in `SignalThreads`, where many do.

## 6. Where code and text disagree

A run shows one of them by a counterexample, `lsp_asked`: a request that has to wait for a compilation
is never answered (`bin/lsp.rs`:925). The others are the reasons for the reservations in the
properties; each reservation names what the code does, and the property says that nothing else goes
wrong.

* *Language server.* When changes overlap, the schema of an older text can be stored under the version
  of the newest (`CurrentUnlessOverlapped`). A text whose compilation never returns blocks the
  compilation of all later ones (`GetsCompiled`).
* *Threads.* The assertion of `poll` that a canonical cell is never a `Ref` (`compile/inference.rs`:383)
  fails when another thread unifies in between; `OnePanic` and `AwaitEnds` bound the damage to a signal,
  and `ReturnsUnlessDeserted` says what is left of it for `save_views`.
* *DuckDB engine.* `LocalRelations` removes names under which nothing was inserted (lines 119 and 173 of
  `runtime/duckdb/engine.rs`), so the relations of every query are kept as long as the database is
  open. The memory of relations is "to never move" (lines 310-314), but an insert that makes the table
  grow moves the entries that another query has pointers to (`ReadsOwn`). The pool has a connection
  for each url and not for each file (lines 370 and 384), so two urls that differ after the path open a
  file twice, which the comment of lines 343-348 means to exclude.
* *Runtime.* A materialization of a load or of another name is read by its query as a table that is
  never made, and so is one in another database than its query and one that was stashed before.
  Inlining an imported declaration again clears `inlined` although the body reads the table by then: a
  materialization is kept as a param "to force ourselves to either compute or resolve it prior to
  executing this one" (`compile/inline.rs`:182-183), and is evaluated, but not made into the table
  (`MissingOnlyMisplaced`). Tables are made under bare names, so one hides a table of the database, or
  that of another declaration, of the same name (`ValuesAreMeant`).
* *Coercion.* The common type of numbers is chosen "so that the coercion does not lose information via
  truncation" (`compile/coerce.rs`:215-216): an unsigned and a signed number meet in the signed type
  also where it is not wider. The wider decimal is one "that can store any value" (lines 262-263), but
  38 digits cut it off. The divisor of a decimal division is cast to the type of the quotient, and an
  interval to that of the date it is added to; timestamps meet in the coarser unit (`OperandsHeld`).
  Decimals and unsigned numbers do not meet (`NumbersMeet`). The bit operators and XOR never compile,
  because `sql.rs`:2033-2051 gives them a boolean as one more operand. A declared type is compared with
  the column of a sum and not with the sum's type (`compile/generics.rs`:229-240, against its own rules
  at lines 184-190), so `sum(bigint)` can be declared bigint only (`VerdictIsOrderFree`). The type of a
  CASE may depend on the order of its branches, when decimals come with unsigned numbers or floats, or
  text with dates and numbers (`CaseIsOrderFree`).
* *Imports*, where no text says otherwise: `gather_schema_externs` takes the
  write lock of a schema that it holds for reading (lines 1709 and 1714), so a schema with an extern
  never compiles (`Hangs`); an item of an import list that does not exist is skipped when an item before
  it was found (lines 1194 and 1237); an item is imported although it is not exported, because only the
  components of a path after the first are checked (line 622); a schema re-exported by `*` is looked for
  in the folder of the importer.
* *Driver.* `drive` takes the idle signal for "all other work has been exhausted"
  (`compile/compile.rs`:319-322), which `IdleUnlessError` says but for tasks whose waker an error dropped;
  loads run "before we run unsafe expressions" (`compile/compile.rs`:25-28), which `LoadsBeforeUnsafe`
  says of the loads registered first, not of one registered while a batch is joined.
* *Saving of views.* A query is to be executed after what it reads was computed
  (`compile/inline.rs`:182-183), which `DependenciesFirst` says of statements that have ended, in success or
  not, because a signal is given before the result is looked at (`materialize/mod.rs`:112).

## 7. Plan

Done: 1 `Unification`, 2 `Inference` with proofs, 3 `SignalThreads` with proofs, 4 `SaveViews` with
proofs, 5 `LspServer` with proofs, 6 `CompilerDrive` with proofs, 7 `DuckRelations` with proofs,
8 `SchemaImport` with proofs, 9 `Inlining` and `RuntimeEval` with proofs, 10 `Coercion` with proofs;
the pool of connections in `DuckRelations`; 11 that `Inference` implements `Unification`, and that
what was unified is equal, proved; that `SchemaImport` finds what `SchemaMeaning` says, proved.

Left, in this order:

12. Composition of `CompilerDrive` with `Inference`: jobs that are woken by cells.
13. Types with arguments in `Coercion`: CoerceGeneric over the type parameters of a function and its
    instantiation (`compile/generics.rs`, `compile/schema.rs`).
14. Names in queries (`compile/scope.rs`, the relations and columns of `compile/sql.rs`) against a
    reference of SQL's scopes.
15. Cyclic types: where an occurs check is missing (`compile/inference.rs`:252).

### Not modelled

The parser (its token stream is a submodule that is not here), the protocol marshalling of the
language server, completion, the editor extension, the CLI, the printing of the REPL, the Python
scraper, and `runtime/datafusion`, which is commented out of the build. `include/duckdb.hpp` is the
released header of DuckDB, 22150 lines of the repository's C++; what the program uses of it is
external here. The program's own C++ is 177 lines that pass pointers on
(`runtime/duckdb/duckdb-extra.cc` and its header): `Through` stands for the part that has a role in
the properties, the rest declares types or registers the scan function. A count of mapped lines
over the C++ files alone is therefore close to nothing; the logic modelled here is in the Rust files.
