------------------------------ MODULE RuntimeEval ------------------------------
(***************************************************************************)
(* Evaluating the expressions of a compiled schema (runtime/runtime.rs and *)
(* runtime/context.rs), as `qs file` does: one after the other in one      *)
(* Context, until the first error.                                         *)
(*                                                                         *)
(* A Context holds the values of materializations (stash), one engine per  *)
(* database with the temporary tables made through it (temp), and the      *)
(* arguments of the running function.  A call runs its body in a copy of   *)
(* the Context; the copies in use at one time are numbered by their depth. *)
(*                                                                         *)
(* An expression is a record, with its parts inside it:                    *)
(*   sql   a query or SQL expression over the tables and the placeholders  *)
(*         (holes) its body names, with the params it carries              *)
(*   mat   a `mat` declaration, under its key, inlined into a query or not *)
(*   load  a call of a native function, by what it gives                   *)
(*   call  a call of a declared function, left by `--no-inlining`          *)
(*   ref   a reference to an argument, with the expression it stands for   *)
(* A value is the set of the sources whose rows it was made from, so an    *)
(* expression has a meaning that does not depend on where it is evaluated. *)
(***************************************************************************)
EXTENDS Naturals, Sequences

CONSTANTS
  Program,   \* the programs that may be run
  Tops(_),   \* the expressions a program evaluates, in order
  Nodes(_),  \* every expression of a program, the parts of others included
  Means(_),  \* what an expression stands for
  Free(_),   \* the arguments an expression refers to
  Rank(_),   \* the place of an expression in the order of its declarations
  Key, Name, Source,
  Url,       \* the databases, with the embedded engine's NoUrl
  Base,      \* the tables each database holds, and their rows' sources
  MaxLevel   \* bound on the depth of calls

Value == SUBSET Source
Level == 0..MaxLevel
None == [l \in {} |-> {}]

Is(op, e) == e.op = op

Ops == {"sql", "mat", "load", "call", "ref"}

\* A materialization that its query reads as a table, and that the runtime
\* creates that table for.
Placed(e) == Is("mat", e) /\ e.inlined /\ Is("sql", e.inner)

\* What is evaluated to evaluate e, by the placeholder or argument it is for;
\* 0 is the expression of a materialization or the body of a call.
Parts(e) ==
  IF Is("sql", e) THEN e.params
  ELSE IF Placed(e) THEN e.inner.params
  ELSE IF Is("mat", e) THEN [l \in {0} |-> e.inner]
  ELSE IF Is("call", e) THEN [l \in DOMAIN e.args \cup {0} |-> IF l = 0 THEN e.body ELSE e.args[l]]
  ELSE [l \in {} |-> e]

Mats(p) == {e \in Nodes(p) : Is("mat", e)}

\* No two tables that a program makes or reads share a bare name unless they
\* are the same.
Clean(p) ==
  \A m \in Mats(p) : /\ \A u \in Url : m.name \notin DOMAIN Base[u]
                     /\ \A o \in Mats(p) : o.name = m.name => Means(o) = Means(m)

\* Every part of an expression is an expression of the program, of an earlier
\* declaration when it is part of a materialization.
ProgramShape(p) ==
  /\ Tops(p) \in Seq(Nodes(p))
  /\ \A e \in Nodes(p) :
       /\ e.op \in Ops /\ Means(e) \in Value /\ Rank(e) \in Nat
       /\ \A l \in DOMAIN Parts(e) : Parts(e)[l] \in Nodes(p) /\ Rank(Parts(e)[l]) <= Rank(e)
       /\ Is("sql", e) => /\ e.url \in Url /\ e.tables \subseteq Name
                          /\ e.holes \subseteq DOMAIN e.params
       /\ Is("mat", e) => /\ e.inner \in Nodes(p) /\ e.key \in Key /\ e.name \in Name
                          /\ Rank(e) = e.key
                          /\ \A l \in DOMAIN Parts(e) : Rank(Parts(e)[l]) < e.key
       /\ Is("call", e) => 0 \notin DOMAIN e.args
       /\ Is("load", e) => e.gives \in Value

\* Only a param is inlined as a table, and only one whose placeholder the query
\* does not read any more; a table that a query reads is its database's, or one
\* of the materializations it carries.
Carries(e, n) == \E l \in DOMAIN e.params : Is("mat", e.params[l]) /\ e.params[l].name = n

InlinedShape(p) ==
  /\ \A i \in DOMAIN Tops(p) : ~Placed(Tops(p)[i])
  /\ \A e \in Nodes(p) :
       /\ Is("sql", e) => /\ \A l \in e.holes : ~Placed(e.params[l])
                          /\ \A n \in e.tables : n \in DOMAIN Base[e.url] \/ Carries(e, n)
       /\ Is("mat", e) => ~Placed(e.inner)
       /\ Is("call", e) => \A l \in DOMAIN Parts(e) : ~Placed(Parts(e)[l])

\* The arguments an expression refers to are those of the call it is in.
Bound(p) ==
  /\ \A i \in DOMAIN Tops(p) : Free(Tops(p)[i]) = {}
  /\ \A e \in Nodes(p) :
       /\ Is("ref", e) => Free(e) = {e}
       /\ \A l \in DOMAIN Parts(e) :
            IF Is("call", e) /\ l = 0
            THEN \A r \in Free(e.body) : /\ r.name \in DOMAIN e.args
                                         /\ Means(e.args[r.name]) = Means(r)
            ELSE Free(Parts(e)[l]) \subseteq Free(e)

\* What the tables and the placeholders of a query stand for is what the query
\* is made from.
Stands(e, n) ==
  IF n \in DOMAIN Base[e.url] THEN Base[e.url][n]
  ELSE Means(e.params[CHOOSE l \in DOMAIN e.params :
                        Is("mat", e.params[l]) /\ e.params[l].name = n])

Meant(p) ==
  /\ \A e \in Nodes(p) :
       /\ Is("sql", e) => Means(e) = UNION ({Means(e.params[l]) : l \in e.holes}
                                            \cup {Stands(e, n) : n \in e.tables})
       /\ Is("mat", e) => Means(e) = Means(e.inner)
       /\ Is("load", e) => Means(e) = e.gives
       /\ Is("call", e) => Means(e) = Means(e.body)
  /\ \A m, o \in Mats(p) : m.key = o.key => Means(m) = Means(o)

\* What the compiler and the inliner make of a program, checked for the
\* inliner's results by the runs of MCRuntimeEval.
ASSUME ProgramAssumption ==
  /\ MaxLevel \in Nat
  /\ \A u \in Url : \A n \in DOMAIN Base[u] : Base[u][n] \in Value
  /\ \A p \in Program : /\ ProgramShape(p) /\ InlinedShape(p) /\ Bound(p)
                        /\ Clean(p) => Meant(p)

VARIABLES
  prog,     \* the program
  depth,    \* evaluations under way, each inside the one below it
  frame,    \* the evaluation at each depth
  stash,    \* ctx.materializations of each Context
  temp,     \* the temporary tables of each Context's engines
  args,     \* ctx.values of each Context
  computed, \* how often each key was evaluated or inherited (history)
  out,      \* the values of the expressions evaluated so far
  failed    \* the query that named a table its engine lacks, if any

contexts == <<stash, temp, args, computed>>
vars == <<prog, depth, frame, stash, temp, args, computed, out, failed>>

NoFailure == [found |-> TRUE]

Init ==
  /\ prog \in Program
  /\ depth = 0 /\ frame = <<>>
  /\ stash = [v \in Level |-> None]
  /\ temp = [v \in Level |-> [u \in Url |-> None]]
  /\ args = [v \in Level |-> None]
  /\ computed = [v \in Level |-> [k \in Key |-> 0]]
  /\ out = <<>> /\ failed = NoFailure

-----------------------------------------------------------------------------
\* A function with one entry set.
Set(f, x, y) == [z \in DOMAIN f \cup {x} |-> IF z = x THEN y ELSE f[z]]

\* `ctx.clone()` when the evaluation of a call begins.
Copied(e, s) == IF Is("call", e) THEN s ELSE None

\* The evaluation of e in Context v, which has stashed s.
NewFrame(e, v, s) ==
  [e |-> e, level |-> v, got |-> None, at |-> 0, missed |-> FALSE, copy |-> Copied(e, s)]

Top == frame[depth]
Running == depth > 0 /\ failed = NoFailure

\* The next expression of the file, in the Context of the file.
Start ==
  /\ depth = 0 /\ failed = NoFailure /\ Len(out) < Len(Tops(prog))
  /\ depth' = 1
  /\ frame' = [i \in {1} |-> NewFrame(Tops(prog)[Len(out) + 1], 0, stash[0])]
  /\ UNCHANGED <<prog, contexts, out, failed>>

\* The value of the evaluation on top goes to the one below it.
Return(w) ==
  /\ depth' = depth - 1
  /\ frame' = [i \in 1..depth - 1 |->
                IF i = depth - 1 THEN [frame[i] EXCEPT !.got = Set(@, frame[i].at, w)]
                                 ELSE frame[i]]
  /\ out' = IF depth = 1 THEN Append(out, w) ELSE out
  /\ UNCHANGED <<prog, args, failed>>

\* The parts that are still to be evaluated: the placeholders in the order of
\* their names, which is left open here; the body of a call after its arguments.
Left(f) ==
  {l \in DOMAIN Parts(f.e) \ DOMAIN f.got :
     Is("call", f.e) /\ l = 0 => DOMAIN f.e.args \subseteq DOMAIN f.got}

Push(f, l, v, s) ==
  /\ depth' = depth + 1
  /\ frame' = [i \in 1..depth + 1 |->
                IF i = depth + 1 THEN NewFrame(Parts(f.e)[l], v, s)
                ELSE IF i = depth THEN [f EXCEPT !.at = l]
                ELSE frame[i]]
  /\ UNCHANGED <<prog, out, failed>>

\* eval_params, the arguments of a call, the expression of a materialization:
\* evaluated in the same Context.
Part(l) ==
  /\ Running /\ l \in Left(Top)
  /\ Is("mat", Top.e) => Top.missed
  /\ ~(Is("call", Top.e) /\ l = 0)
  /\ Push(Top, l, Top.level, stash[Top.level])
  /\ UNCHANGED contexts

\* QSFn::execute: the body in a Context that has the materializations of the
\* caller as they were before the arguments, engines of its own, and the
\* arguments over the values of the caller.
Body ==
  /\ Running /\ Is("call", Top.e) /\ 0 \in Left(Top)
  /\ Top.level < MaxLevel
  /\ LET new == Top.level + 1
     IN  /\ Push(Top, 0, new, Top.copy)
         /\ stash' = [stash EXCEPT ![new] = Top.copy]
         /\ temp' = [temp EXCEPT ![new] = [u \in Url |-> None]]
         /\ args' = [args EXCEPT ![new] =
              [l \in DOMAIN Top.got \cup DOMAIN args[Top.level] |->
                 IF l \in DOMAIN Top.got THEN Top.got[l] ELSE args[Top.level][l]]]
         /\ computed' = [computed EXCEPT ![new] =
              [k \in Key |-> IF k \in DOMAIN Top.copy THEN 1 ELSE 0]]

\* A call gives what its body gives; its Context is dropped.
Called ==
  /\ Running /\ Is("call", Top.e) /\ 0 \in DOMAIN Top.got
  /\ Return(Top.got[0])
  /\ UNCHANGED <<stash, temp, computed>>

\* A native function, or an argument.
Leaf ==
  /\ Running
  /\ \/ /\ Is("load", Top.e)
        /\ Return(Top.e.gives)
     \/ /\ Is("ref", Top.e)
        /\ Top.e.name \in DOMAIN args[Top.level]
        /\ Return(args[Top.level][Top.e.name])
  /\ UNCHANGED <<stash, temp, computed>>

-----------------------------------------------------------------------------
\* A table, as the engine of a Context finds it: its own temporary tables hide
\* those of the database.
Reads(v, u, n) == IF n \in DOMAIN temp[v][u] THEN temp[v][u][n] ELSE Base[u][n]

Unknown(v, q) == {n \in q.tables : n \notin DOMAIN temp[v][q.url] \cup DOMAIN Base[q.url]}

\* What the engine answers to a query, given the values of its params.
Answer(v, q, got) ==
  UNION ({got[l] : l \in q.holes} \cup {Reads(v, q.url, n) : n \in q.tables})

\* The query that the evaluation on top is about to run, once all it carries
\* was evaluated.
Query(e) == IF Is("mat", e) THEN e.inner ELSE e

RunsQuery ==
  /\ Running
  /\ Is("sql", Top.e) \/ (Placed(Top.e) /\ Top.missed)
  /\ DOMAIN Parts(Top.e) \subseteq DOMAIN Top.got

\* The engine does not know a table of the query: the error ends the run.
Fail ==
  /\ RunsQuery
  /\ \E n \in Unknown(Top.level, Query(Top.e)) :
       failed' = [found |-> FALSE, query |-> Query(Top.e), table |-> n,
                  stashed |-> DOMAIN stash[Top.level]]
  /\ depth' = 0 /\ frame' = <<>>
  /\ UNCHANGED <<prog, contexts, out>>

\* A query or SQL expression.
Run ==
  /\ RunsQuery /\ Is("sql", Top.e)
  /\ Unknown(Top.level, Top.e) = {}
  /\ Return(Answer(Top.level, Top.e, Top.got))
  /\ UNCHANGED <<stash, temp, computed>>

\* `ctx.materializations.get(key)`, before anything else.
Cached ==
  /\ Running /\ Is("mat", Top.e) /\ ~Top.missed
  /\ Top.e.key \in DOMAIN stash[Top.level]
  /\ Return(stash[Top.level][Top.e.key])
  /\ UNCHANGED <<stash, temp, computed>>

Missed ==
  /\ Running /\ Is("mat", Top.e) /\ ~Top.missed
  /\ Top.e.key \notin DOMAIN stash[Top.level]
  /\ frame' = [frame EXCEPT ![depth].missed = TRUE]
  /\ computed' = IF Placed(Top.e) THEN computed
                 ELSE [computed EXCEPT ![Top.level][Top.e.key] = @ + 1]
  /\ UNCHANGED <<prog, depth, stash, temp, args, out, failed>>

\* (mutant: made through the Context of the file, whichever Context asks)
CreatedInFile(v, e, w) == [temp EXCEPT ![0][e.inner.url] = Set(@, e.name, w)]

\* CREATE OR REPLACE TEMPORARY TABLE, in the engine of the query's database.
\* `table_exists` is asked for the name as SQL writes it, in quotes, and the
\* catalog holds it without: the answer is no, and the table is made each time.
Created(v, e, w) == [temp EXCEPT ![v][e.inner.url] = Set(@, e.name, w)]

\* (mutant: that the table was made is stashed)
StashCreated(v, e) == [stash EXCEPT ![v] = Set(@, e.key, {})]

\* "Don't stash the fact that we created the temporary table".
AfterCreate(v, e) == stash

\* A materialization that its query reads as a table gives no value.
Create ==
  /\ RunsQuery /\ Placed(Top.e)
  /\ Unknown(Top.level, Top.e.inner) = {}
  /\ temp' = Created(Top.level, Top.e, Answer(Top.level, Top.e.inner, Top.got))
  /\ stash' = AfterCreate(Top.level, Top.e)
  /\ Return({})
  /\ UNCHANGED computed

\* (mutant: a value that was computed is not kept)
NotKept(v, k, w) == stash[v]

\* `entry(key).or_insert(result)`.
OrInsert(v, k, w) == IF k \in DOMAIN stash[v] THEN stash[v] ELSE Set(stash[v], k, w)

\* The value of any other materialization is kept for the Context.
Keep ==
  /\ Running /\ Is("mat", Top.e) /\ ~Placed(Top.e) /\ 0 \in DOMAIN Top.got
  /\ LET kept == OrInsert(Top.level, Top.e.key, Top.got[0])
     IN  /\ stash' = [stash EXCEPT ![Top.level] = kept]
         /\ Return(IF Top.e.key \in DOMAIN kept THEN kept[Top.e.key] ELSE Top.got[0])
  /\ UNCHANGED <<temp, computed>>

Finished ==
  /\ failed # NoFailure \/ (depth = 0 /\ Len(out) = Len(Tops(prog)))
  /\ UNCHANGED vars

Next ==
  \/ Start \/ Body \/ Called \/ Leaf \/ Fail \/ Run \/ Cached \/ Missed \/ Create \/ Keep
  \/ (Running /\ \E l \in Left(Top) : Part(l))
  \/ Finished

Spec == Init /\ [][Next]_vars

-----------------------------------------------------------------------------
TypeOK ==
  /\ prog \in Program
  /\ depth \in Nat
  /\ DOMAIN frame = 1..depth
  /\ \A i \in 1..depth : /\ frame[i].level \in Level
                         /\ frame[i].e \in Nodes(prog)
                         /\ DOMAIN frame[i].got \subseteq DOMAIN Parts(frame[i].e)
                         /\ \A l \in DOMAIN frame[i].got : frame[i].got[l] \in Value
  /\ computed \in [Level -> [Key -> Nat]]
  /\ out \in Seq(Value) /\ Len(out) <= Len(Tops(prog))

\* Whatever is cached, hidden by a temporary table, inlined or called, and in
\* whichever Context: each expression of the file gives what it stands for,
\* unless tables of different declarations share a bare name.
ValuesAreMeant ==
  \A i \in 1..Len(out) : out[i] = Means(Tops(prog)[i]) \/ ~Clean(prog)

\* A materialization that does not make the table its query reads.
Misplaced(q, m, stashed) ==
  \/ ~m.inlined \/ ~Is("sql", m.inner)
  \/ m.inner.url # q.url
  \/ m.key \in stashed

\* A query of a file without such names finds every table it reads, except
\* those of materializations that were already stashed by the time they were
\* to be made, that are made in another database, that are not a query, or
\* whose inlining was undone when an importing schema inlined again.
MissingOnlyMisplaced ==
  ~failed.found =>
    LET carried == {failed.query.params[l] : l \in DOMAIN failed.query.params}
        named   == {m \in carried : Is("mat", m) /\ m.name = failed.table}
    IN  named # {} /\ \A m \in named : Misplaced(failed.query, m, failed.stashed)

\* A Context evaluates a materialization it keeps once at most, and not at all
\* when it was copied from one that had kept it: no evaluation between the
\* look at the stash and or_insert can have kept the same one.
ComputedOnce == \A v \in Level, k \in Key : computed[v][k] <= 1

-----------------------------------------------------------------------------
\* The inductive invariant behind them, for the evaluations under way: each is
\* of the part of the one below that it waits for, in its Context or a copy.
Frames ==
  /\ depth \in Nat /\ DOMAIN frame = 1..depth
  /\ \A i \in 1..depth :
       /\ frame[i] = [e |-> frame[i].e, level |-> frame[i].level, got |-> frame[i].got,
                      at |-> frame[i].at, missed |-> frame[i].missed, copy |-> frame[i].copy]
       /\ frame[i].e \in Nodes(prog) /\ frame[i].level \in Level
       /\ \A j \in i..depth : frame[i].level <= frame[j].level
       /\ DOMAIN frame[i].got \subseteq DOMAIN Parts(frame[i].e)

Nested ==
  /\ depth > 0 => Len(out) < Len(Tops(prog)) /\ frame[1].e = Tops(prog)[Len(out) + 1]
  /\ \A i \in 1..depth - 1 :
       /\ frame[i].at \in DOMAIN Parts(frame[i].e)
       /\ frame[i + 1].e = Parts(frame[i].e)[frame[i].at]
       /\ Is("mat", frame[i].e) => frame[i].missed
       /\ IF Is("call", frame[i].e) /\ frame[i].at = 0
          THEN frame[i].level < frame[i + 1].level
          ELSE frame[i].level = frame[i + 1].level
  /\ \A j \in 1..depth : \A i \in 1..j - 1 :
       /\ Rank(frame[j].e) <= Rank(frame[i].e)
       /\ Is("mat", frame[i].e) => Rank(frame[j].e) < Rank(frame[i].e)

\* What an evaluation has of its parts and its arguments is what they mean.
Values ==
  \A i \in 1..depth :
    /\ \A l \in DOMAIN frame[i].got :
         /\ frame[i].got[l] \in Value
         /\ Clean(prog) /\ ~Placed(Parts(frame[i].e)[l]) =>
              frame[i].got[l] = Means(Parts(frame[i].e)[l])
    /\ \A r \in Free(frame[i].e) :
         /\ r.name \in DOMAIN args[frame[i].level]
         /\ args[frame[i].level][r.name] \in Value
         /\ Clean(prog) => args[frame[i].level][r.name] = Means(r)

\* What is kept under a key, or in a temporary table, is what a materialization
\* of that key or name means.
Keeps(s) ==
  \A k \in DOMAIN s : /\ s[k] \in Value
                      /\ \E m \in Mats(prog) : m.key = k /\ (Clean(prog) => s[k] = Means(m))

Contexts ==
  /\ \A v \in Level : Keeps(stash[v])
  /\ \A v \in Level, u \in Url : \A n \in DOMAIN temp[v][u] :
       /\ temp[v][u][n] \in Value
       /\ \E m \in Mats(prog) : m.name = n /\ (Clean(prog) => temp[v][u][n] = Means(m))

Copies == \A i \in 1..depth : Keeps(frame[i].copy)

\* A materialization was stashed, or the table for it was made, in the Context
\* of the query that carries it.
Provided(m, v) == m.key \in DOMAIN stash[v] \/ m.name \in DOMAIN temp[v][m.inner.url]

Made ==
  \A i \in 1..depth : \A l \in DOMAIN frame[i].got :
    Placed(Parts(frame[i].e)[l]) => Provided(Parts(frame[i].e)[l], frame[i].level)

\* A key that was evaluated is stashed, or still being evaluated.
Computes(i, v, k) ==
  /\ frame[i].level = v /\ Is("mat", frame[i].e) /\ ~Placed(frame[i].e)
  /\ frame[i].missed /\ frame[i].e.key = k

Once ==
  \A v \in Level, k \in Key :
    /\ computed[v][k] \in 0..1
    /\ failed = NoFailure /\ computed[v][k] = 1 =>
         k \in DOMAIN stash[v] \/ \E i \in 1..depth : Computes(i, v, k)

Stores ==
  /\ prog \in Program
  /\ DOMAIN stash = Level /\ DOMAIN args = Level
  /\ DOMAIN temp = Level /\ \A v \in Level : DOMAIN temp[v] = Url
  /\ computed \in [Level -> [Key -> Nat]]

Outcome ==
  /\ out \in Seq(Value) /\ Len(out) <= Len(Tops(prog))
  /\ ValuesAreMeant /\ MissingOnlyMisplaced
  /\ failed = NoFailure \/ (~failed.found /\ depth = 0)

IInv == Stores /\ Frames /\ Nested /\ Values /\ Contexts /\ Copies /\ Made /\ Once /\ Outcome
================================================================================
