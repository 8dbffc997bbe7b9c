------------------------------ MODULE Inference ------------------------------
(***************************************************************************)
(* Constrained references (CRef<T>) and the tasks that wait for them, on   *)
(* the compiler's single-threaded runtime: compile/inference.rs, the       *)
(* Constrainable implementations of compile/schema.rs and                  *)
(* compile/generics.rs, and the part of compile/compile.rs that spawns     *)
(* tasks (async_cref) and takes control back when they are exhausted       *)
(* (drive).                                                                *)
(*                                                                         *)
(* A cell is one Arc<RwLock<Constrained<T>>>.  A constraint is either a    *)
(* callback given to `then` or the waker of a task, and is named by the    *)
(* callback or by the task.  The nested Rust calls are the sequence        *)
(* `stack`, innermost first, so every place where a callback can run in    *)
(* the middle of a unification is a state.  Code that is not part of the   *)
(* engine (the compiler's functions, futures and callbacks) may call any   *)
(* operation of CRef in any order.                                         *)
(***************************************************************************)
EXTENDS Naturals, Sequences

CONSTANTS
  Cell,      \* the cells a run can allocate (bound)
  Callback,  \* the `then` callbacks a run can register (bound)
  Task,      \* the async_cref tasks a run can spawn (bound)
  Ctor,      \* constructors of known values: atoms, records, lists, ...
  Sort,      \* the type parameter T of CRef<T>
  SortOf,    \* the sort of each cell
  Sig,       \* [res, args]: the sort of a constructor and of its arguments
  Shared,    \* leading arguments two different constructors have in common
  Flipped,   \* constructors whose arguments are unified right to left
  Opaque,    \* constructors whose unify always fails (names, expressions)
  External,  \* the constructors that stand for External<T>
  Unknown, NoCell, Main, Nobody

Constraint == Callback \cup Task

ASSUME ConstantsAssumption ==
  /\ Sig \in [Ctor -> [res: Sort, args: Seq(Sort)]]
  /\ SortOf \in [Cell -> Sort]
  /\ Shared \in [Ctor -> [Ctor -> Nat]]
  /\ \A a, b \in Ctor : /\ Shared[a][b] <= Len(Sig[a].args)
                        /\ Shared[a][b] <= Len(Sig[b].args)
  /\ Flipped \subseteq Ctor /\ Opaque \subseteq Ctor /\ External \subseteq Ctor
  /\ \A k \in External : Len(Sig[k].args) = 1
  /\ Callback \cap Task = {}
  /\ Unknown \notin Ctor /\ NoCell \notin Cell
  /\ Main \notin Task /\ Nobody \notin Task /\ Main # Nobody

VARIABLES
  live,     \* cells allocated so far
  canon,    \* the cell that `find` returns for each cell
  ctor,     \* a canonical cell's constructor, or Unknown
  args,     \* the cells its value refers to
  pending,  \* the `constraints` of each unknown cell, oldest first
  stack,    \* Rust calls in progress, innermost first
  on,       \* the cell a callback is registered on, or a task waits for
  slot,     \* the cell a callback or a task fills with its result
  tstate,   \* where each task stands
  running,  \* who holds the thread: a task, Main, or Nobody
  ran,      \* history: callbacks that have been called
  dropped   \* history: constraints that an error unwound before their call

cells == <<live, canon, ctor, args>>
vars == <<live, canon, ctor, args, pending, stack, on, slot, tstate, running,
          ran, dropped>>

UnifyFrame(l, r) == [op |-> "unify", l |-> l, r |-> r]
CallFrame(k)     == [op |-> "call", k |-> k]   \* a callback in progress
FireFrame(k)     == [op |-> "fire", k |-> k]   \* about to be called
ErrFrame         == [op |-> "err"]             \* a mismatch, found in order

Frame == [op: {"unify"}, l: Cell, r: Cell] \cup [op: {"fire"}, k: Constraint]
           \cup [op: {"call"}, k: Callback] \cup [op: {"err"}]

TaskState == {"none", "spawned", "running", "returning", "waiting", "woken",
              "done", "failed", "aborted"}

TypeOK ==
  /\ live \subseteq Cell
  /\ canon \in [Cell -> Cell]
  /\ ctor \in [Cell -> Ctor \cup {Unknown}]
  /\ args \in [Cell -> Seq(Cell)]
  /\ pending \in [Cell -> Seq(Constraint)]
  /\ stack \in Seq(Frame)
  /\ on \in [Constraint -> Cell \cup {NoCell}]
  /\ slot \in [Constraint -> Cell \cup {NoCell}]
  /\ tstate \in [Task -> TaskState]
  /\ running \in Task \cup {Main, Nobody}
  /\ ran \subseteq Callback
  /\ dropped \subseteq Constraint

Known(c) == ctor[canon[c]] # Unknown
Elements(s) == {s[i] : i \in 1..Len(s)}
Due == {k \in Constraint : FireFrame(k) \in Elements(stack)}

Init ==
  /\ live = {}
  /\ canon = [c \in Cell |-> c]
  /\ ctor = [c \in Cell |-> Unknown]
  /\ args = [c \in Cell |-> <<>>]
  /\ pending = [c \in Cell |-> <<>>]
  /\ stack = <<>>
  /\ on = [k \in Constraint |-> NoCell]
  /\ slot = [k \in Constraint |-> NoCell]
  /\ tstate = [t \in Task |-> "none"]
  /\ running = Main
  /\ ran = {}
  /\ dropped = {}

-----------------------------------------------------------------------------
(* What the compiler's own code may do: it runs when it is the innermost   *)
(* call, as a callback, as the body of a task, or as Main.                 *)

Coding ==
  \/ stack # <<>> /\ Head(stack).op = "call"
  \/ /\ stack = <<>>
     /\ running = Main \/ (running \in Task /\ tstate[running] = "running")

\* The next cell of a sort to be allocated.
Unused(s) == {c \in Cell \ live : SortOf[c] = s}
Fresh(s) == CHOOSE c \in Unused(s) : TRUE

\* CRef::new_unknown.
NewUnknown(s) ==
  /\ Coding /\ Unused(s) # {}
  /\ live' = live \cup {Fresh(s)}
  /\ UNCHANGED <<canon, ctor, args, pending, stack, on, slot, tstate, running, ran, dropped>>

\* mkcref: a cell that is born known, over cells that exist already.
NewKnown(k, as) ==
  LET c == Fresh(Sig[k].res) IN
  /\ Coding /\ Unused(Sig[k].res) # {}
  /\ Len(as) = Len(Sig[k].args)
  /\ \A i \in 1..Len(as) : SortOf[as[i]] = Sig[k].args[i]
  /\ live' = live \cup {c}
  /\ ctor' = [ctor EXCEPT ![c] = k]
  /\ args' = [args EXCEPT ![c] = as]
  /\ UNCHANGED <<canon, pending, stack, on, slot, tstate, running, ran, dropped>>

\* CRef::unify, called by the compiler's code.
Unify(l, r) ==
  /\ Coding /\ SortOf[l] = SortOf[r]
  /\ stack' = <<UnifyFrame(l, r)>> \o stack
  /\ UNCHANGED <<cells, pending, on, slot, tstate, running, ran, dropped>>

\* (mutant: add_constraint without its match on Known and Unknown)
CallAtOnce(k, c) == stack' = <<FireFrame(k)>> \o stack /\ UNCHANGED pending

\* add_constraint: called at once on a known cell, stored on an unknown one.
AddConstraint(k, c) ==
  IF Known(c)
  THEN stack' = <<FireFrame(k)>> \o stack /\ UNCHANGED pending
  ELSE pending' = [pending EXCEPT ![canon[c]] = Append(@, k)] /\ UNCHANGED stack

\* CRef::then: a slot for the result and a constraint that fills it.
Then(k, c, s) ==
  /\ Coding /\ slot[k] = NoCell /\ Unused(s) # {}
  /\ live' = live \cup {Fresh(s)}
  /\ slot' = [slot EXCEPT ![k] = Fresh(s)]
  /\ on' = [on EXCEPT ![k] = c]
  /\ AddConstraint(k, c)
  /\ UNCHANGED <<canon, ctor, args, tstate, running, ran, dropped>>

\* Compiler::async_cref: a slot and a spawned task that fills it.
AsyncCref(t, s) ==
  /\ Coding /\ tstate[t] = "none" /\ Unused(s) # {}
  /\ live' = live \cup {Fresh(s)}
  /\ slot' = [slot EXCEPT ![t] = Fresh(s)]
  /\ tstate' = [tstate EXCEPT ![t] = "spawned"]
  /\ UNCHANGED <<canon, ctor, args, pending, stack, on, running, ran, dropped>>

-----------------------------------------------------------------------------
(* The engine: one step of the innermost unify.                            *)

Top(op) == stack # <<>> /\ Head(stack).op = op
Left  == canon[Head(stack).l]
Right == canon[Head(stack).r]
Fires(ks) == [i \in 1..Len(ks) |-> FireFrame(ks[i])]

\* Both sides are one class already.
UnifySame ==
  /\ Top("unify") /\ Left = Right
  /\ stack' = Tail(stack)
  /\ UNCHANGED <<cells, pending, on, slot, tstate, running, ran, dropped>>

\* (mutants: union without its swap; constraints that are cloned instead of
\* drained, left in the absorbed cell, or moved twice)
SelfWins == Left
NotDrained == pending
LeftBehind(l, w) == pending[w]
MovedTwice(l, w) == pending[w] \o pending[l] \o pending[l]

\* union(self, other): `other` becomes a Ref to `self`, unless only `other`
\* is known.  The absorbed cell's constraints are called now if the result
\* is known and queued behind the winner's own if it is not.
Winner == IF ctor[Left] = Unknown /\ ctor[Right] # Unknown THEN Right ELSE Left
Loser  == IF Winner = Left THEN Right ELSE Left

\* (mutant: a find that does not follow a Ref to a Ref)
NextRef == [canon EXCEPT ![Loser] = Winner]
Merged == [c \in Cell |-> IF canon[c] = Loser THEN Winner ELSE canon[c]]
Drained == [pending EXCEPT ![Loser] = <<>>]
Requeued(l, w) == pending[w] \o pending[l]

Union ==
  /\ Top("unify") /\ Left # Right
  /\ ctor[Left] = Unknown \/ ctor[Right] = Unknown
  /\ canon' = Merged
  /\ IF ctor[Winner] # Unknown
     THEN stack' = Fires(pending[Loser]) \o Tail(stack) /\ pending' = Drained
     ELSE stack' = Tail(stack) /\ pending' = [Drained EXCEPT ![Winner] = Requeued(Loser, Winner)]
  /\ UNCHANGED <<live, ctor, args, on, slot, tstate, running, ran, dropped>>

\* Two known values: the arguments of equal constructors are unified in
\* order; different ones fail after the arguments they agree on (fields of a
\* record are compared and unified one at a time).
BothKnown ==
  /\ Top("unify") /\ Left # Right
  /\ ctor[Left] # Unknown /\ ctor[Right] # Unknown

Agree(a, b) == a = b /\ a \notin Opaque

\* (mutant: names are compared and the fields behind them are not unified)
NamesOnly(a, b) == Shared[a][b]

Common(a, b) == IF Agree(a, b) THEN Len(Sig[a].args) ELSE Shared[a][b]

ArgFrames(l, r) ==
  [i \in 1..Common(ctor[l], ctor[r]) |->
     IF ctor[l] \in Flipped THEN UnifyFrame(args[r][i], args[l][i])
                            ELSE UnifyFrame(args[l][i], args[r][i])]

UnifyValues ==
  /\ BothKnown
  /\ ctor[Left] \in External <=> ctor[Right] \in External
  /\ stack' = ArgFrames(Left, Right)
                \o (IF Agree(ctor[Left], ctor[Right]) THEN <<>> ELSE <<ErrFrame>>)
                \o Tail(stack)
  /\ UNCHANGED <<cells, pending, on, slot, tstate, running, ran, dropped>>

\* (mutant: External<T> is overwritten with what it is unified with)
Overwrite(e, v) ==
  /\ BothKnown /\ {e, v} = {Left, Right}
  /\ ctor[e] \in External /\ ctor[v] \notin External
  /\ ctor' = [ctor EXCEPT ![e] = ctor[v]]
  /\ args' = [args EXCEPT ![e] = args[v]]
  /\ stack' = Tail(stack)
  /\ UNCHANGED <<live, canon, pending, on, slot, tstate, running, ran, dropped>>

\* External<T> against anything else: T is unified with a new cell that
\* holds a copy of the other value.
UnifyExternal(e, v) ==
  LET c == Fresh(Sig[ctor[v]].res) IN
  /\ BothKnown /\ {e, v} = {Left, Right}
  /\ ctor[e] \in External /\ ctor[v] \notin External
  /\ Unused(Sig[ctor[v]].res) # {}
  /\ live' = live \cup {c}
  /\ ctor' = [ctor EXCEPT ![c] = ctor[v]]
  /\ args' = [args EXCEPT ![c] = args[v]]
  /\ stack' = <<UnifyFrame(args[e][1], c)>> \o Tail(stack)
  /\ UNCHANGED <<canon, pending, on, slot, tstate, running, ran, dropped>>

\* (mutants: a waker that is dropped instead of woken; a list of constraints
\* whose first one is called and not removed)
DropWaker(t) ==
  /\ Top("fire") /\ Head(stack).k = t
  /\ stack' = Tail(stack)
  /\ UNCHANGED <<cells, pending, on, slot, tstate, running, ran, dropped>>

CallAgain(k) ==
  /\ Top("fire") /\ Head(stack).k = k
  /\ stack' = <<CallFrame(k)>> \o stack
  /\ ran' = ran \cup {k}
  /\ UNCHANGED <<cells, pending, on, slot, tstate, running, dropped>>

\* The constraint of a task is its waker.
FireWaker(t) ==
  /\ Top("fire") /\ Head(stack).k = t
  /\ stack' = Tail(stack)
  /\ tstate' = IF tstate[t] = "waiting" THEN [tstate EXCEPT ![t] = "woken"] ELSE tstate
  /\ UNCHANGED <<cells, pending, on, slot, running, ran, dropped>>

FireCallback(k) ==
  /\ Top("fire") /\ Head(stack).k = k
  /\ stack' = <<CallFrame(k)>> \o Tail(stack)
  /\ ran' = ran \cup {k}
  /\ UNCHANGED <<cells, pending, on, slot, tstate, running, dropped>>

\* The callback returns a cell, which its constraint unifies with the slot.
CallbackReturns(r) ==
  /\ Top("call")
  /\ SortOf[r] = SortOf[slot[Head(stack).k]]
  /\ stack' = <<UnifyFrame(slot[Head(stack).k], r)>> \o Tail(stack)
  /\ UNCHANGED <<cells, pending, on, slot, tstate, running, ran, dropped>>

\* An error leaves every call in progress (each is followed by `?`).  A task
\* ends with it; Main records it and goes on.
Unwind ==
  /\ stack' = <<>>
  /\ dropped' = dropped \cup Due
  /\ IF running \in Task
     THEN tstate' = [tstate EXCEPT ![running] = "failed"] /\ running' = Nobody
     ELSE UNCHANGED <<tstate, running>>
  /\ UNCHANGED <<cells, pending, on, slot, ran>>

Mismatch == Top("err") /\ Unwind
CallbackFails == Top("call") /\ Unwind

-----------------------------------------------------------------------------
(* Tasks on the executor.                                                  *)

InTask(t) == running = t /\ stack = <<>>

\* CRef::poll: a known cell answers at once, an unknown one keeps the waker.
Poll(t, c) ==
  IF Known(c)
  THEN /\ tstate' = [tstate EXCEPT ![t] = "running"]
       /\ running' = t
       /\ on' = [on EXCEPT ![t] = NoCell]
       /\ UNCHANGED pending
  ELSE /\ tstate' = [tstate EXCEPT ![t] = "waiting"]
       /\ running' = Nobody
       /\ on' = [on EXCEPT ![t] = c]
       /\ pending' = [pending EXCEPT ![canon[c]] = Append(@, t)]

Start(t) ==
  /\ running = Nobody /\ tstate[t] = "spawned"
  /\ running' = t
  /\ tstate' = [tstate EXCEPT ![t] = "running"]
  /\ UNCHANGED <<cells, pending, stack, on, slot, ran, dropped>>

Await(t, c) ==
  /\ InTask(t) /\ tstate[t] = "running"
  /\ Poll(t, c)
  /\ UNCHANGED <<cells, stack, slot, ran, dropped>>

Resume(t) ==
  /\ running = Nobody /\ tstate[t] = "woken"
  /\ Poll(t, on[t])
  /\ UNCHANGED <<cells, stack, slot, ran, dropped>>

\* The body of an async_cref returns r: `slot.unify(&r)` ends the task.
TaskReturns(t, r) ==
  /\ InTask(t) /\ tstate[t] = "running"
  /\ SortOf[r] = SortOf[slot[t]]
  /\ stack' = <<UnifyFrame(slot[t], r)>>
  /\ tstate' = [tstate EXCEPT ![t] = "returning"]
  /\ UNCHANGED <<cells, pending, on, slot, running, ran, dropped>>

TaskDone(t) ==
  /\ InTask(t) /\ tstate[t] = "returning"
  /\ tstate' = [tstate EXCEPT ![t] = "done"]
  /\ running' = Nobody
  /\ UNCHANGED <<cells, pending, stack, on, slot, ran, dropped>>

TaskFails(t) == InTask(t) /\ tstate[t] = "running" /\ Unwind

\* Main awaits the idle signal, which the runtime sends when it would park.
Drive ==
  /\ running = Main /\ stack = <<>>
  /\ running' = Nobody
  /\ UNCHANGED <<cells, pending, stack, on, slot, tstate, ran, dropped>>

Idle == running = Nobody /\ \A t \in Task : tstate[t] \notin {"spawned", "woken"}

\* drive's last part: the handles of unfinished tasks are aborted.
Collect ==
  /\ Idle
  /\ running' = Main
  /\ tstate' = [t \in Task |-> IF tstate[t] = "waiting" THEN "aborted" ELSE tstate[t]]
  /\ UNCHANGED <<cells, pending, stack, on, slot, ran, dropped>>

-----------------------------------------------------------------------------
\* Every operation begins with `find`, so it is enough to start from the
\* canonical cells; cells stop being canonical while they are in use.
Root == {c \in live : canon[c] = c}

Code ==
  \/ \E s \in Sort : NewUnknown(s)
  \/ \E k \in Ctor : \E as \in [1..Len(Sig[k].args) -> Root] : NewKnown(k, as)
  \/ \E l, r \in Root : l # r /\ Unify(l, r)
  \/ \E k \in Callback, c \in Root, s \in Sort : Then(k, c, s)
  \/ \E t \in Task, s \in Sort : AsyncCref(t, s)

Engine ==
  \/ UnifySame \/ Union \/ UnifyValues \/ Mismatch
  \/ \E e, v \in Root : UnifyExternal(e, v)
  \/ \E t \in Task : FireWaker(t)
  \/ \E k \in Callback : FireCallback(k)

\* How a callback or the body of a task gives up the thread.
Leave ==
  \/ \E r \in Root : CallbackReturns(r)
  \/ CallbackFails
  \/ \E t \in Task, c \in Root : Await(t, c) \/ TaskReturns(t, c)
  \/ \E t \in Task : TaskFails(t) \/ TaskDone(t)
  \/ Drive

Schedule ==
  \/ \E t \in Task : Start(t) \/ Resume(t)
  \/ Collect

Next == Code \/ Engine \/ Leave \/ Schedule

Spec == Init /\ [][Next]_vars

=============================================================================
