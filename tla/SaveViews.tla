------------------------------- MODULE SaveViews -------------------------------
(***************************************************************************)
(* Saving the views of a schema to their database (materialize/mod.rs, and *)
(* `qs --save`).  save_views spawns one task per exported view, in the     *)
(* order of their names, and joins them in that order.  Every view has a   *)
(* signal; a task that creates a view or a table over inlined              *)
(* materializations awaits their signals one after the other and gives its *)
(* own when its statement has ended.                                       *)
(*                                                                         *)
(* The tasks run on several threads in a build with multi-thread, which    *)
(* the Makefile makes.  A signal is a CRef<()>, and SignalThreads has what *)
(* the threads do to one, lock by lock; here is what it means for the      *)
(* tasks: while a signal is given (Finish), a task that awaits it may lose *)
(* its waker, and one that found it unknown may lock it too late, panic    *)
(* and poison it, whereupon awaiting it is an error.  On one thread        *)
(* neither happens: `lost` and `behind` are empty in Finish.               *)
(*                                                                         *)
(* Views are 1..N in the order of their names.  The schema, that is the    *)
(* kind of each view and what its task waits for, is chosen in Init: a     *)
(* view may wait for its own name, because a dependency is looked up by    *)
(* its bare name and may come from an imported schema that uses the same   *)
(* one.  The task that loads a table waits for nothing.                    *)
(***************************************************************************)
EXTENDS Naturals

CONSTANT N   \* exported views that belong to a database

ASSUME ViewsAssumption == N \in Nat \ {0}

View == 1..N

VARIABLES
  kind,     \* "create" (a view, or a table in its own database) or "load"
  reads,    \* the views of this schema that a view reads and waits for
  phase,    \* where save_views stands
  spawned,  \* views whose task has been spawned
  joined,   \* tasks that were joined
  task,     \* where each task stands
  awaited,  \* the signals that a task has awaited
  found,    \* the signal that a task found unknown and locks too late, or 0
  signal,   \* views whose signal is known
  broken,   \* signals whose lock a panic has poisoned
  made,     \* views whose statement succeeded in this run
  fresh     \* what each view read that had been made in this run

schema == <<kind, reads>>
waits == <<awaited, found>>
signals == <<signal, broken>>
vars == <<schema, phase, spawned, joined, task, waits, signals, made, fresh>>

\* "spawned" includes the loop that awaits the dependencies; a "lost" task
\* sleeps in it without a waker, a "behind" one is about to lock found[v].
TaskState == {"none", "spawned", "lost", "behind", "prepared", "executed", "errored",
              "done", "failed", "panicked"}

TypeOK ==
  /\ kind \in [View -> {"create", "load"}]
  /\ reads \in [View -> SUBSET View]
  /\ phase \in {"gather", "process", "wait", "ok", "failed", "panicked"}
  /\ spawned \in 0..N /\ joined \in 0..N
  /\ task \in [View -> TaskState]
  /\ awaited \in [View -> SUBSET View] /\ found \in [View -> 0..N]
  /\ signal \subseteq View /\ broken \subseteq View /\ made \subseteq View
  /\ fresh \in [View -> SUBSET View]

Init ==
  /\ kind \in [View -> {"create", "load"}]
  /\ reads \in [View -> SUBSET View]
  /\ \A v \in View : kind[v] = "load" => reads[v] = {}
  /\ phase = "gather"
  /\ spawned = 0 /\ joined = 0
  /\ task = [v \in View |-> "none"]
  /\ awaited = [v \in View |-> {}] /\ found = [v \in View |-> 0]
  /\ signal = {} /\ broken = {} /\ made = {}
  /\ fresh = [v \in View |-> {}]

-----------------------------------------------------------------------------
\* gather_materialize_candidates: a signal per view, or an error (an
\* expression with no runtime type) before any task is spawned.
Gather ==
  /\ phase = "gather"
  /\ phase' \in {"process", "failed"}
  /\ UNCHANGED <<schema, spawned, joined, task, waits, signals, made, fresh>>

\* process_view for the next view; the tasks already spawned are running.
Process ==
  /\ phase = "process"
  /\ spawned' = spawned + 1
  /\ task' = [task EXCEPT ![spawned + 1] = "spawned"]
  /\ phase' = IF spawned + 1 = N THEN "wait" ELSE "process"
  /\ UNCHANGED <<schema, joined, waits, signals, made, fresh>>

Ended == {"done", "failed", "panicked"}

JoinNext ==
  /\ joined' = joined + 1
  /\ phase' = IF joined + 1 = N THEN "ok" ELSE "wait"

\* (mutant: the JoinHandle's result is not looked at)
JoinAnyway ==
  /\ phase = "wait" /\ task[joined + 1] \in Ended
  /\ JoinNext
  /\ UNCHANGED <<schema, spawned, task, waits, signals, made, fresh>>

\* `handle.await` for the next task: save_views returns at the first error,
\* and panics itself (`expect`) over a task that panicked.
Join ==
  /\ phase = "wait" /\ task[joined + 1] \in Ended
  /\ IF task[joined + 1] = "done" THEN JoinNext
     ELSE phase' = task[joined + 1] /\ UNCHANGED joined
  /\ UNCHANGED <<schema, spawned, task, waits, signals, made, fresh>>

-----------------------------------------------------------------------------
\* The dependencies that a task has still to await; their order is that of
\* its params, which is left open.
Left(v) == IF task[v] = "spawned" THEN reads[v] \ awaited[v] ELSE {}

\* `dep.await?` of a signal that is known.
AwaitNext(v) ==
  /\ \E d \in Left(v) \cap signal :
       IF d \in broken
       THEN task' = [task EXCEPT ![v] = "failed"] /\ UNCHANGED awaited
       ELSE awaited' = [awaited EXCEPT ![v] = @ \cup {d}] /\ UNCHANGED task
  /\ UNCHANGED <<schema, phase, spawned, joined, found, signals, made, fresh>>

\* The poll that found the cell unknown locks it when it is a Ref: the first
\* to do so panics with the lock held, the others see the poisoned lock.
LockLate(v) ==
  /\ task[v] = "behind"
  /\ task' = [task EXCEPT ![v] = IF found[v] \in broken THEN "failed" ELSE "panicked"]
  /\ broken' = broken \cup {found[v]}
  /\ UNCHANGED <<schema, phase, spawned, joined, waits, signal, made, fresh>>

\* (mutant: a task that does not wait)
AtOnce(v) == task[v] = "spawned"

\* The loop over the dependencies has ended.
Ready(v) == task[v] = "spawned" /\ reads[v] \subseteq awaited[v]

\* eval_params, or eval of the expression to load.
Prepare(v) ==
  /\ Ready(v)
  /\ task' = [task EXCEPT ![v] = "prepared"]
  /\ UNCHANGED <<schema, phase, spawned, joined, waits, signals, made, fresh>>

\* An error of eval_params, eval or sql_engine ends the task before it gives
\* its signal.
Abandon(v) ==
  /\ Ready(v) \/ task[v] = "prepared"
  /\ task' = [task EXCEPT ![v] = "failed"]
  /\ UNCHANGED <<schema, phase, spawned, joined, waits, signals, made, fresh>>

\* The engine runs CREATE OR REPLACE ..., or loads the table.
Execute(v) ==
  /\ task[v] = "prepared"
  /\ \/ /\ task' = [task EXCEPT ![v] = "executed"]
        /\ made' = made \cup {v}
        /\ fresh' = [fresh EXCEPT ![v] = reads[v] \cap made]
     \/ /\ task' = [task EXCEPT ![v] = "errored"]
        /\ UNCHANGED <<made, fresh>>
  /\ UNCHANGED <<schema, phase, spawned, joined, waits, signals>>

\* (mutant: the branch that loads a table forgets its signal)
Unsignalled(v) == IF kind[v] = "load" THEN signal ELSE signal \cup {v}

\* `completed_ref.unify(..)`, whether the statement succeeded or not.
Signalled(v) == signal \cup {v}

Awaiting(v) == {w \in View : v \in Left(w)}

\* The signal is given, then `result?`.  Of the tasks that await it, some may
\* have stored their wakers after union drained the old ones and before it
\* stores the Ref, and some may be between find and the lock of their poll.
Finish(v) ==
  /\ task[v] \in {"executed", "errored"}
  /\ signal' = Signalled(v)
  /\ \E lost \in SUBSET Awaiting(v) : \E behind \in SUBSET (Awaiting(v) \ lost) :
       /\ task' = [w \in View |->
                     IF w = v THEN IF task[v] = "executed" THEN "done" ELSE "failed"
                     ELSE IF w \in lost THEN "lost"
                     ELSE IF w \in behind THEN "behind" ELSE task[w]]
       /\ found' = [w \in View |-> IF w \in behind THEN v ELSE found[w]]
  /\ UNCHANGED <<schema, phase, spawned, joined, awaited, broken, made, fresh>>

-----------------------------------------------------------------------------
Main == Gather \/ Process \/ Join

\* Tasks run while save_views does, and no longer (`--save` exits then).
Run(v) ==
  /\ phase \in {"process", "wait"}
  /\ AwaitNext(v) \/ LockLate(v) \/ Prepare(v) \/ Abandon(v) \/ Execute(v) \/ Finish(v)

Next == Main \/ \E v \in View : Run(v)

Spec == Init /\ [][Next]_vars

\* The executor does something as long as save_views or a task of it can go on.
FairSpec == Spec /\ WF_vars(Main \/ \E v \in View : Run(v))

-----------------------------------------------------------------------------
\* "Success!" is printed only when every view was made, and every one that
\* waits for its dependencies was made from what this run has made of them:
\* no interleaving of the tasks leaves a view over an older table.
SuccessMeansFresh ==
  phase = "ok" => \A v \in View : v \in made /\ fresh[v] = reads[v]

\* A view's statement never runs while the statement of something it waits
\* for is still to run, whichever of them fails.
DependenciesFirst ==
  \A v \in View : task[v] \in {"prepared", "executed", "errored"} =>
    \A d \in reads[v] : task[d] \in {"done", "failed"}

\* Tasks whose turn never comes: one lost its waker, or awaits a signal whose
\* task ended without giving it, or the two wait for each other.
Deserted(S) ==
  \A v \in S : \/ task[v] = "lost"
              \/ \E d \in Left(v) : d \in S \/ (task[d] \in {"failed", "panicked"} /\ d \notin signal)

\* save_views returns, or panics over a task that did, unless the task that it
\* joins is deserted for good: by an error or a panic before a signal, by a
\* cycle of names, or by a waker that was lost while a signal was given.
ReturnsUnlessDeserted ==
  \/ <>(phase \in {"ok", "failed", "panicked"})
  \/ <>[](phase = "wait" /\ \E S \in SUBSET View : joined + 1 \in S /\ Deserted(S))

-----------------------------------------------------------------------------
\* The inductive invariant behind SuccessMeansFresh and DependenciesFirst.
\* A view was prepared after all that it reads had ended, and was made from
\* the part of it that did not fail.
Ordered(v) ==
  /\ awaited[v] \subseteq signal
  /\ task[v] \in {"prepared", "executed", "errored", "done"} => reads[v] \subseteq awaited[v]
  /\ fresh[v] \subseteq reads[v]
  /\ task[v] \in {"executed", "done"} =>
       \A d \in reads[v] : d \in fresh[v] \/ task[d] = "failed"

IInv ==
  /\ TypeOK
  /\ phase \in {"gather", "process"} => spawned < N
  /\ phase = "wait" => joined < N
  /\ phase = "ok" => joined = N
  /\ \A v \in View : v > spawned => task[v] = "none"
  /\ \A v \in View : v <= joined => task[v] = "done"
  /\ \A v \in View : task[v] \in {"executed", "done"} => v \in made
  /\ \A v \in signal : task[v] \in {"done", "failed"}
  /\ \A v \in View : task[v] = "behind" => found[v] \in signal
  /\ \A v \in View : Ordered(v)

=============================================================================
