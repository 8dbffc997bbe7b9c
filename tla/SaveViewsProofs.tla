---------------------------- MODULE SaveViewsProofs ----------------------------
(* What save_views guarantees for every number of views and every schema,  *)
(* and what one of its signals guarantees to any number of threads.        *)
EXTENDS SaveViews, SignalThreads, TLAPS

USE ViewsAssumption DEF View

LEMMA InitHolds == Init => IInv
  <1> SUFFICES ASSUME Init PROVE IInv
    OBVIOUS
  <1>1. TypeOK
    BY DEF Init, TypeOK, TaskState
  <1>2. \A v \in View : /\ task[v] = "none" /\ fresh[v] = {} /\ awaited[v] = {}
                       /\ ~(v <= joined)
    BY DEF Init
  <1> QED BY <1>1, <1>2 DEF Init, IInv, Ordered

LEMMA GatherKeeps == IInv /\ Gather => IInv'
  BY DEF IInv, Ordered, TypeOK, Gather, schema, waits, signals

LEMMA ProcessKeeps == IInv /\ Process => IInv'
  <1> SUFFICES ASSUME IInv, Process PROVE IInv'
    OBVIOUS
  <1>1. /\ spawned < N /\ spawned' = spawned + 1 /\ task[spawned + 1] = "none"
        /\ phase' = IF spawned + 1 = N THEN "wait" ELSE "process"
        /\ UNCHANGED <<kind, reads, joined, awaited, found, signal, broken, made, fresh>>
    BY DEF IInv, TypeOK, Process, schema, waits, signals
  <1>2. /\ task' \in [View -> TaskState] /\ task'[spawned + 1] = "spawned"
        /\ \A u \in View : u # spawned + 1 => task'[u] = task[u]
    BY <1>1 DEF IInv, TypeOK, TaskState, Process
  <1>3. TypeOK'
    BY <1>1, <1>2 DEF IInv, TypeOK
  <1>4. joined <= spawned
    BY <1>1 DEF IInv, TypeOK
  <1>5. \A u \in View : u > spawned' => task'[u] = "none"
    BY <1>1, <1>2 DEF IInv, TypeOK
  <1>6. \A u \in View : u <= joined' => task'[u] = "done"
    BY <1>1, <1>2, <1>4 DEF IInv, TypeOK
  <1>7. /\ phase' \in {"gather", "process"} => spawned' < N
        /\ phase' = "wait" => joined' < N
        /\ phase' = "ok" => joined' = N
    BY <1>1, <1>4 DEF IInv, TypeOK
  <1>8. /\ \A u \in View : task'[u] \in {"executed", "done"} => u \in made'
        /\ \A u \in signal' : task'[u] \in {"done", "failed"}
        /\ \A u \in View : task'[u] = "behind" => found'[u] \in signal'
    <2>1. /\ \A u \in View : task[u] \in {"executed", "done"} => u \in made
          /\ \A u \in signal : u \in View /\ task[u] \in {"done", "failed"}
          /\ \A u \in View : task[u] = "behind" => found[u] \in signal
      BY DEF IInv, TypeOK
    <2>2. UNCHANGED <<found, signal, made>>
      BY <1>1
    <2>3. ASSUME NEW u \in View
          PROVE  /\ task'[u] \in {"executed", "done"} => u \in made'
                 /\ task'[u] = "behind" => found'[u] \in signal'
      <3>1. task'[u] = "spawned" \/ task'[u] = task[u]
        BY <1>2
      <3> QED BY <2>1, <2>2, <3>1
    <2>4. ASSUME NEW u \in signal'
          PROVE  task'[u] \in {"done", "failed"}
      BY <1>1, <1>2, <2>1, <2>2
    <2> QED BY <2>3, <2>4
  <1>9. ASSUME NEW u \in View PROVE Ordered(u)'
    <2>1. Ordered(u) /\ reads[u] \subseteq View
      BY DEF IInv, TypeOK
    <2>2. task'[u] = "spawned" \/ task'[u] = task[u]
      BY <1>2
    <2>3. \A d \in reads[u] : task[d] = "failed" => task'[d] = "failed"
      BY <1>1, <1>2, <2>1
    <2>4. UNCHANGED <<reads, awaited, signal, fresh>>
      BY <1>1
    <2> QED BY <2>1, <2>2, <2>3, <2>4 DEF Ordered
  <1> QED BY <1>3, <1>5, <1>6, <1>7, <1>8, <1>9 DEF IInv

LEMMA JoinKeeps == IInv /\ Join => IInv'
  <1> SUFFICES ASSUME IInv, Join PROVE IInv'
    OBVIOUS
  <1>1. /\ joined < N /\ task[joined + 1] \in Ended
        /\ \/ task[joined + 1] = "done" /\ JoinNext
           \/ phase' \in {"failed", "panicked"} /\ UNCHANGED joined
        /\ UNCHANGED <<kind, reads, spawned, task, awaited, found, signal, broken, made, fresh>>
    BY DEF IInv, TypeOK, Join, Ended, schema, waits, signals
  <1>2. /\ TypeOK'
        /\ phase' \in {"gather", "process"} => spawned' < N
        /\ phase' = "wait" => joined' < N
        /\ phase' = "ok" => joined' = N
        /\ \A u \in View : u <= joined' => task'[u] = "done"
    BY <1>1 DEF IInv, TypeOK, JoinNext
  <1>3. ASSUME NEW u \in View PROVE Ordered(u)'
    BY <1>1 DEF IInv, Ordered
  <1> QED BY <1>1, <1>2, <1>3 DEF IInv

\* A task that has not run its statement may end, or go on to prepare it.
LEMMA MoveKeeps ==
  ASSUME IInv, NEW v \in View, NEW w \in {"prepared", "failed", "panicked"},
         task[v] \in {"spawned", "behind", "prepared"},
         w = "prepared" => reads[v] \subseteq awaited[v],
         task' = [task EXCEPT ![v] = w], broken' \subseteq View,
         UNCHANGED <<kind, reads, phase, spawned, joined, awaited, found, signal, made, fresh>>
  PROVE  IInv'
  <1>1. TypeOK'
    BY DEF IInv, TypeOK, TaskState
  <1>2. ASSUME NEW u \in View PROVE Ordered(u)'
    BY DEF IInv, Ordered, TypeOK
  <1>3. /\ \A u \in View : u > spawned => task'[u] = "none"
        /\ \A u \in View : u <= joined => task'[u] = "done"
        /\ \A u \in View : task'[u] \in {"executed", "done"} => u \in made
        /\ \A u \in signal : task'[u] \in {"done", "failed"}
        /\ \A u \in View : task'[u] = "behind" => found[u] \in signal
    BY DEF IInv, TypeOK
  <1> QED BY <1>1, <1>2, <1>3 DEF IInv

LEMMA AwaitsKeep ==
  ASSUME IInv, NEW v \in View, AwaitNext(v)
  PROVE  IInv'
  <1>1. PICK d \in Left(v) \cap signal :
          IF d \in broken
          THEN task' = [task EXCEPT ![v] = "failed"] /\ UNCHANGED awaited
          ELSE awaited' = [awaited EXCEPT ![v] = @ \cup {d}] /\ UNCHANGED task
    BY DEF AwaitNext
  <1>2. /\ task[v] = "spawned" /\ d \in signal /\ d \in View /\ d \in reads[v]
        /\ UNCHANGED <<kind, reads, phase, spawned, joined, found, signal, broken, made, fresh>>
    BY DEF AwaitNext, Left, IInv, TypeOK, schema, signals
  <1>3. CASE d \in broken
    <2>1. task' = [task EXCEPT ![v] = "failed"] /\ UNCHANGED awaited
      BY <1>1, <1>3
    <2> QED BY <1>2, <2>1, MoveKeeps DEF IInv, TypeOK
  <1>4. CASE d \notin broken
    <2>1. awaited' = [awaited EXCEPT ![v] = @ \cup {d}] /\ UNCHANGED task
      BY <1>1, <1>4
    <2>2. TypeOK'
      BY <1>2, <2>1 DEF IInv, TypeOK
    <2>3. ASSUME NEW u \in View PROVE Ordered(u)'
      BY <1>2, <2>1 DEF IInv, Ordered, TypeOK
    <2> QED BY <1>2, <2>1, <2>2, <2>3 DEF IInv, TypeOK
  <1> QED BY <1>3, <1>4

LEMMA ExecuteKeeps ==
  ASSUME IInv, NEW v \in View, Execute(v)
  PROVE  IInv'
  <1> DEFINE w == task'[v]
  <1>1. /\ task[v] = "prepared" /\ w \in {"executed", "errored"}
        /\ task' = [task EXCEPT ![v] = w]
        /\ made' = IF w = "executed" THEN made \cup {v} ELSE made
        /\ \A u \in View \ {v} : fresh'[u] = fresh[u]
        /\ fresh'[v] \in {fresh[v], reads[v] \cap made}
        /\ w = "executed" => fresh'[v] = reads[v] \cap made
        /\ fresh' \in [View -> SUBSET View]
    BY DEF IInv, TypeOK, Execute
  <1>2. UNCHANGED <<kind, reads, phase, spawned, joined, awaited, found, signal, broken>>
    BY DEF Execute, schema, waits, signals
  <1> HIDE DEF w
  <1>3. TypeOK'
    BY <1>1, <1>2 DEF IInv, TypeOK, TaskState
  <1>4. ASSUME NEW u \in View PROVE Ordered(u)'
    <2>1. CASE u # v
      BY <2>1, <1>1, <1>2 DEF IInv, Ordered, TypeOK
    <2>2. CASE u = v
      <3>1. reads[v] \subseteq signal /\ v \notin signal
        BY <1>1, <2>2 DEF IInv, Ordered, TypeOK
      <3>2. \A d \in reads[v] : task[d] = "failed" \/ d \in made
        BY <3>1 DEF IInv, TypeOK
      <3> QED BY <3>1, <3>2, <1>1, <1>2, <2>2 DEF IInv, Ordered, TypeOK
    <2> QED BY <2>1, <2>2
  <1> QED BY <1>1, <1>2, <1>3, <1>4 DEF IInv, TypeOK

\* Giving a signal ends its task; of the others it moves only tasks that await.
LEMMA FinishKeeps ==
  ASSUME IInv, NEW v \in View, Finish(v)
  PROVE  IInv'
  <1>0. PICK lost \in SUBSET Awaiting(v) :
          \E behind \in SUBSET (Awaiting(v) \ lost) :
            /\ task' = [w \in View |->
                          IF w = v THEN IF task[v] = "executed" THEN "done" ELSE "failed"
                          ELSE IF w \in lost THEN "lost"
                          ELSE IF w \in behind THEN "behind" ELSE task[w]]
            /\ found' = [w \in View |-> IF w \in behind THEN v ELSE found[w]]
    BY DEF Finish
  <1>1. PICK behind \in SUBSET (Awaiting(v) \ lost) :
          /\ task' = [w \in View |->
                        IF w = v THEN IF task[v] = "executed" THEN "done" ELSE "failed"
                        ELSE IF w \in lost THEN "lost"
                        ELSE IF w \in behind THEN "behind" ELSE task[w]]
          /\ found' = [w \in View |-> IF w \in behind THEN v ELSE found[w]]
    BY <1>0
  <1>2. /\ task[v] \in {"executed", "errored"} /\ signal' = signal \cup {v}
        /\ UNCHANGED <<kind, reads, phase, spawned, joined, awaited, broken, made, fresh>>
    BY DEF Finish, Signalled, schema
  <1>3. \A w \in lost \cup behind : w \in View /\ task[w] = "spawned" /\ w # v
    BY <1>2 DEF Awaiting, Left
  <1>4. /\ task'[v] \in {"done", "failed"} /\ (task'[v] = "done" <=> task[v] = "executed")
        /\ \A w \in View \ {v} :
             \/ task'[w] = task[w] /\ (w \in behind => FALSE)
             \/ task[w] = "spawned" /\ task'[w] = "lost" /\ w \notin behind
             \/ task[w] = "spawned" /\ task'[w] = "behind" /\ w \in behind
        /\ task' \in [View -> TaskState]
        /\ found' \in [View -> 0..N]
        /\ \A w \in View : found'[w] = IF w \in behind THEN v ELSE found[w]
    <2>1. task' \in [View -> TaskState]
      BY <1>1 DEF IInv, TypeOK, TaskState
    <2>2. found' \in [View -> 0..N]
      BY <1>1 DEF IInv, TypeOK
    <2> QED BY <1>1, <1>2, <1>3, <2>1, <2>2
  <1>5. TypeOK'
    BY <1>2, <1>4 DEF IInv, TypeOK
  <1>6. ASSUME NEW u \in View PROVE Ordered(u)'
    <2>1. /\ task'[u] \in {"prepared", "executed", "errored", "done"} =>
               task[u] \in {"prepared", "executed", "errored", "done"}
          /\ task'[u] \in {"executed", "done"} => task[u] \in {"executed", "done"}
      BY <1>2, <1>4
    <2>2. \A d \in View : task[d] = "failed" => task'[d] = "failed"
      BY <1>2, <1>4
    <2> QED BY <1>2, <2>1, <2>2 DEF IInv, Ordered, TypeOK
  <1>7. \A u \in View : task'[u] = "behind" => found'[u] \in signal'
    BY <1>2, <1>4 DEF IInv
  <1>8. /\ \A u \in View : u > spawned' => task'[u] = "none"
        /\ \A u \in View : u <= joined' => task'[u] = "done"
        /\ \A u \in View : task'[u] \in {"executed", "done"} => u \in made'
        /\ \A u \in signal' : task'[u] \in {"done", "failed"}
    BY <1>2, <1>4 DEF IInv, TypeOK
  <1> QED BY <1>2, <1>5, <1>6, <1>7, <1>8 DEF IInv

\* A task's step other than Finish moves that task alone, and its view has been
\* spawned and is not done yet.
LEMMA StepKeeps ==
  ASSUME IInv, NEW v \in View, Run(v)
  PROVE  IInv'
  <1>1. CASE Prepare(v)
    <2>1. /\ task[v] = "spawned" /\ reads[v] \subseteq awaited[v]
          /\ task' = [task EXCEPT ![v] = "prepared"] /\ UNCHANGED broken
          /\ UNCHANGED <<kind, reads, phase, spawned, joined, awaited, found, signal, made, fresh>>
      BY <1>1 DEF Prepare, Ready, schema, waits, signals
    <2> QED BY <2>1, MoveKeeps DEF IInv, TypeOK
  <1>2. CASE Abandon(v)
    <2>1. /\ task[v] \in {"spawned", "prepared"}
          /\ task' = [task EXCEPT ![v] = "failed"] /\ UNCHANGED broken
          /\ UNCHANGED <<kind, reads, phase, spawned, joined, awaited, found, signal, made, fresh>>
      BY <1>2 DEF Abandon, Ready, schema, waits, signals
    <2> QED BY <2>1, MoveKeeps DEF IInv, TypeOK
  <1>3. CASE LockLate(v)
    <2>1. PICK w \in {"failed", "panicked"} : task' = [task EXCEPT ![v] = w]
      BY <1>3 DEF LockLate
    <2>2. found[v] \in View /\ broken' \subseteq View
      BY <1>3 DEF LockLate, IInv, TypeOK
    <2>3. /\ task[v] = "behind"
          /\ UNCHANGED <<kind, reads, phase, spawned, joined, awaited, found, signal, made, fresh>>
      BY <1>3 DEF LockLate, schema, waits
    <2> QED BY <2>1, <2>2, <2>3, MoveKeeps
  <1> QED BY <1>1, <1>2, <1>3, AwaitsKeep, ExecuteKeeps, FinishKeeps DEF Run

THEOREM Invariance == Spec => []IInv
  <1>1. IInv /\ [Next]_vars => IInv'
    <2> SUFFICES ASSUME IInv, [Next]_vars PROVE IInv'
      OBVIOUS
    <2>1. CASE Main
      BY <2>1, GatherKeeps, ProcessKeeps, JoinKeeps DEF Main
    <2>2. ASSUME NEW v \in View, Run(v) PROVE IInv'
      BY <2>2, StepKeeps
    <2>3. CASE UNCHANGED vars
      BY <2>3 DEF IInv, Ordered, TypeOK, vars, schema, waits, signals
    <2> QED BY <2>1, <2>2, <2>3 DEF Next
  <1> QED BY <1>1, InitHolds, PTL DEF Spec

\* The tasks, signals and statements of save_views keep their types, and no task
\* is spawned beyond the views there are (materialize/mod.rs).
THEOREM TypeCorrect == Spec => []TypeOK
  <1>1. IInv => TypeOK
    BY DEF IInv
  <1> QED BY <1>1, Invariance, PTL

\* Success means that every view was made, over what this run made.
THEOREM SuccessIsFresh == Spec => []SuccessMeansFresh
  <1>1. IInv => SuccessMeansFresh
    <2> SUFFICES ASSUME IInv, phase = "ok", NEW v \in View
                 PROVE  v \in made /\ fresh[v] = reads[v]
      BY DEF SuccessMeansFresh
    <2>1. \A u \in View : task[u] = "done"
      BY DEF IInv
    <2>2. v \in made
      BY <2>1 DEF IInv
    <2>3. \A d \in reads[v] : d \in View
      BY DEF IInv, TypeOK
    <2>4. /\ fresh[v] \subseteq reads[v]
          /\ \A d \in reads[v] : d \in fresh[v] \/ task[d] = "failed"
      BY <2>1 DEF IInv, Ordered
    <2> QED BY <2>1, <2>2, <2>3, <2>4
  <1> QED BY <1>1, Invariance, PTL

\* Whatever fails, a statement runs after those of its dependencies.
THEOREM DependenciesGoFirst == Spec => []DependenciesFirst
  <1>1. IInv => DependenciesFirst
    BY DEF IInv, Ordered, TypeOK, DependenciesFirst
  <1> QED BY <1>1, Invariance, PTL

-----------------------------------------------------------------------------
LEMMA SignallerKeeps == SignalInv /\ Signaller => SignalInv'
  <1> SUFFICES ASSUME SignalInv, Signaller PROVE SignalInv'
    OBVIOUS
  <1>1. CASE Drain
    BY <1>1 DEF SignalInv, SignalTypeOK, LostOnlyInWindow, OnePanic, Drain, Standing
  <1>2. CASE MakeRef
    BY <1>2 DEF SignalInv, SignalTypeOK, LostOnlyInWindow, OnePanic, MakeRef, Standing
  <1>3. ASSUME NEW w \in Waiter, CallWaker(w) PROVE SignalInv'
    BY <1>3 DEF SignalInv, SignalTypeOK, LostOnlyInWindow, OnePanic, CallWaker, Standing
  <1> QED BY <1>1, <1>2, <1>3 DEF Signaller

LEMMA AwaitKeeps ==
  ASSUME SignalInv, NEW w \in Waiter, Await(w)
  PROVE  SignalInv'
  <1>1. CASE Find(w)
    BY <1>1 DEF SignalInv, SignalTypeOK, LostOnlyInWindow, OnePanic, Find, Move, Standing
  <1>2. CASE Compress(w)
    BY <1>2 DEF SignalInv, SignalTypeOK, LostOnlyInWindow, OnePanic, Compress, Move, Standing
  <1>3. CASE Register(w)
    <2>1. CASE cell = "unknown"
      BY <1>3, <2>1 DEF SignalInv, SignalTypeOK, LostOnlyInWindow, OnePanic, Register, Move, Standing
    <2>2. CASE cell = "ref"
      BY <1>3, <2>2 DEF SignalInv, SignalTypeOK, LostOnlyInWindow, OnePanic, Register, Move, Standing
    <2> QED BY <2>1, <2>2 DEF SignalInv, SignalTypeOK
  <1> QED BY <1>1, <1>2, <1>3 DEF Await

THEOREM SignalInvariance == SignalSpec => []SignalInv
  <1>1. SignalInit => SignalInv
    BY DEF SignalInit, SignalInv, SignalTypeOK, LostOnlyInWindow, OnePanic, Standing
  <1>2. SignalInv /\ [SignalNext]_signalVars => SignalInv'
    <2>1. SignalInv /\ UNCHANGED signalVars => SignalInv'
      BY DEF SignalInv, SignalTypeOK, LostOnlyInWindow, OnePanic, signalVars
    <2> QED BY <2>1, SignallerKeeps, AwaitKeeps DEF SignalNext
  <1> QED BY <1>1, <1>2, PTL DEF SignalSpec

\* The cell, its list of wakers and the waiters keep their types (inference.rs).
THEOREM SignalTypeCorrect == SignalSpec => []SignalTypeOK
  <1>1. SignalInv => SignalTypeOK
    BY DEF SignalInv
  <1> QED BY <1>1, SignalInvariance, PTL

\* The window between the two locks of union is the only way to lose a signal.
THEOREM OnlyTheWindow == SignalSpec => []LostOnlyInWindow
  <1>1. SignalInv => LostOnlyInWindow
    BY DEF SignalInv
  <1> QED BY <1>1, SignalInvariance, PTL

\* One poll panics at most; every later one sees the poisoned lock.
THEOREM PanicsOnce == SignalSpec => []OnePanic
  <1>1. SignalInv => OnePanic
    BY DEF SignalInv
  <1> QED BY <1>1, SignalInvariance, PTL

=============================================================================
