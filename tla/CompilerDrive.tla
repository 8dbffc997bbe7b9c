------------------------------ MODULE CompilerDrive ------------------------------
(***************************************************************************)
(* How one compilation is driven to its end (compile/compile.rs): the      *)
(* tasks of async_cref and the callbacks of add_external_type run on a     *)
(* runtime of one thread; drive sleeps until that thread is about to park, *)
(* then infers the external types of the lowest rank, and when there are   *)
(* none left collects the errors of the tasks that ended and aborts the    *)
(* others.  A Compiler compiles one schema after another.                  *)
(*                                                                         *)
(* A job is a task or a callback, numbered in the order of registration;   *)
(* its number also names the cell it is to make known (the slot of a task, *)
(* the inner type of an external type).  What a job does to cells is       *)
(* abstract: a step may make any of them known.                            *)
(***************************************************************************)
EXTENDS Naturals

CONSTANTS
  N,             \* jobs that may be registered (bound)
  Compilations   \* schemas compiled with this Compiler (bound)

ASSUME DriveAssumption == N \in Nat /\ Compilations \in Nat \ {0}

Job == 1..N
Rank == {"Load", "UnsafeExpr"}  \* ExternalTypeRank
Ended == {"ok", "failed", "panicked"}

VARIABLES
  spawned,   \* jobs registered
  kind,      \* a Rank, or "task"
  status,    \* "waiting" until the job has ended or was aborted
  awaits,    \* the cell a task is suspended on, 0 if none
  tx,        \* the channel of an external type: "open", "run" or "dropped"
  known,     \* cells that are known
  handles, external_types,  \* fields of CompilerData
  changed,   \* whether the watch channel holds a change that was not seen
  main,      \* where the thread's main future stands
  batch,     \* external types claimed, and the one being joined first
  claimed,   \* handles claimed
  errors,    \* jobs whose error is in the result
  owner,     \* history: the compilation that registered a job
  compilation, gave_up  \* its number; history: the last that returned early, 0 if none

jobs == <<spawned, kind, status, awaits, tx, known, owner>>
data == <<handles, external_types>>
locals == <<main, batch, claimed, errors, compilation, gave_up>>
vars == <<jobs, data, changed, locals>>

TypeOK ==
  /\ spawned \in 0..N
  /\ kind \in [Job -> Rank \cup {"task"}]
  /\ status \in [Job -> Ended \cup {"waiting", "aborted"}]
  /\ awaits \in [Job -> 0..N]
  /\ tx \in [Job -> {"open", "run", "dropped"}]
  /\ known \subseteq 1..spawned
  /\ handles \subseteq 1..spawned /\ external_types \subseteq 1..spawned
  /\ changed \in BOOLEAN
  /\ main \in {"code", "idle", "externals", "join", "handles", "done"}
  /\ batch \subseteq 1..spawned /\ claimed \subseteq 1..spawned
  /\ errors \subseteq 1..spawned
  /\ owner \in [Job -> 0..Compilations]
  /\ compilation \in 1..Compilations /\ gave_up \in 0..Compilations

Init ==
  /\ spawned = 0 /\ known = {}
  /\ kind = [j \in Job |-> "task"] /\ status = [j \in Job |-> "waiting"]
  /\ awaits = [j \in Job |-> 0] /\ tx = [j \in Job |-> "open"]
  /\ owner = [j \in Job |-> 0]
  /\ handles = {} /\ external_types = {}
  /\ changed = FALSE
  /\ main = "code" /\ batch = {} /\ claimed = {} /\ errors = {}
  /\ compilation = 1 /\ gave_up = 0

-----------------------------------------------------------------------------
First(j, S) == j \in S /\ \A k \in S : j <= k

\* A job the executor would poll.
Runnable(j) ==
  /\ j <= spawned /\ status[j] = "waiting"
  /\ IF kind[j] = "task" THEN awaits[j] = 0 \/ awaits[j] \in known ELSE tx[j] # "open"

\* The main future is at an await, so that the thread may run jobs: the two
\* awaits of drive, and that of a handle, where tokio's budget may make even
\* a future that is ready yield.
Suspended == main \in {"idle", "join"} \/ (main = "handles" /\ claimed # {})

\* async_cref and add_external_type.
Register(k) ==
  /\ spawned < N
  /\ spawned' = spawned + 1
  /\ kind' = [kind EXCEPT ![spawned + 1] = k]
  /\ owner' = [owner EXCEPT ![spawned + 1] = compilation]
  /\ IF k = "task"
     THEN handles' = handles \cup {spawned + 1} /\ UNCHANGED external_types
     ELSE external_types' = external_types \cup {spawned + 1} /\ UNCHANGED handles

\* What the code that runs registers: one job at a time, or none.
RegisterAny ==
  \/ \E k \in Rank \cup {"task"} : Register(k)
  \/ UNCHANGED <<spawned, kind, owner, handles, external_types>>

\* compile_schema_ast and what it calls, before drive.
Code ==
  /\ main = "code"
  /\ RegisterAny
  /\ \E S \in SUBSET (1..spawned') : known' = known \cup S
  /\ UNCHANGED <<status, awaits, tx, changed, locals>>

\* A poll of a task, or a callback that is to run: it registers a job or none,
\* makes cells known, and then waits for one or ends.
Step(j) ==
  /\ Suspended /\ Runnable(j)
  /\ kind[j] = "task" \/ tx[j] = "run"
  /\ RegisterAny
  /\ \E S \in SUBSET (1..spawned') : known' = known \cup S
  /\ \/ /\ kind[j] = "task"
        /\ \E c \in 1..spawned' : c \notin known' /\ awaits' = [awaits EXCEPT ![j] = c]
        /\ UNCHANGED status
     \/ /\ \E e \in Ended : status' = [status EXCEPT ![j] = e]
        /\ awaits' = [awaits EXCEPT ![j] = 0]
  /\ UNCHANGED <<tx, changed, locals>>

\* A callback whose sender was dropped fails to receive; nobody joins it.
Deserted(j) ==
  /\ Suspended /\ Runnable(j)
  /\ kind[j] # "task" /\ tx[j] = "dropped"
  /\ status' = [status EXCEPT ![j] = "failed"]
  /\ UNCHANGED <<spawned, kind, awaits, tx, known, owner, data, changed, locals>>

\* on_park, called when the queue of the runtime is empty.
Park ==
  /\ Suspended /\ \A j \in Job : ~Runnable(j)
  /\ ~changed /\ changed' = TRUE
  /\ UNCHANGED <<jobs, data, locals>>

-----------------------------------------------------------------------------
\* (mutant: a change that is already there ends the wait)
AwaitAny == main' = "idle" /\ UNCHANGED changed

\* The head of drive's loop: changes that were already there are consumed.
AwaitIdle == main' = "idle" /\ changed' = FALSE

Drive ==
  /\ main = "code"
  /\ AwaitIdle
  /\ UNCHANGED <<jobs, data, batch, claimed, errors, compilation, gave_up>>

\* (mutant: the order of the heap is not flipped)
HighestRank(S) == {j \in S : \A k \in S : kind[k] = "UnsafeExpr" => kind[j] = "UnsafeExpr"}

\* The external types of one rank, the lowest there is.
LowestRank(S) == {j \in S : \A k \in S : kind[k] = "Load" => kind[j] = "Load"}

\* (mutant: the handles are copied, not swapped out)
ClaimCopy ==
  /\ main = "idle" /\ changed
  /\ changed' = FALSE
  /\ batch' = LowestRank(external_types)
  /\ external_types' = external_types \ batch'
  /\ IF batch' # {}
     THEN main' = "externals" /\ UNCHANGED claimed
     ELSE main' = "handles" /\ claimed' = handles
  /\ UNCHANGED <<jobs, handles, errors, compilation, gave_up>>

\* Awoken: the external types are claimed, or the handles if there are none.
Claim ==
  /\ main = "idle" /\ changed
  /\ changed' = FALSE
  /\ batch' = LowestRank(external_types)
  /\ external_types' = external_types \ batch'
  /\ IF batch' # {}
     THEN main' = "externals" /\ UNCHANGED <<handles, claimed>>
     ELSE main' = "handles" /\ claimed' = handles /\ handles' = {}
  /\ UNCHANGED <<jobs, errors, compilation, gave_up>>

\* (mutant: the callback is not told)
TriggerSilent(j) ==
  /\ main = "externals" /\ First(j, batch)
  /\ main' = "join"
  /\ UNCHANGED <<jobs, data, changed, batch, claimed, errors, compilation, gave_up>>

\* The next external type: its callback is told to run and joined, or it is
\* dropped when the type was inferred in the meantime.
Trigger(j) ==
  /\ main = "externals" /\ First(j, batch)
  /\ tx' = [tx EXCEPT ![j] = "run"]
  /\ main' = "join"
  /\ UNCHANGED <<spawned, kind, status, awaits, known, owner, data, changed, batch, claimed,
                 errors, compilation, gave_up>>

Inferred(j) ==
  /\ main = "externals" /\ First(j, batch)
  /\ j \in known
  /\ tx' = [tx EXCEPT ![j] = "dropped"]
  /\ batch' = batch \ {j}
  /\ UNCHANGED <<spawned, kind, status, awaits, known, owner, data, changed, main, claimed,
                 errors, compilation, gave_up>>

\* c_try! returns from drive: what was claimed is dropped, its jobs detached.
GiveUp(j) ==
  /\ errors' = errors \cup {j}
  /\ main' = "done" /\ batch' = {} /\ claimed' = {}
  /\ gave_up' = compilation
  /\ tx' = [k \in Job |-> IF k \in batch \ {j} THEN "dropped" ELSE tx[k]]

Join(j) ==
  /\ main = "join" /\ First(j, batch) /\ status[j] \in Ended
  /\ IF status[j] = "panicked"
     THEN GiveUp(j)
     ELSE /\ errors' = IF status[j] = "failed" THEN errors \cup {j} ELSE errors
          /\ main' = "externals" /\ batch' = batch \ {j}
          /\ UNCHANGED <<tx, claimed, gave_up>>
  /\ UNCHANGED <<spawned, kind, status, awaits, known, owner, data, changed, compilation>>

\* "If there were any unresolved types, then loop around again".
Again ==
  /\ main = "externals" /\ batch = {}
  /\ AwaitIdle
  /\ UNCHANGED <<jobs, data, batch, claimed, errors, compilation, gave_up>>

\* (mutant: handles that ended are passed over)
AbortOnly(h) ==
  /\ main = "handles" /\ First(h, claimed)
  /\ claimed' = claimed \ {h}
  /\ status' = IF status[h] = "waiting" THEN [status EXCEPT ![h] = "aborted"] ELSE status
  /\ UNCHANGED <<spawned, kind, awaits, known, owner, data, changed, compilation, errors, tx,
                 main, batch, gave_up>>

\* The next handle is checked for an error if it ended, or else aborted.
Check(h) ==
  /\ main = "handles" /\ First(h, claimed)
  /\ IF status[h] = "panicked"
     THEN GiveUp(h) /\ UNCHANGED status
     ELSE /\ claimed' = claimed \ {h}
          /\ errors' = IF status[h] = "failed" THEN errors \cup {h} ELSE errors
          /\ status' = IF status[h] = "waiting" THEN [status EXCEPT ![h] = "aborted"] ELSE status
          /\ UNCHANGED <<tx, main, batch, gave_up>>
  /\ UNCHANGED <<spawned, kind, awaits, known, owner, data, changed, compilation>>

Return ==
  /\ main = "handles" /\ claimed = {}
  /\ IF changed THEN AwaitIdle ELSE main' = "done" /\ UNCHANGED changed
  /\ UNCHANGED <<jobs, data, batch, claimed, errors, compilation, gave_up>>

\* The next schema is compiled with the same Compiler.
Recompile ==
  /\ main = "done" /\ compilation < Compilations
  /\ compilation' = compilation + 1
  /\ main' = "code" /\ errors' = {}
  /\ UNCHANGED <<jobs, data, changed, batch, claimed, gave_up>>

Drives == Drive \/ Claim \/ Again \/ Return \/
          \E j \in Job : Trigger(j) \/ Inferred(j) \/ Join(j) \/ Check(j)

Next ==
  \/ Code \/ Park \/ Drives \/ Recompile
  \/ \E j \in Job : Step(j) \/ Deserted(j)

Spec == Init /\ [][Next]_vars

\* One thread runs the jobs, drive, and on_park when there is nothing else: it
\* does something as long as it can, in whatever order.
FairSpec ==
  Spec /\ WF_vars(Park \/ Drives \/ \E j \in Job : Step(j) \/ Deserted(j))

-----------------------------------------------------------------------------
\* A task is aborted only when nothing could resolve it any more: no job can
\* be run and no external type is left to infer.
AbortedWasStuck ==
  [][\A h \in Job : status[h] = "waiting" /\ status'[h] = "aborted" =>
       external_types = {} /\ \A j \in Job : ~Runnable(j)]_vars

\* A drive that did not give up leaves no job of its compilation behind, and
\* reports the error of each one that it was to wait for.
DriveIsComplete ==
  main = "done" /\ gave_up # compilation =>
    /\ handles = {} /\ external_types = {}
    /\ \A j \in 1..spawned : owner[j] = compilation =>
         CASE kind[j] = "task" -> /\ status[j] \in {"ok", "failed", "aborted"}
                                  /\ status[j] = "failed" => j \in errors
           [] OTHER -> /\ tx[j] # "open"
                       /\ tx[j] = "run" /\ status[j] = "failed" => j \in errors

\* The errors a compilation reports are its own, or were left to it by the
\* one before, which gave up.
OwnErrors ==
  \A j \in errors : owner[j] # compilation => gave_up \in {compilation - 1, compilation}

\* An unsafe expression is inferred after every load registered before it.
LoadsBeforeUnsafe ==
  \A u, l \in 1..spawned :
    kind[u] = "UnsafeExpr" /\ tx[u] = "run" /\ kind[l] = "Load" /\ l < u =>
      tx[l] = "dropped" \/ status[l] \in Ended

\* drive returns, whatever its jobs do: no await of it is left without anybody
\* to end it.
DriveReturns == (main # "done") ~> (main = "done")

-----------------------------------------------------------------------------
\* The inductive invariant.

Quiet == \A j \in Job : ~Runnable(j)

\* What a number that is not taken yet stands for.
Untaken ==
  \A j \in Job : j > spawned => status[j] = "waiting" /\ tx[j] = "open"

Kinds ==
  /\ \A j \in handles \cup claimed : kind[j] = "task"
  /\ \A j \in external_types \cup batch : kind[j] \in Rank
  /\ \A j \in 1..spawned : status[j] = "aborted" => kind[j] = "task"

Owners ==
  /\ \A j \in 1..spawned : owner[j] \in 1..compilation
  /\ gave_up <= compilation

\* What drive relies on where it stands.
Phases ==
  /\ main = "idle" /\ changed => Quiet
  /\ main = "handles" => Quiet /\ handles = {} /\ external_types = {}
  /\ main = "done" /\ gave_up # compilation => handles = {} /\ external_types = {}
  /\ main \notin {"externals", "join"} => batch = {}
  /\ main # "handles" => claimed = {}

\* A job of this compilation is in drive's hands until it is accounted for.
Accounted ==
  gave_up # compilation =>
    \A j \in 1..spawned : owner[j] = compilation =>
      IF kind[j] = "task"
      THEN \/ j \in handles \cup claimed
           \/ status[j] \in {"ok", "failed", "aborted"} /\ (status[j] = "failed" => j \in errors)
      ELSE \/ j \in external_types \cup batch
           \/ tx[j] # "open" /\ (tx[j] = "run" /\ status[j] = "failed" => j \in errors)

\* Only a compilation that gave up leaves jobs to the next.
Leftovers ==
  \A j \in handles \cup claimed \cup external_types \cup batch \cup errors :
    owner[j] # compilation => gave_up \in {compilation - 1, compilation}

Channels ==
  /\ \A j \in 1..spawned : kind[j] \in Rank =>
       /\ tx[j] = "open" => j \in external_types \cup batch /\ status[j] = "waiting"
       /\ tx[j] = "run" /\ status[j] = "waiting" => j \in batch
  /\ \A u, l \in 1..spawned :
       kind[u] = "UnsafeExpr" /\ kind[l] = "Load" /\ l < u
         /\ (u \in batch \/ tx[u] = "run") => l \notin external_types \cup batch

IInv ==
  TypeOK /\ Untaken /\ Kinds /\ Owners /\ Phases /\ Accounted /\ Leftovers /\ Channels

=============================================================================
