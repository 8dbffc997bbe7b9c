----------------------------- MODULE SignalThreads -----------------------------
(***************************************************************************)
(* One signal of save_views on the multi-threaded runtime: a CRef<()> that *)
(* one task makes known and others await, each on a thread of its own.     *)
(* An action is what compile/inference.rs does under one lock: `find`,     *)
(* `union` and `poll` all give the lock up between reading a cell and      *)
(* acting on what they read.                                               *)
(*                                                                         *)
(* The cell is "unknown" until `union` makes it a "ref" to the cell that   *)
(* holds (), which is known from the start and shared only by that ref.    *)
(* What `unify` reads before it drains the constraints cannot change,      *)
(* because no other task unifies this cell, and is part of Drain.          *)
(***************************************************************************)
CONSTANT Waiter   \* the tasks that await the signal

VARIABLES
  cell,      \* what the RwLock of the signal holds
  wakers,    \* the constraints of the unknown cell
  poisoned,  \* a thread panicked while it held the lock
  union,     \* where the task that gives the signal stands
  drained,   \* the wakers that it has taken and not called yet
  at,        \* where each waiter stands
  notified,  \* waiters whose waker was called since their last poll began
  late       \* history: wakers stored between the drain and the ref

signalVars == <<cell, wakers, poisoned, union, drained, at, notified, late>>

Standing == {"runnable", "found", "canon", "asleep", "ready", "error", "panicked"}

SignalTypeOK ==
  /\ cell \in {"unknown", "ref"}
  /\ wakers \subseteq Waiter /\ drained \subseteq Waiter
  /\ poisoned \in BOOLEAN
  /\ union \in {"drain", "ref", "call"}
  /\ at \in [Waiter -> Standing]
  /\ notified \subseteq Waiter /\ late \subseteq Waiter

SignalInit ==
  /\ cell = "unknown" /\ wakers = {} /\ poisoned = FALSE
  /\ union = "drain" /\ drained = {}
  /\ at = [w \in Waiter |-> "runnable"]
  /\ notified = {} /\ late = {}

-----------------------------------------------------------------------------
\* union: drain the constraints of the cell that becomes a Ref ...
Drain ==
  /\ union = "drain"
  /\ drained' = wakers /\ wakers' = {}
  /\ union' = "ref"
  /\ UNCHANGED <<cell, poisoned, at, notified, late>>

\* ... then, under a second lock, overwrite it, with whatever it holds ...
MakeRef ==
  /\ union = "ref"
  /\ cell' = "ref" /\ wakers' = {}
  /\ union' = "call"
  /\ UNCHANGED <<poisoned, drained, at, notified, late>>

\* (mutant: the loop over the constraints stops after the first)
CallFirst(w) ==
  /\ union = "call" /\ w \in drained
  /\ drained' = {}
  /\ notified' = notified \cup {w}
  /\ UNCHANGED <<cell, wakers, poisoned, union, at, late>>

\* ... and call the constraints one by one.
CallWaker(w) ==
  /\ union = "call" /\ w \in drained
  /\ drained' = drained \ {w}
  /\ notified' = notified \cup {w}
  /\ UNCHANGED <<cell, wakers, poisoned, union, at, late>>

-----------------------------------------------------------------------------
Move(w, place) == at' = [at EXCEPT ![w] = place]

\* The executor polls the task; `poll` begins with `find`: the cell itself
\* when it is unknown, the known cell when it is a ref.
Find(w) ==
  /\ at[w] = "runnable" \/ (at[w] = "asleep" /\ w \in notified)
  /\ notified' = notified \ {w}
  /\ Move(w, IF poisoned THEN "error" ELSE IF cell = "unknown" THEN "canon" ELSE "found")
  /\ UNCHANGED <<cell, wakers, poisoned, union, drained, late>>

\* find's path compression locks the cell again, to store what it found.
Compress(w) ==
  /\ at[w] = "found"
  /\ Move(w, IF poisoned THEN "error" ELSE "ready")
  /\ UNCHANGED <<cell, wakers, poisoned, union, drained, notified, late>>

\* (mutant: a poll that finds the cell unknown and returns without a waker)
NoWaker(w) ==
  /\ at[w] = "canon"
  /\ Move(w, IF poisoned THEN "error" ELSE IF cell = "unknown" THEN "asleep" ELSE "panicked")
  /\ poisoned' = (poisoned \/ cell = "ref")
  /\ UNCHANGED <<cell, wakers, union, drained, notified, late>>

\* (mutant: a lock that a panic does not poison)
NoPoison(w) ==
  /\ at[w] = "canon"
  /\ IF cell = "unknown"
     THEN /\ wakers' = wakers \cup {w}
          /\ late' = IF union = "ref" THEN late \cup {w} ELSE late
          /\ Move(w, "asleep")
     ELSE Move(w, "panicked") /\ UNCHANGED <<wakers, late>>
  /\ UNCHANGED <<cell, poisoned, union, drained, notified>>

\* The rest of poll, on the cell that find returned: store the waker, or
\* panic, with the lock held, if the cell is a ref by now.
Register(w) ==
  /\ at[w] = "canon"
  /\ IF cell = "unknown"
     THEN /\ wakers' = wakers \cup {w}
          /\ late' = IF union = "ref" THEN late \cup {w} ELSE late
          /\ Move(w, "asleep")
          /\ UNCHANGED poisoned
     ELSE /\ Move(w, IF poisoned THEN "error" ELSE "panicked")
          /\ poisoned' = TRUE
          /\ UNCHANGED <<wakers, late>>
  /\ UNCHANGED <<cell, union, drained, notified>>

Signaller == Drain \/ MakeRef \/ \E w \in Waiter : CallWaker(w)
Await(w) == Find(w) \/ Compress(w) \/ Register(w)

SignalNext == Signaller \/ \E w \in Waiter : Await(w)

SignalSpec == SignalInit /\ [][SignalNext]_signalVars

\* Every thread that can take a step takes it at some time.
FairSignalSpec == SignalSpec /\ WF_signalVars(Signaller) /\ \A w \in Waiter : WF_signalVars(Await(w))

-----------------------------------------------------------------------------
\* A waiter that sleeps has its waker in one of the two places it is called
\* from, or was notified, or stored it in the window between the two locks
\* of `union`: that window is the only way to lose a signal.
LostOnlyInWindow ==
  \A w \in Waiter : at[w] = "asleep" =>
    w \in wakers \/ w \in drained \/ w \in notified \/ w \in late

\* The lock is poisoned by a panic only, and a panic takes a poll that found
\* the cell before union made it a ref: one waiter at most.
OnePanic ==
  /\ \A v, w \in Waiter : at[v] = "panicked" /\ at[w] = "panicked" => v = w
  /\ poisoned <=> \E w \in Waiter : at[w] = "panicked"

\* Every waiter's await ends, in whatever way, but for a waker that was
\* stored in the window.
AwaitEnds ==
  \A w \in Waiter : <>(at[w] \in {"ready", "error", "panicked"} \/ w \in late)

-----------------------------------------------------------------------------
\* The inductive invariant behind LostOnlyInWindow and OnePanic.
SignalInv ==
  /\ SignalTypeOK /\ LostOnlyInWindow /\ OnePanic
  /\ cell = "ref" <=> union = "call"
  /\ poisoned => cell = "ref"
  /\ union = "drain" => drained = {}
  /\ union = "ref" => wakers \subseteq late
  /\ union = "call" => wakers = {}

=============================================================================
