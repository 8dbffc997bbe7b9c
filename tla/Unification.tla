----------------------------- MODULE Unification -----------------------------
(***************************************************************************)
(* What constrained references promise, without cells that point to cells, *)
(* queues or nested calls: unknowns are merged into classes, a class is    *)
(* known at most once and for good, and whoever waits for a class is told, *)
(* after it is known, or is let go by an error.                            *)
(***************************************************************************)
CONSTANTS Cell, Constraint, Shape, NoShape,
          Once  \* constraints that wait, and are told, a single time

VARIABLES
  classes,  \* a partition of the cells
  shape,    \* what each cell is known to be, or NoShape
  waits,    \* pairs <<constraint, cell>>: who waits for what
  told      \* the constraints of Once that were told

uvars == <<classes, shape, waits, told>>

UInit ==
  /\ classes = {{c} : c \in Cell}
  /\ shape = [c \in Cell |-> NoShape]
  /\ waits = {}
  /\ told = {}

\* A cell is created with a value, before anyone waits for it.
Create(c, s) ==
  /\ {c} \in classes /\ shape[c] = NoShape
  /\ \A w \in waits : w[2] # c
  /\ shape' = [shape EXCEPT ![c] = s]
  /\ UNCHANGED <<classes, waits, told>>

\* Two classes become one; at most one of them is known.
Merge(P, Q) ==
  /\ P # Q
  /\ \E p \in P, q \in Q :
       /\ shape[p] = NoShape \/ shape[q] = NoShape
       /\ shape' = [c \in Cell |-> IF c \in P \cup Q
                                   THEN IF shape[p] = NoShape THEN shape[q] ELSE shape[p]
                                   ELSE shape[c]]
  /\ classes' = (classes \ {P, Q}) \cup {P \cup Q}
  /\ UNCHANGED <<waits, told>>

Wait(k, c) ==
  /\ k \notin told /\ \A w \in waits : w[1] # k
  /\ waits' = waits \cup {<<k, c>>}
  /\ UNCHANGED <<classes, shape, told>>

\* Only someone who waits for a known cell is told, and then waits no more.
Tell(k, c) ==
  /\ <<k, c>> \in waits /\ shape[c] # NoShape
  /\ waits' = waits \ {<<k, c>>}
  /\ told' = told \cup ({k} \cap Once)
  /\ UNCHANGED <<classes, shape>>

\* An error gives up constraints that were about to be told.
GiveUp(gone) ==
  /\ \A w \in gone : shape[w[2]] # NoShape
  /\ waits' = waits \ gone
  /\ UNCHANGED <<classes, shape, told>>

UNext ==
  \/ \E c \in Cell, s \in Shape : Create(c, s)
  \/ \E P, Q \in classes : Merge(P, Q)
  \/ \E k \in Constraint, c \in Cell : Wait(k, c) \/ Tell(k, c)
  \/ \E gone \in SUBSET waits : GiveUp(gone)

USpec == UInit /\ [][UNext]_uvars

=============================================================================
