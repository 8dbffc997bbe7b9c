------------------------- MODULE InferenceProperties -------------------------
(* What the inference engine owes the compiler that is written on it.      *)
EXTENDS Inference

\* A constraint is only ever stored in the canonical cell of an unknown
\* class: `union` drains the cell it turns into a Ref, and the cell that
\* becomes known is the one whose constraints are called.  A constraint left
\* anywhere else is never looked at again.
PendingOnlyOnUnknown ==
  \A c \in Cell : pending[c] # <<>> => canon[c] = c /\ ctor[c] = Unknown

\* A constraint that is about to be called was registered on a cell that is
\* known by now, whatever was unified between its registration and its call.
DueOnlyOnKnown == \A k \in Due : Known(on[k])

\* Where a constraint can be found until it is called.
Held(k) == k \in Due \/ k \in Elements(pending[canon[on[k]]])

\* Every registered callback has been called or will be, and every waiting
\* task's waker is still held, unless an error unwound it: none is left in a
\* cell that was merged away.
NothingLost ==
  /\ \A k \in Callback : slot[k] # NoCell => k \in ran \/ k \in dropped \/ Held(k)
  /\ \A t \in Task : tstate[t] = "waiting" => t \in dropped \/ Held(t)

\* A callback given to `then` is called at most once (CWrap::take, which
\* callbacks use, panics on a second call), whatever is merged meanwhile.
CalledOnce == [][\A k \in Callback : FireCallback(k) => k \notin ran]_vars

\* Classes only grow: what was unified stays unified.
ClassesOnlyGrow ==
  [][\A c, d \in Cell : canon[c] = canon[d] => canon'[c] = canon'[d]]_vars

\* What a cell is known to be never changes, through any number of merges.
KnownIsStable ==
  [][\A c \in Cell : Known(c) => /\ ctor'[canon'[c]] = ctor[canon[c]]
                                 /\ args'[canon'[c]] = args[canon[c]]]_vars

\* When the runtime is about to park, a task still waits only for something
\* unknown, unless an error discarded its waker.
IdleUnlessError ==
  Idle => \A t \in Task : tstate[t] = "waiting" /\ Known(on[t]) => t \in dropped

-----------------------------------------------------------------------------
(* The inductive invariant behind the properties above.                    *)

NoRepeat(s) == \A i, j \in 1..Len(s) : s[i] = s[j] => i = j
FiresOnce(s) == \A i, j \in 1..Len(s) : s[i].op = "fire" /\ s[i] = s[j] => i = j

\* `find` is idempotent, and a cell that is not allocated is its own class.
CellsInv ==
  /\ \A c \in Cell : canon[canon[c]] = canon[c]
  /\ \A c \in live : canon[c] \in live
  /\ \A c \in Cell \ live : canon[c] = c /\ ctor[c] = Unknown
  /\ \A k \in Constraint : on[k] \in live \cup {NoCell}

\* A stored constraint is in the canonical cell of what it was registered on,
\* and is stored there once.
PendingInv ==
  /\ PendingOnlyOnUnknown
  /\ \A c \in Cell : NoRepeat(pending[c])
  /\ \A c \in Cell : \A k \in Elements(pending[c]) : on[k] \in Cell /\ canon[on[k]] = c

DueInv ==
  /\ \A k \in Due : on[k] \in Cell
  /\ DueOnlyOnKnown
  /\ FiresOnce(stack)

\* Only a callback that was never called and a task that waits (or waited
\* when it was aborted) is held anywhere.
HeldInv ==
  /\ \A k \in Callback : on[k] \in Cell /\ Held(k) => k \notin ran
  /\ \A t \in Task : on[t] \in Cell /\ Held(t) => tstate[t] \in {"waiting", "aborted"}
  /\ \A k \in Callback : on[k] \in Cell <=> slot[k] \in Cell
  /\ \A t \in Task : tstate[t] \in {"waiting", "woken"} => on[t] \in Cell

\* Whoever has started has a slot to fill, a value has its arguments, and only
\* a task in progress holds the thread.
ShapeInv ==
  /\ running \in Task => tstate[running] \in {"running", "returning"}
  /\ \A k \in Callback : CallFrame(k) \in Elements(stack) => k \in ran
  /\ \A k \in ran : slot[k] \in Cell
  /\ \A t \in Task : tstate[t] # "none" => slot[t] \in Cell
  /\ \A c \in Cell : ctor[c] # Unknown => Len(args[c]) = Len(Sig[ctor[c]].args)

\* Only allocated cells are unified, referred to and filled.
LiveFrames(s, cs) == \A f \in Elements(s) : f.op = "unify" => f.l \in cs /\ f.r \in cs
LiveInv ==
  /\ LiveFrames(stack, live)
  /\ \A c \in Cell : Elements(args[c]) \subseteq live
  /\ \A k \in Constraint : slot[k] \in live \cup {NoCell}

IInv == /\ TypeOK /\ LiveInv /\ CellsInv /\ PendingInv /\ DueInv /\ HeldInv /\ ShapeInv
        /\ NothingLost

-----------------------------------------------------------------------------
(* The engine implements Unification: a class is the set of cells with one *)
(* canonical cell, and a constraint waits while some cell or some call in  *)
(* progress holds it.                                                      *)
Classes == {{d \in Cell : canon[d] = canon[c]} : c \in Cell}
Shapes == [c \in Cell |-> ctor[canon[c]]]
Waiting == Due \cup UNION {Elements(pending[c]) : c \in Cell}
Waits == {<<k, on[k]>> : k \in Waiting}

Promise == INSTANCE Unification WITH
  Shape <- Ctor, NoShape <- Unknown, Once <- Callback,
  classes <- Classes, shape <- Shapes, waits <- Waits, told <- ran

\* Each step of the engine is a step of Unification, or changes nothing that
\* Unification speaks of.
ImplementsUnification == Promise!USpec

-----------------------------------------------------------------------------
(* The compiler's code is finite Rust code: a callback returns and the body *)
(* of a task reaches its next await (strong fairness, because the code does *)
(* other operations in between); the engine's own loops take their next     *)
(* step.                                                                    *)
FairSpec == Spec /\ WF_vars(Engine) /\ SF_vars(Leave)

\* A task that waits for a cell that is known is woken, or an error discards
\* its waker.
WokenEventually ==
  \A t \in Task : (tstate[t] = "waiting" /\ Known(on[t]))
                    ~> (tstate[t] # "waiting" \/ t \in dropped)

\* Every unification and every round of callbacks it causes comes to an end,
\* for types that are finite (well-founded sorts).
UnifyReturns == (stack # <<>>) ~> (stack = <<>>)

=============================================================================
