----------------------------- MODULE MCInference -----------------------------
(* Small instances of Inference for TLC.                                   *)
EXTENDS InferenceProperties, TLC

\* The constructors the runs choose from: two atoms, a free type variable,
\* External<T> (the same sort as T), and records of types.  The records
\* {a, b} and {a, c} have their first field in common.
AtomSig  == [res |-> "type", args |-> <<>>]
Signatures ==
  [int  |-> AtomSig, str |-> AtomSig, name |-> AtomSig,
   ext  |-> [res |-> "type", args |-> <<"type">>],
   rec  |-> [res |-> "shape", args |-> <<"type", "type">>],
   rec2 |-> [res |-> "shape", args |-> <<"type", "type">>]]
Signature == [k \in Ctor |-> Signatures[k]]

SharedFields ==
  [a \in Ctor |-> [b \in Ctor |-> IF {a, b} = {"rec", "rec2"} THEN 1 ELSE 0]]

\* With one sort every cell is a type; with two, the last two cells hold
\* types made of the others, so that all types are finite.
CellSorts == [c \in Cell |-> IF "shape" \in Sort /\ c > 3 THEN "shape" ELSE "type"]

\* Tasks are interchangeable, and so are callbacks (safety runs only).
Symmetry == Permutations(Task) \cup Permutations(Callback)

=============================================================================
