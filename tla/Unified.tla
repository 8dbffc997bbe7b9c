------------------------------- MODULE Unified -------------------------------
(***************************************************************************)
(* What a call of unify that returns Ok has achieved.  Two history         *)
(* variables follow one outermost call, any one that is made: the pairs of *)
(* cells that it and whatever it calls unify, and, once it has returned Ok, *)
(* the pairs that it unified.                                              *)
(***************************************************************************)
EXTENDS InferenceProperties

VARIABLES
  asked,   \* the pairs that the watched call has come to so far
  agreed   \* the pairs that it unified when it returned Ok

hvars == <<vars, asked, agreed>>

\* The pairs that the calls in progress are about, either way round.
Pairs(s) == UNION {{<<f.l, f.r>>, <<f.r, f.l>>} : f \in {g \in Elements(s) : g.op = "unify"}}

HInit == Init /\ asked = {} /\ agreed = {}

\* An outermost call of unify begins: watch this one, or not.
Asks ==
  /\ stack = <<>> /\ agreed = {}
  /\ asked' \in {{}, Pairs(stack')}
  /\ UNCHANGED agreed

\* The call comes to more pairs ...
Comes ==
  /\ asked # {} /\ stack' # <<>>
  /\ asked' = asked \cup Pairs(stack')
  /\ UNCHANGED agreed

\* ... until the last call in progress returns Ok, or an error unwinds it.
Returns ==
  /\ asked # {} /\ stack' = <<>>
  /\ asked' = {}
  /\ agreed' = IF Head(stack).op \in {"err", "call"} THEN agreed ELSE asked

Unwatched == (stack # <<>> \/ agreed # {}) /\ asked = {} /\ UNCHANGED <<asked, agreed>>

HNext == Next /\ (Asks \/ Comes \/ Returns \/ Unwatched)

HSpec == HInit /\ [][HNext]_hvars

-----------------------------------------------------------------------------
\* A cell that External<T> was unified with: known to be what v is known to be.
Copies(c, v) == ctor[canon[c]] = ctor[v] /\ args[canon[c]] = args[v]

\* An External and something that is none: the External's T is paired with it.
Inside(e, v, R) ==
  /\ ctor[e] \in External /\ ctor[v] \notin External \cup {Unknown}
  /\ \E p \in R : p[1] = args[e][1] /\ Copies(p[2], v)

\* The two cells are one class, or known to be made the same way of cells that
\* are paired too.
Matched(p, R) ==
  LET l == canon[p[1]]
      r == canon[p[2]]
  IN  \/ l = r
      \/ /\ ctor[l] = ctor[r] /\ ctor[l] # Unknown
         /\ \A i \in 1..Len(args[l]) : <<args[l][i], args[r][i]>> \in R
      \/ Inside(l, r, R) \/ Inside(r, l, R)

\* unify that returned Ok has made both sides one type, down to every field:
\* whatever it came to is matched by what else it came to, and nothing that is
\* unified, fails or is called later makes them differ (inference.rs, unify).
UnifiedMeansEqual == \A p \in agreed : Matched(p, agreed)

\* While the call is in progress, a pair that is not matched will be unified
\* by a call that is under way, unless one is bound to fail.
WillBeUnified ==
  asked # {} =>
    /\ Pairs(stack) \subseteq asked
    /\ ErrFrame \in Elements(stack)
         \/ \A p \in asked : p \in Pairs(stack) \/ Matched(p, asked)

HInv == IInv /\ UnifiedMeansEqual /\ WillBeUnified /\ (stack = <<>> => asked = {})
         /\ asked \subseteq live \X live /\ agreed \subseteq live \X live
=============================================================================
