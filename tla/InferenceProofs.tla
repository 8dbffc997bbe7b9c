--------------------------- MODULE InferenceProofs ---------------------------
(* Proofs about Inference, for any cells, callbacks, tasks and constructors. *)
EXTENDS Unified, TLAPS

-----------------------------------------------------------------------------
(* Sequences: what the engine does to its queues and to its call stack.    *)

LEMMA AppendElements ==
  ASSUME NEW S, NEW s \in Seq(S), NEW e \in S
  PROVE  /\ Append(s, e) \in Seq(S)
         /\ Elements(Append(s, e)) = Elements(s) \cup {e}
         /\ NoRepeat(s) /\ e \notin Elements(s) => NoRepeat(Append(s, e))
  BY DEF Elements, NoRepeat

LEMMA ConcatElements ==
  ASSUME NEW S, NEW s \in Seq(S), NEW t \in Seq(S)
  PROVE  /\ s \o t \in Seq(S)
         /\ Elements(s \o t) = Elements(s) \cup Elements(t)
         /\ NoRepeat(s) /\ NoRepeat(t) /\ Elements(s) \cap Elements(t) = {}
              => NoRepeat(s \o t)
  <1>1. s \o t \in Seq(S) /\ Len(s \o t) = Len(s) + Len(t)
    OBVIOUS
  <1>2. \A i \in 1..Len(s) : i \in 1..Len(s \o t) /\ (s \o t)[i] = s[i]
    OBVIOUS
  <1>3. \A i \in 1..Len(t) : Len(s) + i \in 1..Len(s \o t) /\ (s \o t)[Len(s) + i] = t[i]
    OBVIOUS
  <1>4. \A i \in 1..Len(s \o t) : i \in 1..Len(s) \/ \E j \in 1..Len(t) : i = Len(s) + j
    <2> TAKE i \in 1..Len(s \o t)
    <2>1. i \in 1..Len(s) \/ (i - Len(s) \in 1..Len(t) /\ i = Len(s) + (i - Len(s)))
      BY <1>1
    <2> QED BY <2>1
  <1>5. Elements(s \o t) = Elements(s) \cup Elements(t)
    BY <1>2, <1>3, <1>4 DEF Elements
  <1>6. ASSUME NoRepeat(s), NoRepeat(t), Elements(s) \cap Elements(t) = {},
               NEW i \in 1..Len(s \o t), NEW j \in 1..Len(s \o t), (s \o t)[i] = (s \o t)[j]
        PROVE  i = j
    <2>1. \A a \in 1..Len(s), b \in 1..Len(t) : s[a] # t[b]
      BY <1>6 DEF Elements
    <2>2. CASE i \in 1..Len(s) /\ j \in 1..Len(s)
      BY <1>2, <1>6, <2>2 DEF NoRepeat
    <2>3. ASSUME NEW a \in 1..Len(t), NEW b \in 1..Len(t),
                 i = Len(s) + a, j = Len(s) + b
          PROVE  i = j
      <3>1. t[a] = t[b]
        BY <1>3, <1>6, <2>3
      <3> QED BY <1>6, <2>3, <3>1 DEF NoRepeat
    <2>4. ASSUME NEW a \in 1..Len(s), NEW b \in 1..Len(t),
                 (i = a /\ j = Len(s) + b) \/ (j = a /\ i = Len(s) + b)
          PROVE  FALSE
      BY <1>2, <1>3, <1>6, <2>1, <2>4
    <2> QED BY <1>4, <2>2, <2>3, <2>4
  <1> QED BY <1>1, <1>5, <1>6 DEF NoRepeat

LEMMA HeadTail ==
  ASSUME NEW S, NEW s \in Seq(S), s # <<>>
  PROVE  /\ Head(s) \in S
         /\ Tail(s) \in Seq(S)
         /\ Elements(s) = {Head(s)} \cup Elements(Tail(s))
         /\ FiresOnce(s) => FiresOnce(Tail(s))
         /\ FiresOnce(s) /\ Head(s).op = "fire" => Head(s) \notin Elements(Tail(s))
  <1>1. Len(s) \in Nat \ {0} /\ Head(s) = s[1] /\ Len(Tail(s)) = Len(s) - 1
    OBVIOUS
  <1>2. \A i \in 1..Len(Tail(s)) : i + 1 \in 1..Len(s) /\ Tail(s)[i] = s[i + 1]
    OBVIOUS
  <1>3. \A i \in 1..Len(s) : i = 1 \/ (i - 1 \in 1..Len(Tail(s)) /\ s[i] = Tail(s)[i - 1])
    BY <1>1, <1>2
  <1>4. Elements(s) = {Head(s)} \cup Elements(Tail(s))
    BY SMTT(60), <1>1, <1>2, <1>3 DEF Elements
  <1>5. FiresOnce(s) => FiresOnce(Tail(s))
    BY <1>2 DEF FiresOnce
  <1>6. FiresOnce(s) /\ Head(s).op = "fire" => Head(s) \notin Elements(Tail(s))
    <2> SUFFICES ASSUME FiresOnce(s), Head(s).op = "fire", NEW i \in 1..Len(Tail(s)),
                        Head(s) = Tail(s)[i]
                 PROVE  FALSE
      BY DEF Elements
    <2>1. s[1] = s[i + 1] /\ 1 \in 1..Len(s) /\ i + 1 \in 1..Len(s) /\ i + 1 # 1
      BY <1>1, <1>2
    <2> QED BY <1>1, <2>1 DEF FiresOnce
  <1> QED BY <1>1, <1>4, <1>5, <1>6

\* Calls pushed in front of the stack.
LEMMA PushFrames ==
  ASSUME NEW S, NEW s \in Seq(S), NEW t \in Seq(S),
         FiresOnce(s), FiresOnce(t),
         \A f \in Elements(s) \cap Elements(t) : f.op # "fire"
  PROVE  FiresOnce(s \o t)
  <1>1. Len(s \o t) = Len(s) + Len(t)
    OBVIOUS
  <1>2. \A i \in 1..Len(s) : (s \o t)[i] = s[i]
    OBVIOUS
  <1>3. \A i \in 1..Len(t) : (s \o t)[Len(s) + i] = t[i]
    OBVIOUS
  <1>4. \A i \in 1..Len(s \o t) : i \in 1..Len(s) \/ \E j \in 1..Len(t) : i = Len(s) + j
    <2> TAKE i \in 1..Len(s \o t)
    <2>1. i \in 1..Len(s) \/ (i - Len(s) \in 1..Len(t) /\ i = Len(s) + (i - Len(s)))
      BY <1>1
    <2> QED BY <2>1
  <1>5. \A a \in 1..Len(s), b \in 1..Len(t) : s[a] = t[b] => s[a].op # "fire"
    BY DEF Elements
  <1>6. ASSUME NEW i \in 1..Len(s \o t), NEW j \in 1..Len(s \o t),
               (s \o t)[i].op = "fire", (s \o t)[i] = (s \o t)[j]
        PROVE  i = j
    <2>1. CASE i \in 1..Len(s) /\ j \in 1..Len(s)
      BY <1>2, <1>6, <2>1 DEF FiresOnce
    <2>2. ASSUME NEW a \in 1..Len(t), NEW b \in 1..Len(t),
                 i = Len(s) + a, j = Len(s) + b
          PROVE  i = j
      <3>1. t[a] = t[b] /\ t[a].op = "fire"
        BY <1>3, <1>6, <2>2
      <3> QED BY <2>2, <3>1 DEF FiresOnce
    <2>3. ASSUME NEW a \in 1..Len(s), NEW b \in 1..Len(t),
                 (i = a /\ j = Len(s) + b) \/ (j = a /\ i = Len(s) + b)
          PROVE  FALSE
      BY <1>2, <1>3, <1>5, <1>6, <2>3
    <2> QED BY <1>4, <2>1, <2>2, <2>3
  <1> QED BY <1>6 DEF FiresOnce

-----------------------------------------------------------------------------
(* The call stack.                                                         *)

DueIn(s) == {k \in Constraint : FireFrame(k) \in Elements(s)}
CallsIn(s) == {k \in Callback : CallFrame(k) \in Elements(s)}

LEMMA FrameFacts ==
  ASSUME NEW f \in Frame
  PROVE  /\ f.op \in {"unify", "fire", "call", "err"}
         /\ f.op = "unify" => f.l \in Cell /\ f.r \in Cell
         /\ f.op = "fire" => f.k \in Constraint /\ f = FireFrame(f.k)
         /\ f.op = "call" => f.k \in Callback /\ f = CallFrame(f.k)
  BY DEF Frame, FireFrame, CallFrame

LEMMA FramesTyped ==
  /\ \A l, r \in Cell : UnifyFrame(l, r) \in Frame /\ UnifyFrame(l, r).op = "unify"
  /\ \A k \in Constraint : FireFrame(k) \in Frame /\ FireFrame(k).op = "fire" /\ FireFrame(k).k = k
  /\ \A k \in Callback : CallFrame(k) \in Frame /\ CallFrame(k).op = "call" /\ CallFrame(k).k = k
  /\ ErrFrame \in Frame /\ ErrFrame.op = "err"
  BY DEF Frame, UnifyFrame, FireFrame, CallFrame, ErrFrame

\* Frames that call no constraint, in front of a stack.
LEMMA PushQuiet ==
  ASSUME NEW s \in Seq(Frame), NEW q \in Seq(Frame), FiresOnce(s),
         \A i \in 1..Len(q) : q[i].op \in {"unify", "err"}
  PROVE  /\ q \o s \in Seq(Frame)
         /\ Elements(q \o s) = Elements(q) \cup Elements(s)
         /\ DueIn(q \o s) = DueIn(s)
         /\ CallsIn(q \o s) = CallsIn(s)
         /\ FiresOnce(q \o s)
  <1>1. q \o s \in Seq(Frame) /\ Elements(q \o s) = Elements(q) \cup Elements(s)
    BY ConcatElements
  <1>2. \A f \in Elements(q) : f.op \in {"unify", "err"}
    BY DEF Elements
  <1>3. FiresOnce(q)
    BY DEF FiresOnce
  <1>4. FiresOnce(q \o s)
    BY <1>2, <1>3, PushFrames
  <1> QED BY <1>1, <1>2, <1>4, FramesTyped DEF DueIn, CallsIn

\* Popping the innermost call.
LEMMA Pop ==
  ASSUME NEW s \in Seq(Frame), s # <<>>, FiresOnce(s)
  PROVE  /\ Tail(s) \in Seq(Frame) /\ FiresOnce(Tail(s)) /\ Head(s) \in Frame
         /\ Elements(Tail(s)) \subseteq Elements(s) /\ Head(s) \in Elements(s)
         /\ CallsIn(Tail(s)) \subseteq CallsIn(s)
         /\ Head(s).op # "fire" => DueIn(Tail(s)) = DueIn(s)
         /\ Head(s).op = "fire" => /\ Head(s).k \in DueIn(s)
                                   /\ DueIn(Tail(s)) = DueIn(s) \ {Head(s).k}
         /\ Head(s).op = "call" => Head(s).k \in CallsIn(s)
  <1>1. /\ Head(s) \in Frame /\ Tail(s) \in Seq(Frame) /\ FiresOnce(Tail(s))
        /\ Elements(s) = {Head(s)} \cup Elements(Tail(s))
        /\ Head(s).op = "fire" => Head(s) \notin Elements(Tail(s))
    BY HeadTail
  <1>2. ASSUME Head(s).op # "fire" PROVE DueIn(Tail(s)) = DueIn(s)
    BY <1>1, <1>2, FramesTyped DEF DueIn
  <1>3. ASSUME Head(s).op = "fire"
        PROVE  Head(s).k \in DueIn(s) /\ DueIn(Tail(s)) = DueIn(s) \ {Head(s).k}
    <2>1. Head(s).k \in Constraint /\ Head(s) = FireFrame(Head(s).k)
      BY <1>1, <1>3, FrameFacts
    <2>2. \A k \in Constraint : FireFrame(k) = Head(s) <=> k = Head(s).k
      BY <2>1, FramesTyped
    <2> QED BY <1>1, <1>3, <2>1, <2>2 DEF DueIn
  <1>4. Head(s).op = "call" => Head(s).k \in CallsIn(s)
    BY <1>1, FrameFacts DEF CallsIn
  <1> QED BY <1>1, <1>2, <1>3, <1>4 DEF CallsIn

\* A constraint that is to be called, in front of the stack.
LEMMA PushFire ==
  ASSUME NEW s \in Seq(Frame), FiresOnce(s), NEW k \in Constraint, k \notin DueIn(s)
  PROVE  LET t == <<FireFrame(k)>> \o s IN
         /\ t \in Seq(Frame) /\ FiresOnce(t)
         /\ DueIn(t) = DueIn(s) \cup {k} /\ CallsIn(t) = CallsIn(s)
         /\ \A cs : LiveFrames(s, cs) => LiveFrames(t, cs)
  <1> DEFINE q == <<FireFrame(k)>>
  <1>1. q \in Seq(Frame) /\ Len(q) = 1 /\ q[1] = FireFrame(k)
    BY FramesTyped
  <1>2. Elements(q) = {FireFrame(k)} /\ FiresOnce(q)
    BY <1>1 DEF Elements, FiresOnce
  <1> HIDE DEF q
  <1>3. q \o s \in Seq(Frame) /\ Elements(q \o s) = {FireFrame(k)} \cup Elements(s)
    BY <1>1, <1>2, ConcatElements
  <1>4. FireFrame(k) \notin Elements(s)
    BY DEF DueIn
  <1>5. FiresOnce(q \o s)
    BY <1>1, <1>2, <1>4, PushFrames
  <1>6. \A j \in Constraint : FireFrame(j) = FireFrame(k) <=> j = k
    BY FramesTyped
  <1>7. \A j \in Callback : CallFrame(j) # FireFrame(k)
    BY FramesTyped
  <1>8. DueIn(q \o s) = DueIn(s) \cup {k} /\ CallsIn(q \o s) = CallsIn(s)
    BY <1>3, <1>6, <1>7 DEF DueIn, CallsIn
  <1>9. \A cs : LiveFrames(s, cs) => LiveFrames(q \o s, cs)
    BY <1>3, FramesTyped DEF LiveFrames
  <1> QED BY <1>3, <1>5, <1>8, <1>9 DEF q

\* All the constraints of a cell that has become known.
LEMMA PushFires ==
  ASSUME NEW s \in Seq(Frame), FiresOnce(s), NEW ks \in Seq(Constraint), NoRepeat(ks),
         Elements(ks) \cap DueIn(s) = {}
  PROVE  LET t == Fires(ks) \o s IN
         /\ t \in Seq(Frame) /\ FiresOnce(t)
         /\ DueIn(t) = DueIn(s) \cup Elements(ks) /\ CallsIn(t) = CallsIn(s)
         /\ \A cs : LiveFrames(s, cs) => LiveFrames(t, cs)
  <1> DEFINE q == Fires(ks)
  <1>1. Len(q) = Len(ks) /\ \A i \in 1..Len(ks) : q[i] = FireFrame(ks[i]) /\ ks[i] \in Constraint
    BY DEF Fires
  <1>2. q \in Seq(Frame)
    BY FramesTyped DEF Fires
  <1>3. FiresOnce(q)
    BY <1>1, FramesTyped DEF FiresOnce, NoRepeat
  <1>4. \A k \in Constraint : FireFrame(k) \in Elements(q) <=> k \in Elements(ks)
    BY <1>1, FramesTyped DEF Elements
  <1>5. \A f \in Elements(q) : f.op = "fire" /\ f = FireFrame(f.k) /\ f.k \in Elements(ks)
    BY <1>1, FramesTyped DEF Elements
  <1> HIDE DEF q
  <1>6. q \o s \in Seq(Frame) /\ Elements(q \o s) = Elements(q) \cup Elements(s)
    BY <1>2, ConcatElements
  <1>7. \A f \in Elements(q) : f \notin Elements(s)
    <2>1. Elements(ks) \subseteq Constraint
      BY <1>1 DEF Elements
    <2> QED BY <1>5, <2>1 DEF DueIn
  <1>8. FiresOnce(q \o s)
    BY <1>2, <1>3, <1>7, PushFrames
  <1>9. Elements(ks) \subseteq Constraint
    BY <1>1 DEF Elements
  <1>10. DueIn(q \o s) = DueIn(s) \cup Elements(ks)
    BY <1>4, <1>6, <1>9 DEF DueIn
  <1>11. CallsIn(q \o s) = CallsIn(s)
    BY <1>5, <1>6, FramesTyped DEF CallsIn
  <1>12. \A cs : LiveFrames(s, cs) => LiveFrames(q \o s, cs)
    BY <1>5, <1>6 DEF LiveFrames
  <1> QED BY <1>6, <1>8, <1>10, <1>11, <1>12 DEF q

-----------------------------------------------------------------------------
(* Steps that only move calls and tasks: no cell, no queue and no          *)
(* registration changes.                                                   *)

\* A call of a constraint that is removed is accounted for, and a task that
\* is held stays waiting or aborted.
StackAccounts ==
  /\ stack' \in Seq(Frame) /\ FiresOnce(stack') /\ LiveFrames(stack', live')
  /\ DueIn(stack') \subseteq Due
  /\ CallsIn(stack') \subseteq ran'
  /\ ran \subseteq ran' /\ ran' \ ran \subseteq Callback \cap (Due \ DueIn(stack'))
  /\ dropped \subseteq dropped' /\ dropped' \subseteq Constraint
  /\ \A k \in Due \ DueIn(stack') :
       k \in ran' \cup dropped' \/ (k \in Task /\ tstate'[k] # "waiting")

TasksAccount ==
  /\ tstate' \in [Task -> TaskState]
  /\ running' \in Task \cup {Main, Nobody}
  /\ running' \in Task => tstate'[running'] \in {"running", "returning"}
  /\ \A t \in Task : tstate'[t] # tstate[t] =>
       /\ tstate[t] # "none" /\ tstate'[t] # "waiting"
       /\ tstate'[t] = "woken" => tstate[t] = "waiting"
       /\ \/ tstate'[t] = "aborted"
          \/ tstate[t] \notin {"waiting", "aborted"}
          \/ t \in Due \ DueIn(stack')

LEMMA DueDisjoint ==
  ASSUME IInv
  PROVE  \A k \in Due : \A c \in Cell : k \notin Elements(pending[c])
  <1> SUFFICES ASSUME NEW k \in Due, NEW c \in Cell, k \in Elements(pending[c])
               PROVE  FALSE
    OBVIOUS
  <1>1. pending[c] # <<>>
    BY DEF Elements
  <1>2. ctor[c] = Unknown /\ canon[on[k]] = c
    BY <1>1 DEF IInv, PendingInv, PendingOnlyOnUnknown
  <1> QED BY <1>2 DEF IInv, DueInv, DueOnlyOnKnown, Known

LEMMA StackStep ==
  ASSUME IInv, UNCHANGED <<cells, pending, on, slot>>, StackAccounts, TasksAccount
  PROVE  IInv'
  <1>0. UNCHANGED <<live, canon, ctor, args>>
    BY DEF cells
  <1>1. Due = DueIn(stack) /\ Due' = DueIn(stack')
    BY DEF Due, DueIn
  <1>2. TypeOK'
    BY <1>0 DEF IInv, TypeOK, StackAccounts, TasksAccount
  <1>8. LiveInv'
    BY <1>0 DEF IInv, LiveInv, StackAccounts
  <1>3. CellsInv' /\ PendingInv'
    BY <1>0 DEF IInv, CellsInv, PendingInv, PendingOnlyOnUnknown
  <1>4. DueInv'
    BY <1>0, <1>1 DEF IInv, DueInv, DueOnlyOnKnown, Known, StackAccounts
  <1>5. HeldInv'
    <2>1. ASSUME NEW k \in Callback, on[k] \in Cell, Held(k)' PROVE k \notin ran'
      <3>1. Held(k) /\ k \notin ran
        BY <1>0, <1>1, <2>1 DEF Held, StackAccounts, IInv, HeldInv
      <3>2. CASE k \in Due'
        BY <1>1, <3>1, <3>2 DEF StackAccounts
      <3>3. CASE k \in Elements(pending[canon[on[k]]])
        <4>1. canon[on[k]] \in Cell
          BY <2>1 DEF IInv, TypeOK
        <4>2. k \notin Due
          BY <3>3, <4>1, DueDisjoint
        <4> QED BY <3>1, <4>2 DEF StackAccounts
      <3> QED BY <1>0, <2>1, <3>2, <3>3 DEF Held
    <2>2. ASSUME NEW t \in Task, on[t] \in Cell, Held(t)'
          PROVE  tstate'[t] \in {"waiting", "aborted"}
      <3>1. Held(t) /\ tstate[t] \in {"waiting", "aborted"}
        BY <1>0, <1>1, <2>2 DEF Held, StackAccounts, IInv, HeldInv
      <3>2. ~(t \in Due \ DueIn(stack'))
        <4>1. canon[on[t]] \in Cell
          BY <2>2 DEF IInv, TypeOK
        <4> QED BY <1>0, <1>1, <2>2, <4>1, DueDisjoint DEF Held
      <3> QED BY <3>1, <3>2 DEF TasksAccount
    <2>3. \A k \in Callback : (on[k] \in Cell <=> slot[k] \in Cell)'
      BY <1>0 DEF IInv, HeldInv
    <2>4. ASSUME NEW t \in Task, tstate'[t] \in {"waiting", "woken"} PROVE on[t] \in Cell
      BY <2>4 DEF TasksAccount, IInv, HeldInv
    <2> QED BY <1>0, <2>1, <2>2, <2>3, <2>4 DEF HeldInv
  <1>6. ShapeInv'
    <2>1. \A k \in ran' : slot[k] \in Cell
      <3> TAKE k \in ran'
      <3>1. CASE k \in ran
        BY <3>1 DEF IInv, ShapeInv
      <3>2. CASE k \in ran' \ ran
        BY <3>2 DEF StackAccounts, IInv, DueInv, HeldInv
      <3> QED BY <3>1, <3>2
    <2> QED BY <1>0, <2>1 DEF IInv, ShapeInv, StackAccounts, TasksAccount, CallsIn
  <1>7. NothingLost'
    <2>1. ASSUME NEW k \in Callback, slot[k] # NoCell
          PROVE  k \in ran' \/ k \in dropped' \/ Held(k)'
      <3>1. k \in ran \/ k \in dropped \/ Held(k)
        BY <2>1 DEF IInv, NothingLost
      <3>2. k \notin Task
        BY ConstantsAssumption
      <3> QED BY <1>0, <1>1, <3>1, <3>2 DEF Held, StackAccounts
    <2>2. ASSUME NEW t \in Task, tstate'[t] = "waiting"
          PROVE  t \in dropped' \/ Held(t)'
      <3>1. tstate[t] = "waiting" /\ (t \in dropped \/ Held(t))
        BY <2>2 DEF TasksAccount, IInv, NothingLost
      <3>2. t \notin ran'
        BY ConstantsAssumption DEF StackAccounts, IInv, TypeOK
      <3> QED BY <1>0, <1>1, <2>2, <3>1, <3>2 DEF Held, StackAccounts
    <2> QED BY <1>0, <2>1, <2>2 DEF NothingLost
  <1> QED BY <1>2, <1>3, <1>4, <1>5, <1>6, <1>7, <1>8 DEF IInv

\* The conditions of StackStep when calls and history stay as they are.
LEMMA SameCalls ==
  ASSUME IInv, stack' \in Seq(Frame), FiresOnce(stack'), DueIn(stack') = Due,
         CallsIn(stack') \subseteq CallsIn(stack), LiveFrames(stack', live'),
         UNCHANGED <<ran, dropped>>
  PROVE  StackAccounts
  BY DEF IInv, TypeOK, ShapeInv, CallsIn, StackAccounts

LEMMA SameTasks ==
  ASSUME IInv, UNCHANGED <<tstate, running>>
  PROVE  TasksAccount
  BY DEF IInv, TypeOK, ShapeInv, TasksAccount

\* One task moves between states that no constraint depends on.
LEMMA OneTask ==
  ASSUME IInv, NEW t \in Task, NEW x \in TaskState \ {"waiting", "woken"},
         tstate[t] \notin {"none", "waiting", "aborted"},
         tstate' = [tstate EXCEPT ![t] = x],
         running' \in {Main, Nobody} \/ (running' = t /\ x \in {"running", "returning"})
  PROVE  TasksAccount
  BY ConstantsAssumption DEF IInv, TypeOK, TasksAccount, TaskState

\* The innermost call replaced by calls of unify.
LEMMA ReplaceTop ==
  ASSUME IInv, NEW q \in Seq(Frame), \A i \in 1..Len(q) : q[i].op \in {"unify", "err"},
         stack # <<>>, Head(stack).op # "fire", stack' = q \o Tail(stack),
         live \subseteq live', LiveFrames(q, live'), UNCHANGED <<ran, dropped>>
  PROVE  StackAccounts /\ Due' = Due
  <1>1. stack \in Seq(Frame) /\ FiresOnce(stack)
    BY DEF IInv, TypeOK, DueInv
  <1>2. /\ Tail(stack) \in Seq(Frame) /\ FiresOnce(Tail(stack))
        /\ CallsIn(Tail(stack)) \subseteq CallsIn(stack) /\ DueIn(Tail(stack)) = DueIn(stack)
    BY <1>1, Pop
  <1>3. /\ stack' \in Seq(Frame) /\ FiresOnce(stack')
        /\ DueIn(stack') = DueIn(Tail(stack)) /\ CallsIn(stack') = CallsIn(Tail(stack))
        /\ Elements(stack') = Elements(q) \cup Elements(Tail(stack))
    BY <1>2, PushQuiet
  <1>4. Due = DueIn(stack) /\ Due' = DueIn(stack')
    BY DEF Due, DueIn
  <1>5. LiveFrames(stack', live')
    <2>1. Elements(Tail(stack)) \subseteq Elements(stack)
      BY <1>1, Pop
    <2> QED BY <1>3, <2>1 DEF LiveFrames, IInv, LiveInv
  <1> QED BY <1>2, <1>3, <1>4, <1>5, SameCalls

LEMMA OneFrame ==
  ASSUME NEW l \in Cell, NEW r \in Cell
  PROVE  /\ \A cs : l \in cs /\ r \in cs => LiveFrames(<<UnifyFrame(l, r)>>, cs)
         /\ <<UnifyFrame(l, r)>> \in Seq(Frame)
         /\ \A i \in 1..Len(<<UnifyFrame(l, r)>>) : <<UnifyFrame(l, r)>>[i].op \in {"unify", "err"}
  BY FramesTyped DEF LiveFrames, Elements, UnifyFrame

LEMMA UnifyStep ==
  ASSUME IInv, NEW l \in live, NEW r \in live, Unify(l, r)
  PROVE  IInv' /\ Due' = Due
  <1>0. l \in Cell /\ r \in Cell /\ live' = live
    BY DEF IInv, TypeOK, Unify, cells
  <1>1. stack \in Seq(Frame) /\ FiresOnce(stack) /\ Due = DueIn(stack) /\ Due' = DueIn(stack')
    BY DEF IInv, TypeOK, DueInv, Due, DueIn
  <1>2. /\ stack' \in Seq(Frame) /\ FiresOnce(stack')
        /\ DueIn(stack') = DueIn(stack) /\ CallsIn(stack') = CallsIn(stack)
        /\ Elements(stack') = Elements(<<UnifyFrame(l, r)>>) \cup Elements(stack)
    BY <1>0, <1>1, PushQuiet, OneFrame DEF Unify
  <1>3. LiveFrames(stack', live')
    BY <1>0, <1>2, OneFrame DEF IInv, LiveInv, LiveFrames
  <1> QED BY <1>1, <1>2, <1>3, SameCalls, SameTasks, StackStep DEF Unify

\* The cells that the innermost unify is about.
LEMMA Sides ==
  ASSUME IInv, Top("unify")
  PROVE  /\ Left \in Cell /\ Right \in Cell /\ Left \in live /\ Right \in live
         /\ canon[Left] = Left /\ canon[Right] = Right
  <1>1. stack \in Seq(Frame) /\ stack # <<>> /\ Head(stack).op = "unify"
    BY DEF IInv, TypeOK, Top
  <1>2. Head(stack) \in Frame
    BY <1>1, HeadTail
  <1>3. Head(stack).l \in Cell /\ Head(stack).r \in Cell
    BY <1>1, <1>2, FrameFacts
  <1>4. Head(stack).l \in live /\ Head(stack).r \in live
    BY <1>1, HeadTail DEF IInv, LiveInv, LiveFrames
  <1> QED BY <1>3, <1>4 DEF Left, Right, IInv, TypeOK, CellsInv

LEMMA UnifySameStep == ASSUME IInv, UnifySame PROVE IInv' /\ Due' = Due
  <1>1. stack \in Seq(Frame) /\ FiresOnce(stack) /\ Due = DueIn(stack) /\ Due' = DueIn(stack')
    BY DEF IInv, TypeOK, DueInv, Due, DueIn
  <1>2. stack # <<>> /\ Head(stack).op = "unify" /\ stack' = Tail(stack)
    BY DEF UnifySame, Top
  <1>3. /\ stack' \in Seq(Frame) /\ FiresOnce(stack')
        /\ DueIn(stack') = DueIn(stack) /\ CallsIn(stack') \subseteq CallsIn(stack)
        /\ Elements(stack') \subseteq Elements(stack)
    BY <1>1, <1>2, Pop
  <1>4. LiveFrames(stack', live')
    BY <1>3 DEF UnifySame, cells, LiveFrames, IInv, LiveInv
  <1> QED BY <1>1, <1>3, <1>4, SameCalls, SameTasks, StackStep DEF UnifySame

\* Which arguments two known values have unified.
LEMMA ArgFramesFacts ==
  ASSUME IInv, UnifyValues
  PROVE  LET n == Common(ctor[Left], ctor[Right]) IN
         /\ n \in Nat /\ n <= Len(args[Left]) /\ n <= Len(args[Right])
         /\ args[Left] \in Seq(Cell) /\ args[Right] \in Seq(Cell)
         /\ Agree(ctor[Left], ctor[Right]) => n = Len(args[Left]) /\ n = Len(args[Right])
         /\ ArgFrames(Left, Right) \in Seq(Frame) /\ Len(ArgFrames(Left, Right)) = n
         /\ \A i \in 1..n : ArgFrames(Left, Right)[i].op = "unify"
  <1> DEFINE n == Common(ctor[Left], ctor[Right])
  <1>1. Top("unify") /\ ctor[Left] # Unknown /\ ctor[Right] # Unknown
    BY DEF UnifyValues, BothKnown
  <1>2. /\ Left \in Cell /\ Right \in Cell
        /\ ctor[Left] \in Ctor /\ ctor[Right] \in Ctor
        /\ args[Left] \in Seq(Cell) /\ args[Right] \in Seq(Cell)
        /\ Len(args[Left]) = Len(Sig[ctor[Left]].args)
        /\ Len(args[Right]) = Len(Sig[ctor[Right]].args)
    BY <1>1, Sides DEF IInv, TypeOK, ShapeInv
  <1>3. n \in Nat /\ n <= Len(args[Left]) /\ n <= Len(args[Right])
    <2>1. CASE Agree(ctor[Left], ctor[Right])
      BY <1>2, <2>1 DEF Common, Agree
    <2>2. CASE ~Agree(ctor[Left], ctor[Right])
      <3>1. n = Shared[ctor[Left]][ctor[Right]]
        BY <2>2 DEF Common
      <3> HIDE DEF n
      <3> QED BY <1>2, <3>1, ConstantsAssumption
    <2> QED BY <2>1, <2>2
  <1>4. \A i \in 1..n : args[Left][i] \in Cell /\ args[Right][i] \in Cell
    BY <1>2, <1>3
  <1>5. /\ ArgFrames(Left, Right) \in Seq(Frame) /\ Len(ArgFrames(Left, Right)) = n
        /\ \A i \in 1..n : ArgFrames(Left, Right)[i].op = "unify"
    BY <1>3, <1>4, FramesTyped DEF ArgFrames
  <1>6. Agree(ctor[Left], ctor[Right]) => n = Len(args[Left]) /\ n = Len(args[Right])
    BY <1>2 DEF Common, Agree
  <1> QED BY <1>2, <1>3, <1>5, <1>6

LEMMA UnifyValuesStep == ASSUME IInv, UnifyValues PROVE IInv' /\ Due' = Due
  <1> DEFINE n == Common(ctor[Left], ctor[Right])
             e == IF Agree(ctor[Left], ctor[Right]) THEN <<>> ELSE <<ErrFrame>>
             q == ArgFrames(Left, Right) \o e
  <1>1. Top("unify") /\ Left \in Cell /\ Right \in Cell
    BY Sides DEF UnifyValues, BothKnown
  <1>2. args[Left] \in Seq(Cell) /\ args[Right] \in Seq(Cell)
    BY ArgFramesFacts
  <1>3. n \in Nat /\ n <= Len(args[Left]) /\ n <= Len(args[Right])
    BY ArgFramesFacts
  <1>5. /\ ArgFrames(Left, Right) \in Seq(Frame) /\ Len(ArgFrames(Left, Right)) = n
        /\ \A i \in 1..n : ArgFrames(Left, Right)[i].op = "unify"
    BY ArgFramesFacts
  <1>6. e \in Seq(Frame) /\ \A i \in 1..Len(e) : e[i].op = "err"
    BY FramesTyped
  <1>7. q \in Seq(Frame) /\ Elements(q) = Elements(ArgFrames(Left, Right)) \cup Elements(e)
    <2> HIDE DEF e
    <2> QED BY <1>5, <1>6, ConcatElements
  <1>8. \A i \in 1..Len(q) : q[i].op \in {"unify", "err"}
    <2>1. \A f \in Elements(ArgFrames(Left, Right)) : f.op = "unify"
      BY <1>5 DEF Elements
    <2>2. \A f \in Elements(e) : f.op = "err"
      BY <1>6 DEF Elements
    <2>3. \A i \in 1..Len(q) : q[i] \in Elements(q)
      BY DEF Elements
    <2> HIDE DEF q, e
    <2> QED BY <1>7, <2>1, <2>2, <2>3
  <1>9. stack' = q \o Tail(stack) /\ stack # <<>> /\ Head(stack).op = "unify"
    BY <1>1 DEF UnifyValues, Top
  <1>10. LiveFrames(q, live)
    <2>1. \A i \in 1..n : args[Left][i] \in live /\ args[Right][i] \in live
      BY <1>1, <1>2, <1>3 DEF IInv, LiveInv, Elements
    <2>2. LiveFrames(ArgFrames(Left, Right), live)
      BY <1>3, <2>1 DEF ArgFrames, LiveFrames, Elements, UnifyFrame
    <2> QED BY <1>6, <1>7, <2>2 DEF LiveFrames, Elements
  <1> HIDE DEF q
  <1>11. StackAccounts /\ Due' = Due
    BY <1>7, <1>8, <1>9, <1>10, ReplaceTop DEF UnifyValues, cells
  <1> QED BY <1>11, SameTasks, StackStep DEF UnifyValues

LEMMA MismatchStep == ASSUME IInv, Unwind PROVE IInv'
  <1>1. stack' = <<>> /\ dropped' = dropped \cup Due
    BY DEF Unwind
  <1>2. Elements(<<>>) = {} /\ FiresOnce(<<>>) /\ <<>> \in Seq(Frame)
    BY DEF Elements, FiresOnce
  <1>3. StackAccounts
    BY <1>1, <1>2 DEF Unwind, StackAccounts, DueIn, CallsIn, Due, LiveFrames, IInv, TypeOK
  <1>4. CASE running \in Task
    <2>1. tstate[running] \in {"running", "returning"}
      BY <1>4 DEF IInv, ShapeInv
    <2>2. tstate' = [tstate EXCEPT ![running] = "failed"] /\ running' = Nobody
      BY <1>4 DEF Unwind
    <2>3. TasksAccount
      BY <1>4, <2>1, <2>2, OneTask DEF TaskState
    <2> QED BY <1>3, <2>3, StackStep DEF Unwind
  <1>5. CASE running \notin Task
    BY <1>3, <1>5, SameTasks, StackStep DEF Unwind
  <1> QED BY <1>4, <1>5

LEMMA FireWakerStep ==
  ASSUME IInv, NEW t \in Task, FireWaker(t)
  PROVE  IInv' /\ t \in Due /\ Due' = Due \ {t}
  <1>1. stack \in Seq(Frame) /\ FiresOnce(stack) /\ Due = DueIn(stack) /\ Due' = DueIn(stack')
    BY DEF IInv, TypeOK, DueInv, Due, DueIn
  <1>2. stack # <<>> /\ Head(stack).op = "fire" /\ Head(stack).k = t /\ stack' = Tail(stack)
    BY DEF FireWaker, Top
  <1>3. /\ stack' \in Seq(Frame) /\ FiresOnce(stack') /\ t \in Due
        /\ DueIn(stack') = Due \ {t} /\ CallsIn(stack') \subseteq CallsIn(stack)
        /\ Elements(stack') \subseteq Elements(stack)
    BY <1>1, <1>2, Pop
  <1>4. tstate'[t] # "waiting"
    BY DEF FireWaker, IInv, TypeOK
  <1>5. StackAccounts
    <2>1. LiveFrames(stack', live')
      BY <1>3 DEF FireWaker, cells, LiveFrames, IInv, LiveInv
    <2> QED BY <1>3, <1>4, <2>1 DEF FireWaker, StackAccounts, IInv, TypeOK, ShapeInv, CallsIn
  <1>6. TasksAccount
    BY <1>3 DEF FireWaker, TasksAccount, IInv, TypeOK, ShapeInv, TaskState
  <1> QED BY <1>1, <1>3, <1>5, <1>6, StackStep DEF FireWaker

LEMMA CallFrameOnTop ==
  ASSUME IInv, NEW k \in Callback
  PROVE  /\ <<CallFrame(k)>> \in Seq(Frame)
         /\ Elements(<<CallFrame(k)>>) = {CallFrame(k)}
         /\ FiresOnce(<<CallFrame(k)>>)
  BY FramesTyped DEF Elements, FiresOnce

LEMMA FireCallbackStep ==
  ASSUME IInv, NEW k \in Callback, FireCallback(k)
  PROVE  IInv' /\ k \in Due /\ Due' = Due \ {k}
  <1> DEFINE q == <<CallFrame(k)>>
  <1>1. stack \in Seq(Frame) /\ FiresOnce(stack) /\ Due = DueIn(stack) /\ Due' = DueIn(stack')
    BY DEF IInv, TypeOK, DueInv, Due, DueIn
  <1>2. stack # <<>> /\ Head(stack).op = "fire" /\ Head(stack).k = k /\ stack' = q \o Tail(stack)
    BY DEF FireCallback, Top
  <1>3. /\ Tail(stack) \in Seq(Frame) /\ FiresOnce(Tail(stack)) /\ k \in Due
        /\ DueIn(Tail(stack)) = Due \ {k} /\ CallsIn(Tail(stack)) \subseteq CallsIn(stack)
        /\ Elements(Tail(stack)) \subseteq Elements(stack)
    BY <1>1, <1>2, Pop
  <1>4. q \in Seq(Frame) /\ Elements(q) = {CallFrame(k)} /\ FiresOnce(q)
    BY CallFrameOnTop
  <1> HIDE DEF q
  <1>5. stack' \in Seq(Frame) /\ Elements(stack') = {CallFrame(k)} \cup Elements(Tail(stack))
    <2>1. /\ q \o Tail(stack) \in Seq(Frame)
          /\ Elements(q \o Tail(stack)) = Elements(q) \cup Elements(Tail(stack))
      <3>1. q \in Seq(Frame) /\ Tail(stack) \in Seq(Frame)
        BY <1>3, <1>4
      <3> QED BY ONLY ZenonT(60), <3>1, ConcatElements
    <2> QED BY <1>2, <1>4, <2>1
  <1>6. CallFrame(k).op = "call"
    BY FramesTyped
  <1>7. FiresOnce(stack')
    BY <1>2, <1>3, <1>4, <1>6, PushFrames
  <1>8. DueIn(stack') = Due \ {k}
    BY <1>3, <1>5, FramesTyped DEF DueIn
  <1>9. CallsIn(stack') \subseteq CallsIn(stack) \cup {k}
    BY <1>3, <1>5, FramesTyped DEF CallsIn
  <1>10. ran' = ran \cup {k} /\ dropped' = dropped
    BY DEF FireCallback
  <1>11. LiveFrames(stack', live')
    BY <1>3, <1>5, <1>6 DEF FireCallback, cells, LiveFrames, IInv, LiveInv
  <1>12. StackAccounts
    BY <1>3, <1>5, <1>7, <1>8, <1>9, <1>10, <1>11
    DEF StackAccounts, IInv, TypeOK, ShapeInv, CallsIn
  <1> QED BY <1>1, <1>3, <1>8, <1>12, SameTasks, StackStep DEF FireCallback

LEMMA CallbackReturnsStep ==
  ASSUME IInv, NEW r \in live, CallbackReturns(r)
  PROVE  IInv' /\ Due' = Due
  <1>1. stack # <<>> /\ Head(stack).op = "call" /\ stack \in Seq(Frame) /\ FiresOnce(stack)
    BY DEF CallbackReturns, Top, IInv, TypeOK, DueInv
  <1>2. Head(stack).k \in CallsIn(stack)
    BY <1>1, Pop
  <1>3. slot[Head(stack).k] \in Cell /\ slot[Head(stack).k] \in live /\ r \in Cell
    BY <1>2, ConstantsAssumption DEF CallsIn, IInv, ShapeInv, LiveInv, TypeOK, Constraint
  <1>4. StackAccounts /\ Due' = Due
    BY <1>1, <1>3, ReplaceTop, OneFrame DEF CallbackReturns, cells
  <1> QED BY <1>4, SameTasks, StackStep DEF CallbackReturns

LEMMA TaskReturnsStep ==
  ASSUME IInv, NEW t \in Task, NEW r \in live, TaskReturns(t, r)
  PROVE  IInv' /\ Due' = Due
  <1>1. /\ stack = <<>> /\ tstate[t] = "running" /\ running = t
        /\ slot[t] \in Cell /\ slot[t] \in live /\ r \in Cell /\ live' = live
    BY ConstantsAssumption
    DEF TaskReturns, InTask, cells, IInv, ShapeInv, LiveInv, TypeOK, Constraint
  <1>2. stack \in Seq(Frame) /\ FiresOnce(stack) /\ Due = DueIn(stack) /\ Due' = DueIn(stack')
    BY DEF IInv, TypeOK, DueInv, Due, DueIn
  <1>3. stack' = <<UnifyFrame(slot[t], r)>> \o stack
    BY <1>1 DEF TaskReturns
  <1>4. /\ stack' \in Seq(Frame) /\ FiresOnce(stack')
        /\ DueIn(stack') = DueIn(stack) /\ CallsIn(stack') = CallsIn(stack)
        /\ Elements(stack') = Elements(<<UnifyFrame(slot[t], r)>>) \cup Elements(stack)
    BY <1>1, <1>2, <1>3, PushQuiet, OneFrame
  <1>5. StackAccounts
    <2>1. LiveFrames(stack', live')
      BY <1>1, <1>4, OneFrame DEF IInv, LiveInv, LiveFrames
    <2> QED BY <1>2, <1>4, <2>1, SameCalls DEF TaskReturns
  <1>6. TasksAccount
    BY <1>1, OneTask DEF TaskReturns, TaskState
  <1> QED BY <1>2, <1>4, <1>5, <1>6, StackStep DEF TaskReturns

\* Start, TaskDone, Drive and Collect leave the stack alone.
LEMMA ScheduleStep ==
  ASSUME IInv, (\E t \in Task : Start(t) \/ TaskDone(t)) \/ Drive \/ Collect
  PROVE  IInv'
  <1>1. UNCHANGED <<cells, pending, stack, on, slot, ran, dropped>>
    BY DEF Start, TaskDone, Drive, Collect
  <1>2. StackAccounts
    BY <1>1, SameCalls DEF cells, IInv, TypeOK, LiveInv, DueInv, Due, DueIn
  <1>3. ASSUME NEW t \in Task, Start(t) PROVE TasksAccount
    BY <1>3, OneTask DEF Start, TaskState
  <1>4. ASSUME NEW t \in Task, TaskDone(t) PROVE TasksAccount
    BY <1>4, OneTask DEF TaskDone, InTask, TaskState
  <1>7. tstate \in [Task -> TaskState] /\ Main \notin Task /\ Nobody \notin Task
    BY ConstantsAssumption DEF IInv, TypeOK
  <1>5. ASSUME Drive PROVE TasksAccount
    BY <1>7, <1>5 DEF Drive, TasksAccount
  <1>6. ASSUME Collect PROVE TasksAccount
    BY <1>7, <1>6 DEF Collect, TasksAccount, TaskState
  <1> QED BY <1>1, <1>2, <1>3, <1>4, <1>5, <1>6, StackStep

-----------------------------------------------------------------------------
(* Steps that allocate a cell.                                             *)

LEMMA FreshIsUnused ==
  ASSUME NEW s, Unused(s) # {}
  PROVE  Fresh(s) \in Cell \ live
  BY DEF Fresh, Unused

LEMMA Unallocated ==
  ASSUME IInv, NEW c \in Cell \ live
  PROVE  /\ canon[c] = c /\ ctor[c] = Unknown /\ pending[c] = <<>>
         /\ \A d \in live : canon[d] # c
         /\ \A k \in Constraint : on[k] # c
  <1>1. canon[c] = c /\ ctor[c] = Unknown /\ \A d \in live : canon[d] # c
    BY DEF IInv, CellsInv
  <1>2. \A k \in Constraint : on[k] # c
    BY ConstantsAssumption DEF IInv, CellsInv
  <1>3. pending[c] = <<>>
    <2> SUFFICES ASSUME pending[c] # <<>> PROVE FALSE
      OBVIOUS
    <2>1. pending[c] \in Seq(Constraint)
      BY DEF IInv, TypeOK
    <2>2. pending[c][1] \in Elements(pending[c]) /\ pending[c][1] \in Constraint
      BY <2>1 DEF Elements
    <2>3. on[pending[c][1]] \in Cell /\ canon[on[pending[c][1]]] = c
      BY <2>2 DEF IInv, PendingInv
    <2>4. on[pending[c][1]] \in live
      BY <2>2, <2>3, ConstantsAssumption DEF IInv, CellsInv
    <2> QED BY <1>1, <2>3, <2>4
  <1> QED BY <1>1, <1>2, <1>3

LEMMA AllocateStep ==
  ASSUME IInv, NEW c \in Cell \ live, live' = live \cup {c},
         ctor' \in [Cell -> Ctor \cup {Unknown}], args' \in [Cell -> Seq(Cell)],
         \A d \in Cell \ {c} : ctor'[d] = ctor[d] /\ args'[d] = args[d],
         ctor'[c] # Unknown => Len(args'[c]) = Len(Sig[ctor'[c]].args),
         Elements(args'[c]) \subseteq live,
         StackAccounts, DueIn(stack') = Due,
         UNCHANGED <<canon, pending, on, slot, tstate, running, ran, dropped>>
  PROVE  IInv'
  <1>1. Due' = Due
    BY DEF Due, DueIn
  <1>2. /\ canon[c] = c /\ pending[c] = <<>>
        /\ \A d \in live : canon[d] \in live /\ canon[d] # c
    BY Unallocated DEF IInv, CellsInv
  <1>3. TypeOK'
    BY DEF IInv, TypeOK, StackAccounts
  <1>9. LiveInv'
    BY DEF IInv, LiveInv, StackAccounts
  <1>4. CellsInv'
    BY DEF IInv, CellsInv, TypeOK
  <1>5. PendingInv'
    BY <1>2 DEF IInv, PendingInv, PendingOnlyOnUnknown
  <1>6. DueInv'
    <2>1. \A k \in Due : on[k] \in live
      BY ConstantsAssumption DEF IInv, DueInv, CellsInv, Due
    <2>2. \A k \in Due : canon[on[k]] \in Cell \ {c} /\ ctor[canon[on[k]]] # Unknown
      BY <1>2, <2>1 DEF IInv, DueInv, DueOnlyOnKnown, Known, TypeOK
    <2>3. (DueOnlyOnKnown)'
      BY <1>1, <2>2 DEF DueOnlyOnKnown, Known
    <2> QED BY <1>1, <2>3 DEF IInv, DueInv, StackAccounts
  <1>7. HeldInv' /\ NothingLost'
    BY <1>1 DEF IInv, HeldInv, NothingLost, Held
  <1>8. ShapeInv'
    BY DEF IInv, ShapeInv, StackAccounts, CallsIn
  <1> QED BY <1>3, <1>4, <1>5, <1>6, <1>7, <1>8, <1>9 DEF IInv

LEMMA SameStack ==
  ASSUME IInv, live \subseteq live', UNCHANGED <<stack, ran, dropped>>
  PROVE  StackAccounts /\ DueIn(stack') = Due
  BY SameCalls DEF IInv, TypeOK, LiveInv, LiveFrames, DueInv, Due, DueIn

LEMMA NewUnknownStep == ASSUME IInv, NEW s, NewUnknown(s) PROVE IInv'
  <1>1. Fresh(s) \in Cell \ live /\ live' = live \cup {Fresh(s)}
    BY FreshIsUnused DEF NewUnknown
  <1>2. UNCHANGED <<canon, ctor, args, pending, stack, on, slot, tstate, running, ran, dropped>>
    BY DEF NewUnknown
  <1>3. ctor[Fresh(s)] = Unknown
    BY <1>1, Unallocated
  <1>4. Elements(args[Fresh(s)]) \subseteq live
    BY <1>1 DEF IInv, LiveInv
  <1> QED BY <1>1, <1>2, <1>3, <1>4, AllocateStep, SameStack DEF IInv, TypeOK

LEMMA NewKnownStep ==
  ASSUME IInv, NEW k \in Ctor, NEW as \in [1..Len(Sig[k].args) -> live], NewKnown(k, as)
  PROVE  IInv'
  <1> DEFINE c == Fresh(Sig[k].res)
  <1>1. c \in Cell \ live
    BY FreshIsUnused DEF NewKnown
  <1> HIDE DEF c
  <1>2. as \in Seq(Cell) /\ Len(as) = Len(Sig[k].args) /\ Elements(as) \subseteq live
    <2>1. Len(Sig[k].args) \in Nat
      <3>1. Sig[k].args \in Seq(Sort)
        BY ConstantsAssumption
      <3> QED BY <3>1
    <2>2. \A S : \A n \in Nat : \A a \in [1..n -> S] : a \in Seq(S) /\ Len(a) = n
      OBVIOUS
    <2>3. Elements(as) \subseteq live
      BY <2>1, <2>2 DEF Elements
    <2>4. as \in [1..Len(Sig[k].args) -> Cell]
      BY DEF IInv, TypeOK
    <2> QED BY ZenonT(60), <2>1, <2>2, <2>3, <2>4
  <1>3. /\ live' = live \cup {c}
        /\ ctor' = [ctor EXCEPT ![c] = k] /\ args' = [args EXCEPT ![c] = as]
        /\ UNCHANGED <<canon, pending, stack, on, slot, tstate, running, ran, dropped>>
    BY DEF NewKnown, c
  <1>4. ctor \in [Cell -> Ctor \cup {Unknown}] /\ args \in [Cell -> Seq(Cell)]
    BY DEF IInv, TypeOK
  <1> QED BY <1>1, <1>2, <1>3, <1>4, AllocateStep, SameStack

LEMMA UnifyExternalStep ==
  ASSUME IInv, NEW e \in Cell, NEW v \in Cell, UnifyExternal(e, v)
  PROVE  IInv' /\ Due' = Due
  <1> DEFINE c == Fresh(Sig[ctor[v]].res)
  <1>1. c \in Cell \ live
    BY FreshIsUnused DEF UnifyExternal
  <1> HIDE DEF c
  <1>2. /\ live' = live \cup {c}
        /\ ctor' = [ctor EXCEPT ![c] = ctor[v]] /\ args' = [args EXCEPT ![c] = args[v]]
        /\ stack' = <<UnifyFrame(args[e][1], c)>> \o Tail(stack)
        /\ UNCHANGED <<canon, pending, on, slot, tstate, running, ran, dropped>>
    BY DEF UnifyExternal, c
  <1>3. /\ ctor[e] \in External /\ ctor[v] # Unknown
        /\ stack # <<>> /\ Head(stack).op = "unify"
    BY DEF UnifyExternal, BothKnown, Top
  <1>4. ctor \in [Cell -> Ctor \cup {Unknown}] /\ args \in [Cell -> Seq(Cell)]
    BY DEF IInv, TypeOK
  <1>5. ctor[e] \in Ctor /\ ctor[e] # Unknown /\ Len(Sig[ctor[e]].args) = 1
    BY <1>3, ConstantsAssumption
  <1>6. args[e][1] \in Cell /\ args[e][1] \in live
    BY <1>4, <1>5 DEF IInv, ShapeInv, LiveInv, Elements
  <1>7. StackAccounts
    <2> DEFINE q == <<UnifyFrame(args[e][1], c)>>
    <2>1. c \in Cell /\ live \subseteq live' /\ args[e][1] \in live' /\ c \in live'
      BY <1>1, <1>2, <1>6
    <2>2. /\ q \in Seq(Frame) /\ LiveFrames(q, live')
          /\ \A i \in 1..Len(q) : q[i].op \in {"unify", "err"}
      BY <1>6, <2>1, OneFrame
    <2>3. stack' = q \o Tail(stack) /\ Head(stack).op # "fire" /\ stack # <<>>
      BY <1>2, <1>3
    <2>4. UNCHANGED <<ran, dropped>>
      BY <1>2
    <2> HIDE DEF q
    <2> QED BY <2>1, <2>2, <2>3, <2>4, ReplaceTop
  <1>8. DueIn(stack') = Due /\ Due' = DueIn(stack')
    <2>1. stack \in Seq(Frame) /\ FiresOnce(stack) /\ Due = DueIn(stack)
      BY DEF IInv, TypeOK, DueInv, Due, DueIn
    <2>2. Tail(stack) \in Seq(Frame) /\ FiresOnce(Tail(stack)) /\ DueIn(Tail(stack)) = Due
      BY <1>3, <2>1, Pop
    <2>3. DueIn(stack') = Due
      BY <1>1, <1>2, <1>6, <2>2, OneFrame, PushQuiet
    <2> QED BY <2>3 DEF Due, DueIn
  <1>9. Len(args[v]) = Len(Sig[ctor[v]].args) /\ Elements(args[v]) \subseteq live
    BY <1>3 DEF IInv, ShapeInv, LiveInv
  <1> QED BY <1>1, <1>2, <1>4, <1>7, <1>8, <1>9, AllocateStep

LEMMA NotHeld ==
  ASSUME IInv, NEW k \in Constraint,
         (k \in Callback /\ slot[k] = NoCell)
           \/ (k \in Task /\ tstate[k] \notin {"waiting", "aborted"})
  PROVE  k \notin Due /\ \A c \in Cell : k \notin Elements(pending[c])
  <1>1. on[k] \notin Cell \/ ~Held(k)
    BY ConstantsAssumption DEF IInv, HeldInv
  <1> QED BY <1>1 DEF IInv, DueInv, PendingInv, Held

LEMMA AsyncCrefStep == ASSUME IInv, NEW t \in Task, NEW s, AsyncCref(t, s) PROVE IInv'
  <1> DEFINE c == Fresh(s)
  <1>1. c \in Cell \ live /\ tstate[t] = "none"
    BY FreshIsUnused DEF AsyncCref
  <1> HIDE DEF c
  <1>2. /\ live' = live \cup {c}
        /\ slot' = [slot EXCEPT ![t] = c]
        /\ tstate' = [tstate EXCEPT ![t] = "spawned"]
        /\ UNCHANGED <<canon, ctor, args, pending, stack, on, running, ran, dropped>>
    BY DEF AsyncCref, c
  <1>3. Due' = Due /\ t \in Constraint /\ t \notin Callback
    BY <1>2, ConstantsAssumption DEF Due, Constraint
  <1>4. t \notin Due /\ \A d \in Cell : t \notin Elements(pending[d])
    BY <1>1, <1>3, NotHeld
  <1>5. TypeOK'
    BY <1>1, <1>2 DEF IInv, TypeOK, TaskState
  <1>11. LiveInv'
    BY <1>1, <1>2 DEF IInv, LiveInv, LiveFrames, TypeOK
  <1>6. CellsInv'
    BY <1>1, <1>2 DEF IInv, CellsInv, TypeOK
  <1>7. PendingInv' /\ DueInv'
    BY <1>2, <1>3 DEF IInv, PendingInv, PendingOnlyOnUnknown, DueInv, DueOnlyOnKnown, Known
  <1>8. HeldInv'
    <2>1. \A k \in Callback : slot'[k] = slot[k]
      BY <1>2, <1>3 DEF IInv, TypeOK
    <2>2. \A u \in Task : u # t => tstate'[u] = tstate[u]
      BY <1>2 DEF IInv, TypeOK
    <2>3. tstate'[t] = "spawned"
      BY <1>2 DEF IInv, TypeOK
    <2>4. \A k \in Constraint : on[k] \in Cell => canon[on[k]] \in Cell
      BY DEF IInv, TypeOK
    <2>5. on[t] \in Cell => ~Held(t)
      BY <1>3, <1>4, <2>4 DEF Held
    <2>6. \A k \in Constraint : Held(k)' <=> Held(k)
      BY <1>2, <1>3 DEF Held
    <2> QED BY <1>2, <2>1, <2>2, <2>3, <2>5, <2>6 DEF IInv, HeldInv, Constraint
  <1>9. ShapeInv'
    BY <1>1, <1>2, <1>3 DEF IInv, ShapeInv, TypeOK
  <1>10. NothingLost'
    BY <1>2, <1>3 DEF IInv, NothingLost, Held, TypeOK
  <1> QED BY <1>5, <1>6, <1>7, <1>8, <1>9, <1>10, <1>11 DEF IInv

-----------------------------------------------------------------------------
(* Registration: then, and a task that polls.                              *)

\* Who starts to wait waited for nothing before, and nobody else is touched.
Joins(k, c) ==
  /\ k \notin Waiting /\ k \notin ran
  /\ \A j \in Constraint \ {k} : on'[j] = on[j]
  /\ Waiting' = Waiting \/ (Waiting' = Waiting \cup {k} /\ on'[k] = c)

LEMMA WaitingGrows ==
  ASSUME NEW k, NEW d \in Cell, Due \subseteq Due', Due' \subseteq Due \cup {k},
         \A c \in Cell : /\ Elements(pending[c]) \subseteq Elements(pending'[c])
                         /\ Elements(pending'[c]) \subseteq Elements(pending[c]) \cup {k},
         k \in Due' \/ k \in Elements(pending'[d])
  PROVE  Waiting' = Waiting \cup {k}
  BY DEF Waiting

\* A constraint that is held nowhere is queued on an unknown class.
LEMMA Queue ==
  ASSUME IInv, NEW k \in Constraint, NEW d \in Cell,
         \A c \in Cell : k \notin Elements(pending[c]),
         pending' = [pending EXCEPT ![d] = Append(@, k)]
  PROVE  /\ pending' \in [Cell -> Seq(Constraint)]
         /\ \A c \in Cell : NoRepeat(pending'[c])
         /\ Elements(pending'[d]) = Elements(pending[d]) \cup {k}
         /\ \A c \in Cell : c # d => pending'[c] = pending[c]
  <1>1. pending \in [Cell -> Seq(Constraint)] /\ pending[d] \in Seq(Constraint)
    BY DEF IInv, TypeOK
  <1>2. /\ Append(pending[d], k) \in Seq(Constraint)
        /\ Elements(Append(pending[d], k)) = Elements(pending[d]) \cup {k}
        /\ NoRepeat(Append(pending[d], k))
    BY <1>1, AppendElements DEF IInv, PendingInv
  <1>3. pending'[d] = Append(pending[d], k) /\ \A c \in Cell : c # d => pending'[c] = pending[c]
    BY <1>1
  <1>4. pending' \in [Cell -> Seq(Constraint)]
    BY <1>1, <1>2
  <1> QED BY <1>2, <1>3, <1>4 DEF IInv, PendingInv

LEMMA PollStep ==
  ASSUME IInv, NEW t \in Task, NEW c \in live, Poll(t, c),
         tstate[t] \in {"running", "woken"}, running \in {t, Nobody},
         UNCHANGED <<cells, stack, slot, ran, dropped>>
  PROVE  IInv' /\ Joins(t, c)
  <1>1. t \in Constraint /\ t \notin Callback /\ c \in Cell /\ canon[c] \in Cell
    BY ConstantsAssumption DEF Constraint, IInv, TypeOK
  <1>2. t \notin Due /\ \A d \in Cell : t \notin Elements(pending[d])
    BY <1>1, NotHeld
  <1>3. UNCHANGED <<live, canon, ctor, args>> /\ Due' = Due
    BY DEF cells, Due
  <1>4. canon[canon[c]] = canon[c] /\ slot[t] \in Cell /\ Nobody \notin Task
    BY <1>1, ConstantsAssumption DEF IInv, CellsInv, ShapeInv
  <1>5. CASE Known(c)
    <2>1. /\ tstate' = [tstate EXCEPT ![t] = "running"] /\ running' = t
          /\ on' = [on EXCEPT ![t] = NoCell] /\ pending' = pending
      BY <1>5 DEF Poll
    <2>2. /\ on'[t] = NoCell /\ \A k \in Constraint : k # t => on'[k] = on[k]
          /\ tstate'[t] = "running" /\ \A u \in Task : u # t => tstate'[u] = tstate[u]
      BY <1>1, <2>1 DEF IInv, TypeOK
    <2>3. TypeOK' /\ CellsInv' /\ LiveInv'
      BY <1>1, <1>3, <2>1, <2>2 DEF IInv, TypeOK, TaskState, CellsInv, LiveInv
    <2>4. PendingInv'
      BY <1>2, <1>3, <2>1, <2>2 DEF IInv, PendingInv, PendingOnlyOnUnknown, TypeOK, Elements
    <2>5. DueInv'
      BY <1>2, <1>3, <2>2 DEF IInv, DueInv, DueOnlyOnKnown, Known, Due
    <2>6. \A k \in Constraint : k # t => (Held(k)' <=> Held(k))
      BY <1>3, <2>1, <2>2 DEF Held
    <2>7. HeldInv'
      BY <1>1, <1>3, <2>2, <2>6, ConstantsAssumption DEF IInv, HeldInv, Constraint
    <2>8. NothingLost'
      BY <1>1, <1>3, <2>2, <2>6 DEF IInv, NothingLost, Constraint
    <2>9. ShapeInv'
      BY <1>3, <1>4, <2>1, <2>2 DEF IInv, ShapeInv
    <2>10. Joins(t, c)
      <3>1. Waiting' = Waiting
        BY <1>3, <2>1 DEF Waiting
      <3> QED BY <1>1, <1>2, <2>2, <3>1 DEF Joins, Waiting, IInv, TypeOK
    <2> QED BY <2>3, <2>4, <2>5, <2>7, <2>8, <2>9, <2>10 DEF IInv
  <1>6. CASE ~Known(c)
    <2>1. /\ tstate' = [tstate EXCEPT ![t] = "waiting"] /\ running' = Nobody
          /\ on' = [on EXCEPT ![t] = c]
          /\ pending' = [pending EXCEPT ![canon[c]] = Append(@, t)]
      BY <1>6 DEF Poll
    <2>2. /\ on'[t] = c /\ \A k \in Constraint : k # t => on'[k] = on[k]
          /\ tstate'[t] = "waiting" /\ \A u \in Task : u # t => tstate'[u] = tstate[u]
      BY <1>1, <2>1 DEF IInv, TypeOK
    <2>3. /\ pending' \in [Cell -> Seq(Constraint)]
          /\ \A d \in Cell : NoRepeat(pending'[d])
          /\ Elements(pending'[canon[c]]) = Elements(pending[canon[c]]) \cup {t}
          /\ \A d \in Cell : d # canon[c] => pending'[d] = pending[d]
      BY <1>1, <1>2, <2>1, Queue
    <2>4. \A d \in Cell : /\ Elements(pending[d]) \subseteq Elements(pending'[d])
                          /\ Elements(pending'[d]) \subseteq Elements(pending[d]) \cup {t}
      BY <1>1, <2>3
    <2>5. TypeOK' /\ CellsInv' /\ LiveInv'
      BY <1>1, <1>3, <2>1, <2>2, <2>3 DEF IInv, TypeOK, TaskState, CellsInv, LiveInv
    <2>6. PendingInv'
      <3>1. PendingOnlyOnUnknown'
        BY <1>1, <1>3, <1>4, <1>6, <2>3 DEF IInv, PendingInv, PendingOnlyOnUnknown, Known
      <3>2. ASSUME NEW d \in Cell, NEW k \in Elements(pending'[d])
            PROVE  on'[k] \in Cell /\ canon[on'[k]] = d
        <4>1. k \in Constraint
          BY <2>3, <3>2 DEF Elements
        <4>2. CASE k = t
          BY <1>1, <1>2, <2>2, <2>3, <3>2, <4>2
        <4>3. CASE k # t
          BY <2>2, <2>4, <4>1, <4>3 DEF IInv, PendingInv
        <4> QED BY <4>2, <4>3
      <3> QED BY <1>3, <2>3, <3>1, <3>2 DEF PendingInv
    <2>7. DueInv'
      BY <1>2, <1>3, <2>2 DEF IInv, DueInv, DueOnlyOnKnown, Known, Due
    <2>8. ASSUME NEW k \in Constraint, k # t, on[k] \in Cell PROVE Held(k)' <=> Held(k)
      <3>1. canon[on[k]] \in Cell /\ on'[k] = on[k]
        BY <2>2, <2>8 DEF IInv, TypeOK
      <3> QED BY <1>3, <2>4, <2>8, <3>1 DEF Held
    <2>9. Held(t)'
      BY <1>3, <2>2, <2>3 DEF Held
    <2>10. HeldInv'
      BY <1>1, <1>3, <2>2, <2>8, ConstantsAssumption DEF IInv, HeldInv, Constraint
    <2>11. NothingLost'
      <3>1. \A k \in Callback : slot[k] # NoCell => on[k] \in Cell
        BY ConstantsAssumption DEF IInv, HeldInv, TypeOK, Constraint
      <3>2. \A u \in Task : tstate[u] = "waiting" => on[u] \in Cell
        BY DEF IInv, HeldInv
      <3> QED BY <1>1, <1>3, <2>2, <2>8, <2>9, <3>1, <3>2 DEF IInv, NothingLost, Constraint
    <2>12. ShapeInv'
      BY <1>3, <1>4, <2>1, <2>2 DEF IInv, ShapeInv
    <2>13. Joins(t, c)
      <3>1. Waiting' = Waiting \cup {t}
        BY <1>1, <1>3, <2>3, <2>4, WaitingGrows
      <3> QED BY <1>1, <1>2, <2>2, <3>1 DEF Joins, Waiting, IInv, TypeOK
    <2> QED BY <2>5, <2>6, <2>7, <2>10, <2>11, <2>12, <2>13 DEF IInv
  <1> QED BY <1>5, <1>6

LEMMA AwaitStep ==
  ASSUME IInv, NEW t \in Task, NEW c \in live, Await(t, c)
  PROVE  IInv' /\ Joins(t, c)
  BY PollStep DEF Await, InTask

LEMMA ResumeStep ==
  ASSUME IInv, NEW t \in Task, Resume(t)
  PROVE  IInv' /\ on[t] \in live /\ Joins(t, on[t])
  <1>1. on[t] \in live
    BY ConstantsAssumption DEF Resume, IInv, HeldInv, CellsInv, Constraint
  <1> QED BY <1>1, PollStep DEF Resume

LEMMA ThenStep ==
  ASSUME IInv, NEW k \in Callback, NEW c \in live, NEW s, Then(k, c, s)
  PROVE  IInv' /\ Joins(k, c)
  <1> DEFINE f == Fresh(s)
  <1>1. f \in Cell \ live /\ slot[k] = NoCell
    BY FreshIsUnused DEF Then
  <1> HIDE DEF f
  <1>2. /\ live' = live \cup {f} /\ slot' = [slot EXCEPT ![k] = f] /\ on' = [on EXCEPT ![k] = c]
        /\ UNCHANGED <<canon, ctor, args, tstate, running, ran, dropped>>
    BY DEF Then, f
  <1>3. k \in Constraint /\ k \notin Task /\ c \in Cell /\ canon[c] \in Cell
    BY ConstantsAssumption DEF Constraint, IInv, TypeOK
  <1>4. k \notin Due /\ \A d \in Cell : k \notin Elements(pending[d])
    BY <1>1, <1>3, NotHeld
  <1>5. /\ on'[k] = c /\ \A j \in Constraint : j # k => on'[j] = on[j]
        /\ slot'[k] = f /\ \A j \in Constraint : j # k => slot'[j] = slot[j]
    BY <1>2, <1>3 DEF IInv, TypeOK
  <1>6. canon[canon[c]] = canon[c]
    BY <1>3 DEF IInv, CellsInv
  <1>7. k \notin ran
    BY <1>1, ConstantsAssumption DEF IInv, ShapeInv
  <1>8. stack \in Seq(Frame) /\ FiresOnce(stack) /\ Due = DueIn(stack) /\ Due' = DueIn(stack')
    BY DEF IInv, TypeOK, DueInv, Due, DueIn
  <1>9. LiveFrames(stack, live')
    BY <1>2 DEF IInv, LiveInv, LiveFrames
  \* What AddConstraint did, whichever way it went.
  <1>10. /\ stack' \in Seq(Frame) /\ FiresOnce(stack') /\ LiveFrames(stack', live')
         /\ CallsIn(stack') = CallsIn(stack)
         /\ Due \subseteq Due' /\ Due' \subseteq Due \cup {k}
         /\ k \in Due' => Known(c)
         /\ pending' \in [Cell -> Seq(Constraint)]
         /\ \A d \in Cell : NoRepeat(pending'[d])
         /\ \A d \in Cell : Elements(pending[d]) \subseteq Elements(pending'[d])
         /\ \A d \in Cell : Elements(pending'[d]) \subseteq Elements(pending[d]) \cup {k}
         /\ \A d \in Cell : pending'[d] # pending[d] => d = canon[c] /\ ~Known(c)
         /\ k \in Due' \/ k \in Elements(pending'[canon[c]])
    <2>1. CASE Known(c)
      <3>1. stack' = <<FireFrame(k)>> \o stack /\ pending' = pending
        BY <2>1 DEF Then, AddConstraint
      <3>2. /\ stack' \in Seq(Frame) /\ FiresOnce(stack') /\ LiveFrames(stack', live')
            /\ DueIn(stack') = Due \cup {k} /\ CallsIn(stack') = CallsIn(stack)
        BY <1>3, <1>4, <1>8, <1>9, <3>1, PushFire
      <3> QED BY <1>8, <2>1, <3>1, <3>2 DEF IInv, TypeOK, PendingInv
    <2>2. CASE ~Known(c)
      <3>1. stack' = stack /\ pending' = [pending EXCEPT ![canon[c]] = Append(@, k)]
        BY <2>2 DEF Then, AddConstraint
      <3>2. /\ pending' \in [Cell -> Seq(Constraint)]
            /\ \A d \in Cell : NoRepeat(pending'[d])
            /\ Elements(pending'[canon[c]]) = Elements(pending[canon[c]]) \cup {k}
            /\ \A d \in Cell : d # canon[c] => pending'[d] = pending[d]
        BY <1>3, <1>4, <3>1, Queue
      <3>3. \A d \in Cell : /\ Elements(pending[d]) \subseteq Elements(pending'[d])
                            /\ Elements(pending'[d]) \subseteq Elements(pending[d]) \cup {k}
        BY <3>2
      <3> QED BY <1>4, <1>8, <1>9, <2>2, <3>1, <3>2, <3>3
    <2> QED BY <2>1, <2>2
  <1>11. TypeOK' /\ LiveInv'
    BY <1>1, <1>2, <1>3, <1>10 DEF IInv, TypeOK, LiveInv
  <1>12. CellsInv'
    BY <1>1, <1>2, <1>5 DEF IInv, CellsInv
  <1>13. PendingInv'
    <2>1. PendingOnlyOnUnknown'
      <3>1. ASSUME NEW d \in Cell, pending'[d] # <<>> PROVE canon[d] = d /\ ctor[d] = Unknown
        <4>1. CASE pending'[d] = pending[d]
          BY <3>1, <4>1 DEF IInv, PendingInv, PendingOnlyOnUnknown
        <4>2. CASE pending'[d] # pending[d]
          BY <1>6, <1>10, <4>2 DEF Known
        <4> QED BY <4>1, <4>2
      <3> QED BY <1>2, <3>1 DEF PendingOnlyOnUnknown
    <2>2. ASSUME NEW d \in Cell, NEW j \in Elements(pending'[d])
          PROVE  on'[j] \in Cell /\ canon[on'[j]] = d
      <3>1. j \in Constraint
        BY <1>10, <2>2 DEF Elements
      <3>2. CASE j = k
        BY <1>3, <1>4, <1>5, <1>10, <2>2, <3>2
      <3>3. CASE j # k
        BY <1>5, <1>10, <2>2, <3>1, <3>3 DEF IInv, PendingInv
      <3> QED BY <3>2, <3>3
    <2> QED BY <1>2, <1>10, <2>1, <2>2 DEF PendingInv
  <1>14. DueInv'
    <2>1. ASSUME NEW j \in Due' PROVE on'[j] \in Cell /\ ctor[canon[on'[j]]] # Unknown
      <3>1. j \in Constraint
        BY DEF Due
      <3>2. CASE j = k
        BY <1>3, <1>5, <1>10, <2>1, <3>2 DEF Known
      <3>3. CASE j # k
        BY <1>5, <1>10, <2>1, <3>1, <3>3 DEF IInv, DueInv, DueOnlyOnKnown, Known
      <3> QED BY <3>2, <3>3
    <2> QED BY <1>2, <1>10, <2>1 DEF DueInv, DueOnlyOnKnown, Known
  <1>15. ASSUME NEW j \in Constraint, j # k, on[j] \in Cell PROVE Held(j)' <=> Held(j)
    <2>1. canon[on[j]] \in Cell /\ on'[j] = on[j]
      BY <1>5, <1>15 DEF IInv, TypeOK
    <2>2. j \in Elements(pending'[canon[on[j]]]) <=> j \in Elements(pending[canon[on[j]]])
      BY <1>10, <1>15, <2>1
    <2>3. j \in Due' <=> j \in Due
      BY <1>10, <1>15
    <2> QED BY <1>2, <2>1, <2>2, <2>3 DEF Held
  <1>16. Held(k)'
    BY <1>2, <1>5, <1>10 DEF Held
  <1>17. HeldInv'
    <2>1. ASSUME NEW j \in Callback, on'[j] \in Cell, Held(j)' PROVE j \notin ran
      BY <1>5, <1>7, <1>15, <2>1 DEF IInv, HeldInv, Constraint
    <2>2. ASSUME NEW t \in Task, on'[t] \in Cell, Held(t)'
          PROVE  tstate[t] \in {"waiting", "aborted"}
      BY <1>3, <1>5, <1>15, <2>2 DEF IInv, HeldInv, Constraint
    <2>3. \A j \in Callback : on'[j] \in Cell <=> slot'[j] \in Cell
      BY <1>1, <1>3, <1>5 DEF IInv, HeldInv, Constraint
    <2>4. \A t \in Task : tstate[t] \in {"waiting", "woken"} => on'[t] \in Cell
      BY <1>3, <1>5 DEF IInv, HeldInv, Constraint
    <2> QED BY <1>2, <2>1, <2>2, <2>3, <2>4 DEF HeldInv
  <1>18. ShapeInv'
    BY <1>1, <1>2, <1>3, <1>5, <1>10 DEF IInv, TypeOK, ShapeInv, CallsIn, Constraint
  <1>19. NothingLost'
    <2>1. \A j \in Callback : slot[j] # NoCell => on[j] \in Cell
      BY ConstantsAssumption DEF IInv, HeldInv, TypeOK, Constraint
    <2>2. \A t \in Task : tstate[t] = "waiting" => on[t] \in Cell
      BY DEF IInv, HeldInv
    <2> QED BY <1>2, <1>3, <1>5, <1>15, <1>16, <2>1, <2>2 DEF IInv, NothingLost, Constraint
  <1>20. Joins(k, c)
    <2>1. Waiting' = Waiting \cup {k}
      BY <1>3, <1>10, WaitingGrows
    <2> QED BY <1>4, <1>5, <1>7, <2>1 DEF Joins, Waiting
  <1> QED BY <1>11, <1>12, <1>13, <1>14, <1>17, <1>18, <1>19, <1>20 DEF IInv

-----------------------------------------------------------------------------
(* Two classes become one.                                                 *)

LEMMA WinnerLoser ==
  ASSUME IInv, Union
  PROVE  /\ Winner \in live /\ Loser \in live /\ Winner # Loser
         /\ canon[Winner] = Winner /\ canon[Loser] = Loser /\ ctor[Loser] = Unknown
  <1>1. /\ Left \in live /\ Right \in live /\ Left # Right
        /\ canon[Left] = Left /\ canon[Right] = Right
        /\ ctor[Left] = Unknown \/ ctor[Right] = Unknown
    BY Sides DEF Union, Merged, Drained, Requeued
  <1> QED BY <1>1 DEF Winner, Loser

LEMMA UnionStep == ASSUME IInv, Union PROVE IInv' /\ Waiting' = Waiting
  <1> DEFINE W == Winner
             L == Loser
  <1>1. /\ W \in live /\ L \in live /\ W \in Cell /\ L \in Cell /\ W # L
        /\ canon[W] = W /\ canon[L] = L /\ ctor[L] = Unknown
    BY WinnerLoser DEF IInv, TypeOK
  <1>2. /\ canon' = [c \in Cell |-> IF canon[c] = L THEN W ELSE canon[c]]
        /\ UNCHANGED <<live, ctor, args, on, slot, tstate, running, ran, dropped>>
    BY DEF Union, Merged, Drained, Requeued
  <1>3. stack # <<>> /\ Head(stack).op = "unify" /\ stack \in Seq(Frame) /\ FiresOnce(stack)
    BY DEF Union, Merged, Drained, Requeued, Top, IInv, TypeOK, DueInv
  <1>4. /\ Tail(stack) \in Seq(Frame) /\ FiresOnce(Tail(stack))
        /\ DueIn(Tail(stack)) = Due /\ CallsIn(Tail(stack)) \subseteq CallsIn(stack)
        /\ Elements(Tail(stack)) \subseteq Elements(stack)
    <2>1. Due = DueIn(stack)
      BY DEF Due, DueIn
    <2> QED BY <1>3, <2>1, Pop
  <1>5. LiveFrames(Tail(stack), live)
    BY <1>4 DEF IInv, LiveInv, LiveFrames
  <1>6. Due' = DueIn(stack')
    BY DEF Due, DueIn
  <1>7. /\ pending[L] \in Seq(Constraint) /\ pending[W] \in Seq(Constraint)
        /\ NoRepeat(pending[L]) /\ NoRepeat(pending[W])
        /\ Elements(pending[L]) \cap Due = {}
        /\ Elements(pending[W]) \cap Elements(pending[L]) = {}
    <2>1. \A k \in Elements(pending[W]) : k \notin Elements(pending[L])
      BY <1>1 DEF IInv, PendingInv
    <2> QED BY <1>1, <2>1, DueDisjoint DEF IInv, TypeOK, PendingInv
  <1>8. Elements(<<>>) = {} /\ NoRepeat(<<>>) /\ <<>> \in Seq(Constraint)
    BY DEF Elements, NoRepeat
  <1> HIDE DEF W, L
  \* Where the loser's constraints went, in either case.
  <1>9. /\ stack' \in Seq(Frame) /\ FiresOnce(stack') /\ LiveFrames(stack', live)
        /\ CallsIn(stack') \subseteq CallsIn(stack) /\ Due \subseteq Due'
        /\ Due' \subseteq Due \cup (IF ctor[W] # Unknown THEN Elements(pending[L]) ELSE {})
        /\ pending' \in [Cell -> Seq(Constraint)] /\ pending'[L] = <<>>
        /\ \A d \in Cell \ {L, W} : pending'[d] = pending[d]
        /\ NoRepeat(pending'[W]) /\ Elements(pending[W]) \subseteq Elements(pending'[W])
        /\ Elements(pending'[W]) \subseteq Elements(pending[W]) \cup Elements(pending[L])
        /\ ctor[W] # Unknown => pending'[W] = pending[W]
        /\ \A k \in Elements(pending[L]) : k \in Due' \/ k \in Elements(pending'[W])
    <2>1. CASE ctor[W] # Unknown
      <3>1. /\ stack' = Fires(pending[L]) \o Tail(stack)
            /\ pending' = [pending EXCEPT ![L] = <<>>]
        BY <2>1 DEF Union, Merged, Drained, Requeued, W, L
      <3>2. /\ stack' \in Seq(Frame) /\ FiresOnce(stack') /\ LiveFrames(stack', live)
            /\ DueIn(stack') = Due \cup Elements(pending[L])
            /\ CallsIn(stack') = CallsIn(Tail(stack))
        BY <1>4, <1>5, <1>7, <3>1, PushFires
      <3>3. /\ pending' \in [Cell -> Seq(Constraint)] /\ pending'[L] = <<>>
            /\ \A d \in Cell \ {L} : pending'[d] = pending[d]
        BY <1>1, <1>8, <3>1 DEF IInv, TypeOK
      <3> QED BY <1>1, <1>4, <1>6, <1>7, <2>1, <3>2, <3>3
    <2>2. CASE ctor[W] = Unknown
      <3>1. /\ stack' = Tail(stack)
            /\ pending' = [pending EXCEPT ![L] = <<>>, ![W] = @ \o pending[L]]
        BY <2>2 DEF Union, Merged, Drained, Requeued, W, L
      <3>2. /\ pending[W] \o pending[L] \in Seq(Constraint)
            /\ Elements(pending[W] \o pending[L]) = Elements(pending[W]) \cup Elements(pending[L])
            /\ NoRepeat(pending[W] \o pending[L])
        BY <1>7, ConcatElements
      <3>3. /\ pending' \in [Cell -> Seq(Constraint)] /\ pending'[L] = <<>>
            /\ pending'[W] = pending[W] \o pending[L]
            /\ \A d \in Cell \ {L, W} : pending'[d] = pending[d]
        BY <1>1, <1>8, <3>1, <3>2 DEF IInv, TypeOK
      <3> QED BY <1>4, <1>5, <1>6, <2>2, <3>1, <3>2, <3>3
    <2> QED BY <2>1, <2>2
  <1>10. \A c \in Cell : /\ canon[c] \in Cell /\ canon'[c] \in Cell
                         /\ canon[c] = L => canon'[c] = W
                         /\ canon[c] # L => canon'[c] = canon[c]
    BY <1>1, <1>2 DEF IInv, TypeOK
  <1>11. \A c \in Cell : ctor[canon[c]] # Unknown => canon'[c] = canon[c]
    BY <1>1, <1>10
  <1>12. TypeOK' /\ LiveInv'
    BY <1>1, <1>2, <1>9 DEF IInv, TypeOK, LiveInv
  <1>13. CellsInv'
    <2>1. \A c \in Cell : canon'[canon'[c]] = canon'[c]
      BY <1>1, <1>10 DEF IInv, CellsInv
    <2>2. \A c \in live : canon'[c] \in live
      BY <1>1, <1>10 DEF IInv, CellsInv, TypeOK
    <2>3. \A c \in Cell \ live : canon'[c] = c
      BY <1>1, <1>10 DEF IInv, CellsInv
    <2> QED BY <1>2, <2>1, <2>2, <2>3 DEF IInv, CellsInv
  <1>14. PendingInv'
    <2>1. ASSUME NEW d \in Cell, pending'[d] # <<>> PROVE canon'[d] = d /\ ctor[d] = Unknown
      <3>1. CASE d = L
        BY <1>9, <2>1, <3>1
      <3>2. CASE d = W
        BY <1>1, <1>9, <1>10, <2>1, <3>2 DEF IInv, PendingInv, PendingOnlyOnUnknown
      <3>3. CASE d \in Cell \ {L, W}
        BY <1>9, <1>10, <2>1, <3>3 DEF IInv, PendingInv, PendingOnlyOnUnknown
      <3> QED BY <3>1, <3>2, <3>3
    <2>2. ASSUME NEW d \in Cell, NEW k \in Elements(pending'[d])
          PROVE  on[k] \in Cell /\ canon'[on[k]] = d
      <3>1. CASE d = L
        BY <1>8, <1>9, <2>2, <3>1
      <3>2. CASE d = W
        BY <1>1, <1>9, <1>10, <2>2, <3>2 DEF IInv, PendingInv
      <3>3. CASE d \in Cell \ {L, W}
        BY <1>9, <1>10, <2>2, <3>3 DEF IInv, PendingInv
      <3> QED BY <3>1, <3>2, <3>3
    <2>3. \A d \in Cell : NoRepeat(pending'[d])
      BY <1>8, <1>9 DEF IInv, PendingInv
    <2> QED BY <1>2, <2>1, <2>2, <2>3 DEF PendingInv, PendingOnlyOnUnknown
  <1>15. DueInv'
    <2>1. ASSUME NEW k \in Due' PROVE on[k] \in Cell /\ ctor[canon'[on[k]]] # Unknown
      <3>1. CASE k \in Due
        BY <1>11, <3>1 DEF IInv, DueInv, DueOnlyOnKnown, Known
      <3>2. CASE k \in Elements(pending[L]) /\ ctor[W] # Unknown
        BY <1>1, <1>10, <3>2 DEF IInv, PendingInv
      <3> QED BY <1>9, <2>1, <3>1, <3>2
    <2> QED BY <1>2, <1>9, <2>1 DEF DueInv, DueOnlyOnKnown, Known
  <1>16. ASSUME NEW k \in Constraint, on[k] \in Cell PROVE Held(k)' <=> Held(k)
    <2>1. CASE canon[on[k]] = L
      <3>1. Held(k) => Held(k)'
        BY <1>2, <1>9, <1>10, <1>16, <2>1 DEF Held
      <3>2. ASSUME Held(k)' PROVE Held(k)
        <4>1. k \notin Elements(pending[W])
          BY <1>1, <2>1 DEF IInv, PendingInv
        <4> QED BY <1>2, <1>9, <1>10, <1>16, <2>1, <3>2, <4>1 DEF Held
      <3> QED BY <3>1, <3>2
    <2>2. CASE canon[on[k]] # L
      <3>1. k \notin Elements(pending[L])
        BY <1>1, <2>2 DEF IInv, PendingInv
      <3>2. k \in Due' <=> k \in Due
        BY <1>9, <3>1
      <3>3. k \in Elements(pending'[canon[on[k]]]) <=> k \in Elements(pending[canon[on[k]]])
        <4>1. CASE canon[on[k]] = W
          BY <1>9, <3>1, <4>1
        <4>2. CASE canon[on[k]] # W
          BY <1>9, <1>10, <1>16, <2>2, <4>2
        <4> QED BY <4>1, <4>2
      <3> QED BY <1>2, <1>10, <1>16, <2>2, <3>2, <3>3 DEF Held
    <2> QED BY <2>1, <2>2
  <1>17. HeldInv'
    BY <1>2, <1>16 DEF IInv, HeldInv, Constraint
  <1>18. ShapeInv'
    BY <1>2, <1>9 DEF IInv, ShapeInv, CallsIn
  <1>19. NothingLost'
    <2>1. \A j \in Callback : slot[j] # NoCell => on[j] \in Cell
      BY ConstantsAssumption DEF IInv, HeldInv, TypeOK, Constraint
    <2>2. \A t \in Task : tstate[t] = "waiting" => on[t] \in Cell
      BY DEF IInv, HeldInv
    <2> QED BY <1>2, <1>16, <2>1, <2>2 DEF IInv, NothingLost, Constraint
  <1>20. Waiting' = Waiting
    <2> DEFINE Stored == UNION {Elements(pending[c]) : c \in Cell}
    <2>1. Waiting' \subseteq Waiting
      <3>1. Due' \subseteq Waiting
        BY <1>1, <1>9 DEF Waiting
      <3>2. ASSUME NEW d \in Cell PROVE Elements(pending'[d]) \subseteq Stored
        BY <1>1, <1>8, <1>9
      <3> QED BY <3>1, <3>2 DEF Waiting
    <2>2. Waiting \subseteq Waiting'
      <3>1. ASSUME NEW d \in Cell PROVE Elements(pending[d]) \subseteq Waiting'
        <4>1. CASE d = L
          BY <1>1, <1>9, <4>1 DEF Waiting
        <4>2. CASE d # L
          BY <1>9, <4>2 DEF Waiting
        <4> QED BY <4>1, <4>2
      <3> QED BY <1>9, <3>1 DEF Waiting
    <2> QED BY <2>1, <2>2
  <1> QED BY <1>12, <1>13, <1>14, <1>15, <1>17, <1>18, <1>19, <1>20 DEF IInv

-----------------------------------------------------------------------------
(* The invariant.                                                          *)

LEMMA InitInv == Init => IInv
  <1> SUFFICES ASSUME Init PROVE IInv
    OBVIOUS
  <1>1. Elements(<<>>) = {} /\ NoRepeat(<<>>) /\ FiresOnce(<<>>)
    BY DEF Elements, NoRepeat, FiresOnce
  <1>2. Due = {}
    BY <1>1 DEF Init, Due
  <1>3. TypeOK
    BY DEF Init, TypeOK, TaskState
  <1>4. CellsInv /\ PendingInv
    BY <1>1 DEF Init, CellsInv, PendingInv, PendingOnlyOnUnknown
  <1>5. DueInv /\ LiveInv
    BY <1>1, <1>2 DEF Init, DueInv, DueOnlyOnKnown, LiveInv, LiveFrames
  <1>6. HeldInv /\ NothingLost
    BY <1>1, <1>2, ConstantsAssumption DEF Init, HeldInv, NothingLost, Held, Constraint
  <1>7. ShapeInv
    BY <1>1, ConstantsAssumption DEF Init, ShapeInv
  <1> QED BY <1>3, <1>4, <1>5, <1>6, <1>7 DEF IInv

LEMMA NextInv == IInv /\ [Next]_vars => IInv'
  <1> SUFFICES ASSUME IInv, [Next]_vars PROVE IInv'
    OBVIOUS
  <1>1. Root \subseteq live /\ live \subseteq Cell
    BY DEF Root, IInv, TypeOK
  <1>2. CASE Code
    <2>1. ASSUME NEW k \in Ctor, NEW as \in [1..Len(Sig[k].args) -> Root], NewKnown(k, as)
          PROVE  IInv'
      <3>1. as \in [1..Len(Sig[k].args) -> live]
        BY <1>1
      <3> QED BY <2>1, <3>1, NewKnownStep
    <2> QED BY <1>1, <1>2, <2>1, NewUnknownStep, UnifyStep, ThenStep, AsyncCrefStep DEF Code
  <1>3. CASE Engine
    BY <1>1, <1>3, UnifySameStep, UnionStep, UnifyValuesStep, MismatchStep, UnifyExternalStep,
       FireWakerStep, FireCallbackStep DEF Engine, Mismatch
  <1>4. CASE Leave
    BY <1>1, <1>4, CallbackReturnsStep, MismatchStep, AwaitStep, TaskReturnsStep, ScheduleStep
    DEF Leave, CallbackFails, TaskFails
  <1>5. CASE Schedule
    BY <1>5, ScheduleStep, ResumeStep DEF Schedule
  <1>6. CASE UNCHANGED vars
    <2>1. StackAccounts
      BY <1>6, SameStack DEF vars
    <2>2. TasksAccount
      BY <1>6, SameTasks DEF vars
    <2> QED BY <1>6, <2>1, <2>2, StackStep DEF vars, cells
  <1> QED BY <1>2, <1>3, <1>4, <1>5, <1>6 DEF Next

THEOREM Invariance == Spec => []IInv
  BY InitInv, NextInv, PTL DEF Spec

\* Every variable keeps its type, whatever the compiler's code does.
THEOREM TypeCorrect == Spec => []TypeOK
  <1>1. IInv => TypeOK
    BY DEF IInv
  <1> QED BY <1>1, Invariance, PTL

\* A constraint is only ever stored where `union` and `add_constraint` will
\* find it: in the canonical cell of a class that is not known.
THEOREM NoStrandedConstraint == Spec => []PendingOnlyOnUnknown
  <1>1. IInv => PendingOnlyOnUnknown
    BY DEF IInv, PendingInv
  <1> QED BY <1>1, Invariance, PTL

\* A constraint is called only with a value for what it was registered on.
THEOREM CalledOnlyOnKnown == Spec => []DueOnlyOnKnown
  <1>1. IInv => DueOnlyOnKnown
    BY DEF IInv, DueInv
  <1> QED BY <1>1, Invariance, PTL

\* Callbacks and wakers survive every merge: only an error discards one.
THEOREM NoLostConstraint == Spec => []NothingLost
  <1>1. IInv => NothingLost
    BY DEF IInv
  <1> QED BY <1>1, Invariance, PTL

Quiescent == running = Nobody => stack = <<>>

\* The thread is given up only between calls.
LEMMA QuiescentNext == Quiescent /\ [Next]_vars => Quiescent'
  <1> SUFFICES ASSUME Quiescent, [Next]_vars, running' = Nobody PROVE stack' = <<>>
    BY DEF Quiescent
  <1> USE ConstantsAssumption DEF Quiescent
  <1>1. CASE Code
    BY <1>1 DEF Code, Coding, NewUnknown, NewKnown, Unify, Then, AsyncCref, AddConstraint
  <1>2. CASE Engine
    BY <1>2 DEF Engine, Top, UnifySame, Union, Merged, Drained, Requeued, UnifyValues, BothKnown, Mismatch, Unwind,
                UnifyExternal, FireWaker, FireCallback
  <1>3. CASE Leave
    BY <1>3 DEF Leave, Top, CallbackReturns, CallbackFails, Unwind, Await, InTask, TaskReturns,
                TaskFails, TaskDone, Drive
  <1>4. CASE Schedule
    BY <1>4 DEF Schedule, Start, Resume, Collect, Idle
  <1>5. CASE UNCHANGED vars
    BY <1>5 DEF vars
  <1> QED BY <1>1, <1>2, <1>3, <1>4, <1>5 DEF Next

\* When nothing is left to run, no task waits for something known, unless an
\* error discarded its waker.
THEOREM IdleIsExhausted == Spec => []IdleUnlessError
  <1>1. IInv /\ Quiescent => IdleUnlessError
    <2> SUFFICES ASSUME IInv, Quiescent, Idle, NEW t \in Task, tstate[t] = "waiting", Known(on[t])
                 PROVE  t \in dropped
      BY DEF IdleUnlessError
    <2>1. t \in dropped \/ Held(t)
      BY DEF IInv, NothingLost
    <2>2. on[t] \in Cell /\ canon[on[t]] \in Cell
      BY DEF IInv, HeldInv, TypeOK
    <2>3. t \notin Elements(pending[canon[on[t]]])
      <3> SUFFICES ASSUME t \in Elements(pending[canon[on[t]]]) PROVE FALSE
        OBVIOUS
      <3>1. pending[canon[on[t]]] # <<>>
        BY DEF Elements
      <3> QED BY <2>2, <3>1 DEF IInv, PendingInv, PendingOnlyOnUnknown, Known
    <2>4. t \notin Due
      <3>1. stack = <<>>
        BY DEF Idle, Quiescent
      <3> QED BY <3>1 DEF Due, Elements
    <2> QED BY <2>1, <2>3, <2>4 DEF Held
  <1>2. Init => Quiescent
    BY ConstantsAssumption DEF Init, Quiescent
  <1> QED BY <1>1, <1>2, QuiescentNext, Invariance, PTL DEF Spec

-----------------------------------------------------------------------------
(* Action properties.                                                      *)

Together == \A c, d \in Cell : canon[c] = canon[d] => canon'[c] = canon'[d]

LEMMA StayTogether == ASSUME IInv, [Next]_vars PROVE Together
  <1>1. canon' = canon \/ Union
    BY DEF Next, Code, Engine, Leave, Schedule, cells, NewUnknown, NewKnown, Unify, Then,
           AsyncCref, UnifySame, UnifyValues, Mismatch, Unwind, UnifyExternal, FireWaker,
           FireCallback, CallbackReturns, CallbackFails, Await, TaskReturns, TaskFails,
           TaskDone, Drive, Start, Resume, Collect, vars
  <1> QED BY <1>1 DEF Together, Union, Merged

\* Only union changes `find`, and it never separates what is together.
THEOREM MergesAreForGood == Spec => ClassesOnlyGrow
  <1>1. IInv /\ [Next]_vars => [\A c, d \in Cell : canon[c] = canon[d] => canon'[c] = canon'[d]]_vars
    BY StayTogether DEF Together
  <1> QED BY <1>1, Invariance, PTL DEF Spec, ClassesOnlyGrow

\* A step that creates a value writes a cell that nobody can see yet.
LEMMA CreationIsInvisible ==
  ASSUME IInv, NEW f \in Cell \ live, canon' = canon,
         \A c \in Cell \ {f} : ctor'[c] = ctor[c] /\ args'[c] = args[c]
  PROVE  \A c \in Cell : Known(c) => ctor'[canon'[c]] = ctor[canon[c]] /\ args'[canon'[c]] = args[canon[c]]
  <1> SUFFICES ASSUME NEW c \in Cell, Known(c) PROVE canon[c] \in Cell \ {f}
    OBVIOUS
  <1>1. c \in live
    BY Unallocated DEF Known, IInv, CellsInv
  <1> QED BY <1>1, Unallocated DEF IInv, TypeOK

KnownStays == \A c \in Cell : Known(c) => /\ ctor'[canon'[c]] = ctor[canon[c]]
                                           /\ args'[canon'[c]] = args[canon[c]]

LEMMA StaysKnown == ASSUME IInv, [Next]_vars PROVE KnownStays
  <1>1. UNCHANGED <<canon, ctor, args>> \/ Union
          \/ (\E k \in Ctor : \E as \in [1..Len(Sig[k].args) -> Root] : NewKnown(k, as))
          \/ (\E e, v \in Root : UnifyExternal(e, v))
    BY DEF Next, Code, Engine, Leave, Schedule, cells, NewUnknown, Unify, Then,
           AsyncCref, UnifySame, UnifyValues, Mismatch, Unwind, FireWaker,
           FireCallback, CallbackReturns, CallbackFails, Await, TaskReturns, TaskFails,
           TaskDone, Drive, Start, Resume, Collect, vars
  <1>2. CASE UNCHANGED <<canon, ctor, args>>
    BY <1>2 DEF KnownStays
  <1>3. CASE Union
    <2>1. ctor[Loser] = Unknown
      BY <1>3, WinnerLoser
    <2>2. /\ canon' = [c \in Cell |-> IF canon[c] = Loser THEN Winner ELSE canon[c]]
          /\ ctor' = ctor /\ args' = args
      BY <1>3 DEF Union, Merged, Drained, Requeued
    <2> QED BY <2>1, <2>2 DEF Known, KnownStays
  <1>4. ASSUME NEW k \in Ctor, NEW as \in [1..Len(Sig[k].args) -> Root], NewKnown(k, as)
        PROVE  KnownStays
    <2>1. Fresh(Sig[k].res) \in Cell \ live
      BY <1>4, FreshIsUnused DEF NewKnown
    <2>2. /\ canon' = canon /\ ctor' = [ctor EXCEPT ![Fresh(Sig[k].res)] = k]
          /\ args' = [args EXCEPT ![Fresh(Sig[k].res)] = as]
      BY <1>4 DEF NewKnown
    <2>3. \A c \in Cell \ {Fresh(Sig[k].res)} : ctor'[c] = ctor[c] /\ args'[c] = args[c]
      BY <2>2 DEF IInv, TypeOK
    <2> QED BY <2>1, <2>2, <2>3, CreationIsInvisible DEF KnownStays
  <1>5. ASSUME NEW e \in Root, NEW v \in Root, UnifyExternal(e, v)
        PROVE  KnownStays
    <2> DEFINE f == Fresh(Sig[ctor[v]].res)
    <2>1. f \in Cell \ live
      BY <1>5, FreshIsUnused DEF UnifyExternal
    <2>2. /\ canon' = canon /\ ctor' = [ctor EXCEPT ![f] = ctor[v]]
          /\ args' = [args EXCEPT ![f] = args[v]]
      BY <1>5 DEF UnifyExternal
    <2> HIDE DEF f
    <2>3. \A c \in Cell \ {f} : ctor'[c] = ctor[c] /\ args'[c] = args[c]
      BY <2>2 DEF IInv, TypeOK
    <2> QED BY <2>1, <2>2, <2>3, CreationIsInvisible DEF KnownStays
  <1> QED BY <1>1, <1>2, <1>3, <1>4, <1>5

\* What a cell is known to be never changes.
THEOREM KnownForGood == Spec => KnownIsStable
  <1>1. IInv /\ [Next]_vars
          => [\A c \in Cell : Known(c) => /\ ctor'[canon'[c]] = ctor[canon[c]]
                                          /\ args'[canon'[c]] = args[canon[c]]]_vars
    BY StaysKnown DEF KnownStays
  <1> QED BY <1>1, Invariance, PTL DEF Spec, KnownIsStable

\* A callback is called at most once.
THEOREM AtMostOneCall == Spec => CalledOnce
  <1>1. ASSUME IInv, NEW k \in Callback, FireCallback(k) PROVE k \notin ran
    <2>1. k \in Due
      <3>1. stack \in Seq(Frame) /\ FiresOnce(stack) /\ Due = DueIn(stack)
        BY <1>1 DEF IInv, TypeOK, DueInv, Due, DueIn
      <3>2. stack # <<>> /\ Head(stack).op = "fire" /\ Head(stack).k = k
        BY <1>1 DEF FireCallback, Top
      <3> QED BY <3>1, <3>2, Pop
    <2> QED BY <1>1, <2>1 DEF IInv, DueInv, HeldInv, Held
  <1>2. IInv /\ [Next]_vars => [\A k \in Callback : FireCallback(k) => k \notin ran]_vars
    BY <1>1
  <1> QED BY <1>2, Invariance, PTL DEF Spec, CalledOnce

-----------------------------------------------------------------------------
(* The engine implements Unification.  Every step of it moves classes,     *)
(* shapes, waits and calls as one step of Unification does, or not at all. *)

LEMMA WaitingFacts ==
  ASSUME IInv
  PROVE  /\ Waiting \subseteq Constraint
         /\ \A k \in Waiting : on[k] \in live /\ on[k] \in Cell
  <1>1. Waiting \subseteq Constraint
    BY DEF IInv, TypeOK, Waiting, Due, Elements
  <1>2. \A k \in Waiting : on[k] \in Cell
    BY DEF IInv, DueInv, PendingInv, Waiting
  <1> QED BY <1>1, <1>2, ConstantsAssumption DEF IInv, CellsInv

\* Steps that change nothing Unification speaks of.
LEMMA Stutters ==
  ASSUME UNCHANGED <<canon, ctor, on, ran>>, Waiting' = Waiting
  PROVE  UNCHANGED Promise!uvars
  BY DEF Promise!uvars, Classes, Shapes, Waits

LEMMA SameWaiting ==
  ASSUME Due' = Due, pending' = pending
  PROVE  Waiting' = Waiting
  BY DEF Waiting

\* A value is put into a cell that was not allocated.
LEMMA Creates ==
  ASSUME IInv, NEW c \in Cell \ live, NEW k \in Ctor,
         ctor' = [ctor EXCEPT ![c] = k], UNCHANGED <<canon, on, ran>>, Waiting' = Waiting
  PROVE  Promise!Create(c, k)
  <1>1. canon[c] = c /\ ctor[c] = Unknown /\ \A d \in Cell : canon[d] \in Cell /\ (canon[d] = c <=> d = c)
    BY Unallocated DEF IInv, CellsInv, TypeOK
  <1>2. {c} \in Classes
    <2>1. {c} = {d \in Cell : canon[d] = canon[c]}
      BY <1>1
    <2> QED BY <2>1 DEF Classes
  <1>3. Shapes[c] = Unknown
    BY <1>1 DEF Shapes
  <1>4. \A w \in Waits : w[2] # c
    BY WaitingFacts DEF Waits
  <1>5. Shapes' = [Shapes EXCEPT ![c] = k]
    BY <1>1 DEF Shapes, IInv, TypeOK
  <1>6. UNCHANGED <<Classes, Waits, ran>>
    BY DEF Classes, Waits
  <1> QED BY <1>2, <1>3, <1>4, <1>5, <1>6 DEF Promise!Create

\* A constraint that was nowhere waits for a cell.
LEMMA Waits1 ==
  ASSUME IInv, NEW k \in Constraint, NEW c \in Cell, Joins(k, c),
         UNCHANGED <<canon, ctor, ran>>
  PROVE  Promise!Wait(k, c) \/ UNCHANGED Promise!uvars
  <1>1. UNCHANGED <<Classes, Shapes, ran>>
    BY DEF Classes, Shapes
  <1>2. \A j \in Waiting : on'[j] = on[j]
    BY WaitingFacts DEF Joins
  <1>3. CASE Waiting' = Waiting
    <2>1. Waits' = Waits
      BY <1>2, <1>3 DEF Waits
    <2> QED BY <1>1, <2>1 DEF Promise!uvars
  <1>4. CASE Waiting' = Waiting \cup {k} /\ on'[k] = c
    <2>1. Waits' = Waits \cup {<<k, c>>}
      BY <1>2, <1>4 DEF Waits
    <2>2. k \notin ran /\ \A w \in Waits : w[1] # k
      BY DEF Joins, Waits
    <2> QED BY <1>1, <2>1, <2>2 DEF Promise!Wait
  <1> QED BY <1>3, <1>4 DEF Joins

\* A constraint that is called waited for a known cell, and waits no more.
LEMMA Tells ==
  ASSUME IInv, NEW k \in Due, Due' = Due \ {k}, UNCHANGED <<canon, ctor, pending, on>>,
         ran' = ran \cup ({k} \cap Callback)
  PROVE  Promise!Tell(k, on[k])
  <1>1. Waiting' = Waiting \ {k} /\ k \in Waiting
    BY DueDisjoint DEF Waiting
  <1>2. Waits' = Waits \ {<<k, on[k]>>}
    BY <1>1 DEF Waits
  <1>3. <<k, on[k]>> \in Waits
    BY <1>1 DEF Waits
  <1>4. Shapes[on[k]] # Unknown
    BY DEF IInv, DueInv, DueOnlyOnKnown, Known, Shapes
  <1>5. UNCHANGED <<Classes, Shapes>>
    BY DEF Classes, Shapes
  <1> QED BY <1>2, <1>3, <1>4, <1>5 DEF Promise!Tell

\* An error lets go of the constraints that were about to be called.
LEMMA LetsGo ==
  ASSUME IInv, Unwind
  PROVE  \E gone \in SUBSET Waits : Promise!GiveUp(gone)
  <1> DEFINE Gone == {<<k, on[k]>> : k \in Due}
  <1>1. UNCHANGED <<canon, ctor, pending, on, ran>> /\ stack' = <<>>
    BY DEF Unwind, cells
  <1>2. Due' = {}
    BY <1>1 DEF Due, Elements
  <1>3. Waiting' = Waiting \ Due /\ Due \subseteq Waiting
    BY <1>1, <1>2, DueDisjoint DEF Waiting
  <1>4. Waits' = Waits \ Gone /\ Gone \subseteq Waits
    BY <1>1, <1>3 DEF Waits
  <1>5. \A w \in Gone : Shapes[w[2]] # Unknown
    BY DEF IInv, DueInv, DueOnlyOnKnown, Known, Shapes
  <1>6. UNCHANGED <<Classes, Shapes, ran>>
    BY <1>1 DEF Classes, Shapes
  <1> HIDE DEF Gone
  <1>7. Promise!GiveUp(Gone)
    BY <1>4, <1>5, <1>6 DEF Promise!GiveUp
  <1> QED BY <1>4, <1>7

\* union makes one class of two, of which the loser's was not known.
LEMMA Merges ==
  ASSUME IInv, Union
  PROVE  \E P, Q \in Classes : Promise!Merge(P, Q)
  <1> DEFINE W == Winner
             L == Loser
             P == {d \in Cell : canon[d] = W}
             Q == {d \in Cell : canon[d] = L}
  <1>1. /\ W \in Cell /\ L \in Cell /\ W # L
        /\ canon[W] = W /\ canon[L] = L /\ ctor[L] = Unknown
    BY WinnerLoser DEF IInv, TypeOK
  <1>2. /\ canon' = [c \in Cell |-> IF canon[c] = L THEN W ELSE canon[c]]
        /\ UNCHANGED <<ctor, on, ran>>
    BY DEF Union, Merged
  <1>3. Waiting' = Waiting
    BY UnionStep
  <1> HIDE DEF W, L
  <1>4. P \in Classes /\ Q \in Classes /\ W \in P /\ L \in Q /\ P # Q
    BY <1>1 DEF Classes
  <1>5. UNCHANGED <<Waits, ran>>
    BY <1>2, <1>3 DEF Waits
  <1>6. Shapes[W] = ctor[W] /\ Shapes[L] = Unknown
    BY <1>1 DEF Shapes
  <1>7. Shapes' = [c \in Cell |-> IF c \in Q \cup P
                                  THEN IF Shapes[L] = Unknown THEN Shapes[W] ELSE Shapes[L]
                                  ELSE Shapes[c]]
    <2>1. ASSUME NEW c \in Cell
          PROVE  ctor[canon'[c]] = IF canon[c] \in {W, L} THEN ctor[W] ELSE ctor[canon[c]]
      BY <1>1, <1>2
    <2> QED BY <1>2, <1>6, <2>1 DEF Shapes
  <1>8. Classes' = (Classes \ {Q, P}) \cup {Q \cup P}
    <2>1. ASSUME NEW c \in Cell, canon[c] \in {W, L}
          PROVE  /\ {d \in Cell : canon'[d] = canon'[c]} = Q \cup P
                 /\ {d \in Cell : canon[d] = canon[c]} \in {Q, P}
      BY <1>1, <1>2, <2>1
    <2>2. ASSUME NEW c \in Cell, canon[c] \notin {W, L}
          PROVE  /\ {d \in Cell : canon'[d] = canon'[c]} = {d \in Cell : canon[d] = canon[c]}
                 /\ {d \in Cell : canon[d] = canon[c]} \notin {Q, P}
      BY <1>1, <1>2, <2>2
    <2> HIDE DEF P, Q
    <2>3. Classes' \subseteq (Classes \ {Q, P}) \cup {Q \cup P}
      BY <2>1, <2>2 DEF Classes
    <2>4. Classes \ {Q, P} \subseteq Classes'
      <3> SUFFICES ASSUME NEW c \in Cell, {d \in Cell : canon[d] = canon[c]} \notin {Q, P}
                   PROVE  {d \in Cell : canon[d] = canon[c]} \in Classes'
        BY DEF Classes
      <3>1. {d \in Cell : canon'[d] = canon'[c]} = {d \in Cell : canon[d] = canon[c]}
        BY <2>1, <2>2
      <3>2. {d \in Cell : canon'[d] = canon'[c]} \in Classes'
        BY DEF Classes
      <3> QED BY <3>1, <3>2
    <2>5. Q \cup P \in Classes'
      BY <1>1, <2>1 DEF Classes
    <2> QED BY <2>3, <2>4, <2>5
  <1> HIDE DEF P, Q
  <1>9. Promise!Merge(Q, P)
    BY <1>4, <1>5, <1>6, <1>7, <1>8 DEF Promise!Merge
  <1> QED BY <1>4, <1>9

LEMMA StepImplements ==
  ASSUME IInv, [Next]_vars
  PROVE  [Promise!UNext]_(Promise!uvars)
  <1>1. Root \subseteq live /\ live \subseteq Cell
    BY DEF Root, IInv, TypeOK
  <1>2. ASSUME NEW s, NewUnknown(s) PROVE UNCHANGED Promise!uvars
    BY <1>2, SameWaiting, Stutters DEF NewUnknown, Due
  <1>3. ASSUME NEW k \in Ctor, NEW as \in [1..Len(Sig[k].args) -> Root], NewKnown(k, as)
        PROVE  Promise!UNext
    <2> DEFINE f == Fresh(Sig[k].res)
    <2>1. f \in Cell \ live
      BY <1>3, FreshIsUnused DEF NewKnown
    <2>2. ctor' = [ctor EXCEPT ![f] = k] /\ UNCHANGED <<canon, on, ran, stack, pending>>
      BY <1>3 DEF NewKnown
    <2> HIDE DEF f
    <2>3. Waiting' = Waiting
      BY <2>2, SameWaiting DEF Due
    <2> QED BY <2>1, <2>2, <2>3, Creates DEF Promise!UNext
  <1>4. ASSUME NEW l \in Root, NEW r \in Root, Unify(l, r) PROVE UNCHANGED Promise!uvars
    BY <1>1, <1>4, UnifyStep, SameWaiting, Stutters DEF Unify, cells
  <1>5. ASSUME NEW k \in Callback, NEW c \in Root, NEW s, Then(k, c, s)
        PROVE  [Promise!UNext]_(Promise!uvars)
    <2>1. Joins(k, c) /\ UNCHANGED <<canon, ctor, ran>> /\ k \in Constraint /\ c \in Cell
      BY <1>1, <1>5, ThenStep DEF Then, Constraint
    <2> QED BY <2>1, Waits1 DEF Promise!UNext
  <1>6. ASSUME NEW t \in Task, NEW s, AsyncCref(t, s) PROVE UNCHANGED Promise!uvars
    BY <1>6, SameWaiting, Stutters DEF AsyncCref, Due
  <1>7. CASE UnifySame
    BY <1>7, UnifySameStep, SameWaiting, Stutters DEF UnifySame, cells
  <1>8. CASE Union
    BY <1>8, Merges DEF Promise!UNext
  <1>9. CASE UnifyValues
    BY <1>9, UnifyValuesStep, SameWaiting, Stutters DEF UnifyValues, cells
  <1>10. CASE Unwind
    BY <1>10, LetsGo DEF Promise!UNext
  <1>11. ASSUME NEW e \in Root, NEW v \in Root, UnifyExternal(e, v) PROVE Promise!UNext
    <2> DEFINE f == Fresh(Sig[ctor[v]].res)
    <2>1. f \in Cell \ live /\ ctor[v] \in Ctor
      <3>1. ctor[Left] # Unknown /\ ctor[Right] # Unknown /\ v \in {Left, Right}
        BY <1>11 DEF UnifyExternal, BothKnown
      <3>2. ctor[v] # Unknown /\ v \in Cell
        BY <1>1, <3>1
      <3>3. ctor[v] \in Ctor
        BY <3>2 DEF IInv, TypeOK
      <3> QED BY <1>11, <3>3, FreshIsUnused DEF UnifyExternal
    <2>2. ctor' = [ctor EXCEPT ![f] = ctor[v]] /\ UNCHANGED <<canon, on, ran, pending>>
      BY <1>11 DEF UnifyExternal
    <2> HIDE DEF f
    <2>3. Waiting' = Waiting
      BY <1>1, <1>11, <2>2, UnifyExternalStep, SameWaiting
    <2> QED BY <2>1, <2>2, <2>3, Creates DEF Promise!UNext
  <1>12. ASSUME NEW t \in Task, FireWaker(t) PROVE Promise!UNext
    <2>1. t \in Due /\ Due' = Due \ {t} /\ t \notin Callback /\ t \in Constraint
      BY <1>12, FireWakerStep, ConstantsAssumption DEF Constraint
    <2>2. UNCHANGED <<canon, ctor, pending, on>> /\ ran' = ran \cup ({t} \cap Callback)
      BY <1>12, <2>1 DEF FireWaker, cells
    <2> QED BY <2>1, <2>2, Tells, WaitingFacts DEF Promise!UNext, Waiting
  <1>13. ASSUME NEW k \in Callback, FireCallback(k) PROVE Promise!UNext
    <2>1. k \in Due /\ Due' = Due \ {k} /\ k \in Constraint
      BY <1>13, FireCallbackStep DEF Constraint
    <2>2. UNCHANGED <<canon, ctor, pending, on>> /\ ran' = ran \cup ({k} \cap Callback)
      BY <1>13 DEF FireCallback, cells
    <2> QED BY <2>1, <2>2, Tells, WaitingFacts DEF Promise!UNext, Waiting
  <1>14. ASSUME NEW r \in Root, CallbackReturns(r) PROVE UNCHANGED Promise!uvars
    BY <1>1, <1>14, CallbackReturnsStep, SameWaiting, Stutters DEF CallbackReturns, cells
  <1>15. ASSUME NEW t \in Task, NEW c \in Root, Await(t, c)
         PROVE  [Promise!UNext]_(Promise!uvars)
    <2>1. Joins(t, c) /\ UNCHANGED <<canon, ctor, ran>> /\ t \in Constraint /\ c \in Cell
      BY <1>1, <1>15, AwaitStep DEF Await, Constraint, cells
    <2> QED BY <2>1, Waits1 DEF Promise!UNext
  <1>16. ASSUME NEW t \in Task, NEW c \in Root, TaskReturns(t, c) PROVE UNCHANGED Promise!uvars
    BY <1>1, <1>16, TaskReturnsStep, SameWaiting, Stutters DEF TaskReturns, cells
  <1>17. ASSUME (\E t \in Task : Start(t) \/ TaskDone(t)) \/ Drive \/ Collect \/ UNCHANGED vars
         PROVE  UNCHANGED Promise!uvars
    BY <1>17, SameWaiting, Stutters DEF Start, TaskDone, Drive, Collect, vars, cells, Due
  <1>18. ASSUME NEW t \in Task, Resume(t) PROVE [Promise!UNext]_(Promise!uvars)
    <2>1. /\ Joins(t, on[t]) /\ UNCHANGED <<canon, ctor, ran>> /\ t \in Constraint
          /\ on[t] \in Cell
      BY <1>1, <1>18, ResumeStep DEF Resume, Constraint, cells
    <2> QED BY <2>1, Waits1 DEF Promise!UNext
  <1>19. CASE Code
    BY <1>2, <1>3, <1>4, <1>5, <1>6, <1>19 DEF Code
  <1>20. CASE Engine
    BY <1>7, <1>8, <1>9, <1>10, <1>11, <1>12, <1>13, <1>20 DEF Engine, Mismatch
  <1>21. CASE Leave
    BY <1>10, <1>14, <1>15, <1>16, <1>17, <1>21 DEF Leave, CallbackFails, TaskFails
  <1>22. CASE Schedule
    BY <1>17, <1>18, <1>22 DEF Schedule
  <1> QED BY <1>17, <1>19, <1>20, <1>21, <1>22 DEF Next

LEMMA InitImplements == Init => Promise!UInit
  <1> SUFFICES ASSUME Init PROVE Promise!UInit
    OBVIOUS
  <1>1. canon = [c \in Cell |-> c] /\ ctor = [c \in Cell |-> Unknown] /\ ran = {}
    BY DEF Init
  <1>2. Classes = {{c} : c \in Cell}
    <2>1. \A c \in Cell : {d \in Cell : canon[d] = canon[c]} = {c}
      BY <1>1
    <2> QED BY <2>1 DEF Classes
  <1>3. Shapes = [c \in Cell |-> Unknown]
    BY <1>1 DEF Shapes
  <1>4. Waits = {}
    BY DEF Init, Waits, Waiting, Due, Elements
  <1> QED BY <1>1, <1>2, <1>3, <1>4 DEF Promise!UInit

\* Cells that point to cells, queues that move with them and calls that nest
\* are an implementation of classes that merge, are known for good, and tell
\* whoever waits for them, once and not before (inference.rs).
THEOREM EngineImplements == Spec => ImplementsUnification
  <1>1. IInv /\ [Next]_vars => [Promise!UNext]_(Promise!uvars)
    BY StepImplements
  <1> QED BY <1>1, InitImplements, Invariance, PTL DEF Spec, ImplementsUnification, Promise!USpec

-----------------------------------------------------------------------------
(* What a call of unify achieved lasts: HInv is inductive.                 *)

\* Matched over given cells, to speak of it before and after a step.
Match(p, R, ca, ct, ar) ==
  \/ ca[p[1]] = ca[p[2]]
  \/ /\ ct[ca[p[1]]] = ct[ca[p[2]]] /\ ct[ca[p[1]]] # Unknown
     /\ \A i \in 1..Len(ar[ca[p[1]]]) : <<ar[ca[p[1]]][i], ar[ca[p[2]]][i]>> \in R
  \/ /\ ct[ca[p[1]]] \in External /\ ct[ca[p[2]]] \notin External \cup {Unknown}
     /\ \E q \in R : /\ q[1] = ar[ca[p[1]]][1]
                     /\ ct[ca[q[2]]] = ct[ca[p[2]]] /\ ar[ca[q[2]]] = ar[ca[p[2]]]
  \/ /\ ct[ca[p[2]]] \in External /\ ct[ca[p[1]]] \notin External \cup {Unknown}
     /\ \E q \in R : /\ q[1] = ar[ca[p[2]]][1]
                     /\ ct[ca[q[2]]] = ct[ca[p[1]]] /\ ar[ca[q[2]]] = ar[ca[p[1]]]

MatchedNow(p, R) == Match(p, R, canon, ctor, args)
MatchedNext(p, R) == Match(p, R, canon', ctor', args')

LEMMA MatchedIsMatch ==
  /\ UnifiedMeansEqual <=> \A p \in agreed : MatchedNow(p, agreed)
  /\ UnifiedMeansEqual' <=> \A p \in agreed' : MatchedNext(p, agreed')
  /\ (\A p \in asked : p \in Pairs(stack) \/ Matched(p, asked))
       <=> (\A p \in asked : p \in Pairs(stack) \/ MatchedNow(p, asked))
  /\ (\A p \in asked : p \in Pairs(stack) \/ Matched(p, asked))'
       <=> (\A p \in asked' : p \in Pairs(stack') \/ MatchedNext(p, asked'))
  BY DEF UnifiedMeansEqual, Matched, Inside, Copies, MatchedNow, MatchedNext, Match

\* A match outlives every step, and is none the worse for more pairs.
LEMMA MatchStays ==
  ASSUME IInv, Together, KnownStays, NEW R, NEW S, R \subseteq S, R \subseteq live \X live,
         NEW p \in live \X live, MatchedNow(p, R)
  PROVE  MatchedNext(p, S)
  <1>1. p[1] \in Cell /\ p[2] \in Cell /\ \A q \in R : q[2] \in Cell
    BY DEF IInv, TypeOK
  <1>2. CASE canon[p[1]] = canon[p[2]]
    BY <1>1, <1>2 DEF Together, MatchedNext, Match
  <1> DEFINE L == canon[p[1]]
             M == canon[p[2]]
  <1>3. CASE /\ ctor[L] = ctor[M] /\ ctor[L] # Unknown
             /\ \A i \in 1..Len(args[L]) : <<args[L][i], args[M][i]>> \in R
    BY <1>1, <1>3 DEF KnownStays, Known, MatchedNext, Match
  <1>4. Unknown \notin External
    BY ConstantsAssumption
  <1>5. CASE /\ ctor[L] \in External /\ ctor[M] \notin External \cup {Unknown}
             /\ \E q \in R : /\ q[1] = args[L][1]
                             /\ ctor[canon[q[2]]] = ctor[M] /\ args[canon[q[2]]] = args[M]
    <2>1. PICK q \in R : /\ q[1] = args[L][1]
                         /\ ctor[canon[q[2]]] = ctor[M] /\ args[canon[q[2]]] = args[M]
      BY <1>5
    <2>2. Known(p[1]) /\ Known(p[2]) /\ Known(q[2])
      BY <1>4, <1>5, <2>1 DEF Known
    <2> QED BY <1>1, <1>5, <2>1, <2>2 DEF KnownStays, MatchedNext, Match
  <1>6. CASE /\ ctor[M] \in External /\ ctor[L] \notin External \cup {Unknown}
             /\ \E q \in R : /\ q[1] = args[M][1]
                             /\ ctor[canon[q[2]]] = ctor[L] /\ args[canon[q[2]]] = args[L]
    <2>1. PICK q \in R : /\ q[1] = args[M][1]
                         /\ ctor[canon[q[2]]] = ctor[L] /\ args[canon[q[2]]] = args[L]
      BY <1>6
    <2>2. Known(p[1]) /\ Known(p[2]) /\ Known(q[2])
      BY <1>4, <1>6, <2>1 DEF Known
    <2> QED BY <1>1, <1>6, <2>1, <2>2 DEF KnownStays, MatchedNext, Match
  <1> QED BY <1>2, <1>3, <1>5, <1>6 DEF MatchedNow, Match

LEMMA PairsFacts ==
  /\ \A s : \A f \in Elements(s) : f.op = "unify" =>
       <<f.l, f.r>> \in Pairs(s) /\ <<f.r, f.l>> \in Pairs(s)
  /\ \A s : \A p \in Pairs(s) : \E f \in Elements(s) :
       f.op = "unify" /\ (p = <<f.l, f.r>> \/ p = <<f.r, f.l>>)
  /\ Pairs(<<>>) = {}
  BY DEF Pairs, Elements

\* A call of unify that a step ends has matched its two sides, or will fail.
Carries(R) ==
  \A f \in Elements(stack) : f.op \in {"unify", "err"} =>
    \/ f \in Elements(stack') \/ ErrFrame \in Elements(stack')
    \/ f.op = "unify" /\ MatchedNext(<<f.l, f.r>>, R) /\ MatchedNext(<<f.r, f.l>>, R)

LEMMA FramesConcat ==
  ASSUME NEW s \in Seq(Frame), NEW t \in Seq(Frame)
  PROVE  Elements(s \o t) = Elements(s) \cup Elements(t)
  BY ONLY ZenonT(60), ConcatElements

\* The innermost call is over, and what it calls next is in front of the rest.
LEMMA CarriesTail ==
  ASSUME IInv, NEW R, stack # <<>>, NEW q \in Seq(Frame), stack' = q \o Tail(stack),
         \/ Head(stack).op \notin {"unify", "err"}
         \/ ErrFrame \in Elements(q)
         \/ /\ Head(stack).op = "unify"
            /\ MatchedNext(<<Head(stack).l, Head(stack).r>>, R)
            /\ MatchedNext(<<Head(stack).r, Head(stack).l>>, R)
  PROVE  Carries(R)
  <1>1. stack \in Seq(Frame)
    BY DEF IInv, TypeOK
  <1>2. Tail(stack) \in Seq(Frame) /\ Elements(stack) = {Head(stack)} \cup Elements(Tail(stack))
    BY <1>1, HeadTail
  <1>3. Elements(stack') = Elements(q) \cup Elements(Tail(stack))
    BY <1>2, FramesConcat
  <1> SUFFICES ASSUME NEW f \in Elements(stack), f.op \in {"unify", "err"},
                      f \notin Elements(stack'), ErrFrame \notin Elements(stack')
               PROVE  /\ f.op = "unify"
                      /\ MatchedNext(<<f.l, f.r>>, R) /\ MatchedNext(<<f.r, f.l>>, R)
    BY DEF Carries
  <1>4. f = Head(stack) /\ ErrFrame \notin Elements(q)
    BY <1>2, <1>3
  <1> QED BY <1>4

\* Calls that begin while the innermost one goes on.
LEMMA CarriesPush ==
  ASSUME IInv, NEW R, NEW q \in Seq(Frame), stack' = q \o stack
  PROVE  Carries(R)
  <1>1. stack \in Seq(Frame)
    BY DEF IInv, TypeOK
  <1>2. Elements(stack') = Elements(q) \cup Elements(stack)
    BY <1>1, FramesConcat
  <1> QED BY <1>2 DEF Carries

\* What the innermost unify is about, by its cells and by their classes.
LEMMA HeadSides ==
  ASSUME IInv, Top("unify")
  PROVE  /\ Head(stack).l \in live /\ Head(stack).r \in live
         /\ Head(stack).l \in Cell /\ Head(stack).r \in Cell
         /\ Left = canon[Head(stack).l] /\ Right = canon[Head(stack).r]
  <1>1. stack \in Seq(Frame) /\ stack # <<>> /\ Head(stack).op = "unify"
    BY DEF IInv, TypeOK, Top
  <1>2. Head(stack).l \in live /\ Head(stack).r \in live
    BY <1>1, HeadTail DEF IInv, LiveInv, LiveFrames
  <1> QED BY <1>2 DEF Left, Right, IInv, TypeOK

LEMMA SameCarries == ASSUME IInv, NEW R, UnifySame PROVE Carries(R)
  <1>1. /\ stack \in Seq(Frame) /\ stack # <<>> /\ Head(stack).op = "unify"
        /\ stack' = Tail(stack) /\ canon' = canon
    BY DEF IInv, TypeOK, UnifySame, Top, cells
  <1>2. canon[Head(stack).l] = canon[Head(stack).r]
    BY HeadSides DEF UnifySame
  <1>3. MatchedNext(<<Head(stack).l, Head(stack).r>>, R) /\ MatchedNext(<<Head(stack).r, Head(stack).l>>, R)
    BY <1>1, <1>2 DEF MatchedNext, Match
  <1>4. Elements(stack) = {Head(stack)} \cup Elements(Tail(stack))
    BY <1>1, HeadTail
  <1> QED BY <1>1, <1>3, <1>4 DEF Carries

LEMMA UnionCarries == ASSUME IInv, NEW R, Union PROVE Carries(R)
  <1>1. stack \in Seq(Frame) /\ stack # <<>> /\ Head(stack).op = "unify" /\ Top("unify")
    BY DEF IInv, TypeOK, Union, Top
  <1>2. canon'[Head(stack).l] = Winner /\ canon'[Head(stack).r] = Winner
    BY <1>1, HeadSides DEF Union, Merged, Winner, Loser
  <1>3. MatchedNext(<<Head(stack).l, Head(stack).r>>, R) /\ MatchedNext(<<Head(stack).r, Head(stack).l>>, R)
    BY <1>2 DEF MatchedNext, Match
  <1>4. Tail(stack) \in Seq(Frame) /\ Elements(stack) = {Head(stack)} \cup Elements(Tail(stack))
    BY <1>1, HeadTail
  <1>5. Elements(Tail(stack)) \subseteq Elements(stack')
    <2>1. CASE stack' = Tail(stack)
      BY <2>1
    <2>2. CASE stack' = Fires(pending[Loser]) \o Tail(stack)
      <3>1. pending[Loser] \in Seq(Constraint)
        BY <1>1, WinnerLoser DEF IInv, TypeOK
      <3>2. Fires(pending[Loser]) \in Seq(Frame)
        BY <3>1, FramesTyped DEF Fires
      <3>3. Elements(Fires(pending[Loser]) \o Tail(stack))
              = Elements(Fires(pending[Loser])) \cup Elements(Tail(stack))
        BY <1>4, <3>2, FramesConcat
      <3> QED BY <2>2, <3>3
    <2>3. stack' = Tail(stack) \/ stack' = Fires(pending[Loser]) \o Tail(stack)
      BY DEF Union
    <2> QED BY <2>1, <2>2, <2>3
  <1> SUFFICES ASSUME NEW f \in Elements(stack), f.op \in {"unify", "err"}, f \notin Elements(stack')
               PROVE  /\ f.op = "unify"
                      /\ MatchedNext(<<f.l, f.r>>, R) /\ MatchedNext(<<f.r, f.l>>, R)
    BY DEF Carries
  <1>6. f = Head(stack)
    BY <1>4, <1>5
  <1> QED BY <1>1, <1>3, <1>6

\* Equal constructors have all their arguments unified; different ones fail.
LEMMA ValuesCarry ==
  ASSUME IInv, UnifyValues, NEW R, Pairs(stack') \subseteq R
  PROVE  Carries(R)
  <1> DEFINE e == IF Agree(ctor[Left], ctor[Right]) THEN <<>> ELSE <<ErrFrame>>
             q == ArgFrames(Left, Right) \o e
             h == Head(stack)
  <1>1. /\ Top("unify") /\ stack # <<>> /\ h.op = "unify"
        /\ stack \in Seq(Frame) /\ stack' = q \o Tail(stack)
        /\ UNCHANGED <<canon, ctor, args>> /\ ctor[Left] # Unknown
    BY DEF UnifyValues, BothKnown, Top, IInv, TypeOK, cells
  <1>2. e \in Seq(Frame) /\ (~Agree(ctor[Left], ctor[Right]) => ErrFrame \in Elements(e))
    BY FramesTyped DEF Elements
  <1>3. ArgFrames(Left, Right) \in Seq(Frame)
    BY ArgFramesFacts
  <1> HIDE DEF e
  <1>4. q \in Seq(Frame) /\ Elements(q) = Elements(ArgFrames(Left, Right)) \cup Elements(e)
    BY <1>2, <1>3, FramesConcat
  <1>5. CASE ~Agree(ctor[Left], ctor[Right])
    <2> HIDE DEF q, h
    <2> QED BY <1>1, <1>2, <1>4, <1>5, CarriesTail
  <1>6. CASE Agree(ctor[Left], ctor[Right])
    <2>1. Elements(ArgFrames(Left, Right)) \subseteq Elements(stack')
      <3>1. Tail(stack) \in Seq(Frame)
        BY <1>1, HeadTail
      <3> HIDE DEF q
      <3>2. Elements(q \o Tail(stack)) = Elements(q) \cup Elements(Tail(stack))
        BY <1>4, <3>1, FramesConcat
      <3> QED BY <1>1, <1>4, <3>2
    <2>2. ASSUME NEW i \in 1..Len(args[Left])
          PROVE  <<args[Left][i], args[Right][i]>> \in R /\ <<args[Right][i], args[Left][i]>> \in R
      <3>1. i \in 1..Len(ArgFrames(Left, Right)) /\ i \in 1..Common(ctor[Left], ctor[Right])
        BY <1>6, ArgFramesFacts
      <3>2. ArgFrames(Left, Right)[i] \in Elements(stack')
        BY <2>1, <3>1 DEF Elements
      <3>3. \/ ArgFrames(Left, Right)[i] = UnifyFrame(args[Right][i], args[Left][i])
            \/ ArgFrames(Left, Right)[i] = UnifyFrame(args[Left][i], args[Right][i])
        BY <3>1 DEF ArgFrames
      <3> QED BY <3>2, <3>3, PairsFacts DEF UnifyFrame
    <2>3. ctor[Left] = ctor[Right] /\ Len(args[Left]) = Len(args[Right])
      BY <1>6, ArgFramesFacts DEF Agree
    <2>4. Left = canon[h.l] /\ Right = canon[h.r]
      BY <1>1, HeadSides
    <2>5. MatchedNext(<<h.l, h.r>>, R) /\ MatchedNext(<<h.r, h.l>>, R)
      BY <1>1, <2>2, <2>3, <2>4 DEF MatchedNext, Match
    <2> HIDE DEF q
    <2> QED BY <1>1, <1>4, <2>5, CarriesTail
  <1> QED BY <1>5, <1>6

\* External<T> has its T unified with a copy of the other side.
LEMMA ExternalCarries ==
  ASSUME IInv, NEW e \in Root, NEW v \in Root, UnifyExternal(e, v),
         NEW R, Pairs(stack') \subseteq R
  PROVE  Carries(R)
  <1> DEFINE c == Fresh(Sig[ctor[v]].res)
             q == <<UnifyFrame(args[e][1], c)>>
             h == Head(stack)
  <1>1. c \in Cell \ live
    BY FreshIsUnused DEF UnifyExternal
  <1>2. /\ Top("unify") /\ stack # <<>> /\ h.op = "unify"
        /\ stack \in Seq(Frame) /\ stack' = q \o Tail(stack) /\ canon' = canon
        /\ ctor' = [ctor EXCEPT ![c] = ctor[v]] /\ args' = [args EXCEPT ![c] = args[v]]
    BY DEF UnifyExternal, BothKnown, Top, IInv, TypeOK
  <1>3. /\ {e, v} = {Left, Right} /\ ctor[e] \in External
        /\ ctor[v] \notin External \cup {Unknown}
    BY ConstantsAssumption DEF UnifyExternal, BothKnown
  <1>4. e \in live /\ v \in live /\ e \in Cell /\ v \in Cell
    BY DEF Root, IInv, TypeOK
  <1>5. canon[c] = c
    BY <1>1, Unallocated
  <1> HIDE DEF c
  <1>6. args[e][1] \in Cell
    <2>1. ctor[e] \in Ctor /\ ctor[e] # Unknown /\ Len(Sig[ctor[e]].args) = 1
      BY <1>3, ConstantsAssumption
    <2> QED BY <1>4, <2>1 DEF IInv, TypeOK, ShapeInv
  <1>7. q \in Seq(Frame)
    BY <1>1, <1>6, OneFrame
  <1>8. <<args[e][1], c>> \in R
    <2>1. UnifyFrame(args[e][1], c) \in Elements(q)
      BY DEF Elements
    <2>2. Tail(stack) \in Seq(Frame)
      BY <1>2, HeadTail
    <2>3. Elements(stack') = Elements(q) \cup Elements(Tail(stack))
      <3> HIDE DEF q
      <3>1. Elements(q \o Tail(stack)) = Elements(q) \cup Elements(Tail(stack))
        BY <1>7, <2>2, FramesConcat
      <3> QED BY <1>2, <3>1
    <2>4. UnifyFrame(args[e][1], c) \in Elements(stack')
      BY <2>1, <2>3
    <2> QED BY <2>4, PairsFacts DEF UnifyFrame
  <1>9. /\ ctor'[e] = ctor[e] /\ args'[e] = args[e] /\ ctor'[v] = ctor[v] /\ args'[v] = args[v]
        /\ ctor'[c] = ctor[v] /\ args'[c] = args[v]
    BY <1>1, <1>2, <1>4 DEF IInv, TypeOK
  <1>10. (e = canon[h.l] /\ v = canon[h.r]) \/ (v = canon[h.l] /\ e = canon[h.r])
    BY <1>2, <1>3, HeadSides
  <1>11. MatchedNext(<<h.l, h.r>>, R) /\ MatchedNext(<<h.r, h.l>>, R)
    <2>1. \E p \in R : /\ p[1] = args'[e][1]
                       /\ ctor'[canon'[p[2]]] = ctor'[v] /\ args'[canon'[p[2]]] = args'[v]
      BY <1>2, <1>5, <1>8, <1>9
    <2>2. ctor'[e] \in External /\ ctor'[v] \notin External \cup {Unknown}
      BY <1>3, <1>9
    <2>3. (e = canon'[h.l] /\ v = canon'[h.r]) \/ (v = canon'[h.l] /\ e = canon'[h.r])
      BY <1>2, <1>10
    <2> HIDE DEF h
    <2> QED BY <2>1, <2>2, <2>3 DEF MatchedNext, Match
  <1> HIDE DEF q
  <1> QED BY <1>2, <1>7, <1>11, CarriesTail

\* Constraints that are called, and callbacks that return, are no unification.
LEMMA CallCarries ==
  ASSUME IInv, NEW R,
         \/ \E t \in Task : FireWaker(t)
         \/ \E k \in Callback : FireCallback(k)
         \/ \E r \in Root : CallbackReturns(r)
  PROVE  Carries(R)
  <1>1. stack \in Seq(Frame) /\ Root \subseteq live /\ live \subseteq Cell
    BY DEF IInv, TypeOK, Root
  <1>2. ASSUME stack # <<>>, Head(stack).op \in {"fire", "call"},
               Elements(Tail(stack)) \subseteq Elements(stack')
        PROVE  Carries(R)
    <2>1. Elements(stack) = {Head(stack)} \cup Elements(Tail(stack))
      BY <1>1, <1>2, HeadTail
    <2> QED BY <1>2, <2>1 DEF Carries
  <1>3. ASSUME NEW t \in Task, FireWaker(t) PROVE Carries(R)
    BY <1>2, <1>3 DEF FireWaker, Top
  <1>4. ASSUME NEW k \in Callback, FireCallback(k) PROVE Carries(R)
    <2>1. stack # <<>> /\ Head(stack).op = "fire" /\ stack' = <<CallFrame(k)>> \o Tail(stack)
      BY <1>4 DEF FireCallback, Top
    <2>2. <<CallFrame(k)>> \in Seq(Frame)
      BY CallFrameOnTop
    <2> QED BY <2>1, <2>2, CarriesTail
  <1>5. ASSUME NEW r \in Root, CallbackReturns(r) PROVE Carries(R)
    <2> DEFINE q == <<UnifyFrame(slot[Head(stack).k], r)>>
    <2>1. stack # <<>> /\ Head(stack).op = "call" /\ stack' = q \o Tail(stack)
      BY <1>5 DEF CallbackReturns, Top
    <2>2. Head(stack).k \in CallsIn(stack)
      BY <1>1, <2>1, Pop DEF IInv, DueInv
    <2>3. slot[Head(stack).k] \in Cell /\ r \in Cell
      BY <1>1, <2>2, ConstantsAssumption DEF CallsIn, IInv, ShapeInv, LiveInv, TypeOK, Constraint
    <2>4. q \in Seq(Frame)
      BY <2>3, OneFrame
    <2> HIDE DEF q
    <2> QED BY <2>1, <2>4, CarriesTail
  <1> QED BY <1>3, <1>4, <1>5

\* Nothing but an error ends a call of unify whose sides are not matched.
LEMMA StepCarries ==
  ASSUME IInv, [Next]_vars, stack # <<>>, NEW R, Pairs(stack') \subseteq R
  PROVE  Carries(R) \/ (stack' = <<>> /\ Head(stack).op \in {"err", "call"})
  <1>1. ASSUME stack' = stack PROVE Carries(R)
    BY <1>1 DEF Carries
  <1>2. CASE Code
    <2>1. Root \subseteq Cell
      BY DEF IInv, TypeOK, Root
    <2>2. ASSUME NEW l \in Root, NEW r \in Root, Unify(l, r) PROVE Carries(R)
      BY <2>1, <2>2, OneFrame, CarriesPush DEF Unify
    <2>3. ASSUME NEW k \in Callback, NEW c \in Root, NEW s \in Sort, Then(k, c, s) PROVE Carries(R)
      <3>1. stack' = stack \/ stack' = <<FireFrame(k)>> \o stack
        BY <2>3 DEF Then, AddConstraint
      <3>2. <<FireFrame(k)>> \in Seq(Frame)
        BY FramesTyped DEF Constraint
      <3> QED BY <1>1, <3>1, <3>2, CarriesPush
    <2> QED BY <1>1, <1>2, <2>2, <2>3 DEF Code, NewUnknown, NewKnown, AsyncCref
  <1>3. CASE Engine
    <2>1. Mismatch => stack' = <<>> /\ Head(stack).op \in {"err", "call"}
      BY DEF Mismatch, Unwind, Top
    <2> QED BY <1>3, <2>1, SameCarries, UnionCarries, ValuesCarry, ExternalCarries, CallCarries
        DEF Engine
  <1>4. CASE Leave
    <2>1. CallbackFails => stack' = <<>> /\ Head(stack).op \in {"err", "call"}
      BY DEF CallbackFails, Unwind, Top
    <2> QED BY <1>4, <2>1, CallCarries DEF Leave, Await, TaskReturns, TaskFails, TaskDone, InTask, Drive
  <1>5. CASE Schedule
    BY <1>1, <1>5 DEF Schedule, Start, Resume, Collect
  <1> QED BY <1>1, <1>2, <1>3, <1>4, <1>5 DEF Next, vars

LEMMA LiveGrows == [Next]_vars => live \subseteq live'
  BY DEF Next, Code, Engine, Leave, Schedule, cells, NewUnknown, NewKnown, Unify, Then,
         AsyncCref, UnifySame, Union, UnifyValues, Mismatch, Unwind, UnifyExternal, FireWaker,
         FireCallback, CallbackReturns, CallbackFails, Await, TaskReturns, TaskFails,
         TaskDone, Drive, Start, Resume, Collect, vars

\* What the watched call came to stays matched or on its way, or has failed.
LEMMA GoesOn ==
  ASSUME HInv, [Next]_vars, asked # {}, NEW R, R = asked \cup Pairs(stack')
  PROVE  \/ ErrFrame \in Elements(stack')
         \/ \A p \in R : p \in Pairs(stack') \/ MatchedNext(p, R)
         \/ stack' = <<>> /\ Head(stack).op \in {"err", "call"}
  <1>1. IInv /\ stack # <<>> /\ asked \subseteq live \X live
    BY DEF HInv
  <1>2. Together /\ KnownStays
    BY <1>1, StayTogether, StaysKnown
  <1> SUFFICES ASSUME Carries(R), ErrFrame \notin Elements(stack'),
                      NEW p \in R, p \notin Pairs(stack')
               PROVE  MatchedNext(p, R)
    BY <1>1, StepCarries
  <1>3. p \in asked
    OBVIOUS
  <1>4. ErrFrame \notin Elements(stack)
    BY FramesTyped DEF Carries
  <1>5. p \in Pairs(stack) \/ MatchedNow(p, asked)
    BY <1>3, <1>4, MatchedIsMatch DEF HInv, WillBeUnified
  <1>6. CASE MatchedNow(p, asked)
    BY <1>1, <1>2, <1>3, <1>6, MatchStays
  <1>7. CASE p \in Pairs(stack)
    <2>1. PICK f \in Elements(stack) : f.op = "unify" /\ (p = <<f.l, f.r>> \/ p = <<f.r, f.l>>)
      BY <1>7, PairsFacts
    <2>2. f \notin Elements(stack')
      BY <2>1, PairsFacts
    <2> QED BY <2>1, <2>2 DEF Carries
  <1> QED BY <1>5, <1>6, <1>7

LEMMA InitHInv == HInit => HInv
  BY InitInv DEF HInit, HInv, UnifiedMeansEqual, WillBeUnified

LEMMA NextHInv == HInv /\ [HNext]_hvars => HInv'
  <1> SUFFICES ASSUME HInv, [HNext]_hvars PROVE HInv'
    OBVIOUS
  <1>1. [Next]_vars /\ IInv
    BY DEF HNext, hvars, HInv
  <1>2. IInv' /\ live \subseteq live'
    BY <1>1, NextInv, LiveGrows
  <1>3. Together /\ KnownStays
    BY <1>1, StayTogether, StaysKnown
  <1>4. Pairs(stack') \subseteq live' \X live'
    BY <1>2, PairsFacts DEF IInv, LiveInv, LiveFrames
  <1>5. \A p \in agreed : MatchedNext(p, agreed)
    <2>1. agreed \subseteq live \X live /\ \A p \in agreed : MatchedNow(p, agreed)
      BY MatchedIsMatch DEF HInv
    <2> QED BY <1>1, <1>3, <2>1, MatchStays
  <1>6. asked = {} \/ stack # <<>>
    BY DEF HInv
  <1>7. CASE UNCHANGED hvars
    <2>1. UNCHANGED <<stack, canon, ctor, args, live, asked, agreed>>
      BY <1>7 DEF hvars, vars
    <2>2. \A p \in asked : MatchedNext(p, asked) <=> MatchedNow(p, asked)
      BY <2>1 DEF MatchedNext, MatchedNow
    <2>3. WillBeUnified'
      BY <2>1, <2>2, MatchedIsMatch DEF WillBeUnified, HInv
    <2> QED BY <1>2, <1>5, <2>1, <2>3, MatchedIsMatch DEF HInv
  <1>8. CASE HNext /\ asked = {}
    <2>1. agreed' = agreed /\ asked' \subseteq Pairs(stack') /\ (asked' = {} \/ asked' = Pairs(stack'))
      BY <1>8 DEF HNext, Asks, Comes, Returns, Unwatched
    <2>2. WillBeUnified'
      BY <2>1, MatchedIsMatch DEF WillBeUnified
    <2>3. UnifiedMeansEqual'
      BY <1>5, <2>1, MatchedIsMatch
    <2>4. stack' = <<>> => asked' = {}
      BY <2>1, PairsFacts
    <2>5. asked' \subseteq live' \X live' /\ agreed' \subseteq live' \X live'
      BY <1>2, <1>4, <2>1 DEF HInv
    <2> QED BY <1>2, <2>2, <2>3, <2>4, <2>5 DEF HInv
  <1>9. CASE Comes
    <2>1. asked' = asked \cup Pairs(stack') /\ agreed' = agreed /\ asked # {} /\ stack' # <<>>
      BY <1>9 DEF Comes
    <2>2. \/ ErrFrame \in Elements(stack')
          \/ \A p \in asked' : p \in Pairs(stack') \/ MatchedNext(p, asked')
      BY <1>1, <2>1, GoesOn
    <2>3. WillBeUnified'
      BY <2>1, <2>2, MatchedIsMatch DEF WillBeUnified
    <2>4. UnifiedMeansEqual'
      BY <1>5, <2>1, MatchedIsMatch
    <2>5. asked' \subseteq live' \X live' /\ agreed' \subseteq live' \X live'
      BY <1>2, <1>4, <2>1 DEF HInv
    <2> QED BY <1>2, <2>1, <2>3, <2>4, <2>5 DEF HInv
  <1>10. CASE Returns
    <2>1. /\ asked' = {} /\ stack' = <<>> /\ asked # {}
          /\ agreed' = IF Head(stack).op \in {"err", "call"} THEN agreed ELSE asked
      BY <1>10 DEF Returns
    <2>2. WillBeUnified'
      BY <2>1 DEF WillBeUnified
    <2>3. UnifiedMeansEqual'
      <3>1. CASE Head(stack).op \in {"err", "call"}
        BY <1>5, <2>1, <3>1, MatchedIsMatch
      <3>2. CASE Head(stack).op \notin {"err", "call"}
        <4>1. Pairs(stack') = {} /\ Elements(stack') = {} /\ agreed' = asked
          BY <2>1, <3>2, PairsFacts DEF Elements
        <4>2. \A p \in agreed' : MatchedNext(p, agreed')
          BY <1>1, <2>1, <3>2, <4>1, GoesOn
        <4> QED BY <4>2, MatchedIsMatch
      <3> QED BY <3>1, <3>2
    <2>4. agreed' \subseteq live' \X live'
      BY <1>2, <2>1 DEF HInv
    <2> QED BY <1>2, <2>1, <2>2, <2>3, <2>4 DEF HInv
  <1> QED BY <1>6, <1>7, <1>8, <1>9, <1>10 DEF HNext, Asks, Unwatched

\* A unify that returned Ok made both sides one type, field by field and down
\* to every depth, and nothing that happens later undoes it (inference.rs).
THEOREM UnifiedIsEqual == HSpec => []UnifiedMeansEqual
  <1>1. HInv => UnifiedMeansEqual
    BY DEF HInv
  <1> QED BY <1>1, InitHInv, NextHInv, PTL DEF HSpec

=============================================================================
