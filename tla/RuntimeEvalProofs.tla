-------------------------- MODULE RuntimeEvalProofs --------------------------
(***************************************************************************)
(* What evaluation promises for every program that has the shape the       *)
(* inliner gives it, every database and every depth of calls.              *)
(***************************************************************************)
EXTENDS RuntimeEval, TLAPS

-----------------------------------------------------------------------------
\* The parts of an expression, by its kind.
LEMMA SqlParts == ASSUME NEW e, Is("sql", e) PROVE Parts(e) = e.params
  BY DEF Parts, Is

LEMMA PlacedParts == ASSUME NEW e, Placed(e) PROVE Is("mat", e) /\ Parts(e) = e.inner.params
  BY DEF Parts, Is, Placed

LEMMA KeptParts ==
  ASSUME NEW e, Is("mat", e), ~Placed(e)
  PROVE  DOMAIN Parts(e) = {0} /\ Parts(e)[0] = e.inner
  BY DEF Parts, Is

LEMMA CallParts ==
  ASSUME NEW e, Is("call", e)
  PROVE  /\ DOMAIN Parts(e) = DOMAIN e.args \cup {0} /\ Parts(e)[0] = e.body
         /\ \A l \in DOMAIN e.args : l # 0 => Parts(e)[l] = e.args[l]
         /\ ~Placed(e)
  BY DEF Parts, Is, Placed

\* What the assumption says of one expression of a program.
LEMMA PartShape ==
  ASSUME NEW p \in Program, NEW e \in Nodes(p), NEW l \in DOMAIN Parts(e)
  PROVE  /\ Parts(e)[l] \in Nodes(p)
         /\ Rank(e) \in Nat /\ Rank(Parts(e)[l]) \in Nat
         /\ Rank(Parts(e)[l]) <= Rank(e)
         /\ Is("mat", e) => Rank(Parts(e)[l]) < Rank(e)
         /\ Is("call", e) => ~Placed(Parts(e)[l])
         /\ ~(Is("call", e) /\ l = 0) => Free(Parts(e)[l]) \subseteq Free(e)
  <1>1. ProgramShape(p) /\ InlinedShape(p) /\ Bound(p)
    BY ProgramAssumption
  <1>2. /\ Parts(e)[l] \in Nodes(p)
        /\ Rank(Parts(e)[l]) <= Rank(e)
        /\ Is("mat", e) => Rank(Parts(e)[l]) < Rank(e)
    BY <1>1 DEF ProgramShape
  <1>3. Rank(e) \in Nat /\ Rank(Parts(e)[l]) \in Nat
    BY <1>1, <1>2 DEF ProgramShape
  <1>4. Is("call", e) => ~Placed(Parts(e)[l])
    BY <1>1 DEF InlinedShape
  <1>5. ~(Is("call", e) /\ l = 0) => Free(Parts(e)[l]) \subseteq Free(e)
    BY <1>1 DEF Bound
  <1> QED BY <1>2, <1>3, <1>4, <1>5

LEMMA MatShape ==
  ASSUME NEW p \in Program, NEW e \in Mats(p)
  PROVE  /\ e \in Nodes(p) /\ Is("mat", e) /\ e.inner \in Nodes(p)
         /\ e.key \in Key /\ Rank(e) = e.key /\ ~Placed(e.inner)
         /\ Means(e) \in Value
         /\ Clean(p) => /\ Means(e) = Means(e.inner)
                        /\ \A o \in Mats(p) : o.key = e.key => Means(o) = Means(e)
  <1>1. ProgramShape(p) /\ InlinedShape(p) /\ (Clean(p) => Meant(p))
    BY ProgramAssumption
  <1>2. e \in Nodes(p) /\ Is("mat", e)
    BY DEF Mats
  <1>3. e.inner \in Nodes(p) /\ e.key \in Key /\ Rank(e) = e.key /\ Means(e) \in Value
    BY <1>1, <1>2 DEF ProgramShape
  <1>4. ~Placed(e.inner)
    BY <1>1, <1>2 DEF InlinedShape
  <1>5. Clean(p) => /\ Means(e) = Means(e.inner)
                    /\ \A o \in Mats(p) : o.key = e.key => Means(o) = Means(e)
    BY <1>1, <1>2 DEF Meant
  <1> QED BY <1>2, <1>3, <1>4, <1>5

\* The query that the evaluation of e runs is a query of the program.
LEMMA QueryShape ==
  ASSUME NEW p \in Program, NEW e \in Nodes(p), Is("sql", e) \/ Placed(e)
  PROVE  /\ Query(e) \in Nodes(p) /\ Is("sql", Query(e)) /\ Parts(e) = Query(e).params
         /\ Query(e).url \in Url /\ Query(e).holes \subseteq DOMAIN Parts(e)
         /\ \A l \in Query(e).holes : ~Placed(Parts(e)[l])
         /\ \A n \in Query(e).tables : n \in DOMAIN Base[Query(e).url] \/ Carries(Query(e), n)
         /\ Means(Query(e)) \in Value
         /\ Clean(p) => Means(e) = Means(Query(e))
  <1>1. ProgramShape(p) /\ InlinedShape(p) /\ (Clean(p) => Meant(p))
    BY ProgramAssumption
  <1>2. /\ Query(e) \in Nodes(p) /\ Is("sql", Query(e)) /\ Parts(e) = Query(e).params
        /\ Clean(p) => Means(e) = Means(Query(e))
    <2>1. CASE Is("sql", e)
      BY <2>1, SqlParts DEF Query, Is
    <2>2. CASE Placed(e)
      <3>1. Is("mat", e) /\ Parts(e) = e.inner.params /\ Is("sql", e.inner)
        BY <2>2, PlacedParts DEF Placed
      <3>2. e \in Mats(p)
        BY <3>1 DEF Mats
      <3>3. Query(e) = e.inner
        BY <3>1 DEF Query
      <3> QED BY <3>1, <3>2, <3>3, MatShape
    <2> QED BY <2>1, <2>2
  <1>3. /\ Query(e).url \in Url /\ Query(e).holes \subseteq DOMAIN Query(e).params
        /\ Means(Query(e)) \in Value
    BY <1>1, <1>2 DEF ProgramShape
  <1>4. /\ \A l \in Query(e).holes : ~Placed(Query(e).params[l])
        /\ \A n \in Query(e).tables : n \in DOMAIN Base[Query(e).url] \/ Carries(Query(e), n)
    BY <1>1, <1>2 DEF InlinedShape
  <1> QED BY <1>2, <1>3, <1>4

-----------------------------------------------------------------------------
\* The evaluation on top, as the invariant describes it.
LEMMA TopShape ==
  ASSUME IInv, depth > 0
  PROVE  /\ prog \in Program /\ depth \in 1..depth /\ depth \in Nat
         /\ Top.e \in Nodes(prog) /\ Top.level \in Level
         /\ DOMAIN Top.got \subseteq DOMAIN Parts(Top.e)
         /\ \A l \in DOMAIN Top.got :
              /\ Top.got[l] \in Value
              /\ Clean(prog) /\ ~Placed(Parts(Top.e)[l]) => Top.got[l] = Means(Parts(Top.e)[l])
  <1>1. depth \in 1..depth /\ depth \in Nat
    BY DEF IInv, Frames
  <1>2. prog \in Program
    BY DEF IInv, Stores
  <1>3. /\ Top.e \in Nodes(prog) /\ Top.level \in Level
        /\ DOMAIN Top.got \subseteq DOMAIN Parts(Top.e)
    BY <1>1 DEF IInv, Frames, Top
  <1>4. \A l \in DOMAIN Top.got :
          /\ Top.got[l] \in Value
          /\ Clean(prog) /\ ~Placed(Parts(Top.e)[l]) => Top.got[l] = Means(Parts(Top.e)[l])
    BY <1>1 DEF IInv, Values, Top
  <1> QED BY <1>1, <1>2, <1>3, <1>4

\* A table that an engine finds is what it stands for in the query.
LEMMA ReadsMeant ==
  ASSUME IInv, NEW v \in Level, NEW q \in Nodes(prog), Is("sql", q),
         NEW n \in q.tables, n \notin Unknown(v, q)
  PROVE  /\ Reads(v, q.url, n) \in Value
         /\ Clean(prog) => Reads(v, q.url, n) = Stands(q, n)
  <1>1. prog \in Program
    BY DEF IInv, Stores
  <1>2. Query(q) = q /\ q.url \in Url /\ (n \in DOMAIN Base[q.url] \/ Carries(q, n))
    <2>1. Query(q) = q
      BY DEF Query, Is
    <2> QED BY <1>1, <2>1, QueryShape
  <1>3. CASE n \in DOMAIN temp[v][q.url]
    <2>1. PICK m \in Mats(prog) : m.name = n /\ (Clean(prog) => temp[v][q.url][n] = Means(m))
      BY <1>2, <1>3 DEF IInv, Contexts
    <2>2. temp[v][q.url][n] \in Value
      BY <1>2, <1>3 DEF IInv, Contexts
    <2>3. ASSUME Clean(prog) PROVE Stands(q, n) = Means(m)
      <3>1. n \notin DOMAIN Base[q.url]
        BY <1>2, <2>1, <2>3 DEF Clean
      <3> DEFINE l == CHOOSE l \in DOMAIN q.params : Is("mat", q.params[l]) /\ q.params[l].name = n
      <3>2. l \in DOMAIN q.params /\ Is("mat", q.params[l]) /\ q.params[l].name = n
        BY <1>2, <3>1 DEF Carries
      <3>3. Stands(q, n) = Means(q.params[l])
        BY <3>1 DEF Stands
      <3> HIDE DEF l
      <3>4. q.params[l] \in Mats(prog)
        BY <1>1, <3>2, PartShape, SqlParts DEF Mats
      <3>5. Means(q.params[l]) = Means(m)
        BY <2>1, <2>3, <3>2, <3>4 DEF Clean
      <3> QED BY <3>3, <3>5
    <2> QED BY <1>3, <2>1, <2>2, <2>3 DEF Reads
  <1>4. CASE n \notin DOMAIN temp[v][q.url]
    <2>1. n \in DOMAIN Base[q.url]
      BY <1>4 DEF Unknown
    <2>2. Base[q.url][n] \in Value
      BY <1>2, <2>1, ProgramAssumption
    <2> QED BY <1>4, <2>1, <2>2 DEF Reads, Stands
  <1> QED BY <1>3, <1>4

\* What the engine answers is what the evaluated expression means.
LEMMA AnswerMeant ==
  ASSUME IInv, RunsQuery, Unknown(Top.level, Query(Top.e)) = {}
  PROVE  /\ Answer(Top.level, Query(Top.e), Top.got) \in Value
         /\ Clean(prog) => Answer(Top.level, Query(Top.e), Top.got) = Means(Top.e)
  <1>1. depth > 0 /\ (Is("sql", Top.e) \/ Placed(Top.e)) /\ DOMAIN Parts(Top.e) \subseteq DOMAIN Top.got
    BY DEF RunsQuery, Running
  <1> DEFINE q == Query(Top.e)  v == Top.level
  <1>2. prog \in Program /\ Top.e \in Nodes(prog) /\ v \in Level
    BY <1>1, TopShape
  <1>3. /\ q \in Nodes(prog) /\ Is("sql", q) /\ Parts(Top.e) = q.params
        /\ q.holes \subseteq DOMAIN Parts(Top.e)
        /\ \A l \in q.holes : ~Placed(Parts(Top.e)[l])
        /\ Means(q) \in Value
        /\ Clean(prog) => Means(Top.e) = Means(q)
    BY <1>1, <1>2, QueryShape
  <1>4. \A l \in q.holes : /\ Top.got[l] \in Value
                           /\ Clean(prog) => Top.got[l] = Means(q.params[l])
    BY <1>1, <1>3, TopShape
  <1>5. \A n \in q.tables : /\ Reads(v, q.url, n) \in Value
                            /\ Clean(prog) => Reads(v, q.url, n) = Stands(q, n)
    BY <1>2, <1>3, ReadsMeant
  <1>6. Clean(prog) => Means(q) = UNION ({Means(q.params[l]) : l \in q.holes}
                                         \cup {Stands(q, n) : n \in q.tables})
    <2>1. Clean(prog) => Meant(prog)
      BY <1>2, ProgramAssumption
    <2> QED BY <1>3, <2>1 DEF Meant
  <1> HIDE DEF q, v
  <1>7. Answer(v, q, Top.got) \in Value
    BY <1>4, <1>5 DEF Answer, Value
  <1>8. ASSUME Clean(prog) PROVE Answer(v, q, Top.got) = Means(q)
    <2>1. {Top.got[l] : l \in q.holes} = {Means(q.params[l]) : l \in q.holes}
      BY <1>4, <1>8
    <2>2. {Reads(v, q.url, n) : n \in q.tables} = {Stands(q, n) : n \in q.tables}
      BY <1>5, <1>8
    <2> QED BY <1>6, <1>8, <2>1, <2>2 DEF Answer
  <1> QED BY <1>3, <1>7, <1>8 DEF q, v

-----------------------------------------------------------------------------
\* What is stashed, and what tables were made, only grows in a step that
\* returns.
Grows ==
  /\ DOMAIN stash' = Level /\ DOMAIN temp' = Level
  /\ \A v \in Level : DOMAIN stash[v] \subseteq DOMAIN stash'[v] /\ DOMAIN temp'[v] = Url
  /\ \A v \in Level, u \in Url : DOMAIN temp[v][u] \subseteq DOMAIN temp'[v][u]

\* Provided, after a step.
ProvidedNext(m, v) == m.key \in DOMAIN stash'[v] \/ m.name \in DOMAIN temp'[v][m.inner.url]

\* The evaluations left when the one on top returns w.
LEMMA ReturnFrames ==
  ASSUME IInv, Running, NEW w \in Value, Return(w)
  PROVE  /\ depth \in Nat /\ depth' = depth - 1 /\ depth' \in Nat /\ DOMAIN frame' = 1..depth'
         /\ \A i \in 1..depth' :
              /\ i \in 1..depth
              /\ frame'[i] = [e |-> frame'[i].e, level |-> frame'[i].level, got |-> frame'[i].got,
                              at |-> frame'[i].at, missed |-> frame'[i].missed,
                              copy |-> frame'[i].copy]
              /\ frame'[i].e = frame[i].e /\ frame'[i].level = frame[i].level
              /\ frame'[i].at = frame[i].at /\ frame'[i].missed = frame[i].missed
              /\ frame'[i].copy = frame[i].copy
              /\ \A l \in DOMAIN frame'[i].got :
                   \/ l \in DOMAIN frame[i].got /\ frame'[i].got[l] = frame[i].got[l]
                   \/ i = depth - 1 /\ l = frame[i].at /\ frame'[i].got[l] = w
  <1>1. depth \in Nat /\ depth > 0 /\ depth' = depth - 1
    BY DEF IInv, Frames, Running, Return
  <1>2. frame' = [i \in 1..depth - 1 |->
                   IF i = depth - 1 THEN [frame[i] EXCEPT !.got = Set(@, frame[i].at, w)]
                                    ELSE frame[i]]
    BY DEF Return
  <1>3. ASSUME NEW i \in 1..depth - 1
        PROVE  /\ i \in 1..depth
               /\ frame'[i] = [e |-> frame'[i].e, level |-> frame'[i].level, got |-> frame'[i].got,
                               at |-> frame'[i].at, missed |-> frame'[i].missed,
                               copy |-> frame'[i].copy]
               /\ frame'[i].e = frame[i].e /\ frame'[i].level = frame[i].level
               /\ frame'[i].at = frame[i].at /\ frame'[i].missed = frame[i].missed
               /\ frame'[i].copy = frame[i].copy
               /\ \A l \in DOMAIN frame'[i].got :
                    \/ l \in DOMAIN frame[i].got /\ frame'[i].got[l] = frame[i].got[l]
                    \/ i = depth - 1 /\ l = frame[i].at /\ frame'[i].got[l] = w
    <2>1. /\ i \in 1..depth
          /\ frame[i] = [e |-> frame[i].e, level |-> frame[i].level, got |-> frame[i].got,
                         at |-> frame[i].at, missed |-> frame[i].missed, copy |-> frame[i].copy]
      BY <1>1 DEF IInv, Frames
    <2>2. CASE i = depth - 1
      <3>1. frame'[i] = [frame[i] EXCEPT !.got = Set(frame[i].got, frame[i].at, w)]
        BY <1>2, <2>2
      <3>2. frame'[i] = [e |-> frame[i].e, level |-> frame[i].level,
                         got |-> Set(frame[i].got, frame[i].at, w),
                         at |-> frame[i].at, missed |-> frame[i].missed, copy |-> frame[i].copy]
        BY <2>1, <3>1
      <3> QED BY <2>1, <2>2, <3>2 DEF Set
    <2>3. CASE i # depth - 1
      BY <1>2, <2>1, <2>3
    <2> QED BY <2>2, <2>3
  <1> QED BY <1>1, <1>2, <1>3

\* A step in which the evaluation on top returns what it means keeps the
\* invariant, when it has stashed what it computed and made its table.
LEMMA ReturnKeeps ==
  ASSUME IInv, Running, NEW w \in Value, Return(w), Grows, Contexts', computed' = computed,
         Clean(prog) /\ ~Placed(Top.e) => w = Means(Top.e),
         Placed(Top.e) => ProvidedNext(Top.e, Top.level),
         Is("mat", Top.e) /\ ~Placed(Top.e) /\ Top.missed => Top.e.key \in DOMAIN stash'[Top.level]
  PROVE  IInv'
  <1> DEFINE t == Top.e  v == Top.level
  <1>1. /\ depth > 0 /\ failed = NoFailure /\ failed' = failed /\ prog' = prog /\ args' = args
        /\ out' = IF depth = 1 THEN Append(out, w) ELSE out
    BY DEF Running, Return
  <1>2. /\ prog \in Program /\ depth \in 1..depth /\ depth \in Nat
        /\ t \in Nodes(prog) /\ v \in Level
    BY <1>1, TopShape
  <1>3. /\ depth' = depth - 1 /\ depth' \in Nat /\ DOMAIN frame' = 1..depth'
        /\ \A i \in 1..depth' :
             /\ i \in 1..depth
             /\ frame'[i] = [e |-> frame'[i].e, level |-> frame'[i].level, got |-> frame'[i].got,
                             at |-> frame'[i].at, missed |-> frame'[i].missed,
                             copy |-> frame'[i].copy]
             /\ frame'[i].e = frame[i].e /\ frame'[i].level = frame[i].level
             /\ frame'[i].at = frame[i].at /\ frame'[i].missed = frame[i].missed
             /\ frame'[i].copy = frame[i].copy
             /\ \A l \in DOMAIN frame'[i].got :
                  \/ l \in DOMAIN frame[i].got /\ frame'[i].got[l] = frame[i].got[l]
                  \/ i = depth - 1 /\ l = frame[i].at /\ frame'[i].got[l] = w
    BY ReturnFrames
  <1> HIDE DEF t, v
  <1>4. depth - 1 \in 1..depth' => /\ frame[depth - 1].at \in DOMAIN Parts(frame[depth - 1].e)
                                   /\ Parts(frame[depth - 1].e)[frame[depth - 1].at] = t
    BY <1>2, <1>3 DEF IInv, Nested, Top, t
  <1>5. Stores'
    BY <1>1 DEF IInv, Stores, Grows
  <1>6. Frames'
    <2>1. \A i \in 1..depth' :
            /\ frame'[i].e \in Nodes(prog) /\ frame'[i].level \in Level
            /\ \A j \in i..depth' : frame'[i].level <= frame'[j].level
            /\ DOMAIN frame'[i].got \subseteq DOMAIN Parts(frame'[i].e)
      BY <1>2, <1>3, <1>4 DEF IInv, Frames
    <2> QED BY <1>1, <1>3, <2>1 DEF Frames
  <1>7. Nested'
    <2>1. depth' > 0 => out' = out /\ 1 \in 1..depth'
      BY <1>1, <1>2, <1>3
    <2>2. depth' > 0 => Len(out') < Len(Tops(prog)) /\ frame'[1].e = Tops(prog)[Len(out') + 1]
      BY <1>1, <1>2, <1>3, <2>1 DEF IInv, Nested
    <2>3. ASSUME NEW i \in 1..depth' - 1
          PROVE  /\ frame'[i].at \in DOMAIN Parts(frame'[i].e)
                 /\ frame'[i + 1].e = Parts(frame'[i].e)[frame'[i].at]
                 /\ Is("mat", frame'[i].e) => frame'[i].missed
                 /\ IF Is("call", frame'[i].e) /\ frame'[i].at = 0
                    THEN frame'[i].level < frame'[i + 1].level
                    ELSE frame'[i].level = frame'[i + 1].level
      <3>1. i \in 1..depth' /\ i + 1 \in 1..depth' /\ i \in 1..depth - 1
        BY <1>2, <1>3
      <3>2. /\ frame'[i].e = frame[i].e /\ frame'[i].at = frame[i].at
            /\ frame'[i].missed = frame[i].missed /\ frame'[i].level = frame[i].level
            /\ frame'[i + 1].e = frame[i + 1].e /\ frame'[i + 1].level = frame[i + 1].level
        BY <1>3, <3>1
      <3> QED BY <3>1, <3>2 DEF IInv, Nested
    <2>4. \A j \in 1..depth' : \A i \in 1..j - 1 :
            /\ Rank(frame'[j].e) <= Rank(frame'[i].e)
            /\ Is("mat", frame'[i].e) => Rank(frame'[j].e) < Rank(frame'[i].e)
      BY <1>2, <1>3 DEF IInv, Nested
    <2> QED BY <1>1, <2>2, <2>3, <2>4 DEF Nested
  <1>8. Values'
    <2>1. ASSUME NEW i \in 1..depth', NEW l \in DOMAIN frame'[i].got
          PROVE  /\ frame'[i].got[l] \in Value
                 /\ Clean(prog) /\ ~Placed(Parts(frame'[i].e)[l]) =>
                      frame'[i].got[l] = Means(Parts(frame'[i].e)[l])
      BY <1>3, <1>4 DEF IInv, Values, t
    <2>2. ASSUME NEW i \in 1..depth', NEW r \in Free(frame'[i].e)
          PROVE  /\ r.name \in DOMAIN args[frame'[i].level]
                 /\ args[frame'[i].level][r.name] \in Value
                 /\ Clean(prog) => args[frame'[i].level][r.name] = Means(r)
      BY <1>3 DEF IInv, Values
    <2> QED BY <1>1, <2>1, <2>2 DEF Values
  <1>9. Copies'
    BY <1>1, <1>3 DEF IInv, Copies, Keeps
  <1>10. Made'
    <2>1. ASSUME NEW i \in 1..depth', NEW l \in DOMAIN frame'[i].got,
                 Placed(Parts(frame'[i].e)[l])
          PROVE  ProvidedNext(Parts(frame'[i].e)[l], frame'[i].level)
      <3> DEFINE m == Parts(frame[i].e)[l]
      <3>1. /\ i \in 1..depth /\ frame[i].e \in Nodes(prog) /\ frame[i].level \in Level
            /\ frame'[i].e = frame[i].e /\ frame'[i].level = frame[i].level
        BY <1>3 DEF IInv, Frames
      <3>2. CASE l \in DOMAIN frame[i].got
        <4>1. Provided(m, frame[i].level)
          BY <2>1, <3>1, <3>2 DEF IInv, Made
        <4>2. m.inner.url \in Url
          <5>1. m \in Nodes(prog) /\ Placed(m)
            BY <1>2, <2>1, <3>1, <3>2, PartShape DEF IInv, Frames
          <5>2. m \in Mats(prog)
            BY <5>1, PlacedParts DEF Mats
          <5> QED BY <1>2, <5>1, <5>2, QueryShape, PlacedParts DEF Query
        <4> QED BY <3>1, <4>1, <4>2 DEF Provided, ProvidedNext, Grows
      <3>3. CASE i = depth - 1 /\ l = frame[i].at
        <4>1. m = t /\ Placed(t)
          BY <1>4, <2>1, <3>1, <3>3
        <4>2. frame[i].level = v
          <5>1. ~(Is("call", frame[i].e) /\ frame[i].at = 0)
            BY <1>2, <1>4, <3>1, <3>3, <4>1, PartShape
          <5> QED BY <1>2, <3>3, <5>1 DEF IInv, Nested, Top, v
        <4> QED BY <3>1, <4>1, <4>2 DEF t, v, ProvidedNext
      <3> QED BY <1>3, <3>2, <3>3
    <2> QED BY <1>1, <2>1 DEF Made, Provided, ProvidedNext
  <1>11. Once'
    <2>1. ASSUME NEW x \in Level, NEW k \in Key, computed[x][k] = 1
          PROVE  k \in DOMAIN stash'[x] \/ \E i \in 1..depth' : Computes(i, x, k)'
      <3>1. k \in DOMAIN stash[x] \/ \E i \in 1..depth : Computes(i, x, k)
        BY <1>1, <2>1 DEF IInv, Once
      <3>2. CASE k \in DOMAIN stash[x]
        BY <3>2 DEF Grows
      <3>3. CASE \E i \in 1..depth : Computes(i, x, k)
        <4>1. PICK i \in 1..depth : Computes(i, x, k)
          BY <3>3
        <4>2. CASE i = depth
          BY <4>1, <4>2 DEF Computes, Top
        <4>3. CASE i # depth
          <5>1. i \in 1..depth'
            BY <1>2, <1>3, <4>3
          <5> QED BY <1>3, <4>1, <5>1 DEF Computes
        <4> QED BY <4>2, <4>3
      <3> QED BY <3>1, <3>2, <3>3
    <2> QED BY <2>1 DEF IInv, Once
  <1>12. Outcome'
    <2>1. out' \in Seq(Value) /\ Len(out') <= Len(Tops(prog))
      BY <1>1, <1>2 DEF IInv, Outcome, Nested
    <2>2. ASSUME NEW i \in 1..Len(out'), Clean(prog) PROVE out'[i] = Means(Tops(prog)[i])
      <3>1. CASE depth # 1
        BY <1>1, <2>2, <3>1 DEF IInv, Outcome, ValuesAreMeant
      <3>2. CASE depth = 1 /\ i # Len(out) + 1
        BY <1>1, <2>2, <3>2 DEF IInv, Outcome, ValuesAreMeant
      <3>3. CASE depth = 1 /\ i = Len(out) + 1
        <4>1. t = Tops(prog)[i] /\ i \in DOMAIN Tops(prog)
          BY <1>2, <3>3, ProgramAssumption DEF IInv, Nested, Outcome, Top, t, ProgramShape
        <4>2. ~Placed(t)
          BY <1>2, <4>1, ProgramAssumption DEF InlinedShape
        <4>3. out'[i] = w
          BY <1>1, <3>3 DEF IInv, Outcome
        <4> QED BY <2>2, <4>1, <4>2, <4>3 DEF t
      <3> QED BY <3>1, <3>2, <3>3
    <2> QED BY <1>1, <2>1, <2>2 DEF IInv, Outcome, ValuesAreMeant, MissingOnlyMisplaced
  <1> QED BY <1>5, <1>6, <1>7, <1>8, <1>9, <1>10, <1>11, <1>12 DEF IInv

-----------------------------------------------------------------------------
LEMMA ContextsStay ==
  ASSUME IInv, prog' = prog, stash' = stash, temp' = temp
  PROVE  Grows /\ Contexts'
  BY DEF IInv, Stores, Grows, Contexts, Keeps

LEMMA CalledKeeps == IInv /\ Called => IInv'
  <1> SUFFICES ASSUME IInv, Called PROVE IInv'
    OBVIOUS
  <1>1. /\ Running /\ Is("call", Top.e) /\ 0 \in DOMAIN Top.got /\ Return(Top.got[0])
        /\ stash' = stash /\ temp' = temp /\ computed' = computed /\ prog' = prog
    BY DEF Called, Return
  <1>2. /\ prog \in Program /\ Top.e \in Nodes(prog) /\ 0 \in DOMAIN Parts(Top.e)
        /\ Top.got[0] \in Value
        /\ Clean(prog) /\ ~Placed(Parts(Top.e)[0]) => Top.got[0] = Means(Parts(Top.e)[0])
    BY <1>1, TopShape DEF Running
  <1>3. ~Placed(Top.e) /\ ~Is("mat", Top.e) /\ Parts(Top.e)[0] = Top.e.body
    BY <1>1, CallParts DEF Is
  <1>4. ~Placed(Parts(Top.e)[0])
    BY <1>1, <1>2, PartShape
  <1>5. Clean(prog) => Top.got[0] = Means(Top.e)
    BY <1>1, <1>2, <1>3, <1>4, ProgramAssumption DEF Meant
  <1>6. Grows /\ Contexts'
    BY <1>1, ContextsStay
  <1> QED BY <1>1, <1>2, <1>3, <1>5, <1>6, ReturnKeeps

LEMMA LeafKeeps == IInv /\ Leaf => IInv'
  <1> SUFFICES ASSUME IInv, Leaf PROVE IInv'
    OBVIOUS
  <1>1. Running /\ stash' = stash /\ temp' = temp /\ computed' = computed /\ prog' = prog
    BY DEF Leaf, Return
  <1>2. prog \in Program /\ Top.e \in Nodes(prog) /\ depth \in 1..depth
    BY <1>1, TopShape DEF Running
  <1>3. Grows /\ Contexts'
    BY <1>1, ContextsStay
  <1>4. CASE Is("load", Top.e) /\ Return(Top.e.gives)
    <2>1. ~Is("mat", Top.e) /\ ~Placed(Top.e)
      BY <1>4 DEF Is, Placed
    <2>2. Top.e.gives \in Value
      BY <1>2, <1>4, ProgramAssumption DEF ProgramShape
    <2>3. Clean(prog) => Top.e.gives = Means(Top.e)
      BY <1>2, <1>4, ProgramAssumption DEF Meant
    <2> QED BY <1>1, <1>3, <1>4, <2>1, <2>2, <2>3, ReturnKeeps
  <1>5. CASE Is("ref", Top.e) /\ Return(args[Top.level][Top.e.name])
    <2>1. ~Is("mat", Top.e) /\ ~Placed(Top.e)
      BY <1>5 DEF Is, Placed
    <2>2. Top.e \in Free(Top.e)
      BY <1>2, <1>5, ProgramAssumption DEF Bound
    <2>3. /\ args[Top.level][Top.e.name] \in Value
          /\ Clean(prog) => args[Top.level][Top.e.name] = Means(Top.e)
      BY <1>2, <2>2 DEF IInv, Values, Top
    <2> QED BY <1>1, <1>3, <1>5, <2>1, <2>3, ReturnKeeps
  <1> QED BY <1>4, <1>5 DEF Leaf

LEMMA RunKeeps == IInv /\ Run => IInv'
  <1> SUFFICES ASSUME IInv, Run PROVE IInv'
    OBVIOUS
  <1>1. /\ RunsQuery /\ Running /\ Is("sql", Top.e) /\ Unknown(Top.level, Top.e) = {}
        /\ Return(Answer(Top.level, Top.e, Top.got))
        /\ stash' = stash /\ temp' = temp /\ computed' = computed /\ prog' = prog
    BY DEF Run, RunsQuery, Return
  <1>2. ~Is("mat", Top.e) /\ ~Placed(Top.e) /\ Query(Top.e) = Top.e
    BY <1>1 DEF Is, Placed, Query
  <1>3. Grows /\ Contexts'
    BY <1>1, ContextsStay
  <1>4. /\ Answer(Top.level, Top.e, Top.got) \in Value
        /\ Clean(prog) => Answer(Top.level, Top.e, Top.got) = Means(Top.e)
    BY <1>1, <1>2, AnswerMeant
  <1> QED BY <1>1, <1>2, <1>3, <1>4, ReturnKeeps

LEMMA CachedKeeps == IInv /\ Cached => IInv'
  <1> SUFFICES ASSUME IInv, Cached PROVE IInv'
    OBVIOUS
  <1> DEFINE w == stash[Top.level][Top.e.key]
  <1>1. /\ Running /\ Is("mat", Top.e) /\ ~Top.missed /\ Top.e.key \in DOMAIN stash[Top.level]
        /\ Return(w) /\ stash' = stash /\ temp' = temp /\ computed' = computed /\ prog' = prog
    BY DEF Cached, Return
  <1>2. prog \in Program /\ Top.e \in Mats(prog) /\ Top.level \in Level
    BY <1>1, TopShape DEF Running, Mats
  <1>3. /\ w \in Value
        /\ \E m \in Mats(prog) : m.key = Top.e.key /\ (Clean(prog) => w = Means(m))
    BY <1>1, <1>2 DEF IInv, Contexts, Keeps
  <1>4. Clean(prog) => w = Means(Top.e)
    BY <1>2, <1>3, MatShape
  <1>5. Grows /\ Contexts'
    BY <1>1, ContextsStay
  <1>6. ProvidedNext(Top.e, Top.level)
    BY <1>1 DEF ProvidedNext
  <1> HIDE DEF w
  <1> QED BY <1>1, <1>3, <1>4, <1>5, <1>6, ReturnKeeps

\* A table or a value that means what its materialization does may be added.
LEMMA CreateKeeps == IInv /\ Create => IInv'
  <1> SUFFICES ASSUME IInv, Create PROVE IInv'
    OBVIOUS
  <1> DEFINE v == Top.level  e == Top.e  w == Answer(v, e.inner, Top.got)
  <1>1. /\ RunsQuery /\ Running /\ Placed(e) /\ Unknown(v, e.inner) = {}
        /\ temp' = [temp EXCEPT ![v][e.inner.url] = Set(@, e.name, w)]
        /\ stash' = stash /\ computed' = computed /\ prog' = prog /\ Return({})
    BY DEF Create, RunsQuery, Return, Created, AfterCreate
  <1>2. Is("mat", e) /\ Query(e) = e.inner
    BY <1>1, PlacedParts DEF Query
  <1>3. prog \in Program /\ e \in Mats(prog) /\ v \in Level /\ e.inner.url \in Url
    BY <1>1, <1>2, TopShape, QueryShape DEF Running, Mats
  <1>4. w \in Value /\ (Clean(prog) => w = Means(e))
    BY <1>1, <1>2, AnswerMeant
  <1> HIDE DEF v, e, w
  <1>5. /\ DOMAIN temp' = Level
        /\ \A x \in Level : DOMAIN temp'[x] = Url
        /\ \A x \in Level, u \in Url :
             temp'[x][u] = IF x = v /\ u = e.inner.url THEN Set(temp[v][u], e.name, w)
                                                       ELSE temp[x][u]
    BY <1>1, <1>3 DEF IInv, Stores
  <1>6. Grows
    BY <1>1, <1>5 DEF IInv, Stores, Grows, Set
  <1>7. Contexts'
    <2>1. ASSUME NEW x \in Level, NEW u \in Url, NEW n \in DOMAIN temp'[x][u]
          PROVE  /\ temp'[x][u][n] \in Value
                 /\ \E m \in Mats(prog) : m.name = n /\ (Clean(prog) => temp'[x][u][n] = Means(m))
      <3>1. CASE x = v /\ u = e.inner.url /\ n = e.name
        <4>1. temp'[x][u][n] = w
          BY <1>5, <3>1 DEF Set
        <4> QED BY <1>3, <1>4, <3>1, <4>1
      <3>2. CASE ~(x = v /\ u = e.inner.url /\ n = e.name)
        <4>1. n \in DOMAIN temp[x][u] /\ temp'[x][u][n] = temp[x][u][n]
          <5>1. CASE x = v /\ u = e.inner.url
            <6>1. temp'[x][u] = Set(temp[x][u], e.name, w) /\ n # e.name
              BY <1>5, <3>2, <5>1
            <6> QED BY <6>1 DEF Set
          <5>2. CASE ~(x = v /\ u = e.inner.url)
            <6>1. temp'[x][u] = temp[x][u]
              BY <1>5, <5>2
            <6> QED BY <6>1
          <5> QED BY <5>1, <5>2
        <4>2. /\ temp[x][u][n] \in Value
              /\ \E m \in Mats(prog) : m.name = n /\ (Clean(prog) => temp[x][u][n] = Means(m))
          BY <4>1 DEF IInv, Contexts
        <4> QED BY <4>1, <4>2
      <3> QED BY <3>1, <3>2
    <2> QED BY <1>1, <2>1 DEF IInv, Contexts, Keeps
  <1>8. ProvidedNext(e, v)
    BY <1>3, <1>5 DEF ProvidedNext, Set
  <1>9. {} \in Value
    BY DEF Value
  <1> QED BY <1>1, <1>6, <1>7, <1>8, <1>9, ReturnKeeps DEF e, v

LEMMA KeepKeeps == IInv /\ Keep => IInv'
  <1> SUFFICES ASSUME IInv, Keep PROVE IInv'
    OBVIOUS
  <1> DEFINE v == Top.level  e == Top.e  g == Top.got[0]  kept == OrInsert(v, e.key, g)
  <1>1. /\ Running /\ Is("mat", e) /\ ~Placed(e) /\ 0 \in DOMAIN Top.got
        /\ stash' = [stash EXCEPT ![v] = kept]
        /\ Return(IF e.key \in DOMAIN kept THEN kept[e.key] ELSE g)
        /\ temp' = temp /\ computed' = computed /\ prog' = prog
    BY DEF Keep, Return
  <1>2. /\ prog \in Program /\ e \in Mats(prog) /\ v \in Level
        /\ g \in Value /\ (Clean(prog) /\ ~Placed(Parts(e)[0]) => g = Means(Parts(e)[0]))
    BY <1>1, TopShape DEF Running, Mats
  <1>3. g \in Value /\ (Clean(prog) => g = Means(e))
    BY <1>1, <1>2, KeptParts, MatShape
  <1> HIDE DEF v, e, g
  <1>4. /\ DOMAIN kept = DOMAIN stash[v] \cup {e.key}
        /\ \A k \in DOMAIN kept : \/ k \in DOMAIN stash[v] /\ kept[k] = stash[v][k]
                                  \/ k = e.key /\ kept[k] = g
    BY DEF OrInsert, Set
  <1> HIDE DEF kept
  <1>5. Keeps(kept)
    BY <1>2, <1>3, <1>4 DEF IInv, Contexts, Keeps
  <1>6. /\ DOMAIN stash' = Level /\ stash'[v] = kept
        /\ \A x \in Level \ {v} : stash'[x] = stash[x]
    BY <1>1, <1>2 DEF IInv, Stores
  <1>7. Grows
    BY <1>1, <1>4, <1>6 DEF IInv, Stores, Grows
  <1>8. Contexts'
    <2>1. \A x \in Level : Keeps(stash'[x])
      BY <1>5, <1>6 DEF IInv, Contexts
    <2> QED BY <1>1, <2>1 DEF IInv, Contexts, Keeps
  <1>9. /\ e.key \in DOMAIN kept /\ kept[e.key] \in Value
        /\ Clean(prog) => kept[e.key] = Means(e)
    BY <1>2, <1>4, <1>5, MatShape DEF Keeps
  <1> QED BY <1>1, <1>6, <1>7, <1>8, <1>9, ReturnKeeps DEF e, v

-----------------------------------------------------------------------------
\* The evaluations after one of a part was begun.
LEMMA PushFrames ==
  ASSUME IInv, Running, NEW l, NEW x, NEW s, Push(Top, l, x, s)
  PROVE  /\ depth' = depth + 1 /\ depth \in Nat /\ depth > 0 /\ DOMAIN frame' = 1..depth'
         /\ frame'[depth'] = NewFrame(Parts(Top.e)[l], x, s)
         /\ frame'[depth].at = l
         /\ \A i \in 1..depth :
              /\ frame'[i] = [e |-> frame'[i].e, level |-> frame'[i].level, got |-> frame'[i].got,
                              at |-> frame'[i].at, missed |-> frame'[i].missed,
                              copy |-> frame'[i].copy]
              /\ frame'[i].e = frame[i].e /\ frame'[i].level = frame[i].level
              /\ frame'[i].got = frame[i].got /\ frame'[i].missed = frame[i].missed
              /\ frame'[i].copy = frame[i].copy
              /\ i # depth => frame'[i].at = frame[i].at
  <1>1. depth \in Nat /\ depth > 0 /\ depth' = depth + 1
    BY DEF IInv, Frames, Running, Push
  <1>2. frame' = [i \in 1..depth + 1 |->
                   IF i = depth + 1 THEN NewFrame(Parts(Top.e)[l], x, s)
                   ELSE IF i = depth THEN [frame[depth] EXCEPT !.at = l]
                   ELSE frame[i]]
    BY DEF Push, Top
  <1>3. frame'[depth'] = NewFrame(Parts(Top.e)[l], x, s) /\ DOMAIN frame' = 1..depth'
    BY <1>1, <1>2
  <1>4. \A i \in 1..depth :
          frame[i] = [e |-> frame[i].e, level |-> frame[i].level, got |-> frame[i].got,
                      at |-> frame[i].at, missed |-> frame[i].missed, copy |-> frame[i].copy]
    BY DEF IInv, Frames
  <1>5. frame'[depth] = [e |-> frame[depth].e, level |-> frame[depth].level,
                         got |-> frame[depth].got, at |-> l,
                         missed |-> frame[depth].missed, copy |-> frame[depth].copy]
    <2>1. frame'[depth] = [frame[depth] EXCEPT !.at = l]
      BY <1>1, <1>2
    <2>2. depth \in 1..depth
      BY <1>1
    <2> QED BY <1>4, <2>1, <2>2
  <1>6. \A i \in 1..depth : i # depth => frame'[i] = frame[i]
    BY <1>1, <1>2
  <1> QED BY <1>1, <1>3, <1>4, <1>5, <1>6

\* A step that begins the evaluation of a part keeps the invariant, when it
\* leaves the Contexts in use alone and the arguments of the part are bound.
LEMMA PushKeeps ==
  ASSUME IInv, Running, NEW l \in Left(Top), NEW x \in Level, NEW s, Push(Top, l, x, s),
         Is("mat", Top.e) => Top.missed,
         IF Is("call", Top.e) /\ l = 0 THEN Top.level < x ELSE Top.level = x,
         Stores', Contexts', Keeps(s),
         \A v \in 0..Top.level : /\ stash'[v] = stash[v] /\ temp'[v] = temp[v]
                                 /\ args'[v] = args[v] /\ computed'[v] = computed[v],
         \A v \in Level : \/ stash'[v] = stash[v] /\ computed'[v] = computed[v]
                          \/ \A k \in Key : /\ computed'[v][k] \in 0..1
                                            /\ computed'[v][k] = 1 => k \in DOMAIN stash'[v],
         \A r \in Free(Parts(Top.e)[l]) :
           /\ r.name \in DOMAIN args'[x] /\ args'[x][r.name] \in Value
           /\ Clean(prog) => args'[x][r.name] = Means(r)
  PROVE  IInv'
  <1> DEFINE t == Top.e  c == Parts(t)[l]
  <1>1. prog' = prog /\ out' = out /\ failed' = failed /\ failed = NoFailure
    BY DEF Push, Running
  <1>2. /\ prog \in Program /\ depth \in 1..depth /\ depth \in Nat /\ t \in Nodes(prog)
        /\ l \in DOMAIN Parts(t) /\ Top.level \in Level
    BY TopShape DEF Running, Left
  <1>3. /\ c \in Nodes(prog) /\ Rank(c) \in Nat /\ Rank(t) \in Nat /\ Rank(c) <= Rank(t)
        /\ Is("mat", t) => Rank(c) < Rank(t)
    BY <1>2, PartShape
  <1> HIDE DEF t, c
  <1>14. /\ depth' = depth + 1 /\ DOMAIN frame' = 1..depth'
         /\ frame'[depth'] = [e |-> c, level |-> x, got |-> None, at |-> 0, missed |-> FALSE,
                              copy |-> Copied(c, s)]
         /\ \A i \in 1..depth :
              frame'[i] = [e |-> frame'[i].e, level |-> frame'[i].level, got |-> frame'[i].got,
                           at |-> frame'[i].at, missed |-> frame'[i].missed,
                           copy |-> frame'[i].copy]
    BY PushFrames DEF NewFrame, c, t
  <1>15. /\ frame'[depth'].e = c /\ frame'[depth'].level = x /\ frame'[depth'].got = None
         /\ frame'[depth'].missed = FALSE /\ frame'[depth'].copy = Copied(c, s)
    BY <1>14
  <1>4. /\ depth' = depth + 1 /\ frame'[depth'].e = c /\ frame'[depth'].level = x
        /\ frame'[depth'].got = None /\ frame'[depth'].missed = FALSE
        /\ frame'[depth'].copy = Copied(c, s) /\ frame'[depth].at = l
        /\ \A i \in 1..depth :
             /\ frame'[i].e = frame[i].e /\ frame'[i].level = frame[i].level
             /\ frame'[i].got = frame[i].got /\ frame'[i].missed = frame[i].missed
             /\ frame'[i].copy = frame[i].copy
             /\ i # depth => frame'[i].at = frame[i].at
    BY <1>14, <1>15, PushFrames
  <1>5. /\ \A i \in 1..depth : frame[i].level \in 0..Top.level /\ frame[i].level \in Level
        /\ frame[depth].e = t /\ frame[depth].level = Top.level
        /\ Top.level <= x /\ DOMAIN None = {}
    BY <1>2, ProgramAssumption DEF IInv, Frames, Top, t, Level, None
  <1>6. \A i \in 1..depth' : i \in 1..depth \/ i = depth'
    BY <1>2, <1>4
  <1>7. Frames'
    <2>1. \A i \in 1..depth' :
            /\ frame'[i] = [e |-> frame'[i].e, level |-> frame'[i].level, got |-> frame'[i].got,
                            at |-> frame'[i].at, missed |-> frame'[i].missed,
                            copy |-> frame'[i].copy]
            /\ frame'[i].e \in Nodes(prog) /\ frame'[i].level \in Level
            /\ DOMAIN frame'[i].got \subseteq DOMAIN Parts(frame'[i].e)
      BY <1>3, <1>4, <1>5, <1>6, <1>14 DEF IInv, Frames
    <2>2. ASSUME NEW i \in 1..depth', NEW j \in i..depth'
          PROVE  frame'[i].level <= frame'[j].level
      <3>1. CASE j \in 1..depth
        <4>1. i \in 1..depth /\ j \in i..depth
          BY <1>2, <1>4, <3>1
        <4> QED BY <1>4, <4>1 DEF IInv, Frames
      <3>2. CASE j = depth' /\ i \in 1..depth
        BY <1>2, <1>4, <1>5, <3>2, ProgramAssumption DEF Level
      <3>3. CASE j = depth' /\ i = depth'
        BY <1>4, <3>3, ProgramAssumption DEF Level
      <3> QED BY <1>2, <1>4, <1>6, <3>1, <3>2, <3>3
    <2> QED BY <1>1, <1>2, <1>14, <2>1, <2>2 DEF Frames
  <1>8. Nested'
    <2>1. Len(out) < Len(Tops(prog)) /\ frame'[1].e = Tops(prog)[Len(out) + 1]
      BY <1>2, <1>4 DEF IInv, Nested
    <2>2. ASSUME NEW i \in 1..depth' - 1
          PROVE  /\ frame'[i].at \in DOMAIN Parts(frame'[i].e)
                 /\ frame'[i + 1].e = Parts(frame'[i].e)[frame'[i].at]
                 /\ Is("mat", frame'[i].e) => frame'[i].missed
                 /\ IF Is("call", frame'[i].e) /\ frame'[i].at = 0
                    THEN frame'[i].level < frame'[i + 1].level
                    ELSE frame'[i].level = frame'[i + 1].level
      <3>1. CASE i = depth
        <4>1. frame'[i].e = t /\ frame'[i].at = l /\ frame'[i].level = Top.level
              /\ frame'[i].missed = Top.missed
          BY <1>2, <1>4, <1>5, <3>1 DEF Top
        <4>2. frame'[i + 1].e = c /\ frame'[i + 1].level = x
          BY <1>4, <3>1
        <4> QED BY <1>2, <4>1, <4>2 DEF t, c
      <3>2. CASE i # depth
        <4>1. i \in 1..depth /\ i + 1 \in 1..depth /\ i \in 1..depth - 1
          BY <1>2, <1>4, <3>2
        <4>2. /\ frame'[i].e = frame[i].e /\ frame'[i].at = frame[i].at
              /\ frame'[i].missed = frame[i].missed /\ frame'[i].level = frame[i].level
              /\ frame'[i + 1].e = frame[i + 1].e /\ frame'[i + 1].level = frame[i + 1].level
          BY <1>4, <3>2, <4>1
        <4> QED BY <4>1, <4>2 DEF IInv, Nested
      <3> QED BY <3>1, <3>2
    <2>3. ASSUME NEW j \in 1..depth', NEW i \in 1..j - 1
          PROVE  /\ Rank(frame'[j].e) <= Rank(frame'[i].e)
                 /\ Is("mat", frame'[i].e) => Rank(frame'[j].e) < Rank(frame'[i].e)
      <3>1. CASE j \in 1..depth
        BY <1>2, <1>4, <3>1 DEF IInv, Nested
      <3>2. CASE j = depth' /\ i = depth
        BY <1>3, <1>4, <1>5, <3>2
      <3>3. CASE j = depth' /\ i # depth
        <4>1. i \in 1..depth /\ i \in 1..depth - 1 /\ frame[i].e \in Nodes(prog)
          BY <1>2, <1>4, <3>3 DEF IInv, Frames
        <4>2. /\ Rank(t) <= Rank(frame[i].e)
              /\ Is("mat", frame[i].e) => Rank(t) < Rank(frame[i].e)
          BY <1>2, <1>5, <4>1 DEF IInv, Nested
        <4>3. Rank(frame[i].e) \in Nat
          BY <1>2, <4>1, ProgramAssumption DEF ProgramShape
        <4> QED BY <1>3, <1>4, <3>3, <4>1, <4>2, <4>3
      <3> QED BY <1>6, <3>1, <3>2, <3>3
    <2> QED BY <1>1, <2>1, <2>2, <2>3 DEF Nested
  <1>9. Values'
    <2>1. ASSUME NEW i \in 1..depth', NEW m \in DOMAIN frame'[i].got
          PROVE  /\ frame'[i].got[m] \in Value
                 /\ Clean(prog) /\ ~Placed(Parts(frame'[i].e)[m]) =>
                      frame'[i].got[m] = Means(Parts(frame'[i].e)[m])
      BY <1>4, <1>5, <1>6 DEF IInv, Values
    <2>2. ASSUME NEW i \in 1..depth', NEW r \in Free(frame'[i].e)
          PROVE  /\ r.name \in DOMAIN args'[frame'[i].level]
                 /\ args'[frame'[i].level][r.name] \in Value
                 /\ Clean(prog) => args'[frame'[i].level][r.name] = Means(r)
      <3>1. CASE i \in 1..depth
        <4>1. args'[frame[i].level] = args[frame[i].level]
          BY <1>5, <3>1
        <4> QED BY <1>4, <3>1, <4>1 DEF IInv, Values
      <3>2. CASE i = depth'
        BY <1>4, <3>2 DEF c, t
      <3> QED BY <1>6, <3>1, <3>2
    <2> QED BY <1>1, <2>1, <2>2 DEF Values
  <1>10. Copies'
    <2>1. Keeps(Copied(c, s))
      BY DEF Copied, Keeps, None
    <2> QED BY <1>1, <1>4, <1>6, <2>1 DEF IInv, Copies, Keeps
  <1>11. Made'
    <2>1. ASSUME NEW i \in 1..depth', NEW m \in DOMAIN frame'[i].got,
                 Placed(Parts(frame'[i].e)[m])
          PROVE  ProvidedNext(Parts(frame'[i].e)[m], frame'[i].level)
      <3>1. i \in 1..depth /\ m \in DOMAIN frame[i].got
        BY <1>4, <1>5, <1>6
      <3>2. Provided(Parts(frame[i].e)[m], frame[i].level)
        BY <1>4, <2>1, <3>1 DEF IInv, Made
      <3>3. stash'[frame[i].level] = stash[frame[i].level] /\ temp'[frame[i].level] = temp[frame[i].level]
        BY <1>5, <3>1
      <3> QED BY <1>4, <3>1, <3>2, <3>3 DEF Provided, ProvidedNext
    <2> QED BY <1>1, <2>1 DEF Made, Provided, ProvidedNext
  <1>12. Once'
    <2>1. ASSUME NEW v \in Level, NEW k \in Key
          PROVE  /\ computed'[v][k] \in 0..1
                 /\ computed'[v][k] = 1 =>
                      k \in DOMAIN stash'[v] \/ \E i \in 1..depth' : Computes(i, v, k)'
      <3>1. CASE stash'[v] = stash[v] /\ computed'[v] = computed[v]
        <4>1. ASSUME NEW i \in 1..depth, Computes(i, v, k)
              PROVE  i \in 1..depth' /\ Computes(i, v, k)'
          BY <1>2, <1>4, <4>1 DEF Computes
        <4> QED BY <1>1, <3>1, <4>1 DEF IInv, Once
      <3>2. CASE ~(stash'[v] = stash[v] /\ computed'[v] = computed[v])
        BY <3>2
      <3> QED BY <3>1, <3>2
    <2> QED BY <2>1 DEF Once
  <1>13. Outcome'
    BY <1>1 DEF IInv, Outcome, ValuesAreMeant, MissingOnlyMisplaced
  <1> QED BY <1>7, <1>8, <1>9, <1>10, <1>11, <1>12, <1>13 DEF IInv

LEMMA PartKeeps == ASSUME IInv, NEW l \in Left(Top), Part(l) PROVE IInv'
  <1>1. /\ Running /\ ~(Is("call", Top.e) /\ l = 0) /\ (Is("mat", Top.e) => Top.missed)
        /\ Push(Top, l, Top.level, stash[Top.level]) /\ prog' = prog
        /\ stash' = stash /\ temp' = temp /\ args' = args /\ computed' = computed
    BY DEF Part, Push, contexts
  <1>2. /\ prog \in Program /\ depth \in 1..depth /\ Top.e \in Nodes(prog) /\ Top.level \in Level
        /\ l \in DOMAIN Parts(Top.e)
    BY <1>1, TopShape DEF Running, Left
  <1>3. Keeps(stash[Top.level]) /\ Contexts' /\ Stores'
    BY <1>1, <1>2, ContextsStay DEF IInv, Contexts, Stores
  <1>4. Free(Parts(Top.e)[l]) \subseteq Free(Top.e)
    BY <1>1, <1>2, PartShape
  <1>5. \A r \in Free(Parts(Top.e)[l]) :
          /\ r.name \in DOMAIN args'[Top.level] /\ args'[Top.level][r.name] \in Value
          /\ Clean(prog) => args'[Top.level][r.name] = Means(r)
    BY <1>1, <1>2, <1>4 DEF IInv, Values, Top
  <1> QED BY <1>1, <1>2, <1>3, <1>5, PushKeeps

LEMMA BodyKeeps == IInv /\ Body => IInv'
  <1> SUFFICES ASSUME IInv, Body PROVE IInv'
    OBVIOUS
  <1> DEFINE e == Top.e  v == Top.level  new == v + 1
  <1>1. /\ Running /\ Is("call", e) /\ 0 \in Left(Top) /\ v < MaxLevel
        /\ Push(Top, 0, new, Top.copy) /\ prog' = prog
        /\ stash' = [stash EXCEPT ![new] = Top.copy]
        /\ temp' = [temp EXCEPT ![new] = [u \in Url |-> None]]
        /\ args' = [args EXCEPT ![new] =
             [l \in DOMAIN Top.got \cup DOMAIN args[v] |->
                IF l \in DOMAIN Top.got THEN Top.got[l] ELSE args[v][l]]]
        /\ computed' = [computed EXCEPT ![new] = [k \in Key |-> IF k \in DOMAIN Top.copy THEN 1 ELSE 0]]
    BY DEF Body, Push
  <1>2. /\ prog \in Program /\ depth \in 1..depth /\ e \in Nodes(prog) /\ v \in Level
        /\ \A l \in DOMAIN Top.got :
             /\ Top.got[l] \in Value
             /\ Clean(prog) /\ ~Placed(Parts(e)[l]) => Top.got[l] = Means(Parts(e)[l])
        /\ DOMAIN Top.got \subseteq DOMAIN Parts(e)
    BY <1>1, TopShape DEF Running
  <1>3. DOMAIN e.args \subseteq DOMAIN Top.got /\ 0 \in DOMAIN Parts(e) /\ ~Is("mat", e)
    BY <1>1 DEF Left, Is
  <1>4. new \in Level /\ v \in 0..v /\ new \notin 0..v /\ 0..v \subseteq Level /\ v < new
    BY <1>1, <1>2, ProgramAssumption DEF Level
  <1>5. Keeps(Top.copy)
    BY <1>2 DEF IInv, Copies, Top
  <1>6. \A r \in Free(Parts(e)[0]) :
          /\ r.name \in DOMAIN args'[new] /\ args'[new][r.name] \in Value
          /\ Clean(prog) => args'[new][r.name] = Means(r)
    <2>1. ASSUME NEW r \in Free(Parts(e)[0])
          PROVE  /\ r.name \in DOMAIN e.args /\ r.name # 0
                 /\ Means(e.args[r.name]) = Means(r)
      <3>1. Parts(e)[0] = e.body
        BY <1>1, CallParts
      <3>2. r.name \in DOMAIN e.args /\ Means(e.args[r.name]) = Means(r)
        BY <1>1, <1>2, <1>3, <2>1, <3>1, ProgramAssumption DEF Bound
      <3>3. 0 \notin DOMAIN e.args
        BY <1>1, <1>2, ProgramAssumption DEF ProgramShape
      <3> QED BY <3>2, <3>3
    <2>2. DOMAIN args = Level
      BY DEF IInv, Stores
    <2>3. args'[new] = [l \in DOMAIN Top.got \cup DOMAIN args[v] |->
                          IF l \in DOMAIN Top.got THEN Top.got[l] ELSE args[v][l]]
      BY <1>1, <1>4, <2>2
    <2> HIDE DEF e, v, new
    <2>4. ASSUME NEW r \in Free(Parts(e)[0])
          PROVE  /\ r.name \in DOMAIN args'[new] /\ args'[new][r.name] \in Value
                 /\ Clean(prog) => args'[new][r.name] = Means(r)
      <3>1. r.name \in DOMAIN Top.got /\ r.name \in DOMAIN Parts(e)
        BY <1>2, <1>3, <2>1
      <3>2. args'[new][r.name] = Top.got[r.name] /\ r.name \in DOMAIN args'[new]
        BY <2>3, <3>1
      <3>3. ~Placed(Parts(e)[r.name]) /\ Parts(e)[r.name] = e.args[r.name]
        BY <1>1, <1>2, <2>1, <3>1, PartShape, CallParts
      <3> QED BY <1>2, <2>1, <3>1, <3>2, <3>3
    <2> QED BY <2>4
  <1> HIDE DEF e, v, new
  <1>7. /\ DOMAIN stash = Level /\ DOMAIN args = Level /\ DOMAIN temp = Level
        /\ computed \in [Level -> [Key -> Nat]] /\ \A x \in Level : DOMAIN temp[x] = Url
    BY DEF IInv, Stores
  <1>8. /\ stash'[new] = Top.copy
        /\ temp'[new] = [u \in Url |-> None]
        /\ computed'[new] = [k \in Key |-> IF k \in DOMAIN Top.copy THEN 1 ELSE 0]
        /\ \A x \in Level \ {new} : /\ stash'[x] = stash[x] /\ temp'[x] = temp[x]
                                    /\ args'[x] = args[x] /\ computed'[x] = computed[x]
        /\ DOMAIN stash' = Level /\ DOMAIN temp' = Level /\ DOMAIN args' = Level
        /\ computed' \in [Level -> [Key -> Nat]]
    BY <1>1, <1>4, <1>7
  <1>9. Stores'
    BY <1>1, <1>2, <1>7, <1>8 DEF Stores
  <1>10. Contexts'
    <2>1. \A x \in Level : Keeps(stash'[x])
      BY <1>5, <1>8 DEF IInv, Contexts
    <2>2. ASSUME NEW x \in Level, NEW u \in Url, NEW n \in DOMAIN temp'[x][u]
          PROVE  /\ temp'[x][u][n] \in Value
                 /\ \E m \in Mats(prog) : m.name = n /\ (Clean(prog) => temp'[x][u][n] = Means(m))
      <3>1. x # new
        BY <1>8 DEF None
      <3> QED BY <1>8, <3>1 DEF IInv, Contexts
    <2> QED BY <1>1, <2>1, <2>2 DEF Contexts, Keeps
  <1>11. \A x \in 0..v : /\ stash'[x] = stash[x] /\ temp'[x] = temp[x]
                         /\ args'[x] = args[x] /\ computed'[x] = computed[x]
    BY <1>4, <1>8
  <1>12. \A x \in Level : \/ stash'[x] = stash[x] /\ computed'[x] = computed[x]
                          \/ \A k \in Key : /\ computed'[x][k] \in 0..1
                                            /\ computed'[x][k] = 1 => k \in DOMAIN stash'[x]
    BY <1>8
  <1> QED BY <1>1, <1>3, <1>4, <1>5, <1>6, <1>9, <1>10, <1>11, <1>12, PushKeeps DEF e, v

LEMMA MissedKeeps == IInv /\ Missed => IInv'
  <1> SUFFICES ASSUME IInv, Missed PROVE IInv'
    OBVIOUS
  <1> DEFINE e == Top.e  v == Top.level
  <1>1. /\ Running /\ Is("mat", e) /\ ~Top.missed /\ e.key \notin DOMAIN stash[v]
        /\ frame' = [frame EXCEPT ![depth].missed = TRUE]
        /\ computed' = IF Placed(e) THEN computed ELSE [computed EXCEPT ![v][e.key] = @ + 1]
        /\ UNCHANGED <<prog, depth, stash, temp, args, out, failed>>
    BY DEF Missed
  <1>2. /\ prog \in Program /\ e \in Mats(prog) /\ v \in Level /\ depth \in 1..depth
        /\ e.key \in Key /\ Rank(e) = e.key /\ failed = NoFailure
    BY <1>1, TopShape, MatShape DEF Running, Mats
  <1> HIDE DEF e, v
  <1>13. ASSUME NEW i \in 1..depth
         PROVE  /\ frame'[i] = [e |-> frame'[i].e, level |-> frame'[i].level,
                                got |-> frame'[i].got, at |-> frame'[i].at,
                                missed |-> frame'[i].missed, copy |-> frame'[i].copy]
                /\ frame'[i].e = frame[i].e /\ frame'[i].level = frame[i].level
                /\ frame'[i].got = frame[i].got /\ frame'[i].at = frame[i].at
                /\ frame'[i].copy = frame[i].copy
                /\ i # depth => frame'[i].missed = frame[i].missed
                /\ i = depth => frame'[i].missed = TRUE
    <2>1. /\ frame[i] = [e |-> frame[i].e, level |-> frame[i].level, got |-> frame[i].got,
                         at |-> frame[i].at, missed |-> frame[i].missed, copy |-> frame[i].copy]
          /\ DOMAIN frame = 1..depth
      BY DEF IInv, Frames
    <2>2. CASE i = depth
      <3>1. frame'[i] = [frame[i] EXCEPT !.missed = TRUE]
        BY <1>1, <2>1, <2>2
      <3>2. frame'[i] = [e |-> frame[i].e, level |-> frame[i].level, got |-> frame[i].got,
                         at |-> frame[i].at, missed |-> TRUE, copy |-> frame[i].copy]
        BY <2>1, <3>1
      <3> QED BY <2>2, <3>2
    <2>3. CASE i # depth
      BY <1>1, <2>1, <2>3
    <2> QED BY <2>2, <2>3
  <1>3. /\ DOMAIN frame' = 1..depth
        /\ \A i \in 1..depth :
             /\ frame'[i].e = frame[i].e /\ frame'[i].level = frame[i].level
             /\ frame'[i].got = frame[i].got /\ frame'[i].at = frame[i].at
             /\ frame'[i].copy = frame[i].copy
             /\ i # depth => frame'[i].missed = frame[i].missed
             /\ i = depth => frame'[i].missed = TRUE
    <2>1. DOMAIN frame' = 1..depth
      BY <1>1 DEF IInv, Frames
    <2> QED BY <1>13, <2>1
  <1>14. PICK d \in 1..depth : d = depth
    BY <1>2
  <1>4. Frames'
    <2>1. \A i \in 1..depth :
            frame'[i] = [e |-> frame'[i].e, level |-> frame'[i].level, got |-> frame'[i].got,
                         at |-> frame'[i].at, missed |-> frame'[i].missed,
                         copy |-> frame'[i].copy]
      BY <1>13
    <2>2. \A i \in 1..depth :
            /\ frame'[i].e \in Nodes(prog) /\ frame'[i].level \in Level
            /\ \A j \in i..depth : frame'[i].level <= frame'[j].level
            /\ DOMAIN frame'[i].got \subseteq DOMAIN Parts(frame'[i].e)
      BY <1>3 DEF IInv, Frames
    <2>3. depth \in Nat
      BY DEF IInv, Frames
    <2> QED BY <1>1, <1>3, <2>1, <2>2, <2>3 DEF Frames
  <1>5. Nested'
    <2>1. depth > 0 => Len(out) < Len(Tops(prog)) /\ frame'[1].e = Tops(prog)[Len(out) + 1]
      BY <1>2, <1>3 DEF IInv, Nested, Frames
    <2>2. ASSUME NEW i \in 1..depth - 1
          PROVE  /\ frame'[i].at \in DOMAIN Parts(frame'[i].e)
                 /\ frame'[i + 1].e = Parts(frame'[i].e)[frame'[i].at]
                 /\ Is("mat", frame'[i].e) => frame'[i].missed
                 /\ IF Is("call", frame'[i].e) /\ frame'[i].at = 0
                    THEN frame'[i].level < frame'[i + 1].level
                    ELSE frame'[i].level = frame'[i + 1].level
      <3>1. i \in 1..depth /\ i + 1 \in 1..depth /\ i # depth
        BY DEF IInv, Frames
      <3>2. /\ frame'[i].e = frame[i].e /\ frame'[i].at = frame[i].at
            /\ frame'[i].missed = frame[i].missed /\ frame'[i].level = frame[i].level
            /\ frame'[i + 1].e = frame[i + 1].e /\ frame'[i + 1].level = frame[i + 1].level
        BY <1>3, <3>1
      <3> QED BY <3>1, <3>2 DEF IInv, Nested
    <2>3. ASSUME NEW j \in 1..depth, NEW i \in 1..j - 1
          PROVE  /\ Rank(frame'[j].e) <= Rank(frame'[i].e)
                 /\ Is("mat", frame'[i].e) => Rank(frame'[j].e) < Rank(frame'[i].e)
      <3>1. i \in 1..depth
        BY DEF IInv, Frames
      <3>2. frame'[j].e = frame[j].e /\ frame'[i].e = frame[i].e
        BY <1>3, <3>1
      <3> QED BY <3>2 DEF IInv, Nested
    <2> QED BY <1>1, <2>1, <2>2, <2>3 DEF Nested
  <1>6. Values'
    BY <1>1, <1>3 DEF IInv, Values
  <1>7. Copies' /\ Contexts'
    BY <1>1, <1>3 DEF IInv, Copies, Contexts, Keeps
  <1>8. Made'
    BY <1>1, <1>3 DEF IInv, Made, Provided
  <1>9. Stores'
    BY <1>1, <1>2 DEF IInv, Stores
  <1>10. Outcome'
    BY <1>1 DEF IInv, Outcome, ValuesAreMeant, MissingOnlyMisplaced
  <1>11. ~Placed(e) => computed[v][e.key] = 0
    <2> SUFFICES ASSUME ~Placed(e), computed[v][e.key] = 1 PROVE FALSE
      BY <1>2 DEF IInv, Once
    <2>1. PICK i \in 1..depth : Computes(i, v, e.key)
      BY <1>1, <1>2 DEF IInv, Once
    <2>2. i # depth
      BY <1>1, <2>1 DEF Computes, Top
    <2>3. i \in 1..depth - 1
      BY <2>2 DEF IInv, Frames
    <2>4. Is("mat", frame[i].e) /\ frame[i].e.key = e.key /\ frame[i].e \in Nodes(prog)
      BY <2>1 DEF Computes, IInv, Frames
    <2>5. Rank(e) < Rank(frame[i].e)
      BY <1>2, <2>3, <2>4 DEF IInv, Nested, Top, e
    <2>6. Rank(frame[i].e) = e.key
      BY <1>2, <2>4, MatShape DEF Mats
    <2>7. Rank(e) \in Nat
      BY <1>2, ProgramAssumption DEF ProgramShape, Mats
    <2> QED BY <1>2, <2>5, <2>6, <2>7
  <1>12. Once'
    <2>1. ASSUME NEW x \in Level, NEW k \in Key
          PROVE  /\ computed'[x][k] \in 0..1
                 /\ computed'[x][k] = 1 => k \in DOMAIN stash[x] \/ \E i \in 1..depth : Computes(i, x, k)'
      <3>1. ASSUME NEW i \in 1..depth, Computes(i, x, k) PROVE Computes(i, x, k)'
        BY <1>1, <1>3, <3>1 DEF Computes, Top
      <3>2. CASE ~Placed(e) /\ x = v /\ k = e.key
        <4>1. computed'[x][k] = 1
          BY <1>1, <1>2, <1>11, <3>2 DEF IInv, Stores
        <4>2. Computes(d, x, k)'
          <5>1. frame'[d].level = v /\ frame'[d].e = e /\ frame'[d].missed = TRUE
            BY <1>3, <1>14 DEF Top, e, v
          <5> QED BY <1>1, <1>2, <3>2, <5>1 DEF Computes
        <4> QED BY <1>2, <4>1, <4>2
      <3>3. CASE ~(~Placed(e) /\ x = v /\ k = e.key)
        <4>1. computed'[x][k] = computed[x][k]
          BY <1>1, <1>2, <3>3 DEF IInv, Stores
        <4> QED BY <1>2, <3>1, <4>1 DEF IInv, Once
      <3> QED BY <3>2, <3>3
    <2> QED BY <1>1, <2>1 DEF Once
  <1> QED BY <1>4, <1>5, <1>6, <1>7, <1>8, <1>9, <1>10, <1>12 DEF IInv

LEMMA InitKeeps == Init => IInv
  <1> SUFFICES ASSUME Init PROVE IInv
    OBVIOUS
  <1>1. /\ prog \in Program /\ depth = 0 /\ frame = <<>> /\ out = <<>> /\ failed = NoFailure
        /\ stash = [v \in Level |-> None] /\ temp = [v \in Level |-> [u \in Url |-> None]]
        /\ args = [v \in Level |-> None] /\ computed = [v \in Level |-> [k \in Key |-> 0]]
    BY DEF Init
  <1>2. DOMAIN None = {}
    BY DEF None
  <1>3. \A i \in 1..depth : FALSE
    BY <1>1
  <1>4. Stores
    BY <1>1 DEF Stores
  <1>5. Frames
    <2>1. DOMAIN frame = 1..depth /\ depth \in Nat
      BY <1>1
    <2> QED BY <1>3, <2>1 DEF Frames
  <1>6. Nested
    <2>1. \A i \in 1..depth - 1 : FALSE
      BY <1>1
    <2> QED BY <1>1, <1>3, <2>1 DEF Nested
  <1>7. Values /\ Copies /\ Made
    BY <1>3 DEF Values, Copies, Made
  <1>8. Contexts
    <2>1. \A v \in Level : Keeps(stash[v])
      BY <1>1, <1>2 DEF Keeps
    <2>2. \A v \in Level, u \in Url : DOMAIN temp[v][u] = {}
      BY <1>1, <1>2
    <2> QED BY <2>1, <2>2 DEF Contexts
  <1>9. Once
    BY <1>1 DEF Once
  <1>10. Outcome
    <2>1. failed.found
      BY <1>1 DEF NoFailure
    <2>2. out \in Seq(Value) /\ Len(out) = 0
      BY <1>1
    <2>3. Len(out) <= Len(Tops(prog))
      BY <1>1, <2>2, ProgramAssumption DEF ProgramShape
    <2>4. ValuesAreMeant
      BY <2>2 DEF ValuesAreMeant
    <2>5. MissingOnlyMisplaced
      BY <2>1 DEF MissingOnlyMisplaced
    <2> QED BY <1>1, <2>2, <2>3, <2>4, <2>5 DEF Outcome
  <1> QED BY <1>4, <1>5, <1>6, <1>7, <1>8, <1>9, <1>10 DEF IInv

LEMMA StartKeeps == IInv /\ Start => IInv'
  <1> SUFFICES ASSUME IInv, Start PROVE IInv'
    OBVIOUS
  <1> DEFINE t == Tops(prog)[Len(out) + 1]  s == stash[0]
  <1>1. /\ depth = 0 /\ failed = NoFailure /\ Len(out) < Len(Tops(prog)) /\ depth' = 1
        /\ frame' = [i \in {1} |-> NewFrame(t, 0, s)]
        /\ prog' = prog /\ stash' = stash /\ temp' = temp /\ args' = args /\ computed' = computed
        /\ out' = out /\ failed' = failed
    BY DEF Start, contexts
  <1>2. prog \in Program /\ 0 \in Level /\ Len(out) \in Nat
    BY ProgramAssumption DEF IInv, Stores, Level, Outcome
  <1>3. Tops(prog) \in Seq(Nodes(prog)) /\ Bound(prog)
    BY <1>2, ProgramAssumption DEF ProgramShape
  <1>4. t \in Nodes(prog) /\ Free(t) = {}
    <2>1. Len(out) + 1 \in DOMAIN Tops(prog)
      BY <1>1, <1>2, <1>3
    <2> QED BY <1>3, <2>1 DEF Bound
  <1> HIDE DEF t
  <1>5. /\ frame'[1] = [e |-> t, level |-> 0, got |-> None, at |-> 0, missed |-> FALSE,
                        copy |-> Copied(t, s)]
        /\ DOMAIN frame' = {1}
    BY <1>1 DEF NewFrame
  <1>6. DOMAIN None = {}
    BY DEF None
  <1>7. /\ frame'[1].e = t /\ frame'[1].level = 0 /\ DOMAIN frame'[1].got = {}
        /\ frame'[1].copy = Copied(t, s)
        /\ frame'[1] = [e |-> frame'[1].e, level |-> frame'[1].level, got |-> frame'[1].got,
                        at |-> frame'[1].at, missed |-> frame'[1].missed, copy |-> frame'[1].copy]
    BY <1>5, <1>6
  <1>8. 1..depth' = {1} /\ (\A i \in 1..depth' - 1 : FALSE) /\ \A i \in 1..depth : FALSE
    BY <1>1
  <1>9. Keeps(Copied(t, s))
    BY <1>2, <1>6 DEF Copied, Keeps, IInv, Contexts
  <1> HIDE DEF s
  <1>10. Stores'
    BY <1>1 DEF IInv, Stores
  <1>11. Frames'
    <2>1. \A j \in 1..depth' : frame'[1].level <= frame'[j].level
      BY <1>7, <1>8
    <2>2. depth' \in Nat
      BY <1>1
    <2> QED BY <1>1, <1>2, <1>4, <1>5, <1>7, <1>8, <2>1, <2>2 DEF Frames
  <1>12. Nested'
    <2>1. \A j \in 1..depth' : \A i \in 1..j - 1 : FALSE
      BY <1>8
    <2>2. frame'[1].e = Tops(prog)[Len(out) + 1]
      BY <1>7 DEF t
    <2> QED BY <1>1, <1>8, <2>1, <2>2 DEF Nested
  <1>13. Values'
    BY <1>1, <1>4, <1>7, <1>8 DEF Values
  <1>14. Contexts'
    BY <1>1 DEF IInv, Contexts, Keeps
  <1>15. Copies'
    BY <1>1, <1>7, <1>8, <1>9 DEF Copies, Keeps
  <1>16. Made'
    BY <1>7, <1>8 DEF Made
  <1>17. Once'
    <2>1. \A v \in Level, k \in Key : /\ computed[v][k] \in 0..1
                                      /\ computed[v][k] = 1 => k \in DOMAIN stash[v]
      BY <1>1, <1>8 DEF IInv, Once
    <2> QED BY <1>1, <2>1 DEF Once
  <1>18. Outcome'
    BY <1>1 DEF IInv, Outcome, ValuesAreMeant, MissingOnlyMisplaced
  <1> QED BY <1>10, <1>11, <1>12, <1>13, <1>14, <1>15, <1>16, <1>17, <1>18 DEF IInv

\* A query that fails carries a materialization of the missing table, and each
\* one it carries was misplaced: what was made under its name, in the database
\* of the query, would have been found.
LEMMA FailKeeps == IInv /\ Fail => IInv'
  <1> SUFFICES ASSUME IInv, Fail PROVE IInv'
    OBVIOUS
  <1> DEFINE q == Query(Top.e)  v == Top.level
  <1>1. /\ depth > 0 /\ failed = NoFailure /\ (Is("sql", Top.e) \/ Placed(Top.e))
        /\ DOMAIN Parts(Top.e) \subseteq DOMAIN Top.got
        /\ depth' = 0 /\ frame' = <<>>
        /\ prog' = prog /\ stash' = stash /\ temp' = temp /\ args' = args /\ computed' = computed
        /\ out' = out
    BY DEF Fail, RunsQuery, Running, contexts
  <1>2. PICK n \in Unknown(v, q) :
          failed' = [found |-> FALSE, query |-> q, table |-> n, stashed |-> DOMAIN stash[v]]
    BY DEF Fail
  <1>3. prog \in Program /\ Top.e \in Nodes(prog) /\ v \in Level /\ depth \in 1..depth
    BY <1>1, TopShape
  <1>4. /\ q \in Nodes(prog) /\ Is("sql", q) /\ Parts(Top.e) = q.params
        /\ \A x \in q.tables : x \in DOMAIN Base[q.url] \/ Carries(q, x)
    BY <1>1, <1>3, QueryShape
  <1>5. n \in q.tables /\ n \notin DOMAIN temp[v][q.url] /\ n \notin DOMAIN Base[q.url]
    BY DEF Unknown
  <1>6. PICK l \in DOMAIN q.params : Is("mat", q.params[l]) /\ q.params[l].name = n
    BY <1>4, <1>5 DEF Carries
  <1>7. ASSUME NEW k \in DOMAIN q.params, Is("mat", q.params[k]), q.params[k].name = n
        PROVE  Misplaced(q, q.params[k], DOMAIN stash[v])
    <2> SUFFICES ASSUME Placed(q.params[k]), q.params[k].inner.url = q.url,
                        q.params[k].key \notin DOMAIN stash[v]
                 PROVE  FALSE
      BY <1>7 DEF Misplaced, Placed
    <2>1. k \in DOMAIN Top.got /\ Parts(Top.e)[k] = q.params[k]
      BY <1>1, <1>4
    <2>2. Provided(q.params[k], v)
      BY <1>3, <2>1 DEF IInv, Made, Top
    <2> QED BY <1>5, <1>7, <2>2 DEF Provided
  <1> HIDE DEF q, v
  <1>8. \A i \in 1..depth' : FALSE
    BY <1>1
  <1>9. Frames' /\ Stores'
    <2>1. DOMAIN frame' = 1..depth' /\ depth' \in Nat
      BY <1>1
    <2>2. Frames'
      BY <1>8, <2>1 DEF Frames
    <2> QED BY <1>1, <2>2 DEF IInv, Stores
  <1>10. Nested'
    <2>1. \A i \in 1..depth' - 1 : FALSE
      BY <1>1
    <2>2. ~(depth' > 0)
      BY <1>1
    <2> QED BY <1>8, <2>1, <2>2 DEF Nested
  <1>11. Values' /\ Copies' /\ Made'
    BY <1>8 DEF Values, Copies, Made
  <1>12. Contexts'
    BY <1>1 DEF IInv, Contexts, Keeps
  <1>13. failed'.found = FALSE /\ failed'.query = q /\ failed'.table = n
         /\ failed'.stashed = DOMAIN stash[v]
    BY <1>2
  <1>14. failed' # NoFailure
    BY <1>13 DEF NoFailure
  <1>15. Once'
    BY <1>1, <1>14 DEF IInv, Once
  <1>16. MissingOnlyMisplaced'
    BY <1>6, <1>7, <1>13 DEF MissingOnlyMisplaced, Misplaced
  <1>17. Outcome'
    BY <1>1, <1>13, <1>16 DEF IInv, Outcome, ValuesAreMeant
  <1> QED BY <1>9, <1>10, <1>11, <1>12, <1>15, <1>17 DEF IInv

LEMMA StutterKeeps == IInv /\ UNCHANGED vars => IInv'
  <1> SUFFICES ASSUME IInv, UNCHANGED vars PROVE IInv'
    OBVIOUS
  <1>1. /\ prog' = prog /\ depth' = depth /\ frame' = frame /\ stash' = stash /\ temp' = temp
        /\ args' = args /\ computed' = computed /\ out' = out /\ failed' = failed
    BY DEF vars, contexts
  <1>2. Stores' /\ Frames' /\ Nested'
    BY <1>1 DEF IInv, Stores, Frames, Nested
  <1>3. Values' /\ Contexts' /\ Copies' /\ Made'
    BY <1>1 DEF IInv, Values, Contexts, Copies, Made, Provided, Keeps
  <1>4. Once' /\ Outcome'
    BY <1>1 DEF IInv, Once, Computes, Outcome, ValuesAreMeant, MissingOnlyMisplaced
  <1> QED BY <1>2, <1>3, <1>4 DEF IInv

LEMMA NextKeeps == IInv /\ [Next]_vars => IInv'
  <1> SUFFICES ASSUME IInv, [Next]_vars PROVE IInv'
    OBVIOUS
  <1>1. CASE Start
    BY <1>1, StartKeeps
  <1>2. CASE Body
    BY <1>2, BodyKeeps
  <1>3. CASE Called
    BY <1>3, CalledKeeps
  <1>4. CASE Leaf
    BY <1>4, LeafKeeps
  <1>5. CASE Fail
    BY <1>5, FailKeeps
  <1>6. CASE Run
    BY <1>6, RunKeeps
  <1>7. CASE Cached
    BY <1>7, CachedKeeps
  <1>8. CASE Missed
    BY <1>8, MissedKeeps
  <1>9. CASE Create
    BY <1>9, CreateKeeps
  <1>10. CASE Keep
    BY <1>10, KeepKeeps
  <1>11. CASE Running /\ \E l \in Left(Top) : Part(l)
    BY <1>11, PartKeeps
  <1>12. CASE UNCHANGED vars
    BY <1>12, StutterKeeps
  <1>13. CASE Finished
    BY <1>12, <1>13 DEF Finished
  <1> QED BY <1>1, <1>2, <1>3, <1>4, <1>5, <1>6, <1>7, <1>8, <1>9, <1>10, <1>11, <1>12, <1>13
             DEF Next

-----------------------------------------------------------------------------
\* The invariant behind the properties below: what an evaluation has of its
\* parts and arguments, and what its Context keeps, is what they mean; what it
\* computes is stashed or above it on the stack.
THEOREM Safe == Spec => []IInv
  BY InitKeeps, NextKeeps, PTL DEF Spec

\* The state of an evaluation is of its types (runtime/context.rs, Context).
THEOREM TypeCorrect == Spec => []TypeOK
  <1>1. IInv => TypeOK
    BY DEF IInv, Stores, Frames, Values, Outcome, TypeOK
  <1> QED BY <1>1, Safe, PTL

\* Whatever the runtime caches, hides under a temporary table or runs in a
\* copied Context, every expression of a file of any program gives what it
\* stands for, when no two tables share a bare name (runtime.rs, eval).
THEOREM ValuesMeant == Spec => []ValuesAreMeant
  <1>1. IInv => ValuesAreMeant
    BY DEF IInv, Outcome
  <1> QED BY <1>1, Safe, PTL

\* A query that does not find a table carries a materialization of it that the
\* runtime had stashed, made in another database or could not make as a table
\* (runtime.rs, eval; inline.rs, ParamInliner).
THEOREM OnlyMisplacedMissing == Spec => []MissingOnlyMisplaced
  <1>1. IInv => MissingOnlyMisplaced
    BY DEF IInv, Outcome
  <1> QED BY <1>1, Safe, PTL

\* No materialization is evaluated twice in a Context, however calls and parts
\* nest between the look at the stash and the entry in it (runtime.rs, eval).
THEOREM OnceOnly == Spec => []ComputedOnce
  <1>1. IInv => ComputedOnce
    BY DEF IInv, Once, ComputedOnce
  <1> QED BY <1>1, Safe, PTL
==============================================================================
