--------------------------- MODULE DuckRelationsProofs ---------------------------
(***************************************************************************)
(* The properties of DuckRelations, for any number of queries, parameters  *)
(* and databases.                                                          *)
(***************************************************************************)
EXTENDS DuckRelations, TLAPS

\* Nothing is removed by the names of the parameters.
LEMMA DroppedFacts ==
  ASSUME NEW t, DOMAIN t \subseteq Nat
  PROVE DOMAIN Dropped(t) = DOMAIN t /\ \A n \in DOMAIN t : Dropped(t)[n] = t[n]
  BY ParamAssumption DEF Dropped

\* What a table holds after a query entered some of its parameters: its
\* relations, and those of the others as before.
Holding(t, old, q, S) ==
  /\ DOMAIN t = {name[q][p] : p \in S} \cup DOMAIN old
  /\ DOMAIN t \subseteq Nat \ {0}
  /\ \A n \in DOMAIN t : t[n] \in Relation
  /\ \A p \in S : t[name[q][p]] = <<q, p>>
  /\ \A n \in DOMAIN old : (\A p \in S : n # name[q][p]) => t[n] = old[n]

\* A table holds them after a query entered some of its parameters.
LEMMA Entered ==
  ASSUME TypeOK, Placeholders, NEW q \in Query, at[q] = "insert", NEW S \in SUBSET Param,
         NEW m \in Query, NEW t, t = Entries(table[m], q, S) \/ t = Dropped(Entries(table[m], q, S))
  PROVE Holding(t, table[m], q, S)
<1> DEFINE e == Entries(table[m], q, S)
<1>1. DOMAIN e = {name[q][p] : p \in S} \cup DOMAIN table[m]
  BY DEF Entries
<1>2. \A p \in S : name[q][p] \in Nat \ {0}
  BY DEF TypeOK, Placeholders
<1>3. ASSUME NEW p \in S PROVE e[name[q][p]] = <<q, p>>
  <2>1. \A s \in S : name[q][s] = name[q][p] => s = p
    BY <1>2 DEF Placeholders
  <2>2. (CHOOSE s \in S : name[q][s] = name[q][p]) = p
    BY <2>1
  <2> QED BY <2>2 DEF Entries
<1>4. ASSUME NEW n \in DOMAIN table[m], \A p \in S : n # name[q][p]
      PROVE e[n] = table[m][n]
  BY <1>4 DEF Entries
<1> HIDE DEF e
<1>5. DOMAIN e \subseteq Nat \ {0}
  BY <1>1, <1>2 DEF TypeOK
<1>6. DOMAIN t = DOMAIN e /\ \A n \in DOMAIN e : t[n] = e[n]
  BY <1>5, DroppedFacts DEF e
<1>7. ASSUME NEW n \in DOMAIN e PROVE e[n] \in Relation
  <2>1. CASE \E p \in S : n = name[q][p]
    <3>1. PICK p \in S : n = name[q][p]
      BY <2>1
    <3>2. e[n] = <<q, p>>
      BY <3>1, <1>3
    <3> QED BY <3>2 DEF Relation
  <2>2. CASE \A p \in S : n # name[q][p]
    BY <2>2, <1>1, <1>4 DEF TypeOK
  <2> QED BY <2>1, <2>2
<1> QED BY <1>1, <1>3, <1>4, <1>5, <1>6, <1>7 DEF Holding

LEMMA InitHolds == Init => IInv
<1> SUFFICES ASSUME Init PROVE IInv
  OBVIOUS
<1>1. TypeOK
  BY DEF Init, TypeOK, Busy, Running
<1>2. Connected
  BY DEF Init, Connected, Busy, Running
<1>3. Placeholders /\ Pointers
  BY DEF Init, Placeholders, Pointers, Running
<1>4. EntriesStay /\ ReadsOwn
  BY DEF Init, EntriesStay, ReadsOwn, Running
<1> QED BY <1>1, <1>2, <1>3, <1>4 DEF IInv

-----------------------------------------------------------------------------
\* A table that a database's callback reads is made once and for that database,
\* and what is in it does not depend on who else opens one.
LEMMA OpenKeeps ==
  ASSUME IInv, NEW q \in Query, Open(q) \/ OpenFails(q) PROVE IInv'
<1> USE DEF IInv
<1>1. PICK l \in {"normalize", "failed"} :
        /\ at' = [at EXCEPT ![q] = l] /\ at[q] = "open"
        /\ l = "normalize" => Free(q) /\ scan' = Installed(q) /\ uses' = Cloned(q)
        /\ l = "failed" => uses' = uses
  BY DEF Open, OpenFails, Goto
<1>2. /\ scan' \in {scan, Installed(q)}
      /\ UNCHANGED <<db, next, table, place, name, pointer, got, overlapped>>
  BY DEF Open, OpenFails
<1>3. \A r \in Query : at'[r] = IF r = q THEN l ELSE at[r]
  BY <1>1 DEF TypeOK
<1>4. db[q] \in Database /\ DOMAIN scan = Database
  BY DEF TypeOK
<1>5. /\ DOMAIN scan' = Database
      /\ \A d \in Database : \/ scan'[d] = scan[d]
                             \/ scan[d] = None /\ d = db[q] /\ scan'[d] = q
      /\ l = "normalize" => scan'[db[q]] # None
  BY <1>1, <1>2, <1>4, ParamAssumption DEF Installed
<1>6. l = "normalize" => uses' = [uses EXCEPT ![q] = scan'[db[q]]]
  BY <1>1 DEF Cloned
<1>7. TypeOK'
  <2>1. scan' \in [Database -> Query \cup {None}]
    BY <1>2, <1>4 DEF Installed, TypeOK
  <2>2. uses' \in [Query -> Query \cup {None}]
    BY <1>1, <1>4, <1>6, <2>1 DEF TypeOK
  <2>3. at' \in [Query -> Busy \cup {"open", "ok", "failed"}]
    BY <1>1 DEF TypeOK, Busy
  <2> QED BY <2>1, <2>2, <2>3, <1>2 DEF TypeOK
<1>8. Connected'
  <2>1. \A d \in Database : scan'[d] # None => db'[scan'[d]] = d
    BY <1>2, <1>5 DEF Connected
  <2>2. ASSUME NEW r \in Query, at'[r] \in Busy
        PROVE scan'[db'[r]] \in Query /\ uses'[r] = scan'[db'[r]]
    <3>1. CASE r = q
      <4>1. l = "normalize"
        BY <2>2, <3>1, <1>1, <1>3 DEF Busy, Running
      <4> QED BY <3>1, <4>1, <1>2, <1>4, <1>5, <1>6, <1>7 DEF TypeOK
    <3>2. CASE r # q
      <4>1. at[r] \in Busy /\ uses'[r] = uses[r]
        BY <2>2, <3>2, <1>1, <1>3, <1>6 DEF TypeOK
      <4>2. scan[db[r]] \in Query /\ uses[r] = scan[db[r]] /\ db[r] \in Database
        BY <4>1 DEF Connected, TypeOK
      <4> QED BY <4>1, <4>2, <1>2, <1>5, ParamAssumption
    <3> QED BY <3>1, <3>2
  <2>3. ASSUME NEW r \in Query, NEW s \in Query, db'[r] = db'[s], db'[r] \in Embedded,
               at'[r] \in Busy, at'[s] \in Busy
        PROVE r = s
    BY <2>3, <1>1, <1>2, <1>3 DEF Connected, Free, Busy, Running
  <2> QED BY <2>1, <2>2, <2>3 DEF Connected
<1>9. Placeholders'
  BY <1>1, <1>2, <1>3 DEF Placeholders, Running
<1>10. \A r \in Query : at'[r] \in Running => at[r] \in Running /\ Scanned(r)' = Scanned(r)
  <2> SUFFICES ASSUME NEW r \in Query, at'[r] \in Running
               PROVE at[r] \in Running /\ Scanned(r)' = Scanned(r)
    OBVIOUS
  <2>1. at[r] \in Running /\ at[r] \in Busy
    BY <1>1, <1>3 DEF Running, Busy
  <2>2. scan[db[r]] \in Query /\ db[r] \in Database
    BY <2>1 DEF Connected, TypeOK
  <2> QED BY <2>1, <2>2, <1>2, <1>5, ParamAssumption DEF Scanned
<1>11. Pointers'
  BY <1>1, <1>2, <1>3, <1>10 DEF Pointers, Running
<1>12. EntriesStay'
  BY <1>2, <1>10 DEF EntriesStay
<1>13. ReadsOwn'
  BY <1>2 DEF ReadsOwn
<1> QED BY <1>7, <1>8, <1>9, <1>11, <1>12, <1>13

\* A placeholder is taken: it is new.
LEMMA NumberKeeps ==
  ASSUME IInv, NEW q \in Query, NEW p \in Param, Number(q, p) PROVE IInv'
<1> USE DEF IInv
<1>1. TypeOK'
  BY DEF Number, TypeOK, connections
<1>2. Connected'
  BY DEF Number, Connected, connections
<1>3. Placeholders'
  <2>1. \A r \in Query, s \in Param :
          name'[r][s] = IF r = q /\ s = p THEN next ELSE name[r][s]
    BY DEF Number, TypeOK
  <2> QED BY <2>1 DEF Number, TypeOK, Placeholders, Running
<1>4. Pointers'
  BY DEF Number, Pointers, Scanned, connections
<1>5. EntriesStay'
  <2>1. \A r \in Query, s \in Param : at[r] \in Running => name'[r][s] = name[r][s]
    BY DEF Number, TypeOK, Running
  <2> QED BY <2>1 DEF Number, EntriesStay, Scanned, connections
<1>6. ReadsOwn'
  BY DEF Number, ReadsOwn, connections
<1> QED BY <1>1, <1>2, <1>3, <1>4, <1>5, <1>6

\* A query moves on without touching the tables or what was read.
LEMMA MoveKeeps ==
  ASSUME IInv, NEW q \in Query, Reject(q) \/ Normalized(q) \/ Prepared(q) \/ End(q)
  PROVE IInv'
<1> USE DEF IInv
<1>1. PICK l \in Running \cup {"insert", "ok", "failed"} :
        /\ Goto(q, l)
        /\ l = "insert" => at[q] = "normalize" /\ \A p \in Param : name[q][p] # 0
        /\ l \in Running => at[q] \in Running
        /\ l \notin Running \cup {"insert"} => at[q] \in Running \cup {"normalize"}
  BY DEF Reject, Normalized, Prepared, End, Running
<1>2. UNCHANGED <<connections, next, place, name, pointer, got, overlapped>>
  BY DEF Reject, Normalized, Prepared, End
<1>3. /\ DOMAIN table' = Query
      /\ \A m \in Query : /\ DOMAIN table'[m] = DOMAIN table[m]
                          /\ \A n \in DOMAIN table[m] : table'[m][n] = table[m][n]
  <2>1. \A m \in Query : /\ DOMAIN Dropped(table[m]) = DOMAIN table[m]
                         /\ \A n \in DOMAIN table[m] : Dropped(table[m])[n] = table[m][n]
    BY DroppedFacts DEF TypeOK
  <2>2. table' = table \/ table' = [table EXCEPT ![uses[q]] = Dropped(@)]
    BY DEF Reject, Normalized, Prepared, End
  <2>3. DOMAIN table = Query
    BY DEF TypeOK
  <2>4. DOMAIN table' = Query
    BY <2>2, <2>3
  <2>5. ASSUME NEW m \in Query PROVE table'[m] \in {table[m], Dropped(table[m])}
    BY <2>2, <2>3
  <2> QED BY <2>1, <2>4, <2>5
<1>4. \A r \in Query : at'[r] = IF r = q THEN l ELSE at[r]
  BY <1>1 DEF Goto, TypeOK
<1>5. TypeOK'
  <2>1. at' \in [Query -> Busy \cup {"open", "ok", "failed"}]
    BY <1>1 DEF Goto, TypeOK, Busy
  <2> QED BY <2>1, <1>2, <1>3 DEF TypeOK, connections
<1>6. Connected'
  <2>1. \A r \in Query : at'[r] \in Busy => at[r] \in Busy
    BY <1>1, <1>4 DEF Busy, Running
  <2> QED BY <2>1, <1>2 DEF Connected, connections
<1>7. Placeholders'
  BY <1>1, <1>2, <1>4 DEF Placeholders, Running
<1>8. Pointers'
  BY <1>1, <1>2, <1>4 DEF Pointers, Running, Scanned, connections
<1>9. EntriesStay'
  <2> SUFFICES ASSUME NEW r \in Query, NEW p \in Param, at'[r] \in Running
               PROVE /\ name[r][p] \in DOMAIN table'[Scanned(r)]
                     /\ table'[Scanned(r)][name[r][p]] = <<r, p>>
    BY <1>2 DEF EntriesStay, Scanned, connections
  <2>1. at[r] \in Running /\ Scanned(r) \in Query
    BY <1>1, <1>4 DEF Running, Connected, Busy, Scanned
  <2>2. /\ name[r][p] \in DOMAIN table[Scanned(r)]
        /\ table[Scanned(r)][name[r][p]] = <<r, p>>
    BY <2>1 DEF EntriesStay
  <2> QED BY <2>1, <2>2, <1>3
<1>10. ReadsOwn'
  BY <1>2 DEF ReadsOwn, connections
<1> QED BY <1>5, <1>6, <1>7, <1>8, <1>9, <1>10

\* The entries of the other queries keep their keys, and whoever holds a
\* pointer into the table is marked as overlapped.
LEMMA InsertKeeps ==
  ASSUME IInv, NEW q \in Query, Insert(q) PROVE IInv'
<1> USE DEF IInv
<1>1. PICK S \in SUBSET Param, l \in {"bind", "failed"} :
        /\ Goto(q, l) /\ (l = "bind" => S = Param)
        /\ \/ table' = [table EXCEPT ![uses[q]] = Entries(@, q, S)]
           \/ table' = [table EXCEPT ![uses[q]] = Dropped(Entries(@, q, S))]
  BY DEF Insert
<1>1a. PICK t : /\ table' = [table EXCEPT ![uses[q]] = t]
                /\ t = Entries(table[uses[q]], q, S) \/ t = Dropped(Entries(table[uses[q]], q, S))
  BY <1>1
<1>2. /\ at[q] = "insert" /\ at[q] \in Busy
      /\ overlapped' = overlapped \cup {r \in Query \ {q} : at[r] \in Running /\ uses[r] = uses[q]}
      /\ UNCHANGED <<connections, next, name, pointer, got>>
  BY DEF Insert, Busy
<1>3. PICK i \in 0..1 : place' = [place EXCEPT ![uses[q]] = @ + i]
  BY DEF Insert
<1>4. uses[q] \in Query /\ uses[q] = scan[db[q]]
  BY <1>2 DEF Connected
<1>5. /\ DOMAIN t = {name[q][p] : p \in S} \cup DOMAIN table[uses[q]]
      /\ DOMAIN t \subseteq Nat \ {0}
      /\ \A n \in DOMAIN t : t[n] \in Relation
      /\ \A p \in S : t[name[q][p]] = <<q, p>>
      /\ \A n \in DOMAIN table[uses[q]] : (\A p \in S : n # name[q][p]) => t[n] = table[uses[q]][n]
  <2>1. TypeOK /\ Placeholders /\ at[q] = "insert" /\ uses[q] \in Query
    BY <1>2, <1>4
  <2>2. Holding(t, table[uses[q]], q, S)
    BY <2>1, <1>1a, Entered
  <2> QED BY <2>2 DEF Holding
<1>6. /\ DOMAIN table' = Query
      /\ \A m \in Query : table'[m] = IF m = uses[q] THEN t ELSE table[m]
  BY <1>1a, <1>4 DEF TypeOK
<1>7. /\ at' = [at EXCEPT ![q] = l]
      /\ \A r \in Query : at'[r] = IF r = q THEN l ELSE at[r]
  BY <1>1 DEF Goto, TypeOK
<1>8. TypeOK'
  <2>1. place' \in [Query -> Nat]
    BY <1>3, <1>4 DEF TypeOK
  <2>2. at' \in [Query -> Busy \cup {"open", "ok", "failed"}]
    BY <1>7 DEF TypeOK, Busy, Running
  <2>3. \A m \in Query : /\ DOMAIN table'[m] \subseteq Nat \ {0}
                         /\ \A n \in DOMAIN table'[m] : table'[m][n] \in Relation
    BY <1>5, <1>6 DEF TypeOK
  <2> QED BY <2>1, <2>2, <2>3, <1>2, <1>6 DEF TypeOK, connections
<1>9. Connected'
  <2>1. \A r \in Query : at'[r] \in Busy => at[r] \in Busy
    BY <1>2, <1>7
  <2> QED BY <2>1, <1>2 DEF Connected, connections
<1>10. Placeholders'
  BY <1>2, <1>7 DEF Placeholders, Running
<1>11. Pointers'
  <2>1. ASSUME NEW r \in Query \ {q}, at[r] \in Running, uses[r] = uses[q]
        PROVE db[r] \in Pooled
    <3>1. at[r] \in Busy
      BY <2>1 DEF Busy
    <3>2. scan[db[r]] = scan[db[q]] /\ scan[db[r]] \in Query
      BY <2>1, <3>1, <1>4 DEF Connected
    <3>3. db[r] = db[q] /\ db[q] \in Database
      BY <3>2, ParamAssumption DEF Connected, TypeOK
    <3> QED BY <3>1, <3>3, <1>2 DEF Connected, Database
  <2>2. ASSUME NEW r \in Query, NEW p \in Param, pointer[r][p] # None
        PROVE /\ at'[r] \notin {"open", "normalize", "insert"}
              /\ at'[r] \in Running /\ pointer[r][p] # place'[Scanned(r)] => r \in overlapped'
    <3>1. r # q /\ at'[r] = at[r] /\ at[r] \notin {"open", "normalize", "insert"}
      BY <2>2, <1>2, <1>7 DEF Pointers
    <3>2. ASSUME at[r] \in Running, pointer[r][p] # place'[Scanned(r)] PROVE r \in overlapped'
      <4>1. uses[r] = Scanned(r) /\ Scanned(r) \in Query
        BY <3>2 DEF Connected, Scanned, Busy
      <4>2. CASE uses[r] = uses[q]
        BY <4>2, <3>1, <3>2, <1>2
      <4>3. CASE uses[r] # uses[q]
        <5>1. place'[Scanned(r)] = place[Scanned(r)]
          BY <4>1, <4>3, <1>3 DEF TypeOK
        <5> QED BY <5>1, <2>2, <3>2, <1>2 DEF Pointers
      <4> QED BY <4>2, <4>3
    <3> QED BY <3>1, <3>2
  <2>3. \A r \in overlapped' : db'[r] \in Pooled
    BY <2>1, <1>2 DEF Pointers, connections
  <2> QED BY <2>2, <2>3, <1>2 DEF Pointers, Scanned, connections
<1>12. EntriesStay'
  <2> SUFFICES ASSUME NEW r \in Query, NEW s \in Param, at'[r] \in Running
               PROVE /\ name[r][s] \in DOMAIN table'[Scanned(r)]
                     /\ table'[Scanned(r)][name[r][s]] = <<r, s>>
    BY <1>2 DEF EntriesStay, Scanned, connections
  <2>1. CASE r = q
    <3>1. Scanned(r) = uses[q] /\ S = Param
      BY <2>1, <1>1, <1>4, <1>7 DEF Scanned, Running
    <3>2. table'[Scanned(r)] = t
      BY <3>1, <1>4, <1>6
    <3> QED BY <2>1, <3>1, <3>2, <1>5
  <2>2. CASE r # q
    <3>1. at[r] \in Running /\ at[r] \in Busy
      BY <2>2, <1>7 DEF Busy
    <3>2. \A p \in S : name[r][s] # name[q][p]
      BY <2>2, <3>1 DEF Placeholders
    <3>3. Scanned(r) \in Query
      BY <3>1 DEF Connected, Scanned
    <3>4. /\ name[r][s] \in DOMAIN table[Scanned(r)]
          /\ table[Scanned(r)][name[r][s]] = <<r, s>>
      BY <3>1 DEF EntriesStay
    <3>5. CASE Scanned(r) = uses[q]
      BY <3>2, <3>3, <3>4, <3>5, <1>5, <1>6
    <3>6. CASE Scanned(r) # uses[q]
      BY <3>3, <3>4, <3>6, <1>6
    <3> QED BY <3>5, <3>6
  <2> QED BY <2>1, <2>2
<1>13. ReadsOwn'
  BY <1>2 DEF ReadsOwn, connections
<1> QED BY <1>8, <1>9, <1>10, <1>11, <1>12, <1>13

LEMMA LookupKeeps ==
  ASSUME IInv, NEW q \in Query, NEW p \in Param, Lookup(q, p) PROVE IInv'
<1> USE DEF IInv
<1>1. UNCHANGED <<connections, next, table, place, at, name, got, overlapped>>
  BY DEF Lookup
<1>2. at[q] = "bind" /\ at[q] \in Busy /\ Scanned(q) \in Query
  BY DEF Lookup, Busy, Running, Connected, Scanned
<1>3. place[Scanned(q)] \in Nat
  BY <1>2 DEF TypeOK
<1>4. TypeOK'
  BY <1>3 DEF Lookup, TypeOK, connections
<1>5. Connected' /\ Placeholders' /\ EntriesStay' /\ ReadsOwn'
  BY <1>1 DEF Connected, Placeholders, EntriesStay, ReadsOwn, Scanned, connections
<1>6. Pointers'
  <2>1. \A r \in Query, s \in Param :
          pointer'[r][s] = IF r = q /\ s = p THEN place[Scanned(q)] ELSE pointer[r][s]
    BY DEF Lookup, TypeOK
  <2> QED BY <2>1, <1>1, <1>2 DEF Pointers, Scanned, connections, Running
<1> QED BY <1>4, <1>5, <1>6

\* The entry is the query's own, unless it moved.
LEMMA ReadKeeps ==
  ASSUME IInv, NEW q \in Query, NEW p \in Param, Read(q, p) PROVE IInv'
<1> USE DEF IInv
<1>1. PICK r \in Through(q, p) : got' = [got EXCEPT ![q][p] = r]
  BY DEF Read
<1>2. r = <<q, p>> \/ (r = Wild /\ q \in overlapped /\ db[q] \in Pooled)
  BY <1>1 DEF Read, Through, EntriesStay, Pointers
<1>3. /\ db' = db /\ scan' = scan /\ uses' = uses /\ next' = next /\ table' = table
      /\ place' = place /\ at' = at /\ name' = name /\ pointer' = pointer
      /\ overlapped' = overlapped
  BY DEF Read, connections
<1>4. TypeOK'
  BY <1>1, <1>2, <1>3 DEF TypeOK, Relation
<1>5. Connected' /\ Placeholders' /\ Pointers' /\ EntriesStay'
  <2>1. Connected' /\ Placeholders'
    BY <1>3 DEF Connected, Placeholders
  <2>2. Pointers'
    BY <1>3 DEF Pointers, Scanned
  <2>3. EntriesStay'
    BY <1>3 DEF EntriesStay, Scanned
  <2> QED BY <2>1, <2>2, <2>3
<1>6. ReadsOwn'
  BY <1>1, <1>2, <1>3 DEF TypeOK, ReadsOwn
<1> QED BY <1>4, <1>5, <1>6

\* The invariant holds for any number of queries, parameters and databases.
THEOREM Invariance == Spec => []IInv
<1>1. IInv /\ [Next]_vars => IInv'
  <2> SUFFICES ASSUME IInv, [Next]_vars PROVE IInv'
    OBVIOUS
  <2>1. CASE UNCHANGED vars
    <3>1. /\ db' = db /\ scan' = scan /\ uses' = uses /\ next' = next /\ table' = table
          /\ place' = place /\ at' = at /\ name' = name /\ pointer' = pointer
          /\ got' = got /\ overlapped' = overlapped
      BY <2>1 DEF vars, connections
    <3>2. TypeOK' /\ Connected' /\ Placeholders'
      BY <3>1 DEF IInv, TypeOK, Connected, Placeholders
    <3>3. Pointers' /\ EntriesStay' /\ ReadsOwn'
      BY <3>1 DEF IInv, Pointers, EntriesStay, ReadsOwn, Scanned
    <3> QED BY <3>2, <3>3 DEF IInv
  <2>2. CASE Next
    BY <2>2, OpenKeeps, NumberKeeps, MoveKeeps, InsertKeeps, LookupKeeps, ReadKeeps DEF Next
  <2> QED BY <2>1, <2>2
<1> QED BY <1>1, InitHolds, PTL DEF Spec

\* The connections, the tables of relations, the placeholders and the pointers
\* into the tables keep their types (engine.rs).
THEOREM TypeCorrect == Spec => []TypeOK
<1>1. IInv => TypeOK
  BY DEF IInv
<1> QED BY <1>1, Invariance, PTL

\* The entries of a query that is being bound or run stay in the table that
\* DuckDB is shown for its database (engine.rs, try_clone, eval_in_place and the
\* replacement scan).
THEOREM QueriesFindTheirOwn == Spec => []EntriesStay
<1>1. IInv => EntriesStay
  BY DEF IInv
<1> QED BY <1>1, Invariance, PTL

\* A query reads its own relations, or freed memory when another connection from
\* the pool entered relations while it ran (engine.rs, get_schema and
\* rust_build_array_stream).
THEOREM QueriesReadTheirOwn == Spec => []ReadsOwn
<1>1. IInv => ReadsOwn
  BY DEF IInv
<1> QED BY <1>1, Invariance, PTL

=============================================================================
