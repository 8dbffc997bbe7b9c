------------------------------ MODULE DuckRelations ------------------------------
(***************************************************************************)
(* The relations that queries hand to DuckDB (runtime/duckdb/engine.rs).   *)
(* A database that is opened by a url has a connection in a pool, of which *)
(* every other one is a clone that shares its table of relations; a        *)
(* Context has an embedded database with one connection.  A query enters   *)
(* its relational parameters under placeholders; DuckDB asks               *)
(* replacement_scan_callback for every name it does not know, is given a   *)
(* pointer to the entry, and reads the entry through it twice, for the     *)
(* schema and for the rows, with no lock held.                             *)
(*                                                                         *)
(* A query is one call of eval_in_place.  The entries are stored in the    *)
(* table itself, and move when it grows.                                   *)
(***************************************************************************)
EXTENDS Naturals

CONSTANTS
  Query,     \* calls of eval_in_place
  Pooled,    \* the databases opened by a url: two urls of a file are two of them
  Embedded,  \* the embedded databases
  Param,     \* the names of the relational parameters of each
  Wild,      \* what a read of freed memory may give
  None

ASSUME ParamAssumption ==
  /\ Param \cap Nat = {} /\ Wild \notin Query \X Param
  /\ None \notin (Query \X Param) \cup Nat \cup Query
  /\ Pooled \cap Embedded = {}

VARIABLES
  db,          \* the database of each query
  scan,        \* the table that the callback of each database reads, by its maker
  uses,        \* the table that each query's connection enters relations in
  next,        \* NEXT_DUCKDB_PLACEHOLDER, counted from 1
  table,       \* the RelationMaps: key -> the relation of a query's parameter
  place,       \* how often each table has moved
  at,          \* where each query stands
  name,        \* the placeholder of each parameter, 0 for none
  pointer,     \* the place an entry was found at
  got,         \* what was read of each parameter, last
  overlapped   \* history: queries during which another one changed their table

connections == <<db, scan, uses>>
vars == <<connections, next, table, place, at, name, pointer, got, overlapped>>

Database == Pooled \cup Embedded
Relation == Query \X Param
Running == {"bind", "run"}
Busy == Running \cup {"normalize", "insert"}

TypeOK ==
  /\ db \in [Query -> Database]
  /\ scan \in [Database -> Query \cup {None}] /\ uses \in [Query -> Query \cup {None}]
  /\ next \in Nat \ {0}
  /\ DOMAIN table = Query
  /\ \A m \in Query : /\ DOMAIN table[m] \subseteq Nat \ {0}
                       /\ \A n \in DOMAIN table[m] : table[m][n] \in Relation
  /\ place \in [Query -> Nat]
  /\ at \in [Query -> Busy \cup {"open", "ok", "failed"}]
  /\ name \in [Query -> [Param -> Nat]]
  /\ pointer \in [Query -> [Param -> Nat \cup {None}]]
  /\ got \in [Query -> [Param -> Relation \cup {None, Wild}]]
  /\ overlapped \subseteq Query

\* Tables are numbered by the query that has them made.
Init ==
  /\ db \in [Query -> Database]
  /\ scan = [d \in Database |-> None] /\ uses = [q \in Query |-> None]
  /\ next = 1 /\ table = [m \in Query |-> <<>>] /\ place = [m \in Query |-> 0]
  /\ at = [q \in Query |-> "open"]
  /\ name = [q \in Query |-> [p \in Param |-> 0]]
  /\ pointer = [q \in Query |-> [p \in Param |-> None]]
  /\ got = [q \in Query |-> [p \in Param |-> None]]
  /\ overlapped = {}

Goto(q, l) == at' = [at EXCEPT ![q] = l]

-----------------------------------------------------------------------------
\* The engine of an embedded database belongs to one Context, which evaluates
\* one query at a time.
Free(q) ==
  db[q] \in Embedded => \A r \in Query \ {q} : db[r] = db[q] => at[r] \notin Busy

\* initialize_duckdb_connection: the callback reads the relations of the
\* connection that opened the database.
Installed(q) == IF scan[db[q]] = None THEN [scan EXCEPT ![db[q]] = q] ELSE scan

\* (mutant: a clone has relations of its own)
Unshared(q) == [uses EXCEPT ![q] = q]

\* ExclusiveConnection::try_clone shares the relations.
Cloned(q) == [uses EXCEPT ![q] = Installed(q)[db[q]]]

\* DuckDBEngine::new, under the lock of the pool.
Open(q) ==
  /\ at[q] = "open" /\ Free(q)
  /\ scan' = Installed(q) /\ uses' = Cloned(q)
  /\ Goto(q, "normalize")
  /\ UNCHANGED <<db, next, table, place, name, pointer, got, overlapped>>

\* The database cannot be opened, or the connection in the pool not be cloned.
OpenFails(q) ==
  /\ at[q] = "open"
  /\ scan' \in {scan, Installed(q)}
  /\ Goto(q, "failed")
  /\ UNCHANGED <<db, uses, next, table, place, name, pointer, got, overlapped>>

-----------------------------------------------------------------------------
\* (mutant: each connection counts its own placeholders)
NumberOwn(q, p) ==
  /\ at[q] = "normalize" /\ name[q][p] = 0
  /\ name' = [name EXCEPT ![q][p] = CHOOSE n \in 1..next : \A s \in Param : name[q][s] # n]
  /\ next' = next + 1
  /\ UNCHANGED <<connections, table, place, at, pointer, got, overlapped>>

\* DuckDBNormalizer::new takes a placeholder for each relation, in any order.
Number(q, p) ==
  /\ at[q] = "normalize" /\ name[q][p] = 0
  /\ name' = [name EXCEPT ![q][p] = next]
  /\ next' = next + 1
  /\ UNCHANGED <<connections, table, place, at, pointer, got, overlapped>>

\* LocalRelations::drop removes the names that the parameters had, which are
\* not the keys that the entries were made with.
Dropped(t) == [n \in DOMAIN t \ Param |-> t[n]]

\* A parameter that is a function is an error, before any placeholder is taken.
Reject(q) ==
  /\ at[q] = "normalize" /\ \A p \in Param : name[q][p] = 0
  /\ Goto(q, "failed") /\ table' = [table EXCEPT ![uses[q]] = Dropped(@)]
  /\ UNCHANGED <<connections, next, place, name, pointer, got, overlapped>>

Normalized(q) ==
  /\ at[q] = "normalize" /\ \A p \in Param : name[q][p] # 0
  /\ Goto(q, "insert")
  /\ UNCHANGED <<connections, next, table, place, name, pointer, got, overlapped>>

\* A table with the entries of some of a query's parameters.
Entries(t, q, S) ==
  [n \in {name[q][p] : p \in S} \cup DOMAIN t |->
     IF \E p \in S : name[q][p] = n THEN <<q, CHOOSE p \in S : name[q][p] = n>> ELSE t[n]]

\* The parameters are inserted with the table locked, which may have to grow;
\* the type of one of them may have no Arrow schema, and those before it stay.
Insert(q) ==
  /\ at[q] = "insert"
  /\ \E n \in 0..1 : place' = [place EXCEPT ![uses[q]] = @ + n]
  /\ overlapped' = overlapped \cup {r \in Query \ {q} : at[r] \in Running /\ uses[r] = uses[q]}
  /\ \/ Goto(q, "bind") /\ table' = [table EXCEPT ![uses[q]] = Entries(@, q, Param)]
     \/ \E S \in SUBSET Param :
          /\ S # Param /\ Goto(q, "failed")
          /\ table' = [table EXCEPT ![uses[q]] = Dropped(Entries(@, q, S))]
  /\ UNCHANGED <<connections, next, name, pointer, got>>

\* The table that DuckDB is shown while it binds and runs a query.
Scanned(q) == scan[db[q]]

\* replacement_scan_callback: DuckDB binds a name and is given a pointer.
Lookup(q, p) ==
  /\ at[q] = "bind"
  /\ name[q][p] \in DOMAIN table[Scanned(q)]
  /\ pointer' = [pointer EXCEPT ![q][p] = place[Scanned(q)]]
  /\ UNCHANGED <<connections, next, table, place, at, name, got, overlapped>>

\* What is read through a pointer: the entry, if the table has not moved.
Through(q, p) ==
  {table[Scanned(q)][name[q][p]]} \cup (IF pointer[q][p] = place[Scanned(q)] THEN {} ELSE {Wild})

\* get_schema while the names are bound, rust_build_array_stream when the
\* query runs; a prepared query has found all of its names.
Read(q, p) ==
  /\ at[q] \in Running /\ pointer[q][p] # None
  /\ \E r \in Through(q, p) : got' = [got EXCEPT ![q][p] = r]
  /\ UNCHANGED <<connections, next, table, place, at, name, pointer, overlapped>>

Prepared(q) ==
  /\ at[q] = "bind" /\ \A p \in Param : got[q][p] # None
  /\ Goto(q, "run")
  /\ UNCHANGED <<connections, next, table, place, name, pointer, got, overlapped>>

\* The query ends, with its rows or an error.
End(q) ==
  /\ at[q] \in Running
  /\ \/ at[q] = "run" /\ Goto(q, "ok")
     \/ Goto(q, "failed")
  /\ table' = [table EXCEPT ![uses[q]] = Dropped(@)]
  /\ UNCHANGED <<connections, next, place, name, pointer, got, overlapped>>

Next ==
  \E q \in Query :
    \/ Open(q) \/ OpenFails(q)
    \/ Reject(q) \/ Normalized(q) \/ Insert(q) \/ Prepared(q) \/ End(q)
    \/ \E p \in Param : Number(q, p) \/ Lookup(q, p) \/ Read(q, p)

Spec == Init /\ [][Next]_vars

-----------------------------------------------------------------------------
\* DuckDB finds each relation of a query that is being bound or run, and it is
\* that query's own, whatever other connections enter and remove meanwhile.
EntriesStay ==
  \A q \in Query, p \in Param : at[q] \in Running =>
    /\ name[q][p] \in DOMAIN table[Scanned(q)]
    /\ table[Scanned(q)][name[q][p]] = <<q, p>>

\* A query never reads the relation of another one, and reads freed memory
\* only when, while it was running, another connection to a database that was
\* opened by the same url entered relations.
ReadsOwn ==
  \A q \in Query, p \in Param :
    \/ got[q][p] \in {None, <<q, p>>}
    \/ got[q][p] = Wild /\ q \in overlapped /\ db[q] \in Pooled

-----------------------------------------------------------------------------
\* The inductive invariant behind EntriesStay and ReadsOwn.

\* A query's connection enters relations where its database looks for them;
\* databases do not share a table; an embedded one runs one query at a time.
Connected ==
  /\ \A q \in Query : at[q] \in Busy => scan[db[q]] \in Query /\ uses[q] = scan[db[q]]
  /\ \A d \in Database : scan[d] # None => db[scan[d]] = d
  /\ \A q, r \in Query :
       db[q] = db[r] /\ db[q] \in Embedded /\ at[q] \in Busy /\ at[r] \in Busy => q = r

\* Placeholders are never given twice.
Placeholders ==
  /\ \A q \in Query, p \in Param : name[q][p] < next
  /\ \A q, r \in Query, p, s \in Param :
       name[q][p] = name[r][s] /\ name[q][p] # 0 => <<q, p>> = <<r, s>>
  /\ \A q \in Query : at[q] \in Running \cup {"insert"} => \A p \in Param : name[q][p] # 0

\* A pointer is stale only if another connection changed the table since.
Pointers ==
  /\ \A q \in overlapped : db[q] \in Pooled
  /\ \A q \in Query, p \in Param :
       pointer[q][p] # None =>
         /\ at[q] \notin {"open", "normalize", "insert"}
         /\ at[q] \in Running /\ pointer[q][p] # place[Scanned(q)] => q \in overlapped

IInv == TypeOK /\ Connected /\ Placeholders /\ Pointers /\ EntriesStay /\ ReadsOwn

=============================================================================
