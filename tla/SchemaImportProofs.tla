--------------------------- MODULE SchemaImportProofs ---------------------------
(* The properties of SchemaImport and SchemaMeaning, for any files, texts   *)
(* and session.  A call is innermost in stack[1], and most steps change     *)
(* only that call.                                                          *)
EXTENDS SchemaMeaning, WellFoundedInduction, TLAPS

LEMMA Replaced ==
  ASSUME NEW S, NEW s \in Seq(S), s # <<>>, NEW f \in S
  PROVE LET t == <<f>> \o Tail(s) IN
        /\ t \in Seq(S) /\ Len(t) = Len(s) /\ t # <<>>
        /\ \A j \in 1..Len(t) : t[j] = IF j = 1 THEN f ELSE s[j]
  OBVIOUS

LEMMA Pushed ==
  ASSUME NEW S, NEW s \in Seq(S), NEW f \in S
  PROVE LET t == <<f>> \o s IN
        /\ t \in Seq(S) /\ Len(t) = Len(s) + 1 /\ t # <<>>
        /\ \A j \in 1..Len(t) : t[j] = IF j = 1 THEN f ELSE s[j - 1]
  OBVIOUS

LEMMA Tailed ==
  ASSUME NEW S, NEW s \in Seq(S), s # <<>>
  PROVE /\ Tail(s) \in Seq(S) /\ Len(Tail(s)) = Len(s) - 1
        /\ Len(s) > 1 => Tail(s) # <<>>
        /\ \A j \in 1..Len(Tail(s)) : Tail(s)[j] = s[j + 1]
<1>1. /\ Tail(s) \in Seq(S) /\ Len(Tail(s)) = Len(s) - 1
      /\ \A j \in 1..Len(Tail(s)) : Tail(s)[j] = s[j + 1]
  OBVIOUS
<1>2. ASSUME Len(s) > 1, Tail(s) = <<>> PROVE FALSE
  <2>1. PICK n \in Nat : n = Len(s)
    OBVIOUS
  <2>2. n - 1 # 0
    BY <1>2, <2>1
  <2>3. Len(<<>>) = 0
    OBVIOUS
  <2> QED BY Zenon, <1>1, <1>2, <2>1, <2>2, <2>3
<1> QED BY <1>1, <1>2

\* The innermost call and its schema.
LEMMA TopFacts ==
  ASSUME IInv, stack # <<>>
  PROVE /\ Top \in CallType /\ Top = stack[1] /\ Len(stack) \in Nat \ {0}
        /\ Top.at \in 1..Len(schemas) /\ Len(schemas) \in 1..MaxSchema
        /\ Here \in SchemaType /\ LookingAt(Top) /\ HasDeclared(Top)
<1>1. stack \in Seq(CallType) /\ Top = stack[1] /\ Len(stack) \in Nat \ {0}
  BY DEF IInv, TypeOK, Top
<1>2. Top \in CallType
  BY <1>1
<1>3. LookingAt(Top) /\ HasDeclared(Top)
  BY <1>1 DEF IInv, Calls
<1>4. Top.at \in 1..Len(schemas) /\ Len(schemas) \in 1..MaxSchema
  <2>1. Top.at \in 1..MaxSchema
    BY <1>2 DEF CallType
  <2> QED BY <1>1, <2>1 DEF IInv, TypeOK
<1>5. Here \in SchemaType
  BY <1>4 DEF IInv, TypeOK, Here
<1> QED BY <1>1, <1>2, <1>3, <1>4, <1>5

LEMMA StackFacts ==
  ASSUME IInv, NEW j \in 1..Len(stack)
  PROVE stack[j] \in CallType /\ stack[j].at \in 1..Len(schemas) /\ stack[j].by \in 0..MaxSchema
<1>1. stack[j] \in CallType
  BY DEF IInv, TypeOK
<1>2. stack[j].at \in 1..MaxSchema /\ stack[j].by \in 0..MaxSchema
  BY <1>1 DEF CallType
<1>3. stack[j].at <= Len(schemas) /\ Len(schemas) \in 1..MaxSchema
  BY DEF IInv, TypeOK
<1> QED BY <1>1, <1>2, <1>3

LEMMA SchemaFacts ==
  ASSUME IInv, NEW c \in 1..Len(schemas)
  PROVE /\ schemas[c] \in SchemaType /\ schemas[c].file \in File /\ schemas[c].path \in Name
        /\ schemas[c].by \in 0..MaxSchema /\ schemas[c].imports \in [Name -> 0..MaxSchema]
        /\ schemas[c].decls \subseteq Decl
        /\ \A x \in Name : schemas[c].imports[x] \in 0..Len(schemas)
        /\ \A x \in Name : schemas[c].imports[x] # 0 => schemas[c].imports[x] > c
<1>1. schemas[c] \in SchemaType
  BY DEF IInv, TypeOK
<1>2. /\ schemas[c].file \in File /\ schemas[c].path \in Name
      /\ schemas[c].by \in 0..MaxSchema /\ schemas[c].imports \in [Name -> 0..MaxSchema]
      /\ schemas[c].decls \subseteq Decl
  BY <1>1 DEF SchemaType
<1>3. Len(schemas) \in 1..MaxSchema
  BY DEF IInv, TypeOK
<1>4. ASSUME NEW x \in Name, schemas[c].imports[x] # 0
      PROVE schemas[c].imports[x] \in 1..Len(schemas) /\ schemas[c].imports[x] > c
  <2> DEFINE d == schemas[c].imports[x]
  <2>1. d \in 1..Len(schemas) /\ d # c /\ schemas[d].by = c
    BY <1>4 DEF IInv, ImportsAreSound
  <2> HIDE DEF d
  <2>2. d # 1
    BY <2>1 DEF IInv, Parents
  <2>3. c \in 1..(d - 1)
    BY <2>1, <2>2, <1>3 DEF IInv, Parents
  <2> QED BY <2>1, <2>3 DEF d
<1> QED BY <1>1, <1>2, <1>3, <1>4

LEMMA ImportFacts ==
  ASSUME IInv, NEW c \in 1..Len(schemas), NEW x \in Name, NEW d \in Nat,
         d = schemas[c].imports[x], d # 0
  PROVE /\ d \in 1..Len(schemas) /\ d # c
        /\ schemas[d].file = Resolves[schemas[c].file][x]
        /\ schemas[d].by = c /\ schemas[d].path = x /\ schemas[d].result = "ok"
        /\ \A j \in 1..Len(stack) : stack[j].at # d
  BY DEF IInv, ImportsAreSound

\* The schemas are as before, but for declarations added to some.
Grown ==
    /\ schemas' \in Seq(SchemaType) /\ Len(schemas') = Len(schemas)
    /\ \A c \in 1..Len(schemas) :
         /\ schemas'[c].file = schemas[c].file /\ schemas'[c].by = schemas[c].by
         /\ schemas'[c].path = schemas[c].path /\ schemas'[c].imports = schemas[c].imports
         /\ schemas'[c].result = schemas[c].result
         /\ schemas[c].decls \subseteq schemas'[c].decls

LEMMA CallsKept ==
  ASSUME Grown, NEW f \in CallType, f.at \in 1..Len(schemas), LookingAt(f), HasDeclared(f)
  PROVE LookingAt(f)' /\ HasDeclared(f)'
<1>1. ASSUME NEW k, NEW x, Has(f.at, k, x) PROVE Has(f.at, k, x)'
  BY <1>1 DEF Has, Grown
<1>2. LookingAt(f)'
  BY DEF LookingAt, Grown
<1>3. HasDeclared(f)'
  BY <1>1 DEF HasDeclared
<1> QED BY <1>2, <1>3

LEMMA ParentOfCall ==
  ASSUME IInv, NEW j \in 1..Len(stack), j # Len(stack)
  PROVE stack[j].by \in 1..(stack[j].at - 1) /\ stack[j].by \in 1..Len(schemas)
<1>1. stack[j].at \in 1..Len(schemas) /\ Len(schemas) \in Nat
  BY StackFacts DEF IInv, TypeOK
<1>2. stack[j].at > 1 /\ stack[j].by = schemas[stack[j].at].by
  BY DEF IInv, Nested
<1>3. schemas[stack[j].at].by \in 1..(stack[j].at - 1)
  BY <1>1, <1>2 DEF IInv, Parents
<1> QED BY <1>1, <1>2, <1>3

\* A step of the innermost call alone.
LEMMA TopMoves ==
  ASSUME IInv, stack # <<>>, NEW f \in CallType, Becomes(f), Grown,
         f.at = Top.at, f.by = Top.by, f.path = Top.path,
         LookingAt(f)', HasDeclared(f)'
  PROVE /\ stack' \in Seq(CallType) /\ \A j \in 1..Len(stack') : stack'[j].at <= Len(schemas')
        /\ ImportsAreSound' /\ Parents' /\ Nested' /\ Calls'
<1>1. /\ stack' \in Seq(CallType) /\ Len(stack') = Len(stack)
      /\ \A j \in 1..Len(stack) : stack'[j] = IF j = 1 THEN f ELSE stack[j]
  BY Replaced DEF Becomes, IInv, TypeOK
<1>2. \A j \in 1..Len(stack) : /\ stack'[j].at = stack[j].at /\ stack'[j].by = stack[j].by
                               /\ stack'[j].path = stack[j].path
                               /\ stack[j].at \in 1..Len(schemas)
  BY <1>1, StackFacts, TopFacts
<1>3. \A j \in 1..Len(stack') : stack'[j].at <= Len(schemas')
  BY <1>1, <1>2 DEF Grown, IInv, TypeOK
<1>4. ImportsAreSound'
  <2>1. SUFFICES ASSUME NEW c \in 1..Len(schemas), NEW x \in Name, schemas'[c].imports[x] # 0
        PROVE LET d == schemas'[c].imports[x] IN
              /\ d \in 1..Len(schemas) /\ d # c
              /\ schemas'[d].file = Resolves[schemas'[c].file][x]
              /\ schemas'[d].by = c /\ schemas'[d].path = x
              /\ schemas'[d].result = "ok"
              /\ \A j \in 1..Len(stack) : stack'[j].at # d
    BY <1>1 DEF ImportsAreSound, Grown
  <2> QED BY SMTT(60), <2>1, <1>2 DEF IInv, ImportsAreSound, Grown
<1>5. Parents'
  <2>1. \A c \in 2..Len(schemas) : schemas[c].by \in 1..Len(schemas)
    BY DEF IInv, TypeOK, Parents
  <2>2. 1 \in 1..Len(schemas) /\ Len(schemas) \in Nat
    BY DEF IInv, TypeOK
  <2>3. schemas'[1].by = 0
    BY <2>2 DEF IInv, Parents, Grown
  <2>4. ASSUME NEW c \in 2..Len(schemas)
        PROVE /\ schemas'[c].by \in 1..(c - 1)
              /\ schemas'[c].file = Resolves[schemas'[schemas'[c].by].file][schemas'[c].path]
              /\ schemas'[c].result = "ok" => schemas'[schemas'[c].by].imports[schemas'[c].path] = c
    <3>1. c \in 1..Len(schemas)
      BY <2>2
    <3> QED BY SMTT(60), <2>1, <3>1 DEF IInv, Parents, Grown
  <2> QED BY <2>3, <2>4 DEF Parents, Grown
<1>6. Nested'
  <2>1. \A j \in 1..Len(stack) : j # Len(stack) => stack[j].by \in 1..Len(schemas)
    BY ParentOfCall
  <2>2. \A i, j \in 1..Len(stack) : i < j => stack'[i].at > stack'[j].at
    BY <1>2 DEF IInv, Nested
  <2>3. ASSUME NEW j \in 1..Len(stack)
        PROVE IF j = Len(stack) THEN stack'[j].at = 1 /\ stack'[j].by = 0
              ELSE /\ stack'[j].at > 1 /\ stack'[j].by >= stack'[j + 1].at
                   /\ stack'[j].by = schemas'[stack'[j].at].by
                   /\ stack'[j].path = schemas'[stack'[j].at].path
                   /\ schemas'[stack'[j].at].result = "open"
                   /\ schemas'[stack'[j].by].imports[stack'[j].path] = 0
    <3>1. CASE j = Len(stack)
      BY <3>1, <1>2 DEF IInv, Nested
    <3>2. CASE j # Len(stack)
      <4>1. j + 1 \in 1..Len(stack)
        BY <3>2, TopFacts
      <4>2. stack'[j + 1].at = stack[j + 1].at
        BY <4>1, <1>2
      <4>3. /\ stack[j].at > 1 /\ stack[j].by >= stack[j + 1].at
            /\ stack[j].by = schemas[stack[j].at].by
            /\ stack[j].path = schemas[stack[j].at].path
            /\ schemas[stack[j].at].result = "open"
            /\ schemas[stack[j].by].imports[stack[j].path] = 0
        BY <3>2 DEF IInv, Nested
      <4>4. /\ stack'[j].at = stack[j].at /\ stack'[j].by = stack[j].by
            /\ stack'[j].path = stack[j].path
            /\ stack[j].at \in 1..Len(schemas) /\ stack[j].by \in 1..Len(schemas)
        BY <3>2, <1>2, <2>1
      <4>5. /\ schemas'[stack[j].at].by = schemas[stack[j].at].by
            /\ schemas'[stack[j].at].path = schemas[stack[j].at].path
            /\ schemas'[stack[j].at].result = schemas[stack[j].at].result
            /\ schemas'[stack[j].by].imports = schemas[stack[j].by].imports
        BY SMTT(60), <4>4 DEF Grown
      <4> QED BY <3>2, <4>2, <4>3, <4>4, <4>5
    <3> QED BY <3>1, <3>2
  <2> QED BY <1>1, <2>2, <2>3 DEF Nested
<1>7. Calls'
  <2>1. ASSUME NEW j \in 1..Len(stack)
        PROVE LookingAt(stack[j])' /\ HasDeclared(stack[j])'
    <3>1. PICK g \in CallType : g = IF j = 1 THEN f ELSE stack[j]
      BY StackFacts
    <3>2. g = stack'[j]
      BY <1>1, <3>1
    <3>3. LookingAt(g)' /\ HasDeclared(g)'
      BY <3>1, StackFacts, CallsKept DEF IInv, Calls
    <3> QED BY ZenonT(60), <3>2, <3>3 DEF LookingAt, HasDeclared
  <2> QED BY <1>1, <2>1 DEF Calls
<1> QED BY <1>1, <1>3, <1>4, <1>5, <1>6, <1>7

LEMMA QuietStep ==
  ASSUME IInv, stack # <<>>, NEW f \in CallType, Becomes(f), UNCHANGED <<schemas, inputs>>,
         text' \in [File -> Program \cup {Missing, Broken, Unread}],
         val' \in [Cell -> Cell \cup Lit], late' \in BOOLEAN,
         f.at = Top.at, f.by = Top.by, f.path = Top.path, LookingAt(f), HasDeclared(f)
  PROVE IInv'
<1>1. Grown
  BY DEF IInv, TypeOK, Grown
<1>2. LookingAt(f)' /\ HasDeclared(f)'
  BY <1>1, TopFacts, CallsKept
<1>3. /\ stack' \in Seq(CallType) /\ \A j \in 1..Len(stack') : stack'[j].at <= Len(schemas')
      /\ ImportsAreSound' /\ Parents' /\ Nested' /\ Calls'
  BY <1>1, <1>2, TopMoves
<1>4. TypeOK'
  BY <1>3 DEF IInv, TypeOK
<1> QED BY <1>3, <1>4 DEF IInv

\* The types of the fields of a call, and that of a call with some of them changed.
LEMMA CallFields ==
  ASSUME NEW f \in CallType
  PROVE /\ f.at \in 1..MaxSchema /\ f.by \in 0..MaxSchema /\ f.path \in Name /\ f.prog \in Program
        /\ f.phase \in {"declare", "compile", "gather"} /\ f.n \in Nat \ {0}
        /\ f.step \in {"start", "items", "add"} /\ f.item \in Nat \ {0} /\ f.k \in 1..3
        /\ f.got \subseteq EntryType /\ f.found \in BOOLEAN /\ f.missed \in BOOLEAN
        /\ f.look \in LookType /\ f.errs \subseteq Nat
  BY DEF CallType

LEMMA NextCall ==
  ASSUME NEW f \in CallType, NEW n \in Nat \ {0}, NEW item \in Nat \ {0}, NEW k \in 1..3,
         NEW look \in LookType, NEW errs \in SUBSET Nat
  PROVE [f EXCEPT !.n = n, !.step = "start", !.item = item, !.k = k, !.got = {},
                  !.found = FALSE, !.missed = FALSE, !.look = look, !.errs = errs] \in CallType
  BY ZenonT(60) DEF CallType

LEMMA StatementDone ==
  ASSUME IInv, stack # <<>>, NEW errs \in SUBSET Nat, NextStatement(errs),
         UNCHANGED <<text, schemas, inputs>>,
         val' \in [Cell -> Cell \cup Lit], late' \in BOOLEAN,
         Top.phase = "declare" /\ Top.n <= Len(Top.prog) /\ Stmt.op = "def"
           => Has(Top.at, Stmt.kind, Stmt.name)
  PROVE IInv'
<1> DEFINE f == [Top EXCEPT !.n = @ + 1, !.step = "start", !.item = 1, !.k = 1, !.got = {},
                            !.found = FALSE, !.missed = FALSE, !.look = Idle,
                            !.errs = @ \cup errs]
<1>1. f \in CallType
  <2>1. Top \in CallType
    BY TopFacts
  <2>2. Idle \in LookType
    BY DEF LookType
  <2>3. Top.n \in Nat \ {0} /\ Top.errs \subseteq Nat
    BY <2>1, CallFields
  <2>4. Top.n + 1 \in Nat \ {0}
    BY <2>3
  <2>5. Top.errs \cup errs \in SUBSET Nat
    BY <2>3
  <2>6. 1 \in Nat \ {0} /\ 1 \in 1..3
    OBVIOUS
  <2> QED BY <2>1, <2>2, <2>4, <2>5, <2>6, NextCall
<1>2. /\ f.at = Top.at /\ f.by = Top.by /\ f.path = Top.path /\ f.prog = Top.prog
      /\ f.phase = Top.phase /\ f.step = "start" /\ f.look.st = "idle" /\ f.n = Top.n + 1
  BY TopFacts DEF CallType, Idle
<1>3. Becomes(f)
  BY DEF NextStatement
<1> HIDE DEF f
<1>4. LookingAt(f)
  BY <1>2 DEF LookingAt
<1>5. HasDeclared(f)
  <2>1. Top.n \in Nat \ {0}
    BY TopFacts, CallFields
  <2> QED BY <1>2, <2>1, TopFacts DEF HasDeclared, Stmt
<1> QED BY <1>1, <1>2, <1>3, <1>4, <1>5, QuietStep DEF IInv, TypeOK

LEMMA Answered ==
  ASSUME IInv, stack # <<>>, NEW a \in LookType, Answer(a),
         UNCHANGED <<text, schemas, val, inputs, late>>,
         a.st = "going" => a.at \in Top.at..Len(schemas) /\ a.i \in 1..Len(a.path),
         Top.phase = "compile" /\ a.st \in {"going", "found"} =>
           Top.n <= Len(Top.prog) /\ Stmt.op = "def" /\ a.kind = Stmt.kind,
         Top.phase = "declare" /\ a.st # "idle" =>
           Top.step = "items" /\ Top.item <= Len(Stmt.items)
  PROVE IInv'
<1> DEFINE f == [Top EXCEPT !.look = a, !.missed = FALSE]
<1>1. f \in CallType
  BY TopFacts DEF CallType
<1>2. /\ f.at = Top.at /\ f.by = Top.by /\ f.path = Top.path /\ f.prog = Top.prog
      /\ f.phase = Top.phase /\ f.step = Top.step /\ f.look = a /\ f.n = Top.n /\ f.got = Top.got
      /\ f.item = Top.item
  BY TopFacts DEF CallType
<1>3. Becomes(f)
  BY DEF Answer
<1> HIDE DEF f
<1>4. LookingAt(f)
  BY <1>2, TopFacts DEF LookingAt, Stmt
<1>5. HasDeclared(f)
  BY <1>2, TopFacts DEF HasDeclared
<1> QED BY <1>1, <1>2, <1>3, <1>4, <1>5, QuietStep DEF IInv, TypeOK

\* Where a lookup is.
LEMMA LookFacts ==
  ASSUME IInv, Looking
  PROVE /\ stack # <<>> /\ Look.kind \in Kind /\ Look.path \in Seq(Name) /\ Look.global \in BOOLEAN
        /\ Look.at \in Top.at..Len(schemas) /\ Look.at \in 1..Len(schemas)
        /\ Look.i \in 1..Len(Look.path) /\ Ident \in Name
        /\ Look \in [st : {"going"}, kind : Kind, path : Seq(Name), global : BOOLEAN,
                     at : 1..MaxSchema, i : Nat \ {0}]
        /\ Top.phase = "compile" =>
             Top.n <= Len(Top.prog) /\ Stmt.op = "def" /\ Look.kind = Stmt.kind
        /\ Top.phase = "declare" => Top.step = "items" /\ Top.item <= Len(Stmt.items)
        /\ \A k : \A d \in Matches(k) : d \in Decl /\ d.kind = k
<1>1. stack # <<>> /\ Look.st = "going"
  BY DEF Looking, Look
<1>2. Look \in LookType /\ Top.at \in 1..Len(schemas) /\ Len(schemas) \in 1..MaxSchema
  BY <1>1, TopFacts, CallFields DEF Look
<1>3. Look \in [st : {"going"}, kind : Kind, path : Seq(Name), global : BOOLEAN,
                at : 1..MaxSchema, i : Nat \ {0}]
  BY <1>1, <1>2 DEF LookType, Idle, NoSuchEntry
<1>4. /\ Look.kind \in Kind /\ Look.path \in Seq(Name) /\ Look.global \in BOOLEAN
  BY <1>3
<1>5. Look.at \in Top.at..Len(schemas) /\ Look.i \in 1..Len(Look.path)
  BY <1>1, TopFacts DEF LookingAt, Look
<1>6. Look.at \in 1..Len(schemas) /\ Ident \in Name
  BY <1>2, <1>4, <1>5 DEF Ident
<1>7. Top.phase = "compile" =>
        Top.n <= Len(Top.prog) /\ Stmt.op = "def" /\ Look.kind = Stmt.kind
  BY <1>1, TopFacts DEF LookingAt, Look, Stmt
<1>8. Top.phase = "declare" => Top.step = "items" /\ Top.item <= Len(Stmt.items)
  BY <1>1, TopFacts DEF LookingAt, Look, Stmt
<1>9. \A k : \A d \in Matches(k) : d \in Decl /\ d.kind = k
  BY <1>6, SchemaFacts DEF Matches
<1> QED BY <1>1, <1>3, <1>4, <1>5, <1>6, <1>7, <1>8, <1>9

LEMMA DeclFields ==
  ASSUME NEW d \in Decl
  PROVE /\ d.kind \in Kind /\ d.name \in Name /\ d.public \in BOOLEAN /\ d.extern \in BOOLEAN
        /\ d.kind = "schema" => d.value \in Name
        /\ d.kind # "schema" => d.kind \in {"type", "expr"} /\ d.value \in Cell \cup Lit
        /\ Found(d.kind, d.value) \in LookType
<1>1. CASE d \in [kind : {"schema"}, name : Name, public : BOOLEAN, extern : BOOLEAN, value : Name]
  BY <1>1 DEF Kind, Found, LookType
<1>2. CASE d \in [kind : {"type", "expr"}, name : Name, public : BOOLEAN, extern : BOOLEAN,
                  value : Cell \cup Lit]
  BY <1>2 DEF Kind, Found, LookType
<1> QED BY <1>1, <1>2 DEF Decl

LEMMA NoEntry == NoSuchEntry \in LookType /\ NoSuchEntry.st = "error"
  BY DEF NoSuchEntry, LookType

LEMMA LookFindsKeeps == IInv /\ LookFinds => IInv'
<1> SUFFICES ASSUME IInv, LookFinds PROVE IInv'
  OBVIOUS
<1>1. Looking /\ UNCHANGED <<text, schemas, val, inputs, late>>
  BY DEF LookFinds
<1>2. PICK d \in Matches(Look.kind) :
        Answer(IF Visible(d) /\ Look.i = Len(Look.path)
               THEN Found(d.kind, d.value) ELSE NoSuchEntry)
  BY DEF LookFinds
<1>3. d \in Decl /\ d.kind = Look.kind
  BY <1>1, LookFacts
<1>4. Found(d.kind, d.value) \in LookType
  BY <1>3, DeclFields
<1>5. Found(d.kind, d.value).st = "found" /\ Found(d.kind, d.value).kind = Look.kind
  BY <1>3 DEF Found
<1>6. CASE Visible(d) /\ Look.i = Len(Look.path)
  BY <1>1, <1>2, <1>4, <1>5, <1>6, LookFacts, Answered
<1>7. CASE ~(Visible(d) /\ Look.i = Len(Look.path))
  BY <1>1, <1>2, <1>7, LookFacts, NoEntry, Answered
<1> QED BY <1>6, <1>7

LEMMA LookFallsBackKeeps == IInv /\ LookFallsBack => IInv'
<1> SUFFICES ASSUME IInv, LookFallsBack PROVE IInv'
  OBVIOUS
<1> DEFINE b == [kind |-> Look.kind, name |-> Ident]
<1>1. /\ Looking /\ UNCHANGED <<text, schemas, val, inputs, late>>
      /\ Answer(IF Look.global /\ b \in Builtin /\ Look.i = Len(Look.path)
                THEN Found(b.kind, b) ELSE NoSuchEntry)
  BY DEF LookFallsBack
<1>2. CASE b \in Builtin /\ Answer(Found(b.kind, b))
  <2>1. b.kind = Look.kind
    OBVIOUS
  <2>2. b \in Lit /\ b \in [kind : {"type", "expr"}, name : Name]
    BY <1>2, ImportAssumption
  <2>3. b \in Lit /\ b.kind \in {"type", "expr"}
    BY <2>2
  <2> HIDE DEF b
  <2>4. Found(b.kind, b) \in LookType /\ Found(b.kind, b).st = "found" /\ Found(b.kind, b).kind = b.kind
    BY <2>3 DEF Found, LookType
  <2> QED BY <1>1, <1>2, <2>1, <2>4, LookFacts, Answered
<1>3. CASE Answer(NoSuchEntry)
  BY <1>1, <1>3, LookFacts, NoEntry, Answered
<1> QED BY <1>1, <1>2, <1>3

-------------------------------------------------------------------------------
LEMMA NewCall ==
  ASSUME NEW s \in 1..MaxSchema, NEW prog \in Program, NEW by \in 0..MaxSchema, NEW path \in Name
  PROVE LET f == Call(s, prog, by, path) IN
        /\ f \in CallType /\ f.at = s /\ f.by = by /\ f.path = path /\ f.prog = prog
        /\ f.phase = "declare" /\ f.n = 1 /\ f.step = "start" /\ f.look = Idle
        /\ f.item = 1 /\ f.k = 1 /\ f.got = {} /\ f.errs = {}
<1>1. Idle \in LookType /\ 1 \in Nat \ {0} /\ 1 \in 1..3
  BY DEF LookType
<1>2. ASSUME NEW one, one \in Nat \ {0} /\ one \in 1..3
      PROVE LET f == [at |-> s, by |-> by, path |-> path, prog |-> prog, phase |-> "declare",
                      n |-> one, step |-> "start", item |-> one, k |-> one, got |-> {},
                      found |-> FALSE, missed |-> FALSE, look |-> Idle, errs |-> {}] IN
            /\ f \in CallType /\ f.at = s /\ f.by = by /\ f.path = path /\ f.prog = prog
            /\ f.phase = "declare" /\ f.n = one /\ f.step = "start" /\ f.look = Idle
            /\ f.item = one /\ f.k = one /\ f.got = {} /\ f.errs = {}
  BY <1>1, <1>2 DEF CallType
<1> QED BY <1>1, <1>2 DEF Call

LEMMA FreshSchema ==
  ASSUME NEW f \in File, NEW by \in 0..MaxSchema, NEW path \in Name, NEW said \in Seq(Program)
  PROVE LET new == [NewSchema(f, by, path) EXCEPT !.said = said] IN
        /\ new \in SchemaType
        /\ new.file = f /\ new.by = by /\ new.path = path /\ new.result = "open" /\ new.decls = {}
        /\ new.said = said /\ \A y \in Name : new.imports[y] = 0
<1>1. ASSUME NEW none, none = [y \in Name |-> 0]
      PROVE LET new == [[file |-> f, by |-> by, path |-> path, decls |-> {}, said |-> <<>>,
                         imports |-> none, result |-> "open"] EXCEPT !.said = said] IN
            /\ new \in SchemaType
            /\ new.file = f /\ new.by = by /\ new.path = path /\ new.result = "open"
            /\ new.decls = {} /\ new.imports = none /\ new.said = said
  <2>1. none \in [Name -> 0..MaxSchema]
    BY <1>1, ImportAssumption
  <2> QED BY <2>1 DEF SchemaType, Results
<1> QED BY <1>1 DEF NewSchema

\* A call is made, for a schema that did not exist before.
LEMMA PushKeeps ==
  ASSUME IInv, stack # <<>>, NEW c \in Top.at..Len(schemas), NEW x \in Name,
         schemas[c].imports[x] = 0, NEW s \in 1..MaxSchema, s = Len(schemas) + 1,
         NEW new \in SchemaType, new.file = Resolves[schemas[c].file][x], new.by = c,
         new.path = x, new.result = "open", \A y \in Name : new.imports[y] = 0,
         NEW call \in CallType, call.at = s, call.by = c, call.path = x,
         call.phase = "declare", call.n = 1, call.step = "start", call.look = Idle,
         schemas' = Append(schemas, new), stack' = <<call>> \o stack,
         UNCHANGED <<val, inputs, late>>,
         text' \in [File -> Program \cup {Missing, Broken, Unread}]
  PROVE IInv'
<1>1. /\ c \in 1..Len(schemas) /\ Len(schemas) \in Nat \ {0} /\ Len(schemas) \in 1..MaxSchema
      /\ Len(stack) \in Nat \ {0} /\ Top = stack[1] /\ schemas \in Seq(SchemaType)
      /\ c >= stack[1].at /\ s \in Nat \ {0, 1}
  BY TopFacts DEF IInv, TypeOK
<1>2. /\ schemas' \in Seq(SchemaType) /\ Len(schemas') = s /\ schemas'[s] = new
      /\ \A d \in 1..Len(schemas) : schemas'[d] = schemas[d]
  BY <1>1
<1>3. /\ stack' \in Seq(CallType) /\ Len(stack') = Len(stack) + 1
      /\ \A j \in 1..Len(stack') : stack'[j] = IF j = 1 THEN call ELSE stack[j - 1]
  BY Pushed DEF IInv, TypeOK
<1>4. stack'[1] = call /\ 1 \in 1..Len(stack') /\ Len(stack') # 1 /\ stack'[2] = stack[1]
  BY <1>1, <1>3
<1>5. ASSUME NEW j \in 1..Len(stack'), j # 1
      PROVE /\ j - 1 \in 1..Len(stack) /\ stack'[j] = stack[j - 1]
            /\ j = Len(stack') <=> j - 1 = Len(stack)
  BY <1>1, <1>3, <1>5
<1>6. ASSUME NEW j \in 1..Len(stack') PROVE stack'[j].at \in 1..s
  <2>1. CASE j = 1
    BY <2>1, <1>1, <1>4
  <2>2. CASE j # 1
    <3>1. stack[j - 1].at \in 1..Len(schemas)
      BY <2>2, <1>5, StackFacts
    <3> QED BY <3>1, <2>2, <1>1, <1>5
  <2> QED BY <2>1, <2>2
<1>7. TypeOK'
  <2>1. \A j \in 1..Len(stack') : stack'[j].at <= Len(schemas')
    BY SMTT(60), <1>1, <1>2, <1>6
  <2> QED BY <2>1, <1>1, <1>2, <1>3 DEF IInv, TypeOK
<1>8. ImportsAreSound'
  <2>1. ASSUME NEW e \in 1..Len(schemas), NEW y \in Name, schemas[e].imports[y] # 0
        PROVE LET d == schemas[e].imports[y] IN
              /\ d \in 1..Len(schemas') /\ d # e
              /\ schemas'[d].file = Resolves[schemas'[e].file][y]
              /\ schemas'[d].by = e /\ schemas'[d].path = y /\ schemas'[d].result = "ok"
              /\ \A j \in 1..Len(stack') : stack'[j].at # d
    <3>1. PICK d \in 1..Len(schemas) : d = schemas[e].imports[y]
      BY <2>1, SchemaFacts, <1>1
    <3>2. /\ d # e
          /\ schemas[d].file = Resolves[schemas[e].file][y]
          /\ schemas[d].by = e /\ schemas[d].path = y /\ schemas[d].result = "ok"
          /\ \A j \in 1..Len(stack) : stack[j].at # d
      BY <2>1, <3>1 DEF IInv, ImportsAreSound
    <3>3. schemas'[d] = schemas[d] /\ schemas'[e] = schemas[e] /\ d # s /\ d \in 1..Len(schemas')
      BY <1>1, <1>2
    <3>4. ASSUME NEW j \in 1..Len(stack') PROVE stack'[j].at # d
      <4>1. CASE j = 1
        BY <4>1, <1>4, <3>3
      <4>2. CASE j # 1
        BY <4>2, <1>5, <3>2
      <4> QED BY <4>1, <4>2
    <3> QED BY <3>1, <3>2, <3>3, <3>4
  <2>2. ASSUME NEW e \in 1..Len(schemas'), NEW y \in Name, schemas'[e].imports[y] # 0
        PROVE e \in 1..Len(schemas) /\ schemas'[e] = schemas[e]
    BY SMTT(60), <2>2, <1>1, <1>2
  <2> QED BY SMTT(60), <2>1, <2>2 DEF ImportsAreSound
<1>9. Parents'
  <2>1. schemas'[1].by = 0
    BY SMTT(60), <1>1, <1>2 DEF IInv, Parents
  <2>2. ASSUME NEW d \in 2..Len(schemas)
        PROVE /\ schemas'[d].by \in 1..(d - 1)
              /\ schemas'[d].file = Resolves[schemas'[schemas'[d].by].file][schemas'[d].path]
              /\ schemas'[d].result = "ok" => schemas'[schemas'[d].by].imports[schemas'[d].path] = d
    <3>1. schemas[d].by \in 1..(d - 1) /\ d \in 1..Len(schemas)
      BY <1>1 DEF IInv, Parents
    <3>2. schemas[d].by \in 1..Len(schemas)
      BY <1>1, <3>1
    <3> QED BY <1>2, <3>1, <3>2 DEF IInv, Parents
  <2>3. /\ schemas'[s].by \in 1..(s - 1)
        /\ schemas'[s].file = Resolves[schemas'[schemas'[s].by].file][schemas'[s].path]
        /\ schemas'[s].result # "ok"
    BY SMTT(60), <1>1, <1>2
  <2>4. \A d \in 2..Len(schemas') : d \in 2..Len(schemas) \/ d = s
    BY <1>1, <1>2
  <2> QED BY ZenonT(60), <2>1, <2>2, <2>3, <2>4 DEF Parents
<1>10. Nested'
  <2>1. ASSUME NEW i \in 1..Len(stack'), NEW j \in 1..Len(stack'), i < j
        PROVE stack'[i].at > stack'[j].at
    <3>1. j # 1
      BY <2>1, <1>3
    <3>2. CASE i = 1
      <4>1. stack[j - 1].at \in 1..Len(schemas)
        BY <3>1, <1>5, StackFacts
      <4> QED BY <3>1, <3>2, <4>1, <1>1, <1>4, <1>5
    <3>3. CASE i # 1
      <4>1. /\ i - 1 \in 1..Len(stack) /\ stack'[i] = stack[i - 1]
            /\ j - 1 \in 1..Len(stack) /\ stack'[j] = stack[j - 1]
        BY <3>1, <3>3, <1>5
      <4>2. i - 1 < j - 1
        BY SMTT(60), <2>1
      <4> QED BY <4>1, <4>2 DEF IInv, Nested
    <3> QED BY <3>2, <3>3
  <2>2. ASSUME NEW j \in 1..Len(stack')
        PROVE IF j = Len(stack') THEN stack'[j].at = 1 /\ stack'[j].by = 0
              ELSE /\ stack'[j].at > 1 /\ stack'[j].by >= stack'[j + 1].at
                   /\ stack'[j].by = schemas'[stack'[j].at].by
                   /\ stack'[j].path = schemas'[stack'[j].at].path
                   /\ schemas'[stack'[j].at].result = "open"
                   /\ schemas'[stack'[j].by].imports[stack'[j].path] = 0
    <3>1. CASE j = 1
      <4>1. schemas'[s] = new /\ schemas'[c] = schemas[c] /\ s > 1
        BY <1>1, <1>2
      <4> QED BY <3>1, <4>1, <1>1, <1>4
    <3>2. CASE j # 1 /\ j = Len(stack')
      BY SMTT(60), <3>2, <1>5 DEF IInv, Nested
    <3>3. CASE j # 1 /\ j # Len(stack')
      <4>1. PICK i \in 1..Len(stack) : i = j - 1 /\ i # Len(stack) /\ stack'[j] = stack[i]
        BY <3>3, <1>5
      <4>2. j + 1 \in 1..Len(stack') /\ j + 1 # 1 /\ (j + 1) - 1 = i + 1
        BY <4>1, <3>3, <1>3, <1>1
      <4>3. stack'[j + 1] = stack[i + 1]
        <5>1. stack'[j + 1] = stack[(j + 1) - 1]
          BY <4>2, <1>5
        <5> QED BY <4>2, <5>1
      <4>4. /\ stack[i].at > 1 /\ stack[i].by >= stack[i + 1].at
            /\ stack[i].by = schemas[stack[i].at].by
            /\ stack[i].path = schemas[stack[i].at].path
            /\ schemas[stack[i].at].result = "open"
            /\ schemas[stack[i].by].imports[stack[i].path] = 0
        BY <4>1 DEF IInv, Nested
      <4>5. stack[i].at \in 1..Len(schemas) /\ stack[i].by \in 1..Len(schemas)
        BY <4>1, StackFacts, ParentOfCall
      <4>6. schemas'[stack[i].at] = schemas[stack[i].at] /\ schemas'[stack[i].by] = schemas[stack[i].by]
        BY SMTT(60), <4>5, <1>2
      <4>7. /\ stack'[j].at > 1 /\ stack'[j].by >= stack'[j + 1].at
            /\ stack'[j].by = schemas'[stack'[j].at].by
            /\ stack'[j].path = schemas'[stack'[j].at].path
        BY ZenonT(60), <4>1, <4>3, <4>4, <4>6
      <4>8. /\ schemas'[stack'[j].at].result = "open"
            /\ schemas'[stack'[j].by].imports[stack'[j].path] = 0
        BY ZenonT(60), <4>1, <4>4, <4>6
      <4> QED BY <3>3, <4>7, <4>8
    <3> QED BY <3>1, <3>2, <3>3
  <2> QED BY <2>1, <2>2 DEF Nested
<1>11. Calls'
  <2>1. ASSUME NEW j \in 1..Len(stack') PROVE LookingAt(stack[j])' /\ HasDeclared(stack[j])'
    <3>1. CASE j = 1
      <4>1. LookingAt(call)'
        BY DEF LookingAt, Idle
      <4>2. call.prog \in Program
        BY CallFields
      <4>3. HasDeclared(call)'
        BY SMTT(60), <4>2 DEF HasDeclared, Program
      <4> QED BY <3>1, <1>4, <4>1, <4>3 DEF LookingAt, HasDeclared
    <3>2. CASE j # 1
      <4>1. PICK g \in CallType : g = stack[j - 1] /\ g.at \in 1..Len(schemas)
        BY <3>2, <1>5, StackFacts
      <4>2. LookingAt(g) /\ HasDeclared(g) /\ g = stack'[j]
        BY <3>2, <4>1, <1>5 DEF IInv, Calls
      <4>3. schemas'[g.at] = schemas[g.at]
        BY <4>1, <1>2
      <4>4. LookingAt(g)'
        <5>1. g.look.st = "going" => g.look.at \in g.at..Len(schemas')
          <6>1. g.look.st = "going" => g.look.at \in g.at..Len(schemas)
            BY ZenonT(60), <4>2 DEF LookingAt
          <6> QED BY SMTT(60), <6>1, <4>1, <1>1, <1>2
        <5> QED BY ZenonT(60), <4>2, <4>3, <5>1 DEF LookingAt
      <4>5. HasDeclared(g)'
        <5>1. ASSUME NEW k, NEW y, Has(g.at, k, y) PROVE Has(g.at, k, y)'
          BY <4>3, <5>1 DEF Has
        <5> QED BY ZenonT(60), <4>2, <5>1 DEF HasDeclared
      <4> QED BY ZenonT(60), <4>2, <4>4, <4>5 DEF LookingAt, HasDeclared
    <3> QED BY <3>1, <3>2
  <2> QED BY <2>1 DEF Calls
<1> QED BY <1>7, <1>8, <1>9, <1>10, <1>11 DEF IInv

\* A file is opened for schema c, which is the innermost call's or was imported by it.
LEMMA EnterKeeps ==
  ASSUME IInv, stack # <<>>, NEW c \in Top.at..Len(schemas), NEW x \in Name, Enter(c, x)
  PROVE IInv'
<1> DEFINE f == Resolves[schemas[c].file][x]
           s == Len(schemas) + 1
<1>1. /\ c \in 1..Len(schemas) /\ Top.at \in 1..Len(schemas) /\ Len(schemas) \in 1..MaxSchema
      /\ Top \in CallType /\ Top = stack[1] /\ Len(stack) \in Nat \ {0}
  BY TopFacts
<1>2. f \in File
  BY SMTT(60), <1>1, SchemaFacts, ImportAssumption
<1>3. PICK t \in IF text[f] = Unread THEN Texts[f] ELSE {text[f]} :
        /\ text' = IF t = Missing THEN text ELSE [text EXCEPT ![f] = t]
        /\ \/ /\ t \in {Missing, Broken}
              /\ Becomes([Top EXCEPT !.missed = TRUE])
              /\ UNCHANGED schemas
           \/ /\ t \notin {Missing, Broken}
              /\ Len(schemas) < MaxSchema
              /\ schemas' = Append(schemas, [NewSchema(f, c, x) EXCEPT !.said = <<t>>])
              /\ stack' = <<Call(s, t, c, x)>> \o stack
  BY DEF Enter
<1>4. schemas[c].imports[x] = 0 /\ UNCHANGED <<val, inputs, late>>
  BY DEF Enter
<1>5. t \in Program \cup {Missing, Broken}
  BY <1>2, <1>3, ImportAssumption DEF IInv, TypeOK
<1>6. text' \in [File -> Program \cup {Missing, Broken, Unread}]
  BY <1>3, <1>5 DEF IInv, TypeOK
<1> HIDE DEF f, s
<1>7. CASE Becomes([Top EXCEPT !.missed = TRUE]) /\ UNCHANGED schemas
  <2> DEFINE g == [Top EXCEPT !.missed = TRUE]
  <2>1. g \in CallType
    BY <1>1 DEF CallType
  <2>2. /\ g.at = Top.at /\ g.by = Top.by /\ g.path = Top.path /\ g.prog = Top.prog
        /\ g.phase = Top.phase /\ g.step = Top.step /\ g.look = Top.look /\ g.n = Top.n
        /\ g.got = Top.got /\ g.item = Top.item
    BY <1>1 DEF CallType
  <2> HIDE DEF g
  <2>3. LookingAt(g) /\ HasDeclared(g)
    BY <2>2, TopFacts DEF LookingAt, HasDeclared
  <2>4. Becomes(g)
    BY <1>7 DEF g
  <2> QED BY <1>4, <1>6, <1>7, <2>1, <2>2, <2>3, <2>4, QuietStep DEF IInv, TypeOK
<1>8. CASE /\ t \notin {Missing, Broken}
           /\ Len(schemas) < MaxSchema
           /\ schemas' = Append(schemas, [NewSchema(f, c, x) EXCEPT !.said = <<t>>])
           /\ stack' = <<Call(s, t, c, x)>> \o stack
  <2>1. t \in Program /\ <<t>> \in Seq(Program) /\ s \in 1..MaxSchema /\ s = Len(schemas) + 1
        /\ c \in 0..MaxSchema
    BY <1>1, <1>5, <1>8, ImportAssumption DEF s
  <2>2. PICK new : new = [NewSchema(f, c, x) EXCEPT !.said = <<t>>]
    OBVIOUS
  <2>3. /\ new \in SchemaType /\ new.file = f /\ new.by = c /\ new.path = x
        /\ new.result = "open" /\ \A y \in Name : new.imports[y] = 0
    <3>1. \A said \in Seq(Program) :
            LET r == [NewSchema(f, c, x) EXCEPT !.said = said] IN
            /\ r \in SchemaType /\ r.file = f /\ r.by = c /\ r.path = x
            /\ r.result = "open" /\ \A y \in Name : r.imports[y] = 0
      BY <1>2, <2>1, FreshSchema
    <3> QED BY <2>1, <2>2, <3>1
  <2>4. PICK call : call = Call(s, t, c, x)
    OBVIOUS
  <2>5. /\ call \in CallType /\ call.at = s /\ call.by = c /\ call.path = x
        /\ call.phase = "declare" /\ call.n = 1 /\ call.step = "start" /\ call.look = Idle
    BY <2>1, <2>4, NewCall
  <2>6. schemas' = Append(schemas, new) /\ stack' = <<call>> \o stack
    BY <1>8, <2>2, <2>4
  <2> QED BY ZenonT(60), <1>4, <1>6, <2>1, <2>3, <2>5, <2>6, PushKeeps DEF f
<1> QED BY <1>3, <1>7, <1>8 DEF s

LEMMA LookFollowsKeeps == IInv /\ LookFollows => IInv'
<1> SUFFICES ASSUME IInv, LookFollows PROVE IInv'
  OBVIOUS
<1>1. Looking
  BY SMTT(60) DEF LookFollows
<1>2. PICK d \in Matches("schema") :
        \/ /\ ~Visible(d) \/ Top.missed
           /\ Answer(NoSuchEntry)
           /\ UNCHANGED <<text, schemas, val, inputs, late>>
        \/ Visible(d) /\ Enter(Look.at, d.value)
        \/ /\ Visible(d) /\ schemas[Look.at].imports[d.value] # 0
           /\ Answer(IF Look.i = Len(Look.path) THEN NoSuchEntry
                     ELSE [Look EXCEPT !.at = schemas[@].imports[d.value], !.i = @ + 1])
           /\ UNCHANGED <<text, schemas, val, inputs, late>>
  BY ZenonT(60) DEF LookFollows
<1>3. d \in Decl /\ d.kind = "schema"
  BY <1>1, LookFacts
<1>4. d.value \in Name
  BY <1>3, DeclFields
<1>5. CASE Answer(NoSuchEntry) /\ UNCHANGED <<text, schemas, val, inputs, late>>
  BY <1>1, <1>5, LookFacts, NoEntry, Answered
<1>6. CASE Enter(Look.at, d.value)
  BY <1>1, <1>4, <1>6, LookFacts, EnterKeeps
<1>7. CASE /\ schemas[Look.at].imports[d.value] # 0 /\ Look.i # Len(Look.path)
           /\ Answer([Look EXCEPT !.at = schemas[@].imports[d.value], !.i = @ + 1])
           /\ UNCHANGED <<text, schemas, val, inputs, late>>
  <2> DEFINE to == schemas[Look.at].imports[d.value]
  <2>1. to \in 1..Len(schemas) /\ to > Look.at
    BY <1>1, <1>4, <1>7, LookFacts, SchemaFacts
  <2>2. Top.at \in 1..Len(schemas) /\ Len(schemas) \in 1..MaxSchema
    BY <1>1, LookFacts, TopFacts
  <2> HIDE DEF to
  <2>3. to \in Top.at..Len(schemas) /\ to \in 1..MaxSchema
    <3>1. Look.at \in Top.at..Len(schemas) /\ Look.at \in 1..Len(schemas) /\ MaxSchema \in Nat
      BY <1>1, LookFacts, ImportAssumption
    <3> QED BY <2>1, <2>2, <3>1
  <2>4. Look.i + 1 \in 1..Len(Look.path) /\ Look.i + 1 \in Nat \ {0}
    BY <1>1, <1>7, LookFacts
  <2>5. PICK a : a = [Look EXCEPT !.at = to, !.i = Look.i + 1]
    OBVIOUS
  <2>6. /\ a \in [st : {"going"}, kind : Kind, path : Seq(Name), global : BOOLEAN,
                  at : 1..MaxSchema, i : Nat \ {0}]
        /\ a.st = "going" /\ a.at = to /\ a.i = Look.i + 1 /\ a.path = Look.path
        /\ a.kind = Look.kind
    BY <1>1, <2>3, <2>4, <2>5, LookFacts
  <2>7. a \in LookType
    BY <2>6 DEF LookType
  <2>8. Answer(a) /\ UNCHANGED <<text, schemas, val, inputs, late>>
    BY <1>7, <2>5 DEF to
  <2> QED BY <1>1, <2>3, <2>4, <2>6, <2>7, <2>8, LookFacts, Answered
<1> QED BY <1>2, <1>5, <1>6, <1>7

-------------------------------------------------------------------------------
\* What a statement declares.
LEMMA StmtFacts ==
  ASSUME IInv, stack # <<>>, Top.n <= Len(Top.prog)
  PROVE /\ Stmt \in Import \cup Def /\ Top.n \in 1..Len(Top.prog)
        /\ Stmt.op = "def" => Stmt \in Def
        /\ Stmt.op = "import" => Stmt \in Import
<1>1. Top.prog \in Program /\ Top.n \in Nat \ {0}
  BY TopFacts, CallFields
<1>2. Stmt \in Import \cup Def /\ Top.n \in 1..Len(Top.prog)
  BY <1>1 DEF Program, Stmt
<1>3. (Stmt \in Import => Stmt.op = "import") /\ (Stmt \in Def => Stmt.op = "def")
  BY DEF Import, Def
<1> QED BY <1>2, <1>3

LEMMA DefFields ==
  ASSUME NEW d \in Def
  PROVE /\ d.kind \in {"type", "expr"} /\ d.name \in Name /\ d.path \in Seq(Name)
        /\ d.lit \in Lit /\ d.extern \in BOOLEAN /\ d.export \in BOOLEAN
  BY DEF Def

LEMMA ImportFields ==
  ASSUME NEW d \in Import
  PROVE /\ d.from \in Name /\ d.list \in {"none", "star", "items"}
        /\ d.items \in Seq(Name) /\ d.export \in BOOLEAN
  BY DEF Import

\* The innermost call is ready to add what it has collected.
LEMMA AddsKeeps ==
  ASSUME IInv, At("declare"), NEW got \in SUBSET EntryType, Adds(got),
         UNCHANGED <<text, schemas, val, inputs, late>>,
         Top.look.st = "idle",
         Stmt.op = "def" => /\ got # {}
                            /\ \A e \in got : e.kind = Stmt.kind /\ e.name = Stmt.name
  PROVE IInv'
<1>1. stack # <<>> /\ Top.phase = "declare" /\ Top.n <= Len(Top.prog) /\ Top \in CallType
  BY TopFacts DEF At
<1>2. PICK f : f = [Top EXCEPT !.step = "add", !.got = got]
  OBVIOUS
<1>3. /\ f \in CallType
      /\ f.at = Top.at /\ f.by = Top.by /\ f.path = Top.path /\ f.prog = Top.prog
      /\ f.phase = Top.phase /\ f.step = "add" /\ f.look = Top.look /\ f.n = Top.n /\ f.got = got
  BY <1>1, <1>2 DEF CallType
<1>4. LookingAt(f)
  BY <1>1, <1>3, TopFacts DEF LookingAt
<1>5. HasDeclared(f)
  BY <1>1, <1>3, TopFacts DEF HasDeclared, Stmt
<1>6. Becomes(f)
  BY <1>2 DEF Adds
<1> QED BY <1>1, <1>3, <1>4, <1>5, <1>6, QuietStep DEF IInv, TypeOK

\* A statement whose declarations have not been collected looks for nothing.
LEMMA StartFacts ==
  ASSUME IInv, At("declare")
  PROVE /\ stack # <<>> /\ Top.phase = "declare" /\ Top.n <= Len(Top.prog) /\ Top \in CallType
        /\ Top.at \in 1..Len(schemas) /\ Top.at \in 1..MaxSchema
        /\ Top.look \in LookType /\ Top.got \subseteq EntryType /\ Top.n \in Nat \ {0}
        /\ Top.look.st # "idle" => Top.step = "items" /\ Top.item <= Len(Stmt.items)
<1>1. stack # <<>> /\ Top.phase = "declare" /\ Top.n <= Len(Top.prog)
  BY DEF At
<1>2. Top.look.st # "idle" => Top.step = "items" /\ Top.item <= Len(Stmt.items)
  BY <1>1, TopFacts DEF LookingAt, Stmt
<1> QED BY <1>1, <1>2, TopFacts, CallFields

LEMMA EntryOfDef ==
  ASSUME NEW k \in {"type", "expr"}, NEW x \in Name, NEW extern \in BOOLEAN,
         NEW v \in Cell \cup Lit, NEW pos \in Nat
  PROVE /\ Entry(k, x, extern, v, pos) \in EntryType
        /\ Entry(k, x, extern, v, pos).kind = k /\ Entry(k, x, extern, v, pos).name = x
  BY DEF Entry, EntryType

LEMMA EntryOfSchema ==
  ASSUME NEW x \in Name, NEW v \in Name, NEW pos \in Nat
  PROVE Entry("schema", x, FALSE, v, pos) \in EntryType
  BY DEF Entry, EntryType

LEMMA DeclareDefKeeps == IInv /\ DeclareDef => IInv'
<1> SUFFICES ASSUME IInv, DeclareDef PROVE IInv'
  OBVIOUS
<1>1. At("declare") /\ Top.step = "start" /\ Stmt.op = "def"
      /\ UNCHANGED <<text, schemas, val, inputs, late>>
  BY DEF DeclareDef
<1>2. Stmt.kind \in {"type", "expr"} /\ Stmt.name \in Name /\ Stmt.extern \in BOOLEAN
  BY <1>1, StartFacts, StmtFacts, DefFields
<1>3. PICK v : v = [at |-> Top.at, kind |-> Stmt.kind, name |-> Stmt.name]
  OBVIOUS
<1>4. v \in Cell
  BY <1>1, <1>2, <1>3, StartFacts DEF Cell
<1>5. PICK e : e = Entry(Stmt.kind, Stmt.name, Stmt.extern, v, 1)
  OBVIOUS
<1>6. e \in EntryType /\ e.kind = Stmt.kind /\ e.name = Stmt.name
  <2>1. 1 \in Nat
    OBVIOUS
  <2> QED BY <1>2, <1>4, <1>5, <2>1, EntryOfDef
<1>7. Adds({e})
  BY <1>3, <1>5 DEF DeclareDef
<1>8. {e} \in SUBSET EntryType /\ {e} # {} /\ \A o \in {e} : o.kind = Stmt.kind /\ o.name = Stmt.name
  BY <1>6
<1>9. Top.look.st = "idle"
  BY <1>1, StartFacts
<1> QED BY <1>1, <1>7, <1>8, <1>9, AddsKeeps

LEMMA FailKeeps ==
  ASSUME IInv, stack # <<>>, Fail, UNCHANGED <<text, schemas, inputs>>,
         val' \in [Cell -> Cell \cup Lit], late' \in BOOLEAN,
         Top.phase = "declare" /\ Top.n <= Len(Top.prog) /\ Stmt.op = "def"
           => Has(Top.at, Stmt.kind, Stmt.name)
  PROVE IInv'
<1>1. {Top.n} \in SUBSET Nat
  BY TopFacts, CallFields
<1> QED BY <1>1, StatementDone DEF Fail

LEMMA SucceedKeeps ==
  ASSUME IInv, stack # <<>>, Succeed, UNCHANGED <<text, schemas, inputs>>,
         val' \in [Cell -> Cell \cup Lit], late' \in BOOLEAN,
         Top.phase = "declare" /\ Top.n <= Len(Top.prog) /\ Stmt.op = "def"
           => Has(Top.at, Stmt.kind, Stmt.name)
  PROVE IInv'
  BY StatementDone DEF Succeed

LEMMA DeclareImportKeeps == IInv /\ DeclareImport => IInv'
<1> SUFFICES ASSUME IInv, DeclareImport PROVE IInv'
  OBVIOUS
<1> DEFINE c == Here.imports[Stmt.from]
<1>1. At("declare") /\ Top.step = "start" /\ Stmt.op = "import" /\ Top.look.st = "idle"
  BY StartFacts DEF DeclareImport
<1>2. Stmt.from \in Name /\ Stmt.list \in {"none", "star", "items"}
  BY <1>1, StartFacts, StmtFacts, ImportFields
<1>3. CASE Enter(Top.at, Stmt.from)
  <2>1. Top.at \in Top.at..Len(schemas)
    BY <1>1, StartFacts
  <2> QED BY <1>1, <1>2, <1>3, <2>1, StartFacts, EnterKeeps
<1>4. CASE Fail /\ UNCHANGED <<text, schemas, val, inputs, late>>
  BY <1>1, <1>4, StartFacts, FailKeeps DEF IInv, TypeOK
<1>5. CASE c # 0 /\ UNCHANGED <<text, schemas, val, inputs, late>>
           /\ Adds({Entry("schema", Stmt.from, FALSE, Stmt.from, 1)})
  <2>1. Entry("schema", Stmt.from, FALSE, Stmt.from, 1) \in EntryType
    <3>1. 1 \in Nat
      OBVIOUS
    <3> QED BY <1>2, <3>1, EntryOfSchema
  <2> QED BY <1>1, <1>5, <2>1, AddsKeeps
<1>6. CASE c # 0 /\ UNCHANGED <<text, schemas, val, inputs, late>>
           /\ Adds({Entry(d.kind, d.name, FALSE, d.value, 1) :
                      d \in {e \in schemas[c].decls : e.public}})
  <2>1. c \in 1..Len(schemas)
    BY <1>1, <1>2, <1>6, StartFacts, SchemaFacts DEF Here, IInv, TypeOK
  <2> HIDE DEF c
  <2>2. ASSUME NEW d \in schemas[c].decls PROVE Entry(d.kind, d.name, FALSE, d.value, 1) \in EntryType
    <3>1. d \in Decl
      BY <2>1, SchemaFacts
    <3>2. 1 \in Nat /\ FALSE \in BOOLEAN
      OBVIOUS
    <3>3. CASE d.kind = "schema"
      BY <3>1, <3>2, <3>3, DeclFields, EntryOfSchema
    <3>4. CASE d.kind # "schema"
      BY ZenonT(60), <3>1, <3>2, <3>4, DeclFields, EntryOfDef
    <3> QED BY <3>3, <3>4
  <2>3. {Entry(d.kind, d.name, FALSE, d.value, 1) : d \in {e \in schemas[c].decls : e.public}}
          \in SUBSET EntryType
    BY <2>2
  <2> QED BY <1>1, <1>6, <2>3, AddsKeeps
<1>7. CASE c # 0 /\ UNCHANGED <<text, schemas, val, inputs, late>>
           /\ Becomes([Top EXCEPT !.step = "items"])
  <2>1. PICK f : f = [Top EXCEPT !.step = "items"]
    OBVIOUS
  <2>2. /\ f \in CallType
        /\ f.at = Top.at /\ f.by = Top.by /\ f.path = Top.path /\ f.prog = Top.prog
        /\ f.phase = Top.phase /\ f.step = "items" /\ f.look = Top.look /\ f.n = Top.n
        /\ f.got = Top.got
    BY SMTT(60), <1>1, <2>1, StartFacts DEF CallType
  <2>3. LookingAt(f)
    BY <1>1, <1>7, <2>2, StartFacts DEF LookingAt, Stmt, Here
  <2>4. HasDeclared(f)
    BY <1>1, <2>2, StartFacts, TopFacts DEF HasDeclared
  <2> QED BY <1>1, <1>7, <2>1, <2>2, <2>3, <2>4, StartFacts, QuietStep DEF IInv, TypeOK
<1>8. \/ Enter(Top.at, Stmt.from)
      \/ Fail /\ UNCHANGED <<text, schemas, val, inputs, late>>
      \/ /\ c # 0 /\ UNCHANGED <<text, schemas, val, inputs, late>>
         /\ CASE Stmt.list = "none" -> Adds({Entry("schema", Stmt.from, FALSE, Stmt.from, 1)})
              [] Stmt.list = "star" -> Adds({Entry(d.kind, d.name, FALSE, d.value, 1) :
                                               d \in {e \in schemas[c].decls : e.public}})
              [] Stmt.list = "items" -> Becomes([Top EXCEPT !.step = "items"])
  BY DEF DeclareImport
<1> QED BY <1>2, <1>3, <1>4, <1>5, <1>6, <1>7, <1>8

LEMMA ItemFacts ==
  ASSUME IInv, At("declare"), Top.step = "items"
  PROVE /\ Stmt.op = "import" /\ Stmt.items \in Seq(Name) /\ Stmt.from \in Name
        /\ Here.imports[Stmt.from] \in Top.at..Len(schemas)
        /\ Here.imports[Stmt.from] \in 1..MaxSchema
        /\ Top.k \in 1..3 /\ Top.item \in Nat \ {0} /\ Top.found \in BOOLEAN
        /\ Top.item <= Len(Stmt.items) => Item \in Name
<1>1. Stmt.op = "import" /\ Here.imports[Stmt.from] # 0
  BY StartFacts, TopFacts DEF LookingAt, Stmt, Here
<1>2. Stmt.items \in Seq(Name) /\ Stmt.from \in Name
  BY <1>1, StartFacts, StmtFacts, ImportFields
<1>3. Top.k \in 1..3 /\ Top.item \in Nat \ {0} /\ Top.found \in BOOLEAN
  BY StartFacts, CallFields
<1>4. Here.imports[Stmt.from] \in 0..Len(schemas) /\ Here.imports[Stmt.from] > Top.at
  BY <1>1, <1>2, StartFacts, SchemaFacts DEF Here
<1>5. /\ Here.imports[Stmt.from] \in Top.at..Len(schemas)
      /\ Here.imports[Stmt.from] \in 1..MaxSchema
  <2>1. Len(schemas) \in 1..MaxSchema /\ Top.at \in 1..Len(schemas) /\ MaxSchema \in Nat
    BY StartFacts, TopFacts, ImportAssumption
  <2> QED BY <1>4, <2>1
<1>6. Top.item <= Len(Stmt.items) => Item \in Name
  BY <1>2, <1>3 DEF Item
<1> QED BY <1>1, <1>2, <1>3, <1>5, <1>6

LEMMA GoingType ==
  ASSUME NEW k \in Kind, NEW p \in Seq(Name), p # <<>>, NEW global \in BOOLEAN, NEW c \in 1..MaxSchema
  PROVE LET a == Going(k, p, global, c) IN
        /\ a \in LookType /\ a.st = "going" /\ a.kind = k /\ a.at = c /\ a.i \in 1..Len(a.path)
<1>1. 1 \in Nat \ {0} /\ 1 \in 1..Len(p)
  OBVIOUS
<1>2. ASSUME NEW one, one \in Nat \ {0} /\ one \in 1..Len(p)
      PROVE LET a == [st |-> "going", kind |-> k, path |-> p, global |-> global, at |-> c,
                      i |-> one] IN
            /\ a \in LookType /\ a.st = "going" /\ a.kind = k /\ a.at = c /\ a.i \in 1..Len(a.path)
  BY <1>2 DEF LookType
<1> QED BY <1>1, <1>2 DEF Going

LEMMA LookForItemKeeps == IInv /\ LookForItem => IInv'
<1> SUFFICES ASSUME IInv, LookForItem PROVE IInv'
  OBVIOUS
<1>1. /\ At("declare") /\ Top.step = "items" /\ Top.item <= Len(Stmt.items)
      /\ Answer(Going(Kinds[Top.k], <<Item>>, FALSE, Here.imports[Stmt.from]))
      /\ UNCHANGED <<text, schemas, val, inputs, late>>
  BY DEF LookForItem, AtItem
<1>2. /\ Item \in Name /\ Top.k \in 1..3 /\ Here.imports[Stmt.from] \in Top.at..Len(schemas)
      /\ Here.imports[Stmt.from] \in 1..MaxSchema
  BY <1>1, ItemFacts
<1>3. PICK p : p = <<Item>>
  OBVIOUS
<1>4. p \in Seq(Name) /\ p # <<>>
  BY <1>2, <1>3
<1>5. Kinds[Top.k] \in Kind
  BY <1>2 DEF Kinds, Kind
<1>6. PICK a : a = Going(Kinds[Top.k], p, FALSE, Here.imports[Stmt.from])
  OBVIOUS
<1>7. a \in LookType /\ a.st = "going" /\ a.at = Here.imports[Stmt.from] /\ a.i \in 1..Len(a.path)
  <2>1. FALSE \in BOOLEAN
    OBVIOUS
  <2>2. PICK k \in Kind, c \in 1..MaxSchema : k = Kinds[Top.k] /\ c = Here.imports[Stmt.from]
    BY <1>2, <1>5
  <2>3. a = Going(k, p, FALSE, c)
    BY <1>6, <2>2
  <2>4. /\ a \in LookType /\ a.st = "going" /\ a.at = c /\ a.i \in 1..Len(a.path)
    <3>1. \A g \in BOOLEAN : LET r == Going(k, p, g, c) IN
            r \in LookType /\ r.st = "going" /\ r.kind = k /\ r.at = c /\ r.i \in 1..Len(r.path)
      BY <1>4, GoingType
    <3>2. LET r == Going(k, p, FALSE, c) IN
            r \in LookType /\ r.st = "going" /\ r.kind = k /\ r.at = c /\ r.i \in 1..Len(r.path)
      BY <2>1, <3>1, Zenon
    <3> QED BY <2>3, <3>2
  <2> QED BY <2>2, <2>4
<1>8. Answer(a)
  BY <1>1, <1>3, <1>6
<1> QED BY <1>1, <1>2, <1>7, <1>8, StartFacts, Answered

LEMMA FoundFields ==
  ASSUME NEW a \in LookType, a.st = "found"
  PROVE /\ a.kind = "schema" => a.value \in Name
        /\ a.kind # "schema" => a.kind \in {"type", "expr"} /\ a.value \in Cell \cup Lit
<1>1. \/ a \in [st : {"found"}, kind : {"schema"}, value : Name]
      \/ a \in [st : {"found"}, kind : {"type", "expr"}, value : Cell \cup Lit]
  BY DEF LookType, Idle, NoSuchEntry
<1> QED BY <1>1

LEMMA ImportItemKeeps == IInv /\ ImportItem => IInv'
<1> SUFFICES ASSUME IInv, ImportItem PROVE IInv'
  OBVIOUS
<1> DEFINE found == Top.found \/ Look.st = "found"
           got == IF Look.st = "found"
                  THEN {Entry(Look.kind, Item, FALSE, Look.value, Top.item)} ELSE {}
           next == [Top EXCEPT !.got = @ \cup got, !.found = found, !.look = Idle,
                               !.k = IF @ = 3 THEN 1 ELSE @ + 1,
                               !.item = IF Top.k = 3 THEN @ + 1 ELSE @]
<1>1. /\ At("declare") /\ Top.step = "items" /\ Top.item <= Len(Stmt.items)
      /\ UNCHANGED <<text, schemas, val, inputs, late>>
      /\ Fail \/ Becomes(next)
  BY DEF ImportItem, AtItem
<1>2. Stmt.op = "import" /\ Item \in Name /\ Top.item \in Nat \ {0} /\ Top.k \in 1..3
      /\ Top.found \in BOOLEAN
  BY <1>1, ItemFacts
<1>3. CASE Fail
  BY <1>1, <1>2, <1>3, StartFacts, FailKeeps DEF IInv, TypeOK
<1>4. CASE Becomes(next)
  <2>1. Look \in LookType
    BY <1>1, StartFacts DEF Look
  <2>2. got \in SUBSET EntryType
    <3>1. CASE Look.st = "found"
      <4>1. Entry(Look.kind, Item, FALSE, Look.value, Top.item) \in EntryType
        <5>1. FALSE \in BOOLEAN /\ Top.item \in Nat
          BY <1>2
        <5>2. CASE Look.kind = "schema"
          BY <1>2, <2>1, <3>1, <5>1, <5>2, FoundFields, EntryOfSchema
        <5>3. CASE Look.kind # "schema"
          BY ZenonT(60), <1>2, <2>1, <3>1, <5>1, <5>3, FoundFields, EntryOfDef
        <5> QED BY <5>2, <5>3
      <4> QED BY <3>1, <4>1
    <3> QED BY <3>1
  <2>3. found \in BOOLEAN
    BY <1>2
  <2> HIDE DEF got, found
  <2>4. PICK k \in 1..3 : k = IF Top.k = 3 THEN 1 ELSE Top.k + 1
    BY <1>2
  <2>5. PICK item \in Nat \ {0} : item = IF Top.k = 3 THEN Top.item + 1 ELSE Top.item
    BY <1>2
  <2>6. PICK f : f = [Top EXCEPT !.got = @ \cup got, !.found = found, !.look = Idle,
                                 !.k = k, !.item = item]
    OBVIOUS
  <2>7. Becomes(f)
    BY <1>4, <2>4, <2>5, <2>6
  <2>8. Idle \in LookType /\ Idle.st = "idle"
    BY DEF Idle, LookType
  <2>9. Top.got \cup got \in SUBSET EntryType
    BY <1>1, <2>2, StartFacts
  <2>10. /\ f \in CallType
         /\ f.at = Top.at /\ f.by = Top.by /\ f.path = Top.path /\ f.prog = Top.prog
         /\ f.phase = Top.phase /\ f.step = Top.step /\ f.look = Idle /\ f.n = Top.n
    <3>1. Top \in CallType
      BY <1>1, StartFacts
    <3> HIDE DEF next
    <3> QED BY ZenonT(60), <2>3, <2>4, <2>5, <2>6, <2>8, <2>9, <3>1 DEF CallType
  <2>11. LookingAt(f)
    BY <1>1, <2>8, <2>10, StartFacts, TopFacts DEF LookingAt
  <2>12. HasDeclared(f)
    BY <1>1, <2>10, StartFacts, TopFacts DEF HasDeclared
  <2> QED BY <1>1, <2>7, <2>10, <2>11, <2>12, StartFacts, QuietStep DEF IInv, TypeOK
<1> QED BY <1>1, <1>3, <1>4

LEMMA ItemsDoneKeeps == IInv /\ ItemsDone => IInv'
<1> SUFFICES ASSUME IInv, ItemsDone PROVE IInv'
  OBVIOUS
<1>1. /\ At("declare") /\ Top.step = "items" /\ Top.item > Len(Stmt.items)
      /\ Adds(Top.got) /\ UNCHANGED <<text, schemas, val, inputs, late>>
  BY DEF ItemsDone
<1>2. Stmt.op = "import" /\ Top.item \in Nat /\ Stmt.items \in Seq(Name)
  BY <1>1, ItemFacts
<1>3. Top.look.st = "idle"
  BY <1>1, <1>2, StartFacts
<1> QED BY <1>1, <1>2, <1>3, StartFacts, AddsKeeps

LEMMA EntryFields ==
  ASSUME NEW e \in EntryType, NEW public \in BOOLEAN
  PROVE [kind |-> e.kind, name |-> e.name, public |-> public, extern |-> e.extern,
         value |-> e.value] \in Decl
<1>1. CASE e \in [kind : {"schema"}, name : Name, extern : BOOLEAN, value : Name, pos : Nat]
  BY <1>1 DEF Decl
<1>2. CASE e \in [kind : {"type", "expr"}, name : Name, extern : BOOLEAN, value : Cell \cup Lit,
                  pos : Nat]
  BY <1>2 DEF Decl
<1> QED BY <1>1, <1>2 DEF EntryType

LEMMA MoreDecls ==
  ASSUME NEW r \in SchemaType, NEW decls \in SUBSET Decl
  PROVE LET q == [r EXCEPT !.decls = decls] IN
        /\ q \in SchemaType /\ q.file = r.file /\ q.by = r.by /\ q.path = r.path
        /\ q.imports = r.imports /\ q.result = r.result /\ q.decls = decls
        /\ q.said = r.said
  BY DEF SchemaType

LEMMA AddDeclKeeps == IInv /\ AddDecl => IInv'
<1> SUFFICES ASSUME IInv, AddDecl PROVE IInv'
  OBVIOUS
<1>1. /\ At("declare") /\ Top.step = "add" /\ UNCHANGED <<text, val, inputs, late>>
      /\ Top.look.st = "idle"
  BY StartFacts DEF AddDecl
<1>2. PICK e \in Top.got :
        \/ Taken(e) /\ Fail /\ UNCHANGED schemas
        \/ /\ ~Taken(e)
           /\ schemas' = [schemas EXCEPT ![Top.at].decls = @ \cup {Added(e)}]
           /\ Becomes([Top EXCEPT !.got = @ \ {e}])
  BY DEF AddDecl
<1>3. Stmt.op = "def" => e.kind = Stmt.kind /\ e.name = Stmt.name
  BY <1>1, <1>2, StartFacts, TopFacts DEF HasDeclared, Stmt
<1>4. CASE Taken(e) /\ Fail /\ UNCHANGED schemas
  <2>1. Stmt.op = "def" => Has(Top.at, Stmt.kind, Stmt.name)
    BY <1>3, <1>4 DEF Taken, Has, Here
  <2> QED BY <1>1, <1>4, <2>1, StartFacts, FailKeeps DEF IInv, TypeOK
<1>5. CASE /\ schemas' = [schemas EXCEPT ![Top.at].decls = @ \cup {Added(e)}]
           /\ Becomes([Top EXCEPT !.got = @ \ {e}])
  <2>1. PICK d : d = Added(e)
    OBVIOUS
  <2>2. e \in EntryType /\ Stmt.export \in BOOLEAN
    BY <1>1, StartFacts, StmtFacts, DefFields, ImportFields DEF Def, Import
  <2>3. d \in Decl /\ d.kind = e.kind /\ d.name = e.name
    BY <2>1, <2>2, EntryFields DEF Added
  <2>4. PICK s \in 1..Len(schemas) : s = Top.at
    BY <1>1, StartFacts
  <2>5. PICK q : q = [schemas[s] EXCEPT !.decls = @ \cup {d}]
    OBVIOUS
  <2>6. PICK r \in SchemaType, ds \in SUBSET Decl : r = schemas[s] /\ ds = r.decls \cup {d}
    BY <2>3, SchemaFacts
  <2>7. /\ q \in SchemaType /\ q.file = schemas[s].file /\ q.by = schemas[s].by
        /\ q.path = schemas[s].path /\ q.imports = schemas[s].imports
        /\ q.result = schemas[s].result /\ q.decls = schemas[s].decls \cup {d}
    <3>1. q = [r EXCEPT !.decls = ds]
      BY <2>5, <2>6
    <3>2. /\ q \in SchemaType /\ q.file = r.file /\ q.by = r.by /\ q.path = r.path
          /\ q.imports = r.imports /\ q.result = r.result /\ q.decls = ds
      BY <3>1, MoreDecls
    <3> QED BY <2>6, <3>2
  <2>8. schemas' = [schemas EXCEPT ![s] = q]
    BY <1>5, <2>1, <2>4, <2>5
  <2>9. /\ schemas' \in Seq(SchemaType) /\ Len(schemas') = Len(schemas) /\ schemas'[s] = q
        /\ \A c \in 1..Len(schemas) : c # s => schemas'[c] = schemas[c]
    BY <2>7, <2>8 DEF IInv, TypeOK
  <2>10. Grown
    <3>1. ASSUME NEW c \in 1..Len(schemas)
          PROVE /\ schemas'[c].file = schemas[c].file /\ schemas'[c].by = schemas[c].by
                /\ schemas'[c].path = schemas[c].path /\ schemas'[c].imports = schemas[c].imports
                /\ schemas'[c].result = schemas[c].result
                /\ schemas[c].decls \subseteq schemas'[c].decls
      BY <2>7, <2>9
    <3> QED BY <2>9, <3>1 DEF Grown
  <2>11. PICK f : f = [Top EXCEPT !.got = @ \ {e}]
    OBVIOUS
  <2>12. /\ f \in CallType
         /\ f.at = s /\ f.by = Top.by /\ f.path = Top.path /\ f.prog = Top.prog
         /\ f.phase = "declare" /\ f.step = "add" /\ f.look = Top.look /\ f.n = Top.n
         /\ f.got = Top.got \ {e}
    BY <1>1, <2>4, <2>11, StartFacts DEF CallType
  <2>13. LookingAt(f)'
    BY <1>1, <2>12 DEF LookingAt
  <2>14. Has(s, e.kind, e.name)'
    BY <2>3, <2>7, <2>9 DEF Has
  <2>15. HasDeclared(f)'
    <3>1. ASSUME NEW k, NEW x, Has(s, k, x) PROVE Has(s, k, x)'
      BY <2>10, <3>1 DEF Has, Grown
    <3>2. ASSUME NEW m \in 1..Len(f.prog), m < f.n, f.prog[m].op = "def"
          PROVE Has(s, f.prog[m].kind, f.prog[m].name)'
      <4>1. Has(s, f.prog[m].kind, f.prog[m].name)
        BY <1>1, <2>4, <2>12, <3>2, StartFacts, TopFacts DEF HasDeclared
      <4> QED BY <3>1, <4>1
    <3>3. ASSUME f.prog[f.n].op = "def"
          PROVE /\ \A o \in f.got : o.kind = f.prog[f.n].kind /\ o.name = f.prog[f.n].name
                /\ Has(s, f.prog[f.n].kind, f.prog[f.n].name)'
      <4>1. Stmt.op = "def" /\ Stmt = f.prog[f.n]
        BY <2>12, <3>3 DEF Stmt
      <4>2. \A o \in Top.got : o.kind = Stmt.kind /\ o.name = Stmt.name
        BY <1>1, <4>1, StartFacts, TopFacts DEF HasDeclared, Stmt
      <4> QED BY <1>3, <2>12, <2>14, <4>1, <4>2
    <3>4. f.n <= Len(f.prog)
      BY <1>1, <2>12, StartFacts
    <3> QED BY <2>12, <3>2, <3>3, <3>4 DEF HasDeclared
  <2>16. Becomes(f)
    BY <1>5, <2>11
  <2>17. /\ stack' \in Seq(CallType) /\ \A j \in 1..Len(stack') : stack'[j].at <= Len(schemas')
         /\ ImportsAreSound' /\ Parents' /\ Nested' /\ Calls'
    BY <1>1, <2>4, <2>10, <2>12, <2>13, <2>15, <2>16, StartFacts, TopMoves
  <2>18. TypeOK'
    BY <1>1, <2>9, <2>17 DEF IInv, TypeOK
  <2> QED BY <2>17, <2>18 DEF IInv
<1> QED BY <1>2, <1>4, <1>5

LEMMA DeclaredKeeps == IInv /\ Declared => IInv'
<1> SUFFICES ASSUME IInv, Declared PROVE IInv'
  OBVIOUS
<1>1. /\ At("declare") /\ Top.step = "add" /\ Top.got = {} /\ Succeed
      /\ UNCHANGED <<text, schemas, val, inputs, late>>
  BY DEF Declared
<1>2. Stmt.op = "def" => Has(Top.at, Stmt.kind, Stmt.name)
  BY <1>1, StartFacts, TopFacts DEF HasDeclared, Stmt
<1> QED BY <1>1, <1>2, StartFacts, SucceedKeeps DEF IInv, TypeOK

-------------------------------------------------------------------------------
LEMMA CompileImportKeeps == IInv /\ CompileImport => IInv'
<1> SUFFICES ASSUME IInv, CompileImport PROVE IInv'
  OBVIOUS
<1>1. /\ stack # <<>> /\ Top.phase = "compile" /\ Succeed
      /\ UNCHANGED <<text, schemas, val, inputs, late>>
  BY DEF CompileImport, At
<1> QED BY <1>1, SucceedKeeps DEF IInv, TypeOK

LEMMA LookForPathKeeps == IInv /\ LookForPath => IInv'
<1> SUFFICES ASSUME IInv, LookForPath PROVE IInv'
  OBVIOUS
<1>1. /\ stack # <<>> /\ Top.phase = "compile" /\ Top.n <= Len(Top.prog)
      /\ Stmt.op = "def" /\ Stmt.path # <<>>
      /\ Answer(Going(Stmt.kind, Stmt.path, TRUE, Top.at))
      /\ UNCHANGED <<text, schemas, val, inputs, late>>
  BY DEF LookForPath, At
<1>2. PICK k \in Kind, p \in Seq(Name), c \in 1..MaxSchema :
        k = Stmt.kind /\ p = Stmt.path /\ c = Top.at
  <2>1. Stmt.kind \in Kind /\ Stmt.path \in Seq(Name)
    BY <1>1, StmtFacts, DefFields DEF Kind
  <2>2. Top.at \in 1..MaxSchema
    BY <1>1, TopFacts, CallFields
  <2> QED BY <2>1, <2>2
<1>3. PICK a : a = Going(k, p, TRUE, c)
  OBVIOUS
<1>4. a \in LookType /\ a.st = "going" /\ a.kind = k /\ a.at = c /\ a.i \in 1..Len(a.path)
  <2>1. \A g \in BOOLEAN : LET r == Going(k, p, g, c) IN
          r \in LookType /\ r.st = "going" /\ r.kind = k /\ r.at = c /\ r.i \in 1..Len(r.path)
    BY <1>1, <1>2, GoingType
  <2>2. TRUE \in BOOLEAN
    OBVIOUS
  <2>3. LET r == Going(k, p, TRUE, c) IN
          r \in LookType /\ r.st = "going" /\ r.kind = k /\ r.at = c /\ r.i \in 1..Len(r.path)
    BY <2>1, <2>2, Zenon
  <2> QED BY <1>3, <2>3
<1>5. Answer(a)
  BY <1>1, <1>2, <1>3
<1>6. a.at \in Top.at..Len(schemas)
  BY <1>1, <1>2, <1>4, TopFacts
<1> QED BY <1>1, <1>2, <1>4, <1>5, <1>6, Answered

\* Cells keep standing for cells or for what definitions say.
LEMMA MergeType ==
  ASSUME val \in [Cell -> Cell \cup Lit], NEW x \in Cell \cup Lit, NEW y \in Cell \cup Lit
  PROVE Merge(x, y) \in [Cell -> Cell \cup Lit]
  BY DEF Merge

LEMMA UnifyType ==
  ASSUME IInv, NEW d, NEW v, d.value \in Cell \cup Lit, v \in Cell \cup Lit, Unify(d, v)
  PROVE /\ val' \in [Cell -> Cell \cup Lit] /\ late' \in BOOLEAN
        /\ Fail \/ Succeed
<1>1. val \in [Cell -> Cell \cup Lit] /\ late \in BOOLEAN
  BY DEF IInv, TypeOK
<1>2. Meaning(d.value) \in Cell \cup Lit /\ Meaning(v) \in Cell \cup Lit
  BY <1>1 DEF Meaning
<1>3. /\ Fail \/ Succeed
      /\ UNCHANGED late \/ late' = TRUE
      /\ \/ UNCHANGED val
         \/ val' \in {val, [val EXCEPT ![d.value] = Meaning(v)]}
         \/ val' = Merge(Meaning(d.value), Meaning(v))
  BY DEF Unify, UnifyTypes, UnifyExprs
<1>4. [val EXCEPT ![d.value] = Meaning(v)] \in [Cell -> Cell \cup Lit]
  BY <1>1, <1>2
<1>5. Merge(Meaning(d.value), Meaning(v)) \in [Cell -> Cell \cup Lit]
  BY <1>1, <1>2, MergeType
<1>6. val' \in [Cell -> Cell \cup Lit]
  BY <1>1, <1>3, <1>4, <1>5
<1>7. late' \in BOOLEAN
  BY <1>1, <1>3
<1> QED BY <1>3, <1>6, <1>7

LEMMA CompileDefKeeps == IInv /\ CompileDef => IInv'
<1> SUFFICES ASSUME IInv, CompileDef PROVE IInv'
  OBVIOUS
<1>1. /\ stack # <<>> /\ Top.phase = "compile" /\ Top.n <= Len(Top.prog) /\ Stmt.op = "def"
      /\ UNCHANGED <<text, schemas, inputs>>
  BY DEF CompileDef, At
<1>2. Stmt.kind \in {"type", "expr"} /\ Stmt.lit \in Lit
  BY <1>1, StmtFacts, DefFields
<1>3. \A d \in Own : d.value \in Cell \cup Lit
  <2>1. \A d \in Own : d \in Decl /\ d.kind = Stmt.kind
    BY <1>1, TopFacts, SchemaFacts DEF Own, Here
  <2> QED BY <1>2, <2>1, DeclFields
<1>4. Look.st = "found" => Look.value \in Cell \cup Lit
  <2>1. Look \in LookType
    BY <1>1, TopFacts, CallFields DEF Look
  <2>2. Look.st = "found" => Look.kind = Stmt.kind
    BY <1>1, TopFacts DEF LookingAt, Look, Stmt
  <2> QED BY <1>2, <2>1, <2>2, FoundFields
<1>5. /\ val' \in [Cell -> Cell \cup Lit] /\ late' \in BOOLEAN
      /\ Fail \/ Succeed
  <2>1. CASE \E d \in Own : Unify(d, Stmt.lit)
    BY <1>2, <1>3, <2>1, UnifyType
  <2>2. CASE Look.st = "found" /\ \E d \in Own : Unify(d, Look.value)
    BY <1>3, <1>4, <2>2, UnifyType
  <2>3. CASE Fail /\ UNCHANGED <<val, late>>
    BY <2>3 DEF IInv, TypeOK
  <2>4. \/ \E d \in Own : Unify(d, Stmt.lit)
        \/ Look.st = "found" /\ \E d \in Own : Unify(d, Look.value)
        \/ Fail /\ UNCHANGED <<val, late>>
    BY DEF CompileDef
  <2> QED BY <2>1, <2>2, <2>3, <2>4, Zenon
<1> QED BY <1>1, <1>5, FailKeeps, SucceedKeeps

-------------------------------------------------------------------------------
LEMMA NextPhaseKeeps ==
  ASSUME IInv, NEW from \in {"declare", "compile"}, NEW to \in {"compile", "gather"},
         NextPhase(from, to),
         (from = "declare" /\ to = "compile") \/ (from = "compile" /\ to = "gather")
  PROVE IInv'
<1>1. /\ stack # <<>> /\ Top.phase = from /\ Top.n > Len(Top.prog)
      /\ Becomes([Top EXCEPT !.phase = to, !.n = 1])
      /\ UNCHANGED <<text, schemas, val, inputs, late>>
  BY DEF NextPhase
<1>2. PICK one : one = 1
  OBVIOUS
<1>3. PICK f : f = [Top EXCEPT !.phase = to, !.n = one]
  OBVIOUS
<1>4. one \in Nat \ {0} /\ to \in {"declare", "compile", "gather"}
  BY <1>2
<1>5. /\ f \in CallType
      /\ f.at = Top.at /\ f.by = Top.by /\ f.path = Top.path /\ f.prog = Top.prog
      /\ f.phase = to /\ f.step = Top.step /\ f.look = Top.look /\ f.n = one
  BY <1>1, <1>3, <1>4, TopFacts DEF CallType
<1>6. Top.prog \in Program /\ Top.n \in Nat /\ Top.step \in {"start", "items", "add"}
  BY <1>1, TopFacts, CallFields
<1>7. ~(Top.n <= Len(Top.prog))
  BY <1>1, <1>6 DEF Program
<1>8. Top.step = "start"
  BY <1>1, <1>6, <1>7, TopFacts DEF LookingAt, HasDeclared
<1>9. from = "declare" => Top.look.st = "idle"
  BY <1>1, <1>8, TopFacts DEF LookingAt
<1>10. LookingAt(f)
  BY <1>1, <1>5, <1>8, <1>9, TopFacts DEF LookingAt
<1>11. HasDeclared(f)
  <2>1. ASSUME NEW m \in 1..Len(f.prog), f.prog[m].op = "def"
        PROVE Has(f.at, f.prog[m].kind, f.prog[m].name)
    <3>1. m < Top.n
      BY <1>1, <1>5, <1>6 DEF Program
    <3> QED BY <1>1, <1>5, <2>1, <3>1, TopFacts DEF HasDeclared
  <2> QED BY <1>5, <1>8, <2>1 DEF HasDeclared
<1>12. Becomes(f)
  BY <1>1, <1>2, <1>3
<1> QED BY <1>1, <1>5, <1>10, <1>11, <1>12, QuietStep DEF IInv, TypeOK

LEMMA ResultSet ==
  ASSUME NEW r \in SchemaType, NEW result \in Results
  PROVE LET q == [r EXCEPT !.result = result] IN
        /\ q \in SchemaType /\ q.file = r.file /\ q.by = r.by /\ q.path = r.path
        /\ q.decls = r.decls /\ q.imports = r.imports /\ q.said = r.said /\ q.result = result
  BY DEF SchemaType

LEMMA ImportSet ==
  ASSUME NEW r \in SchemaType, NEW x \in Name, NEW d \in 0..MaxSchema
  PROVE LET q == [r EXCEPT !.imports[x] = d] IN
        /\ q \in SchemaType /\ q.file = r.file /\ q.by = r.by /\ q.path = r.path
        /\ q.decls = r.decls /\ q.said = r.said /\ q.result = r.result
        /\ q.imports = [r.imports EXCEPT ![x] = d]
  BY DEF SchemaType

\* The session's schema is 1, and nothing but its result and its texts changes.
LEMMA SessionChanges ==
  ASSUME IInv, NEW q \in SchemaType, schemas' = [schemas EXCEPT ![1] = q],
         q.file = schemas[1].file, q.by = schemas[1].by, q.path = schemas[1].path,
         q.imports = schemas[1].imports,
         NEW n \in Nat, Len(stack') = n, \A j \in 1..n : stack'[j].at = 1
  PROVE /\ schemas' \in Seq(SchemaType) /\ Len(schemas') \in 1..MaxSchema
        /\ ImportsAreSound' /\ Parents'
<1>1. Len(schemas) \in 1..MaxSchema /\ Len(schemas) \in Nat \ {0} /\ schemas \in Seq(SchemaType)
      /\ 1 \in 1..Len(schemas)
  BY DEF IInv, TypeOK
<1>2. /\ schemas' \in Seq(SchemaType) /\ Len(schemas') = Len(schemas) /\ schemas'[1] = q
      /\ \A c \in 2..Len(schemas) : schemas'[c] = schemas[c]
  BY <1>1
<1>3. ASSUME NEW c \in 1..Len(schemas)
      PROVE /\ schemas'[c].file = schemas[c].file /\ schemas'[c].by = schemas[c].by
            /\ schemas'[c].path = schemas[c].path /\ schemas'[c].imports = schemas[c].imports
            /\ c # 1 => schemas'[c].result = schemas[c].result
  <2>1. c = 1 \/ c \in 2..Len(schemas)
    BY SMTT(60), <1>1
  <2> QED BY <1>2, <2>1
<1>4. ImportsAreSound'
  <2>1. ASSUME NEW c \in 1..Len(schemas), NEW x \in Name, schemas[c].imports[x] # 0
        PROVE LET d == schemas'[c].imports[x] IN
              /\ d \in 1..Len(schemas) /\ d # c
              /\ schemas'[d].file = Resolves[schemas'[c].file][x]
              /\ schemas'[d].by = c /\ schemas'[d].path = x
              /\ schemas'[d].result = "ok"
              /\ \A j \in 1..Len(stack') : stack'[j].at # d
    <3>1. PICK d \in 1..Len(schemas) : d = schemas[c].imports[x] /\ d > c
      <4>1. schemas[c].imports[x] \in 0..Len(schemas) /\ schemas[c].imports[x] > c
        BY <2>1, SchemaFacts
      <4> QED BY <2>1, <4>1, <1>1
    <3>2. /\ d # c
          /\ schemas[d].file = Resolves[schemas[c].file][x]
          /\ schemas[d].by = c /\ schemas[d].path = x /\ schemas[d].result = "ok"
      BY <2>1, <3>1 DEF IInv, ImportsAreSound
    <3>3. d # 1
      BY SMTT(60), <3>1
    <3> QED BY <1>3, <3>1, <3>2, <3>3
  <2> QED BY <1>2, <1>3, <2>1 DEF ImportsAreSound
<1>5. Parents'
  <2>1. schemas'[1].by = 0
    BY <1>1, <1>3 DEF IInv, Parents
  <2>2. ASSUME NEW c \in 2..Len(schemas)
        PROVE /\ schemas'[c].by \in 1..(c - 1)
              /\ schemas'[c].file = Resolves[schemas'[schemas'[c].by].file][schemas'[c].path]
              /\ schemas'[c].result = "ok" => schemas'[schemas'[c].by].imports[schemas'[c].path] = c
    <3>1. schemas[c].by \in 1..(c - 1) /\ c \in 1..Len(schemas) /\ c # 1
      BY <1>1 DEF IInv, Parents
    <3>2. schemas[c].by \in 1..Len(schemas)
      BY <1>1, <3>1
    <3> QED BY <1>3, <3>1, <3>2 DEF IInv, Parents
  <2> QED BY <1>2, <2>1, <2>2 DEF Parents
<1> QED BY <1>1, <1>2, <1>4, <1>5

LEMMA InputKeeps ==
  ASSUME IInv, NEW prog \in Inputs, Input(prog)
  PROVE IInv'
<1>1. /\ stack = <<>> /\ inputs' = inputs + 1 /\ late' = FALSE /\ UNCHANGED <<text, val>>
      /\ schemas' = [schemas EXCEPT ![1].said = Append(@, prog),
                                    ![1].result = IF @ = "bad" THEN @ ELSE "open"]
  BY DEF Input
<1>2. PICK x \in Name : x = CHOOSE y \in Name : TRUE
  BY ImportAssumption
<1>3. PICK call : call = Call(1, prog, 0, x)
  OBVIOUS
<1>4. prog \in Program /\ 1 \in 1..MaxSchema /\ 0 \in 0..MaxSchema
  BY ImportAssumption
<1>5. /\ call \in CallType /\ call.at = 1 /\ call.by = 0 /\ call.phase = "declare"
      /\ call.n = 1 /\ call.step = "start" /\ call.look = Idle /\ call.prog \in Program
  BY <1>3, <1>4, NewCall
<1>6. stack' = <<call>>
  BY <1>2, <1>3 DEF Input
<1>7. stack' \in Seq(CallType) /\ Len(stack') = 1 /\ stack'[1] = call
  BY <1>5, <1>6
<1>8. Len(schemas) \in Nat \ {0} /\ schemas \in Seq(SchemaType) /\ 1 \in 1..Len(schemas)
  BY DEF IInv, TypeOK
<1>9. PICK r \in SchemaType : r = schemas[1]
  BY <1>8
<1>10. PICK said \in Seq(Program), result \in Results :
         said = Append(r.said, prog) /\ result = IF r.result = "bad" THEN r.result ELSE "open"
  <2>1. r.said \in Seq(Program) /\ r.result \in Results
    BY <1>9 DEF SchemaType
  <2>2. Append(r.said, prog) \in Seq(Program)
    BY <1>4, <2>1
  <2>3. (IF r.result = "bad" THEN r.result ELSE "open") \in Results
    BY <2>1 DEF Results
  <2> QED BY <2>2, <2>3
<1>11. PICK q : q = [r EXCEPT !.said = said, !.result = result]
  OBVIOUS
<1>12. /\ q \in SchemaType /\ q.file = r.file /\ q.by = r.by /\ q.path = r.path
       /\ q.imports = r.imports
  <2>1. r \in SchemaType /\ said \in Seq(Program) /\ result \in Results
    BY <1>9, <1>10
  <2>2. LET p == [r EXCEPT !.said = said, !.result = result] IN
        /\ p \in SchemaType /\ p.file = r.file /\ p.by = r.by /\ p.path = r.path
        /\ p.imports = r.imports
    BY <2>1 DEF SchemaType
  <2> QED BY <1>11, <2>2
<1>13. schemas' = [schemas EXCEPT ![1] = q]
  BY <1>1, <1>8, <1>9, <1>10, <1>11
<1>14. 1 \in Nat /\ \A j \in 1..1 : stack'[j].at = 1
  BY <1>5, <1>7
<1>15. /\ schemas' \in Seq(SchemaType) /\ Len(schemas') \in 1..MaxSchema
       /\ ImportsAreSound' /\ Parents'
  BY <1>7, <1>9, <1>12, <1>13, <1>14, SessionChanges
<1>16. TypeOK'
  <2>1. \A j \in 1..Len(stack') : stack'[j].at <= Len(schemas')
    BY <1>5, <1>7, <1>15
  <2>2. val' \in [Cell -> Cell \cup Lit]
        /\ text' \in [File -> Program \cup {Missing, Broken, Unread}]
    BY <1>1 DEF IInv, TypeOK
  <2>3. inputs' \in Nat
    BY <1>1 DEF IInv, TypeOK
  <2>4. late' \in BOOLEAN
    BY <1>1
  <2> QED BY <1>7, <1>15, <2>1, <2>2, <2>3, <2>4 DEF TypeOK
<1>17. Nested'
  BY <1>5, <1>7 DEF Nested
<1>18. Calls'
  <2>1. LookingAt(call)'
    BY <1>5 DEF LookingAt, Idle
  <2>2. HasDeclared(call)'
    BY <1>5 DEF HasDeclared, Program
  <2> QED BY <1>7, <2>1, <2>2 DEF Calls, LookingAt, HasDeclared
<1> QED BY <1>15, <1>16, <1>17, <1>18 DEF IInv

\* The call of the session is the last one.
LEMMA SessionCall ==
  ASSUME IInv, stack # <<>>
  PROVE /\ Top.by = 0 <=> Len(stack) = 1
        /\ Top.by = 0 => Top.at = 1
<1>1. Top = stack[1] /\ Len(stack) \in Nat \ {0} /\ 1 \in 1..Len(stack)
  BY TopFacts
<1>2. CASE Len(stack) = 1
  BY <1>1, <1>2 DEF IInv, Nested
<1>3. CASE Len(stack) # 1
  <2>1. stack[1].by \in 1..(stack[1].at - 1)
    BY <1>1, <1>3, ParentOfCall
  <2> QED BY <1>1, <1>3, <2>1
<1> QED BY <1>2, <1>3

LEMMA ReturnToSession ==
  ASSUME IInv, Return, Top.by = 0
  PROVE IInv'
<1>1. /\ stack # <<>> /\ stack' = <<>> /\ UNCHANGED <<text, val, inputs, late>>
      /\ schemas' = [schemas EXCEPT ![1].result = IF @ = "bad" \/ late THEN "bad" ELSE Outcome]
  BY DEF Return
<1>2. Len(schemas) \in Nat \ {0} /\ schemas \in Seq(SchemaType) /\ 1 \in 1..Len(schemas)
  BY DEF IInv, TypeOK
<1>3. PICK r \in SchemaType : r = schemas[1]
  BY <1>2
<1>4. PICK result \in Results : result = IF r.result = "bad" \/ late THEN "bad" ELSE Outcome
  <2>1. r.result \in Results
    BY <1>3 DEF SchemaType
  <2> QED BY <2>1 DEF Outcome, Results
<1>5. PICK q : q = [r EXCEPT !.result = result]
  OBVIOUS
<1>6. /\ q \in SchemaType /\ q.file = r.file /\ q.by = r.by /\ q.path = r.path
      /\ q.imports = r.imports
  BY <1>3, <1>4, <1>5, ResultSet
<1>7. schemas' = [schemas EXCEPT ![1] = q]
  BY <1>1, <1>2, <1>3, <1>4, <1>5
<1>8. 0 \in Nat /\ Len(stack') = 0 /\ stack' \in Seq(CallType) /\ \A j \in 1..0 : stack'[j].at = 1
  BY <1>1
<1>9. /\ schemas' \in Seq(SchemaType) /\ Len(schemas') \in 1..MaxSchema
      /\ ImportsAreSound' /\ Parents'
  BY <1>3, <1>6, <1>7, <1>8, SessionChanges
<1>10. TypeOK'
  BY <1>1, <1>8, <1>9 DEF IInv, TypeOK
<1>11. Nested' /\ Calls'
  BY <1>8 DEF Nested, Calls
<1> QED BY <1>9, <1>10, <1>11 DEF IInv

LEMMA ReturnToCaller ==
  ASSUME IInv, Return, Top.by # 0
  PROVE IInv'
<1>1. /\ stack # <<>> /\ UNCHANGED <<text, val, inputs, late>>
      /\ schemas' = [schemas EXCEPT
                       ![Top.at].result = Outcome,
                       ![Top.by].imports[Top.path] = IF Outcome = "ok" THEN Top.at ELSE @]
      /\ stack' = <<[stack[2] EXCEPT !.missed = (Outcome = "bad")]>> \o Tail(Tail(stack))
  BY DEF Return, Kept
<1>2. /\ Top = stack[1] /\ Len(stack) \in Nat /\ Len(stack) > 1
      /\ 1 \in 1..Len(stack) /\ 2 \in 1..Len(stack) /\ stack \in Seq(CallType)
  BY SMTT(60), <1>1, TopFacts, SessionCall DEF IInv, TypeOK
<1>3. /\ Len(schemas) \in Nat /\ Len(schemas) \in 1..MaxSchema /\ MaxSchema \in Nat
      /\ schemas \in Seq(SchemaType)
  BY ImportAssumption DEF IInv, TypeOK
\* The names of what the call leaves.
<1>4. PICK s \in 1..Len(schemas), b \in 1..Len(schemas), x \in Name, out \in Results :
        s = Top.at /\ b = Top.by /\ x = Top.path /\ out = Outcome
  <2>1. Top.at \in 1..Len(schemas) /\ Top.by \in 1..Len(schemas) /\ Top.path \in Name
    BY <1>1, <1>2, TopFacts, CallFields, ParentOfCall
  <2> QED BY <2>1 DEF Outcome, Results
<1>5. /\ b < s /\ b >= stack[2].at /\ schemas[s].by = b /\ schemas[s].path = x
      /\ schemas[s].result = "open" /\ schemas[b].imports[x] = 0
  <2>1. stack[1].by \in 1..(stack[1].at - 1)
    BY <1>2, ParentOfCall
  <2>2. b < s
    BY <1>2, <1>4, <2>1
  <2> QED BY <1>2, <1>4, <2>2 DEF IInv, Nested
<1>6. PICK kept \in 0..MaxSchema : kept = IF out = "ok" THEN s ELSE 0
  BY <1>3
<1>7. PICK r \in SchemaType, t \in SchemaType : r = schemas[s] /\ t = schemas[b]
  BY <1>3
<1> DEFINE q == [r EXCEPT !.result = out]
           p == [t EXCEPT !.imports[x] = kept]
<1>71. /\ q \in SchemaType /\ q.file = r.file /\ q.by = r.by /\ q.path = r.path
       /\ q.decls = r.decls /\ q.imports = r.imports /\ q.result = out
  BY <1>4, <1>7, ResultSet
<1>72. /\ p \in SchemaType /\ p.file = t.file /\ p.by = t.by /\ p.path = t.path
       /\ p.decls = t.decls /\ p.result = t.result
       /\ p.imports = [t.imports EXCEPT ![x] = kept]
  BY SMTT(60), <1>4, <1>6, <1>7, ImportSet
<1>8. schemas' = [[schemas EXCEPT ![s] = q] EXCEPT ![b] = p]
  <2>1. schemas' = [[schemas EXCEPT ![s].result = out] EXCEPT
                       ![b].imports[x] = IF out = "ok" THEN s ELSE @]
    BY <1>1, <1>4
  <2>2. PICK mid : mid = [schemas EXCEPT ![s] = q]
    OBVIOUS
  <2>3. mid = [schemas EXCEPT ![s].result = out]
    BY <1>7, <2>2
  <2>4. mid[b] = t /\ mid[b].imports[x] = 0
    BY <1>3, <1>5, <1>7, <2>2
  <2>5. schemas' = [mid EXCEPT ![b].imports[x] = kept]
    BY <1>6, <2>1, <2>3, <2>4
  <2>6. [mid EXCEPT ![b].imports[x] = kept] = [mid EXCEPT ![b] = p]
    BY <2>4
  <2> QED BY <2>2, <2>5, <2>6
<1> HIDE DEF q, p
<1>9. /\ schemas' \in Seq(SchemaType) /\ Len(schemas') = Len(schemas)
      /\ schemas'[s] = q /\ schemas'[b] = p
      /\ \A c \in 1..Len(schemas) : c # s /\ c # b => schemas'[c] = schemas[c]
  BY <1>3, <1>5, <1>8, <1>71, <1>72
<1>10. ASSUME NEW c \in 1..Len(schemas)
       PROVE /\ schemas'[c].file = schemas[c].file /\ schemas'[c].by = schemas[c].by
             /\ schemas'[c].path = schemas[c].path /\ schemas'[c].decls = schemas[c].decls
             /\ c # s => schemas'[c].result = schemas[c].result
             /\ c = s => schemas'[c].result = out
             /\ \A y \in Name : schemas'[c].imports[y] =
                  IF c = b /\ y = x THEN kept ELSE schemas[c].imports[y]
  <2>1. CASE c = s
    BY <1>5, <1>7, <1>71, <1>9, <2>1
  <2>2. CASE c = b
    <3>1. t.imports \in [Name -> 0..MaxSchema]
      BY <1>7, SchemaFacts
    <3>2. \A y \in Name : p.imports[y] = IF y = x THEN kept ELSE t.imports[y]
      BY <1>72, <3>1
    <3>3. schemas'[c] = p /\ schemas[c] = t /\ c # s /\ c = b
      BY <1>5, <1>7, <1>9, <2>2
    <3>4. \A y \in Name : schemas'[c].imports[y] =
            IF c = b /\ y = x THEN kept ELSE schemas[c].imports[y]
      BY <3>2, <3>3
    <3> QED BY <1>72, <3>3, <3>4
  <2>3. CASE c # s /\ c # b
    BY <1>9, <2>3
  <2> QED BY <2>1, <2>2, <2>3
<1>11. PICK g \in CallType :
         /\ g = [stack[2] EXCEPT !.missed = (Outcome = "bad")]
         /\ g.at = stack[2].at /\ g.by = stack[2].by /\ g.path = stack[2].path
         /\ g.prog = stack[2].prog /\ g.phase = stack[2].phase /\ g.n = stack[2].n
         /\ g.step = stack[2].step /\ g.item = stack[2].item /\ g.got = stack[2].got
         /\ g.look = stack[2].look
  <2>1. PICK f \in CallType : f = stack[2]
    BY <1>2
  <2> DEFINE g == [f EXCEPT !.missed = (Outcome = "bad")]
  <2>2. /\ g \in CallType /\ g.at = f.at /\ g.by = f.by /\ g.path = f.path /\ g.prog = f.prog
        /\ g.phase = f.phase /\ g.n = f.n /\ g.step = f.step /\ g.item = f.item
        /\ g.got = f.got /\ g.look = f.look
    <3>1. (Outcome = "bad") \in BOOLEAN
      OBVIOUS
    <3> QED BY ZenonT(60), <2>1, <3>1 DEF CallType
  <2>3. g = [stack[2] EXCEPT !.missed = (Outcome = "bad")]
    BY <2>1
  <2> HIDE DEF g
  <2> QED BY ZenonT(60), <2>1, <2>2, <2>3
<1>12. /\ stack' \in Seq(CallType) /\ Len(stack') = Len(stack) - 1
       /\ \A j \in 1..Len(stack') : stack'[j] = IF j = 1 THEN g ELSE stack[j + 1]
  <2>1. stack' = <<g>> \o Tail(Tail(stack))
    BY <1>1, <1>11
  <2>2. stack \in Seq(CallType) /\ Len(stack) > 1 /\ stack # <<>>
    BY <1>2
  <2>3. PICK u \in Seq(CallType) : /\ u = Tail(stack) /\ Len(u) = Len(stack) - 1 /\ u # <<>>
                                  /\ \A j \in 1..Len(u) : u[j] = stack[j + 1]
    BY ZenonT(60), <2>2, Tailed
  <2>4. stack' = <<g>> \o Tail(u)
    BY <2>1, <2>3
  <2>5. /\ stack' \in Seq(CallType) /\ Len(stack') = Len(u)
        /\ \A j \in 1..Len(stack') : stack'[j] = IF j = 1 THEN g ELSE u[j]
    BY SMTT(60), <2>3, <2>4, Replaced
  <2> QED BY <2>2, <2>3, <2>5
\* Every call that is left was there, below the first.
<1>13. ASSUME NEW j \in 1..Len(stack')
       PROVE /\ j + 1 \in 2..Len(stack) /\ j + 1 \in 1..Len(stack)
             /\ j = Len(stack') <=> j + 1 = Len(stack)
             /\ stack'[j].at = stack[j + 1].at /\ stack'[j].by = stack[j + 1].by
             /\ stack'[j].path = stack[j + 1].path
             /\ stack'[j].at \in 1..Len(schemas) /\ stack'[j].at <= b /\ stack'[j].at # s
  <2>1. /\ j + 1 \in 2..Len(stack) /\ j + 1 \in 1..Len(stack)
        /\ j = Len(stack') <=> j + 1 = Len(stack)
    BY <1>2, <1>12
  <2>2. /\ stack'[j].at = stack[j + 1].at /\ stack'[j].by = stack[j + 1].by
        /\ stack'[j].path = stack[j + 1].path
    <3>1. CASE j = 1
      <4>1. stack'[j] = g /\ j + 1 = 2
        BY <1>12, <3>1
      <4> QED BY <1>11, <4>1
    <3>2. CASE j # 1
      BY <1>12, <3>2
    <3> QED BY <3>1, <3>2
  <2>3. stack[j + 1].at \in 1..Len(schemas) /\ stack[2].at \in 1..Len(schemas)
    BY <1>2, <2>1, StackFacts
  <2>4. stack[j + 1].at <= stack[2].at
    <3>1. CASE j = 1
      <4>1. j + 1 = 2
        BY <3>1
      <4> QED BY <2>3, <4>1
    <3>2. CASE j # 1
      <4>1. 2 < j + 1
        BY <3>2, <1>12
      <4>2. stack[2].at > stack[j + 1].at
        BY SMTT(60), <1>2, <2>1, <4>1 DEF IInv, Nested
      <4> QED BY <2>3, <4>2
    <3> QED BY <3>1, <3>2
  <2> QED BY SMTT(60), <1>5, <2>1, <2>2, <2>3, <2>4
<1>14. TypeOK'
  <2>1. \A j \in 1..Len(stack') : stack'[j].at <= Len(schemas')
    BY <1>3, <1>9, <1>13
  <2> QED BY ZenonT(60), <1>1, <1>3, <1>9, <1>12, <2>1 DEF IInv, TypeOK
<1>15. ImportsAreSound'
  <2>1. ASSUME NEW c \in 1..Len(schemas), NEW y \in Name, schemas'[c].imports[y] # 0
        PROVE LET d == schemas'[c].imports[y] IN
              /\ d \in 1..Len(schemas) /\ d # c
              /\ schemas'[d].file = Resolves[schemas'[c].file][y]
              /\ schemas'[d].by = c /\ schemas'[d].path = y
              /\ schemas'[d].result = "ok"
              /\ \A j \in 1..Len(stack') : stack'[j].at # d
    <3>1. CASE c = b /\ y = x
      <4>1. schemas'[c].imports[y] = s /\ out = "ok"
        BY <1>6, <1>10, <2>1, <3>1
      <4>2. s \in 2..Len(schemas)
        BY <1>5
      <4>3. schemas[s].file = Resolves[schemas[b].file][x]
        BY <1>5, <4>2 DEF IInv, Parents
      <4>4. \A j \in 1..Len(stack') : stack'[j].at # s
        BY <1>13
      <4> QED BY <1>5, <1>10, <3>1, <4>1, <4>3, <4>4
    <3>2. CASE ~(c = b /\ y = x)
      <4>1. PICK d \in Nat : d = schemas[c].imports[y]
        <5>1. schemas[c].imports[y] \in 0..Len(schemas)
          BY SchemaFacts
        <5> QED BY <5>1, <1>3
      <4>2. d = schemas'[c].imports[y] /\ d # 0
        BY <1>10, <2>1, <3>2, <4>1
      <4>3. /\ d \in 1..Len(schemas) /\ d # c
            /\ schemas[d].file = Resolves[schemas[c].file][y]
            /\ schemas[d].by = c /\ schemas[d].path = y /\ schemas[d].result = "ok"
            /\ \A j \in 1..Len(stack) : stack[j].at # d
        <5>1. d # 0 /\ d = schemas[c].imports[y]
          BY <4>1, <4>2
        <5> QED BY SMTT(60), <5>1, ImportFacts
      <4>4. d # s
        BY <1>5, <4>3
      <4>5. \A j \in 1..Len(stack') : stack'[j].at # d
        BY <1>13, <4>3
      <4>6. /\ schemas'[d].file = schemas[d].file /\ schemas'[d].by = schemas[d].by
            /\ schemas'[d].path = schemas[d].path /\ schemas'[d].result = schemas[d].result
            /\ schemas'[c].file = schemas[c].file
        BY <1>10, <4>3, <4>4
      <4> QED BY <4>2, <4>3, <4>5, <4>6
    <3> QED BY <3>1, <3>2
  <2> QED BY <1>9, <2>1 DEF ImportsAreSound
<1>16. Parents'
  <2>1. schemas'[1].by = 0
    <3>1. 1 \in 1..Len(schemas)
      BY <1>3
    <3> QED BY <1>10, <3>1 DEF IInv, Parents
  <2>2. ASSUME NEW c \in 2..Len(schemas)
        PROVE /\ schemas'[c].by \in 1..(c - 1)
              /\ schemas'[c].file = Resolves[schemas'[schemas'[c].by].file][schemas'[c].path]
              /\ schemas'[c].result = "ok" => schemas'[schemas'[c].by].imports[schemas'[c].path] = c
    <3>1. /\ schemas[c].by \in 1..(c - 1)
          /\ schemas[c].file = Resolves[schemas[schemas[c].by].file][schemas[c].path]
          /\ schemas[c].result = "ok" => schemas[schemas[c].by].imports[schemas[c].path] = c
      BY DEF IInv, Parents
    <3>2. c \in 1..Len(schemas) /\ schemas[c].by \in 1..Len(schemas) /\ c # 0
      BY <1>3, <3>1
    <3>3. schemas[c].path \in Name
      BY <3>2, SchemaFacts
    <3>4. /\ schemas'[c].by \in 1..(c - 1)
          /\ schemas'[c].file = Resolves[schemas'[schemas'[c].by].file][schemas'[c].path]
      BY SMTT(60), <1>10, <3>1, <3>2
    <3>5. ASSUME schemas'[c].result = "ok"
          PROVE schemas'[schemas[c].by].imports[schemas[c].path] = c
      <4>1. CASE c = s
        <5>1. out = "ok"
          BY <1>10, <3>2, <3>5, <4>1
        <5> QED BY <1>5, <1>6, <1>10, <4>1, <5>1
      <4>2. CASE c # s
        <5>1. schemas[schemas[c].by].imports[schemas[c].path] = c
          BY <1>10, <3>1, <3>2, <3>5, <4>2
        <5>2. ~(schemas[c].by = b /\ schemas[c].path = x)
          BY <1>5, <3>2, <5>1
        <5> QED BY <1>10, <3>2, <3>3, <5>1, <5>2
      <4> QED BY <4>1, <4>2
    <3>6. schemas'[c].by = schemas[c].by /\ schemas'[c].path = schemas[c].path
      BY <1>10, <3>2
    <3> QED BY <3>4, <3>5, <3>6
  <2> QED BY <1>9, <2>1, <2>2 DEF Parents
<1>17. Nested'
  <2>1. ASSUME NEW i \in 1..Len(stack'), NEW j \in 1..Len(stack'), i < j
        PROVE stack'[i].at > stack'[j].at
    <3>1. /\ i + 1 \in 1..Len(stack) /\ j + 1 \in 1..Len(stack)
          /\ stack'[i].at = stack[i + 1].at /\ stack'[j].at = stack[j + 1].at
      BY <1>13
    <3>2. i + 1 < j + 1
      BY <1>12, <2>1
    <3> QED BY <3>1, <3>2 DEF IInv, Nested
  <2>2. ASSUME NEW j \in 1..Len(stack')
        PROVE IF j = Len(stack') THEN stack'[j].at = 1 /\ stack'[j].by = 0
              ELSE /\ stack'[j].at > 1 /\ stack'[j].by >= stack'[j + 1].at
                   /\ stack'[j].by = schemas'[stack'[j].at].by
                   /\ stack'[j].path = schemas'[stack'[j].at].path
                   /\ schemas'[stack'[j].at].result = "open"
                   /\ schemas'[stack'[j].by].imports[stack'[j].path] = 0
    <3>1. PICK i \in 1..Len(stack) : i = j + 1 /\ (j = Len(stack') <=> i = Len(stack))
      BY <1>13
    <3>2. stack'[j].at = stack[i].at /\ stack'[j].by = stack[i].by /\ stack'[j].path = stack[i].path
      BY <1>13, <3>1
    <3>3. CASE j = Len(stack')
      BY <3>1, <3>2, <3>3 DEF IInv, Nested
    <3>4. CASE j # Len(stack')
      <4>1. /\ stack[i].at > 1 /\ stack[i].by >= stack[i + 1].at
            /\ stack[i].by = schemas[stack[i].at].by
            /\ stack[i].path = schemas[stack[i].at].path
            /\ schemas[stack[i].at].result = "open"
            /\ schemas[stack[i].by].imports[stack[i].path] = 0
        BY <3>1, <3>4 DEF IInv, Nested
      <4>2. /\ stack[i].at \in 1..Len(schemas) /\ stack[i].by \in 1..(stack[i].at - 1)
            /\ stack[i].by \in 1..Len(schemas)
        BY <3>1, <3>4, StackFacts, ParentOfCall
      <4>3. stack[i].at <= b /\ stack[i].at # s
        BY <1>13, <3>2
      <4>4. stack[i].by # b
        BY <4>2, <4>3
      <4>5. stack[i].path \in Name
        BY StackFacts, CallFields
      <4>6. stack'[j + 1].at = stack[i + 1].at
        <5>1. j + 1 \in 1..Len(stack')
          BY SMTT(60), <1>12, <1>2, <3>4
        <5> QED BY <1>13, <3>1, <5>1
      <4>7. /\ stack'[j].at > 1 /\ stack'[j].by >= stack'[j + 1].at
            /\ stack'[j].by = schemas'[stack'[j].at].by
            /\ stack'[j].path = schemas'[stack'[j].at].path
        BY SMTT(60), <1>10, <3>2, <4>1, <4>2, <4>6
      <4>8. /\ schemas'[stack'[j].at].result = "open"
            /\ schemas'[stack'[j].by].imports[stack'[j].path] = 0
        <5>1. schemas'[stack[i].at].result = schemas[stack[i].at].result
          BY <1>10, <3>2, <4>2, <4>3
        <5>2. schemas'[stack[i].by].imports[stack[i].path] = schemas[stack[i].by].imports[stack[i].path]
          BY ZenonT(60), <1>10, <4>2, <4>4, <4>5
        <5> QED BY <3>2, <4>1, <5>1, <5>2
      <4> QED BY <3>4, <4>7, <4>8
    <3> QED BY <3>3, <3>4
  <2> QED BY <2>1, <2>2 DEF Nested
<1>18. Calls'
  <2>1. ASSUME NEW j \in 1..Len(stack')
        PROVE LookingAt(stack[j])' /\ HasDeclared(stack[j])'
    <3>1. PICK h \in CallType : h = stack'[j]
      BY <1>12
    <3>2. h.at \in 1..Len(schemas)
      BY <1>13, <3>1
    <3>3. LookingAt(h) /\ HasDeclared(h)
      <4>1. CASE j = 1
        <5>1. h = g
          BY SMTT(60), <1>12, <3>1, <4>1
        <5>2. LookingAt(stack[2]) /\ HasDeclared(stack[2])
          BY SMTT(60), <1>2 DEF IInv, Calls
        <5>3. LookingAt(g)
          BY ZenonT(60), <1>11, <5>2 DEF LookingAt
        <5>4. HasDeclared(g)
          BY <1>11, <5>2 DEF HasDeclared
        <5> QED BY <5>1, <5>3, <5>4
      <4>2. CASE j # 1
        <5>1. h = stack[j + 1] /\ j + 1 \in 1..Len(stack)
          BY <1>12, <1>13, <3>1, <4>2
        <5> QED BY <5>1 DEF IInv, Calls
      <4> QED BY <4>1, <4>2
    <3>4. ASSUME NEW k, NEW y, Has(h.at, k, y) PROVE Has(h.at, k, y)'
      BY <1>10, <3>2, <3>4 DEF Has
    <3>5. HasDeclared(h)'
      BY <3>3, <3>4 DEF HasDeclared
    <3>6. ASSUME NEW y \in Name, schemas[h.at].imports[y] # 0 PROVE schemas'[h.at].imports[y] # 0
      BY SMTT(60), <1>5, <1>10, <3>2, <3>6
    <3>7. h.step = "items" => h.prog[h.n].from \in Name
      <4>1. h.prog \in Program /\ h.n \in Nat \ {0}
        BY CallFields
      <4>2. ASSUME h.step = "items" PROVE h.n \in 1..Len(h.prog) /\ h.prog[h.n].op = "import"
        BY <3>3, <4>1, <4>2 DEF LookingAt
      <4>3. ASSUME h.step = "items" PROVE h.prog[h.n] \in Import
        BY SMTT(60), <4>1, <4>2, <4>3 DEF Program, Import, Def
      <4> QED BY <4>3, ImportFields
    <3>8. LookingAt(h)'
      BY <1>9, <3>3, <3>6, <3>7 DEF LookingAt
    <3> QED BY <3>1, <3>5, <3>8 DEF LookingAt, HasDeclared
  <2> QED BY <2>1 DEF Calls
<1> QED BY <1>14, <1>15, <1>16, <1>17, <1>18 DEF IInv

-------------------------------------------------------------------------------
LEMMA InitHolds == Init => IInv
<1> SUFFICES ASSUME Init PROVE IInv
  OBVIOUS
<1>1. /\ text = [f \in File |-> Unread] /\ val = [c \in Cell |-> c]
      /\ stack = <<>> /\ inputs = 0 /\ late = FALSE
  BY DEF Init
<1>2. PICK x \in Name : x = CHOOSE y \in Name : TRUE
  BY ImportAssumption
<1>3. PICK new : new = NewSchema(Root, 0, x)
  OBVIOUS
<1>4. /\ new \in SchemaType /\ new.by = 0 /\ \A y \in Name : new.imports[y] = 0
  <2>1. PICK none : none = [y \in Name |-> 0]
    OBVIOUS
  <2>2. PICK zero \in 0..MaxSchema : zero = 0
    BY ImportAssumption
  <2>3. none \in [Name -> 0..MaxSchema]
    BY <2>1, ImportAssumption
  <2>4. new = [file |-> Root, by |-> zero, path |-> x, decls |-> {}, said |-> <<>>,
               imports |-> none, result |-> "open"]
    BY <1>3, <2>1, <2>2 DEF NewSchema
  <2>5. Root \in File /\ x \in Name
    BY <1>2, ImportAssumption
  <2>6. new \in SchemaType /\ new.by = zero /\ new.imports = none
    BY <2>2, <2>3, <2>4, <2>5 DEF SchemaType, Results
  <2> QED BY <2>1, <2>2, <2>6
<1>5. schemas = <<new>>
  BY <1>2, <1>3 DEF Init
<1>6. schemas \in Seq(SchemaType) /\ Len(schemas) = 1 /\ schemas[1] = new
  BY <1>4, <1>5
<1>7. TypeOK
  <2>1. Len(schemas) \in 1..MaxSchema
    BY <1>6, ImportAssumption
  <2>2. text \in [File -> Program \cup {Missing, Broken, Unread}]
    BY <1>1
  <2>3. val \in [Cell -> Cell \cup Lit]
    BY <1>1
  <2>4. stack \in Seq(CallType) /\ Len(stack) = 0
    BY <1>1
  <2>5. inputs \in Nat
    BY <1>1
  <2>6. late \in BOOLEAN
    BY <1>1
  <2> QED BY <1>6, <2>1, <2>2, <2>3, <2>4, <2>5, <2>6 DEF TypeOK
<1>8. ImportsAreSound
  BY <1>4, <1>6 DEF ImportsAreSound
<1>9. Parents
  BY <1>4, <1>6 DEF Parents
<1>10. Nested /\ Calls
  BY <1>1 DEF Nested, Calls
<1> QED BY <1>7, <1>8, <1>9, <1>10 DEF IInv

LEMMA WorkKeeps == IInv /\ Work => IInv'
<1> SUFFICES ASSUME IInv, Work PROVE IInv'
  OBVIOUS
<1>1. CASE Lookup
  BY <1>1, LookFindsKeeps, LookFollowsKeeps, LookFallsBackKeeps DEF Lookup
<1>2. CASE Declare
  BY <1>2, DeclareDefKeeps, DeclareImportKeeps, LookForItemKeeps, ImportItemKeeps,
     ItemsDoneKeeps, AddDeclKeeps, DeclaredKeeps DEF Declare
<1>3. CASE Compile
  BY <1>3, CompileImportKeeps, LookForPathKeeps, CompileDefKeeps DEF Compile
<1>4. CASE EndDeclare
  <2>1. PICK from \in {"declare", "compile"}, to \in {"compile", "gather"} :
          from = "declare" /\ to = "compile"
    OBVIOUS
  <2>2. NextPhase(from, to)
    BY <1>4, <2>1 DEF EndDeclare
  <2> QED BY <2>1, <2>2, NextPhaseKeeps
<1>5. CASE EndCompile
  <2>1. PICK from \in {"declare", "compile"}, to \in {"compile", "gather"} :
          from = "compile" /\ to = "gather"
    OBVIOUS
  <2>2. NextPhase(from, to)
    BY <1>5, <2>1 DEF EndCompile
  <2> QED BY <2>1, <2>2, NextPhaseKeeps
<1>6. CASE Return
  BY <1>6, ReturnToSession, ReturnToCaller
<1> QED BY <1>1, <1>2, <1>3, <1>4, <1>5, <1>6 DEF Work

LEMMA StutterKeeps == IInv /\ UNCHANGED vars => IInv'
<1> SUFFICES ASSUME IInv, UNCHANGED vars PROVE IInv'
  OBVIOUS
<1>1. UNCHANGED <<text, schemas, val, stack, inputs, late>>
  BY DEF vars
<1>2. TypeOK'
  BY <1>1 DEF IInv, TypeOK
<1>3. ImportsAreSound'
  BY <1>1 DEF IInv, ImportsAreSound
<1>4. Parents'
  BY <1>1 DEF IInv, Parents
<1>5. Nested'
  BY <1>1 DEF IInv, Nested
<1>6. Calls'
  <2>1. ASSUME NEW j \in 1..Len(stack) PROVE LookingAt(stack[j])' /\ HasDeclared(stack[j])'
    <3>1. LookingAt(stack[j]) /\ HasDeclared(stack[j])
      BY DEF IInv, Calls
    <3>2. stack'[j] = stack[j]
      BY SMTT(60), <1>1
    <3>3. LookingAt(stack[j])'
      BY SMTT(60), <1>1, <3>1, <3>2 DEF LookingAt
    <3>4. HasDeclared(stack[j])'
      BY SMTT(60), <1>1, <3>1, <3>2 DEF HasDeclared, Has
    <3> QED BY <3>3, <3>4
  <2> QED BY <1>1, <2>1 DEF Calls
<1> QED BY <1>2, <1>3, <1>4, <1>5, <1>6 DEF IInv

LEMMA Inductive == Spec => []IInv
<1>1. IInv /\ [Next]_vars => IInv'
  <2> SUFFICES ASSUME IInv, [Next]_vars PROVE IInv'
    OBVIOUS
  <2>1. CASE \E prog \in Inputs : Input(prog)
    BY <2>1, InputKeeps
  <2>2. CASE Work
    BY <2>2, WorkKeeps
  <2>3. CASE UNCHANGED vars
    BY <2>3, StutterKeeps
  <2> QED BY <2>1, <2>2, <2>3 DEF Next
<1> QED BY <1>1, InitHolds, PTL DEF Spec

-------------------------------------------------------------------------------
\* Every variable keeps its type: calls, lookups and declarations are built from the parts
\* that the compiler has at that point.
THEOREM TypeCorrect == Spec => []TypeOK
<1>1. IInv => TypeOK
  BY DEF IInv
<1> QED BY <1>1, Inductive, PTL

\* An import is always the finished, error-free schema of the file that the path means, and
\* never one that is still being compiled.
THEOREM ImportsAlwaysSound == Spec => []ImportsAreSound
<1>1. IInv => ImportsAreSound
  BY DEF IInv
<1> QED BY <1>1, Inductive, PTL

\* A definition that is compiled finds its declaration: the "reprocessing" errors of
\* unify_type_decl and unify_expr_decl are not reachable.
THEOREM AlwaysDeclared == Spec => []OwnDeclared
<1>1. IInv => OwnDeclared
  <2> SUFFICES ASSUME IInv, At("compile"), Stmt.op = "def" PROVE Own # {}
    BY DEF OwnDeclared
  <2>1. stack # <<>> /\ Top.phase = "compile" /\ Top.n <= Len(Top.prog)
    BY DEF At
  <2>2. Top.n \in 1..Len(Top.prog)
    BY <2>1, StmtFacts
  <2>3. Has(Top.at, Stmt.kind, Stmt.name)
    BY <2>1, <2>2, TopFacts DEF HasDeclared, Stmt
  <2> QED BY <2>3 DEF Has, Own, Here
<1> QED BY <1>1, Inductive, PTL

\* What was compiled without an error for a path of a schema is never compiled again.
THEOREM NeverCompiledAgain == Spec => []CompiledOnce
<1>1. IInv => CompiledOnce
  <2> SUFFICES ASSUME IInv, NEW c \in 2..Len(schemas), NEW d \in 2..Len(schemas),
                      schemas[c].by = schemas[d].by, schemas[c].path = schemas[d].path,
                      schemas[c].result = "ok", schemas[d].result = "ok"
               PROVE c = d
    BY DEF CompiledOnce
  <2>1. /\ schemas[schemas[c].by].imports[schemas[c].path] = c
        /\ schemas[schemas[d].by].imports[schemas[d].path] = d
    BY DEF IInv, Parents
  <2> QED BY <2>1
<1> QED BY <1>1, Inductive, PTL

-------------------------------------------------------------------------------
(* No definition of another schema's cells: CellsInv.  Schemas and declarations are only    *)
(* ever added, and most steps change neither the cells nor what is declared.                *)
More ==
    /\ Len(schemas') \in Nat /\ Len(schemas) <= Len(schemas')
    /\ \A c \in 1..Len(schemas) : schemas[c].decls \subseteq schemas'[c].decls

SameCells ==
    /\ UNCHANGED val
    /\ Len(schemas') \in Nat /\ Len(schemas) <= Len(schemas')
    /\ \A c \in 1..Len(schemas) : schemas'[c].decls = schemas[c].decls
    /\ \A c \in 1..Len(schemas') : c > Len(schemas) => schemas'[c].decls = {}

LEMMA SameIsMore == SameCells => More
  BY DEF SameCells, More

LEMMA RootedStays ==
  ASSUME IInv, More, NEW k, NEW v, NEW c \in Nat, Rooted(k, v, c)
  PROVE Rooted(k, v, c)'
<1> SUFFICES ASSUME k # "schema", v \in Cell
             PROVE v.at \in c..Len(schemas') /\ Has(v.at, v.kind, v.name)'
  BY DEF Rooted
<1>1. v.at \in c..Len(schemas) /\ Has(v.at, v.kind, v.name)
  BY DEF Rooted
<1>2. v.at \in 1..MaxSchema /\ Len(schemas) \in Nat
  BY DEF Cell, IInv, TypeOK
<1>3. v.at \in 1..Len(schemas)
  BY <1>1, <1>2, ImportAssumption
<1>4. v.at \in c..Len(schemas')
  BY <1>1, <1>2, <1>3 DEF More
<1>5. Has(v.at, v.kind, v.name)'
  BY <1>1, <1>3 DEF Has, More
<1> QED BY <1>4, <1>5

LEMMA RootedBelow ==
  ASSUME IInv, NEW k, NEW v, NEW c \in Nat, NEW b \in Nat, b <= c, Rooted(k, v, c)
  PROVE Rooted(k, v, b)
<1>1. v \in Cell => v.at \in 1..MaxSchema
  BY DEF Cell
<1> QED BY <1>1, ImportAssumption DEF Rooted, IInv, TypeOK

LEMMA RootedCallStays ==
  ASSUME IInv, More, NEW f \in CallType, RootedCall(f)
  PROVE RootedCall(f)'
<1>1. f.at \in Nat
  BY CallFields, ImportAssumption
<1>2. f.look.st = "found" => Rooted(f.look.kind, f.look.value, f.at)'
  BY <1>1, RootedStays DEF RootedCall
<1>3. ASSUME ~AddsOwn(f), NEW e \in f.got PROVE Rooted(e.kind, e.value, f.at)'
  BY <1>1, <1>3, RootedStays DEF RootedCall
<1>4. AddsOwn(f)' <=> AddsOwn(f)
  BY DEF AddsOwn
<1>5. AddsOwn(f) => \A e \in f.got : e.value = CellOf(f, f.n) /\ \A o \in f.got : o = e
  BY DEF RootedCall
<1> QED BY <1>2, <1>3, <1>4, <1>5 DEF RootedCall, CellOf

LEMMA UntouchedStays ==
  ASSUME IInv, CellsInv, More, UNCHANGED val
  PROVE Untouched'
<1>1. ASSUME NEW t \in Cell, ~IsDeclared(t)' PROVE ~IsDeclared(t)
  <2>1. t.at \in 1..MaxSchema /\ Len(schemas) \in Nat
    BY DEF Cell, IInv, TypeOK
  <2>2. SUFFICES ASSUME IsDeclared(t) PROVE FALSE
    OBVIOUS
  <2>3. t.at \in 1..Len(schemas) /\ Has(t.at, t.kind, t.name)
    BY <2>1, <2>2, ImportAssumption DEF IsDeclared
  <2>4. t.at <= Len(schemas') /\ Has(t.at, t.kind, t.name)'
    BY <2>1, <2>3 DEF More, Has
  <2> QED BY <1>1, <2>4 DEF IsDeclared
<1>2. ASSUME NEW t \in Cell, ~IsDeclared(t)' PROVE \A c \in Cell : val'[c] = t <=> c = t
  BY <1>1, <1>2 DEF CellsInv, Untouched
<1> QED BY <1>2 DEF Untouched

LEMMA DeclsStay ==
  ASSUME IInv, CellsInv, SameCells
  PROVE /\ \A c \in 1..Len(schemas') : \A d \in schemas'[c].decls : Rooted(d.kind, d.value, c)'
        /\ Untouched'
<1>1. Len(schemas) \in Nat /\ More
  BY SameIsMore DEF IInv, TypeOK
<1>2. ASSUME NEW c \in 1..Len(schemas'), NEW d \in schemas'[c].decls
      PROVE Rooted(d.kind, d.value, c)'
  <2>1. c \in 1..Len(schemas) /\ d \in schemas[c].decls
    BY <1>1, <1>2 DEF SameCells
  <2>2. Rooted(d.kind, d.value, c)
    BY <2>1 DEF CellsInv, Values
  <2> QED BY <1>1, <2>1, <2>2, RootedStays
<1>3. Untouched'
  BY <1>1, UntouchedStays DEF SameCells
<1> QED BY <1>2, <1>3

LEMMA UndefinedStays ==
  ASSUME IInv, SameCells, NEW f \in CallType, f.at \in 1..Len(schemas), Undefined(f)
  PROVE Undefined(f)'
<1>1. Pending(f)' = Pending(f)
  BY DEF Pending
<1>2. ASSUME f.errs = {}, NEW m \in Pending(f) PROVE OwnCell(f, m)'
  <2>1. OwnCell(f, m)
    BY <1>2 DEF Undefined
  <2>2. PICK t : t = CellOf(f, m)
    OBVIOUS
  <2>3. /\ val'[t] = t /\ \A c \in Cell : val'[c] = t => c.at = f.at
        /\ \A d \in schemas'[f.at].decls : d.kind = t.kind /\ d.name = t.name => d.value = t
        /\ \A l \in Pending(f) : CellOf(f, l) = t => l = m
    BY <2>1, <2>2 DEF OwnCell, SameCells
  <2> QED BY <1>1, <2>2, <2>3 DEF OwnCell, CellOf
<1> QED BY <1>1, <1>2 DEF Undefined

\* A step of the innermost call that changes neither schemas nor cells.
LEMMA QuietCells ==
  ASSUME IInv, CellsInv, stack # <<>>, NEW f \in CallType, Becomes(f), UNCHANGED <<schemas, val>>,
         f.at = Top.at, f.prog = Top.prog, RootedCall(f),
         f.errs = {} => Top.errs = {} /\ Pending(f) \subseteq Pending(Top)
  PROVE CellsInv'
<1>1. /\ stack' \in Seq(CallType) /\ Len(stack') = Len(stack)
      /\ \A j \in 1..Len(stack) : stack'[j] = IF j = 1 THEN f ELSE stack[j]
  BY Replaced DEF Becomes, IInv, TypeOK
<1>2. SameCells
  BY DEF SameCells, IInv, TypeOK
<1>3. Top = stack[1] /\ 1 \in 1..Len(stack) /\ Top.at \in 1..Len(schemas)
  BY TopFacts
<1>4. Undefined(f)
  <2>1. SUFFICES ASSUME f.errs = {}, NEW m \in Pending(f) PROVE OwnCell(f, m)
    BY DEF Undefined
  <2>2. m \in Pending(Top) /\ Undefined(Top)
    BY <1>3, <2>1 DEF CellsInv
  <2>3. OwnCell(Top, m)
    BY <2>1, <2>2 DEF Undefined
  <2>4. \A l : CellOf(f, l) = CellOf(Top, l)
    BY DEF CellOf
  <2>5. PICK t : t = CellOf(f, m)
    OBVIOUS
  <2>6. /\ val[t] = t /\ \A c \in Cell : val[c] = t => c.at = f.at
        /\ \A d \in schemas[f.at].decls : d.kind = t.kind /\ d.name = t.name => d.value = t
        /\ \A l \in Pending(f) : CellOf(f, l) = t => l = m
    BY <2>1, <2>3, <2>4, <2>5 DEF OwnCell
  <2> QED BY <2>5, <2>6 DEF OwnCell
<1>5. ASSUME NEW j \in 1..Len(stack') PROVE RootedCall(stack[j])' /\ Undefined(stack[j])'
  <2>1. PICK g \in CallType : g = stack'[j]
    BY <1>1
  <2>2. g.at \in 1..Len(schemas) /\ RootedCall(g) /\ Undefined(g)
    <3>1. CASE j = 1
      BY <1>1, <1>3, <1>4, <2>1, <3>1
    <3>2. CASE j # 1
      BY <1>1, <2>1, <3>2, StackFacts DEF CellsInv, Values
    <3> QED BY <3>1, <3>2
  <2>3. RootedCall(g)' /\ Undefined(g)'
    BY <1>2, <2>2, SameIsMore, RootedCallStays, UndefinedStays
  <2> QED BY <2>1, <2>3 DEF RootedCall, Undefined
<1>6. Values'
  BY <1>2, <1>5, DeclsStay DEF Values
<1> QED BY <1>2, <1>5, <1>6, DeclsStay DEF CellsInv

LEMMA TopRooted ==
  ASSUME IInv, CellsInv, stack # <<>>
  PROVE RootedCall(Top) /\ Undefined(Top) /\ Top.at \in Nat
<1>1. Top = stack[1] /\ 1 \in 1..Len(stack) /\ Top.at \in Nat
  BY TopFacts DEF IInv, TypeOK
<1> QED BY <1>1 DEF CellsInv, Values

\* The innermost call when it goes on to the next statement.
LEMMA NextFields ==
  ASSUME IInv, stack # <<>>, NEW errs \in SUBSET Nat, NextStatement(errs)
  PROVE \E f \in CallType :
          /\ Becomes(f) /\ f.at = Top.at /\ f.prog = Top.prog /\ f.phase = Top.phase
          /\ f.step = "start" /\ f.look.st = "idle" /\ f.n = Top.n + 1 /\ f.got = {}
          /\ f.item = 1 /\ f.k = 1 /\ f.errs = Top.errs \cup errs
<1> DEFINE f == [Top EXCEPT !.n = @ + 1, !.step = "start", !.item = 1, !.k = 1, !.got = {},
                            !.found = FALSE, !.missed = FALSE, !.look = Idle,
                            !.errs = @ \cup errs]
<1>1. f \in CallType
  <2>1. Top \in CallType
    BY TopFacts
  <2>2. Idle \in LookType
    BY DEF LookType
  <2>3. Top.n \in Nat \ {0} /\ Top.errs \subseteq Nat
    BY <2>1, CallFields
  <2>4. Top.n + 1 \in Nat \ {0}
    BY <2>3
  <2>5. Top.errs \cup errs \in SUBSET Nat
    BY <2>3
  <2>6. 1 \in Nat \ {0} /\ 1 \in 1..3
    OBVIOUS
  <2> QED BY <2>1, <2>2, <2>4, <2>5, <2>6, NextCall
<1>2. /\ f.at = Top.at /\ f.prog = Top.prog /\ f.phase = Top.phase /\ f.step = "start"
      /\ f.look.st = "idle" /\ f.n = Top.n + 1 /\ f.got = {}
      /\ f.item = 1 /\ f.k = 1 /\ f.errs = Top.errs \cup errs
  BY TopFacts DEF CallType, Idle
<1>3. Becomes(f)
  BY DEF NextStatement
<1> QED BY <1>1, <1>2, <1>3

LEMMA NextCells ==
  ASSUME IInv, CellsInv, stack # <<>>, NEW errs \in SUBSET Nat, NextStatement(errs),
         UNCHANGED <<schemas, val>>,
         errs = {} /\ Top.phase = "declare" /\ Top.n <= Len(Top.prog) /\ Stmt.op = "def"
           => Top.step = "add" /\ Top.got = {}
  PROVE CellsInv'
<1>1. Top.n \in Nat \ {0} /\ Top.prog \in Program
  BY TopFacts, CallFields
<1>2. PICK f \in CallType :
        /\ Becomes(f) /\ f.at = Top.at /\ f.prog = Top.prog /\ f.phase = Top.phase
        /\ f.step = "start" /\ f.look.st = "idle" /\ f.n = Top.n + 1 /\ f.got = {}
        /\ f.errs = Top.errs \cup errs
  BY SMTT(30), NextFields
<1>3. RootedCall(f)
  BY <1>2 DEF RootedCall, AddsOwn
<1>4. ASSUME f.errs = {} PROVE Top.errs = {} /\ Pending(f) \subseteq Pending(Top)
  <2>1. Top.errs = {} /\ errs = {}
    BY <1>2, <1>4
  <2>2. ASSUME NEW m \in 1..Len(Top.prog), Top.prog[m].op = "def", Top.phase = "declare", m < Top.n + 1
        PROVE m < Top.n \/ (m = Top.n /\ Top.step = "add" /\ Top.got = {})
    <3>1. m < Top.n \/ m = Top.n
      BY <1>1, <2>2
    <3>2. ASSUME m = Top.n PROVE Top.step = "add" /\ Top.got = {}
      <4>1. Top.n <= Len(Top.prog)
        BY <1>1, <3>2 DEF Program
      <4> QED BY <2>1, <2>2, <3>2, <4>1 DEF Stmt
    <3> QED BY <3>1, <3>2
  <2>3. \A m \in 1..Len(Top.prog) : m >= Top.n + 1 => m >= Top.n
    BY <1>1
  <2> QED BY ZenonT(60), <1>2, <2>1, <2>2, <2>3 DEF Pending
<1> QED BY <1>2, <1>3, <1>4, QuietCells

LEMMA FailCells ==
  ASSUME IInv, CellsInv, stack # <<>>, Fail, UNCHANGED <<schemas, val>>
  PROVE CellsInv'
<1>1. {Top.n} \in SUBSET Nat /\ {Top.n} # {}
  BY TopFacts, CallFields
<1> QED BY <1>1, NextCells DEF Fail

LEMMA AnsweredCells ==
  ASSUME IInv, CellsInv, stack # <<>>, NEW a \in LookType, Answer(a), UNCHANGED <<schemas, val>>,
         a.st = "found" => Rooted(a.kind, a.value, Top.at)
  PROVE CellsInv'
<1> DEFINE f == [Top EXCEPT !.look = a, !.missed = FALSE]
<1>1. /\ f \in CallType
      /\ f.at = Top.at /\ f.prog = Top.prog /\ f.phase = Top.phase /\ f.step = Top.step
      /\ f.look = a /\ f.n = Top.n /\ f.got = Top.got /\ f.errs = Top.errs
  BY TopFacts DEF CallType
<1>2. Becomes(f)
  BY DEF Answer
<1> HIDE DEF f
<1>3. RootedCall(f)
  BY <1>1, TopRooted DEF RootedCall, AddsOwn, CellOf
<1>4. Pending(f) = Pending(Top)
  BY <1>1 DEF Pending
<1> QED BY <1>1, <1>2, <1>3, <1>4, QuietCells

LEMMA AddsCells ==
  ASSUME IInv, CellsInv, At("declare"), Top.step # "add", NEW got \in SUBSET EntryType, Adds(got),
         UNCHANGED <<schemas, val>>,
         Top.look.st = "idle",
         Stmt.op = "def" => /\ got # {}
                            /\ \A e \in got : /\ e.value = CellOf(Top, Top.n)
                                              /\ \A o \in got : o = e,
         Stmt.op # "def" => \A e \in got : Rooted(e.kind, e.value, Top.at)
  PROVE CellsInv'
<1>1. stack # <<>> /\ Top.phase = "declare" /\ Top.n <= Len(Top.prog) /\ Top \in CallType
  BY TopFacts DEF At
<1>2. PICK f : f = [Top EXCEPT !.step = "add", !.got = got]
  OBVIOUS
<1>3. /\ f \in CallType
      /\ f.at = Top.at /\ f.prog = Top.prog /\ f.phase = Top.phase /\ f.step = "add"
      /\ f.look = Top.look /\ f.n = Top.n /\ f.got = got /\ f.errs = Top.errs
  BY <1>1, <1>2 DEF CallType
<1>4. RootedCall(f)
  BY <1>1, <1>3 DEF RootedCall, AddsOwn, CellOf, Stmt
<1>5. Pending(f) \subseteq Pending(Top)
  BY <1>1, <1>3 DEF Pending, Stmt
<1>6. Becomes(f)
  BY <1>2 DEF Adds
<1> QED BY <1>1, <1>3, <1>4, <1>5, <1>6, QuietCells

LEMMA LookFindsCells == IInv /\ CellsInv /\ LookFinds => CellsInv'
<1> SUFFICES ASSUME IInv, CellsInv, LookFinds PROVE CellsInv'
  OBVIOUS
<1>1. Looking /\ UNCHANGED <<text, schemas, val, inputs, late>>
  BY DEF LookFinds
<1>2. PICK d \in Matches(Look.kind) :
        Answer(IF Visible(d) /\ Look.i = Len(Look.path)
               THEN Found(d.kind, d.value) ELSE NoSuchEntry)
  BY DEF LookFinds
<1>3. d \in Decl /\ d \in schemas[Look.at].decls
  BY <1>1, LookFacts DEF Matches
<1>4. Found(d.kind, d.value) \in LookType
  BY <1>3, DeclFields
<1>5. Rooted(d.kind, d.value, Top.at)
  <2>1. /\ Look.at \in 1..Len(schemas) /\ Look.at \in Nat /\ Top.at \in Nat /\ Top.at <= Look.at
    BY <1>1, LookFacts, TopFacts DEF IInv, TypeOK
  <2>2. Rooted(d.kind, d.value, Look.at)
    BY <1>3, <2>1 DEF CellsInv, Values
  <2> QED BY <2>1, <2>2, RootedBelow
<1>6. Found(d.kind, d.value).kind = d.kind /\ Found(d.kind, d.value).value = d.value
  BY DEF Found
<1>7. CASE Visible(d) /\ Look.i = Len(Look.path)
  BY <1>1, <1>2, <1>4, <1>5, <1>6, <1>7, LookFacts, AnsweredCells
<1>8. CASE ~(Visible(d) /\ Look.i = Len(Look.path))
  BY <1>1, <1>2, <1>8, LookFacts, NoEntry, AnsweredCells
<1> QED BY <1>7, <1>8

LEMMA LookFallsBackCells == IInv /\ CellsInv /\ LookFallsBack => CellsInv'
<1> SUFFICES ASSUME IInv, CellsInv, LookFallsBack PROVE CellsInv'
  OBVIOUS
<1> DEFINE b == [kind |-> Look.kind, name |-> Ident]
<1>1. /\ Looking /\ UNCHANGED <<text, schemas, val, inputs, late>>
      /\ Answer(IF Look.global /\ b \in Builtin /\ Look.i = Len(Look.path)
                THEN Found(b.kind, b) ELSE NoSuchEntry)
  BY DEF LookFallsBack
<1>2. CASE b \in Builtin /\ Answer(Found(b.kind, b))
  <2>1. b \in Lit /\ b \in [kind : {"type", "expr"}, name : Name] /\ b \notin Cell
    BY <1>2, ImportAssumption
  <2>2. b \in Lit /\ b.kind \in {"type", "expr"}
    BY <2>1
  <2> HIDE DEF b
  <2>3. Found(b.kind, b) \in LookType /\ Found(b.kind, b).value = b
    BY <2>2 DEF Found, LookType
  <2>4. Rooted(Found(b.kind, b).kind, Found(b.kind, b).value, Top.at)
    BY <2>1, <2>3 DEF Rooted
  <2> QED BY <1>1, <1>2, <2>3, <2>4, LookFacts, AnsweredCells
<1>3. CASE Answer(NoSuchEntry)
  BY <1>1, <1>3, LookFacts, NoEntry, AnsweredCells
<1> QED BY <1>1, <1>2, <1>3

\* A new schema declares nothing, and its call has come across nothing.
LEMMA PushCells ==
  ASSUME IInv, CellsInv, stack # <<>>, NEW new, new.decls = {}, NEW call \in CallType,
         call.phase = "declare", call.n = 1, call.step = "start", call.look = Idle,
         call.got = {}, call.at = Len(schemas) + 1,
         schemas' \in Seq(SchemaType), schemas' = Append(schemas, new),
         stack' = <<call>> \o stack, UNCHANGED val
  PROVE CellsInv'
<1>1. /\ Len(schemas) \in Nat /\ Len(schemas') = Len(schemas) + 1
      /\ schemas'[Len(schemas) + 1] = new
      /\ \A c \in 1..Len(schemas) : schemas'[c] = schemas[c]
  BY DEF IInv, TypeOK
<1>2. SameCells
  <2>1. ASSUME NEW c \in 1..Len(schemas'), c > Len(schemas) PROVE schemas'[c].decls = {}
    <3>1. c = Len(schemas) + 1
      BY <1>1, <2>1
    <3> QED BY <1>1, <3>1
  <2>2. \A c \in 1..Len(schemas) : schemas'[c].decls = schemas[c].decls
    BY <1>1
  <2>3. Len(schemas') \in Nat /\ Len(schemas) <= Len(schemas')
    BY <1>1
  <2> QED BY <2>1, <2>2, <2>3 DEF SameCells
<1>3. /\ stack' \in Seq(CallType) /\ Len(stack') = Len(stack) + 1 /\ Len(stack) \in Nat
      /\ \A j \in 1..Len(stack') : stack'[j] = IF j = 1 THEN call ELSE stack[j - 1]
  BY Pushed DEF IInv, TypeOK
<1>4. RootedCall(call)' /\ Undefined(call)'
  <2>1. call.look.st = "idle" /\ call.prog \in Program
    BY CallFields DEF Idle
  <2>2. RootedCall(call)'
    BY <2>1 DEF RootedCall, AddsOwn
  <2>3. Pending(call)' = {}
    <3>1. \A m \in 1..Len(call.prog) : ~(m < call.n \/ (m = call.n /\ call.step = "add" /\ call.got = {}))
      BY <2>1 DEF Program
    <3> QED BY <3>1 DEF Pending
  <2> QED BY <2>2, <2>3 DEF Undefined
<1>5. ASSUME NEW j \in 1..Len(stack') PROVE RootedCall(stack[j])' /\ Undefined(stack[j])'
  <2>1. CASE j = 1
    <3>1. stack'[j] = call
      BY <1>3, <2>1
    <3> QED BY <1>4, <3>1 DEF RootedCall, Undefined
  <2>2. CASE j # 1
    <3>1. j - 1 \in 1..Len(stack) /\ stack'[j] = stack[j - 1]
      BY <1>3, <2>2
    <3>2. PICK g \in CallType : g = stack[j - 1]
      BY <3>1, StackFacts
    <3>3. g.at \in 1..Len(schemas) /\ RootedCall(g) /\ Undefined(g)
      BY <3>1, <3>2, StackFacts DEF CellsInv, Values
    <3>4. RootedCall(g)' /\ Undefined(g)'
      BY <1>2, <3>3, SameIsMore, RootedCallStays, UndefinedStays
    <3> QED BY <3>1, <3>2, <3>4 DEF RootedCall, Undefined
  <2> QED BY <2>1, <2>2
<1>6. Values'
  BY <1>2, <1>5, DeclsStay DEF Values
<1> QED BY <1>2, <1>5, <1>6, DeclsStay DEF CellsInv

LEMMA EnterCells ==
  ASSUME IInv, CellsInv, stack # <<>>, NEW c \in Top.at..Len(schemas), NEW x \in Name, Enter(c, x)
  PROVE CellsInv'
<1> DEFINE f == Resolves[schemas[c].file][x]
           s == Len(schemas) + 1
<1>1. /\ c \in 1..Len(schemas) /\ Top.at \in 1..Len(schemas) /\ Len(schemas) \in 1..MaxSchema
      /\ Top \in CallType /\ MaxSchema \in Nat
  BY TopFacts, ImportAssumption
<1>2. f \in File
  BY SMTT(60), <1>1, SchemaFacts, ImportAssumption
<1>3. PICK t \in IF text[f] = Unread THEN Texts[f] ELSE {text[f]} :
        \/ /\ t \in {Missing, Broken}
           /\ Becomes([Top EXCEPT !.missed = TRUE])
           /\ UNCHANGED schemas
        \/ /\ t \notin {Missing, Broken}
           /\ Len(schemas) < MaxSchema
           /\ text' = IF t = Missing THEN text ELSE [text EXCEPT ![f] = t]
           /\ schemas' = Append(schemas, [NewSchema(f, c, x) EXCEPT !.said = <<t>>])
           /\ stack' = <<Call(s, t, c, x)>> \o stack
  BY DEF Enter
<1>4. UNCHANGED val
  BY DEF Enter
<1>5. t \in Program \cup {Missing, Broken, Unread}
  BY <1>2, <1>3, ImportAssumption DEF IInv, TypeOK
<1>6. t # Unread
  BY <1>2, <1>3, ImportAssumption
<1> HIDE DEF f, s
<1>7. CASE Becomes([Top EXCEPT !.missed = TRUE]) /\ UNCHANGED schemas
  <2> DEFINE g == [Top EXCEPT !.missed = TRUE]
  <2>1. /\ g \in CallType
        /\ g.at = Top.at /\ g.prog = Top.prog /\ g.phase = Top.phase /\ g.step = Top.step
        /\ g.look = Top.look /\ g.n = Top.n /\ g.got = Top.got /\ g.errs = Top.errs
    BY <1>1 DEF CallType
  <2>2. Becomes(g)
    BY <1>7
  <2> HIDE DEF g
  <2>3. RootedCall(g)
    BY <2>1, TopRooted DEF RootedCall, AddsOwn, CellOf
  <2>4. Pending(g) = Pending(Top)
    BY <2>1 DEF Pending
  <2> QED BY <1>4, <1>7, <2>1, <2>2, <2>3, <2>4, QuietCells
<1>8. CASE /\ t \notin {Missing, Broken}
           /\ Len(schemas) < MaxSchema
           /\ schemas' = Append(schemas, [NewSchema(f, c, x) EXCEPT !.said = <<t>>])
           /\ stack' = <<Call(s, t, c, x)>> \o stack
  <2>1. t \in Program /\ <<t>> \in Seq(Program) /\ s \in 1..MaxSchema /\ s = Len(schemas) + 1
        /\ c \in 0..MaxSchema
    BY <1>1, <1>5, <1>6, <1>8 DEF s
  <2>2. PICK new : new = [NewSchema(f, c, x) EXCEPT !.said = <<t>>]
    OBVIOUS
  <2>3. new \in SchemaType /\ new.decls = {}
    <3>1. \A said \in Seq(Program) :
            LET r == [NewSchema(f, c, x) EXCEPT !.said = said] IN
            r \in SchemaType /\ r.decls = {}
      BY <1>2, <2>1, FreshSchema
    <3> QED BY <2>1, <2>2, <3>1
  <2>4. PICK call : call = Call(s, t, c, x)
    OBVIOUS
  <2>5. /\ call \in CallType /\ call.at = s
        /\ call.phase = "declare" /\ call.n = 1 /\ call.step = "start" /\ call.look = Idle
    BY <2>1, <2>4, NewCall
  <2>6. call.got = {}
    BY <2>4 DEF Call
  <2>7. schemas' = Append(schemas, new) /\ stack' = <<call>> \o stack
    BY <1>8, <2>2, <2>4
  <2>8. schemas' \in Seq(SchemaType)
    BY <2>3, <2>7 DEF IInv, TypeOK
  <2> QED BY ZenonT(60), <1>4, <2>1, <2>3, <2>5, <2>6, <2>7, <2>8, PushCells
<1> QED BY <1>3, <1>7, <1>8

LEMMA LookFollowsCells == IInv /\ CellsInv /\ LookFollows => CellsInv'
<1> SUFFICES ASSUME IInv, CellsInv, LookFollows PROVE CellsInv'
  OBVIOUS
<1>1. Looking
  BY SMTT(60) DEF LookFollows
<1>2. PICK d \in Matches("schema") :
        \/ /\ Answer(NoSuchEntry)
           /\ UNCHANGED <<schemas, val>>
        \/ Enter(Look.at, d.value)
        \/ /\ schemas[Look.at].imports[d.value] # 0
           /\ Answer(IF Look.i = Len(Look.path) THEN NoSuchEntry
                     ELSE [Look EXCEPT !.at = schemas[@].imports[d.value], !.i = @ + 1])
           /\ UNCHANGED <<schemas, val>>
  BY ZenonT(60) DEF LookFollows
<1>3. d \in Decl /\ d.kind = "schema"
  BY <1>1, LookFacts
<1>4. d.value \in Name
  BY <1>3, DeclFields
<1>5. CASE Answer(NoSuchEntry) /\ UNCHANGED <<schemas, val>>
  BY <1>1, <1>5, LookFacts, NoEntry, AnsweredCells
<1>6. CASE Enter(Look.at, d.value)
  BY <1>1, <1>4, <1>6, LookFacts, EnterCells
<1>7. CASE /\ schemas[Look.at].imports[d.value] # 0 /\ Look.i # Len(Look.path)
           /\ Answer([Look EXCEPT !.at = schemas[@].imports[d.value], !.i = @ + 1])
           /\ UNCHANGED <<schemas, val>>
  <2> DEFINE to == schemas[Look.at].imports[d.value]
  <2>1. to \in 0..Len(schemas)
    BY <1>1, <1>4, LookFacts, SchemaFacts
  <2>2. to # 0
    BY <1>7
  <2>3. Len(schemas) \in 1..MaxSchema /\ MaxSchema \in Nat
    BY ImportAssumption DEF IInv, TypeOK
  <2> HIDE DEF to
  <2>4. to \in 1..MaxSchema
    BY <2>1, <2>2, <2>3
  <2>5. Look.i + 1 \in Nat \ {0}
    BY <1>1, LookFacts
  <2>6. PICK a : a = [Look EXCEPT !.at = to, !.i = Look.i + 1]
    OBVIOUS
  <2>7. /\ a \in [st : {"going"}, kind : Kind, path : Seq(Name), global : BOOLEAN,
                  at : 1..MaxSchema, i : Nat \ {0}]
        /\ a.st = "going"
    BY <1>1, <2>4, <2>5, <2>6, LookFacts
  <2>8. a \in LookType
    BY <2>7 DEF LookType
  <2>9. Answer(a)
    BY <1>7, <2>6 DEF to
  <2> QED BY <1>1, <1>7, <2>7, <2>8, <2>9, LookFacts, AnsweredCells
<1> QED BY <1>2, <1>5, <1>6, <1>7

LEMMA DeclareDefCells == IInv /\ CellsInv /\ DeclareDef => CellsInv'
<1> SUFFICES ASSUME IInv, CellsInv, DeclareDef PROVE CellsInv'
  OBVIOUS
<1>1. At("declare") /\ Top.step = "start" /\ Stmt.op = "def"
      /\ UNCHANGED <<text, schemas, val, inputs, late>>
  BY DEF DeclareDef
<1>2. Stmt.kind \in {"type", "expr"} /\ Stmt.name \in Name /\ Stmt.extern \in BOOLEAN
  BY <1>1, StartFacts, StmtFacts, DefFields
<1>3. PICK v : v = [at |-> Top.at, kind |-> Stmt.kind, name |-> Stmt.name]
  OBVIOUS
<1>4. v \in Cell
  BY <1>1, <1>2, <1>3, StartFacts DEF Cell
<1>5. PICK e : e = Entry(Stmt.kind, Stmt.name, Stmt.extern, v, 1)
  OBVIOUS
<1>6. e \in EntryType /\ e.value = v
  <2>1. 1 \in Nat
    OBVIOUS
  <2>2. e.value = v
    BY <1>5 DEF Entry
  <2> QED BY <1>2, <1>4, <1>5, <2>1, <2>2, EntryOfDef
<1>7. Adds({e})
  BY <1>3, <1>5 DEF DeclareDef
<1>8. v = CellOf(Top, Top.n)
  BY <1>3 DEF CellOf, Stmt
<1>9. /\ {e} \in SUBSET EntryType /\ {e} # {}
      /\ \A a \in {e} : a.value = CellOf(Top, Top.n) /\ \A o \in {e} : o = a
  BY <1>6, <1>8
<1>10. Top.look.st = "idle" /\ Top.step # "add"
  BY <1>1, StartFacts
<1> QED BY <1>1, <1>7, <1>9, <1>10, AddsCells

LEMMA DeclareImportCells == IInv /\ CellsInv /\ DeclareImport => CellsInv'
<1> SUFFICES ASSUME IInv, CellsInv, DeclareImport PROVE CellsInv'
  OBVIOUS
<1> DEFINE c == Here.imports[Stmt.from]
<1>1. At("declare") /\ Top.step = "start" /\ Stmt.op = "import" /\ Top.look.st = "idle"
      /\ Top.step # "add" /\ stack # <<>>
  BY StartFacts DEF DeclareImport
<1>2. Stmt.from \in Name /\ Stmt.list \in {"none", "star", "items"}
  BY <1>1, StartFacts, StmtFacts, ImportFields
<1>3. CASE Enter(Top.at, Stmt.from)
  <2>1. Top.at \in Top.at..Len(schemas)
    BY <1>1, StartFacts
  <2> QED BY <1>1, <1>2, <1>3, <2>1, EnterCells
<1>4. CASE Fail /\ UNCHANGED <<schemas, val>>
  BY <1>1, <1>4, FailCells
<1>5. CASE UNCHANGED <<schemas, val>>
           /\ Adds({Entry("schema", Stmt.from, FALSE, Stmt.from, 1)})
  <2>1. PICK e : e = Entry("schema", Stmt.from, FALSE, Stmt.from, 1)
    OBVIOUS
  <2>2. e \in EntryType /\ e.kind = "schema"
    <3>1. 1 \in Nat
      OBVIOUS
    <3>2. e.kind = "schema"
      BY <2>1 DEF Entry
    <3> QED BY <1>2, <2>1, <3>1, <3>2, EntryOfSchema
  <2>3. {e} \in SUBSET EntryType /\ \A a \in {e} : Rooted(a.kind, a.value, Top.at)
    BY <2>2 DEF Rooted
  <2>4. Adds({e})
    BY <1>5, <2>1
  <2> QED BY <1>1, <1>5, <2>3, <2>4, AddsCells
<1>6. CASE c # 0 /\ UNCHANGED <<schemas, val>>
           /\ Adds({Entry(d.kind, d.name, FALSE, d.value, 1) :
                      d \in {e \in schemas[c].decls : e.public}})
  <2>1. c \in 1..Len(schemas) /\ c > Top.at /\ c \in Nat /\ Top.at \in Nat
    <3>1. Top.at \in 1..Len(schemas) /\ Len(schemas) \in Nat
      BY SMTT(30), <1>1, StartFacts DEF IInv, TypeOK
    <3>2. c \in 0..Len(schemas) /\ c > Top.at
      BY <1>2, <1>6, <3>1, SchemaFacts DEF Here
    <3> QED BY <1>6, <3>1, <3>2
  <2> HIDE DEF c
  <2>2. ASSUME NEW d \in schemas[c].decls
        PROVE LET e == Entry(d.kind, d.name, FALSE, d.value, 1) IN
              e \in EntryType /\ Rooted(e.kind, e.value, Top.at)
    <3>1. d \in Decl
      BY <2>1, SchemaFacts
    <3>2. 1 \in Nat /\ FALSE \in BOOLEAN
      OBVIOUS
    <3>3. PICK e : e = Entry(d.kind, d.name, FALSE, d.value, 1)
      OBVIOUS
    <3>4. e \in EntryType
      <4>1. CASE d.kind = "schema"
        BY <3>1, <3>2, <3>3, <4>1, DeclFields, EntryOfSchema
      <4>2. CASE d.kind # "schema"
        BY ZenonT(60), <3>1, <3>2, <3>3, <4>2, DeclFields, EntryOfDef
      <4> QED BY <4>1, <4>2
    <3>5. e.kind = d.kind /\ e.value = d.value
      BY <3>3 DEF Entry
    <3>6. Rooted(d.kind, d.value, Top.at)
      <4>1. Rooted(d.kind, d.value, c)
        BY <2>1 DEF CellsInv, Values
      <4>2. Top.at <= c
        BY <2>1
      <4> QED BY <2>1, <4>1, <4>2, RootedBelow
    <3> QED BY <3>3, <3>4, <3>5, <3>6
  <2>3. PICK got : got = {Entry(d.kind, d.name, FALSE, d.value, 1) :
                            d \in {e \in schemas[c].decls : e.public}}
    OBVIOUS
  <2>4. got \in SUBSET EntryType /\ \A e \in got : Rooted(e.kind, e.value, Top.at)
    BY <2>2, <2>3
  <2>5. Adds(got)
    BY <1>6, <2>3
  <2> QED BY <1>1, <1>6, <2>4, <2>5, AddsCells
<1>7. CASE UNCHANGED <<schemas, val>> /\ Becomes([Top EXCEPT !.step = "items"])
  <2>1. PICK f : f = [Top EXCEPT !.step = "items"]
    OBVIOUS
  <2>2. /\ f \in CallType
        /\ f.at = Top.at /\ f.prog = Top.prog /\ f.errs = Top.errs
        /\ f.phase = Top.phase /\ f.step = "items" /\ f.look = Top.look /\ f.n = Top.n
        /\ f.got = Top.got
    BY SMTT(60), <1>1, <2>1, StartFacts DEF CallType
  <2>3. RootedCall(f)
    BY <1>1, <2>2, TopRooted DEF RootedCall, AddsOwn
  <2>4. Pending(f) \subseteq Pending(Top)
    BY <2>2 DEF Pending
  <2>5. Becomes(f)
    BY <1>7, <2>1
  <2> QED BY <1>1, <1>7, <2>2, <2>3, <2>4, <2>5, QuietCells
<1>8. \/ Enter(Top.at, Stmt.from)
      \/ Fail /\ UNCHANGED <<schemas, val>>
      \/ /\ c # 0 /\ UNCHANGED <<schemas, val>>
         /\ CASE Stmt.list = "none" -> Adds({Entry("schema", Stmt.from, FALSE, Stmt.from, 1)})
              [] Stmt.list = "star" -> Adds({Entry(d.kind, d.name, FALSE, d.value, 1) :
                                               d \in {e \in schemas[c].decls : e.public}})
              [] Stmt.list = "items" -> Becomes([Top EXCEPT !.step = "items"])
  BY DEF DeclareImport
<1> QED BY <1>2, <1>3, <1>4, <1>5, <1>6, <1>7, <1>8

LEMMA LookForItemCells == IInv /\ CellsInv /\ LookForItem => CellsInv'
<1> SUFFICES ASSUME IInv, CellsInv, LookForItem PROVE CellsInv'
  OBVIOUS
<1>1. /\ At("declare") /\ Top.step = "items" /\ Top.item <= Len(Stmt.items)
      /\ Answer(Going(Kinds[Top.k], <<Item>>, FALSE, Here.imports[Stmt.from]))
      /\ UNCHANGED <<text, schemas, val, inputs, late>>
  BY DEF LookForItem, AtItem
<1>2. Item \in Name /\ Top.k \in 1..3 /\ Here.imports[Stmt.from] \in 1..MaxSchema
  BY <1>1, ItemFacts
<1>3. PICK k \in Kind, p \in Seq(Name), c \in 1..MaxSchema :
        k = Kinds[Top.k] /\ p = <<Item>> /\ p # <<>> /\ c = Here.imports[Stmt.from]
  <2>1. Kinds[Top.k] \in Kind
    BY <1>2 DEF Kinds, Kind
  <2>2. <<Item>> \in Seq(Name) /\ <<Item>> # <<>>
    BY <1>2
  <2> QED BY <1>2, <2>1, <2>2
<1>4. PICK a : a = Going(k, p, FALSE, c)
  OBVIOUS
<1>5. a \in LookType /\ a.st = "going"
  <2>1. \A g \in BOOLEAN : LET r == Going(k, p, g, c) IN
          r \in LookType /\ r.st = "going" /\ r.kind = k /\ r.at = c /\ r.i \in 1..Len(r.path)
    <3>1. p # <<>>
      BY <1>3
    <3> QED BY <3>1, GoingType
  <2>2. FALSE \in BOOLEAN
    OBVIOUS
  <2>3. LET r == Going(k, p, FALSE, c) IN r \in LookType /\ r.st = "going"
    BY <2>1, <2>2, Zenon
  <2> QED BY <1>4, <2>3
<1>6. Answer(a)
  BY <1>1, <1>3, <1>4
<1> QED BY <1>1, <1>5, <1>6, StartFacts, AnsweredCells

LEMMA ImportItemCells == IInv /\ CellsInv /\ ImportItem => CellsInv'
<1> SUFFICES ASSUME IInv, CellsInv, ImportItem PROVE CellsInv'
  OBVIOUS
<1> DEFINE found == Top.found \/ Look.st = "found"
           got == IF Look.st = "found"
                  THEN {Entry(Look.kind, Item, FALSE, Look.value, Top.item)} ELSE {}
           next == [Top EXCEPT !.got = @ \cup got, !.found = found, !.look = Idle,
                               !.k = IF @ = 3 THEN 1 ELSE @ + 1,
                               !.item = IF Top.k = 3 THEN @ + 1 ELSE @]
<1>1. /\ At("declare") /\ Top.step = "items" /\ Top.item <= Len(Stmt.items)
      /\ UNCHANGED <<text, schemas, val, inputs, late>>
      /\ Fail \/ Becomes(next)
  BY DEF ImportItem, AtItem
<1>2. Stmt.op = "import" /\ Item \in Name /\ Top.item \in Nat \ {0} /\ Top.k \in 1..3
      /\ Top.found \in BOOLEAN /\ stack # <<>>
  BY <1>1, ItemFacts, StartFacts
<1>3. CASE Fail
  BY <1>1, <1>2, <1>3, FailCells
<1>4. CASE Becomes(next)
  <2>1. Look \in LookType
    BY <1>1, StartFacts DEF Look
  <2>2. got \in SUBSET EntryType /\ \A e \in got : Rooted(e.kind, e.value, Top.at)
    <3>1. CASE Look.st = "found"
      <4>1. PICK e : e = Entry(Look.kind, Item, FALSE, Look.value, Top.item)
        OBVIOUS
      <4>2. e \in EntryType
        <5>1. FALSE \in BOOLEAN /\ Top.item \in Nat
          BY <1>2
        <5>2. CASE Look.kind = "schema"
          BY <1>2, <2>1, <3>1, <4>1, <5>1, <5>2, FoundFields, EntryOfSchema
        <5>3. CASE Look.kind # "schema"
          BY ZenonT(60), <1>2, <2>1, <3>1, <4>1, <5>1, <5>3, FoundFields, EntryOfDef
        <5> QED BY <5>2, <5>3
      <4>3. e.kind = Look.kind /\ e.value = Look.value
        BY <4>1 DEF Entry
      <4>4. Rooted(Look.kind, Look.value, Top.at)
        BY <1>2, <3>1, TopRooted DEF RootedCall, Look
      <4> QED BY <3>1, <4>1, <4>2, <4>3, <4>4
    <3> QED BY <3>1
  <2>3. found \in BOOLEAN
    BY <1>2
  <2> HIDE DEF got, found
  <2>4. PICK k \in 1..3 : k = IF Top.k = 3 THEN 1 ELSE Top.k + 1
    BY <1>2
  <2>5. PICK item \in Nat \ {0} : item = IF Top.k = 3 THEN Top.item + 1 ELSE Top.item
    BY <1>2
  <2>6. PICK f : f = [Top EXCEPT !.got = @ \cup got, !.found = found, !.look = Idle,
                                 !.k = k, !.item = item]
    OBVIOUS
  <2>7. Becomes(f)
    BY <1>4, <2>4, <2>5, <2>6
  <2>8. Idle \in LookType /\ Idle.st = "idle"
    BY DEF Idle, LookType
  <2>9. Top.got \cup got \in SUBSET EntryType
    BY <1>1, <2>2, StartFacts
  <2>10. /\ f \in CallType
         /\ f.at = Top.at /\ f.prog = Top.prog /\ f.phase = Top.phase /\ f.step = Top.step
         /\ f.look = Idle /\ f.n = Top.n /\ f.errs = Top.errs /\ f.got = Top.got \cup got
    <3>1. Top \in CallType
      BY <1>1, StartFacts
    <3> HIDE DEF next
    <3> QED BY ZenonT(60), <2>3, <2>4, <2>5, <2>6, <2>8, <2>9, <3>1 DEF CallType
  <2>11. RootedCall(f)
    <3>1. ~AddsOwn(f) /\ ~AddsOwn(Top)
      BY <1>1, <2>10 DEF AddsOwn
    <3>2. \A e \in Top.got : Rooted(e.kind, e.value, Top.at)
      BY <1>2, <3>1, TopRooted DEF RootedCall
    <3> QED BY <2>2, <2>8, <2>10, <3>1, <3>2 DEF RootedCall
  <2>12. Pending(f) \subseteq Pending(Top)
    BY <1>1, <2>10 DEF Pending
  <2> QED BY <1>1, <1>2, <2>7, <2>10, <2>11, <2>12, QuietCells
<1> QED BY <1>1, <1>3, <1>4

LEMMA ItemsDoneCells == IInv /\ CellsInv /\ ItemsDone => CellsInv'
<1> SUFFICES ASSUME IInv, CellsInv, ItemsDone PROVE CellsInv'
  OBVIOUS
<1>1. /\ At("declare") /\ Top.step = "items" /\ Top.item > Len(Stmt.items)
      /\ Adds(Top.got) /\ UNCHANGED <<text, schemas, val, inputs, late>>
  BY DEF ItemsDone
<1>2. Stmt.op = "import" /\ Top.item \in Nat /\ Stmt.items \in Seq(Name)
  BY <1>1, ItemFacts
<1>3. Top.look.st = "idle"
  BY <1>1, <1>2, StartFacts
<1>4. \A e \in Top.got : Rooted(e.kind, e.value, Top.at)
  BY <1>1, StartFacts, TopRooted DEF RootedCall, AddsOwn
<1> QED BY <1>1, <1>2, <1>3, <1>4, StartFacts, AddsCells

LEMMA DeclaredCells == IInv /\ CellsInv /\ Declared => CellsInv'
<1> SUFFICES ASSUME IInv, CellsInv, Declared PROVE CellsInv'
  OBVIOUS
<1>1. /\ At("declare") /\ Top.step = "add" /\ Top.got = {} /\ NextStatement({})
      /\ UNCHANGED <<text, schemas, val, inputs, late>>
  BY DEF Declared, Succeed
<1> QED BY <1>1, StartFacts, NextCells

LEMMA UndefinedThere ==
  ASSUME UNCHANGED val, NEW f, schemas'[f.at].decls = schemas[f.at].decls, Undefined(f)
  PROVE Undefined(f)'
<1>1. Pending(f)' = Pending(f)
  BY DEF Pending
<1>2. ASSUME f.errs = {}, NEW m \in Pending(f) PROVE OwnCell(f, m)'
  BY <1>1, <1>2 DEF OwnCell, CellOf, Undefined
<1> QED BY <1>1, <1>2 DEF Undefined

\* What is declared under a name that was free, and what that means for the definitions
\* before it.
LEMMA AddDeclCells == IInv /\ CellsInv /\ AddDecl => CellsInv'
<1> SUFFICES ASSUME IInv, CellsInv, AddDecl PROVE CellsInv'
  OBVIOUS
<1>1. /\ At("declare") /\ Top.step = "add" /\ UNCHANGED <<text, val, inputs, late>>
      /\ Top.look.st = "idle" /\ stack # <<>> /\ Top.phase = "declare"
  BY StartFacts DEF AddDecl
<1>2. PICK e \in Top.got :
        \/ Fail /\ UNCHANGED schemas
        \/ /\ ~Taken(e)
           /\ schemas' = [schemas EXCEPT ![Top.at].decls = @ \cup {Added(e)}]
           /\ Becomes([Top EXCEPT !.got = @ \ {e}])
  BY DEF AddDecl
<1>3. CASE Fail /\ UNCHANGED schemas
  BY <1>1, <1>3, FailCells
<1>4. CASE /\ ~Taken(e)
           /\ schemas' = [schemas EXCEPT ![Top.at].decls = @ \cup {Added(e)}]
           /\ Becomes([Top EXCEPT !.got = @ \ {e}])
  <2>1. PICK s \in 1..Len(schemas) : s = Top.at
    BY <1>1, StartFacts
  <2>2. PICK d : d = Added(e)
    OBVIOUS
  <2>3. d.kind = e.kind /\ d.name = e.name /\ d.value = e.value
    BY <2>2 DEF Added
  <2>4. /\ Len(schemas) \in 1..MaxSchema /\ MaxSchema \in Nat /\ schemas \in Seq(SchemaType)
        /\ s \in Nat /\ Len(schemas) \in Nat
    BY ImportAssumption DEF IInv, TypeOK
  <2>5. /\ Len(schemas') = Len(schemas) /\ schemas'[s].decls = schemas[s].decls \cup {d}
        /\ \A c \in 1..Len(schemas) : c # s => schemas'[c] = schemas[c]
    <3>1. PICK r \in SchemaType : r = schemas[s]
      BY <2>4
    <3>2. PICK q : q = [r EXCEPT !.decls = @ \cup {d}]
      OBVIOUS
    <3>3. q.decls = r.decls \cup {d}
      BY <3>1, <3>2 DEF SchemaType
    <3>4. schemas' = [schemas EXCEPT ![s] = q]
      BY <1>4, <2>1, <2>2, <3>1, <3>2
    <3> QED BY <2>4, <3>1, <3>3, <3>4
  <2>6. More
    <3>1. \A c \in 1..Len(schemas) : schemas[c].decls \subseteq schemas'[c].decls
      BY <2>5
    <3> QED BY <2>4, <2>5, <3>1 DEF More
  <2>7. PICK f : f = [Top EXCEPT !.got = @ \ {e}]
    OBVIOUS
  <2>8. /\ f \in CallType
        /\ f.at = s /\ f.prog = Top.prog /\ f.errs = Top.errs
        /\ f.phase = "declare" /\ f.step = "add" /\ f.look = Top.look /\ f.n = Top.n
        /\ f.got = Top.got \ {e}
    BY <1>1, <2>1, <2>7, StartFacts DEF CallType
  <2>9. Becomes(f)
    BY <1>4, <2>7
  <2>10. /\ stack' \in Seq(CallType) /\ Len(stack') = Len(stack)
         /\ \A j \in 1..Len(stack) : stack'[j] = IF j = 1 THEN f ELSE stack[j]
    BY <1>1, <2>8, <2>9, Replaced DEF Becomes, IInv, TypeOK
  <2>11. e \in EntryType /\ Top.n \in 1..Len(Top.prog) /\ Top.prog \in Program /\ Top.n \in Nat
    BY <1>1, StartFacts, StmtFacts, CallFields
  <2>12. RootedCall(Top) /\ Undefined(Top) /\ HasDeclared(Top) /\ Len(stack) \in Nat \ {0}
         /\ Top = stack[1]
    BY <1>1, TopRooted, TopFacts
  <2>13. ~Has(s, e.kind, e.name)
    BY <1>4, <2>1 DEF Taken, Has, Here
  <2>14. Has(s, e.kind, e.name)'
    BY <2>3, <2>5 DEF Has
  \* The entry that a definition adds is its own cell.
  <2>15. ASSUME Stmt.op = "def"
         PROVE /\ e.value = CellOf(Top, Top.n) /\ CellOf(Top, Top.n) \in Cell
               /\ CellOf(Top, Top.n).kind = e.kind /\ CellOf(Top, Top.n).name = e.name
               /\ CellOf(Top, Top.n).at = s
    <3>1. e.value = CellOf(Top, Top.n)
      BY <1>1, <2>12, <2>15 DEF RootedCall, AddsOwn, Stmt
    <3>2. e.kind = Stmt.kind /\ e.name = Stmt.name
      BY <1>1, <2>12, <2>15 DEF HasDeclared, Stmt
    <3>3. Stmt.kind \in {"type", "expr"} /\ Stmt.name \in Name /\ Top.at \in 1..MaxSchema
      BY <1>1, <2>15, StartFacts, StmtFacts, DefFields
    <3>4. CellOf(Top, Top.n) = [at |-> s, kind |-> Stmt.kind, name |-> Stmt.name]
      BY <2>1 DEF CellOf, Stmt
    <3>5. CellOf(Top, Top.n) \in Cell
      BY <2>1, <3>3, <3>4 DEF Cell
    <3> QED BY <3>1, <3>2, <3>4, <3>5
  <2>16. Rooted(d.kind, d.value, s)'
    <3>1. CASE Stmt.op = "def"
      BY <2>3, <2>4, <2>5, <2>14, <2>15, <3>1 DEF Rooted
    <3>2. CASE Stmt.op # "def"
      <4>1. Rooted(e.kind, e.value, s)
        BY <2>1, <2>12, <3>2 DEF RootedCall, AddsOwn, Stmt
      <4>2. Rooted(e.kind, e.value, s)'
        BY <2>4, <2>6, <4>1, RootedStays
      <4> QED BY <2>3, <4>2
    <3> QED BY <3>1, <3>2
  <2>17. ASSUME NEW c \in 1..Len(schemas'), NEW o \in schemas'[c].decls
         PROVE Rooted(o.kind, o.value, c)'
    <3>1. CASE c = s /\ o = d
      BY <2>16, <3>1
    <3>2. CASE ~(c = s /\ o = d)
      <4>1. c \in 1..Len(schemas) /\ o \in schemas[c].decls /\ c \in Nat
        BY <2>4, <2>5, <2>17, <3>2
      <4>2. Rooted(o.kind, o.value, c)
        BY <4>1 DEF CellsInv, Values
      <4> QED BY <2>6, <4>1, <4>2, RootedStays
    <3> QED BY <3>1, <3>2
  <2>18. RootedCall(f)
    <3>1. AddsOwn(f) <=> AddsOwn(Top)
      BY <1>1, <2>8 DEF AddsOwn
    <3>2. f.got \subseteq Top.got /\ CellOf(f, f.n) = CellOf(Top, Top.n)
      BY <2>1, <2>8 DEF CellOf
    <3> QED BY <2>1, <2>8, <2>12, <3>1, <3>2 DEF RootedCall
  \* The definitions that were declared before have other names.
  <2>19. ASSUME NEW m \in 1..Len(Top.prog), m < Top.n, Top.prog[m].op = "def"
         PROVE ~(Top.prog[m].kind = e.kind /\ Top.prog[m].name = e.name)
    <3>1. Has(Top.at, Top.prog[m].kind, Top.prog[m].name)
      BY <1>1, <2>12, <2>19 DEF HasDeclared
    <3> QED BY <2>1, <2>13, <3>1
  <2>20. ASSUME f.errs = {}, NEW m \in Pending(f) PROVE OwnCell(f, m)'
    <3>1. PICK t : t = CellOf(f, m) /\ t.at = s /\ t.kind = Top.prog[m].kind
                                    /\ t.name = Top.prog[m].name
      <4>1. LET t == CellOf(f, m) IN
            t.at = s /\ t.kind = Top.prog[m].kind /\ t.name = Top.prog[m].name
        BY <2>8 DEF CellOf
      <4> QED BY <4>1
    <3>2. /\ m \in 1..Len(Top.prog) /\ Top.prog[m].op = "def"
          /\ m < Top.n \/ (m = Top.n /\ Top.got \ {e} = {})
      BY <2>8, <2>20 DEF Pending
    <3>3. \A l : CellOf(f, l) = CellOf(Top, l)
      BY <2>1, <2>8 DEF CellOf
    <3>4. ASSUME NEW l \in Pending(f), CellOf(f, l) = t
          PROVE /\ l \in 1..Len(Top.prog) /\ Top.prog[l].op = "def"
                /\ Top.prog[l].kind = t.kind /\ Top.prog[l].name = t.name
                /\ l < Top.n \/ l = Top.n
                /\ l < Top.n => l \in Pending(Top)
      <4>1. Top.prog[l].kind = t.kind /\ Top.prog[l].name = t.name
        BY <2>8, <3>4 DEF CellOf
      <4>2. l \in 1..Len(Top.prog) /\ Top.prog[l].op = "def" /\ (l < Top.n \/ l = Top.n)
        BY <2>8, <3>4 DEF Pending
      <4>3. l < Top.n => l \in Pending(Top)
        BY <1>1, <4>2 DEF Pending
      <4> QED BY <4>1, <4>2, <4>3
    <3>5. CASE m < Top.n
      <4>1. m \in Pending(Top) /\ Top.errs = {}
        BY <1>1, <2>8, <2>20, <3>2, <3>5 DEF Pending
      <4>2. OwnCell(Top, m)
        BY <2>12, <4>1 DEF Undefined
      <4>3. /\ val[t] = t /\ \A c \in Cell : val[c] = t => c.at = s
            /\ \A o \in schemas[s].decls : o.kind = t.kind /\ o.name = t.name => o.value = t
            /\ \A l \in Pending(Top) : CellOf(Top, l) = t => l = m
        BY <2>1, <3>1, <3>3, <4>2 DEF OwnCell
      <4>4. ~(d.kind = t.kind /\ d.name = t.name)
        BY <2>3, <2>19, <3>1, <3>2, <3>5
      <4>5. \A o \in schemas'[s].decls : o.kind = t.kind /\ o.name = t.name => o.value = t
        BY <2>5, <4>3, <4>4
      <4>6. ASSUME NEW l \in Pending(f), CellOf(f, l) = t PROVE l = m
        <5>1. CASE l < Top.n
          BY <3>3, <3>4, <4>3, <4>6, <5>1
        <5>2. CASE l = Top.n
          <6>1. Stmt.op = "def"
            BY <3>4, <4>6, <5>2 DEF Stmt
          <6>2. t.kind = e.kind /\ t.name = e.name
            BY <2>15, <3>3, <4>6, <5>2, <6>1
          <6> QED BY <2>3, <4>4, <6>2
        <5> QED BY <3>4, <4>6, <5>1, <5>2
      <4>7. /\ val'[t] = t /\ \A c \in Cell : val'[c] = t => c.at = f.at
            /\ \A o \in schemas'[f.at].decls : o.kind = t.kind /\ o.name = t.name => o.value = t
            /\ \A l \in Pending(f) : CellOf(f, l) = t => l = m
        BY <1>1, <2>8, <4>3, <4>5, <4>6
      <4>8. Pending(f)' = Pending(f)
        BY DEF Pending
      <4> QED BY <3>1, <4>7, <4>8 DEF OwnCell, CellOf
    <3>6. CASE m = Top.n
      <4>1. Stmt.op = "def" /\ t = CellOf(Top, Top.n)
        BY <3>1, <3>2, <3>3, <3>6 DEF Stmt
      <4>2. t \in Cell /\ t.kind = e.kind /\ t.name = e.name /\ e.value = t
        BY <2>15, <4>1
      <4>3. ~IsDeclared(t)
        BY <2>13, <3>1, <4>2 DEF IsDeclared
      <4>4. \A c \in Cell : val[c] = t <=> c = t
        BY <4>2, <4>3 DEF CellsInv, Untouched
      <4>5. \A o \in schemas'[s].decls : o.kind = t.kind /\ o.name = t.name => o.value = t
        BY <2>3, <2>5, <2>13, <4>2 DEF Has
      <4>6. ASSUME NEW l \in Pending(f), CellOf(f, l) = t PROVE l = m
        <5>1. CASE l < Top.n
          BY <2>19, <3>4, <4>2, <4>6, <5>1
        <5>2. CASE l = Top.n
          BY <3>6, <5>2
        <5> QED BY <3>4, <4>6, <5>1, <5>2
      <4>7. /\ val'[t] = t /\ \A c \in Cell : val'[c] = t => c.at = f.at
            /\ \A o \in schemas'[f.at].decls : o.kind = t.kind /\ o.name = t.name => o.value = t
            /\ \A l \in Pending(f) : CellOf(f, l) = t => l = m
        BY <1>1, <2>8, <3>1, <4>2, <4>4, <4>5, <4>6
      <4>8. Pending(f)' = Pending(f)
        BY DEF Pending
      <4> QED BY <3>1, <4>7, <4>8 DEF OwnCell, CellOf
    <3> QED BY <3>2, <3>5, <3>6
  <2>21. Undefined(f)'
    <3>1. Pending(f)' = Pending(f)
      BY DEF Pending
    <3> QED BY <2>20, <3>1 DEF Undefined
  <2>22. ASSUME NEW j \in 1..Len(stack') PROVE RootedCall(stack[j])' /\ Undefined(stack[j])'
    <3>1. CASE j = 1
      <4>1. RootedCall(f)'
        BY <2>6, <2>8, <2>18, RootedCallStays
      <4>2. stack'[j] = f
        BY <2>10, <3>1
      <4> QED BY <2>21, <4>1, <4>2 DEF RootedCall, Undefined
    <3>2. CASE j # 1
      <4>1. j \in 1..Len(stack) /\ stack'[j] = stack[j]
        BY <2>10, <3>2
      <4>2. PICK g \in CallType : g = stack[j]
        BY <4>1, StackFacts
      <4>3. g.at \in 1..Len(schemas) /\ RootedCall(g) /\ Undefined(g)
        BY <4>1, <4>2, StackFacts DEF CellsInv, Values
      <4>4. g.at # s
        <5>1. 1 \in 1..Len(stack) /\ 1 < j
          BY <2>12, <3>2, <4>1
        <5>2. stack[1].at > stack[j].at
          BY <4>1, <5>1 DEF IInv, Nested
        <5> QED BY <2>1, <2>4, <2>12, <4>2, <4>3, <5>2
      <4>5. schemas'[g.at].decls = schemas[g.at].decls
        BY <2>5, <4>3, <4>4
      <4>6. RootedCall(g)' /\ Undefined(g)'
        BY <1>1, <2>6, <4>3, <4>5, RootedCallStays, UndefinedThere
      <4> QED BY <4>1, <4>2, <4>6 DEF RootedCall, Undefined
    <3> QED BY <3>1, <3>2
  <2>23. Values' /\ Untouched'
    BY <1>1, <2>6, <2>17, <2>22, UntouchedStays DEF Values
  <2> QED BY <2>22, <2>23 DEF CellsInv
<1> QED BY <1>2, <1>3, <1>4

LEMMA CompileImportCells == IInv /\ CellsInv /\ CompileImport => CellsInv'
<1> SUFFICES ASSUME IInv, CellsInv, CompileImport PROVE CellsInv'
  OBVIOUS
<1>1. /\ stack # <<>> /\ Top.phase = "compile" /\ NextStatement({}) /\ UNCHANGED <<schemas, val>>
  BY DEF CompileImport, At, Succeed
<1> QED BY <1>1, NextCells

LEMMA LookForPathCells == IInv /\ CellsInv /\ LookForPath => CellsInv'
<1> SUFFICES ASSUME IInv, CellsInv, LookForPath PROVE CellsInv'
  OBVIOUS
<1>1. /\ stack # <<>> /\ Top.n <= Len(Top.prog) /\ Stmt.op = "def" /\ Stmt.path # <<>>
      /\ Answer(Going(Stmt.kind, Stmt.path, TRUE, Top.at)) /\ UNCHANGED <<schemas, val>>
  BY DEF LookForPath, At
<1>2. PICK k \in Kind, p \in Seq(Name), c \in 1..MaxSchema :
        k = Stmt.kind /\ p = Stmt.path /\ c = Top.at
  <2>1. Stmt.kind \in Kind /\ Stmt.path \in Seq(Name)
    BY <1>1, StmtFacts, DefFields DEF Kind
  <2>2. Top.at \in 1..MaxSchema
    BY <1>1, TopFacts, CallFields
  <2> QED BY <2>1, <2>2
<1>3. PICK a : a = Going(k, p, TRUE, c)
  OBVIOUS
<1>4. a \in LookType /\ a.st = "going"
  <2>1. \A g \in BOOLEAN : LET r == Going(k, p, g, c) IN r \in LookType /\ r.st = "going"
    BY <1>1, <1>2, GoingType
  <2>2. TRUE \in BOOLEAN
    OBVIOUS
  <2>3. LET r == Going(k, p, TRUE, c) IN r \in LookType /\ r.st = "going"
    BY <2>1, <2>2, Zenon
  <2> QED BY <1>3, <2>3
<1>5. Answer(a)
  BY <1>1, <1>2, <1>3
<1> QED BY <1>1, <1>4, <1>5, AnsweredCells

\* What a definition unifies: the cell that its name stands for, and a literal or what it has
\* found.
Unifies(d, v) ==
    /\ stack # <<>> /\ d \in Own /\ Unify(d, v)
    /\ d.value \in Cell \cup Lit /\ v \in Cell \cup Lit
    /\ \A u \in {d.value, v} : u \in Cell => Top.at <= u.at /\ IsDeclared(u)

\* What the statement says, or what its path has been found to refer to.
Given(v) == \/ Stmt.path = <<>> /\ v = Stmt.lit
            \/ Look.st = "found" /\ v = Look.value

LEMMA CompileDefUnifies ==
  ASSUME IInv, CellsInv, CompileDef
  PROVE \/ Fail /\ UNCHANGED <<val, late>>
        \/ \E d, v : Unifies(d, v) /\ Given(v)
<1>1. /\ stack # <<>> /\ Top.phase = "compile" /\ Top.n <= Len(Top.prog) /\ Stmt.op = "def"
  BY DEF CompileDef, At
<1>2. Stmt.kind \in {"type", "expr"} /\ Stmt.kind # "schema" /\ Stmt.lit \in Lit /\ Stmt.lit \notin Cell
  BY <1>1, StmtFacts, DefFields, ImportAssumption
<1>3. Top.at \in 1..Len(schemas) /\ Top.at \in Nat /\ Len(schemas) \in Nat
  BY <1>1, TopFacts DEF IInv, TypeOK
<1>4. ASSUME NEW u, Rooted(Stmt.kind, u, Top.at), u \in Cell PROVE Top.at <= u.at /\ IsDeclared(u)
  <2>1. u.at \in 1..MaxSchema
    BY <1>4 DEF Cell
  <2> QED BY <1>2, <1>3, <1>4, <2>1, ImportAssumption DEF Rooted, IsDeclared
<1>5. ASSUME NEW d \in Own
      PROVE d.value \in Cell \cup Lit /\ Rooted(Stmt.kind, d.value, Top.at)
  <2>1. d \in Decl /\ d.kind = Stmt.kind /\ d \in schemas[Top.at].decls
    BY <1>3, SchemaFacts DEF Own, Here
  <2>2. Rooted(d.kind, d.value, Top.at)
    BY <1>3, <2>1 DEF CellsInv, Values
  <2> QED BY <1>2, <2>1, <2>2, DeclFields
<1>6. Look.st = "found" => Look.value \in Cell \cup Lit /\ Rooted(Stmt.kind, Look.value, Top.at)
  <2>1. Look \in LookType
    BY <1>1, TopFacts, CallFields DEF Look
  <2>2. Look.st = "found" => Look.kind = Stmt.kind
    BY <1>1, TopFacts DEF LookingAt, Look, Stmt
  <2>3. Look.st = "found" => Rooted(Look.kind, Look.value, Top.at)
    BY <1>1, TopRooted DEF RootedCall, Look
  <2> QED BY <1>2, <2>1, <2>2, <2>3, FoundFields
<1>7. ASSUME NEW d \in Own, NEW v, Unify(d, v), v \in Cell \cup Lit,
             v \in Cell => Rooted(Stmt.kind, v, Top.at)
      PROVE Unifies(d, v)
  BY <1>1, <1>4, <1>5, <1>7 DEF Unifies
<1>8. CASE Stmt.path = <<>> /\ \E d \in Own : Unify(d, Stmt.lit)
  BY <1>2, <1>7, <1>8 DEF Given
<1>9. CASE Look.st = "found" /\ \E d \in Own : Unify(d, Look.value)
  BY <1>6, <1>7, <1>9 DEF Given
<1> QED BY <1>8, <1>9 DEF CompileDef

\* A cell that neither of the two stands for keeps its class.
LEMMA Spared ==
  ASSUME IInv, NEW d, NEW v, Unifies(d, v), NEW t \in Cell,
         \A c \in Cell : val[c] = t \/ c = t => ~(Top.at <= c.at /\ IsDeclared(c))
  PROVE \A c \in Cell : val'[c] = t <=> val[c] = t
<1>1. val \in [Cell -> Cell \cup Lit] /\ d.value \in Cell \cup Lit /\ v \in Cell \cup Lit
      /\ Lit \cap Cell = {}
  BY ImportAssumption DEF IInv, TypeOK, Unifies
<1>2. ASSUME NEW u \in {d.value, v} PROVE u # t /\ Meaning(u) # t
  <2>1. CASE u \in Cell
    BY <2>1 DEF Unifies, Meaning
  <2>2. CASE u \notin Cell
    BY <2>2 DEF Meaning
  <2> QED BY <2>1, <2>2
<1>3. PICK x, y : x = Meaning(d.value) /\ y = Meaning(v) /\ x # t /\ y # t /\ d.value # t
  BY <1>2
<1>4. \/ UNCHANGED val \/ val' = Merge(x, y) \/ val' = [val EXCEPT ![d.value] = y]
  BY <1>3 DEF Unifies, Unify, UnifyTypes, UnifyExprs
<1>5. ASSUME NEW c \in Cell, val' = Merge(x, y) PROVE val'[c] = t <=> val[c] = t
  BY <1>3, <1>5 DEF Merge
<1>6. ASSUME NEW c \in Cell, val' = [val EXCEPT ![d.value] = y] PROVE val'[c] = t <=> val[c] = t
  <2>1. CASE c = d.value
    BY <1>1, <1>3, <1>6, <2>1 DEF Meaning
  <2>2. CASE c # d.value
    BY <1>1, <1>6, <2>2
  <2> QED BY <2>1, <2>2
<1> QED BY <1>4, <1>5, <1>6

\* A call without errors gives its own cell a meaning, and with it the cells that have been
\* unified with it: they are of the same schema.
LEMMA OwnMerge ==
  ASSUME IInv, CellsInv, CompileDef, NEW d, NEW v, Unifies(d, v), Top.errs = {}
  PROVE /\ Top.n \in Pending(Top) /\ OwnCell(Top, Top.n)
        /\ \A c \in Cell : val'[c] = val[c] \/ val[c] = CellOf(Top, Top.n)
<1>1. /\ stack # <<>> /\ Top.phase = "compile" /\ Top.n <= Len(Top.prog) /\ Stmt.op = "def"
  BY DEF CompileDef, At
<1>2. Top.n \in 1..Len(Top.prog) /\ Top.n >= Top.n
  BY <1>1, StmtFacts, TopFacts, CallFields
<1>3. Top.n \in Pending(Top)
  BY <1>1, <1>2 DEF Pending, Stmt
<1>4. OwnCell(Top, Top.n)
  BY <1>1, <1>3, TopRooted DEF Undefined
<1>5. PICK t : t = CellOf(Top, Top.n) /\ t \in Cell
  <2>1. Stmt.kind \in {"type", "expr"} /\ Stmt.name \in Name /\ Top.at \in 1..MaxSchema
    BY <1>1, StmtFacts, DefFields, TopFacts, CallFields
  <2>2. CellOf(Top, Top.n) = [at |-> Top.at, kind |-> Stmt.kind, name |-> Stmt.name]
    BY DEF CellOf, Stmt
  <2>3. CellOf(Top, Top.n) \in Cell
    BY <2>1, <2>2 DEF Cell
  <2> QED BY <2>3
<1>6. d.value = t /\ Meaning(d.value) = t
  <2>1. d \in schemas[Top.at].decls /\ d.kind = t.kind /\ d.name = t.name
    BY <1>5 DEF Unifies, Own, Here, CellOf, Stmt
  <2> QED BY <1>4, <1>5, <2>1 DEF OwnCell, Meaning
<1>7. UNCHANGED val \/ val' = Merge(t, Meaning(v))
  BY <1>6 DEF Unifies, Unify, UnifyTypes, UnifyExprs
<1>8. \A c \in Cell : val'[c] = val[c] \/ val[c] = t
  BY <1>5, <1>7 DEF Merge
<1> QED BY <1>3, <1>4, <1>5, <1>8

LEMMA CompileDefCells == IInv /\ CellsInv /\ CompileDef => CellsInv'
<1> SUFFICES ASSUME IInv, CellsInv, CompileDef PROVE CellsInv'
  OBVIOUS
<1>1. /\ stack # <<>> /\ Top.phase = "compile" /\ Top.n <= Len(Top.prog) /\ Stmt.op = "def"
      /\ UNCHANGED <<text, schemas, inputs>> /\ More /\ Top = stack[1] /\ 1 \in 1..Len(stack)
  BY TopFacts DEF CompileDef, At, More, IInv, TypeOK
<1>2. CASE Fail /\ UNCHANGED <<val, late>>
  BY <1>1, <1>2, FailCells
<1>3. CASE \E d, v : Unifies(d, v)
  <2>1. PICK d, v : Unifies(d, v)
    BY <1>3
  <2>2. PICK errs \in SUBSET Nat : NextStatement(errs)
    <3>1. Fail \/ Succeed
      BY <2>1 DEF Unifies, Unify, UnifyTypes, UnifyExprs
    <3>2. {Top.n} \in SUBSET Nat /\ {} \in SUBSET Nat
      BY <1>1, TopFacts, CallFields
    <3> QED BY <3>1, <3>2 DEF Fail, Succeed
  <2>3. PICK f \in CallType :
          /\ Becomes(f) /\ f.at = Top.at /\ f.prog = Top.prog /\ f.phase = Top.phase
          /\ f.step = "start" /\ f.look.st = "idle" /\ f.n = Top.n + 1 /\ f.got = {}
          /\ f.errs = Top.errs \cup errs
    BY <1>1, <2>2, NextFields
  <2>4. /\ stack' \in Seq(CallType) /\ Len(stack') = Len(stack)
        /\ \A j \in 1..Len(stack) : stack'[j] = IF j = 1 THEN f ELSE stack[j]
    BY <1>1, <2>3, Replaced DEF Becomes, IInv, TypeOK
  <2>5. Top.at \in 1..Len(schemas) /\ Top.at \in Nat /\ Len(schemas) \in Nat
        /\ Top.n \in Nat /\ Top.prog \in Program
    BY <1>1, TopFacts, CallFields DEF IInv, TypeOK
  <2>6. RootedCall(f)
    BY <2>3 DEF RootedCall, AddsOwn
  <2>7. ASSUME f.errs = {}, NEW m \in Pending(f) PROVE OwnCell(f, m)'
    <3>1. Top.errs = {}
      BY <2>3, <2>7
    <3>2. PICK t : t = CellOf(Top, Top.n)
      OBVIOUS
    <3>3. /\ Top.n \in Pending(Top) /\ OwnCell(Top, Top.n)
          /\ \A c \in Cell : val'[c] = val[c] \/ val[c] = t
      BY <2>1, <3>1, <3>2, OwnMerge
    <3>4. m \in Pending(Top) /\ m # Top.n /\ \A l \in Pending(f) : l \in Pending(Top)
      <4>1. \A l \in 1..Len(Top.prog) : l >= Top.n + 1 => l >= Top.n /\ l # Top.n
        BY <2>5
      <4> QED BY <1>1, <2>3, <2>7, <4>1 DEF Pending
    <3>5. PICK u : u = CellOf(f, m)
      OBVIOUS
    <3>6. \A l : CellOf(f, l) = CellOf(Top, l)
      BY <2>3 DEF CellOf
    <3>7. OwnCell(Top, m)
      BY <1>1, <3>1, <3>4, TopRooted DEF Undefined
    <3>8. /\ val[u] = u /\ \A c \in Cell : val[c] = u => c.at = f.at
          /\ \A o \in schemas[f.at].decls : o.kind = u.kind /\ o.name = u.name => o.value = u
          /\ \A l \in Pending(Top) : CellOf(f, l) = u => l = m
      BY <2>3, <3>5, <3>6, <3>7 DEF OwnCell
    <3>9. u # t
      BY <3>2, <3>3, <3>4, <3>6, <3>8
    <3>10. u \in Cell
      <4>1. m \in 1..Len(Top.prog) /\ Top.prog[m].op = "def"
        BY <3>4 DEF Pending
      <4>2. Top.prog[m] \in Import \cup Def
        BY <2>5, <4>1 DEF Program
      <4>3. Top.prog[m] \in Def
        BY <4>1, <4>2 DEF Import
      <4>4. Top.prog[m].kind \in {"type", "expr"} /\ Top.prog[m].name \in Name /\ Top.at \in 1..MaxSchema
        BY <1>1, <4>3, DefFields, TopFacts, CallFields
      <4> QED BY <3>5, <3>6, <4>4 DEF CellOf, Cell
    <3>11. val'[u] = u
      BY <3>3, <3>8, <3>9, <3>10
    <3>12. ASSUME NEW c \in Cell, val'[c] = u PROVE c.at = f.at
      <4>1. CASE val[c] = t
        BY <2>3, <3>2, <3>3, <4>1 DEF OwnCell
      <4>2. CASE val'[c] = val[c]
        BY <3>8, <3>12, <4>2
      <4> QED BY <3>3, <4>1, <4>2
    <3>13. /\ \A o \in schemas'[f.at].decls : o.kind = u.kind /\ o.name = u.name => o.value = u
           /\ \A l \in Pending(f) : CellOf(f, l) = u => l = m
      BY <1>1, <3>4, <3>8
    <3>14. Pending(f)' = Pending(f)
      BY DEF Pending
    <3> QED BY <3>5, <3>11, <3>12, <3>13, <3>14 DEF OwnCell, CellOf
  <2>8. Undefined(f)'
    <3>1. Pending(f)' = Pending(f)
      BY DEF Pending
    <3> QED BY <2>7, <3>1 DEF Undefined
  \* The calls that wait have cells of older schemas.
  <2>9. ASSUME NEW g \in CallType, g.at \in Nat, g.at < Top.at, Undefined(g)
        PROVE Undefined(g)'
    <3>1. Pending(g)' = Pending(g)
      BY DEF Pending
    <3>2. ASSUME g.errs = {}, NEW m \in Pending(g) PROVE OwnCell(g, m)'
      <4>1. PICK t : t = CellOf(g, m) /\ t.at = g.at
        <5>1. CellOf(g, m).at = g.at
          BY DEF CellOf
        <5> QED BY <5>1
      <4>2. /\ val[t] = t /\ \A c \in Cell : val[c] = t => c.at = g.at
            /\ \A o \in schemas[g.at].decls : o.kind = t.kind /\ o.name = t.name => o.value = t
            /\ \A l \in Pending(g) : CellOf(g, l) = t => l = m
        BY <2>9, <3>2, <4>1 DEF Undefined, OwnCell
      <4>3. t \in Cell
        <5>1. m \in 1..Len(g.prog) /\ g.prog[m].op = "def" /\ g.prog \in Program
          BY <3>2, CallFields DEF Pending
        <5>2. g.prog[m] \in Import \cup Def
          BY <5>1 DEF Program
        <5>3. g.prog[m] \in Def
          BY <5>1, <5>2 DEF Import
        <5>4. g.prog[m].kind \in {"type", "expr"} /\ g.prog[m].name \in Name /\ g.at \in 1..MaxSchema
          BY <5>3, DefFields, CallFields
        <5> QED BY <4>1, <5>4 DEF CellOf, Cell
      <4>4. \A c \in Cell : val[c] = t \/ c = t => ~(Top.at <= c.at /\ IsDeclared(c))
        BY <2>5, <2>9, <4>1, <4>2
      <4>5. \A c \in Cell : val'[c] = t <=> val[c] = t
        BY <2>1, <4>3, <4>4, Spared
      <4>6. /\ val'[t] = t /\ \A c \in Cell : val'[c] = t => c.at = g.at
            /\ \A o \in schemas'[g.at].decls : o.kind = t.kind /\ o.name = t.name => o.value = t
        BY <1>1, <4>2, <4>3, <4>5
      <4> QED BY <3>1, <4>1, <4>2, <4>6 DEF OwnCell, CellOf
    <3> QED BY <3>1, <3>2 DEF Undefined
  <2>10. ASSUME NEW j \in 1..Len(stack') PROVE RootedCall(stack[j])' /\ Undefined(stack[j])'
    <3>1. CASE j = 1
      <4>1. RootedCall(f)'
        BY <1>1, <2>6, RootedCallStays
      <4>2. stack'[j] = f
        BY <2>4, <3>1
      <4> QED BY <2>8, <4>1, <4>2 DEF RootedCall, Undefined
    <3>2. CASE j # 1
      <4>1. j \in 1..Len(stack) /\ stack'[j] = stack[j]
        BY <2>4, <3>2
      <4>2. PICK g \in CallType : g = stack[j]
        BY <4>1, StackFacts
      <4>3. g.at \in 1..Len(schemas) /\ RootedCall(g) /\ Undefined(g)
        BY <4>1, <4>2, StackFacts DEF CellsInv, Values
      <4>4. g.at < Top.at /\ g.at \in Nat
        <5>1. 1 < j
          BY <3>2, <4>1
        <5>2. stack[1].at > stack[j].at
          BY <1>1, <4>1, <5>1 DEF IInv, Nested
        <5> QED BY <1>1, <2>5, <4>2, <4>3, <5>2
      <4>5. RootedCall(g)' /\ Undefined(g)'
        BY <1>1, <2>9, <4>3, <4>4, RootedCallStays
      <4> QED BY <4>1, <4>2, <4>5 DEF RootedCall, Undefined
    <3> QED BY <3>1, <3>2
  <2>11. Values'
    <3>1. ASSUME NEW c \in 1..Len(schemas), NEW o \in schemas[c].decls PROVE Rooted(o.kind, o.value, c)'
      <4>1. Rooted(o.kind, o.value, c) /\ c \in Nat
        BY <3>1 DEF CellsInv, Values
      <4> QED BY <1>1, <4>1, RootedStays
    <3> QED BY <1>1, <2>10, <3>1 DEF Values
  <2>12. Untouched'
    <3>1. ASSUME NEW t \in Cell, ~IsDeclared(t) PROVE \A c \in Cell : val'[c] = t <=> c = t
      <4>1. \A c \in Cell : val[c] = t <=> c = t
        BY <3>1 DEF CellsInv, Untouched
      <4>2. \A c \in Cell : val[c] = t \/ c = t => ~(Top.at <= c.at /\ IsDeclared(c))
        BY <3>1, <4>1
      <4>3. \A c \in Cell : val'[c] = t <=> val[c] = t
        BY <2>1, <4>2, Spared
      <4> QED BY <4>1, <4>3
    <3>2. \A t \in Cell : IsDeclared(t)' <=> IsDeclared(t)
      BY <1>1 DEF IsDeclared, Has
    <3> QED BY <3>1, <3>2 DEF Untouched
  <2> QED BY <2>10, <2>11, <2>12 DEF CellsInv
<1> QED BY <1>2, <1>3, CompileDefUnifies

LEMMA NextPhaseCells ==
  ASSUME IInv, CellsInv, NEW from \in {"declare", "compile"}, NEW to \in {"compile", "gather"},
         NextPhase(from, to),
         (from = "declare" /\ to = "compile") \/ (from = "compile" /\ to = "gather")
  PROVE CellsInv'
<1>1. /\ stack # <<>> /\ Top.phase = from /\ Top.n > Len(Top.prog)
      /\ Becomes([Top EXCEPT !.phase = to, !.n = 1]) /\ UNCHANGED <<schemas, val>>
  BY DEF NextPhase
<1>2. PICK one : one = 1
  OBVIOUS
<1>3. PICK f : f = [Top EXCEPT !.phase = to, !.n = one]
  OBVIOUS
<1>4. /\ f \in CallType
      /\ f.at = Top.at /\ f.prog = Top.prog /\ f.errs = Top.errs /\ f.got = Top.got
      /\ f.phase = to /\ f.step = Top.step /\ f.look = Top.look /\ f.n = one
  <2>1. one \in Nat \ {0} /\ to \in {"declare", "compile", "gather"}
    BY <1>2
  <2> QED BY <1>1, <1>3, <2>1, TopFacts DEF CallType
<1>5. Top.prog \in Program /\ Top.n \in Nat
  BY <1>1, TopFacts, CallFields
<1>6. ~AddsOwn(Top)
  <2>1. ~(Top.n <= Len(Top.prog))
    BY <1>1, <1>5 DEF Program
  <2> QED BY <1>1, <2>1, TopFacts DEF AddsOwn, HasDeclared
<1>7. RootedCall(f)
  BY <1>1, <1>4, <1>6, TopRooted DEF RootedCall, AddsOwn
<1>8. Pending(f) \subseteq Pending(Top)
  <2>1. \A m \in 1..Len(Top.prog) : m < Top.n
    BY <1>1, <1>5 DEF Program
  <2> QED BY <1>1, <1>4, <2>1 DEF Pending
<1>9. Becomes(f)
  BY <1>1, <1>2, <1>3
<1> QED BY <1>1, <1>4, <1>7, <1>8, <1>9, QuietCells

LEMMA SessionDecls ==
  ASSUME schemas \in Seq(SchemaType), NEW q, schemas' = [schemas EXCEPT ![1] = q],
         q.decls = schemas[1].decls
  PROVE /\ Len(schemas') = Len(schemas)
        /\ \A c \in 1..Len(schemas) : schemas'[c].decls = schemas[c].decls
<1>1. Len(schemas') = Len(schemas) /\ DOMAIN schemas = 1..Len(schemas)
  OBVIOUS
<1>2. \A c \in 1..Len(schemas) : schemas'[c] = IF c = 1 THEN q ELSE schemas[c]
  BY <1>1
<1> QED BY <1>1, <1>2

LEMMA InputCells ==
  ASSUME IInv, CellsInv, NEW prog \in Inputs, Input(prog)
  PROVE CellsInv'
<1>1. /\ stack = <<>> /\ UNCHANGED val
      /\ schemas' = [schemas EXCEPT ![1].said = Append(@, prog),
                                    ![1].result = IF @ = "bad" THEN @ ELSE "open"]
  BY DEF Input
<1>2. PICK x \in Name : x = CHOOSE y \in Name : TRUE
  BY ImportAssumption
<1>3. PICK call : call = Call(1, prog, 0, x)
  OBVIOUS
<1>4. prog \in Program /\ 1 \in 1..MaxSchema /\ 0 \in 0..MaxSchema
  BY ImportAssumption
<1>5. /\ call \in CallType /\ call.phase = "declare" /\ call.n = 1 /\ call.step = "start"
      /\ call.look = Idle /\ call.prog \in Program
  BY <1>3, <1>4, NewCall
<1>6. call.got = {}
  BY <1>3 DEF Call
<1>7. stack' = <<call>>
  BY <1>2, <1>3 DEF Input
<1>8. SameCells
  <2>1. schemas \in Seq(SchemaType) /\ Len(schemas) \in Nat \ {0}
    BY DEF IInv, TypeOK
  <2>2. /\ Len(schemas') = Len(schemas)
        /\ \A c \in 1..Len(schemas) : schemas'[c].decls = schemas[c].decls
    <3>1. PICK r \in SchemaType : r = schemas[1]
      BY <2>1
    <3>2. PICK said, result :
            said = Append(r.said, prog) /\ result = IF r.result = "bad" THEN r.result ELSE "open"
      OBVIOUS
    <3>3. PICK q : q = [r EXCEPT !.said = said, !.result = result]
      OBVIOUS
    <3>4. q.decls = r.decls
      BY <3>1, <3>3 DEF SchemaType
    <3>5. schemas' = [schemas EXCEPT ![1] = q]
      BY <1>1, <2>1, <3>1, <3>2, <3>3
    <3> QED BY <2>1, <3>1, <3>4, <3>5, SessionDecls
  <2>3. Len(schemas') \in Nat /\ Len(schemas) <= Len(schemas')
    BY <2>1, <2>2
  <2>4. \A c \in 1..Len(schemas') : c > Len(schemas) => schemas'[c].decls = {}
    BY <2>1, <2>2
  <2> QED BY <1>1, <2>2, <2>3, <2>4 DEF SameCells
<1>9. RootedCall(call)' /\ Undefined(call)'
  <2>1. call.look.st = "idle"
    BY <1>5 DEF Idle
  <2>2. RootedCall(call)'
    BY <1>5, <1>6, <2>1 DEF RootedCall, AddsOwn
  <2>3. Pending(call)' = {}
    <3>1. \A m \in 1..Len(call.prog) : ~(m < call.n \/ (m = call.n /\ call.step = "add" /\ call.got = {}))
      BY <1>5 DEF Program
    <3> QED BY <1>5, <3>1 DEF Pending
  <2> QED BY <2>2, <2>3 DEF Undefined
<1>10. ASSUME NEW j \in 1..Len(stack') PROVE RootedCall(stack[j])' /\ Undefined(stack[j])'
  <2>1. stack'[j] = call
    BY <1>7
  <2> QED BY <1>9, <2>1 DEF RootedCall, Undefined
<1>11. Values'
  BY <1>8, <1>10, DeclsStay DEF Values
<1> QED BY <1>8, <1>10, <1>11, DeclsStay DEF CellsInv

LEMMA ReturnCells == IInv /\ CellsInv /\ Return => CellsInv'
<1> SUFFICES ASSUME IInv, CellsInv, Return PROVE CellsInv'
  OBVIOUS
<1>1. stack # <<>> /\ UNCHANGED val /\ schemas \in Seq(SchemaType) /\ Len(schemas) \in Nat \ {0}
      /\ Top \in CallType /\ Top.at \in 1..Len(schemas)
  BY TopFacts DEF Return, IInv, TypeOK
<1>2. CASE Top.by = 0
  <2>1. /\ stack' = <<>>
        /\ schemas' = [schemas EXCEPT ![1].result = IF @ = "bad" \/ late THEN "bad" ELSE Outcome]
    BY <1>2 DEF Return
  <2>2. /\ Len(schemas') = Len(schemas)
        /\ \A c \in 1..Len(schemas) : schemas'[c].decls = schemas[c].decls
    <3>1. PICK r \in SchemaType : r = schemas[1]
      BY <1>1
    <3>2. PICK result : schemas' = [schemas EXCEPT ![1].result = result]
      BY <2>1
    <3>3. PICK q : q = [r EXCEPT !.result = result]
      OBVIOUS
    <3>4. q.decls = r.decls
      BY <3>3 DEF SchemaType
    <3>5. schemas' = [schemas EXCEPT ![1] = q]
      BY <3>1, <3>2, <3>3
    <3> QED BY <1>1, <3>1, <3>4, <3>5, SessionDecls
  <2>3. /\ Len(schemas') \in Nat /\ Len(schemas) <= Len(schemas')
        /\ \A c \in 1..Len(schemas') : c > Len(schemas) => schemas'[c].decls = {}
    BY <1>1, <2>2
  <2>4. SameCells
    BY <1>1, <2>2, <2>3 DEF SameCells
  <2>5. Len(stack') = 0
    BY <2>1
  <2> QED BY <2>4, <2>5, DeclsStay DEF Values, CellsInv
<1>3. CASE Top.by # 0
  <2>1. /\ stack' = <<[stack[2] EXCEPT !.missed = (Outcome = "bad")]>> \o Tail(Tail(stack))
        /\ schemas' = [schemas EXCEPT
                         ![Top.at].result = Outcome,
                         ![Top.by].imports[Top.path] = IF Outcome = "ok" THEN Top.at ELSE @]
    BY <1>3 DEF Return, Kept
  <2>2. /\ Len(stack) \in Nat /\ Len(stack) > 1 /\ stack \in Seq(CallType)
        /\ Top = stack[1] /\ 1 \in 1..Len(stack) /\ 2 \in 1..Len(stack)
    <3>1. Len(stack) \in Nat \ {0} /\ Top = stack[1] /\ stack \in Seq(CallType)
      BY <1>1, TopFacts DEF IInv, TypeOK
    <3>2. Len(stack) # 1
      BY <1>1, <1>3, SessionCall
    <3>3. Len(stack) \in Nat /\ Len(stack) > 1 /\ 1 \in 1..Len(stack) /\ 2 \in 1..Len(stack)
      <4>1. PICK n \in Nat \ {0} : n = Len(stack)
        BY <3>1
      <4>2. n > 1 /\ 1 \in 1..n /\ 2 \in 1..n
        BY <3>2, <4>1
      <4> QED BY <4>1, <4>2
    <3> QED BY ZenonT(60), <3>1, <3>3
  <2>3. PICK s \in 1..Len(schemas), b \in 1..Len(schemas) :
          /\ s = Top.at /\ b = Top.by
          /\ \E x, out, kept : schemas' = [schemas EXCEPT ![s].result = out, ![b].imports[x] = kept]
    <3>1. Top.by \in 1..Len(schemas)
      BY <2>2, ParentOfCall
    <3>2. PICK kept : kept = IF Outcome = "ok" THEN Top.at
                             ELSE [schemas EXCEPT ![Top.at].result = Outcome][Top.by].imports[Top.path]
      OBVIOUS
    <3> QED BY <1>1, <2>1, <3>1, <3>2
  <2>4. /\ Len(schemas') = Len(schemas)
        /\ \A c \in 1..Len(schemas) : schemas'[c].decls = schemas[c].decls
    <3>1. PICK x, out, kept :
            schemas' = [schemas EXCEPT ![s].result = out, ![b].imports[x] = kept]
      BY <2>3
    <3>2. PICK r, q : r = schemas[s] /\ q = [r EXCEPT !.result = out]
      OBVIOUS
    <3>3. PICK mid : mid = [schemas EXCEPT ![s] = q]
      OBVIOUS
    <3>4. q.decls = r.decls /\ DOMAIN q = DOMAIN schemas[s]
      <4>1. r \in SchemaType
        BY <1>1, <2>3, <3>2
      <4> QED BY <3>2, <4>1 DEF SchemaType
    <3>5. /\ Len(mid) = Len(schemas) /\ DOMAIN mid = 1..Len(schemas)
          /\ \A c \in 1..Len(schemas) : mid[c].decls = schemas[c].decls
          /\ "decls" \in DOMAIN mid[b]
      <4>1. \A a \in SchemaType : "decls" \in DOMAIN a
        BY DEF SchemaType
      <4>2. schemas[b] \in SchemaType /\ schemas[s] \in SchemaType
        BY <1>1, <2>3
      <4>3. "decls" \in DOMAIN schemas[b] /\ "decls" \in DOMAIN schemas[s]
        BY <4>1, <4>2
      <4> QED BY <1>1, <2>3, <3>2, <3>3, <3>4, <4>3
    <3>6. PICK t, p : t = mid[b] /\ p = [t EXCEPT !.imports[x] = kept]
      OBVIOUS
    <3>7. p.decls = t.decls
      BY <3>5, <3>6
    <3>8. schemas' = [mid EXCEPT ![b] = p]
      BY <2>3, <3>1, <3>2, <3>3, <3>5, <3>6
    <3> QED BY <2>3, <3>5, <3>6, <3>7, <3>8
  <2>5. SameCells
    <3>1. /\ Len(schemas') \in Nat /\ Len(schemas) <= Len(schemas')
          /\ \A c \in 1..Len(schemas') : c > Len(schemas) => schemas'[c].decls = {}
      BY <1>1, <2>4
    <3> QED BY <1>1, <2>4, <3>1 DEF SameCells
  <2>6. PICK h \in CallType : h = stack[2]
    BY <2>2
  <2>7. PICK g : g = [h EXCEPT !.missed = (Outcome = "bad")]
    OBVIOUS
  <2>8. /\ g \in CallType /\ g.at = h.at /\ g.prog = h.prog /\ g.phase = h.phase /\ g.n = h.n
        /\ g.step = h.step /\ g.got = h.got /\ g.look = h.look /\ g.errs = h.errs
    <3>1. (Outcome = "bad") \in BOOLEAN
      OBVIOUS
    <3> QED BY ZenonT(60), <2>6, <2>7, <3>1 DEF CallType
  <2>9. /\ stack' \in Seq(CallType) /\ Len(stack') = Len(stack) - 1
        /\ \A j \in 1..Len(stack') : stack'[j] = IF j = 1 THEN g ELSE stack[j + 1]
    <3>1. stack' = <<g>> \o Tail(Tail(stack))
      BY <2>1, <2>6, <2>7
    <3>2. PICK u \in Seq(CallType) : /\ u = Tail(stack) /\ Len(u) = Len(stack) - 1 /\ u # <<>>
                                    /\ \A j \in 1..Len(u) : u[j] = stack[j + 1]
      BY ZenonT(60), <1>1, <2>2, Tailed
    <3>3. /\ stack' \in Seq(CallType) /\ Len(stack') = Len(u)
          /\ \A j \in 1..Len(stack') : stack'[j] = IF j = 1 THEN g ELSE u[j]
      BY SMTT(60), <2>8, <3>1, <3>2, Replaced
    <3> QED BY <2>2, <3>2, <3>3
  <2>10. ASSUME NEW i \in 1..Len(stack)
         PROVE RootedCall(stack[i]) /\ Undefined(stack[i]) /\ stack[i].at \in 1..Len(schemas)
    BY StackFacts DEF CellsInv, Values
  <2>11. RootedCall(g) /\ Undefined(g) /\ g.at \in 1..Len(schemas)
    <3>1. RootedCall(h) /\ Undefined(h) /\ h.at \in 1..Len(schemas)
      BY <2>2, <2>6, <2>10
    <3>2. RootedCall(g)
      BY <2>8, <3>1 DEF RootedCall, AddsOwn, CellOf
    <3>3. Pending(g) = Pending(h) /\ \A m : CellOf(g, m) = CellOf(h, m)
      BY <2>8 DEF Pending, CellOf
    <3>4. \A m : OwnCell(h, m) => OwnCell(g, m)
      BY <2>8, <3>3 DEF OwnCell
    <3>5. Undefined(g)
      BY <2>8, <3>1, <3>3, <3>4 DEF Undefined
    <3> QED BY <2>8, <3>1, <3>2, <3>5
  <2>12. ASSUME NEW j \in 1..Len(stack') PROVE RootedCall(stack[j])' /\ Undefined(stack[j])'
    <3>1. PICK k \in CallType : k = stack'[j]
      BY <2>9
    <3>2. RootedCall(k) /\ Undefined(k) /\ k.at \in 1..Len(schemas)
      <4>1. CASE j = 1
        BY <2>9, <2>11, <3>1, <4>1
      <4>2. CASE j # 1
        <5>1. j + 1 \in 1..Len(stack) /\ k = stack[j + 1]
          BY <2>2, <2>9, <3>1, <4>2
        <5> QED BY <2>10, <5>1
      <4> QED BY <4>1, <4>2
    <3>3. RootedCall(k)' /\ Undefined(k)'
      BY <2>5, <3>2, SameIsMore, RootedCallStays, UndefinedStays
    <3> QED BY <3>1, <3>3 DEF RootedCall, Undefined
  <2>13. Values'
    BY <2>5, <2>12, DeclsStay DEF Values
  <2> QED BY <2>5, <2>12, <2>13, DeclsStay DEF CellsInv
<1> QED BY <1>2, <1>3

LEMMA WorkCells == IInv /\ CellsInv /\ Work => CellsInv'
<1> SUFFICES ASSUME IInv, CellsInv, Work PROVE CellsInv'
  OBVIOUS
<1>1. CASE Lookup
  BY <1>1, LookFindsCells, LookFollowsCells, LookFallsBackCells DEF Lookup
<1>2. CASE Declare
  BY <1>2, DeclareDefCells, DeclareImportCells, LookForItemCells, ImportItemCells,
     ItemsDoneCells, AddDeclCells, DeclaredCells DEF Declare
<1>3. CASE Compile
  BY <1>3, CompileImportCells, LookForPathCells, CompileDefCells DEF Compile
<1>4. CASE EndDeclare
  <2>1. PICK from \in {"declare", "compile"}, to \in {"compile", "gather"} :
          from = "declare" /\ to = "compile"
    OBVIOUS
  <2>2. NextPhase(from, to)
    BY <1>4, <2>1 DEF EndDeclare
  <2> QED BY <2>1, <2>2, NextPhaseCells
<1>5. CASE EndCompile
  <2>1. PICK from \in {"declare", "compile"}, to \in {"compile", "gather"} :
          from = "compile" /\ to = "gather"
    OBVIOUS
  <2>2. NextPhase(from, to)
    BY <1>5, <2>1 DEF EndCompile
  <2> QED BY <2>1, <2>2, NextPhaseCells
<1>6. CASE Return
  BY <1>6, ReturnCells
<1> QED BY <1>1, <1>2, <1>3, <1>4, <1>5, <1>6 DEF Work

LEMMA InitCells == Init => CellsInv
<1> SUFFICES ASSUME Init PROVE CellsInv
  OBVIOUS
<1>1. stack = <<>> /\ Len(stack) = 0 /\ val = [c \in Cell |-> c]
  BY DEF Init
<1>2. PICK new : schemas = <<new>> /\ new.decls = {}
  BY DEF Init, NewSchema
<1>3. Len(schemas) = 1 /\ schemas[1] = new
  BY <1>2
<1>4. Values
  BY <1>1, <1>2, <1>3 DEF Values
<1>5. Untouched
  BY <1>1 DEF Untouched
<1> QED BY <1>1, <1>4, <1>5 DEF CellsInv

LEMMA CellsInductive == Spec => []CellsInv
<1>1. IInv /\ CellsInv /\ [Next]_vars => CellsInv'
  <2> SUFFICES ASSUME IInv, CellsInv, [Next]_vars PROVE CellsInv'
    OBVIOUS
  <2>1. CASE \E prog \in Inputs : Input(prog)
    BY <2>1, InputCells
  <2>2. CASE Work
    BY <2>2, WorkCells
  <2>3. CASE UNCHANGED vars
    <3>1. UNCHANGED <<schemas, val, stack>>
      BY <2>3 DEF vars
    <3>2. SameCells
      BY <3>1 DEF SameCells, IInv, TypeOK
    <3>3. ASSUME NEW j \in 1..Len(stack') PROVE RootedCall(stack[j])' /\ Undefined(stack[j])'
      <4>1. PICK g \in CallType : g = stack[j] /\ g = stack'[j]
        BY <3>1, StackFacts
      <4>2. RootedCall(g) /\ Undefined(g) /\ g.at \in 1..Len(schemas)
        BY <3>1, <4>1, StackFacts DEF CellsInv, Values
      <4>3. RootedCall(g)' /\ Undefined(g)'
        BY <3>2, <4>2, SameIsMore, RootedCallStays, UndefinedStays
      <4> QED BY <4>1, <4>3 DEF RootedCall, Undefined
    <3>4. Values'
      BY <3>2, <3>3, DeclsStay DEF Values
    <3> QED BY <3>2, <3>3, <3>4, DeclsStay DEF CellsInv
  <2> QED BY <2>1, <2>2, <2>3 DEF Next
<1> QED BY <1>1, InitCells, Inductive, PTL DEF Spec

\* A schema that compiles without an error gives a meaning to cells of its own only: a
\* definition has a cell of its own, which the schemas that share it cannot have merged with
\* theirs before it is compiled.
THEOREM DefinesOwnCells == Spec => NoForeignDefinition
<1>1. IInv /\ CellsInv /\ [Next]_vars =>
        [\A c \in Cell : val[c] \notin Lit /\ val'[c] \in Lit /\ c.at # Top.at
           => Top.errs # {}]_vars
  <2> SUFFICES ASSUME IInv, CellsInv, Next, NEW c \in Cell,
                      val[c] \notin Lit, val'[c] \in Lit, c.at # Top.at, Top.errs = {}
               PROVE FALSE
    BY DEF vars
  <2>1. val'[c] # val[c]
    OBVIOUS
  <2>2. CompileDef
    BY <2>1 DEF Next, Input, Work, Lookup, LookFinds, LookFollows, LookFallsBack, Enter, Declare,
       DeclareDef, DeclareImport, LookForItem, ImportItem, ItemsDone, AddDecl, Declared, Compile,
       CompileImport, LookForPath, EndDeclare, EndCompile, NextPhase, Return
  <2>3. PICK d, v : Unifies(d, v)
    BY <2>1, <2>2, CompileDefUnifies
  <2>4. OwnCell(Top, Top.n) /\ val[c] = CellOf(Top, Top.n)
    BY <2>1, <2>2, <2>3, OwnMerge
  <2>5. c.at = Top.at
    BY <2>4 DEF OwnCell
  <2> QED BY <2>5
<1> QED BY <1>1, Inductive, CellsInductive, PTL DEF Spec, NoForeignDefinition

-------------------------------------------------------------------------------
(* What can be reached along a set of edges.                                                *)
LEMMA ReachedSelf ==
  ASSUME NEW E, NEW a PROVE a \in Reached(E, a)
  BY DEF Reached

LEMMA ReachedNext ==
  ASSUME NEW E, NEW a, NEW b \in Reached(E, a), NEW c, <<b, c>> \in E
  PROVE c \in Reached(E, a)
<1> DEFINE all == {a} \cup {e[2] : e \in E}
<1>1. c \in all
  BY <<b, c>>[2] = c
<1>2. ASSUME NEW Z \in SUBSET all, a \in Z, \A e \in E : e[1] \in Z => e[2] \in Z
      PROVE c \in Z
  <2>1. b \in Z
    BY <1>2 DEF Reached
  <2>2. <<b, c>>[1] = b /\ <<b, c>>[2] = c
    OBVIOUS
  <2> QED BY <1>2, <2>1, <2>2
<1> QED BY <1>1, <1>2 DEF Reached

LEMMA ReachedWithin ==
  ASSUME NEW E, NEW a, NEW Z, a \in Z, \A e \in E : e[1] \in Z => e[2] \in Z
  PROVE Reached(E, a) \subseteq Z
<1> DEFINE all == {a} \cup {e[2] : e \in E}
<1>1. ASSUME NEW b \in Reached(E, a) PROVE b \in Z
  <2>1. Z \cap all \in SUBSET all /\ a \in Z \cap all
    OBVIOUS
  <2>2. \A e \in E : e[1] \in Z \cap all => e[2] \in Z \cap all
    OBVIOUS
  <2>3. b \in Z \cap all
    BY <2>1, <2>2 DEF Reached
  <2> QED BY <2>3
<1> QED BY <1>1

LEMMA ReachedMore ==
  ASSUME NEW E, NEW F, E \subseteq F, NEW a
  PROVE Reached(E, a) \subseteq Reached(F, a)
<1>1. a \in Reached(F, a)
  BY ReachedSelf
<1>2. ASSUME NEW e \in E, e[1] \in Reached(F, a) PROVE e[2] \in Reached(F, a)
  <2> DEFINE all == {a} \cup {o[2] : o \in F}
  <2>1. e[2] \in all
    OBVIOUS
  <2>2. ASSUME NEW Z \in SUBSET all, a \in Z, \A o \in F : o[1] \in Z => o[2] \in Z
        PROVE e[2] \in Z
    <3>1. e[1] \in Z
      BY <1>2, <2>2 DEF Reached
    <3> QED BY <2>2, <3>1
  <2> QED BY <2>1, <2>2 DEF Reached
<1> QED BY <1>1, <1>2, ReachedWithin

LEMMA ReachedOn ==
  ASSUME NEW E, NEW a, NEW b \in Reached(E, a) PROVE Reached(E, b) \subseteq Reached(E, a)
<1>1. ASSUME NEW e \in E, e[1] \in Reached(E, a) PROVE e[2] \in Reached(E, a)
  <2> DEFINE all == {a} \cup {o[2] : o \in E}
  <2>1. e[2] \in all
    OBVIOUS
  <2>2. ASSUME NEW Z \in SUBSET all, a \in Z, \A o \in E : o[1] \in Z => o[2] \in Z
        PROVE e[2] \in Z
    <3>1. e[1] \in Z
      BY <1>1, <2>2 DEF Reached
    <3> QED BY <2>2, <3>1
  <2> QED BY <2>1, <2>2 DEF Reached
<1> QED BY <1>1, ReachedWithin

-------------------------------------------------------------------------------
(* What a step leaves: schemas, statements, imports, declarations and texts that were       *)
(* there, and all declarations of every schema that is not being compiled.                  *)
HasText(f) == text[f] \notin {Missing, Broken, Unread}
Frame ==
    /\ Len(schemas') \in Nat /\ Len(schemas) <= Len(schemas')
    /\ \A c \in 1..Len(schemas) :
         /\ schemas'[c].file = schemas[c].file
         /\ Len(schemas'[c].said) \in Nat /\ Len(schemas[c].said) <= Len(schemas'[c].said)
         /\ \A j \in 1..Len(schemas[c].said) : schemas'[c].said[j] = schemas[c].said[j]
         /\ \A x \in Name : schemas[c].imports[x] # 0 => schemas'[c].imports[x] = schemas[c].imports[x]
         /\ schemas[c].decls \subseteq schemas'[c].decls
         /\ (\A i \in 1..Len(stack) : stack[i].at # c) => schemas'[c].decls = schemas[c].decls
    /\ \A f \in File : HasText(f) => text'[f] = text[f]
    /\ Errors => Errors'

LEMMA SaidFacts ==
  ASSUME IInv, NEW c \in 1..Len(schemas)
  PROVE /\ schemas[c].said \in Seq(Program) /\ Len(schemas[c].said) \in Nat
        /\ \A j \in 1..Len(schemas[c].said) :
             /\ schemas[c].said[j] \in Program /\ Len(schemas[c].said[j]) \in Nat
             /\ \A n \in 1..Len(schemas[c].said[j]) : schemas[c].said[j][n] \in Import \cup Def
             /\ Said(c, j) \subseteq Import \cup Def
             /\ DeclaredIn(c, j) \subseteq Said(c, j) /\ CompiledIn(c, j) \subseteq Said(c, j)
<1>1. schemas[c].said \in Seq(Program)
  BY SchemaFacts DEF SchemaType
<1>2. ASSUME NEW p \in Program PROVE Len(p) \in Nat /\ \A n \in 1..Len(p) : p[n] \in Import \cup Def
  BY <1>2 DEF Program
<1>3. Len(schemas[c].said) \in Nat /\ \A j \in 1..Len(schemas[c].said) : schemas[c].said[j] \in Program
  BY <1>1
<1>4. ASSUME NEW j \in 1..Len(schemas[c].said)
      PROVE /\ Said(c, j) \subseteq Import \cup Def
            /\ DeclaredIn(c, j) \subseteq Said(c, j) /\ CompiledIn(c, j) \subseteq Said(c, j)
  BY <1>2, <1>3 DEF Said, DeclaredIn, CompiledIn
<1> QED BY <1>1, <1>2, <1>3, <1>4

LEMMA StatementFields ==
  ASSUME NEW s \in Import \cup Def
  PROVE /\ s.op = "def" => /\ s \in Def /\ s.kind \in {"type", "expr"} /\ s.name \in Name
                           /\ s.path \in Seq(Name) /\ s.lit \in Lit /\ s.export \in BOOLEAN
        /\ s.op # "def" => /\ s \in Import /\ s.op = "import" /\ s.from \in Name
                           /\ s.list \in {"none", "star", "items"} /\ s.items \in Seq(Name)
                           /\ s.export \in BOOLEAN
  BY DEF Import, Def

LEMMA MakesStays ==
  ASSUME IInv, Frame, NEW c \in 1..Len(schemas), NEW s \in Import \cup Def, Imported(c, s)
  PROVE Makes(c, s)' = Makes(c, s) /\ Imported(c, s)'
<1>1. CASE s.op = "def"
  BY <1>1, StatementFields DEF Makes, OwnCellOf, Imported
<1>2. CASE s.op # "def"
  <2>1. PICK i : i = schemas[c].imports[s.from]
    OBVIOUS
  <2>2. s.from \in Name /\ s.op = "import" /\ i # 0
    BY <1>2, <2>1, StatementFields DEF Imported
  <2>3. i \in Nat
    BY <2>1, <2>2, SchemaFacts DEF IInv, TypeOK
  <2>4. i \in 1..Len(schemas) /\ \A j \in 1..Len(stack) : stack[j].at # i
    BY <2>1, <2>2, <2>3, ImportFacts
  <2>5. schemas'[c].imports[s.from] = i /\ schemas'[i].decls = schemas[i].decls
    BY <2>1, <2>2, <2>4 DEF Frame
  <2> QED BY <1>2, <2>1, <2>2, <2>5 DEF Makes, Imported
<1> QED BY <1>1, <1>2

LEMMA MakesGrow ==
  ASSUME IInv, Frame, NEW c \in 1..Len(schemas), NEW s \in Import \cup Def
  PROVE Makes(c, s) \subseteq Makes(c, s)'
<1>1. CASE Imported(c, s)
  BY <1>1, MakesStays
<1>2. CASE ~Imported(c, s)
  BY <1>2, StatementFields DEF Makes, Imported
<1> QED BY <1>1, <1>2

\* The statements of the first j inputs of schema c have what they import.
Ready(c, j) ==
    /\ c \in 1..Len(schemas) /\ j \in 1..Len(schemas[c].said)
    /\ \A i \in 1..j : \A s \in Said(c, i) : Imported(c, s)

LEMMA SaidStays ==
  ASSUME IInv, Frame, NEW c \in 1..Len(schemas), NEW j \in 1..Len(schemas[c].said)
  PROVE /\ c \in 1..Len(schemas') /\ j \in 1..Len(schemas'[c].said)
        /\ Said(c, j)' = Said(c, j) /\ schemas'[c].said[j] = schemas[c].said[j]
<1>1. Len(schemas[c].said) \in Nat /\ Len(schemas) \in Nat
  BY SaidFacts DEF IInv, TypeOK
<1>2. c \in 1..Len(schemas') /\ j \in 1..Len(schemas'[c].said)
  BY <1>1 DEF Frame
<1>3. schemas'[c].said[j] = schemas[c].said[j]
  BY DEF Frame
<1> QED BY <1>2, <1>3 DEF Said

LEMMA StatedStays ==
  ASSUME IInv, Frame, NEW c, NEW j, Ready(c, j)
  PROVE /\ \A i \in 1..j : /\ Said(c, i)' = Said(c, i)
                          /\ \A s \in Said(c, i) : Makes(c, s)' = Makes(c, s) /\ Imported(c, s)'
        /\ Ready(c, j)'
<1>1. /\ c \in 1..Len(schemas) /\ j \in 1..Len(schemas[c].said) /\ Len(schemas[c].said) \in Nat
      /\ c \in 1..Len(schemas') /\ j \in 1..Len(schemas'[c].said)
  BY SaidFacts, SaidStays DEF Ready
<1>2. \A i \in 1..j : i \in 1..Len(schemas[c].said) /\ Said(c, i)' = Said(c, i)
  BY <1>1, SaidStays
<1>3. ASSUME NEW i \in 1..j, NEW s \in Said(c, i)
      PROVE Makes(c, s)' = Makes(c, s) /\ Imported(c, s)'
  <2>1. s \in Import \cup Def /\ Imported(c, s)
    BY <1>1, <1>2, SaidFacts DEF Ready
  <2> QED BY <1>1, <2>1, MakesStays
<1> QED BY <1>1, <1>2, <1>3 DEF Ready

LEMMA NamesStay ==
  ASSUME IInv, Frame, NEW c, NEW j, Ready(c, j), NEW k, NEW x
  PROVE /\ Lacks(c, j, k, x) => Lacks(c, j, k, x)'
        /\ \A m, v : Shows(c, j, k, x, m, v) => Shows(c, j, k, x, m, v)'
<1>1. \A i \in 1..j : /\ Said(c, i)' = Said(c, i)
                    /\ \A s \in Said(c, i) : Makes(c, s)' = Makes(c, s)
  BY StatedStays
<1>2. Lacks(c, j, k, x) => Lacks(c, j, k, x)'
  BY <1>1 DEF Lacks
<1>3. \A m, v : Shows(c, j, k, x, m, v) => Shows(c, j, k, x, m, v)'
  BY <1>1 DEF Shows, Open
<1> QED BY <1>2, <1>3

LEMMA CleanReady ==
  ASSUME IInv, DeclsKept, NEW c \in 1..Len(schemas), NEW j \in 1..Len(schemas[c].said), Clean(c),
         \A i \in 1..j : Said(c, i) \subseteq DeclaredIn(c, i)
  PROVE Ready(c, j)
<1>1. \A i \in 1..j : i \in 1..Len(schemas[c].said)
  BY SaidFacts
<1> QED BY <1>1 DEF DeclsKept, Ready, Keeps

\* A schema that no call works on has declared and compiled all that it says.
LEMMA IdleDone ==
  ASSUME NEW c, \A i \in 1..Len(stack) : stack[i].at # c, NEW j
  PROVE /\ DeclaredIn(c, j) = Said(c, j) /\ CompiledIn(c, j) = Said(c, j)
        /\ schemas[c].result # "bad" => Clean(c)
<1>1. \A f \in Ongoing : f.at # c
  BY DEF Ongoing
<1> QED BY <1>1 DEF DeclaredIn, CompiledIn, Said, Clean

\* What is imported is declared to the end, and has said one thing.
LEMMA ImportReady ==
  ASSUME IInv, TextsSaid, DeclsKept, NEW c \in 1..Len(schemas), NEW x \in Name,
         schemas[c].imports[x] # 0
  PROVE LET b == schemas[c].imports[x] IN
        /\ b \in 2..Len(schemas) /\ b > c /\ Ready(b, 1) /\ Clean(b) /\ schemas[b].result = "ok"
        /\ Len(schemas[b].said) = 1 /\ \A i \in 1..Len(stack) : stack[i].at # b
<1> DEFINE b == schemas[c].imports[x]
<1>1. b \in Nat /\ b # 0 /\ b > c /\ Len(schemas) \in Nat
  BY SchemaFacts DEF IInv, TypeOK
<1>2. /\ b \in 1..Len(schemas) /\ schemas[b].result = "ok"
      /\ \A i \in 1..Len(stack) : stack[i].at # b
  BY <1>1, ImportFacts
<1> HIDE DEF b
<1>3. b \in 2..Len(schemas)
  BY <1>1, <1>2
<1>4. Len(schemas[b].said) = 1
  <2>1. PICK t : schemas[b].said = <<t>>
    BY <1>3 DEF TextsSaid
  <2> QED BY <2>1
<1>5. Clean(b) /\ \A j : DeclaredIn(b, j) = Said(b, j)
  BY <1>2, IdleDone
<1>6. Ready(b, 1)
  <2>1. 1 \in 1..Len(schemas[b].said) /\ \A i \in 1..1 : Said(b, i) \subseteq DeclaredIn(b, i)
    BY <1>4, <1>5
  <2> QED BY <1>2, <1>5, <2>1, CleanReady
<1> QED BY <1>1, <1>2, <1>3, <1>4, <1>5, <1>6 DEF b

LEMMA GoesOnStays ==
  ASSUME IInv, Frame, NEW c, NEW j, Ready(c, j), NEW k, NEW x \in Name, NEW m, NEW b,
         GoesOn(c, j, k, x, m, b)
  PROVE GoesOn(c, j, k, x, m, b)'
<1>1. Lacks(c, j, k, x)' /\ Shows(c, j, "schema", x, m, x)'
  BY NamesStay DEF GoesOn
<1>2. schemas'[c].imports[x] = schemas[c].imports[x]
  BY DEF Frame, GoesOn, Ready
<1> QED BY <1>1, <1>2 DEF GoesOn

\* The schemas along a path.
IsWalk(w, c, j, k, path, i) ==
    /\ w \in [1..i -> 1..Len(schemas)] /\ w[1] = c
    /\ \A o \in 1..i - 1 : GoesOn(w[o], InputAt(j, o), k, path[o], o, w[o + 1])

LEMMA WalkReady ==
  ASSUME IInv, TextsSaid, DeclsKept, NEW c, NEW j, Ready(c, j), NEW k, NEW path \in Seq(Name),
         NEW i \in 1..Len(path), NEW w, IsWalk(w, c, j, k, path, i), NEW m \in 1..i
  PROVE /\ Ready(w[m], InputAt(j, m)) /\ w[m] \in 1..Len(schemas)
        /\ m # 1 => /\ w[m] \in 2..Len(schemas) /\ schemas[w[m]].result = "ok"
                    /\ Clean(w[m]) /\ Len(schemas[w[m]].said) = 1
                    /\ \A o \in 1..Len(stack) : stack[o].at # w[m]
<1>0. /\ w \in [1..i -> 1..Len(schemas)] /\ w[1] = c
      /\ \A o \in 1..i - 1 : GoesOn(w[o], InputAt(j, o), k, path[o], o, w[o + 1])
  BY DEF IsWalk
<1>1. CASE m = 1
  BY <1>0, <1>1 DEF InputAt, Ready
<1>2. CASE m # 1
  <2>1. PICK l : l = m - 1
    OBVIOUS
  <2>2. l \in 1..i - 1 /\ l + 1 = m /\ l \in 1..Len(path) /\ l \in 1..i
    BY <1>2, <2>1
  <2>3. GoesOn(w[l], InputAt(j, l), k, path[l], l, w[m])
    BY <1>0, <2>2
  <2>4. PICK a \in 1..Len(schemas), x \in Name : a = w[l] /\ x = path[l]
    BY SMTT(30), <1>0, <2>2
  <2>5. schemas[a].imports[x] # 0 /\ w[m] = schemas[a].imports[x]
    BY <2>3, <2>4 DEF GoesOn
  <2> QED BY <1>2, <2>5, ImportReady DEF InputAt
<1> QED BY <1>1, <1>2

LEMMA LeadsReady ==
  ASSUME IInv, TextsSaid, DeclsKept, NEW c, NEW j, Ready(c, j), NEW k, NEW path \in Seq(Name),
         NEW i \in 1..Len(path), NEW a, Leads(c, j, k, path, i, a)
  PROVE /\ a \in 1..Len(schemas) /\ Ready(a, InputAt(j, i))
        /\ i = 1 => a = c
        /\ i # 1 => /\ a \in 2..Len(schemas) /\ schemas[a].result = "ok"
                    /\ Clean(a) /\ Len(schemas[a].said) = 1
                    /\ \A m \in 1..Len(stack) : stack[m].at # a
<1>1. PICK w \in [1..i -> 1..Len(schemas)] :
        /\ w[1] = c /\ w[i] = a
        /\ \A m \in 1..i - 1 : GoesOn(w[m], InputAt(j, m), k, path[m], m, w[m + 1])
  BY DEF Leads
<1>2. i \in 1..i /\ IsWalk(w, c, j, k, path, i)
  BY <1>1 DEF IsWalk
<1>3. /\ Ready(w[i], InputAt(j, i)) /\ w[i] \in 1..Len(schemas)
      /\ i # 1 => /\ w[i] \in 2..Len(schemas) /\ schemas[w[i]].result = "ok"
                  /\ Clean(w[i]) /\ Len(schemas[w[i]].said) = 1
                  /\ \A o \in 1..Len(stack) : stack[o].at # w[i]
  BY <1>1, <1>2, WalkReady
<1> QED BY <1>1, <1>3

LEMMA LeadsStays ==
  ASSUME IInv, TextsSaid, DeclsKept, Frame, NEW c, NEW j, Ready(c, j), NEW k,
         NEW path \in Seq(Name), NEW i \in 1..Len(path), NEW a, Leads(c, j, k, path, i, a)
  PROVE Leads(c, j, k, path, i, a)' /\ Ready(a, InputAt(j, i))
<1>1. PICK w \in [1..i -> 1..Len(schemas)] :
        /\ w[1] = c /\ w[i] = a
        /\ \A m \in 1..i - 1 : GoesOn(w[m], InputAt(j, m), k, path[m], m, w[m + 1])
  BY DEF Leads
<1>2. \A m \in 1..i : Ready(w[m], InputAt(j, m))
  <2>1. IsWalk(w, c, j, k, path, i)
    BY <1>1 DEF IsWalk
  <2> QED BY <2>1, WalkReady
<1>3. ASSUME NEW m \in 1..i - 1 PROVE GoesOn(w[m], InputAt(j, m), k, path[m], m, w[m + 1])'
  <2>1. m \in 1..i /\ m \in 1..Len(path)
    OBVIOUS
  <2>2. PICK x, l, b, e : x \in Name /\ x = path[m] /\ l = InputAt(j, m) /\ b = w[m] /\ e = w[m + 1]
    BY <2>1
  <2>3. GoesOn(b, l, k, x, m, e) /\ Ready(b, l)
    BY <1>1, <1>2, <2>1, <2>2
  <2>4. GoesOn(b, l, k, x, m, e)'
    BY <2>2, <2>3, GoesOnStays
  <2> QED BY <2>2, <2>4 DEF InputAt
<1>4. w \in [1..i -> 1..Len(schemas')]
  BY DEF Frame, IInv, TypeOK
<1>5. Leads(c, j, k, path, i, a)'
  BY <1>1, <1>3, <1>4 DEF Leads
<1> QED BY <1>1, <1>2, <1>5

LEMMA RefersStays ==
  ASSUME IInv, TextsSaid, DeclsKept, Frame, NEW c, NEW j, Ready(c, j), NEW k,
         NEW path \in Seq(Name), path # <<>>, NEW v, RefersTo(c, j, k, path, v)
  PROVE RefersTo(c, j, k, path, v)'
<1>1. PICK i : i = Len(path)
  OBVIOUS
<1>2. i \in 1..Len(path)
  BY <1>1
<1>3. PICK a \in 1..Len(schemas) :
        Leads(c, j, k, path, i, a) /\ Ends(a, InputAt(j, i), k, path[i], i, v)
  BY <1>1 DEF RefersTo
<1>4. Leads(c, j, k, path, i, a)' /\ Ready(a, InputAt(j, i))
  BY <1>2, <1>3, LeadsStays
<1>5. PICK x, l : x \in Name /\ x = path[i] /\ l = InputAt(j, i)
  BY <1>2
<1>6. Ends(a, l, k, x, i, v) /\ Ready(a, l)
  BY <1>3, <1>4, <1>5
<1>7. Ends(a, l, k, x, i, v)'
  BY <1>6, NamesStay DEF Ends
<1>8. Ends(a, InputAt(j, i), k, path[i], i, v)'
  BY <1>5, <1>7 DEF InputAt
<1>9. a \in 1..Len(schemas')
  BY DEF Frame, IInv, TypeOK
<1> QED BY <1>1, <1>4, <1>8, <1>9 DEF RefersTo

-------------------------------------------------------------------------------
(* Calls, as a set: no two of them work on one schema.                                      *)
LEMMA OngoingFacts ==
  ASSUME IInv, NEW f \in Ongoing
  PROVE /\ f \in CallType /\ f.at \in 1..Len(schemas) /\ LookingAt(f) /\ HasDeclared(f)
        /\ f.prog \in Program /\ Len(f.prog) \in Nat /\ f.n \in Nat \ {0}
        /\ \A g \in Ongoing : g.at = f.at => g = f
<1>1. PICK i \in 1..Len(stack) : f = stack[i]
  BY DEF Ongoing
<1>2. f \in CallType /\ f.at \in 1..Len(schemas)
  BY <1>1, StackFacts
<1>3. LookingAt(f) /\ HasDeclared(f)
  BY <1>1 DEF IInv, Calls
<1>4. f.prog \in Program /\ f.n \in Nat \ {0}
  BY <1>2, CallFields
<1>5. Len(f.prog) \in Nat
  BY <1>4 DEF Program
<1>6. ASSUME NEW g \in Ongoing, g.at = f.at PROVE g = f
  <2>1. PICK j \in 1..Len(stack) : g = stack[j]
    BY DEF Ongoing
  <2>2. i \in Nat /\ j \in Nat /\ stack[i].at \in Nat /\ stack[i].at = stack[j].at
    BY <1>1, <1>2, <1>6, <2>1, TopFacts DEF IInv, TypeOK
  <2>3. (i < j => stack[i].at > stack[j].at) /\ (j < i => stack[j].at > stack[i].at)
    BY DEF IInv, Nested
  <2>4. i = j
    BY <2>2, <2>3
  <2> QED BY <1>1, <2>1, <2>4
<1> QED BY <1>2, <1>3, <1>4, <1>5, <1>6

LEMMA TopOngoing ==
  ASSUME IInv, stack # <<>>
  PROVE /\ Top \in Ongoing
        /\ \A f \in CallType : Becomes(f) =>
             /\ f \in Ongoing'
             /\ \A g \in Ongoing : g = Top \/ (g.at # Top.at /\ g \in Ongoing')
             /\ \A g \in Ongoing' : g = f \/ (g.at # Top.at /\ g \in Ongoing)
<1>1. Top = stack[1] /\ Len(stack) \in Nat \ {0} /\ stack \in Seq(CallType)
  BY TopFacts DEF IInv, TypeOK
<1>2. Top \in Ongoing
  BY <1>1 DEF Ongoing
<1>3. ASSUME NEW f \in CallType, Becomes(f)
      PROVE /\ f \in Ongoing'
            /\ \A g \in Ongoing : g = Top \/ (g.at # Top.at /\ g \in Ongoing')
            /\ \A g \in Ongoing' : g = f \/ (g.at # Top.at /\ g \in Ongoing)
  <2>1. /\ Len(stack') = Len(stack)
        /\ \A j \in 1..Len(stack') : stack'[j] = IF j = 1 THEN f ELSE stack[j]
    BY <1>1, <1>3, Replaced DEF Becomes
  <2>2. f \in Ongoing'
    BY <1>1, <2>1 DEF Ongoing
  <2>3. ASSUME NEW g \in Ongoing, g # Top PROVE g.at # Top.at /\ g \in Ongoing'
    <3>1. PICK i \in 1..Len(stack) : g = stack[i]
      BY DEF Ongoing
    <3>2. i # 1 /\ i \in 1..Len(stack') /\ g = stack'[i]
      BY <1>1, <2>1, <2>3, <3>1
    <3>3. g.at # Top.at
      BY <1>2, <2>3, OngoingFacts
    <3> QED BY <3>2, <3>3 DEF Ongoing
  <2>4. ASSUME NEW g \in Ongoing', g # f PROVE g.at # Top.at /\ g \in Ongoing
    <3>1. PICK i \in 1..Len(stack') : g = stack'[i]
      BY DEF Ongoing
    <3>2. i # 1 /\ i \in 1..Len(stack) /\ g = stack[i]
      BY <1>1, <2>1, <2>4, <3>1
    <3>3. stack[1].at > stack[i].at /\ stack[i].at \in 1..Len(schemas) /\ stack[1].at \in 1..Len(schemas)
      BY <1>1, <3>2, StackFacts DEF IInv, Nested
    <3>4. g.at # Top.at
      BY <1>1, <3>2, <3>3 DEF IInv, TypeOK
    <3> QED BY <3>2, <3>4 DEF Ongoing
  <2> QED BY <2>2, <2>3, <2>4
<1> QED BY <1>2, <1>3

\* The statement that a call works on is among those that its schema said last.
LEMMA WorksOn ==
  ASSUME IInv, TextsSaid, NEW f \in Ongoing
  PROVE LET j == Len(schemas[f.at].said) IN
        /\ j \in 1..Len(schemas[f.at].said) /\ schemas[f.at].said[j] = f.prog
        /\ Said(f.at, j) = {f.prog[n] : n \in 1..Len(f.prog)}
        /\ f.n <= Len(f.prog) => f.prog[f.n] \in Said(f.at, j)
<1> DEFINE said == schemas[f.at].said
<1>1. said \in Seq(Program) /\ said # <<>> /\ f.prog = said[Len(said)]
  BY OngoingFacts, SaidFacts DEF TextsSaid
<1>2. Len(said) \in 1..Len(said)
  BY <1>1
<1>3. Said(f.at, Len(said)) = {f.prog[n] : n \in 1..Len(f.prog)}
  BY <1>1 DEF Said
<1>4. f.n <= Len(f.prog) => f.n \in 1..Len(f.prog)
  BY OngoingFacts
<1> QED BY <1>1, <1>2, <1>3, <1>4

\* How the innermost call advances: within a statement, to the next, or to the next phase.
Moves(f) ==
    /\ f.at = Top.at /\ f.prog = Top.prog /\ Top.errs \subseteq f.errs
    /\ \/ f.phase = Top.phase /\ f.n = Top.n
       \/ /\ f.phase = Top.phase /\ f.n = Top.n + 1 /\ Top.n <= Len(Top.prog)
          /\ f.step = "start"
       \/ /\ Top.n > Len(Top.prog) /\ f.n = 1
          /\ \/ Top.phase = "declare" /\ f.phase = "compile"
             \/ Top.phase = "compile" /\ f.phase = "gather"
GoesTo(f) == f.phase = Top.phase /\ f.n = Top.n + 1 /\ Top.n <= Len(Top.prog)

LEMMA TopMoved ==
  ASSUME IInv, TextsSaid, stack # <<>>, NEW f \in CallType, Becomes(f), Moves(f),
         \A c \in 1..Len(schemas) : schemas'[c].said = schemas[c].said,
         NEW c \in 1..Len(schemas), NEW j \in 1..Len(schemas[c].said)
  PROVE /\ \A s \in DeclaredIn(c, j)' :
             s \in DeclaredIn(c, j) \/ (c = Top.at /\ s = Stmt /\ Top.phase = "declare" /\ GoesTo(f))
        /\ \A s \in CompiledIn(c, j)' :
             s \in CompiledIn(c, j) \/ (c = Top.at /\ s = Stmt /\ Top.phase = "compile" /\ GoesTo(f))
        /\ CompiledIn(c, j) \subseteq CompiledIn(c, j)'
<1>1. /\ Top \in Ongoing /\ f \in Ongoing' /\ f.at = Top.at /\ f.prog = Top.prog
      /\ \A g \in Ongoing : g = Top \/ (g.at # Top.at /\ g \in Ongoing')
      /\ \A g \in Ongoing' : g = f \/ (g.at # Top.at /\ g \in Ongoing)
  BY TopOngoing DEF Moves
<1> DEFINE said == schemas[c].said
<1>2. schemas'[c].said = said
  OBVIOUS
<1>3. CASE c # Top.at
  <2>1. \A g : (g \in Ongoing' /\ g.at = c) <=> (g \in Ongoing /\ g.at = c)
    BY <1>1, <1>3
  <2>2. \A g : g.at = c => \A m : (HasDecl(g, j, m)' <=> HasDecl(g, j, m)) /\ (HasDone(g, j, m)' <=> HasDone(g, j, m))
    BY <1>2 DEF HasDecl, HasDone
  <2>3. DeclaredIn(c, j)' = DeclaredIn(c, j) /\ CompiledIn(c, j)' = CompiledIn(c, j)
    BY <1>2, <2>1, <2>2 DEF DeclaredIn, CompiledIn
  <2> QED BY <2>3
<1>4. CASE c = Top.at
  <2>1. /\ Len(said) \in Nat /\ Top.n \in Nat \ {0} /\ Len(Top.prog) \in Nat
        /\ said[Len(said)] = Top.prog /\ j \in Nat
    BY <1>1, <1>4, WorksOn, SaidFacts, OngoingFacts
  <2>2. ASSUME NEW m \in 1..Len(said[j])
        PROVE /\ (\A g \in Ongoing : g.at = c => HasDecl(g, j, m)) <=> HasDecl(Top, j, m)
              /\ (\A g \in Ongoing : g.at = c => HasDone(g, j, m)) <=> HasDone(Top, j, m)
              /\ (\A g \in Ongoing' : g.at = c => HasDecl(g, j, m)') <=> HasDecl(f, j, m)'
              /\ (\A g \in Ongoing' : g.at = c => HasDone(g, j, m)') <=> HasDone(f, j, m)'
    BY <1>1, <1>4, OngoingFacts
  <2>3. ASSUME NEW m \in 1..Len(said[j]), HasDecl(f, j, m)', ~HasDecl(Top, j, m)
        PROVE said[j][m] = Stmt /\ Top.phase = "declare" /\ GoesTo(f)
    <3>1. ~(j < Len(said)) /\ Top.phase = "declare" /\ ~(m < Top.n)
      BY <1>4, <2>3 DEF HasDecl
    <3>2. j = Len(said) /\ m \in Nat /\ m >= Top.n /\ said[j] = Top.prog /\ m <= Len(Top.prog)
      BY <2>1, <3>1
    <3>3. f.phase # "declare" \/ m < f.n
      BY <1>1, <1>2, <1>4, <2>3, <3>2 DEF HasDecl
    <3>4. GoesTo(f) /\ m = Top.n
      BY <2>1, <3>1, <3>2, <3>3 DEF Moves, GoesTo
    <3> QED BY <3>1, <3>2, <3>4 DEF Stmt
  <2>4. ASSUME NEW m \in 1..Len(said[j]), HasDone(f, j, m)', ~HasDone(Top, j, m)
        PROVE said[j][m] = Stmt /\ Top.phase = "compile" /\ GoesTo(f)
    <3>1. ~(j < Len(said)) /\ Top.phase # "gather" /\ ~(Top.phase = "compile" /\ m < Top.n)
      BY <1>4, <2>4 DEF HasDone
    <3>2. j = Len(said) /\ m \in Nat /\ m >= 1 /\ said[j] = Top.prog /\ m <= Len(Top.prog)
      BY <2>1, <3>1
    <3>3. f.phase = "gather" \/ (f.phase = "compile" /\ m < f.n)
      BY <1>1, <1>2, <1>4, <2>4, <3>2 DEF HasDone
    <3>4. GoesTo(f) /\ m = Top.n /\ Top.phase = "compile"
      BY <2>1, <3>1, <3>2, <3>3 DEF Moves, GoesTo
    <3> QED BY <3>2, <3>4 DEF Stmt
  <2>5. ASSUME NEW m \in 1..Len(said[j]), HasDone(Top, j, m) PROVE HasDone(f, j, m)'
    BY <1>1, <1>2, <1>4, <2>1, <2>5 DEF HasDone, Moves
  <2>6. ASSUME NEW s \in DeclaredIn(c, j)', s \notin DeclaredIn(c, j)
        PROVE s = Stmt /\ Top.phase = "declare" /\ GoesTo(f)
    <3>1. PICK m \in 1..Len(said[j]) : s = said[j][m] /\ \A g \in Ongoing' : g.at = c => HasDecl(g, j, m)'
      BY <1>2, <2>6 DEF DeclaredIn
    <3>2. HasDecl(f, j, m)' /\ ~HasDecl(Top, j, m)
      BY <2>2, <2>6, <3>1 DEF DeclaredIn
    <3> QED BY <2>3, <3>1, <3>2
  <2>7. ASSUME NEW s \in CompiledIn(c, j)', s \notin CompiledIn(c, j)
        PROVE s = Stmt /\ Top.phase = "compile" /\ GoesTo(f)
    <3>1. PICK m \in 1..Len(said[j]) : s = said[j][m] /\ \A g \in Ongoing' : g.at = c => HasDone(g, j, m)'
      BY <1>2, <2>7 DEF CompiledIn
    <3>2. HasDone(f, j, m)' /\ ~HasDone(Top, j, m)
      BY <2>2, <2>7, <3>1 DEF CompiledIn
    <3> QED BY <2>4, <3>1, <3>2
  <2>8. ASSUME NEW s \in CompiledIn(c, j) PROVE s \in CompiledIn(c, j)'
    <3>1. PICK m \in 1..Len(said[j]) : s = said[j][m] /\ \A g \in Ongoing : g.at = c => HasDone(g, j, m)
      BY DEF CompiledIn
    <3>2. \A g \in Ongoing' : g.at = c => HasDone(g, j, m)'
      BY <2>2, <2>5, <3>1
    <3> QED BY <1>2, <3>1, <3>2 DEF CompiledIn
  <2> QED BY <1>4, <2>6, <2>7, <2>8
<1> QED BY <1>3, <1>4

-------------------------------------------------------------------------------
(* Definitions that have been compiled go on meaning what they refer to.                    *)
LEMMA DoneDeclared ==
  ASSUME IInv, NEW c \in 1..Len(schemas), NEW j \in 1..Len(schemas[c].said),
         NEW s \in CompiledIn(c, j)
  PROVE \A i \in 1..j : Said(c, i) \subseteq DeclaredIn(c, i)
<1>1. PICK m \in 1..Len(schemas[c].said[j]) : \A f \in Ongoing : f.at = c => HasDone(f, j, m)
  BY DEF CompiledIn
<1>2. Len(schemas[c].said) \in Nat
  BY SaidFacts
<1>3. ASSUME NEW i \in 1..j, NEW n, NEW f \in Ongoing, f.at = c PROVE HasDecl(f, i, n)
  BY <1>1, <1>2, <1>3 DEF HasDone, HasDecl
<1> QED BY <1>3 DEF Said, DeclaredIn

LEMMA CompiledReady ==
  ASSUME IInv, DeclsKept, NEW c \in 1..Len(schemas), Clean(c),
         NEW j \in 1..Len(schemas[c].said), NEW s \in CompiledIn(c, j)
  PROVE Ready(c, j)
<1>1. \A i \in 1..j : Said(c, i) \subseteq DeclaredIn(c, i)
  BY DoneDeclared
<1> QED BY <1>1, CleanReady

LEMMA TargetStays ==
  ASSUME IInv, TextsSaid, DeclsKept, Frame, NEW c, NEW j, Ready(c, j), NEW s \in Def,
         NEW v \in Target(c, j, s)
  PROVE v \in Target(c, j, s)'
<1>1. s.path \in Seq(Name)
  BY DefFields
<1>2. CASE s.path = <<>>
  BY <1>2 DEF Target
<1>3. CASE s.path # <<>>
  <2>1. PICK k, path : k = s.kind /\ path = s.path
    OBVIOUS
  <2>2. RefersTo(c, j, k, path, v)
    BY <1>3, <2>1 DEF Target
  <2>3. RefersTo(c, j, k, path, v)'
    BY <1>1, <1>3, <2>1, <2>2, RefersStays
  <2>4. RefersTo(c, j, s.kind, s.path, v)'
    BY <2>1, <2>3
  <2> QED BY <1>3, <2>4 DEF Target
<1> QED BY <1>2, <1>3

\* What a statement makes of a kind other than a schema is a cell of that kind.
LEMMA MakesKind ==
  ASSUME IInv, DeclsFit, NEW c \in 1..Len(schemas), NEW s \in Import \cup Def,
         NEW m \in Makes(c, s)
  PROVE /\ m.kind = "schema" => m.value = m.name /\ m.value \in Name
        /\ m.kind # "schema" => m.value \in Cell /\ m.value.kind = m.kind
        /\ m.kind \in Kind /\ m.name \in Name /\ m.public = s.export
<1>0. c \in 1..MaxSchema
  BY ImportAssumption DEF IInv, TypeOK
<1>1. CASE s.op = "def"
  <2>1. m = [kind |-> s.kind, name |-> s.name, public |-> s.export, value |-> OwnCellOf(c, s)]
    BY <1>1 DEF Makes
  <2>2. s.kind \in {"type", "expr"} /\ s.name \in Name
    BY <1>1, StatementFields
  <2>3. OwnCellOf(c, s) \in Cell /\ OwnCellOf(c, s).kind = s.kind
    BY <1>0, <2>2 DEF OwnCellOf, Cell
  <2> QED BY <2>1, <2>2, <2>3 DEF Kind
<1>2. CASE s.op # "def" /\ s.list = "none"
  BY <1>2, StatementFields DEF Makes, Kind
<1>3. CASE s.op # "def" /\ s.list # "none"
  <2>1. PICK i : i = schemas[c].imports[s.from]
    OBVIOUS
  <2>2. i # 0
    BY <1>3, <2>1 DEF Makes
  <2>3. i \in 1..Len(schemas)
    BY <1>3, <2>1, <2>2, StatementFields, SchemaFacts DEF IInv, TypeOK
  <2>4. PICK d \in schemas[i].decls : m = As(s, d)
    BY <1>3, <2>1, <2>2 DEF Makes
  <2>5. d \in Decl
    BY <2>3, SchemaFacts
  <2>6. IF d.kind = "schema" THEN d.value = d.name ELSE d.value \in Cell /\ d.value.kind = d.kind
    BY <2>3, <2>4 DEF DeclsFit
  <2>7. d.kind \in Kind /\ d.name \in Name
    BY <2>5, DeclFields
  <2>8. m.kind = d.kind /\ m.name = d.name /\ m.value = d.value /\ m.public = s.export
    BY <2>4 DEF As
  <2> QED BY <2>6, <2>7, <2>8
<1> QED BY <1>1, <1>2, <1>3

LEMMA EndKind ==
  ASSUME IInv, DeclsFit, NEW a \in 1..Len(schemas), NEW l, l \in 1..Len(schemas[a].said),
         NEW k \in {"type", "expr"}, NEW x, NEW m, NEW v, Ends(a, l, k, x, m, v)
  PROVE v \in Cell \cup Lit /\ (v \in Cell => v.kind = k)
<1>1. CASE Shows(a, l, k, x, m, v)
  <2>1. PICK i, s, d : /\ i \in 1..l /\ s \in Said(a, i) /\ d \in Makes(a, s)
                       /\ d.kind = k /\ d.value = v
    BY <1>1 DEF Shows
  <2>2. i \in 1..Len(schemas[a].said)
    BY <2>1, SaidFacts
  <2>3. s \in Import \cup Def
    BY <2>1, <2>2, SaidFacts
  <2> QED BY <2>1, <2>3, MakesKind
<1>2. CASE v \in Builtin
  <2>1. v \in Lit /\ Lit \cap Cell = {}
    BY <1>2, ImportAssumption
  <2> QED BY <2>1
<1> QED BY <1>1, <1>2 DEF Ends

LEMMA RefersKind ==
  ASSUME IInv, TextsSaid, DeclsKept, DeclsFit, NEW c, NEW j, Ready(c, j),
         NEW k \in {"type", "expr"}, NEW path \in Seq(Name), path # <<>>, NEW v,
         RefersTo(c, j, k, path, v)
  PROVE v \in Cell \cup Lit /\ (v \in Cell => v.kind = k)
<1>1. PICK i : i = Len(path)
  OBVIOUS
<1>2. i \in 1..Len(path)
  BY <1>1
<1>3. PICK a \in 1..Len(schemas) :
        Leads(c, j, k, path, i, a) /\ Ends(a, InputAt(j, i), k, path[i], i, v)
  BY <1>1 DEF RefersTo
<1>4. Ready(a, InputAt(j, i))
  BY <1>2, <1>3, LeadsReady
<1> QED BY <1>3, <1>4, EndKind DEF Ready

LEMMA TargetKind ==
  ASSUME IInv, TextsSaid, DeclsKept, DeclsFit, NEW c, NEW j, Ready(c, j), NEW s \in Def,
         NEW v \in Target(c, j, s)
  PROVE v \in Cell => v.kind = s.kind
<1>1. s.path \in Seq(Name) /\ s.kind \in {"type", "expr"} /\ s.lit \in Lit
  BY DefFields
<1>2. CASE s.path = <<>>
  BY <1>1, <1>2, ImportAssumption DEF Target
<1>3. CASE s.path # <<>>
  BY <1>1, <1>3, RefersKind DEF Target
<1> QED BY <1>2, <1>3

\* What is solved stays so, if a step keeps the equations.
NewlySolved(c, j, s) == \E v \in Target(c, j, s) : SolvedBy(c, s, v)
LEMMA SolvedStays ==
  ASSUME IInv, TextsSaid, DeclsKept, DeclsFit, Solved, Frame,
         \A c \in 1..Len(schemas) : Clean(c)' => Clean(c),
         \A c \in 1..Len(schemas) : \A s \in Def : \A v \in Cell \cup Lit :
            (v \in Cell => v.kind = s.kind) /\ SolvedBy(c, s, v) => SolvedBy(c, s, v)',
         \A c \in 1..Len(schemas') : Clean(c)' =>
           \A j \in 1..Len(schemas'[c].said) : \A s \in CompiledIn(c, j)' : s.op = "def" =>
             \/ c \in 1..Len(schemas) /\ j \in 1..Len(schemas[c].said) /\ s \in CompiledIn(c, j)
             \/ NewlySolved(c, j, s)'
  PROVE Solved'
<1>1. ASSUME NEW c \in 1..Len(schemas'), Clean(c)', NEW j \in 1..Len(schemas'[c].said),
             NEW s \in CompiledIn(c, j)', s.op = "def",
             c \in 1..Len(schemas), j \in 1..Len(schemas[c].said), s \in CompiledIn(c, j)
      PROVE NewlySolved(c, j, s)'
  <2>1. Clean(c)
    BY <1>1
  <2>2. s \in Def
    BY <1>1, SaidFacts, StatementFields
  <2>3. Ready(c, j)
    BY <1>1, <2>1, CompiledReady
  <2>4. PICK v \in Target(c, j, s) : SolvedBy(c, s, v)
    BY <1>1, <2>1 DEF Solved
  <2>5. v \in Cell \cup Lit
    BY DEF Target
  <2>6. v \in Cell => v.kind = s.kind
    BY <2>2, <2>3, TargetKind
  <2>7. SolvedBy(c, s, v)'
    BY <1>1, <2>2, <2>4, <2>5, <2>6
  <2>8. v \in Target(c, j, s)'
    BY <2>2, <2>3, TargetStays
  <2> QED BY <2>7, <2>8 DEF NewlySolved
<1>2. ASSUME NEW c \in 1..Len(schemas'), Clean(c)', NEW j \in 1..Len(schemas'[c].said),
             NEW s \in CompiledIn(c, j)', s.op = "def"
      PROVE NewlySolved(c, j, s)'
  BY <1>1, <1>2
<1> QED BY <1>2 DEF Solved, NewlySolved

LEMMA NoErrorsClean ==
  ASSUME IInv, ~Errors, NEW c \in 1..Len(schemas)
  PROVE Clean(c)
<1>1. \A f \in Ongoing : f.errs = {}
  BY DEF Errors, Ongoing
<1> QED BY <1>1 DEF Errors, Clean

LEMMA TargetsStay ==
  ASSUME IInv, TextsSaid, DeclsKept, Frame, ~Errors,
         \A c \in 1..Len(schemas) : \A j \in 1..Len(schemas[c].said) :
            CompiledIn(c, j) \subseteq CompiledIn(c, j)'
  PROVE Targets \subseteq Targets'
<1>1. ASSUME NEW e \in Targets PROVE e \in Targets'
  <2>1. PICK c, j, s :
          /\ c \in 1..Len(schemas) /\ j \in 1..Len(schemas[c].said) /\ s \in CompiledIn(c, j)
          /\ s.op = "def" /\ e[1] = OwnCellOf(c, s) /\ e[2] \in Target(c, j, s)
    BY DEF Targets
  <2>2. s \in Def
    BY <2>1, SaidFacts, StatementFields
  <2>3. Ready(c, j)
    BY <2>1, NoErrorsClean, CompiledReady
  <2>4. PICK v : v = e[2]
    OBVIOUS
  <2>5. v \in Target(c, j, s)'
    BY <2>1, <2>2, <2>3, <2>4, TargetStays
  <2>6. c \in 1..Len(schemas') /\ j \in 1..Len(schemas'[c].said) /\ s \in CompiledIn(c, j)'
    BY <2>1, SaidStays
  <2>7. e[2] \in Target(c, j, s)'
    BY <2>4, <2>5
  <2> QED BY <2>1, <2>6, <2>7 DEF Targets, OwnCellOf
<1> QED BY <1>1

LEMMA MeaningStays ==
  ASSUME IInv, TextsSaid, DeclsKept, DeclsFit, Solved, Grounded, Frame, val' = val,
         \A c \in 1..Len(schemas) : Clean(c)' => Clean(c),
         \A c \in 1..Len(schemas) : \A j \in 1..Len(schemas[c].said) :
            CompiledIn(c, j) \subseteq CompiledIn(c, j)',
         \A c \in 1..Len(schemas') : Clean(c)' =>
           \A j \in 1..Len(schemas'[c].said) : \A s \in CompiledIn(c, j)' : s.op = "def" =>
             c \in 1..Len(schemas) /\ j \in 1..Len(schemas[c].said) /\ s \in CompiledIn(c, j)
  PROVE Solved' /\ Grounded'
<1>1. ASSUME NEW c, NEW s, NEW v, SolvedBy(c, s, v) PROVE SolvedBy(c, s, v)'
  BY <1>1 DEF SolvedBy, OwnCellOf, Meaning, Frame
<1>2. Solved'
  BY <1>1, SolvedStays
<1>3. ASSUME ~Errors', NEW t \in Cell PROVE val'[t] \in Reached(Targets, t)'
  <2>1. ~Errors
    BY <1>3 DEF Frame
  <2>2. PICK E, F : E = Targets /\ F = Targets'
    OBVIOUS
  <2>3. E \subseteq F
    BY <2>1, <2>2, TargetsStay
  <2>4. val[t] \in Reached(E, t)
    BY <2>1, <2>2 DEF Grounded
  <2>5. val[t] \in Reached(F, t)
    BY <2>3, <2>4, ReachedMore
  <2> QED BY <2>2, <2>5 DEF Reached
<1>4. Grounded'
  BY <1>3 DEF Grounded
<1> QED BY <1>2, <1>4

-------------------------------------------------------------------------------
(* What a call has collected and come across stays as it is, whatever other calls do.       *)
LEMMA CollectsStays ==
  ASSUME IInv, Frame, NEW g \in Ongoing, g.phase = "declare", g.step # "start", Collects(g)
  PROVE Collects(g)'
<1>1. g \in CallType /\ g.at \in 1..Len(schemas) /\ LookingAt(g) /\ HasDeclared(g)
      /\ g.prog \in Program /\ g.n \in Nat \ {0} /\ g.step \in {"start", "items", "add"}
  BY OngoingFacts, CallFields
<1>2. g.n <= Len(g.prog)
  BY <1>1 DEF LookingAt, HasDeclared
<1>3. PICK s \in Import \cup Def : s = g.prog[g.n]
  BY <1>1, <1>2 DEF Program
<1>4. PICK c \in 1..Len(schemas) : c = g.at
  BY <1>1
<1>5. Makes(c, s) \subseteq Makes(c, s)' /\ schemas[c].decls \subseteq schemas'[c].decls
  BY MakesGrow DEF Frame
<1>6. \A e \in g.got : As(s, e) \in Makes(c, s)'
  BY <1>3, <1>4, <1>5 DEF Collects
<1>7. ASSUME g.step = "add"
      PROVE /\ Imported(c, s)'
            /\ \A m \in Makes(c, s)' :
                 (\E d \in schemas'[c].decls : Bare(d) = m) \/ \E e \in g.got : As(s, e) = m
  <2>1. Imported(c, s)
    BY <1>3, <1>4, <1>7 DEF Collects
  <2>2. Makes(c, s)' = Makes(c, s) /\ Imported(c, s)'
    BY SMTT(30), <2>1, MakesStays
  <2> QED BY <1>3, <1>4, <1>5, <1>7, <2>2 DEF Collects
<1>8. ASSUME g.step = "items" PROVE Source(g)' = Source(g)
  <2>1. s.op = "import" /\ schemas[c].imports[s.from] # 0 /\ s.from \in Name
    BY <1>1, <1>3, <1>4, <1>8, StatementFields DEF LookingAt
  <2>2. PICK b : b = schemas[c].imports[s.from]
    OBVIOUS
  <2>3. b \in 1..Len(schemas) /\ \A i \in 1..Len(stack) : stack[i].at # b
    <3>1. b \in Nat
      BY <2>1, <2>2, SchemaFacts DEF IInv, TypeOK
    <3> QED BY <2>1, <2>2, <3>1, ImportFacts
  <2>4. schemas'[c].imports[s.from] = b /\ schemas'[b].decls = schemas[b].decls
    BY <2>1, <2>2, <2>3 DEF Frame
  <2> QED BY <1>3, <1>4, <2>2, <2>4 DEF Source
<1>9. Collects(g)'
  BY <1>3, <1>4, <1>6, <1>7, <1>8 DEF Collects
<1> QED BY <1>9

LEMMA LooksForItemStays ==
  ASSUME IInv, Frame, NEW g \in Ongoing, g.phase = "declare", g.look.st # "idle", LooksForItem(g)
  PROVE LooksForItem(g)'
<1>1. g \in CallType /\ g.at \in 1..Len(schemas) /\ LookingAt(g) /\ HasDeclared(g)
      /\ g.prog \in Program /\ g.n \in Nat \ {0}
  BY OngoingFacts, CallFields
<1>2. g.step = "items" /\ g.n <= Len(g.prog)
  BY <1>1 DEF LookingAt
<1>3. PICK s \in Import \cup Def : s = g.prog[g.n]
  BY <1>1, <1>2 DEF Program
<1>4. PICK c \in 1..Len(schemas) : c = g.at
  BY <1>1
<1>5. s.op = "import" /\ schemas[c].imports[s.from] # 0 /\ s.from \in Name
  BY <1>1, <1>2, <1>3, <1>4, StatementFields DEF LookingAt
<1>6. PICK b : b = schemas[c].imports[s.from]
  OBVIOUS
<1>7. b \in 1..Len(schemas) /\ \A i \in 1..Len(stack) : stack[i].at # b
  <2>1. b \in Nat
    BY <1>5, <1>6, SchemaFacts DEF IInv, TypeOK
  <2> QED BY <1>5, <1>6, <2>1, ImportFacts
<1>8. schemas'[c].imports[s.from] = b /\ schemas'[b].decls = schemas[b].decls
  BY <1>5, <1>6, <1>7 DEF Frame
<1>9. Source(g)' = Source(g)
  BY <1>3, <1>4, <1>6, <1>8 DEF Source
<1> QED BY <1>3, <1>4, <1>6, <1>8, <1>9 DEF LooksForItem

LEMMA PastDeclare ==
  ASSUME IInv, TextsSaid, DeclsKept, NEW g \in Ongoing, g.phase # "declare"
  PROVE /\ \A i : Said(g.at, i) = DeclaredIn(g.at, i)
        /\ Clean(g.at) => Ready(g.at, Len(schemas[g.at].said))
<1>1. g.at \in 1..Len(schemas) /\ \A f \in Ongoing : f.at = g.at => f = g
  BY OngoingFacts
<1>2. \A f \in Ongoing : f.at = g.at => \A i, n : HasDecl(f, i, n)
  BY <1>1 DEF HasDecl
<1>3. \A i : Said(g.at, i) = DeclaredIn(g.at, i)
  BY <1>2 DEF Said, DeclaredIn
<1>4. Len(schemas[g.at].said) \in 1..Len(schemas[g.at].said)
  BY WorksOn
<1> QED BY <1>1, <1>3, <1>4, CleanReady

LEMMA LooksForPathStays ==
  ASSUME IInv, TextsSaid, DeclsKept, Frame, NEW g \in Ongoing, g.phase = "compile",
         Clean(g.at)' => Clean(g.at), schemas'[g.at].said = schemas[g.at].said, LooksForPath(g)
  PROVE LooksForPath(g)'
<1>1. PICK c, j, s : c = g.at /\ j = Len(schemas[c].said) /\ s = g.prog[g.n]
  OBVIOUS
<1>2. Clean(c)' => Clean(c) /\ Ready(c, j)
  BY <1>1, PastDeclare
<1>3. g \in CallType /\ LookingAt(g) /\ g.prog \in Program /\ g.n \in Nat \ {0} /\ g.look \in LookType
  BY OngoingFacts, CallFields
<1>4. ASSUME g.look.st = "going", Clean(c)'
      PROVE Leads(c, j, s.kind, s.path, g.look.i, g.look.at)'
  <2>1. PICK k, path, i, a : k = s.kind /\ path = s.path /\ i = g.look.i /\ a = g.look.at
    OBVIOUS
  <2>2. path = g.look.path /\ i \in 1..Len(path) /\ Leads(c, j, k, path, i, a)
    BY <1>1, <1>2, <1>3, <1>4, <2>1 DEF LooksForPath, LookingAt
  <2>3. path \in Seq(Name)
    BY <1>3, <1>4, <2>2 DEF LookType, Idle, NoSuchEntry
  <2>4. Leads(c, j, k, path, i, a)'
    BY <1>2, <1>4, <2>2, <2>3, LeadsStays
  <2> QED BY <2>1, <2>4
<1>5. ASSUME g.look.st = "found", Clean(c)'
      PROVE RefersTo(c, j, s.kind, s.path, g.look.value)'
  <2>1. PICK k, path, v : k = s.kind /\ path = s.path /\ v = g.look.value
    OBVIOUS
  <2>2. path # <<>> /\ s.op = "def" /\ RefersTo(c, j, k, path, v) /\ g.n <= Len(g.prog)
    BY <1>1, <1>2, <1>5, <2>1 DEF LooksForPath
  <2>3. path \in Seq(Name)
    BY <1>1, <1>3, <2>1, <2>2, StatementFields DEF Program
  <2>4. RefersTo(c, j, k, path, v)'
    BY <1>2, <1>5, <2>2, <2>3, RefersStays
  <2> QED BY <2>1, <2>4
<1>6. j = Len(schemas'[c].said)
  BY <1>1
<1> QED BY <1>1, <1>4, <1>5, <1>6 DEF LooksForPath

-------------------------------------------------------------------------------
(* A step of the innermost call that changes no schema.                                     *)
LEMMA CleanStays ==
  ASSUME IInv, stack # <<>>, NEW f \in CallType, Becomes(f), Moves(f), UNCHANGED schemas
  PROVE (\A c : Clean(c)' => Clean(c)) /\ (Errors => Errors')
<1>1. /\ Top \in Ongoing /\ f \in Ongoing' /\ f.at = Top.at /\ Top.errs \subseteq f.errs
      /\ \A g \in Ongoing : g = Top \/ g \in Ongoing'
  BY TopOngoing DEF Moves
<1>2. ASSUME NEW c, Clean(c)' PROVE Clean(c)
  BY <1>1, <1>2 DEF Clean
<1>3. ASSUME Errors PROVE Errors'
  <2>1. CASE \E c \in 1..Len(schemas) : schemas[c].result = "bad"
    BY <2>1 DEF Errors
  <2>2. CASE \E g \in Ongoing : g.errs # {}
    <3>1. \E g \in Ongoing' : g.errs # {}
      BY <1>1, <2>2
    <3> QED BY <3>1 DEF Errors, Ongoing
  <2> QED BY <1>3, <2>1, <2>2 DEF Errors, Ongoing
<1> QED BY <1>2, <1>3

LEMMA QuietFrame ==
  ASSUME IInv, UNCHANGED schemas, \A f \in File : HasText(f) => text'[f] = text[f],
         Errors => Errors'
  PROVE Frame
<1>1. Len(schemas) \in Nat
  BY DEF IInv, TypeOK
<1>2. \A c \in 1..Len(schemas) : Len(schemas[c].said) \in Nat
  BY SaidFacts
<1> QED BY <1>1, <1>2 DEF Frame

\* What a call that becomes the innermost one has collected and come across.
Fits(f) ==
    /\ f.phase = "declare" =>
         /\ IF f.step = "start" THEN f.item = 1 /\ f.k = 1 /\ f.got = {} ELSE Collects(f)
         /\ f.look.st # "idle" => LooksForItem(f)
         /\ Alone(f)
    /\ f.phase = "compile" => LooksForPath(f)

LEMMA AloneStays ==
  ASSUME NEW g, Alone(g), Clean(g.at)' => Clean(g.at), schemas'[g.at].said = schemas[g.at].said,
         Clean(g.at)' => \A j \in 1..Len(schemas[g.at].said) :
                           \A t \in DeclaredIn(g.at, j)' : t \in DeclaredIn(g.at, j)
  PROVE Alone(g)'
  BY DEF Alone, Twin

LEMMA AloneSame ==
  ASSUME NEW g, NEW f, Alone(g), f.at = g.at, f.prog = g.prog, f.n = g.n, f.got = g.got,
         f.step = g.step
  PROVE Alone(f)
  BY DEF Alone

LEMMA FitsStays ==
  ASSUME IInv, TextsSaid, DeclsKept, Frame, NEW g \in Ongoing, Fits(g),
         Clean(g.at)' => Clean(g.at), schemas'[g.at].said = schemas[g.at].said,
         Clean(g.at)' => \A j \in 1..Len(schemas[g.at].said) :
                           \A t \in DeclaredIn(g.at, j)' : t \in DeclaredIn(g.at, j)
  PROVE Fits(g)'
<1>1. CASE g.phase = "declare"
  BY <1>1, CollectsStays, LooksForItemStays, AloneStays DEF Fits
<1>2. CASE g.phase = "compile"
  BY <1>2, LooksForPathStays DEF Fits
<1>3. CASE g.phase = "gather"
  BY <1>3 DEF Fits
<1> QED BY <1>1, <1>2, <1>3, OngoingFacts, CallFields

LEMMA AllFit ==
  (Collected /\ Looks) <=> \A g \in Ongoing : Fits(g)
  BY DEF Collected, Looks, Fits

LEMMA AllFitNext ==
  (\A g \in Ongoing' : Fits(g)') => Collected' /\ Looks'
  BY DEF Collected, Looks, Fits

LEMMA SamePaths ==
  ASSUME UNCHANGED schemas, NEW c, NEW j, NEW k, NEW path
  PROVE /\ \A i, a : Leads(c, j, k, path, i, a)' <=> Leads(c, j, k, path, i, a)
        /\ \A v : RefersTo(c, j, k, path, v)' <=> RefersTo(c, j, k, path, v)
<1>1. \A b, i : Said(b, i)' = Said(b, i)
  BY DEF Said
<1>2. \A b, s : Makes(b, s)' = Makes(b, s)
  BY DEF Makes, OwnCellOf
<1>3. \A b, l, o, x : Lacks(b, l, o, x)' <=> Lacks(b, l, o, x)
  BY <1>1, <1>2 DEF Lacks
<1>4. \A b, l, o, x, m, v : Shows(b, l, o, x, m, v)' <=> Shows(b, l, o, x, m, v)
  BY <1>1, <1>2 DEF Shows, Open
<1>5. \A b, l, o, x, m, e : GoesOn(b, l, o, x, m, e)' <=> GoesOn(b, l, o, x, m, e)
  BY <1>3, <1>4 DEF GoesOn
<1>6. \A i, a : Leads(c, j, k, path, i, a)' <=> Leads(c, j, k, path, i, a)
  BY <1>5 DEF Leads, InputAt
<1>7. \A a, l, x, m, v : Ends(a, l, k, x, m, v)' <=> Ends(a, l, k, x, m, v)
  BY <1>3, <1>4 DEF Ends
<1>8. \A v : RefersTo(c, j, k, path, v)' <=> RefersTo(c, j, k, path, v)
  BY <1>6, <1>7 DEF RefersTo, InputAt
<1> QED BY <1>6, <1>8

\* Everything but what cells mean.
Parts == TextsSaid /\ DeclsFit /\ DeclsMade /\ DeclsKept /\ DeclsOnce /\ Collected /\ Looks

\* The statement that a call has declared is one of its input.
LEMMA TopDeclared ==
  ASSUME IInv, TextsSaid, stack # <<>>, NEW f \in CallType, Becomes(f), Moves(f),
         \A c \in 1..Len(schemas) : schemas'[c].said = schemas[c].said,
         NEW c \in 1..Len(schemas), NEW j \in 1..Len(schemas[c].said), NEW s \in DeclaredIn(c, j)'
  PROVE \/ s \in DeclaredIn(c, j)
        \/ /\ c = Top.at /\ s = Stmt /\ Top.phase = "declare" /\ GoesTo(f)
           /\ j = Len(schemas[c].said)
<1>1. CASE j = Len(schemas[c].said)
  BY <1>1, TopMoved
<1>2. CASE j # Len(schemas[c].said)
  <2>1. j < Len(schemas[c].said)
    BY <1>2, SaidFacts
  <2>2. \A g \in Ongoing : g.at = c => \A m : HasDecl(g, j, m)
    BY <2>1 DEF HasDecl
  <2>3. \E n \in 1..Len(schemas'[c].said[j]) : s = schemas'[c].said[j][n]
    BY DEF DeclaredIn
  <2>4. schemas'[c].said = schemas[c].said
    OBVIOUS
  <2> QED BY <2>2, <2>3, <2>4 DEF DeclaredIn
<1> QED BY <1>1, <1>2

\* The innermost call has added what its statement declares.
HasAdded == Keeps(Top.at, Stmt) /\ Top.step = "add" /\ Top.got = {}

LEMMA TopStep ==
  ASSUME IInv, Parts, stack # <<>>, NEW f \in CallType, Becomes(f), Moves(f), UNCHANGED schemas,
         \A g \in File : HasText(g) => text'[g] = text[g],
         Top.phase = "declare" /\ GoesTo(f) /\ f.errs = {} => HasAdded,
         Fits(f)
  PROVE Parts' /\ Frame
<1>1. (\A c : Clean(c)' => Clean(c)) /\ (Errors => Errors')
  BY CleanStays
<1>2. Frame
  BY <1>1, QuietFrame
<1>3. /\ Top \in Ongoing /\ f \in Ongoing' /\ f.at = Top.at /\ f.prog = Top.prog
      /\ \A g \in Ongoing : g = Top \/ (g.at # Top.at /\ g \in Ongoing')
      /\ \A g \in Ongoing' : g = f \/ (g.at # Top.at /\ g \in Ongoing)
  BY TopOngoing DEF Moves
<1>4. TextsSaid'
  <2>1. ASSUME NEW c \in 2..Len(schemas)
        PROVE /\ text'[schemas[c].file] \notin {Missing, Broken, Unread}
              /\ schemas[c].said = <<text'[schemas[c].file]>>
    <3>1. c \in 1..Len(schemas)
      BY DEF IInv, TypeOK
    <3>2. schemas[c].file \in File
      BY <3>1, SchemaFacts
    <3> QED BY <3>2 DEF Parts, TextsSaid, HasText
  <2>2. ASSUME NEW g \in Ongoing'
        PROVE LET said == schemas[g.at].said IN
              said # <<>> /\ g.prog = said[Len(said)] /\ schemas[g.at].result # "ok"
    BY <1>3 DEF Parts, TextsSaid
  <2> QED BY <2>1, <2>2 DEF Parts, TextsSaid
<1>5. DeclsFit'
  BY DEF Parts, DeclsFit
<1>6. DeclsMade'
  <2>1. ASSUME NEW c \in 1..Len(schemas), NEW d \in schemas[c].decls
        PROVE \E j \in 1..Len(schemas[c].said) : \E s \in Said(c, j)' : Bare(d) \in Makes(c, s)'
    <3>1. PICK j \in 1..Len(schemas[c].said) : \E s \in Said(c, j) : Bare(d) \in Makes(c, s)
      BY DEF Parts, DeclsMade
    <3>2. PICK s \in Said(c, j) : Bare(d) \in Makes(c, s)
      BY <3>1
    <3>3. s \in Import \cup Def
      BY SaidFacts
    <3>4. s \in Said(c, j)' /\ Bare(d) \in Makes(c, s)'
      BY <1>2, <3>2, <3>3, SaidStays, MakesGrow
    <3> QED BY <3>4
  <2> QED BY <2>1 DEF DeclsMade
<1>7. DeclsKept'
  <2>1. ASSUME NEW c \in 1..Len(schemas), Clean(c)', NEW j \in 1..Len(schemas[c].said),
               NEW s \in DeclaredIn(c, j)'
        PROVE Keeps(c, s)'
    <3>1. Clean(c)
      BY <1>1, <2>1
    <3>2. Keeps(c, s)
      <4>1. CASE s \in DeclaredIn(c, j)
        BY <3>1, <4>1 DEF Parts, DeclsKept
      <4>2. CASE c = Top.at /\ s = Stmt /\ Top.phase = "declare" /\ GoesTo(f)
        <5>1. f.errs = {}
          BY <1>3, <2>1, <4>2 DEF Clean
        <5> QED BY <4>2, <5>1 DEF HasAdded
      <4> QED BY <4>1, <4>2, TopMoved DEF Parts
    <3> QED BY <3>2 DEF Keeps, Imported, Makes, OwnCellOf
  <2> QED BY <2>1 DEF DeclsKept
<1>8. Collected' /\ Looks'
  <2>1. ASSUME NEW g \in Ongoing' PROVE Fits(g)'
    <3>1. CASE g = f
      <4>1. Fits(f)'
        <5>1. ASSUME f.phase = "declare" PROVE
                /\ IF f.step = "start" THEN f.item = 1 /\ f.k = 1 /\ f.got = {} ELSE Collects(f)'
                /\ f.look.st # "idle" => LooksForItem(f)'
                /\ Alone(f)'
          <6>1. PICK t : t = f.prog[f.n]
            OBVIOUS
          <6>2. Makes(f.at, t)' = Makes(f.at, t) /\ Imported(f.at, t)' = Imported(f.at, t)
            BY DEF Makes, OwnCellOf, Imported
          <6>3. Source(f)' = Source(f)
            BY DEF Source
          <6>4. Collects(f) => Collects(f)'
            BY <6>1, <6>2, <6>3 DEF Collects
          <6>5. LooksForItem(f) => LooksForItem(f)'
            BY <6>3 DEF LooksForItem
          <6>6. Alone(f)'
            <7>1. CASE GoesTo(f)
              <8>1. Top.n \in Nat
                BY TopFacts, CallFields
              <8>2. f.step = "start"
                BY <7>1, <8>1 DEF Moves, GoesTo
              <8> QED BY <8>2 DEF Alone
            <7>2. CASE ~GoesTo(f)
              <8>1. f.at \in 1..Len(schemas)
                BY <1>3, OngoingFacts
              <8>2. \A j \in 1..Len(schemas[f.at].said) :
                      \A u \in DeclaredIn(f.at, j)' : u \in DeclaredIn(f.at, j)
                BY <7>2, <8>1, TopDeclared DEF Parts
              <8>3. Alone(f)
                BY <5>1 DEF Fits
              <8> QED BY <1>1, <8>2, <8>3, AloneStays
            <7> QED BY <7>1, <7>2
          <6> QED BY <5>1, <6>4, <6>5, <6>6 DEF Fits
        <5>2. ASSUME f.phase = "compile" PROVE LooksForPath(f)'
          <6>1. PICK c, j, k, path, i, a, v :
                  /\ c = f.at /\ j = Len(schemas[c].said) /\ k = f.prog[f.n].kind
                  /\ path = f.prog[f.n].path /\ i = f.look.i /\ a = f.look.at /\ v = f.look.value
            OBVIOUS
          <6>2. Leads(c, j, k, path, i, a) => Leads(c, j, k, path, i, a)'
            BY SamePaths
          <6>3. RefersTo(c, j, k, path, v) => RefersTo(c, j, k, path, v)'
            BY SamePaths
          <6>4. Clean(c)' => Clean(c)
            BY <1>1
          <6>5. LooksForPath(f)
            BY <5>2 DEF Fits
          <6> QED BY <6>1, <6>2, <6>3, <6>4, <6>5 DEF LooksForPath
        <5> QED BY <5>1, <5>2 DEF Fits
      <4> QED BY <3>1, <4>1 DEF Fits
    <3>2. CASE g # f
      <4>1. g \in Ongoing /\ Fits(g)
        BY <1>3, <3>2, AllFit DEF Parts
      <4>2. g.at \in 1..Len(schemas) /\ g.at # Top.at
        BY <1>3, <3>2, <4>1, OngoingFacts
      <4>3. \A j \in 1..Len(schemas[g.at].said) :
              \A u \in DeclaredIn(g.at, j)' : u \in DeclaredIn(g.at, j)
        BY <4>2, TopDeclared DEF Parts
      <4> QED BY <1>1, <1>2, <4>1, <4>3, FitsStays DEF Parts
    <3> QED BY <3>1, <3>2
  <2> QED BY <2>1, AllFitNext
<1>9. DeclsOnce'
  <2>1. ASSUME NEW c \in 1..Len(schemas), Clean(c)',
               NEW i \in 1..Len(schemas[c].said), NEW j \in 1..Len(schemas[c].said),
               NEW s \in DeclaredIn(c, i)', NEW t \in DeclaredIn(c, j)', Twin(s, t)
        PROVE i = j /\ s = t
    <3>1. Clean(c) /\ (c = Top.at => f.errs = {})
      BY <1>1, <1>3, <2>1 DEF Clean
    <3>2. \/ s \in DeclaredIn(c, i)
          \/ /\ c = Top.at /\ s = Stmt /\ Top.phase = "declare" /\ GoesTo(f)
             /\ i = Len(schemas[c].said)
      BY TopDeclared DEF Parts
    <3>3. \/ t \in DeclaredIn(c, j)
          \/ /\ c = Top.at /\ t = Stmt /\ Top.phase = "declare" /\ GoesTo(f)
             /\ j = Len(schemas[c].said)
      BY TopDeclared DEF Parts
    <3>4. ASSUME c = Top.at, Top.phase = "declare", GoesTo(f), Stmt.op = "def"
          PROVE \A l \in 1..Len(schemas[c].said) : \A u \in DeclaredIn(c, l) : ~Twin(u, Stmt)
      <4>1. Top.step = "add" /\ Top.got = {}
        BY <3>1, <3>4 DEF HasAdded
      <4>2. Alone(Top)
        BY <1>3, <3>4, AllFit DEF Parts, Fits
      <4> QED BY <3>1, <3>4, <4>1, <4>2 DEF Alone, Stmt
    <3>5. Twin(t, s) /\ s.op = "def" /\ t.op = "def"
      BY <2>1 DEF Twin
    <3>6. CASE s \in DeclaredIn(c, i) /\ t \in DeclaredIn(c, j)
      BY <2>1, <3>1, <3>6 DEF Parts, DeclsOnce
    <3> QED BY <2>1, <3>2, <3>3, <3>4, <3>5, <3>6
  <2>2. \A s, t : Twin(s, t)' <=> Twin(s, t)
    BY DEF Twin
  <2> QED BY <2>1, <2>2 DEF DeclsOnce
<1> QED BY <1>2, <1>4, <1>5, <1>6, <1>7, <1>8, <1>9 DEF Parts


LEMMA QuietStepMeans ==
  ASSUME IInv, MInv, stack # <<>>, NEW f \in CallType, Becomes(f), Moves(f),
         UNCHANGED <<schemas, val>>,
         \A g \in File : HasText(g) => text'[g] = text[g],
         Top.phase = "declare" /\ GoesTo(f) /\ f.errs = {} => HasAdded,
         Top.phase = "compile" /\ GoesTo(f) /\ f.errs = {} => Stmt.op # "def",
         Fits(f)
  PROVE MInv'
<1>1. Parts /\ Solved /\ Grounded
  BY DEF MInv, Parts
<1>2. Parts' /\ Frame
  BY <1>1, TopStep
<1>3. \A c : Clean(c)' => Clean(c)
  BY CleanStays
<1>4. \A c \in 1..Len(schemas) : schemas'[c].said = schemas[c].said
  OBVIOUS
<1>5. f \in Ongoing' /\ f.at = Top.at
  BY TopOngoing DEF Moves
<1>6. ASSUME NEW c \in 1..Len(schemas), Clean(c)', NEW j \in 1..Len(schemas[c].said),
             NEW s \in CompiledIn(c, j)', s.op = "def"
      PROVE s \in CompiledIn(c, j)
  <2>1. s \in CompiledIn(c, j) \/ (c = Top.at /\ s = Stmt /\ Top.phase = "compile" /\ GoesTo(f))
    BY <1>1, <1>4, TopMoved DEF Parts
  <2>2. c = f.at => f.errs = {}
    BY <1>5, <1>6 DEF Clean
  <2> QED BY <1>5, <1>6, <2>1, <2>2
<1>7. \A c \in 1..Len(schemas) : \A j \in 1..Len(schemas[c].said) :
        CompiledIn(c, j) \subseteq CompiledIn(c, j)'
  BY <1>1, <1>4, TopMoved DEF Parts
<1>8. Solved' /\ Grounded'
  BY <1>1, <1>2, <1>3, <1>6, <1>7, MeaningStays DEF Parts
<1> QED BY <1>2, <1>8 DEF MInv, Parts

LEMMA NextFits ==
  ASSUME IInv, stack # <<>>, Top.n <= Len(Top.prog), NEW errs \in SUBSET Nat, NextStatement(errs)
  PROVE \E f \in CallType :
          Becomes(f) /\ Moves(f) /\ GoesTo(f) /\ Fits(f) /\ f.errs = Top.errs \cup errs
<1>1. PICK f \in CallType :
        /\ Becomes(f) /\ f.at = Top.at /\ f.prog = Top.prog /\ f.phase = Top.phase
        /\ f.step = "start" /\ f.look.st = "idle" /\ f.n = Top.n + 1 /\ f.got = {}
        /\ f.item = 1 /\ f.k = 1 /\ f.errs = Top.errs \cup errs
  BY NextFields
<1>2. Moves(f) /\ GoesTo(f)
  BY <1>1 DEF Moves, GoesTo
<1>3. Fits(f)
  BY <1>1 DEF Fits, LooksForPath, Alone
<1> QED BY <1>1, <1>2, <1>3

LEMMA NextMeans ==
  ASSUME IInv, MInv, stack # <<>>, Top.n <= Len(Top.prog), NEW errs \in SUBSET Nat,
         NextStatement(errs), UNCHANGED <<text, schemas, val>>,
         Top.phase = "declare" /\ errs = {} => Top.errs # {} \/ HasAdded,
         Top.phase = "compile" /\ errs = {} => Stmt.op # "def"
  PROVE MInv'
<1>1. PICK f \in CallType :
        Becomes(f) /\ Moves(f) /\ GoesTo(f) /\ Fits(f) /\ f.errs = Top.errs \cup errs
  BY NextFits
<1>2. f.errs = {} => errs = {} /\ Top.errs = {}
  BY <1>1
<1> QED BY <1>1, <1>2, QuietStepMeans

LEMMA FailMeans ==
  ASSUME IInv, MInv, stack # <<>>, Top.n <= Len(Top.prog), Fail, UNCHANGED <<text, schemas, val>>
  PROVE MInv'
<1>1. {Top.n} \in SUBSET Nat /\ {Top.n} # {}
  BY TopFacts, CallFields
<1> QED BY <1>1, NextMeans DEF Fail

\* A call that agrees on all that its statement has collected.
LEMMA CollectsSame ==
  ASSUME NEW f, NEW g, Collects(g), f.at = g.at, f.prog = g.prog, f.n = g.n, f.got = g.got,
         f.step = g.step, f.item = g.item, f.k = g.k
  PROVE Collects(f)
<1>1. Source(f) = Source(g)
  BY DEF Source
<1> QED BY <1>1 DEF Collects

LEMMA AnsweredMeans ==
  ASSUME IInv, MInv, stack # <<>>, NEW a \in LookType, Answer(a), UNCHANGED <<text, schemas, val>>,
         \A f \in CallType :
            /\ f.at = Top.at /\ f.prog = Top.prog /\ f.phase = Top.phase /\ f.n = Top.n
            /\ f.k = Top.k /\ f.item = Top.item /\ f.look = a
            => /\ Top.phase = "declare" /\ a.st # "idle" => LooksForItem(f)
               /\ Top.phase = "compile" => LooksForPath(f)
  PROVE MInv'
<1> DEFINE f == [Top EXCEPT !.look = a, !.missed = FALSE]
<1>1. f \in CallType
  BY TopFacts DEF CallType
<1>2. /\ f.at = Top.at /\ f.prog = Top.prog /\ f.phase = Top.phase /\ f.step = Top.step
      /\ f.n = Top.n /\ f.k = Top.k /\ f.item = Top.item /\ f.got = Top.got /\ f.look = a
      /\ f.errs = Top.errs
  BY TopFacts DEF CallType
<1>3. Becomes(f)
  BY DEF Answer
<1> HIDE DEF f
<1>4. Moves(f) /\ ~GoesTo(f)
  <2>1. Top.n \in Nat
    BY TopFacts, CallFields
  <2> QED BY <1>2, <2>1 DEF Moves, GoesTo
<1>5. Top \in Ongoing /\ Fits(Top)
  BY TopOngoing, AllFit DEF MInv
<1>6. Fits(f)
  BY <1>1, <1>2, <1>5, CollectsSame, AloneSame DEF Fits
<1> QED BY <1>1, <1>3, <1>4, <1>6, QuietStepMeans

\* A schema that is declared without errors shows what its statements make.
LEMMA DeclaredShows ==
  ASSUME IInv, DeclsMade, DeclsKept, NEW a \in 1..Len(schemas), Clean(a),
         \A i : Said(a, i) = DeclaredIn(a, i), NEW l, l = Len(schemas[a].said), NEW k, NEW x
  PROVE /\ \A m, v : Shows(a, l, k, x, m, v) <=>
             \E d \in schemas[a].decls : d.kind = k /\ d.name = x /\ d.value = v /\ Open(d, m)
        /\ Lacks(a, l, k, x) <=> ~\E d \in schemas[a].decls : d.kind = k /\ d.name = x
<1>1. ASSUME NEW d \in schemas[a].decls
      PROVE \E i \in 1..l : \E s \in Said(a, i) : Bare(d) \in Makes(a, s)
  BY DEF DeclsMade
<1>2. ASSUME NEW i \in 1..l, NEW s \in Said(a, i), NEW m \in Makes(a, s)
      PROVE \E d \in schemas[a].decls : Bare(d) = m
  BY DEF DeclsKept, Keeps
<1>3. \A d : Bare(d).kind = d.kind /\ Bare(d).name = d.name /\ Bare(d).value = d.value
             /\ Bare(d).public = d.public
  BY DEF Bare
<1>4. ASSUME NEW m, NEW v, NEW d \in schemas[a].decls, d.kind = k, d.name = x, d.value = v, Open(d, m)
      PROVE Shows(a, l, k, x, m, v)
  <2>1. Open(Bare(d), m)
    BY <1>3, <1>4 DEF Open
  <2> QED BY <1>1, <1>3, <1>4, <2>1 DEF Shows
<1>5. ASSUME NEW m, NEW v, Shows(a, l, k, x, m, v)
      PROVE \E d \in schemas[a].decls : d.kind = k /\ d.name = x /\ d.value = v /\ Open(d, m)
  <2>1. PICK i, s, e : /\ i \in 1..l /\ s \in Said(a, i) /\ e \in Makes(a, s)
                       /\ e.kind = k /\ e.name = x /\ e.value = v /\ Open(e, m)
    BY <1>5 DEF Shows
  <2>2. PICK d \in schemas[a].decls : Bare(d) = e
    BY <1>2, <2>1
  <2> QED BY <1>3, <2>1, <2>2 DEF Open
<1>6. Lacks(a, l, k, x) <=> ~\E d \in schemas[a].decls : d.kind = k /\ d.name = x
  BY <1>1, <1>2, <1>3 DEF Lacks
<1> QED BY <1>4, <1>5, <1>6


LEMMA LeadsOn ==
  ASSUME IInv, NEW c, NEW j, NEW k, NEW path, NEW i \in Nat \ {0}, NEW a,
         Leads(c, j, k, path, i, a), NEW b \in 1..Len(schemas),
         GoesOn(a, InputAt(j, i), k, path[i], i, b)
  PROVE Leads(c, j, k, path, i + 1, b)
<1>1. PICK w \in [1..i -> 1..Len(schemas)] :
        /\ w[1] = c /\ w[i] = a
        /\ \A m \in 1..i - 1 : GoesOn(w[m], InputAt(j, m), k, path[m], m, w[m + 1])
  BY DEF Leads
<1> DEFINE u == [m \in 1..i + 1 |-> IF m <= i THEN w[m] ELSE b]
<1>2. u \in [1..i + 1 -> 1..Len(schemas)] /\ u[1] = c /\ u[i + 1] = b
  BY <1>1
<1>3. \A m \in 1..i : u[m] = w[m]
  OBVIOUS
<1> HIDE DEF u
<1>4. ASSUME NEW m \in 1..(i + 1) - 1 PROVE GoesOn(u[m], InputAt(j, m), k, path[m], m, u[m + 1])
  <2>1. CASE m = i
    BY <1>1, <1>2, <1>3, <2>1
  <2>2. CASE m # i
    <3>1. m \in 1..i - 1 /\ m \in 1..i /\ m + 1 \in 1..i
      BY <2>2
    <3> QED BY <1>1, <1>3, <3>1
  <2> QED BY <2>1, <2>2
<1> QED BY <1>2, <1>4 DEF Leads

\* What the innermost call sees where its lookup has come to.
LEMMA ItemLook ==
  ASSUME IInv, MInv, Looking, Top.phase = "declare"
  PROVE /\ Look.i = 1 /\ Len(Look.path) = 1 /\ ~Look.global /\ Look.kind = Kinds[Top.k]
        /\ Ident = Stmt.items[Top.item]
        /\ \A k : Matches(k) = {d \in Source(Top) : d.kind = k /\ d.name = Stmt.items[Top.item]}
<1>1. stack # <<>> /\ Top.look.st = "going"
  BY DEF Looking
<1>2. LooksForItem(Top)
  BY <1>1, TopOngoing DEF MInv, Collected
<1>3. PICK x : x = Stmt.items[Top.item]
  OBVIOUS
<1>4. /\ Look.path = <<x>> /\ Look.i = 1 /\ ~Look.global /\ Look.kind = Kinds[Top.k]
      /\ Look.at = schemas[Top.at].imports[Stmt.from]
  BY <1>1, <1>2, <1>3 DEF LooksForItem, Look, Stmt
<1>5. Len(Look.path) = 1 /\ Ident = x
  BY <1>4 DEF Ident
<1> QED BY <1>3, <1>4, <1>5 DEF Matches, Source, Stmt

LEMMA PathLook ==
  ASSUME IInv, MInv, Looking, Top.phase = "compile"
  PROVE LET a == Look.at
            j == Len(schemas[Top.at].said)
            l == InputAt(j, Look.i)
        IN
        /\ Look.path = Stmt.path /\ Look.kind = Stmt.kind /\ Look.global
        /\ Top.n <= Len(Top.prog) /\ Stmt.op = "def" /\ Stmt.path # <<>>
        /\ Clean(Top.at) =>
             /\ Leads(Top.at, j, Stmt.kind, Stmt.path, Look.i, a)
             /\ \A k : /\ \A d \in Matches(k) : Visible(d) => Shows(a, l, k, Ident, Look.i, d.value)
                       /\ Matches(k) = {} => Lacks(a, l, k, Ident)
<1> DEFINE a == Look.at
           j == Len(schemas[Top.at].said)
           l == InputAt(j, Look.i)
<1>1. stack # <<>> /\ Top.look.st = "going" /\ Top \in Ongoing
  BY TopOngoing DEF Looking
<1>2. LooksForPath(Top)
  BY <1>1 DEF MInv, Looks
<1>3. /\ Look.path = Stmt.path /\ Look.kind = Stmt.kind /\ Look.global
      /\ Top.n <= Len(Top.prog) /\ Stmt.op = "def" /\ Stmt.path # <<>>
      /\ Clean(Top.at) => Leads(Top.at, j, Stmt.kind, Stmt.path, Look.i, a)
  BY <1>1, <1>2 DEF LooksForPath, Stmt, Look
<1>4. Look.i \in 1..Len(Look.path) /\ Look.path \in Seq(Name) /\ a \in 1..Len(schemas)
  BY LookFacts
<1>5. ASSUME Clean(Top.at)
      PROVE \A k : /\ \A d \in Matches(k) : Visible(d) => Shows(a, l, k, Ident, Look.i, d.value)
                   /\ Matches(k) = {} => Lacks(a, l, k, Ident)
  <2>1. Clean(a) /\ l = Len(schemas[a].said) /\ \A i : Said(a, i) = DeclaredIn(a, i)
    <3>1. PICK c, i, o, k, path :
            c = Top.at /\ i = Look.i /\ o = j /\ k = Stmt.kind /\ path = Look.path
      OBVIOUS
    <3>2. Ready(c, o) /\ \A m : Said(c, m) = DeclaredIn(c, m)
      BY <1>1, <1>5, <3>1, PastDeclare DEF MInv
    <3>3. path \in Seq(Name) /\ i \in 1..Len(path) /\ Leads(c, o, k, path, i, a)
      BY <1>3, <1>4, <1>5, <3>1
    <3>4. /\ i = 1 => a = c
          /\ i # 1 => /\ Clean(a) /\ Len(schemas[a].said) = 1
                      /\ \A m \in 1..Len(stack) : stack[m].at # a
      BY <3>2, <3>3, LeadsReady DEF MInv
    <3>5. CASE i = 1
      BY <1>5, <3>1, <3>2, <3>4, <3>5 DEF InputAt
    <3>6. CASE i # 1
      <4>1. \A m : Said(a, m) = DeclaredIn(a, m)
        BY <3>4, <3>6, IdleDone
      <4> QED BY <3>1, <3>4, <3>6, <4>1 DEF InputAt
    <3> QED BY <3>5, <3>6
  <2> HIDE DEF l, j, a
  <2>2. ASSUME NEW k
        PROVE /\ \A m, v : Shows(a, l, k, Ident, m, v) <=>
                   \E d \in schemas[a].decls : d.kind = k /\ d.name = Ident /\ d.value = v /\ Open(d, m)
              /\ Lacks(a, l, k, Ident) <=> ~\E d \in schemas[a].decls : d.kind = k /\ d.name = Ident
    <3>1. PICK x : x = Ident
      OBVIOUS
    <3>2. /\ a \in 1..Len(schemas) /\ Clean(a) /\ l = Len(schemas[a].said) /\ DeclsMade /\ DeclsKept
          /\ \A i : Said(a, i) = DeclaredIn(a, i)
      BY <1>4, <2>1 DEF MInv
    <3>3. PICK c, o : c = a /\ o = l
      OBVIOUS
    <3>4. /\ c \in 1..Len(schemas) /\ Clean(c) /\ o = Len(schemas[c].said)
          /\ \A i : Said(c, i) = DeclaredIn(c, i)
      BY <3>2, <3>3
    <3>5. /\ \A m, v : Shows(c, o, k, x, m, v) <=>
                \E d \in schemas[c].decls : d.kind = k /\ d.name = x /\ d.value = v /\ Open(d, m)
          /\ Lacks(c, o, k, x) <=> ~\E d \in schemas[c].decls : d.kind = k /\ d.name = x
      BY <3>2, <3>4, DeclaredShows
    <3> QED BY <3>1, <3>3, <3>5
  <2>3. \A k : Matches(k) = {d \in schemas[a].decls : d.kind = k /\ d.name = Ident}
    BY DEF Matches, a
  <2>4. \A d : Visible(d) => Open(d, Look.i)
    BY DEF Visible, Open
  <2> QED BY <2>2, <2>3, <2>4
<1> QED BY <1>3, <1>5

\* What a lookup of a path that ends here finds.
LEMMA FoundRefers ==
  ASSUME NEW c, NEW j, NEW k, NEW path, NEW i, i = Len(path), NEW a \in 1..Len(schemas),
         Leads(c, j, k, path, i, a), NEW v, Ends(a, InputAt(j, i), k, path[i], i, v)
  PROVE RefersTo(c, j, k, path, v)
  BY DEF RefersTo

LEMMA LookFindsMeans == IInv /\ MInv /\ LookFinds => MInv'
<1> SUFFICES ASSUME IInv, MInv, LookFinds PROVE MInv'
  OBVIOUS
<1>1. Looking /\ UNCHANGED <<text, schemas, val, inputs, late>>
  BY DEF LookFinds
<1>2. PICK d \in Matches(Look.kind) :
        Answer(IF Visible(d) /\ Look.i = Len(Look.path)
               THEN Found(d.kind, d.value) ELSE NoSuchEntry)
  BY DEF LookFinds
<1>3. d \in Decl /\ d.kind = Look.kind /\ stack # <<>>
  BY <1>1, LookFacts
<1>4. PICK a : a = IF Visible(d) /\ Look.i = Len(Look.path) THEN Found(d.kind, d.value) ELSE NoSuchEntry
  OBVIOUS
<1>5. a \in LookType /\ Answer(a)
  BY <1>2, <1>3, <1>4, DeclFields, NoEntry
<1>6. /\ Visible(d) /\ Look.i = Len(Look.path) =>
           a.st = "found" /\ a.kind = Look.kind /\ a.value = d.value
      /\ ~(Visible(d) /\ Look.i = Len(Look.path)) => a.st = "error"
  BY <1>3, <1>4 DEF Found, NoSuchEntry
<1>7. ASSUME NEW f \in CallType, f.at = Top.at, f.prog = Top.prog, f.phase = Top.phase,
             f.n = Top.n, f.k = Top.k, f.item = Top.item, f.look = a
      PROVE /\ Top.phase = "declare" /\ a.st # "idle" => LooksForItem(f)
            /\ Top.phase = "compile" => LooksForPath(f)
  <2>1. ASSUME Top.phase = "declare" PROVE LooksForItem(f)
    <3>1. a.st = "found" /\ a.kind = Kinds[Top.k] /\ a.value = d.value /\ d.kind = Kinds[Top.k]
          /\ d \in Source(Top) /\ d.name = Stmt.items[Top.item]
      BY <1>1, <1>3, <1>6, <2>1, ItemLook DEF Visible
    <3>2. Source(f) = Source(Top)
      BY <1>7 DEF Source
    <3> QED BY <1>7, <3>1, <3>2 DEF LooksForItem, Stmt
  <2>2. ASSUME Top.phase = "compile" PROVE LooksForPath(f)
    <3> DEFINE j == Len(schemas[Top.at].said)
    <3>1. /\ Look.path = Stmt.path /\ Look.kind = Stmt.kind
          /\ Top.n <= Len(Top.prog) /\ Stmt.op = "def" /\ Stmt.path # <<>>
          /\ Clean(Top.at) =>
               /\ Leads(Top.at, j, Stmt.kind, Stmt.path, Look.i, Look.at)
               /\ Visible(d) => Shows(Look.at, InputAt(j, Look.i), Look.kind, Ident, Look.i, d.value)
      BY <1>1, <2>2, PathLook
    <3>2. ASSUME Clean(Top.at), a.st = "found"
          PROVE RefersTo(Top.at, j, Stmt.kind, Stmt.path, a.value)
      <4>1. Visible(d) /\ Look.i = Len(Look.path) /\ a.value = d.value
        BY <1>6, <3>2
      <4>2. Ends(Look.at, InputAt(j, Look.i), Stmt.kind, Stmt.path[Look.i], Look.i, a.value)
        BY <3>1, <3>2, <4>1 DEF Ends, Ident
      <4>3. Look.at \in 1..Len(schemas)
        BY <1>1, LookFacts
      <4> QED BY <3>1, <3>2, <4>1, <4>2, <4>3, FoundRefers
    <3> QED BY <1>6, <1>7, <3>1, <3>2 DEF LooksForPath, Stmt
  <2> QED BY <2>1, <2>2
<1> QED BY <1>1, <1>3, <1>5, <1>7, AnsweredMeans

LEMMA LookFallsBackMeans == IInv /\ MInv /\ LookFallsBack => MInv'
<1> SUFFICES ASSUME IInv, MInv, LookFallsBack PROVE MInv'
  OBVIOUS
<1> DEFINE b == [kind |-> Look.kind, name |-> Ident]
<1>1. /\ Looking /\ UNCHANGED <<text, schemas, val, inputs, late>> /\ stack # <<>>
      /\ Matches(Look.kind) = {} /\ Matches("schema") = {}
  BY LookFacts DEF LookFallsBack
<1>2. PICK a : /\ a = IF Look.global /\ b \in Builtin /\ Look.i = Len(Look.path)
                      THEN Found(b.kind, b) ELSE NoSuchEntry
               /\ Answer(a)
  BY DEF LookFallsBack
<1>3. \/ a = NoSuchEntry
      \/ /\ a = Found(b.kind, b) /\ Look.global /\ b \in Builtin /\ Look.i = Len(Look.path)
         /\ b \in Lit /\ b.kind \in {"type", "expr"}
  <2>1. b \in Builtin => b \in Lit /\ b \in [kind : {"type", "expr"}, name : Name]
    BY ImportAssumption
  <2>2. b \in [kind : {"type", "expr"}, name : Name] => b.kind \in {"type", "expr"}
    OBVIOUS
  <2> QED BY <1>2, <2>1, <2>2
<1>4. b.kind = Look.kind
  OBVIOUS
<1>5. a \in LookType
  <2> HIDE DEF b
  <2> QED BY <1>3, NoEntry DEF Found, LookType
<1>6. a.st = "error" \/ (a.st = "found" /\ a.value = b /\ Look.global /\ b \in Builtin
                         /\ Look.i = Len(Look.path))
  <2> HIDE DEF b
  <2> QED BY <1>3, NoEntry DEF Found
<1>7. ASSUME NEW f \in CallType, f.at = Top.at, f.prog = Top.prog, f.phase = Top.phase,
             f.n = Top.n, f.k = Top.k, f.item = Top.item, f.look = a
      PROVE /\ Top.phase = "declare" /\ a.st # "idle" => LooksForItem(f)
            /\ Top.phase = "compile" => LooksForPath(f)
  <2>1. ASSUME Top.phase = "declare" PROVE LooksForItem(f)
    <3>1. a.st = "error" /\ {d \in Source(Top) : d.kind = Kinds[Top.k] /\ d.name = Stmt.items[Top.item]} = {}
      BY <1>1, <1>6, <2>1, ItemLook
    <3>2. Source(f) = Source(Top)
      BY <1>7 DEF Source
    <3> QED BY <1>7, <3>1, <3>2 DEF LooksForItem, Stmt
  <2>2. ASSUME Top.phase = "compile" PROVE LooksForPath(f)
    <3> DEFINE j == Len(schemas[Top.at].said)
    <3>1. /\ Look.path = Stmt.path /\ Look.kind = Stmt.kind
          /\ Top.n <= Len(Top.prog) /\ Stmt.op = "def" /\ Stmt.path # <<>>
          /\ Clean(Top.at) =>
               /\ Leads(Top.at, j, Stmt.kind, Stmt.path, Look.i, Look.at)
               /\ Lacks(Look.at, InputAt(j, Look.i), Look.kind, Ident)
               /\ Lacks(Look.at, InputAt(j, Look.i), "schema", Ident)
      BY <1>1, <2>2, PathLook
    <3>2. ASSUME Clean(Top.at), a.st = "found"
          PROVE RefersTo(Top.at, j, Stmt.kind, Stmt.path, a.value)
      <4>1. Look.i = Len(Look.path) /\ a.value = b /\ b \in Builtin
        BY <1>6, <3>2
      <4>2. Ends(Look.at, InputAt(j, Look.i), Stmt.kind, Stmt.path[Look.i], Look.i, a.value)
        BY <3>1, <3>2, <4>1 DEF Ends, Ident
      <4>3. Look.at \in 1..Len(schemas)
        BY <1>1, LookFacts
      <4> QED BY <3>1, <3>2, <4>1, <4>2, <4>3, FoundRefers
    <3> QED BY <1>6, <1>7, <3>1, <3>2 DEF LooksForPath, Stmt
  <2> QED BY <2>1, <2>2
<1> QED BY <1>1, <1>2, <1>5, <1>7, AnsweredMeans


LEMMA AnswerNoEntry ==
  ASSUME IInv, MInv, Looking, Matches(Look.kind) = {}, Answer(NoSuchEntry),
         UNCHANGED <<text, schemas, val>>
  PROVE MInv'
<1>1. PICK a : a = NoSuchEntry
  OBVIOUS
<1>2. a \in LookType /\ Answer(a) /\ a.st = "error" /\ stack # <<>>
  BY <1>1, NoEntry, LookFacts
<1>3. ASSUME NEW f \in CallType, f.at = Top.at, f.prog = Top.prog, f.phase = Top.phase,
             f.n = Top.n, f.k = Top.k, f.item = Top.item, f.look = a
      PROVE /\ Top.phase = "declare" /\ a.st # "idle" => LooksForItem(f)
            /\ Top.phase = "compile" => LooksForPath(f)
  <2>1. ASSUME Top.phase = "declare" PROVE LooksForItem(f)
    <3>1. {d \in Source(Top) : d.kind = Kinds[Top.k] /\ d.name = Stmt.items[Top.item]} = {}
      BY <2>1, ItemLook
    <3>2. Source(f) = Source(Top)
      BY <1>3 DEF Source
    <3> QED BY <1>2, <1>3, <3>1, <3>2 DEF LooksForItem, Stmt
  <2>2. ASSUME Top.phase = "compile" PROVE LooksForPath(f)
    <3>1. Top.n <= Len(Top.prog) /\ Stmt.op = "def" /\ Stmt.path # <<>>
      BY <2>2, PathLook
    <3> QED BY <1>2, <1>3, <3>1 DEF LooksForPath, Stmt
  <2> QED BY <2>1, <2>2
<1> QED BY <1>2, <1>3, AnsweredMeans

LEMMA LookGoesOn ==
  ASSUME IInv, MInv, Looking, Matches(Look.kind) = {}, NEW d \in Matches("schema"), Visible(d),
         NEW to, to = schemas[Look.at].imports[d.value], to # 0, Look.i # Len(Look.path),
         Answer([Look EXCEPT !.at = to, !.i = Look.i + 1]), UNCHANGED <<text, schemas, val>>
  PROVE MInv'
<1>1. d \in Decl /\ d.kind = "schema" /\ Look.at \in 1..Len(schemas) /\ stack # <<>>
  BY LookFacts
<1>2. d.value \in Name /\ d.value = d.name /\ d.name = Ident
  <2>1. d \in schemas[Look.at].decls /\ d.name = Ident
    BY DEF Matches
  <2> QED BY <1>1, <2>1, DeclFields DEF MInv, DeclsFit
<1>3. to \in 1..Len(schemas) /\ to \in 1..MaxSchema
  <2>1. to \in 0..Len(schemas)
    BY <1>1, <1>2, SchemaFacts
  <2> QED BY SMTT(30), <2>1, ImportAssumption DEF IInv, TypeOK
<1>4. Look.i \in 1..Len(Look.path) /\ Look.i + 1 \in Nat \ {0} /\ Look.i \in Nat \ {0}
  BY LookFacts
<1>5. PICK a : a = [Look EXCEPT !.at = to, !.i = Look.i + 1]
  OBVIOUS
<1>6. /\ a \in LookType /\ a.st = "going" /\ a.at = to /\ a.i = Look.i + 1
      /\ a.path = Look.path /\ a.kind = Look.kind /\ a.global = Look.global /\ Answer(a)
  <2>1. PICK i \in Nat \ {0} : i = Look.i + 1
    BY <1>4
  <2>2. a = [Look EXCEPT !.at = to, !.i = i]
    BY <1>5, <2>1
  <2>3. /\ a \in [st : {"going"}, kind : Kind, path : Seq(Name), global : BOOLEAN,
                  at : 1..MaxSchema, i : Nat \ {0}]
        /\ a.st = "going" /\ a.at = to /\ a.i = i
        /\ a.path = Look.path /\ a.kind = Look.kind /\ a.global = Look.global
    BY <1>3, <2>2, LookFacts
  <2>4. a \in LookType
    BY <2>3 DEF LookType
  <2> QED BY <1>5, <2>1, <2>3, <2>4
<1>7. ASSUME NEW f \in CallType, f.at = Top.at, f.prog = Top.prog, f.phase = Top.phase,
             f.n = Top.n, f.k = Top.k, f.item = Top.item, f.look = a
      PROVE /\ Top.phase = "declare" /\ a.st # "idle" => LooksForItem(f)
            /\ Top.phase = "compile" => LooksForPath(f)
  <2>1. Top.phase # "declare"
    BY ItemLook
  <2>2. ASSUME Top.phase = "compile" PROVE LooksForPath(f)
    <3>1. PICK c, j, k, path, i, o :
            /\ c = Top.at /\ j = Len(schemas[Top.at].said) /\ k = Stmt.kind /\ path = Stmt.path
            /\ i = Look.i /\ o = Look.at
      OBVIOUS
    <3>2. /\ Look.path = path /\ Look.kind = k /\ Look.global
          /\ Top.n <= Len(Top.prog) /\ Stmt.op = "def" /\ path # <<>>
          /\ Clean(c) => /\ Leads(c, j, k, path, i, o)
                         /\ Shows(o, InputAt(j, i), "schema", Ident, i, d.value)
                         /\ Lacks(o, InputAt(j, i), k, Ident)
      BY SMTT(30), <2>2, <3>1, PathLook
    <3>3. ASSUME Clean(c) PROVE Leads(c, j, k, path, i + 1, to)
      <4>1. GoesOn(o, InputAt(j, i), k, path[i], i, to)
        BY <1>2, <3>1, <3>2, <3>3 DEF GoesOn, Ident
      <4> QED BY SMTT(30), <1>3, <1>4, <3>1, <3>2, <3>3, <4>1, LeadsOn
    <3> QED BY <1>6, <1>7, <3>1, <3>2, <3>3 DEF LooksForPath, Stmt
  <2> QED BY <2>1, <2>2
<1> QED BY <1>1, <1>6, <1>7, AnsweredMeans

\* A call of another file: the file is read, but for a call that cannot be made.
LEMMA MissedMeans ==
  ASSUME IInv, MInv, stack # <<>>, Becomes([Top EXCEPT !.missed = TRUE]), UNCHANGED <<schemas, val>>,
         \A g \in File : HasText(g) => text'[g] = text[g]
  PROVE MInv'
<1> DEFINE f == [Top EXCEPT !.missed = TRUE]
<1>1. f \in CallType
  BY TopFacts DEF CallType
<1>2. /\ f.at = Top.at /\ f.prog = Top.prog /\ f.phase = Top.phase /\ f.step = Top.step
      /\ f.n = Top.n /\ f.k = Top.k /\ f.item = Top.item /\ f.got = Top.got /\ f.look = Top.look
      /\ f.errs = Top.errs
  BY TopFacts DEF CallType
<1>3. Becomes(f)
  OBVIOUS
<1> HIDE DEF f
<1>4. Moves(f) /\ ~GoesTo(f)
  <2>1. Top.n \in Nat
    BY TopFacts, CallFields
  <2> QED BY <1>2, <2>1 DEF Moves, GoesTo
<1>5. Top \in Ongoing /\ Fits(Top)
  BY TopOngoing, AllFit DEF MInv
<1>6. Fits(f)
  <2>1. Source(f) = Source(Top)
    BY <1>2 DEF Source
  <2>2. LooksForItem(Top) => LooksForItem(f)
    BY <1>2, <2>1 DEF LooksForItem
  <2>3. LooksForPath(Top) => LooksForPath(f)
    BY <1>2 DEF LooksForPath
  <2> QED BY <1>2, <1>5, <2>2, <2>3, CollectsSame, AloneSame DEF Fits
<1> QED BY <1>1, <1>3, <1>4, <1>6, QuietStepMeans


-------------------------------------------------------------------------------
(* Steps that change schemas.                                                               *)
LEMMA SameIn ==
  ASSUME NEW c, NEW j, schemas'[c].said = schemas[c].said,
         \A g : g.at = c => (g \in Ongoing' <=> g \in Ongoing)
  PROVE DeclaredIn(c, j)' = DeclaredIn(c, j) /\ CompiledIn(c, j)' = CompiledIn(c, j)
<1>1. \A g : (g \in Ongoing' /\ g.at = c) <=> (g \in Ongoing /\ g.at = c)
  OBVIOUS
<1>2. \A g : g.at = c => \A m : /\ HasDecl(g, j, m)' <=> HasDecl(g, j, m)
                                /\ HasDone(g, j, m)' <=> HasDone(g, j, m)
  BY DEF HasDecl, HasDone
<1> QED BY <1>1, <1>2 DEF DeclaredIn, CompiledIn

LEMMA PartsStay ==
  ASSUME IInv, Parts, Frame, \A c \in 1..Len(schemas) : Clean(c)' => Clean(c),
         TextsSaid', DeclsFit',
         \A c \in 1..Len(schemas') : \A d \in schemas'[c].decls :
            \/ c \in 1..Len(schemas) /\ d \in schemas[c].decls
            \/ \E j \in 1..Len(schemas'[c].said) : \E s \in Said(c, j)' : Bare(d) \in Makes(c, s)',
         \A c \in 1..Len(schemas') : Clean(c)' =>
            \A j \in 1..Len(schemas'[c].said) : \A s \in DeclaredIn(c, j)' :
               c \in 1..Len(schemas) /\ j \in 1..Len(schemas[c].said) /\ s \in DeclaredIn(c, j),
         \A g \in Ongoing' :
            (g \in Ongoing /\ schemas'[g.at].said = schemas[g.at].said) \/ Fits(g)'
  PROVE Parts'
<1>1. DeclsMade'
  <2>1. ASSUME NEW c \in 1..Len(schemas'), NEW d \in schemas'[c].decls
        PROVE \E j \in 1..Len(schemas'[c].said) : \E s \in Said(c, j)' : Bare(d) \in Makes(c, s)'
    <3>1. CASE c \in 1..Len(schemas) /\ d \in schemas[c].decls
      <4>1. PICK j \in 1..Len(schemas[c].said) : \E s \in Said(c, j) : Bare(d) \in Makes(c, s)
        BY <3>1 DEF Parts, DeclsMade
      <4>2. PICK s \in Said(c, j) : Bare(d) \in Makes(c, s)
        BY <4>1
      <4>3. s \in Import \cup Def
        BY <3>1, SaidFacts
      <4>4. s \in Said(c, j)' /\ Bare(d) \in Makes(c, s)' /\ j \in 1..Len(schemas'[c].said)
        BY <3>1, <4>2, <4>3, SaidStays, MakesGrow
      <4> QED BY <4>4
    <3> QED BY <3>1
  <2> QED BY <2>1 DEF DeclsMade
<1>2. DeclsKept'
  <2>1. ASSUME NEW c \in 1..Len(schemas'), Clean(c)', NEW j \in 1..Len(schemas'[c].said),
               NEW s \in DeclaredIn(c, j)'
        PROVE Keeps(c, s)'
    <3>1. c \in 1..Len(schemas) /\ j \in 1..Len(schemas[c].said) /\ s \in DeclaredIn(c, j)
      BY <2>1
    <3>2. Keeps(c, s) /\ s \in Import \cup Def
      BY <2>1, <3>1, SaidFacts DEF Parts, DeclsKept
    <3>3. Makes(c, s)' = Makes(c, s) /\ Imported(c, s)'
      BY <3>1, <3>2, MakesStays DEF Keeps
    <3>4. schemas[c].decls \subseteq schemas'[c].decls
      BY <3>1 DEF Frame
    <3> QED BY <3>2, <3>3, <3>4 DEF Keeps
  <2> QED BY <2>1 DEF DeclsKept
<1>3. Collected' /\ Looks'
  <2>1. ASSUME NEW g \in Ongoing' PROVE Fits(g)'
    <3>1. CASE g \in Ongoing /\ schemas'[g.at].said = schemas[g.at].said
      <4>1. Fits(g) /\ g.at \in 1..Len(schemas)
        BY <3>1, AllFit, OngoingFacts DEF Parts
      <4>2. g.at \in 1..Len(schemas') /\ schemas'[g.at].said = schemas[g.at].said
        BY <3>1, <4>1 DEF Frame, IInv, TypeOK
      <4>3. Clean(g.at)' => \A j \in 1..Len(schemas[g.at].said) :
                              \A t \in DeclaredIn(g.at, j)' : t \in DeclaredIn(g.at, j)
        BY <4>2
      <4> QED BY <3>1, <4>1, <4>3, FitsStays DEF Parts
    <3> QED BY <2>1, <3>1
  <2> QED BY <2>1, AllFitNext
<1>4. DeclsOnce'
  <2>1. ASSUME NEW c \in 1..Len(schemas'), Clean(c)',
               NEW i \in 1..Len(schemas'[c].said), NEW j \in 1..Len(schemas'[c].said),
               NEW s \in DeclaredIn(c, i)', NEW t \in DeclaredIn(c, j)', Twin(s, t)
        PROVE i = j /\ s = t
    <3>1. /\ c \in 1..Len(schemas) /\ s \in DeclaredIn(c, i) /\ t \in DeclaredIn(c, j)
          /\ i \in 1..Len(schemas[c].said) /\ j \in 1..Len(schemas[c].said)
      BY <2>1
    <3> QED BY <2>1, <3>1 DEF Parts, DeclsOnce
  <2>2. \A s, t : Twin(s, t)' <=> Twin(s, t)
    BY DEF Twin
  <2> QED BY <2>1, <2>2 DEF DeclsOnce
<1> QED BY <1>1, <1>2, <1>3, <1>4 DEF Parts

\* A call is made, for a schema that did not exist before.
LEMMA PushMeans ==
  ASSUME IInv, MInv, stack # <<>>, NEW t \in Program, NEW new \in SchemaType, new.decls = {},
         new.said = <<t>>, new.result = "open", new.file \in File,
         \A y \in Name : new.imports[y] = 0, NEW call \in CallType, call.prog = t,
         call.phase = "declare", call.n = 1, call.step = "start", call.look = Idle,
         call.item = 1, call.k = 1, call.got = {}, call.errs = {}, call.at = Len(schemas) + 1,
         schemas' = Append(schemas, new), stack' = <<call>> \o stack, UNCHANGED val,
         \A g \in File : HasText(g) => text'[g] = text[g],
         text'[new.file] = t
  PROVE MInv'
<1>0. Parts /\ Solved /\ Grounded
  BY DEF MInv, Parts
<1>a. PICK s0 : s0 = Len(schemas) + 1
  OBVIOUS
<1>1. /\ Len(schemas) \in Nat /\ Len(schemas') = Len(schemas) + 1 /\ schemas'[s0] = new
      /\ \A c \in 1..Len(schemas) : schemas'[c] = schemas[c]
      /\ s0 \in Nat
  BY <1>a DEF IInv, TypeOK
<1>2. \A g : g \in Ongoing' <=> (g \in Ongoing \/ g = call)
  <2>1. /\ Len(stack') = Len(stack) + 1 /\ Len(stack) \in Nat
        /\ \A j \in 1..Len(stack') : stack'[j] = IF j = 1 THEN call ELSE stack[j - 1]
    BY Pushed DEF IInv, TypeOK
  <2>2. ASSUME NEW g \in Ongoing' PROVE g \in Ongoing \/ g = call
    <3>1. PICK j \in 1..Len(stack') : g = stack'[j]
      BY DEF Ongoing
    <3>2. j # 1 => j - 1 \in 1..Len(stack)
      BY <2>1
    <3> QED BY <2>1, <3>1, <3>2 DEF Ongoing
  <2>3. call \in Ongoing'
    <3>1. 1 \in 1..Len(stack') /\ stack'[1] = call
      BY <2>1
    <3> QED BY <3>1 DEF Ongoing
  <2>4. ASSUME NEW g \in Ongoing PROVE g \in Ongoing'
    <3>1. PICK j \in 1..Len(stack) : g = stack[j]
      BY DEF Ongoing
    <3>2. j + 1 \in 1..Len(stack') /\ stack'[j + 1] = stack[j]
      BY <2>1
    <3> QED BY <3>1, <3>2 DEF Ongoing
  <2> QED BY <2>2, <2>3, <2>4
<1>3. \A g \in Ongoing : g.at \in 1..Len(schemas)
  BY OngoingFacts
<1>4. call.at = s0
  BY <1>a
<1>5. \A c \in 1..Len(schemas) : c # s0
  BY <1>1, <1>a
<1>6. \A c \in 1..Len(schemas') : c \in 1..Len(schemas) \/ c = s0
  BY <1>1, <1>a
<1>7. \A c \in 1..Len(schemas) : Clean(c)' <=> Clean(c)
  BY <1>1, <1>2, <1>4, <1>5 DEF Clean
<1>8. \A c \in 1..Len(schemas) : \A j : DeclaredIn(c, j)' = DeclaredIn(c, j) /\ CompiledIn(c, j)' = CompiledIn(c, j)
  <2>1. ASSUME NEW c \in 1..Len(schemas), NEW j
        PROVE DeclaredIn(c, j)' = DeclaredIn(c, j) /\ CompiledIn(c, j)' = CompiledIn(c, j)
    <3>1. schemas'[c].said = schemas[c].said /\ c # s0
      BY <1>1, <1>5, <2>1
    <3>2. \A g : g.at = c => (g \in Ongoing' <=> g \in Ongoing)
      BY <1>2, <1>4, <3>1
    <3> QED BY <3>1, <3>2, SameIn
  <2> QED BY <2>1
<1>9. Len(new.said) = 1 /\ new.said[1] = t
  <2>1. PICK u : u = <<t>>
    OBVIOUS
  <2>2. Len(u) = 1 /\ u[1] = t
    BY <2>1
  <2> QED BY <2>1, <2>2
<1>10. \A j \in 1..Len(schemas'[s0].said) : DeclaredIn(s0, j)' = {} /\ CompiledIn(s0, j)' = {}
  <2>1. ASSUME NEW j \in 1..Len(schemas'[s0].said), NEW m \in 1..Len(schemas'[s0].said[j])
        PROVE ~HasDecl(call, j, m)' /\ ~HasDone(call, j, m)'
    <3>1. schemas'[call.at].said = new.said
      BY <1>1, <1>4
    <3>2. j = 1 /\ m \in Nat /\ m >= 1 /\ Len(schemas'[call.at].said) = 1
      BY <1>1, <1>9, <3>1
    <3>3. ~(j < 1) /\ ~(m < 1)
      BY <3>2
    <3> QED BY <3>2, <3>3 DEF HasDecl, HasDone
  <2>2. ASSUME NEW j \in 1..Len(schemas'[s0].said), NEW s, s \in DeclaredIn(s0, j)' PROVE FALSE
    <3>1. PICK m \in 1..Len(schemas'[s0].said[j]) : \A f \in Ongoing' : f.at = s0 => HasDecl(f, j, m)'
      BY <2>2 DEF DeclaredIn
    <3> QED BY <1>2, <1>4, <2>1, <3>1
  <2>3. ASSUME NEW j \in 1..Len(schemas'[s0].said), NEW s, s \in CompiledIn(s0, j)' PROVE FALSE
    <3>1. PICK m \in 1..Len(schemas'[s0].said[j]) : \A f \in Ongoing' : f.at = s0 => HasDone(f, j, m)'
      BY <2>3 DEF CompiledIn
    <3> QED BY <1>2, <1>4, <2>1, <3>1
  <2> QED BY <2>2, <2>3
<1>11. Errors => Errors'
  <2>1. ASSUME NEW c \in 1..Len(schemas), schemas[c].result = "bad" PROVE Errors'
    <3>1. c \in 1..Len(schemas') /\ schemas'[c].result = "bad"
      BY <1>1, <2>1
    <3> QED BY <3>1 DEF Errors
  <2>2. ASSUME NEW g \in Ongoing, g.errs # {} PROVE Errors'
    <3>1. g \in Ongoing'
      BY <1>2
    <3> QED BY <2>2, <3>1 DEF Errors, Ongoing
  <2>3. (\E j \in 1..Len(stack) : stack[j].errs # {}) => \E g \in Ongoing : g.errs # {}
    BY DEF Ongoing
  <2> QED BY <2>1, <2>2, <2>3 DEF Errors
<1>12. Frame
  <2>1. \A c \in 1..Len(schemas) : Len(schemas[c].said) \in Nat
    BY SaidFacts
  <2> QED BY <1>1, <1>11, <2>1 DEF Frame
<1>13. TextsSaid'
  <2>1. ASSUME NEW c \in 2..Len(schemas')
        PROVE /\ text'[schemas'[c].file] \notin {Missing, Broken, Unread}
              /\ schemas'[c].said = <<text'[schemas'[c].file]>>
    <3>1. CASE c = s0
      BY <1>1, <3>1, ImportAssumption
    <3>2. CASE c # s0
      <4>1. c \in 1..Len(schemas) /\ c \in 2..Len(schemas)
        BY <1>1, <1>6, <3>2
      <4>2. /\ schemas[c].file \in File /\ HasText(schemas[c].file)
            /\ schemas[c].said = <<text[schemas[c].file]>>
        BY <4>1, SchemaFacts DEF MInv, TextsSaid, HasText
      <4> QED BY <1>1, <4>1, <4>2 DEF HasText
    <3> QED BY <3>1, <3>2
  <2>2. ASSUME NEW g \in Ongoing'
        PROVE /\ schemas'[g.at].said # <<>> /\ g.prog = schemas'[g.at].said[Len(schemas'[g.at].said)]
              /\ schemas'[g.at].result # "ok"
    <3>1. CASE g = call
      <4>1. new.said # <<>>
        BY <1>9
      <4> QED BY <1>1, <1>4, <1>9, <3>1, <4>1
    <3>2. CASE g \in Ongoing
      BY <1>1, <1>3, <3>2 DEF MInv, TextsSaid
    <3> QED BY <1>2, <3>1, <3>2
  <2>3. schemas'[1].file = Root
    <3>1. 1 \in 1..Len(schemas)
      BY DEF IInv, TypeOK
    <3> QED BY <1>1, <3>1 DEF MInv, TextsSaid
  <2> QED BY <2>1, <2>2, <2>3 DEF TextsSaid
<1>14. DeclsFit'
  <2>1. \A c \in 1..Len(schemas') : schemas'[c].decls = {} \/ (c \in 1..Len(schemas) /\ schemas'[c] = schemas[c])
    BY <1>1, <1>6
  <2> QED BY <2>1 DEF MInv, DeclsFit
<1>15. \A c \in 1..Len(schemas') : \A d \in schemas'[c].decls : c \in 1..Len(schemas) /\ d \in schemas[c].decls
  BY <1>1, <1>6
<1>16. \A c \in 1..Len(schemas') : \A j \in 1..Len(schemas'[c].said) :
         /\ \A s \in DeclaredIn(c, j)' :
              c \in 1..Len(schemas) /\ j \in 1..Len(schemas[c].said) /\ s \in DeclaredIn(c, j)
         /\ \A s \in CompiledIn(c, j)' :
              c \in 1..Len(schemas) /\ j \in 1..Len(schemas[c].said) /\ s \in CompiledIn(c, j)
  BY <1>1, <1>6, <1>8, <1>10
<1>17. Fits(call)'
  BY DEF Fits, Idle, Alone
<1>18. \A g \in Ongoing' : (g \in Ongoing /\ schemas'[g.at].said = schemas[g.at].said) \/ Fits(g)'
  BY <1>1, <1>2, <1>3, <1>17
<1>19. Parts'
  BY <1>0, <1>7, <1>12, <1>13, <1>14, <1>15, <1>16, <1>18, PartsStay
<1>20. Solved' /\ Grounded'
  BY <1>0, <1>7, <1>8, <1>12, <1>16, MeaningStays DEF Parts
<1> QED BY <1>19, <1>20 DEF MInv, Parts


LEMMA EnterMeans ==
  ASSUME IInv, MInv, stack # <<>>, NEW c \in Top.at..Len(schemas), NEW x \in Name, Enter(c, x)
  PROVE MInv'
<1> DEFINE f == Resolves[schemas[c].file][x]
           s == Len(schemas) + 1
<1>1. /\ c \in 1..Len(schemas) /\ Top.at \in 1..Len(schemas) /\ Len(schemas) \in 1..MaxSchema
      /\ Top \in CallType /\ MaxSchema \in Nat
  BY TopFacts, ImportAssumption
<1>2. f \in File
  BY SMTT(60), <1>1, SchemaFacts, ImportAssumption
<1>3. PICK t \in IF text[f] = Unread THEN Texts[f] ELSE {text[f]} :
        /\ text' = IF t = Missing THEN text ELSE [text EXCEPT ![f] = t]
        /\ \/ /\ t \in {Missing, Broken}
              /\ Becomes([Top EXCEPT !.missed = TRUE])
              /\ UNCHANGED schemas
           \/ /\ t \notin {Missing, Broken}
              /\ Len(schemas) < MaxSchema
              /\ schemas' = Append(schemas, [NewSchema(f, c, x) EXCEPT !.said = <<t>>])
              /\ stack' = <<Call(s, t, c, x)>> \o stack
  BY DEF Enter
<1>4. UNCHANGED val
  BY DEF Enter
<1>5. t \in Program \cup {Missing, Broken, Unread} /\ DOMAIN text = File
  BY <1>2, <1>3, ImportAssumption DEF IInv, TypeOK
<1>6. t # Unread
  BY <1>2, <1>3, ImportAssumption
<1>7. \A g \in File : HasText(g) => text'[g] = text[g]
  <2>1. HasText(f) => t = text[f]
    BY <1>3 DEF HasText
  <2> QED BY <1>2, <1>3, <1>5, <2>1
<1>8. t # Missing => text'[f] = t
  BY <1>2, <1>3, <1>5
<1> HIDE DEF f, s
<1>9. CASE Becomes([Top EXCEPT !.missed = TRUE]) /\ UNCHANGED schemas
  BY <1>4, <1>7, <1>9, MissedMeans
<1>10. CASE /\ t \notin {Missing, Broken}
            /\ Len(schemas) < MaxSchema
            /\ schemas' = Append(schemas, [NewSchema(f, c, x) EXCEPT !.said = <<t>>])
            /\ stack' = <<Call(s, t, c, x)>> \o stack
  <2>1. t \in Program /\ <<t>> \in Seq(Program) /\ s \in 1..MaxSchema /\ s = Len(schemas) + 1
        /\ c \in 0..MaxSchema
    BY <1>1, <1>5, <1>6, <1>10 DEF s
  <2>2. PICK new : new = [NewSchema(f, c, x) EXCEPT !.said = <<t>>]
    OBVIOUS
  <2>3. /\ new \in SchemaType /\ new.decls = {} /\ new.said = <<t>> /\ new.file = f
        /\ new.result = "open" /\ \A y \in Name : new.imports[y] = 0
    <3>1. \A said \in Seq(Program) :
            LET r == [NewSchema(f, c, x) EXCEPT !.said = said] IN
            /\ r \in SchemaType /\ r.decls = {} /\ r.said = said /\ r.file = f
            /\ r.result = "open" /\ \A y \in Name : r.imports[y] = 0
      BY <1>2, <2>1, FreshSchema
    <3> QED BY <2>1, <2>2, <3>1
  <2>4. PICK call : call = Call(s, t, c, x)
    OBVIOUS
  <2>5. /\ call \in CallType /\ call.at = s /\ call.prog = t
        /\ call.phase = "declare" /\ call.n = 1 /\ call.step = "start" /\ call.look = Idle
        /\ call.item = 1 /\ call.k = 1 /\ call.got = {} /\ call.errs = {}
    BY <2>1, <2>4, NewCall
  <2>6. /\ schemas' = Append(schemas, new) /\ stack' = <<call>> \o stack
        /\ call.at = Len(schemas) + 1 /\ new.file \in File /\ text'[new.file] = t
    BY <1>2, <1>8, <1>10, <2>1, <2>2, <2>3, <2>4, <2>5
  <2> QED BY ZenonT(60), <1>4, <1>7, <2>1, <2>3, <2>5, <2>6, PushMeans
<1> QED BY SMTT(30), <1>3, <1>9, <1>10

LEMMA LookFollowsMeans == IInv /\ MInv /\ LookFollows => MInv'
<1> SUFFICES ASSUME IInv, MInv, LookFollows PROVE MInv'
  OBVIOUS
<1>1. Looking /\ Matches(Look.kind) = {}
  BY SMTT(60) DEF LookFollows
<1>2. PICK d \in Matches("schema") :
        \/ /\ Answer(NoSuchEntry)
           /\ UNCHANGED <<text, schemas, val>>
        \/ Enter(Look.at, d.value)
        \/ /\ Visible(d) /\ schemas[Look.at].imports[d.value] # 0
           /\ Answer(IF Look.i = Len(Look.path) THEN NoSuchEntry
                     ELSE [Look EXCEPT !.at = schemas[@].imports[d.value], !.i = @ + 1])
           /\ UNCHANGED <<text, schemas, val>>
  BY ZenonT(60) DEF LookFollows
<1>3. d \in Decl /\ d.kind = "schema" /\ d.value \in Name
  BY <1>1, LookFacts, DeclFields
<1>4. CASE Answer(NoSuchEntry) /\ UNCHANGED <<text, schemas, val>>
  BY <1>1, <1>4, AnswerNoEntry
<1>5. CASE Enter(Look.at, d.value)
  BY SMTT(30), <1>1, <1>3, <1>5, LookFacts, EnterMeans
<1>6. CASE /\ Visible(d) /\ schemas[Look.at].imports[d.value] # 0 /\ Look.i # Len(Look.path)
           /\ Answer([Look EXCEPT !.at = schemas[@].imports[d.value], !.i = @ + 1])
           /\ UNCHANGED <<text, schemas, val>>
  <2>1. PICK to : to = schemas[Look.at].imports[d.value]
    OBVIOUS
  <2>2. Answer([Look EXCEPT !.at = to, !.i = Look.i + 1]) /\ to # 0
    BY <1>6, <2>1
  <2> QED BY <1>1, <1>2, <1>6, <2>1, <2>2, LookGoesOn
<1> QED BY <1>2, <1>4, <1>5, <1>6

-------------------------------------------------------------------------------
(* The declarations of a statement.                                                         *)
LEMMA AddsMeans ==
  ASSUME IInv, MInv, At("declare"), NEW got \in SUBSET EntryType, Adds(got), Top.look.st = "idle",
         UNCHANGED <<text, schemas, val>>, Imported(Top.at, Stmt), got # {} \/ Stmt.op # "def",
         \A e \in got : As(Stmt, e) \in Makes(Top.at, Stmt),
         \A m \in Makes(Top.at, Stmt) : \E e \in got : As(Stmt, e) = m
  PROVE MInv'
<1>1. stack # <<>> /\ Top.phase = "declare" /\ Top.n <= Len(Top.prog) /\ Top \in CallType
      /\ Top.n \in Nat
  BY TopFacts, CallFields DEF At
<1>2. PICK f : f = [Top EXCEPT !.step = "add", !.got = got]
  OBVIOUS
<1>3. /\ f \in CallType /\ f.at = Top.at /\ f.prog = Top.prog /\ f.errs = Top.errs
      /\ f.phase = Top.phase /\ f.step = "add" /\ f.look = Top.look /\ f.n = Top.n /\ f.got = got
  BY <1>1, <1>2 DEF CallType
<1>4. Becomes(f)
  BY <1>2 DEF Adds
<1>5. Moves(f) /\ ~GoesTo(f)
  BY <1>1, <1>3 DEF Moves, GoesTo
<1>6. Collects(f)
  BY <1>3 DEF Collects, Stmt
<1>7. Fits(f)
  BY <1>1, <1>3, <1>6 DEF Fits, Alone, Stmt
<1> QED BY <1>1, <1>3, <1>4, <1>5, <1>7, QuietStepMeans

LEMMA DeclareDefMeans == IInv /\ MInv /\ DeclareDef => MInv'
<1> SUFFICES ASSUME IInv, MInv, DeclareDef PROVE MInv'
  OBVIOUS
<1>1. At("declare") /\ Top.step = "start" /\ Stmt.op = "def" /\ UNCHANGED <<text, schemas, val>>
  BY DEF DeclareDef
<1>2. Stmt.kind \in {"type", "expr"} /\ Stmt.name \in Name /\ Stmt.extern \in BOOLEAN
  BY <1>1, StartFacts, StmtFacts, DefFields
<1>3. PICK v : v = [at |-> Top.at, kind |-> Stmt.kind, name |-> Stmt.name]
  OBVIOUS
<1>4. v \in Cell
  BY <1>1, <1>2, <1>3, StartFacts DEF Cell
<1>5. PICK e : e = Entry(Stmt.kind, Stmt.name, Stmt.extern, v, 1)
  OBVIOUS
<1>6. e \in EntryType
  <2>1. 1 \in Nat
    OBVIOUS
  <2> QED BY <1>2, <1>4, <1>5, <2>1, EntryOfDef
<1>7. Adds({e})
  BY <1>3, <1>5 DEF DeclareDef
<1>8. Top.look.st = "idle"
  BY <1>1, StartFacts
<1>9. Imported(Top.at, Stmt)
  BY <1>1 DEF Imported
<1>10. Makes(Top.at, Stmt) = {As(Stmt, e)}
  <2>1. e.kind = Stmt.kind /\ e.name = Stmt.name /\ e.value = OwnCellOf(Top.at, Stmt)
    BY <1>3, <1>5 DEF Entry, OwnCellOf
  <2> QED BY <1>1, <2>1 DEF Makes, As
<1> QED BY <1>1, <1>6, <1>7, <1>8, <1>9, <1>10, AddsMeans

LEMMA DeclareImportMeans == IInv /\ MInv /\ DeclareImport => MInv'
<1> SUFFICES ASSUME IInv, MInv, DeclareImport PROVE MInv'
  OBVIOUS
<1>1. /\ At("declare") /\ Top.step = "start" /\ Stmt.op = "import" /\ Top.look.st = "idle"
      /\ stack # <<>> /\ Top.n <= Len(Top.prog)
  BY StartFacts DEF DeclareImport
<1>2. Stmt.from \in Name /\ Stmt.list \in {"none", "star", "items"} /\ Stmt.items \in Seq(Name)
  BY <1>1, StartFacts, StmtFacts, ImportFields
<1>c. PICK c : c = Here.imports[Stmt.from]
  OBVIOUS
<1>3. CASE Enter(Top.at, Stmt.from)
  <2>1. Top.at \in Top.at..Len(schemas)
    BY <1>1, StartFacts
  <2> QED BY <1>1, <1>2, <1>3, <2>1, StartFacts, EnterMeans
<1>4. CASE Fail /\ UNCHANGED <<text, schemas, val>>
  BY <1>1, <1>4, FailMeans
<1>5. CASE c # 0 /\ UNCHANGED <<text, schemas, val>> /\ Stmt.list = "none"
           /\ Adds({Entry("schema", Stmt.from, FALSE, Stmt.from, 1)})
  <2>1. PICK e : e = Entry("schema", Stmt.from, FALSE, Stmt.from, 1)
    OBVIOUS
  <2>2. e \in EntryType
    <3>1. 1 \in Nat
      OBVIOUS
    <3> QED BY <1>2, <2>1, <3>1, EntryOfSchema
  <2>3. Imported(Top.at, Stmt)
    BY <1>5, <1>c DEF Imported, Here
  <2>4. Makes(Top.at, Stmt) = {As(Stmt, e)}
    <3>1. e.kind = "schema" /\ e.name = Stmt.from /\ e.value = Stmt.from
      BY <2>1 DEF Entry
    <3> QED BY <1>1, <1>5, <3>1 DEF Makes, As
  <2> QED BY <1>1, <1>5, <2>1, <2>2, <2>3, <2>4, AddsMeans
<1>6. CASE c # 0 /\ UNCHANGED <<text, schemas, val>> /\ Stmt.list = "star"
           /\ Adds({Entry(d.kind, d.name, FALSE, d.value, 1) :
                      d \in {e \in schemas[c].decls : e.public}})
  <2>1. c \in 1..Len(schemas)
    BY <1>1, <1>2, <1>6, <1>c, StartFacts, SchemaFacts DEF Here, IInv, TypeOK
  <2>2. ASSUME NEW d \in schemas[c].decls PROVE Entry(d.kind, d.name, FALSE, d.value, 1) \in EntryType
    <3>1. d \in Decl
      BY <2>1, SchemaFacts
    <3>2. 1 \in Nat /\ FALSE \in BOOLEAN
      OBVIOUS
    <3>3. CASE d.kind = "schema"
      BY <3>1, <3>2, <3>3, DeclFields, EntryOfSchema
    <3>4. CASE d.kind # "schema"
      BY ZenonT(60), <3>1, <3>2, <3>4, DeclFields, EntryOfDef
    <3> QED BY <3>3, <3>4
  <2>3. PICK got : got = {Entry(d.kind, d.name, FALSE, d.value, 1) :
                            d \in {e \in schemas[c].decls : e.public}}
    OBVIOUS
  <2>4. got \in SUBSET EntryType /\ Adds(got)
    BY <1>6, <2>2, <2>3
  <2>5. Imported(Top.at, Stmt)
    BY <1>6, <1>c DEF Imported, Here
  <2>6. Makes(Top.at, Stmt) = {As(Stmt, d) : d \in {e \in schemas[c].decls : e.public}}
    BY <1>1, <1>6, <1>c DEF Makes, Listed, Here
  <2>7. \A d : As(Stmt, Entry(d.kind, d.name, FALSE, d.value, 1)) = As(Stmt, d)
    BY DEF As, Entry
  <2>8. ASSUME NEW e \in got PROVE As(Stmt, e) \in Makes(Top.at, Stmt)
    <3>1. PICK d \in schemas[c].decls :
            d.public /\ e = Entry(d.kind, d.name, FALSE, d.value, 1)
      BY <2>3
    <3>2. As(Stmt, e) = As(Stmt, d)
      BY <2>7, <3>1
    <3> QED BY <2>6, <3>1, <3>2
  <2>9. ASSUME NEW m \in Makes(Top.at, Stmt) PROVE \E e \in got : As(Stmt, e) = m
    <3>1. PICK d \in schemas[c].decls : d.public /\ m = As(Stmt, d)
      BY <2>6
    <3>2. PICK e : e = Entry(d.kind, d.name, FALSE, d.value, 1)
      OBVIOUS
    <3>3. e \in got
      BY <2>3, <3>1, <3>2
    <3>4. As(Stmt, e) = m
      BY <2>7, <3>1, <3>2
    <3> QED BY <3>3, <3>4
  <2> QED BY SMTT(30), <1>1, <1>6, <2>4, <2>5, <2>8, <2>9, AddsMeans
<1>7. CASE c # 0 /\ UNCHANGED <<text, schemas, val>> /\ Stmt.list = "items"
           /\ Becomes([Top EXCEPT !.step = "items"])
  <2>1. PICK f : f = [Top EXCEPT !.step = "items"]
    OBVIOUS
  <2>2. /\ f \in CallType /\ f.at = Top.at /\ f.prog = Top.prog /\ f.errs = Top.errs
        /\ f.phase = Top.phase /\ f.step = "items" /\ f.look = Top.look /\ f.n = Top.n
        /\ f.got = Top.got /\ f.item = Top.item /\ f.k = Top.k
    BY SMTT(60), <1>1, <2>1, StartFacts DEF CallType
  <2>3. Becomes(f)
    BY <1>7, <2>1
  <2>4. Moves(f) /\ ~GoesTo(f)
    <3>1. Top.n \in Nat
      BY <1>1, StartFacts
    <3> QED BY <2>2, <3>1 DEF Moves, GoesTo
  <2>5. Top.item = 1 /\ Top.k = 1 /\ Top.got = {} /\ Top.phase = "declare"
    BY <1>1, TopOngoing, StartFacts DEF MInv, Collected
  <2>6. Collects(f)
    <3>1. \A i \in 1..Len(Stmt.items), k \in 1..3 : ~(i < 1 \/ (i = 1 /\ k < 1))
      BY <1>2
    <3> QED BY <1>7, <2>2, <2>5, <3>1 DEF Collects, Stmt
  <2>7. Fits(f)
    BY <1>1, <2>2, <2>5, <2>6 DEF Fits, Alone
  <2> QED BY <1>1, <1>7, <2>2, <2>3, <2>4, <2>7, QuietStepMeans
<1>8. \/ Enter(Top.at, Stmt.from)
      \/ Fail /\ UNCHANGED <<text, schemas, val>>
      \/ /\ c # 0 /\ UNCHANGED <<text, schemas, val>>
         /\ CASE Stmt.list = "none" -> Adds({Entry("schema", Stmt.from, FALSE, Stmt.from, 1)})
              [] Stmt.list = "star" -> Adds({Entry(d.kind, d.name, FALSE, d.value, 1) :
                                               d \in {e \in schemas[c].decls : e.public}})
              [] Stmt.list = "items" -> Becomes([Top EXCEPT !.step = "items"])
  BY <1>c DEF DeclareImport
<1> QED BY <1>2, <1>3, <1>4, <1>5, <1>6, <1>7, <1>8


LEMMA LookForItemMeans == IInv /\ MInv /\ LookForItem => MInv'
<1> SUFFICES ASSUME IInv, MInv, LookForItem PROVE MInv'
  OBVIOUS
<1>1. /\ At("declare") /\ Top.step = "items" /\ Top.item <= Len(Stmt.items)
      /\ Answer(Going(Kinds[Top.k], <<Item>>, FALSE, Here.imports[Stmt.from]))
      /\ UNCHANGED <<text, schemas, val>> /\ stack # <<>> /\ Top.phase = "declare"
  BY DEF LookForItem, AtItem, At
<1>2. /\ Item \in Name /\ Top.k \in 1..3 /\ Here.imports[Stmt.from] \in 1..MaxSchema
  BY <1>1, ItemFacts
<1>3. PICK p : p = <<Item>>
  OBVIOUS
<1>4. p \in Seq(Name) /\ p # <<>>
  BY <1>2, <1>3
<1>5. PICK k \in Kind, c \in 1..MaxSchema : k = Kinds[Top.k] /\ c = Here.imports[Stmt.from]
  BY <1>2 DEF Kinds, Kind
<1>6. PICK a : a = Going(k, p, FALSE, c)
  OBVIOUS
<1>7. a \in LookType
  <2>1. \A g \in BOOLEAN : LET r == Going(k, p, g, c) IN
          r \in LookType /\ r.st = "going" /\ r.kind = k /\ r.at = c /\ r.i \in 1..Len(r.path)
    BY <1>4, GoingType
  <2>2. FALSE \in BOOLEAN
    OBVIOUS
  <2>3. LET r == Going(k, p, FALSE, c) IN
          r \in LookType /\ r.st = "going" /\ r.kind = k /\ r.at = c /\ r.i \in 1..Len(r.path)
    BY <2>1, <2>2, Zenon
  <2> QED BY <1>6, <2>3
<1>8. a.st = "going" /\ a.kind = k /\ a.path = p /\ ~a.global /\ a.at = c /\ a.i = 1
  <2>1. a.st = "going" /\ a.kind = k /\ a.path = p /\ a.global = FALSE /\ a.at = c /\ a.i = 1
    BY <1>6 DEF Going
  <2> QED BY <2>1
<1>9. Answer(a)
  BY <1>1, <1>3, <1>5, <1>6
<1>10. ASSUME NEW f \in CallType, f.at = Top.at, f.prog = Top.prog, f.phase = Top.phase,
              f.n = Top.n, f.k = Top.k, f.item = Top.item, f.look = a
       PROVE LooksForItem(f)
  BY <1>3, <1>5, <1>8, <1>10 DEF LooksForItem, Item, Stmt, Here
<1> QED BY <1>1, <1>7, <1>9, <1>10, AnsweredMeans

LEMMA ImportItemMeans == IInv /\ MInv /\ ImportItem => MInv'
<1> SUFFICES ASSUME IInv, MInv, ImportItem PROVE MInv'
  OBVIOUS
<1> DEFINE found == Top.found \/ Look.st = "found"
           got == IF Look.st = "found"
                  THEN {Entry(Look.kind, Item, FALSE, Look.value, Top.item)} ELSE {}
           next == [Top EXCEPT !.got = @ \cup got, !.found = found, !.look = Idle,
                               !.k = IF @ = 3 THEN 1 ELSE @ + 1,
                               !.item = IF Top.k = 3 THEN @ + 1 ELSE @]
<1>1. /\ At("declare") /\ Top.step = "items" /\ Top.item <= Len(Stmt.items)
      /\ UNCHANGED <<text, schemas, val>> /\ Look.st \in {"found", "error"}
      /\ Fail \/ Becomes(next)
  BY DEF ImportItem, AtItem
<1>2. /\ Stmt.op = "import" /\ Item \in Name /\ Top.item \in Nat \ {0} /\ Top.k \in 1..3
      /\ Top.found \in BOOLEAN /\ Stmt.items \in Seq(Name) /\ Stmt.from \in Name
      /\ stack # <<>> /\ Top.phase = "declare" /\ Top.n <= Len(Top.prog)
  BY <1>1, ItemFacts, StartFacts
<1>3. CASE Fail
  BY <1>1, <1>2, <1>3, FailMeans
<1>4. CASE Becomes(next)
  <2>1. Look \in LookType
    BY <1>1, StartFacts DEF Look
  <2>2. got \in SUBSET EntryType
    <3>1. CASE Look.st = "found"
      <4>1. Entry(Look.kind, Item, FALSE, Look.value, Top.item) \in EntryType
        <5>1. FALSE \in BOOLEAN /\ Top.item \in Nat
          BY <1>2
        <5>2. CASE Look.kind = "schema"
          BY <1>2, <2>1, <3>1, <5>1, <5>2, FoundFields, EntryOfSchema
        <5>3. CASE Look.kind # "schema"
          BY ZenonT(60), <1>2, <2>1, <3>1, <5>1, <5>3, FoundFields, EntryOfDef
        <5> QED BY <5>2, <5>3
      <4> QED BY <3>1, <4>1
    <3> QED BY <3>1
  <2>3. found \in BOOLEAN
    BY <1>2
  <2>4. PICK k \in 1..3 : k = IF Top.k = 3 THEN 1 ELSE Top.k + 1
    BY <1>2
  <2>5. PICK item \in Nat \ {0} : item = IF Top.k = 3 THEN Top.item + 1 ELSE Top.item
    BY <1>2
  <2>6. PICK more : more = got
    OBVIOUS
  <2>7. PICK f : f = [Top EXCEPT !.got = @ \cup more, !.found = found, !.look = Idle,
                                 !.k = k, !.item = item]
    OBVIOUS
  <2>8. Becomes(f)
    BY <1>4, <2>4, <2>5, <2>6, <2>7
  <2>9. Idle \in LookType /\ Idle.st = "idle"
    BY DEF Idle, LookType
  <2>10. Top.got \cup more \in SUBSET EntryType
    BY <1>1, <2>2, <2>6, StartFacts
  <2>11. /\ f \in CallType /\ f.at = Top.at /\ f.prog = Top.prog /\ f.errs = Top.errs
         /\ f.phase = Top.phase /\ f.step = Top.step /\ f.look = Idle /\ f.n = Top.n
         /\ f.got = Top.got \cup more /\ f.k = k /\ f.item = item
    <3>1. Top \in CallType
      BY <1>1, StartFacts
    <3> HIDE DEF next, found, got
    <3> QED BY ZenonT(60), <2>3, <2>4, <2>5, <2>7, <2>9, <2>10, <3>1 DEF CallType
  <2>12. PICK c, s, x, K, I : /\ c = Top.at /\ s = Stmt /\ x = Item /\ K = Top.k /\ I = Top.item
    OBVIOUS
  <2>13. /\ Collects(Top) /\ LooksForItem(Top) /\ c \in 1..Len(schemas)
    BY <1>1, <1>2, <2>12, TopOngoing, TopFacts DEF MInv, Collected, Look
  <2>14. PICK b : b = schemas[c].imports[s.from]
    OBVIOUS
  <2>15. b # 0 /\ b \in 1..Len(schemas)
    <3>1. Here.imports[Stmt.from] \in Top.at..Len(schemas) /\ Here.imports[Stmt.from] \in 1..MaxSchema
      BY <1>1, ItemFacts
    <3> QED BY <2>12, <2>13, <2>14, <3>1 DEF Here
  <2>16. Source(Top) = schemas[b].decls /\ Source(f) = schemas[b].decls
    BY <2>11, <2>12, <2>14 DEF Source, Stmt
  <2>17. /\ s.op # "def" /\ s.list = "items" /\ s.items[I] = x /\ I \in 1..Len(s.items)
         /\ s = Top.prog[Top.n]
    <3>1. s.list = "items"
      BY SMTT(30), <1>1, <2>12, <2>13 DEF Collects, Stmt
    <3> QED BY <1>1, <1>2, <2>12, <3>1 DEF Item, Stmt
  <2>18. \A d : d \in schemas[b].decls /\ d.name = x => As(s, d) \in Makes(c, s)
    <3>1. \A d : d.name = x => Listed(s, d.name, d.public)
      BY <2>17 DEF Listed
    <3> QED BY <2>14, <2>15, <2>17, <3>1 DEF Makes
  <2>19. Look.st = "found" =>
           \E d \in schemas[b].decls : /\ d.kind = Kinds[K] /\ d.name = x /\ d.value = Look.value
                                       /\ Look.kind = Kinds[K]
    BY <2>12, <2>13, <2>16, <2>17 DEF LooksForItem, Look
  <2>20. Look.st = "error" => ~\E d \in schemas[b].decls : d.kind = Kinds[K] /\ d.name = x
    BY <2>12, <2>13, <2>16, <2>17 DEF LooksForItem, Look
  <2>21. \A d \in schemas[b].decls : d.kind = Kinds[K] /\ d.name = x =>
           \E e \in more : As(s, e) = As(s, d)
    <3>1. ASSUME NEW d \in schemas[b].decls, d.kind = Kinds[K], d.name = x
          PROVE \E e \in more : As(s, e) = As(s, d)
      <4>1. Look.st = "found"
        BY <1>1, <2>20, <3>1
      <4>2. PICK o \in schemas[b].decls : /\ o.kind = Kinds[K] /\ o.name = x /\ o.value = Look.value
                                          /\ Look.kind = Kinds[K]
        BY <2>19, <4>1
      <4>3. o = d
        BY <2>15, <3>1, <4>2 DEF MInv, DeclsFit
      <4>4. PICK e : e = Entry(Look.kind, Item, FALSE, Look.value, Top.item)
        OBVIOUS
      <4>5. e \in more /\ e.kind = Look.kind /\ e.name = x /\ e.value = Look.value
        BY <2>6, <2>12, <4>1, <4>4 DEF Entry
      <4> QED BY <4>2, <4>3, <4>5 DEF As
    <3> QED BY <3>1
  <2>22. \A e \in more : As(s, e) \in Makes(c, s)
    <3>1. ASSUME NEW e \in more PROVE As(s, e) \in Makes(c, s)
      <4>1. Look.st = "found" /\ e = Entry(Look.kind, Item, FALSE, Look.value, Top.item)
        BY <2>6
      <4>2. PICK o \in schemas[b].decls : /\ o.kind = Kinds[K] /\ o.name = x /\ o.value = Look.value
                                          /\ Look.kind = Kinds[K]
        BY <2>19, <4>1
      <4>3. e.kind = o.kind /\ e.name = o.name /\ e.value = o.value
        BY <2>12, <4>1, <4>2 DEF Entry
      <4>4. As(s, e) = As(s, o)
        BY <4>3 DEF As
      <4> QED BY <2>18, <4>2, <4>4
    <3> QED BY <3>1
  <2> HIDE DEF got, found, next
  <2>23. /\ \A e \in Top.got : As(s, e) \in Makes(c, s)
         /\ \A i \in 1..Len(s.items), l \in 1..3 :
              i < I \/ (i = I /\ l < K) =>
                \A d \in schemas[b].decls : d.kind = Kinds[l] /\ d.name = s.items[i] =>
                    \E e \in Top.got : As(s, e) = As(s, d)
    BY <1>1, <2>12, <2>13, <2>16, <2>17 DEF Collects
  <2>24. \A i \in 1..Len(s.items), l \in 1..3 :
           i < item \/ (i = item /\ l < k) => i < I \/ (i = I /\ l < K) \/ (i = I /\ l = K)
    <3>1. I \in Nat /\ K \in 1..3 /\ Len(s.items) \in Nat
      BY <1>2, <2>12
    <3>2. \/ K = 3 /\ item = I + 1 /\ k = 1
          \/ K \in 1..2 /\ item = I /\ k = K + 1
      BY <2>4, <2>5, <2>12, <3>1
    <3> QED BY <3>1, <3>2
  <2>25. ASSUME NEW i \in 1..Len(s.items), NEW l \in 1..3, i < item \/ (i = item /\ l < k),
                NEW d \in schemas[b].decls, d.kind = Kinds[l], d.name = s.items[i]
         PROVE \E e \in f.got : As(s, e) = As(s, d)
    <3>1. CASE i < I \/ (i = I /\ l < K)
      <4>1. \E e \in Top.got : As(s, e) = As(s, d)
        BY <2>23, <2>25, <3>1
      <4> QED BY <2>11, <4>1
    <3>2. CASE i = I /\ l = K
      <4>1. \E e \in more : As(s, e) = As(s, d)
        BY <2>17, <2>21, <2>25, <3>2
      <4> QED BY <2>11, <4>1
    <3> QED BY <2>24, <2>25, <3>1, <3>2
  <2>26. Collects(f)
    <3>1. \A e \in f.got : As(s, e) \in Makes(c, s)
      BY <2>11, <2>22, <2>23
    <3>2. f.step = "items" /\ f.prog[f.n] = s /\ f.at = c /\ f.item = item /\ f.k = k
      BY <1>1, <2>11, <2>12, <2>17
    <3> QED BY <2>16, <2>17, <2>25, <3>1, <3>2 DEF Collects
  <2>27. Fits(f)
    BY <1>1, <1>2, <2>9, <2>11, <2>26 DEF Fits, Alone
  <2>28. Moves(f) /\ ~GoesTo(f)
    <3>1. Top.n \in Nat
      BY <1>1, StartFacts
    <3> QED BY <2>11, <3>1 DEF Moves, GoesTo
  <2> QED BY <1>1, <1>2, <2>8, <2>11, <2>27, <2>28, QuietStepMeans
<1> QED BY <1>1, <1>3, <1>4

LEMMA ItemsDoneMeans == IInv /\ MInv /\ ItemsDone => MInv'
<1> SUFFICES ASSUME IInv, MInv, ItemsDone PROVE MInv'
  OBVIOUS
<1>1. /\ At("declare") /\ Top.step = "items" /\ Top.item > Len(Stmt.items)
      /\ Adds(Top.got) /\ UNCHANGED <<text, schemas, val>>
  BY DEF ItemsDone
<1>2. Stmt.op = "import" /\ Top.item \in Nat /\ Stmt.items \in Seq(Name) /\ stack # <<>>
      /\ Top.phase = "declare" /\ Stmt.from \in Name
  BY <1>1, ItemFacts, StartFacts
<1>3. Top.look.st = "idle"
  BY <1>1, <1>2, StartFacts
<1>4. PICK c, s : c = Top.at /\ s = Stmt
  OBVIOUS
<1>5. Collects(Top) /\ c \in 1..Len(schemas)
  BY <1>1, <1>2, <1>4, TopOngoing, TopFacts DEF MInv, Collected
<1>6. PICK b : b = schemas[c].imports[s.from]
  OBVIOUS
<1>7. b # 0 /\ b \in 1..Len(schemas)
  <2>1. Here.imports[Stmt.from] \in Top.at..Len(schemas) /\ Here.imports[Stmt.from] \in 1..MaxSchema
    BY SMTT(30), <1>1, ItemFacts
  <2> QED BY <1>4, <1>5, <1>6, <2>1 DEF Here
<1>8. s.list = "items" /\ Source(Top) = schemas[b].decls /\ Imported(c, s)
  BY <1>1, <1>4, <1>5, <1>6, <1>7 DEF Collects, Source, Stmt, Imported
<1>9. \A e \in Top.got : As(s, e) \in Makes(c, s)
  BY <1>4, <1>5 DEF Collects, Stmt
<1>10. ASSUME NEW m \in Makes(c, s) PROVE \E e \in Top.got : As(s, e) = m
  <2>1. PICK d \in schemas[b].decls : m = As(s, d) /\ Listed(s, d.name, d.public)
    BY <1>2, <1>4, <1>6, <1>7, <1>8 DEF Makes
  <2>2. PICK n \in 1..Len(s.items) : s.items[n] = d.name
    BY <1>8, <2>1 DEF Listed
  <2>3. d.kind \in Kind
    <3>1. d \in Decl
      BY <1>7, SchemaFacts
    <3> QED BY <3>1 DEF Decl, Kind
  <2>4. PICK k \in 1..3 : d.kind = Kinds[k]
    <3>1. Kinds[1] = "schema" /\ Kinds[2] = "type" /\ Kinds[3] = "expr"
      BY DEF Kinds
    <3> QED BY <2>3, <3>1 DEF Kind
  <2>5. n < Top.item
    BY <1>1, <1>2, <1>4
  <2> QED BY SMTT(30), <1>1, <1>4, <1>5, <1>8, <2>1, <2>2, <2>4, <2>5 DEF Collects, Stmt
<1> QED BY <1>1, <1>2, <1>3, <1>4, <1>8, <1>9, <1>10, StartFacts, AddsMeans

LEMMA DeclaredMeans == IInv /\ MInv /\ Declared => MInv'
<1> SUFFICES ASSUME IInv, MInv, Declared PROVE MInv'
  OBVIOUS
<1>1. /\ At("declare") /\ Top.step = "add" /\ Top.got = {} /\ NextStatement({})
      /\ UNCHANGED <<text, schemas, val>>
  BY DEF Declared, Succeed
<1>2. stack # <<>> /\ Top.phase = "declare" /\ Top.n <= Len(Top.prog)
  BY <1>1, StartFacts
<1>3. Collects(Top)
  BY <1>1, <1>2, TopOngoing DEF MInv, Collected
<1>4. HasAdded
  BY <1>1, <1>3 DEF Collects, Keeps, Stmt, HasAdded
<1>5. {} \in SUBSET Nat
  OBVIOUS
<1> QED BY <1>1, <1>2, <1>4, <1>5, NextMeans

-------------------------------------------------------------------------------
(* The definitions.                                                                         *)
LEMMA CompileImportMeans == IInv /\ MInv /\ CompileImport => MInv'
<1> SUFFICES ASSUME IInv, MInv, CompileImport PROVE MInv'
  OBVIOUS
<1>1. /\ stack # <<>> /\ Top.phase = "compile" /\ Top.n <= Len(Top.prog) /\ Stmt.op = "import"
      /\ NextStatement({}) /\ UNCHANGED <<text, schemas, val>>
  BY DEF CompileImport, At, Succeed
<1>2. {} \in SUBSET Nat
  OBVIOUS
<1> QED BY <1>1, <1>2, NextMeans

LEMMA LookForPathMeans == IInv /\ MInv /\ LookForPath => MInv'
<1> SUFFICES ASSUME IInv, MInv, LookForPath PROVE MInv'
  OBVIOUS
<1>1. /\ stack # <<>> /\ Top.phase = "compile" /\ Top.n <= Len(Top.prog)
      /\ Stmt.op = "def" /\ Stmt.path # <<>>
      /\ Answer(Going(Stmt.kind, Stmt.path, TRUE, Top.at))
      /\ UNCHANGED <<text, schemas, val>>
  BY DEF LookForPath, At
<1>2. PICK k \in Kind, p \in Seq(Name), c \in 1..MaxSchema :
        k = Stmt.kind /\ p = Stmt.path /\ c = Top.at
  <2>1. Stmt.kind \in Kind /\ Stmt.path \in Seq(Name)
    BY <1>1, StmtFacts, DefFields DEF Kind
  <2>2. Top.at \in 1..MaxSchema
    BY <1>1, TopFacts, CallFields
  <2> QED BY <2>1, <2>2
<1>3. PICK a : a = Going(k, p, TRUE, c)
  OBVIOUS
<1>4. a \in LookType
  <2>1. \A g \in BOOLEAN : LET r == Going(k, p, g, c) IN
          r \in LookType /\ r.st = "going" /\ r.kind = k /\ r.at = c /\ r.i \in 1..Len(r.path)
    BY <1>1, <1>2, GoingType
  <2>2. TRUE \in BOOLEAN
    OBVIOUS
  <2>3. LET r == Going(k, p, TRUE, c) IN
          r \in LookType /\ r.st = "going" /\ r.kind = k /\ r.at = c /\ r.i \in 1..Len(r.path)
    BY <2>1, <2>2, Zenon
  <2> QED BY <1>3, <2>3
<1>5. a.st = "going" /\ a.kind = k /\ a.path = p /\ a.global /\ a.at = c /\ a.i = 1
  <2>1. a.st = "going" /\ a.kind = k /\ a.path = p /\ a.global = TRUE /\ a.at = c /\ a.i = 1
    BY <1>3 DEF Going
  <2> QED BY <2>1
<1>6. Answer(a)
  BY <1>1, <1>2, <1>3
<1>7. c \in 1..Len(schemas)
  BY <1>1, <1>2, TopFacts
<1>8. \A j : Leads(c, j, k, p, 1, c)
  <2>1. PICK w : w = [m \in 1..1 |-> c]
    OBVIOUS
  <2>2. w \in [1..1 -> 1..Len(schemas)] /\ w[1] = c
    BY <1>7, <2>1
  <2>3. \A m : ~(m \in 1..1 - 1)
    OBVIOUS
  <2> QED BY <2>2, <2>3 DEF Leads
<1>9. ASSUME NEW f \in CallType, f.at = Top.at, f.prog = Top.prog, f.phase = Top.phase,
             f.n = Top.n, f.k = Top.k, f.item = Top.item, f.look = a
      PROVE LooksForPath(f)
  BY <1>1, <1>2, <1>5, <1>8, <1>9 DEF LooksForPath, Stmt
<1> QED BY <1>1, <1>4, <1>6, <1>9, AnsweredMeans

LEMMA NextPhaseMeans ==
  ASSUME IInv, MInv, NEW from, NEW to, NextPhase(from, to),
         \/ from = "declare" /\ to = "compile"
         \/ from = "compile" /\ to = "gather"
  PROVE MInv'
<1>1. /\ stack # <<>> /\ Top.phase = from /\ Top.n > Len(Top.prog)
      /\ Becomes([Top EXCEPT !.phase = to, !.n = 1]) /\ UNCHANGED <<text, schemas, val>>
  BY DEF NextPhase
<1>2. PICK f : f = [Top EXCEPT !.phase = to, !.n = 1]
  OBVIOUS
<1>3. /\ f \in CallType /\ f.at = Top.at /\ f.prog = Top.prog /\ f.errs = Top.errs
      /\ f.phase = to /\ f.look = Top.look /\ f.n = 1
  <2>1. 1 \in Nat \ {0} /\ to \in {"declare", "compile", "gather"} /\ Top \in CallType
    BY <1>1, TopFacts
  <2> QED BY <1>2, <2>1 DEF CallType
<1>4. Becomes(f)
  BY <1>1, <1>2
<1>5. Moves(f) /\ ~GoesTo(f)
  BY <1>1, <1>3 DEF Moves, GoesTo
<1>6. Fits(f)
  <2>1. CASE to = "gather"
    BY <1>3, <2>1 DEF Fits
  <2>2. CASE to = "compile"
    <3>1. from = "declare" /\ Top.look \in LookType /\ Top.n \in Nat /\ Top.prog \in Program
      BY <1>1, <2>2, TopFacts, CallFields
    <3>2. Top.look.st = "idle"
      BY <1>1, <3>1, TopFacts DEF LookingAt, Program
    <3> QED BY <1>3, <2>2, <3>2 DEF Fits, LooksForPath
  <2> QED BY <2>1, <2>2
<1> QED BY <1>1, <1>3, <1>4, <1>5, <1>6, QuietStepMeans


LEMMA AddDeclMeans == IInv /\ MInv /\ AddDecl => MInv'
<1> SUFFICES ASSUME IInv, MInv, AddDecl PROVE MInv'
  OBVIOUS
<1>1. /\ At("declare") /\ Top.step = "add" /\ UNCHANGED <<text, val>> /\ Top.look.st = "idle"
      /\ stack # <<>> /\ Top.phase = "declare" /\ Top.n <= Len(Top.prog) /\ Top \in CallType
      /\ Top.n \in Nat
  BY StartFacts DEF AddDecl
<1>2. PICK e \in Top.got :
        \/ Taken(e) /\ Fail /\ UNCHANGED schemas
        \/ /\ ~Taken(e)
           /\ schemas' = [schemas EXCEPT ![Top.at].decls = @ \cup {Added(e)}]
           /\ Becomes([Top EXCEPT !.got = @ \ {e}])
  BY DEF AddDecl
<1>3. CASE Taken(e) /\ Fail /\ UNCHANGED schemas
  BY <1>1, <1>3, FailMeans
<1>4. CASE /\ ~Taken(e)
           /\ schemas' = [schemas EXCEPT ![Top.at].decls = @ \cup {Added(e)}]
           /\ Becomes([Top EXCEPT !.got = @ \ {e}])
  <2>p. Parts /\ Solved /\ Grounded
    BY DEF MInv, Parts
  <2>1. PICK d : d = Added(e)
    OBVIOUS
  <2>2. e \in EntryType /\ Stmt.export \in BOOLEAN
    BY <1>1, StartFacts, StmtFacts, DefFields, ImportFields DEF Def, Import
  <2>3. d \in Decl /\ d.kind = e.kind /\ d.name = e.name
    BY <2>1, <2>2, EntryFields DEF Added
  <2>4. PICK s \in 1..Len(schemas) : s = Top.at
    BY <1>1, StartFacts
  <2>5. PICK q : q = [schemas[s] EXCEPT !.decls = @ \cup {d}]
    OBVIOUS
  <2>6. PICK r \in SchemaType, ds \in SUBSET Decl : r = schemas[s] /\ ds = r.decls \cup {d}
    BY <2>3, SchemaFacts
  <2>7. /\ q \in SchemaType /\ q.file = schemas[s].file
        /\ q.imports = schemas[s].imports /\ q.said = schemas[s].said
        /\ q.result = schemas[s].result /\ q.decls = schemas[s].decls \cup {d}
    <3>1. q = [r EXCEPT !.decls = ds]
      BY <2>5, <2>6
    <3>2. /\ q \in SchemaType /\ q.file = r.file /\ q.said = r.said
          /\ q.imports = r.imports /\ q.result = r.result /\ q.decls = ds
      BY <3>1, MoreDecls
    <3> QED BY <2>6, <3>2
  <2>8. schemas' = [schemas EXCEPT ![s] = q]
    BY <1>4, <2>1, <2>4, <2>5
  <2>9. /\ Len(schemas') = Len(schemas) /\ schemas'[s] = q /\ Len(schemas) \in Nat
        /\ \A c \in 1..Len(schemas) : c # s => schemas'[c] = schemas[c]
    BY <2>7, <2>8 DEF IInv, TypeOK
  <2>10. ASSUME NEW c \in 1..Len(schemas)
         PROVE /\ schemas'[c].file = schemas[c].file /\ schemas'[c].said = schemas[c].said
               /\ schemas'[c].imports = schemas[c].imports /\ schemas'[c].result = schemas[c].result
               /\ schemas'[c].decls = IF c = s THEN schemas[c].decls \cup {d} ELSE schemas[c].decls
    BY <2>7, <2>9
  <2>11. PICK f : f = [Top EXCEPT !.got = @ \ {e}]
    OBVIOUS
  <2>12. /\ f \in CallType /\ f.at = s /\ f.prog = Top.prog /\ f.errs = Top.errs
         /\ f.phase = "declare" /\ f.step = "add" /\ f.look = Top.look /\ f.n = Top.n
         /\ f.got = Top.got \ {e}
    BY <1>1, <2>4, <2>11, StartFacts DEF CallType
  <2>13. Becomes(f)
    BY <1>4, <2>11
  <2>14. Moves(f) /\ ~GoesTo(f)
    BY <1>1, <2>4, <2>12 DEF Moves, GoesTo
  <2>15. /\ Top \in Ongoing /\ f \in Ongoing'
         /\ \A g \in Ongoing : g = Top \/ (g.at # s /\ g \in Ongoing')
         /\ \A g \in Ongoing' : g = f \/ (g.at # s /\ g \in Ongoing)
    BY <1>1, <2>4, <2>12, <2>13, TopOngoing
  <2>16. ASSUME NEW c \in 1..Len(schemas), Clean(c)' PROVE Clean(c)
    <3>1. schemas[c].result # "bad"
      BY <2>10, <2>16 DEF Clean
    <3>2. \A g \in Ongoing : g.at = c => g.errs = {}
      BY <2>4, <2>12, <2>15, <2>16 DEF Clean
    <3> QED BY <3>1, <3>2 DEF Clean
  <2>17. Errors => Errors'
    <3>1. ASSUME NEW c \in 1..Len(schemas), schemas[c].result = "bad" PROVE Errors'
      BY <2>9, <2>10, <3>1 DEF Errors
    <3>2. ASSUME NEW g \in Ongoing, g.errs # {} PROVE Errors'
      <4>1. \E o \in Ongoing' : o.errs # {}
        BY <2>12, <2>15, <3>2
      <4> QED BY <4>1 DEF Errors, Ongoing
    <3>3. (\E j \in 1..Len(stack) : stack[j].errs # {}) => \E g \in Ongoing : g.errs # {}
      BY DEF Ongoing
    <3> QED BY <3>1, <3>2, <3>3 DEF Errors
  <2>18. Frame
    <3>1. \A c \in 1..Len(schemas) : Len(schemas[c].said) \in Nat
      BY SaidFacts
    <3>2. \E i \in 1..Len(stack) : stack[i].at = s
      BY <2>4, <2>15 DEF Ongoing
    <3>3. \A c \in 1..Len(schemas) : (\A i \in 1..Len(stack) : stack[i].at # c) => schemas'[c].decls = schemas[c].decls
      BY <2>10, <3>2
    <3>4. Len(schemas') \in Nat /\ Len(schemas) <= Len(schemas')
      BY <2>9
    <3>5. ASSUME NEW c \in 1..Len(schemas)
          PROVE /\ schemas'[c].file = schemas[c].file
                /\ Len(schemas'[c].said) \in Nat /\ Len(schemas[c].said) <= Len(schemas'[c].said)
                /\ \A j \in 1..Len(schemas[c].said) : schemas'[c].said[j] = schemas[c].said[j]
                /\ \A x \in Name : schemas[c].imports[x] # 0 => schemas'[c].imports[x] = schemas[c].imports[x]
                /\ schemas[c].decls \subseteq schemas'[c].decls
      <4>1. /\ schemas'[c].file = schemas[c].file /\ schemas'[c].said = schemas[c].said
            /\ schemas'[c].imports = schemas[c].imports
        BY <2>10
      <4>2. schemas[c].decls \subseteq schemas'[c].decls
        BY <2>10
      <4> QED BY <3>1, <4>1, <4>2
    <3>6. UNCHANGED text
      BY <1>1
    <3> QED BY <2>17, <3>3, <3>4, <3>5, <3>6 DEF Frame
  <2>19. TextsSaid'
    <3>0. schemas'[1].file = Root
      <4>1. 1 \in 1..Len(schemas)
        BY DEF IInv, TypeOK
      <4> QED BY <2>10, <4>1 DEF MInv, TextsSaid
    <3>1. ASSUME NEW c \in 2..Len(schemas')
          PROVE /\ text'[schemas'[c].file] \notin {Missing, Broken, Unread}
                /\ schemas'[c].said = <<text'[schemas'[c].file]>>
      <4>1. c \in 1..Len(schemas) /\ c \in 2..Len(schemas)
        BY <2>9
      <4> QED BY <1>1, <2>10, <4>1 DEF MInv, TextsSaid
    <3>2. ASSUME NEW g \in Ongoing'
          PROVE /\ schemas'[g.at].said # <<>> /\ schemas'[g.at].result # "ok"
                /\ g.prog = schemas'[g.at].said[Len(schemas'[g.at].said)]
      <4>1. CASE g = f
        <5>1. /\ schemas[s].said # <<>> /\ Top.prog = schemas[s].said[Len(schemas[s].said)]
              /\ schemas[s].result # "ok"
          BY <2>4, <2>15 DEF MInv, TextsSaid
        <5> QED BY <2>10, <2>12, <4>1, <5>1
      <4>2. CASE g \in Ongoing
        BY <2>10, <4>2, OngoingFacts DEF MInv, TextsSaid
      <4> QED BY <2>15, <4>1, <4>2
    <3> QED BY <3>0, <3>1, <3>2 DEF TextsSaid
  <2>20. PICK t, j : t = Stmt /\ j = Len(schemas[s].said)
    OBVIOUS
  <2>21. /\ j \in 1..Len(schemas[s].said) /\ t \in Said(s, j) /\ t \in Import \cup Def
    BY <1>1, <2>4, <2>15, <2>20, WorksOn, StmtFacts DEF MInv, Stmt
  <2>22. /\ \A o \in Top.got : As(t, o) \in Makes(s, t)
         /\ Imported(s, t)
         /\ \A m \in Makes(s, t) :
              (\E o \in schemas[s].decls : Bare(o) = m) \/ \E o \in Top.got : As(t, o) = m
    BY <1>1, <2>4, <2>15, <2>20 DEF MInv, Collected, Collects, Stmt
  <2>23. Bare(d) = As(t, e) /\ Bare(d) \in Makes(s, t)
    <3>1. Bare(d) = As(t, e)
      BY <2>1, <2>20 DEF Bare, As, Added
    <3> QED BY <2>22, <3>1
  <2>24. DeclsFit'
    <3>1. /\ \A o \in schemas[s].decls : ~(o.kind = d.kind /\ o.name = d.name)
      BY <1>4, <2>3, <2>4 DEF Taken, Here
    <3>2. IF d.kind = "schema" THEN d.value = d.name ELSE d.value \in Cell /\ d.value.kind = d.kind
      <4>1. /\ Bare(d).kind = d.kind /\ Bare(d).value = d.value /\ Bare(d).name = d.name
        BY DEF Bare
      <4> QED BY <2>21, <2>23, <4>1, MakesKind DEF MInv
    <3>3. ASSUME NEW c \in 1..Len(schemas')
          PROVE /\ \A o, p \in schemas'[c].decls : o.kind = p.kind /\ o.name = p.name => o = p
                /\ \A o \in schemas'[c].decls :
                     IF o.kind = "schema" THEN o.value = o.name
                     ELSE o.value \in Cell /\ o.value.kind = o.kind
      <4>1. c \in 1..Len(schemas)
        BY <2>9
      <4>2. /\ \A o, p \in schemas[c].decls : o.kind = p.kind /\ o.name = p.name => o = p
            /\ \A o \in schemas[c].decls :
                 IF o.kind = "schema" THEN o.value = o.name
                 ELSE o.value \in Cell /\ o.value.kind = o.kind
        BY <4>1 DEF MInv, DeclsFit
      <4>3. CASE c # s
        BY <2>10, <4>1, <4>2, <4>3
      <4>4. CASE c = s
        <5>1. schemas'[c].decls = schemas[c].decls \cup {d}
          BY <2>10, <4>1, <4>4
        <5> QED BY <3>1, <3>2, <4>2, <4>4, <5>1
      <4> QED BY <4>3, <4>4
    <3> QED BY <3>3 DEF DeclsFit
  <2>25. ASSUME NEW c \in 1..Len(schemas'), NEW o \in schemas'[c].decls
         PROVE \/ c \in 1..Len(schemas) /\ o \in schemas[c].decls
               \/ \E i \in 1..Len(schemas'[c].said) : \E u \in Said(c, i)' : Bare(o) \in Makes(c, u)'
    <3>1. CASE c = s /\ o = d
      <4>1. j \in 1..Len(schemas'[s].said) /\ t \in Said(s, j)' /\ Bare(d) \in Makes(s, t)'
        BY <2>18, <2>21, <2>23, SaidStays, MakesGrow
      <4> QED BY <3>1, <4>1
    <3>2. CASE ~(c = s /\ o = d)
      BY <2>9, <2>10, <2>25, <3>2
    <3> QED BY <3>1, <3>2
  <2>26. ASSUME NEW c \in 1..Len(schemas), NEW i \in 1..Len(schemas[c].said)
         PROVE /\ \A u \in DeclaredIn(c, i)' : u \in DeclaredIn(c, i)
               /\ \A u \in CompiledIn(c, i)' : u \in CompiledIn(c, i)
               /\ CompiledIn(c, i) \subseteq CompiledIn(c, i)'
    BY <1>1, <2>p, <2>10, <2>12, <2>13, <2>14, TopMoved DEF Parts
  <2>27. ASSUME NEW c \in 1..Len(schemas'), NEW i \in 1..Len(schemas'[c].said)
         PROVE /\ \A u \in DeclaredIn(c, i)' :
                    c \in 1..Len(schemas) /\ i \in 1..Len(schemas[c].said) /\ u \in DeclaredIn(c, i)
               /\ \A u \in CompiledIn(c, i)' :
                    c \in 1..Len(schemas) /\ i \in 1..Len(schemas[c].said) /\ u \in CompiledIn(c, i)
    <3>1. c \in 1..Len(schemas) /\ i \in 1..Len(schemas[c].said)
      BY <2>9, <2>10
    <3> QED BY <2>26, <3>1
  <2>28. Collects(f)'
    <3>1. Makes(s, t)' = Makes(s, t) /\ Imported(s, t)'
      BY <2>18, <2>21, <2>22, MakesStays
    <3>2. \A o \in f.got : As(t, o) \in Makes(s, t)'
      BY <2>12, <2>22, <3>1
    <3>3. ASSUME NEW m \in Makes(s, t)'
          PROVE (\E o \in schemas'[s].decls : Bare(o) = m) \/ \E o \in f.got : As(t, o) = m
      <4>1. CASE \E o \in schemas[s].decls : Bare(o) = m
        BY <2>10, <4>1
      <4>2. CASE \E o \in Top.got : As(t, o) = m
        <5>1. d \in schemas'[s].decls
          BY <2>10
        <5> QED BY <2>12, <2>23, <4>2, <5>1
      <4> QED BY <2>22, <3>1, <3>3, <4>1, <4>2
    <3>4. f.prog[f.n] = t
      BY <2>12, <2>20 DEF Stmt
    <3> QED BY <2>12, <3>1, <3>2, <3>3, <3>4 DEF Collects
  <2>281. Alone(f)'
    <3>1. ASSUME Clean(s)', NEW i \in 1..Len(schemas[s].said), NEW u \in DeclaredIn(s, i)', t.op = "def"
          PROVE ~Twin(u, t)
      <4>1. Clean(s) /\ u \in DeclaredIn(s, i)
        BY <2>4, <2>16, <2>26, <3>1
      <4>2. Keeps(s, u)
        BY <2>4, <3>1, <4>1 DEF MInv, DeclsKept
      <4>3. SUFFICES ASSUME Twin(u, t) PROVE FALSE
        OBVIOUS
      <4>4. u.op = "def" /\ u.kind = t.kind /\ u.name = t.name
        BY <4>3 DEF Twin
      <4>5. [kind |-> u.kind, name |-> u.name, public |-> u.export, value |-> OwnCellOf(s, u)]
              \in Makes(s, u)
        BY <4>4 DEF Makes
      <4>6. PICK o \in schemas[s].decls : o.kind = u.kind /\ o.name = u.name
        BY <4>2, <4>5 DEF Keeps, Bare
      <4>7. e.kind = t.kind /\ e.name = t.name
        <5>1. HasDeclared(Top)
          BY <2>15, OngoingFacts
        <5> QED BY <1>1, <1>4, <2>20, <3>1, <5>1 DEF HasDeclared, Stmt
      <4> QED BY <1>4, <2>4, <4>4, <4>6, <4>7 DEF Taken, Here
    <3>2. f.prog[f.n] = t /\ f.at = s /\ schemas'[s].said = schemas[s].said
      BY <2>4, <2>10, <2>12, <2>20 DEF Stmt
    <3>3. \A u, o : Twin(u, o)' <=> Twin(u, o)
      BY DEF Twin
    <3> QED BY <3>1, <3>2, <3>3 DEF Alone
  <2>29. Fits(f)'
    BY <1>1, <2>12, <2>28, <2>281 DEF Fits
  <2>30. \A g \in Ongoing' : (g \in Ongoing /\ schemas'[g.at].said = schemas[g.at].said) \/ Fits(g)'
    BY <2>10, <2>15, <2>29, OngoingFacts
  <2>31. Parts'
    BY <2>p, <2>16, <2>18, <2>19, <2>24, <2>25, <2>27, <2>30, PartsStay
  <2>32. Solved' /\ Grounded'
    BY <1>1, <2>p, <2>16, <2>18, <2>26, <2>27, MeaningStays DEF Parts
  <2> QED BY <2>31, <2>32 DEF MInv, Parts
<1> QED BY <1>2, <1>3, <1>4


\* Cells that have the same meaning keep it when classes are merged, and those that are
\* unified have it then.
LEMMA MergeKeeps ==
  ASSUME val \in [Cell -> Cell \cup Lit], NEW x, NEW y, x \in Cell \/ y \in Cell,
         val' = Merge(x, y), NEW u \in Cell \cup Lit, NEW o \in Cell, val[o] = Meaning(u)
  PROVE val'[o] = Meaning(u)'
<1>1. Lit \cap Cell = {}
  BY ImportAssumption
<1>2. CASE x \in Cell
  <2>1. \A c \in Cell : val'[c] = IF val[c] = x THEN y ELSE val[c]
    BY <1>2 DEF Merge
  <2> QED BY <1>1, <1>2, <2>1 DEF Meaning
<1>3. CASE x \notin Cell
  <2>1. \A c \in Cell : val'[c] = IF val[c] = y THEN x ELSE val[c]
    BY <1>3 DEF Merge
  <2> QED BY <1>1, <1>3, <2>1 DEF Meaning
<1> QED BY <1>2, <1>3

LEMMA MergeJoins ==
  ASSUME val \in [Cell -> Cell \cup Lit], NEW x, NEW y, x \in Cell \/ y \in Cell,
         val' = Merge(x, y), NEW u \in Cell \cup Lit, NEW o \in Cell, val[o] = x, Meaning(u) = y
  PROVE val'[o] = Meaning(u)'
<1>1. Lit \cap Cell = {}
  BY ImportAssumption
<1>2. CASE x \in Cell
  <2>1. \A c \in Cell : val'[c] = IF val[c] = x THEN y ELSE val[c]
    BY <1>2 DEF Merge
  <2> QED BY <1>1, <1>2, <2>1 DEF Meaning
<1>3. CASE x \notin Cell
  <2>1. \A c \in Cell : val'[c] = IF val[c] = y THEN x ELSE val[c]
    BY <1>3 DEF Merge
  <2> QED BY <1>1, <1>3, <2>1 DEF Meaning
<1> QED BY <1>2, <1>3

\* A statement that has been compiled, of the input that the call works on.
LEMMA StmtCompiled ==
  ASSUME IInv, TextsSaid, stack # <<>>, Top.phase = "compile", Top.n <= Len(Top.prog),
         NEW f \in CallType, Becomes(f), f.at = Top.at, GoesTo(f), UNCHANGED schemas,
         NEW c, c = Top.at, NEW j, j = Len(schemas[c].said), NEW s, s = Stmt
  PROVE /\ c \in 1..Len(schemas) /\ j \in 1..Len(schemas[c].said) /\ s \in CompiledIn(c, j)'
<1>1. /\ Top \in Ongoing /\ Top.n \in Nat /\ Top.prog \in Program /\ Top.n \in 1..Len(Top.prog)
      /\ c \in 1..Len(schemas)
  BY TopOngoing, OngoingFacts, StmtFacts
<1>2. j \in 1..Len(schemas[c].said) /\ schemas[c].said[j] = Top.prog
  BY <1>1, WorksOn
<1>3. \A g \in Ongoing' : g.at = c => g = f
  BY TopOngoing
<1>4. PICK n : n = Top.n
  OBVIOUS
<1>5. s = schemas[c].said[j][Top.n]
  BY <1>2 DEF Stmt
<1>6. f.phase = "compile" /\ n < f.n
  BY <1>1, <1>4 DEF GoesTo
<1>7. \A g \in Ongoing' : g.at = c => HasDone(g, j, n)'
  BY <1>3, <1>6 DEF HasDone
<1> QED BY <1>1, <1>2, <1>4, <1>5, <1>7 DEF CompiledIn

\* What a definition that is compiled unifies its cell with is what it refers to.
LEMMA GivenTarget ==
  ASSUME IInv, MInv, stack # <<>>, Top.phase = "compile", Top.n <= Len(Top.prog), Stmt.op = "def",
         NEW v \in Cell \cup Lit, Given(v),
         NEW c, c = Top.at, NEW j, j = Len(schemas[c].said), NEW s, s = Stmt, Clean(c)
  PROVE v \in Target(c, j, s)
<1>1. LooksForPath(Top)
  BY TopOngoing DEF MInv, Looks
<1>2. CASE s.path = <<>> /\ v = s.lit
  BY <1>2 DEF Target
<1>3. CASE Look.st = "found" /\ v = Look.value
  BY <1>1, <1>3 DEF LooksForPath, Target, Look, Stmt
<1> QED BY <1>2, <1>3 DEF Given


LEMMA UnifiesMeans ==
  ASSUME IInv, CellsInv, MInv, CompileDef, NEW d, NEW v, Unifies(d, v), Given(v)
  PROVE MInv'
<1>1. /\ stack # <<>> /\ Top.phase = "compile" /\ Top.n <= Len(Top.prog) /\ Stmt.op = "def"
      /\ UNCHANGED <<text, schemas>>
  BY DEF CompileDef, At
<1>2. Parts /\ Solved /\ Grounded /\ TextsSaid /\ DeclsKept /\ DeclsFit
  BY DEF MInv, Parts
<1>3. d \in Own /\ v \in Cell \cup Lit /\ Unify(d, v)
  BY DEF Unifies
<1>4. val \in [Cell -> Cell \cup Lit] /\ Lit \cap Cell = {}
  BY ImportAssumption DEF IInv, TypeOK
<1>5. PICK c, j, s : c = Top.at /\ j = Len(schemas[c].said) /\ s = Stmt
  OBVIOUS
<1>6. s \in Def /\ s.kind \in {"type", "expr"} /\ c \in 1..Len(schemas)
  BY <1>1, <1>5, StmtFacts, DefFields, TopFacts
<1>7. PICK o : o = d.value
  OBVIOUS
<1>8. o \in Cell /\ o.kind = s.kind
  <2>1. d \in schemas[c].decls /\ d.kind = s.kind /\ s.kind # "schema"
    BY <1>3, <1>5, <1>6 DEF Own, Here
  <2> QED BY <1>2, <1>6, <1>7, <2>1 DEF DeclsFit
<1>9. PICK x, y : x = Meaning(o) /\ y = Meaning(v)
  OBVIOUS
<1>10. x = val[o]
  BY <1>8, <1>9 DEF Meaning
<1>11. PICK errs \in SUBSET Nat : NextStatement(errs) /\ (Fail => errs = {Top.n}) /\ (~Fail => errs = {})
  <2>1. Fail \/ Succeed
    BY <1>3 DEF Unify, UnifyTypes, UnifyExprs
  <2>2. {Top.n} \in SUBSET Nat /\ {} \in SUBSET Nat
    BY <1>1, TopFacts, CallFields
  <2> QED BY <2>1, <2>2 DEF Fail, Succeed
<1>13. PICK f \in CallType :
         Becomes(f) /\ Moves(f) /\ GoesTo(f) /\ Fits(f) /\ f.errs = Top.errs \cup errs
  BY <1>1, <1>11, NextFits
<1>14. Parts' /\ Frame
  BY <1>1, <1>2, <1>13, TopStep
<1>15. (\A a : Clean(a)' => Clean(a)) /\ (Errors => Errors')
  BY <1>1, <1>13, CleanStays
<1>16. \A a \in 1..Len(schemas) : schemas'[a].said = schemas[a].said
  BY <1>1
<1>17. f \in Ongoing' /\ f.at = c
  BY <1>1, <1>5, <1>13, TopOngoing DEF Moves
<1>18. Errors' \/ Top.errs = {}
  <2>1. Top.errs # {} => Errors
    BY <1>1, TopFacts DEF Errors
  <2> QED BY <1>15, <2>1
<1>19. ASSUME Top.errs = {} PROVE o = OwnCellOf(c, s) /\ val[o] = o
  <2>1. OwnCell(Top, Top.n)
    BY <1>19, OwnMerge
  <2>2. CellOf(Top, Top.n) = OwnCellOf(c, s)
    BY <1>5 DEF CellOf, OwnCellOf, Stmt
  <2>3. d \in schemas[Top.at].decls /\ d.kind = OwnCellOf(c, s).kind /\ d.name = OwnCellOf(c, s).name
    BY <1>3, <1>5 DEF Own, Here, OwnCellOf
  <2> QED BY <1>7, <2>1, <2>2, <2>3 DEF OwnCell
<1>20. /\ c \in 1..Len(schemas) /\ j \in 1..Len(schemas[c].said) /\ s \in CompiledIn(c, j)'
  BY <1>1, <1>2, <1>5, <1>13, <1>17, StmtCompiled
<1>21. Clean(c) => v \in Target(c, j, s)
  BY <1>1, <1>3, <1>5, GivenTarget
<1>22. Clean(c) => v \in Target(c, j, s)'
  <2>1. ASSUME Clean(c) PROVE Ready(c, j)
    <3>1. Top \in Ongoing /\ Top.phase # "declare"
      BY <1>1, TopOngoing
    <3> QED BY <1>2, <1>5, <2>1, <3>1, PastDeclare
  <2> QED BY <1>2, <1>6, <1>14, <1>21, <2>1, TargetStays
<1>23. \/ /\ UNCHANGED val /\ x = y /\ s.kind = "type"
       \/ /\ val' = Merge(x, y) /\ x # y /\ (x \in Cell \/ y \in Cell) /\ s.kind = "type"
       \/ /\ val' = Merge(x, y) /\ x = o /\ s.kind = "expr"
       \/ /\ x # o /\ s.kind = "expr" /\ (UNCHANGED val \/ val' = [val EXCEPT ![o] = y])
       \/ /\ Fail /\ UNCHANGED val
  <2>1. CASE Stmt.kind = "type"
    <3>1. UnifyTypes(d, v)
      BY <1>3, <2>1 DEF Unify
    <3>2. x \in Cell \cup Lit /\ y \in Cell \cup Lit
      BY <1>3, <1>4, <1>8, <1>9 DEF Meaning
    <3> QED BY <1>5, <1>7, <1>9, <2>1, <3>1, <3>2 DEF UnifyTypes
  <2>2. CASE Stmt.kind # "type"
    <3>1. UnifyExprs(d, v) /\ s.kind = "expr"
      BY <1>3, <1>5, <1>6, <2>2 DEF Unify
    <3> QED BY <1>7, <1>9, <3>1 DEF UnifyExprs
  <2> QED BY <2>1, <2>2
\* The equations that held are kept.
<1>24. ASSUME NEW a \in 1..Len(schemas), NEW r \in Def, NEW u \in Cell \cup Lit,
              u \in Cell => u.kind = r.kind, SolvedBy(a, r, u)
       PROVE SolvedBy(a, r, u)'
  <2>1. OwnCellOf(a, r) \in Cell /\ OwnCellOf(a, r).kind = r.kind /\ r.kind \in {"type", "expr"}
    <3>1. r.kind \in {"type", "expr"} /\ r.name \in Name
      BY DefFields
    <3>2. a \in 1..MaxSchema
      BY ImportAssumption DEF IInv, TypeOK
    <3> QED BY <3>1, <3>2 DEF OwnCellOf, Cell
  <2>2. PICK t : t = OwnCellOf(a, r)
    OBVIOUS
  <2>3. SolvedBy(a, r, u)' <=> (r.kind = "type" \/ ~Errors' => val'[t] = Meaning(u)')
    BY <2>2 DEF SolvedBy, OwnCellOf
  <2>4. SUFFICES ASSUME r.kind = "type" \/ ~Errors' PROVE val'[t] = Meaning(u)'
    BY <2>3
  <2>5. val[t] = Meaning(u)
    BY <1>15, <1>24, <2>2, <2>4 DEF SolvedBy
  <2>6. CASE UNCHANGED val
    BY <2>5, <2>6 DEF Meaning
  <2>7. CASE val' = Merge(x, y) /\ (x \in Cell \/ y \in Cell)
    BY <1>4, <2>1, <2>2, <2>5, <2>7, MergeKeeps
  <2>8. CASE x # o /\ s.kind = "expr" /\ val' = [val EXCEPT ![o] = y]
    <3>1. Top.errs # {}
      BY <1>10, <1>19, <2>8
    <3>2. r.kind = "type"
      BY <1>18, <2>4, <3>1
    <3>3. t # o /\ (u \in Cell => u # o)
      BY <1>8, <1>24, <2>1, <2>2, <2>8, <3>2
    <3> QED BY <1>4, <2>1, <2>2, <2>5, <2>8, <3>3 DEF Meaning
  <2> QED BY <1>8, <1>23, <2>6, <2>7, <2>8
<1>25. ASSUME Top.errs = {}, errs = {} PROVE val'[o] = Meaning(v)'
  <2>1. CASE UNCHANGED val /\ x = y
    BY <1>9, <1>10, <2>1 DEF Meaning
  <2>2. CASE val' = Merge(x, y) /\ (x \in Cell \/ y \in Cell)
    BY <1>3, <1>4, <1>8, <1>9, <1>10, <2>2, MergeJoins
  <2>3. x = o
    BY <1>10, <1>19, <1>25
  <2>4. ~Fail
    BY <1>11, <1>25
  <2> QED BY <1>8, <1>23, <2>1, <2>2, <2>3, <2>4
<1>26. ASSUME NEW a \in 1..Len(schemas'), Clean(a)', NEW i \in 1..Len(schemas'[a].said),
              NEW r \in CompiledIn(a, i)', r.op = "def"
       PROVE \/ a \in 1..Len(schemas) /\ i \in 1..Len(schemas[a].said) /\ r \in CompiledIn(a, i)
             \/ NewlySolved(a, i, r)'
  <2>1. a \in 1..Len(schemas) /\ i \in 1..Len(schemas[a].said) /\ Clean(a)
    BY <1>1, <1>15, <1>26
  <2>2. r \in CompiledIn(a, i) \/ (a = c /\ r = s)
    BY <1>1, <1>2, <1>5, <1>13, <1>16, <2>1, TopMoved
  <2>3. ASSUME a = c, r = s, i # j PROVE r \in CompiledIn(a, i)
    <3>1. r \in Said(a, i)
      <4>1. r \in Said(a, i)'
        BY <1>26 DEF CompiledIn, Said
      <4> QED BY <1>1, <4>1 DEF Said
    <3>2. i < Len(schemas[a].said)
      <4>1. j = Len(schemas[a].said) /\ j \in Nat
        BY <1>5, <1>20, <2>3, SaidFacts
      <4> QED BY <2>1, <2>3, <4>1
    <3>3. \A g \in Ongoing : \A m : g.at = a => HasDone(g, i, m)
      BY <3>2 DEF HasDone
    <3> QED BY <3>1, <3>3 DEF CompiledIn, Said
  <2>4. ASSUME a = c, r = s, i = j PROVE NewlySolved(a, i, r)'
    <3>1. f.errs = {}
      BY <1>17, <1>26, <2>4 DEF Clean
    <3>2. Top.errs = {} /\ errs = {}
      BY <1>13, <3>1
    <3>3. val'[o] = Meaning(v)' /\ o = OwnCellOf(c, s)
      BY <1>19, <1>25, <3>2
    <3>4. v \in Target(c, j, s)'
      BY <1>22, <2>1, <2>4
    <3>5. SolvedBy(c, s, v)'
      BY <3>3 DEF SolvedBy, OwnCellOf
    <3> QED BY <2>4, <3>4, <3>5 DEF NewlySolved
  <2> QED BY <2>1, <2>2, <2>3, <2>4
<1>27. Solved'
  BY <1>2, <1>14, <1>15, <1>24, <1>26, SolvedStays
\* A cell that has got a new meaning has it from what the definition refers to.
<1>28. ASSUME ~Errors', NEW t \in Cell PROVE val'[t] \in Reached(Targets, t)'
  <2>1. ~Errors /\ Top.errs = {}
    BY <1>15, <1>18, <1>28
  <2>2. Targets \subseteq Targets'
    <3>1. \A a \in 1..Len(schemas) : \A i \in 1..Len(schemas[a].said) :
            CompiledIn(a, i) \subseteq CompiledIn(a, i)'
      BY <1>1, <1>2, <1>13, <1>16, TopMoved
    <3> QED BY <1>2, <1>14, <2>1, <3>1, TargetsStay
  <2>3. PICK E, F : E = Targets /\ F = Targets' /\ E \subseteq F
    BY <2>2
  <2>4. \A a \in Cell : val[a] \in Reached(F, a)
    <3>1. \A a \in Cell : val[a] \in Reached(E, a)
      BY <1>2, <2>1, <2>3 DEF Grounded
    <3>2. \A a : Reached(E, a) \subseteq Reached(F, a)
      BY <2>3, ReachedMore
    <3> QED BY <3>1, <3>2
  <2>5. Reached(Targets, t)' = Reached(F, t)
    BY <2>3 DEF Reached
  <2>6. SUFFICES val'[t] \in Reached(F, t)
    BY <2>5
  <2>7. CASE val'[t] = val[t]
    BY <2>4, <2>7
  <2>8. CASE val'[t] # val[t]
    <3>1. o = OwnCellOf(c, s) /\ x = o
      BY <1>10, <1>19, <2>1
    <3>2. val' = Merge(x, y)
      BY <1>23, <2>8, <3>1
    <3>3. val[t] = o /\ val'[t] = y
      BY <1>8, <2>8, <3>1, <3>2 DEF Merge
    <3>4. Clean(c)
      BY <1>6, <2>1, NoErrorsClean
    <3>5. <<o, v>> \in F
      <4>1. v \in Target(c, j, s)' /\ s \in CompiledIn(c, j)' /\ s.op = "def"
        BY <1>1, <1>5, <1>20, <1>22, <3>4
      <4>2. c \in 1..Len(schemas') /\ j \in 1..Len(schemas'[c].said)
        BY <1>1, <1>20
      <4>3. PICK e : e = <<o, v>>
        OBVIOUS
      <4>4. e \in Cell \X (Cell \cup Lit) /\ e[1] = OwnCellOf(c, s) /\ e[2] = v
        BY <1>3, <1>8, <3>1, <4>3
      <4>5. e \in Targets'
        BY <4>1, <4>2, <4>4 DEF Targets, OwnCellOf
      <4> QED BY <2>3, <4>3, <4>5
    <3>6. v \in Reached(F, t)
      <4>1. o \in Reached(F, t)
        BY <2>4, <3>3
      <4> QED BY <3>5, <4>1, ReachedNext
    <3>7. CASE v \in Cell
      <4>1. y = val[v] /\ y \in Reached(F, v)
        BY <1>9, <2>4, <3>7 DEF Meaning
      <4>2. Reached(F, v) \subseteq Reached(F, t)
        BY <3>6, ReachedOn
      <4> QED BY <3>3, <4>1, <4>2
    <3>8. CASE v \notin Cell
      BY <1>9, <3>3, <3>6, <3>8 DEF Meaning
    <3> QED BY <3>7, <3>8
  <2> QED BY <2>7, <2>8
<1>29. Grounded'
  BY <1>28 DEF Grounded
<1> QED BY <1>14, <1>27, <1>29 DEF MInv, Parts

LEMMA CompileDefMeans == IInv /\ CellsInv /\ MInv /\ CompileDef => MInv'
<1> SUFFICES ASSUME IInv, CellsInv, MInv, CompileDef PROVE MInv'
  OBVIOUS
<1>1. CASE Fail /\ UNCHANGED <<val, late>>
  <2>1. stack # <<>> /\ Top.n <= Len(Top.prog) /\ UNCHANGED <<text, schemas>>
    BY DEF CompileDef, At
  <2> QED BY <1>1, <2>1, FailMeans
<1>2. CASE \E d, v : Unifies(d, v) /\ Given(v)
  BY <1>2, UnifiesMeans
<1> QED BY <1>1, <1>2, CompileDefUnifies

\* Two calls that agree on all but whether an import was missed.
Same(g, h) ==
    /\ g.at = h.at /\ g.prog = h.prog /\ g.phase = h.phase /\ g.n = h.n /\ g.step = h.step
    /\ g.item = h.item /\ g.k = h.k /\ g.got = h.got /\ g.look = h.look /\ g.errs = h.errs

LEMMA SameFits ==
  ASSUME NEW g, NEW h, Same(g, h), Fits(h)'
  PROVE Fits(g)'
<1>1. Source(g)' = Source(h)'
  BY DEF Source, Same
<1>2. Collects(h)' => Collects(g)'
  BY <1>1 DEF Collects, Same
<1>3. LooksForItem(h)' => LooksForItem(g)'
  BY <1>1 DEF LooksForItem, Same
<1>4. LooksForPath(h)' => LooksForPath(g)'
  BY DEF LooksForPath, Same
<1>5. Alone(h)' => Alone(g)'
  BY DEF Alone, Same
<1> QED BY <1>2, <1>3, <1>4, <1>5 DEF Fits, Same

LEMMA ReturnedMeans ==
  ASSUME IInv, MInv, stack # <<>>, Top.phase = "gather", UNCHANGED <<text, val>>,
         NEW s, s = Top.at, Len(schemas') = Len(schemas),
         \A c \in 1..Len(schemas) :
            /\ schemas'[c].file = schemas[c].file /\ schemas'[c].said = schemas[c].said
            /\ schemas'[c].decls = schemas[c].decls
            /\ \A x \in Name : schemas[c].imports[x] # 0 =>
                 schemas'[c].imports[x] = schemas[c].imports[x]
            /\ c # s => schemas'[c].result = schemas[c].result,
         schemas'[s].result # "bad" => Top.errs = {} /\ schemas[s].result # "bad",
         \A g \in Ongoing' : g.at # s /\ \E h \in Ongoing : Same(g, h),
         \A h \in Ongoing : h = Top \/ \E g \in Ongoing' : Same(g, h)
  PROVE MInv'
<1>1. /\ Top \in Ongoing /\ s \in 1..Len(schemas) /\ Len(schemas) \in Nat
      /\ \A g \in Ongoing : g.at = s => g = Top
  BY TopOngoing, OngoingFacts DEF IInv, TypeOK
<1>2. Parts /\ Solved /\ Grounded /\ TextsSaid /\ DeclsKept /\ DeclsFit
  BY DEF MInv, Parts
<1>3. ASSUME NEW c \in 1..Len(schemas), Clean(c)' PROVE Clean(c)
  <2>1. CASE c = s
    BY <1>1, <1>3, <2>1 DEF Clean
  <2>2. CASE c # s
    <3>1. schemas[c].result # "bad"
      BY <1>3, <2>2 DEF Clean
    <3>2. ASSUME NEW h \in Ongoing, h.at = c PROVE h.errs = {}
      <4>1. PICK g \in Ongoing' : Same(g, h)
        BY <2>2, <3>2
      <4>2. g.at = c /\ g.errs = h.errs
        BY <3>2, <4>1 DEF Same
      <4> QED BY <1>3, <4>1, <4>2 DEF Clean
    <3> QED BY <3>1, <3>2 DEF Clean
  <2> QED BY <2>1, <2>2
<1>4. Errors => Errors'
  <2>1. ASSUME NEW c \in 1..Len(schemas), schemas[c].result = "bad" PROVE Errors'
    <3>1. schemas'[c].result = "bad"
      BY <1>1, <2>1
    <3> QED BY <3>1 DEF Errors
  <2>2. ASSUME NEW h \in Ongoing, h.errs # {} PROVE Errors'
    <3>1. CASE h = Top
      <4>1. schemas'[s].result = "bad"
        BY <2>2, <3>1
      <4> QED BY <1>1, <4>1 DEF Errors
    <3>2. CASE h # Top
      <4>1. PICK g \in Ongoing' : Same(g, h)
        BY <3>2
      <4>2. g.errs # {}
        BY <2>2, <4>1 DEF Same
      <4> QED BY <4>1, <4>2 DEF Errors, Ongoing
    <3> QED BY <3>1, <3>2
  <2>3. (\E i \in 1..Len(stack) : stack[i].errs # {}) => \E h \in Ongoing : h.errs # {}
    BY DEF Ongoing
  <2> QED BY <2>1, <2>2, <2>3 DEF Errors
<1>5. Frame
  <2>1. \A c \in 1..Len(schemas) : Len(schemas[c].said) \in Nat
    BY SaidFacts
  <2>2. \A c \in 1..Len(schemas) :
          /\ Len(schemas'[c].said) \in Nat /\ Len(schemas[c].said) <= Len(schemas'[c].said)
          /\ \A j \in 1..Len(schemas[c].said) : schemas'[c].said[j] = schemas[c].said[j]
    BY <2>1
  <2>3. Len(schemas') \in Nat /\ Len(schemas) <= Len(schemas')
    BY <1>1
  <2> QED BY <1>4, <2>2, <2>3 DEF Frame
<1>6. ASSUME NEW c \in 1..Len(schemas), NEW j
      PROVE DeclaredIn(c, j)' = DeclaredIn(c, j) /\ CompiledIn(c, j)' = CompiledIn(c, j)
  <2>1. schemas'[c].said = schemas[c].said
    OBVIOUS
  <2>2. CASE c = s
    <3>1. \A g \in Ongoing' : g.at # c
      BY <2>2
    <3>2. \A g \in Ongoing : g.at = c => \A m : HasDecl(g, j, m) /\ HasDone(g, j, m)
      BY <1>1, <2>2 DEF HasDecl, HasDone
    <3> QED BY <2>1, <3>1, <3>2 DEF DeclaredIn, CompiledIn
  <2>3. CASE c # s
    <3>1. \A g, h : Same(g, h) /\ g.at = c =>
            \A m : /\ HasDecl(g, j, m)' <=> HasDecl(h, j, m)
                   /\ HasDone(g, j, m)' <=> HasDone(h, j, m)
      BY <2>1 DEF Same, HasDecl, HasDone
    <3>2. ASSUME NEW m
          PROVE /\ (\A g \in Ongoing' : g.at = c => HasDecl(g, j, m)') <=>
                   (\A h \in Ongoing : h.at = c => HasDecl(h, j, m))
                /\ (\A g \in Ongoing' : g.at = c => HasDone(g, j, m)') <=>
                   (\A h \in Ongoing : h.at = c => HasDone(h, j, m))
      <4>1. ASSUME NEW h \in Ongoing, h.at = c PROVE \E g \in Ongoing' : Same(g, h) /\ g.at = c
        <5>1. PICK g \in Ongoing' : Same(g, h)
          BY <2>3, <4>1
        <5> QED BY <4>1, <5>1 DEF Same
      <4>2. ASSUME NEW g \in Ongoing', g.at = c PROVE \E h \in Ongoing : Same(g, h) /\ h.at = c
        <5>1. PICK h \in Ongoing : Same(g, h)
          OBVIOUS
        <5> QED BY <4>2, <5>1 DEF Same
      <4> QED BY <3>1, <4>1, <4>2
    <3>3. PICK said : said = schemas[c].said[j] /\ said = schemas'[c].said[j]
      BY <2>1
    <3>4. /\ DeclaredIn(c, j) = {said[n] : n \in {m \in 1..Len(said) :
                                 \A h \in Ongoing : h.at = c => HasDecl(h, j, m)}}
          /\ DeclaredIn(c, j)' = {said[n] : n \in {m \in 1..Len(said) :
                                  \A g \in Ongoing' : g.at = c => HasDecl(g, j, m)'}}
      BY <3>3 DEF DeclaredIn
    <3>5. /\ CompiledIn(c, j) = {said[n] : n \in {m \in 1..Len(said) :
                                 \A h \in Ongoing : h.at = c => HasDone(h, j, m)}}
          /\ CompiledIn(c, j)' = {said[n] : n \in {m \in 1..Len(said) :
                                  \A g \in Ongoing' : g.at = c => HasDone(g, j, m)'}}
      BY <3>3 DEF CompiledIn
    <3>6. /\ {m \in 1..Len(said) : \A h \in Ongoing : h.at = c => HasDecl(h, j, m)} =
             {m \in 1..Len(said) : \A g \in Ongoing' : g.at = c => HasDecl(g, j, m)'}
          /\ {m \in 1..Len(said) : \A h \in Ongoing : h.at = c => HasDone(h, j, m)} =
             {m \in 1..Len(said) : \A g \in Ongoing' : g.at = c => HasDone(g, j, m)'}
      BY <3>2
    <3> QED BY <3>4, <3>5, <3>6
  <2> QED BY <2>2, <2>3
<1>7. TextsSaid'
  <2>1. ASSUME NEW c \in 2..Len(schemas')
        PROVE /\ text'[schemas'[c].file] \notin {Missing, Broken, Unread}
              /\ schemas'[c].said = <<text'[schemas'[c].file]>>
    <3>1. c \in 1..Len(schemas) /\ c \in 2..Len(schemas)
      BY <1>1
    <3> QED BY <1>2, <3>1 DEF TextsSaid
  <2>2. ASSUME NEW g \in Ongoing'
        PROVE /\ schemas'[g.at].said # <<>> /\ g.prog = schemas'[g.at].said[Len(schemas'[g.at].said)]
              /\ schemas'[g.at].result # "ok"
    <3>1. PICK h \in Ongoing : Same(g, h)
      OBVIOUS
    <3>2. g.at = h.at /\ g.prog = h.prog /\ h.at \in 1..Len(schemas) /\ g.at # s
      BY <3>1, OngoingFacts DEF Same
    <3>3. /\ schemas[h.at].said # <<>> /\ h.prog = schemas[h.at].said[Len(schemas[h.at].said)]
          /\ schemas[h.at].result # "ok"
      BY <1>2 DEF TextsSaid
    <3> QED BY <3>2, <3>3
  <2>3. schemas'[1].file = Root
    <3>1. 1 \in 1..Len(schemas)
      BY DEF IInv, TypeOK
    <3> QED BY <1>2, <3>1 DEF TextsSaid
  <2> QED BY <2>1, <2>2, <2>3 DEF TextsSaid
<1>8. DeclsFit'
  BY <1>2 DEF DeclsFit
<1>9. ASSUME NEW g \in Ongoing' PROVE Fits(g)'
  <2>1. PICK h \in Ongoing : Same(g, h)
    OBVIOUS
  <2>2. Fits(h) /\ h.at \in 1..Len(schemas)
    BY <1>2, AllFit, OngoingFacts DEF Parts
  <2>3. Clean(h.at)' => Clean(h.at)
    BY <1>3, <2>2
  <2>4. \A j : DeclaredIn(h.at, j)' = DeclaredIn(h.at, j)
    BY <1>6, <2>2
  <2>5. Fits(h)'
    BY <1>2, <1>5, <2>2, <2>3, <2>4, FitsStays
  <2> QED BY <2>1, <2>5, SameFits
<1>10. \A c \in 1..Len(schemas') : \A d \in schemas'[c].decls :
         c \in 1..Len(schemas) /\ d \in schemas[c].decls
  OBVIOUS
<1>11. ASSUME NEW c \in 1..Len(schemas'), NEW j \in 1..Len(schemas'[c].said)
       PROVE /\ \A t \in DeclaredIn(c, j)' :
                  c \in 1..Len(schemas) /\ j \in 1..Len(schemas[c].said) /\ t \in DeclaredIn(c, j)
             /\ \A t \in CompiledIn(c, j)' :
                  c \in 1..Len(schemas) /\ j \in 1..Len(schemas[c].said) /\ t \in CompiledIn(c, j)
  <2>1. c \in 1..Len(schemas) /\ j \in 1..Len(schemas[c].said)
    OBVIOUS
  <2> QED BY <1>6, <2>1
<1>12. Parts'
  BY <1>2, <1>3, <1>5, <1>7, <1>8, <1>9, <1>10, <1>11, PartsStay
<1>13. \A c \in 1..Len(schemas) : \A j \in 1..Len(schemas[c].said) :
         CompiledIn(c, j) \subseteq CompiledIn(c, j)'
  BY <1>6
<1>14. Solved' /\ Grounded'
  BY <1>2, <1>3, <1>5, <1>11, <1>13, MeaningStays
<1> QED BY <1>12, <1>14 DEF MInv, Parts

LEMMA ReturnToSessionMeans ==
  ASSUME IInv, MInv, Return, Top.by = 0
  PROVE MInv'
<1>1. /\ stack # <<>> /\ stack' = <<>> /\ UNCHANGED <<text, val>> /\ Top.phase = "gather"
      /\ schemas' = [schemas EXCEPT ![1].result = IF @ = "bad" \/ late THEN "bad" ELSE Outcome]
  BY DEF Return
<1>2. Len(schemas) \in Nat \ {0} /\ schemas \in Seq(SchemaType) /\ 1 \in 1..Len(schemas)
  BY DEF IInv, TypeOK
<1>3. PICK r \in SchemaType : r = schemas[1]
  BY <1>2
<1>4. PICK result \in Results : result = IF r.result = "bad" \/ late THEN "bad" ELSE Outcome
  <2>1. r.result \in Results
    BY <1>3 DEF SchemaType
  <2> QED BY <2>1 DEF Outcome, Results
<1>5. PICK q : q = [r EXCEPT !.result = result]
  OBVIOUS
<1>6. /\ q.file = r.file /\ q.said = r.said /\ q.decls = r.decls /\ q.imports = r.imports
      /\ q.result = result
  BY <1>3, <1>4, <1>5, ResultSet
<1>7. schemas' = [schemas EXCEPT ![1] = q]
  BY <1>1, <1>2, <1>3, <1>4, <1>5
<1>8. /\ Len(schemas') = Len(schemas) /\ schemas'[1] = q
      /\ \A c \in 1..Len(schemas) : c # 1 => schemas'[c] = schemas[c]
  BY <1>2, <1>7
<1>9. PICK s : s = Top.at
  OBVIOUS
<1>10. s = 1 /\ Len(stack) = 1
  BY <1>1, <1>9, SessionCall
<1>11. \A c \in 1..Len(schemas) :
         /\ schemas'[c].file = schemas[c].file /\ schemas'[c].said = schemas[c].said
         /\ schemas'[c].decls = schemas[c].decls
         /\ \A x \in Name : schemas[c].imports[x] # 0 =>
              schemas'[c].imports[x] = schemas[c].imports[x]
         /\ c # s => schemas'[c].result = schemas[c].result
  BY <1>3, <1>6, <1>8, <1>10
<1>12. schemas'[s].result # "bad" => Top.errs = {} /\ schemas[s].result # "bad"
  BY <1>3, <1>4, <1>6, <1>8, <1>10 DEF Outcome
<1>13. Ongoing' = {}
  <2>1. Len(stack') = 0
    BY <1>1
  <2> QED BY <2>1 DEF Ongoing
<1>14. \A h \in Ongoing : h = Top
  <2>1. Top = stack[1]
    BY SMTT(30), <1>1, TopFacts
  <2> QED BY <1>10, <2>1 DEF Ongoing
<1> QED BY <1>1, <1>8, <1>9, <1>11, <1>12, <1>13, <1>14, ReturnedMeans

LEMMA ReturnToCallerMeans ==
  ASSUME IInv, MInv, Return, Top.by # 0
  PROVE MInv'
<1>1. /\ stack # <<>> /\ UNCHANGED <<text, val>> /\ Top.phase = "gather"
      /\ schemas' = [schemas EXCEPT
                       ![Top.at].result = Outcome,
                       ![Top.by].imports[Top.path] = IF Outcome = "ok" THEN Top.at ELSE @]
      /\ stack' = <<[stack[2] EXCEPT !.missed = (Outcome = "bad")]>> \o Tail(Tail(stack))
  BY DEF Return, Kept
<1>2. /\ Top = stack[1] /\ Len(stack) \in Nat /\ Len(stack) > 1
      /\ 1 \in 1..Len(stack) /\ 2 \in 1..Len(stack) /\ stack \in Seq(CallType)
  BY SMTT(60), <1>1, TopFacts, SessionCall DEF IInv, TypeOK
<1>3. /\ Len(schemas) \in Nat /\ Len(schemas) \in 1..MaxSchema /\ MaxSchema \in Nat
      /\ schemas \in Seq(SchemaType)
  BY ImportAssumption DEF IInv, TypeOK
<1>4. PICK s \in 1..Len(schemas), b \in 1..Len(schemas), x \in Name, out \in Results :
        s = Top.at /\ b = Top.by /\ x = Top.path /\ out = Outcome
  <2>1. Top.at \in 1..Len(schemas) /\ Top.by \in 1..Len(schemas) /\ Top.path \in Name
    BY <1>1, <1>2, TopFacts, CallFields, ParentOfCall
  <2> QED BY <2>1 DEF Outcome, Results
<1>5. b < s /\ schemas[s].result = "open" /\ schemas[b].imports[x] = 0
  <2>1. stack[1].by \in 1..(stack[1].at - 1)
    BY <1>2, ParentOfCall
  <2>2. b < s
    BY <1>2, <1>4, <2>1
  <2> QED BY <1>2, <1>4, <2>2 DEF IInv, Nested
<1>6. PICK kept \in 0..MaxSchema : kept = IF out = "ok" THEN s ELSE 0
  BY <1>3
<1>7. PICK r \in SchemaType, t \in SchemaType : r = schemas[s] /\ t = schemas[b]
  BY <1>3
<1> DEFINE q == [r EXCEPT !.result = out]
           p == [t EXCEPT !.imports[x] = kept]
<1>71. /\ q \in SchemaType /\ q.file = r.file /\ q.said = r.said
       /\ q.decls = r.decls /\ q.imports = r.imports /\ q.result = out
  BY <1>4, <1>7, ResultSet
<1>72. /\ p \in SchemaType /\ p.file = t.file /\ p.said = t.said
       /\ p.decls = t.decls /\ p.result = t.result
       /\ p.imports = [t.imports EXCEPT ![x] = kept]
  BY SMTT(60), <1>4, <1>6, <1>7, ImportSet
<1>8. schemas' = [[schemas EXCEPT ![s] = q] EXCEPT ![b] = p]
  <2>1. schemas' = [[schemas EXCEPT ![s].result = out] EXCEPT
                       ![b].imports[x] = IF out = "ok" THEN s ELSE @]
    BY <1>1, <1>4
  <2>2. PICK mid : mid = [schemas EXCEPT ![s] = q]
    OBVIOUS
  <2>3. mid = [schemas EXCEPT ![s].result = out]
    BY <1>7, <2>2
  <2>4. mid[b] = t /\ mid[b].imports[x] = 0
    BY <1>3, <1>5, <1>7, <2>2
  <2>5. schemas' = [mid EXCEPT ![b].imports[x] = kept]
    BY <1>6, <2>1, <2>3, <2>4
  <2>6. [mid EXCEPT ![b].imports[x] = kept] = [mid EXCEPT ![b] = p]
    BY <2>4
  <2> QED BY SMTT(30), <2>2, <2>5, <2>6
<1> HIDE DEF q, p
<1>9. /\ Len(schemas') = Len(schemas) /\ schemas'[s] = q /\ schemas'[b] = p
      /\ \A c \in 1..Len(schemas) : c # s /\ c # b => schemas'[c] = schemas[c]
  BY <1>3, <1>5, <1>8, <1>71, <1>72
<1>10. ASSUME NEW c \in 1..Len(schemas)
       PROVE /\ schemas'[c].file = schemas[c].file /\ schemas'[c].said = schemas[c].said
             /\ schemas'[c].decls = schemas[c].decls
             /\ \A y \in Name : schemas[c].imports[y] # 0 =>
                  schemas'[c].imports[y] = schemas[c].imports[y]
             /\ c # s => schemas'[c].result = schemas[c].result
  <2>1. CASE c = s
    BY <1>5, <1>7, <1>71, <1>9, <2>1
  <2>2. CASE c = b
    <3>1. t.imports \in [Name -> 0..MaxSchema]
      BY <1>7, SchemaFacts
    <3>2. \A y \in Name : p.imports[y] = IF y = x THEN kept ELSE t.imports[y]
      BY <1>72, <3>1
    <3>3. schemas'[c] = p /\ schemas[c] = t /\ c # s /\ t.imports[x] = 0
      BY <1>5, <1>7, <1>9, <2>2
    <3>4. \A y \in Name : schemas[c].imports[y] # 0 => schemas'[c].imports[y] = schemas[c].imports[y]
      BY <3>2, <3>3
    <3> QED BY <1>72, <3>3, <3>4
  <2>3. CASE c # s /\ c # b
    BY <1>9, <2>3
  <2> QED BY <2>1, <2>2, <2>3
<1>11. PICK h \in CallType : h = stack[2]
  BY <1>2
<1>12. PICK g \in CallType : g = [h EXCEPT !.missed = (Outcome = "bad")] /\ Same(g, h)
  <2> DEFINE g == [h EXCEPT !.missed = (Outcome = "bad")]
  <2>1. /\ g \in CallType /\ g.at = h.at /\ g.prog = h.prog /\ g.phase = h.phase /\ g.n = h.n
        /\ g.step = h.step /\ g.item = h.item /\ g.k = h.k /\ g.got = h.got /\ g.look = h.look
        /\ g.errs = h.errs
    <3>1. (Outcome = "bad") \in BOOLEAN
      OBVIOUS
    <3> QED BY ZenonT(60), <1>11, <3>1 DEF CallType
  <2>2. g = [h EXCEPT !.missed = (Outcome = "bad")]
    OBVIOUS
  <2> HIDE DEF g
  <2> QED BY <2>1, <2>2 DEF Same
<1>13. /\ Len(stack') = Len(stack) - 1
       /\ \A j \in 1..Len(stack') : stack'[j] = IF j = 1 THEN g ELSE stack[j + 1]
  <2>1. stack' = <<g>> \o Tail(Tail(stack))
    BY <1>1, <1>11, <1>12
  <2>2. stack \in Seq(CallType) /\ Len(stack) > 1 /\ stack # <<>>
    BY <1>2
  <2>3. PICK u \in Seq(CallType) : /\ u = Tail(stack) /\ Len(u) = Len(stack) - 1 /\ u # <<>>
                                  /\ \A j \in 1..Len(u) : u[j] = stack[j + 1]
    BY ZenonT(60), <2>2, Tailed
  <2>4. stack' = <<g>> \o Tail(u)
    BY <2>1, <2>3
  <2>5. /\ stack' \in Seq(CallType) /\ Len(stack') = Len(u)
        /\ \A j \in 1..Len(stack') : stack'[j] = IF j = 1 THEN g ELSE u[j]
    BY SMTT(60), <2>3, <2>4, Replaced
  <2> QED BY <2>2, <2>3, <2>5
<1>14. \A e : Same(e, e)
  BY DEF Same
<1>15. ASSUME NEW e \in Ongoing' PROVE e.at # s /\ \E o \in Ongoing : Same(e, o)
  <2>1. PICK j \in 1..Len(stack') : e = stack'[j]
    BY DEF Ongoing
  <2>2. j + 1 \in 1..Len(stack) /\ 1 < j + 1
    BY <1>2, <1>13
  <2>3. PICK i \in 1..Len(stack) : i = j + 1 /\ 1 < i
    BY <2>2
  <2>4. Same(e, stack[i])
    BY <1>11, <1>12, <1>13, <1>14, <2>1, <2>3
  <2>5. stack[1].at > stack[i].at
    BY <1>2, <2>3 DEF IInv, Nested
  <2>6. stack[i].at \in 1..Len(schemas)
    BY StackFacts
  <2>7. e.at # s
    BY <1>2, <1>4, <2>4, <2>5, <2>6 DEF Same
  <2> QED BY <2>4, <2>7 DEF Ongoing
<1>16. ASSUME NEW o \in Ongoing, o # Top PROVE \E e \in Ongoing' : Same(e, o)
  <2>1. PICK i \in 1..Len(stack) : o = stack[i]
    BY DEF Ongoing
  <2>2. i # 1
    BY <1>2, <1>16, <2>1
  <2>3. PICK j : j = i - 1
    OBVIOUS
  <2>4. j \in 1..Len(stack') /\ j + 1 = i
    BY <1>2, <1>13, <2>2, <2>3
  <2>5. Same(stack'[j], o)
    BY <1>11, <1>12, <1>13, <1>14, <2>1, <2>4
  <2> QED BY <2>4, <2>5 DEF Ongoing
<1>17. schemas'[s].result # "bad" => Top.errs = {} /\ schemas[s].result # "bad"
  BY <1>4, <1>5, <1>9, <1>71 DEF Outcome
<1> QED BY <1>1, <1>4, <1>9, <1>10, <1>15, <1>16, <1>17, ReturnedMeans

\* An input of the session: nothing of it is declared yet.
LEMMA InputMeans ==
  ASSUME IInv, MInv, NEW prog \in Inputs, Input(prog)
  PROVE MInv'
<1>1. /\ stack = <<>> /\ UNCHANGED <<text, val>>
      /\ schemas' = [schemas EXCEPT ![1].said = Append(@, prog),
                                    ![1].result = IF @ = "bad" THEN @ ELSE "open"]
  BY DEF Input
<1>2. PICK x \in Name : x = CHOOSE y \in Name : TRUE
  BY ImportAssumption
<1>3. PICK call : call = Call(1, prog, 0, x)
  OBVIOUS
<1>4. prog \in Program /\ 1 \in 1..MaxSchema /\ 0 \in 0..MaxSchema
  BY ImportAssumption
<1>5. /\ call \in CallType /\ call.phase = "declare" /\ call.n = 1 /\ call.step = "start"
      /\ call.look = Idle /\ call.item = 1 /\ call.k = 1 /\ call.got = {} /\ call.errs = {}
      /\ call.at = 1 /\ call.prog = prog
  BY <1>3, <1>4, NewCall
<1>6. stack' = <<call>>
  BY <1>2, <1>3 DEF Input
<1>7. Ongoing = {} /\ \A g : g \in Ongoing' <=> g = call
  <2>1. Len(stack) = 0
    BY <1>1
  <2>2. PICK u : u = <<call>>
    OBVIOUS
  <2>3. Len(u) = 1 /\ u[1] = call
    BY <2>2
  <2> QED BY <1>6, <2>1, <2>2, <2>3 DEF Ongoing
<1>8. Parts /\ Solved /\ Grounded /\ TextsSaid /\ DeclsKept /\ DeclsFit
  BY DEF MInv, Parts
<1>9. schemas \in Seq(SchemaType) /\ Len(schemas) \in Nat \ {0} /\ 1 \in 1..Len(schemas)
  BY DEF IInv, TypeOK
<1>10. PICK r \in SchemaType : r = schemas[1]
  BY <1>9
<1>11. PICK said, result :
         said = Append(r.said, prog) /\ result = IF r.result = "bad" THEN r.result ELSE "open"
  OBVIOUS
<1>12. PICK q : q = [r EXCEPT !.said = said, !.result = result]
  OBVIOUS
<1>13. /\ q.file = r.file /\ q.decls = r.decls /\ q.imports = r.imports
       /\ q.said = said /\ q.result = result
  BY <1>10, <1>12 DEF SchemaType
<1>14. schemas' = [schemas EXCEPT ![1] = q]
  BY <1>1, <1>9, <1>10, <1>11, <1>12
<1>15. /\ Len(schemas') = Len(schemas) /\ schemas'[1] = q
       /\ \A c \in 1..Len(schemas) : c # 1 => schemas'[c] = schemas[c]
  BY <1>9, <1>14
<1>16. PICK l \in Nat : l = Len(schemas[1].said)
  BY <1>9, SaidFacts
<1>17. /\ Len(schemas'[1].said) = l + 1 /\ schemas'[1].said[l + 1] = prog
       /\ \A j \in 1..l : schemas'[1].said[j] = schemas[1].said[j]
  <2>1. schemas[1].said \in Seq(Program)
    BY <1>9, SaidFacts
  <2> QED BY SMTT(30), <1>4, <1>10, <1>11, <1>13, <1>15, <1>16, <2>1
<1>18. ASSUME NEW c \in 1..Len(schemas)
       PROVE /\ schemas'[c].file = schemas[c].file /\ schemas'[c].decls = schemas[c].decls
             /\ schemas'[c].imports = schemas[c].imports
             /\ schemas'[c].result = "bad" <=> schemas[c].result = "bad"
             /\ c # 1 => schemas'[c].said = schemas[c].said
  BY <1>10, <1>11, <1>13, <1>15
<1>19. ASSUME NEW c \in 1..Len(schemas), Clean(c)' PROVE Clean(c)
  BY <1>7, <1>18, <1>19 DEF Clean
<1>20. Errors => Errors'
  <2>1. Len(stack) = 0
    BY <1>1
  <2> QED BY <1>15, <1>18, <2>1 DEF Errors
<1>21. Frame
  <2>1. \A c \in 1..Len(schemas) : Len(schemas[c].said) \in Nat
    BY SaidFacts
  <2>2. \A c \in 1..Len(schemas) :
          /\ Len(schemas'[c].said) \in Nat /\ Len(schemas[c].said) <= Len(schemas'[c].said)
          /\ \A j \in 1..Len(schemas[c].said) : schemas'[c].said[j] = schemas[c].said[j]
    BY SMTT(30), <1>16, <1>17, <1>18, <2>1
  <2>3. Len(schemas') \in Nat /\ Len(schemas) <= Len(schemas')
    BY <1>9, <1>15
  <2> QED BY <1>1, <1>18, <1>20, <2>2, <2>3 DEF Frame
<1>22. TextsSaid'
  <2>1. ASSUME NEW c \in 2..Len(schemas')
        PROVE /\ text'[schemas'[c].file] \notin {Missing, Broken, Unread}
              /\ schemas'[c].said = <<text'[schemas'[c].file]>>
    <3>1. c \in 1..Len(schemas) /\ c \in 2..Len(schemas) /\ c # 1
      BY <1>15
    <3> QED BY <1>1, <1>8, <1>18, <3>1 DEF TextsSaid
  <2>2. ASSUME NEW g \in Ongoing'
        PROVE /\ schemas'[g.at].said # <<>> /\ g.prog = schemas'[g.at].said[Len(schemas'[g.at].said)]
              /\ schemas'[g.at].result # "ok"
    <3>1. g = call /\ g.at = 1 /\ g.prog = prog
      BY <1>5, <1>7
    <3>2. schemas'[1].said # <<>>
      <4>1. schemas'[1].said = Append(r.said, prog) /\ r.said \in Seq(Program)
        BY <1>9, <1>10, <1>11, <1>13, <1>15, SaidFacts
      <4> QED BY <1>4, <4>1
    <3>3. schemas'[1].result # "ok"
      BY <1>11, <1>13, <1>15
    <3> QED BY <1>17, <3>1, <3>2, <3>3
  <2> QED BY <1>8, <1>9, <1>18, <2>1, <2>2 DEF TextsSaid
<1>23. DeclsFit'
  BY <1>8, <1>15, <1>18 DEF DeclsFit
<1>24. ASSUME NEW c \in 1..Len(schemas), NEW j \in 1..Len(schemas[c].said)
       PROVE DeclaredIn(c, j)' = Said(c, j) /\ CompiledIn(c, j)' = Said(c, j)
  <2>1. schemas'[c].said[j] = schemas[c].said[j]
    BY <1>21 DEF Frame
  <2>2. \A g \in Ongoing' : g.at = c => \A m : HasDecl(g, j, m)' /\ HasDone(g, j, m)'
    <3>1. c = 1 => j < Len(schemas'[c].said)
      BY <1>16, <1>17
    <3> QED BY <1>5, <1>7, <3>1 DEF HasDecl, HasDone
  <2> QED BY <2>1, <2>2 DEF DeclaredIn, CompiledIn, Said
<1>25. ASSUME NEW c \in 1..Len(schemas), NEW j
       PROVE DeclaredIn(c, j) = Said(c, j) /\ CompiledIn(c, j) = Said(c, j)
  BY <1>7 DEF DeclaredIn, CompiledIn, Said
<1>26. ASSUME NEW c \in 1..Len(schemas'), NEW j \in 1..Len(schemas'[c].said)
       PROVE /\ \A t \in DeclaredIn(c, j)' :
                  c \in 1..Len(schemas) /\ j \in 1..Len(schemas[c].said) /\ t \in DeclaredIn(c, j)
             /\ \A t \in CompiledIn(c, j)' :
                  c \in 1..Len(schemas) /\ j \in 1..Len(schemas[c].said) /\ t \in CompiledIn(c, j)
  <2>1. c \in 1..Len(schemas)
    BY <1>15
  <2>2. CASE j \in 1..Len(schemas[c].said)
    BY <1>24, <1>25, <2>1, <2>2
  <2>3. CASE j \notin 1..Len(schemas[c].said)
    <3>1. c = 1 /\ j = l + 1
      <4>1. c = 1
        <5>1. CASE c # 1
          <6>1. schemas'[c].said = schemas[c].said
            BY <1>18, <2>1, <5>1
          <6> QED BY <2>3, <6>1
        <5> QED BY <5>1
      <4>2. j \in 1..(l + 1) /\ j \notin 1..l
        BY <1>16, <1>17, <2>3, <4>1
      <4> QED BY <1>16, <4>1, <4>2
    <3>2. \A m \in 1..Len(schemas'[c].said[j]) : ~HasDecl(call, j, m)' /\ ~HasDone(call, j, m)'
      BY <1>5, <1>16, <1>17, <3>1 DEF HasDecl, HasDone
    <3>3. call \in Ongoing' /\ call.at = c
      BY <1>5, <1>7, <3>1
    <3>4. DeclaredIn(c, j)' = {} /\ CompiledIn(c, j)' = {}
      BY <3>2, <3>3 DEF DeclaredIn, CompiledIn
    <3> QED BY <3>4
  <2> QED BY <2>2, <2>3
<1>27. \A g \in Ongoing' : Fits(g)'
  BY <1>5, <1>7 DEF Fits, Idle, Alone
<1>28. \A c \in 1..Len(schemas') : \A d \in schemas'[c].decls :
         c \in 1..Len(schemas) /\ d \in schemas[c].decls
  BY <1>15, <1>18
<1>29. Parts'
  BY <1>8, <1>19, <1>21, <1>22, <1>23, <1>26, <1>27, <1>28, PartsStay
<1>30. \A c \in 1..Len(schemas) : \A j \in 1..Len(schemas[c].said) :
         CompiledIn(c, j) \subseteq CompiledIn(c, j)'
  BY <1>24, <1>25
<1>31. Solved' /\ Grounded'
  BY <1>1, <1>8, <1>19, <1>21, <1>26, <1>30, MeaningStays
<1> QED BY <1>29, <1>31 DEF MInv, Parts

LEMMA WorkMeans == IInv /\ CellsInv /\ MInv /\ Work => MInv'
<1> SUFFICES ASSUME IInv, CellsInv, MInv, Work PROVE MInv'
  OBVIOUS
<1>1. CASE Lookup
  BY <1>1, LookFindsMeans, LookFollowsMeans, LookFallsBackMeans DEF Lookup
<1>2. CASE Declare
  BY <1>2, DeclareDefMeans, DeclareImportMeans, LookForItemMeans, ImportItemMeans,
     ItemsDoneMeans, AddDeclMeans, DeclaredMeans DEF Declare
<1>3. CASE Compile
  BY <1>3, CompileImportMeans, LookForPathMeans, CompileDefMeans DEF Compile
<1>4. CASE EndDeclare
  <2>1. PICK from, to : from = "declare" /\ to = "compile"
    OBVIOUS
  <2>2. NextPhase(from, to)
    BY <1>4, <2>1 DEF EndDeclare
  <2> QED BY <2>1, <2>2, NextPhaseMeans
<1>5. CASE EndCompile
  <2>1. PICK from, to : from = "compile" /\ to = "gather"
    OBVIOUS
  <2>2. NextPhase(from, to)
    BY <1>5, <2>1 DEF EndCompile
  <2> QED BY <2>1, <2>2, NextPhaseMeans
<1>6. CASE Return
  BY <1>6, ReturnToSessionMeans, ReturnToCallerMeans
<1> QED BY <1>1, <1>2, <1>3, <1>4, <1>5, <1>6 DEF Work

LEMMA InitMeans == Init => MInv
<1> SUFFICES ASSUME Init PROVE MInv
  OBVIOUS
<1>1. Ongoing = {} /\ val = [c \in Cell |-> c]
  <2>1. Len(stack) = 0
    BY DEF Init
  <2> QED BY <2>1 DEF Init, Ongoing
<1>2. PICK new : schemas = <<new>> /\ new.decls = {} /\ new.said = <<>> /\ new.file = Root
  BY DEF Init, NewSchema
<1>3. Len(schemas) = 1 /\ schemas[1] = new /\ Len(new.said) = 0
  BY <1>2
<1>4. TextsSaid /\ DeclsFit /\ DeclsMade /\ DeclsKept /\ DeclsOnce /\ Collected /\ Looks
  BY <1>1, <1>2, <1>3 DEF TextsSaid, DeclsFit, DeclsMade, DeclsKept, DeclsOnce, Collected, Looks
<1>5. Solved
  BY <1>2, <1>3 DEF Solved
<1>6. Grounded
  BY <1>1, ReachedSelf DEF Grounded
<1> QED BY <1>4, <1>5, <1>6 DEF MInv

LEMMA StutterMeans == IInv /\ MInv /\ UNCHANGED vars => MInv'
<1> SUFFICES ASSUME IInv, MInv, UNCHANGED vars PROVE MInv'
  OBVIOUS
<1>1. UNCHANGED <<text, schemas, val, stack>> /\ Ongoing' = Ongoing
  BY DEF vars, Ongoing
<1>2. Parts /\ Solved /\ Grounded /\ TextsSaid /\ DeclsKept /\ DeclsFit
  BY DEF MInv, Parts
<1>3. \A c : Clean(c)' <=> Clean(c)
  BY <1>1 DEF Clean
<1>4. Errors => Errors'
  BY <1>1 DEF Errors
<1>5. Frame
  BY <1>1, <1>4, QuietFrame
<1>6. \A c \in 1..Len(schemas) : \A j :
        DeclaredIn(c, j)' = DeclaredIn(c, j) /\ CompiledIn(c, j)' = CompiledIn(c, j)
  BY <1>1, SameIn
<1>7. TextsSaid' /\ DeclsFit'
  BY <1>1, <1>2 DEF TextsSaid, DeclsFit
<1>8. Parts'
  BY <1>1, <1>2, <1>3, <1>5, <1>6, <1>7, PartsStay
<1>9. Solved' /\ Grounded'
  BY <1>1, <1>2, <1>3, <1>5, <1>6, MeaningStays
<1> QED BY <1>8, <1>9 DEF MInv, Parts

LEMMA MeansInductive == Spec => []MInv
<1>1. IInv /\ CellsInv /\ MInv /\ [Next]_vars => MInv'
  BY InputMeans, WorkMeans, StutterMeans DEF Next
<1> QED BY <1>1, InitMeans, Inductive, CellsInductive, PTL DEF Spec

-------------------------------------------------------------------------------
(* From schemas to the reference.  A set of natural numbers has a least one.                *)
LEMMA LeastOne ==
  ASSUME NEW S, S \subseteq Nat, S # {}
  PROVE  \E x \in S : \A y \in S : x <= y
<1> DEFINE Less == OpToRel(<, Nat)
<1>1. IsWellFoundedOn(Less, Nat)
  BY NatLessThanWellFounded
<1>2. \A x, y \in Nat : <<y, x>> \in Less <=> y < x
  BY DEF OpToRel
<1> HIDE DEF Less
<1>3. PICK x \in S : \A y \in S : ~(<<y, x>> \in Less)
  BY <1>1, WFMin
<1>4. ASSUME NEW y \in S PROVE x <= y
  <2>1. x \in Nat /\ y \in Nat /\ ~(y < x)
    BY <1>2, <1>3
  <2> QED BY <2>1
<1> QED BY <1>4

\* Where statement s of input j of schema c stands, and a schema that came out right.
Occ(c, j, s) == [at |-> PlaceOf(c, j), says |-> s]
Right(c) == c \in 1..Len(schemas) /\ schemas[c].result = "ok"
Says(c, j, s) == Right(c) /\ j \in 1..Len(schemas[c].said) /\ s \in Said(c, j)

LEMMA RightFacts ==
  ASSUME IInv, TextsSaid, DeclsKept, NEW c, Right(c)
  PROVE /\ c \in 1..Len(schemas) /\ Clean(c) /\ schemas[c].file \in File
        /\ \A j : DeclaredIn(c, j) = Said(c, j) /\ CompiledIn(c, j) = Said(c, j)
        /\ \A j \in 1..Len(schemas[c].said) : Ready(c, j)
<1>1. c \in 1..Len(schemas) /\ schemas[c].result = "ok"
  BY DEF Right
<1>2. \A i \in 1..Len(stack) : stack[i].at # c
  BY <1>1 DEF TextsSaid, Ongoing
<1>3. Clean(c) /\ \A j : DeclaredIn(c, j) = Said(c, j) /\ CompiledIn(c, j) = Said(c, j)
  BY <1>1, <1>2, IdleDone
<1>4. ASSUME NEW j \in 1..Len(schemas[c].said) PROVE Ready(c, j)
  BY <1>1, <1>3, CleanReady
<1>5. schemas[c].file \in File
  BY <1>1, SchemaFacts DEF SchemaType
<1> QED BY <1>1, <1>3, <1>4, <1>5

LEMMA SaysFacts ==
  ASSUME IInv, TextsSaid, DeclsKept, NEW c, NEW j, NEW s, Says(c, j, s)
  PROVE /\ s \in Import \cup Def /\ Imported(c, s)
        /\ s.op = "def" => /\ OwnCellOf(c, s) \in Cell /\ OwnCellOf(c, s).kind = s.kind
                           /\ s \in Def
<1>1. c \in 1..Len(schemas) /\ j \in 1..Len(schemas[c].said) /\ s \in Said(c, j) /\ Right(c)
  BY DEF Says, Right
<1>2. s \in Import \cup Def
  BY <1>1, SaidFacts
<1>3. Imported(c, s)
  <2>1. Ready(c, j) /\ j \in 1..j
    BY <1>1, SaidFacts, RightFacts
  <2> QED BY <1>1, <2>1 DEF Ready
<1>4. c \in 1..MaxSchema
  BY <1>1, ImportAssumption DEF IInv, TypeOK
<1>5. s.op = "def" => OwnCellOf(c, s) \in Cell /\ OwnCellOf(c, s).kind = s.kind /\ s \in Def
  BY <1>2, <1>4, StatementFields DEF OwnCellOf, Cell
<1> QED BY <1>2, <1>3, <1>5

LEMMA PlaceFacts ==
  ASSUME IInv, TextsSaid, NEW c \in 1..Len(schemas), NEW j \in 1..Len(schemas[c].said)
  PROVE /\ PlaceOf(c, j) \in Places /\ PlaceOf(c, j).file = schemas[c].file
        /\ \A o : o \in Stated(PlaceOf(c, j)) <=>
                    \E i \in 1..j : \E s \in Said(c, i) : o = Occ(c, i, s)
<1>1. j \in Nat \ {0} /\ Len(schemas) \in Nat /\ Len(schemas[c].said) \in Nat
  BY SaidFacts DEF IInv, TypeOK
<1>2. schemas[c].file \in File
  BY SchemaFacts DEF SchemaType
<1>3. CASE c = 1
  <2>1. PlaceOf(c, j) = Session(j) /\ Session(j).file = Root /\ Session(j).input = j
    BY <1>3 DEF PlaceOf, Session
  <2>2. Session(j) \in Places
    BY <1>3 DEF Places
  <2>3. schemas[1].file = Root
    BY DEF TextsSaid
  <2>4. Stated(Session(j)) = UNION {Statements(schemas[1].said[i], Session(i)) : i \in 1..j}
    <3>1. PICK p : p = Session(j)
      OBVIOUS
    <3>2. p.input = j /\ p.input # 0
      BY <1>1, <2>1, <3>1
    <3>3. Stated(p) = UNION {Statements(schemas[1].said[i], Session(i)) : i \in 1..p.input}
      BY <3>2 DEF Stated
    <3> QED BY <3>1, <3>2, <3>3
  <2>5. ASSUME NEW i \in 1..j, NEW o
        PROVE o \in Statements(schemas[1].said[i], Session(i)) <=>
                \E s \in Said(c, i) : o = Occ(c, i, s)
    BY <1>3 DEF Statements, Said, Occ, PlaceOf
  <2>6. \A o : o \in Stated(Session(j)) <=>
                \E i \in 1..j : o \in Statements(schemas[1].said[i], Session(i))
    BY <2>4
  <2>7. \A o : o \in Stated(Session(j)) <=> \E i \in 1..j : \E s \in Said(c, i) : o = Occ(c, i, s)
    <3>1. ASSUME NEW o
          PROVE (\E i \in 1..j : o \in Statements(schemas[1].said[i], Session(i))) <=>
                  \E i \in 1..j : \E s \in Said(c, i) : o = Occ(c, i, s)
      BY <2>5
    <3> QED BY <2>6, <3>1
  <2>8. PICK p : p = PlaceOf(c, j) /\ p = Session(j)
    BY <2>1
  <2>9. p \in Places /\ p.file = schemas[c].file
    BY <1>3, <2>1, <2>2, <2>3, <2>8
  <2>10. \A o : o \in Stated(p) <=> \E i \in 1..j : \E s \in Said(c, i) : o = Occ(c, i, s)
    BY <2>7, <2>8
  <2> QED BY <2>8, <2>9, <2>10
<1>4. CASE c # 1
  <2>1. c \in 2..Len(schemas)
    BY <1>1, <1>4
  <2>2. PICK f : f = schemas[c].file
    OBVIOUS
  <2>3. PlaceOf(c, j) = TextOf(f) /\ TextOf(f).file = f /\ TextOf(f).input = 0
    BY <1>4, <2>2 DEF PlaceOf, TextOf
  <2>4. TextOf(f) \in Places
    BY <1>2, <2>2 DEF Places
  <2>5. text[f] \notin {Missing, Broken, Unread} /\ schemas[c].said = <<text[f]>>
    BY <2>1, <2>2 DEF TextsSaid
  <2>6. Stated(TextOf(f)) = Statements(text[f], TextOf(f))
    BY <2>3, <2>5 DEF Stated
  <2>7. PICK t : t = text[f] /\ schemas[c].said = <<t>>
    BY <2>5
  <2>8. Len(schemas[c].said) = 1 /\ schemas[c].said[1] = t
    BY <2>7
  <2>9. j = 1
    BY <1>1, <2>8
  <2>10. \A o : o \in Statements(t, TextOf(f)) <=> \E s \in Said(c, 1) : o = Occ(c, 1, s)
    BY <1>4, <2>2, <2>8 DEF Statements, Said, Occ, PlaceOf
  <2> QED BY <2>2, <2>3, <2>4, <2>6, <2>7, <2>9, <2>10
<1> QED BY <1>3, <1>4

LEMMA OccFacts ==
  ASSUME IInv, TextsSaid, NEW c, NEW j, NEW s, Says(c, j, s)
  PROVE /\ Occ(c, j, s) \in Stated(PlaceOf(c, j)) /\ Occ(c, j, s) \in Statement
        /\ Occ(c, j, s).says = s /\ Occ(c, j, s).at = PlaceOf(c, j)
        /\ Occ(c, j, s).at.file = schemas[c].file
<1>1. c \in 1..Len(schemas) /\ j \in 1..Len(schemas[c].said) /\ s \in Said(c, j)
  BY DEF Says, Right
<1>2. j \in 1..j
  BY <1>1, SaidFacts
<1>3. Occ(c, j, s) \in Stated(PlaceOf(c, j)) /\ PlaceOf(c, j) \in Places
      /\ PlaceOf(c, j).file = schemas[c].file
  BY <1>1, <1>2, PlaceFacts
<1>4. Occ(c, j, s).says = s /\ Occ(c, j, s).at = PlaceOf(c, j)
  BY DEF Occ
<1> QED BY <1>3, <1>4 DEF Statement

\* The schema that an import of a schema that came out right is of.
LEMMA ImportRight ==
  ASSUME IInv, TextsSaid, DeclsKept, NEW c, Right(c), NEW x \in Name, NEW b,
         b = schemas[c].imports[x], b # 0
  PROVE /\ Right(b) /\ b > c /\ b \in 2..Len(schemas) /\ Len(schemas[b].said) = 1
        /\ PlaceOf(b, 1) = TextOf(Resolves[schemas[c].file][x])
<1>1. c \in 1..Len(schemas)
  BY DEF Right
<1>2. /\ b \in 2..Len(schemas) /\ b > c /\ schemas[b].result = "ok" /\ Len(schemas[b].said) = 1
  BY <1>1, ImportReady
<1>3. b \in 1..Len(schemas) /\ b # 1
  BY <1>2 DEF IInv, TypeOK
<1>4. schemas[b].file = Resolves[schemas[c].file][x]
  BY <1>1 DEF IInv, ImportsAreSound
<1> QED BY <1>2, <1>3, <1>4 DEF Right, PlaceOf

\* Which definition an occurrence is a copy of: the one whose cell is v.
CopyOf(o, v) ==
    \E c, j, s : Says(c, j, s) /\ s.op = "def" /\ o = Occ(c, j, s) /\ v = OwnCellOf(c, s)
Stems(c, j, s, k, x, v) ==
    \E o \in Reached(Passes(x), Occ(c, j, s)) :
        Origin(o.says, k, x) /\ (k # "schema" => CopyOf(o, v))
AllStem(c) ==
    \A j, s : Says(c, j, s) => \A m \in Makes(c, s) : Stems(c, j, s, m.kind, m.name, m.value)

LEMMA PassedOn ==
  ASSUME IInv, TextsSaid, DeclsKept, NEW c, NEW j, NEW s, Says(c, j, s), s.op = "import",
         NEW b, b = schemas[c].imports[s.from], NEW t, Says(b, 1, t), NEW x,
         Listed(s, x, t.export)
  PROVE <<Occ(c, j, s), Occ(b, 1, t)>> \in Passes(x)
<1>1. s \in Import \cup Def /\ Imported(c, s) /\ Right(c)
  BY SaysFacts DEF Says
<1>2. s.from \in Name /\ b # 0
  BY <1>1, StatementFields DEF Imported
<1>3. PlaceOf(b, 1) = TextOf(Resolves[schemas[c].file][s.from])
  BY <1>1, <1>2, ImportRight
<1>4. PICK a, o : a = Occ(c, j, s) /\ o = Occ(b, 1, t)
  OBVIOUS
<1>5. a \in Statement /\ a.says = s /\ a.at.file = schemas[c].file
  BY <1>4, OccFacts
<1>6. o \in Stated(PlaceOf(b, 1)) /\ o.says = t
  BY <1>4, OccFacts
<1>7. o \in {e \in Stated(TextOf(Resolves[a.at.file][a.says.from])) : Listed(a.says, x, e.says.export)}
  BY <1>3, <1>5, <1>6
<1>8. a \in {e \in Statement : e.says.op = "import"}
  BY <1>5
<1>9. <<a, o>> \in Passes(x)
  BY <1>7, <1>8 DEF Passes
<1> QED BY <1>4, <1>9

LEMMA StemsHere ==
  ASSUME IInv, TextsSaid, DeclsFit, DeclsMade, DeclsKept, NEW c, Right(c),
         \A b : Right(b) /\ b > c => AllStem(b)
  PROVE AllStem(c)
<1>1. SUFFICES ASSUME NEW j, NEW s, Says(c, j, s), NEW m \in Makes(c, s)
               PROVE Stems(c, j, s, m.kind, m.name, m.value)
  BY DEF AllStem
<1>2. s \in Import \cup Def /\ Imported(c, s)
  BY <1>1, SaysFacts
<1>3. PICK o : o = Occ(c, j, s) /\ o.says = s
  BY <1>1, OccFacts
<1>4. o \in Reached(Passes(m.name), o)
  BY ReachedSelf
<1>5. CASE s.op = "def"
  <2>1. /\ m.kind = s.kind /\ m.name = s.name /\ m.value = OwnCellOf(c, s)
    BY <1>1, <1>5 DEF Makes
  <2>2. CopyOf(o, m.value)
    BY <1>1, <1>3, <1>5, <2>1 DEF CopyOf
  <2>3. Origin(o.says, m.kind, m.name)
    BY <1>3, <1>5, <2>1 DEF Origin
  <2> QED BY <1>3, <1>4, <2>2, <2>3 DEF Stems
<1>6. CASE s.op # "def" /\ s.list = "none"
  <2>1. m.kind = "schema" /\ m.name = s.from
    BY <1>1, <1>6 DEF Makes
  <2>2. Origin(o.says, m.kind, m.name)
    BY <1>3, <1>6, <2>1 DEF Origin
  <2> QED BY <1>3, <1>4, <2>1, <2>2 DEF Stems
<1>7. CASE s.op # "def" /\ s.list # "none"
  <2>1. PICK b : b = schemas[c].imports[s.from]
    OBVIOUS
  <2>2. s.op = "import" /\ s.from \in Name /\ b # 0
    BY <1>2, <1>7, <2>1, StatementFields DEF Imported
  <2>3. Right(b) /\ b > c /\ b \in 2..Len(schemas) /\ Len(schemas[b].said) = 1
    BY <2>1, <2>2, ImportRight
  <2>4. PICK d \in schemas[b].decls : Listed(s, d.name, d.public) /\ m = As(s, d)
    BY <1>1, <1>7, <2>1, <2>2 DEF Makes
  <2>5. b \in 1..Len(schemas)
    BY <2>3 DEF Right
  <2>6. PICK t : t \in Said(b, 1) /\ Bare(d) \in Makes(b, t)
    <3>1. PICK i \in 1..Len(schemas[b].said) : \E t \in Said(b, i) : Bare(d) \in Makes(b, t)
      BY <2>5 DEF DeclsMade
    <3>2. i = 1
      BY <2>3
    <3> QED BY <3>1, <3>2
  <2>7. Says(b, 1, t)
    BY <2>3, <2>6 DEF Says
  <2>8. PICK e : e = Bare(d) /\ e \in Makes(b, t)
    BY <2>6
  <2>9. e.kind = d.kind /\ e.name = d.name /\ e.value = d.value /\ e.public = d.public
    BY <2>8 DEF Bare
  <2>10. m.kind = d.kind /\ m.name = d.name /\ m.value = d.value
    BY <2>4 DEF As
  <2>11. d.public = t.export
    BY <2>5, <2>7, <2>8, <2>9, SaysFacts, MakesKind
  <2>12. Stems(b, 1, t, m.kind, m.name, m.value)
    <3>1. AllStem(b)
      BY <2>3
    <3> QED BY <2>7, <2>8, <2>9, <2>10, <3>1 DEF AllStem
  <2>13. PICK u \in Reached(Passes(m.name), Occ(b, 1, t)) :
            Origin(u.says, m.kind, m.name) /\ (m.kind # "schema" => CopyOf(u, m.value))
    BY <2>12 DEF Stems
  <2>14. <<o, Occ(b, 1, t)>> \in Passes(m.name)
    BY <1>1, <1>3, <2>1, <2>2, <2>4, <2>7, <2>10, <2>11, PassedOn
  <2>15. Occ(b, 1, t) \in Reached(Passes(m.name), o)
    BY <1>4, <2>14, ReachedNext
  <2>16. u \in Reached(Passes(m.name), o)
    BY <2>13, <2>15, ReachedOn
  <2> QED BY <1>3, <2>13, <2>16 DEF Stems
<1> QED BY <1>5, <1>6, <1>7

\* What a statement makes stems from a definition.
LEMMA MadeStems ==
  ASSUME IInv, TextsSaid, DeclsFit, DeclsMade, DeclsKept, NEW c, Right(c)
  PROVE AllStem(c)
<1> DEFINE Astray == {n \in Nat : \E b \in 1..Len(schemas) : n + b = Len(schemas) /\ Right(b) /\ ~AllStem(b)}
<1>1. Len(schemas) \in Nat
  BY DEF IInv, TypeOK
<1>2. ASSUME Astray # {} PROVE FALSE
  <2>1. PICK n \in Astray : \A l \in Astray : n <= l
    BY <1>2, LeastOne
  <2>2. PICK b \in 1..Len(schemas) : n + b = Len(schemas) /\ Right(b) /\ ~AllStem(b)
    OBVIOUS
  <2>3. ASSUME NEW a, Right(a), a > b, ~AllStem(a) PROVE FALSE
    <3>1. a \in 1..Len(schemas)
      BY <2>3 DEF Right
    <3>2. PICK l : l = Len(schemas) - a
      OBVIOUS
    <3>3. l \in Nat /\ l + a = Len(schemas) /\ l < n
      BY <1>1, <2>2, <2>3, <3>1, <3>2
    <3>4. l \in Astray
      BY <2>3, <3>1, <3>3
    <3> QED BY <2>1, <3>3, <3>4
  <2> QED BY <2>2, <2>3, StemsHere
<1>3. ASSUME ~AllStem(c) PROVE FALSE
  <2>1. c \in 1..Len(schemas)
    BY DEF Right
  <2>2. PICK n : n = Len(schemas) - c
    OBVIOUS
  <2>3. n \in Nat /\ n + c = Len(schemas)
    BY <1>1, <2>1, <2>2
  <2>4. n \in Astray
    BY <1>3, <2>1, <2>3
  <2> QED BY <1>2, <2>4
<1> QED BY <1>3

\* And what a definition passes on is made by the statement.
Remakes(b, t, c, s, x) ==
    \A e \in Makes(b, t) : e.name = x =>
        \E m \in Makes(c, s) : m.kind = e.kind /\ m.name = x /\ m.value = e.value

LEMMA RemakesOn ==
  ASSUME IInv, TextsSaid, DeclsFit, DeclsKept, NEW x, NEW c, NEW s,
         NEW a, NEW l, NEW r, Says(a, l, r), r.op = "import", Remakes(a, r, c, s, x),
         NEW o \in Stated(TextOf(Resolves[schemas[a].file][r.from])), Listed(r, x, o.says.export)
  PROVE \E b, t : Says(b, 1, t) /\ o = Occ(b, 1, t) /\ Remakes(b, t, c, s, x)
<1>1. r \in Import \cup Def /\ Imported(a, r) /\ Right(a)
  BY SaysFacts DEF Says
<1>2. PICK b : b = schemas[a].imports[r.from]
  OBVIOUS
<1>3. r.from \in Name /\ b # 0
  BY <1>1, <1>2, StatementFields DEF Imported
<1>4. /\ Right(b) /\ Len(schemas[b].said) = 1 /\ b \in 1..Len(schemas)
      /\ PlaceOf(b, 1) = TextOf(Resolves[schemas[a].file][r.from])
  BY <1>1, <1>2, <1>3, ImportRight DEF Right
<1>5. PICK t \in Said(b, 1) : o = Occ(b, 1, t)
  <2>1. 1 \in 1..Len(schemas[b].said)
    BY <1>4
  <2>2. PICK n, e : n = 1 /\ e = o /\ n \in 1..Len(schemas[b].said) /\ e \in Stated(PlaceOf(b, n))
    BY <1>4, <2>1
  <2>3. \A m \in 1..Len(schemas[b].said) : \A u : u \in Stated(PlaceOf(b, m)) <=>
                \E i \in 1..m : \E t \in Said(b, i) : u = Occ(b, i, t)
    BY <1>4, PlaceFacts
  <2> QED BY <2>2, <2>3
<1>6. Says(b, 1, t) /\ o.says = t
  BY <1>4, <1>5 DEF Says, Occ
<1>7. ASSUME NEW e \in Makes(b, t), e.name = x
      PROVE \E m \in Makes(c, s) : m.kind = e.kind /\ m.name = x /\ m.value = e.value
  <2>1. PICK d \in schemas[b].decls : Bare(d) = e
    <3>1. Clean(b) /\ t \in DeclaredIn(b, 1) /\ 1 \in 1..Len(schemas[b].said)
      BY <1>4, <1>5, RightFacts
    <3> QED BY <1>4, <1>7, <3>1 DEF DeclsKept, Keeps
  <2>2. e.kind = d.kind /\ e.name = d.name /\ e.value = d.value /\ e.public = d.public
    BY <2>1 DEF Bare
  <2>3. t \in Import \cup Def
    BY <1>6, SaysFacts
  <2>4. e.public = t.export
    BY <1>4, <1>7, <2>3, MakesKind
  <2>5. Listed(r, d.name, d.public)
    BY <1>6, <1>7, <2>2, <2>4
  <2>6. PICK f : f = As(r, d)
    OBVIOUS
  <2>7. f.kind = d.kind /\ f.name = d.name /\ f.value = d.value
    BY <2>6 DEF As
  <2>8. r.list # "none"
    BY SMTT(30) DEF Listed
  <2>9. f \in Makes(a, r)
    BY <1>2, <1>3, <2>1, <2>5, <2>6, <2>8 DEF Makes
  <2> QED BY <1>7, <2>2, <2>7, <2>9 DEF Remakes
<1> QED BY <1>5, <1>6, <1>7 DEF Remakes

MakesOf(c, s, o, k, x) ==
    \E m \in Makes(c, s) : m.kind = k /\ m.name = x /\ (k # "schema" => CopyOf(o, m.value))

LEMMA StemsMade ==
  ASSUME IInv, TextsSaid, DeclsFit, DeclsKept, NEW c, NEW j, NEW s, Says(c, j, s), NEW k, NEW x,
         NEW o \in Reached(Passes(x), Occ(c, j, s)), Origin(o.says, k, x)
  PROVE MakesOf(c, s, o, k, x)
<1> DEFINE Z == {e \in Statement : \E b, l, t :
                    Says(b, l, t) /\ e = Occ(b, l, t) /\ Remakes(b, t, c, s, x)}
<1>1. Occ(c, j, s) \in Z
  <2>1. Remakes(c, s, c, s, x)
    BY DEF Remakes
  <2> QED BY <2>1, OccFacts
<1>2. ASSUME NEW e \in Passes(x), e[1] \in Z PROVE e[2] \in Z
  <2>1. PICK a, u : /\ e = <<a, u>> /\ a \in Statement /\ a.says.op = "import"
                    /\ u \in Stated(TextOf(Resolves[a.at.file][a.says.from]))
                    /\ Listed(a.says, x, u.says.export)
    BY <1>2 DEF Passes
  <2>2. e[1] = a /\ e[2] = u
    BY <2>1
  <2>3. PICK b, l, t : Says(b, l, t) /\ a = Occ(b, l, t) /\ Remakes(b, t, c, s, x)
    BY <1>2, <2>2
  <2>4. a.says = t /\ a.at.file = schemas[b].file
    BY <2>3, OccFacts
  <2>5. /\ u \in Stated(TextOf(Resolves[schemas[b].file][t.from]))
        /\ t.op = "import" /\ Listed(t, x, u.says.export)
    BY <2>1, <2>4
  <2>6. \E d, r : Says(d, 1, r) /\ u = Occ(d, 1, r) /\ Remakes(d, r, c, s, x)
    BY <2>3, <2>5, RemakesOn
  <2> QED BY <2>2, <2>6, OccFacts
<1>3. o \in Z
  BY <1>1, <1>2, ReachedWithin
<1>4. PICK b, l, t : Says(b, l, t) /\ o = Occ(b, l, t) /\ Remakes(b, t, c, s, x)
  BY <1>3
<1>5. o.says = t
  BY <1>4, OccFacts
<1> HIDE DEF Z
<1>6. CASE t.op = "def"
  <2>1. PICK e : e = [kind |-> t.kind, name |-> t.name, public |-> t.export, value |-> OwnCellOf(b, t)]
    OBVIOUS
  <2>2. e \in Makes(b, t) /\ e.kind = t.kind /\ e.name = t.name /\ e.value = OwnCellOf(b, t)
    BY <1>6, <2>1 DEF Makes
  <2>3. t.kind = k /\ t.name = x
    BY <1>5, <1>6 DEF Origin
  <2>4. CopyOf(o, e.value)
    BY <1>4, <1>6, <2>2 DEF CopyOf
  <2> QED BY <1>4, <2>2, <2>3, <2>4 DEF Remakes, MakesOf
<1>7. CASE t.op # "def"
  <2>1. t.list = "none" /\ k = "schema" /\ t.from = x
    BY <1>5, <1>7 DEF Origin
  <2>2. PICK e : e = [kind |-> "schema", name |-> t.from, public |-> t.export, value |-> t.from]
    OBVIOUS
  <2>3. e \in Makes(b, t) /\ e.kind = "schema" /\ e.name = x
    BY <1>7, <2>1, <2>2 DEF Makes
  <2> QED BY <1>4, <2>1, <2>3 DEF Remakes, MakesOf
<1> QED BY <1>6, <1>7

\* A name that a schema shows is declared at the place, and the other way round.
LEMMA DeclaresOf ==
  ASSUME NEW p, NEW k, NEW x, NEW d
  PROVE d \in Declares(p, k, x) <=>
          \E a \in Stated(p) : \E b \in Reached(Passes(x), a) :
            Origin(b.says, k, x) /\ d = [public |-> a.says.export, by |-> b]
  BY DEF Declares

LEMMA ShownDeclared ==
  ASSUME IInv, TextsSaid, DeclsFit, DeclsMade, DeclsKept, NEW c, Right(c),
         NEW j \in 1..Len(schemas[c].said), NEW k, NEW x, NEW m, NEW v, Shows(c, j, k, x, m, v)
  PROVE \E d \in Declares(PlaceOf(c, j), k, x) : Open(d, m) /\ (k # "schema" => CopyOf(d.by, v))
<1>1. PICK i \in 1..j : \E s \in Said(c, i) : \E e \in Makes(c, s) :
         e.kind = k /\ e.name = x /\ e.value = v /\ Open(e, m)
  BY DEF Shows
<1>2. PICK s \in Said(c, i) : \E e \in Makes(c, s) :
         e.kind = k /\ e.name = x /\ e.value = v /\ Open(e, m)
  BY <1>1
<1>3. PICK e \in Makes(c, s) : e.kind = k /\ e.name = x /\ e.value = v /\ Open(e, m)
  BY <1>2
<1>4. c \in 1..Len(schemas) /\ i \in 1..Len(schemas[c].said)
  BY SaidFacts DEF Right
<1>5. Says(c, i, s)
  BY <1>4 DEF Says
<1>6. e.public = s.export
  BY <1>4, <1>5, SaysFacts, MakesKind
<1>7. Stems(c, i, s, e.kind, e.name, e.value)
  BY <1>5, MadeStems DEF AllStem
<1>8. PICK a : a = Occ(c, i, s) /\ a.says = s
  BY <1>5, OccFacts
<1>9. PICK b \in Reached(Passes(x), a) : Origin(b.says, k, x) /\ (k # "schema" => CopyOf(b, v))
  BY <1>3, <1>7, <1>8 DEF Stems
<1>10. a \in Stated(PlaceOf(c, j))
  BY <1>4, <1>8, PlaceFacts
<1>11. PICK d : d = [public |-> s.export, by |-> b]
  OBVIOUS
<1>12. d \in Declares(PlaceOf(c, j), k, x)
  BY <1>8, <1>9, <1>10, <1>11, DeclaresOf
<1>13. d.public = e.public /\ d.by = b
  BY <1>6, <1>11
<1>14. Open(d, m)
  BY <1>3, <1>13 DEF Open
<1> QED BY <1>9, <1>12, <1>13, <1>14

LEMMA DeclaredShown ==
  ASSUME IInv, TextsSaid, DeclsFit, DeclsMade, DeclsKept, NEW c, Right(c),
         NEW j \in 1..Len(schemas[c].said), NEW k, NEW x, NEW m,
         NEW d \in Declares(PlaceOf(c, j), k, x), Open(d, m)
  PROVE \E v : /\ Shows(c, j, k, x, m, v)
               /\ IF k = "schema" THEN v = x ELSE CopyOf(d.by, v)
<1>1. PICK a, b : /\ a \in Stated(PlaceOf(c, j)) /\ b \in Reached(Passes(x), a)
                  /\ Origin(b.says, k, x) /\ d = [public |-> a.says.export, by |-> b]
  BY DeclaresOf
<1>2. c \in 1..Len(schemas)
  BY DEF Right
<1>3. PICK i, s : i \in 1..j /\ s \in Said(c, i) /\ a = Occ(c, i, s)
  BY <1>1, <1>2, PlaceFacts
<1>4. i \in 1..Len(schemas[c].said)
  BY <1>2, <1>3, SaidFacts
<1>5. Says(c, i, s)
  BY <1>3, <1>4 DEF Says
<1>6. a.says = s
  BY <1>3, <1>5, OccFacts
<1>7. PICK e \in Makes(c, s) : e.kind = k /\ e.name = x /\ (k # "schema" => CopyOf(b, e.value))
  <2>1. b \in Reached(Passes(x), Occ(c, i, s)) /\ Origin(b.says, k, x)
    BY <1>1, <1>3
  <2>2. MakesOf(c, s, b, k, x)
    BY <1>5, <2>1, StemsMade
  <2> QED BY <2>2 DEF MakesOf
<1>8. e.public = s.export /\ (k = "schema" => e.value = x)
  BY <1>2, <1>5, <1>7, SaysFacts, MakesKind
<1>9. d.public = e.public /\ d.by = b
  BY <1>1, <1>6, <1>8
<1>10. Open(e, m)
  BY <1>9 DEF Open
<1>11. Shows(c, j, k, x, m, e.value)
  BY <1>3, <1>7, <1>10 DEF Shows
<1> QED BY <1>7, <1>8, <1>9, <1>11

LEMMA LackedUndeclared ==
  ASSUME IInv, TextsSaid, DeclsFit, DeclsMade, DeclsKept, NEW c, Right(c),
         NEW j \in 1..Len(schemas[c].said), NEW k, NEW x
  PROVE Lacks(c, j, k, x) <=> Declares(PlaceOf(c, j), k, x) = {}
<1>1. Lacks(c, j, k, x) <=> ~\E v : Shows(c, j, k, x, 1, v)
  <2>1. ASSUME NEW v, Shows(c, j, k, x, 1, v) PROVE ~Lacks(c, j, k, x)
    BY <2>1 DEF Lacks, Shows
  <2>2. ASSUME ~Lacks(c, j, k, x) PROVE \E v : Shows(c, j, k, x, 1, v)
    <3>1. PICK i, s, e : /\ i \in 1..j /\ s \in Said(c, i) /\ e \in Makes(c, s)
                         /\ e.kind = k /\ e.name = x
      BY <2>2 DEF Lacks
    <3>2. Open(e, 1)
      BY DEF Open
    <3>3. Shows(c, j, k, x, 1, e.value)
      BY <3>1, <3>2 DEF Shows
    <3> QED BY <3>3
  <2> QED BY <2>1, <2>2
<1>2. ASSUME NEW v, Shows(c, j, k, x, 1, v) PROVE Declares(PlaceOf(c, j), k, x) # {}
  BY <1>2, ShownDeclared
<1>3. ASSUME NEW d \in Declares(PlaceOf(c, j), k, x) PROVE \E v : Shows(c, j, k, x, 1, v)
  <2>1. Open(d, 1)
    BY DEF Open
  <2> QED BY <2>1, DeclaredShown
<1> QED BY <1>1, <1>2, <1>3

\* A schema that came out right declares a name once.
LEMMA ShowsOne ==
  ASSUME IInv, TextsSaid, DeclsFit, DeclsKept, NEW c, Right(c),
         NEW j \in 1..Len(schemas[c].said), NEW k, NEW x, NEW m, NEW v, NEW u,
         Shows(c, j, k, x, m, v), Shows(c, j, k, x, m, u)
  PROVE u = v
<1>1. c \in 1..Len(schemas) /\ Clean(c) /\ Len(schemas[c].said) \in Nat
  BY SaidFacts, RightFacts
<1>2. ASSUME NEW w, Shows(c, j, k, x, m, w)
      PROVE \E d \in schemas[c].decls : d.kind = k /\ d.name = x /\ d.value = w
  <2>1. PICK i, s, e : /\ i \in 1..j /\ s \in Said(c, i) /\ e \in Makes(c, s)
                       /\ e.kind = k /\ e.name = x /\ e.value = w
    BY <1>2 DEF Shows
  <2>2. i \in 1..Len(schemas[c].said) /\ s \in DeclaredIn(c, i)
    BY <1>1, <2>1, RightFacts
  <2>3. PICK d \in schemas[c].decls : Bare(d) = e
    BY <1>1, <2>1, <2>2 DEF DeclsKept, Keeps
  <2>4. e.kind = d.kind /\ e.name = d.name /\ e.value = d.value
    BY <2>3 DEF Bare
  <2> QED BY <2>1, <2>4
<1>3. PICK d \in schemas[c].decls : d.kind = k /\ d.name = x /\ d.value = v
  BY <1>2
<1>4. PICK e \in schemas[c].decls : e.kind = k /\ e.name = x /\ e.value = u
  BY <1>2
<1>5. d = e
  BY <1>1, <1>3, <1>4 DEF DeclsFit
<1> QED BY <1>3, <1>4, <1>5

\* There is one walk from a place along a path: the places of the schemas on the way.
LEMMA WalksOne ==
  ASSUME NEW p, NEW path \in Seq(Name), NEW w \in Walks(p, path), NEW u \in Walks(p, path),
         NEW i \in 1..Len(path)
  PROVE w[i] = u[i]
<1> DEFINE Apart == {n \in Nat : n \in 1..Len(path) /\ w[n] # u[n]}
<1>1. Len(path) \in Nat
  OBVIOUS
<1>2. /\ w[1] = p /\ u[1] = p
      /\ \A n \in 1..Len(path) - 1 : /\ w[n + 1] = TextOf(Resolves[w[n].file][path[n]])
                                     /\ u[n + 1] = TextOf(Resolves[u[n].file][path[n]])
  BY DEF Walks
<1>3. ASSUME Apart # {} PROVE FALSE
  <2>1. PICK n \in Apart : \A m \in Apart : n <= m
    BY <1>3, LeastOne
  <2>2. n \in 1..Len(path) /\ w[n] # u[n]
    OBVIOUS
  <2>3. n # 1
    BY <1>2, <2>2
  <2>4. PICK m : m = n - 1
    OBVIOUS
  <2>5. m \in 1..Len(path) - 1 /\ m + 1 = n /\ m \in Nat /\ m < n /\ m \in 1..Len(path)
    BY <1>1, <2>2, <2>3, <2>4
  <2>6. w[m] = u[m]
    <3>1. m \notin Apart
      BY <2>1, <2>5
    <3> QED BY <2>5, <3>1
  <2>7. w[m + 1] = u[m + 1]
    BY <1>2, <2>5, <2>6
  <2> QED BY <2>2, <2>5, <2>7
<1>4. i \in Nat
  BY <1>1
<1> QED BY <1>3, <1>4

LEMMA WalkRight ==
  ASSUME IInv, TextsSaid, DeclsKept, NEW c, Right(c), NEW j \in 1..Len(schemas[c].said), NEW k,
         NEW path \in Seq(Name), NEW n \in 1..Len(path), NEW u, IsWalk(u, c, j, k, path, n),
         NEW m \in 1..n
  PROVE /\ Right(u[m]) /\ u[m] \in 1..Len(schemas)
        /\ InputAt(j, m) \in 1..Len(schemas[u[m]].said)
        /\ PlaceOf(u[m], InputAt(j, m)) \in Places
        /\ PlaceOf(u[m], InputAt(j, m)).file = schemas[u[m]].file
<1>1. Ready(c, j)
  BY RightFacts
<1>2. /\ Ready(u[m], InputAt(j, m)) /\ u[m] \in 1..Len(schemas)
      /\ m # 1 => schemas[u[m]].result = "ok"
  <2>1. PICK b, l : b = c /\ l = j
    OBVIOUS
  <2>2. Ready(b, l) /\ IsWalk(u, b, l, k, path, n)
    BY <1>1, <2>1
  <2>3. /\ Ready(u[m], InputAt(l, m)) /\ u[m] \in 1..Len(schemas)
        /\ m # 1 => schemas[u[m]].result = "ok"
    BY <2>2, WalkReady
  <2> QED BY <2>1, <2>3
<1>3. m = 1 => u[m] = c
  BY DEF IsWalk
<1>4. Right(u[m])
  BY <1>2, <1>3 DEF Right
<1>5. InputAt(j, m) \in 1..Len(schemas[u[m]].said)
  BY <1>2 DEF Ready
<1>6. PICK a, l : a = u[m] /\ l = InputAt(j, m)
  OBVIOUS
<1>7. PlaceOf(a, l) \in Places /\ PlaceOf(a, l).file = schemas[a].file
  BY <1>2, <1>5, <1>6, PlaceFacts
<1> QED BY <1>2, <1>4, <1>5, <1>6, <1>7

LEMMA WalkPlaces ==
  ASSUME IInv, TextsSaid, DeclsKept, NEW c, Right(c), NEW j \in 1..Len(schemas[c].said), NEW k,
         NEW path \in Seq(Name), NEW n \in 1..Len(path), n = Len(path),
         NEW u, IsWalk(u, c, j, k, path, n)
  PROVE [m \in 1..Len(path) |-> PlaceOf(u[m], InputAt(j, m))] \in Walks(PlaceOf(c, j), path)
<1>1. PICK w : w = [m \in 1..n |-> PlaceOf(u[m], InputAt(j, m))]
  OBVIOUS
<1>2. /\ \A m \in 1..n : w[m] = PlaceOf(u[m], InputAt(j, m))
      /\ 1 \in 1..n /\ n \in Nat /\ \A m \in 1..n - 1 : m \in 1..n /\ m + 1 \in 1..n
  BY <1>1
<1>3. \A m \in 1..n : /\ PlaceOf(u[m], InputAt(j, m)) \in Places
                      /\ PlaceOf(u[m], InputAt(j, m)).file = schemas[u[m]].file
  BY WalkRight
<1>4. ASSUME NEW m \in 1..n - 1
      PROVE PlaceOf(u[m + 1], InputAt(j, m + 1)) = TextOf(Resolves[schemas[u[m]].file][path[m]])
  <2>1. m \in 1..n /\ m \in 1..Len(path) /\ m + 1 # 1
    OBVIOUS
  <2>2. GoesOn(u[m], InputAt(j, m), k, path[m], m, u[m + 1])
    BY DEF IsWalk
  <2>3. Right(u[m])
    BY <2>1, WalkRight
  <2>4. PICK a, b, x : a = u[m] /\ b = u[m + 1] /\ x = path[m]
    OBVIOUS
  <2>5. Right(a) /\ x \in Name /\ b # 0 /\ b = schemas[a].imports[x]
    BY <2>1, <2>2, <2>3, <2>4 DEF GoesOn
  <2>6. PlaceOf(b, 1) = TextOf(Resolves[schemas[a].file][x])
    BY <2>5, ImportRight
  <2>7. InputAt(j, m + 1) = 1
    BY <2>1 DEF InputAt
  <2> QED BY <2>4, <2>6, <2>7
<1>5. w \in [1..n -> Places]
  BY <1>1, <1>3
<1>6. w[1] = PlaceOf(c, j)
  <2>1. u[1] = c /\ InputAt(j, 1) = j
    BY DEF IsWalk, InputAt
  <2> QED BY <1>2, <2>1
<1>7. ASSUME NEW m \in 1..n - 1 PROVE w[m + 1] = TextOf(Resolves[w[m].file][path[m]])
  <2>1. m \in 1..n /\ w[m] = PlaceOf(u[m], InputAt(j, m)) /\ w[m + 1] = PlaceOf(u[m + 1], InputAt(j, m + 1))
    BY <1>2
  <2>2. w[m].file = schemas[u[m]].file
    BY <1>3, <2>1
  <2>3. w[m + 1] = TextOf(Resolves[schemas[u[m]].file][path[m]])
    BY <1>4, <2>1
  <2> QED BY <2>2, <2>3
<1>8. w \in Walks(PlaceOf(c, j), path)
  BY <1>5, <1>6, <1>7 DEF Walks
<1> QED BY <1>1, <1>8

\* What a path refers to at a place, and what the compiler has found for it.
Stands(t, v) == CopyOf(t, v) \/ (t \in Builtin /\ t = v)

LEMMA RefersOf ==
  ASSUME NEW p, NEW k, NEW path, NEW t
  PROVE t \in Refers(p, k, path) <=>
          \E w \in Walks(p, path) :
             /\ \A i \in 1..Len(path) - 1 : Follows(w[i], k, path[i], i)
             /\ t \in Finds(w[Len(path)], k, path[Len(path)], Len(path))
  BY DEF Refers

LEMMA FindsOf ==
  ASSUME NEW p, NEW k, NEW x, NEW i, NEW t
  PROVE t \in Finds(p, k, x, i) <=>
          \/ \E d \in Declares(p, k, x) : Open(d, i) /\ t = d.by
          \/ /\ Declares(p, k, x) = {} /\ Declares(p, "schema", x) = {}
             /\ t \in Builtin /\ t = [kind |-> k, name |-> x]
  BY DEF Finds

LEMMA FollowsOn ==
  ASSUME IInv, TextsSaid, DeclsFit, DeclsMade, DeclsKept, NEW c, Right(c),
         NEW j \in 1..Len(schemas[c].said), NEW k, NEW x, NEW m, NEW b, GoesOn(c, j, k, x, m, b)
  PROVE Follows(PlaceOf(c, j), k, x, m)
<1>1. Declares(PlaceOf(c, j), k, x) = {}
  BY LackedUndeclared DEF GoesOn
<1>2. \E d \in Declares(PlaceOf(c, j), "schema", x) : Open(d, m)
  BY ShownDeclared DEF GoesOn
<1> QED BY <1>1, <1>2 DEF Follows

LEMMA EndFound ==
  ASSUME IInv, TextsSaid, DeclsFit, DeclsMade, DeclsKept, NEW c, Right(c),
         NEW j \in 1..Len(schemas[c].said), NEW k, k # "schema", NEW x, NEW m, NEW v,
         Ends(c, j, k, x, m, v)
  PROVE \E t \in Finds(PlaceOf(c, j), k, x, m) : Stands(t, v)
<1>1. CASE Shows(c, j, k, x, m, v)
  <2>1. PICK d \in Declares(PlaceOf(c, j), k, x) : Open(d, m) /\ CopyOf(d.by, v)
    BY <1>1, ShownDeclared
  <2> QED BY <2>1, FindsOf DEF Stands
<1>2. CASE ~Shows(c, j, k, x, m, v)
  <2>1. /\ Lacks(c, j, k, x) /\ Lacks(c, j, "schema", x)
        /\ v \in Builtin /\ v = [kind |-> k, name |-> x]
    BY <1>2 DEF Ends
  <2>2. Declares(PlaceOf(c, j), k, x) = {} /\ Declares(PlaceOf(c, j), "schema", x) = {}
    BY <2>1, LackedUndeclared
  <2> QED BY <2>1, <2>2, FindsOf DEF Stands
<1> QED BY <1>1, <1>2

LEMMA FoundEnd ==
  ASSUME IInv, TextsSaid, DeclsFit, DeclsMade, DeclsKept, NEW c, Right(c),
         NEW j \in 1..Len(schemas[c].said), NEW k, k # "schema", NEW x, NEW m, NEW v,
         Ends(c, j, k, x, m, v), NEW t \in Finds(PlaceOf(c, j), k, x, m)
  PROVE Stands(t, v)
<1>1. CASE \E d \in Declares(PlaceOf(c, j), k, x) : Open(d, m) /\ t = d.by
  <2>1. PICK d \in Declares(PlaceOf(c, j), k, x) : Open(d, m) /\ t = d.by
    BY <1>1
  <2>2. PICK u : Shows(c, j, k, x, m, u) /\ CopyOf(t, u)
    BY <2>1, DeclaredShown
  <2>3. ~Lacks(c, j, k, x)
    BY <2>1, LackedUndeclared
  <2>4. Shows(c, j, k, x, m, v)
    BY <2>3 DEF Ends
  <2>5. u = v
    BY <2>2, <2>4, ShowsOne
  <2> QED BY <2>2, <2>5 DEF Stands
<1>2. CASE ~\E d \in Declares(PlaceOf(c, j), k, x) : Open(d, m) /\ t = d.by
  <2>1. Declares(PlaceOf(c, j), k, x) = {} /\ t \in Builtin /\ t = [kind |-> k, name |-> x]
    BY <1>2, FindsOf
  <2>2. ~Shows(c, j, k, x, m, v)
    BY <2>1, ShownDeclared
  <2>3. v = [kind |-> k, name |-> x]
    BY <2>2 DEF Ends
  <2> QED BY <2>1, <2>3 DEF Stands
<1> QED BY <1>1, <1>2

\* The walk of a path that is found goes to the place where it ends, and follows schemas.
LEMMA RefersWalk ==
  ASSUME IInv, TextsSaid, DeclsFit, DeclsMade, DeclsKept, NEW c, Right(c),
         NEW j \in 1..Len(schemas[c].said), NEW k, NEW path \in Seq(Name), path # <<>>, NEW v,
         RefersTo(c, j, k, path, v)
  PROVE \E w \in Walks(PlaceOf(c, j), path) : \E a, l :
          /\ Right(a) /\ l \in 1..Len(schemas[a].said) /\ w[Len(path)] = PlaceOf(a, l)
          /\ Ends(a, l, k, path[Len(path)], Len(path), v)
          /\ \A i \in 1..Len(path) - 1 : Follows(w[i], k, path[i], i)
<1>1. PICK n : n = Len(path)
  OBVIOUS
<1>2. n \in 1..Len(path) /\ n \in Nat
  BY <1>1
<1>3. PICK a : Leads(c, j, k, path, n, a) /\ Ends(a, InputAt(j, n), k, path[n], n, v)
  BY <1>1 DEF RefersTo
<1>4. PICK u : IsWalk(u, c, j, k, path, n) /\ u[n] = a
  BY <1>3 DEF Leads, IsWalk
<1>5. PICK w : w = [m \in 1..Len(path) |-> PlaceOf(u[m], InputAt(j, m))]
  OBVIOUS
<1>6. w \in Walks(PlaceOf(c, j), path)
  <2>1. [m \in 1..Len(path) |-> PlaceOf(u[m], InputAt(j, m))] \in Walks(PlaceOf(c, j), path)
    BY <1>1, <1>2, <1>4, WalkPlaces
  <2> QED BY <1>5, <2>1
<1>7. \A m \in 1..n : Right(u[m]) /\ InputAt(j, m) \in 1..Len(schemas[u[m]].said)
  BY <1>2, <1>4, WalkRight
<1>8. ASSUME NEW m \in 1..Len(path) - 1 PROVE Follows(w[m], k, path[m], m)
  <2>1. m \in 1..n - 1 /\ m \in 1..n
    BY <1>1, <1>2
  <2>2. GoesOn(u[m], InputAt(j, m), k, path[m], m, u[m + 1])
    BY <1>4, <2>1 DEF IsWalk
  <2>3. PICK b, l : b = u[m] /\ l = InputAt(j, m)
    OBVIOUS
  <2>4. Right(b) /\ l \in 1..Len(schemas[b].said)
    BY <1>7, <2>1, <2>3
  <2>5. Follows(PlaceOf(b, l), k, path[m], m)
    BY <2>2, <2>3, <2>4, FollowsOn
  <2>6. w[m] = PlaceOf(b, l)
    BY <1>1, <1>5, <2>1, <2>3
  <2> QED BY <2>5, <2>6
<1>9. PICK l : l = InputAt(j, n)
  OBVIOUS
<1>10. n \in 1..n /\ w[n] = PlaceOf(a, l)
  BY <1>1, <1>2, <1>4, <1>5, <1>9
<1>11. Right(a) /\ l \in 1..Len(schemas[a].said) /\ Ends(a, l, k, path[n], n, v)
  BY <1>3, <1>4, <1>7, <1>9, <1>10
<1> QED BY <1>1, <1>6, <1>8, <1>10, <1>11

LEMMA RefersFound ==
  ASSUME IInv, TextsSaid, DeclsFit, DeclsMade, DeclsKept, NEW c, Right(c),
         NEW j \in 1..Len(schemas[c].said), NEW k, k # "schema", NEW path \in Seq(Name),
         path # <<>>, NEW v, RefersTo(c, j, k, path, v)
  PROVE \E t \in Refers(PlaceOf(c, j), k, path) : Stands(t, v)
<1>1. PICK w, a, l :
        /\ w \in Walks(PlaceOf(c, j), path)
        /\ Right(a) /\ l \in 1..Len(schemas[a].said) /\ w[Len(path)] = PlaceOf(a, l)
        /\ Ends(a, l, k, path[Len(path)], Len(path), v)
        /\ \A i \in 1..Len(path) - 1 : Follows(w[i], k, path[i], i)
  BY RefersWalk
<1>2. PICK t \in Finds(PlaceOf(a, l), k, path[Len(path)], Len(path)) : Stands(t, v)
  BY <1>1, EndFound
<1>3. t \in Refers(PlaceOf(c, j), k, path)
  BY <1>1, <1>2, RefersOf
<1> QED BY <1>2, <1>3

LEMMA FoundRefersTo ==
  ASSUME IInv, TextsSaid, DeclsFit, DeclsMade, DeclsKept, NEW c, Right(c),
         NEW j \in 1..Len(schemas[c].said), NEW k, k # "schema", NEW path \in Seq(Name),
         path # <<>>, NEW v, RefersTo(c, j, k, path, v), NEW t \in Refers(PlaceOf(c, j), k, path)
  PROVE Stands(t, v)
<1>1. PICK w, a, l :
        /\ w \in Walks(PlaceOf(c, j), path)
        /\ Right(a) /\ l \in 1..Len(schemas[a].said) /\ w[Len(path)] = PlaceOf(a, l)
        /\ Ends(a, l, k, path[Len(path)], Len(path), v)
  BY RefersWalk
<1>2. PICK u \in Walks(PlaceOf(c, j), path) :
        t \in Finds(u[Len(path)], k, path[Len(path)], Len(path))
  BY RefersOf
<1>3. Len(path) \in 1..Len(path)
  OBVIOUS
<1>4. u[Len(path)] = w[Len(path)]
  BY <1>1, <1>2, <1>3, WalksOne
<1>5. t \in Finds(PlaceOf(a, l), k, path[Len(path)], Len(path))
  BY <1>1, <1>2, <1>4
<1> QED BY <1>1, <1>5, FoundEnd

\* What a definition means, by the reference and by its cell.
LEMMA StatedNotBuiltin ==
  ASSUME NEW o \in Statement PROVE o \notin Builtin
<1>1. PICK p : o \in Stated(p)
  BY DEF Statement
<1>2. \E q, s : o = [at |-> q, says |-> s]
  <2>1. ASSUME NEW prog, NEW q, o \in Statements(prog, q) PROVE \E s : o = [at |-> q, says |-> s]
    BY <2>1 DEF Statements
  <2>2. \E prog, q : o \in Statements(prog, q)
    BY <1>1 DEF Stated
  <2> QED BY <2>1, <2>2
<1>3. DOMAIN o = {"at", "says"}
  BY <1>2
<1>4. ASSUME NEW b \in Builtin PROVE DOMAIN b = {"kind", "name"}
  <2>1. b \in [kind : {"type", "expr"}, name : Name]
    BY ImportAssumption
  <2> QED BY <2>1
<1> QED BY <1>3, <1>4

LEMMA BuiltinFacts ==
  ASSUME NEW b \in Builtin PROVE b \in Lit /\ b \notin Cell
  BY ImportAssumption

LEMMA SolvedRight ==
  ASSUME IInv, TextsSaid, DeclsFit, DeclsKept, Solved, NEW c, NEW j, NEW s, Says(c, j, s),
         s.op = "def", s.kind = "type" \/ ~Errors
  PROVE \E v \in Target(c, j, s) : /\ val[OwnCellOf(c, s)] = Meaning(v)
                                   /\ v \in Cell => v.kind = s.kind
<1>1. /\ c \in 1..Len(schemas) /\ Right(c) /\ j \in 1..Len(schemas[c].said) /\ Clean(c)
      /\ s \in CompiledIn(c, j) /\ Ready(c, j)
  BY RightFacts DEF Says, Right
<1>2. PICK v \in Target(c, j, s) : SolvedBy(c, s, v)
  BY <1>1 DEF Solved
<1>3. s \in Def
  BY SaysFacts
<1>4. v \in Cell => v.kind = s.kind
  BY <1>1, <1>2, <1>3, TargetKind
<1> QED BY <1>2, <1>4 DEF SolvedBy

\* All that a definition leads to has the value of its cell.
Valued(o, k, X) ==
    \/ /\ o \in Statement
       /\ \E b, l, t : /\ Says(b, l, t) /\ t.op = "def" /\ t.kind = k
                       /\ o = Occ(b, l, t) /\ val[OwnCellOf(b, t)] = X
    \/ o \in Builtin /\ o = X

LEMMA ValuedOn ==
  ASSUME IInv, TextsSaid, DeclsFit, DeclsMade, DeclsKept, Solved, NEW k, k = "type" \/ ~Errors,
         NEW X, NEW e \in References, Valued(e[1], k, X)
  PROVE Valued(e[2], k, X)
<1>1. PICK a, t : /\ e = <<a, t>> /\ a \in Statement /\ a.says.op = "def" /\ a.says.path # <<>>
                  /\ t \in Refers(a.at, a.says.kind, a.says.path)
  BY DEF References
<1>2. e[1] = a /\ e[2] = t
  BY <1>1
<1>3. PICK b, l, s : /\ Says(b, l, s) /\ s.op = "def" /\ s.kind = k
                     /\ a = Occ(b, l, s) /\ val[OwnCellOf(b, s)] = X
  BY <1>1, <1>2, StatedNotBuiltin DEF Valued
<1>4. a.says = s /\ a.at = PlaceOf(b, l)
  BY <1>3, OccFacts
<1>5. /\ Right(b) /\ l \in 1..Len(schemas[b].said)
      /\ s \in Def /\ s.path \in Seq(Name) /\ s.path # <<>> /\ s.kind # "schema"
  BY <1>1, <1>3, <1>4, SaysFacts, StatementFields DEF Says
<1>6. PICK v \in Target(b, l, s) : X = Meaning(v) /\ (v \in Cell => v.kind = k)
  BY <1>3, SolvedRight
<1>7. RefersTo(b, l, s.kind, s.path, v)
  BY <1>5, <1>6 DEF Target
<1>8. Stands(t, v)
  BY <1>1, <1>4, <1>5, <1>7, FoundRefersTo
<1>9. CASE CopyOf(t, v)
  <2>1. PICK d, i, r : Says(d, i, r) /\ r.op = "def" /\ t = Occ(d, i, r) /\ v = OwnCellOf(d, r)
    BY <1>9 DEF CopyOf
  <2>2. v \in Cell /\ v.kind = r.kind /\ t \in Statement
    BY <2>1, SaysFacts, OccFacts
  <2>3. val[OwnCellOf(d, r)] = X
    BY <1>6, <2>1, <2>2 DEF Meaning
  <2>4. r.kind = k
    BY <1>6, <2>2
  <2>5. Valued(t, k, X)
    BY <2>1, <2>2, <2>3, <2>4 DEF Valued
  <2> QED BY <1>2, <2>5
<1>10. CASE ~CopyOf(t, v)
  <2>1. t \in Builtin /\ t = v
    BY <1>8, <1>10 DEF Stands
  <2>2. X = v
    BY <1>6, <2>1, BuiltinFacts DEF Meaning
  <2> QED BY <1>2, <2>1, <2>2 DEF Valued
<1> QED BY <1>9, <1>10

LEMMA MeaningIsValue ==
  ASSUME IInv, TextsSaid, DeclsFit, DeclsMade, DeclsKept, Solved, NEW c, NEW j, NEW s,
         Says(c, j, s), s.op = "def", s.kind = "type" \/ ~Errors,
         NEW m \in Meanings(References, Occ(c, j, s))
  PROVE m = val[OwnCellOf(c, s)]
<1> DEFINE X == val[OwnCellOf(c, s)]
           Z == {o \in Statement \cup Builtin : Valued(o, s.kind, X)}
<1>1. Occ(c, j, s) \in Z
  BY OccFacts DEF Valued
<1>2. ASSUME NEW e \in References, e[1] \in Z PROVE e[2] \in Z
  <2>1. Valued(e[2], s.kind, X)
    BY <1>2, ValuedOn
  <2> QED BY <2>1 DEF Valued
<1>3. PICK t \in Reached(References, Occ(c, j, s)) :
        \/ t \in Builtin /\ m = t
        \/ t \in Statement /\ t.says.path = <<>> /\ m = t.says.lit
  BY DEF Meanings
<1>4. Valued(t, s.kind, X)
  <2>1. t \in Z
    BY <1>1, <1>2, ReachedWithin
  <2> QED BY <2>1
<1>5. CASE t \in Builtin /\ m = t
  BY <1>4, <1>5, StatedNotBuiltin DEF Valued
<1>6. CASE t \in Statement /\ t.says.path = <<>> /\ m = t.says.lit
  <2>1. PICK b, l, r : /\ Says(b, l, r) /\ r.op = "def" /\ r.kind = s.kind
                       /\ t = Occ(b, l, r) /\ val[OwnCellOf(b, r)] = X
    BY <1>4, <1>6, StatedNotBuiltin DEF Valued
  <2>2. t.says = r /\ r \in Def /\ r.lit \in Lit
    BY <2>1, OccFacts, SaysFacts, StatementFields
  <2>3. PICK v \in Target(b, l, r) : X = Meaning(v)
    BY <2>1, SolvedRight
  <2>4. v = r.lit /\ r.lit \notin Cell
    BY <1>6, <2>2, <2>3, ImportAssumption DEF Target
  <2> QED BY <1>6, <2>2, <2>3, <2>4 DEF Meaning
<1> QED BY <1>3, <1>5, <1>6

\* And without errors the value of its cell is what it leads to.
LeadsTo(v, a) ==
    \/ /\ v \in Cell
       /\ \E b, l, t : /\ Says(b, l, t) /\ t.op = "def" /\ v = OwnCellOf(b, t)
                       /\ Occ(b, l, t) \in Reached(References, a)
    \/ v \in Lit /\ v \in Meanings(References, a)

LEMMA LeadsToOn ==
  ASSUME IInv, TextsSaid, DeclsFit, DeclsMade, DeclsKept, DeclsOnce, ~Errors, NEW a,
         NEW e \in Targets, LeadsTo(e[1], a)
  PROVE LeadsTo(e[2], a)
<1>1. /\ e[1] \in Cell /\ e[2] \in Cell \cup Lit
      /\ \E c \in 1..Len(schemas) : \E j \in 1..Len(schemas[c].said) : \E s \in CompiledIn(c, j) :
            s.op = "def" /\ e[1] = OwnCellOf(c, s) /\ e[2] \in Target(c, j, s)
  BY DEF Targets
<1>2. PICK c \in 1..Len(schemas) : \E j \in 1..Len(schemas[c].said) : \E s \in CompiledIn(c, j) :
            s.op = "def" /\ e[1] = OwnCellOf(c, s) /\ e[2] \in Target(c, j, s)
  BY <1>1
<1>3. PICK j \in 1..Len(schemas[c].said) : \E s \in CompiledIn(c, j) :
            s.op = "def" /\ e[1] = OwnCellOf(c, s) /\ e[2] \in Target(c, j, s)
  BY <1>2
<1>4. PICK s \in CompiledIn(c, j) :
            s.op = "def" /\ e[1] = OwnCellOf(c, s) /\ e[2] \in Target(c, j, s)
  BY <1>3
<1>5. PICK b, l, t : /\ Says(b, l, t) /\ t.op = "def" /\ e[1] = OwnCellOf(b, t)
                     /\ Occ(b, l, t) \in Reached(References, a)
  <2>1. e[1] \notin Lit
    BY <1>1, ImportAssumption
  <2> QED BY <2>1 DEF LeadsTo
<1>6. c = b /\ s.kind = t.kind /\ s.name = t.name
  <2>1. /\ OwnCellOf(c, s).at = c /\ OwnCellOf(c, s).kind = s.kind /\ OwnCellOf(c, s).name = s.name
        /\ OwnCellOf(b, t).at = b /\ OwnCellOf(b, t).kind = t.kind /\ OwnCellOf(b, t).name = t.name
    BY DEF OwnCellOf
  <2> QED BY <1>4, <1>5, <2>1
<1>7. /\ Right(b) /\ l \in 1..Len(schemas[b].said) /\ Clean(b)
      /\ s \in DeclaredIn(b, j) /\ t \in DeclaredIn(b, l)
  BY <1>4, <1>5, <1>6, RightFacts DEF Says
<1>8. j = l /\ s = t
  <2>1. Twin(s, t)
    BY <1>4, <1>5, <1>6 DEF Twin
  <2> QED BY <1>3, <1>6, <1>7, <2>1 DEF DeclsOnce
<1>9. PICK o : o = Occ(b, l, t) /\ o \in Statement /\ o.says = t /\ o.at = PlaceOf(b, l)
  BY <1>5, OccFacts
<1>10. o \in Reached(References, a)
  BY <1>5, <1>9
<1>11. PICK v : v = e[2] /\ v \in Target(b, l, t)
  BY <1>4, <1>6, <1>8
<1>12. /\ t \in Def /\ t.path \in Seq(Name) /\ t.lit \in Lit /\ t.kind # "schema"
  BY <1>5, SaysFacts, StatementFields
<1>13. CASE t.path = <<>>
  <2>1. v = t.lit
    BY <1>11, <1>13 DEF Target
  <2>2. v \in Meanings(References, a)
    BY <1>9, <1>10, <1>12, <1>13, <2>1 DEF Meanings
  <2> QED BY <1>11, <1>12, <2>1, <2>2 DEF LeadsTo
<1>14. CASE t.path # <<>>
  <2>1. RefersTo(b, l, t.kind, t.path, v)
    BY <1>11, <1>14 DEF Target
  <2>2. PICK r \in Refers(o.at, t.kind, t.path) : Stands(r, v)
    BY <1>7, <1>9, <1>12, <1>14, <2>1, RefersFound
  <2>3. <<o, r>> \in References
    BY <1>5, <1>9, <1>14, <2>2 DEF References
  <2>4. r \in Reached(References, a)
    BY <1>10, <2>3, ReachedNext
  <2>5. CASE CopyOf(r, v)
    <3>1. PICK d, i, u : Says(d, i, u) /\ u.op = "def" /\ r = Occ(d, i, u) /\ v = OwnCellOf(d, u)
      BY <2>5 DEF CopyOf
    <3>2. v \in Cell
      BY <3>1, SaysFacts
    <3> QED BY <1>11, <2>4, <3>1, <3>2 DEF LeadsTo
  <2>6. CASE ~CopyOf(r, v)
    <3>1. r \in Builtin /\ r = v /\ v \in Lit
      BY <2>2, <2>6, BuiltinFacts DEF Stands
    <3>2. v \in Meanings(References, a)
      BY <2>4, <3>1 DEF Meanings
    <3> QED BY <1>11, <3>1, <3>2 DEF LeadsTo
  <2> QED BY <2>5, <2>6
<1> QED BY <1>13, <1>14

LEMMA ValueIsMeaning ==
  ASSUME IInv, TextsSaid, DeclsFit, DeclsMade, DeclsKept, DeclsOnce, Grounded, ~Errors,
         NEW c, NEW j, NEW s, Says(c, j, s), s.op = "def", val[OwnCellOf(c, s)] \in Lit
  PROVE val[OwnCellOf(c, s)] \in Meanings(References, Occ(c, j, s))
<1> DEFINE Z == {v \in Cell \cup Lit : LeadsTo(v, Occ(c, j, s))}
<1>1. OwnCellOf(c, s) \in Cell
  BY SaysFacts
<1>2. OwnCellOf(c, s) \in Z
  BY <1>1, ReachedSelf DEF LeadsTo
<1>3. ASSUME NEW e \in Targets, e[1] \in Z PROVE e[2] \in Z
  BY <1>3, LeadsToOn DEF LeadsTo
<1>4. val[OwnCellOf(c, s)] \in Reached(Targets, OwnCellOf(c, s))
  BY <1>1 DEF Grounded
<1>5. LeadsTo(val[OwnCellOf(c, s)], Occ(c, j, s))
  <2>1. val[OwnCellOf(c, s)] \in Z
    BY <1>2, <1>3, <1>4, ReachedWithin
  <2> QED BY <2>1
<1>6. val[OwnCellOf(c, s)] \notin Cell
  BY ImportAssumption
<1> QED BY <1>5, <1>6 DEF LeadsTo

LEMMA MeaningsHold ==
  ASSUME IInv, MInv
  PROVE MeansWhatItSays
<1>1. /\ TextsSaid /\ DeclsFit /\ DeclsMade /\ DeclsKept /\ DeclsOnce /\ Solved /\ Grounded
  BY DEF MInv
<1>2. SUFFICES ASSUME NEW c \in 1..Len(schemas), schemas[c].result = "ok",
                      NEW j \in 1..Len(schemas[c].said), NEW s \in Said(c, j), s.op = "def"
               PROVE LET is == {val[OwnCellOf(c, s)]} \cap Lit
                         says == Meanings(References, Occ(c, j, s))
                     IN is = says \/ (Errors /\ (says = {} \/ s.kind = "expr"))
  BY DEF MeansWhatItSays, Occ
<1> DEFINE X == val[OwnCellOf(c, s)]
           says == Meanings(References, Occ(c, j, s))
<1>3. Says(c, j, s)
  BY <1>2 DEF Says, Right
<1>4. says \subseteq Lit
  BY DEF Meanings
<1>5. ASSUME s.kind = "type" \/ ~Errors PROVE \A m \in says : m = X
  BY <1>1, <1>2, <1>3, <1>5, MeaningIsValue
<1>6. ASSUME ~Errors, X \in Lit PROVE X \in says
  BY <1>1, <1>2, <1>3, <1>6, ValueIsMeaning
<1>7. s.kind \in {"type", "expr"}
  BY <1>1, <1>2, <1>3, SaysFacts, StatementFields
<1> HIDE DEF X, says
<1>8. CASE ~Errors
  <2>1. {X} \cap Lit = says
    BY <1>4, <1>5, <1>6, <1>8
  <2> QED BY <2>1 DEF X, says
<1>9. CASE Errors /\ s.kind = "type"
  <2>1. {X} \cap Lit = says \/ says = {}
    BY <1>4, <1>5, <1>9
  <2> QED BY <1>9, <2>1 DEF X, says
<1>10. CASE Errors /\ s.kind = "expr"
  BY <1>10
<1> QED BY <1>7, <1>8, <1>9, <1>10

(* Every definition of a schema that compiled without an error is, in its cell, what the    *)
(* reference says it means, however the files were read and whatever was compiled before.   *)
THEOREM MeansAsSaid == Spec => []MeansWhatItSays
<1>1. IInv /\ MInv => MeansWhatItSays
  BY MeaningsHold
<1> QED BY <1>1, Inductive, MeansInductive, PTL

(* A schema declares nothing that its statements do not make, and each name once; one that  *)
(* has no errors so far declares all that the statements make which it is done with, and    *)
(* they define no name twice.                                                               *)
THEOREM DeclaresWhatIsSaid == Spec => [](DeclsFit /\ DeclsMade /\ DeclsKept /\ DeclsOnce)
<1>1. MInv => DeclsFit /\ DeclsMade /\ DeclsKept /\ DeclsOnce
  BY DEF MInv
<1> QED BY <1>1, MeansInductive, PTL

(* The cells solve the equations that the definitions are, and hold nothing that does not   *)
(* follow from them: no type comes from elsewhere, as long as there are no errors.          *)
THEOREM CellsSolveDefinitions == Spec => [](Solved /\ Grounded)
<1>1. MInv => Solved /\ Grounded
  BY DEF MInv
<1> QED BY <1>1, MeansInductive, PTL
===============================================================================
