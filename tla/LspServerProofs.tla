---------------------------- MODULE LspServerProofs ----------------------------
(* The safety properties of LspServer, for any number of versions and of   *)
(* requests.                                                               *)
EXTENDS LspServer, TLAPS

LEMMA InitHolds == Init => IInv
<1> SUFFICES ASSUME Init PROVE IInv
  OBVIOUS
<1>1. TypeOK
  <2>1. 0 \in 0..LastVersion
    BY VersionAssumption
  <2>2. /\ compiles \subseteq Version /\ records \subseteq Version /\ registers \subseteq Version
        /\ bad \subseteq Version /\ endless \subseteq Version /\ overlapped \in BOOLEAN
    BY DEF Init
  <2>3. /\ {text_version, compiling_version, schema_version, schema, symbols} \subseteq 0..LastVersion
        /\ compiler \in 0..LastVersion
    BY <2>1 DEF Init
  <2>4. /\ reader \in [Reader -> {"unsent", "waiting", "answered"}]
        /\ asked \in [Reader -> 0..LastVersion] /\ answer \in [Reader -> 0..LastVersion]
    BY <2>1 DEF Init
  <2> QED BY <2>2, <2>3, <2>4 DEF TypeOK
<1>2. Versions /\ WaitingIsJustified /\ Current
  BY VersionAssumption DEF Init, Versions, WaitingIsJustified, Current, Version
<1> QED BY <1>1, <1>2 DEF IInv

-----------------------------------------------------------------------------
\* A new text: nothing of the last one is under way, or the changes overlap.
LEMMA ChangeKeeps ==
  ASSUME IInv, Change PROVE IInv'
<1> USE VersionAssumption DEF IInv
<1>1. /\ text_version \in 0..LastVersion /\ text_version < LastVersion
      /\ LastVersion \in Nat /\ schema_version \in 0..LastVersion
  BY DEF TypeOK, Change
<1>2. text_version' = text_version + 1 /\ text_version' \in 1..LastVersion
  BY <1>1 DEF Change
<1>3. TypeOK'
  <2>1. compiles' \subseteq Version
    BY <1>2 DEF Change, TypeOK, Version
  <2>2. {text_version, compiling_version, schema_version, schema, symbols}' \subseteq 0..LastVersion
    BY <1>1, <1>2 DEF Change, TypeOK
  <2> QED BY <2>1, <2>2 DEF Change, TypeOK, requests, texts
<1>4. Versions'
  BY <1>1, <1>2 DEF Change, Versions
<1>5. WaitingIsJustified'
  BY <1>1, <1>2 DEF Change, Versions, WaitingIsJustified, requests
<1>6. ASSUME ~overlapped' PROVE Current'
  <2>1. compiles' = {text_version'} /\ records' = {} /\ registers' = {}
    BY <1>2, <1>6 DEF Change
  <2>2. schema_version' # text_version'
    BY <1>1, <1>2 DEF Change, Versions
  <2>3. \A r \in Reader : reader'[r] = "answered" => answer'[r] = asked'[r]
    BY <1>6 DEF Change, Current, requests
  <2> QED BY <2>1, <2>2, <2>3 DEF Current
<1> QED BY <1>3, <1>4, <1>5, <1>6

LEMMA LockKeeps ==
  ASSUME IInv, NEW v \in Version, Lock(v) PROVE IInv'
<1> USE VersionAssumption DEF IInv, Lock, doc, requests, texts
<1>1. TypeOK'
  BY DEF TypeOK, Version
<1>2. Versions'
  BY DEF TypeOK, Version, Versions
<1>3. WaitingIsJustified'
  BY DEF WaitingIsJustified
<1>4. ~overlapped' => Current'
  BY DEF Current
<1> QED BY <1>1, <1>2, <1>3, <1>4

LEMMA CompileKeeps ==
  ASSUME IInv, NEW v \in Version, Compile(v) PROVE IInv'
<1> USE VersionAssumption DEF IInv, doc, requests, texts
<1>1. v \in compiles /\ compiler' = 0 /\ 0 \in 0..LastVersion
  BY DEF Compile, Versions, Version
<1>2. /\ compiles' = compiles \ {v}
      /\ \/ v \in bad /\ UNCHANGED <<records, registers>>
         \/ v \notin bad /\ records' = records \cup {v} /\ registers' = registers \cup {v}
      /\ UNCHANGED <<texts, doc, requests, overlapped>>
  BY DEF Compile
<1>3. TypeOK'
  BY <1>1, <1>2 DEF TypeOK
<1>4. Versions'
  BY <1>1, <1>2 DEF TypeOK, Version, Versions
<1>5. WaitingIsJustified'
  BY <1>2 DEF WaitingIsJustified
<1>6. ~overlapped' => Current'
  BY <1>1, <1>2 DEF TypeOK, Version, Versions, Current
<1> QED BY <1>3, <1>4, <1>5, <1>6

\* The version announced last is that of the text, so it may be stored.
LEMMA RecordKeeps ==
  ASSUME IInv, NEW v \in Version, Record(v) PROVE IInv'
<1> USE VersionAssumption DEF IInv, Record, requests, texts
<1>1. TypeOK'
  BY DEF TypeOK, Version
<1>2. Versions'
  BY DEF TypeOK, Version, Versions
<1>3. WaitingIsJustified'
  BY DEF TypeOK, Version, Versions, WaitingIsJustified
<1>4. ~overlapped' => Current'
  BY DEF TypeOK, Version, Versions, Current
<1> QED BY <1>1, <1>2, <1>3, <1>4

LEMMA RegisterKeeps ==
  ASSUME IInv, NEW v \in Version, Register(v) PROVE IInv'
<1> USE VersionAssumption DEF IInv, Register, requests, texts
<1>1. TypeOK'
  BY DEF TypeOK, Version
<1>2. Versions' /\ WaitingIsJustified'
  BY DEF Versions, WaitingIsJustified
<1>3. ~overlapped' => Current'
  BY DEF TypeOK, Version, Versions, Current
<1> QED BY <1>1, <1>2, <1>3

LEMMA AskKeeps ==
  ASSUME IInv, NEW r \in Reader, Ask(r) PROVE IInv'
<1> USE DEF IInv, Ask, doc, work, texts
<1>1. TypeOK'
  BY DEF TypeOK
<1>2. Versions'
  BY DEF Versions
<1>3. WaitingIsJustified'
  BY DEF TypeOK, Versions, WaitingIsJustified
<1>4. ~overlapped' => Current'
  BY DEF TypeOK, Current
<1> QED BY <1>1, <1>2, <1>3, <1>4

\* The invariant holds for any number of versions and of requests.
THEOREM Invariance == Spec => []IInv
<1>1. IInv /\ [Next]_vars => IInv'
  <2> SUFFICES ASSUME IInv, [Next]_vars PROVE IInv'
    OBVIOUS
  <2>1. CASE UNCHANGED vars
    BY <2>1 DEF vars, texts, doc, work, requests, IInv, TypeOK, Versions, WaitingIsJustified, Current
  <2>2. CASE Next
    BY <2>2, ChangeKeeps, LockKeeps, CompileKeeps, RecordKeeps, RegisterKeeps, AskKeeps DEF Next
  <2> QED BY <2>1, <2>2
<1> QED BY <1>1, InitHolds, PTL DEF Spec

\* A document's versions, compilations and requests keep their types, and no
\* version is beyond the client's last (lsp.rs).
THEOREM TypeCorrect == Spec => []TypeOK
<1>1. IInv => TypeOK
  BY DEF IInv
<1> QED BY <1>1, Invariance, PTL

\* A request that is answered is given a schema, and one that waits does so
\* while a compilation is announced (lsp.rs, get_schema and handle_document).
THEOREM WaitsAreJustified == Spec => []WaitingIsJustified
<1>1. IInv => WaitingIsJustified
  BY DEF IInv
<1> QED BY <1>1, Invariance, PTL

\* Without overlapping changes, what is served was compiled from the text that
\* it was asked for (lsp.rs, on_change, handle_document, register_symbols).
THEOREM ServesTheCurrent == Spec => []CurrentUnlessOverlapped
<1>1. IInv => CurrentUnlessOverlapped
  BY DEF IInv, Current, CurrentUnlessOverlapped
<1> QED BY <1>1, Invariance, PTL

=============================================================================
