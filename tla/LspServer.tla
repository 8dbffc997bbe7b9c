------------------------------- MODULE LspServer -------------------------------
(***************************************************************************)
(* The language server's copy of one document (bin/lsp.rs): the client's   *)
(* changes, the compilations they start and the requests that read what    *)
(* was compiled.                                                           *)
(*                                                                         *)
(* did_open and did_change save the text at once and in order (on_change   *)
(* blocks the loop that reads requests).  The compilation runs on a        *)
(* blocking thread, and the threads take the compiler's mutex in any order *)
(* and keep it while they compile.  A compilation hands its schema to a    *)
(* task (handle_document) and its symbols to the handler that is waiting   *)
(* for it (register_symbols), and both store them whenever they are        *)
(* scheduled.                                                              *)
(*                                                                         *)
(* A text is named by its version, which a client only increases while a   *)
(* document is open; 0 is None.                                            *)
(***************************************************************************)
EXTENDS Naturals

CONSTANTS
  LastVersion,  \* versions the client sends (bound)
  Reader        \* code_lens and runExpr requests it sends (bound)

ASSUME VersionAssumption == LastVersion \in Nat

Version == 1..LastVersion

VARIABLES
  bad,                \* the versions whose text does not parse
  endless,            \* the versions whose compilation never returns
  text_version, compiling_version, schema_version,  \* fields of Document
  schema, symbols,    \* the versions they were compiled from
  compiles,           \* changes whose compilation has not ended
  compiler,           \* the one of them whose thread has the compiler's mutex
  records, registers, \* compilations whose schema, or symbols, are not stored
  reader,             \* where each request stands
  asked, answer,      \* the text it waits for, the schema that it was given
  overlapped          \* history: a change came before the last was done

doc == <<text_version, compiling_version, schema_version, schema, symbols>>
texts == <<bad, endless>>
work == <<compiles, compiler, records, registers>>
requests == <<reader, asked, answer>>
vars == <<texts, doc, work, requests, overlapped>>

TypeOK ==
  /\ bad \subseteq Version /\ endless \subseteq Version
  /\ {text_version, compiling_version, schema_version, schema, symbols} \subseteq 0..LastVersion
  /\ compiles \subseteq Version /\ compiler \in 0..LastVersion
  /\ records \subseteq Version /\ registers \subseteq Version
  /\ reader \in [Reader -> {"unsent", "waiting", "answered"}]
  /\ asked \in [Reader -> 0..LastVersion] /\ answer \in [Reader -> 0..LastVersion]
  /\ overlapped \in BOOLEAN

Init ==
  /\ bad \in SUBSET Version /\ endless \in SUBSET (Version \ bad)
  /\ text_version = 0 /\ compiling_version = 0 /\ schema_version = 0
  /\ schema = 0 /\ symbols = 0
  /\ compiles = {} /\ compiler = 0 /\ records = {} /\ registers = {}
  /\ reader = [r \in Reader |-> "unsent"]
  /\ asked = [r \in Reader |-> 0] /\ answer = [r \in Reader |-> 0]
  /\ overlapped = FALSE

-----------------------------------------------------------------------------
\* (mutant: the version is stored as compiled when the compilation starts)
ChangeEager ==
  /\ text_version < LastVersion
  /\ text_version' = text_version + 1
  /\ compiling_version' = text_version + 1
  /\ schema_version' = text_version + 1
  /\ compiles' = compiles \cup {text_version + 1}
  /\ overlapped' = (overlapped \/ compiles \cup records \cup registers # {})
  /\ UNCHANGED <<texts, schema, symbols, compiler, records, registers, requests>>

\* on_change, up to the point where it waits for the compilation.
Change ==
  /\ text_version < LastVersion
  /\ text_version' = text_version + 1
  /\ compiling_version' = text_version + 1
  /\ compiles' = compiles \cup {text_version + 1}
  /\ overlapped' = (overlapped \/ compiles \cup records \cup registers # {})
  /\ UNCHANGED <<texts, schema_version, schema, symbols, compiler, records, registers, requests>>

\* A thread takes the compiler's mutex.
Lock(v) ==
  /\ v \in compiles /\ compiler = 0
  /\ compiler' = v
  /\ UNCHANGED <<texts, doc, compiles, records, registers, requests, overlapped>>

\* (mutant: the contents are not set, so that the first text read is compiled
\* again)
CompileCached(v) ==
  /\ compiler = v /\ v \notin endless
  /\ compiles' = compiles \ {v} /\ compiler' = 0
  /\ IF 1 \in bad
     THEN UNCHANGED <<records, registers>>
     ELSE records' = records \cup {1} /\ registers' = registers \cup {1}
  /\ UNCHANGED <<texts, doc, requests, overlapped>>

\* It has compiled its own text, and gives the mutex back.  A text that does
\* not parse gives neither a schema nor symbols of the document, one that
\* parses is taken to have symbols.  The schema is handed over at the very
\* end, so that a compilation that never returns gives none.
Compile(v) ==
  /\ compiler = v /\ v \notin endless
  /\ compiles' = compiles \ {v} /\ compiler' = 0
  /\ IF v \in bad
     THEN UNCHANGED <<records, registers>>
     ELSE records' = records \cup {v} /\ registers' = registers \cup {v}
  /\ UNCHANGED <<texts, doc, requests, overlapped>>

\* (mutant: the version is not stored)
RecordSchema(v) ==
  /\ v \in records
  /\ records' = records \ {v}
  /\ schema' = v
  /\ compiling_version' = 0
  /\ UNCHANGED <<texts, text_version, schema_version, symbols, compiles, compiler, registers,
                 requests, overlapped>>

\* handle_document: the schema is stored under the version that was last
\* announced, whichever version it was compiled from.
Record(v) ==
  /\ v \in records
  /\ records' = records \ {v}
  /\ schema' = v
  /\ schema_version' = IF compiling_version # 0 THEN compiling_version ELSE schema_version
  /\ compiling_version' = 0
  /\ UNCHANGED <<texts, text_version, symbols, compiles, compiler, registers, requests, overlapped>>

\* register_symbols.
Register(v) ==
  /\ v \in registers
  /\ registers' = registers \ {v}
  /\ symbols' = v
  /\ UNCHANGED <<texts, text_version, compiling_version, schema_version, schema, compiles,
                 compiler, records, requests, overlapped>>

\* get_schema(uri, true).  A request that has to wait awaits schema_signal,
\* which nothing in the server notifies.
Ask(r) ==
  /\ reader[r] = "unsent" /\ text_version # 0
  /\ asked' = [asked EXCEPT ![r] = text_version]
  /\ IF schema_version = text_version
     THEN /\ reader' = [reader EXCEPT ![r] = "answered"]
          /\ answer' = [answer EXCEPT ![r] = schema]
     ELSE reader' = [reader EXCEPT ![r] = "waiting"] /\ UNCHANGED answer
  /\ UNCHANGED <<texts, doc, work, overlapped>>

Next ==
  \/ Change
  \/ \E v \in Version : Lock(v) \/ Compile(v) \/ Record(v) \/ Register(v)
  \/ \E r \in Reader : Ask(r)

Spec == Init /\ [][Next]_vars

\* Blocking threads and tasks get to run.  The mutex need not be fair: it is
\* taken once for each change.  Nothing obliges the client.
FairSpec ==
  /\ Spec
  /\ \A v \in Version : /\ WF_vars(Lock(v)) /\ WF_vars(Compile(v))
                        /\ WF_vars(Record(v)) /\ WF_vars(Register(v))

-----------------------------------------------------------------------------
\* A compilation is being waited for exactly while the stored schema does not
\* carry the version of the text: a request that is answered is never told
\* that the document has not been compiled, and one that waits has a reason.
WaitingIsJustified ==
  /\ text_version # 0 => (compiling_version = 0 <=> schema_version = text_version)
  /\ \A r \in Reader : reader[r] = "answered" => answer[r] # 0

\* While changes do not overlap, what a request is given was compiled from
\* the text that was current when it was sent, and the symbols and the schema
\* that are stored once all work is done are those of the text.
CurrentUnlessOverlapped ==
  ~overlapped =>
    /\ \A r \in Reader : reader[r] = "answered" => answer[r] = asked[r]
    /\ (compiles = {} /\ records = {} /\ registers = {} /\ text_version \notin bad)
         => schema = text_version /\ symbols = text_version

\* A text that parses and can be compiled, and is not replaced, comes to be
\* marked as compiled, unless an endless compilation keeps the mutex for good.
GetsCompiled ==
  \A v \in Version : (text_version = v /\ v \notin bad \cup endless) ~>
                       (schema_version = v \/ text_version > v \/ compiler \in endless)

\* lsp.rs:763-770 saves the text before anything else so that a codeLens that
\* follows a didOpen does not fail: a request sent after its text was saved is
\* answered, when the texts parse and their compilations end.
AskedIsAnswered ==
  \A r \in Reader : (reader[r] = "waiting" /\ bad \cup endless = {}) ~> (reader[r] = "answered")

-----------------------------------------------------------------------------
\* The inductive invariant behind WaitingIsJustified and
\* CurrentUnlessOverlapped.

Versions ==
  /\ compiles \cup records \cup registers \subseteq 1..text_version
  /\ compiles \cap records = {} /\ compiles \cap registers = {}
  /\ compiler \in compiles \cup {0}
  /\ compiling_version \in {0, text_version}
  /\ schema_version <= text_version
  /\ schema_version # 0 => schema # 0

\* What is under way, or stored, is of the current text.
Current ==
  /\ compiles \cup records \cup registers \subseteq {text_version}
  /\ schema_version = text_version => schema = text_version
  /\ text_version \notin bad \cup compiles \cup records => schema = text_version
  /\ text_version \notin bad \cup compiles \cup registers => symbols = text_version
  /\ \A r \in Reader : reader[r] = "answered" => answer[r] = asked[r]

IInv == TypeOK /\ Versions /\ WaitingIsJustified /\ (~overlapped => Current)

=============================================================================
