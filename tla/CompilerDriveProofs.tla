-------------------------- MODULE CompilerDriveProofs --------------------------
(***************************************************************************)
(* Proofs about CompilerDrive, for every number of jobs and compilations.  *)
(* IInv is inductive: one lemma per action, with one step per conjunct.    *)
(***************************************************************************)
EXTENDS CompilerDrive, TLAPS

LEMMA InitHolds == Init => IInv
  <1> SUFFICES ASSUME Init PROVE IInv
    OBVIOUS
  <1>1. TypeOK
    <2>1. tx \in [Job -> {"open", "run", "dropped"}]
      BY DEF Init
    <2>2. spawned \in 0..N /\ awaits \in [Job -> 0..N] /\ owner \in [Job -> 0..Compilations]
      BY DriveAssumption DEF Init
    <2>3. compilation \in 1..Compilations /\ gave_up \in 0..Compilations
      BY DriveAssumption DEF Init
    <2> QED BY <2>1, <2>2, <2>3 DEF Init, TypeOK
  <1>2. Untaken /\ Kinds /\ Owners /\ Leftovers /\ Channels /\ Accounted
    BY DriveAssumption DEF Init, Untaken, Kinds, Owners, Leftovers, Channels, Accounted, Job
  <1>3. Phases
    BY DEF Init, Phases
  <1> QED BY <1>1, <1>2, <1>3 DEF IInv

\* What registration does: the jobs that were there are as before, and a new
\* one is in the list or the heap, according to its kind.
Registers ==
  /\ spawned' \in 0..N /\ spawned <= spawned'
  /\ kind' \in [Job -> Rank \cup {"task"}] /\ owner' \in [Job -> 0..Compilations]
  /\ handles' \subseteq 1..spawned' /\ external_types' \subseteq 1..spawned'
  /\ \A i \in 1..spawned :
       /\ kind'[i] = kind[i] /\ owner'[i] = owner[i]
       /\ i \in handles' <=> i \in handles
       /\ i \in external_types' <=> i \in external_types
  /\ \A i \in 1..spawned' : i > spawned =>
       /\ owner'[i] = compilation
       /\ IF kind'[i] = "task" THEN i \in handles' /\ i \notin external_types'
          ELSE i \in external_types' /\ i \notin handles'

LEMMA Registered ==
  ASSUME IInv, RegisterAny
  PROVE  Registers
  <1> USE DriveAssumption
  <1>1. /\ spawned \in 0..N /\ compilation \in 0..Compilations
        /\ kind \in [Job -> Rank \cup {"task"}] /\ owner \in [Job -> 0..Compilations]
        /\ handles \subseteq 1..spawned /\ external_types \subseteq 1..spawned
    BY DEF IInv, TypeOK
  <1>2. CASE UNCHANGED <<spawned, kind, owner, handles, external_types>>
    BY <1>1, <1>2 DEF Registers
  <1>3. CASE \E k \in Rank \cup {"task"} : Register(k)
    <2>1. PICK k \in Rank \cup {"task"} : Register(k)
      BY <1>3
    <2>2. /\ spawned < N /\ spawned' = spawned + 1 /\ spawned + 1 \in Job
          /\ kind' = [kind EXCEPT ![spawned + 1] = k]
          /\ owner' = [owner EXCEPT ![spawned + 1] = compilation]
      BY <1>1, <2>1 DEF Register, Job
    <2>3. /\ kind' \in [Job -> Rank \cup {"task"}] /\ owner' \in [Job -> 0..Compilations]
          /\ kind'[spawned + 1] = k /\ owner'[spawned + 1] = compilation
          /\ \A i \in 1..spawned : kind'[i] = kind[i] /\ owner'[i] = owner[i]
      BY <1>1, <2>2 DEF Job
    <2>4. CASE k = "task"
      <3>1. handles' = handles \cup {spawned + 1} /\ external_types' = external_types
        BY <2>1, <2>4 DEF Register
      <3> QED BY <1>1, <2>2, <2>3, <2>4, <3>1 DEF Registers
    <2>5. CASE k # "task"
      <3>1. external_types' = external_types \cup {spawned + 1} /\ handles' = handles
        BY <2>1, <2>5 DEF Register
      <3> QED BY <1>1, <2>2, <2>3, <2>5, <3>1 DEF Registers
    <2> QED BY <2>4, <2>5
  <1> QED BY <1>2, <1>3 DEF RegisterAny

\* Code and Step have in common that jobs are registered, and that some which
\* may run change their status.
Works ==
  /\ Registers
  /\ known' \subseteq 1..spawned'
  /\ UNCHANGED <<tx, main, batch, claimed, errors, compilation, gave_up>>
  /\ status' \in [Job -> Ended \cup {"waiting", "aborted"}]
  /\ \A i \in Job : status'[i] # status[i] =>
       /\ i <= spawned /\ status[i] = "waiting" /\ status'[i] \in Ended
       /\ kind[i] = "task" \/ tx[i] = "run"

LEMMA WorksKeeps ==
  ASSUME IInv, Works
  PROVE  Untaken' /\ Kinds' /\ Owners' /\ Accounted' /\ Leftovers' /\ Channels'
  <1>1. /\ spawned \in 0..N /\ spawned' \in 0..N /\ spawned <= spawned'
        /\ compilation \in 1..Compilations /\ compilation' = compilation
        /\ N \in Nat /\ Compilations \in Nat
    BY DriveAssumption DEF IInv, TypeOK, Works, Registers
  <1>2. Untaken'
    BY <1>1 DEF IInv, Untaken, Works, Job
  <1>3. \A i \in 1..spawned' : i > spawned => status'[i] = "waiting" /\ tx'[i] = "open"
    BY <1>1 DEF IInv, Untaken, Works, Job
  <1>4. Kinds'
    <2>1. \A i \in handles' \cup claimed' : kind'[i] = "task"
      BY <1>1 DEF IInv, TypeOK, Kinds, Works, Registers, Rank, Job
    <2>2. \A i \in external_types' \cup batch' : kind'[i] \in Rank
      BY <1>1 DEF IInv, TypeOK, Kinds, Works, Registers, Rank, Job
    <2>3. \A i \in 1..spawned' : status'[i] = "aborted" => kind'[i] = "task"
      BY <1>1, <1>3 DEF IInv, Kinds, Works, Registers, Ended, Job
    <2> QED BY <2>1, <2>2, <2>3 DEF Kinds
  <1>5. Owners'
    BY <1>1 DEF IInv, Owners, Works, Registers
  <1>6. Leftovers'
    BY <1>1 DEF IInv, TypeOK, Leftovers, Works, Registers
  <1>7. Accounted'
    <2> SUFFICES ASSUME gave_up # compilation, NEW i \in 1..spawned', owner'[i] = compilation
                 PROVE  IF kind'[i] = "task"
                        THEN \/ i \in handles' \cup claimed'
                             \/ /\ status'[i] \in {"ok", "failed", "aborted"}
                                /\ status'[i] = "failed" => i \in errors'
                        ELSE \/ i \in external_types' \cup batch'
                             \/ /\ tx'[i] # "open"
                                /\ tx'[i] = "run" /\ status'[i] = "failed" => i \in errors'
      BY <1>1 DEF Accounted, Works
    <2>1. CASE i > spawned
      BY <2>1 DEF Works, Registers
    <2>2. CASE i <= spawned
      <3>1. i \in 1..spawned /\ i \in Job /\ kind'[i] = kind[i] /\ owner[i] = compilation
        BY <1>1, <2>2 DEF Works, Registers, Job
      <3>2. kind[i] \in Rank \cup {"task"}
        BY <3>1 DEF IInv, TypeOK
      <3> QED BY <3>1, <3>2 DEF IInv, Accounted, Channels, Works, Registers, Ended
    <2> QED BY <1>1, <2>1, <2>2
  <1>8. Channels'
    <2>1. ASSUME NEW i \in 1..spawned', kind'[i] \in Rank
          PROVE  /\ tx'[i] = "open" => i \in external_types' \cup batch' /\ status'[i] = "waiting"
                 /\ tx'[i] = "run" /\ status'[i] = "waiting" => i \in batch'
      <3>1. CASE i > spawned
        BY <1>3, <2>1, <3>1 DEF Works, Registers, Rank
      <3>2. CASE i <= spawned
        <4>1. i \in 1..spawned /\ i \in Job /\ kind[i] \in Rank
          BY <1>1, <2>1, <3>2 DEF Works, Registers, Job
        <4> QED BY <4>1 DEF IInv, Channels, Works, Registers, Rank, Ended
      <3> QED BY <1>1, <3>1, <3>2
    <2>2. ASSUME NEW u \in 1..spawned', NEW l \in 1..spawned', kind'[u] = "UnsafeExpr",
                 kind'[l] = "Load", l < u, u \in batch' \/ tx'[u] = "run"
          PROVE  l \notin external_types' \cup batch'
      <3>1. u \in 1..spawned
        BY <1>1, <1>3, <2>2 DEF Works, IInv, TypeOK
      <3>2. l \in 1..spawned
        BY <1>1, <2>2, <3>1
      <3> QED BY <2>2, <3>1, <3>2 DEF IInv, Channels, Works, Registers
    <2> QED BY <2>1, <2>2 DEF Channels
  <1> QED BY <1>2, <1>4, <1>5, <1>6, <1>7, <1>8

LEMMA CodeKeeps ==
  ASSUME IInv, Code
  PROVE  IInv'
  <1>1. RegisterAny /\ \E S \in SUBSET (1..spawned') : known' = known \cup S
    BY DEF Code
  <1>2. Registers
    BY <1>1, Registered
  <1>3. known' \subseteq 1..spawned'
    BY <1>1, <1>2 DEF Registers, IInv, TypeOK
  <1>4. /\ main = "code"
        /\ UNCHANGED <<status, awaits, tx, changed, main, batch, claimed, errors, compilation, gave_up>>
    BY DEF Code, locals
  <1>5. Works
    BY <1>2, <1>3, <1>4 DEF Works, IInv, TypeOK
  <1>6. TypeOK'
    BY <1>2, <1>3, <1>4 DEF IInv, TypeOK, Registers
  <1>7. Phases'
    BY <1>4 DEF IInv, Phases
  <1> QED BY <1>5, <1>6, <1>7, WorksKeeps DEF IInv

LEMMA StepKeeps ==
  ASSUME IInv, NEW j \in Job, Step(j)
  PROVE  IInv'
  <1>1. RegisterAny /\ \E S \in SUBSET (1..spawned') : known' = known \cup S
    BY DEF Step
  <1>2. Registers
    BY <1>1, Registered
  <1>3. known' \subseteq 1..spawned'
    BY <1>1, <1>2 DEF Registers, IInv, TypeOK
  <1>4. /\ UNCHANGED <<tx, changed, main, batch, claimed, errors, compilation, gave_up>>
        /\ Runnable(j) /\ j <= spawned /\ status[j] = "waiting"
        /\ kind[j] = "task" \/ tx[j] = "run"
        /\ main \in {"idle", "join", "handles"}
    BY DEF Step, Suspended, Runnable, locals
  <1>5. \/ status' = status
        \/ \E e \in Ended : status' = [status EXCEPT ![j] = e]
    BY DEF Step
  <1>6. awaits' \in [Job -> 0..N]
    <2>1. CASE awaits' = [awaits EXCEPT ![j] = 0]
      BY <2>1, DriveAssumption DEF IInv, TypeOK
    <2>2. ASSUME NEW c \in 1..spawned', awaits' = [awaits EXCEPT ![j] = c]
          PROVE  awaits' \in [Job -> 0..N]
      <3>1. c \in 0..N /\ awaits \in [Job -> 0..N]
        BY <1>2, DriveAssumption DEF Registers, IInv, TypeOK
      <3> QED BY <2>2, <3>1
    <2> QED BY <2>1, <2>2 DEF Step
  <1>7. Works
    <2>1. status \in [Job -> Ended \cup {"waiting", "aborted"}]
      BY DEF IInv, TypeOK
    <2> QED BY <1>2, <1>3, <1>4, <1>5, <2>1 DEF Works
  <1>8. TypeOK'
    <2>1. status' \in [Job -> Ended \cup {"waiting", "aborted"}]
      BY <1>7 DEF Works
    <2>2. batch' \subseteq 1..spawned' /\ claimed' \subseteq 1..spawned' /\ errors' \subseteq 1..spawned'
      BY <1>2, <1>4 DEF Registers, IInv, TypeOK
    <2> QED BY <1>2, <1>3, <1>4, <1>6, <2>1, <2>2 DEF IInv, TypeOK, Registers
  <1>9. Phases'
    <2>1. ~Quiet
      BY <1>4 DEF Quiet
    <2> QED BY <1>4, <2>1 DEF IInv, Phases
  <1> QED BY <1>7, <1>8, <1>9, WorksKeeps DEF IInv

LEMMA DesertedKeeps ==
  ASSUME IInv, NEW j \in Job, Deserted(j)
  PROVE  IInv'
  <1>1. TypeOK'
    BY DEF IInv, TypeOK, Deserted, data, locals, Ended
  <1>2. Untaken'
    BY DEF IInv, Untaken, Deserted
  <1>3. Kinds'
    BY DEF IInv, Kinds, Deserted, data, locals
  <1>4. Owners'
    BY DEF IInv, Owners, Deserted, locals
  <1>5. Phases'
    BY DEF IInv, Phases, Quiet, Deserted, data, locals
  <1>6. Accounted'
    BY DEF IInv, Accounted, Deserted, data, locals
  <1>7. Leftovers'
    BY DEF IInv, Leftovers, Deserted, data, locals
  <1>8. Channels'
    BY DEF IInv, Channels, Deserted, data, locals
  <1> QED BY <1>1, <1>2, <1>3, <1>4, <1>5, <1>6, <1>7, <1>8 DEF IInv

LEMMA ParkKeeps ==
  ASSUME IInv, Park
  PROVE  IInv'
  <1>1. TypeOK'
    BY DEF IInv, TypeOK, Park, jobs, data, locals
  <1>2. Untaken'
    BY DEF IInv, Untaken, Park, jobs
  <1>3. Kinds'
    BY DEF IInv, Kinds, Park, jobs, data, locals
  <1>4. Owners'
    BY DEF IInv, Owners, Park, jobs, locals
  <1>5. Phases'
    BY DEF IInv, Phases, Quiet, Runnable, Park, jobs, data, locals
  <1>6. Accounted'
    BY DEF IInv, Accounted, Park, jobs, data, locals
  <1>7. Leftovers'
    BY DEF IInv, Leftovers, Park, jobs, data, locals
  <1>8. Channels'
    BY DEF IInv, Channels, Park, jobs, data, locals
  <1> QED BY <1>1, <1>2, <1>3, <1>4, <1>5, <1>6, <1>7, <1>8 DEF IInv

LEMMA DriveKeeps ==
  ASSUME IInv, Drive
  PROVE  IInv'
  <1>1. TypeOK'
    BY DEF IInv, TypeOK, Drive, AwaitIdle, jobs, data
  <1>2. Untaken'
    BY DEF IInv, Untaken, Drive, jobs
  <1>3. Kinds'
    BY DEF IInv, Kinds, Drive, jobs, data
  <1>4. Owners'
    BY DEF IInv, Owners, Drive, jobs
  <1>5. Phases'
    BY DEF IInv, Phases, Drive, AwaitIdle
  <1>6. Accounted'
    BY DEF IInv, Accounted, Drive, jobs, data
  <1>7. Leftovers'
    BY DEF IInv, Leftovers, Drive, jobs, data
  <1>8. Channels'
    BY DEF IInv, Channels, Drive, jobs, data
  <1> QED BY <1>1, <1>2, <1>3, <1>4, <1>5, <1>6, <1>7, <1>8 DEF IInv

LEMMA ClaimKeeps ==
  ASSUME IInv, Claim
  PROVE  IInv'
  <1>1. /\ main = "idle" /\ changed /\ changed' = FALSE
        /\ batch' = LowestRank(external_types) /\ external_types' = external_types \ batch'
        /\ UNCHANGED <<spawned, kind, status, awaits, tx, known, owner, errors, compilation, gave_up>>
        /\ \/ batch' # {} /\ main' = "externals" /\ UNCHANGED <<handles, claimed>>
           \/ batch' = {} /\ main' = "handles" /\ claimed' = handles /\ handles' = {}
    BY DEF Claim, jobs
  <1>2. /\ batch' \subseteq external_types
        /\ batch' = {} => external_types = {}
        /\ \A u \in batch', l \in external_types : kind[l] = "Load" => kind[u] = "Load"
        /\ batch = {} /\ claimed = {} /\ Quiet
    BY <1>1 DEF LowestRank, IInv, Phases
  <1>3. \A i \in 1..spawned : (i \in external_types' \cup batch' <=> i \in external_types \cup batch)
                              /\ (i \in handles' \cup claimed' <=> i \in handles \cup claimed)
    BY <1>1, <1>2
  <1>4. TypeOK'
    BY <1>1, <1>2 DEF IInv, TypeOK
  <1>5. Untaken'
    BY <1>1 DEF IInv, Untaken
  <1>6. Kinds'
    BY <1>1, <1>2 DEF IInv, Kinds
  <1>7. Owners'
    BY <1>1 DEF IInv, Owners
  <1>8. Phases'
    BY <1>1, <1>2 DEF Phases, Quiet, Runnable
  <1>9. Accounted'
    BY <1>1, <1>2 DEF IInv, Accounted
  <1>10. Leftovers'
    BY <1>1, <1>2 DEF IInv, Leftovers
  <1>11. Channels'
    BY <1>1, <1>2 DEF IInv, Channels
  <1> QED BY <1>4, <1>5, <1>6, <1>7, <1>8, <1>9, <1>10, <1>11 DEF IInv

LEMMA TriggerKeeps ==
  ASSUME IInv, NEW j \in Job, Trigger(j)
  PROVE  IInv'
  <1>1. TypeOK'
    BY DEF IInv, TypeOK, Trigger, data
  <1>2. Untaken'
    BY DEF IInv, Untaken, TypeOK, Trigger, First
  <1>3. Kinds'
    BY DEF IInv, Kinds, Trigger, data
  <1>4. Owners'
    BY DEF IInv, Owners, Trigger
  <1>5. Phases'
    BY DEF IInv, Phases, Trigger
  <1>6. Accounted'
    BY DEF IInv, Accounted, Trigger, First, data
  <1>7. Leftovers'
    BY DEF IInv, Leftovers, Trigger, data
  <1>8. Channels'
    BY DEF IInv, Channels, Trigger, First, data
  <1> QED BY <1>1, <1>2, <1>3, <1>4, <1>5, <1>6, <1>7, <1>8 DEF IInv

LEMMA InferredKeeps ==
  ASSUME IInv, NEW j \in Job, Inferred(j)
  PROVE  IInv'
  <1>1. TypeOK'
    BY DEF IInv, TypeOK, Inferred, data
  <1>2. Untaken'
    BY DEF IInv, Untaken, TypeOK, Inferred
  <1>3. Kinds'
    BY DEF IInv, Kinds, Inferred, data
  <1>4. Owners'
    BY DEF IInv, Owners, Inferred
  <1>5. Phases'
    BY DEF IInv, Phases, Inferred
  <1>6. Accounted'
    BY DEF IInv, Accounted, TypeOK, Inferred, data
  <1>7. Leftovers'
    BY DEF IInv, Leftovers, Inferred, data
  <1>8. Channels'
    BY DEF IInv, Channels, TypeOK, Inferred, data
  <1> QED BY <1>1, <1>2, <1>3, <1>4, <1>5, <1>6, <1>7, <1>8 DEF IInv

LEMMA GiveUpKeeps ==
  ASSUME IInv, NEW j \in Job, GiveUp(j), j \in batch \cup claimed, status[j] \in Ended,
         UNCHANGED <<spawned, kind, status, awaits, known, owner, data, changed, compilation>>
  PROVE  IInv'
  <1>1. TypeOK'
    <2>1. tx' \in [Job -> {"open", "run", "dropped"}]
      <3>1. \A k \in Job : tx[k] \in {"open", "run", "dropped"}
        BY DEF IInv, TypeOK
      <3> QED BY <3>1 DEF GiveUp
    <2>2. gave_up' \in 0..Compilations
      BY DEF IInv, TypeOK, GiveUp
    <2>3. j \in 1..spawned
      BY DEF IInv, TypeOK
    <2> QED BY DEF IInv, TypeOK, GiveUp, data
  <1>2. Untaken'
    BY DEF IInv, Untaken, TypeOK, GiveUp
  <1>3. Kinds'
    BY DEF IInv, Kinds, GiveUp, data
  <1>4. Owners'
    BY DEF IInv, Owners, TypeOK, GiveUp
  <1>5. Phases'
    BY DEF Phases, GiveUp
  <1>6. Accounted'
    BY DEF Accounted, GiveUp
  <1>7. Leftovers'
    BY DEF Leftovers, GiveUp
  <1>8. Channels'
    BY DriveAssumption DEF IInv, Channels, TypeOK, GiveUp, data, Job, Ended
  <1> QED BY <1>1, <1>2, <1>3, <1>4, <1>5, <1>6, <1>7, <1>8 DEF IInv

LEMMA JoinEndedKeeps ==
  ASSUME IInv, NEW j \in Job, Join(j), status[j] # "panicked"
  PROVE  IInv'
  <1>1. /\ main = "join" /\ j \in batch /\ status[j] \in {"ok", "failed"}
        /\ errors' = IF status[j] = "failed" THEN errors \cup {j} ELSE errors
        /\ main' = "externals" /\ batch' = batch \ {j}
        /\ UNCHANGED <<tx, claimed, gave_up, spawned, kind, status, awaits, known, owner, handles,
                       external_types, changed, compilation>>
    BY DEF Join, First, Ended, data
  <1>2. kind[j] # "task" /\ tx[j] # "open"
    BY <1>1 DEF IInv, TypeOK, Kinds, Rank, Channels
  <1>3. TypeOK'
    BY <1>1 DEF IInv, TypeOK
  <1>4. Untaken'
    BY <1>1 DEF IInv, Untaken
  <1>5. Kinds'
    BY <1>1 DEF IInv, Kinds
  <1>6. Owners'
    BY <1>1 DEF IInv, Owners
  <1>7. Phases'
    BY <1>1 DEF IInv, Phases
  <1>8. Accounted'
    BY <1>1, <1>2 DEF IInv, Accounted
  <1>9. Leftovers'
    BY <1>1 DEF IInv, Leftovers
  <1>10. Channels'
    BY <1>1 DEF IInv, Channels
  <1> QED BY <1>3, <1>4, <1>5, <1>6, <1>7, <1>8, <1>9, <1>10 DEF IInv

LEMMA JoinKeeps ==
  ASSUME IInv, NEW j \in Job, Join(j)
  PROVE  IInv'
  <1>1. CASE status[j] = "panicked"
    BY <1>1, GiveUpKeeps DEF Join, First
  <1>2. CASE status[j] # "panicked"
    BY <1>2, JoinEndedKeeps DEF Join
  <1> QED BY <1>1, <1>2

LEMMA AgainKeeps ==
  ASSUME IInv, Again
  PROVE  IInv'
  <1>1. TypeOK'
    BY DEF IInv, TypeOK, Again, AwaitIdle, jobs, data
  <1>2. Untaken'
    BY DEF IInv, Untaken, Again, jobs
  <1>3. Kinds'
    BY DEF IInv, Kinds, Again, jobs, data
  <1>4. Owners'
    BY DEF IInv, Owners, Again, jobs
  <1>5. Phases'
    BY DEF IInv, Phases, Again, AwaitIdle
  <1>6. Accounted'
    BY DEF IInv, Accounted, Again, jobs, data
  <1>7. Leftovers'
    BY DEF IInv, Leftovers, Again, jobs, data
  <1>8. Channels'
    BY DEF IInv, Channels, Again, jobs, data
  <1> QED BY <1>1, <1>2, <1>3, <1>4, <1>5, <1>6, <1>7, <1>8 DEF IInv

LEMMA CheckEndedKeeps ==
  ASSUME IInv, NEW h \in Job, Check(h), status[h] # "panicked"
  PROVE  IInv'
  <1>1. /\ main = "handles" /\ h \in claimed
        /\ claimed' = claimed \ {h}
        /\ errors' = IF status[h] = "failed" THEN errors \cup {h} ELSE errors
        /\ status' = IF status[h] = "waiting" THEN [status EXCEPT ![h] = "aborted"] ELSE status
        /\ UNCHANGED <<tx, main, batch, gave_up, spawned, kind, awaits, known, owner, handles,
                       external_types, changed, compilation>>
    BY DEF Check, First, data
  <1>2. kind[h] = "task" /\ h \in 1..spawned /\ status'[h] \in {"ok", "failed", "aborted"}
        /\ \A i \in Job : i # h => status'[i] = status[i]
    BY <1>1 DEF IInv, Kinds, TypeOK, Ended
  <1>3. TypeOK'
    BY <1>1 DEF IInv, TypeOK
  <1>4. Untaken'
    BY <1>1 DEF IInv, Untaken, TypeOK
  <1>5. Kinds'
    BY <1>1 DEF IInv, Kinds
  <1>6. Owners'
    BY <1>1 DEF IInv, Owners
  <1>7. Phases'
    BY <1>1 DEF IInv, Phases, Quiet, Runnable
  <1>8. Accounted'
    BY <1>1, <1>2 DEF IInv, Accounted
  <1>9. Leftovers'
    BY <1>1 DEF IInv, Leftovers
  <1>10. Channels'
    BY <1>1, <1>2 DEF IInv, Channels, Rank
  <1> QED BY <1>3, <1>4, <1>5, <1>6, <1>7, <1>8, <1>9, <1>10 DEF IInv

LEMMA CheckKeeps ==
  ASSUME IInv, NEW h \in Job, Check(h)
  PROVE  IInv'
  <1>1. CASE status[h] = "panicked"
    BY <1>1, GiveUpKeeps DEF Check, First, Ended
  <1>2. CASE status[h] # "panicked"
    BY <1>2, CheckEndedKeeps
  <1> QED BY <1>1, <1>2

LEMMA ReturnKeeps ==
  ASSUME IInv, Return
  PROVE  IInv'
  <1>1. TypeOK'
    BY DEF IInv, TypeOK, Return, AwaitIdle, jobs, data
  <1>2. Untaken'
    BY DEF IInv, Untaken, Return, jobs
  <1>3. Kinds'
    BY DEF IInv, Kinds, Return, jobs, data
  <1>4. Owners'
    BY DEF IInv, Owners, Return, jobs
  <1>5. Phases'
    BY DEF IInv, Phases, Return, AwaitIdle, data
  <1>6. Accounted'
    BY DEF IInv, Accounted, Return, jobs, data
  <1>7. Leftovers'
    BY DEF IInv, Leftovers, Return, jobs, data
  <1>8. Channels'
    BY DEF IInv, Channels, Return, jobs, data
  <1> QED BY <1>1, <1>2, <1>3, <1>4, <1>5, <1>6, <1>7, <1>8 DEF IInv

LEMMA RecompileKeeps ==
  ASSUME IInv, Recompile
  PROVE  IInv'
  <1>1. TypeOK'
    BY DriveAssumption DEF IInv, TypeOK, Recompile, jobs, data
  <1>2. Untaken'
    BY DEF IInv, Untaken, Recompile, jobs
  <1>3. Kinds'
    BY DEF IInv, Kinds, Recompile, jobs, data
  <1>4. Owners'
    BY DEF IInv, Owners, TypeOK, Recompile, jobs
  <1>5. Phases'
    BY DEF IInv, Phases, Recompile
  <1>6. Accounted'
    BY DEF IInv, Accounted, Owners, TypeOK, Recompile, jobs
  <1>7. Leftovers'
    <2>1. batch = {} /\ claimed = {} /\ errors' = {}
      BY DEF IInv, Phases, Recompile
    <2>2. gave_up # compilation => handles = {} /\ external_types = {}
      BY DEF IInv, Phases, Recompile
    <2>3. gave_up = compilation => gave_up' = compilation' - 1
      BY DEF IInv, TypeOK, Recompile
    <2> QED BY <2>1, <2>2, <2>3 DEF Leftovers, Recompile, data
  <1>8. Channels'
    BY DEF IInv, Channels, Recompile, jobs, data
  <1> QED BY <1>1, <1>2, <1>3, <1>4, <1>5, <1>6, <1>7, <1>8 DEF IInv

THEOREM Invariance == Spec => []IInv
  <1>1. IInv /\ [Next]_vars => IInv'
    <2> SUFFICES ASSUME IInv, [Next]_vars PROVE IInv'
      OBVIOUS
    <2>1. CASE Code \/ Park \/ Recompile
      BY <2>1, CodeKeeps, ParkKeeps, RecompileKeeps
    <2>2. CASE Drives
      BY <2>2, DriveKeeps, ClaimKeeps, TriggerKeeps, InferredKeeps, JoinKeeps, AgainKeeps,
         CheckKeeps, ReturnKeeps DEF Drives
    <2>3. ASSUME NEW j \in Job, Step(j) \/ Deserted(j) PROVE IInv'
      BY <2>3, StepKeeps, DesertedKeeps
    <2>4. CASE UNCHANGED vars
      BY <2>4 DEF IInv, TypeOK, Untaken, Kinds, Owners, Phases, Accounted, Leftovers, Channels,
         Quiet, Runnable, vars, jobs, data, locals
    <2> QED BY <2>1, <2>2, <2>3, <2>4 DEF Next
  <1> QED BY <1>1, InitHolds, PTL DEF Spec

\* The driver's jobs, channels and claimed work keep their types, whatever jobs
\* register, park or fail (compile.rs, CompilerData and drive).
THEOREM TypeCorrect == Spec => []TypeOK
  <1>1. IInv => TypeOK
    BY DEF IInv
  <1> QED BY <1>1, Invariance, PTL

\* A task is aborted only when no job can be run and no external type is left.
THEOREM AbortsOnlyTheStuck == Spec => AbortedWasStuck
  <1>1. IInv /\ [Next]_vars =>
          [\A h \in Job : status[h] = "waiting" /\ status'[h] = "aborted" =>
             external_types = {} /\ \A j \in Job : ~Runnable(j)]_vars
    <2> SUFFICES ASSUME IInv, [Next]_vars, NEW h \in Job,
                        status[h] = "waiting", status'[h] = "aborted"
                 PROVE  external_types = {} /\ \A j \in Job : ~Runnable(j)
      OBVIOUS
    <2>1. main = "handles"
      BY DEF IInv, TypeOK, Next, Drives, Code, Park, Recompile, Drive, Claim, Again, Return,
         Trigger, Inferred, Join, Check, Step, Deserted, vars, jobs, Ended
    <2> QED BY <2>1 DEF IInv, Phases, Quiet
  <1> QED BY <1>1, Invariance, PTL DEF Spec, AbortedWasStuck

\* A drive that did not give up leaves nothing behind and loses no error.
THEOREM DrivesAreComplete == Spec => []DriveIsComplete
  <1>1. IInv => DriveIsComplete
    BY DEF IInv, Phases, Accounted, DriveIsComplete
  <1> QED BY <1>1, Invariance, PTL

\* Errors are reported by the compilation they belong to, or by the next one
\* when that gave up.
THEOREM ErrorsAreOwn == Spec => []OwnErrors
  <1>1. IInv => OwnErrors
    BY DEF IInv, Leftovers, OwnErrors
  <1> QED BY <1>1, Invariance, PTL

\* An unsafe expression is inferred after the loads registered before it.
THEOREM LoadsAreDone == Spec => []LoadsBeforeUnsafe
  <1>1. ASSUME IInv, NEW u \in 1..spawned, NEW l \in 1..spawned,
               kind[u] = "UnsafeExpr", tx[u] = "run", kind[l] = "Load", l < u
        PROVE  tx[l] = "dropped" \/ status[l] \in Ended
    <2>1. l \notin external_types \cup batch
      BY <1>1 DEF IInv, Channels
    <2>2. tx[l] # "open" /\ (tx[l] = "run" => status[l] # "waiting")
      BY <1>1 DEF IInv, Channels, Rank
    <2>3. status[l] # "aborted"
      BY <1>1 DEF IInv, Kinds
    <2>4. l \in Job
      BY <1>1, DriveAssumption DEF IInv, TypeOK, Job
    <2> QED BY <2>2, <2>3, <2>4, <1>1 DEF IInv, TypeOK
  <1>2. IInv => LoadsBeforeUnsafe
    BY <1>1 DEF LoadsBeforeUnsafe
  <1> QED BY <1>2, Invariance, PTL

=============================================================================
