------------------------ MODULE BatchProcessorProofs ------------------------
(***************************************************************************)
(* Theorems about BatchProcessor, for every list of items and every number *)
(* of permits.                                                             *)
(***************************************************************************)
EXTENDS BatchProcessor, FiniteSetTheorems, TLAPS

-----------------------------------------------------------------------------
(* Types and the permits                                                   *)

\* The positions of a list are its domain.
LEMMA Positions ==
  ASSUME NEW b \in Seq(Items)
  PROVE  /\ DOMAIN b = 1 .. Len(b) /\ Len(b) \in Nat
         /\ \A i \in DOMAIN b : b[i] \in Items
  OBVIOUS

\* The empty list, which a run that is not there has.
LEMMA NoBatch == << >> \in Seq(Items) /\ DOMAIN << >> = {} /\ Len(<< >>) = 0
  OBVIOUS

\* A joined task leaves the file as it was, or holding a whole record.
LEMMA SavedWhole ==
  ASSUME NEW i \in DOMAIN batch, TypeOK, SaveAfter(i)
  PROVE  file' \in Records \cup {NoFile} /\ behind' \in BOOLEAN /\ Marked(i) \in Records
<1>1. batch[i] \in Items
  BY Positions DEF TypeOK
<1>2. Marked(i) \in Records
  BY <1>1 DEF TypeOK, Marked, Records
<1>. QED BY <1>2 DEF TypeOK, SaveAfter

\* A mark adds the item of one position.
LEMMA MarkedIsRecord ==
  ASSUME NEW i \in DOMAIN batch, TypeOK
  PROVE  Marked(i) \in Records
<1>1. batch[i] \in Items
  BY Positions DEF TypeOK
<1>. QED BY <1>1 DEF TypeOK, Marked, Records

\* No task runs that was not spawned under a permit: the permits in use are
\* counted when a task is spawned and given back when it ends, panicked or not.
LEMMA PermitsHold ==
  ASSUME TypeOK, [BatchNext]_vars
  PROVE  Cardinality(Holding)' <= Concurrency
<1>. USE ConstantsAssumption
<1>1. IsFiniteSet(Holding) /\ Cardinality(Holding) \in Nat
  <2>1. DOMAIN tasks = 1 .. Len(batch) /\ Len(batch) \in Nat
    BY Positions DEF TypeOK
  <2>2. IsFiniteSet(1 .. Len(batch))
    BY <2>1, FS_Interval
  <2>3. Holding \subseteq 1 .. Len(batch)
    BY <2>1 DEF Holding
  <2>. QED BY <2>2, <2>3, FS_Subset, FS_CardinalityType
<1>2. ASSUME Holding' = {} PROVE Cardinality(Holding)' <= Concurrency
  BY <1>2, FS_EmptySet
<1>3. ASSUME Holding' \subseteq Holding PROVE Cardinality(Holding)' <= Concurrency
  <2>1. Cardinality(Holding') <= Cardinality(Holding) /\ Cardinality(Holding') \in Nat
    BY <1>1, <1>3, FS_Subset, FS_CardinalityType
  <2>. QED BY <1>1, <2>1 DEF TypeOK
<1>4. CASE StartBatch
  BY <1>2, <1>4 DEF StartBatch, Holding, Unfilled
<1>5. CASE StartFails \/ Crash
  BY <1>2, <1>5 DEF StartFails, Crash, Abandon, Holding, Unfilled
<1>6. CASE SpawnItem
  <2>1. Holding' = Holding \cup {pos}
    BY <1>6 DEF SpawnItem, Holding, TypeOK
  <2>2. Cardinality(Holding \cup {pos}) <= Cardinality(Holding) + 1
    <3>1. Cardinality(Holding \cup {pos})
            = IF pos \in Holding THEN Cardinality(Holding) ELSE Cardinality(Holding) + 1
      BY <1>1, FS_AddElement
    <3>. QED BY <1>1, <3>1
  <2>3. Cardinality(Holding) < Concurrency
    BY <1>6 DEF SpawnItem
  <2>4. Cardinality(Holding \cup {pos}) \in Nat
    BY <1>1, FS_AddElement, FS_CardinalityType
  <2>. QED BY <1>1, <2>1, <2>2, <2>3, <2>4
<1>7. ASSUME NEW i \in DOMAIN tasks, FinishTask(i) \/ RecordJoin(i)
      PROVE  Holding' \subseteq Holding
  BY <1>7 DEF FinishTask, RecordJoin, Holding, TypeOK
<1>8. CASE SkipItem \/ EndCollect \/ EndLoop \/ UNCHANGED vars
  BY <1>3, <1>8 DEF SkipItem, EndCollect, EndLoop, vars, runVars, Holding
<1>9. CASE Conclude
  BY <1>2, <1>3, <1>9 DEF Conclude, Abandon, Holding, Unfilled
<1>. QED BY <1>3, <1>4, <1>5, <1>6, <1>7, <1>8, <1>9 DEF BatchNext, RunStep, Join

\* Every step of the batch processor keeps the types.
LEMMA TypeStep ==
  ASSUME TypeOK, [BatchNext]_vars
  PROVE  TypeOK'
<1>. USE ConstantsAssumption, PermitsHold
<1>1. CASE StartBatch
  <2>1. batch' \in Seq(Items)
    BY <1>1 DEF StartBatch
  <2>2. 1 \in 1 .. Len(batch') + 1
    BY <2>1, Positions
  <2>. QED BY <1>1, <2>1, <2>2 DEF StartBatch, TypeOK, Records, NothingRecorded, Unfilled
<1>2. ASSUME NEW how \in {"failed", "crashed"}, Abandon(how), UNCHANGED file
      PROVE  TypeOK'
  <2>1. batch' \in Seq(Items) /\ pos' \in 1 .. Len(batch') + 1
    BY <1>2, NoBatch DEF Abandon
  <2>. QED BY <1>2, <2>1 DEF Abandon, TypeOK, Records, NothingRecorded, Unfilled
<1>3. CASE StartFails \/ Crash
  BY <1>2, <1>3 DEF StartFails, Crash
<1>4. CASE SkipItem \/ SpawnItem
  <2>1. pos + 1 \in 1 .. Len(batch) + 1
    BY <1>4, Positions DEF SkipItem, SpawnItem, TypeOK
  <2>. QED BY <1>4, <2>1 DEF SkipItem, SpawnItem, TypeOK
<1>5. ASSUME NEW i \in DOMAIN tasks, FinishTask(i)
      PROVE  TypeOK'
  <2>1. batch[i] \in Items
    BY Positions DEF TypeOK
  <2>. QED BY <1>5, <2>1 DEF FinishTask, TypeOK
<1>6. ASSUME NEW i \in DOMAIN tasks, RecordJoin(i)
      PROVE  TypeOK'
  <2>1. i \in DOMAIN batch
    BY DEF TypeOK
  <2>2. file' \in Records \cup {NoFile} /\ behind' \in BOOLEAN
    BY <1>6, <2>1, SavedWhole DEF RecordJoin, TypeOK
  <2>3. state' \in Records
    BY <1>6, <2>1, MarkedIsRecord DEF RecordJoin
  <2>. QED BY <1>6, <2>1, <2>2, <2>3 DEF RecordJoin, Finished, Pushed, TypeOK
<1>7. CASE EndCollect \/ EndLoop \/ UNCHANGED vars
  BY <1>7 DEF EndCollect, EndLoop, vars, runVars, TypeOK
<1>8. CASE Conclude
  <2>1. CASE Abandon("failed") /\ UNCHANGED file
    BY <1>2, <2>1
  <2>2. CASE UNCHANGED <<flags, batch, pos, tasks, results, applied, refused>>
    <3>1. Holding' = Holding
      BY <2>2 DEF Holding
    <3>2. file' \in Records \cup {NoFile} /\ pc' = "idle" /\ outcome' \in {"ok", "failed"}
      BY <1>8 DEF Conclude, Abandon, TypeOK
    <3>3. state' \in Records /\ loaded' \in Records /\ behind' \in BOOLEAN
      <4>1. state' = NothingRecorded /\ loaded' = NothingRecorded /\ behind' = FALSE
        BY <1>8, Zenon DEF Conclude, Abandon
      <4>2. NothingRecorded \in Records
        BY DEF NothingRecorded, Records
      <4>. QED BY <4>1, <4>2
    <3>. QED BY <2>2, <3>1, <3>2, <3>3 DEF TypeOK
  <2>. QED BY <1>8, <2>1, <2>2 DEF Conclude
<1>. QED BY <1>1, <1>3, <1>4, <1>5, <1>6, <1>7, <1>8 DEF BatchNext, RunStep, Join

\* The types hold at first.
LEMMA InitTypes == BatchInit => TypeOK
<1>. SUFFICES ASSUME BatchInit PROVE TypeOK
  OBVIOUS
<1>1. Cardinality(Holding) <= Concurrency
  <2>1. Holding = {}
    BY NoBatch DEF BatchInit, Unfilled, Holding
  <2>. QED BY <2>1, FS_EmptySet, ConstantsAssumption
<1>2. batch \in Seq(Items) /\ pos \in 1 .. Len(batch) + 1
  BY NoBatch DEF BatchInit
<1>. QED BY <1>1, <1>2, ConstantsAssumption
     DEF BatchInit, TypeOK, Records, NothingRecorded, Unfilled

\* The types hold and no more tasks run than there are permits, for any list,
\* any number of permits and any failures (processor.rs, the semaphore).
THEOREM TypeCorrect == BatchSpec => []TypeOK
<1>1. BatchInit => TypeOK
  BY InitTypes
<1>2. TypeOK /\ [BatchNext]_vars => TypeOK'
  BY TypeStep
<1>. QED BY <1>1, <1>2, PTL DEF BatchSpec

-----------------------------------------------------------------------------
(* The invariants behind the properties of the record                      *)

\* No item is lost, and a run drains only after its list is used up.
AccountedInv ==
  /\ Accounted
  /\ pc = "drain" => pos \notin DOMAIN batch

\* What is recorded, in memory or in the file, did happen; so did what a
\* finished task is about to report.
TrueInv ==
  /\ CheckpointIsTrue
  /\ state.completed \subseteq applied /\ state.failed \subseteq refused
  /\ \A i \in DOMAIN tasks : tasks[i] = "ok" => batch[i] \in applied
  /\ \A i \in DOMAIN tasks : tasks[i] = "failed" => batch[i] \in refused

\* Each result of the run is in the record, and the file is the record unless
\* the last save failed or there was nothing to save.
DurableInv ==
  pc # "idle" =>
    /\ \A i \in DOMAIN batch : results[i] \in {"ok", "skipped"} => batch[i] \in state.completed
    /\ \A i \in DOMAIN batch : results[i] \in {"failed", "unresolved"} => batch[i] \in state.failed
    /\ loaded.completed \subseteq state.completed /\ loaded.failed \subseteq state.failed
    /\ flags.keep /\ ~behind =>
         file = state \/ \A i \in DOMAIN batch : results[i] \notin {"ok", "failed"}

\* The record grows from what was loaded by items already taken, and a resuming
\* run's file holds no more than its record.
GrownInv ==
  pc # "idle" =>
    /\ \A it \in state.completed \cup state.failed :
         it \in SkipSet \/ \E j \in DOMAIN batch : j < pos /\ batch[j] = it
    /\ flags.resume /\ file # NoFile =>
         file.completed \subseteq state.completed /\ file.failed \subseteq state.failed

\* No step loses an item: one leaves the list for a task or a result, a joined
\* task becomes a result, and the drain ends only when no task is left.
LEMMA AccountedStep ==
  ASSUME TypeOK, TypeOK', AccountedInv, [BatchNext]_vars
  PROVE  AccountedInv'
<1>1. DOMAIN batch = 1 .. Len(batch) /\ Len(batch) \in Nat /\ pos \in 1 .. Len(batch) + 1
  BY Positions DEF TypeOK
<1>2. DOMAIN tasks = DOMAIN batch /\ DOMAIN results = DOMAIN batch
  BY DEF TypeOK
<1>3. CASE StartBatch
  <2>1. DOMAIN batch' = 1 .. Len(batch') /\ Len(batch') \in Nat
    BY Positions DEF TypeOK
  <2>2. \A i \in DOMAIN batch' : ~(i < pos') /\ tasks'[i] = "none" /\ results'[i] = "none"
    BY <1>3, <2>1 DEF StartBatch, Unfilled
  <2>. QED BY <1>3, <2>2 DEF StartBatch, AccountedInv, Accounted
<1>4. ASSUME NEW how \in {"failed", "crashed"}, Abandon(how)
      PROVE  AccountedInv'
  <2>1. DOMAIN batch' = {} /\ pc' = "idle"
    BY <1>4, NoBatch DEF Abandon
  <2>. QED BY <2>1 DEF AccountedInv, Accounted
<1>5. CASE StartFails \/ Crash
  BY <1>4, <1>5 DEF StartFails, Crash
<1>6. CASE SkipItem
  <2>1. \A i \in DOMAIN batch : i < pos + 1 <=> i < pos \/ i = pos
    BY <1>1
  <2>2. \A i \in DOMAIN batch : /\ i # pos => results'[i] = results[i]
                                /\ i = pos => results'[i] # "none"
    BY <1>2, <1>6 DEF SkipItem
  <2>3. tasks[pos] = "none"
    BY <1>1, <1>6 DEF SkipItem, AccountedInv, Accounted
  <2>. QED BY <1>6, <2>1, <2>2, <2>3 DEF SkipItem, AccountedInv, Accounted
<1>7. CASE SpawnItem
  <2>1. \A i \in DOMAIN batch : i < pos + 1 <=> i < pos \/ i = pos
    BY <1>1
  <2>2. \A i \in DOMAIN batch : /\ i # pos => tasks'[i] = tasks[i]
                                /\ i = pos => tasks'[i] = "running"
    BY <1>2, <1>7 DEF SpawnItem
  <2>3. results[pos] = "none"
    BY <1>1, <1>7 DEF SpawnItem, AccountedInv, Accounted
  <2>. QED BY <1>7, <2>1, <2>2, <2>3 DEF SpawnItem, AccountedInv, Accounted
<1>8. ASSUME NEW k \in DOMAIN tasks, FinishTask(k)
      PROVE  AccountedInv'
  <2>1. \A i \in DOMAIN batch : tasks'[i] = "none" <=> tasks[i] = "none"
    BY <1>2, <1>8 DEF FinishTask
  <2>. QED BY <1>8, <2>1 DEF FinishTask, AccountedInv, Accounted
<1>9. ASSUME NEW k \in DOMAIN tasks, RecordJoin(k)
      PROVE  AccountedInv'
  <2>1. \A i \in DOMAIN batch : i # k => tasks'[i] = tasks[i] /\ results'[i] = results[i]
    BY <1>2, <1>9 DEF RecordJoin, Pushed
  <2>2. tasks[k] # "none" /\ tasks'[k] = "none" /\ results'[k] # "none"
    BY <1>2, <1>9 DEF RecordJoin, Pushed, Finished
  <2>3. pc' = pc /\ pc # "idle" /\ batch' = batch /\ pos' = pos
    BY <1>9 DEF RecordJoin
  <2>. QED BY <2>1, <2>2, <2>3 DEF AccountedInv, Accounted
<1>10. CASE EndCollect \/ EndLoop \/ UNCHANGED vars
  BY <1>10 DEF EndCollect, EndLoop, vars, runVars, AccountedInv, Accounted
<1>11. CASE Conclude
  <2>1. \A i \in DOMAIN batch : i < pos /\ tasks[i] = "none"
    BY <1>1, <1>2, <1>11 DEF Conclude, AccountedInv
  <2>2. \A i \in DOMAIN batch : results[i] # "none"
    BY <2>1 DEF AccountedInv, Accounted
  <2>3. CASE Abandon("failed")
    BY <1>4, <2>3
  <2>4. CASE UNCHANGED <<batch, pos, tasks, results>> /\ pc' = "idle"
    BY <2>1, <2>2, <2>4 DEF AccountedInv, Accounted
  <2>. QED BY <1>11, <2>3, <2>4 DEF Conclude
<1>. QED BY <1>3, <1>5, <1>6, <1>7, <1>8, <1>9, <1>10, <1>11 DEF BatchNext, RunStep, Join

\* No step records what did not happen: a join records what its task ended with,
\* and a run starts from the file or from nothing.
LEMMA TrueStep ==
  ASSUME TypeOK, TrueInv, [BatchNext]_vars
  PROVE  TrueInv'
<1>. USE ConstantsAssumption
<1>1. DOMAIN tasks = DOMAIN batch
  BY DEF TypeOK
<1>2. CASE StartBatch
  <2>1. \A i \in DOMAIN tasks' : tasks'[i] = "none"
    BY <1>2 DEF StartBatch, Unfilled
  <2>2. file' = file \/ file' = NoFile
    BY <1>2 DEF StartBatch
  <2>3. state' = NothingRecorded \/ (file' # NoFile /\ state' = file')
    BY <1>2 DEF StartBatch
  <2>4. applied' = applied /\ refused' = refused
    BY <1>2 DEF StartBatch
  <2>. QED BY <2>1, <2>2, <2>3, <2>4 DEF TrueInv, CheckpointIsTrue, NothingRecorded
<1>3. ASSUME NEW how \in {"failed", "crashed"}, Abandon(how), UNCHANGED file
      PROVE  TrueInv'
  <2>1. DOMAIN tasks' = {} /\ state' = NothingRecorded
    BY <1>3 DEF Abandon, Unfilled
  <2>2. applied' = applied /\ refused' = refused /\ file' = file
    BY <1>3 DEF Abandon
  <2>. QED BY <2>1, <2>2 DEF TrueInv, CheckpointIsTrue, NothingRecorded
<1>4. CASE StartFails \/ Crash
  BY <1>3, <1>4 DEF StartFails, Crash
<1>5. CASE SkipItem \/ EndCollect \/ EndLoop \/ UNCHANGED vars
  BY <1>5 DEF SkipItem, EndCollect, EndLoop, vars, runVars, TrueInv, CheckpointIsTrue
<1>6. CASE SpawnItem
  <2>1. \A i \in DOMAIN tasks' : tasks'[i] = "running" \/ tasks'[i] = tasks[i]
    BY <1>6 DEF SpawnItem, TypeOK
  <2>2. DOMAIN tasks' = DOMAIN tasks /\ UNCHANGED <<file, batch, state, applied, refused>>
    BY <1>6 DEF SpawnItem, TypeOK
  <2>. QED BY <2>1, <2>2 DEF TrueInv, CheckpointIsTrue
<1>7. ASSUME NEW k \in DOMAIN tasks, FinishTask(k)
      PROVE  TrueInv'
  <2>1. applied \subseteq applied' /\ refused \subseteq refused'
    BY <1>7 DEF FinishTask
  <2>2. /\ DOMAIN tasks' = DOMAIN tasks
        /\ \A i \in DOMAIN tasks : i # k => tasks'[i] = tasks[i]
    BY <1>7 DEF FinishTask
  <2>3. /\ tasks'[k] = "ok" => batch[k] \in applied'
        /\ tasks'[k] = "failed" => batch[k] \in refused'
    BY <1>7 DEF FinishTask
  <2>4. UNCHANGED <<file, batch, state>>
    BY <1>7 DEF FinishTask
  <2>. QED BY <2>1, <2>2, <2>3, <2>4 DEF TrueInv, CheckpointIsTrue
<1>8. ASSUME NEW k \in DOMAIN tasks, RecordJoin(k)
      PROVE  TrueInv'
  <2>1. state' = Marked(k) /\ UNCHANGED <<batch, applied, refused>>
    BY <1>8 DEF RecordJoin
  <2>2. state'.completed \subseteq applied /\ state'.failed \subseteq refused
    BY <1>8, <2>1 DEF Marked, TrueInv, TypeOK, Records
  <2>3. file' = file \/ file' = Marked(k)
    BY <1>8 DEF RecordJoin, SaveAfter
  <2>4. /\ DOMAIN tasks' = DOMAIN tasks
        /\ \A i \in DOMAIN tasks : tasks'[i] = "none" \/ tasks'[i] = tasks[i]
    BY <1>8 DEF RecordJoin
  <2>. QED BY <2>1, <2>2, <2>3, <2>4 DEF TrueInv, CheckpointIsTrue
<1>9. CASE Conclude
  <2>1. CASE Abandon("failed") /\ UNCHANGED file
    BY <1>3, <2>1
  <2>2. CASE /\ file' \in {file, NoFile, state} /\ state' = NothingRecorded
             /\ UNCHANGED <<batch, tasks, applied, refused>>
    BY <2>2 DEF TrueInv, CheckpointIsTrue, NothingRecorded
  <2>. QED BY <1>9, <2>1, <2>2 DEF Conclude
<1>. QED BY <1>2, <1>4, <1>5, <1>6, <1>7, <1>8, <1>9 DEF BatchNext, RunStep, Join

\* No item is lost between the tasks and the results, for any list, however
\* tasks end and in whatever order they are joined (record_join).
THEOREM AccountedAlways == BatchSpec => []Accounted
<1>1. BatchInit => AccountedInv
  BY NoBatch DEF BatchInit, AccountedInv, Accounted
<1>2. TypeOK /\ TypeOK' /\ AccountedInv /\ [BatchNext]_vars => AccountedInv'
  BY AccountedStep
<1>3. AccountedInv => Accounted
  BY DEF AccountedInv
<1>. QED BY <1>1, <1>2, <1>3, TypeCorrect, PTL DEF BatchSpec

\* What the checkpoint says did happen, across any number of crashes, failed
\* saves, resets and resumes (BatchState::mark_*, save and load).
THEOREM CheckpointAlwaysTrue == BatchSpec => []CheckpointIsTrue
<1>1. BatchInit => TrueInv
  BY DEF BatchInit, TrueInv, CheckpointIsTrue, NothingRecorded, Unfilled
<1>2. TypeOK /\ TrueInv /\ [BatchNext]_vars => TrueInv'
  BY TrueStep
<1>3. TrueInv => CheckpointIsTrue
  BY DEF TrueInv
<1>. QED BY <1>1, <1>2, <1>3, TypeCorrect, PTL DEF BatchSpec

\* A mark adds to the record and drops nothing from it.
LEMMA MarkGrows ==
  ASSUME TypeOK, NEW k \in DOMAIN tasks, Finished(k)
  PROVE  /\ state.completed \subseteq Marked(k).completed
         /\ state.failed \subseteq Marked(k).failed
         /\ tasks[k] = "ok" => batch[k] \in Marked(k).completed
         /\ tasks[k] = "failed" => batch[k] \in Marked(k).failed
         /\ tasks[k] = "panicked" => Marked(k) = state
         /\ \A it \in Marked(k).completed \cup Marked(k).failed :
              it = batch[k] \/ it \in state.completed \cup state.failed
  BY DEF TypeOK, Records, Marked, Finished

\* No step takes a result out of the record, and a save that succeeds writes
\* the whole of it.
LEMMA DurableStep ==
  ASSUME TypeOK, DurableInv, [BatchNext]_vars
  PROVE  DurableInv'
<1>1. DOMAIN tasks = DOMAIN batch /\ DOMAIN results = DOMAIN batch
  BY DEF TypeOK
<1>2. CASE StartBatch
  <2>1. \A i \in DOMAIN batch' : results'[i] = "none"
    BY <1>2 DEF StartBatch, Unfilled
  <2>2. state' = loaded'
    BY <1>2 DEF StartBatch
  <2>. QED BY <2>1, <2>2 DEF DurableInv
<1>3. CASE StartFails \/ Crash \/ Conclude
  BY <1>3 DEF StartFails, Crash, Conclude, Abandon, DurableInv
<1>4. CASE SkipItem
  <2>1. pc = "loop" /\ pos \in DOMAIN batch /\ batch[pos] \in SkipSet
    BY <1>4 DEF SkipItem
  <2>2. UNCHANGED <<file, pc, flags, batch, state, loaded, behind>>
    BY <1>4 DEF SkipItem
  <2>3. results' = [results EXCEPT ![pos] =
                      IF batch[pos] \in loaded.failed THEN "unresolved" ELSE "skipped"]
    BY <1>4 DEF SkipItem
  <2>4. \A i \in DOMAIN batch : i # pos => results'[i] = results[i]
    BY <1>1, <2>3
  <2>5. /\ results'[pos] \in {"skipped", "unresolved"}
        /\ results'[pos] = "unresolved" => batch[pos] \in loaded.failed
        /\ results'[pos] = "skipped" => batch[pos] \in loaded.completed
    BY <1>1, <2>1, <2>3 DEF SkipSet
  <2>. QED BY <2>1, <2>2, <2>4, <2>5 DEF DurableInv
<1>5. CASE SpawnItem \/ EndCollect \/ EndLoop \/ UNCHANGED vars
  BY <1>5 DEF SpawnItem, EndCollect, EndLoop, vars, runVars, DurableInv
<1>6. ASSUME NEW k \in DOMAIN tasks, FinishTask(k)
      PROVE  DurableInv'
  BY <1>6 DEF FinishTask, DurableInv
<1>7. ASSUME NEW k \in DOMAIN tasks, RecordJoin(k)
      PROVE  DurableInv'
  <2>1. pc # "idle" /\ Finished(k) /\ state' = Marked(k)
    BY <1>7 DEF RecordJoin
  <2>2. UNCHANGED <<pc, flags, batch, loaded>>
    BY <1>7 DEF RecordJoin
  <2>3. /\ results'[k] = tasks[k]
        /\ \A i \in DOMAIN batch : i # k => results'[i] = results[i]
    BY <1>1, <1>7 DEF RecordJoin, Pushed
  <2>4. tasks[k] \in {"ok", "failed", "panicked"}
    BY <2>1 DEF Finished
  <2>5. ASSUME flags.keep, ~behind'
        PROVE  file' = state' \/ \A i \in DOMAIN batch : results'[i] \notin {"ok", "failed"}
    <3>1. CASE tasks[k] # "panicked"
      BY <1>7, <2>1, <2>5, <3>1 DEF RecordJoin, SaveAfter
    <3>2. CASE tasks[k] = "panicked"
      <4>1. file' = file /\ behind' = behind
        BY <1>7, <3>2 DEF RecordJoin
      <4>2. state' = state
        BY <2>1, <3>2, MarkGrows
      <4>. QED BY <2>1, <2>3, <2>5, <3>2, <4>1, <4>2 DEF DurableInv
    <3>. QED BY <3>1, <3>2
  <2>6. state.completed \subseteq state'.completed /\ state.failed \subseteq state'.failed
    BY <2>1, MarkGrows
  <2>7. /\ \A i \in DOMAIN batch : results'[i] \in {"ok", "skipped"} => batch[i] \in state'.completed
        /\ \A i \in DOMAIN batch : results'[i] \in {"failed", "unresolved"} => batch[i] \in state'.failed
    BY <2>1, <2>3, <2>4, <2>6, MarkGrows DEF DurableInv
  <2>. QED BY <2>1, <2>2, <2>5, <2>6, <2>7 DEF DurableInv
<1>. QED BY <1>2, <1>3, <1>4, <1>5, <1>6, <1>7 DEF BatchNext, RunStep, Join

\* The record of a run comes from the file it resumed from and from items it
\* took itself.
LEMMA GrownStep ==
  ASSUME TypeOK, AccountedInv, GrownInv, [BatchNext]_vars
  PROVE  GrownInv'
<1>1. DOMAIN tasks = DOMAIN batch /\ DOMAIN batch = 1 .. Len(batch) /\ pos \in 1 .. Len(batch) + 1
  BY Positions DEF TypeOK
<1>2. CASE StartBatch
  <2>1. state' = loaded' /\ (flags'.resume /\ file' # NoFile => loaded' = file')
    BY <1>2 DEF StartBatch
  <2>. QED BY <2>1 DEF GrownInv, SkipSet
<1>3. CASE StartFails \/ Crash \/ Conclude
  BY <1>3 DEF StartFails, Crash, Conclude, Abandon, GrownInv
<1>4. CASE SkipItem \/ SpawnItem
  <2>1. pos' = pos + 1 /\ pc # "idle"
    BY <1>4 DEF SkipItem, SpawnItem
  <2>2. UNCHANGED <<file, flags, batch, state, loaded>>
    BY <1>4 DEF SkipItem, SpawnItem
  <2>3. \A j \in DOMAIN batch : j < pos => j < pos + 1
    BY <1>1
  <2>. QED BY <2>1, <2>2, <2>3 DEF GrownInv, SkipSet
<1>5. CASE EndCollect \/ EndLoop \/ UNCHANGED vars
  BY <1>5 DEF EndCollect, EndLoop, vars, runVars, GrownInv, SkipSet
<1>6. ASSUME NEW k \in DOMAIN tasks, FinishTask(k)
      PROVE  GrownInv'
  BY <1>6 DEF FinishTask, GrownInv, SkipSet
<1>7. ASSUME NEW k \in DOMAIN tasks, RecordJoin(k)
      PROVE  GrownInv'
  <2>1. pc # "idle" /\ Finished(k) /\ state' = Marked(k)
    BY <1>7 DEF RecordJoin
  <2>2. UNCHANGED <<pc, flags, batch, pos, loaded>>
    BY <1>7 DEF RecordJoin
  <2>3. file' = file \/ file' = Marked(k)
    BY <1>7 DEF RecordJoin, SaveAfter
  <2>4. k \in DOMAIN batch /\ k < pos
    BY <1>1, <2>1 DEF Finished, AccountedInv, Accounted
  <2>5. \A it \in state'.completed \cup state'.failed :
          it \in SkipSet \/ \E j \in DOMAIN batch : j < pos /\ batch[j] = it
    BY <2>1, <2>4, MarkGrows DEF GrownInv
  <2>6. flags.resume /\ file' # NoFile =>
          file'.completed \subseteq state'.completed /\ file'.failed \subseteq state'.failed
    BY <2>1, <2>3, MarkGrows DEF GrownInv
  <2>. QED BY <2>2, <2>5, <2>6 DEF GrownInv, SkipSet
<1>. QED BY <1>2, <1>3, <1>4, <1>5, <1>6, <1>7 DEF BatchNext, RunStep, Join

\* All of the above holds together.
BatchInv == TypeOK /\ AccountedInv /\ DurableInv /\ GrownInv

\* It holds at first and each step keeps it.
LEMMA BatchInvHolds == BatchSpec => []BatchInv
<1>1. BatchInit => BatchInv
  <2>1. BatchInit => AccountedInv
    BY NoBatch DEF BatchInit, AccountedInv, Accounted
  <2>2. BatchInit => DurableInv /\ GrownInv
    BY DEF BatchInit, DurableInv, GrownInv
  <2>3. BatchInit => TypeOK
    BY InitTypes
  <2>. QED BY <2>1, <2>2, <2>3 DEF BatchInv
<1>2. BatchInv /\ [BatchNext]_vars => BatchInv'
  BY TypeStep, AccountedStep, DurableStep, GrownStep DEF BatchInv
<1>. QED BY <1>1, <1>2, PTL DEF BatchSpec

-----------------------------------------------------------------------------
(* The properties of the record                                            *)

\* A crash loses no more than the tasks not yet joined, for any list and any
\* sequence of saves that fail (record_result, BatchState::save).
THEOREM RecordedAlwaysDurable == BatchSpec => []RecordedIsDurable
<1>1. BatchInv => RecordedIsDurable
  <2>. SUFFICES ASSUME BatchInv, pc # "idle", flags.keep, ~behind, NEW i \in DOMAIN batch
                PROVE  /\ results[i] = "ok" => file # NoFile /\ batch[i] \in file.completed
                       /\ results[i] = "failed" => file # NoFile /\ batch[i] \in file.failed
    BY DEF RecordedIsDurable
  <2>1. state # NoFile
    BY ConstantsAssumption DEF BatchInv, TypeOK
  <2>2. file = state \/ results[i] \notin {"ok", "failed"}
    BY DEF BatchInv, DurableInv
  <2>. QED BY <2>1, <2>2 DEF BatchInv, DurableInv
<1>. QED BY <1>1, BatchInvHolds, PTL

\* A resuming run never drops a recorded item, whichever saves fail on the way
\* (process on resume, BatchState::save).
THEOREM ResumeAlwaysKeeps == BatchSpec => ResumeKeepsRecord
<1>1. ASSUME BatchInv, [BatchNext]_vars, pc # "idle", flags.resume, file # NoFile, file' # NoFile
      PROVE  file.completed \subseteq file'.completed /\ file.failed \subseteq file'.failed
  <2>1. file.completed \subseteq state.completed /\ file.failed \subseteq state.failed
    BY <1>1 DEF BatchInv, GrownInv
  <2>2. ASSUME NEW k \in DOMAIN tasks, RecordJoin(k)
        PROVE  file' = file \/ file' = Marked(k)
    BY <2>2 DEF RecordJoin, SaveAfter
  <2>3. CASE Join
    <3>1. PICK k \in DOMAIN tasks : RecordJoin(k)
      BY <2>3 DEF Join
    <3>2. Finished(k)
      BY <3>1 DEF RecordJoin
    <3>3. /\ state.completed \subseteq Marked(k).completed
          /\ state.failed \subseteq Marked(k).failed
      BY <1>1, <3>2, MarkGrows DEF BatchInv
    <3>. QED BY <2>1, <2>2, <3>1, <3>3
  <2>4. CASE Conclude
    <3>1. file' \in {file, NoFile, state}
      BY <2>4 DEF Conclude
    <3>. QED BY <1>1, <2>1, <3>1
  <2>5. CASE StartFails \/ SkipItem \/ SpawnItem \/ EndCollect \/ EndLoop \/ Crash \/ UNCHANGED vars
    BY <2>5 DEF StartFails, SkipItem, SpawnItem, EndCollect, EndLoop, Crash, vars
  <2>6. ASSUME NEW k \in DOMAIN tasks, FinishTask(k)
        PROVE  file' = file
    BY <2>6 DEF FinishTask
  <2>7. ~StartBatch
    BY <1>1 DEF StartBatch
  <2>. QED BY <1>1, <2>3, <2>4, <2>5, <2>6, <2>7 DEF BatchNext, RunStep
<1>2. BatchInv /\ [BatchNext]_vars
      => (pc # "idle" /\ flags.resume /\ file # NoFile /\ file' # NoFile
            => file.completed \subseteq file'.completed /\ file.failed \subseteq file'.failed)
  BY <1>1
<1>. QED BY <1>2, BatchInvHolds, PTL DEF BatchSpec, ResumeKeepsRecord

\* A resuming run spawns nothing the checkpoint calls done, unless its list
\* names it twice (process, skip_set).
THEOREM DoneNeverRedone == BatchSpec => DoneIsNotRedone
<1>1. ASSUME BatchInv, SpawnItem, flags.resume, file # NoFile,
             \A j \in 1 .. pos - 1 : batch[j] # batch[pos]
      PROVE  batch[pos] \notin file.completed \cup file.failed
  <2>1. pc # "idle" /\ batch[pos] \notin SkipSet
    BY <1>1 DEF SpawnItem
  <2>2. file.completed \subseteq state.completed /\ file.failed \subseteq state.failed
    BY <1>1, <2>1 DEF BatchInv, GrownInv
  <2>3. \A j \in DOMAIN batch : j < pos => j \in 1 .. pos - 1
    <3>1. batch \in Seq(Items) /\ pos \in 1 .. Len(batch) + 1
      BY <1>1 DEF BatchInv, TypeOK
    <3>. QED BY <3>1, Positions
  <2>. QED BY <1>1, <2>1, <2>2, <2>3 DEF BatchInv, GrownInv
<1>2. BatchInv /\ [BatchNext]_vars
      => (SpawnItem /\ flags.resume /\ file # NoFile
            /\ (\A j \in 1 .. pos - 1 : batch[j] # batch[pos])
          => batch[pos] \notin file.completed \cup file.failed)
  BY <1>1
<1>. QED BY <1>2, BatchInvHolds, PTL DEF BatchSpec, DoneIsNotRedone

\* When a run returns, the checkpoint is gone if everything resolved and else
\* holds all of its successes and failures (process, after the drain).
THEOREM FailuresAlwaysSurvive == BatchSpec => []FailuresSurvive
<1>1. BatchInit => FailuresSurvive
  BY DEF BatchInit, FailuresSurvive
<1>2. ASSUME BatchInv, FailuresSurvive, [BatchNext]_vars
      PROVE  FailuresSurvive'
  <2>1. CASE StartBatch \/ StartFails \/ Crash
    BY <2>1 DEF StartBatch, StartFails, Crash, Abandon, FailuresSurvive
  <2>2. CASE SkipItem \/ SpawnItem \/ EndCollect \/ EndLoop
    BY <2>2 DEF SkipItem, SpawnItem, EndCollect, EndLoop, FailuresSurvive
  <2>3. ASSUME NEW k \in DOMAIN tasks, FinishTask(k) \/ RecordJoin(k)
        PROVE  FailuresSurvive'
    BY <1>2, <2>3 DEF FinishTask, RecordJoin, FailuresSurvive
  <2>4. CASE Conclude
    <3>1. CASE Abandon("failed")
      BY <3>1 DEF Abandon, FailuresSurvive
    <3>2. CASE /\ file' = IF ~flags.keep THEN file ELSE IF Unresolved = {} THEN NoFile ELSE state
               /\ UNCHANGED <<flags, batch, results>>
      <4>1. /\ \A i \in DOMAIN batch : results[i] \in {"ok", "skipped"} => batch[i] \in state.completed
            /\ \A i \in DOMAIN batch : results[i] \in {"failed", "unresolved"} => batch[i] \in state.failed
        BY <1>2, <2>4 DEF Conclude, BatchInv, DurableInv
      <4>2. \A i \in DOMAIN batch : results[i] # "none"
        BY <1>2, <2>4 DEF Conclude, BatchInv, AccountedInv, Accounted, TypeOK
      <4>3. Unresolved = {} <=> \A i \in DOMAIN batch : results[i] \in {"ok", "skipped"}
        BY <1>2, <4>2 DEF Unresolved, BatchInv, TypeOK
      <4>4. state # NoFile
        BY <1>2, ConstantsAssumption DEF BatchInv, TypeOK
      <4>. QED BY <3>2, <4>1, <4>3, <4>4 DEF FailuresSurvive
    <3>. QED BY <2>4, <3>1, <3>2 DEF Conclude
  <2>5. CASE UNCHANGED vars
    BY <1>2, <2>5 DEF vars, runVars, FailuresSurvive
  <2>. QED BY <1>2, <2>1, <2>2, <2>3, <2>4, <2>5 DEF BatchNext, RunStep, Join
<1>3. BatchInv /\ FailuresSurvive /\ [BatchNext]_vars => FailuresSurvive'
  BY <1>2
<1>. QED BY <1>1, <1>3, BatchInvHolds, PTL DEF BatchSpec

=============================================================================
