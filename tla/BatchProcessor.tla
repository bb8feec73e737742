--------------------------- MODULE BatchProcessor ---------------------------
(***************************************************************************)
(* yeomna-batch: a list of items run through a caller's function by a      *)
(* bounded number of tasks, with a checkpoint file that a later run may    *)
(* resume from (processor.rs, state.rs).                                   *)
(*                                                                         *)
(* The loop that spawns and the tasks it spawned interleave at every       *)
(* await; the process may die at any of them.  An item is known by its id, *)
(* and a task by the position of its item in the list, since a list may    *)
(* name an id twice.                                                       *)
(***************************************************************************)
EXTENDS Integers, Sequences, FiniteSets

CONSTANTS
  Items,        \* item ids
  Batches,      \* the lists of items the caller may pass
  Concurrency,  \* permits of the semaphore
  NoFile,       \* the checkpoint file does not exist
  Faults        \* BOOLEAN: may the file system fail, the process die

Records == [completed : SUBSET Items, failed : SUBSET Items]

ASSUME ConstantsAssumption ==
  /\ Batches \subseteq Seq(Items)
  /\ Concurrency \in Nat
  /\ NoFile \notin Records
  /\ Faults \in BOOLEAN

VARIABLES
  file,      \* the checkpoint file
  pc,        \* where process() is
  flags,     \* the run's configuration: keep (state_file is set), resume
  batch,     \* the list it was given
  pos,       \* the position it takes next
  state,     \* BatchState in memory
  loaded,    \* what it held when the run started: skip_set and failed_prior
  tasks,     \* per position, the spawned task until it is joined
  results,   \* per position, what is pushed to results
  outcome,   \* how the last run returned
  behind,    \* history: the run's last save failed
  applied,   \* history: items whose function has returned Ok
  refused    \* history: items whose function has returned Err

runVars == <<pc, flags, batch, pos, state, loaded, tasks, results, outcome, behind>>
vars == <<file, runVars, applied, refused>>

-----------------------------------------------------------------------------
NothingRecorded == [completed |-> {}, failed |-> {}]
Unfilled(b) == [i \in DOMAIN b |-> "none"]

SkipSet == loaded.completed \cup loaded.failed

\* Mutant: the permit is given back when the result is joined.
HoldingUntilJoined == {i \in DOMAIN tasks : tasks[i] # "none"}

\* A task gives its permit back before it reports, and when it panics.
Holding == {i \in DOMAIN tasks : tasks[i] = "running"}

\* Mutant: only what failed in this run counts as a failure.
FailedHere == {i \in DOMAIN results : results[i] \in {"failed", "panicked"}}

\* results that are not a success
Unresolved == {i \in DOMAIN results : results[i] \in {"unresolved", "failed", "panicked"}}

-----------------------------------------------------------------------------
BatchInit ==
  /\ file = NoFile
  /\ pc = "idle"
  /\ flags = [keep |-> FALSE, resume |-> FALSE]
  /\ batch = << >> /\ pos = 1
  /\ state = NothingRecorded /\ loaded = NothingRecorded
  /\ tasks = Unfilled(<< >>) /\ results = Unfilled(<< >>)
  /\ outcome = "none" /\ behind = FALSE
  /\ applied = {} /\ refused = {}

\* process() up to its loop: BatchState::clear when reset, load when resume;
\* neither means anything without a state_file.
StartBatch ==
  /\ pc = "idle" /\ Concurrency > 0
  /\ flags' \in {f \in [keep : BOOLEAN, resume : BOOLEAN] : f.resume => f.keep}
  /\ batch' \in Batches
  /\ \E reset \in BOOLEAN : file' = IF flags'.keep /\ reset THEN NoFile ELSE file
  /\ loaded' = IF flags'.resume /\ file' # NoFile THEN file' ELSE NothingRecorded
  /\ state' = loaded'
  /\ pos' = 1
  /\ tasks' = Unfilled(batch') /\ results' = Unfilled(batch')
  /\ outcome' = "none" /\ behind' = FALSE
  /\ pc' = "loop"
  /\ UNCHANGED <<applied, refused>>

\* The run is over and its list is forgotten.
Abandon(how) ==
  /\ pc' = "idle" /\ outcome' = how
  /\ batch' = << >> /\ pos' = 1
  /\ state' = NothingRecorded /\ loaded' = NothingRecorded
  /\ tasks' = Unfilled(<< >>) /\ results' = Unfilled(<< >>)
  /\ behind' = FALSE
  /\ UNCHANGED <<flags, applied, refused>>

\* No permits, or a checkpoint that cannot be removed or read: an error before
\* anything is touched.
StartFails ==
  /\ pc = "idle" /\ (Concurrency = 0 \/ Faults)
  /\ Abandon("failed")
  /\ UNCHANGED file

\* An item of skip_set: a failure of an earlier run stays an unresolved one.
SkipItem ==
  /\ pc = "loop" /\ pos \in DOMAIN batch /\ batch[pos] \in SkipSet
  /\ results' = [results EXCEPT ![pos] =
                   IF batch[pos] \in loaded.failed THEN "unresolved" ELSE "skipped"]
  /\ pos' = pos + 1
  /\ UNCHANGED <<file, pc, flags, batch, state, loaded, tasks, outcome, behind, applied, refused>>

\* Mutant: no permit is acquired.
SpawnWithoutPermit ==
  /\ pc = "loop" /\ pos \in DOMAIN batch /\ batch[pos] \notin SkipSet
  /\ tasks' = [tasks EXCEPT ![pos] = "running"]
  /\ pos' = pos + 1 /\ pc' = "collect"
  /\ UNCHANGED <<file, flags, batch, state, loaded, results, outcome, behind, applied, refused>>

\* acquire_owned, then spawn; the rate limiter is waited for inside the task.
SpawnItem ==
  /\ pc = "loop" /\ pos \in DOMAIN batch /\ batch[pos] \notin SkipSet
  /\ Cardinality(Holding) < Concurrency
  /\ tasks' = [tasks EXCEPT ![pos] = "running"]
  /\ pos' = pos + 1
  /\ pc' = "collect"
  /\ UNCHANGED <<file, flags, batch, state, loaded, results, outcome, behind, applied, refused>>

\* The caller's function returns or panics, and the permit is dropped.
FinishTask(i) ==
  /\ i \in DOMAIN tasks /\ tasks[i] = "running"
  /\ \E how \in {"ok", "failed", "panicked"} :
       /\ tasks' = [tasks EXCEPT ![i] = how]
       /\ applied' = IF how = "ok" THEN applied \cup {batch[i]} ELSE applied
       /\ refused' = IF how = "failed" THEN refused \cup {batch[i]} ELSE refused
  /\ UNCHANGED <<file, pc, flags, batch, pos, state, loaded, results, outcome, behind>>

Finished(i) == i \in DOMAIN tasks /\ tasks[i] \in {"ok", "failed", "panicked"}

\* Mutant: a panicked item is marked failed.
MarkedPanicsToo(i) ==
  IF tasks[i] = "ok" THEN [state EXCEPT !.completed = @ \cup {batch[i]}]
                     ELSE [state EXCEPT !.failed = @ \cup {batch[i]}]

\* mark_completed, mark_failed; a panic marks nothing.
Marked(i) ==
  CASE tasks[i] = "ok" -> [state EXCEPT !.completed = @ \cup {batch[i]}]
    [] tasks[i] = "failed" -> [state EXCEPT !.failed = @ \cup {batch[i]}]
    [] OTHER -> state

\* Mutant: what one item did is saved, not what all of them did.
SaveOfItem(i) ==
  \/ file' = [Marked(i) EXCEPT !.completed = @ \ state.completed] /\ behind' = FALSE
  \/ Faults /\ file' = file /\ behind' = TRUE

\* BatchState::save after the item, whole and by rename; a failure is a warning.
SaveAfter(i) ==
  \/ file' = Marked(i) /\ behind' = FALSE
  \/ Faults /\ file' = file /\ behind' = TRUE

\* Mutant: a panicked task's error is consumed and the item lost.
PushedUnlessPanicked(i) ==
  IF tasks[i] = "panicked" THEN results ELSE [results EXCEPT ![i] = tasks[i]]

Pushed(i) == [results EXCEPT ![i] = tasks[i]]

\* record_join and record_result, from the incremental collection or the drain.
RecordJoin(i) ==
  /\ pc \in {"collect", "drain"} /\ Finished(i)
  /\ tasks' = [tasks EXCEPT ![i] = "none"]
  /\ results' = Pushed(i)
  /\ state' = Marked(i)
  /\ IF flags.keep /\ tasks[i] # "panicked" THEN SaveAfter(i) ELSE UNCHANGED <<file, behind>>
  /\ UNCHANGED <<pc, flags, batch, pos, loaded, outcome, applied, refused>>

\* try_join_next has nothing more to offer; a task that has just given its
\* permit back may not be visible to it yet.
EndCollect ==
  /\ pc = "collect"
  /\ pc' = "loop"
  /\ UNCHANGED <<file, flags, batch, pos, state, loaded, tasks, results, outcome, behind,
                 applied, refused>>

EndLoop ==
  /\ pc = "loop" /\ pos \notin DOMAIN batch
  /\ pc' = "drain"
  /\ UNCHANGED <<file, flags, batch, pos, state, loaded, tasks, results, outcome, behind,
                 applied, refused>>

\* Every task is joined: the file goes when nothing is unresolved and is saved
\* otherwise, and here a failure of the file system is the run's.
Conclude ==
  /\ pc = "drain" /\ \A i \in DOMAIN tasks : tasks[i] = "none"
  /\ \/ /\ file' = IF ~flags.keep THEN file ELSE IF Unresolved = {} THEN NoFile ELSE state
        /\ pc' = "idle" /\ outcome' = "ok"
        /\ state' = NothingRecorded /\ loaded' = NothingRecorded /\ behind' = FALSE
        /\ UNCHANGED <<flags, batch, pos, tasks, results, applied, refused>>
     \/ Faults /\ flags.keep /\ Abandon("failed") /\ UNCHANGED file

\* The process dies, or the future is dropped and its tasks with it.
Crash ==
  /\ Faults /\ pc # "idle"
  /\ Abandon("crashed")
  /\ UNCHANGED file

Join == \E i \in DOMAIN tasks : RecordJoin(i)

\* What process() itself does, its tasks aside.
RunStep == SkipItem \/ SpawnItem \/ Join \/ EndCollect \/ EndLoop \/ Conclude

BatchNext ==
  \/ StartBatch \/ StartFails \/ RunStep \/ Crash
  \/ \E i \in DOMAIN tasks : FinishTask(i)

BatchSpec == BatchInit /\ [][BatchNext]_vars

-----------------------------------------------------------------------------
(* Properties                                                              *)

\* Types; the list is walked in order and no more tasks run than permits exist.
TypeOK ==
  /\ file \in Records \cup {NoFile}
  /\ pc \in {"idle", "loop", "collect", "drain"}
  /\ flags \in [keep : BOOLEAN, resume : BOOLEAN]
  /\ batch \in Seq(Items)
  /\ pos \in 1 .. Len(batch) + 1
  /\ state \in Records /\ loaded \in Records
  /\ tasks \in [DOMAIN batch -> {"none", "running", "ok", "failed", "panicked"}]
  /\ results \in [DOMAIN batch -> {"none", "skipped", "unresolved", "ok", "failed", "panicked"}]
  /\ outcome \in {"none", "ok", "failed", "crashed"}
  /\ behind \in BOOLEAN
  /\ applied \subseteq Items /\ refused \subseteq Items
  /\ Cardinality(Holding) <= Concurrency

\* No item is lost between the tasks and the results, however tasks end and in
\* whatever order they are joined: one that was taken has a task or a result
\* and never both, and a run returns when each has its result (record_join on
\* panics).
Accounted ==
  /\ \A i \in DOMAIN batch : i < pos <=> (tasks[i] # "none" \/ results[i] # "none")
  /\ \A i \in DOMAIN batch : tasks[i] = "none" \/ results[i] = "none"
  /\ pc = "idle" => \A i \in DOMAIN batch : results[i] # "none"

\* What the checkpoint says is so: an item it calls completed has been done, one
\* it calls failed was refused by the caller's function and did not just panic,
\* across crashes, resets and resumes.
CheckpointIsTrue ==
  file # NoFile => file.completed \subseteq applied /\ file.failed \subseteq refused

\* A crash loses no more than the tasks not yet joined: what was recorded in a
\* run is in the file, and a save that failed is made good by the next one
\* ("Checkpoint after every item for crash resilience").
RecordedIsDurable ==
  pc # "idle" /\ flags.keep /\ ~behind =>
    \A i \in DOMAIN batch :
      /\ results[i] = "ok" => file # NoFile /\ batch[i] \in file.completed
      /\ results[i] = "failed" => file # NoFile /\ batch[i] \in file.failed

\* When a run returns, the checkpoint is gone if everything in its list
\* resolved, and otherwise holds every success and every failure of that list,
\* those carried over from earlier runs included.  Of its list only: a failure
\* on file that the list leaves out counts as none and goes with the file
\* (processor.rs 258-291), though the comment there would keep the checkpoint
\* "while ANY failure remains unresolved".
FailuresSurvive ==
  pc = "idle" /\ outcome = "ok" /\ flags.keep =>
    IF \A i \in DOMAIN batch : results[i] \in {"ok", "skipped"} THEN file = NoFile
    ELSE /\ file # NoFile
         /\ \A i \in DOMAIN batch :
              /\ results[i] \in {"ok", "skipped"} => batch[i] \in file.completed
              /\ results[i] \in {"failed", "unresolved"} => batch[i] \in file.failed

\* A resuming run does not do again what the checkpoint calls done, unless its
\* list names it twice.
DoneIsNotRedone ==
  [][SpawnItem /\ flags.resume /\ file # NoFile
       /\ (\A j \in 1 .. pos - 1 : batch[j] # batch[pos])
     => batch[pos] \notin file.completed \cup file.failed]_vars

\* A resuming run never drops a recorded item from the file, other than by
\* removing the file when everything is resolved.
ResumeKeepsRecord ==
  [][pc # "idle" /\ flags.resume /\ file # NoFile /\ file' # NoFile
     => file.completed \subseteq file'.completed /\ file.failed \subseteq file'.failed]_vars

\* The runtime polls the run and its tasks, and the caller's function returns.
BatchFairSpec == BatchSpec /\ WF_vars(RunStep) /\ WF_vars(\E i \in DOMAIN tasks : FinishTask(i))

\* Every run returns: the wait for a permit ends although done tasks are joined
\* only after it.
RunReturns == pc # "idle" ~> pc = "idle"
=============================================================================
