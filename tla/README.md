# A verification project for Yeomna

Yeomna is an appliance that keeps a knowledge graph of source code and
documents in Postgres: an ingest pipeline fills it, a set of audited verbs reads
and writes it, a daemon and an MCP server carry the verbs to callers. This
directory holds TLA+ models of the parts of it that are hard to test, TLC
configurations that check them on small instances, and TLAPS proofs for every
value of the constants. Paths below are relative to the repository.

- [1. The system](#1-the-system)
- [2. The modules and the code](#2-the-modules-and-the-code)
- [3. What the runs check](#3-what-the-runs-check)
- [4. What is proved](#4-what-is-proved)
- [5. Where code and documents disagree](#5-where-code-and-documents-disagree)
- [6. What is left out](#6-what-is-left-out)

## 1. The system

| component | state it keeps | operations | talks to | what is hard |
|---|---|---|---|---|
| codebase ingest (`yeomna-pipeline/src/codebase.rs`) | the locals of a run | walk and hash-skip, node pass, language-server pass, edge pass | sink, embedder, language servers, the tree on disk | many small transactions, any of which may be the last; purges, edits and the servers' own view of the tree between them |
| document ingest (`documents.rs`, `document_graph.rs`, `orchestrator.rs`) | the locals of a run | hash-skip, extract, embed, write, declare | sink, extractor, embedder | the same, and declarations that outlive the documents of a run |
| sink (`yeomna-store/src/sink.rs`, `schema.sql`) | nodes, node_log, edges, chunks, embeddings | insert_documents, remove_documents_by_fields, probes | Postgres | one transaction per call, a savepoint per document, unlocked reads |
| write verbs (`yeomna-verbs/src/write.rs`) | the same tables | insert, update, delete, purge, edge.assert, edge.retract | Postgres | read-modify-write at READ COMMITTED between sessions |
| session and audit (`execute.rs`, `audit.rs`) | audit_log, the escalated flag | call, begin, finish, as_provision | every verb | an answer lost after COMMIT, a session that dies, a role not reset |
| lifecycle verbs (`yeomna-verbs/src/ingest.rs`) | none of their own | drift, validate, retire, prune | the walk, the store | decisions taken from a walk and applied later |
| graph, database and sql verbs | graphs, databases, roles | traverse, neighbors, shortest_path, create, drop, sql | Postgres | cascades, escalation |
| read verbs (`read.rs`) | none | get, list, query, health, ... | Postgres, embedder | rank fusion of two result lists |
| daemon (`yeomna-daemon`, `frame.rs`, `actor.rs`) | one session per connection | accept, frame read and write | session | peers that vanish mid-frame, the accept loop |
| MCP server (`yeomna-mcp`) | requests in flight, eight slots | request, cancel, end of input | `yeomna call` processes | a cancel against an answer, slots given back, the drain |
| language-server client (`yeomna-code/src/lsp`) | pending requests, open files | request, notify, reader loop | a child process | deadlines against late answers, a server that asks back, garbles or dies |
| embedder (`services/embedder/server.py`, `yeomna-embed`) | the weights, one worker, the connections behind it | info, embed; on the client connect, batch, halve | ingest, verbs | a service restarted with other weights between two batches, peers that say nothing, weights still loading |
| batch processor (`yeomna-batch`) | the checkpoint file, tasks | process, resume, reset | its caller's function | a crash between effect and checkpoint, permits, panics |
| chunking, keys, code analysis (`yeomna-chunking`, `yeomna-code`) | the locals of a call | cut a text, name a key, resolve a name | - | boundaries between bytes, characters and tokens; names two files share; maps iterated in any order |
| command line (`yeomna-cli`) | none | one call each | daemon | - |

What makes each correct, in the terms of the code's own documents:

- **Ingest.** A search must never meet two versions of a file, a vector must have
  been made from the text it is stored with, nothing may dangle, what a
  successful run wrote must be whole, and a failed run must not look like a
  successful one (spec 011, EC-4).
- **Writes.** The log of a node must be the history it had (R8, spec 014 FR2), an
  `ok` in the audit log must mean the mutation is durable and the reverse (FR5),
  retract must leave ingest's edges alone (FR7), and edges must join nodes.
- **Lifecycle.** Retire removes only what the tree no longer has; prune removes
  only symbols without a file.
- **Documents.** A document that was written is whole, since the hash-skip would keep
  anything less; what the documents declare is in the graph when a run ends.
- **Session.** A connection whose role was not reset serves nobody.
- **MCP, LSP, batch.** Every request is answered once or cancelled, every permit
  comes back, every item is accounted for, and what a checkpoint says is true.
- **Embedder.** The vectors of one call are of one cohort, each of its own text.
- **Algorithms.** Windows and segments lose no text, a capped walk says that it was
  capped, and the same tree gives the same edges.

`PROJECT.json` lists these components, and under `hazards` the lines where each
difficulty bites with the property that watches it.

## 2. The modules and the code

| module | models | abstracts |
|---|---|---|
| `CodebaseIngest` | `codebase.rs` over the sink, with `enrichment_present`, the purge verb and the language-server extraction | `ChunkIndex` |
| `ChunkIndex` | what a search over chunks and embeddings is promised | |
| `MCCodebaseIngest` | two files of one crate and their possible contents | |
| `CodebaseIngestProofs` | theorems about `CodebaseIngest` | |
| `NodeWrites` | `write.rs`, `audit.rs`, `execute.rs`'s `call`, and the sink's node upsert | `NodeHistory` |
| `NodeHistory` | what a reader who replays history is promised | |
| `MCNodeWrites` | two sessions, a file and a node that may name it as its parent | |
| `NodeWritesProofs` | theorems about `NodeWrites` | |
| `BatchProcessor` | `process` of `yeomna-batch` with `BatchState` | |
| `BatchProcessorProofs` | theorems about `BatchProcessor` | |
| `McpServer` | `yeomna-mcp/src/lib.rs`, `target.rs` | `OneAnswer` |
| `OneAnswer` | what the server promises a client | |
| `Daemon` | `yeomna-daemon/src/server.rs`, `main.rs`, `execute.rs`'s `call` with `as_provision`, and what `database.rs` and `sql.rs` refuse | |
| `MCServing` | either of the two servers | |
| `McpServerProofs`, `DaemonProofs` | theorems about them; `DaemonProofs` also about their composition | |
| `DocumentStore` | the tables as the document writers and the sweeps see them, and the tree | |
| `Documents` | `documents.rs`, `document_graph.rs`: the ingest verb | |
| `Lifecycle` | retire and prune (`yeomna-verbs/src/ingest.rs`), beside a code ingest | |
| `Pipeline` | `orchestrator.rs`; and the composition of all writers of a corpus | |
| `MCCorpus` | three documents, a source file, a symbol | |
| `CorpusProofs` | theorems about the composition | |
| `LspSession` | `lsp/session.rs`, `lsp/client.rs` | |
| `Embedding` | `services/embedder/server.py`, `embedding.rs` and the verbs that embed | |
| `MCServices` | either of the two services | |
| `ServicesProofs` | theorems about them | |
| `Windows`, `Segments` | the chunkers, and the embedder's windows | |
| `GraphWalk`, `Reads` | `graph.rs`; the reads of `read.rs` that take several statements | |
| `Resolution` | the five resolvers that turn names into edges | |
| `MCAlgorithms` | any one of these five | |
| `MCBatchAlgorithms` | `MCAlgorithms`, or the batch processor with two items | |
| `AlgorithmsProofs` | theorems about these five | |

`Documents` extends `DocumentStore`, `Lifecycle` extends `Documents` and `Pipeline`
extends `Lifecycle`: they compose over one store, and `CorpusSpec` is their
composition. The two servers share no state, nor do the two services, nor the
five algorithms and the batch processor: `MCServing`, `MCServices`, `MCAlgorithms`
and `MCBatchAlgorithms` start one of theirs and leave the variables of the others
still.

### CodebaseIngest

One action is one transaction of the sink or one step of the run between two of
them. `heads` is the `symbol_hash` in each file node, `symbols` the symbol nodes
by key, `enriched` those whose payload carries the enrichment, `chunks` and
`vectors` the rows per file, `edges` the edge rows. A row of `chunks` remembers
the text its piece was cut from, which the store does not: that is how a mixture
of versions becomes visible. `pc`, `flags`, `walked`, `changed`, `todo`, `cur`,
`withVectors` and `ext` are the locals of `ingest_codebase`. Three are history:
`trusted`, the text an overwriting run that returned Ok last wrote for each file;
`blemished`, the files of which the store refused a node, a symbol or an edge that
the run goes on without; `unserved`, the units whose server failed when they were
last worth indexing.

`insert_documents` gives each row a savepoint of its own (`sink.rs` 152-172): a row
the store refuses is rolled back and counted, the others are committed. `Refusals`
chooses those rows, up to `MaxRefused` of an insert, and each caller does with the
count what its code does: an overwriting run whose chunks or vectors fell short
returns an error (`FallsShort`), with what landed left in the store; an appending one
cannot tell a refused row from one that was there; `write_file_nodes` and the
edge pass go on. `ChunkIndex` therefore promises pieces of one version, not
all of them; that they are all there after an Ok is `OkRunsWriteWhole`.

| action | code |
|---|---|
| `StartIngest`, `WalkAndAnalyze`, `StartNodePass` | `ingest_codebase`, `walk_and_analyze` |
| `WriteFileNode`, `WriteSymbols` | `write_file_nodes`, its two transactions |
| `RemoveStale`, `EmbedDocument`, `EmbedderFails`, `InsertChunks`, `InsertEmbeddings` | `write_chunks_and_embeddings` |
| `SkipUnit`, `ServerFails`, `ExtractUnit`, `WriteEnriched`, `EnrichedWriteFails` | `semantic_lsp_pass` |
| `WriteEdges` | `write_edges`, the end of the run |
| `Interrupt` | the process or the store's connection ends |
| `Edit` | whoever edits the tree (external) |
| `Purge` | the purge verb of another session |

A text is a value: the names it defines, the line they start at, what it imports
and its number of pieces are constant functions of it. `SymbolHash` is over names
only and `SymbolKey` includes the line, as in the code, and `FullHash` holds the
files whose analyzer digests lines as well. The resolvers of the edge pass, which
`Resolution` models one by one, are one here, `ImportEdges`, since they differ in how they read a text and not in what
they do with the result; `implements` edges behave as `calls` and are left out.
The embedding's cohort fields, metrics and summary counters are left out. Local
and late chunking are taken to cut a text into the same pieces; what matters here
is that a run writes all the pieces of one cut.

The two `remove_documents_by_fields` calls are one action because removing the
chunks cascades to the embeddings: between the calls nothing is left for the
second to see. A run that is asked to embed with no embedder returns before it
touches anything and is not modelled.

### NodeWrites

One action is one SQL statement. At READ COMMITTED a statement sees what has
committed when it starts, waits for rows that another open transaction has
claimed, and leaves its writes pending; so an open transaction is represented by
what it claims (`Claims`, `Shares`, computed from `pc`, `call` and `saw`), and its
writes land in `Commit`. `saw` holds what the transaction read and will act upon:
the row ids, the head payload, the family of a purge and what it measured.

| action | code |
|---|---|
| `Begin`, `Finish` | `audit::begin`, `audit::finish` around `Session::call` |
| `InsertRow` | `insert_txn`, `ON CONFLICT DO NOTHING` |
| `LockHead` | `update`, `SELECT ... FOR UPDATE` |
| `FindNode`, `Measure`, `Sweep` | `delete`, `purge`: lookup, the snapshot of the WITH statement, its row locks |
| `FindSource`, `FindTarget`, `Link`, `Unlink` | `edge_assert`, `edge_retract`; the sink's `insert_edge` for the edge an ingest declares |
| `ReadHead`, `UpsertRow` | the sink's `insert_node` under overwrite |
| `Commit` with `WriteHead`, `RemoveFamily`, `AddEdge`, `RetractEdge`, `CommitMark` | what becomes visible, the cascade and `mark_ok` included |
| `Abort` | refused arguments, a store error, a broken deadlock: the transaction is dropped |
| `Crash` | the connection or process ends; pending writes roll back |

Between the head row and the end of its transaction `insert`, `update` and the
upsert only append a log entry and mark the audit row, both on rows no other call
can touch while the head is claimed, so those statements are part of `Commit`.
A statement takes its row locks at once; in Postgres it takes them one by one,
which adds waits (and deadlocks, which `Abort` stands for) but no results. A
commit whose answer is lost is a `Commit` that leaves the reply `failed`. The
graph, the kinds and the chunk and embedding counts are left out: edges and log
entries behave as they do. The sink's path without overwrite inserts as
`InsertRow` does and is not repeated here. An ingest is two operations, `ingest` (a
node) and `declare` (an edge of basis `declared`); where an endpoint is missing a verb
is refused and an ingest counts the row and goes on (`Miss`).

`Alone` names the operations that run with no other call in flight. `sink.rs`
documents that it relies on one sequential caller (lines 10 to 15, and 288 to 290
on the log's sequence), so the runs and theorems about history set
`Alone = {"ingest"}`; what happens without that rule is told in section 5.

### BatchProcessor

`pc` says where `process` is: spawning (`loop`), collecting what has finished
after a spawn (`collect`), draining at the end (`drain`), or not running. `state`
is the `BatchState` in memory, `loaded` what it held when the run started
(`skip_set` and `failed_prior`), `file` the checkpoint on disk. `tasks` and
`results` are functions of the position in the list, because a list may name an
item twice; the order of the results vector is left out. `applied` and `refused`
are histories of what the caller's function answered, `behind` remembers that the
last save failed.

| action | code |
|---|---|
| `StartBatch`, `StartFails` | `process` up to its loop: reset, load, the early errors |
| `SkipItem`, `SpawnItem` | the body of the loop, with the wait for a permit |
| `FinishTask` | the spawned task: the caller's function returns or panics, the permit goes back |
| `RecordJoin` with `Marked`, `SaveAfter`, `Pushed` | `record_join`, `record_result`, `BatchState::save` |
| `EndCollect`, `EndLoop` | `try_join_next_with_id` has nothing to offer; the list is used up |
| `Conclude` | the end of the drain: the file is removed or saved |
| `Crash` | the process dies, or the future is dropped |

`EndCollect` may happen while a finished task is still unjoined: a task gives its
permit back before it returns, so the loop can be past a permit whose task the
join set does not offer yet. The file changes whole, as `save` writes a temporary
file and renames it; with `Faults`, a save, a removal or a load may fail. The
rate limiter is a wait inside a running task. Progress events are left out, and
so are error messages: a failure is known by its item.

### McpServer, OneAnswer

`loop` says where `serve` is; `calls` numbers the requests it accepted, each with
its handler (`worker`), its child process, its supervisor (`task`) and the stop
sender the loop filed for it (`stop`). `live` is `in_flight`, by id. `free` and
`queue` are the semaphore, whose permits go to whoever waited longest; `channel`
and `writable` the writer. A line from the client is what `serve` tells apart.

| action | code |
|---|---|
| `LoopTop`, `ReadRequest`, `ReadDuplicate`, `ReadCancel`, `ReadMalformed`, `ReadEnd` | the loop of `serve`: a line, or the end of input |
| `Drained`, `Closed` | the wait for every task, then for the writer |
| `AnswerAtOnce`, `Acquire`, `StartChild`, `StartFails`, `Finish`, `Cancelled` | the handler, and the `select!` that may drop it |
| `Panic`, `ChildEnds` | a handler that dies, a child that ends (external) |
| `Supervise`, `ClearId` | the supervisor: answer for the dead, remove the id |
| `Write`, `WriteFails` | the writer task |

Removing an id drops whatever sender is filed there, another call's included,
which is how a call can be beyond the reach of a cancellation: the code does that
when an id is cancelled and used again, and `CancellationReaches` says that it
does it only then. What a tool answers is left out; `OneAnswer` counts answers.

### Daemon

One action is one await: a statement, a frame, an accept. `session` holds the `link`
to the store, the `escalated` flag and the `role` the store would really run the
next statement as, which the process cannot see; the two differ after a statement
of `as_provision` failed or a call was dropped, and that is the point of
`EscalationStaysInside`. `unproven` is history: an escalation was left with no
reset to show for it.

| action | code |
|---|---|
| `Accept`, `Decline`, `Open`, `Come` | the accept loop, the peer's identity, the session's connection |
| `ReadFrame`, `WriteFrame`, `WriteFrameFails`, `Hangup` | the connection's loop and the frame codec |
| `Retired`, `Record`, `Plain`, `Mark` | `Session::call`, `audit::begin`, a verb, `audit::finish` |
| `Footing`, `Template`, `Reaches` (an operator) | the refusals of `database.drop` and `sql`: own, unknown and template databases |
| `SetRole`, `Provision`, `ResetRole` | `as_provision` |
| `Elsewhere` | the connection of its own on which `sql` runs its text |
| `Drop` | a caller that drops the future; the daemon never does, the type allows it |
| `Stop`, `Crash`, `Start` | a signal, the end of the process, `bind` over a stale socket |
| `StoreStops`, `StoreStarts` | Postgres (external) |

### DocumentStore, Documents, Lifecycle, Pipeline

`rows` is the node under each key with the text it was made from, `chunks` and
`vectors` the rows below it, `edges` the declared edges, `tree` the files. A file
may be gone, or `Dark`: there, and not readable or not assessable; or `Hidden`: there,
below a directory the walk cannot enter, which the walk logs and forgets. `run` holds the
locals of one ingest: what the walk offered, which keys are taken, and what the
blocks met so far declare (`said`). The store refuses rows one by one here too
(`Refusals`), while a budget lasts; chunks and vectors that fell short end an
overwriting run (`GoesOn`), refused nodes of a block go by, refused edges are counted
in the summary of a run that returns Ok (`Counted`). Histories: `blemished`, the documents
a cut, a refused row or an edit between the two reads of a file left less than
whole; `appended`, those a run without overwrite added to; `met` and `swept` say what a run read and whether a sweep took nodes
beneath it, and `raced` whether one fell between a file node and its symbols.

| action | code |
|---|---|
| `Begin`, `Pass`, `Read`, `Convert` | the walk, the skips, the hash-skip, the extractor that opens the file again |
| `PutNode`, `Strip`, `PutChunks`, `PutVectors` | one document's transactions |
| `EndWalk`, `Look`, `Declare`, `Stubs`, `PutEdges` | the declared graph: lookup, nodes, placeholders, edges |
| `Scan`, `Link` | `link_conforms` |
| `CutShort` | an error of the store or the embedder, or the end of the process |
| `ReadSource`, `WriteFile`, `WriteSymbols`, `CodeFails` | the two node transactions of a codebase ingest, which `CodebaseIngest` models in full |
| `WalkTree`, `ListStored`, `Retire`, `SweepFails` | `codebase.retire`: walk, listing, one DELETE |
| `Prune` | `codebase.prune`, one statement |
| `BeginBatch`, `Extract`, `EmbedOne`, `StripOne`, `NodeOne`, `ChunksOne`, `VectorsOne`, `StoreRefuses`, `BatchDies` | `Pipeline::process_batch` and `process_document` |
| `Edit` | whoever edits the tree (external) |

A text stands for its bytes, its hash and what converts from it. `codebase.drift`
is `WalkTree` and `ListStored` without the DELETE. A batch of the library and a run
of the verb do not overlap (one writer of documents per graph).

### LspSession

`task` is the extraction: the step it is at, and whether it is doing, telling,
sending or waiting. It is one task, so one request is awaited at a time; the
pending map holds more, because a write that failed leaves its entry. The pipes
hold a bounded number of messages. The server answers what it was asked in any
order and never has to; it may send a request, a notification or no message at
all, and die. What it lists for a file is `Symbols` symbols, children among them:
`Walk` goes through them and may ask about each its hover, its calls and, of gopls,
its implementations, or nothing, since name, kind and owner decide that.

| action | code |
|---|---|
| `OpenFile`, `Preloaded`, `DidOpen`, `Initialized` | `session.rs`: start, `open_file`, the preload for gopls |
| `Request`, `Send`, `Receive`, `Timeout` | `LspClient::request` |
| `Continue` (an operator) | what each step of the extraction does with its outcome, retries and readiness loops included |
| `Walk` | `walk_symbol` of `rust_symbols.rs` and `go_symbols.rs` |
| `Read`, `AutoReply`, `EndOfStream` | the reader task |
| `ServerTakes`, `ServerAnswers`, `ServerSpeaks`, `ServerDies` | the server (external) |

### Embedding

`service` is the process, `serving` its only worker, `waiting` the connections
behind it; `caller` is one call of a verb, from the request for `info` to the last
batch. A cohort is a model, a revision and a width; a vector is the text it stands
for and the cohort that made it.

| action | code |
|---|---|
| `Connect`, `Connected` | `/v1/info`, and the checks of the verb that asked |
| `EmbedBatch`, `Answered`, `Returns`, `TimesOut` | `embed` of the client: batches, halving after out of memory, the cohort check, reassembly by index |
| `Accept`, `Serve`, `Idles` | the service's loop, a peer that sends nothing |
| `Load`, `Stops`, `Starts` | the weights, and the process (external) |

### Windows, Segments

`Windows` runs the loop five readers share: a window opens at `start`, is clamped
to the end, and the first to reach the end is the last. What differs is what is
counted, and `job` says which (`late.rs` takes a size of 0 and cuts windows that hold
nothing; `WindowsTile` leaves those out). A text is a sequence of letters, wide letters (two
bytes) and spaces, so that a character offset taken for a byte offset shows. For
the embedder the tokenizer is any cut of the prefixed text into tokens, a wide
letter perhaps split over two tokens that both report it. `ByteSpan` is the
conversion and the rebase of `server.py`.

`Segments` takes one sentence, definition or line a step (`TakeSentence`,
`FlushSentences`, `TakeDefinition`, `TakeTail`, `KeepWhole`, `SplitAtLine`,
`AstEnds`), with definitions that nest, meet or end past the text.

### GraphWalk, Reads

`GraphWalk` resolves names one statement at a time (`Check`, `Resolve`), then walks
on one snapshot row by row, a level after the other and in any order within it
(`Begin`, `Emit`, `Deepen`), to the cap; `Purge` is another session's. `Reads`
models the reads that take several statements: a client paging through `list`,
`orient`, which counts vectors twice, and the hybrid query (`CorpusCohort`,
`QueryVector`, `Hybrid`) with its rank fusion in exact fractions, while
`WriteNode` and `WriteVector` are an ingest. `RowNumbers` is the SQL's
`row_number()`, cut at the candidate depth: `TextRanks` orders the chunks that match
by how far their score is below the best, `VectorRanks` the embedded ones by
distance, and `Fusion` is the page of their full outer join: taken by score and chunk
id (`Top`), answered by score and the chunk's place, its node's natural key and its index
(`Place`).

### Resolution

`IndexFile` and `ResolveFile` visit the files in any order, since the code iterates
over a HashMap. One operator gives the targets of a reference in each scheme
(`RustTargets`, `PythonTargets`, `CppTargets`, `SyntaxTargets`, `LspTargets` with
its traits and interfaces), and `ExpandUseGroup` opens the groups of a `use` tree
one at a time, as the code does on the text.

## 3. What the runs check

| run | instance | checks |
|---|---|---|
| `codebase_ingest` | two files with two contents each, either of which may be missing (shrunk, moved, too large for the embedder), overwriting and embedding runs, crashes, purges, an embedder that fails, one row refused of any insert | `OneVersionIndexed`, `VectorsMatchChunks`, `NoDanglingRows`, `OkRunsWriteWhole`, and that the ingest implements `ChunkIndex` |
| `ingest_modes` | two files, one of which changes its imports, its length and its symbol's line; runs with and without overwrite, a language server that reads the tree as it is by then, fails or answers in part, crashes | `OkRunsWriteWhole`, `AppendKeepsRows` |
| `node_writes` | two sessions, a file and its possible child, three calls drawn from insert, update, delete, purge, edge.assert, edge.retract and an ingest's node or declared edge, crashes, failures, lost answers, nodes and declared edges present at first | `HistoryExplainsHead`, `OkIffDurable`, `EdgesJoinNodes`, `IngestEdgesStay`, and that the verbs implement `NodeHistory` |
| `serving` | the MCP server: two ids, one slot, three lines, one panic, a pipe that may break; or the daemon: two clients, three calls, two faults, dropped calls | `SlotsAreConserved`, `CancellationReaches`, `SettlesEachRequestOnce` (the refinement of `OneAnswer`), `EveryRequestSettles`; `EscalationStaysInside`, `EveryFrameIsAnswered` |
| `corpus` | documents `d`, `d2` (whose keys collide) and `e`, a source file and its symbol, three texts (two pieces, one piece, one that does not convert), budgets of edits, runs, batches, code ingests, sweeps and refused rows | `DocumentsAreWhole`, `DeclarationsLand`, `SweepsSpareThePresent`, `OrphansAreRaced` |
| `services` | a language server: two files of one symbol each, two probes, two tries, pipes of one message, with and without preload; or the embedder: an ingest of three texts beside a query, two cohorts of which one is too narrow, two starts | `AnswersAreTheirOwn`, `VectorsAreOneCohort`, `EveryCallEnds` |
| `batch_and_algorithms` | the batch: two items, two permits, lists `<<x, y, x>>` and `<<y, y>>`, any number of runs with any flags, panics, failing saves, crashes; or one of: texts of up to three characters under every size and overlap, with every tokenization; texts of up to five under the segmenters; three graphs under every question; three keys in two cohorts with two writes; three files in five schemes | `Accounted`, `CheckpointIsTrue`, `RecordedIsDurable`, `FailuresSurvive`, `ResumeKeepsRecord`, and that every batch returns; `PiecesKeepTheText`, `ReadsAreHonest`, `NamesResolveAlike` |

The remaining runs are the counterexamples of section 5. Each passing run but
`ingest_modes` also checks one type invariant.

**Bounds.** Two files are enough for an edge between files, for one that changes
while the other is skipped, and for two members of a unit of which one is
enriched. The contents include one with fewer pieces than the other, one that
only moved, and one above the embedder's ceiling. The number of runs is not
bounded: a run resets its locals, so the state space closes over any sequence of
runs, edits, purges and crashes. In `node_writes`, two sessions give every
pairwise interleaving; the third call meets what the first two left, such as a
key deleted and inserted again under a new row id. The sessions are interchangeable
and form the symmetry set of that run, which checks no liveness; the keys are not,
since one may be the parent of the other. For the batch, three tasks and two
permits make the loop wait while tasks finish in any order, the doubled items meet
themselves in one run, and the shorter list, which leaves one out, meets a checkpoint
of the longer. Runs are again not bounded.

In `serving`, one slot makes the second call wait, two ids and three lines are a
cancelled id used again and a call beside it, and the proofs are for any number of
each. In the daemon, two faults are a reset that fails and a store that goes, and
three calls let a session that was left escalated be asked again by the same peer.
In `corpus`, each scenario has a budget of what may be begun: two runs show what the
hash-skip of the second makes of the first, one edit falls between the two reads
of a file or between walk and delete, two sweeps and two code ingests are the race
a sweep needs; the scenarios pair the writers that meet, because all of them at
once do not fit. The theorems of `CorpusProofs` hold without those bounds. In `services`, two probes and two tries
reach every arm of the readiness loops and of the hover retry; three texts are
halved into one and two, and two starts put another cohort between two batches.
A text of `corpus` has at most `MostPieces`, two, so that a document can be half
written and can lose its tail. One symbol a file is enough for every question of
`Walk` and the retries of a hover; the theorems are for any number. One row refused of
an insert leaves a text's pieces with a gap and with a tail missing.
For the algorithms, three characters hold a wide one beside a space and a prefix
boundary; the graphs have a cycle, a shortcut and a diamond, with caps below, at
and above their rows.

**Fairness.** `RunReturns` of `BatchProcessor` assumes weak fairness of the run's own
steps (the runtime polls it) and of tasks ending. The latter is the caller's side of
the bargain: the function it passes returns. Weak fairness is enough for the wait
on a permit because only the run itself takes permits, so once one is free it
stays free until the run takes it. The ingests have no liveness property: whether one
returns rests on a store, a tree and a language server that answer, for which the code has no
deadline, and nothing in its own control could hold it (its loops are over lists
that are fixed before they start).

In `serving` and `services` the runtimes poll their tasks, so the MCP
loop, its handlers, supervisors and writer, a call under way in the daemon, the
extraction, the reader and the embedder's callers are weakly fair. That assumes more
than the code enforces, and the liveness properties hold under it and not without:

- a child process ends (`target.rs` waits for it without a deadline);
- what the MCP server and the daemon write is read, or the write fails: neither has a
  deadline for it, and a client that keeps its pipe open and full holds its call
  open and, at the end of input, the server;
- each statement and each verb of a daemon call ends: the store's connection has no
  timeout;
- the language server reads what it is sent, since a write to it has no deadline
  (see section 5);
- the embedder's worker serves what it holds and takes the next: encoding ends, and a
  peer that is silent is dropped after ten seconds. The ten seconds are for each
  `recv`, so a peer that sends a byte now and then holds the worker for as long as it
  likes, which `Serve` leaves out.

Nobody owes a request, a language server owes no answer, and nobody owes a start, a
stop or the end of a load.

Deadlock is checked where the system goes on: in `codebase_ingest`, `ingest_modes`,
`node_writes` (whose `Rest` is the state in which the callers have made their calls)
and the batch (an algorithm that has ended may stay so). The other passing runs switch
it off because there the system really stops: input ends, budgets are used up, a call returns.

`PiecesKeepTheText`, `ReadsAreHonest` and `NamesResolveAlike` gather, for whichever
algorithm is studied, the properties stated in its module: `WindowsTile`,
`SpansAreTheTokens`, `SentencesStayWhole`, `NoCodeIsLost`; `WalksAreHonest`,
`PagesMissNothing`, `HybridIsOneCohort`, `OrientAddsUp`; `OrderDoesNotMatter`,
`AmbiguousIsDropped`, `GroupsExpand`. Several of these compare an algorithm with a
definition that does not share its form: the walk with the nodes within a
distance, the byte spans with the characters of the tokens, the expansion of
groups with the paths from root to leaf, the page of a hybrid query with the fusion
of the whole rankings.

Each property is known to be sensitive to the code: the modules keep, next to an
operator, a mutated form of it (marked `Mutant` in its comment) under which the
property fails.

## 4. What is proved

For every value of the constants that satisfies the modules' assumptions:

| theorem | states | needs |
|---|---|---|
| `CodebaseIngestProofs!TypeCorrect` | `TypeOK` | - |
| `NothingDangles` | `NoDanglingRows` | - |
| `AppendOnly` | `AppendKeepsRows` | - |
| `OneVersion`, `VectorsMatch`, `IngestImplementsIndex` | `OneVersionIndexed`, `VectorsMatchChunks`, `ImplementsIndex` | `OverwriteChoices = {TRUE}` |
| `OkRunsAreWhole` | `OkRunsWriteWhole` | - |
| `NodeWritesProofs!TypeCorrect` | `TypeOK` | - |
| `OkIsDurable` | `OkIffDurable` | - |
| `EdgesJoin`, `DeclaredEdgesStay` | `EdgesJoinNodes`, `IngestEdgesStay` | - |
| `HistoryExplains`, `WritesImplementHistory` | `HistoryExplainsHead`, `ImplementsHistory` | `"ingest" \in Alone` |
| `BatchProcessorProofs!TypeCorrect` | `TypeOK`, the permits included | - |
| `AccountedAlways`, `CheckpointAlwaysTrue` | `Accounted`, `CheckpointIsTrue` | - |
| `RecordedAlwaysDurable`, `FailuresAlwaysSurvive` | `RecordedIsDurable`, `FailuresSurvive` | - |
| `DoneNeverRedone`, `ResumeAlwaysKeeps` | `DoneIsNotRedone`, `ResumeKeepsRecord` | - |
| `McpServerProofs!McpTypes`, `SlotsConserved` | `McpTypeOK`, `SlotsAreConserved` | - |
| `CancellationsReach` | `CancellationReaches` | - |
| `McpImplementsOneAnswer` | `SettlesEachRequestOnce` | - |
| `DaemonProofs!EscalationsStayInside` | `EscalationStaysInside` | - |
| `ServingTypes` | `ServingTypeOK`, of either server | - |
| `ServicesProofs!AnswersBelong` | `AnswersAreTheirOwn` | - |
| `RequestsAreCounted` | `LspTypeOK`: the requests of an extraction are no more than its probes, its tries and the symbols listed account for | - |
| `CallsStayInOneCohort` | `VectorsAreOneCohort` | - |
| `ServicesTypes` | `ServicesTypeOK`, of either service | - |
| `CorpusProofs!CorpusTypeCorrect` | `CorpusTypeOK` | - |
| `DocumentsWhole` | `DocumentsAreWhole` | - |
| `OrphansWereRaced`, `SweepsSpare` | `OrphansAreRaced`, `SweepsSpareThePresent` | - |
| `DeclaredEdgesLand` | `DeclarationsLand` | - |
| `AlgorithmsProofs!WindowsCover` | `WindowsTile` | - |
| `ChunksKeepTheText` | `SentencesStayWhole`, `NoCodeIsLost` | - |
| `PiecesKept` | `PiecesKeepTheText`: those three and `SpansAreTheTokens` | - |
| `ReadsHonest` | `ReadsAreHonest`: `WalksAreHonest`, `PagesMissNothing`, `HybridIsOneCohort`, `OrientAddsUp` | - |
| `ResolutionIsSound` | `OrderDoesNotMatter`, `AmbiguousIsDropped` | - |
| `NamesAlike` | `NamesResolveAlike`: those two and `GroupsExpand` | - |

`OverwriteChoices = {TRUE}` is a real limit and not a convenience: an appending
run does mix versions (its new chunks join the stored ones at higher indices),
so the statements are false without it.

**The arguments.** None of the invariants is inductive by itself.

- `CodebaseIngest`. `RunShape` says what the locals hold at each `pc`: a current
  file exactly in the file steps, and then a changed file that was read. `IndexInv`
  says in which step the chunks and vectors of the current file are empty, those
  of this version, or those of the previous one, and that all other files hold
  pieces of one version; every write then starts from an empty slot, so that what
  landed of it, whichever rows were refused, is of one text. `WholeInv` adds to
  `OkRunsWriteWhole` what a run in progress owes: the file being written is not
  trusted, every changed file the node pass has finished is stored whole or was
  purged, and of the current file the head, the symbols and the chunks up to the
  present step are stored.
- `NodeWrites`. `Exclusive` says that two open transactions never claim the same
  row; `Solo` that nothing runs beside an ingest; `HeadCurrent` that what an open
  transaction read of a head is still the head. The three make `LogAfter`'s entry
  start where the log ends. `Attempted` ties each session to one unmarked row of
  the audit log, which no other session will mark. `LinkLive` says that the
  endpoints of a pending edge still have their row ids, which the key-share locks
  guarantee and which a lookup before the lock alone would not.

- `BatchProcessor`. `AccountedInv` adds to `Accounted` that a drain starts only
  when the list is used up. `TrueInv` says of the record in memory, and of the
  tasks that have finished and are not joined, what `CheckpointIsTrue` says of
  the file. `DurableInv` ties results to the record in memory and the file to
  that record, unless the last save failed or there was nothing to save yet.
  `GrownInv` says that the record holds what was loaded and items already taken,
  and that a resuming run's file is never ahead of it.

- `McpServer`. `McpInv` has five parts. `SlotInv` adds to `SlotsAreConserved` that nobody
  waits in the queue twice. `EntryInv`: an entry of `in_flight` is the newest call of
  its id and its sender is armed. `FateInv` says how many answers a call has sent at
  each place of its handler and supervisor, and `DrainInv` that a server that closes
  has no task left. `CancelInv`: a call that lost its entry without being cancelled
  lost it to the supervisor of an earlier call of that id, and so on back to one that
  was cancelled. From these follow slots, reach and, step by step, the refinement.
- `Daemon`. `DaemonInv` ties the role of a session to its flag at each place of the
  call: the flag is up from SET ROLE to RESET ROLE, and outside them only after a
  reset that was not proven. `ServingTypes` needs the invariants of both servers (that
  the semaphore keeps within its size is no fact about one step of its own) and that
  the one that is not studied stands still.
- `LspSession`. `LspInv`: the id a task awaits is the number of its last request, every
  message on the pipes and in the server's hands carries its own number as its id,
  and an outcome in the slot is of the last request. `BoundInv` bounds those numbers:
  `Ahead` says how many requests are still to come at each step of the extraction,
  retries, readiness loops and the symbols still to walk included, and
  `serial + Ahead(task)` never grows. The number of symbols is the server's, which is
  `Symbols` here; how the requests grow with it is the code's.
- `Embedding`. `EmbInv`: at most one connection of a caller asks for the cohort, only
  while it waits for that or has given up, and none embeds for a caller that has not
  connected; so no late answer names another cohort, and the vectors so far are of
  the one that was named, each of its own text. `EmbTypeInv` adds that a part still
  to send is an interval of the texts, which halving keeps.
- `CorpusSpec`. `SweepInv` says that a symbol without its file was raced, also one about
  to be written, and that what a sweep will take was not there when its walk passed.
  `LandInv` says that what a run met it also said, and from `declare` on what has
  landed if no row was refused: the declared nodes, then also the ends of the edges,
  then the edges, each until a sweep. Writers of documents and code only add. `TypeInv` is the types of the
  four modules with what relates them: which locals an ingest or a batch has at each
  place (`RunInv`, `BatchInv`), and that no two writers of documents run (`OneWriter`).
  `WholeInv` is what `DocumentsAreWhole` needs while a document is being written: of
  the one a run or a batch is inside, the store holds what the step before left (the
  node, then nothing below it, then its chunks, then also its vectors), and all others
  are whole or blemished, whatever a sweep takes.
- `Windows`. `WindowsInv` adds to `WindowsTile` where the next window starts: inside the
  one before or at its end, which is not the end of the text. `SpansInv` says that a
  window has units and that a job's tokens are `Usable`: in the order of the text, and
  past the prefix each with a character of the caller's (`JobsUsable`, for the words of
  any text and any string cut anywhere). The rest is arithmetic of no step: characters
  start at increasing bytes (`BytesRise`), two bytes later behind the prefix
  (`PrefixShifts`), so that the least and the greatest byte the embedder finds are those
  of the first and the last token of the window (`ServiceSpan`).
- `Segments`. `AstInv`: every character up to the cursor that is not blank is in one of
  the chunks to come, and while the foremost of them is too long and split, what of it
  has been passed is in its pieces. `SentenceInv`: each chunk is a run of whole
  sentences, and the next one opens with or before the sentence this one had no room
  for, so none is skipped and a short tail is never merged; sentences are numbered in
  the order of the text (`SentencesInOrder`).
- `GraphWalk`. `Walked` says of a walk in progress that each row is within its depth of
  the start (for a path, along its own edges), and that every node whose distance has
  been followed has a row at that distance, unless the target came first. So what a
  cap leaves out is never nearer than what is answered, and when no row is left to
  follow nothing within the bound is missing (`WalkSettles`: a level that reaches
  nothing new is the last).
- `Reads`. `PagesInv`: a node that stood still and has not been seen is at or past the
  client's offset, for a write moves another node to the front and positions of the
  rest only grow. `HybridInv`: from the cohort on, an unraced store holds vectors of
  that cohort alone, and the hits are the fusion of the ranks at the candidate depth.
  `HybridAnswers` needs no step: the page is the top of a strict total order of exact
  fractions (`BetterRanksScoreHigher`), and cutting a source at the depth changes
  no rank above it (`RowsRank`).
- `Resolution`. `ResolutionInv`: the index holds exactly what the indexed files define,
  in some order in which each file's entries keep theirs (`Ordered`), and the edges are
  those the path order gives. It rests on what each pick makes of such a list. Two
  lists are `Alike` when they hold the same entries and are both `Ordered`; filters keep
  that (`KeptAlike`), and the first entry of a file, the only entry, the smallest and
  the best import are the same in alike lists. The last is the hard one: a scan that
  replaces its best when a later entry beats it ends at the entry that beats all others
  (`PickImportIs`), because score, then path, then place in the file is a strict order
  and the place is the one thing an `Ordered` list may be relied on for. That no edge
  is drawn from an ambiguous name, where the scheme drops those, then needs no step: each edge is drawn from the path order, whose entries
  are all the ingest defines (`PathOrderOrdered`), and there a pick says what it is the
  only one of.
- Groups of a `use`. The depth of a token in braces is a recursion, so what it does over
  a stretch of a text is a lemma (`DepthShifts`), and with it the first brace of a tree
  is closed by its last token (`OuterGroup`), what is between them is cut at the commas
  of depth one (`PartsAre`), and a turn leaves the prefix before each part, a `self`
  alone leaving the prefix (`ExpandOnceIs`). Such a text is a tree again (`GluedTree`),
  its leaves are the part's (`GluedLeaves`), and the names on the way to each are the
  same names at other places (`WayInside`), which moving does not reorder (`NthMoves`).
  So a turn keeps the paths and shortens what has a group (`OneTurn`), and after as
  many turns as there are tokens every text is its one path (`GroupExpands`).

The distances in `GraphWalk`, the numbering of rows in `Reads`, of words and of
sentences, and the bytes of a text are inductions, and no
installed prover takes an operator as the induction hypothesis. `RowsAreNumbered` gets
the one fact needed from the cardinality of finite sets (a strict total order on a
finite set numbers it from 0 without a gap), `LeastOf` gets a least number from that,
and `Inductive` is induction over a set of numbers instead of a predicate.
`LayersExist`, `WithinIs` and `PlacesExist` then show that the recursive functions
`Within` and `ByteAt` satisfy their definitions; `Recursion` does so once for every
function that runs along a list (`Kept`, the scan of `PickImport`, the path order).

**Only model-checked.** Liveness under fairness (`RunReturns`,
`EveryRequestSettles`, `EveryFrameIsAnswered`, `EveryCallEnds`), which is out of the
prover's reach. The runs also check, on the instances above, the properties the
theorems state, but for `DoneIsNotRedone`, which is only proved.

**Assumptions.** `ConstantsAssumption` in each module gives constants their
types; `DistinctAssumption` says that file keys, symbol keys and the absent value
differ, which the code has by type. The later modules name theirs for the module
(`McpAssumption`, `DaemonAssumption`, `LspAssumption`, `EmbeddingAssumption`,
`WindowsAssumption`, ...): bounds are numbers, at least one slot, one probe, one try.
`SegmentsAssumption` says that no definition of a file ends before it starts (they are
nodes of a syntax tree). `DocsAssumption`, `TextsAssumption` and `KeysAssumption` say that the files are a list,
that what stands for no text is none, and that documents, source files and symbols
have different keys (a document's key keeps its extension); `BlocksAssumption` that
what a text names are keys of the graph and that `MostPieces` bounds its pieces, and
`ScenariosAssumption` that a run starts from trees and budgets. `ResolutionAssumption`
says that an ingest has finitely many files, that a path has finitely many parts, that
symbols and references come in lists, that a place a server gave is in files of the
ingest, that only a language server says what satisfies an interface, and that the
text of a `use` is one `use_tree_str` prints of a syntax tree (`UseTree`): it has tokens,
its groups close, commas are in groups, and after a group comes a comma or the end of
the group around it. `GraphWalkAssumption` and `ReadsAssumption` also say that a store
holds finitely many edges and keys. TLC evaluates each of them.

## 5. Where code and documents disagree

Each of these is a run whose property is a sentence of the repository and whose
counterexample is a behaviour of the code.

1. **`find_half_ingest`.** `codebase.rs:50` says of `embed` that an unreachable
   embedder fails the run "rather than leaving a half-ingest that looks complete".
   The file node is committed with its hash before the embedder is asked, so the
   next run skips the file and returns Ok without its chunks and vectors.
2. **`find_lost_edges`.** `codebase.rs:10` says two passes make endpoint resolution
   "total rather than best-effort". A file whose symbols only moved keeps its hash
   (`compute_symbol_hash` digests names) and is skipped, while the keys its symbols
   would have now (`symbol_key` includes the line) are what imports resolve to.
   The sink rejects those edges in a run nothing interrupted.
3. **`find_unretried_unit`.** `codebase.rs:908` says a unit is indexed again after
   a server failed. The probe asks whether any symbol of the unit is enriched, so
   a file whose enrichment was overwritten and not renewed stays plain as long as
   another file of the unit is enriched.
4. **`find_swept_counts`.** `write.rs:11` says the counts a delete reports "are what
   the cascade removed". The snapshot is older than the row lock the DELETE waits
   for; what commits in between is removed, or already gone, and not counted.
5. **`find_walk_errors`.** Spec 020 (line 136) says a file that is present "but could
   not be assessed is never retired". An error of the walk itself is logged and dropped
   (`codebase.rs:338`), so the files below a directory that cannot be entered are not
   in the list of the skipped; `retire` finds them stored and unseen and deletes them.

Other places where the code does not do what a reader of it would expect, met
while modelling and not made into runs:

- **Store and verbs.** The PRD of the store (line 406) says "the head is derivable
  from the log": the sink compares with a head it read without a lock and, beside an
  update of another session, restores a payload without an entry. `sink.rs` states
  the one-caller rule that excludes this and leaves enforcing it open (M3).
  `sink.rs:281` says that `ingested_at` moved, which lines 244 to 248 exclude.
  `execute.rs`, about line 120, says that a connection that cannot prove its reset is
  never used again; after a RESET ROLE that failed, the audit mark of the same call at
  line 242 still runs on it, as yeomna_provision.
- **Documents.** A graph block that declares the key of a document replaces its row,
  its hash included; the lookup and the insert of declared nodes are two
  transactions, so code that arrives between them is overwritten
  (`documents.rs:423` says it is left alone). The file is hashed and then opened
  again by the extractor, so an edit between pairs one text's hash with
  another's chunks for good (`blemished`). A later run with `embed` over unchanged
  documents lands no vectors. A row the store refuses to an appending run is not told
  from one that was there (lines 355 to 401), so a document can stay without some of its
  chunks or vectors in a run that ends Ok; refused nodes of a block are not even
  counted (458 to 462). A document with a NUL character, or one too large for
  the embedder's memory, ends every run that meets it.
- **Batch.** `processor.rs:281` says "the checkpoint must survive while any failure
  remains unresolved"; what is counted are the failures of this run's list, so a
  resume whose list no longer names an item that failed, and in which all else
  succeeds, removes the file with that failure on record.
- **Graph reads.** The cap of a walk counts rows of a node and a depth, not nodes;
  `PATH_DEPTH` cuts a search without `truncated`; `neighbors` cuts silently; a start
  purged between its lookup and the walk gives an empty answer that is not called
  truncated. A hybrid query can rank vectors of a cohort that an ingest wrote after
  the cohort was read; paging can skip a node after a purge.
- **Chunking.** A tail below `min_chunk_size` is never merged: `SentenceChunking` cuts
  only where the next sentence does not fit, so `FlushSentences` cannot take its merge
  (`strategies.rs:158` documents it). `max_chunk_chars` compares bytes. Definitions
  that overlap repeat their text.
- **Resolution.** The second strategy of the language-server resolver
  (`lsp/edges.rs:377`) is unreachable after the return at 359, and that resolver alone
  keeps the edge of a recursive call to itself.
- **Language server.** A write to the server has no deadline and the reader answers
  into the same pipe, so a server that stops reading until it is read can hold both
  for ever; `ServerTakes` is therefore assumed fair. A write that fails leaves its
  entry pending; a file that could not be read counts as opened.
- **Servers.** An id answered and used again at once is refused while its supervisor
  has not cleared it. `server.rs:65` says the accept loop runs for ever; it returns on
  an accept that fails.

## 6. What is left out

- The analyzers `python.rs`, `rust_ast.rs`, `cpp.rs` and `tree_sitter.rs` turn one text
  into names, spans and references, and `normalize_document_key` turns a path into a
  key. They hold no state and call nobody; what depends on their results is modelled
  for any results (`Resolution`, `Segments`, `CodebaseIngest`).
- `extraction.rs` is one request to a converter; in `Documents` it is the choice of
  whether and into what a text converts.
- `get`, `recent`, `health`, `validate` and the keyword query are one SELECT each, which
  Postgres evaluates. The DDL of `database.create` and `database.drop`, and whatever
  the `sql` verb is given, are the store's; `Daemon` models their escalation.
- The command line parses arguments and renders one answer.
- The batch processor's rate limiter is a wait inside a running task and its backoff
  a formula; neither is told apart from a task that runs longer. Progress events,
  logs and metrics, and the generated protocol types, carry no state.
- Deadlocks between row locks of two statements: a statement takes its locks in one
  step here, and Postgres breaks the cycles the finer steps would show by
  failing one side, which is `Abort`.

What would extend the project: the bodies of the analyzers as operators over
abstract syntax.
