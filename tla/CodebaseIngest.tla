--------------------------- MODULE CodebaseIngest ---------------------------
(***************************************************************************)
(* The codebase ingest of yeomna-pipeline/src/codebase.rs over the store   *)
(* of yeomna-store/src/sink.rs: a walk that compares each file's           *)
(* symbol_hash with the stored head, a node pass that rewrites the changed *)
(* files, an optional language-server pass, and one edge pass at the end.  *)
(*                                                                         *)
(* Every call of insert_documents is one transaction of the sink, so it is *)
(* one action; a row the store refuses goes back to its savepoint and the  *)
(* others commit.  Between two of them the process may die, the store, the *)
(* embedder or a language server may fail, the tree may be edited, and     *)
(* another session may purge a file (yeomna-verbs/src/write.rs).           *)
(*                                                                         *)
(* A text stands for the contents of one source file.  What the ingest     *)
(* tells apart in it is constant: the names it defines, the line they      *)
(* start at, the names it imports and how many pieces it is chunked into.  *)
(***************************************************************************)
EXTENDS Integers, FiniteSets

CONSTANTS
  Files,       \* the source files the walk may offer
  Texts,       \* the contents a file may have
  NoText,      \* no such file, or one the walk could not assess
  NoHead,      \* no file node is stored
  Names,       \* symbol names
  TextsOf,     \* per file, the contents it may take, NoText when it may be missing
  NamesOf,     \* [Texts -> SUBSET Names]: the primitives a text defines
  LineOf,      \* [Texts -> Nat]: the line they start at
  UsesOf,      \* [Texts -> SUBSET (Files \X Names)]: what it imports
  PiecesOf,    \* [Texts -> Nat]: its number of chunks, 0 when blank
  TooLarge,    \* the texts above the embedder's context ceiling
  Refused,     \* the texts the walk skips: oversized, unreadable, unparsable
  FullHash,    \* the files whose analyzer hashes whole symbols, lines included
  Units,       \* crates and modules, what a language server indexes
  UnitOf,      \* [Files -> Units]
  OverwriteChoices, EmbedChoices, LspChoices, \* the flags a run may be given
  Faults,      \* what may fail: see FaultKinds
  MaxRefused,  \* rows of one insert the store may refuse
  Purges       \* BOOLEAN: may another session purge a file

\* The embedder, a language server, its answer for one file, the write of the
\* enriched symbols, the process.
FaultKinds == {"embedder", "server", "answer", "enriched", "crash"}

ASSUME ConstantsAssumption ==
  /\ NoText \notin Texts
  /\ TextsOf \in [Files -> SUBSET (Texts \cup {NoText})]
  /\ NamesOf \in [Texts -> SUBSET Names]
  /\ LineOf \in [Texts -> Nat]
  /\ UsesOf \in [Texts -> SUBSET (Files \X Names)]
  /\ PiecesOf \in [Texts -> Nat]
  /\ TooLarge \subseteq Texts /\ Refused \subseteq Texts
  /\ FullHash \subseteq Files
  /\ UnitOf \in [Files -> Units]
  /\ OverwriteChoices \subseteq BOOLEAN
  /\ EmbedChoices \subseteq BOOLEAN
  /\ LspChoices \subseteq BOOLEAN
  /\ Faults \subseteq FaultKinds
  /\ MaxRefused \in Nat /\ Purges \in BOOLEAN

\* A file is named by its path and not by a symbol key, a missing thing by no value.
ASSUME DistinctAssumption ==
  /\ NoText \notin [text : Texts, vectors : BOOLEAN]
  /\ Files \cap (Files \X Names \X Nat) = {}
  /\ NoHead \notin (SUBSET Names) \X (SUBSET (Files \X Names)) \X Nat

VARIABLES
  tree,        \* the source tree on disk
  heads,       \* file nodes: the symbol_hash in each head, or NoHead
  symbols,     \* symbol nodes, by key
  enriched,    \* those whose payload says enriched
  chunks,      \* per file, rows <<chunk_index, the text the piece is cut from>>
  vectors,     \* per file, rows <<chunk_index, the text the vector was made from>>
  edges,       \* edge rows [from, to, relation]
  pc,          \* where the run is
  flags,       \* the run's CodebaseConfig: overwrite, embed, semantic_lsp
  walked,      \* what the walk read, NoText where it assessed nothing
  changed,     \* files whose hash differed from the stored head
  todo,        \* files (then units) the current pass has still to visit
  cur,         \* the file the node pass is writing
  withVectors, \* did the embedder return the pieces being written
  ext,         \* what the language servers extracted
  rejected,    \* edges the last edge pass could not attach
  outcome,     \* how the last run returned
  trusted,     \* history: the text an ok overwriting run last wrote for a file
  blemished,   \* history: files with a row refused to a run that went on
  unserved     \* history: units whose server failed when it was last wanted

storeVars == <<heads, symbols, enriched, chunks, vectors, edges>>
runVars == <<pc, flags, walked, changed, todo, cur, withVectors, ext>>
historyVars == <<trusted, blemished, unserved>>
vars == <<tree, storeVars, runVars, rejected, outcome, historyVars>>

-----------------------------------------------------------------------------
(* What the analyzers derive from a text.                                  *)

Hashes == (SUBSET Names) \X (SUBSET (Files \X Names)) \X Nat
SymbolKeys == Files \X Names \X Nat
Endpoints == Files \cup SymbolKeys
Relations == {"defines", "imports", "calls"}
EdgeRows == [from : Endpoints, to : Endpoints, relation : Relations]
Rows == Nat \X Texts

\* compute_symbol_hash digests the sorted symbol names, imports among them;
\* tree-sitter and libclang digest the symbols themselves.
SymbolHash(f, t) == <<NamesOf[t], UsesOf[t], IF f \in FullHash THEN LineOf[t] ELSE 0>>

\* symbol_key: the file's key, the qualified name and the start line.
SymbolKey(f, n, t) == <<f, n, LineOf[t]>>
KeysOf(f, t) == {SymbolKey(f, n, t) : n \in NamesOf[t]}

Pieces(t) == {<<i, t>> : i \in 0 .. PiecesOf[t] - 1}

NothingRead == [f \in Files |-> NoText]

NodeStored(x) == x \in symbols \/ (x \in Files /\ heads[x] # NoHead)

\* The rows an insert leaves: a new row replaces the stored one under
\* overwrite (DO UPDATE) and yields to it otherwise (DO NOTHING).
Upsert(stored, new) ==
  IF flags.overwrite
    THEN {r \in stored : \A n \in new : n[1] # r[1]} \cup new
    ELSE stored \cup {n \in new : \A r \in stored : r[1] # n[1]}

\* What the store may refuse of an insert: a text it cannot hold, a lock lost.
Refusals(rows) == {lost \in SUBSET rows : Cardinality(lost) <= MaxRefused}

-----------------------------------------------------------------------------
Init ==
  /\ tree \in [Files -> Texts \cup {NoText}]
  /\ \A f \in Files : tree[f] \in TextsOf[f]
  /\ heads = [f \in Files |-> NoHead]
  /\ symbols = {} /\ enriched = {} /\ edges = {}
  /\ chunks = [f \in Files |-> {}]
  /\ vectors = [f \in Files |-> {}]
  /\ pc = "idle"
  /\ flags = [overwrite |-> FALSE, embed |-> FALSE, lsp |-> FALSE]
  /\ walked = NothingRead
  /\ changed = {} /\ todo = {} /\ cur = NoText
  /\ withVectors = FALSE
  /\ ext = NothingRead
  /\ rejected = {} /\ outcome = "none"
  /\ trusted = NothingRead /\ blemished = {} /\ unserved = {}

\* Somebody saves, creates or deletes a source file.
Edit(f) ==
  /\ \E t \in TextsOf[f] : tree' = [tree EXCEPT ![f] = t]
  /\ UNCHANGED <<storeVars, runVars, rejected, outcome, historyVars>>

\* ingest_codebase is called.
StartIngest ==
  /\ pc = "idle"
  /\ flags' \in [overwrite : OverwriteChoices, embed : EmbedChoices, lsp : LspChoices]
  /\ pc' = "walk"
  /\ todo' = Files
  /\ walked' = NothingRead
  /\ ext' = NothingRead
  /\ changed' = {} /\ rejected' = {}
  /\ cur' = NoText /\ withVectors' = FALSE
  /\ outcome' = "none"
  /\ blemished' = {}
  /\ UNCHANGED <<tree, storeVars, trusted, unserved>>

\* Mutant: a file the walk could not assess is still handed to the node pass.
WalkKeepsRefused(f) ==
  /\ pc = "walk" /\ f \in todo
  /\ todo' = todo \ {f}
  /\ changed' = changed \cup {f}
  /\ walked' = [walked EXCEPT ![f] = IF tree[f] \in Refused THEN NoText ELSE tree[f]]
  /\ UNCHANGED <<tree, storeVars, pc, flags, cur, withVectors, ext, rejected, outcome, historyVars>>

\* One entry of the walk: read, analyze, and compare with the stored hash.
WalkAndAnalyze(f) ==
  /\ pc = "walk" /\ f \in todo
  /\ todo' = todo \ {f}
  /\ IF tree[f] \in {NoText} \cup Refused
       THEN UNCHANGED <<walked, changed>>
       ELSE /\ walked' = [walked EXCEPT ![f] = tree[f]]
            /\ changed' = IF heads[f] # SymbolHash(f, tree[f])
                            THEN changed \cup {f} ELSE changed
  /\ UNCHANGED <<tree, storeVars, pc, flags, cur, withVectors, ext,
                 rejected, outcome, historyVars>>

StartNodePass ==
  /\ pc = "walk" /\ todo = {}
  /\ pc' = "file" /\ todo' = changed
  /\ UNCHANGED <<tree, storeVars, flags, walked, changed, cur, withVectors, ext,
                 rejected, outcome, historyVars>>

\* write_file_nodes, first transaction: the file node, symbol_hash included.
\* Nobody looks at the errors of this insert, nor of the next.
WriteFileNode(f) ==
  /\ pc = "file" /\ f \in todo
  /\ todo' = todo \ {f} /\ cur' = f
  /\ \E lost \in Refusals({f}) :
       /\ heads' = IF f \notin lost /\ (flags.overwrite \/ heads[f] = NoHead)
                     THEN [heads EXCEPT ![f] = SymbolHash(f, walked[f])] ELSE heads
       /\ blemished' = blemished \cup lost
  /\ trusted' = [trusted EXCEPT ![f] = NoText]
  /\ pc' = "symbols"
  /\ UNCHANGED <<tree, symbols, enriched, chunks, vectors, edges, flags, walked,
                 changed, withVectors, ext, rejected, outcome, unserved>>

\* Mutant: the stale rows are removed whatever the overwrite flag says.
WriteSymbolsThenRemove ==
  /\ pc = "symbols"
  /\ symbols' = symbols \cup KeysOf(cur, walked[cur])
  /\ enriched' = IF flags.overwrite THEN enriched \ KeysOf(cur, walked[cur]) ELSE enriched
  /\ pc' = "remove"
  /\ UNCHANGED <<tree, heads, chunks, vectors, edges, flags, walked, changed, todo,
                 cur, withVectors, ext, rejected, outcome, historyVars>>

\* write_file_nodes, second transaction.  The structural payload replaces the
\* stored one whole, so an enriched mark goes with it.
WriteSymbols ==
  /\ pc = "symbols"
  /\ \E lost \in Refusals(KeysOf(cur, walked[cur])) :
       LET landed == KeysOf(cur, walked[cur]) \ lost
       IN  /\ symbols' = symbols \cup landed
           /\ enriched' = IF flags.overwrite THEN enriched \ landed ELSE enriched
           /\ blemished' = IF lost = {} THEN blemished ELSE blemished \cup {cur}
  /\ pc' = IF flags.overwrite THEN "remove" ELSE "embed"
  /\ UNCHANGED <<tree, heads, chunks, vectors, edges, flags, walked, changed, todo,
                 cur, withVectors, ext, rejected, outcome, trusted, unserved>>

\* Mutant: the upsert alone is trusted to replace what was stored.
RemoveNothing ==
  /\ pc = "remove"
  /\ pc' = "embed"
  /\ UNCHANGED <<tree, storeVars, flags, walked, changed, todo, cur, withVectors, ext,
                 rejected, outcome, historyVars>>

\* The two remove_documents_by_fields calls.  Deleting the chunks cascades to
\* their embeddings, so the second call finds nothing left.
RemoveStale ==
  /\ pc = "remove"
  /\ chunks' = [chunks EXCEPT ![cur] = {}]
  /\ vectors' = [vectors EXCEPT ![cur] = {}]
  /\ pc' = "embed"
  /\ UNCHANGED <<tree, heads, symbols, enriched, edges, flags, walked, changed, todo,
                 cur, withVectors, ext, rejected, outcome, historyVars>>

Embeddable == flags.embed /\ PiecesOf[walked[cur]] > 0

\* embed_document answered, or was not asked: blank text, no embedder wanted.
\* A text over the ceiling is chunked locally and gets no vectors.
EmbedDocument ==
  /\ pc = "embed"
  /\ withVectors' = (Embeddable /\ walked[cur] \notin TooLarge)
  /\ pc' = IF PiecesOf[walked[cur]] = 0 THEN "file" ELSE "chunks"
  /\ UNCHANGED <<tree, storeVars, flags, walked, changed, todo, cur, ext,
                 rejected, outcome, historyVars>>

\* The run returns: its locals are gone, its transactions are committed.  What an
\* ok run walked is kept for the properties that judge it.
Return(how) ==
  /\ pc' = "idle" /\ outcome' = how
  /\ walked' = IF how = "ok" THEN walked ELSE NothingRead
  /\ ext' = NothingRead
  /\ changed' = {} /\ todo' = {}
  /\ cur' = NoText /\ withVectors' = FALSE
  /\ UNCHANGED <<tree, flags>>

\* The embedder refused or did not answer: PipelineError::Embedding.
EmbedderFails ==
  /\ "embedder" \in Faults /\ pc = "embed" /\ Embeddable
  /\ Return("failed")
  /\ UNCHANGED <<storeVars, rejected, historyVars>>

\* The process dies or loses the store: nothing of an open transaction lands.
Interrupt ==
  /\ "crash" \in Faults /\ pc # "idle"
  /\ Return("failed")
  /\ UNCHANGED <<storeVars, rejected, historyVars>>

\* Mutant: the run does not look at what the store refused.
FallsShortUnchecked(landed) == FALSE

\* A row refused stops an overwriting run.  An appending one cannot tell it from
\* a row that was there.
FallsShort(landed) == flags.overwrite /\ landed # Pieces(walked[cur])

\* The run goes on to another step, or ends because rows are missing.
GoOn(landed, next) ==
  IF FallsShort(landed)
    THEN Return("failed")
    ELSE /\ pc' = next
         /\ UNCHANGED <<tree, flags, walked, changed, todo, cur, withVectors, ext, outcome>>

\* The chunk rows, in one transaction.  With the file node purged meanwhile the
\* sink rejects every row.
InsertChunks ==
  /\ pc = "chunks"
  /\ \E lost \in Refusals(Pieces(walked[cur])) :
       LET landed == IF heads[cur] = NoHead THEN {} ELSE Pieces(walked[cur]) \ lost
       IN  /\ chunks' = [chunks EXCEPT ![cur] = Upsert(@, landed)]
           /\ GoOn(landed, IF withVectors THEN "vectors" ELSE "file")
  /\ UNCHANGED <<heads, symbols, enriched, vectors, edges, rejected, historyVars>>

\* The embedding rows: each needs the chunk row of its index.
InsertEmbeddings ==
  /\ pc = "vectors"
  /\ \E lost \in Refusals(Pieces(walked[cur])) :
       LET landed == {p \in Pieces(walked[cur]) \ lost : \E c \in chunks[cur] : c[1] = p[1]}
       IN  /\ vectors' = [vectors EXCEPT ![cur] = Upsert(@, landed)]
           /\ GoOn(landed, "file")
  /\ UNCHANGED <<heads, symbols, enriched, chunks, edges, rejected, historyVars>>

EndNodePass ==
  /\ pc = "file" /\ todo = {}
  /\ pc' = IF flags.lsp THEN "semantic" ELSE "edges"
  /\ todo' = IF flags.lsp THEN {UnitOf[f] : f \in {g \in Files : walked[g] # NoText}} ELSE {}
  /\ cur' = NoText /\ withVectors' = FALSE
  /\ UNCHANGED <<tree, storeVars, flags, walked, changed, ext,
                 rejected, outcome, historyVars>>

-----------------------------------------------------------------------------
(* semantic_lsp_pass                                                       *)

Members(u) == {f \in Files : UnitOf[f] = u /\ walked[f] # NoText}

\* IngestProbe::enrichment_present over the unit's file keys.
EnrichmentPresent(u) == \E k \in enriched : k[1] \in Members(u)

WorthIndexing(u) == Members(u) \cap changed # {} \/ ~EnrichmentPresent(u)

\* "unchanged and already enriched, skipping this crate"
SkipUnit(u) ==
  /\ pc = "semantic" /\ u \in todo /\ ~WorthIndexing(u)
  /\ todo' = todo \ {u}
  /\ UNCHANGED <<tree, storeVars, pc, flags, walked, changed, cur, withVectors, ext,
                 rejected, outcome, historyVars>>

\* The server did not start, or did not index in time.
ServerFails(u) ==
  /\ "server" \in Faults /\ pc = "semantic" /\ u \in todo /\ WorthIndexing(u)
  /\ todo' = todo \ {u}
  /\ unserved' = unserved \cup {u}
  /\ UNCHANGED <<tree, storeVars, pc, flags, walked, changed, cur, withVectors, ext,
                 rejected, outcome, trusted, blemished>>

\* The server answered.  It reads the files from disk now, not as walked; one
\* that is gone or that the server could not answer for is left out.
ExtractUnit(u) ==
  /\ pc = "semantic" /\ u \in todo /\ WorthIndexing(u)
  /\ todo' = todo \ {u}
  /\ \E unanswered \in (IF "answer" \in Faults THEN SUBSET Members(u) ELSE {{}}) :
       ext' = [f \in Files |-> IF f \in Members(u) \ unanswered THEN tree[f] ELSE ext[f]]
  /\ unserved' = unserved \ {u}
  /\ UNCHANGED <<tree, storeVars, pc, flags, walked, changed, cur, withVectors,
                 rejected, outcome, trusted, blemished>>

Extracted == {f \in Files : ext[f] # NoText}
ExtractedKeys == UNION {KeysOf(f, ext[f]) : f \in Extracted}

\* The enriched symbol documents, in one transaction; the refused are logged.
WriteEnriched ==
  /\ pc = "semantic" /\ todo = {}
  /\ \E lost \in Refusals(ExtractedKeys) :
       LET landed == ExtractedKeys \ lost
       IN  /\ symbols' = symbols \cup landed
           /\ enriched' = enriched \cup IF flags.overwrite THEN landed ELSE landed \ symbols
  /\ pc' = "edges"
  /\ UNCHANGED <<tree, heads, chunks, vectors, edges, flags, walked, changed, todo, cur,
                 withVectors, ext, rejected, outcome, historyVars>>

\* Writing them failed: "keeping the structural graph", and no semantic edges.
EnrichedWriteFails ==
  /\ "enriched" \in Faults /\ pc = "semantic" /\ todo = {} /\ ExtractedKeys # {}
  /\ ext' = NothingRead
  /\ pc' = "edges"
  /\ UNCHANGED <<tree, storeVars, flags, walked, changed, todo, cur, withVectors,
                 rejected, outcome, historyVars>>

-----------------------------------------------------------------------------
(* write_edges                                                             *)

DefinesOf(f, t) == {[from |-> f, to |-> k, relation |-> "defines"] : k \in KeysOf(f, t)}
Defines(files, text) == UNION {DefinesOf(f, text[f]) : f \in files}

\* LspEdgeResolver::build_edges: what each extracted file defines, and the
\* calls from its symbols to the symbols of other extracted files.
SemanticEdges ==
  Defines(Extracted, ext) \cup
  UNION {{[from |-> k, to |-> SymbolKey(u[1], u[2], ext[u[1]]), relation |-> "calls"] :
            k \in KeysOf(f, ext[f]),
            u \in {v \in UsesOf[ext[f]] : v[1] \in Extracted /\ v[2] \in NamesOf[ext[v[1]]]}}
           : f \in Extracted}

\* resolve_rust_imports over every analyzed file, skipped ones included; a use
\* that names nothing in the corpus, or the file itself, yields no edge.
Resolves(f, u) ==
  u[1] # f /\ walked[u[1]] # NoText /\ u[2] \in NamesOf[walked[u[1]]]

ImportEdges ==
  UNION {{[from |-> f, to |-> SymbolKey(u[1], u[2], walked[u[1]]), relation |-> "imports"] :
            u \in {v \in UsesOf[walked[f]] : Resolves(f, v)}}
           : f \in {g \in Files : walked[g] # NoText}}

\* Mutant: the pass leaves the defines edges to the language server.
EdgeDocsOfResolvers ==
  IF changed = {} /\ SemanticEdges = {} THEN {} ELSE SemanticEdges \cup ImportEdges

\* Nothing changed and nothing was enriched: the pass returns early.
EdgeDocs ==
  IF changed = {} /\ SemanticEdges = {}
    THEN {}
    ELSE SemanticEdges \cup Defines(changed, walked) \cup ImportEdges

\* Mutant: the endpoints are not looked up.
AttachedUnchecked == EdgeDocs

Attached == {e \in EdgeDocs : NodeStored(e.from) /\ NodeStored(e.to)}

\* The edge pass, and with it the end of the run.  What is refused is counted.
WriteEdges ==
  /\ pc = "edges"
  /\ \E lost \in Refusals(Attached) :
       LET whole == {f \in changed \ blemished :
                       /\ flags.overwrite /\ heads[f] # NoHead
                       /\ DefinesOf(f, walked[f]) \cap lost = {}}
       IN  /\ edges' = edges \cup (Attached \ lost)
           /\ rejected' = (EdgeDocs \ Attached) \cup lost
           /\ trusted' = [f \in Files |-> IF f \in whole THEN walked[f] ELSE trusted[f]]
  /\ Return("ok")
  /\ UNCHANGED <<heads, symbols, enriched, chunks, vectors, blemished, unserved>>

-----------------------------------------------------------------------------
\* purge by another session: the file node, the symbols that name it as their
\* file, and what the foreign keys cascade to.
Purge(f) ==
  LET family == {f} \cup {k \in symbols : k[1] = f}
  IN  /\ Purges /\ heads[f] # NoHead
      /\ heads' = [heads EXCEPT ![f] = NoHead]
      /\ symbols' = symbols \ family
      /\ enriched' = enriched \ family
      /\ chunks' = [chunks EXCEPT ![f] = {}]
      /\ vectors' = [vectors EXCEPT ![f] = {}]
      /\ edges' = {e \in edges : e.from \notin family /\ e.to \notin family}
      /\ trusted' = [trusted EXCEPT ![f] = NoText]
      /\ UNCHANGED <<tree, runVars, rejected, outcome, blemished, unserved>>

NodePass ==
  \/ \E f \in Files : WriteFileNode(f)
  \/ WriteSymbols \/ RemoveStale \/ EmbedDocument \/ InsertChunks \/ InsertEmbeddings
  \/ EndNodePass

SemanticPass ==
  \/ \E u \in Units : SkipUnit(u) \/ ServerFails(u) \/ ExtractUnit(u)
  \/ WriteEnriched \/ EnrichedWriteFails

RunStep ==
  \/ \E f \in Files : WalkAndAnalyze(f)
  \/ StartNodePass \/ NodePass \/ SemanticPass \/ WriteEdges

Next ==
  \/ \E f \in Files : Edit(f) \/ Purge(f)
  \/ StartIngest \/ RunStep \/ EmbedderFails \/ Interrupt

Spec == Init /\ [][Next]_vars

-----------------------------------------------------------------------------
(* Properties                                                              *)

Pcs == {"idle", "walk", "file", "symbols", "remove", "embed", "chunks", "vectors",
        "semantic", "edges"}

TypeOK ==
  /\ tree \in [Files -> Texts \cup {NoText}]
  /\ heads \in [Files -> Hashes \cup {NoHead}]
  /\ symbols \subseteq SymbolKeys /\ enriched \subseteq SymbolKeys
  /\ chunks \in [Files -> SUBSET Rows]
  /\ vectors \in [Files -> SUBSET Rows]
  /\ edges \subseteq EdgeRows /\ rejected \subseteq EdgeRows
  /\ pc \in Pcs
  /\ flags \in [overwrite : BOOLEAN, embed : BOOLEAN, lsp : BOOLEAN]
  /\ walked \in [Files -> Texts \cup {NoText}]
  /\ changed \subseteq {f \in Files : walked[f] # NoText}
  /\ todo \subseteq Files \cup Units
  /\ cur \in Files \cup {NoText}
  /\ withVectors \in BOOLEAN
  /\ ext \in [Files -> Texts \cup {NoText}]
  /\ outcome \in {"none", "ok", "failed"}
  /\ trusted \in [Files -> Texts \cup {NoText}]
  /\ blemished \subseteq Files /\ unserved \subseteq Units

\* A search never meets pieces of two versions of a file side by side: removing
\* the stale rows and writing the new ones are separate transactions, and every
\* interleaving of them with a crash, an edit, a purge or a refused row leaves
\* pieces of one text.  Whether all of them is for OkRunsWriteWhole to say.
OneVersionIndexed ==
  \A f \in Files : chunks[f] = {} \/ \E t \in Texts : chunks[f] \subseteq Pieces(t)

\* A stored vector was made from the very text stored in its chunk, so a vector
\* search returns what it scored.
VectorsMatchChunks == \A f \in Files : vectors[f] \subseteq chunks[f]

\* No edge names a node that is not stored, no chunk a file that is not: the
\* endpoint checks of the sink against purges that land between the node pass
\* and the edge pass.
NoDanglingRows ==
  /\ \A e \in edges : NodeStored(e.from) /\ NodeStored(e.to)
  /\ \A f \in Files : heads[f] = NoHead => chunks[f] = {}
  /\ enriched \subseteq symbols

\* Everything an ingest of text t leaves for file f when it is not cut short.
Complete(f, t) ==
  /\ heads[f] = SymbolHash(f, t)
  /\ chunks[f] = Pieces(t)
  /\ KeysOf(f, t) \subseteq symbols
  /\ DefinesOf(f, t) \subseteq edges

\* What an overwriting run that returned Ok wrote for a file is all there, and
\* stays until the file is rewritten or purged, whatever later runs do, the
\* appending among them, whatever text a language server reads meanwhile, and
\* wherever they are cut short.  A run that lost a chunk must not return Ok; one
\* that lost a node or an edge to the store does, and blemished leaves it out.
OkRunsWriteWhole == \A f \in Files : trusted[f] # NoText => Complete(f, trusted[f])

KeepsStored ==
  /\ \A f \in Files : heads[f] # NoHead => heads'[f] = heads[f]
  /\ \A f \in Files : chunks[f] \subseteq chunks'[f] /\ vectors[f] \subseteq vectors'[f]
  /\ symbols \subseteq symbols' /\ enriched \subseteq enriched' /\ edges \subseteq edges'

\* What a run without overwrite finds stored it leaves as it is: the insert is
\* ON CONFLICT DO NOTHING and the removal of stale rows is not reached.
AppendKeepsRows == [][RunStep /\ ~flags.overwrite => KeepsStored]_vars

\* An ingest that was not interrupted attaches every edge it resolved: the node
\* pass comes first so that "resolution is total rather than best-effort".
ResolutionTotal == outcome = "ok" => rejected = {}

\* A run asked to embed never returns Ok over a file without its chunks and
\* vectors, "a half-ingest that looks complete".
NoHalfIngestLooksComplete ==
  outcome = "ok" /\ flags.embed =>
    \A f \in Files : walked[f] # NoText /\ PiecesOf[walked[f]] > 0 =>
      /\ chunks[f] # {}
      /\ walked[f] \in TooLarge \/ vectors[f] # {}

\* Where a language server failed before, the next run tries again: "the retry
\* after a server failed here before".
FailedServersAreRetried == [][\A u \in Units : SkipUnit(u) => u \notin unserved]_vars

\* The chunk and embedding rows of a file, read as an entry of ChunkIndex.
IndexEntries == [f \in Files |-> [pieces |-> chunks[f], vectors |-> vectors[f]]]

Places == UNION {0 .. PiecesOf[t] - 1 : t \in Texts}

Index == INSTANCE ChunkIndex WITH index <- IndexEntries

\* The ingest implements the index a search is promised.
ImplementsIndex == Index!Spec
=============================================================================
