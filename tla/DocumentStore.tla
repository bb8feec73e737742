--------------------------- MODULE DocumentStore ---------------------------
(***************************************************************************)
(* One graph as the document writers and the sweeps see it: its nodes by   *)
(* natural key, the chunks and the vectors of its documents, its declared  *)
(* edges, and the tree of files all of them are made from.  A text stands  *)
(* for the bytes of a file, for its hash and for what converts from it.    *)
(***************************************************************************)
EXTENDS Naturals, Sequences, FiniteSets

CONSTANTS
  Docs,         \* the Markdown files, in the order of the walk
  Source,       \* the source file, and its key
  Symbol,       \* the symbol it declares, by key
  Others,       \* keys only declarations name
  Texts,        \* what a file may hold
  KeyOf(_),     \* normalize_document_key of a file
  Pieces(_),    \* how many chunks a text makes, 0 when it does not convert
  MostPieces,   \* the most of them
  NodesIn(_),   \* the keys its graph blocks declare
  EdgesIn(_),   \* the edges its graph blocks declare
  ClaimsIn(_),  \* the slugs its conforms headers name
  Dark,         \* a file that is there and cannot be read or assessed
  Hidden,       \* a file that is there, in a directory the walk cannot enter
  Scenarios     \* the trees to start from, each with what may be begun

Gone == "gone"                 \* no such file
No == "no"                     \* no value
DocSet == {Docs[i] : i \in DOMAIN Docs}
Files == DocSet \cup {Source}
DocKeys == {KeyOf(d) : d \in DocSet}
Keys == DocKeys \cup {Source, Symbol} \cup Others
Index == 1 .. MostPieces       \* chunk indices, from the first

VARIABLES
  tree,      \* what each file holds
  left,      \* edits, runs, batches, code ingests, sweeps and refused rows still allowed
  rows,      \* the node under each key
  chunks,    \* the text each chunk row of a document was cut from
  vectors,   \* the chunk rows that carry a vector
  edges,     \* the declared edges
  blemished, \* (history) documents not written whole: see DocumentsAreWhole
  appended   \* (history) documents found and added to without overwrite
docHistory == <<blemished, appended>>
storeVars == <<rows, chunks, vectors, edges, docHistory>>
outside == <<tree, left>>

Row == [kind : {"none", "document", "file", "symbol"}, hash : Texts \cup {No},
        text : Texts \cup {No, "block", "stub"}]
NoRow == [kind |-> "none", hash |-> No, text |-> No]
NoChunks == [i \in Index |-> No]

Trees == [Files -> Texts \cup {Dark, Hidden, Gone}]
Budgets == [edit : Nat, run : Nat, batch : Nat, code : Nat, sweep : Nat,
            refusal : Nat]
\* The files are a list; what stands for no text is none; a document's key
\* keeps its file's extension, which no source file's and no symbol's has.
ASSUME DocsAssumption == Docs \in Seq(DocSet)
ASSUME TextsAssumption ==
  {Gone, Dark, Hidden, No, "block", "stub"} \cap Texts = {} /\ Hidden \notin {Gone, Dark}
ASSUME KeysAssumption == Source # Symbol /\ {Source, Symbol} \cap DocKeys = {}
\* What a text names are keys of the graph.
ASSUME BlocksAssumption ==
  /\ MostPieces \in Nat
  /\ \A t \in Texts : /\ Pieces(t) \in 0 .. MostPieces /\ NodesIn(t) \subseteq Keys
                      /\ EdgesIn(t) \subseteq Keys \X Keys /\ ClaimsIn(t) \subseteq Keys
ASSUME ScenariosAssumption == Scenarios \subseteq [tree : Trees, left : Budgets]

\* One thing more is begun.
Spend(what) == left[what] > 0 /\ left' = [left EXCEPT ![what] = @ - 1]

StoreTypeOK ==
  /\ tree \in Trees /\ left \in Budgets
  /\ rows \in [Keys -> Row]
  /\ chunks \in [DocKeys -> [Index -> Texts \cup {No}]]
  /\ vectors \subseteq DocKeys \X Index
  /\ edges \subseteq Keys \X Keys
  /\ blemished \subseteq DocKeys /\ appended \subseteq DocKeys

Exists(k) == rows[k].kind # "none"

\* What the store may refuse of an insert: each such row goes back to its
\* savepoint and is counted, the others commit.
Refusals(batch) == {lost \in SUBSET batch : IsFiniteSet(lost) /\ Cardinality(lost) <= left.refusal}
Refuse(lost) == left' = [left EXCEPT !.refusal = @ - Cardinality(lost)]

\* A metadata insert: replaces under overwrite, else leaves what is there.
InsertNode(k, row, overwrite) ==
  IF overwrite \/ ~Exists(k) THEN [rows EXCEPT ![k] = row] ELSE rows

\* insert_documents of a batch of nodes, one transaction.
InsertNodes(batch, row, overwrite) ==
  [k \in Keys |-> IF k \in batch /\ (overwrite \/ ~Exists(k)) THEN row ELSE rows[k]]

\* The edges whose two endpoints exist; the others are counted rejections.
Attached(batch) == {e \in batch : Exists(e[1]) /\ Exists(e[2])}

Whole(t) == 1 .. Pieces(t)

\* The chunks of text t that landed, over those that are there.
InsertChunks(k, t, landed, overwrite) ==
  [chunks EXCEPT ![k] = [i \in Index |->
     IF i \in landed /\ (overwrite \/ @[i] = No) THEN t ELSE @[i]]]

\* A row is refused for want of what it hangs from.
ChunksLanding(k, t, lost) == IF Exists(k) THEN Whole(t) \ lost ELSE {}
VectorsLanding(k, t, lost) == {i \in Whole(t) \ lost : chunks[k][i] # No}

\* remove_documents_by_fields on the chunks; their vectors cascade.
RemoveChunks(k) ==
  /\ chunks' = [chunks EXCEPT ![k] = NoChunks]
  /\ vectors' = {v \in vectors : v[1] # k}
  /\ appended' = appended \ {k}

\* A DELETE of nodes: edges, chunks and vectors cascade.
DeleteNodes(gone) ==
  /\ rows' = [k \in Keys |-> IF k \in gone THEN NoRow ELSE rows[k]]
  /\ edges' = {e \in edges : e[1] \notin gone /\ e[2] \notin gone}
  /\ chunks' = [k \in DocKeys |-> IF k \in gone THEN NoChunks ELSE chunks[k]]
  /\ vectors' = {v \in vectors : v[1] \notin gone}

StoreInit ==
  /\ \E s \in Scenarios : tree = s.tree /\ left = s.left
  /\ rows = [k \in Keys |-> NoRow]
  /\ chunks = [k \in DocKeys |-> NoChunks]
  /\ vectors = {} /\ edges = {} /\ blemished = {} /\ appended = {}
=============================================================================
