------------------------ MODULE CodebaseIngestProofs ------------------------
(***************************************************************************)
(* Theorems about CodebaseIngest, for every value of its constants.        *)
(***************************************************************************)
EXTENDS CodebaseIngest, TLAPS

-----------------------------------------------------------------------------
(* The shape of a run: what the passes of the run may take for granted     *)
(* about the locals they share.                                            *)

Writing == {"symbols", "remove", "embed", "chunks", "vectors"}

RunShape ==
  /\ pc = "walk" => todo \subseteq Files
  /\ pc \in {"file"} \cup Writing => todo \subseteq changed
  /\ pc \in Writing => cur \in changed
  /\ pc = "semantic" => todo \subseteq Units
  /\ pc = "remove" => flags.overwrite
  /\ pc # "idle" => flags.overwrite \in OverwriteChoices

TypeInv == TypeOK /\ RunShape

\* What a text gives the store is well formed.
LEMMA KeysTyped ==
  ASSUME NEW f \in Files, NEW t \in Texts
  PROVE  KeysOf(f, t) \subseteq SymbolKeys /\ Pieces(t) \subseteq Rows
         /\ SymbolHash(f, t) \in Hashes
  BY ConstantsAssumption, SMT DEF KeysOf, SymbolKey, SymbolKeys, Pieces, Rows, SymbolHash, Hashes

\* A stored hash is never mistaken for a missing head.
LEMMA HashIsNoMarker == NoHead \notin Hashes
  BY DistinctAssumption DEF Hashes

\* The store refuses none but the rows it is given.
LEMMA RefusalsAreRows ==
  ASSUME NEW rows, NEW lost \in Refusals(rows)
  PROVE  lost \subseteq rows
  BY DEF Refusals

\* The rows an insert leaves are rows.
LEMMA UpsertTyped ==
  ASSUME NEW stored \in SUBSET Rows, NEW new \in SUBSET Rows
  PROVE  Upsert(stored, new) \in SUBSET Rows
  BY DEF Upsert

\* The edge pass resolves edges between keys, whatever was analyzed.
LEMMA EdgeDocsTyped ==
  ASSUME TypeOK
  PROVE  EdgeDocs \subseteq EdgeRows
<1>. USE DEF TypeOK, Relations
<1>1. ASSUME NEW f \in Files, NEW t \in Texts
      PROVE  \A k \in KeysOf(f, t) : /\ [from |-> f, to |-> k, relation |-> "defines"] \in EdgeRows
  BY <1>1, KeysTyped DEF EdgeRows, Endpoints
<1>2. ASSUME NEW files \in SUBSET Files, NEW text, \A f \in files : text[f] \in Texts
      PROVE  Defines(files, text) \subseteq EdgeRows
  BY <1>1, <1>2 DEF Defines, DefinesOf
<1>3. Defines(Extracted, ext) \subseteq EdgeRows
  <2>1. \A f \in Extracted : ext[f] \in Texts
    BY DEF Extracted
  <2>. QED BY <2>1, <1>2 DEF Extracted
<1>4. Defines(changed, walked) \subseteq EdgeRows
  <2>1. changed \in SUBSET Files /\ \A f \in changed : walked[f] \in Texts
    OBVIOUS
  <2>. QED BY <2>1, <1>2
<1>5. SemanticEdges \subseteq EdgeRows
  <2>1. ASSUME NEW f \in Extracted, NEW k \in KeysOf(f, ext[f]),
               NEW u \in UsesOf[ext[f]], u[1] \in Extracted
        PROVE  [from |-> k, to |-> SymbolKey(u[1], u[2], ext[u[1]]), relation |-> "calls"]
                 \in EdgeRows
    <3>1. f \in Files /\ ext[f] \in Texts /\ u[1] \in Files /\ ext[u[1]] \in Texts
      BY <2>1 DEF Extracted
    <3>2. k \in SymbolKeys
      BY <3>1, KeysTyped
    <3>3. u[2] \in Names
      BY <3>1, ConstantsAssumption
    <3>4. SymbolKey(u[1], u[2], ext[u[1]]) \in SymbolKeys
      BY <3>1, <3>3, ConstantsAssumption DEF SymbolKey, SymbolKeys
    <3>. QED BY <3>2, <3>4 DEF EdgeRows, Endpoints
  <2>. QED BY <2>1, <1>3, SMTT(30) DEF SemanticEdges
<1>6. ImportEdges \subseteq EdgeRows
  <2>1. ASSUME NEW f \in Files, walked[f] # NoText,
               NEW u \in UsesOf[walked[f]], Resolves(f, u)
        PROVE  [from |-> f, to |-> SymbolKey(u[1], u[2], walked[u[1]]), relation |-> "imports"]
                 \in EdgeRows
    <3>1. walked[f] \in Texts
      BY <2>1
    <3>2. u[1] \in Files /\ u[2] \in Names
      BY <3>1, ConstantsAssumption
    <3>3. walked[u[1]] \in Texts
      BY <3>2, <2>1 DEF Resolves
    <3>4. SymbolKey(u[1], u[2], walked[u[1]]) \in SymbolKeys
      BY <3>2, <3>3, ConstantsAssumption DEF SymbolKey, SymbolKeys
    <3>. QED BY <3>4 DEF EdgeRows, Endpoints
  <2>. QED BY <2>1 DEF ImportEdges
<1>. QED BY <1>4, <1>5, <1>6 DEF EdgeDocs

\* The whole state is typed and every run is in shape, initially and after a step.
LEMMA InitTyped == Init => TypeInv
<1>. SUFFICES ASSUME Init PROVE TypeInv
  OBVIOUS
<1>1. heads \in [Files -> Hashes \cup {NoHead}]
  BY DEF Init
<1>2. /\ chunks \in [Files -> SUBSET Rows] /\ vectors \in [Files -> SUBSET Rows]
      /\ walked \in [Files -> Texts \cup {NoText}] /\ ext \in [Files -> Texts \cup {NoText}]
      /\ trusted \in [Files -> Texts \cup {NoText}]
  BY DEF Init, NothingRead
<1>3. flags \in [overwrite : BOOLEAN, embed : BOOLEAN, lsp : BOOLEAN]
  BY DEF Init
<1>4. TypeOK
  BY <1>1, <1>2, <1>3 DEF Init, TypeOK, Pcs
<1>5. RunShape
  BY DEF Init, RunShape, Writing
<1>. QED BY <1>4, <1>5 DEF TypeInv

\* A run that returns leaves its locals typed.
LEMMA ReturnTyped ==
  ASSUME TypeInv, NEW how \in {"ok", "failed"}, Return(how)
  PROVE  /\ tree' = tree /\ flags' = flags
         /\ pc' = "idle" /\ outcome' \in {"none", "ok", "failed"}
         /\ walked' \in [Files -> Texts \cup {NoText}]
         /\ ext' \in [Files -> Texts \cup {NoText}]
         /\ changed' = {} /\ todo' = {} /\ cur' = NoText /\ withVectors' = FALSE
  BY DEF Return, NothingRead, TypeInv, TypeOK

\* Every action keeps the types and the shape of the run.
LEMMA StepTyped == TypeInv /\ [Next]_vars => TypeInv'
<1>. SUFFICES ASSUME TypeInv, [Next]_vars PROVE TypeInv'
  OBVIOUS
<1>. USE DEF TypeInv, historyVars
<1>1. ASSUME NEW f \in Files, Edit(f) PROVE TypeInv'
  <2>. PICK t \in TextsOf[f] : tree' = [tree EXCEPT ![f] = t]
    BY <1>1 DEF Edit
  <2>0. TextsOf[f] \subseteq Texts \cup {NoText}
    BY ConstantsAssumption
  <2>1. tree' \in [Files -> Texts \cup {NoText}]
    BY <2>0 DEF TypeOK
  <2>. QED BY <2>1, <1>1 DEF Edit, storeVars, runVars, TypeOK, RunShape, NodeStored
<1>2. ASSUME NEW f \in Files, Purge(f) PROVE TypeInv'
  BY <1>2 DEF Purge, runVars, TypeOK, RunShape
<1>3. CASE StartIngest
  BY <1>3, ConstantsAssumption DEF StartIngest, NothingRead, storeVars, TypeOK, RunShape, Pcs, Writing
<1>4. ASSUME NEW f \in Files, WalkAndAnalyze(f) PROVE TypeInv'
  BY <1>4 DEF WalkAndAnalyze, storeVars, TypeOK, RunShape, Writing
<1>5. CASE StartNodePass
  BY <1>5 DEF StartNodePass, storeVars, TypeOK, RunShape, Pcs, Writing
<1>6. ASSUME NEW f \in Files, WriteFileNode(f) PROVE TypeInv'
  <2>1. f \in changed /\ walked[f] \in Texts
    BY <1>6 DEF WriteFileNode, TypeOK, RunShape
  <2>2. heads' \in [Files -> Hashes \cup {NoHead}] /\ blemished' \subseteq Files
    BY <1>6, <2>1, KeysTyped, RefusalsAreRows DEF WriteFileNode, TypeOK
  <2>. QED BY <2>1, <2>2, <1>6 DEF WriteFileNode, TypeOK, RunShape, Pcs, Writing
<1>7. CASE WriteSymbols
  <2>1. cur \in changed /\ cur \in Files /\ walked[cur] \in Texts
    BY <1>7 DEF WriteSymbols, TypeOK, RunShape, Writing
  <2>2. symbols' \subseteq SymbolKeys /\ enriched' \subseteq SymbolKeys /\ blemished' \subseteq Files
    BY <1>7, <2>1, KeysTyped DEF WriteSymbols, TypeOK
  <2>. QED BY <2>1, <2>2, <1>7 DEF WriteSymbols, TypeOK, RunShape, Pcs, Writing
<1>8. CASE RemoveStale
  BY <1>8 DEF RemoveStale, TypeOK, RunShape, Pcs, Writing
<1>9. CASE EmbedDocument
  BY <1>9 DEF EmbedDocument, Embeddable, storeVars, TypeOK, RunShape, Pcs, Writing
<1>10. CASE EmbedderFails
  <2>1. Return("failed")
    BY <1>10 DEF EmbedderFails
  <2>. QED BY <2>1, <1>10, ReturnTyped DEF EmbedderFails, storeVars, TypeOK, RunShape, Pcs, Writing
<1>11. CASE Interrupt
  <2>1. Return("failed")
    BY <1>11 DEF Interrupt
  <2>. QED BY <2>1, <1>11, ReturnTyped DEF Interrupt, storeVars, TypeOK, RunShape, Pcs, Writing
<1>12. CASE InsertChunks
  <2>1. cur \in changed /\ cur \in Files /\ walked[cur] \in Texts
    BY <1>12 DEF InsertChunks, TypeOK, RunShape, Writing
  <2>. PICK lost \in Refusals(Pieces(walked[cur])) :
            LET landed == IF heads[cur] = NoHead THEN {} ELSE Pieces(walked[cur]) \ lost
            IN  /\ chunks' = [chunks EXCEPT ![cur] = Upsert(@, landed)]
                /\ GoOn(landed, IF withVectors THEN "vectors" ELSE "file")
    BY <1>12 DEF InsertChunks
  <2>. DEFINE landed == IF heads[cur] = NoHead THEN {} ELSE Pieces(walked[cur]) \ lost
  <2>2. Upsert(chunks[cur], landed) \in SUBSET Rows
    <3>1. landed \in SUBSET Rows /\ chunks[cur] \in SUBSET Rows
      BY <2>1, KeysTyped DEF TypeOK
    <3>. QED BY <3>1, UpsertTyped
  <2>3. chunks' \in [Files -> SUBSET Rows]
    BY <2>1, <2>2 DEF TypeOK
  <2>. HIDE DEF landed
  <2>4. CASE Return("failed")
    BY <2>3, <2>4, <1>12, ReturnTyped DEF InsertChunks, TypeOK, RunShape, Pcs, Writing
  <2>5. CASE ~Return("failed")
    <3>1. pc' \in {"vectors", "file"} /\ UNCHANGED <<tree, flags, walked, changed, todo, cur, withVectors, ext, outcome>>
      BY <2>5 DEF GoOn, landed
    <3>. QED BY <2>1, <2>3, <3>1, <1>12 DEF InsertChunks, TypeOK, RunShape, Pcs, Writing
  <2>. QED BY <2>4, <2>5
<1>13. CASE InsertEmbeddings
  <2>1. cur \in changed /\ cur \in Files /\ walked[cur] \in Texts
    BY <1>13 DEF InsertEmbeddings, TypeOK, RunShape, Writing
  <2>. PICK lost \in Refusals(Pieces(walked[cur])) :
            LET landed == {p \in Pieces(walked[cur]) \ lost : \E c \in chunks[cur] : c[1] = p[1]}
            IN  /\ vectors' = [vectors EXCEPT ![cur] = Upsert(@, landed)]
                /\ GoOn(landed, "file")
    BY <1>13 DEF InsertEmbeddings
  <2>. DEFINE landed == {p \in Pieces(walked[cur]) \ lost : \E c \in chunks[cur] : c[1] = p[1]}
  <2>2. Upsert(vectors[cur], landed) \in SUBSET Rows
    <3>1. landed \in SUBSET Rows /\ vectors[cur] \in SUBSET Rows
      BY <2>1, KeysTyped DEF TypeOK
    <3>. QED BY <3>1, UpsertTyped
  <2>3. vectors' \in [Files -> SUBSET Rows]
    BY <2>1, <2>2 DEF TypeOK
  <2>. HIDE DEF landed
  <2>4. CASE Return("failed")
    BY <2>3, <2>4, <1>13, ReturnTyped DEF InsertEmbeddings, TypeOK, RunShape, Pcs, Writing
  <2>5. CASE ~Return("failed")
    <3>1. pc' = "file" /\ UNCHANGED <<tree, flags, walked, changed, todo, cur, withVectors, ext, outcome>>
      BY <2>5 DEF GoOn, landed
    <3>. QED BY <2>1, <2>3, <3>1, <1>13 DEF InsertEmbeddings, TypeOK, RunShape, Pcs, Writing
  <2>. QED BY <2>4, <2>5
<1>14. CASE EndNodePass
  <2>1. todo' \subseteq Units
    BY <1>14, ConstantsAssumption DEF EndNodePass
  <2>. QED BY <2>1, <1>14 DEF EndNodePass, storeVars, TypeOK, RunShape, Pcs, Writing
<1>15. ASSUME NEW u \in Units, SkipUnit(u) PROVE TypeInv'
  BY <1>15 DEF SkipUnit, storeVars, TypeOK, RunShape, Writing
<1>16. ASSUME NEW u \in Units, ServerFails(u) PROVE TypeInv'
  BY <1>16 DEF ServerFails, storeVars, TypeOK, RunShape, Writing
<1>17. ASSUME NEW u \in Units, ExtractUnit(u) PROVE TypeInv'
  <2>1. ext' \in [Files -> Texts \cup {NoText}]
    BY <1>17 DEF ExtractUnit, TypeOK
  <2>. QED BY <2>1, <1>17 DEF ExtractUnit, storeVars, TypeOK, RunShape, Writing
<1>18. CASE WriteEnriched
  <2>1. ExtractedKeys \subseteq SymbolKeys
    BY KeysTyped DEF ExtractedKeys, Extracted, TypeOK
  <2>. QED BY <2>1, <1>18 DEF WriteEnriched, TypeOK, RunShape, Pcs, Writing
<1>19. CASE EnrichedWriteFails
  BY <1>19 DEF EnrichedWriteFails, NothingRead, storeVars, TypeOK, RunShape, Pcs, Writing
<1>20. CASE WriteEdges
  <2>1. Return("ok")
    BY <1>20 DEF WriteEdges
  <2>2. edges' \subseteq EdgeRows /\ rejected' \subseteq EdgeRows
    BY <1>20, EdgeDocsTyped, RefusalsAreRows DEF WriteEdges, Attached, TypeOK
  <2>3. trusted' \in [Files -> Texts \cup {NoText}]
    BY <1>20 DEF WriteEdges, TypeOK
  <2>. QED BY <2>1, <2>2, <2>3, <1>20, ReturnTyped DEF WriteEdges, TypeOK, RunShape, Pcs, Writing
<1>21. CASE UNCHANGED vars
  BY <1>21 DEF vars, storeVars, runVars, TypeOK, RunShape
<1>. QED
  BY <1>1, <1>2, <1>3, <1>4, <1>5, <1>6, <1>7, <1>8, <1>9, <1>10, <1>11, <1>12, <1>13, <1>14,
     <1>15, <1>16, <1>17, <1>18, <1>19, <1>20, <1>21
     DEF Next, RunStep, NodePass, SemanticPass

\* TypeOK holds of every behaviour: no pass of the run reads a local another
\* pass has not set.
THEOREM TypeCorrect == Spec => []TypeOK
<1>1. TypeInv => TypeOK
  BY DEF TypeInv
<1>. QED BY InitTyped, StepTyped, <1>1, PTL DEF Spec

\* Where a run is and what its locals hold, for the theorems below.
COROLLARY TypeInvariant == Spec => []TypeInv
  BY InitTyped, StepTyped, PTL DEF Spec

-----------------------------------------------------------------------------
(* Rows that name other rows.                                              *)

\* Nodes are only ever added, except by a purge.
LEMMA NodesStay ==
  ASSUME TypeInv, [Next]_vars, \A f \in Files : ~Purge(f), NEW x, NodeStored(x)
  PROVE  NodeStored(x)'
<1>. USE DEF NodeStored
<1>1. ASSUME NEW f \in Files, WriteFileNode(f) PROVE NodeStored(x)'
  <2>1. f \in Files /\ walked[f] \in Texts
    BY <1>1 DEF WriteFileNode, TypeInv, TypeOK, RunShape
  <2>2. SymbolHash(f, walked[f]) # NoHead
    BY <2>1, KeysTyped, HashIsNoMarker
  <2>. QED BY <1>1, <2>2 DEF WriteFileNode, TypeInv, TypeOK
<1>2. CASE WriteSymbols
  BY <1>2 DEF WriteSymbols
<1>3. CASE WriteEnriched
  BY <1>3 DEF WriteEnriched
<1>4. CASE UNCHANGED <<heads, symbols>>
  BY <1>4
<1>5. \/ UNCHANGED <<heads, symbols>>
      \/ WriteSymbols \/ WriteEnriched \/ \E f \in Files : WriteFileNode(f)
  BY DEF Next, RunStep, NodePass, SemanticPass, Edit, StartIngest, WalkAndAnalyze,
         StartNodePass, RemoveStale, EmbedDocument, EmbedderFails, Interrupt,
         InsertChunks, InsertEmbeddings, EndNodePass, SkipUnit, ServerFails, ExtractUnit,
         EnrichedWriteFails, WriteEdges, storeVars, historyVars, vars
<1>. QED BY <1>1, <1>2, <1>3, <1>4, <1>5

\* Only the edge pass and a purge touch the edges, and only five steps the rest.
LEMMA RowsWriters ==
  ASSUME [Next]_vars
  PROVE  /\ UNCHANGED edges \/ WriteEdges \/ \E f \in Files : Purge(f)
         /\ \/ UNCHANGED chunks
            \/ RemoveStale \/ InsertChunks \/ \E f \in Files : Purge(f)
         /\ \/ UNCHANGED <<symbols, enriched>>
            \/ WriteSymbols \/ WriteEnriched \/ \E f \in Files : Purge(f)
<1>. USE DEF Next, RunStep, NodePass, SemanticPass, Edit, StartIngest, WalkAndAnalyze,
         StartNodePass, EmbedDocument, EmbedderFails, Interrupt,
         InsertEmbeddings, EndNodePass, SkipUnit, ServerFails, ExtractUnit,
         EnrichedWriteFails, WriteFileNode, storeVars, historyVars, vars
<1>1. UNCHANGED edges \/ WriteEdges \/ \E f \in Files : Purge(f)
  BY DEF WriteSymbols, WriteEnriched, RemoveStale, InsertChunks
<1>2. UNCHANGED chunks \/ RemoveStale \/ InsertChunks \/ \E f \in Files : Purge(f)
  BY DEF WriteSymbols, WriteEnriched, WriteEdges
<1>3. \/ UNCHANGED <<symbols, enriched>>
      \/ WriteSymbols \/ WriteEnriched \/ \E f \in Files : Purge(f)
  BY DEF RemoveStale, InsertChunks, WriteEdges
<1>. QED BY <1>1, <1>2, <1>3

\* Every action leaves edges and enriched symbols on stored nodes only.
LEMMA StepKeepsRows == TypeInv /\ NoDanglingRows /\ [Next]_vars => NoDanglingRows'
<1>. SUFFICES ASSUME TypeInv, NoDanglingRows, [Next]_vars PROVE NoDanglingRows'
  OBVIOUS
<1>1. ASSUME NEW f \in Files, Purge(f) PROVE NoDanglingRows'
  <2>. DEFINE family == {f} \cup {k \in symbols : k[1] = f}
  <2>1. ASSUME NEW e \in edges' PROVE NodeStored(e.from)' /\ NodeStored(e.to)'
    <3>1. e \in edges /\ e.from \notin family /\ e.to \notin family
      BY <1>1 DEF Purge
    <3>2. ASSUME NEW x, x \notin family, NodeStored(x) PROVE NodeStored(x)'
      BY <1>1, <3>2 DEF Purge, NodeStored, TypeInv, TypeOK
    <3>. QED BY <3>1, <3>2 DEF NoDanglingRows
  <2>2. ASSUME NEW g \in Files, heads'[g] = NoHead PROVE chunks'[g] = {}
    BY <1>1, <2>2 DEF Purge, NoDanglingRows, TypeInv, TypeOK
  <2>3. enriched' \subseteq symbols'
    BY <1>1 DEF Purge, NoDanglingRows
  <2>. QED BY <2>1, <2>2, <2>3 DEF NoDanglingRows
<1>2. ASSUME \A f \in Files : ~Purge(f) PROVE NoDanglingRows'
  <2>1. ASSUME NEW e \in edges' PROVE NodeStored(e.from)' /\ NodeStored(e.to)'
    <3>1. NodeStored(e.from) /\ NodeStored(e.to)
      <4>1. CASE e \in edges
        BY <4>1 DEF NoDanglingRows
      <4>2. CASE WriteEdges /\ e \notin edges
        BY <4>2 DEF WriteEdges, Attached
      <4>. QED BY <4>1, <4>2, <1>2, RowsWriters
    <3>. QED BY <3>1, <1>2, NodesStay
  <2>2. ASSUME NEW g \in Files, heads'[g] = NoHead PROVE chunks'[g] = {}
    <3>1. heads[g] = NoHead
      <4>2. CASE \E f \in Files : WriteFileNode(f)
        <5>1. PICK f \in Files : WriteFileNode(f)
          BY <4>2
        <5>2. f \in Files /\ walked[f] \in Texts
          BY <5>1 DEF WriteFileNode, TypeInv, TypeOK, RunShape
        <5>3. SymbolHash(f, walked[f]) # NoHead
          BY <5>2, KeysTyped, HashIsNoMarker
        <5>. QED BY <5>1, <5>3, <2>2 DEF WriteFileNode, TypeInv, TypeOK
      <4>3. CASE UNCHANGED heads
        BY <4>3, <2>2
      <4>4. UNCHANGED heads \/ \E f \in Files : WriteFileNode(f)
        BY <1>2 DEF Next, RunStep, NodePass, SemanticPass, Edit, StartIngest, WalkAndAnalyze,
           StartNodePass, WriteSymbols, WriteEnriched, RemoveStale, EmbedDocument,
           EmbedderFails, Interrupt, InsertChunks, InsertEmbeddings, EndNodePass, SkipUnit,
           ServerFails, ExtractUnit, EnrichedWriteFails, WriteEdges, storeVars, historyVars, vars
      <4>. QED BY <4>2, <4>3, <4>4
    <3>2. CASE UNCHANGED chunks
      BY <3>1, <3>2 DEF NoDanglingRows
    <3>3. CASE RemoveStale
      BY <3>1, <3>3 DEF RemoveStale, NoDanglingRows, TypeInv, TypeOK
    <3>4. CASE InsertChunks
      <4>1. cur \in Files
        BY <3>4 DEF InsertChunks, TypeInv, TypeOK, RunShape, Writing
      <4>2. PICK lost : chunks' = [chunks EXCEPT ![cur] =
                           Upsert(@, IF heads[cur] = NoHead THEN {} ELSE Pieces(walked[cur]) \ lost)]
        BY <3>4 DEF InsertChunks
      <4>3. Upsert({}, {}) = {}
        BY DEF Upsert
      <4>. QED BY <4>1, <4>2, <4>3, <3>1 DEF NoDanglingRows, TypeInv, TypeOK
    <3>. QED BY <3>2, <3>3, <3>4, <1>2, RowsWriters
  <2>3. enriched' \subseteq symbols'
    <3>1. CASE WriteSymbols
      BY <3>1 DEF WriteSymbols, NoDanglingRows
    <3>2. CASE WriteEnriched
      BY <3>2 DEF WriteEnriched, NoDanglingRows
    <3>3. CASE UNCHANGED <<symbols, enriched>>
      BY <3>3 DEF NoDanglingRows
    <3>. QED BY <3>1, <3>2, <3>3, <1>2, RowsWriters
  <2>. QED BY <2>1, <2>2, <2>3 DEF NoDanglingRows
<1>. QED BY <1>1, <1>2

\* NoDanglingRows holds of every behaviour, whichever flags the runs are given
\* and wherever crashes and purges land.
THEOREM NothingDangles == Spec => []NoDanglingRows
<1>1. Init => NoDanglingRows
  BY DEF Init, NoDanglingRows
<1>. QED BY <1>1, StepKeepsRows, TypeInvariant, PTL DEF Spec

-----------------------------------------------------------------------------
(* What a search may meet, when every run overwrites.                      *)

\* Between removing the stale rows of a file and writing its new ones nothing
\* of the file is indexed; before its vectors are written it has none.
IndexInv ==
  /\ \A f \in Files : chunks[f] = {} \/ \E t \in Texts : chunks[f] \subseteq Pieces(t)
  /\ \A f \in Files : vectors[f] \subseteq chunks[f]
  /\ pc \in {"embed", "chunks"} => chunks[cur] = {} /\ vectors[cur] = {}
  /\ pc = "vectors" => vectors[cur] = {} /\ chunks[cur] \subseteq Pieces(walked[cur])

\* How the steps that touch the index touch it.
LEMMA IndexSteps ==
  ASSUME TypeInv, IndexInv, [Next]_vars
  PROVE  \/ UNCHANGED <<chunks, vectors>>
         \/ \E f \in Files : /\ chunks' = [chunks EXCEPT ![f] = {}]
                             /\ vectors' = [vectors EXCEPT ![f] = {}]
         \/ \E f \in Files : /\ chunks[f] = {} /\ vectors[f] = {}
                             /\ \E t \in Texts : \E new \in SUBSET Pieces(t) :
                                  chunks' = [chunks EXCEPT ![f] = new]
                             /\ UNCHANGED vectors
         \/ \E f \in Files : /\ vectors[f] = {}
                             /\ \E new \in SUBSET chunks[f] : vectors' = [vectors EXCEPT ![f] = new]
                             /\ UNCHANGED chunks
<1>0. \A new : Upsert({}, new) = new
  BY DEF Upsert
<1>1. ASSUME NEW f \in Files, Purge(f)
      PROVE  /\ chunks' = [chunks EXCEPT ![f] = {}]
             /\ vectors' = [vectors EXCEPT ![f] = {}]
  BY <1>1 DEF Purge
<1>2. CASE RemoveStale
  <2>1. cur \in Files
    BY <1>2 DEF RemoveStale, TypeInv, TypeOK, RunShape, Writing
  <2>. QED BY <1>2, <2>1 DEF RemoveStale
<1>3. CASE InsertChunks
  <2>1. cur \in Files /\ walked[cur] \in Texts /\ chunks[cur] = {} /\ vectors[cur] = {}
    BY <1>3 DEF InsertChunks, TypeInv, TypeOK, RunShape, Writing, IndexInv
  <2>2. PICK lost : chunks' = [chunks EXCEPT ![cur] =
                       Upsert(@, IF heads[cur] = NoHead THEN {} ELSE Pieces(walked[cur]) \ lost)]
    BY <1>3 DEF InsertChunks
  <2>. DEFINE new == IF heads[cur] = NoHead THEN {} ELSE Pieces(walked[cur]) \ lost
  <2>3. new \in SUBSET Pieces(walked[cur]) /\ chunks' = [chunks EXCEPT ![cur] = new]
    BY <2>1, <2>2, <1>0
  <2>4. UNCHANGED vectors
    BY <1>3 DEF InsertChunks
  <2>. HIDE DEF new
  <2>. QED BY <2>1, <2>3, <2>4
<1>4. CASE InsertEmbeddings
  <2>1. cur \in Files /\ vectors[cur] = {} /\ chunks[cur] \subseteq Pieces(walked[cur])
    BY <1>4 DEF InsertEmbeddings, TypeInv, TypeOK, RunShape, Writing, IndexInv
  <2>2. PICK lost : vectors' = [vectors EXCEPT ![cur] =
                       Upsert(@, {p \in Pieces(walked[cur]) \ lost : \E c \in chunks[cur] : c[1] = p[1]})]
    BY <1>4 DEF InsertEmbeddings
  <2>. DEFINE new == {p \in Pieces(walked[cur]) \ lost : \E c \in chunks[cur] : c[1] = p[1]}
  <2>3. \A p, c \in Pieces(walked[cur]) : c[1] = p[1] => c = p
    BY DEF Pieces
  <2>4. new \in SUBSET chunks[cur]
    BY <2>1, <2>3
  <2>. HIDE DEF new
  <2>5. vectors' = [vectors EXCEPT ![cur] = new]
    BY <2>1, <2>2, <1>0 DEF new
  <2>6. UNCHANGED chunks
    BY <1>4 DEF InsertEmbeddings
  <2>. QED BY <2>1, <2>4, <2>5, <2>6
<1>5. \/ UNCHANGED <<chunks, vectors>> \/ RemoveStale \/ InsertChunks \/ InsertEmbeddings
      \/ \E f \in Files : Purge(f)
  BY DEF Next, RunStep, NodePass, SemanticPass, Edit, StartIngest, WalkAndAnalyze,
     StartNodePass, WriteFileNode, WriteSymbols, WriteEnriched, EmbedDocument, EmbedderFails,
     Interrupt, EndNodePass, SkipUnit, ServerFails, ExtractUnit, EnrichedWriteFails,
     WriteEdges, storeVars, historyVars, vars
<1>. QED BY <1>1, <1>2, <1>3, <1>4, <1>5

\* Every action keeps the pieces and vectors of a file to one version.
LEMMA StepKeepsIndex ==
  ASSUME OverwriteChoices = {TRUE}
  PROVE  TypeInv /\ IndexInv /\ [Next]_vars => IndexInv'
<1>. SUFFICES ASSUME TypeInv, IndexInv, [Next]_vars PROVE IndexInv'
  OBVIOUS
<1>1. /\ \A f \in Files : chunks'[f] = {} \/ \E t \in Texts : chunks'[f] \subseteq Pieces(t)
      /\ \A f \in Files : vectors'[f] \subseteq chunks'[f]
  BY IndexSteps DEF IndexInv, TypeInv, TypeOK
<1>2. pc' \in {"embed", "chunks"} => chunks'[cur'] = {} /\ vectors'[cur'] = {}
  <2>. SUFFICES ASSUME pc' \in {"embed", "chunks"} PROVE chunks'[cur'] = {} /\ vectors'[cur'] = {}
    OBVIOUS
  <2>. cur \in Files \/ pc \notin Writing
    BY DEF TypeInv, TypeOK, RunShape
  <2>1. CASE RemoveStale
    BY <2>1 DEF RemoveStale, TypeInv, TypeOK, Writing
  <2>2. CASE EmbedDocument
    BY <2>2 DEF EmbedDocument, IndexInv, storeVars
  <2>3. ASSUME NEW f \in Files, Purge(f) PROVE chunks'[cur'] = {} /\ vectors'[cur'] = {}
    BY <2>3 DEF Purge, runVars, IndexInv, TypeInv, TypeOK, Writing
  <2>4. CASE UNCHANGED <<pc, cur, chunks, vectors>>
    BY <2>4 DEF IndexInv
  <2>5. ~WriteSymbols
    <3>. SUFFICES ASSUME WriteSymbols PROVE FALSE
      OBVIOUS
    <3>1. flags.overwrite = TRUE
      BY DEF WriteSymbols, TypeInv, RunShape
    <3>. QED BY <3>1 DEF WriteSymbols
  <2>6. \/ RemoveStale \/ EmbedDocument \/ \E f \in Files : Purge(f)
        \/ UNCHANGED <<pc, cur, chunks, vectors>>
    BY <2>5 DEF Next, RunStep, NodePass, SemanticPass, Edit, StartIngest, WalkAndAnalyze,
       StartNodePass, WriteFileNode, WriteEnriched, EmbedderFails, Return, GoOn, InsertChunks,
       InsertEmbeddings, Interrupt, EndNodePass, SkipUnit, ServerFails, ExtractUnit,
       EnrichedWriteFails, WriteEdges, storeVars, runVars, vars
  <2>. QED BY <2>1, <2>2, <2>3, <2>4, <2>6
<1>3. pc' = "vectors" => vectors'[cur'] = {} /\ chunks'[cur'] \subseteq Pieces(walked'[cur'])
  <2>. SUFFICES ASSUME pc' = "vectors"
                PROVE  vectors'[cur'] = {} /\ chunks'[cur'] \subseteq Pieces(walked'[cur'])
    OBVIOUS
  <2>. cur \in Files \/ pc \notin Writing
    BY DEF TypeInv, TypeOK, RunShape
  <2>1. CASE InsertChunks
    <3>1. /\ cur \in Files /\ chunks[cur] = {} /\ vectors[cur] = {}
          /\ cur' = cur /\ walked' = walked /\ vectors' = vectors
      BY <2>1 DEF InsertChunks, GoOn, Return, IndexInv, Writing
    <3>2. PICK lost : chunks' = [chunks EXCEPT ![cur] =
                         Upsert(@, IF heads[cur] = NoHead THEN {} ELSE Pieces(walked[cur]) \ lost)]
      BY <2>1 DEF InsertChunks
    <3>3. chunks'[cur] \subseteq Pieces(walked[cur])
      BY <3>1, <3>2 DEF Upsert, TypeInv, TypeOK
    <3>. QED BY <3>1, <3>3
  <2>2. ASSUME NEW f \in Files, Purge(f)
        PROVE  vectors'[cur'] = {} /\ chunks'[cur'] \subseteq Pieces(walked'[cur'])
    BY <2>2 DEF Purge, runVars, IndexInv, TypeInv, TypeOK, Writing
  <2>3. CASE UNCHANGED <<pc, cur, walked, chunks, vectors>>
    BY <2>3 DEF IndexInv
  <2>4. \/ InsertChunks \/ \E f \in Files : Purge(f)
        \/ UNCHANGED <<pc, cur, walked, chunks, vectors>>
    BY DEF Next, RunStep, NodePass, SemanticPass, Edit, StartIngest, WalkAndAnalyze,
       StartNodePass, WriteFileNode, WriteSymbols, RemoveStale, EmbedDocument, WriteEnriched,
       EmbedderFails, Return, GoOn, InsertEmbeddings, Interrupt, EndNodePass, SkipUnit, ServerFails,
       ExtractUnit, EnrichedWriteFails, WriteEdges, storeVars, runVars, vars
  <2>. QED BY <2>1, <2>2, <2>3, <2>4
<1>. QED BY <1>1, <1>2, <1>3 DEF IndexInv

\* The empty store indexes nothing.
LEMMA InitIndex == Init => IndexInv
  BY DEF Init, IndexInv, Writing

\* The index invariant holds throughout an overwriting ingest.
LEMMA IndexInvariant ==
  ASSUME OverwriteChoices = {TRUE}
  PROVE  Spec => []IndexInv
<1>1. TypeInv /\ IndexInv /\ [Next]_vars => IndexInv'
  BY StepKeepsIndex
<1>. QED BY <1>1, InitIndex, TypeInvariant, PTL DEF Spec

\* OneVersionIndexed holds of every behaviour whose runs overwrite, whatever the
\* files, the texts and the faults: no interleaving of crashes, edits, purges and
\* refused rows with the separate transactions mixes two versions of a file.
THEOREM OneVersion ==
  ASSUME OverwriteChoices = {TRUE}
  PROVE  Spec => []OneVersionIndexed
<1>1. IndexInv => OneVersionIndexed
  BY DEF IndexInv, OneVersionIndexed
<1>. QED BY <1>1, IndexInvariant, PTL

\* VectorsMatchChunks likewise: a vector is never scored for another text than
\* the one its chunk holds.
THEOREM VectorsMatch ==
  ASSUME OverwriteChoices = {TRUE}
  PROVE  Spec => []VectorsMatchChunks
<1>1. IndexInv => VectorsMatchChunks
  BY DEF IndexInv, VectorsMatchChunks
<1>. QED BY <1>1, IndexInvariant, PTL

\* Rows of one text are its places and the text.
LEMMA RowsOfOneText ==
  ASSUME NEW t \in Texts, NEW new \in SUBSET Pieces(t)
  PROVE  \E stored \in SUBSET Places : new = stored \X {t}
<1>. DEFINE stored == {i \in 0 .. PiecesOf[t] - 1 : <<i, t>> \in new}
<1>1. stored \in SUBSET Places
  BY DEF Places
<1>2. new = stored \X {t}
  BY DEF Pieces
<1>. QED BY <1>1, <1>2

\* Each step of the ingest is one of ChunkIndex or leaves the index alone.
LEMMA StepImplementsIndex ==
  ASSUME TypeInv, IndexInv, [Next]_vars
  PROVE  [Index!Next]_IndexEntries
<1>. USE DEF TypeInv, TypeOK, IndexEntries
<1>1. CASE UNCHANGED <<chunks, vectors>>
  BY <1>1
<1>2. ASSUME NEW f \in Files, chunks' = [chunks EXCEPT ![f] = {}],
             vectors' = [vectors EXCEPT ![f] = {}]
      PROVE  Index!Withdraw(f)
  BY <1>2 DEF Index!Withdraw, Index!Absent
<1>3. ASSUME NEW f \in Files, chunks[f] = {}, vectors[f] = {}, NEW t \in Texts,
             NEW new \in SUBSET Pieces(t), chunks' = [chunks EXCEPT ![f] = new], UNCHANGED vectors
      PROVE  Index!Publish(f)
  <2>1. PICK stored \in SUBSET Places : new = stored \X {t}
    BY RowsOfOneText
  <2>2. IndexEntries' = [IndexEntries EXCEPT ![f].pieces = new]
    BY <1>3
  <2>3. IndexEntries[f] = Index!Absent
    BY <1>3 DEF Index!Absent
  <2>. QED BY <2>1, <2>2, <2>3 DEF Index!Publish
<1>4. ASSUME NEW f \in Files, vectors[f] = {}, NEW new \in SUBSET chunks[f],
             vectors' = [vectors EXCEPT ![f] = new], UNCHANGED chunks
      PROVE  Index!AttachVectors(f)
  <2>1. IndexEntries' = [IndexEntries EXCEPT ![f].vectors = new]
    BY <1>4
  <2>. QED BY <1>4, <2>1 DEF Index!AttachVectors
<1>. QED BY <1>1, <1>2, <1>3, <1>4, IndexSteps DEF Index!Next

\* The ingest implements ChunkIndex: whatever is interrupted, edited, purged or
\* refused, what a search has met of a file's version is neither added to nor
\* taken from piece by piece, its vectors are of it and come at once, and it is
\* gone before another version is there.
THEOREM IngestImplementsIndex ==
  ASSUME OverwriteChoices = {TRUE}
  PROVE  Spec => ImplementsIndex
<1>1. Init => Index!Init
  BY DEF Init, Index!Init, IndexEntries, Index!Absent
<1>2. TypeInv /\ IndexInv /\ [Next]_vars => [Index!Next]_IndexEntries
  BY StepImplementsIndex
<1>. QED BY <1>1, <1>2, IndexInvariant, TypeInvariant, PTL DEF Spec, Index!Spec, ImplementsIndex

-----------------------------------------------------------------------------
(* What a run without overwrite leaves alone.                              *)

\* A run without overwrite removes no row.
LEMMA StepAppends ==
  TypeInv /\ [Next]_vars => [RunStep /\ ~flags.overwrite => KeepsStored]_vars
<1>. SUFFICES ASSUME TypeInv, RunStep, ~flags.overwrite PROVE KeepsStored
  OBVIOUS
<1>. USE DEF KeepsStored, TypeInv, TypeOK
<1>1. ASSUME NEW f \in Files, WriteFileNode(f) PROVE KeepsStored
  BY <1>1 DEF WriteFileNode
<1>2. CASE WriteSymbols
  BY <1>2 DEF WriteSymbols
<1>3. ~RemoveStale
  BY DEF RemoveStale, RunShape
<1>4. CASE InsertChunks
  BY <1>4 DEF InsertChunks, Upsert
<1>5. CASE InsertEmbeddings
  BY <1>5 DEF InsertEmbeddings, Upsert
<1>6. CASE WriteEnriched
  BY <1>6 DEF WriteEnriched
<1>7. CASE WriteEdges
  BY <1>7 DEF WriteEdges
<1>8. CASE UNCHANGED storeVars
  BY <1>8 DEF storeVars
<1>9. \/ WriteSymbols \/ InsertChunks \/ InsertEmbeddings \/ WriteEnriched \/ WriteEdges
      \/ UNCHANGED storeVars \/ \E f \in Files : WriteFileNode(f)
  BY <1>3 DEF RunStep, NodePass, SemanticPass, WalkAndAnalyze, StartNodePass, EmbedDocument,
     EndNodePass, SkipUnit, ServerFails, ExtractUnit, EnrichedWriteFails
<1>. QED BY <1>1, <1>2, <1>4, <1>5, <1>6, <1>7, <1>8, <1>9

\* AppendKeepsRows holds of every behaviour: a run without overwrite can only add.
THEOREM AppendOnly == Spec => AppendKeepsRows
  BY StepAppends, TypeInvariant, PTL DEF Spec, AppendKeepsRows

-----------------------------------------------------------------------------
(* What an ok run leaves.                                                  *)

\* The node pass is through with file f.
Written(f) ==
  /\ f \in changed
  /\ \/ pc = "file" /\ f \notin todo
     \/ pc \in Writing /\ f \notin todo /\ f # cur
     \/ pc \in {"semantic", "edges"}

Stored(f) ==
  /\ heads[f] = SymbolHash(f, walked[f])
  /\ chunks[f] = Pieces(walked[f])
  /\ KeysOf(f, walked[f]) \subseteq symbols

\* Somebody purged the file, or the store refused one of its nodes.
Excused(f) == heads[f] = NoHead \/ f \in blemished

\* How far an overwriting run has come with the file it is writing.
StoredSoFar ==
  /\ pc \in Writing => Excused(cur) \/ heads[cur] = SymbolHash(cur, walked[cur])
  /\ pc \in Writing \ {"symbols"} => Excused(cur) \/ KeysOf(cur, walked[cur]) \subseteq symbols
  /\ pc \in {"embed", "chunks"} => chunks[cur] = {}
  /\ pc = "vectors" => Excused(cur) \/ chunks[cur] = Pieces(walked[cur])

\* A file an overwriting node pass is through with is stored whole, or excused.
WholeInv ==
  /\ OkRunsWriteWhole
  /\ pc \in Writing => trusted[cur] = NoText
  /\ flags.overwrite => \A f \in Files : Written(f) => Excused(f) \/ Stored(f)
  /\ flags.overwrite => StoredSoFar

\* A text without pieces is stored without chunks.
LEMMA NoPieces ==
  ASSUME NEW t \in Texts, PiecesOf[t] = 0
  PROVE  Pieces(t) = {}
  BY ConstantsAssumption DEF Pieces

\* No run has been trusted yet.
LEMMA InitWhole == Init => WholeInv
  BY DEF Init, WholeInv, OkRunsWriteWhole, NothingRead, Writing

\* Only the owner of a key is purged with it.
LEMMA KeysApart ==
  ASSUME NEW f \in Files, NEW g \in Files, f # g, NEW t \in Texts, TypeOK
  PROVE  /\ \A k \in KeysOf(g, t) : k[1] # f /\ k # f
         /\ \A k \in symbols : k[1] = f => k # g
  BY DistinctAssumption, KeysTyped DEF KeysOf, SymbolKey, SymbolKeys, TypeOK

\* What was complete stays so where nothing of the file is rewritten.
LEMMA CompleteStays ==
  ASSUME NEW f \in Files, NEW t, Complete(f, t), heads'[f] = heads[f], chunks'[f] = chunks[f],
         symbols \subseteq symbols', edges \subseteq edges'
  PROVE  Complete(f, t)'
  BY DEF Complete

\* A step that only adds symbols and edges keeps what is stored stored.
LEMMA StoredStays ==
  ASSUME NEW f \in Files, Excused(f) \/ Stored(f), heads'[f] = heads[f], chunks'[f] = chunks[f],
         walked'[f] = walked[f], symbols \subseteq symbols', blemished \subseteq blemished'
  PROVE  (Excused(f) \/ Stored(f))'
  BY DEF Excused, Stored

\* A purge takes the rows of one file only.
LEMMA PurgeKeepsOthers ==
  ASSUME TypeInv, NEW f \in Files, Purge(f), NEW g \in Files, g # f, NEW t \in Texts
  PROVE  /\ heads'[g] = heads[g] /\ chunks'[g] = chunks[g] /\ trusted'[g] = trusted[g]
         /\ KeysOf(g, t) \subseteq symbols => KeysOf(g, t) \subseteq symbols'
         /\ DefinesOf(g, t) \subseteq edges => DefinesOf(g, t) \subseteq edges'
<1>. DEFINE family == {f} \cup {k \in symbols : k[1] = f}
<1>1. (\A k \in KeysOf(g, t) : k \notin family) /\ g \notin family
  BY KeysApart DEF TypeInv
<1>2. KeysOf(g, t) \subseteq symbols => KeysOf(g, t) \subseteq symbols'
  BY <1>1 DEF Purge
<1>3. DefinesOf(g, t) \subseteq edges => DefinesOf(g, t) \subseteq edges'
  BY <1>1 DEF Purge, DefinesOf
<1>. QED BY <1>2, <1>3 DEF Purge, TypeInv, TypeOK

\* A purge leaves the file it takes excused, and the others whole.
LEMMA PurgeKeepsWhole ==
  ASSUME TypeInv, WholeInv, NEW f \in Files, Purge(f)
  PROVE  WholeInv'
<1>. USE DEF TypeInv, TypeOK
<1>1. heads'[f] = NoHead /\ trusted'[f] = NoText
  BY DEF Purge
<1>2. UNCHANGED <<pc, flags, walked, changed, todo, cur, blemished>>
  BY DEF Purge, runVars
<1>3. OkRunsWriteWhole'
  <2>. SUFFICES ASSUME NEW g \in Files, trusted'[g] # NoText PROVE Complete(g, trusted[g])'
    BY DEF OkRunsWriteWhole
  <2>1. g # f
    BY <1>1
  <2>2. trusted'[g] = trusted[g] /\ trusted[g] \in Texts
    BY <2>1 DEF Purge
  <2>3. Complete(g, trusted[g])
    BY <2>2 DEF WholeInv, OkRunsWriteWhole
  <2>. QED BY PurgeKeepsOthers, <2>1, <2>2, <2>3 DEF Complete
<1>4. ASSUME flags'.overwrite, NEW g \in Files, Written(g)' PROVE (Excused(g) \/ Stored(g))'
  <2>1. Written(g) /\ walked[g] \in Texts
    BY <1>2, <1>4 DEF Written
  <2>2. Excused(g) \/ Stored(g)
    BY <1>2, <1>4, <2>1 DEF WholeInv
  <2>3. CASE g = f
    BY <1>1, <2>3 DEF Excused
  <2>4. CASE g # f
    BY <1>2, <2>1, <2>2, <2>4, PurgeKeepsOthers DEF Excused, Stored
  <2>. QED BY <2>3, <2>4
<1>5. ASSUME pc \in Writing
      PROVE  trusted'[cur] = NoText /\ (flags.overwrite => StoredSoFar')
  <2>0. cur \in Files /\ walked[cur] \in Texts
    BY <1>5 DEF RunShape
  <2>1. CASE cur = f
    <3>1. Excused(cur)' /\ chunks'[cur] = {}
      BY <1>1, <1>2, <2>1 DEF Excused, Purge
    <3>. QED BY <1>1, <1>2, <2>1, <3>1 DEF StoredSoFar
  <2>2. CASE cur # f
    <3>1. /\ heads'[cur] = heads[cur] /\ chunks'[cur] = chunks[cur] /\ trusted'[cur] = trusted[cur]
          /\ KeysOf(cur, walked[cur]) \subseteq symbols => KeysOf(cur, walked[cur]) \subseteq symbols'
      BY <2>0, <2>2, PurgeKeepsOthers
    <3>. QED BY <1>2, <1>5, <3>1 DEF StoredSoFar, Excused, WholeInv
  <2>. QED BY <2>1, <2>2
<1>6. pc \notin Writing => StoredSoFar'
  BY <1>2 DEF StoredSoFar, Writing
<1>. QED BY <1>2, <1>3, <1>4, <1>5, <1>6 DEF WholeInv

\* A refused edge leaves its file without the run's trust; the others have theirs all.
LEMMA EdgesKeepWhole ==
  ASSUME TypeInv, WholeInv, WriteEdges
  PROVE  WholeInv'
<1>. USE DEF TypeInv, TypeOK
<1>1. PICK lost \in Refusals(Attached) :
        LET whole == {f \in changed \ blemished :
                       /\ flags.overwrite /\ heads[f] # NoHead
                       /\ DefinesOf(f, walked[f]) \cap lost = {}}
        IN  /\ edges' = edges \cup (Attached \ lost)
            /\ trusted' = [f \in Files |-> IF f \in whole THEN walked[f] ELSE trusted[f]]
  BY DEF WriteEdges
<1>. DEFINE whole == {f \in changed \ blemished :
                       /\ flags.overwrite /\ heads[f] # NoHead
                       /\ DefinesOf(f, walked[f]) \cap lost = {}}
<1>2. UNCHANGED <<heads, chunks, symbols, walked>> /\ pc' = "idle" /\ pc = "edges"
  BY DEF WriteEdges, Return
<1>3. ASSUME NEW f \in whole PROVE Complete(f, walked[f])'
  <2>0. f \in changed /\ f \in Files
    OBVIOUS
  <2>1. Stored(f)
    BY <1>2, <2>0 DEF WholeInv, Written, Excused
  <2>2. DefinesOf(f, walked[f]) \subseteq Attached
    <3>1. DefinesOf(f, walked[f]) \subseteq EdgeDocs
      BY <2>0 DEF EdgeDocs, Defines
    <3>. QED BY <3>1, <2>0, <2>1 DEF Attached, NodeStored, DefinesOf, Stored
  <2>3. DefinesOf(f, walked[f]) \subseteq edges'
    BY <1>1, <2>2
  <2>. QED BY <1>2, <2>1, <2>3 DEF Stored, Complete
<1>4. OkRunsWriteWhole'
  <2>. SUFFICES ASSUME NEW f \in Files, trusted'[f] # NoText PROVE Complete(f, trusted[f])'
    BY DEF OkRunsWriteWhole
  <2>1. CASE f \in whole
    <3>1. trusted'[f] = walked'[f]
      BY <1>1, <1>2, <2>1
    <3>. QED BY <1>3, <2>1, <3>1 DEF Complete
  <2>2. CASE f \notin whole
    <3>1. trusted'[f] = trusted[f]
      BY <1>1, <2>2
    <3>. QED BY <1>1, <1>2, <3>1 DEF WholeInv, OkRunsWriteWhole, Complete
  <2>. QED BY <2>1, <2>2
<1>. QED BY <1>2, <1>4 DEF WholeInv, Written, StoredSoFar, Writing

\* Inserting the chunks stores them all, or ends an overwriting run.
LEMMA ChunksKeepWhole ==
  ASSUME TypeInv, WholeInv, InsertChunks
  PROVE  WholeInv'
<1>. USE DEF TypeInv, TypeOK
<1>. PICK lost \in Refusals(Pieces(walked[cur])) :
       LET landed == IF heads[cur] = NoHead THEN {} ELSE Pieces(walked[cur]) \ lost
       IN  /\ chunks' = [chunks EXCEPT ![cur] = Upsert(@, landed)]
           /\ GoOn(landed, IF withVectors THEN "vectors" ELSE "file")
  BY DEF InsertChunks
<1>. DEFINE landed == IF heads[cur] = NoHead THEN {} ELSE Pieces(walked[cur]) \ lost
<1>1. cur \in Files /\ trusted[cur] = NoText /\ pc = "chunks"
  BY DEF InsertChunks, WholeInv, Writing, RunShape
<1>2. /\ UNCHANGED <<heads, symbols, edges, trusted, blemished>>
      /\ \A f \in Files : f # cur => chunks'[f] = chunks[f]
  BY <1>1 DEF InsertChunks, historyVars
<1>3. OkRunsWriteWhole'
  <2>. SUFFICES ASSUME NEW f \in Files, trusted[f] # NoText PROVE Complete(f, trusted[f])'
    BY <1>2 DEF OkRunsWriteWhole, Complete
  <2>. QED BY <1>1, <1>2, CompleteStays DEF WholeInv, OkRunsWriteWhole, Complete
<1>4. CASE pc' = "idle"
  BY <1>3, <1>4 DEF WholeInv, Written, StoredSoFar, Writing
<1>5. CASE pc' # "idle"
  <2>1. UNCHANGED <<flags, walked, changed, todo, cur>> /\ pc' \in {"vectors", "file"}
        /\ (flags.overwrite => landed = Pieces(walked[cur]))
    BY <1>5 DEF GoOn, Return, FallsShort
  <2>2. flags.overwrite => chunks'[cur] = Pieces(walked[cur])
    <3>1. \A new : Upsert({}, new) = new
      BY DEF Upsert
    <3>2. chunks'[cur] = Upsert(chunks[cur], landed)
      BY <1>1
    <3>. HIDE DEF landed
    <3>. QED BY <1>1, <2>1, <3>1, <3>2 DEF WholeInv, StoredSoFar
  <2>. HIDE DEF landed
  <2>3. ASSUME flags.overwrite, NEW g \in Files, Written(g)' PROVE (Excused(g) \/ Stored(g))'
    <3>1. CASE g = cur
      BY <1>1, <1>2, <2>1, <2>2, <2>3, <3>1 DEF WholeInv, StoredSoFar, Excused, Stored, Writing
    <3>2. CASE g # cur
      <4>1. Written(g)
        BY <1>1, <2>1, <2>3, <3>2 DEF Written, Writing
      <4>. QED BY <1>2, <2>1, <2>3, <3>2, <4>1, StoredStays DEF WholeInv
    <3>. QED BY <3>1, <3>2
  <2>4. flags.overwrite => StoredSoFar'
    BY <1>1, <1>2, <2>1, <2>2 DEF WholeInv, StoredSoFar, Excused, Writing
  <2>. QED BY <1>1, <1>2, <1>3, <2>1, <2>3, <2>4 DEF WholeInv
<1>. QED BY <1>4, <1>5

\* Inserting the vectors touches nothing a file is complete by.
LEMMA VectorsKeepWhole ==
  ASSUME TypeInv, WholeInv, InsertEmbeddings
  PROVE  WholeInv'
<1>. USE DEF TypeInv, TypeOK
<1>1. UNCHANGED <<heads, symbols, chunks, edges, trusted, blemished>> /\ pc = "vectors"
  BY DEF InsertEmbeddings, historyVars
<1>2. OkRunsWriteWhole'
  BY <1>1 DEF WholeInv, OkRunsWriteWhole, Complete
<1>3. PICK landed : GoOn(landed, "file")
  BY DEF InsertEmbeddings
<1>4. CASE pc' = "idle"
  BY <1>2, <1>4 DEF WholeInv, Written, StoredSoFar, Writing
<1>5. CASE pc' # "idle"
  <2>1. UNCHANGED <<flags, walked, changed, todo, cur>> /\ pc' = "file"
    BY <1>3, <1>5 DEF GoOn, Return
  <2>2. ASSUME flags.overwrite, NEW g \in Files, Written(g)' PROVE (Excused(g) \/ Stored(g))'
    <3>1. CASE g = cur
      BY <1>1, <2>1, <2>2, <3>1 DEF WholeInv, StoredSoFar, Excused, Stored, Writing
    <3>2. CASE g # cur
      BY <1>1, <2>1, <2>2, <3>2 DEF Written, WholeInv, Excused, Stored, Writing
    <3>. QED BY <3>1, <3>2
  <2>. QED BY <1>2, <2>1, <2>2 DEF WholeInv, StoredSoFar, Writing
<1>. QED BY <1>4, <1>5

\* Every action keeps what an ok run vouched for whole.
LEMMA StepKeepsWhole == TypeInv /\ WholeInv /\ [Next]_vars => WholeInv'
<1>. SUFFICES ASSUME TypeInv, WholeInv, [Next]_vars PROVE WholeInv'
  OBVIOUS
<1>. USE DEF TypeInv, TypeOK
<1>1. ASSUME UNCHANGED <<heads, chunks, trusted>>, symbols \subseteq symbols', edges \subseteq edges'
      PROVE  OkRunsWriteWhole'
  BY <1>1, CompleteStays DEF WholeInv, OkRunsWriteWhole
<1>2. ASSUME NEW f \in Files, WriteFileNode(f) PROVE WholeInv'
  <2>1. /\ cur' = f /\ pc' = "symbols" /\ pc = "file" /\ todo' = todo \ {f}
        /\ trusted' = [trusted EXCEPT ![f] = NoText]
        /\ UNCHANGED <<symbols, edges, chunks, flags, walked, changed>>
        /\ \A g \in Files : g # f => heads'[g] = heads[g]
        /\ blemished \subseteq blemished'
    BY <1>2 DEF WriteFileNode
  <2>2. flags.overwrite => f \in blemished' \/ heads'[f] = SymbolHash(f, walked[f])
    BY <1>2 DEF WriteFileNode
  <2>3. OkRunsWriteWhole'
    BY <2>1 DEF WholeInv, OkRunsWriteWhole, Complete
  <2>4. ASSUME flags.overwrite, NEW g \in Files, Written(g)' PROVE (Excused(g) \/ Stored(g))'
    <3>1. Written(g) /\ g # f
      BY <2>1, <2>4 DEF Written, Writing
    <3>. QED BY <2>1, <2>4, <3>1, StoredStays DEF WholeInv
  <2>5. flags.overwrite => StoredSoFar'
    BY <2>1, <2>2 DEF StoredSoFar, Excused, Writing
  <2>. QED BY <2>1, <2>3, <2>4, <2>5 DEF WholeInv, Writing
<1>3. CASE WriteSymbols
  <2>1. /\ cur \in Files /\ pc = "symbols" /\ pc' \in {"remove", "embed"}
        /\ flags.overwrite => pc' = "remove"
        /\ UNCHANGED <<heads, chunks, edges, trusted, flags, walked, changed, todo, cur>>
        /\ symbols \subseteq symbols' /\ blemished \subseteq blemished'
    BY <1>3 DEF WriteSymbols, RunShape, Writing
  <2>2. cur \in blemished' \/ KeysOf(cur, walked[cur]) \subseteq symbols'
    BY <1>3 DEF WriteSymbols
  <2>3. ASSUME flags.overwrite, NEW g \in Files, Written(g)' PROVE (Excused(g) \/ Stored(g))'
    <3>1. Written(g)
      BY <2>1, <2>3 DEF Written, Writing
    <3>. QED BY <2>1, <2>3, <3>1, StoredStays DEF WholeInv
  <2>4. flags.overwrite => StoredSoFar'
    BY <2>1, <2>2 DEF StoredSoFar, Excused, Writing, WholeInv
  <2>. QED BY <1>1, <2>1, <2>3, <2>4 DEF WholeInv, Writing
<1>4. CASE RemoveStale
  <2>1. /\ cur \in Files /\ trusted[cur] = NoText /\ pc = "remove" /\ pc' = "embed"
        /\ UNCHANGED <<heads, symbols, edges, trusted, blemished, flags, walked, changed, todo, cur>>
        /\ chunks' = [chunks EXCEPT ![cur] = {}]
    BY <1>4 DEF RemoveStale, WholeInv, Writing, RunShape, historyVars
  <2>2. OkRunsWriteWhole'
    BY <2>1 DEF WholeInv, OkRunsWriteWhole, Complete
  <2>3. ASSUME flags.overwrite, NEW g \in Files, Written(g)' PROVE (Excused(g) \/ Stored(g))'
    <3>1. Written(g) /\ g # cur
      BY <2>1, <2>3 DEF Written, Writing
    <3>. QED BY <2>1, <2>3, <3>1, StoredStays DEF WholeInv
  <2>4. flags.overwrite => StoredSoFar'
    BY <2>1 DEF StoredSoFar, Excused, Writing, WholeInv
  <2>. QED BY <2>1, <2>2, <2>3, <2>4 DEF WholeInv, Writing
<1>5. CASE EmbedDocument
  <2>1. /\ cur \in Files /\ walked[cur] \in Texts /\ pc = "embed"
        /\ UNCHANGED <<heads, symbols, chunks, edges, trusted, blemished, flags, walked, changed, todo, cur>>
        /\ IF PiecesOf[walked[cur]] = 0 THEN pc' = "file" ELSE pc' = "chunks"
    BY <1>5 DEF EmbedDocument, Writing, RunShape, storeVars, historyVars
  <2>2. PiecesOf[walked[cur]] = 0 => Pieces(walked[cur]) = {}
    BY <2>1, NoPieces
  <2>3. ASSUME flags.overwrite, NEW g \in Files, Written(g)' PROVE (Excused(g) \/ Stored(g))'
    <3>1. CASE g = cur
      BY <2>1, <2>2, <2>3, <3>1 DEF Written, WholeInv, StoredSoFar, Excused, Stored, Writing
    <3>2. CASE g # cur
      <4>1. Written(g)
        BY <2>1, <2>3, <3>2 DEF Written, Writing
      <4>. QED BY <2>1, <2>3, <4>1, StoredStays DEF WholeInv
    <3>. QED BY <3>1, <3>2
  <2>4. flags.overwrite => StoredSoFar'
    BY <2>1 DEF StoredSoFar, Excused, Writing, WholeInv
  <2>. QED BY <1>1, <2>1, <2>3, <2>4 DEF WholeInv, Writing
<1>6. CASE WriteEnriched
  <2>1. /\ pc = "semantic" /\ pc' = "edges" /\ symbols \subseteq symbols'
        /\ UNCHANGED <<heads, chunks, edges, trusted, blemished, flags, walked, changed, todo, cur>>
    BY <1>6 DEF WriteEnriched, historyVars
  <2>2. ASSUME flags.overwrite, NEW g \in Files, Written(g)' PROVE (Excused(g) \/ Stored(g))'
    <3>1. Written(g)
      BY <2>1, <2>2 DEF Written
    <3>. QED BY <2>1, <2>2, <3>1, StoredStays DEF WholeInv
  <2>. QED BY <1>1, <2>1, <2>2 DEF WholeInv, StoredSoFar, Writing
<1>7. ASSUME UNCHANGED <<storeVars, trusted>>,
             \/ pc' \in {"idle", "walk"}
             \/ /\ UNCHANGED <<flags, walked, changed, blemished>>
                /\ \/ pc' = "file" /\ todo' = changed
                   \/ pc' = pc /\ pc \in {"semantic"}
                   \/ pc' \in {"semantic", "edges"} /\ pc \in {"semantic", "file"}
                        /\ (pc = "file" => todo = {})
                   \/ UNCHANGED <<pc, todo, cur>>
      PROVE  WholeInv'
  <2>1. UNCHANGED <<heads, symbols, enriched, chunks, vectors, edges, trusted>>
    BY <1>7 DEF storeVars
  <2>2. OkRunsWriteWhole'
    BY <1>1, <2>1
  <2>3. CASE pc' \in {"idle", "walk"}
    BY <2>2, <2>3 DEF WholeInv, Written, StoredSoFar, Writing
  <2>4. CASE pc' \notin {"idle", "walk"}
    <3>1. UNCHANGED <<flags, walked, changed, blemished>>
      BY <1>7, <2>4
    <3>2. ASSUME flags.overwrite, NEW g \in Files, Written(g)' PROVE (Excused(g) \/ Stored(g))'
      <4>1. Written(g)
        BY <1>7, <2>4, <3>1, <3>2 DEF Written, Writing
      <4>. QED BY <2>1, <3>1, <3>2, <4>1, StoredStays DEF WholeInv
    <3>3. CASE UNCHANGED <<pc, todo, cur>>
      BY <2>1, <2>2, <3>1, <3>2, <3>3 DEF WholeInv, StoredSoFar, Excused
    <3>4. CASE pc' \in {"file", "semantic", "edges"}
      BY <2>2, <3>1, <3>2, <3>4 DEF WholeInv, StoredSoFar, Writing
    <3>. QED BY <1>7, <2>4, <3>3, <3>4
  <2>. QED BY <2>3, <2>4
<1>8. \/ \E f \in Files : Purge(f) \/ WriteFileNode(f)
      \/ WriteSymbols \/ RemoveStale \/ EmbedDocument \/ InsertChunks \/ InsertEmbeddings
      \/ WriteEnriched \/ WriteEdges
      \/ /\ UNCHANGED <<storeVars, trusted>>
         /\ \/ pc' \in {"idle", "walk"}
            \/ /\ UNCHANGED <<flags, walked, changed, blemished>>
               /\ \/ pc' = "file" /\ todo' = changed
                  \/ pc' = pc /\ pc \in {"semantic"}
                  \/ pc' \in {"semantic", "edges"} /\ pc \in {"semantic", "file"}
                       /\ (pc = "file" => todo = {})
                  \/ UNCHANGED <<pc, todo, cur>>
  BY DEF Next, RunStep, NodePass, SemanticPass, Edit, StartIngest, WalkAndAnalyze, StartNodePass,
     EmbedderFails, Return, Interrupt, EndNodePass, SkipUnit, ServerFails, ExtractUnit,
     EnrichedWriteFails, storeVars, runVars, historyVars, vars
<1>. QED BY <1>2, <1>3, <1>4, <1>5, <1>6, <1>7, <1>8, PurgeKeepsWhole, EdgesKeepWhole,
            ChunksKeepWhole, VectorsKeepWhole

\* OkRunsWriteWhole holds of every behaviour, appending runs and language servers
\* included: what an overwriting run that returned Ok wrote for a file, none of
\* its nodes and edges refused, is all stored, and no later run, crash or edit
\* undoes it before the file is rewritten or purged.
THEOREM OkRunsAreWhole == Spec => []OkRunsWriteWhole
<1>1. WholeInv => OkRunsWriteWhole
  BY DEF WholeInv
<1>. QED BY <1>1, StepKeepsWhole, InitWhole, TypeInvariant, PTL DEF Spec
=============================================================================
