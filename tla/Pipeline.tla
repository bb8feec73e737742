------------------------------ MODULE Pipeline ------------------------------
(***************************************************************************)
(* The library's document flow: Pipeline::process_batch extracts every     *)
(* document, then embeds and stores each; process_document does the same   *)
(* for one.  What fails for one document does not stop the next.           *)
(***************************************************************************)
EXTENDS Lifecycle

VARIABLE batch  \* the batch in progress

NoBatch == [pc |-> "idle", over |-> TRUE, at |-> 1, got |-> <<>>, vec |-> FALSE, failed |-> {}]

Batches == [pc : {"idle", "extract", "embed", "strip", "node", "chunks", "vectors"},
            over : BOOLEAN, at : 1 .. Len(Docs) + 1, got : Seq(Texts \cup {No}),
            vec : BOOLEAN, failed : SUBSET (1 .. Len(Docs))]
PipeTypeOK == batch \in Batches

\* A batch never meets the ingest verb's run on a graph: one writer of documents.
BeginBatch ==
  /\ batch.pc = "idle" /\ run.pc = "idle" /\ Spend("batch")
  /\ \E over \in BOOLEAN : batch' = [NoBatch EXCEPT !.pc = "extract", !.over = over]
  /\ UNCHANGED <<tree, storeVars>>

\* The extraction service, which may refuse any file, and does one with nothing in it.
Extracted(t) == IF Converts(t) THEN {t, No} ELSE {No}

\* Phase 1, one document: No for one that does not extract.
Extract ==
  /\ batch.pc = "extract"
  /\ IF Len(batch.got) = Len(Docs)
     THEN batch' = [batch EXCEPT !.pc = "embed"]
     ELSE \E got \in Extracted(tree[Docs[Len(batch.got) + 1]]) :
            batch' = [batch EXCEPT !.got = Append(@, got),
                                   !.failed = IF got = No THEN @ \cup {Len(batch.got) + 1} ELSE @]
  /\ UNCHANGED <<outside, storeVars>>

Key == KeyOf(Docs[batch.at])
Text == batch.got[batch.at]
Next1(b) == [b EXCEPT !.pc = "embed", !.at = @ + 1, !.vec = FALSE]
\* Mutant: the result is recorded after the batch moved on.
FailedNext(b) == [Next1(b) EXCEPT !.failed = @ \cup {b.at + 1}]

Failed(b) == [Next1(b) EXCEPT !.failed = @ \cup {b.at}]

\* Phase 2: the end of the batch, a document phase 1 failed, or its pass:
\* vectors, none over the ceiling, or an error of this document alone.
EmbedOne ==
  /\ batch.pc = "embed"
  /\ IF batch.at > Len(Docs) THEN batch' = NoBatch
     ELSE IF Text = No THEN batch' = Next1(batch)
     ELSE \/ batch' = Failed(batch)
          \/ \E vec \in BOOLEAN :
               batch' = [batch EXCEPT !.pc = IF batch.over THEN "strip" ELSE "node", !.vec = vec]
  /\ UNCHANGED <<outside, storeVars>>

StripOne ==
  /\ batch.pc = "strip"
  /\ RemoveChunks(Key)
  /\ batch' = [batch EXCEPT !.pc = "node"]
  /\ blemished' = blemished \cup {Key}
  /\ UNCHANGED <<outside, rows, edges>>

\* A count of errors is an error here: a row already there, without overwrite.
NodeOne ==
  /\ batch.pc = "node"
  /\ IF batch.over \/ ~Exists(Key)
     THEN /\ rows' = [rows EXCEPT ![Key] = [kind |-> "document", hash |-> No, text |-> Text]]
          /\ batch' = [batch EXCEPT !.pc = "chunks"]
          /\ blemished' = blemished \cup {Key}
     ELSE batch' = Failed(batch) /\ UNCHANGED <<rows, blemished>>
  /\ UNCHANGED <<outside, chunks, vectors, edges, appended>>

\* The rows that were not refused are in before the count is looked at.
ChunksOne ==
  /\ batch.pc = "chunks"
  /\ \E lost \in Refusals(Whole(Text)) :
       LET landed == ChunksLanding(Key, Text, lost)
       IN  /\ chunks' = InsertChunks(Key, Text, landed, batch.over)
           /\ batch' = IF landed # Whole(Text) THEN Failed(batch)
                       ELSE IF batch.vec THEN [batch EXCEPT !.pc = "vectors"] ELSE Next1(batch)
           /\ blemished' = IF landed # Whole(Text) \/ batch.vec THEN blemished ELSE blemished \ {Key}
           /\ Refuse(lost)
  /\ UNCHANGED <<tree, rows, vectors, edges, appended>>

VectorsOne ==
  /\ batch.pc = "vectors"
  /\ \E lost \in Refusals(Whole(Text)) :
       LET landed == VectorsLanding(Key, Text, lost)
       IN  /\ vectors' = vectors \cup ({Key} \X landed)
           /\ batch' = IF landed # Whole(Text) THEN Failed(batch) ELSE Next1(batch)
           /\ blemished' = IF landed # Whole(Text) THEN blemished ELSE blemished \ {Key}
           /\ Refuse(lost)
  /\ UNCHANGED <<tree, rows, chunks, edges, appended>>

\* The store refuses a call: this document fails and the next goes on.
StoreRefuses ==
  /\ batch.pc \in {"strip", "node", "chunks", "vectors"}
  /\ batch' = Failed(batch)
  /\ UNCHANGED <<outside, storeVars>>

BatchDies ==
  /\ batch.pc # "idle" /\ batch' = NoBatch
  /\ UNCHANGED <<outside, storeVars>>

PipeInit == batch = NoBatch
PipeNext ==
  \/ BeginBatch \/ Extract \/ EmbedOne \/ StripOne \/ NodeOne \/ ChunksOne \/ VectorsOne
  \/ StoreRefuses \/ BatchDies

-----------------------------------------------------------------------------
(* Everyone who writes the graph of a corpus                               *)

CorpusInit == StoreInit /\ DocInit /\ LifeInit /\ PipeInit
CorpusNext ==
  \/ batch.pc = "idle" /\ DocNext /\ UNCHANGED <<lifeVars, batch>>
  \/ LifeNext /\ UNCHANGED batch
  \/ PipeNext /\ UNCHANGED <<run, lifeVars>>
corpusVars == <<outside, storeVars, run, lifeVars, batch>>
CorpusSpec == CorpusInit /\ [][CorpusNext]_corpusVars

CorpusTypeOK == StoreTypeOK /\ DocTypeOK /\ LifeTypeOK /\ PipeTypeOK
=============================================================================
