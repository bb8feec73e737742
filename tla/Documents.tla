----------------------------- MODULE Documents -----------------------------
(***************************************************************************)
(* The ingest verb: the documents of a tree, the graph their blocks        *)
(* declare, and the links from source files to the claims they name.       *)
(* Every insert is a transaction of its own; the tree may be edited and    *)
(* other writers may commit between any two of them.                       *)
(***************************************************************************)
EXTENDS DocumentStore

VARIABLE run  \* the run in progress; history in it: met, the texts it read, refused,
              \* a declared row the store refused, swept, nodes a sweep took

Idle == [pc |-> "idle", over |-> TRUE, embed |-> FALSE, offered |-> {}, at |-> 1,
         taken |-> {}, said |-> {}, met |-> {}, read |-> No, full |-> No, vec |-> FALSE,
         bad |-> FALSE, nodes |-> {}, links |-> {}, refused |-> FALSE, rejected |-> FALSE,
         swept |-> FALSE]
Steps == {"idle", "read", "convert", "node", "strip", "chunks", "vectors",
          "look", "declare", "stubs", "edges", "scan", "link"}

Runs == [pc : Steps, over : BOOLEAN, embed : BOOLEAN, offered : SUBSET DocSet,
         at : 1 .. Len(Docs) + 1, taken : SUBSET DocKeys, said : SUBSET Texts,
         met : SUBSET Texts, read : Texts \cup {No}, full : Texts \cup {No}, vec : BOOLEAN,
         bad : BOOLEAN, nodes : SUBSET Keys, links : SUBSET (Keys \X Keys), refused : BOOLEAN,
         rejected : BOOLEAN, swept : BOOLEAN]
DocTypeOK == run \in Runs

Begin ==
  /\ run.pc = "idle" /\ Spend("run")
  /\ \E over, embed \in BOOLEAN :
       run' = [Idle EXCEPT !.pc = "read", !.over = over, !.embed = embed,
                           !.offered = {d \in DocSet : tree[d] \notin {Gone, Hidden}}]
  /\ UNCHANGED <<tree, storeVars>>

File == Docs[run.at]
Doc == KeyOf(File)
NextFile(r) == [r EXCEPT !.pc = "read", !.at = @ + 1, !.read = No, !.full = No,
                         !.vec = FALSE, !.bad = FALSE]

(***************************************************************************)
(* The next file the walk offered: too large, its key taken, unreadable,   *)
(* or read.  Its blocks are kept before its hash is compared.              *)
(***************************************************************************)
Pass ==
  /\ run.pc = "read" /\ run.at <= Len(Docs)
  /\ \/ File \notin run.offered \/ Doc \in run.taken
     \/ tree[File] \in {Dark, Hidden, Gone}
  /\ \E took \in {{}, {Doc}} :   \* unreadable takes the key, too large does not
       /\ File \notin run.offered => took = {}
       /\ tree[File] \in {Hidden, Gone} /\ File \in run.offered => took = {Doc}
       /\ run' = [NextFile(run) EXCEPT !.taken = @ \cup took]
  /\ UNCHANGED <<outside, storeVars>>

\* Mutant: an unchanged file is skipped before its blocks are read.
ReadSkipsFirst ==
  /\ run.pc = "read" /\ run.at <= Len(Docs) /\ File \in run.offered /\ Doc \notin run.taken
  /\ LET t == tree[File]
         seen == [run EXCEPT !.taken = @ \cup {Doc}, !.met = @ \cup {t}]
     IN /\ t \in Texts
        /\ run' = IF rows[Doc].kind = "document" /\ rows[Doc].hash = t THEN NextFile(seen)
                  ELSE [seen EXCEPT !.pc = "convert", !.read = t, !.said = @ \cup {t}]
  /\ UNCHANGED <<outside, storeVars>>

Read ==
  /\ run.pc = "read" /\ run.at <= Len(Docs) /\ File \in run.offered /\ Doc \notin run.taken
  /\ LET t == tree[File]
         seen == [run EXCEPT !.taken = @ \cup {Doc}, !.said = @ \cup {t}, !.met = @ \cup {t}]
     IN /\ t \in Texts
        /\ run' = IF rows[Doc].kind = "document" /\ rows[Doc].hash = t THEN NextFile(seen)
                  ELSE [seen EXCEPT !.pc = "convert", !.read = t]
  /\ UNCHANGED <<outside, storeVars>>

\* A text extract_file converts to something to index, when it does not refuse
\* it: a format it knows, in UTF-8, that is not blank.
Converts(t) == t \in Texts /\ Pieces(t) > 0

(***************************************************************************)
(* The extractor opens the file again.  It may refuse it, and so may the   *)
(* spans of the late chunks; a text over the embedder's ceiling is kept    *)
(* without vectors.                                                        *)
(***************************************************************************)
Convert ==
  /\ run.pc = "convert"
  /\ LET t == tree[File] IN
     \/ run' = NextFile(run)
     \/ /\ Converts(t)
        /\ \E vec \in {FALSE, run.embed} : run' = [run EXCEPT !.pc = "node", !.full = t, !.vec = vec]
  /\ UNCHANGED <<outside, storeVars>>

\* The count of rejections is not looked at, so a refused node goes on.
PutNode ==
  /\ run.pc = "node"
  /\ \E lost \in Refusals({Doc}) :
       /\ rows' = InsertNodes({Doc} \ lost, [kind |-> "document", hash |-> run.read, text |-> run.full], run.over)
       /\ run' = [run EXCEPT !.pc = IF run.over THEN "strip" ELSE "chunks", !.bad = lost # {}]
       /\ Refuse(lost)
  /\ IF run.over \/ ~Exists(Doc)
       THEN UNCHANGED docHistory
       ELSE blemished' = blemished \cup {Doc} /\ appended' = appended \cup {Doc}
  /\ UNCHANGED <<tree, chunks, vectors, edges>>

Strip ==
  /\ run.pc = "strip"
  /\ RemoveChunks(Doc)
  /\ run' = [run EXCEPT !.pc = "chunks"]
  /\ UNCHANGED <<outside, rows, edges, blemished>>

\* Mutant: the run does not look at what the store refused.
GoesOnWhatever(landed) == TRUE

\* Rows that did not land end an overwriting run.  An appending one cannot tell
\* them from rows that were there, and goes on.
GoesOn(landed) == run.over => landed = Whole(run.full)

LosesSome(landed) == ~run.over /\ landed # Whole(run.full)

\* A document is excused, once its last row is in, when the run ended over it, went
\* on without a row of it or hashed another text; an overwriting run else makes it whole.
Settled(landed) ==
  IF run.bad \/ LosesSome(landed) \/ run.read # run.full \/ ~GoesOn(landed) THEN blemished \cup {Doc}
  ELSE IF run.over THEN blemished \ {Doc} ELSE blemished

PutChunks ==
  /\ run.pc = "chunks"
  /\ \E lost \in Refusals(Whole(run.full)) :
       LET landed == ChunksLanding(Doc, run.full, lost)
       IN  /\ chunks' = InsertChunks(Doc, run.full, landed, run.over)
           /\ run' = IF ~GoesOn(landed) THEN Idle
                     ELSE IF run.vec THEN [run EXCEPT !.pc = "vectors", !.bad = @ \/ LosesSome(landed)]
                     ELSE NextFile(run)
           /\ blemished' = IF run.vec /\ GoesOn(landed) THEN blemished ELSE Settled(landed)
           /\ Refuse(lost)
  /\ UNCHANGED <<tree, rows, vectors, edges, appended>>

PutVectors ==
  /\ run.pc = "vectors"
  /\ \E lost \in Refusals(Whole(run.full)) :
       LET landed == VectorsLanding(Doc, run.full, lost)
       IN  /\ vectors' = vectors \cup ({Doc} \X landed)
           /\ run' = IF GoesOn(landed) THEN NextFile(run) ELSE Idle
           /\ blemished' = Settled(landed)
           /\ Refuse(lost)
  /\ UNCHANGED <<tree, rows, chunks, edges, appended>>

\* Everything the documents of this run said.
Declared == UNION {NodesIn(t) : t \in run.said}
DeclaredEdges == UNION {EdgesIn(t) : t \in run.said}

EndWalk ==
  /\ run.pc = "read" /\ run.at > Len(Docs)
  /\ run' = [run EXCEPT !.pc = "look", !.taken = {}, !.offered = {}]
  /\ UNCHANGED <<outside, storeVars>>

\* A declaration of a key that holds code fuses onto it.
Look ==
  /\ run.pc = "look"
  /\ run' = [run EXCEPT !.pc = "declare",
                        !.nodes = {k \in Declared : rows[k].kind \in {"none", "document"}}]
  /\ UNCHANGED <<outside, storeVars>>

\* Nobody looks at the errors of this insert, nor of the next.
Declare ==
  /\ run.pc = "declare"
  /\ \E lost \in Refusals(run.nodes) :
       /\ rows' = InsertNodes(run.nodes \ lost, [kind |-> "document", hash |-> No, text |-> "block"], run.over)
       /\ run' = [run EXCEPT !.pc = "stubs", !.nodes = {}, !.refused = lost # {}]
       /\ Refuse(lost)
  /\ UNCHANGED <<tree, chunks, vectors, edges, docHistory>>

\* Endpoints nobody declared get a placeholder, never over a row.
Stubs ==
  /\ run.pc = "stubs"
  /\ LET ends == (UNION {{e[1], e[2]} : e \in DeclaredEdges}) \ Declared
     IN \E lost \in Refusals(ends) :
          /\ rows' = InsertNodes(ends \ lost, [kind |-> "document", hash |-> No, text |-> "stub"], FALSE)
          /\ run' = [run EXCEPT !.pc = "edges", !.refused = @ \/ lost # {}]
          /\ Refuse(lost)
  /\ UNCHANGED <<tree, chunks, vectors, edges, docHistory>>

\* Mutant: the rejections are not counted.
CountedNot(landed) == FALSE

\* edges_rejected: what did not land, and without overwrite what was there.
Counted(landed) ==
  landed # DeclaredEdges \/ (~run.over /\ DeclaredEdges \cap edges # {})

PutEdges ==
  /\ run.pc = "edges"
  /\ \E lost \in Refusals(DeclaredEdges) :
       LET landed == Attached(DeclaredEdges \ lost)
       IN  /\ edges' = edges \cup landed
           /\ run' = [run EXCEPT !.pc = "scan", !.refused = @ \/ lost # {}, !.rejected = Counted(landed)]
           /\ Refuse(lost)
  /\ UNCHANGED <<tree, rows, chunks, vectors, docHistory>>

\* scan_conforms: the slugs of the headers of one file.
Headers(t) == IF t \in Texts THEN ClaimsIn(t) ELSE {}

\* link_conforms: the headers of the source whose claim has a node.
Scan ==
  /\ run.pc = "scan"
  /\ LET slugs == {c \in Headers(tree[Source]) : Exists(c)}
     IN run' = [run EXCEPT !.pc = "link", !.links = {Source} \X slugs]
  /\ UNCHANGED <<outside, storeVars>>

Link ==
  /\ run.pc = "link"
  /\ \E lost \in Refusals(run.links) : edges' = edges \cup Attached(run.links \ lost) /\ Refuse(lost)
  /\ run' = Idle
  /\ UNCHANGED <<tree, rows, chunks, vectors, docHistory>>

\* The embedder or the store refuses the rest of the run, or it dies.
CutShort ==
  /\ run.pc # "idle"
  /\ run' = Idle
  /\ blemished' = IF run.pc \in {"strip", "chunks", "vectors"} THEN blemished \cup {Doc} ELSE blemished
  /\ UNCHANGED <<outside, rows, chunks, vectors, edges, appended>>

DocInit == run = Idle
DocNext ==
  \/ Begin \/ Pass \/ Read \/ Convert \/ PutNode \/ Strip \/ PutChunks
  \/ PutVectors \/ EndWalk \/ Look \/ Declare \/ Stubs \/ PutEdges \/ Scan \/ Link \/ CutShort
-----------------------------------------------------------------------------
Writing(k) == run.pc \in {"strip", "chunks", "vectors"} /\ Doc = k

\* The row, the chunks and the vectors of a document are those of its text.
WrittenWhole(k) ==
  /\ \A i \in Index : chunks[k][i] = IF i \in Whole(rows[k].text) THEN rows[k].text ELSE No
  /\ {v \in vectors : v[1] = k} \in {{}, {k} \X Whole(rows[k].text)}

(***************************************************************************)
(* A document that a run went past is whole: its chunks are those of its   *)
(* text, all of them and no others, and its vectors are all there or none, *)
(* across the later runs, batches, sweeps and faults.  Excused, until an   *)
(* overwriting run lands all of it, is one a run was cut inside, one with  *)
(* a row refused to a run, one added to without overwrite, and one         *)
(* converted from another text than was hashed.  An excused one that was   *)
(* not added to still holds pieces of one text only: the stale pieces went *)
(* before the new ones came.                                               *)
(***************************************************************************)
DocumentsAreWhole ==
  \A k \in DocKeys :
    /\ rows[k].text \in Texts /\ k \notin blemished /\ ~Writing(k) => WrittenWhole(k)
    /\ k \notin appended => \A i, j \in Index : No \notin {chunks[k][i], chunks[k][j]} =>
                              chunks[k][i] = chunks[k][j]

LandsOrCounts ==
  /\ run.rejected \/ UNION {EdgesIn(t) : t \in run.met} \subseteq edges'
  /\ run.over /\ run.rejected => run.refused

(***************************************************************************)
(* A run that ends has left every edge the files it read declare, skipped  *)
(* or not, whatever earlier runs were cut short or rejected, or it has     *)
(* counted a rejection ("or an edge the sink rejected, repair itself on    *)
(* the next run"); and an overwriting run counts none unless the store     *)
(* refused it a row.  A sweep that takes nodes meanwhile excuses both.     *)
(***************************************************************************)
DeclarationsLand == [][Link /\ ~run.swept => LandsOrCounts]_<<storeVars, run>>
=============================================================================
