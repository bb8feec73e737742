---------------------------- MODULE CorpusProofs ----------------------------
(***************************************************************************)
(* Theorems about the writers of a corpus and the sweeps beside them, for  *)
(* every tree of files, whatever their texts declare, and any number of    *)
(* edits, runs, batches, ingests and sweeps.                               *)
(***************************************************************************)
EXTENDS Pipeline, Integers, FiniteSetTheorems, TLAPS

-----------------------------------------------------------------------------
(* The sweeps                                                              *)

\* Only the symbol is a symbol, and without its file it was raced.
SymbolInv ==
  /\ DOMAIN rows = Keys /\ \A k \in Keys \ {Symbol} : rows[k].kind # "symbol"
  /\ (rows[Symbol].kind = "symbol" \/ code.pc = "symbols") /\ ~Exists(Source) => raced

\* What a sweep will take was not there when its walk passed, or hidden from it.
WalkInv ==
  /\ tree \in Trees
  /\ sweep.pc # "idle" => sweep.here \ sweep.hid \subseteq sweep.seen
  /\ sweep.pc = "sweep" => sweep.gone \cap (sweep.here \ sweep.hid) = {}

SweepInv == LifeTypeOK /\ SymbolInv /\ WalkInv

\* A writer of documents makes no code and takes no row away.
Documenting ==
  /\ DOMAIN rows' = Keys
  /\ \A k \in Keys : rows'[k] = rows[k] \/ rows'[k].kind = "document"

LEMMA KeysOfCode == Source \in Keys /\ Symbol \in Keys
BY DEF Keys

LEMMA DocumentingKeeps ==
  ASSUME SweepInv, Documenting, UNCHANGED <<tree, lifeVars>>
  PROVE  SweepInv'
<1>1. LifeTypeOK' /\ WalkInv'
  BY DEF SweepInv, LifeTypeOK, WalkInv, lifeVars
<1>2. SymbolInv'
  BY KeysOfCode DEF SweepInv, SymbolInv, Documenting, lifeVars, Exists
<1>. QED BY <1>1, <1>2 DEF SweepInv

LEMMA InsertingDocuments ==
  ASSUME DOMAIN rows = Keys, NEW row, row.kind = "document"
  PROVE  /\ \A k, over : rows' = InsertNode(k, row, over) => Documenting
         /\ \A keys, over : rows' = InsertNodes(keys, row, over) => Documenting
         /\ UNCHANGED rows => Documenting
BY DEF InsertNode, InsertNodes, Documenting

\* The ingest verb's run and the library's batch write documents.
Writer == DocNext \/ PipeNext

LEMMA WritersDocument ==
  ASSUME DOMAIN rows = Keys, Writer
  PROVE  Documenting /\ tree' = tree
<1> DEFINE document(h, t) == [kind |-> "document", hash |-> h, text |-> t]
<1>1. \A h, t : document(h, t).kind = "document"
  OBVIOUS
<1>2. tree' = tree
  BY DEF Writer, DocNext, Begin, Pass, Read, Convert, PutNode, Strip, PutChunks,
         PutVectors, EndWalk, Look, Declare, Stubs, PutEdges, Scan, Link, CutShort, outside,
         PipeNext, BeginBatch, Extract, EmbedOne, StripOne, NodeOne, ChunksOne, VectorsOne,
         StoreRefuses, BatchDies
<1>3. CASE UNCHANGED rows
  BY <1>2, <1>3 DEF Documenting
<1>4. CASE PutNode
  BY <1>1, <1>2, <1>4, InsertingDocuments DEF PutNode
<1>5. CASE Declare
  BY <1>1, <1>2, <1>5, InsertingDocuments DEF Declare
<1>6. CASE Stubs
  <2>1. PICK keys : rows' = InsertNodes(keys, document(No, "stub"), FALSE)
    BY <1>6 DEF Stubs
  <2>. QED BY <1>1, <1>2, <2>1, InsertingDocuments
<1>7. CASE NodeOne
  BY <1>2, <1>7 DEF NodeOne, Documenting
<1>. QED BY <1>2, <1>3, <1>4, <1>5, <1>6, <1>7
     DEF Writer, DocNext, Begin, Pass, Read, Convert, Strip, PutChunks, PutVectors,
         EndWalk, Look, PutEdges, Scan, Link, CutShort, storeVars,
         PipeNext, BeginBatch, Extract, EmbedOne, StripOne, ChunksOne, VectorsOne,
         StoreRefuses, BatchDies

\* The codebase ingest: the file before its symbols.
LEMMA CodeStep ==
  ASSUME SweepInv, ReadSource \/ WriteFile \/ WriteSymbols \/ CodeFails
  PROVE  SweepInv'
<1>1. /\ code \in [pc : {"idle", "file", "symbols"}, text : Texts \cup {No}]
      /\ sweep \in [pc : {"idle", "list", "sweep"}, seen : SUBSET {Source},
                    here : SUBSET {Source}, hid : SUBSET {Source}, gone : SUBSET {Source}]
      /\ raced \in BOOLEAN /\ DOMAIN rows = Keys
  BY DEF SweepInv, LifeTypeOK, SymbolInv
<1>2. tree' = tree /\ sweep' = sweep
  BY DEF ReadSource, WriteFile, WriteSymbols, CodeFails, outside
<1>3. code' \in [pc : {"idle", "file", "symbols"}, text : Texts \cup {No}]
  <2>1. CASE ReadSource
    BY <2>1 DEF ReadSource
  <2>2. CASE WriteFile
    BY <1>1, <2>2 DEF WriteFile
  <2>3. CASE WriteSymbols \/ CodeFails
    <3>1. code' = NoCode
      BY <2>3 DEF WriteSymbols, CodeFails
    <3>. QED BY <3>1 DEF NoCode
  <2>. QED BY <2>1, <2>2, <2>3
<1>4. LifeTypeOK' /\ WalkInv'
  <2>1. raced' \in BOOLEAN
    BY <1>1 DEF ReadSource, WriteFile, WriteSymbols, CodeFails
  <2>2. LifeTypeOK'
    BY <1>1, <1>2, <1>3, <2>1 DEF LifeTypeOK
  <2>3. WalkInv'
    BY <1>2 DEF SweepInv, WalkInv
  <2>. QED BY <2>2, <2>3
<1>5. SymbolInv'
  <2>1. CASE ReadSource \/ CodeFails
    <3>1. code'.pc # "symbols" /\ rows' = rows /\ raced' = raced
      BY <2>1 DEF ReadSource, CodeFails, NoCode, storeVars
    <3>. QED BY <3>1 DEF SweepInv, SymbolInv, Exists
  <2>2. CASE WriteFile
    <3>1. DOMAIN rows' = Keys /\ rows'[Source].kind = "file" /\ \A k \in Keys \ {Source} : rows'[k] = rows[k]
      BY <1>1, <2>2, KeysOfCode DEF WriteFile, InsertNode
    <3>. QED BY <3>1, KeysOfCode DEF SweepInv, SymbolInv, Exists
  <2>3. CASE WriteSymbols
    <3>1. /\ DOMAIN rows' = Keys /\ rows'[Symbol].kind = "symbol"
          /\ \A k \in Keys \ {Symbol} : rows'[k] = rows[k]
      BY <1>1, <2>3, KeysOfCode DEF WriteSymbols, InsertNode
    <3>2. code.pc = "symbols" /\ raced' = raced
      BY <2>3 DEF WriteSymbols
    <3>. QED BY <3>1, <3>2, KeysOfCode DEF SweepInv, SymbolInv, Exists
  <2>. QED BY <2>1, <2>2, <2>3
<1>. QED BY <1>4, <1>5 DEF SweepInv

\* The tree changes under everyone; a walk sees what is there.
LEMMA WalkStep ==
  ASSUME SweepInv, (\E f \in Files : Edit(f)) \/ WalkTree \/ ListStored \/ SweepFails
  PROVE  SweepInv'
<1>1. /\ sweep \in [pc : {"idle", "list", "sweep"}, seen : SUBSET {Source},
                    here : SUBSET {Source}, hid : SUBSET {Source}, gone : SUBSET {Source}]
      /\ tree \in Trees /\ Source \in Files
  BY DEF SweepInv, LifeTypeOK, WalkInv, Files
<1>2. UNCHANGED <<rows, code, raced>>
  BY DEF Edit, WalkTree, ListStored, SweepFails, storeVars
<1>3. SymbolInv'
  BY <1>2 DEF SweepInv, SymbolInv, Exists
<1>4. CASE \E f \in Files : Edit(f)
  <2>1. tree' \in Trees /\ sweep' = sweep
    BY <1>1, <1>4 DEF Edit, Trees
  <2>. QED BY <1>2, <1>3, <2>1 DEF SweepInv, LifeTypeOK, WalkInv
<1>5. CASE WalkTree
  <2>1. /\ Present \ Unentered \subseteq Walked
        /\ Walked \in SUBSET {Source} /\ Present \in SUBSET {Source} /\ Unentered \in SUBSET {Source}
    BY <1>1 DEF Present, Unentered, Walked, Trees
  <2>2. /\ sweep' = [pc |-> "list", seen |-> Walked, here |-> Present, hid |-> Unentered, gone |-> {}]
        /\ tree' = tree
    BY <1>5 DEF WalkTree
  <2>. QED BY <1>1, <1>2, <1>3, <2>1, <2>2 DEF SweepInv, LifeTypeOK, WalkInv
<1>6. CASE ListStored
  <2> DEFINE gone == {f \in {Source} : rows[f].kind = "file"} \ sweep.seen
  <2>1. gone \in SUBSET {Source} /\ gone \cap sweep.seen = {}
    OBVIOUS
  <2>2. sweep' = (IF gone = {} THEN NoSweep ELSE [sweep EXCEPT !.pc = "sweep", !.gone = gone]) /\ tree' = tree
    BY <1>6 DEF ListStored, outside
  <2>3. sweep.here \ sweep.hid \subseteq sweep.seen
    BY <1>6 DEF SweepInv, WalkInv, ListStored
  <2> HIDE DEF gone
  <2>. QED BY <1>1, <1>2, <1>3, <2>1, <2>2, <2>3 DEF SweepInv, LifeTypeOK, WalkInv, NoSweep
<1>7. CASE SweepFails
  BY <1>1, <1>2, <1>3, <1>7 DEF SweepFails, SweepInv, LifeTypeOK, WalkInv, NoSweep, outside
<1>. QED BY <1>4, <1>5, <1>6, <1>7

\* A symbol goes with its file, or raced it.
LEMMA SweepStep ==
  ASSUME SweepInv, Retire \/ Prune
  PROVE  SweepInv'
<1>1. /\ sweep \in [pc : {"idle", "list", "sweep"}, seen : SUBSET {Source},
                    here : SUBSET {Source}, hid : SUBSET {Source}, gone : SUBSET {Source}]
      /\ raced \in BOOLEAN /\ DOMAIN rows = Keys
  BY DEF SweepInv, LifeTypeOK, SymbolInv
<1>2. PICK taken \in SUBSET Keys : Sweep(taken) /\ taken \in {Family(sweep.gone), Orphans}
  <2>1. Family(sweep.gone) \subseteq Keys /\ Orphans \subseteq Keys
    BY DEF Family, Orphans
  <2>. QED BY <2>1 DEF Retire, Prune
<1>3. /\ \A k \in Keys : rows'[k] = IF k \in taken THEN NoRow ELSE rows[k]
      /\ DOMAIN rows' = Keys
  BY <1>2 DEF Sweep, DeleteNodes
<1>4. /\ UNCHANGED <<code, tree>> /\ raced' \in BOOLEAN
      /\ raced' <=> (\/ Source \in taken /\ code.pc = "symbols"
                     \/ raced /\ (code.pc = "symbols" \/ (Symbol \notin taken /\ Exists(Symbol))))
  BY <1>2 DEF Sweep
<1>5. sweep' \in {sweep, NoSweep}
  BY DEF Retire, Prune
<1>6. LifeTypeOK' /\ WalkInv'
  BY <1>1, <1>4, <1>5 DEF SweepInv, LifeTypeOK, WalkInv, NoSweep
<1>7. SymbolInv'
  <2>1. \A k \in Keys \ {Symbol} : rows'[k].kind # "symbol"
    BY <1>3 DEF SweepInv, SymbolInv, NoRow
  <2>2. ASSUME rows'[Symbol].kind = "symbol" \/ code.pc = "symbols", rows'[Source].kind = "none"
        PROVE  raced'
    <3>1. CASE code.pc = "symbols"
      BY <1>3, <1>4, <2>2, <3>1, KeysOfCode DEF SweepInv, SymbolInv, Exists
    <3>2. CASE code.pc # "symbols"
      <4>1. Symbol \notin taken /\ rows[Symbol].kind = "symbol"
        BY <1>3, <2>2, <3>2, KeysOfCode DEF NoRow
      <4>2. CASE Source \in taken
        <5>1. taken = Family(sweep.gone) /\ Source \in sweep.gone
          BY <1>1, <1>2, <4>1, <4>2, KeysOfCode DEF Family, Orphans, SweepInv, SymbolInv
        <5>. QED BY <4>1, <5>1, KeysOfCode DEF Family, Exists
      <4>3. CASE Source \notin taken
        BY <1>3, <1>4, <2>2, <4>1, <4>3, KeysOfCode DEF SweepInv, SymbolInv, Exists
      <4>. QED BY <4>2, <4>3
    <3>. QED BY <3>1, <3>2
  <2>. QED BY <1>3, <1>4, <2>1, <2>2 DEF SymbolInv, Exists
<1>. QED BY <1>6, <1>7 DEF SweepInv

THEOREM SweepInvariant == CorpusSpec => []SweepInv
<1>1. CorpusInit => SweepInv
  <2> SUFFICES ASSUME CorpusInit PROVE SweepInv
    OBVIOUS
  <2>1. PICK s \in Scenarios : tree = s.tree
    BY DEF CorpusInit, StoreInit
  <2>2. tree \in Trees
    BY <2>1, ScenariosAssumption
  <2>3. LifeTypeOK /\ WalkInv
    BY <2>2 DEF CorpusInit, LifeInit, NoCode, NoSweep, LifeTypeOK, WalkInv
  <2>4. SymbolInv
    BY KeysOfCode DEF CorpusInit, StoreInit, LifeInit, NoCode, NoRow, SymbolInv
  <2>. QED BY <2>3, <2>4 DEF SweepInv
<1>2. SweepInv /\ [CorpusNext]_corpusVars => SweepInv'
  <2> SUFFICES ASSUME SweepInv, [CorpusNext]_corpusVars PROVE SweepInv'
    OBVIOUS
  <2>1. CASE Writer /\ UNCHANGED lifeVars
    <3>1. DOMAIN rows = Keys
      BY DEF SweepInv, SymbolInv
    <3>2. Documenting /\ tree' = tree
      BY <2>1, <3>1, WritersDocument
    <3>. QED BY <2>1, <3>2, DocumentingKeeps
  <2>2. CASE LifeNext
    BY <2>2, CodeStep, WalkStep, SweepStep DEF LifeNext
  <2>3. CASE UNCHANGED corpusVars
    BY <2>3 DEF corpusVars, outside, storeVars, lifeVars, SweepInv, LifeTypeOK, SymbolInv, WalkInv, Exists
  <2>. QED BY <2>1, <2>2, <2>3 DEF CorpusNext, Writer, lifeVars
<1>. QED BY <1>1, <1>2, PTL DEF CorpusSpec

\* A symbol is left without its file only when a sweep fell between the two
\* transactions of the ingest that was writing it (retire and prune, and the
\* file's node committed before its symbols).
THEOREM OrphansWereRaced == CorpusSpec => []OrphansAreRaced
<1>1. SweepInv => OrphansAreRaced
  BY DEF SweepInv, SymbolInv, OrphansAreRaced
<1>. QED BY <1>1, SweepInvariant, PTL

\* Who takes rows away takes none that was there for the walk, and a symbol
\* only with its file.
LEMMA Sparing ==
  ASSUME SweepInv, CorpusNext, NEW k \in Keys, Exists(k), ~Exists(k)'
  PROVE  IF k = Symbol THEN ~Exists(Source)' ELSE k \notin sweep.here \ sweep.hid
<1>1. rows[k].kind # "none" /\ rows'[k].kind = "none" /\ DOMAIN rows = Keys
  BY DEF Exists, SweepInv, SymbolInv
<1>2. CASE Writer
  BY <1>1, <1>2, WritersDocument DEF Documenting
<1>3. CASE WriteFile \/ WriteSymbols
  <2>1. rows'[k] = rows[k] \/ rows'[k].kind \in {"file", "symbol"}
    BY <1>1, <1>3, KeysOfCode DEF WriteFile, WriteSymbols, InsertNode
  <2>. QED BY <1>1, <2>1
<1>4. CASE UNCHANGED rows
  BY <1>1, <1>4
<1>5. CASE Retire \/ Prune
  <2>1. PICK taken \in SUBSET Keys :
          /\ Sweep(taken)
          /\ (taken = Family(sweep.gone) /\ sweep.pc = "sweep") \/ taken = Orphans
    <3>1. Family(sweep.gone) \subseteq Keys /\ Orphans \subseteq Keys
      BY DEF Family, Orphans
    <3>. QED BY <1>5, <3>1 DEF Retire, Prune
  <2>2. \A j \in Keys : rows'[j] = IF j \in taken THEN NoRow ELSE rows[j]
    BY <2>1 DEF Sweep, DeleteNodes
  <2>3. k \in taken /\ NoRow.kind = "none"
    BY <1>1, <2>2 DEF NoRow
  <2>4. sweep.gone \subseteq {Source}
    BY DEF SweepInv, LifeTypeOK
  <2>5. CASE taken = Orphans
    BY <2>2, <2>3, <2>5, KeysOfCode DEF Orphans, SweepInv, SymbolInv, Exists
  <2>6. CASE taken = Family(sweep.gone) /\ sweep.pc = "sweep"
    <3>1. sweep.gone \cap (sweep.here \ sweep.hid) = {}
      BY <2>6 DEF SweepInv, WalkInv
    <3>2. k \in sweep.gone \/ (k = Symbol /\ Source \in sweep.gone)
      BY <2>3, <2>6 DEF Family, SweepInv, SymbolInv
    <3>3. Source \in sweep.gone => ~Exists(Source)'
      BY <2>2, <2>3, <2>6, KeysOfCode DEF Family, Exists
    <3>. QED BY <2>4, <3>1, <3>2, <3>3
  <2>. QED BY <2>1, <2>5, <2>6
<1>. QED BY <1>2, <1>3, <1>4, <1>5
     DEF CorpusNext, Writer, LifeNext, Edit, ReadSource, CodeFails, WalkTree, ListStored, SweepFails, storeVars

\* A sweep takes no file that was there when its walk passed, unassessable or
\* not, save one in a directory the walk could not enter, and nothing of a file
\* the graph still holds (retire's walk, and its one DELETE).
THEOREM SweepsSpare == CorpusSpec => SweepsSpareThePresent
<1>1. SweepInv /\ [CorpusNext]_corpusVars =>
        [\A k \in Keys : Exists(k) /\ ~Exists(k)' =>
           IF k = Symbol THEN ~Exists(Source)' ELSE k \notin sweep.here \ sweep.hid]_<<storeVars, run, lifeVars>>
  BY Sparing DEF corpusVars
<1>. QED BY <1>1, SweepInvariant, PTL DEF CorpusSpec, SweepsSpareThePresent

-----------------------------------------------------------------------------
(* The declarations                                                        *)

\* A run is a record of these fields, whatever they hold.
Names == {"pc", "over", "embed", "offered", "at", "taken", "said", "met", "read", "full",
          "vec", "bad", "nodes", "links", "refused", "rejected", "swept"}
RunRecord == run = [f \in Names |-> run[f]]

\* What a run has said it has met, and until a sweep takes nodes or the store
\* refuses a row it stands as the step requires: the declared nodes, the ends of
\* the edges.  The edges stand, or are counted.
Standing ==
  /\ run.pc = "declare" => \A k \in Declared : k \in run.nodes \/ Exists(k)
  /\ run.pc = "stubs" /\ ~run.refused => \A k \in Declared : Exists(k)
  /\ run.pc = "edges" /\ ~run.refused => \A e \in DeclaredEdges : Exists(e[1]) /\ Exists(e[2])
  /\ run.pc \in {"scan", "link"} => /\ run.rejected \/ DeclaredEdges \subseteq edges
                                    /\ run.over /\ run.rejected => run.refused
LandInv ==
  /\ RunRecord /\ run.said \subseteq Texts /\ run.met = run.said
  /\ ~run.swept => Standing
Late == {"declare", "stubs", "edges", "scan", "link"}

\* Nothing is taken away.
Growing == (\A k \in Keys : Exists(k) => Exists(k)') /\ edges \subseteq edges'

LEMMA DeclaredKeys ==
  ASSUME run.said \subseteq Texts
  PROVE  Declared \subseteq Keys /\ DeclaredEdges \subseteq Keys \X Keys
BY BlocksAssumption DEF Declared, DeclaredEdges

LEMMA Begins ==
  ASSUME run' = Idle
  PROVE  LandInv'
<1>1. RunRecord'
  BY DEF RunRecord, Idle, Names
<1>2. run'.pc = "idle" /\ run'.said = {} /\ run'.met = {}
  BY DEF Idle
<1>. QED BY <1>1, <1>2 DEF LandInv, Standing

LEMMA WritersGrow ==
  ASSUME DOMAIN rows = Keys, Writer
  PROVE  Growing
<1>1. Documenting
  BY WritersDocument
<1>2. edges \subseteq edges'
  BY DEF Writer, DocNext, Begin, Pass, Read, Convert, PutNode, Strip, PutChunks,
         PutVectors, EndWalk, Look, Declare, Stubs, PutEdges, Scan, Link, CutShort, storeVars, RemoveChunks,
         PipeNext, BeginBatch, Extract, EmbedOne, StripOne, NodeOne, ChunksOne, VectorsOne,
         StoreRefuses, BatchDies
<1>. QED BY <1>1, <1>2 DEF Growing, Documenting, Exists

LEMMA OthersGrow ==
  ASSUME DOMAIN rows = Keys,
         (\E f \in Files : Edit(f)) \/ ReadSource \/ WriteFile \/ WriteSymbols \/ CodeFails
           \/ WalkTree \/ ListStored \/ SweepFails
  PROVE  Growing /\ run' = run
<1>1. run' = run /\ edges' = edges
  BY DEF Edit, ReadSource, WriteFile, WriteSymbols, CodeFails, WalkTree, ListStored, SweepFails, storeVars
<1>2. \A k \in Keys : rows'[k] = rows[k] \/ rows'[k].kind \in {"file", "symbol"}
  BY KeysOfCode DEF Edit, ReadSource, WriteFile, WriteSymbols, CodeFails, WalkTree, ListStored, SweepFails,
       storeVars, InsertNode
<1>. QED BY <1>1, <1>2 DEF Growing, Exists

\* A step that leaves the run alone and takes nothing away.
LEMMA GrowingKeeps ==
  ASSUME LandInv, run' = run, Growing
  PROVE  LandInv'
<1>1. Declared' = Declared /\ DeclaredEdges' = DeclaredEdges
  BY DEF Declared, DeclaredEdges
<1>2. Declared \subseteq Keys /\ DeclaredEdges \subseteq Keys \X Keys
  BY DeclaredKeys DEF LandInv
<1>3. Standing => Standing'
  <2>1. \A e \in DeclaredEdges : e[1] \in Keys /\ e[2] \in Keys
    BY <1>2
  <2>. QED BY <1>1, <1>2, <2>1 DEF Standing, Growing
<1>. QED BY <1>3 DEF LandInv, RunRecord

\* A sweep takes nothing, or says so, or comes before the run has looked.
LEMMA SweepLands ==
  ASSUME LandInv, DOMAIN rows = Keys, Retire \/ Prune
  PROVE  LandInv'
<1>1. PICK taken \in SUBSET Keys : Sweep(taken)
  <2>1. Family(sweep.gone) \subseteq Keys /\ Orphans \subseteq Keys
    BY DEF Family, Orphans
  <2>. QED BY <2>1 DEF Retire, Prune
<1> DEFINE swept == run.swept \/ (taken # {} /\ run.pc \in Late)
<1>2. run' = [run EXCEPT !.swept = swept]
  BY <1>1 DEF Sweep, Late
<1>3. swept <=> (run.swept \/ (taken # {} /\ run.pc \in Late))
  OBVIOUS
<1> HIDE DEF swept
<1>4. /\ RunRecord' /\ run'.pc = run.pc /\ run'.said = run.said /\ run'.met = run.met
      /\ run'.nodes = run.nodes /\ run'.swept = swept
      /\ run'.refused = run.refused /\ run'.rejected = run.rejected /\ run'.over = run.over
  BY <1>2 DEF LandInv, RunRecord, Names
<1>5. Declared' = Declared /\ DeclaredEdges' = DeclaredEdges
  BY <1>4 DEF Declared, DeclaredEdges
<1>6. ASSUME ~swept, Standing PROVE Standing'
  <2>1. CASE run.pc \notin Late
    BY <1>4, <2>1 DEF Standing, Late
  <2>2. CASE taken = {}
    <3>1. rows' = [k \in Keys |-> rows[k]] /\ edges' = edges
      BY <1>1, <2>2 DEF Sweep, DeleteNodes
    <3>2. \A k \in Keys : rows'[k] = rows[k]
      BY <3>1
    <3>3. \A e \in DeclaredEdges : e[1] \in Keys /\ e[2] \in Keys
      BY DeclaredKeys DEF LandInv
    <3>4. Declared \subseteq Keys
      BY DeclaredKeys DEF LandInv
    <3>. QED BY <1>4, <1>5, <1>6, <3>1, <3>2, <3>3, <3>4 DEF Standing, Exists
  <2>. QED BY <1>3, <1>6, <2>1, <2>2
<1>7. ~swept => ~run.swept
  BY <1>3
<1>. QED BY <1>4, <1>6, <1>7 DEF LandInv

\* The walk over the documents: what is read is met and said.
LEMMA ReadingLands ==
  ASSUME LandInv, Begin \/ Pass \/ Read \/ Convert \/ PutNode \/ Strip \/ PutChunks
                    \/ PutVectors \/ EndWalk
  PROVE  LandInv'
<1>1. RunRecord
  BY DEF LandInv
<1> DEFINE Same == run'.said = run.said /\ run'.met = run.met
           text == tree[File]
<1>2. Begin => RunRecord' /\ run'.pc \notin Late /\ run'.said = {} /\ run'.met = {}
  <2> SUFFICES ASSUME Begin PROVE RunRecord' /\ run'.pc \notin Late /\ run'.said = {} /\ run'.met = {}
    OBVIOUS
  <2>1. PICK over, embed, offered :
          run' = [Idle EXCEPT !.pc = "read", !.over = over, !.embed = embed, !.offered = offered]
    BY DEF Begin
  <2>. QED BY <2>1 DEF RunRecord, Idle, Late, Names
<1>3. Read => /\ RunRecord' /\ run'.pc \notin Late /\ text \in Texts
              /\ run'.said = run.said \cup {text} /\ run'.met = run.met \cup {text}
  BY <1>1 DEF RunRecord, Read, NextFile, Late, Names
<1>4. Pass => RunRecord' /\ run'.pc \notin Late /\ Same
  BY <1>1 DEF RunRecord, Pass, NextFile, Late, Names
<1>5. Convert => RunRecord' /\ run'.pc \notin Late /\ Same
  BY <1>1 DEF RunRecord, Convert, NextFile, Late, Names
<1>6. PutNode => RunRecord' /\ run'.pc \notin Late /\ Same
  BY <1>1 DEF RunRecord, PutNode, NextFile, Late, Names
<1>7. Strip => RunRecord' /\ run'.pc \notin Late /\ Same
  BY <1>1 DEF RunRecord, Strip, Late, Names
<1>8. PutChunks /\ run' # Idle => RunRecord' /\ run'.pc \notin Late /\ Same
  BY <1>1 DEF RunRecord, PutChunks, NextFile, Late, Names
<1>9. PutVectors /\ run' # Idle => RunRecord' /\ run'.pc \notin Late /\ Same
  BY <1>1 DEF RunRecord, PutVectors, NextFile, Late, Names
<1>10. EndWalk => RunRecord' /\ run'.pc \notin Late /\ Same
  BY <1>1 DEF RunRecord, EndWalk, Late, Names
<1>11. run'.pc \notin Late => Standing'
  BY DEF Standing, Late
<1>12. CASE run' = Idle
  BY <1>12, Begins
<1>. QED BY <1>2, <1>3, <1>4, <1>5, <1>6, <1>7, <1>8, <1>9, <1>10, <1>11, <1>12 DEF LandInv

\* The declarations, in the order in which each rests on the one before.
LEMMA WritingLands ==
  ASSUME LandInv, DOMAIN rows = Keys, Look \/ Declare \/ Stubs \/ PutEdges \/ Scan
  PROVE  LandInv'
<1>1. RunRecord
  BY DEF LandInv
<1> DEFINE Same == /\ run'.said = run.said /\ run'.met = run.met /\ run'.swept = run.swept
                   /\ run'.over = run.over /\ (run.refused => run'.refused \/ run.pc = "declare")
           known == {k \in Declared : rows[k].kind \in {"none", "document"}}
<1>2. Look => RunRecord' /\ Same /\ run'.pc = "declare" /\ run'.nodes = known /\ rows' = rows
  BY <1>1 DEF RunRecord, Look, Names, storeVars
<1>3. Declare => RunRecord' /\ Same /\ run.pc = "declare" /\ run'.pc = "stubs"
  BY <1>1 DEF RunRecord, Declare, Names
<1>4. Stubs => RunRecord' /\ Same /\ run.pc = "stubs" /\ run'.pc = "edges"
  BY <1>1 DEF RunRecord, Stubs, Names
<1>5. PutEdges => RunRecord' /\ Same /\ run.pc = "edges" /\ run'.pc = "scan"
  BY <1>1 DEF RunRecord, PutEdges, Names
<1>6. Scan => /\ RunRecord' /\ Same /\ run.pc = "scan" /\ run'.pc = "link" /\ edges' = edges
              /\ run'.refused = run.refused /\ run'.rejected = run.rejected
  BY <1>1 DEF RunRecord, Scan, Names, storeVars
<1>7. Same
  BY <1>2, <1>3, <1>4, <1>5, <1>6
<1>8. Declared' = Declared /\ DeclaredEdges' = DeclaredEdges
  BY <1>7 DEF Declared, DeclaredEdges
<1>9. /\ Declared \subseteq Keys /\ DeclaredEdges \subseteq Keys \X Keys
      /\ \A k \in Keys : Exists(k) => Exists(k)'
  <2>1. Writer
    BY DEF Writer, DocNext
  <2>. QED BY <2>1, DeclaredKeys, WritersGrow DEF LandInv, Growing
<1>10. ASSUME Standing PROVE Standing'
  <2>1. CASE Look
    BY <1>2, <1>8, <2>1 DEF Standing, Exists
  <2>2. CASE Declare
    <3>1. PICK lost \in Refusals(run.nodes) :
            /\ rows' = InsertNodes(run.nodes \ lost, [kind |-> "document", hash |-> No, text |-> "block"], run.over)
            /\ run' = [run EXCEPT !.pc = "stubs", !.nodes = {}, !.refused = lost # {}]
      BY <2>2 DEF Declare
    <3>2. ~run'.refused => lost = {}
      BY <1>1, <3>1 DEF RunRecord, Names
    <3>3. lost = {} => \A k \in run.nodes : k \in Keys => Exists(k)'
      BY <3>1 DEF InsertNodes, Exists
    <3>. QED BY <1>3, <1>8, <1>9, <1>10, <2>2, <3>2, <3>3 DEF Standing
  <2>3. CASE Stubs
    <3>1. \A e \in DeclaredEdges : {e[1], e[2]} \subseteq Keys
      BY <1>9
    <3> DEFINE ends == (UNION {{e[1], e[2]} : e \in DeclaredEdges}) \ Declared
    <3>5. PICK lost \in Refusals(ends) :
            /\ rows' = InsertNodes(ends \ lost, [kind |-> "document", hash |-> No, text |-> "stub"], FALSE)
            /\ run' = [run EXCEPT !.pc = "edges", !.refused = @ \/ lost # {}]
      BY <2>3 DEF Stubs
    <3>6. ~run'.refused => lost = {} /\ ~run.refused
      BY <1>1, <3>5 DEF RunRecord, Names
    <3>2. lost = {} => \A k \in ends : k \in Keys => Exists(k)'
      BY <3>5 DEF InsertNodes, Exists
    <3>3. \A e \in DeclaredEdges : \A k \in {e[1], e[2]} : k \in ends \/ k \in Declared
      OBVIOUS
    <3>4. ~run.refused => \A k \in Declared : Exists(k)'
      BY <1>4, <1>9, <1>10, <2>3 DEF Standing
    <3> HIDE DEF ends
    <3>. QED BY <1>4, <1>8, <2>3, <3>1, <3>2, <3>3, <3>4, <3>6 DEF Standing
  <2>4. CASE PutEdges
    <3>1. PICK lost \in Refusals(DeclaredEdges) :
            LET landed == Attached(DeclaredEdges \ lost)
            IN  /\ edges' = edges \cup landed
                /\ run' = [run EXCEPT !.pc = "scan", !.refused = @ \/ lost # {}, !.rejected = Counted(landed)]
      BY <2>4 DEF PutEdges
    <3> DEFINE landed == Attached(DeclaredEdges \ lost)
    <3>2. /\ run'.rejected = Counted(landed) /\ run'.over = run.over
          /\ ~run'.refused => lost = {} /\ ~run.refused
      BY <1>1, <3>1 DEF RunRecord, Names
    <3>3. landed = DeclaredEdges \/ Counted(landed)
      BY DEF Counted
    <3>4. lost = {} /\ ~run.refused => landed = DeclaredEdges
      BY <1>5, <1>10, <2>4 DEF Attached, Standing
    <3>5. landed = DeclaredEdges /\ run.over => ~Counted(landed)
      BY DEF Counted
    <3>6. landed \subseteq edges'
      BY <3>1
    <3> HIDE DEF landed
    <3>. QED BY <1>5, <1>8, <2>4, <3>2, <3>3, <3>4, <3>5, <3>6 DEF Standing
  <2>5. CASE Scan
    BY <1>6, <1>8, <1>10, <2>5 DEF Standing
  <2>. QED BY <2>1, <2>2, <2>3, <2>4, <2>5
<1>. QED BY <1>2, <1>3, <1>4, <1>5, <1>6, <1>10 DEF LandInv

THEOREM LandInvariant == CorpusSpec => [](SweepInv /\ LandInv)
<1>1. CorpusInit => LandInv
  <2> SUFFICES ASSUME CorpusInit PROVE LandInv
    OBVIOUS
  <2>1. run = Idle
    BY DEF CorpusInit, DocInit
  <2>. QED BY <2>1 DEF LandInv, RunRecord, Names, Idle, Standing
<1>2. SweepInv /\ LandInv /\ [CorpusNext]_corpusVars => LandInv'
  <2> SUFFICES ASSUME SweepInv, LandInv, [CorpusNext]_corpusVars PROVE LandInv'
    OBVIOUS
  <2>1. DOMAIN rows = Keys
    BY DEF SweepInv, SymbolInv
  <2>2. CASE PipeNext /\ UNCHANGED run
    BY <2>1, <2>2, WritersGrow, GrowingKeeps DEF Writer
  <2>3. CASE LifeNext
    BY <2>1, <2>3, OthersGrow, GrowingKeeps, SweepLands DEF LifeNext
  <2>4. CASE Link \/ CutShort
    BY <2>4, Begins DEF Link, CutShort
  <2>5. CASE DocNext
    BY <2>1, <2>4, <2>5, ReadingLands, WritingLands DEF DocNext
  <2>6. CASE UNCHANGED corpusVars
    <3>1. run' = run /\ Growing
      BY <2>6 DEF corpusVars, storeVars, outside, Growing, Exists
    <3>. QED BY <3>1, GrowingKeeps
  <2>. QED BY <2>2, <2>3, <2>5, <2>6 DEF CorpusNext
<1>. QED BY <1>1, <1>2, SweepInvariant, PTL DEF CorpusSpec

\* A run that ends has left every edge the files it read declare, skipped or
\* not, or counted a rejection, and an overwriting one counts none unless the
\* store refused it a row or a sweep took nodes meanwhile (write_declared after
\* the walk, and insert_edges whose errors become edges_rejected).
THEOREM DeclaredEdgesLand == CorpusSpec => DeclarationsLand
<1>1. SweepInv /\ LandInv => [Link /\ ~run.swept => LandsOrCounts]_<<storeVars, run>>
  <2> SUFFICES ASSUME LandInv, Link, ~run.swept PROVE LandsOrCounts
    OBVIOUS
  <2>1. edges \subseteq edges'
    BY DEF Link
  <2>2. /\ run.rejected \/ DeclaredEdges \subseteq edges
        /\ run.over /\ run.rejected => run.refused
    BY DEF LandInv, Standing, Link
  <2>3. DeclaredEdges = UNION {EdgesIn(t) : t \in run.met}
    BY DEF LandInv, DeclaredEdges
  <2>. QED BY <2>1, <2>2, <2>3 DEF LandsOrCounts
<1>. QED BY <1>1, LandInvariant, PTL DEF DeclarationsLand

-----------------------------------------------------------------------------
(* The types                                                               *)

\* What is known of a run by the step it is at.
Held == {"convert", "node", "strip", "chunks", "vectors"}
RunInv ==
  /\ run.pc \in Held => run.at \in DOMAIN Docs /\ run.read \in Texts
  /\ run.pc \in Held \ {"convert"} => run.full \in Texts

\* What is known of a batch by the step it is at.
Storing == {"strip", "node", "chunks", "vectors"}
BatchInv ==
  /\ Len(batch.got) <= Len(Docs)
  /\ batch.pc \in Storing \cup {"embed"} => Len(batch.got) = Len(Docs)
  /\ batch.pc \in Storing => batch.at \in DOMAIN Docs /\ Text \in Texts

\* One writer of documents at a time.
OneWriter == run.pc = "idle" \/ batch.pc = "idle"

LEMMA DocKey ==
  /\ Len(Docs) \in Nat /\ DOMAIN Docs = 1 .. Len(Docs)
  /\ \A i \in DOMAIN Docs : KeyOf(Docs[i]) \in DocKeys /\ Docs[i] \in DocSet
BY DocsAssumption DEF DocKeys, DocSet

\* The updates of a run's record keep its type.
LEMMA IdleRun == Idle \in Runs /\ Idle.pc = "idle"
BY DocKey DEF Idle, Runs, Steps

LEMMA BegunRun ==
  ASSUME Begin
  PROVE  run' \in Runs /\ run'.pc = "read"
<1> DEFINE offered == {d \in DocSet : tree[d] \notin {Gone, Hidden}}
<1>1. PICK over, embed \in BOOLEAN :
        run' = [Idle EXCEPT !.pc = "read", !.over = over, !.embed = embed, !.offered = offered]
  BY DEF Begin
<1>2. offered \subseteq DocSet
  OBVIOUS
<1> HIDE DEF offered
<1>. QED BY <1>1, <1>2, IdleRun DEF Runs, Steps

LEMMA NextFileRun ==
  ASSUME NEW r \in Runs, r.at \in DOMAIN Docs
  PROVE  NextFile(r) \in Runs /\ NextFile(r).pc = "read"
<1>1. r.at + 1 \in 1 .. Len(Docs) + 1
  BY DocKey
<1>. QED BY <1>1 DEF NextFile, Runs, Steps

LEMMA ReadRun ==
  ASSUME NEW r \in Runs, NEW k \in DocKeys, NEW t \in Texts
  PROVE  LET seen == [r EXCEPT !.taken = @ \cup {k}, !.said = @ \cup {t}, !.met = @ \cup {t}] IN
           /\ seen \in Runs /\ seen.at = r.at
           /\ [seen EXCEPT !.pc = "convert", !.read = t] \in Runs
<1> DEFINE seen == [r EXCEPT !.taken = @ \cup {k}, !.said = @ \cup {t}, !.met = @ \cup {t}]
<1>1. /\ r.taken \cup {k} \in SUBSET DocKeys
      /\ r.said \cup {t} \in SUBSET Texts /\ r.met \cup {t} \in SUBSET Texts
  BY DEF Runs
<1>2. seen \in Runs /\ seen.at = r.at
  BY <1>1 DEF Runs
<1> HIDE DEF seen
<1>3. [seen EXCEPT !.pc = "convert", !.read = t] \in Runs
  BY <1>2 DEF Runs, Steps
<1>. QED BY <1>2, <1>3 DEF seen

\* The walk over the files.
LEMMA WalkTypes ==
  ASSUME DocTypeOK, RunInv, Begin \/ Pass \/ Read \/ Convert \/ EndWalk
  PROVE  DocTypeOK' /\ RunInv'
<1>1. run \in Runs /\ run.at \in Nat
  BY DocKey DEF DocTypeOK, Runs
<1>2. CASE Begin
  BY <1>2, BegunRun DEF DocTypeOK, RunInv, Held
<1>3. CASE Pass
  <2>1. run.at \in DOMAIN Docs /\ Doc \in DocKeys
    BY <1>1, <1>3, DocKey DEF Pass, Doc, File, DocTypeOK, Runs
  <2>2. PICK took \in {{}, {Doc}} : run' = [NextFile(run) EXCEPT !.taken = @ \cup took]
    BY <1>3 DEF Pass
  <2>3. NextFile(run) \in Runs /\ NextFile(run).pc = "read"
    BY <1>1, <2>1, NextFileRun
  <2>4. run' \in Runs /\ run'.pc = "read"
    BY <2>1, <2>2, <2>3 DEF Runs
  <2>. QED BY <2>4 DEF DocTypeOK, RunInv, Held
<1>4. CASE Read
  <2> DEFINE t == tree[File]
             seen == [run EXCEPT !.taken = @ \cup {Doc}, !.said = @ \cup {t}, !.met = @ \cup {t}]
  <2>1. run.at \in DOMAIN Docs /\ Doc \in DocKeys
    BY <1>1, <1>4, DocKey DEF Read, Doc, File, DocTypeOK, Runs
  <2>2. t \in Texts /\ run' \in {NextFile(seen), [seen EXCEPT !.pc = "convert", !.read = t]}
    BY <1>4 DEF Read
  <2>3. seen \in Runs /\ seen.at = run.at /\ [seen EXCEPT !.pc = "convert", !.read = t] \in Runs
    BY <1>1, <2>1, <2>2, ReadRun
  <2> HIDE DEF t
  <2>4. CASE run' = NextFile(seen)
    <3>1. run' \in Runs /\ run'.pc = "read"
      BY <2>1, <2>3, <2>4, NextFileRun
    <3>. QED BY <3>1 DEF DocTypeOK, RunInv, Held
  <2>5. CASE run' = [seen EXCEPT !.pc = "convert", !.read = t]
    <3>1. run'.pc = "convert" /\ run'.read = t /\ run'.at = run.at
      BY <2>3, <2>5 DEF Runs
    <3>. QED BY <2>1, <2>2, <2>3, <2>5, <3>1 DEF DocTypeOK, RunInv, Held
  <2>. QED BY <2>2, <2>4, <2>5
<1>5. CASE Convert
  <2>1. run.at \in DOMAIN Docs /\ run.read \in Texts
    BY <1>5 DEF Convert, RunInv, Held
  <2>2. CASE run' = NextFile(run)
    <3>1. run' \in Runs /\ run'.pc = "read"
      BY <1>1, <2>1, <2>2, NextFileRun
    <3>. QED BY <3>1 DEF DocTypeOK, RunInv, Held
  <2>3. ASSUME NEW t \in Texts, NEW vec \in {FALSE, run.embed},
               run' = [run EXCEPT !.pc = "node", !.full = t, !.vec = vec]
        PROVE  DocTypeOK' /\ RunInv'
    <3>1. /\ run' \in Runs /\ run'.pc = "node" /\ run'.full = t
          /\ run'.at = run.at /\ run'.read = run.read
      BY <1>1, <2>3 DEF Runs, Steps
    <3>. QED BY <2>1, <3>1 DEF DocTypeOK, RunInv, Held
  <2>. QED BY <1>5, <2>2, <2>3 DEF Convert, Converts
<1>6. CASE EndWalk
  <2>1. run' = [run EXCEPT !.pc = "look", !.taken = {}, !.offered = {}]
    BY <1>6 DEF EndWalk
  <2>2. run' \in Runs /\ run'.pc = "look"
    BY <1>1, <2>1 DEF Runs, Steps
  <2>. QED BY <2>2 DEF DocTypeOK, RunInv, Held
<1>. QED BY <1>2, <1>3, <1>4, <1>5, <1>6

\* One document, row by row.
LEMMA WriteTypes ==
  ASSUME DocTypeOK, RunInv, PutNode \/ Strip \/ PutChunks \/ PutVectors
  PROVE  DocTypeOK' /\ RunInv'
<1>1. /\ run \in Runs /\ run.at \in DOMAIN Docs
      /\ run.read \in Texts /\ run.full \in Texts
  BY DEF DocTypeOK, RunInv, Held, PutNode, Strip, PutChunks, PutVectors
<1>2. CASE run' \in {NextFile(run), Idle}
  <2>1. run' \in Runs /\ run'.pc \in {"read", "idle"}
    BY <1>1, <1>2, NextFileRun, IdleRun
  <2>. QED BY <2>1 DEF DocTypeOK, RunInv, Held
<1>3. ASSUME NEW x \in {"strip", "chunks", "vectors"}, NEW bad \in BOOLEAN,
             run' = [run EXCEPT !.pc = x, !.bad = bad] \/ run' = [run EXCEPT !.pc = x]
      PROVE  DocTypeOK' /\ RunInv'
  <2>1. x \in Steps
    BY DEF Steps
  <2>2. CASE run' = [run EXCEPT !.pc = x, !.bad = bad]
    <3>1. /\ run' \in Runs /\ run'.pc = x /\ run'.full = run.full
          /\ run'.at = run.at /\ run'.read = run.read
      BY <1>1, <2>1, <2>2 DEF Runs
    <3>. QED BY <1>1, <3>1 DEF DocTypeOK, RunInv, Held
  <2>3. CASE run' = [run EXCEPT !.pc = x]
    <3>1. /\ run' \in Runs /\ run'.pc = x /\ run'.full = run.full
          /\ run'.at = run.at /\ run'.read = run.read
      BY <1>1, <2>1, <2>3 DEF Runs
    <3>. QED BY <1>1, <3>1 DEF DocTypeOK, RunInv, Held
  <2>. QED BY <1>3, <2>2, <2>3
<1>4. CASE PutNode
  <2>1. PICK lost : run' = [run EXCEPT !.pc = IF run.over THEN "strip" ELSE "chunks", !.bad = lost # {}]
    BY <1>4 DEF PutNode
  <2>2. (lost # {}) \in BOOLEAN
    OBVIOUS
  <2>. QED BY <1>3, <2>1, <2>2
<1>5. CASE PutChunks
  <2>1. PICK landed : run' = IF ~GoesOn(landed) THEN Idle
                             ELSE IF run.vec THEN [run EXCEPT !.pc = "vectors", !.bad = @ \/ LosesSome(landed)]
                             ELSE NextFile(run)
    BY <1>5 DEF PutChunks
  <2>2. (run.bad \/ LosesSome(landed)) \in BOOLEAN
    OBVIOUS
  <2>. QED BY <1>2, <1>3, <2>1, <2>2
<1>. QED BY <1>2, <1>3, <1>4, <1>5 DEF Strip, PutVectors

\* What the documents declared, and the links.
LEMMA DeclareTypes ==
  ASSUME DocTypeOK, RunInv, Look \/ Declare \/ Stubs \/ PutEdges \/ Scan \/ Link \/ CutShort
  PROVE  DocTypeOK' /\ RunInv'
<1>1. run \in Runs
  BY DEF DocTypeOK
<1>2. Declared \subseteq Keys
  BY <1>1, BlocksAssumption DEF Runs, Declared
<1>3. CASE Look
  <2> DEFINE known == {k \in Declared : rows[k].kind \in {"none", "document"}}
  <2>1. run' = [run EXCEPT !.pc = "declare", !.nodes = known] /\ known \subseteq Keys
    BY <1>2, <1>3 DEF Look
  <2> HIDE DEF known
  <2>2. run' \in Runs /\ run'.pc = "declare"
    BY <1>1, <2>1 DEF Runs, Steps
  <2>. QED BY <2>2 DEF DocTypeOK, RunInv, Held
<1>4. CASE Declare
  <2>1. PICK refused \in BOOLEAN : run' = [run EXCEPT !.pc = "stubs", !.nodes = {}, !.refused = refused]
    BY <1>4 DEF Declare
  <2>2. run' \in Runs /\ run'.pc = "stubs" /\ run'.nodes = {}
    BY <1>1, <2>1 DEF Runs, Steps
  <2>. QED BY <2>2 DEF DocTypeOK, RunInv, Held
<1>5. CASE Stubs \/ PutEdges
  <2>1. run.rejected \in BOOLEAN /\ run.rejected = run.rejected
    BY <1>1 DEF Runs
  <2>2. PICK x \in {"edges", "scan"}, refused \in BOOLEAN, rejected \in BOOLEAN :
          \/ run' = [run EXCEPT !.pc = x, !.refused = refused]
          \/ run' = [run EXCEPT !.pc = x, !.refused = refused, !.rejected = rejected]
    <3>1. CASE Stubs
      BY <2>1, <3>1 DEF Stubs
    <3>2. CASE PutEdges
      <4>1. \A landed : Counted(landed) \in BOOLEAN
        BY DEF Counted
      <4>. QED BY <3>2, <4>1 DEF PutEdges
    <3>. QED BY <1>5, <3>1, <3>2
  <2>4. x \in Steps
    BY DEF Steps
  <2>5. ASSUME run' = [run EXCEPT !.pc = x, !.refused = refused] PROVE run' \in Runs
    BY <1>1, <2>4, <2>5 DEF Runs
  <2>6. ASSUME run' = [run EXCEPT !.pc = x, !.refused = refused, !.rejected = rejected] PROVE run' \in Runs
    BY <1>1, <2>4, <2>6 DEF Runs
  <2>3. run' \in Runs /\ run'.pc = x
    <3>1. run'.pc = x
      BY <1>1, <2>2 DEF Runs
    <3>. QED BY <2>2, <2>5, <2>6, <3>1
  <2>. QED BY <2>3 DEF DocTypeOK, RunInv, Held
<1>6. CASE Scan
  <2> DEFINE slugs == {c \in Headers(tree[Source]) : Exists(c)}
  <2>1. slugs \subseteq Keys /\ run' = [run EXCEPT !.pc = "link", !.links = {Source} \X slugs]
    BY <1>6, BlocksAssumption DEF Scan, Headers
  <2>2. {Source} \X slugs \subseteq Keys \X Keys
    BY <2>1 DEF Keys
  <2> HIDE DEF slugs
  <2>3. run' \in Runs /\ run'.pc = "link"
    BY <1>1, <2>1, <2>2 DEF Runs, Steps
  <2>. QED BY <2>3 DEF DocTypeOK, RunInv, Held
<1>7. CASE Link \/ CutShort
  BY <1>7, IdleRun DEF Link, CutShort, DocTypeOK, RunInv, Held
<1>. QED BY <1>3, <1>4, <1>5, <1>6, <1>7

\* The rows: what a writer puts under a key is a row.
LEMMA RowTypes ==
  ASSUME rows \in [Keys -> Row], NEW row \in Row
  PROVE  /\ \A k, over : InsertNode(k, row, over) \in [Keys -> Row]
         /\ \A keys, over : InsertNodes(keys, row, over) \in [Keys -> Row]
         /\ \A k : [rows EXCEPT ![k] = row] \in [Keys -> Row]
BY DEF InsertNode, InsertNodes

LEMMA ChunkTypes ==
  ASSUME chunks \in [DocKeys -> [Index -> Texts \cup {No}]], NEW k \in DocKeys, NEW t \in Texts
  PROVE  /\ \A landed, over : InsertChunks(k, t, landed, over) \in [DocKeys -> [Index -> Texts \cup {No}]]
         /\ NoChunks \in [Index -> Texts \cup {No}]
         /\ Whole(t) \subseteq Index
         /\ \A lost : {k} \X VectorsLanding(k, t, lost) \subseteq DocKeys \X Index
<1>1. NoChunks \in [Index -> Texts \cup {No}]
  BY DEF NoChunks
<1>2. Whole(t) \subseteq Index
  BY BlocksAssumption DEF Index, Whole
<1>3. \A landed, over : InsertChunks(k, t, landed, over) \in [DocKeys -> [Index -> Texts \cup {No}]]
  BY DEF InsertChunks
<1>4. \A lost : VectorsLanding(k, t, lost) \subseteq Index
  BY <1>2 DEF VectorsLanding
<1>. QED BY <1>1, <1>2, <1>3, <1>4

\* What the store refuses it refuses within its budget.
LEMMA Refusing ==
  ASSUME left \in Budgets, NEW batch1, NEW lost \in Refusals(batch1), Refuse(lost)
  PROVE  left' \in Budgets
<1>1. Cardinality(lost) \in Nat /\ Cardinality(lost) <= left.refusal
  BY FS_CardinalityType DEF Refusals
<1>2. left.refusal - Cardinality(lost) \in Nat
  BY <1>1 DEF Budgets
<1>. QED BY <1>2 DEF Refuse, Budgets

LEMMA Spending ==
  ASSUME left \in Budgets, NEW what \in {"edit", "run", "batch", "code", "sweep"}, Spend(what)
  PROVE  left' \in Budgets
BY DEF Budgets, Spend

\* What the two document writers leave in the store.
LEMMA DocStoreTypes ==
  ASSUME StoreTypeOK, DocTypeOK, RunInv, DocNext
  PROVE  StoreTypeOK'
<1>1. /\ tree \in Trees /\ left \in Budgets /\ rows \in [Keys -> Row]
      /\ chunks \in [DocKeys -> [Index -> Texts \cup {No}]] /\ vectors \subseteq DocKeys \X Index
      /\ edges \subseteq Keys \X Keys /\ blemished \subseteq DocKeys /\ appended \subseteq DocKeys /\ run \in Runs
  BY DEF StoreTypeOK, DocTypeOK
<1>2. run.pc \in Held => Doc \in DocKeys
  BY DocKey DEF RunInv, Doc, File
<1>3. run.pc \in Held \ {"convert"} => run.full \in Texts /\ run.read \in Texts
  BY DEF RunInv
<1>4. Declared \subseteq Keys /\ DeclaredEdges \subseteq Keys \X Keys
  BY <1>1, BlocksAssumption DEF Runs, Declared, DeclaredEdges
<1>5. tree' \in Trees /\ left' \in Budgets
  <2>1. CASE Begin
    BY <1>1, <2>1, Spending DEF Begin
  <2>2. CASE PutNode \/ PutChunks \/ PutVectors \/ Declare \/ Stubs \/ PutEdges \/ Link
    <3>1. \E batch1 : \E lost \in Refusals(batch1) : Refuse(lost)
      BY <2>2 DEF PutNode, PutChunks, PutVectors, Declare, Stubs, PutEdges, Link
    <3>2. tree' = tree
      BY <2>2 DEF PutNode, PutChunks, PutVectors, Declare, Stubs, PutEdges, Link
    <3>. QED BY <1>1, <3>1, <3>2, Refusing
  <2>. QED BY <1>1, <2>1, <2>2 DEF DocNext, Pass, Read, Convert, Strip, EndWalk, Look, Scan, CutShort, outside
<1>6. rows' \in [Keys -> Row]
  <2> DEFINE document(h, t) == [kind |-> "document", hash |-> h, text |-> t]
  <2>1. \A h \in Texts \cup {No}, t \in Texts \cup {No, "block", "stub"} : document(h, t) \in Row
    BY DEF Row
  <2>2. CASE PutNode
    <3>1. document(run.read, run.full) \in Row
      BY <1>3, <2>1, <2>2 DEF PutNode, Held
    <3>2. PICK keys, over : rows' = InsertNodes(keys, document(run.read, run.full), over)
      BY <2>2 DEF PutNode
    <3> HIDE DEF document
    <3>. QED BY <1>1, <3>1, <3>2, RowTypes
  <2>3. CASE Declare \/ Stubs
    <3>1. PICK t \in {"block", "stub"} : \E keys, over : rows' = InsertNodes(keys, document(No, t), over)
      BY <2>3 DEF Declare, Stubs
    <3>2. document(No, t) \in Row
      BY <2>1
    <3> HIDE DEF document
    <3>. QED BY <1>1, <3>1, <3>2, RowTypes
  <2>. QED BY <1>1, <2>2, <2>3
       DEF DocNext, Begin, Pass, Read, Convert, Strip, PutChunks, PutVectors,
           EndWalk, Look, PutEdges, Scan, Link, CutShort, storeVars
<1>7. chunks' \in [DocKeys -> [Index -> Texts \cup {No}]] /\ vectors' \subseteq DocKeys \X Index
  <2>1. CASE Strip
    <3>1. Doc \in DocKeys /\ NoChunks \in [Index -> Texts \cup {No}]
      BY <1>2, <2>1 DEF Strip, Held, NoChunks
    <3>. QED BY <1>1, <2>1, <3>1 DEF Strip, RemoveChunks
  <2>2. CASE PutChunks \/ PutVectors
    <3>1. Doc \in DocKeys /\ run.full \in Texts
      BY <1>2, <1>3, <2>2 DEF PutChunks, PutVectors, Held
    <3>2. CASE PutChunks
      <4>1. /\ \E landed : chunks' = InsertChunks(Doc, run.full, landed, run.over)
            /\ vectors' = vectors
        BY <3>2 DEF PutChunks
      <4>. QED BY <1>1, <3>1, <4>1, ChunkTypes
    <3>3. CASE PutVectors
      <4>1. /\ \E lost : vectors' = vectors \cup ({Doc} \X VectorsLanding(Doc, run.full, lost))
            /\ chunks' = chunks
        BY <3>3 DEF PutVectors
      <4>. QED BY <1>1, <3>1, <4>1, ChunkTypes
    <3>. QED BY <2>2, <3>2, <3>3
  <2>. QED BY <1>1, <2>1, <2>2
       DEF DocNext, Begin, Pass, Read, Convert, PutNode, EndWalk, Look, Declare, Stubs, PutEdges, Scan,
           Link, CutShort, storeVars
<1>8. edges' \subseteq Keys \X Keys
  <2>1. \A batch1, lost : Attached(batch1 \ lost) \subseteq batch1
    BY DEF Attached
  <2>2. run.links \subseteq Keys \X Keys
    BY <1>1 DEF Runs
  <2>. QED BY <1>1, <1>4, <2>1, <2>2 DEF RemoveChunks, DocNext, Begin, Pass, Read, Convert, PutNode, Strip,
       PutChunks, PutVectors, EndWalk, Look, Declare, Stubs, PutEdges, Scan, Link, CutShort,
       storeVars
<1>9. blemished' \subseteq DocKeys /\ appended' \subseteq DocKeys
  BY <1>1, <1>2 DEF Held, Settled, docHistory, RemoveChunks, DocNext, Begin, Pass, Read, Convert, PutNode, Strip,
       PutChunks, PutVectors, EndWalk, Look, Declare, Stubs, PutEdges, Scan, Link, CutShort, storeVars
<1>. QED BY <1>5, <1>6, <1>7, <1>8, <1>9 DEF StoreTypeOK

\* The updates of a batch's record keep its type.
LEMMA IdleBatch == NoBatch \in Batches /\ NoBatch.pc = "idle" /\ NoBatch.got = <<>>
<1>1. <<>> \in Seq(Texts \cup {No}) /\ 1 \in 1 .. Len(Docs) + 1
  BY DocKey
<1>. QED BY <1>1 DEF NoBatch, Batches

LEMMA NextDocument ==
  ASSUME NEW b \in Batches, b.at \in DOMAIN Docs
  PROVE  /\ Next1(b) \in Batches /\ Next1(b).pc = "embed" /\ Next1(b).got = b.got
         /\ Failed(b) \in Batches /\ Failed(b).pc = "embed" /\ Failed(b).got = b.got
<1>1. b.at + 1 \in 1 .. Len(Docs) + 1 /\ {b.at} \subseteq 1 .. Len(Docs)
  BY DocKey
<1>2. Next1(b) \in Batches /\ Next1(b).pc = "embed" /\ Next1(b).got = b.got
  BY <1>1 DEF Next1, Batches
<1>3. Failed(b) = [Next1(b) EXCEPT !.failed = @ \cup {b.at}]
  BY DEF Failed
<1>. QED BY <1>1, <1>2, <1>3 DEF Batches

\* A batch, document by document.
LEMMA PipeTypes ==
  ASSUME PipeTypeOK, BatchInv, PipeNext
  PROVE  PipeTypeOK' /\ BatchInv'
<1>1. batch \in Batches /\ Len(batch.got) \in Nat /\ batch.got \in Seq(Texts \cup {No})
  BY DEF PipeTypeOK, Batches
<1>2. batch.pc \in Storing => batch.at \in DOMAIN Docs /\ Text \in Texts /\ Len(batch.got) = Len(Docs)
  BY DEF BatchInv
<1>3. CASE BeginBatch
  <2>1. PICK over \in BOOLEAN : batch' = [NoBatch EXCEPT !.pc = "extract", !.over = over]
    BY <1>3 DEF BeginBatch
  <2>2. batch' \in Batches /\ batch'.pc = "extract" /\ batch'.got = <<>>
    BY <2>1, IdleBatch DEF Batches
  <2>. QED BY <2>2, DocKey DEF PipeTypeOK, BatchInv, Storing
<1>4. CASE Extract
  <2>1. Len(batch.got) <= Len(Docs) /\ Len(Docs) \in Nat
    BY DocKey DEF BatchInv
  <2>2. CASE Len(batch.got) = Len(Docs)
    <3>1. batch' = [batch EXCEPT !.pc = "embed"]
      BY <1>4, <2>2 DEF Extract
    <3>2. batch' \in Batches /\ batch'.pc = "embed" /\ batch'.got = batch.got
      BY <1>1, <3>1 DEF Batches
    <3>. QED BY <2>1, <2>2, <3>2 DEF PipeTypeOK, BatchInv, Storing
  <2>3. CASE Len(batch.got) # Len(Docs)
    <3>1. PICK got \in Texts \cup {No} :
            batch' = [batch EXCEPT !.got = Append(@, got),
                                   !.failed = IF got = No THEN @ \cup {Len(batch.got) + 1} ELSE @]
      BY <1>4, <2>3 DEF Extract, Extracted, Converts
    <3>2. {Len(batch.got) + 1} \subseteq 1 .. Len(Docs)
      BY <1>1, <2>1, <2>3
    <3>3. /\ Append(batch.got, got) \in Seq(Texts \cup {No})
          /\ Len(Append(batch.got, got)) = Len(batch.got) + 1
      BY <1>1
    <3>4. batch' \in Batches /\ batch'.pc = batch.pc /\ batch'.got = Append(batch.got, got)
      BY <1>1, <3>1, <3>2, <3>3 DEF Batches
    <3>5. batch.pc = "extract"
      BY <1>4 DEF Extract
    <3>. QED BY <1>1, <2>1, <2>3, <3>3, <3>4, <3>5 DEF PipeTypeOK, BatchInv, Storing
  <2>. QED BY <2>2, <2>3
<1>5. ASSUME batch' \in {Next1(batch), Failed(batch)}, batch.at \in DOMAIN Docs,
             Len(batch.got) = Len(Docs)
      PROVE  PipeTypeOK' /\ BatchInv'
  <2>1. batch' \in Batches /\ batch'.pc = "embed" /\ batch'.got = batch.got
    BY <1>1, <1>5, NextDocument
  <2>. QED BY <1>1, <1>5, <2>1 DEF PipeTypeOK, BatchInv, Storing
<1>6. ASSUME NEW x \in Storing, NEW vec \in BOOLEAN,
             batch' = [batch EXCEPT !.pc = x] \/ batch' = [batch EXCEPT !.pc = x, !.vec = vec],
             batch.at \in DOMAIN Docs, Text \in Texts, Len(batch.got) = Len(Docs)
      PROVE  PipeTypeOK' /\ BatchInv'
  <2>1. /\ batch' \in Batches /\ batch'.pc = x /\ batch'.got = batch.got /\ batch'.at = batch.at
    BY <1>1, <1>6 DEF Batches, Storing
  <2>2. Text' = Text
    BY <2>1 DEF Text
  <2>. QED BY <1>1, <1>6, <2>1, <2>2 DEF PipeTypeOK, BatchInv, Storing
<1>7. CASE batch' = NoBatch
  <2>1. Len(batch'.got) = 0 /\ batch'.pc = "idle"
    BY <1>7, IdleBatch
  <2>. QED BY <1>7, <2>1, IdleBatch, DocKey DEF PipeTypeOK, BatchInv, Storing
<1>8. CASE EmbedOne
  <2>1. Len(batch.got) = Len(Docs) /\ batch.at \in 1 .. Len(Docs) + 1
    BY <1>1, <1>8 DEF EmbedOne, BatchInv, Batches
  <2>2. CASE batch.at > Len(Docs)
    BY <1>7, <1>8, <2>2 DEF EmbedOne
  <2>3. CASE ~(batch.at > Len(Docs))
    <3>1. batch.at \in DOMAIN Docs /\ batch.at \in DOMAIN batch.got
      BY <1>1, <2>1, <2>3, DocKey
    <3>2. Text \in Texts \cup {No}
      BY <1>1, <3>1 DEF Text
    <3>3. CASE batch' \in {Next1(batch), Failed(batch)}
      BY <1>5, <2>1, <3>1, <3>3
    <3>4. CASE Text # No /\ batch' \notin {Next1(batch), Failed(batch)}
      <4>1. PICK vec \in BOOLEAN :
              batch' = [batch EXCEPT !.pc = IF batch.over THEN "strip" ELSE "node", !.vec = vec]
        BY <1>8, <2>3, <3>4 DEF EmbedOne
      <4>. QED BY <1>6, <2>1, <3>1, <3>2, <3>4, <4>1 DEF Storing
    <3>. QED BY <1>8, <2>3, <3>3, <3>4 DEF EmbedOne
  <2>. QED BY <2>2, <2>3
<1>9. CASE StripOne \/ NodeOne \/ ChunksOne \/ VectorsOne \/ StoreRefuses
  <2>1. batch.pc \in Storing
    BY <1>9 DEF StripOne, NodeOne, ChunksOne, VectorsOne, StoreRefuses, Storing
  <2>2. CASE batch' \in {Next1(batch), Failed(batch)}
    BY <1>2, <1>5, <2>1, <2>2
  <2>3. CASE \E x \in Storing : batch' = [batch EXCEPT !.pc = x]
    BY <1>2, <1>6, <2>1, <2>3
  <2>. QED BY <1>9, <2>2, <2>3
       DEF StripOne, NodeOne, ChunksOne, VectorsOne, StoreRefuses, Storing
<1>. QED BY <1>3, <1>4, <1>7, <1>8, <1>9 DEF PipeNext, BatchDies

LEMMA PipeStoreTypes ==
  ASSUME StoreTypeOK, PipeTypeOK, BatchInv, PipeNext
  PROVE  StoreTypeOK'
<1>1. /\ tree \in Trees /\ left \in Budgets /\ rows \in [Keys -> Row]
      /\ chunks \in [DocKeys -> [Index -> Texts \cup {No}]] /\ vectors \subseteq DocKeys \X Index
      /\ edges \subseteq Keys \X Keys /\ blemished \subseteq DocKeys /\ appended \subseteq DocKeys
  BY DEF StoreTypeOK
<1>2. batch.pc \in Storing => Key \in DocKeys /\ Text \in Texts
  BY DocKey DEF BatchInv, Key
<1>3. tree' \in Trees /\ left' \in Budgets
  <2>1. CASE BeginBatch
    BY <1>1, <2>1, Spending DEF BeginBatch
  <2>2. CASE ChunksOne \/ VectorsOne
    <3>1. tree' = tree /\ \E batch1 : \E lost \in Refusals(batch1) : Refuse(lost)
      BY <2>2 DEF ChunksOne, VectorsOne
    <3>. QED BY <1>1, <3>1, Refusing
  <2>. QED BY <1>1, <2>1, <2>2 DEF PipeNext, Extract, EmbedOne, StripOne, NodeOne, StoreRefuses, BatchDies, outside
<1>4. rows' \in [Keys -> Row]
  <2>1. CASE NodeOne
    <3>1. [kind |-> "document", hash |-> No, text |-> Text] \in Row
      BY <1>2, <2>1 DEF NodeOne, Storing, Row
    <3>. QED BY <1>1, <2>1, <3>1, RowTypes DEF NodeOne
  <2>. QED BY <1>1, <2>1 DEF PipeNext, BeginBatch, Extract, EmbedOne, StripOne, ChunksOne, VectorsOne,
           StoreRefuses, BatchDies, storeVars
<1>5. chunks' \in [DocKeys -> [Index -> Texts \cup {No}]] /\ vectors' \subseteq DocKeys \X Index
  <2>1. CASE StripOne
    <3>1. NoChunks \in [Index -> Texts \cup {No}]
      BY DEF NoChunks
    <3>. QED BY <1>1, <1>2, <2>1, <3>1 DEF StripOne, RemoveChunks, Storing
  <2>2. CASE ChunksOne
    <3>1. /\ \E landed : chunks' = InsertChunks(Key, Text, landed, batch.over)
          /\ vectors' = vectors
      BY <2>2 DEF ChunksOne
    <3>2. Key \in DocKeys /\ Text \in Texts
      BY <1>2, <2>2 DEF ChunksOne, Storing
    <3>. QED BY <1>1, <3>1, <3>2, ChunkTypes
  <2>3. CASE VectorsOne
    <3>1. /\ \E lost : vectors' = vectors \cup ({Key} \X VectorsLanding(Key, Text, lost))
          /\ chunks' = chunks
      BY <2>3 DEF VectorsOne
    <3>2. Key \in DocKeys /\ Text \in Texts
      BY <1>2, <2>3 DEF VectorsOne, Storing
    <3>. QED BY <1>1, <3>1, <3>2, ChunkTypes
  <2>. QED BY <1>1, <2>1, <2>2, <2>3
       DEF PipeNext, BeginBatch, Extract, EmbedOne, NodeOne, StoreRefuses, BatchDies, storeVars
<1>6. edges' = edges
  BY DEF PipeNext, BeginBatch, Extract, EmbedOne, StripOne, NodeOne, ChunksOne, VectorsOne,
         StoreRefuses, BatchDies, storeVars
<1>7. blemished' \subseteq DocKeys /\ appended' \subseteq DocKeys
  BY <1>1, <1>2 DEF Storing, docHistory, RemoveChunks, PipeNext, BeginBatch, Extract, EmbedOne, StripOne, NodeOne, ChunksOne,
       VectorsOne, StoreRefuses, BatchDies, storeVars
<1>. QED BY <1>1, <1>3, <1>4, <1>5, <1>6, <1>7 DEF StoreTypeOK

\* A sweep notes in the run that it took nodes.
LEMMA SweptRun ==
  ASSUME DocTypeOK, RunInv, NEW taken \in SUBSET Keys, Sweep(taken)
  PROVE  /\ DocTypeOK' /\ RunInv' /\ run'.pc = run.pc /\ run'.at = run.at /\ run'.bad = run.bad
         /\ run'.over = run.over /\ run'.full = run.full /\ run'.read = run.read
<1> DEFINE swept == run.swept \/ (taken # {} /\ run.pc \in {"declare", "stubs", "edges", "scan", "link"})
<1>1. run \in Runs /\ run' = [run EXCEPT !.swept = swept]
  BY DEF DocTypeOK, Sweep
<1>2. swept \in BOOLEAN
  BY <1>1 DEF Runs
<1> HIDE DEF swept
<1>3. /\ run' \in Runs /\ run'.pc = run.pc /\ run'.at = run.at /\ run'.bad = run.bad
      /\ run'.over = run.over /\ run'.full = run.full /\ run'.read = run.read
  BY <1>1, <1>2 DEF Runs
<1>. QED BY <1>3 DEF DocTypeOK, RunInv

\* A retire or a prune takes no document: the file it did not see, and symbols.
LEMMA TakesCode ==
  ASSUME LifeTypeOK, SymbolInv, Retire \/ Prune
  PROVE  \E taken \in SUBSET {Source, Symbol} : Sweep(taken) /\ taken \in SUBSET Keys
<1>1. Family(sweep.gone) \subseteq {Source, Symbol} /\ Orphans \subseteq {Source, Symbol}
  BY DEF LifeTypeOK, SymbolInv, Family, Orphans
<1>. QED BY <1>1, KeysOfCode DEF Retire, Prune

LEMMA LifeTypes ==
  ASSUME StoreTypeOK, DocTypeOK, LifeTypeOK, RunInv, SymbolInv, LifeNext
  PROVE  StoreTypeOK' /\ DocTypeOK' /\ RunInv'
<1>1. /\ tree \in Trees /\ left \in Budgets /\ rows \in [Keys -> Row]
      /\ chunks \in [DocKeys -> [Index -> Texts \cup {No}]] /\ vectors \subseteq DocKeys \X Index
      /\ edges \subseteq Keys \X Keys /\ blemished \subseteq DocKeys /\ appended \subseteq DocKeys
  BY DEF StoreTypeOK
<1>2. CASE \E f \in Files : Edit(f)
  <2>1. tree' \in Trees /\ left' \in Budgets
    BY <1>1, <1>2, Spending DEF Edit, Trees
  <2>. QED BY <1>1, <1>2, <2>1 DEF Edit, storeVars, docHistory, StoreTypeOK, DocTypeOK, RunInv
<1>3. CASE ReadSource \/ CodeFails \/ WalkTree \/ ListStored \/ SweepFails
  <2>1. tree' \in Trees /\ left' \in Budgets
    BY <1>1, <1>3, Spending DEF ReadSource, CodeFails, WalkTree, ListStored, SweepFails, outside
  <2>. QED BY <1>1, <1>3, <2>1 DEF ReadSource, CodeFails, WalkTree, ListStored, SweepFails, storeVars, docHistory,
           StoreTypeOK, DocTypeOK, RunInv
<1>4. CASE WriteFile \/ WriteSymbols
  <2>1. [kind |-> "file", hash |-> code.text, text |-> No] \in Row
    BY DEF LifeTypeOK, Row
  <2>2. [kind |-> "symbol", hash |-> No, text |-> No] \in Row
    BY DEF Row
  <2>3. rows' \in [Keys -> Row]
    <3>1. PICK row \in Row : \E k : rows' = InsertNode(k, row, TRUE)
      BY <1>4, <2>1, <2>2 DEF WriteFile, WriteSymbols
    <3>2. PICK k : rows' = InsertNode(k, row, TRUE)
      BY <3>1
    <3>. QED BY <1>1, <3>2, RowTypes
  <2>. QED BY <1>1, <1>4, <2>3 DEF WriteFile, WriteSymbols, outside, docHistory, StoreTypeOK, DocTypeOK, RunInv
<1>5. CASE Retire \/ Prune
  <2>1. PICK taken \in SUBSET Keys : Sweep(taken)
    BY <1>5, TakesCode
  <2>2. DocTypeOK' /\ RunInv'
    BY <2>1, SweptRun
  <2>3. NoRow \in Row /\ NoChunks \in [Index -> Texts \cup {No}]
    BY DEF NoRow, NoChunks, Row
  <2>4. rows' \in [Keys -> Row] /\ chunks' \in [DocKeys -> [Index -> Texts \cup {No}]]
    BY <1>1, <2>1, <2>3 DEF Sweep, DeleteNodes
  <2>5. vectors' \subseteq DocKeys \X Index /\ edges' \subseteq Keys \X Keys
    BY <1>1, <2>1 DEF Sweep, DeleteNodes
  <2>6. tree' \in Trees /\ left' \in Budgets /\ blemished' \subseteq DocKeys /\ appended' \subseteq DocKeys
    BY <1>1, <1>5, <2>1, Spending DEF Sweep, Retire, Prune, docHistory
  <2>. QED BY <2>2, <2>4, <2>5, <2>6 DEF StoreTypeOK
<1>. QED BY <1>2, <1>3, <1>4, <1>5 DEF LifeNext

\* The types, and what the steps of the writers say of them.
TypeInv == StoreTypeOK /\ DocTypeOK /\ PipeTypeOK /\ RunInv /\ BatchInv /\ OneWriter

\* The types are invariant.
THEOREM TypeInvariant == CorpusSpec => [](SweepInv /\ TypeInv)
<1>1. CorpusInit => TypeInv
  <2> SUFFICES ASSUME CorpusInit PROVE TypeInv
    OBVIOUS
  <2>1. tree \in Trees /\ left \in Budgets
    BY ScenariosAssumption DEF CorpusInit, StoreInit
  <2>2. NoRow \in Row /\ NoChunks \in [Index -> Texts \cup {No}]
    BY DEF NoRow, NoChunks, Row
  <2>3. StoreTypeOK
    BY <2>1, <2>2 DEF CorpusInit, StoreInit, StoreTypeOK
  <2>4. run = Idle /\ batch = NoBatch
    BY DEF CorpusInit, DocInit, PipeInit
  <2>5. DocTypeOK /\ PipeTypeOK /\ RunInv /\ OneWriter
    BY <2>4, IdleRun, IdleBatch DEF DocTypeOK, PipeTypeOK, RunInv, OneWriter, Held
  <2>6. BatchInv
    BY <2>4, IdleBatch, DocKey DEF BatchInv, Storing
  <2>. QED BY <2>3, <2>5, <2>6 DEF TypeInv
<1>2. SweepInv /\ TypeInv /\ [CorpusNext]_corpusVars => TypeInv'
  <2> SUFFICES ASSUME SweepInv, TypeInv, [CorpusNext]_corpusVars PROVE TypeInv'
    OBVIOUS
  <2>1. CASE batch.pc = "idle" /\ DocNext /\ UNCHANGED <<lifeVars, batch>>
    <3>1. DocTypeOK' /\ RunInv'
      BY <2>1, WalkTypes, WriteTypes, DeclareTypes DEF TypeInv, DocNext
    <3>2. StoreTypeOK'
      BY <2>1, DocStoreTypes DEF TypeInv
    <3>3. PipeTypeOK' /\ BatchInv' /\ OneWriter'
      BY <2>1 DEF TypeInv, PipeTypeOK, BatchInv, OneWriter, Text
    <3>. QED BY <3>1, <3>2, <3>3 DEF TypeInv
  <2>2. CASE LifeNext /\ UNCHANGED batch
    <3>1. StoreTypeOK' /\ DocTypeOK' /\ RunInv'
      BY <2>2, LifeTypes DEF SweepInv, TypeInv
    <3>2. PipeTypeOK' /\ BatchInv'
      BY <2>2 DEF TypeInv, PipeTypeOK, BatchInv, Text
    <3>3. run'.pc = run.pc
      <4>1. CASE Retire \/ Prune
        BY <4>1, TakesCode, SweptRun DEF SweepInv, TypeInv
      <4>. QED BY <2>2, <4>1 DEF LifeNext, Edit, ReadSource, WriteFile, WriteSymbols, CodeFails,
               WalkTree, ListStored, SweepFails
    <3>. QED BY <2>2, <3>1, <3>2, <3>3 DEF TypeInv, OneWriter
  <2>3. CASE PipeNext /\ UNCHANGED <<run, lifeVars>>
    <3>1. PipeTypeOK' /\ BatchInv' /\ StoreTypeOK'
      BY <2>3, PipeTypes, PipeStoreTypes DEF TypeInv
    <3>2. run.pc = "idle" \/ batch.pc = "idle"
      BY DEF TypeInv, OneWriter
    <3>3. OneWriter'
      BY <2>3, <3>2 DEF OneWriter, PipeNext, BeginBatch, Extract, EmbedOne, StripOne, NodeOne,
         ChunksOne, VectorsOne, StoreRefuses, BatchDies
    <3>. QED BY <2>3, <3>1, <3>3 DEF TypeInv, DocTypeOK, RunInv
  <2>4. CASE UNCHANGED corpusVars
    BY <2>4 DEF corpusVars, outside, storeVars, docHistory, lifeVars, TypeInv, StoreTypeOK, DocTypeOK, PipeTypeOK,
       RunInv, BatchInv, OneWriter, Text
  <2>. QED BY <2>1, <2>2, <2>3, <2>4 DEF CorpusNext
<1>. QED BY <1>1, <1>2, SweepInvariant, PTL DEF CorpusSpec

\* Every row, chunk, vector and edge of the graph, and the record of every
\* writer of it, has its type in every state (all the writers together).
THEOREM CorpusTypeCorrect == CorpusSpec => []CorpusTypeOK
<1>1. SweepInv /\ TypeInv => CorpusTypeOK
  BY DEF SweepInv, TypeInv, CorpusTypeOK
<1>. QED BY <1>1, TypeInvariant, PTL

-----------------------------------------------------------------------------
(* The documents                                                           *)

\* The chunks and the vectors of a document.
Bare(k) == \A v \in vectors : v[1] # k
Blank(k) == chunks[k] = NoChunks /\ Bare(k)
Cut(t) == [i \in Index |-> IF i \in Whole(t) THEN t ELSE No]
Filled(k, t) == chunks[k] = Cut(t) /\ Bare(k)
Complete(k) ==
  /\ chunks[k] = Cut(rows[k].text)
  /\ {v \in vectors : v[1] = k} \in {{}, {k} \X Whole(rows[k].text)}
OneText(k) == \A i, j \in Index : No \notin {chunks[k][i], chunks[k][j]} => chunks[k][i] = chunks[k][j]

\* A document's node is there before its chunks, what no writer is inside of
\* or was cut inside of is complete, and pieces of two texts were appended.
KeyInv(k) ==
  /\ ~Exists(k) => Blank(k)
  /\ k \notin appended => OneText(k)
  /\ rows[k].text \in Texts /\ k \notin blemished /\ ~Writing(k) => Complete(k)

\* Inside a document a run under overwrite, or onto a fresh key, has the text
\* it will finish with in the node, and the store as its step left it.
Inside == {"strip", "chunks", "vectors"}
WriteInv ==
  run.pc \in Inside =>
    /\ run.pc = "strip" => run.over
    /\ ~run.bad => Exists(Doc)
    /\ run.pc = "chunks" /\ (run.over \/ Doc \notin blemished \cap appended) => Blank(Doc)
    /\ ~run.bad /\ (run.over \/ Doc \notin blemished) =>
         /\ rows[Doc].text = run.full
         /\ run.pc = "vectors" => Filled(Doc, run.full)

\* Inside a document a batch has marked it, and the store is as its step left it.
StoreInv ==
  /\ batch.pc = "strip" => batch.over
  /\ batch.pc = "node" /\ batch.over => Blank(Key) /\ Key \in blemished
  /\ batch.pc \in {"chunks", "vectors"} =>
       Key \in blemished /\ Exists(Key) /\ rows[Key].text = Text
  /\ batch.pc = "chunks" => Blank(Key)
  /\ batch.pc = "vectors" => Filled(Key, Text)

WholeInv == (\A k \in DocKeys : KeyInv(k)) /\ WriteInv /\ StoreInv

\* What is stored under the key of a document.
Stored(k) == <<rows[k], chunks[k], {v \in vectors : v[1] = k}>>

\* Of what a step leaves stored under a key the same is true after it.
LEMMA KeptDocument ==
  ASSUME NEW k \in DocKeys, Stored(k)' = Stored(k)
  PROVE  /\ Exists(k)' <=> Exists(k)
         /\ Blank(k)' <=> Blank(k)
         /\ \A t : Filled(k, t)' <=> Filled(k, t)
         /\ Complete(k)' <=> Complete(k)
         /\ OneText(k)' <=> OneText(k)
         /\ rows'[k] = rows[k]
<1>1. rows'[k] = rows[k] /\ chunks'[k] = chunks[k] /\ {v \in vectors' : v[1] = k} = {v \in vectors : v[1] = k}
  BY DEF Stored
<1>2. Bare(k) <=> {v \in vectors : v[1] = k} = {}
  BY DEF Bare
<1>3. Bare(k)' <=> {v \in vectors' : v[1] = k} = {}
  BY DEF Bare
<1>. QED BY <1>1, <1>2, <1>3 DEF Exists, Blank, Filled, Complete, OneText, Cut, NoChunks

LEMMA KeptKey ==
  ASSUME NEW k \in DocKeys, KeyInv(k), Stored(k)' = Stored(k),
         k \in blemished => k \in blemished', k \in appended => k \in appended',
         Writing(k) => Writing(k)'
  PROVE  KeyInv(k)'
BY KeptDocument DEF KeyInv

\* A blank document that gets chunks holds one text, and is filled when it gets
\* them all; a filled one, with its vectors or without, is complete.
LEMMA Filling ==
  ASSUME chunks \in [DocKeys -> [Index -> Texts \cup {No}]], NEW k \in DocKeys, NEW t \in Texts,
         NEW landed, NEW over
  PROVE  /\ chunks' = InsertChunks(k, t, landed, over) =>
              /\ \A j \in DocKeys \ {k} : chunks'[j] = chunks[j]
              /\ landed = {} => chunks'[k] = chunks[k]
              /\ Blank(k) => OneText(k)'
              /\ Blank(k) /\ landed = Whole(t) /\ vectors' = vectors => Filled(k, t)'
         /\ Filled(k, t) /\ rows'[k].text = t /\ chunks' = chunks
              /\ vectors' = vectors \cup ({k} \X Whole(t)) => Complete(k)'
<1>1. ASSUME chunks' = InsertChunks(k, t, landed, over)
      PROVE  /\ \A j \in DocKeys \ {k} : chunks'[j] = chunks[j]
             /\ chunks'[k] = [i \in Index |-> IF i \in landed /\ (over \/ chunks[k][i] = No) THEN t ELSE chunks[k][i]]
  BY <1>1 DEF InsertChunks
<1>2. Blank(k) => \A i \in Index : chunks[k][i] = No
  BY DEF Blank, NoChunks
<1>3. ASSUME chunks' = InsertChunks(k, t, landed, over), landed = {}
      PROVE  chunks'[k] = chunks[k]
  <2>1. chunks'[k] = [i \in Index |-> chunks[k][i]]
    BY <1>1, <1>3
  <2>. QED BY <2>1
<1>4. ASSUME chunks' = InsertChunks(k, t, landed, over), Blank(k)
      PROVE  OneText(k)'
  BY <1>1, <1>2, <1>4 DEF OneText
<1>5. ASSUME chunks' = InsertChunks(k, t, landed, over), Blank(k), landed = Whole(t), vectors' = vectors
      PROVE  Filled(k, t)'
  <2>1. chunks'[k] = Cut(t)
    BY <1>1, <1>2, <1>5 DEF Cut
  <2>. QED BY <1>5, <2>1 DEF Filled, Blank, Bare, Cut
<1>6. ASSUME Filled(k, t), rows'[k].text = t, chunks' = chunks, vectors' = vectors \cup ({k} \X Whole(t))
      PROVE  Complete(k)'
  <2>1. {v \in vectors' : v[1] = k} = {k} \X Whole(t)
    BY <1>6 DEF Filled, Bare
  <2>. QED BY <1>6, <2>1 DEF Filled, Complete, Cut
<1>. QED BY <1>1, <1>3, <1>4, <1>5, <1>6

LEMMA FilledAfter ==
  ASSUME NEW k, NEW t, Filled(k, t)', rows'[k].text = t
  PROVE  Complete(k)'
BY DEF Filled, Bare, Complete, Cut

\* Taking a document's chunks and vectors leaves it blank, and the others.
LEMMA Blanking ==
  ASSUME chunks \in [DocKeys -> [Index -> Texts \cup {No}]], NEW k \in DocKeys, RemoveChunks(k)
  PROVE  /\ Blank(k)' /\ OneText(k)'
         /\ \A j \in DocKeys \ {k} :
              chunks'[j] = chunks[j] /\ {v \in vectors' : v[1] = j} = {v \in vectors : v[1] = j}
BY DEF RemoveChunks, Blank, Bare, OneText, NoChunks

\* A step that leaves the documents and both their writers alone.
LEMMA KeptWhole ==
  ASSUME TypeInv, WholeInv, \A k \in DocKeys : Stored(k)' = Stored(k), UNCHANGED <<blemished, appended>>,
         run'.pc = run.pc, run'.at = run.at, run'.bad = run.bad, run'.over = run.over,
         run'.full = run.full, batch' = batch
  PROVE  WholeInv'
<1>1. \A k \in DocKeys : Writing(k)' <=> Writing(k)
  BY DEF Writing, Doc, File
<1>2. \A k \in DocKeys : KeyInv(k)'
  BY <1>1, KeptKey DEF WholeInv
<1>3. WriteInv'
  <2>1. Doc' = Doc
    BY DEF Doc, File
  <2>2. run.pc \in {"strip", "chunks", "vectors"} => Doc \in DocKeys
    BY DocKey DEF TypeInv, RunInv, Held, Doc, File
  <2>. QED BY <2>1, <2>2, KeptDocument DEF WholeInv, WriteInv, Inside
<1>4. StoreInv'
  <2>1. Key' = Key /\ Text' = Text
    BY DEF Key, Text
  <2>2. batch.pc \in Storing => Key \in DocKeys
    BY DocKey DEF TypeInv, BatchInv, Key
  <2>. QED BY <2>1, <2>2, KeptDocument DEF WholeInv, StoreInv, Storing
<1>. QED BY <1>2, <1>3, <1>4 DEF WholeInv

\* Outside a document neither writer has anything to keep.
LEMMA RunOutside ==
  ASSUME run.pc \notin Inside
  PROVE  WriteInv /\ \A k \in DocKeys : ~Writing(k)
BY DEF Inside, WriteInv, Writing
LEMMA RunOutsideAfter ==
  ASSUME run'.pc \notin Inside
  PROVE  WriteInv' /\ \A k \in DocKeys : ~Writing(k)'
BY DEF Inside, WriteInv, Writing
LEMMA BatchOutsideAfter ==
  ASSUME batch'.pc \notin Storing
  PROVE  StoreInv'
BY DEF Storing, StoreInv

\* The walk, and what comes after the documents.
LEMMA WalkWhole ==
  ASSUME TypeInv, WholeInv, batch.pc = "idle", batch' = batch,
         Begin \/ Pass \/ Read \/ Convert \/ EndWalk \/ Look \/ Declare \/ Stubs \/ PutEdges \/ Scan \/ Link
  PROVE  WholeInv'
<1>1. run \in Runs
  BY DEF TypeInv, DocTypeOK
<1>2. run.pc \notin Inside
  BY DEF Inside, Begin, Pass, Read, Convert, EndWalk, Look, Declare, Stubs, PutEdges, Scan, Link
<1>3. run'.pc \notin Inside
  <2>1. CASE Begin \/ Link
    <3>1. run' \in Runs /\ run'.pc \in {"read", "idle"}
      BY <2>1, IdleRun, BegunRun DEF Begin, Link
    <3>. QED BY <3>1 DEF Inside
  <2>2. CASE Pass
    BY <1>1, <2>2 DEF Pass, NextFile, Runs, Inside
  <2>3. CASE Read
    BY <1>1, <2>3 DEF Read, NextFile, Runs, Inside
  <2>4. CASE Convert
    BY <1>1, <2>4 DEF Convert, NextFile, Runs, Inside
  <2>5. CASE EndWalk \/ Look \/ Declare \/ Stubs \/ PutEdges \/ Scan
    BY <1>1, <2>5 DEF EndWalk, Look, Declare, Stubs, PutEdges, Scan, Runs, Inside
  <2>. QED BY <2>1, <2>2, <2>3, <2>4, <2>5
<1>4. WriteInv' /\ StoreInv'
  BY <1>3, RunOutsideAfter, BatchOutsideAfter DEF Storing
<1>5. UNCHANGED <<chunks, vectors, blemished, appended>>
  BY DEF Begin, Pass, Read, Convert, EndWalk, Look, Declare, Stubs, PutEdges, Scan, Link, storeVars, docHistory
<1>6. \A k \in Keys : rows'[k] = rows[k] \/ (rows'[k].text \in {"block", "stub"} /\ Exists(k)')
  <2>1. ASSUME NEW row, row.kind = "document", row.text \in {"block", "stub"}, NEW keys, NEW over,
               rows' = InsertNodes(keys, row, over)
        PROVE  \A k \in Keys : rows'[k] = rows[k] \/ (rows'[k].text \in {"block", "stub"} /\ Exists(k)')
    BY <2>1 DEF InsertNodes, Exists
  <2> DEFINE document(t) == [kind |-> "document", hash |-> No, text |-> t]
  <2>2. CASE Declare
    <3>1. PICK keys, over : rows' = InsertNodes(keys, document("block"), over)
      BY <2>2 DEF Declare
    <3>. QED BY <2>1, <3>1
  <2>3. CASE Stubs
    <3>1. PICK keys, over : rows' = InsertNodes(keys, document("stub"), over)
      BY <2>3 DEF Stubs
    <3>. QED BY <2>1, <3>1
  <2>. QED BY <2>2, <2>3 DEF Begin, Pass, Read, Convert, EndWalk, Look, PutEdges, Scan, Link, storeVars
<1>7. ASSUME NEW k \in DocKeys PROVE KeyInv(k)'
  <2>1. KeyInv(k) /\ ~Writing(k) /\ k \in Keys
    BY <1>2, RunOutside DEF WholeInv, Keys
  <2>2. CASE rows'[k] = rows[k]
    BY <1>5, <2>1, <2>2, KeptKey DEF Stored
  <2>3. CASE rows'[k].text \in {"block", "stub"} /\ Exists(k)'
    <3>1. OneText(k)' <=> OneText(k)
      BY <1>5 DEF OneText
    <3>. QED BY <1>5, <2>1, <2>3, <3>1, TextsAssumption DEF KeyInv
  <2>. QED BY <1>6, <2>1, <2>2, <2>3
<1>. QED BY <1>4, <1>7 DEF WholeInv

\* A step of a writer inside document d leaves the other documents alone.
LEMMA OtherDocuments ==
  ASSUME WholeInv, NEW d, \A k \in DocKeys \ {d} : Stored(k)' = Stored(k),
         \A k \in DocKeys \ {d} : k \in blemished' <=> k \in blemished,
         \A k \in DocKeys \ {d} : k \in appended' <=> k \in appended,
         \A k \in DocKeys \ {d} : ~Writing(k)
  PROVE  \A k \in DocKeys \ {d} : KeyInv(k)'
BY KeptKey DEF WholeInv

\* A run writes a document: its node, then its chunks over the stripped ones,
\* then its vectors.
LEMMA NodeWhole ==
  ASSUME TypeInv, WholeInv, batch.pc = "idle", batch' = batch, PutNode
  PROVE  WholeInv'
<1>1. /\ run \in Runs /\ rows \in [Keys -> Row] /\ Doc \in DocKeys /\ Doc \in Keys
      /\ run.pc = "node" /\ run.over \in BOOLEAN
  BY DocKey DEF TypeInv, DocTypeOK, StoreTypeOK, RunInv, Held, PutNode, Doc, File, Keys, Runs
<1>2. PICK d \in DocKeys : d = Doc /\ d \in Keys
  BY <1>1
<1>3. PICK lost \in Refusals({d}), bad \in BOOLEAN :
        /\ rows' = InsertNodes({d} \ lost, [kind |-> "document", hash |-> run.read, text |-> run.full], run.over)
        /\ run' = [run EXCEPT !.pc = IF run.over THEN "strip" ELSE "chunks", !.bad = bad]
        /\ bad <=> lost # {}
  BY <1>2 DEF PutNode
<1>4. /\ run'.pc = (IF run.over THEN "strip" ELSE "chunks") /\ run'.bad = bad
      /\ run'.over = run.over /\ run'.full = run.full /\ Doc' = d
  BY <1>1, <1>2, <1>3 DEF Runs, Doc, File
<1>5. /\ UNCHANGED <<chunks, vectors>>
      /\ IF run.over \/ ~Exists(d)
           THEN blemished' = blemished /\ appended' = appended
           ELSE blemished' = blemished \cup {d} /\ appended' = appended \cup {d}
  BY <1>2 DEF PutNode, docHistory
<1>6. \A k \in DocKeys \ {d} : rows'[k] = rows[k]
  BY <1>1, <1>2, <1>3 DEF InsertNodes, Keys
<1>7. ~bad => /\ Exists(d)'
              /\ run.over \/ ~Exists(d) => rows'[d].text = run.full
  BY <1>1, <1>2, <1>3 DEF InsertNodes, Exists, Refusals
<1>8. ~Exists(d)' => ~Exists(d)
  BY <1>2, <1>3, <1>7 DEF Exists, InsertNodes
<1>9. (~Exists(d) => Blank(d)') /\ (d \notin appended => OneText(d)')
  BY <1>2, <1>5 DEF WholeInv, KeyInv, Blank, Bare, OneText, NoChunks
<1>10. WriteInv'
  <2>1. run'.pc = "strip" => run.over
    BY <1>4
  <2>2. run'.pc # "vectors"
    BY <1>4
  <2>3. ~run'.bad => Exists(d)'
    BY <1>4, <1>7
  <2>4. run'.pc = "chunks" /\ (run.over \/ d \notin blemished' \cap appended') => Blank(d)'
    <3>1. run'.pc = "chunks" => ~run.over
      BY <1>4
    <3>2. ~run.over /\ Exists(d) => d \in blemished' \cap appended'
      BY <1>5
    <3>. QED BY <1>9, <3>1, <3>2
  <2>5. ~run'.bad /\ (run.over \/ d \notin blemished') => rows'[d].text = run.full
    BY <1>4, <1>5, <1>7
  <2>. QED BY <1>4, <2>1, <2>2, <2>3, <2>4, <2>5 DEF WriteInv
<1>11. StoreInv'
  BY BatchOutsideAfter DEF Storing
<1>12. \A k \in DocKeys \ {d} : KeyInv(k)'
  <2>1. \A k \in DocKeys : ~Writing(k)
    BY <1>1 DEF Writing
  <2>2. \A k \in DocKeys \ {d} : Stored(k)' = Stored(k)
    BY <1>5, <1>6 DEF Stored
  <2>3. \A k \in DocKeys \ {d} : (k \in blemished' <=> k \in blemished) /\ (k \in appended' <=> k \in appended)
    BY <1>5
  <2>. QED BY <2>1, <2>2, <2>3, OtherDocuments
<1>13. KeyInv(d)'
  <2>1. Writing(d)'
    BY <1>4 DEF Writing
  <2>2. d \notin appended' => d \notin appended
    BY <1>5
  <2>. QED BY <1>8, <1>9, <2>1, <2>2 DEF KeyInv
<1>. QED BY <1>10, <1>11, <1>12, <1>13 DEF WholeInv

LEMMA RowsWhole ==
  ASSUME TypeInv, WholeInv, batch.pc = "idle", batch' = batch,
         Strip \/ PutChunks \/ PutVectors \/ (CutShort /\ run.pc \in Inside)
  PROVE  WholeInv'
<1>1. /\ run \in Runs /\ rows \in [Keys -> Row] /\ run.pc \in Inside
      /\ chunks \in [DocKeys -> [Index -> Texts \cup {No}]]
      /\ Doc \in DocKeys /\ run.full \in Texts /\ run.at \in DOMAIN Docs
  BY DocKey DEF TypeInv, DocTypeOK, StoreTypeOK, RunInv, Held, Strip, PutChunks, PutVectors,
     CutShort, Doc, File, Inside
<1>2. PICK d \in DocKeys : d = Doc
  BY <1>1
<1>3. /\ ~run.bad => Exists(d)
      /\ run.pc = "strip" => run.over
      /\ run.pc = "chunks" /\ (run.over \/ d \notin blemished \cap appended) => Blank(d)
      /\ ~run.bad /\ (run.over \/ d \notin blemished) =>
           /\ rows[d].text = run.full
           /\ run.pc = "vectors" => Filled(d, run.full)
  BY <1>1, <1>2 DEF WholeInv, WriteInv
<1>4. StoreInv' /\ rows' = rows /\ KeyInv(d)
  BY <1>2, BatchOutsideAfter DEF Storing, Strip, PutChunks, PutVectors, CutShort, WholeInv
<1>5. \A k \in DocKeys \ {d} : ~Writing(k)
  BY <1>2 DEF Writing
<1>6. ASSUME \A k \in DocKeys \ {d} : Stored(k)' = Stored(k),
             \A k \in DocKeys \ {d} : (k \in blemished' <=> k \in blemished) /\ (k \in appended' <=> k \in appended)
      PROVE  \A k \in DocKeys \ {d} : KeyInv(k)'
  BY <1>5, <1>6, OtherDocuments
<1>7. \A landed : \A k \in DocKeys \ {d} : k \in Settled(landed) <=> k \in blemished
  BY <1>2 DEF Settled
<1>8. ASSUME run'.pc \notin Inside, ~Exists(d) => Blank(d)', d \in blemished' \/ Complete(d)',
             d \notin appended' => OneText(d)', \A k \in DocKeys \ {d} : KeyInv(k)'
      PROVE  WholeInv'
  <2>1. KeyInv(d)'
    BY <1>4, <1>8 DEF KeyInv, Exists
  <2>. QED BY <1>4, <1>8, <2>1, RunOutsideAfter DEF WholeInv
<1>9. NextFile(run).pc \notin Inside /\ Idle.pc \notin Inside
  BY <1>1, NextFileRun, IdleRun DEF Inside
<1>10. CASE Strip
  <2>1. /\ run' = [run EXCEPT !.pc = "chunks"] /\ RemoveChunks(d) /\ run.pc = "strip" /\ blemished' = blemished
    BY <1>2, <1>10 DEF Strip
  <2>2. run'.pc = "chunks" /\ Doc' = d /\ run'.bad = run.bad /\ run'.over = run.over /\ run'.full = run.full
    BY <1>1, <1>2, <2>1 DEF Runs, Doc, File
  <2>3. Blank(d)' /\ OneText(d)' /\ run.over /\ Writing(d)'
    BY <1>1, <1>3, <2>1, <2>2, Blanking DEF Writing
  <2>4. WriteInv'
    BY <1>3, <1>4, <2>2, <2>3 DEF WriteInv, Exists
  <2>5. KeyInv(d)'
    BY <2>3 DEF KeyInv
  <2>6. \A k \in DocKeys \ {d} : Stored(k)' = Stored(k)
    BY <1>1, <1>4, <2>1, Blanking DEF Stored
  <2>7. \A k \in DocKeys \ {d} : (k \in blemished' <=> k \in blemished) /\ (k \in appended' <=> k \in appended)
    BY <2>1 DEF RemoveChunks
  <2>. QED BY <1>4, <1>6, <2>4, <2>5, <2>6, <2>7 DEF WholeInv
<1>11. CASE PutChunks
  <2>0. PICK lost \in Refusals(Whole(run.full)) :
          LET landed == ChunksLanding(d, run.full, lost)
          IN  /\ chunks' = InsertChunks(d, run.full, landed, run.over)
              /\ run' = IF ~GoesOn(landed) THEN Idle
                        ELSE IF run.vec THEN [run EXCEPT !.pc = "vectors", !.bad = @ \/ LosesSome(landed)]
                        ELSE NextFile(run)
              /\ blemished' = IF run.vec /\ GoesOn(landed) THEN blemished ELSE Settled(landed)
    BY <1>2, <1>11 DEF PutChunks
  <2> DEFINE landed == ChunksLanding(d, run.full, lost)
  <2>1. /\ chunks' = InsertChunks(d, run.full, landed, run.over)
        /\ run' = IF ~GoesOn(landed) THEN Idle
                  ELSE IF run.vec THEN [run EXCEPT !.pc = "vectors", !.bad = @ \/ LosesSome(landed)]
                  ELSE NextFile(run)
        /\ blemished' = IF run.vec /\ GoesOn(landed) THEN blemished ELSE Settled(landed)
        /\ run.pc = "chunks" /\ vectors' = vectors /\ appended' = appended
    BY <1>11, <2>0 DEF PutChunks
  <2>2. ~Exists(d) => landed = {}
    BY DEF ChunksLanding
  <2> HIDE DEF landed
  <2>9. PICK t \in Texts : t = run.full
    BY <1>1
  <2>3. ASSUME ~Exists(d) PROVE Blank(d)'
    <3>1. chunks'[d] = chunks[d] /\ Blank(d)
      BY <1>1, <1>4, <2>1, <2>2, <2>3, Filling DEF KeyInv
    <3>. QED BY <2>1, <3>1 DEF Blank, Bare, NoChunks
  <2>4. d \notin appended' => OneText(d)'
    BY <1>1, <1>3, <2>1, Filling
  <2>5. \A k \in DocKeys \ {d} : KeyInv(k)'
    <3>1. \A k \in DocKeys \ {d} : Stored(k)' = Stored(k)
      BY <1>1, <1>4, <2>1, Filling DEF Stored
    <3>. QED BY <1>6, <1>7, <2>1, <3>1
  <2>6. ASSUME GoesOn(landed), ~LosesSome(landed), run.over \/ d \notin blemished
        PROVE  Filled(d, t)'
    <3>1. landed = Whole(t)
      BY <2>6, <2>9 DEF GoesOn, LosesSome
    <3>2. Blank(d) /\ chunks' = InsertChunks(d, t, landed, run.over) /\ vectors' = vectors
      BY <1>3, <2>1, <2>6, <2>9
    <3>. QED BY <1>1, <3>1, <3>2, Filling
  <2>7. CASE run.vec /\ GoesOn(landed)
    <3>1. /\ run'.pc = "vectors" /\ Doc' = d /\ run'.bad = (run.bad \/ LosesSome(landed))
          /\ run'.over = run.over /\ run'.full = run.full /\ blemished' = blemished
      BY <1>1, <1>2, <2>1, <2>7 DEF Runs, Doc, File
    <3>2. run.over \/ d \notin blemished => (~run'.bad => Filled(d, t)')
      BY <2>6, <2>7, <3>1
    <3>3. WriteInv'
      BY <1>3, <1>4, <2>9, <3>1, <3>2 DEF WriteInv, Exists
    <3>4. KeyInv(d)'
      <4>1. Writing(d)'
        BY <3>1 DEF Writing
      <4>. QED BY <1>4, <2>3, <2>4, <4>1 DEF KeyInv, Exists
    <3>. QED BY <1>4, <2>5, <3>3, <3>4 DEF WholeInv
  <2>8. CASE ~(run.vec /\ GoesOn(landed))
    <3>1. run' \in {Idle, NextFile(run)} /\ blemished' = Settled(landed)
      BY <2>1, <2>8
    <3>2. ASSUME d \notin blemished' PROVE Complete(d)'
      <4>1. GoesOn(landed) /\ ~LosesSome(landed) /\ ~run.bad /\ (run.over \/ d \notin blemished)
        BY <1>2, <3>1, <3>2 DEF Settled
      <4>2. Filled(d, t)' /\ rows'[d].text = t
        BY <1>3, <1>4, <2>6, <2>9, <4>1
      <4>. QED BY <4>2, FilledAfter
    <3>. QED BY <1>8, <1>9, <2>3, <2>4, <2>5, <3>1, <3>2
  <2>. QED BY <2>7, <2>8
<1>12. CASE PutVectors
  <2>0. PICK lost \in Refusals(Whole(run.full)) :
          LET landed == VectorsLanding(d, run.full, lost)
          IN  /\ vectors' = vectors \cup ({d} \X landed)
              /\ run' = IF GoesOn(landed) THEN NextFile(run) ELSE Idle
              /\ blemished' = Settled(landed)
    BY <1>2, <1>12 DEF PutVectors
  <2> DEFINE landed == VectorsLanding(d, run.full, lost)
  <2>1. /\ vectors' = vectors \cup ({d} \X landed) /\ run' \in {Idle, NextFile(run)}
        /\ blemished' = Settled(landed)
        /\ run.pc = "vectors" /\ chunks' = chunks /\ appended' = appended
    BY <1>12, <2>0 DEF PutVectors
  <2>2. Blank(d) => landed = {}
    BY <1>1, ChunkTypes DEF VectorsLanding, Blank, NoChunks
  <2> HIDE DEF landed
  <2>3. ASSUME ~Exists(d) PROVE Blank(d)'
    <3>1. vectors' = vectors /\ Blank(d)
      BY <1>4, <2>1, <2>2, <2>3 DEF KeyInv
    <3>. QED BY <2>1, <3>1 DEF Blank, Bare, NoChunks
  <2>4. d \notin appended' => OneText(d)'
    BY <1>4, <2>1 DEF KeyInv, OneText
  <2>5. \A k \in DocKeys \ {d} : KeyInv(k)'
    <3>1. \A k \in DocKeys \ {d} : Stored(k)' = Stored(k)
      BY <1>4, <2>1 DEF Stored
    <3>. QED BY <1>6, <1>7, <2>1, <3>1
  <2>6. ASSUME d \notin blemished' PROVE Complete(d)'
    <3>1. GoesOn(landed) /\ ~LosesSome(landed) /\ ~run.bad /\ (run.over \/ d \notin blemished)
      BY <1>2, <2>1, <2>6 DEF Settled
    <3>2. landed = Whole(run.full)
      BY <3>1 DEF GoesOn, LosesSome
    <3>3. Filled(d, run.full) /\ rows'[d].text = run.full
      BY <1>3, <1>4, <2>1, <3>1
    <3>. QED BY <1>1, <2>1, <3>2, <3>3, Filling
  <2>. QED BY <1>8, <1>9, <2>1, <2>3, <2>4, <2>5, <2>6
<1>13. CASE CutShort
  <2>1. run' = Idle /\ blemished' = blemished \cup {d} /\ UNCHANGED <<chunks, vectors, appended>>
    BY <1>1, <1>2, <1>13 DEF CutShort, Inside
  <2>2. (~Exists(d) => Blank(d)') /\ (d \notin appended' => OneText(d)')
    BY <1>4, <2>1 DEF KeyInv, Blank, Bare, OneText, NoChunks
  <2>3. \A k \in DocKeys \ {d} : KeyInv(k)'
    <3>1. \A k \in DocKeys \ {d} : Stored(k)' = Stored(k)
      BY <1>4, <2>1 DEF Stored
    <3>. QED BY <1>6, <2>1, <3>1
  <2>. QED BY <1>8, <1>9, <2>1, <2>2, <2>3
<1>. QED BY <1>10, <1>11, <1>12, <1>13

\* A batch writes a document, marked until its last row is in.
LEMMA BatchWhole ==
  ASSUME TypeInv, WholeInv, run' = run, PipeNext
  PROVE  WholeInv'
<1>1. batch \in Batches /\ rows \in [Keys -> Row] /\ chunks \in [DocKeys -> [Index -> Texts \cup {No}]]
  BY DEF TypeInv, PipeTypeOK, StoreTypeOK
<1>2. run.pc = "idle"
  BY DEF TypeInv, OneWriter, PipeNext, BeginBatch, Extract, EmbedOne, StripOne, NodeOne, ChunksOne,
     VectorsOne, StoreRefuses, BatchDies
<1>3. WriteInv' /\ (\A k \in DocKeys : ~Writing(k) /\ ~Writing(k)')
  BY <1>2, RunOutside, RunOutsideAfter DEF Inside
<1>4. batch.pc \in Storing => batch.at \in DOMAIN Docs /\ Key \in DocKeys /\ Text \in Texts
  BY DocKey DEF TypeInv, BatchInv, Key
<1>5. CASE BeginBatch \/ Extract \/ EmbedOne \/ StoreRefuses \/ BatchDies
  <2>1. \A k \in DocKeys : KeyInv(k)'
    <3>1. \A k \in DocKeys : /\ Stored(k)' = Stored(k)
                            /\ (k \in blemished <=> k \in blemished') /\ (k \in appended <=> k \in appended')
      BY <1>5 DEF BeginBatch, Extract, EmbedOne, StoreRefuses, BatchDies, storeVars, docHistory, Stored
    <3>. QED BY <1>3, <3>1, KeptKey DEF WholeInv
  <2>2. CASE batch'.pc \notin Storing
    BY <1>3, <2>1, <2>2, BatchOutsideAfter DEF WholeInv
  <2>3. CASE (batch'.pc = "strip" /\ batch'.over) \/ (batch'.pc = "node" /\ ~batch'.over)
    <3>1. StoreInv'
      BY <2>3 DEF StoreInv
    <3>. QED BY <1>3, <2>1, <3>1 DEF WholeInv
  <2>4. CASE BeginBatch
    <3>1. batch'.pc = "extract"
      BY <2>4, IdleBatch DEF BeginBatch, Batches
    <3>. QED BY <2>2, <3>1 DEF Storing
  <2>5. CASE Extract
    <3>1. batch'.pc \in {"extract", "embed"}
      BY <1>1, <2>5 DEF Extract, Batches
    <3>. QED BY <2>2, <3>1 DEF Storing
  <2>6. CASE batch' = NoBatch
    BY <2>2, <2>6, IdleBatch DEF Storing
  <2>7. CASE EmbedOne /\ batch' # NoBatch
    <3>1. batch.at \in DOMAIN Docs
      <4>1. batch.at \in 1 .. Len(Docs) + 1 /\ ~(batch.at > Len(Docs))
        BY <1>1, <2>7 DEF EmbedOne, Batches
      <4>. QED BY <4>1, DocKey
    <3>2. CASE batch' \in {Next1(batch), Failed(batch)}
      BY <1>1, <2>2, <3>1, <3>2, NextDocument DEF Storing
    <3>3. CASE batch' \notin {Next1(batch), Failed(batch)}
      <4>1. PICK vec \in BOOLEAN :
              batch' = [batch EXCEPT !.pc = IF batch.over THEN "strip" ELSE "node", !.vec = vec]
        BY <2>7, <3>3 DEF EmbedOne
      <4>2. batch'.pc = (IF batch.over THEN "strip" ELSE "node") /\ batch'.over = batch.over
        BY <1>1, <4>1 DEF Batches
      <4>. QED BY <2>3, <4>2
    <3>. QED BY <3>2, <3>3
  <2>8. CASE StoreRefuses
    BY <1>1, <1>4, <2>2, <2>8, NextDocument DEF StoreRefuses, Storing
  <2>. QED BY <1>5, <2>4, <2>5, <2>6, <2>7, <2>8 DEF BatchDies
<1>6. ASSUME batch.pc \in Storing, NEW d \in DocKeys, d = Key, NEW t \in Texts, t = Text
      PROVE  /\ StripOne => WholeInv'
             /\ NodeOne => WholeInv'
             /\ ChunksOne => WholeInv'
             /\ VectorsOne => WholeInv'
  <2>1. KeyInv(d) /\ StoreInv
    BY DEF WholeInv
  <2>2. ASSUME NEW x \in Storing, batch' = [batch EXCEPT !.pc = x]
        PROVE  batch'.pc = x /\ batch'.over = batch.over /\ Key' = d /\ Text' = t
    BY <1>1, <1>6, <2>2 DEF Batches, Key, Text
  <2>3. Next1(batch).pc = "embed" /\ Failed(batch).pc = "embed"
    BY <1>1, <1>4, <1>6, NextDocument
  <2>4. ASSUME \A k \in DocKeys \ {d} : Stored(k)' = Stored(k) /\ (k \in blemished <=> k \in blemished')
                                        /\ (k \in appended <=> k \in appended'),
               d \notin appended' => OneText(d)', ~Exists(d)' => Blank(d)', d \in blemished' \/ Complete(d)',
               batch'.pc \notin Storing \/ StoreInv'
        PROVE  WholeInv'
    <3>1. KeyInv(d)'
      BY <2>4 DEF KeyInv
    <3>2. \A k \in DocKeys \ {d} : KeyInv(k)'
      BY <1>3, <2>4, OtherDocuments
    <3>. QED BY <1>3, <2>4, <3>1, <3>2, BatchOutsideAfter DEF WholeInv
  <2>5. ASSUME StripOne PROVE WholeInv'
    <3>1. batch' = [batch EXCEPT !.pc = "node"] /\ RemoveChunks(d) /\ blemished' = blemished \cup {d} /\ rows' = rows
          /\ \A k \in DocKeys \ {d} : (k \in appended <=> k \in appended')
      BY <1>6, <2>5 DEF StripOne, RemoveChunks
    <3>2. Blank(d)' /\ OneText(d)' /\ \A k \in DocKeys \ {d} : Stored(k)' = Stored(k)
      BY <1>1, <3>1, Blanking DEF Stored
    <3>3. StoreInv'
      BY <2>2, <3>1, <3>2 DEF StoreInv, Storing
    <3>. QED BY <2>4, <3>1, <3>2, <3>3
  <2>6. ASSUME NodeOne PROVE WholeInv'
    <3>1. CASE batch.over \/ ~Exists(d)
      <4>1. /\ rows' = [rows EXCEPT ![d] = [kind |-> "document", hash |-> No, text |-> t]]
            /\ batch' = [batch EXCEPT !.pc = "chunks"] /\ blemished' = blemished \cup {d}
            /\ UNCHANGED <<chunks, vectors, appended>> /\ batch.pc = "node"
        BY <1>6, <2>6, <3>1 DEF NodeOne
      <4>2. Exists(d)' /\ rows'[d].text = t /\ \A k \in DocKeys \ {d} : rows'[k] = rows[k]
        BY <1>1, <4>1 DEF Exists, Keys
      <4>3. Blank(d)'
        BY <1>6, <2>1, <3>1, <4>1 DEF KeyInv, StoreInv, Blank, Bare, NoChunks
      <4>4. StoreInv'
        BY <2>2, <4>1, <4>2, <4>3 DEF StoreInv, Storing
      <4>5. d \notin appended' => OneText(d)'
        BY <2>1, <4>1 DEF KeyInv, OneText
      <4>. QED BY <2>4, <4>1, <4>2, <4>3, <4>4, <4>5 DEF Stored
    <3>2. CASE ~(batch.over \/ ~Exists(d))
      <4>1. batch' = Failed(batch) /\ UNCHANGED <<rows, blemished, chunks, vectors, appended>>
        BY <1>6, <2>6, <3>2 DEF NodeOne
      <4>2. \A k \in DocKeys : KeyInv(k)'
        BY <1>3, <4>1, KeptKey DEF WholeInv, Stored
      <4>. QED BY <1>3, <2>3, <4>1, <4>2, BatchOutsideAfter DEF WholeInv, Storing
    <3>. QED BY <3>1, <3>2
  <2>7. ASSUME ChunksOne PROVE WholeInv'
    <3>1. PICK landed :
            /\ chunks' = InsertChunks(d, t, landed, batch.over)
            /\ batch' = IF landed # Whole(t) THEN Failed(batch)
                        ELSE IF batch.vec THEN [batch EXCEPT !.pc = "vectors"] ELSE Next1(batch)
            /\ blemished' = IF landed # Whole(t) \/ batch.vec THEN blemished ELSE blemished \ {d}
            /\ UNCHANGED <<rows, vectors, appended>> /\ batch.pc = "chunks"
      BY <1>6, <2>7 DEF ChunksOne
    <3>2. Blank(d) /\ d \in blemished /\ Exists(d) /\ rows[d].text = t
      BY <1>6, <2>1, <3>1 DEF StoreInv
    <3>3. OneText(d)' /\ \A k \in DocKeys \ {d} : Stored(k)' = Stored(k)
      BY <1>1, <1>6, <3>1, <3>2, Filling DEF Stored
    <3>4. Exists(d)' /\ rows'[d].text = t
      BY <3>1, <3>2 DEF Exists
    <3>5. landed = Whole(t) => Filled(d, t)' /\ Complete(d)'
      BY <1>1, <1>6, <3>1, <3>2, <3>4, Filling, FilledAfter
    <3>6. CASE landed # Whole(t)
      BY <2>3, <2>4, <3>1, <3>2, <3>3, <3>4, <3>6 DEF Storing
    <3>7. CASE landed = Whole(t) /\ batch.vec
      <4>1. StoreInv'
        BY <2>2, <3>1, <3>2, <3>4, <3>5, <3>7 DEF StoreInv, Storing
      <4>. QED BY <2>4, <3>1, <3>3, <3>4, <3>5, <3>7, <4>1
    <3>8. CASE landed = Whole(t) /\ ~batch.vec
      BY <2>3, <2>4, <3>1, <3>3, <3>4, <3>5, <3>8 DEF Storing
    <3>. QED BY <3>6, <3>7, <3>8
  <2>8. ASSUME VectorsOne PROVE WholeInv'
    <3>1. PICK landed :
            /\ vectors' = vectors \cup ({d} \X landed)
            /\ batch' = IF landed # Whole(t) THEN Failed(batch) ELSE Next1(batch)
            /\ blemished' = IF landed # Whole(t) THEN blemished ELSE blemished \ {d}
            /\ UNCHANGED <<rows, chunks, appended>> /\ batch.pc = "vectors"
      BY <1>6, <2>8 DEF VectorsOne
    <3>2. Filled(d, t) /\ d \in blemished /\ Exists(d) /\ rows'[d].text = t
      BY <1>6, <2>1, <3>1 DEF StoreInv
    <3>3. Exists(d)' /\ (landed = Whole(t) => Complete(d)')
      BY <1>1, <1>6, <3>1, <3>2, Filling DEF Exists
    <3>4. \A k \in DocKeys \ {d} : Stored(k)' = Stored(k)
      BY <3>1 DEF Stored
    <3>5. d \notin appended' => OneText(d)'
      BY <2>1, <3>1 DEF KeyInv, OneText
    <3>. QED BY <2>3, <2>4, <3>1, <3>2, <3>3, <3>4, <3>5 DEF Storing
  <2>. QED BY <2>5, <2>6, <2>7, <2>8
<1>7. CASE StripOne \/ NodeOne \/ ChunksOne \/ VectorsOne
  <2>1. batch.pc \in Storing
    BY <1>7 DEF StripOne, NodeOne, ChunksOne, VectorsOne, Storing
  <2>. QED BY <1>4, <1>6, <1>7, <2>1
<1>. QED BY <1>5, <1>7 DEF PipeNext

\* Edits, the codebase ingest and the sweeps leave the documents alone.
LEMMA LifeWhole ==
  ASSUME SweepInv, TypeInv, WholeInv, batch' = batch, LifeNext
  PROVE  WholeInv'
<1>1. rows \in [Keys -> Row] /\ chunks \in [DocKeys -> [Index -> Texts \cup {No}]]
  BY DEF TypeInv, StoreTypeOK
<1>2. CASE Retire \/ Prune
  <2>1. PICK taken \in SUBSET {Source, Symbol} : Sweep(taken) /\ taken \in SUBSET Keys
    BY <1>2, TakesCode DEF SweepInv
  <2>2. /\ run'.pc = run.pc /\ run'.at = run.at /\ run'.bad = run.bad /\ run'.over = run.over
        /\ run'.full = run.full /\ UNCHANGED <<blemished, appended>>
    BY <2>1, SweptRun DEF TypeInv, Sweep, docHistory
  <2>3. ASSUME NEW k \in DocKeys PROVE Stored(k)' = Stored(k)
    <3>1. k \notin taken /\ k \in Keys
      BY <2>1, KeysAssumption DEF Keys
    <3>. QED BY <1>1, <2>1, <3>1 DEF Sweep, DeleteNodes, Stored
  <2>. QED BY <2>2, <2>3, KeptWhole
<1>3. CASE ~(Retire \/ Prune)
  <2>1. run' = run /\ UNCHANGED <<chunks, vectors, blemished, appended>>
    BY <1>3 DEF LifeNext, Edit, ReadSource, WriteFile, WriteSymbols, CodeFails, WalkTree, ListStored,
       SweepFails, storeVars, docHistory
  <2>2. \A k \in Keys \ {Source, Symbol} : rows'[k] = rows[k]
    BY <1>1, <1>3 DEF LifeNext, Edit, ReadSource, WriteFile, WriteSymbols, CodeFails, WalkTree, ListStored,
       SweepFails, storeVars, InsertNode
  <2>3. \A k \in DocKeys : Stored(k)' = Stored(k)
    BY <2>1, <2>2, KeysAssumption DEF Stored, Keys
  <2>. QED BY <2>1, <2>3, KeptWhole
<1>. QED BY <1>2, <1>3

\* The inductive invariant of the documents.
THEOREM WholeInvariant == CorpusSpec => [](TypeInv /\ WholeInv)
<1>1. CorpusInit => WholeInv
  <2> SUFFICES ASSUME CorpusInit PROVE WholeInv
    OBVIOUS
  <2>1. run.pc \notin Inside /\ batch.pc = "idle"
    BY IdleRun, IdleBatch DEF CorpusInit, DocInit, PipeInit, Inside
  <2>2. WriteInv /\ StoreInv
    BY <2>1, RunOutside DEF StoreInv
  <2>3. ASSUME NEW k \in DocKeys PROVE KeyInv(k)
    <3>1. rows[k] = NoRow /\ chunks[k] = NoChunks /\ vectors = {}
      BY DEF CorpusInit, StoreInit, Keys
    <3>. QED BY <3>1, TextsAssumption DEF KeyInv, Blank, Bare, OneText, NoRow, NoChunks
  <2>. QED BY <2>2, <2>3 DEF WholeInv
<1>2. SweepInv /\ TypeInv /\ WholeInv /\ [CorpusNext]_corpusVars => WholeInv'
  <2> SUFFICES ASSUME SweepInv, TypeInv, WholeInv, [CorpusNext]_corpusVars PROVE WholeInv'
    OBVIOUS
  <2>1. CASE batch.pc = "idle" /\ DocNext /\ UNCHANGED batch
    <3>1. CASE CutShort /\ run.pc \notin Inside
      <4>1. run' = Idle /\ UNCHANGED storeVars
        BY <3>1 DEF CutShort, Inside, storeVars, docHistory
      <4>2. \A k \in DocKeys : KeyInv(k)'
        <5>1. \A k \in DocKeys : Stored(k)' = Stored(k) /\ ~Writing(k)
          BY <3>1, <4>1, RunOutside DEF storeVars, Stored
        <5>. QED BY <4>1, <5>1, KeptKey DEF WholeInv, storeVars, docHistory
      <4>3. WriteInv' /\ StoreInv'
        BY <2>1, <4>1, IdleRun, RunOutsideAfter, BatchOutsideAfter DEF Inside, Storing
      <4>. QED BY <4>2, <4>3 DEF WholeInv
    <3>. QED BY <2>1, <3>1, WalkWhole, NodeWhole, RowsWhole DEF DocNext
  <2>2. CASE LifeNext /\ UNCHANGED batch
    BY <2>2, LifeWhole
  <2>3. CASE PipeNext /\ UNCHANGED run
    BY <2>3, BatchWhole
  <2>4. CASE UNCHANGED corpusVars
    <3>1. \A k \in DocKeys : Stored(k)' = Stored(k)
      BY <2>4 DEF corpusVars, storeVars, Stored
    <3>. QED BY <2>4, <3>1, KeptWhole DEF corpusVars, storeVars, docHistory
  <2>. QED BY <2>1, <2>2, <2>3, <2>4 DEF CorpusNext
<1>. QED BY <1>1, <1>2, TypeInvariant, PTL DEF CorpusSpec

\* A document the walk wrote is whole: its chunks are those of its text, all of
\* them and no others, and its vectors all there or none, unless a run was cut
\* inside it, had a row of it refused, appended to it or converted another text
\* than it hashed; and unless it was appended to it holds pieces of one text
\* only (ingest_documents and Pipeline::store_document, row by row, against each
\* other, the sweeps and the codebase ingest).
THEOREM DocumentsWhole == CorpusSpec => []DocumentsAreWhole
<1>1. TypeInv /\ WholeInv => DocumentsAreWhole
  <2> SUFFICES ASSUME TypeInv, WholeInv, NEW k \in DocKeys
               PROVE  /\ rows[k].text \in Texts /\ k \notin blemished /\ ~Writing(k) => WrittenWhole(k)
                      /\ k \notin appended => OneText(k)
    BY DEF DocumentsAreWhole, OneText
  <2>1. KeyInv(k)
    BY DEF WholeInv
  <2>2. Complete(k) => WrittenWhole(k)
    BY DEF Complete, Cut, WrittenWhole
  <2>. QED BY <2>1, <2>2 DEF KeyInv
<1>. QED BY <1>1, WholeInvariant, PTL
=============================================================================
