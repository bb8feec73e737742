----------------------------- MODULE Lifecycle -----------------------------
(***************************************************************************)
(* The verbs that take source out of a graph, codebase.retire and          *)
(* codebase.prune, beside the writer that puts it in, and a tree that      *)
(* changes under both.  CodebaseIngest models that writer in full; here    *)
(* it is its two node transactions.                                        *)
(***************************************************************************)
EXTENDS Documents

VARIABLES
  code,     \* the text a codebase ingest is writing, and its step
  sweep,    \* the retire in progress: what its walk saw, what was there and
            \* what of it hidden from the walk (history), what it will take
  raced     \* (history) a sweep took the file between its node and its symbols
lifeVars == <<code, sweep, raced>>

NoCode == [pc |-> "idle", text |-> No]
NoSweep == [pc |-> "idle", seen |-> {}, here |-> {}, hid |-> {}, gone |-> {}]

LifeTypeOK ==
  /\ code \in [pc : {"idle", "file", "symbols"}, text : Texts \cup {No}]
  /\ sweep \in [pc : {"idle", "list", "sweep"}, seen : SUBSET {Source},
              here : SUBSET {Source}, hid : SUBSET {Source}, gone : SUBSET {Source}]
  /\ raced \in BOOLEAN

Edit(f) ==
  /\ Spend("edit")
  /\ \E t \in Texts \cup {Dark, Hidden, Gone} : t # tree[f] /\ tree' = [tree EXCEPT ![f] = t]
  /\ UNCHANGED <<storeVars, run, code, sweep, raced>>

StoredSymbolHash == IF rows[Source].kind = "file" THEN rows[Source].hash ELSE No

ReadSource ==
  /\ code.pc = "idle" /\ Spend("code")
  /\ tree[Source] \in Texts /\ StoredSymbolHash # tree[Source]
  /\ code' = [pc |-> "file", text |-> tree[Source]]
  /\ UNCHANGED <<tree, storeVars, run, sweep, raced>>

WriteFile ==
  /\ code.pc = "file"
  /\ rows' = InsertNode(Source, [kind |-> "file", hash |-> code.text, text |-> No], TRUE)
  /\ code' = [code EXCEPT !.pc = "symbols"]
  /\ raced' = FALSE
  /\ UNCHANGED <<outside, chunks, vectors, edges, docHistory, run, sweep>>

WriteSymbols ==
  /\ code.pc = "symbols"
  /\ rows' = InsertNode(Symbol, [kind |-> "symbol", hash |-> No, text |-> No], TRUE)
  /\ code' = NoCode
  /\ UNCHANGED <<outside, chunks, vectors, edges, docHistory, run, sweep, raced>>

CodeFails ==
  /\ code.pc # "idle" /\ code' = NoCode
  /\ UNCHANGED <<outside, storeVars, run, sweep, raced>>

(***************************************************************************)
(* codebase.retire walks the tree, then asks the graph which files it      *)
(* holds, then deletes, in one statement, the families of those the walk   *)
(* did not see.                                                            *)
(***************************************************************************)
Present == {f \in {Source} : tree[f] # Gone}
Unentered == {f \in {Source} : tree[f] = Hidden}
\* Mutant: a file that could not be assessed was not seen.
WalkedAssessed == {f \in {Source} : tree[f] \in Texts}
\* The keys of the files the walk saw, assessed or skipped.  What an error of
\* the walk itself keeps from it is neither: "walk error", and on.
Walked == {f \in {Source} : tree[f] \in Texts} \cup {f \in {Source} : tree[f] = Dark}

WalkTree ==
  /\ sweep.pc = "idle" /\ Spend("sweep")
  /\ sweep' = [pc |-> "list", seen |-> Walked, here |-> Present, hid |-> Unentered, gone |-> {}]
  /\ UNCHANGED <<tree, storeVars, run, code, raced>>

ListStored ==
  /\ sweep.pc = "list"
  /\ LET gone == {f \in {Source} : rows[f].kind = "file"} \ sweep.seen
     IN sweep' = IF gone = {} THEN NoSweep ELSE [sweep EXCEPT !.pc = "sweep", !.gone = gone]
  /\ UNCHANGED <<outside, storeVars, run, code, raced>>

\* Mutant: the nodes that name the file are left to the foreign keys.
FamilyOfFiles(fs) == {k \in Keys : Exists(k) /\ k \in fs}

\* The file nodes and the nodes whose file_key names them.
Family(fs) ==
  {k \in Keys : Exists(k) /\ (k \in fs \/ (rows[k].kind = "symbol" /\ Source \in fs))}

Sweep(taken) ==
  /\ DeleteNodes(taken)
  /\ raced' = (\/ Source \in taken /\ code.pc = "symbols"
               \/ raced /\ (code.pc = "symbols" \/ (Symbol \notin taken /\ Exists(Symbol))))
  /\ run' = [run EXCEPT !.swept = @ \/ (taken # {} /\ run.pc \in {"declare", "stubs", "edges", "scan", "link"})]
  /\ UNCHANGED <<tree, docHistory, code>>

Retire ==
  /\ sweep.pc = "sweep"
  /\ Sweep(Family(sweep.gone))
  /\ sweep' = NoSweep
  /\ UNCHANGED left

\* codebase.prune: the nodes whose file_key names no node of this graph.
Orphans == {k \in Keys : rows[k].kind = "symbol" /\ ~Exists(Source)}
Prune ==
  /\ Spend("sweep")
  /\ Sweep(Orphans)
  /\ UNCHANGED sweep

SweepFails ==
  /\ sweep.pc # "idle" /\ sweep' = NoSweep
  /\ UNCHANGED <<outside, storeVars, run, code, raced>>

LifeInit ==
  /\ code = NoCode /\ sweep = NoSweep /\ raced = FALSE
LifeNext ==
  \/ \E f \in Files : Edit(f)
  \/ ReadSource \/ WriteFile \/ WriteSymbols \/ CodeFails
  \/ WalkTree \/ ListStored \/ Retire \/ Prune \/ SweepFails
-----------------------------------------------------------------------------
(***************************************************************************)
(* A sweep takes no file that was there when its walk passed, unassessable *)
(* or not, save one in a directory the walk could not enter, and nothing   *)
(* of a file the graph still holds.                                        *)
(***************************************************************************)
SweepsSpareThePresent ==
  [][\A k \in Keys : Exists(k) /\ ~Exists(k)' =>
       IF k = Symbol THEN ~Exists(Source)' ELSE k \notin sweep.here \ sweep.hid]_<<storeVars, run, lifeVars>>

(***************************************************************************)
(* "A file that is present but could not be assessed is never retired"     *)
(* (spec 020 FR3), whatever kept the walk from it.                         *)
(***************************************************************************)
PresentIsNeverRetired == [][Retire => sweep.gone \cap sweep.here = {}]_<<storeVars, run, lifeVars>>

(***************************************************************************)
(* A symbol is left without its file only when a sweep fell between the    *)
(* two transactions of the ingest that was writing it.                     *)
(***************************************************************************)
OrphansAreRaced == rows[Symbol].kind = "symbol" /\ ~Exists(Source) => raced
=============================================================================
