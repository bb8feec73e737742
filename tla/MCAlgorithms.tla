---------------------------- MODULE MCAlgorithms ----------------------------
(***************************************************************************)
(* What the rest of the system relies on and computes in one call or one   *)
(* pass: how a text is cut, how the graph is read, how names become edges. *)
(* The five share no state, so a run studies one of them.                  *)
(***************************************************************************)
EXTENDS Windows, Segments, GraphWalk, Reads, Resolution

UpTo(n, S) == UNION {[1 .. k -> S] : k \in 0 .. n}

MCTexts == UpTo(3, {"letter", "wide", "space"})

MCSegTexts ==
  UpTo(3, {"letter", "wide", "space", "line", "stop"}) \cup [1 .. 5 -> {"letter", "space", "stop"}]
    \cup [1 .. 4 -> {"wide", "line"}]
Spans == {<<0, 1>>, <<0, 3>>, <<1, 2>>, <<2, 4>>, <<3, 6>>}
MCDefs == {<<>>} \cup {<<a>> : a \in Spans} \cup (Spans \X Spans)

\* A line with a shortcut, a cycle with a way out, a diamond with a loop and a
\* pair of edges that differ only in their label.
To(a, b, l) == [src |-> a, dst |-> b, label |-> l]
MCGraphs ==
  {{To("a", "b", "calls"), To("b", "c", "calls"), To("a", "c", "imports")},
   {To("a", "b", "calls"), To("b", "a", "calls"), To("b", "c", "calls"), To("c", "d", "calls"), To("a", "d", "imports")},
   {To("a", "b", "calls"), To("a", "b", "imports"), To("a", "c", "calls"), To("b", "d", "calls"), To("c", "d", "calls"), To("a", "a", "calls")}}
MCQuestions ==
  [verb : {"traverse"}, from : {"a", "b"}, to : {"a"}, depth : {0, 1, 2, 5}, limit : {0, 2, 3, 5, 9},
   labels : {{}, {"calls"}, {"calls", "other"}}, direction : {"out"}]
  \cup [verb : {"shortest-path"}, from : {"a", "b"}, to : {"a", "d"}, depth : {0}, limit : {0, 2, 3, 5, 9},
        labels : {{}, {"calls"}}, direction : {"out"}]
  \cup [verb : {"neighbors"}, from : {"a", "b"}, to : {"a"}, depth : {0}, limit : {0, 2, 9},
        labels : {{}, {"calls"}}, direction : Directions]

MCInquiries ==
  [verb : {"list"}, limit : {1, 2, 5}, matching : {<<>>}, near : {<<>>}]
  \cup [verb : {"orient"}, limit : {0}, matching : {<<>>}, near : {<<>>}]
  \cup [verb : {"hybrid"}, limit : {0, 1, 2, 5}, matching : {<<>>, <<0>>, [c \in {2, 3} |-> 3 - c], <<1, 0, 1>>},
        near : {<<1, 2, 3>>, <<2, 2, 1>>}]

\* The chunks' natural keys are not in the order of their ids.
MCPlace == <<3, 1, 2>>

\* Three files, the second in a directory the others' paths are part of; lists
\* with a method, a symbol declared twice, an import and an overload.
MCParts == <<{"src", "db"}, {"src", "db", "keys"}, {"src", "net"}>>
MCPackage == <<"db", "keys", "db">>
Plain(q, key, line) ==
  [name |-> q[Len(q)], qname |-> q, key |-> key, line |-> line, end |-> line + 2,
   usr |-> "none", parent |-> SubSeq(q, 1, Len(q) - 1), import |-> FALSE]
MCLists ==
  {<<>>,
   <<Plain(<<"f">>, 1, 1)>>,
   <<[Plain(<<"C", "f">>, 2, 4) EXCEPT !.usr = "u"], [Plain(<<"f">>, 3, 5) EXCEPT !.usr = "u"]>>,
   <<[Plain(<<"f">>, 4, 7) EXCEPT !.import = TRUE], [Plain(<<"f">>, 3, 8) EXCEPT !.usr = "u"], Plain(<<"f">>, 1, 8)>>}
Call == [kind |-> "calls", from |-> 1, path |-> <<"f">>, qname |-> <<"f">>, usr |-> "none", file |-> 0, files |-> {}, line |-> 0]
Use(path) == <<[Call EXCEPT !.from = 0, !.path = path]>>
MCRefs(scheme) ==
  CASE scheme = "rust" ->
         {Use(<<"crate", "db", "{", "keys", "{", "f", ",", "self", "}", ",", "g", "as", "f", "}">>),
          Use(<<"super", "keys", "f", "as", "h">>), Use(<<"f", "as", "h">>),
          Use(<<"net", "db", "net", "db", "f">>), Use(<<"db", "*">>), Use(<<"net", "{", "self", ",", "f", "}">>),
          Use(<<"net", "{", "db", "self", ",", "{", "}", ",", "{", "self", ",", "f", "}", "}">>)}
    [] scheme = "python" ->
         {<<Call, [Call EXCEPT !.qname = <<"self", "f">>]>>, <<[Call EXCEPT !.qname = <<"C", "f">>]>>}
    [] scheme = "cpp" ->
         {<<[Call EXCEPT !.usr = "u"], [Call EXCEPT !.file = 2, !.line = 5]>>, <<Call>>,
          <<[Call EXCEPT !.usr = "u", !.file = 3, !.line = 1]>>}
    [] scheme = "syntax" ->
         {<<Call>>, <<[Call EXCEPT !.kind = "imports", !.from = 0, !.qname = <<"x", "keys">>],
                      [Call EXCEPT !.kind = "imports", !.from = 0, !.qname = <<"db">>]>>}
    [] scheme = "lsp" ->
         {<<Call, [Call EXCEPT !.files = {2}, !.line = 6]>>, <<[Call EXCEPT !.files = {1, 2}, !.line = 1]>>,
          <<[Call EXCEPT !.qname = <<"C", "f">>]>>,
          <<[Call EXCEPT !.kind = "implements"],
            [Call EXCEPT !.kind = "satisfies", !.from = 0, !.qname = <<"C", "f">>, !.files = {2}, !.line = 6]>>}
\* A call has a caller, and it is not an import.
MCCorpora ==
  {c \in UNION {[scheme : {s}, symbols : [Files -> MCLists],
                 refs : {[f \in Files |-> IF f = g THEN r ELSE <<>>] : g \in Files, r \in MCRefs(s)}] : s \in Schemes} :
     \A f \in Files : \A k \in DOMAIN c.refs[f] :
       LET n == c.refs[f][k].from IN n = 0 \/ (n <= Len(c.symbols[f]) /\ ~c.symbols[f][n].import)}

-----------------------------------------------------------------------------
VARIABLE studied
algorithmVars == <<studied, windowVars, segmentVars, walkVars, readVars, resolutionVars>>

\* What is not studied stands still.
Init ==
  /\ studied \in {"windows", "segments", "walk", "reads", "resolution"}
  /\ IF studied = "windows" THEN WindowsInit
     ELSE job = "idle" /\ start = 0 /\ windows = <<>> /\ open = FALSE
  /\ IF studied = "segments" THEN SegmentsInit
     ELSE plan = "idle" /\ loop = "idle" /\ pieces = <<>>
  /\ IF studied = "walk" THEN WalkInit
     ELSE graph = "idle" /\ ask = "idle" /\ rows = {} /\ level = 0 /\ reply = "idle" /\ at = "idle"
  /\ IF studied = "reads" THEN ReadsInit
     ELSE /\ stamp = "idle" /\ vectors = "idle" /\ inquiry = "idle" /\ told = "idle"
          /\ seen = {} /\ where = "idle" /\ raced = {} /\ writes = 0
  /\ IF studied = "resolution" THEN ResolutionInit
     ELSE corpus = "idle" /\ defs = <<>> /\ indexed = {} /\ resolved = {} /\ edges = {}

Next ==
  /\ UNCHANGED studied
  /\ \/ studied = "windows" /\ WindowsNext /\ UNCHANGED <<segmentVars, walkVars, readVars, resolutionVars>>
     \/ studied = "segments" /\ SegmentsNext /\ UNCHANGED <<windowVars, walkVars, readVars, resolutionVars>>
     \/ studied = "walk" /\ WalkNext /\ UNCHANGED <<windowVars, segmentVars, readVars, resolutionVars>>
     \/ studied = "reads" /\ ReadsNext /\ UNCHANGED <<windowVars, segmentVars, walkVars, resolutionVars>>
     \/ studied = "resolution" /\ ResolutionNext /\ UNCHANGED <<windowVars, segmentVars, walkVars, readVars>>

Spec == Init /\ [][Next]_algorithmVars

(***************************************************************************)
(* Cutting a text loses none of it: windows tile the tokens (but for late  *)
(* windows of size 0, which late.rs cuts and which hold nothing), their    *)
(* spans slice the text they stand for, sentences stay whole, and no code  *)
(* is left out of the chunks of a file.                                    *)
(***************************************************************************)
PiecesKeepTheText ==
  /\ studied = "windows" => WindowsTile /\ SpansAreTheTokens
  /\ studied = "segments" => SentencesStayWhole /\ NoCodeIsLost

(***************************************************************************)
(* What a read of several statements or under a cap may be relied on for,  *)
(* while others write.  A traversal's depths are true and it says when its *)
(* rows were cut; a path found is shortest, and one not found, if not said *)
(* to be cut, is not there within PATH_DEPTH (the answer says nothing of   *)
(* what lies beyond that, nor of a start that was purged after it was      *)
(* looked up, and neighbors never says its limit was met).  A client that  *)
(* pages misses nothing that stood still.  orient's two counts, and the    *)
(* cohort and the coverage of a hybrid query, agree when no ingest wrote   *)
(* in between: the code does not keep them from disagreeing.               *)
(***************************************************************************)
ReadsAreHonest ==
  /\ studied = "walk" => WalksAreHonest
  /\ studied = "reads" => PagesMissNothing /\ HybridIsOneCohort /\ OrientAddsUp

(***************************************************************************)
(* The same tree gives the same edges, whatever the order its files come   *)
(* in; the schemes that drop what is ambiguous make no edge of it (rust    *)
(* and Python choose among several, by a rule); a grouped import is its    *)
(* paths.                                                                  *)
(***************************************************************************)
NamesResolveAlike ==
  studied = "resolution" => OrderDoesNotMatter /\ AmbiguousIsDropped /\ GroupsExpand
=============================================================================
