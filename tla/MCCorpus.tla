------------------------------ MODULE MCCorpus ------------------------------
(***************************************************************************)
(* The corpus: two documents whose keys collide and a third, a source      *)
(* file with a symbol, and every writer of the graph they go into.         *)
(***************************************************************************)
EXTENDS Pipeline

MCDocs == <<"d", "d2", "e">>
MCKeyOf(f) == IF f = "d2" THEN "d" ELSE f
\* t1 names a claim and links the source to it; t2 describes the source
\* file and a key of its own document's; t3 does not convert.
MCPieces(t) == CASE t = "t1" -> 2 [] t = "t2" -> 1 [] t = "t3" -> 0
MCNodesIn(t) == CASE t = "t1" -> {"c"} [] t = "t2" -> {"s", "e"} [] t = "t3" -> {}
MCEdgesIn(t) == CASE t = "t1" -> {<<"s", "c">>} [] t = "t2" -> {<<"s", "c">>, <<"e", "x">>} [] t = "t3" -> {<<"x", "c">>}
MCClaimsIn(t) == IF t = "t1" THEN {"c"} ELSE {"c", "x"}

Tree(d, d2, e, s) == [f \in {"d", "d2", "e", "s"} |->
  CASE f = "d" -> d [] f = "d2" -> d2 [] f = "e" -> e [] f = "s" -> s]
Left(edit, run_, batch_, code_, sweep_, refusal_) ==
  [edit |-> edit, run |-> run_, batch |-> batch_, code |-> code_, sweep |-> sweep_, refusal |-> refusal_]
MCScenarios ==
  [tree : {Tree("t1", "t2", "t2", "t1"), Tree("t2", "gone", "dark", "t2")}, left : {Left(1, 2, 0, 0, 0, 1)}]
  \cup [tree : {Tree("t1", "gone", "t2", "t1"), Tree("t2", "gone", "gone", "gone")}, left : {Left(1, 1, 0, 2, 2, 0)}]
  \cup [tree : {Tree("t1", "gone", "t2", "gone")}, left : {Left(1, 1, 1, 0, 0, 1)}]
  \cup [tree : {Tree("t1", "t3", "t1", "gone")}, left : {Left(0, 1, 1, 0, 0, 1)}]
=============================================================================
