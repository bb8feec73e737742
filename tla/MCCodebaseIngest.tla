------------------------- MODULE MCCodebaseIngest -------------------------
(***************************************************************************)
(* Instances of CodebaseIngest for TLC: two files of one crate, f1 that    *)
(* imports from f2.                                                        *)
(***************************************************************************)
EXTENDS CodebaseIngest, TLC

CONSTANTS f1, f2, crate

MCFiles == {f1, f2}
MCNames == {"m", "n"}
MCUnits == {crate}
MCUnitOf == [f \in MCFiles |-> crate]

\* a1 -> a2 drops the import and shrinks to one piece; b1 -> b2 moves the
\* symbol of f2 down a line and leaves its name alone.
MCTexts == {"a1", "a2", "b1", "b2"}
MCTextsOf == f1 :> {"a1", "a2", NoText} @@ f2 :> {"b1", "b2"}
\* Runs with a language server: f1 alone changes, and its symbol moves as well.
MCFewTextsOf == f1 :> {"a1", "a2"} @@ f2 :> {"b1"}
MCMovedLineOf == "a1" :> 1 @@ "a2" :> 2 @@ "b1" :> 1 @@ "b2" :> 2
MCNamesOf == "a1" :> {"m"} @@ "a2" :> {"m"} @@ "b1" :> {"n"} @@ "b2" :> {"n"}
MCLineOf == "a1" :> 1 @@ "a2" :> 1 @@ "b1" :> 1 @@ "b2" :> 2
MCUsesOf == "a1" :> {<<f2, "n">>} @@ "a2" :> {} @@ "b1" :> {} @@ "b2" :> {}
MCPiecesOf == "a1" :> 2 @@ "a2" :> 1 @@ "b1" :> 1 @@ "b2" :> 1
=============================================================================
