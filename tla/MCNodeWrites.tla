--------------------------- MODULE MCNodeWrites ---------------------------
(***************************************************************************)
(* Instances of NodeWrites for TLC: a file k1, and k2 that may name it as  *)
(* its parent.                                                             *)
(***************************************************************************)
EXTENDS NodeWrites, TLC

CONSTANTS k1, k2, s1, s2

MCKeys == {k1, k2}
MCSessions == {s1, s2}
MCPayloads == {"own", "child"}   \* "child" has file_key k1
MCParentOf == "own" :> None @@ "child" :> k1

\* k1 has no parent; k2, when it is stored, names k1 until it is written.
MCStored == {k1 :> p @@ k2 :> q : p \in {None, "own"}, q \in {None, "child"}}
MCRowOf == k1 :> 1 @@ k2 :> 2

NodeCall(op, k, p) == [op |-> op, key |-> k, to |-> k, payload |-> p]
KeyCall(op, from, to) == [op |-> op, key |-> from, to |-> to, payload |-> "own"]

MCCalls ==
  {NodeCall("update", k2, p) : p \in MCPayloads}
  \cup {NodeCall("ingest", k2, "child"), NodeCall("insert", k2, "child"), KeyCall("insert", k1, k1),
        KeyCall("delete", k2, k2), KeyCall("purge", k1, k1),
        KeyCall("edge.assert", k1, k2), KeyCall("edge.retract", k1, k2),
        KeyCall("declare", k1, k2)}

Symmetry == Permutations(MCSessions)
=============================================================================
