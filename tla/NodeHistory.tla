---------------------------- MODULE NodeHistory ----------------------------
(***************************************************************************)
(* What the write verbs promise to a reader who replays history: each key  *)
(* has one history, or none; a history grows by one real change at a time, *)
(* and is erased whole or not at all.                                      *)
(***************************************************************************)
EXTENDS Sequences, Naturals

CONSTANTS Keys, Payloads

VARIABLE hist    \* [Keys -> Seq(Payloads)]: the payloads a node has had

NoHistory == << >>

Init == hist \in [Keys -> {NoHistory} \cup {<<p>> : p \in Payloads}]

Create(k, p) ==
  /\ hist[k] = NoHistory
  /\ hist' = [hist EXCEPT ![k] = <<p>>]

Change(k, p) ==
  /\ hist[k] # NoHistory
  /\ hist[k][Len(hist[k])] # p
  /\ hist' = [hist EXCEPT ![k] = Append(hist[k], p)]

\* delete erases one node, purge a node and those that name it as parent.
Erase(K) == hist' = [k \in Keys |-> IF k \in K THEN NoHistory ELSE hist[k]]

Next ==
  \/ \E k \in Keys, p \in Payloads : Create(k, p) \/ Change(k, p)
  \/ \E K \in SUBSET Keys : Erase(K)

Spec == Init /\ [][Next]_hist
=============================================================================
