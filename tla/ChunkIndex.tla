----------------------------- MODULE ChunkIndex -----------------------------
(***************************************************************************)
(* What the ingest promises to a search over chunks and embeddings: for    *)
(* each file the index holds pieces of one version at a time.  They appear *)
(* together and vanish together: nothing is added to a version a search    *)
(* has met, nor taken from it piece by piece, and its vectors, each made   *)
(* from a piece that is there, come at once.                               *)
(***************************************************************************)
CONSTANTS Files, Texts,
          Places       \* where in a text a piece may be

VARIABLE index

Absent == [pieces |-> {}, vectors |-> {}]

Init == index = [f \in Files |-> Absent]

Publish(f) ==
  /\ index[f] = Absent
  /\ \E t \in Texts, stored \in SUBSET Places :
       index' = [index EXCEPT ![f].pieces = stored \X {t}]

AttachVectors(f) ==
  /\ index[f].vectors = {}
  /\ \E rows \in SUBSET index[f].pieces : index' = [index EXCEPT ![f].vectors = rows]

Withdraw(f) == index' = [index EXCEPT ![f] = Absent]

Next == \E f \in Files : Publish(f) \/ AttachVectors(f) \/ Withdraw(f)

Spec == Init /\ [][Next]_index
=============================================================================
