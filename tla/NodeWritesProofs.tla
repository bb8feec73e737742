-------------------------- MODULE NodeWritesProofs --------------------------
(***************************************************************************)
(* Theorems about NodeWrites, for every value of its constants.            *)
(***************************************************************************)
EXTENDS NodeWrites, TLAPS

-----------------------------------------------------------------------------
(* Types, and what a transaction has looked up by the time it needs it.    *)

Shaped(seen, step, op) ==
  /\ seen \in Seen
  /\ seen.id < nextId /\ seen.to < nextId
  /\ seen.family \subseteq 1 .. nextId - 1
  /\ step \in {"find_to", "measure"} => seen.id # 0
  /\ step = "measure" => op \in {"delete", "purge"}
  /\ step = "find_to" => op \in EdgeOps
  /\ step \in {"act", "open"} /\ op \in EdgeOps => seen.id # 0 /\ seen.to # 0

RunShape ==
  /\ \A s \in Sessions : pc[s] = "finish" => reply[s] # None
  /\ \A k \in Keys : nodes[k].id = 0 <=> nodes[k].payload = None
  /\ \A s \in Sessions : Shaped(saw[s], pc[s], call[s].op)

TypeInv == TypeOK /\ RunShape

\* A stored row has an id and a payload, a missing one has neither.
LEMMA LiveRow ==
  ASSUME TypeInv, NEW k \in Keys
  PROVE  /\ Live(k) <=> nodes[k].id # 0
         /\ Live(k) <=> nodes[k].payload # None
         /\ nodes[k].id \in 0 .. nextId - 1
         /\ nodes[k].payload \in Payloads \cup {None}
<1>1. nodes[k] \in Rows /\ nodes[k].id < nextId /\ nextId \in Nat
  BY DEF TypeInv, TypeOK
<1>2. nodes[k].id = 0 <=> nodes[k].payload = None
  BY DEF TypeInv, RunShape
<1>. QED BY <1>1, <1>2 DEF Live, NoRow, Rows

\* A transaction that has read nothing is in shape.
LEMMA NothingShaped ==
  ASSUME TypeInv, NEW step \in {"idle", "find", "finish"}, NEW op
  PROVE  Shaped(NothingSeen, step, op)
BY DEF Shaped, NothingSeen, Seen, TypeInv, TypeOK

\* A running session serves a call and has its attempt on record.
LEMMA CallTyped ==
  ASSUME TypeInv, NEW s \in Sessions, pc[s] # "idle"
  PROVE  /\ call[s] \in Calls /\ call[s] \in CallRecords
         /\ at[s] \in 1 .. Len(audit)
         /\ audit \in Seq([op : Operations, outcome : {None, "ok", "failed"}])
         /\ Len(audit) \in Nat
BY ConstantsAssumption DEF TypeInv, TypeOK

\* A statement keeps the types when what it has read is in shape.
LEMMA ReadsTyped ==
  ASSUME TypeInv, NEW s \in Sessions, pc[s] # "idle", NEW seen, NEW step \in Steps,
         step \notin {"idle", "finish"}, Shaped(seen, step, call[s].op), Reads(s, seen, step)
  PROVE  TypeInv'
<1>1. /\ saw' = [saw EXCEPT ![s] = seen] /\ pc' = [pc EXCEPT ![s] = step]
      /\ UNCHANGED <<nodes, log, edges, nextId, audit, durable, call, at, reply>>
  BY DEF Reads, Step, store
<1>2. TypeOK'
  BY <1>1 DEF TypeInv, TypeOK, Shaped
<1>3. RunShape'
  BY <1>1 DEF TypeInv, TypeOK, RunShape, Shaped
<1>. QED BY <1>2, <1>3 DEF TypeInv

\* The transaction ends without a write: it failed, or the row is refused.
Ended(s) == Fail(s) \/ Miss(s)

\* A transaction that ends with nothing written keeps the types.
LEMMA EndTyped ==
  ASSUME TypeInv, NEW s \in Sessions, pc[s] # "idle", Ended(s)
  PROVE  TypeInv'
<1>0. Shaped(NothingSeen, "finish", call[s].op)
  BY NothingShaped
<1>. PICK answer \in {"ok", "failed"} : Ends(s, answer)
  BY DEF Ended, Fail, Miss
<1>1. /\ saw' = [saw EXCEPT ![s] = NothingSeen] /\ pc' = [pc EXCEPT ![s] = "finish"]
      /\ reply' = [reply EXCEPT ![s] = answer]
      /\ UNCHANGED <<nodes, log, edges, nextId, audit, durable, call, at>>
  BY DEF Ends, Step, store
<1>2. TypeOK'
  BY <1>0, <1>1 DEF TypeInv, TypeOK, Shaped, Steps
<1>3. RunShape'
  BY <1>0, <1>1, ConstantsAssumption DEF TypeInv, TypeOK, RunShape, Shaped
<1>. QED BY <1>2, <1>3 DEF TypeInv

\* Whatever mark a session leaves, it returns ready for the next call.
LEMMA ReturnTyped ==
  ASSUME TypeInv, NEW s \in Sessions, pc[s] # "idle", Return(s),
         audit' \in Seq([op : Operations, outcome : {None, "ok", "failed"}]),
         Len(audit') = Len(audit)
  PROVE  TypeInv'
<1>0. Shaped(NothingSeen, "idle", None.op)
  BY NothingShaped
<1>1. /\ saw' = [saw EXCEPT ![s] = NothingSeen] /\ pc' = [pc EXCEPT ![s] = "idle"]
      /\ reply' = [reply EXCEPT ![s] = None] /\ call' = [call EXCEPT ![s] = None]
      /\ at' = [at EXCEPT ![s] = 0]
      /\ UNCHANGED <<nodes, log, edges, nextId, durable>>
  BY DEF Return, Step, store
<1>2. TypeOK'
  BY <1>0, <1>1 DEF TypeInv, TypeOK, Shaped, Steps
<1>3. RunShape'
  BY <1>0, <1>1 DEF TypeInv, TypeOK, RunShape, Shaped
<1>. QED BY <1>2, <1>3 DEF TypeInv

\* The graph an earlier ingest left is well typed.
LEMMA InitTyped == Init => TypeInv
<1>. SUFFICES ASSUME Init PROVE TypeInv
  OBVIOUS
<1>. PICK payload \in Stored :
       nodes = [k \in Keys |-> IF payload[k] = None THEN NoRow
                               ELSE [id |-> RowOf[k], payload |-> payload[k]]]
  BY DEF Init
<1>0. /\ payload \in [Keys -> Payloads \cup {None}]
      /\ RowOf \in [Keys -> 1 .. FirstId - 1] /\ FirstId \in Nat \ {0} /\ nextId = FirstId
  BY ConstantsAssumption DEF Init
<1>1. /\ nodes \in [Keys -> Rows]
      /\ \A k \in Keys : nodes[k].id < nextId
      /\ \A k \in Keys : nodes[k].id = 0 <=> nodes[k].payload = None
      /\ \A k \in Keys : Live(k) => nodes[k].payload \in Payloads
  BY <1>0 DEF Rows, NoRow, Live
<1>2. log \in [Keys -> Seq(Entries)]
  <2>1. ASSUME NEW k \in Keys, Live(k)
        PROVE  <<[from |-> None, to |-> nodes[k].payload]>> \in Seq(Entries)
    BY <1>1, <2>1 DEF Entries
  <2>. QED BY <2>1 DEF Init
<1>3. edges \subseteq EdgeRows
  <2>1. LiveIds \subseteq Nat
    BY <1>1 DEF LiveIds, Rows
  <2>. QED BY <2>1 DEF Init, EdgeRows
<1>4. NothingSeen \in Seen
  BY DEF NothingSeen, Seen
<1>5. TypeOK
  BY <1>0, <1>1, <1>2, <1>3, <1>4 DEF Init, TypeOK, Steps
<1>6. ASSUME NEW s \in Sessions PROVE Shaped(saw[s], pc[s], call[s].op)
  <2>1. saw[s] = NothingSeen /\ pc[s] = "idle"
    BY DEF Init
  <2>2. Shaped(NothingSeen, "idle", call[s].op)
    BY <1>0, <1>4 DEF Shaped, NothingSeen
  <2>. QED BY <2>1, <2>2
<1>. QED BY <1>1, <1>5, <1>6 DEF TypeInv, RunShape, Init

\* Rows found by key have an id, and are removed by it.
LEMMA FoundIds ==
  ASSUME TypeInv
  PROVE  /\ LiveIds \subseteq 1 .. nextId - 1
         /\ \A k \in Keys : Family(k) \subseteq 1 .. nextId - 1
<1>1. \A k \in Keys : Live(k) => nodes[k].id \in 1 .. nextId - 1
  BY LiveRow DEF TypeInv, TypeOK
<1>. QED BY <1>1 DEF LiveIds, Family

\* Every statement keeps the types.
LEMMA StatementTyped ==
  ASSUME TypeInv, NEW s \in Sessions, Statement(s)
  PROVE  TypeInv'
<1>0. /\ Shaped(saw[s], pc[s], call[s].op) /\ nextId \in Nat
      /\ NothingSeen \in Seen /\ nodes \in [Keys -> Rows]
      /\ saw[s] \in Seen /\ edges \subseteq EdgeRows
  BY DEF TypeInv, TypeOK, RunShape, Seen, NothingSeen
<1>1. CASE InsertRow(s)
  <2>1. Shaped(NothingSeen, "open", call[s].op)
    BY <1>0, <1>1, NothingShaped DEF InsertRow, Shaped, EdgeOps
  <2>. QED BY <1>1, <2>1, ReadsTyped, EndTyped DEF Ended, InsertRow, Steps
<1>2. CASE LockHead(s)
  <2>1. call[s] \in CallRecords /\ Key(s) \in Keys
    BY <1>2, CallTyped DEF LockHead, CallRecords, Key
  <2>2. Shaped([NothingSeen EXCEPT !.head = nodes[Key(s)].payload], "open", call[s].op)
    BY <1>0, <1>2, <2>1, NothingShaped, LiveRow DEF LockHead, Shaped, EdgeOps, NothingSeen, Seen
  <2>. QED BY <1>2, <2>2, ReadsTyped, EndTyped DEF Ended, LockHead, Steps
<1>3. CASE FindNode(s)
  <2>1. call[s] \in CallRecords /\ Key(s) \in Keys
    BY <1>3, CallTyped DEF FindNode, CallRecords, Key
  <2>2. Live(Key(s)) => Shaped([NothingSeen EXCEPT !.id = nodes[Key(s)].id], "measure", call[s].op)
    BY <1>0, <1>3, <2>1, NothingShaped, LiveRow DEF FindNode, Shaped, EdgeOps, NothingSeen, Seen
  <2>. QED BY <1>3, <2>2, ReadsTyped, EndTyped DEF Ended, FindNode, Steps
<1>4. CASE Measure(s)
  <2>1. call[s] \in CallRecords /\ Key(s) \in Keys
    BY <1>4, CallTyped DEF Measure, CallRecords, Key
  <2>. DEFINE family == IF call[s].op = "purge" THEN Family(Key(s)) ELSE {saw[s].id}
              seen == [saw[s] EXCEPT !.family = family, !.edges = EdgesOf(family),
                                     !.entries = EntriesOf(family)]
  <2>2. family \subseteq 1 .. nextId - 1
    BY <1>0, <1>4, <2>1, FoundIds DEF Measure, Shaped, Seen
  <2>3. EdgesOf(family) \subseteq EdgeRows
    BY <1>0 DEF EdgesOf
  <2>4. EntriesOf(family) \subseteq Keys \X Nat
    <3>1. ASSUME NEW k \in Keys PROVE {k} \X (1 .. Len(log[k])) \subseteq Keys \X Nat
      BY DEF TypeInv, TypeOK
    <3>. QED BY <3>1 DEF EntriesOf
  <2>. HIDE DEF family
  <2>5. call[s].op \notin EdgeOps
    BY <1>0, <1>4 DEF Measure, Shaped, EdgeOps
  <2>6. /\ seen \in Seen /\ seen.id = saw[s].id /\ seen.to = saw[s].to
        /\ seen.family = family
    <3>1. family \in SUBSET Nat
      BY <2>2
    <3>. QED BY <1>0, <3>1, <2>3, <2>4 DEF Seen
  <2>7. Shaped(seen, "act", call[s].op)
    <3>. HIDE DEF seen
    <3>. QED BY <1>0, <2>2, <2>5, <2>6 DEF Shaped
  <2>. QED BY <1>4, <2>7, ReadsTyped DEF Measure, Steps, family
<1>5. CASE Sweep(s)
  <2>1. Shaped(saw[s], "open", call[s].op)
    BY <1>0, <1>5 DEF Sweep, Shaped
  <2>. QED BY <1>5, <2>1, ReadsTyped DEF Sweep, Steps
<1>6. CASE ReadHead(s)
  <2>1. call[s] \in CallRecords /\ Key(s) \in Keys
    BY <1>6, CallTyped DEF ReadHead, CallRecords, Key
  <2>2. Shaped([NothingSeen EXCEPT !.head = nodes[Key(s)].payload], "act", call[s].op)
    BY <1>0, <1>6, <2>1, NothingShaped, LiveRow DEF ReadHead, Shaped, EdgeOps, NothingSeen, Seen
  <2>. QED BY <1>6, <2>2, ReadsTyped DEF ReadHead, Steps
<1>7. CASE UpsertRow(s)
  <2>1. Shaped(saw[s], "open", call[s].op)
    BY <1>0, <1>7 DEF UpsertRow, Shaped
  <2>. QED BY <1>7, <2>1, ReadsTyped DEF UpsertRow, Steps
<1>8. CASE FindSource(s)
  <2>1. call[s] \in CallRecords /\ Key(s) \in Keys
    BY <1>8, CallTyped DEF FindSource, CallRecords, Key
  <2>2. Live(Key(s)) => Shaped([NothingSeen EXCEPT !.id = nodes[Key(s)].id], "find_to", call[s].op)
    BY <1>0, <1>8, <2>1, NothingShaped, LiveRow DEF FindSource, Shaped, EdgeOps, NothingSeen, Seen
  <2>. QED BY <1>8, <2>2, ReadsTyped, EndTyped DEF Ended, FindSource, Steps
<1>9. CASE FindTarget(s)
  <2>1. call[s] \in CallRecords /\ call[s].to \in Keys
    BY <1>9, CallTyped DEF FindTarget, CallRecords
  <2>2. Live(call[s].to) => Shaped([saw[s] EXCEPT !.to = nodes[call[s].to].id], "act", call[s].op)
    BY <1>0, <1>9, <2>1, LiveRow DEF FindTarget, Shaped, Seen
  <2>. QED BY <1>9, <2>2, ReadsTyped, EndTyped DEF Ended, FindTarget, Steps
<1>10. CASE Link(s)
  <2>1. Shaped(saw[s], "open", call[s].op)
    BY <1>0, <1>10 DEF Link, Shaped
  <2>. QED BY <1>10, <2>1, ReadsTyped, EndTyped DEF Ended, Link, Steps
<1>11. CASE Unlink(s)
  <2>1. Shaped(saw[s], "open", call[s].op)
    BY <1>0, <1>11 DEF Unlink, Shaped
  <2>. QED BY <1>11, <2>1, ReadsTyped, EndTyped DEF Ended, Unlink, Steps
<1>. QED BY <1>1, <1>2, <1>3, <1>4, <1>5, <1>6, <1>7, <1>8, <1>9, <1>10, <1>11 DEF Statement

\* A commit makes one kind of change visible.
LEMMA CommitCases ==
  ASSUME TypeInv, NEW s \in Sessions, Commit(s)
  PROVE  \/ call[s].op \in {"insert", "update", "ingest"} /\ WriteHead(s)
         \/ call[s].op \in {"delete", "purge"} /\ RemoveFamily(s)
         \/ call[s].op \in {"edge.assert", "declare"} /\ AddEdge(s)
         \/ call[s].op = "edge.retract" /\ RetractEdge(s)
<1>1. call[s] \in CallRecords
  BY CallTyped DEF Commit
<1>2. call[s].op \in Operations
  BY <1>1 DEF CallRecords
<1>. QED BY <1>2 DEF Commit, Operations, WriteVerbs, IngestWrites

\* What a write of a head leaves in its row and its log.
LEMMA WriteHeadRows ==
  ASSUME TypeInv, NEW s \in Sessions, pc[s] # "idle", WriteHead(s)
  PROVE  /\ Key(s) \in Keys /\ call[s].payload \in Payloads
         /\ nodes' = [nodes EXCEPT ![Key(s)] = [id |-> nodes'[Key(s)].id, payload |-> call[s].payload]]
         /\ nodes'[Key(s)].id = IF Live(Key(s)) THEN nodes[Key(s)].id ELSE nextId
         /\ nodes'[Key(s)].id \in 1 .. nextId' - 1
         /\ nodes' \in [Keys -> Rows]
         /\ nextId' \in Nat \ {0} /\ nextId <= nextId'
         /\ log' \in [Keys -> Seq(Entries)] /\ edges' = edges
<1>1. Key(s) \in Keys /\ call[s].payload \in Payloads
  BY CallTyped DEF Key, CallRecords
<1>. DEFINE k == Key(s)
            id == IF Live(k) THEN nodes[k].id ELSE nextId
<1>2. /\ nodes' = [nodes EXCEPT ![k] = [id |-> id, payload |-> call[s].payload]]
      /\ nextId' = (IF Live(k) THEN nextId ELSE nextId + 1)
      /\ log' = LogAfter(s) /\ edges' = edges
  BY DEF WriteHead
<1>3. /\ nodes \in [Keys -> Rows] /\ nextId \in Nat \ {0}
      /\ log \in [Keys -> Seq(Entries)] /\ saw[s].head \in Payloads \cup {None}
  BY DEF TypeInv, TypeOK, Seen
<1>4. id \in Nat /\ id \in 1 .. nextId' - 1
  BY <1>1, <1>2, <1>3, LiveRow
<1>. HIDE DEF id
<1>5. nodes'[k] = [id |-> id, payload |-> call[s].payload]
  BY <1>1, <1>2, <1>3
<1>6. nodes' \in [Keys -> Rows]
  BY <1>1, <1>2, <1>3, <1>4 DEF Rows
<1>7. log' \in [Keys -> Seq(Entries)]
  <2>1. [from |-> saw[s].head, to |-> call[s].payload] \in Entries
    BY <1>1, <1>3 DEF Entries
  <2>2. Append(log[k], [from |-> saw[s].head, to |-> call[s].payload]) \in Seq(Entries)
    BY <1>1, <1>3, <2>1
  <2>. QED BY <1>1, <1>2, <1>3, <2>2 DEF LogAfter
<1>. QED BY <1>1, <1>2, <1>3, <1>4, <1>5, <1>6, <1>7 DEF id

\* A mark changes one outcome and nothing of what was attempted.
LEMMA MarkTyped ==
  ASSUME TypeInv, NEW a \in 1 .. Len(audit), NEW mark \in {"ok", "failed"}
  PROVE  /\ Marked(a, mark) \in Seq([op : Operations, outcome : {None, "ok", "failed"}])
         /\ Len(Marked(a, mark)) = Len(audit)
         /\ \A b \in 1 .. Len(audit) :
              /\ Marked(a, mark)[b].op = audit[b].op
              /\ Marked(a, mark)[b].outcome =
                   IF b = a /\ audit[a].outcome = None THEN mark ELSE audit[b].outcome
<1>. DEFINE Attempts == [op : Operations, outcome : {None, "ok", "failed"}]
<1>1. audit \in Seq(Attempts) /\ Len(audit) \in Nat
  BY DEF TypeInv, TypeOK
<1>. HIDE DEF Attempts
<1>2. CASE audit[a].outcome # None
  <2>1. Marked(a, mark) = audit
    BY <1>2 DEF Marked
  <2>2. \A b \in 1 .. Len(audit) : ~(b = a /\ audit[a].outcome = None)
    BY <1>2
  <2>. QED BY <1>1, <2>1, <2>2 DEF Attempts
<1>3. CASE audit[a].outcome = None
  <2>. DEFINE marked == [audit[a] EXCEPT !.outcome = mark]
  <2>1. Marked(a, mark) = [audit EXCEPT ![a] = marked]
    BY <1>3 DEF Marked
  <2>2. audit[a] \in Attempts
    BY <1>1
  <2>3. marked \in Attempts /\ marked.op = audit[a].op /\ marked.outcome = mark
    BY <2>2 DEF Attempts
  <2>. HIDE DEF marked
  <2>4. [audit EXCEPT ![a] = marked] \in Seq(Attempts)
        /\ Len([audit EXCEPT ![a] = marked]) = Len(audit)
    BY <1>1, <2>3
  <2>5. ASSUME NEW b \in 1 .. Len(audit)
        PROVE  [audit EXCEPT ![a] = marked][b] = IF b = a THEN marked ELSE audit[b]
    BY <1>1, <2>3
  <2>6. ASSUME NEW b \in 1 .. Len(audit)
        PROVE  /\ Marked(a, mark)[b].op = audit[b].op
               /\ Marked(a, mark)[b].outcome =
                    IF b = a /\ audit[a].outcome = None THEN mark ELSE audit[b].outcome
    BY <1>3, <2>1, <2>3, <2>5
  <2>. QED BY <2>1, <2>4, <2>6 DEF Attempts
<1>. QED BY <1>2, <1>3 DEF Attempts

\* A commit leaves the store typed.
LEMMA CommitStoreTyped ==
  ASSUME TypeInv, NEW s \in Sessions, Commit(s)
  PROVE  /\ nodes' \in [Keys -> Rows] /\ log' \in [Keys -> Seq(Entries)]
         /\ edges' \subseteq EdgeRows
         /\ nextId' \in Nat \ {0} /\ nextId <= nextId'
         /\ \A k \in Keys : nodes'[k].id < nextId'
         /\ \A k \in Keys : nodes'[k].id = 0 <=> nodes'[k].payload = None
<1>0. /\ nodes \in [Keys -> Rows] /\ log \in [Keys -> Seq(Entries)]
      /\ edges \subseteq EdgeRows /\ nextId \in Nat \ {0}
      /\ \A k \in Keys : nodes[k].id < nextId
      /\ \A k \in Keys : nodes[k].id = 0 <=> nodes[k].payload = None
      /\ saw[s].id \in Nat /\ saw[s].to \in Nat /\ pc[s] # "idle"
  BY DEF TypeInv, TypeOK, RunShape, Seen, Commit
<1>1. CASE WriteHead(s)
  <2>. DEFINE k == Key(s)
  <2>1. /\ k \in Keys /\ call[s].payload \in Payloads
        /\ nodes' = [nodes EXCEPT ![k] = [id |-> nodes'[k].id, payload |-> call[s].payload]]
        /\ nodes'[k].id \in 1 .. nextId' - 1
        /\ nodes' \in [Keys -> Rows]
        /\ nextId' \in Nat \ {0} /\ nextId <= nextId'
        /\ log' \in [Keys -> Seq(Entries)] /\ edges' = edges
    BY <1>0, <1>1, WriteHeadRows
  <2>2. nodes'[k].payload = call[s].payload /\ call[s].payload # None
    BY <1>0, <2>1, ConstantsAssumption
  <2>3. ASSUME NEW j \in Keys, j # k PROVE nodes'[j] = nodes[j]
    BY <1>0, <2>1, <2>3
  <2>4. ASSUME NEW j \in Keys
        PROVE  nodes'[j].id < nextId' /\ (nodes'[j].id = 0 <=> nodes'[j].payload = None)
    <3>1. nodes[j].id \in Nat /\ nodes[j].id < nextId
      BY <1>0 DEF Rows
    <3>. HIDE DEF k
    <3>2. CASE j = k
      BY <2>1, <2>2, <3>2
    <3>3. CASE j # k
      BY <1>0, <2>1, <2>3, <3>1, <3>3
    <3>. QED BY <3>2, <3>3
  <2>. QED BY <1>0, <2>1, <2>4
<1>2. CASE RemoveFamily(s)
  <2>1. NoRow \in Rows /\ << >> \in Seq(Entries)
    BY DEF NoRow, Rows
  <2>2. nodes' \in [Keys -> Rows] /\ log' \in [Keys -> Seq(Entries)]
    BY <1>0, <1>2, <2>1 DEF RemoveFamily
  <2>3. /\ \A k \in Keys : nodes'[k] = NoRow \/ nodes'[k] = nodes[k]
        /\ nextId' = nextId /\ edges' \subseteq edges
    BY <1>2 DEF RemoveFamily
  <2>4. NoRow.id = 0 /\ NoRow.payload = None
    BY DEF NoRow
  <2>5. ASSUME NEW k \in Keys
        PROVE  nodes'[k].id < nextId' /\ (nodes'[k].id = 0 <=> nodes'[k].payload = None)
    <3>1. CASE nodes'[k] = NoRow
      BY <1>0, <2>3, <2>4, <3>1
    <3>2. CASE nodes'[k] = nodes[k]
      BY <1>0, <2>3, <3>2
    <3>. QED BY <2>3, <3>1, <3>2
  <2>. QED BY <1>0, <2>2, <2>3, <2>5
<1>3. CASE AddEdge(s)
  <2>1. Edge(s, BasisOf(call[s].op)) \in EdgeRows
    BY <1>0 DEF Edge, EdgeRows, BasisOf
  <2>. QED BY <1>0, <1>3, <2>1 DEF AddEdge
<1>4. CASE RetractEdge(s)
  BY <1>0, <1>4 DEF RetractEdge
<1>. QED BY <1>1, <1>2, <1>3, <1>4, CommitCases

\* A commit keeps the types.
LEMMA CommitTyped ==
  ASSUME TypeInv, NEW s \in Sessions, Commit(s)
  PROVE  TypeInv'
<1>0. PICK answer \in {"ok", "failed"} : reply' = [reply EXCEPT ![s] = answer]
  BY DEF Commit
<1>1. /\ pc[s] = "open" /\ pc' = [pc EXCEPT ![s] = "finish"] /\ call' = call /\ at' = at
      /\ saw' = [saw EXCEPT ![s] = NothingSeen] /\ durable' = durable \cup {at[s]}
      /\ CommitMark(s)
  BY DEF Commit, Step
<1>2. /\ audit' \in Seq([op : Operations, outcome : {None, "ok", "failed"}])
      /\ Len(audit') = Len(audit) /\ at[s] \in 1 .. Len(audit)
  BY <1>1, CallTyped, MarkTyped DEF CommitMark, TypeInv, TypeOK
<1>3. NothingSeen \in Seen
  BY DEF NothingSeen, Seen
<1>4. TypeOK'
  BY <1>0, <1>1, <1>2, <1>3, CommitStoreTyped DEF TypeInv, TypeOK, Steps
<1>5. ASSUME NEW o \in Sessions PROVE Shaped(saw[o], pc[o], call[o].op)'
  <2>0. /\ Shaped(saw[o], pc[o], call[o].op) /\ nextId \in Nat /\ nextId' \in Nat \ {0}
        /\ nextId <= nextId' /\ saw[o] \in Seen
    BY CommitStoreTyped DEF TypeInv, TypeOK, RunShape
  <2>1. CASE o = s
    <3>1. saw'[o] = NothingSeen /\ pc'[o] = "finish"
      BY <1>1, <2>1 DEF TypeInv, TypeOK
    <3>. QED BY <1>3, <2>0, <3>1 DEF Shaped, NothingSeen
  <2>2. CASE o # s
    <3>1. saw'[o] = saw[o] /\ pc'[o] = pc[o] /\ call'[o] = call[o]
      BY <1>1, <2>2 DEF TypeInv, TypeOK
    <3>2. saw[o].id \in Nat /\ saw[o].to \in Nat /\ saw[o].family \subseteq Nat
      BY <2>0 DEF Seen
    <3>3. saw[o].family \subseteq 1 .. nextId' - 1
      BY <2>0, <3>2 DEF Shaped
    <3>. QED BY <2>0, <3>1, <3>2, <3>3 DEF Shaped
  <2>. QED BY <2>1, <2>2
<1>6. \A o \in Sessions : pc'[o] = "finish" => reply'[o] # None
  BY <1>0, <1>1, ConstantsAssumption DEF TypeInv, TypeOK, RunShape
<1>. QED BY <1>4, <1>5, <1>6, CommitStoreTyped DEF TypeInv, RunShape

\* Every action keeps the types.
LEMMA StepTyped == TypeInv /\ [Next]_vars => TypeInv'
<1>. SUFFICES ASSUME TypeInv, [Next]_vars PROVE TypeInv'
  OBVIOUS
<1>1. ASSUME NEW s \in Sessions, Begin(s) PROVE TypeInv'
  <2>. PICK c \in Calls :
         /\ call' = [call EXCEPT ![s] = c]
         /\ audit' = Append(audit, [op |-> c.op, outcome |-> None])
         /\ pc' = [pc EXCEPT ![s] = IF c.op \in {"insert", "update"} THEN "act" ELSE "find"]
    BY <1>1 DEF Begin, Step
  <2>1. c.op \in Operations
    BY ConstantsAssumption DEF CallRecords
  <2>2. /\ pc[s] = "idle" /\ at' = [at EXCEPT ![s] = Len(audit) + 1]
        /\ UNCHANGED <<nodes, log, edges, nextId, durable, saw, reply>>
    BY <1>1 DEF Begin, store
  <2>3. /\ audit' \in Seq([op : Operations, outcome : {None, "ok", "failed"}])
        /\ Len(audit') = Len(audit) + 1 /\ Len(audit) \in Nat
    BY <2>1 DEF TypeInv, TypeOK
  <2>4. TypeOK'
    <3>1. durable' \subseteq 1 .. Len(audit')
      BY <2>2, <2>3 DEF TypeInv, TypeOK
    <3>2. \A o \in Sessions :
            at'[o] <= Len(audit') /\ (pc'[o] # "idle" => at'[o] # 0 /\ call'[o] \in Calls)
      BY <2>2, <2>3 DEF TypeInv, TypeOK
    <3>. QED BY <2>2, <2>3, <3>1, <3>2 DEF TypeInv, TypeOK, Steps
  <2>5. ASSUME NEW o \in Sessions PROVE Shaped(saw[o], pc[o], call[o].op)'
    <3>0. Shaped(saw[o], pc[o], call[o].op)
      BY DEF TypeInv, RunShape
    <3>1. CASE o # s
      BY <2>2, <3>0, <3>1 DEF Shaped, TypeInv, TypeOK
    <3>2. CASE o = s
      <4>1. /\ call'[o] = c /\ saw'[o] = saw[o]
            /\ pc'[o] = IF c.op \in {"insert", "update"} THEN "act" ELSE "find"
        BY <2>2, <3>2 DEF TypeInv, TypeOK
      <4>. QED BY <2>2, <3>0, <4>1 DEF Shaped, EdgeOps
    <3>. QED BY <3>1, <3>2
  <2>6. \A o \in Sessions : pc'[o] = "finish" => reply'[o] # None
    BY <2>2 DEF TypeInv, TypeOK, RunShape
  <2>. QED BY <2>2, <2>4, <2>5, <2>6 DEF TypeInv, RunShape
<1>2. ASSUME NEW s \in Sessions, Statement(s) PROVE TypeInv'
  BY <1>2, StatementTyped
<1>3. ASSUME NEW s \in Sessions, Commit(s) PROVE TypeInv'
  BY <1>3, CommitTyped
<1>4. ASSUME NEW s \in Sessions, Finish(s) PROVE TypeInv'
  <2>1. pc[s] = "finish" /\ audit' = Marked(at[s], reply[s]) /\ Return(s)
    BY <1>4 DEF Finish
  <2>2. reply[s] \in {"ok", "failed"} /\ at[s] \in 1 .. Len(audit)
    BY <2>1, CallTyped DEF TypeInv, TypeOK, RunShape
  <2>. QED BY <2>1, <2>2, MarkTyped, ReturnTyped
<1>5. ASSUME NEW s \in Sessions, Abort(s) PROVE TypeInv'
  BY <1>5, EndTyped DEF Ended, Abort
<1>6. ASSUME NEW s \in Sessions, Crash(s) PROVE TypeInv'
  BY <1>6, ReturnTyped DEF Crash, TypeInv, TypeOK
<1>7. CASE UNCHANGED vars
  <2>1. UNCHANGED <<nodes, log, edges, nextId, audit, durable, pc, call, at, saw, reply>>
    BY <1>7 DEF vars, store
  <2>. QED BY <2>1 DEF TypeInv, TypeOK, RunShape, Shaped
<1>. QED BY <1>1, <1>2, <1>3, <1>4, <1>5, <1>6, <1>7 DEF Next, Rest

\* Every state is well typed, and whatever runs has its attempt on record.
THEOREM TypeCorrect == Spec => []TypeOK
<1>1. TypeInv => TypeOK
  BY DEF TypeInv
<1>. QED BY <1>1, InitTyped, StepTyped, PTL DEF Spec

-----------------------------------------------------------------------------
(* Locks: a claimed row belongs to one open transaction.                   *)

Moves(s) == Begin(s) \/ Statement(s) \/ Commit(s) \/ Finish(s) \/ Abort(s) \/ Crash(s)

\* A step of one session leaves the others where they were, and the store
\* too unless it commits.
LEMMA Frame ==
  ASSUME TypeInv, NEW s \in Sessions, Moves(s)
  PROVE  /\ \A o \in Sessions \ {s} :
              /\ pc'[o] = pc[o] /\ call'[o] = call[o] /\ saw'[o] = saw[o]
              /\ at'[o] = at[o] /\ reply'[o] = reply[o]
         /\ Commit(s) \/ UNCHANGED store
<1>. USE DEF TypeInv, TypeOK
<1>1. CASE Begin(s)
  BY <1>1 DEF Begin, Step
<1>2. CASE Statement(s)
  <2>1. Ended(s) \/ \E seen, step : Reads(s, seen, step)
    BY <1>2 DEF Statement, InsertRow, LockHead, FindNode, Measure, Sweep, ReadHead, UpsertRow,
                FindSource, FindTarget, Link, Unlink, Ended
  <2>. QED BY <2>1 DEF Ended, Fail, Miss, Ends, Reads, Step
<1>3. CASE Commit(s)
  BY <1>3 DEF Commit, Step
<1>4. CASE Finish(s)
  BY <1>4 DEF Finish, Return, Step
<1>5. CASE Abort(s)
  BY <1>5 DEF Abort, Ended, Fail, Miss, Ends, Step
<1>6. CASE Crash(s)
  BY <1>6 DEF Crash, Return, Step
<1>. QED BY <1>1, <1>2, <1>3, <1>4, <1>5, <1>6 DEF Moves

\* The rows a commit changes are those its transaction claims.
LEMMA CommitTouchesClaims ==
  ASSUME TypeInv, NEW s \in Sessions, Commit(s), NEW k \in Keys, k \notin Claims(s)
  PROVE  nodes'[k] = nodes[k] /\ log'[k] = log[k]
<1>0. /\ pc[s] = "open" /\ nodes \in [Keys -> Rows] /\ log \in [Keys -> Seq(Entries)]
  BY DEF Commit, TypeInv, TypeOK
<1>1. CASE call[s].op \in {"insert", "update", "ingest"} /\ WriteHead(s)
  <2>1. k # Key(s)
    BY <1>0, <1>1 DEF Claims, Key
  <2>. QED BY <1>0, <1>1, <2>1 DEF WriteHead, LogAfter
<1>2. CASE call[s].op \in {"delete", "purge"} /\ RemoveFamily(s)
  <2>1. nodes[k].id \notin saw[s].family
    BY <1>0, <1>2 DEF Claims
  <2>. QED BY <1>2, <2>1 DEF RemoveFamily
<1>3. CASE AddEdge(s) \/ RetractEdge(s)
  BY <1>3 DEF AddEdge, RetractEdge
<1>. QED BY <1>1, <1>2, <1>3, CommitCases

\* A row a commit creates or removes has an id no other transaction has read.
LEMMA CommitKeepsIds ==
  ASSUME TypeInv, NEW s \in Sessions, Commit(s), NEW k \in Keys
  PROVE  nodes'[k].id = nodes[k].id \/ nodes'[k].id = 0 \/ nodes'[k].id = nextId
<1>0. pc[s] # "idle" /\ nodes \in [Keys -> Rows]
  BY DEF Commit, TypeInv, TypeOK
<1>1. CASE WriteHead(s)
  BY <1>0, <1>1, WriteHeadRows
<1>2. CASE RemoveFamily(s)
  BY <1>2 DEF RemoveFamily, NoRow
<1>3. CASE AddEdge(s) \/ RetractEdge(s)
  BY <1>3 DEF AddEdge, RetractEdge
<1>. QED BY <1>1, <1>2, <1>3, CommitCases

\* No step of one session gives another one more rows.
LEMMA OthersShrink ==
  ASSUME TypeInv, NEW s \in Sessions, Moves(s), NEW o \in Sessions \ {s}
  PROVE  Claims(o)' \subseteq Claims(o) /\ Shares(o)' \subseteq Shares(o)
<1>0. pc'[o] = pc[o] /\ call'[o] = call[o] /\ saw'[o] = saw[o]
  BY Frame
<1>1. CASE UNCHANGED store
  BY <1>0, <1>1 DEF Claims, Shares, store
<1>2. CASE Commit(s)
  <2>1. /\ saw[o].family \subseteq 1 .. nextId - 1 /\ nextId \in Nat
        /\ saw[o].id < nextId /\ saw[o].to < nextId
        /\ pc[o] = "open" /\ call[o].op \in EdgeOps => saw[o].id # 0 /\ saw[o].to # 0
    BY DEF TypeInv, TypeOK, RunShape, Shaped
  <2>2. 0 \notin saw[o].family /\ nextId \notin saw[o].family
    BY <2>1
  <2>3. saw[o].id # nextId /\ saw[o].to # nextId
    BY <2>1 DEF TypeInv, TypeOK, Seen
  <2>4. Claims(o)' \subseteq Claims(o)
    BY <1>0, <1>2, <2>2, CommitKeepsIds DEF Claims
  <2>5. Shares(o)' \subseteq Shares(o)
    BY <1>0, <1>2, <2>1, <2>3, CommitKeepsIds DEF Shares, EdgeOps
  <2>. QED BY <2>4, <2>5
<1>. QED BY <1>1, <1>2, Frame

\* What a statement that leaves its transaction open has waited for.
LEMMA Opening ==
  ASSUME TypeInv, NEW s \in Sessions, Moves(s), pc'[s] = "open"
  PROVE  /\ pc[s] = "act" /\ call'[s] = call[s] /\ UNCHANGED store
         /\ \/ /\ call[s].op = "insert" /\ Key(s) \notin ClaimedByOthers(s)
               /\ ~Live(Key(s)) /\ saw'[s] = NothingSeen
            \/ /\ call[s].op = "update"
               /\ Key(s) \notin ClaimedByOthers(s) \cup SharedByOthers(s)
               /\ saw'[s].head = nodes[Key(s)].payload
            \/ /\ call[s].op = "ingest" /\ saw'[s] = saw[s]
               /\ Key(s) \notin ClaimedByOthers(s) \cup SharedByOthers(s)
            \/ /\ call[s].op \in {"delete", "purge"} /\ saw'[s] = saw[s]
               /\ {k \in Keys : nodes[k].id \in saw[s].family}
                    \cap (ClaimedByOthers(s) \cup SharedByOthers(s)) = {}
            \/ /\ call[s].op \in {"edge.assert", "declare"} /\ saw'[s] = saw[s] /\ EndpointsFree(s)
               /\ {saw[s].id, saw[s].to} \subseteq LiveIds
            \/ call[s].op = "edge.retract" /\ saw'[s] = saw[s] /\ EndpointsFree(s)
<1>0. pc \in [Sessions -> Steps] /\ saw \in [Sessions -> Seen] /\ NothingSeen \in Seen
  BY DEF TypeInv, TypeOK, NothingSeen, Seen
<1>1. Statement(s)
  BY <1>0 DEF Moves, Begin, Commit, Finish, Abort, Crash, Ended, Fail, Miss, Ends, Return, Step
<1>2. ~Fail(s) /\ ~Miss(s)
  BY <1>0 DEF Ended, Fail, Miss, Ends, Step
<1>3. ASSUME NEW seen, NEW step, Reads(s, seen, step)
      PROVE  saw'[s] = seen /\ step = "open" /\ call' = call /\ UNCHANGED store
  BY <1>0, <1>3 DEF Reads, Step
<1>4. CASE InsertRow(s)
  BY <1>2, <1>3, <1>4 DEF InsertRow
<1>5. CASE LockHead(s)
  <2>1. [NothingSeen EXCEPT !.head = nodes[Key(s)].payload].head = nodes[Key(s)].payload
    BY <1>0 DEF Seen
  <2>. QED BY <1>2, <1>3, <1>5, <2>1 DEF LockHead
<1>6. CASE Sweep(s)
  BY <1>3, <1>6 DEF Sweep
<1>7. CASE UpsertRow(s)
  BY <1>3, <1>7 DEF UpsertRow
<1>8. CASE Link(s)
  BY <1>2, <1>3, <1>8 DEF Link
<1>9. CASE Unlink(s)
  BY <1>2, <1>3, <1>9 DEF Unlink
<1>10. ~(FindNode(s) \/ Measure(s) \/ ReadHead(s) \/ FindSource(s) \/ FindTarget(s))
  BY <1>2, <1>3 DEF FindNode, Measure, ReadHead, FindSource, FindTarget
<1>. QED BY <1>1, <1>4, <1>5, <1>6, <1>7, <1>8, <1>9, <1>10 DEF Statement

Exclusive ==
  \A s, o \in Sessions : s # o => Claims(s) \cap (Claims(o) \cup Shares(o)) = {}

\* The rows a session comes to hold are held by nobody else.
LEMMA OpensFree ==
  ASSUME TypeInv, Exclusive, NEW s \in Sessions, Moves(s), NEW o \in Sessions \ {s}
  PROVE  /\ Claims(s)' \cap (Claims(o) \cup Shares(o)) = {}
         /\ Shares(s)' \cap Claims(o) = {}
<1>1. CASE pc'[s] # "open"
  BY <1>1 DEF Claims, Shares
<1>2. CASE pc'[s] = "open"
  <2>0. /\ Claims(o) \subseteq ClaimedByOthers(s) /\ Shares(o) \subseteq SharedByOthers(s)
        /\ nodes' = nodes /\ call'[s] = call[s]
    BY <1>2, Opening DEF ClaimedByOthers, SharedByOthers, store
  <2>1. CASE call[s].op = "insert"
    <3>1. Key(s) \notin Claims(o) /\ ~Live(Key(s))
      BY <1>2, <2>0, <2>1, Opening
    <3>2. Key(s) \notin Shares(o)
      <4>1. Key(s) \in Keys
        BY <1>2, Opening, CallTyped DEF Key, CallRecords
      <4>2. nodes[Key(s)].id = 0
        BY <3>1, <4>1, LiveRow
      <4>3. pc[o] = "open" /\ call[o].op \in EdgeOps => saw[o].id # 0 /\ saw[o].to # 0
        BY DEF TypeInv, RunShape, Shaped
      <4>. QED BY <4>2, <4>3 DEF Shares, EdgeOps
    <3>. QED BY <1>2, <2>0, <2>1, <3>1, <3>2 DEF Claims, Shares, Key, EdgeOps
  <2>2. CASE call[s].op \in {"update", "ingest"}
    <3>1. Key(s) \notin Claims(o) \cup Shares(o)
      BY <1>2, <2>0, <2>2, Opening
    <3>. QED BY <1>2, <2>0, <2>2, <3>1 DEF Claims, Shares, Key, EdgeOps
  <2>3. CASE call[s].op \in {"delete", "purge"}
    <3>1. /\ saw'[s] = saw[s]
          /\ {k \in Keys : nodes[k].id \in saw[s].family} \cap (Claims(o) \cup Shares(o)) = {}
      BY <1>2, <2>0, <2>3, Opening
    <3>. QED BY <1>2, <2>0, <2>3, <3>1 DEF Claims, Shares, EdgeOps
  <2>4. CASE call[s].op \in EdgeOps
    <3>1. saw'[s] = saw[s] /\ EndpointsFree(s)
      BY <1>2, <2>4, Opening DEF EdgeOps
    <3>. QED BY <1>2, <2>0, <2>4, <3>1 DEF Claims, Shares, EndpointsFree, EdgeOps
  <2>. QED BY <1>2, <2>1, <2>2, <2>3, <2>4, Opening DEF EdgeOps
<1>. QED BY <1>1, <1>2

\* A claimed row stays with one transaction.
LEMMA ExclusiveStep ==
  ASSUME TypeInv, Exclusive, NEW s \in Sessions, Moves(s)
  PROVE  Exclusive'
<1>. SUFFICES ASSUME NEW x \in Sessions, NEW y \in Sessions, x # y
             PROVE  Claims(x)' \cap (Claims(y)' \cup Shares(y)') = {}
  BY DEF Exclusive
<1>1. CASE x # s /\ y # s
  BY <1>1, OthersShrink DEF Exclusive
<1>2. CASE x = s
  BY <1>2, OthersShrink, OpensFree
<1>3. CASE y = s
  BY <1>3, OthersShrink, OpensFree
<1>. QED BY <1>1, <1>2, <1>3

-----------------------------------------------------------------------------
(* The history: what a transaction read of a head is still there when it   *)
(* commits, for a verb because it holds the row, for an ingest because     *)
(* nothing else runs.                                                      *)

Solo ==
  \A s, o \in Sessions :
    s # o /\ pc[s] # "idle" /\ pc[o] # "idle" => call[s].op \notin Alone

Writes(s) ==
  \/ pc[s] = "open" /\ call[s].op \in {"insert", "update", "ingest"}
  \/ pc[s] = "act" /\ call[s].op = "ingest"

HeadCurrent == \A s \in Sessions : Writes(s) => saw[s].head = nodes[Key(s)].payload

\* A call that runs alone stays alone.
LEMMA SoloStep ==
  ASSUME TypeInv, Solo, NEW s \in Sessions, Moves(s)
  PROVE  Solo'
<1>0. /\ pc \in [Sessions -> Steps] /\ call \in [Sessions -> Calls \cup {None}]
      /\ \A o \in Sessions \ {s} : pc'[o] = pc[o] /\ call'[o] = call[o]
  BY Frame DEF TypeInv, TypeOK
<1>1. CASE Begin(s)
  <2>. PICK c \in Calls : MayStart(s, c.op) /\ call' = [call EXCEPT ![s] = c]
    BY <1>1 DEF Begin
  <2>1. ASSUME NEW o \in Sessions \ {s}, pc[o] # "idle"
        PROVE  c.op \notin Alone /\ call[o].op \notin Alone
    <3>1. call[o].op \in InFlight(s)
      BY <2>1 DEF InFlight
    <3>. QED BY <3>1 DEF MayStart
  <2>2. call'[s] = c
    BY <1>0
  <2>. QED BY <1>0, <2>1, <2>2 DEF Solo
<1>2. CASE ~Begin(s)
  <2>1. pc'[s] = "idle" \/ (pc[s] # "idle" /\ call'[s] = call[s])
    <3>1. CASE Statement(s)
      <4>1. Ended(s) \/ \E seen, step : Reads(s, seen, step)
        BY <3>1 DEF Statement, InsertRow, LockHead, FindNode, Measure, Sweep, ReadHead, UpsertRow,
                    FindSource, FindTarget, Link, Unlink, Ended
      <4>2. pc[s] # "idle"
        BY <3>1 DEF Statement, InsertRow, LockHead, FindNode, Measure, Sweep, ReadHead, UpsertRow,
                    FindSource, FindTarget, Link, Unlink
      <4>. QED BY <4>1, <4>2 DEF Ended, Fail, Miss, Ends, Reads
    <3>2. CASE Commit(s)
      BY <3>2 DEF Commit
    <3>3. CASE Abort(s)
      BY <3>3 DEF Abort, Ended, Fail, Miss, Ends
    <3>4. CASE Finish(s) \/ Crash(s)
      BY <1>0, <3>4 DEF Finish, Crash, Return, Step
    <3>. QED BY <1>2, <3>1, <3>2, <3>3, <3>4 DEF Moves
  <2>. QED BY <1>0, <2>1 DEF Solo
<1>. QED BY <1>1, <1>2

\* What a writer read of its head stays current until it commits.
LEMMA HeadCurrentStep ==
  ASSUME TypeInv, Exclusive, Solo, HeadCurrent, "ingest" \in Alone,
         NEW s \in Sessions, Moves(s)
  PROVE  HeadCurrent'
<1>. SUFFICES ASSUME NEW o \in Sessions, Writes(o)'
             PROVE  saw'[o].head = nodes'[call'[o].key].payload
  BY DEF HeadCurrent, Key
<1>0. pc \in [Sessions -> Steps] /\ saw \in [Sessions -> Seen] /\ nodes \in [Keys -> Rows]
  BY DEF TypeInv, TypeOK
<1>1. CASE o # s
  <2>1. pc'[o] = pc[o] /\ call'[o] = call[o] /\ saw'[o] = saw[o]
    BY <1>1, Frame
  <2>2. Writes(o) /\ call[o].key \in Keys /\ saw[o].head = nodes[call[o].key].payload
    BY <2>1, CallTyped DEF Writes, HeadCurrent, Key, CallRecords
  <2>3. CASE UNCHANGED store
    BY <2>1, <2>2, <2>3 DEF store
  <2>4. CASE Commit(s)
    <3>1. call[o].op # "ingest"
      BY <1>1, <2>2, <2>4 DEF Solo, Commit, Writes
    <3>2. Claims(o) = {call[o].key}
      BY <2>2, <3>1 DEF Claims, Writes
    <3>3. call[o].key \notin Claims(s)
      BY <1>1, <3>2 DEF Exclusive
    <3>. QED BY <2>1, <2>2, <2>4, <3>3, CommitTouchesClaims
  <2>. QED BY <1>1, <2>3, <2>4, Frame
<1>2. CASE o = s /\ pc'[s] = "open"
  <2>1. call'[s] = call[s] /\ nodes' = nodes /\ pc[s] = "act"
        /\ call[s].op \in {"insert", "update", "ingest"}
    BY <1>2, Opening DEF store, Writes
  <2>2. CASE call[s].op = "insert"
    <3>1. ~Live(Key(s)) /\ saw'[s] = NothingSeen /\ Key(s) \in Keys
      BY <1>2, <2>1, <2>2, Opening, CallTyped DEF Key, CallRecords
    <3>2. nodes[Key(s)].payload = None
      BY <3>1, LiveRow
    <3>. QED BY <1>2, <2>1, <3>1, <3>2 DEF NothingSeen, Key
  <2>3. CASE call[s].op = "update"
    BY <1>2, <2>1, <2>3, Opening DEF Key
  <2>4. CASE call[s].op = "ingest"
    BY <1>2, <2>1, <2>4, Opening DEF Key, HeadCurrent, Writes
  <2>. QED BY <2>1, <2>2, <2>3, <2>4
<1>3. CASE o = s /\ pc'[s] = "act" /\ call'[s].op = "ingest"
  <2>1. Statement(s)
    <3>1. ~Begin(s)
      BY <1>0, <1>3 DEF Begin, Step, TypeInv, TypeOK
    <3>. QED BY <1>0, <1>3, <3>1 DEF Moves, Commit, Finish, Abort, Crash, Ended, Fail, Miss, Ends, Return, Step
  <2>2. ~Fail(s) /\ ~Miss(s)
    BY <1>0, <1>3 DEF Ended, Fail, Miss, Ends, Step
  <2>3. call' = call
    BY <2>1, <2>2 DEF Statement, InsertRow, LockHead, FindNode, Measure, Sweep, ReadHead, UpsertRow,
                      FindSource, FindTarget, Link, Unlink, Reads
  <2>4. ASSUME NEW seen, NEW step, Reads(s, seen, step) PROVE step = "act" /\ saw'[s] = seen
    BY <1>0, <1>3, <2>4 DEF Reads, Step
  <2>5. call[s].op = "ingest" /\ call[s].op \notin EdgeOps
    BY <1>3, <2>3 DEF EdgeOps
  <2>6. pc[s] \notin {"measure", "find_to"}
    BY <2>5 DEF TypeInv, RunShape, Shaped
  <2>7. ~(InsertRow(s) \/ LockHead(s) \/ FindNode(s) \/ Sweep(s) \/ FindSource(s) \/ Link(s) \/ Unlink(s))
    BY <2>5 DEF InsertRow, LockHead, FindNode, Sweep, FindSource, Link, Unlink, EdgeOps
  <2>8. ~UpsertRow(s)
    BY <2>4 DEF UpsertRow
  <2>9. ReadHead(s)
    BY <2>1, <2>6, <2>7, <2>8 DEF Statement, Measure, FindTarget
  <2>10. saw'[s] = [NothingSeen EXCEPT !.head = nodes[Key(s)].payload] /\ nodes' = nodes
    BY <2>4, <2>9 DEF ReadHead, Reads, store
  <2>11. NothingSeen \in Seen
    BY DEF NothingSeen, Seen
  <2>. QED BY <1>3, <2>3, <2>10, <2>11 DEF Seen, Key
<1>. QED BY <1>1, <1>2, <1>3 DEF Writes

\* The payload a log ends in explains the head it belongs to.
Explains(l, payload) ==
  /\ l # << >> /\ l[1].from = None
  /\ \A i \in 1 .. Len(l) - 1 : l[i + 1].from = l[i].to
  /\ l[Len(l)].to = payload

\* An entry that starts where the log ends keeps the log explaining its head.
LEMMA AppendExplains ==
  ASSUME NEW l \in Seq(Entries), NEW e \in Entries,
         \/ l = << >> /\ e.from = None
         \/ Explains(l, e.from)
  PROVE  Explains(Append(l, e), e.to)
<1>. DEFINE m == Append(l, e)
<1>1. /\ m \in Seq(Entries) /\ Len(m) = Len(l) + 1 /\ m[Len(m)] = e /\ m # << >>
      /\ Len(l) \in Nat /\ \A i \in 1 .. Len(l) : m[i] = l[i]
  OBVIOUS
<1>. HIDE DEF m
<1>2. CASE l = << >> /\ e.from = None
  BY <1>1, <1>2 DEF Explains
<1>3. CASE Explains(l, e.from)
  <2>1. Len(l) >= 1
    BY <1>1, <1>3 DEF Explains
  <2>2. ASSUME NEW i \in 1 .. Len(m) - 1 PROVE m[i + 1].from = m[i].to
    <3>1. CASE i = Len(l)
      BY <1>1, <1>3, <2>1, <3>1 DEF Explains
    <3>2. CASE i < Len(l)
      BY <1>1, <1>3, <2>1, <3>2 DEF Explains
    <3>. QED BY <1>1, <3>1, <3>2
  <2>. QED BY <1>1, <1>3, <2>1, <2>2 DEF Explains
<1>. QED BY <1>2, <1>3 DEF m

\* A commit extends a log by the change it makes, or erases it with its node.
LEMMA HistoryStep ==
  ASSUME TypeInv, HeadCurrent, HistoryExplainsHead, NEW s \in Sessions, Moves(s)
  PROVE  HistoryExplainsHead'
<1>0. \A k \in Keys : IF Live(k) THEN Explains(log[k], nodes[k].payload) ELSE log[k] = << >>
  BY DEF HistoryExplainsHead, Explains
<1>. SUFFICES ASSUME NEW k \in Keys
             PROVE  IF Live(k)' THEN Explains(log'[k], nodes'[k].payload) ELSE log'[k] = << >>
  BY DEF HistoryExplainsHead, Explains
<1>1. CASE UNCHANGED store
  BY <1>0, <1>1 DEF store, Live
<1>2. CASE Commit(s) /\ nodes'[k] = nodes[k] /\ log'[k] = log[k]
  BY <1>0, <1>2 DEF Live
<1>3. CASE Commit(s) /\ k \in Claims(s)
  <2>0. pc[s] = "open" /\ log \in [Keys -> Seq(Entries)] /\ saw[s].head \in Payloads \cup {None}
    BY <1>3 DEF Commit, TypeInv, TypeOK, Seen
  <2>1. CASE call[s].op \in {"insert", "update", "ingest"} /\ WriteHead(s)
    <3>1. /\ k = Key(s) /\ call[s].payload \in Payloads /\ nodes'[k].payload = call[s].payload
          /\ nodes' \in [Keys -> Rows] /\ nodes'[k].id # 0
      <4>1. k = Key(s) /\ pc[s] # "idle"
        BY <1>3, <2>0, <2>1 DEF Claims, Key
      <4>2. /\ Key(s) \in Keys /\ call[s].payload \in Payloads
            /\ nodes' = [nodes EXCEPT ![Key(s)] = [id |-> nodes'[Key(s)].id, payload |-> call[s].payload]]
            /\ nodes'[Key(s)].id \in 1 .. nextId' - 1 /\ nextId' \in Nat \ {0}
            /\ nodes' \in [Keys -> Rows]
        BY <2>1, <4>1, WriteHeadRows
      <4>3. nodes \in [Keys -> Rows]
        BY DEF TypeInv, TypeOK
      <4>4. nodes'[k] = [id |-> nodes'[k].id, payload |-> call[s].payload]
        BY <4>1, <4>2, <4>3
      <4>. QED BY <4>1, <4>2, <4>4
    <3>2. Live(k)'
      BY <3>1 DEF Live, NoRow
    <3>3. saw[s].head = nodes[k].payload
      BY <2>0, <2>1, <3>1 DEF HeadCurrent, Writes
    <3>. DEFINE e == [from |-> saw[s].head, to |-> call[s].payload]
    <3>4. e \in Entries
      BY <2>0, <3>1 DEF Entries
    <3>5. \/ log[k] = << >> /\ e.from = None
          \/ Explains(log[k], e.from)
      BY <1>0, <3>3, LiveRow
    <3>6. CASE e.from = e.to
      <4>1. log' = log
        BY <2>1, <3>6 DEF WriteHead, LogAfter
      <4>2. call[s].payload # None
        BY <3>1, ConstantsAssumption
      <4>. QED BY <3>1, <3>2, <3>5, <3>6, <4>1, <4>2
    <3>7. CASE e.from # e.to
      <4>1. log'[k] = Append(log[k], e)
        BY <2>0, <2>1, <3>1, <3>7 DEF WriteHead, LogAfter
      <4>2. Explains(Append(log[k], e), e.to)
        <5>. HIDE DEF e
        <5>. QED BY <2>0, <3>4, <3>5, AppendExplains
      <4>. QED BY <3>1, <3>2, <4>1, <4>2
    <3>. QED BY <3>6, <3>7
  <2>2. CASE call[s].op \in {"delete", "purge"} /\ RemoveFamily(s)
    <3>1. nodes[k].id \in saw[s].family
      BY <1>3, <2>0, <2>2 DEF Claims
    <3>. QED BY <2>2, <3>1 DEF RemoveFamily, Live
  <2>3. CASE call[s].op \in EdgeOps
    BY <1>3, <2>3 DEF Claims, EdgeOps
  <2>. QED BY <1>3, <2>1, <2>2, <2>3, CommitCases DEF EdgeOps
<1>. QED BY <1>1, <1>2, <1>3, CommitTouchesClaims, Frame

HistoryInv == TypeInv /\ Exclusive /\ Solo /\ HeadCurrent /\ HistoryExplainsHead

\* At first nobody holds a row, and each log explains its head.
LEMMA HistoryInit == Init => HistoryInv
<1>. SUFFICES ASSUME Init PROVE HistoryInv
  OBVIOUS
<1>1. TypeInv
  BY InitTyped
<1>2. pc = [s \in Sessions |-> "idle"]
  BY DEF Init
<1>3. Exclusive /\ Solo /\ HeadCurrent
  BY <1>2 DEF Exclusive, Solo, HeadCurrent, Writes, Claims, Shares
<1>4. HistoryExplainsHead
  BY DEF Init, HistoryExplainsHead
<1>. QED BY <1>1, <1>3, <1>4 DEF HistoryInv

\* The strengthened invariant of the history is inductive.
LEMMA HistoryInvStep ==
  ASSUME "ingest" \in Alone
  PROVE  HistoryInv /\ [Next]_vars => HistoryInv'
<1>. SUFFICES ASSUME HistoryInv, [Next]_vars PROVE HistoryInv'
  OBVIOUS
<1>1. TypeInv'
  BY StepTyped DEF HistoryInv
<1>2. ASSUME NEW s \in Sessions, Moves(s) PROVE HistoryInv'
  BY <1>1, <1>2, ExclusiveStep, SoloStep, HeadCurrentStep, HistoryStep DEF HistoryInv
<1>3. CASE UNCHANGED vars
  BY <1>1, <1>3 DEF vars, store, HistoryInv, Exclusive, Claims, Shares, Solo, HeadCurrent, Writes,
                    Key, HistoryExplainsHead, Live
<1>. QED BY <1>2, <1>3 DEF Next, Moves, Rest

\* However the verbs interleave, fail and crash, every log explains its head,
\* as long as an ingest writes alone.
THEOREM HistoryExplains ==
  ASSUME "ingest" \in Alone
  PROVE  Spec => []HistoryExplainsHead
<1>1. HistoryInv => HistoryExplainsHead
  BY DEF HistoryInv
<1>2. HistoryInv /\ [Next]_vars => HistoryInv'
  BY HistoryInvStep
<1>. QED BY <1>1, <1>2, HistoryInit, PTL DEF Spec

\* A replay lists the payloads the entries led to.
LEMMA ReplayTyped ==
  ASSUME NEW l \in Seq(Entries)
  PROVE  /\ Replay(l) \in Seq(Payloads) /\ Len(Replay(l)) = Len(l) /\ Len(l) \in Nat
         /\ \A i \in 1 .. Len(l) : Replay(l)[i] = l[i].to
         /\ Replay(l) = << >> <=> l = << >>
<1>1. ASSUME NEW i \in 1 .. Len(l) PROVE l[i].to \in Payloads
  <2>1. l[i] \in Entries
    OBVIOUS
  <2>. QED BY <2>1 DEF Entries
<1>2. Replay(l) \in [1 .. Len(l) -> Payloads] /\ Len(l) \in Nat
  BY <1>1 DEF Replay
<1>3. Replay(l) \in Seq(Payloads) /\ Len(Replay(l)) = Len(l)
  BY <1>2
<1>4. \A i \in 1 .. Len(l) : Replay(l)[i] = l[i].to
  BY DEF Replay
<1>. QED BY <1>2, <1>3, <1>4

\* Replaying an extended log extends the replay.
LEMMA ReplayAppend ==
  ASSUME NEW l \in Seq(Entries), NEW e \in Entries
  PROVE  Replay(Append(l, e)) = Append(Replay(l), e.to)
<1>1. Append(l, e) \in Seq(Entries) /\ Len(Append(l, e)) = Len(l) + 1 /\ e.to \in Payloads
  BY DEF Entries
<1>2. /\ Append(Replay(l), e.to) \in Seq(Payloads)
      /\ Len(Append(Replay(l), e.to)) = Len(l) + 1
  BY <1>1, ReplayTyped
<1>3. ASSUME NEW i \in 1 .. Len(l) + 1
      PROVE  Append(l, e)[i].to = Append(Replay(l), e.to)[i]
  <2>1. CASE i = Len(l) + 1
    BY <1>1, <2>1, ReplayTyped
  <2>2. CASE i # Len(l) + 1
    BY <1>1, <2>2, ReplayTyped
  <2>. QED BY <2>1, <2>2
<1>. QED BY <1>1, <1>2, <1>3 DEF Replay

\* At first each node has a history of one payload, or none.
LEMMA HistoryRefinesInit == Init => History!Init
<1>. SUFFICES ASSUME Init PROVE History!Init
  OBVIOUS
<1>1. TypeInv
  BY InitTyped
<1>2. ASSUME NEW k \in Keys
      PROVE  Replay(log[k]) = << >> \/ \E p \in Payloads : Replay(log[k]) = <<p>>
  <2>1. log[k] = << >> \/ (log[k] = <<[from |-> None, to |-> nodes[k].payload]>> /\ Live(k))
    BY DEF Init
  <2>2. CASE log[k] = << >>
    BY <2>2 DEF Replay
  <2>3. CASE log[k] = <<[from |-> None, to |-> nodes[k].payload]>> /\ Live(k)
    <3>1. nodes[k].payload \in Payloads
      BY <1>1, <2>3, LiveRow
    <3>2. Replay(log[k]) = <<nodes[k].payload>>
      BY <2>3, <3>1 DEF Replay
    <3>. QED BY <3>1, <3>2
  <2>. QED BY <2>1, <2>2, <2>3
<1>. QED BY <1>2 DEF History!Init, History!NoHistory, Replayed

\* A commit is one step of the history, every other action a stutter.
LEMMA HistoryRefines ==
  HistoryInv /\ [Next]_vars => [History!Next]_Replayed
<1>. SUFFICES ASSUME HistoryInv, [Next]_vars PROVE [History!Next]_Replayed
  OBVIOUS
<1>0. TypeInv /\ HeadCurrent /\ log \in [Keys -> Seq(Entries)]
      /\ \A k \in Keys : IF Live(k) THEN Explains(log[k], nodes[k].payload) ELSE log[k] = << >>
  BY DEF HistoryInv, TypeInv, TypeOK, HistoryExplainsHead, Explains
<1>1. CASE UNCHANGED log
  BY <1>1 DEF Replayed
<1>2. ASSUME NEW s \in Sessions, Commit(s), WriteHead(s),
             call[s].op \in {"insert", "update", "ingest"}
      PROVE  [History!Next]_Replayed
  <2>. DEFINE k == Key(s)
              e == [from |-> saw[s].head, to |-> call[s].payload]
  <2>1. pc[s] = "open"
    BY <1>2 DEF Commit
  <2>2. k \in Keys /\ e.to \in Payloads /\ saw[s].head \in Payloads \cup {None}
    BY <1>0, <1>2, <2>1, WriteHeadRows DEF TypeInv, TypeOK, Seen
  <2>3. e \in Entries /\ e.from = nodes[k].payload
    BY <1>0, <1>2, <2>1, <2>2 DEF Entries, HeadCurrent, Writes
  <2>4. CASE e.from = e.to
    BY <1>1, <1>2, <2>4 DEF WriteHead, LogAfter
  <2>5. CASE e.from # e.to
    <3>1. log' = [log EXCEPT ![k] = Append(log[k], e)]
      BY <1>2, <2>5 DEF WriteHead, LogAfter
    <3>. HIDE DEF e, k
    <3>2. Replayed' = [Replayed EXCEPT ![k] = Append(Replayed[k], e.to)]
      BY <1>0, <2>2, <2>3, <3>1, ReplayAppend DEF Replayed
    <3>3. CASE log[k] = << >>
      <4>1. Replayed[k] = << >>
        BY <2>2, <3>3 DEF Replayed, Replay
      <4>2. History!Create(k, e.to)
        BY <3>2, <4>1 DEF History!Create, History!NoHistory
      <4>. QED BY <2>2, <4>2 DEF History!Next
    <3>4. CASE log[k] # << >>
      <4>1. Explains(log[k], e.from)
        BY <1>0, <2>2, <2>3, <3>4
      <4>2. /\ Replayed[k] = Replay(log[k]) /\ log[k] \in Seq(Entries)
            /\ Len(log[k]) \in Nat /\ Len(log[k]) > 0
        BY <1>0, <2>2, <3>4 DEF Replayed
      <4>3. Replayed[k] # << >> /\ Replayed[k][Len(Replayed[k])] = e.from
        BY <3>4, <4>1, <4>2, ReplayTyped DEF Explains
      <4>4. History!Change(k, e.to)
        BY <2>5, <3>2, <4>3 DEF History!Change, History!NoHistory
      <4>. QED BY <2>2, <4>4 DEF History!Next
    <3>. QED BY <3>3, <3>4
  <2>. QED BY <2>4, <2>5
<1>3. ASSUME NEW s \in Sessions, RemoveFamily(s)
      PROVE  [History!Next]_Replayed
  <2>. DEFINE gone == {k \in Keys : nodes[k].id \in saw[s].family}
  <2>1. log' = [k \in Keys |-> IF k \in gone THEN << >> ELSE log[k]]
    BY <1>3 DEF RemoveFamily
  <2>. HIDE DEF gone
  <2>2. Replay(<< >>) = << >>
    BY DEF Replay
  <2>3. Replayed' = [k \in Keys |-> IF k \in gone THEN << >> ELSE Replayed[k]]
    BY <2>1, <2>2 DEF Replayed
  <2>4. History!Erase(gone) /\ gone \in SUBSET Keys
    BY <2>3 DEF History!Erase, History!NoHistory, gone
  <2>. QED BY <2>4 DEF History!Next
<1>4. ASSUME NEW s \in Sessions, Commit(s) PROVE [History!Next]_Replayed
  <2>1. CASE AddEdge(s) \/ RetractEdge(s)
    BY <1>1, <2>1 DEF AddEdge, RetractEdge
  <2>. QED BY <1>0, <1>2, <1>3, <1>4, <2>1, CommitCases
<1>5. ASSUME NEW s \in Sessions, Moves(s) PROVE [History!Next]_Replayed
  <2>1. CASE UNCHANGED store
    BY <1>1, <2>1 DEF store
  <2>. QED BY <1>0, <1>4, <1>5, <2>1, Frame
<1>6. CASE UNCHANGED vars
  BY <1>1, <1>6 DEF vars, store
<1>. QED BY <1>5, <1>6 DEF Next, Moves, Rest

\* The verbs, and an ingest that writes alone, implement NodeHistory.
THEOREM WritesImplementHistory ==
  ASSUME "ingest" \in Alone
  PROVE  Spec => ImplementsHistory
<1>1. HistoryInv /\ [Next]_vars => HistoryInv'
  BY HistoryInvStep
<1>. QED BY <1>1, HistoryInit, HistoryRefinesInit, HistoryRefines, PTL
         DEF Spec, ImplementsHistory, History!Spec

-----------------------------------------------------------------------------
(* The audit mark.                                                         *)

Unsettled == {"find", "find_to", "measure", "act", "open"}

\* Each running call has an attempt of its own, not yet durable while its
\* transaction is open; a verb's ok reply was earned by a commit.
Attempted ==
  /\ \A s, o \in Sessions : s # o /\ pc[s] # "idle" /\ pc[o] # "idle" => at[s] # at[o]
  /\ \A s \in Sessions :
       /\ pc[s] # "idle" => audit[at[s]].op = call[s].op
       /\ pc[s] \in Unsettled => at[s] \notin durable /\ audit[at[s]].outcome = None
       /\ pc[s] = "finish" /\ reply[s] = "ok" /\ call[s].op \in WriteVerbs => at[s] \in durable

AuditInv == TypeInv /\ Attempted /\ OkIffDurable

\* A step that touches neither the audit log nor what is durable.
LEMMA AuditQuiet ==
  ASSUME AuditInv, NEW s \in Sessions, pc[s] \in Unsettled,
         pc'[s] \in Unsettled \cup {"finish"},
         reply'[s] # "ok" \/ pc'[s] # "finish" \/ call[s].op \notin WriteVerbs,
         \A o \in Sessions \ {s} : pc'[o] = pc[o] /\ reply'[o] = reply[o],
         UNCHANGED <<audit, durable, call, at>>
  PROVE  Attempted' /\ OkIffDurable'
<1>1. "idle" \notin Unsettled /\ "finish" \notin Unsettled
  BY DEF Unsettled
<1>. QED BY <1>1 DEF AuditInv, Attempted, OkIffDurable

\* Every action keeps ok and durable together.
LEMMA AuditStep ==
  ASSUME AuditInv, NEW s \in Sessions, Moves(s)
  PROVE  Attempted' /\ OkIffDurable'
<1>0. /\ \A o \in Sessions \ {s} : pc'[o] = pc[o] /\ call'[o] = call[o] /\ at'[o] = at[o]
                                   /\ reply'[o] = reply[o]
      /\ pc \in [Sessions -> Steps] /\ at \in [Sessions -> Nat] /\ Len(audit) \in Nat
      /\ reply \in [Sessions -> {None, "ok", "failed"}]
      /\ durable \subseteq 1 .. Len(audit)
      /\ \A o \in Sessions : pc[o] # "idle" => at[o] \in 1 .. Len(audit)
  BY Frame, CallTyped DEF AuditInv, TypeInv, TypeOK
<1>1. CASE Begin(s)
  <2>. PICK c \in Calls :
         /\ call' = [call EXCEPT ![s] = c]
         /\ audit' = Append(audit, [op |-> c.op, outcome |-> None])
         /\ pc' = [pc EXCEPT ![s] = IF c.op \in {"insert", "update"} THEN "act" ELSE "find"]
    BY <1>1 DEF Begin, Step
  <2>. DEFINE n == Len(audit) + 1
  <2>1. /\ at'[s] = n /\ call'[s] = c /\ pc'[s] \in Unsettled /\ durable' = durable
        /\ pc'[s] # "finish" /\ pc'[s] # "idle"
    BY <1>0, <1>1 DEF Begin, Unsettled, AuditInv, TypeInv, TypeOK
  <2>2. /\ Len(audit') = n /\ audit'[n] = [op |-> c.op, outcome |-> None]
        /\ \A b \in 1 .. Len(audit) : audit'[b] = audit[b]
    <3>1. audit \in Seq([op : Operations, outcome : {None, "ok", "failed"}])
      BY DEF AuditInv, TypeInv, TypeOK
    <3>. QED BY <3>1
  <2>3. n \notin durable /\ \A o \in Sessions : pc[o] # "idle" => at[o] # n
    BY <1>0
  <2>4. Attempted'
    <3>1. ASSUME NEW o \in Sessions \ {s}
          PROVE  /\ pc'[o] # "idle" => at'[o] # at'[s] /\ audit'[at'[o]].op = call'[o].op
                 /\ pc'[o] \in Unsettled =>
                      at'[o] \notin durable' /\ audit'[at'[o]].outcome = None
                 /\ pc'[o] = "finish" /\ reply'[o] = "ok" /\ call'[o].op \in WriteVerbs => at'[o] \in durable'
      <4>1. pc'[o] \in Unsettled => pc[o] # "idle"
        BY <1>0 DEF Unsettled
      <4>. QED BY <1>0, <2>1, <2>2, <2>3, <4>1 DEF AuditInv, Attempted
    <3>2. /\ audit'[at'[s]].op = call'[s].op /\ at'[s] \notin durable'
          /\ audit'[at'[s]].outcome = None
      BY <2>1, <2>2, <2>3
    <3>3. \A o, x \in Sessions \ {s} :
            o # x /\ pc'[o] # "idle" /\ pc'[x] # "idle" => at'[o] # at'[x]
      BY <1>0 DEF AuditInv, Attempted
    <3>. QED BY <2>1, <3>1, <3>2, <3>3 DEF Attempted
  <2>5. OkIffDurable'
    <3>1. ASSUME NEW b \in 1 .. Len(audit'), audit'[b].op \in WriteVerbs
          PROVE  audit'[b].outcome = "ok" <=> b \in durable'
      <4>1. CASE b = n
        BY <2>1, <2>2, <2>3, <4>1, ConstantsAssumption
      <4>2. CASE b # n
        <5>1. b \in 1 .. Len(audit)
          BY <1>0, <2>2, <4>2
        <5>. QED BY <2>1, <2>2, <3>1, <5>1 DEF AuditInv, OkIffDurable
      <4>. QED BY <4>1, <4>2
    <3>. QED BY <3>1 DEF OkIffDurable
  <2>. QED BY <2>4, <2>5
<1>2. CASE Statement(s) \/ Abort(s)
  <2>1. Ended(s) \/ \E seen, step : Reads(s, seen, step) /\ step \in Unsettled
    BY <1>2 DEF Statement, InsertRow, LockHead, FindNode, Measure, Sweep, ReadHead, UpsertRow,
                FindSource, FindTarget, Link, Unlink, Abort, Unsettled, Ended
  <2>2. pc[s] \in Unsettled
    BY <1>0, <1>2 DEF Statement, InsertRow, LockHead, FindNode, Measure, Sweep, ReadHead, UpsertRow,
                FindSource, FindTarget, Link, Unlink, Abort, Unsettled, Steps
  <2>3. /\ UNCHANGED <<audit, durable, call, at>> /\ pc'[s] \in Unsettled \cup {"finish"}
        /\ reply'[s] # "ok" \/ pc'[s] # "finish" \/ call[s].op \notin WriteVerbs
    BY <1>0, <2>1 DEF Ended, Fail, Miss, Ends, Reads, Step, Unsettled, IngestWrites, WriteVerbs
  <2>. QED BY <1>0, <2>2, <2>3, AuditQuiet
<1>3. CASE Commit(s)
  <2>1. /\ pc[s] = "open" /\ pc'[s] = "finish" /\ durable' = durable \cup {at[s]}
        /\ call' = call /\ at' = at /\ CommitMark(s) /\ at[s] \in 1 .. Len(audit)
    BY <1>0, <1>3 DEF Commit, Step
  <2>2. \A o \in Sessions \ {s} : pc[o] # "idle" => at[o] # at[s]
    BY <2>1 DEF AuditInv, Attempted
  <2>3. /\ Len(audit') = Len(audit)
        /\ \A b \in 1 .. Len(audit) : audit'[b].op = audit[b].op
    BY <2>1, MarkTyped DEF CommitMark, AuditInv
  <2>4. Attempted'
    <3>1. at[s] \in durable'
      BY <2>1
    <3>2. ASSUME NEW o \in Sessions \ {s}, pc[o] \in Unsettled
          PROVE  at[o] \notin durable' /\ audit'[at[o]].outcome = None
      <4>1. at[o] \in 1 .. Len(audit) /\ at[o] # at[s]
        BY <1>0, <2>2, <3>2 DEF Unsettled
      <4>2. audit'[at[o]].outcome = audit[at[o]].outcome
        BY <2>1, <4>1, MarkTyped DEF CommitMark, AuditInv
      <4>. QED BY <2>1, <3>2, <4>1, <4>2 DEF AuditInv, Attempted
    <3>3. ASSUME NEW o \in Sessions, pc'[o] # "idle"
          PROVE  /\ pc[o] # "idle" /\ at[o] \in 1 .. Len(audit)
                 /\ audit'[at'[o]].op = call'[o].op
      <4>1. pc[o] # "idle" /\ at[o] \in 1 .. Len(audit)
        BY <1>0, <2>1, <3>3
      <4>2. audit[at[o]].op = call[o].op
        BY <4>1 DEF AuditInv, Attempted
      <4>. QED BY <2>1, <2>3, <4>1, <4>2
    <3>4. \A x, o \in Sessions : x # o /\ pc'[x] # "idle" /\ pc'[o] # "idle" => at'[x] # at'[o]
      BY <2>1, <3>3 DEF AuditInv, Attempted
    <3>5. ASSUME NEW o \in Sessions \ {s}
          PROVE  /\ pc'[o] \in Unsettled => at'[o] \notin durable' /\ audit'[at'[o]].outcome = None
                 /\ pc'[o] = "finish" /\ reply'[o] = "ok" /\ call'[o].op \in WriteVerbs => at'[o] \in durable'
      BY <1>0, <2>1, <3>2 DEF AuditInv, Attempted
    <3>6. pc'[s] \notin Unsettled /\ at'[s] \in durable'
      BY <2>1, <3>1 DEF Unsettled
    <3>. QED BY <3>3, <3>4, <3>5, <3>6 DEF Attempted
  <2>5. OkIffDurable'
    <3>1. ASSUME NEW b \in 1 .. Len(audit), audit[b].op \in WriteVerbs, b # at[s]
          PROVE  audit'[b].outcome = "ok" <=> b \in durable'
      <4>1. audit'[b].outcome = audit[b].outcome
        BY <2>1, <3>1, MarkTyped DEF CommitMark, AuditInv
      <4>. QED BY <2>1, <3>1, <4>1 DEF AuditInv, OkIffDurable
    <3>2. ASSUME audit[at[s]].op \in WriteVerbs
          PROVE  audit'[at[s]].outcome = "ok"
      <4>1. call[s].op \in WriteVerbs /\ at[s] \notin durable
        BY <2>1, <3>2 DEF AuditInv, Attempted, Unsettled
      <4>2. audit' = Marked(at[s], "ok")
        BY <2>1, <4>1 DEF CommitMark
      <4>3. audit[at[s]].outcome = None
        BY <2>1 DEF AuditInv, Attempted, Unsettled
      <4>. QED BY <2>1, <4>2, <4>3, MarkTyped DEF AuditInv
    <3>. QED BY <2>1, <2>3, <3>1, <3>2 DEF OkIffDurable
  <2>. QED BY <2>4, <2>5
<1>4. CASE Finish(s) \/ Crash(s)
  <2>1. /\ pc'[s] = "idle" /\ durable' = durable
    BY <1>0, <1>4 DEF Finish, Crash, Return, Step
  <2>2. CASE audit' = audit
    BY <1>0, <2>1, <2>2, SMTT(30) DEF AuditInv, Attempted, OkIffDurable, Unsettled
  <2>3. CASE Finish(s)
    <3>1. /\ pc[s] = "finish" /\ audit' = Marked(at[s], reply[s])
          /\ reply[s] \in {"ok", "failed"} /\ at[s] \in 1 .. Len(audit)
      BY <1>0, <2>3 DEF Finish, AuditInv, TypeInv, RunShape
    <3>2. /\ Len(audit') = Len(audit)
          /\ \A b \in 1 .. Len(audit) :
               /\ audit'[b].op = audit[b].op
               /\ audit'[b].outcome =
                    IF b = at[s] /\ audit[at[s]].outcome = None THEN reply[s] ELSE audit[b].outcome
      BY <3>1, MarkTyped DEF AuditInv
    <3>3. Attempted'
      <4>1. ASSUME NEW o \in Sessions \ {s}, pc[o] \in Unsettled
            PROVE  audit'[at[o]].outcome = None
        <5>1. at[o] \in 1 .. Len(audit) /\ at[o] # at[s] /\ audit[at[o]].outcome = None
          BY <1>0, <3>1, <4>1 DEF AuditInv, Attempted, Unsettled
        <5>. QED BY <3>2, <5>1
      <4>2. ASSUME NEW o \in Sessions, pc'[o] # "idle"
            PROVE  /\ o \in Sessions \ {s} /\ at'[o] = at[o] /\ at[o] \in 1 .. Len(audit)
                     /\ pc'[o] = pc[o] /\ reply'[o] = reply[o] /\ call'[o] = call[o]
                   /\ audit'[at'[o]].op = call'[o].op
        <5>1. o # s
          BY <2>1, <4>2
        <5>2. /\ pc'[o] = pc[o] /\ at'[o] = at[o] /\ call'[o] = call[o] /\ reply'[o] = reply[o]
              /\ at[o] \in 1 .. Len(audit)
          BY <1>0, <4>2, <5>1
        <5>3. audit[at[o]].op = call[o].op
          BY <4>2, <5>2 DEF AuditInv, Attempted
        <5>. QED BY <3>2, <5>1, <5>2, <5>3
      <4>3. \A x, o \in Sessions : x # o /\ pc'[x] # "idle" /\ pc'[o] # "idle" => at'[x] # at'[o]
        BY <4>2 DEF AuditInv, Attempted
      <4>4. ASSUME NEW o \in Sessions
            PROVE  /\ pc'[o] # "idle" => audit'[at'[o]].op = call'[o].op
                   /\ pc'[o] \in Unsettled => at'[o] \notin durable' /\ audit'[at'[o]].outcome = None
                   /\ pc'[o] = "finish" /\ reply'[o] = "ok" /\ call'[o].op \in WriteVerbs
                        => at'[o] \in durable'
        BY <2>1, <4>1, <4>2 DEF AuditInv, Attempted, Unsettled
      <4>. QED BY <4>3, <4>4 DEF Attempted
    <3>4. ASSUME NEW b \in 1 .. Len(audit), audit[b].op \in WriteVerbs
          PROVE  audit'[b].outcome = "ok" <=> b \in durable'
      <4>1. audit[b].outcome = "ok" <=> b \in durable
        BY <3>4 DEF AuditInv, OkIffDurable
      <4>2. CASE b = at[s] /\ audit[at[s]].outcome = None
        <5>1. audit'[b].outcome = reply[s] /\ b \notin durable
          BY <3>2, <4>1, <4>2, ConstantsAssumption
        <5>2. reply[s] = "ok" => at[s] \in durable
          BY <3>1, <3>4, <4>2 DEF AuditInv, Attempted
        <5>. QED BY <2>1, <4>2, <5>1, <5>2
      <4>3. CASE ~(b = at[s] /\ audit[at[s]].outcome = None)
        BY <2>1, <3>2, <4>1, <4>3
      <4>. QED BY <4>2, <4>3
    <3>5. OkIffDurable'
      BY <3>2, <3>4 DEF OkIffDurable
    <3>. QED BY <3>3, <3>5
  <2>. QED BY <1>4, <2>2, <2>3 DEF Crash
<1>. QED BY <1>1, <1>2, <1>3, <1>4 DEF Moves

\* A write verb's attempt is marked ok if and only if its mutation is durable.
THEOREM OkIsDurable == Spec => []OkIffDurable
<1>1. Init => AuditInv
  <2>. SUFFICES ASSUME Init PROVE AuditInv
    OBVIOUS
  <2>1. TypeInv
    BY InitTyped
  <2>2. pc = [s \in Sessions |-> "idle"] /\ audit = << >>
    BY DEF Init
  <2>. QED BY <2>1, <2>2 DEF AuditInv, Attempted, OkIffDurable, Unsettled
<1>2. AuditInv /\ [Next]_vars => AuditInv'
  <2>. SUFFICES ASSUME AuditInv, [Next]_vars PROVE AuditInv'
    OBVIOUS
  <2>1. TypeInv'
    BY StepTyped DEF AuditInv
  <2>2. ASSUME NEW s \in Sessions, Moves(s) PROVE AuditInv'
    BY <2>1, <2>2, AuditStep DEF AuditInv
  <2>3. CASE UNCHANGED vars
    BY <2>1, <2>3 DEF vars, store, AuditInv, Attempted, OkIffDurable
  <2>. QED BY <2>2, <2>3 DEF Next, Moves, Rest
<1>3. AuditInv => OkIffDurable
  BY DEF AuditInv
<1>. QED BY <1>1, <1>2, <1>3, PTL DEF Spec

-----------------------------------------------------------------------------
(* The edges: a pending edge holds its endpoints, a removal takes the      *)
(* edges of what it removes.                                               *)

Links(s) == pc[s] = "open" /\ call[s].op \in {"edge.assert", "declare"}

LinkLive == \A s \in Sessions : Links(s) => {saw[s].id, saw[s].to} \subseteq LiveIds

EdgeInv == TypeInv /\ Exclusive /\ LinkLive /\ EdgesJoinNodes

\* A commit ends the life of the ids in its family and of no other.
LEMMA LiveKept ==
  ASSUME TypeInv, NEW s \in Sessions, Commit(s), NEW id \in LiveIds
  PROVE  \/ id \in LiveIds'
         \/ call[s].op \in {"delete", "purge"} /\ RemoveFamily(s) /\ id \in saw[s].family
<1>0. PICK k \in Keys : Live(k) /\ nodes[k].id = id
  BY DEF LiveIds
<1>1. pc[s] # "idle" /\ id # 0 /\ nodes \in [Keys -> Rows]
  BY <1>0, LiveRow DEF Commit, TypeInv, TypeOK
<1>2. ASSUME nodes'[k].id = id PROVE id \in LiveIds'
  BY <1>0, <1>1, <1>2 DEF LiveIds, Live, NoRow
<1>3. CASE WriteHead(s)
  <2>1. /\ nodes' = [nodes EXCEPT ![Key(s)] = [id |-> nodes'[Key(s)].id, payload |-> call[s].payload]]
        /\ nodes'[Key(s)].id = IF Live(Key(s)) THEN nodes[Key(s)].id ELSE nextId
    BY <1>1, <1>3, WriteHeadRows
  <2>2. CASE k = Key(s)
    BY <1>0, <1>2, <2>1, <2>2
  <2>3. CASE k # Key(s)
    BY <1>0, <1>1, <1>2, <2>1, <2>3
  <2>. QED BY <2>2, <2>3
<1>4. CASE call[s].op \in {"delete", "purge"} /\ RemoveFamily(s)
  <2>1. CASE id \in saw[s].family
    BY <1>4, <2>1
  <2>2. CASE id \notin saw[s].family
    BY <1>0, <1>2, <1>4, <2>2 DEF RemoveFamily
  <2>. QED BY <2>1, <2>2
<1>5. CASE AddEdge(s) \/ RetractEdge(s)
  BY <1>0, <1>2, <1>5 DEF AddEdge, RetractEdge
<1>. QED BY <1>3, <1>4, <1>5, CommitCases

\* The endpoints of a pending edge stay until it commits.
LEMMA LinkLiveStep ==
  ASSUME EdgeInv, NEW s \in Sessions, Moves(s)
  PROVE  LinkLive'
<1>0. TypeInv /\ Exclusive /\ LinkLive
  BY DEF EdgeInv
<1>. SUFFICES ASSUME NEW o \in Sessions, Links(o)'
             PROVE  {saw'[o].id, saw'[o].to} \subseteq LiveIds'
  BY DEF LinkLive
<1>1. CASE o = s
  <2>1. saw'[s] = saw[s] /\ {saw[s].id, saw[s].to} \subseteq LiveIds /\ nodes' = nodes
    BY <1>0, <1>1, Opening DEF Links, store
  <2>. QED BY <1>1, <2>1 DEF LiveIds, Live
<1>2. CASE o # s
  <2>1. /\ saw'[o] = saw[o] /\ Links(o)
    BY <1>0, <1>2, Frame DEF Links
  <2>2. {saw[o].id, saw[o].to} \subseteq LiveIds
    BY <1>0, <2>1 DEF LinkLive
  <2>3. CASE UNCHANGED store
    BY <2>1, <2>2, <2>3 DEF store, LiveIds, Live
  <2>4. CASE Commit(s)
    <3>1. ASSUME NEW id \in {saw[o].id, saw[o].to} PROVE id \in LiveIds'
      <4>1. PICK k \in Keys : nodes[k].id = id
        BY <2>2 DEF LiveIds
      <4>2. k \in Shares(o)
        BY <2>1, <3>1, <4>1 DEF Shares, Links, EdgeOps
      <4>3. k \notin Claims(s)
        BY <1>0, <1>2, <4>2 DEF Exclusive
      <4>4. ~(call[s].op \in {"delete", "purge"} /\ id \in saw[s].family)
        BY <2>4, <4>1, <4>3 DEF Claims, Commit
      <4>. QED BY <1>0, <2>2, <2>4, <4>4, LiveKept
    <3>. QED BY <2>1, <3>1
  <2>. QED BY <1>0, <2>3, <2>4, Frame
<1>. QED BY <1>1, <1>2

\* Every action leaves edges between stored nodes only.
LEMMA EdgesStep ==
  ASSUME EdgeInv, NEW s \in Sessions, Moves(s)
  PROVE  EdgesJoinNodes'
<1>0. TypeInv /\ LinkLive /\ EdgesJoinNodes
  BY DEF EdgeInv
<1>1. CASE UNCHANGED store
  BY <1>0, <1>1 DEF store, EdgesJoinNodes, LiveIds, Live
<1>2. CASE Commit(s)
  <2>. SUFFICES ASSUME NEW e \in edges' PROVE {e.src, e.dst} \subseteq LiveIds'
    BY DEF EdgesJoinNodes
  <2>1. {e.src, e.dst} \subseteq LiveIds
    <3>1. CASE e \in edges
      BY <1>0, <3>1 DEF EdgesJoinNodes
    <3>2. CASE e \notin edges
      <4>1. call[s].op \in {"edge.assert", "declare"} /\ e = Edge(s, BasisOf(call[s].op))
        BY <1>0, <1>2, <3>2, CommitCases DEF WriteHead, RemoveFamily, AddEdge, RetractEdge
      <4>2. {saw[s].id, saw[s].to} \subseteq LiveIds
        BY <1>0, <1>2, <4>1 DEF LinkLive, Links, Commit
      <4>. QED BY <4>1, <4>2 DEF Edge
    <3>. QED BY <3>1, <3>2
  <2>2. ASSUME RemoveFamily(s) PROVE e.src \notin saw[s].family /\ e.dst \notin saw[s].family
    BY <2>2 DEF RemoveFamily, EdgesOf
  <2>. QED BY <1>0, <1>2, <2>1, <2>2, LiveKept
<1>. QED BY <1>0, <1>1, <1>2, Frame

\* No edge outlives an endpoint.
THEOREM EdgesJoin == Spec => []EdgesJoinNodes
<1>1. Init => EdgeInv
  <2>. SUFFICES ASSUME Init PROVE EdgeInv
    OBVIOUS
  <2>1. TypeInv
    BY InitTyped
  <2>2. pc = [s \in Sessions |-> "idle"]
    BY DEF Init
  <2>3. Exclusive /\ LinkLive
    BY <2>2 DEF Exclusive, LinkLive, Links, Claims, Shares
  <2>4. EdgesJoinNodes
    BY DEF Init, EdgesJoinNodes
  <2>. QED BY <2>1, <2>3, <2>4 DEF EdgeInv
<1>2. EdgeInv /\ [Next]_vars => EdgeInv'
  <2>. SUFFICES ASSUME EdgeInv, [Next]_vars PROVE EdgeInv'
    OBVIOUS
  <2>1. TypeInv'
    BY StepTyped DEF EdgeInv
  <2>2. ASSUME NEW s \in Sessions, Moves(s) PROVE EdgeInv'
    BY <2>1, <2>2, ExclusiveStep, LinkLiveStep, EdgesStep DEF EdgeInv
  <2>3. CASE UNCHANGED vars
    BY <2>1, <2>3 DEF vars, store, EdgeInv, Exclusive, Claims, Shares, LinkLive, Links,
                      EdgesJoinNodes, LiveIds, Live
  <2>. QED BY <2>2, <2>3 DEF Next, Moves, Rest
<1>3. EdgeInv => EdgesJoinNodes
  BY DEF EdgeInv
<1>. QED BY <1>1, <1>2, <1>3, PTL DEF Spec

\* A declared edge goes only with one of its endpoints.
LEMMA StayStep ==
  TypeInv /\ [Next]_vars =>
    [\A e \in edges \ edges' : e.basis = "declared" => ~({e.src, e.dst} \subseteq LiveIds')]_vars
<1>. SUFFICES ASSUME TypeInv, [Next]_vars, NEW e \in edges, e \notin edges', e.basis = "declared",
                     {e.src, e.dst} \subseteq LiveIds'
             PROVE  FALSE
  OBVIOUS
<1>1. ASSUME NEW s \in Sessions, Moves(s) PROVE FALSE
  <2>1. Commit(s)
    BY <1>1, Frame DEF store
  <2>2. ~WriteHead(s) /\ ~AddEdge(s)
    BY DEF WriteHead, AddEdge
  <2>3. ~RetractEdge(s)
    BY DEF RetractEdge, Edge
  <2>4. RemoveFamily(s)
    BY <2>1, <2>2, <2>3, CommitCases
  <2>5. e.src \in saw[s].family \/ e.dst \in saw[s].family
    BY <2>4 DEF RemoveFamily, EdgesOf
  <2>6. ASSUME NEW id \in saw[s].family, id \in LiveIds' PROVE FALSE
    <3>1. PICK k \in Keys : nodes'[k].id = id /\ nodes'[k] # NoRow
      BY <2>6 DEF LiveIds, Live
    <3>2. nodes[k].id \in saw[s].family
      BY <2>4, <3>1 DEF RemoveFamily
    <3>. QED BY <2>4, <3>1, <3>2 DEF RemoveFamily
  <2>. QED BY <2>5, <2>6
<1>2. CASE UNCHANGED vars
  BY <1>2 DEF vars, store
<1>. QED BY <1>1, <1>2 DEF Next, Moves, Rest

\* What an ingest declared, no verb takes away but with a node it joins.
THEOREM DeclaredEdgesStay == Spec => IngestEdgesStay
BY InitTyped, StepTyped, StayStep, PTL DEF Spec, IngestEdgesStay
=============================================================================
