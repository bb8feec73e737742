---------------------------- MODULE NodeWrites ----------------------------
(***************************************************************************)
(* Sessions that write the nodes and edges of one graph: the verbs insert, *)
(* update, delete, purge, edge.assert and edge.retract of                  *)
(* yeomna-verbs/src/write.rs, each wrapped by execute.rs and audit.rs in   *)
(* an attempt row, and what an ingest writes beside them through           *)
(* yeomna-store/src/sink.rs: a node's upsert, and a declared edge.         *)
(*                                                                         *)
(* A call is a transaction of a few statements at READ COMMITTED.  A       *)
(* statement is one action: it sees what has committed, waits for the rows *)
(* another open transaction has claimed, and leaves its own writes pending *)
(* until Commit.  The locks are Postgres's; the statements are the code's. *)
(***************************************************************************)
EXTENDS Integers, Sequences, FiniteSets

CONSTANTS
  Sessions,   \* connections of the verb layer, one call at a time on each
  Keys,       \* natural keys of one graph
  Payloads,   \* what a node may hold
  None,       \* no payload, no parent, no outcome
  ParentOf,   \* [Payloads -> Keys \cup {None}]: file_key or doc_key in a payload
  Stored,     \* what the graph may hold at first, a payload or None per key
  RowOf,      \* [Keys -> Nat]: the row ids those nodes have
  FirstId,    \* the first row id still free
  Calls,      \* the calls a caller may make
  Alone,      \* the operations that run with no other call in flight
  MaxCalls,   \* how many calls are made in all
  Faults      \* BOOLEAN: may a statement fail, a process die, an answer be lost

WriteVerbs == {"insert", "update", "delete", "purge", "edge.assert", "edge.retract"}

\* What an ingest writes: a node, and an edge its document declares.
IngestWrites == {"ingest", "declare"}
Operations == WriteVerbs \cup IngestWrites
CallRecords == [op : Operations, key : Keys, to : Keys, payload : Payloads]

ASSUME ConstantsAssumption ==
  /\ None \notin Payloads /\ None \notin Keys
  /\ None \notin {"ok", "failed"}
  /\ ParentOf \in [Payloads -> Keys \cup {None}]
  /\ Stored \subseteq [Keys -> Payloads \cup {None}]
  /\ FirstId \in Nat \ {0} /\ RowOf \in [Keys -> 1 .. FirstId - 1]
  /\ \A k, j \in Keys : RowOf[k] = RowOf[j] => k = j
  /\ Calls \subseteq CallRecords
  /\ Alone \subseteq Operations
  /\ MaxCalls \in Nat
  /\ Faults \in BOOLEAN

VARIABLES
  nodes,    \* per key, the committed head row, NoRow when there is none
  log,      \* per key, the node_log of that row
  edges,    \* committed edge rows, endpoints by row id
  nextId,   \* the identity sequence
  audit,    \* audit_log: what was attempted and how it is marked
  durable,  \* history: the attempts whose transaction committed
  pc,       \* per session, the statement it runs next
  call,     \* per session, the call it serves
  at,       \* per session, its row of the audit log
  saw,      \* per session, what its transaction has read
  reply     \* per session, what it will tell its caller

store == <<nodes, log, edges, nextId>>
vars == <<store, audit, durable, pc, call, at, saw, reply>>

-----------------------------------------------------------------------------
NoRow == [id |-> 0, payload |-> None]
Live(k) == nodes[k] # NoRow
LiveIds == {nodes[k].id : k \in {x \in Keys : Live(x)}}

Entries == [from : Payloads \cup {None}, to : Payloads]
Edge(s, basis) == [src |-> saw[s].id, dst |-> saw[s].to, basis |-> basis]
EdgesOf(ids) == {e \in edges : e.src \in ids \/ e.dst \in ids}

\* id, to: the row ids the call's keys resolved to; head: the payload read;
\* family: the row ids a delete or purge removes; edges, entries: what it
\* measured there and reports the counts of.
NothingSeen ==
  [id |-> 0, to |-> 0, head |-> None, family |-> {}, edges |-> {}, entries |-> {}]

\* The log entries of a set of rows, as <<key, seq>>.
EntriesOf(ids) ==
  UNION {{k} \X (1 .. Len(log[k])) : k \in {x \in Keys : nodes[x].id \in ids}}

-----------------------------------------------------------------------------
(* What an open transaction keeps others from.                             *)

EdgeOps == {"edge.assert", "edge.retract", "declare"}

\* basis is part of an edge's identity: an ingest declares, a caller asserts.
BasisOf(op) == IF op = "declare" THEN "declared" ELSE "asserted"

\* The rows a transaction holds exclusively: FOR UPDATE, an upsert, a DELETE.
Claims(s) ==
  IF pc[s] # "open" THEN {}
  ELSE CASE call[s].op \in {"insert", "update", "ingest"} -> {call[s].key}
         [] call[s].op \in {"delete", "purge"} -> {k \in Keys : nodes[k].id \in saw[s].family}
         [] OTHER -> {}

\* The endpoints of a pending edge: KEY SHARE for the foreign keys of an
\* insert, the edge row itself against the cascade for a retraction.
Shares(s) ==
  IF pc[s] = "open" /\ call[s].op \in EdgeOps
    THEN {k \in Keys : nodes[k].id \in {saw[s].id, saw[s].to}} ELSE {}

ClaimedByOthers(s) == UNION {Claims(o) : o \in Sessions \ {s}}
SharedByOthers(s) == UNION {Shares(o) : o \in Sessions \ {s}}

\* Another session has a pending write to the same edge identity.
EdgePending(s) ==
  \E o \in Sessions \ {s} :
    /\ pc[o] = "open" /\ call[o].op \in EdgeOps
    /\ BasisOf(call[o].op) = BasisOf(call[s].op)
    /\ saw[o].id = saw[s].id /\ saw[o].to = saw[s].to

-----------------------------------------------------------------------------
\* The graph an earlier ingest left: each node with the one entry that
\* created it, and the edges the documents declared between them.
Init ==
  /\ \E payload \in Stored :
       nodes = [k \in Keys |-> IF payload[k] = None THEN NoRow
                               ELSE [id |-> RowOf[k], payload |-> payload[k]]]
  /\ log = [k \in Keys |-> IF Live(k) THEN <<[from |-> None, to |-> nodes[k].payload]>>
                           ELSE << >>]
  /\ edges \in SUBSET {e \in [src : LiveIds, dst : LiveIds, basis : {"declared"}] : e.src # e.dst}
  /\ nextId = FirstId
  /\ audit = << >> /\ durable = {}
  /\ pc = [s \in Sessions |-> "idle"]
  /\ call = [s \in Sessions |-> None] /\ at = [s \in Sessions |-> 0]
  /\ saw = [s \in Sessions |-> NothingSeen]
  /\ reply = [s \in Sessions |-> None]

-----------------------------------------------------------------------------
(* The shell of a call: execute.rs and audit.rs.                           *)

Step(s, next) == pc' = [pc EXCEPT ![s] = next]

\* A statement that only reads.
Reads(s, seen, next) ==
  /\ saw' = [saw EXCEPT ![s] = seen] /\ Step(s, next)
  /\ UNCHANGED <<store, audit, durable, call, at, reply>>

\* The transaction ends with nothing written.
Ends(s, answer) ==
  /\ reply' = [reply EXCEPT ![s] = answer]
  /\ saw' = [saw EXCEPT ![s] = NothingSeen]
  /\ Step(s, "finish")
  /\ UNCHANGED <<store, audit, durable, call, at>>

\* The error path: the transaction is dropped, which rolls it back.
Fail(s) == Ends(s, "failed")

\* An endpoint is missing: a verb is refused; an ingest counts the row, rolls
\* back its savepoint and goes on.
Miss(s) == Ends(s, IF call[s].op \in IngestWrites THEN "ok" ELSE "failed")

\* The sink is written for one sequential caller; Alone says of which calls
\* that is assumed.
InFlight(s) == {call[o].op : o \in {x \in Sessions \ {s} : pc[x] # "idle"}}
MayStart(s, op) == InFlight(s) # {} => (InFlight(s) \cup {op}) \cap Alone = {}

\* Mutant: the verb runs although its attempt was not recorded.
BeginUnrecorded(s) ==
  /\ pc[s] = "idle" /\ Len(audit) < MaxCalls
  /\ \E c \in Calls :
       /\ call' = [call EXCEPT ![s] = c]
       /\ Step(s, IF c.op \in {"insert", "update"} THEN "act" ELSE "find")
  /\ at' = [at EXCEPT ![s] = Len(audit) + 1]
  /\ UNCHANGED <<store, audit, durable, saw, reply>>

\* audit::begin commits the attempt before the verb runs.
Begin(s) ==
  /\ pc[s] = "idle" /\ Len(audit) < MaxCalls
  /\ \E c \in Calls :
       /\ MayStart(s, c.op)
       /\ call' = [call EXCEPT ![s] = c]
       /\ audit' = Append(audit, [op |-> c.op, outcome |-> None])
       /\ Step(s, IF c.op \in {"insert", "update"} THEN "act" ELSE "find")
  /\ at' = [at EXCEPT ![s] = Len(audit) + 1]
  /\ UNCHANGED <<store, durable, saw, reply>>

\* Mutant: the mark is written without the NULL guard.
MarkedAgain(a, outcome) == [audit EXCEPT ![a].outcome = outcome]

\* audit::finish: the first mark is the only mark.
Marked(a, outcome) ==
  IF audit[a].outcome = None THEN [audit EXCEPT ![a].outcome = outcome] ELSE audit

\* The session is ready for its next call.
Return(s) ==
  /\ Step(s, "idle")
  /\ call' = [call EXCEPT ![s] = None]
  /\ at' = [at EXCEPT ![s] = 0]
  /\ saw' = [saw EXCEPT ![s] = NothingSeen]
  /\ reply' = [reply EXCEPT ![s] = None]
  /\ UNCHANGED <<store, durable>>

Finish(s) ==
  /\ pc[s] = "finish"
  /\ audit' = Marked(at[s], reply[s])
  /\ Return(s)

\* The process or its connection dies: what is pending is rolled back and the
\* attempt keeps whatever mark it has.
Crash(s) ==
  /\ Faults /\ pc[s] # "idle"
  /\ UNCHANGED audit
  /\ Return(s)

\* The arguments are refused, the store errs, a deadlock is broken.
Abort(s) ==
  /\ Faults /\ pc[s] \notin {"idle", "finish"}
  /\ Fail(s)

-----------------------------------------------------------------------------
(* The statements.                                                         *)

Key(s) == call[s].key

\* INSERT ... ON CONFLICT DO NOTHING: waits for a pending row of that key.
InsertRow(s) ==
  /\ pc[s] = "act" /\ call[s].op = "insert"
  /\ Key(s) \notin ClaimedByOthers(s)
  /\ IF Live(Key(s)) THEN Fail(s) ELSE Reads(s, NothingSeen, "open")

\* Mutant: the read-modify-write without FOR UPDATE.
ReadHeadForUpdate(s) ==
  /\ pc[s] = "act" /\ call[s].op = "update"
  /\ IF Live(Key(s)) THEN Reads(s, [NothingSeen EXCEPT !.head = nodes[Key(s)].payload], "open")
                     ELSE Fail(s)

\* SELECT ... FOR UPDATE: a pending insert is invisible, a claimed row waited for.
LockHead(s) ==
  /\ pc[s] = "act" /\ call[s].op = "update"
  /\ \/ ~Live(Key(s)) /\ Fail(s)
     \/ /\ Live(Key(s))
        /\ Key(s) \notin ClaimedByOthers(s) \cup SharedByOthers(s)
        /\ Reads(s, [NothingSeen EXCEPT !.head = nodes[Key(s)].payload], "open")

\* delete and purge look the key up before they measure.
FindNode(s) ==
  /\ pc[s] = "find" /\ call[s].op \in {"delete", "purge"}
  /\ IF Live(Key(s)) THEN Reads(s, [NothingSeen EXCEPT !.id = nodes[Key(s)].id], "measure")
                     ELSE Fail(s)

\* purge: the node and every node whose payload names it as parent.
Family(k) ==
  {nodes[j].id : j \in {x \in Keys : Live(x) /\ (x = k \/ ParentOf[nodes[x].payload] = k)}}

\* The snapshot of the DELETE statement, which counts before it removes.
Measure(s) ==
  /\ pc[s] = "measure"
  /\ LET family == IF call[s].op = "purge" THEN Family(Key(s)) ELSE {saw[s].id}
     IN  Reads(s, [saw[s] EXCEPT !.family = family, !.edges = EdgesOf(family),
                                !.entries = EntriesOf(family)], "act")

\* Its row locks; a row that has gone meanwhile is passed over.
Sweep(s) ==
  /\ pc[s] = "act" /\ call[s].op \in {"delete", "purge"}
  /\ {k \in Keys : nodes[k].id \in saw[s].family}
       \cap (ClaimedByOthers(s) \cup SharedByOthers(s)) = {}
  /\ Reads(s, saw[s], "open")

\* The ingest reads the head without a lock ...
ReadHead(s) ==
  /\ pc[s] = "find" /\ call[s].op = "ingest"
  /\ Reads(s, [NothingSeen EXCEPT !.head = nodes[Key(s)].payload], "act")

\* ... and then upserts: INSERT ... ON CONFLICT DO UPDATE.
UpsertRow(s) ==
  /\ pc[s] = "act" /\ call[s].op = "ingest"
  /\ Key(s) \notin ClaimedByOthers(s) \cup SharedByOthers(s)
  /\ Reads(s, saw[s], "open")

\* Each endpoint is a query of its own.
FindSource(s) ==
  /\ pc[s] = "find" /\ call[s].op \in EdgeOps
  /\ IF Live(Key(s)) THEN Reads(s, [NothingSeen EXCEPT !.id = nodes[Key(s)].id], "find_to")
                     ELSE Miss(s)

FindTarget(s) ==
  /\ pc[s] = "find_to"
  /\ IF Live(call[s].to) THEN Reads(s, [saw[s] EXCEPT !.to = nodes[call[s].to].id], "act")
                         ELSE Miss(s)

EndpointsFree(s) ==
  {k \in Keys : nodes[k].id \in {saw[s].id, saw[s].to}} \cap ClaimedByOthers(s) = {}

\* INSERT INTO edges: both foreign keys must still name a row.
Link(s) ==
  /\ pc[s] = "act" /\ call[s].op \in {"edge.assert", "declare"}
  /\ EndpointsFree(s) /\ ~EdgePending(s)
  /\ IF {saw[s].id, saw[s].to} \subseteq LiveIds THEN Reads(s, saw[s], "open") ELSE Miss(s)

\* DELETE FROM edges ... AND basis = 'asserted': an edge with another basis,
\* or none, is refused.
Unlink(s) ==
  /\ pc[s] = "act" /\ call[s].op = "edge.retract"
  /\ \/ Edge(s, "asserted") \notin edges /\ Fail(s)
     \/ /\ Edge(s, "asserted") \in edges
        /\ EndpointsFree(s) /\ ~EdgePending(s)
        /\ Reads(s, saw[s], "open")

-----------------------------------------------------------------------------
(* What becomes visible when the transaction commits.                      *)

\* Mutant: an entry for every write, changed or not.
LogEveryWrite(s) ==
  [log EXCEPT ![Key(s)] = Append(@, [from |-> saw[s].head, to |-> call[s].payload])]

\* The diff entry: none when the payload is what the transaction read.
LogAfter(s) ==
  LET k == Key(s)
      entry == [from |-> saw[s].head, to |-> call[s].payload]
  IN  IF entry.from = entry.to THEN log ELSE [log EXCEPT ![k] = Append(@, entry)]

\* insert, update and the ingest's upsert: the head and its log entry.
WriteHead(s) ==
  LET k == Key(s)
      row == [id |-> IF Live(k) THEN nodes[k].id ELSE nextId, payload |-> call[s].payload]
  IN  /\ nodes' = [nodes EXCEPT ![k] = row]
      /\ nextId' = IF Live(k) THEN nextId ELSE nextId + 1
      /\ log' = LogAfter(s)
      /\ UNCHANGED edges

\* Mutant: the edges are left behind.
RemoveRowsOnly(s) ==
  LET gone == {k \in Keys : nodes[k].id \in saw[s].family}
  IN  /\ nodes' = [k \in Keys |-> IF k \in gone THEN NoRow ELSE nodes[k]]
      /\ log' = [k \in Keys |-> IF k \in gone THEN << >> ELSE log[k]]
      /\ UNCHANGED <<edges, nextId>>

\* delete and purge: the rows and, by ON DELETE CASCADE, their log and edges.
RemoveFamily(s) ==
  LET gone == {k \in Keys : nodes[k].id \in saw[s].family}
  IN  /\ nodes' = [k \in Keys |-> IF k \in gone THEN NoRow ELSE nodes[k]]
      /\ log' = [k \in Keys |-> IF k \in gone THEN << >> ELSE log[k]]
      /\ edges' = edges \ EdgesOf(saw[s].family)
      /\ UNCHANGED nextId

\* edge.assert and an ingest's declared edge.
AddEdge(s) ==
  /\ edges' = edges \cup {Edge(s, BasisOf(call[s].op))}
  /\ UNCHANGED <<nodes, log, nextId>>

\* Mutant: basis = 'asserted' is forgotten.
RetractEveryBasis(s) ==
  /\ edges' = edges \ {Edge(s, "asserted"), Edge(s, "declared")}
  /\ UNCHANGED <<nodes, log, nextId>>

RetractEdge(s) ==
  /\ edges' = edges \ {Edge(s, "asserted")}
  /\ UNCHANGED <<nodes, log, nextId>>

\* mark_ok is the last statement of a write verb's transaction; an ingest
\* leaves its mark to Finish.  The answer to COMMIT may be lost.
CommitMark(s) ==
  audit' = IF call[s].op \in WriteVerbs THEN Marked(at[s], "ok") ELSE audit

Commit(s) ==
  /\ pc[s] = "open"
  /\ CASE call[s].op \in {"insert", "update", "ingest"} -> WriteHead(s)
       [] call[s].op \in {"delete", "purge"} -> RemoveFamily(s)
       [] call[s].op \in {"edge.assert", "declare"} -> AddEdge(s)
       [] call[s].op = "edge.retract" -> RetractEdge(s)
  /\ CommitMark(s)
  /\ durable' = durable \cup {at[s]}
  /\ \E answer \in IF Faults THEN {"ok", "failed"} ELSE {"ok"} :
       reply' = [reply EXCEPT ![s] = answer]
  /\ saw' = [saw EXCEPT ![s] = NothingSeen]
  /\ Step(s, "finish")
  /\ UNCHANGED <<call, at>>

-----------------------------------------------------------------------------
\* The callers have made their calls.
Rest == Len(audit) = MaxCalls /\ (\A s \in Sessions : pc[s] = "idle") /\ UNCHANGED vars

Statement(s) ==
  \/ InsertRow(s) \/ LockHead(s)
  \/ FindNode(s) \/ Measure(s) \/ Sweep(s)
  \/ ReadHead(s) \/ UpsertRow(s)
  \/ FindSource(s) \/ FindTarget(s) \/ Link(s) \/ Unlink(s)

Next ==
  \/ \E s \in Sessions : Begin(s) \/ Statement(s) \/ Commit(s) \/ Finish(s) \/ Abort(s) \/ Crash(s)
  \/ Rest

Spec == Init /\ [][Next]_vars

-----------------------------------------------------------------------------
Rows == [id : Nat, payload : Payloads \cup {None}]
EdgeRows == [src : Nat, dst : Nat, basis : {"declared", "asserted"}]
Seen == [id : Nat, to : Nat, head : Payloads \cup {None}, family : SUBSET Nat,
         edges : SUBSET EdgeRows, entries : SUBSET (Keys \X Nat)]
Steps == {"idle", "find", "find_to", "measure", "act", "open", "finish"}

\* Types; a row id has been drawn from the sequence, and every running call
\* has its attempt on record (EC-5: a call that cannot be recorded is not made).
TypeOK ==
  /\ nodes \in [Keys -> Rows]
  /\ \A k \in Keys : nodes[k].id < nextId
  /\ log \in [Keys -> Seq(Entries)]
  /\ edges \subseteq EdgeRows
  /\ nextId \in Nat \ {0}
  /\ audit \in Seq([op : Operations, outcome : {None, "ok", "failed"}])
  /\ durable \subseteq 1 .. Len(audit)
  /\ pc \in [Sessions -> Steps]
  /\ call \in [Sessions -> Calls \cup {None}]
  /\ at \in [Sessions -> Nat]
  /\ \A s \in Sessions : at[s] <= Len(audit) /\ (pc[s] # "idle" => at[s] # 0 /\ call[s] \in Calls)
  /\ saw \in [Sessions -> Seen]
  /\ reply \in [Sessions -> {None, "ok", "failed"}]

\* The log of a stored node starts with an insert, each entry starts from the
\* payload the one before it left, and the last one left the head: however
\* the calls interleave, no entry records a transition the history never made
\* (write.rs on FOR UPDATE).
HistoryExplainsHead ==
  \A k \in Keys :
    IF Live(k)
      THEN /\ log[k] # << >> /\ log[k][1].from = None
           /\ \A i \in 1 .. Len(log[k]) - 1 : log[k][i + 1].from = log[k][i].to
           /\ log[k][Len(log[k])].to = nodes[k].payload
      ELSE log[k] = << >>

\* A write verb's attempt is marked ok exactly when its mutation is durable,
\* whatever dies and whatever answer is lost (write.rs, FR5 of spec 014).
OkIffDurable ==
  \A a \in 1 .. Len(audit) :
    audit[a].op \in WriteVerbs => (audit[a].outcome = "ok" <=> a \in durable)

\* No edge outlives an endpoint, although its endpoints are looked up, and a
\* delete measures, before either takes a lock.
EdgesJoinNodes == \A e \in edges : {e.src, e.dst} \subseteq LiveIds

\* What a delete or purge reports as swept is what its cascade removes.
SweptIsRemoved ==
  \A s \in Sessions :
    pc[s] = "open" /\ call[s].op \in {"delete", "purge"} =>
      /\ Cardinality(saw[s].edges) = Cardinality(EdgesOf(saw[s].family))
      /\ Cardinality(saw[s].entries) = Cardinality(EntriesOf(saw[s].family))

\* A declared edge goes only with one of its endpoints: retract never takes
\* what an ingest wrote, even when it races the ingest that writes it between
\* the same nodes (FR7).
IngestEdgesStay ==
  [][\A e \in edges \ edges' : e.basis = "declared" => ~({e.src, e.dst} \subseteq LiveIds')]_vars

\* The payloads a log has the head go through.
Replay(l) == [i \in 1 .. Len(l) |-> l[i].to]
Replayed == [k \in Keys |-> Replay(log[k])]

\* The write verbs, and an ingest that writes alone, implement the history a
\* replay of node_log expects (append_log of write.rs and sink.rs).
History == INSTANCE NodeHistory WITH hist <- Replayed

ImplementsHistory == History!Spec
=============================================================================
