----------------------------- MODULE GraphWalk -----------------------------
(***************************************************************************)
(* graph.traverse, graph.shortest-path and graph.neighbors                 *)
(* (yeomna-verbs/src/graph.rs).  A verb resolves names to ids one statement*)
(* at a time, while another session may purge what they name; its walk is  *)
(* one statement on one snapshot, which the store runs row by row, a level *)
(* after the other, in any order within a level, until the row cap.        *)
(*                                                                         *)
(* An edge's label stands for its relation and its basis, which the verbs  *)
(* filter in the same way: no label asked for means every label.           *)
(***************************************************************************)
EXTENDS Naturals, Sequences, FiniteSets

CONSTANTS
  Nodes,      \* the nodes a store may hold
  Graphs,     \* the sets of edges a run starts from
  Labels,     \* what the schema admits as a relation or a basis
  Questions,  \* the requests, see Question
  MaxDepth,   \* MAX_DEPTH, the bound on a traversal
  PathDepth   \* PATH_DEPTH, the bound on the enumerating walk

Edge == [src : Nodes, dst : Nodes, label : Labels]
Verbs == {"traverse", "shortest-path", "neighbors"}
Directions == {"out", "in", "both"}

ASSUME GraphWalkAssumption ==
  /\ Graphs \subseteq SUBSET Edge /\ \A es \in Graphs : IsFiniteSet(es)
  /\ MaxDepth \in Nat /\ PathDepth \in Nat
  /\ \A q \in Questions :
       /\ q.verb \in Verbs /\ q.from \in Nodes /\ q.to \in Nodes
       /\ q.depth \in Nat /\ q.limit \in Nat /\ q.direction \in Directions

VARIABLES
  graph,   \* what the store holds: nodes and edges
  ask,     \* the request
  rows,    \* the rows of the walk so far: node, depth, and the edges that led there
  level,   \* the depth whose rows are being followed
  reply,   \* the answer, NoReply before it
  at       \* where the verb is
walkVars == <<graph, ask, rows, level, reply, at>>

NoReply == [nodes |-> {}, path |-> <<>>, found |-> FALSE, truncated |-> FALSE]

Follows(e) == ask.labels = {} \/ e.label \in ask.labels
\* At least one row is returned, whatever the limit.
Cap == IF ask.limit = 0 THEN 1 ELSE ask.limit
Bound == IF ask.verb = "traverse"
         THEN IF ask.depth < MaxDepth THEN ask.depth ELSE MaxDepth
         ELSE PathDepth

WalkInit ==
  /\ \E es \in Graphs : graph = [nodes |-> Nodes, edges |-> es]
  /\ ask \in Questions
  /\ rows = {} /\ level = 0 /\ reply = NoReply /\ at = "check"

\* check_relations and basis_clause: nothing outside the schema's closed set.
Check ==
  /\ at = "check"
  /\ at' = IF ask.labels \subseteq Labels THEN "from" ELSE "refused"
  /\ UNCHANGED <<graph, ask, rows, level, reply>>

\* node_id of the start, and of a path's end in a statement of its own.
Resolve ==
  /\ at \in {"from", "to"}
  /\ at' = IF (IF at = "from" THEN ask.from ELSE ask.to) \notin graph.nodes THEN "missing"
           ELSE IF at = "from" /\ ask.verb = "shortest-path" THEN "to"
           ELSE "ask"
  /\ UNCHANGED <<graph, ask, rows, level, reply>>

\* node.purge or graph.drop of another session: the edges go by cascade.
Purge ==
  /\ at \in {"check", "from", "to", "ask"} /\ graph.nodes = Nodes
  /\ \E gone \in {Nodes} \cup {{n} : n \in Nodes} :
       graph' = [nodes |-> graph.nodes \ gone,
                 edges |-> {e \in graph.edges : e.src \notin gone /\ e.dst \notin gone}]
  /\ UNCHANGED <<ask, rows, level, reply, at>>

-----------------------------------------------------------------------------
(* The walk                                                                *)

Row(n, d, p) == [node |-> n, depth |-> d, path |-> p]

\* The statement begins: its snapshot, and the row of the start.
Begin ==
  /\ at = "ask" /\ ask.verb \in {"traverse", "shortest-path"}
  /\ rows' = {Row(ask.from, 0, <<>>)}
  /\ at' = "walk"
  /\ UNCHANGED <<graph, ask, level, reply>>

\* UNION of (node, depth): a node is followed once at each depth it is met.
\* The other walk keeps every path, stops at its target and never turns back.
Visited(r) == {ask.from} \cup {r.path[i].dst : i \in DOMAIN r.path}
MayFollow(r, e) ==
  /\ e.src = r.node /\ r.depth = level /\ r.depth < Bound /\ Follows(e)
  /\ ask.verb = "shortest-path" => r.node # ask.to /\ e.dst \notin Visited(r)
Follow(r, e) == Row(e.dst, r.depth + 1, IF ask.verb = "traverse" THEN <<>> ELSE Append(r.path, e))
NextRows == (UNION {{Follow(r, e) : e \in {f \in graph.edges : MayFollow(r, f)}} : r \in rows}) \ rows

Capped == Cardinality(rows) >= Cap
Deeper == \E r \in rows : r.depth = level + 1

Emit ==
  /\ at = "walk" /\ ~Capped
  /\ \E r \in NextRows : rows' = rows \cup {r}
  /\ UNCHANGED <<graph, ask, level, reply, at>>

Deepen ==
  /\ at = "walk" /\ ~Capped /\ NextRows = {} /\ Deeper
  /\ level' = level + 1
  /\ UNCHANGED <<graph, ask, rows, reply, at>>

Ends == at = "walk" /\ (Capped \/ (NextRows = {} /\ ~Deeper))

\* Each node once, at its least depth; a row whose node is gone joins nothing,
\* and the count of rows comes with the first node returned.
AnswerTraverse ==
  /\ Ends /\ ask.verb = "traverse"
  /\ LET kept == {r \in rows : r.node \in graph.nodes}
         nearest == {r \in kept : \A s \in kept : s.node = r.node => r.depth <= s.depth}
     IN reply' = [NoReply EXCEPT !.nodes = {[key |-> r.node, depth |-> r.depth] : r \in nearest},
                                 !.truncated = kept # {} /\ Capped]
  /\ at' = "done"
  /\ UNCHANGED <<graph, ask, rows, level>>

\* The shallowest row that ends at the target; the keys come from the nodes.
AnswerPath ==
  /\ Ends /\ ask.verb = "shortest-path"
  /\ LET ending == {r \in rows : r.node = ask.to /\ r.node \in graph.nodes}
         best == {r \in ending : \A s \in ending : r.depth <= s.depth}
     IN IF best = {}
        THEN reply' = [NoReply EXCEPT !.truncated = Capped]
        ELSE \E r \in best :
               reply' = [NoReply EXCEPT !.found = TRUE, !.path = r.path, !.truncated = Capped]
  /\ at' = "done"
  /\ UNCHANGED <<graph, ask, rows, level>>

\* One hop either way; a loop is a hop out and a hop in.
Hops ==
  {[key |-> e.dst, label |-> e.label, direction |-> "out"] :
     e \in {f \in graph.edges : ask.direction # "in" /\ f.src = ask.from /\ Follows(f)}}
  \cup
  {[key |-> e.src, label |-> e.label, direction |-> "in"] :
     e \in {f \in graph.edges : ask.direction # "out" /\ f.dst = ask.from /\ Follows(f)}}

\* The first of them, in an order that ties leave open.
Neighbors ==
  /\ at = "ask" /\ ask.verb = "neighbors"
  /\ \E page \in SUBSET Hops :
       /\ Cardinality(page) = (IF Cardinality(Hops) < Cap THEN Cardinality(Hops) ELSE Cap)
       /\ reply' = [NoReply EXCEPT !.nodes = page]
  /\ at' = "done"
  /\ UNCHANGED <<graph, ask, rows, level>>

WalkNext ==
  \/ Check \/ Resolve \/ Purge
  \/ Begin \/ Emit \/ Deepen \/ AnswerTraverse \/ AnswerPath
  \/ Neighbors

WalkSpec == WalkInit /\ [][WalkNext]_walkVars

-----------------------------------------------------------------------------
(* Properties                                                              *)

\* The nodes at most k steps from the start.
Reached(nodes) == nodes \cup {e.dst : e \in {f \in graph.edges : f.src \in nodes /\ Follows(f)}}
Within[k \in Nat] == IF k = 0 THEN {ask.from} ELSE Reached(Within[k - 1])
IsDistance(n, d) == n \in Within[d] /\ (d = 0 \/ n \notin Within[d - 1])

(***************************************************************************)
(* The paths the enumerating walk holds are paths of the graph: edges that *)
(* follow one another from the start to the row's node, none visited twice.*)
(***************************************************************************)
RowsArePaths ==
  ask.verb = "shortest-path" =>
    \A r \in rows :
      /\ Len(r.path) = r.depth /\ r.depth <= Bound
      /\ r.node = (IF r.path = <<>> THEN ask.from ELSE r.path[Len(r.path)].dst)
      /\ \A i \in DOMAIN r.path :
           /\ r.path[i] \in graph.edges /\ Follows(r.path[i])
           /\ r.path[i].src = (IF i = 1 THEN ask.from ELSE r.path[i - 1].dst)
           /\ r.path[i].dst # ask.from /\ \A j \in DOMAIN r.path : r.path[j].dst = r.path[i].dst => j = i

(***************************************************************************)
(* A capped walk is honest.  Each node of a traversal is at its true least *)
(* depth even when rows are missing; none nearer than the deepest answered *)
(* is left out; and an answer not called truncated holds every node within *)
(* the depth.  A path that is found is a shortest one, capped or not, and  *)
(* a search that found none and was not cut short means there is none      *)
(* within PathDepth (graph.rs:201-203, 235-240).                           *)
(***************************************************************************)
WalksAreHonest ==
  /\ RowsArePaths
  /\ at = "done" /\ ask.verb = "traverse" /\ ask.from \in graph.nodes =>
       /\ \A n \in reply.nodes : IsDistance(n.key, n.depth) /\ n.depth <= Bound
       /\ \A n \in reply.nodes : \A d \in 1 .. n.depth :
            \A near \in Within[d - 1] : \E m \in reply.nodes : m.key = near
       /\ ~reply.truncated => {n.key : n \in reply.nodes} = Within[Bound]
  /\ at = "done" /\ ask.verb = "shortest-path" =>
       IF reply.found
       THEN IsDistance(ask.to, Len(reply.path))
       ELSE reply.truncated \/ ask.to \notin Within[Bound] \/ ask.from \notin graph.nodes
  /\ at = "done" /\ ask.verb = "neighbors" =>
       /\ reply.nodes \subseteq Hops
       /\ Cardinality(reply.nodes) < Cap => reply.nodes = Hops
=============================================================================
