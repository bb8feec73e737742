------------------------------- MODULE Reads -------------------------------
(***************************************************************************)
(* The reads of yeomna-verbs/src/read.rs that take more than one statement,*)
(* or more than one call, while an ingest goes on: a client that pages     *)
(* through list, orient's coverage, and query with hybrid, which reads the *)
(* cohort of the graph's vectors, has the embedder embed the query in that *)
(* cohort (embed.rs), and fuses two rankings in one last statement.        *)
(*                                                                         *)
(* Keys and chunks are numbers, so that they have an order.  A stamp is a  *)
(* node's ingested_at, 0 for a node that is not there.                     *)
(***************************************************************************)
EXTENDS Integers, Sequences, FiniteSets

CONSTANTS
  Keys,        \* the natural keys, and the ids of the chunks
  Place,       \* where each chunk comes by its node's natural key and its own index
  Cohorts,     \* a model, a revision and a task
  Inquiries,   \* the reads: a limit, and for a hybrid query what the store orders by: of each
               \* chunk that matches, how far below the best score; of each chunk, its distance
  MaxPage,     \* MAX_PAGE
  RrfK,        \* RRF_K
  Factor, Floor, Ceil,  \* candidate_depth: times the limit, at least, at most (MAX_CANDIDATES)
  MaxWrites    \* bound: what the ingest does meanwhile

ASSUME ReadsAssumption ==
  /\ Keys \subseteq Nat \ {0} /\ IsFiniteSet(Keys) /\ MaxPage \in Nat \ {0} /\ RrfK \in Nat
  /\ Place \in [Keys -> Nat] /\ \A c, d \in Keys : Place[c] = Place[d] => c = d
  /\ Factor \in Nat /\ Floor \in Nat /\ Ceil \in Nat /\ Floor <= Ceil /\ MaxWrites \in Nat
  /\ \A q \in Inquiries :
       /\ q.verb \in {"list", "orient", "hybrid"} /\ q.limit \in Nat
       /\ q.verb = "hybrid" =>
            q.near \in [Keys -> Nat] /\ \E some \in SUBSET Keys : q.matching \in [some -> Nat]

VARIABLES
  stamp,    \* what list reads: each node's ingested_at
  vectors,  \* what the vector half reads: each chunk's cohort, "none" without one
  inquiry,  \* the read
  told,     \* what it has been told so far, see Untold
  seen,     \* the nodes a paging client has seen
  where,    \* the next statement
  raced,    \* what the ingest wrote since the read began, or since it chose its cohort
  writes    \* writes left
readVars == <<stamp, vectors, inquiry, told, seen, where, raced, writes>>

Fewer(a, b) == IF a < b THEN a ELSE b
Present == {k \in Keys : stamp[k] > 0}
Embedded == {c \in Keys : vectors[c] # "none"}
CohortsIn == {vectors[c] : c \in Embedded}
Newest == CHOOSE t \in {stamp[k] : k \in Keys} : \A k \in Keys : stamp[k] <= t

Untold == [cohort |-> "none", embedded |-> 0, total |-> 0, offset |-> 0, hits |-> <<>>]

ReadsInit ==
  /\ \E early \in SUBSET Keys : stamp = [k \in Keys |-> IF k \in early THEN 1 ELSE 2]
  /\ vectors \in [Keys -> Cohorts \cup {"none"}]
  /\ inquiry \in Inquiries
  /\ inquiry.verb = "list" => \A k \in Keys : vectors[k] = "none"
  /\ inquiry.verb # "list" => \A k \in Keys : stamp[k] = 1
  /\ told = Untold /\ seen = {} /\ raced = {} /\ writes = MaxWrites
  /\ where = (IF inquiry.verb = "list" THEN "page" ELSE "coverage")

\* An ingest that changes a node moves its ingested_at; a purge takes it away.
WriteNode ==
  /\ inquiry.verb = "list" /\ where = "page" /\ writes > 0
  /\ \E k \in Keys, t \in {0, Newest, Newest + 1} :
       /\ t # stamp[k]
       /\ stamp' = [stamp EXCEPT ![k] = t]
       /\ raced' = raced \cup {k} \cup (IF t = 0 THEN {0} ELSE {})
  /\ writes' = writes - 1
  /\ UNCHANGED <<vectors, inquiry, told, seen, where>>

\* An ingest lands a chunk's vector, in its own cohort, or removes it first.
WriteVector ==
  /\ inquiry.verb # "list" /\ where \in {"cohort", "embed", "fuse"} /\ writes > 0
  /\ \E c \in Keys, v \in Cohorts \cup {"none"} :
       /\ v # vectors[c]
       /\ vectors' = [vectors EXCEPT ![c] = v]
       /\ raced' = raced \cup {c}
  /\ writes' = writes - 1
  /\ UNCHANGED <<stamp, inquiry, told, seen, where>>

-----------------------------------------------------------------------------
(* list, paged by a client that goes on until it sees a short page         *)

\* The limit applied, which is the limit the answer reports.
Applied(limit) == Fewer(limit, MaxPage)

\* ingested_at from the newest, then the key.
Before(a, b) == stamp[a] > stamp[b] \/ (stamp[a] = stamp[b] /\ a < b)
Position(k) == Cardinality({p \in Present : Before(p, k)})
Page(offset, limit) == {k \in Present : offset <= Position(k) /\ Position(k) < offset + limit}

List ==
  /\ inquiry.verb = "list" /\ where = "page"
  /\ LET limit == Applied(inquiry.limit)
         page == Page(told.offset, limit)
     IN /\ seen' = seen \cup page
        /\ told' = [told EXCEPT !.offset = told.offset + limit]
        /\ where' = IF Cardinality(page) < limit THEN "done" ELSE "page"
  /\ UNCHANGED <<stamp, vectors, inquiry, raced, writes>>

-----------------------------------------------------------------------------
(* orient and query                                                        *)

\* How many chunks have a vector: one statement.
Coverage ==
  /\ where = "coverage"
  /\ told' = [told EXCEPT !.embedded = Cardinality(Embedded)]
  /\ where' = "cohort"
  /\ UNCHANGED <<stamp, vectors, inquiry, seen, raced, writes>>

\* orient's next statement counts the vectors of each cohort.
OrientCohorts ==
  /\ inquiry.verb = "orient" /\ where = "cohort"
  /\ told' = [told EXCEPT !.total = Cardinality(Embedded)]
  /\ where' = "done"
  /\ UNCHANGED <<stamp, vectors, inquiry, seen, raced, writes>>

\* Mutant: any one of the cohorts will do (the statement's first row).
CohortOfTheFirstRow ==
  /\ inquiry.verb = "hybrid" /\ where = "cohort"
  /\ IF CohortsIn # {}
     THEN \E v \in CohortsIn : told' = [told EXCEPT !.cohort = v] /\ where' = "embed" /\ raced' = {}
     ELSE where' = "refused" /\ UNCHANGED <<told, raced>>
  /\ UNCHANGED <<stamp, vectors, inquiry, seen, writes>>

\* corpus_cohort refuses a graph with no vectors, and one with two cohorts.
CorpusCohort ==
  /\ inquiry.verb = "hybrid" /\ where = "cohort"
  /\ IF Cardinality(CohortsIn) = 1
     THEN \E v \in CohortsIn : told' = [told EXCEPT !.cohort = v] /\ where' = "embed" /\ raced' = {}
     ELSE where' = "refused" /\ UNCHANGED <<told, raced>>
  /\ UNCHANGED <<stamp, vectors, inquiry, seen, writes>>

\* The embedder answers in that cohort, or the query is refused.
QueryVector ==
  /\ inquiry.verb = "hybrid" /\ where = "embed"
  /\ where' \in {"fuse", "refused"}
  /\ UNCHANGED <<stamp, vectors, inquiry, told, seen, raced, writes>>

\* candidate_depth: how many each source contributes.
CandidateDepth(limit) ==
  LET wide == limit * Factor IN IF wide < Floor THEN Floor ELSE Fewer(wide, Ceil)

\* row_number over what a source orders, the least first, then the id; cut at the
\* depth, and 0 for a chunk that is not in it.
Nearer(chunks, by, c) == {d \in chunks : by[d] < by[c] \/ (by[d] = by[c] /\ d < c)}
RowNumbers(chunks, by, depth) ==
  [c \in Keys |-> IF c \in chunks /\ Cardinality(Nearer(chunks, by, c)) < depth
                  THEN Cardinality(Nearer(chunks, by, c)) + 1 ELSE 0]
TextRanks(depth) == RowNumbers(DOMAIN inquiry.matching, inquiry.matching, depth)
VectorRanks(depth) == RowNumbers(Embedded, inquiry.near, depth)

\* 1 / (k + rank) over both sources, an absent rank adding nothing.
Score(text, vector) ==
  LET a == RrfK + text
      b == RrfK + vector
  IN IF text = 0 THEN [num |-> 1, den |-> b]
     ELSE IF vector = 0 THEN [num |-> 1, den |-> a]
     ELSE [num |-> a + b, den |-> a * b]
Higher(s, t) == s.num * t.den > t.num * s.den

\* The full outer join, and what comes before a chunk among some: the best scores,
\* then the first by their ids or by their places.
Joined(text, vector) == {c \in Keys : text[c] + vector[c] > 0}
Above(text, vector, chunks, by, c) ==
  LET Of(d) == Score(text[d], vector[d])
  IN {d \in chunks : Higher(Of(d), Of(c)) \/ (~Higher(Of(c), Of(d)) /\ by[d] < by[c])}
Id == [c \in Keys |-> c]

\* The page is taken by score and id, and answered by score and place.
Top(text, vector, limit) ==
  {c \in Joined(text, vector) : Cardinality(Above(text, vector, Joined(text, vector), Id, c)) < limit}
Fusion(text, vector, limit) ==
  LET page == Top(text, vector, limit)
  IN [i \in 1 .. Cardinality(page) |->
        LET c == CHOOSE d \in page : Cardinality(Above(text, vector, page, Place, d)) = i - 1
        IN [chunk |-> c, text |-> text[c], vector |-> vector[c]]]

\* One statement over both sources; the ranking is exact, no index is used.
Hybrid ==
  /\ inquiry.verb = "hybrid" /\ where = "fuse"
  /\ LET limit == Applied(inquiry.limit)
         depth == CandidateDepth(limit)
     IN told' = [told EXCEPT !.hits = Fusion(TextRanks(depth), VectorRanks(depth), limit)]
  /\ where' = "done"
  /\ UNCHANGED <<stamp, vectors, inquiry, seen, raced, writes>>

ReadsNext ==
  \/ WriteNode \/ WriteVector
  \/ List
  \/ Coverage \/ OrientCohorts \/ CorpusCohort \/ QueryVector \/ Hybrid

ReadsSpec == ReadsInit /\ [][ReadsNext]_readVars

-----------------------------------------------------------------------------
(* Properties                                                              *)

(***************************************************************************)
(* A client that pages until a short page has seen every node that was     *)
(* there all the time and did not change, however many others changed in   *)
(* between, as long as nothing was purged (0 in raced): the order is from  *)
(* the newest, so what changes goes where the client has been.  The limit  *)
(* the answer reports is the one applied, or the client stops too early    *)
(* (read.rs:401-404).                                                      *)
(***************************************************************************)
PagesMissNothing ==
  inquiry.verb = "list" /\ where = "done" /\ 0 \notin raced /\ inquiry.limit > 0 =>
    Present \ raced \subseteq seen

\* No ingest wrote while the read went on.
Undisturbed == writes = MaxWrites

(***************************************************************************)
(* The vectors a hybrid answer ranked are of the one cohort it names when  *)
(* no ingest wrote a vector after the cohort was read (raced), and the     *)
(* coverage it reports counts them when none wrote after the coverage was: *)
(* three statements, and nothing in the code holds them together.          *)
(* Whatever an ingest does, the page is full, and is the top of the fusion *)
(* of the whole rankings when neither is deeper than the candidates; no    *)
(* chunk left out is before a hit in both sources; and a hit without a     *)
(* vector rank has no vector or ranks below the depth.                     *)
(***************************************************************************)
HybridIsOneCohort ==
  inquiry.verb = "hybrid" /\ where = "done" =>
    LET limit == Applied(inquiry.limit)
        depth == CandidateDepth(limit)
        text == TextRanks(Cardinality(Keys))      \* the ranks in the whole of a source
        vector == VectorRanks(Cardinality(Keys))
        hits == told.hits
    IN /\ Undisturbed => told.embedded = Cardinality(Embedded)
       /\ raced = {} => \A i \in DOMAIN hits : hits[i].vector > 0 => vectors[hits[i].chunk] = told.cohort
       /\ (\A c \in Keys : text[c] <= depth /\ vector[c] <= depth) => hits = Fusion(text, vector, limit)
       /\ \A i \in DOMAIN hits : hits[i].vector = 0 =>
            vectors[hits[i].chunk] = "none" \/ vector[hits[i].chunk] > depth
       /\ \A c \in Keys :
            /\ text[c] \in 1 .. depth \/ vector[c] \in 1 .. depth
            /\ \A i \in DOMAIN hits : hits[i].chunk # c
            => /\ Len(hits) = limit
               /\ \A i \in DOMAIN hits :
                    \/ hits[i].text > 0 /\ (text[c] = 0 \/ hits[i].text < text[c] \/ text[c] > depth)
                    \/ hits[i].vector > 0 /\ (vector[c] = 0 \/ hits[i].vector < vector[c] \/ vector[c] > depth)

(***************************************************************************)
(* orient counts the vectors twice, in two statements: the sum over its    *)
(* cohorts is its own total unless an ingest wrote in between.             *)
(***************************************************************************)
OrientAddsUp ==
  inquiry.verb = "orient" /\ where = "done" /\ raced = {} => told.total = told.embedded
=============================================================================
