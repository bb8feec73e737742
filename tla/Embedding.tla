----------------------------- MODULE Embedding -----------------------------
(***************************************************************************)
(* The embedder (services/embedder/server.py), which serves one connection *)
(* at a time and is restarted with other weights, and its callers          *)
(* (yeomna-embed/src/embedding.rs and the verbs of embed.rs and ingest.rs  *)
(* that use it): connect, the checks of the verb, and embed with its       *)
(* batches, its halving and its cohort check.  A cohort is a model, a      *)
(* revision and a width; a vector is the cohort it came from and the text  *)
(* it stands for.  An ingest embeds its files one text a call, through one *)
(* client: per = 1.  The client also takes several texts, and then sends   *)
(* per of them at a time.                                                  *)
(***************************************************************************)
EXTENDS Naturals, Sequences, FiniteSets

CONSTANTS
  Callers,    \* the calls in flight, each of a session of its own
  Asking,     \* what they are: functions from Callers to Verbs
  Texts,      \* how many texts an ingest embeds in one call
  Cohorts,    \* what the service may be started with
  Narrow,     \* the cohorts of another width than the store's column
  MaxStarts   \* bound: starts of the service

Verbs == {"query", "text", "ingest"}

ASSUME EmbeddingAssumption ==
  /\ Asking \subseteq [Callers -> Verbs]
  /\ Texts \in Nat \ {0} /\ MaxStarts \in Nat /\ Narrow \subseteq Cohorts

VARIABLES
  service,  \* the process: what it serves, how far its weights are, starts left
  serving,  \* the connection the worker holds, Free when it has none
  waiting,  \* the connections behind it, in order
  caller    \* each caller, see NewCaller

embVars == <<service, serving, waiting, caller>>

Silent == [of |-> "silent", what |-> "silent", from |-> 0, len |-> 0]
Free == [of |-> "none", what |-> "none", from |-> 0, len |-> 0]

\* corpus: the cohort the graph was embedded by.  done: the vectors so far.
NewCaller(verb, corpus, per) ==
  [verb |-> verb, corpus |-> corpus, pc |-> "connect", info |-> "none", warm |-> FALSE,
   work |-> <<>>, per |-> per, done |-> <<>>, answer |-> "none", part |-> "none"]

Queued == {waiting[i] : i \in DOMAIN waiting}
Indices == 0 .. Texts - 1
Batch == [from : Indices, len : 1 .. Texts]
Answers == {"none", "info", "vectors", "out-of-memory", "refused", "unreachable"}

EmbTypeOK ==
  /\ service \in [up : BOOLEAN, cohort : Cohorts, weights : {"loading", "ready", "failed"}, starts : 0 .. MaxStarts]
  /\ \A c \in {serving} \cup Queued :
       \/ c \in {Free, Silent}
       \/ c.of \in Callers /\ c.what = "info"
       \/ c.of \in Callers /\ c.what = "embed" /\ [from |-> c.from, len |-> c.len] \in Batch
  /\ \A c \in Callers :
       /\ caller[c].verb \in Verbs /\ caller[c].corpus \in Cohorts /\ caller[c].per \in 1 .. Texts
       /\ caller[c].pc \in {"connect", "info", "embed", "reply", "ok", "err"}
       /\ caller[c].info \in Cohorts \cup {"none"} /\ caller[c].answer \in Answers
       /\ caller[c].warm \in BOOLEAN /\ caller[c].part \in Cohorts \cup {"none"}
       /\ caller[c].work \in Seq(Batch)
       /\ DOMAIN caller[c].done \subseteq Indices

-----------------------------------------------------------------------------
(* The callers                                                             *)

Becomes(c, r) == caller' = [caller EXCEPT ![c] = r]
\* The error is all that is left of a call that fails.
Failed(r) == [NewCaller(r.verb, r.corpus, r.per) EXCEPT !.pc = "err"]
Count(c) == IF caller[c].verb = "ingest" THEN Texts ELSE 1

\* The batches of a call: per_request texts each, the last what is left.
BatchesOf(n, per) ==
  [i \in 1 .. (n + per - 1) \div per |->
     [from |-> (i - 1) * per, len |-> IF i * per <= n THEN per ELSE n - (i - 1) * per]]

\* One connection for one request; a socket nobody listens on refuses it.
Asks(c, what, batch) ==
  IF service.up
  THEN /\ waiting' = Append(waiting, [of |-> c, what |-> what, from |-> batch.from, len |-> batch.len])
       /\ Becomes(c, [caller[c] EXCEPT !.pc = IF what = "info" THEN "info" ELSE "reply", !.answer = "none"])
  ELSE /\ Becomes(c, Failed(caller[c]))
       /\ UNCHANGED waiting

Connect(c) ==
  /\ caller[c].pc = "connect"
  /\ Asks(c, "info", [from |-> 0, len |-> 0])
  /\ UNCHANGED <<service, serving>>

(***************************************************************************)
(* /v1/info came back.  A width the column has no room for is refused by   *)
(* every caller, weights still loading by an ingest and a hybrid query,    *)
(* and another cohort than the corpus by the query.                        *)
(***************************************************************************)
Admits(r) ==
  /\ r.info \notin Narrow
  /\ r.verb \in {"query", "ingest"} => r.warm
  /\ r.verb = "query" => r.info = r.corpus

Connected(c) ==
  /\ caller[c].pc = "info" /\ caller[c].answer # "none"
  /\ LET r == caller[c] IN
     Becomes(c, IF r.answer = "info" /\ Admits(r)
                THEN [r EXCEPT !.pc = "embed", !.answer = "none", !.work = BatchesOf(Count(c), r.per)]
                ELSE Failed(r))
  /\ UNCHANGED <<service, serving, waiting>>

EmbedBatch(c) ==
  /\ caller[c].pc = "embed" /\ caller[c].work # <<>>
  /\ Asks(c, "embed", Head(caller[c].work))
  /\ UNCHANGED <<service, serving>>

\* Mutant: a part is compared with the part before it.
AgreesWithLast(c) ==
  LET r == caller[c] IN
  r.done = <<>> \/ \E i \in DOMAIN r.done : r.done[i].cohort = r.part

\* The part is of the cohort the service named when the caller connected.
Agrees(c) == caller[c].part = caller[c].info

\* Mutant: a batch of one is halved too, into nothing and itself.
HalvesAny(b) == b.len > 0

\* Out of memory: a batch of several is halved, one text is given up.
CanHalve(b) == b.len > 1

Halves(b) ==
  LET mid == b.len \div 2
  IN <<[from |-> b.from, len |-> mid], [from |-> b.from + mid, len |-> b.len - mid]>>

\* What the service says of each text it was given, at the caller's index.
Rebased(c) ==
  LET b == Head(caller[c].work)
      sent == b.from .. b.from + b.len - 1
  IN [i \in DOMAIN caller[c].done \cup sent |->
        IF i \in sent THEN [cohort |-> caller[c].part, text |-> i] ELSE caller[c].done[i]]

Answered(c) ==
  /\ caller[c].pc = "reply" /\ caller[c].answer # "none"
  /\ LET r == caller[c]
         b == Head(r.work)
     IN Becomes(c,
          CASE r.answer = "vectors" /\ Agrees(c) ->
                 [r EXCEPT !.pc = "embed", !.answer = "none", !.work = Tail(@), !.done = Rebased(c)]
            [] r.answer = "out-of-memory" /\ CanHalve(b) ->
                 [r EXCEPT !.pc = "embed", !.answer = "none", !.work = Halves(b) \o Tail(@)]
            [] OTHER -> Failed(r))
  /\ UNCHANGED <<service, serving, waiting>>

\* Every batch is in: each text once, by its index.
Returns(c) ==
  /\ caller[c].pc = "embed" /\ caller[c].work = <<>>
  /\ Becomes(c, IF DOMAIN caller[c].done = 0 .. Count(c) - 1 THEN [caller[c] EXCEPT !.pc = "ok"]
                ELSE Failed(caller[c]))
  /\ UNCHANGED <<service, serving, waiting>>

\* The deadline of one request; the connection stays where it was.
TimesOut(c) ==
  /\ caller[c].pc \in {"info", "reply"} /\ caller[c].answer = "none"
  /\ Becomes(c, Failed(caller[c]))
  /\ UNCHANGED <<service, serving, waiting>>

-----------------------------------------------------------------------------
(* The service                                                             *)

Awaits(c) == caller[c].pc \in {"info", "reply"} /\ caller[c].answer = "none"
Replies(conn, answer) ==
  IF conn.of \in Callers /\ Awaits(conn.of)
  THEN Becomes(conn.of, [caller[conn.of] EXCEPT
         !.answer = answer, !.part = IF answer = "vectors" THEN service.cohort ELSE @,
         !.info = IF answer = "info" THEN service.cohort ELSE @,
         !.warm = IF answer = "info" THEN service.weights = "ready" ELSE @])
  ELSE UNCHANGED caller

Accept ==
  /\ service.up /\ serving = Free /\ waiting # <<>>
  /\ serving' = Head(waiting) /\ waiting' = Tail(waiting)
  /\ UNCHANGED <<service, caller>>

\* Mutant: without the read timeout a silent peer is waited for.
ServesThoseThatSpeak ==
  /\ service.up /\ serving \notin {Free, Silent}
  /\ \/ serving.what = "info" /\ Replies(serving, "info")
     \/ /\ serving.what = "embed"
        /\ \E answer \in IF service.weights = "ready" THEN {"vectors", "out-of-memory", "refused"} ELSE {"refused"} :
             Replies(serving, answer)
  /\ serving' = Free
  /\ UNCHANGED <<service, waiting>>

\* One request, one answer, the connection closed; nobody need be there to
\* hear it.  A peer that sends nothing is dropped after ten seconds.
Serve ==
  /\ service.up /\ serving # Free
  /\ \/ serving = Silent /\ UNCHANGED caller
     \/ serving.what = "info" /\ Replies(serving, "info")
     \/ /\ serving.what = "embed"
        /\ \E answer \in IF service.weights = "ready" THEN {"vectors", "out-of-memory", "refused"} ELSE {"refused"} :
             Replies(serving, answer)
  /\ serving' = Free
  /\ UNCHANGED <<service, waiting>>

\* A peer that connects and says nothing.
Idles ==
  /\ service.up /\ Silent \notin Queued /\ serving # Silent
  /\ waiting' = Append(waiting, Silent)
  /\ UNCHANGED <<service, serving, caller>>

Load ==
  /\ service.up /\ service.weights = "loading"
  /\ \E w \in {"ready", "failed"} : service' = [service EXCEPT !.weights = w]
  /\ UNCHANGED <<serving, waiting, caller>>

\* Every connection goes with the process.
Stops ==
  /\ service.up
  /\ service' = [service EXCEPT !.up = FALSE, !.weights = "loading"]
  /\ serving' = Free /\ waiting' = <<>>
  /\ caller' = [c \in Callers |-> IF Awaits(c) THEN [caller[c] EXCEPT !.answer = "unreachable"] ELSE caller[c]]

Starts ==
  /\ ~service.up /\ service.starts > 0
  /\ \E co \in Cohorts :
       service' = [up |-> TRUE, cohort |-> co, weights |-> "loading", starts |-> service.starts - 1]
  /\ UNCHANGED <<serving, waiting, caller>>

EmbInit ==
  /\ \E co \in Cohorts \ Narrow, verb \in Asking, per \in 1 .. Texts :
       /\ service = [up |-> FALSE, cohort |-> co, weights |-> "loading", starts |-> MaxStarts]
       /\ caller = [c \in Callers |-> NewCaller(verb[c], co, IF verb[c] = "ingest" THEN per ELSE 1)]
  /\ serving = Free /\ waiting = <<>>

Caller(c) ==
  \/ Connect(c) \/ Connected(c) \/ EmbedBatch(c) \/ Answered(c) \/ Returns(c) \/ TimesOut(c)
EmbNext ==
  \/ \E c \in Callers : Caller(c)
  \/ Accept \/ Serve \/ Idles \/ Load \/ Stops \/ Starts

\* The runtime polls every call; the worker serves what it holds, and takes
\* the next, for a peer sends its request whole or not at all: the timeout is
\* one of each receive, and bytes that drip would renew it.  Nobody owes a
\* start, a stop or the end of a load.
EmbFairness ==
  /\ \A c \in Callers : WF_embVars(Caller(c))
  /\ WF_embVars(Accept) /\ WF_embVars(Serve)

EmbSpec == EmbInit /\ [][EmbNext]_embVars /\ EmbFairness
-----------------------------------------------------------------------------
(***************************************************************************)
(* A call that returns vectors returns one for each text, of that text,    *)
(* all of the cohort the service named when the call connected, whatever   *)
(* was halved, and whatever the service became between two batches; those  *)
(* of a hybrid query are of the corpus they are compared with, and none is *)
(* too wide for the column.                                                *)
(***************************************************************************)
VectorsAreOneCohort ==
  \A c \in Callers : caller[c].pc = "ok" =>
    LET r == caller[c] IN
    /\ DOMAIN r.done = 0 .. Count(c) - 1
    /\ \A i \in DOMAIN r.done : r.done[i] = [cohort |-> r.info, text |-> i]
    /\ r.info \notin Narrow
    /\ r.verb = "query" => r.info = r.corpus

(***************************************************************************)
(* No connection keeps the one worker while others wait: it comes free     *)
(* again and again, and takes the first of them.                           *)
(***************************************************************************)
WaitingIsServed == []<>(serving = Free \/ waiting = <<>>)
=============================================================================
