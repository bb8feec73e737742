----------------------------- MODULE LspSession -----------------------------
(***************************************************************************)
(* One language-server session: the extraction that asks                   *)
(* (lsp/session.rs, and the order of extract_module and extract_crate),    *)
(* the transport under it (lsp/client.rs: the pending map, the reader      *)
(* task, two pipes), and the server, which answers in any order, asks      *)
(* back, and may die.                                                      *)
(*                                                                         *)
(* The extraction is one task, so at most one request is awaited; what it  *)
(* gave up on may still be answered.                                       *)
(***************************************************************************)
EXTENDS Naturals, Sequences, FiniteSets

CONSTANTS
  Docs,     \* the files of the unit, in order
  Symbols,  \* bound: symbols of a file, children among them, the server lists
            \* and the walk asks about
  Probes,   \* bound: probes a readiness loop fits in its timeout
  Tries,    \* hover attempts
  Pipe,     \* bound: messages a pipe holds
  Backlog,  \* bound: requests the server holds that it may still answer
  Preloads  \* gopls: every file is opened before the first is asked about

\* A unit is the files found under one root, so it has one (group_files).
ASSUME LspAssumption ==
  /\ Len(Docs) \in Nat \ {0}
  /\ Symbols \in Nat \ {0}
  /\ Probes \in Nat \ {0} /\ Tries \in Nat \ {0} /\ Pipe \in Nat \ {0} /\ Backlog \in Nat \ {0}
  /\ Preloads \subseteq BOOLEAN

\* What a walk may ask about one symbol, in this order; only gopls is asked
\* for implementations.
Questions == <<"hover", "prepare", "implement">>

\* A symbol costs its hovers, the two requests of its calls, and one more.
Ids == 1 .. (3 * Probes + 2 + Len(Docs) * (1 + Symbols * (Tries + 3)))
None == 0
Ended == "ended"   \* what the reader tells those it leaves waiting

VARIABLES
  task,      \* the extraction, see Start
  pending,   \* ids the reader would deliver an answer for
  slot,      \* the oneshot of the awaited request: its outcome and, as
             \* history, which request the server answered there
  toServer, fromServer,  \* the pipes
  reader,    \* "reading", "replying" to a request of the server, "ended"
  server     \* the process: up, the requests it works on, how often it may
             \* still ask or notify

lspVars == <<task, pending, slot, toServer, fromServer, reader, server>>

Steps == {"initialize", "initialized", "ready", "settle", "preload", "settled", "symbols",
          "walk", "hover", "prepare", "outgoing", "implement", "end"}
NoSlot == [is |-> "empty", asked |-> None]

Start(preload) ==
  [step |-> "initialize", io |-> "do", doc |-> 1, id |-> None, serial |-> None,
   left |-> Probes, streak |-> 0, tries |-> 0, listed |-> 0, about |-> Len(Questions),
   opened |-> {}, preload |-> preload]

LspTypeOK ==
  /\ task.step \in Steps /\ task.io \in {"do", "tell", "send", "wait"}
  /\ task.doc \in 1 .. Len(Docs) + 1 /\ task.left \in 0 .. Probes /\ task.streak \in 0 .. 1
  /\ task.tries \in 0 .. Tries - 1 /\ task.listed \in 0 .. Symbols /\ task.about \in 1 .. Len(Questions)
  /\ task.opened \subseteq 1 .. Len(Docs)
  /\ task.id \in Ids \cup {None} /\ task.serial \in Ids \cup {None}
  /\ pending \subseteq Ids
  /\ slot \in [is : {"empty", "ok", "null", "error", Ended}, asked : Ids \cup {None}]
  /\ Len(toServer) <= Pipe /\ Len(fromServer) <= Pipe
  /\ reader \in {"reading", "replying", "ended"}

-----------------------------------------------------------------------------
(* The extraction                                                          *)

\* The counters of a loop are its own, and start anew with the next one.
NextDoc(t) ==
  [t EXCEPT !.doc = @ + 1, !.io = "do", !.listed = 0, !.about = Len(Questions), !.tries = 0,
            !.step = IF t.doc = Len(Docs) THEN "end" ELSE "symbols"]
Probe(t, step) == [t EXCEPT !.step = step, !.left = Probes, !.streak = 0]
AllDocs(t) == [Probe(t, "symbols") EXCEPT !.doc = 1]
Preload(t) == IF t.preload THEN [Probe(t, "preload") EXCEPT !.doc = 1] ELSE AllDocs(t)

\* wait_for_workspace_ready: two answers in a row, or the time is up.
Settles(t, r, then, failing) ==
  CASE r = "ok" /\ t.streak = 1 -> then
    [] r # "ok" /\ t.left = 1 -> failing
    [] r = "ok" /\ t.left = 1 -> failing
    [] OTHER -> [t EXCEPT !.left = @ - 1, !.streak = IF r = "ok" THEN 1 ELSE 0]

(***************************************************************************)
(* What the extraction does with the outcome of the request of its step:   *)
(* ok, null or error.  An answer of null is an answer, and an error about  *)
(* one symbol leaves the walk where it is.                                 *)
(***************************************************************************)
Continue(outcome) ==
  LET t == [task EXCEPT !.io = "do", !.id = None]
      r == IF outcome = "null" /\ t.step \in {"ready", "settle", "settled"} THEN "ok" ELSE outcome
  IN CASE t.step = "initialize" -> [t EXCEPT !.step = IF r = "error" THEN "end" ELSE "initialized"]
       [] t.step = "ready" ->
            IF r = "ok" \/ t.left = 1 THEN Probe(t, "settle") ELSE [t EXCEPT !.left = @ - 1]
       [] t.step = "settle" -> Settles(t, r, Preload(t), [t EXCEPT !.step = "end"])
       [] t.step = "settled" -> Settles(t, r, AllDocs(t), AllDocs(t))
       [] t.step = "symbols" ->
            IF r = "ok" THEN [t EXCEPT !.step = "walk", !.listed = Symbols, !.about = Len(Questions)]
            ELSE NextDoc(t)
       [] t.step = "hover" ->
            IF r = "null" /\ t.tries < Tries - 1 THEN [t EXCEPT !.tries = @ + 1]
            ELSE [t EXCEPT !.step = "walk"]
       [] t.step = "prepare" -> [t EXCEPT !.step = IF r = "ok" THEN "outgoing" ELSE "walk"]
       [] t.step \in {"outgoing", "implement"} -> [t EXCEPT !.step = "walk"]
       [] OTHER -> t

(***************************************************************************)
(* walk_symbol goes through the symbols the server listed and their        *)
(* children.  Name, kind, visibility and owner settle what is asked about  *)
(* each, often nothing: the walk asks something more about the symbol at   *)
(* hand, or about a later one, or is through with the file.                *)
(***************************************************************************)
Walk ==
  /\ task.io = "do" /\ task.step = "walk"
  /\ \/ task' = NextDoc(task)
     \/ \E k \in DOMAIN Questions, on \in {0, 1} :
          /\ Questions[k] = "implement" => task.preload
          /\ on = 0 => k > task.about
          /\ on <= task.listed
          /\ task' = [task EXCEPT !.step = Questions[k], !.about = k, !.tries = 0, !.listed = @ - on]
  /\ UNCHANGED <<pending, slot, toServer, fromServer, reader, server>>

\* A message to the server goes out when the pipe has room and a reader.
Asked == [kind |-> "request", id |-> task.id, serial |-> task.serial]
Told(kind) == [kind |-> kind, id |-> None, serial |-> None]
Writes(message) ==
  /\ server.up /\ Len(toServer) < Pipe
  /\ toServer' = Append(toServer, message)

\* open_file: told of already; or unreadable, and then not told of but taken
\* for told; or read.
Opens == task.step \in {"preload", "symbols"}
OpenFile ==
  /\ task.io = "do" /\ Opens /\ task.doc \notin task.opened
  /\ \/ task' = [task EXCEPT !.io = "tell", !.opened = @ \cup {task.doc}]
     \/ \E there \in BOOLEAN :
          LET t == [task EXCEPT !.opened = IF there THEN @ \cup {task.doc} ELSE @]
          IN task' = IF task.step = "symbols" THEN NextDoc(t)
                     ELSE IF task.doc = Len(Docs) THEN Probe(t, "settled") ELSE [t EXCEPT !.doc = @ + 1]
  /\ UNCHANGED <<pending, slot, toServer, fromServer, reader, server>>

\* The next of the files to preload; the last one goes on to the probes.
Preloaded ==
  /\ task.io = "do" /\ task.step = "preload" /\ task.doc \in task.opened
  /\ task' = IF task.doc = Len(Docs) THEN Probe(task, "settled") ELSE [task EXCEPT !.doc = @ + 1]
  /\ UNCHANGED <<pending, slot, toServer, fromServer, reader, server>>

\* textDocument/didOpen; one that cannot be written takes the file back.
DidOpen ==
  /\ task.io = "tell"
  /\ \/ Writes(Told("didOpen")) /\ task' = [task EXCEPT !.io = "do"]
     \/ /\ ~server.up /\ UNCHANGED toServer
        /\ LET t == [task EXCEPT !.opened = @ \ {task.doc}, !.io = "do"]
           IN task' = IF task.step = "symbols" THEN NextDoc(t)
                      ELSE IF task.doc = Len(Docs) THEN Probe(t, "settled") ELSE [t EXCEPT !.doc = @ + 1]
  /\ UNCHANGED <<pending, slot, fromServer, reader, server>>

Initialized ==
  /\ task.io = "do" /\ task.step = "initialized"
  /\ \/ Writes(Told("initialized")) /\ task' = Probe(task, "ready")
     \/ ~server.up /\ UNCHANGED toServer /\ task' = [task EXCEPT !.step = "end"]
  /\ UNCHANGED <<pending, slot, fromServer, reader, server>>

-----------------------------------------------------------------------------
(* LspClient::request                                                      *)

AsksNow ==
  /\ task.io = "do" /\ task.step \in Steps \ {"initialized", "preload", "walk", "end"}
  /\ Opens => task.doc \in task.opened

\* Mutant: an id is free again once nothing is pending under it.
ReusedId == CHOOSE i \in Ids : i \notin pending /\ \A j \in Ids \ pending : i <= j

NextId == task.serial + 1

\* The id is taken and its sender filed before anything is written.
Request ==
  /\ AsksNow
  /\ task' = [task EXCEPT !.io = "send", !.id = NextId, !.serial = @ + 1]
  /\ pending' = pending \cup {NextId}
  /\ slot' = NoSlot
  /\ UNCHANGED <<toServer, fromServer, reader, server>>

\* A failed write leaves the sender where it was filed.
Send ==
  /\ task.io = "send"
  /\ \/ Writes(Asked) /\ task' = [task EXCEPT !.io = "wait"]
     \/ ~server.up /\ UNCHANGED toServer /\ task' = Continue("error")
  /\ UNCHANGED <<pending, slot, fromServer, reader, server>>

Receive ==
  /\ task.io = "wait" /\ slot.is # "empty"
  /\ task' = Continue(IF slot.is = Ended THEN "error" ELSE slot.is)
  /\ slot' = NoSlot
  /\ UNCHANGED <<pending, toServer, fromServer, reader, server>>

\* The deadline, which covers the wait and not the write.
Timeout ==
  /\ task.io = "wait" /\ slot.is = "empty"
  /\ task' = Continue("error")
  /\ pending' = pending \ {task.id}
  /\ UNCHANGED <<slot, toServer, fromServer, reader, server>>

-----------------------------------------------------------------------------
(* The reader task                                                         *)

\* An answer to what is no longer pending, or no longer awaited, is dropped.
Deliver(m) ==
  /\ pending' = pending \ {m.id}
  /\ slot' = IF m.id \in pending /\ m.id = task.id THEN [is |-> m.is, asked |-> m.serial] ELSE slot

Read ==
  /\ reader = "reading" /\ fromServer # <<>> /\ Head(fromServer).is # "garbled"
  /\ fromServer' = Tail(fromServer)
  /\ LET m == Head(fromServer) IN
       /\ IF m.is \in {"ok", "null", "error"} THEN Deliver(m) ELSE UNCHANGED <<pending, slot>>
       /\ reader' = IF m.is = "asks" THEN "replying" ELSE reader
  /\ UNCHANGED <<task, toServer, server>>

\* A request of the server is accepted with null; a failed write is let go.
AutoReply ==
  /\ reader = "replying" /\ reader' = "reading"
  /\ \/ Writes(Told("reply"))
     \/ ~server.up /\ UNCHANGED toServer
  /\ UNCHANGED <<task, pending, slot, fromServer, server>>

\* The stream ends with the server, or where a message states no length.
EndOfStream ==
  /\ reader = "reading"
  /\ IF fromServer = <<>> THEN ~server.up ELSE Head(fromServer).is = "garbled"
  /\ reader' = "ended" /\ pending' = {} /\ fromServer' = <<>>
  /\ slot' = IF task.id \in pending THEN [is |-> Ended, asked |-> task.serial] ELSE slot
  /\ UNCHANGED <<task, toServer, server>>

-----------------------------------------------------------------------------
(* The language server                                                     *)

\* The server owes no answer, so it may as well forget what lies far back.
Newest(work) == {m \in work : Cardinality({n \in work : n.serial > m.serial}) < Backlog}

ServerTakes ==
  /\ server.up /\ toServer # <<>>
  /\ toServer' = Tail(toServer)
  /\ LET m == Head(toServer) IN
     server' = IF m.kind = "request" THEN [server EXCEPT !.work = Newest(@ \cup {m})] ELSE server
  /\ UNCHANGED <<task, pending, slot, fromServer, reader>>

Says(message) == reader # "ended" /\ Len(fromServer) < Pipe /\ fromServer' = Append(fromServer, message)

ServerAnswers(m) ==
  /\ server.up
  /\ \E is \in {"ok", "null", "error"} : Says([is |-> is, id |-> m.id, serial |-> m.serial])
  /\ server' = [server EXCEPT !.work = @ \ {m}]
  /\ UNCHANGED <<task, pending, slot, toServer, reader>>

\* A request of the server under an id of its own, a notification, or no
\* message at all.
ServerSpeaks ==
  /\ server.up /\ server.says > 0
  /\ \E is \in {"asks", "notifies", "garbled"} : Says([is |-> is, id |-> 1, serial |-> None])
  /\ server' = [server EXCEPT !.says = @ - 1]
  /\ UNCHANGED <<task, pending, slot, toServer, reader>>

ServerDies ==
  /\ server.up
  /\ server' = [server EXCEPT !.up = FALSE, !.work = {}]
  /\ toServer' = <<>>
  /\ UNCHANGED <<task, pending, slot, fromServer, reader>>

LspInit ==
  /\ \E preload \in Preloads : task = Start(preload)
  /\ pending = {} /\ slot = NoSlot /\ toServer = <<>> /\ fromServer = <<>>
  /\ reader = "reading"
  /\ server = [up |-> TRUE, work |-> {}, says |-> 1]

Client == OpenFile \/ Preloaded \/ DidOpen \/ Initialized \/ Walk \/ Request \/ Send \/ Receive \/ Timeout
Reader == Read \/ AutoReply \/ EndOfStream
Server ==
  \/ ServerTakes \/ ServerSpeaks \/ ServerDies
  \/ \E m \in server.work : ServerAnswers(m)
LspNext == Client \/ Reader \/ Server

\* The runtime polls both tasks; the server reads what it is sent, and owes
\* neither an answer nor an end.
LspFairness == WF_lspVars(Client) /\ WF_lspVars(Reader) /\ WF_lspVars(ServerTakes)

LspSpec == LspInit /\ [][LspNext]_lspVars /\ LspFairness
-----------------------------------------------------------------------------
(***************************************************************************)
(* What a request receives is the answer to it, however many were given up *)
(* before it and in whatever order the server answers.                     *)
(***************************************************************************)
AnswersAreTheirOwn == task.io = "wait" /\ slot.is # "empty" => slot.asked = task.serial
=============================================================================
