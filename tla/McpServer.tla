----------------------------- MODULE McpServer -----------------------------
(***************************************************************************)
(* yeomna-mcp: one client on a pipe, one reading loop, one task per        *)
(* request under a supervisor of its own, one writer.                      *)
(*                                                                         *)
(* The loop (lib.rs serve) reads lines, refuses what is not a request,     *)
(* delivers cancellations and spawns handlers.  A handler of tools/call    *)
(* takes one of a fixed number of slots, runs a `yeomna call` child and    *)
(* answers with what the child said (target.rs).  The supervisor answers   *)
(* for a handler that died and clears the id.  At end of input the loop    *)
(* stops reading and waits for every task, then for the writer.            *)
(*                                                                         *)
(* Tasks interleave at every await.  A line of the client is abstracted to *)
(* what serve tells apart: a request with an id and a method, a            *)
(* cancellation of an id, or a line that is none of these.                 *)
(***************************************************************************)
EXTENDS Integers, Sequences, FiniteSets

CONSTANTS
  Ids,        \* the ids a client uses; it may use one again
  Slots,      \* MAX_CONCURRENT_CALLS
  MaxLines,   \* bound: how many lines the client writes
  MaxPanics,  \* bound: how many handlers die
  PipeBreaks  \* BOOLEAN: may the client close the pipe it reads answers from

ASSUME McpAssumption ==
  /\ Slots \in Nat \ {0} /\ MaxLines \in Nat /\ MaxPanics \in Nat
  /\ PipeBreaks \in BOOLEAN

VARIABLES
  loop,      \* where serve is: top, reading, draining, closing, done
  lines,     \* lines read so far, which also numbers the calls
  live,      \* in_flight: per id, the call whose stop sender it holds, 0 for none
  calls,     \* the calls spawned, by number
  free,      \* permits of the semaphore nobody holds
  queue,     \* calls waiting for a permit, in order of arrival
  channel,   \* answers sent and not yet written: a call, or 0 for a line with none
  writable,  \* the flag the writer clears when the pipe is broken
  panics     \* how many handlers have died

callVars == <<live, calls, free, queue, panics>>
pipeVars == <<channel, writable>>
mcpVars == <<loop, lines, callVars, pipeVars>>

-----------------------------------------------------------------------------
(* Calls                                                                   *)

Over == {"replied", "silent", "panicked"}
Worker == {"spawned", "queued", "granted", "running"} \cup Over

\* stop: the sender in in_flight is armed, sent, or dropped without a word.
\* sent: how many answers have been put on the channel for this call.
Call == [id : Ids, stop : {"armed", "sent", "dropped"},
         worker : Worker, child : {"none", "alive", "ended", "killed"},
         task : {"watching", "clearing", "done"}, sent : Nat]

NewCall(i) ==
  [id |-> i, stop |-> "armed", worker |-> "spawned",
   child |-> "none", task |-> "watching", sent |-> 0]

Numbers == DOMAIN calls
Holders == {c \in Numbers : calls[c].worker \in {"granted", "running"}}

\* An answer queued for the writer; once the writer is gone it is dropped.
Send(c) == channel' = IF writable THEN Append(channel, c) ELSE channel

-----------------------------------------------------------------------------
(* Slots: tokio's semaphore hands a released permit to whoever waited longest *)

\* The queue without c, which waits in one place at most.
Dequeue(c) ==
  IF \E k \in DOMAIN queue : queue[k] = c
  THEN LET k == CHOOSE k \in DOMAIN queue : queue[k] = c
       IN [j \in 1 .. Len(queue) - 1 |-> IF j < k THEN queue[j] ELSE queue[j + 1]]
  ELSE queue

\* Mutant: a slot that comes back goes to nobody who waits.
LeavePassesNothingOn(c, rec) ==
  /\ calls' = [calls EXCEPT ![c] = rec]
  /\ queue' = Dequeue(c)
  /\ free' = IF c \in Holders THEN free + 1 ELSE free

\* Mutant: a slot comes back from whoever ends, held or not.
LeaveAlwaysReleases(c, rec) ==
  /\ calls' = [calls EXCEPT ![c] = rec]
  /\ queue' = Dequeue(c)
  /\ free' = free + 1

\* Call c ends as rec, giving back the permit or the place in the queue it has.
Leave(c, rec) ==
  IF c \in Holders /\ queue # <<>>
  THEN /\ calls' = [calls EXCEPT ![c] = rec, ![Head(queue)].worker = "granted"]
       /\ queue' = Tail(queue)
       /\ UNCHANGED free
  ELSE /\ calls' = [calls EXCEPT ![c] = rec]
       /\ queue' = Dequeue(c)
       /\ free' = IF c \in Holders THEN free + 1 ELSE free

Killed(call) == IF call.child = "alive" THEN "killed" ELSE call.child

-----------------------------------------------------------------------------
(* The reading loop                                                        *)

LoopTop ==
  /\ loop = "top"
  /\ loop' = IF writable THEN "reading" ELSE "draining"
  /\ UNCHANGED <<lines, callVars, pipeVars>>

NextLine == loop = "reading" /\ lines < MaxLines /\ lines' = lines + 1 /\ loop' = "top"

\* Not JSON, not an object, a null id, no method: one error that names no call.
ReadMalformed ==
  /\ NextLine
  /\ Send(0)
  /\ UNCHANGED <<callVars, writable>>

\* An id still in in_flight is refused rather than allowed to overwrite.
ReadDuplicate(i) ==
  /\ NextLine
  /\ live[i] # 0
  /\ Send(0)
  /\ UNCHANGED <<callVars, writable>>

\* Mutant: a reused id overwrites the entry of the call that has it.
ReadRequestOverwrites(i) ==
  /\ NextLine
  /\ calls' = Append(IF live[i] = 0 THEN calls ELSE [calls EXCEPT ![live[i]].stop = "dropped"],
                      NewCall(i))
  /\ live' = [live EXCEPT ![i] = Len(calls) + 1]
  /\ UNCHANGED <<free, queue, panics, pipeVars>>

ReadRequest(i) ==
  /\ NextLine
  /\ live[i] = 0
  /\ calls' = Append(calls, NewCall(i))
  /\ live' = [live EXCEPT ![i] = Len(calls) + 1]
  /\ UNCHANGED <<free, queue, panics, pipeVars>>

ReadCancel(i) ==
  /\ NextLine
  /\ live' = [live EXCEPT ![i] = 0]
  /\ calls' = IF live[i] = 0 THEN calls ELSE [calls EXCEPT ![live[i]].stop = "sent"]
  /\ UNCHANGED <<free, queue, panics, pipeVars>>

\* End of input, or an input that cannot be read.
ReadEnd ==
  /\ loop = "reading"
  /\ loop' = "draining"
  /\ UNCHANGED <<lines, callVars, pipeVars>>

Drained ==
  /\ loop = "draining"
  /\ \A c \in Numbers : calls[c].task = "done"
  /\ loop' = "closing"
  /\ UNCHANGED <<lines, callVars, pipeVars>>

Closed ==
  /\ loop = "closing"
  /\ channel = <<>> \/ ~writable
  /\ loop' = "done"
  /\ UNCHANGED <<lines, callVars, pipeVars>>

-----------------------------------------------------------------------------
(* A handler                                                               *)

Reply(c, rec) ==
  /\ Leave(c, [rec EXCEPT !.worker = "replied", !.sent = @ + 1])
  /\ Send(c)
  /\ UNCHANGED <<loop, lines, live, panics, writable>>

\* discover, tools/list, and every refusal: nothing is run for them.
AnswerAtOnce(c) ==
  /\ calls[c].worker = "spawned"
  /\ Reply(c, calls[c])

Acquire(c) ==
  /\ calls[c].worker = "spawned"
  /\ IF free > 0
     THEN /\ calls' = [calls EXCEPT ![c].worker = "granted"]
          /\ free' = free - 1
          /\ UNCHANGED queue
     ELSE /\ calls' = [calls EXCEPT ![c].worker = "queued"]
          /\ queue' = Append(queue, c)
          /\ UNCHANGED free
  /\ UNCHANGED <<loop, lines, live, panics, pipeVars>>

\* target::start: the child runs, or cannot be started.
StartChild(c) ==
  /\ calls[c].worker = "granted"
  /\ calls' = [calls EXCEPT ![c].worker = "running", ![c].child = "alive"]
  /\ UNCHANGED <<loop, lines, live, free, queue, panics, pipeVars>>

StartFails(c) ==
  /\ calls[c].worker = "granted"
  /\ Reply(c, calls[c])

\* It ends by itself, with whatever status: each is an answer (target.rs).
ChildEnds(c) ==
  /\ calls[c].child = "alive"
  /\ calls' = [calls EXCEPT ![c].child = "ended"]
  /\ UNCHANGED <<loop, lines, live, free, queue, panics, pipeVars>>

Finish(c) ==
  /\ calls[c].worker = "running" /\ calls[c].child = "ended"
  /\ Reply(c, calls[c])

\* Mutant: a sender dropped unused counts as a cancellation.
CancelledByDrop(c) ==
  /\ calls[c].worker \notin Over
  /\ calls[c].stop # "armed"
  /\ Leave(c, [calls[c] EXCEPT !.worker = "silent", !.child = Killed(calls[c])])
  /\ UNCHANGED <<loop, lines, live, panics, pipeVars>>

\* select! takes a delivered stop whenever it is polled before the handler
\* is over; dropping the handler gives back its slot and kills its child.
Cancelled(c) ==
  /\ calls[c].worker \notin Over
  /\ calls[c].stop = "sent"
  /\ Leave(c, [calls[c] EXCEPT !.worker = "silent", !.child = Killed(calls[c])])
  /\ UNCHANGED <<loop, lines, live, panics, pipeVars>>

Panic(c) ==
  /\ calls[c].worker \notin Over \cup {"queued"}
  /\ panics < MaxPanics
  /\ panics' = panics + 1
  /\ Leave(c, [calls[c] EXCEPT !.worker = "panicked", !.child = Killed(calls[c])])
  /\ UNCHANGED <<loop, lines, live, pipeVars>>

-----------------------------------------------------------------------------
(* Its supervisor, and the writer                                          *)

\* Mutant: nobody answers for a handler that died.
SuperviseSilently(c) ==
  /\ calls[c].task = "watching" /\ calls[c].worker \in Over
  /\ calls' = [calls EXCEPT ![c].task = "clearing"]
  /\ UNCHANGED <<loop, lines, live, free, queue, panics, pipeVars>>

Supervise(c) ==
  /\ calls[c].task = "watching" /\ calls[c].worker \in Over
  /\ IF calls[c].worker = "panicked"
     THEN /\ Send(c)
          /\ calls' = [calls EXCEPT ![c].task = "clearing", ![c].sent = @ + 1]
     ELSE /\ calls' = [calls EXCEPT ![c].task = "clearing"]
          /\ UNCHANGED channel
  /\ UNCHANGED <<loop, lines, live, free, queue, panics, writable>>

\* Removes whatever in_flight holds under the id, another call's sender
\* included, which drops that sender.
ClearId(c) ==
  LET i == calls[c].id
      held == live[i]
      cleared == [calls EXCEPT ![c].task = "done"]
  IN /\ calls[c].task = "clearing"
     /\ live' = [live EXCEPT ![i] = 0]
     /\ calls' = IF held # 0 THEN [cleared EXCEPT ![held].stop = "dropped"] ELSE cleared
     /\ UNCHANGED <<loop, lines, free, queue, panics, pipeVars>>

Write ==
  /\ writable /\ channel # <<>>
  /\ channel' = Tail(channel)
  /\ UNCHANGED <<loop, lines, callVars, writable>>

WriteFails ==
  /\ PipeBreaks /\ writable /\ channel # <<>>
  /\ writable' = FALSE
  /\ channel' = <<>>
  /\ UNCHANGED <<loop, lines, callVars>>

-----------------------------------------------------------------------------
McpInit ==
  /\ loop = "top" /\ lines = 0
  /\ live = [i \in Ids |-> 0]
  /\ calls = <<>>
  /\ free = Slots /\ queue = <<>>
  /\ channel = <<>> /\ writable = TRUE
  /\ panics = 0

Handler(c) ==
  \/ AnswerAtOnce(c) \/ Acquire(c) \/ StartChild(c) \/ StartFails(c)
  \/ Finish(c) \/ Cancelled(c)
Supervisor(c) == Supervise(c) \/ ClearId(c)

Client ==
  \/ \E i \in Ids : ReadRequest(i) \/ ReadDuplicate(i) \/ ReadCancel(i)
  \/ ReadMalformed

McpNext ==
  \/ LoopTop \/ Client \/ ReadEnd \/ Drained \/ Closed \/ Write \/ WriteFails
  \/ \E c \in Numbers :
       Handler(c) \/ Supervisor(c) \/ Panic(c) \/ ChildEnds(c)

\* Tasks are polled until they are done.  Two things are assumed that the code
\* does not enforce: a child that was started ends (no deadline is put on it), and
\* what stands in the channel is taken, by a client that reads stdout or by an
\* error, as the writer has no deadline either.  Nothing is assumed of what the
\* client sends: it may stop writing, or never close its end.
McpFairness ==
  /\ WF_mcpVars(LoopTop) /\ WF_mcpVars(Drained) /\ WF_mcpVars(Closed) /\ WF_mcpVars(Write)
  /\ \A c \in 1 .. MaxLines :
       /\ WF_mcpVars(c \in Numbers /\ Handler(c))
       /\ WF_mcpVars(c \in Numbers /\ Supervisor(c))
       /\ WF_mcpVars(c \in Numbers /\ ChildEnds(c))

McpSpec == McpInit /\ [][McpNext]_mcpVars /\ McpFairness

-----------------------------------------------------------------------------
(* Properties                                                              *)

McpTypeOK ==
  /\ loop \in {"top", "reading", "draining", "closing", "done"}
  /\ lines \in Nat /\ panics \in Nat
  /\ calls \in Seq(Call)
  /\ live \in [Ids -> {0} \cup Numbers]
  /\ free \in 0 .. Slots
  /\ queue \in Seq(Numbers)
  /\ channel \in Seq({0} \cup Numbers)
  /\ writable \in BOOLEAN

\* However calls end, by an answer, a cancellation at any await or a panic, no
\* slot is lost and none is invented: what is not free is held by a handler
\* that is alive, nobody waits while a slot is free, and a child runs only
\* under a slot (lib.rs 24-30, 101-106).
SlotsAreConserved ==
  /\ free + Cardinality(Holders) = Slots
  /\ queue # <<>> => free = 0
  /\ \A c \in Numbers : (\E k \in DOMAIN queue : queue[k] = c) <=> calls[c].worker = "queued"
  /\ \A c \in Numbers : calls[c].child = "alive" => calls[c].worker = "running"

\* A running call is out of a cancellation's reach only when its id had been
\* cancelled before and used again: then the supervisor of the cancelled call
\* has taken its entry (lib.rs 282-289, 352).
CancellationReaches ==
  \A c \in Numbers :
    calls[c].worker \notin Over /\ live[calls[c].id] # c /\ calls[c].stop # "sent" =>
      \E d \in 1 .. c - 1 : calls[d].id = calls[c].id /\ calls[d].stop = "sent"

\* The fate of a call as its client sees it.
FateOf(call) ==
  IF call.sent = 0
  THEN IF call.worker = "silent" THEN "silenced" ELSE "pending"
  ELSE IF call.sent = 1 /\ call.worker # "silent" THEN "answered" ELSE "answered twice"

\* Each accepted request is answered once, or silenced by its own cancellation,
\* and serve returns only after that (lib.rs 364-381): McpServer implements
\* OneAnswer.
Answers ==
  INSTANCE OneAnswer WITH
    fate <- [c \in Numbers |-> FateOf(calls[c])],
    stopped <- {c \in Numbers : calls[c].stop = "sent"},
    gone <- loop = "done"
SettlesEachRequestOnce == Answers!Spec

\* A request that reaches a free slot or waits for one is settled even if
\* nothing more is ever sent, and end of input leads to the end of the server,
\* provided that every child ends and that the client reads what is written or
\* is gone: eight calls that wait for each other, a task that is never reaped or
\* an answer that never reaches the writer would all show here (lib.rs 380-382).
\* A child that hangs for ever, or a full pipe nobody reads, keeps its call open.
EveryRequestSettles ==
  /\ \A c \in 1 .. MaxLines :
       (c \in Numbers) ~> (c \in Numbers /\ FateOf(calls[c]) \in {"answered", "silenced"})
  /\ loop = "draining" ~> loop = "done"
=============================================================================
