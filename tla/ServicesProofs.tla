--------------------------- MODULE ServicesProofs ---------------------------
(***************************************************************************)
(* Theorems about the two services an ingest calls on: about LspSession,   *)
(* for every unit of files, every bound of its loops and every size of its *)
(* pipes; and about Embedding, for every set of callers, every number of   *)
(* texts and of restarts, and any cohorts.                                 *)
(***************************************************************************)
EXTENDS MCServices, Integers, TLAPS

-----------------------------------------------------------------------------
(* LspSession: what its invariant says                                     *)

Task ==
  [step : Steps, io : {"do", "tell", "send", "wait"}, doc : Nat, id : Nat, serial : Nat,
   left : Int, streak : Nat, tries : Nat, listed : Int, about : Nat, opened : SUBSET Nat,
   preload : BOOLEAN]

\* A request carries its own number as its id, and so does the answer to it.
Own(m) == m.id = m.serial
ToServer == {m \in [kind : {"request", "didOpen", "initialized", "reply"}, id : Nat, serial : Nat] :
               m.kind = "request" => Own(m)}
FromServer == {m \in [is : {"ok", "null", "error", "asks", "notifies", "garbled"}, id : Nat, serial : Nat] :
                 m.is \in {"ok", "null", "error"} => Own(m)}

\* The server, working on messages of W.
Process(W) == [up : BOOLEAN, work : SUBSET W, says : Nat]

\* The id a task awaits is the number of its last request, or none.
TaskInv ==
  /\ task \in Task
  /\ IF task.io \in {"send", "wait"} THEN task.id = task.serial /\ task.id # None ELSE task.id = None

SlotInv ==
  /\ slot \in [is : {"empty", "ok", "null", "error", Ended}, asked : Nat]
  /\ task.io \in {"send", "wait"} /\ slot.is # "empty" => slot.asked = task.serial

WireInv ==
  /\ pending \subseteq Nat \ {None}
  /\ toServer \in Seq(ToServer) /\ fromServer \in Seq(FromServer)
  /\ server \in Process(ToServer)
  /\ \A m \in server.work : Own(m)

LspInv == TaskInv /\ SlotInv /\ WireInv

-----------------------------------------------------------------------------
(* The task                                                                *)

\* What stays of a task whose request is over.
Over(t) == t \in Task /\ t.io = "do" /\ t.id = None

LEMMA Stepping ==
  ASSUME NEW t \in Task, Over(t), NEW step \in Steps
  PROVE  /\ Over([t EXCEPT !.step = step])
         /\ Over(NextDoc(t)) /\ Over(AllDocs(t)) /\ Over(Probe(t, step)) /\ Over(Preload(t))
         /\ Over([t EXCEPT !.left = @ - 1])
<1>. USE LspAssumption
<1>1. /\ t.left - 1 \in Int /\ t.doc + 1 \in Nat /\ 1 \in Nat /\ 0 \in Nat /\ 0 \in Int /\ Probes \in Int
      /\ Len(Questions) \in Nat
  BY DEF Task, Questions
<1>2. {"end", "symbols", "preload"} \subseteq Steps
  BY DEF Steps
<1>3. Over([t EXCEPT !.step = step]) /\ Over([t EXCEPT !.left = @ - 1])
  BY <1>1 DEF Over, Task
<1>4. Over(NextDoc(t))
  BY <1>1, <1>2 DEF Over, Task, NextDoc
<1>5. ASSUME NEW s \in Steps PROVE Over(Probe(t, s)) /\ Over([Probe(t, s) EXCEPT !.doc = 1])
  BY <1>1 DEF Over, Task, Probe
<1>6. Over(Probe(t, step)) /\ Over(AllDocs(t))
  BY <1>2, <1>5 DEF AllDocs
<1>7. Over(Preload(t))
  BY <1>2, <1>5, <1>6 DEF Preload
<1>. QED BY <1>3, <1>4, <1>5, <1>6, <1>7

LEMMA Settling ==
  ASSUME NEW t \in Task, Over(t), NEW r, NEW then, Over(then), NEW failing, Over(failing)
  PROVE  Over(Settles(t, r, then, failing))
<1> DEFINE on == [t EXCEPT !.left = @ - 1, !.streak = IF r = "ok" THEN 1 ELSE 0]
<1>1. t.left - 1 \in Int /\ (IF r = "ok" THEN 1 ELSE 0) \in Nat
  BY DEF Task
<1>2. Over(on)
  BY <1>1 DEF Over, Task
<1>3. Settles(t, r, then, failing) \in {then, failing, on}
  BY DEF Settles
<1>. QED BY <1>2, <1>3

\* Whatever the outcome of a request, the next one starts from none.
LEMMA Continuing ==
  ASSUME task \in Task, NEW outcome
  PROVE  Over(Continue(outcome))
<1> DEFINE t == [task EXCEPT !.io = "do", !.id = None]
           r == IF outcome = "null" /\ t.step \in {"ready", "settle", "settled"} THEN "ok" ELSE outcome
<1>1. t \in Task /\ Over(t)
  BY DEF Task, Over, None
<1> HIDE DEF t, r
<1>2. {"end", "symbols", "initialized", "settle", "walk", "outgoing"} \subseteq Steps
  BY DEF Steps
<1>3. /\ Over([t EXCEPT !.step = "end"]) /\ Over([t EXCEPT !.step = "initialized"])
      /\ Over([t EXCEPT !.step = IF r = "error" THEN "end" ELSE "initialized"])
      /\ Over(Probe(t, "settle")) /\ Over([t EXCEPT !.left = @ - 1]) /\ Over(NextDoc(t))
      /\ Over(AllDocs(t)) /\ Over(Preload(t)) /\ Over([t EXCEPT !.step = "walk"])
      /\ Over([t EXCEPT !.step = IF r = "ok" THEN "outgoing" ELSE "walk"])
  BY <1>1, <1>2, Stepping
<1>4. /\ Over([t EXCEPT !.step = "walk", !.listed = Symbols, !.about = Len(Questions)])
      /\ Over([t EXCEPT !.tries = @ + 1])
  <2>1. t.tries + 1 \in Nat /\ Symbols \in Int /\ Len(Questions) \in Nat /\ "walk" \in Steps
    BY <1>1, <1>2, LspAssumption DEF Task, Questions
  <2>2. Over([t EXCEPT !.step = "walk", !.listed = Symbols, !.about = Len(Questions)])
    BY <1>1, <2>1 DEF Over, Task
  <2>3. Over([t EXCEPT !.tries = @ + 1])
    BY <1>1, <2>1 DEF Over, Task
  <2>. QED BY <2>2, <2>3
<1>5. Over(Settles(t, r, Preload(t), [t EXCEPT !.step = "end"]))
  BY <1>1, <1>3, Settling
<1>6. Over(Settles(t, r, AllDocs(t), AllDocs(t)))
  BY <1>1, <1>3, Settling
<1>7. Continue(outcome) \in
        {[t EXCEPT !.step = IF r = "error" THEN "end" ELSE "initialized"], Probe(t, "settle"),
         [t EXCEPT !.left = @ - 1], Settles(t, r, Preload(t), [t EXCEPT !.step = "end"]),
         Settles(t, r, AllDocs(t), AllDocs(t)), NextDoc(t),
         [t EXCEPT !.step = "walk", !.listed = Symbols, !.about = Len(Questions)],
         [t EXCEPT !.tries = @ + 1], [t EXCEPT !.step = "walk"],
         [t EXCEPT !.step = IF r = "ok" THEN "outgoing" ELSE "walk"], t}
  BY DEF Continue, t, r
<1>. QED BY <1>1, <1>3, <1>4, <1>5, <1>6, <1>7

-----------------------------------------------------------------------------
(* The pipes                                                               *)

LEMMA Piped ==
  ASSUME NEW S, NEW s \in Seq(S), NEW e \in S
  PROVE  /\ Append(s, e) \in Seq(S)
         /\ s # <<>> => Head(s) \in S /\ Tail(s) \in Seq(S)
         /\ <<>> \in Seq(S)
  OBVIOUS

\* What the client writes is its own, or no request.
LEMMA Telling ==
  ASSUME LspInv, NEW kind \in {"didOpen", "initialized", "reply"}, Writes(Told(kind))
  PROVE  toServer' \in Seq(ToServer)
<1>1. Told(kind) \in ToServer
  BY DEF Told, ToServer, None
<1>. QED BY <1>1, Piped DEF LspInv, WireInv, Writes

\* A step of the task that asks for nothing.
LEMMA QuietTask ==
  ASSUME LspInv, TaskInv', task'.io \in {"do", "tell"}, slot' \in {slot, NoSlot},
         pending' \subseteq pending, toServer' \in Seq(ToServer), UNCHANGED <<fromServer, reader, server>>
  PROVE  LspInv'
<1>1. SlotInv'
  BY DEF LspInv, SlotInv, NoSlot, None
<1>2. WireInv'
  BY DEF LspInv, WireInv
<1>. QED BY <1>1, <1>2 DEF LspInv

LEMMA OverIsTask ==
  ASSUME Over(task')
  PROVE  TaskInv' /\ task'.io \in {"do", "tell"}
BY DEF Over, TaskInv

\* Between two requests about a file nothing is awaited.
LEMMA WalkStep ==
  ASSUME LspInv, Walk
  PROVE  LspInv'
<1>1. task \in Task /\ Over(task)
  BY DEF LspInv, TaskInv, Walk, Over
<1>2. Over(task')
  <2>1. CASE task' = NextDoc(task)
    BY <1>1, <2>1, Stepping DEF Steps
  <2>2. CASE task' # NextDoc(task)
    <3>1. PICK k \in DOMAIN Questions, on \in {0, 1} :
            task' = [task EXCEPT !.step = Questions[k], !.about = k, !.tries = 0, !.listed = @ - on]
      BY <2>2 DEF Walk
    <3>2. Questions[k] \in Steps /\ k \in Nat
      BY DEF Questions, Steps
    <3>3. task.listed - on \in Int /\ 0 \in Nat
      BY <1>1 DEF Task
    <3>. QED BY <1>1, <3>1, <3>2, <3>3 DEF Over, Task
  <2>. QED BY <2>1, <2>2
<1>3. toServer \in Seq(ToServer)
  BY DEF LspInv, WireInv
<1>. QED BY <1>2, <1>3, OverIsTask, QuietTask DEF Walk

\* Files are opened with no request under way.
LEMMA OpenStep ==
  ASSUME LspInv, OpenFile \/ Preloaded \/ Initialized
  PROVE  LspInv'
<1>1. task \in Task /\ Over(task) /\ task.doc \in Nat /\ task.opened \in SUBSET Nat
  BY DEF LspInv, TaskInv, OpenFile, Preloaded, Initialized, Over, Task
<1>2. toServer \in Seq(ToServer)
  BY DEF LspInv, WireInv
<1>3. ASSUME NEW t \in Task, Over(t)
      PROVE  /\ Over(NextDoc(t)) /\ Over(Probe(t, "settled")) /\ Over(Probe(t, "ready"))
             /\ Over([t EXCEPT !.doc = @ + 1]) /\ Over([t EXCEPT !.step = "end"])
  <2>1. "settled" \in Steps /\ "ready" \in Steps /\ "end" \in Steps /\ t.doc + 1 \in Nat
    BY <1>3 DEF Steps, Task
  <2>2. Over([t EXCEPT !.doc = @ + 1])
    BY <1>3, <2>1 DEF Over, Task
  <2>. QED BY <1>3, <2>1, <2>2, Stepping
<1>4. CASE OpenFile
  <2> DEFINE told == [task EXCEPT !.io = "tell", !.opened = @ \cup {task.doc}]
  <2>1. UNCHANGED <<pending, slot, toServer, fromServer, reader, server>>
    BY <1>4 DEF OpenFile
  <2>2. CASE task' = told
    <3>1. task.opened \cup {task.doc} \in SUBSET Nat
      BY <1>1
    <3>2. told \in Task /\ told.io = "tell" /\ told.id = None
      BY <1>1, <3>1 DEF Over, Task
    <3> HIDE DEF told
    <3>3. TaskInv'
      BY <2>2, <3>2 DEF TaskInv
    <3>. QED BY <1>2, <2>1, <2>2, <3>2, <3>3, QuietTask
  <2>3. CASE task' # told
    <3>1. PICK there \in BOOLEAN :
            LET t == [task EXCEPT !.opened = IF there THEN @ \cup {task.doc} ELSE @]
            IN task' = IF task.step = "symbols" THEN NextDoc(t)
                       ELSE IF task.doc = Len(Docs) THEN Probe(t, "settled") ELSE [t EXCEPT !.doc = @ + 1]
      BY <1>4, <2>3 DEF OpenFile
    <3> DEFINE o == IF there THEN task.opened \cup {task.doc} ELSE task.opened
               t == [task EXCEPT !.opened = o]
    <3>2. o \in SUBSET Nat
      BY <1>1
    <3>3. task' \in {NextDoc(t), Probe(t, "settled"), [t EXCEPT !.doc = @ + 1]}
      BY <3>1
    <3> HIDE DEF o
    <3>4. t \in Task /\ Over(t)
      BY <1>1, <3>2 DEF Over, Task
    <3> HIDE DEF t
    <3>5. Over(task')
      BY <1>3, <3>3, <3>4
    <3>. QED BY <1>2, <2>1, <3>5, OverIsTask, QuietTask
  <2>. QED BY <2>2, <2>3
<1>5. CASE Preloaded
  <2>1. Over(task')
    BY <1>1, <1>3, <1>5 DEF Preloaded
  <2>. QED BY <1>2, <1>5, <2>1, OverIsTask, QuietTask DEF Preloaded
<1>6. CASE Initialized
  <2>1. Over(task')
    BY <1>1, <1>3, <1>6 DEF Initialized
  <2>2. toServer' \in Seq(ToServer)
    BY <1>2, <1>6, Telling DEF Initialized
  <2>. QED BY <1>6, <2>1, <2>2, OverIsTask, QuietTask DEF Initialized
<1>. QED BY <1>4, <1>5, <1>6

LEMMA DidOpenStep ==
  ASSUME LspInv, DidOpen
  PROVE  LspInv'
<1>1. task \in Task /\ task.id = None /\ task.doc \in Nat /\ task.opened \in SUBSET Nat
  BY DEF LspInv, TaskInv, DidOpen, Task
<1>2. toServer' \in Seq(ToServer)
  BY Telling DEF DidOpen, LspInv, WireInv
<1>3. Over([task EXCEPT !.io = "do"])
  BY <1>1 DEF Over, Task
<1> DEFINE o == task.opened \ {task.doc}
           t == [task EXCEPT !.opened = o, !.io = "do"]
<1>4. task' \in {[task EXCEPT !.io = "do"], NextDoc(t), Probe(t, "settled"), [t EXCEPT !.doc = @ + 1]}
  BY DEF DidOpen
<1>5. o \in SUBSET Nat
  BY <1>1
<1> HIDE DEF o
<1>6. t \in Task /\ Over(t)
  BY <1>1, <1>5 DEF Over, Task
<1> HIDE DEF t
<1>7. Over(NextDoc(t)) /\ Over(Probe(t, "settled")) /\ Over([t EXCEPT !.doc = @ + 1])
  <2>1. "settled" \in Steps /\ t.doc + 1 \in Nat
    BY <1>6 DEF Steps, Task
  <2>2. Over([t EXCEPT !.doc = @ + 1])
    BY <1>6, <2>1 DEF Over, Task
  <2>. QED BY <1>6, <2>1, <2>2, Stepping
<1>8. Over(task')
  BY <1>3, <1>4, <1>7
<1>. QED BY <1>2, <1>8, OverIsTask, QuietTask DEF DidOpen

\* An id is the number of the request it is taken for.
LEMMA RequestStep ==
  ASSUME LspInv, Request
  PROVE  LspInv'
<1>1. task \in Task /\ task.serial \in Nat
  BY DEF LspInv, TaskInv, Task
<1>2. NextId \in Nat /\ NextId # None
  BY <1>1 DEF NextId, None
<1> DEFINE t == [task EXCEPT !.io = "send", !.id = NextId, !.serial = NextId]
<1>3. t \in Task /\ t.io = "send" /\ t.id = NextId /\ t.serial = NextId
  BY <1>1, <1>2 DEF Task
<1>4. task' = t
  BY DEF Request, NextId
<1> HIDE DEF t
<1>5. TaskInv'
  BY <1>2, <1>3, <1>4 DEF TaskInv
<1>6. SlotInv'
  BY DEF Request, SlotInv, NoSlot, None
<1>7. WireInv'
  BY <1>2 DEF LspInv, WireInv, Request
<1>. QED BY <1>5, <1>6, <1>7 DEF LspInv

\* The request is written with the id the answer is awaited under.
LEMMA SendStep ==
  ASSUME LspInv, Send
  PROVE  LspInv'
<1>1. task \in Task /\ task.id \in Nat /\ task.serial \in Nat /\ task.id = task.serial /\ task.id # None
  BY DEF LspInv, TaskInv, Send, Task
<1>2. CASE Writes(Asked) /\ task' = [task EXCEPT !.io = "wait"]
  <2>1. Asked \in ToServer
    BY <1>1 DEF Asked, ToServer, Own
  <2>2. WireInv'
    BY <1>2, <2>1, Piped DEF LspInv, WireInv, Writes, Send
  <2>3. TaskInv' /\ task'.serial = task.serial
    BY <1>1, <1>2 DEF TaskInv, Task
  <2>4. SlotInv'
    BY <2>3 DEF LspInv, SlotInv, Send
  <2>. QED BY <2>2, <2>3, <2>4 DEF LspInv
<1>3. CASE UNCHANGED toServer /\ task' = Continue("error")
  <2>1. Over(task')
    BY <1>1, <1>3, Continuing
  <2>. QED BY <1>3, <2>1, OverIsTask, QuietTask DEF Send, LspInv, WireInv
<1>. QED BY <1>2, <1>3 DEF Send

\* The wait ends with an outcome or a deadline.
LEMMA WaitStep ==
  ASSUME LspInv, Receive \/ Timeout
  PROVE  LspInv'
<1>1. task \in Task /\ toServer \in Seq(ToServer)
  BY DEF LspInv, TaskInv, WireInv
<1>2. Over(task')
  BY <1>1, Continuing DEF Receive, Timeout
<1>. QED BY <1>1, <1>2, OverIsTask, QuietTask DEF Receive, Timeout

-----------------------------------------------------------------------------
(* The reader task                                                         *)

\* What is delivered under the awaited id was answered to the last request.
LEMMA ReadStep ==
  ASSUME LspInv, Read
  PROVE  LspInv'
<1> DEFINE m == Head(fromServer)
<1>1. m \in FromServer /\ fromServer' \in Seq(FromServer)
  BY Piped DEF LspInv, WireInv, Read
<1>2. UNCHANGED <<task, toServer, server>>
  BY DEF Read
<1>3. \/ m.is \in {"ok", "null", "error"} /\ Deliver(m)
      \/ UNCHANGED <<pending, slot>>
  BY DEF Read
<1> HIDE DEF m
<1>4. WireInv'
  BY <1>1, <1>2, <1>3 DEF LspInv, WireInv, Deliver
<1>5. TaskInv'
  BY <1>2 DEF LspInv, TaskInv
<1>6. SlotInv'
  <2>1. CASE m.is \in {"ok", "null", "error"} /\ slot' = [is |-> m.is, asked |-> m.serial] /\ m.id = task.id
    <3>1. m.serial = m.id /\ m.serial \in Nat
      BY <1>1, <2>1 DEF FromServer, Own
    <3>. QED BY <1>2, <2>1, <3>1 DEF LspInv, TaskInv, SlotInv
  <2>2. CASE slot' = slot
    BY <1>2, <2>2 DEF LspInv, SlotInv
  <2>. QED BY <1>3, <2>1, <2>2 DEF Deliver
<1>. QED BY <1>4, <1>5, <1>6 DEF LspInv

\* At the end whoever waits is told so, under its own number.
LEMMA EndStep ==
  ASSUME LspInv, EndOfStream
  PROVE  LspInv'
<1>1. TaskInv' /\ task.serial \in Nat
  BY DEF LspInv, TaskInv, EndOfStream, Task
<1>2. SlotInv'
  BY <1>1 DEF LspInv, SlotInv, EndOfStream, Ended
<1>3. WireInv'
  BY Piped DEF LspInv, WireInv, EndOfStream
<1>. QED BY <1>1, <1>2, <1>3 DEF LspInv

LEMMA ReplyStep ==
  ASSUME LspInv, AutoReply
  PROVE  LspInv'
<1>1. toServer' \in Seq(ToServer)
  BY Telling DEF AutoReply, LspInv, WireInv
<1>2. WireInv'
  BY <1>1 DEF LspInv, WireInv, AutoReply
<1>. QED BY <1>2 DEF LspInv, TaskInv, SlotInv, AutoReply

-----------------------------------------------------------------------------
(* The server                                                              *)

\* What is left to say is counted, and nothing else changes.
LEMMA Speaking ==
  ASSUME NEW W, NEW s \in Process(W)
  PROVE  /\ s.says > 0 => [s EXCEPT !.says = @ - 1] \in Process(W)
         /\ [s EXCEPT !.says = @ - 1].work = s.work
<1>1. s.says > 0 => s.says - 1 \in Nat
  BY DEF Process
<1>. QED BY <1>1 DEF Process

\* The server changes the pipes and itself, and answers what it was asked.
LEMMA ServerStep ==
  ASSUME LspInv, Server
  PROVE  LspInv'
<1>1. /\ server \in Process(ToServer)
      /\ server.work \subseteq ToServer /\ \A m \in server.work : Own(m)
      /\ toServer \in Seq(ToServer) /\ fromServer \in Seq(FromServer) /\ pending \subseteq Nat \ {None}
  BY DEF LspInv, WireInv, Process
<1>2. SUFFICES /\ UNCHANGED <<task, pending, slot>>
               /\ toServer' \in Seq(ToServer) /\ fromServer' \in Seq(FromServer)
               /\ server' \in Process(ToServer)
               /\ \A m \in server'.work : Own(m)
  BY <1>1 DEF LspInv, TaskInv, SlotInv, WireInv
<1>3. CASE ServerTakes
  <2> DEFINE m == Head(toServer)
             work == Newest(server.work \cup {m})
  <2>1. m \in ToServer /\ toServer' \in Seq(ToServer)
    BY <1>1, <1>3, Piped DEF ServerTakes
  <2>2. CASE m.kind # "request"
    BY <1>1, <1>3, <2>1, <2>2 DEF ServerTakes
  <2>3. CASE m.kind = "request"
    <3>1. work \subseteq ToServer /\ \A n \in work : Own(n)
      BY <1>1, <2>1, <2>3 DEF Newest, ToServer
    <3>2. server' = [server EXCEPT !.work = work]
      BY <1>3, <2>3 DEF ServerTakes
    <3> HIDE DEF work
    <3>3. server' \in Process(ToServer) /\ server'.work = work
      BY <1>1, <3>1, <3>2 DEF Process
    <3>. QED BY <1>1, <1>3, <2>1, <3>1, <3>3 DEF ServerTakes
  <2>. QED BY <2>2, <2>3
<1>4. CASE ServerSpeaks
  <2>1. PICK is \in {"asks", "notifies", "garbled"} : Says([is |-> is, id |-> 1, serial |-> None])
    BY <1>4 DEF ServerSpeaks
  <2>2. [is |-> is, id |-> 1, serial |-> None] \in FromServer
    BY DEF FromServer, None
  <2>3. fromServer' \in Seq(FromServer)
    BY <1>1, <2>1, <2>2, Piped DEF Says
  <2>4. server' \in Process(ToServer) /\ server'.work = server.work
    BY <1>1, <1>4, Speaking DEF ServerSpeaks
  <2>. QED BY <1>1, <1>4, <2>3, <2>4 DEF ServerSpeaks
<1>5. CASE ServerDies
  <2>1. server' \in Process(ToServer) /\ server'.work = {}
    BY <1>1, <1>5 DEF ServerDies, Process
  <2>. QED BY <1>1, <1>5, <2>1, Piped DEF ServerDies
<1>6. CASE \E m \in server.work : ServerAnswers(m)
  <2>1. PICK m \in server.work : ServerAnswers(m)
    BY <1>6
  <2>2. PICK is \in {"ok", "null", "error"} : Says([is |-> is, id |-> m.id, serial |-> m.serial])
    BY <2>1 DEF ServerAnswers
  <2>3. m \in ToServer /\ Own(m) /\ m.id \in Nat /\ m.serial \in Nat
    BY <1>1 DEF ToServer
  <2>4. [is |-> is, id |-> m.id, serial |-> m.serial] \in FromServer
    BY <2>3 DEF FromServer, Own
  <2>5. fromServer' \in Seq(FromServer)
    BY <1>1, <2>2, <2>4, Piped DEF Says
  <2> DEFINE work == server.work \ {m}
  <2>6. work \subseteq ToServer /\ \A n \in work : Own(n)
    BY <1>1
  <2>7. server' = [server EXCEPT !.work = work]
    BY <2>1 DEF ServerAnswers
  <2> HIDE DEF work
  <2>8. server' \in Process(ToServer) /\ server'.work = work
    BY <1>1, <2>6, <2>7 DEF Process
  <2>9. UNCHANGED <<task, pending, slot, toServer>>
    BY <2>1 DEF ServerAnswers
  <2>. QED BY <1>1, <2>5, <2>6, <2>8, <2>9
<1>. QED BY <1>3, <1>4, <1>5, <1>6 DEF Server

-----------------------------------------------------------------------------
(* The session                                                             *)

LEMMA LspStarts ==
  ASSUME LspInit
  PROVE  LspInv
<1>1. PICK preload \in Preloads : task = Start(preload)
  BY DEF LspInit
<1>2. task \in Task /\ task.io = "do" /\ task.id = None
  <2>1. preload \in BOOLEAN /\ Probes \in Int
    BY LspAssumption
  <2>. QED BY <1>1, <2>1 DEF Start, Task, Steps, Questions, None
<1>3. TaskInv /\ SlotInv
  BY <1>2 DEF TaskInv, SlotInv, LspInit, NoSlot, None
<1>4. WireInv
  BY Piped DEF WireInv, LspInit, Process
<1>. QED BY <1>3, <1>4 DEF LspInv

LEMMA LspStep ==
  ASSUME LspInv, [LspNext]_lspVars
  PROVE  LspInv'
<1>1. CASE Client
  BY <1>1, OpenStep, WalkStep, DidOpenStep, RequestStep, SendStep, WaitStep DEF Client
<1>2. CASE Reader
  BY <1>2, ReadStep, ReplyStep, EndStep DEF Reader
<1>3. CASE Server
  BY <1>3, ServerStep
<1>4. CASE UNCHANGED lspVars
  BY <1>4 DEF lspVars, LspInv, TaskInv, SlotInv, WireInv
<1>. QED BY <1>1, <1>2, <1>3, <1>4 DEF LspNext

\* The inductive invariant: ids are the numbers of requests on both pipes, in
\* the server and at the awaited oneshot.
THEOREM LspInvariant == LspSpec => []LspInv
<1>1. LspInit => LspInv
  BY LspStarts
<1>2. LspInv /\ [LspNext]_lspVars => LspInv'
  BY LspStep
<1>. QED BY <1>1, <1>2, PTL DEF LspSpec

\* What a request receives is the answer to it, however many were given up
\* before it (LspClient::request, whose ids are never used again).
THEOREM AnswersBelong == LspSpec => []AnswersAreTheirOwn
<1>1. LspInv => AnswersAreTheirOwn
  BY DEF LspInv, SlotInv, AnswersAreTheirOwn
<1>. QED BY <1>1, LspInvariant, PTL

-----------------------------------------------------------------------------
(* LspSession: how much an extraction asks                                 *)

Files == Len(Docs)
PerSymbol == Tries + 3
PerFile == 1 + Symbols * PerSymbol
AllFiles == Files * PerFile
\* What is asked of the files after the d-th.
Behind(d) == (Files - d) * PerFile
\* What is asked about n symbols, and still about one after its k-th request.
About(n) == n * PerSymbol
Rest(k) == IF k = 1 THEN 3 ELSE IF k = 2 THEN 1 ELSE 0

\* The requests a task may still make, the one of its step included.
Ahead(t) ==
  CASE t.step = "initialize" -> 1 + 3 * Probes + AllFiles
    [] t.step = "initialized" -> 3 * Probes + AllFiles
    [] t.step = "ready" -> t.left + 2 * Probes + AllFiles
    [] t.step = "settle" -> t.left + Probes + AllFiles
    [] t.step = "preload" -> Probes + AllFiles
    [] t.step = "settled" -> t.left + AllFiles
    [] t.step = "symbols" -> Behind(t.doc) + PerFile
    [] t.step = "walk" -> Behind(t.doc) + About(t.listed) + Rest(t.about)
    [] t.step = "hover" -> Behind(t.doc) + About(t.listed) + Rest(t.about) + Tries - t.tries
    [] t.step = "prepare" -> Behind(t.doc) + About(t.listed) + Rest(t.about) + 2
    [] t.step \in {"outgoing", "implement"} -> Behind(t.doc) + About(t.listed) + Rest(t.about) + 1
    [] OTHER -> 0
Most == 1 + 3 * Probes + AllFiles

Bounded ==
  [step : Steps, io : {"do", "tell", "send", "wait"}, doc : 1 .. Files + 1, id : Nat, serial : Nat,
   left : 1 .. Probes, streak : 0 .. 1, tries : 0 .. Tries - 1, listed : 0 .. Symbols, about : 1 .. 3,
   opened : SUBSET (1 .. Files), preload : BOOLEAN]

\* A file is at hand until the extraction ends, and what it is told of is one
\* of the two steps that open files.
Sound(t) ==
  /\ t \in Bounded
  /\ t.step # "end" => t.doc <= Files
  /\ t.io = "tell" => t.step \in {"preload", "symbols"}
  /\ t.io \in {"send", "wait"} => t.step \in Steps \ {"initialized", "preload", "walk", "end"}

\* The request under way is counted already.
AskInv ==
  /\ Sound(task)
  /\ task.serial + Ahead(task) <= IF task.io \in {"send", "wait"} THEN Most + 1 ELSE Most

\* All numbers on the way are of requests, and neither pipe overflows.
NumberInv ==
  /\ pending \subseteq 1 .. task.serial
  /\ slot.asked <= task.serial
  /\ \A k \in DOMAIN toServer : toServer[k].serial <= task.serial
  /\ \A k \in DOMAIN fromServer : fromServer[k].serial <= task.serial
  /\ \A m \in server.work : m.serial <= task.serial
  /\ Len(toServer) <= Pipe /\ Len(fromServer) <= Pipe
  /\ reader \in {"reading", "replying", "ended"}

BoundInv == LspInv /\ AskInv /\ NumberInv

\* One file less is its requests less.
LEMMA Counting ==
  /\ Files \in Nat \ {0} /\ PerFile \in Nat \ {0} /\ Tries \in Nat \ {0} /\ Probes \in Nat \ {0}
  /\ Symbols \in Nat \ {0} /\ PerSymbol = Tries + 3 /\ AllFiles \in Nat
  /\ Behind(1) + PerFile = AllFiles
  /\ \A d \in 1 .. Files : Behind(d) \in Nat /\ (d < Files => Behind(d + 1) + PerFile = Behind(d))
  /\ About(Symbols) + 1 = PerFile
  /\ \A n \in 0 .. Symbols : About(n) \in Nat /\ (n > 0 => About(n - 1) + PerSymbol = About(n))
<1>1. /\ Files \in Nat \ {0} /\ Tries \in Nat \ {0} /\ PerSymbol = Tries + 3 /\ Probes \in Nat \ {0}
      /\ Symbols \in Nat \ {0}
  BY LspAssumption DEF Files, PerSymbol
<1> HIDE DEF Files, PerSymbol
<1>2. \A a, b \in Nat : a * b \in Nat
  OBVIOUS
<1>3. PerSymbol \in Nat /\ About(Symbols) + 1 = PerFile /\ PerFile \in Nat \ {0}
  <2>1. PerSymbol \in Nat
    BY <1>1
  <2>2. Symbols * PerSymbol \in Nat
    BY <1>1, <1>2, <2>1
  <2> DEFINE c == Symbols * PerSymbol
  <2>3. PerFile = 1 + c /\ About(Symbols) = c /\ c \in Nat
    BY <2>2 DEF PerFile, About
  <2> HIDE DEF c
  <2>. QED BY <2>1, <2>3
<1> HIDE DEF PerFile
<1>4. AllFiles \in Nat
  BY <1>1, <1>2, <1>3 DEF AllFiles
<1>5. Behind(1) + PerFile = AllFiles
  BY <1>1, <1>3 DEF Behind, AllFiles
<1>6. ASSUME NEW d \in 1 .. Files PROVE Behind(d) \in Nat /\ (d < Files => Behind(d + 1) + PerFile = Behind(d))
  <2>1. Files - d \in Nat
    BY <1>1
  <2>2. Behind(d) \in Nat
    BY <1>2, <1>3, <2>1 DEF Behind
  <2>3. (Files - (d + 1)) * PerFile + PerFile = (Files - d) * PerFile
    BY <1>1, <1>3
  <2>. QED BY <2>2, <2>3 DEF Behind
<1>7. ASSUME NEW n \in 0 .. Symbols PROVE About(n) \in Nat /\ (n > 0 => About(n - 1) + PerSymbol = About(n))
  <2>1. About(n) \in Nat
    BY <1>1, <1>2, <1>3 DEF About
  <2>2. (n - 1) * PerSymbol + PerSymbol = n * PerSymbol
    BY <1>1, <1>3
  <2>. QED BY <2>1, <2>2 DEF About
<1>. QED BY <1>1, <1>3, <1>4, <1>5, <1>6, <1>7

\* What is ahead is no less than nothing, and at a request no less than one.
LEMMA AheadCounts ==
  ASSUME NEW t, Sound(t)
  PROVE  /\ Ahead(t) \in Nat
         /\ t.step \in Steps \ {"initialized", "preload", "walk", "end"} => Ahead(t) > 0
<1>1. /\ t.left \in 1 .. Probes /\ t.tries \in 0 .. Tries - 1 /\ t.step \in Steps
      /\ t.step # "end" => t.doc \in 1 .. Files /\ Behind(t.doc) \in Nat
      /\ About(t.listed) \in Nat /\ Rest(t.about) \in Nat
  BY Counting DEF Sound, Bounded, Rest
<1>. QED BY <1>1, Counting DEF Ahead, Steps

\* What a task becomes once nothing is under way, with n requests ahead.
Fits(u, t, n) ==
  /\ u \in Bounded /\ u.io = "do" /\ u.serial = t.serial
  /\ u.step # "end" => u.doc <= Files
  /\ Ahead(u) <= n

\* What fits fits where there is more room.
LEMMA Loosened ==
  ASSUME NEW u, NEW t, NEW n \in Int, NEW m \in Int, Fits(u, t, n), n <= m
  PROVE  Fits(u, t, m)
<1>1. Sound(u)
  BY DEF Fits, Sound
<1>2. Ahead(u) \in Int
  BY <1>1, AheadCounts
<1>. QED BY <1>2 DEF Fits

\* What is asked of the file at hand, from the k-th request about a symbol on.
AtFile(t) == Behind(t.doc) + About(t.listed) + Rest(t.about)

LEMMA Moves ==
  ASSUME NEW t, Fits(t, t, Ahead(t)), t.step # "end"
  PROVE  /\ Fits([t EXCEPT !.step = "end"], t, 0)
         /\ Fits([t EXCEPT !.step = "initialized"], t, 3 * Probes + AllFiles)
         /\ Fits([t EXCEPT !.step = "walk"], t, AtFile(t))
         /\ Fits([t EXCEPT !.step = "outgoing"], t, AtFile(t) + 1)
         /\ Fits([t EXCEPT !.step = "walk", !.listed = Symbols, !.about = Len(Questions)], t,
                 Behind(t.doc) + PerFile - 1)
         /\ Fits(Probe(t, "ready"), t, 3 * Probes + AllFiles)
         /\ Fits(Probe(t, "settle"), t, 2 * Probes + AllFiles)
         /\ Fits(Probe(t, "settled"), t, Probes + AllFiles)
         /\ Fits(AllDocs(t), t, AllFiles)
         /\ Fits(Preload(t), t, Probes + AllFiles)
         /\ Fits(NextDoc(t), t, Behind(t.doc))
<1>1. /\ t \in Bounded /\ t.io = "do" /\ t.doc \in 1 .. Files /\ Behind(t.doc) \in Nat
      /\ t.doc < Files => t.doc + 1 \in 1 .. Files /\ Behind(t.doc + 1) + PerFile = Behind(t.doc)
      /\ About(t.listed) \in Nat /\ Rest(t.about) \in Nat
  BY Counting DEF Fits, Bounded, Rest
<1>2. /\ 1 \in 1 .. Probes /\ Probes \in 1 .. Probes /\ 0 \in 0 .. 1 /\ 0 \in 0 .. Tries - 1
      /\ 1 \in 1 .. Files /\ Files + 1 \in 1 .. Files + 1
      /\ 0 \in 0 .. Symbols /\ Symbols \in 0 .. Symbols /\ Len(Questions) = 3 /\ 3 \in 1 .. 3
  BY Counting DEF Questions
<1>3. ASSUME NEW step \in Steps
      PROVE  LET u == [t EXCEPT !.step = step]
             IN /\ u \in Bounded /\ u.io = "do" /\ u.serial = t.serial /\ u.doc = t.doc
                /\ u.step = step /\ u.listed = t.listed /\ u.about = t.about
  BY <1>1 DEF Bounded
<1>4. /\ Fits([t EXCEPT !.step = "end"], t, 0)
      /\ Fits([t EXCEPT !.step = "initialized"], t, 3 * Probes + AllFiles)
      /\ Fits([t EXCEPT !.step = "walk"], t, AtFile(t))
      /\ Fits([t EXCEPT !.step = "outgoing"], t, AtFile(t) + 1)
  <2>1. {"end", "initialized", "walk", "outgoing"} \subseteq Steps
    BY DEF Steps
  <2>2. Fits([t EXCEPT !.step = "end"], t, 0)
    BY <1>1, <1>3, <2>1 DEF Fits, Ahead
  <2>3. Fits([t EXCEPT !.step = "initialized"], t, 3 * Probes + AllFiles)
    BY <1>1, <1>3, <2>1, Counting DEF Fits, Ahead
  <2>4. Fits([t EXCEPT !.step = "walk"], t, AtFile(t))
    BY <1>1, <1>3, <2>1, Counting DEF Fits, Ahead, AtFile
  <2>5. Fits([t EXCEPT !.step = "outgoing"], t, AtFile(t) + 1)
    BY <1>1, <1>3, <2>1, Counting DEF Fits, Ahead, AtFile
  <2>. QED BY <2>2, <2>3, <2>4, <2>5
<1>5. Fits([t EXCEPT !.step = "walk", !.listed = Symbols, !.about = Len(Questions)], t, Behind(t.doc) + PerFile - 1)
  <2> DEFINE u == [t EXCEPT !.step = "walk", !.listed = Symbols, !.about = Len(Questions)]
  <2>1. /\ u \in Bounded /\ u.io = "do" /\ u.serial = t.serial /\ u.doc = t.doc
        /\ u.step = "walk" /\ u.listed = Symbols /\ u.about = 3
    BY <1>1, <1>2 DEF Bounded, Steps
  <2> HIDE DEF u
  <2>2. Ahead(u) = Behind(t.doc) + About(Symbols)
    BY <1>1, <2>1, Counting DEF Ahead, Rest
  <2>3. Fits(u, t, Behind(t.doc) + PerFile - 1)
    BY <1>1, <2>1, <2>2, Counting DEF Fits
  <2>. QED BY <2>3 DEF u
<1>6. ASSUME NEW step \in Steps
      PROVE  LET u == Probe(t, step)
             IN /\ u \in Bounded /\ u.io = "do" /\ u.serial = t.serial /\ u.doc = t.doc
                /\ u.step = step /\ u.left = Probes
  BY <1>1, <1>2 DEF Bounded, Probe
<1>7. /\ Fits(Probe(t, "ready"), t, 3 * Probes + AllFiles)
      /\ Fits(Probe(t, "settle"), t, 2 * Probes + AllFiles)
      /\ Fits(Probe(t, "settled"), t, Probes + AllFiles)
  <2>1. {"ready", "settle", "settled"} \subseteq Steps
    BY DEF Steps
  <2>2. ASSUME NEW step \in {"ready", "settle", "settled"}, NEW u, u = Probe(t, step)
        PROVE  Fits(u, t, IF step = "ready" THEN 3 * Probes + AllFiles
                          ELSE IF step = "settle" THEN 2 * Probes + AllFiles ELSE Probes + AllFiles)
    <3>1. /\ u \in Bounded /\ u.io = "do" /\ u.serial = t.serial /\ u.doc = t.doc
          /\ u.step = step /\ u.left = Probes
      BY <1>6, <2>1, <2>2
    <3>. QED BY <1>1, <3>1, Counting DEF Fits, Ahead
  <2>. QED BY <2>2
<1>8. ASSUME NEW step \in {"symbols", "preload"}, NEW u, u = [Probe(t, step) EXCEPT !.doc = 1]
      PROVE  Fits(u, t, IF step = "symbols" THEN AllFiles ELSE Probes + AllFiles)
  <2>1. step \in Steps /\ 1 \in 1 .. Files + 1
    BY <1>2, Counting DEF Steps
  <2>2. /\ u \in Bounded /\ u.io = "do" /\ u.serial = t.serial /\ u.doc = 1
        /\ u.step = step
    BY <1>6, <1>8, <2>1 DEF Bounded
  <2>. QED BY <1>1, <1>2, <2>2, Counting DEF Fits, Ahead
<1>9. Fits(AllDocs(t), t, AllFiles)
  BY <1>8 DEF AllDocs
<1>10. Fits(Preload(t), t, Probes + AllFiles)
  <2>1. CASE t.preload
    BY <1>8, <2>1 DEF Preload
  <2>2. CASE ~t.preload
    <3>1. Preload(t) = AllDocs(t) /\ AllFiles <= Probes + AllFiles
      BY <2>2, Counting DEF Preload
    <3>. QED BY <1>9, <3>1, Loosened, Counting
  <2>. QED BY <2>1, <2>2
<1>11. Fits(NextDoc(t), t, Behind(t.doc))
  <2> DEFINE step == IF t.doc = Len(Docs) THEN "end" ELSE "symbols"
             u == [t EXCEPT !.doc = @ + 1, !.io = "do", !.listed = 0, !.about = Len(Questions), !.tries = 0,
                            !.step = step]
  <2>1. step \in Steps /\ t.doc + 1 \in 1 .. Files + 1 /\ step = IF t.doc = Files THEN "end" ELSE "symbols"
    <3>1. Files = Len(Docs) /\ {"end", "symbols"} \subseteq Steps
      BY DEF Steps, Files
    <3>2. Files \in Nat /\ t.doc \in 1 .. Files
      BY <1>1, Counting
    <3>3. t.doc + 1 \in 1 .. Files + 1
      BY <3>2
    <3>. QED BY <3>1, <3>2, <3>3
  <2> HIDE DEF step
  <2>2. /\ u \in Bounded /\ u.io = "do" /\ u.serial = t.serial /\ u.doc = t.doc + 1 /\ u.step = step
    BY <1>1, <1>2, <2>1 DEF Bounded
  <2>3. u = NextDoc(t)
    BY DEF NextDoc, step
  <2> HIDE DEF u
  <2>4. Fits(u, t, Behind(t.doc))
    BY <1>1, <2>1, <2>2, Counting DEF Fits, Ahead
  <2>. QED BY <2>3, <2>4
<1>. QED BY <1>4, <1>5, <1>7, <1>9, <1>10, <1>11

\* A probe more, a hover more.
LEMMA Again ==
  ASSUME NEW t, Fits(t, t, Ahead(t)), t.step # "end"
  PROVE  /\ t.step = "ready" /\ t.left # 1 => Fits([t EXCEPT !.left = @ - 1], t, Ahead(t) - 1)
         /\ \A s \in {0, 1} : t.step \in {"settle", "settled"} /\ t.left # 1 =>
              Fits([t EXCEPT !.left = @ - 1, !.streak = s], t, Ahead(t) - 1)
         /\ t.step = "hover" /\ t.tries < Tries - 1 =>
              Fits([t EXCEPT !.tries = @ + 1], t, Ahead(t) - 1)
<1>1. /\ t \in Bounded /\ t.io = "do" /\ t.doc \in 1 .. Files /\ Behind(t.doc) \in Nat
      /\ t.left \in 1 .. Probes /\ t.tries \in 0 .. Tries - 1
  BY Counting DEF Fits, Bounded
<1>2. ASSUME t.left # 1, t.step = "ready", NEW u, u = [t EXCEPT !.left = @ - 1]
      PROVE  Fits(u, t, Ahead(t) - 1)
  <2>1. t.left - 1 \in 1 .. Probes
    BY <1>1, <1>2, Counting
  <2>2. u \in Bounded /\ u.io = "do" /\ u.serial = t.serial /\ u.doc = t.doc /\ u.step = t.step /\ u.left = t.left - 1
    BY <1>1, <1>2, <2>1 DEF Bounded
  <2>. QED BY <1>1, <1>2, <2>2, Counting DEF Fits, Ahead
<1>3. ASSUME t.left # 1, t.step \in {"settle", "settled"}, NEW s \in {0, 1},
             NEW u, u = [t EXCEPT !.left = @ - 1, !.streak = s]
      PROVE  Fits(u, t, Ahead(t) - 1)
  <2>1. t.left - 1 \in 1 .. Probes /\ s \in 0 .. 1
    BY <1>1, <1>3, Counting
  <2>2. u \in Bounded /\ u.io = "do" /\ u.serial = t.serial /\ u.doc = t.doc /\ u.step = t.step /\ u.left = t.left - 1
    BY <1>1, <1>3, <2>1 DEF Bounded
  <2>. QED BY <1>1, <1>3, <2>2, Counting DEF Fits, Ahead
<1>4. ASSUME t.step = "hover", t.tries < Tries - 1, NEW u, u = [t EXCEPT !.tries = @ + 1]
      PROVE  Fits(u, t, Ahead(t) - 1)
  <2>1. t.tries + 1 \in 0 .. Tries - 1
    BY <1>1, <1>4, Counting
  <2>2. /\ u \in Bounded /\ u.io = "do" /\ u.serial = t.serial /\ u.doc = t.doc /\ u.step = t.step
        /\ u.tries = t.tries + 1 /\ u.listed = t.listed /\ u.about = t.about
    BY <1>1, <1>4, <2>1 DEF Bounded
  <2>3. About(t.listed) \in Nat /\ Rest(t.about) \in Nat
    BY <1>1, Counting DEF Bounded, Rest
  <2>. QED BY <1>1, <1>4, <2>2, <2>3, Counting DEF Fits, Ahead
<1>. QED BY <1>2, <1>3, <1>4

\* Whatever the outcome of a request, there is one less ahead.
LEMMA ContinueCounts ==
  ASSUME Sound(task), task.step \in Steps \ {"initialized", "preload", "walk", "end"}, NEW outcome
  PROVE  Fits(Continue(outcome), task, Ahead(task) - 1)
<1> DEFINE t == [task EXCEPT !.io = "do", !.id = None]
           r == IF outcome = "null" /\ t.step \in {"ready", "settle", "settled"} THEN "ok" ELSE outcome
<1>1. /\ t \in Bounded /\ t.io = "do" /\ t.serial = task.serial /\ t.step = task.step /\ t.doc = task.doc
      /\ t.left = task.left /\ t.tries = task.tries /\ t.listed = task.listed /\ t.about = task.about
  BY DEF Sound, Bounded, None
<1>2. Continue(outcome) =
        CASE t.step = "initialize" -> [t EXCEPT !.step = IF r = "error" THEN "end" ELSE "initialized"]
          [] t.step = "ready" ->
               IF r = "ok" \/ t.left = 1 THEN Probe(t, "settle") ELSE [t EXCEPT !.left = @ - 1]
          [] t.step = "settle" -> Settles(t, r, Preload(t), [t EXCEPT !.step = "end"])
          [] t.step = "settled" -> Settles(t, r, AllDocs(t), AllDocs(t))
          [] t.step = "symbols" ->
               IF r = "ok" THEN [t EXCEPT !.step = "walk", !.listed = Symbols, !.about = Len(Questions)]
               ELSE NextDoc(t)
          [] t.step = "hover" ->
               IF r = "null" /\ t.tries < Tries - 1 THEN [t EXCEPT !.tries = @ + 1]
               ELSE [t EXCEPT !.step = "walk"]
          [] t.step = "prepare" -> [t EXCEPT !.step = IF r = "ok" THEN "outgoing" ELSE "walk"]
          [] t.step \in {"outgoing", "implement"} -> [t EXCEPT !.step = "walk"]
          [] OTHER -> t
  BY DEF Continue
<1> HIDE DEF t, r
<1>3. Ahead(t) = Ahead(task) /\ Ahead(task) \in Nat
  BY <1>1, AheadCounts DEF Ahead
<1>4. Fits(t, t, Ahead(t)) /\ t.step # "end"
  BY <1>1, <1>3 DEF Fits, Sound
<1>5. /\ t.left \in 1 .. Probes /\ t.tries \in 0 .. Tries - 1 /\ t.doc \in 1 .. Files /\ Behind(t.doc) \in Nat
      /\ t.streak \in 0 .. 1 /\ About(t.listed) \in Nat /\ Rest(t.about) \in Nat
  BY <1>1, <1>4, Counting DEF Bounded, Fits, Rest
<1>6. SUFFICES Fits(Continue(outcome), t, Ahead(t) - 1)
  BY <1>1, <1>3 DEF Fits
<1>7. ASSUME NEW u, NEW n \in Int, Fits(u, t, n), n <= Ahead(t) - 1
      PROVE  Fits(u, t, Ahead(t) - 1)
  BY <1>3, <1>7, Loosened
<1>8. /\ 3 * Probes + AllFiles \in Int /\ 2 * Probes + AllFiles \in Int /\ Probes + AllFiles \in Int
      /\ AllFiles \in Int /\ 0 \in Int /\ AtFile(t) \in Int /\ AtFile(t) + 1 \in Int
      /\ Behind(t.doc) \in Int /\ Behind(t.doc) + PerFile - 1 \in Int
  BY <1>5, Counting DEF AtFile
<1>9. CASE t.step = "initialize"
  <2>1. Ahead(t) - 1 = 3 * Probes + AllFiles /\ 0 <= Ahead(t) - 1
    BY <1>9, Counting DEF Ahead
  <2>2. Fits([t EXCEPT !.step = "end"], t, Ahead(t) - 1)
    BY <1>4, <1>7, <1>8, <2>1, Moves
  <2>3. Fits([t EXCEPT !.step = "initialized"], t, Ahead(t) - 1)
    BY <1>4, <1>7, <1>8, <2>1, Moves
  <2>. QED BY <1>2, <1>9, <2>2, <2>3
<1>10. CASE t.step = "ready"
  <2>1. 2 * Probes + AllFiles <= Ahead(t) - 1
    BY <1>5, <1>10, Counting DEF Ahead
  <2>2. Fits(Probe(t, "settle"), t, Ahead(t) - 1)
    BY <1>4, <1>7, <1>8, <2>1, Moves
  <2>3. t.left # 1 => Fits([t EXCEPT !.left = @ - 1], t, Ahead(t) - 1)
    BY <1>4, <1>10, Again
  <2>. QED BY <1>2, <1>10, <2>2, <2>3
<1>11. CASE t.step \in {"settle", "settled"}
  <2> DEFINE then == IF t.step = "settle" THEN Preload(t) ELSE AllDocs(t)
             failing == IF t.step = "settle" THEN [t EXCEPT !.step = "end"] ELSE AllDocs(t)
             on(s) == [t EXCEPT !.left = @ - 1, !.streak = s]
  <2>1. Continue(outcome) = Settles(t, r, then, failing)
    BY <1>2, <1>11
  <2>2. Continue(outcome) \in {then, failing} \/ (t.left # 1 /\ \E s \in {0, 1} : Continue(outcome) = on(s))
    BY <1>5, <2>1 DEF Settles
  <2>3. /\ AllFiles <= Ahead(t) - 1 /\ 0 <= Ahead(t) - 1
        /\ t.step = "settle" => Probes + AllFiles <= Ahead(t) - 1
    <3>1. Ahead(t) = IF t.step = "settle" THEN t.left + Probes + AllFiles ELSE t.left + AllFiles
      BY <1>11 DEF Ahead
    <3>. QED BY <1>5, <3>1, Counting
  <2>4. Fits(AllDocs(t), t, Ahead(t) - 1) /\ Fits([t EXCEPT !.step = "end"], t, Ahead(t) - 1)
    BY <1>4, <1>7, <1>8, <2>3, Moves
  <2>5. t.step = "settle" => Fits(Preload(t), t, Ahead(t) - 1)
    BY <1>4, <1>7, <1>8, <2>3, Moves
  <2>6. \A s \in {0, 1} : t.left # 1 => Fits(on(s), t, Ahead(t) - 1)
    BY <1>4, <1>11, Again
  <2>7. Fits(then, t, Ahead(t) - 1) /\ Fits(failing, t, Ahead(t) - 1)
    BY <2>4, <2>5
  <2> HIDE DEF then, failing, on
  <2>. QED BY <2>2, <2>6, <2>7
<1>12. CASE t.step = "symbols"
  <2>1. Behind(t.doc) <= Ahead(t) - 1 /\ Behind(t.doc) + PerFile - 1 <= Ahead(t) - 1
    BY <1>5, <1>12, Counting DEF Ahead
  <2>2. Fits(NextDoc(t), t, Ahead(t) - 1)
    BY <1>4, <1>7, <1>8, <2>1, Moves
  <2>3. Fits([t EXCEPT !.step = "walk", !.listed = Symbols, !.about = Len(Questions)], t, Ahead(t) - 1)
    BY <1>4, <1>7, <1>8, <2>1, Moves
  <2>. QED BY <1>2, <1>12, <2>2, <2>3
<1>13. CASE t.step \in {"hover", "prepare", "outgoing", "implement"}
  <2>1. /\ AtFile(t) <= Ahead(t) - 1
        /\ t.step = "prepare" => AtFile(t) + 1 <= Ahead(t) - 1
    BY <1>5, <1>13, Counting DEF Ahead, AtFile
  <2>2. Fits([t EXCEPT !.step = "walk"], t, Ahead(t) - 1)
    BY <1>4, <1>7, <1>8, <2>1, Moves
  <2>3. t.step = "prepare" => Fits([t EXCEPT !.step = "outgoing"], t, Ahead(t) - 1)
    BY <1>4, <1>7, <1>8, <2>1, Moves
  <2>4. t.step = "hover" /\ t.tries < Tries - 1 => Fits([t EXCEPT !.tries = @ + 1], t, Ahead(t) - 1)
    BY <1>4, Again
  <2>5. Continue(outcome) =
          IF t.step = "hover" /\ r = "null" /\ t.tries < Tries - 1 THEN [t EXCEPT !.tries = @ + 1]
          ELSE IF t.step = "prepare" /\ r = "ok" THEN [t EXCEPT !.step = "outgoing"]
          ELSE [t EXCEPT !.step = "walk"]
    BY <1>2, <1>13
  <2>. QED BY <2>2, <2>3, <2>4, <2>5
<1>14. t.step \in {"initialize", "ready", "settle", "settled", "symbols", "hover", "prepare", "outgoing", "implement"}
  BY <1>1 DEF Steps
<1>. QED BY <1>9, <1>10, <1>11, <1>12, <1>13, <1>14

-----------------------------------------------------------------------------
(* LspSession: the steps once more                                         *)

\* Over a step that leaves no request under way.
LEMMA AskFits ==
  ASSUME AskInv,
         \/ task.io \in {"do", "tell"} /\ Fits(task', task, Ahead(task))
         \/ task.io \in {"send", "wait"} /\ Fits(task', task, Ahead(task) - 1)
  PROVE  AskInv' /\ task'.serial = task.serial
<1>1. task.serial \in Nat /\ Ahead(task) \in Nat /\ Most \in Nat
  BY AheadCounts, Counting DEF AskInv, Sound, Bounded, Most
<1>2. task' \in Bounded /\ task'.io = "do" /\ task'.serial = task.serial /\ (task'.step # "end" => task'.doc <= Files)
  BY DEF Fits
<1>3. Sound(task')
  BY <1>2 DEF Sound
<1>4. Ahead(task') \in Nat
  BY <1>3, AheadCounts
<1>5. task'.serial + Ahead(task') <= Most
  BY <1>1, <1>2, <1>4 DEF AskInv, Fits
<1>. QED BY <1>2, <1>3, <1>5 DEF AskInv

\* The next of the files to open, or what follows them.
LEMMA NextFile ==
  ASSUME NEW t, Fits(t, t, Ahead(t)), t.step \in {"symbols", "preload"},
         NEW u, u = IF t.step = "symbols" THEN NextDoc(t)
                    ELSE IF t.doc = Len(Docs) THEN Probe(t, "settled") ELSE [t EXCEPT !.doc = @ + 1]
  PROVE  Fits(u, t, Ahead(t))
<1>1. t \in Bounded /\ t.io = "do" /\ t.doc \in 1 .. Files /\ Behind(t.doc) \in Nat
  <2>1. t \in Bounded /\ t.io = "do" /\ t.doc <= Files
    BY DEF Fits
  <2>2. t.doc \in 1 .. Files
    BY <2>1, Counting DEF Bounded
  <2>. QED BY <2>1, <2>2, Counting
<1>2. CASE t.step = "symbols"
  <2>1. Ahead(t) = Behind(t.doc) + PerFile
    BY <1>2 DEF Ahead
  <2>2. Fits(NextDoc(t), t, Behind(t.doc)) /\ u = NextDoc(t)
    BY <1>2, Moves
  <2>3. Behind(t.doc) \in Int /\ Ahead(t) \in Int /\ Behind(t.doc) <= Ahead(t)
    BY <1>1, <2>1, Counting
  <2>. QED BY <2>2, <2>3, Loosened
<1>3. CASE t.step = "preload"
  <2>1. Ahead(t) = Probes + AllFiles
    BY <1>3 DEF Ahead
  <2>2. CASE t.doc = Files
    BY <1>3, <2>1, <2>2, Moves DEF Files
  <2>3. CASE t.doc # Files
    <3>1. t.doc + 1 \in 1 .. Files + 1 /\ t.doc + 1 <= Files /\ u = [t EXCEPT !.doc = @ + 1]
      BY <1>1, <1>3, <2>3, Counting DEF Files
    <3>2. u \in Bounded /\ u.io = "do" /\ u.serial = t.serial /\ u.doc = t.doc + 1 /\ u.step = "preload"
      BY <1>1, <1>3, <3>1 DEF Bounded
    <3>3. Ahead(u) = Ahead(t)
      BY <1>3, <3>2 DEF Ahead
    <3>. QED BY <2>1, <3>1, <3>2, <3>3, Counting DEF Fits
  <2>. QED BY <2>2, <2>3
<1>. QED BY <1>2, <1>3

\* A task that only learns what is open.
LEMMA OpenedFits ==
  ASSUME AskInv, NEW o \in SUBSET (1 .. Files), NEW io \in {"do", "tell"}, task.io \in {"do", "tell"},
         io = "tell" => task.step \in {"preload", "symbols"},
         NEW t, t = [task EXCEPT !.opened = o, !.io = io]
  PROVE  /\ Sound(t) /\ t.serial = task.serial /\ Ahead(t) = Ahead(task) /\ t.step = task.step
         /\ t.doc = task.doc /\ t.io = io
         /\ io = "do" => Fits(t, t, Ahead(t))
<1>1. task \in Bounded /\ (task.step # "end" => task.doc <= Files)
  BY DEF AskInv, Sound
<1>2. /\ t \in Bounded /\ t.serial = task.serial /\ t.step = task.step /\ t.doc = task.doc /\ t.io = io
      /\ t.left = task.left /\ t.tries = task.tries /\ t.listed = task.listed /\ t.about = task.about
  BY <1>1 DEF Bounded
<1>3. Sound(t)
  BY <1>1, <1>2 DEF Sound
<1>4. Ahead(t) = Ahead(task)
  BY <1>2 DEF Ahead
<1>5. Ahead(t) \in Nat
  BY <1>3, AheadCounts
<1>. QED BY <1>1, <1>2, <1>3, <1>4, <1>5 DEF Fits

\* The files of a step are opened within the unit.
LEMMA OpenAsks ==
  ASSUME AskInv, OpenFile \/ DidOpen \/ Preloaded
  PROVE  AskInv' /\ task'.serial = task.serial
<1>1. /\ task.step \in {"preload", "symbols"} /\ task.io \in {"do", "tell"}
      /\ task.doc \in 1 .. Files /\ task.opened \in SUBSET (1 .. Files) /\ task \in Bounded
  <2>1. Sound(task) /\ task \in Bounded
    BY DEF AskInv, Sound
  <2>2. task.step \in {"preload", "symbols"} /\ task.io \in {"do", "tell"}
    BY <2>1 DEF Sound, OpenFile, DidOpen, Preloaded, Opens
  <2>3. task.doc \in 1 .. Files + 1 /\ task.doc <= Files /\ task.opened \in SUBSET (1 .. Files)
    BY <2>1, <2>2 DEF Sound, Bounded
  <2>. QED BY <2>1, <2>2, <2>3, Counting
<1>2. Most \in Nat /\ Ahead(task) \in Nat /\ task.serial + Ahead(task) <= Most
  BY <1>1, AheadCounts, Counting DEF AskInv, Most
<1>3. ASSUME NEW o \in SUBSET (1 .. Files), NEW io \in {"do", "tell"}, task' = [task EXCEPT !.opened = o, !.io = io]
      PROVE  AskInv' /\ task'.serial = task.serial
  <2>1. Sound(task') /\ task'.serial = task.serial /\ Ahead(task') = Ahead(task) /\ task'.io = io
    BY <1>1, <1>3, OpenedFits
  <2>. QED BY <1>2, <2>1 DEF AskInv
<1>4. ASSUME NEW o \in SUBSET (1 .. Files),
             \E t : /\ t = [task EXCEPT !.opened = o, !.io = "do"]
                    /\ task' = IF task.step = "symbols" THEN NextDoc(t)
                               ELSE IF task.doc = Len(Docs) THEN Probe(t, "settled") ELSE [t EXCEPT !.doc = @ + 1]
      PROVE  AskInv' /\ task'.serial = task.serial
  <2>0. PICK t : /\ t = [task EXCEPT !.opened = o, !.io = "do"]
                 /\ task' = IF task.step = "symbols" THEN NextDoc(t)
                            ELSE IF task.doc = Len(Docs) THEN Probe(t, "settled") ELSE [t EXCEPT !.doc = @ + 1]
    BY <1>4
  <2>1. /\ t.serial = task.serial /\ Ahead(t) = Ahead(task) /\ t.step = task.step /\ t.doc = task.doc
        /\ Fits(t, t, Ahead(t))
    BY <1>1, <2>0, OpenedFits
  <2>2. Fits(task', t, Ahead(t))
    BY <1>1, <2>0, <2>1, NextFile
  <2>3. Fits(task', task, Ahead(task))
    BY <2>1, <2>2 DEF Fits
  <2>. QED BY <1>1, <2>3, AskFits
<1>5. CASE OpenFile
  <2>1. /\ task = [task EXCEPT !.io = "do"] /\ task.io = "do"
        /\ task.opened \cup {task.doc} \in SUBSET (1 .. Files)
    BY <1>1, <1>5 DEF OpenFile, Bounded
  <2>2. CASE task' = [task EXCEPT !.io = "tell", !.opened = @ \cup {task.doc}]
    <3>1. task' = [task EXCEPT !.opened = task.opened \cup {task.doc}, !.io = "tell"]
      BY <1>1, <2>2 DEF Bounded
    <3>. QED BY <1>3, <2>1, <3>1
  <2>3. CASE task' # [task EXCEPT !.io = "tell", !.opened = @ \cup {task.doc}]
    <3>1. PICK there \in BOOLEAN :
            LET t == [task EXCEPT !.opened = IF there THEN @ \cup {task.doc} ELSE @]
            IN task' = IF task.step = "symbols" THEN NextDoc(t)
                       ELSE IF task.doc = Len(Docs) THEN Probe(t, "settled") ELSE [t EXCEPT !.doc = @ + 1]
      BY <1>5, <2>3 DEF OpenFile
    <3> DEFINE o == IF there THEN task.opened \cup {task.doc} ELSE task.opened
               t == [task EXCEPT !.opened = o]
    <3>2. task' = IF task.step = "symbols" THEN NextDoc(t)
                  ELSE IF task.doc = Len(Docs) THEN Probe(t, "settled") ELSE [t EXCEPT !.doc = @ + 1]
      BY <3>1
    <3>3. o \in SUBSET (1 .. Files)
      BY <1>1, <2>1
    <3> HIDE DEF o
    <3>4. t = [task EXCEPT !.opened = o, !.io = "do"]
      BY <1>1, <2>1 DEF Bounded
    <3> HIDE DEF t
    <3>5. \E x : /\ x = [task EXCEPT !.opened = o, !.io = "do"]
                 /\ task' = IF task.step = "symbols" THEN NextDoc(x)
                            ELSE IF task.doc = Len(Docs) THEN Probe(x, "settled") ELSE [x EXCEPT !.doc = @ + 1]
      BY <3>2, <3>4
    <3>. QED BY <1>4, <3>3, <3>5
  <2>. QED BY <2>2, <2>3
<1>6. CASE DidOpen
  <2>1. task.opened \ {task.doc} \in SUBSET (1 .. Files)
    BY <1>1
  <2>2. CASE task' = [task EXCEPT !.io = "do"]
    <3>1. task' = [task EXCEPT !.opened = task.opened, !.io = "do"]
      BY <1>1, <2>2 DEF Bounded
    <3>. QED BY <1>1, <1>3, <3>1
  <2>3. CASE task' # [task EXCEPT !.io = "do"]
    <3> DEFINE t == [task EXCEPT !.opened = @ \ {task.doc}, !.io = "do"]
    <3>1. task' = IF task.step = "symbols" THEN NextDoc(t)
                  ELSE IF task.doc = Len(Docs) THEN Probe(t, "settled") ELSE [t EXCEPT !.doc = @ + 1]
      BY <1>6, <2>3 DEF DidOpen
    <3>2. t = [task EXCEPT !.opened = task.opened \ {task.doc}, !.io = "do"]
      OBVIOUS
    <3> HIDE DEF t
    <3> DEFINE o == task.opened \ {task.doc}
    <3>3. \E x : /\ x = [task EXCEPT !.opened = o, !.io = "do"]
                 /\ task' = IF task.step = "symbols" THEN NextDoc(x)
                            ELSE IF task.doc = Len(Docs) THEN Probe(x, "settled") ELSE [x EXCEPT !.doc = @ + 1]
      BY <3>1, <3>2
    <3>4. o \in SUBSET (1 .. Files)
      BY <2>1
    <3> HIDE DEF o
    <3>. QED BY <1>4, <3>3, <3>4
  <2>. QED BY <2>2, <2>3
<1>7. CASE Preloaded
  <2>1. /\ task = [task EXCEPT !.opened = task.opened, !.io = "do"] /\ task.step = "preload"
    BY <1>1, <1>7 DEF Preloaded, Bounded
  <2>2. task' = IF task.step = "symbols" THEN NextDoc(task)
                ELSE IF task.doc = Len(Docs) THEN Probe(task, "settled") ELSE [task EXCEPT !.doc = @ + 1]
    BY <1>7, <2>1 DEF Preloaded
  <2>3. PICK o \in SUBSET (1 .. Files) : o = task.opened
    BY <1>1
  <2>. QED BY <1>4, <2>1, <2>2, <2>3
<1>. QED BY <1>5, <1>6, <1>7

\* A walk takes its next request out of what was counted for the file.
LEMMA WalkAsks ==
  ASSUME AskInv, Walk
  PROVE  AskInv' /\ task'.serial = task.serial
<1>1. task.io = "do" /\ task.step = "walk" /\ Sound(task) /\ task \in Bounded
  BY DEF AskInv, Walk, Sound
<1>2. Ahead(task) \in Nat /\ Ahead(task) = AtFile(task)
  BY <1>1, AheadCounts DEF Ahead, AtFile
<1>3. Fits(task, task, Ahead(task))
  BY <1>1, <1>2 DEF Fits, Sound
<1>4. /\ task.doc \in 1 .. Files /\ Behind(task.doc) \in Nat /\ task.listed \in 0 .. Symbols
      /\ About(task.listed) \in Nat /\ task.about \in 1 .. 3
  BY <1>1, Counting DEF Sound, Bounded
<1>5. Fits(task', task, Ahead(task))
  <2>1. CASE task' = NextDoc(task)
    <3>1. Fits(task', task, Behind(task.doc))
      BY <1>1, <1>3, <2>1, Moves
    <3>2. Behind(task.doc) \in Int /\ Ahead(task) \in Int /\ Behind(task.doc) <= Ahead(task)
      BY <1>2, <1>4 DEF AtFile, Rest
    <3>. QED BY <3>1, <3>2, Loosened
  <2>2. CASE task' # NextDoc(task)
    <3>1. PICK k \in DOMAIN Questions, on \in {0, 1} :
            /\ on = 0 => k > task.about
            /\ on <= task.listed
            /\ task' = [task EXCEPT !.step = Questions[k], !.about = k, !.tries = 0, !.listed = @ - on]
      BY <2>2 DEF Walk
    <3>2. /\ k \in 1 .. 3 /\ Questions[k] = (IF k = 1 THEN "hover" ELSE IF k = 2 THEN "prepare" ELSE "implement")
          /\ Questions[k] \in Steps
      BY DEF Questions, Steps
    <3>3. task.listed - on \in 0 .. Symbols /\ 0 \in 0 .. Tries - 1
      BY <1>4, <3>1, Counting
    <3>4. /\ task' \in Bounded /\ task'.io = "do" /\ task'.serial = task.serial /\ task'.doc = task.doc
          /\ task'.step = Questions[k] /\ task'.about = k /\ task'.tries = 0 /\ task'.listed = task.listed - on
      BY <1>1, <3>1, <3>2, <3>3 DEF Bounded
    <3>5. Ahead(task') = Behind(task.doc) + About(task.listed - on) + (IF k = 1 THEN 3 + Tries ELSE IF k = 2 THEN 3 ELSE 1)
      BY <1>4, <3>2, <3>3, <3>4, Counting DEF Ahead, Rest
    <3>6. About(task.listed - on) \in Nat /\ (on = 1 => About(task.listed - on) + Tries + 3 = About(task.listed))
      BY <1>4, <3>1, <3>3, Counting
    <3>7. Ahead(task') <= Ahead(task)
      <4>1. CASE on = 1
        BY <1>2, <1>4, <3>2, <3>5, <3>6, <4>1, Counting DEF AtFile, Rest
      <4>2. CASE on = 0
        BY <1>2, <1>4, <3>1, <3>2, <3>5, <4>2 DEF AtFile, Rest
      <4>. QED BY <4>1, <4>2
    <3>. QED BY <1>4, <3>4, <3>7 DEF Fits
  <2>. QED BY <2>1, <2>2
<1>. QED BY <1>1, <1>5, AskFits

LEMMA TellAsks ==
  ASSUME AskInv, Initialized
  PROVE  AskInv' /\ task'.serial = task.serial
<1>1. task.io = "do" /\ task.step = "initialized" /\ Sound(task)
  BY DEF AskInv, Initialized
<1>2. Ahead(task) \in Nat /\ Ahead(task) = 3 * Probes + AllFiles
  BY <1>1, AheadCounts DEF Ahead
<1>3. Fits(task, task, Ahead(task))
  BY <1>1, <1>2 DEF Fits, Sound
<1>4. Fits(task', task, Ahead(task))
  <2>1. task' \in {Probe(task, "ready"), [task EXCEPT !.step = "end"]}
    BY DEF Initialized
  <2>2. Fits([task EXCEPT !.step = "end"], task, Ahead(task))
    <3>1. Fits([task EXCEPT !.step = "end"], task, 0)
      BY <1>1, <1>3, Moves
    <3>2. 0 \in Int /\ Ahead(task) \in Int /\ 0 <= Ahead(task)
      BY <1>2
    <3>. QED BY <3>1, <3>2, Loosened
  <2>. QED BY <1>1, <1>2, <1>3, <2>1, <2>2, Moves
<1>. QED BY <1>1, <1>4, AskFits

\* A request is counted when it is taken, and over when its outcome is in.
LEMMA WaitAsks ==
  ASSUME AskInv
  PROVE  /\ Request => AskInv' /\ task'.serial = task.serial + 1
         /\ Send \/ Receive \/ Timeout => AskInv' /\ task'.serial = task.serial
<1>1. Sound(task) /\ task \in Bounded /\ task.serial \in Nat /\ Ahead(task) \in Nat /\ Most \in Nat
  BY AheadCounts, Counting DEF AskInv, Sound, Bounded, Most
<1>2. ASSUME Request PROVE AskInv' /\ task'.serial = task.serial + 1
  <2>1. /\ task.io = "do" /\ task.step \in Steps \ {"initialized", "preload", "walk", "end"}
        /\ task' = [task EXCEPT !.io = "send", !.id = NextId, !.serial = NextId]
        /\ NextId \in Nat /\ NextId = task.serial + 1
    BY <1>1, <1>2 DEF Request, AsksNow, NextId
  <2>2. /\ task' \in Bounded /\ task'.io = "send" /\ task'.serial = task.serial + 1 /\ task'.step = task.step
        /\ task'.doc = task.doc /\ task'.left = task.left /\ task'.tries = task.tries
        /\ task'.listed = task.listed /\ task'.about = task.about
    BY <1>1, <2>1 DEF Bounded
  <2>3. Ahead(task') = Ahead(task)
    BY <2>2 DEF Ahead
  <2>4. Sound(task')
    BY <1>1, <2>1, <2>2 DEF Sound
  <2>. QED BY <1>1, <2>1, <2>2, <2>3, <2>4 DEF AskInv
<1>3. ASSUME Send \/ Receive \/ Timeout PROVE AskInv' /\ task'.serial = task.serial
  <2>1. task.io \in {"send", "wait"} /\ task.step \in Steps \ {"initialized", "preload", "walk", "end"}
    BY <1>1, <1>3 DEF Send, Receive, Timeout, Sound
  <2>2. CASE task' = [task EXCEPT !.io = "wait"]
    <3>1. /\ task' \in Bounded /\ task'.io = "wait" /\ task'.serial = task.serial /\ task'.step = task.step
          /\ task'.doc = task.doc /\ task'.left = task.left /\ task'.tries = task.tries
          /\ task'.listed = task.listed /\ task'.about = task.about
      BY <1>1, <2>2 DEF Bounded
    <3>2. Ahead(task') = Ahead(task)
      BY <3>1 DEF Ahead
    <3>3. Sound(task')
      BY <1>1, <2>1, <3>1 DEF Sound
    <3>. QED BY <1>1, <2>1, <3>1, <3>2, <3>3 DEF AskInv
  <2>3. CASE \E outcome : task' = Continue(outcome)
    <3>1. Fits(task', task, Ahead(task) - 1)
      BY <1>1, <2>1, <2>3, ContinueCounts
    <3>. QED BY <2>1, <3>1, AskFits
  <2>. QED BY <1>3, <2>2, <2>3 DEF Send, Receive, Timeout
<1>. QED BY <1>2, <1>3

\* A pipe with a message more or less.
UpTo(s, n) == \A k \in DOMAIN s : s[k].serial <= n

LEMMA Pumped ==
  ASSUME NEW S, NEW s \in Seq(S), NEW n, UpTo(s, n), Len(s) <= Pipe
  PROVE  /\ \A m \in S : m.serial <= n /\ Len(s) < Pipe => UpTo(Append(s, m), n) /\ Len(Append(s, m)) <= Pipe
         /\ s # <<>> => Head(s).serial <= n /\ UpTo(Tail(s), n) /\ Len(Tail(s)) <= Pipe
         /\ UpTo(<<>>, n) /\ Len(<<>>) <= Pipe
<1>. USE LspAssumption
<1>1. ASSUME NEW m \in S, m.serial <= n, Len(s) < Pipe
      PROVE  UpTo(Append(s, m), n) /\ Len(Append(s, m)) <= Pipe
  <2>1. \A k \in DOMAIN Append(s, m) : Append(s, m)[k] = m \/ (k \in DOMAIN s /\ Append(s, m)[k] = s[k])
    OBVIOUS
  <2>2. Len(Append(s, m)) = Len(s) + 1 /\ Len(s) \in Nat
    OBVIOUS
  <2>. QED BY <1>1, <2>1, <2>2 DEF UpTo
<1>2. ASSUME s # <<>> PROVE Head(s).serial <= n /\ UpTo(Tail(s), n) /\ Len(Tail(s)) <= Pipe
  <2>1. /\ Head(s) = s[1] /\ 1 \in DOMAIN s /\ Len(Tail(s)) = Len(s) - 1 /\ Len(s) \in Nat
        /\ \A k \in DOMAIN Tail(s) : k + 1 \in DOMAIN s /\ Tail(s)[k] = s[k + 1]
    BY <1>2
  <2>. QED BY <2>1 DEF UpTo
<1>3. UpTo(<<>>, n) /\ Len(<<>>) <= Pipe
  BY DEF UpTo
<1>. QED BY <1>1, <1>2, <1>3

LEMMA NumberFacts ==
  ASSUME BoundInv
  PROVE  /\ task.serial \in Nat /\ slot.asked \in Nat /\ toServer \in Seq(ToServer) /\ fromServer \in Seq(FromServer)
         /\ UpTo(toServer, task.serial) /\ UpTo(fromServer, task.serial)
         /\ Len(toServer) <= Pipe /\ Len(fromServer) <= Pipe
         /\ server \in Process(ToServer) /\ \A m \in server.work : m \in ToServer /\ m.serial <= task.serial
BY DEF BoundInv, LspInv, TaskInv, Task, SlotInv, WireInv, NumberInv, UpTo, Process

\* A step that writes to the server at most.
LEMMA QuietNumbers ==
  ASSUME BoundInv, task'.serial = task.serial, pending' \subseteq pending, slot' \in {slot, NoSlot},
         UNCHANGED <<fromServer, server>>, reader' \in {"reading", "replying", "ended"},
         \/ toServer' = toServer
         \/ \E m \in ToServer : Writes(m) /\ m.serial <= task.serial
  PROVE  NumberInv'
<1>1. UpTo(toServer', task.serial) /\ Len(toServer') <= Pipe
  BY NumberFacts, Pumped DEF Writes
<1>2. slot'.asked <= task.serial
  BY NumberFacts DEF BoundInv, NumberInv, NoSlot, None
<1>. QED BY <1>1, <1>2 DEF BoundInv, NumberInv, UpTo

LEMMA ToldIsSmall ==
  ASSUME BoundInv
  PROVE  /\ \A kind \in {"didOpen", "initialized", "reply"} : Told(kind) \in ToServer /\ Told(kind).serial <= task.serial
         /\ task.io = "send" => Asked \in ToServer /\ Asked.serial <= task.serial
<1>1. \A kind \in {"didOpen", "initialized", "reply"} : Told(kind) \in ToServer /\ Told(kind).serial <= task.serial
  BY NumberFacts DEF Told, ToServer, None
<1>2. ASSUME task.io = "send" PROVE Asked \in ToServer /\ Asked.serial <= task.serial
  <2>1. task.id = task.serial /\ task.serial \in Nat
    BY <1>2, NumberFacts DEF BoundInv, LspInv, TaskInv
  <2>. QED BY <2>1 DEF Asked, ToServer, Own
<1>. QED BY <1>1, <1>2

LEMMA ClientNumbers ==
  ASSUME BoundInv, Client
  PROVE  AskInv' /\ NumberInv'
<1>. USE ToldIsSmall
<1>0. reader \in {"reading", "replying", "ended"}
  BY DEF BoundInv, NumberInv
<1>1. CASE OpenFile \/ Preloaded
  <2>1. AskInv' /\ task'.serial = task.serial
    BY <1>1, OpenAsks DEF BoundInv
  <2>. QED BY <1>0, <1>1, <2>1, QuietNumbers DEF OpenFile, Preloaded
<1>2. CASE DidOpen
  <2>1. AskInv' /\ task'.serial = task.serial
    BY <1>2, OpenAsks DEF BoundInv
  <2>. QED BY <1>0, <1>2, <2>1, QuietNumbers DEF DidOpen
<1>3. CASE Initialized
  <2>1. AskInv' /\ task'.serial = task.serial
    BY <1>3, TellAsks DEF BoundInv
  <2>. QED BY <1>0, <1>3, <2>1, QuietNumbers DEF Initialized
<1>4. CASE Send
  <2>1. AskInv' /\ task'.serial = task.serial
    BY <1>4, WaitAsks DEF BoundInv
  <2>. QED BY <1>0, <1>4, <2>1, QuietNumbers DEF Send
<1>5. CASE Receive \/ Timeout
  <2>1. AskInv' /\ task'.serial = task.serial
    BY <1>5, WaitAsks DEF BoundInv
  <2>. QED BY <1>0, <1>5, <2>1, QuietNumbers DEF Receive, Timeout
<1>6. CASE Request
  <2>1. AskInv' /\ task'.serial = task.serial + 1
    BY <1>6, WaitAsks DEF BoundInv
  <2>2. /\ pending' = pending \cup {task.serial + 1} /\ slot' = NoSlot
        /\ UNCHANGED <<toServer, fromServer, reader, server>>
    BY <1>6 DEF Request, NextId
  <2>3. pending' \subseteq 1 .. task'.serial
    <3>1. PICK n \in Nat : n = task.serial
      BY NumberFacts
    <3>2. pending \subseteq 1 .. n /\ task'.serial = n + 1
      BY <2>1, <3>1 DEF BoundInv, NumberInv
    <3>3. pending' = pending \cup {n + 1}
      BY <2>2, <3>1
    <3>4. pending' \subseteq 1 .. (n + 1)
      <4>1. n + 1 \in 1 .. (n + 1) /\ \A x \in 1 .. n : x \in 1 .. (n + 1)
        OBVIOUS
      <4>. QED BY <3>2, <3>3, <4>1
    <3>. QED BY <3>2, <3>4
  <2>4. /\ \A k \in DOMAIN toServer : toServer[k] \in ToServer /\ toServer[k].serial \in Nat
        /\ \A k \in DOMAIN fromServer : fromServer[k] \in FromServer /\ fromServer[k].serial \in Nat
        /\ \A m \in server.work : m.serial \in Nat
    BY NumberFacts DEF ToServer, FromServer
  <2>5. /\ \A k \in DOMAIN toServer : toServer[k].serial <= task'.serial
        /\ \A k \in DOMAIN fromServer : fromServer[k].serial <= task'.serial
        /\ \A m \in server.work : m.serial <= task'.serial
    BY <2>1, <2>4, NumberFacts DEF UpTo
  <2>6. slot'.asked <= task'.serial
    BY <2>1, <2>2, NumberFacts DEF NoSlot, None
  <2>. QED BY <2>1, <2>2, <2>3, <2>5, <2>6 DEF BoundInv, NumberInv
<1>7. CASE Walk
  <2>1. AskInv' /\ task'.serial = task.serial
    BY <1>7, WalkAsks DEF BoundInv
  <2>. QED BY <1>0, <1>7, <2>1, QuietNumbers DEF Walk
<1>. QED BY <1>1, <1>2, <1>3, <1>4, <1>5, <1>6, <1>7 DEF Client

LEMMA ReaderNumbers ==
  ASSUME BoundInv, Reader
  PROVE  AskInv' /\ NumberInv'
<1>1. task' = task
  BY DEF Reader, Read, AutoReply, EndOfStream
<1>2. AskInv'
  BY <1>1 DEF BoundInv, AskInv
<1>3. CASE Read
  <2> DEFINE m == Head(fromServer)
  <2>1. /\ m.serial <= task.serial /\ UpTo(fromServer', task.serial) /\ Len(fromServer') <= Pipe
    BY <1>3, NumberFacts, Pumped DEF Read
  <2>2. /\ UNCHANGED <<toServer, server>> /\ reader' \in {"reading", "replying", "ended"}
        /\ pending' \subseteq pending
        /\ slot' = slot \/ slot' = [is |-> m.is, asked |-> m.serial]
    BY <1>3 DEF Read, Deliver
  <2> HIDE DEF m
  <2>3. slot'.asked <= task.serial
    BY <2>1, <2>2 DEF BoundInv, NumberInv
  <2>. QED BY <1>1, <1>2, <2>1, <2>2, <2>3 DEF BoundInv, NumberInv, UpTo
<1>4. CASE AutoReply
  <2>1. /\ UNCHANGED <<pending, slot, fromServer, server>> /\ reader' = "reading"
        /\ Writes(Told("reply")) \/ toServer' = toServer
    BY <1>4 DEF AutoReply
  <2>2. Told("reply") \in ToServer /\ Told("reply").serial <= task.serial
    BY ToldIsSmall
  <2>. QED BY <1>1, <1>2, <2>1, <2>2, QuietNumbers
<1>5. CASE EndOfStream
  <2>1. slot'.asked <= task.serial
    BY <1>5, NumberFacts DEF EndOfStream, BoundInv, NumberInv
  <2>2. UpTo(fromServer', task.serial) /\ Len(fromServer') <= Pipe
    BY <1>5, NumberFacts, Pumped DEF EndOfStream
  <2>. QED BY <1>1, <1>2, <1>5, <2>1, <2>2 DEF BoundInv, NumberInv, UpTo, EndOfStream
<1>. QED BY <1>2, <1>3, <1>4, <1>5 DEF Reader

LEMMA ServerNumbers ==
  ASSUME BoundInv, Server
  PROVE  AskInv' /\ NumberInv'
<1>1. UNCHANGED <<task, pending, slot, reader>>
  BY DEF Server, ServerTakes, ServerSpeaks, ServerDies, ServerAnswers
<1>2. AskInv'
  BY <1>1 DEF BoundInv, AskInv
<1>3. SUFFICES /\ UpTo(toServer', task.serial) /\ Len(toServer') <= Pipe
               /\ UpTo(fromServer', task.serial) /\ Len(fromServer') <= Pipe
               /\ \A m \in server'.work : m.serial <= task.serial
  BY <1>1, <1>2 DEF BoundInv, NumberInv, UpTo
<1>4. CASE ServerTakes
  <2> DEFINE m == Head(toServer)
             work == Newest(server.work \cup {m})
  <2>1. m.serial <= task.serial /\ UpTo(toServer', task.serial) /\ Len(toServer') <= Pipe /\ UNCHANGED fromServer
    BY <1>4, NumberFacts, Pumped DEF ServerTakes
  <2>2. work \subseteq server.work \cup {m}
    BY DEF Newest
  <2>3. server' = server \/ server' = [server EXCEPT !.work = work]
    BY <1>4 DEF ServerTakes
  <2> HIDE DEF work
  <2>4. server'.work = server.work \/ server'.work = work
    BY <2>3, NumberFacts DEF Process
  <2>. QED BY <2>1, <2>2, <2>4, NumberFacts
<1>5. CASE ServerSpeaks
  <2>1. PICK is \in {"asks", "notifies", "garbled"} : Says([is |-> is, id |-> 1, serial |-> None])
    BY <1>5 DEF ServerSpeaks
  <2>2. PICK e \in FromServer : e = [is |-> is, id |-> 1, serial |-> None]
    BY DEF FromServer, None
  <2>3. e.serial <= task.serial
    BY <2>2, NumberFacts DEF None
  <2>4. UpTo(fromServer', task.serial) /\ Len(fromServer') <= Pipe
    BY <2>1, <2>2, <2>3, NumberFacts, Pumped DEF Says
  <2>5. server'.work = server.work /\ toServer' = toServer
    BY <1>5, NumberFacts, Speaking DEF ServerSpeaks
  <2>. QED BY <2>4, <2>5, NumberFacts
<1>6. CASE ServerDies
  <2>1. server'.work = {} /\ toServer' = <<>> /\ fromServer' = fromServer
    BY <1>6, NumberFacts DEF ServerDies, Process
  <2>. QED BY <2>1, NumberFacts, Pumped
<1>7. CASE \E m \in server.work : ServerAnswers(m)
  <2>1. PICK m \in server.work : ServerAnswers(m)
    BY <1>7
  <2>2. PICK is \in {"ok", "null", "error"} : Says([is |-> is, id |-> m.id, serial |-> m.serial])
    BY <2>1 DEF ServerAnswers
  <2>3. m \in ToServer /\ m.serial <= task.serial /\ m.id = m.serial /\ m.serial \in Nat
    BY NumberFacts DEF BoundInv, LspInv, WireInv, Own, ToServer
  <2>4. PICK e \in FromServer : e = [is |-> is, id |-> m.id, serial |-> m.serial]
    BY <2>3 DEF FromServer, Own
  <2>5. e.serial <= task.serial
    BY <2>3, <2>4
  <2>6. UpTo(fromServer', task.serial) /\ Len(fromServer') <= Pipe
    BY <2>2, <2>4, <2>5, NumberFacts, Pumped DEF Says
  <2>7. server' = [server EXCEPT !.work = @ \ {m}] /\ toServer' = toServer
    BY <2>1 DEF ServerAnswers
  <2>8. server'.work \subseteq server.work
    BY <2>7, NumberFacts DEF Process
  <2>. QED BY <2>6, <2>7, <2>8, NumberFacts
<1>. QED BY <1>4, <1>5, <1>6, <1>7 DEF Server

LEMMA BoundStarts ==
  ASSUME LspInit
  PROVE  BoundInv
<1>1. PICK preload \in Preloads : task = Start(preload)
  BY DEF LspInit
<1>2. task \in Bounded /\ task.io = "do" /\ task.step = "initialize" /\ task.doc = 1 /\ task.serial = 0
  <2>1. preload \in BOOLEAN /\ Probes \in 1 .. Probes /\ 1 \in 1 .. Files + 1 /\ 0 \in 0 .. Tries - 1
    BY LspAssumption DEF Files
  <2>2. 0 \in 0 .. Symbols /\ Len(Questions) \in 1 .. 3
    BY LspAssumption DEF Questions
  <2>. QED BY <1>1, <2>1, <2>2 DEF Start, Bounded, Steps, None
<1>3. AskInv
  <2>1. Sound(task)
    BY <1>2, Counting DEF Sound
  <2>2. Ahead(task) = Most /\ Most \in Nat
    BY <1>2, Counting DEF Ahead, Most
  <2>. QED BY <1>2, <2>1, <2>2 DEF AskInv
<1>4. NumberInv
  BY <1>2, LspAssumption DEF LspInit, NumberInv, NoSlot, None
<1>. QED BY <1>3, <1>4, LspStarts DEF BoundInv

LEMMA BoundStep ==
  ASSUME BoundInv, [LspNext]_lspVars
  PROVE  BoundInv'
<1>1. LspInv'
  BY LspStep DEF BoundInv
<1>2. CASE UNCHANGED lspVars
  BY <1>1, <1>2 DEF lspVars, BoundInv, AskInv, NumberInv
<1>. QED BY <1>1, <1>2, ClientNumbers, ReaderNumbers, ServerNumbers DEF BoundInv, LspNext

LEMMA BoundIsType ==
  ASSUME BoundInv
  PROVE  LspTypeOK
<1>1. /\ Ids = 1 .. (3 * Probes + 2 + AllFiles)
      /\ Most = 1 + 3 * Probes + AllFiles /\ Most \in Nat
  <2>1. AllFiles = Len(Docs) * (1 + Symbols * (Tries + 3))
    BY DEF AllFiles, PerFile, PerSymbol, Files
  <2>2. Ids = 1 .. (3 * Probes + 2 + AllFiles)
    BY <2>1 DEF Ids
  <2>3. Most = 1 + 3 * Probes + AllFiles
    BY DEF Most
  <2>. QED BY <2>2, <2>3, Counting
<1>2. task.serial \in Nat /\ task.serial <= Most
  <2>1. /\ task.io \in {"send", "wait"} => Ahead(task) > 0
        /\ Ahead(task) \in Nat
    BY AheadCounts DEF BoundInv, AskInv, Sound
  <2>. QED BY <1>1, <2>1, NumberFacts DEF BoundInv, AskInv
<1>3. 1 .. task.serial \subseteq Ids /\ task.serial \in Ids \cup {None}
  <2>1. Most + 1 = 3 * Probes + 2 + AllFiles
    BY <1>1, Counting
  <2>2. Ids = 1 .. (Most + 1)
    BY <1>1, <2>1
  <2>3. PICK n \in Nat, most \in Nat : n = task.serial /\ most = Most
    BY <1>1, <1>2
  <2>4. n <= most
    BY <1>2, <2>3
  <2>5. 1 .. n \subseteq 1 .. (most + 1) /\ n \in 1 .. (most + 1) \cup {0}
    BY <2>4
  <2>. QED BY <2>2, <2>3, <2>5 DEF None
<1>4. task.id \in Ids \cup {None} /\ pending \subseteq Ids
  BY <1>3 DEF BoundInv, LspInv, TaskInv, NumberInv
<1>5. slot \in [is : {"empty", "ok", "null", "error", Ended}, asked : Ids \cup {None}]
  <2>1. slot.asked \in Ids \cup {None}
    BY <1>3, NumberFacts DEF BoundInv, NumberInv, None
  <2>. QED BY <2>1 DEF BoundInv, LspInv, SlotInv
<1>6. /\ task.step \in Steps /\ task.io \in {"do", "tell", "send", "wait"}
      /\ task.doc \in 1 .. Len(Docs) + 1 /\ task.left \in 0 .. Probes /\ task.streak \in 0 .. 1
      /\ task.tries \in 0 .. Tries - 1 /\ task.opened \subseteq 1 .. Len(Docs)
      /\ task.listed \in 0 .. Symbols /\ task.about \in 1 .. Len(Questions)
  <2>1. task \in Bounded /\ Files = Len(Docs) /\ Len(Questions) = 3
    BY DEF BoundInv, AskInv, Sound, Files, Questions
  <2>2. task.left \in 0 .. Probes
    BY <2>1, Counting DEF Bounded
  <2>. QED BY <2>1, <2>2 DEF Bounded
<1>. QED BY <1>3, <1>4, <1>5, <1>6 DEF LspTypeOK, BoundInv, NumberInv

\* The session's variables stay in their types.  What takes an argument is the
\* bound on ids: however requests fail, time out or go unanswered, an
\* extraction sends no more than the probes of its loops and, for each file,
\* one request and Tries + 3 for each symbol the server lists there
\* (session.rs, the readiness loops and the hover attempts; walk_symbol).  It
\* grows with what the servers list and with nothing else.
THEOREM RequestsAreCounted == LspSpec => []LspTypeOK
<1>1. LspInit => BoundInv
  BY BoundStarts
<1>2. BoundInv /\ [LspNext]_lspVars => BoundInv'
  BY BoundStep
<1>3. BoundInv => LspTypeOK
  BY BoundIsType
<1>. QED BY <1>1, <1>2, <1>3, PTL DEF LspSpec

-----------------------------------------------------------------------------
(* Embedding: what its invariant says                                      *)

\* A caller is a record of these fields, whatever they hold.
Fields(W) ==
  [verb : W, corpus : W, pc : W, info : W, warm : W, work : W, per : W, done : W, answer : W, part : W]
Whole(r) == \E W : r \in Fields(W)

\* All vectors so far are of the cohort the caller connected to, and before it
\* has connected there are none.
Vectors(r) ==
  /\ Whole(r)
  /\ \A i \in DOMAIN r.done : r.done[i] = [cohort |-> r.info, text |-> i]
  /\ r.pc \in {"connect", "info"} => DOMAIN r.done = {}
  /\ r.pc \in {"embed", "reply", "ok"} => r.info \notin Narrow /\ (r.verb = "query" => r.info = r.corpus)
  /\ r.pc = "ok" => DOMAIN r.done = 0 .. (IF r.verb = "ingest" THEN Texts ELSE 1) - 1

\* The connections: the one served, and those behind it.
Connection(i) == IF i = 0 THEN serving ELSE waiting[i]
Places == 0 .. Len(waiting)
Holds(c, what) == {i \in Places : Connection(i).of = c /\ Connection(i).what = what}

Awaiting(r) == r.pc = "info" /\ r.answer = "none"

\* One connection asks for the cohort of a caller, while it waits for that or
\* has given up; none embeds for a caller that has not connected.
AsksOnce(c) ==
  /\ \A i, j \in Holds(c, "info") : i = j
  /\ Holds(c, "info") # {} => caller[c].pc = "err" \/ Awaiting(caller[c])
  /\ Holds(c, "embed") # {} => caller[c].pc \notin {"connect", "info"}

EmbInv ==
  /\ DOMAIN caller = Callers /\ \A c \in Callers : Vectors(caller[c])
  /\ \E S : waiting \in Seq(S)
  /\ \A c \in Callers : AsksOnce(c)

-----------------------------------------------------------------------------
(* Queues and callers                                                      *)

LEMMA Queueing ==
  ASSUME NEW S, NEW s \in Seq(S), NEW e
  PROVE  /\ Append(s, e) \in Seq(S \cup {e}) /\ Len(Append(s, e)) = Len(s) + 1
         /\ \A i \in 1 .. Len(s) : Append(s, e)[i] = s[i]
         /\ Append(s, e)[Len(s) + 1] = e
         /\ s # <<>> => /\ Tail(s) \in Seq(S) /\ Len(Tail(s)) = Len(s) - 1 /\ Len(s) \in Nat \ {0}
                        /\ \A i \in 1 .. Len(s) - 1 : Tail(s)[i] = s[i + 1]
                        /\ Head(s) = s[1]
<1>1. s \in Seq(S \cup {e}) /\ e \in S \cup {e}
  OBVIOUS
<1>2. Append(s, e) \in Seq(S \cup {e}) /\ Len(Append(s, e)) = Len(s) + 1
  BY <1>1
<1>3. (\A i \in 1 .. Len(s) : Append(s, e)[i] = s[i]) /\ Append(s, e)[Len(s) + 1] = e
  BY <1>1
<1>4. s # <<>> => Tail(s) \in Seq(S) /\ Len(Tail(s)) = Len(s) - 1 /\ Len(s) \in Nat \ {0}
  OBVIOUS
<1>5. s # <<>> => \A i \in 1 .. Len(s) - 1 : Tail(s)[i] = s[i + 1]
  OBVIOUS
<1>6. s # <<>> => Head(s) = s[1]
  OBVIOUS
<1>. QED BY <1>2, <1>3, <1>4, <1>5, <1>6

LEMMA Calling ==
  ASSUME NEW verb, NEW corpus, NEW per
  PROVE  LET n == NewCaller(verb, corpus, per)
         IN Whole(n) /\ n.pc = "connect" /\ n.done = <<>>
<1> DEFINE n == NewCaller(verb, corpus, per)
           W == {verb, corpus, "connect", "none", FALSE, <<>>, per}
<1>1. verb \in W /\ corpus \in W /\ "connect" \in W /\ "none" \in W /\ FALSE \in W /\ <<>> \in W /\ per \in W
  OBVIOUS
<1> HIDE DEF W
<1>2. n \in Fields(W) /\ n.pc = "connect" /\ n.done = <<>>
  BY <1>1 DEF Fields, NewCaller
<1>. QED BY <1>2 DEF Whole

\* The error is all that is left of a call that fails.
LEMMA Failing ==
  ASSUME NEW r
  PROVE  Vectors(Failed(r)) /\ Failed(r).pc = "err"
<1> DEFINE n == NewCaller(r.verb, r.corpus, r.per)
<1>1. Whole(n) /\ n.done = <<>>
  BY Calling
<1> HIDE DEF n
<1> DEFINE q == [n EXCEPT !.pc = "err"]
<1>2. PICK V : n \in Fields(V)
  BY <1>1 DEF Whole
<1> DEFINE W == V \cup {"err"}
<1>3. q \in Fields(W) /\ q.pc = "err" /\ q.done = n.done
  BY <1>2 DEF Fields
<1>4. Failed(r) = q
  BY DEF Failed, n
<1> HIDE DEF q
<1>5. DOMAIN q.done = {}
  BY <1>1, <1>3
<1>. QED BY <1>3, <1>4, <1>5 DEF Vectors, Whole

-----------------------------------------------------------------------------
(* The steps                                                               *)

\* A step of a caller that asks for no cohort.
LEMMA CallerStep ==
  ASSUME EmbInv, NEW c \in Callers, NEW r, Vectors(r), Becomes(c, r), UNCHANGED <<serving, waiting>>,
         Holds(c, "info") # {} => r.pc = "err" \/ Awaiting(r),
         Holds(c, "embed") # {} => r.pc \notin {"connect", "info"}
  PROVE  EmbInv'
<1>1. /\ DOMAIN caller' = Callers /\ caller'[c] = r
      /\ \A d \in Callers : d # c => caller'[d] = caller[d]
  BY DEF EmbInv, Becomes
<1>2. \A d, what : Holds(d, what)' = Holds(d, what)
  BY DEF Holds, Places, Connection
<1>3. \A d \in Callers : Vectors(caller[d])'
  <2> SUFFICES ASSUME NEW d \in Callers PROVE Vectors(caller'[d])
    OBVIOUS
  <2>. QED BY <1>1 DEF EmbInv
<1>4. ASSUME NEW d \in Callers PROVE AsksOnce(d)'
  <2>1. CASE d = c
    BY <1>1, <1>2, <2>1 DEF EmbInv, AsksOnce, Awaiting
  <2>2. CASE d # c
    BY <1>1, <1>2, <2>2 DEF EmbInv, AsksOnce, Awaiting
  <2>. QED BY <2>1, <2>2
<1>5. (\E S : waiting \in Seq(S))'
  BY DEF EmbInv
<1>. QED BY <1>1, <1>3, <1>4, <1>5 DEF EmbInv

\* A step of a caller that sends one request.
LEMMA AskStep ==
  ASSUME EmbInv, NEW c \in Callers, NEW what, NEW batch, Asks(c, what, batch), UNCHANGED serving,
         \/ what = "info" /\ caller[c].pc = "connect"
         \/ what = "embed" /\ caller[c].pc = "embed"
  PROVE  EmbInv'
<1>1. Holds(c, "info") = {} /\ (what = "info" => Holds(c, "embed") = {})
  BY DEF EmbInv, AsksOnce, Awaiting
<1>2. CASE ~service.up
  <2>1. Vectors(Failed(caller[c])) /\ Failed(caller[c]).pc = "err"
    BY Failing
  <2>. QED BY <1>2, <2>1, CallerStep DEF Asks
<1>3. CASE service.up
  <2> DEFINE conn == [of |-> c, what |-> what, from |-> batch.from, len |-> batch.len]
             r == caller[c]
             q == [r EXCEPT !.pc = IF what = "info" THEN "info" ELSE "reply", !.answer = "none"]
  <2>1. waiting' = Append(waiting, conn) /\ Becomes(c, q)
    BY <1>3 DEF Asks
  <2>2. conn.of = c /\ conn.what = what
    OBVIOUS
  <2>3. Vectors(q) /\ (what = "info" => Awaiting(q)) /\ (what = "embed" => q.pc = "reply")
    <3>1. Vectors(r)
      BY DEF EmbInv
    <3>2. PICK V : r \in Fields(V)
      BY <3>1 DEF Vectors, Whole
    <3> DEFINE pc == IF what = "info" THEN "info" ELSE "reply"
               W == V \cup {pc, "none"}
    <3>3. r \in Fields(W) /\ pc \in W /\ "none" \in W
      BY <3>2 DEF Fields
    <3> HIDE DEF pc, W
    <3>4. /\ q \in Fields(W) /\ q.pc = pc /\ q.answer = "none"
          /\ q.done = r.done /\ q.info = r.info /\ q.verb = r.verb /\ q.corpus = r.corpus
      <4> SUFFICES LET p == [r EXCEPT !.pc = pc, !.answer = "none"]
                   IN /\ p \in Fields(W) /\ p.pc = pc /\ p.answer = "none"
                      /\ p.done = r.done /\ p.info = r.info /\ p.verb = r.verb /\ p.corpus = r.corpus
        BY DEF pc
      <4>. QED BY <3>3 DEF Fields
    <3> HIDE DEF q
    <3>. QED BY <3>1, <3>4 DEF Vectors, Whole, Awaiting, pc
  <2> HIDE DEF q
  <2>0. PICK last : last = Len(waiting) + 1
    OBVIOUS
  <2>4. PICK S : waiting \in Seq(S)
    BY DEF EmbInv
  <2>5. waiting' \in Seq(S \cup {conn}) /\ Len(waiting') = last /\ last \in Nat \ {0} /\ Len(waiting) \in Nat
    BY <2>0, <2>1, <2>4, Queueing
  <2>6. /\ \A i \in Places : Connection(i)' = Connection(i)
        /\ Connection(last)' = conn
        /\ Places' = Places \cup {last}
    <3>1. (\A i \in 1 .. Len(waiting) : waiting'[i] = waiting[i]) /\ waiting'[last] = conn
      BY <2>0, <2>1, <2>4, Queueing
    <3>2. Places' = Places \cup {last}
      BY <2>0, <2>5 DEF Places
    <3>3. \A i \in Places : Connection(i)' = Connection(i)
      BY <2>0, <2>5, <3>1 DEF Places, Connection
    <3>4. Connection(last)' = conn
      BY <2>5, <3>1 DEF Connection
    <3>. QED BY <3>2, <3>3, <3>4
  <2> HIDE DEF conn
  <2>7. ASSUME NEW d, NEW w
        PROVE  Holds(d, w)' = IF d = c /\ w = what THEN Holds(d, w) \cup {last} ELSE Holds(d, w)
    BY <2>2, <2>6 DEF Holds
  <2>8. /\ DOMAIN caller' = Callers /\ caller'[c] = q
        /\ \A d \in Callers : d # c => caller'[d] = caller[d]
    BY <2>1 DEF EmbInv, Becomes
  <2>9. ASSUME NEW d \in Callers PROVE AsksOnce(d)'
    <3>1. CASE d = c /\ what = "info"
      <4>1. Holds(c, "info")' = {last} /\ Holds(c, "embed")' = {} /\ caller'[c] = q /\ Awaiting(q)
        BY <1>1, <2>3, <2>7, <2>8, <3>1
      <4>. QED BY <3>1, <4>1 DEF AsksOnce, Awaiting
    <3>2. CASE d = c /\ what = "embed"
      <4>1. Holds(c, "info")' = {} /\ caller'[c] = q /\ q.pc = "reply"
        BY <1>1, <2>3, <2>7, <2>8, <3>2
      <4>. QED BY <3>2, <4>1 DEF AsksOnce, Awaiting
    <3>3. CASE d # c
      BY <2>7, <2>8, <3>3 DEF EmbInv, AsksOnce, Awaiting
    <3>. QED BY <3>1, <3>2, <3>3
  <2>10. \A d \in Callers : Vectors(caller[d])'
    <3> SUFFICES ASSUME NEW d \in Callers PROVE Vectors(caller'[d])
      OBVIOUS
    <3>. QED BY <2>3, <2>8 DEF EmbInv
  <2>. QED BY <2>5, <2>8, <2>9, <2>10 DEF EmbInv
<1>. QED BY <1>2, <1>3

\* Where a caller is says what connections it may still have.
LEMMA Held ==
  ASSUME EmbInv, NEW c \in Callers
  PROVE  /\ Vectors(caller[c])
         /\ caller[c].pc # "err" /\ ~Awaiting(caller[c]) => Holds(c, "info") = {}
         /\ caller[c].pc \in {"connect", "info"} => Holds(c, "embed") = {}
BY DEF EmbInv, AsksOnce

\* A call that fails, or a deadline that passes, leaves an error.
LEMMA FailStep ==
  ASSUME EmbInv, NEW c \in Callers, Becomes(c, Failed(caller[c])), UNCHANGED <<serving, waiting>>
  PROVE  EmbInv'
<1>1. Vectors(Failed(caller[c])) /\ Failed(caller[c]).pc = "err"
  BY Failing
<1>. QED BY <1>1, CallerStep

LEMMA ConnectedStep ==
  ASSUME EmbInv, NEW c \in Callers, Connected(c)
  PROVE  EmbInv'
<1> DEFINE r == caller[c]
           work == BatchesOf(Count(c), r.per)
           q == [r EXCEPT !.pc = "embed", !.answer = "none", !.work = work]
<1>1. /\ r.pc = "info" /\ r.answer # "none" /\ UNCHANGED <<serving, waiting>>
      /\ (Becomes(c, q) /\ Admits(r)) \/ Becomes(c, Failed(r))
  BY DEF Connected
<1>2. CASE Becomes(c, Failed(r))
  BY <1>1, <1>2, FailStep
<1>3. CASE Becomes(c, q) /\ Admits(r)
  <2>1. Vectors(r) /\ Holds(c, "info") = {} /\ Holds(c, "embed") = {}
    BY <1>1, Held DEF Awaiting
  <2>2. PICK V : r \in Fields(V)
    BY <2>1 DEF Vectors, Whole
  <2> HIDE DEF work
  <2> DEFINE W == V \cup {"embed", "none", work}
  <2>3. r \in Fields(W) /\ "embed" \in W /\ "none" \in W /\ work \in W
    BY <2>2 DEF Fields
  <2> HIDE DEF W
  <2>4. /\ q \in Fields(W) /\ q.pc = "embed" /\ q.done = r.done /\ q.info = r.info
        /\ q.verb = r.verb /\ q.corpus = r.corpus
    BY <2>3 DEF Fields
  <2> HIDE DEF q
  <2>5. Vectors(q)
    BY <1>1, <1>3, <2>1, <2>4 DEF Vectors, Whole, Admits
  <2>. QED BY <1>1, <1>3, <2>1, <2>4, <2>5, CallerStep
<1>. QED BY <1>1, <1>2, <1>3

\* A part that agrees is one more of the cohort the caller connected to.
LEMMA AnsweredStep ==
  ASSUME EmbInv, NEW c \in Callers, Answered(c)
  PROVE  EmbInv'
<1> DEFINE r == caller[c]
           b == Head(r.work)
           tail == Tail(r.work)
           halves == Halves(b) \o Tail(r.work)
           done == Rebased(c)
           q == [r EXCEPT !.pc = "embed", !.answer = "none", !.work = tail, !.done = done]
           h == [r EXCEPT !.pc = "embed", !.answer = "none", !.work = halves]
<1>1. /\ r.pc = "reply" /\ UNCHANGED <<serving, waiting>>
      /\ (Becomes(c, q) /\ Agrees(c)) \/ Becomes(c, h) \/ Becomes(c, Failed(r))
  BY DEF Answered
<1>2. Vectors(r) /\ Holds(c, "info") = {}
  BY <1>1, Held DEF Awaiting
<1>3. PICK V : r \in Fields(V)
  BY <1>1, <1>2 DEF Vectors, Whole
<1>4. Agrees(c) => \A i \in DOMAIN done : done[i] = [cohort |-> r.info, text |-> i]
  BY <1>1, <1>2 DEF Vectors, Rebased, Agrees
<1> HIDE DEF tail, halves, done
<1> DEFINE W == V \cup {"embed", "none", tail, halves, done}
<1>5. r \in Fields(W) /\ "embed" \in W /\ "none" \in W /\ tail \in W /\ halves \in W /\ done \in W
  BY <1>3 DEF Fields
<1> HIDE DEF W
<1>6. /\ q \in Fields(W) /\ q.pc = "embed" /\ q.done = done /\ q.info = r.info
      /\ q.verb = r.verb /\ q.corpus = r.corpus
  BY <1>5 DEF Fields
<1>7. /\ h \in Fields(W) /\ h.pc = "embed" /\ h.done = r.done /\ h.info = r.info
      /\ h.verb = r.verb /\ h.corpus = r.corpus
  BY <1>5 DEF Fields
<1> HIDE DEF q, h
<1>8. CASE Becomes(c, Failed(r))
  BY <1>1, <1>8, FailStep
<1>9. CASE Becomes(c, h)
  <2>1. Vectors(h)
    BY <1>1, <1>2, <1>7 DEF Vectors, Whole
  <2>. QED BY <1>1, <1>2, <1>7, <1>9, <2>1, CallerStep
<1>10. CASE Becomes(c, q) /\ Agrees(c)
  <2>1. Vectors(q)
    BY <1>1, <1>2, <1>4, <1>6, <1>10 DEF Vectors, Whole
  <2>. QED BY <1>1, <1>2, <1>6, <1>10, <2>1, CallerStep
<1>. QED BY <1>1, <1>8, <1>9, <1>10

\* A call that returns has a vector for each text.
LEMMA ReturnsStep ==
  ASSUME EmbInv, NEW c \in Callers, Returns(c)
  PROVE  EmbInv'
<1> DEFINE r == caller[c]
           q == [r EXCEPT !.pc = "ok"]
<1>1. /\ r.pc = "embed" /\ UNCHANGED <<serving, waiting>>
      /\ (DOMAIN r.done = 0 .. Count(c) - 1 /\ Becomes(c, q)) \/ Becomes(c, Failed(r))
  BY DEF Returns
<1>2. Vectors(r) /\ Holds(c, "info") = {}
  BY <1>1, Held DEF Awaiting
<1>3. PICK V : r \in Fields(V)
  BY <1>2 DEF Vectors, Whole
<1> DEFINE W == V \cup {"ok"}
<1>4. r \in Fields(W) /\ "ok" \in W
  BY <1>3 DEF Fields
<1> HIDE DEF W
<1>5. /\ q \in Fields(W) /\ q.pc = "ok" /\ q.done = r.done /\ q.info = r.info
      /\ q.verb = r.verb /\ q.corpus = r.corpus
  BY <1>4 DEF Fields
<1> HIDE DEF q
<1>6. DOMAIN r.done = 0 .. Count(c) - 1 => Vectors(q)
  BY <1>1, <1>2, <1>5 DEF Vectors, Whole, Count
<1>7. CASE Becomes(c, Failed(r))
  BY <1>1, <1>7, FailStep
<1>8. CASE DOMAIN r.done = 0 .. Count(c) - 1 /\ Becomes(c, q)
  BY <1>1, <1>2, <1>5, <1>6, <1>8, CallerStep
<1>. QED BY <1>1, <1>7, <1>8

\* The worker takes the first of those who wait.
LEMMA AcceptStep ==
  ASSUME EmbInv, Accept
  PROVE  EmbInv'
<1>1. serving = Free /\ serving' = Head(waiting) /\ waiting' = Tail(waiting) /\ waiting # <<>> /\ caller' = caller
  BY DEF Accept
<1>2. PICK S : waiting \in Seq(S)
  BY DEF EmbInv
<1>3. /\ waiting' \in Seq(S) /\ Len(waiting') = Len(waiting) - 1 /\ Len(waiting) \in Nat \ {0}
      /\ (\A i \in 1 .. Len(waiting) - 1 : waiting'[i] = waiting[i + 1]) /\ serving' = waiting[1]
  BY <1>1, <1>2, Queueing
<1>4. ASSUME NEW i \in Places'
      PROVE  i \in Nat /\ i + 1 \in Places /\ Connection(i)' = Connection(i + 1)
  BY <1>3 DEF Places, Connection
<1>5. \A d, w : \A i \in Holds(d, w)' : i \in Nat /\ i + 1 \in Holds(d, w)
  BY <1>4 DEF Holds
<1>6. ASSUME NEW d \in Callers PROVE AsksOnce(d)'
  <2>1. /\ \A i, j \in Holds(d, "info") : i = j
        /\ Holds(d, "info") # {} => caller[d].pc = "err" \/ Awaiting(caller[d])
        /\ Holds(d, "embed") # {} => caller[d].pc \notin {"connect", "info"}
    BY DEF EmbInv, AsksOnce
  <2>2. \A i, j \in Holds(d, "info")' : i = j
    <3> SUFFICES ASSUME NEW i \in Holds(d, "info")', NEW j \in Holds(d, "info")' PROVE i = j
      OBVIOUS
    <3>1. i \in Nat /\ j \in Nat /\ i + 1 = j + 1
      BY <1>5, <2>1
    <3>. QED BY <3>1
  <2>3. Holds(d, "info")' # {} => caller'[d].pc = "err" \/ Awaiting(caller'[d])
    BY <1>1, <1>5, <2>1
  <2>4. Holds(d, "embed")' # {} => caller'[d].pc \notin {"connect", "info"}
    BY <1>1, <1>5, <2>1
  <2>. QED BY <2>2, <2>3, <2>4 DEF AsksOnce
<1>. QED BY <1>1, <1>3, <1>6 DEF EmbInv

\* What the worker answers is over; what it says of its cohort is heard by one
\* that has none yet.
LEMMA ServeStep ==
  ASSUME EmbInv, Serve
  PROVE  EmbInv'
<1>1. serving' = Free /\ waiting' = waiting /\ Free.what = "none"
  BY DEF Serve, Free
<1>2. ASSUME NEW d, NEW w \in {"info", "embed"}
      PROVE  Holds(d, w)' = Holds(d, w) \ {0}
  <2>1. Places' = Places
    BY <1>1 DEF Places
  <2>2. \A i \in Places : Connection(i)' = IF i = 0 THEN Free ELSE Connection(i)
    BY <1>1 DEF Connection, Places
  <2>. QED BY <1>1, <2>1, <2>2 DEF Holds
<1>3. CASE caller' = caller
  <2>1. ASSUME NEW d \in Callers PROVE AsksOnce(d)'
    BY <1>2, <1>3 DEF EmbInv, AsksOnce
  <2>. QED BY <1>1, <1>3, <2>1 DEF EmbInv
<1>4. CASE caller' # caller
  <2>1. PICK c \in Callers, answer \in {"info", "vectors", "out-of-memory", "refused"} :
          /\ c = serving.of /\ Replies(serving, answer) /\ Awaits(c)
          /\ serving.what = IF answer = "info" THEN "info" ELSE "embed"
    BY <1>4 DEF Serve, Replies
  <2> DEFINE r == caller[c]
             part == IF answer = "vectors" THEN service.cohort ELSE r.part
             info == IF answer = "info" THEN service.cohort ELSE r.info
             warm == IF answer = "info" THEN service.weights = "ready" ELSE r.warm
             q == [r EXCEPT !.answer = answer, !.part = part, !.info = info, !.warm = warm]
  <2>2. caller' = [caller EXCEPT ![c] = q]
    BY <2>1 DEF Replies, Becomes
  <2>3. Vectors(r) /\ r.pc \in {"info", "reply"} /\ 0 \in Holds(c, serving.what)
    BY <2>1 DEF EmbInv, Awaits, Holds, Places, Connection
  <2>4. PICK V : r \in Fields(V)
    BY <2>3 DEF Vectors, Whole
  <2> HIDE DEF part, info, warm
  <2> DEFINE W == V \cup {answer, part, info, warm}
  <2>5. r \in Fields(W) /\ answer \in W /\ part \in W /\ info \in W /\ warm \in W
    BY <2>4 DEF Fields
  <2> HIDE DEF W
  <2>6. /\ q \in Fields(W) /\ q.pc = r.pc /\ q.done = r.done /\ q.info = info
        /\ q.verb = r.verb /\ q.corpus = r.corpus
    BY <2>5 DEF Fields
  <2> HIDE DEF q
  <2>7. /\ DOMAIN caller' = Callers /\ caller'[c] = q
        /\ \A d \in Callers : d # c => caller'[d] = caller[d]
    BY <2>2 DEF EmbInv
  <2>8. IF answer = "info" THEN r.pc = "info" /\ Holds(c, "embed") = {}
        ELSE r.pc = "reply" /\ info = r.info /\ Holds(c, "info") = {}
    BY <2>1, <2>3, Held DEF Awaiting, info
  <2>9. Vectors(q)
    BY <2>3, <2>6, <2>8 DEF Vectors, Whole
  <2>10. \A d \in Callers : Vectors(caller[d])'
    <3> SUFFICES ASSUME NEW d \in Callers PROVE Vectors(caller'[d])
      OBVIOUS
    <3>. QED BY <2>7, <2>9 DEF EmbInv
  <2>11. ASSUME NEW d \in Callers PROVE AsksOnce(d)'
    <3>1. CASE d # c
      BY <1>2, <2>7, <3>1 DEF EmbInv, AsksOnce
    <3>2. CASE d = c /\ answer = "info"
      <4>1. Holds(c, "info")' = {}
        BY <1>2, <2>1, <2>3, <3>2 DEF EmbInv, AsksOnce
      <4>2. Holds(c, "embed")' = {}
        BY <1>2, <2>8, <3>2
      <4>. QED BY <3>2, <4>1, <4>2 DEF AsksOnce
    <3>3. CASE d = c /\ answer # "info"
      <4>1. Holds(c, "info")' = {} /\ caller'[c].pc = "reply"
        BY <1>2, <2>6, <2>7, <2>8, <3>3
      <4>. QED BY <3>3, <4>1 DEF AsksOnce
    <3>. QED BY <3>1, <3>2, <3>3
  <2>. QED BY <1>1, <2>7, <2>10, <2>11 DEF EmbInv
<1>. QED BY <1>3, <1>4

\* A peer that says nothing asks for nothing.
LEMMA IdlesStep ==
  ASSUME EmbInv, Idles
  PROVE  EmbInv'
<1>1. serving' = serving /\ waiting' = Append(waiting, Silent) /\ caller' = caller /\ Silent.what = "silent"
  BY DEF Idles, Silent
<1>2. PICK S : waiting \in Seq(S)
  BY DEF EmbInv
<1>3. PICK last : last = Len(waiting) + 1
  OBVIOUS
<1>4. /\ waiting' \in Seq(S \cup {Silent}) /\ Len(waiting') = last /\ Len(waiting) \in Nat
      /\ (\A i \in 1 .. Len(waiting) : waiting'[i] = waiting[i]) /\ waiting'[last] = Silent
  BY <1>1, <1>2, <1>3, Queueing
<1>5. Places' = Places \cup {last}
  BY <1>3, <1>4 DEF Places
<1>6. (\A i \in Places : Connection(i)' = Connection(i)) /\ Connection(last)' = Silent
  BY <1>1, <1>3, <1>4 DEF Places, Connection
<1>7. ASSUME NEW d, NEW w \in {"info", "embed"}
      PROVE  Holds(d, w)' = Holds(d, w)
  BY <1>1, <1>5, <1>6 DEF Holds
<1>8. ASSUME NEW d \in Callers PROVE AsksOnce(d)'
  BY <1>1, <1>7 DEF EmbInv, AsksOnce
<1>. QED BY <1>1, <1>4, <1>8 DEF EmbInv

\* No connection holds anything where there is none.
LEMMA NoneHeld ==
  ASSUME serving = Free, waiting = <<>>, NEW d, NEW w \in {"info", "embed"}
  PROVE  Holds(d, w) = {}
<1>1. Places = {0}
  BY DEF Places
<1>. QED BY <1>1 DEF Holds, Connection, Free

\* With the process every connection goes; whoever waits is told so.
LEMMA StopsStep ==
  ASSUME EmbInv, Stops
  PROVE  EmbInv'
<1>1. serving' = Free /\ waiting' = <<>>
  BY DEF Stops
<1>2. ASSUME NEW d, NEW w \in {"info", "embed"}
      PROVE  Holds(d, w)' = {}
  <2>1. Places' = {0}
    BY <1>1 DEF Places
  <2>2. Connection(0)' = Free /\ Free.what = "none"
    BY <1>1 DEF Connection, Free
  <2>. QED BY <2>1, <2>2 DEF Holds
<1>3. ASSUME NEW d \in Callers PROVE Vectors(caller'[d])
  <2> DEFINE r == caller[d]
             q == [r EXCEPT !.answer = "unreachable"]
  <2>1. caller'[d] \in {r, q} /\ Vectors(r)
    BY DEF Stops, EmbInv
  <2>2. PICK V : r \in Fields(V)
    BY <2>1 DEF Vectors, Whole
  <2> DEFINE W == V \cup {"unreachable"}
  <2>3. r \in Fields(W) /\ "unreachable" \in W
    BY <2>2 DEF Fields
  <2> HIDE DEF W
  <2>4. /\ q \in Fields(W) /\ q.pc = r.pc /\ q.done = r.done /\ q.info = r.info
        /\ q.verb = r.verb /\ q.corpus = r.corpus
    BY <2>3 DEF Fields
  <2> HIDE DEF q
  <2>5. Vectors(q)
    BY <2>1, <2>4 DEF Vectors, Whole
  <2>. QED BY <2>1, <2>5
<1>4. \A d \in Callers : Vectors(caller[d])'
  BY <1>3
<1>5. DOMAIN caller' = Callers
  BY DEF Stops
<1>6. ASSUME NEW d \in Callers PROVE AsksOnce(d)'
  BY <1>2 DEF AsksOnce
<1>7. (\E S : waiting \in Seq(S))'
  BY <1>1
<1>. QED BY <1>4, <1>5, <1>6, <1>7 DEF EmbInv

-----------------------------------------------------------------------------
(* The theorem                                                             *)

LEMMA EmbStarts ==
  ASSUME EmbInit
  PROVE  EmbInv
<1>1. serving = Free /\ waiting = <<>>
  BY DEF EmbInit
<1>2. \A d \in Callers : \A w \in {"info", "embed"} : Holds(d, w) = {}
  BY <1>1, NoneHeld
<1>3. PICK co \in Cohorts \ Narrow, verb \in Asking, per \in 1 .. Texts :
        caller = [c \in Callers |-> NewCaller(verb[c], co, IF verb[c] = "ingest" THEN per ELSE 1)]
  BY DEF EmbInit
<1>4. \A c \in Callers : Whole(caller[c]) /\ caller[c].pc = "connect" /\ caller[c].done = <<>>
  BY <1>3, Calling
<1>5. \A c \in Callers : Vectors(caller[c])
  BY <1>4 DEF Vectors
<1>6. \A c \in Callers : AsksOnce(c)
  BY <1>2 DEF AsksOnce
<1>7. \E S : waiting \in Seq(S)
  BY <1>1
<1>. QED BY <1>3, <1>5, <1>6, <1>7 DEF EmbInv

\* The inductive invariant: a caller connects once, and what it has been sent
\* since is of the cohort it was told then.
THEOREM EmbeddingInvariant == EmbSpec => []EmbInv
<1>1. EmbInit => EmbInv
  BY EmbStarts
<1>2. EmbInv /\ [EmbNext]_embVars => EmbInv'
  <2> SUFFICES ASSUME EmbInv, [EmbNext]_embVars PROVE EmbInv'
    OBVIOUS
  <2>1. ASSUME NEW c \in Callers, Caller(c) PROVE EmbInv'
    <3>1. CASE Connect(c)
      BY <3>1, AskStep DEF Connect
    <3>2. CASE EmbedBatch(c)
      BY <3>2, AskStep DEF EmbedBatch
    <3>3. CASE TimesOut(c)
      BY <3>3, FailStep DEF TimesOut
    <3>. QED BY <2>1, <3>1, <3>2, <3>3, ConnectedStep, AnsweredStep, ReturnsStep DEF Caller
  <2>2. CASE Load \/ Starts \/ UNCHANGED embVars
    <3>1. UNCHANGED <<serving, waiting, caller>>
      BY <2>2 DEF Load, Starts, embVars
    <3>2. \A d, w : Holds(d, w)' = Holds(d, w)
      BY <3>1 DEF Holds, Places, Connection
    <3>3. ASSUME NEW d \in Callers PROVE AsksOnce(d)'
      BY <3>1, <3>2 DEF EmbInv, AsksOnce
    <3>. QED BY <3>1, <3>3 DEF EmbInv
  <2>. QED BY <2>1, <2>2, AcceptStep, ServeStep, IdlesStep, StopsStep DEF EmbNext
<1>. QED BY <1>1, <1>2, PTL DEF EmbSpec

\* A call that returns vectors returns one for each text, of that text, all of
\* the cohort it connected to (embed and its check of each part), for every
\* number of texts, callers and restarts of the service between two batches.
THEOREM CallsStayInOneCohort == EmbSpec => []VectorsAreOneCohort
<1>1. EmbInv => VectorsAreOneCohort
  BY DEF EmbInv, Vectors, VectorsAreOneCohort, Count
<1>. QED BY <1>1, EmbeddingInvariant, PTL

-----------------------------------------------------------------------------
(* Embedding: the types                                                    *)

\* A batch lies within the texts of an ingest.
Within == {b \in Batch : b.from + b.len <= Texts}
Vector == [cohort : Cohorts \cup {"none"}, text : Indices]
Dones == UNION {[D -> Vector] : D \in SUBSET Indices}
CallerRecord ==
  [verb : Verbs, corpus : Cohorts, pc : {"connect", "info", "embed", "reply", "ok", "err"},
   info : Cohorts \cup {"none"}, warm : BOOLEAN, work : Seq(Within), per : 1 .. Texts, done : Dones,
   answer : Answers, part : Cohorts \cup {"none"}]
ServiceRecord ==
  [up : BOOLEAN, cohort : Cohorts, weights : {"loading", "ready", "failed"}, starts : 0 .. MaxStarts]
Asking1 == [of : Callers, what : {"info"}, from : {0}, len : {0}]
Asking2 == [of : Callers, what : {"embed"}, from : Indices, len : 1 .. Texts]
Conns == {Silent} \cup Asking1 \cup Asking2

\* A caller waits for the answer to the first of its batches, so it has one.
HasWork(r) == r.pc = "reply" => r.work # <<>>

EmbTypeInv ==
  /\ service \in ServiceRecord
  /\ serving \in Conns \cup {Free} /\ waiting \in Seq(Conns)
  /\ caller \in [Callers -> CallerRecord] /\ \A c \in Callers : HasWork(caller[c])

\* The batches of a call cover no text that is not there.
LEMMA Dividing ==
  ASSUME NEW n \in Nat \ {0}, NEW per \in Nat \ {0}, NEW i \in 1 .. (n + per - 1) \div per
  PROVE  i \in Nat /\ (i - 1) * per \in 0 .. n - 1 /\ i * per = (i - 1) * per + per
<1> DEFINE q == (n + per - 1) \div per
<1>1. q \in Nat /\ per * q <= n + per - 1
  OBVIOUS
<1> HIDE DEF q
<1>2. i \in Nat /\ i - 1 \in Nat /\ q - i \in Nat
  BY <1>1 DEF q
<1>3. \A a, b \in Nat : a * b \in Nat
  OBVIOUS
<1>4. (i - 1) * per \in Nat /\ (q - i) * per \in Nat
  BY <1>2, <1>3
<1>5. per * q = (q - i) * per + (i - 1) * per + per
  BY <1>1, <1>2
<1>6. i * per = (i - 1) * per + per
  BY <1>2
<1>7. (i - 1) * per <= n - 1
  BY <1>1, <1>4, <1>5
<1>. QED BY <1>2, <1>4, <1>6, <1>7

LEMMA BatchesFit ==
  ASSUME NEW n \in 1 .. Texts, NEW per \in 1 .. Texts
  PROVE  BatchesOf(n, per) \in Seq(Within)
<1>. USE EmbeddingAssumption
<1> DEFINE q == (n + per - 1) \div per
           batch(i) == [from |-> (i - 1) * per, len |-> IF i * per <= n THEN per ELSE n - (i - 1) * per]
<1>1. q \in Nat
  OBVIOUS
<1>2. ASSUME NEW i \in 1 .. q PROVE batch(i) \in Within
  <2>1. PICK a, b : a = (i - 1) * per /\ b = i * per
    OBVIOUS
  <2>2. a \in 0 .. n - 1 /\ b = a + per
    BY <2>1, Dividing
  <2>3. batch(i) = [from |-> a, len |-> IF b <= n THEN per ELSE n - a]
    BY <2>1
  <2>4. PICK len : len = IF b <= n THEN per ELSE n - a
    OBVIOUS
  <2>5. len \in 1 .. Texts /\ a \in 0 .. Texts - 1 /\ a + len <= Texts
    BY <2>2, <2>4
  <2>6. [from |-> a, len |-> len] \in Within
    BY <2>5 DEF Within, Batch, Indices
  <2>. QED BY <2>3, <2>4, <2>6
<1>3. BatchesOf(n, per) = [i \in 1 .. q |-> batch(i)]
  BY DEF BatchesOf
<1> HIDE DEF q, batch
<1>. QED BY <1>1, <1>2, <1>3

\* Halving leaves two batches within the one.
LEMMA HalvesFit ==
  ASSUME NEW b \in Within, CanHalve(b)
  PROVE  Halves(b) \in Seq(Within)
<1>. USE EmbeddingAssumption
<1>1. b \in Batch /\ b.from \in 0 .. Texts - 1 /\ b.len \in 1 .. Texts /\ b.len > 1 /\ b.from + b.len <= Texts
  BY DEF Within, Batch, Indices, CanHalve
<1>2. PICK mid : mid = b.len \div 2
  OBVIOUS
<1>3. mid \in 1 .. b.len - 1
  BY <1>1, <1>2
<1>4. [from |-> b.from, len |-> mid] \in Within
  BY <1>1, <1>3 DEF Within, Batch, Indices
<1>5. [from |-> b.from + mid, len |-> b.len - mid] \in Within
  BY <1>1, <1>3 DEF Within, Batch, Indices
<1>6. Halves(b) = <<[from |-> b.from, len |-> mid], [from |-> b.from + mid, len |-> b.len - mid]>>
  BY <1>2 DEF Halves
<1>. QED BY <1>4, <1>5, <1>6

\* A call as it begins, and as it fails.
LEMMA CallsFit ==
  ASSUME NEW verb \in Verbs, NEW corpus \in Cohorts, NEW per \in 1 .. Texts
  PROVE  /\ NewCaller(verb, corpus, per) \in CallerRecord
         /\ NewCaller(verb, corpus, per).pc = "connect"
         /\ [NewCaller(verb, corpus, per) EXCEPT !.pc = "err"] \in CallerRecord
         /\ [NewCaller(verb, corpus, per) EXCEPT !.pc = "err"].pc = "err"
<1>1. <<>> \in Seq(Within)
  OBVIOUS
<1>2. <<>> \in Dones
  <2>1. <<>> \in [{} -> Vector]
    OBVIOUS
  <2>. QED BY <2>1 DEF Dones
<1>3. NewCaller(verb, corpus, per) \in CallerRecord /\ NewCaller(verb, corpus, per).pc = "connect"
  BY <1>1, <1>2 DEF NewCaller, CallerRecord, Answers
<1>4. ASSUME NEW r \in CallerRecord
      PROVE  [r EXCEPT !.pc = "err"] \in CallerRecord /\ [r EXCEPT !.pc = "err"].pc = "err"
  BY DEF CallerRecord
<1>. QED BY <1>3, <1>4

LEMMA FailedFits ==
  ASSUME NEW r \in CallerRecord
  PROVE  Failed(r) \in CallerRecord /\ HasWork(Failed(r))
<1>1. r.verb \in Verbs /\ r.corpus \in Cohorts /\ r.per \in 1 .. Texts
  BY DEF CallerRecord
<1>. QED BY <1>1, CallsFit DEF Failed, HasWork

\* A step of one caller.
LEMMA CallerFits ==
  ASSUME EmbTypeInv, NEW c \in Callers, NEW r \in CallerRecord, HasWork(r), Becomes(c, r),
         UNCHANGED <<service, serving>>, waiting' \in Seq(Conns)
  PROVE  EmbTypeInv'
<1>1. caller \in [Callers -> CallerRecord] /\ \A d \in Callers : HasWork(caller[d])
  BY DEF EmbTypeInv
<1>2. caller' \in [Callers -> CallerRecord] /\ \A d \in Callers : caller'[d] = IF d = c THEN r ELSE caller[d]
  BY <1>1 DEF Becomes
<1>3. ASSUME NEW d \in Callers PROVE HasWork(caller'[d])
  BY <1>1, <1>2
<1>. QED BY <1>2, <1>3 DEF EmbTypeInv

LEMMA FailureFits ==
  ASSUME EmbTypeInv, NEW c \in Callers, Becomes(c, Failed(caller[c])), UNCHANGED <<service, serving, waiting>>
  PROVE  EmbTypeInv'
<1>1. caller[c] \in CallerRecord /\ waiting \in Seq(Conns)
  BY DEF EmbTypeInv
<1>2. Failed(caller[c]) \in CallerRecord /\ HasWork(Failed(caller[c]))
  BY <1>1, FailedFits
<1>. QED BY <1>1, <1>2, CallerFits

LEMMA AskFitsIn ==
  ASSUME EmbTypeInv, NEW c \in Callers, Connect(c) \/ EmbedBatch(c)
  PROVE  EmbTypeInv'
<1>1. caller[c] \in CallerRecord /\ waiting \in Seq(Conns) /\ UNCHANGED <<service, serving>>
  BY DEF EmbTypeInv, Connect, EmbedBatch
<1>2. ASSUME NEW what \in {"info", "embed"}, NEW batch, Asks(c, what, batch), what = "embed" => caller[c].work # <<>>,
             [of |-> c, what |-> what, from |-> batch.from, len |-> batch.len] \in Conns
      PROVE  EmbTypeInv'
  <2>1. CASE ~service.up
    BY <1>1, <1>2, <2>1, FailureFits DEF Asks
  <2>2. CASE service.up
    <3> DEFINE pc == IF what = "info" THEN "info" ELSE "reply"
               q == [caller[c] EXCEPT !.pc = pc, !.answer = "none"]
    <3>1. Becomes(c, q) /\ waiting' \in Seq(Conns)
      BY <1>1, <1>2, <2>2, Piped DEF Asks
    <3>2. pc \in {"info", "reply"} /\ (pc = "reply" => what = "embed") /\ "none" \in Answers
      BY <1>2 DEF Answers
    <3> HIDE DEF pc
    <3>3. q \in CallerRecord /\ q.pc = pc /\ q.work = caller[c].work
      BY <1>1, <3>2 DEF CallerRecord
    <3> HIDE DEF q
    <3>4. HasWork(q)
      BY <1>2, <3>2, <3>3 DEF HasWork
    <3>. QED BY <1>1, <3>1, <3>3, <3>4, CallerFits
  <2>. QED BY <2>1, <2>2
<1>3. CASE Connect(c)
  <2>1. PICK batch : batch = [from |-> 0, len |-> 0]
    OBVIOUS
  <2>2. [of |-> c, what |-> "info", from |-> batch.from, len |-> batch.len] \in Conns
    BY <2>1 DEF Conns, Asking1
  <2>3. Asks(c, "info", batch)
    BY <1>3, <2>1 DEF Connect
  <2>. QED BY <1>2, <2>2, <2>3
<1>4. CASE EmbedBatch(c)
  <2>1. PICK batch : batch = Head(caller[c].work)
    OBVIOUS
  <2>2. caller[c].work # <<>> /\ caller[c].work \in Seq(Within) /\ Asks(c, "embed", batch)
    BY <1>1, <1>4, <2>1 DEF EmbedBatch, CallerRecord
  <2>3. batch \in Within
    BY <2>1, <2>2
  <2>4. [of |-> c, what |-> "embed", from |-> batch.from, len |-> batch.len] \in Conns
    BY <2>3 DEF Conns, Asking2, Within, Batch
  <2>. QED BY <1>2, <2>2, <2>4
<1>. QED BY <1>3, <1>4

LEMMA ConnectedFits ==
  ASSUME EmbTypeInv, NEW c \in Callers, Connected(c)
  PROVE  EmbTypeInv'
<1>. USE EmbeddingAssumption
<1> DEFINE r == caller[c]
           work == BatchesOf(Count(c), r.per)
           q == [r EXCEPT !.pc = "embed", !.answer = "none", !.work = work]
<1>1. r \in CallerRecord /\ waiting \in Seq(Conns) /\ UNCHANGED <<service, serving, waiting>>
  BY DEF EmbTypeInv, Connected
<1>2. Becomes(c, q) \/ Becomes(c, Failed(r))
  BY DEF Connected
<1>3. Count(c) \in 1 .. Texts /\ r.per \in 1 .. Texts
  BY <1>1 DEF Count, CallerRecord
<1>4. work \in Seq(Within) /\ "none" \in Answers
  BY <1>3, BatchesFit DEF Answers
<1> HIDE DEF work
<1>5. q \in CallerRecord /\ q.pc = "embed"
  BY <1>1, <1>4 DEF CallerRecord
<1> HIDE DEF q
<1>6. HasWork(q)
  BY <1>5 DEF HasWork
<1>. QED BY <1>1, <1>2, <1>5, <1>6, CallerFits, FailureFits

LEMMA AnsweredFits ==
  ASSUME EmbTypeInv, NEW c \in Callers, Answered(c)
  PROVE  EmbTypeInv'
<1>. USE EmbeddingAssumption
<1> DEFINE r == caller[c]
           b == Head(r.work)
           tail == Tail(r.work)
           halves == Halves(b) \o Tail(r.work)
           done == Rebased(c)
           q == [r EXCEPT !.pc = "embed", !.answer = "none", !.work = tail, !.done = done]
           h == [r EXCEPT !.pc = "embed", !.answer = "none", !.work = halves]
<1>1. /\ r \in CallerRecord /\ waiting \in Seq(Conns) /\ UNCHANGED <<service, serving, waiting>>
      /\ r.pc = "reply" /\ r.work # <<>>
  BY DEF EmbTypeInv, Answered, HasWork
<1>2. Becomes(c, q) \/ (Becomes(c, h) /\ CanHalve(b)) \/ Becomes(c, Failed(r))
  BY DEF Answered
<1>3. /\ r.work \in Seq(Within) /\ r.done \in Dones /\ r.part \in Cohorts \cup {"none"} /\ "none" \in Answers
      /\ b \in Within /\ tail \in Seq(Within)
  BY <1>1 DEF CallerRecord, Answers
<1>4. CanHalve(b) => halves \in Seq(Within)
  BY <1>3, HalvesFit
<1>5. done \in Dones
  <2> DEFINE sent == b.from .. b.from + b.len - 1
  <2>1. PICK D \in SUBSET Indices : r.done \in [D -> Vector]
    BY <1>3 DEF Dones
  <2>2. sent \subseteq Indices
    <3>1. b.from \in 0 .. Texts - 1 /\ b.len \in 1 .. Texts /\ b.from + b.len <= Texts
      BY <1>3 DEF Within, Batch, Indices
    <3>. QED BY <3>1 DEF Indices
  <2>3. done = [i \in D \cup sent |-> IF i \in sent THEN [cohort |-> r.part, text |-> i] ELSE r.done[i]]
    BY <2>1 DEF Rebased
  <2> HIDE DEF sent
  <2>4. \A i \in sent : [cohort |-> r.part, text |-> i] \in Vector
    BY <1>3, <2>2 DEF Vector
  <2> HIDE DEF done
  <2>5. done \in [D \cup sent -> Vector] /\ D \cup sent \in SUBSET Indices
    BY <2>1, <2>2, <2>3, <2>4
  <2>. QED BY <2>5 DEF Dones
<1> HIDE DEF tail, halves, done, b
<1>6. q \in CallerRecord /\ q.pc = "embed"
  BY <1>1, <1>3, <1>5 DEF CallerRecord
<1>7. CanHalve(b) => h \in CallerRecord /\ h.pc = "embed"
  BY <1>1, <1>3, <1>4 DEF CallerRecord
<1> HIDE DEF q, h
<1>8. CASE Becomes(c, q)
  BY <1>1, <1>6, <1>8, CallerFits DEF HasWork
<1>9. CASE Becomes(c, h) /\ CanHalve(b)
  BY <1>1, <1>7, <1>9, CallerFits DEF HasWork
<1>. QED BY <1>1, <1>2, <1>8, <1>9, FailureFits

LEMMA EndsFit ==
  ASSUME EmbTypeInv, NEW c \in Callers, Returns(c) \/ TimesOut(c)
  PROVE  EmbTypeInv'
<1> DEFINE q == [caller[c] EXCEPT !.pc = "ok"]
<1>1. caller[c] \in CallerRecord /\ waiting \in Seq(Conns) /\ UNCHANGED <<service, serving, waiting>>
  BY DEF EmbTypeInv, Returns, TimesOut
<1>2. Becomes(c, q) \/ Becomes(c, Failed(caller[c]))
  BY DEF Returns, TimesOut
<1>3. q \in CallerRecord /\ q.pc = "ok"
  BY <1>1 DEF CallerRecord
<1> HIDE DEF q
<1>. QED BY <1>1, <1>2, <1>3, CallerFits, FailureFits DEF HasWork

LEMMA ServiceFits ==
  ASSUME EmbTypeInv, Accept \/ Serve \/ Idles \/ Load \/ Stops \/ Starts
  PROVE  EmbTypeInv'
<1>. USE EmbeddingAssumption
<1>1. /\ service \in ServiceRecord /\ serving \in Conns \cup {Free} /\ waiting \in Seq(Conns)
      /\ caller \in [Callers -> CallerRecord] /\ \A c \in Callers : HasWork(caller[c])
  BY DEF EmbTypeInv
<1>2. CASE Accept
  BY <1>1, <1>2 DEF Accept, EmbTypeInv
<1>3. CASE Serve
  <2>1. serving' = Free /\ UNCHANGED <<service, waiting>>
    BY <1>3 DEF Serve
  <2>2. CASE caller' = caller
    BY <1>1, <2>1, <2>2 DEF EmbTypeInv
  <2>3. CASE caller' # caller
    <3>1. PICK c \in Callers, answer \in Answers :
            Becomes(c, [caller[c] EXCEPT
              !.answer = answer, !.part = IF answer = "vectors" THEN service.cohort ELSE @,
              !.info = IF answer = "info" THEN service.cohort ELSE @,
              !.warm = IF answer = "info" THEN service.weights = "ready" ELSE @])
      <4>1. PICK answer \in {"info", "vectors", "out-of-memory", "refused"} : Replies(serving, answer)
        BY <1>3, <2>3 DEF Serve
      <4>2. answer \in Answers
        BY DEF Answers
      <4>. QED BY <2>3, <4>1, <4>2 DEF Replies
    <3> DEFINE r == caller[c]
               part == IF answer = "vectors" THEN service.cohort ELSE r.part
               info == IF answer = "info" THEN service.cohort ELSE r.info
               warm == IF answer = "info" THEN service.weights = "ready" ELSE r.warm
               q == [r EXCEPT !.answer = answer, !.part = part, !.info = info, !.warm = warm]
    <3>2. r \in CallerRecord /\ caller' = [caller EXCEPT ![c] = q]
      BY <1>1, <3>1 DEF Becomes
    <3>3. part \in Cohorts \cup {"none"} /\ info \in Cohorts \cup {"none"} /\ warm \in BOOLEAN
      BY <1>1, <3>2 DEF ServiceRecord, CallerRecord
    <3> HIDE DEF part, info, warm
    <3>4. q \in CallerRecord /\ q.pc = r.pc /\ q.work = r.work
      BY <3>2, <3>3 DEF CallerRecord
    <3> HIDE DEF q
    <3>5. HasWork(q)
      BY <1>1, <3>4 DEF HasWork
    <3>6. caller' \in [Callers -> CallerRecord] /\ \A d \in Callers : HasWork(caller'[d])
      BY <1>1, <3>2, <3>4, <3>5
    <3>. QED BY <1>1, <2>1, <3>6 DEF EmbTypeInv
  <2>. QED BY <2>2, <2>3
<1>4. CASE Idles
  <2>1. Silent \in Conns
    BY DEF Conns
  <2>. QED BY <1>1, <1>4, <2>1, Piped DEF Idles, EmbTypeInv
<1>5. CASE Load \/ Starts
  <2>1. service' \in ServiceRecord
    <3>1. CASE Load
      BY <1>1, <3>1 DEF Load, ServiceRecord
    <3>2. CASE Starts
      <4>1. service.starts - 1 \in 0 .. MaxStarts
        BY <1>1, <3>2 DEF Starts, ServiceRecord
      <4>. QED BY <3>2, <4>1 DEF Starts, ServiceRecord
    <3>. QED BY <1>5, <3>1, <3>2
  <2>. QED BY <1>1, <1>5, <2>1 DEF Load, Starts, EmbTypeInv
<1>6. CASE Stops
  <2>1. service' \in ServiceRecord
    BY <1>1, <1>6 DEF Stops, ServiceRecord
  <2>2. ASSUME NEW c \in Callers
        PROVE  caller'[c] \in CallerRecord /\ HasWork(caller'[c])
    <3> DEFINE q == [caller[c] EXCEPT !.answer = "unreachable"]
    <3>1. caller'[c] \in {q, caller[c]}
      BY <1>6 DEF Stops
    <3>2. "unreachable" \in Answers /\ caller[c] \in CallerRecord
      BY <1>1 DEF Answers
    <3>3. q \in CallerRecord /\ q.pc = caller[c].pc /\ q.work = caller[c].work
      BY <3>2 DEF CallerRecord
    <3> HIDE DEF q
    <3>4. HasWork(caller[c]) /\ HasWork(q)
      BY <1>1, <3>3 DEF HasWork
    <3>. QED BY <3>1, <3>2, <3>3, <3>4
  <2>3. caller' = [c \in Callers |-> caller'[c]]
    BY <1>6 DEF Stops
  <2>4. caller' \in [Callers -> CallerRecord] /\ \A d \in Callers : HasWork(caller'[d])
    BY <2>2, <2>3
  <2>5. serving' = Free /\ waiting' = <<>>
    BY <1>6 DEF Stops
  <2>. QED BY <2>1, <2>4, <2>5 DEF EmbTypeInv
<1>. QED BY <1>2, <1>3, <1>4, <1>5, <1>6

LEMMA EmbTypeStarts ==
  ASSUME EmbInit
  PROVE  EmbTypeInv
<1>. USE EmbeddingAssumption
<1>1. PICK co \in Cohorts \ Narrow, verb \in Asking, per \in 1 .. Texts :
        /\ service = [up |-> FALSE, cohort |-> co, weights |-> "loading", starts |-> MaxStarts]
        /\ caller = [c \in Callers |-> NewCaller(verb[c], co, IF verb[c] = "ingest" THEN per ELSE 1)]
  BY DEF EmbInit
<1>2. service \in ServiceRecord
  BY <1>1 DEF ServiceRecord
<1>3. ASSUME NEW c \in Callers
      PROVE  caller[c] \in CallerRecord /\ caller[c].pc = "connect"
  <2>1. PICK p \in 1 .. Texts : p = IF verb[c] = "ingest" THEN per ELSE 1
    OBVIOUS
  <2>2. caller[c] = NewCaller(verb[c], co, p) /\ verb[c] \in Verbs
    BY <1>1, <2>1
  <2>3. PICK v \in Verbs, corpus \in Cohorts : v = verb[c] /\ corpus = co
    BY <2>2
  <2>4. NewCaller(v, corpus, p) \in CallerRecord /\ NewCaller(v, corpus, p).pc = "connect"
    BY CallsFit
  <2>. QED BY <2>2, <2>3, <2>4
<1>4. caller = [c \in Callers |-> caller[c]]
  BY <1>1
<1>5. caller \in [Callers -> CallerRecord] /\ \A c \in Callers : HasWork(caller[c])
  BY <1>3, <1>4 DEF HasWork
<1>6. serving \in Conns \cup {Free} /\ waiting \in Seq(Conns)
  BY DEF EmbInit
<1>. QED BY <1>2, <1>5, <1>6 DEF EmbTypeInv

LEMMA EmbTypeStep ==
  ASSUME EmbTypeInv, [EmbNext]_embVars
  PROVE  EmbTypeInv'
<1>1. CASE UNCHANGED embVars
  BY <1>1 DEF embVars, EmbTypeInv
<1>2. ASSUME NEW c \in Callers, Caller(c) PROVE EmbTypeInv'
  BY <1>2, AskFitsIn, ConnectedFits, AnsweredFits, EndsFit DEF Caller
<1>. QED BY <1>1, <1>2, ServiceFits DEF EmbNext

LEMMA EmbTypeIsType ==
  ASSUME EmbTypeInv
  PROVE  EmbTypeOK
<1>1. service \in [up : BOOLEAN, cohort : Cohorts, weights : {"loading", "ready", "failed"}, starts : 0 .. MaxStarts]
  BY DEF EmbTypeInv, ServiceRecord
<1>2. ASSUME NEW c \in {serving} \cup Queued
      PROVE  \/ c \in {Free, Silent}
             \/ c.of \in Callers /\ c.what = "info"
             \/ c.of \in Callers /\ c.what = "embed" /\ [from |-> c.from, len |-> c.len] \in Batch
  <2>1. c \in Conns \cup {Free}
    <3>1. serving \in Conns \cup {Free} /\ \A i \in DOMAIN waiting : waiting[i] \in Conns
      BY DEF EmbTypeInv
    <3>. QED BY <3>1 DEF Queued
  <2>. QED BY <2>1 DEF Conns, Asking1, Asking2, Batch
<1>3. ASSUME NEW c \in Callers
      PROVE  /\ caller[c].verb \in Verbs /\ caller[c].corpus \in Cohorts /\ caller[c].per \in 1 .. Texts
             /\ caller[c].pc \in {"connect", "info", "embed", "reply", "ok", "err"}
             /\ caller[c].info \in Cohorts \cup {"none"} /\ caller[c].answer \in Answers
             /\ caller[c].warm \in BOOLEAN /\ caller[c].part \in Cohorts \cup {"none"}
             /\ caller[c].work \in Seq(Batch)
             /\ DOMAIN caller[c].done \subseteq Indices
  <2>1. caller[c] \in CallerRecord
    BY DEF EmbTypeInv
  <2>2. PICK D \in SUBSET Indices : caller[c].done \in [D -> Vector]
    BY <2>1 DEF CallerRecord, Dones
  <2>3. caller[c].work \in Seq(Within) /\ Within \subseteq Batch
    BY <2>1 DEF CallerRecord, Within
  <2>4. caller[c].work \in Seq(Batch)
    BY <2>3
  <2>. QED BY <2>1, <2>2, <2>4 DEF CallerRecord
<1>. QED BY <1>1, <1>2, <1>3 DEF EmbTypeOK

-----------------------------------------------------------------------------
(* Both services                                                           *)

\* Every variable of both services stays in its type, whichever of them is
\* called: an extraction sends a bounded number of requests, for no step is
\* gone back to but for the next file (session.rs, the readiness loops and the
\* hover attempts), and no batch, however often it is halved, covers a text
\* that is not there (embedding.rs, embed).
THEOREM ServicesTypes == Spec => []ServicesTypeOK
<1>1. Init => BoundInv /\ EmbTypeInv
  BY BoundStarts, EmbTypeStarts DEF Init
<1>2. BoundInv /\ EmbTypeInv /\ [Next]_servicesVars => BoundInv' /\ EmbTypeInv'
  <2>1. [Next]_servicesVars => [LspNext]_lspVars /\ [EmbNext]_embVars
    BY DEF Next, servicesVars
  <2>. QED BY <2>1, BoundStep, EmbTypeStep
<1>3. BoundInv /\ EmbTypeInv => ServicesTypeOK
  BY BoundIsType, EmbTypeIsType DEF ServicesTypeOK
<1>. QED BY <1>1, <1>2, <1>3, PTL DEF Spec
=============================================================================
