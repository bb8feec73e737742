-------------------------- MODULE McpServerProofs --------------------------
(***************************************************************************)
(* Theorems about McpServer, for every set of ids, every number of slots   *)
(* and every number of lines.                                              *)
(***************************************************************************)
EXTENDS McpServer, FiniteSetTheorems, TLAPS

-----------------------------------------------------------------------------
(* Sequences                                                               *)

\* A sequence with one entry replaced.
LEMMA Replaced ==
  ASSUME NEW S, NEW s \in Seq(S), NEW k \in DOMAIN s, NEW e \in S
  PROVE  /\ [s EXCEPT ![k] = e] \in Seq(S)
         /\ DOMAIN [s EXCEPT ![k] = e] = DOMAIN s
         /\ Len([s EXCEPT ![k] = e]) = Len(s)
         /\ \A j \in DOMAIN s : [s EXCEPT ![k] = e][j] = IF j = k THEN e ELSE s[j]
  OBVIOUS

\* A sequence with one entry more.
LEMMA Appended ==
  ASSUME NEW S, NEW s \in Seq(S), NEW e \in S
  PROVE  /\ Append(s, e) \in Seq(S)
         /\ Len(Append(s, e)) = Len(s) + 1
         /\ DOMAIN Append(s, e) = DOMAIN s \cup {Len(s) + 1}
         /\ \A j \in DOMAIN s : Append(s, e)[j] = s[j]
         /\ Append(s, e)[Len(s) + 1] = e
  OBVIOUS

\* Where a sequence has its entries.
LEMMA EntriesOf ==
  ASSUME NEW S, NEW s \in Seq(S)
  PROVE  /\ Len(s) \in Nat /\ DOMAIN s = 1 .. Len(s)
         /\ \A k \in DOMAIN s : s[k] \in S
         /\ s # <<>> <=> 1 \in DOMAIN s
  OBVIOUS

\* What is behind the head of a sequence.
LEMMA Behind ==
  ASSUME NEW S, NEW s \in Seq(S), s # <<>>
  PROVE  /\ Head(s) \in S /\ Head(s) = s[1] /\ 1 \in DOMAIN s
         /\ Tail(s) \in Seq(S) /\ Len(Tail(s)) = Len(s) - 1
         /\ DOMAIN Tail(s) = 1 .. Len(s) - 1
         /\ \A k \in DOMAIN Tail(s) : Tail(s)[k] = s[k + 1] /\ k + 1 \in DOMAIN s
  OBVIOUS

\* A function with one entry more at its end.
LEMMA OneMore ==
  ASSUME NEW n \in Nat, NEW S, NEW e \in S, NEW f \in [1 .. n -> S], NEW g \in [1 .. n + 1 -> S],
         \A k \in 1 .. n : g[k] = f[k], g[n + 1] = e
  PROVE  g = Append(f, e)
<1>1. f \in Seq(S) /\ Len(f) = n
  OBVIOUS
<1>2. g \in Seq(S) /\ Len(g) = n + 1
  OBVIOUS
<1>3. \A k \in 1 .. n + 1 : g[k] = Append(f, e)[k]
  BY <1>1
<1>. QED BY <1>1, <1>2, <1>3

-----------------------------------------------------------------------------
(* The slots                                                               *)

\* Nobody waits in two places: without it a call that leaves the queue could
\* be granted a slot later on.
NoneWaitsTwice == \A j, k \in DOMAIN queue : queue[j] = queue[k] => j = k
Waits(c) == \E k \in DOMAIN queue : queue[k] = c

SlotInv == McpTypeOK /\ SlotsAreConserved /\ NoneWaitsTwice

\* Leaving the queue.
LEMMA DequeueLeaves ==
  ASSUME McpTypeOK, NoneWaitsTwice, NEW c
  PROVE  LET q == Dequeue(c) IN
         /\ q \in Seq(Numbers)
         /\ \A j, k \in DOMAIN q : q[j] = q[k] => j = k
         /\ \A d : (\E k \in DOMAIN q : q[k] = d) <=> Waits(d) /\ d # c
         /\ q # <<>> => queue # <<>>
<1>1. CASE ~Waits(c)
  BY <1>1 DEF Dequeue, Waits, McpTypeOK, NoneWaitsTwice
<1>2. CASE Waits(c)
  <2> DEFINE p == CHOOSE k \in DOMAIN queue : queue[k] = c
             q == [j \in 1 .. Len(queue) - 1 |-> IF j < p THEN queue[j] ELSE queue[j + 1]]
  <2>1. /\ Len(queue) \in Nat /\ DOMAIN queue = 1 .. Len(queue)
        /\ \A k \in DOMAIN queue : queue[k] \in Numbers
    BY EntriesOf DEF McpTypeOK
  <2>2. p \in DOMAIN queue /\ queue[p] = c
    BY <1>2 DEF Waits
  <2>3. Dequeue(c) = q
    BY <1>2 DEF Dequeue, Waits
  <2> HIDE DEF p
  <2>4. /\ DOMAIN q = 1 .. Len(queue) - 1
        /\ \A j \in DOMAIN q : q[j] = (IF j < p THEN queue[j] ELSE queue[j + 1])
    OBVIOUS
  <2>5. \A j \in DOMAIN q : q[j] \in Numbers
    BY <2>1, <2>2, <2>4
  <2>6. q \in Seq(Numbers)
    BY <2>1, <2>2, <2>5
  <2>7. \A j, k \in DOMAIN q : q[j] = q[k] => j = k
    BY <2>1, <2>2, <2>4 DEF NoneWaitsTwice
  <2>8. ASSUME NEW d PROVE (\E k \in DOMAIN q : q[k] = d) <=> Waits(d) /\ d # c
    <3>1. ASSUME NEW k \in DOMAIN q, q[k] = d PROVE Waits(d) /\ d # c
      BY <2>1, <2>2, <2>4, <3>1 DEF Waits, NoneWaitsTwice
    <3>2. ASSUME NEW k \in DOMAIN queue, queue[k] = d, d # c PROVE \E j \in DOMAIN q : q[j] = d
      <4>1. CASE k < p
        <5>1. k \in DOMAIN q /\ q[k] = d
          BY <2>1, <2>2, <2>4, <3>2, <4>1
        <5>. QED BY <5>1
      <4>2. CASE k > p
        <5>1. k - 1 \in DOMAIN q /\ q[k - 1] = d
          BY <2>1, <2>2, <2>4, <3>2, <4>2
        <5>. QED BY <5>1
      <4>3. k # p
        BY <2>2, <3>2
      <4>. QED BY <2>1, <2>2, <4>1, <4>2, <4>3
    <3>. QED BY <3>1, <3>2 DEF Waits
  <2>9. queue # <<>>
    BY <2>2, <2>1
  <2> HIDE DEF q
  <2>. QED BY <2>3, <2>6, <2>7, <2>8, <2>9
<1>. QED BY <1>1, <1>2

\* Those who hold a slot are some of the calls.
LEMMA HoldersAreFew ==
  ASSUME McpTypeOK
  PROVE  /\ Numbers = 1 .. Len(calls) /\ Len(calls) \in Nat
         /\ Holders \subseteq Numbers
         /\ IsFiniteSet(Holders) /\ Cardinality(Holders) \in Nat
<1>1. Numbers = 1 .. Len(calls) /\ Len(calls) \in Nat
  BY EntriesOf DEF McpTypeOK, Numbers
<1>2. Holders \subseteq Numbers
  BY DEF Holders
<1>3. IsFiniteSet(1 .. Len(calls))
  BY <1>1, FS_Interval
<1>4. IsFiniteSet(Holders)
  BY <1>1, <1>2, <1>3, FS_Subset
<1>. QED BY <1>1, <1>2, <1>4, FS_CardinalityType

\* A call that gets its slot.
Granted(r) == [r EXCEPT !.worker = "granted"]

LEMMA GrantedIsCall ==
  ASSUME NEW r \in Call
  PROVE  /\ Granted(r) \in Call /\ Granted(r).worker = "granted"
         /\ Granted(r).id = r.id /\ Granted(r).stop = r.stop /\ Granted(r).child = r.child
         /\ Granted(r).task = r.task /\ Granted(r).sent = r.sent
  BY DEF Granted, Call, Worker

\* What leaves its slot or its place leaves everyone else as he was, but for
\* the one who gets the slot.
LEMMA LeaveStep ==
  ASSUME SlotInv, NEW c \in Numbers, NEW rec \in Call, Leave(c, rec),
         rec.worker \in Over, rec.child # "alive", calls[c].worker \notin Over
  PROVE  /\ calls' \in Seq(Call) /\ Len(calls') = Len(calls) /\ Numbers' = Numbers
         /\ calls'[c] = rec
         /\ \A d \in Numbers \ {c} :
              \/ calls'[d] = calls[d]
              \/ calls[d].worker = "queued" /\ calls'[d] = Granted(calls[d])
         /\ free' \in 0 .. Slots /\ queue' \in Seq(Numbers)
         /\ SlotsAreConserved' /\ NoneWaitsTwice'
<1>. USE McpAssumption DEF SlotInv
<1>1. /\ Numbers = 1 .. Len(calls) /\ Len(calls) \in Nat
      /\ Holders \subseteq Numbers
      /\ IsFiniteSet(Holders) /\ Cardinality(Holders) \in Nat
  BY HoldersAreFew
<1>2. \A d \in Numbers : calls[d] \in Call
  BY <1>1 DEF McpTypeOK
<1>3. calls \in Seq(Call) /\ queue \in Seq(Numbers) /\ free \in 0 .. Slots
  BY DEF McpTypeOK
<1>4. c \in Holders <=> calls[c].worker \in {"granted", "running"}
  BY DEF Holders
<1> DEFINE over == [calls EXCEPT ![c] = rec]
<1>5. /\ over \in Seq(Call) /\ DOMAIN over = Numbers /\ Len(over) = Len(calls)
      /\ \A d \in Numbers : over[d] = IF d = c THEN rec ELSE calls[d]
  BY <1>3, Replaced DEF Numbers
<1>6. CASE c \in Holders /\ queue # <<>>
  <2> DEFINE h == Head(queue)
  <2>1. /\ h \in Numbers /\ 1 \in DOMAIN queue /\ h = queue[1]
        /\ Tail(queue) \in Seq(Numbers) /\ DOMAIN Tail(queue) = 1 .. Len(queue) - 1
        /\ \A k \in DOMAIN Tail(queue) : Tail(queue)[k] = queue[k + 1] /\ k + 1 \in DOMAIN queue
    BY <1>3, <1>6, Behind
  <2>2. calls[h].worker = "queued" /\ h # c /\ h \notin Holders
    BY <1>4, <1>6, <2>1 DEF SlotsAreConserved, Holders
  <2>3. Granted(calls[h]) \in Call
    BY <1>2, <2>1, GrantedIsCall
  <2>4. calls' = [over EXCEPT ![h] = Granted(calls[h])]
    <3>1. over[h] = calls[h]
      BY <1>5, <2>1, <2>2
    <3>2. calls' = [over EXCEPT ![h] = Granted(over[h])]
      BY <1>6 DEF Leave, Granted
    <3>. QED BY <3>1, <3>2
  <2>5. /\ calls' \in Seq(Call) /\ DOMAIN calls' = Numbers /\ Len(calls') = Len(calls)
        /\ \A d \in Numbers : calls'[d] = IF d = h THEN Granted(calls[h])
                                          ELSE IF d = c THEN rec ELSE calls[d]
    <3> HIDE DEF over, h
    <3>1. h \in DOMAIN over
      BY <1>5, <2>1
    <3>. QED BY <1>5, <2>3, <2>4, <3>1, Replaced
  <2>6. queue' = Tail(queue) /\ free' = free
    BY <1>6 DEF Leave
  <2> HIDE DEF over, h
  <2>7. Numbers' = Numbers
    BY <2>5 DEF Numbers
  <2>8. \A d \in Numbers : calls'[d].worker = IF d = h THEN "granted" ELSE IF d = c THEN rec.worker ELSE calls[d].worker
    BY <1>2, <2>1, <2>2, <2>5, GrantedIsCall
  <2>9. \A d \in Numbers : calls'[d].child = IF d = c THEN rec.child ELSE calls[d].child
    BY <1>2, <2>1, <2>2, <2>5, GrantedIsCall
  <2>10. Holders' = (Holders \ {c}) \cup {h}
    BY <2>1, <2>2, <2>7, <2>8 DEF Holders, Over
  <2>11. Cardinality(Holders') = Cardinality(Holders)
    <3>1. IsFiniteSet(Holders \ {c}) /\ Cardinality(Holders \ {c}) = Cardinality(Holders) - 1
      BY <1>1, <1>6, FS_RemoveElement
    <3>2. Cardinality((Holders \ {c}) \cup {h}) = Cardinality(Holders \ {c}) + 1
      BY <2>2, <3>1, FS_AddElement
    <3>. QED BY <1>1, <2>10, <3>1, <3>2
  <2>12. NoneWaitsTwice'
    BY <1>3, <2>1, <2>6 DEF NoneWaitsTwice
  <2>13. \A d \in Numbers : (\E k \in DOMAIN queue' : queue'[k] = d) <=> Waits(d) /\ d # h
    <3>1. ASSUME NEW d \in Numbers, NEW k \in DOMAIN queue', queue'[k] = d PROVE Waits(d) /\ d # h
      <4>1. k + 1 \in DOMAIN queue /\ queue[k + 1] = d /\ k + 1 # 1
        BY <2>1, <2>6, <3>1
      <4>. QED BY <2>1, <4>1 DEF Waits, NoneWaitsTwice
    <3>2. ASSUME NEW d \in Numbers, NEW k \in DOMAIN queue, queue[k] = d, d # h
          PROVE  \E j \in DOMAIN queue' : queue'[j] = d
      <4>1. k # 1
        BY <2>1, <3>2
      <4>2. k - 1 \in DOMAIN queue' /\ queue'[k - 1] = d
        BY <1>3, <2>1, <2>6, <3>2, <4>1
      <4>. QED BY <4>2
    <3>. QED BY <3>1, <3>2 DEF Waits
  <2>14. \A d \in Numbers : (\E k \in DOMAIN queue' : queue'[k] = d) <=> calls'[d].worker = "queued"
    <3>1. \A d \in Numbers : Waits(d) <=> calls[d].worker = "queued"
      BY DEF Waits, SlotsAreConserved
    <3>2. rec.worker # "queued" /\ calls[c].worker # "queued"
      BY <1>4, <1>6 DEF Over
    <3>. QED BY <2>2, <2>8, <2>13, <3>1, <3>2
  <2>15. \A d \in Numbers : calls'[d].child = "alive" => calls'[d].worker = "running"
    BY <2>2, <2>8, <2>9 DEF SlotsAreConserved
  <2>16. queue' # <<>> => free' = 0
    BY <1>6, <2>6 DEF SlotsAreConserved
  <2>17. SlotsAreConserved'
    BY <1>1, <2>6, <2>7, <2>11, <2>14, <2>15, <2>16 DEF SlotsAreConserved
  <2>18. ASSUME NEW d \in Numbers \ {c}
         PROVE  \/ calls'[d] = calls[d]
                \/ calls[d].worker = "queued" /\ calls'[d] = Granted(calls[d])
    BY <2>2, <2>5
  <2>. QED BY <1>3, <2>1, <2>2, <2>5, <2>6, <2>7, <2>12, <2>17, <2>18
<1>7. CASE ~(c \in Holders /\ queue # <<>>)
  <2>1. calls' = over /\ queue' = Dequeue(c) /\ free' = IF c \in Holders THEN free + 1 ELSE free
    BY <1>7 DEF Leave
  <2>2. /\ queue' \in Seq(Numbers)
        /\ \A j, k \in DOMAIN queue' : queue'[j] = queue'[k] => j = k
        /\ \A d : (\E k \in DOMAIN queue' : queue'[k] = d) <=> Waits(d) /\ d # c
        /\ queue' # <<>> => queue # <<>>
    BY <2>1, DequeueLeaves
  <2> HIDE DEF over
  <2>3. Numbers' = Numbers
    BY <1>5, <2>1 DEF Numbers
  <2>4. \A d \in Numbers : calls'[d] = IF d = c THEN rec ELSE calls[d]
    BY <1>5, <2>1
  <2>5. Holders' = Holders \ {c}
    BY <2>3, <2>4 DEF Holders, Over
  <2>6. Cardinality(Holders') = IF c \in Holders THEN Cardinality(Holders) - 1 ELSE Cardinality(Holders)
    BY <1>1, <2>5, FS_RemoveElement
  <2>7. free + Cardinality(Holders) = Slots
    BY DEF SlotsAreConserved
  <2>8. free' + Cardinality(Holders') = Slots
    BY <1>1, <1>3, <2>1, <2>6, <2>7
  <2>9. free' \in 0 .. Slots
    <3>1. Cardinality(Holders') \in Nat
      BY <1>1, <2>5, FS_RemoveElement, FS_CardinalityType
    <3>. QED BY <1>1, <1>3, <2>1, <2>7, <2>8, <3>1
  <2>10. queue' # <<>> => free' = 0
    BY <1>7, <2>1, <2>2 DEF SlotsAreConserved
  <2>11. \A d \in Numbers : (\E k \in DOMAIN queue' : queue'[k] = d) <=> calls'[d].worker = "queued"
    <3>1. \A d \in Numbers : Waits(d) <=> calls[d].worker = "queued"
      BY DEF Waits, SlotsAreConserved
    <3>. QED BY <2>2, <2>4, <3>1 DEF Over
  <2>12. \A d \in Numbers : calls'[d].child = "alive" => calls'[d].worker = "running"
    BY <2>4 DEF SlotsAreConserved
  <2>13. SlotsAreConserved'
    BY <2>3, <2>8, <2>10, <2>11, <2>12 DEF SlotsAreConserved
  <2>. QED BY <1>5, <2>1, <2>2, <2>3, <2>4, <2>9, <2>13 DEF NoneWaitsTwice
<1>. QED BY <1>6, <1>7

-----------------------------------------------------------------------------
(* The invariant                                                           *)

\* An entry of in_flight is of the newest call under its id, which no
\* cancellation has reached.
EntryInv ==
  \A i \in Ids : live[i] # 0 =>
    /\ calls[live[i]].id = i /\ calls[live[i]].stop = "armed"
    /\ \A d \in Numbers : calls[d].id = i => d <= live[i]

\* The supervisor moves on from a handler that is over, and an answer has been
\* sent by a handler that replied, or for one that died.
FateOK(r) ==
  /\ r.task # "watching" => r.worker \in Over
  /\ r.sent = IF r.worker = "replied" \/ (r.worker = "panicked" /\ r.task # "watching") THEN 1 ELSE 0
FateInv == \A c \in Numbers : FateOK(calls[c])

DrainInv == loop \in {"closing", "done"} => \A c \in Numbers : calls[c].task = "done"

\* Whoever lost its entry without being cancelled lost it to the supervisor of
\* a call that lost its own, and so on back to one that was cancelled.
CancelInv ==
  \A c \in Numbers :
    live[calls[c].id] # c /\ calls[c].stop # "sent" /\ calls[c].task # "done" =>
      \E d \in 1 .. c - 1 : calls[d].id = calls[c].id /\ calls[d].stop = "sent"

McpInv == SlotInv /\ EntryInv /\ FateInv /\ DrainInv /\ CancelInv

\* The entry of the calls that a step leaves alone, but for a slot granted.
Others(c) ==
  /\ calls' \in Seq(Call) /\ Len(calls') = Len(calls) /\ Numbers' = Numbers
  /\ \A d \in Numbers \ {c} :
       \/ calls'[d] = calls[d]
       \/ calls[d].worker = "queued" /\ calls'[d] = Granted(calls[d])

\* The parts of the invariant about entries and answers, over a step of one
\* call that leaves in_flight and the call's sender alone.
LEMMA OneCallStep ==
  ASSUME McpInv, NEW c \in Numbers, Others(c), UNCHANGED live, loop' = loop,
         calls'[c].id = calls[c].id, calls'[c].stop = calls[c].stop, FateOK(calls'[c]),
         calls[c].task = "done" => calls'[c].task = "done"
  PROVE  EntryInv' /\ FateInv' /\ DrainInv' /\ CancelInv'
<1>1. /\ Numbers = 1 .. Len(calls) /\ Len(calls) \in Nat /\ Numbers' = Numbers
      /\ \A d \in Numbers : calls[d] \in Call
  BY HoldersAreFew DEF McpInv, SlotInv, McpTypeOK, Others
<1>2. \A d \in Numbers :
        /\ calls'[d].id = calls[d].id /\ calls'[d].stop = calls[d].stop
        /\ calls[d].task = "done" => calls'[d].task = "done"
  BY <1>1, GrantedIsCall DEF Others
<1>3. \A i \in Ids : live[i] \in {0} \cup Numbers
  BY DEF McpInv, SlotInv, McpTypeOK
<1>4. EntryInv'
  BY <1>1, <1>2, <1>3 DEF McpInv, EntryInv
<1>5. FateInv'
  <2>1. ASSUME NEW d \in Numbers \ {c} PROVE FateOK(calls'[d])
    <3>1. FateOK(calls[d])
      BY DEF McpInv, FateInv
    <3>2. CASE calls'[d] = calls[d]
      BY <3>1, <3>2
    <3>3. CASE calls[d].worker = "queued" /\ calls'[d] = Granted(calls[d])
      BY <1>1, <3>1, <3>3, GrantedIsCall DEF FateOK, Over
    <3>. QED BY <3>2, <3>3 DEF Others
  <2>. QED BY <1>1, <2>1 DEF FateInv
<1>6. DrainInv'
  BY <1>1, <1>2 DEF McpInv, DrainInv
<1>7. CancelInv'
  <2>1. \A d \in Numbers : calls[d].id \in Ids
    BY <1>1 DEF Call
  <2>2. \A d \in Numbers : 1 .. d - 1 \subseteq Numbers
    BY <1>1
  <2>. QED BY <1>1, <1>2, <2>1, <2>2 DEF McpInv, CancelInv
<1>. QED BY <1>4, <1>5, <1>6, <1>7

\* What is sent is written later, or dropped.
LEMMA SendKeepsType ==
  ASSUME McpTypeOK, NEW c \in {0} \cup Numbers, Send(c)
  PROVE  channel' \in Seq({0} \cup Numbers)
BY Appended DEF McpTypeOK, Send

\* A handler that ends.
LEMMA LeavingStep ==
  ASSUME McpInv, NEW c \in Numbers, NEW rec \in Call, Leave(c, rec),
         rec.worker \in Over, rec.child # "alive", calls[c].worker \notin Over,
         rec.id = calls[c].id, rec.stop = calls[c].stop, rec.task = calls[c].task, FateOK(rec),
         UNCHANGED <<loop, lines, live, writable>>, panics' \in Nat,
         channel' \in Seq({0} \cup Numbers)
  PROVE  McpInv'
<1>1. /\ calls' \in Seq(Call) /\ Len(calls') = Len(calls) /\ Numbers' = Numbers
      /\ calls'[c] = rec
      /\ free' \in 0 .. Slots /\ queue' \in Seq(Numbers)
      /\ SlotsAreConserved' /\ NoneWaitsTwice' /\ Others(c)
  BY LeaveStep DEF McpInv, Others
<1>2. McpTypeOK'
  BY <1>1 DEF McpInv, SlotInv, McpTypeOK
<1>3. EntryInv' /\ FateInv' /\ DrainInv' /\ CancelInv'
  BY <1>1, OneCallStep
<1>. QED BY <1>1, <1>2, <1>3 DEF McpInv, SlotInv

\* A handler that answers, and one that ends without.
LEMMA RepliedIsCall ==
  ASSUME NEW r \in Call
  PROVE  LET t == [r EXCEPT !.worker = "replied", !.sent = @ + 1] IN
         /\ t \in Call /\ t.worker = "replied" /\ t.sent = r.sent + 1
         /\ t.id = r.id /\ t.stop = r.stop /\ t.child = r.child /\ t.task = r.task
<1>1. r.sent + 1 \in Nat /\ "replied" \in Worker
  BY DEF Call, Worker, Over
<1>. QED BY <1>1 DEF Call

LEMMA ReplyStep ==
  ASSUME McpInv, NEW c \in Numbers, calls[c].worker \notin Over, calls[c].child # "alive",
         Reply(c, calls[c])
  PROVE  McpInv'
<1> DEFINE rec == [calls[c] EXCEPT !.worker = "replied", !.sent = @ + 1]
<1>1. calls[c] \in Call /\ c \in {0} \cup Numbers /\ panics \in Nat
  BY HoldersAreFew DEF McpInv, SlotInv, McpTypeOK
<1>2. /\ rec \in Call /\ rec.worker = "replied" /\ rec.sent = calls[c].sent + 1
      /\ rec.id = calls[c].id /\ rec.stop = calls[c].stop /\ rec.task = calls[c].task
      /\ rec.child = calls[c].child
  BY <1>1, RepliedIsCall
<1>3. Leave(c, rec) /\ Send(c) /\ UNCHANGED <<loop, lines, live, panics, writable>>
  BY DEF Reply
<1> HIDE DEF rec
<1>4. FateOK(rec)
  <2>1. calls[c].sent = 0
    BY DEF McpInv, FateInv, FateOK, Over
  <2>. QED BY <1>2, <2>1 DEF FateOK, Over
<1>5. channel' \in Seq({0} \cup Numbers)
  BY <1>1, <1>3, SendKeepsType DEF McpInv, SlotInv
<1>. QED BY <1>1, <1>2, <1>3, <1>4, <1>5, LeavingStep DEF Over

\* A handler that ends without an answer of its own, and its child with it.
LEMMA EndedIsCall ==
  ASSUME NEW r \in Call, NEW w \in {"silent", "panicked"}, r.worker \notin Over
  PROVE  LET t == [r EXCEPT !.worker = w, !.child = Killed(r)] IN
         /\ t \in Call /\ t.worker = w /\ t.child # "alive"
         /\ t.id = r.id /\ t.stop = r.stop /\ t.task = r.task /\ t.sent = r.sent
         /\ FateOK(r) => FateOK(t)
<1>1. Killed(r) \in {"none", "alive", "ended", "killed"} /\ Killed(r) # "alive" /\ w \in Worker
  BY DEF Killed, Call, Worker, Over
<1> DEFINE t == [r EXCEPT !.worker = w, !.child = Killed(r)]
<1>2. /\ t \in Call /\ t.worker = w /\ t.child # "alive"
      /\ t.id = r.id /\ t.stop = r.stop /\ t.task = r.task /\ t.sent = r.sent
  BY <1>1 DEF Call
<1>3. FateOK(r) => FateOK(t)
  BY <1>2 DEF FateOK, Over
<1>. QED BY <1>2, <1>3

LEMMA EndedCallStep ==
  ASSUME McpInv, NEW c \in Numbers, NEW w \in {"silent", "panicked"},
         calls[c].worker \notin Over, panics' \in Nat,
         Leave(c, [calls[c] EXCEPT !.worker = w, !.child = Killed(calls[c])]),
         UNCHANGED <<loop, lines, live, pipeVars>>
  PROVE  McpInv'
<1> DEFINE rec == [calls[c] EXCEPT !.worker = w, !.child = Killed(calls[c])]
<1>1. calls[c] \in Call /\ FateOK(calls[c])
  BY HoldersAreFew DEF McpInv, SlotInv, McpTypeOK, FateInv
<1>2. /\ rec \in Call /\ rec.worker = w /\ rec.child # "alive"
      /\ rec.id = calls[c].id /\ rec.stop = calls[c].stop /\ rec.task = calls[c].task
      /\ FateOK(rec)
  BY <1>1, EndedIsCall
<1>3. Leave(c, rec)
  OBVIOUS
<1>4. channel' \in Seq({0} \cup Numbers)
  BY DEF McpInv, SlotInv, McpTypeOK, pipeVars
<1> HIDE DEF rec
<1>. QED BY <1>2, <1>3, <1>4, LeavingStep DEF Over, pipeVars

\* The entry of one call replaced, with no slot or place involved.
LEMMA ReplacedCall ==
  ASSUME McpTypeOK, NEW c \in Numbers, NEW rec \in Call, calls' = [calls EXCEPT ![c] = rec]
  PROVE  /\ calls' \in Seq(Call) /\ Len(calls') = Len(calls) /\ Numbers' = Numbers
         /\ \A d \in Numbers : calls'[d] = IF d = c THEN rec ELSE calls[d]
         /\ Others(c) /\ calls'[c] = rec
<1>1. calls \in Seq(Call)
  BY DEF McpTypeOK
<1>2. /\ calls' \in Seq(Call) /\ Len(calls') = Len(calls) /\ DOMAIN calls' = DOMAIN calls
      /\ \A d \in Numbers : calls'[d] = IF d = c THEN rec ELSE calls[d]
  BY <1>1, Replaced DEF Numbers
<1>. QED BY <1>2 DEF Numbers, Others

\* A step of one call that keeps the slots as they are.
LEMMA StayingStep ==
  ASSUME McpInv, NEW c \in Numbers, NEW rec \in Call, calls' = [calls EXCEPT ![c] = rec],
         rec.worker = calls[c].worker
           \/ (calls[c].worker \in {"granted", "running"} /\ rec.worker \in {"granted", "running"}),
         rec.child = "alive" => rec.worker = "running",
         rec.id = calls[c].id, rec.stop = calls[c].stop, FateOK(rec),
         calls[c].task = "done" => rec.task = "done",
         UNCHANGED <<loop, lines, live, free, queue, panics, writable>>,
         channel' \in Seq({0} \cup Numbers)
  PROVE  McpInv'
<1>1. /\ calls' \in Seq(Call) /\ Len(calls') = Len(calls) /\ Numbers' = Numbers
      /\ \A d \in Numbers : calls'[d] = IF d = c THEN rec ELSE calls[d]
      /\ Others(c)
  BY ReplacedCall DEF McpInv, SlotInv
<1>2. McpTypeOK'
  BY <1>1 DEF McpInv, SlotInv, McpTypeOK
<1>3. Holders' = Holders
  BY <1>1 DEF Holders
<1>4. SlotsAreConserved' /\ NoneWaitsTwice'
  BY <1>1, <1>3 DEF McpInv, SlotInv, SlotsAreConserved, NoneWaitsTwice
<1>5. EntryInv' /\ FateInv' /\ DrainInv' /\ CancelInv'
  BY <1>1, OneCallStep
<1>. QED BY <1>2, <1>4, <1>5 DEF McpInv, SlotInv

\* A granted handler starts its child, and the child ends by itself.
LEMMA ChildStep ==
  ASSUME McpInv, NEW c \in Numbers, StartChild(c) \/ ChildEnds(c)
  PROVE  McpInv'
<1>1. calls[c] \in Call /\ FateOK(calls[c]) /\ channel \in Seq({0} \cup Numbers)
  BY HoldersAreFew DEF McpInv, SlotInv, McpTypeOK, FateInv
<1>2. CASE StartChild(c)
  <2> DEFINE rec == [calls[c] EXCEPT !.worker = "running", !.child = "alive"]
  <2>1. /\ rec \in Call /\ rec.worker = "running" /\ rec.child = "alive"
        /\ rec.id = calls[c].id /\ rec.stop = calls[c].stop /\ rec.task = calls[c].task
        /\ rec.sent = calls[c].sent
    BY <1>1 DEF Call, Worker, Over
  <2>2. calls[c].worker = "granted" /\ calls' = [calls EXCEPT ![c] = rec]
    BY <1>2 DEF StartChild
  <2> HIDE DEF rec
  <2>3. FateOK(rec)
    BY <1>1, <2>1, <2>2 DEF FateOK, Over
  <2>. QED BY <1>1, <1>2, <2>1, <2>2, <2>3, StayingStep DEF StartChild, pipeVars
<1>3. CASE ChildEnds(c)
  <2> DEFINE rec == [calls[c] EXCEPT !.child = "ended"]
  <2>1. /\ rec \in Call /\ rec.worker = calls[c].worker /\ rec.child = "ended"
        /\ rec.id = calls[c].id /\ rec.stop = calls[c].stop /\ rec.task = calls[c].task
        /\ rec.sent = calls[c].sent
    BY <1>1 DEF Call
  <2>2. calls' = [calls EXCEPT ![c] = rec]
    BY <1>3 DEF ChildEnds
  <2> HIDE DEF rec
  <2>3. FateOK(rec)
    BY <1>1, <2>1 DEF FateOK
  <2>. QED BY <1>1, <1>3, <2>1, <2>2, <2>3, StayingStep DEF ChildEnds, pipeVars
<1>. QED BY <1>2, <1>3

\* The supervisor answers for a handler that died.
LEMMA SuperviseStep ==
  ASSUME McpInv, NEW c \in Numbers, Supervise(c)
  PROVE  McpInv'
<1>1. /\ calls[c] \in Call /\ FateOK(calls[c]) /\ channel \in Seq({0} \cup Numbers)
      /\ calls[c].sent \in Nat
  <2>1. calls[c] \in Call /\ FateOK(calls[c]) /\ channel \in Seq({0} \cup Numbers)
    BY HoldersAreFew DEF McpInv, SlotInv, McpTypeOK, FateInv
  <2>. QED BY <2>1 DEF Call
<1>2. CASE calls[c].worker = "panicked"
  <2> DEFINE rec == [calls[c] EXCEPT !.task = "clearing", !.sent = @ + 1]
  <2>1. /\ rec \in Call /\ rec.worker = calls[c].worker /\ rec.child = calls[c].child
        /\ rec.id = calls[c].id /\ rec.stop = calls[c].stop /\ rec.task = "clearing"
        /\ rec.sent = calls[c].sent + 1
    <3>1. calls[c].sent + 1 \in Nat
      BY <1>1
    <3>. QED BY <1>1, <3>1 DEF Call
  <2>2. calls[c].task = "watching" /\ calls' = [calls EXCEPT ![c] = rec] /\ Send(c)
    BY <1>2 DEF Supervise
  <2> HIDE DEF rec
  <2>3. FateOK(rec)
    BY <1>1, <1>2, <2>1, <2>2 DEF FateOK, Over
  <2>4. channel' \in Seq({0} \cup Numbers)
    BY <2>2, SendKeepsType DEF McpInv, SlotInv
  <2>5. rec.child = "alive" => rec.worker = "running"
    BY <2>1 DEF McpInv, SlotInv, SlotsAreConserved
  <2>. QED BY <2>1, <2>2, <2>3, <2>4, <2>5, StayingStep DEF Supervise
<1>3. CASE calls[c].worker # "panicked"
  <2> DEFINE rec == [calls[c] EXCEPT !.task = "clearing"]
  <2>1. /\ rec \in Call /\ rec.worker = calls[c].worker /\ rec.child = calls[c].child
        /\ rec.id = calls[c].id /\ rec.stop = calls[c].stop /\ rec.task = "clearing"
        /\ rec.sent = calls[c].sent
    BY <1>1 DEF Call
  <2>2. /\ calls[c].task = "watching" /\ calls[c].worker \in Over
        /\ calls' = [calls EXCEPT ![c] = rec] /\ channel' = channel
    BY <1>3 DEF Supervise
  <2> HIDE DEF rec
  <2>3. FateOK(rec)
    BY <1>1, <1>3, <2>1, <2>2 DEF FateOK
  <2>4. rec.child = "alive" => rec.worker = "running"
    BY <2>1 DEF McpInv, SlotInv, SlotsAreConserved
  <2>. QED BY <1>1, <2>1, <2>2, <2>3, <2>4, StayingStep DEF Supervise
<1>. QED BY <1>2, <1>3

\* A handler takes a free slot or joins the queue.
LEMMA AcquireStep ==
  ASSUME McpInv, NEW c \in Numbers, Acquire(c)
  PROVE  McpInv'
<1>. USE McpAssumption DEF SlotInv
<1>1. /\ Numbers = 1 .. Len(calls) /\ Len(calls) \in Nat
      /\ Holders \subseteq Numbers /\ IsFiniteSet(Holders) /\ Cardinality(Holders) \in Nat
      /\ calls[c] \in Call /\ FateOK(calls[c]) /\ calls[c].child # "alive"
      /\ c \notin Holders /\ calls[c].worker = "spawned"
  BY HoldersAreFew DEF McpInv, McpTypeOK, FateInv, Acquire, Holders, SlotsAreConserved
<1>2. free \in 0 .. Slots /\ free + Cardinality(Holders) = Slots /\ queue \in Seq(Numbers)
  BY DEF McpInv, SlotsAreConserved, McpTypeOK
<1>3. CASE free > 0
  <2> DEFINE rec == Granted(calls[c])
  <2>1. calls' = [calls EXCEPT ![c] = rec] /\ free' = free - 1 /\ queue' = queue
    BY <1>3 DEF Acquire, Granted
  <2>2. /\ rec \in Call /\ rec.worker = "granted" /\ rec.child = calls[c].child
        /\ rec.id = calls[c].id /\ rec.stop = calls[c].stop /\ rec.task = calls[c].task
        /\ rec.sent = calls[c].sent
    BY <1>1, GrantedIsCall
  <2> HIDE DEF rec
  <2>3. /\ calls' \in Seq(Call) /\ Len(calls') = Len(calls) /\ Numbers' = Numbers
        /\ \A d \in Numbers : calls'[d] = IF d = c THEN rec ELSE calls[d]
        /\ Others(c)
    BY <2>1, <2>2, ReplacedCall DEF McpInv
  <2>4. FateOK(rec)
    BY <1>1, <2>2 DEF FateOK, Over
  <2>5. Holders' = Holders \cup {c}
    BY <2>2, <2>3 DEF Holders
  <2>6. Cardinality(Holders') = Cardinality(Holders) + 1
    BY <1>1, <2>5, FS_AddElement
  <2>7. free' + Cardinality(Holders') = Slots /\ free' \in 0 .. Slots
    BY <1>1, <1>2, <1>3, <2>1, <2>6
  <2>8. McpTypeOK'
    BY <2>1, <2>3, <2>7 DEF McpInv, McpTypeOK, Acquire, pipeVars
  <2>9. queue = <<>>
    BY <1>2, <1>3 DEF McpInv, SlotsAreConserved
  <2>10. SlotsAreConserved' /\ NoneWaitsTwice'
    BY <1>1, <2>1, <2>2, <2>3, <2>7, <2>9 DEF McpInv, SlotsAreConserved, NoneWaitsTwice
  <2>11. EntryInv' /\ FateInv' /\ DrainInv' /\ CancelInv'
    BY <2>2, <2>3, <2>4, OneCallStep DEF Acquire
  <2>. QED BY <2>8, <2>10, <2>11 DEF McpInv
<1>4. CASE ~(free > 0)
  <2> DEFINE rec == [calls[c] EXCEPT !.worker = "queued"]
  <2>1. calls' = [calls EXCEPT ![c] = rec] /\ free' = free /\ queue' = Append(queue, c) /\ free = 0
    BY <1>2, <1>4 DEF Acquire
  <2>2. /\ rec \in Call /\ rec.worker = "queued" /\ rec.child = calls[c].child
        /\ rec.id = calls[c].id /\ rec.stop = calls[c].stop /\ rec.task = calls[c].task
        /\ rec.sent = calls[c].sent
    BY <1>1 DEF Call, Worker
  <2> HIDE DEF rec
  <2>3. /\ calls' \in Seq(Call) /\ Len(calls') = Len(calls) /\ Numbers' = Numbers
        /\ \A d \in Numbers : calls'[d] = IF d = c THEN rec ELSE calls[d]
        /\ Others(c)
    BY <2>1, <2>2, ReplacedCall DEF McpInv
  <2>4. FateOK(rec)
    BY <1>1, <2>2 DEF FateOK, Over
  <2>5. Holders' = Holders
    BY <1>1, <2>2, <2>3 DEF Holders
  <2>6. /\ queue' \in Seq(Numbers) /\ DOMAIN queue' = DOMAIN queue \cup {Len(queue) + 1}
        /\ \A k \in DOMAIN queue : queue'[k] = queue[k]
        /\ queue'[Len(queue) + 1] = c
        /\ Len(queue) \in Nat /\ DOMAIN queue = 1 .. Len(queue)
    BY <1>2, <2>1, Appended, EntriesOf
  <2>7. McpTypeOK'
    BY <1>2, <2>1, <2>3, <2>6 DEF McpInv, McpTypeOK, Acquire, pipeVars
  <2>8. \A d \in Numbers : Waits(d) <=> calls[d].worker = "queued"
    BY DEF McpInv, SlotsAreConserved, Waits
  <2>9. NoneWaitsTwice'
    <3>1. ~Waits(c)
      BY <1>1, <2>8
    <3>. QED BY <2>6, <3>1 DEF McpInv, NoneWaitsTwice, Waits
  <2>10. \A d \in Numbers : (\E k \in DOMAIN queue' : queue'[k] = d) <=> calls'[d].worker = "queued"
    <3>1. \A d \in Numbers : (\E k \in DOMAIN queue' : queue'[k] = d) <=> Waits(d) \/ d = c
      BY <2>6 DEF Waits
    <3>. QED BY <2>2, <2>3, <2>8, <3>1
  <2>11. SlotsAreConserved'
    BY <1>1, <1>2, <2>1, <2>2, <2>3, <2>5, <2>10 DEF McpInv, SlotsAreConserved
  <2>12. EntryInv' /\ FateInv' /\ DrainInv' /\ CancelInv'
    BY <2>2, <2>3, <2>4, OneCallStep DEF Acquire
  <2>. QED BY <2>7, <2>9, <2>11, <2>12 DEF McpInv
<1>. QED BY <1>3, <1>4

\* The supervisor clears the id, and with it the sender of whoever has it now.
LEMMA ClearStep ==
  ASSUME McpInv, NEW c \in Numbers, ClearId(c)
  PROVE  McpInv'
<1> DEFINE i == calls[c].id
           held == live[i]
           rec == [calls[c] EXCEPT !.task = "done"]
           cleared == [calls EXCEPT ![c] = rec]
           dropped == [cleared[held] EXCEPT !.stop = "dropped"]
<1>1. /\ Numbers = 1 .. Len(calls) /\ Len(calls) \in Nat /\ calls \in Seq(Call)
      /\ \A d \in Numbers : calls[d] \in Call /\ FateOK(calls[d]) /\ calls[d].id \in Ids
  <2>1. \A d \in Numbers : calls[d] \in Call
    BY HoldersAreFew DEF McpInv, SlotInv, McpTypeOK
  <2>. QED BY <2>1, HoldersAreFew DEF McpInv, SlotInv, McpTypeOK, FateInv, Call
<1>2. held \in {0} \cup Numbers /\ live' = [live EXCEPT ![i] = 0] /\ calls[c].task = "clearing"
  BY <1>1 DEF McpInv, SlotInv, McpTypeOK, ClearId
<1>3. /\ rec \in Call /\ rec.worker = calls[c].worker /\ rec.child = calls[c].child
      /\ rec.id = calls[c].id /\ rec.stop = calls[c].stop /\ rec.task = "done"
      /\ rec.sent = calls[c].sent
  BY <1>1 DEF Call
<1>4. calls' = IF held # 0 THEN [cleared EXCEPT ![held] = dropped] ELSE cleared
  BY DEF ClearId
<1> HIDE DEF rec
<1>5. /\ cleared \in Seq(Call) /\ Len(cleared) = Len(calls) /\ DOMAIN cleared = Numbers
      /\ \A d \in Numbers : cleared[d] = IF d = c THEN rec ELSE calls[d]
  BY <1>1, <1>3, Replaced DEF Numbers
<1> HIDE DEF cleared
<1>6. \A d \in Numbers :
        /\ cleared[d] \in Call /\ cleared[d].worker = calls[d].worker /\ cleared[d].child = calls[d].child
        /\ cleared[d].id = calls[d].id /\ cleared[d].stop = calls[d].stop
        /\ cleared[d].sent = calls[d].sent
        /\ cleared[d].task = IF d = c THEN "done" ELSE calls[d].task
  BY <1>1, <1>3, <1>5
<1>7. ASSUME held # 0
      PROVE  /\ dropped \in Call /\ dropped.worker = calls[held].worker
             /\ dropped.child = calls[held].child /\ dropped.id = calls[held].id
             /\ dropped.sent = calls[held].sent /\ dropped.task = cleared[held].task
             /\ dropped.stop = "dropped"
  <2>1. held \in Numbers /\ cleared[held] \in Call
    BY <1>2, <1>6, <1>7
  <2>2. /\ dropped \in Call /\ dropped.worker = cleared[held].worker
        /\ dropped.child = cleared[held].child /\ dropped.id = cleared[held].id
        /\ dropped.sent = cleared[held].sent /\ dropped.task = cleared[held].task
        /\ dropped.stop = "dropped"
    BY <2>1 DEF Call
  <2>. QED BY <1>6, <2>1, <2>2
<1> HIDE DEF dropped
<1>8. /\ calls' \in Seq(Call) /\ Len(calls') = Len(calls) /\ Numbers' = Numbers
      /\ \A d \in Numbers : calls'[d] = IF d = held THEN dropped ELSE cleared[d]
  <2>1. CASE held = 0
    BY <1>1, <1>4, <1>5, <2>1 DEF Numbers
  <2>2. CASE held # 0
    <3>1. held \in DOMAIN cleared
      BY <1>2, <1>5, <2>2
    <3>2. /\ calls' \in Seq(Call) /\ DOMAIN calls' = DOMAIN cleared /\ Len(calls') = Len(cleared)
          /\ \A d \in DOMAIN cleared : calls'[d] = IF d = held THEN dropped ELSE cleared[d]
      BY <1>4, <1>5, <1>7, <2>2, <3>1, Replaced
    <3>. QED BY <1>5, <3>2 DEF Numbers
  <2>. QED BY <2>1, <2>2
<1>9. \A d \in Numbers :
        /\ calls'[d].worker = calls[d].worker /\ calls'[d].child = calls[d].child
        /\ calls'[d].id = calls[d].id /\ calls'[d].sent = calls[d].sent
        /\ calls'[d].stop = IF d = held THEN "dropped" ELSE calls[d].stop
        /\ calls'[d].task = IF d = c THEN "done" ELSE calls[d].task
  BY <1>1, <1>2, <1>6, <1>7, <1>8
<1>10. calls[c].worker \in Over
  BY <1>1, <1>2 DEF FateOK
<1>11. held # 0 => calls[held].id = i /\ calls[held].stop = "armed" /\ c <= held
  BY <1>1 DEF McpInv, EntryInv
<1>12. live' \in [Ids -> {0} \cup Numbers] /\ live'[i] = 0 /\ \A j \in Ids \ {i} : live'[j] = live[j]
  BY <1>1, <1>2 DEF McpInv, SlotInv, McpTypeOK
<1>13. McpTypeOK'
  BY <1>8, <1>12 DEF McpInv, SlotInv, McpTypeOK, ClearId, pipeVars
<1>14. Holders' = Holders
  BY <1>8, <1>9 DEF Holders
<1>15. SlotsAreConserved' /\ NoneWaitsTwice'
  <2>1. free' = free /\ queue' = queue
    BY DEF ClearId
  <2>2. \A d \in Numbers : (\E k \in DOMAIN queue : queue[k] = d) <=> calls'[d].worker = "queued"
    BY <1>9 DEF McpInv, SlotInv, SlotsAreConserved
  <2>3. \A d \in Numbers : calls'[d].child = "alive" => calls'[d].worker = "running"
    BY <1>9 DEF McpInv, SlotInv, SlotsAreConserved
  <2>. QED BY <1>8, <1>14, <2>1, <2>2, <2>3 DEF McpInv, SlotInv, SlotsAreConserved, NoneWaitsTwice
<1>16. EntryInv'
  <2> SUFFICES ASSUME NEW j \in Ids, live'[j] # 0
               PROVE  /\ calls'[live'[j]].id = j /\ calls'[live'[j]].stop = "armed"
                      /\ \A d \in Numbers' : calls'[d].id = j => d <= live'[j]
    BY DEF EntryInv
  <2>1. j # i /\ live'[j] = live[j] /\ live[j] \in Numbers
    BY <1>12 DEF McpInv, SlotInv, McpTypeOK
  <2>2. /\ calls[live[j]].id = j /\ calls[live[j]].stop = "armed"
        /\ \A d \in Numbers : calls[d].id = j => d <= live[j]
    BY <2>1 DEF McpInv, EntryInv
  <2>3. live[j] # held
    BY <1>11, <2>1, <2>2
  <2>. QED BY <1>8, <1>9, <2>1, <2>2, <2>3
<1>17. FateInv'
  BY <1>1, <1>8, <1>9, <1>10, <1>2 DEF FateInv, FateOK
<1>18. DrainInv'
  BY <1>8, <1>9 DEF McpInv, DrainInv, ClearId
<1>19. CancelInv'
  <2> SUFFICES ASSUME NEW d \in Numbers, live'[calls[d].id] # d, calls'[d].stop # "sent",
                      calls'[d].task # "done"
               PROVE  \E e \in 1 .. d - 1 : calls'[e].id = calls[d].id /\ calls'[e].stop = "sent"
    BY <1>8, <1>9 DEF CancelInv
  <2>1. 1 .. d - 1 \subseteq Numbers
    BY <1>1
  <2>2. d # c /\ calls[d].task # "done"
    BY <1>9
  <2>3. ASSUME NEW e \in 1 .. d - 1, calls[e].id = calls[d].id, calls[e].stop = "sent"
        PROVE  calls'[e].id = calls[d].id /\ calls'[e].stop = "sent"
    BY <1>9, <1>11, <2>1, <2>3
  <2>4. CASE d # held
    <3>1. live[calls[d].id] # d
      BY <1>1, <1>12, <2>4
    <3>2. calls[d].stop # "sent"
      BY <1>9, <2>4
    <3>. QED BY <2>2, <2>3, <3>1, <3>2 DEF McpInv, CancelInv
  <2>5. CASE d = held
    <3>1. calls[d].id = i /\ c < d /\ live[i] # c
      BY <1>1, <1>2, <1>11, <2>2, <2>5
    <3>2. CASE calls[c].stop = "sent"
      <4>1. c \in 1 .. d - 1
        BY <1>1, <3>1
      <4>. QED BY <2>3, <3>1, <3>2, <4>1
    <3>3. CASE calls[c].stop # "sent"
      <4>1. PICK e \in 1 .. c - 1 : calls[e].id = i /\ calls[e].stop = "sent"
        BY <1>2, <3>1, <3>3 DEF McpInv, CancelInv
      <4>2. e \in 1 .. d - 1
        BY <1>1, <3>1, <4>1
      <4>. QED BY <2>3, <3>1, <4>1, <4>2
    <3>. QED BY <3>2, <3>3
  <2>. QED BY <2>4, <2>5
<1>. QED BY <1>13, <1>15, <1>16, <1>17, <1>18, <1>19 DEF McpInv, SlotInv

\* The loop accepts a request under an id that is not in flight.
LEMMA RequestStep ==
  ASSUME McpInv, NEW i \in Ids, ReadRequest(i)
  PROVE  McpInv'
<1> DEFINE n == Len(calls) + 1
           rec == NewCall(i)
<1>1. /\ Numbers = 1 .. Len(calls) /\ Len(calls) \in Nat /\ calls \in Seq(Call)
      /\ \A d \in Numbers : calls[d] \in Call
      /\ Holders \subseteq Numbers
  BY HoldersAreFew DEF McpInv, SlotInv, McpTypeOK
<1>2. /\ rec \in Call /\ rec.id = i /\ rec.stop = "armed" /\ rec.worker = "spawned"
      /\ rec.child = "none" /\ rec.task = "watching" /\ rec.sent = 0
  BY DEF NewCall, Call, Worker
<1>3. /\ calls' = Append(calls, rec) /\ live[i] = 0 /\ live' = [live EXCEPT ![i] = n]
      /\ loop = "reading" /\ loop' = "top" /\ lines' = lines + 1
      /\ free' = free /\ queue' = queue /\ panics' = panics /\ channel' = channel /\ writable' = writable
  BY DEF ReadRequest, NextLine, pipeVars
<1> HIDE DEF rec
<1>4. /\ calls' \in Seq(Call) /\ Numbers' = Numbers \cup {n} /\ n \notin Numbers
      /\ \A d \in Numbers : calls'[d] = calls[d]
      /\ calls'[n] = rec
  BY <1>1, <1>2, <1>3, Appended DEF Numbers
<1>5. \A j \in Ids : live[j] \in {0} \cup Numbers
  BY DEF McpInv, SlotInv, McpTypeOK
<1>6. /\ live' \in [Ids -> {0} \cup Numbers'] /\ live'[i] = n
      /\ \A j \in Ids \ {i} : live'[j] = live[j]
  BY <1>3, <1>4 DEF McpInv, SlotInv, McpTypeOK
<1>7. McpTypeOK'
  <2>1. queue \in Seq(Numbers')
    BY <1>4 DEF McpInv, SlotInv, McpTypeOK
  <2>2. channel \in Seq({0} \cup Numbers')
    BY <1>4 DEF McpInv, SlotInv, McpTypeOK
  <2>. QED BY <1>3, <1>4, <1>6, <2>1, <2>2 DEF McpInv, SlotInv, McpTypeOK
<1>8. Holders' = Holders
  BY <1>2, <1>4 DEF Holders
<1>9. SlotsAreConserved' /\ NoneWaitsTwice'
  <2>1. \A k \in DOMAIN queue : queue[k] \in Numbers
    BY EntriesOf DEF McpInv, SlotInv, McpTypeOK
  <2>2. \A d \in Numbers' : (\E k \in DOMAIN queue : queue[k] = d) <=> calls'[d].worker = "queued"
    BY <1>2, <1>4, <2>1 DEF McpInv, SlotInv, SlotsAreConserved
  <2>3. \A d \in Numbers' : calls'[d].child = "alive" => calls'[d].worker = "running"
    BY <1>2, <1>4 DEF McpInv, SlotInv, SlotsAreConserved
  <2>4. free' = free /\ queue' = queue
    BY <1>3
  <2>5. free + Cardinality(Holders) = Slots /\ (queue # <<>> => free = 0) /\ NoneWaitsTwice
    BY DEF McpInv, SlotInv, SlotsAreConserved
  <2>6. NoneWaitsTwice'
    BY <2>4, <2>5 DEF NoneWaitsTwice
  <2>7. SlotsAreConserved'
    BY <1>8, <2>2, <2>3, <2>4, <2>5 DEF SlotsAreConserved
  <2>. QED BY <2>6, <2>7
<1>10. EntryInv'
  <2> SUFFICES ASSUME NEW j \in Ids, live'[j] # 0
               PROVE  /\ calls'[live'[j]].id = j /\ calls'[live'[j]].stop = "armed"
                      /\ \A d \in Numbers' : calls'[d].id = j => d <= live'[j]
    BY DEF EntryInv
  <2>1. CASE j = i
    BY <1>1, <1>2, <1>4, <1>6, <2>1
  <2>2. CASE j # i
    <3>1. live'[j] = live[j] /\ live[j] \in Numbers
      BY <1>5, <1>6, <2>2
    <3>2. /\ calls[live[j]].id = j /\ calls[live[j]].stop = "armed"
          /\ \A d \in Numbers : calls[d].id = j => d <= live[j]
      BY <3>1 DEF McpInv, EntryInv
    <3>. QED BY <1>2, <1>4, <2>2, <3>1, <3>2
  <2>. QED BY <2>1, <2>2
<1>11. FateInv'
  <2>1. FateOK(rec)
    BY <1>2 DEF FateOK
  <2>. QED BY <1>4, <2>1 DEF McpInv, FateInv
<1>12. DrainInv'
  BY <1>3 DEF DrainInv
<1>13. CancelInv'
  <2> SUFFICES ASSUME NEW d \in Numbers', live'[calls'[d].id] # d, calls'[d].stop # "sent",
                      calls'[d].task # "done"
               PROVE  \E e \in 1 .. d - 1 : calls'[e].id = calls'[d].id /\ calls'[e].stop = "sent"
    BY DEF CancelInv
  <2>1. d \in Numbers /\ calls'[d] = calls[d]
    BY <1>2, <1>4, <1>6
  <2>2. live[calls[d].id] # d
    <3>1. calls[d].id \in Ids
      BY <1>1, <2>1 DEF Call
    <3>. QED BY <1>1, <1>3, <1>6, <2>1, <3>1
  <2>3. PICK e \in 1 .. d - 1 : calls[e].id = calls[d].id /\ calls[e].stop = "sent"
    BY <2>1, <2>2 DEF McpInv, CancelInv
  <2>4. e \in Numbers
    BY <1>1, <2>1
  <2>. QED BY <1>4, <2>1, <2>3, <2>4
<1>. QED BY <1>7, <1>9, <1>10, <1>11, <1>12, <1>13 DEF McpInv, SlotInv

\* A cancellation reaches the call its id is in flight for, if any.
LEMMA CancelStep ==
  ASSUME McpInv, NEW i \in Ids, ReadCancel(i)
  PROVE  McpInv'
<1> DEFINE held == live[i]
           rec == [calls[held] EXCEPT !.stop = "sent"]
<1>1. /\ Numbers = 1 .. Len(calls) /\ Len(calls) \in Nat /\ calls \in Seq(Call)
      /\ \A d \in Numbers : calls[d] \in Call /\ calls[d].id \in Ids
  <2>1. \A d \in Numbers : calls[d] \in Call
    BY HoldersAreFew DEF McpInv, SlotInv, McpTypeOK
  <2>. QED BY <2>1, HoldersAreFew DEF McpInv, SlotInv, McpTypeOK, Call
<1>2. /\ held \in {0} \cup Numbers /\ live' = [live EXCEPT ![i] = 0]
      /\ calls' = (IF held = 0 THEN calls ELSE [calls EXCEPT ![held] = rec])
      /\ loop' = "top" /\ lines' = lines + 1
      /\ free' = free /\ queue' = queue /\ panics' = panics /\ channel' = channel /\ writable' = writable
  BY DEF McpInv, SlotInv, McpTypeOK, ReadCancel, NextLine, pipeVars
<1>3. ASSUME held # 0
      PROVE  /\ rec \in Call /\ rec.worker = calls[held].worker /\ rec.child = calls[held].child
             /\ rec.id = calls[held].id /\ rec.stop = "sent" /\ rec.task = calls[held].task
             /\ rec.sent = calls[held].sent
  <2>1. calls[held] \in Call
    BY <1>1, <1>2, <1>3
  <2>. QED BY <2>1 DEF Call
<1> HIDE DEF rec
<1>4. /\ calls' \in Seq(Call) /\ Len(calls') = Len(calls) /\ Numbers' = Numbers
      /\ \A d \in Numbers : calls'[d] = IF d = held THEN rec ELSE calls[d]
  <2>1. CASE held = 0
    BY <1>1, <1>2, <2>1 DEF Numbers
  <2>2. CASE held # 0
    BY <1>2, <1>3, <2>2, ReplacedCall DEF McpInv, SlotInv
  <2>. QED BY <2>1, <2>2
<1>5. \A d \in Numbers :
        /\ calls'[d].worker = calls[d].worker /\ calls'[d].child = calls[d].child
        /\ calls'[d].id = calls[d].id /\ calls'[d].sent = calls[d].sent
        /\ calls'[d].task = calls[d].task
        /\ calls'[d].stop = IF d = held THEN "sent" ELSE calls[d].stop
  BY <1>1, <1>3, <1>4
<1>6. live' \in [Ids -> {0} \cup Numbers] /\ live'[i] = 0 /\ \A j \in Ids \ {i} : live'[j] = live[j]
  BY <1>2 DEF McpInv, SlotInv, McpTypeOK
<1>7. McpTypeOK'
  BY <1>2, <1>4, <1>6 DEF McpInv, SlotInv, McpTypeOK
<1>8. Holders' = Holders
  BY <1>4, <1>5 DEF Holders
<1>9. SlotsAreConserved' /\ NoneWaitsTwice'
  <2>1. \A d \in Numbers : (\E k \in DOMAIN queue : queue[k] = d) <=> calls'[d].worker = "queued"
    BY <1>5 DEF McpInv, SlotInv, SlotsAreConserved
  <2>2. \A d \in Numbers : calls'[d].child = "alive" => calls'[d].worker = "running"
    BY <1>5 DEF McpInv, SlotInv, SlotsAreConserved
  <2>. QED BY <1>2, <1>4, <1>8, <2>1, <2>2 DEF McpInv, SlotInv, SlotsAreConserved, NoneWaitsTwice
<1>10. EntryInv'
  <2> SUFFICES ASSUME NEW j \in Ids, live'[j] # 0
               PROVE  /\ calls'[live'[j]].id = j /\ calls'[live'[j]].stop = "armed"
                      /\ \A d \in Numbers' : calls'[d].id = j => d <= live'[j]
    BY DEF EntryInv
  <2>1. j # i /\ live'[j] = live[j] /\ live[j] \in Numbers
    BY <1>6 DEF McpInv, SlotInv, McpTypeOK
  <2>2. /\ calls[live[j]].id = j /\ calls[live[j]].stop = "armed"
        /\ \A d \in Numbers : calls[d].id = j => d <= live[j]
    BY <2>1 DEF McpInv, EntryInv
  <2>3. live[j] # held
    BY <2>1, <2>2 DEF McpInv, EntryInv
  <2>. QED BY <1>4, <1>5, <2>1, <2>2, <2>3
<1>11. FateInv'
  BY <1>4, <1>5 DEF McpInv, FateInv, FateOK
<1>12. DrainInv'
  BY <1>2 DEF DrainInv
<1>13. CancelInv'
  <2> SUFFICES ASSUME NEW d \in Numbers, live'[calls[d].id] # d, calls'[d].stop # "sent",
                      calls[d].task # "done"
               PROVE  \E e \in 1 .. d - 1 : calls'[e].id = calls[d].id /\ calls'[e].stop = "sent"
    BY <1>4, <1>5 DEF CancelInv
  <2>1. d # held /\ calls[d].stop # "sent"
    BY <1>5
  <2>2. live[calls[d].id] # d
    BY <1>1, <1>6, <2>1
  <2>3. PICK e \in 1 .. d - 1 : calls[e].id = calls[d].id /\ calls[e].stop = "sent"
    BY <2>1, <2>2 DEF McpInv, CancelInv
  <2>4. e \in Numbers
    BY <1>1
  <2>. QED BY <1>5, <2>3, <2>4
<1>. QED BY <1>7, <1>9, <1>10, <1>11, <1>12, <1>13 DEF McpInv, SlotInv

\* The loop, the writer, and a line that names no call.
LEMMA LoopStep ==
  ASSUME McpInv, UNCHANGED callVars, lines' \in Nat, writable' \in BOOLEAN,
         loop' \in {"top", "reading", "draining", "closing", "done"},
         loop' \in {"closing", "done"} =>
           loop \in {"closing", "done"} \/ \A c \in Numbers : calls[c].task = "done",
         channel' \in Seq({0} \cup Numbers)
  PROVE  McpInv'
<1>1. Numbers' = Numbers /\ Holders' = Holders
  BY DEF callVars, Numbers, Holders
<1>2. McpTypeOK'
  BY <1>1 DEF McpInv, SlotInv, McpTypeOK, callVars
<1>3. SlotsAreConserved' /\ NoneWaitsTwice'
  BY <1>1 DEF McpInv, SlotInv, SlotsAreConserved, NoneWaitsTwice, callVars
<1>4. EntryInv' /\ FateInv' /\ CancelInv'
  BY <1>1 DEF McpInv, EntryInv, FateInv, CancelInv, callVars
<1>5. DrainInv'
  BY <1>1 DEF McpInv, DrainInv, callVars
<1>. QED BY <1>2, <1>3, <1>4, <1>5 DEF McpInv, SlotInv

LEMMA McpInitially == McpInit => McpInv
<1> SUFFICES ASSUME McpInit PROVE McpInv
  OBVIOUS
<1>. USE McpAssumption
<1>1. Numbers = {} /\ Holders = {} /\ Cardinality(Holders) = 0
  BY FS_EmptySet DEF McpInit, Numbers, Holders
<1>2. McpTypeOK
  BY <1>1 DEF McpInit, McpTypeOK
<1>3. SlotsAreConserved /\ NoneWaitsTwice
  BY <1>1 DEF McpInit, SlotsAreConserved, NoneWaitsTwice
<1>4. EntryInv /\ FateInv /\ DrainInv /\ CancelInv
  BY <1>1 DEF McpInit, EntryInv, FateInv, DrainInv, CancelInv
<1>. QED BY <1>2, <1>3, <1>4 DEF McpInv, SlotInv

LEMMA McpStep ==
  ASSUME McpInv, [McpNext]_mcpVars
  PROVE  McpInv'
<1>1. /\ loop \in {"top", "reading", "draining", "closing", "done"}
      /\ lines \in Nat /\ lines + 1 \in Nat /\ panics \in Nat /\ panics + 1 \in Nat
      /\ writable \in BOOLEAN /\ channel \in Seq({0} \cup Numbers)
  BY DEF McpInv, SlotInv, McpTypeOK
<1>2. CASE LoopTop
  BY <1>1, <1>2, LoopStep DEF LoopTop, pipeVars
<1>3. CASE ReadMalformed
  BY <1>1, <1>3, LoopStep, SendKeepsType DEF ReadMalformed, NextLine, McpInv, SlotInv
<1>4. ASSUME NEW i \in Ids, ReadRequest(i) PROVE McpInv'
  BY <1>4, RequestStep
<1>5. ASSUME NEW i \in Ids, ReadDuplicate(i) PROVE McpInv'
  BY <1>1, <1>5, LoopStep, SendKeepsType DEF ReadDuplicate, NextLine, McpInv, SlotInv
<1>6. ASSUME NEW i \in Ids, ReadCancel(i) PROVE McpInv'
  BY <1>6, CancelStep
<1>7. CASE ReadEnd
  BY <1>1, <1>7, LoopStep DEF ReadEnd, pipeVars
<1>8. CASE Drained
  BY <1>1, <1>8, LoopStep DEF Drained, pipeVars
<1>9. CASE Closed
  BY <1>1, <1>9, LoopStep DEF Closed, pipeVars
<1>10. CASE Write
  <2>1. channel' \in Seq({0} \cup Numbers)
    BY <1>1, <1>10, Behind DEF Write
  <2>. QED BY <1>1, <1>10, <2>1, LoopStep DEF Write
<1>11. CASE WriteFails
  <2>1. channel' \in Seq({0} \cup Numbers)
    BY <1>11 DEF WriteFails
  <2>. QED BY <1>1, <1>11, <2>1, LoopStep DEF WriteFails
<1>12. ASSUME NEW c \in Numbers, Handler(c) PROVE McpInv'
  <2>1. calls[c].child = "alive" => calls[c].worker = "running"
    BY DEF McpInv, SlotInv, SlotsAreConserved
  <2>2. CASE AnswerAtOnce(c)
    BY <2>1, <2>2, ReplyStep DEF AnswerAtOnce, Over
  <2>3. CASE Acquire(c)
    BY <2>3, AcquireStep
  <2>4. CASE StartChild(c)
    BY <2>4, ChildStep
  <2>5. CASE StartFails(c)
    BY <2>1, <2>5, ReplyStep DEF StartFails, Over
  <2>6. CASE Finish(c)
    BY <2>6, ReplyStep DEF Finish, Over
  <2>7. CASE Cancelled(c)
    BY <1>1, <2>7, EndedCallStep DEF Cancelled
  <2>. QED BY <1>12, <2>2, <2>3, <2>4, <2>5, <2>6, <2>7 DEF Handler
<1>13. ASSUME NEW c \in Numbers, Supervisor(c) PROVE McpInv'
  BY <1>13, SuperviseStep, ClearStep DEF Supervisor
<1>14. ASSUME NEW c \in Numbers, Panic(c) PROVE McpInv'
  BY <1>1, <1>14, EndedCallStep DEF Panic
<1>15. ASSUME NEW c \in Numbers, ChildEnds(c) PROVE McpInv'
  BY <1>15, ChildStep
<1>16. CASE UNCHANGED mcpVars
  BY <1>1, <1>16, LoopStep DEF mcpVars, pipeVars
<1>. QED BY <1>2, <1>3, <1>4, <1>5, <1>6, <1>7, <1>8, <1>9, <1>10, <1>11, <1>12, <1>13, <1>14,
            <1>15, <1>16 DEF McpNext, Client

\* The invariant holds of every behaviour.
THEOREM McpInvariant == McpSpec => []McpInv
<1>. QED BY McpInitially, McpStep, PTL DEF McpSpec

-----------------------------------------------------------------------------
(* What follows                                                            *)

\* Every variable of the server stays in its type.
THEOREM McpTypes == McpSpec => []McpTypeOK
<1>1. McpInv => McpTypeOK
  BY DEF McpInv, SlotInv
<1>. QED BY <1>1, McpInvariant, PTL

\* No slot is lost and none is invented, for any number of slots and calls, and
\* whatever order answers, cancellations and panics come in (lib.rs 24-30,
\* 101-106).
THEOREM SlotsConserved == McpSpec => []SlotsAreConserved
<1>1. McpInv => SlotsAreConserved
  BY DEF McpInv, SlotInv
<1>. QED BY <1>1, McpInvariant, PTL

\* A cancellation reaches the running call it names, unless an older call
\* under the same id had been cancelled (lib.rs 282-289, 352).
THEOREM CancellationsReach == McpSpec => []CancellationReaches
<1>1. ASSUME McpInv PROVE CancellationReaches
  <2> SUFFICES ASSUME NEW c \in Numbers, calls[c].worker \notin Over, live[calls[c].id] # c,
                      calls[c].stop # "sent"
               PROVE  \E d \in 1 .. c - 1 : calls[d].id = calls[c].id /\ calls[d].stop = "sent"
    BY DEF CancellationReaches
  <2>1. calls[c].task # "done"
    BY <1>1 DEF McpInv, FateInv, FateOK
  <2>. QED BY <1>1, <2>1 DEF McpInv, CancelInv
<1>. QED BY <1>1, McpInvariant, PTL

-----------------------------------------------------------------------------
(* McpServer implements OneAnswer                                          *)

Fates == [c \in Numbers |-> FateOf(calls[c])]
Stopped == {c \in Numbers : calls[c].stop = "sent"}

\* A call that is not over is pending; one its supervisor is done with is not.
LEMMA FateOfCall ==
  ASSUME NEW r \in Call, FateOK(r)
  PROVE  /\ r.worker \notin Over => FateOf(r) = "pending"
         /\ r.worker = "replied" => FateOf(r) = "answered"
         /\ r.worker = "silent" => FateOf(r) = "silenced"
         /\ r.worker = "panicked" => FateOf(r) = IF r.task = "watching" THEN "pending" ELSE "answered"
<1>1. r.sent = 0 => FateOf(r) = IF r.worker = "silent" THEN "silenced" ELSE "pending"
  BY DEF FateOf
<1>2. r.sent = 1 /\ r.worker # "silent" => FateOf(r) = "answered"
  <2>1. ASSUME r.sent = 1 PROVE r.sent # 0
    BY <2>1
  <2>. QED BY <2>1 DEF FateOf
<1>3. r.worker \notin Over => r.task = "watching" /\ r.sent = 0 /\ r.worker # "silent"
  BY DEF FateOK, Over
<1>4. r.worker = "replied" => r.sent = 1
  BY DEF FateOK
<1>5. r.worker = "silent" => r.sent = 0
  BY DEF FateOK
<1>6. r.worker = "panicked" => r.sent = IF r.task = "watching" THEN 0 ELSE 1
  BY DEF FateOK
<1>. QED BY <1>1, <1>2, <1>3, <1>4, <1>5, <1>6

\* What a step of one call does to what its client sees.
LEMMA OneFateStep ==
  ASSUME McpInv, NEW c \in Numbers, Others(c), calls'[c].stop = calls[c].stop
  PROVE  Fates' = [Fates EXCEPT ![c] = FateOf(calls'[c])] /\ Stopped' = Stopped
<1>1. Numbers' = Numbers /\ \A d \in Numbers : calls[d] \in Call
  BY HoldersAreFew DEF Others, McpInv, SlotInv, McpTypeOK
<1>2. ASSUME NEW d \in Numbers \ {c}
      PROVE  FateOf(calls'[d]) = FateOf(calls[d]) /\ calls'[d].stop = calls[d].stop
  <2>1. CASE calls'[d] = calls[d]
    BY <2>1
  <2>2. CASE calls[d].worker = "queued" /\ calls'[d] = Granted(calls[d])
    <3>1. /\ calls'[d].worker = "granted" /\ calls[d].worker = "queued"
          /\ calls'[d].sent = calls[d].sent /\ calls'[d].stop = calls[d].stop
      BY <1>1, <2>2, GrantedIsCall
    <3>2. calls'[d].worker # "silent" /\ calls[d].worker # "silent"
      BY <3>1
    <3>3. FateOf(calls'[d]) = FateOf(calls[d])
      BY <3>1, <3>2, Zenon DEF FateOf
    <3>. QED BY <3>1, <3>3
  <2>. QED BY <2>1, <2>2 DEF Others
<1>3. Fates' = [Fates EXCEPT ![c] = FateOf(calls'[c])]
  BY <1>1, <1>2 DEF Fates
<1>4. Stopped' = Stopped
  BY <1>1, <1>2 DEF Stopped
<1>. QED BY <1>3, <1>4

\* A step that leaves every call's fate alone is a stutter.
LEMMA NoFateStep ==
  ASSUME Fates' = Fates, Stopped' = Stopped, loop' = "done" <=> loop = "done"
  PROVE  UNCHANGED Answers!vars
BY DEF Answers!vars, Fates, Stopped

LEMMA AnswerStep ==
  ASSUME McpInv, NEW c \in Numbers, Fates[c] = "pending",
         Fates' = [Fates EXCEPT ![c] = "answered"], Stopped' = Stopped, loop' = loop
  PROVE  Answers!Next
<1>1. Answers!Answer(c)
  BY DEF Answers!Answer, Fates, Stopped
<1>2. DOMAIN Fates = Numbers
  BY DEF Fates
<1>. QED BY <1>1, <1>2 DEF Answers!Next, Fates

LEMMA ReplyAnswers ==
  ASSUME McpInv, NEW c \in Numbers, calls[c].worker \notin Over, calls[c].child # "alive",
         Reply(c, calls[c])
  PROVE  Answers!Next
<1> DEFINE rec == [calls[c] EXCEPT !.worker = "replied", !.sent = @ + 1]
<1>1. calls[c] \in Call /\ FateOK(calls[c])
  BY HoldersAreFew DEF McpInv, SlotInv, McpTypeOK, FateInv
<1>2. /\ rec \in Call /\ rec.worker = "replied" /\ rec.stop = calls[c].stop
      /\ rec.child = calls[c].child
  BY <1>1, RepliedIsCall
<1>3. Leave(c, rec) /\ loop' = loop
  BY DEF Reply
<1> HIDE DEF rec
<1>4. calls'[c] = rec /\ Others(c) /\ Numbers' = Numbers
  BY <1>2, <1>3, LeaveStep DEF McpInv, Over, Others
<1>5. FateOK(rec)
  <2>1. McpInv'
    BY ReplyStep
  <2>. QED BY <1>4, <2>1 DEF McpInv, FateInv
<1>6. FateOf(rec) = "answered" /\ Fates[c] = "pending"
  BY <1>1, <1>2, <1>5, FateOfCall DEF Fates
<1>. QED BY <1>2, <1>3, <1>4, <1>6, OneFateStep, AnswerStep

\* A handler that ends without an answer is silenced if it was cancelled, and
\* waits for its supervisor if it died.
LEMMA EndAnswers ==
  ASSUME McpInv, NEW c \in Numbers, NEW w \in {"silent", "panicked"},
         calls[c].worker \notin Over, w = "silent" => calls[c].stop = "sent",
         Leave(c, [calls[c] EXCEPT !.worker = w, !.child = Killed(calls[c])]), loop' = loop
  PROVE  [Answers!Next]_(Answers!vars)
<1> DEFINE rec == [calls[c] EXCEPT !.worker = w, !.child = Killed(calls[c])]
<1>1. calls[c] \in Call /\ FateOK(calls[c])
  BY HoldersAreFew DEF McpInv, SlotInv, McpTypeOK, FateInv
<1>2. /\ rec \in Call /\ rec.worker = w /\ rec.child # "alive"
      /\ rec.stop = calls[c].stop /\ rec.task = calls[c].task
      /\ FateOK(rec)
  BY <1>1, EndedIsCall
<1>3. Leave(c, rec)
  OBVIOUS
<1> HIDE DEF rec
<1>4. calls'[c] = rec /\ Others(c) /\ Numbers' = Numbers
  BY <1>2, <1>3, LeaveStep DEF McpInv, Over, Others
<1>5. Fates[c] = "pending" /\ calls[c].task = "watching"
  BY <1>1, FateOfCall DEF Fates, FateOK
<1>6. Fates' = [Fates EXCEPT ![c] = FateOf(rec)] /\ Stopped' = Stopped
  BY <1>2, <1>4, OneFateStep
<1>7. CASE w = "silent"
  <2>1. FateOf(rec) = "silenced" /\ c \in Stopped
    BY <1>2, <1>7, FateOfCall DEF Stopped
  <2>2. Answers!Silence(c)
    BY <1>5, <1>6, <2>1 DEF Answers!Silence, Fates, Stopped
  <2>3. DOMAIN Fates = Numbers
    BY DEF Fates
  <2>. QED BY <2>2, <2>3 DEF Answers!Next, Fates
<1>8. CASE w = "panicked"
  <2>1. FateOf(rec) = "pending"
    BY <1>2, <1>5, <1>8, FateOfCall
  <2>2. Fates' = Fates
    BY <1>5, <1>6, <2>1 DEF Fates
  <2>. QED BY <1>6, <2>2, NoFateStep
<1>. QED BY <1>7, <1>8

\* A step of one call that changes no answer, no worker that is silent and no
\* sender is a stutter.
LEMMA QuietCall ==
  ASSUME McpInv, NEW c \in Numbers, Others(c), loop' = loop,
         calls'[c].stop = calls[c].stop, calls'[c].sent = calls[c].sent,
         calls'[c].worker = "silent" <=> calls[c].worker = "silent"
  PROVE  UNCHANGED Answers!vars
<1>1. FateOf(calls'[c]) = FateOf(calls[c])
  BY Zenon DEF FateOf
<1>2. Fates' = [Fates EXCEPT ![c] = FateOf(calls[c])] /\ Stopped' = Stopped
  BY <1>1, OneFateStep
<1>3. Fates' = Fates
  BY <1>2 DEF Fates
<1>. QED BY <1>2, <1>3, NoFateStep

\* A step of the loop or the writer that touches no call.
LEMMA QuietLoop ==
  ASSUME UNCHANGED callVars, loop' = "done" <=> loop = "done"
  PROVE  UNCHANGED Answers!vars
<1>1. Fates' = Fates /\ Stopped' = Stopped
  BY DEF callVars, Fates, Stopped, Numbers
<1>. QED BY <1>1, NoFateStep

LEMMA AcquireIsQuiet ==
  ASSUME McpInv, NEW c \in Numbers, Acquire(c)
  PROVE  UNCHANGED Answers!vars
<1>1. calls[c] \in Call /\ McpTypeOK
  BY HoldersAreFew DEF McpInv, SlotInv, McpTypeOK
<1>2. PICK w \in {"granted", "queued"} : calls' = [calls EXCEPT ![c].worker = w]
  BY DEF Acquire
<1> DEFINE rec == [calls[c] EXCEPT !.worker = w]
<1>3. /\ rec \in Call /\ rec.worker = w /\ rec.stop = calls[c].stop /\ rec.sent = calls[c].sent
  BY <1>1 DEF Call, Worker
<1>4. calls' = [calls EXCEPT ![c] = rec]
  BY <1>2
<1> HIDE DEF rec
<1>5. Others(c) /\ calls'[c] = rec
  BY <1>1, <1>3, <1>4, ReplacedCall
<1>6. calls[c].worker = "spawned" /\ loop' = loop
  BY DEF Acquire
<1>. QED BY <1>3, <1>5, <1>6, QuietCall

LEMMA ChildIsQuiet ==
  ASSUME McpInv, NEW c \in Numbers, StartChild(c) \/ ChildEnds(c)
  PROVE  UNCHANGED Answers!vars
<1>1. calls[c] \in Call /\ McpTypeOK
  BY HoldersAreFew DEF McpInv, SlotInv, McpTypeOK
<1>2. CASE StartChild(c)
  <2> DEFINE rec == [calls[c] EXCEPT !.worker = "running", !.child = "alive"]
  <2>1. rec \in Call /\ rec.worker = "running" /\ rec.stop = calls[c].stop /\ rec.sent = calls[c].sent
    BY <1>1 DEF Call, Worker
  <2>2. calls[c].worker = "granted" /\ calls' = [calls EXCEPT ![c] = rec] /\ loop' = loop
    BY <1>2 DEF StartChild
  <2> HIDE DEF rec
  <2>3. Others(c) /\ calls'[c] = rec
    BY <1>1, <2>1, <2>2, ReplacedCall
  <2>. QED BY <2>1, <2>2, <2>3, QuietCall
<1>3. CASE ChildEnds(c)
  <2> DEFINE rec == [calls[c] EXCEPT !.child = "ended"]
  <2>1. /\ rec \in Call /\ rec.worker = calls[c].worker /\ rec.stop = calls[c].stop
        /\ rec.sent = calls[c].sent
    BY <1>1 DEF Call
  <2>2. calls' = [calls EXCEPT ![c] = rec] /\ loop' = loop
    BY <1>3 DEF ChildEnds
  <2> HIDE DEF rec
  <2>3. Others(c) /\ calls'[c] = rec
    BY <1>1, <2>1, <2>2, ReplacedCall
  <2>. QED BY <2>1, <2>2, <2>3, QuietCall
<1>. QED BY <1>2, <1>3

\* The supervisor's answer is the only one a call that died gets.
LEMMA SuperviseAnswers ==
  ASSUME McpInv, NEW c \in Numbers, Supervise(c)
  PROVE  [Answers!Next]_(Answers!vars)
<1>1. calls[c] \in Call /\ McpTypeOK /\ FateOK(calls[c])
  BY HoldersAreFew DEF McpInv, SlotInv, McpTypeOK, FateInv
<1>2. CASE calls[c].worker = "panicked"
  <2> DEFINE rec == [calls[c] EXCEPT !.task = "clearing", !.sent = @ + 1]
  <2>1. /\ rec \in Call /\ rec.worker = "panicked" /\ rec.stop = calls[c].stop
        /\ rec.task = "clearing"
    <3>1. calls[c].sent + 1 \in Nat
      BY <1>1 DEF Call
    <3>. QED BY <1>1, <1>2, <3>1 DEF Call
  <2>2. calls[c].task = "watching" /\ calls' = [calls EXCEPT ![c] = rec] /\ loop' = loop
    BY <1>2 DEF Supervise
  <2> HIDE DEF rec
  <2>3. Others(c) /\ calls'[c] = rec
    BY <1>1, <2>1, <2>2, ReplacedCall
  <2>4. FateOK(rec)
    <3>1. McpInv'
      BY SuperviseStep
    <3>. QED BY <2>3, <3>1 DEF McpInv, FateInv, Others
  <2>5. FateOf(rec) = "answered" /\ Fates[c] = "pending"
    BY <1>1, <1>2, <2>1, <2>2, <2>4, FateOfCall DEF Fates
  <2>. QED BY <2>1, <2>2, <2>3, <2>5, OneFateStep, AnswerStep
<1>3. CASE calls[c].worker # "panicked"
  <2> DEFINE rec == [calls[c] EXCEPT !.task = "clearing"]
  <2>1. /\ rec \in Call /\ rec.worker = calls[c].worker /\ rec.stop = calls[c].stop
        /\ rec.sent = calls[c].sent
    BY <1>1 DEF Call
  <2>2. calls' = [calls EXCEPT ![c] = rec] /\ loop' = loop
    BY <1>3 DEF Supervise
  <2> HIDE DEF rec
  <2>3. Others(c) /\ calls'[c] = rec
    BY <1>1, <2>1, <2>2, ReplacedCall
  <2>. QED BY <2>1, <2>2, <2>3, QuietCall
<1>. QED BY <1>2, <1>3

\* Clearing an id drops a sender no cancellation has reached.
LEMMA ClearIsQuiet ==
  ASSUME McpInv, NEW c \in Numbers, ClearId(c)
  PROVE  UNCHANGED Answers!vars
<1> DEFINE i == calls[c].id
           held == live[i]
           rec == [calls[c] EXCEPT !.task = "done"]
           cleared == [calls EXCEPT ![c] = rec]
           dropped == [cleared[held] EXCEPT !.stop = "dropped"]
<1>1. /\ Numbers = 1 .. Len(calls) /\ Len(calls) \in Nat /\ calls \in Seq(Call)
      /\ calls[c] \in Call /\ i \in Ids
  <2>1. calls[c] \in Call /\ calls \in Seq(Call)
    BY HoldersAreFew DEF McpInv, SlotInv, McpTypeOK
  <2>. QED BY <2>1, HoldersAreFew DEF McpInv, SlotInv, McpTypeOK, Call
<1>2. held \in {0} \cup Numbers
  BY <1>1 DEF McpInv, SlotInv, McpTypeOK
<1>3. /\ rec \in Call /\ rec.worker = calls[c].worker /\ rec.stop = calls[c].stop
      /\ rec.sent = calls[c].sent
  BY <1>1 DEF Call
<1>4. calls' = (IF held # 0 THEN [cleared EXCEPT ![held] = dropped] ELSE cleared) /\ loop' = loop
  BY DEF ClearId
<1> HIDE DEF rec
<1>5. /\ cleared \in Seq(Call) /\ DOMAIN cleared = Numbers
      /\ \A d \in Numbers : cleared[d] = IF d = c THEN rec ELSE calls[d]
  BY <1>1, <1>3, Replaced DEF Numbers
<1> HIDE DEF cleared
<1>6. \A d \in Numbers :
        /\ cleared[d].worker = calls[d].worker /\ cleared[d].stop = calls[d].stop
        /\ cleared[d].sent = calls[d].sent
  BY <1>3, <1>5
<1>7. ASSUME held # 0
      PROVE  /\ dropped \in Call /\ dropped.worker = calls[held].worker
             /\ dropped.sent = calls[held].sent /\ dropped.stop = "dropped"
             /\ calls[held].stop # "sent"
  <2>1. held \in Numbers /\ cleared[held] \in Call
    BY <1>2, <1>5, <1>7
  <2>2. /\ dropped \in Call /\ dropped.worker = cleared[held].worker
        /\ dropped.sent = cleared[held].sent /\ dropped.stop = "dropped"
    BY <2>1 DEF Call
  <2>3. calls[held].stop = "armed"
    BY <1>1, <1>7 DEF McpInv, EntryInv
  <2>. QED BY <1>6, <2>1, <2>2, <2>3
<1> HIDE DEF dropped
<1>8. DOMAIN calls' = Numbers /\ \A d \in Numbers : calls'[d] = IF d = held THEN dropped ELSE cleared[d]
  <2>1. CASE held = 0
    BY <1>1, <1>4, <1>5, <2>1
  <2>2. CASE held # 0
    <3>1. held \in DOMAIN cleared
      BY <1>2, <1>5, <2>2
    <3>. QED BY <1>4, <1>5, <1>7, <2>2, <3>1, Replaced
  <2>. QED BY <2>1, <2>2
<1> HIDE DEF held
<1>9. \A d \in Numbers :
        /\ calls'[d].worker = calls[d].worker /\ calls'[d].sent = calls[d].sent
        /\ calls'[d].stop = "sent" <=> calls[d].stop = "sent"
  <2> SUFFICES ASSUME NEW d \in Numbers
               PROVE  /\ calls'[d].worker = calls[d].worker /\ calls'[d].sent = calls[d].sent
                      /\ calls'[d].stop = "sent" <=> calls[d].stop = "sent"
    OBVIOUS
  <2>1. CASE d = held
    <3>1. held # 0
      BY <1>1, <2>1
    <3>. QED BY <1>7, <1>8, <2>1, <3>1
  <2>2. CASE d # held
    BY <1>6, <1>8, <2>2
  <2>. QED BY <2>1, <2>2
<1>10. Fates' = Fates
  <2>1. \A d \in Numbers : FateOf(calls'[d]) = FateOf(calls[d])
    BY <1>9 DEF FateOf
  <2>. QED BY <1>8, <2>1 DEF Fates, Numbers
<1>11. Stopped' = Stopped
  BY <1>8, <1>9 DEF Stopped, Numbers
<1>. QED BY <1>4, <1>10, <1>11, NoFateStep

\* A request accepted is one asked.
LEMMA RequestAsks ==
  ASSUME McpInv, NEW i \in Ids, ReadRequest(i)
  PROVE  Answers!Next
<1> DEFINE n == Len(calls) + 1
           rec == NewCall(i)
<1>1. Numbers = 1 .. Len(calls) /\ Len(calls) \in Nat /\ calls \in Seq(Call)
  BY HoldersAreFew DEF McpInv, SlotInv, McpTypeOK
<1>2. rec \in Call /\ rec.stop = "armed" /\ rec.worker = "spawned" /\ rec.sent = 0
  BY DEF NewCall, Call, Worker
<1>3. calls' = Append(calls, rec) /\ loop = "reading" /\ loop' = "top"
  BY DEF ReadRequest, NextLine
<1> HIDE DEF rec
<1>4. /\ Numbers' = 1 .. n
      /\ \A d \in Numbers : calls'[d] = calls[d]
      /\ calls'[n] = rec
  BY <1>1, <1>2, <1>3, Appended DEF Numbers
<1>5. FateOf(rec) = "pending"
  BY <1>2 DEF FateOf
<1>6. /\ Fates = [d \in 1 .. Len(calls) |-> FateOf(calls[d])]
      /\ Fates' = [d \in 1 .. n |-> FateOf(calls'[d])]
  BY <1>1, <1>4 DEF Fates
<1>7. Fates' = Append(Fates, "pending")
  <2> DEFINE S == {"silenced", "pending", "answered", "answered twice"}
  <2>1. \A d \in Numbers : FateOf(calls[d]) \in S
    BY DEF FateOf
  <2>2. \A d \in Numbers : Fates'[d] = Fates[d] /\ Fates[d] \in S
    <3> SUFFICES ASSUME NEW d \in Numbers PROVE Fates'[d] = Fates[d] /\ Fates[d] \in S
      OBVIOUS
    <3>1. d \in 1 .. Len(calls) /\ d \in 1 .. n
      BY <1>1
    <3>2. Fates[d] = FateOf(calls[d])
      BY <1>6, <3>1, Zenon
    <3>3. Fates'[d] = FateOf(calls'[d])
      BY <1>6, <3>1, Zenon
    <3>4. FateOf(calls'[d]) = FateOf(calls[d])
      BY <1>4, Zenon
    <3>. QED BY <2>1, <3>2, <3>3, <3>4, Zenon
  <2>3. Fates'[n] = "pending"
    <3>1. n \in 1 .. n
      BY <1>1
    <3>2. Fates'[n] = FateOf(calls'[n])
      BY <1>6, <3>1, Zenon
    <3>. QED BY <1>4, <1>5, <3>2, Zenon
  <2>4. ASSUME NEW d \in 1 .. n PROVE Fates'[d] \in S
    <3>1. CASE d = n
      BY <2>3, <3>1
    <3>2. CASE d # n
      <4>1. d \in Numbers
        BY <1>1, <3>2
      <4>. QED BY <2>2, <4>1, Zenon
    <3>. QED BY <3>1, <3>2
  <2>5. Fates \in [1 .. Len(calls) -> S]
    BY <1>1, <1>6, <2>2, Zenon
  <2>6. Fates' \in [1 .. n -> S]
    BY <1>6, <2>4, Zenon
  <2> HIDE DEF S
  <2>7. "pending" \in S
    BY DEF S
  <2>. QED BY <1>1, <2>2, <2>3, <2>5, <2>6, <2>7, OneMore
<1>8. Stopped' = Stopped
  BY <1>1, <1>2, <1>4 DEF Stopped
<1>9. Answers!Ask
  BY <1>3, <1>7, <1>8 DEF Answers!Ask, Fates, Stopped
<1>. QED BY <1>9 DEF Answers!Next

\* A cancellation that reaches a call stops it.
LEMMA CancelStops ==
  ASSUME McpInv, NEW i \in Ids, ReadCancel(i)
  PROVE  [Answers!Next]_(Answers!vars)
<1> DEFINE held == live[i]
           rec == [calls[held] EXCEPT !.stop = "sent"]
<1>1. /\ McpTypeOK /\ held \in {0} \cup Numbers /\ loop = "reading" /\ loop' = "top"
      /\ \A d \in Numbers : calls[d] \in Call
  BY HoldersAreFew DEF McpInv, SlotInv, McpTypeOK, ReadCancel, NextLine
<1>2. CASE held = 0
  <2>1. calls' = calls
    BY <1>2 DEF ReadCancel
  <2>2. Fates' = Fates /\ Stopped' = Stopped
    BY <2>1 DEF Fates, Stopped, Numbers
  <2>. QED BY <1>1, <2>2, NoFateStep
<1>3. CASE held # 0
  <2>1. PICK k \in Numbers : k = held
    BY <1>1, <1>3
  <2>2. /\ rec \in Call /\ rec.worker = calls[k].worker /\ rec.stop = "sent"
        /\ rec.sent = calls[k].sent
    BY <1>1, <2>1 DEF Call
  <2>3. calls' = [calls EXCEPT ![k] = rec]
    BY <1>3, <2>1 DEF ReadCancel
  <2> HIDE DEF rec
  <2>4. /\ Numbers' = Numbers
        /\ \A d \in Numbers : calls'[d] = IF d = k THEN rec ELSE calls[d]
    BY <1>1, <2>1, <2>2, <2>3, ReplacedCall
  <2>5. Fates' = Fates
    <3>1. FateOf(rec) = FateOf(calls[k])
      BY <2>2 DEF FateOf
    <3>2. \A d \in Numbers : FateOf(calls'[d]) = FateOf(calls[d])
      BY <2>4, <3>1
    <3>. QED BY <2>4, <3>2 DEF Fates
  <2>6. Stopped' = Stopped \cup {k}
    BY <2>1, <2>2, <2>4 DEF Stopped
  <2>7. Answers!Stop(k)
    BY <1>1, <2>5, <2>6 DEF Answers!Stop, Fates, Stopped
  <2>8. DOMAIN Fates = Numbers
    BY DEF Fates
  <2>9. Answers!Next
    BY <2>1, <2>7, <2>8 DEF Answers!Next, Fates
  <2>. QED BY <2>9
<1>. QED BY <1>2, <1>3

\* The server goes when every call is settled.
LEMMA ClosedGoes ==
  ASSUME McpInv, Closed
  PROVE  Answers!Next
<1>1. /\ loop = "closing" /\ loop' = "done" /\ UNCHANGED callVars
  BY DEF Closed
<1>2. \A d \in Numbers : calls[d] \in Call /\ FateOK(calls[d]) /\ calls[d].task = "done"
  BY <1>1, HoldersAreFew DEF McpInv, SlotInv, McpTypeOK, FateInv, DrainInv
<1>3. \A d \in Numbers : FateOf(calls[d]) # "pending"
  <2> SUFFICES ASSUME NEW d \in Numbers PROVE FateOf(calls[d]) # "pending"
    OBVIOUS
  <2>1. calls[d].worker \in Over
    BY <1>2 DEF FateOK
  <2>. QED BY <1>2, <2>1, FateOfCall DEF Over
<1>4. Fates' = Fates /\ Stopped' = Stopped
  BY <1>1 DEF callVars, Fates, Stopped, Numbers
<1>5. Answers!Go
  BY <1>1, <1>3, <1>4 DEF Answers!Go, Fates, Stopped
<1>. QED BY <1>5 DEF Answers!Next

LEMMA McpImplementsStep ==
  ASSUME McpInv, [McpNext]_mcpVars
  PROVE  [Answers!Next]_(Answers!vars)
<1>1. CASE LoopTop \/ ReadEnd \/ Drained \/ Write \/ WriteFails \/ ReadMalformed \/ UNCHANGED mcpVars
  BY <1>1, QuietLoop DEF LoopTop, ReadEnd, Drained, Write, WriteFails, ReadMalformed, NextLine, mcpVars,
     callVars
<1>2. ASSUME NEW i \in Ids, ReadDuplicate(i) PROVE [Answers!Next]_(Answers!vars)
  BY <1>2, QuietLoop DEF ReadDuplicate, NextLine
<1>3. ASSUME NEW i \in Ids, ReadRequest(i) \/ ReadCancel(i) PROVE [Answers!Next]_(Answers!vars)
  BY <1>3, RequestAsks, CancelStops
<1>4. CASE Closed
  BY <1>4, ClosedGoes
<1>5. ASSUME NEW c \in Numbers, Handler(c) PROVE [Answers!Next]_(Answers!vars)
  <2>1. calls[c].child = "alive" => calls[c].worker = "running"
    BY DEF McpInv, SlotInv, SlotsAreConserved
  <2>2. CASE AnswerAtOnce(c)
    BY <2>1, <2>2, ReplyAnswers DEF AnswerAtOnce, Over
  <2>3. CASE Acquire(c)
    BY <2>3, AcquireIsQuiet
  <2>4. CASE StartChild(c)
    BY <2>4, ChildIsQuiet
  <2>5. CASE StartFails(c)
    BY <2>1, <2>5, ReplyAnswers DEF StartFails, Over
  <2>6. CASE Finish(c)
    BY <2>6, ReplyAnswers DEF Finish, Over
  <2>7. CASE Cancelled(c)
    BY <2>7, EndAnswers DEF Cancelled
  <2>. QED BY <1>5, <2>2, <2>3, <2>4, <2>5, <2>6, <2>7 DEF Handler
<1>6. ASSUME NEW c \in Numbers, Supervisor(c) PROVE [Answers!Next]_(Answers!vars)
  BY <1>6, SuperviseAnswers, ClearIsQuiet DEF Supervisor
<1>7. ASSUME NEW c \in Numbers, Panic(c) PROVE [Answers!Next]_(Answers!vars)
  BY <1>7, EndAnswers DEF Panic
<1>8. ASSUME NEW c \in Numbers, ChildEnds(c) PROVE [Answers!Next]_(Answers!vars)
  BY <1>8, ChildIsQuiet
<1>. QED BY <1>1, <1>2, <1>3, <1>4, <1>5, <1>6, <1>7, <1>8 DEF McpNext, Client

\* Each accepted request is answered once, or silenced by its own cancellation,
\* and serve returns only after that (lib.rs 364-381): for every number of ids,
\* slots and calls, McpServer implements OneAnswer.
THEOREM McpImplementsOneAnswer == McpSpec => SettlesEachRequestOnce
<1>1. McpInit => Answers!Init
  BY DEF McpInit, Answers!Init, Numbers
<1>2. McpInv /\ [McpNext]_mcpVars => [Answers!Next]_(Answers!vars)
  BY McpImplementsStep
<1>. QED BY <1>1, <1>2, McpInvariant, PTL DEF McpSpec, SettlesEachRequestOnce, Answers!Spec
=============================================================================
