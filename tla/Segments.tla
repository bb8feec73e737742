------------------------------ MODULE Segments ------------------------------
(***************************************************************************)
(* The two chunkers that cut where the text says: SentenceChunking         *)
(* (yeomna-chunking/src/strategies.rs) at the ends of sentences, and       *)
(* AstChunking (yeomna-code/src/chunking.rs) at the definitions an         *)
(* analyzer found, then at lines.  A plan is one text and one policy; a    *)
(* step of the loop takes one sentence, one definition, one line.          *)
(*                                                                         *)
(* A place is the number of characters before it, and a span is two        *)
(* places.  The code keeps bytes; Bytes gives the length it compares.      *)
(***************************************************************************)
EXTENDS Naturals, Sequences, FiniteSets

CONSTANTS
  SegTexts,  \* the texts: letter, wide (two bytes), space, line (feed), stop (a full stop)
  Maxes,     \* the sizes asked for
  Mins,      \* the smallest trailing chunk asked for
  Defs       \* the lists of definitions, as spans; one may end past the text

VARIABLES
  plan,    \* the chunker, the text and the policy
  loop,    \* the locals of the loop, see Loop
  pieces   \* the chunks so far, as spans
segmentVars == <<plan, loop, pieces>>

ASSUME SegmentsAssumption ==
  /\ SegTexts \subseteq Seq({"letter", "wide", "space", "line", "stop"})
  /\ Maxes \subseteq Nat /\ Mins \subseteq Nat
  \* No node of a syntax tree ends before it starts.
  /\ \A d \in Defs : d \in Seq(Nat \X Nat) /\ \A i \in DOMAIN d : d[i][1] <= d[i][2]

Blank(c) == c \in {"space", "line"}
AllBlank(text, from, to) == \A i \in from + 1 .. to : Blank(text[i])
Bytes(text, from, to) == (to - from) + Cardinality({i \in from + 1 .. to : text[i] = "wide"})
AtMost(a, b) == IF a < b THEN a ELSE b
First(places) == CHOOSE p \in places : \A q \in places : p <= q

-----------------------------------------------------------------------------
(* Sentences                                                               *)

\* A sentence ends after a stop that white space or the end follows; the white
\* space belongs to none, and what is left without a stop is the last.
SplitSentences(text) ==
  LET n == Len(text)
      stops == {p \in 1 .. n : text[p] = "stop" /\ (p = n \/ Blank(text[p + 1]))}
      Resume(p) == First({q \in p .. n : q = n \/ ~Blank(text[q + 1])})
      last == IF stops = {} THEN 0 ELSE CHOOSE p \in stops : \A q \in stops : q <= p
      rest == stops = {} \/ Resume(last) < n
      ends == IF rest THEN stops \cup {n} ELSE stops
      before(p) == {q \in stops : q < p}
      From(p) == IF before(p) = {} THEN 0 ELSE Resume(CHOOSE q \in before(p) : \A r \in before(p) : r <= q)
      Kth(k) == CHOOSE p \in ends : Cardinality({q \in ends : q < p}) = k - 1
  IN [k \in 1 .. Cardinality(ends) |-> <<From(Kth(k)), Kth(k)>>]

\* sentence: i the next sentence, <<from, to>> the chunk being built, chars its
\* length as the loop adds it up.  ast: i the next definition, <<from, to>> the
\* sub-chunk being built of raw's head, chars the cursor of the walk.
Loop == [i |-> 1, from |-> 0, to |-> 0, chars |-> 0, raw |-> <<>>, at |-> "walk"]

SentencePlans ==
  {[by |-> "sentence", text |-> t, cuts |-> SplitSentences(t), max |-> m, min |-> s] :
     t \in SegTexts \ {<<>>}, m \in Maxes, s \in Mins}

\* A sentence joins the chunk, with the white space between, or opens another.
TakeSentence ==
  /\ plan.by = "sentence" /\ loop.at = "walk" /\ loop.i <= Len(plan.cuts)
  /\ LET s == plan.cuts[loop.i]
         own == s[2] - s[1]
         combined == loop.chars + (s[1] - loop.to) + own
         flush == loop.chars > 0 /\ combined > plan.max
     IN /\ pieces' = IF flush THEN Append(pieces, <<loop.from, loop.to>>) ELSE pieces
        /\ loop' = [loop EXCEPT !.i = loop.i + 1, !.to = s[2],
                      !.from = IF flush THEN s[1] ELSE loop.from,
                      !.chars = IF flush \/ loop.chars = 0 THEN own ELSE combined]
  /\ UNCHANGED plan

\* The last chunk, or a tail of the one before when it is small and fits there.
FlushSentences ==
  /\ plan.by = "sentence" /\ loop.at = "walk" /\ loop.i > Len(plan.cuts)
  /\ LET n == Len(pieces)
         merge == /\ loop.chars < plan.min /\ n > 0
                  /\ loop.to - pieces[n][1] <= plan.max
     IN pieces' = IF loop.to <= loop.from THEN pieces
                  ELSE IF merge THEN [pieces EXCEPT ![n] = <<pieces[n][1], loop.to>>]
                  ELSE Append(pieces, <<loop.from, loop.to>>)
  /\ loop' = [loop EXCEPT !.at = "done"]
  /\ UNCHANGED plan

-----------------------------------------------------------------------------
(* Definitions, then lines                                                 *)

AstPlans ==
  {[by |-> "ast", text |-> t, cuts |-> d, max |-> m, min |-> 0] :
     t \in SegTexts \ {<<>>}, d \in Defs, m \in Maxes}

\* The code before a definition, unless it is blank, and the definition.  The
\* definitions come as the analyzer lists them: one may lie inside another.
TakeDefinition ==
  /\ plan.by = "ast" /\ loop.at = "walk" /\ loop.i <= Len(plan.cuts)
  /\ LET n == Len(plan.text)
         from == AtMost(plan.cuts[loop.i][1], n)
         to == AtMost(plan.cuts[loop.i][2], n)
         gap == IF from > loop.chars /\ ~AllBlank(plan.text, loop.chars, from)
                THEN <<<<loop.chars, from>>>> ELSE <<>>
         def == IF from < to THEN <<<<from, to>>>> ELSE <<>>
     IN loop' = [loop EXCEPT !.i = loop.i + 1, !.raw = loop.raw \o gap \o def, !.chars = to]
  /\ UNCHANGED <<plan, pieces>>

\* The rest of the file, or all of it when nothing is defined there.
TakeTail ==
  /\ plan.by = "ast" /\ loop.at = "walk" /\ loop.i > Len(plan.cuts)
  /\ LET n == Len(plan.text)
         tail == IF plan.cuts = <<>> \/ (loop.chars < n /\ ~AllBlank(plan.text, loop.chars, n))
                 THEN <<<<loop.chars, n>>>> ELSE <<>>
         raw == loop.raw \o tail
         first == IF raw = <<>> THEN 0 ELSE raw[1][1]
     IN loop' = [loop EXCEPT !.at = "split", !.raw = raw, !.from = first, !.to = first]
  /\ UNCHANGED <<plan, pieces>>

\* On to the next raw chunk.
NextRaw ==
  LET raw == Tail(loop.raw)
      first == IF raw = <<>> THEN 0 ELSE raw[1][1]
  IN loop' = [loop EXCEPT !.raw = raw, !.from = first, !.to = first]

Fits == Bytes(plan.text, loop.raw[1][1], loop.raw[1][2]) <= plan.max

KeepWhole ==
  /\ plan.by = "ast" /\ loop.at = "split" /\ loop.raw # <<>> /\ Fits
  /\ pieces' = Append(pieces, loop.raw[1])
  /\ NextRaw
  /\ UNCHANGED plan

\* split_at_lines: a line with its line feed joins the sub-chunk or opens another.
SplitAtLine ==
  /\ plan.by = "ast" /\ loop.at = "split" /\ loop.raw # <<>> /\ ~Fits
  /\ LET end == loop.raw[1][2]
         line == First({p \in loop.to + 1 .. end : p = end \/ plan.text[p] = "line"})
         flush == loop.from < loop.to /\ Bytes(plan.text, loop.from, line) > plan.max
         from == IF flush THEN loop.to ELSE loop.from
         flushed == IF flush THEN Append(pieces, <<loop.from, loop.to>>) ELSE pieces
     IN IF line = end
        THEN pieces' = Append(flushed, <<from, line>>) /\ NextRaw
        ELSE pieces' = flushed /\ loop' = [loop EXCEPT !.from = from, !.to = line]
  /\ UNCHANGED plan

AstEnds ==
  /\ plan.by = "ast" /\ loop.at = "split" /\ loop.raw = <<>>
  /\ loop' = [loop EXCEPT !.at = "done"]
  /\ UNCHANGED <<plan, pieces>>

SegmentsInit == plan \in SentencePlans \cup AstPlans /\ loop = Loop /\ pieces = <<>>

SegmentsNext ==
  \/ TakeSentence \/ FlushSentences
  \/ TakeDefinition \/ TakeTail \/ KeepWhole \/ SplitAtLine \/ AstEnds

SegmentsSpec == SegmentsInit /\ [][SegmentsNext]_segmentVars

-----------------------------------------------------------------------------
(* Properties                                                              *)

Done == loop.at = "done"
CharsOf(span) == span[1] + 1 .. span[2]
Covered == UNION {CharsOf(pieces[i]) : i \in DOMAIN pieces}

(***************************************************************************)
(* Sentences stay whole and in order: a chunk is a run of them, each is in *)
(* one chunk, and a chunk above the maximum is one sentence.  The length   *)
(* the loop adds up is the length of what it holds.  And no chunk could    *)
(* have taken the first sentence of the next: chunks are cut only where    *)
(* they must be (so a small tail is never one that could be merged).       *)
(***************************************************************************)
SentencesStayWhole ==
  plan.by = "sentence" =>
    LET cuts == plan.cuts
        Runs(span, a, b) == span = <<cuts[a][1], cuts[b][2]>>
        Begins(span) == CHOOSE a \in DOMAIN cuts : cuts[a][1] = span[1]
    IN /\ \A i \in DOMAIN pieces :
            /\ \E a, b \in DOMAIN cuts :
                 /\ a <= b /\ Runs(pieces[i], a, b)
                 /\ pieces[i][2] - pieces[i][1] > plan.max => a = b
                 /\ i = 1 => a = 1
                 /\ i + 1 \in DOMAIN pieces => b + 1 \in DOMAIN cuts /\ pieces[i + 1][1] = cuts[b + 1][1]
            /\ i + 1 \in DOMAIN pieces => cuts[Begins(pieces[i + 1])][2] - pieces[i][1] > plan.max
       /\ loop.chars = loop.to - loop.from
       /\ Done => Len(pieces) > 0 /\ pieces[Len(pieces)][2] = cuts[Len(cuts)][2]

\* The definitions come in order and none inside another.
Disjoint == \A i \in 1 .. Len(plan.cuts) - 1 : plan.cuts[i][2] <= plan.cuts[i + 1][1]

(***************************************************************************)
(* No code is lost: when the chunker is done every character that is not   *)
(* blank is in a chunk, whatever the analyzer's definitions do, one inside *)
(* another or one past the text.  When they are disjoint it is in one and  *)
(* the chunks are in the order of the file.  A chunk above the maximum is  *)
(* a single line, and every cut inside a definition is at a line feed.     *)
(***************************************************************************)
NoCodeIsLost ==
  plan.by = "ast" =>
    /\ Done => \A c \in DOMAIN plan.text : ~Blank(plan.text[c]) => c \in Covered
    /\ Disjoint => \A i \in 1 .. Len(pieces) - 1 : pieces[i][2] <= pieces[i + 1][1]
    /\ \A i \in DOMAIN pieces :
         LET s == pieces[i] IN
         /\ s[1] < s[2]
         /\ Bytes(plan.text, s[1], s[2]) > plan.max =>
              \A c \in s[1] + 1 .. s[2] - 1 : plan.text[c] # "line"
         /\ \/ s[1] \in {0} \cup {AtMost(d[k], Len(plan.text)) : d \in {plan.cuts[j] : j \in DOMAIN plan.cuts}, k \in {1, 2}}
            \/ plan.text[s[1]] = "line"
=============================================================================
