------------------------------ MODULE Windows ------------------------------
(***************************************************************************)
(* The window rule, and its five readers: late_chunk_embeddings            *)
(* (yeomna-chunking/src/late.rs), the embedder's window_boundaries and its *)
(* byte spans (services/embedder/server.py), TokenChunking and             *)
(* SlidingWindowChunking (yeomna-chunking/src/strategies.rs), and          *)
(* HashEmbedder (yeomna-pipeline/src/embed.rs).  A job is one document and *)
(* one policy; the loop opens one window a step.                           *)
(*                                                                         *)
(* A text is a sequence of characters, of which the kind is kept: a        *)
(* letter, a wide letter (two bytes), a space.  units are what is counted, *)
(* each with its span in characters.                                       *)
(***************************************************************************)
EXTENDS Naturals, Sequences, FiniteSets

CONSTANTS
  Texts,     \* the documents
  Sizes,     \* the sizes asked for, 0 among them
  Overlaps,  \* the overlaps, which may reach the size
  Ceiling    \* the most tokens the embedder takes of one document

VARIABLES
  job,      \* the document and the policy
  start,    \* the unit the next window starts at
  windows,  \* the windows opened, as units: from (counted) and to (not counted)
  open      \* whether the loop still runs
windowVars == <<job, start, windows, open>>

ASSUME WindowsAssumption ==
  /\ Texts \subseteq Seq({"letter", "wide", "space"})
  /\ Sizes \subseteq Nat /\ Overlaps \subseteq Nat /\ Ceiling \in Nat \ {0}

Least(a, b) == IF a < b THEN a ELSE b
Most(a, b) == IF a < b THEN b ELSE a

-----------------------------------------------------------------------------
(* Characters, bytes and tokens                                            *)

Width(c) == IF c = "wide" THEN 2 ELSE 1

\* Where each character starts, in bytes; the last entry is the length.
ByteAt(text) ==
  LET at[i \in 0 .. Len(text)] == IF i = 0 THEN 0 ELSE at[i - 1] + Width(text[i]) IN at

\* The words of a text, as spans of characters: runs without white space.
TokenSpans(text) ==
  LET Word(a, b) ==
        /\ a < b /\ \A i \in a + 1 .. b : text[i] # "space"
        /\ a = 0 \/ text[a] = "space"
        /\ b = Len(text) \/ text[b + 1] = "space"
      words == {s \in (0 .. Len(text)) \X (0 .. Len(text)) : Word(s[1], s[2])}
  IN [k \in 1 .. Cardinality(words) |->
        CHOOSE s \in words : Cardinality({t \in words : t[1] < s[1]}) = k - 1]

\* HashEmbedder counts the same runs, byte by byte.
HashTokens(text) == TokenSpans(text)

\* The task's prefix, "Passage: ": a letter and the space that joins it.
Prefix == <<"letter", "space">>

\* What the model's tokenizer may report of a string: its characters cut
\* anywhere into tokens, and a wide one perhaps cut into two tokens that both
\* report the whole character.  A special token reports an empty span.
Tokenizations(n) ==
  LET Cut(ends, k) == CHOOSE e \in ends : Cardinality({f \in ends : f < e}) = k - 1
      Of(ends) == [k \in 1 .. Cardinality(ends) |-> <<IF k = 1 THEN 0 ELSE Cut(ends, k - 1), Cut(ends, k)>>]
      plain == {Of(ends \cup {n}) : ends \in SUBSET (1 .. n - 1)}
  IN plain \cup {<<<<0, 0>>>> \o s : s \in plain} \cup {Append(s, s[Len(s)]) : s \in plain}

\* How many leading tokens lie wholly inside the prefix.
PrefixTokens(tokens, chars) ==
  LET Inside(s) == s[2] <= s[1] \/ s[2] <= chars
  IN Cardinality({k \in DOMAIN tokens : \A i \in 1 .. k : Inside(tokens[i])})

\* Mutant: the tokenizer's character offsets taken for bytes.
ByteSpanOfCharacters(tokens, w, text) ==
  LET chars == Len(Prefix)
      seen == {i \in w.from + 1 .. w.to : tokens[i][1] < tokens[i][2]}
      lo == CHOOSE b \in {tokens[i][1] : i \in seen} : \A i \in seen : b <= tokens[i][1]
      hi == CHOOSE b \in {tokens[i][2] : i \in seen} : \A i \in seen : b >= tokens[i][2]
      Own(b) == IF b > chars THEN b - chars ELSE 0
  IN IF seen = {} THEN <<0, 0>> ELSE <<Own(lo), Most(Own(lo), Own(hi))>>

\* The bytes of the caller's text a window of tokens stands for: characters to
\* bytes, less the prefix, a token that straddles it cut at 0.
ByteSpan(tokens, w, text) ==
  LET at == ByteAt(Prefix \o text)
      chars == Len(Prefix)
      seen == {i \in w.from + 1 .. w.to : tokens[i][1] < tokens[i][2]}
      Clamp(c) == Least(Most(c, chars), chars + Len(text))
      froms == {at[Clamp(tokens[i][1])] : i \in seen}
      tos == {at[Clamp(tokens[i][2])] : i \in seen}
      lo == CHOOSE b \in froms : \A c \in froms : b <= c
      hi == CHOOSE b \in tos : \A c \in tos : b >= c
      Own(b) == IF b > at[chars] THEN b - at[chars] ELSE 0
  IN IF seen = {} THEN <<0, 0>> ELSE <<Own(lo), Most(Own(lo), Own(hi))>>

-----------------------------------------------------------------------------
(* The jobs: what each implementation counts, and the policy it applies    *)

\* saturating_sub, then at least 1: an overlap that reaches the size goes on.
Step(size, overlap) == Most(IF overlap < size THEN size - overlap ELSE 0, 1)

Job(by, text, tokens, skip, size, step) ==
  [by |-> by, text |-> text, tokens |-> tokens, skip |-> skip,
   n |-> Len(tokens) - skip, size |-> size, step |-> step]

\* A size of 0 is taken as it is: the windows are then of nothing, one a token.
LateJobs ==
  {Job("late", t, TokenSpans(t), 0, s, Step(s, o)) : t \in Texts, s \in Sizes, o \in Overlaps}

\* One window over the whole text, as wide as the embedder takes.
WholeText == Most(Ceiling, 1)

\* The embedder refuses a size of 0, an empty text, a document with no tokens of
\* its own and one above the ceiling; of the rest it encodes prefix and text.
ServiceJobs ==
  {j \in UNION {{Job("service", t, s, PrefixTokens(s, Len(Prefix)), p[1], Step(p[1], p[2])) :
                  s \in Tokenizations(Len(Prefix) + Len(t)), p \in (Sizes \X Overlaps) \cup {<<WholeText, 0>>}} :
                t \in Texts \ {<<>>}} :
     j.size >= 1 /\ j.n \in 1 .. Ceiling}

\* No chunk at all of a blank text, or when the size is 0.
TokenJobs ==
  {Job("token", t, TokenSpans(t), 0, s, Step(s, o)) : t \in Texts, s \in Sizes \ {0}, o \in Overlaps}

\* A size of 0 counts as 1; a text with no tokens is refused.
HashJobs ==
  {j \in {Job("hash", t, HashTokens(t), 0, Most(s, 1), Step(Most(s, 1), o)) :
            t \in Texts, s \in Sizes, o \in Overlaps} : j.n > 0}

\* Characters, and a step of the caller's own: above the window it leaves gaps.
SlidingJobs ==
  {Job("sliding", t, [i \in 1 .. Len(t) |-> <<i - 1, i>>], 0, s, Most(step, 1)) :
     t \in Texts, s \in Sizes \ {0}, step \in Overlaps}

Jobs == LateJobs \cup ServiceJobs \cup TokenJobs \cup HashJobs \cup SlidingJobs

-----------------------------------------------------------------------------
(* The loop                                                                *)

WindowsInit == job \in Jobs /\ start = 0 /\ windows = <<>> /\ open = TRUE

\* A window from start, clamped to the end; the first that reaches it is last.
OpenWindow ==
  /\ open /\ start < job.n
  /\ LET end == Least(start + job.size, job.n) IN
       /\ windows' = Append(windows, [from |-> start, to |-> end])
       /\ IF end >= job.n
          THEN open' = FALSE /\ UNCHANGED start
          ELSE start' = start + job.step /\ UNCHANGED open
  /\ UNCHANGED job

\* Past the end: of an empty document, or between two windows with a gap.
RunsOut ==
  /\ open /\ start >= job.n
  /\ open' = FALSE
  /\ UNCHANGED <<job, start, windows>>

WindowsNext == OpenWindow \/ RunsOut

WindowsSpec == WindowsInit /\ [][WindowsNext]_windowVars

\* The piece of the text a window is, in bytes.
Span(w) ==
  IF job.by = "service"
  THEN ByteSpan(job.tokens, [from |-> w.from + job.skip, to |-> w.to + job.skip], job.text)
  ELSE <<ByteAt(job.text)[job.tokens[w.from + 1][1]], ByteAt(job.text)[job.tokens[w.to][2]]>>

\* late_pieces refuses a document one span of which does not slice it.
Slices(span) ==
  LET at == ByteAt(job.text)
      boundaries == {at[i] : i \in DOMAIN at}
  IN span[1] <= span[2] /\ span[1] \in boundaries /\ span[2] \in boundaries

-----------------------------------------------------------------------------
(* Properties                                                              *)

Overlapping == job.step <= job.size

(***************************************************************************)
(* No loop opens a window of nothing, but late_chunk_embeddings when it is *)
(* given a size of 0, and then for every token.                            *)
(*                                                                         *)
(* Where the step is no wider than the size, which leaves out that case,   *)
(* the windows go forward, none is wider than the size, each one meets or  *)
(* overlaps the one before, and only the last reaches the end.  When the   *)
(* loop is over they cover every unit, the first to the last.              *)
(***************************************************************************)
WindowsTile ==
  /\ \A i \in DOMAIN windows : windows[i].from < windows[i].to \/ (job.by = "late" /\ job.size = 0)
  /\ Overlapping =>
       /\ \A i \in DOMAIN windows :
            /\ windows[i].to <= windows[i].from + job.size /\ windows[i].to <= job.n
            /\ i = 1 => windows[i].from = 0
            /\ i + 1 \in DOMAIN windows =>
                 /\ windows[i].from < windows[i + 1].from /\ windows[i + 1].from <= windows[i].to
                 /\ windows[i].to < job.n
       /\ ~open /\ job.n > 0 => Len(windows) > 0 /\ windows[Len(windows)].to = job.n

(***************************************************************************)
(* The byte span of a window that has tokens slices the caller's text      *)
(* between characters and holds the caller's own characters of the         *)
(* window's tokens and no more, whatever the tokenizer cut; a policy of    *)
(* the whole text is one window.                                           *)
(* (late_pieces refuses the document otherwise, and the embedder's char to *)
(* byte conversion and prefix rebase have to be right for that.)           *)
(***************************************************************************)
SpansAreTheTokens ==
  LET at == ByteAt(job.text)
      off == IF job.by = "service" THEN Len(Prefix) ELSE 0
      CharsOf(w) == UNION {job.tokens[i + job.skip][1] + 1 .. job.tokens[i + job.skip][2] : i \in w.from + 1 .. w.to}
      Own(w) == {c - off : c \in {d \in CharsOf(w) : d > off}}
      Between(w) == {c \in 1 .. Len(job.text) :
                       (\E a \in Own(w) : a <= c) /\ (\E b \in Own(w) : c <= b)}
  IN \A i \in {k \in DOMAIN windows : windows[k].from < windows[k].to} :
       LET s == Span(windows[i]) IN
       /\ Slices(s) /\ s[1] < s[2]
       /\ {c \in 1 .. Len(job.text) : s[1] <= at[c - 1] /\ at[c] <= s[2]} = Between(windows[i])
       /\ job.by = "service" /\ job.size = WholeText => Len(windows) = 1
=============================================================================
