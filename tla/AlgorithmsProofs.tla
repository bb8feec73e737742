-------------------------- MODULE AlgorithmsProofs --------------------------
(***************************************************************************)
(* The algorithms that take one call or one pass, for every input: the     *)
(* window rule, whatever counts the units, and what its windows are of;    *)
(* the sentences and the definitions a text is cut into; the walks of the  *)
(* graph, capped or not; the reads of a store an ingest changes meanwhile; *)
(* and what the names of an ingest resolve to, in any order of its files.  *)
(***************************************************************************)
EXTENDS MCAlgorithms, FiniteSetTheorems, FunctionTheorems, SequenceTheorems, TLAPS

-----------------------------------------------------------------------------
(* Windows                                                                 *)

Window == [from : Nat, to : Nat]

\* Where the next window starts: inside the last one, and past its start.
OpensNext ==
  IF windows = <<>> THEN start = 0
  ELSE /\ windows[Len(windows)].from < start /\ start <= windows[Len(windows)].to
       /\ windows[Len(windows)].to < job.n

Tiles ==
  \A i \in DOMAIN windows :
    /\ windows[i].to <= windows[i].from + job.size /\ windows[i].to <= job.n
    /\ i = 1 => windows[i].from = 0
    /\ i + 1 \in DOMAIN windows =>
         /\ windows[i].from < windows[i + 1].from /\ windows[i + 1].from <= windows[i].to
         /\ windows[i].to < job.n

Covers == job.n > 0 => Len(windows) > 0 /\ windows[Len(windows)].to = job.n

Counted(j) == j.n \in Int /\ j.size \in Nat /\ j.step \in Nat \ {0} /\ (j.size = 0 => j.by = "late")

\* A window has units, unless the size is 0.
Filled == \A i \in DOMAIN windows : windows[i].from < windows[i].to \/ job.size = 0

WindowsInv ==
  /\ Counted(job) /\ start \in Nat /\ open \in BOOLEAN /\ windows \in Seq(Window)
  /\ Filled
  /\ Overlapping => Tiles /\ IF open THEN OpensNext ELSE Covers

LEMMA Counting ==
  ASSUME NEW m \in Nat, NEW f, DOMAIN f = 1 .. m, f = [k \in 1 .. m |-> f[k]]
  PROVE  Len(f) = m
<1>1. f \in [1 .. m -> {f[k] : k \in 1 .. m}]
  OBVIOUS
<1>. QED BY <1>1

\* The words of a text can be counted.
LEMMA WordsCount ==
  ASSUME NEW text, Len(text) \in Nat
  PROVE  Len(TokenSpans(text)) \in Nat
<1> DEFINE Word(a, b) ==
             /\ a < b /\ \A i \in a + 1 .. b : text[i] # "space"
             /\ a = 0 \/ text[a] = "space"
             /\ b = Len(text) \/ text[b + 1] = "space"
           all == (0 .. Len(text)) \X (0 .. Len(text))
           words == {s \in all : Word(s[1], s[2])}
           Nth(k) == CHOOSE s \in words : Cardinality({t \in words : t[1] < s[1]}) = k - 1
           spans == [k \in 1 .. Cardinality(words) |-> Nth(k)]
<1>1. IsFiniteSet(0 .. Len(text))
  BY FS_Interval
<1>2. IsFiniteSet(all)
  BY <1>1, FS_Product
<1>3. Cardinality(words) \in Nat
  <2>1. words \subseteq all
    OBVIOUS
  <2> HIDE DEF words, all
  <2>. QED BY <1>2, <2>1, FS_Subset, FS_CardinalityType
<1>4. TokenSpans(text) = spans
  BY DEF TokenSpans
<1> HIDE DEF words, Nth
<1>5. DOMAIN spans = 1 .. Cardinality(words) /\ spans = [k \in 1 .. Cardinality(words) |-> spans[k]]
  OBVIOUS
<1> HIDE DEF spans
<1>. QED BY <1>3, <1>4, <1>5, Counting

LEMMA StepCounts ==
  ASSUME NEW size \in Nat, NEW overlap \in Nat
  PROVE  Step(size, overlap) \in Nat \ {0} /\ Most(size, 1) \in Nat \ {0}
<1> DEFINE less == IF overlap < size THEN size - overlap ELSE 0
<1>1. less \in Nat
  OBVIOUS
<1> HIDE DEF less
<1>2. Most(less, 1) \in Nat \ {0} /\ Most(size, 1) \in Nat \ {0}
  BY <1>1 DEF Most
<1>3. Step(size, overlap) = Most(less, 1)
  BY DEF Step, less
<1>. QED BY <1>2, <1>3

LEMMA JobCounts ==
  ASSUME NEW by, NEW text, NEW tokens, Len(tokens) \in Nat, NEW size \in Nat, NEW step \in Nat \ {0},
         size = 0 => by = "late"
  PROVE  Counted(Job(by, text, tokens, 0, size, step))
BY DEF Counted, Job

\* Every job counts its units, and goes on by one at least.
LEMMA JobsCount ==
  ASSUME NEW j \in Jobs
  PROVE  Counted(j)
<1>1. \A t \in Texts : Len(t) \in Nat /\ Len(TokenSpans(t)) \in Nat /\ Len(HashTokens(t)) \in Nat
  <2> SUFFICES ASSUME NEW t \in Texts
               PROVE  Len(t) \in Nat /\ Len(TokenSpans(t)) \in Nat /\ Len(HashTokens(t)) \in Nat
    OBVIOUS
  <2>1. Len(t) \in Nat
    BY WindowsAssumption
  <2>. QED BY <2>1, WordsCount DEF HashTokens
<1>2. Sizes \subseteq Nat /\ Overlaps \subseteq Nat
  BY WindowsAssumption
<1>3. CASE j \in LateJobs
  <2>1. PICK t \in Texts, s \in Sizes, o \in Overlaps : j = Job("late", t, TokenSpans(t), 0, s, Step(s, o))
    BY <1>3 DEF LateJobs
  <2>. QED BY <1>1, <1>2, <2>1, StepCounts, JobCounts
<1>4. CASE j \in ServiceJobs
  <2>0. PICK t \in Texts \ {<<>>} :
          /\ j \in {Job("service", t, s, PrefixTokens(s, Len(Prefix)), p[1], Step(p[1], p[2])) :
                     s \in Tokenizations(Len(Prefix) + Len(t)), p \in (Sizes \X Overlaps) \cup {<<WholeText, 0>>}}
          /\ j.size >= 1 /\ j.n \in 1 .. Ceiling
    BY <1>4 DEF ServiceJobs
  <2>1. PICK s \in Tokenizations(Len(Prefix) + Len(t)), p \in (Sizes \X Overlaps) \cup {<<WholeText, 0>>} :
          j = Job("service", t, s, PrefixTokens(s, Len(Prefix)), p[1], Step(p[1], p[2]))
    BY <2>0
  <2>2. p[1] \in Nat /\ p[2] \in Nat
    <3>1. WholeText \in Nat
      BY WindowsAssumption DEF WholeText, Most
    <3>2. CASE p \in Sizes \X Overlaps
      BY <1>2, <3>2
    <3>3. CASE p = <<WholeText, 0>>
      BY <3>1, <3>3
    <3>. QED BY <3>2, <3>3
  <2>3. j.size = p[1] /\ j.step = Step(p[1], p[2])
    BY <2>1 DEF Job
  <2>4. Step(p[1], p[2]) \in Nat \ {0}
    BY <2>2, StepCounts
  <2>5. j.size \in Nat \ {0} /\ j.n \in Int
    BY <2>0, <2>2, <2>3, WindowsAssumption
  <2>. QED BY <2>3, <2>4, <2>5 DEF Counted
<1>5. CASE j \in TokenJobs
  <2>1. PICK t \in Texts, s \in Sizes \ {0}, o \in Overlaps : j = Job("token", t, TokenSpans(t), 0, s, Step(s, o))
    BY <1>5 DEF TokenJobs
  <2>. QED BY <1>1, <1>2, <2>1, StepCounts, JobCounts
<1>6. CASE j \in HashJobs
  <2>1. PICK t \in Texts, s \in Sizes, o \in Overlaps : j = Job("hash", t, HashTokens(t), 0, Most(s, 1), Step(Most(s, 1), o))
    BY <1>6 DEF HashJobs
  <2>2. Most(s, 1) \in Nat \ {0} /\ o \in Nat
    BY <1>2, StepCounts
  <2>. QED BY <1>1, <2>1, <2>2, StepCounts, JobCounts
<1>7. CASE j \in SlidingJobs
  <2>1. PICK t \in Texts, s \in Sizes \ {0}, step \in Overlaps :
          j = Job("sliding", t, [i \in 1 .. Len(t) |-> <<i - 1, i>>], 0, s, Most(step, 1))
    BY <1>7 DEF SlidingJobs
  <2>2. Len([i \in 1 .. Len(t) |-> <<i - 1, i>>]) \in Nat
    BY <1>1, Counting
  <2>3. Most(step, 1) \in Nat \ {0} /\ s \in Nat \ {0}
    BY <1>2, StepCounts
  <2>. QED BY <2>1, <2>2, <2>3, JobCounts
<1>. QED BY <1>3, <1>4, <1>5, <1>6, <1>7 DEF Jobs

\* The window that opens starts inside the last one and past its start.
LEMMA OpenStep ==
  ASSUME WindowsInv, OpenWindow
  PROVE  WindowsInv'
<1> DEFINE end == Least(start + job.size, job.n)
           w == [from |-> start, to |-> end]
           last == Len(windows)
<1>1. /\ job.n \in Int /\ job.size \in Nat /\ job.step \in Nat \ {0}
      /\ start \in Nat /\ start < job.n /\ windows \in Seq(Window) /\ last \in Nat /\ open
  BY DEF WindowsInv, Counted, OpenWindow
<1>2. end \in Nat /\ (start < end \/ job.size = 0) /\ end <= start + job.size /\ end <= job.n
      /\ (end < job.n => end = start + job.size)
  BY <1>1 DEF Least
<1>3. job' = job /\ windows' = Append(windows, w)
      /\ IF end >= job.n THEN ~open' /\ open' \in BOOLEAN /\ start' = start
         ELSE start' = start + job.step /\ open' /\ open' \in BOOLEAN
  BY <1>1 DEF OpenWindow, WindowsInv
<1> HIDE DEF end
<1>4. /\ windows' \in Seq(Window) /\ Len(windows') = last + 1 /\ windows'[last + 1] = w
      /\ \A i \in 1 .. last : windows'[i] = windows[i]
      /\ DOMAIN windows' = 1 .. last + 1 /\ DOMAIN windows = 1 .. last
  <2>1. w \in Window
    BY <1>1, <1>2 DEF Window
  <2> HIDE DEF w
  <2>2. windows' = Append(windows, w)
    BY <1>3
  <2>3. windows' \in Seq(Window) /\ Len(windows') = last + 1
    BY <1>1, <2>1, <2>2
  <2>4. windows'[last + 1] = w /\ \A i \in 1 .. last : windows'[i] = windows[i]
    BY <1>1, <2>1, <2>2
  <2>. QED BY <1>1, <2>3, <2>4
<1>5. start' \in Nat /\ open' \in BOOLEAN /\ Counted(job)'
  <2>1. start + job.step \in Nat
    BY <1>1
  <2>2. Counted(job)
    BY DEF WindowsInv
  <2>. QED BY <1>1, <1>3, <2>1, <2>2 DEF Counted
<1>f. Filled'
  <2>1. w.from = start /\ w.to = end
    OBVIOUS
  <2>2. \A i \in 1 .. last : windows[i].from < windows[i].to \/ job.size = 0
    BY <1>4 DEF WindowsInv, Filled
  <2> HIDE DEF w
  <2>. QED BY <1>1, <1>2, <1>3, <1>4, <2>1, <2>2 DEF Filled
<1>6. ASSUME Overlapping'
      PROVE  Tiles' /\ IF open' THEN OpensNext' ELSE Covers'
  <2>1. Overlapping /\ Tiles /\ OpensNext /\ job.step <= job.size
    BY <1>1, <1>3, <1>6 DEF Overlapping, WindowsInv
  <2>2. w.from = start /\ w.to = end /\ start < end
    BY <1>1, <1>2, <2>1
  <2> HIDE DEF w
  <2>3. ASSUME NEW i \in 1 .. last + 1
        PROVE  /\ windows'[i].to <= windows'[i].from + job.size /\ windows'[i].to <= job.n
               /\ i = 1 => windows'[i].from = 0
               /\ i + 1 \in 1 .. last + 1 =>
                    /\ windows'[i].from < windows'[i + 1].from /\ windows'[i + 1].from <= windows'[i].to
                    /\ windows'[i].to < job.n
    <3>1. CASE i = last + 1
      <4>1. windows'[i].from = start /\ windows'[i].to = end /\ i + 1 \notin 1 .. last + 1
        BY <1>1, <1>4, <2>2, <3>1
      <4>2. i = 1 => start = 0
        BY <1>1, <2>1, <3>1 DEF OpensNext
      <4>. QED BY <1>1, <1>2, <4>1, <4>2
    <3>2. CASE i \in 1 .. last
      <4>1. /\ windows'[i] = windows[i] /\ windows[i] \in Window
            /\ windows[i].to <= windows[i].from + job.size
            /\ windows[i].to <= job.n /\ (i = 1 => windows[i].from = 0)
        BY <1>1, <1>4, <2>1, <3>2 DEF Tiles
      <4>2. CASE i = last
        <5>1. windows[i].from < start /\ start <= windows[i].to /\ windows[i].to < job.n
          BY <1>1, <2>1, <3>2, <4>2 DEF OpensNext
        <5>. QED BY <1>4, <2>2, <4>1, <4>2, <5>1
      <4>3. CASE i # last
        <5>1. i + 1 \in 1 .. last
          BY <1>1, <3>2, <4>3
        <5>2. windows'[i + 1] = windows[i + 1]
          BY <1>4, <5>1
        <5>. QED BY <1>4, <2>1, <3>2, <4>1, <5>1, <5>2 DEF Tiles
      <4>. QED BY <4>2, <4>3
    <3>. QED BY <1>1, <3>1, <3>2
  <2>4. Tiles'
    BY <1>3, <1>4, <2>3 DEF Tiles
  <2>5. windows' # <<>> /\ windows'[Len(windows')].from = start /\ windows'[Len(windows')].to = end
    BY <1>1, <1>4, <2>2
  <2>6. CASE end >= job.n
    BY <1>1, <1>2, <1>3, <1>4, <2>4, <2>5, <2>6 DEF Covers
  <2>7. CASE end < job.n
    <3>1. end = start + job.size /\ start' = start + job.step /\ job.step <= job.size /\ job' = job
      BY <1>1, <1>2, <1>3, <2>1, <2>7
    <3>2. start < start' /\ start' <= end /\ end < job'.n
      BY <1>1, <2>7, <3>1
    <3>3. OpensNext'
      BY <2>5, <3>2 DEF OpensNext
    <3>. QED BY <1>1, <1>2, <1>3, <2>4, <2>7, <3>3
  <2>. QED BY <1>1, <1>2, <2>4, <2>6, <2>7
<1>. QED BY <1>4, <1>5, <1>f, <1>6 DEF WindowsInv

\* Past the end only of nothing: a next window starts inside the last one.
LEMMA OutStep ==
  ASSUME WindowsInv, RunsOut
  PROVE  WindowsInv'
<1>1. /\ job.n \in Int /\ start \in Nat /\ start >= job.n /\ windows \in Seq(Window) /\ open
      /\ job' = job /\ start' = start /\ windows' = windows /\ open' = FALSE
  BY DEF WindowsInv, Counted, RunsOut
<1>2. ASSUME Overlapping PROVE Tiles /\ Covers
  <2>1. Tiles /\ OpensNext
    BY <1>1, <1>2 DEF WindowsInv
  <2>2. ~(job.n > 0)
    <3>1. CASE windows = <<>>
      BY <1>1, <2>1, <3>1 DEF OpensNext
    <3>2. CASE windows # <<>>
      <4>1. windows[Len(windows)] \in Window
        BY <1>1, <3>2
      <4>. QED BY <1>1, <2>1, <3>2, <4>1 DEF OpensNext, Window
    <3>. QED BY <3>1, <3>2
  <2>. QED BY <2>1, <2>2 DEF Covers
<1>. QED BY <1>1, <1>2 DEF WindowsInv, Counted, Filled, Overlapping, Tiles, Covers

\* No window yet: the next one starts at the beginning.
LEMMA WindowsStart ==
  ASSUME WindowsInit
  PROVE  WindowsInv
<1>1. Counted(job)
  BY JobsCount DEF WindowsInit
<1>2. windows = <<>> /\ windows \in Seq(Window) /\ DOMAIN windows = {} /\ start = 0 /\ open = TRUE
  BY DEF WindowsInit
<1>. QED BY <1>1, <1>2 DEF WindowsInv, Filled, Tiles, OpensNext

\* No step of the loop leaves the windows untiled.
LEMMA WindowsStep ==
  ASSUME WindowsInv, [WindowsNext]_windowVars
  PROVE  WindowsInv'
<1>1. CASE UNCHANGED windowVars
  BY <1>1 DEF windowVars, WindowsInv, Counted, Filled, Overlapping, Tiles, OpensNext, Covers
<1>. QED BY <1>1, OpenStep, OutStep DEF WindowsNext

\* Every window opened so far tiles the units, and the next one starts inside the
\* last, so that nothing can be skipped.
THEOREM WindowsInvariant == WindowsSpec => []WindowsInv
<1>1. WindowsInit => WindowsInv
  BY WindowsStart
<1>2. WindowsInv /\ [WindowsNext]_windowVars => WindowsInv'
  BY WindowsStep
<1>. QED BY <1>1, <1>2, PTL DEF WindowsSpec

LEMMA TilesAll ==
  ASSUME WindowsInv
  PROVE  WindowsTile
<1>1. \A i \in DOMAIN windows : windows[i].from < windows[i].to \/ (job.by = "late" /\ job.size = 0)
  BY DEF WindowsInv, Filled, Counted
<1>. QED BY <1>1 DEF WindowsInv, WindowsTile, Tiles, Covers

\* A window loop whose step is no wider than its window covers every unit, and
\* leaves no gap: late_chunk_embeddings, window_boundaries, TokenChunking,
\* SlidingWindowChunking and HashEmbedder alike.  A size of 0 is none of these
\* (its step is wider): the first of them takes it and opens empty windows, which
\* none of the others ever does.
THEOREM WindowsCover == WindowsSpec => []WindowsTile
<1>1. WindowsInv => WindowsTile
  BY TilesAll
<1>. QED BY <1>1, WindowsInvariant, PTL

-----------------------------------------------------------------------------
(* Orders, and induction over a set of numbers                             *)

\* A strict total order on S, as a set of pairs.
Orders(R, S) ==
  /\ \A a \in S : <<a, a>> \notin R
  /\ \A a, b, c \in S : <<a, b>> \in R /\ <<b, c>> \in R => <<a, c>> \in R
  /\ \A a, b \in S : a # b => <<a, b>> \in R \/ <<b, a>> \in R
Below(R, S, k) == {p \in S : <<p, k>> \in R}

\* The rows of a finite set, numbered in an order from 0, are numbered once each.
LEMMA RowsAreNumbered ==
  ASSUME NEW S, IsFiniteSet(S), NEW R, Orders(R, S)
  PROVE  /\ Cardinality(S) \in Nat
         /\ \A k \in S : Cardinality(Below(R, S, k)) \in 0 .. Cardinality(S) - 1
         /\ \A a, b \in S : Cardinality(Below(R, S, a)) < Cardinality(Below(R, S, b)) <=> <<a, b>> \in R
         /\ \A i \in 0 .. Cardinality(S) - 1 : \E k \in S : Cardinality(Below(R, S, k)) = i
<1> DEFINE rank == [k \in S |-> Cardinality(Below(R, S, k))]
           n == Cardinality(S)
<1>1. n \in Nat
  BY FS_CardinalityType
<1>2. \A k \in S : IsFiniteSet(Below(R, S, k)) /\ Cardinality(Below(R, S, k)) \in Nat
                   /\ Cardinality(Below(R, S, k)) < n
  <2> SUFFICES ASSUME NEW k \in S
               PROVE  IsFiniteSet(Below(R, S, k)) /\ Cardinality(Below(R, S, k)) \in Nat
                      /\ Cardinality(Below(R, S, k)) < n
    OBVIOUS
  <2>1. Below(R, S, k) \subseteq S /\ k \notin Below(R, S, k)
    BY DEF Below, Orders
  <2>2. IsFiniteSet(Below(R, S, k)) /\ Cardinality(Below(R, S, k)) <= n
        /\ (Cardinality(Below(R, S, k)) = n => Below(R, S, k) = S)
    BY <2>1, FS_Subset
  <2>3. Cardinality(Below(R, S, k)) \in Nat
    BY <2>2, FS_CardinalityType
  <2>4. Cardinality(Below(R, S, k)) # n
    BY <2>1, <2>2
  <2>. QED BY <1>1, <2>2, <2>3, <2>4
<1>3. ASSUME NEW a \in S, NEW b \in S, <<a, b>> \in R
      PROVE  Cardinality(Below(R, S, a)) < Cardinality(Below(R, S, b))
  <2>1. Below(R, S, a) \subseteq Below(R, S, b)
    BY <1>3 DEF Below, Orders
  <2>2. a \in Below(R, S, b) /\ a \notin Below(R, S, a)
    BY <1>3 DEF Below, Orders
  <2>3. /\ Cardinality(Below(R, S, a)) <= Cardinality(Below(R, S, b))
        /\ Cardinality(Below(R, S, a)) = Cardinality(Below(R, S, b)) => Below(R, S, a) = Below(R, S, b)
    BY <1>2, <2>1, FS_Subset
  <2>. QED BY <1>2, <2>2, <2>3
<1>4. \A a, b \in S : Cardinality(Below(R, S, a)) < Cardinality(Below(R, S, b)) <=> <<a, b>> \in R
  <2> SUFFICES ASSUME NEW a \in S, NEW b \in S
               PROVE  Cardinality(Below(R, S, a)) < Cardinality(Below(R, S, b)) <=> <<a, b>> \in R
    OBVIOUS
  <2>1. CASE a = b
    BY <1>2, <2>1 DEF Orders
  <2>2. CASE <<a, b>> \in R
    BY <1>3, <2>2
  <2>3. CASE <<b, a>> \in R
    <3>1. <<a, b>> \notin R
      BY <2>3 DEF Orders
    <3>. QED BY <1>2, <1>3, <2>3, <3>1
  <2>. QED BY <2>1, <2>2, <2>3 DEF Orders
<1>5. \A i \in 0 .. n - 1 : \E k \in S : Cardinality(Below(R, S, k)) = i
  <2> DEFINE T == 0 .. n - 1
  <2>1. IsFiniteSet(T) /\ Cardinality(T) = n
    <3>1. IsFiniteSet(0 .. n - 1) /\ Cardinality(0 .. n - 1) = IF 0 > n - 1 THEN 0 ELSE (n - 1) - 0 + 1
      BY <1>1, FS_Interval
    <3>. QED BY <1>1, <3>1
  <2>2. rank \in [S -> T]
    BY <1>1, <1>2
  <2>3. \A a, b \in S : rank[a] = rank[b] => a = b
    BY <1>2, <1>4 DEF Orders
  <2>4. rank \in Injection(S, T)
    BY <2>2, <2>3, Fun_IsInj
  <2>5. rank \in Surjection(S, T)
    BY <2>1, <2>4, FS_Injection
  <2>6. \A i \in T : \E k \in S : rank[k] = i
    <3> HIDE DEF rank, T
    <3>. QED BY <2>5, Fun_SurjectionProperties
  <2>. QED BY <2>6
<1>. QED BY <1>1, <1>2, <1>4, <1>5

\* A set of numbers that is not empty has a least one.
LEMMA LeastOf ==
  ASSUME NEW T \in SUBSET Nat, T # {}
  PROVE  \E m \in T : \A k \in T : m <= k
<1>1. PICK t \in T : TRUE
  OBVIOUS
<1> DEFINE S == {k \in T : k <= t}
           R == {p \in S \X S : p[1] < p[2]}
<1>2. S \subseteq Nat /\ t \in S /\ t \in Nat
  <2>1. t \in Nat /\ t <= t
    OBVIOUS
  <2>. QED BY <2>1
<1>3. IsFiniteSet(S)
  BY <1>2, FS_BoundedSetOfNaturals
<1>4. Orders(R, S)
  <2>1. \A a, b \in S : <<a, b>> \in R <=> a < b
    OBVIOUS
  <2> HIDE DEF R, S
  <2>. QED BY <1>2, <2>1 DEF Orders
<1>5. Cardinality(S) \in Nat \ {0}
  BY <1>2, <1>3, FS_CardinalityType, FS_EmptySet
<1>6. PICK m \in S : Cardinality(Below(R, S, m)) = 0
  <2> HIDE DEF R, S
  <2>. QED BY <1>3, <1>4, <1>5, RowsAreNumbered
<1>7. Below(R, S, m) = {}
  <2>1. Below(R, S, m) \subseteq S
    BY DEF Below
  <2> HIDE DEF R, S
  <2>. QED BY <1>3, <1>6, <2>1, FS_Subset, FS_EmptySet
<1>8. \A k \in S : ~(k < m)
  BY <1>7 DEF Below
<1>9. \A k \in T : m <= k
  BY <1>2, <1>8
<1>. QED BY <1>9

\* Induction, for a set of numbers.
LEMMA Inductive ==
  ASSUME NEW T, 0 \in T, \A n \in Nat : n \in T => n + 1 \in T
  PROVE  Nat \subseteq T
<1> SUFFICES ASSUME ~(Nat \subseteq T) PROVE FALSE
  OBVIOUS
<1>1. PICK m \in Nat \ T : \A k \in Nat \ T : m <= k
  <2>1. Nat \ T \in SUBSET Nat /\ Nat \ T # {}
    OBVIOUS
  <2>. QED BY <2>1, LeastOf
<1>2. m # 0 /\ m - 1 \in Nat /\ (m - 1) + 1 = m
  BY <1>1
<1>3. m - 1 \in T
  BY <1>1, <1>2
<1>. QED BY <1>1, <1>2, <1>3

\* A finite set of numbers that is not empty has a greatest one.
LEMMA GreatestOf ==
  ASSUME NEW T \in SUBSET Nat, T # {}, IsFiniteSet(T)
  PROVE  \E m \in T : \A k \in T : k <= m
<1> DEFINE R == {p \in T \X T : p[1] > p[2]}
<1>1. Orders(R, T)
  <2>1. \A a, b \in T : <<a, b>> \in R <=> a > b
    OBVIOUS
  <2> HIDE DEF R
  <2>. QED BY <2>1 DEF Orders
<1>2. Cardinality(T) \in Nat \ {0}
  BY FS_CardinalityType, FS_EmptySet
<1>3. PICK m \in T : Cardinality(Below(R, T, m)) = 0
  <2> HIDE DEF R
  <2>. QED BY <1>1, <1>2, RowsAreNumbered
<1>4. Below(R, T, m) = {}
  <2>1. Below(R, T, m) \subseteq T
    BY DEF Below
  <2> HIDE DEF R
  <2>. QED BY <1>3, <2>1, FS_Subset, FS_EmptySet
<1>5. \A k \in T : ~(k > m)
  BY <1>4 DEF Below
<1>. QED BY <1>5

-----------------------------------------------------------------------------
(* Reads                                                                   *)

\* What each read relies on between its statements.
PagesInv ==
  inquiry.verb = "list" =>
    /\ where \in {"page", "done"} /\ told.offset \in Nat
    /\ 0 \notin raced =>
         /\ where = "page" => \A k \in Present \ raced : k \in seen \/ told.offset <= Position(k)
         /\ where = "done" /\ inquiry.limit > 0 => Present \ raced \subseteq seen

OrientInv ==
  inquiry.verb = "orient" =>
    /\ where \in {"coverage", "cohort", "done"}
    /\ raced = {} =>
         /\ where = "cohort" => told.embedded = Cardinality(Embedded)
         /\ where = "done" => told.embedded = told.total

HybridInv ==
  inquiry.verb = "hybrid" =>
    /\ where \in {"coverage", "cohort", "embed", "fuse", "refused", "done"}
    /\ where \in {"embed", "fuse", "done"} /\ raced = {} => \A c \in Embedded : vectors[c] = told.cohort
    /\ where \in {"cohort", "embed", "fuse", "done"} /\ Undisturbed => told.embedded = Cardinality(Embedded)
    /\ where = "done" =>
         LET limit == Applied(inquiry.limit)
             depth == CandidateDepth(limit)
         IN told.hits = Fusion(TextRanks(depth), VectorRanks(depth), limit)

ReadTypes ==
  /\ stamp \in [Keys -> Nat] /\ vectors \in [Keys -> Cohorts \cup {"none"}] /\ inquiry \in Inquiries
  /\ writes \in 0 .. MaxWrites
  /\ DOMAIN told = {"cohort", "embedded", "total", "offset", "hits"}

ReadsInv == ReadTypes /\ PagesInv /\ OrientInv /\ HybridInv

\* The positions of the nodes are their row numbers.
Sooner == {p \in Present \X Present : Before(p[1], p[2])}

LEMMA PositionsNumber ==
  ASSUME ReadTypes
  PROVE  /\ IsFiniteSet(Present) /\ Cardinality(Present) \in Nat
         /\ \A k \in Present : Position(k) \in Nat
         /\ \A k \in Present : \A i \in 0 .. Position(k) : \E p \in Present : Position(p) = i
<1>1. IsFiniteSet(Present)
  <2>1. Present \subseteq Keys /\ IsFiniteSet(Keys)
    BY ReadsAssumption DEF Present
  <2>. QED BY <2>1, FS_Subset
<1>2. \A a, b \in Present : <<a, b>> \in Sooner <=> Before(a, b)
  BY DEF Sooner
<1>3. Orders(Sooner, Present)
  <2>1. \A a \in Present : a \in Nat /\ stamp[a] \in Nat
    BY ReadsAssumption DEF ReadTypes, Present
  <2>. QED BY <1>2, <2>1 DEF Orders, Before
<1>4. \A k \in Present : Position(k) = Cardinality(Below(Sooner, Present, k))
  BY <1>2 DEF Position, Below
<1>5. Cardinality(Present) \in Nat
  BY <1>1, FS_CardinalityType
<1>6. \A k \in Present : Position(k) \in 0 .. Cardinality(Present) - 1
  BY <1>1, <1>3, <1>4, RowsAreNumbered
<1>7. \A i \in 0 .. Cardinality(Present) - 1 : \E p \in Present : Position(p) = i
  <2> SUFFICES ASSUME NEW i \in 0 .. Cardinality(Present) - 1
               PROVE  \E p \in Present : Position(p) = i
    OBVIOUS
  <2>1. \E p \in Present : Cardinality(Below(Sooner, Present, p)) = i
    BY <1>1, <1>3, RowsAreNumbered
  <2>. QED BY <1>4, <2>1
<1>8. ASSUME NEW k \in Present, NEW i \in 0 .. Position(k)
      PROVE  i \in 0 .. Cardinality(Present) - 1
  BY <1>5, <1>6
<1>. QED BY <1>1, <1>5, <1>6, <1>7, <1>8

\* No stamp is newer than the newest.
LEMMA NewestIsNewest ==
  ASSUME ReadTypes, Keys # {}
  PROVE  Newest \in Nat /\ \A k \in Keys : stamp[k] <= Newest
<1> DEFINE T == {stamp[k] : k \in Keys}
<1>1. stamp \in [Keys -> Nat] /\ IsFiniteSet(Keys)
  BY ReadsAssumption DEF ReadTypes
<1>2. IsFiniteSet(T) /\ T \in SUBSET Nat /\ T # {}
  <2>1. stamp \in [Keys -> T] /\ \A t \in T : \E k \in Keys : stamp[k] = t
    BY <1>1
  <2>2. stamp \in Surjection(Keys, T)
    <3> HIDE DEF T
    <3>. QED BY <2>1, Fun_IsSurj
  <2>3. IsFiniteSet(T)
    <3> HIDE DEF T
    <3>. QED BY <1>1, <2>2, FS_Surjection
  <2>. QED BY <1>1, <2>3
<1>3. PICK t \in T : \A s \in T : s <= t
  <2> HIDE DEF T
  <2>. QED BY <1>2, GreatestOf
<1>4. \E s \in T : \A k \in Keys : stamp[k] <= s
  BY <1>3
<1>5. Newest \in T /\ \A k \in Keys : stamp[k] <= Newest
  BY <1>4 DEF Newest
<1>. QED BY <1>2, <1>5

-----------------------------------------------------------------------------
(* list                                                                    *)

\* A node that another overtakes goes further down, and never up.
LEMMA PagesWrite ==
  ASSUME ReadTypes, PagesInv, WriteNode, 0 \notin raced'
  PROVE  \A k \in (Present \ raced)' : k \in Present \ raced /\ Position(k) <= Position(k)' /\ Position(k)' \in Nat
<1>1. PICK c \in Keys, t \in {0, Newest, Newest + 1} :
        t # stamp[c] /\ stamp' = [stamp EXCEPT ![c] = t] /\ raced' = raced \cup {c} \cup (IF t = 0 THEN {0} ELSE {})
  BY DEF WriteNode
<1>2. stamp \in [Keys -> Nat] /\ Newest \in Nat /\ \A k \in Keys : stamp[k] <= Newest
  BY NewestIsNewest DEF ReadTypes
<1>3. t # 0 /\ t \in Nat /\ Newest <= t /\ stamp[c] < t
  BY <1>1, <1>2
<1> SUFFICES ASSUME NEW k \in (Present \ raced)'
             PROVE  k \in Present \ raced /\ Position(k) <= Position(k)' /\ Position(k)' \in Nat
  OBVIOUS
<1>4. k \in Keys /\ k # c /\ stamp'[k] = stamp[k] /\ k \in Present \ raced
  BY <1>1, <1>2 DEF Present
<1> DEFINE before == {p \in Present : Before(p, k)}
           after == {p \in Present' : Before(p, k)'}
<1>5. before \subseteq after
  <2> SUFFICES ASSUME NEW p \in before PROVE p \in after
    OBVIOUS
  <2>1. p \in Keys /\ stamp[p] > 0 /\ Before(p, k)
    BY DEF Present
  <2>2. stamp'[p] = IF p = c THEN t ELSE stamp[p]
    BY <1>1, <1>2, <2>1
  <2>3. stamp'[p] > 0 /\ p \in Present'
    BY <1>2, <1>3, <2>1, <2>2 DEF Present
  <2>4. stamp'[p] > stamp'[k] \/ (stamp'[p] = stamp'[k] /\ p < k)
    BY <1>2, <1>3, <1>4, <2>1, <2>2 DEF Before
  <2>. QED BY <2>3, <2>4 DEF Before
<1>6. IsFiniteSet(after)
  <2>1. after \subseteq Keys /\ IsFiniteSet(Keys)
    BY ReadsAssumption DEF Present
  <2>. QED BY <2>1, FS_Subset
<1>7. Cardinality(before) <= Cardinality(after) /\ Cardinality(after) \in Nat
  <2> HIDE DEF before, after
  <2>. QED BY <1>5, <1>6, FS_Subset, FS_CardinalityType
<1>. QED BY <1>4, <1>7 DEF Position

\* A page that is not full is the last: nothing is beyond it.
LEMMA ShortPage ==
  ASSUME ReadTypes, NEW offset \in Nat, NEW limit \in Nat,
         Cardinality(Page(offset, limit)) < limit, NEW k \in Present
  PROVE  Position(k) < offset + limit
<1> SUFFICES ASSUME ~(Position(k) < offset + limit) PROVE FALSE
  OBVIOUS
<1> DEFINE page == Page(offset, limit)
           T == offset .. offset + limit - 1
           pos == [p \in page |-> Position(p)]
<1>1. Position(k) \in Nat /\ offset + limit <= Position(k)
  BY PositionsNumber
<1>2. page \subseteq Present /\ IsFiniteSet(page)
  <2>1. page \subseteq Present
    BY DEF Page
  <2>. QED BY <2>1, PositionsNumber, FS_Subset
<1>3. pos \in [page -> T]
  BY PositionsNumber DEF Page
<1>4. \A i \in T : \E p \in page : pos[p] = i
  <2> SUFFICES ASSUME NEW i \in T PROVE \E p \in page : pos[p] = i
    OBVIOUS
  <2>1. i \in 0 .. Position(k)
    BY <1>1
  <2>2. PICK p \in Present : Position(p) = i
    BY <2>1, PositionsNumber
  <2>3. p \in page
    BY <2>2 DEF Page
  <2>. QED BY <2>2, <2>3
<1>5. Cardinality(T) = limit
  BY FS_Interval
<1>6. Cardinality(T) <= Cardinality(page)
  <2> HIDE DEF page, T, pos
  <2>1. pos \in Surjection(page, T)
    BY <1>3, <1>4, Fun_IsSurj
  <2>. QED BY <1>2, <2>1, FS_Surjection
<1>7. Cardinality(page) \in Nat
  BY <1>2, FS_CardinalityType
<1>. QED BY <1>5, <1>6, <1>7

LEMMA ListStep ==
  ASSUME ReadTypes, PagesInv, List
  PROVE  PagesInv'
<1> DEFINE limit == Applied(inquiry.limit)
           page == Page(told.offset, limit)
<1>1. /\ inquiry.verb = "list" /\ where = "page" /\ stamp' = stamp /\ inquiry' = inquiry /\ raced' = raced
      /\ seen' = seen \cup page /\ told' = [told EXCEPT !.offset = told.offset + limit]
      /\ where' = IF Cardinality(page) < limit THEN "done" ELSE "page"
  BY DEF List
<1>2. limit \in Nat /\ told.offset \in Nat
  BY <1>1, ReadsAssumption DEF ReadTypes, PagesInv, Applied, Fewer
<1>3. told'.offset = told.offset + limit /\ told'.offset \in Nat
  BY <1>1, <1>2 DEF ReadTypes
<1>4. Present' = Present /\ \A k \in Present : Position(k)' = Position(k)
  BY <1>1 DEF Present, Position, Before
<1>5. ASSUME 0 \notin raced, NEW k \in Present \ raced
      PROVE  k \in seen' \/ told.offset + limit <= Position(k)
  <2>1. Position(k) \in Nat /\ (k \in seen \/ told.offset <= Position(k))
    BY <1>1, <1>5, PositionsNumber DEF PagesInv
  <2>2. CASE told.offset <= Position(k) /\ Position(k) < told.offset + limit
    BY <1>1, <2>2 DEF Page
  <2>. QED BY <1>1, <1>2, <2>1, <2>2
<1>6. ASSUME 0 \notin raced, where' = "done", NEW k \in Present \ raced
      PROVE  k \in seen'
  <2>1. Cardinality(page) < limit
    BY <1>1, <1>6
  <2>2. Position(k) \in Nat /\ Position(k) < told.offset + limit
    BY <1>2, <2>1, PositionsNumber, ShortPage
  <2>. QED BY <1>2, <1>5, <1>6, <2>2
<1>. QED BY <1>1, <1>3, <1>4, <1>5, <1>6 DEF PagesInv

-----------------------------------------------------------------------------
(* query with hybrid                                                       *)

\* Row numbers are one to a row, and a cut drops those beyond it.
LEMMA RowsRank ==
  ASSUME NEW chunks \in SUBSET Keys, NEW by, \A c \in chunks : by[c] \in Nat, NEW depth \in Nat
  PROVE  LET whole == RowNumbers(chunks, by, Cardinality(Keys))
             cut == RowNumbers(chunks, by, depth)
         IN /\ whole \in [Keys -> Nat] /\ cut \in [Keys -> Nat]
            /\ \A c \in Keys : cut[c] = IF whole[c] <= depth THEN whole[c] ELSE 0
            /\ \A c \in Keys : whole[c] > 0 <=> c \in chunks
            /\ \A c, d \in Keys : whole[c] = whole[d] /\ c # d => whole[c] = 0
<1> DEFINE R == {p \in chunks \X chunks : by[p[1]] < by[p[2]] \/ (by[p[1]] = by[p[2]] /\ p[1] < p[2])}
           n == Cardinality(Keys)
           At(c) == Cardinality(Nearer(chunks, by, c))
           whole == RowNumbers(chunks, by, n)
           cut == RowNumbers(chunks, by, depth)
<1>1. IsFiniteSet(chunks) /\ n \in Nat /\ Cardinality(chunks) <= n
  BY ReadsAssumption, FS_Subset, FS_CardinalityType
<1>2. \A a, b \in chunks : <<a, b>> \in R <=> by[a] < by[b] \/ (by[a] = by[b] /\ a < b)
  OBVIOUS
<1>3. \A a \in chunks : a \in Nat /\ by[a] \in Nat
  BY ReadsAssumption
<1>4. Orders(R, chunks)
  <2> HIDE DEF R
  <2>. QED BY <1>2, <1>3 DEF Orders
<1>5. \A c \in chunks : Nearer(chunks, by, c) = Below(R, chunks, c)
  <2> HIDE DEF R
  <2>. QED BY <1>2 DEF Nearer, Below
<1> HIDE DEF R
<1>6. Cardinality(chunks) \in Nat /\ \A c \in chunks : At(c) \in 0 .. Cardinality(chunks) - 1
  BY <1>1, <1>4, <1>5, RowsAreNumbered
<1>7. \A c, d \in chunks : c # d => At(c) # At(d)
  <2> SUFFICES ASSUME NEW c \in chunks, NEW d \in chunks, c # d PROVE At(c) # At(d)
    OBVIOUS
  <2>1. <<c, d>> \in R \/ <<d, c>> \in R
    BY <1>4 DEF Orders
  <2>2. At(c) < At(d) \/ At(d) < At(c)
    BY <1>1, <1>4, <1>5, <2>1, RowsAreNumbered
  <2>. QED BY <1>6, <2>2
<1> HIDE DEF At
<1>8. \A c \in chunks : At(c) \in Nat /\ At(c) < n
  BY <1>1, <1>6
<1>9. \A c \in Keys : /\ whole[c] = (IF c \in chunks THEN At(c) + 1 ELSE 0)
                      /\ cut[c] = (IF c \in chunks /\ At(c) < depth THEN At(c) + 1 ELSE 0)
  BY <1>8 DEF RowNumbers, At
<1>10. whole \in [Keys -> Nat] /\ cut \in [Keys -> Nat]
  <2>1. /\ whole = [c \in Keys |-> IF c \in chunks /\ At(c) < n THEN At(c) + 1 ELSE 0]
        /\ cut = [c \in Keys |-> IF c \in chunks /\ At(c) < depth THEN At(c) + 1 ELSE 0]
    BY DEF RowNumbers, At
  <2> HIDE DEF whole, cut
  <2>. QED BY <1>8, <2>1
<1> HIDE DEF whole, cut
<1>11. \A c \in Keys : cut[c] = IF whole[c] <= depth THEN whole[c] ELSE 0
  BY <1>8, <1>9
<1>12. \A c \in Keys : whole[c] > 0 <=> c \in chunks
  BY <1>8, <1>9
<1>13. \A c, d \in Keys : whole[c] = whole[d] /\ c # d => whole[c] = 0
  BY <1>7, <1>8, <1>9
<1>. QED BY <1>10, <1>11, <1>12, <1>13 DEF whole, cut

Counts == Nat \ {0}

LEMMA ProductsGrow ==
  ASSUME NEW a \in Nat, NEW b \in Nat, NEW c \in Counts
  PROVE  (a * c <= b * c <=> a <= b) /\ (a * c < b * c <=> a < b) /\ a * c \in Nat
BY DEF Counts

LEMMA FractionsOrder ==
  ASSUME NEW a \in Counts, NEW b \in Counts, NEW c \in Counts, NEW d \in Counts, NEW e \in Counts, NEW f \in Counts,
         c * b <= a * d, e * d <= c * f
  PROVE  e * b <= a * f
<1>1. /\ a * d \in Nat /\ c * b \in Nat /\ c * f \in Nat /\ e * d \in Nat /\ a * f \in Nat /\ e * b \in Nat
      /\ a \in Nat /\ b \in Nat /\ c \in Nat /\ d \in Nat /\ e \in Nat /\ f \in Nat
  BY DEF Counts
<1>2. (c * b) * f <= (a * d) * f
  BY <1>1, ProductsGrow
<1>3. (e * d) * b <= (c * f) * b
  BY <1>1, ProductsGrow
<1>4. (c * b) * f = (c * f) * b /\ (a * d) * f = (a * f) * d /\ (e * d) * b = (e * b) * d
  BY <1>1
<1>5. (e * b) * d <= (a * f) * d
  <2>1. (c * f) * b \in Nat /\ (a * f) * d \in Nat /\ (e * b) * d \in Nat
    BY <1>1, ProductsGrow
  <2>. QED BY <1>2, <1>3, <1>4, <2>1
<1>. QED BY <1>1, <1>5, ProductsGrow

\* A fraction with a numerator and a denominator.
Fraction == [num : Counts, den : Counts]
NoLower(s, t) == t.num * s.den <= s.num * t.den

LEMMA ScoresOrder ==
  ASSUME NEW s \in Fraction, NEW t \in Fraction
  PROVE  /\ Higher(s, t) <=> ~NoLower(t, s)
         /\ NoLower(s, t) \/ NoLower(t, s)
         /\ \A u \in Fraction : NoLower(s, t) /\ NoLower(t, u) => NoLower(s, u)
<1>1. s.num \in Counts /\ s.den \in Counts /\ t.num \in Counts /\ t.den \in Counts
  BY DEF Fraction
<1>2. s.num * t.den \in Nat /\ t.num * s.den \in Nat
  BY <1>1 DEF Counts
<1>3. \A u \in Fraction : NoLower(s, t) /\ NoLower(t, u) => NoLower(s, u)
  <2> SUFFICES ASSUME NEW u \in Fraction, NoLower(s, t), NoLower(t, u) PROVE NoLower(s, u)
    OBVIOUS
  <2>1. u.num \in Counts /\ u.den \in Counts
    BY DEF Fraction
  <2>2. t.num * s.den <= s.num * t.den /\ u.num * t.den <= t.num * u.den
    BY DEF NoLower
  <2>3. u.num * s.den <= s.num * u.den
    BY <1>1, <2>1, <2>2, FractionsOrder
  <2>. QED BY <2>3 DEF NoLower
<1>. QED BY <1>2, <1>3 DEF Higher, NoLower

LEMMA ScoresAreFractions ==
  ASSUME NEW t \in Nat, NEW v \in Nat, t + v > 0
  PROVE  Score(t, v) \in Fraction
<1>1. RrfK \in Nat
  BY ReadsAssumption
<1>2. CASE t = 0
  <2>1. RrfK + v \in Counts /\ 1 \in Counts
    BY <1>1, <1>2 DEF Counts
  <2>. QED BY <1>2, <2>1 DEF Score, Fraction
<1>3. CASE t # 0 /\ v = 0
  <2>1. RrfK + t \in Counts /\ 1 \in Counts
    BY <1>1, <1>3 DEF Counts
  <2>. QED BY <1>3, <2>1 DEF Score, Fraction
<1>4. CASE t # 0 /\ v # 0
  <2>1. RrfK + t \in Counts /\ RrfK + v \in Counts
    BY <1>1, <1>4 DEF Counts
  <2>2. (RrfK + t) + (RrfK + v) \in Counts /\ (RrfK + t) * (RrfK + v) \in Counts
    BY <2>1 DEF Counts
  <2>. QED BY <1>4, <2>2 DEF Score, Fraction
<1>. QED BY <1>2, <1>3, <1>4

\* The better in each source that holds the other has the higher score.
LEMMA BetterRanksScoreHigher ==
  ASSUME NEW t \in Nat, NEW v \in Nat, NEW x \in Nat, NEW y \in Nat,
         x + y > 0, x = 0 \/ (0 < t /\ t < x), y = 0 \/ (0 < v /\ v < y)
  PROVE  Higher(Score(t, v), Score(x, y))
<1> DEFINE A == RrfK + t
           B == RrfK + v
           C == RrfK + x
           D == RrfK + y
<1>1. RrfK \in Nat /\ A \in Nat /\ B \in Nat /\ C \in Nat /\ D \in Nat
  BY ReadsAssumption
<1>2. /\ x > 0 => A \in Counts /\ C \in Counts /\ A < C
      /\ y > 0 => B \in Counts /\ D \in Counts /\ B < D
      /\ t > 0 => A \in Counts
      /\ v > 0 => B \in Counts
  BY <1>1 DEF Counts
<1>3. /\ Score(t, v) = IF t = 0 THEN [num |-> 1, den |-> B] ELSE IF v = 0 THEN [num |-> 1, den |-> A] ELSE [num |-> A + B, den |-> A * B]
      /\ Score(x, y) = IF x = 0 THEN [num |-> 1, den |-> D] ELSE IF y = 0 THEN [num |-> 1, den |-> C] ELSE [num |-> C + D, den |-> C * D]
  BY DEF Score
<1> HIDE DEF A, B, C, D
<1>4. CASE x > 0 /\ y > 0
  <2>1. Score(t, v) = [num |-> A + B, den |-> A * B] /\ Score(x, y) = [num |-> C + D, den |-> C * D]
    BY <1>3, <1>4
  <2>2. A * C \in Counts /\ B * D \in Counts
    BY <1>2, <1>4 DEF Counts
  <2>3. B * (A * C) < D * (A * C) /\ A * (B * D) < C * (B * D)
    BY <1>1, <1>2, <1>4, <2>2, ProductsGrow
  <2>4. (C + D) * (A * B) = B * (A * C) + A * (B * D)
    BY <1>1
  <2>5. (A + B) * (C * D) = D * (A * C) + C * (B * D)
    BY <1>1
  <2>6. B * (A * C) \in Nat /\ A * (B * D) \in Nat /\ D * (A * C) \in Nat /\ C * (B * D) \in Nat
    BY <1>1, <2>2, ProductsGrow
  <2>7. (C + D) * (A * B) < (A + B) * (C * D)
    BY <2>3, <2>4, <2>5, <2>6
  <2>. QED BY <2>1, <2>7 DEF Higher
<1>5. CASE x > 0 /\ y = 0
  <2>1. Score(x, y) = [num |-> 1, den |-> C] /\ t > 0
    BY <1>3, <1>5
  <2>2. CASE v = 0
    BY <1>1, <1>2, <1>3, <1>5, <2>1, <2>2 DEF Higher
  <2>3. CASE v > 0
    <3>1. Score(t, v) = [num |-> A + B, den |-> A * B]
      BY <1>3, <2>1, <2>3
    <3>2. A * B < C * B /\ A * B \in Nat
      BY <1>1, <1>2, <1>5, <2>3, ProductsGrow
    <3>3. (A + B) * C = A * C + C * B /\ A * C \in Nat /\ C * B \in Nat
      BY <1>1
    <3>. QED BY <2>1, <3>1, <3>2, <3>3 DEF Higher
  <2>. QED BY <2>2, <2>3
<1>6. CASE x = 0 /\ y > 0
  <2>1. Score(x, y) = [num |-> 1, den |-> D] /\ v > 0
    BY <1>3, <1>6
  <2>2. CASE t = 0
    BY <1>1, <1>2, <1>3, <1>6, <2>1, <2>2 DEF Higher
  <2>3. CASE t > 0
    <3>1. Score(t, v) = [num |-> A + B, den |-> A * B]
      BY <1>3, <2>1, <2>3
    <3>2. B * A < D * A /\ B * A \in Nat
      BY <1>1, <1>2, <1>6, <2>3, ProductsGrow
    <3>3. (A + B) * D = D * A + B * D /\ D * A \in Nat /\ B * D \in Nat /\ A * B = B * A
      BY <1>1
    <3>. QED BY <2>1, <3>1, <3>2, <3>3 DEF Higher
  <2>. QED BY <2>2, <2>3
<1>. QED BY <1>4, <1>5, <1>6

\* Chunks are numbered from nought by how many of them come before each.
Numbered(text, vector, chunks, by) ==
  LET At(c) == Cardinality(Above(text, vector, chunks, by, c))
  IN /\ IsFiniteSet(chunks) /\ Cardinality(chunks) \in Nat
     /\ \A c \in chunks : At(c) \in 0 .. Cardinality(chunks) - 1
     /\ \A a, b \in chunks : At(a) < At(b) <=> a \in Above(text, vector, chunks, by, b)
     /\ \A a, b \in chunks : At(a) = At(b) => a = b
     /\ \A i \in 0 .. Cardinality(chunks) - 1 : \E c \in chunks : At(c) = i

\* What comes before a chunk, by its score and then by a number of its own, numbers the chunks.
LEMMA ScoresNumber ==
  ASSUME NEW text \in [Keys -> Nat], NEW vector \in [Keys -> Nat],
         NEW chunks \in SUBSET Joined(text, vector),
         NEW by \in [Keys -> Nat], \A c, d \in Keys : by[c] = by[d] => c = d
  PROVE  Numbered(text, vector, chunks, by)
<1> DEFINE Of(c) == Score(text[c], vector[c])
           R == {p \in chunks \X chunks :
                   Higher(Of(p[1]), Of(p[2])) \/ (~Higher(Of(p[2]), Of(p[1])) /\ by[p[1]] < by[p[2]])}
           At(c) == Cardinality(Above(text, vector, chunks, by, c))
<1>1. IsFiniteSet(chunks) /\ Cardinality(chunks) \in Nat /\ chunks \subseteq Keys
  BY ReadsAssumption, FS_Subset, FS_CardinalityType DEF Joined
<1>2. \A c \in chunks : Of(c) \in Fraction
  <2> SUFFICES ASSUME NEW c \in chunks PROVE Of(c) \in Fraction
    OBVIOUS
  <2>1. text[c] \in Nat /\ vector[c] \in Nat /\ text[c] + vector[c] > 0
    BY DEF Joined
  <2>. QED BY <2>1, ScoresAreFractions
<1>3. \A a, b \in chunks : <<a, b>> \in R <=> Higher(Of(a), Of(b)) \/ (~Higher(Of(b), Of(a)) /\ by[a] < by[b])
  OBVIOUS
<1>4. \A c \in chunks : Above(text, vector, chunks, by, c) = Below(R, chunks, c)
  <2> SUFFICES ASSUME NEW c \in chunks PROVE Above(text, vector, chunks, by, c) = Below(R, chunks, c)
    OBVIOUS
  <2>1. Above(text, vector, chunks, by, c)
          = {d \in chunks : Higher(Of(d), Of(c)) \/ (~Higher(Of(c), Of(d)) /\ by[d] < by[c])}
    BY DEF Above
  <2> HIDE DEF R, Of
  <2>. QED BY <1>3, <2>1 DEF Below
<1> HIDE DEF R, Of
<1>5. Orders(R, chunks)
  <2>1. \A a, b \in chunks : <<a, b>> \in R <=> ~NoLower(Of(b), Of(a)) \/ (NoLower(Of(a), Of(b)) /\ by[a] < by[b])
    <3> SUFFICES ASSUME NEW a \in chunks, NEW b \in chunks
                 PROVE  <<a, b>> \in R <=> ~NoLower(Of(b), Of(a)) \/ (NoLower(Of(a), Of(b)) /\ by[a] < by[b])
      OBVIOUS
    <3>1. (Higher(Of(a), Of(b)) <=> ~NoLower(Of(b), Of(a))) /\ (Higher(Of(b), Of(a)) <=> ~NoLower(Of(a), Of(b)))
      BY <1>2, ScoresOrder
    <3>. QED BY <1>3, <3>1
  <2>2. \A a, b \in chunks : NoLower(Of(a), Of(b)) \/ NoLower(Of(b), Of(a))
    BY <1>2, ScoresOrder
  <2>3. ASSUME NEW a \in chunks, NEW b \in chunks, NEW c \in chunks, NoLower(Of(a), Of(b)), NoLower(Of(b), Of(c))
        PROVE  NoLower(Of(a), Of(c))
    <3>1. Of(a) \in Fraction /\ Of(b) \in Fraction /\ Of(c) \in Fraction
      BY <1>2
    <3>. QED BY <2>3, <3>1, ScoresOrder
  <2>4. \A a \in chunks : by[a] \in Nat
    BY <1>1
  <2>5. \A a \in chunks : <<a, a>> \notin R
    BY <2>1, <2>2, <2>4
  <2>6. \A a, b, c \in chunks : <<a, b>> \in R /\ <<b, c>> \in R => <<a, c>> \in R
    <3> SUFFICES ASSUME NEW a \in chunks, NEW b \in chunks, NEW c \in chunks, <<a, b>> \in R, <<b, c>> \in R
                 PROVE  <<a, c>> \in R
      OBVIOUS
    <3>1. NoLower(Of(a), Of(b)) /\ NoLower(Of(b), Of(c))
      BY <2>1, <2>2
    <3>2. NoLower(Of(a), Of(c))
      BY <2>3, <3>1
    <3>3. NoLower(Of(c), Of(a)) => NoLower(Of(b), Of(a)) /\ NoLower(Of(c), Of(b))
      BY <2>3, <3>1
    <3>4. NoLower(Of(c), Of(a)) => by[a] < by[b] /\ by[b] < by[c]
      BY <2>1, <3>3
    <3>. QED BY <2>1, <2>4, <3>2, <3>4
  <2>7. \A a, b \in chunks : a # b => <<a, b>> \in R \/ <<b, a>> \in R
    <3> SUFFICES ASSUME NEW a \in chunks, NEW b \in chunks, a # b PROVE <<a, b>> \in R \/ <<b, a>> \in R
      OBVIOUS
    <3>1. by[a] # by[b]
      BY <1>1
    <3>. QED BY <2>1, <2>2, <2>4, <3>1
  <2>. QED BY <2>5, <2>6, <2>7 DEF Orders
<1>6. /\ \A c \in chunks : At(c) \in 0 .. Cardinality(chunks) - 1
      /\ \A a, b \in chunks : At(a) < At(b) <=> <<a, b>> \in R
      /\ \A i \in 0 .. Cardinality(chunks) - 1 : \E c \in chunks : At(c) = i
  BY <1>1, <1>4, <1>5, RowsAreNumbered
<1>7. \A a, b \in chunks : a \in Above(text, vector, chunks, by, b) <=> <<a, b>> \in R
  BY <1>4 DEF Below
<1> HIDE DEF At
<1>8. \A a, b \in chunks : At(a) = At(b) => a = b
  <2> SUFFICES ASSUME NEW a \in chunks, NEW b \in chunks, At(a) = At(b), a # b PROVE FALSE
    OBVIOUS
  <2>1. <<a, b>> \in R \/ <<b, a>> \in R
    BY <1>5 DEF Orders
  <2>2. At(a) \in Nat /\ At(b) \in Nat
    BY <1>1, <1>6
  <2>. QED BY <1>6, <2>1, <2>2
<1>9. \A a, b \in chunks : At(a) < At(b) <=> a \in Above(text, vector, chunks, by, b)
  BY <1>6, <1>7
<1>. QED BY <1>1, <1>6, <1>8, <1>9 DEF At, Numbered

\* The page is the top of the join: each of its chunks is above every chunk of
\* the join that is not on it, and then the page is full.
LEMMA PageIsTheTop ==
  ASSUME NEW text \in [Keys -> Nat], NEW vector \in [Keys -> Nat], NEW limit \in Nat
  PROVE  LET hits == Fusion(text, vector, limit)
         IN /\ \A i \in DOMAIN hits :
                 /\ hits[i].chunk \in Joined(text, vector)
                 /\ hits[i].text = text[hits[i].chunk] /\ hits[i].vector = vector[hits[i].chunk]
            /\ \A c \in Joined(text, vector) :
                 (\A i \in DOMAIN hits : hits[i].chunk # c) =>
                   /\ Len(hits) = limit
                   /\ \A i \in DOMAIN hits :
                        hits[i].chunk \in Above(text, vector, Joined(text, vector), Id, c)
<1> DEFINE all == Joined(text, vector)
           page == Top(text, vector, limit)
           size == Cardinality(page)
           hits == Fusion(text, vector, limit)
           Ahead(c) == Above(text, vector, all, Id, c)
           At(c) == Cardinality(Ahead(c))
           Shown(c) == Cardinality(Above(text, vector, page, Place, c))
           Chosen(i) == CHOOSE d \in page : Shown(d) = i - 1
<1>1. page = {c \in all : At(c) < limit} /\ page \in SUBSET all
  BY DEF Top
<1>2. /\ IsFiniteSet(all) /\ Cardinality(all) \in Nat
      /\ \A c \in all : At(c) \in 0 .. Cardinality(all) - 1
      /\ \A a, b \in all : At(a) < At(b) <=> a \in Ahead(b)
      /\ \A i \in 0 .. Cardinality(all) - 1 : \E c \in all : At(c) = i
  <2>1. Id \in [Keys -> Nat] /\ \A c, d \in Keys : Id[c] = Id[d] => c = d
    BY ReadsAssumption DEF Id
  <2>2. all \in SUBSET Joined(text, vector)
    OBVIOUS
  <2>3. Numbered(text, vector, all, Id)
    <3> HIDE DEF all
    <3>. QED BY <2>1, <2>2, ScoresNumber
  <2> HIDE DEF all
  <2>. QED BY <2>3, Zenon DEF Numbered
<1>3. /\ size \in Nat
      /\ \A c \in page : Shown(c) \in 0 .. size - 1
      /\ \A a, b \in page : Shown(a) = Shown(b) => a = b
      /\ \A i \in 0 .. size - 1 : \E c \in page : Shown(c) = i
  <2>1. Place \in [Keys -> Nat] /\ \A c, d \in Keys : Place[c] = Place[d] => c = d
    BY ReadsAssumption
  <2>2. Numbered(text, vector, page, Place)
    <3> HIDE DEF page
    <3>. QED BY <1>1, <2>1, ScoresNumber
  <2> HIDE DEF page
  <2>. QED BY <2>2, Zenon DEF Numbered
<1>4. hits = [i \in 1 .. size |-> [chunk |-> Chosen(i), text |-> text[Chosen(i)], vector |-> vector[Chosen(i)]]]
  BY DEF Fusion
<1> HIDE DEF hits, page, all, Ahead, Shown
<1>5. \A i \in 1 .. size : Chosen(i) \in page /\ Shown(Chosen(i)) = i - 1
  <2> SUFFICES ASSUME NEW i \in 1 .. size PROVE Chosen(i) \in page /\ Shown(Chosen(i)) = i - 1
    OBVIOUS
  <2>1. i - 1 \in 0 .. size - 1
    BY <1>3
  <2>2. \E c \in page : Shown(c) = i - 1
    BY <1>3, <2>1
  <2>. QED BY <2>2
<1> HIDE DEF size, At, Chosen
<1>6. DOMAIN hits = 1 .. size /\ \A i \in 1 .. size :
         hits[i].chunk = Chosen(i) /\ hits[i].text = text[Chosen(i)] /\ hits[i].vector = vector[Chosen(i)]
  BY <1>4
<1>7. Len(hits) = size
  <2>1. hits \in [1 .. size -> {hits[i] : i \in 1 .. size}]
    BY <1>4
  <2>. QED BY <1>3, <2>1
<1>8. ASSUME NEW c \in all, \A i \in DOMAIN hits : hits[i].chunk # c
      PROVE  Len(hits) = limit /\ \A i \in DOMAIN hits : hits[i].chunk \in Ahead(c)
  <2>1. c \notin page
    <3> SUFFICES ASSUME c \in page PROVE FALSE
      OBVIOUS
    <3>1. PICK n \in 0 .. size - 1 : n = Shown(c)
      BY <1>3
    <3>2. n + 1 \in 1 .. size /\ (n + 1) - 1 = n
      BY <1>3
    <3>3. Chosen(n + 1) \in page /\ Shown(Chosen(n + 1)) = n
      BY <1>5, <3>2
    <3>4. Chosen(n + 1) = c
      BY <1>3, <3>1, <3>3
    <3>. QED BY <1>6, <1>8, <3>2, <3>4
  <2>2. At(c) \in Nat /\ limit <= At(c) /\ limit \in 0 .. Cardinality(all) - 1
    BY <1>1, <1>2, <2>1
  <2>3. PICK d \in all : At(d) = limit
    BY <1>2, <2>2
  <2>4. page = Ahead(d)
    <3>1. \A a \in all : a \in page <=> a \in Ahead(d)
      BY <1>1, <1>2, <2>3
    <3>2. Ahead(d) \subseteq all
      BY DEF Ahead, Above
    <3>. QED BY <1>1, <3>1, <3>2
  <2>5. size = limit
    BY <2>3, <2>4 DEF At, size
  <2>6. \A a \in page : a \in Ahead(c)
    <3> SUFFICES ASSUME NEW a \in page PROVE a \in Ahead(c)
      OBVIOUS
    <3>1. a \in all /\ At(a) < limit /\ At(a) \in Nat
      BY <1>1, <1>2
    <3>2. At(a) < At(c)
      BY <2>2, <3>1
    <3>. QED BY <1>2, <3>1, <3>2
  <2>. QED BY <1>5, <1>6, <1>7, <2>5, <2>6
<1>9. \A i \in DOMAIN hits :
         /\ hits[i].chunk \in all
         /\ hits[i].text = text[hits[i].chunk] /\ hits[i].vector = vector[hits[i].chunk]
  BY <1>1, <1>5, <1>6
<1>. QED BY <1>8, <1>9 DEF hits, all, Ahead

\* The ranks of the two sources, whole and cut at the depth.
LEMMA SourcesRank ==
  ASSUME ReadTypes, inquiry.verb = "hybrid", NEW depth \in Nat
  PROVE  LET text == TextRanks(Cardinality(Keys))
             vector == VectorRanks(Cardinality(Keys))
         IN /\ text \in [Keys -> Nat] /\ vector \in [Keys -> Nat]
            /\ TextRanks(depth) \in [Keys -> Nat] /\ VectorRanks(depth) \in [Keys -> Nat]
            /\ \A c \in Keys : TextRanks(depth)[c] = IF text[c] <= depth THEN text[c] ELSE 0
            /\ \A c \in Keys : VectorRanks(depth)[c] = IF vector[c] <= depth THEN vector[c] ELSE 0
            /\ \A c \in Keys : vector[c] > 0 <=> c \in Embedded
            /\ \A c, d \in Keys : text[c] = text[d] /\ c # d => text[c] = 0
            /\ \A c, d \in Keys : vector[c] = vector[d] /\ c # d => vector[c] = 0
<1>1. inquiry.near \in [Keys -> Nat]
  BY ReadsAssumption DEF ReadTypes
<1>2. PICK some \in SUBSET Keys : inquiry.matching \in [some -> Nat]
  BY ReadsAssumption DEF ReadTypes
<1>3. DOMAIN inquiry.matching = some /\ Embedded \in SUBSET Keys
  BY <1>2 DEF Embedded
<1> DEFINE text == RowNumbers(some, inquiry.matching, Cardinality(Keys))
           vector == RowNumbers(Embedded, inquiry.near, Cardinality(Keys))
           t == RowNumbers(some, inquiry.matching, depth)
           v == RowNumbers(Embedded, inquiry.near, depth)
<1>4. /\ text \in [Keys -> Nat] /\ t \in [Keys -> Nat]
      /\ \A c \in Keys : t[c] = IF text[c] <= depth THEN text[c] ELSE 0
      /\ \A c, d \in Keys : text[c] = text[d] /\ c # d => text[c] = 0
  <2>1. \A c \in some : inquiry.matching[c] \in Nat
    BY <1>2
  <2>. QED BY <1>2, <2>1, RowsRank
<1>5. /\ vector \in [Keys -> Nat] /\ v \in [Keys -> Nat]
      /\ \A c \in Keys : v[c] = IF vector[c] <= depth THEN vector[c] ELSE 0
      /\ \A c \in Keys : vector[c] > 0 <=> c \in Embedded
      /\ \A c, d \in Keys : vector[c] = vector[d] /\ c # d => vector[c] = 0
  <2>1. \A c \in Embedded : inquiry.near[c] \in Nat
    BY <1>1, <1>3
  <2>. QED BY <1>3, <2>1, RowsRank
<1>6. /\ TextRanks(Cardinality(Keys)) = text /\ VectorRanks(Cardinality(Keys)) = vector
      /\ TextRanks(depth) = t /\ VectorRanks(depth) = v
  BY <1>3 DEF TextRanks, VectorRanks
<1> HIDE DEF text, vector, t, v
<1>. QED BY <1>4, <1>5, <1>6

LEMMA DepthCounts ==
  ASSUME ReadTypes
  PROVE  Applied(inquiry.limit) \in Nat /\ CandidateDepth(Applied(inquiry.limit)) \in Nat
<1>1. Applied(inquiry.limit) \in Nat
  BY ReadsAssumption DEF ReadTypes, Applied, Fewer
<1>2. Applied(inquiry.limit) * Factor \in Nat
  BY <1>1, ReadsAssumption
<1>. QED BY <1>1, <1>2, ReadsAssumption DEF CandidateDepth, Fewer

LEMMA HybridAnswers ==
  ASSUME ReadTypes, HybridInv
  PROVE  HybridIsOneCohort
<1> SUFFICES ASSUME inquiry.verb = "hybrid", where = "done" PROVE HybridIsOneCohort
  BY DEF HybridIsOneCohort
<1> DEFINE limit == Applied(inquiry.limit)
           depth == CandidateDepth(limit)
           text == TextRanks(Cardinality(Keys))
           vector == VectorRanks(Cardinality(Keys))
           t == TextRanks(depth)
           v == VectorRanks(depth)
           hits == told.hits
<1>1. limit \in Nat /\ depth \in Nat
  BY DepthCounts
<1>2. /\ hits = Fusion(t, v, limit) /\ (raced = {} => \A c \in Embedded : vectors[c] = told.cohort)
      /\ Undisturbed => told.embedded = Cardinality(Embedded)
  BY DEF HybridInv
<1> HIDE DEF limit, depth
<1>3. /\ text \in [Keys -> Nat] /\ vector \in [Keys -> Nat] /\ t \in [Keys -> Nat] /\ v \in [Keys -> Nat]
      /\ \A c \in Keys : t[c] = IF text[c] <= depth THEN text[c] ELSE 0
      /\ \A c \in Keys : v[c] = IF vector[c] <= depth THEN vector[c] ELSE 0
      /\ \A c \in Keys : vector[c] > 0 <=> c \in Embedded
      /\ \A c, d \in Keys : text[c] = text[d] /\ c # d => text[c] = 0
      /\ \A c, d \in Keys : vector[c] = vector[d] /\ c # d => vector[c] = 0
  BY <1>1, SourcesRank
<1> HIDE DEF text, vector, t, v, hits
<1>4. /\ \A i \in DOMAIN hits :
           /\ hits[i].chunk \in Joined(t, v)
           /\ hits[i].text = t[hits[i].chunk] /\ hits[i].vector = v[hits[i].chunk]
      /\ \A c \in Joined(t, v) :
           (\A i \in DOMAIN hits : hits[i].chunk # c) =>
             /\ Len(hits) = limit
             /\ \A i \in DOMAIN hits : hits[i].chunk \in Above(t, v, Joined(t, v), Id, c)
  BY <1>1, <1>2, <1>3, PageIsTheTop, ZenonT(60)
<1>5. \A c \in Joined(t, v) : c \in Keys /\ t[c] + v[c] > 0
  BY DEF Joined
<1>6. raced = {} => \A i \in DOMAIN hits : hits[i].vector > 0 => vectors[hits[i].chunk] = told.cohort
  <2> SUFFICES ASSUME raced = {}, NEW i \in DOMAIN hits, hits[i].vector > 0
               PROVE  vectors[hits[i].chunk] = told.cohort
    OBVIOUS
  <2>1. PICK c \in Keys : c = hits[i].chunk /\ v[c] > 0
    BY <1>4, <1>5
  <2>2. vector[c] > 0
    BY <1>1, <1>3, <2>1
  <2>. QED BY <1>2, <1>3, <2>1, <2>2
<1>7. (\A c \in Keys : text[c] <= depth /\ vector[c] <= depth) => hits = Fusion(text, vector, limit)
  <2> SUFFICES ASSUME \A c \in Keys : text[c] <= depth /\ vector[c] <= depth
               PROVE  hits = Fusion(text, vector, limit)
    OBVIOUS
  <2>1. t = text /\ v = vector
    BY <1>3
  <2>. QED BY <1>2, <2>1
<1>8. \A i \in DOMAIN hits : hits[i].vector = 0 => vectors[hits[i].chunk] = "none" \/ vector[hits[i].chunk] > depth
  <2> SUFFICES ASSUME NEW i \in DOMAIN hits, hits[i].vector = 0
               PROVE  vectors[hits[i].chunk] = "none" \/ vector[hits[i].chunk] > depth
    OBVIOUS
  <2>1. PICK c \in Keys : c = hits[i].chunk /\ v[c] = 0
    BY <1>4, <1>5
  <2>2. vector[c] = 0 \/ vector[c] > depth
    BY <1>1, <1>3, <2>1
  <2>3. vector[c] = 0 => vectors[c] = "none"
    BY <1>3 DEF Embedded
  <2>. QED BY <2>1, <2>2, <2>3
<1>9. ASSUME NEW c \in Keys,
             text[c] \in 1 .. depth \/ vector[c] \in 1 .. depth,
             \A i \in DOMAIN hits : hits[i].chunk # c
      PROVE  /\ Len(hits) = limit
             /\ \A i \in DOMAIN hits :
                  \/ hits[i].text > 0 /\ (text[c] = 0 \/ hits[i].text < text[c] \/ text[c] > depth)
                  \/ hits[i].vector > 0 /\ (vector[c] = 0 \/ hits[i].vector < vector[c] \/ vector[c] > depth)
  <2>1. t[c] \in Nat /\ v[c] \in Nat /\ t[c] + v[c] > 0
    BY <1>1, <1>3, <1>9
  <2>2. c \in Joined(t, v)
    BY <2>1 DEF Joined
  <2>3. Len(hits) = limit /\ \A i \in DOMAIN hits : hits[i].chunk \in Above(t, v, Joined(t, v), Id, c)
    BY <1>4, <1>9, <2>2
  <2>4. ASSUME NEW i \in DOMAIN hits,
               ~(hits[i].text > 0 /\ (text[c] = 0 \/ hits[i].text < text[c] \/ text[c] > depth)),
               ~(hits[i].vector > 0 /\ (vector[c] = 0 \/ hits[i].vector < vector[c] \/ vector[c] > depth))
        PROVE  FALSE
    <3>1. PICK d \in Keys : d = hits[i].chunk /\ t[d] + v[d] > 0 /\ hits[i].text = t[d] /\ hits[i].vector = v[d]
      BY <1>4, <1>5
    <3>2. d # c /\ d \in Above(t, v, Joined(t, v), Id, c)
      BY <1>9, <2>3, <3>1
    <3>3. t[d] \in Nat /\ v[d] \in Nat /\ text[c] \in Nat /\ vector[c] \in Nat /\ text[d] \in Nat /\ vector[d] \in Nat
      BY <1>3
    <3>4. t[d] = 0 \/ (0 < t[c] /\ t[c] <= t[d])
      BY <1>1, <1>3, <2>4, <3>1, <3>3
    <3>5. v[d] = 0 \/ (0 < v[c] /\ v[c] <= v[d])
      BY <1>1, <1>3, <2>4, <3>1, <3>3
    <3>6. (t[d] > 0 => t[c] # t[d]) /\ (v[d] > 0 => v[c] # v[d])
      BY <1>1, <1>3, <3>2, <3>3
    <3>7. Higher(Score(t[c], v[c]), Score(t[d], v[d]))
      BY <2>1, <3>1, <3>3, <3>4, <3>5, <3>6, BetterRanksScoreHigher
    <3>8. Score(t[c], v[c]) \in Fraction /\ Score(t[d], v[d]) \in Fraction
      BY <2>1, <3>1, <3>3, ScoresAreFractions
    <3>9. ~Higher(Score(t[d], v[d]), Score(t[c], v[c]))
      BY <3>7, <3>8, ScoresOrder
    <3>. QED BY <3>2, <3>7, <3>9 DEF Above
  <2>. QED BY <2>3, <2>4
<1>10. HybridIsOneCohort
       <=> /\ Undisturbed => told.embedded = Cardinality(Embedded)
           /\ raced = {} => \A i \in DOMAIN hits : hits[i].vector > 0 => vectors[hits[i].chunk] = told.cohort
           /\ (\A c \in Keys : text[c] <= depth /\ vector[c] <= depth) => hits = Fusion(text, vector, limit)
           /\ \A i \in DOMAIN hits : hits[i].vector = 0 =>
                vectors[hits[i].chunk] = "none" \/ vector[hits[i].chunk] > depth
           /\ \A c \in Keys :
                /\ text[c] \in 1 .. depth \/ vector[c] \in 1 .. depth
                /\ \A i \in DOMAIN hits : hits[i].chunk # c
                => /\ Len(hits) = limit
                   /\ \A i \in DOMAIN hits :
                        \/ hits[i].text > 0 /\ (text[c] = 0 \/ hits[i].text < text[c] \/ text[c] > depth)
                        \/ hits[i].vector > 0 /\ (vector[c] = 0 \/ hits[i].vector < vector[c] \/ vector[c] > depth)
  BY Zenon DEF HybridIsOneCohort, hits, text, vector, depth, limit
<1>. QED BY <1>2, <1>6, <1>7, <1>8, <1>9, <1>10

\* What the three reads share: the types, and what an ingest may do meanwhile.
LEMMA ReadTypesStep ==
  ASSUME ReadTypes, ReadsNext
  PROVE  ReadTypes'
<1>0. MaxWrites \in Nat /\ writes \in 0 .. MaxWrites
      /\ (writes' = writes \/ (writes > 0 /\ writes' = writes - 1))
  BY ReadsAssumption
     DEF ReadTypes, ReadsNext, WriteNode, WriteVector, List, Coverage, OrientCohorts, CorpusCohort, QueryVector, Hybrid
<1>9. writes' \in 0 .. MaxWrites
  BY <1>0
<1>1. CASE WriteNode
  <2>1. PICK c \in Keys, t \in {0, Newest, Newest + 1} : stamp' = [stamp EXCEPT ![c] = t]
    BY <1>1 DEF WriteNode
  <2>2. Keys # {} /\ Newest \in Nat
    BY NewestIsNewest
  <2>3. t \in Nat
    BY <2>1, <2>2
  <2>. QED BY <1>1, <1>9, <2>1, <2>3 DEF WriteNode, ReadTypes
<1>2. CASE WriteVector
  <2>1. PICK c \in Keys, v \in Cohorts \cup {"none"} : vectors' = [vectors EXCEPT ![c] = v]
    BY <1>2 DEF WriteVector
  <2>. QED BY <1>2, <1>9, <2>1 DEF WriteVector, ReadTypes
<1>3. CASE List
  BY <1>3, <1>9 DEF List, ReadTypes
<1>4. CASE Coverage
  BY <1>4, <1>9 DEF Coverage, ReadTypes
<1>5. CASE OrientCohorts
  BY <1>5, <1>9 DEF OrientCohorts, ReadTypes
<1>6. CASE CorpusCohort
  <2>1. stamp' = stamp /\ vectors' = vectors /\ inquiry' = inquiry
        /\ (told' = told \/ \E v \in CohortsIn : told' = [told EXCEPT !.cohort = v])
    BY <1>6 DEF CorpusCohort
  <2>. QED BY <1>9, <2>1 DEF ReadTypes
<1>7. CASE QueryVector
  BY <1>7, <1>9 DEF QueryVector, ReadTypes
<1>8. CASE Hybrid
  BY <1>8, <1>9 DEF Hybrid, ReadTypes
<1>. QED BY <1>1, <1>2, <1>3, <1>4, <1>5, <1>6, <1>7, <1>8 DEF ReadsNext

LEMMA PagesStep ==
  ASSUME ReadTypes, PagesInv, ReadsNext
  PROVE  PagesInv'
<1>1. inquiry' = inquiry
  BY DEF ReadsNext, WriteNode, WriteVector, List, Coverage, OrientCohorts, CorpusCohort, QueryVector, Hybrid
<1> SUFFICES ASSUME inquiry.verb = "list" PROVE PagesInv'
  BY <1>1 DEF PagesInv
<1>2. CASE WriteNode
  <2>1. /\ where = "page" /\ where' = where /\ told' = told /\ seen' = seen /\ raced \subseteq raced'
    BY <1>2 DEF WriteNode
  <2>2. ASSUME 0 \notin raced', NEW k \in (Present \ raced)'
        PROVE  k \in seen' \/ told'.offset <= Position(k)'
    <3>1. k \in Present \ raced /\ Position(k) <= Position(k)' /\ 0 \notin raced
      BY <1>2, <2>1, <2>2, PagesWrite
    <3>2. k \in seen \/ told.offset <= Position(k)
      BY <2>1, <3>1 DEF PagesInv
    <3>3. Position(k) \in Nat /\ Position(k)' \in Nat /\ told.offset \in Nat
      BY <1>2, <2>2, <3>1, PagesWrite, PositionsNumber DEF PagesInv
    <3>. QED BY <2>1, <3>1, <3>2, <3>3
  <2>3. told'.offset \in Nat /\ where' = "page"
    BY <2>1 DEF PagesInv
  <2>. QED BY <1>1, <2>2, <2>3 DEF PagesInv
<1>3. CASE List
  BY <1>3, ListStep
<1>4. ~(WriteVector \/ OrientCohorts \/ CorpusCohort \/ QueryVector \/ Hybrid \/ Coverage)
  BY DEF WriteVector, OrientCohorts, CorpusCohort, QueryVector, Hybrid, Coverage, PagesInv
<1>. QED BY <1>2, <1>3, <1>4 DEF ReadsNext

LEMMA OrientStep ==
  ASSUME ReadTypes, OrientInv, ReadsNext
  PROVE  OrientInv'
<1>1. inquiry' = inquiry
  BY DEF ReadsNext, WriteNode, WriteVector, List, Coverage, OrientCohorts, CorpusCohort, QueryVector, Hybrid
<1> SUFFICES ASSUME inquiry.verb = "orient" PROVE OrientInv'
  BY <1>1 DEF OrientInv
<1>2. CASE WriteVector
  <2>1. where' = where /\ raced' # {}
    BY <1>2 DEF WriteVector
  <2>. QED BY <2>1 DEF OrientInv
<1>3. CASE Coverage
  <2>1. vectors' = vectors /\ told' = [told EXCEPT !.embedded = Cardinality(Embedded)] /\ where' = "cohort"
    BY <1>3 DEF Coverage
  <2>2. told'.embedded = Cardinality(Embedded) /\ Embedded' = Embedded
    BY <2>1 DEF ReadTypes, Embedded
  <2>. QED BY <2>1, <2>2 DEF OrientInv
<1>4. CASE OrientCohorts
  <2>1. /\ told' = [told EXCEPT !.total = Cardinality(Embedded)] /\ where' = "done" /\ raced' = raced
        /\ where = "cohort"
    BY <1>4 DEF OrientCohorts
  <2>2. told'.total = Cardinality(Embedded) /\ told'.embedded = told.embedded
    BY <2>1 DEF ReadTypes
  <2>. QED BY <2>1, <2>2 DEF OrientInv
<1>5. ~(WriteNode \/ List \/ CorpusCohort \/ QueryVector \/ Hybrid)
  BY DEF WriteNode, List, CorpusCohort, QueryVector, Hybrid
<1>. QED BY <1>2, <1>3, <1>4, <1>5 DEF ReadsNext

\* One cohort is all there is.
LEMMA OneCohort ==
  ASSUME Cardinality(CohortsIn) = 1, IsFiniteSet(CohortsIn), NEW v \in CohortsIn
  PROVE  \A c \in Embedded : vectors[c] = v
<1>1. CohortsIn = {v}
  <2>1. {v} \subseteq CohortsIn /\ Cardinality({v}) = 1
    BY FS_Singleton
  <2>. QED BY <2>1, FS_Subset
<1>. QED BY <1>1 DEF CohortsIn

LEMMA CohortsFinite ==
  ASSUME TRUE
  PROVE  IsFiniteSet(CohortsIn)
<1> DEFINE f == [c \in Embedded |-> vectors[c]]
<1>1. f \in [Embedded -> CohortsIn] /\ \A v \in CohortsIn : \E c \in Embedded : f[c] = v
  BY DEF CohortsIn
<1>2. f \in Surjection(Embedded, CohortsIn)
  <2> HIDE DEF f
  <2>. QED BY <1>1, Fun_IsSurj
<1>3. IsFiniteSet(Embedded)
  <2>1. Embedded \subseteq Keys
    BY DEF Embedded
  <2>. QED BY <2>1, ReadsAssumption, FS_Subset
<1>. QED BY <1>2, <1>3, FS_Surjection

LEMMA HybridStep ==
  ASSUME ReadTypes, HybridInv, ReadsNext
  PROVE  HybridInv'
<1>1. inquiry' = inquiry
  BY DEF ReadsNext, WriteNode, WriteVector, List, Coverage, OrientCohorts, CorpusCohort, QueryVector, Hybrid
<1> SUFFICES ASSUME inquiry.verb = "hybrid" PROVE HybridInv'
  BY <1>1 DEF HybridInv
<1>2. CASE WriteVector
  <2>1. where' = where /\ where # "done" /\ raced' # {} /\ writes > 0 /\ writes' = writes - 1
    BY <1>2 DEF WriteVector
  <2>2. ~Undisturbed'
    BY <2>1, ReadsAssumption DEF ReadTypes, Undisturbed
  <2>. QED BY <2>1, <2>2 DEF HybridInv
<1>3. CASE Coverage
  <2>1. where' = "cohort" /\ vectors' = vectors /\ told' = [told EXCEPT !.embedded = Cardinality(Embedded)]
    BY <1>3 DEF Coverage
  <2>2. told'.embedded = Cardinality(Embedded) /\ Embedded' = Embedded
    BY <2>1 DEF ReadTypes, Embedded
  <2>. QED BY <2>1, <2>2 DEF HybridInv
<1>4. CASE CorpusCohort
  <2>1. CASE Cardinality(CohortsIn) = 1
    <3>1. PICK v \in CohortsIn : /\ told' = [told EXCEPT !.cohort = v] /\ where' = "embed"
                                 /\ vectors' = vectors /\ where = "cohort" /\ writes' = writes
      BY <1>4, <2>1 DEF CorpusCohort
    <3>2. told'.cohort = v /\ told'.embedded = told.embedded /\ \A c \in Embedded : vectors[c] = v
      BY <2>1, <3>1, OneCohort, CohortsFinite DEF ReadTypes
    <3>3. Embedded' = Embedded
      BY <3>1 DEF Embedded
    <3>4. Undisturbed' = Undisturbed
      BY <3>1 DEF Undisturbed
    <3>. QED BY <3>1, <3>2, <3>3, <3>4 DEF HybridInv
  <2>2. CASE Cardinality(CohortsIn) # 1
    <3>1. where' = "refused"
      BY <1>4, <2>2 DEF CorpusCohort
    <3>. QED BY <3>1 DEF HybridInv
  <2>. QED BY <2>1, <2>2
<1>5. CASE QueryVector
  <2>1. where = "embed" /\ where' \in {"fuse", "refused"} /\ UNCHANGED <<stamp, vectors, inquiry, told, seen, raced, writes>>
    BY <1>5 DEF QueryVector
  <2>2. Embedded' = Embedded /\ Undisturbed' = Undisturbed
    BY <2>1 DEF Embedded, Undisturbed
  <2>. QED BY <2>1, <2>2 DEF HybridInv
<1>6. CASE Hybrid
  <2> DEFINE limit == Applied(inquiry.limit)
             depth == CandidateDepth(limit)
             hits == Fusion(TextRanks(depth), VectorRanks(depth), limit)
  <2>1. /\ where = "fuse" /\ where' = "done" /\ vectors' = vectors /\ raced' = raced /\ writes' = writes
        /\ told' = [told EXCEPT !.hits = hits]
    BY <1>6 DEF Hybrid
  <2>2. told'.hits = hits /\ told'.cohort = told.cohort /\ told'.embedded = told.embedded
    BY <2>1 DEF ReadTypes
  <2>3. Embedded' = Embedded
    BY <2>1 DEF Embedded
  <2>4. hits' = hits
    <3>1. TextRanks(depth)' = TextRanks(depth) /\ VectorRanks(depth)' = VectorRanks(depth) /\ limit' = limit
      BY <1>1, <2>1 DEF TextRanks, VectorRanks, Embedded
    <3>. QED BY <3>1
  <2> HIDE DEF hits
  <2>6. (where = "done" => told.hits = hits)'
    BY <2>2, <2>4
  <2>7. (where \in {"embed", "fuse", "done"} /\ raced = {} => \A c \in Embedded : vectors[c] = told.cohort)'
    BY <2>1, <2>2, <2>3 DEF HybridInv
  <2>8. (where \in {"cohort", "embed", "fuse", "done"} /\ Undisturbed => told.embedded = Cardinality(Embedded))'
    BY <2>1, <2>2, <2>3 DEF HybridInv, Undisturbed
  <2>. QED BY <1>1, <2>1, <2>6, <2>7, <2>8 DEF HybridInv, hits
<1>7. ~(WriteNode \/ List \/ OrientCohorts)
  BY DEF WriteNode, List, OrientCohorts
<1>. QED BY <1>2, <1>3, <1>4, <1>5, <1>6, <1>7 DEF ReadsNext

LEMMA ReadsStart ==
  ASSUME ReadsInit
  PROVE  ReadsInv
<1>1. ReadTypes
  BY ReadsAssumption DEF ReadsInit, ReadTypes, Untold
<1>2. inquiry.verb \in {"list", "orient", "hybrid"}
  BY <1>1, ReadsAssumption DEF ReadTypes
<1>3. /\ told = Untold /\ seen = {} /\ raced = {}
      /\ where = (IF inquiry.verb = "list" THEN "page" ELSE "coverage")
  BY DEF ReadsInit
<1>4. PagesInv
  <2>1. told.offset = 0
    BY <1>3 DEF Untold
  <2>2. \A k \in Present : 0 <= Position(k)
    BY <1>1, PositionsNumber
  <2>. QED BY <1>3, <2>1, <2>2 DEF PagesInv
<1>5. OrientInv /\ HybridInv
  BY <1>3 DEF OrientInv, HybridInv
<1>. QED BY <1>1, <1>4, <1>5 DEF ReadsInv

LEMMA ReadsStep ==
  ASSUME ReadsInv, [ReadsNext]_readVars
  PROVE  ReadsInv'
<1>1. CASE ReadsNext
  BY <1>1, ReadTypesStep, PagesStep, OrientStep, HybridStep DEF ReadsInv
<1>2. CASE UNCHANGED readVars
  <2>1. UNCHANGED <<stamp, vectors, inquiry, told, seen, where, raced, writes>>
    BY <1>2 DEF readVars
  <2>2. ReadTypes'
    BY <2>1 DEF ReadsInv, ReadTypes
  <2>3. PagesInv'
    <3>1. Present' = Present /\ \A k \in Present : Position(k)' = Position(k)
      BY <2>1 DEF Present, Position, Before
    <3>. QED BY <2>1, <3>1 DEF ReadsInv, PagesInv
  <2>4. OrientInv'
    BY <2>1 DEF ReadsInv, OrientInv, Embedded
  <2>5. HybridInv'
    BY <2>1 DEF ReadsInv, HybridInv, TextRanks, VectorRanks, Embedded, Undisturbed
  <2>. QED BY <2>2, <2>3, <2>4, <2>5 DEF ReadsInv
<1>. QED BY <1>1, <1>2

LEMMA ReadsTell ==
  ASSUME ReadsInv
  PROVE  PagesMissNothing /\ HybridIsOneCohort /\ OrientAddsUp
BY HybridAnswers DEF ReadsInv, PagesInv, OrientInv, PagesMissNothing, OrientAddsUp

-----------------------------------------------------------------------------
(* Walks of the graph                                                      *)

WalkTypes ==
  /\ graph \in [nodes : SUBSET Nodes, edges : SUBSET Edge] /\ IsFiniteSet(graph.edges)
  /\ \A e \in graph.edges : e.src \in graph.nodes /\ e.dst \in graph.nodes
  /\ ask \in Questions /\ level \in Nat
  /\ at \notin {"walk", "done"} => rows = {} /\ level = 0

\* A row of the walk, and what it says of its node.
GoodRow(r) ==
  /\ r.depth \in Nat /\ r.depth <= level + 1 /\ r.depth <= Bound /\ r.node \in Within[r.depth]
  /\ r.path \in Seq(Edge)
  /\ ask.verb = "shortest-path" =>
       /\ Len(r.path) = r.depth
       /\ r.node = (IF r.path = <<>> THEN ask.from ELSE r.path[Len(r.path)].dst)
       /\ \A i \in DOMAIN r.path :
            /\ r.path[i] \in graph.edges /\ Follows(r.path[i])
            /\ r.path[i].src = (IF i = 1 THEN ask.from ELSE r.path[i - 1].dst)
            /\ r.path[i].dst # ask.from /\ \A j \in DOMAIN r.path : r.path[j].dst = r.path[i].dst => j = i
            /\ r.path[i].dst \in Within[i]

\* The rows of a walk: each node within its depth, the start, and whatever is
\* at a distance that has been followed, short of a target already met.
Walked ==
  /\ ask.verb \in {"traverse", "shortest-path"}
  /\ \A r \in rows : GoodRow(r)
  /\ level <= Bound
  /\ \A d \in 0 .. level : \A n \in Nodes :
       IsDistance(n, d) /\ (ask.verb = "shortest-path" => d = 0 \/ ask.to \notin Within[d - 1]) =>
         \E r \in rows : r.node = n /\ r.depth = d

WalkInv == WalkTypes /\ (at = "walk" => Walked) /\ WalksAreHonest

\* The sets within a distance: there is a function as Within defines it.
Layers(f, n) == f = [k \in 0 .. n |-> IF k = 0 THEN {ask.from} ELSE Reached(f[k - 1])]

LEMMA LayersExist ==
  ASSUME NEW n \in Nat
  PROVE  \E f : Layers(f, n)
<1> DEFINE T == {m \in Nat : \E f : Layers(f, m)}
<1>1. 0 \in T
  <2>1. Layers([k \in 0 .. 0 |-> {ask.from}], 0)
    BY DEF Layers
  <2>. QED BY <2>1
<1>2. ASSUME NEW m \in Nat, m \in T PROVE m + 1 \in T
  <2>1. PICK f : Layers(f, m)
    BY <1>2
  <2> DEFINE g == [k \in 0 .. m + 1 |-> IF k <= m THEN f[k] ELSE Reached(f[m])]
  <2>2. ASSUME NEW k \in 0 .. m + 1
        PROVE  g[k] = IF k = 0 THEN {ask.from} ELSE Reached(g[k - 1])
    <3>1. CASE k = 0
      <4>1. f[0] = {ask.from}
        BY <2>1 DEF Layers
      <4>. QED BY <3>1, <4>1
    <3>2. CASE k # 0 /\ k <= m
      <4>1. k - 1 \in 0 .. m /\ k \in 0 .. m /\ k - 1 \in 0 .. m + 1
        BY <3>2
      <4>2. f[k] = Reached(f[k - 1])
        BY <2>1, <3>2, <4>1 DEF Layers
      <4>. QED BY <3>2, <4>1, <4>2
    <3>3. CASE k = m + 1
      BY <3>3
    <3>. QED BY <3>1, <3>2, <3>3
  <2>3. Layers(g, m + 1)
    <3>1. g = [k \in 0 .. m + 1 |-> g[k]]
      OBVIOUS
    <3> HIDE DEF g
    <3>. QED BY <2>2, <3>1 DEF Layers
  <2>. QED BY <2>3
<1>3. Nat \subseteq T
  <2> HIDE DEF T
  <2>. QED BY <1>1, <1>2, Inductive
<1>. QED BY <1>3

LEMMA LayersAgree ==
  ASSUME NEW n \in Nat, NEW m \in Nat, NEW f, NEW g, Layers(f, n), Layers(g, m), NEW k \in Nat, k <= n, k <= m
  PROVE  f[k] = g[k]
<1> DEFINE T == {j \in Nat : j <= n /\ j <= m => f[j] = g[j]}
<1>1. 0 \in T
  <2>1. f[0] = {ask.from} /\ g[0] = {ask.from}
    BY DEF Layers
  <2>. QED BY <2>1
<1>2. ASSUME NEW j \in Nat, j \in T PROVE j + 1 \in T
  <2> SUFFICES ASSUME j + 1 <= n, j + 1 <= m PROVE f[j + 1] = g[j + 1]
    OBVIOUS
  <2>1. j + 1 \in 0 .. n /\ j + 1 \in 0 .. m /\ j + 1 # 0 /\ (j + 1) - 1 = j
    OBVIOUS
  <2>2. f[j + 1] = Reached(f[j]) /\ g[j + 1] = Reached(g[j])
    BY <2>1 DEF Layers
  <2>. QED BY <1>2, <2>2
<1>3. Nat \subseteq T
  <2> HIDE DEF T
  <2>. QED BY <1>1, <1>2, Inductive
<1>. QED BY <1>3

LEMMA WithinIs ==
  ASSUME TRUE
  PROVE  Within = [k \in Nat |-> IF k = 0 THEN {ask.from} ELSE Reached(Within[k - 1])]
<1> DEFINE Of(n) == CHOOSE f : Layers(f, n)
           h == [k \in Nat |-> Of(k)[k]]
<1>1. \A n \in Nat : Layers(Of(n), n)
  BY LayersExist
<1>2. ASSUME NEW k \in Nat
      PROVE  h[k] = IF k = 0 THEN {ask.from} ELSE Reached(h[k - 1])
  <2>1. Layers(Of(k), k)
    BY <1>1
  <2>2. Of(k)[k] = IF k = 0 THEN {ask.from} ELSE Reached(Of(k)[k - 1])
    <3> HIDE DEF Of
    <3>1. k \in 0 .. k
      OBVIOUS
    <3>. QED BY <2>1, <3>1 DEF Layers
  <2>3. CASE k # 0
    <3>1. k - 1 \in Nat /\ k - 1 <= k
      BY <2>3
    <3>2. Layers(Of(k - 1), k - 1)
      BY <1>1, <3>1
    <3> HIDE DEF Of
    <3>3. Of(k)[k - 1] = Of(k - 1)[k - 1]
      BY <2>1, <3>1, <3>2, LayersAgree
    <3>. QED BY <2>2, <2>3, <3>1, <3>3
  <2>. QED BY <2>2, <2>3
<1>3. h = [k \in Nat |-> IF k = 0 THEN {ask.from} ELSE Reached(h[k - 1])]
  <2>1. h = [k \in Nat |-> h[k]]
    OBVIOUS
  <2> HIDE DEF h
  <2>. QED BY <1>2, <2>1
<1> HIDE DEF h
<1>4. \E f : f = [k \in Nat |-> IF k = 0 THEN {ask.from} ELSE Reached(f[k - 1])]
  BY <1>3
<1>. QED BY <1>4 DEF Within

\* What is within a distance is within a longer one, and in the graph.
LEMMA WithinGrows ==
  ASSUME TRUE
  PROVE  /\ Within[0] = {ask.from}
         /\ \A k \in Nat : Within[k + 1] = Reached(Within[k])
         /\ \A j, k \in Nat : j <= k => Within[j] \subseteq Within[k]
<1>1. Within[0] = {ask.from}
  BY WithinIs
<1>2. \A k \in Nat : Within[k + 1] = Reached(Within[k])
  <2> SUFFICES ASSUME NEW k \in Nat PROVE Within[k + 1] = Reached(Within[k])
    OBVIOUS
  <2>1. k + 1 \in Nat /\ k + 1 # 0 /\ (k + 1) - 1 = k
    OBVIOUS
  <2>. QED BY <2>1, WithinIs
<1>3. ASSUME NEW j \in Nat
      PROVE  \A k \in Nat : j <= k => Within[j] \subseteq Within[k]
  <2> DEFINE T == {k \in Nat : j <= k => Within[j] \subseteq Within[k]}
  <2>1. 0 \in T
    OBVIOUS
  <2>2. ASSUME NEW k \in Nat, k \in T PROVE k + 1 \in T
    <3>1. Within[k] \subseteq Within[k + 1]
      BY <1>2 DEF Reached
    <3>2. CASE j <= k
      BY <2>2, <3>1, <3>2
    <3>3. CASE j = k + 1
      BY <3>3
    <3>4. j <= k + 1 => j <= k \/ j = k + 1
      OBVIOUS
    <3>. QED BY <3>2, <3>3, <3>4
  <2>3. Nat \subseteq T
    <3> HIDE DEF T
    <3>. QED BY <2>1, <2>2, Inductive
  <2>. QED BY <2>3
<1>. QED BY <1>1, <1>2, <1>3

LEMMA WithinStaysInTheGraph ==
  ASSUME NEW S, ask.from \in S, \A e \in graph.edges : e.dst \in S, NEW k \in Nat
  PROVE  Within[k] \subseteq S
<1> DEFINE T == {j \in Nat : Within[j] \subseteq S}
<1>1. 0 \in T
  BY WithinGrows
<1>2. ASSUME NEW j \in Nat, j \in T PROVE j + 1 \in T
  <2>1. Within[j + 1] = Reached(Within[j]) /\ j + 1 \in Nat /\ Within[j] \subseteq S
    BY <1>2, WithinGrows
  <2>2. Within[j + 1] \subseteq S
    BY <2>1 DEF Reached
  <2>. QED BY <2>1, <2>2
<1>3. Nat \subseteq T
  <2> HIDE DEF T
  <2>. QED BY <1>1, <1>2, Inductive
<1>. QED BY <1>3

\* Nothing more is reached once one more step reaches nothing.
LEMMA WithinSettles ==
  ASSUME NEW j \in Nat, Within[j + 1] \subseteq Within[j], NEW k \in Nat
  PROVE  Within[k] \subseteq Within[j]
<1> DEFINE T == {i \in Nat : Within[i] \subseteq Within[j]}
<1>1. 0 \in T
  BY WithinGrows
<1>2. ASSUME NEW i \in Nat, i \in T PROVE i + 1 \in T
  <2>1. Within[i + 1] = Reached(Within[i]) /\ Within[j + 1] = Reached(Within[j])
    BY WithinGrows
  <2>2. Reached(Within[i]) \subseteq Reached(Within[j])
    BY <1>2 DEF Reached
  <2>. QED BY <2>1, <2>2
<1>3. Nat \subseteq T
  <2> HIDE DEF T
  <2>. QED BY <1>1, <1>2, Inductive
<1>. QED BY <1>3

\* Whatever is within a distance has one.
LEMMA DistanceExists ==
  ASSUME NEW k \in Nat, NEW n \in Within[k]
  PROVE  \E d \in 0 .. k : IsDistance(n, d)
<1> DEFINE T == {d \in Nat : n \in Within[d]}
<1>1. PICK d \in T : \A j \in T : d <= j
  <2>1. T \in SUBSET Nat /\ k \in T
    OBVIOUS
  <2> HIDE DEF T
  <2>. QED BY <2>1, LeastOf
<1>2. d \in Nat /\ n \in Within[d] /\ d <= k
  BY <1>1
<1>3. d # 0 => n \notin Within[d - 1]
  BY <1>1, <1>2
<1>. QED BY <1>2, <1>3 DEF IsDistance

LEMMA BoundCounts ==
  ASSUME WalkTypes
  PROVE  Bound \in Nat /\ ask.from \in Nodes /\ ask.verb \in Verbs
BY GraphWalkAssumption DEF WalkTypes, Bound

\* What a node at the next distance is reached from has been followed, and so
\* the node has its row once no row is left to follow at this depth.
LEMMA NextDistance ==
  ASSUME WalkTypes, Walked, NextRows = {}, level < Bound,
         NEW n \in Nodes, IsDistance(n, level + 1),
         ask.verb = "shortest-path" => ask.to \notin Within[level]
  PROVE  \E r \in rows : r.node = n /\ r.depth = level + 1
<1>1. level \in Nat /\ n \in Reached(Within[level]) /\ n \notin Within[level]
  <2>1. level \in Nat /\ (level + 1) - 1 = level /\ level + 1 # 0
    BY DEF WalkTypes
  <2>. QED BY <2>1, WithinGrows DEF IsDistance
<1>2. PICK e \in graph.edges : e.src \in Within[level] /\ Follows(e) /\ e.dst = n
  BY <1>1 DEF Reached
<1>3. IsDistance(e.src, level)
  <2>1. ASSUME level # 0, e.src \in Within[level - 1] PROVE FALSE
    <3>1. level - 1 \in Nat /\ (level - 1) + 1 = level
      BY <1>1, <2>1
    <3>2. Within[level] = Reached(Within[level - 1])
      BY <3>1, WithinGrows
    <3>3. n \in Within[level]
      BY <1>2, <2>1, <3>2 DEF Reached
    <3>. QED BY <1>1, <3>3
  <2>. QED BY <1>2, <2>1 DEF IsDistance
<1>4. ask.verb = "shortest-path" => level = 0 \/ ask.to \notin Within[level - 1]
  <2> SUFFICES ASSUME ask.verb = "shortest-path", level # 0 PROVE ask.to \notin Within[level - 1]
    OBVIOUS
  <2>1. level - 1 \in Nat /\ level - 1 <= level
    BY <1>1
  <2>2. Within[level - 1] \subseteq Within[level]
    BY <1>1, <2>1, WithinGrows
  <2>. QED BY <2>2
<1>5. e.src \in Nodes /\ e \in Edge
  BY DEF WalkTypes, Edge
<1>6. PICK r \in rows : r.node = e.src /\ r.depth = level
  <2>1. level \in 0 .. level
    BY <1>1
  <2>. QED BY <1>3, <1>4, <1>5, <2>1 DEF Walked
<1>7. ask.verb = "shortest-path" => r.node # ask.to /\ e.dst \notin Visited(r)
  <2> SUFFICES ASSUME ask.verb = "shortest-path" PROVE r.node # ask.to /\ e.dst \notin Visited(r)
    OBVIOUS
  <2>1. r.path \in Seq(Edge) /\ Len(r.path) = level /\ \A i \in DOMAIN r.path : r.path[i].dst \in Within[i]
    BY <1>6 DEF Walked, GoodRow
  <2>2. \A i \in DOMAIN r.path : i \in Nat /\ i <= level
    BY <2>1
  <2>3. \A i \in DOMAIN r.path : r.path[i].dst \in Within[level]
    <3> SUFFICES ASSUME NEW i \in DOMAIN r.path PROVE r.path[i].dst \in Within[level]
      OBVIOUS
    <3>1. i \in Nat /\ i <= level /\ r.path[i].dst \in Within[i]
      BY <2>1, <2>2
    <3>2. Within[i] \subseteq Within[level]
      BY <1>1, <3>1, WithinGrows
    <3>. QED BY <3>1, <3>2
  <2>4. ask.from \in Within[level]
    BY <1>1, WithinGrows
  <2>5. Visited(r) \subseteq Within[level]
    BY <2>3, <2>4 DEF Visited
  <2>. QED BY <1>1, <1>2, <1>6, <2>5
<1>8. MayFollow(r, e)
  BY <1>2, <1>6, <1>7 DEF MayFollow
<1>9. Follow(r, e) \in rows
  BY <1>8 DEF NextRows
<1>10. Follow(r, e).node = n /\ Follow(r, e).depth = level + 1
  BY <1>2, <1>6 DEF Follow, Row
<1>. QED BY <1>9, <1>10

\* A walk that ran out of rows has reached all there is within the bound.
LEMMA WalkSettles ==
  ASSUME WalkTypes, Walked, NextRows = {}, ~Deeper,
         ask.verb = "shortest-path" => ask.to \notin Within[level]
  PROVE  Within[Bound] \subseteq Within[level]
<1>1. level \in Nat /\ Bound \in Nat /\ level <= Bound
  BY BoundCounts DEF WalkTypes, Walked
<1>2. CASE level = Bound
  BY <1>2
<1>3. CASE level < Bound
  <2>1. \A n \in Within[level + 1] : n \in Nodes
    <3>1. Within[level + 1] \subseteq Nodes
      <4>1. ask.from \in Nodes /\ \A e \in graph.edges : e.dst \in Nodes
        BY BoundCounts DEF WalkTypes, Edge
      <4>. QED BY <1>1, <4>1, WithinStaysInTheGraph
    <3>. QED BY <3>1
  <2>2. ASSUME NEW n \in Within[level + 1], n \notin Within[level] PROVE FALSE
    <3>1. IsDistance(n, level + 1)
      BY <1>1, <2>2 DEF IsDistance
    <3>2. \E r \in rows : r.node = n /\ r.depth = level + 1
      BY <1>3, <2>1, <3>1, NextDistance
    <3>. QED BY <3>2 DEF Deeper
  <2>3. Within[level + 1] \subseteq Within[level]
    BY <2>2
  <2>. QED BY <1>1, <2>3, WithinSettles
<1>. QED BY <1>1, <1>2, <1>3

-----------------------------------------------------------------------------
(* The steps                                                               *)

\* The same store and the same question have the same distances.
LEMMA WithinStands ==
  ASSUME graph' = graph, ask' = ask
  PROVE  /\ Within' = Within /\ Bound' = Bound
         /\ \A n, d : IsDistance(n, d)' = IsDistance(n, d)
<1>1. Within' = Within
  BY DEF Within, Reached, Follows
<1>. QED BY <1>1 DEF Bound, IsDistance

LEMMA FollowedIsGood ==
  ASSUME WalkTypes, NEW r, GoodRow(r), NEW e \in graph.edges, MayFollow(r, e)
  PROVE  GoodRow(Follow(r, e))
<1>1. /\ r.depth = level /\ r.depth < Bound /\ e.src = r.node /\ Follows(e) /\ level \in Nat /\ Bound \in Nat
      /\ e \in Edge /\ (ask.verb = "shortest-path" => e.dst \notin Visited(r))
  BY BoundCounts DEF MayFollow, WalkTypes
<1>2. r.path \in Seq(Edge) /\ r.node \in Within[level]
  BY <1>1 DEF GoodRow
<1> DEFINE s == Follow(r, e)
           p == IF ask.verb = "traverse" THEN <<>> ELSE Append(r.path, e)
<1>3. s.node = e.dst /\ s.depth = level + 1 /\ s.path = p
  BY <1>1 DEF Follow, Row
<1>4. p \in Seq(Edge)
  BY <1>1, <1>2
<1>5. e.dst \in Within[level + 1]
  BY <1>1, <1>2, WithinGrows DEF Reached
<1>6. ASSUME ask.verb = "shortest-path"
      PROVE  /\ Len(p) = level + 1
             /\ p # <<>> /\ e.dst = p[Len(p)].dst
             /\ \A i \in DOMAIN p :
                  /\ p[i] \in graph.edges /\ Follows(p[i])
                  /\ p[i].src = (IF i = 1 THEN ask.from ELSE p[i - 1].dst)
                  /\ p[i].dst # ask.from /\ \A j \in DOMAIN p : p[j].dst = p[i].dst => j = i
                  /\ p[i].dst \in Within[i]
  <2> DEFINE q == r.path
  <2>1. p = Append(q, e) /\ q \in Seq(Edge) /\ Len(q) = level /\ e \in Edge
    BY <1>1, <1>2, <1>6 DEF GoodRow
  <2>2. /\ r.node = (IF q = <<>> THEN ask.from ELSE q[Len(q)].dst)
        /\ \A i \in DOMAIN q :
             /\ q[i] \in graph.edges /\ Follows(q[i])
             /\ q[i].src = (IF i = 1 THEN ask.from ELSE q[i - 1].dst)
             /\ q[i].dst # ask.from /\ \A j \in DOMAIN q : q[j].dst = q[i].dst => j = i
             /\ q[i].dst \in Within[i]
    BY <1>6 DEF GoodRow
  <2>3. e.dst # ask.from /\ \A i \in DOMAIN q : q[i].dst # e.dst
    BY <1>1, <1>6 DEF Visited
  <2> HIDE DEF p, q
  <2>4. /\ Len(p) = level + 1 /\ DOMAIN p = 1 .. level + 1 /\ DOMAIN q = 1 .. level
        /\ p[level + 1] = e /\ \A i \in 1 .. level : p[i] = q[i]
    BY <1>1, <2>1
  <2>5. q = <<>> <=> level = 0
    BY <2>1
  <2>6. ASSUME NEW i \in 1 .. level + 1
        PROVE  /\ p[i] \in graph.edges /\ Follows(p[i])
               /\ p[i].src = (IF i = 1 THEN ask.from ELSE p[i - 1].dst)
               /\ p[i].dst # ask.from /\ \A j \in 1 .. level + 1 : p[j].dst = p[i].dst => j = i
               /\ p[i].dst \in Within[i]
    <3>1. CASE i \in 1 .. level
      <4>1. p[i] = q[i] /\ (i # 1 => i - 1 \in 1 .. level /\ p[i - 1] = q[i - 1])
        BY <1>1, <2>4, <3>1
      <4>2. ASSUME NEW j \in 1 .. level + 1, p[j].dst = p[i].dst PROVE j = i
        <5>1. j \in 1 .. level \/ j = level + 1
          BY <1>1
        <5>. QED BY <2>2, <2>3, <2>4, <3>1, <4>1, <4>2, <5>1
      <4>. QED BY <2>2, <2>4, <3>1, <4>1, <4>2
    <3>2. CASE i = level + 1
      <4>1. p[i] = e
        BY <2>4, <3>2
      <4>2. e.src = (IF i = 1 THEN ask.from ELSE p[i - 1].dst)
        <5>1. CASE level = 0
          BY <1>1, <2>2, <2>5, <3>2, <5>1
        <5>2. CASE level # 0
          <6>1. level \in 1 .. level /\ i - 1 = level /\ i # 1
            BY <1>1, <3>2, <5>2
          <6>. QED BY <1>1, <2>1, <2>2, <2>4, <2>5, <5>2, <6>1
        <5>. QED BY <5>1, <5>2
      <4>3. ASSUME NEW j \in 1 .. level + 1, p[j].dst = e.dst PROVE j = i
        <5>1. j \in 1 .. level \/ j = level + 1
          BY <1>1
        <5>. QED BY <2>3, <2>4, <3>2, <4>3, <5>1
      <4>. QED BY <1>1, <1>5, <2>3, <3>2, <4>1, <4>2, <4>3
    <3>3. i \in 1 .. level \/ i = level + 1
      BY <1>1
    <3>. QED BY <3>1, <3>2, <3>3
  <2>7. p # <<>> /\ e.dst = p[Len(p)].dst
    BY <1>1, <2>4
  <2>. QED BY <2>4, <2>6, <2>7
<1> HIDE DEF s, p
<1>7. GoodRow(s)
  BY <1>1, <1>3, <1>4, <1>5, <1>6 DEF GoodRow
<1>. QED BY <1>7 DEF s

LEMMA GoodStays ==
  ASSUME graph' = graph, ask' = ask, level \in Nat, level' \in {level, level + 1}, NEW r, GoodRow(r)
  PROVE  GoodRow(r)'
<1>1. Within' = Within /\ Bound' = Bound
  BY WithinStands
<1>2. r.depth \in Nat /\ r.depth <= level + 1
  BY DEF GoodRow
<1>3. r.depth <= level' + 1
  BY <1>2
<1>. QED BY <1>1, <1>3 DEF GoodRow, Follows

LEMMA BeginStep ==
  ASSUME WalkInv, Begin
  PROVE  WalkInv'
<1> DEFINE first == Row(ask.from, 0, <<>>)
<1>1. /\ graph' = graph /\ ask' = ask /\ level' = level /\ rows' = {first} /\ at' = "walk"
      /\ ask.verb \in {"traverse", "shortest-path"} /\ level = 0
  BY DEF Begin, WalkInv, WalkTypes
<1>2. Within' = Within /\ Bound' = Bound /\ \A n, d : IsDistance(n, d)' = IsDistance(n, d)
  BY <1>1, WithinStands
<1>3. WalkTypes'
  BY <1>1 DEF WalkInv, WalkTypes
<1>4. Bound \in Nat /\ Within[0] = {ask.from}
  BY BoundCounts, WithinGrows DEF WalkInv
<1>5. first.node = ask.from /\ first.depth = 0 /\ first.path = <<>>
  BY DEF Row
<1> HIDE DEF first
<1>6. first.path \in Seq(Edge) /\ Len(first.path) = 0 /\ DOMAIN first.path = {}
  BY <1>5
<1>7. GoodRow(first)
  BY <1>1, <1>4, <1>5, <1>6 DEF GoodRow
<1>8. \A r \in rows' : GoodRow(r)'
  BY <1>1, <1>7, GoodStays
<1>9. ASSUME NEW d \in 0 .. level', NEW n \in Nodes, IsDistance(n, d)
      PROVE  \E r \in rows' : r.node = n /\ r.depth = d
  BY <1>1, <1>4, <1>5, <1>9 DEF IsDistance
<1>10. Walked'
  <2>1. (\A d \in 0 .. level : \A n \in Nodes :
          IsDistance(n, d) /\ (ask.verb = "shortest-path" => d = 0 \/ ask.to \notin Within[d - 1]) =>
            \E r \in rows : r.node = n /\ r.depth = d)'
    BY <1>2, <1>9
  <2>. QED BY <1>1, <1>2, <1>4, <1>8, <2>1 DEF Walked
<1>11. RowsArePaths'
  BY <1>8 DEF RowsArePaths, GoodRow
<1>. QED BY <1>1, <1>3, <1>10, <1>11 DEF WalkInv, WalksAreHonest

LEMMA EmitStep ==
  ASSUME WalkInv, Emit
  PROVE  WalkInv'
<1>1. /\ at = "walk" /\ at' = at /\ graph' = graph /\ ask' = ask /\ level' = level
  BY DEF Emit
<1>2. PICK s \in NextRows : rows' = rows \cup {s}
  BY DEF Emit
<1>3. WalkTypes /\ Walked /\ level \in Nat
  BY <1>1 DEF WalkInv, WalkTypes
<1>4. PICK r \in rows, e \in graph.edges : MayFollow(r, e) /\ s = Follow(r, e)
  BY DEF NextRows
<1>5. GoodRow(s)
  BY <1>3, <1>4, FollowedIsGood DEF Walked
<1>6. \A t \in rows' : GoodRow(t)'
  <2>1. \A t \in rows' : GoodRow(t)
    BY <1>2, <1>3, <1>5 DEF Walked
  <2>. QED BY <1>1, <1>3, <2>1, GoodStays
<1>7. Within' = Within /\ Bound' = Bound /\ \A n, d : IsDistance(n, d)' = IsDistance(n, d)
  BY <1>1, WithinStands
<1>8. Walked'
  BY <1>1, <1>2, <1>3, <1>6, <1>7 DEF Walked
<1>9. RowsArePaths'
  BY <1>6 DEF RowsArePaths, GoodRow
<1>10. WalkTypes'
  BY <1>1, <1>3 DEF WalkTypes
<1>. QED BY <1>1, <1>8, <1>9, <1>10 DEF WalkInv, WalksAreHonest

LEMMA DeepenStep ==
  ASSUME WalkInv, Deepen
  PROVE  WalkInv'
<1>1. /\ at = "walk" /\ at' = at /\ graph' = graph /\ ask' = ask /\ level' = level + 1 /\ rows' = rows
      /\ NextRows = {} /\ Deeper
  BY DEF Deepen
<1>2. WalkTypes /\ Walked /\ level \in Nat
  BY <1>1 DEF WalkInv, WalkTypes
<1>3. level + 1 <= Bound /\ level < Bound /\ Bound \in Nat
  <2>1. PICK r \in rows : r.depth = level + 1
    BY <1>1 DEF Deeper
  <2>. QED BY <1>2, <2>1, BoundCounts DEF Walked, GoodRow
<1>4. \A t \in rows' : GoodRow(t)'
  BY <1>1, <1>2, GoodStays DEF Walked
<1>5. Within' = Within /\ Bound' = Bound /\ \A n, d : IsDistance(n, d)' = IsDistance(n, d)
  BY <1>1, WithinStands
<1>6. ASSUME NEW d \in 0 .. level + 1, NEW n \in Nodes, IsDistance(n, d),
             ask.verb = "shortest-path" => d = 0 \/ ask.to \notin Within[d - 1]
      PROVE  \E r \in rows : r.node = n /\ r.depth = d
  <2>1. CASE d \in 0 .. level
    BY <1>2, <1>6, <2>1 DEF Walked
  <2>2. CASE d = level + 1
    <3>1. d - 1 = level /\ d # 0
      BY <1>2, <2>2
    <3>. QED BY <1>1, <1>2, <1>3, <1>6, <2>2, <3>1, NextDistance
  <2>. QED BY <1>2, <2>1, <2>2
<1>7. Walked'
  BY <1>1, <1>2, <1>3, <1>4, <1>5, <1>6 DEF Walked
<1>8. RowsArePaths'
  BY <1>4 DEF RowsArePaths, GoodRow
<1>9. WalkTypes'
  BY <1>1, <1>2 DEF WalkTypes
<1>. QED BY <1>1, <1>7, <1>8, <1>9 DEF WalkInv, WalksAreHonest

\* A node that has a row has a nearest one.
LEMMA NearestRow ==
  ASSUME NEW kept \in SUBSET rows, \A r \in rows : r.depth \in Nat, NEW r \in kept
  PROVE  \E s \in kept : s.node = r.node /\ \A t \in kept : t.node = r.node => s.depth <= t.depth
<1> DEFINE T == {t.depth : t \in {u \in kept : u.node = r.node}}
<1>1. T \in SUBSET Nat /\ T # {}
  OBVIOUS
<1>2. PICK d \in T : \A k \in T : d <= k
  <2> HIDE DEF T
  <2>. QED BY <1>1, LeastOf
<1>3. PICK s \in kept : s.node = r.node /\ s.depth = d
  BY <1>2
<1>. QED BY <1>2, <1>3

\* In a traversal a node within a depth followed has a row at its distance.
LEMMA RowAtDistance ==
  ASSUME WalkTypes, Walked, NEW d \in 0 .. level, NEW n \in Within[d],
         ask.verb = "shortest-path" => n = ask.to
  PROVE  \E r \in rows : r.node = n /\ r.depth <= d /\ IsDistance(n, r.depth)
<1>1. d \in Nat /\ level \in Nat /\ d <= level
  BY DEF WalkTypes
<1>2. PICK k \in 0 .. d : IsDistance(n, k)
  BY <1>1, DistanceExists
<1>3. n \in Nodes
  <2>1. ask.from \in Nodes /\ \A e \in graph.edges : e.dst \in Nodes
    BY BoundCounts DEF WalkTypes, Edge
  <2>2. Within[d] \subseteq Nodes
    BY <1>1, <2>1, WithinStaysInTheGraph
  <2>. QED BY <2>2
<1>4. k \in 0 .. level /\ k <= d
  BY <1>1
<1>5. ask.verb = "shortest-path" => k = 0 \/ ask.to \notin Within[k - 1]
  BY <1>2 DEF IsDistance
<1>6. \E r \in rows : r.node = n /\ r.depth = k
  BY <1>2, <1>3, <1>4, <1>5 DEF Walked
<1>. QED BY <1>2, <1>4, <1>6

\* The least depth at which a node has a row is its distance.
LEMMA LeastIsDistance ==
  ASSUME WalkTypes, Walked, NEW r \in rows,
         ask.verb = "shortest-path" => r.node = ask.to,
         \A s \in rows : s.node = r.node => r.depth <= s.depth
  PROVE  IsDistance(r.node, r.depth)
<1>1. r.depth \in Nat /\ r.node \in Within[r.depth] /\ r.depth <= level + 1 /\ level \in Nat
  BY DEF Walked, GoodRow, WalkTypes
<1> SUFFICES ASSUME r.depth # 0, r.node \in Within[r.depth - 1] PROVE FALSE
  BY <1>1 DEF IsDistance
<1>2. r.depth - 1 \in 0 .. level
  BY <1>1
<1>3. PICK s \in rows : s.node = r.node /\ s.depth <= r.depth - 1
  BY <1>2, RowAtDistance
<1>4. s.depth \in Nat /\ r.depth <= s.depth
  BY <1>3 DEF Walked, GoodRow
<1>. QED BY <1>1, <1>3, <1>4

LEMMA AnswerTraverseStep ==
  ASSUME WalkInv, AnswerTraverse
  PROVE  WalkInv'
<1> DEFINE kept == {r \in rows : r.node \in graph.nodes}
           nearest == {r \in kept : \A s \in kept : s.node = r.node => r.depth <= s.depth}
           nodes == {[key |-> r.node, depth |-> r.depth] : r \in nearest}
<1>1. /\ graph' = graph /\ ask' = ask /\ level' = level /\ rows' = rows /\ at' = "done" /\ ask.verb = "traverse"
      /\ reply' = [NoReply EXCEPT !.nodes = nodes, !.truncated = kept # {} /\ Capped]
  BY DEF AnswerTraverse
<1>2. at = "walk" /\ (Capped \/ (NextRows = {} /\ ~Deeper))
  BY DEF AnswerTraverse, Ends
<1>3. WalkTypes /\ Walked /\ level \in Nat /\ Bound \in Nat
  BY <1>2, BoundCounts DEF WalkInv, WalkTypes
<1>4. reply'.nodes = nodes /\ reply'.truncated = (kept # {} /\ Capped)
  BY <1>1 DEF NoReply
<1> HIDE DEF nodes
<1>5. Within' = Within /\ Bound' = Bound /\ \A n, d : IsDistance(n, d)' = IsDistance(n, d)
  BY <1>1, WithinStands
<1>6. ASSUME NEW n \in nodes
      PROVE  /\ IsDistance(n.key, n.depth) /\ n.depth <= Bound /\ n.depth \in Nat /\ n.depth <= level + 1
             /\ n.key \in Within[Bound]
  <2>1. PICK r \in nearest : n = [key |-> r.node, depth |-> r.depth]
    BY DEF nodes
  <2>2. r \in rows /\ \A s \in rows : s.node = r.node => r.depth <= s.depth
    OBVIOUS
  <2>3. GoodRow(r)
    BY <1>3, <2>2 DEF Walked
  <2>4. IsDistance(r.node, r.depth)
    BY <1>1, <1>3, <2>2, LeastIsDistance
  <2>5. r.node \in Within[Bound]
    BY <1>3, <2>3, WithinGrows DEF GoodRow
  <2>6. n.key = r.node /\ n.depth = r.depth
    BY <2>1
  <2>. QED BY <2>3, <2>4, <2>5, <2>6 DEF GoodRow
<1>7. ASSUME ask.from \in graph.nodes, NEW d \in 0 .. level, NEW near \in Within[d]
      PROVE  \E m \in nodes : m.key = near
  <2>1. PICK r \in rows : r.node = near
    BY <1>1, <1>3, RowAtDistance
  <2>2. Within[d] \subseteq graph.nodes
    BY <1>3, <1>7, WithinStaysInTheGraph DEF WalkTypes
  <2>3. r \in kept /\ kept \in SUBSET rows /\ \A s \in rows : s.depth \in Nat
    BY <1>3, <2>1, <2>2 DEF Walked, GoodRow
  <2>4. PICK s \in kept : s.node = r.node /\ \A t \in kept : t.node = r.node => s.depth <= t.depth
    <3> HIDE DEF kept
    <3>. QED BY <2>3, NearestRow
  <2>5. s \in nearest
    BY <2>4
  <2>6. [key |-> s.node, depth |-> s.depth] \in nodes
    BY <2>5 DEF nodes
  <2>. QED BY <2>1, <2>4, <2>6
<1>8. ASSUME ask.from \in graph.nodes, NEW n \in nodes, NEW d \in 1 .. n.depth, NEW near \in Within[d - 1]
      PROVE  \E m \in nodes : m.key = near
  <2>1. d - 1 \in 0 .. level
    BY <1>3, <1>6, <1>8
  <2>. QED BY <1>7, <1>8, <2>1
<1>9. ASSUME ask.from \in graph.nodes, ~reply'.truncated
      PROVE  {n.key : n \in nodes} = Within[Bound]
  <2>1. level \in 0 .. level
    BY <1>3
  <2>2. ask.from \in Within[level]
    BY <1>3, WithinGrows
  <2>3. kept # {}
    <3>1. PICK r \in rows : r.node = ask.from
      BY <1>1, <1>3, <2>1, <2>2, RowAtDistance
    <3>. QED BY <1>9, <3>1
  <2>4. ~Capped
    BY <1>4, <1>9, <2>3
  <2>5. Within[Bound] \subseteq Within[level]
    BY <1>1, <1>2, <1>3, <2>4, WalkSettles
  <2>6. \A near \in Within[Bound] : \E m \in nodes : m.key = near
    BY <1>7, <1>9, <2>1, <2>5
  <2>7. \A n \in nodes : n.key \in Within[Bound]
    BY <1>6
  <2>. QED BY <2>6, <2>7
<1>10. RowsArePaths'
  BY <1>1 DEF RowsArePaths
<1>11. WalkTypes'
  BY <1>1, <1>3 DEF WalkTypes
<1>12. (ask.from \in graph.nodes =>
          /\ \A n \in reply.nodes : IsDistance(n.key, n.depth) /\ n.depth <= Bound
          /\ \A n \in reply.nodes : \A d \in 1 .. n.depth :
               \A near \in Within[d - 1] : \E m \in reply.nodes : m.key = near
          /\ ~reply.truncated => {n.key : n \in reply.nodes} = Within[Bound])'
  <2> SUFFICES ASSUME ask.from \in graph.nodes
               PROVE  /\ \A n \in nodes : IsDistance(n.key, n.depth) /\ n.depth <= Bound
                      /\ \A n \in nodes : \A d \in 1 .. n.depth :
                           \A near \in Within[d - 1] : \E m \in nodes : m.key = near
                      /\ ~reply'.truncated => {n.key : n \in nodes} = Within[Bound]
    BY <1>1, <1>4, <1>5
  <2>. QED BY <1>6, <1>8, <1>9
<1>. QED BY <1>1, <1>10, <1>11, <1>12 DEF WalkInv, WalksAreHonest

LEMMA AnswerPathStep ==
  ASSUME WalkInv, AnswerPath
  PROVE  WalkInv'
<1> DEFINE ending == {r \in rows : r.node = ask.to /\ r.node \in graph.nodes}
           best == {r \in ending : \A s \in ending : r.depth <= s.depth}
<1>1. /\ graph' = graph /\ ask' = ask /\ level' = level /\ rows' = rows /\ at' = "done"
      /\ ask.verb = "shortest-path"
      /\ IF best = {}
         THEN reply' = [NoReply EXCEPT !.truncated = Capped]
         ELSE \E r \in best :
                reply' = [NoReply EXCEPT !.found = TRUE, !.path = r.path, !.truncated = Capped]
  BY DEF AnswerPath
<1>2. at = "walk" /\ (Capped \/ (NextRows = {} /\ ~Deeper))
  BY DEF AnswerPath, Ends
<1>3. WalkTypes /\ Walked /\ level \in Nat /\ Bound \in Nat
  BY <1>2, BoundCounts DEF WalkInv, WalkTypes
<1>4. Within' = Within /\ Bound' = Bound /\ \A n, d : IsDistance(n, d)' = IsDistance(n, d)
  BY <1>1, WithinStands
<1>5. ASSUME NEW r \in best
      PROVE  IsDistance(ask.to, Len(r.path))
  <2>1. r \in rows /\ r.node = ask.to /\ \A s \in rows : s.node = r.node => r.depth <= s.depth
    OBVIOUS
  <2>2. Len(r.path) = r.depth
    BY <1>1, <1>3, <2>1 DEF Walked, GoodRow
  <2>. QED BY <1>1, <1>3, <2>1, <2>2, LeastIsDistance
<1>6. ASSUME best = {}, ~Capped, ask.from \in graph.nodes, ask.to \in Within[Bound]
      PROVE  FALSE
  <2>1. ask.to \in graph.nodes
    <3>1. Within[Bound] \subseteq graph.nodes
      BY <1>3, <1>6, WithinStaysInTheGraph DEF WalkTypes
    <3>. QED BY <1>6, <3>1
  <2>2. ask.to \in Within[level]
    BY <1>1, <1>2, <1>3, <1>6, WalkSettles
  <2>3. PICK r \in rows : r.node = ask.to
    <3>1. level \in 0 .. level
      BY <1>3
    <3>. QED BY <1>3, <2>2, <3>1, RowAtDistance
  <2>4. r \in ending /\ ending \in SUBSET rows /\ \A s \in rows : s.depth \in Nat
    BY <1>3, <2>1, <2>3 DEF Walked, GoodRow
  <2>5. PICK s \in ending : s.node = r.node /\ \A t \in ending : t.node = r.node => s.depth <= t.depth
    <3> HIDE DEF ending
    <3>. QED BY <2>4, NearestRow
  <2>6. s \in best
    BY <2>3, <2>5
  <2>. QED BY <1>6, <2>6
<1> HIDE DEF best
<1>7. IF reply'.found
      THEN IsDistance(ask.to, Len(reply'.path))
      ELSE reply'.truncated \/ ask.to \notin Within[Bound] \/ ask.from \notin graph.nodes
  <2>1. CASE best = {}
    <3>1. reply'.found = FALSE /\ reply'.truncated = Capped
      BY <1>1, <2>1 DEF NoReply
    <3>. QED BY <1>6, <2>1, <3>1
  <2>2. CASE best # {}
    <3>1. PICK r \in best : reply' = [NoReply EXCEPT !.found = TRUE, !.path = r.path, !.truncated = Capped]
      BY <1>1, <2>2
    <3>2. reply'.found = TRUE /\ reply'.path = r.path
      BY <3>1 DEF NoReply
    <3>. QED BY <1>5, <3>2
  <2>. QED BY <2>1, <2>2
<1>8. RowsArePaths'
  <2>1. Bound' = Bound /\ \A e : Follows(e)' = Follows(e)
    BY <1>1, <1>4 DEF Follows
  <2>. QED BY <1>1, <2>1 DEF WalkInv, WalksAreHonest, RowsArePaths
<1>9. WalkTypes'
  BY <1>1, <1>3 DEF WalkTypes
<1>10. (IF reply.found
        THEN IsDistance(ask.to, Len(reply.path))
        ELSE reply.truncated \/ ask.to \notin Within[Bound] \/ ask.from \notin graph.nodes)'
  BY <1>1, <1>4, <1>7
<1>. QED BY <1>1, <1>8, <1>9, <1>10 DEF WalkInv, WalksAreHonest

LEMMA NeighborsStep ==
  ASSUME WalkInv, Neighbors
  PROVE  WalkInv'
<1>1. /\ graph' = graph /\ ask' = ask /\ level' = level /\ rows' = rows /\ at' = "done"
      /\ ask.verb = "neighbors" /\ at = "ask"
  BY DEF Neighbors
<1>2. PICK page \in SUBSET Hops :
        /\ Cardinality(page) = (IF Cardinality(Hops) < Cap THEN Cardinality(Hops) ELSE Cap)
        /\ reply' = [NoReply EXCEPT !.nodes = page]
  BY DEF Neighbors
<1>3. reply'.nodes = page
  BY <1>2 DEF NoReply
<1>4. Hops' = Hops /\ Cap' = Cap
  BY <1>1 DEF Hops, Cap, Follows
<1>5. WalkTypes
  BY DEF WalkInv
<1>6. IsFiniteSet(Hops)
  <2> DEFINE outs == {f \in graph.edges : ask.direction # "in" /\ f.src = ask.from /\ Follows(f)}
             ins == {f \in graph.edges : ask.direction # "out" /\ f.dst = ask.from /\ Follows(f)}
             a == [e \in outs |-> [key |-> e.dst, label |-> e.label, direction |-> "out"]]
             b == [e \in ins |-> [key |-> e.src, label |-> e.label, direction |-> "in"]]
             A == {a[e] : e \in outs}
             B == {b[e] : e \in ins}
  <2>1. IsFiniteSet(outs) /\ IsFiniteSet(ins)
    BY <1>5, FS_Subset DEF WalkTypes
  <2>2. Hops = A \cup B
    BY DEF Hops
  <2>3. a \in [outs -> A] /\ b \in [ins -> B]
    OBVIOUS
  <2>4. (\A x \in A : \E e \in outs : a[e] = x) /\ (\A x \in B : \E e \in ins : b[e] = x)
    OBVIOUS
  <2> HIDE DEF outs, ins, a, b, A, B
  <2>5. a \in Surjection(outs, A) /\ b \in Surjection(ins, B)
    BY <2>3, <2>4, Fun_IsSurj
  <2>6. IsFiniteSet(A) /\ IsFiniteSet(B)
    BY <2>1, <2>5, FS_Surjection
  <2>. QED BY <2>2, <2>6, FS_Union
<1>7. Cardinality(page) < Cap => page = Hops
  <2>1. Cap \in Nat /\ Cardinality(Hops) \in Nat
    BY <1>5, <1>6, GraphWalkAssumption, FS_CardinalityType DEF WalkTypes, Cap
  <2>2. Cardinality(page) < Cap => Cardinality(page) = Cardinality(Hops)
    BY <1>2, <2>1
  <2>. QED BY <1>6, <2>2, FS_Subset
<1>8. RowsArePaths'
  BY <1>1 DEF WalkInv, WalkTypes, RowsArePaths
<1>9. WalkTypes'
  BY <1>1, <1>5 DEF WalkTypes
<1>10. (reply.nodes \subseteq Hops /\ (Cardinality(reply.nodes) < Cap => reply.nodes = Hops))'
  BY <1>2, <1>3, <1>4, <1>7
<1>. QED BY <1>1, <1>8, <1>9, <1>10 DEF WalkInv, WalksAreHonest

\* Before the walk: no row, and no answer.
LEMMA EarlyStep ==
  ASSUME WalkInv, Check \/ Resolve \/ Purge
  PROVE  WalkInv'
<1>1. /\ ask' = ask /\ rows' = rows /\ level' = level /\ at \notin {"walk", "done"} /\ at' \notin {"walk", "done"}
  BY DEF Check, Resolve, Purge
<1>2. rows = {} /\ level = 0
  BY <1>1 DEF WalkInv, WalkTypes
<1>3. /\ graph' \in [nodes : SUBSET Nodes, edges : SUBSET Edge] /\ IsFiniteSet(graph'.edges)
      /\ \A e \in graph'.edges : e.src \in graph'.nodes /\ e.dst \in graph'.nodes
  <2>1. CASE Purge
    <3>1. PICK gone \in {Nodes} \cup {{n} : n \in Nodes} :
            graph' = [nodes |-> graph.nodes \ gone,
                      edges |-> {e \in graph.edges : e.src \notin gone /\ e.dst \notin gone}]
      BY <2>1 DEF Purge
    <3>2. graph'.nodes = graph.nodes \ gone
          /\ graph'.edges = {e \in graph.edges : e.src \notin gone /\ e.dst \notin gone}
      BY <3>1
    <3>3. graph'.edges \subseteq graph.edges /\ IsFiniteSet(graph.edges)
      BY <3>2 DEF WalkInv, WalkTypes
    <3>4. IsFiniteSet(graph'.edges)
      BY <3>3, FS_Subset
    <3>. QED BY <3>1, <3>2, <3>4 DEF WalkInv, WalkTypes
  <2>2. CASE Check \/ Resolve
    BY <2>2 DEF Check, Resolve, WalkInv, WalkTypes
  <2>. QED BY <2>1, <2>2
<1>4. WalkTypes'
  BY <1>1, <1>2, <1>3 DEF WalkInv, WalkTypes
<1>5. RowsArePaths'
  BY <1>1, <1>2 DEF RowsArePaths
<1>. QED BY <1>1, <1>4, <1>5 DEF WalkInv, WalksAreHonest

LEMMA WalkStart ==
  ASSUME WalkInit
  PROVE  WalkInv
<1>1. PICK es \in Graphs : graph = [nodes |-> Nodes, edges |-> es]
  BY DEF WalkInit
<1>2. es \in SUBSET Edge /\ IsFiniteSet(es) /\ graph.nodes = Nodes /\ graph.edges = es
  BY <1>1, GraphWalkAssumption
<1>3. WalkTypes
  BY <1>1, <1>2 DEF WalkInit, WalkTypes, Edge
<1>. QED BY <1>3 DEF WalkInit, WalkInv, WalksAreHonest, RowsArePaths

LEMMA WalkStep ==
  ASSUME WalkInv, [WalkNext]_walkVars
  PROVE  WalkInv'
<1>1. CASE WalkNext
  BY <1>1, EarlyStep, BeginStep, EmitStep, DeepenStep, AnswerTraverseStep, AnswerPathStep, NeighborsStep DEF WalkNext
<1>2. CASE UNCHANGED walkVars
  <2>1. UNCHANGED <<graph, ask, rows, level, reply, at>>
    BY <1>2 DEF walkVars
  <2>2. Within' = Within /\ Bound' = Bound /\ \A n, d : IsDistance(n, d)' = IsDistance(n, d)
    BY <2>1, WithinStands
  <2>3. WalkTypes'
    BY <2>1 DEF WalkInv, WalkTypes
  <2>4. at = "walk" => Walked'
    <3> SUFFICES ASSUME at = "walk" PROVE Walked'
      OBVIOUS
    <3>1. Walked /\ level \in Nat
      BY DEF WalkInv, WalkTypes
    <3>2. \A r \in rows' : GoodRow(r)'
      BY <2>1, <3>1, GoodStays DEF Walked
    <3>. QED BY <2>1, <2>2, <3>1, <3>2 DEF Walked
  <2>5. WalksAreHonest'
    BY <2>1, <2>2 DEF WalkInv, WalksAreHonest, RowsArePaths, Hops, Cap, Follows
  <2>. QED BY <2>1, <2>3, <2>4, <2>5 DEF WalkInv
<1>. QED BY <1>1, <1>2

-----------------------------------------------------------------------------
(* Definitions, then lines                                                 *)

\* Spans, one after the other.
Opening(p) ==
  \/ p \in {0} \cup {AtMost(d[k], Len(plan.text)) : d \in {plan.cuts[j] : j \in DOMAIN plan.cuts}, k \in {1, 2}}
  \/ plan.text[p] = "line"
Whole(s) == s[1] < s[2] /\ s[2] <= Len(plan.text) /\ Opening(s[1])
Narrow(a, b) == Bytes(plan.text, a, b) > plan.max => \A c \in a + 1 .. b - 1 : plan.text[c] # "line"
Laid(spans) == spans \in Seq(Nat \X Nat) /\ \A j \in DOMAIN spans : Whole(spans[j])
InOrder(spans) == \A j \in 1 .. Len(spans) - 1 : spans[j][2] <= spans[j + 1][1]
Fills(spans, c) == \E j \in DOMAIN spans : spans[j][1] < c /\ c <= spans[j][2]

AstTypes ==
  /\ plan.by = "ast"
  /\ plan.text \in Seq({"letter", "wide", "space", "line", "stop"}) /\ Len(plan.text) > 0
  /\ plan.cuts \in Seq(Nat \X Nat) /\ \A j \in DOMAIN plan.cuts : plan.cuts[j][1] <= plan.cuts[j][2]
  /\ plan.max \in Nat
  /\ loop \in [i : Nat, from : Nat, to : Nat, chars : Nat, raw : Seq(Nat \X Nat), at : {"walk", "split", "done"}]
  /\ Laid(loop.raw) /\ Laid(pieces)
  /\ \A j \in DOMAIN pieces : Narrow(pieces[j][1], pieces[j][2])
  /\ Disjoint => InOrder(loop.raw) /\ InOrder(pieces)

\* The definitions up to the cursor are in the raw chunks, and the code between.
WalkedInv ==
  /\ pieces = <<>> /\ loop.i \in 1 .. Len(plan.cuts) + 1
  /\ loop.chars <= Len(plan.text) /\ Opening(loop.chars) /\ (loop.i = 1 => loop.chars = 0)
  /\ \A c \in 1 .. loop.chars : ~Blank(plan.text[c]) => Fills(loop.raw, c)
  /\ Disjoint => /\ loop.raw # <<>> => loop.raw[Len(loop.raw)][2] <= loop.chars
                 /\ loop.i <= Len(plan.cuts) => loop.chars <= plan.cuts[loop.i][1]

\* Of the raw chunk at the head what comes before from is in pieces.
SplitInv ==
  /\ \A c \in DOMAIN plan.text : ~Blank(plan.text[c]) => Fills(pieces, c) \/ Fills(loop.raw, c)
  /\ loop.raw # <<>> =>
       /\ loop.raw[1][1] <= loop.from /\ loop.from <= loop.to /\ loop.to < loop.raw[1][2]
       /\ Opening(loop.from) /\ Opening(loop.to) /\ Narrow(loop.from, loop.to)
       /\ \A c \in loop.raw[1][1] + 1 .. loop.from : Fills(pieces, c)
       /\ Fits => loop.from = loop.raw[1][1]
       /\ Disjoint /\ pieces # <<>> => pieces[Len(pieces)][2] <= loop.from

AstInv ==
  plan.by = "ast" =>
    /\ AstTypes
    /\ loop.at = "walk" => WalkedInv
    /\ loop.at = "split" => SplitInv
    /\ loop.at = "done" => \A c \in DOMAIN plan.text : ~Blank(plan.text[c]) => Fills(pieces, c)

LEMMA BytesCount ==
  ASSUME NEW text, NEW a \in Nat, NEW b \in Nat
  PROVE  Bytes(text, a, b) \in Int
<1> DEFINE wides == {i \in a + 1 .. b : text[i] = "wide"}
<1>1. IsFiniteSet(a + 1 .. b)
  BY FS_Interval
<1>2. wides \subseteq a + 1 .. b
  OBVIOUS
<1>3. Cardinality(wides) \in Nat
  <2> HIDE DEF wides
  <2>. QED BY <1>1, <1>2, FS_Subset, FS_CardinalityType
<1>4. Bytes(text, a, b) = (b - a) + Cardinality(wides)
  BY DEF Bytes
<1> HIDE DEF wides
<1>. QED BY <1>3, <1>4

\* One span more at the end.
LEMMA SpanAdded ==
  ASSUME NEW spans, Laid(spans), NEW s \in Nat \X Nat, Whole(s)
  PROVE  /\ Laid(Append(spans, s)) /\ Append(spans, s) # <<>>
         /\ Len(Append(spans, s)) = Len(spans) + 1 /\ Append(spans, s)[Len(spans) + 1] = s
         /\ \A j \in DOMAIN spans : j \in DOMAIN Append(spans, s) /\ Append(spans, s)[j] = spans[j]
         /\ \A j \in DOMAIN Append(spans, s) : j \in DOMAIN spans \/ j = Len(spans) + 1
         /\ \A c : Fills(Append(spans, s), c) <=> Fills(spans, c) \/ (s[1] < c /\ c <= s[2])
         /\ InOrder(spans) /\ (spans # <<>> => spans[Len(spans)][2] <= s[1]) => InOrder(Append(spans, s))
<1> DEFINE more == Append(spans, s)
           n == Len(spans)
<1>1. spans \in Seq(Nat \X Nat) /\ n \in Nat /\ DOMAIN spans = 1 .. n
  BY DEF Laid
<1>2. more \in Seq(Nat \X Nat) /\ Len(more) = n + 1 /\ DOMAIN more = 1 .. n + 1
      /\ more[n + 1] = s /\ \A j \in 1 .. n : more[j] = spans[j]
  BY <1>1
<1> HIDE DEF more
<1>3. \A j \in 1 .. n + 1 : j \in 1 .. n \/ j = n + 1
  BY <1>1
<1>4. \A j \in 1 .. n + 1 : Whole(more[j])
  BY <1>1, <1>2, <1>3 DEF Laid
<1>5. \A c : Fills(more, c) <=> Fills(spans, c) \/ (s[1] < c /\ c <= s[2])
  <2> SUFFICES ASSUME NEW c PROVE Fills(more, c) <=> Fills(spans, c) \/ (s[1] < c /\ c <= s[2])
    OBVIOUS
  <2>1. ASSUME Fills(more, c) PROVE Fills(spans, c) \/ (s[1] < c /\ c <= s[2])
    BY <1>1, <1>2, <1>3, <2>1 DEF Fills
  <2>2. ASSUME Fills(spans, c) PROVE Fills(more, c)
    <3>1. PICK j \in 1 .. n : spans[j][1] < c /\ c <= spans[j][2]
      BY <1>1, <2>2 DEF Fills
    <3>2. j \in 1 .. n + 1 /\ more[j] = spans[j]
      BY <1>1, <1>2
    <3>. QED BY <1>2, <3>1, <3>2 DEF Fills
  <2>3. ASSUME s[1] < c, c <= s[2] PROVE Fills(more, c)
    <3>1. n + 1 \in 1 .. n + 1
      BY <1>1
    <3>. QED BY <1>2, <2>3, <3>1 DEF Fills
  <2>. QED BY <2>1, <2>2, <2>3
<1>6. ASSUME InOrder(spans), spans # <<>> => spans[n][2] <= s[1] PROVE InOrder(more)
  <2> SUFFICES ASSUME NEW j \in 1 .. n PROVE more[j][2] <= more[j + 1][1]
    BY <1>1, <1>2 DEF InOrder
  <2>1. CASE j = n
    <3>1. spans # <<>>
      BY <1>1, <2>1
    <3>. QED BY <1>1, <1>2, <1>6, <2>1, <3>1
  <2>2. CASE j # n
    <3>1. j \in 1 .. n - 1 /\ j + 1 \in 1 .. n
      <4> HIDE DEF n
      <4>. QED BY <1>1, <2>2
    <3>. QED BY <1>2, <1>6, <3>1 DEF InOrder
  <2>. QED BY <2>1, <2>2
<1>7. Laid(more) /\ more # <<>>
  BY <1>1, <1>2, <1>4 DEF Laid
<1>8. (\A j \in DOMAIN spans : j \in DOMAIN more /\ more[j] = spans[j])
      /\ (\A j \in DOMAIN more : j \in DOMAIN spans \/ j = n + 1)
  <2>1. \A j \in 1 .. n : j \in 1 .. n + 1
    BY <1>1
  <2>. QED BY <1>1, <1>2, <1>3, <2>1
<1>. QED BY <1>2, <1>5, <1>6, <1>7, <1>8 DEF more

\* One span less at the head.
LEMMA SpanDone ==
  ASSUME NEW spans, Laid(spans), spans # <<>>
  PROVE  /\ Laid(Tail(spans)) /\ spans[1] \in Nat \X Nat /\ Whole(spans[1])
         /\ \A c : Fills(spans, c) <=> Fills(Tail(spans), c) \/ (spans[1][1] < c /\ c <= spans[1][2])
         /\ InOrder(spans) => /\ InOrder(Tail(spans))
                              /\ Tail(spans) # <<>> => spans[1][2] <= Tail(spans)[1][1]
<1> DEFINE rest == Tail(spans)
           n == Len(spans)
<1>1. spans \in Seq(Nat \X Nat) /\ n \in Nat /\ DOMAIN spans = 1 .. n /\ n > 0
  BY DEF Laid
<1>2. rest \in Seq(Nat \X Nat) /\ Len(rest) = n - 1 /\ DOMAIN rest = 1 .. n - 1
      /\ \A j \in 1 .. n - 1 : rest[j] = spans[j + 1]
  BY <1>1
<1>3. 1 \in 1 .. n /\ \A j \in 1 .. n - 1 : j + 1 \in 1 .. n
  BY <1>1
<1> HIDE DEF rest
<1>4. Laid(rest) /\ spans[1] \in Nat \X Nat /\ Whole(spans[1])
  <2>1. \A j \in 1 .. n : Whole(spans[j])
    BY <1>1 DEF Laid
  <2>2. \A j \in 1 .. n - 1 : Whole(rest[j])
    BY <1>2, <1>3, <2>1
  <2>. QED BY <1>1, <1>2, <1>3, <2>1, <2>2 DEF Laid
<1>5. \A c : Fills(spans, c) <=> Fills(rest, c) \/ (spans[1][1] < c /\ c <= spans[1][2])
  <2> SUFFICES ASSUME NEW c PROVE Fills(spans, c) <=> Fills(rest, c) \/ (spans[1][1] < c /\ c <= spans[1][2])
    OBVIOUS
  <2>1. ASSUME Fills(spans, c) PROVE Fills(rest, c) \/ (spans[1][1] < c /\ c <= spans[1][2])
    <3>1. PICK j \in 1 .. n : spans[j][1] < c /\ c <= spans[j][2]
      BY <1>1, <2>1 DEF Fills
    <3>2. CASE j = 1
      BY <3>1, <3>2
    <3>3. CASE j # 1
      <4>1. j - 1 \in 1 .. n - 1 /\ (j - 1) + 1 = j
        BY <1>1, <3>3
      <4>. QED BY <1>2, <3>1, <4>1 DEF Fills
    <3>. QED BY <3>2, <3>3
  <2>2. ASSUME Fills(rest, c) PROVE Fills(spans, c)
    BY <1>1, <1>2, <1>3, <2>2 DEF Fills
  <2>3. ASSUME spans[1][1] < c, c <= spans[1][2] PROVE Fills(spans, c)
    BY <1>1, <1>3, <2>3 DEF Fills
  <2>. QED BY <2>1, <2>2, <2>3
<1>6. ASSUME InOrder(spans)
      PROVE  InOrder(rest) /\ (rest # <<>> => spans[1][2] <= rest[1][1])
  <2>1. InOrder(rest)
    <3> SUFFICES ASSUME NEW j \in 1 .. (n - 1) - 1 PROVE rest[j][2] <= rest[j + 1][1]
      BY <1>2 DEF InOrder
    <3>1. j \in 1 .. n - 1 /\ j + 1 \in 1 .. n - 1
      BY <1>1
    <3>. QED BY <1>2, <1>6, <3>1 DEF InOrder
  <2>2. ASSUME rest # <<>> PROVE spans[1][2] <= rest[1][1]
    <3>1. 1 \in 1 .. n - 1
      BY <1>1, <1>2, <2>2
    <3>. QED BY <1>2, <1>6, <3>1 DEF InOrder
  <2>. QED BY <2>1, <2>2
<1>. QED BY <1>4, <1>5, <1>6 DEF rest

LEMMA AstStart ==
  ASSUME SegmentsInit, plan.by = "ast"
  PROVE  AstInv
<1>1. PICK t \in SegTexts \ {<<>>}, d \in Defs, m \in Maxes :
        plan = [by |-> "ast", text |-> t, cuts |-> d, max |-> m, min |-> 0]
  <2>1. plan \notin SentencePlans
    BY DEF SentencePlans
  <2>. QED BY <2>1 DEF SegmentsInit, AstPlans
<1>2. /\ t \in Seq({"letter", "wide", "space", "line", "stop"}) /\ Len(t) > 0 /\ m \in Nat
      /\ d \in Seq(Nat \X Nat) /\ \A j \in DOMAIN d : d[j][1] <= d[j][2]
  BY <1>1, SegmentsAssumption
<1>3. /\ loop = [i |-> 1, from |-> 0, to |-> 0, chars |-> 0, raw |-> <<>>, at |-> "walk"] /\ pieces = <<>>
      /\ loop.raw = <<>> /\ loop.at = "walk" /\ loop.i = 1 /\ loop.chars = 0
  BY DEF SegmentsInit, Loop
<1>4. Laid(<<>>) /\ InOrder(<<>>) /\ DOMAIN <<>> = {}
  BY DEF Laid, InOrder
<1>5. AstTypes
  BY <1>1, <1>2, <1>3, <1>4 DEF AstTypes
<1>6. WalkedInv
  <2>1. 1 \in 1 .. Len(plan.cuts) + 1 /\ 0 <= Len(plan.text)
    BY <1>1, <1>2
  <2>2. Opening(0)
    BY DEF Opening
  <2>3. 1 <= Len(plan.cuts) => 0 <= plan.cuts[1][1]
    BY <1>1, <1>2
  <2>. QED BY <1>3, <2>1, <2>2, <2>3 DEF WalkedInv
<1>. QED BY <1>3, <1>5, <1>6 DEF AstInv

\* A span more, or none when it is left out.
LEMMA SpanPerhapsAdded ==
  ASSUME NEW spans, Laid(spans), NEW a \in Nat, NEW b \in Nat, NEW taken \in BOOLEAN,
         taken => Whole(<<a, b>>), a <= b,
         NEW cursor \in Nat, cursor <= a,
         \A c \in 1 .. a : ~Blank(plan.text[c]) => Fills(spans, c),
         ~taken => \A c \in a + 1 .. b : Blank(plan.text[c])
  PROVE  LET more == spans \o (IF taken THEN <<<<a, b>>>> ELSE <<>>)
         IN /\ Laid(more)
            /\ \A c \in 1 .. b : ~Blank(plan.text[c]) => Fills(more, c)
            /\ InOrder(spans) /\ (spans # <<>> => spans[Len(spans)][2] <= cursor) =>
                 InOrder(more) /\ (more # <<>> => more[Len(more)][2] <= b)
<1> DEFINE more == spans \o (IF taken THEN <<<<a, b>>>> ELSE <<>>)
           s == <<a, b>>
<1>0. \A c \in 1 .. b : c \in 1 .. a \/ c \in a + 1 .. b
  OBVIOUS
<1>1. CASE taken
  <2>1. more = Append(spans, s) /\ s \in Nat \X Nat /\ Whole(s) /\ s[1] = a /\ s[2] = b /\ Len(spans) \in Nat
    BY <1>1 DEF Laid
  <2> HIDE DEF more, s
  <2>2. Laid(more) /\ Len(more) = Len(spans) + 1 /\ more[Len(spans) + 1] = s
    BY <2>1, SpanAdded
  <2>3. \A c : Fills(more, c) <=> Fills(spans, c) \/ (a < c /\ c <= b)
    BY <2>1, SpanAdded
  <2>4. \A c \in 1 .. b : ~Blank(plan.text[c]) => Fills(more, c)
    BY <1>0, <2>3
  <2>5. ASSUME InOrder(spans), spans # <<>> => spans[Len(spans)][2] <= cursor
        PROVE  InOrder(more) /\ (more # <<>> => more[Len(more)][2] <= b)
    <3>1. spans # <<>> => spans[Len(spans)][2] <= a
      <4>1. spans # <<>> => spans[Len(spans)] \in Nat \X Nat
        BY DEF Laid
      <4>. QED BY <2>5, <4>1
    <3>2. InOrder(more)
      BY <2>1, <2>5, <3>1, SpanAdded
    <3>. QED BY <2>1, <2>2, <3>2
  <2>. QED BY <2>2, <2>4, <2>5 DEF more
<1>2. CASE ~taken
  <2>1. more = spans
    BY <1>2 DEF Laid
  <2> HIDE DEF more
  <2>2. \A c \in 1 .. b : ~Blank(plan.text[c]) => Fills(more, c)
    BY <1>0, <1>2, <2>1
  <2>3. spans # <<>> /\ spans[Len(spans)][2] <= cursor => spans[Len(spans)][2] <= b
    <3>1. spans # <<>> => spans[Len(spans)] \in Nat \X Nat
      BY DEF Laid
    <3>. QED BY <3>1
  <2>. QED BY <2>1, <2>2, <2>3 DEF more
<1>. QED BY <1>1, <1>2

LEMMA TakeDefinitionStep ==
  ASSUME AstInv, TakeDefinition
  PROVE  AstInv'
<1> DEFINE n == Len(plan.text)
           from == AtMost(plan.cuts[loop.i][1], n)
           to == AtMost(plan.cuts[loop.i][2], n)
           apart == from > loop.chars /\ ~AllBlank(plan.text, loop.chars, from)
           one == loop.raw \o (IF apart THEN <<<<loop.chars, from>>>> ELSE <<>>)
           two == one \o (IF from < to THEN <<<<from, to>>>> ELSE <<>>)
<1>1. AstTypes /\ WalkedInv /\ plan.by = "ast" /\ loop.at = "walk"
  BY DEF TakeDefinition, AstInv
<1>2. /\ n \in Nat /\ n > 0 /\ Len(plan.cuts) \in Nat /\ DOMAIN plan.cuts = 1 .. Len(plan.cuts)
      /\ loop.i \in 1 .. Len(plan.cuts)
      /\ plan.cuts[loop.i] \in Nat \X Nat /\ plan.cuts[loop.i][1] <= plan.cuts[loop.i][2]
      /\ loop.chars \in Nat /\ loop.chars <= n /\ Laid(loop.raw) /\ Opening(loop.chars)
  <2>1. loop.i \in 1 .. Len(plan.cuts)
    BY <1>1 DEF TakeDefinition, AstTypes, WalkedInv
  <2>2. plan.cuts \in Seq(Nat \X Nat) /\ \A j \in DOMAIN plan.cuts : plan.cuts[j][1] <= plan.cuts[j][2]
    BY <1>1 DEF AstTypes
  <2>3. Len(plan.cuts) \in Nat /\ DOMAIN plan.cuts = 1 .. Len(plan.cuts)
        /\ plan.cuts[loop.i] \in Nat \X Nat /\ plan.cuts[loop.i][1] <= plan.cuts[loop.i][2]
    BY <2>1, <2>2
  <2>4. n \in Nat /\ n > 0
    BY <1>1 DEF AstTypes
  <2>5. loop.chars \in Nat /\ loop.chars <= n /\ Laid(loop.raw) /\ Opening(loop.chars)
    BY <1>1 DEF AstTypes, WalkedInv
  <2>. QED BY <2>1, <2>3, <2>4, <2>5
<1>3. /\ from \in Nat /\ to \in Nat /\ from <= to /\ to <= n
      /\ to <= plan.cuts[loop.i][2]
      /\ loop.chars <= plan.cuts[loop.i][1] => loop.chars <= from
  <2> DEFINE d == plan.cuts[loop.i]
  <2>1. /\ d[1] \in Nat /\ d[2] \in Nat /\ d[1] <= d[2] /\ n \in Nat /\ loop.chars \in Nat /\ loop.chars <= n
        /\ from = AtMost(d[1], n) /\ to = AtMost(d[2], n)
    BY <1>2
  <2> HIDE DEF n, from, to
  <2>2. /\ from \in Nat /\ to \in Nat /\ from <= to /\ to <= n /\ to <= d[2]
        /\ loop.chars <= d[1] => loop.chars <= from
    <3> HIDE DEF d
    <3>. QED BY <2>1 DEF AtMost
  <2>. QED BY <2>2
<1>4. Opening(from) /\ Opening(to)
  <2>1. plan.cuts[loop.i] \in {plan.cuts[j] : j \in DOMAIN plan.cuts}
    BY <1>2
  <2>. QED BY <2>1 DEF Opening
<1>5. /\ plan' = plan /\ pieces' = pieces
      /\ loop' = [loop EXCEPT !.i = loop.i + 1, !.raw = two, !.chars = to]
  BY DEF TakeDefinition
<1>6. /\ Laid(one)
      /\ \A c \in 1 .. from : ~Blank(plan.text[c]) => Fills(one, c)
      /\ Disjoint => InOrder(one) /\ (one # <<>> => one[Len(one)][2] <= from)
  <2>1. Disjoint => /\ InOrder(loop.raw) /\ loop.chars <= from
                    /\ loop.raw # <<>> => loop.raw[Len(loop.raw)][2] <= loop.chars
    BY <1>1, <1>2, <1>3 DEF AstTypes, WalkedInv
  <2>2. CASE from > loop.chars
    <3>1. apart \in BOOLEAN /\ (apart => Whole(<<loop.chars, from>>))
      BY <1>2, <1>3, <2>2 DEF Whole
    <3>2. ~apart => \A c \in loop.chars + 1 .. from : Blank(plan.text[c])
      BY <2>2 DEF AllBlank
    <3>3. \A c \in 1 .. loop.chars : ~Blank(plan.text[c]) => Fills(loop.raw, c)
      BY <1>1 DEF WalkedInv
    <3>4. loop.chars <= from /\ loop.chars <= loop.chars
      BY <1>2, <1>3, <2>2
    <3> HIDE DEF apart, from, n
    <3>. QED BY <1>2, <1>3, <2>1, <3>1, <3>2, <3>3, <3>4, SpanPerhapsAdded
  <2>3. CASE ~(from > loop.chars)
    <3>1. one = loop.raw
      BY <1>2, <2>3 DEF Laid
    <3>2. \A c \in 1 .. from : c \in 1 .. loop.chars
      BY <1>2, <1>3, <2>3
    <3>3. loop.raw # <<>> => loop.raw[Len(loop.raw)] \in Nat \X Nat
      BY <1>2 DEF Laid
    <3> HIDE DEF one, from, n
    <3>. QED BY <1>1, <1>2, <1>3, <2>1, <3>1, <3>2, <3>3 DEF WalkedInv
  <2>. QED BY <2>2, <2>3
<1> HIDE DEF one, apart
<1>7. /\ Laid(two)
      /\ \A c \in 1 .. to : ~Blank(plan.text[c]) => Fills(two, c)
      /\ Disjoint => InOrder(two) /\ (two # <<>> => two[Len(two)][2] <= to)
  <2>1. (from < to) \in BOOLEAN /\ (from < to => Whole(<<from, to>>))
    BY <1>3, <1>4 DEF Whole
  <2>2. ~(from < to) => \A c \in from + 1 .. to : Blank(plan.text[c])
    BY <1>3
  <2>3. from <= from
    BY <1>3
  <2> HIDE DEF from, to, n
  <2>. QED BY <1>3, <1>6, <2>1, <2>2, <2>3, SpanPerhapsAdded
<1>8. AstTypes'
  <2>1. loop'.raw = two /\ Laid(two) /\ (Disjoint => InOrder(two))
    BY <1>1, <1>5, <1>7 DEF AstTypes
  <2>2. two \in Seq(Nat \X Nat) /\ loop.i + 1 \in Nat /\ to \in Nat
    BY <1>2, <1>3, <1>7, SMTT(30) DEF Laid
  <2>3. loop' \in [i : Nat, from : Nat, to : Nat, chars : Nat, raw : Seq(Nat \X Nat), at : {"walk", "split", "done"}]
    <3> HIDE DEF two, to
    <3>. QED BY <1>1, <1>5, <2>2 DEF AstTypes
  <2> HIDE DEF two
  <2>4. Laid(loop.raw)' /\ Laid(pieces)' /\ (Disjoint' => InOrder(loop.raw)' /\ InOrder(pieces)')
    BY <1>1, <1>5, <2>1 DEF AstTypes, Laid, Whole, Opening, InOrder, Disjoint
  <2>. QED BY <1>1, <1>5, <2>3, <2>4 DEF AstTypes, Narrow
<1>9. WalkedInv'
  <2>1. loop'.raw = two /\ loop'.chars = to /\ loop'.i = loop.i + 1 /\ loop.i + 1 \in 1 .. Len(plan.cuts) + 1 /\ loop.i + 1 # 1
    <3>1. loop.i + 1 \in 1 .. Len(plan.cuts) + 1 /\ loop.i + 1 # 1
      <4> HIDE DEF two, from, to
      <4>. QED BY <1>2
    <3> HIDE DEF two, to
    <3>. QED BY <1>1, <1>5, <3>1 DEF AstTypes
  <2>2. Disjoint /\ loop.i + 1 <= Len(plan.cuts) => to <= plan.cuts[loop.i + 1][1]
    <3> SUFFICES ASSUME Disjoint, loop.i + 1 <= Len(plan.cuts) PROVE to <= plan.cuts[loop.i + 1][1]
      OBVIOUS
    <3>1. loop.i \in 1 .. Len(plan.cuts) - 1 /\ loop.i + 1 \in 1 .. Len(plan.cuts)
      BY <1>2
    <3>2. plan.cuts[loop.i][2] <= plan.cuts[loop.i + 1][1]
      BY <3>1 DEF Disjoint
    <3>3. plan.cuts[loop.i + 1] \in Nat \X Nat
      BY <1>1, <1>2, <3>1 DEF AstTypes
    <3> HIDE DEF to
    <3>. QED BY <1>2, <1>3, <3>2, <3>3, SMTT(30)
  <2> HIDE DEF two, from, to
  <2>3. Opening(loop.chars)' /\ Disjoint' = Disjoint
    BY <1>4, <1>5, <2>1 DEF Opening, Disjoint
  <2>4. \A c \in 1 .. to : ~Blank(plan.text[c]) => Fills(loop.raw, c)'
    BY <1>7, <2>1 DEF Fills
  <2>. QED BY <1>1, <1>3, <1>5, <1>7, <2>1, <2>2, <2>3, <2>4 DEF WalkedInv
<1>10. loop'.at = "walk"
  BY <1>1, <1>5 DEF AstTypes
<1>. QED BY <1>8, <1>9, <1>10 DEF AstInv

LEMMA TakeTailStep ==
  ASSUME AstInv, TakeTail
  PROVE  AstInv'
<1> DEFINE n == Len(plan.text)
           left == plan.cuts = <<>> \/ (loop.chars < n /\ ~AllBlank(plan.text, loop.chars, n))
           all == loop.raw \o (IF left THEN <<<<loop.chars, n>>>> ELSE <<>>)
           first == IF all = <<>> THEN 0 ELSE all[1][1]
<1>1. AstTypes /\ WalkedInv /\ plan.by = "ast" /\ loop.at = "walk"
  BY DEF TakeTail, AstInv
<1>2. /\ n \in Nat /\ n > 0 /\ loop.chars \in Nat /\ loop.chars <= n
      /\ Laid(loop.raw) /\ Opening(loop.chars) /\ pieces = <<>>
  BY <1>1 DEF AstTypes, WalkedInv
<1>3. /\ plan' = plan /\ pieces' = pieces
      /\ loop' = [loop EXCEPT !.at = "split", !.raw = all, !.from = first, !.to = first]
  BY DEF TakeTail
<1>4. plan.cuts = <<>> => loop.chars = 0
  BY <1>1 DEF WalkedInv
<1>5. /\ Laid(all) /\ \A c \in 1 .. n : ~Blank(plan.text[c]) => Fills(all, c)
      /\ Disjoint => InOrder(all)
  <2>1. Disjoint => InOrder(loop.raw) /\ (loop.raw # <<>> => loop.raw[Len(loop.raw)][2] <= loop.chars)
    BY <1>1 DEF AstTypes, WalkedInv
  <2>2. left \in BOOLEAN /\ (left => Whole(<<loop.chars, n>>))
    BY <1>2, <1>4 DEF Whole
  <2>3. ~left => \A c \in loop.chars + 1 .. n : Blank(plan.text[c])
    BY <1>2 DEF AllBlank
  <2>4. \A c \in 1 .. loop.chars : ~Blank(plan.text[c]) => Fills(loop.raw, c)
    BY <1>1 DEF WalkedInv
  <2>5. loop.chars <= loop.chars
    BY <1>2
  <2> HIDE DEF left, n
  <2>. QED BY <1>2, <2>1, <2>2, <2>3, <2>4, <2>5, SpanPerhapsAdded
<1> HIDE DEF all
<1>6. all # <<>> => /\ all[1] \in Nat \X Nat /\ Whole(all[1]) /\ first = all[1][1] /\ Opening(first)
  BY <1>5, SpanDone DEF Whole
<1>7. first \in Nat
  BY <1>6
<1>8. all \in Seq(Nat \X Nat)
  BY <1>5 DEF Laid
<1> HIDE DEF first
<1>9. AstTypes'
  <2>1. loop' \in [i : Nat, from : Nat, to : Nat, chars : Nat, raw : Seq(Nat \X Nat), at : {"walk", "split", "done"}]
    BY <1>1, <1>3, <1>7, <1>8 DEF AstTypes
  <2>2. loop'.raw = all /\ (Disjoint => InOrder(all))
    BY <1>1, <1>3, <1>5 DEF AstTypes
  <2>3. Laid(loop.raw)' /\ Laid(pieces)' /\ (Disjoint' => InOrder(loop.raw)' /\ InOrder(pieces)')
    BY <1>1, <1>3, <1>5, <2>2 DEF AstTypes, Laid, Whole, Opening, InOrder, Disjoint
  <2>. QED BY <1>1, <1>3, <2>1, <2>3 DEF AstTypes, Narrow
<1>10. SplitInv'
  <2>1. loop'.raw = all /\ loop'.from = first /\ loop'.to = first /\ DOMAIN plan.text = 1 .. n
    BY <1>1, <1>3 DEF AstTypes
  <2> HIDE DEF n
  <2>2. \A c \in DOMAIN plan.text : ~Blank(plan.text[c]) => Fills(loop.raw, c)'
    BY <1>5, <2>1 DEF Fills
  <2>3. ASSUME all # <<>>
        PROVE  /\ all[1][1] <= first /\ first <= first /\ first < all[1][2]
               /\ Opening(loop.from)' /\ Opening(loop.to)' /\ Narrow(loop.from, loop.to)'
               /\ \A c \in all[1][1] + 1 .. first : Fills(pieces, c)'
    <3>1. all[1][1] <= first /\ first <= first /\ first < all[1][2] /\ Opening(first) /\ first = all[1][1]
      BY <1>6, <1>7, <2>3 DEF Whole
    <3>2. Opening(loop.from)' /\ Opening(loop.to)'
      BY <1>3, <2>1, <3>1 DEF Opening
    <3>3. Narrow(loop.from, loop.to)'
      <4>1. \A c \in first + 1 .. first - 1 : FALSE
        BY <1>7
      <4>. QED BY <1>3, <2>1, <4>1 DEF Narrow
    <3>4. \A c \in all[1][1] + 1 .. first : FALSE
      BY <1>7, <3>1
    <3>. QED BY <3>1, <3>2, <3>3, <3>4
  <2>. QED BY <1>2, <1>3, <1>6, <2>1, <2>2, <2>3 DEF SplitInv
<1>11. loop'.at = "split"
  BY <1>1, <1>3 DEF AstTypes
<1>. QED BY <1>9, <1>10, <1>11 DEF AstInv

LEMMA AstEndsStep ==
  ASSUME AstInv, AstEnds
  PROVE  AstInv'
<1>1. AstTypes /\ SplitInv /\ plan.by = "ast" /\ loop.raw = <<>>
      /\ plan' = plan /\ pieces' = pieces /\ loop' = [loop EXCEPT !.at = "done"]
  BY DEF AstEnds, AstInv
<1>2. loop' \in [i : Nat, from : Nat, to : Nat, chars : Nat, raw : Seq(Nat \X Nat), at : {"walk", "split", "done"}]
      /\ loop'.raw = loop.raw /\ loop'.at = "done"
  BY <1>1 DEF AstTypes
<1>3. Laid(loop.raw)' /\ Laid(pieces)' /\ (Disjoint' => InOrder(loop.raw)' /\ InOrder(pieces)')
  BY <1>1, <1>2 DEF AstTypes, Laid, Whole, Opening, InOrder, Disjoint
<1>4. AstTypes'
  BY <1>1, <1>2, <1>3 DEF AstTypes, Narrow
<1>5. \A c : ~Fills(<<>>, c)
  BY DEF Fills
<1>6. \A c \in DOMAIN plan.text : ~Blank(plan.text[c]) => Fills(pieces, c)'
  BY <1>1, <1>5 DEF SplitInv, Fills
<1>. QED BY <1>1, <1>2, <1>4, <1>6 DEF AstInv

\* On to the next raw chunk, when the one at the head is in pieces.
LEMMA NextRawStep ==
  ASSUME AstTypes, SplitInv, loop.at = "split", loop.raw # <<>>, plan' = plan, NextRaw,
         NEW more, pieces' = more, Laid(more),
         \A j \in DOMAIN more : Narrow(more[j][1], more[j][2]),
         Disjoint => InOrder(more) /\ more[Len(more)][2] <= loop.raw[1][2], more # <<>>,
         \A c \in Nat : Fills(pieces, c) \/ (loop.raw[1][1] < c /\ c <= loop.raw[1][2]) => Fills(more, c)
  PROVE  AstInv'
<1> DEFINE rest == Tail(loop.raw)
           first == IF rest = <<>> THEN 0 ELSE rest[1][1]
<1>1. loop' = [loop EXCEPT !.raw = rest, !.from = first, !.to = first]
  BY DEF NextRaw
<1>2. /\ Laid(loop.raw) /\ Laid(rest) /\ loop.raw[1] \in Nat \X Nat
      /\ \A c : Fills(loop.raw, c) <=> Fills(rest, c) \/ (loop.raw[1][1] < c /\ c <= loop.raw[1][2])
      /\ Disjoint => InOrder(rest) /\ (rest # <<>> => loop.raw[1][2] <= rest[1][1])
  <2>1. Laid(loop.raw) /\ (Disjoint => InOrder(loop.raw))
    BY DEF AstTypes
  <2> HIDE DEF rest
  <2>. QED BY <2>1, SpanDone DEF rest
<1> HIDE DEF rest
<1>3. rest # <<>> => /\ rest[1] \in Nat \X Nat /\ Whole(rest[1]) /\ first = rest[1][1] /\ Opening(first)
  BY <1>2, SpanDone DEF Whole
<1>4. first \in Nat /\ rest \in Seq(Nat \X Nat)
  BY <1>2, <1>3 DEF Laid
<1> HIDE DEF first
<1>5. /\ loop'.raw = rest /\ loop'.from = first /\ loop'.to = first /\ loop'.at = "split"
      /\ loop' \in [i : Nat, from : Nat, to : Nat, chars : Nat, raw : Seq(Nat \X Nat), at : {"walk", "split", "done"}]
  BY <1>1, <1>4 DEF AstTypes
<1>6. AstTypes'
  <2>1. Laid(loop.raw)' /\ Laid(pieces)' /\ (Disjoint' => InOrder(loop.raw)' /\ InOrder(pieces)')
    <3>1. Laid(loop.raw)'
      BY <1>2, <1>5 DEF Laid, Whole, Opening
    <3>2. Laid(pieces)'
      BY DEF Laid, Whole, Opening
    <3>3. Disjoint' => InOrder(loop.raw)' /\ InOrder(pieces)'
      BY <1>2, <1>5 DEF InOrder, Disjoint
    <3>. QED BY <3>1, <3>2, <3>3
  <2>2. \A j \in DOMAIN pieces' : Narrow(pieces[j][1], pieces[j][2])'
    BY DEF Narrow
  <2>. QED BY <1>5, <2>1, <2>2 DEF AstTypes
<1>7. SplitInv'
  <2>1. \A c \in DOMAIN plan.text : ~Blank(plan.text[c]) => Fills(pieces, c)' \/ Fills(loop.raw, c)'
    <3>1. \A c \in DOMAIN plan.text : ~Blank(plan.text[c]) => Fills(more, c) \/ Fills(rest, c)
      <4>1. DOMAIN plan.text \subseteq Nat
        BY DEF AstTypes
      <4>. QED BY <1>2, <4>1 DEF SplitInv
    <3>. QED BY <1>5, <3>1 DEF Fills
  <2>2. ASSUME rest # <<>>
        PROVE  /\ rest[1][1] <= first /\ first <= first /\ first < rest[1][2]
               /\ Opening(loop.from)' /\ Opening(loop.to)' /\ Narrow(loop.from, loop.to)'
               /\ \A c \in rest[1][1] + 1 .. first : Fills(pieces, c)'
               /\ Disjoint => more[Len(more)][2] <= first
    <3>1. rest[1][1] <= first /\ first <= first /\ first < rest[1][2] /\ Opening(first) /\ first = rest[1][1]
      BY <1>3, <1>4, <2>2 DEF Whole
    <3>2. Opening(loop.from)' /\ Opening(loop.to)'
      BY <1>5, <3>1 DEF Opening
    <3>3. Narrow(loop.from, loop.to)'
      <4>1. \A c \in first + 1 .. first - 1 : FALSE
        BY <1>4
      <4>. QED BY <1>5, <4>1 DEF Narrow
    <3>4. \A c \in rest[1][1] + 1 .. first : FALSE
      BY <1>4, <3>1
    <3>5. more[Len(more)] \in Nat \X Nat
      BY DEF Laid
    <3>6. Disjoint => more[Len(more)][2] <= first
      BY <1>2, <1>3, <1>4, <2>2, <3>1, <3>5
    <3>. QED BY <3>1, <3>2, <3>3, <3>4, <3>6
  <2>3. Disjoint' = Disjoint
    BY DEF Disjoint
  <2>. QED BY <1>3, <1>5, <2>1, <2>2, <2>3 DEF SplitInv
<1>. QED BY <1>5, <1>6, <1>7 DEF AstInv

LEMMA KeepWholeStep ==
  ASSUME AstInv, KeepWhole
  PROVE  AstInv'
<1> DEFINE s == loop.raw[1]
           more == Append(pieces, s)
<1>1. AstTypes /\ SplitInv /\ loop.at = "split" /\ loop.raw # <<>> /\ Fits
      /\ plan' = plan /\ pieces' = more /\ NextRaw
  BY DEF KeepWhole, AstInv
<1>2. s \in Nat \X Nat /\ Whole(s) /\ Laid(pieces) /\ Len(pieces) \in Nat
  BY <1>1, SpanDone DEF AstTypes, Laid
<1>3. Narrow(s[1], s[2])
  <2>1. Bytes(plan.text, s[1], s[2]) \in Int /\ plan.max \in Nat
    BY <1>1, <1>2, BytesCount DEF AstTypes
  <2>. QED BY <1>1, <2>1 DEF Narrow, Fits
<1>4. Disjoint /\ pieces # <<>> => pieces[Len(pieces)][2] <= s[1]
  BY <1>1 DEF SplitInv
<1>5. Disjoint => InOrder(pieces)
  BY <1>1 DEF AstTypes
<1> HIDE DEF s
<1>6. /\ Laid(more) /\ more # <<>> /\ more[Len(more)] = s
      /\ \A c : Fills(pieces, c) \/ (s[1] < c /\ c <= s[2]) => Fills(more, c)
      /\ Disjoint => InOrder(more)
  BY <1>2, <1>4, <1>5, SpanAdded
<1>7. \A j \in DOMAIN more : Narrow(more[j][1], more[j][2])
  <2> SUFFICES ASSUME NEW j \in DOMAIN more PROVE Narrow(more[j][1], more[j][2])
    OBVIOUS
  <2>1. (j \in DOMAIN pieces /\ more[j] = pieces[j]) \/ more[j] = s
    <3> HIDE DEF more
    <3>. QED BY <1>2, SpanAdded DEF more
  <2>2. \A i \in DOMAIN pieces : Narrow(pieces[i][1], pieces[i][2])
    BY <1>1 DEF AstTypes
  <2> HIDE DEF more
  <2>. QED BY <1>3, <2>1, <2>2
<1>8. s[2] <= s[2]
  BY <1>2
<1> HIDE DEF more
<1>. QED BY <1>1, <1>6, <1>7, <1>8, NextRawStep DEF s

\* The first of some places.
LEMMA FirstIsFirst ==
  ASSUME NEW places \in SUBSET Nat, places # {}
  PROVE  First(places) \in places /\ \A q \in places : First(places) <= q
<1>1. \E p \in places : \A q \in places : p <= q
  BY LeastOf
<1>. QED BY <1>1 DEF First

\* What is flushed when a line does not fit is a piece, and what is not flushed
\* still holds the line.
LEMMA SplitAtLineStep ==
  ASSUME AstInv, SplitAtLine
  PROVE  AstInv'
<1> DEFINE end == loop.raw[1][2]
           places == {p \in loop.to + 1 .. end : p = end \/ plan.text[p] = "line"}
           line == First(places)
           flush == loop.from < loop.to /\ Bytes(plan.text, loop.from, line) > plan.max
           from == IF flush THEN loop.to ELSE loop.from
           flushed == IF flush THEN Append(pieces, <<loop.from, loop.to>>) ELSE pieces
           head == loop.raw[1][1]
<1>1. AstTypes /\ SplitInv /\ loop.at = "split" /\ loop.raw # <<>> /\ ~Fits /\ plan' = plan
  BY DEF SplitAtLine, AstInv
<1>2. /\ loop.raw[1] \in Nat \X Nat /\ Whole(loop.raw[1]) /\ Laid(pieces)
      /\ loop.from \in Nat /\ loop.to \in Nat /\ head \in Nat /\ end \in Nat /\ plan.max \in Nat
      /\ head <= loop.from /\ loop.from <= loop.to /\ loop.to < end
      /\ end <= Len(plan.text) /\ Len(plan.text) \in Nat
  BY <1>1, SpanDone DEF AstTypes, SplitInv, Whole
<1>3. /\ line \in Nat /\ loop.to < line /\ line <= end /\ (line = end \/ plan.text[line] = "line")
      /\ \A c \in loop.to + 1 .. line - 1 : plan.text[c] # "line"
  <2>1. places \subseteq Nat /\ end \in places
    BY <1>2
  <2>2. line \in places /\ \A q \in places : line <= q
    <3> HIDE DEF places
    <3>. QED BY <2>1, FirstIsFirst
  <2>3. \A c \in loop.to + 1 .. line - 1 : c \in loop.to + 1 .. end /\ ~(line <= c)
    <3>1. line \in Nat /\ line <= end
      <4> HIDE DEF line, end
      <4>. QED BY <1>2, <2>2
    <3> HIDE DEF line, end
    <3>. QED BY <1>2, <3>1
  <2>4. line \in Nat /\ loop.to < line /\ line <= end /\ (line = end \/ plan.text[line] = "line")
    <3>1. line \in loop.to + 1 .. end /\ (line = end \/ plan.text[line] = "line")
      <4> HIDE DEF line
      <4>. QED BY <2>2
    <3> HIDE DEF line, end
    <3>. QED BY <1>2, <3>1
  <2>5. \A c \in loop.to + 1 .. line - 1 : plan.text[c] # "line"
    <3> HIDE DEF line
    <3>. QED BY <2>2, <2>3
  <2>. QED BY <2>4, <2>5
<1> HIDE DEF end, places, line, head
<1>4. Opening(loop.from) /\ Opening(loop.to) /\ Narrow(loop.from, loop.to)
      /\ (\A c \in head + 1 .. loop.from : Fills(pieces, c))
      /\ (Disjoint => InOrder(pieces)) /\ (Disjoint /\ pieces # <<>> => pieces[Len(pieces)][2] <= loop.from)
      /\ \A i \in DOMAIN pieces : Narrow(pieces[i][1], pieces[i][2])
  BY <1>1 DEF SplitInv, AstTypes, head
<1>5. flush \in BOOLEAN /\ from \in Nat /\ loop.from <= from /\ from <= loop.to /\ Opening(from)
  BY <1>2, <1>4
<1>6. Narrow(from, line)
  <2>1. CASE from = loop.to
    BY <1>3, <2>1 DEF Narrow
  <2>2. CASE from # loop.to
    <3>1. ~flush /\ loop.from < loop.to /\ from = loop.from
      BY <1>2, <2>2
    <3>2. Bytes(plan.text, from, line) \in Int
      BY <1>2, <1>3, <3>1, BytesCount
    <3>. QED BY <1>2, <3>1, <3>2 DEF Narrow
  <2>. QED BY <2>1, <2>2
<1>7. /\ Laid(flushed)
      /\ \A j \in DOMAIN flushed : Narrow(flushed[j][1], flushed[j][2])
      /\ \A c : Fills(pieces, c) => Fills(flushed, c)
      /\ \A c \in head + 1 .. from : Fills(flushed, c)
      /\ Disjoint => InOrder(flushed)
      /\ Disjoint /\ flushed # <<>> => flushed[Len(flushed)][2] <= from
  <2>1. CASE ~flush
    BY <1>2, <1>4, <2>1
  <2>2. CASE flush
    <3> DEFINE s == <<loop.from, loop.to>>
    <3>1. s \in Nat \X Nat /\ s[1] = loop.from /\ s[2] = loop.to /\ Whole(s) /\ Len(pieces) \in Nat
      BY <1>2, <1>4, <2>2 DEF Whole, Laid
    <3>2. flushed = Append(pieces, s) /\ from = loop.to
      BY <2>2
    <3> HIDE DEF s, flushed, from
    <3>3. /\ Laid(flushed) /\ flushed[Len(flushed)] = s
          /\ \A c : Fills(flushed, c) <=> Fills(pieces, c) \/ (s[1] < c /\ c <= s[2])
          /\ Disjoint => InOrder(flushed)
      BY <1>2, <1>4, <3>1, <3>2, SpanAdded
    <3>4. \A j \in DOMAIN flushed : (j \in DOMAIN pieces /\ flushed[j] = pieces[j]) \/ flushed[j] = s
      BY <1>2, <3>1, <3>2, SpanAdded
    <3>5. Narrow(s[1], s[2])
      BY <1>4, <3>1
    <3>6. \A j \in DOMAIN flushed : Narrow(flushed[j][1], flushed[j][2])
      BY <1>4, <3>4, <3>5
    <3>7. \A c \in head + 1 .. from : c \in head + 1 .. loop.from \/ (s[1] < c /\ c <= s[2])
      BY <1>2, <3>1, <3>2
    <3>8. \A c \in head + 1 .. from : Fills(flushed, c)
      BY <1>4, <3>3, <3>7
    <3>. QED BY <1>2, <3>1, <3>2, <3>3, <3>6, <3>8
  <2>. QED BY <2>1, <2>2
<1> HIDE DEF flushed, from
<1>8. CASE line = end
  <2> DEFINE s == <<from, line>>
             more == Append(flushed, s)
  <2>1. pieces' = more /\ NextRaw
    BY <1>8 DEF SplitAtLine, more, s, from, flushed, line, end, places
  <2>2. s \in Nat \X Nat /\ s[1] = from /\ s[2] = line /\ Whole(s) /\ Len(flushed) \in Nat
    BY <1>2, <1>3, <1>5, <1>7, <1>8 DEF Whole, Laid
  <2> HIDE DEF s
  <2>3. /\ Laid(more) /\ more # <<>> /\ more[Len(more)] = s
        /\ \A c : Fills(more, c) <=> Fills(flushed, c) \/ (s[1] < c /\ c <= s[2])
        /\ Disjoint => InOrder(more)
    BY <1>7, <2>2, SpanAdded
  <2>4. \A j \in DOMAIN more : Narrow(more[j][1], more[j][2])
    <3>1. \A j \in DOMAIN more : (j \in DOMAIN flushed /\ more[j] = flushed[j]) \/ more[j] = s
      BY <1>7, <2>2, SpanAdded
    <3> HIDE DEF more
    <3>. QED BY <1>6, <1>7, <2>2, <3>1
  <2> HIDE DEF more
  <2>5. ASSUME NEW c \in Nat, Fills(pieces, c) \/ (head < c /\ c <= end) PROVE Fills(more, c)
    <3>1. CASE Fills(pieces, c)
      BY <1>7, <2>3, <3>1
    <3>2. CASE head < c /\ c <= end
      <4>1. c \in head + 1 .. from \/ (from < c /\ c <= line)
        BY <1>2, <1>5, <1>8, <3>2
      <4>. QED BY <1>7, <2>2, <2>3, <4>1
    <3>. QED BY <2>5, <3>1, <3>2
  <2>. QED BY <1>1, <1>2, <1>8, <2>1, <2>2, <2>3, <2>4, <2>5, NextRawStep DEF head, end
<1>9. CASE line # end
  <2>1. pieces' = flushed /\ loop' = [loop EXCEPT !.from = from, !.to = line]
    BY <1>9 DEF SplitAtLine, from, flushed, line, end, places
  <2>2. /\ loop' \in [i : Nat, from : Nat, to : Nat, chars : Nat, raw : Seq(Nat \X Nat), at : {"walk", "split", "done"}]
        /\ loop'.raw = loop.raw /\ loop'.from = from /\ loop'.to = line /\ loop'.at = "split"
    BY <1>1, <1>3, <1>5, <2>1 DEF AstTypes
  <2>3. Laid(loop.raw)' /\ Laid(pieces)'
    <3>1. Laid(loop.raw)
      BY <1>1 DEF AstTypes
    <3>2. Laid(loop.raw)'
      BY <1>1, <2>2, <3>1 DEF Laid, Whole, Opening
    <3>3. Laid(pieces)'
      BY <1>1, <1>7, <2>1 DEF Laid, Whole, Opening
    <3>. QED BY <3>2, <3>3
  <2>4. Disjoint' => InOrder(loop.raw)' /\ InOrder(pieces)'
    BY <1>1, <1>7, <2>1, <2>2 DEF AstTypes, InOrder, Disjoint
  <2>5. \A j \in DOMAIN pieces' : Narrow(pieces[j][1], pieces[j][2])'
    BY <1>1, <1>7, <2>1 DEF Narrow
  <2>6. AstTypes'
    BY <1>1, <2>2, <2>3, <2>4, <2>5 DEF AstTypes
  <2>7. Opening(loop.from)' /\ Opening(loop.to)' /\ Narrow(loop.from, loop.to)'
    <3>1. Opening(line)
      BY <1>3, <1>9 DEF Opening
    <3>. QED BY <1>1, <1>5, <1>6, <2>2, <3>1 DEF Opening, Narrow
  <2>8. \A c \in DOMAIN plan.text : ~Blank(plan.text[c]) => Fills(pieces, c)' \/ Fills(loop.raw, c)'
    <3>1. \A c \in DOMAIN plan.text : ~Blank(plan.text[c]) => Fills(flushed, c) \/ Fills(loop.raw, c)
      BY <1>1, <1>7 DEF SplitInv
    <3>. QED BY <1>1, <2>1, <2>2, <3>1 DEF Fills
  <2>9. \A c \in head + 1 .. from : Fills(pieces, c)'
    BY <1>7, <2>1 DEF Fills
  <2>10. head <= from /\ from <= line /\ line < end /\ ~Fits'
    <3>1. ~Fits'
      BY <1>1, <2>2 DEF Fits
    <3>. QED BY <1>2, <1>3, <1>5, <1>9, <3>1
  <2>11. Disjoint' /\ pieces' # <<>> => pieces'[Len(pieces')][2] <= from
    BY <1>1, <1>7, <2>1 DEF Disjoint
  <2>12. SplitInv'
    <3>1. loop'.raw[1][1] = head /\ loop'.raw[1][2] = end
      BY <2>2 DEF head, end
    <3>2. /\ loop'.raw[1][1] <= loop'.from /\ loop'.from <= loop'.to /\ loop'.to < loop'.raw[1][2]
          /\ \A c \in loop'.raw[1][1] + 1 .. loop'.from : Fills(pieces, c)'
          /\ Disjoint' /\ pieces' # <<>> => pieces'[Len(pieces')][2] <= loop'.from
      BY <2>2, <2>9, <2>10, <2>11, <3>1
    <3>. QED BY <1>1, <2>7, <2>8, <2>10, <3>2 DEF SplitInv
  <2>. QED BY <2>2, <2>6, <2>12 DEF AstInv
<1>. QED BY <1>8, <1>9

LEMMA NoCodeLost ==
  ASSUME AstInv
  PROVE  NoCodeIsLost
<1> SUFFICES ASSUME plan.by = "ast" PROVE NoCodeIsLost
  BY DEF NoCodeIsLost
<1>1. AstTypes
  BY DEF AstInv
<1>2. /\ pieces \in Seq(Nat \X Nat) /\ DOMAIN pieces = 1 .. Len(pieces)
      /\ \A i \in DOMAIN pieces : Whole(pieces[i]) /\ Narrow(pieces[i][1], pieces[i][2])
  BY <1>1 DEF AstTypes, Laid
<1>3. Done => \A c \in DOMAIN plan.text : ~Blank(plan.text[c]) => c \in Covered
  <2> SUFFICES ASSUME Done, NEW c \in DOMAIN plan.text, ~Blank(plan.text[c]) PROVE c \in Covered
    OBVIOUS
  <2>1. Fills(pieces, c) /\ c \in Nat
    BY <1>1 DEF AstInv, Done, AstTypes
  <2>2. PICK j \in DOMAIN pieces : pieces[j][1] < c /\ c <= pieces[j][2]
    BY <2>1 DEF Fills
  <2>3. c \in CharsOf(pieces[j])
    BY <1>2, <2>1, <2>2 DEF CharsOf
  <2>. QED BY <2>3 DEF Covered
<1>4. Disjoint => \A i \in 1 .. Len(pieces) - 1 : pieces[i][2] <= pieces[i + 1][1]
  BY <1>1 DEF AstTypes, InOrder
<1>5. ASSUME NEW i \in DOMAIN pieces
      PROVE  LET s == pieces[i] IN
             /\ s[1] < s[2]
             /\ Bytes(plan.text, s[1], s[2]) > plan.max =>
                  \A c \in s[1] + 1 .. s[2] - 1 : plan.text[c] # "line"
             /\ \/ s[1] \in {0} \cup {AtMost(d[k], Len(plan.text)) : d \in {plan.cuts[j] : j \in DOMAIN plan.cuts}, k \in {1, 2}}
                \/ plan.text[s[1]] = "line"
  <2>1. Whole(pieces[i]) /\ Narrow(pieces[i][1], pieces[i][2])
    BY <1>2
  <2>2. pieces[i][1] < pieces[i][2] /\ Opening(pieces[i][1])
    BY <2>1 DEF Whole
  <2>3. Bytes(plan.text, pieces[i][1], pieces[i][2]) > plan.max =>
          \A c \in pieces[i][1] + 1 .. pieces[i][2] - 1 : plan.text[c] # "line"
    BY <2>1 DEF Narrow
  <2>. QED BY <2>2, <2>3 DEF Opening
<1>. QED BY <1>3, <1>4, <1>5 DEF NoCodeIsLost

-----------------------------------------------------------------------------
(* Sentences                                                               *)

\* The k-th of some numbers.
NthOf(ends, k) == CHOOSE p \in ends : Cardinality({q \in ends : q < p}) = k - 1

\* Every number below how many there are is some row's.
LEMMA RankIsTaken ==
  ASSUME NEW S, IsFiniteSet(S), NEW R, Orders(R, S), NEW i \in 0 .. Cardinality(S) - 1
  PROVE  \E k \in S : Cardinality(Below(R, S, k)) = i
BY RowsAreNumbered

LEMMA NumbersInOrder ==
  ASSUME NEW ends \in SUBSET Nat, IsFiniteSet(ends), ends # {}
  PROVE  /\ Cardinality(ends) \in Nat /\ Cardinality(ends) > 0
         /\ \A k \in 1 .. Cardinality(ends) :
              NthOf(ends, k) \in ends /\ Cardinality({q \in ends : q < NthOf(ends, k)}) = k - 1
         /\ \A a, b \in 1 .. Cardinality(ends) : a < b => NthOf(ends, a) < NthOf(ends, b)
<1> DEFINE m == Cardinality(ends)
           R == {p \in ends \X ends : p[1] < p[2]}
<1>1. m \in Nat /\ m > 0
  BY FS_CardinalityType, FS_EmptySet
<1>2. \A p \in ends : Below(R, ends, p) = {q \in ends : q < p}
  BY DEF Below
<1>3. Orders(R, ends)
  <2>1. \A a, b \in ends : <<a, b>> \in R <=> a < b
    OBVIOUS
  <2> HIDE DEF R
  <2>. QED BY <2>1 DEF Orders
<1>4. /\ \A i \in 0 .. m - 1 : \E p \in ends : Cardinality(Below(R, ends, p)) = i
      /\ \A x, y \in ends : Cardinality(Below(R, ends, x)) < Cardinality(Below(R, ends, y)) <=> <<x, y>> \in R
  <2> HIDE DEF R
  <2>1. IsFiniteSet(ends)
    OBVIOUS
  <2>2. \A i \in 0 .. m - 1 : \E p \in ends : Cardinality(Below(R, ends, p)) = i
    <3> SUFFICES ASSUME NEW i \in 0 .. m - 1 PROVE \E p \in ends : Cardinality(Below(R, ends, p)) = i
      OBVIOUS
    <3>1. PICK S, Q : S = ends /\ Q = R
      OBVIOUS
    <3>2. IsFiniteSet(S) /\ Orders(Q, S) /\ i \in 0 .. Cardinality(S) - 1
      BY <1>3, <2>1, <3>1
    <3>3. \E p \in S : Cardinality(Below(Q, S, p)) = i
      BY <3>2, RankIsTaken
    <3>. QED BY <3>1, <3>3
  <2>3. \A x, y \in ends : Cardinality(Below(R, ends, x)) < Cardinality(Below(R, ends, y)) <=> <<x, y>> \in R
    <3> HIDE DEF m
    <3>. QED BY <1>3, <2>1, RowsAreNumbered, Zenon
  <2>. QED BY <2>2, <2>3
<1>5. \A k \in 1 .. m : NthOf(ends, k) \in ends /\ Cardinality({q \in ends : q < NthOf(ends, k)}) = k - 1
  <2> SUFFICES ASSUME NEW k \in 1 .. m
               PROVE  NthOf(ends, k) \in ends /\ Cardinality({q \in ends : q < NthOf(ends, k)}) = k - 1
    OBVIOUS
  <2>1. k - 1 \in 0 .. m - 1
    BY <1>1
  <2>2. \E p \in ends : Cardinality({q \in ends : q < p}) = k - 1
    <3> HIDE DEF R, m
    <3>. QED BY <1>2, <1>4, <2>1
  <2>. QED BY <2>2 DEF NthOf
<1>6. \A a, b \in 1 .. m : a < b => NthOf(ends, a) < NthOf(ends, b)
  <2> SUFFICES ASSUME NEW a \in 1 .. m, NEW b \in 1 .. m, a < b PROVE NthOf(ends, a) < NthOf(ends, b)
    OBVIOUS
  <2>1. NthOf(ends, a) \in ends /\ NthOf(ends, b) \in ends
    BY <1>5
  <2>2. Cardinality(Below(R, ends, NthOf(ends, a))) = a - 1 /\ Cardinality(Below(R, ends, NthOf(ends, b))) = b - 1
    <3> HIDE DEF R, m
    <3>. QED BY <1>2, <1>5, <2>1
  <2>3. a - 1 < b - 1
    BY <1>1
  <2>4. <<NthOf(ends, a), NthOf(ends, b)>> \in R
    <3> HIDE DEF R, m
    <3>. QED BY <1>4, <2>1, <2>2, <2>3
  <2>. QED BY <2>1, <2>4
<1>. QED BY <1>1, <1>5, <1>6

\* Sentences in order, each of some characters, the first at the start.
InSentences(cuts) ==
  /\ cuts \in Seq(Nat \X Nat) /\ Len(cuts) > 0 /\ cuts[1][1] = 0
  /\ \A a \in DOMAIN cuts : cuts[a][1] < cuts[a][2]
  /\ \A a, b \in DOMAIN cuts : a < b => cuts[a][2] <= cuts[b][1]

LEMMA SentencesInOrder ==
  ASSUME NEW text \in Seq({"letter", "wide", "space", "line", "stop"}), text # <<>>
  PROVE  InSentences(SplitSentences(text))
<1> DEFINE n == Len(text)
           stops == {p \in 1 .. n : text[p] = "stop" /\ (p = n \/ Blank(text[p + 1]))}
           Goes(p) == {q \in p .. n : q = n \/ ~Blank(text[q + 1])}
           Resume(p) == First(Goes(p))
           last == IF stops = {} THEN 0 ELSE CHOOSE p \in stops : \A q \in stops : q <= p
           rest == stops = {} \/ Resume(last) < n
           ends == IF rest THEN stops \cup {n} ELSE stops
           before(p) == {q \in stops : q < p}
           Final(p) == CHOOSE q \in before(p) : \A r \in before(p) : r <= q
           From(p) == IF before(p) = {} THEN 0 ELSE Resume(Final(p))
           Kth(k) == CHOOSE p \in ends : Cardinality({q \in ends : q < p}) = k - 1
           m == Cardinality(ends)
<1>1. n \in Nat /\ n > 0
  OBVIOUS
<1>2. stops \subseteq 1 .. n /\ ends \subseteq 1 .. n /\ stops \subseteq ends
  BY <1>1
<1>3. \A p \in 1 .. n : Resume(p) \in p .. n /\ \A q \in Goes(p) : Resume(p) <= q
  <2> SUFFICES ASSUME NEW p \in 1 .. n PROVE Resume(p) \in p .. n /\ \A q \in Goes(p) : Resume(p) <= q
    OBVIOUS
  <2>1. Goes(p) \in SUBSET Nat /\ n \in Goes(p) /\ Goes(p) \subseteq p .. n
    BY <1>1
  <2> HIDE DEF Goes
  <2>2. First(Goes(p)) \in Goes(p) /\ \A q \in Goes(p) : First(Goes(p)) <= q
    BY <2>1, FirstIsFirst
  <2>. QED BY <2>1, <2>2
<1>4. \A S \in SUBSET (1 .. n) : S # {} => \E p \in S : \A q \in S : q <= p
  <2> SUFFICES ASSUME NEW S \in SUBSET (1 .. n), S # {} PROVE \E p \in S : \A q \in S : q <= p
    OBVIOUS
  <2>0. IsFiniteSet(1 .. n) /\ S \subseteq 1 .. n
    <3> HIDE DEF n
    <3>. QED BY <1>1, FS_Interval
  <2>1. IsFiniteSet(S)
    <3> HIDE DEF n
    <3>. QED BY <2>0, FS_Subset
  <2>2. S \in SUBSET Nat
    <3> HIDE DEF n
    <3>. QED BY <1>1
  <2>. QED BY <2>1, <2>2, GreatestOf
<1> HIDE DEF Goes, n, stops
<1>5. IsFiniteSet(ends) /\ ends # {} /\ ends \in SUBSET Nat
  <2>0. IsFiniteSet(1 .. n) /\ ends \subseteq 1 .. n
    <3> HIDE DEF ends
    <3>. QED BY <1>1, <1>2, FS_Interval
  <2>1. IsFiniteSet(ends)
    <3> HIDE DEF ends
    <3>. QED BY <2>0, FS_Subset
  <2>2. ends # {}
    OBVIOUS
  <2> HIDE DEF ends
  <2>. QED BY <1>1, <2>0, <2>1, <2>2
<1>6. /\ m \in Nat /\ m > 0
      /\ \A k \in 1 .. m : Kth(k) \in ends /\ Cardinality({q \in ends : q < Kth(k)}) = k - 1
      /\ \A a, b \in 1 .. m : a < b => Kth(a) < Kth(b)
  <2>1. \A k : Kth(k) = NthOf(ends, k)
    BY DEF NthOf
  <2> HIDE DEF ends, Kth
  <2>. QED BY <1>5, <2>1, NumbersInOrder
<1>8. \A k \in 1 .. m : Kth(k) \in ends /\ Cardinality({q \in ends : q < Kth(k)}) = k - 1
  BY <1>6
<1>9. \A a, b \in 1 .. m : a < b => Kth(a) < Kth(b)
  BY <1>6
<1>10. \A p \in ends : before(p) # {} => Final(p) \in stops /\ Final(p) < p /\ \A q \in before(p) : q <= Final(p)
  <2> SUFFICES ASSUME NEW p \in ends, before(p) # {}
               PROVE  Final(p) \in stops /\ Final(p) < p /\ \A q \in before(p) : q <= Final(p)
    OBVIOUS
  <2>1. before(p) \in SUBSET (1 .. n)
    BY <1>2
  <2>2. Final(p) \in before(p) /\ \A q \in before(p) : q <= Final(p)
    <3> HIDE DEF before
    <3>. QED BY <1>4, <2>1
  <2>. QED BY <2>2
<1>11. \A p \in ends : From(p) \in Nat /\ From(p) < p
  <2> SUFFICES ASSUME NEW p \in ends PROVE From(p) \in Nat /\ From(p) < p
    OBVIOUS
  <2>0. p \in 1 .. n
    BY <1>2
  <2>1. CASE before(p) = {}
    BY <2>0, <2>1, <1>1
  <2>2. CASE before(p) # {}
    <3>1. From(p) = Resume(Final(p)) /\ Final(p) \in stops /\ Final(p) < p /\ Final(p) \in 1 .. n
          /\ \A q \in before(p) : q <= Final(p)
      BY <1>2, <1>10, <2>2
    <3>2. Resume(Final(p)) \in Nat
      <4> HIDE DEF Resume, Final
      <4>. QED BY <1>1, <1>3, <3>1
    <3>3. CASE p \in stops
      <4>1. p - 1 \in Goes(Final(p))
        <5>1. text[p] = "stop" /\ ~Blank(text[p])
          BY <3>3 DEF stops, Blank
        <5>2. p - 1 \in Final(p) .. n /\ (p - 1) + 1 = p
          <6> HIDE DEF Final
          <6>. QED BY <1>1, <2>0, <3>1
        <5> HIDE DEF Final
        <5>. QED BY <5>1, <5>2 DEF Goes
      <4>2. Resume(Final(p)) <= p - 1
        <5> HIDE DEF Final, Resume
        <5>. QED BY <1>3, <3>1, <4>1
      <4> HIDE DEF Final, Resume, From
      <4>. QED BY <2>0, <3>1, <3>2, <4>2
    <3>4. CASE p \notin stops
      <4>1. rest /\ p = n
        BY <3>4
      <4>2. before(p) = stops
        <5>1. \A q \in stops : q < p
          BY <1>1, <1>2, <3>4, <4>1
        <5>. QED BY <5>1
      <4>3. last = Final(p)
        <5>1. stops # {}
          BY <2>2
        <5>2. last \in stops /\ \A q \in stops : q <= last
          <6>1. \E r \in stops : \A q \in stops : q <= r
            BY <1>2, <1>4, <5>1
          <6>. QED BY <5>1, <6>1
        <5> HIDE DEF last, Final, before
        <5>. QED BY <1>2, <3>1, <4>2, <5>2
      <4>4. Resume(last) < n
        BY <2>2, <4>1
      <4> HIDE DEF Final, Resume, From, last
      <4>. QED BY <3>1, <3>2, <4>1, <4>3, <4>4
    <3>. QED BY <3>3, <3>4
  <2>. QED BY <2>1, <2>2
<1>12. \A a, b \in 1 .. m : a < b => Kth(a) <= From(Kth(b))
  <2> SUFFICES ASSUME NEW a \in 1 .. m, NEW b \in 1 .. m, a < b PROVE Kth(a) <= From(Kth(b))
    OBVIOUS
  <2> DEFINE p == Kth(a)
             q == Kth(b)
  <2>1. p \in ends /\ q \in ends /\ p < q /\ p \in 1 .. n /\ q \in 1 .. n
    <3> HIDE DEF ends, Kth, m
    <3>. QED BY <1>2, <1>8, <1>9
  <2> HIDE DEF p, q
  <2>2. p \in stops
    BY <1>1, <2>1
  <2>3. p \in before(q)
    BY <2>1, <2>2
  <2>4. From(q) = Resume(Final(q)) /\ Final(q) \in 1 .. n /\ p <= Final(q)
    BY <1>2, <1>10, <2>1, <2>3
  <2>5. Resume(Final(q)) \in Final(q) .. n
    <3> HIDE DEF Final, Resume
    <3>. QED BY <1>3, <2>4
  <2>6. p <= From(q)
    <3> HIDE DEF Final, Resume, From
    <3>. QED BY <1>1, <2>1, <2>4, <2>5
  <2>. QED BY <2>6 DEF p, q
<1>13. From(Kth(1)) = 0
  <2>1. 1 \in 1 .. m
    <3> HIDE DEF m
    <3>. QED BY <1>6
  <2>2. Kth(1) \in ends /\ Cardinality({q \in ends : q < Kth(1)}) = 0
    <3> HIDE DEF ends, Kth, m
    <3>. QED BY <1>8, <2>1
  <2>3. {q \in ends : q < Kth(1)} = {}
    <3>1. IsFiniteSet({q \in ends : q < Kth(1)})
      <4> HIDE DEF ends, Kth
      <4>1. {q \in ends : q < Kth(1)} \subseteq ends
        OBVIOUS
      <4>. QED BY <1>5, <4>1, FS_Subset
    <3> HIDE DEF ends, Kth
    <3>. QED BY <2>2, <3>1, FS_EmptySet
  <2>4. before(Kth(1)) = {}
    <3> HIDE DEF ends, Kth
    <3>. QED BY <1>2, <2>3
  <2>. QED BY <2>4
<1>14. SplitSentences(text) = [k \in 1 .. m |-> <<From(Kth(k)), Kth(k)>>]
  BY DEF SplitSentences, n, stops, Goes
<1>15. \A k \in 1 .. m : From(Kth(k)) \in Nat /\ Kth(k) \in Nat /\ From(Kth(k)) < Kth(k)
  <2>0. ends \subseteq Nat
    <3> HIDE DEF ends
    <3>. QED BY <1>1, <1>2
  <2>1. \A k \in 1 .. m : Kth(k) \in ends /\ Kth(k) \in Nat
    <3> HIDE DEF ends, Kth, m
    <3>. QED BY <1>8, <2>0
  <2> HIDE DEF From, Kth, ends
  <2>. QED BY <1>11, <2>1
<1> DEFINE cuts == [k \in 1 .. m |-> <<From(Kth(k)), Kth(k)>>]
<1> HIDE DEF From, Kth, ends, m
<1>16. cuts \in Seq(Nat \X Nat) /\ Len(cuts) = m /\ DOMAIN cuts = 1 .. m
       /\ \A k \in 1 .. m : cuts[k][1] = From(Kth(k)) /\ cuts[k][2] = Kth(k)
  BY <1>6, <1>15
<1>17. 1 \in 1 .. m
  BY <1>6
<1> HIDE DEF cuts
<1>18. InSentences(cuts)
  BY <1>6, <1>12, <1>13, <1>15, <1>16, <1>17 DEF InSentences
<1>. QED BY <1>14, <1>18 DEF cuts

\* The span holds the sentences a to b, and is above the maximum for one alone.
Run(s, a, b) ==
  /\ a \in DOMAIN plan.cuts /\ b \in DOMAIN plan.cuts /\ a <= b
  /\ s = <<plan.cuts[a][1], plan.cuts[b][2]>>
  /\ s[2] - s[1] > plan.max => a = b

\* q opens with the sentence after p's last, which p had no room for.
Meets(p, q) ==
  \E b \in DOMAIN plan.cuts :
    /\ b + 1 \in DOMAIN plan.cuts
    /\ p[2] = plan.cuts[b][2] /\ q[1] = plan.cuts[b + 1][1]
    /\ plan.cuts[b + 1][2] - p[1] > plan.max

Chained(spans) ==
  /\ spans \in Seq(Nat \X Nat)
  /\ \A j \in DOMAIN spans : \E a, b \in DOMAIN plan.cuts : Run(spans[j], a, b) /\ (j = 1 => a = 1)
  /\ \A j \in 1 .. Len(spans) - 1 : Meets(spans[j], spans[j + 1])

\* s is the next chunk after these.
ComesAfter(spans, s) ==
  /\ spans = <<>> => s[1] = plan.cuts[1][1]
  /\ spans # <<>> => Meets(spans[Len(spans)], s)

SentenceTypes ==
  /\ plan.by = "sentence"
  /\ InSentences(plan.cuts) /\ plan.max \in Nat /\ plan.min \in Nat
  /\ loop \in [i : Nat, from : Nat, to : Nat, chars : Nat, raw : {<<>>}, at : {"walk", "done"}]
  /\ loop.i \in 1 .. Len(plan.cuts) + 1
  /\ loop.to = loop.from + loop.chars
  /\ Chained(pieces)

BuiltInv ==
  /\ loop.i = 1 => loop.from = 0 /\ loop.to = 0 /\ pieces = <<>>
  /\ loop.i > 1 =>
       /\ \E a \in DOMAIN plan.cuts : Run(<<loop.from, loop.to>>, a, loop.i - 1)
       /\ ComesAfter(pieces, <<loop.from, loop.to>>)

SentenceInv ==
  plan.by = "sentence" =>
    /\ SentenceTypes
    /\ loop.at = "walk" => BuiltInv
    /\ loop.at = "done" => pieces # <<>> /\ pieces[Len(pieces)][2] = plan.cuts[Len(plan.cuts)][2]

\* Places in order: a sentence is found by its start and by its end.
LEMMA SentencesApart ==
  ASSUME NEW cuts, InSentences(cuts), NEW a \in DOMAIN cuts, NEW b \in DOMAIN cuts
  PROVE  /\ a \in Nat /\ cuts[a][1] \in Nat /\ cuts[a][2] \in Nat /\ cuts[a][1] < cuts[a][2]
         /\ cuts[a][1] = cuts[b][1] => a = b
         /\ cuts[a][2] = cuts[b][2] => a = b
         /\ a <= b => cuts[a][1] <= cuts[b][1] /\ cuts[a][2] <= cuts[b][2]
<1>1. cuts \in Seq(Nat \X Nat) /\ DOMAIN cuts = 1 .. Len(cuts) /\ Len(cuts) \in Nat
  BY DEF InSentences
<1>2. /\ a \in Nat /\ b \in Nat
      /\ cuts[a][1] \in Nat /\ cuts[a][2] \in Nat /\ cuts[b][1] \in Nat /\ cuts[b][2] \in Nat
  BY <1>1
<1>3. cuts[a][1] < cuts[a][2] /\ cuts[b][1] < cuts[b][2]
  BY DEF InSentences
<1>4. (a < b => cuts[a][2] <= cuts[b][1]) /\ (b < a => cuts[b][2] <= cuts[a][1])
  BY DEF InSentences
<1>5. a = b \/ a < b \/ b < a
  BY <1>2
<1>. QED BY <1>2, <1>3, <1>4, <1>5

\* A chunk that follows the others joins them.
LEMMA ChunkJoins ==
  ASSUME SentenceTypes, NEW s \in Nat \X Nat, NEW a \in DOMAIN plan.cuts, NEW b \in DOMAIN plan.cuts,
         Run(s, a, b), ComesAfter(pieces, s)
  PROVE  /\ Chained(Append(pieces, s))
         /\ Append(pieces, s) # <<>>
         /\ Append(pieces, s)[Len(Append(pieces, s))] = s
<1> DEFINE more == Append(pieces, s)
           n == Len(pieces)
<1>1. pieces \in Seq(Nat \X Nat) /\ n \in Nat /\ DOMAIN pieces = 1 .. n
  BY DEF SentenceTypes, Chained
<1>2. /\ more \in Seq(Nat \X Nat) /\ Len(more) = n + 1 /\ DOMAIN more = 1 .. n + 1
      /\ more[n + 1] = s /\ \A j \in 1 .. n : more[j] = pieces[j]
  BY <1>1
<1>3. n = 0 <=> pieces = <<>>
  BY <1>1
<1>4. InSentences(plan.cuts) /\ Chained(pieces)
  BY DEF SentenceTypes
<1>5. n = 0 => a = 1
  <2> SUFFICES ASSUME n = 0 PROVE a = 1
    OBVIOUS
  <2>1. s[1] = plan.cuts[1][1] /\ s[1] = plan.cuts[a][1]
    BY <1>3 DEF ComesAfter, Run
  <2>2. 1 \in DOMAIN plan.cuts
    BY <1>4 DEF InSentences
  <2>3. plan.cuts[a][1] = plan.cuts[1][1]
    BY <2>1
  <2>4. a = 1
    <3> DEFINE cuts == plan.cuts
    <3>1. InSentences(cuts) /\ a \in DOMAIN cuts /\ 1 \in DOMAIN cuts /\ cuts[a][1] = cuts[1][1]
      BY <1>4, <2>2, <2>3
    <3> HIDE DEF cuts
    <3>. QED BY <3>1, SentencesApart
  <2>. QED BY <2>4
<1> HIDE DEF more, n
<1>6. \A j \in DOMAIN more : \E x, y \in DOMAIN plan.cuts : Run(more[j], x, y) /\ (j = 1 => x = 1)
  <2> SUFFICES ASSUME NEW j \in DOMAIN more
               PROVE  \E x, y \in DOMAIN plan.cuts : Run(more[j], x, y) /\ (j = 1 => x = 1)
    OBVIOUS
  <2>1. CASE j \in 1 .. n
    BY <1>1, <1>2, <1>4, <2>1 DEF Chained
  <2>2. CASE j = n + 1
    <3>1. j = 1 => a = 1
      BY <1>1, <1>5, <2>2
    <3>. QED BY <1>2, <2>2, <3>1
  <2>. QED BY <1>1, <1>2, <2>1, <2>2
<1>7. \A j \in 1 .. Len(more) - 1 : Meets(more[j], more[j + 1])
  <2>0. Len(more) - 1 = n
    BY <1>1, <1>2
  <2> SUFFICES ASSUME NEW j \in 1 .. n PROVE Meets(more[j], more[j + 1])
    BY <2>0
  <2>1. CASE j \in 1 .. n - 1
    <3>1. Meets(pieces[j], pieces[j + 1])
      BY <1>4, <2>1 DEF Chained, n
    <3>2. more[j] = pieces[j] /\ more[j + 1] = pieces[j + 1]
      BY <1>1, <1>2, <2>1
    <3>. QED BY <3>1, <3>2
  <2>2. CASE j = n
    <3>1. Meets(pieces[n], s)
      <4>1. n # 0
        BY <1>1, <2>2
      <4>. QED BY <1>3, <4>1 DEF ComesAfter, n
    <3>2. more[j] = pieces[n] /\ more[j + 1] = s
      BY <1>2, <2>2
    <3>. QED BY <3>1, <3>2
  <2>. QED BY <1>1, <2>1, <2>2
<1>8. Chained(more)
  BY <1>2, <1>6, <1>7 DEF Chained
<1>9. more # <<>> /\ more[Len(more)] = s
  BY <1>1, <1>2
<1>. QED BY <1>8, <1>9 DEF more

\* Before the first chunk is cut the one being built opens with the text.
LEMMA SentenceStart ==
  ASSUME SegmentsAssumption, plan \in SentencePlans, loop = Loop, pieces = <<>>
  PROVE  SentenceInv
<1>1. PICK t \in SegTexts \ {<<>>}, m \in Maxes, s \in Mins :
        plan = [by |-> "sentence", text |-> t, cuts |-> SplitSentences(t), max |-> m, min |-> s]
  BY DEF SentencePlans
<1>2. InSentences(plan.cuts) /\ plan.by = "sentence" /\ plan.max \in Nat /\ plan.min \in Nat
  <2>1. t \in Seq({"letter", "wide", "space", "line", "stop"}) /\ t # <<>> /\ m \in Nat /\ s \in Nat
    BY DEF SegmentsAssumption
  <2>2. InSentences(SplitSentences(t))
    BY <2>1, SentencesInOrder
  <2>. QED BY <1>1, <2>1, <2>2
<1>3. Chained(pieces)
  BY DEF Chained
<1>4. /\ loop \in [i : Nat, from : Nat, to : Nat, chars : Nat, raw : {<<>>}, at : {"walk", "done"}]
      /\ loop.i = 1 /\ loop.from = 0 /\ loop.to = 0 /\ loop.chars = 0 /\ loop.at = "walk"
  BY DEF Loop
<1>5. loop.i \in 1 .. Len(plan.cuts) + 1
  <2>1. Len(plan.cuts) \in Nat
    BY <1>2 DEF InSentences
  <2>. QED BY <1>4, <2>1
<1>. QED BY <1>2, <1>3, <1>4, <1>5 DEF SentenceInv, SentenceTypes, BuiltInv

\* A sentence of own characters joins a chunk of chars, with what is between.
LEMMA SentenceJoins ==
  ASSUME NEW from \in Nat, NEW to \in Nat, NEW chars \in Nat, NEW first \in Nat, NEW final \in Nat,
         to = from + chars, to <= first, first < final
  PROVE  /\ final - first \in Nat /\ final - first > 0 /\ (final - first) + first = final
         /\ chars + (first - to) + (final - first) \in Nat
         /\ chars + (first - to) + (final - first) = final - from
         /\ chars + (first - to) + (final - first) + from = final
OBVIOUS

LEMMA TakeSentenceStep ==
  ASSUME SentenceInv, TakeSentence
  PROVE  SentenceInv'
<1>1. SentenceTypes /\ BuiltInv /\ plan' = plan
  BY DEF TakeSentence, SentenceInv
<1> DEFINE cuts == plan.cuts
           k == loop.i
           s == cuts[k]
           own == s[2] - s[1]
           combined == loop.chars + (s[1] - loop.to) + own
           flush == loop.chars > 0 /\ combined > plan.max
<1>2. InSentences(cuts) /\ Len(cuts) \in Nat /\ DOMAIN cuts = 1 .. Len(cuts) /\ plan.max \in Nat
  BY <1>1 DEF SentenceTypes, InSentences
<1>3. k \in DOMAIN cuts /\ k \in 1 .. Len(cuts)
  BY <1>1, <1>2 DEF SentenceTypes, TakeSentence
<1>4. s[1] \in Nat /\ s[2] \in Nat /\ s[1] < s[2]
  BY <1>2, <1>3, SentencesApart
<1>5. /\ loop.i \in Nat /\ loop.from \in Nat /\ loop.to \in Nat /\ loop.chars \in Nat
      /\ loop.to = loop.from + loop.chars
      /\ loop \in [i : Nat, from : Nat, to : Nat, chars : Nat, raw : {<<>>}, at : {"walk", "done"}]
  BY <1>1 DEF SentenceTypes
<1>6. /\ pieces' = IF flush THEN Append(pieces, <<loop.from, loop.to>>) ELSE pieces
      /\ loop' = [loop EXCEPT !.i = k + 1, !.to = s[2],
                    !.from = IF flush THEN s[1] ELSE loop.from,
                    !.chars = IF flush \/ loop.chars = 0 THEN own ELSE combined]
      /\ loop.at = "walk" /\ plan.by = "sentence"
  BY DEF TakeSentence
<1>7. k = 1 => ~flush /\ loop.from = 0 /\ loop.to = 0 /\ loop.chars = 0 /\ s[1] = 0 /\ pieces = <<>>
  <2> SUFFICES ASSUME k = 1 PROVE ~flush /\ loop.from = 0 /\ loop.to = 0 /\ loop.chars = 0 /\ s[1] = 0 /\ pieces = <<>>
    OBVIOUS
  <2>1. loop.from = 0 /\ loop.to = 0 /\ pieces = <<>>
    BY <1>1 DEF BuiltInv
  <2>2. s[1] = 0
    BY <1>2 DEF InSentences
  <2>3. loop.chars = 0
    BY <1>5, <2>1
  <2>. QED BY <2>1, <2>2, <2>3
<1>8. k > 1 =>
        \E a \in DOMAIN cuts :
          /\ Run(<<loop.from, loop.to>>, a, k - 1) /\ ComesAfter(pieces, <<loop.from, loop.to>>)
          /\ loop.from = cuts[a][1] /\ loop.to = cuts[k - 1][2] /\ a <= k - 1
          /\ loop.from < loop.to /\ loop.to <= s[1] /\ k - 1 \in DOMAIN cuts
  <2> SUFFICES ASSUME k > 1
               PROVE  \E a \in DOMAIN cuts :
                        /\ Run(<<loop.from, loop.to>>, a, k - 1) /\ ComesAfter(pieces, <<loop.from, loop.to>>)
                        /\ loop.from = cuts[a][1] /\ loop.to = cuts[k - 1][2] /\ a <= k - 1
                        /\ loop.from < loop.to /\ loop.to <= s[1] /\ k - 1 \in DOMAIN cuts
    OBVIOUS
  <2>1. PICK a \in DOMAIN cuts : Run(<<loop.from, loop.to>>, a, k - 1)
    BY <1>1 DEF BuiltInv
  <2>2. ComesAfter(pieces, <<loop.from, loop.to>>)
    BY <1>1 DEF BuiltInv
  <2>3. loop.from = cuts[a][1] /\ loop.to = cuts[k - 1][2] /\ a <= k - 1 /\ k - 1 \in DOMAIN cuts
    BY <2>1 DEF Run
  <2>4. loop.to <= s[1]
    <3>1. k - 1 < k
      BY <1>5
    <3>. QED BY <1>2, <1>3, <2>3, <3>1 DEF InSentences
  <2>5. loop.from < loop.to
    <3>1. cuts[a][1] \in Nat /\ cuts[a][1] < cuts[a][2] /\ cuts[a][2] <= cuts[k - 1][2]
          /\ cuts[a][2] \in Nat /\ cuts[k - 1][2] \in Nat
      BY <1>2, <2>3, SentencesApart
    <3>. QED BY <2>3, <3>1
  <2>. QED BY <2>1, <2>2, <2>3, <2>4, <2>5
<1>9. /\ own \in Nat /\ own > 0 /\ own + s[1] = s[2]
      /\ combined \in Nat /\ combined = s[2] - loop.from /\ combined + loop.from = s[2]
  <2>1. k > 1 => loop.to <= s[1] /\ loop.from < loop.to
    BY <1>8
  <2>2. loop.to <= s[1] /\ loop.from <= loop.to
    BY <1>3, <1>4, <1>5, <1>7, <2>1
  <2>3. PICK f \in Nat, t \in Nat, c \in Nat, x \in Nat, y \in Nat :
          f = loop.from /\ t = loop.to /\ c = loop.chars /\ x = s[1] /\ y = s[2]
    <3> HIDE DEF s
    <3>. QED BY <1>4, <1>5
  <2>4. t = f + c /\ t <= x /\ x < y
    <3> HIDE DEF s
    <3>. QED BY <1>4, <1>5, <2>2, <2>3
  <2>5. /\ y - x \in Nat /\ y - x > 0 /\ (y - x) + x = y
        /\ c + (x - t) + (y - x) \in Nat
        /\ c + (x - t) + (y - x) = y - f
        /\ c + (x - t) + (y - x) + f = y
    BY <2>4, SentenceJoins
  <2>6. own = y - x /\ combined = c + (x - t) + (y - x)
    <3> HIDE DEF s
    <3>. QED BY <2>3
  <2> HIDE DEF s, own, combined
  <2>. QED BY <2>3, <2>5, <2>6
<1> DEFINE froms == IF flush THEN s[1] ELSE loop.from
           length == IF flush \/ loop.chars = 0 THEN own ELSE combined
<1>10. loop.chars = 0 => s[1] = loop.from
  <2>2. loop.chars = 0 => k = 1
    <3>1. k > 1 => loop.from < loop.to
      BY <1>8
    <3>. QED BY <1>3, <1>5, <3>1
  <2>. QED BY <1>7, <2>2
<1> HIDE DEF s, own, combined, flush
<1>14. froms \in Nat /\ length \in Nat /\ s[2] = froms + length
  <2>1. CASE flush
    BY <1>4, <1>9, <2>1
  <2>2. CASE ~flush /\ loop.chars = 0
    BY <1>4, <1>5, <1>9, <1>10, <2>2
  <2>3. CASE ~flush /\ loop.chars # 0
    BY <1>4, <1>5, <1>9, <2>3
  <2>. QED BY <2>1, <2>2, <2>3
<1>11. /\ loop' \in [i : Nat, from : Nat, to : Nat, chars : Nat, raw : {<<>>}, at : {"walk", "done"}]
       /\ loop'.i = k + 1 /\ loop'.to = s[2] /\ loop'.from = froms /\ loop'.chars = length /\ loop'.at = "walk"
  <2>1. loop' = [loop EXCEPT !.i = k + 1, !.to = s[2], !.from = froms, !.chars = length]
    BY <1>6
  <2>2. loop.at = "walk" /\ k + 1 \in Nat
    BY <1>5, <1>6
  <2> HIDE DEF froms, length, k
  <2>. QED BY <1>4, <1>5, <1>14, <2>1, <2>2
<1> HIDE DEF froms, length, k
<1> DEFINE q == <<froms, s[2]>>
           Goal == Chained(pieces') /\ (\E a \in DOMAIN cuts : Run(q, a, k)) /\ ComesAfter(pieces', q)
<1>12. ASSUME ~flush PROVE Goal
  <2>1. pieces' = pieces /\ q = <<loop.from, s[2]>>
    BY <1>6, <1>12 DEF froms
  <2>2. \E a \in DOMAIN cuts : Run(<<loop.from, s[2]>>, a, k) /\ ComesAfter(pieces, <<loop.from, s[2]>>)
    <3>1. CASE k = 1
      <4>1. Run(<<loop.from, s[2]>>, 1, 1)
        BY <1>2, <1>3, <1>4, <1>7, <3>1 DEF Run, s
      <4>2. ComesAfter(pieces, <<loop.from, s[2]>>)
        BY <1>2, <1>7, <3>1 DEF ComesAfter, InSentences
      <4>. QED BY <1>3, <3>1, <4>1, <4>2
    <3>2. CASE k > 1
      <4>1. PICK a \in DOMAIN cuts :
              /\ ComesAfter(pieces, <<loop.from, loop.to>>) /\ loop.from = cuts[a][1] /\ a <= k - 1
              /\ loop.from < loop.to
        BY <1>8, <3>2
      <4>2. combined <= plan.max
        BY <1>2, <1>5, <1>9, <1>12, <4>1 DEF flush
      <4>3. Run(<<loop.from, s[2]>>, a, k)
        <5>1. a <= k /\ a \in Nat
          BY <1>2, <1>3, <4>1
        <5>2. ~(s[2] - loop.from > plan.max)
          BY <1>2, <1>9, <4>2
        <5>. QED BY <1>3, <4>1, <5>1, <5>2 DEF Run, s
      <4>4. ComesAfter(pieces, <<loop.from, s[2]>>)
        BY <4>1 DEF ComesAfter, Meets
      <4>. QED BY <4>3, <4>4
    <3>. QED BY <1>3, <3>1, <3>2
  <2>. QED BY <1>1, <2>1, <2>2 DEF SentenceTypes
<1>13. ASSUME flush PROVE Goal
  <2>1. k > 1
    BY <1>3, <1>7, <1>13
  <2>2. PICK a \in DOMAIN cuts :
          /\ Run(<<loop.from, loop.to>>, a, k - 1) /\ ComesAfter(pieces, <<loop.from, loop.to>>)
          /\ loop.to = cuts[k - 1][2] /\ k - 1 \in DOMAIN cuts
    BY <1>8, <2>1
  <2>3. pieces' = Append(pieces, <<loop.from, loop.to>>) /\ q = <<s[1], s[2]>>
    BY <1>6, <1>13 DEF froms
  <2>4. Chained(pieces') /\ pieces' # <<>> /\ pieces'[Len(pieces')] = <<loop.from, loop.to>>
    BY <1>1, <1>5, <2>2, <2>3, ChunkJoins
  <2>5. Run(q, k, k)
    BY <1>2, <1>3, <2>3 DEF Run, s
  <2>6. Meets(<<loop.from, loop.to>>, q)
    <3>1. (k - 1) + 1 = k
      BY <1>5 DEF k
    <3>2. s[2] - loop.from > plan.max
      BY <1>9, <1>13 DEF flush
    <3>. QED BY <1>3, <2>2, <2>3, <3>1, <3>2 DEF Meets, s
  <2>. QED BY <1>3, <2>4, <2>5, <2>6 DEF ComesAfter
<1>15. Goal
  BY <1>12, <1>13
<1> HIDE DEF q
<1>16. SentenceTypes'
  <2>1. Chained(pieces)'
    BY <1>1, <1>15 DEF Chained, Run, Meets
  <2>2. loop'.i \in 1 .. Len(cuts) + 1
    BY <1>2, <1>3, <1>11
  <2>3. loop'.to = loop'.from + loop'.chars
    BY <1>11, <1>14
  <2>. QED BY <1>1, <1>6, <1>11, <2>1, <2>2, <2>3 DEF SentenceTypes
<1>17. BuiltInv'
  <2>1. loop'.i > 1 /\ loop'.i # 1 /\ loop'.i - 1 = k
    BY <1>3, <1>11
  <2>2. <<loop'.from, loop'.to>> = q
    BY <1>11 DEF q
  <2>3. PICK a \in DOMAIN cuts : Run(q, a, k)
    BY <1>15
  <2>4. Run(<<loop.from, loop.to>>, a, loop.i - 1)'
    BY <1>1, <2>1, <2>2, <2>3 DEF Run
  <2>5. ComesAfter(pieces, <<loop.from, loop.to>>)'
    BY <1>1, <1>15, <2>2 DEF ComesAfter, Meets
  <2>. QED BY <1>1, <2>1, <2>4, <2>5 DEF BuiltInv
<1>. QED BY <1>1, <1>11, <1>16, <1>17 DEF SentenceInv

\* The last chunk never joins the one before: that one was cut because it had
\* no room for the first sentence of this one.
LEMMA FlushSentencesStep ==
  ASSUME SentenceInv, FlushSentences
  PROVE  SentenceInv'
<1>1. SentenceTypes /\ BuiltInv /\ plan' = plan
  BY DEF FlushSentences, SentenceInv
<1> DEFINE cuts == plan.cuts
           m == Len(cuts)
           s == <<loop.from, loop.to>>
           n == Len(pieces)
<1>2. InSentences(cuts) /\ m \in Nat /\ m > 0 /\ DOMAIN cuts = 1 .. m /\ plan.max \in Nat
  BY <1>1 DEF SentenceTypes, InSentences
<1>3. /\ loop.i \in Nat /\ loop.from \in Nat /\ loop.to \in Nat /\ loop.chars \in Nat
      /\ loop \in [i : Nat, from : Nat, to : Nat, chars : Nat, raw : {<<>>}, at : {"walk", "done"}]
      /\ loop.i = m + 1 /\ Chained(pieces)
      /\ pieces \in Seq(Nat \X Nat) /\ n \in Nat /\ DOMAIN pieces = 1 .. n
  <2>1. loop.i > m
    BY DEF FlushSentences
  <2>. QED BY <1>1, <1>2, <2>1 DEF SentenceTypes, Chained
<1>4. PICK a \in DOMAIN cuts : Run(s, a, m) /\ ComesAfter(pieces, s)
  <2>1. loop.i > 1 /\ loop.i - 1 = m
    BY <1>2, <1>3
  <2>. QED BY <1>1, <2>1 DEF BuiltInv
<1>5. /\ loop.from = cuts[a][1] /\ loop.to = cuts[m][2] /\ a <= m /\ m \in DOMAIN cuts
      /\ cuts[a][2] \in Nat /\ cuts[a][1] < cuts[a][2] /\ cuts[a][2] <= cuts[m][2]
  <2>1. loop.from = cuts[a][1] /\ loop.to = cuts[m][2] /\ a <= m /\ m \in DOMAIN cuts
    BY <1>4 DEF Run
  <2> HIDE DEF cuts, m
  <2>. QED BY <1>2, <2>1, SentencesApart
<1>6. loop.from < loop.to
  BY <1>3, <1>5
<1>7. n > 0 => ~(loop.to - pieces[n][1] <= plan.max)
  <2> SUFFICES ASSUME n > 0 PROVE ~(loop.to - pieces[n][1] <= plan.max)
    OBVIOUS
  <2>1. Meets(pieces[n], s)
    BY <1>3, <1>4 DEF ComesAfter
  <2>2. PICK b \in DOMAIN cuts : b + 1 \in DOMAIN cuts /\ s[1] = cuts[b + 1][1] /\ cuts[b + 1][2] - pieces[n][1] > plan.max
    BY <2>1 DEF Meets
  <2>3. b + 1 = a
    <3>1. cuts[a][1] = cuts[b + 1][1]
      BY <1>5, <2>2
    <3> HIDE DEF cuts
    <3>. QED BY <1>2, <2>2, <3>1, SentencesApart
  <2>4. cuts[a][2] - pieces[n][1] > plan.max
    BY <2>2, <2>3
  <2>5. pieces[n][1] \in Nat
    BY <1>3
  <2>6. cuts[a][2] <= loop.to
    BY <1>5
  <2>7. \A v, p, t, x \in Nat : v - p > x /\ v <= t => ~(t - p <= x)
    OBVIOUS
  <2>8. cuts[a][2] \in Nat /\ loop.to \in Nat /\ plan.max \in Nat
    BY <1>2, <1>3, <1>5
  <2> HIDE DEF cuts, n
  <2>. QED BY <2>4, <2>5, <2>6, <2>7, <2>8
<1>8. pieces' = Append(pieces, s) /\ loop' = [loop EXCEPT !.at = "done"] /\ plan.by = "sentence"
  <2>1. ~(loop.to <= loop.from)
    BY <1>3, <1>6
  <2>2. ~(/\ loop.chars < plan.min /\ n > 0
          /\ loop.to - pieces[n][1] <= plan.max)
    BY <1>7
  <2>. QED BY <2>1, <2>2 DEF FlushSentences
<1>9. Chained(pieces') /\ pieces' # <<>> /\ pieces'[Len(pieces')] = s
  <2>1. s \in Nat \X Nat
    BY <1>3
  <2> HIDE DEF s
  <2>. QED BY <1>1, <1>4, <1>5, <1>8, <2>1, ChunkJoins
<1>10. /\ loop' \in [i : Nat, from : Nat, to : Nat, chars : Nat, raw : {<<>>}, at : {"walk", "done"}]
       /\ loop'.i = loop.i /\ loop'.from = loop.from /\ loop'.to = loop.to /\ loop'.chars = loop.chars
       /\ loop'.at = "done"
  BY <1>3, <1>8
<1>11. SentenceTypes'
  <2>1. Chained(pieces)'
    BY <1>1, <1>9 DEF Chained, Run, Meets
  <2>. QED BY <1>1, <1>8, <1>10, <2>1 DEF SentenceTypes
<1>12. pieces'[Len(pieces')][2] = cuts[m][2]
  BY <1>5, <1>9
<1>. QED BY <1>1, <1>9, <1>10, <1>11, <1>12 DEF SentenceInv

\* A chunk is found by its sentences, and the next opens with the sentence after.
LEMMA SentencesWhole ==
  ASSUME SentenceInv
  PROVE  SentencesStayWhole
<1> SUFFICES ASSUME plan.by = "sentence" PROVE SentencesStayWhole
  BY DEF SentencesStayWhole
<1> DEFINE cuts == plan.cuts
           Begins(span) == CHOOSE a \in DOMAIN cuts : cuts[a][1] = span[1]
<1>1. /\ SentenceTypes /\ InSentences(cuts) /\ Chained(pieces)
      /\ loop.to = loop.from + loop.chars /\ loop.from \in Nat /\ loop.to \in Nat /\ loop.chars \in Nat
      /\ cuts \in Seq(Nat \X Nat) /\ pieces \in Seq(Nat \X Nat)
      /\ DOMAIN pieces = 1 .. Len(pieces) /\ Len(pieces) \in Nat
  BY DEF SentenceInv, SentenceTypes, InSentences, Chained
<1>2. ASSUME NEW i \in DOMAIN pieces, i + 1 \in DOMAIN pieces
      PROVE  \E b \in DOMAIN cuts :
               /\ b + 1 \in DOMAIN cuts /\ pieces[i][2] = cuts[b][2] /\ pieces[i + 1][1] = cuts[b + 1][1]
               /\ Begins(pieces[i + 1]) = b + 1 /\ cuts[b + 1][2] - pieces[i][1] > plan.max
  <2>1. Meets(pieces[i], pieces[i + 1])
    BY <1>1, <1>2 DEF Chained
  <2>2. PICK b \in DOMAIN cuts :
          /\ b + 1 \in DOMAIN cuts /\ pieces[i][2] = cuts[b][2] /\ pieces[i + 1][1] = cuts[b + 1][1]
          /\ cuts[b + 1][2] - pieces[i][1] > plan.max
    BY <2>1 DEF Meets
  <2>3. \A a \in DOMAIN cuts : cuts[a][1] = pieces[i + 1][1] => a = b + 1
    <3> HIDE DEF cuts
    <3>. QED BY <1>1, <2>2, SentencesApart
  <2>4. Begins(pieces[i + 1]) = b + 1
    <3> HIDE DEF cuts
    <3>. QED BY <2>2, <2>3
  <2>. QED BY <2>2, <2>4
<1>3. ASSUME NEW i \in DOMAIN pieces
      PROVE  /\ \E a, b \in DOMAIN cuts :
                  /\ a <= b /\ pieces[i] = <<cuts[a][1], cuts[b][2]>>
                  /\ pieces[i][2] - pieces[i][1] > plan.max => a = b
                  /\ i = 1 => a = 1
                  /\ i + 1 \in DOMAIN pieces => b + 1 \in DOMAIN cuts /\ pieces[i + 1][1] = cuts[b + 1][1]
             /\ i + 1 \in DOMAIN pieces => cuts[Begins(pieces[i + 1])][2] - pieces[i][1] > plan.max
  <2>1. PICK a \in DOMAIN cuts, b \in DOMAIN cuts : Run(pieces[i], a, b) /\ (i = 1 => a = 1)
    BY <1>1 DEF Chained
  <2>2. /\ a <= b /\ pieces[i] = <<cuts[a][1], cuts[b][2]>> /\ pieces[i][2] = cuts[b][2]
        /\ pieces[i][2] - pieces[i][1] > plan.max => a = b
    BY <2>1 DEF Run
  <2>3. i + 1 \in DOMAIN pieces => /\ b + 1 \in DOMAIN cuts /\ pieces[i + 1][1] = cuts[b + 1][1]
                                   /\ cuts[Begins(pieces[i + 1])][2] - pieces[i][1] > plan.max
    <3> SUFFICES ASSUME i + 1 \in DOMAIN pieces
                 PROVE  /\ b + 1 \in DOMAIN cuts /\ pieces[i + 1][1] = cuts[b + 1][1]
                        /\ cuts[Begins(pieces[i + 1])][2] - pieces[i][1] > plan.max
      OBVIOUS
    <3> HIDE DEF Begins
    <3>1. PICK c \in DOMAIN cuts :
            /\ c + 1 \in DOMAIN cuts /\ pieces[i][2] = cuts[c][2] /\ pieces[i + 1][1] = cuts[c + 1][1]
            /\ Begins(pieces[i + 1]) = c + 1 /\ cuts[c + 1][2] - pieces[i][1] > plan.max
      BY <1>2
    <3>2. cuts[b][2] = cuts[c][2]
      BY <2>2, <3>1
    <3>3. b = c
      <4> HIDE DEF cuts
      <4>. QED BY <1>1, <3>2, SentencesApart
    <3>. QED BY <3>1, <3>3
  <2>. QED BY <2>1, <2>2, <2>3
<1>4. loop.chars = loop.to - loop.from
  BY <1>1
<1>5. Done => Len(pieces) > 0 /\ pieces[Len(pieces)][2] = cuts[Len(cuts)][2]
  BY <1>1 DEF Done, SentenceInv
<1>. QED BY <1>3, <1>4, <1>5 DEF SentencesStayWhole

-----------------------------------------------------------------------------
(* What the windows are of                                                 *)

\* Where the characters start: there is a function as ByteAt defines it.
Places(f, t, n) == f = [k \in 0 .. n |-> IF k = 0 THEN 0 ELSE f[k - 1] + Width(t[k])]

\* There is one for a text of any length.
LEMMA PlacesExist ==
  ASSUME NEW t, NEW n \in Nat
  PROVE  \E f : Places(f, t, n)
<1> DEFINE T == {m \in Nat : \E f : Places(f, t, m)}
<1>1. 0 \in T
  <2>1. Places([k \in 0 .. 0 |-> 0], t, 0)
    BY DEF Places
  <2>. QED BY <2>1
<1>2. ASSUME NEW m \in Nat, m \in T PROVE m + 1 \in T
  <2>1. PICK f : Places(f, t, m)
    BY <1>2
  <2> DEFINE g == [k \in 0 .. m + 1 |-> IF k <= m THEN f[k] ELSE f[m] + Width(t[k])]
  <2>2. ASSUME NEW k \in 0 .. m + 1
        PROVE  g[k] = IF k = 0 THEN 0 ELSE g[k - 1] + Width(t[k])
    <3>1. CASE k = 0
      <4>1. f[0] = 0
        BY <2>1 DEF Places
      <4>. QED BY <3>1, <4>1
    <3>2. CASE k # 0 /\ k <= m
      <4>1. k - 1 \in 0 .. m /\ k \in 0 .. m /\ k - 1 \in 0 .. m + 1
        BY <3>2
      <4>2. f[k] = f[k - 1] + Width(t[k])
        BY <2>1, <3>2, <4>1 DEF Places
      <4>. QED BY <3>2, <4>1, <4>2
    <3>3. CASE k = m + 1
      BY <3>3
    <3>. QED BY <3>1, <3>2, <3>3
  <2>3. Places(g, t, m + 1)
    <3>1. g = [k \in 0 .. m + 1 |-> g[k]]
      OBVIOUS
    <3> HIDE DEF g
    <3>. QED BY <2>2, <3>1 DEF Places
  <2>. QED BY <2>3
<1>3. Nat \subseteq T
  <2> HIDE DEF T
  <2>. QED BY <1>1, <1>2, Inductive
<1>. QED BY <1>3

\* Characters take a byte or two, so that a later one starts later.
LEMMA BytesRise ==
  ASSUME NEW t, Len(t) \in Nat
  PROVE  /\ DOMAIN ByteAt(t) = 0 .. Len(t) /\ ByteAt(t)[0] = 0
         /\ \A k \in 1 .. Len(t) : ByteAt(t)[k] = ByteAt(t)[k - 1] + Width(t[k])
         /\ \A k \in 0 .. Len(t) : ByteAt(t)[k] \in Nat
         /\ \A i, j \in 0 .. Len(t) : i < j <=> ByteAt(t)[i] < ByteAt(t)[j]
<1> DEFINE n == Len(t)
           place == ByteAt(t)
<1>1. Places(place, t, n)
  <2>1. \E f : Places(f, t, n)
    BY PlacesExist
  <2>2. place = CHOOSE f : Places(f, t, n)
    BY DEF ByteAt, Places
  <2> HIDE DEF place
  <2>. QED BY <2>1, <2>2
<1> HIDE DEF place
<1>2. DOMAIN place = 0 .. n /\ place[0] = 0 /\ \A k \in 1 .. n : place[k] = place[k - 1] + Width(t[k])
  BY <1>1 DEF Places
<1>3. \A k \in 1 .. n : Width(t[k]) \in {1, 2}
  BY DEF Width
<1>4. \A k \in 0 .. n : place[k] \in Nat
  <2> DEFINE T == {k \in Nat : k <= n => place[k] \in Nat}
  <2>1. 0 \in T
    BY <1>2
  <2>2. ASSUME NEW k \in Nat, k \in T PROVE k + 1 \in T
    <3> SUFFICES ASSUME k + 1 <= n PROVE place[k + 1] \in Nat
      OBVIOUS
    <3>1. k + 1 \in 1 .. n /\ (k + 1) - 1 = k /\ place[k] \in Nat
      BY <2>2
    <3>2. place[k + 1] = place[k] + Width(t[k + 1])
      BY <1>2, <3>1
    <3>. QED BY <1>3, <3>1, <3>2
  <2>3. Nat \subseteq T
    <3> HIDE DEF T
    <3>. QED BY <2>1, <2>2, Inductive
  <2>. QED BY <2>3
<1>5. ASSUME NEW i \in 0 .. n PROVE \A j \in 0 .. n : i < j => place[i] < place[j]
  <2> DEFINE T == {k \in Nat : i < k /\ k <= n => place[i] < place[k]}
  <2>1. 0 \in T
    OBVIOUS
  <2>2. ASSUME NEW k \in Nat, k \in T PROVE k + 1 \in T
    <3> SUFFICES ASSUME i < k + 1, k + 1 <= n PROVE place[i] < place[k + 1]
      OBVIOUS
    <3>1. k + 1 \in 1 .. n /\ (k + 1) - 1 = k /\ k \in 0 .. n
      OBVIOUS
    <3>2. place[k + 1] = place[k] + Width(t[k + 1]) /\ Width(t[k + 1]) \in {1, 2}
      BY <1>2, <1>3, <3>1
    <3>3. place[i] \in Nat /\ place[k] \in Nat
      BY <1>4, <3>1
    <3>4. i = k \/ place[i] < place[k]
      BY <2>2, <3>1
    <3>. QED BY <3>2, <3>3, <3>4
  <2>3. Nat \subseteq T
    <3> HIDE DEF T
    <3>. QED BY <2>1, <2>2, Inductive
  <2>. QED BY <2>3
<1>6. \A i, j \in 0 .. n : i < j <=> place[i] < place[j]
  <2> SUFFICES ASSUME NEW i \in 0 .. n, NEW j \in 0 .. n PROVE i < j <=> place[i] < place[j]
    OBVIOUS
  <2>1. (i < j => place[i] < place[j]) /\ (j < i => place[j] < place[i])
    BY <1>5
  <2>2. place[i] \in Nat /\ place[j] \in Nat /\ (i < j \/ i = j \/ j < i)
    BY <1>4
  <2>. QED BY <2>1, <2>2
<1>. QED BY <1>2, <1>4, <1>6 DEF place

\* A text behind another keeps its characters.
LEMMA OneAfterAnother ==
  ASSUME NEW S, NEW p \in Seq(S), NEW t \in Seq(S)
  PROVE  /\ p \o t \in Seq(S) /\ Len(p \o t) = Len(p) + Len(t) /\ Len(t) \in Nat
         /\ \A i \in 1 .. Len(p) : (p \o t)[i] = p[i]
         /\ \A i \in 1 .. Len(t) : (p \o t)[i + Len(p)] = t[i]
OBVIOUS

\* With the prefix every character starts two bytes later.
LEMMA PrefixShifts ==
  ASSUME NEW t \in Seq({"letter", "wide", "space"})
  PROVE  /\ Len(Prefix) = 2 /\ Len(Prefix \o t) = 2 + Len(t)
         /\ ByteAt(Prefix \o t)[2] = 2
         /\ \A c \in 0 .. Len(t) : ByteAt(Prefix \o t)[c + 2] = ByteAt(t)[c] + 2
<1> DEFINE n == Len(t)
           u == Prefix \o t
           own == ByteAt(t)
           place == ByteAt(u)
<1>1. /\ n \in Nat /\ Len(Prefix) = 2 /\ Len(u) = 2 + n
      /\ u[1] = "letter" /\ u[2] = "space" /\ \A c \in 1 .. n : u[c + 2] = t[c]
  <2>1. Prefix \in Seq({"letter", "wide", "space"}) /\ Len(Prefix) = 2 /\ Prefix[1] = "letter" /\ Prefix[2] = "space"
    BY DEF Prefix
  <2>2. PICK p \in Seq({"letter", "wide", "space"}) : p = Prefix
    BY <2>1
  <2>3. /\ Len(p \o t) = Len(p) + Len(t) /\ Len(t) \in Nat
        /\ \A i \in 1 .. Len(p) : (p \o t)[i] = p[i]
        /\ \A i \in 1 .. Len(t) : (p \o t)[i + Len(p)] = t[i]
    BY OneAfterAnother
  <2>4. Len(p) = 2 /\ p[1] = "letter" /\ p[2] = "space" /\ u = p \o t
    BY <2>1, <2>2
  <2> HIDE DEF u
  <2>. QED BY <2>1, <2>3, <2>4
<1> HIDE DEF u
<1>2. /\ own[0] = 0 /\ \A k \in 1 .. n : own[k] = own[k - 1] + Width(t[k])
      /\ \A k \in 0 .. n : own[k] \in Nat
  BY <1>1, BytesRise
<1>3. Len(u) \in Nat
  BY <1>1
<1>4. place[0] = 0 /\ \A k \in 1 .. Len(u) : place[k] = place[k - 1] + Width(u[k])
  BY <1>3, BytesRise
<1> HIDE DEF own, place
<1>5. place[2] = 2
  <2>1. 1 \in 1 .. Len(u) /\ 2 \in 1 .. Len(u) /\ 1 - 1 = 0 /\ 2 - 1 = 1
    BY <1>1
  <2>2. place[1] = place[0] + Width(u[1]) /\ place[2] = place[1] + Width(u[2])
    BY <1>4, <2>1
  <2>. QED BY <1>1, <1>4, <2>2 DEF Width
<1>6. \A c \in 0 .. n : place[c + 2] = own[c] + 2
  <2> DEFINE T == {c \in Nat : c <= n => place[c + 2] = own[c] + 2}
  <2>1. 0 \in T
    BY <1>2, <1>5
  <2>2. ASSUME NEW c \in Nat, c \in T PROVE c + 1 \in T
    <3> SUFFICES ASSUME c + 1 <= n PROVE place[(c + 1) + 2] = own[c + 1] + 2
      OBVIOUS
    <3>1. c + 1 \in 1 .. n /\ (c + 1) - 1 = c /\ (c + 1) + 2 \in 1 .. Len(u) /\ ((c + 1) + 2) - 1 = c + 2
      BY <1>1
    <3>2. place[(c + 1) + 2] = place[c + 2] + Width(t[c + 1])
      BY <1>1, <1>4, <3>1
    <3>3. own[c + 1] = own[c] + Width(t[c + 1])
      BY <1>2, <3>1
    <3>4. place[c + 2] = own[c] + 2 /\ own[c] \in Nat
      BY <1>1, <1>2, <2>2
    <3>5. Width(t[c + 1]) \in Nat
      BY DEF Width
    <3>. QED BY <3>2, <3>3, <3>4, <3>5
  <2>3. Nat \subseteq T
    <3> HIDE DEF T
    <3>. QED BY <2>1, <2>2, Inductive
  <2>. QED BY <2>3
<1>. QED BY <1>1, <1>5, <1>6 DEF own, place, u

\* Spans of a text of n characters, in order: the first may be empty.
Reported(tokens, n) ==
  /\ tokens \in Seq(Nat \X Nat)
  /\ \A k \in DOMAIN tokens :
       /\ tokens[k][1] <= tokens[k][2] /\ tokens[k][2] <= n
       /\ k > 1 => tokens[k][1] < tokens[k][2]
  /\ \A a, b \in DOMAIN tokens : a < b => tokens[a][1] <= tokens[b][1] /\ tokens[a][2] <= tokens[b][2]

\* Two words have a space between them.
LEMMA WordsReported ==
  ASSUME NEW text, Len(text) \in Nat
  PROVE  /\ Reported(TokenSpans(text), Len(text))
         /\ \A k \in DOMAIN TokenSpans(text) : TokenSpans(text)[k][1] < TokenSpans(text)[k][2]
<1> DEFINE n == Len(text)
           Word(a, b) ==
             /\ a < b /\ \A i \in a + 1 .. b : text[i] # "space"
             /\ a = 0 \/ text[a] = "space"
             /\ b = n \/ text[b + 1] = "space"
           all == (0 .. n) \X (0 .. n)
           words == {s \in all : Word(s[1], s[2])}
           Nth(k) == CHOOSE s \in words : Cardinality({t \in words : t[1] < s[1]}) = k - 1
           m == Cardinality(words)
           R == {p \in words \X words : p[1][1] < p[2][1]}
<1>1. IsFiniteSet(words) /\ m \in Nat
  <2>1. IsFiniteSet(all)
    <3>1. IsFiniteSet(0 .. n)
      BY FS_Interval
    <3>. QED BY <3>1, FS_Product
  <2>2. words \subseteq all
    OBVIOUS
  <2> HIDE DEF words, all
  <2>. QED BY <2>1, <2>2, FS_Subset, FS_CardinalityType
<1>2. ASSUME NEW s \in words
      PROVE  s[1] \in Nat /\ s[2] \in Nat /\ s[1] < s[2] /\ s[2] <= n /\ Word(s[1], s[2])
  OBVIOUS
<1>3. ASSUME NEW s \in words, NEW t \in words, s[1] < t[1]
      PROVE  s[2] <= t[1]
  <2> SUFFICES ASSUME t[1] < s[2] PROVE FALSE
    BY <1>2
  <2>1. t[1] \in s[1] + 1 .. s[2] /\ t[1] # 0
    BY <1>2, <1>3
  <2>2. text[t[1]] # "space"
    BY <2>1
  <2>3. text[t[1]] = "space"
    BY <2>1
  <2>. QED BY <2>2, <2>3
<1>4. ASSUME NEW s \in words, NEW t \in words, s[1] = t[1]
      PROVE  s[2] <= t[2]
  <2> SUFFICES ASSUME t[2] < s[2] PROVE FALSE
    BY <1>2
  <2>1. t[2] + 1 \in s[1] + 1 .. s[2] /\ t[2] # n
    BY <1>2, <1>4
  <2>2. text[t[2] + 1] # "space"
    BY <2>1
  <2>3. text[t[2] + 1] = "space"
    BY <2>1
  <2>. QED BY <2>2, <2>3
<1>5. Orders(R, words)
  <2>1. \A s, t \in words : <<s, t>> \in R <=> s[1] < t[1]
    OBVIOUS
  <2>2. \A s, t \in words : s # t => s[1] # t[1]
    <3> SUFFICES ASSUME NEW s \in words, NEW t \in words, s[1] = t[1] PROVE s = t
      OBVIOUS
    <3>1. s[2] <= t[2] /\ t[2] <= s[2]
      <4> HIDE DEF words
      <4>. QED BY <1>4
    <3>2. s[2] = t[2]
      BY <1>2, <3>1
    <3>. QED BY <3>2
  <2>3. \A s \in words : s[1] \in Nat
    BY <1>2
  <2> HIDE DEF words, R
  <2>. QED BY <2>1, <2>2, <2>3 DEF Orders
<1>6. \A s \in words : Below(R, words, s) = {t \in words : t[1] < s[1]}
  <2> HIDE DEF words
  <2>. QED BY DEF Below
<1>7. /\ \A i \in 0 .. m - 1 : \E s \in words : Cardinality(Below(R, words, s)) = i
      /\ \A s, t \in words : Cardinality(Below(R, words, s)) < Cardinality(Below(R, words, t)) <=> <<s, t>> \in R
  <2> HIDE DEF words, R
  <2>1. PICK S, Q : S = words /\ Q = R
    OBVIOUS
  <2>2. IsFiniteSet(S) /\ Orders(Q, S)
    BY <1>1, <1>5, <2>1
  <2>3. /\ \A i \in 0 .. Cardinality(S) - 1 : \E s \in S : Cardinality(Below(Q, S, s)) = i
        /\ \A s, t \in S : Cardinality(Below(Q, S, s)) < Cardinality(Below(Q, S, t)) <=> <<s, t>> \in Q
    BY <2>2, RowsAreNumbered
  <2>. QED BY <2>1, <2>3
<1>8. \A k \in 1 .. m : Nth(k) \in words /\ Cardinality({t \in words : t[1] < Nth(k)[1]}) = k - 1
  <2> SUFFICES ASSUME NEW k \in 1 .. m
               PROVE  Nth(k) \in words /\ Cardinality({t \in words : t[1] < Nth(k)[1]}) = k - 1
    OBVIOUS
  <2>1. k - 1 \in 0 .. m - 1
    BY <1>1
  <2>2. \E s \in words : Cardinality({t \in words : t[1] < s[1]}) = k - 1
    <3> HIDE DEF words, R, m
    <3>. QED BY <1>6, <1>7, <2>1
  <2> HIDE DEF words
  <2>. QED BY <2>2
<1>9. \A a, b \in 1 .. m : a < b => Nth(a)[1] < Nth(b)[1]
  <2> SUFFICES ASSUME NEW a \in 1 .. m, NEW b \in 1 .. m, a < b PROVE Nth(a)[1] < Nth(b)[1]
    OBVIOUS
  <2>1. a - 1 < b - 1
    <3> HIDE DEF m
    <3>. QED BY <1>1
  <2> HIDE DEF words, Nth, m
  <2>2. Nth(a) \in words /\ Nth(b) \in words
    BY <1>8
  <2>3. Cardinality(Below(R, words, Nth(a))) = a - 1 /\ Cardinality(Below(R, words, Nth(b))) = b - 1
    <3> HIDE DEF R
    <3>. QED BY <1>6, <1>8, <2>2
  <2>4. <<Nth(a), Nth(b)>> \in R
    <3> HIDE DEF R
    <3>. QED BY <1>7, <2>1, <2>2, <2>3
  <2>. QED BY <2>4
<1> DEFINE spans == [k \in 1 .. m |-> Nth(k)]
<1>10. TokenSpans(text) = spans
  BY DEF TokenSpans
<1>11. \A s \in words : s \in Nat \X Nat /\ s[1] \in Nat /\ s[2] \in Nat /\ s[1] < s[2] /\ s[2] <= n
  BY <1>2
<1>12. /\ spans \in Seq(Nat \X Nat) /\ DOMAIN spans = 1 .. m
       /\ \A k \in 1 .. m : spans[k] = Nth(k) /\ Nth(k) \in words
  <2> HIDE DEF words, Nth, m
  <2>1. \A k \in 1 .. m : Nth(k) \in words /\ Nth(k) \in Nat \X Nat
    BY <1>8, <1>11
  <2>2. spans \in Seq(Nat \X Nat)
    BY <1>1, <2>1
  <2>. QED BY <2>1, <2>2
<1>13. \A a, b \in 1 .. m : a < b => spans[a][1] <= spans[b][1] /\ spans[a][2] <= spans[b][2]
  <2> SUFFICES ASSUME NEW a \in 1 .. m, NEW b \in 1 .. m, a < b
               PROVE  spans[a][1] <= spans[b][1] /\ spans[a][2] <= spans[b][2]
    OBVIOUS
  <2> HIDE DEF words, Nth, m, spans
  <2>1. PICK s \in words, t \in words : s = Nth(a) /\ t = Nth(b) /\ spans[a] = s /\ spans[b] = t
    BY <1>12
  <2>2. s[1] < t[1]
    BY <1>9, <2>1
  <2>3. s[2] <= t[1]
    BY <1>3, <2>2
  <2>. QED BY <1>11, <2>1, <2>2, <2>3
<1> HIDE DEF words, Nth, m, spans
<1>14. \A k \in DOMAIN spans : spans[k][1] < spans[k][2] /\ spans[k][1] <= spans[k][2] /\ spans[k][2] <= n
  BY <1>11, <1>12
<1>15. Reported(spans, n)
  BY <1>12, <1>13, <1>14 DEF Reported
<1>. QED BY <1>10, <1>14, <1>15

\* A string cut anywhere: tokens none of which is empty.
PlainSpans(tokens, n) ==
  Reported(tokens, n) /\ Len(tokens) > 0 /\ \A k \in DOMAIN tokens : tokens[k][1] < tokens[k][2]

\* A string cut anywhere: tokens in order, each of some characters.
LEMMA CutsReported ==
  ASSUME NEW n \in Nat \ {0}, NEW ends \in SUBSET (1 .. n), ends # {}
  PROVE  PlainSpans([k \in 1 .. Cardinality(ends) |-> <<IF k = 1 THEN 0 ELSE NthOf(ends, k - 1), NthOf(ends, k)>>], n)
<1> DEFINE m == Cardinality(ends)
           From(k) == IF k = 1 THEN 0 ELSE NthOf(ends, k - 1)
           spans == [k \in 1 .. m |-> <<From(k), NthOf(ends, k)>>]
<1>1. ends \in SUBSET Nat /\ IsFiniteSet(ends)
  <2>1. IsFiniteSet(1 .. n) /\ ends \subseteq 1 .. n
    BY FS_Interval
  <2>2. IsFiniteSet(ends)
    BY <2>1, FS_Subset
  <2>3. ends \in SUBSET Nat
    OBVIOUS
  <2>. QED BY <2>2, <2>3
<1>2. /\ m \in Nat /\ m > 0
      /\ \A k \in 1 .. m : NthOf(ends, k) \in ends
      /\ \A a, b \in 1 .. m : a < b => NthOf(ends, a) < NthOf(ends, b)
  <2>1. PICK E \in SUBSET Nat : E = ends
    BY <1>1
  <2>2. IsFiniteSet(E) /\ E # {}
    BY <1>1, <2>1
  <2>3. /\ Cardinality(E) \in Nat /\ Cardinality(E) > 0
        /\ \A k \in 1 .. Cardinality(E) :
             NthOf(E, k) \in E /\ Cardinality({q \in E : q < NthOf(E, k)}) = k - 1
        /\ \A a, b \in 1 .. Cardinality(E) : a < b => NthOf(E, a) < NthOf(E, b)
    BY <2>2, NumbersInOrder
  <2>. QED BY <2>1, <2>3
<1>3. \A k \in 1 .. m : NthOf(ends, k) \in 1 .. n
  BY <1>2
<1> HIDE DEF m
<1>4. \A k \in 1 .. m : From(k) \in Nat /\ From(k) < NthOf(ends, k)
  <2> SUFFICES ASSUME NEW k \in 1 .. m PROVE From(k) \in Nat /\ From(k) < NthOf(ends, k)
    OBVIOUS
  <2>1. CASE k = 1
    BY <1>3, <2>1
  <2>2. CASE k # 1
    <3>1. k - 1 \in 1 .. m /\ k - 1 < k
      BY <1>2, <2>2
    <3>2. NthOf(ends, k - 1) < NthOf(ends, k) /\ NthOf(ends, k - 1) \in Nat
      BY <1>2, <1>3, <3>1
    <3>. QED BY <2>2, <3>2
  <2>. QED BY <2>1, <2>2
<1>5. \A a, b \in 1 .. m : a < b => From(a) <= From(b) /\ NthOf(ends, a) <= NthOf(ends, b)
  <2> SUFFICES ASSUME NEW a \in 1 .. m, NEW b \in 1 .. m, a < b
               PROVE  From(a) <= From(b) /\ NthOf(ends, a) <= NthOf(ends, b)
    OBVIOUS
  <2>1. NthOf(ends, a) < NthOf(ends, b) /\ NthOf(ends, a) \in Nat /\ NthOf(ends, b) \in Nat
    BY <1>2, <1>3
  <2>2. CASE a = 1
    <3>1. From(a) = 0 /\ From(b) \in Nat
      BY <1>4, <2>2
    <3> HIDE DEF From
    <3>. QED BY <2>1, <3>1
  <2>3. CASE a # 1
    <3>1. a - 1 \in 1 .. m /\ b - 1 \in 1 .. m /\ a - 1 < b - 1 /\ b # 1
      BY <1>2, <2>3
    <3>2. NthOf(ends, a - 1) < NthOf(ends, b - 1) /\ NthOf(ends, a - 1) \in Nat /\ NthOf(ends, b - 1) \in Nat
      BY <1>2, <1>3, <3>1
    <3>3. From(a) = NthOf(ends, a - 1) /\ From(b) = NthOf(ends, b - 1)
      BY <2>3, <3>1
    <3> HIDE DEF From
    <3>. QED BY <2>1, <3>2, <3>3
  <2>. QED BY <2>2, <2>3
<1> HIDE DEF From
<1>6. /\ spans \in Seq(Nat \X Nat) /\ Len(spans) = m /\ DOMAIN spans = 1 .. m
      /\ \A k \in 1 .. m : spans[k][1] = From(k) /\ spans[k][2] = NthOf(ends, k)
  <2>1. \A k \in 1 .. m : <<From(k), NthOf(ends, k)>> \in Nat \X Nat
    BY <1>3, <1>4
  <2>2. spans \in Seq(Nat \X Nat) /\ Len(spans) = m
    BY <1>2, <2>1
  <2>. QED BY <2>2
<1> HIDE DEF spans
<1>7. \A k \in DOMAIN spans : spans[k][1] < spans[k][2] /\ spans[k][1] <= spans[k][2] /\ spans[k][2] <= n
  <2> SUFFICES ASSUME NEW k \in 1 .. m
               PROVE  spans[k][1] < spans[k][2] /\ spans[k][1] <= spans[k][2] /\ spans[k][2] <= n
    BY <1>6
  <2>1. From(k) \in Nat /\ From(k) < NthOf(ends, k) /\ NthOf(ends, k) \in 1 .. n
    BY <1>3, <1>4
  <2>. QED BY <1>6, <2>1
<1>8. PlainSpans(spans, n)
  BY <1>2, <1>5, <1>6, <1>7 DEF PlainSpans, Reported
<1>. QED BY <1>8 DEF spans, From, m

\* A special token in front, or a last one reported twice, are still in order.
LEMMA TokensReported ==
  ASSUME NEW n \in Nat \ {0}, NEW tokens \in Tokenizations(n)
  PROVE  Reported(tokens, n)
<1> DEFINE Of(ends) == [k \in 1 .. Cardinality(ends) |-> <<IF k = 1 THEN 0 ELSE NthOf(ends, k - 1), NthOf(ends, k)>>]
           plain == {Of(ends \cup {n}) : ends \in SUBSET (1 .. n - 1)}
<1>1. \A s \in plain : PlainSpans(s, n)
  <2> SUFFICES ASSUME NEW ends \in SUBSET (1 .. n - 1) PROVE PlainSpans(Of(ends \cup {n}), n)
    OBVIOUS
  <2>1. ends \cup {n} \in SUBSET (1 .. n) /\ ends \cup {n} # {}
    OBVIOUS
  <2>. QED BY <2>1, CutsReported
<1>2. tokens \in plain \cup {<<<<0, 0>>>> \o s : s \in plain} \cup {Append(s, s[Len(s)]) : s \in plain}
  BY DEF Tokenizations, NthOf
<1> HIDE DEF plain
<1>3. CASE tokens \in plain
  BY <1>1, <1>3 DEF PlainSpans
<1>4. ASSUME NEW s \in plain, tokens = <<<<0, 0>>>> \o s
      PROVE  Reported(tokens, n)
  <2>1. PlainSpans(s, n) /\ s \in Seq(Nat \X Nat) /\ DOMAIN s = 1 .. Len(s) /\ Len(s) \in Nat
    BY <1>1 DEF PlainSpans, Reported
  <2>2. PICK p \in Seq(Nat \X Nat) : p = <<<<0, 0>>>>
    <3>1. <<0, 0>> \in Nat \X Nat
      OBVIOUS
    <3>2. <<<<0, 0>>>> \in Seq(Nat \X Nat)
      BY <3>1
    <3>. QED BY <3>2
  <2>3. /\ p \o s \in Seq(Nat \X Nat) /\ Len(p \o s) = Len(p) + Len(s)
        /\ \A i \in 1 .. Len(p) : (p \o s)[i] = p[i]
        /\ \A i \in 1 .. Len(s) : (p \o s)[i + Len(p)] = s[i]
    BY <2>1, OneAfterAnother
  <2>4. Len(p) = 1 /\ p[1] = <<0, 0>> /\ tokens = p \o s
    BY <1>4, <2>2
  <2>5. /\ tokens \in Seq(Nat \X Nat) /\ DOMAIN tokens = 1 .. Len(s) + 1 /\ tokens[1] = <<0, 0>>
        /\ \A k \in 2 .. Len(s) + 1 : k - 1 \in DOMAIN s /\ tokens[k] = s[k - 1]
    <3>1. tokens \in Seq(Nat \X Nat) /\ Len(tokens) = Len(s) + 1 /\ tokens[1] = <<0, 0>>
      BY <2>1, <2>3, <2>4
    <3>2. ASSUME NEW k \in 2 .. Len(s) + 1 PROVE k - 1 \in DOMAIN s /\ tokens[k] = s[k - 1]
      <4>1. k - 1 \in 1 .. Len(s) /\ (k - 1) + Len(p) = k
        BY <2>1, <2>4
      <4>. QED BY <2>1, <2>3, <2>4, <4>1
    <3>. QED BY <2>1, <3>1, <3>2
  <2>6. \A k \in DOMAIN s : s[k][1] \in Nat /\ s[k][2] \in Nat /\ s[k][1] < s[k][2] /\ s[k][2] <= n
    BY <2>1 DEF PlainSpans, Reported
  <2>7. ASSUME NEW k \in DOMAIN tokens
        PROVE  /\ tokens[k][1] <= tokens[k][2] /\ tokens[k][2] <= n
               /\ k > 1 => tokens[k][1] < tokens[k][2]
    <3>1. CASE k = 1
      BY <2>5, <3>1
    <3>2. CASE k \in 2 .. Len(s) + 1
      <4>1. PICK i \in DOMAIN s : tokens[k] = s[i]
        BY <2>5, <3>2
      <4>. QED BY <2>6, <4>1
    <3>. QED BY <2>1, <2>5, <3>1, <3>2
  <2>8. ASSUME NEW a \in DOMAIN tokens, NEW b \in DOMAIN tokens, a < b
        PROVE  tokens[a][1] <= tokens[b][1] /\ tokens[a][2] <= tokens[b][2]
    <3>1. b \in 2 .. Len(s) + 1
      BY <2>1, <2>5, <2>8
    <3>2. b - 1 \in DOMAIN s /\ tokens[b] = s[b - 1]
      BY <2>5, <3>1
    <3>3. CASE a = 1
      <4>1. s[b - 1][1] \in Nat /\ s[b - 1][2] \in Nat
        BY <2>6, <3>2
      <4>. QED BY <2>5, <3>2, <3>3, <4>1
    <3>4. CASE a \in 2 .. Len(s) + 1
      <4>1. a - 1 \in DOMAIN s /\ tokens[a] = s[a - 1]
        BY <2>5, <3>4
      <4>0. a - 1 < b - 1
        BY <2>8, <3>1, <3>4
      <4>2. s[a - 1][1] <= s[b - 1][1] /\ s[a - 1][2] <= s[b - 1][2]
        BY <2>1, <3>2, <4>0, <4>1 DEF PlainSpans, Reported
      <4>. QED BY <3>2, <4>1, <4>2
    <3>. QED BY <2>1, <2>5, <3>3, <3>4
  <2>. QED BY <2>5, <2>7, <2>8 DEF Reported
<1>5. ASSUME NEW s \in plain, tokens = Append(s, s[Len(s)])
      PROVE  Reported(tokens, n)
  <2>1. PlainSpans(s, n) /\ s \in Seq(Nat \X Nat) /\ DOMAIN s = 1 .. Len(s) /\ Len(s) \in Nat /\ Len(s) \in DOMAIN s
    BY <1>1 DEF PlainSpans, Reported
  <2>2. /\ tokens \in Seq(Nat \X Nat) /\ DOMAIN tokens = 1 .. Len(s) + 1 /\ tokens[Len(s) + 1] = s[Len(s)]
        /\ \A k \in 1 .. Len(s) : tokens[k] = s[k]
    <3>1. PICK e \in Nat \X Nat : e = s[Len(s)]
      BY <2>1
    <3>2. tokens = Append(s, e)
      BY <1>5, <3>1
    <3>. QED BY <2>1, <3>1, <3>2
  <2>3. \A k \in DOMAIN s : s[k][1] \in Nat /\ s[k][2] \in Nat /\ s[k][1] < s[k][2] /\ s[k][2] <= n
    BY <2>1 DEF PlainSpans, Reported
  <2> DEFINE m == Len(s)
             Spot(k) == IF k <= m THEN k ELSE m
  <2>4. \A k \in 1 .. m + 1 : Spot(k) \in DOMAIN s /\ tokens[k] = s[Spot(k)]
    <3> SUFFICES ASSUME NEW k \in 1 .. m + 1 PROVE Spot(k) \in DOMAIN s /\ tokens[k] = s[Spot(k)]
      OBVIOUS
    <3>1. CASE k = m + 1
      <4>1. Spot(k) = m
        <5>1. m \in Nat /\ ~(k <= m)
          <6> HIDE DEF m
          <6>. QED BY <2>1, <3>1 DEF m
        <5>. QED BY <5>1
      <4>. QED BY <2>1, <2>2, <3>1, <4>1
    <3>2. CASE k \in 1 .. m
      <4>1. Spot(k) = k
        BY <2>1, <3>2
      <4>. QED BY <2>1, <2>2, <3>2, <4>1
    <3>. QED BY <2>1, <3>1, <3>2
  <2>7. \A a, b \in 1 .. m + 1 : a < b => Spot(a) < Spot(b) \/ Spot(a) = Spot(b)
    <3> HIDE DEF m
    <3>. QED BY <2>1 DEF m
  <2>5. ASSUME NEW k \in DOMAIN tokens
        PROVE  /\ tokens[k][1] <= tokens[k][2] /\ tokens[k][2] <= n
               /\ k > 1 => tokens[k][1] < tokens[k][2]
    <3>1. PICK i \in DOMAIN s : tokens[k] = s[i]
      BY <2>2, <2>4
    <3>. QED BY <2>3, <3>1
  <2>6. ASSUME NEW a \in DOMAIN tokens, NEW b \in DOMAIN tokens, a < b
        PROVE  tokens[a][1] <= tokens[b][1] /\ tokens[a][2] <= tokens[b][2]
    <3>1. PICK i \in DOMAIN s, j \in DOMAIN s : tokens[a] = s[i] /\ tokens[b] = s[j] /\ (i < j \/ i = j)
      <4>1. a \in 1 .. m + 1 /\ b \in 1 .. m + 1
        BY <2>2
      <4> HIDE DEF Spot, m
      <4>. QED BY <2>4, <2>6, <2>7, <4>1
    <3>4. i < j => s[i][1] <= s[j][1] /\ s[i][2] <= s[j][2]
      BY <2>1 DEF PlainSpans, Reported
    <3>5. s[i][1] <= s[i][1] /\ s[i][2] <= s[i][2]
      BY <2>3
    <3>. QED BY <3>1, <3>4, <3>5
  <2>. QED BY <2>2, <2>5, <2>6 DEF Reported
<1>. QED BY <1>2, <1>3, <1>4, <1>5

\* What is after the prefix's tokens has a character of the text.
LEMMA PastThePrefix ==
  ASSUME NEW n \in Nat, NEW tokens, Reported(tokens, n), NEW chars \in Nat
  PROVE  /\ PrefixTokens(tokens, chars) \in Nat
         /\ \A k \in DOMAIN tokens : k > PrefixTokens(tokens, chars) =>
              tokens[k][1] < tokens[k][2] /\ chars < tokens[k][2]
<1> DEFINE Inside(s) == s[2] <= s[1] \/ s[2] <= chars
           S == {k \in DOMAIN tokens : \A i \in 1 .. k : Inside(tokens[i])}
           skip == Cardinality(S)
<1>1. DOMAIN tokens = 1 .. Len(tokens) /\ Len(tokens) \in Nat /\ tokens \in Seq(Nat \X Nat)
  BY DEF Reported
<1>2. IsFiniteSet(S) /\ skip \in Nat
  <2>1. IsFiniteSet(DOMAIN tokens) /\ S \subseteq DOMAIN tokens
    BY <1>1, FS_Interval
  <2> HIDE DEF S
  <2>. QED BY <2>1, FS_Subset, FS_CardinalityType
<1>3. PrefixTokens(tokens, chars) = skip
  BY DEF PrefixTokens
<1>4. ASSUME NEW k \in DOMAIN tokens, k > skip
      PROVE  tokens[k][1] < tokens[k][2] /\ chars < tokens[k][2]
  <2>1. k \notin S
    <3> SUFFICES ASSUME k \in S PROVE FALSE
      OBVIOUS
    <3>1. 1 .. k \subseteq S
      <4> SUFFICES ASSUME NEW i \in 1 .. k PROVE i \in S
        OBVIOUS
      <4>1. i \in DOMAIN tokens /\ 1 .. i \subseteq 1 .. k
        BY <1>1
      <4>. QED BY <4>1
    <3>2. Cardinality(1 .. k) = k
      <4>1. Cardinality(1 .. k) = IF 1 > k THEN 0 ELSE k - 1 + 1
        <5>1. 1 \in Int /\ k \in Int
          BY <1>1
        <5>. QED BY <5>1, FS_Interval
      <4>. QED BY <1>1, <4>1
    <3>3. Cardinality(1 .. k) <= skip
      <4> HIDE DEF S
      <4>. QED BY <1>2, <3>1, FS_Subset
    <3> HIDE DEF skip
    <3>. QED BY <1>1, <1>2, <1>4, <3>2, <3>3
  <2>2. PICK i \in 1 .. k : ~Inside(tokens[i])
    BY <2>1
  <2>3. i \in DOMAIN tokens /\ tokens[i] \in Nat \X Nat /\ tokens[k] \in Nat \X Nat
    BY <1>1
  <2>4. tokens[i][1] < tokens[i][2] /\ chars < tokens[i][2]
    BY <2>2, <2>3
  <2>5. CASE i = k
    BY <2>4, <2>5
  <2>6. CASE i < k
    <3>1. tokens[i][2] <= tokens[k][2]
      BY <2>3, <2>6 DEF Reported
    <3>2. k > 1
      BY <1>1, <2>6
    <3>3. tokens[k][1] < tokens[k][2]
      BY <3>2 DEF Reported
    <3>. QED BY <2>3, <2>4, <3>1, <3>3
  <2>. QED BY <1>1, <2>5, <2>6
<1>. QED BY <1>2, <1>3, <1>4

\* A job's tokens are spans of its text, in order; those it counts have
\* characters, and characters that are the caller's.
Offset(j) == IF j.by = "service" THEN 2 ELSE 0
Usable(j) ==
  /\ j.text \in Seq({"letter", "wide", "space"})
  /\ j.skip \in Nat /\ j.n = Len(j.tokens) - j.skip
  /\ Reported(j.tokens, Len(j.text) + Offset(j))
  /\ \A k \in DOMAIN j.tokens : k > j.skip => j.tokens[k][1] < j.tokens[k][2] /\ Offset(j) < j.tokens[k][2]
  /\ j.by # "service" => j.skip = 0
  /\ j.by = "service" => j.step <= j.size /\ j.n <= Ceiling

\* Where no prefix is added and nothing is skipped.
LEMMA WholeJobsUsable ==
  ASSUME NEW by, by # "service", NEW text \in Seq({"letter", "wide", "space"}), NEW tokens,
         Reported(tokens, Len(text)), \A k \in DOMAIN tokens : tokens[k][1] < tokens[k][2],
         NEW size, NEW step
  PROVE  Usable(Job(by, text, tokens, 0, size, step))
<1> DEFINE j == Job(by, text, tokens, 0, size, step)
<1>1. j.by = by /\ j.text = text /\ j.tokens = tokens /\ j.skip = 0 /\ j.n = Len(tokens) - 0
  BY DEF Job
<1>2. tokens \in Seq(Nat \X Nat) /\ Len(text) \in Nat /\ Len(text) + 0 = Len(text)
  BY DEF Reported
<1> HIDE DEF j
<1>3. Offset(j) = 0
  BY <1>1 DEF Offset
<1>4. \A k \in DOMAIN tokens : tokens[k][1] < tokens[k][2] /\ 0 < tokens[k][2]
  <2> SUFFICES ASSUME NEW k \in DOMAIN tokens PROVE tokens[k][1] < tokens[k][2] /\ 0 < tokens[k][2]
    OBVIOUS
  <2>1. tokens[k] \in Nat \X Nat /\ tokens[k][1] < tokens[k][2]
    BY <1>2
  <2>. QED BY <2>1
<1>. QED BY <1>1, <1>2, <1>3, <1>4 DEF Usable, j

\* SlidingWindowChunking counts the characters themselves.
LEMMA CharactersReported ==
  ASSUME NEW text \in Seq({"letter", "wide", "space"})
  PROVE  /\ Reported([i \in 1 .. Len(text) |-> <<i - 1, i>>], Len(text))
         /\ \A k \in DOMAIN [i \in 1 .. Len(text) |-> <<i - 1, i>>] :
              [i \in 1 .. Len(text) |-> <<i - 1, i>>][k][1] < [i \in 1 .. Len(text) |-> <<i - 1, i>>][k][2]
<1> DEFINE n == Len(text)
           spans == [i \in 1 .. n |-> <<i - 1, i>>]
<1>1. n \in Nat
  OBVIOUS
<1> HIDE DEF n
<1>2. \A i \in 1 .. n : <<i - 1, i>> \in Nat \X Nat
  BY <1>1
<1>3. /\ spans \in Seq(Nat \X Nat) /\ DOMAIN spans = 1 .. n
      /\ \A k \in 1 .. n : spans[k][1] = k - 1 /\ spans[k][2] = k
  <2>1. spans \in Seq(Nat \X Nat)
    BY <1>1, <1>2
  <2>. QED BY <1>1, <2>1
<1> HIDE DEF spans
<1>4. \A k \in DOMAIN spans : spans[k][1] < spans[k][2]
  BY <1>1, <1>3
<1>5. Reported(spans, n)
  <2>1. \A k \in 1 .. n : spans[k][1] <= spans[k][2] /\ spans[k][2] <= n /\ spans[k][1] < spans[k][2]
    BY <1>1, <1>3
  <2>2. \A a, b \in 1 .. n : a < b => spans[a][1] <= spans[b][1] /\ spans[a][2] <= spans[b][2]
    <3> SUFFICES ASSUME NEW a \in 1 .. n, NEW b \in 1 .. n, a < b
                 PROVE  spans[a][1] <= spans[b][1] /\ spans[a][2] <= spans[b][2]
      OBVIOUS
    <3>1. a - 1 <= b - 1 /\ a <= b
      OBVIOUS
    <3>. QED BY <1>3, <3>1
  <2>. QED BY <1>3, <2>1, <2>2 DEF Reported
<1>. QED BY <1>4, <1>5 DEF spans, n

\* So are the tokens of every job.
LEMMA JobsUsable ==
  ASSUME NEW j \in Jobs
  PROVE  Usable(j)
<1>1. \A t \in Texts : /\ t \in Seq({"letter", "wide", "space"}) /\ Len(t) \in Nat
                       /\ Reported(TokenSpans(t), Len(t))
                       /\ \A k \in DOMAIN TokenSpans(t) : TokenSpans(t)[k][1] < TokenSpans(t)[k][2]
  <2> SUFFICES ASSUME NEW t \in Texts
               PROVE  /\ t \in Seq({"letter", "wide", "space"}) /\ Len(t) \in Nat
                      /\ Reported(TokenSpans(t), Len(t))
                      /\ \A k \in DOMAIN TokenSpans(t) : TokenSpans(t)[k][1] < TokenSpans(t)[k][2]
    OBVIOUS
  <2>1. t \in Seq({"letter", "wide", "space"}) /\ Len(t) \in Nat
    BY WindowsAssumption
  <2>. QED BY <2>1, WordsReported
<1>2. CASE j \in LateJobs
  <2>1. PICK t \in Texts, s \in Sizes, o \in Overlaps : j = Job("late", t, TokenSpans(t), 0, s, Step(s, o))
    BY <1>2 DEF LateJobs
  <2>. QED BY <1>1, <2>1, WholeJobsUsable
<1>3. CASE j \in TokenJobs
  <2>1. PICK t \in Texts, s \in Sizes \ {0}, o \in Overlaps : j = Job("token", t, TokenSpans(t), 0, s, Step(s, o))
    BY <1>3 DEF TokenJobs
  <2>. QED BY <1>1, <2>1, WholeJobsUsable
<1>4. CASE j \in HashJobs
  <2>1. PICK t \in Texts, s \in Sizes, o \in Overlaps : j = Job("hash", t, TokenSpans(t), 0, Most(s, 1), Step(Most(s, 1), o))
    BY <1>4 DEF HashJobs, HashTokens
  <2>. QED BY <1>1, <2>1, WholeJobsUsable
<1>5. CASE j \in SlidingJobs
  <2>1. PICK t \in Texts, s \in Sizes \ {0}, step \in Overlaps :
          j = Job("sliding", t, [i \in 1 .. Len(t) |-> <<i - 1, i>>], 0, s, Most(step, 1))
    BY <1>5 DEF SlidingJobs
  <2>2. t \in Seq({"letter", "wide", "space"})
    BY <1>1
  <2>. QED BY <2>1, <2>2, CharactersReported, WholeJobsUsable
<1>6. CASE j \in ServiceJobs
  <2>0. PICK t \in Texts \ {<<>>} :
          /\ j \in {Job("service", t, s, PrefixTokens(s, Len(Prefix)), p[1], Step(p[1], p[2])) :
                     s \in Tokenizations(Len(Prefix) + Len(t)), p \in (Sizes \X Overlaps) \cup {<<WholeText, 0>>}}
          /\ j.size >= 1 /\ j.n \in 1 .. Ceiling
    BY <1>6 DEF ServiceJobs
  <2>1. PICK s \in Tokenizations(Len(Prefix) + Len(t)), p \in (Sizes \X Overlaps) \cup {<<WholeText, 0>>} :
          j = Job("service", t, s, PrefixTokens(s, Len(Prefix)), p[1], Step(p[1], p[2]))
    BY <2>0
  <2>2. /\ t \in Seq({"letter", "wide", "space"}) /\ Len(t) \in Nat /\ Len(Prefix) = 2
        /\ Len(Prefix) + Len(t) \in Nat \ {0} /\ Len(Prefix) + Len(t) = Len(t) + 2
    <3>1. t \in Seq({"letter", "wide", "space"}) /\ Len(t) \in Nat
      BY <1>1
    <3>2. Len(Prefix) = 2
      BY DEF Prefix
    <3>. QED BY <3>1, <3>2
  <2>3. Reported(s, Len(t) + 2)
    BY <2>2, TokensReported
  <2>4. /\ PrefixTokens(s, 2) \in Nat
        /\ \A k \in DOMAIN s : k > PrefixTokens(s, 2) => s[k][1] < s[k][2] /\ 2 < s[k][2]
    BY <2>2, <2>3, PastThePrefix
  <2>5. j.by = "service" /\ j.text = t /\ j.tokens = s /\ j.skip = PrefixTokens(s, 2)
        /\ j.n = Len(s) - j.skip /\ j.size = p[1] /\ j.step = Step(p[1], p[2])
    BY <2>1, <2>2 DEF Job
  <2>6. Offset(j) = 2
    BY <2>5 DEF Offset
  <2>7. p[1] \in Nat /\ p[2] \in Nat
    <3>1. WholeText \in Nat
      BY WindowsAssumption DEF WholeText, Most
    <3>2. CASE p \in Sizes \X Overlaps
      BY <3>2, WindowsAssumption
    <3>3. CASE p = <<WholeText, 0>>
      BY <3>1, <3>3
    <3>. QED BY <3>2, <3>3
  <2>8. j.step <= j.size
    <3>1. \A a, b \in Nat : a >= 1 => Step(a, b) <= a
      BY DEF Step, Most
    <3>. QED BY <2>0, <2>5, <2>7, <3>1
  <2>9. j.n <= Ceiling
    BY <2>0, WindowsAssumption
  <2>. QED BY <2>2, <2>3, <2>4, <2>5, <2>6, <2>8, <2>9 DEF Usable
<1>. QED BY <1>2, <1>3, <1>4, <1>5, <1>6 DEF Jobs

\* Where a window's characters start and end in the text it is of.
FirstToken(w) == job.tokens[w.from + 1 + job.skip]
FinalToken(w) == job.tokens[w.to + job.skip]
Lo(w) == IF FirstToken(w)[1] > Offset(job) THEN FirstToken(w)[1] - Offset(job) ELSE 0
Hi(w) == FinalToken(w)[2] - Offset(job)

\* A window's tokens lie between its first and its last one.
LEMMA WindowPlaces ==
  ASSUME Usable(job), NEW w \in Window, w.from < w.to, w.to <= job.n
  PROVE  /\ \A i \in w.from + 1 .. w.to :
              /\ i + job.skip \in DOMAIN job.tokens
              /\ LET t == job.tokens[i + job.skip] IN
                   /\ t[1] \in Nat /\ t[2] \in Nat /\ t[1] < t[2] /\ Offset(job) < t[2]
                   /\ FirstToken(w)[1] <= t[1] /\ FirstToken(w)[2] <= t[2]
                   /\ t[1] <= FinalToken(w)[1] /\ t[2] <= FinalToken(w)[2]
         /\ w.from + 1 \in w.from + 1 .. w.to /\ w.to \in w.from + 1 .. w.to
         /\ FinalToken(w)[2] <= Len(job.text) + Offset(job)
         /\ Len(job.text) \in Nat /\ Offset(job) \in Nat
         /\ Lo(w) \in Nat /\ Hi(w) \in Nat /\ Lo(w) < Hi(w) /\ Hi(w) <= Len(job.text)
<1> DEFINE n == Len(job.text)
           off == Offset(job)
           ts == job.tokens
           m == Len(ts)
           a == w.from + 1 + job.skip
           b == w.to + job.skip
<1>1. /\ n \in Nat /\ off \in Nat /\ job.skip \in Nat /\ job.n = m - job.skip /\ m \in Nat
      /\ ts \in Seq(Nat \X Nat) /\ DOMAIN ts = 1 .. m /\ w.from \in Nat /\ w.to \in Nat
  BY DEF Usable, Reported, Offset, Window
<1>2. /\ \A k \in DOMAIN ts : ts[k][1] \in Nat /\ ts[k][2] \in Nat /\ ts[k][2] <= n + off
      /\ \A k \in DOMAIN ts : k > job.skip => ts[k][1] < ts[k][2] /\ off < ts[k][2]
      /\ \A x, y \in DOMAIN ts : x < y => ts[x][1] <= ts[y][1] /\ ts[x][2] <= ts[y][2]
  <2>1. Reported(ts, n + off)
    BY DEF Usable
  <2>2. \A k \in DOMAIN ts : ts[k] \in Nat \X Nat /\ ts[k][2] <= n + off
    <3> HIDE DEF ts, n, off
    <3>. QED BY <1>1, <2>1 DEF Reported
  <2>3. \A k \in DOMAIN ts : k > job.skip => ts[k][1] < ts[k][2] /\ off < ts[k][2]
    BY DEF Usable
  <2>4. \A x, y \in DOMAIN ts : x < y => ts[x][1] <= ts[y][1] /\ ts[x][2] <= ts[y][2]
    <3> HIDE DEF ts, n, off
    <3>. QED BY <2>1 DEF Reported
  <2> HIDE DEF ts, n, off
  <2>. QED BY <2>2, <2>3, <2>4
<1>3. \A i \in w.from + 1 .. w.to : i + job.skip \in DOMAIN ts /\ i + job.skip > job.skip /\ a <= i + job.skip /\ i + job.skip <= b
  <2>1. PICK f \in Nat, t \in Nat, k \in Nat, l \in Nat : f = w.from /\ t = w.to /\ k = job.skip /\ l = m
    <3> HIDE DEF ts, m
    <3>. QED BY <1>1
  <2>2. f < t /\ t <= l - k /\ DOMAIN ts = 1 .. l /\ a = f + 1 + k /\ b = t + k
    <3> HIDE DEF ts, m
    <3>. QED BY <1>1, <2>1
  <2>3. \A i \in f + 1 .. t : i + k \in 1 .. l /\ i + k > k /\ f + 1 + k <= i + k /\ i + k <= t + k
    BY <2>2
  <2> HIDE DEF ts, m, a, b
  <2>. QED BY <2>1, <2>2, <2>3
<1>4. w.from + 1 \in w.from + 1 .. w.to /\ w.to \in w.from + 1 .. w.to
  <2> HIDE DEF ts, m, a, b, n, off
  <2>1. PICK f \in Nat, t \in Nat : f = w.from /\ t = w.to /\ f < t
    BY <1>1
  <2>2. f + 1 \in f + 1 .. t /\ t \in f + 1 .. t
    BY <2>1
  <2>. QED BY <2>1, <2>2
<1>5. a \in DOMAIN ts /\ b \in DOMAIN ts /\ a > job.skip /\ b > job.skip /\ a <= b
  BY <1>3, <1>4
<1>6. FirstToken(w) = ts[a] /\ FinalToken(w) = ts[b]
  BY DEF FirstToken, FinalToken
<1> HIDE DEF a, b, off, n
<1>7. \A x, y \in DOMAIN ts : x <= y => ts[x][1] <= ts[y][1] /\ ts[x][2] <= ts[y][2]
  <2> SUFFICES ASSUME NEW x \in DOMAIN ts, NEW y \in DOMAIN ts, x <= y
               PROVE  ts[x][1] <= ts[y][1] /\ ts[x][2] <= ts[y][2]
    OBVIOUS
  <2>1. x = y \/ x < y
    BY <1>1
  <2>2. ts[x][1] \in Nat /\ ts[x][2] \in Nat
    BY <1>2
  <2> HIDE DEF ts
  <2>. QED BY <1>2, <2>1, <2>2
<1> HIDE DEF ts, m
<1>8. ASSUME NEW i \in w.from + 1 .. w.to
      PROVE  /\ i + job.skip \in DOMAIN ts
             /\ LET t == ts[i + job.skip] IN
                  /\ t[1] \in Nat /\ t[2] \in Nat /\ t[1] < t[2] /\ off < t[2]
                  /\ FirstToken(w)[1] <= t[1] /\ FirstToken(w)[2] <= t[2]
                  /\ t[1] <= FinalToken(w)[1] /\ t[2] <= FinalToken(w)[2]
  <2>1. PICK k \in DOMAIN ts : k = i + job.skip /\ k > job.skip /\ a <= k /\ k <= b
    BY <1>3
  <2>2. ts[k][1] \in Nat /\ ts[k][2] \in Nat /\ ts[k][1] < ts[k][2] /\ off < ts[k][2]
    BY <1>2, <2>1
  <2>3. ts[a][1] <= ts[k][1] /\ ts[a][2] <= ts[k][2] /\ ts[k][1] <= ts[b][1] /\ ts[k][2] <= ts[b][2]
    BY <1>5, <1>7, <2>1
  <2>. QED BY <1>6, <2>1, <2>2, <2>3
<1>9. /\ FirstToken(w)[1] \in Nat /\ FirstToken(w)[2] \in Nat /\ FinalToken(w)[2] \in Nat
      /\ FirstToken(w)[1] < FirstToken(w)[2] /\ FirstToken(w)[2] <= FinalToken(w)[2] /\ off < FinalToken(w)[2]
      /\ FinalToken(w)[2] <= n + off
  BY <1>2, <1>5, <1>6, <1>7
<1>10. Lo(w) \in Nat /\ Hi(w) \in Nat /\ Lo(w) < Hi(w) /\ Hi(w) <= n
  <2>1. Lo(w) = (IF FirstToken(w)[1] > off THEN FirstToken(w)[1] - off ELSE 0) /\ Hi(w) = FinalToken(w)[2] - off
    BY DEF Lo, Hi, off
  <2>2. PICK x \in Nat, y \in Nat, z \in Nat, o \in Nat, l \in Nat :
          x = FirstToken(w)[1] /\ y = FirstToken(w)[2] /\ z = FinalToken(w)[2] /\ o = off /\ l = n
    BY <1>1, <1>9
  <2>3. x < y /\ y <= z /\ o < z /\ z <= l + o
    BY <1>9, <2>2
  <2>4. z - o \in Nat /\ z - o <= l /\ (x > o => x - o \in Nat /\ x - o < z - o) /\ 0 < z - o
    BY <2>3
  <2>. QED BY <2>1, <2>2, <2>4
<1>. QED BY <1>1, <1>4, <1>8, <1>9, <1>10 DEF n, off, ts

\* The caller's characters of the window's tokens, of which the first and the
\* last bound what is between.
LEMMA WindowCharacters ==
  ASSUME Usable(job), NEW w \in Window, w.from < w.to, w.to <= job.n,
         NEW own, own = {c - Offset(job) :
           c \in {d \in UNION {job.tokens[i + job.skip][1] + 1 .. job.tokens[i + job.skip][2] : i \in w.from + 1 .. w.to} :
                    d > Offset(job)}}
  PROVE  /\ Lo(w) + 1 \in own /\ Hi(w) \in own
         /\ \A c \in own : Lo(w) + 1 <= c /\ c <= Hi(w) /\ c \in Nat
<1> DEFINE off == Offset(job)
           T(i) == job.tokens[i + job.skip]
           chars == UNION {T(i)[1] + 1 .. T(i)[2] : i \in w.from + 1 .. w.to}
<1>1. /\ \A i \in w.from + 1 .. w.to :
           /\ T(i)[1] \in Nat /\ T(i)[2] \in Nat /\ T(i)[1] < T(i)[2] /\ off < T(i)[2]
           /\ FirstToken(w)[1] <= T(i)[1] /\ T(i)[2] <= FinalToken(w)[2]
      /\ w.from + 1 \in w.from + 1 .. w.to /\ w.to \in w.from + 1 .. w.to /\ off \in Nat
      /\ Lo(w) \in Nat /\ Hi(w) \in Nat
  BY WindowPlaces
<1>2. T(w.from + 1) = FirstToken(w) /\ T(w.to) = FinalToken(w)
  BY DEF FirstToken, FinalToken
<1>3. /\ FirstToken(w)[1] \in Nat /\ FirstToken(w)[2] \in Nat /\ FinalToken(w)[1] \in Nat /\ FinalToken(w)[2] \in Nat
      /\ FirstToken(w)[1] < FirstToken(w)[2] /\ off < FirstToken(w)[2] /\ FinalToken(w)[1] < FinalToken(w)[2] /\ off < FinalToken(w)[2]
  BY <1>1, <1>2
<1>4. Lo(w) = (IF FirstToken(w)[1] > off THEN FirstToken(w)[1] - off ELSE 0) /\ Hi(w) = FinalToken(w)[2] - off
  BY DEF Lo, Hi
<1>5. \A d : d \in chars <=> \E i \in w.from + 1 .. w.to : d \in T(i)[1] + 1 .. T(i)[2]
  OBVIOUS
<1>6. own = {c - off : c \in {d \in chars : d > off}}
  OBVIOUS
<1> HIDE DEF off, T, chars
<1>7. Lo(w) + 1 + off \in chars /\ Lo(w) + 1 + off > off /\ (Lo(w) + 1 + off) - off = Lo(w) + 1
  <2>1. Lo(w) + 1 + off \in FirstToken(w)[1] + 1 .. FirstToken(w)[2]
    BY <1>1, <1>3, <1>4
  <2>2. Lo(w) + 1 + off \in chars
    BY <1>1, <1>2, <1>5, <2>1
  <2>. QED BY <1>1, <2>2
<1>8. Hi(w) + off \in chars /\ Hi(w) + off > off /\ (Hi(w) + off) - off = Hi(w)
  <2>1. Hi(w) + off = FinalToken(w)[2]
    BY <1>1, <1>3, <1>4
  <2>2. Hi(w) + off \in FinalToken(w)[1] + 1 .. FinalToken(w)[2]
    BY <1>3, <2>1
  <2>3. Hi(w) + off \in chars
    BY <1>1, <1>2, <1>5, <2>2
  <2>. QED BY <1>1, <1>3, <2>1, <2>3
<1>9. ASSUME NEW d \in chars, d > off
      PROVE  Lo(w) + 1 <= d - off /\ d - off <= Hi(w) /\ d - off \in Nat
  <2>1. PICK i \in w.from + 1 .. w.to : d \in T(i)[1] + 1 .. T(i)[2]
    BY <1>5
  <2>2. T(i)[1] \in Nat /\ T(i)[2] \in Nat /\ FirstToken(w)[1] <= T(i)[1] /\ T(i)[2] <= FinalToken(w)[2]
    BY <1>1
  <2>3. d \in Nat /\ FirstToken(w)[1] + 1 <= d /\ d <= FinalToken(w)[2]
    BY <1>3, <2>1, <2>2
  <2>. QED BY <1>1, <1>3, <1>4, <1>9, <2>3
<1>. QED BY <1>6, <1>7, <1>8, <1>9

\* Of some numbers, the least and the greatest are chosen.
LEMMA LeastChosen ==
  ASSUME NEW S, NEW m \in S, S \subseteq Nat, \A c \in S : m <= c
  PROVE  (CHOOSE b \in S : \A c \in S : b <= c) = m
<1> DEFINE e == CHOOSE b \in S : \A c \in S : b <= c
<1>1. e \in S /\ \A c \in S : e <= c
  OBVIOUS
<1> HIDE DEF e
<1>2. e = m
  BY <1>1
<1>. QED BY <1>2 DEF e

LEMMA GreatestChosen ==
  ASSUME NEW S, NEW m \in S, S \subseteq Nat, \A c \in S : m >= c
  PROVE  (CHOOSE b \in S : \A c \in S : b >= c) = m
<1> DEFINE e == CHOOSE b \in S : \A c \in S : b >= c
<1>1. e \in S /\ \A c \in S : e >= c
  OBVIOUS
<1> HIDE DEF e
<1>2. e = m
  BY <1>1
<1>. QED BY <1>2 DEF e

\* The embedder's spans: the prefix rebased, a straddling token cut at the text.
LEMMA ServiceSpan ==
  ASSUME Usable(job), job.by = "service", NEW w \in Window, w.from < w.to, w.to <= job.n
  PROVE  ByteSpan(job.tokens, [from |-> w.from + job.skip, to |-> w.to + job.skip], job.text)
           = <<ByteAt(job.text)[Lo(w)], ByteAt(job.text)[Hi(w)]>>
<1> DEFINE text == job.text
           n == Len(text)
           tokens == job.tokens
           big == ByteAt(Prefix \o text)
           own == ByteAt(text)
           v == [from |-> w.from + job.skip, to |-> w.to + job.skip]
           chars == Len(Prefix)
           seeing == {i \in v.from + 1 .. v.to : tokens[i][1] < tokens[i][2]}
           Clamp(c) == Least(Most(c, chars), chars + n)
           froms == {big[Clamp(tokens[i][1])] : i \in seeing}
           tos == {big[Clamp(tokens[i][2])] : i \in seeing}
           lo == CHOOSE b \in froms : \A c \in froms : b <= c
           hi == CHOOSE b \in tos : \A c \in tos : b >= c
           Own(b) == IF b > big[chars] THEN b - big[chars] ELSE 0
           a == w.from + 1 + job.skip
           z == w.to + job.skip
<1>1. ByteSpan(tokens, v, text) = (IF seeing = {} THEN <<0, 0>> ELSE <<Own(lo), Most(Own(lo), Own(hi))>>)
  BY DEF ByteSpan
<1>2. /\ text \in Seq({"letter", "wide", "space"}) /\ n \in Nat /\ Offset(job) = 2 /\ job.skip \in Nat
      /\ w.from \in Nat /\ w.to \in Nat
  BY DEF Usable, Offset, Window
<1>3. /\ chars = 2 /\ Len(Prefix \o text) = 2 + n /\ big[2] = 2
      /\ \A c \in 0 .. n : big[c + 2] = own[c] + 2
  BY <1>2, PrefixShifts
<1>4. /\ \A c \in 0 .. n : own[c] \in Nat
      /\ \A i, j \in 0 .. n : i < j <=> own[i] < own[j]
  BY <1>2, BytesRise
<1>5. /\ \A c \in 0 .. 2 + n : big[c] \in Nat
      /\ \A i, j \in 0 .. 2 + n : i < j <=> big[i] < big[j]
  <2> DEFINE u == Prefix \o text
  <2>1. Len(u) = 2 + n /\ Len(u) \in Nat
    BY <1>2, <1>3
  <2> HIDE DEF u
  <2>2. /\ \A c \in 0 .. Len(u) : ByteAt(u)[c] \in Nat
        /\ \A i, j \in 0 .. Len(u) : i < j <=> ByteAt(u)[i] < ByteAt(u)[j]
    BY <2>1, BytesRise
  <2>. QED BY <2>1, <2>2 DEF u
<1> HIDE DEF big, own, chars
<1>6. v.from + 1 = a /\ v.to = z
  BY <1>2
<1>7. /\ \A i \in a .. z :
           /\ tokens[i][1] \in Nat /\ tokens[i][2] \in Nat /\ tokens[i][1] < tokens[i][2] /\ 2 < tokens[i][2]
           /\ FirstToken(w)[1] <= tokens[i][1] /\ tokens[i][2] <= FinalToken(w)[2]
      /\ a \in a .. z /\ z \in a .. z /\ FirstToken(w) = tokens[a] /\ FinalToken(w) = tokens[z]
      /\ FinalToken(w)[2] <= n + 2 /\ Lo(w) \in 0 .. n /\ Hi(w) \in 0 .. n /\ Lo(w) < Hi(w)
  <2>1. ASSUME NEW i \in a .. z
        PROVE  /\ tokens[i][1] \in Nat /\ tokens[i][2] \in Nat /\ tokens[i][1] < tokens[i][2] /\ 2 < tokens[i][2]
               /\ FirstToken(w)[1] <= tokens[i][1] /\ tokens[i][2] <= FinalToken(w)[2]
    <3>1. i - job.skip \in w.from + 1 .. w.to /\ (i - job.skip) + job.skip = i
      BY <1>2
    <3>2. \A j \in w.from + 1 .. w.to :
            LET t == tokens[j + job.skip] IN
              /\ t[1] \in Nat /\ t[2] \in Nat /\ t[1] < t[2] /\ 2 < t[2]
              /\ FirstToken(w)[1] <= t[1] /\ t[2] <= FinalToken(w)[2]
      BY <1>2, WindowPlaces
    <3>. QED BY <3>1, <3>2
  <2>2. a \in a .. z /\ z \in a .. z
    BY <1>2
  <2>3. FirstToken(w) = tokens[a] /\ FinalToken(w) = tokens[z]
    BY DEF FirstToken, FinalToken
  <2>4. FinalToken(w)[2] <= n + 2 /\ Lo(w) \in 0 .. n /\ Hi(w) \in 0 .. n /\ Lo(w) < Hi(w)
    <3>1. /\ FinalToken(w)[2] <= n + 2 /\ Lo(w) \in Nat /\ Hi(w) \in Nat /\ Lo(w) < Hi(w) /\ Hi(w) <= n
      BY <1>2, WindowPlaces
    <3> HIDE DEF n
    <3>. QED BY <1>2, <3>1
  <2>. QED BY <2>1, <2>2, <2>3, <2>4
<1>8. seeing = a .. z
  BY <1>6, <1>7
<1> HIDE DEF a, z, v, tokens, n, text
<1>9. \A i \in a .. z :
        /\ Clamp(tokens[i][1]) \in 0 .. 2 + n /\ Clamp(tokens[i][2]) \in 0 .. 2 + n
        /\ Clamp(tokens[a][1]) <= Clamp(tokens[i][1]) /\ Clamp(tokens[i][2]) <= Clamp(tokens[z][2])
  <2>1. \A c \in Nat : Clamp(c) \in 0 .. 2 + n
    BY <1>2, <1>3 DEF Least, Most
  <2>2. \A c, d \in Nat : c <= d => Clamp(c) <= Clamp(d)
    BY <1>2, <1>3 DEF Least, Most
  <2> HIDE DEF Clamp
  <2>. QED BY <1>7, <2>1, <2>2
<1>10. Clamp(tokens[a][1]) = Lo(w) + 2 /\ Clamp(tokens[z][2]) = Hi(w) + 2
  <2>1. /\ tokens[a][1] \in Nat /\ tokens[z][2] \in Nat
        /\ tokens[a][1] < tokens[a][2] /\ tokens[a][2] \in Nat /\ tokens[a][2] <= tokens[z][2]
        /\ 2 < tokens[z][2] /\ tokens[z][2] <= n + 2
    BY <1>7
  <2>2. /\ Lo(w) = (IF tokens[a][1] > 2 THEN tokens[a][1] - 2 ELSE 0)
        /\ Hi(w) = tokens[z][2] - 2
    BY <1>2, <1>7 DEF Lo, Hi
  <2>3. PICK x \in Nat, y \in Nat, u \in Nat, l \in Nat :
          x = tokens[a][1] /\ y = tokens[a][2] /\ u = tokens[z][2] /\ l = n
    BY <1>2, <2>1
  <2>4. x < y /\ y <= u /\ 2 < u /\ u <= l + 2
    BY <2>1, <2>3
  <2>5. Clamp(x) = Least(Most(x, 2), 2 + l) /\ Clamp(u) = Least(Most(u, 2), 2 + l)
    BY <1>3, <2>3
  <2>6. Least(Most(x, 2), 2 + l) = (IF x > 2 THEN x - 2 ELSE 0) + 2
    BY <2>4 DEF Least, Most
  <2>7. Least(Most(u, 2), 2 + l) = (u - 2) + 2
    BY <2>4 DEF Least, Most
  <2> HIDE DEF Clamp
  <2>. QED BY <2>2, <2>3, <2>5, <2>6, <2>7
<1>11. big[Lo(w) + 2] = own[Lo(w)] + 2 /\ big[Hi(w) + 2] = own[Hi(w)] + 2 /\ own[Lo(w)] \in Nat /\ own[Hi(w)] \in Nat
       /\ own[Lo(w)] < own[Hi(w)]
  BY <1>3, <1>4, <1>7
<1>12. \A i, j \in 0 .. 2 + n : i <= j => big[i] <= big[j]
  <2> SUFFICES ASSUME NEW i \in 0 .. 2 + n, NEW j \in 0 .. 2 + n, i <= j PROVE big[i] <= big[j]
    OBVIOUS
  <2>1. i = j \/ i < j
    BY <1>2
  <2>. QED BY <1>5, <2>1
<1> HIDE DEF Clamp
<1>13. lo = own[Lo(w)] + 2
  <2>1. big[Clamp(tokens[a][1])] \in froms
    BY <1>7, <1>8
  <2>2. froms \subseteq Nat
    BY <1>5, <1>8, <1>9
  <2>3. \A c \in froms : big[Clamp(tokens[a][1])] <= c
    BY <1>7, <1>8, <1>9, <1>12
  <2> HIDE DEF froms
  <2>4. lo = big[Clamp(tokens[a][1])]
    BY <2>1, <2>2, <2>3, LeastChosen
  <2>. QED BY <1>10, <1>11, <2>4
<1>14. hi = own[Hi(w)] + 2
  <2>1. big[Clamp(tokens[z][2])] \in tos
    BY <1>7, <1>8
  <2>2. tos \subseteq Nat
    BY <1>5, <1>8, <1>9
  <2>3. \A c \in tos : big[Clamp(tokens[z][2])] >= c
    <3> SUFFICES ASSUME NEW i \in a .. z PROVE big[Clamp(tokens[z][2])] >= big[Clamp(tokens[i][2])]
      BY <1>8
    <3>1. /\ Clamp(tokens[i][2]) \in 0 .. 2 + n /\ Clamp(tokens[z][2]) \in 0 .. 2 + n
          /\ Clamp(tokens[i][2]) <= Clamp(tokens[z][2])
      BY <1>7, <1>9
    <3>2. big[Clamp(tokens[i][2])] <= big[Clamp(tokens[z][2])]
      BY <1>12, <3>1
    <3>. QED BY <1>5, <3>1, <3>2
  <2> HIDE DEF tos
  <2>4. hi = big[Clamp(tokens[z][2])]
    BY <2>1, <2>2, <2>3, GreatestChosen
  <2>. QED BY <1>10, <1>11, <2>4
<1> HIDE DEF lo, hi
<1>15. Own(lo) = own[Lo(w)] /\ Own(hi) = own[Hi(w)]
  BY <1>3, <1>11, <1>13, <1>14
<1>16. seeing # {}
  BY <1>7, <1>8
<1>17. Most(Own(lo), Own(hi)) = own[Hi(w)]
  BY <1>11, <1>15 DEF Most
<1>. QED BY <1>1, <1>15, <1>16, <1>17 DEF tokens, v, text, own

\* Whoever counts, a window's span is from its first to its last character.
LEMMA SpanInBytes ==
  ASSUME Usable(job), NEW w \in Window, w.from < w.to, w.to <= job.n
  PROVE  Span(w) = <<ByteAt(job.text)[Lo(w)], ByteAt(job.text)[Hi(w)]>>
<1>1. CASE job.by = "service"
  BY <1>1, ServiceSpan DEF Span
<1>2. CASE job.by # "service"
  <2>1. job.skip = 0 /\ Offset(job) = 0 /\ w.from \in Nat /\ w.to \in Nat
    BY <1>2 DEF Usable, Offset, Window
  <2>2. FirstToken(w) = job.tokens[w.from + 1] /\ FinalToken(w) = job.tokens[w.to]
    BY <2>1 DEF FirstToken, FinalToken
  <2>3. FirstToken(w)[1] \in Nat /\ FinalToken(w)[2] \in Nat
    <3>1. w.from + 1 \in w.from + 1 .. w.to /\ w.to \in w.from + 1 .. w.to
      BY WindowPlaces
    <3>2. job.tokens[w.from + 1 + job.skip][1] \in Nat /\ job.tokens[w.to + job.skip][2] \in Nat
      BY <3>1, WindowPlaces
    <3>. QED BY <3>2 DEF FirstToken, FinalToken
  <2>4. PICK x \in Nat, y \in Nat : x = FirstToken(w)[1] /\ y = FinalToken(w)[2]
    BY <2>3
  <2>5. Lo(w) = x /\ Hi(w) = y
    BY <2>1, <2>4 DEF Lo, Hi
  <2>6. Span(w) = <<ByteAt(job.text)[x], ByteAt(job.text)[y]>>
    BY <1>2, <2>2, <2>4 DEF Span
  <2>. QED BY <2>5, <2>6
<1>. QED BY <1>1, <1>2

\* The caller's characters of a window's tokens.
OwnCharacters(w) ==
  {c - Offset(job) :
     c \in {d \in UNION {job.tokens[i + job.skip][1] + 1 .. job.tokens[i + job.skip][2] : i \in w.from + 1 .. w.to} :
              d > Offset(job)}}

\* A window's span slices the text and holds the window's own characters.
LEMMA SpanKeeps ==
  ASSUME Usable(job), NEW w \in Window, w.from < w.to, w.to <= job.n
  PROVE  /\ Slices(Span(w)) /\ Span(w)[1] < Span(w)[2]
         /\ {c \in 1 .. Len(job.text) : Span(w)[1] <= ByteAt(job.text)[c - 1] /\ ByteAt(job.text)[c] <= Span(w)[2]}
              = {c \in 1 .. Len(job.text) :
                   (\E a \in OwnCharacters(w) : a <= c) /\ (\E b \in OwnCharacters(w) : c <= b)}
<1> DEFINE own == OwnCharacters(w)
           places == ByteAt(job.text)
           n == Len(job.text)
           s == Span(w)
<1>1. /\ n \in Nat /\ Lo(w) \in Nat /\ Hi(w) \in Nat /\ Lo(w) < Hi(w) /\ Hi(w) <= n
  BY WindowPlaces
<1>2. s = <<places[Lo(w)], places[Hi(w)]>>
  BY SpanInBytes
<1>3. /\ Lo(w) + 1 \in own /\ Hi(w) \in own
      /\ \A c \in own : Lo(w) + 1 <= c /\ c <= Hi(w) /\ c \in Nat
  BY WindowCharacters DEF OwnCharacters
<1> HIDE DEF own
<1>4. /\ DOMAIN places = 0 .. n
      /\ \A c \in 0 .. n : places[c] \in Nat
      /\ \A i, k \in 0 .. n : i < k <=> places[i] < places[k]
  BY <1>1, BytesRise
<1>5. Slices(s) <=> s[1] <= s[2] /\ s[1] \in {places[i] : i \in DOMAIN places} /\ s[2] \in {places[i] : i \in DOMAIN places}
  BY DEF Slices
<1> HIDE DEF places, n, s
<1>6. PICK l \in Nat, h \in Nat : l = Lo(w) /\ h = Hi(w)
  BY <1>1
<1>7. l < h /\ h <= n /\ s[1] = places[l] /\ s[2] = places[h] /\ l \in 0 .. n /\ h \in 0 .. n
  BY <1>1, <1>2, <1>6
<1>8. s[1] < s[2] /\ s[1] \in Nat /\ s[2] \in Nat
  BY <1>4, <1>7
<1>9. Slices(s)
  <2>1. s[1] <= s[2]
    BY <1>8
  <2>. QED BY <1>4, <1>5, <1>7, <2>1
<1>10. \A i, k \in 0 .. n : i <= k <=> places[i] <= places[k]
  <2> SUFFICES ASSUME NEW i \in 0 .. n, NEW k \in 0 .. n PROVE i <= k <=> places[i] <= places[k]
    OBVIOUS
  <2>1. k < i <=> places[k] < places[i]
    BY <1>4
  <2>2. places[i] \in Nat /\ places[k] \in Nat
    BY <1>4
  <2>. QED BY <1>1, <2>1, <2>2
<1>11. ASSUME NEW c \in 1 .. n
       PROVE  (s[1] <= places[c - 1] /\ places[c] <= s[2]) <=> ((\E a \in own : a <= c) /\ (\E b \in own : c <= b))
  <2>1. c - 1 \in 0 .. n /\ c \in 0 .. n /\ c \in Nat
    BY <1>1
  <2>2. (s[1] <= places[c - 1] <=> l <= c - 1) /\ (places[c] <= s[2] <=> c <= h)
    BY <1>7, <1>10, <2>1
  <2>3. (\E a \in own : a <= c) <=> l + 1 <= c
    BY <1>3, <1>6, <2>1
  <2>4. (\E b \in own : c <= b) <=> c <= h
    BY <1>3, <1>6, <2>1
  <2>. QED BY <2>1, <2>2, <2>3, <2>4
<1>12. {c \in 1 .. n : s[1] <= places[c - 1] /\ places[c] <= s[2]}
         = {c \in 1 .. n : (\E a \in own : a <= c) /\ (\E b \in own : c <= b)}
  BY <1>11
<1>. QED BY <1>8, <1>9, <1>12 DEF s, places, n, own

\* No window is past the end; the first starts at the beginning
\* and reaches as far as the size and the text let it.
SpansInv ==
  /\ Usable(job) /\ Counted(job) /\ start \in Nat /\ windows \in Seq(Window)
  /\ windows = <<>> => start = 0
  /\ \A i \in DOMAIN windows :
       /\ windows[i].to <= job.n
       /\ i = 1 => windows[i].to = Least(job.size, job.n)

\* A window opened before the end has units; the first is clamped to the text.
LEMMA SpansOpenStep ==
  ASSUME SpansInv, OpenWindow
  PROVE  SpansInv'
<1> DEFINE end == Least(start + job.size, job.n)
           w == [from |-> start, to |-> end]
           last == Len(windows)
<1>1. /\ job.n \in Int /\ job.size \in Nat /\ job.step \in Nat \ {0}
      /\ start \in Nat /\ start < job.n /\ windows \in Seq(Window) /\ last \in Nat
  BY DEF SpansInv, Counted, OpenWindow
<1>2. end \in Nat /\ end <= job.n /\ (start = 0 => end = Least(job.size, job.n))
  BY <1>1 DEF Least
<1>3. job' = job /\ windows' = Append(windows, w) /\ (start' = start \/ start' = start + job.step)
  BY DEF OpenWindow
<1>4. w \in Window
  BY <1>1, <1>2 DEF Window
<1>5. w.from = start /\ w.to = end
  OBVIOUS
<1> HIDE DEF w, end
<1>6. /\ windows' \in Seq(Window) /\ windows' # <<>> /\ DOMAIN windows' = 1 .. last + 1 /\ DOMAIN windows = 1 .. last
      /\ windows'[last + 1] = w /\ \A i \in 1 .. last : windows'[i] = windows[i]
  BY <1>1, <1>3, <1>4
<1>7. start' \in Nat
  BY <1>1, <1>3
<1>8. ASSUME NEW i \in 1 .. last + 1
      PROVE  /\ windows'[i].to <= job.n
             /\ i = 1 => windows'[i].to = Least(job.size, job.n)
  <2>1. CASE i \in 1 .. last
    BY <1>6, <2>1 DEF SpansInv
  <2>2. CASE i = last + 1
    <3>1. i = 1 => start = 0
      <4>1. i = 1 => windows = <<>>
        BY <1>1, <2>2
      <4>. QED BY <4>1 DEF SpansInv
    <3>. QED BY <1>2, <1>5, <1>6, <2>2, <3>1
  <2>. QED BY <1>1, <2>1, <2>2
<1>9. Usable(job)' /\ Counted(job)'
  BY <1>3 DEF SpansInv, Usable, Counted, Offset
<1>. QED BY <1>3, <1>6, <1>7, <1>8, <1>9 DEF SpansInv

\* No window yet, of any job.
LEMMA SpansStart ==
  ASSUME WindowsInit, Counted(job)
  PROVE  SpansInv
<1>1. Usable(job)
  BY JobsUsable DEF WindowsInit
<1>. QED BY <1>1 DEF WindowsInit, SpansInv

\* No step of the loop disturbs that.
LEMMA SpansStep ==
  ASSUME SpansInv, [WindowsNext]_windowVars
  PROVE  SpansInv'
<1>1. CASE RunsOut \/ UNCHANGED windowVars
  BY <1>1 DEF RunsOut, windowVars, SpansInv, Usable, Counted, Offset
<1>. QED BY <1>1, SpansOpenStep DEF WindowsNext

\* A policy of the whole text is one window.
LEMMA WholeIsOne ==
  ASSUME WindowsInv, SpansInv, job.by = "service", job.size = WholeText, windows # <<>>
  PROVE  Len(windows) = 1
<1>1. /\ job.n \in Int /\ job.n <= Ceiling /\ job.step <= job.size /\ Ceiling \in Nat \ {0}
      /\ job.size \in Nat /\ windows \in Seq(Window)
  BY WindowsAssumption DEF SpansInv, Usable, Counted
<1>2. job.size >= Ceiling
  BY <1>1 DEF WholeText, Most
<1>3. 1 \in DOMAIN windows /\ DOMAIN windows = 1 .. Len(windows) /\ Len(windows) \in Nat
  BY <1>1
<1>4. windows[1].to = job.n
  <2>1. windows[1].to = Least(job.size, job.n) /\ windows[1] \in Window
    BY <1>1, <1>3 DEF SpansInv
  <2>2. Least(job.size, job.n) = job.n
    BY <1>1, <1>2 DEF Least
  <2>. QED BY <2>1, <2>2
<1>5. 2 \notin DOMAIN windows
  <2>1. Tiles
    BY <1>1 DEF WindowsInv, Overlapping
  <2>2. 1 + 1 \in DOMAIN windows => windows[1].to < job.n
    BY <1>3, <2>1 DEF Tiles
  <2>. QED BY <1>1, <1>4, <2>2
<1>. QED BY <1>3, <1>5

\* Together they are what SpansAreTheTokens says.
LEMMA SpansHold ==
  ASSUME WindowsInv, SpansInv
  PROVE  SpansAreTheTokens
<1> DEFINE off == IF job.by = "service" THEN Len(Prefix) ELSE 0
           places == ByteAt(job.text)
           CharactersOf(w) == UNION {job.tokens[i + job.skip][1] + 1 .. job.tokens[i + job.skip][2] : i \in w.from + 1 .. w.to}
           Own(w) == {c - off : c \in {d \in CharactersOf(w) : d > off}}
           Between(w) == {c \in 1 .. Len(job.text) : (\E a \in Own(w) : a <= c) /\ (\E b \in Own(w) : c <= b)}
           Held(w) == {c \in 1 .. Len(job.text) : Span(w)[1] <= places[c - 1] /\ places[c] <= Span(w)[2]}
<1>1. Usable(job) /\ windows \in Seq(Window)
  BY DEF SpansInv
<1>2. off = Offset(job)
  BY DEF Offset, Prefix
<1>3. ASSUME NEW i \in DOMAIN windows, windows[i].from < windows[i].to
      PROVE  /\ Slices(Span(windows[i])) /\ Span(windows[i])[1] < Span(windows[i])[2]
             /\ Held(windows[i]) = Between(windows[i])
  <2>1. PICK w \in Window : w = windows[i] /\ w.from < w.to /\ w.to <= job.n
    BY <1>1, <1>3 DEF SpansInv
  <2>2. Own(w) = OwnCharacters(w)
    <3> HIDE DEF off
    <3>. QED BY <1>2 DEF OwnCharacters
  <2>4. /\ Slices(Span(w)) /\ Span(w)[1] < Span(w)[2]
        /\ {c \in 1 .. Len(job.text) : Span(w)[1] <= ByteAt(job.text)[c - 1] /\ ByteAt(job.text)[c] <= Span(w)[2]}
              = {c \in 1 .. Len(job.text) :
                   (\E a \in OwnCharacters(w) : a <= c) /\ (\E b \in OwnCharacters(w) : c <= b)}
    BY <1>1, <2>1, SpanKeeps
  <2> HIDE DEF Own
  <2>. QED BY <2>1, <2>2, <2>4
<1>4. ASSUME NEW i \in DOMAIN windows, job.by = "service", job.size = WholeText
      PROVE  Len(windows) = 1
  <2>1. windows # <<>>
    BY <1>1, <1>4
  <2>. QED BY <1>4, <2>1, WholeIsOne
<1> HIDE DEF Own, Between, Held, places
<1>5. \A i \in {k \in DOMAIN windows : windows[k].from < windows[k].to} :
        LET s == Span(windows[i]) IN
        /\ Slices(s) /\ s[1] < s[2]
        /\ Held(windows[i]) = Between(windows[i])
        /\ job.by = "service" /\ job.size = WholeText => Len(windows) = 1
  BY <1>3, <1>4
<1>. QED BY <1>5 DEF SpansAreTheTokens, Own, Between, Held, places

-----------------------------------------------------------------------------
(* What a chunker cuts                                                     *)

SegmentsInv == AstInv /\ SentenceInv

LEMMA SegmentsStart ==
  ASSUME SegmentsInit
  PROVE  SegmentsInv
<1>1. CASE plan \in SentencePlans
  <2>1. plan.by = "sentence"
    BY <1>1 DEF SentencePlans
  <2>. QED BY <1>1, <2>1, SentenceStart, SegmentsAssumption DEF SegmentsInit, SegmentsInv, AstInv
<1>2. CASE plan \in AstPlans
  <2>1. plan.by = "ast"
    BY <1>2 DEF AstPlans
  <2>. QED BY <1>2, <2>1, AstStart, SegmentsAssumption DEF SegmentsInit, SegmentsInv, SentenceInv
<1>. QED BY <1>1, <1>2 DEF SegmentsInit

LEMMA SegmentsStep ==
  ASSUME SegmentsInv, [SegmentsNext]_segmentVars
  PROVE  SegmentsInv'
<1>1. AstInv /\ SentenceInv
  BY DEF SegmentsInv
<1>2. CASE TakeSentence \/ FlushSentences
  <2>1. plan.by = "sentence" /\ plan' = plan
    BY <1>2 DEF TakeSentence, FlushSentences
  <2>2. AstInv'
    BY <2>1 DEF AstInv
  <2>. QED BY <1>1, <1>2, <2>2, TakeSentenceStep, FlushSentencesStep DEF SegmentsInv
<1>3. CASE TakeDefinition \/ TakeTail \/ KeepWhole \/ SplitAtLine \/ AstEnds
  <2>1. plan.by = "ast" /\ plan' = plan
    BY <1>3 DEF TakeDefinition, TakeTail, KeepWhole, SplitAtLine, AstEnds
  <2>2. SentenceInv'
    BY <2>1 DEF SentenceInv
  <2>3. AstInv'
    BY <1>1, <1>3, TakeDefinitionStep, TakeTailStep, KeepWholeStep, SplitAtLineStep, AstEndsStep
  <2>. QED BY <2>2, <2>3 DEF SegmentsInv
<1>4. CASE UNCHANGED segmentVars
  <2>1. UNCHANGED <<plan, loop, pieces>>
    BY <1>4 DEF segmentVars
  <2>2. AstTypes => AstTypes'
    BY <2>1 DEF AstTypes, Laid, Whole, Opening, Narrow, InOrder, Disjoint
  <2>3. WalkedInv => WalkedInv'
    BY <2>1 DEF WalkedInv, Opening, Fills, Disjoint
  <2>4. SplitInv => SplitInv'
    BY <2>1 DEF SplitInv, Opening, Narrow, Fills, Disjoint, Fits
  <2>5. AstInv'
    BY <1>1, <2>1, <2>2, <2>3, <2>4 DEF AstInv, Fills
  <2>6. SentenceTypes => SentenceTypes'
    BY <2>1 DEF SentenceTypes, Chained, Run, Meets
  <2>7. BuiltInv => BuiltInv'
    BY <2>1 DEF BuiltInv, Run, ComesAfter, Meets
  <2>8. SentenceInv'
    BY <1>1, <2>1, <2>6, <2>7 DEF SentenceInv
  <2>. QED BY <2>5, <2>8 DEF SegmentsInv
<1>. QED BY <1>2, <1>3, <1>4 DEF SegmentsNext

\* Cutting a text loses none of it, for every text, policy and list of definitions:
\* SentenceChunking keeps sentences whole and in order and cuts only where it must,
\* AstChunking leaves no code out of the chunks of a file.
THEOREM ChunksKeepTheText == SegmentsSpec => [](SentencesStayWhole /\ NoCodeIsLost)
<1>1. SegmentsInit => SegmentsInv
  BY SegmentsStart
<1>2. SegmentsInv /\ [SegmentsNext]_segmentVars => SegmentsInv'
  BY SegmentsStep
<1>3. SegmentsInv => SentencesStayWhole /\ NoCodeIsLost
  BY SentencesWhole, NoCodeLost DEF SegmentsInv
<1>. QED BY <1>1, <1>2, <1>3, PTL DEF SegmentsSpec

\* The two parts that cut a text, each with its own.
PiecesInv ==
  /\ studied = "windows" => WindowsInv /\ SpansInv
  /\ studied = "segments" => SegmentsInv

\* Cutting a text loses none of it, for every text, policy and list of definitions,
\* and wherever a tokenizer cuts: the windows of late_chunk_embeddings, the embedder, TokenChunking,
\* SlidingWindowChunking and HashEmbedder tile what they count, unless the caller
\* asks for a step wider than the window or late_chunk_embeddings for a size of 0,
\* and the byte spans of what has tokens are the characters of those tokens;
\* sentences and code come through whole.
THEOREM PiecesKept == Spec => []PiecesKeepTheText
<1>1. Init => PiecesInv
  <2> SUFFICES ASSUME Init PROVE PiecesInv
    OBVIOUS
  <2>1. ASSUME studied = "windows" PROVE WindowsInv /\ SpansInv
    <3>1. WindowsInit
      BY <2>1 DEF Init
    <3>2. WindowsInv
      BY <3>1, WindowsStart
    <3>. QED BY <3>1, <3>2, SpansStart DEF WindowsInv
  <2>2. ASSUME studied = "segments" PROVE SegmentsInv
    <3>1. SegmentsInit
      BY <2>2 DEF Init
    <3>. QED BY <3>1, SegmentsStart
  <2>. QED BY <2>1, <2>2 DEF PiecesInv
<1>2. PiecesInv /\ [Next]_algorithmVars => PiecesInv'
  <2> SUFFICES ASSUME PiecesInv, [Next]_algorithmVars PROVE PiecesInv'
    OBVIOUS
  <2>1. /\ studied' = studied
        /\ studied = "windows" => [WindowsNext]_windowVars
        /\ studied = "segments" => [SegmentsNext]_segmentVars
    BY DEF Next, algorithmVars
  <2>. QED BY <2>1, WindowsStep, SpansStep, SegmentsStep DEF PiecesInv
<1>3. PiecesInv => PiecesKeepTheText
  <2> SUFFICES ASSUME PiecesInv PROVE PiecesKeepTheText
    OBVIOUS
  <2>1. ASSUME studied = "windows" PROVE WindowsTile /\ SpansAreTheTokens
    <3>1. WindowsInv /\ SpansInv
      BY <2>1 DEF PiecesInv
    <3>2. WindowsTile
      BY <3>1, TilesAll
    <3>. QED BY <3>1, <3>2, SpansHold
  <2>2. ASSUME studied = "segments" PROVE SentencesStayWhole /\ NoCodeIsLost
    BY <2>2, SentencesWhole, NoCodeLost DEF PiecesInv, SegmentsInv
  <2>. QED BY <2>1, <2>2 DEF PiecesKeepTheText
<1>. QED BY <1>1, <1>2, <1>3, PTL DEF Spec

-----------------------------------------------------------------------------
(* What names resolve to                                                   *)

\* A recursion over the places of a list, and what it computes up to each.
Recurs(g, n, V) == g \in [(1 .. n) \X V -> V]
Unfolds(f, a, g, n, V) == f \in [0 .. n -> V] /\ f[0] = a /\ \A i \in 1 .. n : f[i] = g[<<i, f[i - 1]>>]

\* There is a function as the recursion defines it.
LEMMA Recursion ==
  ASSUME NEW n \in Nat, NEW V, NEW a \in V, NEW g, Recurs(g, n, V)
  PROVE  \E f : Unfolds(f, a, g, n, V)
<1> DEFINE Good(f, m) == f \in [0 .. m -> V] /\ f = [i \in 0 .. m |-> IF i = 0 THEN a ELSE g[<<i, f[i - 1]>>]]
           T == {m \in Nat : m <= n => \E f : Good(f, m)}
<1>0. g \in [(1 .. n) \X V -> V]
  BY DEF Recurs
<1>1. 0 \in T
  <2>1. Good([i \in 0 .. 0 |-> a], 0)
    OBVIOUS
  <2>. QED BY <2>1
<1>2. ASSUME NEW m \in Nat, m \in T PROVE m + 1 \in T
  <2> SUFFICES ASSUME m + 1 <= n PROVE \E f : Good(f, m + 1)
    OBVIOUS
  <2>1. PICK f : Good(f, m)
    BY <1>2
  <2>2. /\ f \in [0 .. m -> V] /\ m \in 0 .. m /\ f[0] = a
        /\ \A i \in 0 .. m : i # 0 => f[i] = g[<<i, f[i - 1]>>]
    <3>1. f \in [0 .. m -> V] /\ f = [i \in 0 .. m |-> IF i = 0 THEN a ELSE g[<<i, f[i - 1]>>]]
      BY <2>1
    <3> HIDE DEF Good
    <3>2. 0 \in 0 .. m /\ m \in 0 .. m
      OBVIOUS
    <3>3. f[0] = a
      BY <3>1, <3>2
    <3>4. ASSUME NEW i \in 0 .. m, i # 0 PROVE f[i] = g[<<i, f[i - 1]>>]
      BY <3>1, <3>4
    <3>. QED BY <3>1, <3>2, <3>3, <3>4
  <2> DEFINE next == g[<<m + 1, f[m]>>]
             h == [i \in 0 .. m + 1 |-> IF i <= m THEN f[i] ELSE next]
  <2>3. next \in V
    <3>1. <<m + 1, f[m]>> \in (1 .. n) \X V
      BY <2>2
    <3>. QED BY <1>0, <3>1
  <2> HIDE DEF next
  <2>4. h \in [0 .. m + 1 -> V]
    BY <2>2, <2>3
  <2>5. /\ DOMAIN h = 0 .. m + 1 /\ \A i \in 0 .. m : h[i] = f[i]
        /\ h[m + 1] = next
    <3>1. \A i \in 0 .. m : i \in 0 .. m + 1 /\ i <= m
      OBVIOUS
    <3>2. m + 1 \in 0 .. m + 1 /\ ~(m + 1 <= m)
      OBVIOUS
    <3>. QED BY <3>1, <3>2
  <2> HIDE DEF h
  <2>6. ASSUME NEW i \in 0 .. m + 1 PROVE h[i] = IF i = 0 THEN a ELSE g[<<i, h[i - 1]>>]
    <3>1. CASE i = 0
      BY <2>2, <2>5, <3>1
    <3>2. CASE i # 0 /\ i \in 0 .. m
      <4>1. i - 1 \in 0 .. m
        BY <3>2
      <4>. QED BY <2>2, <2>5, <3>2, <4>1
    <3>3. CASE i = m + 1
      <4>1. i - 1 = m /\ i # 0
        BY <3>3
      <4>. QED BY <2>2, <2>5, <3>3, <4>1 DEF next
    <3>. QED BY <3>1, <3>2, <3>3
  <2>7. h = [i \in 0 .. m + 1 |-> IF i = 0 THEN a ELSE g[<<i, h[i - 1]>>]]
    BY <2>4, <2>6
  <2>. QED BY <2>4, <2>7
<1>3. n \in T
  <2>1. Nat \subseteq T
    <3> HIDE DEF T
    <3>. QED BY <1>1, <1>2, Inductive
  <2>. QED BY <2>1
<1>4. PICK f : Good(f, n)
  BY <1>3
<1>5. f \in [0 .. n -> V] /\ f = [i \in 0 .. n |-> IF i = 0 THEN a ELSE g[<<i, f[i - 1]>>]]
  BY <1>4
<1> HIDE DEF Good
<1>6. f[0] = a
  <2>1. 0 \in 0 .. n
    OBVIOUS
  <2>. QED BY <1>5, <2>1
<1>7. ASSUME NEW i \in 1 .. n PROVE f[i] = g[<<i, f[i - 1]>>]
  <2>1. i \in 0 .. n /\ i # 0
    OBVIOUS
  <2>. QED BY <1>5, <2>1
<1>. QED BY <1>5, <1>6, <1>7 DEF Unfolds

Entry == Nat \X Nat
In(s) == {s[i] : i \in DOMAIN s}

\* The entries of one file come in the order of its list, whatever comes between.
Ordered(s) ==
  /\ s \in Seq(Entry)
  /\ \A i, j \in DOMAIN s : i < j /\ s[i][1] = s[j][1] => s[i][2] < s[j][2]

\* The empty list, and one more at its end.
LEMMA NothingOrdered == Ordered(<<>>) /\ In(<<>>) = {}
BY DEF Ordered, In

LEMMA AppendOrdered ==
  ASSUME NEW s, Ordered(s), NEW e \in Entry, \A g \in In(s) : g[1] = e[1] => g[2] < e[2]
  PROVE  Ordered(Append(s, e)) /\ In(Append(s, e)) = In(s) \cup {e}
<1> DEFINE t == Append(s, e)
           n == Len(s)
<1>1. s \in Seq(Entry) /\ n \in Nat /\ DOMAIN s = 1 .. n
  BY DEF Ordered
<1>2. t \in Seq(Entry) /\ DOMAIN t = 1 .. n + 1 /\ t[n + 1] = e /\ \A i \in 1 .. n : t[i] = s[i]
  BY <1>1
<1> HIDE DEF t, n
<1>3. In(t) = In(s) \cup {e}
  BY <1>1, <1>2 DEF In
<1>4. ASSUME NEW i \in 1 .. n + 1, NEW j \in 1 .. n + 1, i < j, t[i][1] = t[j][1] PROVE t[i][2] < t[j][2]
  <2>1. i \in 1 .. n /\ t[i] = s[i]
    BY <1>1, <1>2, <1>4
  <2>2. CASE j = n + 1
    <3>1. s[i] \in In(s) /\ t[j] = e
      BY <1>1, <1>2, <2>1, <2>2 DEF In
    <3>. QED BY <1>4, <2>1, <3>1
  <2>3. CASE j \in 1 .. n
    BY <1>1, <1>2, <1>4, <2>1, <2>3 DEF Ordered
  <2>. QED BY <1>1, <2>2, <2>3
<1>5. Ordered(t)
  BY <1>2, <1>4 DEF Ordered
<1>. QED BY <1>3, <1>5 DEF t

\* Kept keeps the entries of the set and their order.
LEMMA KeptOrdered ==
  ASSUME NEW s, Ordered(s), NEW those
  PROVE  Ordered(Kept(s, those)) /\ In(Kept(s, those)) = In(s) \cap those
<1> DEFINE n == Len(s)
           V == Seq(Entry)
           g == [p \in (1 .. n) \X V |-> IF s[p[1]] \in those THEN Append(p[2], s[p[1]]) ELSE p[2]]
           Steps(f) == f = [i \in 0 .. n |-> IF i = 0 THEN <<>>
                                            ELSE IF s[i] \in those THEN Append(f[i - 1], s[i]) ELSE f[i - 1]]
<1>1. n \in Nat /\ s \in V /\ DOMAIN s = 1 .. n /\ \A i \in 1 .. n : s[i] \in Entry
  BY DEF Ordered
<1>2. g \in [(1 .. n) \X V -> V]
  <2>1. ASSUME NEW p \in (1 .. n) \X V
        PROVE  (IF s[p[1]] \in those THEN Append(p[2], s[p[1]]) ELSE p[2]) \in V
    <3>1. p[1] \in 1 .. n /\ p[2] \in V
      OBVIOUS
    <3>2. s[p[1]] \in Entry
      BY <1>1, <3>1
    <3>3. Append(p[2], s[p[1]]) \in V
      BY <3>1, <3>2
    <3>. QED BY <3>1, <3>3
  <2>. QED BY <2>1
<1>3. <<>> \in V
  OBVIOUS
<1>4. ASSUME NEW i \in 1 .. n, NEW v \in V PROVE g[<<i, v>>] = IF s[i] \in those THEN Append(v, s[i]) ELSE v
  <2>1. <<i, v>> \in (1 .. n) \X V /\ <<i, v>>[1] = i /\ <<i, v>>[2] = v
    OBVIOUS
  <2>. QED BY <2>1
<1> HIDE DEF g, V, n
<1>5. PICK f \in [0 .. n -> V] : f[0] = <<>> /\ \A i \in 1 .. n : f[i] = g[<<i, f[i - 1]>>]
  <2>1. Recurs(g, n, V)
    BY <1>2 DEF Recurs
  <2>2. \E f : Unfolds(f, <<>>, g, n, V)
    BY <1>1, <1>3, <2>1, Recursion
  <2>. QED BY <2>2 DEF Unfolds
<1>6. ASSUME NEW i \in 0 .. n
      PROVE  f[i] = IF i = 0 THEN <<>> ELSE IF s[i] \in those THEN Append(f[i - 1], s[i]) ELSE f[i - 1]
  <2>1. CASE i = 0
    BY <1>5, <2>1
  <2>2. CASE i # 0
    <3>1. i \in 1 .. n /\ i - 1 \in 0 .. n /\ f[i - 1] \in V
      BY <1>1, <2>2
    <3>2. f[i] = g[<<i, f[i - 1]>>]
      BY <1>5, <3>1
    <3>. QED BY <1>4, <2>2, <3>1, <3>2
  <2>. QED BY <2>1, <2>2
<1>7. \E h : Steps(h)
  <2>1. f = [i \in 0 .. n |-> f[i]]
    OBVIOUS
  <2>2. Steps(f)
    BY <1>6, <2>1
  <2>. QED BY <2>2
<1>8. PICK k : Steps(k) /\ Kept(s, those) = k[n]
  <2>1. Kept(s, those) = (CHOOSE h : Steps(h))[n]
    BY DEF Kept, n
  <2> HIDE DEF Steps
  <2>. QED BY <1>7, <2>1
<1>9. k[0] = <<>> /\ \A i \in 1 .. n : k[i] = IF s[i] \in those THEN Append(k[i - 1], s[i]) ELSE k[i - 1]
  <2>1. ASSUME NEW i \in 0 .. n
        PROVE  k[i] = IF i = 0 THEN <<>> ELSE IF s[i] \in those THEN Append(k[i - 1], s[i]) ELSE k[i - 1]
    BY <1>8
  <2>2. 0 \in 0 .. n /\ \A i \in 1 .. n : i \in 0 .. n /\ i # 0
    BY <1>1
  <2>. QED BY <2>1, <2>2
<1> HIDE DEF Steps
<1> DEFINE Upto(i) == {s[j] : j \in 1 .. i}
           P(i) == Ordered(k[i]) /\ In(k[i]) = Upto(i) \cap those
           T == {i \in Nat : i <= n => P(i)}
<1>10. 0 \in T
  BY <1>9, NothingOrdered
<1>11. ASSUME NEW i \in Nat, i \in T PROVE i + 1 \in T
  <2> SUFFICES ASSUME i + 1 <= n PROVE P(i + 1)
    OBVIOUS
  <2>1. i + 1 \in 1 .. n /\ (i + 1) - 1 = i /\ P(i)
    BY <1>1, <1>11
  <2>2. Upto(i + 1) = Upto(i) \cup {s[i + 1]}
    <3>1. 1 .. i + 1 = (1 .. i) \cup {i + 1}
      OBVIOUS
    <3>. QED BY <3>1
  <2>3. s[i + 1] \in Entry
    BY <1>1, <2>1
  <2>4. CASE s[i + 1] \notin those
    <3>1. k[i + 1] = k[i]
      BY <1>9, <2>1, <2>4
    <3> HIDE DEF Upto
    <3>. QED BY <2>1, <2>2, <2>4, <3>1
  <2>5. CASE s[i + 1] \in those
    <3>1. k[i + 1] = Append(k[i], s[i + 1])
      BY <1>9, <2>1, <2>5
    <3>2. ASSUME NEW q \in In(k[i]), q[1] = s[i + 1][1] PROVE q[2] < s[i + 1][2]
      <4>1. PICK j \in 1 .. i : q = s[j]
        BY <2>1
      <4>2. j \in DOMAIN s /\ i + 1 \in DOMAIN s /\ j < i + 1
        BY <1>1, <2>1
      <4>. QED BY <3>2, <4>1, <4>2 DEF Ordered
    <3>3. Ordered(Append(k[i], s[i + 1])) /\ In(Append(k[i], s[i + 1])) = In(k[i]) \cup {s[i + 1]}
      BY <2>1, <2>3, <3>2, AppendOrdered
    <3> HIDE DEF Upto
    <3>. QED BY <2>1, <2>2, <2>5, <3>1, <3>3
  <2>. QED BY <2>4, <2>5
<1>12. P(n)
  <2>1. Nat \subseteq T
    <3> HIDE DEF T
    <3>. QED BY <1>10, <1>11, Inductive
  <2>. QED BY <1>1, <2>1
<1>13. Upto(n) = In(s)
  BY <1>1 DEF In
<1>. QED BY <1>8, <1>12, <1>13

\* The same entries in two orders that agree within each file.
Alike(s, t) == Ordered(s) /\ Ordered(t) /\ In(s) = In(t)

\* What is kept of alike lists is alike.
LEMMA KeptAlike ==
  ASSUME NEW s, NEW t, Alike(s, t), NEW those
  PROVE  Alike(Kept(s, those), Kept(t, those))
BY KeptOrdered DEF Alike

\* A list with nothing in it is the empty one.
LEMMA NothingIn ==
  ASSUME NEW s, Ordered(s)
  PROVE  s = <<>> <=> In(s) = {}
<1>1. s \in Seq(Entry) /\ DOMAIN s = 1 .. Len(s) /\ Len(s) \in Nat
  BY DEF Ordered
<1>2. CASE s = <<>>
  BY <1>2, NothingOrdered
<1>3. CASE s # <<>>
  <2>1. 1 \in DOMAIN s
    BY <1>1, <1>3
  <2>. QED BY <1>3, <2>1 DEF In
<1>. QED BY <1>2, <1>3

\* Only means the only one, in whatever order.
LEMMA OnlyEntryIs ==
  ASSUME NEW s, Ordered(s)
  PROVE  OnlyEntry(s) = {e \in In(s) : In(s) = {e}}
<1>1. s \in Seq(Entry) /\ DOMAIN s = 1 .. Len(s) /\ Len(s) \in Nat /\ \A i \in DOMAIN s : s[i] \in Nat \X Nat
  BY DEF Ordered, Entry
<1>2. CASE Len(s) = 1
  <2>1. In(s) = {s[1]}
    BY <1>1, <1>2 DEF In
  <2>. QED BY <1>2, <2>1 DEF OnlyEntry
<1>3. CASE Len(s) # 1
  <2>1. ASSUME NEW e, In(s) = {e} PROVE FALSE
    <3>1. CASE Len(s) = 0
      BY <1>1, <2>1, <3>1 DEF In
    <3>2. CASE Len(s) > 1
      <4>1. 1 \in DOMAIN s /\ 2 \in DOMAIN s
        BY <1>1, <3>2
      <4>2. s[1] = e /\ s[2] = e
        BY <2>1, <4>1 DEF In
      <4>3. s[1][1] = s[2][1] => s[1][2] < s[2][2]
        BY <4>1 DEF Ordered
      <4>4. s[1][2] \in Nat
        BY <1>1, <4>1
      <4>. QED BY <4>2, <4>3, <4>4
    <3>. QED BY <1>1, <1>3, <3>1, <3>2
  <2>. QED BY <1>3, <2>1 DEF OnlyEntry, None
<1>. QED BY <1>2, <1>3

\* The first of one file is the one that is first in the file's list.
LEMMA FirstEntryIs ==
  ASSUME NEW s, Ordered(s), NEW f, \A e \in In(s) : e[1] = f
  PROVE  FirstEntry(s) = {e \in In(s) : \A g \in In(s) : e[2] <= g[2]}
<1>1. s \in Seq(Entry) /\ DOMAIN s = 1 .. Len(s) /\ Len(s) \in Nat /\ \A i \in DOMAIN s : s[i] \in Nat \X Nat
  BY DEF Ordered, Entry
<1>2. CASE s = <<>>
  BY <1>2, NothingIn DEF FirstEntry, None
<1>3. CASE s # <<>>
  <2>1. 1 \in DOMAIN s
    BY <1>1, <1>3
  <2>2. \A i \in DOMAIN s : s[i] \in In(s) /\ s[i][1] = f
    BY DEF In
  <2>3. \A i \in DOMAIN s : i # 1 => s[1][2] < s[i][2]
    <3> SUFFICES ASSUME NEW i \in DOMAIN s, i # 1 PROVE s[1][2] < s[i][2]
      OBVIOUS
    <3>1. 1 < i /\ s[1][1] = s[i][1]
      BY <1>1, <2>1, <2>2
    <3>. QED BY <2>1, <3>1 DEF Ordered
  <2>4. \A i \in DOMAIN s : s[i][2] \in Nat
    BY <1>1
  <2>5. \A e \in In(s) : (\A g \in In(s) : e[2] <= g[2]) <=> e = s[1]
    <3> SUFFICES ASSUME NEW i \in DOMAIN s
                 PROVE  (\A g \in In(s) : s[i][2] <= g[2]) <=> s[i] = s[1]
      BY DEF In
    <3>1. ASSUME \A g \in In(s) : s[i][2] <= g[2] PROVE s[i] = s[1]
      <4>1. s[i][2] <= s[1][2]
        BY <2>1, <2>2, <3>1
      <4>2. i = 1
        BY <2>1, <2>3, <2>4, <4>1
      <4>. QED BY <4>2
    <3>2. \A g \in In(s) : s[1][2] <= g[2]
      <4> SUFFICES ASSUME NEW k \in DOMAIN s PROVE s[1][2] <= s[k][2]
        BY DEF In
      <4>. QED BY <2>1, <2>3, <2>4
    <3>. QED BY <3>1, <3>2
  <2>6. s[1] \in In(s)
    BY <2>1, <2>2
  <2>7. FirstEntry(s) = {s[1]}
    BY <1>3 DEF FirstEntry
  <2>. QED BY <2>5, <2>6, <2>7
<1>. QED BY <1>2, <1>3

\* Alike lists have the same only entry, first of a file, best match and picks.
LEMMA OnlyAlike ==
  ASSUME NEW s, NEW t, Alike(s, t)
  PROVE  OnlyEntry(s) = OnlyEntry(t)
BY OnlyEntryIs DEF Alike

LEMMA FirstAlike ==
  ASSUME NEW s, NEW t, Alike(s, t), NEW file
  PROVE  FirstEntry(InFile(s, file)) = FirstEntry(InFile(t, file))
<1> DEFINE a == InFile(s, file)
           b == InFile(t, file)
<1>1. Alike(a, b) /\ \A e \in In(a) : e[1] = file
  <2>1. Alike(a, b)
    BY KeptAlike DEF InFile
  <2>2. In(a) = In(s) \cap {e \in Entries : e[1] = file}
    BY KeptOrdered DEF InFile, Alike
  <2> HIDE DEF a, b
  <2>. QED BY <2>1, <2>2
<1> HIDE DEF a, b
<1>2. Ordered(a) /\ Ordered(b) /\ In(a) = In(b)
  BY <1>1 DEF Alike
<1>3. FirstEntry(a) = {e \in In(a) : \A g \in In(a) : e[2] <= g[2]}
  BY <1>1, <1>2, FirstEntryIs
<1>4. FirstEntry(b) = {e \in In(b) : \A g \in In(b) : e[2] <= g[2]}
  BY <1>1, <1>2, FirstEntryIs
<1>. QED BY <1>2, <1>3, <1>4 DEF a, b

LEMMA BestMatchAlike ==
  ASSUME NEW s, NEW t, Alike(s, t), NEW file
  PROVE  PickBestMatch(s, file) = PickBestMatch(t, file)
BY FirstAlike, OnlyAlike DEF PickBestMatch

LEMMA PythonAlike ==
  ASSUME NEW s, NEW t, Alike(s, t), NEW file
  PROVE  PickPython(s, file) = PickPython(t, file)
<1> DEFINE Smallest(all) == CHOOSE e \in all : \A f \in all :
             e[1] < f[1] \/ (e[1] = f[1] /\ Symbol(e).key <= Symbol(f).key)
           Own(x) == {x[i] : i \in DOMAIN x}
<1>1. s = <<>> <=> t = <<>>
  BY NothingIn DEF Alike
<1>2. FirstEntry(InFile(s, file)) = FirstEntry(InFile(t, file))
  BY FirstAlike
<1>3. Own(s) = Own(t)
  BY DEF Alike, In
<1>4. \A x : PickPython(x, file) = IF x = <<>> THEN None ELSE OrElse(FirstEntry(InFile(x, file)), {Smallest(Own(x))})
  BY DEF PickPython
<1> HIDE DEF Smallest, Own
<1>. QED BY <1>1, <1>2, <1>3, <1>4

LEMMA CppAlike ==
  ASSUME NEW s, NEW t, Alike(s, t), NEW file, NEW line
  PROVE  PickCpp(s, file, line) = PickCpp(t, file, line)
<1> DEFINE around == {e \in Entries : Symbol(e).line <= line /\ line <= Symbol(e).end}
           a == IF file = 0 THEN s ELSE InFile(s, file)
           b == IF file = 0 THEN t ELSE InFile(t, file)
<1>1. Alike(a, b)
  <2>1. Alike(InFile(s, file), InFile(t, file))
    BY KeptAlike DEF InFile
  <2>. QED BY <2>1
<1>2. PickCpp(s, file, line) = IF line # 0 /\ Kept(a, around) # <<>> THEN OnlyEntry(Kept(a, around)) ELSE OnlyEntry(a)
  BY DEF PickCpp
<1>3. PickCpp(t, file, line) = IF line # 0 /\ Kept(b, around) # <<>> THEN OnlyEntry(Kept(b, around)) ELSE OnlyEntry(b)
  BY DEF PickCpp
<1> HIDE DEF a, b, around
<1>4. Alike(Kept(a, around), Kept(b, around))
  BY <1>1, KeptAlike
<1>5. Kept(a, around) = <<>> <=> Kept(b, around) = <<>>
  BY <1>4, NothingIn DEF Alike
<1>6. OnlyEntry(a) = OnlyEntry(b) /\ OnlyEntry(Kept(a, around)) = OnlyEntry(Kept(b, around))
  BY <1>1, <1>4, OnlyAlike
<1>. QED BY <1>2, <1>3, <1>5, <1>6

-----------------------------------------------------------------------------
(* What the groups of a `use` stand for                                    *)

Tokens == Seq(STRING)

\* The tokens that are no names, and `self`, are told apart.
LEMMA Punctuation ==
  /\ OpenBrace # CloseBrace /\ OpenBrace # Comma /\ CloseBrace # Comma
  /\ "self" # OpenBrace /\ "self" # CloseBrace /\ "self" # Comma
<1>1. OpenBrace # CloseBrace
  BY Zenon DEF OpenBrace, CloseBrace
<1>2. OpenBrace # Comma
  BY Zenon DEF OpenBrace, Comma
<1>3. CloseBrace # Comma
  BY Zenon DEF CloseBrace, Comma
<1>4. "self" # OpenBrace
  BY Zenon DEF OpenBrace
<1>5. "self" # CloseBrace
  BY Zenon DEF CloseBrace
<1>6. "self" # Comma
  BY Zenon DEF Comma
<1>. QED BY <1>1, <1>2, <1>3, <1>4, <1>5, <1>6

Deepens(t) == IF t = OpenBrace THEN 1 ELSE IF t = CloseBrace THEN -1 ELSE 0

\* How deep a token is in braces, from the token before it.
LEMMA DepthIs ==
  ASSUME NEW p \in Tokens
  PROVE  /\ Len(p) \in Nat /\ DOMAIN p = 1 .. Len(p)
         /\ Depth(p)[0] = 0
         /\ \A i \in 0 .. Len(p) : Depth(p)[i] \in Int
         /\ \A i \in 1 .. Len(p) : Depth(p)[i] = Depth(p)[i - 1] + Deepens(p[i])
<1> DEFINE n == Len(p)
           g == [x \in (1 .. n) \X Int |-> x[2] + Deepens(p[x[1]])]
           Steps(d) == d = [i \in 0 .. n |-> IF i = 0 THEN 0
                                             ELSE IF p[i] = OpenBrace THEN d[i - 1] + 1
                                             ELSE IF p[i] = CloseBrace THEN d[i - 1] - 1 ELSE d[i - 1]]
<1>1. n \in Nat /\ DOMAIN p = 1 .. n
  BY DEF Tokens
<1>2. \A t : Deepens(t) \in Int
  BY DEF Deepens
<1>3. g \in [(1 .. n) \X Int -> Int]
  BY <1>2
<1>4. ASSUME NEW i \in 1 .. n, NEW v \in Int PROVE g[<<i, v>>] = v + Deepens(p[i])
  <2>1. <<i, v>> \in (1 .. n) \X Int /\ <<i, v>>[1] = i /\ <<i, v>>[2] = v
    OBVIOUS
  <2>. QED BY <2>1
<1> HIDE DEF g, n
<1>5. PICK f \in [0 .. n -> Int] : f[0] = 0 /\ \A i \in 1 .. n : f[i] = g[<<i, f[i - 1]>>]
  <2>1. Recurs(g, n, Int) /\ 0 \in Int
    BY <1>3 DEF Recurs
  <2>2. \E f : Unfolds(f, 0, g, n, Int)
    BY <1>1, <2>1, Recursion
  <2>. QED BY <2>2 DEF Unfolds
<1>6. ASSUME NEW i \in 0 .. n
      PROVE  f[i] = IF i = 0 THEN 0 ELSE IF p[i] = OpenBrace THEN f[i - 1] + 1
                    ELSE IF p[i] = CloseBrace THEN f[i - 1] - 1 ELSE f[i - 1]
  <2>1. CASE i = 0
    BY <1>5, <2>1
  <2>2. CASE i # 0
    <3>1. i \in 1 .. n /\ i - 1 \in 0 .. n /\ f[i - 1] \in Int
      BY <1>1, <2>2
    <3>2. f[i] = f[i - 1] + Deepens(p[i])
      BY <1>4, <1>5, <3>1
    <3>. QED BY <2>2, <3>1, <3>2 DEF Deepens
  <2>. QED BY <2>1, <2>2
<1>7. \E d : Steps(d)
  <2>1. f = [i \in 0 .. n |-> f[i]]
    OBVIOUS
  <2>2. Steps(f)
    BY <1>6, <2>1
  <2>. QED BY <2>2
<1>8. Steps(Depth(p))
  <2>1. Depth(p) = CHOOSE d : Steps(d)
    BY DEF Depth, n
  <2> HIDE DEF Steps
  <2>. QED BY <1>7, <2>1
<1>9. PICK d : d = Depth(p)
  OBVIOUS
<1>10. ASSUME NEW i \in 0 .. n
       PROVE  d[i] = IF i = 0 THEN 0 ELSE IF p[i] = OpenBrace THEN d[i - 1] + 1
                     ELSE IF p[i] = CloseBrace THEN d[i - 1] - 1 ELSE d[i - 1]
  BY <1>8, <1>9
<1> HIDE DEF Steps
<1>11. d[0] = 0 /\ \A i \in 1 .. n : d[i] = IF p[i] = OpenBrace THEN d[i - 1] + 1
                                            ELSE IF p[i] = CloseBrace THEN d[i - 1] - 1 ELSE d[i - 1]
  <2>1. 0 \in 0 .. n /\ \A i \in 1 .. n : i \in 0 .. n /\ i # 0
    BY <1>1
  <2>. QED BY <1>10, <2>1
<1> DEFINE T == {i \in Nat : i <= n => d[i] \in Int}
<1>12. 0 \in T
  BY <1>11
<1>13. ASSUME NEW i \in Nat, i \in T PROVE i + 1 \in T
  <2> SUFFICES ASSUME i + 1 <= n PROVE d[i + 1] \in Int
    OBVIOUS
  <2>1. i + 1 \in 1 .. n /\ (i + 1) - 1 = i /\ d[i] \in Int
    BY <1>1, <1>13
  <2>. QED BY <1>11, <2>1
<1>14. \A i \in 0 .. n : d[i] \in Int
  <2>1. Nat \subseteq T
    <3> HIDE DEF T
    <3>. QED BY <1>12, <1>13, Inductive
  <2>. QED BY <1>1, <2>1
<1>15. ASSUME NEW i \in 1 .. n PROVE d[i] = d[i - 1] + Deepens(p[i])
  <2>1. i - 1 \in 0 .. n
    BY <1>1
  <2>2. d[i - 1] \in Int
    BY <1>14, <2>1
  <2>. QED BY <1>11, <2>2 DEF Deepens
<1>. QED BY <1>1, <1>9, <1>11, <1>14, <1>15 DEF n

\* The m tokens after y in q are those after x in p, and so is their depth.
SameTokens(p, q, x, y, m) == x + m <= Len(p) /\ y + m <= Len(q) /\ \A k \in 1 .. m : q[y + k] = p[x + k]
SameDepth(p, q, x, y, m) == \A k \in 0 .. m : Depth(q)[y + k] - Depth(q)[y] = Depth(p)[x + k] - Depth(p)[x]

\* Where two paths have the same tokens, the depth changes alike.
LEMMA DepthShifts ==
  ASSUME NEW p \in Tokens, NEW q \in Tokens, NEW x \in Nat, NEW y \in Nat, NEW m \in Nat, SameTokens(p, q, x, y, m)
  PROVE  SameDepth(p, q, x, y, m)
<1> DEFINE T == {k \in Nat : k <= m => Depth(q)[y + k] - Depth(q)[y] = Depth(p)[x + k] - Depth(p)[x]}
<1>0. x + m <= Len(p) /\ y + m <= Len(q) /\ \A k \in 1 .. m : q[y + k] = p[x + k]
  BY DEF SameTokens
<1>1. /\ Len(p) \in Nat /\ Len(q) \in Nat
      /\ \A i \in 0 .. Len(p) : Depth(p)[i] \in Int
      /\ \A i \in 1 .. Len(p) : Depth(p)[i] = Depth(p)[i - 1] + Deepens(p[i])
      /\ \A i \in 0 .. Len(q) : Depth(q)[i] \in Int
      /\ \A i \in 1 .. Len(q) : Depth(q)[i] = Depth(q)[i - 1] + Deepens(q[i])
  BY DepthIs
<1>2. x \in 0 .. Len(p) /\ y \in 0 .. Len(q)
  BY <1>0, <1>1
<1>3. 0 \in T
  <2>1. Depth(p)[x] \in Int /\ Depth(q)[y] \in Int
    BY <1>1, <1>2
  <2>. QED BY <2>1
<1>4. ASSUME NEW k \in Nat, k \in T PROVE k + 1 \in T
  <2> SUFFICES ASSUME k + 1 <= m
               PROVE  Depth(q)[y + (k + 1)] - Depth(q)[y] = Depth(p)[x + (k + 1)] - Depth(p)[x]
    OBVIOUS
  <2>1. /\ x + (k + 1) \in 1 .. Len(p) /\ (x + (k + 1)) - 1 = x + k /\ x + k \in 0 .. Len(p)
        /\ y + (k + 1) \in 1 .. Len(q) /\ (y + (k + 1)) - 1 = y + k /\ y + k \in 0 .. Len(q)
        /\ k + 1 \in 1 .. m
    BY <1>0, <1>1
  <2>2. q[y + (k + 1)] = p[x + (k + 1)]
    BY <1>0, <2>1
  <2>3. PICK a \in Int, b \in Int, c \in Int, d \in Int :
          a = Depth(p)[x] /\ b = Depth(p)[x + k] /\ c = Depth(q)[y] /\ d = Depth(q)[y + k]
    BY <1>1, <1>2, <2>1
  <2>4. d - c = b - a
    BY <1>4, <2>3
  <2>5. PICK e \in Int : e = Deepens(p[x + (k + 1)])
    BY DEF Deepens
  <2>6. Depth(p)[x + (k + 1)] = b + e /\ Depth(q)[y + (k + 1)] = d + e
    BY <1>1, <2>1, <2>2, <2>3, <2>5
  <2>7. (d + e) - c = (b + e) - a
    BY <2>4
  <2>. QED BY <2>3, <2>6, <2>7
<1>5. Nat \subseteq T
  <2> HIDE DEF T
  <2>. QED BY <1>3, <1>4, Inductive
<1>. QED BY <1>5 DEF SameDepth

\* Before the first brace every token is a name.
LEMMA BeforeBraces ==
  ASSUME NEW p, UseTree(p), NEW o \in 1 .. Len(p) + 1, \A i \in 1 .. o - 1 : p[i] # OpenBrace
  PROVE  /\ \A i \in 0 .. o - 1 : Depth(p)[i] = 0
         /\ \A i \in 1 .. o - 1 : NameAt(p, i)
<1>1. p \in Tokens /\ \A i \in DOMAIN p : Depth(p)[i] >= 0 /\ (p[i] = Comma => Depth(p)[i] > 0)
  BY DEF UseTree, Tokens
<1>2. /\ Len(p) \in Nat /\ DOMAIN p = 1 .. Len(p) /\ Depth(p)[0] = 0
      /\ \A i \in 0 .. Len(p) : Depth(p)[i] \in Int
      /\ \A i \in 1 .. Len(p) : Depth(p)[i] = Depth(p)[i - 1] + Deepens(p[i])
  BY <1>1, DepthIs
<1> DEFINE T == {i \in Nat : i <= o - 1 => Depth(p)[i] = 0 /\ (i > 0 => NameAt(p, i))}
<1>3. 0 \in T
  BY <1>2
<1>4. ASSUME NEW i \in Nat, i \in T PROVE i + 1 \in T
  <2> SUFFICES ASSUME i + 1 <= o - 1 PROVE Depth(p)[i + 1] = 0 /\ NameAt(p, i + 1)
    OBVIOUS
  <2>1. i + 1 \in 1 .. o - 1 /\ i + 1 \in 1 .. Len(p) /\ (i + 1) - 1 = i /\ Depth(p)[i] = 0
    BY <1>2, <1>4
  <2>2. Depth(p)[i + 1] = 0 + Deepens(p[i + 1])
    BY <1>2, <2>1
  <2>3. p[i + 1] # OpenBrace /\ Depth(p)[i + 1] >= 0 /\ (p[i + 1] = Comma => Depth(p)[i + 1] > 0)
    BY <1>1, <1>2, <2>1
  <2>4. p[i + 1] # CloseBrace /\ Depth(p)[i + 1] = 0
    BY <2>2, <2>3 DEF Deepens
  <2>. QED BY <2>3, <2>4 DEF NameAt
<1>5. Nat \subseteq T
  <2> HIDE DEF T
  <2>. QED BY <1>3, <1>4, Inductive
<1>. QED BY <1>2, <1>5

\* What a tree of the parser is, place by place.
LEMMA TreeIs ==
  ASSUME NEW p, UseTree(p)
  PROVE  /\ p \in Tokens /\ Len(p) \in Nat \ {0} /\ DOMAIN p = 1 .. Len(p)
         /\ Depth(p)[0] = 0 /\ Depth(p)[Len(p)] = 0
         /\ \A i \in 0 .. Len(p) : Depth(p)[i] \in Nat
         /\ \A i \in 1 .. Len(p) :
              /\ Depth(p)[i] = Depth(p)[i - 1] + Deepens(p[i])
              /\ p[i] = Comma => Depth(p)[i] > 0
              /\ p[i] = CloseBrace /\ i < Len(p) => p[i + 1] \in {Comma, CloseBrace}
<1>1. /\ p \in Tokens /\ p # <<>> /\ Depth(p)[Len(p)] = 0
      /\ \A i \in DOMAIN p : /\ Depth(p)[i] >= 0
                             /\ p[i] = Comma => Depth(p)[i] > 0
                             /\ p[i] = CloseBrace /\ i < Len(p) => p[i + 1] \in {Comma, CloseBrace}
  BY DEF UseTree, Tokens
<1>2. /\ Len(p) \in Nat /\ DOMAIN p = 1 .. Len(p) /\ Depth(p)[0] = 0
      /\ \A i \in 0 .. Len(p) : Depth(p)[i] \in Int
      /\ \A i \in 1 .. Len(p) : Depth(p)[i] = Depth(p)[i - 1] + Deepens(p[i])
  BY <1>1, DepthIs
<1>3. Len(p) # 0
  BY <1>1 DEF Tokens
<1>4. ASSUME NEW i \in 0 .. Len(p) PROVE Depth(p)[i] \in Nat
  <2>1. i = 0 \/ i \in DOMAIN p
    BY <1>2
  <2>2. Depth(p)[i] \in Int /\ Depth(p)[i] >= 0
    BY <1>1, <1>2, <2>1
  <2>. QED BY <2>2
<1>5. \A i \in 1 .. Len(p) : /\ p[i] = Comma => Depth(p)[i] > 0
                             /\ p[i] = CloseBrace /\ i < Len(p) => p[i + 1] \in {Comma, CloseBrace}
  BY <1>1, <1>2
<1>. QED BY <1>1, <1>2, <1>3, <1>4, <1>5

\* The first brace of a tree is closed by its last token.
LEMMA OuterGroup ==
  ASSUME NEW p, UseTree(p), NEW o \in 1 .. Len(p), p[o] = OpenBrace, \A i \in 1 .. o - 1 : p[i] # OpenBrace
  PROVE  /\ o < Len(p) /\ p[Len(p)] = CloseBrace
         /\ Depth(p)[o] = 1 /\ Depth(p)[Len(p) - 1] = 1
         /\ \A i \in o .. Len(p) - 1 : Depth(p)[i] >= 1
         /\ MatchingBrace(p, o) = Len(p)
<1> DEFINE n == Len(p)
           S == {i \in o + 1 .. n : Depth(p)[i] = 0}
<1>1. /\ p \in Tokens /\ n \in Nat \ {0}
      /\ Depth(p)[0] = 0 /\ Depth(p)[n] = 0
      /\ \A i \in 0 .. n : Depth(p)[i] \in Nat
      /\ \A i \in 1 .. n : /\ Depth(p)[i] = Depth(p)[i - 1] + Deepens(p[i])
                           /\ p[i] = Comma => Depth(p)[i] > 0
                           /\ p[i] = CloseBrace /\ i < n => p[i + 1] \in {Comma, CloseBrace}
  BY TreeIs
<1>2. Depth(p)[o - 1] = 0
  <2>1. o \in 1 .. Len(p) + 1 /\ o - 1 \in 0 .. o - 1
    BY <1>1
  <2>. QED BY <2>1, BeforeBraces
<1>3. Depth(p)[o] = 1
  <2>1. Depth(p)[o] = 0 + Deepens(p[o])
    BY <1>1, <1>2
  <2>. QED BY <2>1 DEF Deepens
<1>4. o # n /\ o \in Nat
  BY <1>1, <1>3
<1>5. PICK m \in S : \A k \in S : m <= k
  <2>1. S \in SUBSET Nat /\ n \in S
    BY <1>1, <1>4
  <2> HIDE DEF S
  <2>. QED BY <2>1, LeastOf
<1>6. /\ m \in o + 1 .. n /\ Depth(p)[m] = 0
      /\ m - 1 \in o .. n /\ m - 1 \in 0 .. n /\ m \in 1 .. n
  BY <1>1, <1>5
<1>7. \A i \in o .. m - 1 : Depth(p)[i] >= 1
  <2> SUFFICES ASSUME NEW i \in o .. m - 1 PROVE Depth(p)[i] >= 1
    OBVIOUS
  <2>1. i \in 0 .. n /\ Depth(p)[i] \in Nat
    BY <1>1, <1>6
  <2>2. CASE i = o
    BY <1>3, <2>2
  <2>3. CASE i # o
    <3>1. i \in o + 1 .. n /\ ~(m <= i)
      BY <1>1, <1>6, <2>3
    <3>2. i \notin S
      BY <1>5, <3>1
    <3>. QED BY <2>1, <3>1, <3>2
  <2>. QED BY <2>2, <2>3
<1>8. p[m] = CloseBrace /\ Depth(p)[m - 1] = 1
  <2>1. PICK d \in Nat : d = Depth(p)[m - 1] /\ d >= 1
    BY <1>1, <1>6, <1>7
  <2>2. 0 = d + Deepens(p[m])
    BY <1>1, <1>6, <2>1
  <2>3. p[m] = CloseBrace
    BY <2>1, <2>2 DEF Deepens
  <2>. QED BY <2>1, <2>2, <2>3, Punctuation DEF Deepens
<1>9. m = n
  <2> SUFFICES ASSUME m < n PROVE FALSE
    BY <1>1, <1>6
  <2>1. m + 1 \in 1 .. n /\ (m + 1) - 1 = m
    BY <1>1, <1>6
  <2>2. p[m + 1] \in {Comma, CloseBrace}
    BY <1>1, <1>6, <1>8
  <2>3. Depth(p)[m + 1] = 0 + Deepens(p[m + 1]) /\ Depth(p)[m + 1] \in Nat
    BY <1>1, <1>6, <2>1
  <2>4. CASE p[m + 1] = Comma
    <3>1. Depth(p)[m + 1] > 0
      BY <1>1, <2>1, <2>4
    <3>2. Deepens(p[m + 1]) = 0
      BY <2>4, Punctuation DEF Deepens
    <3>. QED BY <2>3, <3>1, <3>2
  <2>5. CASE p[m + 1] = CloseBrace
    <3>1. Deepens(p[m + 1]) = -1
      BY <2>5, Punctuation DEF Deepens
    <3>. QED BY <2>3, <3>1
  <2>. QED BY <2>2, <2>4, <2>5
<1>10. MatchingBrace(p, o) = n
  <2> DEFINE closing == {i \in o + 1 .. n : p[i] = CloseBrace /\ Depth(p)[i] = Depth(p)[o - 1]}
  <2>1. n \in closing
    BY <1>1, <1>2, <1>4, <1>8, <1>9
  <2>2. \A i \in closing : i = n
    <3>1. \A i \in closing : i \in o + 1 .. n /\ Depth(p)[i] = 0
      BY <1>2
    <3>2. \A i \in o + 1 .. n : i # n => Depth(p)[i] >= 1
      BY <1>1, <1>7, <1>9
    <3>. QED BY <3>1, <3>2
  <2>3. closing = {n}
    BY <2>1, <2>2
  <2>4. MatchingBrace(p, o) = IF closing = {} THEN 0 ELSE FirstOf(closing)
    BY DEF MatchingBrace
  <2> HIDE DEF closing
  <2>5. FirstOf({n}) = n
    <3>1. n <= n
      BY <1>1
    <3>. QED BY <3>1 DEF FirstOf
  <2>. QED BY <2>3, <2>4, <2>5
<1>11. \A i \in o .. n - 1 : Depth(p)[i] >= 1
  BY <1>7, <1>9
<1>. QED BY <1>1, <1>3, <1>4, <1>8, <1>9, <1>10, <1>11

\* The first brace of a tree is at o; a comma at depth 1 parts its group.
Outer(p, o) == UseTree(p) /\ o \in 1 .. Len(p) /\ p[o] = OpenBrace /\ \A i \in 1 .. o - 1 : p[i] # OpenBrace
Cuts(p, i) == p[i] = Comma /\ Depth(p)[i] = 1
Part(p, o, a, b) ==
  /\ a \in o + 1 .. Len(p) - 1 /\ b \in a .. Len(p) - 1
  /\ a = o + 1 \/ Cuts(p, a - 1)
  /\ b = Len(p) - 1 \/ Cuts(p, b + 1)
  /\ \A i \in a .. b : ~Cuts(p, i)
PartsOf(p, o) == {c \in Nat \X Nat : Part(p, o, c[1], c[2])}

\* A stretch of a path, token by token.
LEMMA StretchOf ==
  ASSUME NEW p \in Tokens, NEW a \in Nat \ {0}, NEW b \in Nat, a <= b + 1, b <= Len(p)
  PROVE  /\ SubSeq(p, a, b) \in Tokens /\ Len(SubSeq(p, a, b)) = b + 1 - a
         /\ DOMAIN SubSeq(p, a, b) = 1 .. b + 1 - a
         /\ \A k \in 1 .. b + 1 - a : SubSeq(p, a, b)[k] = p[a + k - 1]
<1>1. \A i \in a .. b : p[i] \in STRING
  BY DEF Tokens
<1>2. SubSeq(p, a, b) = [k \in 1 .. b - a + 1 |-> p[a + k - 1]]
  OBVIOUS
<1>3. b - a + 1 \in Nat /\ b - a + 1 = b + 1 - a
  OBVIOUS
<1>4. PICK m \in Nat : m = b + 1 - a
  BY <1>3
<1>5. \A k \in 1 .. m : a + k - 1 \in a .. b
  BY <1>4
<1>6. SubSeq(p, a, b) = [k \in 1 .. m |-> p[a + k - 1]] /\ \A k \in 1 .. m : p[a + k - 1] \in STRING
  BY <1>1, <1>2, <1>3, <1>4, <1>5
<1>7. PICK s : s = SubSeq(p, a, b)
  OBVIOUS
<1>8. s = [k \in 1 .. m |-> p[a + k - 1]]
  BY <1>6, <1>7
<1>9. s \in Seq(STRING) /\ Len(s) = m /\ DOMAIN s = 1 .. m /\ \A k \in 1 .. m : s[k] = p[a + k - 1]
  BY <1>6, <1>8
<1>. QED BY <1>4, <1>7, <1>9 DEF Tokens

\* What is between the braces, and where it is cut.
InnerOf(p, o, inner, m) ==
  /\ m \in Nat /\ Len(p) \in Nat /\ o \in Nat \ {0} /\ inner \in Tokens /\ Len(inner) = m /\ DOMAIN inner = 1 .. m
  /\ \A k \in 1 .. m : inner[k] = p[o + k]
  /\ {k \in DOMAIN inner : inner[k] = Comma /\ Depth(inner)[k] = 0} = {k \in 1 .. m : Cuts(p, o + k)}

LEMMA InnerIs ==
  ASSUME NEW p, NEW o, Outer(p, o), NEW inner, inner = SubSeq(p, o + 1, Len(p) - 1), NEW m, m = Len(p) - 1 - o
  PROVE  InnerOf(p, o, inner, m)
<1>1. /\ p \in Tokens /\ Len(p) \in Nat /\ DOMAIN p = 1 .. Len(p) /\ o \in Nat \ {0}
      /\ o < Len(p) /\ Depth(p)[o] = 1 /\ \A i \in 0 .. Len(p) : Depth(p)[i] \in Nat
  BY TreeIs, OuterGroup DEF Outer
<1>2. PICK n \in Nat : n = Len(p)
  BY <1>1
<1>21. m \in Nat /\ o + m <= n /\ m = n - 1 - o /\ o \in Nat \ {0} /\ o < n
  <2>1. o < n /\ m = n - 1 - o /\ o \in Nat \ {0}
    BY <1>1, <1>2
  <2>. QED BY <2>1
<1>3. inner \in Tokens /\ Len(inner) = m /\ DOMAIN inner = 1 .. m /\ \A k \in 1 .. m : inner[k] = p[o + k]
  <2>1. PICK a \in Nat \ {0}, b \in Nat : a = o + 1 /\ b = Len(p) - 1 /\ a <= b + 1 /\ b <= Len(p) /\ b + 1 - a = m
    <3>1. o + 1 \in Nat \ {0} /\ n - 1 \in Nat /\ o + 1 <= (n - 1) + 1 /\ n - 1 <= n /\ (n - 1) + 1 - (o + 1) = m
      BY <1>21
    <3>. QED BY <1>2, <3>1
  <2>2. /\ inner \in Tokens /\ Len(inner) = b + 1 - a
        /\ DOMAIN inner = 1 .. b + 1 - a
        /\ \A k \in 1 .. b + 1 - a : inner[k] = p[a + k - 1]
    BY <1>1, <2>1, StretchOf
  <2>3. \A k \in 1 .. m : a + k - 1 = o + k
    BY <1>21, <2>1
  <2>. QED BY <2>1, <2>2, <2>3
<1>4. Depth(inner)[0] = 0 /\ \A i \in 0 .. m : Depth(inner)[i] \in Int
  BY <1>3, DepthIs
<1>5. \A k \in 0 .. m : Depth(inner)[k] - Depth(inner)[0] = Depth(p)[o + k] - Depth(p)[o]
  <2>1. PICK z \in Nat : z = 0
    OBVIOUS
  <2>2. z + m <= Len(inner) /\ o + m <= Len(p) /\ o \in Nat /\ \A k \in Nat : z + k = k
    <3>1. Len(inner) = m /\ o \in Nat /\ m \in Nat /\ Len(p) = n
      BY <1>2, <1>21, <1>3
    <3>2. o + m <= n
      BY <1>21
    <3>. QED BY <2>1, <3>1, <3>2
  <2>3. SameTokens(p, inner, o, z, m)
    <3>1. ASSUME NEW k \in 1 .. m PROVE inner[z + k] = p[o + k]
      <4>1. z + k = k
        BY <1>21, <2>2
      <4>2. inner[k] = p[o + k]
        BY <1>3
      <4>. QED BY <4>1, <4>2
    <3>. QED BY <2>2, <3>1 DEF SameTokens
  <2>31. SameDepth(p, inner, o, z, m)
    BY <1>1, <1>21, <1>3, <2>2, <2>3, DepthShifts
  <2>4. \A k \in 0 .. m : Depth(inner)[z + k] - Depth(inner)[z] = Depth(p)[o + k] - Depth(p)[o]
    BY <2>31 DEF SameDepth
  <2> SUFFICES ASSUME NEW k \in 0 .. m PROVE Depth(inner)[k] - Depth(inner)[0] = Depth(p)[o + k] - Depth(p)[o]
    OBVIOUS
  <2>5. z + k = k
    BY <1>21, <2>2
  <2>6. Depth(inner)[z + k] - Depth(inner)[z] = Depth(p)[o + k] - Depth(p)[o]
    BY <2>4
  <2>. QED BY <2>1, <2>5, <2>6
<1>6. ASSUME NEW k \in 1 .. m PROVE Depth(inner)[k] = 0 <=> Depth(p)[o + k] = 1
  <2>1. k \in 0 .. m /\ 0 + k = k /\ o + k \in 0 .. Len(p)
    BY <1>2, <1>21
  <2>2. PICK x \in Int, y \in Nat : x = Depth(inner)[k] /\ y = Depth(p)[o + k]
    BY <1>1, <1>4, <2>1
  <2>3. x - 0 = y - 1
    BY <1>1, <1>4, <1>5, <2>1, <2>2
  <2>. QED BY <2>2, <2>3
<1>7. {k \in DOMAIN inner : inner[k] = Comma /\ Depth(inner)[k] = 0} = {k \in 1 .. m : Cuts(p, o + k)}
  BY <1>3, <1>6 DEF Cuts
<1>. QED BY <1>1, <1>21, <1>3, <1>7 DEF InnerOf

\* Where the part that ends before e starts.
FromCut(commas, e) ==
  1 + (IF \E c \in commas : c < e THEN CHOOSE c \in commas : c < e /\ \A d \in commas : d < e => d <= c ELSE 0)

\* The part that ends before e starts after the last cut before it.
LEMMA CutBefore ==
  ASSUME NEW m \in Nat, NEW commas \in SUBSET (1 .. m), NEW e \in 1 .. m + 1, NEW f, f = FromCut(commas, e)
  PROVE  f \in 1 .. e /\ (f = 1 \/ f - 1 \in commas) /\ \A k \in f .. e - 1 : k \notin commas
<1> DEFINE T == {c \in commas : c < e}
<1>1. CASE T = {}
  <2>1. f = 1 + 0
    BY <1>1 DEF FromCut
  <2>2. \A k \in 1 .. e - 1 : k \notin commas
    BY <1>1
  <2>. QED BY <2>1, <2>2
<1>2. CASE T # {}
  <2>1. T \in SUBSET Nat /\ IsFiniteSet(T)
    <3>1. IsFiniteSet(1 .. m)
      BY FS_Interval
    <3>2. T \subseteq 1 .. m
      OBVIOUS
    <3>3. 1 .. m \subseteq Nat
      OBVIOUS
    <3> HIDE DEF T
    <3>. QED BY <3>1, <3>2, <3>3, FS_Subset
  <2>2. PICK c \in T : \A d \in T : d <= c
    <3> HIDE DEF T
    <3>. QED BY <1>2, <2>1, GreatestOf
  <2>3. \E h \in commas : h < e /\ \A d \in commas : d < e => d <= h
    BY <2>2
  <2>4. PICK g \in commas : g < e /\ (\A d \in commas : d < e => d <= g) /\ f = 1 + g
    BY <2>3 DEF FromCut
  <2>5. g \in 1 .. m /\ f \in 1 .. e /\ f - 1 = g
    BY <2>4
  <2>6. \A k \in f .. e - 1 : k \notin commas
    BY <2>4, <2>5
  <2>. QED BY <2>4, <2>5, <2>6
<1>. QED BY <1>1, <1>2

\* The parts between the cuts of a group, but for the empty ones.
LEMMA PartsAre ==
  ASSUME NEW p, NEW o, Outer(p, o)
  PROVE  TopLevelParts(SubSeq(p, o + 1, Len(p) - 1)) = {SubSeq(p, c[1], c[2]) : c \in PartsOf(p, o)}
<1>1. PICK inner : inner = SubSeq(p, o + 1, Len(p) - 1)
  OBVIOUS
<1>2. PICK m : m = Len(p) - 1 - o
  OBVIOUS
<1> DEFINE commas == {k \in 1 .. m : Cuts(p, o + k)}
           ends == commas \cup {m + 1}
           From(e) == FromCut(commas, e)
<1> HIDE DEF commas, ends, From
<1>30. /\ m \in Nat /\ Len(p) \in Nat /\ o \in Nat \ {0} /\ inner \in Tokens /\ Len(inner) = m /\ DOMAIN inner = 1 .. m
       /\ \A k \in 1 .. m : inner[k] = p[o + k]
       /\ {k \in DOMAIN inner : inner[k] = Comma /\ Depth(inner)[k] = 0} = {k \in 1 .. m : Cuts(p, o + k)}
  <2>1. InnerOf(p, o, inner, m)
    BY <1>1, <1>2, InnerIs
  <2>. QED BY <2>1 DEF InnerOf
<1>3. /\ m \in Nat /\ Len(p) \in Nat /\ o \in Nat \ {0} /\ o + m + 1 = Len(p)
      /\ inner \in Tokens /\ Len(inner) = m /\ DOMAIN inner = 1 .. m
  <2>1. PICK n \in Nat : n = Len(p)
    BY <1>30
  <2>2. m = n - 1 - o /\ m \in Nat /\ o \in Nat
    BY <1>2, <1>30, <2>1
  <2>3. o + m + 1 = n
    BY <2>2
  <2>. QED BY <1>30, <2>1, <2>3
<1>31. \A k \in 1 .. m : inner[k] = p[o + k]
  BY <1>30
<1> USE DEF commas, ends, From
<1>4. TopLevelParts(inner) = {SubSeq(inner, From(e), e - 1) : e \in ends} \ {<<>>}
  <2>1. PICK cs : cs = {k \in DOMAIN inner : inner[k] = Comma /\ Depth(inner)[k] = 0}
    OBVIOUS
  <2>2. cs = commas
    BY <1>30, <2>1
  <2>3. TopLevelParts(inner) = {SubSeq(inner, FromCut(cs, e), e - 1) : e \in cs \cup {Len(inner) + 1}} \ {<<>>}
    BY <2>1 DEF TopLevelParts, FromCut
  <2> HIDE DEF commas
  <2>. QED BY <1>3, <2>2, <2>3
<1>5. commas \in SUBSET (1 .. m) /\ ends \subseteq 1 .. m + 1 /\ \A k \in 1 .. m : k \in commas <=> Cuts(p, o + k)
  BY <1>3
<1>6. ASSUME NEW e \in ends
      PROVE  From(e) \in 1 .. e /\ (From(e) = 1 \/ From(e) - 1 \in commas) /\ \A k \in From(e) .. e - 1 : k \notin commas
  <2>1. e \in 1 .. m + 1 /\ commas \in SUBSET (1 .. m)
    BY <1>5
  <2> HIDE DEF commas, ends
  <2>. QED BY <1>3, <2>1, CutBefore
<1> HIDE DEF commas, From
<1>7. ASSUME NEW f \in 1 .. m + 1, NEW e \in 1 .. m + 1, f <= e - 1
      PROVE  SubSeq(inner, f, e - 1) = SubSeq(p, o + f, o + e - 1) /\ SubSeq(inner, f, e - 1) # <<>>
  <2>1. p \in Tokens
    BY TreeIs DEF Outer
  <2>3. PICK s, t : s = SubSeq(inner, f, e - 1) /\ t = SubSeq(p, o + f, o + e - 1)
    OBVIOUS
  <2>4. s \in Tokens /\ Len(s) = e - f /\ \A k \in 1 .. e - f : s[k] = inner[f + k - 1]
    <3>1. PICK b \in Nat : b = e - 1 /\ f \in Nat \ {0} /\ f <= b + 1 /\ b <= Len(inner) /\ b + 1 - f = e - f
      BY <1>3, <1>7
    <3>. QED BY <1>3, <2>3, <3>1, StretchOf
  <2>5. t \in Tokens /\ Len(t) = e - f /\ \A k \in 1 .. e - f : t[k] = p[o + f + k - 1]
    <3>1. PICK a \in Nat \ {0}, b \in Nat : a = o + f /\ b = o + e - 1 /\ a <= b + 1 /\ b <= Len(p) /\ b + 1 - a = e - f
      BY <1>3, <1>7
    <3>2. t \in Tokens /\ Len(t) = b + 1 - a /\ \A k \in 1 .. b + 1 - a : t[k] = p[a + k - 1]
      BY <2>1, <2>3, <3>1, StretchOf, SMTT(30)
    <3>. QED BY <3>1, <3>2
  <2>6. \A k \in 1 .. e - f : s[k] = t[k]
    <3> SUFFICES ASSUME NEW k \in 1 .. e - f PROVE s[k] = t[k]
      OBVIOUS
    <3>1. f + k - 1 \in 1 .. m /\ o + (f + k - 1) = o + f + k - 1
      BY <1>3, <1>7
    <3>2. inner[f + k - 1] = p[o + (f + k - 1)]
      BY <1>31, <3>1
    <3>. QED BY <2>4, <2>5, <3>1, <3>2
  <2>7. s = t
    BY <2>4, <2>5, <2>6 DEF Tokens
  <2>8. s # <<>>
    BY <1>7, <2>4
  <2>. QED BY <2>3, <2>7, <2>8
<1>8. ASSUME NEW e \in ends, SubSeq(inner, From(e), e - 1) # <<>>
      PROVE  \E c \in PartsOf(p, o) : SubSeq(inner, From(e), e - 1) = SubSeq(p, c[1], c[2])
  <2>1. PICK f : f = From(e)
    OBVIOUS
  <2>2. f \in 1 .. e /\ (f = 1 \/ f - 1 \in commas) /\ (\A k \in f .. e - 1 : k \notin commas) /\ e \in 1 .. m + 1
    BY <1>5, <1>6, <2>1
  <2>3. f <= e - 1
    <3> SUFFICES ASSUME f = e PROVE FALSE
      BY <2>2
    <3>1. SubSeq(inner, e, e - 1) = <<>>
      BY <2>2
    <3>. QED BY <1>8, <2>1, <3>1
  <2>4. PICK a \in Nat, b \in Nat : a = o + f /\ b = o + e - 1
    BY <1>3, <2>2
  <2>5. a \in o + 1 .. Len(p) - 1 /\ b \in a .. Len(p) - 1
    BY <1>3, <2>2, <2>3, <2>4
  <2>6. a = o + 1 \/ Cuts(p, a - 1)
    <3>1. CASE f = 1
      BY <2>4, <3>1
    <3>2. CASE f # 1
      <4>1. f - 1 \in commas /\ f - 1 \in 1 .. m /\ a - 1 = o + (f - 1)
        BY <1>3, <1>5, <2>2, <2>4, <3>2
      <4>2. Cuts(p, o + (f - 1))
        BY <1>5, <4>1
      <4>. QED BY <4>1, <4>2
    <3>. QED BY <3>1, <3>2
  <2>7. b = Len(p) - 1 \/ Cuts(p, b + 1)
    <3>1. CASE e = m + 1
      BY <1>3, <2>4, <3>1
    <3>2. CASE e # m + 1
      <4>1. e \in commas /\ e \in 1 .. m /\ b + 1 = o + e
        BY <1>3, <1>5, <2>2, <2>4, <3>2
      <4>2. Cuts(p, o + e)
        BY <1>5, <4>1
      <4>. QED BY <4>1, <4>2
    <3>. QED BY <3>1, <3>2
  <2>8. ASSUME NEW i \in a .. b, Cuts(p, i) PROVE FALSE
    <3>1. PICK k \in 1 .. m : k \in f .. e - 1 /\ i = o + k
      <4>1. i - o \in 1 .. m /\ i - o \in f .. e - 1 /\ i = o + (i - o)
        BY <1>3, <2>2, <2>4
      <4>. QED BY <4>1
    <3>2. k \in commas
      BY <1>5, <2>8, <3>1
    <3>. QED BY <2>2, <3>1, <3>2
  <2>9. <<a, b>> \in PartsOf(p, o)
    BY <2>5, <2>6, <2>7, <2>8 DEF PartsOf, Part
  <2>10. SubSeq(inner, f, e - 1) = SubSeq(p, a, b)
    <3>1. f \in 1 .. m + 1 /\ e \in 1 .. m + 1
      BY <1>3, <2>2
    <3>2. SubSeq(inner, f, e - 1) = SubSeq(p, o + f, o + e - 1)
      BY <1>7, <2>3, <3>1
    <3>. QED BY <2>4, <3>2
  <2>. QED BY <2>1, <2>9, <2>10
<1>9. ASSUME NEW c \in PartsOf(p, o)
      PROVE  \E e \in ends : SubSeq(inner, From(e), e - 1) # <<>> /\ SubSeq(inner, From(e), e - 1) = SubSeq(p, c[1], c[2])
  <2>1. PICK a \in Nat, b \in Nat : a = c[1] /\ b = c[2] /\ Part(p, o, a, b)
    BY DEF PartsOf
  <2>2. a \in o + 1 .. Len(p) - 1 /\ b \in a .. Len(p) - 1
    BY <2>1 DEF Part
  <2>3. PICK e \in 1 .. m + 1, g \in 1 .. m : e = b + 1 - o /\ g = a - o /\ g <= e - 1
    <3>1. b + 1 - o \in 1 .. m + 1 /\ a - o \in 1 .. m /\ a - o <= (b + 1 - o) - 1
      BY <1>3, <2>2
    <3>. QED BY <3>1
  <2>4. e \in ends
    <3>1. CASE b = Len(p) - 1
      BY <1>3, <2>3, <3>1
    <3>2. CASE b # Len(p) - 1
      <4>1. Cuts(p, b + 1)
        BY <2>1, <3>2 DEF Part
      <4>2. e \in 1 .. m /\ o + e = b + 1
        BY <1>3, <2>2, <2>3, <3>2
      <4>. QED BY <1>5, <4>1, <4>2
    <3>. QED BY <3>1, <3>2
  <2>5. PICK f : f = From(e)
    OBVIOUS
  <2>6. f \in 1 .. e /\ (f = 1 \/ f - 1 \in commas) /\ \A k \in f .. e - 1 : k \notin commas
    BY <1>6, <2>4, <2>5
  <2>7. \A k \in g .. e - 1 : k \notin commas
    <3> SUFFICES ASSUME NEW k \in g .. e - 1, k \in commas PROVE FALSE
      OBVIOUS
    <3>1. k \in 1 .. m /\ o + k \in a .. b
      BY <1>3, <1>5, <2>2, <2>3
    <3>2. Cuts(p, o + k)
      BY <1>5, <3>1
    <3>. QED BY <2>1, <3>1, <3>2 DEF Part
  <2>8. g = 1 \/ g - 1 \in commas
    <3> SUFFICES ASSUME g # 1 PROVE g - 1 \in commas
      OBVIOUS
    <3>1. a # o + 1 /\ g - 1 \in 1 .. m /\ o + (g - 1) = a - 1
      BY <1>3, <2>2, <2>3
    <3>2. Cuts(p, a - 1)
      BY <2>1, <3>1 DEF Part
    <3>. QED BY <1>5, <3>1, <3>2
  <2>9. f = g
    <3>1. f < g => g - 1 \in commas /\ g - 1 \in f .. e - 1
      BY <2>3, <2>6, <2>8
    <3>2. g < f => f - 1 \in commas /\ f - 1 \in g .. e - 1
      BY <2>3, <2>6
    <3>3. ~(f < g) /\ ~(g < f)
      BY <2>6, <2>7, <3>1, <3>2
    <3>. QED BY <2>3, <2>6, <3>3
  <2>10. o + g = a /\ o + e - 1 = b
    BY <1>3, <2>2, <2>3
  <2>11. SubSeq(inner, g, e - 1) = SubSeq(p, a, b) /\ SubSeq(inner, g, e - 1) # <<>>
    <3>1. g \in 1 .. m + 1 /\ e \in 1 .. m + 1
      BY <1>3, <2>3
    <3>2. SubSeq(inner, g, e - 1) = SubSeq(p, o + g, o + e - 1) /\ SubSeq(inner, g, e - 1) # <<>>
      BY <1>7, <2>3, <3>1
    <3>. QED BY <2>10, <3>2
  <2>. QED BY <2>1, <2>4, <2>5, <2>9, <2>11
<1> HIDE DEF ends
<1>10. TopLevelParts(inner) = {SubSeq(p, c[1], c[2]) : c \in PartsOf(p, o)}
  BY <1>4, <1>8, <1>9
<1>. QED BY <1>1, <1>10

\* One turn of the expansion: the prefix before each part, alone before `self`.
Opened(p, o, a, b) ==
  IF SubSeq(p, a, b) = <<"self">> THEN SubSeq(p, 1, o - 1) ELSE SubSeq(p, 1, o - 1) \o SubSeq(p, a, b)

\* One turn of expand_use_group on a tree with a group.
LEMMA ExpandOnceIs ==
  ASSUME NEW p, NEW o, Outer(p, o)
  PROVE  ExpandOnce(p) = {Opened(p, o, c[1], c[2]) : c \in PartsOf(p, o)} \ {<<>>}
<1>1. /\ p \in Tokens /\ Len(p) \in Nat /\ DOMAIN p = 1 .. Len(p) /\ o \in Nat \ {0} /\ o < Len(p)
      /\ MatchingBrace(p, o) = Len(p)
  BY TreeIs, OuterGroup DEF Outer
<1>2. FirstOf({i \in DOMAIN p : p[i] = OpenBrace}) = o
  <2> DEFINE S == {i \in DOMAIN p : p[i] = OpenBrace}
  <2>1. o \in S
    BY <1>1 DEF Outer
  <2>2. \A i \in S : o <= i
    BY <1>1 DEF Outer
  <2>3. \A i \in S : i \in Nat
    BY <1>1
  <2> HIDE DEF S
  <2>4. FirstOf(S) \in S /\ FirstOf(S) <= o
    BY <2>1, <2>2 DEF FirstOf
  <2>5. FirstOf(S) = o
    BY <2>1, <2>2, <2>3, <2>4
  <2>. QED BY <2>5 DEF S
<1>3. \E i \in DOMAIN p : p[i] = OpenBrace
  BY <1>1 DEF Outer
<1>4. SubSeq(p, Len(p) + 1, Len(p)) = <<>>
  BY <1>1 DEF Tokens
<1> DEFINE prefix == SubSeq(p, 1, o - 1)
           Around(part) == IF part = <<"self">> THEN prefix \o <<>> ELSE prefix \o part \o <<>>
<1>5. ExpandOnce(p) = {Around(x) : x \in TopLevelParts(SubSeq(p, o + 1, Len(p) - 1))} \ {<<>>}
  <2>1. Len(p) # 0 /\ o # 0
    BY <1>1
  <2>. QED BY <1>1, <1>2, <1>3, <1>4, <2>1 DEF ExpandOnce
<1>6. prefix \in Tokens
  BY <1>1 DEF Tokens
<1>7. ASSUME NEW c \in PartsOf(p, o) PROVE Around(SubSeq(p, c[1], c[2])) = Opened(p, o, c[1], c[2])
  <2>1. PICK x : x = SubSeq(p, c[1], c[2])
    OBVIOUS
  <2>2. x \in Tokens
    <3>1. PICK a \in Nat, b \in Nat : a = c[1] /\ b = c[2] /\ Part(p, o, a, b)
      BY DEF PartsOf
    <3>2. a \in 1 .. Len(p) /\ b \in 1 .. Len(p)
      BY <1>1, <3>1 DEF Part
    <3>. QED BY <1>1, <2>1, <3>1, <3>2 DEF Tokens
  <2> HIDE DEF prefix
  <2>3. prefix \o <<>> = prefix /\ prefix \o x \in Tokens
    BY <1>6, <2>2 DEF Tokens
  <2>4. (prefix \o x) \o <<>> = prefix \o x
    BY <2>3 DEF Tokens
  <2>. QED BY <2>1, <2>3, <2>4 DEF Opened, prefix
<1> HIDE DEF Around, prefix
<1>8. {Around(x) : x \in {SubSeq(p, c[1], c[2]) : c \in PartsOf(p, o)}} = {Opened(p, o, c[1], c[2]) : c \in PartsOf(p, o)}
  BY <1>7
<1>. QED BY <1>5, <1>8, PartsAre

\* Of some numbers, the one with k - 1 below it is the k-th.
LEMMA NthIs ==
  ASSUME NEW S \in SUBSET Nat, IsFiniteSet(S), NEW x \in S, NEW k, Cardinality({q \in S : q < x}) = k - 1
  PROVE  NthOf(S, k) = x
<1> DEFINE R == {p \in S \X S : p[1] < p[2]}
<1>1. \A a, b \in S : <<a, b>> \in R <=> a < b
  OBVIOUS
<1>2. Orders(R, S)
  <2> HIDE DEF R
  <2>. QED BY <1>1 DEF Orders
<1>3. \A p \in S : Below(R, S, p) = {q \in S : q < p}
  BY DEF Below
<1> HIDE DEF R
<1>4. \A a, b \in S : Cardinality(Below(R, S, a)) < Cardinality(Below(R, S, b)) <=> <<a, b>> \in R
  BY <1>2, RowsAreNumbered, Zenon
<1>5. PICK y : y = NthOf(S, k)
  OBVIOUS
<1>6. y \in S /\ Cardinality({q \in S : q < y}) = k - 1
  BY <1>5 DEF NthOf
<1>7. IsFiniteSet({q \in S : q < x}) /\ Cardinality({q \in S : q < x}) \in Nat
  BY FS_Subset, FS_CardinalityType
<1>8. ~(x < y) /\ ~(y < x)
  <2>1. Cardinality(Below(R, S, x)) = Cardinality(Below(R, S, y))
    BY <1>3, <1>6
  <2>2. Cardinality(Below(R, S, x)) \in Nat
    BY <1>3, <1>7
  <2>3. /\ ~(Cardinality(Below(R, S, x)) < Cardinality(Below(R, S, y)))
        /\ ~(Cardinality(Below(R, S, y)) < Cardinality(Below(R, S, x)))
    BY <2>1, <2>2
  <2>. QED BY <1>1, <1>4, <1>6, <2>3
<1>. QED BY <1>5, <1>6, <1>8

\* A map that keeps the order.
Shifts(f, A, B) ==
  /\ f \in [A -> B]
  /\ \A x, y \in A : x < y => f[x] < f[y]
  /\ \A y \in B : \E x \in A : f[x] = y

\* Numbers moved without changing their order keep their places.
LEMMA NthMoves ==
  ASSUME NEW A \in SUBSET Nat, IsFiniteSet(A), NEW B \in SUBSET Nat, NEW f, Shifts(f, A, B)
  PROVE  /\ IsFiniteSet(B) /\ Cardinality(B) = Cardinality(A) /\ Cardinality(A) \in Nat
         /\ \A k \in 1 .. Cardinality(A) : NthOf(A, k) \in A /\ NthOf(B, k) = f[NthOf(A, k)]
<1>1. /\ f \in [A -> B]
      /\ \A x, y \in A : x < y => f[x] < f[y]
      /\ \A y \in B : \E x \in A : f[x] = y
  BY DEF Shifts
<1>2. \A x, y \in A : x < y <=> f[x] < f[y]
  <2> SUFFICES ASSUME NEW x \in A, NEW y \in A, f[x] < f[y] PROVE x < y
    BY <1>1
  <2>1. x \in Nat /\ y \in Nat /\ f[x] \in Nat /\ f[y] \in Nat
    BY <1>1
  <2>2. ~(y < x) /\ x # y
    BY <1>1, <2>1
  <2>. QED BY <2>1, <2>2
<1>3. \A x, y \in A : f[x] = f[y] => x = y
  <2> SUFFICES ASSUME NEW x \in A, NEW y \in A, f[x] = f[y] PROVE x = y
    OBVIOUS
  <2>1. x \in Nat /\ y \in Nat /\ f[x] \in Nat /\ f[y] \in Nat
    BY <1>1
  <2>. QED BY <1>2, <2>1
<1>4. ExistsBijection(A, B)
  <2>1. f \in Injection(A, B) /\ f \in Surjection(A, B)
    BY <1>1, <1>3 DEF Injection, IsInjective, Surjection
  <2>. QED BY <2>1 DEF ExistsBijection, Bijection
<1>5. IsFiniteSet(B) /\ Cardinality(B) = Cardinality(A) /\ Cardinality(A) \in Nat
  BY <1>4, FS_Bijection, FS_CardinalityType
<1>6. ASSUME NEW k \in 1 .. Cardinality(A) PROVE NthOf(A, k) \in A /\ NthOf(B, k) = f[NthOf(A, k)]
  <2>1. A # {}
    BY <1>5, <1>6, FS_EmptySet
  <2>2. PICK x \in A : x = NthOf(A, k) /\ Cardinality({q \in A : q < x}) = k - 1
    BY <2>1, NumbersInOrder
  <2> DEFINE U == {q \in A : q < x}
             V == {q \in B : q < f[x]}
             g == [q \in U |-> f[q]]
  <2>3. U \in SUBSET A /\ \A q \in U : g[q] = f[q]
    OBVIOUS
  <2>4. \A q \in U : f[q] \in V
    BY <1>1, <1>2
  <2>5. \A y \in V : \E q \in U : f[q] = y
    BY <1>1, <1>2
  <2>6. g \in [U -> V]
    BY <2>4
  <2>7. IsFiniteSet(U)
    BY <2>3, FS_Subset
  <2>8. ExistsBijection(U, V)
    <3> HIDE DEF U, V, g
    <3>1. g \in Injection(U, V) /\ g \in Surjection(U, V)
      BY <1>3, <2>3, <2>4, <2>5, <2>6 DEF Injection, IsInjective, Surjection
    <3>. QED BY <3>1 DEF ExistsBijection, Bijection
  <2>9. Cardinality(V) = k - 1
    <3>1. Cardinality(U) = k - 1
      BY <2>2
    <3> HIDE DEF U, V
    <3>. QED BY <2>7, <2>8, <3>1, FS_Bijection
  <2>10. f[x] \in B
    BY <1>1
  <2>11. NthOf(B, k) = f[x]
    BY <1>5, <2>9, <2>10, NthIs
  <2>. QED BY <2>2, <2>11
<1>. QED BY <1>5, <1>6

\* The names at some places of a path.
NamesAt(path, way) == [k \in 1 .. Cardinality(way) |-> path[NthOf(way, k)]]

\* A path to a leaf is the names on the way to it.
LEMMA PathToIs ==
  ASSUME NEW path, NEW leaf
  PROVE  PathTo(path, leaf) = NamesAt(path, Way(path, leaf))
BY DEF PathTo, NamesAt, NthOf

\* Where the same names are at moved places, the path is the same.
LEMMA NamesMove ==
  ASSUME NEW A \in SUBSET Nat, IsFiniteSet(A), NEW B \in SUBSET Nat, NEW f, Shifts(f, A, B),
         NEW p, NEW q, \A x \in A : q[f[x]] = p[x]
  PROVE  NamesAt(q, B) = NamesAt(p, A)
<1>1. /\ Cardinality(B) = Cardinality(A)
      /\ \A k \in 1 .. Cardinality(A) : NthOf(A, k) \in A /\ NthOf(B, k) = f[NthOf(A, k)]
  BY NthMoves
<1>2. \A k \in 1 .. Cardinality(A) : q[NthOf(B, k)] = p[NthOf(A, k)]
  BY <1>1
<1>. QED BY <1>1, <1>2 DEF NamesAt

\* The names at the first places are the start of the path.
LEMMA NamesAtStart ==
  ASSUME NEW p, NEW c \in Nat
  PROVE  NamesAt(p, 1 .. c) = [k \in 1 .. c |-> p[k]]
<1>1. 1 .. c \in SUBSET Nat
  OBVIOUS
<1>2. \A m \in Nat : IsFiniteSet(1 .. m) /\ Cardinality(1 .. m) = m
  <2> SUFFICES ASSUME NEW m \in Nat PROVE IsFiniteSet(1 .. m) /\ Cardinality(1 .. m) = m
    OBVIOUS
  <2>1. 1 \in Int /\ m \in Int
    OBVIOUS
  <2>2. IsFiniteSet(1 .. m) /\ Cardinality(1 .. m) = IF 1 > m THEN 0 ELSE m - 1 + 1
    BY <2>1, FS_Interval
  <2>. QED BY <2>2
<1>3. ASSUME NEW k \in 1 .. c PROVE NthOf(1 .. c, k) = k
  <2>1. {q \in 1 .. c : q < k} = 1 .. k - 1
    OBVIOUS
  <2>2. k - 1 \in Nat /\ Cardinality(1 .. k - 1) = k - 1
    BY <1>2
  <2>. QED BY <1>1, <1>2, <2>1, <2>2, NthIs
<1>4. Cardinality(1 .. c) = c
  BY <1>2
<1>. QED BY <1>3, <1>4 DEF NamesAt

\* A part of the group of a tree: c names before the brace, the part the l tokens after d.
Slot(p, c, d, l) ==
  /\ c \in Nat /\ d \in Nat /\ l \in Nat \ {0} /\ Len(p) \in Nat /\ c + 1 <= d /\ d + l <= Len(p) - 1
  /\ \A i \in 0 .. c : Depth(p)[i] = 0
  /\ \A i \in 1 .. c : NameAt(p, i)
  /\ Depth(p)[d] = 1 /\ p[d] \in {OpenBrace, Comma} /\ (d = c + 1 \/ p[d] = Comma)
  /\ \A i \in c + 1 .. d : Depth(p)[i] \in Nat /\ Depth(p)[i] >= 1
  /\ Depth(p)[d + l] = 1 /\ p[d + l + 1] \in {Comma, CloseBrace}
  /\ \A k \in 0 .. l : Depth(p)[d + k] \in Nat /\ Depth(p)[d + k] >= 1
  /\ \A k \in 1 .. l : p[d + k] = Comma => Depth(p)[d + k] > 1
  /\ \A k \in 1 .. l - 1 : p[d + k] = CloseBrace => p[d + k + 1] \in {Comma, CloseBrace}
  /\ \A k \in 1 .. l : Depth(p)[d + k] = Depth(p)[d + k - 1] + Deepens(p[d + k])

\* Every part of the outer group of a tree is such a part.
LEMMA SlotIs ==
  ASSUME NEW p, NEW o, Outer(p, o), NEW a, NEW b, Part(p, o, a, b)
  PROVE  \E c, d, l \in Nat : Slot(p, c, d, l) /\ o = c + 1 /\ a = d + 1 /\ b = d + l
<1>1. PICK n \in Nat \ {0} : n = Len(p)
  BY TreeIs DEF Outer
<1>2. /\ Depth(p)[0] = 0 /\ Depth(p)[n] = 0
      /\ \A i \in 0 .. n : Depth(p)[i] \in Nat
      /\ \A i \in 1 .. n :
           /\ Depth(p)[i] = Depth(p)[i - 1] + Deepens(p[i])
           /\ p[i] = Comma => Depth(p)[i] > 0
           /\ p[i] = CloseBrace /\ i < n => p[i + 1] \in {Comma, CloseBrace}
  BY <1>1, TreeIs DEF Outer
<1>3. /\ o \in 1 .. n /\ o < n /\ p[n] = CloseBrace /\ p[o] = OpenBrace
      /\ Depth(p)[o] = 1 /\ Depth(p)[n - 1] = 1
      /\ \A i \in o .. n - 1 : Depth(p)[i] >= 1
  BY <1>1, OuterGroup DEF Outer
<1>4. (\A i \in 0 .. o - 1 : Depth(p)[i] = 0) /\ \A i \in 1 .. o - 1 : NameAt(p, i)
  <2>1. o \in 1 .. Len(p) + 1 /\ UseTree(p) /\ \A i \in 1 .. o - 1 : p[i] # OpenBrace
    BY <1>1, <1>3 DEF Outer
  <2>. QED BY <2>1, BeforeBraces
<1>5. /\ a \in o + 1 .. n - 1 /\ b \in a .. n - 1
      /\ a = o + 1 \/ Cuts(p, a - 1)
      /\ b = n - 1 \/ Cuts(p, b + 1)
      /\ \A i \in a .. b : ~Cuts(p, i)
  BY <1>1 DEF Part
<1>6. PICK c \in Nat, d \in Nat, l \in Nat \ {0} : o = c + 1 /\ a = d + 1 /\ b = d + l
  <2>1. o - 1 \in Nat /\ a - 1 \in Nat /\ b - (a - 1) \in Nat \ {0} /\ o = (o - 1) + 1 /\ a = (a - 1) + 1 /\ b = (a - 1) + (b - (a - 1))
    BY <1>3, <1>5
  <2>. QED BY <2>1
<1>7. c + 1 <= d /\ d + l <= n - 1
  BY <1>5, <1>6
<1>8. (\A i \in 0 .. c : Depth(p)[i] = 0) /\ \A i \in 1 .. c : NameAt(p, i)
  BY <1>4, <1>6
<1>9. Depth(p)[d] = 1 /\ p[d] \in {OpenBrace, Comma} /\ (d = c + 1 \/ p[d] = Comma)
  <2>1. CASE a = o + 1
    <3>1. d = o /\ d = c + 1
      BY <1>6, <2>1
    <3>. QED BY <1>3, <3>1
  <2>2. CASE Cuts(p, a - 1)
    <3>1. a - 1 = d
      BY <1>6
    <3>. QED BY <2>2, <3>1 DEF Cuts
  <2>. QED BY <1>5, <2>1, <2>2
<1>91. \A i \in c + 1 .. d : Depth(p)[i] \in Nat /\ Depth(p)[i] >= 1
  <2>1. \A i \in c + 1 .. d : i \in o .. n - 1 /\ i \in 0 .. n
    BY <1>6, <1>7
  <2>. QED BY <1>2, <1>3, <2>1
<1>10. Depth(p)[d + l] = 1 /\ p[d + l + 1] \in {Comma, CloseBrace}
  <2>1. CASE b = n - 1
    <3>1. d + l = n - 1 /\ d + l + 1 = n
      BY <1>6, <2>1
    <3>. QED BY <1>3, <3>1
  <2>2. CASE Cuts(p, b + 1)
    <3>1. d + l = b /\ d + l + 1 = b + 1 /\ b + 1 \in 1 .. n /\ (b + 1) - 1 = b /\ b \in 0 .. n
      BY <1>6, <1>7
    <3>2. p[b + 1] = Comma /\ Depth(p)[b + 1] = 1
      BY <2>2 DEF Cuts
    <3>3. Deepens(p[b + 1]) = 0
      BY <3>2, Punctuation DEF Deepens
    <3>4. PICK x \in Nat : x = Depth(p)[b]
      BY <1>2, <3>1
    <3>5. 1 = x + 0
      BY <1>2, <3>1, <3>2, <3>3, <3>4
    <3>. QED BY <3>1, <3>2, <3>4, <3>5
  <2>. QED BY <1>5, <2>1, <2>2
<1>11. \A k \in 0 .. l : d + k \in o .. n - 1 /\ d + k \in 0 .. n
  BY <1>6, <1>7
<1>12. \A k \in 0 .. l : Depth(p)[d + k] \in Nat /\ Depth(p)[d + k] >= 1
  BY <1>2, <1>3, <1>11
<1>13. ASSUME NEW k \in 1 .. l, p[d + k] = Comma PROVE Depth(p)[d + k] > 1
  <2>1. k \in 0 .. l /\ d + k \in a .. b
    BY <1>6
  <2>2. Depth(p)[d + k] # 1
    BY <1>5, <1>13, <2>1 DEF Cuts
  <2>. QED BY <1>12, <2>1, <2>2
<1>14. ASSUME NEW k \in 1 .. l - 1, p[d + k] = CloseBrace PROVE p[d + k + 1] \in {Comma, CloseBrace}
  <2>1. d + k \in 1 .. n /\ d + k < n
    BY <1>6, <1>7
  <2>. QED BY <1>2, <1>14, <2>1
<1>15. ASSUME NEW k \in 1 .. l PROVE Depth(p)[d + k] = Depth(p)[d + k - 1] + Deepens(p[d + k])
  <2>1. d + k \in 1 .. n
    BY <1>6, <1>7
  <2>. QED BY <1>2, <2>1
<1>16. Slot(p, c, d, l)
  BY <1>1, <1>7, <1>8, <1>9, <1>91, <1>10, <1>12, <1>13, <1>14, <1>15 DEF Slot
<1>. QED BY <1>6, <1>16

\* q is the first c tokens of p and the l after d.
Glued(p, q, c, d, l) ==
  /\ q \in Tokens /\ Len(q) = c + l /\ DOMAIN q = 1 .. c + l
  /\ \A i \in 1 .. c : q[i] = p[i]
  /\ \A k \in 1 .. l : q[c + k] = p[d + k]

\* The prefix before a part, token by token.
LEMMA GluedIs ==
  ASSUME NEW p \in Tokens, NEW c, NEW d, NEW l, Slot(p, c, d, l)
  PROVE  Glued(p, SubSeq(p, 1, c) \o SubSeq(p, d + 1, d + l), c, d, l)
<1>1. c \in Nat /\ d \in Nat /\ l \in Nat \ {0} /\ Len(p) \in Nat /\ c + 1 <= d /\ d + l <= Len(p) - 1
  BY DEF Slot
<1>2. PICK s, t : s = SubSeq(p, 1, c) /\ t = SubSeq(p, d + 1, d + l)
  OBVIOUS
<1>3. s \in Tokens /\ Len(s) = c /\ \A k \in 1 .. c : s[k] = p[k]
  <2>1. PICK a \in Nat \ {0} : a = 1
    OBVIOUS
  <2>2. a <= c + 1 /\ c <= Len(p) /\ c + 1 - a = c
    BY <1>1, <2>1
  <2>3. s \in Tokens /\ Len(s) = c + 1 - a /\ \A k \in 1 .. c + 1 - a : s[k] = p[a + k - 1]
    BY <1>1, <1>2, <2>1, <2>2, StretchOf
  <2>4. \A k \in 1 .. c : a + k - 1 = k
    BY <1>1, <2>1
  <2>. QED BY <2>2, <2>3, <2>4
<1>4. t \in Tokens /\ Len(t) = l /\ \A k \in 1 .. l : t[k] = p[d + k]
  <2>1. PICK a \in Nat \ {0}, b \in Nat : a = d + 1 /\ b = d + l /\ a <= b + 1 /\ b <= Len(p) /\ b + 1 - a = l
    BY <1>1
  <2>2. t \in Tokens /\ Len(t) = b + 1 - a /\ \A k \in 1 .. b + 1 - a : t[k] = p[a + k - 1]
    BY <1>1, <1>2, <2>1, StretchOf
  <2>3. \A k \in 1 .. l : a + k - 1 = d + k
    BY <1>1, <2>1
  <2>. QED BY <2>1, <2>2, <2>3
<1>5. PICK q : q = s \o t
  OBVIOUS
<1>60. s \in Seq(STRING) /\ t \in Seq(STRING) /\ Len(s) = c /\ Len(t) = l
  BY <1>3, <1>4 DEF Tokens
<1>61. q \in Seq(STRING) /\ Len(q) = Len(s) + Len(t)
  BY <1>5, <1>60, ConcatProperties
<1>6. q \in Tokens /\ Len(q) = c + l /\ DOMAIN q = 1 .. c + l
  BY <1>60, <1>61 DEF Tokens
<1>62. \A i \in 1 .. Len(s) + Len(t) : q[i] = IF i <= Len(s) THEN s[i] ELSE t[i - Len(s)]
  BY <1>5, <1>60, ConcatProperties
<1>7. \A i \in 1 .. c + l : q[i] = IF i <= c THEN s[i] ELSE t[i - c]
  BY <1>60, <1>62
<1>8. ASSUME NEW i \in 1 .. c PROVE q[i] = p[i]
  <2>1. i \in 1 .. c + l /\ i <= c
    BY <1>1
  <2>. QED BY <1>3, <1>7, <2>1
<1>9. ASSUME NEW k \in 1 .. l PROVE q[c + k] = p[d + k]
  <2>1. c + k \in 1 .. c + l /\ ~(c + k <= c) /\ (c + k) - c = k
    BY <1>1
  <2>. QED BY <1>4, <1>7, <2>1
<1>. QED BY <1>2, <1>5, <1>6, <1>8, <1>9 DEF Glued

\* Out of its group a part is one brace less deep.
LEMMA GluedDepth ==
  ASSUME NEW p \in Tokens, NEW c, NEW d, NEW l, Slot(p, c, d, l), NEW q, Glued(p, q, c, d, l)
  PROVE  /\ \A i \in 0 .. c : Depth(q)[i] = 0
         /\ \A k \in 0 .. l : Depth(q)[c + k] = Depth(p)[d + k] - 1
<1>1. c \in Nat /\ d \in Nat /\ l \in Nat \ {0} /\ Len(p) \in Nat /\ c + 1 <= d /\ d + l <= Len(p) - 1
  BY DEF Slot
<1>2. /\ (\A i \in 0 .. c : Depth(p)[i] = 0) /\ Depth(p)[d] = 1
      /\ \A k \in 0 .. l : Depth(p)[d + k] \in Nat
  BY DEF Slot
<1>3. /\ q \in Tokens /\ Len(q) = c + l
      /\ \A i \in 1 .. c : q[i] = p[i]
      /\ \A k \in 1 .. l : q[c + k] = p[d + k]
  BY DEF Glued
<1>4. Depth(q)[0] = 0 /\ Depth(p)[0] = 0 /\ \A i \in 0 .. c + l : Depth(q)[i] \in Int
  BY <1>3, DepthIs
<1>5. ASSUME NEW i \in 0 .. c PROVE Depth(q)[i] = 0
  <2>1. PICK z \in Nat : z = 0
    OBVIOUS
  <2>2. z + c <= Len(p) /\ z + c <= Len(q) /\ z + i = i /\ \A k \in 1 .. c : z + k = k
    BY <1>1, <1>3, <2>1
  <2>3. SameTokens(p, q, z, z, c)
    <3>1. \A k \in 1 .. c : q[z + k] = p[z + k]
      BY <1>3, <2>2
    <3>. QED BY <2>2, <3>1 DEF SameTokens
  <2>4. SameDepth(p, q, z, z, c)
    BY <1>1, <1>3, <2>3, DepthShifts
  <2>5. Depth(q)[z + i] - Depth(q)[z] = Depth(p)[z + i] - Depth(p)[z]
    BY <2>4 DEF SameDepth
  <2>6. PICK x \in Int : x = Depth(q)[i]
    <3>1. i \in 0 .. c + l
      BY <1>1
    <3>. QED BY <1>4, <3>1
  <2>7. x - 0 = 0 - 0
    BY <1>2, <1>4, <2>1, <2>2, <2>5, <2>6
  <2>. QED BY <2>6, <2>7
<1>6. ASSUME NEW k \in 0 .. l PROVE Depth(q)[c + k] = Depth(p)[d + k] - 1
  <2>1. d + l <= Len(p) /\ c + l <= Len(q) /\ c \in 0 .. c /\ c + k \in 0 .. c + l
    BY <1>1, <1>3
  <2>2. SameTokens(p, q, d, c, l)
    BY <1>3, <2>1 DEF SameTokens
  <2>3. SameDepth(p, q, d, c, l)
    BY <1>1, <1>3, <2>2, DepthShifts
  <2>4. Depth(q)[c + k] - Depth(q)[c] = Depth(p)[d + k] - Depth(p)[d]
    BY <2>3 DEF SameDepth
  <2>5. PICK x \in Int, y \in Nat : x = Depth(q)[c + k] /\ y = Depth(p)[d + k]
    BY <1>2, <1>4, <2>1
  <2>6. Depth(q)[c] = 0
    BY <1>5, <2>1
  <2>7. x - 0 = y - 1
    BY <1>2, <2>4, <2>5, <2>6
  <2>. QED BY <2>5, <2>7
<1>. QED BY <1>5, <1>6

\* The first token of a part is a name or a brace, and the part ends before a comma or a brace.
LEMMA SlotStart ==
  ASSUME NEW p, NEW c, NEW d, NEW l, Slot(p, c, d, l)
  PROVE  p[d + 1] # Comma /\ p[d + 1] # CloseBrace
<1>1. /\ d \in Nat /\ l \in Nat \ {0} /\ Depth(p)[d] = 1
      /\ \A k \in 0 .. l : Depth(p)[d + k] \in Nat /\ Depth(p)[d + k] >= 1
      /\ \A k \in 1 .. l : p[d + k] = Comma => Depth(p)[d + k] > 1
      /\ \A k \in 1 .. l : Depth(p)[d + k] = Depth(p)[d + k - 1] + Deepens(p[d + k])
  BY DEF Slot
<1>2. 1 \in 1 .. l /\ 1 \in 0 .. l /\ d + 1 - 1 = d
  BY <1>1
<1>3. Depth(p)[d + 1] = 1 + Deepens(p[d + 1])
  BY <1>1, <1>2
<1>4. p[d + 1] # Comma
  <2> SUFFICES ASSUME p[d + 1] = Comma PROVE FALSE
    OBVIOUS
  <2>1. Deepens(p[d + 1]) = 0
    BY Punctuation DEF Deepens
  <2>. QED BY <1>1, <1>2, <1>3, <2>1
<1>5. p[d + 1] # CloseBrace
  <2> SUFFICES ASSUME p[d + 1] = CloseBrace PROVE FALSE
    OBVIOUS
  <2>1. Deepens(p[d + 1]) = -1
    BY Punctuation DEF Deepens
  <2>. QED BY <1>1, <1>2, <1>3, <2>1
<1>. QED BY <1>4, <1>5

\* The prefix before a part is a tree again, and shorter.
LEMMA GluedTree ==
  ASSUME NEW p \in Tokens, NEW c, NEW d, NEW l, Slot(p, c, d, l), NEW q, Glued(p, q, c, d, l)
  PROVE  UseTree(q) /\ Len(q) <= Len(p) - 2
<1>1. /\ c \in Nat /\ d \in Nat /\ l \in Nat \ {0} /\ Len(p) \in Nat /\ c + 1 <= d /\ d + l <= Len(p) - 1
      /\ \A i \in 1 .. c : NameAt(p, i)
      /\ Depth(p)[d + l] = 1
      /\ \A k \in 0 .. l : Depth(p)[d + k] \in Nat /\ Depth(p)[d + k] >= 1
      /\ \A k \in 1 .. l : p[d + k] = Comma => Depth(p)[d + k] > 1
      /\ \A k \in 1 .. l - 1 : p[d + k] = CloseBrace => p[d + k + 1] \in {Comma, CloseBrace}
  BY DEF Slot
<1>2. /\ q \in Tokens /\ Len(q) = c + l /\ DOMAIN q = 1 .. c + l
      /\ \A i \in 1 .. c : q[i] = p[i]
      /\ \A k \in 1 .. l : q[c + k] = p[d + k]
  BY DEF Glued
<1>3. /\ \A i \in 0 .. c : Depth(q)[i] = 0
      /\ \A k \in 0 .. l : Depth(q)[c + k] = Depth(p)[d + k] - 1
  BY GluedDepth
<1>4. q \in Seq(STRING) \ {<<>>}
  <2>1. Len(q) # 0
    BY <1>1, <1>2
  <2>. QED BY <1>2, <2>1 DEF Tokens
<1>5. Depth(q)[Len(q)] = 0
  <2>1. l \in 0 .. l
    BY <1>1
  <2>2. Depth(q)[c + l] = Depth(p)[d + l] - 1
    BY <1>3, <2>1
  <2>. QED BY <1>1, <1>2, <2>2
<1>6. ASSUME NEW i \in DOMAIN q
      PROVE  /\ Depth(q)[i] >= 0
             /\ q[i] = Comma => Depth(q)[i] > 0
             /\ q[i] = CloseBrace /\ i < Len(q) => q[i + 1] \in {Comma, CloseBrace}
  <2>1. CASE i \in 1 .. c
    <3>1. NameAt(p, i) /\ q[i] = p[i]
      BY <1>1, <1>2, <2>1
    <3>2. q[i] # Comma /\ q[i] # CloseBrace
      BY <3>1 DEF NameAt
    <3>3. i \in 0 .. c
      BY <1>1, <2>1
    <3>4. Depth(q)[i] = 0
      BY <1>3, <3>3
    <3>. QED BY <3>2, <3>4
  <2>2. CASE i \notin 1 .. c
    <3>1. PICK k \in 1 .. l : i = c + k
      <4>1. i - c \in 1 .. l /\ i = c + (i - c)
        BY <1>1, <1>2, <2>2
      <4>. QED BY <4>1
    <3>2. k \in 0 .. l /\ k \in Nat
      BY <1>1
    <3>3. PICK x \in Nat : x = Depth(p)[d + k] /\ x >= 1
      BY <1>1, <3>2
    <3>4. Depth(q)[i] = x - 1 /\ q[i] = p[d + k]
      BY <1>2, <1>3, <3>1, <3>2, <3>3
    <3>5. Depth(q)[i] >= 0
      BY <3>3, <3>4
    <3>6. ASSUME q[i] = Comma PROVE Depth(q)[i] > 0
      <4>1. Depth(p)[d + k] > 1
        BY <1>1, <3>4, <3>6
      <4>. QED BY <3>3, <3>4, <4>1
    <3>7. ASSUME q[i] = CloseBrace, i < Len(q) PROVE q[i + 1] \in {Comma, CloseBrace}
      <4>1. k \in 1 .. l - 1 /\ k + 1 \in 1 .. l /\ i + 1 = c + (k + 1) /\ d + (k + 1) = d + k + 1
        BY <1>1, <1>2, <3>1, <3>7
      <4>2. q[i + 1] = p[d + k + 1]
        BY <1>2, <4>1
      <4>3. p[d + k + 1] \in {Comma, CloseBrace}
        BY <1>1, <3>4, <3>7, <4>1
      <4>. QED BY <4>2, <4>3
    <3>. QED BY <3>5, <3>6, <3>7
  <2>. QED BY <2>1, <2>2
<1>7. UseTree(q)
  BY <1>4, <1>5, <1>6 DEF UseTree
<1>8. Len(q) <= Len(p) - 2
  <2>1. PICK n \in Nat : n = Len(p)
    BY <1>1
  <2>2. c + l <= n - 2
    BY <1>1, <2>1
  <2>. QED BY <1>2, <2>1, <2>2
<1>. QED BY <1>7, <1>8

\* The leaves of what is left are those of the part.
LEMMA GluedLeaves ==
  ASSUME NEW p \in Tokens, NEW c, NEW d, NEW l, Slot(p, c, d, l), NEW q, Glued(p, q, c, d, l)
  PROVE  /\ Leaves(q) \subseteq {c + k : k \in 1 .. l}
         /\ \A k \in 1 .. l : c + k \in Leaves(q) <=> d + k \in Leaves(p)
<1>1. /\ c \in Nat /\ d \in Nat /\ l \in Nat \ {0} /\ Len(p) \in Nat /\ c + 1 <= d /\ d + l <= Len(p) - 1
      /\ \A i \in 1 .. c : NameAt(p, i)
      /\ p[d + l + 1] \in {Comma, CloseBrace}
  BY DEF Slot
<1>2. /\ q \in Tokens /\ Len(q) = c + l /\ DOMAIN q = 1 .. c + l
      /\ \A i \in 1 .. c : q[i] = p[i]
      /\ \A k \in 1 .. l : q[c + k] = p[d + k]
  BY DEF Glued
<1>3. ASSUME NEW i \in Leaves(q) PROVE \E k \in 1 .. l : i = c + k
  <2>1. i \in 1 .. c + l /\ (i = c + l \/ q[i + 1] \in {Comma, CloseBrace})
    BY <1>2 DEF Leaves
  <2>2. CASE i \in 1 .. c
    <3>1. i # c + l
      BY <1>1, <2>2
    <3>2. CASE i = c
      <4>1. 1 \in 1 .. l /\ i + 1 = c + 1
        BY <1>1, <3>2
      <4>2. q[i + 1] = p[d + 1]
        BY <1>2, <4>1
      <4>. QED BY <2>1, <3>1, <4>2, SlotStart
    <3>3. CASE i # c
      <4>1. i + 1 \in 1 .. c
        BY <1>1, <2>2, <3>3
      <4>2. q[i + 1] = p[i + 1] /\ NameAt(p, i + 1)
        BY <1>1, <1>2, <4>1
      <4>. QED BY <2>1, <3>1, <4>2 DEF NameAt
    <3>. QED BY <3>2, <3>3
  <2>3. CASE i \notin 1 .. c
    <3>1. i - c \in 1 .. l /\ i = c + (i - c)
      BY <1>1, <2>1, <2>3
    <3>. QED BY <3>1
  <2>. QED BY <2>2, <2>3
<1>4. ASSUME NEW k \in 1 .. l PROVE c + k \in Leaves(q) <=> d + k \in Leaves(p)
  <2>1. c + k \in DOMAIN q /\ d + k \in DOMAIN p /\ d + k # Len(p) /\ k \in Nat
    <3>1. DOMAIN p = 1 .. Len(p)
      BY DepthIs
    <3>2. c + k \in 1 .. c + l /\ d + k \in 1 .. Len(p) /\ d + k # Len(p)
      BY <1>1
    <3>. QED BY <1>2, <3>1, <3>2
  <2>2. NameAt(q, c + k) <=> NameAt(p, d + k)
    BY <1>2 DEF NameAt
  <2>3. CASE k = l
    <3>1. c + k = Len(q) /\ d + k + 1 = d + l + 1
      BY <1>2, <2>3
    <3>. QED BY <1>1, <2>1, <2>2, <3>1 DEF Leaves
  <2>4. CASE k # l
    <3>1. k + 1 \in 1 .. l /\ c + k # c + l /\ c + k + 1 = c + (k + 1) /\ d + k + 1 = d + (k + 1)
      BY <1>1, <2>4
    <3>2. q[c + k + 1] = p[d + k + 1]
      BY <1>2, <3>1
    <3>. QED BY <1>2, <2>1, <2>2, <3>1, <3>2 DEF Leaves
  <2>. QED BY <2>3, <2>4
<1>. QED BY <1>3, <1>4

\* The conditions on a place of the way to a leaf.
Holds(path, j, leaf) ==
  \A k \in j + 1 .. leaf : /\ Depth(path)[k] >= Depth(path)[j]
                           /\ path[k] = Comma => Depth(path)[k] > Depth(path)[j]
Lone(path, j) == j > 1 /\ path[j] = "self" /\ path[j - 1] \in {OpenBrace, Comma}

\* A way, with its conditions by name.
LEMMA WayIs ==
  ASSUME NEW path, NEW leaf
  PROVE  Way(path, leaf) = {j \in 1 .. leaf : NameAt(path, j) /\ Holds(path, j, leaf) /\ ~(j = leaf /\ Lone(path, j))}
BY Zenon DEF Way, Holds, Lone

\* What is in no brace is on every way past it.
LEMMA RootHolds ==
  ASSUME NEW p, UseTree(p), NEW j \in 1 .. Len(p), Depth(p)[j] = 0, NEW leaf \in 1 .. Len(p)
  PROVE  Holds(p, j, leaf)
<1>1. /\ Len(p) \in Nat
      /\ \A i \in 0 .. Len(p) : Depth(p)[i] \in Nat
      /\ \A i \in 1 .. Len(p) : p[i] = Comma => Depth(p)[i] > 0
  BY TreeIs
<1>2. \A k \in j + 1 .. leaf : k \in 1 .. Len(p) /\ k \in 0 .. Len(p)
  BY <1>1
<1>3. \A k \in j + 1 .. leaf : Depth(p)[k] \in Nat /\ (p[k] = Comma => Depth(p)[k] > 0)
  BY <1>1, <1>2
<1>4. \A k \in j + 1 .. leaf : Depth(p)[k] >= 0
  BY <1>3
<1>. QED BY <1>3, <1>4 DEF Holds

\* The way to a leaf of a part has the names before the group, and none between them and the part.
LEMMA WayOutside ==
  ASSUME NEW p, UseTree(p), NEW c, NEW d, NEW l, Slot(p, c, d, l), NEW k \in 1 .. l
  PROVE  /\ \A i \in 1 .. c : i \in Way(p, d + k)
         /\ \A i \in c + 1 .. d : i \notin Way(p, d + k)
<1>1. /\ c \in Nat /\ d \in Nat /\ l \in Nat \ {0} /\ Len(p) \in Nat /\ c + 1 <= d /\ d + l <= Len(p) - 1
      /\ \A i \in 0 .. c : Depth(p)[i] = 0
      /\ \A i \in 1 .. c : NameAt(p, i)
      /\ Depth(p)[d] = 1 /\ p[d] \in {OpenBrace, Comma} /\ (d = c + 1 \/ p[d] = Comma)
      /\ \A i \in c + 1 .. d : Depth(p)[i] \in Nat /\ Depth(p)[i] >= 1
  BY DEF Slot
<1>2. d + k \in 1 .. Len(p) /\ k \in Nat
  BY <1>1
<1>3. ASSUME NEW i \in 1 .. c PROVE i \in Way(p, d + k)
  <2>1. i \in 0 .. c /\ i \in 1 .. Len(p) /\ i \in 1 .. d + k /\ i # d + k
    BY <1>1, <1>2
  <2>2. Holds(p, i, d + k)
    BY <1>1, <1>2, <2>1, RootHolds
  <2>. QED BY <1>1, <2>1, <2>2, WayIs
<1>4. ASSUME NEW i \in c + 1 .. d, i \in Way(p, d + k) PROVE FALSE
  <2>1. NameAt(p, i) /\ Holds(p, i, d + k)
    BY <1>4, WayIs
  <2>2. i # d
    BY <1>1, <2>1 DEF NameAt
  <2>3. i < d /\ d # c + 1 /\ d \in i + 1 .. d + k
    BY <1>1, <1>2, <2>2
  <2>4. p[d] = Comma
    BY <1>1, <2>3
  <2>5. Depth(p)[d] > Depth(p)[i]
    BY <2>1, <2>3, <2>4 DEF Holds
  <2>6. Depth(p)[i] \in Nat /\ Depth(p)[i] >= 1
    BY <1>1
  <2>. QED BY <1>1, <2>5, <2>6
<1>. QED BY <1>3, <1>4

\* A `self` that starts a part and is a leaf is the part.
LEMMA LoneIsAll ==
  ASSUME NEW p, NEW c, NEW d, NEW l, Slot(p, c, d, l), d + 1 \in Leaves(p)
  PROVE  l = 1
<1> SUFFICES ASSUME l # 1 PROVE FALSE
  OBVIOUS
<1>1. /\ d \in Nat /\ l \in Nat \ {0} /\ Len(p) \in Nat /\ d + l <= Len(p) - 1 /\ Depth(p)[d] = 1
      /\ \A k \in 0 .. l : Depth(p)[d + k] \in Nat /\ Depth(p)[d + k] >= 1
      /\ \A k \in 1 .. l : p[d + k] = Comma => Depth(p)[d + k] > 1
      /\ \A k \in 1 .. l : Depth(p)[d + k] = Depth(p)[d + k - 1] + Deepens(p[d + k])
  BY DEF Slot
<1>2. 1 \in 1 .. l /\ 2 \in 1 .. l /\ 2 \in 0 .. l /\ d + 1 - 1 = d /\ d + 2 - 1 = d + 1 /\ d + 1 + 1 = d + 2 /\ d + 1 # Len(p)
  BY <1>1
<1>3. NameAt(p, d + 1) /\ p[d + 2] \in {Comma, CloseBrace}
  BY <1>2 DEF Leaves
<1>4. Deepens(p[d + 1]) = 0
  BY <1>3 DEF NameAt, Deepens
<1>5. Depth(p)[d + 1] = 1 + 0
  BY <1>1, <1>2, <1>4
<1>6. Depth(p)[d + 2] = 1 + Deepens(p[d + 2])
  BY <1>1, <1>2, <1>5
<1>7. CASE p[d + 2] = Comma
  <2>1. Deepens(p[d + 2]) = 0
    BY <1>7, Punctuation DEF Deepens
  <2>. QED BY <1>1, <1>2, <1>6, <1>7, <2>1
<1>8. CASE p[d + 2] = CloseBrace
  <2>1. Deepens(p[d + 2]) = -1
    BY <1>8, Punctuation DEF Deepens
  <2>. QED BY <1>1, <1>2, <1>6, <2>1
<1>. QED BY <1>3, <1>7, <1>8

\* The way within a part is the way in what is left.
LEMMA WayInside ==
  ASSUME NEW p \in Tokens, NEW c, NEW d, NEW l, Slot(p, c, d, l), NEW q, Glued(p, q, c, d, l),
         NEW k \in 1 .. l, d + k \in Leaves(p), ~(l = 1 /\ p[d + 1] = "self"), NEW j \in 1 .. k
  PROVE  d + j \in Way(p, d + k) <=> c + j \in Way(q, c + k)
<1>1. /\ c \in Nat /\ d \in Nat /\ l \in Nat \ {0} /\ Len(p) \in Nat /\ c + 1 <= d /\ d + l <= Len(p) - 1
      /\ \A i \in 1 .. c : NameAt(p, i)
      /\ \A m \in 0 .. l : Depth(p)[d + m] \in Nat
  BY DEF Slot
<1>2. /\ \A i \in 1 .. c : q[i] = p[i]
      /\ \A m \in 1 .. l : q[c + m] = p[d + m]
  BY DEF Glued
<1>3. \A m \in 0 .. l : Depth(q)[c + m] = Depth(p)[d + m] - 1
  BY GluedDepth
<1>4. k \in Nat /\ j \in Nat /\ j \in 1 .. l /\ j \in 0 .. l /\ d + j \in 1 .. d + k /\ c + j \in 1 .. c + k
  BY <1>1
<1>5. NameAt(p, d + j) <=> NameAt(q, c + j)
  BY <1>2, <1>4 DEF NameAt
<1>6. ASSUME NEW m \in j + 1 .. k
      PROVE  /\ Depth(p)[d + m] >= Depth(p)[d + j] <=> Depth(q)[c + m] >= Depth(q)[c + j]
             /\ Depth(p)[d + m] > Depth(p)[d + j] <=> Depth(q)[c + m] > Depth(q)[c + j]
             /\ q[c + m] = p[d + m]
  <2>1. m \in 1 .. l /\ m \in 0 .. l
    BY <1>1, <1>4
  <2>2. PICK x \in Nat, y \in Nat : x = Depth(p)[d + m] /\ y = Depth(p)[d + j]
    BY <1>1, <1>4, <2>1
  <2>3. Depth(q)[c + m] = x - 1 /\ Depth(q)[c + j] = y - 1
    BY <1>3, <1>4, <2>1, <2>2
  <2>4. q[c + m] = p[d + m]
    BY <1>2, <2>1
  <2>. QED BY <2>2, <2>3, <2>4
<1>7. Holds(p, d + j, d + k) <=> \A m \in j + 1 .. k : /\ Depth(p)[d + m] >= Depth(p)[d + j]
                                                       /\ p[d + m] = Comma => Depth(p)[d + m] > Depth(p)[d + j]
  <2>1. \A m \in j + 1 .. k : d + m \in (d + j) + 1 .. d + k
    BY <1>1, <1>4
  <2>2. \A i \in (d + j) + 1 .. d + k : i - d \in j + 1 .. k /\ d + (i - d) = i
    BY <1>1, <1>4
  <2>. QED BY <2>1, <2>2 DEF Holds
<1>8. Holds(q, c + j, c + k) <=> \A m \in j + 1 .. k : /\ Depth(q)[c + m] >= Depth(q)[c + j]
                                                       /\ q[c + m] = Comma => Depth(q)[c + m] > Depth(q)[c + j]
  <2>1. \A m \in j + 1 .. k : c + m \in (c + j) + 1 .. c + k
    BY <1>1, <1>4
  <2>2. \A i \in (c + j) + 1 .. c + k : i - c \in j + 1 .. k /\ c + (i - c) = i
    BY <1>1, <1>4
  <2>. QED BY <2>1, <2>2 DEF Holds
<1>9. Holds(p, d + j, d + k) <=> Holds(q, c + j, c + k)
  BY <1>6, <1>7, <1>8
<1>10. d + j = d + k <=> c + j = c + k
  BY <1>1, <1>4
<1>11. ASSUME d + j = d + k PROVE Lone(p, d + j) <=> Lone(q, c + j)
  <2>1. CASE j = 1
    <3>1. d + 1 \in Leaves(p)
      BY <1>11, <2>1
    <3>2. l = 1
      BY <3>1, LoneIsAll
    <3>3. ~Lone(p, d + j)
      BY <2>1, <3>2 DEF Lone
    <3>4. ~Lone(q, c + j)
      <4>1. CASE c = 0
        BY <2>1, <4>1 DEF Lone
      <4>2. CASE c # 0
        <5>1. c \in 1 .. c /\ c + j - 1 = c
          BY <1>1, <2>1, <4>2
        <5>2. q[c] = p[c] /\ NameAt(p, c)
          BY <1>1, <1>2, <5>1
        <5>. QED BY <5>1, <5>2 DEF Lone, NameAt
      <4>. QED BY <4>1, <4>2
    <3>. QED BY <3>3, <3>4
  <2>2. CASE j # 1
    <3>1. PICK x \in Nat, y \in Nat, i \in 1 .. l : x = d + j /\ y = c + j /\ x > 1 /\ y > 1 /\ d + i = x - 1 /\ c + i = y - 1
      <4>1. j - 1 \in 1 .. l /\ d + (j - 1) = (d + j) - 1 /\ c + (j - 1) = (c + j) - 1 /\ d + j > 1 /\ c + j > 1
        BY <1>1, <1>4, <2>2
      <4>. QED BY <1>1, <1>4, <4>1
    <3>2. q[y] = p[x]
      BY <1>2, <1>4, <3>1
    <3>3. q[c + i] = p[d + i]
      BY <1>2
    <3>4. q[y - 1] = p[x - 1]
      BY <3>1, <3>3
    <3>5. Lone(p, x) <=> Lone(q, y)
      BY <3>1, <3>2, <3>4 DEF Lone
    <3>. QED BY <3>1, <3>5
  <2>. QED BY <2>1, <2>2
<1>. QED BY <1>4, <1>5, <1>9, <1>10, <1>11, WayIs

\* A way is some of the places up to its leaf.
LEMMA WayRange ==
  ASSUME NEW path, NEW leaf \in Nat
  PROVE  Way(path, leaf) \in SUBSET Nat /\ IsFiniteSet(Way(path, leaf)) /\ Way(path, leaf) \subseteq 1 .. leaf
<1>1. Way(path, leaf) \subseteq 1 .. leaf
  BY WayIs
<1>2. IsFiniteSet(1 .. leaf)
  <2>1. 1 \in Int /\ leaf \in Int
    OBVIOUS
  <2>. QED BY <2>1, FS_Interval
<1>3. 1 .. leaf \subseteq Nat
  OBVIOUS
<1>. QED BY <1>1, <1>2, <1>3, FS_Subset

\* The part is not a `self` that stands alone, and each leaf of it keeps its path.
NotSelf(p, d, l) == ~(l = 1 /\ p[d + 1] = "self")
SamePaths(p, q, c, d, l) == \A k \in 1 .. l : d + k \in Leaves(p) => PathTo(p, d + k) = PathTo(q, c + k)

\* Opening a group changes no path to a leaf of the part.
LEMMA SamePath ==
  ASSUME NEW p, UseTree(p), NEW c, NEW d, NEW l, Slot(p, c, d, l), NEW q, Glued(p, q, c, d, l), NotSelf(p, d, l)
  PROVE  SamePaths(p, q, c, d, l)
<1> SUFFICES ASSUME NEW k \in 1 .. l, d + k \in Leaves(p) PROVE PathTo(p, d + k) = PathTo(q, c + k)
  BY DEF SamePaths
<1>0. ~(l = 1 /\ p[d + 1] = "self")
  BY DEF NotSelf
<1>1. c \in Nat /\ d \in Nat /\ l \in Nat \ {0} /\ Len(p) \in Nat /\ c + 1 <= d /\ d + l <= Len(p) - 1
      /\ \A i \in 0 .. c : Depth(p)[i] = 0
  BY DEF Slot
<1>2. /\ q \in Tokens /\ Len(q) = c + l
      /\ \A i \in 1 .. c : q[i] = p[i]
      /\ \A m \in 1 .. l : q[c + m] = p[d + m]
  BY DEF Glued
<1>3. p \in Tokens /\ UseTree(q)
  BY TreeIs, GluedTree
<1>4. k \in Nat /\ c + k \in 1 .. Len(q) /\ c + k \in Nat /\ d + k \in Nat
  BY <1>1, <1>2
<1> DEFINE A == Way(q, c + k)
           B == Way(p, d + k)
           f == [x \in A |-> IF x <= c THEN x ELSE (x - c) + d]
<1>5. /\ A \in SUBSET Nat /\ IsFiniteSet(A) /\ A \subseteq 1 .. c + k
      /\ B \in SUBSET Nat /\ B \subseteq 1 .. d + k
  BY <1>4, WayRange
<1>6. \A i \in 1 .. c : i \in A /\ i \in B
  <2> SUFFICES ASSUME NEW i \in 1 .. c PROVE i \in A /\ i \in B
    OBVIOUS
  <2>1. i \in Way(p, d + k)
    BY WayOutside
  <2>2. i \in 0 .. c /\ i \in 1 .. Len(q) /\ i \in 1 .. c + k /\ i # c + k
    BY <1>1, <1>2, <1>4
  <2>3. Depth(q)[i] = 0
    BY <1>3, <2>2, GluedDepth
  <2>4. Holds(q, i, c + k)
    BY <1>3, <1>4, <2>2, <2>3, RootHolds
  <2>5. NameAt(q, i)
    <3>1. NameAt(p, i) /\ q[i] = p[i]
      BY <1>2 DEF Slot
    <3>. QED BY <3>1 DEF NameAt
  <2>6. i \in Way(q, c + k)
    BY <2>2, <2>4, <2>5, WayIs
  <2>. QED BY <2>1, <2>6
<1>7. \A i \in c + 1 .. d : i \notin B
  BY WayOutside
<1>8. \A j \in 1 .. k : d + j \in B <=> c + j \in A
  BY <1>0, <1>3, WayInside
<1> HIDE DEF A, B
<1>9. \A x \in A : IF x <= c THEN x \in 1 .. c /\ f[x] = x
                   ELSE \E j \in 1 .. k : x = c + j /\ f[x] = d + j
  <2> SUFFICES ASSUME NEW x \in A PROVE IF x <= c THEN x \in 1 .. c /\ f[x] = x ELSE \E j \in 1 .. k : x = c + j /\ f[x] = d + j
    OBVIOUS
  <2>1. x \in 1 .. c + k /\ f[x] = IF x <= c THEN x ELSE (x - c) + d
    BY <1>5
  <2> HIDE DEF f
  <2>2. CASE x <= c
    BY <1>1, <2>1, <2>2
  <2>3. CASE ~(x <= c)
    <3>1. x - c \in 1 .. k /\ x = c + (x - c) /\ f[x] = d + (x - c)
      BY <1>1, <1>4, <2>1, <2>3
    <3>. QED BY <2>3, <3>1
  <2>. QED BY <2>2, <2>3
<1>10. f \in [A -> B]
  <2>1. \A x \in A : f[x] \in B
    <3> HIDE DEF f
    <3>. QED BY <1>6, <1>8, <1>9
  <2>. QED BY <2>1
<1> HIDE DEF f
<1>11. \A x, y \in A : x < y => f[x] < f[y]
  <2> SUFFICES ASSUME NEW x \in A, NEW y \in A, x < y PROVE f[x] < f[y]
    OBVIOUS
  <2>1. x \in Nat /\ y \in Nat
    BY <1>5
  <2>2. CASE y <= c
    <3>1. x <= c
      BY <1>1, <2>1, <2>2
    <3>. QED BY <1>9, <2>2, <3>1
  <2>3. CASE ~(y <= c)
    <3>1. PICK j \in 1 .. k : y = c + j /\ f[y] = d + j
      BY <1>9, <2>3
    <3>2. CASE x <= c
      <4>1. f[x] = x
        BY <1>9, <3>2
      <4>2. x < d + j
        BY <1>1, <1>4, <2>1, <3>2
      <4>. QED BY <3>1, <4>1, <4>2
    <3>3. CASE ~(x <= c)
      <4>1. PICK i \in 1 .. k : x = c + i /\ f[x] = d + i
        BY <1>9, <3>3
      <4>2. d + i < d + j
        BY <1>1, <1>4, <3>1, <4>1
      <4>. QED BY <3>1, <4>1, <4>2
    <3>. QED BY <3>2, <3>3
  <2>. QED BY <2>2, <2>3
<1>12. \A y \in B : \E x \in A : f[x] = y
  <2> SUFFICES ASSUME NEW y \in B PROVE \E x \in A : f[x] = y
    OBVIOUS
  <2>1. y \in 1 .. d + k /\ y \notin c + 1 .. d
    BY <1>5, <1>7
  <2>2. CASE y <= c
    <3>1. y \in 1 .. c /\ y \in A
      BY <1>1, <1>6, <2>1, <2>2
    <3>. QED BY <1>9, <2>2, <3>1
  <2>3. CASE ~(y <= c)
    <3>1. PICK j \in 1 .. k : y = d + j
      <4>1. y - d \in 1 .. k /\ y = d + (y - d)
        BY <1>1, <1>4, <2>1, <2>3
      <4>. QED BY <4>1
    <3>2. c + j \in A
      BY <1>8, <3>1
    <3>3. ~(c + j <= c)
      BY <1>1
    <3>4. PICK i \in 1 .. k : c + j = c + i /\ f[c + j] = d + i
      BY <1>9, <3>2, <3>3
    <3>5. i = j
      BY <1>1, <1>4, <3>4
    <3>. QED BY <3>1, <3>2, <3>4, <3>5
  <2>. QED BY <2>2, <2>3
<1>13. Shifts(f, A, B)
  BY <1>10, <1>11, <1>12 DEF Shifts
<1>14. \A x \in A : p[f[x]] = q[x]
  <2> SUFFICES ASSUME NEW x \in A PROVE p[f[x]] = q[x]
    OBVIOUS
  <2>1. CASE x <= c
    BY <1>2, <1>9, <2>1
  <2>2. CASE ~(x <= c)
    <3>1. PICK j \in 1 .. k : x = c + j /\ f[x] = d + j
      BY <1>9, <2>2
    <3>2. j \in 1 .. l
      BY <1>1, <1>4
    <3>. QED BY <1>2, <3>1, <3>2
  <2>. QED BY <2>1, <2>2
<1>15. NamesAt(p, B) = NamesAt(q, A)
  BY <1>5, <1>13, <1>14, NamesMove
<1>. QED BY <1>15, PathToIs DEF A, B

\* The path to a `self` that stands alone is the path to its group.
LEMMA SelfPath ==
  ASSUME NEW p, UseTree(p), NEW c, NEW d, NEW l, Slot(p, c, d, l), l = 1, p[d + 1] = "self"
  PROVE  d + 1 \in Leaves(p) /\ PathTo(p, d + 1) = [k \in 1 .. c |-> p[k]]
<1>1. /\ c \in Nat /\ d \in Nat /\ Len(p) \in Nat /\ c + 1 <= d /\ d + l <= Len(p) - 1
      /\ p[d] \in {OpenBrace, Comma} /\ p[d + l + 1] \in {Comma, CloseBrace}
  BY DEF Slot
<1>2. d + 1 \in 1 .. Len(p) /\ d + l + 1 = d + 1 + 1 /\ 1 \in 1 .. l /\ d + 1 > 1 /\ (d + 1) - 1 = d /\ d + 1 \in Nat
  BY <1>1
<1>3. NameAt(p, d + 1)
  BY Punctuation DEF NameAt
<1>4. d + 1 \in Leaves(p)
  <2>1. DOMAIN p = 1 .. Len(p)
    BY TreeIs
  <2>. QED BY <1>1, <1>2, <1>3, <2>1 DEF Leaves
<1>5. Lone(p, d + 1)
  <2>1. PICK x : x = d + 1
    OBVIOUS
  <2>2. x > 1 /\ p[x] = "self" /\ p[x - 1] \in {OpenBrace, Comma}
    BY <1>1, <1>2, <2>1
  <2>3. Lone(p, x)
    BY <2>2 DEF Lone
  <2>. QED BY <2>1, <2>3
<1>6. d + 1 \notin Way(p, d + 1)
  BY <1>5, WayIs
<1>7. (\A i \in 1 .. c : i \in Way(p, d + 1)) /\ \A i \in c + 1 .. d : i \notin Way(p, d + 1)
  BY <1>2, WayOutside
<1>8. Way(p, d + 1) = 1 .. c
  <2>1. \A i \in Way(p, d + 1) : i \in 1 .. d + 1
    BY <1>2, WayRange
  <2>2. \A i \in 1 .. d + 1 : i \in 1 .. c \/ i \in c + 1 .. d \/ i = d + 1
    BY <1>1
  <2>. QED BY <1>6, <1>7, <2>1, <2>2
<1>9. PathTo(p, d + 1) = NamesAt(p, 1 .. c)
  BY <1>8, PathToIs
<1>. QED BY <1>1, <1>4, <1>9, NamesAtStart

\* A tree without a group has one leaf, its end, and is the path to it.
Flat(p) == \A i \in DOMAIN p : p[i] # OpenBrace

Paths(p) == {PathTo(p, i) : i \in Leaves(p)} \ {<<>>}

\* The paths of a tree without a group.
LEMMA FlatPath ==
  ASSUME NEW p, UseTree(p), Flat(p)
  PROVE  Paths(p) = {p}
<1>1. p \in Tokens /\ DOMAIN p = 1 .. Len(p) /\ Len(p) \in Nat \ {0} /\ p # <<>>
  BY TreeIs DEF UseTree
<1>2. PICK n \in Nat \ {0} : n = Len(p)
  BY <1>1
<1>3. (\A i \in 0 .. n : Depth(p)[i] = 0) /\ \A i \in 1 .. n : NameAt(p, i)
  <2>1. PICK o \in Nat : o = n + 1 /\ o - 1 = n
    BY <1>2
  <2>2. o \in 1 .. Len(p) + 1 /\ \A i \in 1 .. o - 1 : p[i] # OpenBrace
    BY <1>1, <1>2, <2>1 DEF Flat
  <2>3. (\A i \in 0 .. o - 1 : Depth(p)[i] = 0) /\ \A i \in 1 .. o - 1 : NameAt(p, i)
    BY <2>2, BeforeBraces
  <2>. QED BY <2>1, <2>3
<1>4. Leaves(p) = {n}
  <2>1. \A i \in 1 .. n : i # n => i + 1 \in 1 .. n
    BY <1>2
  <2>2. \A i \in 1 .. n : i # n => p[i + 1] \notin {Comma, CloseBrace}
    BY <1>3, <2>1 DEF NameAt
  <2>3. n \in 1 .. n
    BY <1>2
  <2>. QED BY <1>1, <1>2, <1>3, <2>2, <2>3 DEF Leaves
<1>5. Way(p, n) = 1 .. n
  <2>1. n \in 1 .. Len(p)
    BY <1>2
  <2>2. \A i \in 1 .. n : Holds(p, i, n)
    <3> SUFFICES ASSUME NEW i \in 1 .. n PROVE Holds(p, i, n)
      OBVIOUS
    <3>1. i \in 1 .. Len(p) /\ i \in 0 .. n
      BY <1>2
    <3>2. Depth(p)[i] = 0
      BY <1>3, <3>1
    <3>. QED BY <2>1, <3>1, <3>2, RootHolds
  <2>3. ~Lone(p, n)
    <3> SUFFICES ASSUME n > 1 PROVE p[n - 1] \notin {OpenBrace, Comma}
      BY DEF Lone
    <3>1. n - 1 \in 1 .. n
      BY <1>2
    <3>. QED BY <1>3, <3>1 DEF NameAt
  <2>. QED BY <1>3, <2>2, <2>3, WayIs
<1>6. PathTo(p, n) = [k \in 1 .. n |-> p[k]]
  BY <1>5, PathToIs, NamesAtStart
<1>7. [k \in 1 .. n |-> p[k]] = p
  <2>1. p \in [1 .. n -> STRING]
    BY <1>1, <1>2 DEF Tokens
  <2>. QED BY <2>1
<1>. QED BY <1>1, <1>4, <1>6, <1>7 DEF Paths

\* Names alone are a tree.
LEMMA NamesAreTrees ==
  ASSUME NEW q \in Tokens, Len(q) # 0, \A i \in 1 .. Len(q) : NameAt(q, i)
  PROVE  UseTree(q) /\ Flat(q)
<1>1. PICK n \in Nat : n = Len(q) /\ n # 0
  BY DepthIs
<1>2. /\ DOMAIN q = 1 .. n /\ Depth(q)[0] = 0
      /\ \A i \in 1 .. n : Depth(q)[i] = Depth(q)[i - 1] + Deepens(q[i])
  BY <1>1, DepthIs
<1>3. \A i \in 1 .. n : Deepens(q[i]) = 0 /\ q[i] # Comma /\ q[i] # CloseBrace /\ q[i] # OpenBrace
  BY <1>1 DEF NameAt, Deepens
<1> DEFINE T == {i \in Nat : i <= n => Depth(q)[i] = 0}
<1>4. 0 \in T
  BY <1>2
<1>5. ASSUME NEW i \in Nat, i \in T PROVE i + 1 \in T
  <2> SUFFICES ASSUME i + 1 <= n PROVE Depth(q)[i + 1] = 0
    OBVIOUS
  <2>1. i + 1 \in 1 .. n /\ (i + 1) - 1 = i /\ Depth(q)[i] = 0
    BY <1>1, <1>5
  <2>2. Depth(q)[i + 1] = 0 + 0
    BY <1>2, <1>3, <2>1
  <2>. QED BY <2>2
<1>6. \A i \in 0 .. n : Depth(q)[i] = 0
  <2>1. Nat \subseteq T
    <3> HIDE DEF T
    <3>. QED BY <1>4, <1>5, Inductive
  <2>. QED BY <1>1, <2>1
<1>7. q \in Seq(STRING) \ {<<>>}
  BY <1>1 DEF Tokens
<1>8. n \in 0 .. n /\ \A i \in DOMAIN q : i \in 0 .. n /\ i \in 1 .. n
  BY <1>1, <1>2
<1>9. Depth(q)[Len(q)] = 0 /\ \A i \in DOMAIN q : Depth(q)[i] = 0
  BY <1>1, <1>6, <1>8
<1>10. \A i \in DOMAIN q : Depth(q)[i] >= 0
  BY <1>9
<1>11. \A i \in DOMAIN q : q[i] # Comma /\ q[i] # CloseBrace /\ q[i] # OpenBrace
  BY <1>3, <1>8
<1>12. UseTree(q)
  BY <1>7, <1>9, <1>10, <1>11 DEF UseTree
<1>. QED BY <1>11, <1>12 DEF Flat

\* A part and the path it leaves.
LEMMA OpenedIs ==
  ASSUME NEW p, UseTree(p), NEW c \in Nat, NEW d \in Nat, NEW l \in Nat, Slot(p, c, d, l)
  PROVE  Opened(p, c + 1, d + 1, d + l)
           = IF l = 1 /\ p[d + 1] = "self" THEN SubSeq(p, 1, c) ELSE SubSeq(p, 1, c) \o SubSeq(p, d + 1, d + l)
<1>1. l # 0 /\ Len(p) \in Nat /\ d + l <= Len(p) - 1 /\ p \in Tokens
  BY TreeIs DEF Slot
<1>2. PICK t : t = SubSeq(p, d + 1, d + l)
  OBVIOUS
<1>3. t \in Tokens /\ Len(t) = l /\ DOMAIN t = 1 .. l /\ t[1] = p[d + 1]
  <2>1. PICK a \in Nat \ {0}, b \in Nat : a = d + 1 /\ b = d + l /\ a <= b + 1 /\ b <= Len(p) /\ b + 1 - a = l
    BY <1>1
  <2>2. t \in Tokens /\ Len(t) = l /\ DOMAIN t = 1 .. l /\ \A k \in 1 .. l : t[k] = p[a + k - 1]
    <3>1. t = SubSeq(p, a, b) /\ p \in Tokens
      BY <1>1, <1>2, <2>1
    <3>2. /\ t \in Tokens /\ Len(t) = b + 1 - a /\ DOMAIN t = 1 .. b + 1 - a
          /\ \A k \in 1 .. b + 1 - a : t[k] = p[a + k - 1]
      BY <2>1, <3>1, StretchOf
    <3>. QED BY <2>1, <3>2
  <2>3. 1 \in 1 .. l /\ a + 1 - 1 = d + 1
    BY <1>1, <2>1
  <2>. QED BY <2>2, <2>3
<1>4. t = <<"self">> <=> l = 1 /\ p[d + 1] = "self"
  <2>1. t = <<"self">> => Len(t) = 1 /\ t[1] = "self"
    OBVIOUS
  <2>2. ASSUME l = 1, p[d + 1] = "self" PROVE t = <<"self">>
    BY <1>3, <2>2 DEF Tokens
  <2>. QED BY <1>3, <2>1, <2>2
<1>5. (c + 1) - 1 = c
  OBVIOUS
<1>. QED BY <1>2, <1>4, <1>5 DEF Opened

\* The paths to the leaves of a part are those of the path it leaves.
LEMMA PartPaths ==
  ASSUME NEW p, NEW o, Outer(p, o), NEW a, NEW b, Part(p, o, a, b), NEW q, q = Opened(p, o, a, b)
  PROVE  /\ q # <<>> => UseTree(q) /\ Len(q) < Len(p)
         /\ \A i \in Leaves(p) : i \in a .. b /\ PathTo(p, i) # <<>> => q # <<>> /\ PathTo(p, i) \in Paths(q)
         /\ q # <<>> => \A r \in Paths(q) : \E i \in Leaves(p) : PathTo(p, i) = r
<1>1. UseTree(p) /\ p \in Tokens
  BY TreeIs DEF Outer
<1>2. PICK c \in Nat, d \in Nat, l \in Nat : Slot(p, c, d, l) /\ o = c + 1 /\ a = d + 1 /\ b = d + l
  BY SlotIs
<1>3. l # 0 /\ Len(p) \in Nat /\ c + 1 <= d /\ d + l <= Len(p) - 1 /\ \A i \in 1 .. c : NameAt(p, i)
  BY <1>2 DEF Slot
<1>4. q = IF l = 1 /\ p[d + 1] = "self" THEN SubSeq(p, 1, c) ELSE SubSeq(p, 1, c) \o SubSeq(p, d + 1, d + l)
  BY <1>1, <1>2, OpenedIs
<1>5. CASE l = 1 /\ p[d + 1] = "self"
  <2>1. q \in Tokens /\ Len(q) = c /\ DOMAIN q = 1 .. c /\ \A k \in 1 .. c : q[k] = p[k]
    <3>1. PICK x \in Nat \ {0} : x = 1
      OBVIOUS
    <3>2. x <= c + 1 /\ c <= Len(p) /\ c + 1 - x = c /\ \A k \in 1 .. c : x + k - 1 = k
      BY <1>3, <3>1
    <3>3. q = SubSeq(p, x, c)
      BY <1>4, <1>5, <3>1
    <3>4. q \in Tokens /\ Len(q) = c + 1 - x /\ DOMAIN q = 1 .. c + 1 - x /\ \A k \in 1 .. c + 1 - x : q[k] = p[x + k - 1]
      BY <1>1, <3>2, <3>3, StretchOf
    <3>. QED BY <3>2, <3>4
  <2>2. q = [k \in 1 .. c |-> p[k]]
    <3>1. q = [k \in 1 .. c |-> q[k]]
      <4>1. q \in [1 .. c -> STRING]
        BY <2>1 DEF Tokens
      <4>. QED BY <4>1
    <3>. QED BY <2>1, <3>1
  <2>3. d + 1 \in Leaves(p) /\ PathTo(p, d + 1) = q
    BY <1>1, <1>2, <1>5, <2>2, SelfPath
  <2>4. ASSUME q # <<>> PROVE UseTree(q) /\ Flat(q)
    <3>1. Len(q) # 0
      BY <2>1, <2>4 DEF Tokens
    <3>2. \A i \in 1 .. Len(q) : NameAt(q, i)
      BY <1>3, <2>1 DEF NameAt
    <3>. QED BY <2>1, <3>1, <3>2, NamesAreTrees
  <2>5. q # <<>> => Paths(q) = {q}
    BY <2>4, FlatPath
  <2>6. \A i \in a .. b : i = d + 1
    BY <1>2, <1>5
  <2>7. Len(q) < Len(p)
    BY <1>3, <2>1
  <2>. QED BY <2>3, <2>4, <2>5, <2>6, <2>7
<1>6. CASE ~(l = 1 /\ p[d + 1] = "self")
  <2>1. Glued(p, q, c, d, l)
    BY <1>1, <1>2, <1>4, <1>6, GluedIs
  <2>2. UseTree(q) /\ Len(q) <= Len(p) - 2 /\ Len(q) \in Nat
    BY <1>1, <1>2, <2>1, GluedTree, TreeIs
  <2>3. Len(q) < Len(p) /\ q # <<>>
    <3>1. Len(q) < Len(p)
      BY <1>3, <2>2
    <3>. QED BY <2>2, <3>1 DEF UseTree
  <2>4. Leaves(q) \subseteq {c + k : k \in 1 .. l} /\ \A k \in 1 .. l : c + k \in Leaves(q) <=> d + k \in Leaves(p)
    BY <1>1, <1>2, <2>1, GluedLeaves
  <2>5. ASSUME NEW k \in 1 .. l, d + k \in Leaves(p) PROVE PathTo(p, d + k) = PathTo(q, c + k)
    <3>1. Slot(p, c, d, l) /\ UseTree(p) /\ NotSelf(p, d, l)
      BY <1>1, <1>2, <1>6 DEF NotSelf
    <3>2. SamePaths(p, q, c, d, l)
      BY <2>1, <3>1, SamePath
    <3>. QED BY <2>5, <3>2 DEF SamePaths
  <2>6. ASSUME NEW i \in Leaves(p), i \in a .. b, PathTo(p, i) # <<>> PROVE PathTo(p, i) \in Paths(q)
    <3>1. PICK k \in 1 .. l : i = d + k
      <4>1. i - d \in 1 .. l /\ i = d + (i - d)
        BY <1>2, <2>6
      <4>. QED BY <4>1
    <3>2. c + k \in Leaves(q) /\ PathTo(p, i) = PathTo(q, c + k)
      BY <2>4, <2>5, <2>6, <3>1
    <3>. QED BY <2>6, <3>2 DEF Paths
  <2>7. ASSUME NEW r \in Paths(q) PROVE \E i \in Leaves(p) : PathTo(p, i) = r
    <3>1. PICK j \in Leaves(q) : r = PathTo(q, j)
      BY DEF Paths
    <3>2. PICK k \in 1 .. l : j = c + k
      BY <2>4, <3>1
    <3>3. d + k \in Leaves(p)
      BY <2>4, <3>1, <3>2
    <3>4. PathTo(p, d + k) = r
      BY <2>5, <3>1, <3>2, <3>3
    <3>. QED BY <3>3, <3>4
  <2>. QED BY <2>2, <2>3, <2>6, <2>7
<1>. QED BY <1>5, <1>6

\* Every leaf is in a part of the outer group.
LEMMA LeafIsInPart ==
  ASSUME NEW p, NEW o, Outer(p, o), NEW i \in Leaves(p)
  PROVE  \E c \in PartsOf(p, o) : i \in c[1] .. c[2]
<1>1. PICK n \in Nat \ {0} : n = Len(p)
  BY TreeIs DEF Outer
<1>2. DOMAIN p = 1 .. n /\ o \in 1 .. n /\ p[o] = OpenBrace /\ o < n /\ p[n] = CloseBrace
  BY <1>1, TreeIs, OuterGroup DEF Outer
<1>3. \A k \in 1 .. o - 1 : NameAt(p, k)
  <2>1. o \in 1 .. Len(p) + 1 /\ UseTree(p) /\ \A k \in 1 .. o - 1 : p[k] # OpenBrace
    BY <1>1, <1>2 DEF Outer
  <2>. QED BY <2>1, BeforeBraces
<1>4. i \in 1 .. n /\ NameAt(p, i) /\ (i = n \/ p[i + 1] \in {Comma, CloseBrace})
  BY <1>1, <1>2 DEF Leaves
<1>5. i # o /\ i # n
  BY <1>2, <1>4 DEF NameAt
<1>6. i \in o + 1 .. n - 1
  <2> SUFFICES ASSUME i < o PROVE FALSE
    BY <1>2, <1>4, <1>5
  <2>1. CASE i + 1 = o
    BY <1>2, <1>4, <1>5, <2>1, Punctuation
  <2>2. CASE i + 1 # o
    <3>1. i + 1 \in 1 .. o - 1
      BY <1>2, <1>4, <2>2
    <3>. QED BY <1>3, <1>4, <1>5, <3>1 DEF NameAt
  <2>. QED BY <2>1, <2>2
<1>7. ~Cuts(p, i)
  BY <1>4 DEF NameAt, Cuts
<1> DEFINE L == {e \in o .. i : e = o \/ Cuts(p, e)}
           H == {e \in i .. n : e = n \/ Cuts(p, e)}
<1>8. PICK g \in L : \A e \in L : e <= g
  <2>1. L \subseteq o .. i /\ o \in L
    BY <1>2, <1>6
  <2>2. IsFiniteSet(o .. i)
    <3>1. o \in Int /\ i \in Int
      BY <1>2, <1>6
    <3>. QED BY <3>1, FS_Interval
  <2>3. o .. i \subseteq Nat
    BY <1>2, <1>6
  <2> HIDE DEF L
  <2>4. IsFiniteSet(L) /\ L \in SUBSET Nat /\ L # {}
    BY <2>1, <2>2, <2>3, FS_Subset
  <2>. QED BY <2>4, GreatestOf
<1>9. PICK h \in H : \A e \in H : h <= e
  <2>1. H \subseteq i .. n /\ n \in i .. n /\ i .. n \subseteq Nat
    BY <1>1, <1>2, <1>6
  <2>2. n \in H
    BY <2>1
  <2> HIDE DEF H
  <2>. QED BY <2>1, <2>2, LeastOf
<1>10. g \in o .. i /\ h \in i .. n /\ (g = o \/ Cuts(p, g)) /\ (h = n \/ Cuts(p, h)) /\ o \in Nat
  BY <1>2, <1>8, <1>9
<1>11. g < i /\ i < h
  BY <1>5, <1>6, <1>7, <1>10
<1>12. PICK a \in Nat, b \in Nat : a = g + 1 /\ b = h - 1
  <2>1. g + 1 \in Nat /\ h - 1 \in Nat
    BY <1>6, <1>10, <1>11
  <2>. QED BY <2>1
<1>13. a \in o + 1 .. n - 1 /\ b \in a .. n - 1 /\ i \in a .. b /\ a - 1 = g /\ b + 1 = h
  BY <1>6, <1>10, <1>11, <1>12
<1>14. ASSUME NEW k \in a .. b, Cuts(p, k) PROVE FALSE
  <2>1. CASE k <= i
    <3>1. k \in o .. i /\ k > g /\ g \in Nat /\ k \in Nat
      BY <1>6, <1>10, <1>13, <2>1
    <3>2. k \in L
      BY <1>14, <3>1
    <3>. QED BY <1>8, <3>1, <3>2
  <2>2. CASE ~(k <= i)
    <3>1. k \in i .. n /\ k < h /\ h \in Nat /\ k \in Nat
      BY <1>6, <1>10, <1>13, <2>2
    <3>2. k \in H
      BY <1>14, <3>1
    <3>. QED BY <1>9, <3>1, <3>2
  <2>. QED BY <2>1, <2>2
<1>15. a = o + 1 \/ Cuts(p, a - 1)
  BY <1>10, <1>12, <1>13
<1>16. b = n - 1 \/ Cuts(p, b + 1)
  BY <1>10, <1>12, <1>13
<1>17. Part(p, o, a, b)
  BY <1>1, <1>13, <1>14, <1>15, <1>16 DEF Part
<1>18. <<a, b>> \in PartsOf(p, o)
  BY <1>17 DEF PartsOf
<1>. QED BY <1>13, <1>18

\* One turn of the expansion keeps the paths, and what it leaves has no group or is shorter.
LEMMA OneTurn ==
  ASSUME NEW p, UseTree(p)
  PROVE  /\ \A q \in ExpandOnce(p) : UseTree(q) /\ (Flat(q) \/ Len(q) < Len(p))
         /\ Paths(p) = UNION {Paths(q) : q \in ExpandOnce(p)}
<1>1. p \in Tokens /\ DOMAIN p = 1 .. Len(p) /\ Len(p) \in Nat
  BY TreeIs
<1>2. CASE Flat(p)
  <2>1. ~(\E i \in DOMAIN p : p[i] = OpenBrace)
    BY <1>2 DEF Flat
  <2>2. ExpandOnce(p) = {p}
    BY <2>1, Zenon DEF ExpandOnce
  <2>3. UNION {Paths(q) : q \in {p}} = Paths(p)
    OBVIOUS
  <2>. QED BY <1>2, <2>2, <2>3
<1>3. CASE ~Flat(p)
  <2> DEFINE S == {i \in 1 .. Len(p) : p[i] = OpenBrace}
  <2>1. PICK o \in S : \A i \in S : o <= i
    <3>1. S \in SUBSET Nat /\ S # {}
      BY <1>1, <1>3 DEF Flat
    <3> HIDE DEF S
    <3>. QED BY <3>1, LeastOf
  <2>2. Outer(p, o)
    <3>1. \A i \in 1 .. o - 1 : i \in 1 .. Len(p) /\ ~(o <= i)
      BY <1>1, <2>1
    <3>2. \A i \in 1 .. o - 1 : p[i] # OpenBrace
      BY <2>1, <3>1
    <3>. QED BY <2>1, <3>2 DEF Outer
  <2> HIDE DEF S
  <2>3. ExpandOnce(p) = {Opened(p, o, c[1], c[2]) : c \in PartsOf(p, o)} \ {<<>>}
    BY <2>2, ExpandOnceIs
  <2>4. ASSUME NEW q \in ExpandOnce(p) PROVE \E a, b \in Nat : Part(p, o, a, b) /\ q = Opened(p, o, a, b) /\ q # <<>>
    BY <2>3 DEF PartsOf
  <2>5. ASSUME NEW q \in ExpandOnce(p)
        PROVE  UseTree(q) /\ Len(q) < Len(p) /\ \A r \in Paths(q) : \E i \in Leaves(p) : PathTo(p, i) = r
    <3>1. PICK a \in Nat, b \in Nat : Part(p, o, a, b) /\ q = Opened(p, o, a, b) /\ q # <<>>
      BY <2>4
    <3>. QED BY <2>2, <3>1, PartPaths
  <2>6. ASSUME NEW q \in ExpandOnce(p), NEW r \in Paths(q) PROVE r \in Paths(p)
    <3>1. PICK i \in Leaves(p) : PathTo(p, i) = r
      BY <2>5
    <3>2. r # <<>>
      BY DEF Paths
    <3>. QED BY <3>1, <3>2 DEF Paths
  <2>7. ASSUME NEW r \in Paths(p) PROVE \E q \in ExpandOnce(p) : r \in Paths(q)
    <3>1. PICK i \in Leaves(p) : PathTo(p, i) = r /\ r # <<>>
      BY DEF Paths
    <3>2. PICK c \in PartsOf(p, o) : i \in c[1] .. c[2]
      BY <2>2, LeafIsInPart
    <3>3. Part(p, o, c[1], c[2])
      BY DEF PartsOf
    <3>4. PICK q : q = Opened(p, o, c[1], c[2])
      OBVIOUS
    <3>5. q # <<>> /\ r \in Paths(q)
      BY <2>2, <3>1, <3>2, <3>3, <3>4, PartPaths
    <3>6. q \in ExpandOnce(p)
      BY <2>3, <3>4, <3>5
    <3>. QED BY <3>5, <3>6
  <2>. QED BY <2>5, <2>6, <2>7
<1>. QED BY <1>2, <1>3

\* After n turns: trees, each without a group or shorter by n, with the paths of the whole.
Turned(path, n, S) ==
  /\ \A q \in S : UseTree(q) /\ (Flat(q) \/ Len(q) + n <= Len(path))
  /\ UNION {Paths(q) : q \in S} = Paths(path)

\* A turn keeps what was so after the turns before it.
LEMMA TurnKeeps ==
  ASSUME NEW path, NEW n \in Nat, NEW S, Turned(path, n, S)
  PROVE  Turned(path, n + 1, UNION {ExpandOnce(p) : p \in S})
<1> DEFINE R == UNION {ExpandOnce(p) : p \in S}
<1>1. (\A q \in S : UseTree(q) /\ (Flat(q) \/ Len(q) + n <= Len(path))) /\ UNION {Paths(q) : q \in S} = Paths(path)
  BY DEF Turned
<1>2. ASSUME NEW q \in R PROVE UseTree(q) /\ (Flat(q) \/ Len(q) + (n + 1) <= Len(path))
  <2>1. PICK p \in S : q \in ExpandOnce(p)
    OBVIOUS
  <2>2. UseTree(p) /\ (Flat(p) \/ Len(p) + n <= Len(path))
    BY <1>1
  <2>3. UseTree(q) /\ (Flat(q) \/ Len(q) < Len(p))
    BY <2>1, <2>2, OneTurn
  <2>4. CASE Flat(p)
    <3>1. ~(\E i \in DOMAIN p : p[i] = OpenBrace)
      BY <2>4 DEF Flat
    <3>2. ExpandOnce(p) = {p}
      BY <3>1, Zenon DEF ExpandOnce
    <3>. QED BY <2>1, <2>3, <2>4, <3>2
  <2>5. CASE ~Flat(p) /\ ~Flat(q)
    <3>1. PICK x \in Nat, y \in Nat : x = Len(q) /\ y = Len(p)
      BY <2>2, <2>3, TreeIs
    <3>2. x < y /\ y + n <= Len(path)
      BY <2>2, <2>3, <2>5, <3>1
    <3>. QED BY <2>3, <3>1, <3>2
  <2>. QED BY <2>3, <2>4, <2>5
<1>3. UNION {Paths(q) : q \in R} = Paths(path)
  <2>1. \A p \in S : Paths(p) = UNION {Paths(q) : q \in ExpandOnce(p)}
    BY <1>1, OneTurn
  <2>2. \A r : r \in UNION {Paths(q) : q \in R} <=> \E p \in S : r \in UNION {Paths(q) : q \in ExpandOnce(p)}
    OBVIOUS
  <2>3. \A r : r \in UNION {Paths(q) : q \in S} <=> \E p \in S : r \in Paths(p)
    OBVIOUS
  <2> HIDE DEF R
  <2>4. \A r : r \in UNION {Paths(q) : q \in R} <=> r \in UNION {Paths(q) : q \in S}
    BY <2>1, <2>2, <2>3
  <2>. QED BY <1>1, <2>4
<1> HIDE DEF R
<1>4. Turned(path, n + 1, R)
  BY <1>2, <1>3 DEF Turned
<1>. QED BY <1>4 DEF R

\* The groups of a `use` expand to the paths to its leaves.
LEMMA GroupExpands ==
  ASSUME NEW path, UseTree(path)
  PROVE  ExpandUseGroup(path) = Paths(path) /\ \A p \in ExpandUseGroup(path) : UseTree(p)
<1>1. PICK L \in Nat : L = Len(path) /\ L # 0
  BY TreeIs
<1> DEFINE Trees == {p \in Tokens : UseTree(p)}
           V == SUBSET Trees
           g == [x \in (1 .. L) \X V |-> UNION {ExpandOnce(p) : p \in x[2]}]
           Turns(t) == t = [n \in 0 .. L |-> IF n = 0 THEN {path} ELSE UNION {ExpandOnce(p) : p \in t[n - 1]}]
<1>2. ASSUME NEW W \in V PROVE UNION {ExpandOnce(p) : p \in W} \in V
  <2>1. \A p \in W : UseTree(p)
    OBVIOUS
  <2>2. ASSUME NEW p \in W, NEW q \in ExpandOnce(p) PROVE q \in Trees
    <3>1. UseTree(q)
      BY <2>1, OneTurn
    <3>2. q \in Tokens
      BY <3>1, TreeIs
    <3>. QED BY <3>1, <3>2
  <2> HIDE DEF Trees
  <2>. QED BY <2>2
<1>3. g \in [(1 .. L) \X V -> V]
  <2> HIDE DEF V
  <2>. QED BY <1>2
<1>4. ASSUME NEW i \in 1 .. L, NEW W \in V PROVE g[<<i, W>>] = UNION {ExpandOnce(p) : p \in W}
  <2> HIDE DEF V
  <2>1. <<i, W>> \in (1 .. L) \X V /\ <<i, W>>[2] = W
    OBVIOUS
  <2>. QED BY <2>1
<1>5. {path} \in V
  <2>1. path \in Trees
    BY TreeIs
  <2> HIDE DEF Trees
  <2>. QED BY <2>1
<1> HIDE DEF g, V, Trees
<1>6. PICK f : f \in [0 .. L -> V] /\ f[0] = {path} /\ \A i \in 1 .. L : f[i] = g[<<i, f[i - 1]>>]
  <2>1. Recurs(g, L, V)
    BY <1>3 DEF Recurs
  <2>2. \E f : Unfolds(f, {path}, g, L, V)
    BY <1>5, <2>1, Recursion
  <2>. QED BY <2>2 DEF Unfolds
<1>7. ASSUME NEW n \in 0 .. L PROVE f[n] = IF n = 0 THEN {path} ELSE UNION {ExpandOnce(p) : p \in f[n - 1]}
  <2>1. CASE n = 0
    BY <1>6, <2>1
  <2>2. CASE n # 0
    <3>1. n \in 1 .. L /\ n - 1 \in 0 .. L /\ f[n - 1] \in V
      BY <1>1, <1>6, <2>2
    <3>. QED BY <1>4, <1>6, <2>2, <3>1
  <2>. QED BY <2>1, <2>2
<1>8. Turns(f)
  <2>1. f = [n \in 0 .. L |-> f[n]]
    BY <1>6
  <2>. QED BY <1>7, <2>1
<1>9. PICK t : Turns(t) /\ ExpandUseGroup(path) = t[L]
  <2>1. ExpandUseGroup(path) = (CHOOSE t : Turns(t))[L]
    BY <1>1 DEF ExpandUseGroup
  <2> HIDE DEF Turns
  <2>. QED BY <1>8, <2>1
<1>10. t[0] = {path} /\ \A n \in 1 .. L : t[n] = UNION {ExpandOnce(p) : p \in t[n - 1]}
  <2>1. 0 \in 0 .. L /\ \A n \in 1 .. L : n \in 0 .. L /\ n # 0
    BY <1>1
  <2>2. \A n \in 0 .. L : t[n] = IF n = 0 THEN {path} ELSE UNION {ExpandOnce(p) : p \in t[n - 1]}
    BY <1>9
  <2> HIDE DEF Turns
  <2>. QED BY <2>1, <2>2
<1> HIDE DEF Turns
<1> DEFINE T == {n \in Nat : n <= L => Turned(path, n, t[n])}
<1>11. 0 \in T
  <2>1. Turned(path, 0, {path})
    <3>1. Len(path) + 0 <= Len(path)
      BY <1>1
    <3>2. UNION {Paths(q) : q \in {path}} = Paths(path)
      OBVIOUS
    <3>. QED BY <3>1, <3>2 DEF Turned
  <2>. QED BY <1>10, <2>1
<1>12. ASSUME NEW n \in Nat, n \in T PROVE n + 1 \in T
  <2> SUFFICES ASSUME n + 1 <= L PROVE Turned(path, n + 1, t[n + 1])
    OBVIOUS
  <2>1. n + 1 \in 1 .. L /\ (n + 1) - 1 = n /\ Turned(path, n, t[n])
    BY <1>1, <1>12
  <2>2. t[n + 1] = UNION {ExpandOnce(p) : p \in t[n]}
    BY <1>10, <2>1
  <2>. QED BY <2>1, <2>2, TurnKeeps
<1>13. Turned(path, L, t[L])
  <2>1. Nat \subseteq T
    <3> HIDE DEF T
    <3>. QED BY <1>11, <1>12, Inductive
  <2>. QED BY <1>1, <2>1
<1>14. \A q \in t[L] : Paths(q) = {q}
  <2> SUFFICES ASSUME NEW q \in t[L] PROVE Paths(q) = {q}
    OBVIOUS
  <2>1. UseTree(q) /\ (Flat(q) \/ Len(q) + L <= L)
    BY <1>1, <1>13 DEF Turned
  <2>2. PICK x \in Nat : x = Len(q) /\ x # 0
    BY <2>1, TreeIs
  <2>3. Flat(q)
    BY <2>1, <2>2
  <2>. QED BY <2>1, <2>3, FlatPath
<1>15. UNION {Paths(q) : q \in t[L]} = t[L]
  BY <1>14
<1>. QED BY <1>9, <1>13, <1>15 DEF Turned

-----------------------------------------------------------------------------
(* What resolves, whatever the order of the files                          *)

\* The segments of an import, as many as there are.
Segmented(modules) == IsFiniteSet(DOMAIN modules)

ImportScore(modules, e) == Cardinality({i \in DOMAIN modules : modules[i] \in Parts[e[1]]})

\* A better score, on a tie the smaller path, then the place in the file.
Beats(modules, a, b) ==
  \/ ImportScore(modules, a) > ImportScore(modules, b)
  \/ /\ ImportScore(modules, a) = ImportScore(modules, b)
     /\ a[1] < b[1] \/ (a[1] = b[1] /\ a[2] < b[2])
BestOf(modules, all) == {b \in all : \A g \in all : g # b => Beats(modules, b, g)}

InTree(all) == \A e \in all : e \in Entry /\ e[1] \in Files

\* A score is a number.
LEMMA ScoreCounts ==
  ASSUME NEW modules, Segmented(modules), NEW e
  PROVE  ImportScore(modules, e) \in Nat
<1>1. {i \in DOMAIN modules : modules[i] \in Parts[e[1]]} \subseteq DOMAIN modules
  OBVIOUS
<1>2. IsFiniteSet({i \in DOMAIN modules : modules[i] \in Parts[e[1]]})
  BY <1>1, FS_Subset DEF Segmented
<1>. QED BY <1>2, FS_CardinalityType DEF ImportScore

\* Of two entries at most one beats the other, and to beat carries over.
LEMMA BeatsOrders ==
  ASSUME NEW modules, Segmented(modules), NEW all, InTree(all), NEW a \in all, NEW b \in all
  PROVE  /\ ~(Beats(modules, a, b) /\ Beats(modules, b, a))
         /\ \A c \in all : Beats(modules, a, b) /\ Beats(modules, b, c) => Beats(modules, a, c)
<1>1. \A e \in all : ImportScore(modules, e) \in Nat /\ e[1] \in Nat /\ e[2] \in Nat
  BY ScoreCounts DEF InTree, Entry
<1>2. PICK x \in Nat, p \in Nat, q \in Nat : x = ImportScore(modules, a) /\ p = a[1] /\ q = a[2]
  BY <1>1
<1>3. PICK y \in Nat, r \in Nat, s \in Nat : y = ImportScore(modules, b) /\ r = b[1] /\ s = b[2]
  BY <1>1
<1>4. ~(Beats(modules, a, b) /\ Beats(modules, b, a))
  BY <1>2, <1>3 DEF Beats
<1>5. ASSUME NEW c \in all, Beats(modules, a, b), Beats(modules, b, c) PROVE Beats(modules, a, c)
  <2>1. PICK z \in Nat, t \in Nat, u \in Nat : z = ImportScore(modules, c) /\ t = c[1] /\ u = c[2]
    BY <1>1
  <2>2. x > y \/ (x = y /\ (p < r \/ (p = r /\ q < s)))
    BY <1>2, <1>3, <1>5 DEF Beats
  <2>3. y > z \/ (y = z /\ (r < t \/ (r = t /\ s < u)))
    BY <1>3, <1>5, <2>1 DEF Beats
  <2>4. x > z \/ (x = z /\ (p < t \/ (p = t /\ q < u)))
    BY <2>2, <2>3
  <2>. QED BY <1>2, <2>1, <2>4 DEF Beats
<1>. QED BY <1>4, <1>5

\* One entry more.
LEMMA BestGrows ==
  ASSUME NEW modules, Segmented(modules), NEW all, NEW e, InTree(all \cup {e}), NEW b, BestOf(modules, all) = {b}
  PROVE  /\ Beats(modules, e, b) => BestOf(modules, all \cup {e}) = {e}
         /\ Beats(modules, b, e) \/ b = e => BestOf(modules, all \cup {e}) = {b}
<1> DEFINE more == all \cup {e}
<1>1. b \in all /\ \A g \in all : g # b => Beats(modules, b, g)
  BY DEF BestOf
<1>2. /\ \A a, c \in more : ~(Beats(modules, a, c) /\ Beats(modules, c, a))
      /\ \A a, g, c \in more : Beats(modules, a, g) /\ Beats(modules, g, c) => Beats(modules, a, c)
  BY BeatsOrders
<1>3. ASSUME Beats(modules, e, b) PROVE BestOf(modules, more) = {e}
  <2>1. \A g \in more : g # e => Beats(modules, e, g)
    BY <1>1, <1>2, <1>3
  <2>2. \A c \in more : (\A g \in more : g # c => Beats(modules, c, g)) => c = e
    BY <1>2, <2>1
  <2>. QED BY <2>1, <2>2 DEF BestOf
<1>4. ASSUME Beats(modules, b, e) \/ b = e PROVE BestOf(modules, more) = {b}
  <2>1. \A g \in more : g # b => Beats(modules, b, g)
    BY <1>1, <1>4
  <2>2. \A c \in more : (\A g \in more : g # c => Beats(modules, c, g)) => c = b
    BY <1>1, <1>2, <2>1
  <2>. QED BY <1>1, <2>1, <2>2 DEF BestOf
<1>. QED BY <1>3, <1>4

\* The scan of the entries ends at the best, in whatever order it meets them.
LEMMA PickImportIs ==
  ASSUME NEW s, Ordered(s), InTree(In(s)), NEW modules, Segmented(modules), NEW source
  PROVE  PickImport(s, modules, source) = BestOf(modules, {e \in In(s) : e[1] # source})
<1> DEFINE n == Len(s)
           Better(e, best) == \A b \in best : \/ ImportScore(modules, e) > ImportScore(modules, b)
                                              \/ ImportScore(modules, e) = ImportScore(modules, b) /\ e[1] < b[1]
           V == SUBSET Entry
           g == [p \in (1 .. n) \X V |-> IF s[p[1]][1] # source /\ Better(s[p[1]], p[2]) THEN {s[p[1]]} ELSE p[2]]
           Scans(f) == f = [i \in 0 .. n |-> IF i = 0 THEN None
                                             ELSE IF s[i][1] # source /\ Better(s[i], f[i - 1]) THEN {s[i]} ELSE f[i - 1]]
<1>1. n \in Nat /\ DOMAIN s = 1 .. n /\ \A i \in 1 .. n : s[i] \in Entry /\ s[i] \in In(s)
  BY DEF Ordered, In
<1>2. PickImport(s, modules, source) = (CHOOSE f : Scans(f))[n]
  BY DEF PickImport, ImportScore
<1> HIDE DEF n, Better
<1>3. Recurs(g, n, V)
  <2>1. ASSUME NEW p \in (1 .. n) \X V
        PROVE  (IF s[p[1]][1] # source /\ Better(s[p[1]], p[2]) THEN {s[p[1]]} ELSE p[2]) \in V
    <3>1. p[1] \in 1 .. n /\ p[2] \in V
      OBVIOUS
    <3>2. {s[p[1]]} \in V
      BY <1>1, <3>1
    <3>. QED BY <3>1, <3>2
  <2>2. g \in [(1 .. n) \X V -> V]
    BY <2>1
  <2>. QED BY <2>2 DEF Recurs
<1>4. ASSUME NEW i \in 1 .. n, NEW v \in V
      PROVE  g[<<i, v>>] = IF s[i][1] # source /\ Better(s[i], v) THEN {s[i]} ELSE v
  <2>1. <<i, v>> \in (1 .. n) \X V /\ <<i, v>>[1] = i /\ <<i, v>>[2] = v
    OBVIOUS
  <2>. QED BY <2>1
<1>5. None \in V
  BY DEF None
<1> HIDE DEF g, V
<1>6. PICK f : f \in [0 .. n -> V] /\ f[0] = None /\ \A i \in 1 .. n : f[i] = g[<<i, f[i - 1]>>]
  <2>1. \E f : Unfolds(f, None, g, n, V)
    BY <1>1, <1>3, <1>5, Recursion
  <2>. QED BY <2>1 DEF Unfolds
<1>7. ASSUME NEW i \in 0 .. n
      PROVE  f[i] = IF i = 0 THEN None ELSE IF s[i][1] # source /\ Better(s[i], f[i - 1]) THEN {s[i]} ELSE f[i - 1]
  <2>1. CASE i = 0
    BY <1>6, <2>1
  <2>2. CASE i # 0
    <3>1. i \in 1 .. n /\ i - 1 \in 0 .. n /\ f[i - 1] \in V
      BY <1>1, <1>6, <2>2
    <3>2. f[i] = g[<<i, f[i - 1]>>]
      BY <1>6, <3>1
    <3>. QED BY <1>4, <2>2, <3>1, <3>2
  <2>. QED BY <2>1, <2>2
<1>8. \E h : Scans(h)
  <2>1. f = [i \in 0 .. n |-> f[i]]
    BY <1>6
  <2>2. Scans(f)
    BY <1>7, <2>1
  <2>. QED BY <2>2
<1>9. PICK k : Scans(k) /\ PickImport(s, modules, source) = k[n]
  <2> HIDE DEF Scans
  <2>. QED BY <1>2, <1>8
<1>10. /\ k[0] = {}
       /\ \A i \in 1 .. n : k[i] = IF s[i][1] # source /\ Better(s[i], k[i - 1]) THEN {s[i]} ELSE k[i - 1]
  <2>1. ASSUME NEW i \in 0 .. n
        PROVE  k[i] = IF i = 0 THEN None ELSE IF s[i][1] # source /\ Better(s[i], k[i - 1]) THEN {s[i]} ELSE k[i - 1]
    BY <1>9
  <2>2. 0 \in 0 .. n /\ \A i \in 1 .. n : i \in 0 .. n /\ i # 0
    BY <1>1
  <2>. QED BY <2>1, <2>2 DEF None
<1> HIDE DEF Scans
<1> DEFINE Met(i) == {e \in {s[j] : j \in 1 .. i} : e[1] # source}
           P(i) == k[i] = BestOf(modules, Met(i)) /\ (Met(i) # {} => \E b \in Met(i) : k[i] = {b})
           T == {i \in Nat : i <= n => P(i)}
<1>11. 0 \in T
  <2>1. Met(0) = {}
    OBVIOUS
  <2>. QED BY <1>10, <2>1 DEF BestOf
<1>12. ASSUME NEW i \in Nat, i \in T PROVE i + 1 \in T
  <2> SUFFICES ASSUME i + 1 <= n PROVE P(i + 1)
    OBVIOUS
  <2>1. i + 1 \in 1 .. n /\ (i + 1) - 1 = i /\ P(i)
    BY <1>1, <1>12
  <2> DEFINE e == s[i + 1]
  <2>2. Met(i + 1) = Met(i) \cup (IF e[1] # source THEN {e} ELSE {})
    <3>1. 1 .. i + 1 = (1 .. i) \cup {i + 1}
      OBVIOUS
    <3>. QED BY <3>1
  <2>3. k[i + 1] = IF e[1] # source /\ Better(e, k[i]) THEN {e} ELSE k[i]
    BY <1>10, <2>1
  <2>4. \A h \in Met(i) : \E j \in 1 .. n : h = s[j] /\ j < i + 1
    BY <1>1, <2>1
  <2>5. \A h \in Met(i) : h \in In(s) /\ (h[1] = e[1] => h[2] < e[2])
    <3> SUFFICES ASSUME NEW h \in Met(i) PROVE h \in In(s) /\ (h[1] = e[1] => h[2] < e[2])
      OBVIOUS
    <3>1. PICK j \in 1 .. n : h = s[j] /\ j < i + 1
      BY <2>4
    <3>2. s[j][1] = s[i + 1][1] => s[j][2] < s[i + 1][2]
      BY <1>1, <2>1, <3>1 DEF Ordered
    <3>. QED BY <1>1, <3>1, <3>2
  <2>6. e \in In(s)
    BY <1>1, <2>1
  <2> HIDE DEF e, Met
  <2>7. CASE e[1] = source
    BY <2>1, <2>2, <2>3, <2>7
  <2>8. CASE e[1] # source /\ Met(i) = {}
    <3>1. k[i] = {}
      BY <2>1, <2>8 DEF BestOf
    <3>2. k[i + 1] = {e}
      BY <2>3, <2>8, <3>1 DEF Better
    <3>3. Met(i + 1) = {e}
      BY <2>2, <2>8
    <3>4. BestOf(modules, {e}) = {e}
      BY DEF BestOf
    <3>. QED BY <3>2, <3>3, <3>4
  <2>9. CASE e[1] # source /\ Met(i) # {}
    <3>1. PICK b \in Met(i) : k[i] = {b} /\ BestOf(modules, Met(i)) = {b}
      BY <2>1, <2>9
    <3>2. Met(i + 1) = Met(i) \cup {e} /\ InTree(Met(i) \cup {e})
      BY <2>2, <2>5, <2>6, <2>9 DEF InTree
    <3>3. /\ Beats(modules, e, b) => BestOf(modules, Met(i + 1)) = {e}
          /\ Beats(modules, b, e) => BestOf(modules, Met(i + 1)) = {b}
      BY <3>1, <3>2, BestGrows
    <3>4. /\ ImportScore(modules, e) \in Nat /\ ImportScore(modules, b) \in Nat
          /\ e[1] \in Nat /\ b[1] \in Nat /\ e[2] \in Nat /\ b[2] \in Nat
      BY <3>2, ScoreCounts DEF InTree, Entry
    <3>5. CASE Better(e, k[i])
      <4>1. Beats(modules, e, b)
        BY <3>1, <3>5 DEF Better, Beats
      <4>. QED BY <2>3, <2>9, <3>2, <3>3, <3>5, <4>1
    <3>6. CASE ~Better(e, k[i])
      <4>1. ~(ImportScore(modules, e) > ImportScore(modules, b))
            /\ ~(ImportScore(modules, e) = ImportScore(modules, b) /\ e[1] < b[1])
        BY <3>1, <3>6 DEF Better
      <4>2. b[1] = e[1] => b[2] < e[2]
        BY <2>5
      <4>3. Beats(modules, b, e)
        BY <3>4, <4>1, <4>2 DEF Beats
      <4>. QED BY <2>3, <3>1, <3>2, <3>3, <3>6, <4>3
    <3>. QED BY <3>5, <3>6
  <2>. QED BY <2>7, <2>8, <2>9
<1>13. P(n)
  <2>1. Nat \subseteq T
    <3> HIDE DEF T
    <3>. QED BY <1>11, <1>12, Inductive
  <2>. QED BY <1>1, <2>1
<1>14. Met(n) = {e \in In(s) : e[1] # source}
  BY <1>1 DEF In
<1>. QED BY <1>9, <1>13, <1>14

LEMMA ImportAlike ==
  ASSUME NEW s, NEW t, Alike(s, t), InTree(In(s)), NEW modules, Segmented(modules), NEW source
  PROVE  PickImport(s, modules, source) = PickImport(t, modules, source)
<1>1. Ordered(s) /\ Ordered(t) /\ In(s) = In(t) /\ InTree(In(t))
  BY DEF Alike
<1> DEFINE others == {e \in In(s) : e[1] # source}
<1>2. PickImport(s, modules, source) = BestOf(modules, others)
  BY <1>1, PickImportIs
<1>3. PickImport(t, modules, source) = BestOf(modules, others)
  <2>1. PickImport(t, modules, source) = BestOf(modules, {e \in In(t) : e[1] # source})
    BY <1>1, PickImportIs
  <2>. QED BY <1>1, <2>1
<1>. QED BY <1>2, <1>3

\* Of each path a `use` expands to, the segments are as many as there are.
LEMMA UsesAreSegmented ==
  ASSUME NEW path, UseTree(path), NEW use \in ExpandUseGroup(path)
  PROVE  Segmented(ModuleSegments(StripQualifiers(use)))
<1>1. use \in Tokens /\ use # <<>> /\ Len(use) \in Nat /\ DOMAIN use = 1 .. Len(use)
  <2>1. UseTree(use)
    BY GroupExpands
  <2>. QED BY <2>1, TreeIs DEF UseTree
<1> DEFINE kept == {i \in DOMAIN use : use[i] \notin {"crate", "self", "super"}}
           stripped == StripQualifiers(use)
           named == Unaliased(stripped)
<1>2. stripped \in Seq(STRING)
  <2>1. CASE kept = {}
    <3>1. stripped = <<use[Len(use)]>> /\ Len(use) \in 1 .. Len(use)
      BY <1>1, <2>1 DEF StripQualifiers, Tokens
    <3>. QED BY <1>1, <3>1 DEF Tokens
  <2>2. CASE kept # {}
    <3>1. kept \subseteq Nat /\ kept \subseteq 1 .. Len(use)
      BY <1>1
    <3> HIDE DEF kept
    <3>2. PICK least \in kept : \A q \in kept : least <= q
      BY <2>2, <3>1, LeastOf
    <3>3. FirstOf(kept) \in kept
      BY <3>2 DEF FirstOf
    <3>4. stripped = SubSeq(use, FirstOf(kept), Len(use))
      BY <2>2 DEF StripQualifiers, kept
    <3>5. PICK f \in 1 .. Len(use) : f = FirstOf(kept)
      BY <3>1, <3>3
    <3>. QED BY <1>1, <3>4, <3>5 DEF Tokens
  <2>. QED BY <2>1, <2>2
<1> HIDE DEF stripped
<1>3. named \in Seq(STRING)
  <2>1. named \in {SubSeq(stripped, 1, Len(stripped) - 2), stripped}
          /\ (Len(stripped) > 2 \/ named = stripped)
    BY DEF Unaliased
  <2>2. PICK n \in Nat : n = Len(stripped)
    BY <1>2
  <2>3. n > 2 => SubSeq(stripped, 1, n - 2) \in Seq(STRING)
    BY <1>2, <2>2
  <2> HIDE DEF named
  <2>. QED BY <1>2, <2>1, <2>2, <2>3
<1> HIDE DEF named
<1>4. ModuleSegments(stripped) \in Seq(STRING)
  <2>1. ModuleSegments(stripped) \in {SubSeq(named, 1, Len(named) - 1), stripped}
    BY DEF ModuleSegments, named
  <2>2. PICK n \in Nat : n = Len(named)
    BY <1>3
  <2>3. SubSeq(named, 1, n - 1) \in Seq(STRING)
    <3>1. CASE n = 0
      BY <1>3, <2>2, <3>1
    <3>2. CASE n > 0
      BY <1>3, <2>2, <3>2
    <3>. QED BY <3>1, <3>2
  <2>. QED BY <1>2, <2>1, <2>2, <2>3
<1>5. PICK m \in Nat : DOMAIN ModuleSegments(stripped) = 1 .. m
  BY <1>4
<1>6. IsFiniteSet(1 .. m)
  BY FS_Interval, 1 \in Int /\ m \in Int
<1>. QED BY <1>5, <1>6 DEF Segmented, stripped

\* Each scheme finds the same targets in alike lists.
LEMMA RustAlike ==
  ASSUME NEW s, NEW t, Alike(s, t), InTree(In(s)), NEW file, NEW ref, UseTree(ref.path)
  PROVE  RustTargets(s, file, ref) = RustTargets(t, file, ref)
<1> DEFINE Path(use) == StripQualifiers(use)
           Name(use) == Leaf(Unaliased(Path(use)))
           Picked(x, use) == IF Leaf(Path(use)) = "*" THEN None
                             ELSE PickImport(Named(x, Name(use)), ModuleSegments(Path(use)), file)
<1>1. ASSUME NEW use \in ExpandUseGroup(ref.path) PROVE Picked(s, use) = Picked(t, use)
  <2> DEFINE a == Named(s, Name(use))
             b == Named(t, Name(use))
  <2>1. Alike(a, b)
    BY KeptAlike DEF Named
  <2>2. InTree(In(a))
    <3>1. In(a) \subseteq In(s)
      BY KeptOrdered DEF Named, Alike
    <3> HIDE DEF a
    <3>. QED BY <3>1 DEF InTree
  <2> HIDE DEF a, b
  <2>3. PickImport(a, ModuleSegments(Path(use)), file) = PickImport(b, ModuleSegments(Path(use)), file)
    BY <2>1, <2>2, ImportAlike, UsesAreSegmented
  <2>. QED BY <2>3 DEF a, b
<1>2. \A x : RustTargets(x, file, ref) = UNION {Picked(x, use) : use \in ExpandUseGroup(ref.path)}
  BY DEF RustTargets
<1> HIDE DEF Picked
<1>3. {Picked(s, use) : use \in ExpandUseGroup(ref.path)} = {Picked(t, use) : use \in ExpandUseGroup(ref.path)}
  BY <1>1
<1>. QED BY <1>2, <1>3

LEMMA PythonTargetsAlike ==
  ASSUME NEW s, NEW t, Alike(s, t), NEW file, NEW ref
  PROVE  PythonTargets(s, file, ref) = PythonTargets(t, file, ref)
<1>1. \A q : PickPython(Qualified(s, q), file) = PickPython(Qualified(t, q), file)
  BY KeptAlike, PythonAlike DEF Qualified
<1>2. \A q : PickPython(Named(s, q), file) = PickPython(Named(t, q), file)
  BY KeptAlike, PythonAlike DEF Named
<1>. QED BY <1>1, <1>2 DEF PythonTargets

LEMMA CppTargetsAlike ==
  ASSUME NEW s, NEW t, Alike(s, t), NEW file, NEW ref
  PROVE  CppTargets(s, file, ref) = CppTargets(t, file, ref)
<1>1. \A those, f, l : PickCpp(Kept(s, those), f, l) = PickCpp(Kept(t, those), f, l)
  BY KeptAlike, CppAlike
<1>2. \A q, f, l : PickCpp(Qualified(s, q), f, l) = PickCpp(Qualified(t, q), f, l)
  BY <1>1 DEF Qualified
<1>. QED BY <1>1, <1>2 DEF CppTargets

LEMMA SyntaxAlike ==
  ASSUME NEW s, NEW t, Alike(s, t), NEW file, NEW ref
  PROVE  SyntaxTargets(s, file, ref) = SyntaxTargets(t, file, ref)
<1>1. \A q : OnlyEntry(Named(s, q)) = OnlyEntry(Named(t, q))
  BY KeptAlike, OnlyAlike DEF Named
<1>. QED BY <1>1 DEF SyntaxTargets

LEMMA LspAlike ==
  ASSUME NEW s, NEW t, Alike(s, t), NEW file, NEW ref
  PROVE  /\ LspTargets(s, file, ref) = LspTargets(t, file, ref)
         /\ TraitTargets(s, file, ref) = TraitTargets(t, file, ref)
         /\ InterfaceTargets(s, file, ref) = InterfaceTargets(t, file, ref)
<1>1. \A q : PickBestMatch(Qualified(s, q), file) = PickBestMatch(Qualified(t, q), file)
  BY KeptAlike, BestMatchAlike DEF Qualified
<1>2. \A those : PickBestMatch(Kept(InFile(s, file), those), file) = PickBestMatch(Kept(InFile(t, file), those), file)
  <2>1. Alike(InFile(s, file), InFile(t, file))
    BY KeptAlike DEF InFile
  <2>. QED BY <2>1, KeptAlike, BestMatchAlike
<1>3. LspTargets(s, file, ref) = LspTargets(t, file, ref)
  BY <1>1, <1>2 DEF LspTargets
<1>. QED BY <1>1, <1>3 DEF TraitTargets, InterfaceTargets

\* A reference of an ingest.
Reference(ref) ==
  /\ corpus.scheme \in Schemes /\ (corpus.scheme = "lsp" => ref.kind \in {"calls", "implements", "satisfies"})
  /\ corpus.scheme = "rust" => UseTree(ref.path)

\* No scheme's targets depend on the order of the files.
LEMMA TargetsAlike ==
  ASSUME NEW s, NEW t, Alike(s, t), InTree(In(s)), NEW file, NEW ref, Reference(ref)
  PROVE  Targets(s, file, ref) = Targets(t, file, ref)
<1>1. CASE corpus.scheme = "rust"
  <2>1. \A x : Targets(x, file, ref) = RustTargets(x, file, ref)
    BY <1>1 DEF Targets
  <2>2. UseTree(ref.path)
    BY <1>1 DEF Reference
  <2>. QED BY <2>1, <2>2, RustAlike
<1>2. CASE corpus.scheme = "python"
  <2>1. \A x : Targets(x, file, ref) = PythonTargets(x, file, ref)
    BY <1>2 DEF Targets
  <2>. QED BY <2>1, PythonTargetsAlike
<1>3. CASE corpus.scheme = "cpp"
  <2>1. \A x : Targets(x, file, ref) = CppTargets(x, file, ref)
    BY <1>3 DEF Targets
  <2>. QED BY <2>1, CppTargetsAlike
<1>4. CASE corpus.scheme = "syntax"
  <2>1. \A x : Targets(x, file, ref) = SyntaxTargets(x, file, ref)
    BY <1>4 DEF Targets
  <2>. QED BY <2>1, SyntaxAlike
<1>5. CASE corpus.scheme = "lsp"
  <2>1. ref.kind \in {"calls", "implements", "satisfies"}
    BY <1>5 DEF Reference
  <2>2. \A x : /\ ref.kind = "calls" => Targets(x, file, ref) = LspTargets(x, file, ref)
               /\ ref.kind = "implements" => Targets(x, file, ref) = TraitTargets(x, file, ref)
               /\ ref.kind = "satisfies" => Targets(x, file, ref) = InterfaceTargets(x, file, ref)
    BY <1>5 DEF Targets
  <2>. QED BY <2>1, <2>2, LspAlike
<1>. QED BY <1>1, <1>2, <1>3, <1>4, <1>5 DEF Reference, Schemes

\* Nor do the edges of a file.
LEMMA EdgesAlike ==
  ASSUME NEW s, NEW t, Alike(s, t), InTree(In(s)), NEW file,
         \A k \in DOMAIN corpus.refs[file] : Reference(corpus.refs[file][k])
  PROVE  EdgesOf(s, file) = EdgesOf(t, file)
<1> DEFINE refs == {corpus.refs[file][k] : k \in DOMAIN corpus.refs[file]}
           Drawn(x, r) == [kind : {r.kind}, from : Source(file, r), to : Targets(x, file, r)]
<1>1. ASSUME NEW r \in refs PROVE Drawn(s, r) = Drawn(t, r)
  <2>1. Targets(s, file, r) = Targets(t, file, r)
    BY TargetsAlike
  <2>. QED BY <2>1
<1>2. \A x : EdgesOf(x, file) = {d \in UNION {Drawn(x, r) : r \in refs} : corpus.scheme = "lsp" \/ d.from # d.to}
  BY DEF EdgesOf
<1> HIDE DEF refs, Drawn
<1>3. {Drawn(s, r) : r \in refs} = {Drawn(t, r) : r \in refs}
  BY <1>1
<1>. QED BY <1>2, <1>3

\* Every number has a place in their order.
LEMMA AllNumbered ==
  ASSUME NEW ends \in SUBSET Nat, IsFiniteSet(ends), NEW f \in ends
  PROVE  \E k \in 1 .. Cardinality(ends) : NthOf(ends, k) = f
<1> DEFINE m == Cardinality(ends)
           Less(p) == {q \in ends : q < p}
<1>1. \A p \in ends : /\ IsFiniteSet(Less(p)) /\ Cardinality(Less(p)) \in Nat /\ Cardinality(Less(p)) <= m
                      /\ Cardinality(Less(p)) = m => Less(p) = ends
  <2> SUFFICES ASSUME NEW p \in ends
               PROVE  /\ IsFiniteSet(Less(p)) /\ Cardinality(Less(p)) \in Nat /\ Cardinality(Less(p)) <= m
                      /\ Cardinality(Less(p)) = m => Less(p) = ends
    OBVIOUS
  <2>1. Less(p) \subseteq ends
    OBVIOUS
  <2> HIDE DEF Less
  <2>. QED BY <2>1, FS_Subset, FS_CardinalityType
<1>2. m \in Nat
  BY FS_CardinalityType
<1>3. \A p, q \in ends : p < q => Cardinality(Less(p)) # Cardinality(Less(q))
  <2> SUFFICES ASSUME NEW p \in ends, NEW q \in ends, p < q PROVE Cardinality(Less(p)) # Cardinality(Less(q))
    OBVIOUS
  <2>1. Less(p) \subseteq Less(q) /\ p \in Less(q) /\ p \notin Less(p)
    <3>1. \A x \in ends : x \in Nat
      OBVIOUS
    <3>2. \A x \in ends : x < p => x < q
      BY <3>1
    <3>3. ~(p < p)
      BY <3>1
    <3>. QED BY <3>2, <3>3
  <2>2. IsFiniteSet(Less(q))
    BY <1>1
  <2> HIDE DEF Less
  <2>3. Cardinality(Less(p)) = Cardinality(Less(q)) => Less(p) = Less(q)
    BY <2>1, <2>2, FS_Subset
  <2>. QED BY <2>1, <2>3
<1>4. Cardinality(Less(f)) # m
  <2>1. f \notin Less(f)
    OBVIOUS
  <2> HIDE DEF Less
  <2>. QED BY <1>1, <2>1
<1>5. PICK r \in Nat : r = Cardinality(Less(f)) /\ r + 1 \in 1 .. m /\ (r + 1) - 1 = r
  <2>1. PICK r \in Nat : r = Cardinality(Less(f))
    BY <1>1
  <2>2. r <= m /\ r # m
    BY <1>1, <1>4, <2>1
  <2> HIDE DEF m, Less
  <2>. QED BY <1>2, <2>1, <2>2
<1>6. NthOf(ends, r + 1) \in ends /\ Cardinality(Less(NthOf(ends, r + 1))) = r
  <2>1. ends # {}
    OBVIOUS
  <2>2. \A k \in 1 .. m : NthOf(ends, k) \in ends /\ Cardinality(Less(NthOf(ends, k))) = k - 1
    BY <2>1, NumbersInOrder
  <2> HIDE DEF m, Less
  <2>. QED BY <1>5, <2>2
<1> HIDE DEF m, Less
<1>7. NthOf(ends, r + 1) = f
  <2>1. NthOf(ends, r + 1) \in Nat /\ f \in Nat
    BY <1>6
  <2>2. ~(NthOf(ends, r + 1) < f) /\ ~(f < NthOf(ends, r + 1))
    BY <1>3, <1>5, <1>6
  <2>. QED BY <2>1, <2>2
<1>. QED BY <1>5, <1>7 DEF m

\* Lists of different files, one after the other.
LEMMA JoinedOrdered ==
  ASSUME NEW s, NEW t, Ordered(s), Ordered(t), \A e \in In(s), g \in In(t) : e[1] # g[1]
  PROVE  Ordered(s \o t) /\ In(s \o t) = In(s) \cup In(t)
<1> DEFINE u == s \o t
           m == Len(s)
           n == Len(t)
<1>1. s \in Seq(Entry) /\ t \in Seq(Entry) /\ m \in Nat /\ n \in Nat /\ DOMAIN s = 1 .. m /\ DOMAIN t = 1 .. n
  BY DEF Ordered
<1>2. /\ u \in Seq(Entry) /\ DOMAIN u = 1 .. m + n
      /\ \A i \in 1 .. m : u[i] = s[i]
      /\ \A i \in m + 1 .. m + n : u[i] = t[i - m]
  BY <1>1
<1> HIDE DEF u, m, n
<1>3. ASSUME NEW i \in 1 .. m + n
      PROVE  \/ i \in 1 .. m /\ u[i] = s[i] /\ s[i] \in In(s)
             \/ i - m \in 1 .. n /\ u[i] = t[i - m] /\ t[i - m] \in In(t) /\ i > m
  <2>1. i \in 1 .. m \/ (i \in m + 1 .. m + n /\ i - m \in 1 .. n /\ i > m)
    BY <1>1
  <2>. QED BY <1>1, <1>2, <2>1 DEF In
<1>4. ASSUME NEW i \in 1 .. m + n, NEW j \in 1 .. m + n, i < j, u[i][1] = u[j][1] PROVE u[i][2] < u[j][2]
  <2>1. CASE i \in 1 .. m /\ j \in 1 .. m
    <3>1. u[i] = s[i] /\ u[j] = s[j] /\ i \in DOMAIN s /\ j \in DOMAIN s
      BY <1>1, <1>2, <2>1
    <3>. QED BY <1>4, <3>1 DEF Ordered
  <2>2. CASE i > m /\ j > m
    <3>1. u[i] = t[i - m] /\ u[j] = t[j - m] /\ i - m \in DOMAIN t /\ j - m \in DOMAIN t /\ i - m < j - m
      BY <1>1, <1>3, <1>4, <2>2
    <3>. QED BY <1>4, <3>1 DEF Ordered
  <2>3. CASE i \in 1 .. m /\ j > m
    <3>1. u[i] \in In(s) /\ u[j] \in In(t)
      BY <1>1, <1>3, <2>3
    <3>. QED BY <1>4, <3>1
  <2>. QED BY <1>1, <1>4, <2>1, <2>2, <2>3
<1>5. Ordered(u)
  BY <1>2, <1>4 DEF Ordered
<1>6. In(u) = In(s) \cup In(t)
  <2>1. \A i \in 1 .. m + n : u[i] \in In(s) \cup In(t)
    BY <1>3
  <2>2. \A i \in 1 .. m : i \in 1 .. m + n /\ u[i] = s[i]
    BY <1>1, <1>2
  <2>3. \A i \in 1 .. n : i + m \in 1 .. m + n /\ u[i + m] = t[i]
    <3> SUFFICES ASSUME NEW i \in 1 .. n PROVE i + m \in 1 .. m + n /\ u[i + m] = t[i]
      OBVIOUS
    <3>1. i + m \in m + 1 .. m + n /\ i + m \in 1 .. m + n /\ (i + m) - m = i
      BY <1>1
    <3>. QED BY <1>2, <3>1
  <2>4. In(u) \subseteq In(s) \cup In(t)
    BY <1>2, <2>1 DEF In
  <2>5. In(s) \subseteq In(u)
    BY <1>1, <1>2, <2>2 DEF In
  <2>6. In(t) \subseteq In(u)
    <3> SUFFICES ASSUME NEW i \in 1 .. n PROVE t[i] \in In(u)
      BY <1>1 DEF In
    <3>1. PICK j \in 1 .. m + n : u[j] = t[i]
      BY <2>3
    <3>. QED BY <1>2, <3>1 DEF In
  <2>. QED BY <2>4, <2>5, <2>6
<1>. QED BY <1>5, <1>6 DEF u

\* What the ingest's files define, and which of it some files define.
Ingest == corpus \in Corpora
Defined == {e \in Entries : Defines(e)}
DefinedIn(files) == {e \in Defined : e[1] \in files}

\* An entry is a number of a file and a place in its list.
LEMMA EntriesInTree ==
  ASSUME Ingest
  PROVE  InTree(Entries)
<1>1. \A f \in Files : f \in Nat /\ DOMAIN corpus.symbols[f] \subseteq Nat
  BY ResolutionAssumption DEF Ingest, Listed
<1>. QED BY <1>1 DEF Entries, InTree, Entry

\* A file's definitions are its own, in its order.
LEMMA DefinitionsOrdered ==
  ASSUME Ingest, NEW f \in Files
  PROVE  Ordered(Definitions(f)) /\ In(Definitions(f)) = DefinedIn({f})
<1> DEFINE n == Len(corpus.symbols[f])
           list == [i \in DOMAIN corpus.symbols[f] |-> <<f, i>>]
<1>1. f \in Nat /\ n \in Nat /\ DOMAIN corpus.symbols[f] = 1 .. n
  BY ResolutionAssumption DEF Ingest, Listed
<1> HIDE DEF n
<1>2. list = [i \in 1 .. n |-> <<f, i>>]
  BY <1>1
<1>3. \A i \in 1 .. n : <<f, i>> \in Nat \X Nat
  BY <1>1
<1> HIDE DEF list
<1>4. list \in Seq(Entry) /\ DOMAIN list = 1 .. n /\ \A i \in 1 .. n : list[i] = <<f, i>>
  BY <1>1, <1>2, <1>3 DEF Entry
<1>5. Ordered(list)
  BY <1>1, <1>4 DEF Ordered
<1>6. In(list) = {e \in Entries : e[1] = f}
  <2>1. \A i \in 1 .. n : <<f, i>> \in Entries
    BY <1>1 DEF Entries
  <2>2. \A e \in Entries : e[1] = f => \E i \in 1 .. n : e = <<f, i>>
    BY <1>1 DEF Entries
  <2>3. In(list) = {<<f, i>> : i \in 1 .. n}
    BY <1>4 DEF In
  <2>. QED BY <2>1, <2>2, <2>3
<1>7. Definitions(f) = Kept(list, {e \in Entries : Defines(e)})
  BY DEF Definitions, list
<1>8. Ordered(Definitions(f)) /\ In(Definitions(f)) = In(list) \cap {e \in Entries : Defines(e)}
  BY <1>5, <1>7, KeptOrdered
<1>. QED BY <1>6, <1>8 DEF DefinedIn, Defined

\* Another file's definitions behind those of some files.
LEMMA FileJoins ==
  ASSUME Ingest, NEW s, Ordered(s), NEW files, In(s) = DefinedIn(files), NEW f \in Files, f \notin files
  PROVE  Ordered(s \o Definitions(f)) /\ In(s \o Definitions(f)) = DefinedIn(files \cup {f})
<1>1. Ordered(Definitions(f)) /\ In(Definitions(f)) = DefinedIn({f})
  BY DefinitionsOrdered
<1>2. \A e \in In(s), g \in In(Definitions(f)) : e[1] # g[1]
  BY <1>1 DEF DefinedIn
<1>3. Ordered(s \o Definitions(f)) /\ In(s \o Definitions(f)) = In(s) \cup In(Definitions(f))
  BY <1>1, <1>2, JoinedOrdered
<1>4. DefinedIn(files \cup {f}) = DefinedIn(files) \cup DefinedIn({f})
  BY DEF DefinedIn
<1>. QED BY <1>1, <1>3, <1>4

\* What the ingest holds does not change, so neither does what is read from it.
LEMMA CorpusStays ==
  ASSUME corpus' = corpus
  PROVE  /\ Defined' = Defined /\ Entries' = Entries
         /\ \A f : Definitions(f)' = Definitions(f)
         /\ \A s, f : EdgesOf(s, f)' = EdgesOf(s, f)
         /\ InPathOrder' = InPathOrder
<1>1. Entries' = Entries /\ \A e : Symbol(e)' = Symbol(e)
  BY DEF Entries, Symbol
<1>2. \A e : Defines(e)' = Defines(e)
  BY <1>1 DEF Defines
<1>3. Defined' = Defined /\ \A f : Definitions(f)' = Definitions(f)
  BY <1>1, <1>2 DEF Defined, Definitions
<1>4. InPathOrder' = InPathOrder
  BY <1>3 DEF InPathOrder
<1>5. /\ \A s, q : Named(s, q)' = Named(s, q)
      /\ \A s, q : Qualified(s, q)' = Qualified(s, q)
      /\ \A s, f : InFile(s, f)' = InFile(s, f)
  BY <1>1 DEF Named, Qualified, InFile
<1>6. ASSUME NEW s, NEW f PROVE PickPython(s, f)' = PickPython(s, f)
  BY DEF PickPython, InFile, Entries, Symbol
<1>7. /\ \A s, f : PickBestMatch(s, f)' = PickBestMatch(s, f)
      /\ \A s, f, l : PickCpp(s, f, l)' = PickCpp(s, f, l)
  <2>1. ASSUME NEW s, NEW f PROVE PickBestMatch(s, f)' = PickBestMatch(s, f)
    <3>1. InFile(s, f)' = InFile(s, f)
      BY <1>5
    <3>. QED BY <3>1 DEF PickBestMatch
  <2>2. ASSUME NEW s, NEW f, NEW l PROVE PickCpp(s, f, l)' = PickCpp(s, f, l)
    <3>1. InFile(s, f)' = InFile(s, f)
      BY <1>5
    <3>. QED BY <1>1, <3>1 DEF PickCpp
  <2>. QED BY <2>1, <2>2
<1>8. \A s, f, r : RustTargets(s, f, r)' = RustTargets(s, f, r)
  BY <1>5 DEF RustTargets
<1>9. \A s, f, r : PythonTargets(s, f, r)' = PythonTargets(s, f, r)
  BY <1>5, <1>6 DEF PythonTargets
<1>10. \A s, f, r : CppTargets(s, f, r)' = CppTargets(s, f, r)
  BY <1>1, <1>5, <1>7 DEF CppTargets
<1>11. \A s, f, r : SyntaxTargets(s, f, r)' = SyntaxTargets(s, f, r)
  BY <1>5 DEF SyntaxTargets
<1>12. ASSUME NEW fs, NEW l, NEW ns PROVE AtLocation(fs, l, ns)' = AtLocation(fs, l, ns)
  BY DEF AtLocation, Entries, Symbol
<1>13. /\ \A s, f, r : LspTargets(s, f, r)' = LspTargets(s, f, r)
       /\ \A s, f, r : TraitTargets(s, f, r)' = TraitTargets(s, f, r)
       /\ \A s, f, r : InterfaceTargets(s, f, r)' = InterfaceTargets(s, f, r)
       /\ \A f, r : Source(f, r)' = Source(f, r)
  BY <1>1, <1>5, <1>7, <1>12, ZenonT(60) DEF LspTargets, TraitTargets, InterfaceTargets, Source
<1>14. \A s, f, r : Targets(s, f, r)' = Targets(s, f, r)
  BY <1>8, <1>9, <1>10, <1>11, <1>13, ZenonT(60) DEF Targets
<1>15. \A s, f : EdgesOf(s, f)' = EdgesOf(s, f)
  BY <1>13, <1>14 DEF EdgesOf
<1>. QED BY <1>1, <1>3, <1>4, <1>15

\* In the order of the paths every file's definitions are there, each file's in order.
LEMMA PathOrderOrdered ==
  ASSUME Ingest
  PROVE  Ordered(InPathOrder) /\ In(InPathOrder) = Defined
<1> DEFINE n == Cardinality(Files)
           V == Seq(Entry)
           g == [p \in (1 .. n) \X V |-> p[2] \o Definitions(NthOf(Files, p[1]))]
           Steps(f) == f = [k \in 0 .. n |-> IF k = 0 THEN <<>> ELSE f[k - 1] \o Definitions(NthOf(Files, k))]
<1>1. n \in Nat /\ IsFiniteSet(Files) /\ Files \in SUBSET Nat
  BY ResolutionAssumption, FS_CardinalityType
<1>2. \A k \in 1 .. n : NthOf(Files, k) \in Files
  <2> SUFFICES ASSUME NEW k \in 1 .. n PROVE NthOf(Files, k) \in Files
    OBVIOUS
  <2>1. Files # {}
    BY <1>1, FS_EmptySet
  <2>. QED BY <1>1, <2>1, NumbersInOrder
<1>3. \A k, j \in 1 .. n : j < k => NthOf(Files, j) # NthOf(Files, k)
  <2> SUFFICES ASSUME NEW k \in 1 .. n, NEW j \in 1 .. n, j < k PROVE NthOf(Files, j) # NthOf(Files, k)
    OBVIOUS
  <2>1. Files # {}
    BY <1>1, FS_EmptySet
  <2>2. NthOf(Files, j) < NthOf(Files, k)
    BY <1>1, <2>1, NumbersInOrder
  <2>3. NthOf(Files, j) \in Nat
    BY <1>1, <1>2
  <2>. QED BY <2>2, <2>3
<1>4. \A f \in Files : \E k \in 1 .. n : NthOf(Files, k) = f
  BY <1>1, AllNumbered
<1>5. \A k \in 1 .. n : Definitions(NthOf(Files, k)) \in V
  BY <1>2, DefinitionsOrdered DEF Ordered
<1>6. InPathOrder = (CHOOSE f : Steps(f))[n]
  BY DEF InPathOrder, NthOf
<1> HIDE DEF n
<1>7. Recurs(g, n, V)
  <2>1. ASSUME NEW p \in (1 .. n) \X V PROVE p[2] \o Definitions(NthOf(Files, p[1])) \in V
    <3>1. p[1] \in 1 .. n /\ p[2] \in V
      OBVIOUS
    <3>2. Definitions(NthOf(Files, p[1])) \in V
      BY <1>5, <3>1
    <3>. QED BY <3>1, <3>2
  <2>2. g \in [(1 .. n) \X V -> V]
    BY <2>1
  <2>. QED BY <2>2 DEF Recurs
<1>8. ASSUME NEW i \in 1 .. n, NEW v \in V PROVE g[<<i, v>>] = v \o Definitions(NthOf(Files, i))
  <2>1. <<i, v>> \in (1 .. n) \X V /\ <<i, v>>[1] = i /\ <<i, v>>[2] = v
    OBVIOUS
  <2>. QED BY <2>1
<1>9. <<>> \in V
  OBVIOUS
<1> HIDE DEF g, V
<1>10. PICK f : f \in [0 .. n -> V] /\ f[0] = <<>> /\ \A i \in 1 .. n : f[i] = g[<<i, f[i - 1]>>]
  <2>1. \E f : Unfolds(f, <<>>, g, n, V)
    BY <1>1, <1>7, <1>9, Recursion
  <2>. QED BY <2>1 DEF Unfolds
<1>11. ASSUME NEW i \in 0 .. n
       PROVE  f[i] = IF i = 0 THEN <<>> ELSE f[i - 1] \o Definitions(NthOf(Files, i))
  <2>1. CASE i = 0
    BY <1>10, <2>1
  <2>2. CASE i # 0
    <3>1. i \in 1 .. n /\ i - 1 \in 0 .. n /\ f[i - 1] \in V
      BY <1>1, <1>10, <2>2
    <3>2. f[i] = g[<<i, f[i - 1]>>]
      BY <1>10, <3>1
    <3>. QED BY <1>8, <2>2, <3>1, <3>2
  <2>. QED BY <2>1, <2>2
<1>12. \E h : Steps(h)
  <2>1. f = [i \in 0 .. n |-> f[i]]
    BY <1>10
  <2>2. Steps(f)
    BY <1>11, <2>1
  <2>. QED BY <2>2
<1>13. PICK h : Steps(h) /\ InPathOrder = h[n]
  <2> HIDE DEF Steps
  <2>. QED BY <1>6, <1>12
<1>14. h[0] = <<>> /\ \A i \in 1 .. n : h[i] = h[i - 1] \o Definitions(NthOf(Files, i))
  <2>1. ASSUME NEW i \in 0 .. n PROVE h[i] = IF i = 0 THEN <<>> ELSE h[i - 1] \o Definitions(NthOf(Files, i))
    BY <1>13
  <2>2. 0 \in 0 .. n /\ \A i \in 1 .. n : i \in 0 .. n /\ i # 0
    BY <1>1
  <2>. QED BY <2>1, <2>2
<1> HIDE DEF Steps
<1> DEFINE Those(i) == {NthOf(Files, j) : j \in 1 .. i}
           P(i) == Ordered(h[i]) /\ In(h[i]) = DefinedIn(Those(i))
           T == {i \in Nat : i <= n => P(i)}
<1>15. 0 \in T
  <2>1. Those(0) = {}
    OBVIOUS
  <2>2. DefinedIn({}) = {}
    BY DEF DefinedIn
  <2>. QED BY <1>14, <2>1, <2>2, NothingOrdered
<1>16. ASSUME NEW i \in Nat, i \in T PROVE i + 1 \in T
  <2> SUFFICES ASSUME i + 1 <= n PROVE P(i + 1)
    OBVIOUS
  <2>1. i + 1 \in 1 .. n /\ (i + 1) - 1 = i /\ P(i)
    BY <1>1, <1>16
  <2>2. Those(i + 1) = Those(i) \cup {NthOf(Files, i + 1)}
    <3>1. 1 .. i + 1 = (1 .. i) \cup {i + 1}
      OBVIOUS
    <3>. QED BY <3>1
  <2>3. NthOf(Files, i + 1) \notin Those(i)
    <3>1. \A j \in 1 .. i : j \in 1 .. n /\ j < i + 1
      BY <1>1, <2>1
    <3>. QED BY <1>3, <2>1, <3>1
  <2>4. NthOf(Files, i + 1) \in Files /\ h[i + 1] = h[i] \o Definitions(NthOf(Files, i + 1))
    BY <1>2, <1>14, <2>1
  <2> HIDE DEF Those
  <2>. QED BY <2>1, <2>2, <2>3, <2>4, FileJoins
<1>17. P(n)
  <2>1. Nat \subseteq T
    <3> HIDE DEF T
    <3>. QED BY <1>15, <1>16, Inductive
  <2>. QED BY <1>1, <2>1
<1>18. DefinedIn(Those(n)) = Defined
  <2>1. Files \subseteq Those(n)
    BY <1>4
  <2>2. \A e \in Defined : e[1] \in Files
    BY DEF Defined, Entries
  <2>. QED BY <2>1, <2>2 DEF DefinedIn
<1>. QED BY <1>13, <1>17, <1>18

\* The index holds what the files indexed define, in some order that keeps each
\* file's, and the edges are those the path order gives.
ResolutionInv ==
  /\ Ingest /\ indexed \subseteq Files /\ resolved \subseteq Files
  /\ Ordered(defs) /\ In(defs) = DefinedIn(indexed)
  /\ edges = UNION {EdgesOf(InPathOrder, f) : f \in resolved}

\* Once every file is indexed a file has the edges it has in path order.
LEMMA IndexedAlike ==
  ASSUME ResolutionInv, indexed = Files, NEW f \in Files
  PROVE  EdgesOf(defs, f) = EdgesOf(InPathOrder, f)
<1>1. DefinedIn(Files) = Defined
  BY DEF DefinedIn, Defined, Entries
<1>2. Alike(defs, InPathOrder)
  BY <1>1, PathOrderOrdered DEF Alike, ResolutionInv
<1>3. InTree(In(defs))
  BY <1>1, EntriesInTree DEF ResolutionInv, InTree, Defined
<1>4. \A k \in DOMAIN corpus.refs[f] : Reference(corpus.refs[f][k])
  BY ResolutionAssumption DEF Reference, ResolutionInv, Ingest
<1>. QED BY <1>2, <1>3, <1>4, EdgesAlike

\* The empty index, and every step.
LEMMA ResolutionStart ==
  ASSUME ResolutionInit
  PROVE  ResolutionInv
<1>1. DefinedIn({}) = {}
  BY DEF DefinedIn
<1>. QED BY <1>1, NothingOrdered DEF ResolutionInit, ResolutionInv, Ingest

LEMMA ResolutionStep ==
  ASSUME ResolutionInv, [ResolutionNext]_resolutionVars
  PROVE  ResolutionInv'
<1> DEFINE Drawn(f) == EdgesOf(InPathOrder, f)
<1>1. corpus' = corpus
  BY DEF ResolutionNext, IndexFile, ResolveFile, resolutionVars
<1>2. /\ Ingest' /\ InPathOrder' = InPathOrder
      /\ \A f : EdgesOf(InPathOrder, f)' = EdgesOf(InPathOrder, f)
      /\ \A files : DefinedIn(files)' = DefinedIn(files)
      /\ \A f : Definitions(f)' = Definitions(f)
  <2>1. Ingest'
    BY <1>1 DEF ResolutionInv, Ingest
  <2>2. \A files : DefinedIn(files)' = DefinedIn(files)
    BY <1>1, CorpusStays DEF DefinedIn
  <2>3. \A s, f : EdgesOf(s, f)' = EdgesOf(s, f)
    BY <1>1, CorpusStays
  <2>4. InPathOrder' = InPathOrder /\ \A f : Definitions(f)' = Definitions(f)
    BY <1>1, CorpusStays
  <2>. QED BY <2>1, <2>2, <2>3, <2>4
<1>3. ASSUME NEW f \in Files, IndexFile(f) PROVE ResolutionInv'
  <2>1. /\ f \notin indexed /\ indexed' = indexed \cup {f} /\ defs' = defs \o Definitions(f)
        /\ resolved' = resolved /\ edges' = edges
    BY <1>3 DEF IndexFile
  <2>2. Ordered(defs \o Definitions(f)) /\ In(defs \o Definitions(f)) = DefinedIn(indexed \cup {f})
    BY <2>1, FileJoins DEF ResolutionInv
  <2>3. Ordered(defs)' /\ In(defs)' = DefinedIn(indexed)'
    <3>1. PICK s : s = defs \o Definitions(f) /\ Ordered(s) /\ In(s) = DefinedIn(indexed \cup {f})
      BY <2>2
    <3>2. defs' = s
      BY <2>1, <3>1
    <3>3. Ordered(defs)'
      BY <3>1, <3>2 DEF Ordered
    <3>4. In(defs)' = In(s)
      BY <3>2 DEF In
    <3>5. DefinedIn(indexed)' = DefinedIn(indexed \cup {f})
      <4>1. PICK files : files = indexed \cup {f}
        OBVIOUS
      <4>2. indexed' = files
        BY <2>1, <4>1
      <4>3. DefinedIn(indexed)' = DefinedIn(files)'
        BY <4>2 DEF DefinedIn
      <4>. QED BY <1>2, <4>1, <4>3
    <3>. QED BY <3>1, <3>3, <3>4, <3>5
  <2>4. (UNION {EdgesOf(InPathOrder, g) : g \in resolved})' = UNION {EdgesOf(InPathOrder, g) : g \in resolved}
    BY <1>2, <2>1
  <2>. QED BY <1>2, <2>1, <2>3, <2>4 DEF ResolutionInv
<1>4. ASSUME NEW f \in Files, ResolveFile(f) PROVE ResolutionInv'
  <2>1. /\ indexed = Files /\ resolved' = resolved \cup {f} /\ edges' = edges \cup EdgesOf(defs, f)
        /\ defs' = defs /\ indexed' = indexed
    BY <1>4 DEF ResolveFile
  <2>2. EdgesOf(defs, f) = EdgesOf(InPathOrder, f)
    BY <2>1, IndexedAlike
  <2>3. Ordered(defs)' /\ In(defs)' = DefinedIn(indexed)'
    BY <1>2, <2>1 DEF In, Ordered, DefinedIn, ResolutionInv
  <2>4. edges = UNION {Drawn(g) : g \in resolved}
    BY DEF ResolutionInv
  <2>5. edges' = UNION {Drawn(g) : g \in resolved'}
    <3> HIDE DEF Drawn
    <3>1. EdgesOf(defs, f) = Drawn(f)
      BY <2>2 DEF Drawn
    <3>. QED BY <2>1, <2>4, <3>1
  <2>6. (UNION {EdgesOf(InPathOrder, g) : g \in resolved})' = UNION {Drawn(g) : g \in resolved'}
    BY <1>2
  <2>. QED BY <1>2, <2>1, <2>3, <2>5, <2>6 DEF ResolutionInv
<1>5. ASSUME UNCHANGED resolutionVars PROVE ResolutionInv'
  <2>1. defs' = defs /\ indexed' = indexed /\ resolved' = resolved /\ edges' = edges
    BY <1>5 DEF resolutionVars
  <2>2. Ordered(defs)' /\ In(defs)' = DefinedIn(indexed)'
    BY <1>2, <2>1 DEF In, Ordered, DefinedIn, ResolutionInv
  <2>3. (UNION {EdgesOf(InPathOrder, g) : g \in resolved})' = UNION {EdgesOf(InPathOrder, g) : g \in resolved}
    BY <1>2, <2>1
  <2>. QED BY <1>2, <2>1, <2>2, <2>3 DEF ResolutionInv
<1>. QED BY <1>3, <1>4, <1>5 DEF ResolutionNext

\* What goes by a name, what is of a file, and what the picks choose, in any order.
LEMMA NamedIn ==
  ASSUME NEW s, Ordered(s), In(s) = Defined, NEW q
  PROVE  /\ Ordered(Named(s, q)) /\ In(Named(s, q)) = {e \in Defined : Symbol(e).name = q}
         /\ Ordered(Qualified(s, q)) /\ In(Qualified(s, q)) = {e \in Defined : Symbol(e).qname = q}
<1>1. /\ Ordered(Named(s, q)) /\ In(Named(s, q)) = Defined \cap {e \in Entries : Symbol(e).name = q}
      /\ Ordered(Qualified(s, q)) /\ In(Qualified(s, q)) = Defined \cap {e \in Entries : Symbol(e).qname = q}
  BY KeptOrdered DEF Named, Qualified
<1>2. Defined \subseteq Entries
  BY DEF Defined
<1>. QED BY <1>1, <1>2

LEMMA InFileIn ==
  ASSUME NEW s, Ordered(s), In(s) \subseteq Entries, NEW file
  PROVE  Ordered(InFile(s, file)) /\ In(InFile(s, file)) = {e \in In(s) : e[1] = file}
<1>1. Ordered(InFile(s, file)) /\ In(InFile(s, file)) = In(s) \cap {e \in Entries : e[1] = file}
  BY KeptOrdered DEF InFile
<1>. QED BY <1>1

LEMMA FirstIsIn ==
  ASSUME NEW s, Ordered(s), NEW e \in FirstEntry(s)
  PROVE  e \in In(s)
<1>1. DOMAIN s = 1 .. Len(s) /\ Len(s) \in Nat
  BY DEF Ordered
<1>2. s # <<>> /\ e = s[1]
  BY DEF FirstEntry, None
<1>3. 1 \in DOMAIN s
  BY <1>1, <1>2 DEF Ordered
<1>. QED BY <1>2, <1>3 DEF In

\* The best match is of the preferred file or the only one.
LEMMA BestMatchIs ==
  ASSUME NEW s, Ordered(s), In(s) \subseteq Entries, NEW file, NEW e \in PickBestMatch(s, file)
  PROVE  e \in In(s) /\ (e[1] = file \/ In(s) = {e})
<1>1. e \in FirstEntry(InFile(s, file)) \/ e \in OnlyEntry(s)
  BY DEF PickBestMatch, OrElse
<1>2. CASE e \in FirstEntry(InFile(s, file))
  <2>1. Ordered(InFile(s, file)) /\ In(InFile(s, file)) = {g \in In(s) : g[1] = file}
    BY InFileIn
  <2>2. e \in In(InFile(s, file))
    BY <1>2, <2>1, FirstIsIn
  <2>. QED BY <2>1, <2>2
<1>3. CASE e \in OnlyEntry(s)
  BY <1>3, OnlyEntryIs
<1>. QED BY <1>1, <1>2, <1>3

\* libclang's pick is the only one of its file, or the only one around its line.
LEMMA CppIs ==
  ASSUME NEW s, Ordered(s), In(s) \subseteq Entries, NEW file, NEW line, NEW e \in PickCpp(s, file, line),
         \A g \in In(s) : g[1] # 0
  PROVE  LET there == {g \in In(s) : file \in {0, g[1]}}
         IN {e} \in {there, {g \in there : Symbol(g).line <= line /\ line <= Symbol(g).end}}
<1> DEFINE there == {g \in In(s) : file \in {0, g[1]}}
           around == {g \in Entries : Symbol(g).line <= line /\ line <= Symbol(g).end}
           a == IF file = 0 THEN s ELSE InFile(s, file)
<1>1. Ordered(a) /\ In(a) = there
  <2>1. CASE file = 0
    BY <2>1
  <2>2. CASE file # 0
    <3>1. Ordered(InFile(s, file)) /\ In(InFile(s, file)) = {g \in In(s) : g[1] = file}
      BY InFileIn
    <3>. QED BY <2>2, <3>1
  <2>. QED BY <2>1, <2>2
<1>2. PickCpp(s, file, line) = IF line # 0 /\ Kept(a, around) # <<>> THEN OnlyEntry(Kept(a, around)) ELSE OnlyEntry(a)
  BY DEF PickCpp
<1>3. there \cap around = {g \in there : Symbol(g).line <= line /\ line <= Symbol(g).end}
  OBVIOUS
<1> HIDE DEF a, around, there
<1>4. Ordered(Kept(a, around)) /\ In(Kept(a, around)) = there \cap around
  BY <1>1, KeptOrdered
<1>5. e \in OnlyEntry(Kept(a, around)) \/ e \in OnlyEntry(a)
  BY <1>2
<1>6. {e} = there \/ {e} = there \cap around
  BY <1>1, <1>4, <1>5, OnlyEntryIs
<1>7. {e} \in {there, {g \in there : Symbol(g).line <= line /\ line <= Symbol(g).end}}
  BY <1>3, <1>6
<1>. QED BY <1>7 DEF there

\* A set with one member is what that member makes it.
LEMMA OneFile ==
  ASSUME NEW files, IsFiniteSet(files), Cardinality(files) = 1, NEW f \in files
  PROVE  files = {f}
<1>1. PICK g : files = {g}
  BY FS_Singleton
<1>. QED BY <1>1

\* What each scheme but Python's says of the entry it leads to.
LEMMA RustSound ==
  ASSUME NEW s, Ordered(s), In(s) = Defined, InTree(Defined), NEW file, NEW ref, UseTree(ref.path),
         NEW e \in RustTargets(s, file, ref)
  PROVE  e[1] # file
<1>1. PICK name, modules : e \in PickImport(Named(s, name), modules, file) /\ Segmented(modules)
  BY UsesAreSegmented DEF RustTargets, None
<1>2. Ordered(Named(s, name)) /\ In(Named(s, name)) \subseteq Defined
  BY NamedIn
<1>3. InTree(In(Named(s, name)))
  BY <1>2 DEF InTree
<1>4. e \in BestOf(modules, {g \in In(Named(s, name)) : g[1] # file})
  BY <1>1, <1>2, <1>3, PickImportIs
<1>. QED BY <1>4 DEF BestOf

LEMMA SyntaxSound ==
  ASSUME NEW s, Ordered(s), In(s) = Defined, NEW file, NEW ref, NEW e \in SyntaxTargets(s, file, ref)
  PROVE  IF ref.kind = "calls" THEN {g \in Defined : Symbol(g).name = Symbol(e).name} = {e}
         ELSE {f \in Files : Package[f] = Package[e[1]]} = {e[1]} /\ e[1] # file
<1>1. CASE ref.kind = "calls"
  <2> DEFINE q == Leaf(ref.qname)
  <2>1. e \in OnlyEntry(Named(s, q))
    BY <1>1 DEF SyntaxTargets
  <2>2. Ordered(Named(s, q)) /\ In(Named(s, q)) = {g \in Defined : Symbol(g).name = q}
    BY NamedIn
  <2> HIDE DEF q
  <2>3. {g \in Defined : Symbol(g).name = q} = {e}
    BY <2>1, <2>2, OnlyEntryIs
  <2>4. Symbol(e).name = q
    BY <2>3
  <2>. QED BY <1>1, <2>3, <2>4
<1>2. CASE ref.kind # "calls"
  <2> DEFINE there == {f \in Files : Package[f] = Leaf(ref.qname)}
  <2>1. Cardinality(there) = 1 /\ \E f \in there \ {file} : e = <<f, 0>>
    BY <1>2 DEF SyntaxTargets, None
  <2>2. PICK f \in there : f # file /\ e[1] = f
    BY <2>1
  <2>3. IsFiniteSet(there)
    BY ResolutionAssumption, FS_Subset
  <2>4. Package[f] = Leaf(ref.qname)
    BY <2>2
  <2>5. there = {f}
    <3> HIDE DEF there
    <3>. QED BY <2>1, <2>2, <2>3, OneFile
  <2>6. there = {g \in Files : Package[g] = Package[f]}
    BY <2>4
  <2>. QED BY <1>2, <2>2, <2>5, <2>6
<1>. QED BY <1>1, <1>2

\* The symbols a C++ reference can go by, in one of three ways.
CppGroups(r) == {{e \in Defined : Symbol(e).usr = r.usr}, {e \in Defined : Symbol(e).qname = r.qname},
                 {e \in Defined : e[1] = r.file /\ Symbol(e).line = r.line}}

LEMMA CppSound ==
  ASSUME NEW s, Ordered(s), In(s) = Defined, InTree(Defined), NEW file, NEW r, NEW e \in CppTargets(s, file, r)
  PROVE  \E group \in CppGroups(r) :
           LET there == {g \in group : r.file \in {0, g[1]}}
           IN {e} \in {there, {g \in there : Symbol(g).line <= r.line /\ r.line <= Symbol(g).end}}
<1> DEFINE sameUsr == {g \in Entries : r.usr # "none" /\ Symbol(g).usr = r.usr}
           place == {g \in Entries : g[1] = r.file /\ Symbol(g).line = r.line}
<1>1. \/ e \in PickCpp(Kept(s, sameUsr), r.file, r.line)
      \/ e \in PickCpp(Kept(s, place), r.file, r.line)
      \/ e \in PickCpp(Qualified(s, r.qname), r.file, r.line)
  BY DEF CppTargets, OrElse, None
<1>2. Defined \subseteq Entries /\ \A g \in Defined : g[1] # 0
  <2>1. Defined \subseteq Entries
    BY DEF Defined
  <2>2. \A g \in Defined : g[1] \in Files
    BY DEF InTree
  <2>3. \A f \in Files : f # 0
    BY ResolutionAssumption
  <2>. QED BY <2>1, <2>2, <2>3
<1>3. /\ Ordered(Kept(s, sameUsr)) /\ In(Kept(s, sameUsr)) = Defined \cap sameUsr
      /\ Ordered(Kept(s, place)) /\ In(Kept(s, place)) = Defined \cap place
      /\ Ordered(Qualified(s, r.qname)) /\ In(Qualified(s, r.qname)) = {g \in Defined : Symbol(g).qname = r.qname}
  BY KeptOrdered, NamedIn
<1>4. Defined \cap place = {g \in Defined : g[1] = r.file /\ Symbol(g).line = r.line}
  BY <1>2
<1>5. r.usr # "none" => Defined \cap sameUsr = {g \in Defined : Symbol(g).usr = r.usr}
  BY <1>2
<1>6. r.usr = "none" => Defined \cap sameUsr = {}
  OBVIOUS
<1> HIDE DEF sameUsr, place
<1>7. ASSUME NEW t, Ordered(t), In(t) \subseteq Defined, e \in PickCpp(t, r.file, r.line)
      PROVE  LET there == {g \in In(t) : r.file \in {0, g[1]}}
             IN {e} \in {there, {g \in there : Symbol(g).line <= r.line /\ r.line <= Symbol(g).end}}
  BY <1>2, <1>7, CppIs
<1>8. CASE e \in PickCpp(Kept(s, sameUsr), r.file, r.line)
  <2>1. r.usr # "none"
    <3>1. In(Kept(s, sameUsr)) # {}
      BY <1>3, <1>7, <1>8
    <3>. QED BY <1>3, <1>6, <3>1
  <2>2. In(Kept(s, sameUsr)) \in CppGroups(r)
    BY <1>3, <1>5, <2>1 DEF CppGroups
  <2>3. In(Kept(s, sameUsr)) \subseteq Defined
    BY <1>3
  <2>. QED BY <1>3, <1>7, <1>8, <2>2, <2>3
<1>9. CASE e \in PickCpp(Kept(s, place), r.file, r.line)
  <2>2. In(Kept(s, place)) \in CppGroups(r)
    BY <1>3, <1>4 DEF CppGroups
  <2>3. In(Kept(s, place)) \subseteq Defined
    BY <1>3
  <2>. QED BY <1>3, <1>7, <1>9, <2>2, <2>3
<1>10. CASE e \in PickCpp(Qualified(s, r.qname), r.file, r.line)
  <2>2. In(Qualified(s, r.qname)) \in CppGroups(r)
    BY <1>3 DEF CppGroups
  <2>3. In(Qualified(s, r.qname)) \subseteq Defined
    BY <1>3
  <2>. QED BY <1>3, <1>7, <1>10, <2>2, <2>3
<1>. QED BY <1>1, <1>8, <1>9, <1>10

\* By a place in the one file it can mean, in the file itself, or by a name only it has.
Unguessed(e, file, ref) ==
  \/ ref.kind = "calls" /\ ref.files = {e[1]}
  \/ e[1] = file
  \/ {g \in Defined : Symbol(g).qname = Symbol(e).qname} = {e}

LEMMA LspSound ==
  ASSUME NEW s, Ordered(s), In(s) = Defined, NEW file, NEW ref, IsFiniteSet(ref.files),
         InTree(Entries), NEW e
  PROVE  /\ ref.kind = "calls" /\ e \in LspTargets(s, file, ref) => Unguessed(e, file, ref)
         /\ e \in TraitTargets(s, file, ref) => Unguessed(e, file, ref)
         /\ e \in InterfaceTargets(s, file, ref) => e[1] = file \/ {g \in Defined : Symbol(g).qname = Symbol(e).qname} = {e}
<1>1. Defined \subseteq Entries
  BY DEF Defined
<1>2. ASSUME NEW q, e \in PickBestMatch(Qualified(s, q), file)
      PROVE  e[1] = file \/ {g \in Defined : Symbol(g).qname = Symbol(e).qname} = {e}
  <2>1. Ordered(Qualified(s, q)) /\ In(Qualified(s, q)) = {g \in Defined : Symbol(g).qname = q}
    BY NamedIn
  <2>2. In(Qualified(s, q)) \subseteq Entries
    BY <1>1, <2>1
  <2>3. e \in In(Qualified(s, q)) /\ (e[1] = file \/ In(Qualified(s, q)) = {e})
    BY <1>2, <2>1, <2>2, BestMatchIs
  <2>4. Symbol(e).qname = q
    BY <2>1, <2>3
  <2>. QED BY <2>1, <2>3, <2>4
<1>3. ASSUME NEW those, e \in PickBestMatch(Kept(InFile(s, file), those), file)
      PROVE  e[1] = file
  <2>1. Ordered(InFile(s, file)) /\ In(InFile(s, file)) = {g \in Defined : g[1] = file}
    BY <1>1, InFileIn
  <2>2. /\ Ordered(Kept(InFile(s, file), those))
        /\ In(Kept(InFile(s, file), those)) = In(InFile(s, file)) \cap those
    BY <2>1, KeptOrdered
  <2>3. In(Kept(InFile(s, file), those)) \subseteq Entries
    BY <1>1, <2>1, <2>2
  <2>4. e \in In(Kept(InFile(s, file), those))
    BY <1>3, <2>2, <2>3, BestMatchIs
  <2>. QED BY <2>1, <2>2, <2>4
<1>4. ASSUME NEW names, e \in AtLocation(ref.files, ref.line, names)
      PROVE  ref.files = {e[1]}
  <2> DEFINE own == {g \in Entries : g[1] \in ref.files /\ (names = {} \/ Symbol(g).name \in names)}
             starting == {g \in own : Symbol(g).line = ref.line}
             around == {g \in own : Symbol(g).line <= ref.line /\ ref.line <= Symbol(g).end}
             narrow == {g \in around : \A h \in around : Symbol(g).end - Symbol(g).line <= Symbol(h).end - Symbol(h).line}
             FirstIn(es) == IF es = {} THEN None ELSE {CHOOSE g \in es : \A h \in es : g[2] <= h[2]}
  <2>1. Cardinality(ref.files) = 1 /\ (e \in FirstIn(starting) \/ e \in FirstIn(narrow))
    BY <1>4 DEF AtLocation, OrElse, None
  <2>2. starting \subseteq own /\ narrow \subseteq own /\ own \subseteq Entries /\ \A g \in own : g[1] \in ref.files
    OBVIOUS
  <2> HIDE DEF own, starting, narrow
  <2>3. ASSUME NEW es, es \subseteq own, e \in FirstIn(es) PROVE e \in own
    <3>1. es # {} /\ e = CHOOSE g \in es : \A h \in es : g[2] <= h[2]
      BY <2>3 DEF None
    <3> DEFINE T == {g[2] : g \in es}
    <3>2. T \in SUBSET Nat /\ T # {}
      BY <2>2, <2>3, <3>1 DEF InTree, Entry
    <3>3. \E m \in T : \A k \in T : m <= k
      <4> HIDE DEF T
      <4>. QED BY <3>2, LeastOf
    <3>4. \E g \in es : \A h \in es : g[2] <= h[2]
      BY <3>3
    <3>5. e \in es
      BY <3>1, <3>4
    <3>. QED BY <2>3, <3>5
  <2>4. e \in own
    BY <2>1, <2>2, <2>3
  <2>5. e[1] \in ref.files
    BY <2>2, <2>4
  <2>. QED BY <2>1, <2>5, OneFile
<1>5. ASSUME ref.kind = "calls", e \in LspTargets(s, file, ref) PROVE Unguessed(e, file, ref)
  <2>1. CASE ref.files # {}
    <3>1. e \in AtLocation(ref.files, ref.line, {Leaf(ref.qname)})
      BY <1>5, <2>1 DEF LspTargets
    <3>2. ref.files = {e[1]}
      BY <1>4, <3>1
    <3>. QED BY <1>5, <3>2 DEF Unguessed
  <2>2. CASE ref.files = {}
    <3>1. PICK those, q : \/ e \in PickBestMatch(Qualified(s, ref.qname), file)
                          \/ e \in PickBestMatch(Kept(InFile(s, file), those), file)
                          \/ e \in PickBestMatch(Qualified(s, q), file)
      BY <1>5, <2>2 DEF LspTargets, OrElse
    <3>. QED BY <1>2, <1>3, <3>1 DEF Unguessed
  <2>. QED BY <2>1, <2>2
<1>6. ASSUME e \in TraitTargets(s, file, ref) PROVE Unguessed(e, file, ref)
  BY <1>2, <1>6 DEF TraitTargets, Unguessed
<1>7. ASSUME e \in InterfaceTargets(s, file, ref)
      PROVE  e[1] = file \/ {g \in Defined : Symbol(g).qname = Symbol(e).qname} = {e}
  <2>1. PICK q : e \in PickBestMatch(Qualified(s, ref.qname), file) \/ e \in PickBestMatch(Qualified(s, q), file)
    BY <1>7 DEF InterfaceTargets, OrElse
  <2>. QED BY <1>2, <2>1
<1>. QED BY <1>5, <1>6, <1>7

\* So the schemes that drop what is ambiguous make no edge of it.
LEMMA AmbiguityDropped ==
  ASSUME ResolutionInv
  PROVE  AmbiguousIsDropped
<1> DEFINE s == InPathOrder
           Sound(d) ==
             LET file == d.from[1]
                 refs == {corpus.refs[file][k] : k \in DOMAIN corpus.refs[file]}
             IN /\ corpus.scheme = "rust" => d.to[1] # file
                /\ corpus.scheme = "syntax" =>
                     IF d.kind = "calls" THEN {e \in Defined : Symbol(e).name = Symbol(d.to).name} = {d.to}
                     ELSE {f \in Files : Package[f] = Package[d.to[1]]} = {d.to[1]} /\ d.to[1] # file
                /\ corpus.scheme = "cpp" =>
                     \E r \in refs : \E group \in CppGroups(r) :
                       LET there == {g \in group : r.file \in {0, g[1]}}
                       IN {d.to} \in {there, {g \in there : Symbol(g).line <= r.line /\ r.line <= Symbol(g).end}}
                /\ corpus.scheme = "lsp" =>
                     \/ \E r \in refs : r.kind = "calls" /\ r.files = {d.to[1]}
                     \/ d.to[1] = file
                     \/ d.kind = "satisfies" /\ corpus.refs[d.to[1]] # <<>>
                     \/ {e \in Defined : Symbol(e).qname = Symbol(d.to).qname} = {d.to}
<1>1. Ordered(s) /\ In(s) = Defined /\ InTree(Entries) /\ InTree(Defined)
  <2>1. InTree(Entries)
    BY EntriesInTree DEF ResolutionInv
  <2>2. InTree(Defined)
    BY <2>1 DEF InTree, Defined
  <2>. QED BY <2>1, <2>2, PathOrderOrdered DEF ResolutionInv
<1>2. ASSUME NEW f \in Files, NEW d \in EdgesOf(s, f) PROVE Sound(d)
  <2> DEFINE Refs(g) == {corpus.refs[g][k] : k \in DOMAIN corpus.refs[g]}
  <2>1. PICK r \in Refs(f) : d.kind = r.kind /\ d.from \in Source(f, r) /\ d.to \in Targets(s, f, r)
    BY DEF EdgesOf
  <2>2. PICK k \in DOMAIN corpus.refs[f] : r = corpus.refs[f][k]
    BY <2>1
  <2>3. /\ IsFiniteSet(r.files)
        /\ corpus.scheme = "lsp" => r.kind \in {"calls", "implements", "satisfies"}
        /\ corpus.scheme # "lsp" => r.kind # "satisfies"
        /\ corpus.refs[f] # <<>>
        /\ corpus.scheme = "rust" => UseTree(r.path)
    <3>1. /\ r.files \subseteq Files /\ IsFiniteSet(Files)
          /\ corpus.scheme = "rust" => UseTree(r.path)
          /\ IF corpus.scheme = "lsp" THEN r.kind \in {"calls", "implements", "satisfies"} ELSE r.kind # "satisfies"
      BY <2>2, ResolutionAssumption DEF ResolutionInv, Ingest
    <3>2. corpus.refs[f] # <<>>
      BY <2>2
    <3>. QED BY <3>1, <3>2, FS_Subset
  <2>4. r.kind # "satisfies" => d.from[1] = f
    BY <2>1 DEF Source
  <2>5. CASE corpus.scheme = "rust"
    <3>1. d.to \in RustTargets(s, f, r)
      BY <2>1, <2>5 DEF Targets
    <3>2. d.to[1] # f
      BY <1>1, <2>3, <2>5, <3>1, RustSound
    <3>. QED BY <2>3, <2>4, <2>5, <3>2
  <2>6. CASE corpus.scheme = "syntax"
    <3>1. d.to \in SyntaxTargets(s, f, r)
      BY <2>1, <2>6 DEF Targets
    <3>2. IF r.kind = "calls" THEN {e \in Defined : Symbol(e).name = Symbol(d.to).name} = {d.to}
          ELSE {g \in Files : Package[g] = Package[d.to[1]]} = {d.to[1]} /\ d.to[1] # f
      BY <1>1, <3>1, SyntaxSound
    <3>3. d.from[1] = f /\ d.kind = r.kind
      BY <2>1, <2>3, <2>4, <2>6
    <3>. QED BY <2>6, <3>2, <3>3
  <2>7. CASE corpus.scheme = "cpp"
    <3>1. d.to \in CppTargets(s, f, r)
      BY <2>1, <2>7 DEF Targets
    <3>2. \E group \in CppGroups(r) :
            LET there == {g \in group : r.file \in {0, g[1]}}
            IN {d.to} \in {there, {g \in there : Symbol(g).line <= r.line /\ r.line <= Symbol(g).end}}
      <4>1. PICK all, e : all = s /\ e = d.to
        OBVIOUS
      <4>2. Ordered(all) /\ In(all) = Defined /\ InTree(Defined) /\ e \in CppTargets(all, f, r)
        BY <1>1, <3>1, <4>1
      <4>3. \E group \in CppGroups(r) :
              LET there == {g \in group : r.file \in {0, g[1]}}
              IN {e} \in {there, {g \in there : Symbol(g).line <= r.line /\ r.line <= Symbol(g).end}}
        BY ONLY <4>2, CppSound
      <4>. QED BY <4>1, <4>3
    <3>3. d.from[1] = f
      BY <2>3, <2>4, <2>7
    <3>. QED BY <2>1, <2>7, <3>2, <3>3
  <2>8. CASE corpus.scheme = "lsp"
    <3>1. /\ r.kind = "calls" => d.to \in LspTargets(s, f, r)
          /\ r.kind = "implements" => d.to \in TraitTargets(s, f, r)
          /\ r.kind = "satisfies" => d.to \in InterfaceTargets(s, f, r)
      BY <2>1, <2>8 DEF Targets
    <3>2. CASE r.kind = "satisfies"
      <4>1. d.to[1] = f \/ {g \in Defined : Symbol(g).qname = Symbol(d.to).qname} = {d.to}
        BY <1>1, <2>3, <3>1, <3>2, LspSound
      <4>. QED BY <2>1, <2>3, <2>8, <3>2, <4>1
    <3>3. CASE r.kind # "satisfies"
      <4>1. Unguessed(d.to, f, r)
        BY <1>1, <2>3, <2>8, <3>1, <3>3, LspSound
      <4>2. d.from[1] = f
        BY <2>4, <3>3
      <4>. QED BY <2>1, <2>8, <4>1, <4>2 DEF Unguessed
    <3>. QED BY <3>2, <3>3
  <2>9. CASE corpus.scheme = "python"
    BY <2>9
  <2>10. corpus.scheme \in Schemes
    BY ResolutionAssumption DEF ResolutionInv, Ingest
  <2> HIDE DEF Sound
  <2>. QED BY <2>5, <2>6, <2>7, <2>8, <2>9, <2>10 DEF Schemes
<1>3. \A d \in edges : Sound(d)
  <2>1. \A d \in edges : \E f \in Files : d \in EdgesOf(s, f)
    BY DEF ResolutionInv
  <2> HIDE DEF Sound, s
  <2>. QED BY <1>2, <2>1
<1>. QED BY <1>3 DEF AmbiguousIsDropped, CppGroups, Defined

\* Of every ingest, whatever its files hold: the edges are the same in whatever
\* order the map of files is iterated (PickImport, PickPython, PickCpp,
\* PickBestMatch, AtLocation), and the schemes that drop what is ambiguous make
\* no edge of it (PickCpp, PickBestMatch across files, the lone names of syntax).
THEOREM ResolutionIsSound == ResolutionSpec => [](OrderDoesNotMatter /\ AmbiguousIsDropped)
<1>1. ResolutionInit => ResolutionInv
  BY ResolutionStart
<1>2. ResolutionInv /\ [ResolutionNext]_resolutionVars => ResolutionInv'
  BY ResolutionStep
<1>3. ResolutionInv => OrderDoesNotMatter /\ AmbiguousIsDropped
  BY AmbiguityDropped DEF ResolutionInv, OrderDoesNotMatter
<1>. QED BY <1>1, <1>2, <1>3, PTL DEF ResolutionSpec

\* Every `use` of an ingest is a tree, so every one expands to its paths.
LEMMA GroupsHold ==
  ASSUME corpus \in Corpora
  PROVE  GroupsExpand
<1> SUFFICES ASSUME corpus.scheme = "rust", NEW f \in Files, NEW k \in DOMAIN corpus.refs[f]
             PROVE  ExpandUseGroup(corpus.refs[f][k].path)
                      = {PathTo(corpus.refs[f][k].path, i) : i \in Leaves(corpus.refs[f][k].path)} \ {<<>>}
  BY Zenon DEF GroupsExpand
<1>1. UseTree(corpus.refs[f][k].path)
  BY ResolutionAssumption
<1>. QED BY <1>1, GroupExpands DEF Paths

NamesInv == studied = "resolution" => ResolutionInv

\* The second pass of an ingest, whatever its files hold and the order of their map: the same
\* edges; none where libclang, tree-sitter or a server's name is ambiguous (rust and Python
\* choose among several); and of a grouped import the paths to its leaves (expand_use_group).
THEOREM NamesAlike == Spec => []NamesResolveAlike
<1>1. Init => NamesInv
  BY ResolutionStart DEF Init, NamesInv
<1>2. NamesInv /\ [Next]_algorithmVars => NamesInv'
  <2> SUFFICES ASSUME NamesInv, [Next]_algorithmVars PROVE NamesInv'
    OBVIOUS
  <2>1. studied' = studied /\ (studied = "resolution" => [ResolutionNext]_resolutionVars)
    BY DEF Next, algorithmVars
  <2>. QED BY <2>1, ResolutionStep DEF NamesInv
<1>3. NamesInv => NamesResolveAlike
  <2> SUFFICES ASSUME NamesInv, studied = "resolution" PROVE OrderDoesNotMatter /\ AmbiguousIsDropped /\ GroupsExpand
    BY DEF NamesResolveAlike
  <2>1. ResolutionInv
    BY DEF NamesInv
  <2>2. OrderDoesNotMatter /\ AmbiguousIsDropped
    BY <2>1, AmbiguityDropped DEF ResolutionInv, OrderDoesNotMatter
  <2>3. corpus \in Corpora
    BY <2>1 DEF ResolutionInv, Ingest
  <2>. QED BY <2>2, <2>3, GroupsHold
<1>. QED BY <1>1, <1>2, <1>3, PTL DEF Spec

-----------------------------------------------------------------------------
(* What a read says                                                        *)

ReadInv == (studied = "walk" => WalkInv) /\ (studied = "reads" => ReadsInv)

\* For every graph, request, cap, depth and page, and whatever an ingest or a purge
\* does between the statements: what a traversal says is near is near, and it says
\* when rows were cut; a path found is shortest; a client that pages through list
\* misses nothing that stood still. What no write came between also agrees:
\* orient's counts, and the cohort and the coverage of a hybrid query.
THEOREM ReadsHonest == Spec => []ReadsAreHonest
<1>1. Init => ReadInv
  BY WalkStart, ReadsStart DEF Init, ReadInv
<1>2. ReadInv /\ [Next]_algorithmVars => ReadInv'
  <2> SUFFICES ASSUME ReadInv, [Next]_algorithmVars PROVE ReadInv'
    OBVIOUS
  <2>1. studied' = studied /\ (studied = "walk" => [WalkNext]_walkVars) /\ (studied = "reads" => [ReadsNext]_readVars)
    BY DEF Next, algorithmVars
  <2>. QED BY <2>1, WalkStep, ReadsStep DEF ReadInv
<1>3. ReadInv => ReadsAreHonest
  BY ReadsTell DEF ReadInv, ReadsAreHonest, WalkInv
<1>. QED BY <1>1, <1>2, <1>3, PTL DEF Spec
=============================================================================
