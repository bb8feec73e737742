---------------------------- MODULE Resolution ----------------------------
(***************************************************************************)
(* How the second pass of a codebase ingest turns names into edges, one    *)
(* scheme a language: `use` paths (rust_imports.rs), Python calls          *)
(* (python_calls.rs), libclang calls (cpp_edges.rs), names tree-sitter saw *)
(* (tree_sitter_edges.rs) and calls a language server located              *)
(* (lsp/edges.rs).  The files of an ingest are a HashMap: the pass indexes *)
(* them in whatever order it iterates, then resolves them in another.      *)
(*                                                                         *)
(* A file is a number, and the numbers are in the order of the paths; an   *)
(* entry is a file and the place of a symbol in its list.  A qualified     *)
(* name is a sequence, and so is a `use` path, of the tokens of its text.  *)
(***************************************************************************)
EXTENDS Integers, Sequences, FiniteSets

CONSTANTS
  Files,    \* the files of the ingest
  Parts,    \* the components of each file's path
  Package,  \* the name of each file's directory
  Corpora   \* what the analyzers found: scheme, symbols of each file, references of each

Schemes == {"rust", "python", "cpp", "syntax", "lsp"}

Listed(list) == Len(list) \in Nat /\ DOMAIN list = 1 .. Len(list)

OpenBrace == "{"
CloseBrace == "}"
Comma == ","

\* How deep each token is in braces, the brace itself outside.
Depth(tokens) ==
  LET d[i \in 0 .. Len(tokens)] ==
        IF i = 0 THEN 0
        ELSE IF tokens[i] = OpenBrace THEN d[i - 1] + 1
        ELSE IF tokens[i] = CloseBrace THEN d[i - 1] - 1 ELSE d[i - 1]
  IN d

\* What the parser prints of a `use` tree: groups that close, with commas inside
\* and nothing but commas and the end of the outer one after them.
UseTree(path) ==
  /\ path \in Seq(STRING) \ {<<>>}
  /\ Depth(path)[Len(path)] = 0
  /\ \A i \in DOMAIN path :
       /\ Depth(path)[i] >= 0
       /\ path[i] = Comma => Depth(path)[i] > 0
       /\ path[i] = CloseBrace /\ i < Len(path) => path[i + 1] \in {Comma, CloseBrace}

\* Only a language server says what satisfies an interface, and where a call leads.
ASSUME ResolutionAssumption ==
  /\ Files \subseteq Nat \ {0} /\ IsFiniteSet(Files)
  /\ DOMAIN Parts = Files /\ DOMAIN Package = Files /\ \A f \in Files : IsFiniteSet(Parts[f])
  /\ \A c \in Corpora :
       /\ c.scheme \in Schemes /\ DOMAIN c.symbols = Files /\ DOMAIN c.refs = Files
       /\ \A f \in Files : Listed(c.symbols[f]) /\ Listed(c.refs[f])
       /\ \A f \in Files : \A k \in DOMAIN c.refs[f] :
            /\ c.refs[f][k].files \subseteq Files
            /\ IF c.scheme = "lsp" THEN c.refs[f][k].kind \in {"calls", "implements", "satisfies"}
               ELSE c.refs[f][k].kind # "satisfies"
            /\ c.scheme = "rust" => UseTree(c.refs[f][k].path)

VARIABLES
  corpus,    \* the ingest
  defs,      \* the entries indexed so far, in the order of the iteration
  indexed,   \* the files indexed
  resolved,  \* the files resolved
  edges      \* the edges so far: from and to, each a file and a symbol, or 0 for the file
resolutionVars == <<corpus, defs, indexed, resolved, edges>>

Entries == UNION {{f} \X DOMAIN corpus.symbols[f] : f \in Files}
Symbol(e) == corpus.symbols[e[1]][e[2]]

\* Of a list of entries those of a set, in their order.
Kept(entries, those) ==
  LET kept[i \in 0 .. Len(entries)] ==
        IF i = 0 THEN <<>>
        ELSE IF entries[i] \in those THEN Append(kept[i - 1], entries[i]) ELSE kept[i - 1]
  IN kept[Len(entries)]

None == {}
OrElse(found, other) == IF found # None THEN found ELSE other

-----------------------------------------------------------------------------
(* `use` paths                                                             *)

FirstOf(places) == CHOOSE p \in places : \A q \in places : p <= q

\* The brace that closes the one at open, 0 when the text is malformed.
MatchingBrace(tokens, open) ==
  LET closing == {i \in open + 1 .. Len(tokens) : tokens[i] = CloseBrace /\ Depth(tokens)[i] = Depth(tokens)[open - 1]}
  IN IF closing = {} THEN 0 ELSE FirstOf(closing)

\* The parts between the commas that are in no brace.
TopLevelParts(tokens) ==
  LET commas == {i \in DOMAIN tokens : tokens[i] = Comma /\ Depth(tokens)[i] = 0}
      ends == commas \cup {Len(tokens) + 1}
      From(e) == 1 + (IF \E c \in commas : c < e THEN CHOOSE c \in commas : c < e /\ \A d \in commas : d < e => d <= c ELSE 0)
  IN {SubSeq(tokens, From(e), e - 1) : e \in ends} \ {<<>>}

\* One group is opened at a time: prefix and suffix around each of its parts,
\* `self` the module itself.
ExpandOnce(path) ==
  LET open == IF \E i \in DOMAIN path : path[i] = OpenBrace THEN FirstOf({i \in DOMAIN path : path[i] = OpenBrace}) ELSE 0
      close == IF open = 0 THEN 0 ELSE MatchingBrace(path, open)
      prefix == SubSeq(path, 1, open - 1)
      suffix == SubSeq(path, close + 1, Len(path))
      Whole(part) == IF part = <<"self">> THEN prefix \o suffix ELSE prefix \o part \o suffix
  IN IF close = 0 THEN {path}
     ELSE {Whole(p) : p \in TopLevelParts(SubSeq(path, open + 1, close - 1))} \ {<<>>}

\* Until no brace is left; a path has fewer braces at each turn.
ExpandUseGroup(path) ==
  LET turn[n \in 0 .. Len(path)] ==
        IF n = 0 THEN {path} ELSE UNION {ExpandOnce(p) : p \in turn[n - 1]}
  IN turn[Len(path)]

\* Without the leading crate, self and super.
StripQualifiers(path) ==
  LET kept == {i \in DOMAIN path : path[i] \notin {"crate", "self", "super"}}
  IN IF kept = {} THEN <<path[Len(path)]>> ELSE SubSeq(path, FirstOf(kept), Len(path))

\* The name defined, not the alias it is given.
Unaliased(path) ==
  IF Len(path) > 2 /\ path[Len(path) - 1] = "as" THEN SubSeq(path, 1, Len(path) - 2) ELSE path
Leaf(path) == path[Len(path)]

\* The segments before the leaf, or the only one; an only one with an alias is
\* compared with its alias, which is in no path.
ModuleSegments(path) ==
  LET named == Unaliased(path)
  IN IF Len(named) > 1 \/ named # path THEN SubSeq(named, 1, Len(named) - 1) ELSE path

\* Mutant: the first of the best, in whatever order the files were indexed.
PickImportFirst(entries, modules, source) ==
  LET Score(e) == Cardinality({i \in DOMAIN modules : modules[i] \in Parts[e[1]]})
      best[i \in 0 .. Len(entries)] ==
        IF i = 0 THEN None
        ELSE IF entries[i][1] # source /\ \A b \in best[i - 1] : Score(entries[i]) > Score(b)
             THEN {entries[i]} ELSE best[i - 1]
  IN best[Len(entries)]

\* How many segments are components of the path; a strictly better score wins,
\* equal scores the smallest path, then the first.
PickImport(entries, modules, source) ==
  LET Score(e) == Cardinality({i \in DOMAIN modules : modules[i] \in Parts[e[1]]})
      Better(e, best) ==
        \A b \in best : Score(e) > Score(b) \/ (Score(e) = Score(b) /\ e[1] < b[1])
      best[i \in 0 .. Len(entries)] ==
        IF i = 0 THEN None
        ELSE IF entries[i][1] # source /\ Better(entries[i], best[i - 1]) THEN {entries[i]} ELSE best[i - 1]
  IN best[Len(entries)]

-----------------------------------------------------------------------------
(* The other schemes' picks                                                *)

InFile(entries, file) == Kept(entries, {e \in Entries : e[1] = file})
FirstEntry(entries) == IF entries = <<>> THEN None ELSE {entries[1]}
OnlyEntry(entries) == IF Len(entries) = 1 THEN {entries[1]} ELSE None

\* Python: the caller's own file, else the smallest path and key.
PickPython(entries, file) ==
  LET Smaller(a, b) == a[1] < b[1] \/ (a[1] = b[1] /\ Symbol(a).key <= Symbol(b).key)
      all == {entries[i] : i \in DOMAIN entries}
  IN IF entries = <<>> THEN None
     ELSE OrElse(FirstEntry(InFile(entries, file)),
                 {CHOOSE e \in all : \A f \in all : Smaller(e, f)})

\* Language server: the preferred file, else the only one there is.
PickBestMatch(entries, file) == OrElse(FirstEntry(InFile(entries, file)), OnlyEntry(entries))

\* libclang: in the target's file if it is known, at its line if that names one
\* symbol, and never a guess among several.
PickCpp(entries, file, line) ==
  LET there == IF file = 0 THEN entries ELSE InFile(entries, file)
      around == Kept(there, {e \in Entries : Symbol(e).line <= line /\ line <= Symbol(e).end})
  IN IF line # 0 /\ around # <<>> THEN OnlyEntry(around) ELSE OnlyEntry(there)

-----------------------------------------------------------------------------
(* The targets of one reference, given the entries in their order          *)

Named(all, name) == Kept(all, {e \in Entries : Symbol(e).name = name})
Qualified(all, qname) == Kept(all, {e \in Entries : Symbol(e).qname = qname})

\* A glob names no symbol.
RustTargets(all, file, ref) ==
  UNION {LET path == StripQualifiers(use)
             name == Leaf(Unaliased(path))
         IN IF Leaf(path) = "*" THEN None
            ELSE PickImport(Named(all, name), ModuleSegments(path), file) :
         use \in ExpandUseGroup(ref.path)}

\* Exact, then self.method of the caller's class, then the bare name.
PythonTargets(all, file, ref) ==
  LET parent == corpus.symbols[file][ref.from].parent
      rewritten == parent \o Tail(ref.qname)
      itself == parent # <<>> /\ ref.qname[1] = "self"
  IN OrElse(PickPython(Qualified(all, ref.qname), file),
       OrElse(IF itself THEN PickPython(Qualified(all, rewritten), file) ELSE None,
              PickPython(Named(all, Leaf(ref.qname)), file)))

\* By USR, then by place, then by name.
CppTargets(all, file, ref) ==
  LET sameUsr == {e \in Entries : ref.usr # "none" /\ Symbol(e).usr = ref.usr}
      there == {e \in Entries : e[1] = ref.file /\ Symbol(e).line = ref.line}
  IN OrElse(PickCpp(Kept(all, sameUsr), ref.file, ref.line),
       OrElse(IF ref.file = 0 \/ ref.line = 0 THEN None ELSE PickCpp(Kept(all, there), ref.file, ref.line),
              PickCpp(Qualified(all, ref.qname), ref.file, ref.line)))

\* A name that one symbol of the ingest has; of a Go import, the one file of a
\* directory of the package's name.
SyntaxTargets(all, file, ref) ==
  LET there == {f \in Files : Package[f] = Leaf(ref.qname)}
  IN IF ref.kind = "calls" THEN OnlyEntry(Named(all, Leaf(ref.qname)))
     ELSE IF Cardinality(there) = 1 THEN {<<f, 0>> : f \in there \ {file}} ELSE None

\* The first symbol that starts on the line, else the narrowest around it, of
\* the one file the path can mean; of those that have the name, if one is given.
AtLocation(files, line, names) ==
  LET own == {e \in Entries : e[1] \in files /\ (names = {} \/ Symbol(e).name \in names)}
      starting == {e \in own : Symbol(e).line = line}
      around == {e \in own : Symbol(e).line <= line /\ line <= Symbol(e).end}
      Span(e) == Symbol(e).end - Symbol(e).line
      narrow == {e \in around : \A f \in around : Span(e) <= Span(f)}
      FirstIn(es) == IF es = {} THEN None ELSE {CHOOSE e \in es : \A f \in es : e[2] <= f[2]}
  IN IF Cardinality(files) # 1 THEN None ELSE OrElse(FirstIn(starting), FirstIn(narrow))

\* A located call goes by its place; a call with no place by its name: exact, of
\* the caller's file, bare.
LspTargets(all, file, ref) ==
  LET OfFile == Kept(InFile(all, file), {e \in Entries : Symbol(e).name = Leaf(ref.qname) /\ Len(Symbol(e).qname) > 1})
  IN IF ref.files # {}
     THEN AtLocation(ref.files, ref.line, {Leaf(ref.qname)})
     ELSE OrElse(PickBestMatch(Qualified(all, ref.qname), file),
            OrElse(PickBestMatch(OfFile, file),
                   PickBestMatch(Qualified(all, <<Leaf(ref.qname)>>), file)))

\* What a method implements: the trait, by the name its impl gives.
TraitTargets(all, file, ref) == PickBestMatch(Qualified(all, ref.qname), file)

\* What Go types satisfy: the interface, exact or bare, and its implementor
\* by the place the server gave.
InterfaceTargets(all, file, ref) ==
  OrElse(PickBestMatch(Qualified(all, ref.qname), file), PickBestMatch(Qualified(all, <<Leaf(ref.qname)>>), file))
Source(file, ref) ==
  IF ref.kind = "satisfies" THEN AtLocation(ref.files, ref.line, {}) ELSE {<<file, ref.from>>}

Targets(all, file, ref) ==
  CASE corpus.scheme = "rust" -> RustTargets(all, file, ref)
    [] corpus.scheme = "python" -> PythonTargets(all, file, ref)
    [] corpus.scheme = "cpp" -> CppTargets(all, file, ref)
    [] corpus.scheme = "syntax" -> SyntaxTargets(all, file, ref)
    [] corpus.scheme = "lsp" /\ ref.kind = "calls" -> LspTargets(all, file, ref)
    [] corpus.scheme = "lsp" /\ ref.kind = "implements" -> TraitTargets(all, file, ref)
    [] corpus.scheme = "lsp" /\ ref.kind = "satisfies" -> InterfaceTargets(all, file, ref)

\* No edge is emitted twice, and none from a symbol to itself but a language
\* server's.
EdgesOf(all, file) ==
  {d \in UNION {[kind : {r.kind}, from : Source(file, r), to : Targets(all, file, r)] :
                  r \in {corpus.refs[file][k] : k \in DOMAIN corpus.refs[file]}} :
     corpus.scheme = "lsp" \/ d.from # d.to}

-----------------------------------------------------------------------------
(* The pass                                                                *)

ResolutionInit ==
  /\ corpus \in Corpora
  /\ defs = <<>> /\ indexed = {} /\ resolved = {} /\ edges = {}

\* Imports define nothing; a language server lists none.
Defines(e) == corpus.scheme = "lsp" \/ ~Symbol(e).import
Definitions(file) == Kept([i \in DOMAIN corpus.symbols[file] |-> <<file, i>>], {e \in Entries : Defines(e)})

IndexFile(f) ==
  /\ f \notin indexed
  /\ indexed' = indexed \cup {f}
  /\ defs' = defs \o Definitions(f)
  /\ UNCHANGED <<corpus, resolved, edges>>

ResolveFile(f) ==
  /\ indexed = Files /\ f \notin resolved
  /\ resolved' = resolved \cup {f}
  /\ edges' = edges \cup EdgesOf(defs, f)
  /\ UNCHANGED <<corpus, defs, indexed>>

ResolutionNext == \E f \in Files : IndexFile(f) \/ ResolveFile(f)

ResolutionSpec == ResolutionInit /\ [][ResolutionNext]_resolutionVars

-----------------------------------------------------------------------------
(* Properties                                                              *)

\* The files in the order of their paths.
InPathOrder ==
  LET Nth(k) == CHOOSE f \in Files : Cardinality({g \in Files : g < f}) = k - 1
      upto[k \in 0 .. Cardinality(Files)] == IF k = 0 THEN <<>> ELSE upto[k - 1] \o Definitions(Nth(k))
  IN upto[Cardinality(Files)]

(***************************************************************************)
(* The edges of an ingest do not depend on the order in which its files    *)
(* are visited: they are those of the files taken in path order, so that   *)
(* the same tree ingested again gives the same graph ("never iteration     *)
(* order", rust_imports.rs:320-322, python_calls.rs:212-214).              *)
(***************************************************************************)
OrderDoesNotMatter == edges = UNION {EdgesOf(InPathOrder, f) : f \in resolved}

(***************************************************************************)
(* What these schemes call ambiguous is dropped, not guessed: where two    *)
(* symbols of other files go by the name, libclang, tree-sitter and a      *)
(* language server that gave no place make no edge to either (cpp_edges.rs *)
(* :151, tree_sitter_edges.rs:20, lsp/edges.rs:476); nor does a Go package *)
(* with two files; and a `use` never leads into the importing file.  It    *)
(* says no more: a `use` and a Python call do choose among several, the    *)
(* best score and the smallest path, and a language server's name the      *)
(* first of the caller's own file.                                         *)
(***************************************************************************)
AmbiguousIsDropped ==
  \A d \in edges :
    LET file == d.from[1]
        all == {e \in Entries : Defines(e)}
        refs == {corpus.refs[file][k] : k \in DOMAIN corpus.refs[file]}
        Groups(r) == {{e \in all : Symbol(e).usr = r.usr}, {e \in all : Symbol(e).qname = r.qname},
                      {e \in all : e[1] = r.file /\ Symbol(e).line = r.line}}
        There(r, group) == {e \in group : r.file \in {0, e[1]}}
        Around(r, group) == {e \in There(r, group) : Symbol(e).line <= r.line /\ r.line <= Symbol(e).end}
    IN /\ corpus.scheme = "rust" => d.to[1] # file
       /\ corpus.scheme = "syntax" =>
            IF d.kind = "calls" THEN {e \in all : Symbol(e).name = Symbol(d.to).name} = {d.to}
            ELSE {f \in Files : Package[f] = Package[d.to[1]]} = {d.to[1]} /\ d.to[1] # file
       /\ corpus.scheme = "cpp" =>
            \E r \in refs : \E group \in Groups(r) : {d.to} \in {There(r, group), Around(r, group)}
       /\ corpus.scheme = "lsp" =>
            \/ \E r \in refs : r.kind = "calls" /\ r.files = {d.to[1]}
            \/ d.to[1] = file
            \/ d.kind = "satisfies" /\ corpus.refs[d.to[1]] # <<>>  \* its interface is in the file itself
            \/ {e \in all : Symbol(e).qname = Symbol(d.to).qname} = {d.to}

NameAt(path, i) == path[i] \notin {OpenBrace, CloseBrace, Comma}
Leaves(path) == {i \in DOMAIN path : NameAt(path, i) /\ (i = Len(path) \/ path[i + 1] \in {Comma, CloseBrace})}

\* The places of the names from the root of a `use` tree to a leaf, but for a
\* `self` that stands alone among its siblings.
Way(path, leaf) ==
  LET Holds(j) == \A k \in j + 1 .. leaf :
                    /\ Depth(path)[k] >= Depth(path)[j]
                    /\ path[k] = Comma => Depth(path)[k] > Depth(path)[j]
      Alone(j) == j > 1 /\ path[j] = "self" /\ path[j - 1] \in {OpenBrace, Comma}
  IN {j \in 1 .. leaf : NameAt(path, j) /\ Holds(j) /\ ~(j = leaf /\ Alone(j))}

\* The number of places before it on the way gives each name its own.
PathTo(path, leaf) ==
  LET way == Way(path, leaf)
  IN [k \in 1 .. Cardinality(way) |-> path[CHOOSE j \in way : Cardinality({i \in way : i < j}) = k - 1]]

(***************************************************************************)
(* A grouped import stands for the paths from the root of its tree to each *)
(* leaf, no more and no fewer, however groups are nested (expand_use_group *)
(* opens one group at a time and starts again on the text it made).        *)
(***************************************************************************)
GroupsExpand ==
  corpus.scheme = "rust" =>
    \A f \in Files : \A k \in DOMAIN corpus.refs[f] :
      LET path == corpus.refs[f][k].path
      IN ExpandUseGroup(path) = {PathTo(path, i) : i \in Leaves(path)} \ {<<>>}
=============================================================================
