------------------------------ MODULE Resolver ------------------------------
(***************************************************************************)
(* What one file's references resolve to                                   *)
(* (crates/codekurve-analysis/src/resolve.rs, languages/mod.rs): operators *)
(* on a symbol table, no state.                                            *)
(*                                                                         *)
(* A text is a version of a file's contents; Declares and Refers are what  *)
(* extraction finds in it.  A name stands for a qualified name: one text   *)
(* declares a name once, so overloads and partial fragments, which share a *)
(* name, are not told apart.                                               *)
(***************************************************************************)
EXTENDS Naturals, Sequences, FiniteSets

CONSTANTS
  Files,        \* relative paths
  Texts,        \* versions of a file's contents
  Absent,       \* no contents; no file
  Names,        \* names of symbols
  Specifiers,   \* module specifiers and namespaces as imports write them
  Language,     \* file -> its language
  Declares,     \* text -> its symbols
  Refers,       \* text -> its references
  Tries,        \* relative or aliased specifier -> the files it may denote, in order
  External,     \* where an edge to a package or an unknown namespace goes
  NoTarget,     \* an edge to a whole module is stored with no target
  MaxAmbiguous  \* MAX_AMBIGUOUS_CANDIDATES: 8 in the code

Languages   == {"typescript", "javascript", "csharp"}
SymbolKinds == {"class", "interface", "struct", "enum", "function", "method",
                "property", "variable", "namespace"}
ByName      == {"calls", "constructs", "inherits", "implements", "references", "reads"}
Framework   == {"injects", "registered_as", "handles_route", "triggers", "persists_to"}
\* uses_type with BASE_LIST_REASON, and with PROPERTY_TYPE_REASON
TypeUses    == {"base_entry", "property_type"}
ModuleUses  == {"imports", "exports"}
RefKinds    == ByName \cup Framework \cup TypeUses \cup ModuleUses
Module      == "module"

\* top: declared at the top level of its file (no parent).
Declarations == [kind : SymbolKinds, name : Names, top : BOOLEAN]
\* from: the enclosing declaration, or Module; binding: the name imported,
\* "*" for a whole module, "local" for a name looked up and not imported.
References == [kind : RefKinds, from : Names \cup {Module},
               text : Names \cup Specifiers, binding : Names \cup {"*", "local"}]
\* A row of symbols: the id is a hash of these fields.
Symbols == [file : Files, kind : SymbolKinds, name : Names, top : BOOLEAN]
             \cup [file : Files, kind : {Module}, name : {Module}, top : {TRUE}]

ASSUME FilesAssumption == IsFiniteSet(Files) /\ Absent \notin Files \cup Texts
ASSUME NamesAssumption ==
  /\ Module \notin Names /\ IsFiniteSet(Names)
  /\ {"*", "local"} \cap (Names \cup Specifiers) = {}
ASSUME TextsAssumption ==
  /\ Language \in [Files -> Languages]
  /\ Declares \in [Texts -> SUBSET Declarations]
  /\ Refers \in [Texts -> SUBSET References]
  /\ \A t \in Texts : \A r \in Refers[t] :
       /\ r.from = Module \/ \E d \in Declares[t] : d.name = r.from
       /\ r.kind \notin ModuleUses => r.binding = "local"
       /\ r.kind = "imports" => r.binding # "local"
ASSUME TriesAssumption ==
  /\ DOMAIN Tries \subseteq Specifiers
  /\ \A p \in DOMAIN Tries : Tries[p] \in Seq(Files) /\ Tries[p] # <<>>
ASSUME AmbiguousAssumption == MaxAmbiguous \in Nat \ {0}

ASSUME MarkersAssumption == External \notin Symbols /\ NoTarget \notin Symbols

ModuleSymbol(f) == [file |-> f, kind |-> Module, name |-> Module, top |-> TRUE]
Declared(f, t)  == {[file |-> f, kind |-> d.kind, name |-> d.name, top |-> d.top] :
                      d \in Declares[t]}
\* build_file_inputs: the declared symbols and the module's stand-in.
SymbolsOf(f, t) == Declared(f, t) \cup {ModuleSymbol(f)}

SourceOf(f, t, r) ==
  IF r.from = Module THEN ModuleSymbol(f)
  ELSE CHOOSE s \in Declared(f, t) : s.name = r.from

-----------------------------------------------------------------------------
\* Which symbols a reference of a kind may mean.

SameDomain(a, b) == (a = "csharp") = (b = "csharp")

\* The per-language tables; what they do not list they accept.
TypeScriptAccepts(kind) ==
  CASE kind = "constructs" -> {"class"}
    [] kind = "calls" -> {"function", "method"}
    [] kind \in {"inherits", "implements"} -> {"class", "interface"}
    [] kind = "references" -> {"class", "interface"}
    [] kind = "exports" -> {"class", "function", "interface"}
    [] OTHER -> SymbolKinds
CSharpAccepts(kind) ==
  CASE kind \in {"constructs", "inherits"} -> {"class", "struct"}
    [] kind = "calls" -> {"function", "method"}
    [] kind = "implements" -> {"interface"}
    [] kind = "references" -> {"class", "struct", "interface", "enum"}
    [] kind = "imports" -> {"namespace"}
    [] kind = "exports" -> {}
    [] OTHER -> SymbolKinds
\* Answered before either language's table.
FrameworkAccepts(kind) ==
  CASE kind = "injects" -> {"class", "interface"}
    [] kind = "registered_as" -> {"class", "interface", "variable"}
    [] kind = "handles_route" -> {"class", "method", "function", "variable"}
    [] kind = "triggers" -> {"class", "method", "function"}
    [] kind = "persists_to" -> {"class", "struct", "interface"}

Accepts(language, kind) ==
  CASE kind \in Framework -> FrameworkAccepts(kind)
    [] kind \in TypeUses -> {"class", "struct", "interface"}
    [] language = "csharp" -> CSharpAccepts(kind)
    [] OTHER -> TypeScriptAccepts(kind)

\* resolve_pending: the file's own symbols, tried before the project's.
Pending(r) ==
  r.kind \in ByName \/ (r.kind = "exports" /\ r.binding = "local")
SameFile(f, t, r) ==
  {s \in Declared(f, t) : Pending(r) /\ s.name = r.text
                            /\ s.kind \in Accepts(Language[f], r.kind)}

-----------------------------------------------------------------------------
\* The whole-project SymbolTable: symbols by name, exported symbols, files.

TopLevelDeclaration(s) == s.top /\ s.kind \in {"class", "function", "interface"}

\* What a freshly analysed file exports: its export statements, and every
\* top-level declaration.
FreshExports(f, t) ==
  {s \in Declared(f, t) : TopLevelDeclaration(s)}
    \cup UNION {SameFile(f, t, r) : r \in {x \in Refers[t] : x.kind = "exports"}}

\* analyses: file -> text; baseline: the same three sets read back from the store.
SymbolTable(analyses, baseline) ==
  LET fresh == DOMAIN analyses
  IN [symbols |-> baseline.symbols \cup UNION {Declared(f, analyses[f]) : f \in fresh},
      exports |-> baseline.exports \cup UNION {FreshExports(f, analyses[f]) : f \in fresh},
      files   |-> fresh \cup baseline.files]

EmptyBaseline == [symbols |-> {}, exports |-> {}, files |-> {}]

\* find_file: the first of the candidate paths that is a known file.
FindFile(p, files) ==
  LET known == {i \in DOMAIN Tries[p] : Tries[p][i] \in files}
  IN IF known = {} THEN Absent
     ELSE Tries[p][CHOOSE i \in known : \A j \in known : i <= j]

-----------------------------------------------------------------------------
\* Rows.  An edge keeps the reference it stands for (its line and column).

Edge(f, t, r, kind, to, confidence) ==
  [source |-> SourceOf(f, t, r), ref |-> r, kind |-> kind, to |-> to,
   confidence |-> confidence]
Unresolved(f, t, r, text, reason) ==
  [source |-> SourceOf(f, t, r), kind |-> r.kind, text |-> text, reason |-> reason]

\* push_classified_base: the kind of the edge follows from the candidate's.
EdgeKind(r, s) ==
  IF r.kind # "base_entry" THEN r.kind
  ELSE IF s.kind = "interface" THEN "implements" ELSE "inherits"

\* One candidate is High, an injected interface Medium, several are Low each.
Sureness(r, s, candidates) ==
  CASE Cardinality(candidates) > 1 -> "low"
    [] r.kind = "injects" /\ s.kind = "interface" -> "medium"
    [] OTHER -> "high"

None(f, t, r, text, reason) == [edges |-> {}, unresolved |-> {Unresolved(f, t, r, text, reason)}]
Linked(edges) == [edges |-> edges, unresolved |-> {}]
\* One edge for each candidate.
LinkedTo(f, t, r, candidates) ==
  Linked({Edge(f, t, r, EdgeKind(r, s), s, Sureness(r, s, candidates)) : s \in candidates})

Candidates(f, r, table) ==
  {s \in table.symbols : s.name = r.text /\ SameDomain(Language[f], Language[s.file])
                           /\ s.kind \in Accepts(Language[f], r.kind)}
TooMany(r, candidates) == r.kind \in ByName /\ Cardinality(candidates) > MaxAmbiguous

ResolveByName(f, t, r, table) ==
  LET candidates == Candidates(f, r, table)
  IN CASE candidates = {} -> None(f, t, r, r.text, "no match")
       [] candidates # {} /\ TooMany(r, candidates) -> None(f, t, r, r.text, "ambiguous")
       [] candidates # {} /\ ~TooMany(r, candidates) -> LinkedTo(f, t, r, candidates)

Namespaces(name, symbols) ==
  {s \in symbols : s.kind = "namespace" /\ s.name = name /\ Language[s.file] = "csharp"}
ResolveUsing(f, t, r, table) ==
  LET candidates == Namespaces(r.text, table.symbols)
  IN IF candidates = {} THEN Linked({Edge(f, t, r, r.kind, External, "exact")})
     ELSE LinkedTo(f, t, r, candidates)

\* resolve_binding, against the module found.  The code's table of exports keeps
\* one symbol of a name per file (an export statement's last, before a top-level
\* declaration); where a class and an interface share a name, every one counts here.
ResolveBinding(f, t, r, module, table) ==
  LET exported == {s \in table.exports : s.file = module /\ s.name = r.binding}
  IN CASE r.binding = "*" -> Linked({Edge(f, t, r, r.kind, NoTarget, "high")})
       [] r.binding # "*" /\ exported = {} -> None(f, t, r, r.binding, "not exported")
       [] r.binding # "*" /\ exported # {} ->
            Linked({Edge(f, t, r, r.kind, s, "exact") : s \in exported})

\* resolve_import, and resolve_export of a name from another module.
ResolveModuleUse(f, t, r, table) ==
  IF r.text \notin DOMAIN Tries THEN Linked({Edge(f, t, r, r.kind, External, "exact")})
  ELSE LET module == FindFile(r.text, table.files)
       IN IF module = Absent THEN None(f, t, r, r.text, "no module")
          ELSE ResolveBinding(f, t, r, module, table)

\* resolve_pending, where it finds its candidates.
LinkHere(f, t, r) ==
  LET here == SameFile(f, t, r)
  IN Linked({Edge(f, t, r, r.kind, s, IF Cardinality(here) = 1 THEN "exact" ELSE "low") :
               s \in here})

\* resolve_one, for what resolve_pending left unresolved in the file.
ResolveOne(f, t, r, table) ==
  LET here  == SameFile(f, t, r) # {}
      using == r.kind = "imports" /\ Language[f] = "csharp"
  IN CASE here -> LinkHere(f, t, r)
       [] ~here /\ r.binding = "local" /\ r.kind = "exports" ->
            None(f, t, r, r.text, "not declared here")
       [] ~here /\ r.binding = "local" /\ r.kind # "exports" -> ResolveByName(f, t, r, table)
       [] ~here /\ r.binding # "local" /\ using -> ResolveUsing(f, t, r, table)
       [] ~here /\ r.binding # "local" /\ ~using -> ResolveModuleUse(f, t, r, table)

\* resolve_with: the rows of every analysed file.
Resolve(analyses, baseline) ==
  LET table == SymbolTable(analyses, baseline)
      rows  == UNION {{ResolveOne(f, analyses[f], r, table) : r \in Refers[analyses[f]]} :
                        f \in DOMAIN analyses}
  IN [edges      |-> UNION {x.edges : x \in rows},
      unresolved |-> UNION {x.unresolved : x \in rows}]
=============================================================================
