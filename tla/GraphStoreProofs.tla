--------------------------- MODULE GraphStoreProofs ---------------------------
(***************************************************************************)
(* What holds of the graph store for every project: its invariant, and     *)
(* that it implements ReferenceIndex.                                      *)
(*                                                                         *)
(* First the resolver: what one reference becomes (EdgesOfOne, RowsOfOne,  *)
(* Relinked), and all those of a pass.  Then the two ways of updating the  *)
(* store are shown to do the same to its tables (Pass), which keeps the    *)
(* parts of the invariant one by one; what is said of unresolved rows and  *)
(* usings needs a thorough pass, one that leaves no dependent out, and     *)
(* that the files such a pass spares lose and miss nothing (Spared...).    *)
(***************************************************************************)
EXTENDS GraphInvariant, FiniteSetTheorems, TLAPS

-----------------------------------------------------------------------------
(* The resolver: what one reference becomes.                               *)

\* A symbol table that holds what a project can declare and export.
Table(tb) ==
  /\ tb.symbols \subseteq {s \in Symbols : s.kind # Module} /\ tb.files \subseteq Files
  /\ tb.exports \subseteq tb.symbols /\ \A s \in tb.exports : s.kind \in Exportable

(* What a row of the symbols table holds: a file, a kind, and a name unless  *)
(* it stands for a module.                                                   *)
LEMMA SymbolFields ==
  \A s \in Symbols : /\ s.file \in Files /\ s.kind \in SymbolKinds \cup {Module}
                     /\ s.kind # Module => s.name \in Names
BY DEF Symbols, Module, SymbolKinds

(* What a text declares are named symbols of its file.                       *)
LEMMA DeclaredSymbols ==
  ASSUME NEW f \in Files, NEW t \in Texts
  PROVE  \A s \in Declared(f, t) :
           s \in Symbols /\ s.file = f /\ s.kind # Module /\ s.name \in Names
<1>. SUFFICES ASSUME NEW s \in Declared(f, t)
              PROVE  s \in Symbols /\ s.file = f /\ s.kind # Module /\ s.name \in Names
  OBVIOUS
<1>1. PICK d \in Declares[t] :
        s = [file |-> f, kind |-> d.kind, name |-> d.name, top |-> d.top]
  BY DEF Declared
<1>2. d \in [kind : SymbolKinds, name : Names, top : BOOLEAN]
  BY TextsAssumption DEF Declarations
<1>3. d.kind \in SymbolKinds /\ d.name \in Names /\ d.top \in BOOLEAN
  BY <1>2
<1>4. s \in [file : Files, kind : SymbolKinds, name : Names, top : BOOLEAN]
  BY <1>1, <1>3
<1>5. Module \notin SymbolKinds
  BY DEF Module, SymbolKinds
<1>. QED BY <1>1, <1>3, <1>4, <1>5 DEF Symbols

(* The symbols of a file are its own.                                        *)
LEMMA SymbolsOfFile ==
  ASSUME NEW f \in Files, NEW t \in Texts
  PROVE  \A s \in SymbolsOf(f, t) : s \in Symbols /\ s.file = f
<1>1. ModuleSymbol(f) \in [file : Files, kind : {Module}, name : {Module}, top : {TRUE}]
  BY DEF ModuleSymbol
<1>2. ModuleSymbol(f) \in Symbols /\ ModuleSymbol(f).file = f
  BY <1>1 DEF ModuleSymbol, Symbols
<1>. QED BY <1>2, DeclaredSymbols DEF SymbolsOf

(* The source of a reference is a symbol of the file it stands in.           *)
LEMMA SourceDeclared ==
  ASSUME NEW f \in Files, NEW t \in Texts, NEW r \in Refers[t]
  PROVE  SourceOf(f, t, r) \in SymbolsOf(f, t)
<1>1. CASE r.from = Module
  BY <1>1 DEF SourceOf, SymbolsOf
<1>2. CASE r.from # Module
  <2>1. PICK d \in Declares[t] : d.name = r.from
    BY <1>2, TextsAssumption
  <2>2. [file |-> f, kind |-> d.kind, name |-> d.name, top |-> d.top] \in Declared(f, t)
    BY DEF Declared
  <2>3. (CHOOSE s \in Declared(f, t) : s.name = r.from) \in Declared(f, t)
    BY <2>1, <2>2
  <2>. QED BY <1>2, <2>3 DEF SourceOf, SymbolsOf
<1>. QED BY <1>1, <1>2

(* What extraction guarantees of a reference.                                *)
LEMMA ReferenceFields ==
  ASSUME NEW t \in Texts, NEW r \in Refers[t]
  PROVE  /\ r \in References
         /\ r.kind \in RefKinds /\ r.text \in Names \cup Specifiers
         /\ r.binding \in Names \cup {"*", "local"}
         /\ r.kind \notin ModuleUses => r.binding = "local"
         /\ r.kind = "imports" => r.binding # "local"
<1>1. r \in References
  BY TextsAssumption
<1>. QED BY <1>1, TextsAssumption DEF References

(* resolve_one takes one of five ways.                                       *)
LEMMA ResolveOneCases ==
  ASSUME NEW f, NEW t, NEW r, NEW table
  PROVE  \/ /\ SameFile(f, t, r) # {}
            /\ ResolveOne(f, t, r, table) = LinkHere(f, t, r)
         \/ /\ SameFile(f, t, r) = {} /\ r.binding = "local" /\ r.kind = "exports"
            /\ ResolveOne(f, t, r, table) = None(f, t, r, r.text, "not declared here")
         \/ /\ SameFile(f, t, r) = {} /\ r.binding = "local" /\ r.kind # "exports"
            /\ ResolveOne(f, t, r, table) = ResolveByName(f, t, r, table)
         \/ /\ SameFile(f, t, r) = {} /\ r.binding # "local" /\ Using(f, r)
            /\ ResolveOne(f, t, r, table) = ResolveUsing(f, t, r, table)
         \/ /\ SameFile(f, t, r) = {} /\ r.binding # "local" /\ ~Using(f, r)
            /\ ResolveOne(f, t, r, table) = ResolveModuleUse(f, t, r, table)
BY DEF ResolveOne, Using

(* A symbol found in the file itself is declared there; an export statement  *)
(* finds only what can be exported.                                          *)
LEMMA SameFileSymbols ==
  ASSUME NEW f \in Files, NEW t \in Texts, NEW r \in Refers[t], NEW s \in SameFile(f, t, r)
  PROVE  /\ s \in Declared(f, t) /\ r.binding = "local" /\ r.kind # "base_entry"
         /\ r.kind = "exports" => s.kind \in Exportable
<1>1. s \in Declared(f, t) /\ Pending(r) /\ s.kind \in Accepts(Language[f], r.kind)
  BY DEF SameFile
<1>2. r.binding = "local" /\ r.kind # "base_entry"
  BY <1>1, ReferenceFields DEF Pending, ByName, ModuleUses
<1>3. ASSUME r.kind = "exports" PROVE s.kind \in Exportable
  <2>1. Accepts(Language[f], "exports") \subseteq Exportable
    BY DEF Accepts, Framework, TypeUses, CSharpAccepts, TypeScriptAccepts, Exportable
  <2>. QED BY <1>1, <1>3, <2>1
<1>. QED BY <1>1, <1>2, <1>3

(* What a linked reference adds.                                             *)
LEMMA LinkedFields ==
  ASSUME NEW set
  PROVE  Linked(set).edges = set /\ Linked(set).unresolved = {}
BY DEF Linked

(* What an unresolved reference adds.                                        *)
LEMMA NoneFields ==
  \A f, t, r, text, reason :
    /\ None(f, t, r, text, reason).edges = {}
    /\ None(f, t, r, text, reason).unresolved = {Unresolved(f, t, r, text, reason)}
BY DEF None

(* The two ways in which a look-up by name gives up, and the one it does not. *)
LEMMA ByNameCases ==
  ASSUME NEW f, NEW t, NEW r, NEW table
  PROVE  LET C == Candidates(f, r, table)
             result == ResolveByName(f, t, r, table)
         IN /\ C = {} => result = None(f, t, r, r.text, "no match")
            /\ C # {} /\ TooMany(r, C) => result = None(f, t, r, r.text, "ambiguous")
            /\ C # {} /\ ~TooMany(r, C) =>
                 result = LinkedTo(f, t, r, C)
BY DEF ResolveByName

\* The confidences of an edge.
Sure == {"exact", "high", "medium", "low"}

(* How an edge that stands for a reference looks. *)
LEMMA EdgeFields ==
  ASSUME NEW f \in Files, NEW t \in Texts, NEW r \in Refers[t],
         NEW kind \in RefKinds, NEW to \in Symbols \cup {External, NoTarget},
         NEW sure \in Sure
  PROVE  LET e == Edge(f, t, r, kind, to, sure)
         IN /\ e \in Edges /\ e.source = SourceOf(f, t, r) /\ e.ref = r
            /\ e.kind = kind /\ e.to = to
<1>1. SourceOf(f, t, r) \in Symbols
  BY SourceDeclared, SymbolsOfFile
<1>2. r \in References
  BY ReferenceFields
<1>. QED BY <1>1, <1>2 DEF Edge, Edges, Sure


(* What a reference linked to each of its candidates adds.                   *)
LEMMA LinkedToFields ==
  ASSUME NEW f, NEW t, NEW r, NEW C
  PROVE  /\ LinkedTo(f, t, r, C).unresolved = {}
         /\ LinkedTo(f, t, r, C).edges =
              {Edge(f, t, r, EdgeKind(r, s), s, Sureness(r, s, C)) : s \in C}
BY DEF LinkedTo, Linked

(* The edge to one of several candidates. *)
LEMMA CandidateEdge ==
  ASSUME NEW f \in Files, NEW t \in Texts, NEW r \in Refers[t], NEW C, NEW s \in C, s \in Symbols
  PROVE  LET e == Edge(f, t, r, EdgeKind(r, s), s, Sureness(r, s, C))
         IN /\ e \in Edges /\ e.source = SourceOf(f, t, r) /\ e.ref = r
            /\ e.kind = EdgeKind(r, s) /\ e.to = s
<1>1. EdgeKind(r, s) \in RefKinds
  BY ReferenceFields DEF EdgeKind, RefKinds, ByName
<1>2. Sureness(r, s, C) \in Sure
  BY DEF Sureness, Sure
<1>. QED BY <1>1, <1>2, EdgeFields

(* What an edge of one reference says: where it comes from, that its target *)
(* is among the symbols the search was given, and that it is one the       *)
(* reference may mean.                                                     *)
EdgeOf(e, f, t, r, table) ==
  /\ e \in Edges /\ e.source = SourceOf(f, t, r) /\ e.ref = r
  /\ e.to \in Declared(f, t) \cup table.symbols \cup {External, NoTarget}
  /\ e.to \in Symbols => Meant(f, t, r, e.to) /\ e.kind = EdgeKind(r, e.to)

(* Every edge that resolve_one returns is one the reference may mean.        *)
LEMMA EdgesOfOne ==
  ASSUME NEW f \in Files, NEW t \in Texts, NEW r \in Refers[t], NEW table, Table(table),
         NEW e \in ResolveOne(f, t, r, table).edges
  PROVE  EdgeOf(e, f, t, r, table)
<1>. USE ReferenceFields
<1>1. CASE /\ SameFile(f, t, r) # {} /\ ResolveOne(f, t, r, table) = LinkHere(f, t, r)
  <2>1. PICK s \in SameFile(f, t, r), sure \in Sure : e = Edge(f, t, r, r.kind, s, sure)
    BY <1>1, LinkedFields DEF LinkHere, Sure
  <2>2. s \in Declared(f, t) /\ s \in Symbols /\ r.kind # "base_entry"
    BY SameFileSymbols, DeclaredSymbols
  <2>3. e \in Edges /\ e.source = SourceOf(f, t, r) /\ e.ref = r /\ e.kind = r.kind /\ e.to = s
    BY <2>1, <2>2, EdgeFields
  <2>. QED BY <2>2, <2>3 DEF EdgeOf, Meant, EdgeKind
<1>2. CASE /\ SameFile(f, t, r) = {} /\ r.binding = "local" /\ r.kind = "exports"
           /\ ResolveOne(f, t, r, table) = None(f, t, r, r.text, "not declared here")
  <2>1. ResolveOne(f, t, r, table).edges = {}
    BY <1>2, NoneFields
  <2>. QED BY <2>1
<1>3. CASE /\ SameFile(f, t, r) = {} /\ r.binding = "local" /\ r.kind # "exports"
           /\ ResolveOne(f, t, r, table) = ResolveByName(f, t, r, table)
  <2>. DEFINE C == Candidates(f, r, table)
  <2>1. C # {} /\ ~TooMany(r, C)
    <3>1. C = {} => ResolveByName(f, t, r, table) = None(f, t, r, r.text, "no match")
      BY ByNameCases
    <3>2. C # {} /\ TooMany(r, C) =>
            ResolveByName(f, t, r, table) = None(f, t, r, r.text, "ambiguous")
      BY ByNameCases
    <3>. QED BY <1>3, <3>1, <3>2, NoneFields
  <2>2. e \in LinkedTo(f, t, r, C).edges
    BY <1>3, <2>1, ByNameCases
  <2>3. PICK s \in C : e = Edge(f, t, r, EdgeKind(r, s), s, Sureness(r, s, C))
    BY <2>2, LinkedToFields
  <2>4. /\ s \in Symbols /\ s \in table.symbols /\ s.name = r.text
        /\ SameDomain(Language[f], Language[s.file]) /\ s.kind \in Accepts(Language[f], r.kind)
    BY DEF Candidates, Table
  <2>5. /\ e \in Edges /\ e.source = SourceOf(f, t, r) /\ e.ref = r
        /\ e.kind = EdgeKind(r, s) /\ e.to = s
    BY <2>3, <2>4, CandidateEdge
  <2>. QED BY <1>3, <2>4, <2>5 DEF EdgeOf, Meant
<1>4. CASE /\ SameFile(f, t, r) = {} /\ r.binding # "local" /\ Using(f, r)
           /\ ResolveOne(f, t, r, table) = ResolveUsing(f, t, r, table)
  <2>. DEFINE N == Namespaces(r.text, table.symbols)
  <2>1. CASE N = {}
    <3>1. e = Edge(f, t, r, r.kind, External, "exact")
      BY <1>4, <2>1, LinkedFields DEF ResolveUsing
    <3>. QED BY <3>1, EdgeFields, MarkersAssumption DEF EdgeOf, Sure
  <2>2. CASE N # {}
    <3>1. e \in LinkedTo(f, t, r, N).edges
      BY <1>4, <2>2 DEF ResolveUsing
    <3>2. PICK s \in N : e = Edge(f, t, r, EdgeKind(r, s), s, Sureness(r, s, N))
      BY <3>1, LinkedToFields
    <3>3. /\ s \in Symbols /\ s \in table.symbols /\ s.name = r.text
          /\ s.kind = "namespace" /\ Language[s.file] = "csharp"
      BY DEF Namespaces, Table
    <3>4. /\ e \in Edges /\ e.source = SourceOf(f, t, r) /\ e.ref = r
          /\ e.kind = EdgeKind(r, s) /\ e.to = s
      BY <3>2, <3>3, CandidateEdge
    <3>. QED BY <1>4, <3>3, <3>4 DEF EdgeOf, Meant
  <2>. QED BY <2>1, <2>2
<1>5. CASE /\ SameFile(f, t, r) = {} /\ r.binding # "local" /\ ~Using(f, r)
           /\ ResolveOne(f, t, r, table) = ResolveModuleUse(f, t, r, table)
  <2>0. r.kind \in ModuleUses /\ \A s : EdgeKind(r, s) = r.kind
    BY <1>5 DEF EdgeKind, ModuleUses
  <2>1. CASE r.text \notin DOMAIN Tries
    <3>1. e = Edge(f, t, r, r.kind, External, "exact")
      BY <1>5, <2>1, LinkedFields DEF ResolveModuleUse
    <3>. QED BY <3>1, EdgeFields, MarkersAssumption DEF EdgeOf, Sure
  <2>2. CASE r.text \in DOMAIN Tries
    <3>. DEFINE m == FindFile(r.text, table.files)
                X == {s \in table.exports : s.file = m /\ s.name = r.binding}
    <3>1. m # Absent /\ e \in ResolveBinding(f, t, r, m, table).edges
      <4>1. m = Absent => ResolveModuleUse(f, t, r, table) = None(f, t, r, r.text, "no module")
        BY <2>2 DEF ResolveModuleUse
      <4>2. m # Absent =>
              ResolveModuleUse(f, t, r, table) = ResolveBinding(f, t, r, m, table)
        BY <2>2 DEF ResolveModuleUse
      <4>. QED BY <1>5, <4>1, <4>2, NoneFields
    <3>2. CASE r.binding = "*"
      <4>1. e = Edge(f, t, r, r.kind, NoTarget, "high")
        BY <3>1, <3>2, LinkedFields DEF ResolveBinding
      <4>. QED BY <4>1, EdgeFields, MarkersAssumption DEF EdgeOf, Sure
    <3>3. CASE r.binding # "*"
      <4>1. X # {}
        BY <3>1, <3>3 DEF ResolveBinding, None
      <4>2. e \in {Edge(f, t, r, r.kind, s, "exact") : s \in X}
        BY <3>1, <3>3, <4>1, LinkedFields DEF ResolveBinding
      <4>3. PICK s \in X : e = Edge(f, t, r, r.kind, s, "exact")
        BY <4>2
      <4>4. s \in table.symbols /\ s \in Symbols /\ s.name = r.binding /\ s.kind \in Exportable
        BY DEF Table
      <4>5. /\ e \in Edges /\ e.source = SourceOf(f, t, r) /\ e.ref = r
            /\ e.kind = r.kind /\ e.to = s
        BY <4>3, <4>4, EdgeFields DEF Sure
      <4>. QED BY <1>5, <2>0, <2>2, <3>3, <4>4, <4>5 DEF EdgeOf, Meant, FromModule
    <3>. QED BY <3>2, <3>3
  <2>. QED BY <2>1, <2>2
<1>. QED BY <1>1, <1>2, <1>3, <1>4, <1>5, ResolveOneCases

(* A set of numbers that is not empty has a least one.                       *)
LEMMA LeastIndex ==
  ASSUME NEW S, S \subseteq Nat, S # {}
  PROVE  \E i \in S : \A j \in S : i <= j
<1>1. PICK i \in S : \A j \in S : <<j, i>> \notin OpToRel(<, Nat)
  BY NatLessThanWellFounded, WFMin
<1>2. \A j \in S : ~(j < i)
  BY <1>1 DEF OpToRel
<1>. QED BY <1>2

(* A file is found exactly if one of those the specifier may denote exists. *)
LEMMA FileFound ==
  ASSUME NEW p \in DOMAIN Tries, NEW files
  PROVE  \/ /\ FindFile(p, files) = Absent
            /\ \A i \in DOMAIN Tries[p] : Tries[p][i] \notin files
         \/ \E i \in DOMAIN Tries[p] :
              /\ FindFile(p, files) = Tries[p][i] /\ FindFile(p, files) # Absent
              /\ Tries[p][i] \in files
<1>. DEFINE known == {i \in DOMAIN Tries[p] : Tries[p][i] \in files}
<1>1. CASE known = {}
  BY <1>1 DEF FindFile
<1>2. CASE known # {}
  <2>. DEFINE i == CHOOSE i \in known : \A j \in known : i <= j
  <2>1. DOMAIN Tries[p] \subseteq Nat /\ \A j \in DOMAIN Tries[p] : Tries[p][j] \in Files
    BY TriesAssumption
  <2>2. i \in known
    BY <1>2, <2>1, LeastIndex
  <2>3. FindFile(p, files) = Tries[p][i]
    BY <1>2 DEF FindFile
  <2>. QED BY <2>1, <2>2, <2>3, FilesAssumption
<1>. QED BY <1>1, <1>2

(* The file found among more files is still found among fewer, as long as it *)
(* is one of them.                                                           *)
LEMMA FoundAgain ==
  ASSUME NEW p \in DOMAIN Tries, NEW old, NEW new,
         FindFile(p, old) # Absent, FindFile(p, old) \in new,
         FindFile(p, new) \in old, FindFile(p, new) # Absent
  PROVE  FindFile(p, new) = FindFile(p, old)
<1>. DEFINE T == Tries[p]
            K(files) == {i \in DOMAIN T : T[i] \in files}
            least(files) == CHOOSE i \in K(files) : \A j \in K(files) : i <= j
<1>1. DOMAIN T \subseteq Nat
  BY TriesAssumption
<1>2. \A files : FindFile(p, files) # Absent =>
        /\ least(files) \in K(files) /\ \A j \in K(files) : least(files) <= j
        /\ FindFile(p, files) = T[least(files)]
  <2>. SUFFICES ASSUME NEW files, FindFile(p, files) # Absent
                PROVE  /\ least(files) \in K(files) /\ \A j \in K(files) : least(files) <= j
                       /\ FindFile(p, files) = T[least(files)]
    OBVIOUS
  <2>1. K(files) # {} /\ FindFile(p, files) = T[least(files)]
    BY DEF FindFile
  <2>2. \E i \in K(files) : \A j \in K(files) : i <= j
    BY <1>1, <2>1, LeastIndex
  <2>. QED BY <2>1, <2>2
<1>. DEFINE i == least(old)
            j == least(new)
<1>3. /\ i \in K(old) /\ \A k \in K(old) : i <= k
      /\ j \in K(new) /\ \A k \in K(new) : j <= k
      /\ FindFile(p, old) = T[i] /\ FindFile(p, new) = T[j]
  BY <1>2
<1>. HIDE DEF i, j, least
<1>4. i \in K(new) /\ j \in K(old) /\ i \in Nat /\ j \in Nat
  BY <1>1, <1>3
<1>5. i <= j /\ j <= i
  BY <1>3, <1>4
<1>6. i = j
  BY <1>4, <1>5
<1>. QED BY <1>3, <1>6

(* What a row of unresolved_references says of its reference. *)
RowOf(u, f, t, r, table) ==
  /\ u \in OpenRows /\ u.source = SourceOf(f, t, r) /\ u.kind = r.kind
  /\ u.text \in {r.text, r.binding}
  /\ u.reason = "no module" =>
       /\ u.text = r.text /\ r.text \in DOMAIN Tries
       /\ \A i \in DOMAIN Tries[r.text] : Tries[r.text][i] \notin table.files

(* The source of a reference is a symbol.                                    *)
LEMMA SourceSymbol ==
  ASSUME NEW f \in Files, NEW t \in Texts, NEW r \in Refers[t]
  PROVE  SourceOf(f, t, r) \in Symbols /\ r.kind \in RefKinds
BY SourceDeclared, SymbolsOfFile, ReferenceFields

(* What the reference of a row waits for. *)
Waits(u, f, t, r, table) ==
  /\ u.text = r.text /\ u.reason \in {"no match", "ambiguous", "not declared here"}
  /\ r.binding = "local"
  /\ r.kind # "exports" => Candidates(f, r, table) = {} \/ u.reason = "ambiguous"
\* The row of an import waits for the name it imports.
WaitsForExport(u, r, table) ==
  /\ r.binding \in Names /\ u.text = r.binding /\ u.reason = "not exported"
  /\ {s \in table.exports : /\ s.file = FindFile(r.text, table.files)
                            /\ s.name = r.binding} = {}

(* A reference is linked, or its row says what it waits for. *)
Answers(result, f, t, r, table) ==
  \/ result.edges # {} /\ result.unresolved = {}
  \/ \E u : /\ result.edges = {} /\ result.unresolved = {u}
            /\ RowOf(u, f, t, r, table)
            /\ \/ Waits(u, f, t, r, table)
               \/ u.reason = "no module" /\ r.binding # "local"
               \/ WaitsForExport(u, r, table)

(* A link answers a reference.                                               *)
LEMMA LinkAnswers ==
  ASSUME NEW f, NEW t, NEW r, NEW table, NEW set, set # {}
  PROVE  Answers(Linked(set), f, t, r, table)
BY LinkedFields DEF Answers

(* So do links to all candidates.                                            *)
LEMMA LinkedToAnswers ==
  ASSUME NEW f, NEW t, NEW r, NEW table, NEW C, C # {}
  PROVE  Answers(LinkedTo(f, t, r, C), f, t, r, table)
<1>. DEFINE found == {Edge(f, t, r, EdgeKind(r, s), s, Sureness(r, s, C)) : s \in C}
<1>1. found # {}
  OBVIOUS
<1>2. LinkedTo(f, t, r, C) = Linked(found)
  BY DEF LinkedTo
<1>. HIDE DEF found
<1>. QED BY <1>1, <1>2, LinkAnswers

(* A row that says what it waits for answers a reference.                    *)
LEMMA RowAnswers ==
  ASSUME NEW f, NEW t, NEW r, NEW table, NEW text, NEW reason, NEW u,
         u = Unresolved(f, t, r, text, reason),
         RowOf(u, f, t, r, table),
         \/ Waits(u, f, t, r, table)
         \/ u.reason = "no module" /\ r.binding # "local"
         \/ WaitsForExport(u, r, table)
  PROVE  Answers(None(f, t, r, text, reason), f, t, r, table)
BY DEF Answers, None

(* The rows of a look-up by name, and of an export of a name the file        *)
(* lacks.                                                                    *)
LEMMA NameAnswers ==
  ASSUME NEW f \in Files, NEW t \in Texts, NEW r \in Refers[t], NEW table,
         NEW reason \in {"no match", "ambiguous", "not declared here"}, r.binding = "local",
         r.kind # "exports" => Candidates(f, r, table) = {} \/ reason = "ambiguous"
  PROVE  Answers(None(f, t, r, r.text, reason), f, t, r, table)
<1>1. PICK u : u = Unresolved(f, t, r, r.text, reason)
  OBVIOUS
<1>2. r.text \in Names \cup Specifiers /\ reason \in Reasons /\ reason # "no module"
  BY ReferenceFields DEF Reasons
<1>3. /\ u \in OpenRows /\ u.source = SourceOf(f, t, r) /\ u.kind = r.kind
      /\ u.text = r.text /\ u.reason = reason
  BY <1>1, <1>2, SourceSymbol DEF Unresolved, OpenRows
<1>4. RowOf(u, f, t, r, table)
  BY <1>2, <1>3 DEF RowOf
<1>5. Waits(u, f, t, r, table)
  BY <1>3 DEF Waits
<1>. QED BY <1>1, <1>4, <1>5, RowAnswers

(* resolve_one answers every reference: none is dropped silently.            *)
LEMMA RowsOfOne ==
  ASSUME NEW f \in Files, NEW t \in Texts, NEW r \in Refers[t], NEW table, Table(table)
  PROVE  Answers(ResolveOne(f, t, r, table), f, t, r, table)
<1>. DEFINE result == ResolveOne(f, t, r, table)
<1>0. /\ r.text \in Names \cup Specifiers /\ r.binding \in Names \cup {"*", "local"}
      /\ "local" \notin Names
  BY ReferenceFields, NamesAssumption
<1>1. CASE /\ SameFile(f, t, r) # {} /\ result = LinkHere(f, t, r)
  <2>. DEFINE found == {Edge(f, t, r, r.kind, s,
                             IF Cardinality(SameFile(f, t, r)) = 1 THEN "exact" ELSE "low") :
                          s \in SameFile(f, t, r)}
  <2>1. found # {}
    BY <1>1
  <2>2. result = Linked(found)
    BY <1>1 DEF LinkHere
  <2>. HIDE DEF found
  <2>. QED BY <2>1, <2>2, LinkAnswers
<1>2. CASE /\ SameFile(f, t, r) = {} /\ r.binding = "local" /\ r.kind = "exports"
           /\ result = None(f, t, r, r.text, "not declared here")
  BY <1>2, NameAnswers
<1>3. CASE /\ SameFile(f, t, r) = {} /\ r.binding = "local" /\ r.kind # "exports"
           /\ result = ResolveByName(f, t, r, table)
  <2>. DEFINE C == Candidates(f, r, table)
  <2>1. CASE C = {}
    <3>1. result = None(f, t, r, r.text, "no match")
      BY <1>3, <2>1, ByNameCases
    <3>. QED BY <1>3, <2>1, <3>1, NameAnswers
  <2>2. CASE C # {} /\ TooMany(r, C)
    <3>1. result = None(f, t, r, r.text, "ambiguous")
      BY <1>3, <2>2, ByNameCases
    <3>. QED BY <1>3, <3>1, NameAnswers
  <2>3. CASE C # {} /\ ~TooMany(r, C)
    <3>1. result = LinkedTo(f, t, r, C)
      BY <1>3, <2>3, ByNameCases
    <3>. QED BY <2>3, <3>1, LinkedToAnswers
  <2>. QED BY <2>1, <2>2, <2>3
<1>4. CASE /\ SameFile(f, t, r) = {} /\ r.binding # "local" /\ Using(f, r)
           /\ result = ResolveUsing(f, t, r, table)
  <2>. DEFINE N == Namespaces(r.text, table.symbols)
  <2>1. CASE N = {}
    <3>1. result = Linked({Edge(f, t, r, r.kind, External, "exact")})
      BY <1>4, <2>1 DEF ResolveUsing
    <3>. QED BY <3>1, LinkAnswers
  <2>2. CASE N # {}
    <3>1. result = LinkedTo(f, t, r, N)
      BY <1>4, <2>2 DEF ResolveUsing
    <3>. QED BY <2>2, <3>1, LinkedToAnswers
  <2>. QED BY <2>1, <2>2
<1>5. CASE /\ SameFile(f, t, r) = {} /\ r.binding # "local" /\ ~Using(f, r)
           /\ result = ResolveModuleUse(f, t, r, table)
  <2>1. CASE r.text \notin DOMAIN Tries
    <3>1. result = Linked({Edge(f, t, r, r.kind, External, "exact")})
      BY <1>5, <2>1 DEF ResolveModuleUse
    <3>. QED BY <3>1, LinkAnswers
  <2>2. CASE r.text \in DOMAIN Tries
    <3>. DEFINE m == FindFile(r.text, table.files)
                X == {s \in table.exports : s.file = m /\ s.name = r.binding}
    <3>1. CASE m = Absent
      <4>1. PICK u : u = Unresolved(f, t, r, r.text, "no module")
        OBVIOUS
      <4>2. "no module" \in Reasons
        BY DEF Reasons
      <4>3. /\ u \in OpenRows /\ u.source = SourceOf(f, t, r) /\ u.kind = r.kind
            /\ u.text = r.text /\ u.reason = "no module"
        BY <1>0, <4>1, <4>2, SourceSymbol DEF Unresolved, OpenRows
      <4>4. \A i \in DOMAIN Tries[r.text] : Tries[r.text][i] \notin table.files
        BY <2>2, <3>1, FileFound
      <4>5. RowOf(u, f, t, r, table)
        BY <2>2, <4>3, <4>4 DEF RowOf
      <4>6. result = None(f, t, r, r.text, "no module")
        BY <1>5, <2>2, <3>1 DEF ResolveModuleUse
      <4>. QED BY <1>5, <4>1, <4>3, <4>5, <4>6, RowAnswers
    <3>2. CASE m # Absent
      <4>1. result = ResolveBinding(f, t, r, m, table)
        BY <1>5, <2>2, <3>2 DEF ResolveModuleUse
      <4>2. CASE r.binding = "*"
        <5>1. result = Linked({Edge(f, t, r, r.kind, NoTarget, "high")})
          BY <4>1, <4>2 DEF ResolveBinding
        <5>. QED BY <5>1, LinkAnswers
      <4>3. CASE r.binding # "*" /\ X = {}
        <5>1. r.binding \in Names
          BY <1>0, <1>5, <4>3
        <5>2. PICK u : u = Unresolved(f, t, r, r.binding, "not exported")
          OBVIOUS
        <5>3. "not exported" \in Reasons
          BY DEF Reasons
        <5>4. /\ u \in OpenRows /\ u.source = SourceOf(f, t, r) /\ u.kind = r.kind
              /\ u.text = r.binding /\ u.reason = "not exported"
          BY <5>1, <5>2, <5>3, SourceSymbol DEF Unresolved, OpenRows
        <5>5. RowOf(u, f, t, r, table)
          BY <5>4 DEF RowOf
        <5>7. WaitsForExport(u, r, table)
          BY <4>3, <5>1, <5>4 DEF WaitsForExport
        <5>8. result = None(f, t, r, r.binding, "not exported")
          BY <4>1, <4>3 DEF ResolveBinding
        <5>. QED BY <5>2, <5>5, <5>7, <5>8, RowAnswers
      <4>4. CASE r.binding # "*" /\ X # {}
        <5>. DEFINE found == {Edge(f, t, r, r.kind, s, "exact") : s \in X}
        <5>1. found # {}
          BY <4>4
        <5>2. result = Linked(found)
          BY <4>1, <4>4 DEF ResolveBinding
        <5>. HIDE DEF found
        <5>. QED BY <5>1, <5>2, LinkAnswers
      <4>. QED BY <4>2, <4>3, <4>4
    <3>. QED BY <3>1, <3>2
  <2>. QED BY <2>1, <2>2
<1>. QED BY <1>1, <1>2, <1>3, <1>4, <1>5, ResolveOneCases

(* A symbol that a reference may mean is linked again, as long as it is in  *)
(* the table, not one of too many, and exported by the file imported from.  *)
LEMMA Relinked ==
  ASSUME NEW f \in Files, NEW t \in Texts, NEW r \in Refers[t], NEW table, Table(table),
         NEW s \in Symbols, Meant(f, t, r, s), s \in SameFile(f, t, r) \/ s \in table.symbols,
         ~TooMany(r, Candidates(f, r, table)),
         FromModule(f, r) => FindFile(r.text, table.files) = s.file /\ s \in table.exports
  PROVE  \E e \in ResolveOne(f, t, r, table).edges : e.to = s
<1>. DEFINE result == ResolveOne(f, t, r, table)
<1>0. \A e \in result.edges : EdgeOf(e, f, t, r, table)
  BY EdgesOfOne
<1>1. CASE s \in SameFile(f, t, r)
  <2>1. result = LinkHere(f, t, r)
    BY <1>1, ResolveOneCases
  <2>2. PICK sure \in Sure : Edge(f, t, r, r.kind, s, sure) \in result.edges
    BY <1>1, <2>1, LinkedFields DEF LinkHere, Sure
  <2>3. Edge(f, t, r, r.kind, s, sure).to = s
    BY DEF Edge
  <2>. QED BY <2>2, <2>3
<1>2. CASE /\ SameFile(f, t, r) = {} /\ r.binding = "local" /\ r.kind # "exports"
           /\ s.name = r.text /\ SameDomain(Language[f], Language[s.file])
           /\ s.kind \in Accepts(Language[f], r.kind)
  <2>. DEFINE C == Candidates(f, r, table)
  <2>1. s \in C /\ C # {}
    BY <1>2 DEF Candidates
  <2>2. result = LinkedTo(f, t, r, C)
    BY <1>2, <2>1, ResolveOneCases, ByNameCases
  <2>3. Edge(f, t, r, EdgeKind(r, s), s, Sureness(r, s, C)) \in result.edges
    BY <2>1, <2>2, LinkedToFields
  <2>. QED BY <2>1, <2>3, CandidateEdge
<1>3. CASE Using(f, r) /\ s.kind = "namespace" /\ s.name = r.text /\ Language[s.file] = "csharp"
  <2>. DEFINE N == Namespaces(r.text, table.symbols)
  <2>1. r.binding # "local" /\ SameFile(f, t, r) = {}
    BY <1>3, ReferenceFields, SameFileSymbols DEF Using
  <2>2. s \in N /\ N # {}
    BY <1>3, <2>1 DEF Namespaces
  <2>3. result = LinkedTo(f, t, r, N)
    BY <1>3, <2>1, <2>2, ResolveOneCases DEF ResolveUsing
  <2>4. Edge(f, t, r, EdgeKind(r, s), s, Sureness(r, s, N)) \in result.edges
    BY <2>2, <2>3, LinkedToFields
  <2>. QED BY <2>2, <2>4, CandidateEdge
<1>4. CASE FromModule(f, r) /\ s.name = r.binding
  <2>. DEFINE m == FindFile(r.text, table.files)
              X == {x \in table.exports : x.file = m /\ x.name = r.binding}
  <2>1. /\ r.binding # "local" /\ r.binding # "*" /\ SameFile(f, t, r) = {}
        /\ ~Using(f, r) /\ r.text \in DOMAIN Tries
    BY <1>4, SameFileSymbols DEF FromModule
  <2>2. s \in X /\ m = s.file /\ m # Absent
    BY <1>4, SymbolFields, FilesAssumption
  <2>3. result = ResolveModuleUse(f, t, r, table)
    BY <2>1, ResolveOneCases
  <2>4. result = ResolveBinding(f, t, r, m, table)
    BY <2>1, <2>2, <2>3 DEF ResolveModuleUse
  <2>5. Edge(f, t, r, r.kind, s, "exact") \in result.edges
    <3>1. X # {}
      BY <2>2
    <3>2. ResolveBinding(f, t, r, m, table) = Linked({Edge(f, t, r, r.kind, x, "exact") : x \in X})
      BY <2>1, <3>1 DEF ResolveBinding
    <3>3. result.edges = {Edge(f, t, r, r.kind, x, "exact") : x \in X}
      BY <2>4, <3>2, LinkedFields
    <3>. QED BY <2>2, <3>3
  <2>6. Edge(f, t, r, r.kind, s, "exact").to = s
    BY DEF Edge
  <2>. QED BY <2>5, <2>6
<1>. QED BY <1>1, <1>2, <1>3, <1>4 DEF Meant

(* A using is linked to all the namespaces it may mean. *)
LEMMA UsingLinked ==
  ASSUME NEW f \in Files, NEW t \in Texts, NEW r \in Refers[t], NEW table, Table(table),
         Using(f, r), NEW s \in Namespaces(r.text, table.symbols)
  PROVE  \E e \in ResolveOne(f, t, r, table).edges : e.to = s
<1>1. s \in Symbols /\ s \in table.symbols /\ Meant(f, t, r, s)
  BY DEF Namespaces, Table, Meant
<1>2. ~TooMany(r, Candidates(f, r, table)) /\ ~FromModule(f, r)
  BY DEF TooMany, FromModule, Using, ByName
<1>. QED BY <1>1, <1>2, Relinked

-----------------------------------------------------------------------------
(* The resolver: the rows of all files of a pass.                          *)

\* The files that a pass has read.
Analyses(A) == DOMAIN A \subseteq Files /\ \A f \in DOMAIN A : A[f] \in Texts

(* resolve_with returns the rows of every reference of every analysed file,  *)
(* and no other.                                                             *)
LEMMA ResolveRows ==
  ASSUME NEW A, NEW B, NEW x
  PROVE  LET table == SymbolTable(A, B)
         IN /\ x \in Resolve(A, B).edges <=>
                 \E f \in DOMAIN A : \E r \in Refers[A[f]] :
                   x \in ResolveOne(f, A[f], r, table).edges
            /\ x \in Resolve(A, B).unresolved <=>
                 \E f \in DOMAIN A : \E r \in Refers[A[f]] :
                   x \in ResolveOne(f, A[f], r, table).unresolved
<1>. DEFINE table == SymbolTable(A, B)
            rows  == UNION {{ResolveOne(f, A[f], r, table) : r \in Refers[A[f]]} : f \in DOMAIN A}
<1>1. \A y : y \in rows <=> \E f \in DOMAIN A : \E r \in Refers[A[f]] :
                               y = ResolveOne(f, A[f], r, table)
  OBVIOUS
<1>2. /\ Resolve(A, B).edges = UNION {y.edges : y \in rows}
      /\ Resolve(A, B).unresolved = UNION {y.unresolved : y \in rows}
  BY DEF Resolve
<1>. HIDE DEF rows, table
<1>3. /\ x \in Resolve(A, B).edges <=> \E y \in rows : x \in y.edges
      /\ x \in Resolve(A, B).unresolved <=> \E y \in rows : x \in y.unresolved
  BY <1>2
<1>4. x \in Resolve(A, B).edges <=>
        \E f \in DOMAIN A : \E r \in Refers[A[f]] : x \in ResolveOne(f, A[f], r, table).edges
  BY <1>1, <1>3
<1>5. x \in Resolve(A, B).unresolved <=>
        \E f \in DOMAIN A : \E r \in Refers[A[f]] : x \in ResolveOne(f, A[f], r, table).unresolved
  BY <1>1, <1>3
<1>. QED BY <1>4, <1>5 DEF table

(* What an analysed file exports it declares.                                *)
LEMMA FreshExportsFields ==
  ASSUME NEW f \in Files, NEW t \in Texts, NEW s \in FreshExports(f, t)
  PROVE  s \in Declared(f, t) /\ s.kind \in Exportable
<1>1. CASE \E r \in Refers[t] : r.kind = "exports" /\ s \in SameFile(f, t, r)
  BY <1>1, SameFileSymbols
<1>2. CASE s \in Declared(f, t) /\ TopLevelDeclaration(s)
  BY <1>2 DEF TopLevelDeclaration, Exportable
<1>. DEFINE exporting == {SameFile(f, t, r) : r \in {x \in Refers[t] : x.kind = "exports"}}
            top == {x \in Declared(f, t) : TopLevelDeclaration(x)}
<1>3. \A y \in exporting : \E r \in Refers[t] : r.kind = "exports" /\ y = SameFile(f, t, r)
  OBVIOUS
<1>4. \A y \in top : y \in Declared(f, t) /\ TopLevelDeclaration(y)
  OBVIOUS
<1>5. s \in top \cup UNION exporting
  BY DEF FreshExports
<1>. HIDE DEF exporting, top
<1>6. (\E y \in exporting : s \in y) \/ s \in top
  BY <1>5
<1>. QED BY <1>1, <1>2, <1>3, <1>4, <1>6

(* The project's symbol table is the analysed files and the baseline.        *)
LEMMA TableFields ==
  ASSUME NEW A, NEW B
  PROVE  LET table == SymbolTable(A, B)
         IN /\ \A s : s \in table.symbols <=>
                  s \in B.symbols \/ \E f \in DOMAIN A : s \in Declared(f, A[f])
            /\ \A s : s \in table.exports <=>
                  s \in B.exports \/ \E f \in DOMAIN A : s \in FreshExports(f, A[f])
            /\ table.files = DOMAIN A \cup B.files
<1>. DEFINE table == SymbolTable(A, B)
            declared == {Declared(f, A[f]) : f \in DOMAIN A}
            exported == {FreshExports(f, A[f]) : f \in DOMAIN A}
<1>1. \A y : y \in declared <=> \E f \in DOMAIN A : y = Declared(f, A[f])
  OBVIOUS
<1>2. \A y : y \in exported <=> \E f \in DOMAIN A : y = FreshExports(f, A[f])
  OBVIOUS
<1>3. /\ table.symbols = B.symbols \cup UNION declared
      /\ table.exports = B.exports \cup UNION exported
      /\ table.files = DOMAIN A \cup B.files
  BY DEF SymbolTable
<1>. HIDE DEF table, declared, exported
<1>4. \A s : s \in table.symbols <=> s \in B.symbols \/ \E y \in declared : s \in y
  BY <1>3
<1>5. \A s : s \in table.exports <=> s \in B.exports \/ \E y \in exported : s \in y
  BY <1>3
<1>6. \A s : s \in table.symbols <=>
              s \in B.symbols \/ \E f \in DOMAIN A : s \in Declared(f, A[f])
  BY <1>1, <1>4
<1>7. \A s : s \in table.exports <=>
              s \in B.exports \/ \E f \in DOMAIN A : s \in FreshExports(f, A[f])
  BY <1>2, <1>5
<1>. QED BY <1>3, <1>6, <1>7 DEF table

(* It holds named symbols and exports what can be exported.                  *)
LEMMA TableTyped ==
  ASSUME NEW A, Analyses(A), NEW B, Table(B)
  PROVE  Table(SymbolTable(A, B))
<1>. DEFINE table == SymbolTable(A, B)
<1>1. ASSUME NEW s \in table.symbols PROVE s \in Symbols /\ s.kind # Module
  BY <1>1, TableFields, DeclaredSymbols DEF Table, Analyses
<1>2. ASSUME NEW s \in table.exports PROVE s \in table.symbols /\ s.kind \in Exportable
  BY <1>2, TableFields, FreshExportsFields DEF Table, Analyses
<1>3. table.files \subseteq Files
  BY TableFields DEF Table, Analyses
<1>. QED BY <1>1, <1>2, <1>3 DEF Table

(* A symbol that a reference may mean has a name of its own. *)
LEMMA MeantIsNamed ==
  ASSUME NEW f \in Files, NEW t \in Texts, NEW r \in Refers[t], NEW s \in Symbols,
         Meant(f, t, r, s)
  PROVE  /\ s.kind # Module /\ s.name \in Names
         /\ s.name \in {r.text, r.binding}
<1>1. s.kind # Module
  <2>1. CASE s \in SameFile(f, t, r)
    BY <2>1, SameFileSymbols, DeclaredSymbols
  <2>2. CASE s.kind \in Accepts(Language[f], r.kind) /\ r.kind \in RefKinds
    <3>1. Accepts(Language[f], r.kind) \subseteq SymbolKinds
      BY <2>2 DEF Accepts, Framework, FrameworkAccepts, TypeUses, CSharpAccepts,
                  TypeScriptAccepts, SymbolKinds
    <3>. QED BY <2>2, <3>1 DEF SymbolKinds, Module
  <2>3. CASE s.kind = "namespace" \/ s.kind \in Exportable
    BY <2>3 DEF Module, Exportable
  <2>. QED BY <2>1, <2>2, <2>3, ReferenceFields DEF Meant
<1>2. s.name \in {r.text, r.binding}
  BY DEF Meant, SameFile
<1>. QED BY <1>1, <1>2, SymbolFields

-----------------------------------------------------------------------------
(* What a pass does to the tables: it analyses the files of A, removes     *)
(* those of D and leaves the rest, but for the edges whose target is gone. *)

Touched(A, D) == DOMAIN A \cup D
\* The target of an edge of a file left alone does not come back.
Dropped(e, A, D) ==
  /\ e \in edges /\ e.source.file \notin Touched(A, D)
  /\ e.to \in symbols /\ e.to \notin symbols'
\* The row that it becomes.
ParkedRow(e, reason) ==
  [source |-> e.source, kind |-> e.kind, text |-> e.to.name, reason |-> reason]
Parks(e, u) == \E reason \in {"file deleted", "symbol removed"} : u = ParkedRow(e, reason)

\* A pass that reads A, removes D and resolves against baseline B.
Pass(A, D, B) ==
  /\ stored' = [f \in Files |-> IF f \in DOMAIN A THEN A[f]
                                ELSE IF f \in D THEN Absent ELSE stored[f]]
  /\ \A s : s \in symbols' <=> \/ s \in symbols /\ s.file \notin Touched(A, D)
                               \/ \E f \in DOMAIN A : s \in SymbolsOf(f, A[f])
  /\ \A e : e \in edges' <=>
       \/ /\ e \in edges /\ e.source.file \notin Touched(A, D)
          /\ e.to \in symbols => e.to \in symbols'
       \/ e \in Resolve(A, B).edges
  /\ \A u \in unresolved : u.source.file \notin Touched(A, D) => u \in unresolved'
  /\ Resolve(A, B).unresolved \subseteq unresolved'
  /\ \A u \in unresolved' :
       \/ u \in unresolved /\ u.source.file \notin Touched(A, D)
       \/ u \in Resolve(A, B).unresolved
       \/ \E e : Dropped(e, A, D) /\ Parks(e, u)
  /\ \A e : Dropped(e, A, D) =>
       \E u \in unresolved' : u.source = e.source /\ u.kind = e.kind /\ u.text = e.to.name

(* The symbols of several files.                                             *)
LEMMA UnionOfSymbols ==
  ASSUME NEW A, NEW s
  PROVE  s \in UNION {SymbolsOf(f, A[f]) : f \in DOMAIN A} <=>
           \E f \in DOMAIN A : s \in SymbolsOf(f, A[f])
<1>. DEFINE family == {SymbolsOf(f, A[f]) : f \in DOMAIN A}
<1>1. \A y : y \in family <=> \E f \in DOMAIN A : y = SymbolsOf(f, A[f])
  OBVIOUS
<1>. HIDE DEF family
<1>2. s \in UNION family <=> \E y \in family : s \in y
  OBVIOUS
<1>3. s \in UNION family <=> \E f \in DOMAIN A : s \in SymbolsOf(f, A[f])
  BY <1>1, <1>2
<1>. QED BY <1>3 DEF family

(* A full reindex is a pass that leaves no file alone.                       *)
LEMMA FullPassIsPass ==
  ASSUME TypeOK, NEW bad, FullPass(bad), NEW A, A = Analysed(bad)
  PROVE  /\ Analyses(A)
         /\ Pass(A, Files \ DOMAIN A, EmptyBaseline)
         /\ EmptyBaseline = Baseline(Touched(A, Files \ DOMAIN A))
<1>. DEFINE D == Files \ DOMAIN A
            T == Touched(A, D)
            rows == Resolve(A, EmptyBaseline)
<1>1. Analyses(A)
  BY DEF Analysed, Analyses, OnDisk, TypeOK, Contents
<1>2. T = Files
  BY <1>1 DEF Touched, Analyses
<1>3. /\ stored' = [f \in Files |-> IF f \in DOMAIN A THEN A[f] ELSE Absent]
      /\ symbols' = UNION {SymbolsOf(f, A[f]) : f \in DOMAIN A}
      /\ edges' = rows.edges /\ unresolved' = rows.unresolved
  BY DEF FullPass, Reindex
<1>4. \A s \in symbols : s.file \in T
  BY <1>2, SymbolFields DEF TypeOK
<1>5. \A e \in edges : e.source.file \in T
  BY <1>2, SymbolFields DEF TypeOK, Edges
<1>6. \A u \in unresolved : u.source.file \in T
  BY <1>2, SymbolFields DEF TypeOK, OpenRows
<1>7. stored' = [f \in Files |-> IF f \in DOMAIN A THEN A[f]
                                 ELSE IF f \in D THEN Absent ELSE stored[f]]
  BY <1>3
<1>8. \A s : s \in symbols' <=> \/ s \in symbols /\ s.file \notin T
                                \/ \E f \in DOMAIN A : s \in SymbolsOf(f, A[f])
  BY <1>3, <1>4, UnionOfSymbols
<1>9. \A e : ~Dropped(e, A, D)
  BY <1>5 DEF Dropped
<1>10. EmptyBaseline = Baseline(T)
  <2>1. {s \in symbols : s.kind # Module /\ s.file \notin T} = {}
    BY <1>4
  <2>2. Stored \ T = {}
    BY <1>2 DEF Stored
  <2>. QED BY <2>1, <2>2 DEF EmptyBaseline, Baseline
<1>. HIDE DEF T, rows, D
<1>11. Pass(A, D, EmptyBaseline)
  BY <1>3, <1>5, <1>6, <1>7, <1>8, <1>9 DEF Pass, T, rows
<1>. QED BY <1>1, <1>10, <1>11 DEF T, D

(* What park_inbound_edges leaves. *)
LEMMA ParkRows ==
  ASSUME NEW inbound, NEW open, NEW reason
  PROVE  /\ open \subseteq Park(inbound, open, reason)
         /\ \A u \in Park(inbound, open, reason) :
              u \in open \/ \E e \in inbound : u = ParkedRow(e, reason)
         /\ \A e \in inbound : \E u \in Park(inbound, open, reason) :
              u.source = e.source /\ u.kind = e.kind /\ u.text = e.to.name
<1>. DEFINE parked == {ParkedRow(e, reason) : e \in inbound}
            fresh == {u \in parked : \A x \in open :
                        <<x.source, x.kind, x.text>> # <<u.source, u.kind, u.text>>}
<1>1. Park(inbound, open, reason) = open \cup fresh
  BY Zenon DEF Park, ParkedRow
<1>2. \A u \in fresh : \E e \in inbound : u = ParkedRow(e, reason)
  OBVIOUS
<1>3. ASSUME NEW e \in inbound
      PROVE  \E u \in open \cup fresh :
               u.source = e.source /\ u.kind = e.kind /\ u.text = e.to.name
  <2>1. PICK u : u = ParkedRow(e, reason)
    OBVIOUS
  <2>2. u \in parked /\ u.source = e.source /\ u.kind = e.kind /\ u.text = e.to.name
    BY <2>1 DEF ParkedRow
  <2>3. CASE u \in fresh
    BY <2>2, <2>3
  <2>4. CASE u \notin fresh
    <3>1. PICK x \in open : <<x.source, x.kind, x.text>> = <<u.source, u.kind, u.text>>
      BY <2>2, <2>4
    <3>2. x.source = u.source /\ x.kind = u.kind /\ x.text = u.text
      BY <3>1
    <3>. QED BY <2>2, <3>2
  <2>. QED BY <2>3, <2>4
<1>. HIDE DEF fresh
<1>. QED BY <1>1, <1>2, <1>3

-----------------------------------------------------------------------------
(* An incremental pass is one.                                             *)

(* Every text that an incremental pass takes for a written file is one that *)
(* a file may have.                                                         *)
LEMMA WrittenTyped ==
  ASSUME TypeOK, Batched, batch.created \subseteq OnDisk
  PROVE  /\ Written \subseteq Files /\ batch.deleted \subseteq Files
         /\ Written \cap batch.deleted = {}
         /\ \A f \in Written : WrittenTexts[f] \in Texts
<1>1. /\ batch.modified \in [Files -> Contents]
      /\ batch.created \subseteq Files /\ batch.deleted \subseteq Files
  BY DEF TypeOK, Batches
<1>2. \A f \in batch.created : disk[f] \in Texts
  BY DEF TypeOK, OnDisk, Contents
<1>3. \A f \in Modified : batch.modified[f] \in Texts
  BY <1>1 DEF Modified, Contents
<1>4. Written \subseteq Files /\ Written \cap batch.deleted = {}
  BY <1>1 DEF Written, Modified, Batched
<1>5. ASSUME NEW f \in Written PROVE WrittenTexts[f] \in Texts
  BY <1>2, <1>3, <1>5 DEF WrittenTexts, Written
<1>. QED BY <1>1, <1>4, <1>5

(* A dependent is a file of the store. *)
LEMMA DependentsStored ==
  ASSUME TypeOK, ReferentialIntegrity
  PROVE  Dependents \subseteq Stored /\ Dependents \cap Changed = {}
<1>1. \A s \in symbols : s.file \in Stored
  <2>. SUFFICES ASSUME NEW s \in symbols PROVE s.file \in Stored
    OBVIOUS
  <2>. DEFINE family == {SymbolsOf(f, stored[f]) : f \in Stored}
  <2>1. \A y \in family : \E f \in Stored : y = SymbolsOf(f, stored[f])
    OBVIOUS
  <2>2. s \in UNION family
    BY DEF ReferentialIntegrity
  <2>. HIDE DEF family
  <2>3. PICK f \in Stored : s \in SymbolsOf(f, stored[f])
    BY <2>1, <2>2
  <2>4. f \in Files /\ stored[f] \in Texts
    BY DEF Stored, TypeOK, Contents
  <2>. QED BY <2>3, <2>4, SymbolsOfFile
<1>2. /\ \A e \in edges : e.source.file \in Stored
      /\ \A u \in unresolved : u.source.file \in Stored
  BY <1>1 DEF ReferentialIntegrity
<1>3. /\ ByTargetSymbol \subseteq Stored /\ ByUnresolvedTarget \subseteq Stored
      /\ ByNamespace \subseteq Stored /\ ByUnresolvedModule \subseteq Stored
  BY <1>2 DEF ByTargetSymbol, ByUnresolvedTarget, ByNamespace, ByUnresolvedModule
<1>. QED BY <1>3 DEF Dependents

(* The analyses of an incremental pass. *)
Reread(skipped) ==
  [f \in Written \cup (Dependents \ skipped) |->
     IF f \in Written THEN WrittenTexts[f] ELSE disk[f]]

(* So is an incremental pass, of the files it read and those deleted; the    *)
(* order in which apply_incremental deletes, parks and inserts comes to the  *)
(* same.                                                                     *)
LEMMA IncrementalPassIsPass ==
  ASSUME TypeOK, ReferentialIntegrity, Batched, NEW skipped, IncrementalPass(skipped),
         NEW A, A = Reread(skipped), NEW D, D = batch.deleted,
         NEW B, B = Baseline(Changed \cup Dependents)
  PROVE  /\ Analyses(A) /\ D \subseteq Files /\ DOMAIN A = Written \cup (Dependents \ skipped)
         /\ Pass(A, D, B)
<1>1. DOMAIN A = Written \cup (Dependents \ skipped)
  BY DEF Reread
<1>2. Analyses(A) /\ D \subseteq Files
  <2>1. batch.created \subseteq OnDisk /\ Dependents \ skipped \subseteq OnDisk
    BY DEF IncrementalPass
  <2>2. \A f \in Dependents \ skipped : f \in Files /\ disk[f] \in Texts
    BY <2>1 DEF OnDisk, TypeOK, Contents
  <2>3. /\ Written \subseteq Files /\ batch.deleted \subseteq Files
        /\ \A f \in Written : WrittenTexts[f] \in Texts
    BY <2>1, WrittenTyped
  <2>4. ASSUME NEW f \in DOMAIN A PROVE f \in Files /\ A[f] \in Texts
    BY <1>1, <2>2, <2>3, <2>4 DEF Reread
  <2>. QED BY <2>3, <2>4 DEF Analyses
<1>3. DOMAIN A \cap D = {}
  BY <1>1, DependentsStored DEF Changed, Batched
<1>. DEFINE T == Touched(A, D)
            rows == Resolve(A, B)
            db0 == DeleteFiles(D, Tables)
            db1 == DeleteOwnedRows(DOMAIN A, db0)
            db2 == ReplaceSymbols(A, db1)
            lost0 == Inbound(D, Tables)
            lost2 == {e \in Inbound(DOMAIN A, db1) : e.to \notin db2.symbols}
<1>4. /\ symbols' = db2.symbols
      /\ edges' = db2.edges \cup rows.edges
      /\ unresolved' = db2.unresolved \cup rows.unresolved
      /\ stored' = [f \in Files |-> IF f \in DOMAIN A THEN A[f]
                                    ELSE IF f \in D THEN Absent ELSE stored[f]]
  BY DEF IncrementalPass, ApplyIncremental, Reread
<1>5. /\ db0.symbols = {s \in symbols : s.file \notin D}
      /\ db0.edges = {e \in edges \ lost0 : e.source.file \notin D}
      /\ db0.unresolved = {u \in Park(lost0, unresolved, "file deleted") : u.source.file \notin D}
  BY DEF DeleteFiles, Tables
<1>6. /\ db1.symbols = db0.symbols
      /\ db1.edges = {e \in db0.edges : e.source.file \notin DOMAIN A}
      /\ db1.unresolved = {u \in db0.unresolved : u.source.file \notin DOMAIN A}
  <2>. DEFINE z == db0
  <2>0. z = [symbols |-> z.symbols, edges |-> z.edges, unresolved |-> z.unresolved]
    BY DEF DeleteFiles
  <2>. HIDE DEF z
  <2>1. /\ DeleteOwnedRows(DOMAIN A, z).symbols = z.symbols
        /\ DeleteOwnedRows(DOMAIN A, z).edges = {e \in z.edges : e.source.file \notin DOMAIN A}
        /\ DeleteOwnedRows(DOMAIN A, z).unresolved
             = {u \in z.unresolved : u.source.file \notin DOMAIN A}
    BY <2>0 DEF DeleteOwnedRows
  <2>. QED BY <2>1 DEF z
<1>7. /\ db2.symbols = {s \in db1.symbols : s.file \notin DOMAIN A}
                          \cup UNION {SymbolsOf(f, A[f]) : f \in DOMAIN A}
      /\ db2.edges = db1.edges \ lost2
      /\ db2.unresolved = Park(lost2, db1.unresolved, "symbol removed")
  BY Zenon DEF ReplaceSymbols
<1>8. /\ \A e : e \in lost0 <=> /\ e \in edges /\ e.to \in symbols /\ e.to.file \in D
                                /\ e.source.file \notin D
      /\ \A e : e \in lost2 <=> /\ e \in db1.edges /\ e.to \in db1.symbols
                                /\ e.to.file \in DOMAIN A /\ e.source.file \notin DOMAIN A
                                /\ e.to \notin db2.symbols
  BY DEF Inbound, Tables
<1>. HIDE DEF db0, db1, db2, lost0, lost2, T, rows
<1>9. \A f : f \in T <=> f \in DOMAIN A \/ f \in D
  BY DEF T, Touched
<1>10. \A s : s \in symbols' <=> \/ s \in symbols /\ s.file \notin T
                                 \/ \E f \in DOMAIN A : s \in SymbolsOf(f, A[f])
  <2>1. \A s : s \in symbols' <=> \/ s \in db1.symbols /\ s.file \notin DOMAIN A
                                  \/ s \in UNION {SymbolsOf(f, A[f]) : f \in DOMAIN A}
    BY <1>4, <1>7
  <2>2. \A s : s \in db1.symbols <=> s \in symbols /\ s.file \notin D
    BY <1>5, <1>6
  <2>. QED BY <1>9, <2>1, <2>2, UnionOfSymbols
<1>11. \A s \in symbols' : s.file \notin D
  BY <1>2, <1>3, <1>9, <1>10, SymbolsOfFile DEF Analyses
<1>12. \A s \in symbols : s.file \notin T => s \in symbols'
  BY <1>10
<1>13. \A e : e \in db1.edges <=> /\ e \in edges /\ e.source.file \notin T
                                  /\ ~(e.to \in symbols /\ e.to.file \in D)
  BY <1>5, <1>6, <1>8, <1>9
<1>14. \A e : e \in db1.edges /\ e \in lost2 <=>
         e \in db1.edges /\ e.to \in symbols /\ e.to \notin symbols'
  BY <1>4, <1>5, <1>6, <1>8, <1>9, <1>12, <1>13
<1>15. \A e : e \in edges' <=>
         \/ /\ e \in edges /\ e.source.file \notin T
            /\ e.to \in symbols => e.to \in symbols'
         \/ e \in rows.edges
  BY <1>4, <1>7, <1>11, <1>13, <1>14
<1>16. \A e : Dropped(e, A, D) <=> (e \in lost0 /\ e.source.file \notin T) \/ e \in lost2
  BY <1>8, <1>9, <1>11, <1>13, <1>14 DEF Dropped, T
<1>17. \A u : u \in db1.unresolved <=>
         u \in Park(lost0, unresolved, "file deleted") /\ u.source.file \notin T
  BY <1>5, <1>6, <1>9
<1>. DEFINE park0 == Park(lost0, unresolved, "file deleted")
            park2 == Park(lost2, db1.unresolved, "symbol removed")
<1>18. /\ unresolved \subseteq park0
       /\ \A u \in park0 : u \in unresolved \/ \E e \in lost0 : u = ParkedRow(e, "file deleted")
       /\ \A e \in lost0 : \E u \in park0 :
            u.source = e.source /\ u.kind = e.kind /\ u.text = e.to.name
  BY ParkRows, Zenon
<1>19. /\ db1.unresolved \subseteq park2
       /\ \A u \in park2 :
            u \in db1.unresolved \/ \E e \in lost2 : u = ParkedRow(e, "symbol removed")
       /\ \A e \in lost2 : \E u \in park2 :
            u.source = e.source /\ u.kind = e.kind /\ u.text = e.to.name
  BY ParkRows, Zenon
<1>20. /\ unresolved' = park2 \cup rows.unresolved
       /\ \A u : u \in db1.unresolved <=> u \in park0 /\ u.source.file \notin T
  BY <1>4, <1>7, <1>17
<1>. HIDE DEF park0, park2
<1>21. \A u \in unresolved : u.source.file \notin T => u \in unresolved'
  BY <1>18, <1>19, <1>20
<1>22. \A e : Dropped(e, A, D) =>
         \E u \in unresolved' : u.source = e.source /\ u.kind = e.kind /\ u.text = e.to.name
  <2>. SUFFICES ASSUME NEW e, Dropped(e, A, D)
                PROVE  \E u \in unresolved' :
                         u.source = e.source /\ u.kind = e.kind /\ u.text = e.to.name
    OBVIOUS
  <2>1. CASE e \in lost0 /\ e.source.file \notin T
    <3>1. PICK u \in park0 :
            u.source = e.source /\ u.kind = e.kind /\ u.text = e.to.name
      BY <2>1, <1>18
    <3>2. u \in db1.unresolved
      BY <1>20, <2>1, <3>1
    <3>. QED BY <1>19, <1>20, <3>1, <3>2
  <2>2. CASE e \in lost2
    BY <1>19, <1>20, <2>2
  <2>. QED BY <1>16, <2>1, <2>2
<1>23. ASSUME NEW u \in unresolved'
       PROVE  \/ u \in unresolved /\ u.source.file \notin T
              \/ u \in rows.unresolved
              \/ \E e : Dropped(e, A, D) /\ Parks(e, u)
  <2>1. CASE u \in db1.unresolved
    <3>1. CASE \E e \in lost0 : u = ParkedRow(e, "file deleted")
      <4>1. PICK e \in lost0 : u = ParkedRow(e, "file deleted")
        BY <3>1
      <4>2. u.source = e.source
        BY <4>1 DEF ParkedRow
      <4>. QED BY <1>16, <1>20, <2>1, <4>1, <4>2 DEF Parks
    <3>. QED BY <1>18, <1>20, <2>1, <3>1
  <2>2. CASE \E e \in lost2 : u = ParkedRow(e, "symbol removed")
    BY <1>16, <2>2 DEF Parks
  <2>. QED BY <1>19, <1>20, <2>1, <2>2
<1>24. rows.unresolved \subseteq unresolved'
  BY <1>20
<1>25. Pass(A, D, B)
  BY <1>4, <1>10, <1>15, <1>21, <1>22, <1>23, <1>24 DEF Pass, T, rows
<1>. QED BY <1>1, <1>2, <1>25

-----------------------------------------------------------------------------
(* What every pass keeps.                                                  *)

(* A reference's source lies in its file.                                    *)
LEMMA SourceFile ==
  ASSUME NEW f \in Files, NEW t \in Texts, NEW r \in Refers[t]
  PROVE  SourceOf(f, t, r).file = f
BY SourceDeclared, SymbolsOfFile

(* An indexed file has a text.                                               *)
LEMMA StoredTexts ==
  ASSUME TypeOK, NEW f \in Stored
  PROVE  f \in Files /\ stored[f] \in Texts
BY DEF TypeOK, Stored, Contents

(* The symbols table, symbol by symbol. *)
LEMMA StoredSymbols ==
  ASSUME ReferentialIntegrity, NEW s
  PROVE  s \in symbols <=> \E f \in Stored : s \in SymbolsOf(f, stored[f])
<1>. DEFINE family == {SymbolsOf(f, stored[f]) : f \in Stored}
<1>1. \A y : y \in family <=> \E f \in Stored : y = SymbolsOf(f, stored[f])
  OBVIOUS
<1>2. symbols = UNION family
  BY DEF ReferentialIntegrity
<1>. HIDE DEF family
<1>. QED BY <1>1, <1>2

(* A symbol of the table is one of an indexed file.                          *)
LEMMA FileOfSymbol ==
  ASSUME TypeOK, ReferentialIntegrity, NEW s \in symbols
  PROVE  s \in Symbols /\ s.file \in Stored /\ s \in SymbolsOf(s.file, stored[s.file])
BY StoredSymbols, SymbolsOfFile, StoredTexts

(* Only a symbol that may be exported is the target of an exports edge. *)
LEMMA ExportsMean ==
  ASSUME TypeOK, ReferentialIntegrity, NEW e \in edges, Fits(e), e.kind = "exports",
         e.to \in symbols
  PROVE  e.to.kind \in Exportable
<1>. DEFINE f == e.source.file
            t == stored[f]
            r == e.ref
<1>1. /\ f \in Files /\ t \in Texts /\ r \in Refers[t]
      /\ Meant(f, t, r, e.to) /\ e.kind = EdgeKind(r, e.to)
  BY StoredTexts DEF Fits
<1>2. r.kind = "exports" /\ ~Using(f, r)
  BY <1>1 DEF EdgeKind, Using
<1>. HIDE DEF f, t, r
<1>. QED BY <1>1, <1>2, SameFileSymbols DEF Meant

(* A baseline is a table, of the symbols of files that are not excluded. *)
LEMMA BaselineTable ==
  ASSUME TypeOK, ReferentialIntegrity, EdgesFit, NEW S
  PROVE  /\ Table(Baseline(S))
         /\ \A s : s \in Baseline(S).symbols <=> s \in symbols /\ s.kind # Module /\ s.file \notin S
         /\ \A s : s \in Baseline(S).exports <=> s \in Baseline(S).symbols /\ ExportedInStore(s)
         /\ Baseline(S).files = Stored \ S
<1>. DEFINE kept == {s \in symbols : s.kind # Module /\ s.file \notin S}
<1>1. /\ Baseline(S).symbols = kept
      /\ Baseline(S).exports = {s \in kept : ExportedInStore(s)}
      /\ Baseline(S).files = Stored \ S
  BY DEF Baseline
<1>2. ASSUME NEW s \in kept, ExportedInStore(s) PROVE s.kind \in Exportable
  <2>1. CASE \E e \in edges : e.kind = "exports" /\ e.to = s
    BY <2>1, ExportsMean DEF EdgesFit
  <2>2. CASE TopLevelDeclaration(s)
    BY <2>2 DEF TopLevelDeclaration, Exportable
  <2>. QED BY <1>2, <2>1, <2>2 DEF ExportedInStore
<1>3. kept \subseteq {s \in Symbols : s.kind # Module} /\ Stored \subseteq Files
  BY DEF TypeOK, Stored
<1>4. Table(Baseline(S))
  BY <1>1, <1>2, <1>3 DEF Table
<1>. QED BY <1>1, <1>4

(* The files table after a pass. *)
LEMMA StoredNow ==
  ASSUME TypeOK, NEW A, Analyses(A), NEW D, NEW B, Pass(A, D, B)
  PROVE  /\ stored' \in [Files -> Contents]
         /\ \A f \in DOMAIN A : f \in Files /\ f \in Stored' /\ stored'[f] = A[f]
         /\ \A f \in Files \ Touched(A, D) : stored'[f] = stored[f]
         /\ \A f : f \in Stored' <=> f \in DOMAIN A \/ (f \in Stored /\ f \notin Touched(A, D))
         /\ \A f \in Stored' : f \in Files /\ stored'[f] \in Texts
<1>1. \A f \in Files : stored'[f] = IF f \in DOMAIN A THEN A[f]
                                    ELSE IF f \in D THEN Absent ELSE stored[f]
  BY DEF Pass
<1>2. \A f \in DOMAIN A : f \in Files /\ A[f] \in Texts /\ A[f] # Absent
  BY FilesAssumption DEF Analyses
<1>3. stored' \in [Files -> Contents]
  BY <1>2 DEF Pass, TypeOK, Contents
<1>. QED BY <1>1, <1>2, <1>3 DEF Stored, Touched, Contents

(* The symbols table after a pass is what the indexed texts declare.         *)
LEMMA SymbolsNow ==
  ASSUME TypeOK, ReferentialIntegrity, NEW A, Analyses(A), NEW D, NEW B, Pass(A, D, B)
  PROVE  /\ symbols' \subseteq Symbols
         /\ \A s : s \in symbols' <=> \E f \in Stored' : s \in SymbolsOf(f, stored'[f])
<1>1. \A s : s \in symbols' <=> \/ s \in symbols /\ s.file \notin Touched(A, D)
                                \/ \E f \in DOMAIN A : s \in SymbolsOf(f, A[f])
  BY DEF Pass
<1>2. ASSUME NEW s \in symbols' PROVE \E f \in Stored' : s \in SymbolsOf(f, stored'[f])
  <2>1. CASE s \in symbols /\ s.file \notin Touched(A, D)
    BY <2>1, FileOfSymbol, StoredNow, StoredTexts
  <2>2. CASE \E f \in DOMAIN A : s \in SymbolsOf(f, A[f])
    BY <2>2, StoredNow
  <2>. QED BY <1>1, <1>2, <2>1, <2>2
<1>3. ASSUME NEW f \in Stored', NEW s \in SymbolsOf(f, stored'[f])
      PROVE  s \in symbols' /\ s \in Symbols
  <2>1. f \in Files /\ stored'[f] \in Texts
    BY StoredNow
  <2>2. s.file = f /\ s \in Symbols
    BY <2>1, SymbolsOfFile
  <2>3. CASE f \in DOMAIN A
    BY <1>1, <2>2, <2>3, StoredNow
  <2>4. CASE f \in Stored /\ f \notin Touched(A, D)
    <3>1. s \in symbols
      BY <2>1, <2>4, StoredNow, StoredSymbols
    <3>. QED BY <1>1, <2>2, <2>4, <3>1
  <2>. QED BY <2>2, <2>3, <2>4, StoredNow
<1>. QED BY <1>2, <1>3

(* The rows of the analysed files. *)
LEMMA FreshEdges ==
  ASSUME NEW A, Analyses(A), NEW B, Table(B), NEW table, table = SymbolTable(A, B),
         NEW e \in Resolve(A, B).edges
  PROVE  \E f \in DOMAIN A : \E r \in Refers[A[f]] : EdgeOf(e, f, A[f], r, table)
<1>0. PICK f \in DOMAIN A : \E r \in Refers[A[f]] : e \in ResolveOne(f, A[f], r, table).edges
  BY ResolveRows
<1>1. PICK r \in Refers[A[f]] : e \in ResolveOne(f, A[f], r, table).edges
  BY <1>0
<1>2. f \in Files /\ A[f] \in Texts /\ Table(table)
  BY TableTyped DEF Analyses
<1>. QED BY <1>1, <1>2, EdgesOfOne

(* The unresolved rows of the analysed files.                                *)
LEMMA FreshRows ==
  ASSUME NEW A, Analyses(A), NEW B, Table(B), NEW table, table = SymbolTable(A, B),
         NEW u \in Resolve(A, B).unresolved
  PROVE  \E f \in DOMAIN A : \E r \in Refers[A[f]] : RowOf(u, f, A[f], r, table)
<1>0. PICK f \in DOMAIN A : \E r \in Refers[A[f]] : u \in ResolveOne(f, A[f], r, table).unresolved
  BY ResolveRows
<1>1. PICK r \in Refers[A[f]] : u \in ResolveOne(f, A[f], r, table).unresolved
  BY <1>0
<1>2. f \in Files /\ A[f] \in Texts /\ Table(table)
  BY TableTyped DEF Analyses
<1>3. Answers(ResolveOne(f, A[f], r, table), f, A[f], r, table)
  BY <1>2, RowsOfOne
<1>. QED BY <1>1, <1>3 DEF Answers

(* A reference of an analysed file has an edge, or a row that says why not. *)
LEMMA FreshAnswers ==
  ASSUME TypeOK, NEW A, Analyses(A), NEW D, NEW B, Table(B), NEW table, table = SymbolTable(A, B),
         Pass(A, D, B), NEW f \in DOMAIN A, NEW r \in Refers[A[f]]
  PROVE  \/ EdgesOf(f, r)' # {}
         \/ \E u \in unresolved' : /\ RowOf(u, f, A[f], r, table)
                                   /\ \/ Waits(u, f, A[f], r, table)
                                      \/ u.reason = "no module" /\ r.binding # "local"
                                      \/ WaitsForExport(u, r, table)
<1>. DEFINE result == ResolveOne(f, A[f], r, table)
<1>1. f \in Files /\ A[f] \in Texts /\ Table(table)
  BY TableTyped DEF Analyses
<1>2. Answers(result, f, A[f], r, table)
  BY <1>1, RowsOfOne
<1>3. result.edges \subseteq edges' /\ result.unresolved \subseteq unresolved'
  BY ResolveRows DEF Pass
<1>4. ASSUME NEW e \in result.edges PROVE e \in EdgesOf(f, r)'
  <2>1. EdgeOf(e, f, A[f], r, table)
    BY <1>1, EdgesOfOne
  <2>2. e.source.file = f /\ e.ref = r
    BY <1>1, <2>1, SourceFile DEF EdgeOf
  <2>. QED BY <1>3, <2>2 DEF EdgesOf
<1>. HIDE DEF result
<1>. QED BY <1>2, <1>3, <1>4 DEF Answers

(* The targets of fresh edges are there. *)
LEMMA FreshTargets ==
  ASSUME TypeOK, ReferentialIntegrity, EdgesFit, NEW A, Analyses(A), NEW D,
         NEW S, Touched(A, D) \subseteq S, NEW B, B = Baseline(S), Pass(A, D, B),
         NEW table, table = SymbolTable(A, B), NEW s \in table.symbols
  PROVE  s \in symbols' /\ s.kind # Module
<1>1. s \in B.symbols \/ \E f \in DOMAIN A : s \in Declared(f, A[f])
  BY TableFields
<1>2. CASE s \in B.symbols
  <2>1. s \in symbols /\ s.file \notin Touched(A, D) /\ s.kind # Module
    BY <1>2, BaselineTable
  <2>. QED BY <2>1 DEF Pass
<1>3. CASE \E f \in DOMAIN A : s \in Declared(f, A[f])
  BY <1>3, DeclaredSymbols DEF Pass, SymbolsOf, Analyses
<1>. QED BY <1>1, <1>2, <1>3

(* A pass keeps the types of the tables.                                     *)
LEMMA PassTypes ==
  ASSUME TypeOK, ReferentialIntegrity, EdgesFit, NEW A, Analyses(A), NEW D,
         NEW S, Touched(A, D) \subseteq S, NEW B, B = Baseline(S), Pass(A, D, B)
  PROVE  /\ stored' \in [Files -> Contents] /\ symbols' \subseteq Symbols
         /\ edges' \subseteq Edges /\ unresolved' \subseteq OpenRows
<1>. DEFINE table == SymbolTable(A, B)
<1>1. Table(B)
  BY BaselineTable
<1>2. ASSUME NEW e \in edges' PROVE e \in Edges
  <2>1. CASE e \in edges
    BY <2>1 DEF TypeOK
  <2>2. CASE e \in Resolve(A, B).edges
    BY <1>1, <2>2, FreshEdges DEF EdgeOf
  <2>. QED BY <1>2, <2>1, <2>2 DEF Pass
<1>3. ASSUME NEW u \in unresolved' PROVE u \in OpenRows
  <2>1. CASE u \in unresolved
    BY <2>1 DEF TypeOK
  <2>2. CASE u \in Resolve(A, B).unresolved
    BY <1>1, <2>2, FreshRows DEF RowOf
  <2>3. CASE \E e : Dropped(e, A, D) /\ Parks(e, u)
    <3>1. PICK e \in edges : e.to \in symbols /\ Parks(e, u)
      BY <2>3 DEF Dropped
    <3>2. e.source \in Symbols /\ e.kind \in RefKinds /\ e.to \in Symbols
      BY <3>1 DEF TypeOK, Edges
    <3>3. e.to.name \in Names
      BY <3>1, <3>2, MeantIsNamed, StoredTexts DEF EdgesFit, Fits
    <3>4. PICK reason \in {"file deleted", "symbol removed"} : u = ParkedRow(e, reason)
      BY <3>1 DEF Parks
    <3>5. reason \in Reasons
      BY DEF Reasons
    <3>. QED BY <3>2, <3>3, <3>4, <3>5 DEF OpenRows, ParkedRow
  <2>. QED BY <1>3, <2>1, <2>2, <2>3 DEF Pass
<1>. QED BY <1>2, <1>3, StoredNow, SymbolsNow

(* A pass leaves no dangling row.                                            *)
LEMMA PassIntegrity ==
  ASSUME TypeOK, ReferentialIntegrity, EdgesFit, NEW A, Analyses(A), NEW D,
         NEW S, Touched(A, D) \subseteq S, NEW B, B = Baseline(S), Pass(A, D, B)
  PROVE  ReferentialIntegrity'
<1>. DEFINE table == SymbolTable(A, B)
<1>1. Table(B)
  BY BaselineTable
<1>2. symbols' = UNION {SymbolsOf(f, stored'[f]) : f \in Stored'}
  <2>. DEFINE family == {SymbolsOf(f, stored'[f]) : f \in Stored'}
  <2>1. \A y : y \in family <=> \E f \in Stored' : y = SymbolsOf(f, stored'[f])
    OBVIOUS
  <2>2. \A s : s \in symbols' <=> \E f \in Stored' : s \in SymbolsOf(f, stored'[f])
    BY SymbolsNow
  <2>. HIDE DEF family
  <2>3. \A s : s \in symbols' <=> s \in UNION family
    BY <2>1, <2>2
  <2>4. symbols' = UNION family
    BY <2>3
  <2>. QED BY <2>4 DEF family
<1>3. \A s \in symbols : s.file \notin Touched(A, D) => s \in symbols'
  BY DEF Pass
<1>4. ASSUME NEW f \in DOMAIN A, NEW r \in Refers[A[f]] PROVE SourceOf(f, A[f], r) \in symbols'
  BY SourceDeclared DEF Pass, Analyses
<1>5. ASSUME NEW e \in edges'
      PROVE  e.source \in symbols' /\ e.to \in symbols' \cup {External, NoTarget}
  <2>1. CASE /\ e \in edges /\ e.source.file \notin Touched(A, D)
             /\ e.to \in symbols => e.to \in symbols'
    BY <1>3, <2>1 DEF ReferentialIntegrity
  <2>2. CASE e \in Resolve(A, B).edges
    <3>1. PICK f \in DOMAIN A : \E r \in Refers[A[f]] : EdgeOf(e, f, A[f], r, table)
      BY <1>1, <2>2, FreshEdges
    <3>2. PICK r \in Refers[A[f]] : EdgeOf(e, f, A[f], r, table)
      BY <3>1
    <3>3. e.to \in symbols' \cup {External, NoTarget}
      BY <3>2, FreshTargets DEF EdgeOf, Pass, SymbolsOf
    <3>. QED BY <1>4, <3>2, <3>3 DEF EdgeOf
  <2>. QED BY <1>5, <2>1, <2>2 DEF Pass
<1>6. ASSUME NEW u \in unresolved' PROVE u.source \in symbols'
  <2>1. CASE u \in unresolved /\ u.source.file \notin Touched(A, D)
    BY <1>3, <2>1 DEF ReferentialIntegrity
  <2>2. CASE u \in Resolve(A, B).unresolved
    <3>1. PICK f \in DOMAIN A : \E r \in Refers[A[f]] : RowOf(u, f, A[f], r, table)
      BY <1>1, <2>2, FreshRows
    <3>. QED BY <1>4, <3>1 DEF RowOf
  <2>3. CASE \E e : Dropped(e, A, D) /\ Parks(e, u)
    <3>1. PICK e : Dropped(e, A, D) /\ Parks(e, u)
      BY <2>3
    <3>2. PICK reason : u = ParkedRow(e, reason)
      BY <3>1 DEF Parks
    <3>3. u.source = e.source
      BY <3>2 DEF ParkedRow
    <3>. QED BY <1>3, <3>1, <3>3 DEF Dropped, ReferentialIntegrity
  <2>. QED BY <1>6, <2>1, <2>2, <2>3 DEF Pass
<1>. QED BY <1>2, <1>5, <1>6 DEF ReferentialIntegrity

(* After a pass every edge still stands for a reference of its file's text   *)
(* and ends where the reference may mean.                                    *)
LEMMA PassFits ==
  ASSUME TypeOK, ReferentialIntegrity, EdgesFit, NEW A, Analyses(A), NEW D,
         NEW S, Touched(A, D) \subseteq S, NEW B, B = Baseline(S), Pass(A, D, B)
  PROVE  EdgesFit'
<1>. DEFINE table == SymbolTable(A, B)
<1>. SUFFICES ASSUME NEW e \in edges' PROVE Fits(e)'
  BY DEF EdgesFit
<1>1. Table(B)
  BY BaselineTable
<1>2. CASE /\ e \in edges /\ e.source.file \notin Touched(A, D)
  <2>. DEFINE f == e.source.file
  <2>1. Fits(e) /\ f \in Stored /\ f \in Files
    BY <1>2 DEF EdgesFit, Fits, Stored
  <2>2. f \in Stored' /\ stored'[f] = stored[f]
    BY <1>2, <2>1, StoredNow
  <2>3. e.to \in symbols' => e.to \in symbols
    BY <1>2, SymbolsNow, MarkersAssumption DEF ReferentialIntegrity
  <2>. QED BY <2>1, <2>2, <2>3 DEF Fits
<1>3. CASE e \in Resolve(A, B).edges
  <2>1. PICK f \in DOMAIN A : \E r \in Refers[A[f]] : EdgeOf(e, f, A[f], r, table)
    BY <1>1, <1>3, FreshEdges
  <2>2. PICK r \in Refers[A[f]] : EdgeOf(e, f, A[f], r, table)
    BY <2>1
  <2>3. f \in Files /\ f \in Stored' /\ stored'[f] = A[f] /\ A[f] \in Texts
    BY StoredNow DEF Analyses
  <2>4. e.source.file = f
    BY <2>2, <2>3, SourceFile DEF EdgeOf
  <2>. QED BY <2>2, <2>3, <2>4, SymbolsNow DEF Fits, EdgeOf
<1>. QED BY <1>2, <1>3 DEF Pass

(* After a pass every reference is linked or has a row: an edge whose        *)
(* target is gone is parked.                                                 *)
LEMMA PassAnswers ==
  ASSUME TypeOK, ReferentialIntegrity, EdgesFit, Answered, NEW A, Analyses(A), NEW D,
         NEW S, Touched(A, D) \subseteq S, NEW B, B = Baseline(S), Pass(A, D, B)
  PROVE  Answered'
<1>. DEFINE table == SymbolTable(A, B)
<1>1. Table(B)
  BY BaselineTable
<1>. SUFFICES ASSUME NEW f \in Stored', NEW r \in Refers[stored'[f]]
              PROVE  EdgesOf(f, r)' # {} \/ OpenFor(f, r)' # {}
  BY DEF Answered
<1>2. CASE f \in DOMAIN A
  <2>1. stored'[f] = A[f]
    BY <1>2, StoredNow
  <2>2. CASE \E u \in unresolved' : RowOf(u, f, A[f], r, table)
    BY <2>1, <2>2 DEF RowOf, OpenFor
  <2>. QED BY <1>1, <1>2, <2>1, <2>2, FreshAnswers
<1>3. CASE f \in Stored /\ f \notin Touched(A, D)
  <2>1. f \in Files /\ stored'[f] = stored[f] /\ stored[f] \in Texts
    BY <1>3, StoredNow, StoredTexts
  <2>2. CASE OpenFor(f, r) # {}
    <3>1. PICK u \in unresolved : u \in OpenFor(f, r)
      BY <2>2 DEF OpenFor
    <3>2. u.source.file = f
      BY <2>1, <3>1, SourceFile DEF OpenFor
    <3>3. u \in unresolved'
      BY <1>3, <3>2 DEF Pass
    <3>4. u \in OpenFor(f, r)'
      BY <2>1, <3>1, <3>3 DEF OpenFor
    <3>. QED BY <3>4
  <2>3. CASE EdgesOf(f, r) # {}
    <3>1. PICK e \in edges : e.source.file = f /\ e.ref = r
      BY <2>3 DEF EdgesOf
    <3>2. CASE Dropped(e, A, D)
      <4>1. PICK u \in unresolved' : u.source = e.source /\ u.kind = e.kind /\ u.text = e.to.name
        BY <3>2 DEF Pass
      <4>2. /\ e.source = SourceOf(f, stored[f], r) /\ Meant(f, stored[f], r, e.to)
            /\ e.kind = EdgeKind(r, e.to) /\ e.to \in Symbols
        BY <3>1, <3>2 DEF Dropped, EdgesFit, Fits, TypeOK
      <4>3. e.to.name \in {r.text, r.binding}
        BY <2>1, <4>2, MeantIsNamed
      <4>4. u \in OpenFor(f, r)'
        BY <2>1, <4>1, <4>2, <4>3 DEF OpenFor, EdgeKind
      <4>. QED BY <4>4
    <3>3. CASE ~Dropped(e, A, D)
      <4>1. e \in edges'
        BY <1>3, <3>1, <3>3 DEF Pass, Dropped
      <4>. QED BY <3>1, <4>1 DEF EdgesOf
    <3>. QED BY <3>2, <3>3
  <2>. QED BY <1>3, <2>1, <2>2, <2>3 DEF Answered
<1>. QED BY <1>2, <1>3, StoredNow

(* After a pass what an export statement names is linked to it.              *)
LEMMA PassExports ==
  ASSUME TypeOK, ReferentialIntegrity, EdgesFit, ExportsLinked, NEW A, Analyses(A), NEW D,
         NEW S, Touched(A, D) \subseteq S, NEW B, B = Baseline(S), Pass(A, D, B)
  PROVE  ExportsLinked'
<1>. DEFINE table == SymbolTable(A, B)
<1>1. Table(B)
  BY BaselineTable
<1>. SUFFICES ASSUME NEW f \in Stored', NEW r \in Refers[stored'[f]], r.kind = "exports",
                     NEW s \in SameFile(f, stored'[f], r)
              PROVE  \E e \in EdgesOf(f, r)' : e.to = s
  BY DEF ExportsLinked
<1>2. CASE f \in DOMAIN A
  <2>1. stored'[f] = A[f] /\ f \in Files /\ A[f] \in Texts /\ Table(table)
    BY <1>1, <1>2, StoredNow, TableTyped DEF Analyses
  <2>2. s \in Symbols /\ Meant(f, A[f], r, s)
    BY <2>1, SameFileSymbols, DeclaredSymbols DEF Meant
  <2>3. ~TooMany(r, Candidates(f, r, table)) /\ ~FromModule(f, r)
    BY <2>1, SameFileSymbols DEF TooMany, ByName, FromModule
  <2>4. PICK e \in ResolveOne(f, A[f], r, table).edges : e.to = s
    BY <2>1, <2>2, <2>3, Relinked
  <2>5. e \in edges'
    BY <1>2, <2>1, ResolveRows DEF Pass
  <2>6. e.source.file = f /\ e.ref = r
    BY <2>1, EdgesOfOne, SourceFile DEF EdgeOf
  <2>. QED BY <2>4, <2>5, <2>6 DEF EdgesOf
<1>3. CASE f \in Stored /\ f \notin Touched(A, D)
  <2>1. f \in Files /\ stored'[f] = stored[f] /\ stored[f] \in Texts
    BY <1>3, StoredNow, StoredTexts
  <2>2. PICK e \in EdgesOf(f, r) : e.to = s
    BY <1>3, <2>1 DEF ExportsLinked
  <2>3. s \in symbols'
    <3>1. s \in SymbolsOf(f, stored[f])
      BY <2>1, SameFileSymbols DEF SymbolsOf
    <3>. QED BY <1>3, <2>1, <3>1, StoredNow, SymbolsNow
  <2>. QED BY <1>3, <2>2, <2>3 DEF EdgesOf, Pass
<1>. QED BY <1>2, <1>3, StoredNow

-----------------------------------------------------------------------------
(* Thorough passes, and the files that they spare.                         *)

(* A pass that leaves nothing out: a full one, or an incremental one that  *)
(* reads every dependent as it is stored.                                  *)
Thorough(A, D) ==
  \/ Touched(A, D) = Files
  \/ /\ ~missed /\ Touched(A, D) = Changed \cup Dependents /\ D \subseteq Changed
     /\ \A f \in DOMAIN A : IF f \in Written THEN A[f] = WrittenTexts[f]
                            ELSE f \in Stored /\ A[f] = stored[f]

(* What is new in the project while a file is spared comes from the files   *)
(* that the batch writes.                                                   *)
LEMMA NewText ==
  ASSUME TypeOK, ReferentialIntegrity, NEW A, Analyses(A), NEW D, NEW B, Pass(A, D, B),
         Thorough(A, D), Touched(A, D) # Files,
         NEW m \in Stored', stored'[m] # stored[m]
  PROVE  m \in Written /\ Declared(m, stored'[m]) \subseteq WrittenSymbols
<1>1. m \in DOMAIN A /\ stored'[m] = A[m]
  BY StoredNow
<1>2. m \in Written /\ A[m] = WrittenTexts[m]
  BY <1>1 DEF Thorough
<1>. DEFINE family == {Declared(f, WrittenTexts[f]) : f \in Written}
<1>3. Declared(m, A[m]) \in family
  BY <1>2
<1>4. WrittenSymbols = UNION family
  BY DEF WrittenSymbols
<1>. HIDE DEF family
<1>. QED BY <1>1, <1>2, <1>3, <1>4

(* A symbol of the table after a pass is of the text indexed then.           *)
LEMMA SymbolOfText ==
  ASSUME TypeOK, ReferentialIntegrity, NEW A, Analyses(A), NEW D, NEW B, Pass(A, D, B),
         NEW s \in symbols'
  PROVE  /\ s.file \in Stored' /\ s \in SymbolsOf(s.file, stored'[s.file])
         /\ s.kind # Module => s \in Declared(s.file, stored'[s.file])
<1>1. PICK f \in Stored' : s \in SymbolsOf(f, stored'[f])
  BY SymbolsNow
<1>2. s.file = f
  BY <1>1, StoredNow, SymbolsOfFile
<1>. QED BY <1>1, <1>2 DEF SymbolsOf, ModuleSymbol

(* The edges of a spared file lose no target.                               *)
LEMMA SparedEdges ==
  ASSUME TypeOK, ReferentialIntegrity, NEW A, Analyses(A), NEW D, NEW B, Pass(A, D, B),
         Thorough(A, D), NEW f \in Files \ Touched(A, D), NEW e \in edges, e.source.file = f
  PROVE  e \in edges'
<1>. SUFFICES ASSUME e.to \in symbols PROVE e.to \in symbols'
  BY DEF Pass
<1>1. e.to.file \notin Changed
  <2>1. e.to.file \in Changed => f \in ByTargetSymbol
    BY DEF ByTargetSymbol
  <2>. QED BY <2>1 DEF Thorough, Dependents
<1>2. e.to.file \in Stored /\ e.to \in SymbolsOf(e.to.file, stored[e.to.file])
  BY FileOfSymbol
<1>3. CASE e.to.file \in Touched(A, D)
  <2>1. e.to.file \in DOMAIN A /\ A[e.to.file] = stored[e.to.file]
    <3>1. Touched(A, D) # Files
      OBVIOUS
    <3>2. e.to.file \in DOMAIN A
      BY <1>1, <1>3, <3>1 DEF Thorough, Touched
    <3>3. e.to.file \notin Written
      BY <1>1 DEF Changed
    <3>. QED BY <3>1, <3>2, <3>3 DEF Thorough
  <2>2. e.to.file \in Stored' /\ stored'[e.to.file] = stored[e.to.file]
    BY <2>1, StoredNow
  <2>. QED BY <1>2, <2>2, SymbolsNow
<1>4. CASE e.to.file \notin Touched(A, D)
  BY <1>4 DEF Pass
<1>. QED BY <1>3, <1>4

(* Nothing is new that has the name a row of a spared file waits for.       *)
LEMMA SparedRows ==
  ASSUME TypeOK, ReferentialIntegrity, NEW A, Analyses(A), NEW D, NEW B, Pass(A, D, B),
         Thorough(A, D), NEW f \in Files \ Touched(A, D), NEW u \in unresolved, u.source.file = f,
         NEW m \in Stored', NEW s \in Declared(m, stored'[m]), s.name = u.text
  PROVE  stored'[m] = stored[m]
<1>. SUFFICES ASSUME stored'[m] # stored[m] PROVE FALSE
  OBVIOUS
<1>1. Touched(A, D) # Files
  OBVIOUS
<1>2. s \in WrittenSymbols
  BY <1>1, NewText
<1>3. f \in ByUnresolvedTarget
  BY <1>2 DEF ByUnresolvedTarget
<1>. QED BY <1>1, <1>3 DEF Thorough, Dependents

(* No namespace is new that a using of a spared file is linked to.          *)
LEMMA SparedUsings ==
  ASSUME TypeOK, ReferentialIntegrity, NEW A, Analyses(A), NEW D, NEW B, Pass(A, D, B),
         Thorough(A, D), NEW f \in Files \ Touched(A, D),
         NEW e \in edges, e.source.file = f, e.kind = "imports", e.to \in symbols,
         e.to.kind = "namespace",
         NEW s \in symbols', s.kind = "namespace", s.name = e.to.name
  PROVE  s \in symbols
<1>. SUFFICES ASSUME s \notin symbols PROVE FALSE
  OBVIOUS
<1>. DEFINE m == s.file
<1>1. Touched(A, D) # Files
  OBVIOUS
<1>2. m \in Stored' /\ s \in Declared(m, stored'[m])
  BY SymbolOfText DEF Module
<1>3. CASE stored'[m] # stored[m]
  <2>1. s \in WrittenSymbols
    BY <1>1, <1>2, <1>3, NewText
  <2>2. s.name \in NewNamespaces
    BY <2>1 DEF NewNamespaces
  <2>3. f \in ByNamespace
    BY <2>2 DEF ByNamespace
  <2>. QED BY <1>1, <2>3 DEF Thorough, Dependents
<1>4. CASE stored'[m] = stored[m]
  <2>1. m \in Files /\ stored[m] # Absent
    BY <1>2, <1>4 DEF Stored
  <2>. QED BY <1>2, <1>4, <2>1, StoredSymbols DEF Stored, SymbolsOf
<1>. QED BY <1>3, <1>4

(* No module is new that a row of a spared file waits for and ends in.      *)
LEMMA SparedModules ==
  ASSUME TypeOK, ReferentialIntegrity, Batched,
         NEW A, Analyses(A), NEW D, NEW B, Pass(A, D, B),
         Thorough(A, D), NEW f \in Files \ Touched(A, D),
         NEW u \in unresolved, u.source.file = f, u.reason = "no module",
         NEW i \in DOMAIN Tries[u.text], Tries[u.text][i] \in Stored',
         Tries[u.text][i] \in EndsIn[u.text]
  PROVE  Tries[u.text][i] \in Stored
<1>. DEFINE m == Tries[u.text][i]
<1>. SUFFICES ASSUME m \notin Stored PROVE FALSE
  OBVIOUS
<1>1. Touched(A, D) # Files
  OBVIOUS
<1>2. m \in DOMAIN A /\ m \in Written
  BY <1>1, StoredNow DEF Thorough
<1>3. m \in batch.created
  BY <1>2 DEF Written, Batched
<1>4. f \in ByUnresolvedModule
  BY <1>3 DEF ByUnresolvedModule
<1>. QED BY <1>1, <1>4 DEF Thorough, Dependents

(* The table that the analysed files are looked up in is the new store's.   *)
LEMMA TableNow ==
  ASSUME TypeOK, ReferentialIntegrity, EdgesFit, NEW A, Analyses(A), NEW D,
         NEW B, B = Baseline(Touched(A, D)), Pass(A, D, B),
         NEW table, table = SymbolTable(A, B)
  PROVE  /\ Table(table) /\ table.files = Stored'
         /\ \A s : s \in table.symbols <=> s \in symbols' /\ s.kind # Module
<1>1. Table(B) /\ B.files = Stored \ Touched(A, D)
  BY BaselineTable
<1>2. Table(table)
  BY <1>1, TableTyped
<1>3. table.files = Stored'
  <2>1. table.files = DOMAIN A \cup (Stored \ Touched(A, D))
    BY <1>1, TableFields
  <2>2. \A f : f \in table.files <=> f \in Stored'
    BY <2>1, StoredNow
  <2>. QED BY <2>2
<1>4. ASSUME NEW s \in table.symbols PROVE s \in symbols' /\ s.kind # Module
  BY <1>4, FreshTargets
<1>5. ASSUME NEW s \in symbols', s.kind # Module PROVE s \in table.symbols
  <2>1. CASE s \in symbols /\ s.file \notin Touched(A, D)
    <3>1. s \in B.symbols
      BY <1>5, <2>1, BaselineTable
    <3>. QED BY <3>1, TableFields
  <2>2. CASE \E f \in DOMAIN A : s \in SymbolsOf(f, A[f])
    BY <1>5, <2>2, TableFields DEF SymbolsOf, ModuleSymbol
  <2>. QED BY <1>5, <2>1, <2>2 DEF Pass
<1>. QED BY <1>2, <1>3, <1>4, <1>5

(* Its exports are all that a stored file exports, but for what a spared   *)
(* JavaScript file exports without a statement.                            *)
LEMMA ExportsNow ==
  ASSUME TypeOK, ReferentialIntegrity, EdgesFit, ExportsLinked, NEW A, Analyses(A), NEW D,
         NEW B, B = Baseline(Touched(A, D)), Pass(A, D, B),
         NEW table, table = SymbolTable(A, B),
         NEW m \in Stored', NEW s \in Declared(m, stored'[m]),
         \/ Language[m] = "typescript" /\ TopLevelDeclaration(s)
         \/ \E r \in Refers[stored'[m]] : r.kind = "exports" /\ s \in SameFile(m, stored'[m], r)
  PROVE  s \in table.exports
<1>1. m \in Files /\ stored'[m] \in Texts /\ s.file = m /\ s \in symbols' /\ s.kind # Module
  BY StoredNow, SymbolsNow, DeclaredSymbols DEF SymbolsOf
<1>2. CASE m \in DOMAIN A
  <2>1. s \in FreshExports(m, A[m])
    <3>. DEFINE top == {x \in Declared(m, A[m]) : TopLevelDeclaration(x)}
                exporting == {SameFile(m, A[m], r) :
                                r \in {x \in Refers[A[m]] : x.kind = "exports"}}
    <3>1. stored'[m] = A[m]
      BY <1>2, StoredNow
    <3>2. s \in top \/ \E y \in exporting : s \in y
      BY <3>1
    <3>3. FreshExports(m, A[m]) = top \cup UNION exporting
      BY DEF FreshExports
    <3>. HIDE DEF top, exporting
    <3>. QED BY <3>2, <3>3
  <2>. QED BY <1>2, <2>1, TableFields
<1>3. CASE m \in Stored /\ m \notin Touched(A, D)
  <2>1. stored'[m] = stored[m]
    BY <1>1, <1>3, StoredNow
  <2>2. s \in symbols
    BY <1>3, <2>1, StoredSymbols DEF SymbolsOf
  <2>3. ExportedInStore(s)
    <3>1. CASE Language[m] = "typescript" /\ TopLevelDeclaration(s)
      BY <1>1, <3>1 DEF ExportedInStore
    <3>2. CASE \E r \in Refers[stored'[m]] : r.kind = "exports" /\ s \in SameFile(m, stored'[m], r)
      <4>1. PICK r \in Refers[stored[m]] : r.kind = "exports" /\ s \in SameFile(m, stored[m], r)
        BY <2>1, <3>2
      <4>2. PICK e \in EdgesOf(m, r) : e.to = s
        BY <1>3, <4>1 DEF ExportsLinked
      <4>3. e \in edges /\ e.ref = r /\ e.kind = EdgeKind(r, s)
        BY <2>2, <4>2 DEF EdgesOf, EdgesFit, Fits
      <4>4. e.kind = "exports"
        BY <4>1, <4>3 DEF EdgeKind
      <4>. QED BY <4>2, <4>3, <4>4 DEF ExportedInStore
    <3>. QED BY <3>1, <3>2
  <2>4. s \in B.exports
    BY <1>1, <1>3, <2>2, <2>3, BaselineTable
  <2>. QED BY <2>4, TableFields
<1>. QED BY <1>2, <1>3, StoredNow

-----------------------------------------------------------------------------
(* What thorough passes keep.                                              *)

(* The table of what the files H hold, as StoredTable is. *)
LEMMA HeldTable ==
  ASSUME NEW c, NEW H, NEW table,
         table = SymbolTable([f \in H |-> c[f]], EmptyBaseline)
  PROVE  /\ \A s : s \in table.symbols <=> \E f \in H : s \in Declared(f, c[f])
         /\ \A s : s \in table.exports <=> \E f \in H : s \in FreshExports(f, c[f])
<1>. DEFINE A == [f \in H |-> c[f]]
<1>1. DOMAIN A = H /\ \A f \in H : A[f] = c[f]
  OBVIOUS
<1>2. EmptyBaseline.symbols = {} /\ EmptyBaseline.exports = {}
  BY DEF EmptyBaseline
<1>. HIDE DEF A
<1>3. /\ \A s : s \in table.symbols <=> \E f \in DOMAIN A : s \in Declared(f, A[f])
      /\ \A s : s \in table.exports <=> \E f \in DOMAIN A : s \in FreshExports(f, A[f])
  BY <1>2, TableFields DEF A
<1>. QED BY <1>1, <1>3

(* The table of the store, before a pass and after it.                       *)
LEMMA StoredTableFields ==
  /\ \A s : s \in StoredTable.symbols <=> \E f \in Stored : s \in Declared(f, stored[f])
  /\ \A s : s \in StoredTable.exports <=> \E f \in Stored : s \in FreshExports(f, stored[f])
BY HeldTable DEF StoredTable

(* The same after a step.                                                    *)
LEMMA StoredTableFieldsNow ==
  /\ \A s : s \in StoredTable'.symbols <=> \E f \in Stored' : s \in Declared(f, stored'[f])
  /\ \A s : s \in StoredTable'.exports <=> \E f \in Stored' : s \in FreshExports(f, stored'[f])
BY HeldTable DEF StoredTable

(* What an import edge to a namespace stands for. *)
LEMMA UsingMeans ==
  ASSUME NEW f \in Files, NEW t \in Texts, NEW r \in Refers[t], NEW s \in Symbols,
         Meant(f, t, r, s), EdgeKind(r, s) = "imports", s.kind = "namespace"
  PROVE  Using(f, r) /\ s.name = r.text
<1>1. r.kind = "imports"
  BY DEF EdgeKind
<1>2. r.binding # "local" /\ SameFile(f, t, r) = {}
  BY <1>1, ReferenceFields, SameFileSymbols
<1>3. s.kind \notin Exportable
  BY DEF Exportable
<1>. QED BY <1>2, <1>3 DEF Meant

(* A thorough pass completes every using.                                    *)
LEMMA PassUsings ==
  ASSUME TypeOK, ReferentialIntegrity, EdgesFit, UsingIsComplete,
         NEW A, Analyses(A), NEW D,
         NEW B, B = Baseline(Touched(A, D)), Pass(A, D, B), Thorough(A, D),
         NEW e \in edges', e.kind = "imports", e.to \in symbols', e.to.kind = "namespace",
         NEW s \in Namespaces(e.to.name, symbols')
  PROVE  \E x \in EdgesOf(e.source.file, e.ref)' : x.to = s
<1>. DEFINE f == e.source.file
            r == e.ref
            table == SymbolTable(A, B)
<1>0. /\ s \in symbols' /\ s.kind = "namespace" /\ s.name = e.to.name
      /\ Language[s.file] = "csharp"
  BY DEF Namespaces
<1>1. Fits(e)'
  BY PassFits DEF EdgesFit
<1>2. /\ f \in Stored' /\ f \in Files /\ stored'[f] \in Texts /\ r \in Refers[stored'[f]]
      /\ Meant(f, stored'[f], r, e.to) /\ EdgeKind(r, e.to) = "imports" /\ e.to \in Symbols
  BY <1>1, StoredNow, SymbolsNow DEF Fits
<1>3. Using(f, r) /\ e.to.name = r.text
  BY <1>2, UsingMeans
<1>4. CASE f \in DOMAIN A
  <2>1. stored'[f] = A[f] /\ A[f] \in Texts /\ r \in Refers[A[f]]
    BY <1>2, <1>4, StoredNow
  <2>2. Table(table) /\ s \in table.symbols
    BY <1>0, TableNow DEF Module
  <2>3. s \in Namespaces(r.text, table.symbols)
    BY <1>0, <1>3, <2>2 DEF Namespaces
  <2>4. PICK x \in ResolveOne(f, A[f], r, table).edges : x.to = s
    <3>. HIDE DEF f, r, table
    <3>. QED BY <1>2, <1>3, <2>1, <2>2, <2>3, UsingLinked
  <2>5. x \in edges'
    BY <1>4, <2>1, ResolveRows DEF Pass
  <2>6. x.source.file = f /\ x.ref = r
    BY <1>2, <2>1, <2>2, EdgesOfOne, SourceFile DEF EdgeOf
  <2>. QED BY <2>4, <2>5, <2>6 DEF EdgesOf
<1>5. CASE f \notin DOMAIN A
  <2>1. f \in Files \ Touched(A, D)
    BY <1>2, <1>5, StoredNow DEF Touched
  <2>2. ~missed
    BY <2>1 DEF Thorough
  <2>3. e \in edges
    <3>1. e \notin Resolve(A, B).edges
      <4>1. SUFFICES ASSUME e \in Resolve(A, B).edges PROVE FALSE
        OBVIOUS
      <4>2. Table(B)
        BY BaselineTable
      <4>3. PICK g \in DOMAIN A : \E x \in Refers[A[g]] : EdgeOf(e, g, A[g], x, table)
        BY <4>1, <4>2, FreshEdges
      <4>4. e.source.file = g
        BY <4>3, SourceFile DEF EdgeOf, Analyses
      <4>. QED BY <1>5, <4>3, <4>4
    <3>. QED BY <3>1 DEF Pass
  <2>4. e.to \in symbols
    BY <1>2, <2>3, MarkersAssumption DEF ReferentialIntegrity
  <2>5. s \in symbols
    BY <1>0, <2>1, <2>3, <2>4, SparedUsings
  <2>6. s \in Namespaces(e.to.name, symbols)
    BY <1>0, <2>5 DEF Namespaces
  <2>7. PICK x \in EdgesOf(f, r) : x.to = s
    BY <2>2, <2>3, <2>4, <2>6 DEF UsingIsComplete
  <2>8. x \in edges'
    BY <2>1, <2>7, SparedEdges DEF EdgesOf
  <2>. QED BY <2>7, <2>8 DEF EdgesOf
<1>. QED BY <1>4, <1>5

(* After a thorough pass a row that found no module still finds none that it *)
(* ends in.                                                                  *)
LEMMA PassModules ==
  ASSUME TypeOK, ReferentialIntegrity, EdgesFit, Batched, NoModule, NEW A, Analyses(A), NEW D,
         NEW B, B = Baseline(Touched(A, D)), Pass(A, D, B), Thorough(A, D),
         NEW u \in unresolved', u.reason = "no module"
  PROVE  u.text \in DOMAIN Tries /\ Unheard(u.text)'
<1>. DEFINE table == SymbolTable(A, B)
<1>1. CASE u \in unresolved /\ u.source.file \notin Touched(A, D)
  <2>1. u.source.file \in Files \ Touched(A, D)
    BY <1>1, SymbolFields DEF TypeOK, OpenRows
  <2>2. ~missed
    BY <2>1 DEF Thorough
  <2>3. u.text \in DOMAIN Tries /\ Unheard(u.text)
    BY <1>1, <2>2 DEF NoModule
  <2>4. ASSUME NEW i \in DOMAIN Tries[u.text], Tries[u.text][i] \in Stored',
               Tries[u.text][i] \in EndsIn[u.text]
        PROVE  FALSE
    <3>1. Tries[u.text][i] \in Stored
      BY <1>1, <2>1, <2>4, SparedModules
    <3>. QED BY <2>3, <2>4, <3>1 DEF Unheard
  <2>. QED BY <2>3, <2>4 DEF Unheard
<1>2. CASE u \in Resolve(A, B).unresolved
  <2>1. table.files = Stored'
    BY TableNow
  <2>2. Table(B)
    BY BaselineTable
  <2>3. PICK f \in DOMAIN A : \E r \in Refers[A[f]] : RowOf(u, f, A[f], r, table)
    BY <1>2, <2>2, FreshRows
  <2>. QED BY <2>1, <2>3 DEF RowOf, Unheard
<1>3. CASE \E e : Dropped(e, A, D) /\ Parks(e, u)
  <2>1. PICK e : Parks(e, u)
    BY <1>3
  <2>2. PICK reason \in {"file deleted", "symbol removed"} : u = ParkedRow(e, reason)
    BY <2>1 DEF Parks
  <2>3. u.reason = reason
    BY <2>2 DEF ParkedRow
  <2>. QED BY <2>3
<1>. QED BY <1>1, <1>2, <1>3 DEF Pass

(* The table the analysed files were looked up in has the symbols of the     *)
(* new store.                                                                *)
LEMMA CandidatesNow ==
  ASSUME TypeOK, ReferentialIntegrity, EdgesFit, NEW A, Analyses(A), NEW D,
         NEW B, B = Baseline(Touched(A, D)), Pass(A, D, B), NEW table, table = SymbolTable(A, B)
  PROVE  \A s : s \in table.symbols <=> s \in StoredTable'.symbols
<1>1. \A s : s \in table.symbols <=> s \in symbols' /\ s.kind # Module
  BY TableNow
<1>2. ASSUME NEW s \in symbols', s.kind # Module PROVE s \in StoredTable'.symbols
  BY <1>2, SymbolOfText, StoredTableFieldsNow
<1>3. ASSUME NEW s \in StoredTable'.symbols PROVE s \in symbols' /\ s.kind # Module
  <2>1. PICK f \in Stored' : s \in Declared(f, stored'[f])
    BY StoredTableFieldsNow
  <2>. QED BY <2>1, StoredNow, SymbolsNow, DeclaredSymbols DEF SymbolsOf
<1>. QED BY <1>1, <1>2, <1>3

(* After a thorough pass a name that is not linked is one the store lacks,   *)
(* or has too often.                                                         *)
LEMMA PassNames ==
  ASSUME TypeOK, ReferentialIntegrity, EdgesFit, AwaitsName, NEW A, Analyses(A), NEW D,
         NEW B, B = Baseline(Touched(A, D)), Pass(A, D, B), Thorough(A, D),
         NEW f \in Stored', NEW r \in Refers[stored'[f]],
         EdgesOf(f, r)' = {}, r.binding = "local", r.kind # "exports"
  PROVE  \E u \in Rows(f, r)' :
           /\ u.text = r.text /\ u.kind = r.kind
           /\ Candidates(f, r, StoredTable') = {} \/ u.reason = "ambiguous"
<1>. DEFINE table == SymbolTable(A, B)
<1>1. CASE f \in DOMAIN A
  <2>1. stored'[f] = A[f] /\ Table(B)
    BY <1>1, StoredNow, BaselineTable
  <2>2. "local" \notin Names
    BY NamesAssumption
  <2>3. PICK u \in unresolved' : RowOf(u, f, A[f], r, table) /\ Waits(u, f, A[f], r, table)
    <3>1. PICK u \in unresolved' : /\ RowOf(u, f, A[f], r, table)
                                   /\ \/ Waits(u, f, A[f], r, table)
                                      \/ WaitsForExport(u, r, table)
      BY <1>1, <2>1, FreshAnswers
    <3>2. ~WaitsForExport(u, r, table)
      BY <2>2 DEF WaitsForExport
    <3>. QED BY <3>1, <3>2
  <2>4. u \in Rows(f, r)' /\ u.text = r.text /\ u.kind = r.kind
    BY <2>1, <2>3 DEF Rows, RowOf, Waits
  <2>5. Candidates(f, r, table) = {} => Candidates(f, r, StoredTable') = {}
    BY CandidatesNow DEF Candidates
  <2>. QED BY <2>3, <2>4, <2>5 DEF Waits
<1>2. CASE f \notin DOMAIN A
  <2>1. f \in Files \ Touched(A, D) /\ f \in Stored /\ stored'[f] = stored[f] /\ stored[f] \in Texts
    BY <1>2, StoredNow DEF Touched
  <2>2. ~missed
    BY <2>1 DEF Thorough
  <2>3. EdgesOf(f, r) = {}
    BY <2>1, SparedEdges DEF EdgesOf
  <2>4. PICK u \in Rows(f, r) : /\ u.text = r.text /\ u.kind = r.kind
                                /\ Candidates(f, r, StoredTable) = {} \/ u.reason = "ambiguous"
    BY <2>1, <2>2, <2>3 DEF AwaitsName
  <2>5. u \in unresolved /\ u.source.file = f
    BY <2>1, <2>4, SourceFile DEF Rows
  <2>6. u \in Rows(f, r)'
    BY <2>1, <2>4, <2>5 DEF Pass, Rows
  <2>7. ASSUME Candidates(f, r, StoredTable) = {}, NEW s \in Candidates(f, r, StoredTable')
        PROVE  FALSE
    <3>1. s \in StoredTable'.symbols /\ s.name = u.text
      BY <2>4, <2>7 DEF Candidates
    <3>2. PICK m \in Stored' : s \in Declared(m, stored'[m])
      BY <3>1, StoredTableFieldsNow
    <3>3. stored'[m] = stored[m]
      BY <2>1, <2>5, <3>1, <3>2, SparedRows
    <3>4. m \in Stored
      BY <3>2, <3>3 DEF Stored
    <3>5. s \in StoredTable.symbols
      BY <3>2, <3>3, <3>4, StoredTableFields
    <3>. QED BY <2>7, <3>5 DEF Candidates
  <2>. QED BY <2>4, <2>6, <2>7
<1>. QED BY <1>1, <1>2

\* What a pass notes of the files it spares: the specifiers whose module it
\* deletes.
Recalled(A, D) ==
  \A f \in Stored \ Touched(A, D) : \A p \in DOMAIN Tries :
    <<f, p>> \in uncovered \/ FindFile(p, Stored) \in D => <<f, p>> \in uncovered'

(* After a thorough pass an import that is not linked waits for a module,    *)
(* or for an export that the module it denotes lacks, unless the file was    *)
(* spared when that module was uncovered.                                    *)
LEMMA PassAwaitedExports ==
  ASSUME TypeOK, ReferentialIntegrity, EdgesFit, ExportsLinked, AwaitsExport, TypeScriptModules,
         NEW A, Analyses(A), NEW D,
         NEW B, B = Baseline(Touched(A, D)), Pass(A, D, B), Thorough(A, D), Recalled(A, D),
         NEW f \in Stored', NEW r \in Refers[stored'[f]],
         EdgesOf(f, r)' = {}, r.binding # "local", r.text \in DOMAIN Tries
  PROVE  \E u \in Rows(f, r)' : AwaitsModule(u, f, r)'
<1>. DEFINE table == SymbolTable(A, B)
<1>0. FindFile(r.text, Stored') # Absent =>
        FindFile(r.text, Stored') \in Stored' /\ Language[FindFile(r.text, Stored')] = "typescript"
  BY FileFound DEF TypeScriptModules
<1>1. ASSUME NEW s \in StoredTable'.exports, s.file = FindFile(r.text, Stored')
      PROVE  /\ s \in table.exports /\ s.file \in Stored'
             /\ s \in FreshExports(s.file, stored'[s.file])
             /\ s \in Declared(s.file, stored'[s.file])
  <2>1. PICK m \in Stored' : s \in FreshExports(m, stored'[m])
    BY <1>1, StoredTableFieldsNow
  <2>2. m \in Files /\ stored'[m] \in Texts
    BY StoredNow
  <2>3. s \in Declared(m, stored'[m]) /\ s.file = m
    BY <2>1, <2>2, FreshExportsFields, DeclaredSymbols
  <2>4. Language[m] = "typescript"
    BY <1>0, <1>1, <2>2, <2>3, FilesAssumption
  <2>5. \/ TopLevelDeclaration(s)
        \/ \E x \in Refers[stored'[m]] : x.kind = "exports" /\ s \in SameFile(m, stored'[m], x)
    <3>. DEFINE top == {x \in Declared(m, stored'[m]) : TopLevelDeclaration(x)}
                exporting == {SameFile(m, stored'[m], x) :
                                x \in {y \in Refers[stored'[m]] : y.kind = "exports"}}
    <3>1. \A y \in exporting : \E x \in Refers[stored'[m]] :
             x.kind = "exports" /\ y = SameFile(m, stored'[m], x)
      OBVIOUS
    <3>2. \A x \in top : TopLevelDeclaration(x)
      OBVIOUS
    <3>3. FreshExports(m, stored'[m]) = top \cup UNION exporting
      BY DEF FreshExports
    <3>. HIDE DEF top, exporting
    <3>. QED BY <2>1, <3>1, <3>2, <3>3
  <2>6. s \in table.exports
    BY <2>3, <2>4, <2>5, ExportsNow
  <2>. QED BY <2>1, <2>3, <2>6
<1>2. CASE f \in DOMAIN A
  <2>1. stored'[f] = A[f] /\ Table(B)
    BY <1>2, StoredNow, BaselineTable
  <2>3. PICK u \in unresolved' : /\ RowOf(u, f, A[f], r, table)
                                 /\ u.reason = "no module" \/ WaitsForExport(u, r, table)
    BY <1>2, <2>1, FreshAnswers DEF Waits
  <2>4. u \in Rows(f, r)'
    BY <2>1, <2>3 DEF Rows, RowOf
  <2>5. CASE u.reason = "no module"
    BY <2>3, <2>4, <2>5 DEF RowOf, AwaitsModule
  <2>6. CASE WaitsForExport(u, r, table)
    <3>1. table.files = Stored'
      BY TableNow
    <3>2. LacksExport(r)'
      BY <1>1, <2>6, <3>1 DEF WaitsForExport, LacksExport
    <3>. QED BY <2>3, <2>4, <2>6, <3>2 DEF WaitsForExport, RowOf, AwaitsModule
  <2>. QED BY <2>3, <2>5, <2>6
<1>3. CASE f \notin DOMAIN A
  <2>1. f \in Files \ Touched(A, D) /\ f \in Stored /\ stored'[f] = stored[f] /\ stored[f] \in Texts
    BY <1>3, StoredNow DEF Touched
  <2>2. ~missed
    BY <2>1 DEF Thorough
  <2>3. EdgesOf(f, r) = {}
    BY <2>1, SparedEdges DEF EdgesOf
  <2>4. PICK u \in Rows(f, r) : AwaitsModule(u, f, r)
    BY <2>1, <2>2, <2>3 DEF AwaitsExport
  <2>5. u \in unresolved /\ u.source = SourceOf(f, stored[f], r)
    BY <2>4 DEF Rows
  <2>6. u \in unresolved /\ u.source.file = f
    BY <2>1, <2>5, SourceFile
  <2>7. u \in Rows(f, r)'
    BY <2>1, <2>5, <2>6 DEF Pass, Rows
  <2>8. <<f, r.text>> \in uncovered => <<f, r.text>> \in uncovered'
    BY <2>1 DEF Recalled
  <2>9. ASSUME u.text = r.binding, LacksExport(r), ~LacksExport(r)'
        PROVE  <<f, r.text>> \in uncovered'
    <3>. DEFINE old == FindFile(r.text, Stored)
                new == FindFile(r.text, Stored')
    <3>1. PICK s \in StoredTable'.exports : s.file = new /\ s.name = r.binding
      BY <2>9 DEF LacksExport
    <3>2. new \in Stored' /\ new # Absent /\ s \in FreshExports(new, stored'[new])
            /\ s \in Declared(new, stored'[new])
      BY <1>1, <3>1, StoredNow, FilesAssumption
    <3>3. stored'[new] = stored[new]
      BY <2>1, <2>6, <2>9, <3>1, <3>2, SparedRows
    <3>4. new \in Stored
      BY <3>2, <3>3 DEF Stored
    <3>5. old # new
      <4>1. s \in StoredTable.exports
        BY <3>2, <3>3, <3>4, StoredTableFields
      <4>. QED BY <2>9, <3>1, <4>1 DEF LacksExport
    <3>6. old \in Stored /\ old # Absent
      BY <3>2, <3>4, FileFound
    <3>7. old \notin Stored'
      BY <3>2, <3>4, <3>5, <3>6, FoundAgain
    <3>8. old \in D
      BY <3>6, <3>7, StoredNow DEF Touched
    <3>. QED BY <2>1, <3>8 DEF Recalled
  <2>. QED BY <2>4, <2>7, <2>8, <2>9 DEF AwaitsModule
<1>. QED BY <1>2, <1>3

-----------------------------------------------------------------------------
(* The steps of the store.                                                 *)

(* An incremental pass that reads every dependent as stored is thorough.     *)
LEMMA ThoroughPass ==
  ASSUME TypeOK, ReferentialIntegrity, NEW skipped, IncrementalPass(skipped), ~missed',
         NEW A, A = Reread(skipped)
  PROVE  /\ Thorough(A, batch.deleted)
         /\ Touched(A, batch.deleted) = Changed \cup Dependents
<1>1. /\ skipped = {} /\ ~missed
      /\ \A f \in Dependents \ skipped : disk[f] = stored[f]
  BY DEF IncrementalPass
<1>2. DOMAIN A = Written \cup Dependents
  BY <1>1 DEF Reread
<1>3. Touched(A, batch.deleted) = Changed \cup Dependents
  BY <1>2 DEF Touched, Changed
<1>4. ASSUME NEW f \in DOMAIN A
      PROVE  IF f \in Written THEN A[f] = WrittenTexts[f] ELSE f \in Stored /\ A[f] = stored[f]
  BY <1>1, <1>2, <1>4, DependentsStored DEF Reread
<1>. QED BY <1>1, <1>3, <1>4 DEF Thorough, Changed

(* An incremental pass notes what it uncovers.                               *)
LEMMA PassRecalls ==
  ASSUME NEW skipped, IncrementalPass(skipped), NEW A, A = Reread(skipped)
  PROVE  /\ Recalled(A, batch.deleted)
         /\ uncovered' \subseteq uncovered \cup (Stored \X Uncovers)
<1>. DEFINE all == uncovered \cup (Stored \X Uncovers)
<1>1. uncovered' = {x \in all : x[1] \notin DOMAIN A}
  BY DEF IncrementalPass, Reread
<1>2. ASSUME NEW f \in Stored \ Touched(A, batch.deleted), NEW p \in DOMAIN Tries,
             <<f, p>> \in uncovered \/ FindFile(p, Stored) \in batch.deleted
      PROVE  <<f, p>> \in uncovered'
  <2>1. <<f, p>> \in all
    BY <1>2 DEF Uncovers
  <2>2. <<f, p>>[1] \notin DOMAIN A
    BY <1>2 DEF Touched
  <2>. QED BY <1>1, <2>1, <2>2
<1>. QED BY <1>1, <1>2 DEF Recalled

(* Either way of updating the store is a pass, thorough unless it says so.  *)
Updates(A, D, S) ==
  /\ Analyses(A) /\ Touched(A, D) \subseteq S /\ Pass(A, D, Baseline(S))
  /\ ~missed' => S = Touched(A, D) /\ Thorough(A, D) /\ Recalled(A, D)

(* A full pass updates the store thoroughly.                                 *)
LEMMA FullPassUpdates ==
  ASSUME TypeOK, NEW bad, FullPass(bad)
  PROVE  \E A, D, S : Updates(A, D, S)
<1>1. PICK A : A = Analysed(bad)
  OBVIOUS
<1>. DEFINE D == Files \ DOMAIN A
<1>2. Analyses(A) /\ Pass(A, D, Baseline(Touched(A, D)))
  BY <1>1, FullPassIsPass
<1>3. Touched(A, D) = Files
  BY <1>2 DEF Touched, Analyses
<1>4. Updates(A, D, Touched(A, D))
  BY <1>2, <1>3 DEF Updates, Thorough, Recalled, Stored
<1>. QED BY <1>4

(* An incremental pass updates the store, thoroughly unless missed records   *)
(* that it did not.                                                          *)
LEMMA IncrementalPassUpdates ==
  ASSUME TypeOK, ReferentialIntegrity, Batched, NEW skipped, IncrementalPass(skipped)
  PROVE  \E A, D, S : Updates(A, D, S)
<1>1. PICK A : A = Reread(skipped)
  OBVIOUS
<1>2. PICK D : D = batch.deleted
  OBVIOUS
<1>3. PICK S : S = Changed \cup Dependents
  OBVIOUS
<1>4. /\ Analyses(A) /\ DOMAIN A = Written \cup (Dependents \ skipped)
      /\ Pass(A, D, Baseline(S))
  BY <1>1, <1>2, <1>3, IncrementalPassIsPass
<1>5. Touched(A, D) \subseteq S
  BY <1>2, <1>3, <1>4 DEF Touched, Changed
<1>6. ~missed' => S = Touched(A, D) /\ Thorough(A, D)
  BY <1>1, <1>2, <1>3, ThoroughPass
<1>7. Recalled(A, D)
  BY <1>1, <1>2, PassRecalls
<1>8. Updates(A, D, S)
  BY <1>4, <1>5, <1>6, <1>7 DEF Updates
<1>. QED BY <1>8

(* Every update keeps the invariant of the tables.                           *)
LEMMA UpdateKeepsTables ==
  ASSUME TypeOK, Batched, TablesInv, NEW A, NEW D, NEW S, Updates(A, D, S)
  PROVE  TablesInv'
<1>. DEFINE B == Baseline(S)
<1>0. /\ ReferentialIntegrity /\ EdgesFit /\ Answered /\ ExportsLinked
      /\ NoModule /\ AwaitsName /\ AwaitsExport /\ UsingIsComplete
  BY DEF TablesInv
<1>1. Analyses(A) /\ Touched(A, D) \subseteq S /\ Pass(A, D, B)
  BY DEF Updates
<1>2. ReferentialIntegrity' /\ EdgesFit'
  BY <1>0, <1>1, PassIntegrity, PassFits
<1>3. Answered' /\ ExportsLinked'
  BY <1>0, <1>1, PassAnswers, PassExports
<1>4. ASSUME ~missed' PROVE B = Baseline(Touched(A, D)) /\ Thorough(A, D) /\ Recalled(A, D)
  BY <1>4 DEF Updates
<1>. HIDE DEF B
<1>5. NoModule'
  BY <1>0, <1>1, <1>4, PassModules DEF NoModule
<1>6. AwaitsName'
  BY <1>0, <1>1, <1>4, PassNames DEF AwaitsName
<1>7. AwaitsExport'
  BY <1>0, <1>1, <1>4, PassAwaitedExports DEF AwaitsExport
<1>8. UsingIsComplete'
  BY <1>0, <1>1, <1>4, PassUsings DEF UsingIsComplete
<1>. QED BY <1>2, <1>3, <1>5, <1>6, <1>7, <1>8 DEF TablesInv

(* Every update keeps their types.                                           *)
LEMMA UpdateKeepsTypes ==
  ASSUME TypeOK, TablesInv, NEW A, NEW D, NEW S, Updates(A, D, S)
  PROVE  /\ stored' \in [Files -> Contents] /\ symbols' \subseteq Symbols
         /\ edges' \subseteq Edges /\ unresolved' \subseteq OpenRows
BY PassTypes DEF Updates, TablesInv

(* A step that leaves the tables alone keeps their invariant.                *)
LEMMA TablesStay ==
  ASSUME TablesInv, UNCHANGED <<tables, history>>
  PROVE  TablesInv'
<1>. USE DEF tables, history
<1>1. ReferentialIntegrity'
  BY DEF TablesInv, ReferentialIntegrity, Stored
<1>2. EdgesFit'
  BY DEF TablesInv, EdgesFit, Fits, Stored
<1>3. Answered'
  BY DEF TablesInv, Answered, EdgesOf, OpenFor, Stored
<1>4. ExportsLinked'
  BY DEF TablesInv, ExportsLinked, EdgesOf, Stored
<1>5. NoModule'
  BY DEF TablesInv, NoModule, Unheard, Stored
<1>6. AwaitsName'
  BY DEF TablesInv, AwaitsName, EdgesOf, Rows, StoredTable, Stored
<1>7. AwaitsExport'
  <2>1. Stored' = Stored /\ StoredTable' = StoredTable
    BY DEF Stored, StoredTable
  <2>2. \A f, r : EdgesOf(f, r)' = EdgesOf(f, r) /\ Rows(f, r)' = Rows(f, r)
    BY DEF EdgesOf, Rows
  <2>3. /\ AwaitsExport /\ missed' = missed /\ stored' = stored
        /\ \A u, f, r : AwaitsModule(u, f, r)' <=> AwaitsModule(u, f, r)
    BY <2>1 DEF TablesInv, LacksExport, AwaitsModule
  <2>. SUFFICES ASSUME ~missed', TypeScriptModules,
                       NEW f \in Stored', NEW r \in Refers[stored'[f]],
                       EdgesOf(f, r)' = {}, r.binding # "local", r.text \in DOMAIN Tries
                PROVE  \E u \in Rows(f, r)' : AwaitsModule(u, f, r)'
    BY DEF AwaitsExport
  <2>4. f \in Stored /\ r \in Refers[stored[f]] /\ EdgesOf(f, r) = {} /\ ~missed
    BY <2>1, <2>2, <2>3
  <2>. QED BY <2>1, <2>2, <2>3, <2>4 DEF AwaitsExport
<1>8. UsingIsComplete'
  BY DEF TablesInv, UsingIsComplete, EdgesOf
<1>. QED BY <1>1, <1>2, <1>3, <1>4, <1>5, <1>6, <1>7, <1>8 DEF TablesInv

(* No batch is a batch of nothing.                                           *)
LEMMA NoBatchIsBatch == NoBatch \in Batches
BY DEF NoBatch, Batches, Contents

(* Nothing is wrong with no batch.                                           *)
LEMMA EmptyBatch ==
  ASSUME batch' = NoBatch
  PROVE  Batched'
<1>1. Modified' = {}
  BY DEF Modified, NoBatch
<1>2. batch'.created = {} /\ batch'.deleted = {}
  BY DEF NoBatch
<1>. QED BY <1>1, <1>2 DEF Batched

-----------------------------------------------------------------------------
(* The invariant and what follows from it.                                 *)

(* The empty index satisfies the invariant.                                  *)
LEMMA GraphInit == Init => IInv
<1>. SUFFICES ASSUME Init PROVE IInv
  OBVIOUS
<1>1. /\ stored \in [Files -> Contents] /\ Stored = {} /\ symbols = {} /\ edges = {}
      /\ unresolved = {} /\ batch = NoBatch /\ missed = FALSE /\ uncovered = {}
  BY DEF Init, Contents, Stored
<1>2. TypeOK
  <2>1. disk \in [Files -> Contents] /\ edits \in 0 .. MaxEdits
    BY BoundsAssumption DEF Init
  <2>. QED BY <1>1, <2>1, NoBatchIsBatch DEF TypeOK
<1>3. Batched
  <2>1. batch.created = {} /\ batch.deleted = {} /\ Modified = {}
    BY <1>1 DEF NoBatch, Modified
  <2>. QED BY <2>1 DEF Batched
<1>4. ReferentialIntegrity
  BY <1>1 DEF ReferentialIntegrity
<1>5. EdgesFit /\ UsingIsComplete /\ NoModule
  BY <1>1 DEF EdgesFit, UsingIsComplete, NoModule
<1>6. Answered /\ ExportsLinked /\ AwaitsName /\ AwaitsExport
  BY <1>1 DEF Answered, ExportsLinked, AwaitsName, AwaitsExport
<1>. QED BY <1>2, <1>3, <1>4, <1>5, <1>6 DEF IInv, TablesInv

(* detect partitions what has changed.                                       *)
LEMMA DetectBatched ==
  ASSUME TypeOK, Detect
  PROVE  batch' \in Batches /\ Batched'
<1>. DEFINE told == [f \in Files |-> IF f \in Stored /\ disk[f] # stored[f]
                                     THEN disk[f] ELSE Absent]
<1>1. batch' = [modified |-> told, created |-> OnDisk \ Stored, deleted |-> Stored \ OnDisk]
  BY DEF Detect
<1>2. /\ batch'.modified = told /\ batch'.created = OnDisk \ Stored
      /\ batch'.deleted = Stored \ OnDisk /\ Stored' = Stored
  BY <1>1 DEF Detect, tables, Stored
<1>3. told \in [Files -> Contents] /\ OnDisk \subseteq Files /\ Stored \subseteq Files
  BY DEF TypeOK, OnDisk, Stored, Contents
<1>4. \A f \in Files : told[f] # Absent => f \in Stored /\ f \in OnDisk
  BY DEF OnDisk
<1>. HIDE DEF told
<1>5. batch' \in Batches
  BY <1>1, <1>3 DEF Batches
<1>6. Modified' \subseteq Stored \cap OnDisk
  BY <1>2, <1>4 DEF Modified
<1>. QED BY <1>2, <1>5, <1>6 DEF Batched, Written

(* Every step keeps the invariant.                                           *)
LEMMA GraphNext == IInv /\ [Next]_vars => IInv'
<1>. SUFFICES ASSUME IInv, [Next]_vars PROVE IInv'
  OBVIOUS
<1>0. TypeOK /\ Batched /\ TablesInv /\ ReferentialIntegrity
  BY DEF IInv, TablesInv
<1>1. ASSUME NEW f \in Files, NEW t \in Versions[f] \cup {Absent}, Edit(f, t) PROVE IInv'
  <2>1. t \in Contents
    BY VersionsAssumption DEF Contents
  <2>2. TypeOK'
    BY <1>0, <1>1, <2>1, BoundsAssumption DEF TypeOK, Edit, tables, history
  <2>3. Batched'
    BY <1>0, <1>1 DEF Edit, tables, Batched, Written, Modified, Stored
  <2>4. TablesInv'
    BY <1>0, <1>1, TablesStay DEF Edit
  <2>. QED BY <2>2, <2>3, <2>4 DEF IInv
<1>2. CASE Detect
  <2>1. TypeOK'
    BY <1>0, <1>2, DetectBatched DEF TypeOK, Detect, tables, history
  <2>2. TablesInv'
    BY <1>0, <1>2, TablesStay DEF Detect
  <2>. QED BY <1>0, <1>2, <2>1, <2>2, DetectBatched DEF IInv
<1>3. ASSUME NEW A, NEW D, NEW S, Updates(A, D, S), batch' = NoBatch, missed' \in BOOLEAN,
             uncovered' \subseteq Files \X Specifiers, UNCHANGED <<disk, edits>>
      PROVE  IInv'
  <2>1. TypeOK'
    BY <1>0, <1>3, UpdateKeepsTypes, NoBatchIsBatch DEF TypeOK
  <2>2. TablesInv' /\ Batched'
    BY <1>0, <1>3, UpdateKeepsTables, EmptyBatch
  <2>. QED BY <2>1, <2>2 DEF IInv
<1>4. ASSUME NEW bad, FullPass(bad) PROVE IInv'
  <2>1. /\ batch' = NoBatch /\ missed' \in BOOLEAN /\ UNCHANGED <<disk, edits>>
        /\ uncovered' \subseteq Files \X Specifiers
    BY <1>4 DEF FullPass
  <2>. QED BY <1>0, <1>3, <1>4, <2>1, FullPassUpdates
<1>5. ASSUME NEW skipped, IncrementalPass(skipped) PROVE IInv'
  <2>1. batch' = NoBatch /\ missed' \in BOOLEAN /\ UNCHANGED <<disk, edits>>
    BY <1>0, <1>5 DEF IncrementalPass, TypeOK
  <2>2. uncovered' \subseteq Files \X Specifiers
    <3>1. uncovered' \subseteq uncovered \cup (Stored \X Uncovers)
      BY <1>5, PassRecalls
    <3>2. Stored \X Uncovers \subseteq Files \X Specifiers
      BY TriesAssumption DEF Stored, Uncovers
    <3>. QED BY <1>0, <3>1, <3>2 DEF TypeOK
  <2>. QED BY <1>0, <1>3, <1>5, <2>1, <2>2, IncrementalPassUpdates
<1>6. ASSUME batch' = NoBatch, UNCHANGED <<disk, edits, tables, history>> PROVE IInv'
  <2>1. TypeOK'
    BY <1>0, <1>6, NoBatchIsBatch DEF TypeOK, tables, history
  <2>2. TablesInv' /\ Batched'
    BY <1>0, <1>6, TablesStay, EmptyBatch
  <2>. QED BY <2>1, <2>2 DEF IInv
<1>7. ASSUME NEW bad, FullPassRefused(bad) PROVE IInv'
  BY <1>6, <1>7 DEF FullPassRefused
<1>8. CASE IncrementalFails
  BY <1>6, <1>8 DEF IncrementalFails
<1>9. CASE UNCHANGED vars
  <2>1. TypeOK'
    BY <1>0, <1>9 DEF TypeOK, vars, tables, history
  <2>2. Batched'
    BY <1>0, <1>9 DEF vars, tables, Batched, Written, Modified, Stored
  <2>3. TablesInv'
    BY <1>0, <1>9, TablesStay DEF vars
  <2>. QED BY <2>1, <2>2, <2>3 DEF IInv
<1>. QED BY <1>1, <1>2, <1>4, <1>5, <1>7, <1>8, <1>9 DEF Next

(* The invariant holds in every state, of any project and any sequence of    *)
(* edits, passes and failures.                                               *)
THEOREM GraphInvariance == Spec => []IInv
BY GraphInit, GraphNext, PTL DEF Spec

(* The tables hold what their schema says.                                   *)
THEOREM GraphTypeCorrect == Spec => []TypeOK
<1>1. IInv => TypeOK
  BY DEF IInv
<1>. QED BY <1>1, GraphInvariance, PTL

(* The symbols table is what the indexed texts declare and no row dangles:   *)
(* neither way of updating the index (reindex, apply_incremental) breaks a   *)
(* foreign key.                                                              *)
THEOREM ReferentialIntegrityHolds == Spec => []ReferentialIntegrity
<1>1. IInv => ReferentialIntegrity
  BY DEF IInv, TablesInv
<1>. QED BY <1>1, GraphInvariance, PTL

(* A using linked to a namespace is linked to every file that declares it,   *)
(* also to those indexed later (dependents_by_namespace).                    *)
THEOREM UsingIsCompleteHolds == Spec => []UsingIsComplete
<1>1. IInv => UsingIsComplete
  BY DEF IInv, TablesInv
<1>. QED BY <1>1, GraphInvariance, PTL

(* The invariant says what an unresolved reference waits for.                *)
LEMMA WaitsForWhatIsMissing ==
  ASSUME TypeScriptModules, IInv
  PROVE  UnresolvedIsUnmatched
<1>0. TypeOK /\ NoModule /\ AwaitsName /\ AwaitsExport
  BY DEF IInv, TablesInv
<1>. SUFFICES ASSUME ~missed, NEW f \in Stored, NEW r \in Refers[stored[f]], EdgesOf(f, r) = {}
              PROVE  /\ r.binding = "local" /\ r.kind # "exports" =>
                          \/ Candidates(f, r, StoredTable) = {}
                          \/ \E u \in OpenFor(f, r) : u.reason = "ambiguous"
                     /\ r.binding # "local" /\ r.text \in DOMAIN Tries =>
                          ~Offered(r) \/ Overlooked(f, r)
  BY Zenon DEF UnresolvedIsUnmatched
<1>1. ASSUME r.binding = "local", r.kind # "exports"
      PROVE  \/ Candidates(f, r, StoredTable) = {}
             \/ \E u \in OpenFor(f, r) : u.reason = "ambiguous"
  <2>1. PICK u \in Rows(f, r) :
          /\ u.text = r.text /\ u.kind = r.kind
          /\ Candidates(f, r, StoredTable) = {} \/ u.reason = "ambiguous"
    BY <1>0, <1>1 DEF AwaitsName
  <2>2. u \in OpenFor(f, r)
    BY <2>1 DEF Rows, OpenFor
  <2>. QED BY <2>1, <2>2
<1>2. ASSUME r.binding # "local", r.text \in DOMAIN Tries
      PROVE  ~Offered(r) \/ Overlooked(f, r)
  <2>1. PICK u \in Rows(f, r) : AwaitsModule(u, f, r)
    BY <1>0, <1>2 DEF AwaitsExport
  <2>2. CASE u.text = r.text /\ u.reason = "no module"
    <3>1. u \in OpenFor(f, r)
      BY <2>1, <2>2 DEF Rows, OpenFor, AwaitsModule
    <3>2. Unheard(r.text)
      BY <1>0, <2>2, <3>1 DEF NoModule, OpenFor
    <3>. QED BY <2>2, <3>1, <3>2 DEF Overlooked
  <2>3. CASE r.binding \in Names /\ LacksExport(r)
    <3>1. r.binding # "*"
      BY <2>3, NamesAssumption
    <3>. QED BY <2>3, <3>1 DEF LacksExport, Offered
  <2>4. CASE <<f, r.text>> \in uncovered
    BY <2>4 DEF Overlooked
  <2>. QED BY <2>1, <2>2, <2>3, <2>4 DEF AwaitsModule
<1>. QED BY <1>1, <1>2

(* A name stays unresolved only while the project has nothing it may mean,   *)
(* or too much (dependents_by_unresolved_target), an import only while the   *)
(* module that its specifier denotes is missing or does not export the name, *)
(* or was overlooked (dependents_by_unresolved_module); whatever file names  *)
(* the specifiers end in.  Where imports resolve to TypeScript files: what a *)
(* JavaScript file exports by declaring it at the top level is not read back *)
(* from the store (resolution_snapshot).                                     *)
THEOREM UnresolvedIsUnmatchedHolds ==
  ASSUME TypeScriptModules
  PROVE  Spec => []UnresolvedIsUnmatched
<1>1. IInv => UnresolvedIsUnmatched
  BY WaitsForWhatIsMissing
<1>. QED BY <1>1, GraphInvariance, PTL

-----------------------------------------------------------------------------
(* The abstract index, as the store shows it.                              *)

(* The abstract index has the resolver's operators as its own copies.        *)
LEMMA SameDeclared == \A f, t : Index!Declared(f, t) = Declared(f, t)
BY DEF Declared, Index!Declared
(* The symbols of a file.                                                    *)
LEMMA SameSymbolsOf == \A f, t : Index!SymbolsOf(f, t) = SymbolsOf(f, t)
BY SameDeclared
   DEF SymbolsOf, Index!SymbolsOf, ModuleSymbol, Index!ModuleSymbol, Module, Index!Module
(* The kinds that a framework reference accepts.                             *)
LEMMA SameFramework == \A k : Index!FrameworkAccepts(k) = FrameworkAccepts(k)
BY Zenon DEF FrameworkAccepts, Index!FrameworkAccepts
(* The kinds that a TypeScript reference accepts.                            *)
LEMMA SameTypeScript == \A k : Index!TypeScriptAccepts(k) = TypeScriptAccepts(k)
BY Zenon DEF TypeScriptAccepts, Index!TypeScriptAccepts, SymbolKinds, Index!SymbolKinds
(* The kinds that a C# reference accepts.                                    *)
LEMMA SameCSharp == \A k : Index!CSharpAccepts(k) = CSharpAccepts(k)
BY Zenon DEF CSharpAccepts, Index!CSharpAccepts, SymbolKinds, Index!SymbolKinds
(* The kinds that a reference accepts.                                       *)
LEMMA SameAccepts == \A l, k : Index!Accepts(l, k) = Accepts(l, k)
BY SameFramework, SameTypeScript, SameCSharp, Zenon
   DEF Accepts, Index!Accepts, Framework, Index!Framework, TypeUses, Index!TypeUses
(* The references that are looked up in the file first.                      *)
LEMMA SamePending == \A r : Index!Pending(r) <=> Pending(r)
BY DEF Pending, Index!Pending, ByName, Index!ByName
(* What they find there.                                                     *)
LEMMA SameSameFile == \A f, t, r : Index!SameFile(f, t, r) = SameFile(f, t, r)
BY SameDeclared, SameAccepts, SamePending DEF SameFile, Index!SameFile
(* What is exported without a statement.                                     *)
LEMMA SameTopLevel == \A s : Index!TopLevelDeclaration(s) <=> TopLevelDeclaration(s)
BY DEF TopLevelDeclaration, Index!TopLevelDeclaration
(* The file that a specifier denotes.                                        *)
LEMMA SameFind == \A p, files : Index!FindFile(p, files) = FindFile(p, files)
BY Zenon DEF FindFile, Index!FindFile

(* The abstract index, as the store's tables show it. *)
LinksNow == {[file |-> e.source.file, ref |-> e.ref, to |-> e.to] :
               e \in {x \in edges : x.to \in symbols}}
LinkedNow == {[file |-> e.source.file, ref |-> e.ref] : e \in edges}
OpenNow == UNION {{[file |-> f, ref |-> r] :
                     r \in {x \in Refers[stored[f]] : OpenFor(f, x) # {}}} : f \in Stored}

(* The abstract index's variables and initial state.                         *)
LEMMA IndexShown ==
  /\ Index!vars = <<stored, LinksNow, LinkedNow, OpenNow, missed>>
  /\ Index!Init <=> /\ stored = [f \in Files |-> Absent] /\ missed = FALSE
                    /\ LinksNow = {} /\ LinkedNow = {} /\ OpenNow = {}
BY Zenon DEF Index!vars, Index!Init, LinksNow, LinkedNow, OpenNow

\* They show a sound index.
SoundNow == Index!Sound(stored, LinksNow, LinkedNow, OpenNow)

(* Its two actions.                                                          *)
LEMMA ReviseShown ==
  /\ Index!Revise <=> /\ SoundNow'
                      /\ \A l \in LinksNow \ LinksNow' : ~Index!Lasting(l, stored, stored')
  /\ Index!ReviseBlind <=> missed' /\ SoundNow'
BY Zenon DEF Index!Revise, Index!ReviseBlind, SoundNow, LinksNow, LinkedNow, OpenNow

(* What the abstract index calls held and existing. *)
LEMMA ExistShown ==
  ASSUME NEW c
  PROVE  /\ Index!Held(c) = {f \in Files : c[f] # Absent}
         /\ \A s : s \in Index!Exist(c) <=> \E f \in Index!Held(c) : s \in SymbolsOf(f, c[f])
<1>1. Index!Held(c) = {f \in Files : c[f] # Absent}
  BY DEF Index!Held
<1>. DEFINE family == {Index!SymbolsOf(f, c[f]) : f \in Index!Held(c)}
<1>2. \A y : y \in family <=> \E f \in Index!Held(c) : y = SymbolsOf(f, c[f])
  BY SameSymbolsOf
<1>3. Index!Exist(c) = UNION family
  BY DEF Index!Exist
<1>. HIDE DEF family
<1>4. \A s : s \in Index!Exist(c) <=> \E f \in Index!Held(c) : s \in SymbolsOf(f, c[f])
  BY <1>2, <1>3
<1>. QED BY <1>1, <1>4

(* The references that it counts as stated.                                  *)
LEMMA StatedShown ==
  ASSUME NEW c, NEW x
  PROVE  x \in Index!Stated(c) <=>
           \E f \in Index!Held(c) : \E r \in Refers[c[f]] : x = [file |-> f, ref |-> r]
<1>. DEFINE of(f) == {[file |-> f, ref |-> r] : r \in Refers[c[f]]}
            family == {of(f) : f \in Index!Held(c)}
<1>1. \A f, y : y \in of(f) <=> \E r \in Refers[c[f]] : y = [file |-> f, ref |-> r]
  OBVIOUS
<1>2. Index!Stated(c) = UNION family
  BY Zenon DEF Index!Stated
<1>. HIDE DEF of
<1>3. \A y : y \in family <=> \E f \in Index!Held(c) : y = of(f)
  OBVIOUS
<1>. HIDE DEF family
<1>. QED BY <1>1, <1>2, <1>3

(* The references that it sees as open.                                      *)
LEMMA OpenShown ==
  ASSUME NEW x
  PROVE  x \in OpenNow <=>
           \E f \in Stored : \E r \in Refers[stored[f]] :
             OpenFor(f, r) # {} /\ x = [file |-> f, ref |-> r]
<1>. DEFINE of(f) == {[file |-> f, ref |-> r] :
                        r \in {y \in Refers[stored[f]] : OpenFor(f, y) # {}}}
            family == {of(f) : f \in Stored}
<1>1. \A f, y : y \in of(f) <=>
        \E r \in Refers[stored[f]] : OpenFor(f, r) # {} /\ y = [file |-> f, ref |-> r]
  OBVIOUS
<1>2. OpenNow = UNION family
  BY Zenon DEF OpenNow
<1>. HIDE DEF of
<1>3. \A y : y \in family <=> \E f \in Stored : y = of(f)
  OBVIOUS
<1>. HIDE DEF family
<1>. QED BY <1>1, <1>2, <1>3

(* The tables show a sound index.                                            *)
LEMMA IndexIsSound ==
  ASSUME TypeOK, TablesInv
  PROVE  SoundNow
<1>0. Index!Held(stored) = Stored
  BY ExistShown DEF Stored
<1>1. ASSUME NEW x \in Index!Stated(stored) PROVE x \in LinkedNow \cup OpenNow
  <2>1. PICK f \in Stored : \E r \in Refers[stored[f]] : x = [file |-> f, ref |-> r]
    BY <1>0, <1>1, StatedShown
  <2>2. PICK r \in Refers[stored[f]] : x = [file |-> f, ref |-> r]
    BY <2>1
  <2>3. CASE EdgesOf(f, r) # {}
    <3>1. PICK e \in edges : e.source.file = f /\ e.ref = r
      BY <2>3 DEF EdgesOf
    <3>. QED BY <2>2, <3>1 DEF LinkedNow
  <2>4. CASE OpenFor(f, r) # {}
    BY <2>2, <2>4, OpenShown
  <2>. QED BY <2>3, <2>4 DEF TablesInv, Answered
<1>2. ASSUME NEW x \in LinkedNow PROVE x \in Index!Stated(stored)
  <2>1. PICK e \in edges : x = [file |-> e.source.file, ref |-> e.ref]
    BY <1>2 DEF LinkedNow
  <2>2. e.source.file \in Stored /\ e.ref \in Refers[stored[e.source.file]]
    BY DEF TablesInv, EdgesFit, Fits
  <2>. QED BY <1>0, <2>1, <2>2, StatedShown
<1>3. ASSUME NEW l \in LinksNow
      PROVE  [file |-> l.file, ref |-> l.ref] \in LinkedNow /\ l.to \in Index!Exist(stored)
  <2>1. PICK e \in edges : /\ e.to \in symbols
                           /\ l = [file |-> e.source.file, ref |-> e.ref, to |-> e.to]
    BY <1>3 DEF LinksNow
  <2>2. l.to \in symbols /\ [file |-> l.file, ref |-> l.ref] \in LinkedNow
    BY <2>1 DEF LinkedNow
  <2>3. l.to \in Index!Exist(stored)
    BY <1>0, <2>2, StoredSymbols, ExistShown DEF TablesInv
  <2>. QED BY <2>2, <2>3
<1>4. /\ Index!Stated(stored) \subseteq LinkedNow \cup OpenNow
      /\ LinkedNow \subseteq Index!Stated(stored)
      /\ \A l \in LinksNow :
           [file |-> l.file, ref |-> l.ref] \in LinkedNow /\ l.to \in Index!Exist(stored)
  BY <1>1, <1>2, <1>3
<1>. QED BY <1>4, Zenon DEF SoundNow, Index!Sound

-----------------------------------------------------------------------------
(* Links that last.                                                        *)

(* The copy of Cardinality is Cardinality.                                   *)
LEMMA SameCardinality == \A S : Index!Cardinality(S) = Cardinality(S)
BY Zenon DEF Cardinality, Index!Cardinality

(* There are finitely many symbols. *)
LEMMA SymbolsFinite == IsFiniteSet(Symbols)
<1>. DEFINE K == SymbolKinds \cup {Module}
            N == Names \cup {Module}
            P == (Files \X K) \X (N \X BOOLEAN)
            key == [s \in Symbols |-> <<<<s.file, s.kind>>, <<s.name, s.top>>>>]
<1>1. IsFiniteSet(K)
  <2>1. \A x : IsFiniteSet({x})
    BY FS_Singleton
  <2>2. IsFiniteSet({"class"} \cup {"interface"}) /\ IsFiniteSet({"struct"} \cup {"enum"})
    BY <2>1, FS_Union
  <2>3. IsFiniteSet({"function"} \cup {"method"}) /\ IsFiniteSet({"property"} \cup {"variable"})
    BY <2>1, FS_Union
  <2>4. IsFiniteSet({"namespace"} \cup {Module})
    BY <2>1, FS_Union
  <2>5. /\ IsFiniteSet(({"class"} \cup {"interface"}) \cup ({"struct"} \cup {"enum"}))
        /\ IsFiniteSet(({"function"} \cup {"method"}) \cup ({"property"} \cup {"variable"}))
    BY <2>2, <2>3, FS_Union
  <2>6. IsFiniteSet((({"class"} \cup {"interface"}) \cup ({"struct"} \cup {"enum"}))
                    \cup (({"function"} \cup {"method"}) \cup ({"property"} \cup {"variable"})))
    BY <2>5, FS_Union
  <2>7. IsFiniteSet(((({"class"} \cup {"interface"}) \cup ({"struct"} \cup {"enum"}))
                    \cup (({"function"} \cup {"method"}) \cup ({"property"} \cup {"variable"})))
                    \cup ({"namespace"} \cup {Module}))
    BY <2>4, <2>6, FS_Union
  <2>8. K = ((({"class"} \cup {"interface"}) \cup ({"struct"} \cup {"enum"}))
             \cup (({"function"} \cup {"method"}) \cup ({"property"} \cup {"variable"})))
            \cup ({"namespace"} \cup {Module})
    BY DEF SymbolKinds
  <2>. QED BY <2>7, <2>8
<1>2. IsFiniteSet(N) /\ IsFiniteSet(BOOLEAN)
  <2>1. IsFiniteSet({Module}) /\ IsFiniteSet({TRUE} \cup {FALSE})
    BY FS_Singleton, FS_Union
  <2>2. BOOLEAN = {TRUE} \cup {FALSE}
    OBVIOUS
  <2>. QED BY <2>1, <2>2, NamesAssumption, FS_Union
<1>. HIDE DEF K, N
<1>3. IsFiniteSet(P)
  <2>1. IsFiniteSet(Files \X K) /\ IsFiniteSet(N \X BOOLEAN)
    BY <1>1, <1>2, FilesAssumption, FS_Product
  <2>. QED BY <2>1, FS_Product
<1>4. ASSUME NEW s \in Symbols
      PROVE  /\ s.file \in Files /\ s.kind \in K /\ s.name \in N /\ s.top \in BOOLEAN
             /\ s = [file |-> s.file, kind |-> s.kind, name |-> s.name, top |-> s.top]
  BY <1>4 DEF Symbols, K, N
<1>5. \A s \in Symbols : key[s] \in P
  BY <1>4
<1>6. ASSUME NEW a \in Symbols, NEW b \in Symbols, key[a] = key[b] PROVE a = b
  <2>1. a.file = b.file /\ a.kind = b.kind /\ a.name = b.name /\ a.top = b.top
    BY <1>6
  <2>. QED BY <1>4, <2>1
<1>7. key \in Injection(Symbols, P)
  BY <1>5, <1>6 DEF Injection, IsInjective
<1>. HIDE DEF key, P
<1>. QED BY <1>3, <1>7, FS_Injection

(* What the abstract index calls exported. *)
LEMMA ExportedShown ==
  ASSUME NEW c, NEW s \in Index!Exported(c)
  PROVE  \E g \in Index!Held(c) :
           \/ s \in Declared(g, c[g]) /\ Language[g] = "typescript" /\ TopLevelDeclaration(s)
           \/ \E r \in Refers[c[g]] : r.kind = "exports" /\ s \in SameFile(g, c[g], r)
<1>. DEFINE top(g) == {x \in Index!Declared(g, c[g]) :
                         Language[g] = "typescript" /\ Index!TopLevelDeclaration(x)}
            exporting(g) == {Index!SameFile(g, c[g], r) :
                               r \in {x \in Refers[c[g]] : x.kind = "exports"}}
            of(g) == top(g) \cup UNION exporting(g)
            family == {of(g) : g \in Index!Held(c)}
<1>1. \A g, x : x \in top(g) =>
        x \in Declared(g, c[g]) /\ Language[g] = "typescript" /\ TopLevelDeclaration(x)
  BY SameDeclared, SameTopLevel
<1>2. \A g, y : y \in exporting(g) =>
        \E r \in Refers[c[g]] : r.kind = "exports" /\ y = SameFile(g, c[g], r)
  BY SameSameFile
<1>3. Index!Exported(c) = UNION family
  BY Zenon DEF Index!Exported
<1>. HIDE DEF top, exporting
<1>4. \A g : s \in of(g) => s \in top(g) \/ \E y \in exporting(g) : s \in y
  OBVIOUS
<1>. HIDE DEF of
<1>5. \A y : y \in family => \E g \in Index!Held(c) : y = of(g)
  OBVIOUS
<1>. HIDE DEF family
<1>6. PICK g \in Index!Held(c) : s \in of(g)
  BY <1>3, <1>5
<1>7. s \in top(g) \/ \E y \in exporting(g) : s \in y
  BY <1>4, <1>6
<1>. QED BY <1>1, <1>2, <1>7

(* A reference that is looked up by name means only symbols of that name. *)
LEMMA ByNameMeans ==
  ASSUME NEW f \in Files, NEW t \in Texts, NEW r \in Refers[t], NEW s, Meant(f, t, r, s),
         r.kind \in ByName
  PROVE  s.name = r.text
<1>1. ~Using(f, r) /\ ~FromModule(f, r)
  BY DEF Using, FromModule, ByName, ModuleUses
<1>. QED BY <1>1 DEF Meant, SameFile

(* A link that is to last lasts: a thorough pass keeps it, or finds it       *)
(* again.                                                                    *)
LEMMA LastingLinked ==
  ASSUME TypeOK, TablesInv, NEW A, NEW D, NEW S, Updates(A, D, S), ~missed',
         NEW l \in LinksNow, Index!Lasting(l, stored, stored')
  PROVE  l \in LinksNow'
<1>. DEFINE B == Baseline(S)
<1>0. /\ ReferentialIntegrity /\ EdgesFit /\ ExportsLinked
      /\ Analyses(A) /\ Pass(A, D, B) /\ S = Touched(A, D) /\ Thorough(A, D)
  BY DEF TablesInv, Updates
<1>1. PICK e \in edges : /\ e.to \in symbols
                         /\ l = [file |-> e.source.file, ref |-> e.ref, to |-> e.to]
  BY DEF LinksNow
<1>2. PICK f, t, r, s : /\ f = e.source.file /\ t = stored[f] /\ r = e.ref /\ s = e.to
  OBVIOUS
<1>3. /\ f \in Stored /\ f \in Files /\ t \in Texts /\ r \in Refers[t] /\ Meant(f, t, r, s)
      /\ s \in Symbols /\ s \in symbols
  BY <1>0, <1>1, <1>2, StoredTexts DEF EdgesFit, Fits, TypeOK
<1>4. s.kind # Module /\ s.name \in Names
  BY <1>3, MeantIsNamed
<1>5. Index!Held(stored') = Stored'
  BY ExistShown DEF Stored
<1>6. /\ stored[f] = stored'[f] /\ s \in Index!Exist(stored')
      /\ r.kind \in ByName => Cardinality(Index!Named(stored', s.name)) <= MaxAmbiguous
      /\ r.binding \in Names /\ r.text \in DOMAIN Tries =>
           FindFile(r.text, Stored') = s.file /\ s \in Index!Exported(stored')
  <2>1. l.file = f /\ l.ref = r /\ l.to = s
    BY <1>1, <1>2
  <2>2. Index!ByName = ByName
    BY DEF ByName, Index!ByName
  <2>3. Index!FindFile(r.text, Index!Held(stored')) = FindFile(r.text, Stored')
    BY <1>5, SameFind
  <2>4. /\ stored[l.file] = stored'[l.file] /\ l.to \in Index!Exist(stored')
        /\ l.ref.kind \in Index!ByName =>
             Cardinality(Index!Named(stored', l.to.name)) <= MaxAmbiguous
        /\ l.ref.binding \in Names /\ l.ref.text \in DOMAIN Tries =>
             /\ Index!FindFile(l.ref.text, Index!Held(stored')) = l.to.file
             /\ l.to \in Index!Exported(stored')
    BY SameCardinality, Zenon DEF Index!Lasting
  <2>. QED BY <2>1, <2>2, <2>3, <2>4
<1>7. s \in symbols'
  BY <1>0, <1>5, <1>6, ExistShown, SymbolsNow
<1>8. ASSUME NEW x \in edges', x.source.file = f, x.ref = r, x.to = s PROVE l \in LinksNow'
  <2>1. l = [file |-> x.source.file, ref |-> x.ref, to |-> x.to]
    BY <1>1, <1>2, <1>8
  <2>. QED BY <1>7, <1>8, <2>1 DEF LinksNow
<1>9. CASE f \notin Touched(A, D)
  <2>1. e \in edges'
    BY <1>0, <1>1, <1>2, <1>7, <1>9 DEF Pass
  <2>. QED BY <1>2, <1>8, <2>1
<1>10. CASE f \in Touched(A, D)
  <2>1. f \in DOMAIN A /\ A[f] = t
    <3>1. f \in Stored'
      BY <1>2, <1>3, <1>6, FilesAssumption DEF Stored
    <3>2. f \in DOMAIN A
      BY <1>0, <1>10, <3>1, StoredNow
    <3>. QED BY <1>0, <1>2, <1>6, <3>2, StoredNow
  <2>2. PICK table : table = SymbolTable(A, B)
    OBVIOUS
  <2>3. Table(table) /\ table.files = Stored' /\ s \in table.symbols
    BY <1>0, <1>4, <1>7, <2>2, TableNow
  <2>4. ~TooMany(r, Candidates(f, r, table))
    <3>. SUFFICES ASSUME r.kind \in ByName
                  PROVE  ~(Cardinality(Candidates(f, r, table)) > MaxAmbiguous)
      BY DEF TooMany
    <3>. DEFINE C == Candidates(f, r, table)
                named == Index!Named(stored', s.name)
    <3>1. s.name = r.text
      BY <1>3, ByNameMeans
    <3>2. \A x : x \in named <=> x \in symbols' /\ x.name = s.name
      <4>1. \A x : x \in Index!Exist(stored') <=> x \in symbols'
        BY <1>0, <1>5, ExistShown, SymbolsNow
      <4>. QED BY <4>1 DEF Index!Named
    <3>3. named \subseteq Symbols
      BY <1>0, <3>2, SymbolsNow
    <3>4. C \subseteq named
      BY <1>0, <2>2, <3>1, <3>2, TableNow DEF Candidates
    <3>5. IsFiniteSet(named)
      BY <3>3, SymbolsFinite, FS_Subset
    <3>6. IsFiniteSet(C) /\ Cardinality(C) <= Cardinality(named)
      BY <3>4, <3>5, FS_Subset
    <3>7. Cardinality(C) \in Nat /\ Cardinality(named) \in Nat
      BY <3>5, <3>6, FS_CardinalityType
    <3>8. Cardinality(named) <= MaxAmbiguous
      BY <1>6
    <3>. HIDE DEF C, named
    <3>9. ~(Cardinality(C) > MaxAmbiguous)
      BY <3>6, <3>7, <3>8, AmbiguousAssumption
    <3>. QED BY <3>9 DEF C
  <2>5. ASSUME FromModule(f, r) PROVE FindFile(r.text, table.files) = s.file /\ s \in table.exports
    <3>1. r.binding \in Names /\ r.text \in DOMAIN Tries
      BY <1>3, <2>5, ReferenceFields DEF FromModule
    <3>2. FindFile(r.text, Stored') = s.file /\ s \in Index!Exported(stored')
      BY <1>6, <3>1
    <3>3. PICK g \in Stored' :
            \/ s \in Declared(g, stored'[g]) /\ Language[g] = "typescript" /\ TopLevelDeclaration(s)
            \/ \E x \in Refers[stored'[g]] : x.kind = "exports" /\ s \in SameFile(g, stored'[g], x)
      BY <1>5, <3>2, ExportedShown
    <3>4. s \in Declared(g, stored'[g])
      BY <3>3 DEF SameFile
    <3>5. s \in table.exports
      BY <1>0, <2>2, <3>3, <3>4, ExportsNow
    <3>. QED BY <2>3, <3>2, <3>5
  <2>6. PICK x \in ResolveOne(f, t, r, table).edges : x.to = s
    BY <1>3, <2>3, <2>4, <2>5, Relinked
  <2>7. x \in edges'
    BY <1>0, <1>3, <2>1, <2>2, ResolveRows DEF Pass
  <2>8. x.source.file = f /\ x.ref = r
    BY <1>3, <2>3, EdgesOfOne, SourceFile DEF EdgeOf
  <2>. QED BY <1>8, <2>6, <2>7, <2>8
<1>. QED BY <1>9, <1>10

-----------------------------------------------------------------------------
(* The refinement.                                                         *)

(* The empty tables show the empty index.                                    *)
LEMMA IndexInit == Init => Index!Init
<1>. SUFFICES ASSUME Init PROVE Index!Init
  OBVIOUS
<1>1. stored = [f \in Files |-> Absent] /\ missed = FALSE /\ edges = {} /\ Stored = {}
  BY DEF Init, Stored
<1>2. LinksNow = {} /\ LinkedNow = {} /\ OpenNow = {}
  BY <1>1, OpenShown DEF LinksNow, LinkedNow
<1>. QED BY <1>1, <1>2, IndexShown

(* Every step of the store is a revision of the index, or leaves it as it    *)
(* is.                                                                       *)
LEMMA IndexNext ==
  ASSUME IInv, SoundNow', [Next]_vars
  PROVE  [Index!Next]_(Index!vars)
<1>0. TypeOK /\ Batched /\ TablesInv /\ ReferentialIntegrity
  BY DEF IInv, TablesInv
<1>1. ASSUME UNCHANGED <<tables, history>> PROVE UNCHANGED Index!vars
  <2>1. stored' = stored /\ symbols' = symbols /\ edges' = edges /\ unresolved' = unresolved
        /\ missed' = missed
    BY <1>1 DEF tables, history
  <2>2. LinksNow' = LinksNow /\ LinkedNow' = LinkedNow /\ OpenNow' = OpenNow
    BY <2>1 DEF LinksNow, LinkedNow, OpenNow, OpenFor, Stored
  <2>3. Index!vars' = <<stored', LinksNow', LinkedNow', OpenNow', missed'>>
    BY Zenon DEF Index!vars, LinksNow, LinkedNow, OpenNow
  <2>. QED BY <2>1, <2>2, <2>3, IndexShown
<1>2. ASSUME NEW A, NEW D, NEW S, Updates(A, D, S) PROVE Index!Next
  <2>1. CASE missed'
    BY <2>1, ReviseShown DEF Index!Next
  <2>2. CASE ~missed'
    <3>1. \A l \in LinksNow \ LinksNow' : ~Index!Lasting(l, stored, stored')
      BY <1>0, <1>2, <2>2, LastingLinked
    <3>. QED BY <3>1, ReviseShown DEF Index!Next
  <2>. QED BY <2>1, <2>2
<1>3. ASSUME NEW f, NEW t, Edit(f, t) PROVE UNCHANGED Index!vars
  BY <1>1, <1>3 DEF Edit
<1>4. CASE Detect
  BY <1>1, <1>4 DEF Detect
<1>5. ASSUME NEW bad, FullPass(bad) PROVE Index!Next
  BY <1>0, <1>2, <1>5, FullPassUpdates
<1>6. ASSUME NEW skipped, IncrementalPass(skipped) PROVE Index!Next
  BY <1>0, <1>2, <1>6, IncrementalPassUpdates
<1>7. ASSUME NEW bad, FullPassRefused(bad) PROVE UNCHANGED Index!vars
  BY <1>1, <1>7 DEF FullPassRefused
<1>8. CASE IncrementalFails
  BY <1>1, <1>8 DEF IncrementalFails
<1>9. CASE UNCHANGED vars
  BY <1>1, <1>9 DEF vars
<1>. QED BY <1>3, <1>4, <1>5, <1>6, <1>7, <1>8, <1>9 DEF Next

(* The store implements the abstract index, whatever mixture of full and     *)
(* incremental passes maintains it: no reference is dropped, no link         *)
(* dangles, and a link whose two ends stay is kept.                          *)
THEOREM GraphImplements == Spec => Implements
<1>1. IInv => SoundNow
  BY IndexIsSound DEF IInv
<1>2. IInv /\ SoundNow' /\ [Next]_vars => [Index!Next]_(Index!vars)
  BY IndexNext
<1>. QED BY <1>1, <1>2, IndexInit, GraphInvariance, PTL DEF Spec, Implements, Index!Spec
=============================================================================
