--------------------------- MODULE ExtractorInvariant ---------------------------
(***************************************************************************)
(* The inductive invariant of Extractor, in named parts.                   *)
(*                                                                         *)
(* The properties of the result are promises about the end of the walk, so *)
(* none of them is inductive by itself: they follow from what holds of the *)
(* collected symbols, edges, deferred targets and facts while the file is  *)
(* still walked.                                                           *)
(***************************************************************************)
EXTENDS Extractor

\* What files are made of.
AllPrints == Prints \union {NoPrint}
ListWords == UNION {Range(list) : list \in Lists}
Words == Names \union ListWords \union {Program, Main}
Paths == Seq(Words)
KeySet == [path : Paths, ordinal : Int, print : AllPrints]
SymbolKinds ==
    {"namespace", "class", "interface", "struct", "enum", "field", "method", "constructor",
     "property", "function", "variable"}
SymbolSet ==
    [name : Paths, path : Paths, kind : SymbolKinds, print : AllPrints, ordinal : Int,
     key : KeySet]
IdentitySet == [kind : SymbolKinds, path : Paths, print : AllPrints, ordinal : Int]

(* The words of the analysis: kinds of declarations, edges, targets and     *)
(* facts.                                                                   *)
FrameKinds == {"file", "namespace", "type", "member", "class", "field", "body"}
EdgeKinds ==
    {"contains", "uses_type", "imports", "exports", "constructs", "calls", "reads", "inherits",
     "implements", "references", "decorates", "handles_route", "registered_as", "persists_to",
     "triggers", "injects"}
TargetKinds == {"local", "unresolved", "external"}
Confidences == {"exact", "high", "low", "unresolved"}
MethodFacts == {"http", "function", "trigger", "route"}
CallFacts == {"map", "add", "feature"}
ClassFacts == {"Component", "Directive", "Injectable", "NgModule", "none"}
FactKinds == {"api", "dbset", "routes"} \union MethodFacts \union CallFacts \union ClassFacts

FrameSet ==
    [what : FrameKinds, container : KeySet, parent : Paths, scope : KeySet, home : Nat]
TargetSet == [to : TargetKinds, key : KeySet, text : Paths]
EdgeSet == [source : KeySet, kind : EdgeKinds, target : TargetSet, confidence : Confidences]
DeferredSet == [source : KeySet, kind : EdgeKinds, name : Words]
FactSet == [what : FactKinds, home : Nat, names : Paths]

\* What of the analysis the rest refers to.
File == [language |-> language, symbols |-> symbols, homes |-> homes, rels |-> rels]

\* A key that a stored edge can hang from: the file's, a symbol's, or the name
\* of a TypeScript class that is written inside another declaration.
Anchored(file, key) ==
    \/ key = FileKey
    \/ \E i \in 1 .. Len(file.symbols) : file.symbols[i].key = key
    \/ /\ file.language = "typescript"
       /\ \E i \in 1 .. Len(file.homes) :
             /\ file.symbols[i].kind = "class" /\ file.homes[i] # 0
             /\ file.symbols[i].name = key.path

(* Every edge hangs from an anchored key, but for the decorators of a       *)
(* TypeScript field.                                                        *)
Sourced(file, edge) ==
    \/ Anchored(file, edge.source)
    \/ /\ file.language = "typescript"
       /\ edge.kind = "decorates" /\ Len(edge.source.path) = 2

\* What is true of an open declaration, of a symbol and of a fact.
FrameFits(file, frame) ==
    /\ frame.home <= Len(file.homes)
    /\ frame.what \in {"member", "class"} => frame.home # 0
    /\ Anchored(file, frame.scope)
    /\ file.language = "csharp" =>
          frame.container = IF frame.home = 0 THEN FileKey ELSE file.symbols[frame.home].key
    /\ file.language = "typescript" =>
          /\ frame.what \in {"class", "field"} => frame.parent # <<>>
          /\ frame.parent # <<>> =>
                /\ frame.home # 0
                /\ Len(frame.parent) = 1
                /\ Anchored(file, PlainKey(frame.parent))

(* What is written in a declaration is contained in it by the key of that   *)
(* one.                                                                     *)
Contained(file, i) ==
    file.homes[i] # 0 =>
        \E e \in 1 .. Len(file.rels) :
            file.rels[e] = ContainsEdge(file.symbols[file.homes[i]].key, file.symbols[i].key)

SymbolFits(file, i) ==
    LET symbol == file.symbols[i]
    IN /\ file.homes[i] < i
       /\ file.language = "csharp" =>
             /\ symbol.path # <<>>
             /\ symbol.key = LocalKeyFor(symbol.path, symbol.ordinal, symbol.print)
             /\ Contained(file, i)
       /\ file.language = "typescript" /\ symbol.kind = "class" /\ file.homes[i] = 0 =>
             symbol.key = PlainKey(symbol.name)

FactFits(file, fact) ==
    /\ fact.home <= Len(file.homes)
    /\ file.language = "csharp" =>
          /\ fact.what \in {"api", "dbset"} \union MethodFacts \union CallFacts
          /\ fact.what \notin CallFacts => fact.home # 0
          /\ fact.what \in {"dbset"} \union MethodFacts =>
                /\ file.homes[fact.home] # 0
                /\ file.symbols[file.homes[fact.home]].kind = "class"
          /\ fact.what = "dbset" => Len(fact.names) = 1
    /\ file.language = "typescript" =>
          /\ fact.what \in {"routes"} \union ClassFacts
          /\ fact.what = "routes" => fact.home = 0 /\ Len(fact.names) >= 1
          /\ fact.what # "routes" => fact.home # 0 /\ file.symbols[fact.home].kind = "class"

(* What is collected is of its kind.                                        *)
Typed ==
    /\ language \in {"csharp", "typescript"}
    /\ finished \in BOOLEAN
    /\ open \in Seq(FrameSet) /\ Len(open) >= 1
    /\ symbols \in Seq(SymbolSet) /\ homes \in Seq(Nat)
    /\ rels \in Seq(EdgeSet) /\ pending \in Seq(DeferredSet)
    /\ facts \in Seq(FactSet)

(* So is what only the C# walk keeps.                                       *)
CSharpTyped ==
    /\ namespaces \in Seq(Paths) /\ types \in Paths
    /\ DOMAIN fragments \subseteq Paths
    /\ \A path \in DOMAIN fragments : fragments[path] \in Nat

(* While the file is walked, everything collected fits it.                  *)
Walked ==
    /\ Len(homes) = Len(symbols)
    /\ \A f \in 1 .. Len(open) : FrameFits(File, open[f])
    /\ \A i \in 1 .. Len(symbols) : SymbolFits(File, i)
    /\ \A e \in 1 .. Len(rels) : Sourced(File, rels[e])
    /\ \A p \in 1 .. Len(pending) : Anchored(File, pending[p].source)
    /\ \A f \in 1 .. Len(facts) : FactFits(File, facts[f])

(* A fragment of a partial declaration is told from the others of its path  *)
(* by an ordinal that has been counted.                                     *)
Fragment(i) == symbols[i].ordinal # NoOrdinal
FragmentsCounted ==
    language = "csharp" =>
        /\ \A i \in 1 .. Len(symbols) : Fragment(i) =>
              /\ symbols[i].ordinal \in Nat
              /\ symbols[i].path \in DOMAIN fragments
              /\ symbols[i].ordinal < fragments[symbols[i].path]
        /\ \A i, j \in 1 .. Len(symbols) :
              Fragment(i) /\ symbols[i].path = symbols[j].path
                  /\ symbols[i].ordinal = symbols[j].ordinal => i = j

(* The inductive invariant: what is collected fits the file as long as it   *)
(* is walked, and what is promised of the result holds of it.               *)
ExtractorInv ==
    /\ Typed
    /\ CSharpTyped
    /\ ~finished => Walked /\ FragmentsCounted
    /\ KeysUnique /\ EveryCandidateLinked /\ OnlyFieldsDangle /\ RolesAreEarned
=============================================================================
