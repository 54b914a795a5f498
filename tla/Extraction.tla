----------------------------- MODULE Extraction -----------------------------
(***************************************************************************)
(* What the analyzers of codekurve-analysis have in common: the symbols    *)
(* and edges collected while one file's syntax tree is walked, the targets *)
(* put off until the whole file is known, the pass that makes every        *)
(* symbol's storage key unique, and the table the composition root builds  *)
(* from the result to turn local keys into stored symbols.                 *)
(*                                                                         *)
(* The tree is not data here: a walk's next node is whatever the language's*)
(* module allows inside the declaration that is open, so every tree within *)
(* the bounds is walked.  Names are single segments; a dotted name is a    *)
(* sequence of them, and a signature fingerprint is a member of Prints.    *)
(***************************************************************************)
EXTENDS Integers, Sequences, FiniteSets, SequencesExt, FiniteSetsExt

CONSTANTS
    Names,          \* identifiers a declaration or a reference may use
    Prints,         \* signature fingerprints; NoPrint is the empty one
    NoPrint,
    Lists,          \* lists of names: bases, attributes, members, declarators
    MaxSymbols,     \* bound: declarations in the file
    MaxReferences   \* bound: references written in the file's bodies

ASSUME ListsAreSequences == \A list \in Lists : list \in Seq(Range(list))

VARIABLES
    language,   \* the analyzer chosen for the file
    open,       \* the declarations the walk is inside of, innermost last
    symbols,    \* FileAnalysis.symbols, in source order
    rels,       \* FileAnalysis.relationships
    pending,    \* targets deferred until every symbol is known
    finished,   \* the walk is over and the analysis returned
    homes       \* history: the symbol each symbol is written in, 0 for the file

shared == <<language, open, symbols, rels, pending, finished, homes>>

NoOrdinal == -1

(* A local key: the dotted path of the declaration with the mark that tells  *)
(* fragments and overloads apart.  The file is keyed by its path alone.      *)
Key(path, ordinal, print) == [path |-> path, ordinal |-> ordinal, print |-> print]
PlainKey(path) == Key(path, NoOrdinal, NoPrint)
FileKey == PlainKey(<<>>)

Declared(name, path, kind, print, ordinal, key) ==
    [name |-> name, path |-> path, kind |-> kind, print |-> print,
     ordinal |-> ordinal, key |-> key]

LocalTarget(key) == [to |-> "local", key |-> key, text |-> <<>>]
NamedTarget(text) == [to |-> "unresolved", key |-> FileKey, text |-> text]

Edge(source, kind, target, confidence) ==
    [source |-> source, kind |-> kind, target |-> target, confidence |-> confidence]
UnresolvedEdge(source, kind, text) == Edge(source, kind, NamedTarget(text), "unresolved")
ContainsEdge(container, key) == Edge(container, "contains", LocalTarget(key), "exact")

Deferred(source, kind, name) == [source |-> source, kind |-> kind, name |-> name]

-----------------------------------------------------------------------------
(* The walk's position. *)

Here == Last(open)
Enter(frame) == open' = Append(open, frame)
Stay == open' = open

(* One frame per declaration the walk is inside of: what it is, the key its  *)
(* members are contained in, the enclosing class name and the call scope (the*)
(* TypeScript walk's arguments), and the symbol it belongs to (history).     *)
Frame(what, container, parent, scope, home) ==
    [what |-> what, container |-> container, parent |-> parent,
     scope |-> scope, home |-> home]

Room(n) == ~finished /\ Len(symbols) + n <= MaxSymbols

(* What the file refers to outside its declarations' heads. *)
References ==
    {p \in 1..Len(pending) : pending[p].kind \notin {"inherits", "implements"}}
NamedOutright == {e \in 1..Len(rels) : rels[e].kind \in {"imports", "exports", "constructs"}}
RoomToRefer == ~finished /\ Cardinality(References) + Cardinality(NamedOutright) < MaxReferences

(* A handler's whole effect on the analysis: the symbols it pushes, written  *)
(* inside the frame that is open, the edges and the deferred targets.        *)
Collect(newSymbols, newHomes, newRels, newPending) ==
    /\ symbols' = symbols \o newSymbols
    /\ homes' = homes \o newHomes
    /\ rels' = rels \o newRels
    /\ pending' = pending \o newPending
    /\ UNCHANGED <<language, finished>>

-----------------------------------------------------------------------------
(* resolve_pending: same-file targets, now that forward references exist.  *)

TypeScriptMatches(rel, kind) ==
    CASE rel = "constructs" -> kind = "class"
      [] rel = "calls" -> kind \in {"function", "method", "constructor"}
      [] rel \in {"inherits", "implements"} -> kind \in {"class", "interface"}
      [] rel = "references" -> kind \in {"class", "interface"}
      [] rel = "exports" -> kind \in {"class", "function", "interface"}
      [] OTHER -> TRUE

CSharpMatches(rel, kind) ==
    CASE rel = "constructs" -> kind \in {"class", "struct"}
      [] rel = "calls" -> kind \in {"method", "constructor", "function"}
      [] OTHER -> TRUE

KindMatches(rel, kind) ==
    IF language = "csharp" THEN CSharpMatches(rel, kind) ELSE TypeScriptMatches(rel, kind)

Candidates(reference) ==
    {i \in 1..Len(symbols) : /\ symbols[i].name = <<reference.name>>
                             /\ KindMatches(reference.kind, symbols[i].kind)}

EdgeTo(reference, i, confidence) ==
    Edge(reference.source, reference.kind, LocalTarget(symbols[i].key), confidence)

(* Mutant: the first candidate is taken for the target. *)
EdgesOfGuess(reference) ==
    IF Candidates(reference) = {}
    THEN <<UnresolvedEdge(reference.source, reference.kind, <<reference.name>>)>>
    ELSE <<EdgeTo(reference, Min(Candidates(reference)), "exact")>>

EdgesOf(reference) ==
    LET found == Candidates(reference)
        confidence == IF Cardinality(found) = 1 THEN "exact" ELSE "low"
    IN IF found = {}
       THEN <<UnresolvedEdge(reference.source, reference.kind, <<reference.name>>)>>
       ELSE FlattenSeq([i \in 1..Len(symbols) |->
                IF i \in found THEN <<EdgeTo(reference, i, confidence)>> ELSE <<>>])

ResolvePending == FlattenSeq([p \in 1..Len(pending) |-> EdgesOf(pending[p])])

-----------------------------------------------------------------------------
(* disambiguate_duplicate_keys: the first symbol of a storage key keeps it, *)
(* each later one takes the next free ordinal above every fragment's.       *)

DuplicateOrdinalBase == 1048576

Identity(symbol, ordinal) ==
    [kind |-> symbol.kind, path |-> symbol.path, print |-> symbol.print, ordinal |-> ordinal]

StorageKey(symbol) == Identity(symbol, symbol.ordinal)

(* Mutant: the table of keys already given is not consulted for a fragment's *)
(* ordinal, and duplicates are numbered from zero as fragments are.          *)
DisambiguatedFromZero(all) ==
    LET visit(acc, symbol) ==
          IF StorageKey(symbol) \notin acc.seen
          THEN [acc EXCEPT !.seen = @ \union {StorageKey(symbol)},
                           !.out = Append(@, symbol)]
          ELSE [seen |-> acc.seen, next |-> acc.next + 1,
                out |-> Append(acc.out, [symbol EXCEPT !.ordinal = acc.next])]
    IN FoldLeft(visit, [seen |-> {}, next |-> 0, out |-> <<>>], all).out

(* Mutant: the last occurrence keeps its key. *)
DisambiguatedLastKeeps(all) ==
    [i \in 1..Len(all) |->
        LET later == {j \in (i + 1)..Len(all) : StorageKey(all[j]) = StorageKey(all[i])}
        IN IF later = {} THEN all[i]
           ELSE [all[i] EXCEPT !.ordinal = DuplicateOrdinalBase + i]]

(* The loop that counts up to a free ordinal ends within as many steps as    *)
(* keys have been given.                                                     *)
NextFree(acc, symbol) ==
    Min({n \in acc.next..(acc.next + Cardinality(acc.seen)) : Identity(symbol, n) \notin acc.seen})

KeyGiven(acc, symbol) ==
    IF StorageKey(symbol) \notin acc.seen
    THEN [seen |-> acc.seen \union {StorageKey(symbol)},
          next |-> acc.next,
          out |-> Append(acc.out, symbol)]
    ELSE LET free == NextFree(acc, symbol)
         IN [seen |-> acc.seen \union {Identity(symbol, free)},
             next |-> free + 1,
             out |-> Append(acc.out, [symbol EXCEPT !.ordinal = free])]

NoKeyGiven == [seen |-> {}, next |-> DuplicateOrdinalBase, out |-> <<>>]

Given(all) ==
    LET given[n \in 0..Len(all)] ==
          IF n = 0 THEN NoKeyGiven ELSE KeyGiven(given[n - 1], all[n])
    IN given

Disambiguated(all) == Given(all)[Len(all)].out

-----------------------------------------------------------------------------
(* build_file_inputs' symbol_ids: the last symbol of a local key is the one *)
(* the key names; a plain qualified name also names its first symbol.       *)

NoSymbol == -1

SymbolAt(key) ==
    LET keyed == {i \in 1..Len(symbols) : symbols[i].key = key}
        named == {i \in 1..Len(symbols) : PlainKey(symbols[i].path) = key}
    IN CASE key = FileKey -> 0
         [] key # FileKey /\ keyed # {} -> Max(keyed)
         [] key # FileKey /\ keyed = {} /\ named # {} -> Min(named)
         [] OTHER -> NoSymbol
=============================================================================
