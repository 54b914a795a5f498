----------------------------- MODULE Extractor ------------------------------
(***************************************************************************)
(* extract::analyze for one file of either language, and what the index    *)
(* relies on: storage keys that are unique and do not move, edges that hang *)
(* from a symbol that is stored, a reference answered from the whole file. *)
(***************************************************************************)
EXTENDS CSharp, TypeScript, Frameworks

vars == <<shared, csharpVars, frameworkVars>>

Init ==
    /\ language \in {"csharp", "typescript"}
    /\ open = <<Frame("file", FileKey, <<>>, FileKey, 0)>>
    /\ symbols = <<>> /\ rels = <<>> /\ pending = <<>> /\ homes = <<>>
    /\ finished = FALSE
    /\ CSharpInit
    /\ facts = <<>> /\ roles = <<>>

(* Bound: what the bodies refer to and what a framework would recognize. *)
WithinBudget ==
    Cardinality(References) + Cardinality(NamedOutright) + Len(facts) <= MaxReferences

Walk ==
    \/ CSharpNext /\ UNCHANGED frameworkVars
    \/ TypeScriptNext /\ UNCHANGED <<csharpVars, frameworkVars>>
    \/ CSharpFact(Lists) /\ UNCHANGED csharpVars
    \/ TypeScriptFact(Lists) /\ UNCHANGED csharpVars

(* analyze after the walk: deferred targets, then the framework pass, then  *)
(* unique keys.                                                             *)
Finish ==
    /\ ~finished
    /\ Len(open) = 1
    /\ rels' = rels \o ResolvePending \o Recognized.rels
    /\ symbols' = Disambiguated(Recognized.symbols)
    /\ roles' = Recognized.roles
    /\ finished' = TRUE
    /\ UNCHANGED <<language, open, pending, homes, facts, csharpVars>>

Next ==
    \/ ~finished /\ Walk /\ WithinBudget'
    \/ Finish

Spec == Init /\ [][Next]_vars

-----------------------------------------------------------------------------
(* No two symbols of an analyzed file have one storage key, which is the     *)
(* UNIQUE(project_id, symbol_key) constraint that failed the whole index.    *)
KeysUnique ==
    finished => \A i, j \in 1..Len(symbols) :
        StorageKey(symbols[i]) = StorageKey(symbols[j]) => i = j

(* Adding declarations at the end of a file moves no symbol's storage key:   *)
(* what was declared above keeps the id the index knows it by.               *)
KeysStable ==
    [][~finished' => IsPrefix(Disambiguated(symbols), Disambiguated(symbols'))]_symbols

(* A C# declaration hangs from the declaration it is written in: the edge    *)
(* that contains it is stored under that very fragment of a partial type and *)
(* that very namespace, as long as the enclosing declaration's identity      *)
(* (name, signature, fragment) is its own.                                   *)
HomeIsDistinct(h) ==
    \A j \in 1..Len(symbols) : j # h =>
        \/ symbols[j].path # symbols[h].path
        \/ symbols[j].print # symbols[h].print
        \/ symbols[j].ordinal # symbols[h].ordinal

ContainmentIsLexical ==
    language = "csharp" /\ ~finished =>
        \A i \in 1..Len(symbols) :
            homes[i] # 0 /\ HomeIsDistinct(homes[i]) =>
                \E e \in 1..Len(rels) :
                    /\ rels[e].kind = "contains"
                    /\ rels[e].target = LocalTarget(symbols[i].key)
                    /\ SymbolAt(rels[e].source) = homes[i]

(* A target put off until the whole file is known reaches every symbol of    *)
(* the file that fits, declared above or below it, and is called exact only  *)
(* when there is one; a symbol that shares its local key is not counted.     *)
Fits(reference, i) ==
    symbols[i].name = <<reference.name>> /\ KindMatches(reference.kind, symbols[i].kind)

EveryCandidateLinked ==
    finished => \A p \in 1..Len(pending), i \in 1..Len(homes) :
        Fits(pending[p], i) /\ SymbolAt(symbols[i].key) = i =>
            \E e \in 1..Len(rels) :
                /\ rels[e].source = pending[p].source
                /\ rels[e].kind = pending[p].kind
                /\ rels[e].target = LocalTarget(symbols[i].key)
                /\ rels[e].confidence = "exact" <=>
                      \A j \in 1..Len(homes) : Fits(pending[p], j) => j = i

(* The edges with no symbol to hang from are those of a decorated field and  *)
(* of a class inside a field's initializer, and no other.                    *)
Field(source) == Len(source.path) = 2
InnerClass(source) ==
    \E i \in 1..Len(symbols) :
        symbols[i].kind = "class" /\ homes[i] # 0 /\ symbols[i].name = source.path

OnlyFieldsDangle ==
    finished => \A e \in 1..Len(rels) :
        SymbolAt(rels[e].source) = NoSymbol =>
            /\ language = "typescript"
            /\ \/ rels[e].kind = "decorates" /\ Field(rels[e].source)
               \/ InnerClass(rels[e].source)

(* A role is worn by the declaration it was earned by: the attribute stands  *)
(* on it, or on a member of it, whichever fragment or overload it is.  The   *)
(* rule for a class named controller is the catalogue's (docs/FRAMEWORKS.md: *)
(* [ApiController], or the name and a member with [Route] or [Http...]), but *)
(* for two departures of recognize_method: a member's [Function] counts as   *)
(* well, and a member's [Route] does not count by itself.  The walk knows a  *)
(* C# declaration by its local key and a TypeScript class by its name.       *)
Carries(h, attributes) ==
    \E f \in 1..Len(facts) : facts[f].home = h /\ facts[f].what \in attributes
MemberCarries(i, attributes) ==
    \E m \in 1..Len(homes) : homes[m] = i /\ Carries(m, attributes)
NamedForControllers(i) == symbols[i].kind = "class" /\ symbols[i].name[1] \in Controllers

Catalogued(i) ==
    \/ Carries(i, {"api"})
    \/ NamedForControllers(i) /\ MemberCarries(i, {"route", "http"})
FunctionCounted(i) == NamedForControllers(i) /\ MemberCarries(i, {"function"})
RouteOverlooked(i) == ~Carries(i, {"api"}) /\ ~MemberCarries(i, {"http"})

Earned(i) ==
    (IF Carries(i, {"http", "function"}) THEN {"route"} ELSE {})
    \union (IF (Catalogued(i) /\ ~RouteOverlooked(i)) \/ FunctionCounted(i)
            THEN {"controller"} ELSE {})
    \union UNION {RolesOf(facts[f].what, symbols[i].name) :
                     f \in {g \in 1..Len(facts) : facts[g].home = i}}

Recognizable(i) ==
    \A j \in 1..Len(homes) : j # i =>
        IF language = "csharp" THEN symbols[j].key # symbols[i].key
        ELSE symbols[j].name # symbols[i].name

RolesAreEarned ==
    finished => \A i \in 1..Len(homes) :
        Recognizable(i) => roles[i] = Earned(i)
=============================================================================
