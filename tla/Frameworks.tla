----------------------------- MODULE Frameworks -----------------------------
(***************************************************************************)
(* frameworks::recognize: a second walk over the same tree, after the       *)
(* language's analyzer and before the storage keys are made unique.  What   *)
(* it will find is noted as a fact while the tree is walked, with the       *)
(* symbol it is written on or in; recognition then works on the finished    *)
(* symbol list, where a declaration is found by span in C# and by name in   *)
(* TypeScript.  Route texts, reasons and spans are left out.                *)
(***************************************************************************)
EXTENDS Extraction

CONSTANTS
    Program, Main,   \* the names given to the entry point of top-level code
    Controllers,     \* the class names that end in Controller
    Repositories,    \* the class names that end in Repository or Store
    Calls            \* of map, add and feature, the calls a file may make

ASSUME CallKinds == Calls \subseteq {"map", "add", "feature"}

VARIABLES
    facts,   \* what the second walk comes upon, in order
    roles    \* per symbol, the roles it is tagged with

frameworkVars == <<facts, roles>>

Note(what, home, names) ==
    /\ facts' = Append(facts, [what |-> what, home |-> home, names |-> names])
    /\ UNCHANGED <<shared, roles>>

(* Just inside a declaration: where what is written on its head is noted. *)
JustOpened(kind) ==
    /\ Here.home # 0 /\ Here.home = Len(symbols)
    /\ symbols[Here.home].kind = kind

InClass(i) == homes[i] # 0 /\ symbols[homes[i]].kind = "class"

-----------------------------------------------------------------------------
(* What C# files say (dotnet.rs). *)

ApiController == JustOpened("class") /\ Note("api", Here.home, <<>>)

(* [Http...], [Function], ...Trigger and [Route], of a method of a class. *)
MethodAttribute(what) ==
    /\ JustOpened("method") /\ InClass(Here.home)
    /\ Note(what, Here.home, <<>>)

(* A DbSet<T> property or field of a class derived from a DbContext. *)
DbSetMember(entity) ==
    /\ Len(symbols) > 0 /\ InClass(Len(symbols))
    /\ Last(symbols).kind \in {"property", "field"}
    /\ Note("dbset", Len(symbols), entity)

(* The method or constructor an invocation stands in, 0 for none: top-level *)
(* code, and equally a property's accessor, a field's initializer and what   *)
(* is handed to a base's constructor.                                       *)
EnclosingMethod ==
    IF Here.what = "member" /\ symbols[Here.home].kind \in {"method", "constructor"}
    THEN Here.home ELSE 0

(* A Map..., Add... or Use... call, with the names its shape gives away. *)
Invocation(what, names) ==
    /\ Here.what \in {"file", "type", "member"}
    /\ Note(what, EnclosingMethod, names)

CSharpFact(lists) ==
    /\ language = "csharp"
    /\ \/ ApiController
       \/ \E what \in {"http", "function", "trigger", "route"} : MethodAttribute(what)
       \/ \E entity \in {l \in lists : Len(l) = 1} : DbSetMember(entity)
       \/ \E what \in Calls, names \in lists \union {<<>>} :
             Invocation(what, names)

(* What TypeScript files say (angular.rs): a class with its decorator and    *)
(* what its constructor or its metadata names (@Pipe is as @Directive), and  *)
(* a variable of routes.                                                     *)
DecoratedClass(decorator, names) == JustOpened("class") /\ Note(decorator, Here.home, names)

RoutesVariable(name, handlers) ==
    /\ Here.what # "class"
    /\ Note("routes", 0, <<name>> \o handlers)

TypeScriptFact(lists) ==
    /\ language = "typescript"
    /\ \/ \E decorator \in {"Component", "Directive", "Injectable", "NgModule", "none"},
             names \in lists :
             DecoratedClass(decorator, names)
       \/ \E name \in Names, handlers \in lists : RoutesVariable(name, handlers)

-----------------------------------------------------------------------------
(* Recognition: the symbols, edges and roles after one more fact. *)

Guess(source, kind, name, confidence) == Edge(source, kind, NamedTarget(<<name>>), confidence)
Outside(source, kind) ==
    Edge(source, kind, [to |-> "external", key |-> FileKey, text |-> <<>>], "high")

AddEdges(found, edges) == [found EXCEPT !.rels = @ \o edges]

Tagged(found, i, some) ==
    [found EXCEPT !.roles = [n \in 1..Len(@) |-> IF n = i THEN @[n] \union some ELSE @[n]]]

(* add_role (mutant: looked up by qualified name, not by key). *)
AddRoleByName(found, i, role) ==
    Tagged(found, SelectInSeq(found.symbols, LAMBDA s : s.path = found.symbols[i].path), {role})

AddRole(found, i, role) ==
    Tagged(found, SelectInSeq(found.symbols, LAMBDA s : s.key = found.symbols[i].key), {role})

Pushed(found, symbol) ==
    [found EXCEPT !.symbols = Append(@, symbol), !.roles = Append(@, {})]

(* ensure_program_main_symbol: one per file, on the first call outside any  *)
(* method, whether or not the call is then recognized.                      *)
MainKey == PlainKey(<<Program, Main>>)

EnsureMain(found) ==
    IF found.main THEN found
    ELSE [Pushed(found, Declared(<<Main>>, <<Program, Main>>, "method", NoPrint, NoOrdinal, MainKey))
             EXCEPT !.main = TRUE]

(* Map...: the route, and the handler when the second argument names one. *)
MapEdges(source, names) ==
    <<Outside(source, "handles_route")>>
        \o [n \in 1..Min({1, Len(names)}) |-> Guess(source, "handles_route", names[n], "high")]

(* Add...: a service and its implementation; one name is both, and a guess. *)
AddedEdges(source, names) ==
    LET confidence == IF Len(names) = 1 THEN "low" ELSE "high"
        pair(service, implementation) ==
            <<Guess(source, "registered_as", implementation, confidence),
              Guess(source, "registered_as", service, confidence)>>
    IN IF names = <<>> THEN <<>> ELSE pair(names[1], names[Min({2, Len(names)})])

CallEdges(what, source, names) ==
    CASE what = "map" -> MapEdges(source, names)
      [] what = "add" -> AddedEdges(source, names)
      [] what = "feature" ->
            [n \in 1..Min({1, Len(names)}) |-> Guess(source, "registered_as", names[n], "high")]

CallFound(found, fact) ==
    IF fact.home # 0
    THEN AddEdges(found, CallEdges(fact.what, found.symbols[fact.home].key, fact.names))
    ELSE AddEdges(EnsureMain(found), CallEdges(fact.what, MainKey, fact.names))

(* recognize_method, and the class's share in it: a class whose name says   *)
(* controller is one when a member of it is routed.  A method's own [Route] *)
(* is not looked at.                                                        *)
NamedController(found, i) ==
    IF found.symbols[i].name[1] \in Controllers THEN AddRole(found, i, "controller") ELSE found

AttributeFound(found, fact) ==
    LET source == found.symbols[fact.home].key
        routed == NamedController(AddRole(found, fact.home, "route"), homes[fact.home])
    IN CASE fact.what = "http" -> AddEdges(routed, <<Outside(source, "handles_route")>>)
         [] fact.what = "function" -> routed
         [] fact.what = "trigger" -> AddEdges(found, <<Outside(source, "triggers")>>)
         [] fact.what = "route" -> found

(* recognize_dbset_member: from the class and from the member itself. *)
DbSetFound(found, fact) ==
    AddEdges(found, [s \in 1..2 |->
        Guess(found.symbols[IF s = 1 THEN homes[fact.home] ELSE fact.home].key,
              "persists_to", fact.names[1], "high")])

(* process_class: roles go to the first class of the name, the edges to its *)
(* name alone; only a class with a role has its dependencies injected.      *)
RolesOf(decorator, name) ==
    CASE decorator = "Component" -> {"component"}
      [] decorator = "Directive" -> {"decorator"}
      [] decorator = "Injectable" ->
            {"service"} \union (IF name[1] \in Repositories THEN {"repository"} ELSE {})
      [] OTHER -> {}

IsDiHost(decorator, name) == RolesOf(decorator, name) # {}

FromClass(name, kind, used) ==
    [n \in 1..Len(used) |-> Guess(PlainKey(name), kind, used[n], "high")]

Registrations(name, fact) ==
    IF fact.what \in {"Component", "NgModule"}
    THEN FromClass(name, "registered_as", fact.names) ELSE <<>>

Injections(name, fact) ==
    IF IsDiHost(fact.what, name) THEN FromClass(name, "injects", fact.names) ELSE <<>>

ApplyRoles(found, name, some) ==
    Tagged(found, SelectInSeq(found.symbols, LAMBDA s : s.name = name /\ s.kind = "class"), some)

ClassFound(found, fact) ==
    LET name == found.symbols[fact.home].name
    IN AddEdges(ApplyRoles(found, name, RolesOf(fact.what, name)),
                Registrations(name, fact) \o Injections(name, fact))

(* process_routes_declaration with ensure_variable_symbol: the variable is   *)
(* pushed unless some symbol has its key already.                            *)
RoutesFound(found, fact) ==
    LET name == <<fact.names[1]>>
        variable == Declared(name, name, "variable", NoPrint, NoOrdinal, PlainKey(name))
        known == SelectInSeq(found.symbols, LAMBDA s : s.key = PlainKey(name)) # 0
    IN AddEdges(IF known THEN found ELSE Pushed(found, variable),
                [h \in 1..(Len(fact.names) - 1) |->
                    Guess(PlainKey(name), "handles_route", fact.names[h + 1], "high")])

Found(found, fact) ==
    CASE fact.what = "api" -> AddRole(found, fact.home, "controller")
      [] fact.what \in {"http", "function", "trigger", "route"} -> AttributeFound(found, fact)
      [] fact.what = "dbset" -> DbSetFound(found, fact)
      [] fact.what \in {"map", "add", "feature"} -> CallFound(found, fact)
      [] fact.what = "routes" -> RoutesFound(found, fact)
      [] OTHER -> ClassFound(found, fact)

Unrecognized ==
    [symbols |-> symbols, rels |-> <<>>, main |-> FALSE,
     roles |-> [i \in 1..Len(symbols) |-> {}]]

Recognition ==
    LET found[n \in 0..Len(facts)] ==
          IF n = 0 THEN Unrecognized ELSE Found(found[n - 1], facts[n])
    IN found

Recognized == Recognition[Len(facts)]
=============================================================================
