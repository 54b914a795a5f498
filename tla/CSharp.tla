------------------------------- MODULE CSharp -------------------------------
(***************************************************************************)
(* The C# walk (languages/csharp.rs).  Names are qualified by the stacks of *)
(* enclosing namespaces and types; `partial` fragments of one name are      *)
(* counted per file; a file-scoped namespace stays open to the end of the   *)
(* file.  A frame's container is FileKey while nothing contains.            *)
(***************************************************************************)
EXTENDS Extraction

CONSTANTS
    TypeKinds,     \* of class, interface and struct, those a file may declare
    MemberKinds    \* of method, constructor and property

ASSUME CSharpKinds ==
    /\ TypeKinds \subseteq {"class", "interface", "struct"}
    /\ MemberKinds \subseteq {"method", "constructor", "property"}

VARIABLES
    namespaces,  \* namespace_stack: the names pushed, each a dotted name
    types,       \* type_stack: the simple names of the enclosing types
    fragments    \* partial_ordinals: fragments counted per qualified name

csharpVars == <<namespaces, types, fragments>>

Dotted == FlattenSeq(namespaces)

(* cs_qualified_name *)
CsQualified(name) == Dotted \o types \o <<name>>

NextOrdinal(path) == IF path \in DOMAIN fragments THEN fragments[path] ELSE 0

(* local_key_for without the fragment's ordinal (mutant). *)
LocalKeyForNoFragment(path, ordinal, print) == Key(path, NoOrdinal, print)

LocalKeyFor(path, ordinal, print) ==
    IF ordinal # NoOrdinal THEN Key(path, ordinal, NoPrint) ELSE Key(path, NoOrdinal, print)

CountFragment(path, partial) ==
    fragments' = IF partial
                 THEN [p \in DOMAIN fragments \union {path} |->
                          IF p = path THEN NextOrdinal(path) + 1 ELSE fragments[p]]
                 ELSE fragments

ContainedIn(frame, key) ==
    IF frame.container = FileKey THEN <<>> ELSE <<ContainsEdge(frame.container, key)>>

(* A base, an attribute, a declared type: named, never matched in the file;  *)
(* one list stands for a declaration's bases and attributes.                 *)
TypeUses(source, kind, used) ==
    [n \in 1..Len(used) |-> UnresolvedEdge(source, kind, <<used[n]>>)]

AtDeclarations == ~finished /\ Here.what \in {"file", "namespace", "type"}

-----------------------------------------------------------------------------
(* push_namespace_symbol and the two forms of namespace: a block's name is  *)
(* popped with it, a file-scoped one is the container of what follows.      *)

FullName(name) == Dotted \o <<name>>

PushNamespace(name) ==
    LET path == FullName(name)
        key == PlainKey(path)
    IN /\ namespaces' = Append(namespaces, path)
       /\ Collect(<<Declared(path, path, "namespace", NoPrint, NoOrdinal, key)>>,
                  <<Here.home>>, ContainedIn(Here, key), <<>>)
       /\ UNCHANGED <<types, fragments>>

FileScopedNamespace(name) ==
    /\ Room(1) /\ Here.what = "file"
    /\ PushNamespace(name)
    /\ open' = <<[Here EXCEPT !.container = PlainKey(FullName(name)),
                              !.home = Len(symbols) + 1]>>

BlockNamespace(name) ==
    /\ Room(1) /\ Here.what \in {"file", "namespace"}
    /\ PushNamespace(name)
    /\ Enter(Frame("namespace", PlainKey(FullName(name)), <<>>, FileKey, Len(symbols) + 1))

(* handle_type_decl: a record is a class or, as `record struct`, a struct. *)
TypeDeclaration(kind, name, partial, print, bases) ==
    LET path == CsQualified(name)
        ordinal == IF partial THEN NextOrdinal(path) ELSE NoOrdinal
        key == LocalKeyFor(path, ordinal, print)
    IN /\ Room(1) /\ AtDeclarations
       /\ CountFragment(path, partial)
       /\ Collect(<<Declared(<<name>>, path, kind, print, ordinal, key)>>, <<Here.home>>,
                  ContainedIn(Here, key) \o TypeUses(key, "uses_type", bases), <<>>)
       /\ types' = Append(types, name)
       /\ Enter(Frame("type", key, <<>>, FileKey, Len(symbols) + 1))
       /\ UNCHANGED namespaces

(* handle_enum_decl: the enum, then a field per member, contained in it. *)
EnumDeclaration(name, members) ==
    LET path == CsQualified(name)
        key == PlainKey(path)
        member(m) == path \o <<m>>
    IN /\ Room(1 + Len(members)) /\ AtDeclarations
       /\ Collect(<<Declared(<<name>>, path, "enum", NoPrint, NoOrdinal, key)>>
                      \o [m \in 1..Len(members) |->
                            Declared(<<members[m]>>, member(members[m]), "field", NoPrint,
                                     NoOrdinal, PlainKey(member(members[m])))],
                  <<Here.home>> \o [m \in 1..Len(members) |-> Len(symbols) + 1],
                  ContainedIn(Here, key)
                      \o [m \in 1..Len(members) |-> ContainsEdge(key, PlainKey(member(members[m])))],
                  <<>>)
       /\ Stay
       /\ UNCHANGED csharpVars

(* handle_member: only a method can be partial, a property names its type. *)
Member(kind, name, partial, print, uses) ==
    LET path == CsQualified(name)
        ordinal == IF partial THEN NextOrdinal(path) ELSE NoOrdinal
        key == LocalKeyFor(path, ordinal, print)
    IN /\ Room(1) /\ ~finished /\ Here.what = "type"
       /\ partial => kind = "method"
       /\ kind # "property" => uses = <<>>
       /\ CountFragment(path, partial)
       /\ Collect(<<Declared(<<name>>, path, kind, print, ordinal, key)>>, <<Here.home>>,
                  ContainedIn(Here, key) \o TypeUses(key, "uses_type", uses), <<>>)
       /\ Enter(Frame("member", key, <<>>, key, Len(symbols) + 1))
       /\ UNCHANGED <<namespaces, types>>

(* handle_field_decl: one symbol per declarator, the type named for each. *)
FieldDeclaration(declarators, uses) ==
    LET key(d) == PlainKey(CsQualified(declarators[d]))
    IN /\ Room(Len(declarators)) /\ Here.what = "type"
       /\ Collect([d \in 1..Len(declarators) |->
                      Declared(<<declarators[d]>>, CsQualified(declarators[d]), "field",
                               NoPrint, NoOrdinal, key(d))],
                  [d \in 1..Len(declarators) |-> Here.home],
                  FlattenSeq([d \in 1..Len(declarators) |->
                      ContainedIn(Here, key(d)) \o TypeUses(key(d), "uses_type", uses)]),
                  <<>>)
       /\ Stay
       /\ UNCHANGED csharpVars

(* collect_using: an import by the file, its target looked up later. *)
UsingDirective(name) ==
    /\ RoomToRefer /\ Here.what \in {"file", "namespace"}
    /\ UnresolvedEdge(FileKey, "imports", <<name>>) \notin Range(rels)
    /\ Collect(<<>>, <<>>, <<UnresolvedEdge(FileKey, "imports", <<name>>)>>, <<>>)
    /\ Stay
    /\ UNCHANGED csharpVars

(* walk_expressions: a call, a construction, a read inside a member's body; *)
(* a target-typed `new()` has no name and becomes an edge at once.          *)
Expression(kind, name) ==
    /\ RoomToRefer /\ Here.what = "member"
    /\ Collect(<<>>, <<>>, <<>>, <<Deferred(Here.scope, kind, name)>>)
    /\ Stay
    /\ UNCHANGED csharpVars

TargetTypedNew ==
    /\ RoomToRefer /\ Here.what = "member"
    /\ UnresolvedEdge(Here.scope, "constructs", <<>>) \notin Range(rels)
    /\ Collect(<<>>, <<>>, <<UnresolvedEdge(Here.scope, "constructs", <<>>)>>, <<>>)
    /\ Stay
    /\ UNCHANGED csharpVars

(* The end of a declaration's body. *)
CloseDeclaration ==
    /\ ~finished /\ Len(open) > 1
    /\ open' = Front(open)
    /\ namespaces' = IF Here.what = "namespace" THEN Front(namespaces) ELSE namespaces
    /\ types' = IF Here.what = "type" THEN Front(types) ELSE types
    /\ UNCHANGED <<language, symbols, rels, pending, finished, homes, fragments>>

CSharpInit == namespaces = <<>> /\ types = <<>> /\ fragments = <<>>

CSharpNext ==
    /\ language = "csharp"
    /\ \/ \E name \in Names : FileScopedNamespace(name) \/ BlockNamespace(name) \/ UsingDirective(name)
       \/ \E name \in Names, kind \in TypeKinds, partial \in BOOLEAN,
             print \in Prints, bases \in Lists :
             TypeDeclaration(kind, name, partial, print, bases)
       \/ \E name \in Names, members \in Lists : EnumDeclaration(name, members)
       \/ \E name \in Names, kind \in MemberKinds,
             partial \in BOOLEAN, print \in Prints, uses \in Lists \union {<<>>} :
             Member(kind, name, partial, print, uses)
       \/ \E declarators \in {l \in Lists : l # <<>>}, uses \in Lists :
             FieldDeclaration(declarators, uses)
       \/ \E name \in Names, kind \in {"calls", "constructs", "reads"} : Expression(kind, name)
       \/ TargetTypedNew
       \/ CloseDeclaration
=============================================================================
