----------------------------- MODULE TypeScript -----------------------------
(***************************************************************************)
(* The TypeScript and JavaScript walk (languages/typescript.rs).  A frame's *)
(* parent is the enclosing class's name, <<>> outside one, and its scope the*)
(* key calls are attributed to, FileKey while there is none: the arguments  *)
(* `collect` passes down.  A method's or a function's body forgets the      *)
(* class; a field's initializer does not.                                   *)
(***************************************************************************)
EXTENDS Extraction

(* qualified_name: at most one class name qualifies. *)
Qualified(parent, name) == parent \o <<name>>

ClassKey(name) == PlainKey(<<name>>)

(* push_named *)
Named(kind, parent, name, print) ==
    Declared(<<name>>, Qualified(parent, name), kind, print, NoOrdinal,
             PlainKey(Qualified(parent, name)))

(* A member's key, under its class (mutant: under the file). *)
MemberKeyOfFile(parent, name) == PlainKey(<<name>>)
MemberKey(parent, name) == PlainKey(Qualified(parent, name))

Decorations(source, decorators) ==
    [d \in 1..Len(decorators) |-> UnresolvedEdge(source, "decorates", <<decorators[d]>>)]

(* collect_heritage *)
Heritage(name, extends, implements) ==
    [e \in 1..Len(extends) |-> Deferred(ClassKey(name), "inherits", extends[e])]
        \o [i \in 1..Len(implements) |-> Deferred(ClassKey(name), "implements", implements[i])]

(* reference_scope: the body's scope, else the class, else the file. *)
ReferenceScope ==
    CASE Here.scope # FileKey -> Here.scope
      [] Here.scope = FileKey /\ Here.parent # <<>> -> PlainKey(Here.parent)
      [] OTHER -> FileKey

Walking == ~finished /\ Here.what # "class"

-----------------------------------------------------------------------------
(* One action per node kind `collect` handles. *)

(* A class, wherever it stands: its own key takes the enclosing class's name *)
(* while its heritage and decorators are keyed without it.                   *)
ClassDeclaration(name, extends, implements, decorators) ==
    /\ Room(1) /\ Walking
    /\ Collect(<<Named("class", Here.parent, name, NoPrint)>>, <<Here.home>>,
               Decorations(ClassKey(name), decorators), Heritage(name, extends, implements))
    /\ Enter(Frame("class", FileKey, <<name>>, Here.scope, Len(symbols) + 1))

InterfaceDeclaration(name) ==
    /\ Room(1) /\ Walking
    /\ Collect(<<Named("interface", Here.parent, name, NoPrint)>>, <<Here.home>>, <<>>, <<>>)
    /\ Stay

(* A class's method, or an object's in a field's initializer; decorators are *)
(* paired with it by class_body.                                             *)
MethodDefinition(kind, name, print, decorators) ==
    LET key == MemberKey(Here.parent, name)
    IN /\ Room(1) /\ ~finished /\ Here.what \in {"class", "field"}
       /\ Here.what = "field" => kind = "method"
       /\ Collect(<<Named(kind, Here.parent, name, print)>>, <<Here.home>>,
                  (IF Here.what = "class" THEN Decorations(key, decorators) ELSE <<>>)
                      \o <<ContainsEdge(PlainKey(Here.parent), key)>>,
                  <<>>)
       /\ Enter(Frame("body", FileKey, <<>>, key, Len(symbols) + 1))

(* A top-level function; any other is walked through and is no symbol. *)
FunctionDeclaration(name, print) ==
    LET key == PlainKey(<<name>>)
    IN /\ Room(1) /\ Walking /\ Here.what = "file"
       /\ Collect(<<Named("function", <<>>, name, print)>>, <<Here.home>>, <<>>, <<>>)
       /\ Enter(Frame("body", FileKey, Here.parent, key, Len(symbols) + 1))

(* A field is no symbol, but its decorators are keyed as its member. *)
FieldDefinition(name, decorators) ==
    LET key == MemberKey(Here.parent, name) IN
    /\ ~finished /\ Here.what = "class"
    /\ \A e \in 1..Len(rels) : rels[e].kind = "decorates" => rels[e].source # key
    /\ Collect(<<>>, <<>>, Decorations(key, decorators), <<>>)
    /\ Enter(Frame("field", FileKey, Here.parent, Here.scope, Here.home))

(* collect_imports, and an export with a `from` clause: the module's name. *)
ModuleStatement(kind, name) ==
    /\ RoomToRefer /\ Here.what = "file"
    /\ UnresolvedEdge(FileKey, kind, <<name>>) \notin Range(rels)
    /\ Collect(<<>>, <<>>, <<UnresolvedEdge(FileKey, kind, <<name>>)>>, <<>>)
    /\ Stay

(* collect_exports without one: a name of this file. *)
LocalExport(name) ==
    /\ RoomToRefer /\ Here.what = "file"
    /\ Deferred(FileKey, "exports", name) \notin Range(pending)
    /\ Collect(<<>>, <<>>, <<>>, <<Deferred(FileKey, "exports", name)>>)
    /\ Stay

(* A call or a construction, attributed only inside a function or a method. *)
CallOrNew(kind, name) ==
    /\ RoomToRefer /\ Walking /\ Here.scope # FileKey
    /\ Collect(<<>>, <<>>, <<>>, <<Deferred(Here.scope, kind, name)>>)
    /\ Stay

TypeAnnotation(name) ==
    /\ RoomToRefer /\ Walking
    /\ Collect(<<>>, <<>>, <<>>, <<Deferred(ReferenceScope, "references", name)>>)
    /\ Stay

CloseNode ==
    /\ ~finished /\ Len(open) > 1
    /\ open' = Front(open)
    /\ UNCHANGED <<language, symbols, rels, pending, finished, homes>>

TypeScriptNext ==
    /\ language = "typescript"
    /\ \/ \E name \in Names, extends \in Lists, implements \in Lists, decorators \in Lists :
             ClassDeclaration(name, extends, implements, decorators)
       \/ \E name \in Names : InterfaceDeclaration(name)
       \/ \E kind \in {"method", "constructor"}, name \in Names, print \in Prints,
             decorators \in Lists : MethodDefinition(kind, name, print, decorators)
       \/ \E name \in Names, print \in Prints : FunctionDeclaration(name, print)
       \/ \E name \in Names, decorators \in Lists : FieldDefinition(name, decorators)
       \/ \E kind \in {"imports", "exports"}, name \in Names : ModuleStatement(kind, name)
       \/ \E name \in Names : LocalExport(name)
       \/ \E kind \in {"calls", "constructs"}, name \in Names : CallOrNew(kind, name)
       \/ \E name \in Names : TypeAnnotation(name)
       \/ CloseNode
=============================================================================
