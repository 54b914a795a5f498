------------------------------- MODULE MCGraph -------------------------------
(***************************************************************************)
(* GraphStore for TLC.  The sample project has a TypeScript module lib.ts  *)
(* that may export f, as a declaration or by a statement, one that imports *)
(* f from './lib' and calls it, a page lib/index.ts that exports another f *)
(* and calls g, and two C# files of which one declares a namespace and a   *)
(* base class and the other uses them.  './lib' denotes lib.ts before      *)
(* lib/index.ts; './lib/index' denotes the page without ending in its      *)
(* module_stem, which is lib.                                              *)
(***************************************************************************)
EXTENDS GraphStore

CONSTANTS lib, app, page, base, use,    \* files
          lib1, lib2, lib3, app1, app2, page1, base1, base2, use1, use2,
          f, g, B, C, N,                \* names
          toLib, toIndex, package       \* specifiers

Decl(kind, name) == [kind |-> kind, name |-> name, top |-> TRUE]
Nested(kind, name) == [Decl(kind, name) EXCEPT !.top = FALSE]
Ref(kind, from, text, binding) ==
  [kind |-> kind, from |-> from, text |-> text, binding |-> binding]

MCLanguage ==
  [x \in Files |-> IF x \in {base, use} THEN "csharp" ELSE "typescript"]
\* The module is JavaScript.
MixedLanguage == [MCLanguage EXCEPT ![lib] = "javascript"]
MCVersions ==
  [x \in Files |-> CASE x = lib -> {lib1, lib2, lib3} [] x = app -> {app1, app2}
                     [] x = page -> {page1}
                     [] x = base -> {base1, base2} [] x = use -> {use1, use2}]
MCTries == [p \in {toLib, toIndex} |-> IF p = toLib THEN <<lib, page>> ELSE <<page>>]
MCEndsIn == [p \in {toLib, toIndex} |-> IF p = toLib THEN {lib, page} ELSE {}]

MCDeclares ==
  [t \in Texts |->
     CASE t = lib1 -> {Decl("function", f)}
       [] t \in {lib2, lib3} -> {Decl("function", g), Nested("function", f), Nested("method", f)}
       [] t = app1 -> {Decl("function", g)}
       [] t = app2 -> {Decl("class", C)}
       [] t = page1 -> {Decl("class", f)}
       [] t = base1 -> {Decl("namespace", N), Decl("class", B)}
       [] t = base2 -> {Decl("interface", B)}
       [] t = use1 -> {Decl("namespace", N), Decl("class", C)}
       [] t = use2 -> {Decl("class", C)}]
MCRefers ==
  [t \in Texts |->
     CASE t = lib1 -> {}
       [] t = lib2 -> {Ref("calls", g, f, "local")}
       [] t = lib3 -> {Ref("exports", Module, f, "local")}
       [] t = app1 -> {Ref("imports", Module, toLib, f), Ref("imports", Module, package, f),
                       Ref("calls", g, f, "local")}
       [] t = app2 -> {Ref("imports", Module, toLib, "*"), Ref("imports", Module, toIndex, "*"),
                       Ref("calls", C, g, "local")}
       [] t = page1 -> {Ref("calls", Module, g, "local")}
       [] t = base1 -> {}
       [] t = base2 -> {Ref("imports", Module, N, "*"), Ref("property_type", B, C, "local")}
       [] t = use1 -> {Ref("imports", Module, N, "*")}
       [] t = use2 -> {Ref("base_entry", C, B, "local")}]
=============================================================================
