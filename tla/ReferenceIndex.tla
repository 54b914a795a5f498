--------------------------- MODULE ReferenceIndex ---------------------------
(***************************************************************************)
(* What the graph store promises about references, whatever way it is kept *)
(* up to date: openspec/specs/relationship-graph/spec.md (references are   *)
(* recorded and never dropped silently) and the changelog (an incremental  *)
(* pass keeps the edges of untouched files).  Implemented by GraphStore.   *)
(***************************************************************************)
EXTENDS Resolver

VARIABLES
  contents, \* file -> the text its rows describe
  links,    \* records file, ref, to: a reference linked to a symbol
  linked,   \* records file, ref: a reference with an edge of any sort
  open,     \* records file, ref: a reference recorded as unresolved
  missed    \* a dependent was skipped, or read newer than it was stored

vars == <<contents, links, linked, open, missed>>

Held(c)  == {f \in Files : c[f] # Absent}
Exist(c) == UNION {SymbolsOf(f, c[f]) : f \in Held(c)}
Stated(c) == UNION {{[file |-> f, ref |-> r] : r \in Refers[c[f]]} : f \in Held(c)}

\* No reference of an indexed file is dropped, none is kept of a text that is
\* gone, and every link ends in a symbol that exists.
Sound(c, ln, anyLink, op) ==
  /\ Stated(c) \subseteq anyLink \cup op
  /\ anyLink \subseteq Stated(c)
  /\ \A l \in ln : [file |-> l.file, ref |-> l.ref] \in anyLink
  /\ {l.to : l \in ln} \subseteq Exist(c)

\* What a file exports, by a statement or as a TypeScript module's declaration.
Exported(c) ==
  UNION {{s \in Declared(f, c[f]) : Language[f] = "typescript" /\ TopLevelDeclaration(s)}
           \cup UNION {SameFile(f, c[f], r) : r \in {x \in Refers[c[f]] : x.kind = "exports"}} :
           f \in Held(c)}

\* A link of a file whose text stays, to a symbol that stays, stays; unless it
\* was looked up by name and by now too many symbols have it, or it was imported
\* and the specifier denotes another file or that file exports it no more.
Named(c, name) == {s \in Exist(c) : s.name = name}
Lasting(l, c, d) ==
  /\ c[l.file] = d[l.file] /\ l.to \in Exist(d)
  /\ l.ref.kind \in ByName => Cardinality(Named(d, l.to.name)) <= MaxAmbiguous
  /\ l.ref.binding \in Names /\ l.ref.text \in DOMAIN Tries =>
       FindFile(l.ref.text, Held(d)) = l.to.file /\ l.to \in Exported(d)

Init ==
  /\ contents = [f \in Files |-> Absent] /\ missed = FALSE
  /\ links = {} /\ linked = {} /\ open = {}

\* A pass that could read all it needed.
Revise ==
  /\ Sound(contents', links', linked', open')
  /\ \A l \in links \ links' : ~Lasting(l, contents, contents')

\* A pass that had to leave a dependent out.
ReviseBlind == missed' /\ Sound(contents', links', linked', open')

Next == Revise \/ ReviseBlind
Spec == Init /\ [][Next]_vars
=============================================================================
