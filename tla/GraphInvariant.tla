--------------------------- MODULE GraphInvariant ---------------------------
(***************************************************************************)
(* The inductive invariant of GraphStore, in named parts.                  *)
(*                                                                         *)
(* Integrity, links and answers hold whatever the passes leave out.  What  *)
(* a row that stays unresolved waits for is part of the invariant, since   *)
(* the next incremental pass finds a file only by what its rows say.       *)
(***************************************************************************)
EXTENDS GraphStore

\* What a file can export.
Exportable == {"class", "function", "interface"}

Using(f, r) == r.kind = "imports" /\ Language[f] = "csharp"
\* A name imported or exported from a module of the project.
FromModule(f, r) ==
  /\ r.kind \in ModuleUses /\ r.binding \notin {"*", "local"} /\ r.text \in DOMAIN Tries
  /\ ~Using(f, r)

\* Reference r of file f, whose text is t, may mean symbol s.
Meant(f, t, r, s) ==
  \/ s \in SameFile(f, t, r)
  \/ /\ SameFile(f, t, r) = {} /\ r.binding = "local" /\ r.kind # "exports"
     /\ s.name = r.text /\ SameDomain(Language[f], Language[s.file])
     /\ s.kind \in Accepts(Language[f], r.kind)
  \/ Using(f, r) /\ s.kind = "namespace" /\ s.name = r.text /\ Language[s.file] = "csharp"
  \/ FromModule(f, r) /\ s.name = r.binding /\ s.kind \in Exportable

-----------------------------------------------------------------------------
\* What every pass keeps.

\* An edge stands for a reference of the text its file has, and its target is
\* one that the reference may mean.
Fits(e) ==
  LET f == e.source.file
  IN /\ f \in Stored /\ e.ref \in Refers[stored[f]] /\ e.source = SourceOf(f, stored[f], e.ref)
     /\ e.to \in symbols => Meant(f, stored[f], e.ref, e.to) /\ e.kind = EdgeKind(e.ref, e.to)
EdgesFit == \A e \in edges : Fits(e)

\* Every reference is linked or recorded as unresolved.
Answered ==
  \A f \in Stored : \A r \in Refers[stored[f]] : EdgesOf(f, r) # {} \/ OpenFor(f, r) # {}

\* An export statement is linked to what it exports: the edges by which the
\* store remembers a file's exports.
ExportsLinked ==
  \A f \in Stored : \A r \in Refers[stored[f]] : r.kind = "exports" =>
    \A s \in SameFile(f, stored[f], r) : \E e \in EdgesOf(f, r) : e.to = s

\* A batch creates what is not indexed and modifies what is.
Batched ==
  /\ batch.created \cap Stored = {} /\ Modified \subseteq Stored
  /\ Written \cap batch.deleted = {}

-----------------------------------------------------------------------------
\* What thorough passes keep: a row says what its reference waits for.

Rows(f, r) == {u \in unresolved : u.source = SourceOf(f, stored[f], r)}

\* A row that found no module: none is indexed that an incremental pass would
\* have noticed.
NoModule ==
  ~missed => \A u \in unresolved : u.reason = "no module" =>
    u.text \in DOMAIN Tries /\ Unheard(u.text)

\* A name that is not linked has a row under that name, so that whoever declares
\* it finds the file.
AwaitsName ==
  ~missed => \A f \in Stored : \A r \in Refers[stored[f]] :
    EdgesOf(f, r) = {} /\ r.binding = "local" /\ r.kind # "exports" =>
      \E u \in Rows(f, r) :
        /\ u.text = r.text /\ u.kind = r.kind
        /\ Candidates(f, r, StoredTable) = {} \/ u.reason = "ambiguous"

\* Specifiers denote TypeScript files, whose exports the store can tell.
TypeScriptModules ==
  \A p \in DOMAIN Tries : \A i \in DOMAIN Tries[p] : Language[Tries[p][i]] = "typescript"

\* An import that is not linked waits for a module, or for a name that the
\* module it denotes does not export, unless that module was uncovered.
LacksExport(r) ==
  {s \in StoredTable.exports : s.file = FindFile(r.text, Stored) /\ s.name = r.binding} = {}
AwaitsModule(u, f, r) ==
  /\ u.kind = r.kind
  /\ \/ u.text = r.text /\ u.reason = "no module"
     \/ /\ r.binding \in Names /\ u.text = r.binding
        /\ LacksExport(r) \/ <<f, r.text>> \in uncovered
AwaitsExport ==
  ~missed /\ TypeScriptModules => \A f \in Stored : \A r \in Refers[stored[f]] :
    EdgesOf(f, r) = {} /\ r.binding # "local" /\ r.text \in DOMAIN Tries =>
      \E u \in Rows(f, r) : AwaitsModule(u, f, r)

-----------------------------------------------------------------------------
\* The parts that speak of the tables only.
TablesInv ==
  /\ ReferentialIntegrity /\ EdgesFit /\ Answered /\ ExportsLinked
  /\ NoModule /\ AwaitsName /\ AwaitsExport /\ UsingIsComplete

IInv == TypeOK /\ Batched /\ TablesInv
=============================================================================
