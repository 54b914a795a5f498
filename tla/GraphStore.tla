----------------------------- MODULE GraphStore -----------------------------
(***************************************************************************)
(* The symbols, relationships and unresolved_references tables and the two *)
(* ways they are brought up to date: apply_via_full_reindex replaces them, *)
(* apply_incremental_changes re-analyses the changed files and those that  *)
(* depend on them (crates/codekurve/src/incremental.rs, commands.rs and    *)
(* crates/codekurve-store/src/repo.rs).                                    *)
(*                                                                         *)
(* Hashes, stamps, the pending count and unverified files are in           *)
(* ProjectIndex; here a file has changed when its text differs from the    *)
(* stored one.  An unresolved row is identified by its source symbol, kind *)
(* and target text, as its id is but for the ordinal of identical rows.    *)
(***************************************************************************)
EXTENDS Resolver

CONSTANTS
  EndsIn,        \* relative or aliased specifier -> the files in whose
                 \* module_stem its text ends
  Versions,      \* file -> the texts an editor may give it
  Flaky,         \* files whose read may fail although they exist
  ThresholdPct,  \* full_reindex_threshold_pct
  MaxEdits       \* bound: changes of files on disk

\* Nothing ties it to Tries: './lib/index' denotes lib/index.ts and does not end
\* in "lib", './a/lib' ends in it and denotes another file.
ASSUME EndsInAssumption == EndsIn \in [DOMAIN Tries -> SUBSET Files]
ASSUME VersionsAssumption == Versions \in [Files -> SUBSET Texts]
ASSUME FlakyAssumption == Flaky \subseteq Files
ASSUME BoundsAssumption == ThresholdPct \in Nat /\ MaxEdits \in Nat

VARIABLES
  disk,       \* file -> text, or Absent
  edits,      \* changes made to it, at most MaxEdits
  stored,     \* files table: file -> the text indexed (its content_hash), or Absent
  symbols,    \* symbols table
  edges,      \* relationships table
  unresolved, \* unresolved_references table
  batch,      \* what detect returned and is not yet applied, or NoBatch
  missed,     \* history: since the last full reindex an incremental pass has
              \* skipped a dependent or read one newer than its stored text
  uncovered   \* history: pairs of a file and a specifier; since the file was
              \* last read, the module that the specifier denoted was deleted

tables  == <<stored, symbols, edges, unresolved>>
history == <<missed, uncovered>>
vars    == <<disk, edits, tables, batch, history>>

Stored   == {f \in Files : stored[f] # Absent}
OnDisk   == {f \in Files : disk[f] # Absent}
Contents == Texts \cup {Absent}

Reasons  == {"no match", "ambiguous", "no module", "not exported", "not declared here",
             "file deleted", "symbol removed"}
Edges    == [source : Symbols, ref : References, kind : RefKinds,
             to : Symbols \cup {External, NoTarget},
             confidence : {"exact", "high", "medium", "low"}]
OpenRows == [source : Symbols, kind : RefKinds, text : Names \cup Specifiers,
             reason : Reasons]
Batches  == [modified : [Files -> Contents], created : SUBSET Files, deleted : SUBSET Files]
NoBatch  == [modified |-> [f \in Files |-> Absent], created |-> {}, deleted |-> {}]

TypeOK ==
  /\ disk \in [Files -> Contents] /\ stored \in [Files -> Contents]
  /\ edits \in 0 .. MaxEdits
  /\ symbols \subseteq Symbols /\ edges \subseteq Edges /\ unresolved \subseteq OpenRows
  /\ batch \in Batches
  /\ missed \in BOOLEAN /\ uncovered \subseteq Files \X Specifiers

Init ==
  /\ disk \in {d \in [Files -> Contents] : \A f \in Files : d[f] \in Versions[f] \cup {Absent}}
  /\ edits = 0
  /\ stored = [f \in Files |-> Absent]
  /\ symbols = {} /\ edges = {} /\ unresolved = {}
  /\ batch = NoBatch /\ missed = FALSE /\ uncovered = {}

\* The environment writes, creates or removes a file.
Edit(f, t) ==
  /\ edits < MaxEdits /\ disk[f] # t
  /\ disk' = [disk EXCEPT ![f] = t] /\ edits' = edits + 1
  /\ UNCHANGED <<tables, batch, history>>

-----------------------------------------------------------------------------
\* detect.  A modified file carries the read that told it had changed, a
\* created one is read when the batch is applied.
Detect ==
  /\ batch = NoBatch /\ disk # stored
  /\ batch' = [modified |-> [f \in Files |-> IF f \in Stored /\ disk[f] # stored[f]
                                             THEN disk[f] ELSE Absent],
               created  |-> OnDisk \ Stored,
               deleted  |-> Stored \ OnDisk]
  /\ UNCHANGED <<disk, edits, tables, history>>

Modified == {f \in Files : batch.modified[f] # Absent}
Written == Modified \cup batch.created
Changed == Written \cup batch.deleted

IsOversized ==
  Stored = {} \/ Cardinality(Changed) * 100 > Cardinality(Stored) * ThresholdPct

-----------------------------------------------------------------------------
\* apply_via_full_reindex.

\* A full pass that reads all files but those in bad.
Analysed(bad) == [f \in OnDisk \ bad |-> disk[f]]

\* reindex: every table is replaced in one transaction.
Reindex(analyses) ==
  LET rows == Resolve(analyses, EmptyBaseline)
  IN /\ stored' = [f \in Files |-> IF f \in DOMAIN analyses THEN analyses[f] ELSE Absent]
     /\ symbols' = UNION {SymbolsOf(f, analyses[f]) : f \in DOMAIN analyses}
     /\ edges' = rows.edges /\ unresolved' = rows.unresolved

\* Forced, or the batch is oversized.
FullPass(bad) ==
  /\ batch = NoBatch \/ IsOversized
  /\ bad \cap Stored = {}
  /\ Reindex(Analysed(bad))
  /\ batch' = NoBatch /\ missed' = FALSE /\ uncovered' = {}
  /\ UNCHANGED <<disk, edits>>

\* A file that is indexed could not be read: the pass fails, the index stays.
FullPassRefused(bad) ==
  /\ batch = NoBatch \/ IsOversized
  /\ bad \cap Stored # {}
  /\ batch' = NoBatch
  /\ UNCHANGED <<disk, edits, tables, history>>

-----------------------------------------------------------------------------
\* apply_incremental_changes: which files to read again.

WrittenTexts == [f \in Written |-> IF f \in batch.created THEN disk[f] ELSE batch.modified[f]]
WrittenSymbols == UNION {Declared(f, WrittenTexts[f]) : f \in Written}

ByTargetSymbol ==
  {e.source.file : e \in {x \in edges : x.to \in symbols /\ x.to.file \in Changed}}
\* Mutant: only created files add names.
ByUnresolvedTargetCreated ==
  {u.source.file : u \in {x \in unresolved :
     \E s \in WrittenSymbols : s.file \in batch.created /\ s.name = x.text}}
ByUnresolvedTarget ==
  {u.source.file : u \in {x \in unresolved : \E s \in WrittenSymbols : s.name = x.text}}
\* Mutant: a namespace is new only if no file declares it yet.
NewNamespacesUnheard ==
  {s.name : s \in {x \in WrittenSymbols : x.kind = "namespace"
                      /\ \A y \in symbols : y.kind = "namespace" => y.name # x.name}}
NewNamespaces ==
  {s.name : s \in {x \in WrittenSymbols : x.kind = "namespace" /\ x \notin symbols}}
ByNamespace ==
  {e.source.file : e \in {x \in edges : x.kind = "imports" /\ x.to \in symbols
                                          /\ x.to.kind = "namespace"
                                          /\ x.to.name \in NewNamespaces}}
\* dependents_by_unresolved_module: the text of the specifier ends in the
\* module_stem of a created file, whether or not it denotes that file.
ByUnresolvedModule ==
  {u.source.file : u \in {x \in unresolved :
     x.reason = "no module" /\ EndsIn[x.text] \cap batch.created # {}}}

Dependents ==
  (ByTargetSymbol \cup ByUnresolvedTarget \cup ByNamespace \cup ByUnresolvedModule) \ Changed

\* resolution_snapshot, without the files in excluded.  A stored symbol counts
\* as exported by an edge of kind exports to it, or as a TypeScript declaration.
ExportedInStore(s) ==
  \/ \E e \in edges : e.kind = "exports" /\ e.to = s
  \/ Language[s.file] = "typescript" /\ TopLevelDeclaration(s)
Baseline(excluded) ==
  LET kept == {s \in symbols : s.kind # Module /\ s.file \notin excluded}
  IN [symbols |-> kept, exports |-> {s \in kept : ExportedInStore(s)},
      files |-> Stored \ excluded]

-----------------------------------------------------------------------------
\* apply_incremental: the transaction.  db is the three tables in a record.

Tables == [symbols |-> symbols, edges |-> edges, unresolved |-> unresolved]

Inbound(files, db) ==
  {e \in db.edges : e.to \in db.symbols /\ e.to.file \in files /\ e.source.file \notin files}

\* park_inbound_edges; a reference that is parked already is kept as it is.
Park(inbound, open, reason) ==
  open \cup {u \in {[source |-> e.source, kind |-> e.kind, text |-> e.to.name,
                     reason |-> reason] : e \in inbound} :
               \A x \in open : <<x.source, x.kind, x.text>> # <<u.source, u.kind, u.text>>}

\* Mutant: the parked edges are not deleted.
DeleteFilesParkOnly(files, db) ==
  [symbols    |-> {s \in db.symbols : s.file \notin files},
   edges      |-> {e \in db.edges : e.source.file \notin files},
   unresolved |-> {u \in Park(Inbound(files, db), db.unresolved, "file deleted") :
                     u.source.file \notin files}]
\* delete_file, for each of the deleted files.
DeleteFiles(files, db) ==
  LET inbound == Inbound(files, db)
  IN [symbols    |-> {s \in db.symbols : s.file \notin files},
      edges      |-> {e \in db.edges \ inbound : e.source.file \notin files},
      unresolved |-> {u \in Park(inbound, db.unresolved, "file deleted") :
                        u.source.file \notin files}]

\* delete_file_owned_relationships, for every file of the batch before any of
\* its symbols goes.
DeleteOwnedRows(files, db) ==
  [db EXCEPT !.edges = {e \in @ : e.source.file \notin files},
             !.unresolved = {u \in @ : u.source.file \notin files}]

\* Mutant: every inbound edge is parked, whether or not its target comes back.
ReplaceSymbolsParkAll(analyses, db) ==
  LET files   == DOMAIN analyses
      inbound == Inbound(files, db)
  IN [symbols    |-> {s \in db.symbols : s.file \notin files}
                       \cup UNION {SymbolsOf(f, analyses[f]) : f \in files},
      edges      |-> db.edges \ inbound,
      unresolved |-> Park(inbound, db.unresolved, "symbol removed")]
\* The batch's symbols are deleted and inserted again; an edge of another file
\* is parked only when its target does not come back.
ReplaceSymbols(analyses, db) ==
  LET files   == DOMAIN analyses
      inbound == Inbound(files, db)
      now     == {s \in db.symbols : s.file \notin files}
                   \cup UNION {SymbolsOf(f, analyses[f]) : f \in files}
      gone    == {e \in inbound : e.to \notin now}
  IN [symbols    |-> now,
      edges      |-> db.edges \ gone,
      unresolved |-> Park(gone, db.unresolved, "symbol removed")]

ApplyIncremental(analyses, deleted, rows) ==
  LET db == ReplaceSymbols(analyses,
              DeleteOwnedRows(DOMAIN analyses, DeleteFiles(deleted, Tables)))
  IN /\ symbols' = db.symbols
     /\ edges' = db.edges \cup rows.edges
     /\ unresolved' = db.unresolved \cup rows.unresolved
     /\ stored' = [f \in Files |-> IF f \in DOMAIN analyses THEN analyses[f]
                                   ELSE IF f \in deleted THEN Absent ELSE stored[f]]

\* The modules of these specifiers go.
Uncovers == {p \in DOMAIN Tries : FindFile(p, Stored) \in batch.deleted}

\* The dependents in skipped could not be read: they are left as stored, but
\* the baseline excludes them all the same.
IncrementalPass(skipped) ==
  LET reread   == Dependents \ skipped
      analyses == [f \in Written \cup reread |->
                     IF f \in Written THEN WrittenTexts[f] ELSE disk[f]]
      rows     == Resolve(analyses, Baseline(Changed \cup Dependents))
  IN /\ batch # NoBatch /\ ~IsOversized
     /\ batch.created \subseteq OnDisk
     /\ skipped \subseteq Dependents
     /\ Dependents \ OnDisk \subseteq skipped /\ skipped \subseteq Flaky \cup (Files \ OnDisk)
     /\ ApplyIncremental(analyses, batch.deleted, rows)
     /\ batch' = NoBatch
     /\ missed' = (missed \/ skipped # {} \/ \E f \in reread : disk[f] # stored[f])
     /\ uncovered' = {x \in uncovered \cup (Stored \X Uncovers) : x[1] \notin DOMAIN analyses}
     /\ UNCHANGED <<disk, edits>>

\* A created file cannot be read any more: the batch fails.
IncrementalFails ==
  /\ batch # NoBatch /\ ~IsOversized
  /\ batch.created \cap ((Files \ OnDisk) \cup Flaky) # {}
  /\ batch' = NoBatch
  /\ UNCHANGED <<disk, edits, tables, history>>

Next ==
  \/ \E f \in Files : \E t \in Versions[f] \cup {Absent} : Edit(f, t)
  \/ Detect
  \/ \E bad \in SUBSET (Flaky \cap OnDisk) : FullPass(bad) \/ FullPassRefused(bad)
  \/ \E skipped \in SUBSET (Flaky \cup (Files \ OnDisk)) : IncrementalPass(skipped)
  \/ IncrementalFails

Spec == Init /\ [][Next]_vars

-----------------------------------------------------------------------------
\* Correctness.

\* The symbols table is what the indexed texts declare, and no row outlives the
\* symbols it names: deleting in the order of apply_incremental leaves no
\* dangling row, whatever files of a batch refer to each other.
ReferentialIntegrity ==
  /\ symbols = UNION {SymbolsOf(f, stored[f]) : f \in Stored}
  /\ \A e \in edges : e.source \in symbols /\ e.to \in symbols \cup {External, NoTarget}
  /\ \A u \in unresolved : u.source \in symbols

StoredTable  == SymbolTable([f \in Stored |-> stored[f]], EmptyBaseline)
EdgesOf(f, r) == {e \in edges : e.source.file = f /\ e.ref = r}
OpenFor(f, r) ==
  {u \in unresolved : /\ u.source = SourceOf(f, stored[f], r)
                      /\ \/ u.kind = r.kind
                         \/ r.kind = "base_entry" /\ u.kind \in {"inherits", "implements"}
                      /\ u.text \in {r.text, r.binding}}

\* What an import or a re-export asks for is there: the module that its
\* specifier denotes, exporting the name.
Offered(r) ==
  LET module == FindFile(r.text, Stored)
  IN /\ module # Absent
     /\ r.binding = "*" \/ \E s \in StoredTable.exports : s.file = module /\ s.name = r.binding

\* No file that the specifier may denote is indexed, but for those in whose
\* module_stem it does not end.
Unheard(p) ==
  \A i \in DOMAIN Tries[p] : Tries[p][i] \in Stored => Tries[p][i] \notin EndsIn[p]

\* Two ways in which an incremental pass does not notice: the module came after
\* the import and the specifier does not end in its module_stem, or it was
\* hidden by one with precedence until that was deleted.
Overlooked(f, r) ==
  \/ Unheard(r.text) /\ \E u \in OpenFor(f, r) : u.reason = "no module"
  \/ <<f, r.text>> \in uncovered

\* A name stays unresolved only while the project has nothing that it may mean,
\* or was found to have too much; an import stays unresolved only while the
\* module it denotes is missing or does not export the name, or was overlooked
\* (openspec/specs/relationship-graph/spec.md, unresolved references, which
\* allows neither the second case nor the fourth).
UnresolvedIsUnmatched ==
  ~missed => \A f \in Stored : \A r \in Refers[stored[f]] : EdgesOf(f, r) = {} =>
    /\ r.binding = "local" /\ r.kind # "exports" =>
         \/ Candidates(f, r, StoredTable) = {}
         \/ \E u \in OpenFor(f, r) : u.reason = "ambiguous"
    /\ r.binding # "local" /\ r.text \in DOMAIN Tries => ~Offered(r) \/ Overlooked(f, r)

\* A using that is linked to a namespace is linked to every file that declares
\* it, also to those indexed later (dependents_by_namespace).
UsingIsComplete ==
  ~missed => \A e \in edges :
    e.kind = "imports" /\ e.to \in symbols /\ e.to.kind = "namespace" =>
      \A s \in Namespaces(e.to.name, symbols) : \E x \in EdgesOf(e.source.file, e.ref) : x.to = s

\* The store implements the abstract index, whatever mixture of full and
\* incremental passes maintains it.
Index == INSTANCE ReferenceIndex WITH
  contents <- stored,
  links    <- {[file |-> e.source.file, ref |-> e.ref, to |-> e.to] :
                 e \in {x \in edges : x.to \in symbols}},
  linked   <- {[file |-> e.source.file, ref |-> e.ref] : e \in edges},
  open     <- UNION {{[file |-> f, ref |-> r] :
                        r \in {x \in Refers[stored[f]] : OpenFor(f, x) # {}}} : f \in Stored}
Implements == Index!Spec
=============================================================================
