# CodeKurve in TLA+

CodeKurve indexes a source tree into an SQLite graph of symbols and
relationships and answers questions about it (`trace`, `impact`, `references`,
an MCP server, a terminal explorer).  This directory holds TLA+ modules that
model its core, the TLC configurations that check them, and theorems about
them that the TLA+ proof system checks.  A file name without a directory is that
of the one file of this name below `src/crates`.

## The system and its parts

| part | state it keeps | operations | interacts with |
|---|---|---|---|
| change engine, `incremental.rs` | none of its own between calls | `detect`, `apply_batch` | reads the project's files, reads and writes the store; called by the watcher, by `index` and by the MCP tool `codekurve_reindex` |
| watcher, `watch.rs` | the loaded configuration and connection, the event channel, the pending set, the retry count | `run`, `reconcile`, `apply_flush`, `debounce_loop` | receives events from the system, starts passes of the engine |
| index command, `commands.rs` | none | `setup_index`, `index`, `status`, edge builders | starts one pass, compares and stamps the analysis fingerprint |
| store, `codekurve-store/src/repo.rs` | tables `files`, `symbols`, `relationships`, `unresolved_references`, `index_state`, `projects` | `reindex`, `apply_incremental`, `touch_files`, `set_pending_files`, `mark_verified`, queries | written by the engine, read by every query |
| discovery, `codekurve-analysis/src/discovery.rs` | none | `discover_report`, `discover_report_for` | walks the project for `detect` and for the full reindex |
| resolver, `codekurve-analysis/src/resolve.rs` | none | `resolve_with` | turns by-name references into edges, from the batch and the stored baseline |
| traversal, `codekurve-store/src/traverse.rs` | a search's queue, visited set and caps | `bfs` | reads relationships one node at a time |
| MCP server, `codekurve-mcp` | one session (connection) under a mutex, the reindex gate | `call_tool`, `blocking`, `lock_session`, `reopen_if_not_indexed` | queries and, if allowed, the engine |
| query session, `query.rs` | a connection, possibly read-only | `Session::open`, queries | the store |
| connection and migrations, `db.rs`, `migrations.rs` | the schema version | `open`, `apply` | every process that opens the database |
| extractors, `codekurve-analysis/src/languages`, `frameworks` | none; the walk's scope stack, symbols, edges and deferred targets while it runs | source text to the intermediate form | the engine |
| installer and updater, `install.rs`, `update.rs`, `codekurve-tui/src/picker.rs` | the clients' configuration files and their backups | `apply`, `install_named`, `install_detected`, `uninstall`, `safe_write`, the picker | shares the files with their owners and with other commands |
| explorer, `codekurve-tui/src/explorer.rs` | the query, lists, selection, panel and back stack on screen | keys, `refresh` | queries an index that others replace |
| export, command line | none | - | - |

### Hard behaviours, and the property that makes each part correct

* **Engine and watcher.**  The program is single-threaded here, but the files
  are not its own.  A file is listed, stat'ed, read and committed at four
  different times, and somebody may write it in every gap.  A pass may fail at
  any step, the process may die at any step.  Correct means: no change is
  forgotten (`NoLostChange`, `Settles`), the size-and-mtime fast path never
  hides one (`FastPathSound`), an index that claims to be fresh was verified
  (`HonestPass`), nothing is rolled back (`NoRollback`), and a change of the
  configuration makes every row new again (`ForcedPassReanalyses`,
  `StampHonest`).
* **Graph store and resolver.**  An incremental batch must lose no reference:
  each one of an indexed file is linked or recorded as open, a link that need
  not go stays, and one that waits for a name is found when the name appears
  (`Implements`, `UnresolvedIsUnmatched`, `UsingIsComplete`).  Dependents,
  inbound edges from outside the batch and the order of deletes decide this
  (`ReferentialIntegrity`).
* **Extractors.**  Edges and declarations are collected in one walk and tied
  together by local keys after it.  Correct means: the keys that name rows are
  unique and do not move (`KeysUnique`, `KeysStable`), a member hangs below the
  declaration it is written in (`ContainmentIsLexical`), every target that may
  be meant is linked (`EveryCandidateLinked`), no edge hangs from nothing
  (`OnlyFieldsDangle`), and a role is worn by whoever earned it
  (`RolesAreEarned`).
* **Traversal.**  A search that does not say it was truncated must be
  complete, and a reported path must be shortest.
* **MCP server.**  Every call gets an answer, a panic of one body leaves the
  next one a usable session in the mode the server was started with, and the
  only runtime thread is never held up by a body.
* **Queries.**  An answer is put together from several statements and file
  reads.  Source that is shown is the symbol's own (`SliceIsOwn`), the pages of
  a listing have every row once (`PagesTile`) and come to an end
  (`ListingEnds`).
* **Several processes.**  Two processes that open an old database at once leave
  it migrated once (`SchemaIsRecorded`, `WipedOnce`, `Opens`); two passes over
  one file leave a row of one version of it (`RowIsOneVersion`).
* **Installer.**  Nothing its owner wrote is lost (`SiblingsKept`), what was
  replaced can be rolled back (`RollbackPossible`), "ok" means done
  (`OkMeansDone`), nothing is left lying around (`NoLitter`).
* **Explorer.**  The walk on the right belongs to the row on the left
  (`WalkStartsAtSelection`), a cursor is on its list (`SelectionOnList`), and
  the screen does not reload for ever (`PanelSettled`).

`PROJECT.json` lists the hazards line by line.

## Modules

| module | models |
|---|---|
| `ProjectIndex` | the project on disk, the index database, and one pass of the change engine over them |
| `Watch` | EXTENDS `ProjectIndex`: the processes `watch` and `index`, the event queue, the debounce loop, configuration reload, crash and restart; the properties |
| `WatchInvariant` | EXTENDS `Watch`: the inductive invariant |
| `WatchProofs` | EXTENDS `WatchInvariant` and TLAPS: the theorems |
| `MCWatch` | EXTENDS `WatchInvariant`: values for TLC |
| `Traverse` | the bounded search `bfs` over a graph that others may change meanwhile; its properties |
| `TraverseProofs` | EXTENDS `Traverse` and TLAPS: its inductive invariant and theorems |
| `McpServer` | the MCP server: the runtime's thread, the pool, the mutex and the session behind it, over a project that others change; its properties |
| `MCMcpServer` | EXTENDS `McpServer` for TLC |
| `MCTraverse` | EXTENDS `Traverse`: a graph, queries and caps for TLC |
| `Resolver` | name resolution: the tiers and the exports table as operators over declarations and references |
| `ReferenceIndex` | EXTENDS `Resolver`: the abstract specification of what the store promises about references |
| `GraphStore` | EXTENDS `Resolver`: the three tables, full and incremental passes over them; implements `ReferenceIndex` |
| `GraphInvariant` | EXTENDS `GraphStore`: its inductive invariant |
| `GraphStoreProofs` | EXTENDS `GraphInvariant` and TLAPS: the theorems, the refinement among them |
| `MCGraph` | EXTENDS `GraphStore`: a sample project for TLC |
| `Extraction` | what the two analyzers share: keys, scopes, deferred targets, the duplicates' ordinals |
| `CSharp`, `TypeScript` | EXTEND `Extraction`: the walk of each language |
| `Frameworks` | EXTENDS `Extraction`: the recognizers for ASP.NET, Azure Functions, EF Core and Angular |
| `Extractor` | EXTENDS the three above: one file's analysis from first node to result; its properties |
| `ExtractorInvariant` | EXTENDS `Extractor`: its inductive invariant |
| `ExtractorProofs` | EXTENDS `ExtractorInvariant` and TLAPS: the theorems |
| `MCExtract` | EXTENDS `ExtractorInvariant` for TLC |
| `Writers` | several processes that open, migrate and index one database |
| `WritersProofs` | EXTENDS `Writers` and TLAPS: its inductive invariant and theorems |
| `Queries` | `get_symbol` and paged listings over an index that another process changes |
| `ServingProofs` | EXTENDS `McpServer`, `Queries` and TLAPS: the inductive invariant and theorems of either |
| `MCQueries` | EXTENDS `Queries` for TLC |
| `Installer`, `MCInstaller` | `install` and `uninstall` over the clients' files; values for TLC |
| `InstallerProofs` | EXTENDS `Installer` and TLAPS: its inductive invariant and theorems |
| `Explorer`, `MCExplorer` | the terminal explorer; a small index for TLC |
| `ExplorerProofs` | EXTENDS `Explorer` and TLAPS: its inductive invariant and theorems |

### How state corresponds to code

* `disk`, `access`, `diskCfg`, `clock` are the environment: for each file its
  current version (content and mtime) or `Absent`, whether it can be read and
  whether its directory can be walked, and the configuration files
  (`.codekurve/config.toml`, `tsconfig.json`) as one value: what
  `analysis_fingerprint` hashes.
* `rows`, `mark`, `stamp` are the database: for each file the version it was
  indexed at and the configuration used, `index_state.pending_files`, and
  `projects.analyzer_version`.
* `phase` and the variables after it are the locals of a running pass.
  `bytes` is what a `FileChange` carries: a `Modified` change its stable read,
  a `Touched` one the mtime `detect` compared.  `staged` is what has been read
  and analysed and waits for T2.
* `life`, `reload`, `events`, `pending`, `retries` are the watcher.
* `moved`, `missed`, `blind`, `gaveUp`, `former` (configurations that were edited
  away), `overlooked` (what the last stamped forced pass could not look at) and
  the counters are history: the program never reads them.

### How actions correspond to code

A pass is `Walk` (discovery), `Stat` and `Classify` (`detect`), `TouchRow`
once per touched file (`touch_files` commits row by row), `Publish` (T1),
`ReadBatch` or `ReadProject` (`apply_incremental_changes` or
`apply_via_full_reindex` up to their transaction), `Commit` (T2 with
`mark_verified`), `Record` (`record_unverified`) and, in a reconcile, `Stamp`.
`TooManyFiles`, `ReadFails`, `Fails` and `StampFails` are the error returns.
The watcher's steps are `Register`, `Receive`, `FlushPaths`, `FlushConfig`,
`Finish` (`Flush::Done`), `Failed` (`Flush::Retry`, or the end of the process
outside the loop), `Fatal` and `ReloadFails`.  `Environment` may act between
any two of them, `Crash` too.

`Traverse` stands by itself: `links` is the `relationships` table, the other
variables are the locals of `bfs`.  Each turn of the loop over the queue is
`PopDeep` or `Pop`, each turn of the loop over a symbol's edges one of
`Expire`, `Filter`, `OverEdges`, `Revisit`, `OverNodes`, `Reach`, in the order
of the code's tests; `NextNode` and `End` leave the loops.  `LazyAdjacency`
reads one symbol's edges per statement and outside a transaction, so `Commit`
may change the table between any two turns; `ever` and `always` record which
edges existed at some time and all the time.

`McpServer` also stands by itself.  `thread` and `holder` say whose
`reopen_if_not_indexed` occupies the runtime's thread and whose body holds the
mutex.  A call goes through `Receive`, `Dispatch` (or `Reject`), `Reopen`, all
on the runtime's thread; then on a thread of the pool through `Lock`,
`LockRecovers` or `LockFails` (`lock_session`), its body (`Query`, or `Reindex`
and `ReopenReindexed`, or a failure, or `Panic` at any point), and last through
`Reply` on the runtime's thread again.  `Change` is everybody else.

`GraphStore` has the tables `stored`, `symbols`, `edges`, `unresolved`.
`Detect` returns a batch, which `IncrementalPass` or `FullPass` applies to what
the disk holds by then; `IncrementalFails` and `FullPassRefused` are the error
returns.  `Dependents` is the union of the code's four look-ups, `Baseline` the
rest of the index they are resolved against, and `ApplyIncremental` the
transaction on the `Tables`, in the code's order: park
or drop the inbound edges of deleted files, delete what the batch owns, insert,
restore or park the rest.  A text is a constant: `Declares` and `Refers` say
what it declares and refers to, `Tries` which files an import specifier may
mean, in order, and `EndsIn` the files in whose `module_stem` it ends, which is
how `dependents_by_unresolved_module` finds the importers of a created file.
The two are independent: `./lib/index` denotes `lib/index.ts` and ends in
`index`, while the file's stem is `lib`.  `missed` and `uncovered` are history:
a dependent was skipped; the module that a specifier denoted was deleted after
the importing file was read.  `Resolve` is `resolve_with`, one operator per tier.

`Extractor` walks every tree within its bounds: each action is a node the walk
may meet inside the declaration that is open, and pushes what the code pushes.
`Finish` is the end of `analyze`: `resolve_pending`, the framework recognizers,
and `disambiguate_duplicate_keys`, in that order.

`Writers` follows each process through `Open`, `Migrate` (one transaction per
version, decided on a version read before), `Opened`, and a pass: `Detect`,
`Stat`, the two halves of a read between two stats (`ReadBefore`, `ReadHead`,
`ReadTail`, `ReadAfter`), `TouchRow`, `Publish`, `Commit`, `Record`.  This is
the `read_stable` that `ProjectIndex` takes as one step, and the second process
that `Watch` leaves out.

`Queries` follows one call through its statements: the row, the warnings, the
stored hash, the file's size, its bytes; or the resolution of the name, the
rows, the count.  `listing` is the client's, who asks for the next page while
told there is one.

`Installer` runs up to two commands at once, each as far as `stage` says:
picker and confirmation, then for each client the read, the backup (copy and
rename), the write (temporary file and rename).  `authored` remembers what the
owner last wrote.

`Explorer` alternates a key (`phase = "key"`) with `refresh`, one load per step.

### Abstractions

* *Data.*  A content is a number, a row stands for everything indexed from one
  file.  The relationships between files are the graph store's subject; here
  the dependents `D` of a batch are any set of stored files outside it.
* *Time.*  Every change gets a new mtime.  Two writes within one tick of the
  file system's clock with equal sizes are a known limit of every
  size-and-mtime fast path and are left out; so are clocks that run backwards.
* *Reads.*  `read_stable` is one step.  It returns one version of the file or
  fails; a read that keeps racing a writer counts as unreadable.
* *Granularity.*  All files of a pass are walked in one step, stat'ed in one
  step and read in one step.  Between the steps each file may change.  In the
  code each file has its own walk, stat and read; what a step learns of one
  file does not depend on the others, and every property here speaks of one
  file at a time, so an order of the code's reads can be rearranged into the
  model's without changing what is learned of any single file.
* *Timers.*  The quiet window, the hard cap and the backoff only say when a
  timeout may come; here it may come whenever the loop waits.
* *Events.*  A registered watcher is told of each change, by its path or by a
  request to rescan; `event_paths` filters only noise.  Delivery is not lossy
  without such a request: that is the contract of `notify`.
* *Processes.*  In `Watch` one at a time: a watcher or an `index` run.
  `Writers` has two, seen from one file.
* *Server.*  Opening a session is one step: it happens under the mutex, and
  what it finds of the project is decided at one point.  `PRAGMA query_only`
  does not fail.  What a query reads from the session's connection is not
  modelled, nor which database that connection belongs to.
* *Search.*  A relationship is an edge that the caller's filters allow or do
  not; kinds and confidences are not told apart further.  The edges of one
  symbol are examined in any order (the code takes row order).
  `max_duration` may pass at any edge.
* *Texts.*  In `GraphStore` a text declares a name at most once per kind, and
  files that cannot be verified are `ProjectIndex`'s; a dependent may still fail
  to be read (`Flaky`).  In `Extraction` a name is one segment and a signature
  one of two prints; route texts, reasons, spans, the marker prefilter, record
  classes and nested route children are left out.
* *Slices.*  In `Queries` a span is known by the text it was taken from and ends
  with its file; containment of paths and the cut at a character boundary are
  decided by one path or one snippet and left out.
* *Exports.*  `Resolver` links an import to every exported symbol of its name;
  the code's table keeps one per file and name (`resolve.rs:159`), the last of an
  export statement's before a top-level declaration.  They differ where a file
  exports a class and an interface under one name.
* *Installer.*  A configuration is the set of its servers and whether ours is
  among them; a text that does not parse and one whose servers key is no object
  are two more values.  Bytes are not modelled: an owner's text that is not UTF-8
  is read with `from_utf8_lossy` (`install.rs:601`, 671, 755, 817, 853) and
  written back with the invalid bytes replaced.
* *Explorer.*  Lists of at most two rows; drawing is left out.

## Runs

| run | instance | shows |
|---|---|---|
| `watch_files` | 2 files, all three kinds of access, 3 changes, 1 retry, a crash and a second start | `TypeOK`, `NoLostChange`, `FastPathSound`, `HonestPass`, `NoRollback` |
| `watch_config` | 2 files with a cap of 1, 2 configurations edited back and forth, files that cannot be read, 2 changes, 2 retries, an error, a crash and a second start, fair | `ForcedPassReanalyses`, `StampHonest`, `Settles` |
| `mcp` | 3 calls, each a query or a reindex, with and without `allow_reindex`, 2 changes of the project, fair | `NoBodyOnSuspect`, `ReadOnlyUntilPanic`, `LaterIndexPickedUp`, `EveryCallAnswered` |
| `traverse` | 5 symbols, every subset of 8 edges with two cycles and a filtered edge, 3 queries, 5 settings of the caps, 2 commits | `CompleteUnlessTruncated`, `DepthIsDistance`, `PathIsReal`, `WithinCaps` |
| `graph` | 5 files, 10 texts in TypeScript and C#, two relative specifiers (one with two candidates, one that does not end in its module's stem), 3 edits, one name too ambiguous with 2 bearers, a dependent that may fail to be read | `ReferentialIntegrity`, `UnresolvedIsUnmatched`, `UsingIsComplete`, and the refinement `Implements` |
| `graph_javascript` | the same with a JavaScript module | violates `UnresolvedIsUnmatched` |
| `extract` | 2 names, 2 prints, 3 declarations, 1 reference, 2 framework calls, both languages | `KeysUnique`, `ContainmentIsLexical`, `EveryCandidateLinked`, `OnlyFieldsDangle`, `RolesAreEarned`, `KeysStable` |
| `writers` | 2 processes, a database of version 0, 2, 6 or 7, 2 contents, 3 changes, 2 passes, a fault, fair | `SchemaIsRecorded`, `WipedOnce`, `RowIsOneVersion`, `Opens` |
| `queries` | 4 texts of 3 sizes, 3 rows, pages of 1 or 2, 2 passes, 2 edits, a failing statement, fair | `SliceIsOwn`, `PagesTile`, `ListingEnds` |
| `install` | a JSON and a TOML client with a symlinked backup, 2 processes, 2 commands, an edit by the owner or a crash | `SiblingsKept`, `RollbackPossible`, `OkMeansDone`, `NoLitter` |
| `install_unreadable` | the same with a file that cannot be read | violates `SiblingsKept` |
| `explorer` | 3 symbols, 2 indexes, queries of 1 character, a back stack of 2, 2 reindexes | `WalkStartsAtSelection`, `SelectionOnList`, `PanelSettled` |

**Bounds.**  `MaxClock` bounds the environment's changes, `MaxStarts`,
`MaxFaults` and `MaxCrashes` the other events; the program itself is not
bounded.  Three changes are enough for a file to be indexed, changed, and
changed again between two steps of the pass that looks at it, which is the
shortest history that can fool a comparison; two files are enough for a batch
about one that answers for the other, and for a batch that is not oversized
(`ThresholdPct` = 50: one of two files is a batch, two are a full reindex).
The theorems below remove the bounds for the properties they name.
The graph of `traverse` is the smallest with two ways of different lengths to
one symbol, a cycle on the longer of them and a cycle back to the start: enough
for a search that expands in the wrong order or moves a predecessor to go
wrong.  Its caps bite one at a time, all at once, and not at all.
Three calls let one panic, one recover and one wait for the mutex; two changes
let an index disappear (or the configuration break) and come back.
The sample project of `graph` has one reference of every kind that the tables
tell apart, and for each a file that can take its target away, bring it back
and bring a second one; three edits let a batch delete, re-create and depend.
`./lib` is tried as `lib.ts` and then as `lib/index.ts`, so an import may be
answered by either, hidden by the first and uncovered again; `./lib/index`
denotes the page alone and does not end in `lib`.  Each way in which an open row
may be let stand (too ambiguous, `uncovered`, `Unheard`) occurs in the run, and
`UnresolvedIsUnmatched` without it fails there.
Three declarations give `extract` a duplicate inside a declaration beside a
partial type's fragment, the case in which two ways of handing out ordinals
meet.  In `writers` two processes with one pass each, and one change inside
each read, are the shortest way to every lost update of one row.  Three rows
in pages of two or one make first, full, middle and last pages.  Two commands
in `install` are enough for each order of two reads, backups and renames of
one file.  Two rows and two indexes in `explorer` let every list shrink below
its cursor.

The type invariants of the other modules are `TypeOK` too.  Only that of
`Watch` has a run; it and those of `Traverse`, `McpServer`, `Writers`,
`GraphStore`, `Installer` and `Explorer` are theorems.

`CHECK_DEADLOCK FALSE`: an idle watcher with nothing to do really stops, and
so does the model once the environment has used up its changes.

**Fairness** (`FairSpec`).  The watcher's thread takes its next step whenever
it has one (`WF_vars(Scheduled)`): it is an ordinary thread that blocks only in
`recv_timeout`, which returns.  It also receives what is queued
(`WF_vars(Receive)`).  An arrival postpones a flush only up to
`max_batch_wait`, so arrivals do not starve flushes.  No fairness is assumed of
the environment, of errors or of starts: `Settles` holds although nobody
promises to start a process.  `Settles` says that a difference between a row
and its file ends, or the loop has reported that it could not look at the
file, gave up a pending set after the last retry, or the process is down.

`McpServer`'s `FairSpec` lets the runtime's thread take its next step whenever
it can, and each thread of the pool likewise: a body ends (a search has its
`max_duration`, a statement its `busy_timeout`, a reindex a finite project), and
the mutex, fair to nobody, is wanted by finitely many calls.  Clients promise
nothing.

`Writers` is fair to a process that tries to open the database
(`WF_vars(Opening(p))`): `Opens` says that losing a race for the migrations is
never for ever, given that whoever lost tries again (a watcher that is
restarted, a server's next call).  `Queries` is fair to the call being served
and to the client that takes its answer (`WF_vars(Serving)`), and to nobody
else: `ListingEnds` does not ask that commits stop, beyond the bound on passes.

`StampHonest` speaks of a configuration that is new on disk (`former` has those
that were edited away) and of files that the pass which stamped its fingerprint
did look at (all but `overlooked`).  Both ways out are real.  A crash between T2
and the stamp, followed by a return to the previous configuration, leaves rows
of the newer one under the older fingerprint; and a forced pass stamps although
it missed files (`watch.rs:148`, below).

`RowIsOneVersion` leaves out rows that a `touch_files` wrote after another
process had written them (`overtaken`), `SliceIsOwn` a commit between the read
of the symbol's row and that of its file's hash (`moved`) and a hash that could
not be read (`unchecked`), and `UnresolvedIsUnmatched`, `UsingIsComplete` and
the strict half of the refinement the time after a dependent was skipped
(`missed`).  `UnresolvedIsUnmatched` also lets stand a name that was found too
ambiguous, an import whose module came under a path that its specifier does not
end in (`Unheard`), and one whose module was hidden by another until that was
deleted (`uncovered`); of every other import it asks that the very module that
the specifier denotes be missing or lack the export.  Each of these is a real
way out; they are listed below.

The refinement keeps a link only while it is `Lasting`: the text of its file and
the symbol it ends at stay; a link by name may go once more symbols bear the
name than `MAX_AMBIGUOUS_CANDIDATES` allows, and an imported one once the
specifier denotes another file or that file no longer exports the name.

### Findings

Two runs are places where the code does not do what its own documents say;
`PROJECT.json` quotes them.

1. **Exports of JavaScript modules vanish in incremental passes**
   (`graph_javascript`).  `resolution_snapshot` counts top-level declarations
   as exported only in TypeScript, a full pass in every language.
2. **A configuration that cannot be read is overwritten**
   (`install_unreadable`).  `fs::read(path).ok()` does not tell a missing file
   from an unreadable one.

### Divergences without a run

Seen while modelling; each has been reproduced in these models or follows from
the lines named.

*Watcher and index command*

* `record_unverified` publishes the count of the current batch, so a success
  about other files clears the stale mark of a file that an earlier pass could
  not verify (`incremental.rs:432`, against `incremental.rs:78`).
* The last retry replaces the pending set by the full-sweep marker and forgets
  the reload of an edited configuration (`watch.rs:326`, against
  `watch.rs:179`).
* The configuration is read before the watcher is registered; an edit in
  between is reported to nobody (`watch.rs:22`, against `watch.rs:24`).
* The fingerprint is stamped although files were not re-analysed; the next
  sweep takes the untouched row for current (`watch.rs:148`, against
  `commands.rs:88`).

*MCP server and queries*

* Every call passes through `reopen_if_not_indexed` on the runtime's only
  thread, which waits for the mutex that a running body holds
  (`server.rs:47`); `blocking` exists so that this does not happen
  (`server.rs:67`).  `LaterIndexPickedUp` says why trying the lock instead is
  no remedy: its mutant does just that.
* After a panic `lock_session` puts a connection that can write into a server
  that may not reindex; `ReadOnlyUntilPanic` stops at the first panic.
* A search says `truncated` at the depth cap although every edge it declined
  leads back or is filtered (`traverse.rs:225`).
* `get_symbol` reads the symbol's row and its file's hash in two statements: a
  commit in between lets an old span be cut from a new text and called fresh,
  which `source_slice` means to exclude (`query.rs:670`).  A hash that cannot be
  read skips the check.
* The warnings are read after the rows, so rows read while the index was marked
  may be answered without the mark; a page and its total are two snapshots.
* `search_symbols` answers the number of returned rows as `total`, which
  `docs/MCP.md:40` calls the "full count of matching or reached rows, not just
  this page".
* A page size of 0 is answered `truncated` at the same offset for ever.

*Where an incremental pass differs from a clean one*

* A `using` of a namespace that was external when its file was indexed stays
  external, `import *` and edges without a target stay as they are.
* A new file that shadows the one an import resolved to is not noticed.  Nor,
  the other way, is a file that had been shadowed when the one in front of it is
  deleted: the importer's row stays open although the specifier now denotes the
  other file.
* A created module is found by the end of the specifiers that failed
  (`incremental.rs:513`, `repo.rs:1856`).  An import written `./index`,
  `./a/index`, `./`, `../`, or as an alias whose last segment is not the file's
  stem or directory, stays open when its module is created, although the comment
  at `incremental.rs:707` speaks of any "newly created module" that "can satisfy
  a relative import"; so does one of an `index.ts` at the root, which has no
  stem.  (`.` and `..` alone are taken for packages and never open.)
* A name that was ambiguous is not tried again when candidates go; a unique one
  keeps its certain edge when a second candidate appears
  (`incremental.rs:687`).  That an ambiguous name is recorded as unresolved at
  all, in either kind of pass, goes against
  `openspec/specs/relationship-graph/spec.md:69`: "A reference with one or more
  candidates MUST NOT be recorded there".
* A dependent that cannot be read is skipped, and although the comment at
  `incremental.rs:733` says that it is "reconsidered on the next sweep", no
  sweep looks at a file that has not changed.

*Several processes*

* `touch_files` writes the time of a stat without looking at the row again
  (`repo.rs:838`): decided on an older row, it makes the time vouch for another
  process's content of the same size.
* Of two processes that find the same old version one fails to open
  (`migrations.rs:207`), although applied versions are "skipped"
  (`migrations.rs:197`); the next attempt succeeds (`Opens`).

*Extractors*

* TypeScript: the decorators of a field, and the heritage, members and
  injections of a class inside a field's initializer, have edges whose source
  key no symbol has; `build_relationships` drops them
  (`OnlyFieldsDangle` names exactly these).
  `openspec/specs/relationship-graph/spec.md:245` asks for them: extraction "MUST
  walk class, method, property, and constructor-parameter decorators into
  `decorates` edges".  A class and an interface of one name share a local key.
* C#: by `docs/FRAMEWORKS.md:76` a controller is a "Class with
  `[ApiController]`, or a `*Controller`-named class with any `[Route]`/`[Http*]`
  member", and so say `dotnet.rs:844` and `dotnet.rs:856`.  The code
  (`dotnet.rs:871`) also counts a member with `[Function]`, and does not count a
  member with `[Route]` alone.  `RolesAreEarned` is that rule with these two
  departures (`FunctionCounted`, `RouteOverlooked`).
* C#: nested block namespaces push the dotted name again (`A.A.B`).
* `Program.Main` is synthesized for any call outside a method, also in a
  property's accessor or a field's initializer (against `dotnet.rs:191`), and like the variables of
  routes it is added after `resolve_pending`, so nothing in the file links to
  it.  A role given by name goes to the first class of that name.

*Explorer*

* The message of a failed load disappears with the next key and leaves an empty
  panel; the two queries of a panel are not one snapshot.

## What is proved

`WatchProofs` proves, for every finite set of files, every set of
configurations, every cap, threshold and bound, with no further assumption than
the named `ASSUME`s of `ProjectIndex` and `Watch`:

* `Invariance`: `Spec => []IInv`
* `TypeCorrect`, `NoLostChangeHolds`, `FastPathSoundHolds`, `HonestPassHolds`:
  the invariants of the same names
* `NoRollbackHolds`: the action property
* `ForcedPassReanalysesHolds` and `StampHonestHolds`, from `ForcedInvariance` and
  `StampInvariance`: what holds on top of `IInv` about a change of the
  configuration

`GraphStoreProofs` proves, for every project (files, texts, names, specifiers,
languages, what a text declares and refers to), every cap, threshold and number
of edits, from the named `ASSUME`s of `Resolver` and `GraphStore`:

* `GraphInvariance`: `Spec => []IInv`
* `GraphTypeCorrect`, `ReferentialIntegrityHolds`, `UsingIsCompleteHolds`: the
  invariants
* `UnresolvedIsUnmatchedHolds`, for any tries of a specifier in any order and any
  `EndsIn`, under the hypothesis `TypeScriptModules`: import specifiers denote
  TypeScript files.  It cannot be dropped: `graph_javascript` violates the
  property
* `GraphImplements`: `Spec => Implements`, the refinement of `ReferenceIndex`

`TraverseProofs` proves, for every graph, query, setting of the caps and
number of commits, from the named `ASSUME`s of `Traverse`:

* `TraverseTypeInvariance`, `WithinCapsHolds`, `CompleteUnlessTruncatedHolds`:
  the invariants `TypeOK`, `WithinCaps` and `CompleteUnlessTruncated`
* `ReachedIsReachable`: every reached symbol is reachable over edges that
  existed at some time of the search
* `DepthIsDistanceHolds`, `PathIsRealHolds`: the invariants of the same names

`ServingProofs` proves of `Queries`, for every set of texts and sizes, every
finite set of rows and every number of edits, passes and faults,
`SliceIsOwnHolds` and `PagesTileHolds`; and of `McpServer`, for every set of
calls and every number of changes, `McpTypeInvariance`, `NoBodyOnSuspectHolds`,
`ReadOnlyUntilPanicHolds` and `LaterIndexPickedUpHolds`.  The two systems share
no state; they share a module because a client meets them together.

`ExtractorProofs` proves, for every set of names, signatures, lists, calls,
controllers and repositories, both languages and every bound, from the named
`ASSUME`s of `Extraction`, `CSharp` and `Frameworks`:

* `ExtractorInvHolds`: `Spec => []ExtractorInv`
* `KeysUniqueHolds`, `ContainmentIsLexicalHolds`, `EveryCandidateLinkedHolds`,
  `OnlyFieldsDangleHolds`, `RolesAreEarnedHolds`: the invariants
* `KeysStableHolds`: the action property

`WritersProofs` proves, for every finite set of processes, every set of contents
and every number of changes, passes and faults, `WritersTypeCorrect`,
`SchemaIsRecordedHolds`, `WipedOnceHolds` and `RowIsOneVersionHolds`.

`InstallerProofs` proves, for every finite set of clients, every set of servers,
any number of processes and commands, crashes and edits by the owner,
`InstallerTypeCorrect`, `RollbackPossibleHolds`, `OkMeansDoneHolds`,
`NoLitterHolds`, `ReadableKeptHolds` (the entries of every file that can be read
are kept) and `SiblingsKeptHolds`, which is `ReadableKeptHolds` where no file is
unreadable; `install_unreadable` shows that this hypothesis is needed.

`ExplorerProofs` proves, for any index and any sequence of reindexes, keys and
failures, `ExplorerTypeCorrect`, `WalkStartsAtSelectionHolds`,
`SelectionOnListHolds` and `PanelSettledHolds`.

**The argument for `Watch`.**  `NoLostChange` speaks of the moments when the loop waits; it
is not inductive, because it says nothing of the pass that leads there.  `IInv`
follows the pass phase by phase for the files that have *not* moved since it
began: after the walk the lists are right (`AfterWalk`), after the stat the
mtimes are those of the disk (`AfterStat`), after the classification each file
of the scope is missed, in a set that fits it, or agrees with its row
(`AfterClassify`), what is staged is what is on disk (`AfterRead`), and after
the commit row and file agree or the file was missed (`AfterCommit`).  Files
that did move need no such knowledge: a registered watcher has their event
(`MovedIsReported`), which a flush does not take out of the queue
(`ScopeOfPending` says that the pass answers for exactly the pending set it
started with).  So when the pass ends, each file agrees, was missed, or is
queued: `Accounted`, whose waiting case is `NoLostChange`.

`FastPathSound` and `NoRollback` rest on `Genuine`: every version the program
holds, in a row, in a change or staged, was once on disk, so it is not newer
than the disk and equal mtimes mean equal contents; and versions only grow on
their way from the comparison to the row.  That is why a touched row may only
take the mtime of the comparison, and only before the batch is written.
`HonestPass` follows from `AfterCommit`, with `MissedIsCounted`: a missed file
is in the count that `Record` publishes, or has no row.

The proof has one lemma per action (`WalkKeeps`, `ClassifyKeeps`, ...), and
frame lemmas for what the environment may disturb.

`ForcedPassReanalyses` needs that under force no file is compared with its
row: every stored file is taken for created, deleted or unverified
(`ForcedInv`), so after the commit its row is new or it was reported.

`StampHonest` needs to know where a fingerprint comes from (`StampInv`): it is
`conf`, which was read from the disk, so it is the configuration on disk or one
that was edited away; and if it is the one on disk and that one is new, the pass
that wrote it was forced, so it rewrote every row it could look at and what it
could not is in `overlooked`.  A pass that is not forced runs under the stamped
configuration and adds no older row.

**The argument for `GraphStore`.**  The invariant has two halves.  *What every
pass keeps*: the symbols are those of the stored texts and no row dangles
(`ReferentialIntegrity`); an edge stands for a reference of its file's present
text and ends at something that reference may mean (`EdgesFit`); each reference
has an edge or a row (`Answered`); each export statement has its edges
(`ExportsLinked`), since the snapshot of an incremental pass knows of exports
only through them.  *What a thorough pass keeps*, one that skipped no dependent:
an open row says under which name or module its reference waits (`NoModule`,
`AwaitsName`, `AwaitsExport`), which is all that the look-ups of dependents have
to go by.  Without it neither `UnresolvedIsUnmatched` nor `UsingIsComplete` is
inductive: the next batch could add the missing name and miss the file.  A row
that found no module says only that no stored candidate is one whose stem its
specifier ends in (`Unheard`), and one that waits for an export
(`AwaitsModule`) that the module it denotes lacks the name, unless that module
has been `uncovered` since: more does not hold of the code.

The proof goes in four layers.  Lemmas about the resolver say what the rows of
one reference are (`EdgesOfOne`, `RowsOfOne`) and that a link which is still
meant is found again (`Relinked`).  Then both ways of updating, the full reindex
and the transaction of `apply_incremental` with its order of deletes, are
brought to one form: `Pass(A, D, B)` replaces the rows of the analysed files
`A`, removes those of the deleted `D` and resolves against the baseline `B`
(`FullPassIsPass`, `IncrementalPassIsPass`).  From there each part of the
invariant has one lemma about passes (`PassIntegrity`, `PassFits`,
`PassAnswers`, ...), with lemmas about the files that a thorough pass leaves
alone (`SparedEdges`, `SparedRows`, `SparedUsings`, `SparedModules`).  Last, the
refinement: `IndexIsSound` reads the abstract soundness off the invariant, and
`LastingLinked` follows a link that may stay through a pass, by cases of how its
reference was resolved.

**The argument for `Installer`.**  While a command works on a file, what it read
is the owner's text unless the owner wrote since (`Fit`), and before it replaces
a file the backup holds that text (`Saved`).  An uninstall has looked at every
file first (`Probed`), each client it was asked about is to come, at work, failed
or done (`Progress`), and a temporary file is the one its process is at, unless
something was killed (`Owned`).  The files that somebody else wrote under a
running command are `raced` and `disturbed`; the properties except them.

**The argument for `Explorer`.**  `WalkStartsAtSelection` holds in every phase of
`refresh`, also between two loads (`Walking`); what `refresh` has settled by the
time it comes to each load (`Settling`) shows that nothing is left to load when
it returns.

**The argument for `Traverse`.**  Reachability is the least set that is closed
under the allowed edges and holds the start.  `NothingForgotten` says of every
reached symbol that its edges have been followed, that it is being expanded, or
that it waits in the queue, unless some expansion was declined for depth.  A
search that ends without a reason has an empty queue and declined nothing, so
what it reached is closed, and the least closed set lies within it.  `Expanding`
carries this through the expansion of one symbol, and `History` (an edge that
existed throughout exists now) through the commits in between.  For the other
direction, what is reached stays inside every closed set of `ever`.

`DepthIsDistance` has two halves.  *Far*: no symbol is at a depth less than its
distance, because each one hangs below the one it was reached from by an edge
that existed, one deeper (`Tree`).  *Near*: none is deeper than its distance over
the edges that stood throughout.  For that the queue must be in order (`Order`:
it holds symbols of at most two neighbouring depths, the nearer ones first), and
every reached symbol that is not too deep has its edges followed, is being
expanded or waits (`Waiting`); then, when a symbol of depth d + 1 is found, all
symbols within distance d have been.  The path of `PathIsReal` is the branch of
`Tree` that ends at the target: each step back is an edge that existed and one
less deep, so the walk back ends at the start after as many steps as the target
is deep.

`Within` and the path are recursive functions, and the library's induction
theorems take an operator, which the provers cannot instantiate.  Induction is
used in the form of a set instead: a set of numbers that holds 0, and with each
number the next, holds all of them (`AllNumbers`, from the well-founded order of
the numbers).

**The argument for `McpServer`.**  A panic marks the mutex before anybody can
take it, and every way to clear the mark opens a new session (`Poison`).  Only a
recovery or a reindex puts a writable connection in place; the one needs a panic,
the other a call that the gate let pass (`Holding`).  For a call that found an
index and kept it, the session is indexed once it has been through
`reopen_if_not_indexed`, and every later opening finds the same (`PickedUp`).

**The argument for `Queries`.**  While a call holds a span, that span is the
stored text unless a commit has come since (`moved`); from the stored hash on,
span and hash are the same text unless the hash was not read.  The bytes that
pass the comparison are therefore the span's own.

A listing that no commit has disturbed holds the first rows of `Ordered`, and the
page in hand is the next window of it (`PageInv`); it says it is done only when
the window reaches the end.  `Ordered` is given by CHOOSE, so it must be shown that
every finite set of rows has an ascending order (`CanBeSorted`: a smallest set
without one, less its greatest row, would be smaller still).

**The argument for `Extractor`.**  What is promised of the result is settled at
its end, so the invariant says of the walk what the end relies on (`Walked`): an
open declaration's container is the key of the symbol it belongs to, each edge
and deferred target hangs from a key that something has (`Anchored`: the file, a
symbol, or a class inside another declaration), a C# symbol is keyed by its path
and has the edge that contains it, and a fact is noted of a symbol that can have
it.  Fragments of one path are told apart because each takes the count of those
before it (`FragmentsCounted`).  `ContainmentIsLexical` follows at once: a home
whose identity is its own is the symbol that its key names.  Every handler
collects some symbols, edges and targets after those there were, so one lemma
about collecting (`WalkGoesOn`) leaves each handler with what is its own.

At the end, `Finish` resolves the deferred targets, recognizes the frameworks and
makes the keys unique.  `EdgesOfReference` says what one deferred target becomes,
`PendingResolved` that nothing is lost when the edges of all are laid end to end.
Recognition goes fact by fact; each fact gives every symbol that can be told
apart exactly what it earns it (`EveryFactGains`), so in the end the roles are
the sum of the facts' (`RecognitionRuns`), which is `RolesAreEarned`.
Disambiguation gives each symbol a key that no other has (`KeyGivenKeeps`): the
keys given so far are as many as the symbols, so among one more ordinals than
keys there is a free one (`FreeOrdinal`).  What it does to a prefix depends on
the prefix alone (`KeysStay`), which is `KeysStable`.

`MCExtract` extends the module of the invariant, so TLC can be asked for
`ExtractorInv` too: added to `extract.cfg`, it holds.

The two recursions, `Given` and `Recognition`, are recursive functions over the
numbers up to a length.  That TLA+'s CHOOSE finds such a function must be shown
(`Solved`), and what it keeps is shown by induction on a set (`Stays`).

**The argument for `Writers`.**  The schema is a prefix of the migrations at every
moment, so the one that a process may apply is the next, or it loses the race
(`Migrated`); migration 7 can be applied over itself, but not be recorded twice.
A process that works has a database with all of them, so the wipe of 0003 is
past before a row with new ids can exist (`Wiped`).  While the mtime is still
the one that a read began with, what has been read is what is there; every
change gives the file a time that no read and no row has (`Knows`).  A row
touched by a process that nobody has overtaken is the row it compared, so the
stat before the comparison vouches for it (`RowGenuine`).

**Only model-checked.**  `Settles`, `EveryCallAnswered`, `Opens` and
`ListingEnds`: liveness under fairness is out of the prover's reach.  Every other
property of a passing run is a theorem.

## Not modelled, and why

Export and the command line produce output only; the updater builds one command
line and runs it.  `status`, `init` and `doctor` read and print.  Full-text
search ranks rows inside SQLite.  The ignore rules and the symlink policy of
discovery decide about one path at a time, from the file system's answers, and
keep nothing.  Parsing itself is tree-sitter's.  `PROJECT.json` says for each
component what is left out.

## Plan

What is left, in order:

1. Proofs: an abstract pass, which moves an index from one state of the disk to a
   later one in a single step, and that the phases of `ProjectIndex` implement it.
2. Two passes of `ProjectIndex` over one database, of which `Writers` has the
   part that concerns one file.
