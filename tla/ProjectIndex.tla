---------------------------- MODULE ProjectIndex ----------------------------
(***************************************************************************)
(* The project on disk, the index in SQLite, and one pass of the shared    *)
(* change engine over them (crates/codekurve/src/incremental.rs):          *)
(*                                                                         *)
(*   detect       walk, then classify every file of the pass's scope       *)
(*   apply_batch  refresh touched rows; T1 publishes how many files are    *)
(*                pending; read; T2 commits rows and clears the mark in    *)
(*                one transaction; unverified files take the mark back     *)
(*                                                                         *)
(* The program is single-threaded here, but the files are not its own:     *)
(* between any two steps of a pass somebody may write, touch, delete or    *)
(* chmod a file.  Watch.tla says who starts passes and what becomes of     *)
(* their outcome.                                                          *)
(*                                                                         *)
(* A version of a file is what a stable read of it returns: its content    *)
(* and its mtime.  A write makes a new content and a new mtime, a touch    *)
(* only a new mtime: the file system's clock is assumed to separate two    *)
(* successive changes of one file.                                         *)
(***************************************************************************)
EXTENDS Naturals, FiniteSets

CONSTANTS
  Files,          \* root-relative paths of the project's source files
  Configs,        \* analysis configurations: what analysis_fingerprint hashes
  Absent,         \* no such file, no such row, no value
  Accesses,       \* how a file can be reached, a set of the three kinds below
  MaxTotalFiles,  \* index.max_total_files, 0 = unlimited
  ThresholdPct,   \* index.watch.full_reindex_threshold_pct
  MaxClock        \* bound: how many times the environment changes something

\* A file in a readable place; a file the walk lists but a read fails on; a
\* file below a directory the walk cannot enter.
AccessKinds == {"ok", "unreadable", "unwalkable"}

Versions == [content : Nat, mtime : Nat]
Rows     == [content : Nat, mtime : Nat, cfg : Configs]

ASSUME FilesAssumption == IsFiniteSet(Files)
ASSUME AbsentAssumption == Absent \notin Nat \cup Versions \cup Rows \cup Configs
ASSUME AccessAssumption == "ok" \in Accesses /\ Accesses \subseteq AccessKinds
ASSUME BoundsAssumption == MaxTotalFiles \in Nat /\ ThresholdPct \in Nat /\ MaxClock \in Nat

VARIABLES
  \* the project
  disk,      \* file -> its current version, or Absent
  access,    \* file -> how it can be reached
  diskCfg,   \* the configuration files as they are on disk
  clock,     \* the file system's clock
  \* the index database
  rows,      \* file -> version it was indexed at and config used, or Absent
  mark,      \* index_state.pending_files: non-zero is "stale"
  stamp,     \* projects.analyzer_version: the fingerprint, or Absent
  \* the running pass
  phase,     \* where the pass is
  conf,      \* the configuration this process loaded (IndexSetup)
  force,     \* force_full
  sweep,     \* detect runs without a filter
  scope,     \* the files this pass answers for (all of them for a sweep)
  walked,    \* files the walk listed
  unwalked,  \* files below something the walk failed on (is_unverified)
  batch,     \* the classification: FileChange by kind
  stats,     \* mtimes of the walked files, as detect's stat found them
  bytes,     \* what each Modified or Touched change carries
  staged,    \* what will be written: file -> version, or Absent
  whole,     \* the batch goes through the full reindex
  \* history, never read by the program
  moved,     \* files changed on disk since this pass began
  missed     \* files of the scope that this pass could not look at

project  == <<disk, access, diskCfg, clock>>
database == <<rows, mark, stamp>>
loaded   == <<conf, force, sweep, scope>>
findings == <<walked, unwalked, stats, batch, bytes>>
plan     == <<staged, whole>>
history  == <<moved, missed>>
pass     == <<phase, loaded, findings, plan, missed>>
locals   == <<force, sweep, scope, findings, plan, history>>

Batches == [created : SUBSET Files, modified : SUBSET Files, deleted : SUBSET Files,
            touched : SUBSET Files, unverified : SUBSET Files]
NoBatch == [created |-> {}, modified |-> {}, deleted |-> {}, touched |-> {}, unverified |-> {}]

Phases == {"idle", "walk", "stat", "classify", "touch", "publish", "read", "commit",
           "record", "applied", "stamped", "failed", "fatal"}

EngineTypeOK ==
  /\ disk \in [Files -> Versions \cup {Absent}]
  /\ access \in [Files -> Accesses]
  /\ diskCfg \in Configs /\ conf \in Configs
  /\ clock \in Nat
  /\ rows \in [Files -> Rows \cup {Absent}]
  /\ mark \in Nat
  /\ stamp \in Configs \cup {Absent}
  /\ phase \in Phases
  /\ force \in BOOLEAN /\ whole \in BOOLEAN /\ sweep \in BOOLEAN
  /\ scope \subseteq Files /\ walked \subseteq Files /\ unwalked \subseteq Files
  /\ batch \in Batches
  /\ stats \in [Files -> Nat \cup {Absent}]
  /\ bytes \in [Files -> Versions \cup {Absent}]
  /\ staged \in [Files -> Versions \cup {Absent}]
  /\ moved \subseteq Files /\ missed \subseteq Files

EngineInit ==
  /\ disk \in [Files -> {Absent, [content |-> 0, mtime |-> 0]}]
  /\ access = [f \in Files |-> "ok"]
  /\ diskCfg \in Configs /\ conf = diskCfg
  /\ clock = 0
  /\ rows = [f \in Files |-> Absent]
  /\ mark = 0
  /\ stamp = Absent
  /\ phase = "idle"
  /\ force = FALSE /\ whole = FALSE /\ sweep = FALSE
  /\ scope = {} /\ walked = {} /\ unwalked = {}
  /\ batch = NoBatch
  /\ stats = [f \in Files |-> Absent]
  /\ bytes = [f \in Files |-> Absent]
  /\ staged = [f \in Files |-> Absent]
  /\ moved = {} /\ missed = {}

-----------------------------------------------------------------------------
(* Reading the state.                                                      *)

OnDisk(f)   == disk[f] # Absent
Stored(f)   == rows[f] # Absent
Tracked     == {f \in Files : Stored(f)}
Walkable(f) == OnDisk(f) /\ access[f] # "unwalkable"
Readable(f) == OnDisk(f) /\ access[f] = "ok"
\* It may be there, but it cannot be read.
OutOfReach(f) == access[f] = "unwalkable" \/ (Walkable(f) /\ ~Readable(f))

\* The row says what the disk says: both are missing, or the contents agree.
Match(f) ==
  IF Stored(f) THEN OnDisk(f) /\ rows[f].content = disk[f].content ELSE ~OnDisk(f)

\* Size and mtime as stored.
SameStat(f) == rows[f].mtime = disk[f].mtime

Real == batch.created \cup batch.modified \cup batch.deleted

-----------------------------------------------------------------------------
(* The environment.                                                        *)

Tick == clock < MaxClock /\ clock' = clock + 1
Moves(f) == moved' = IF phase = "idle" THEN moved ELSE moved \cup {f}

WriteFile(f) ==
  /\ Tick
  /\ disk' = [disk EXCEPT ![f] = [content |-> clock + 1, mtime |-> clock + 1]]
  /\ Moves(f)
  /\ UNCHANGED <<access, diskCfg, database, pass>>

TouchFile(f) ==
  /\ Tick
  /\ OnDisk(f)
  /\ disk' = [disk EXCEPT ![f].mtime = clock + 1]
  /\ Moves(f)
  /\ UNCHANGED <<access, diskCfg, database, pass>>

DeleteFile(f) ==
  /\ Tick
  /\ OnDisk(f)
  /\ disk' = [disk EXCEPT ![f] = Absent]
  /\ Moves(f)
  /\ UNCHANGED <<access, diskCfg, database, pass>>

Chmod(f, a) ==
  /\ Tick
  /\ access[f] # a
  /\ access' = [access EXCEPT ![f] = a]
  /\ Moves(f)
  /\ UNCHANGED <<disk, diskCfg, database, pass>>

EditConfig(c) ==
  /\ Tick
  /\ diskCfg' = c
  /\ UNCHANGED <<disk, access, database, pass, moved>>

-----------------------------------------------------------------------------
(* detect                                                                  *)

\* The locals of a pass before it begins and after it has returned.
Blank ==
  /\ walked' = {} /\ unwalked' = {} /\ batch' = NoBatch
  /\ stats' = [f \in Files |-> Absent] /\ bytes' = [f \in Files |-> Absent]
  /\ staged' = [f \in Files |-> Absent] /\ whole' = FALSE
  /\ moved' = {} /\ missed' = {}

\* A pass over S; the caller sets conf.
BeginPass(S, isSweep, isForced) ==
  /\ phase' = "walk"
  /\ scope' = S /\ sweep' = isSweep /\ force' = isForced
  /\ Blank

EndPass ==
  /\ phase' = "idle"
  /\ scope' = {} /\ sweep' = FALSE /\ force' = FALSE
  /\ Blank

\* A walk counts what it lists against the cap.
WalkOverCap(S) == MaxTotalFiles > 0 /\ Cardinality({f \in S : Walkable(f)}) > MaxTotalFiles

\* discover_report, or discover_report_for the scope.
Walk ==
  /\ phase = "walk"
  /\ ~WalkOverCap(scope)
  /\ walked' = {f \in scope : Walkable(f)}
  /\ unwalked' = {f \in scope : access[f] = "unwalkable"}
  /\ missed' = unwalked'
  /\ phase' = "stat"
  /\ UNCHANGED <<project, database, loaded, stats, batch, bytes, plan, moved>>

\* Faulty variant: force_full is ignored.
ComparedAnyway == {f \in walked : Stored(f)}

\* The walked files that are compared with a row; under force_full none is.
Compared == {f \in walked : Stored(f) /\ ~force}

\* A compared file is stat'ed before it is read, if it is to be read at all.
\* Somebody may write it between the two.
Stat ==
  /\ phase = "stat"
  /\ stats' = [f \in Files |->
                 IF f \in Compared /\ Walkable(f) THEN disk[f].mtime ELSE Absent]
  /\ phase' = "classify"
  /\ UNCHANGED <<project, database, loaded, walked, unwalked, batch, bytes, plan, history>>

\* Classification of the files the walk listed and of the stored files it did
\* not.  A file whose stat failed (it has vanished, or its directory has been
\* closed) is in none of the sets; one with the stat of its row is not read.
\* A read that gives up because writes keep racing it counts as unreadable.
Classification ==
  LET suspect == {f \in Compared : stats[f] # Absent /\ stats[f] # rows[f].mtime}
      read    == {f \in suspect : Readable(f)}
      unseen  == {f \in scope : Stored(f) /\ f \notin walked}
  IN [created    |-> walked \ Compared,
      modified   |-> {f \in read : disk[f].content # rows[f].content},
      touched    |-> {f \in read : disk[f].content = rows[f].content},
      unverified |-> (suspect \ read) \cup (unseen \cap unwalked),
      deleted    |-> unseen \ unwalked]

\* A Modified change carries its stable read, a Touched one its stat.
Carried(c) ==
  [f \in Files |-> IF f \in c.modified THEN disk[f]
                   ELSE IF f \in c.touched THEN [disk[f] EXCEPT !.mtime = stats[f]]
                   ELSE Absent]

\* A restricted walk lists only what the batch names, so a batch is also
\* checked against what is stored: it must not grow the project past the cap.
BatchOverCap(c) ==
  /\ ~sweep
  /\ MaxTotalFiles > 0
  /\ Cardinality(Tracked) <= MaxTotalFiles
  /\ Cardinality(Tracked) + Cardinality(c.created) > MaxTotalFiles + Cardinality(c.deleted)

\* The step of apply_batch that follows the touched files' refresh.
AfterTouch(c) ==
  IF c.created \cup c.modified \cup c.deleted = {} THEN "record" ELSE "publish"

Classify ==
  LET c == Classification IN
  /\ phase = "classify"
  /\ ~BatchOverCap(c)
  /\ batch' = c
  /\ bytes' = Carried(c)
  /\ missed' = missed \cup c.unverified
  /\ phase' = IF c.touched # {} THEN "touch" ELSE AfterTouch(c)
  /\ walked' = {} /\ unwalked' = {} /\ stats' = [f \in Files |-> Absent]
  /\ UNCHANGED <<project, database, loaded, plan, moved>>

\* DetectError::Discovery: more files than index.max_total_files.
TooManyFiles ==
  /\ \/ phase = "walk" /\ WalkOverCap(scope)
     \/ phase = "classify" /\ BatchOverCap(Classification)
  /\ phase' = "fatal"
  /\ UNCHANGED <<project, database, loaded, findings, plan, history>>

-----------------------------------------------------------------------------
(* apply_batch                                                             *)

\* Faulty variant: the refresh takes the mtime of a new stat, not that of the
\* comparison.
TouchRowRestat(f) ==
  /\ phase = "touch"
  /\ f \in batch.touched
  /\ rows' = [rows EXCEPT ![f].mtime = IF OnDisk(f) THEN disk[f].mtime ELSE bytes[f].mtime]
  /\ batch' = [batch EXCEPT !.touched = @ \ {f}]
  /\ phase' = IF batch.touched = {f} THEN AfterTouch(batch) ELSE "touch"
  /\ UNCHANGED <<project, mark, stamp, loaded, walked, unwalked, stats, bytes, plan, history>>

\* touch_files: each row is committed by itself, outside T1 and T2.
TouchRow(f) ==
  /\ phase = "touch"
  /\ f \in batch.touched
  /\ rows' = [rows EXCEPT ![f].mtime = bytes[f].mtime]
  /\ batch' = [batch EXCEPT !.touched = @ \ {f}]
  /\ phase' = IF batch.touched = {f} THEN AfterTouch(batch) ELSE "touch"
  /\ UNCHANGED <<project, mark, stamp, loaded, walked, unwalked, stats, bytes, plan, history>>

\* T1: set_pending_files in a transaction of its own.
Publish ==
  /\ phase = "publish"
  /\ mark' = Cardinality(Real)
  /\ phase' = "read"
  /\ UNCHANGED <<project, rows, stamp, loaded, findings, plan, history>>

Oversized ==
  IF Tracked = {} THEN Real # {}
  ELSE Cardinality(Real) * 100 > Cardinality(Tracked) * ThresholdPct

\* apply_incremental_changes up to T2: a created file is read now and must be
\* readable, a modified one comes with detect's bytes, and the dependents D of
\* the batch (any stored files outside it, as far as this module knows) are
\* re-read as far as they can be.
ReadBatch(D) ==
  LET rereads == batch.created \cup {f \in D : Readable(f)} IN
  /\ phase = "read"
  /\ ~Oversized
  /\ D \subseteq Tracked \ Real
  /\ \A f \in batch.created : Readable(f)
  /\ staged' = [f \in Files |->
                  IF f \in rereads THEN disk[f]
                  ELSE IF f \in batch.modified THEN bytes[f] ELSE Absent]
  /\ whole' = FALSE
  /\ phase' = "commit"
  /\ UNCHANGED <<project, database, loaded, findings, history>>

\* Stored files a full reindex would drop although they may still exist.
Lost == {f \in Tracked : OutOfReach(f)}

\* apply_via_full_reindex up to its transaction: a second walk, every file
\* read again; unreadable files are skipped unless a stored one would be lost.
ReadProject ==
  /\ phase = "read"
  /\ Oversized
  /\ ~WalkOverCap(Files)
  /\ Lost = {}
  /\ staged' = [f \in Files |-> IF Readable(f) THEN disk[f] ELSE Absent]
  /\ missed' = missed \cup {f \in scope : OutOfReach(f)}
  /\ whole' = TRUE
  /\ phase' = "commit"
  /\ UNCHANGED <<project, database, loaded, findings, moved>>

\* A created file cannot be read or has vanished, or the full reindex would
\* lose rows or meets the cap: the batch fails as a whole.
ReadFails ==
  /\ phase = "read"
  /\ IF Oversized THEN WalkOverCap(Files) \/ Lost # {}
     ELSE \E f \in batch.created : ~Readable(f)
  /\ phase' = "failed"
  /\ UNCHANGED <<project, database, loaded, findings, plan, history>>

Indexed(v) == [content |-> v.content, mtime |-> v.mtime, cfg |-> conf]

\* Faulty variant: the touched rows are refreshed once more after the batch.
CommitThenTouch ==
  LET again == {f \in Files \ batch.modified : rows'[f] # Absent /\ bytes[f] # Absent} IN
  /\ phase = "commit"
  /\ rows' = [f \in Files |->
                IF staged[f] # Absent THEN Indexed(staged[f])
                ELSE IF whole \/ f \in batch.deleted THEN Absent ELSE rows[f]]
  /\ mark' = 0
  /\ batch' = [NoBatch EXCEPT !.touched = again, !.unverified = batch.unverified]
  /\ phase' = IF again = {} THEN "record" ELSE "touch"
  /\ UNCHANGED <<project, stamp, loaded, walked, unwalked, stats, bytes, plan, history>>

\* T2: apply_incremental, or reindex, together with mark_verified.
Commit ==
  /\ phase = "commit"
  /\ rows' = [f \in Files |->
                IF staged[f] # Absent THEN Indexed(staged[f])
                ELSE IF whole \/ f \in batch.deleted THEN Absent ELSE rows[f]]
  /\ mark' = 0
  /\ phase' = "record"
  /\ UNCHANGED <<project, stamp, loaded, findings, plan, history>>

\* Faulty variant: a pass that wrote its batch counts as verified.
RecordNone ==
  /\ phase = "record"
  /\ mark' = 0
  /\ phase' = "applied"
  /\ UNCHANGED <<project, rows, stamp, loaded, findings, plan, history>>

\* record_unverified: the files that could not be looked at, or none.
Record ==
  /\ phase = "record"
  /\ mark' = Cardinality(batch.unverified)
  /\ phase' = "applied"
  /\ UNCHANGED <<project, rows, stamp, loaded, findings, plan, history>>

\* Faulty variant: the fingerprint is taken when it is written, not when the
\* configuration was loaded.
StampLate ==
  /\ phase = "applied"
  /\ stamp' = diskCfg
  /\ phase' = "stamped"
  /\ UNCHANGED <<project, rows, mark, loaded, findings, plan, history>>

\* set_analyzer_version, after a reconcile or an index run.
Stamp ==
  /\ phase = "applied"
  /\ stamp' = conf
  /\ phase' = "stamped"
  /\ UNCHANGED <<project, rows, mark, loaded, findings, plan, history>>

StampFails ==
  /\ phase = "applied"
  /\ phase' = "failed"
  /\ UNCHANGED <<project, database, loaded, findings, plan, history>>

\* A database error (busy, disk full) or a stat error at any step.
Fails ==
  /\ phase \in {"walk", "stat", "classify", "touch", "publish", "read", "commit", "record"}
  /\ phase' = "failed"
  /\ UNCHANGED <<project, database, loaded, findings, plan, history>>

PassStep ==
  \/ Walk \/ Stat \/ Classify \/ TooManyFiles
  \/ (\E f \in Files : TouchRow(f)) \/ Publish
  \/ \E D \in SUBSET (Tracked \ Real) : ReadBatch(D)
  \/ ReadProject \/ ReadFails \/ Commit \/ Record

=============================================================================
