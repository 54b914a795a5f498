------------------------------- MODULE Writers -------------------------------
(***************************************************************************)
(* Processes that share one index database: a watcher, index runs, an MCP  *)
(* server that may reindex.  Each opens the database, which migrates it    *)
(* (crates/codekurve-store/src/db.rs, migrations.rs), and then runs passes *)
(* of the change engine (incremental.rs), each with its own snapshot of    *)
(* the rows and its own reads.  Nothing but SQLite's transactions orders   *)
(* them.                                                                   *)
(*                                                                         *)
(* The passes are seen from one file of a project too large for a full     *)
(* reindex; ProjectIndex.tla has the rest of a pass, for one process.  The *)
(* file's owner may write it at any moment, also while it is being read.   *)
(***************************************************************************)
EXTENDS Naturals, FiniteSets

CONSTANTS
  Procs,
  Contents,        \* contents of one size: the size tells none of them apart
  Absent,
  OldSchemas,      \* versions the database may be found at, 0: a new file
  MaxClock,        \* bound: changes of the file
  MaxPasses,       \* bound: passes begun
  MaxFaults        \* bound: crashes and database errors

Latest == 7        \* SCHEMA_VERSION
Wipes  == 3        \* MIGRATION_0003 empties the data tables
Tries  == 3        \* read_stable

\* A read is a pair of halves, both of one version unless a write came between.
Texts  == Contents \X Contents
Whole(c) == <<c, c>>
Reads  == [text : Texts, mtime : 0 .. MaxClock]
\* ids: the scheme the row's ids come from; an old row has no hash and no mtime.
Rows   == [text : Texts, mtime : 0 .. MaxClock, ids : {"new"}] \cup
          [text : {Absent}, mtime : {Absent}, ids : {"old"}]
Stages == {"closed", "opening", "open", "stat", "before", "head", "tail", "after",
           "touch", "publish", "commit", "record"}

ASSUME ProcsAssumption == IsFiniteSet(Procs)
ASSUME AbsentAssumption ==
  Absent \notin Nat /\ Absent \notin Contents \cup Texts \cup Reads \cup Rows
ASSUME BoundsAssumption ==
  /\ OldSchemas \subseteq 0 .. Latest
  /\ MaxClock \in Nat /\ MaxPasses \in Nat /\ MaxFaults \in Nat

VARIABLES
  disk, mtime,     \* the file's content, and when it was last changed
  schema,          \* migrations whose DDL is in the database
  recorded,        \* schema_migrations
  row, mark,       \* the file's row; pending_files
  stage,           \* process -> where it is
  found,           \* process -> the version apply read, or a session's
  snapshot,        \* process -> the row as file_snapshot returned it
  stamp,           \* process -> the mtime of detect's stat
  before,          \* process -> the mtime of read_stable's first stat
  half,            \* process -> what it has read so far
  tries,           \* process -> reads given up
  read,            \* process -> its stable read
  kind,            \* process -> its classification of the file
  passes, faults,
  touched,         \* history: processes whose snapshot is not the row any more
  overtaken,       \* history: a touch was written to a row it was not decided on
  wiped            \* history: a row with new ids was wiped

file == <<disk, mtime>>
db   == <<schema, recorded, row, mark>>
mine == <<found, snapshot, stamp, before, half, tries, read, kind>>
hist == <<touched, overtaken, wiped>>
vars == <<file, db, stage, mine, passes, faults, hist>>

Kinds == {"none", "created", "modified", "touched", "deleted", "unverified"}

TypeOK ==
  /\ disk \in Contents \cup {Absent} /\ mtime \in 0 .. MaxClock
  /\ schema \subseteq 1 .. Latest /\ recorded \subseteq 1 .. Latest
  /\ row \in Rows \cup {Absent} /\ mark \in 0 .. 1
  /\ stage \in [Procs -> Stages]
  /\ found \in [Procs -> 0 .. Latest]
  /\ snapshot \in [Procs -> Rows \cup {Absent}]
  /\ stamp \in [Procs -> 0 .. MaxClock] /\ before \in [Procs -> 0 .. MaxClock]
  /\ half \in [Procs -> Contents \cup Texts \cup {Absent}]
  /\ tries \in [Procs -> 0 .. Tries - 1] /\ read \in [Procs -> Reads \cup {Absent}]
  /\ kind \in [Procs -> Kinds]
  /\ passes \in 0 .. MaxPasses /\ faults \in 0 .. MaxFaults
  /\ touched \subseteq Procs /\ overtaken \in BOOLEAN /\ wiped \in BOOLEAN

Init ==
  /\ disk \in Contents \cup {Absent} /\ mtime = 0
  /\ \E n \in OldSchemas :
       /\ schema = 1 .. n /\ recorded = 1 .. n
       /\ row \in IF n = 0 \/ disk = Absent THEN {Absent}
                  ELSE IF n < Wipes THEN {[text |-> Absent, mtime |-> Absent, ids |-> "old"]}
                  ELSE {[text |-> Whole(disk), mtime |-> 0, ids |-> "new"]}
  /\ mark = 0
  /\ stage = [p \in Procs |-> "closed"] /\ found = [p \in Procs |-> 0]
  /\ snapshot = [p \in Procs |-> Absent] /\ read = snapshot /\ half = snapshot
  /\ stamp = found /\ before = found /\ tries = found
  /\ kind = [p \in Procs |-> "none"]
  /\ passes = 0 /\ faults = 0
  /\ touched = {} /\ overtaken = FALSE /\ wiped = FALSE

To(p, s) == stage' = [stage EXCEPT ![p] = s]
\* The row changed under everybody else.
Overtake(p) == touched' = touched \cup {q \in Procs \ {p} : stage[q] \notin {"closed", "opening", "open"}}

-----------------------------------------------------------------------------
(* The file.                                                               *)

Change ==
  /\ mtime < MaxClock /\ mtime' = mtime + 1
  /\ disk' \in (Contents \cup {Absent}) \ {IF disk = Absent THEN Absent ELSE disk}
  /\ UNCHANGED <<db, stage, mine, passes, faults, hist>>
Touch ==
  /\ disk # Absent /\ mtime < MaxClock /\ mtime' = mtime + 1
  /\ UNCHANGED <<disk, db, stage, mine, passes, faults, hist>>

-----------------------------------------------------------------------------
(* db::open and migrations::apply.                                         *)

Newest == IF recorded = {} THEN 0 ELSE CHOOSE n \in recorded : \A m \in recorded : m <= n

\* The version is read once, outside any transaction.
Open(p) ==
  /\ stage[p] = "closed"
  /\ found' = [found EXCEPT ![p] = Newest]
  /\ To(p, "opening")
  /\ UNCHANGED <<file, db, snapshot, stamp, before, half, tries, read, kind, passes, faults, hist>>

\* CREATE TABLE and ADD COLUMN fail on what is there; migration 7 says IF NOT
\* EXISTS.  A version can be recorded once.
Applies(v) == (v = 7 \/ v \notin schema) /\ v \notin recorded

\* One migration is one transaction: its DDL, and 0003's wipe, and its record.
\* Mutant: the wipe is not in it.
MigrateWiping(p) ==
  LET v == found[p] + 1
  IN /\ stage[p] = "opening" /\ v <= Latest /\ (Applies(v) \/ v = Wipes)
     /\ schema' = schema \cup {v} /\ recorded' = recorded \cup {v}
     /\ found' = [found EXCEPT ![p] = v]
     /\ row' = (IF v = Wipes THEN Absent ELSE row)
     /\ wiped' = (wiped \/ (v = Wipes /\ row # Absent /\ row.ids = "new"))
     /\ IF v = Wipes THEN Overtake(p) ELSE UNCHANGED touched
     /\ UNCHANGED <<file, mark, stage, snapshot, stamp, before, half, tries, read, kind, passes,
                    faults, overtaken>>
\* Mutant: the record is a transaction of its own.
MigrateInTwo(p) ==
  LET v == found[p] + 1
      ddl == v \notin schema
  IN /\ stage[p] = "opening" /\ v <= Latest /\ v \notin recorded
     /\ schema' = schema \cup {v}
     /\ recorded' = (IF ddl THEN recorded ELSE recorded \cup {v})
     /\ found' = [found EXCEPT ![p] = IF ddl THEN @ ELSE v]
     /\ row' = (IF v = Wipes /\ ddl THEN Absent ELSE row)
     /\ UNCHANGED <<file, mark, stage, snapshot, stamp, before, half, tries, read, kind, passes,
                    faults, hist>>
Migrate(p) ==
  LET v == found[p] + 1
  IN /\ stage[p] = "opening" /\ v <= Latest /\ Applies(v)
     /\ schema' = schema \cup {v} /\ recorded' = recorded \cup {v}
     /\ found' = [found EXCEPT ![p] = v]
     /\ row' = (IF v = Wipes THEN Absent ELSE row)
     /\ wiped' = (wiped \/ (v = Wipes /\ row # Absent /\ row.ids = "new"))
     /\ IF v = Wipes THEN Overtake(p) ELSE UNCHANGED touched
     /\ UNCHANGED <<file, mark, stage, snapshot, stamp, before, half, tries, read, kind, passes,
                    faults, overtaken>>
\* Somebody else was faster: the transaction rolls back and open fails.
\* Mutant: the same migration is tried for ever.
MigrateStuck(p) == FALSE
MigrateFails(p) ==
  /\ stage[p] = "opening" /\ found[p] < Latest /\ ~Applies(found[p] + 1)
  /\ To(p, "closed") /\ found' = [found EXCEPT ![p] = 0]
  /\ UNCHANGED <<file, db, snapshot, stamp, before, half, tries, read, kind, passes, faults, hist>>
Opened(p) ==
  /\ stage[p] = "opening" /\ found[p] = Latest
  /\ To(p, "open")
  /\ UNCHANGED <<file, db, mine, passes, faults, hist>>

-----------------------------------------------------------------------------
(* detect.                                                                 *)

\* The locals of a pass go with it.
Return(p) ==
  /\ snapshot' = [snapshot EXCEPT ![p] = Absent] /\ read' = [read EXCEPT ![p] = Absent]
  /\ half' = [half EXCEPT ![p] = Absent] /\ kind' = [kind EXCEPT ![p] = "none"]
  /\ stamp' = [stamp EXCEPT ![p] = 0] /\ before' = [before EXCEPT ![p] = 0]
  /\ tries' = [tries EXCEPT ![p] = 0] /\ touched' = touched \ {p}

\* The walk, then file_snapshot.  The file is listed or it is not.
Detect(p) ==
  /\ stage[p] = "open" /\ passes < MaxPasses
  /\ passes' = passes + 1
  /\ snapshot' = [snapshot EXCEPT ![p] = row] /\ touched' = touched \ {p}
  /\ \/ /\ disk = Absent /\ row = Absent /\ To(p, "record") /\ UNCHANGED kind
     \/ /\ disk = Absent /\ row # Absent /\ To(p, "publish")
        /\ kind' = [kind EXCEPT ![p] = "deleted"]
     \/ /\ disk # Absent /\ row = Absent /\ To(p, "publish")
        /\ kind' = [kind EXCEPT ![p] = "created"]
     \/ /\ disk # Absent /\ row # Absent /\ To(p, "stat") /\ UNCHANGED kind
  /\ UNCHANGED <<file, db, found, stamp, before, half, tries, read, faults, overtaken, wiped>>

\* A file that has vanished since the walk is skipped; equal stats: unchanged.
Stat(p) ==
  /\ stage[p] = "stat"
  /\ stamp' = [stamp EXCEPT ![p] = mtime]
  /\ To(p, IF disk = Absent \/ snapshot[p].mtime = mtime THEN "record" ELSE "before")
  /\ UNCHANGED <<file, db, found, snapshot, before, half, tries, read, kind, passes, faults, hist>>

\* read_stable: stat, read, stat.
ReadBefore(p) ==
  /\ stage[p] = "before" /\ disk # Absent
  /\ before' = [before EXCEPT ![p] = mtime] /\ To(p, "head")
  /\ UNCHANGED <<file, db, found, snapshot, stamp, half, tries, read, kind, passes, faults, hist>>
ReadHead(p) ==
  /\ stage[p] = "head" /\ disk # Absent
  /\ half' = [half EXCEPT ![p] = disk] /\ To(p, "tail")
  /\ UNCHANGED <<file, db, found, snapshot, stamp, before, tries, read, kind, passes, faults, hist>>
ReadTail(p) ==
  /\ stage[p] = "tail" /\ disk # Absent
  /\ half' = [half EXCEPT ![p] = <<@, disk>>] /\ To(p, "after")
  /\ UNCHANGED <<file, db, found, snapshot, stamp, before, tries, read, kind, passes, faults, hist>>

\* Where a read leads: a modified or touched file is classified, a created one
\* is written.
Classified(p, text) ==
  IF kind[p] = "created" THEN "created"
  ELSE IF text = snapshot[p].text THEN "touched" ELSE "modified"
After(k) == CASE k = "touched" -> "touch" [] k = "modified" -> "publish" [] k = "created" -> "commit"

\* Mutant: one stat is enough.
StableOnce(p) == TRUE
Stable(p) == mtime = before[p]

ReadAfter(p) ==
  /\ stage[p] = "after" /\ disk # Absent /\ Stable(p)
  /\ LET k == Classified(p, half[p])
     IN /\ kind' = [kind EXCEPT ![p] = k] /\ To(p, After(k))
  /\ read' = [read EXCEPT ![p] = [text |-> half[p], mtime |-> mtime]]
  /\ half' = [half EXCEPT ![p] = Absent]
  /\ UNCHANGED <<file, db, found, snapshot, stamp, before, tries, passes, faults, hist>>
LastTry(p) == tries[p] + 1 = Tries
ReadAgain(p) ==
  /\ stage[p] = "after" /\ disk # Absent /\ ~Stable(p) /\ ~LastTry(p)
  /\ tries' = [tries EXCEPT ![p] = @ + 1] /\ half' = [half EXCEPT ![p] = Absent]
  /\ To(p, "before")
  /\ UNCHANGED <<file, db, found, snapshot, stamp, before, read, kind, passes, faults, hist>>
\* It keeps changing, or it is gone: unverified, but for a created file the
\* batch fails as a whole, with the mark left.
ReadFails(p) ==
  /\ stage[p] \in {"before", "head", "tail", "after"}
  /\ \/ disk = Absent
     \/ stage[p] = "after" /\ ~Stable(p) /\ LastTry(p)
  /\ IF kind[p] = "created"
     THEN To(p, "open") /\ Return(p)
     ELSE /\ To(p, "record") /\ kind' = [kind EXCEPT ![p] = "unverified"]
          /\ half' = [half EXCEPT ![p] = Absent]
          /\ UNCHANGED <<snapshot, stamp, before, tries, read, touched>>
  /\ UNCHANGED <<file, db, found, passes, faults, overtaken, wiped>>

-----------------------------------------------------------------------------
(* apply_batch.                                                            *)

\* touch_files: UPDATE files SET modified_ns, whatever the row holds by now.
TouchRow(p) ==
  /\ stage[p] = "touch" /\ To(p, "record")
  /\ row' = IF row = Absent THEN Absent ELSE [row EXCEPT !.mtime = stamp[p]]
  /\ overtaken' = (overtaken \/ (p \in touched /\ row # Absent))
  /\ Overtake(p)
  /\ UNCHANGED <<file, schema, recorded, mark, mine, passes, faults, wiped>>

Publish(p) ==
  /\ stage[p] = "publish" /\ mark' = 1
  /\ To(p, IF kind[p] = "created" THEN "before" ELSE "commit")
  /\ UNCHANGED <<file, schema, recorded, row, mine, passes, faults, hist>>

\* T2: the row takes the time the bytes were read at.
Commit(p) ==
  /\ stage[p] = "commit" /\ To(p, "record") /\ mark' = 0
  /\ row' = IF kind[p] = "deleted" THEN Absent
            ELSE [text |-> read[p].text, mtime |-> read[p].mtime, ids |-> "new"]
  /\ Overtake(p)
  /\ UNCHANGED <<file, schema, recorded, mine, passes, faults, overtaken, wiped>>

\* record_unverified.
Record(p) ==
  /\ stage[p] = "record" /\ To(p, "open")
  /\ mark' = (IF kind[p] = "unverified" THEN 1 ELSE 0)
  /\ Return(p)
  /\ UNCHANGED <<file, schema, recorded, row, found, passes, faults, overtaken, wiped>>

-----------------------------------------------------------------------------
\* The process dies, or SQLite reports an error (busy for five seconds, a full
\* disk); what was not committed is gone.
Crash(p) ==
  /\ faults < MaxFaults /\ stage[p] # "closed" /\ faults' = faults + 1
  /\ To(p, "closed") /\ found' = [found EXCEPT ![p] = 0] /\ Return(p)
  /\ UNCHANGED <<file, db, passes, overtaken, wiped>>

Opening(p) == Open(p) \/ Migrate(p) \/ MigrateFails(p) \/ Opened(p)
Pass(p) ==
  \/ Detect(p) \/ Stat(p) \/ ReadBefore(p) \/ ReadHead(p) \/ ReadTail(p)
  \/ ReadAfter(p) \/ ReadAgain(p) \/ ReadFails(p)
  \/ TouchRow(p) \/ Publish(p) \/ Commit(p) \/ Record(p)
Next ==
  \/ Change \/ Touch
  \/ \E p \in Procs : Opening(p) \/ Pass(p) \/ Crash(p)

\* Who cannot open the index tries again, and a process that runs goes on.
Spec == Init /\ [][Next]_vars /\ \A p \in Procs : WF_vars(Opening(p))

-----------------------------------------------------------------------------
(* Correctness.                                                            *)

\* The schema is what schema_migrations says, without a gap, whoever migrated
\* it and whoever died at it.
SchemaIsRecorded == schema = recorded /\ recorded = 1 .. Newest

\* Migration 0003 leaves no row under the old ids, and never takes one that
\* was indexed under the new ones: not even from a process that found the
\* version before another had gone past it, indexed and closed.
WipedOnce == ~wiped /\ (Wipes \in recorded /\ row # Absent => row.ids = "new")

\* A row is a version of the file, not half of one and half of the next, and
\* when its mtime is that of the file it is this version, so that detect may take
\* equal stats for equal contents; but for a touch_files that came after another
\* process had written the row.
RowIsOneVersion ==
  row # Absent /\ row.ids = "new" /\ ~overtaken =>
    /\ \E c \in Contents : row.text = Whole(c)
    /\ disk # Absent /\ row.mtime = mtime => row.text = Whole(disk)

\* A race for the migrations is lost by a process at most for a while.
Opens == \A p \in Procs : []<>(stage[p] \notin {"closed", "opening"})
=============================================================================
