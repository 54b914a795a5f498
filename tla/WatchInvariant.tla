--------------------------- MODULE WatchInvariant ---------------------------
(***************************************************************************)
(* The inductive invariant behind NoLostChange, FastPathSound, HonestPass  *)
(* and NoRollback, and what ForcedPassReanalyses and StampHonest need on   *)
(* top of it.  WatchProofs.tla proves them.                                *)
(***************************************************************************)
EXTENDS Watch

\* Which phases go with which kind of process, and what a sweep covers.
LifeShape ==
  /\ life \in {"down", "setup"} => phase = "idle"
  /\ life \in {"index", "startup"} => phase # "idle"
  /\ reload => life = "loop"
  /\ phase # "idle" /\ Reconciling => sweep
  /\ sweep => scope = Files

\* The pass answers for all that is pending.
ScopeOfPending ==
  life = "loop" /\ phase # "idle" =>
    \A f \in Files : f \in pending \/ Sweep \in pending \/ CfgPath \in pending <=> f \in scope

\* What changes during a pass is reported to a registered watcher.
MovedIsReported ==
  Registered /\ phase # "idle" => \A f \in moved : f \in events \/ Sweep \in events

-----------------------------------------------------------------------------
(* What a pass knows, phase by phase, of the files that have not moved.    *)

Detecting  == {"walk", "stat", "classify"}
Classified == {"touch", "publish", "read"}
Committed  == {"record", "applied", "stamped"}

\* Version v of f was on disk at some time, and is not newer than the disk.
Once(f, v) ==
  v # Absent =>
    /\ v.mtime <= clock
    /\ OnDisk(f) => v.mtime <= disk[f].mtime
    /\ OnDisk(f) /\ v.mtime = disk[f].mtime => v.content = disk[f].content

Genuine ==
  \A f \in Files :
    /\ OnDisk(f) => disk[f].mtime <= clock
    /\ Once(f, rows[f]) /\ Once(f, bytes[f]) /\ Once(f, staged[f])
    /\ phase \in Classified /\ Stored(f) /\ bytes[f] # Absent => rows[f].mtime <= bytes[f].mtime
    /\ phase = "commit" /\ Stored(f) /\ staged[f] # Absent => rows[f].mtime <= staged[f].mtime

BatchShape ==
  /\ batch.created \cup batch.modified \cup batch.deleted \subseteq scope
  /\ batch.touched \cup batch.unverified \subseteq scope
  /\ \A f \in batch.touched :
       phase = "touch" => Stored(f) /\ bytes[f] # Absent /\ rows[f].content = bytes[f].content
  /\ phase \in Classified =>
       \A f \in batch.modified : Stored(f) /\ bytes[f] # Absent
  /\ phase \in Classified =>
       \A f \in Files \ moved : bytes[f] # Absent => bytes[f] = disk[f] /\ access[f] = "ok"
  /\ phase \in Detecting => \A f \in Files : bytes[f] = Absent
  /\ phase \in Detecting \cup Classified => \A f \in Files : staged[f] = Absent

AfterWalk ==
  phase \in {"stat", "classify"} =>
    /\ walked \subseteq scope /\ unwalked \subseteq scope
    /\ missed = unwalked
    /\ \A f \in scope \ moved :
         (f \in walked <=> Walkable(f)) /\ (f \in unwalked <=> access[f] = "unwalkable")

\* A stat is no older than the row and no newer than the disk.
AfterStat ==
  phase = "classify" =>
    \A f \in Files :
      /\ stats[f] # Absent =>
           /\ stats[f] <= clock
           /\ Stored(f) => rows[f].mtime <= stats[f]
           /\ OnDisk(f) => stats[f] <= disk[f].mtime
      /\ f \in Compared \ moved => stats[f] = disk[f].mtime

AfterClassify ==
  phase \in Classified =>
    \A f \in scope \ moved :
      \/ f \in missed
      \/ f \in batch.created
      \/ f \in batch.modified /\ OnDisk(f)
      \/ f \in batch.deleted /\ ~OnDisk(f)
      \/ f \notin Real /\ Match(f)

AfterRead ==
  phase = "commit" =>
    \A f \in Files \ moved :
      /\ staged[f] # Absent => staged[f] = disk[f] /\ access[f] = "ok"
      /\ whole /\ staged[f] = Absent =>
           /\ ~OnDisk(f) \/ ~Stored(f)
           /\ f \in scope => ~OnDisk(f) \/ f \in missed
      /\ ~whole /\ staged[f] = Absent /\ f \in scope =>
           \/ f \in missed
           \/ f \in batch.deleted /\ ~OnDisk(f)
           \/ f \notin batch.deleted /\ Match(f)

AfterCommit ==
  phase \in Committed => \A f \in scope \ moved : f \in missed \/ Match(f)

\* A file the pass could not look at is counted as unverified, or has no row.
MissedIsCounted ==
  /\ phase \in Classified \cup {"commit"} \cup Committed =>
       \A f \in missed \ moved : f \in batch.unverified \/ (access[f] # "ok" /\ ~Stored(f))
  /\ phase \in {"applied", "stamped"} => mark = Cardinality(batch.unverified)

\* NoLostChange, for the whole life of the loop.
Accounted ==
  life = "loop" => \A f \in Files : Match(f) \/ Queued(f) \/ f \in blind \/ gaveUp

PassInv ==
  /\ BatchShape /\ AfterWalk /\ AfterStat /\ AfterClassify
  /\ AfterRead /\ AfterCommit /\ MissedIsCounted

IInv ==
  /\ TypeOK /\ LifeShape /\ ScopeOfPending /\ MovedIsReported
  /\ Genuine /\ PassInv /\ Accounted

-----------------------------------------------------------------------------
(* What a pass under a new fingerprint knows, on top of IInv.  It compares  *)
(* no file with its row, so it rewrites, deletes or counts every row.       *)

ForcedInv ==
  force =>
    /\ sweep
    /\ phase \in Classified =>
         /\ batch.modified = {} /\ batch.touched = {}
         /\ \A f \in Files :
              Stored(f) => f \in batch.created \cup batch.deleted \cup batch.unverified
    /\ phase = "commit" =>
         \A f \in Files :
           Stored(f) => whole \/ staged[f] # Absent \/ f \in batch.deleted \cup batch.unverified
    /\ phase \in Committed =>
         \A f \in Files : Stored(f) => rows[f].cfg = conf \/ f \in batch.unverified

-----------------------------------------------------------------------------
(* Whose analysis a row is.  Every configuration in use was on disk; while  *)
(* the one on disk is new, its fingerprint is on record only after a pass   *)
(* of it has rewritten every row that it could look at.                     *)

StampInv ==
  /\ conf \in former \cup {diskCfg} /\ stamp \in former \cup {diskCfg, Absent}
  /\ \A f \in Files : Stored(f) => rows[f].cfg \in former \cup {diskCfg}
  /\ diskCfg \notin former /\ stamp = diskCfg =>
       /\ conf = diskCfg
       /\ \A f \in Files \ overlooked : Stored(f) => rows[f].cfg = diskCfg
  /\ phase # "idle" /\ Reconciling /\ ~force => stamp = conf
  /\ batch.unverified \subseteq missed /\ (phase = "walk" => batch.unverified = {})

=============================================================================
