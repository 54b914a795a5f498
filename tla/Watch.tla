------------------------------- MODULE Watch --------------------------------
(***************************************************************************)
(* `codekurve watch` (crates/codekurve/src/watch.rs) and `codekurve index` *)
(* (commands.rs) around the passes of ProjectIndex.tla.                    *)
(*                                                                         *)
(* The watcher registers with the operating system, reconciles once, and   *)
(* then runs the debounce loop: events move from the queue into the        *)
(* pending set, a timeout flushes the pending set as one batch, a failed   *)
(* flush keeps it and is tried again, at most MaxRetries times, the last   *)
(* time as a full sweep.  The lengths of the quiet window, the hard cap    *)
(* and the backoff are left out: a timeout may come whenever the loop      *)
(* waits.                                                                  *)
(***************************************************************************)
EXTENDS ProjectIndex

CONSTANTS
  MaxRetries,  \* MAX_RETRIES
  ConfigEdits, \* the edits of the configuration the environment makes, a set
               \* of pairs <<before, after>>
  MaxStarts,   \* bound: processes started
  MaxFaults,   \* bound: database and I/O errors
  MaxCrashes,  \* bound: process deaths
  CfgPath,     \* the path of tsconfig.json or .codekurve/config.toml
  Sweep        \* the root path, or the full-sweep marker

Paths == Files \cup {CfgPath, Sweep}

ASSUME PathsAssumption ==
  CfgPath \notin Files /\ Sweep \notin Files /\ CfgPath # Sweep
ASSUME WatchAssumption ==
  /\ MaxRetries \in Nat \ {0}
  /\ ConfigEdits \subseteq Configs \X Configs
  /\ MaxStarts \in Nat /\ MaxFaults \in Nat /\ MaxCrashes \in Nat

VARIABLES
  life,     \* "down", "index" (one run of the command), "setup" (before the
            \* watcher is registered), "startup" (reconcile), "loop"
  reload,   \* this flush reloads the configuration and reconciles
  events,   \* paths reported by the system and not yet received
  pending,  \* the debounce loop's pending set
  retries,  \* failed flushes of this pending set
  starts, faults, crashes,
  \* history, never read by the program
  gaveUp,   \* a pending set was abandoned and no sweep has succeeded since
  blind,    \* files the last pass over them could not look at
  former,   \* configurations the project had before an edit
  overlooked \* files that the last stamped pass of a new fingerprint missed

loop   == <<reload, events, pending, retries>>
budget == <<starts, faults, crashes>>
memory == <<gaveUp, blind, former, overlooked>>
vars   == <<project, database, pass, moved, life, loop, budget, memory>>

TypeOK ==
  /\ EngineTypeOK
  /\ life \in {"down", "index", "setup", "startup", "loop"}
  /\ reload \in BOOLEAN
  /\ events \subseteq Paths /\ pending \subseteq Paths
  /\ retries \in 0..MaxRetries
  /\ starts \in Nat /\ faults \in Nat /\ crashes \in Nat
  /\ gaveUp \in BOOLEAN
  /\ blind \subseteq Files /\ overlooked \subseteq Files
  /\ former \subseteq Configs

Init ==
  /\ EngineInit
  /\ life = "down"
  /\ reload = FALSE
  /\ events = {} /\ pending = {} /\ retries = 0
  /\ starts = 0 /\ faults = 0 /\ crashes = 0
  /\ gaveUp = FALSE /\ blind = {} /\ former = {} /\ overlooked = {}

\* Faulty variant: the watcher is registered after the initial reconcile.
RegisteredLate == life = "loop"

Registered == life \in {"startup", "loop"}

\* The pass in progress runs inside reconcile (or index): it sweeps under the
\* configuration just loaded and stamps it.
Reconciling == life \in {"index", "startup"} \/ reload

-----------------------------------------------------------------------------
(* The environment.  Once the watcher is registered every change is        *)
(* reported: as its own path, or, when the system dropped events, as a     *)
(* request to rescan the root.                                             *)

Report(p) ==
  IF Registered THEN \E q \in {p, Sweep} : events' = events \cup {q}
  ELSE UNCHANGED events

ChangeFile ==
  \E f \in Files :
    /\ WriteFile(f) \/ TouchFile(f) \/ DeleteFile(f) \/ \E a \in Accesses : Chmod(f, a)
    /\ Report(f)
    /\ UNCHANGED <<life, reload, pending, retries, budget, memory>>

ChangeConfig ==
  \E c \in Configs :
    /\ <<diskCfg, c>> \in ConfigEdits
    /\ EditConfig(c)
    /\ Report(CfgPath)
    /\ former' = former \cup {diskCfg}
    /\ UNCHANGED <<life, reload, pending, retries, budget, gaveUp, blind, overlooked>>

Environment == ChangeFile \/ ChangeConfig

-----------------------------------------------------------------------------
(* Processes come and go.                                                  *)

\* setup_index, by either command.
Start(l) ==
  /\ life = "down"
  /\ starts < MaxStarts
  /\ starts' = starts + 1
  /\ life' = l
  /\ conf' = diskCfg
  /\ IF l = "index"
     THEN BeginPass(Files, TRUE, stamp # diskCfg)
     ELSE UNCHANGED <<phase, locals>>
  /\ UNCHANGED <<project, database, loop, faults, crashes, memory>>

StartIndex == Start("index")
StartWatch == Start("setup")

\* The watcher is registered first, then reconcile begins.
Register ==
  /\ life = "setup"
  /\ life' = "startup"
  /\ BeginPass(Files, TRUE, stamp # conf)
  /\ UNCHANGED <<project, database, conf, loop, budget, memory>>

\* The process is gone; its memory and the events queued for it with it.
Die ==
  /\ life' = "down"
  /\ EndPass
  /\ reload' = FALSE
  /\ events' = {} /\ pending' = {} /\ retries' = 0
  /\ UNCHANGED <<project, database, conf, starts, memory>>

Crash ==
  /\ life # "down"
  /\ crashes < MaxCrashes
  /\ crashes' = crashes + 1
  /\ Die
  /\ UNCHANGED faults

-----------------------------------------------------------------------------
(* debounce_loop and apply_flush.                                          *)

Waiting == life = "loop" /\ phase = "idle"

Receive ==
  /\ Waiting
  /\ \E p \in events :
       /\ events' = events \ {p}
       /\ pending' = pending \cup {p}
  /\ UNCHANGED <<project, database, pass, moved, life, reload, retries, budget, memory>>

\* A timeout with something pending; no configuration input among it.
FlushPaths ==
  /\ Waiting
  /\ pending # {} /\ CfgPath \notin pending
  /\ reload' = FALSE
  /\ \/ Sweep \in pending /\ BeginPass(Files, TRUE, FALSE)
     \/ Sweep \notin pending /\ BeginPass(pending \cap Files, FALSE, FALSE)
  /\ UNCHANGED <<project, database, conf, life, events, pending, retries, budget, memory>>

\* config_inputs_changed: setup_index again, then reconcile.
FlushConfig ==
  /\ Waiting
  /\ CfgPath \in pending
  /\ reload' = TRUE
  /\ conf' = diskCfg
  /\ BeginPass(Files, TRUE, stamp # diskCfg)
  /\ UNCHANGED <<project, database, life, events, pending, retries, budget, memory>>

\* Faulty variant: one retry too many.
KeepPendingOnceMore ==
  /\ retries <= MaxRetries
  /\ retries' = retries + 1
  /\ pending' = IF retries + 1 = MaxRetries THEN {Sweep} ELSE pending
  /\ UNCHANGED memory

\* Faulty variant: the attempts are not counted.
KeepPendingForever ==
  /\ retries < MaxRetries
  /\ UNCHANGED <<retries, pending, memory>>

\* Flush::Retry.
KeepPending ==
  /\ retries < MaxRetries
  /\ retries' = retries + 1
  /\ pending' = IF retries + 1 = MaxRetries THEN {Sweep} ELSE pending
  /\ UNCHANGED memory

GiveUp ==
  /\ retries = MaxRetries
  /\ retries' = 0
  /\ pending' = {}
  /\ gaveUp' = TRUE
  /\ UNCHANGED <<blind, former, overlooked>>

Retry ==
  /\ life = "loop"
  /\ EndPass
  /\ reload' = FALSE
  /\ KeepPending \/ GiveUp
  /\ UNCHANGED <<project, database, conf, life, events, starts>>

\* setup_index fails while the configuration is being reloaded.
ReloadFails ==
  /\ Waiting
  /\ CfgPath \in pending
  /\ faults < MaxFaults
  /\ faults' = faults + 1
  /\ KeepPending \/ GiveUp
  /\ UNCHANGED <<project, database, pass, moved, life, reload, events, starts, crashes>>

\* Flush::Done, or the end of the initial reconcile or of `index`.
Settle ==
  /\ blind' = (blind \ scope) \cup missed
  /\ gaveUp' = (gaveUp /\ ~sweep)
  /\ UNCHANGED <<former, overlooked>>

Finish ==
  /\ phase = IF Reconciling THEN "stamped" ELSE "applied"
  /\ Settle
  /\ EndPass
  /\ reload' = FALSE
  /\ pending' = {} /\ retries' = 0
  /\ life' = IF life = "index" THEN "down" ELSE "loop"
  /\ UNCHANGED <<project, database, conf, events, budget>>

\* An error of a pass: the loop retries, anything else ends the process.
Failed ==
  /\ phase = "failed" \/ (phase = "fatal" /\ reload)
  /\ \/ Retry
     \/ life # "loop" /\ Die
  /\ UNCHANGED <<faults, crashes>>

\* DetectError::Discovery outside reload ends the process.
Fatal ==
  /\ phase = "fatal" /\ ~reload
  /\ Die
  /\ UNCHANGED <<faults, crashes>>

-----------------------------------------------------------------------------

EngineStep ==
  /\ PassStep
  /\ UNCHANGED <<life, loop, budget, memory>>

StampStep ==
  /\ Reconciling
  /\ Stamp
  /\ overlooked' = IF force THEN missed ELSE overlooked
  /\ UNCHANGED <<life, loop, budget, gaveUp, blind, former>>

Fault ==
  /\ faults < MaxFaults
  /\ faults' = faults + 1
  /\ Fails \/ (Reconciling /\ StampFails)
  /\ UNCHANGED <<life, loop, starts, crashes, memory>>

Scheduled ==
  \/ Register \/ FlushPaths \/ FlushConfig
  \/ EngineStep \/ StampStep \/ Finish \/ Failed \/ Fatal

Next ==
  \/ Environment
  \/ StartIndex \/ StartWatch \/ Crash
  \/ Receive \/ Scheduled
  \/ ReloadFails \/ Fault

\* One thread runs the passes and the loop: it takes its next step whenever it
\* has one.  A received event only postpones a flush, and not beyond
\* max_batch_wait, so a flush is not starved by arrivals; nor are arrivals by
\* flushes.  Nobody promises to start a process, to change a file or to fail.
Fairness == WF_vars(Scheduled) /\ WF_vars(Receive)

Spec == Init /\ [][Next]_vars
FairSpec == Spec /\ Fairness

-----------------------------------------------------------------------------
(* Properties.                                                             *)

Queue == events \cup pending

\* f will be looked at again: its path, or a request for everything, is queued.
Queued(f) == f \in Queue \/ Sweep \in Queue \/ CfgPath \in Queue

\* No change of a file is forgotten.  While the watcher waits, a file whose
\* row and content disagree is still queued, or could not be looked at when
\* last tried, or belongs to a pending set the loop gave up.  Registering the
\* watcher before the first reconcile, keeping a failed flush pending and the
\* order of reading and committing in a pass all serve this.
NoLostChange ==
  Waiting => \A f \in Files : Match(f) \/ Queued(f) \/ f \in blind \/ gaveUp

\* The fast path never hides a change: a row and a file with the same mtime
\* have the same content, whatever interleaving of writes, reads and touches
\* produced the row.
FastPathSound ==
  \A f \in Files : Stored(f) /\ OnDisk(f) /\ SameStat(f) => rows[f].content = disk[f].content

\* A pass that leaves the index unmarked has verified its scope: every stored
\* file in it agrees with the disk unless it was changed after the pass began.
HonestPass ==
  phase \in {"applied", "stamped"} /\ mark = 0 =>
    \A f \in scope : Stored(f) => Match(f) \/ f \in moved

\* A pass forced by a new fingerprint leaves no row of an older analysis, or
\* leaves the index marked stale.
ForcedPassReanalyses ==
  phase \in {"applied", "stamped"} /\ force /\ mark = 0 =>
    \A f \in Files : Stored(f) => rows[f].cfg = conf

\* A row of another analysis is found out at the next start: the fingerprint on
\* record is not that of the configuration on disk, so the whole project will
\* be analysed again.  Two ways out are real: a configuration that comes back
\* after an edit, and a file that could not be looked at by the pass that
\* stamped the new fingerprint.
StampHonest ==
  diskCfg \notin former =>
    \A f \in Files \ overlooked : Stored(f) /\ rows[f].cfg # diskCfg => stamp # diskCfg

\* Nothing rolls a row back to an older version of its file.
NoRollback ==
  [][\A f \in Files : Stored(f) /\ Stored(f)' => rows'[f].mtime >= rows[f].mtime]_vars

\* A change of a file reaches the index, or the loop reports that it cannot:
\* the file could not be looked at, the pending set was given up after the
\* last retry, or the process is gone.
Settles ==
  \A f \in Files :
    ~Match(f) ~> (Match(f) \/ f \in blind \/ gaveUp \/ life = "down")

=============================================================================
