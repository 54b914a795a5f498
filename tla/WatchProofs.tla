---------------------------- MODULE WatchProofs -----------------------------
(***************************************************************************)
(* Proofs about the watcher and its passes, for every set of files, every  *)
(* cap, threshold, retry limit and bound.                                  *)
(***************************************************************************)
EXTENDS WatchInvariant, FiniteSetTheorems, TLAPS

USE DEF project, database, loaded, findings, plan, history, pass, locals,
        loop, budget, memory, vars

LEMMA CountsAreNat ==
  ASSUME NEW S \in SUBSET Files
  PROVE  Cardinality(S) \in Nat /\ (Cardinality(S) = 0 <=> S = {})
BY FilesAssumption, FS_Subset, FS_CardinalityType, FS_EmptySet

\* The steps of a pass keep every variable in its type; that a touched file
\* has a row and was read is part of what the pass knows.
LEMMA PassTypes ==
  ASSUME EngineTypeOK, BatchShape, PassStep
  PROVE  EngineTypeOK'
<1> USE DEF EngineTypeOK, Phases, Batches
<1>1. CASE Walk
  BY <1>1 DEF Walk, Walkable, OnDisk
<1>2. CASE Stat
  <2>1. stats' \in [Files -> Nat \cup {Absent}]
    BY <1>2 DEF Stat, Walkable, OnDisk, Versions
  <2>2. QED BY <1>2, <2>1 DEF Stat
<1>3. CASE Classify
  <2> DEFINE c == Classification
  <2>1. c \in Batches
    BY DEF Classification, Compared
  <2>2. ASSUME NEW f \in Files, f \in c.modified \cup c.touched
        PROVE  disk[f] \in Versions /\ stats[f] \in Nat
    BY <2>2 DEF Classification, OnDisk, Readable
  <2>3. bytes' \in [Files -> Versions \cup {Absent}]
    BY <1>3, <2>2 DEF Classify, Carried, Versions
  <2>4. QED BY <1>3, <2>1, <2>3 DEF Classify, AfterTouch
<1>4. CASE TooManyFiles
  BY <1>4 DEF TooManyFiles
<1>5. CASE \E f \in Files : TouchRow(f)
  <2>1. PICK f \in Files : TouchRow(f)
    BY <1>5
  <2>2. rows[f] \in Rows /\ bytes[f] \in Versions
    BY <2>1 DEF TouchRow, BatchShape, Stored
  <2>3. rows' \in [Files -> Rows \cup {Absent}]
    BY <2>1, <2>2 DEF TouchRow, Versions, Rows
  <2>4. batch' \in Batches
    BY <2>1 DEF TouchRow
  <2>5. QED BY <2>1, <2>3, <2>4 DEF TouchRow, AfterTouch
<1>6. CASE Publish
  BY <1>6, CountsAreNat DEF Publish, Real
<1>7. CASE \E D \in SUBSET (Tracked \ Real) : ReadBatch(D)
  BY <1>7 DEF ReadBatch
<1>8. CASE ReadProject
  BY <1>8 DEF ReadProject
<1>9. CASE ReadFails
  BY <1>9 DEF ReadFails
<1>10. CASE Commit
  BY <1>10 DEF Commit, Indexed, Versions, Rows
<1>11. CASE Record
  BY <1>11, CountsAreNat DEF Record
<1>12. QED
  BY <1>1, <1>3, <1>4, <1>5, <1>6, <1>7, <1>8, <1>9, <1>10, <1>11, <1>2 DEF PassStep

-----------------------------------------------------------------------------
(* The environment.                                                        *)

\* What any change of a file amounts to: one file differs, with a fresh mtime
\* if it is a new version, it counts as moved, and a registered watcher has
\* the report.
FileChanged(f) ==
  /\ \A g \in Files \ {f} : disk'[g] = disk[g] /\ access'[g] = access[g]
  /\ clock' = clock + 1
  /\ disk'[f] = Absent \/ disk'[f] = disk[f] \/ disk'[f].mtime = clock + 1
  /\ moved' = IF phase = "idle" THEN moved ELSE moved \cup {f}
  /\ events \subseteq events'
  /\ Registered => f \in events' \/ Sweep \in events'
  /\ UNCHANGED <<diskCfg, database, pass, life, reload, pending, retries, budget, memory>>

LEMMA ChangeFileEffect ==
  ASSUME TypeOK, ChangeFile
  PROVE  EngineTypeOK' /\ TypeOK' /\ \E f \in Files : FileChanged(f)
<1>1. PICK f \in Files :
        /\ WriteFile(f) \/ TouchFile(f) \/ DeleteFile(f) \/ \E a \in Accesses : Chmod(f, a)
        /\ Report(f)
        /\ UNCHANGED <<life, reload, pending, retries, budget, memory>>
  BY DEF ChangeFile
<1>2. /\ events \subseteq events' /\ events' \subseteq Paths
      /\ Registered => f \in events' \/ Sweep \in events'
  BY <1>1 DEF Report, TypeOK, Paths
<1>3. CASE WriteFile(f)
  <2>1. disk'[f].mtime = clock + 1 /\ disk' \in [Files -> Versions \cup {Absent}]
    BY <1>3 DEF WriteFile, Tick, TypeOK, EngineTypeOK, Versions
  <2>2. FileChanged(f)
    BY <1>1, <1>2, <1>3, <2>1 DEF WriteFile, Tick, Moves, FileChanged, TypeOK, EngineTypeOK
  <2>3. EngineTypeOK'
    BY <1>3, <2>1 DEF WriteFile, Tick, Moves, TypeOK, EngineTypeOK
  <2>4. QED BY <1>1, <1>2, <2>2, <2>3 DEF TypeOK
<1>4. CASE TouchFile(f)
  <2>1. disk[f] \in Versions
    BY <1>4 DEF TouchFile, OnDisk, TypeOK, EngineTypeOK
  <2>2. disk'[f].mtime = clock + 1 /\ disk' \in [Files -> Versions \cup {Absent}]
    BY <1>4, <2>1 DEF TouchFile, Tick, TypeOK, EngineTypeOK, Versions
  <2>3. FileChanged(f)
    BY <1>1, <1>2, <1>4, <2>2 DEF TouchFile, Tick, Moves, FileChanged, TypeOK, EngineTypeOK
  <2>4. EngineTypeOK'
    BY <1>4, <2>2 DEF TouchFile, Tick, Moves, TypeOK, EngineTypeOK
  <2>5. QED BY <1>1, <1>2, <2>3, <2>4 DEF TypeOK
<1>5. CASE DeleteFile(f)
  <2>1. FileChanged(f)
    BY <1>1, <1>2, <1>5 DEF DeleteFile, Tick, Moves, FileChanged, TypeOK, EngineTypeOK
  <2>2. EngineTypeOK'
    BY <1>5 DEF DeleteFile, Tick, Moves, TypeOK, EngineTypeOK
  <2>3. QED BY <1>1, <1>2, <2>1, <2>2 DEF TypeOK
<1>6. CASE \E a \in Accesses : Chmod(f, a)
  <2>1. FileChanged(f)
    BY <1>1, <1>2, <1>6 DEF Chmod, Tick, Moves, FileChanged, TypeOK, EngineTypeOK
  <2>2. EngineTypeOK'
    BY <1>6 DEF Chmod, Tick, Moves, TypeOK, EngineTypeOK
  <2>3. QED BY <1>1, <1>2, <2>1, <2>2 DEF TypeOK
<1>7. QED BY <1>1, <1>3, <1>4, <1>5, <1>6

LEMMA ChangeFileKeeps ==
  ASSUME IInv, ChangeFile
  PROVE  IInv'
<1> USE DEF IInv
<1>1. PICK f \in Files : FileChanged(f)
  BY ChangeFileEffect
<1>2. TypeOK'
  BY ChangeFileEffect
<1>3. LifeShape' /\ ScopeOfPending'
  BY <1>1 DEF FileChanged, LifeShape, ScopeOfPending, Reconciling
<1>4. MovedIsReported'
  BY <1>1 DEF FileChanged, MovedIsReported, Registered
<1>5. Genuine'
  <2> SUFFICES ASSUME NEW g \in Files
               PROVE  /\ OnDisk(g)' => disk'[g].mtime <= clock'
                      /\ Once(g, rows[g])' /\ Once(g, bytes[g])' /\ Once(g, staged[g])'
    BY <1>1 DEF Genuine, FileChanged, Stored
  <2>1. \A v \in Versions \cup Rows \cup {Absent} : Once(g, v) => Once(g, v)'
    BY <1>1 DEF FileChanged, Once, OnDisk, Versions, Rows, TypeOK, EngineTypeOK, Genuine
  <2>2. OnDisk(g)' => disk'[g].mtime <= clock'
    BY <1>1 DEF FileChanged, OnDisk, Versions, TypeOK, EngineTypeOK, Genuine
  <2>3. QED
    BY <1>1, <2>1, <2>2 DEF FileChanged, Genuine, TypeOK, EngineTypeOK
<1>6. \A g \in Files \ moved' : phase # "idle" => /\ Match(g)' = Match(g) /\ OnDisk(g)' = OnDisk(g)
                                             /\ Walkable(g)' = Walkable(g)
                                             /\ disk'[g] = disk[g] /\ access'[g] = access[g]
  BY <1>1 DEF FileChanged, Match, OnDisk, Walkable, Stored
<1>7. moved \subseteq moved'
  BY <1>1 DEF FileChanged
<1>8. PassInv'
  <2>1. BatchShape' /\ AfterWalk' /\ AfterClassify'
    BY <1>1, <1>6, <1>7 DEF PassInv, FileChanged, BatchShape, Detecting, AfterWalk, AfterClassify,
          Classified, Stored, Real, TypeOK, EngineTypeOK
  <2>2. AfterRead' /\ AfterCommit'
    BY <1>1, <1>6, <1>7 DEF PassInv, FileChanged, AfterRead, AfterCommit, Committed,
          Stored, TypeOK, EngineTypeOK
  <2>3. MissedIsCounted'
    BY <1>1, <1>6, <1>7 DEF PassInv, FileChanged, MissedIsCounted, Classified, Committed,
          Stored, TypeOK, EngineTypeOK
  <2>4. AfterStat'
    <3> SUFFICES ASSUME phase = "classify", NEW g \in Files
                 PROVE  /\ stats[g] # Absent =>
                             /\ stats[g] <= clock'
                             /\ Stored(g) => rows[g].mtime <= stats[g]
                             /\ OnDisk(g)' => stats[g] <= disk'[g].mtime
                        /\ g \in Compared \ moved' => stats[g] = disk'[g].mtime
      BY <1>1 DEF FileChanged, AfterStat, Compared, Stored
    <3>1. g \in Compared \ moved' => stats[g] = disk'[g].mtime
      BY <1>6, <1>7 DEF PassInv, AfterStat
    <3>2. ASSUME stats[g] # Absent
          PROVE  stats[g] \in Nat /\ clock \in Nat /\ stats[g] <= clock /\ clock' = clock + 1
      BY <1>1, <3>2 DEF FileChanged, PassInv, AfterStat, TypeOK, EngineTypeOK
    <3>3. disk'[g] = Absent \/ disk'[g] = disk[g] \/ disk'[g].mtime = clock + 1
      BY <1>1 DEF FileChanged
    <3>4. QED BY <1>1, <3>1, <3>2, <3>3 DEF FileChanged, PassInv, AfterStat, OnDisk
  <2>5. QED BY <2>1, <2>2, <2>3, <2>4 DEF PassInv
<1>9. Accounted'
  <2> SUFFICES ASSUME life' = "loop", NEW g \in Files
               PROVE  (Match(g) \/ Queued(g) \/ g \in blind \/ gaveUp)'
    BY DEF Accounted
  <2>1. Queued(g) => Queued(g)'
    BY <1>1 DEF FileChanged, Queued, Queue
  <2>2. CASE g = f
    BY <1>1, <2>2 DEF FileChanged, Registered, Queued, Queue
  <2>3. CASE g # f
    <3>1. Match(g)' = Match(g)
      BY <1>1, <2>3 DEF FileChanged, Match, OnDisk, Stored
    <3>2. QED BY <1>1, <2>1, <3>1 DEF FileChanged, Accounted
  <2>4. QED BY <2>2, <2>3
<1>10. QED BY <1>2, <1>3, <1>4, <1>5, <1>8, <1>9

LEMMA ChangeConfigKeeps ==
  ASSUME IInv, ChangeConfig
  PROVE  IInv'
<1> USE DEF IInv
<1>1. PICK c \in Configs :
        /\ EditConfig(c) /\ Report(CfgPath) /\ former' = former \cup {diskCfg}
        /\ UNCHANGED <<life, reload, pending, retries, budget, gaveUp, blind, overlooked>>
  BY DEF ChangeConfig
<1>2. events \subseteq events' /\ events' \subseteq Paths
  BY <1>1 DEF Report, TypeOK, Paths
<1>3. clock' = clock + 1 /\ clock' \in Nat
  BY <1>1 DEF EditConfig, Tick, TypeOK, EngineTypeOK
<1>4. TypeOK'
  BY <1>1, <1>2, <1>3 DEF EditConfig, TypeOK, EngineTypeOK
<1>5. LifeShape' /\ ScopeOfPending' /\ MovedIsReported'
  BY <1>1, <1>2 DEF EditConfig, LifeShape, ScopeOfPending, MovedIsReported, Reconciling, Registered
<1>6. Genuine'
  BY <1>1, <1>3 DEF EditConfig, Genuine, Once, OnDisk, Stored, Classified,
        TypeOK, EngineTypeOK, Versions, Rows
<1>7. PassInv'
  <2>1. AfterStat'
    BY <1>1, <1>3 DEF EditConfig, PassInv, AfterStat, Compared, OnDisk, Stored, TypeOK, EngineTypeOK
  <2>2. BatchShape' /\ AfterWalk' /\ AfterClassify'
    BY <1>1 DEF EditConfig, PassInv, BatchShape, Detecting, AfterWalk, AfterClassify,
          Match, Walkable, OnDisk, Stored, Real, Classified
  <2>3. AfterRead' /\ AfterCommit' /\ MissedIsCounted'
    BY <1>1 DEF EditConfig, PassInv, AfterRead, AfterCommit, MissedIsCounted,
          Match, OnDisk, Stored, Classified, Committed
  <2>4. QED BY <2>1, <2>2, <2>3 DEF PassInv
<1>8. Accounted'
  BY <1>1, <1>2 DEF EditConfig, Accounted, Match, OnDisk, Stored, Queued, Queue
<1>9. QED BY <1>4, <1>5, <1>6, <1>7, <1>8

-----------------------------------------------------------------------------
(* The beginning and the end of passes.                                    *)

\* Between passes, and when one begins, there is nothing to know about it.
LEMMA BlankKeeps ==
  ASSUME IInv, Blank, phase' \in {"idle", "walk"}, scope' \subseteq Files,
         sweep' \in BOOLEAN, force' \in BOOLEAN, conf' \in Configs,
         UNCHANGED <<project, database>>
  PROVE  EngineTypeOK' /\ Genuine' /\ PassInv'
<1> USE DEF IInv, Blank
<1>1. EngineTypeOK'
  BY DEF NoBatch, Batches, Phases, TypeOK, EngineTypeOK
<1>2. Genuine'
  BY DEF Genuine, Once, OnDisk, Stored, Classified
<1>3. PassInv'
  BY DEF PassInv, BatchShape, Detecting, NoBatch, AfterWalk, AfterStat, AfterClassify, AfterRead, AfterCommit,
        MissedIsCounted, Classified, Committed
<1>4. QED BY <1>1, <1>2, <1>3

LEMMA StartKeeps ==
  ASSUME IInv, NEW l \in {"index", "setup"}, Start(l)
  PROVE  IInv'
<1> USE DEF IInv
<1>1. /\ life = "down" /\ life' = l /\ conf' = diskCfg /\ starts' = starts + 1
      /\ phase = "idle" /\ ~reload /\ ~reload'
  BY DEF Start, LifeShape
<1>2. UNCHANGED <<project, database, loop, faults, crashes, memory>>
  BY DEF Start
<1>3. EngineTypeOK' /\ Genuine' /\ PassInv' /\ LifeShape'
  <2>1. CASE l = "index"
    <3>1. BeginPass(Files, TRUE, stamp # diskCfg)
      BY <2>1 DEF Start
    <3>2. EngineTypeOK' /\ Genuine' /\ PassInv'
      BY <1>1, <1>2, <3>1, BlankKeeps DEF BeginPass, TypeOK, EngineTypeOK
    <3>3. LifeShape'
      BY <1>1, <2>1, <3>1 DEF BeginPass, LifeShape, Reconciling
    <3>4. QED BY <3>2, <3>3
  <2>2. CASE l = "setup"
    <3>1. UNCHANGED <<phase, locals>>
      BY <2>2 DEF Start
    <3>2. EngineTypeOK'
      BY <1>1, <1>2, <3>1 DEF TypeOK, EngineTypeOK
    <3>3. Genuine'
      BY <1>1, <1>2, <3>1 DEF Genuine, Once, OnDisk, Stored, Classified
    <3>4. PassInv'
      BY <1>1, <1>2, <3>1 DEF PassInv, BatchShape, Detecting, AfterWalk, AfterStat, AfterClassify, AfterRead,
            AfterCommit, MissedIsCounted, Classified, Committed
    <3>5. LifeShape'
      BY <1>1, <1>2, <2>2, <3>1 DEF LifeShape, Reconciling
    <3>6. QED BY <3>2, <3>3, <3>4, <3>5
  <2>3. QED BY <2>1, <2>2
<1>4. TypeOK'
  BY <1>1, <1>2, <1>3 DEF TypeOK
<1>5. ScopeOfPending' /\ MovedIsReported' /\ Accounted'
  BY <1>1 DEF ScopeOfPending, MovedIsReported, Accounted, Registered
<1>6. QED BY <1>3, <1>4, <1>5

LEMMA RegisterKeeps ==
  ASSUME IInv, Register
  PROVE  IInv'
<1> USE DEF IInv, Register
<1>1. EngineTypeOK' /\ Genuine' /\ PassInv'
  BY BlankKeeps DEF BeginPass, TypeOK, EngineTypeOK
<1>2. TypeOK'
  BY <1>1 DEF TypeOK
<1>3. LifeShape' /\ ScopeOfPending' /\ MovedIsReported' /\ Accounted'
  BY DEF BeginPass, Blank, LifeShape, Reconciling, ScopeOfPending, MovedIsReported, Accounted
<1>4. QED BY <1>1, <1>2, <1>3

\* A flush answers for exactly the files its pending set names.
LEMMA FlushKeeps ==
  ASSUME IInv, FlushPaths \/ FlushConfig
  PROVE  IInv'
<1> USE DEF IInv
<1> DEFINE S == IF CfgPath \in pending \/ Sweep \in pending THEN Files ELSE pending \cap Files
<1>1. /\ phase' = "walk" /\ scope' = S /\ Blank
      /\ sweep' \in BOOLEAN /\ force' \in BOOLEAN
      /\ sweep' <=> CfgPath \in pending \/ Sweep \in pending
  <2>1. CASE FlushPaths
    <3>1. CfgPath \notin pending
      BY <2>1 DEF FlushPaths
    <3>2. CASE Sweep \in pending
      BY <2>1, <3>1, <3>2 DEF FlushPaths, BeginPass
    <3>3. CASE Sweep \notin pending
      BY <2>1, <3>1, <3>3 DEF FlushPaths, BeginPass
    <3>4. QED BY <3>2, <3>3
  <2>2. CASE FlushConfig
    <3>1. CfgPath \in pending /\ BeginPass(Files, TRUE, stamp # diskCfg)
      BY <2>2 DEF FlushConfig
    <3>2. QED BY <3>1 DEF BeginPass
  <2>3. QED BY <2>1, <2>2
<1>2. /\ life = "loop" /\ life' = "loop" /\ phase = "idle"
      /\ reload' \in BOOLEAN /\ conf' \in Configs
      /\ reload' <=> CfgPath \in pending
      /\ UNCHANGED <<project, database, events, pending, retries, budget, memory>>
  <2>1. CASE FlushPaths
    BY <2>1 DEF FlushPaths, Waiting, TypeOK, EngineTypeOK
  <2>2. CASE FlushConfig
    BY <2>2 DEF FlushConfig, Waiting, TypeOK, EngineTypeOK
  <2>3. QED BY <2>1, <2>2
<1>3. EngineTypeOK' /\ Genuine' /\ PassInv'
  BY <1>1, <1>2, BlankKeeps DEF TypeOK
<1>4. TypeOK'
  BY <1>2, <1>3 DEF TypeOK
<1>5. LifeShape'
  BY <1>1, <1>2 DEF LifeShape, Reconciling
<1>6. ScopeOfPending'
  BY <1>1, <1>2 DEF ScopeOfPending
<1>7. MovedIsReported'
  BY <1>1 DEF Blank, MovedIsReported
<1>8. Accounted'
  BY <1>2 DEF Accounted, Match, OnDisk, Stored, Queued, Queue
<1>9. QED BY <1>3, <1>4, <1>5, <1>6, <1>7, <1>8

\* The process ends: there is no loop left to account for anything.
LEMMA DieKeeps ==
  ASSUME IInv, Die, faults' \in Nat, crashes' \in Nat
  PROVE  IInv'
<1> USE DEF IInv, Die
<1>1. EngineTypeOK' /\ Genuine' /\ PassInv'
  BY BlankKeeps DEF EndPass, TypeOK, EngineTypeOK
<1>2. TypeOK'
  <2>1. retries' \in 0..MaxRetries
    BY WatchAssumption
  <2>2. events' \subseteq Paths /\ pending' \subseteq Paths /\ starts' \in Nat
    BY DEF TypeOK
  <2>3. QED BY <1>1, <2>1, <2>2 DEF TypeOK
<1>3. LifeShape' /\ ScopeOfPending' /\ MovedIsReported' /\ Accounted'
  BY DEF EndPass, LifeShape, Reconciling, ScopeOfPending, MovedIsReported, Accounted, Registered
<1>4. QED BY <1>1, <1>2, <1>3

-----------------------------------------------------------------------------
(* The steps of a pass.                                                    *)

LEMMA PassStepFrame ==
  ASSUME PassStep
  PROVE  phase # "idle" /\ phase' # "idle" /\ UNCHANGED <<project, stamp, loaded, moved>>
BY DEF PassStep, Walk, Stat, Classify, TooManyFiles, TouchRow, Publish, ReadBatch, ReadProject,
       ReadFails, Commit, Record, AfterTouch

\* No step of a pass touches the loop: what relates the two is kept.
LEMMA EngineShape ==
  ASSUME IInv, EngineStep
  PROVE  TypeOK' /\ LifeShape' /\ ScopeOfPending' /\ MovedIsReported'
<1> USE DEF IInv, EngineStep
<1>1. TypeOK'
  <2>1. EngineTypeOK'
    BY PassTypes DEF TypeOK, PassInv
  <2>2. QED BY <2>1 DEF TypeOK
<1>2. LifeShape' /\ ScopeOfPending' /\ MovedIsReported'
  BY PassStepFrame DEF LifeShape, ScopeOfPending, MovedIsReported, Reconciling, Registered
<1>3. QED BY <1>1, <1>2

\* A step that writes no row keeps the account.
LEMMA SameRowsKeepAccount ==
  ASSUME IInv, EngineStep, UNCHANGED rows
  PROVE  Accounted'
BY PassStepFrame DEF IInv, EngineStep, Accounted, Match, OnDisk, Stored, Queued, Queue

LEMMA WalkKeeps ==
  ASSUME IInv, EngineStep, Walk
  PROVE  IInv'
<1> USE DEF IInv, Walk
<1>1. Genuine'
  BY DEF Genuine, Once, OnDisk, Stored, Classified
<1>2. PassInv'
  BY DEF PassInv, BatchShape, Detecting, AfterWalk, AfterStat, AfterClassify, AfterRead, AfterCommit,
        MissedIsCounted, Walkable, OnDisk, Classified, Committed
<1>3. QED BY <1>1, <1>2, EngineShape, SameRowsKeepAccount

LEMMA StatKeeps ==
  ASSUME IInv, EngineStep, Stat
  PROVE  IInv'
<1> USE DEF IInv
<1>1. /\ phase = "stat" /\ phase' = "classify"
      /\ UNCHANGED <<project, database, loaded, walked, unwalked, batch, bytes, plan, history>>
  BY DEF Stat
<1>2. \A f \in Files : stats'[f] = IF f \in Compared /\ Walkable(f) THEN disk[f].mtime ELSE Absent
  BY DEF Stat
<1>3. Genuine'
  BY <1>1 DEF Genuine, Once, OnDisk, Stored, Classified
<1>4. AfterStat'
  <2>1. ASSUME NEW f \in Files, Walkable(f)
        PROVE  disk[f].mtime \in Nat /\ disk[f].mtime <= clock
               /\ (Stored(f) => rows[f].mtime <= disk[f].mtime)
    BY <2>1 DEF Walkable, OnDisk, Stored, Genuine, Once, TypeOK, EngineTypeOK, Versions
  <2>2. \A f \in Compared \ moved : Walkable(f)
    BY <1>1 DEF Compared, PassInv, AfterWalk
  <2>3. walked \subseteq Files
    BY DEF TypeOK, EngineTypeOK
  <2>4. QED
    BY <1>1, <1>2, <2>1, <2>2, <2>3, AbsentAssumption DEF AfterStat, Compared, OnDisk, Stored
<1>5. PassInv'
  BY <1>1, <1>4 DEF PassInv, BatchShape, Detecting, AfterWalk, AfterClassify, AfterRead,
        AfterCommit, MissedIsCounted, Walkable, OnDisk, Stored, Classified, Committed
<1>6. QED BY <1>1, <1>3, <1>5, EngineShape, SameRowsKeepAccount

\* Every file of the scope that has not moved since the pass began is either
\* missed, in the batch for a reason that still holds, or in agreement.
LEMMA ClassificationIsComplete ==
  ASSUME IInv, phase = "classify", NEW f \in scope \ moved,
         f \notin missed \cup Classification.unverified
  PROVE  \/ f \in Classification.created
         \/ f \in Classification.modified /\ OnDisk(f)
         \/ f \in Classification.deleted /\ ~OnDisk(f)
         \/ f \notin Classification.created \cup Classification.modified \cup Classification.deleted /\ Match(f)
<1> USE DEF IInv, PassInv, AfterWalk
<1>1. f \in Files /\ (f \in walked <=> Walkable(f)) /\ f \notin unwalked /\ access[f] # "unwalkable"
  BY DEF TypeOK, EngineTypeOK
<1>2. CASE f \in walked /\ f \notin Compared
  BY <1>1, <1>2 DEF Classification
<1>3. CASE f \in Compared
  <2>1. OnDisk(f) /\ Stored(f) /\ f \in walked
    BY <1>1, <1>3 DEF Compared, Walkable
  <2>2. stats[f] = disk[f].mtime /\ stats[f] # Absent
    BY <1>3, <2>1, AbsentAssumption DEF AfterStat, OnDisk, TypeOK, EngineTypeOK, Versions
  <2>3. CASE SameStat(f)
    <3>1. rows[f].content = disk[f].content
      BY <1>1, <2>1, <2>3 DEF SameStat, Genuine, Once, Stored
    <3>2. QED BY <1>1, <1>3, <2>1, <2>3, <2>2, <3>1 DEF Classification, SameStat, Match
  <2>4. CASE ~SameStat(f)
    <3>1. Readable(f)
      BY <1>3, <2>1, <2>4, <2>2 DEF Classification, SameStat
    <3>2. QED BY <1>1, <1>3, <2>1, <2>4, <2>2, <3>1 DEF Classification, SameStat, Match
  <2>5. QED BY <2>3, <2>4
<1>4. CASE f \notin walked
  <2>1. ~OnDisk(f)
    BY <1>1, <1>4 DEF Walkable
  <2>2. QED BY <1>1, <1>4, <2>1 DEF Classification, Compared, Match
<1>5. QED BY <1>2, <1>3, <1>4 DEF Compared

LEMMA ClassifyKeeps ==
  ASSUME IInv, EngineStep, Classify
  PROVE  IInv'
<1> USE DEF IInv
<1> DEFINE c == Classification
<1>1. /\ phase = "classify" /\ phase' \in {"touch", "publish", "record"}
      /\ phase' \in {"touch", "publish"} \/ c.touched \cup c.created \cup c.modified \cup c.deleted = {}
      /\ batch' = c /\ missed' = missed \cup c.unverified
      /\ bytes' = Carried(c)
      /\ UNCHANGED <<project, database, loaded, plan, moved>>
      /\ EngineTypeOK'
  <2>1. EngineTypeOK'
    BY EngineShape DEF TypeOK
  <2>2. QED BY <2>1 DEF Classify, AfterTouch
<1>2. /\ c.created \subseteq walked
      /\ c.deleted \subseteq scope /\ c.unverified \subseteq scope \cup walked
      /\ c.modified \subseteq walked /\ c.touched \subseteq walked
      /\ \A f \in c.modified \cup c.touched : Stored(f) /\ Readable(f)
      /\ \A f \in c.touched : rows[f].content = disk[f].content
  BY DEF Classification, Compared
<1>3. walked \subseteq scope /\ missed = unwalked /\ scope \subseteq Files
  BY <1>1 DEF PassInv, AfterWalk, TypeOK, EngineTypeOK
<1>4. Genuine'
  <2> SUFFICES ASSUME NEW f \in Files
               PROVE  /\ Once(f, bytes[f])'
                      /\ bytes'[f] # Absent /\ Stored(f) => rows[f].mtime <= bytes'[f].mtime
    BY <1>1 DEF Genuine, Once, OnDisk, Stored
  <2>1. CASE f \in c.modified
    <3>1. bytes'[f] = disk[f] /\ OnDisk(f)
      BY <1>1, <1>2, <2>1 DEF Carried, Readable
    <3>2. QED BY <1>1, <3>1 DEF Genuine, Once, OnDisk, Stored, TypeOK, EngineTypeOK, Versions
  <2>2. CASE f \in c.touched /\ f \notin c.modified
    <3>1. bytes'[f].content = disk[f].content /\ bytes'[f].mtime = stats[f] /\ stats[f] # Absent
      BY <1>1, <1>2, <2>2 DEF Carried, Readable, OnDisk, Classification, TypeOK, EngineTypeOK, Versions
    <3>2. QED BY <1>1, <3>1 DEF PassInv, AfterStat, Once, OnDisk, Stored
  <2>3. CASE f \notin c.touched \cup c.modified
    BY <1>1, <2>3 DEF Carried, Once
  <2>4. QED BY <2>1, <2>2, <2>3
<1>5. \A f \in c.modified \cup c.touched : bytes'[f] # Absent /\ bytes'[f].content = disk[f].content
  <2> SUFFICES ASSUME NEW f \in c.modified \cup c.touched
               PROVE  bytes'[f] # Absent /\ bytes'[f].content = disk[f].content
    OBVIOUS
  <2>1. disk[f] \in Versions /\ stats[f] \in Nat /\ f \in Files
    BY <1>2, <1>3 DEF Readable, OnDisk, Classification, TypeOK, EngineTypeOK
  <2>2. [disk[f] EXCEPT !.mtime = stats[f]] \in Versions
    BY <2>1 DEF Versions
  <2>3. QED BY <1>1, <2>1, <2>2, AbsentAssumption DEF Carried, Versions
<1>6. \A f \in Files \ moved : bytes'[f] # Absent => bytes'[f] = disk[f] /\ access[f] = "ok"
  <2> SUFFICES ASSUME NEW f \in Files \ moved, f \in c.modified \cup c.touched
               PROVE  bytes'[f] = disk[f] /\ access[f] = "ok"
    BY <1>1 DEF Carried
  <2>1. disk[f] \in Versions /\ access[f] = "ok" /\ f \in Compared
    BY <1>2 DEF Readable, OnDisk, Classification, TypeOK, EngineTypeOK
  <2>2. stats[f] = disk[f].mtime
    BY <1>1, <2>1 DEF PassInv, AfterStat
  <2>3. [disk[f] EXCEPT !.mtime = disk[f].mtime] = disk[f]
    BY <2>1 DEF Versions
  <2>4. QED BY <1>1, <2>1, <2>2, <2>3 DEF Carried
<1>7. BatchShape'
  BY <1>1, <1>2, <1>3, <1>5, <1>6 DEF PassInv, BatchShape, Detecting, Stored, OnDisk, Readable, Classified
<1>8. AfterClassify' /\ AfterCommit'
  BY <1>1, <1>3, ClassificationIsComplete
     DEF AfterClassify, AfterCommit, Classified, Committed, Match, OnDisk, Stored, Real
<1>9. MissedIsCounted'
  <2> SUFFICES ASSUME NEW f \in missed' \ moved, f \notin c.unverified
               PROVE  access[f] # "ok" /\ ~Stored(f)
    BY <1>1 DEF MissedIsCounted, Stored
  <2>1. f \in unwalked /\ f \in scope /\ access[f] = "unwalkable" /\ f \notin walked
    BY <1>1, <1>3 DEF PassInv, AfterWalk, Walkable
  <2>2. QED BY <2>1 DEF Classification
<1>10. PassInv'
  BY <1>1, <1>7, <1>8, <1>9 DEF PassInv, AfterWalk, AfterStat, AfterRead
<1>11. QED BY <1>1, <1>4, <1>10, EngineShape, SameRowsKeepAccount

\* A pass that stops early knows nothing, and nothing is asked of it.
LEMMA StopKeeps ==
  ASSUME IInv, phase' \in {"failed", "fatal"},
         UNCHANGED <<project, database, loaded, findings, plan, history>>
  PROVE  Genuine' /\ PassInv'
<1> USE DEF IInv
<1>1. Genuine'
  BY DEF Genuine, Once, OnDisk, Stored, Classified
<1>2. PassInv'
  BY DEF PassInv, BatchShape, Detecting, AfterWalk, AfterStat, AfterClassify, AfterRead, AfterCommit,
        MissedIsCounted, Classified, Committed
<1>3. QED BY <1>1, <1>2

LEMMA EngineStopKeeps ==
  ASSUME IInv, EngineStep, TooManyFiles \/ ReadFails
  PROVE  IInv'
<1>1. Genuine' /\ PassInv'
  BY StopKeeps DEF TooManyFiles, ReadFails
<1>2. UNCHANGED rows
  BY DEF TooManyFiles, ReadFails
<1>3. QED BY <1>1, <1>2, EngineShape, SameRowsKeepAccount DEF IInv

\* Refreshing a touched row changes its mtime only, to that of the stat.
LEMMA TouchRowEffect ==
  ASSUME IInv, NEW f \in Files, TouchRow(f)
  PROVE  /\ Stored(f) /\ bytes[f] \in Versions
         /\ rows'[f].content = rows[f].content /\ rows'[f].mtime = bytes[f].mtime
         /\ rows'[f].content = bytes[f].content /\ rows'[f].cfg = rows[f].cfg
         /\ \A g \in Files : Stored(g)' = Stored(g)
         /\ \A g \in Files \ {f} : rows'[g] = rows[g]
<1> USE DEF IInv
<1>1. Stored(f) /\ bytes[f] # Absent /\ rows[f].content = bytes[f].content
  BY DEF TouchRow, PassInv, BatchShape
<1>2. rows[f] \in Rows /\ bytes[f] \in Versions
  BY <1>1 DEF Stored, TypeOK, EngineTypeOK
<1>3. rows' = [rows EXCEPT ![f].mtime = bytes[f].mtime] /\ rows \in [Files -> Rows \cup {Absent}]
  BY DEF TouchRow, TypeOK, EngineTypeOK
<1>4. rows'[f] = [rows[f] EXCEPT !.mtime = bytes[f].mtime] /\ rows'[f] \in Rows
  BY <1>2, <1>3 DEF Rows, Versions
<1>5. \A g \in Files \ {f} : rows'[g] = rows[g]
  BY <1>3
<1>6. /\ rows'[f].content = rows[f].content /\ rows'[f].mtime = bytes[f].mtime
      /\ rows'[f].cfg = rows[f].cfg
  BY <1>2, <1>4 DEF Rows
<1>7. \A g \in Files : Stored(g)' = Stored(g)
  BY <1>1, <1>4, <1>5, AbsentAssumption DEF Stored
<1>8. QED BY <1>1, <1>2, <1>5, <1>6, <1>7

LEMMA TouchRowKeeps ==
  ASSUME IInv, EngineStep, NEW f \in Files, TouchRow(f)
  PROVE  IInv'
<1> USE DEF IInv
<1>1. /\ phase = "touch" /\ phase' \in {"touch", "publish", "record"}
      /\ phase' = "record" => Real = {}
      /\ batch' = [batch EXCEPT !.touched = @ \ {f}]
      /\ UNCHANGED <<project, mark, stamp, loaded, walked, unwalked, stats, bytes, plan, history>>
      /\ UNCHANGED <<life, loop, budget, memory>>
  BY DEF EngineStep, TouchRow, AfterTouch, Real
<1>2. /\ batch'.created = batch.created /\ batch'.modified = batch.modified
      /\ batch'.deleted = batch.deleted /\ batch'.unverified = batch.unverified
      /\ batch'.touched = batch.touched \ {f}
      /\ batch.modified \subseteq Files /\ batch.touched \subseteq Files
      /\ scope \subseteq Files /\ missed \subseteq Files
  BY <1>1 DEF TypeOK, EngineTypeOK, Batches
<1>3. \A g \in Files : /\ Match(g)' = Match(g) /\ Stored(g)' = Stored(g)
                        /\ rows'[g].content = rows[g].content
  BY <1>1, TouchRowEffect DEF Match, OnDisk
<1>4. Genuine'
  <2> SUFFICES ASSUME NEW g \in Files
               PROVE  /\ Once(g, rows[g])'
                      /\ phase' \in Classified /\ Stored(g)' /\ bytes[g] # Absent =>
                           rows'[g].mtime <= bytes[g].mtime
    BY <1>1 DEF Genuine, Once, OnDisk, Classified
  <2>1. CASE g = f
    BY <1>1, <2>1, TouchRowEffect, AbsentAssumption DEF Genuine, Once, OnDisk, Versions
  <2>2. CASE g # f
    BY <1>1, <2>2, TouchRowEffect DEF Genuine, Once, OnDisk, Stored, Classified
  <2>3. QED BY <2>1, <2>2
<1>5. BatchShape'
  BY <1>1, <1>2, <1>3 DEF PassInv, BatchShape, Detecting, Classified
<1>6. AfterClassify' /\ AfterCommit'
  BY <1>1, <1>2, <1>3 DEF PassInv, AfterClassify, AfterCommit, Classified, Committed, Real, OnDisk
<1>7. MissedIsCounted'
  BY <1>1, <1>2, <1>3 DEF PassInv, MissedIsCounted, Classified, Committed
<1>8. PassInv'
  BY <1>1, <1>5, <1>6, <1>7 DEF PassInv, AfterWalk, AfterStat, AfterRead
<1>9. Accounted'
  BY <1>1, <1>3 DEF Accounted, Queued, Queue
<1>10. QED BY <1>4, <1>8, <1>9, EngineShape

LEMMA PublishKeeps ==
  ASSUME IInv, EngineStep, Publish
  PROVE  IInv'
<1> USE DEF IInv, Publish
<1>1. Genuine'
  BY DEF Genuine, Once, OnDisk, Stored, Classified
<1>2. PassInv'
  BY DEF PassInv, BatchShape, Detecting, AfterWalk, AfterStat, AfterClassify, AfterRead, AfterCommit,
        MissedIsCounted, Match, OnDisk, Stored, Real, Classified, Committed
<1>3. QED BY <1>1, <1>2, EngineShape, SameRowsKeepAccount

LEMMA ReadBatchKeeps ==
  ASSUME IInv, EngineStep, NEW D \in SUBSET (Tracked \ Real), ReadBatch(D)
  PROVE  IInv'
<1> USE DEF IInv
<1>1. /\ phase = "read" /\ phase' = "commit" /\ whole' = FALSE
      /\ UNCHANGED <<project, database, loaded, findings, history>>
  BY DEF ReadBatch
<1>2. \A f \in Files :
        \/ staged'[f] = disk[f] /\ Readable(f)
        \/ staged'[f] = bytes[f] /\ f \in batch.modified
        \/ staged'[f] = Absent /\ f \notin batch.modified \cup batch.created
  BY DEF ReadBatch
<1>3. Genuine'
  <2> SUFFICES ASSUME NEW f \in Files
               PROVE  /\ Once(f, staged[f])'
                      /\ Stored(f) /\ staged'[f] # Absent => rows[f].mtime <= staged'[f].mtime
    BY <1>1 DEF Genuine, Once, OnDisk, Stored, Classified
  <2>1. staged'[f] = disk[f] \/ staged'[f] = bytes[f] \/ staged'[f] = Absent
    BY <1>2
  <2>2. disk[f] # Absent => disk[f].mtime \in Nat
    BY DEF TypeOK, EngineTypeOK, Versions
  <2>3. QED
    BY <1>1, <2>1, <2>2 DEF Genuine, Once, OnDisk, Stored, Classified
<1>4. BatchShape'
  BY <1>1 DEF PassInv, BatchShape, Detecting, Classified
<1>5. AfterRead'
  <2> SUFFICES ASSUME NEW f \in Files \ moved
               PROVE  /\ staged'[f] # Absent => staged'[f] = disk[f] /\ access[f] = "ok"
                      /\ staged'[f] = Absent /\ f \in scope =>
                           \/ f \in missed
                           \/ f \in batch.deleted /\ ~OnDisk(f)
                           \/ f \notin batch.deleted /\ Match(f)
    BY <1>1 DEF AfterRead, Match, OnDisk, Stored
  <2>1. staged'[f] # Absent => staged'[f] = disk[f] /\ access[f] = "ok"
    BY <1>1, <1>2 DEF PassInv, BatchShape, Detecting, Classified, Readable
  <2>2. f \in batch.modified => bytes[f] # Absent
    BY <1>1 DEF PassInv, BatchShape, Detecting, Classified
  <2>3. staged'[f] = Absent => f \notin batch.modified \cup batch.created
    BY <1>2, <2>2 DEF Readable, OnDisk
  <2>4. QED
    BY <1>1, <2>1, <2>3 DEF PassInv, AfterClassify, Classified, Real
<1>6. MissedIsCounted'
  BY <1>1 DEF PassInv, MissedIsCounted, Stored, Classified, Committed
<1>7. PassInv'
  BY <1>1, <1>4, <1>5, <1>6 DEF PassInv, AfterWalk, AfterStat, AfterClassify, AfterCommit, Classified, Committed
<1>8. QED BY <1>1, <1>3, <1>7, EngineShape, SameRowsKeepAccount

LEMMA ReadProjectKeeps ==
  ASSUME IInv, EngineStep, ReadProject
  PROVE  IInv'
<1> USE DEF IInv
<1>1. /\ phase = "read" /\ phase' = "commit" /\ whole' = TRUE
      /\ missed' = missed \cup {f \in scope : OutOfReach(f)}
      /\ UNCHANGED <<project, database, loaded, findings, moved>>
      /\ Lost = {}
      /\ scope \subseteq Files
  BY DEF ReadProject, TypeOK, EngineTypeOK
<1>2. \A f \in Files : staged'[f] = IF Readable(f) THEN disk[f] ELSE Absent
  BY DEF ReadProject
<1>3. Genuine'
  <2> SUFFICES ASSUME NEW f \in Files
               PROVE  /\ Once(f, staged[f])'
                      /\ Stored(f) /\ staged'[f] # Absent => rows[f].mtime <= staged'[f].mtime
    BY <1>1 DEF Genuine, Once, OnDisk, Stored, Classified
  <2>1. staged'[f] = disk[f] \/ staged'[f] = bytes[f] \/ staged'[f] = Absent
    BY <1>2
  <2>2. disk[f] # Absent => disk[f].mtime \in Nat
    BY DEF TypeOK, EngineTypeOK, Versions
  <2>3. QED
    BY <1>1, <2>1, <2>2 DEF Genuine, Once, OnDisk, Stored, Classified
<1>4. BatchShape'
  BY <1>1 DEF PassInv, BatchShape, Detecting, Classified
<1>5. AfterRead'
  BY <1>1, <1>2 DEF AfterRead, Lost, OutOfReach, Tracked, Walkable, Readable, Match, OnDisk, Stored
<1>6. MissedIsCounted'
  BY <1>1 DEF PassInv, MissedIsCounted, Lost, OutOfReach, Tracked, Walkable, Readable,
        OnDisk, Stored, Classified, Committed
<1>7. PassInv'
  BY <1>1, <1>4, <1>5, <1>6 DEF PassInv, AfterWalk, AfterStat, AfterClassify, AfterCommit, Classified, Committed
<1>8. QED BY <1>1, <1>3, <1>7, EngineShape, SameRowsKeepAccount

\* The transaction writes what was staged.  A file that moved since is
\* reported, the others of the scope agree or were missed, and a file outside
\* the scope is only ever brought into agreement.
LEMMA CommitKeeps ==
  ASSUME IInv, EngineStep, Commit
  PROVE  IInv'
<1> USE DEF IInv
<1>1. /\ phase = "commit" /\ phase' = "record" /\ mark' = 0
      /\ UNCHANGED <<project, stamp, loaded, findings, plan, history>>
      /\ UNCHANGED <<life, loop, budget, memory>>
  BY DEF EngineStep, Commit
<1>2. \A f \in Files :
        /\ staged[f] # Absent =>
             /\ Stored(f)'
             /\ rows'[f].content = staged[f].content /\ rows'[f].mtime = staged[f].mtime
        /\ staged[f] = Absent /\ (whole \/ f \in batch.deleted) => rows'[f] = Absent
        /\ staged[f] = Absent /\ ~whole /\ f \notin batch.deleted => rows'[f] = rows[f]
  <2> SUFFICES ASSUME NEW f \in Files, staged[f] # Absent
               PROVE  /\ Stored(f)'
                      /\ rows'[f].content = staged[f].content /\ rows'[f].mtime = staged[f].mtime
    BY DEF Commit
  <2>1. rows'[f] = Indexed(staged[f])
    BY DEF Commit
  <2>2. staged[f] \in Versions /\ conf \in Configs
    BY DEF TypeOK, EngineTypeOK
  <2>3. Indexed(staged[f]) \in Rows
    BY <2>2 DEF Indexed, Rows, Versions
  <2>4. QED BY <2>1, <2>3, AbsentAssumption DEF Indexed, Stored
<1>3. Genuine'
  BY <1>1, <1>2 DEF Genuine, Once, OnDisk, Stored, Classified
<1>4. ASSUME NEW f \in Files \ moved
      PROVE  /\ f \in scope => f \in missed \/ Match(f)'
             /\ f \notin scope => Match(f)' \/ ~Match(f)
  <2>1. CASE staged[f] # Absent
    BY <1>1, <1>2, <2>1 DEF PassInv, AfterRead, Match, OnDisk
  <2>2. CASE staged[f] = Absent /\ whole
    BY <1>1, <1>2, <2>2 DEF PassInv, AfterRead, Match, OnDisk, Stored
  <2>3. CASE staged[f] = Absent /\ ~whole /\ f \in batch.deleted
    BY <1>1, <1>2, <2>3 DEF PassInv, AfterRead, BatchShape, Detecting, Match, OnDisk, Stored
  <2>4. CASE staged[f] = Absent /\ ~whole /\ f \notin batch.deleted
    BY <1>1, <1>2, <2>4 DEF PassInv, AfterRead, Match, OnDisk, Stored
  <2>5. QED BY <2>1, <2>2, <2>3, <2>4
<1>5. BatchShape' /\ AfterCommit'
  BY <1>1, <1>4 DEF PassInv, BatchShape, Detecting, AfterCommit, Classified, Committed, TypeOK, EngineTypeOK
<1>6. MissedIsCounted'
  <2> SUFFICES ASSUME NEW f \in missed \ moved, f \notin batch.unverified
               PROVE  access[f] # "ok" /\ ~Stored(f)'
    BY <1>1 DEF MissedIsCounted, Classified, Committed
  <2>1. access[f] # "ok" /\ ~Stored(f) /\ f \in Files
    BY <1>1 DEF PassInv, MissedIsCounted, TypeOK, EngineTypeOK
  <2>2. staged[f] = Absent
    BY <1>1, <2>1 DEF PassInv, AfterRead
  <2>3. QED BY <1>2, <2>1, <2>2 DEF Stored
<1>7. PassInv'
  BY <1>1, <1>5, <1>6 DEF PassInv, AfterWalk, AfterStat, AfterClassify, AfterRead, Classified
<1>8. Accounted'
  <2> SUFFICES ASSUME life = "loop", NEW f \in Files
               PROVE  (Match(f) \/ Queued(f) \/ f \in blind \/ gaveUp)'
    BY <1>1 DEF Accounted
  <2>1. Queued(f)' = Queued(f)
    BY <1>1 DEF Queued, Queue
  <2>2. CASE f \in moved
    BY <1>1, <2>1, <2>2 DEF MovedIsReported, Registered, Queued, Queue
  <2>3. CASE f \in scope
    BY <1>1, <2>1, <2>3 DEF ScopeOfPending, Queued, Queue
  <2>4. CASE f \notin moved /\ f \notin scope
    BY <1>1, <1>4, <2>1, <2>4 DEF Accounted
  <2>5. QED BY <2>2, <2>3, <2>4
<1>9. QED BY <1>3, <1>7, <1>8, EngineShape

LEMMA RecordKeeps ==
  ASSUME IInv, EngineStep, Record
  PROVE  IInv'
<1> USE DEF IInv, Record
<1>1. Genuine'
  BY DEF Genuine, Once, OnDisk, Stored, Classified
<1>2. PassInv'
  BY DEF PassInv, BatchShape, Detecting, AfterWalk, AfterStat, AfterClassify, AfterRead, AfterCommit,
        MissedIsCounted, Match, OnDisk, Stored, Classified, Committed
<1>3. QED BY <1>1, <1>2, EngineShape, SameRowsKeepAccount

LEMMA EngineKeeps ==
  ASSUME IInv, EngineStep
  PROVE  IInv'
BY WalkKeeps, StatKeeps, ClassifyKeeps, EngineStopKeeps, TouchRowKeeps, PublishKeeps, ReadBatchKeeps,
   ReadProjectKeeps, CommitKeeps, RecordKeeps DEF EngineStep, PassStep

LEMMA StampKeeps ==
  ASSUME IInv, StampStep
  PROVE  IInv'
<1> USE DEF IInv, StampStep, Stamp
<1>1. TypeOK'
  BY DEF TypeOK, EngineTypeOK, Phases
<1>2. LifeShape' /\ ScopeOfPending' /\ MovedIsReported'
  BY DEF LifeShape, ScopeOfPending, MovedIsReported, Reconciling, Registered
<1>3. Genuine' /\ Accounted'
  BY DEF Genuine, Once, OnDisk, Stored, Classified, Accounted, Match, Queued, Queue
<1>4. PassInv'
  BY DEF PassInv, BatchShape, Detecting, AfterWalk, AfterStat, AfterClassify, AfterRead, AfterCommit,
        MissedIsCounted, Match, OnDisk, Stored, Classified, Committed
<1>5. QED BY <1>1, <1>2, <1>3, <1>4

LEMMA FaultKeeps ==
  ASSUME IInv, Fault
  PROVE  IInv'
<1> USE DEF IInv
<1>1. /\ phase # "idle" /\ phase' = "failed" /\ faults' = faults + 1
      /\ UNCHANGED <<project, database, loaded, findings, plan, history>>
      /\ UNCHANGED <<life, loop, starts, crashes, memory>>
  BY DEF Fault, Fails, StampFails
<1>2. Genuine' /\ PassInv'
  BY <1>1, StopKeeps
<1>3. TypeOK'
  BY <1>1 DEF TypeOK, EngineTypeOK, Phases
<1>4. LifeShape' /\ ScopeOfPending' /\ MovedIsReported' /\ Accounted'
  BY <1>1 DEF LifeShape, ScopeOfPending, MovedIsReported, Reconciling, Registered,
        Accounted, Match, OnDisk, Stored, Queued, Queue
<1>5. QED BY <1>2, <1>3, <1>4

-----------------------------------------------------------------------------
(* The debounce loop.                                                      *)

\* Between passes nothing but the account depends on the loop.
LEMMA IdleKeeps ==
  ASSUME IInv, phase = "idle", life' = life,
         UNCHANGED <<project, database, pass, moved, reload>>
  PROVE  /\ EngineTypeOK' /\ Genuine' /\ PassInv'
         /\ LifeShape' /\ ScopeOfPending' /\ MovedIsReported'
<1> USE DEF IInv
<1>1. EngineTypeOK'
  BY DEF TypeOK, EngineTypeOK
<1>2. Genuine'
  BY DEF Genuine, Once, OnDisk, Stored, Classified
<1>3. PassInv'
  BY DEF PassInv, BatchShape, Detecting, AfterWalk, AfterStat, AfterClassify, AfterRead, AfterCommit,
        MissedIsCounted, Classified, Committed
<1>4. LifeShape' /\ ScopeOfPending' /\ MovedIsReported'
  BY DEF LifeShape, ScopeOfPending, MovedIsReported, Reconciling, Registered
<1>5. QED BY <1>1, <1>2, <1>3, <1>4

LEMMA ReceiveKeeps ==
  ASSUME IInv, Receive
  PROVE  IInv'
<1> USE DEF IInv
<1>1. PICK p \in events : events' = events \ {p} /\ pending' = pending \cup {p}
  BY DEF Receive
<1>2. /\ phase = "idle" /\ life' = life
      /\ UNCHANGED <<project, database, pass, moved, reload, retries, budget, memory>>
  BY DEF Receive, Waiting
<1>3. TypeOK'
  BY <1>1, <1>2, IdleKeeps DEF TypeOK
<1>4. Accounted'
  BY <1>1, <1>2 DEF Accounted, Match, OnDisk, Stored, Queued, Queue
<1>5. QED BY <1>2, <1>3, <1>4, IdleKeeps

\* After a failure the pending set is kept, widened to the whole project, or
\* given up; in each case nothing that was queued is forgotten in silence.
LEMMA FailureAccounts ==
  ASSUME IInv, life = "loop", life' = "loop", KeepPending \/ GiveUp,
         UNCHANGED <<project, database, events>>
  PROVE  /\ retries' \in 0..MaxRetries /\ pending' \subseteq Paths
         /\ gaveUp' \in BOOLEAN /\ blind' \subseteq Files
         /\ UNCHANGED <<former, overlooked>>
         /\ Accounted'
<1> USE DEF IInv
<1>1. CASE KeepPending
  <2>1. retries' \in 0..MaxRetries
    BY <1>1, WatchAssumption DEF KeepPending, TypeOK
  <2>2. pending' \subseteq Paths /\ UNCHANGED memory
    BY <1>1 DEF KeepPending, TypeOK, Paths
  <2>3. pending' = pending \/ pending' = {Sweep}
    BY <1>1 DEF KeepPending
  <2>4. Accounted'
    BY <2>2, <2>3 DEF Accounted, Match, OnDisk, Stored, Queued, Queue
  <2>5. QED BY <2>1, <2>2, <2>4 DEF TypeOK
<1>2. CASE GiveUp
  <2>1. /\ retries' = 0 /\ pending' = {} /\ gaveUp' = TRUE /\ blind' = blind
        /\ UNCHANGED <<former, overlooked>>
    BY <1>2 DEF GiveUp
  <2>2. QED BY <2>1, WatchAssumption DEF Accounted, TypeOK
<1>3. QED BY <1>1, <1>2

LEMMA ReloadFailsKeeps ==
  ASSUME IInv, ReloadFails
  PROVE  IInv'
<1> USE DEF IInv
<1>1. /\ life = "loop" /\ life' = "loop" /\ phase = "idle" /\ faults' = faults + 1
      /\ UNCHANGED <<project, database, pass, moved, reload, events, starts, crashes>>
      /\ KeepPending \/ GiveUp
  BY DEF ReloadFails, Waiting
<1>2. TypeOK'
  BY <1>1, IdleKeeps, FailureAccounts DEF TypeOK
<1>3. QED BY <1>1, <1>2, IdleKeeps, FailureAccounts

LEMMA RetryKeeps ==
  ASSUME IInv, Retry, UNCHANGED <<faults, crashes>>
  PROVE  IInv'
<1> USE DEF IInv
<1>1. /\ life = "loop" /\ life' = "loop" /\ EndPass /\ reload' = FALSE
      /\ UNCHANGED <<project, database, conf, events, starts>>
      /\ KeepPending \/ GiveUp
  BY DEF Retry
<1>2. EngineTypeOK' /\ Genuine' /\ PassInv'
  BY <1>1, BlankKeeps DEF EndPass, TypeOK, EngineTypeOK
<1>3. TypeOK'
  BY <1>1, <1>2, FailureAccounts DEF TypeOK
<1>4. LifeShape' /\ ScopeOfPending' /\ MovedIsReported'
  BY <1>1 DEF EndPass, LifeShape, ScopeOfPending, MovedIsReported, Reconciling
<1>5. QED BY <1>1, <1>2, <1>3, <1>4, FailureAccounts

LEMMA FailedKeeps ==
  ASSUME IInv, Failed \/ Fatal
  PROVE  IInv'
<1>1. faults' \in Nat /\ crashes' \in Nat /\ UNCHANGED <<faults, crashes>>
  BY DEF Failed, Fatal, IInv, TypeOK
<1>2. QED BY <1>1, RetryKeeps, DieKeeps DEF Failed, Fatal

LEMMA CrashKeeps ==
  ASSUME IInv, Crash
  PROVE  IInv'
BY DieKeeps DEF Crash, IInv, TypeOK

\* A successful flush empties the pending set: what it named agrees, was
\* missed, or has moved since and is in the queue of events.
LEMMA FinishKeeps ==
  ASSUME IInv, Finish
  PROVE  IInv'
<1> USE DEF IInv
<1>1. /\ phase \in Committed /\ phase # "idle"
      /\ Settle /\ EndPass
      /\ reload' = FALSE /\ pending' = {} /\ retries' = 0
      /\ life' = IF life = "index" THEN "down" ELSE "loop"
      /\ UNCHANGED <<project, database, conf, events, budget>>
  BY DEF Finish, Committed
<1>2. EngineTypeOK' /\ Genuine' /\ PassInv'
  BY <1>1, BlankKeeps DEF EndPass, TypeOK, EngineTypeOK
<1>3. TypeOK'
  <2>1. /\ blind' \subseteq Files /\ gaveUp' \in BOOLEAN
        /\ UNCHANGED <<former, overlooked>>
    BY <1>1 DEF Settle, TypeOK, EngineTypeOK
  <2>2. life' \in {"down", "loop"} /\ reload' \in BOOLEAN
    BY <1>1
  <2>3. retries' \in 0..MaxRetries /\ pending' \subseteq Paths /\ events' \subseteq Paths
    BY <1>1, WatchAssumption DEF TypeOK
  <2>4. UNCHANGED budget
    BY <1>1
  <2>5. QED BY <1>2, <2>1, <2>2, <2>3, <2>4 DEF TypeOK
<1>4. LifeShape' /\ ScopeOfPending' /\ MovedIsReported'
  BY <1>1 DEF EndPass, Blank, LifeShape, ScopeOfPending, MovedIsReported, Reconciling
<1>5. Accounted'
  <2> SUFFICES ASSUME life' = "loop", NEW f \in Files
               PROVE  Match(f)' \/ Queued(f)' \/ f \in blind' \/ gaveUp'
    BY DEF Accounted
  <2>1. Registered
    BY <1>1 DEF LifeShape, Registered, TypeOK
  <2>2. Match(f)' = Match(f) /\ (f \in events \/ Sweep \in events => Queued(f)')
    BY <1>1 DEF Match, OnDisk, Stored, Queued, Queue
  <2>3. blind' = (blind \ scope) \cup missed
    BY <1>1 DEF Settle
  <2>4. CASE f \in moved
    BY <1>1, <2>1, <2>2, <2>4 DEF MovedIsReported
  <2>5. CASE f \in scope \ moved
    BY <1>1, <2>2, <2>3, <2>5 DEF PassInv, AfterCommit
  <2>6. CASE f \notin scope
    <3>1. life = "loop" /\ ~sweep
      BY <1>1, <2>1, <2>6 DEF LifeShape, Registered, Reconciling
    <3>2. gaveUp => gaveUp'
      BY <1>1, <3>1 DEF Settle
    <3>3. f \notin pending /\ Sweep \notin pending /\ CfgPath \notin pending
      BY <1>1, <2>6, <3>1 DEF ScopeOfPending
    <3>4. Queued(f) => Queued(f)'
      BY <1>1, <3>3 DEF Queued, Queue
    <3>5. QED BY <2>2, <2>3, <2>6, <3>1, <3>2, <3>4 DEF Accounted
  <2>7. QED BY <2>4, <2>5, <2>6
<1>6. QED BY <1>2, <1>3, <1>4, <1>5

-----------------------------------------------------------------------------
(* The theorems.                                                           *)

LEMMA InitHolds == Init => IInv
<1> SUFFICES ASSUME Init PROVE IInv
  OBVIOUS
<1> USE DEF Init, EngineInit
<1>1. TypeOK
  <2>1. EngineTypeOK
    <3>1. disk \in [Files -> Versions \cup {Absent}]
      BY DEF Versions
    <3>2. access \in [Files -> Accesses] /\ batch \in Batches
      BY AccessAssumption DEF NoBatch, Batches
    <3>3. QED BY <3>1, <3>2 DEF EngineTypeOK, Phases
  <2>2. retries \in 0..MaxRetries /\ starts \in Nat /\ faults \in Nat /\ crashes \in Nat
    BY WatchAssumption
  <2>3. life = "down" /\ reload \in BOOLEAN /\ gaveUp \in BOOLEAN
    BY DEF Init
  <2>4. events \subseteq Paths /\ pending \subseteq Paths /\ blind \subseteq Files
    BY DEF Init
  <2>5. QED BY <2>1, <2>2, <2>3, <2>4 DEF TypeOK
<1>2. LifeShape /\ ScopeOfPending /\ MovedIsReported /\ Accounted
  BY DEF LifeShape, ScopeOfPending, MovedIsReported, Accounted, Reconciling, Registered
<1>3. Genuine
  BY AbsentAssumption DEF Genuine, Once, OnDisk, Stored, Classified, Versions
<1>4. PassInv
  BY DEF PassInv, BatchShape, Detecting, NoBatch, AfterWalk, AfterStat, AfterClassify, AfterRead, AfterCommit,
        MissedIsCounted, Classified, Committed
<1>5. QED BY <1>1, <1>2, <1>3, <1>4 DEF IInv

LEMMA NextKeeps == IInv /\ [Next]_vars => IInv'
<1> SUFFICES ASSUME IInv, [Next]_vars PROVE IInv'
  OBVIOUS
<1>1. CASE Next
  BY <1>1, ChangeFileKeeps, ChangeConfigKeeps, StartKeeps, RegisterKeeps, FlushKeeps,
     CrashKeeps, ReceiveKeeps, EngineKeeps, StampKeeps, FinishKeeps, FailedKeeps,
     ReloadFailsKeeps, FaultKeeps
     DEF Next, Environment, StartIndex, StartWatch, Scheduled
<1>2. CASE UNCHANGED vars
  <2>1. TypeOK' /\ LifeShape' /\ ScopeOfPending' /\ MovedIsReported'
    BY <1>2 DEF IInv, TypeOK, EngineTypeOK, LifeShape, ScopeOfPending, MovedIsReported,
          Reconciling, Registered
  <2>2. Genuine' /\ Accounted'
    BY <1>2 DEF IInv, Genuine, Once, OnDisk, Stored, Classified, Accounted, Match, Queued, Queue
  <2>3. PassInv'
    <3>1. AfterStat'
      BY <1>2 DEF IInv, PassInv, AfterStat, Compared, OnDisk, Stored
    <3>2. BatchShape' /\ AfterWalk' /\ AfterClassify'
      BY <1>2 DEF IInv, PassInv, BatchShape, Detecting, AfterWalk, AfterClassify,
            Match, Walkable, OnDisk, Stored, Real, Classified
    <3>3. AfterRead' /\ AfterCommit' /\ MissedIsCounted'
      BY <1>2 DEF IInv, PassInv, AfterRead, AfterCommit, MissedIsCounted,
            Match, OnDisk, Stored, Classified, Committed
    <3>4. QED BY <3>1, <3>2, <3>3 DEF PassInv
  <2>4. QED BY <2>1, <2>2, <2>3 DEF IInv
<1>3. QED BY <1>1, <1>2

\* The inductive invariant holds in every reachable state.
THEOREM Invariance == Spec => []IInv
BY InitHolds, NextKeeps, PTL DEF Spec

\* Every variable keeps its type, whatever the interleaving.
THEOREM TypeCorrect == Spec => []TypeOK
BY Invariance, PTL DEF IInv

\* While the watcher waits (debounce_loop), every file is in agreement with its
\* row or is accounted for: queued, missed by the last pass, or given up.
THEOREM NoLostChangeHolds == Spec => []NoLostChange
<1>1. IInv => NoLostChange
  BY DEF IInv, Accounted, NoLostChange, Waiting
<1>2. QED BY <1>1, Invariance, PTL

\* Skipping files of unchanged size and mtime (detect's fast path) is sound.
THEOREM FastPathSoundHolds == Spec => []FastPathSound
<1>1. IInv => FastPathSound
  BY DEF IInv, Genuine, Once, FastPathSound, SameStat, Stored
<1>2. QED BY <1>1, Invariance, PTL

\* A pass whose outcome leaves no pending mark (apply_batch, record_unverified)
\* has verified every stored file of its scope.
THEOREM HonestPassHolds == Spec => []HonestPass
<1>1. IInv => HonestPass
  <2> SUFFICES ASSUME IInv, phase \in {"applied", "stamped"}, mark = 0,
                      NEW f \in scope, Stored(f), f \notin moved
               PROVE  Match(f)
    BY DEF HonestPass
  <2>1. batch.unverified = {}
    BY CountsAreNat DEF IInv, PassInv, MissedIsCounted, TypeOK, EngineTypeOK, Batches
  <2>2. f \notin missed
    BY <2>1 DEF IInv, PassInv, MissedIsCounted, Committed
  <2>3. QED BY <2>2 DEF IInv, PassInv, AfterCommit, Committed
<1>2. QED BY <1>1, Invariance, PTL

\* No transaction (apply_incremental, reindex, touch_files) replaces a row by
\* an older version of its file.
THEOREM NoRollbackHolds == Spec => NoRollback
<1> DEFINE Newer == \A f \in Files : Stored(f) /\ Stored(f)' => rows'[f].mtime >= rows[f].mtime
<1>1. IInv /\ [Next]_vars => [Newer]_vars
  <2> SUFFICES ASSUME IInv, [Next]_vars, NEW f \in Files, Stored(f), Stored(f)'
               PROVE  rows'[f].mtime >= rows[f].mtime
    OBVIOUS
  <2>1. rows[f].mtime \in Nat
    BY DEF IInv, TypeOK, EngineTypeOK, Stored, Rows
  <2>2. CASE UNCHANGED rows
    BY <2>1, <2>2
  <2>3. CASE \E g \in Files : TouchRow(g)
    <3>1. PICK g \in Files : TouchRow(g)
      BY <2>3
    <3>2. CASE g = f
      <4>1. rows[f].mtime <= bytes[f].mtime
        BY <3>1, <3>2, TouchRowEffect, AbsentAssumption DEF TouchRow, IInv, Genuine, Classified
      <4>2. QED BY <2>1, <3>1, <3>2, <4>1, TouchRowEffect DEF Versions
    <3>3. CASE g # f
      BY <2>1, <3>1, <3>3, TouchRowEffect
    <3>4. QED BY <3>2, <3>3
  <2>4. CASE Commit
    <3>1. CASE staged[f] # Absent
      <4>1. staged[f].mtime \in Nat /\ rows'[f].mtime = staged[f].mtime
        BY <2>4, <3>1 DEF Commit, Indexed, IInv, TypeOK, EngineTypeOK, Versions
      <4>2. QED BY <2>1, <2>4, <3>1, <4>1 DEF Commit, IInv, Genuine
    <3>2. CASE staged[f] = Absent
      BY <2>1, <2>4, <3>2 DEF Commit, Stored
    <3>3. QED BY <3>1, <3>2
  <2>5. UNCHANGED rows \/ (\E g \in Files : TouchRow(g)) \/ Commit
    <3>1. CASE PassStep
      BY <3>1 DEF PassStep, Walk, Stat, Classify, TooManyFiles, Publish, ReadBatch, ReadProject,
            ReadFails, Record
    <3>2. CASE Next /\ ~PassStep
      BY <3>2 DEF Next, Environment, ChangeFile, WriteFile, TouchFile, DeleteFile, Chmod,
            ChangeConfig, EditConfig, StartIndex, StartWatch, Start, Crash, Die, Receive,
            Scheduled, Register, FlushPaths, FlushConfig, EngineStep, StampStep, Stamp, Finish,
            Failed, Retry, Fatal, ReloadFails, Fault, Fails, StampFails
    <3>3. QED BY <3>1, <3>2
  <2>6. QED BY <2>2, <2>3, <2>4, <2>5
<1>2. QED BY <1>1, Invariance, PTL DEF Spec, NoRollback

-----------------------------------------------------------------------------
(* Passes forced by a new fingerprint.                                     *)

\* No step but those of a pass touches what ForcedInv speaks of.
LEMMA ForcedFrame ==
  ASSUME ForcedInv,
         UNCHANGED <<force, sweep, conf, batch, staged, whole, rows>>,
         phase' = phase \/ phase' \in {"walk", "stat", "classify", "failed", "fatal", "idle"}
           \/ (phase \in Committed /\ phase' \in Committed)
           \/ (phase \in Classified /\ phase' \in Classified)
  PROVE  ForcedInv'
BY DEF ForcedInv, Stored, Classified, Committed

\* Between passes nothing is forced, and a pass that begins knows nothing.
LEMMA FreshForced ==
  ASSUME phase' \in {"idle", "walk"}, force' => sweep'
  PROVE  ForcedInv'
BY DEF ForcedInv, Classified, Committed

\* Under force no file is compared, so every stored file is taken for created,
\* deleted or unverified.
LEMMA ForcedClassify ==
  ASSUME IInv, ForcedInv, Classify
  PROVE  ForcedInv'
<1> DEFINE c == Classification
<1> SUFFICES ASSUME force PROVE ForcedInv'
  BY DEF Classify, ForcedInv
<1>1. Compared = {}
  BY DEF Compared
<1>2. sweep /\ scope = Files
  BY DEF ForcedInv, IInv, LifeShape
<1>3. c.modified = {} /\ c.touched = {}
  BY <1>1 DEF Classification
<1>4. \A f \in Files : Stored(f) => f \in c.created \cup c.deleted \cup c.unverified
  BY <1>1, <1>2 DEF Classification
<1>5. batch' = c /\ phase' \in Classified \cup {"record"} /\ UNCHANGED <<rows, force, sweep, conf>>
  BY DEF Classify, AfterTouch, Classified
<1>6. CASE phase' \in Classified
  BY <1>2, <1>3, <1>4, <1>5, <1>6 DEF ForcedInv, Stored, Classified, Committed
<1>7. CASE phase' = "record"
  <2>1. c.created = {} /\ c.deleted = {}
    BY <1>3, <1>7 DEF Classify, AfterTouch
  <2>2. QED BY <1>2, <1>4, <1>5, <1>7, <2>1 DEF ForcedInv, Stored, Classified, Committed
<1>8. QED BY <1>5, <1>6, <1>7

LEMMA ForcedRead ==
  ASSUME IInv, ForcedInv, (\E D \in SUBSET (Tracked \ Real) : ReadBatch(D)) \/ ReadProject
  PROVE  ForcedInv'
<1> SUFFICES ASSUME force PROVE ForcedInv'
  BY DEF ReadBatch, ReadProject, ForcedInv
<1>1. /\ sweep /\ sweep' /\ phase = "read" /\ phase' = "commit"
      /\ UNCHANGED <<rows, batch>>
  BY DEF ReadBatch, ReadProject, ForcedInv
<1>2. \A f \in Files : Stored(f) => f \in batch.created \cup batch.deleted \cup batch.unverified
  BY <1>1 DEF ForcedInv, Classified
<1>3. \A f \in Files : f \in batch.created => whole' \/ staged'[f] # Absent
  <2>1. CASE ReadProject
    BY <2>1 DEF ReadProject
  <2>2. CASE \E D \in SUBSET (Tracked \ Real) : ReadBatch(D)
    BY <2>2 DEF ReadBatch, Readable, OnDisk
  <2>3. QED BY <2>1, <2>2
<1>4. QED BY <1>1, <1>2, <1>3 DEF ForcedInv, Stored, Classified, Committed

LEMMA ForcedCommit ==
  ASSUME IInv, ForcedInv, Commit
  PROVE  ForcedInv'
<1> SUFFICES ASSUME force PROVE ForcedInv'
  BY DEF Commit, ForcedInv
<1>1. /\ sweep /\ sweep' /\ phase = "commit" /\ phase' = "record"
      /\ UNCHANGED <<batch, conf>>
  BY DEF Commit, ForcedInv
<1>2. ASSUME NEW f \in Files, Stored(f)'
      PROVE  rows'[f].cfg = conf \/ f \in batch.unverified
  <2>1. CASE staged[f] # Absent
    BY <2>1 DEF Commit, Indexed
  <2>2. CASE staged[f] = Absent
    <3>1. ~whole /\ f \notin batch.deleted /\ rows'[f] = rows[f]
      BY <1>2, <2>2 DEF Commit, Stored
    <3>2. QED BY <1>1, <1>2, <2>2, <3>1 DEF ForcedInv, Stored
  <2>3. QED BY <2>1, <2>2
<1>3. QED BY <1>1, <1>2 DEF ForcedInv, Classified, Committed

LEMMA ForcedEngine ==
  ASSUME IInv, ForcedInv, EngineStep
  PROVE  ForcedInv'
<1>1. CASE \E f \in Files : TouchRow(f)
  <2>1. ~force /\ force' = force
    BY <1>1 DEF TouchRow, ForcedInv, Classified
  <2>2. QED BY <2>1 DEF ForcedInv
<1>2. CASE Walk \/ Stat \/ TooManyFiles \/ Publish \/ ReadFails \/ Record
  BY <1>2, ForcedFrame
     DEF Walk, Stat, TooManyFiles, Publish, ReadFails, Record, Classified, Committed
<1>3. QED
  BY <1>1, <1>2, ForcedClassify, ForcedRead, ForcedCommit DEF EngineStep, PassStep

LEMMA ForcedNext == IInv /\ ForcedInv /\ [Next]_vars => ForcedInv'
<1> SUFFICES ASSUME IInv, ForcedInv, [Next]_vars PROVE ForcedInv'
  OBVIOUS
<1>1. CASE ChangeFile \/ ChangeConfig \/ Receive \/ ReloadFails \/ UNCHANGED vars
  BY <1>1, ForcedFrame DEF ChangeFile, ChangeConfig, WriteFile, TouchFile, DeleteFile, Chmod,
     EditConfig, Receive, ReloadFails
<1>2. CASE StartIndex \/ Register \/ FlushPaths \/ FlushConfig
  BY <1>2, FreshForced DEF StartIndex, Start, Register, FlushPaths, FlushConfig, BeginPass
<1>3. CASE StartWatch
  <2>1. phase' = "idle" /\ UNCHANGED <<force, sweep>>
    BY <1>3 DEF StartWatch, Start, IInv, LifeShape
  <2>2. QED BY <2>1, FreshForced DEF ForcedInv
<1>4. CASE Crash \/ Failed \/ Fatal \/ Finish
  BY <1>4, FreshForced DEF Crash, Failed, Fatal, Finish, Die, Retry, EndPass
<1>5. CASE StampStep \/ Fault
  BY <1>5, ForcedFrame DEF StampStep, Stamp, Fault, Fails, StampFails, Committed
<1>6. CASE EngineStep
  BY <1>6, ForcedEngine
<1>7. QED BY <1>1, <1>2, <1>3, <1>4, <1>5, <1>6 DEF Next, Environment, Scheduled

\* What a forced pass knows holds in every reachable state.
THEOREM ForcedInvariance == Spec => []ForcedInv
<1>1. Init => ForcedInv
  BY DEF Init, EngineInit, ForcedInv
<1>2. QED BY <1>1, Invariance, ForcedNext, PTL DEF Spec

\* After an edit of the configuration or an upgrade (reconcile, index), a pass
\* that leaves pending_files at zero has analysed every row again.
THEOREM ForcedPassReanalysesHolds == Spec => []ForcedPassReanalyses
<1>1. IInv /\ ForcedInv => ForcedPassReanalyses
  <2> SUFFICES ASSUME IInv, ForcedInv, phase \in {"applied", "stamped"}, force, mark = 0
               PROVE  \A f \in Files : Stored(f) => rows[f].cfg = conf
    BY DEF ForcedPassReanalyses
  <2>1. batch.unverified \in SUBSET Files
    BY DEF IInv, TypeOK, EngineTypeOK, Batches
  <2>2. batch.unverified = {}
    BY <2>1, CountsAreNat DEF IInv, PassInv, MissedIsCounted
  <2>3. QED BY <2>2 DEF ForcedInv, Committed
<1>2. QED BY <1>1, Invariance, ForcedInvariance, PTL

-----------------------------------------------------------------------------
(* The fingerprint on record.                                              *)

\* While rows, configuration and record stay, only the pass has to be looked at.
LEMMA StampFrame ==
  ASSUME StampInv, UNCHANGED <<conf, stamp, diskCfg, former, overlooked, rows>>,
         batch'.unverified \subseteq missed', phase' = "walk" => batch'.unverified = {},
         phase' # "idle" /\ Reconciling' /\ ~force' => stamp' = conf'
  PROVE  StampInv'
BY DEF StampInv, Stored

\* A process, or a reload, takes the configuration as it is on disk.
LEMMA StampLoad ==
  ASSUME IInv, StampInv, conf' = diskCfg,
         UNCHANGED <<stamp, diskCfg, former, overlooked, rows>>,
         batch'.unverified \subseteq missed', phase' = "walk" => batch'.unverified = {},
         phase' # "idle" /\ Reconciling' /\ ~force' => stamp' = conf'
  PROVE  StampInv'
BY DEF StampInv, Stored

\* An edit leaves rows and record with a former configuration, or returns to one.
LEMMA StampEdit ==
  ASSUME IInv, StampInv, ChangeConfig
  PROVE  StampInv'
<1>1. PICK c \in Configs :
        /\ EditConfig(c) /\ former' = former \cup {diskCfg} /\ diskCfg' = c
        /\ UNCHANGED <<life, reload, overlooked>>
  BY DEF ChangeConfig, EditConfig
<1>2. UNCHANGED <<conf, stamp, rows, phase, force, batch, missed>>
  BY <1>1 DEF EditConfig
<1>3. stamp # diskCfg' \/ diskCfg' \in former'
  BY <1>1, AbsentAssumption DEF StampInv
<1>4. phase' # "idle" /\ Reconciling' /\ ~force' => stamp' = conf'
  BY <1>1, <1>2 DEF StampInv, Reconciling
<1>5. QED BY <1>1, <1>2, <1>3, <1>4 DEF StampInv, Stored

\* What is written is written under the configuration that was loaded.
LEMMA StampEngine ==
  ASSUME IInv, StampInv, EngineStep
  PROVE  StampInv'
<1>1. /\ UNCHANGED <<conf, stamp, diskCfg, former, overlooked, force, life, reload>>
      /\ phase # "idle"
  BY DEF EngineStep, PassStep, Walk, Stat, Classify, TooManyFiles, TouchRow, Publish, ReadBatch,
         ReadProject, ReadFails, Commit, Record
<1>2. phase' # "idle" /\ Reconciling' /\ ~force' => stamp' = conf'
  BY <1>1 DEF StampInv, Reconciling
<1>3. batch'.unverified \subseteq missed'
  <2>1. CASE Walk
    BY <2>1 DEF Walk, StampInv
  <2>2. CASE Classify
    <3>1. batch' = Classification /\ missed' = missed \cup Classification.unverified
      BY <2>2 DEF Classify
    <3>2. QED BY <3>1
  <2>3. CASE \E f \in Files : TouchRow(f)
    BY <2>3 DEF TouchRow, StampInv, IInv, TypeOK, EngineTypeOK, Batches
  <2>4. CASE ReadProject
    BY <2>4 DEF ReadProject, StampInv
  <2>5. CASE Stat \/ TooManyFiles \/ Publish \/ ReadFails \/ Commit \/ Record
               \/ \E D \in SUBSET (Tracked \ Real) : ReadBatch(D)
    BY <2>5 DEF Stat, TooManyFiles, Publish, ReadFails, Commit, Record, ReadBatch, StampInv
  <2>6. QED BY <2>1, <2>2, <2>3, <2>4, <2>5 DEF EngineStep, PassStep
<1>4. ASSUME NEW f \in Files, Stored(f)'
      PROVE  rows'[f].cfg = conf \/ (Stored(f) /\ rows'[f].cfg = rows[f].cfg)
  <2>1. CASE \E g \in Files : TouchRow(g)
    BY <1>4, <2>1, TouchRowEffect
  <2>2. CASE Commit
    <3>1. staged[f] # Absent => rows'[f].cfg = conf
      BY <2>2 DEF Commit, Indexed
    <3>2. staged[f] = Absent => rows'[f] = rows[f]
      BY <1>4, <2>2 DEF Commit, Stored
    <3>3. QED BY <1>4, <3>1, <3>2 DEF Stored
  <2>3. CASE UNCHANGED rows
    BY <1>4, <2>3 DEF Stored
  <2>4. UNCHANGED rows \/ (\E g \in Files : TouchRow(g)) \/ Commit
    BY DEF EngineStep, PassStep, Walk, Stat, Classify, TooManyFiles, Publish, ReadBatch, ReadProject,
           ReadFails, Record
  <2>5. QED BY <2>1, <2>2, <2>3, <2>4
<1>5. phase' # "walk"
  BY DEF EngineStep, PassStep, Walk, Stat, Classify, TooManyFiles, TouchRow, Publish, ReadBatch,
         ReadProject, ReadFails, Commit, Record, AfterTouch
<1>6. QED BY <1>1, <1>2, <1>3, <1>4, <1>5 DEF StampInv

\* The stamp goes on record after a pass of its configuration: every row is of
\* it, or was missed.
LEMMA StampRecorded ==
  ASSUME IInv, ForcedInv, StampInv, StampStep
  PROVE  StampInv'
<1>1. /\ Reconciling /\ phase = "applied" /\ phase' = "stamped" /\ stamp' = conf
      /\ overlooked' = IF force THEN missed ELSE overlooked
      /\ UNCHANGED <<conf, diskCfg, former, rows, force, batch, missed, life, reload>>
  BY DEF StampStep, Stamp
<1>2. CASE force
  <2>1. \A f \in Files \ missed : Stored(f) => rows[f].cfg = conf
    BY <1>1, <1>2 DEF ForcedInv, StampInv, Committed
  <2>2. QED BY <1>1, <1>2, <2>1 DEF StampInv, Stored
<1>3. CASE ~force
  <2>1. stamp = conf
    BY <1>1, <1>3 DEF StampInv
  <2>2. QED BY <1>1, <1>3, <2>1 DEF StampInv, Stored
<1>4. QED BY <1>2, <1>3

LEMMA StampNext == IInv /\ ForcedInv /\ StampInv /\ [Next]_vars => StampInv'
<1> SUFFICES ASSUME IInv, ForcedInv, StampInv, [Next]_vars PROVE StampInv'
  OBVIOUS
<1>1. CASE ChangeFile \/ Receive \/ UNCHANGED vars
  <2>1. UNCHANGED <<conf, stamp, diskCfg, former, overlooked, rows, batch, missed, phase, force,
                    life, reload>>
    BY <1>1 DEF ChangeFile, WriteFile, TouchFile, DeleteFile, Chmod, Receive
  <2>2. QED BY <2>1, StampFrame DEF StampInv, Reconciling
<1>2. CASE ReloadFails
  <2>1. UNCHANGED <<conf, stamp, diskCfg, former, overlooked, rows, batch, missed, phase, force,
                    life, reload>>
    BY <1>2, FailureAccounts DEF ReloadFails, Waiting, KeepPending, GiveUp
  <2>2. QED BY <2>1, StampFrame DEF StampInv, Reconciling
<1>3. CASE Register
  <2>1. /\ UNCHANGED <<conf, stamp, diskCfg, former, overlooked, rows>>
        /\ batch' = NoBatch /\ (~force' => stamp = conf)
    BY <1>3 DEF Register, BeginPass, Blank
  <2>2. QED BY <2>1, StampFrame DEF NoBatch
<1>4. CASE FlushPaths
  <2>1. /\ UNCHANGED <<conf, stamp, diskCfg, former, overlooked, rows>>
        /\ batch' = NoBatch /\ ~Reconciling'
    BY <1>4 DEF FlushPaths, BeginPass, Blank, Waiting, Reconciling
  <2>2. QED BY <2>1, StampFrame DEF NoBatch
<1>5. CASE StartIndex \/ FlushConfig
  <2>1. /\ conf' = diskCfg /\ UNCHANGED <<stamp, diskCfg, former, overlooked, rows>>
        /\ batch' = NoBatch /\ (~force' => stamp = diskCfg)
    BY <1>5 DEF StartIndex, Start, FlushConfig, BeginPass, Blank
  <2>2. QED BY <2>1, StampLoad DEF NoBatch
<1>6. CASE StartWatch
  <2>1. /\ conf' = diskCfg
        /\ UNCHANGED <<stamp, diskCfg, former, overlooked, rows, phase, batch, missed>>
        /\ phase = "idle"
    BY <1>6 DEF StartWatch, Start, IInv, LifeShape
  <2>2. QED BY <2>1, StampLoad DEF StampInv
<1>7. CASE Crash \/ Failed \/ Fatal \/ Finish
  <2>1. /\ UNCHANGED <<conf, stamp, diskCfg, former, overlooked, rows>>
        /\ phase' = "idle" /\ batch' = NoBatch
    BY <1>7 DEF Crash, Failed, Fatal, Finish, Settle, Die, Retry, KeepPending, GiveUp, EndPass, Blank
  <2>2. QED BY <2>1, StampFrame DEF NoBatch
<1>8. CASE Fault
  <2>1. UNCHANGED <<conf, stamp, diskCfg, former, overlooked, rows, batch, missed, force, life, reload>>
    BY <1>8 DEF Fault, Fails, StampFails
  <2>2. phase # "idle" /\ phase' = "failed"
    BY <1>8 DEF Fault, Fails, StampFails
  <2>3. QED BY <2>1, <2>2, StampFrame DEF StampInv, Reconciling
<1>9. QED
  BY <1>1, <1>2, <1>3, <1>4, <1>5, <1>6, <1>7, <1>8, StampEdit, StampEngine, StampRecorded
  DEF Next, Environment, Scheduled

\* What the record says of the rows holds in every reachable state.
THEOREM StampInvariance == Spec => []StampInv
<1>1. Init => StampInv
  BY AbsentAssumption DEF Init, EngineInit, StampInv, Stored, NoBatch
<1>2. QED BY <1>1, Invariance, ForcedInvariance, StampNext, PTL DEF Spec

\* A row of another analysis never hides behind the fingerprint of the
\* configuration on disk (analyzer_version_changed, set_analyzer_version): the
\* next start will force a full pass.
THEOREM StampHonestHolds == Spec => []StampHonest
<1>1. StampInv => StampHonest
  BY DEF StampInv, StampHonest
<1>2. QED BY <1>1, StampInvariance, PTL

=============================================================================
