--------------------------- MODULE WritersProofs ----------------------------
(***************************************************************************)
(* Any number of processes over one database: the schema is migrated once  *)
(* and recorded as it is, migration 0003 wipes no row indexed since, and a  *)
(* row is one version of its file.                                         *)
(***************************************************************************)
EXTENDS Writers, TLAPS

(* The migrations in the database are a prefix of all of them; a process is  *)
(* at one that is there, and works only on a database that has the last.     *)
Migrated ==
  /\ \E n \in 0 .. Latest : schema = 1 .. n /\ recorded = 1 .. n
  /\ \A p \in Procs : stage[p] = "opening" => found[p] = 0 \/ found[p] \in recorded
  /\ \A p \in Procs : stage[p] \notin {"closed", "opening"} => Latest \in recorded

Wiped == WipedOnce /\ (row # Absent /\ row.ids = "new" => Wipes \in recorded)

(* One version of the file, and the one on disk if the times agree. *)
Genuine(v) ==
  /\ \E c \in Contents : v.text = Whole(c)
  /\ v.mtime <= mtime
  /\ v.mtime = mtime => disk # Absent /\ v.text = Whole(disk)

Looking == {"stat", "before", "head", "tail", "after", "touch", "publish"}

(* What a process knows between two of its steps.  While the time before the *)
(* read is still the file's, what was read is what is there.                 *)
Knows(p) ==
  /\ stamp[p] <= mtime
  /\ stage[p] \in {"head", "tail", "after"} => stamp[p] <= before[p] /\ before[p] <= mtime
  /\ stage[p] = "tail" => half[p] \in Contents /\ (before[p] = mtime => disk = half[p])
  /\ stage[p] = "after" =>
       half[p] \in Texts /\ (before[p] = mtime => disk # Absent /\ half[p] = Whole(disk))
  /\ read[p] # Absent => Genuine(read[p])
  /\ stage[p] = "touch" =>
       read[p] # Absent /\ read[p].text = snapshot[p].text /\ stamp[p] <= read[p].mtime
  /\ stage[p] = "publish" => kind[p] \in {"deleted", "created"} \/ read[p] # Absent
  /\ stage[p] = "commit" => kind[p] = "deleted" \/ read[p] # Absent
  /\ stage[p] \in Looking /\ p \notin touched => row = snapshot[p]

Knowing == \A p \in Procs : Knows(p)
RowGenuine == row # Absent /\ row.ids = "new" /\ ~overtaken => Genuine(row)

IInv == TypeOK /\ Migrated /\ Wiped /\ Knowing /\ RowGenuine

USE DEF Latest, Wipes, Tries

(* The newest migration of a prefix is its length. *)
LEMMA NewestIs ==
  ASSUME NEW n \in 0 .. 7, recorded = 1 .. n
  PROVE  Newest = n
<1>1. CASE n = 0
  BY <1>1 DEF Newest
<1>2. CASE n # 0
  <2>1. n \in recorded /\ \A m \in recorded : m <= n
    BY <1>2
  <2>2. \A k \in recorded : (\A m \in recorded : m <= k) => k = n
    BY <2>1
  <2> QED
    BY <2>1, <2>2 DEF Newest
<1> QED
  BY <1>1, <1>2

(* A row with a new id has the time and the text of a read. *)
LEMMA RowIs ==
  ASSUME NEW r \in Rows, r.ids = "new"
  PROVE  r.mtime \in 0 .. MaxClock /\ r.text \in Texts /\ r # Absent
  BY AbsentAssumption DEF Rows

(* A database is found with a prefix of the migrations, and rows to match. *)
LEMMA InitHolds == Init => IInv
<1> SUFFICES ASSUME Init PROVE IInv
  OBVIOUS
<1>1. PICK n \in OldSchemas : 
       /\ schema = 1 .. n /\ recorded = 1 .. n
       /\ row \in IF n = 0 \/ disk = Absent THEN {Absent}
                  ELSE IF n < Wipes THEN {[text |-> Absent, mtime |-> Absent, ids |-> "old"]}
                  ELSE {[text |-> Whole(disk), mtime |-> 0, ids |-> "new"]}
  BY DEF Init
<1>2. n \in 0 .. 7
  BY BoundsAssumption
<1>3. \/ row = Absent
      \/ row = [text |-> Absent, mtime |-> Absent, ids |-> "old"] /\ n < 3
      \/ row = [text |-> Whole(disk), mtime |-> 0, ids |-> "new"] /\ n >= 3 /\ disk \in Contents
  BY <1>1, <1>2 DEF Init
<1>4. TypeOK
  <2>1. row \in Rows \cup {Absent}
    BY <1>3, BoundsAssumption DEF Rows, Texts, Whole
  <2>2. schema \subseteq 1 .. 7 /\ recorded \subseteq 1 .. 7
    BY <1>1, <1>2
  <2> QED
    <3>1. /\ 0 \in 0 .. MaxClock /\ 0 \in 0 .. MaxPasses /\ 0 \in 0 .. MaxFaults
          /\ 0 \in 0 .. 7 /\ 0 \in 0 .. 2
      BY BoundsAssumption
    <3>2. /\ stage \in [Procs -> Stages] /\ kind \in [Procs -> Kinds]
          /\ found = [p \in Procs |-> 0] /\ snapshot = [p \in Procs |-> Absent]
          /\ half = snapshot /\ read = snapshot /\ stamp = found /\ before = found /\ tries = found
      BY DEF Init, Stages, Kinds
    <3>3. /\ found \in [Procs -> 0 .. 7] /\ stamp \in [Procs -> 0 .. MaxClock]
          /\ before \in [Procs -> 0 .. MaxClock] /\ tries \in [Procs -> 0 .. 2]
      BY <3>1, <3>2
    <3>4. /\ snapshot \in [Procs -> Rows \cup {Absent}] /\ read \in [Procs -> Reads \cup {Absent}]
          /\ half \in [Procs -> Contents \cup Texts \cup {Absent}]
      BY <3>2
    <3> HIDE DEF Tries, Latest
    <3>5. 0 .. Tries - 1 = 0 .. 2 /\ Latest = 7
      BY DEF Tries, Latest
    <3>6. mark \in 0 .. 1 /\ touched \subseteq Procs /\ overtaken \in BOOLEAN /\ wiped \in BOOLEAN
      <4>1. mark = 0 /\ touched = {}
        BY DEF Init
      <4>2. overtaken = FALSE /\ wiped = FALSE
        BY Zenon DEF Init
      <4>3. overtaken \in BOOLEAN /\ wiped \in BOOLEAN
        BY <4>2, Zenon
      <4>4. mark \in 0 .. 1 /\ touched \subseteq Procs
        BY <4>1
      <4> QED
        BY <4>3, <4>4
    <3>7. disk \in Contents \cup {Absent} /\ mtime \in 0 .. MaxClock
          /\ passes \in 0 .. MaxPasses /\ faults \in 0 .. MaxFaults
      BY <3>1 DEF Init
    <3> QED
      BY <2>1, <2>2, <3>2, <3>3, <3>4, <3>5, <3>6, <3>7 DEF TypeOK
<1>5. Migrated
  BY <1>1, <1>2 DEF Init, Migrated
<1>6. Wiped
  <2>1. recorded = 1 .. n /\ ~wiped
    BY <1>1 DEF Init
  <2>2. 3 \in recorded <=> n >= 3
    BY <2>1, <1>2
  <2> QED
    <3>1. CASE row = Absent
      BY <3>1, <2>1 DEF Wiped, WipedOnce
    <3>2. CASE row = [text |-> Absent, mtime |-> Absent, ids |-> "old"] /\ n < 3
      <4>1. row.ids = "old" /\ 3 \notin recorded
        BY <3>2, <2>2, <1>2
      <4> QED
        BY <4>1, <2>1 DEF Wiped, WipedOnce
    <3>3. CASE row = [text |-> Whole(disk), mtime |-> 0, ids |-> "new"] /\ n >= 3
      <4>1. row.ids = "new" /\ 3 \in recorded
        BY <3>3, <2>2
      <4> QED
        BY <4>1, <2>1 DEF Wiped, WipedOnce
    <3> QED
      BY <3>1, <3>2, <3>3, <1>3
<1>7. Knowing
  BY BoundsAssumption DEF Init, Knowing, Knows, Looking, Whole
<1>8. RowGenuine
  BY <1>3, AbsentAssumption DEF Init, RowGenuine, Genuine, Whole
<1> QED
  BY <1>4, <1>5, <1>6, <1>7, <1>8 DEF IInv

(* A write gets a time that no read and no row has. *)
LEMMA ChangeKeeps ==
  ASSUME IInv, Change
  PROVE  IInv'
<1>1. TypeOK'
  BY BoundsAssumption DEF IInv, TypeOK, Stages, Kinds, Change, file, db, mine, hist
<1>2. Migrated'
  BY DEF IInv, Migrated, TypeOK, Change, file, db, mine, hist
<1>3. Wiped'
  BY DEF IInv, Wiped, WipedOnce, Change, file, db, mine, hist
<1>4. Knowing'
  <2> SUFFICES ASSUME NEW q \in Procs PROVE Knows(q)'
    BY DEF Knowing
  <2> USE DEF IInv, TypeOK, Knowing, Knows, file, db, mine, hist, Change
  <2>0. /\ mtime' = mtime + 1 /\ mtime \in Nat /\ stamp[q] \in Nat /\ before[q] \in Nat /\ Knows(q)
        /\ (stage[q] \in {"head", "tail", "after"} => before[q] # mtime')
        /\ row' = row /\ stage' = stage /\ read' = read
    BY BoundsAssumption
  <2>1. read[q] # Absent => Genuine(read[q])'
    <3> SUFFICES ASSUME read[q] # Absent PROVE Genuine(read[q])'
      OBVIOUS
    <3>1. read[q] \in Reads /\ Genuine(read[q])
      BY <2>0
    <3>2. read[q].mtime \in Nat
      BY <3>1, BoundsAssumption DEF Reads
    <3> QED
      BY <2>0, <3>1, <3>2 DEF Genuine, Whole
  <2> QED
    BY <2>0, <2>1 DEF Whole, Looking
<1>5. RowGenuine'
  <2> SUFFICES ASSUME row # Absent, row.ids = "new", ~overtaken PROVE Genuine(row)'
    BY DEF RowGenuine, Change, db, hist
  <2>1. row \in Rows /\ Genuine(row) /\ mtime' = mtime + 1 /\ mtime \in Nat /\ row' = row
    BY BoundsAssumption DEF IInv, TypeOK, RowGenuine, Change, db
  <2>2. row.mtime \in Nat
    BY <2>1, RowIs, BoundsAssumption
  <2> QED
    BY <2>1, <2>2 DEF Genuine, Whole
<1> QED
  BY <1>1, <1>2, <1>3, <1>4, <1>5 DEF IInv

(* So does a touch. *)
LEMMA TouchKeeps ==
  ASSUME IInv, Touch
  PROVE  IInv'
<1>1. TypeOK'
  BY BoundsAssumption DEF IInv, TypeOK, Touch, file, db, mine, hist
<1>2. Migrated'
  BY DEF IInv, Migrated, TypeOK, Touch, file, db, mine, hist
<1>3. Wiped'
  BY DEF IInv, Wiped, WipedOnce, Touch, file, db, mine, hist
<1>4. Knowing'
  <2> SUFFICES ASSUME NEW q \in Procs PROVE Knows(q)'
    BY DEF Knowing
  <2> USE DEF IInv, TypeOK, Knowing, Knows, file, db, mine, hist, Touch
  <2>0. /\ mtime' = mtime + 1 /\ mtime \in Nat /\ stamp[q] \in Nat /\ before[q] \in Nat /\ Knows(q)
        /\ (stage[q] \in {"head", "tail", "after"} => before[q] # mtime')
        /\ row' = row /\ stage' = stage /\ read' = read
    BY BoundsAssumption
  <2>1. read[q] # Absent => Genuine(read[q])'
    <3> SUFFICES ASSUME read[q] # Absent PROVE Genuine(read[q])'
      OBVIOUS
    <3>1. read[q] \in Reads /\ Genuine(read[q])
      BY <2>0
    <3>2. read[q].mtime \in Nat
      BY <3>1, BoundsAssumption DEF Reads
    <3> QED
      BY <2>0, <3>1, <3>2 DEF Genuine, Whole
  <2> QED
    BY <2>0, <2>1 DEF Whole, Looking
<1>5. RowGenuine'
  <2> SUFFICES ASSUME row # Absent, row.ids = "new", ~overtaken PROVE Genuine(row)'
    BY DEF RowGenuine, Touch, db, hist
  <2>1. row \in Rows /\ Genuine(row) /\ mtime' = mtime + 1 /\ mtime \in Nat /\ row' = row
    BY BoundsAssumption DEF IInv, TypeOK, RowGenuine, Touch, db
  <2>2. row.mtime \in Nat
    BY <2>1, RowIs, BoundsAssumption
  <2> QED
    BY <2>1, <2>2 DEF Genuine, Whole
<1> QED
  BY <1>1, <1>2, <1>3, <1>4, <1>5 DEF IInv

(* The version read is the newest recorded. *)
LEMMA OpenKeeps ==
  ASSUME IInv, NEW p \in Procs, Open(p)
  PROVE  IInv'
<1>1. TypeOK'
  <2>1. PICK n \in 0 .. 7 : schema = 1 .. n /\ recorded = 1 .. n
    BY DEF IInv, Migrated
  <2>2. Newest \in 0 .. 7
    BY <2>1, NewestIs
  <2> QED
    BY <2>2 DEF IInv, TypeOK, Stages, Open, To, file, db, hist
<1>2. Migrated'
  <2>1. PICK n \in 0 .. 7 : schema = 1 .. n /\ recorded = 1 .. n
    BY DEF IInv, Migrated
  <2>2. Newest = n
    BY <2>1, NewestIs
  <2>3. \A q \in Procs : stage'[q] = "opening" => found'[q] = 0 \/ found'[q] \in recorded
    <3> SUFFICES ASSUME NEW q \in Procs, stage'[q] = "opening"
                 PROVE  found'[q] = 0 \/ found'[q] \in recorded
      OBVIOUS
    <3>1. CASE q = p
      <4>1. found'[q] = n
        BY <3>1, <2>2 DEF IInv, TypeOK, Open
      <4> QED
        BY <4>1, <2>1
    <3>2. CASE q # p
      BY <3>2 DEF IInv, Migrated, TypeOK, Open, To
    <3> QED
      BY <3>1, <3>2
  <2> QED
    BY <2>1, <2>3 DEF IInv, Migrated, TypeOK, Open, To, db
<1>3. Wiped'
  BY DEF IInv, Wiped, WipedOnce, Open, To, file, db, mine, hist
<1>4. Knowing'
  BY AbsentAssumption, BoundsAssumption
    DEF IInv, TypeOK, Knowing, Knows, Genuine, Whole, Looking, Stages, Open, To, file, db,
        mine, hist
<1>5. RowGenuine'
  BY AbsentAssumption, BoundsAssumption
    DEF IInv, TypeOK, RowGenuine, Genuine, Whole, Open, To, file, db, mine, hist
<1> QED
  BY <1>1, <1>2, <1>3, <1>4, <1>5 DEF IInv

(* A migration applies only to the version before it. *)
LEMMA MigrateKeeps ==
  ASSUME IInv, NEW p \in Procs, Migrate(p)
  PROVE  IInv'
<1>1. TypeOK'
  <2> DEFINE v == found[p] + 1
  <2>1. PICK n \in 0 .. 7 : schema = 1 .. n /\ recorded = 1 .. n
    BY DEF IInv, Migrated
  <2>2. /\ stage[p] = "opening" /\ found[p] \in 0 .. 7 /\ v <= 7 /\ v \notin recorded
        /\ schema' = schema \cup {v} /\ recorded' = recorded \cup {v}
        /\ found' = [found EXCEPT ![p] = v] /\ row' = (IF v = Wipes THEN Absent ELSE row)
        /\ stage' = stage
    BY DEF IInv, TypeOK, Migrate, Applies
  <2>3. v = n + 1
    BY <2>1, <2>2 DEF IInv, Migrated
  <2>4. schema' \subseteq 1 .. 7 /\ recorded' \subseteq 1 .. 7 /\ v \in 0 .. 7
    BY <2>1, <2>2, <2>3
  <2>5. found' \in [Procs -> 0 .. 7] /\ row' \in Rows \cup {Absent}
    BY <2>2, <2>4 DEF IInv, TypeOK
  <2>6. touched' \subseteq Procs /\ wiped' \in BOOLEAN
    <3>1. touched' \subseteq Procs
      BY DEF IInv, TypeOK, Migrate, Overtake
    <3>2. wiped' \in BOOLEAN
      BY DEF IInv, TypeOK, Migrate
    <3> QED
      BY <3>1, <3>2
  <2> QED
    BY <2>4, <2>5, <2>6 DEF IInv, TypeOK, Migrate, file
<1>2. Migrated'
  <2> DEFINE v == found[p] + 1
  <2>1. PICK n \in 0 .. 7 : schema = 1 .. n /\ recorded = 1 .. n
    BY DEF IInv, Migrated
  <2>2. /\ stage[p] = "opening" /\ found[p] \in 0 .. 7 /\ v <= 7 /\ v \notin recorded
        /\ schema' = schema \cup {v} /\ recorded' = recorded \cup {v}
        /\ found' = [found EXCEPT ![p] = v] /\ row' = (IF v = Wipes THEN Absent ELSE row)
        /\ stage' = stage
    BY DEF IInv, TypeOK, Migrate, Applies
  <2>3. v = n + 1
    BY <2>1, <2>2 DEF IInv, Migrated
  <2>4. schema' = 1 .. n + 1 /\ recorded' = 1 .. n + 1 /\ n + 1 \in 0 .. 7
    BY <2>1, <2>2, <2>3
  <2>5. \A q \in Procs : stage[q] = "opening" => found'[q] = 0 \/ found'[q] \in recorded'
    BY <2>2 DEF IInv, Migrated, TypeOK
  <2>6. \A q \in Procs : stage[q] \notin {"closed", "opening"} => 7 \in recorded'
    BY <2>2 DEF IInv, Migrated
  <2> QED
    BY <2>2, <2>4, <2>5, <2>6 DEF Migrated
<1>3. Wiped'
  BY DEF IInv, Wiped, WipedOnce, Migrate, Applies, Overtake, file, db, mine, hist
<1>4. Knowing'
  BY AbsentAssumption, BoundsAssumption
    DEF IInv, TypeOK, Knowing, Knows, Genuine, Whole, Looking, Stages, Migrate, Applies,
        Overtake, file, db, mine, hist
<1>5. RowGenuine'
  BY AbsentAssumption, BoundsAssumption
    DEF IInv, TypeOK, RowGenuine, Genuine, Whole, Migrate, Applies, Overtake, file, db,
        mine, hist
<1> QED
  BY <1>1, <1>2, <1>3, <1>4, <1>5 DEF IInv

(* A lost race leaves nothing. *)
LEMMA MigrateFailsKeeps ==
  ASSUME IInv, NEW p \in Procs, MigrateFails(p)
  PROVE  IInv'
<1>1. TypeOK'
  BY BoundsAssumption
    DEF IInv, TypeOK, Stages, Kinds, MigrateFails, To, file, db, mine, hist
<1>2. Migrated'
  BY DEF IInv, Migrated, TypeOK, MigrateFails, To, file, db, mine, hist
<1>3. Wiped'
  BY DEF IInv, Wiped, WipedOnce, MigrateFails, To, file, db, mine, hist
<1>4. Knowing'
  BY AbsentAssumption, BoundsAssumption
    DEF IInv, TypeOK, Knowing, Knows, Genuine, Whole, Looking, Stages, MigrateFails, To,
        file, db, mine, hist
<1>5. RowGenuine'
  BY AbsentAssumption, BoundsAssumption
    DEF IInv, TypeOK, RowGenuine, Genuine, Whole, MigrateFails, To, file, db, mine, hist
<1> QED
  BY <1>1, <1>2, <1>3, <1>4, <1>5 DEF IInv

(* At the last version the session is open. *)
LEMMA OpenedKeeps ==
  ASSUME IInv, NEW p \in Procs, Opened(p)
  PROVE  IInv'
<1>1. TypeOK'
  BY BoundsAssumption DEF IInv, TypeOK, Stages, Kinds, Opened, To, file, db, mine, hist
<1>2. Migrated'
  <2>1. 7 \in recorded
    BY DEF IInv, Migrated, Opened
  <2> QED
    BY <2>1 DEF IInv, Migrated, TypeOK, Opened, To, db, mine
<1>3. Wiped'
  BY DEF IInv, Wiped, WipedOnce, Opened, To, file, db, mine, hist
<1>4. Knowing'
  BY AbsentAssumption, BoundsAssumption
    DEF IInv, TypeOK, Knowing, Knows, Genuine, Whole, Looking, Stages, Opened, To, file,
        db, mine, hist
<1>5. RowGenuine'
  BY AbsentAssumption, BoundsAssumption
    DEF IInv, TypeOK, RowGenuine, Genuine, Whole, Opened, To, file, db, mine, hist
<1> QED
  BY <1>1, <1>2, <1>3, <1>4, <1>5 DEF IInv

(* The snapshot is the row. *)
LEMMA DetectKeeps ==
  ASSUME IInv, NEW p \in Procs, Detect(p)
  PROVE  IInv'
<1>1. TypeOK'
  BY BoundsAssumption DEF IInv, TypeOK, Stages, Kinds, Detect, To, file, db, mine, hist
<1>2. Migrated'
  BY DEF IInv, Migrated, TypeOK, Detect, To, file, db, mine, hist
<1>3. Wiped'
  BY DEF IInv, Wiped, WipedOnce, Detect, To, file, db, mine, hist
<1>4. Knowing'
  BY AbsentAssumption, BoundsAssumption
    DEF IInv, TypeOK, Knowing, Knows, Genuine, Whole, Looking, Stages, Detect, To, file,
        db, mine, hist
<1>5. RowGenuine'
  BY AbsentAssumption, BoundsAssumption
    DEF IInv, TypeOK, RowGenuine, Genuine, Whole, Detect, To, file, db, mine, hist
<1> QED
  BY <1>1, <1>2, <1>3, <1>4, <1>5 DEF IInv

(* The stat is of now. *)
LEMMA StatKeeps ==
  ASSUME IInv, NEW p \in Procs, Stat(p)
  PROVE  IInv'
<1>1. TypeOK'
  BY BoundsAssumption DEF IInv, TypeOK, Stages, Kinds, Stat, To, file, db, mine, hist
<1>2. Migrated'
  BY DEF IInv, Migrated, TypeOK, Stat, To, file, db, mine, hist
<1>3. Wiped'
  BY DEF IInv, Wiped, WipedOnce, Stat, To, file, db, mine, hist
<1>4. Knowing'
  BY AbsentAssumption, BoundsAssumption
    DEF IInv, TypeOK, Knowing, Knows, Genuine, Whole, Looking, Stages, Stat, To, file, db,
        mine, hist
<1>5. RowGenuine'
  BY AbsentAssumption, BoundsAssumption
    DEF IInv, TypeOK, RowGenuine, Genuine, Whole, Stat, To, file, db, mine, hist
<1> QED
  BY <1>1, <1>2, <1>3, <1>4, <1>5 DEF IInv

(* The read begins. *)
LEMMA ReadBeforeKeeps ==
  ASSUME IInv, NEW p \in Procs, ReadBefore(p)
  PROVE  IInv'
<1>1. TypeOK'
  BY BoundsAssumption DEF IInv, TypeOK, Stages, Kinds, ReadBefore, To, file, db, mine,
    hist
<1>2. Migrated'
  BY DEF IInv, Migrated, TypeOK, ReadBefore, To, file, db, mine, hist
<1>3. Wiped'
  BY DEF IInv, Wiped, WipedOnce, ReadBefore, To, file, db, mine, hist
<1>4. Knowing'
  BY AbsentAssumption, BoundsAssumption
    DEF IInv, TypeOK, Knowing, Knows, Genuine, Whole, Looking, Stages, ReadBefore, To,
        file, db, mine, hist
<1>5. RowGenuine'
  BY AbsentAssumption, BoundsAssumption
    DEF IInv, TypeOK, RowGenuine, Genuine, Whole, ReadBefore, To, file, db, mine, hist
<1> QED
  BY <1>1, <1>2, <1>3, <1>4, <1>5 DEF IInv

(* The first half is of now. *)
LEMMA ReadHeadKeeps ==
  ASSUME IInv, NEW p \in Procs, ReadHead(p)
  PROVE  IInv'
<1>1. TypeOK'
  BY BoundsAssumption DEF IInv, TypeOK, Stages, Kinds, ReadHead, To, file, db, mine, hist
<1>2. Migrated'
  BY DEF IInv, Migrated, TypeOK, ReadHead, To, file, db, mine, hist
<1>3. Wiped'
  BY DEF IInv, Wiped, WipedOnce, ReadHead, To, file, db, mine, hist
<1>4. Knowing'
  BY AbsentAssumption, BoundsAssumption
    DEF IInv, TypeOK, Knowing, Knows, Genuine, Whole, Looking, Stages, ReadHead, To, file,
        db, mine, hist
<1>5. RowGenuine'
  BY AbsentAssumption, BoundsAssumption
    DEF IInv, TypeOK, RowGenuine, Genuine, Whole, ReadHead, To, file, db, mine, hist
<1> QED
  BY <1>1, <1>2, <1>3, <1>4, <1>5 DEF IInv

(* The second half is of now, and so is the first if the time still is. *)
LEMMA ReadTailKeeps ==
  ASSUME IInv, NEW p \in Procs, ReadTail(p)
  PROVE  IInv'
<1>1. TypeOK'
  <2>1. half[p] \in Contents /\ disk \in Contents
    BY DEF IInv, TypeOK, Knowing, Knows, ReadTail
  <2>2. half' \in [Procs -> Contents \cup Texts \cup {Absent}]
    BY <2>1 DEF IInv, TypeOK, ReadTail, Texts
  <2> QED
    BY <2>2 DEF IInv, TypeOK, Stages, ReadTail, To, file, db, hist
<1>2. Migrated'
  BY DEF IInv, Migrated, TypeOK, ReadTail, To, Texts, file, db, mine, hist
<1>3. Wiped'
  BY DEF IInv, Wiped, WipedOnce, ReadTail, To, Texts, file, db, mine, hist
<1>4. Knowing'
  BY AbsentAssumption, BoundsAssumption
    DEF IInv, TypeOK, Knowing, Knows, Genuine, Whole, Looking, Stages, ReadTail, To,
        Texts, file, db, mine, hist
<1>5. RowGenuine'
  BY AbsentAssumption, BoundsAssumption
    DEF IInv, TypeOK, RowGenuine, Genuine, Whole, ReadTail, To, Texts, file, db, mine,
        hist
<1> QED
  BY <1>1, <1>2, <1>3, <1>4, <1>5 DEF IInv

(* The read is accepted if the time is the one it began with. *)
LEMMA ReadAfterKeeps ==
  ASSUME IInv, NEW p \in Procs, ReadAfter(p)
  PROVE  IInv'
<1>1. TypeOK'
  <2>1. /\ stage[p] = "after" /\ half[p] \in Texts /\ mtime \in 0 .. MaxClock /\ before[p] = mtime
        /\ read' = [read EXCEPT ![p] = [text |-> half[p], mtime |-> mtime]]
        /\ kind' = [kind EXCEPT ![p] = Classified(p, half[p])]
        /\ stage' = [stage EXCEPT ![p] = After(Classified(p, half[p]))]
    BY DEF IInv, TypeOK, Knowing, Knows, ReadAfter, Stable, To
  <2>2. Classified(p, half[p]) \in {"created", "touched", "modified"}
    BY DEF Classified
  <2>3. /\ Classified(p, half[p]) = "created" => After(Classified(p, half[p])) = "commit"
        /\ Classified(p, half[p]) = "touched" => After(Classified(p, half[p])) = "touch"
        /\ Classified(p, half[p]) = "modified" => After(Classified(p, half[p])) = "publish"
    BY DEF After
  <2>4. read' \in [Procs -> Reads \cup {Absent}]
    BY <2>1 DEF IInv, TypeOK, Reads
  <2>5. kind' \in [Procs -> Kinds] /\ stage' \in [Procs -> Stages]
    BY <2>1, <2>2, <2>3 DEF IInv, TypeOK, Kinds, Stages
  <2>6. half' \in [Procs -> Contents \cup Texts \cup {Absent}]
    BY DEF IInv, TypeOK, ReadAfter
  <2> QED
    BY <2>4, <2>5, <2>6 DEF IInv, TypeOK, ReadAfter, file, db, hist
<1>2. Migrated'
  <2>1. /\ stage[p] = "after" /\ half[p] \in Texts /\ mtime \in 0 .. MaxClock /\ before[p] = mtime
        /\ read' = [read EXCEPT ![p] = [text |-> half[p], mtime |-> mtime]]
        /\ kind' = [kind EXCEPT ![p] = Classified(p, half[p])]
        /\ stage' = [stage EXCEPT ![p] = After(Classified(p, half[p]))]
    BY DEF IInv, TypeOK, Knowing, Knows, ReadAfter, Stable, To
  <2>2. Classified(p, half[p]) \in {"created", "touched", "modified"}
    BY DEF Classified
  <2>3. /\ Classified(p, half[p]) = "created" => After(Classified(p, half[p])) = "commit"
        /\ Classified(p, half[p]) = "touched" => After(Classified(p, half[p])) = "touch"
        /\ Classified(p, half[p]) = "modified" => After(Classified(p, half[p])) = "publish"
    BY DEF After
  <2> QED
    <3>1. stage'[p] \notin {"closed", "opening"} /\ stage[p] \notin {"closed", "opening"}
      BY <2>1, <2>2, <2>3 DEF IInv, TypeOK
    <3>2. \A q \in Procs : q # p => stage'[q] = stage[q]
      BY <2>1 DEF IInv, TypeOK
    <3> QED
      BY <3>1, <3>2 DEF IInv, Migrated, ReadAfter, db
<1>3. Wiped'
  BY
    DEF IInv, Wiped, WipedOnce, ReadAfter, To, Stable, Classified, After, file, db, mine,
        hist
<1>4. Knowing'
  <2>1. /\ stage[p] = "after" /\ half[p] \in Texts /\ mtime \in 0 .. MaxClock /\ before[p] = mtime
        /\ read' = [read EXCEPT ![p] = [text |-> half[p], mtime |-> mtime]]
        /\ kind' = [kind EXCEPT ![p] = Classified(p, half[p])]
        /\ stage' = [stage EXCEPT ![p] = After(Classified(p, half[p]))]
    BY DEF IInv, TypeOK, Knowing, Knows, ReadAfter, Stable, To
  <2>2. Classified(p, half[p]) \in {"created", "touched", "modified"}
    BY DEF Classified
  <2>3. /\ Classified(p, half[p]) = "created" => After(Classified(p, half[p])) = "commit"
        /\ Classified(p, half[p]) = "touched" => After(Classified(p, half[p])) = "touch"
        /\ Classified(p, half[p]) = "modified" => After(Classified(p, half[p])) = "publish"
    BY DEF After
  <2>4. /\ disk # Absent /\ half[p] = Whole(disk) /\ disk \in Contents
    BY <2>1 DEF IInv, TypeOK, Knowing, Knows, ReadAfter
  <2>5. /\ read'[p] = [text |-> half[p], mtime |-> mtime] /\ kind'[p] = Classified(p, half[p])
        /\ stage'[p] = After(Classified(p, half[p]))
    BY <2>1 DEF IInv, TypeOK
  <2>6. Genuine(read[p])'
    <3>1. read'[p].text = half[p] /\ read'[p].mtime = mtime /\ disk' = disk /\ mtime' = mtime
      BY <2>5 DEF ReadAfter, file
    <3> QED
      BY <3>1, <2>1, <2>4 DEF Genuine, Whole
  <2>7. read'[p] # Absent
    BY <2>5, <2>1, AbsentAssumption DEF Reads
  <2>8. Knows(p)'
    <3>1. /\ stamp' = stamp /\ mtime' = mtime /\ snapshot' = snapshot /\ touched' = touched
          /\ row' = row /\ before' = before
      BY DEF ReadAfter, file, db, hist
    <3>2. stamp[p] <= mtime /\ (p \notin touched => row = snapshot[p])
      BY <2>1 DEF IInv, Knowing, Knows, Looking
    <3>3. Classified(p, half[p]) = "touched" => half[p] = snapshot[p].text
      BY DEF Classified
    <3>4. stage'[p] \in {"commit", "touch", "publish"}
      BY <2>2, <2>3, <2>5
    <3>5. stage'[p] = "touch" => read'[p].text = snapshot[p].text /\ stamp[p] <= read'[p].mtime
      BY <2>2, <2>3, <2>5, <3>2, <3>3
    <3> QED
      BY <2>6, <2>7, <3>1, <3>2, <3>4, <3>5 DEF Knows
  <2>9. ASSUME NEW q \in Procs, q # p PROVE Knows(q)'
    BY <2>9, <2>1
      DEF IInv, TypeOK, Knowing, Knows, Genuine, Whole, Looking, ReadAfter, file, db, hist
  <2> QED
    BY <2>8, <2>9 DEF Knowing
<1>5. RowGenuine'
  BY AbsentAssumption, BoundsAssumption
    DEF IInv, TypeOK, RowGenuine, Genuine, Whole, ReadAfter, To, Stable, Classified,
        After, file, db, mine, hist
<1> QED
  BY <1>1, <1>2, <1>3, <1>4, <1>5 DEF IInv

(* Otherwise it begins again. *)
LEMMA ReadAgainKeeps ==
  ASSUME IInv, NEW p \in Procs, ReadAgain(p)
  PROVE  IInv'
<1>1. TypeOK'
  BY BoundsAssumption
    DEF IInv, TypeOK, Stages, Kinds, ReadAgain, To, Stable, LastTry, file, db, mine, hist
<1>2. Migrated'
  BY DEF IInv, Migrated, TypeOK, ReadAgain, To, Stable, LastTry, file, db, mine, hist
<1>3. Wiped'
  BY DEF IInv, Wiped, WipedOnce, ReadAgain, To, Stable, LastTry, file, db, mine, hist
<1>4. Knowing'
  BY AbsentAssumption, BoundsAssumption
    DEF IInv, TypeOK, Knowing, Knows, Genuine, Whole, Looking, Stages, ReadAgain, To,
        Stable, LastTry, file, db, mine, hist
<1>5. RowGenuine'
  BY AbsentAssumption, BoundsAssumption
    DEF IInv, TypeOK, RowGenuine, Genuine, Whole, ReadAgain, To, Stable, LastTry, file,
        db, mine, hist
<1> QED
  BY <1>1, <1>2, <1>3, <1>4, <1>5 DEF IInv

(* Or it is given up. *)
LEMMA ReadFailsKeeps ==
  ASSUME IInv, NEW p \in Procs, ReadFails(p)
  PROVE  IInv'
<1>1. TypeOK'
  BY BoundsAssumption
    DEF IInv, TypeOK, Stages, Kinds, ReadFails, To, Return, Stable, LastTry, file, db,
        mine, hist
<1>2. Migrated'
  BY
    DEF IInv, Migrated, TypeOK, ReadFails, To, Return, Stable, LastTry, file, db, mine,
        hist
<1>3. Wiped'
  BY
    DEF IInv, Wiped, WipedOnce, ReadFails, To, Return, Stable, LastTry, file, db, mine,
        hist
<1>4. Knowing'
  BY AbsentAssumption, BoundsAssumption
    DEF IInv, TypeOK, Knowing, Knows, Genuine, Whole, Looking, Stages, ReadFails, To,
        Return, Stable, LastTry, file, db, mine, hist
<1>5. RowGenuine'
  BY AbsentAssumption, BoundsAssumption
    DEF IInv, TypeOK, RowGenuine, Genuine, Whole, ReadFails, To, Return, Stable, LastTry,
        file, db, mine, hist
<1> QED
  BY <1>1, <1>2, <1>3, <1>4, <1>5 DEF IInv

(* A touch vouches for a row that nobody has written since, or is remembered. *)
LEMMA TouchRowKeeps ==
  ASSUME IInv, NEW p \in Procs, TouchRow(p)
  PROVE  IInv'
<1>1. TypeOK'
  <2>1. row' \in Rows \cup {Absent}
    <3>1. stage[p] = "touch" /\ stamp[p] \in 0 .. MaxClock
      BY DEF IInv, TypeOK, TouchRow
    <3>2. CASE row = Absent
      BY <3>2 DEF TouchRow
    <3>3. CASE row # Absent
      <4>1. row' = [row EXCEPT !.mtime = stamp[p]] /\ row \in Rows
        BY <3>3 DEF TouchRow, IInv, TypeOK
      <4>2. 7 \in recorded
        BY <3>1 DEF IInv, Migrated
      <4>3. 3 \in recorded
        BY <4>2 DEF IInv, Migrated
      <4>4. row.ids = "new"
        BY <3>3, <4>3 DEF IInv, Wiped, WipedOnce
      <4>5. row \in [text : Texts, mtime : 0 .. MaxClock, ids : {"new"}]
        BY <4>1, <4>4 DEF Rows
      <4> QED
        BY <4>1, <4>5, <3>1 DEF Rows
    <3> QED
      BY <3>2, <3>3
  <2>2. touched' \subseteq Procs /\ overtaken' \in BOOLEAN
    <3>1. touched' \subseteq Procs
      BY DEF IInv, TypeOK, TouchRow, Overtake
    <3>2. overtaken' \in BOOLEAN
      BY DEF IInv, TypeOK, TouchRow
    <3> QED
      BY <3>1, <3>2
  <2> QED
    BY <2>1, <2>2 DEF IInv, TypeOK, Stages, TouchRow, To, file, mine
<1>2. Migrated'
  BY DEF IInv, Migrated, TypeOK, TouchRow, To, Overtake, file, db, mine, hist
<1>3. Wiped'
  BY DEF IInv, Wiped, WipedOnce, TouchRow, To, Overtake, file, db, mine, hist
<1>4. Knowing'
  <2> SUFFICES ASSUME NEW q \in Procs PROVE Knows(q)'
    BY DEF Knowing
  <2>1. /\ Knows(q) /\ stamp' = stamp /\ before' = before /\ half' = half /\ read' = read
        /\ snapshot' = snapshot /\ kind' = kind /\ disk' = disk /\ mtime' = mtime
        /\ stage' = [stage EXCEPT ![p] = "record"] /\ stage \in [Procs -> Stages]
    BY DEF IInv, TypeOK, Knowing, TouchRow, To, file, mine
  <2>2. stage'[q] \in Looking => q # p /\ q \in touched'
    BY <2>1 DEF TouchRow, Overtake, Looking
  <2> QED
    BY <2>1, <2>2 DEF Knows, Genuine, Whole
<1>5. RowGenuine'
  <2> SUFFICES ASSUME row' # Absent, row'.ids = "new", ~overtaken' PROVE Genuine(row)'
    BY DEF RowGenuine
  <2>1. /\ row # Absent /\ row \in Rows /\ row' = [row EXCEPT !.mtime = stamp[p]]
        /\ ~overtaken /\ p \notin touched /\ stage[p] = "touch"
        /\ disk' = disk /\ mtime' = mtime
    BY DEF IInv, TypeOK, TouchRow, file
  <2>2. row'.text = row.text /\ row'.mtime = stamp[p] /\ row'.ids = row.ids
    BY <2>1 DEF Rows
  <2>3. Genuine(row)
    BY <2>1, <2>2 DEF IInv, RowGenuine
  <2>4. /\ row = snapshot[p] /\ read[p] # Absent /\ Genuine(read[p]) /\ stamp[p] <= mtime
        /\ read[p].text = snapshot[p].text /\ stamp[p] <= read[p].mtime
    BY <2>1 DEF IInv, Knowing, Knows, Looking
  <2>5. read[p].mtime \in 0 .. MaxClock /\ stamp[p] \in 0 .. MaxClock /\ mtime \in 0 .. MaxClock
    BY <2>4 DEF IInv, TypeOK, Reads
  <2>6. stamp[p] = mtime => read[p].mtime = mtime
    BY <2>4, <2>5, BoundsAssumption DEF Genuine
  <2> QED
    BY <2>1, <2>2, <2>3, <2>4, <2>6 DEF Genuine, Whole
<1> QED
  BY <1>1, <1>2, <1>3, <1>4, <1>5 DEF IInv

(* Only the mark changes. *)
LEMMA PublishKeeps ==
  ASSUME IInv, NEW p \in Procs, Publish(p)
  PROVE  IInv'
<1>1. TypeOK'
  BY BoundsAssumption DEF IInv, TypeOK, Stages, Kinds, Publish, To, file, db, mine, hist
<1>2. Migrated'
  BY DEF IInv, Migrated, TypeOK, Publish, To, file, db, mine, hist
<1>3. Wiped'
  BY DEF IInv, Wiped, WipedOnce, Publish, To, file, db, mine, hist
<1>4. Knowing'
  BY AbsentAssumption, BoundsAssumption
    DEF IInv, TypeOK, Knowing, Knows, Genuine, Whole, Looking, Stages, Publish, To, file,
        db, mine, hist
<1>5. RowGenuine'
  BY AbsentAssumption, BoundsAssumption
    DEF IInv, TypeOK, RowGenuine, Genuine, Whole, Publish, To, file, db, mine, hist
<1> QED
  BY <1>1, <1>2, <1>3, <1>4, <1>5 DEF IInv

(* What is committed is a stable read. *)
LEMMA CommitKeeps ==
  ASSUME IInv, NEW p \in Procs, Commit(p)
  PROVE  IInv'
<1>1. TypeOK'
  <2>1. kind[p] = "deleted" \/ read[p] \in Reads
    BY DEF IInv, TypeOK, Knowing, Knows, Commit
  <2>2. row' \in Rows \cup {Absent}
    BY <2>1 DEF Commit, Rows, Reads
  <2>3. touched' \subseteq Procs
    BY DEF IInv, TypeOK, Commit, Overtake
  <2> QED
    BY <2>2, <2>3 DEF IInv, TypeOK, Stages, Commit, To, file, mine
<1>2. Migrated'
  BY DEF IInv, Migrated, TypeOK, Commit, To, Overtake, file, db, mine, hist
<1>3. Wiped'
  <2>1. 7 \in recorded /\ stage[p] = "commit" /\ recorded' = recorded /\ wiped' = wiped
    BY DEF IInv, Migrated, Commit
  <2>2. 3 \in recorded
    BY <2>1 DEF IInv, Migrated
  <2>3. row' = Absent \/ row' = [text |-> read[p].text, mtime |-> read[p].mtime, ids |-> "new"]
    BY DEF Commit
  <2>4. row' # Absent => row'.ids = "new"
    BY <2>3
  <2> QED
    BY <2>1, <2>2, <2>4 DEF IInv, Wiped, WipedOnce
<1>4. Knowing'
  <2> SUFFICES ASSUME NEW q \in Procs PROVE Knows(q)'
    BY DEF Knowing
  <2>1. /\ Knows(q) /\ stamp' = stamp /\ before' = before /\ half' = half /\ read' = read
        /\ snapshot' = snapshot /\ kind' = kind /\ disk' = disk /\ mtime' = mtime
        /\ stage' = [stage EXCEPT ![p] = "record"] /\ stage \in [Procs -> Stages]
    BY DEF IInv, TypeOK, Knowing, Commit, To, file, mine
  <2>2. stage'[q] \in Looking => q # p /\ q \in touched'
    BY <2>1 DEF Commit, Overtake, Looking
  <2> QED
    BY <2>1, <2>2 DEF Knows, Genuine, Whole
<1>5. RowGenuine'
  <2>1. CASE kind[p] = "deleted"
    BY <2>1 DEF RowGenuine, Commit
  <2>2. CASE kind[p] # "deleted"
    <3>1. read[p] # Absent /\ Genuine(read[p])
      BY <2>2 DEF IInv, Knowing, Knows, Commit
    <3>2. row'.text = read[p].text /\ row'.mtime = read[p].mtime /\ disk' = disk /\ mtime' = mtime
      BY <2>2 DEF Commit, file
    <3> QED
      BY <3>1, <3>2 DEF RowGenuine, Genuine, Whole
  <2> QED
    BY <2>1, <2>2
<1> QED
  BY <1>1, <1>2, <1>3, <1>4, <1>5 DEF IInv

(* The pass is over. *)
LEMMA RecordKeeps ==
  ASSUME IInv, NEW p \in Procs, Record(p)
  PROVE  IInv'
<1>1. TypeOK'
  BY BoundsAssumption
    DEF IInv, TypeOK, Stages, Kinds, Record, To, Return, file, db, mine, hist
<1>2. Migrated'
  BY DEF IInv, Migrated, TypeOK, Record, To, Return, file, db, mine, hist
<1>3. Wiped'
  BY DEF IInv, Wiped, WipedOnce, Record, To, Return, file, db, mine, hist
<1>4. Knowing'
  BY AbsentAssumption, BoundsAssumption
    DEF IInv, TypeOK, Knowing, Knows, Genuine, Whole, Looking, Stages, Record, To, Return,
        file, db, mine, hist
<1>5. RowGenuine'
  BY AbsentAssumption, BoundsAssumption
    DEF IInv, TypeOK, RowGenuine, Genuine, Whole, Record, To, Return, file, db, mine, hist
<1> QED
  BY <1>1, <1>2, <1>3, <1>4, <1>5 DEF IInv

(* Nothing uncommitted is left. *)
LEMMA CrashKeeps ==
  ASSUME IInv, NEW p \in Procs, Crash(p)
  PROVE  IInv'
<1>1. TypeOK'
  BY BoundsAssumption
    DEF IInv, TypeOK, Stages, Kinds, Crash, To, Return, file, db, mine, hist
<1>2. Migrated'
  BY DEF IInv, Migrated, TypeOK, Crash, To, Return, file, db, mine, hist
<1>3. Wiped'
  BY DEF IInv, Wiped, WipedOnce, Crash, To, Return, file, db, mine, hist
<1>4. Knowing'
  BY AbsentAssumption, BoundsAssumption
    DEF IInv, TypeOK, Knowing, Knows, Genuine, Whole, Looking, Stages, Crash, To, Return,
        file, db, mine, hist
<1>5. RowGenuine'
  BY AbsentAssumption, BoundsAssumption
    DEF IInv, TypeOK, RowGenuine, Genuine, Whole, Crash, To, Return, file, db, mine, hist
<1> QED
  BY <1>1, <1>2, <1>3, <1>4, <1>5 DEF IInv

(* Every step keeps the invariant. *)
LEMMA Inductive == IInv /\ [Next]_vars => IInv'
<1> SUFFICES ASSUME IInv, [Next]_vars PROVE IInv'
  OBVIOUS
<1>1. CASE Change \/ Touch
  BY <1>1, ChangeKeeps, TouchKeeps
<1>2. ASSUME NEW p \in Procs, Opening(p) PROVE IInv'
  BY <1>2, OpenKeeps, MigrateKeeps, MigrateFailsKeeps, OpenedKeeps DEF Opening
<1>3. ASSUME NEW p \in Procs, Pass(p) PROVE IInv'
  BY <1>3, DetectKeeps, StatKeeps, ReadBeforeKeeps, ReadHeadKeeps, ReadTailKeeps,
     ReadAfterKeeps, ReadAgainKeeps, ReadFailsKeeps, TouchRowKeeps, PublishKeeps, CommitKeeps,
     RecordKeeps DEF Pass
<1>4. ASSUME NEW p \in Procs, Crash(p) PROVE IInv'
  BY <1>4, CrashKeeps
<1>5. CASE UNCHANGED vars
  BY <1>5
    DEF IInv, TypeOK, Migrated, Wiped, WipedOnce, Knowing, Knows, Genuine, Whole, Looking,
        RowGenuine, vars, file, db, mine, hist
<1> QED
  BY <1>1, <1>2, <1>3, <1>4, <1>5 DEF Next

(* The inductive invariant holds of the processes that share a database. *)
THEOREM WritersInvariance == Spec => []IInv
  BY InitHolds, Inductive, PTL DEF Spec

(* Every variable keeps its type, for any number of processes. *)
THEOREM WritersTypeCorrect == Spec => []TypeOK
<1>1. IInv => TypeOK
  BY DEF IInv
<1> QED
  BY <1>1, WritersInvariance, PTL

(* However many processes race to migrate, the schema is what the table of   *)
(* migrations says, without a gap.                                           *)
THEOREM SchemaIsRecordedHolds == Spec => []SchemaIsRecorded
<1>1. IInv => SchemaIsRecorded
  BY NewestIs DEF IInv, Migrated, SchemaIsRecorded
<1> QED
  BY <1>1, WritersInvariance, PTL

(* Migration 0003 wipes the rows with the old ids, and no others.            *)
THEOREM WipedOnceHolds == Spec => []WipedOnce
<1>1. IInv => WipedOnce
  BY DEF IInv, Wiped
<1> QED
  BY <1>1, WritersInvariance, PTL

(* A row is one version of its file and, but for a touch that came late, the *)
(* version on disk when the times agree.                                     *)
THEOREM RowIsOneVersionHolds == Spec => []RowIsOneVersion
<1>1. IInv => RowIsOneVersion
  BY DEF IInv, RowGenuine, Genuine, RowIsOneVersion
<1> QED
  BY <1>1, WritersInvariance, PTL
=============================================================================
