-------------------------- MODULE InstallerProofs --------------------------
(***************************************************************************)
(* install and uninstall for any clients, files, owners and processes:     *)
(* what the owner of a readable configuration wrote is kept, the backup of *)
(* a replaced one holds it, "ok" means done, and no temporary file is left *)
(* by a command that ends.                                                 *)
(***************************************************************************)
EXTENDS Installer, FiniteSetTheorems, TLAPS

Busy(p) == stage[p] \in {"backup", "backed", "write", "written"}

(* SiblingsKept, but for files that cannot be read: the installer takes one  *)
(* of those for a missing file.                                              *)
ReadableKept == \A c \in Clients \ (raced \cup Unreadable) : Keeps(config[c], authored[c])

(* What a command at work has read it may merge into, and it is the owner's  *)
(* unless the owner wrote since.                                             *)
Fit(p) ==
  Busy(p) =>
    /\ ~Refuses(command[p].op, at[p], basis[p]) /\ ~Nothing(command[p].op, basis[p])
    /\ basis[p] # NoFile => at[p] \notin Unreadable
    /\ stage[p] \in {"backup", "backed"} => basis[p] # NoFile
    /\ p \notin stale /\ at[p] \notin raced \cup Unreadable => Keeps(basis[p], authored[at[p]])

(* A command that is about to replace a file has backed it up.               *)
Saved(p) ==
  stage[p] \in {"write", "written"} /\ basis[p] # NoFile /\ p \notin stale /\ at[p] \notin raced =>
    backup[at[p]] # NoFile /\ Keeps(backup[at[p]], authored[at[p]])

(* An uninstall is about files it could read, once it has looked at them.    *)
Probed(p) ==
  /\ stage[p] = "next" \/ Busy(p) => todo[p] \subseteq asked[p]
  /\ command[p].op = "uninstall" =>
       /\ stage[p] # "pick"
       /\ stage[p] = "probe" => asked[p] \cap Unreadable \subseteq todo[p]
       /\ stage[p] \in {"confirm", "next"} \/ Busy(p) => asked[p] \cap Unreadable = {}

Done(p, c) == HasEntry(config[c]) <=> command[p].op = "install"

(* Every client a command is about is still to come, has failed, is being    *)
(* worked on or is done, but for files others changed.                       *)
Progress(p) ==
  \A c \in asked[p] \ disturbed[p] :
    /\ stage[p] = "next" \/ Busy(p) =>
         c \in todo[p] \/ c \in failed[p] \/ (Busy(p) /\ at[p] = c) \/ Done(p, c)
    /\ stage[p] = "binary" \/ (stage[p] = "idle" /\ result[p] = "ok") => Done(p, c)

(* While nothing crashed each temporary file is the one its process is at.   *)
Owned ==
  /\ \A x \in temp : crashes > 0 \/ /\ stage[x[3]] \in {"backed", "written"}
                                    /\ x = <<at[x[3]], Target(x[3]), x[3]>>
  /\ \A p \in Pids : stage[p] \in {"backed", "written"} => <<at[p], Target(p)>> \notin Linked

IInv ==
  /\ TypeOK /\ ReadableKept /\ RollbackPossible /\ Owned
  /\ \A p \in Pids : Fit(p) /\ Saved(p) /\ Probed(p) /\ Progress(p)

(* The picker has a first row. *)
LEMMA RowsAre ==
  /\ Cardinality(Clients) \in Nat \ {0} /\ Len(Rows) = Cardinality(Clients)
  /\ DOMAIN Rows = 1 .. Cardinality(Clients)
  /\ 1 \in DOMAIN Rows /\ Rows[1] \in Clients /\ \A i \in DOMAIN Rows : Rows[i] \in Clients
<1>1. Cardinality(Clients) \in Nat
  BY ClientsAssumption, FS_CardinalityType
<1>2. Cardinality(Clients) # 0
  BY ClientsAssumption, FS_EmptySet
<1>3. /\ Rows \in [1 .. Cardinality(Clients) -> Clients] /\ 1 \in 1 .. Cardinality(Clients)
      /\ Rows \in Seq(Clients)
  BY <1>1, <1>2, ClientsAssumption
<1> QED
  BY <1>1, <1>2, <1>3

(* Merging into a text that is not refused keeps what its owner wrote and    *)
(* leaves our entry there, or not, as it should.                             *)
LEMMA MergeIs ==
  ASSUME NEW op \in {"install", "uninstall"}, NEW c \in Clients, NEW text \in Texts,
         ~Refuses(op, c, text), ~Nothing(op, text)
  PROVE  /\ Merge(op, text) \in Parsed
         /\ HasEntry(Merge(op, text)) <=> op = "install"
         /\ \A owners \in Texts : Keeps(text, owners) => Keeps(Merge(op, text), owners)
<1>1. text = NoFile \/ text \in Parsed
  BY TextsAssumption DEF Refuses, Nothing, HasEntry, Texts
<1>2. op = "uninstall" => text \in Parsed
  BY DEF Nothing, HasEntry
<1>3. NoFile \notin Parsed /\ Broken \notin Parsed /\ Odd \notin Parsed
  BY TextsAssumption
<1>4. NoFile # Broken /\ NoFile # Odd
  <2>1. ASSUME NoFile \in {Broken, Odd} PROVE FALSE
    <3>1. {NoFile, Broken, Odd} = {Broken, Odd}
      BY <2>1
    <3>2. Cardinality({Broken, Odd}) <= 2
      <4>1. CASE Broken = Odd
        <5>1. {Broken, Odd} = {Odd}
          BY <4>1
        <5> QED
          BY <5>1, FS_Singleton
      <4>2. CASE Broken # Odd
        <5>1. {Broken, Odd} = {Odd} \cup {Broken} /\ Broken \notin {Odd}
          BY <4>2
        <5>2. IsFiniteSet({Odd}) /\ Cardinality({Odd}) = 1
          BY FS_Singleton
        <5>3. Cardinality({Odd} \cup {Broken}) = 2
          BY <5>1, <5>2, FS_AddElement
        <5> QED
          BY <5>1, <5>3
      <4> QED
        BY <4>1, <4>2
    <3> QED
      BY <3>1, <3>2, TextsAssumption
  <2> QED
    BY <2>1
<1>5. /\ Merge(op, text) \in Parsed /\ Merge(op, text).ours = (op = "install")
      /\ text \in Parsed => Merge(op, text).servers = text.servers
      /\ text = NoFile => Merge(op, text).servers = {}
  <2>1. CASE text = NoFile
    BY <1>2, <1>3, <2>1 DEF Merge, Parsed
  <2>2. CASE text \in Parsed
    BY <1>3, <2>2 DEF Merge, Parsed
  <2> QED
    BY <1>1, <2>1, <2>2
<1>6. ASSUME NEW owners \in Texts, Keeps(text, owners) PROVE Keeps(Merge(op, text), owners)
  BY <1>1, <1>3, <1>4, <1>5, <1>6 DEF Keeps, Texts
<1>7. HasEntry(Merge(op, text)) <=> op = "install"
  BY <1>5 DEF HasEntry
<1> QED
  BY <1>5, <1>6, <1>7

(* The owner's text is the owner's. *)
LEMMA KeepsItself == ASSUME NEW text \in Texts PROVE Keeps(text, text)
  BY DEF Keeps, Texts

(* What the start satisfies. *)
LEMMA InitHolds == Init => IInv
<1> SUFFICES ASSUME Init PROVE IInv
  OBVIOUS
<1>1. TypeOK
  <2>1. binary \in BOOLEAN
    <3>1. binary = TRUE
      BY Zenon DEF Init
    <3> QED
      BY <3>1, Zenon
  <2>2. NoFile \in Texts /\ InitialTexts \subseteq Texts
    BY TextsAssumption DEF Texts
  <2>3. command \in [Pids -> Commands]
    BY DEF Init, Commands, Modes
  <2>4. config \in [Clients -> Texts] /\ authored = config /\ backup \in [Clients -> Texts]
    BY <2>2 DEF Init
  <2>5. /\ asked \in [Pids -> SUBSET Clients] /\ todo \in [Pids -> SUBSET Clients]
        /\ failed \in [Pids -> SUBSET Clients] /\ disturbed \in [Pids -> SUBSET Clients]
    BY DEF Init
  <2>6. /\ stage \in [Pids -> Stages] /\ at \in [Pids -> Clients] /\ basis \in [Pids -> Texts]
        /\ sel \in [Pids -> DOMAIN Rows] /\ result \in [Pids -> Results]
    BY <2>2, RowsAre DEF Init, Stages, Results
  <2> QED
    BY <2>1, <2>3, <2>4, <2>5, <2>6, BoundsAssumption DEF Init, TypeOK
<1>2. ReadableKept
  BY <1>1, KeepsItself DEF Init, TypeOK, ReadableKept
<1>3. RollbackPossible /\ Owned
  BY DEF Init, RollbackPossible, Owned
<1>4. ASSUME NEW p \in Pids PROVE Fit(p) /\ Saved(p) /\ Probed(p) /\ Progress(p)
  BY DEF Init, Fit, Saved, Probed, Progress, Busy
<1> QED
  BY <1>1, <1>2, <1>3, <1>4 DEF IInv

(* A step that leaves the other processes alone. *)
Alone(p) ==
  \A q \in Pids \ {p} :
    /\ stage'[q] = stage[q] /\ command'[q] = command[q] /\ asked'[q] = asked[q]
    /\ todo'[q] = todo[q] /\ failed'[q] = failed[q] /\ at'[q] = at[q] /\ basis'[q] = basis[q]
    /\ result'[q] = result[q] /\ disturbed'[q] = disturbed[q]
    /\ q \in stale' <=> q \in stale

(* Such a step, that leaves the files alone too, has only its own process's  *)
(* part of the invariant to keep.                                            *)
LEMMA LocalKeeps ==
  ASSUME IInv, NEW p \in Pids, Alone(p), UNCHANGED <<config, backup, authored, raced, replaced>>,
         TypeOK', Fit(p)', Saved(p)', Probed(p)', Progress(p)', Owned'
  PROVE  IInv'
<1>1. ReadableKept' /\ RollbackPossible'
  BY DEF IInv, ReadableKept, RollbackPossible
<1>2. ASSUME NEW q \in Pids, q # p PROVE Fit(q)' /\ Saved(q)' /\ Probed(q)' /\ Progress(q)'
  <2>1. /\ stage'[q] = stage[q] /\ command'[q] = command[q] /\ asked'[q] = asked[q]
        /\ todo'[q] = todo[q] /\ failed'[q] = failed[q] /\ at'[q] = at[q] /\ basis'[q] = basis[q]
        /\ result'[q] = result[q] /\ disturbed'[q] = disturbed[q]
        /\ q \in stale' <=> q \in stale
    BY <1>2 DEF Alone
  <2>2. Fit(q)' /\ Saved(q)'
    BY <2>1 DEF IInv, Fit, Saved, Busy
  <2>3. Probed(q)'
    BY <2>1 DEF IInv, Probed, Busy
  <2>4. Progress(q)'
    BY <2>1 DEF IInv, Progress, Busy, Done
  <2> QED
    BY <2>2, <2>3, <2>4
<1> QED
  BY <1>1, <1>2 DEF IInv

(* A step that makes no temporary file and leaves none of its own behind.    *)
LEMMA OwnedQuiet ==
  ASSUME IInv, NEW p \in Pids, Alone(p), temp' = temp, crashes' \in Nat, crashes' >= crashes,
         stage[p] \notin {"backed", "written"} \/ crashes' > 0,
         stage'[p] \notin {"backed", "written"}
  PROVE  Owned'
<1>1. ASSUME NEW q \in Pids, q # p
      PROVE  stage'[q] = stage[q] /\ at'[q] = at[q] /\ Target(q)' = Target(q)
  BY <1>1 DEF Alone, Target
<1>2. ASSUME NEW x \in temp, ~(crashes' > 0)
      PROVE  stage'[x[3]] \in {"backed", "written"} /\ x = <<at'[x[3]], Target(x[3])', x[3]>>
  <2>1. x[3] \in Pids /\ ~(crashes > 0) /\ stage[p] \notin {"backed", "written"}
    BY <1>2 DEF IInv, TypeOK
  <2>2. stage[x[3]] \in {"backed", "written"} /\ x = <<at[x[3]], Target(x[3]), x[3]>>
    BY <1>2, <2>1 DEF IInv, Owned
  <2> QED
    BY <1>1, <2>1, <2>2
<1>3. ASSUME NEW q \in Pids, stage'[q] \in {"backed", "written"}
      PROVE  <<at'[q], Target(q)'>> \notin Linked
  BY <1>1, <1>3 DEF IInv, Owned
<1> QED
  BY <1>2, <1>3 DEF Owned

(* A step of a process that has no file open after it.                       *)
LEMMA RestKeeps ==
  ASSUME IInv, NEW p \in Pids, Alone(p), UNCHANGED <<disk, authored, raced, replaced>>,
         crashes' \in Nat, crashes' >= crashes, ~Busy(p) \/ crashes' > 0, ~Busy(p)',
         TypeOK', Probed(p)', Progress(p)'
  PROVE  IInv'
<1>1. Owned'
  BY OwnedQuiet DEF Busy, disk
<1>2. Fit(p)' /\ Saved(p)'
  BY DEF Fit, Saved, Busy
<1> QED
  BY <1>1, <1>2, LocalKeeps DEF disk

(* What a command that is typed starts from.                                 *)
LEMMA BeginKeeps ==
  ASSUME IInv, NEW p \in Pids, NEW op \in {"install", "uninstall"}, NEW mode \in Modes,
         NEW remove \in BOOLEAN, NEW S \in SUBSET Clients, NEW s \in {"pick", "probe", "next"},
         op = "uninstall" <=> s = "probe", Begin(p, op, mode, remove, S, s)
  PROVE  IInv'
<1>1. /\ stage[p] = "idle" /\ stage' = [stage EXCEPT ![p] = s]
      /\ command' = [command EXCEPT ![p] = [op |-> op, mode |-> mode, binary |-> remove]]
      /\ asked' = [asked EXCEPT ![p] = S] /\ todo' = [todo EXCEPT ![p] = S]
      /\ failed' = [failed EXCEPT ![p] = {}] /\ disturbed' = [disturbed EXCEPT ![p] = {}]
      /\ sel' = [sel EXCEPT ![p] = 1] /\ result' = [result EXCEPT ![p] = "none"]
      /\ commands < MaxCommands /\ commands' = commands + 1
      /\ UNCHANGED <<disk, at, basis, edits, crashes, authored, stale, raced, replaced>>
  BY DEF Begin
<1>2. TypeOK'
  <2>1. [op |-> op, mode |-> mode, binary |-> remove] \in Commands
    BY DEF Commands
  <2>2. stage' \in [Pids -> Stages] /\ command' \in [Pids -> Commands]
    BY <1>1, <2>1 DEF IInv, TypeOK, Stages
  <2>3. /\ asked' \in [Pids -> SUBSET Clients] /\ todo' \in [Pids -> SUBSET Clients]
        /\ failed' \in [Pids -> SUBSET Clients] /\ disturbed' \in [Pids -> SUBSET Clients]
    BY <1>1 DEF IInv, TypeOK
  <2>4. sel' \in [Pids -> DOMAIN Rows] /\ result' \in [Pids -> Results]
    BY <1>1, RowsAre DEF IInv, TypeOK, Results
  <2>5. commands' \in 0 .. MaxCommands
    BY <1>1, BoundsAssumption DEF IInv, TypeOK
  <2>6. binary' \in BOOLEAN
    BY <1>1, Zenon DEF IInv, TypeOK, disk
  <2> QED
    BY <1>1, <2>2, <2>3, <2>4, <2>5, <2>6 DEF IInv, TypeOK, disk
<1>3. Alone(p)
  BY <1>1 DEF Alone, IInv, TypeOK
<1>4. /\ stage'[p] = s /\ asked'[p] = S /\ todo'[p] = S /\ command'[p].op = op
      /\ disturbed'[p] = {} /\ result'[p] = "none"
  BY <1>1 DEF IInv, TypeOK
<1>5. Probed(p)' /\ Progress(p)' /\ ~Busy(p)' /\ ~Busy(p)
  BY <1>1, <1>4 DEF Probed, Progress, Busy
<1>6. crashes' \in Nat /\ crashes' >= crashes
  BY <1>1, BoundsAssumption DEF IInv, TypeOK
<1> QED
  BY <1>1, <1>2, <1>3, <1>5, <1>6, RestKeeps

(* --binary needs an answer: the command is over before it has begun.        *)
LEMMA UninstallRefusedKeeps ==
  ASSUME IInv, NEW p \in Pids, NEW mode \in Modes, NEW remove \in BOOLEAN,
         UninstallRefused(p, mode, remove)
  PROVE  IInv'
<1>1. /\ stage[p] = "idle" /\ asked' = [asked EXCEPT ![p] = {}]
      /\ result' = [result EXCEPT ![p] = "refused"]
      /\ commands < MaxCommands /\ commands' = commands + 1
      /\ UNCHANGED <<disk, stage, command, todo, failed, at, basis, sel, edits, crashes, past>>
  BY DEF UninstallRefused
<1>2. TypeOK'
  <2>1. asked' \in [Pids -> SUBSET Clients] /\ result' \in [Pids -> Results]
    BY <1>1 DEF IInv, TypeOK, Results
  <2>2. commands' \in 0 .. MaxCommands
    BY <1>1, BoundsAssumption DEF IInv, TypeOK
  <2>3. binary' \in BOOLEAN
    BY <1>1, Zenon DEF IInv, TypeOK, disk
  <2> QED
    BY <1>1, <2>1, <2>2, <2>3 DEF IInv, TypeOK, disk, past
<1>3. Alone(p)
  BY <1>1 DEF Alone, IInv, TypeOK, past
<1>4. stage'[p] = "idle" /\ asked'[p] = {}
  BY <1>1 DEF IInv, TypeOK
<1>5. Probed(p)' /\ Progress(p)' /\ ~Busy(p)' /\ ~Busy(p)
  BY <1>1, <1>4 DEF Probed, Progress, Busy
<1>6. crashes' \in Nat /\ crashes' >= crashes
  BY <1>1, BoundsAssumption DEF IInv, TypeOK
<1> QED
  BY <1>1, <1>2, <1>3, <1>5, <1>6, RestKeeps DEF past

(* A step that changes nothing on the disk and no count keeps their types.   *)
LEMMA DiskTypes ==
  ASSUME IInv, UNCHANGED <<disk, count, past>>
  PROVE  /\ config' \in [Clients -> Texts] /\ backup' \in [Clients -> Texts]
         /\ temp' \subseteq Clients \X {"config", "backup"} \X Pids /\ binary' \in BOOLEAN
         /\ commands' \in 0 .. MaxCommands /\ edits' \in 0 .. MaxFaults
         /\ crashes' \in 0 .. MaxFaults /\ crashes' \in Nat /\ crashes' >= crashes
         /\ authored' \in [Clients -> Texts] /\ stale' \subseteq Pids
         /\ raced' \subseteq Clients /\ replaced' \subseteq Clients
         /\ disturbed' \in [Pids -> SUBSET Clients]
<1>1. binary' \in BOOLEAN
  <2>1. binary' = binary
    BY DEF disk
  <2> QED
    BY <2>1, Zenon DEF IInv, TypeOK
<1> QED
  BY <1>1, BoundsAssumption DEF IInv, TypeOK, disk, count, past

(* The picker's cursor moves. *)
LEMMA MoveKeeps ==
  ASSUME IInv, NEW p \in Pids, NEW down \in BOOLEAN, Move(p, down)
  PROVE  IInv'
<1>1. /\ stage[p] = "pick" /\ sel' = [sel EXCEPT ![p] = Step(Len(Rows), sel[p], down)]
      /\ UNCHANGED <<disk, stage, command, asked, todo, failed, at, basis, result, count, past>>
  BY DEF Move
<1>2. Step(Len(Rows), sel[p], down) \in DOMAIN Rows
  <2>1. sel[p] \in 1 .. Cardinality(Clients)
    BY RowsAre DEF IInv, TypeOK
  <2> QED
    BY <2>1, RowsAre DEF Step
<1>3. TypeOK'
  <2>1. sel' \in [Pids -> DOMAIN Rows]
    BY <1>1, <1>2 DEF IInv, TypeOK
  <2> QED
    BY <1>1, <2>1, DiskTypes DEF IInv, TypeOK
<1>4. Alone(p) /\ Probed(p)' /\ Progress(p)' /\ ~Busy(p)' /\ ~Busy(p)
  BY <1>1 DEF IInv, Alone, Probed, Progress, Busy, past
<1> QED
  BY <1>1, <1>3, <1>4, DiskTypes, RestKeeps DEF past

(* A row of the picker is checked or unchecked. *)
LEMMA ToggleKeeps ==
  ASSUME IInv, NEW p \in Pids, Toggle(p)
  PROVE  IInv'
<1> DEFINE c == Rows[sel[p]]
<1>1. /\ stage[p] = "pick"
      /\ asked' = [asked EXCEPT ![p] = IF c \in @ THEN @ \ {c} ELSE @ \cup {c}]
      /\ UNCHANGED <<disk, stage, command, todo, failed, at, basis, sel, result, count, past>>
  BY DEF Toggle
<1>2. c \in Clients
  BY RowsAre DEF IInv, TypeOK
<1> HIDE DEF c
<1>3. TypeOK'
  <2>1. asked' \in [Pids -> SUBSET Clients]
    BY <1>1, <1>2 DEF IInv, TypeOK
  <2> QED
    BY <1>1, <2>1, DiskTypes DEF IInv, TypeOK
<1>4. Alone(p) /\ Probed(p)' /\ Progress(p)' /\ ~Busy(p)' /\ ~Busy(p)
  BY <1>1 DEF IInv, TypeOK, Alone, Probed, Progress, Busy, past
<1> QED
  BY <1>1, <1>3, <1>4, DiskTypes, RestKeeps DEF past

(* The clients a command is about become the ones it has to look at.         *)
LEMMA ProceedKeeps ==
  ASSUME IInv, NEW p \in Pids,
         todo' = [todo EXCEPT ![p] = asked[p]], stage' = [stage EXCEPT ![p] = "next"],
         stage[p] = "pick" \/ stage[p] = "confirm" \/ (stage[p] = "probe" /\ todo[p] = {}),
         UNCHANGED <<disk, command, asked, failed, at, basis, sel, result, count, past>>
  PROVE  IInv'
<1>1. TypeOK'
  <2>1. todo' \in [Pids -> SUBSET Clients] /\ stage' \in [Pids -> Stages]
    BY DEF IInv, TypeOK, Stages
  <2> QED
    BY <2>1, DiskTypes DEF IInv, TypeOK
<1>2. Alone(p)
  BY DEF IInv, TypeOK, Alone, past
<1>3. stage'[p] = "next" /\ todo'[p] = asked[p]
  BY DEF IInv, TypeOK
<1>4. Probed(p)' /\ ~Busy(p)' /\ ~Busy(p)
  BY <1>3 DEF IInv, Probed, Busy
<1>5. Progress(p)'
  BY <1>3, <1>4 DEF Progress
<1> QED
  BY <1>1, <1>2, <1>4, <1>5, DiskTypes, RestKeeps DEF past

(* Enter in the picker, and the answer to uninstall's question, go on.       *)
LEMMA EnterKeeps == ASSUME IInv, NEW p \in Pids, Enter(p) PROVE IInv'
  BY ProceedKeeps DEF Enter

LEMMA ConfirmKeeps == ASSUME IInv, NEW p \in Pids, Confirm(p) PROVE IInv'
  BY ProceedKeeps DEF Confirm

(* A client whose configuration has no entry is not uninstall's concern; one *)
(* that cannot be read has none.                                             *)
LEMMA ProbeKeeps ==
  ASSUME IInv, NEW p \in Pids, NEW c \in Clients, Probe(p, c)
  PROVE  IInv'
<1>1. /\ stage[p] = "probe" /\ todo' = [todo EXCEPT ![p] = @ \ {c}]
      /\ asked' = [asked EXCEPT ![p] = IF HasEntry(Seen(c)) THEN @ ELSE @ \ {c}]
      /\ UNCHANGED <<disk, stage, command, failed, at, basis, sel, result, count, past>>
  BY DEF Probe
<1>2. c \in Unreadable => ~HasEntry(Seen(c))
  BY TextsAssumption DEF Seen, HasEntry
<1>3. TypeOK'
  <2>1. todo' \in [Pids -> SUBSET Clients] /\ asked' \in [Pids -> SUBSET Clients]
    BY <1>1 DEF IInv, TypeOK
  <2> QED
    BY <1>1, <2>1, DiskTypes DEF IInv, TypeOK
<1>4. Alone(p)
  BY <1>1 DEF IInv, TypeOK, Alone, past
<1>5. /\ stage'[p] = "probe" /\ todo'[p] = todo[p] \ {c} /\ asked'[p] \subseteq asked[p]
      /\ c \in Unreadable => c \notin asked'[p]
  BY <1>1, <1>2 DEF IInv, TypeOK
<1>6. Probed(p)' /\ Progress(p)' /\ ~Busy(p)' /\ ~Busy(p)
  BY <1>1, <1>5 DEF IInv, Probed, Progress, Busy
<1> QED
  BY <1>1, <1>3, <1>4, <1>6, DiskTypes, RestKeeps DEF past

(* uninstall asks when it has looked at every client. *)
LEMMA AskKeeps ==
  ASSUME IInv, NEW p \in Pids, Ask(p)
  PROVE  IInv'
<1>1. /\ stage[p] = "probe" /\ todo[p] = {} /\ stage' = [stage EXCEPT ![p] = "confirm"]
      /\ UNCHANGED <<disk, command, asked, todo, failed, at, basis, sel, result, count, past>>
  BY DEF Ask
<1>2. TypeOK'
  <2>1. stage' \in [Pids -> Stages]
    BY <1>1 DEF IInv, TypeOK, Stages
  <2> QED
    BY <1>1, <2>1, DiskTypes DEF IInv, TypeOK
<1>3. Alone(p) /\ stage'[p] = "confirm"
  BY <1>1 DEF IInv, TypeOK, Alone, past
<1>4. Probed(p)' /\ Progress(p)' /\ ~Busy(p)' /\ ~Busy(p)
  BY <1>1, <1>3 DEF IInv, Probed, Progress, Busy
<1> QED
  BY <1>1, <1>2, <1>3, <1>4, DiskTypes, RestKeeps DEF past

(* A process that ends with a result it has earned keeps the invariant.      *)
LEMMA EndKeeps ==
  ASSUME IInv, NEW p \in Pids, NEW r \in Results, End(p, r), TypeOK',
         UNCHANGED <<config, backup, temp, command, asked, authored, raced, replaced, disturbed, stale>>,
         crashes' \in Nat, crashes' >= crashes, ~Busy(p) \/ crashes' > 0,
         r = "ok" => \A c \in asked[p] \ disturbed[p] : Done(p, c)
  PROVE  IInv'
<1>1. Alone(p) /\ stage'[p] = "idle" /\ result'[p] = r
  BY DEF IInv, TypeOK, Alone, End
<1>2. Probed(p)' /\ ~Busy(p)'
  BY <1>1 DEF Probed, Busy
<1>3. Progress(p)'
  BY <1>1, <1>2 DEF Progress, Done
<1>4. Owned'
  BY <1>1, OwnedQuiet DEF Busy
<1>5. Fit(p)' /\ Saved(p)'
  BY <1>1 DEF Fit, Saved, Busy
<1> QED
  BY <1>1, <1>2, <1>3, <1>4, <1>5, LocalKeeps

(* Ending leaves the types of what is not on the disk. *)
LEMMA EndTypes ==
  ASSUME IInv, NEW p \in Pids, NEW r \in Results, End(p, r)
  PROVE  /\ stage' \in [Pids -> Stages] /\ result' \in [Pids -> Results]
         /\ todo' \in [Pids -> SUBSET Clients] /\ failed' \in [Pids -> SUBSET Clients]
         /\ at' \in [Pids -> Clients] /\ basis' \in [Pids -> Texts]
         /\ sel' \in [Pids -> DOMAIN Rows]
<1>1. NoFile \in Texts /\ "idle" \in Stages
  BY DEF Texts, Stages
<1> QED
  BY <1>1, RowsAre DEF IInv, TypeOK, End

(* The picker, or the question, is left. *)
LEMMA CancelKeeps ==
  ASSUME IInv, NEW p \in Pids, Cancel(p)
  PROVE  IInv'
<1>1. /\ stage[p] \in {"pick", "confirm"} /\ End(p, "aborted") /\ "aborted" \in Results
      /\ UNCHANGED <<disk, command, asked, count, past>>
  BY DEF Cancel, Results
<1>2. TypeOK'
  BY <1>1, DiskTypes, EndTypes DEF IInv, TypeOK
<1> QED
  BY <1>1, <1>2, DiskTypes, EndKeeps DEF Busy, disk, past

(* A command with no client left to look at and no failure has done its work. *)
LEMMA NothingLeft ==
  ASSUME IInv, NEW p \in Pids, todo[p] = {}, failed[p] = {},
         stage[p] = "next" \/ (stage[p] = "probe" /\ asked[p] = {})
  PROVE  \A c \in asked[p] \ disturbed[p] : Done(p, c)
  BY DEF IInv, Progress, Busy

(* A command ends, or goes on to the executable. *)
LEMMA FinishKeeps ==
  ASSUME IInv, NEW p \in Pids, Finish(p)
  PROVE  IInv'
<1>1. /\ todo[p] = {}
      /\ stage[p] = "next" \/ (stage[p] = "probe" /\ asked[p] = {})
      /\ UNCHANGED <<disk, command, asked, count, past>>
  BY DEF Finish
<1>2. CASE stage' = [stage EXCEPT ![p] = "binary"] /\ failed[p] = {}
             /\ UNCHANGED <<todo, failed, at, basis, sel, result>>
  <2>1. TypeOK'
    <3>1. stage' \in [Pids -> Stages]
      BY <1>2 DEF IInv, TypeOK, Stages
    <3> QED
      BY <1>1, <1>2, <3>1, DiskTypes DEF IInv, TypeOK
  <2>2. Alone(p) /\ stage'[p] = "binary"
    BY <1>1, <1>2 DEF IInv, TypeOK, Alone, past
  <2>3. Probed(p)' /\ ~Busy(p)' /\ ~Busy(p)
    BY <1>1, <2>2 DEF Probed, Busy
  <2>4. Progress(p)'
    BY <1>1, <1>2, <2>2, <2>3, NothingLeft DEF Progress, Done, disk, past
  <2> QED
    BY <1>1, <2>1, <2>2, <2>3, <2>4, DiskTypes, RestKeeps DEF past
<1>3. CASE \E r \in {"ok", "error"} : (r = "ok" => failed[p] = {}) /\ End(p, r)
  <2>1. PICK r \in {"ok", "error"} : (r = "ok" => failed[p] = {}) /\ End(p, r)
    BY <1>3
  <2>2. r \in Results
    BY DEF Results
  <2>3. TypeOK'
    BY <1>1, <2>1, <2>2, DiskTypes, EndTypes DEF IInv, TypeOK
  <2>4. r = "ok" => \A c \in asked[p] \ disturbed[p] : Done(p, c)
    BY <1>1, <2>1, NothingLeft
  <2> QED
    BY <1>1, <2>1, <2>2, <2>3, <2>4, DiskTypes, EndKeeps DEF Busy, disk, past
<1>4. \/ stage' = [stage EXCEPT ![p] = "binary"] /\ Outcome(p) = "ok"
           /\ UNCHANGED <<todo, failed, at, basis, sel, result>>
      \/ End(p, Outcome(p))
  BY DEF Finish
<1>5. Outcome(p) \in {"ok", "error"} /\ (Outcome(p) = "ok" => failed[p] = {})
  BY DEF Outcome
<1> QED
  BY <1>2, <1>3, <1>4, <1>5

(* The executable goes last: the entries are done, or others changed them.   *)
LEMMA RemoveBinaryKeeps ==
  ASSUME IInv, NEW p \in Pids, NEW r \in Results, RemoveBinary(p, r)
  PROVE  IInv'
<1>1. /\ stage[p] = "binary" /\ End(p, r) /\ binary' = (binary /\ r # "ok")
      /\ UNCHANGED <<config, backup, temp, command, asked, count, past>>
  BY DEF RemoveBinary
<1>2. binary' \in BOOLEAN
  <2>1. binary' = (binary /\ r # "ok")
    BY <1>1
  <2> QED
    BY <2>1, Zenon
<1>3. crashes' \in Nat /\ crashes' >= crashes
  BY <1>1, BoundsAssumption DEF IInv, TypeOK, count
<1>4. TypeOK'
  BY <1>1, <1>2, EndTypes DEF IInv, TypeOK, count, past
<1>5. \A c \in asked[p] \ disturbed[p] : Done(p, c)
  BY <1>1 DEF IInv, Progress
<1> QED
  BY <1>1, <1>3, <1>4, <1>5, EndKeeps DEF Busy, past

(* A command that dies leaves its files as they are. *)
LEMMA CrashKeeps ==
  ASSUME IInv, NEW p \in Pids, Crash(p)
  PROVE  IInv'
<1>1. /\ End(p, "crashed") /\ "crashed" \in Results
      /\ edits + crashes < MaxFaults /\ crashes' = crashes + 1
      /\ UNCHANGED <<disk, command, asked, commands, edits, past>>
  BY DEF Crash, Results
<1>2. crashes' \in 0 .. MaxFaults /\ crashes' \in Nat /\ crashes' >= crashes /\ crashes' > 0
  BY <1>1, BoundsAssumption DEF IInv, TypeOK
<1>3. binary' \in BOOLEAN
  <2>1. binary' = binary
    BY <1>1 DEF disk
  <2> QED
    BY <2>1, Zenon DEF IInv, TypeOK
<1>4. TypeOK'
  BY <1>1, <1>2, <1>3, EndTypes DEF IInv, TypeOK, disk, past
<1> QED
  BY <1>1, <1>2, <1>4, EndKeeps DEF disk, past

(* A client is looked at: its text is the basis of what follows, unless      *)
(* there is nothing to do or nothing that may be done.                       *)
LEMMA ReadKeeps ==
  ASSUME IInv, NEW p \in Pids, NEW c \in Clients, Read(p, c)
  PROVE  IInv'
<1> DEFINE op == command[p].op
           text == Seen(c)
           leave == Refuses(op, c, text) \/ Nothing(op, text)
           next == IF leave THEN "next" ELSE IF text = NoFile THEN "write" ELSE "backup"
<1>1. /\ stage[p] = "next" /\ c \in todo[p]
      /\ at' = [at EXCEPT ![p] = c] /\ basis' = [basis EXCEPT ![p] = text]
      /\ todo' = [todo EXCEPT ![p] = @ \ {c}] /\ stale' = stale \ {p}
      /\ failed' = [failed EXCEPT ![p] = IF Refuses(op, c, text) THEN @ \cup {c} ELSE @]
      /\ stage' = [stage EXCEPT ![p] = next]
      /\ UNCHANGED <<disk, command, asked, sel, result, count, authored, raced, replaced, disturbed>>
  BY DEF Read
<1>2. /\ op \in {"install", "uninstall"} /\ text \in Texts /\ next \in {"next", "write", "backup"}
      /\ text # NoFile => text = config[c] /\ c \notin Unreadable
      /\ c \notin Unreadable => text = config[c]
  BY DEF IInv, TypeOK, Seen, Texts, Commands
<1>3. todo[p] \subseteq asked[p] /\ (op = "uninstall" => asked[p] \cap Unreadable = {})
  BY <1>1 DEF IInv, Probed
<1>4. /\ next = "next" <=> leave
      /\ next = "write" => text = NoFile
      /\ next = "backup" => text # NoFile
  OBVIOUS
<1>5. /\ Refuses(op, c, text) => c \in failed'[p]
      /\ Nothing(op, text) => c \in asked[p] /\ op = "uninstall" /\ ~HasEntry(config[c])
      /\ \A d \in failed[p] : d \in failed'[p]
  BY <1>1, <1>2, <1>3 DEF IInv, TypeOK, Nothing
<1> HIDE DEF text, op, next
<1>6. /\ stage'[p] = next /\ at'[p] = c /\ basis'[p] = text /\ todo'[p] = todo[p] \ {c}
      /\ p \notin stale' /\ command'[p].op = op
  BY <1>1 DEF IInv, TypeOK, op
<1>7. TypeOK'
  <2>1. at' \in [Pids -> Clients] /\ basis' \in [Pids -> Texts] /\ stage' \in [Pids -> Stages]
    BY <1>1, <1>2 DEF IInv, TypeOK, Stages
  <2>2. todo' \in [Pids -> SUBSET Clients] /\ failed' \in [Pids -> SUBSET Clients]
    BY <1>1 DEF IInv, TypeOK
  <2>3. binary' \in BOOLEAN
    <3>1. binary' = binary
      BY <1>1 DEF disk
    <3> QED
      BY <3>1, Zenon DEF IInv, TypeOK
  <2> QED
    BY <1>1, <2>1, <2>2, <2>3 DEF IInv, TypeOK, disk, count
<1>8. Alone(p)
  BY <1>1 DEF IInv, TypeOK, Alone
<1>9. Fit(p)'
  <2> SUFFICES ASSUME Busy(p)' PROVE ~leave /\ (next = "backup" => text # NoFile)
                 /\ (text # NoFile => c \notin Unreadable)
                 /\ (c \notin raced \cup Unreadable => Keeps(text, authored[c]))
    BY <1>1, <1>2, <1>6 DEF Fit, Busy
  <2>1. ~leave
    BY <1>4, <1>6 DEF Busy
  <2>2. c \notin raced \cup Unreadable => Keeps(text, authored[c])
    BY <1>2 DEF IInv, ReadableKept
  <2> QED
    BY <1>2, <1>4, <2>1, <2>2
<1>10. Saved(p)'
  BY <1>2, <1>4, <1>6 DEF Saved
<1>11. Probed(p)'
  BY <1>1, <1>2, <1>3, <1>6 DEF Probed, op
<1>12. Progress(p)'
  <2> SUFFICES ASSUME NEW d \in asked[p] \ disturbed[p]
               PROVE  d \in todo'[p] \/ d \in failed'[p] \/ (Busy(p)' /\ at'[p] = d) \/ Done(p, d)
    BY <1>1, <1>2, <1>6 DEF Progress, Done, disk
  <2>1. CASE d # c
    <3>1. d \in todo[p] \/ d \in failed[p] \/ Done(p, d)
      BY <1>1 DEF IInv, Progress, Busy
    <3> QED
      BY <1>5, <1>6, <2>1, <3>1
  <2>2. CASE d = c
    <3>1. CASE leave
      BY <1>5, <2>2, <3>1 DEF Done, op
    <3>2. CASE ~leave
      BY <1>2, <1>4, <1>6, <2>2, <3>2 DEF Busy
    <3> QED
      BY <3>1, <3>2
  <2> QED
    BY <2>1, <2>2
<1>13. Owned'
  <2>1. crashes' \in Nat /\ crashes' >= crashes
    BY <1>1, BoundsAssumption DEF IInv, TypeOK, count
  <2> QED
    BY <1>1, <1>2, <1>6, <1>8, <2>1, OwnedQuiet DEF disk
<1> QED
  BY <1>1, <1>7, <1>8, <1>9, <1>10, <1>11, <1>12, <1>13, LocalKeeps DEF disk

(* A temporary file is made only where there is none and no link. *)
LEMMA CreateTempKeeps ==
  ASSUME IInv, NEW p \in Pids, CreateTemp(p)
  PROVE  IInv'
<1> DEFINE next == IF stage[p] = "backup" THEN "backed" ELSE "written"
           file == <<at[p], Target(p), p>>
<1>1. /\ stage[p] \in {"backup", "write"} /\ <<at[p], Target(p)>> \notin Linked
      /\ temp' = temp \cup {file} /\ stage' = [stage EXCEPT ![p] = next]
      /\ UNCHANGED <<config, backup, binary, command, asked, todo, failed, at, basis, sel,
                     result, count, past>>
  BY DEF CreateTemp, Blocked
<1>2. /\ next \in {"backed", "written"} /\ (next = "backed" <=> stage[p] = "backup")
      /\ stage'[p] = next /\ at[p] \in Clients /\ Target(p) \in {"config", "backup"}
      /\ Target(p)' = Target(p)
  BY <1>1 DEF IInv, TypeOK, Target
<1>3. TypeOK'
  <2>1. stage' \in [Pids -> Stages]
    BY <1>1, <1>2 DEF IInv, TypeOK, Stages
  <2>2. temp' \subseteq Clients \X {"config", "backup"} \X Pids
    BY <1>1, <1>2 DEF IInv, TypeOK
  <2>3. binary' \in BOOLEAN
    <3>1. binary' = binary
      BY <1>1
    <3> QED
      BY <3>1, Zenon DEF IInv, TypeOK
  <2> QED
    BY <1>1, <2>1, <2>2, <2>3 DEF IInv, TypeOK, count, past
<1>4. Alone(p)
  BY <1>1 DEF IInv, TypeOK, Alone, past
<1>5. Fit(p)' /\ Saved(p)' /\ Probed(p)'
  BY <1>1, <1>2 DEF IInv, Fit, Saved, Probed, Busy, past
<1>6. Progress(p)'
  BY <1>1, <1>2 DEF IInv, Progress, Busy, Done, past
<1>7. Owned'
  <2>1. ASSUME NEW q \in Pids, q # p
        PROVE  stage'[q] = stage[q] /\ at'[q] = at[q] /\ Target(q)' = Target(q)
    BY <1>4, <2>1 DEF Alone, Target
  <2>2. ASSUME NEW x \in temp, ~(crashes > 0)
        PROVE  /\ stage'[x[3]] \in {"backed", "written"}
               /\ x = <<at'[x[3]], Target(x[3])', x[3]>>
    <3>1. /\ x[3] \in Pids /\ stage[x[3]] \in {"backed", "written"}
          /\ x = <<at[x[3]], Target(x[3]), x[3]>>
      BY <2>2 DEF IInv, TypeOK, Owned
    <3> QED
      BY <1>1, <2>1, <3>1
  <2>3. file[3] = p /\ file = <<at'[p], Target(p)', p>>
    BY <1>1, <1>2
  <2>4. ASSUME NEW q \in Pids, stage'[q] \in {"backed", "written"}
        PROVE  <<at'[q], Target(q)'>> \notin Linked
    BY <1>1, <1>2, <2>1, <2>4 DEF IInv, Owned
  <2> HIDE DEF file
  <2> QED
    BY <1>1, <1>2, <2>2, <2>3, <2>4 DEF Owned, count
<1> QED
  BY <1>1, <1>3, <1>4, <1>5, <1>6, <1>7, LocalKeeps DEF past

(* A process that gives up its temporary file, or renames it, leaves the     *)
(* others theirs.                                                            *)
LEMMA OwnedWithout ==
  ASSUME IInv, NEW p \in Pids, temp' = temp \ {<<at[p], Target(p), p>>}, crashes' = crashes,
         at' = at, \A q \in Pids \ {p} : stage'[q] = stage[q],
         stage'[p] \notin {"backed", "written"}
  PROVE  Owned'
<1>1. ASSUME NEW q \in Pids, q # p PROVE Target(q)' = Target(q)
  BY <1>1 DEF Target
<1>2. ASSUME NEW x \in temp', ~(crashes > 0)
      PROVE  stage'[x[3]] \in {"backed", "written"} /\ x = <<at'[x[3]], Target(x[3])', x[3]>>
  <2>1. /\ x[3] \in Pids /\ stage[x[3]] \in {"backed", "written"}
        /\ x = <<at[x[3]], Target(x[3]), x[3]>>
    BY <1>2 DEF IInv, TypeOK, Owned
  <2>2. x[3] # p
    BY <1>2, <2>1
  <2> QED
    BY <1>1, <2>1, <2>2
<1>3. ASSUME NEW q \in Pids, stage'[q] \in {"backed", "written"}
      PROVE  <<at'[q], Target(q)'>> \notin Linked
  BY <1>1, <1>3 DEF IInv, Owned
<1> QED
  BY <1>2, <1>3 DEF Owned

(* A write that fails takes its temporary file along. *)
LEMMA WriteFailsKeeps ==
  ASSUME IInv, NEW p \in Pids, WriteFails(p)
  PROVE  IInv'
<1>1. /\ Busy(p) /\ temp' = Discard(p, Target(p))
      /\ failed' = [failed EXCEPT ![p] = @ \cup {at[p]}]
      /\ stage' = [stage EXCEPT ![p] = "next"]
      /\ UNCHANGED <<config, backup, binary, command, asked, todo, at, basis, sel, result, count, past>>
  BY DEF WriteFails, Fail, Busy
<1>2. stage'[p] = "next" /\ failed'[p] = failed[p] \cup {at[p]} /\ Alone(p)
  BY <1>1 DEF IInv, TypeOK, Alone, past
<1>3. temp' \subseteq temp
  BY <1>1 DEF Discard
<1>4. TypeOK'
  <2>1. stage' \in [Pids -> Stages] /\ failed' \in [Pids -> SUBSET Clients]
    BY <1>1 DEF IInv, TypeOK, Stages
  <2>2. binary' \in BOOLEAN
    <3>1. binary' = binary
      BY <1>1
    <3> QED
      BY <3>1, Zenon DEF IInv, TypeOK
  <2> QED
    BY <1>1, <1>3, <2>1, <2>2 DEF IInv, TypeOK, count, past
<1>5. Fit(p)' /\ Saved(p)' /\ Probed(p)'
  BY <1>1, <1>2 DEF IInv, Fit, Saved, Probed, Busy, past
<1>6. Progress(p)'
  BY <1>1, <1>2 DEF IInv, Progress, Busy, Done, past
<1>7. Owned'
  <2>1. CASE <<at[p], Target(p)>> \in Linked
    <3>1. stage[p] \notin {"backed", "written"} /\ temp' = temp
      BY <1>1, <2>1 DEF IInv, Owned, Discard
    <3>2. crashes' \in Nat /\ crashes' >= crashes
      BY <1>1, BoundsAssumption DEF IInv, TypeOK, count
    <3> QED
      BY <1>2, <3>1, <3>2, OwnedQuiet
  <2>2. CASE <<at[p], Target(p)>> \notin Linked
    BY <1>1, <1>2, <2>2, OwnedWithout DEF Discard, count, Alone
  <2> QED
    BY <2>1, <2>2
<1> QED
  BY <1>1, <1>2, <1>4, <1>5, <1>6, <1>7, LocalKeeps DEF past

(* The backup is what was read; it is the owner's unless the file is raced.  *)
LEMMA RenameBackupKeeps ==
  ASSUME IInv, NEW p \in Pids, RenameBackup(p)
  PROVE  IInv'
<1> DEFINE c == at[p]
<1>1. /\ stage[p] = "backed" /\ backup' = [backup EXCEPT ![c] = basis[p]]
      /\ temp' = temp \ {<<c, "backup", p>>} /\ stage' = [stage EXCEPT ![p] = "write"]
      /\ raced' = Race(p)
      /\ UNCHANGED <<config, binary, command, asked, todo, failed, at, basis, sel, result, count,
                     authored, stale, replaced, disturbed>>
  BY DEF RenameBackup
<1>2. c \in Clients /\ basis[p] \in Texts /\ raced \subseteq raced' /\ raced' \subseteq Clients
  BY <1>1 DEF IInv, TypeOK, Race
<1>3. /\ backup'[c] = basis[p] /\ basis[p] # NoFile
      /\ c \notin raced' => c \notin raced /\ Keeps(basis[p], authored[c])
      /\ \A d \in Clients \ {c} : backup'[d] = backup[d]
  BY <1>1, <1>2 DEF IInv, TypeOK, Fit, Busy, Race
<1>4. stage'[p] = "write" /\ \A q \in Pids \ {p} : stage'[q] = stage[q]
  BY <1>1 DEF IInv, TypeOK
<1> HIDE DEF c
<1>5. TypeOK'
  <2>1. stage' \in [Pids -> Stages] /\ backup' \in [Clients -> Texts]
    BY <1>1, <1>2 DEF IInv, TypeOK, Stages
  <2>2. binary' \in BOOLEAN
    <3>1. binary' = binary
      BY <1>1
    <3> QED
      BY <3>1, Zenon DEF IInv, TypeOK
  <2> QED
    BY <1>1, <1>2, <2>1, <2>2 DEF IInv, TypeOK, count
<1>6. ReadableKept'
  BY <1>1, <1>2 DEF IInv, ReadableKept
<1>7. RollbackPossible'
  BY <1>1, <1>2, <1>3 DEF IInv, TypeOK, RollbackPossible
<1>8. Owned'
  BY <1>1, <1>4, OwnedWithout DEF Target, count, c
<1>9. ASSUME NEW q \in Pids PROVE Fit(q)' /\ Saved(q)' /\ Probed(q)' /\ Progress(q)'
  <2>1. Busy(q)' <=> Busy(q)
    BY <1>1, <1>4 DEF Busy
  <2>2. Fit(q)'
    BY <1>1, <1>2, <1>4, <2>1 DEF IInv, Fit
  <2>3. Saved(q)'
    <3>1. at[q] \in Clients
      BY DEF IInv, TypeOK
    <3>2. CASE at[q] = c
      BY <1>1, <1>3, <3>2 DEF Saved
    <3>3. CASE at[q] # c
      <4>1. q # p
        BY <3>3 DEF c
      <4> QED
        BY <1>1, <1>2, <1>3, <1>4, <3>1, <3>3, <4>1 DEF IInv, Saved
    <3> QED
      BY <3>2, <3>3
  <2>4. Probed(q)'
    BY <1>1, <1>4, <2>1 DEF IInv, Probed
  <2>5. Progress(q)'
    BY <1>1, <1>4, <2>1 DEF IInv, Progress, Done
  <2> QED
    BY <2>2, <2>3, <2>4, <2>5
<1> QED
  BY <1>5, <1>6, <1>7, <1>8, <1>9 DEF IInv

(* The new text keeps what the owner wrote, and has our entry or not; every  *)
(* other command is disturbed.                                               *)
LEMMA RenameConfigKeeps ==
  ASSUME IInv, NEW p \in Pids, RenameConfig(p)
  PROVE  IInv'
<1> DEFINE c == at[p]
           op == command[p].op
           merged == Merge(op, basis[p])
<1>1. /\ stage[p] = "written" /\ config' = [config EXCEPT ![c] = merged]
      /\ temp' = temp \ {<<c, "config", p>>} /\ stage' = [stage EXCEPT ![p] = "next"]
      /\ raced' = Race(p)
      /\ replaced' = IF basis[p] = NoFile THEN replaced ELSE replaced \cup {c}
      /\ disturbed' = [q \in Pids |-> IF q = p THEN disturbed[q] ELSE disturbed[q] \cup {c}]
      /\ UNCHANGED <<backup, binary, command, asked, todo, failed, at, basis, sel, result, count,
                     authored, stale>>
  BY DEF RenameConfig
<1>2. /\ c \in Clients /\ basis[p] \in Texts /\ op \in {"install", "uninstall"}
      /\ raced \subseteq raced' /\ raced' \subseteq Clients
  BY <1>1 DEF IInv, TypeOK, Race, Commands
<1>3. /\ ~Refuses(op, c, basis[p]) /\ ~Nothing(op, basis[p])
      /\ c \notin raced' \cup Unreadable => Keeps(basis[p], authored[c])
      /\ basis[p] # NoFile /\ c \notin raced' =>
           backup[c] # NoFile /\ Keeps(backup[c], authored[c])
  BY <1>1 DEF IInv, Fit, Saved, Busy, Race
<1>4. stage'[p] = "next" /\ \A q \in Pids \ {p} : stage'[q] = stage[q]
  BY <1>1 DEF IInv, TypeOK
<1> HIDE DEF c, op, merged
<1>5. /\ merged \in Texts /\ (HasEntry(merged) <=> op = "install")
      /\ c \notin raced' \cup Unreadable => Keeps(merged, authored[c])
  BY <1>2, <1>3, MergeIs DEF merged, Texts, IInv, TypeOK
<1>6. config'[c] = merged /\ \A d \in Clients \ {c} : config'[d] = config[d]
  BY <1>1, <1>2 DEF IInv, TypeOK
<1>7. TypeOK'
  <2>1. stage' \in [Pids -> Stages] /\ config' \in [Clients -> Texts]
    BY <1>1, <1>5 DEF IInv, TypeOK, Stages
  <2>2. disturbed' \in [Pids -> SUBSET Clients] /\ replaced' \subseteq Clients
    BY <1>1, <1>2 DEF IInv, TypeOK
  <2>3. binary' \in BOOLEAN
    <3>1. binary' = binary
      BY <1>1
    <3> QED
      BY <3>1, Zenon DEF IInv, TypeOK
  <2> QED
    BY <1>1, <1>2, <2>1, <2>2, <2>3 DEF IInv, TypeOK, count
<1>8. ReadableKept'
  BY <1>1, <1>2, <1>5, <1>6 DEF IInv, ReadableKept
<1>9. RollbackPossible'
  BY <1>1, <1>2, <1>3 DEF IInv, RollbackPossible
<1>10. Owned'
  BY <1>1, <1>4, OwnedWithout DEF Target, count, c
<1>11. ASSUME NEW q \in Pids PROVE Fit(q)' /\ Saved(q)' /\ Probed(q)' /\ Progress(q)'
  <2>1. Busy(q)' => Busy(q) /\ q # p
    BY <1>4 DEF Busy
  <2>2. Fit(q)'
    BY <1>1, <1>2, <1>4, <2>1 DEF IInv, Fit
  <2>3. Saved(q)'
    BY <1>1, <1>2, <1>4, <2>1 DEF IInv, Saved
  <2>4. Probed(q)'
    <3>1. CASE q = p
      BY <1>1, <1>4, <3>1 DEF IInv, Probed, Busy
    <3>2. CASE q # p
      BY <1>1, <1>4, <3>2 DEF IInv, Probed, Busy
    <3> QED
      BY <3>1, <3>2
  <2>5. Progress(q)'
    <3>1. CASE q = p
      <4>1. disturbed'[p] = disturbed[p] /\ asked[p] \subseteq Clients
        BY <1>1 DEF IInv, TypeOK
      <4>2. ASSUME NEW d \in asked[p] \ disturbed[p], d = c
            PROVE  Done(p, d)'
        BY <1>1, <1>5, <1>6, <4>2 DEF Done, op
      <4>3. ASSUME NEW d \in asked[p] \ disturbed[p], d # c
            PROVE  d \in todo[p] \/ d \in failed[p] \/ Done(p, d)'
        BY <1>1, <1>6, <4>1, <4>3 DEF IInv, Progress, Busy, Done, c
      <4> QED
        BY <1>1, <1>4, <3>1, <4>1, <4>2, <4>3 DEF Progress
    <3>2. CASE q # p
      <4>1. disturbed'[q] = disturbed[q] \cup {c} /\ asked[q] \subseteq Clients
        BY <1>1, <3>2 DEF IInv, TypeOK
      <4>2. ASSUME NEW d \in asked[q] \ disturbed'[q] PROVE Done(q, d)' <=> Done(q, d)
        BY <1>1, <1>6, <4>1 DEF Done
      <4> QED
        BY <1>1, <1>4, <3>2, <4>1, <4>2 DEF IInv, Progress, Busy
    <3> QED
      BY <3>1, <3>2
  <2> QED
    BY <2>2, <2>3, <2>4, <2>5
<1> QED
  BY <1>7, <1>8, <1>9, <1>10, <1>11 DEF IInv

(* The owner edits: whoever works on that file has an old text.              *)
LEMMA EditKeeps ==
  ASSUME IInv, NEW c \in Clients, NEW text \in EditedTexts, Edit(c, text)
  PROVE  IInv'
<1>1. /\ edits + crashes < MaxFaults /\ edits' = edits + 1
      /\ config' = [config EXCEPT ![c] = text] /\ authored' = [authored EXCEPT ![c] = text]
      /\ stale' = stale \cup {q \in Pids : Working(q, c)}
      /\ raced' = raced \ {c} /\ replaced' = replaced \ {c}
      /\ disturbed' = [q \in Pids |-> disturbed[q] \cup {c}]
      /\ UNCHANGED <<backup, temp, binary, run, commands, crashes>>
  BY DEF Edit
<1>2. text \in Texts
  BY TextsAssumption
<1>3. /\ config'[c] = text /\ \A d \in Clients \ {c} : config'[d] = config[d]
      /\ authored'[c] = text /\ \A d \in Clients \ {c} : authored'[d] = authored[d]
  BY <1>1 DEF IInv, TypeOK
<1>4. TypeOK'
  <2>1. config' \in [Clients -> Texts] /\ authored' \in [Clients -> Texts]
    BY <1>1, <1>2 DEF IInv, TypeOK
  <2>2. disturbed' \in [Pids -> SUBSET Clients] /\ edits' \in 0 .. MaxFaults
    BY <1>1, BoundsAssumption DEF IInv, TypeOK
  <2>3. binary' \in BOOLEAN
    <3>1. binary' = binary
      BY <1>1
    <3> QED
      BY <3>1, Zenon DEF IInv, TypeOK
  <2> QED
    BY <1>1, <2>1, <2>2, <2>3 DEF IInv, TypeOK, run
<1>5. ReadableKept'
  BY <1>1, <1>2, <1>3, KeepsItself DEF IInv, ReadableKept
<1>6. RollbackPossible'
  BY <1>1, <1>3 DEF IInv, TypeOK, RollbackPossible
<1>7. Owned'
  BY <1>1 DEF IInv, Owned, Target, run
<1>8. ASSUME NEW q \in Pids PROVE Fit(q)' /\ Saved(q)' /\ Probed(q)' /\ Progress(q)'
  <2>1. at[q] \in Clients /\ asked[q] \subseteq Clients
    BY DEF IInv, TypeOK
  <2>2. Busy(q) /\ q \notin stale' => at[q] # c /\ q \notin stale
    BY <1>1 DEF Busy, Working
  <2>3. Busy(q)' <=> Busy(q)
    BY <1>1 DEF Busy, run
  <2>4. Fit(q)'
    BY <1>1, <1>3, <2>1, <2>2, <2>3 DEF IInv, Fit, run
  <2>5. Saved(q)'
    BY <1>1, <1>3, <2>1, <2>2 DEF IInv, Saved, Busy, run
  <2>6. Probed(q)'
    BY <1>1, <2>3 DEF IInv, Probed, run
  <2>7. Progress(q)'
    <3>1. disturbed'[q] = disturbed[q] \cup {c}
      BY <1>1
    <3>2. ASSUME NEW d \in asked[q] \ disturbed'[q] PROVE Done(q, d)' <=> Done(q, d)
      BY <1>1, <1>3, <2>1, <3>1 DEF Done, run
    <3> QED
      BY <1>1, <2>3, <3>1, <3>2 DEF IInv, Progress, run
  <2> QED
    BY <2>4, <2>5, <2>6, <2>7
<1> QED
  BY <1>4, <1>5, <1>6, <1>7, <1>8 DEF IInv

(* Every step keeps the invariant. *)
LEMMA Inductive == IInv /\ [Next]_vars => IInv'
<1> SUFFICES ASSUME IInv, [Next]_vars PROVE IInv'
  OBVIOUS
<1>1. CASE \E p \in Pids, mode \in Modes :
             \/ \E c \in Clients : InstallNamed(p, c)
             \/ InstallDetected(p, mode)
             \/ \E remove \in BOOLEAN, S \in {{c} : c \in Clients} \cup {Clients} :
                  Uninstall(p, S, mode, remove) \/ UninstallRefused(p, mode, remove)
  <2>1. ASSUME NEW p \in Pids, NEW c \in Clients, InstallNamed(p, c) PROVE IInv'
    BY <2>1, BeginKeeps DEF InstallNamed, Modes
  <2>2. ASSUME NEW p \in Pids, NEW mode \in Modes, InstallDetected(p, mode) PROVE IInv'
    <3>1. Detected \in SUBSET Clients /\ FALSE \in BOOLEAN
      BY ClientsAssumption
    <3>2. CASE mode = "terminal"
      BY <2>2, <3>1, <3>2, BeginKeeps DEF InstallDetected
    <3>3. CASE mode # "terminal"
      BY <2>2, <3>1, <3>3, BeginKeeps DEF InstallDetected
    <3> QED
      BY <3>2, <3>3
  <2>3. ASSUME NEW p \in Pids, NEW S \in {{c} : c \in Clients} \cup {Clients}, NEW mode \in Modes,
               NEW remove \in BOOLEAN, Uninstall(p, S, mode, remove)
        PROVE  IInv'
    BY <2>3, BeginKeeps DEF Uninstall
  <2> QED
    BY <1>1, <2>1, <2>2, <2>3, UninstallRefusedKeeps
<1>2. ASSUME NEW p \in Pids,
             \/ \E down \in BOOLEAN : Move(p, down)
             \/ Toggle(p) \/ Enter(p) \/ Cancel(p)
             \/ \E c \in Clients : Probe(p, c) \/ Read(p, c)
             \/ Confirm(p) \/ Ask(p) \/ Finish(p) \/ \E r \in Results : RemoveBinary(p, r)
             \/ CreateTemp(p) \/ WriteFails(p) \/ RenameBackup(p) \/ RenameConfig(p)
             \/ Crash(p)
      PROVE  IInv'
  BY <1>2, MoveKeeps, ToggleKeeps, EnterKeeps, CancelKeeps, ProbeKeeps, ReadKeeps, ConfirmKeeps,
     AskKeeps, FinishKeeps, RemoveBinaryKeeps, CreateTempKeeps, WriteFailsKeeps,
     RenameBackupKeeps, RenameConfigKeeps, CrashKeeps
<1>3. CASE \E c \in Clients, text \in EditedTexts : Edit(c, text)
  BY <1>3, EditKeeps
<1>4. CASE UNCHANGED vars
  <2>1. TypeOK'
    BY <1>4, DiskTypes DEF IInv, TypeOK, vars, run
  <2>2. ReadableKept' /\ RollbackPossible' /\ Owned'
    BY <1>4 DEF IInv, ReadableKept, RollbackPossible, Owned, Target, vars, disk, run, count, past
  <2>3. ASSUME NEW q \in Pids PROVE Fit(q)' /\ Saved(q)' /\ Probed(q)' /\ Progress(q)'
    BY <1>4 DEF IInv, Fit, Saved, Probed, Progress, Done, Busy, vars, disk, run, past
  <2> QED
    BY <2>1, <2>2, <2>3 DEF IInv
<1> QED
  BY <1>1, <1>2, <1>3, <1>4 DEF Next

(* The inductive invariant holds of every run of any commands. *)
THEOREM InstallerInvariance == Spec => []IInv
  BY InitHolds, Inductive, PTL DEF Spec

(* Every variable keeps its type, whatever is installed, edited or killed.   *)
THEOREM InstallerTypeCorrect == Spec => []TypeOK
<1>1. IInv => TypeOK
  BY DEF IInv
<1> QED
  BY <1>1, InstallerInvariance, PTL

(* A configuration that can be read keeps what its owner wrote, unless it    *)
(* was written while a command was at work on it; whatever the other files   *)
(* are (write_json_client, write_codex_toml, remove_json_entry).             *)
THEOREM ReadableKeptHolds == Spec => []ReadableKept
<1>1. IInv => ReadableKept
  BY DEF IInv
<1> QED
  BY <1>1, InstallerInvariance, PTL

(* So nothing is lost where every configuration can be read; install_unreadable *)
(* shows that the hypothesis is needed (fs::read(path).ok()).                *)
THEOREM SiblingsKeptHolds == ASSUME Unreadable = {} PROVE Spec => []SiblingsKept
<1>1. IInv => SiblingsKept
  BY DEF IInv, ReadableKept, SiblingsKept
<1> QED
  BY <1>1, InstallerInvariance, PTL

(* Whenever a file was replaced its .bak holds what the owner had there      *)
(* (backup, safe_write).                                                     *)
THEOREM RollbackPossibleHolds == Spec => []RollbackPossible
<1>1. IInv => RollbackPossible
  BY DEF IInv
<1> QED
  BY <1>1, InstallerInvariance, PTL

(* A command that reports success did all it was asked, but for files others *)
(* changed meanwhile (apply, finish_uninstall).                              *)
THEOREM OkMeansDoneHolds == Spec => []OkMeansDone
<1>1. ASSUME IInv, NEW p \in Pids, stage[p] = "idle" /\ result[p] = "ok",
             NEW c \in asked[p] \ disturbed[p]
      PROVE  HasEntry(config[c]) = (command[p].op = "install")
  <2>1. Done(p, c)
    BY <1>1 DEF IInv, Progress
  <2> QED
    BY <2>1, Zenon DEF Done, HasEntry
<1>2. IInv => OkMeansDone
  BY <1>1 DEF OkMeansDone
<1> QED
  BY <1>2, InstallerInvariance, PTL

(* Without a crash there is no temporary file but those of commands at work  *)
(* (safe_write removes its own when it fails).                               *)
THEOREM NoLitterHolds == Spec => []NoLitter
<1>1. ASSUME IInv, NEW x \in temp, ~(crashes > 0)
      PROVE  at[x[3]] = x[1] /\ stage[x[3]] \in {"backed", "written"}
  <2>1. stage[x[3]] \in {"backed", "written"} /\ x = <<at[x[3]], Target(x[3]), x[3]>>
    BY <1>1 DEF IInv, Owned
  <2> QED
    BY <2>1
<1>2. IInv => NoLitter
  BY <1>1 DEF NoLitter
<1> QED
  BY <1>2, InstallerInvariance, PTL
=============================================================================
