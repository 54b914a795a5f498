------------------------------ MODULE Installer ------------------------------
(***************************************************************************)
(* codekurve install and uninstall: the server's entry is merged into, or  *)
(* removed from, the configuration files of MCP clients                    *)
(* (crates/codekurve/src/install.rs, update.rs and the picker of           *)
(* crates/codekurve-tui/src/picker.rs).  Each file is read, backed up and  *)
(* replaced by a rename, while its owner may edit it, another command may  *)
(* run, and a command may die between any two steps.                       *)
(***************************************************************************)
EXTENDS Naturals, Sequences, FiniteSets

CONSTANTS
  Clients,     \* Client::ALL
  Rows,        \* the clients in the order of the picker's rows
  Toml,        \* clients whose configuration is TOML (Codex)
  Detected,    \* clients found on this machine
  Servers,     \* entries of other servers
  Linked,      \* files <<client, "config" or "backup">> that are symbolic links
  ReadOnly,    \* clients whose directory takes no new file
  Unreadable,  \* clients whose configuration exists but cannot be read
  NoFile, Broken, Odd,  \* no file; not JSON or TOML; the servers key is no object
  InitialTexts,         \* texts a configuration may start with
  EditedTexts,          \* texts its owner may write
  Pids,        \* process ids, reused once their process is gone
  MaxCommands, MaxFaults  \* bounds; a fault is an edit by the owner or a crash

Parsed == [servers : SUBSET Servers, ours : BOOLEAN]
Texts  == Parsed \cup {NoFile, Broken, Odd}
Files  == Clients \X {"config", "backup"}
Modes  == {"yes", "terminal", "piped"}   \* --yes; a prompt is possible; it is not
Stages == {"idle", "pick", "probe", "confirm", "next",
           "backup", "backed", "write", "written", "binary"}

ASSUME ClientsAssumption ==
  /\ IsFiniteSet(Clients) /\ Clients # {} /\ IsFiniteSet(Servers)
  /\ Toml \subseteq Clients /\ Detected \subseteq Clients
  /\ Linked \subseteq Files /\ ReadOnly \subseteq Clients /\ Unreadable \subseteq Clients
  /\ Rows \in [1 .. Cardinality(Clients) -> Clients]
  /\ \A c \in Clients : \E i \in DOMAIN Rows : Rows[i] = c
ASSUME TextsAssumption ==
  /\ {NoFile, Broken, Odd} \cap Parsed = {} /\ Cardinality({NoFile, Broken, Odd}) = 3
  /\ InitialTexts \subseteq Texts /\ EditedTexts \subseteq Texts
ASSUME BoundsAssumption == MaxCommands \in Nat /\ MaxFaults \in Nat

VARIABLES
  config,    \* client -> the text of its configuration
  backup,    \* client -> the text of its .bak
  temp,      \* temporary files <<client, "config" or "backup", pid>>
  binary,    \* the executable is installed
  stage,     \* pid -> how far its command is
  command,   \* pid -> its operation, mode, and whether --binary was given
  asked,     \* pid -> the clients it is about
  todo,      \* pid -> those it has still to look at
  failed,    \* pid -> those it failed on
  at,        \* pid -> the client it is working on
  basis,     \* pid -> the text it read for that client
  sel,       \* pid -> the picker's selected row
  result,    \* pid -> what its last command returned
  commands, edits, crashes,  \* how many there were
  authored,  \* history: client -> what the configuration's owner last wrote
  stale,     \* history: pids whose basis the owner has changed since
  raced,     \* history: clients where such a basis was written back
  replaced,  \* history: clients whose owner's file a command has replaced
  disturbed  \* history: pid -> clients others changed since its command began

disk  == <<config, backup, temp, binary>>
run   == <<stage, command, asked, todo, failed, at, basis, sel, result>>
count == <<commands, edits, crashes>>
past  == <<authored, stale, raced, replaced, disturbed>>
vars  == <<disk, run, count, past>>

Commands == [op : {"install", "uninstall"}, mode : Modes, binary : BOOLEAN]
Results  == {"none", "ok", "error", "refused", "aborted", "crashed"}

TypeOK ==
  /\ config \in [Clients -> Texts] /\ backup \in [Clients -> Texts]
  /\ temp \subseteq Clients \X {"config", "backup"} \X Pids /\ binary \in BOOLEAN
  /\ stage \in [Pids -> Stages] /\ command \in [Pids -> Commands]
  /\ asked \in [Pids -> SUBSET Clients] /\ todo \in [Pids -> SUBSET Clients]
  /\ failed \in [Pids -> SUBSET Clients]
  /\ at \in [Pids -> Clients] /\ basis \in [Pids -> Texts]
  /\ sel \in [Pids -> DOMAIN Rows] /\ result \in [Pids -> Results]
  /\ commands \in 0 .. MaxCommands /\ edits \in 0 .. MaxFaults /\ crashes \in 0 .. MaxFaults
  /\ authored \in [Clients -> Texts] /\ stale \subseteq Pids
  /\ raced \subseteq Clients /\ replaced \subseteq Clients
  /\ disturbed \in [Pids -> SUBSET Clients]

Init ==
  /\ config \in [Clients -> InitialTexts] /\ authored = config
  /\ backup = [c \in Clients |-> NoFile] /\ temp = {} /\ binary = TRUE
  /\ stage = [p \in Pids |-> "idle"] /\ result = [p \in Pids |-> "none"]
  /\ command = [p \in Pids |-> [op |-> "install", mode |-> "yes", binary |-> FALSE]]
  /\ asked = [p \in Pids |-> {}] /\ todo = asked /\ failed = asked /\ disturbed = asked
  /\ at = [p \in Pids |-> Rows[1]] /\ basis = [p \in Pids |-> NoFile]
  /\ sel = [p \in Pids |-> 1]
  /\ commands = 0 /\ edits = 0 /\ crashes = 0
  /\ stale = {} /\ raced = {} /\ replaced = {}

HasEntry(text) == text \in Parsed /\ text.ours
\* fs::read(path).ok(): a file that cannot be read counts as no file.
Seen(c) == IF c \in Unreadable THEN NoFile ELSE config[c]

-----------------------------------------------------------------------------
(* How commands start and end.                                             *)

\* The process is gone, and its locals with it.
End(p, r) ==
  /\ stage' = [stage EXCEPT ![p] = "idle"]
  /\ result' = [result EXCEPT ![p] = r]
  /\ todo' = [todo EXCEPT ![p] = {}] /\ failed' = [failed EXCEPT ![p] = {}]
  /\ at' = [at EXCEPT ![p] = Rows[1]] /\ basis' = [basis EXCEPT ![p] = NoFile]
  /\ sel' = [sel EXCEPT ![p] = 1]

\* A command is typed: S are the clients it is about, s is where it begins.
Begin(p, op, mode, remove, S, s) ==
  /\ stage[p] = "idle" /\ commands < MaxCommands
  /\ commands' = commands + 1
  /\ command' = [command EXCEPT ![p] = [op |-> op, mode |-> mode, binary |-> remove]]
  /\ asked' = [asked EXCEPT ![p] = S] /\ todo' = [todo EXCEPT ![p] = S]
  /\ failed' = [failed EXCEPT ![p] = {}]
  /\ disturbed' = [disturbed EXCEPT ![p] = {}]
  /\ sel' = [sel EXCEPT ![p] = 1]
  /\ stage' = [stage EXCEPT ![p] = s] /\ result' = [result EXCEPT ![p] = "none"]
  /\ UNCHANGED <<disk, at, basis, edits, crashes, authored, stale, raced, replaced>>

\* install <client>, whether or not it is detected.
InstallNamed(p, c) == Begin(p, "install", "yes", FALSE, {c}, "next")
\* install without a client: what is detected; on a terminal the picker asks,
\* otherwise it is as with --yes.
InstallDetected(p, mode) ==
  /\ Detected # {} /\ mode # "piped"
  /\ Begin(p, "install", mode, FALSE, Detected, IF mode = "terminal" THEN "pick" ELSE "next")

\* precheck_binary_removal: without a terminal --binary needs --yes.
Refused(mode, remove) == remove /\ mode = "piped"
\* Without --binary a piped stdin is as good as --yes.
Uninstall(p, S, mode, remove) ==
  ~Refused(mode, remove) /\ (mode = "piped" => remove) /\ Begin(p, "uninstall", mode, remove, S, "probe")
UninstallRefused(p, mode, remove) ==
  /\ Refused(mode, remove) /\ stage[p] = "idle" /\ commands < MaxCommands
  /\ commands' = commands + 1
  /\ asked' = [asked EXCEPT ![p] = {}] /\ result' = [result EXCEPT ![p] = "refused"]
  /\ UNCHANGED <<disk, stage, command, todo, failed, at, basis, sel, edits, crashes, past>>

\* step: the cursor of a list is clamped at both ends.
Step(len, i, down) ==
  IF down THEN (IF i < len THEN i + 1 ELSE len) ELSE IF i > 1 THEN i - 1 ELSE 1

\* Picker::on_key.  The rows of detected clients start checked.
Move(p, down) ==
  /\ stage[p] = "pick"
  /\ sel' = [sel EXCEPT ![p] = Step(Len(Rows), sel[p], down)]
  /\ UNCHANGED <<disk, stage, command, asked, todo, failed, at, basis, result, count, past>>
Toggle(p) ==
  LET c == Rows[sel[p]]
  IN /\ stage[p] = "pick" /\ c \in Detected
     /\ asked' = [asked EXCEPT ![p] = IF c \in @ THEN @ \ {c} ELSE @ \cup {c}]
     /\ UNCHANGED <<disk, stage, command, todo, failed, at, basis, sel, result, count, past>>
Enter(p) ==
  /\ stage[p] = "pick"
  /\ todo' = [todo EXCEPT ![p] = asked[p]] /\ stage' = [stage EXCEPT ![p] = "next"]
  /\ UNCHANGED <<disk, command, asked, failed, at, basis, sel, result, count, past>>
Cancel(p) ==
  /\ stage[p] \in {"pick", "confirm"} /\ command[p].mode = "terminal"
  /\ End(p, "aborted")
  /\ UNCHANGED <<disk, command, asked, count, past>>

\* uninstall looks at every client first, to say what it is going to do; a
\* configuration that does not parse is only reported.
Probe(p, c) ==
  /\ stage[p] = "probe" /\ c \in todo[p]
  /\ todo' = [todo EXCEPT ![p] = @ \ {c}]
  /\ asked' = [asked EXCEPT ![p] = IF HasEntry(Seen(c)) THEN @ ELSE @ \ {c}]
  /\ UNCHANGED <<disk, stage, command, failed, at, basis, sel, result, count, past>>
Confirm(p) ==
  /\ \/ stage[p] = "probe" /\ todo[p] = {} /\ asked[p] # {} /\ command[p].mode # "terminal"
     \/ stage[p] = "confirm"
  /\ todo' = [todo EXCEPT ![p] = asked[p]] /\ stage' = [stage EXCEPT ![p] = "next"]
  /\ UNCHANGED <<disk, command, asked, failed, at, basis, sel, result, count, past>>
Ask(p) ==
  /\ stage[p] = "probe" /\ todo[p] = {} /\ asked[p] # {} /\ command[p].mode = "terminal"
  /\ stage' = [stage EXCEPT ![p] = "confirm"]
  /\ UNCHANGED <<disk, command, asked, todo, failed, at, basis, sel, result, count, past>>

\* The end of apply, and finish_uninstall.
\* Mutant: the failures are printed and forgotten.
OutcomeOptimistic(p) == "ok"
Outcome(p) == IF failed[p] = {} THEN "ok" ELSE "error"
Finish(p) ==
  /\ \/ stage[p] = "next" /\ todo[p] = {}
     \/ stage[p] = "probe" /\ todo[p] = {} /\ asked[p] = {}
  /\ IF Outcome(p) = "ok" /\ command[p].binary
     THEN /\ stage' = [stage EXCEPT ![p] = "binary"]
          /\ UNCHANGED <<todo, failed, at, basis, sel, result>>
     ELSE End(p, Outcome(p))
  /\ UNCHANGED <<disk, command, asked, count, past>>

\* update::execute: decide, then the install script, which may fail.
RemoveBinary(p, r) ==
  /\ stage[p] = "binary"
  /\ CASE command[p].mode = "piped" -> r = "refused"
       [] command[p].mode = "terminal" -> r \in {"ok", "error", "aborted"}
       [] OTHER -> r \in {"ok", "error"}
  /\ End(p, r) /\ binary' = (binary /\ r # "ok")
  /\ UNCHANGED <<config, backup, temp, command, asked, count, past>>

-----------------------------------------------------------------------------
(* One client: write_json_client, write_opencode_json, write_codex_toml,   *)
(* remove_json_entry, remove_codex_toml_entry.                             *)

\* The texts an operation refuses to change; a key that is no object is no
\* reason for the JSON remover, there is nothing of ours in it.
Refuses(op, c, text) ==
  \/ text = Broken
  \/ text = Odd /\ (op = "install" \/ c \in Toml)
Nothing(op, text) == op = "uninstall" /\ ~HasEntry(text)

\* What is written: the text that was read, with our entry in or out.  A text is
\* the servers it names; bytes that are not UTF-8, which from_utf8_lossy replaces,
\* are below that grain.
\* Mutant: the servers object is written anew.
MergeAnew(op, text) == [servers |-> {}, ours |-> op = "install"]
Merge(op, text) ==
  IF text = NoFile THEN [servers |-> {}, ours |-> TRUE]
  ELSE [text EXCEPT !.ours = (op = "install")]

Fail(p) ==
  /\ failed' = [failed EXCEPT ![p] = @ \cup {at[p]}]
  /\ stage' = [stage EXCEPT ![p] = "next"]

Read(p, c) ==
  LET op == command[p].op
      text == Seen(c)
  IN /\ stage[p] = "next" /\ c \in todo[p]
     /\ at' = [at EXCEPT ![p] = c] /\ basis' = [basis EXCEPT ![p] = text]
     /\ todo' = [todo EXCEPT ![p] = @ \ {c}]
     /\ stale' = stale \ {p}
     /\ failed' = [failed EXCEPT ![p] = IF Refuses(op, c, text) THEN @ \cup {c} ELSE @]
     /\ stage' = [stage EXCEPT ![p] =
                    IF Refuses(op, c, text) \/ Nothing(op, text) THEN "next"
                    ELSE IF text = NoFile THEN "write" ELSE "backup"]
     /\ UNCHANGED <<disk, command, asked, sel, result, count, authored, raced, replaced, disturbed>>

\* refuse_symlink, then create_new: a leftover of the same name is in the way,
\* and is removed.
Blocked(p, file) ==
  \/ <<at[p], file>> \in Linked \/ (file = "backup" /\ <<at[p], "config">> \in Linked)
  \/ at[p] \in ReadOnly
  \/ <<at[p], file, p>> \in temp
Target(p) == IF stage[p] \in {"backup", "backed"} THEN "backup" ELSE "config"

CreateTemp(p) ==
  LET file == Target(p)
  IN /\ stage[p] \in {"backup", "write"} /\ ~Blocked(p, file)
     /\ temp' = temp \cup {<<at[p], file, p>>}
     /\ stage' = [stage EXCEPT ![p] = IF @ = "backup" THEN "backed" ELSE "written"]
     /\ UNCHANGED <<config, backup, binary, command, asked, todo, failed, at, basis, sel,
                    result, count, past>>

\* The closure of safe_write returns an error: the temporary file goes.  A
\* symbolic link is refused before there is one.
\* Mutant: only the caller is told.
DiscardNothing(p, file) == temp
Discard(p, file) ==
  IF <<at[p], file>> \in Linked THEN temp ELSE temp \ {<<at[p], file, p>>}
WriteFails(p) ==
  /\ \/ stage[p] \in {"backup", "write"} /\ Blocked(p, Target(p))
     \/ stage[p] \in {"backed", "written"}
  /\ temp' = Discard(p, Target(p))
  /\ Fail(p)
  /\ UNCHANGED <<config, backup, binary, command, asked, todo, at, basis, sel, result, count, past>>

\* The owner's text is lost if it is newer than the basis written back.
Race(p) == IF p \in stale THEN raced \cup {at[p]} ELSE raced

\* Mutant: a backup that is there already is kept.
RenameBackupOnce(p) ==
  /\ stage[p] = "backed"
  /\ backup' = [backup EXCEPT ![at[p]] = IF @ = NoFile THEN basis[p] ELSE @]
  /\ temp' = temp \ {<<at[p], "backup", p>>}
  /\ stage' = [stage EXCEPT ![p] = "write"]
  /\ raced' = Race(p)
  /\ UNCHANGED <<config, binary, command, asked, todo, failed, at, basis, sel, result, count,
                 authored, stale, replaced, disturbed>>
RenameBackup(p) ==
  /\ stage[p] = "backed"
  /\ backup' = [backup EXCEPT ![at[p]] = basis[p]]
  /\ temp' = temp \ {<<at[p], "backup", p>>}
  /\ stage' = [stage EXCEPT ![p] = "write"]
  /\ raced' = Race(p)
  /\ UNCHANGED <<config, binary, command, asked, todo, failed, at, basis, sel, result, count,
                 authored, stale, replaced, disturbed>>

RenameConfig(p) ==
  /\ stage[p] = "written"
  /\ config' = [config EXCEPT ![at[p]] = Merge(command[p].op, basis[p])]
  /\ temp' = temp \ {<<at[p], "config", p>>}
  /\ stage' = [stage EXCEPT ![p] = "next"]
  /\ raced' = Race(p)
  /\ replaced' = IF basis[p] = NoFile THEN replaced ELSE replaced \cup {at[p]}
  /\ disturbed' = [q \in Pids |-> IF q = p THEN disturbed[q] ELSE disturbed[q] \cup {at[p]}]
  /\ UNCHANGED <<backup, binary, command, asked, todo, failed, at, basis, sel, result, count,
                 authored, stale>>

-----------------------------------------------------------------------------
(* The rest of the world.                                                  *)

Working(q, c) == at[q] = c /\ stage[q] \in {"backup", "backed", "write", "written"}

Edit(c, text) ==
  /\ edits + crashes < MaxFaults /\ config[c] # text
  /\ edits' = edits + 1
  /\ config' = [config EXCEPT ![c] = text] /\ authored' = [authored EXCEPT ![c] = text]
  /\ stale' = stale \cup {q \in Pids : Working(q, c)}
  /\ raced' = raced \ {c} /\ replaced' = replaced \ {c}
  /\ disturbed' = [q \in Pids |-> disturbed[q] \cup {c}]
  /\ UNCHANGED <<backup, temp, binary, run, commands, crashes>>

Crash(p) ==
  /\ stage[p] # "idle" /\ edits + crashes < MaxFaults
  /\ crashes' = crashes + 1
  /\ End(p, "crashed")
  /\ UNCHANGED <<disk, command, asked, commands, edits, past>>

Next ==
  \/ \E p \in Pids, mode \in Modes :
       \/ \E c \in Clients : InstallNamed(p, c)
       \/ InstallDetected(p, mode)
       \/ \E remove \in BOOLEAN, S \in {{c} : c \in Clients} \cup {Clients} :
            Uninstall(p, S, mode, remove) \/ UninstallRefused(p, mode, remove)
  \/ \E p \in Pids :
       \/ \E down \in BOOLEAN : Move(p, down)
       \/ Toggle(p) \/ Enter(p) \/ Cancel(p)
       \/ \E c \in Clients : Probe(p, c) \/ Read(p, c)
       \/ Confirm(p) \/ Ask(p) \/ Finish(p) \/ \E r \in Results : RemoveBinary(p, r)
       \/ CreateTemp(p) \/ WriteFails(p) \/ RenameBackup(p) \/ RenameConfig(p)
       \/ Crash(p)
  \/ \E c \in Clients, text \in EditedTexts : Edit(c, text)

Spec == Init /\ [][Next]_vars

-----------------------------------------------------------------------------
(* Correctness.                                                            *)

\* text still has what its owner wrote.
Keeps(text, owners) ==
  CASE owners \in {Broken, Odd} -> text = owners
    [] owners = NoFile -> text = NoFile \/ text.servers = {}
    [] OTHER -> text \in Parsed /\ text.servers = owners.servers

\* No command, nor two at once, nor one that dies half-way, loses what the
\* owner of a configuration put there, unless the owner wrote it while the
\* command was at work on that file ("without disturbing sibling entries",
\* write_json_client).
SiblingsKept == \A c \in Clients \ raced : Keeps(config[c], authored[c])

\* Whenever a file has been replaced its .bak holds what it had before ("lets a
\* user roll back without git", backup).
RollbackPossible ==
  \A c \in replaced \ raced : backup[c] # NoFile /\ Keeps(backup[c], authored[c])

\* A command that reports success has done all it was asked: every client has,
\* or no longer has, the entry, but for files others changed meanwhile.
OkMeansDone ==
  \A p \in Pids : stage[p] = "idle" /\ result[p] = "ok" =>
    \A c \in asked[p] \ disturbed[p] : HasEntry(config[c]) = (command[p].op = "install")

\* A temporary file belongs to a command at work on it, or one that died.
NoLitter ==
  \A x \in temp : crashes > 0 \/ (at[x[3]] = x[1] /\ stage[x[3]] \in {"backed", "written"})
=============================================================================
