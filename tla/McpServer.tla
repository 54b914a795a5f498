----------------------------- MODULE McpServer ------------------------------
(***************************************************************************)
(* The MCP server (crates/codekurve-mcp/src/server.rs, lib.rs and the body *)
(* of codekurve_reindex in tools.rs).                                      *)
(*                                                                         *)
(* The runtime has one thread.  It reads requests, runs call_tool up to    *)
(* the tool's body, and sends the answers.  Bodies run on threads of the   *)
(* blocking pool, one per call, and share one session behind a mutex that  *)
(* the runtime's thread takes too, in reopen_if_not_indexed.               *)
(*                                                                         *)
(* The project's configuration and database are changed by others at any   *)
(* time.  What a query reads is not told apart here, only the state of the *)
(* session that it runs on.                                                *)
(***************************************************************************)
EXTENDS Naturals

CONSTANTS
  Calls,       \* ids of the requests a client may send
  None,        \* nobody, no result yet
  MaxChanges   \* bound: changes of the project by others

\* What a call is answered with.
Results  == {"ok", "error", "panic", "method_not_found"}

ASSUME CallsAssumption == None \notin Calls \cup Results
ASSUME MaxChangesAssumption == MaxChanges \in Nat

VARIABLES
  \* the project
  readable,    \* the root and config.toml can be read
  index,       \* the database: "absent", "busy" (held by another process), "ready"
  changes,     \* how often others changed the two
  \* the server
  allow_reindex,
  session,     \* "not_indexed", "read_only" or "writable"
  poisoned,    \* of the session's mutex
  holder,      \* the call whose body holds the mutex
  thread,      \* the call in whose reopen_if_not_indexed the runtime's thread is
  \* the calls
  tool, stage, result,
  \* history, never read by the program
  suspect,     \* a body panicked on the session as it is
  panicked,    \* some body did
  steady       \* calls since whose arrival the index could be opened all the time

project == <<readable, index, changes>>
server  == <<allow_reindex, session, poisoned, holder, thread>>
calls   == <<tool, stage, result>>
history == <<suspect, panicked, steady>>
vars    == <<project, server, calls, history>>

Indexes  == {"absent", "busy", "ready"}
Sessions == {"not_indexed", "read_only", "writable"}
ToolKinds == {"query", "reindex"}
InBody   == {"running", "reindexed"}
Finished == {"joined", "answered"}
Stages   == {"idle", "received", "reopening", "queued"} \cup InBody \cup Finished

TypeOK ==
  /\ readable \in BOOLEAN /\ index \in Indexes /\ changes \in Nat
  /\ allow_reindex \in BOOLEAN /\ session \in Sessions /\ poisoned \in BOOLEAN
  /\ holder \in Calls \cup {None} /\ thread \in Calls \cup {None}
  /\ tool \in [Calls -> ToolKinds] /\ stage \in [Calls -> Stages]
  /\ result \in [Calls -> Results \cup {None}]
  /\ \A c \in Calls : stage[c] \in Finished <=> result[c] # None
  /\ suspect \in BOOLEAN /\ panicked \in BOOLEAN /\ steady \subseteq Calls

-----------------------------------------------------------------------------
(* The session.                                                            *)

Openable == readable /\ index = "ready"

\* Session::open, which needs the configuration: without an index that can be
\* opened the session is degraded, and a new connection may write.
Opened == IF index = "ready" THEN "writable" ELSE "not_indexed"

\* set_read_only, when the server may not reindex.
ReadOnly(s) == IF s = "writable" /\ ~allow_reindex THEN "read_only" ELSE s

\* run: the session is opened before anything is served.
Init ==
  /\ readable = TRUE /\ index \in Indexes /\ changes = 0
  /\ allow_reindex \in BOOLEAN
  /\ session = ReadOnly(Opened)
  /\ poisoned = FALSE /\ holder = None /\ thread = None
  /\ tool \in [Calls -> ToolKinds]
  /\ stage = [c \in Calls |-> "idle"] /\ result = [c \in Calls |-> None]
  /\ suspect = FALSE /\ panicked = FALSE /\ steady = {}

To(c, s) == stage' = [stage EXCEPT ![c] = s]

Finish(c, r) == To(c, "joined") /\ result' = [result EXCEPT ![c] = r]

-----------------------------------------------------------------------------
(* The runtime's thread.                                                   *)

\* The next message is read and its handler spawned.
Receive(c) ==
  /\ thread = None /\ stage[c] = "idle"
  /\ To(c, "received")
  /\ steady' = IF Openable THEN steady \cup {c} ELSE steady
  /\ UNCHANGED <<project, server, tool, result, suspect, panicked>>

\* call_tool: a tool that is switched off is unknown.
Reject(c) ==
  /\ thread = None /\ stage[c] = "received"
  /\ tool[c] = "reindex" /\ ~allow_reindex
  /\ Finish(c, "method_not_found")
  /\ UNCHANGED <<project, server, tool, history>>

\* call_tool enters reopen_if_not_indexed, on the runtime's thread.
Dispatch(c) ==
  /\ thread = None /\ stage[c] = "received"
  /\ ~(tool[c] = "reindex" /\ ~allow_reindex)
  /\ thread' = c
  /\ To(c, "reopening")
  /\ UNCHANGED <<project, allow_reindex, session, poisoned, holder, tool, result, history>>

\* Faulty variant: the new connection is used as it comes.
ReopenWritable(c) ==
  /\ IF session = "not_indexed" /\ Openable
     THEN session' = Opened /\ suspect' = FALSE
     ELSE UNCHANGED <<session, suspect>>
  /\ thread' = None
  /\ To(c, "queued")
  /\ UNCHANGED <<project, allow_reindex, poisoned, holder, tool, result, panicked, steady>>

\* The mutex is taken, poisoned or not, and a degraded session is opened again;
\* then the body is handed to the pool.
ReopenIfNotIndexed(c) ==
  /\ IF session = "not_indexed" /\ Openable
     THEN session' = ReadOnly(Opened) /\ suspect' = FALSE
     ELSE UNCHANGED <<session, suspect>>
  /\ thread' = None
  /\ To(c, "queued")
  /\ UNCHANGED <<project, allow_reindex, poisoned, holder, tool, result, panicked, steady>>

\* Faulty variant: the lock is only tried, so that the thread does not wait.
ReopenTry(c) ==
  /\ thread = c
  /\ \/ holder = None /\ ReopenIfNotIndexed(c)
     \/ /\ holder # None
        /\ thread' = None
        /\ To(c, "queued")
        /\ UNCHANGED <<project, allow_reindex, session, poisoned, holder, tool, result, history>>

Reopen(c) ==
  /\ thread = c /\ holder = None
  /\ ReopenIfNotIndexed(c)

Reply(c) ==
  /\ thread = None /\ stage[c] = "joined"
  /\ To(c, "answered")
  /\ UNCHANGED <<project, server, tool, result, history>>

Runtime(c) == Reject(c) \/ Dispatch(c) \/ Reopen(c) \/ Reply(c)

-----------------------------------------------------------------------------
(* A thread of the pool.                                                   *)

\* lock_session finds the mutex free and clean.
Lock(c) ==
  /\ stage[c] = "queued" /\ holder = None /\ ~poisoned
  /\ holder' = c
  /\ To(c, "running")
  /\ UNCHANGED <<project, allow_reindex, session, poisoned, thread, tool, result, history>>

\* Faulty variant: the session is taken out of the poisoned mutex and trusted.
LockTrusting(c) ==
  /\ stage[c] = "queued" /\ holder = None /\ poisoned
  /\ readable
  /\ poisoned' = FALSE
  /\ holder' = c
  /\ To(c, "running")
  /\ UNCHANGED <<project, allow_reindex, session, thread, tool, result, history>>

\* It finds it poisoned and opens the session again.
LockRecovers(c) ==
  /\ stage[c] = "queued" /\ holder = None /\ poisoned
  /\ readable
  /\ session' = Opened /\ suspect' = FALSE
  /\ poisoned' = FALSE
  /\ holder' = c
  /\ To(c, "running")
  /\ UNCHANGED <<project, allow_reindex, thread, tool, result, panicked, steady>>

\* It cannot: the call fails and the mutex stays poisoned.
LockFails(c) ==
  /\ stage[c] = "queued" /\ holder = None /\ poisoned
  /\ ~readable
  /\ Finish(c, "error")
  /\ UNCHANGED <<project, server, tool, history>>

\* The body of a query ends; without an index most of them fail.
Query(c) ==
  /\ stage[c] = "running" /\ tool[c] = "query"
  /\ \E r \in {"ok", "error"} : Finish(c, r)
  /\ holder' = None
  /\ UNCHANGED <<project, allow_reindex, session, poisoned, thread, tool, history>>

\* query::reindex, over a connection of its own.
Reindex(c) ==
  /\ stage[c] = "running" /\ tool[c] = "reindex"
  /\ readable /\ index # "busy"
  /\ index' = "ready"
  /\ To(c, "reindexed")
  /\ UNCHANGED <<readable, changes, server, tool, result, history>>

\* It fails, before or after setup_index made the database.
ReindexFails(c) ==
  /\ stage[c] = "running" /\ tool[c] = "reindex"
  /\ index' \in {index} \cup {i \in {"ready"} : readable /\ index = "absent"}
  /\ Finish(c, "error")
  /\ holder' = None
  /\ UNCHANGED <<readable, changes, allow_reindex, session, poisoned, thread, tool, history>>

\* The session is opened again so that it sees the new index.
ReopenReindexed(c) ==
  /\ stage[c] = "reindexed"
  /\ IF readable
     THEN session' = Opened /\ suspect' = FALSE /\ Finish(c, "ok")
     ELSE UNCHANGED <<session, suspect>> /\ Finish(c, "error")
  /\ holder' = None
  /\ UNCHANGED <<project, allow_reindex, poisoned, thread, tool, panicked, steady>>

\* Faulty variant: nobody answers for the body that panicked.
PanicUnanswered(c) ==
  /\ stage[c] \in InBody
  /\ poisoned' = TRUE /\ suspect' = TRUE /\ panicked' = TRUE
  /\ holder' = None
  /\ To(c, "reopening")
  /\ UNCHANGED <<project, allow_reindex, session, thread, tool, result, steady>>

\* The body panics: the guard is dropped, the mutex poisoned, and blocking
\* answers with an error.
Panic(c) ==
  /\ stage[c] \in InBody
  /\ poisoned' = TRUE /\ suspect' = TRUE /\ panicked' = TRUE
  /\ holder' = None
  /\ Finish(c, "panic")
  /\ UNCHANGED <<project, allow_reindex, session, thread, tool, steady>>

Pool(c) ==
  \/ Lock(c) \/ LockRecovers(c) \/ LockFails(c)
  \/ Query(c) \/ Reindex(c) \/ ReindexFails(c) \/ ReopenReindexed(c) \/ Panic(c)

-----------------------------------------------------------------------------

\* Others index the project, delete the index, hold the database, or edit the
\* configuration.
Change ==
  /\ changes < MaxChanges
  /\ changes' = changes + 1
  /\ readable' \in BOOLEAN /\ index' \in Indexes
  /\ steady' = IF readable' /\ index' = "ready" THEN steady ELSE {}
  /\ UNCHANGED <<server, calls, suspect, panicked>>

Next == Change \/ \E c \in Calls : Receive(c) \/ Runtime(c) \/ Pool(c)

Spec == Init /\ [][Next]_vars

\* The runtime's thread and each thread of the pool go on when they can.
FairSpec == Spec /\ WF_vars(\E c \in Calls : Runtime(c)) /\ \A c \in Calls : WF_vars(Pool(c))

-----------------------------------------------------------------------------
(* Properties.                                                             *)

\* "recovery reopens it from disk rather than trusting it": no body runs on
\* the session that an earlier body panicked on, whichever of the two places
\* that open sessions came in between.
NoBodyOnSuspect == holder # None => ~suspect

\* A server that may not reindex holds a connection that cannot write; this
\* survives every reopening of a degraded session.  (It does not survive a
\* panic: lock_session leaves the new connection as it comes.)
ReadOnlyUntilPanic == ~allow_reindex /\ ~panicked => session # "writable"

\* "a later index is picked up without restarting the server": a call that
\* came when there was an index, and there was one ever since, does not run on
\* a degraded session, whatever the other calls do meanwhile.
LaterIndexPickedUp == holder \in steady => session # "not_indexed"

\* Every call is answered, although bodies panic and the mutex is not fair.
EveryCallAnswered == \A c \in Calls : stage[c] = "received" ~> stage[c] = "answered"

=============================================================================
