------------------------------ MODULE Queries -------------------------------
(***************************************************************************)
(* Reading an index that another process keeps current: codekurve_get_     *)
(* symbol with its live source, and a listing (references, callers,        *)
(* unresolved, routes) paged through by its client.  An answer is put      *)
(* together from several SQL statements and file reads; nothing holds them *)
(* to one snapshot, so commits and edits fall between any two of them.     *)
(*                                                                         *)
(* One symbol of one file: its stored span is known by the text it was     *)
(* taken from.  A listing's rows are numbers, in rowid order.              *)
(***************************************************************************)
EXTENDS Integers, Sequences, FiniteSets

CONSTANTS
    Texts,      \* contents the file may have
    Size,       \* their lengths in bytes; the symbol ends with its file
    MaxBytes,   \* [index] max_file_size_bytes
    Rows,       \* rows a listing may hold
    Limits,     \* page sizes a client may ask for
    MaxPasses,  \* bound: index passes of the other process
    MaxEdits,   \* bound: changes of the file
    MaxFaults,  \* bound: statements that fail
    NoText        \* no text: the file is not there, or not indexed

ASSUME QueryConstants ==
    /\ Size \in [Texts -> Nat] /\ MaxBytes \in Nat
    /\ Rows \subseteq Nat /\ IsFiniteSet(Rows)
    /\ Limits \subseteq Nat \ {0}
    /\ MaxPasses \in Nat /\ MaxEdits \in Nat /\ MaxFaults \in Nat
    /\ NoText \notin Texts

VARIABLES
    disk,      \* the file's text
    db,        \* the index: the file's text, the rows, homonyms, the mark
    pass,      \* the other process's pass: the text it will commit
    call,      \* the call being served
    listing,   \* the client's listing: page size, what it has collected
    moved,     \* history: a commit since the listing began, or since the
               \* symbol was read and before its file's hash was
    unchecked, \* history: the stored hash could not be read
    budget     \* what is left of passes, edits and faults

others == <<disk, db, pass>>
queriesVars == <<disk, db, pass, call, listing, moved, unchecked, budget>>

Idle == [at |-> "idle"]
NotListing == [on |-> FALSE, limit |-> 0, got |-> <<>>, done |-> FALSE, named |-> FALSE]

QueriesInit ==
    /\ disk \in Texts
    /\ \E rows \in SUBSET Rows : db = [text |-> disk, rows |-> rows, homonyms |-> 1, pending |-> FALSE]
    /\ pass = [on |-> FALSE, text |-> NoText]
    /\ call = Idle /\ listing = NotListing
    /\ moved = FALSE /\ unchecked = FALSE
    /\ budget = [passes |-> MaxPasses, edits |-> MaxEdits, faults |-> MaxFaults]

Spend(what) ==
    /\ budget[what] > 0
    /\ budget' = [budget EXCEPT ![what] = @ - 1]

-----------------------------------------------------------------------------
(* The others: an editor, and a process whose pass marks the index pending,  *)
(* then replaces the file's row, its spans and the listing in one commit.    *)

Edit(text) ==
    /\ Spend("edits") /\ text # disk
    /\ disk' = text
    /\ UNCHANGED <<db, pass, call, listing, moved, unchecked>>

MarkPending ==
    /\ ~pass.on /\ disk # db.text
    /\ Spend("passes")
    /\ pass' = [on |-> TRUE, text |-> disk]
    /\ db' = [db EXCEPT !.pending = TRUE]
    /\ UNCHANGED <<disk, call, listing, moved, unchecked>>

CommitPass(rows, homonyms) ==
    /\ pass.on
    /\ db' = [text |-> pass.text, rows |-> rows, homonyms |-> homonyms, pending |-> FALSE]
    /\ pass' = [on |-> FALSE, text |-> NoText]
    /\ moved' = (moved \/ call.at \notin {"stat", "read", "answered"})
    /\ UNCHANGED <<disk, call, listing, unchecked, budget>>

-----------------------------------------------------------------------------
(* codekurve_get_symbol: the row, the warnings, the stored hash, the file.  *)

Answered(source, stale, reason) ==
    [at |-> "answered", source |-> source, stale |-> stale, reason |-> reason]
Refused(reason) == Answered([span |-> NoText, text |-> NoText], TRUE, reason)

GetSymbol ==
    /\ call.at = "idle" /\ ~listing.on
    /\ call' = IF db.text = NoText THEN Refused("no_symbol")
               ELSE [at |-> "warnings", span |-> db.text]
    /\ listing' = NotListing
    /\ moved' = FALSE /\ unchecked' = FALSE
    /\ UNCHANGED <<others, budget>>

(* Session::warnings: a statement that fails is no warning. *)
ReadWarnings ==
    /\ call.at = "warnings"
    /\ call' = [at |-> "hash", span |-> call.span, pending |-> db.pending]
    /\ UNCHANGED <<others, listing, moved, unchecked, budget>>

WarningsFail ==
    /\ call.at = "warnings" /\ Spend("faults")
    /\ call' = [at |-> "hash", span |-> call.span, pending |-> FALSE]
    /\ UNCHANGED <<others, listing, moved, unchecked>>

Slicing(at, hash) ==
    [at |-> at, span |-> call.span, pending |-> call.pending, hash |-> hash]

(* indexed_file_hash: the row's hash; no row, and a failed lookup, is NoText. *)
IndexedFileHash ==
    /\ call.at = "hash"
    /\ call' = Slicing("stat", db.text)
    /\ UNCHANGED <<others, listing, moved, unchecked, budget>>

IndexedFileHashFails ==
    /\ call.at = "hash" /\ Spend("faults")
    /\ call' = Slicing("stat", NoText)
    /\ unchecked' = TRUE
    /\ UNCHANGED <<others, listing, moved>>

(* source_slice: the size first, then the bytes, in two calls. *)
StatFile ==
    /\ call.at = "stat"
    /\ call' = CASE disk = NoText -> Refused("file_missing")
                 [] disk # NoText /\ Size[disk] > MaxBytes -> Refused("file_too_large")
                 [] OTHER -> Slicing("read", call.hash)
    /\ UNCHANGED <<others, listing, moved, unchecked, budget>>

(* The stored hash against the bytes read (mutant: sizes are compared). *)
FileChangedBySize == call.hash # NoText /\ Size[call.hash] # Size[disk]
FileChanged == call.hash # NoText /\ call.hash # disk

ReadFile ==
    /\ call.at = "read"
    /\ call' = CASE disk = NoText -> Refused("file_missing")
                 [] disk # NoText /\ FileChanged -> Refused("file_changed")
                 [] disk # NoText /\ ~FileChanged /\ Size[call.span] > Size[disk] ->
                       Refused("span_out_of_range")
                 [] OTHER -> Answered([span |-> call.span, text |-> disk], call.pending, "")
    /\ UNCHANGED <<others, listing, moved, unchecked, budget>>

TakeAnswer ==
    /\ call.at = "answered" /\ ~listing.on
    /\ call' = Idle
    /\ UNCHANGED <<others, listing, moved, unchecked, budget>>

-----------------------------------------------------------------------------
(* A listing: the client asks for page after page while told there is more. *)

StartListing(limit, named) ==
    /\ call.at = "idle" /\ ~listing.on
    /\ listing' = [on |-> TRUE, limit |-> limit, got |-> <<>>, done |-> FALSE, named |-> named]
    /\ call' = [at |-> "resolve"]
    /\ moved' = FALSE
    /\ UNCHANGED <<others, unchecked, budget>>

Offset == Len(listing.got)
(* ORDER BY the rowid. *)
Ascending(rows) ==
    CHOOSE s \in [1..Cardinality(rows) -> rows] : \A i, j \in DOMAIN s : i < j => s[i] < s[j]

Ordered == Ascending(db.rows)
Window == SubSeq(Ordered, Offset + 1, IF Len(Ordered) < Offset + listing.limit
                                      THEN Len(Ordered) ELSE Offset + listing.limit)

EndListing(done) ==
    /\ listing' = [listing EXCEPT !.on = FALSE, !.done = done]
    /\ call' = Idle

(* resolve_symbol: an id is taken as it is; a name must have one bearer. *)
ResolveSymbol ==
    /\ call.at = "resolve"
    /\ IF listing.named /\ db.homonyms # 1
       THEN EndListing(FALSE)
       ELSE call' = [at |-> "rows"] /\ UNCHANGED listing
    /\ UNCHANGED <<others, moved, unchecked, budget>>

(* fetch_page: a first page short of its limit is its own total (mutant: a   *)
(* first page that is just full as well).                                    *)
PageCompleteWhenFull(rows) == Offset = 0 /\ Len(rows) <= listing.limit
PageComplete(rows) == Offset = 0 /\ Len(rows) < listing.limit

FetchRows ==
    /\ call.at = "rows"
    /\ call' = IF PageComplete(Window)
               THEN [at |-> "page", rows |-> Window, total |-> Len(Window)]
               ELSE [at |-> "count", rows |-> Window]
    /\ UNCHANGED <<others, listing, moved, unchecked, budget>>

CountRows ==
    /\ call.at = "count"
    /\ call' = [at |-> "page", rows |-> call.rows, total |-> Cardinality(db.rows)]
    /\ UNCHANGED <<others, listing, moved, unchecked, budget>>

StatementFails ==
    /\ call.at \in {"resolve", "rows", "count"} /\ Spend("faults")
    /\ EndListing(FALSE)
    /\ UNCHANGED <<others, moved, unchecked>>

(* page_of: rows remain past this page (mutant: or this page ends the list). *)
TruncatedToo == call.total >= Offset + Len(call.rows)
Truncated == call.total > Offset + Len(call.rows)

TakePage ==
    /\ call.at = "page"
    /\ IF Truncated
       THEN /\ listing' = [listing EXCEPT !.got = @ \o call.rows]
            /\ call' = [at |-> "resolve"]
       ELSE /\ listing' = [listing EXCEPT !.got = @ \o call.rows, !.on = FALSE, !.done = TRUE]
            /\ call' = Idle
    /\ UNCHANGED <<others, moved, unchecked, budget>>

-----------------------------------------------------------------------------
Others ==
    \/ \E text \in Texts \union {NoText} : Edit(text)
    \/ MarkPending
    \/ \E rows \in SUBSET Rows, homonyms \in 1..2 : CommitPass(rows, homonyms)

Serving ==
    \/ ReadWarnings \/ WarningsFail
    \/ IndexedFileHash \/ IndexedFileHashFails
    \/ StatFile \/ ReadFile \/ TakeAnswer
    \/ ResolveSymbol \/ FetchRows \/ CountRows \/ StatementFails \/ TakePage

Client ==
    \/ GetSymbol
    \/ \E limit \in Limits, named \in BOOLEAN : StartListing(limit, named)

QueriesNext == Others \/ Serving \/ Client

(* A call that is being served goes on; nobody else needs to do anything. *)
QueriesSpec == QueriesInit /\ [][QueriesNext]_queriesVars /\ WF_queriesVars(Serving)

-----------------------------------------------------------------------------
(* The source an answer carries is the symbol's own text, however disk and   *)
(* index moved under the call: a span is never laid over another text, but   *)
(* for a commit between reading the row and its file's hash, or a hash that  *)
(* could not be read.                                                        *)
SliceIsOwn ==
    call.at = "answered" /\ call.reason = "" =>
        moved \/ unchecked \/ call.source.text = call.source.span

(* A listing that ran to its end with no commit meanwhile has each row once, *)
(* in order, whatever the page size.                                         *)
PagesTile == listing.done /\ ~moved => listing.got = Ordered

(* A client that asks for more while told there is more comes to an end,     *)
(* also when commits shrink or grow the listing under it.                    *)
ListingEnds == listing.on ~> ~listing.on
=============================================================================
