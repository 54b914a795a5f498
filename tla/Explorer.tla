------------------------------ MODULE Explorer ------------------------------
(***************************************************************************)
(* codekurve tui: the explorer's state machine and its event loop          *)
(* (crates/codekurve-tui/src/explorer.rs).  A key changes the state, then  *)
(* refresh loads what the state now asks for, query by query, from an      *)
(* index that another process may replace between any two of them.         *)
(***************************************************************************)
EXTENDS Naturals, Sequences, SequencesExt

CONSTANTS
  Symbols,       \* symbol ids
  None,          \* no symbol; no impact list loaded
  Chars,         \* what can be typed; "q", "/" and "i" are also commands
  Indexes,       \* what the database may hold, see IndexType
  MaxQuery, MaxBack, MaxReindex   \* bounds

Queries   == BoundedSeq(Chars, MaxQuery)
Lists     == BoundedSeq(Symbols, 2)
\* found: search; refs: the sources of the references to a symbol; reach: impact.
IndexType == [symbols : SUBSET Symbols, found : [Queries -> Lists],
              refs : [Symbols -> Lists], reach : [Symbols -> Lists]]
ASSUME ConstantsAssumption ==
  /\ None \notin Symbols /\ None \notin Lists /\ {"q", "/", "i"} \subseteq Chars
  /\ \A x \in Indexes : x \in IndexType
  /\ MaxQuery \in Nat /\ MaxBack \in Nat /\ MaxReindex \in Nat

VARIABLES
  index,       \* the database, as the next query will find it
  query, results, sel, focus, current, detail, rel_sel, back, pane,  \* Explorer
  message,     \* the last refresh failed
  search_dirty,
  phase,       \* how far the event loop is: what it does next
  reindexes    \* how often the index was replaced

app  == <<query, results, sel, focus, current, detail, rel_sel, back, pane, message, search_dirty>>
vars == <<index, app, phase, reindexes>>

\* of is history: the symbol whose rows these are.
Details == [of : Symbols, rels : Lists, impact : Lists \cup {None}]
Unloaded == [none |-> TRUE]
Phases  == {"search", "detail", "rels", "impact", "key", "quit"}

TypeOK ==
  /\ index \in Indexes
  /\ query \in Queries /\ results \in Lists /\ sel \in 1 .. 2
  /\ focus \in {"search", "results", "rels"} /\ pane \in {"rels", "impact"}
  /\ current \in Symbols \cup {None} /\ detail \in Details \cup {Unloaded}
  /\ rel_sel \in 1 .. 2 /\ back \in BoundedSeq(Symbols, MaxBack)
  /\ message \in BOOLEAN /\ search_dirty \in BOOLEAN
  /\ phase \in Phases /\ reindexes \in 0 .. MaxReindex

Init ==
  /\ index \in Indexes
  /\ query = <<>> /\ results = <<>> /\ sel = 1 /\ focus = "search"
  /\ current = None /\ detail = Unloaded /\ rel_sel = 1 /\ back = <<>> /\ pane = "rels"
  /\ message = FALSE /\ search_dirty = FALSE
  /\ phase = "search" /\ reindexes = 0

Loaded == detail # Unloaded
PendingDetail == current # None /\ ~Loaded
PendingImpact == pane = "impact" /\ current # None /\ Loaded /\ detail.impact = None

\* The list on the right (rel_len).
Shown ==
  IF ~Loaded THEN <<>>
  ELSE IF pane = "rels" THEN detail.rels
  ELSE IF detail.impact = None THEN <<>> ELSE detail.impact

\* lib.rs step, over rows numbered from 1; an empty list keeps its first row.
Step(len, i, down) ==
  IF down THEN (IF i < len THEN i + 1 ELSE IF len = 0 THEN 1 ELSE len)
  ELSE IF i > 1 THEN i - 1 ELSE 1

-----------------------------------------------------------------------------
(* refresh                                                                 *)

ResetDetail == detail' = Unloaded /\ rel_sel' = 1 /\ pane' = "rels"

\* Mutant: the walk of the previous query is kept.
SetResultsKeepWalk(rows) ==
  /\ current' = IF rows = <<>> THEN None ELSE rows[1]
  /\ results' = rows /\ sel' = 1 /\ ResetDetail /\ search_dirty' = FALSE
  /\ focus' = IF focus = "rels" THEN "results" ELSE focus
  /\ UNCHANGED back
SetResults(rows) ==
  /\ current' = IF rows = <<>> THEN None ELSE rows[1]
  /\ results' = rows /\ sel' = 1 /\ back' = <<>> /\ ResetDetail /\ search_dirty' = FALSE
  /\ focus' = IF focus = "rels" THEN "results" ELSE focus

\* A query may fail (the index is locked, or gone).
Search ==
  /\ phase = "search" /\ phase' = "detail"
  /\ IF ~search_dirty THEN UNCHANGED app
     ELSE /\ \/ SetResults(IF query = <<>> THEN <<>> ELSE index.found[query])
                /\ UNCHANGED message
             \/ query # <<>> /\ SetResults(<<>>) /\ message' = TRUE
          /\ UNCHANGED query
  /\ UNCHANGED <<index, reindexes>>

SetDetail(rels) ==
  detail' = [of |-> current, rels |-> rels, impact |-> None] /\ rel_sel' = 1

\* Detail::default stands in for what could not be loaded.
\* Mutant: the panel stays unloaded.
DetailFailsUnloaded == message' = TRUE /\ UNCHANGED <<detail, rel_sel>>
DetailFails == SetDetail(<<>>) /\ message' = TRUE

\* load_detail: the symbol, then its references.
LoadSymbol ==
  /\ phase = "detail"
  /\ \/ ~PendingDetail /\ phase' = "impact" /\ UNCHANGED app
     \/ PendingDetail /\ current \in index.symbols /\ phase' = "rels" /\ UNCHANGED app
     \/ /\ PendingDetail /\ DetailFails /\ phase' = "impact"
        /\ UNCHANGED <<query, results, sel, focus, current, back, pane, search_dirty>>
  /\ UNCHANGED <<index, reindexes>>
LoadReferences ==
  /\ phase = "rels" /\ phase' = "impact"
  /\ \/ current \in index.symbols /\ SetDetail(index.refs[current]) /\ UNCHANGED message
     \/ DetailFails
  /\ UNCHANGED <<index, reindexes, query, results, sel, focus, current, back, pane, search_dirty>>

LoadImpact ==
  /\ phase = "impact" /\ phase' = "key"
  /\ IF ~PendingImpact THEN UNCHANGED <<detail, message>>
     ELSE \/ current \in index.symbols
             /\ detail' = [detail EXCEPT !.impact = index.reach[current]] /\ UNCHANGED message
          \/ detail' = [detail EXCEPT !.impact = <<>>] /\ message' = TRUE
  /\ UNCHANGED <<index, reindexes, query, results, sel, focus, current, rel_sel, back, pane,
                 search_dirty>>

-----------------------------------------------------------------------------
(* on_key                                                                  *)

Key(leaves) ==
  /\ phase = "key" /\ message' = FALSE /\ phase' = leaves
  /\ UNCHANGED <<index, reindexes>>
Focus(f) ==
  /\ focus' = f
  /\ UNCHANGED <<query, results, sel, current, detail, rel_sel, back, pane, search_dirty>>
Ignored == UNCHANGED <<query, results, sel, focus, current, detail, rel_sel, back, pane, search_dirty>>

\* q and Ctrl-C.
Quit == Key("quit") /\ Ignored

Type(c) ==
  /\ focus = "search" /\ Len(query) < MaxQuery /\ Key("search")
  /\ query' = Append(query, c) /\ search_dirty' = TRUE
  /\ UNCHANGED <<results, sel, focus, current, detail, rel_sel, back, pane>>
Erase ==
  /\ focus = "search" /\ Key("search")
  /\ query' = (IF query = <<>> THEN <<>> ELSE Front(query)) /\ search_dirty' = TRUE
  /\ UNCHANGED <<results, sel, focus, current, detail, rel_sel, back, pane>>
LeaveSearch == focus = "search" /\ Key("search") /\ Focus("results")
EnterSearch == focus # "search" /\ Key("search") /\ Focus("search")

MoveResult(down) ==
  LET next == Step(Len(results), sel, down)
  IN /\ focus \in {"search", "results"} /\ Key("search")
     /\ IF next = sel /\ current # None THEN Ignored
        ELSE /\ sel' = next /\ current' = (IF results = <<>> THEN None ELSE results[next])
             /\ back' = <<>> /\ ResetDetail
             /\ UNCHANGED <<query, results, focus, search_dirty>>

\* Enter, Tab and Right, from the search box or the results.
FocusRels ==
  /\ focus \in {"search", "results"} /\ Key("search")
  /\ Focus(IF Shown = <<>> THEN "results" ELSE "rels")
FocusResults == focus = "rels" /\ Key("search") /\ Focus("results")

\* Mutant: the cursor stays where it was in the other list.
ToggleImpactInPlace ==
  /\ focus # "search" /\ Key("search")
  /\ pane' = (IF pane = "rels" THEN "impact" ELSE "rels")
  /\ UNCHANGED <<query, results, sel, focus, current, detail, rel_sel, back, search_dirty>>
ToggleImpact ==
  /\ focus # "search" /\ Key("search")
  /\ pane' = (IF pane = "rels" THEN "impact" ELSE "rels") /\ rel_sel' = 1
  /\ UNCHANGED <<query, results, sel, focus, current, detail, back, search_dirty>>

MoveRel(down) ==
  /\ focus = "rels" /\ Key("search")
  /\ rel_sel' = Step(Len(Shown), rel_sel, down)
  /\ UNCHANGED <<query, results, sel, focus, current, detail, back, pane, search_dirty>>

\* enter_rel and navigate_to; impact rows are read-only.
EnterRel ==
  /\ focus = "rels"
  /\ IF pane = "impact"
     THEN phase = "key" /\ phase' = "search" /\ message' = TRUE /\ Ignored /\ UNCHANGED <<index, reindexes>>
     ELSE IF rel_sel \notin DOMAIN Shown THEN Key("search") /\ Ignored
     ELSE /\ Key("search") /\ Len(back) < MaxBack
          /\ current' = Shown[rel_sel] /\ back' = Append(back, current)
          /\ ResetDetail /\ focus' = "rels"
          /\ UNCHANGED <<query, results, sel, search_dirty>>

\* Esc or Backspace outside the search box.
GoBack ==
  /\ focus # "search" /\ Key("search")
  /\ IF back = <<>> THEN Focus("search")
     ELSE /\ current' = Last(back) /\ back' = Front(back) /\ ResetDetail
          /\ UNCHANGED <<query, results, sel, focus, search_dirty>>

-----------------------------------------------------------------------------
\* Another process indexes the project.
Reindex ==
  /\ reindexes < MaxReindex /\ phase # "quit"
  /\ reindexes' = reindexes + 1
  /\ index' \in Indexes \ {index}
  /\ UNCHANGED <<app, phase>>

Refresh == Search \/ LoadSymbol \/ LoadReferences \/ LoadImpact
OnKey ==
  \/ Quit \/ \E c \in Chars : Type(c)
  \/ Erase \/ LeaveSearch \/ EnterSearch
  \/ \E down \in BOOLEAN : MoveResult(down) \/ MoveRel(down)
  \/ FocusRels \/ FocusResults \/ ToggleImpact \/ EnterRel \/ GoBack
Next == Refresh \/ OnKey \/ Reindex

Spec == Init /\ [][Next]_vars

-----------------------------------------------------------------------------
(* Correctness.                                                            *)

\* The walk on the right started at the row selected on the left, whatever was
\* typed, moved or reindexed since: stepping back with Esc ends there and never
\* in a symbol of an earlier query ("its entries belong to the previous query
\* and Esc jumping into them would land on a symbol the user can no longer
\* see", set_results).
WalkStartsAtSelection ==
  phase = "key" =>
    IF results = <<>> THEN current = None /\ back = <<>>
    ELSE results[sel] = IF back = <<>> THEN current ELSE back[1]

\* A selection is always a row of the list it belongs to, although lists are
\* replaced by shorter ones and one cursor serves two of them.
SelectionOnList ==
  /\ sel <= Len(results) \/ sel = 1
  /\ rel_sel <= Len(Shown) \/ rel_sel = 1

\* When the screen waits for a key everything it asked for is there, failed or
\* not, and is about the current symbol: nothing is left for the next refresh to
\* load again ("never a retry loop", refresh).
PanelSettled ==
  phase = "key" =>
    /\ ~search_dirty /\ ~PendingDetail /\ ~PendingImpact
    /\ Loaded => detail.of = current
=============================================================================
