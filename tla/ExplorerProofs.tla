---------------------------- MODULE ExplorerProofs ----------------------------
(***************************************************************************)
(* The explorer for any index, any queries and any back stack: the walk    *)
(* starts at the selected row, every cursor is on its list, and a screen   *)
(* that waits for a key has nothing left to load.                          *)
(***************************************************************************)
EXTENDS Explorer, TLAPS

(* The walk starts at the selection in every phase, not only at a key.       *)
Walking ==
  IF results = <<>> THEN current = None /\ back = <<>>
  ELSE /\ sel <= Len(results)
       /\ current # None
       /\ results[sel] = IF back = <<>> THEN current ELSE back[1]

(* What refresh has done when it comes to a query.  A loaded panel is the    *)
(* current symbol's.                                                         *)
Settling ==
  /\ phase \in {"detail", "rels", "impact", "key"} => ~search_dirty
  /\ phase = "rels" => PendingDetail
  /\ phase \in {"impact", "key"} => ~PendingDetail
  /\ phase = "key" => ~PendingImpact
  /\ Loaded => current # None /\ detail \in Details /\ detail.of = current

IInv == TypeOK /\ Walking /\ SelectionOnList /\ Settling

(* What a bounded sequence is. *)
LEMMA BoundedSeqIs ==
  ASSUME NEW S, NEW n \in Nat, NEW x
  PROVE  x \in BoundedSeq(S, n) <=> x \in Seq(S) /\ Len(x) <= n
<1>1. ASSUME x \in BoundedSeq(S, n) PROVE x \in Seq(S) /\ Len(x) <= n
  <2>1. PICK m \in 0 .. n : x \in [1 .. m -> S]
    BY <1>1 DEF BoundedSeq, SeqOf
  <2> QED
    BY <2>1
<1>2. ASSUME x \in Seq(S), Len(x) <= n PROVE x \in BoundedSeq(S, n)
  <2>1. Len(x) \in 0 .. n /\ x \in [1 .. Len(x) -> S]
    BY <1>2
  <2> QED
    BY <2>1 DEF BoundedSeq, SeqOf
<1> QED
  BY <1>1, <1>2

(* A list is a sequence of at most two symbols, none of them None. *)
LEMMA ListIs ==
  ASSUME NEW x \in Lists
  PROVE  /\ x \in Seq(Symbols) /\ Len(x) \in 0 .. 2 /\ x # None
         /\ x = <<>> <=> Len(x) = 0
         /\ \A i \in 1 .. Len(x) : x[i] \in Symbols /\ x[i] # None
<1>1. x \in Seq(Symbols) /\ Len(x) <= 2
  BY BoundedSeqIs DEF Lists
<1>2. x # None /\ None \notin Symbols
  BY ConstantsAssumption
<1>3. x = <<>> <=> Len(x) = 0
  BY <1>1
<1>4. \A i \in 1 .. Len(x) : x[i] \in Symbols
  BY <1>1
<1>5. Len(x) \in Nat
  BY <1>1
<1>6. Len(x) \in 0 .. 2
  <2> DEFINE n == Len(x)
  <2>1. n \in Nat /\ n <= 2
    BY <1>1, <1>5
  <2> HIDE DEF n
  <2>2. n \in 0 .. 2
    BY <2>1
  <2> QED
    BY <2>2 DEF n
<1> QED
  BY <1>1, <1>2, <1>3, <1>4, <1>6

(* Nothing is a list, a walk and a query. *)
LEMMA EmptyIs == <<>> \in Lists /\ <<>> \in BoundedSeq(Symbols, MaxBack) /\ <<>> \in Queries
<1>1. MaxQuery \in Nat /\ MaxBack \in Nat /\ 2 \in Nat
  BY ConstantsAssumption
<1>2. ASSUME NEW S, NEW n \in Nat PROVE <<>> \in BoundedSeq(S, n)
  <2>1. <<>> \in Seq(S) /\ Len(<<>>) <= n
    OBVIOUS
  <2> QED
    BY <2>1, BoundedSeqIs
<1> QED
  BY <1>1, <1>2 DEF Lists, Queries

(* What the database answers is a list. *)
LEMMA IndexIs ==
  ASSUME TypeOK
  PROVE  /\ \A q \in Queries : index.found[q] \in Lists
         /\ \A s \in Symbols : index.refs[s] \in Lists /\ index.reach[s] \in Lists
<1>1. index \in IndexType
  BY ConstantsAssumption DEF TypeOK
<1> QED
  BY <1>1 DEF IndexType

(* A loaded panel is a record of its own shape. *)
LEMMA DetailIs ==
  ASSUME NEW d \in Details
  PROVE  d # Unloaded /\ d.of \in Symbols /\ d.rels \in Lists /\ d.impact \in Lists \cup {None}
  BY DEF Details, Unloaded

(* What is shown is a list. *)
LEMMA ShownIs == TypeOK => Shown \in Lists
  BY DetailIs, EmptyIs DEF TypeOK, Shown, Loaded

(* A step of a cursor stays within the two rows there are room for. *)
LEMMA StepIs ==
  ASSUME NEW n \in 0 .. 2, NEW i \in 1 .. 2, NEW down \in BOOLEAN
  PROVE  /\ Step(n, i, down) \in 1 .. 2
         /\ i <= n \/ i = 1 => Step(n, i, down) <= n \/ Step(n, i, down) = 1
  BY DEF Step

(* At the start nothing is shown. *)
LEMMA InitHolds == Init => IInv
<1> SUFFICES ASSUME Init PROVE IInv
  OBVIOUS
<1>1. TypeOK
  <2>1. message \in BOOLEAN /\ search_dirty \in BOOLEAN
    <3>1. message = FALSE /\ search_dirty = FALSE
      BY Zenon DEF Init
    <3> QED
      BY <3>1, Zenon
  <2>2. 0 \in 0 .. MaxReindex
    BY ConstantsAssumption
  <2> QED
    BY <2>1, <2>2, EmptyIs DEF Init, TypeOK, Phases
<1>2. Walking /\ SelectionOnList
  BY DEF Init, Walking, SelectionOnList
<1>3. Settling
  BY DEF Init, Settling, Loaded
<1> QED
  BY <1>1, <1>2, <1>3 DEF IInv

(* The rows are replaced, and the walk with them. *)
LEMMA SearchKeeps ==
  ASSUME IInv, Search
  PROVE  IInv'
<1>1. CASE ~search_dirty
  <2>1. phase' = "detail" /\ UNCHANGED <<index, app, reindexes>>
    BY <1>1 DEF Search
  <2> QED
    BY <1>1, <2>1 DEF IInv, TypeOK, Walking, SelectionOnList, Settling, Shown, Loaded, Phases, app
<1>2. CASE search_dirty
  <2>1. PICK rows \in Lists : SetResults(rows)
    BY <1>2, EmptyIs, IndexIs DEF Search, IInv, TypeOK
  <2>2. /\ phase' = "detail" /\ UNCHANGED <<index, query, reindexes>>
        /\ results' = rows /\ sel' = 1 /\ back' = <<>> /\ detail' = Unloaded
        /\ rel_sel' = 1 /\ pane' = "rels"
        /\ current' = (IF rows = <<>> THEN None ELSE rows[1])
        /\ focus' \in {"search", "results", "rels"}
    BY <1>2, <2>1 DEF Search, SetResults, ResetDetail, IInv, TypeOK
  <2>3. /\ Len(rows) \in 0 .. 2 /\ (rows = <<>> <=> Len(rows) = 0)
        /\ \A i \in 1 .. Len(rows) : rows[i] \in Symbols /\ rows[i] # None
    BY ListIs
  <2>4. message' \in BOOLEAN /\ search_dirty' = FALSE
    <3>1. message' = message \/ message' = TRUE
      BY <1>2, Zenon DEF Search
    <3>2. search_dirty' = FALSE
      BY <2>1, Zenon DEF SetResults
    <3> QED
      BY <3>1, <3>2, Zenon DEF IInv, TypeOK
  <2>5. TypeOK'
    <3>1. current' \in Symbols \cup {None}
      BY <2>2, <2>3
    <3>2. search_dirty' \in BOOLEAN
      BY <2>4
    <3> QED
      BY <2>2, <2>4, <3>1, <3>2, EmptyIs DEF IInv, TypeOK, Phases
  <2>6. Walking'
    BY <2>2, <2>3 DEF Walking
  <2>7. SelectionOnList'
    BY <2>2 DEF SelectionOnList
  <2>8. Settling'
    BY <2>2, <2>4 DEF Settling, Loaded
  <2> QED
    BY <2>5, <2>6, <2>7, <2>8 DEF IInv
<1> QED
  BY <1>1, <1>2

(* Whatever panel is loaded, it is the current symbol's, and begins at its    *)
(* first row.                                                                 *)
LEMMA SetDetailKeeps ==
  ASSUME IInv, PendingDetail, phase' = "impact", ~search_dirty, message' \in BOOLEAN,
         UNCHANGED <<index, reindexes, query, results, sel, focus, current, back, pane, search_dirty>>,
         NEW rels \in Lists, SetDetail(rels)
  PROVE  IInv'
<1>1. /\ current \in Symbols /\ rel_sel' = 1
      /\ detail' = [of |-> current, rels |-> rels, impact |-> None]
  BY DEF IInv, TypeOK, PendingDetail, SetDetail
<1>2. detail' \in Details /\ detail'.of = current /\ detail' # Unloaded
  BY <1>1, DetailIs DEF Details
<1>3. TypeOK'
  BY <1>1, <1>2 DEF IInv, TypeOK, Phases
<1>4. Walking' /\ SelectionOnList'
  BY <1>1 DEF IInv, Walking, SelectionOnList
<1>5. Settling'
  BY <1>2, Zenon DEF IInv, Settling, Loaded, PendingDetail
<1> QED
  BY <1>3, <1>4, <1>5 DEF IInv

(* A symbol that is not there leaves an empty panel. *)
LEMMA LoadSymbolKeeps ==
  ASSUME IInv, LoadSymbol
  PROVE  IInv'
<1>1. ~search_dirty
  BY DEF IInv, Settling, LoadSymbol
<1>2. CASE PendingDetail /\ DetailFails
  <2>1. message' \in BOOLEAN
    <3>1. message' = TRUE
      BY <1>2, Zenon DEF DetailFails
    <3> QED
      BY <3>1, Zenon
  <2>2. CASE phase' = "impact" /\ UNCHANGED <<query, results, sel, focus, current, back, pane, search_dirty>>
    BY <1>1, <1>2, <2>1, <2>2, EmptyIs, SetDetailKeeps DEF LoadSymbol, DetailFails
  <2>3. CASE UNCHANGED app
    BY <1>2, <2>3 DEF DetailFails, SetDetail, PendingDetail, Loaded, Details, app, Unloaded
  <2> QED
    BY <2>2, <2>3 DEF LoadSymbol
<1>3. CASE UNCHANGED app /\ phase' \in {"impact", "rels"} /\ (phase' = "rels" <=> PendingDetail)
  BY <1>1, <1>3 DEF IInv, TypeOK, Walking, SelectionOnList, Settling, Shown, Loaded, PendingDetail,
     Phases, app, LoadSymbol
<1> QED
  BY <1>2, <1>3 DEF LoadSymbol

(* The panel is the current symbol's. *)
LEMMA LoadReferencesKeeps ==
  ASSUME IInv, LoadReferences
  PROVE  IInv'
<1>1. PendingDetail /\ ~search_dirty /\ current \in Symbols
  BY DEF IInv, TypeOK, Settling, LoadReferences, PendingDetail
<1>2. PICK rels \in Lists : SetDetail(rels)
  BY <1>1, EmptyIs, IndexIs DEF LoadReferences, DetailFails, IInv
<1>3. message' \in BOOLEAN
  <2>1. message' = message \/ message' = TRUE
    BY Zenon DEF LoadReferences, DetailFails
  <2> QED
    BY <2>1, Zenon DEF IInv, TypeOK
<1> QED
  BY <1>1, <1>2, <1>3, SetDetailKeeps DEF LoadReferences

(* The impact list replaces one that showed nothing. *)
LEMMA LoadImpactKeeps ==
  ASSUME IInv, LoadImpact
  PROVE  IInv'
<1>1. /\ phase = "impact" /\ phase' = "key" /\ ~search_dirty /\ ~PendingDetail
      /\ UNCHANGED <<index, reindexes, query, results, sel, focus, current, rel_sel, back, pane,
                     search_dirty>>
  BY DEF IInv, Settling, LoadImpact
<1>2. CASE ~PendingImpact
  BY <1>1, <1>2 DEF LoadImpact, IInv, TypeOK, Walking, SelectionOnList, Settling, Shown, Loaded,
     PendingDetail, PendingImpact, Phases
<1>3. CASE PendingImpact
  <2>1. PICK list \in Lists : detail' = [detail EXCEPT !.impact = list]
    BY <1>3, EmptyIs, IndexIs DEF LoadImpact, PendingImpact, IInv, TypeOK
  <2>2. detail \in Details /\ detail.of = current /\ pane = "impact" /\ detail.impact = None
    BY <1>3 DEF PendingImpact, IInv, Settling
  <2>3. /\ detail' \in Details /\ detail'.of = current /\ detail'.impact = list
        /\ detail' # Unloaded /\ list # None
    <3>1. detail' \in Details /\ detail'.of = current /\ detail'.impact = list
      BY <2>1, <2>2 DEF Details
    <3> QED
      BY <3>1, DetailIs, ListIs
  <2>4. message' \in BOOLEAN
    <3>1. message' = message \/ message' = TRUE
      BY <1>3, Zenon DEF LoadImpact
    <3> QED
      BY <3>1, Zenon DEF IInv, TypeOK
  <2>5. TypeOK'
    BY <1>1, <2>3, <2>4 DEF IInv, TypeOK, Phases
  <2>6. Walking'
    BY <1>1 DEF IInv, Walking
  <2>7. SelectionOnList'
    <3>1. Shown = <<>> /\ Len(<<>>) = 0
      BY <2>2 DEF Shown
    <3>2. rel_sel = 1
      BY <3>1 DEF IInv, TypeOK, SelectionOnList
    <3> QED
      BY <1>1, <3>2 DEF IInv, SelectionOnList
  <2>8. Settling'
    BY <1>1, <1>3, <2>2, <2>3 DEF Settling, Loaded, PendingDetail, PendingImpact
  <2> QED
    BY <2>5, <2>6, <2>7, <2>8 DEF IInv
<1> QED
  BY <1>2, <1>3

(* A walk that begins anew shows nothing yet. *)
LEMMA ResetKeeps ==
  ASSUME IInv, Key("search"), ResetDetail, UNCHANGED <<query, results, search_dirty>>,
         sel' \in 1 .. 2, focus' \in {"search", "results", "rels"},
         current' \in Symbols \cup {None}, back' \in BoundedSeq(Symbols, MaxBack),
         sel' <= Len(results) \/ sel' = 1, Walking'
  PROVE  IInv'
<1>1. message' \in BOOLEAN
  <2>1. message' = FALSE
    BY Zenon DEF Key
  <2> QED
    BY <2>1, Zenon
<1>2. TypeOK'
  BY <1>1 DEF IInv, TypeOK, Phases, Key, ResetDetail
<1>3. SelectionOnList'
  BY DEF SelectionOnList, ResetDetail
<1>4. Settling'
  BY DEF Settling, Loaded, Key, ResetDetail
<1> QED
  BY <1>2, <1>3, <1>4 DEF IInv

(* What a key that only moves the focus, the query or the cursor leaves. *)
LEMMA QuietKeeps ==
  ASSUME IInv, Key("search") \/ Key("quit"),
         UNCHANGED <<results, sel, current, detail, back>>,
         focus' \in {"search", "results", "rels"}, query' \in Queries, search_dirty' \in BOOLEAN,
         pane' \in {"rels", "impact"}, rel_sel' \in 1 .. 2,
         rel_sel' <= Len(Shown') \/ rel_sel' = 1
  PROVE  IInv'
<1>1. message' \in BOOLEAN
  <2>1. message' = FALSE
    BY Zenon DEF Key
  <2> QED
    BY <2>1, Zenon
<1>2. TypeOK'
  BY <1>1 DEF IInv, TypeOK, Phases, Key
<1>3. Walking' /\ SelectionOnList'
  BY DEF IInv, Walking, SelectionOnList
<1>4. Settling'
  BY DEF IInv, Settling, Loaded, Key
<1> QED
  BY <1>2, <1>3, <1>4 DEF IInv

(* An ignored key. *)
LEMMA IgnoredKeeps ==
  ASSUME IInv, Key("search") \/ Key("quit"), Ignored
  PROVE  IInv'
  BY QuietKeeps DEF Ignored, IInv, TypeOK, SelectionOnList, Shown, Loaded

(* A key that moves the focus. *)
LEMMA FocusKeeps ==
  ASSUME IInv, Key("search"), NEW f \in {"search", "results", "rels"}, Focus(f)
  PROVE  IInv'
  BY QuietKeeps DEF Focus, IInv, TypeOK, SelectionOnList, Shown, Loaded

(* A query to run. *)
LEMMA TypeKeeps ==
  ASSUME IInv, NEW c \in Chars, Type(c)
  PROVE  IInv'
<1>1. query \in Seq(Chars) /\ Len(query) <= MaxQuery /\ MaxQuery \in Nat
  BY ConstantsAssumption, BoundedSeqIs DEF IInv, TypeOK, Queries
<1>2. query' \in Seq(Chars) /\ Len(query') <= MaxQuery
  BY <1>1 DEF Type
<1>3. query' \in Queries
  BY <1>1, <1>2, BoundedSeqIs DEF Queries
<1>4. search_dirty' \in BOOLEAN
  <2>1. search_dirty' = TRUE
    BY Zenon DEF Type
  <2> QED
    BY <2>1, Zenon
<1> QED
  BY <1>3, <1>4, QuietKeeps DEF Type, IInv, TypeOK, SelectionOnList, Shown, Loaded

(* A shorter query to run. *)
LEMMA EraseKeeps ==
  ASSUME IInv, Erase
  PROVE  IInv'
<1>1. query \in Seq(Chars) /\ Len(query) <= MaxQuery /\ MaxQuery \in Nat
  BY ConstantsAssumption, BoundedSeqIs DEF IInv, TypeOK, Queries
<1>2. query' \in Seq(Chars) /\ Len(query') <= MaxQuery
  BY <1>1 DEF Erase, Front
<1>3. query' \in Queries
  BY <1>1, <1>2, BoundedSeqIs DEF Queries
<1>4. search_dirty' \in BOOLEAN
  <2>1. search_dirty' = TRUE
    BY Zenon DEF Erase
  <2> QED
    BY <2>1, Zenon
<1> QED
  BY <1>3, <1>4, QuietKeeps DEF Erase, IInv, TypeOK, SelectionOnList, Shown, Loaded

(* The selection moves, and the walk begins anew. *)
LEMMA MoveResultKeeps ==
  ASSUME IInv, NEW down \in BOOLEAN, MoveResult(down)
  PROVE  IInv'
<1> DEFINE next == Step(Len(results), sel, down)
<1>1. CASE next = sel /\ current # None
  BY <1>1, IgnoredKeeps DEF MoveResult
<1>2. CASE ~(next = sel /\ current # None)
  <2>1. /\ Key("search") /\ sel' = next /\ back' = <<>> /\ ResetDetail
        /\ current' = (IF results = <<>> THEN None ELSE results[next])
        /\ UNCHANGED <<query, results, focus, search_dirty>>
    BY <1>2 DEF MoveResult
  <2>2. /\ Len(results) \in 0 .. 2 /\ (results = <<>> <=> Len(results) = 0)
        /\ \A i \in 1 .. Len(results) : results[i] \in Symbols /\ results[i] # None
    BY ListIs DEF IInv, TypeOK
  <2>3. next \in 1 .. 2 /\ (next <= Len(results) \/ next = 1)
    BY <2>2, StepIs DEF IInv, TypeOK, SelectionOnList
  <2>4. results # <<>> => next \in 1 .. Len(results)
    BY <2>2, <2>3
  <2> HIDE DEF next
  <2>5. current' \in Symbols \cup {None} /\ Walking'
    BY <2>1, <2>2, <2>4 DEF Walking
  <2> QED
    BY <2>1, <2>3, <2>5, EmptyIs, ResetKeeps DEF IInv, TypeOK
<1> QED
  BY <1>1, <1>2

(* The cursor moves on what is shown. *)
LEMMA MoveRelKeeps ==
  ASSUME IInv, NEW down \in BOOLEAN, MoveRel(down)
  PROVE  IInv'
<1>1. Len(Shown) \in 0 .. 2 /\ rel_sel \in 1 .. 2
  BY ShownIs, ListIs DEF IInv, TypeOK
<1>2. rel_sel' \in 1 .. 2 /\ (rel_sel' <= Len(Shown) \/ rel_sel' = 1)
  BY <1>1, StepIs DEF IInv, SelectionOnList, MoveRel
<1>3. Shown' = Shown
  BY DEF MoveRel, Shown, Loaded
<1> QED
  BY <1>2, <1>3, QuietKeeps DEF MoveRel, IInv, TypeOK

(* Enter or Tab moves the focus to the right. *)
LEMMA FocusRelsKeeps == ASSUME IInv, FocusRels PROVE IInv'
  BY FocusKeeps DEF FocusRels

(* The cursor starts anew on the other list. *)
LEMMA ToggleImpactKeeps == ASSUME IInv, ToggleImpact PROVE IInv'
  BY QuietKeeps DEF ToggleImpact, IInv, TypeOK

(* The walk goes on; its first symbol stays. *)
LEMMA EnterRelKeeps ==
  ASSUME IInv, EnterRel
  PROVE  IInv'
<1>1. CASE pane = "impact"
  <2>1. message' \in BOOLEAN
    <3>1. message' = TRUE
      BY <1>1, Zenon DEF EnterRel
    <3> QED
      BY <3>1, Zenon
  <2> QED
    BY <1>1, <2>1 DEF EnterRel, Ignored, IInv, TypeOK, Walking, SelectionOnList, Settling, Shown,
       Loaded, Phases
<1>2. CASE pane # "impact" /\ rel_sel \notin DOMAIN Shown
  BY <1>2, IgnoredKeeps DEF EnterRel
<1>3. CASE pane # "impact" /\ rel_sel \in DOMAIN Shown
  <2>1. /\ Key("search") /\ Len(back) < MaxBack /\ ResetDetail /\ focus' = "rels"
        /\ current' = Shown[rel_sel] /\ back' = Append(back, current)
        /\ UNCHANGED <<query, results, sel, search_dirty>>
    BY <1>3 DEF EnterRel
  <2>2. Shown \in Seq(Symbols) /\ current' \in Symbols /\ current' # None
    <3>1. Shown \in Seq(Symbols) /\ DOMAIN Shown = 1 .. Len(Shown)
      BY ShownIs, ListIs DEF IInv
    <3> QED
      BY <1>3, <2>1, <3>1, ConstantsAssumption
  <2>3. Shown # <<>> /\ Loaded
    BY <1>3 DEF Shown
  <2>4. current \in Symbols
    BY <2>3 DEF IInv, TypeOK, Settling
  <2>5. back \in Seq(Symbols) /\ MaxBack \in Nat
    BY BoundedSeqIs, ConstantsAssumption DEF IInv, TypeOK
  <2>6. /\ back' \in Seq(Symbols) /\ Len(back') <= MaxBack /\ back' # <<>>
        /\ back'[1] = IF back = <<>> THEN current ELSE back[1]
    BY <2>1, <2>4, <2>5
  <2>7. back' \in BoundedSeq(Symbols, MaxBack)
    BY <2>5, <2>6, BoundedSeqIs
  <2>8. Walking'
    <3>1. results # <<>>
      BY <2>3 DEF IInv, Walking, Settling
    <3> QED
      BY <2>1, <2>2, <2>6, <3>1 DEF IInv, Walking
  <2> QED
    BY <2>1, <2>2, <2>7, <2>8, ResetKeeps DEF IInv, TypeOK, SelectionOnList
<1> QED
  BY <1>1, <1>2, <1>3

(* The walk goes back, at most to its first symbol. *)
LEMMA GoBackKeeps ==
  ASSUME IInv, GoBack
  PROVE  IInv'
<1>1. CASE back = <<>>
  BY <1>1, FocusKeeps DEF GoBack
<1>2. CASE back # <<>>
  <2>1. /\ Key("search") /\ ResetDetail
        /\ current' = back[Len(back)] /\ back' = SubSeq(back, 1, Len(back) - 1)
        /\ UNCHANGED <<query, results, sel, focus, search_dirty>>
    BY <1>2 DEF GoBack, Last, Front
  <2>2. back \in Seq(Symbols) /\ Len(back) <= MaxBack /\ MaxBack \in Nat /\ None \notin Symbols
    BY BoundedSeqIs, ConstantsAssumption DEF IInv, TypeOK
  <2>3. Len(back) \in Nat \ {0}
    BY <1>2, <2>2
  <2>4. current' \in Symbols /\ current' # None
    BY <2>1, <2>2, <2>3
  <2> DEFINE n == Len(back) - 1
  <2>9. n \in Nat /\ n <= Len(back) /\ \A i \in 1 .. n : back[i] \in Symbols
    BY <2>2, <2>3
  <2>10. back' = [i \in 1 .. n |-> back[i]]
    BY <2>1, <2>2, <2>9
  <2>5. back' \in Seq(Symbols) /\ Len(back') = Len(back) - 1
    BY <2>9, <2>10
  <2>6. back' \in BoundedSeq(Symbols, MaxBack)
    BY <2>2, <2>3, <2>5, BoundedSeqIs
  <2>7. IF Len(back) = 1 THEN back' = <<>> /\ current' = back[1]
        ELSE back' # <<>> /\ back'[1] = back[1]
    <3>1. CASE Len(back) = 1
      <4>1. back' = <<>>
        BY <2>5, <3>1
      <4> QED
        BY <2>1, <3>1, <4>1
    <3>2. CASE Len(back) # 1
      <4>1. 1 \in 1 .. n /\ Len(back') # 0
        BY <2>3, <2>5, <3>2
      <4>2. back'[1] = back[1]
        BY <2>10, <4>1
      <4> QED
        BY <3>2, <4>1, <4>2
    <3> QED
      BY <3>1, <3>2
  <2>8. Walking'
    BY <1>2, <2>1, <2>4, <2>7 DEF IInv, Walking
  <2> QED
    BY <2>1, <2>4, <2>6, <2>8, ResetKeeps DEF IInv, TypeOK, SelectionOnList
<1> QED
  BY <1>1, <1>2

(* Only the index changes. *)
LEMMA ReindexKeeps == ASSUME IInv, Reindex PROVE IInv'
  BY ConstantsAssumption DEF IInv, TypeOK, Walking, SelectionOnList, Settling, Reindex, app, Shown,
     Loaded, PendingDetail, PendingImpact, Phases

(* Every step keeps the invariant. *)
LEMMA Inductive == IInv /\ [Next]_vars => IInv'
<1> SUFFICES ASSUME IInv, [Next]_vars PROVE IInv'
  OBVIOUS
<1>1. CASE Refresh
  BY <1>1, SearchKeeps, LoadSymbolKeeps, LoadReferencesKeeps, LoadImpactKeeps DEF Refresh
<1>2. CASE OnKey
  BY <1>2, IgnoredKeeps, FocusKeeps, TypeKeeps, EraseKeeps, MoveResultKeeps, MoveRelKeeps,
     FocusRelsKeeps, ToggleImpactKeeps, EnterRelKeeps, GoBackKeeps
  DEF OnKey, Quit, LeaveSearch, EnterSearch, FocusResults
<1>3. CASE Reindex
  BY <1>3, ReindexKeeps
<1>4. CASE UNCHANGED vars
  BY <1>4 DEF IInv, TypeOK, Walking, SelectionOnList, Settling, vars, app, Shown, Loaded,
     PendingDetail, PendingImpact
<1> QED
  BY <1>1, <1>2, <1>3, <1>4 DEF Next

(* The inductive invariant holds of every run of the explorer. *)
THEOREM ExplorerInvariance == Spec => []IInv
  BY InitHolds, Inductive, PTL DEF Spec

(* Every variable keeps its type, whatever is typed and reindexed. *)
THEOREM ExplorerTypeCorrect == Spec => []TypeOK
<1>1. IInv => TypeOK
  BY DEF IInv
<1> QED
  BY <1>1, ExplorerInvariance, PTL

(* Esc steps back to the row selected on the left and never to a symbol of an *)
(* earlier query (set_results, navigate_to, back).                            *)
THEOREM WalkStartsAtSelectionHolds == Spec => []WalkStartsAtSelection
<1>1. IInv => WalkStartsAtSelection
  BY DEF IInv, Walking, WalkStartsAtSelection
<1> QED
  BY <1>1, ExplorerInvariance, PTL

(* No cursor is beyond the list it belongs to (set_results, toggle_impact,    *)
(* refresh).                                                                  *)
THEOREM SelectionOnListHolds == Spec => []SelectionOnList
<1>1. IInv => SelectionOnList
  BY DEF IInv
<1> QED
  BY <1>1, ExplorerInvariance, PTL

(* When the screen waits for a key there is nothing left to load, and what is *)
(* loaded is about the current symbol (refresh).                              *)
THEOREM PanelSettledHolds == Spec => []PanelSettled
<1>1. IInv => PanelSettled
  BY DEF IInv, Settling, PanelSettled
<1> QED
  BY <1>1, ExplorerInvariance, PTL
=============================================================================
