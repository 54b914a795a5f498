---------------------------- MODULE ServingProofs ----------------------------
(***************************************************************************)
(* What the MCP server promises its client.  Of the server itself, for any *)
(* number of calls and of changes by others: McpServer's invariants.  Of   *)
(* what a call reads, for every set of texts, any sizes, rows and page     *)
(* sizes and any number of passes, edits and faults: SliceIsOwn and        *)
(* PagesTile of Queries.                                                   *)
(*                                                                         *)
(* Until a commit intervenes the span in hand is that of the indexed text, *)
(* so a stored hash that equals the bytes read is the hash of the very text *)
(* the span was taken from; and what a listing has collected is the first  *)
(* rows of the one order, so its next page begins where the last one ended. *)
(***************************************************************************)
EXTENDS McpServer, Queries, FiniteSetTheorems, SequenceTheorems, WellFoundedInduction, TLAPS

(* A symbol's source. *)

Sought == {"warnings", "hash"}
Found == {"stat", "read"}

(* The strengthening: what is known of the span at each stage of the call.  *)
SpanInv ==
    /\ call.at \in Sought \union Found => call.span # NoText
    /\ call.at \in Sought => moved \/ db.text = call.span
    /\ call.at \in Found => moved \/ unchecked \/ call.hash = call.span
    /\ SliceIsOwn

(* No call is being served at the start. *)
LEMMA InitSpan == QueriesInit => SpanInv
  BY DEF QueriesInit, SpanInv, Idle, SliceIsOwn, Sought, Found

(* The other process and the editor: only a commit touches the indexed text, *)
(* and a commit while the span is sought is remembered.                      *)
LEMMA OthersSpan == SpanInv /\ Others => SpanInv'
<1> SUFFICES ASSUME SpanInv, Others PROVE SpanInv'
  OBVIOUS
<1>1. ASSUME NEW text \in Texts \union {NoText}, Edit(text) PROVE SpanInv'
  BY <1>1 DEF SpanInv, Edit, SliceIsOwn
<1>2. CASE MarkPending
  <2>1. db'.text = db.text /\ UNCHANGED <<call, moved, unchecked>>
    BY <1>2 DEF MarkPending
  <2> QED
    BY <2>1 DEF SpanInv, SliceIsOwn
<1>3. ASSUME NEW rows \in SUBSET Rows, NEW homonyms \in 1..2, CommitPass(rows, homonyms)
      PROVE SpanInv'
  BY <1>3 DEF SpanInv, CommitPass, SliceIsOwn, Sought, Found
<1> QED
  BY <1>1, <1>2, <1>3 DEF Others

(* Serving get_symbol: one step per stage. *)
LEMMA SymbolSpan ==
    ASSUME SpanInv,
           ReadWarnings \/ WarningsFail \/ IndexedFileHash \/ IndexedFileHashFails
             \/ StatFile \/ ReadFile
    PROVE  SpanInv'
<1>1. CASE ReadWarnings
  BY <1>1 DEF SpanInv, ReadWarnings, SliceIsOwn, Sought, Found, others
<1>2. CASE WarningsFail
  BY <1>2 DEF SpanInv, WarningsFail, SliceIsOwn, Sought, Found, others
<1>3. CASE IndexedFileHash
  BY <1>3 DEF SpanInv, IndexedFileHash, Slicing, SliceIsOwn, Sought, Found, others
<1>4. CASE IndexedFileHashFails
  BY <1>4 DEF SpanInv, IndexedFileHashFails, Slicing, SliceIsOwn, Sought, Found, others
<1>5. CASE StatFile
  BY <1>5 DEF SpanInv, StatFile, Slicing, Refused, Answered, SliceIsOwn, Sought, Found, others
<1>6. CASE ReadFile
  BY <1>6 DEF SpanInv, ReadFile, FileChanged, Refused, Answered, SliceIsOwn, Sought, Found, others
<1> QED
  BY <1>1, <1>2, <1>3, <1>4, <1>5, <1>6

LEMMA NoSpanInHand ==
    ASSUME call'.at \notin Sought \union Found \union {"answered"}
    PROVE  SpanInv'
  BY Zenon DEF SpanInv, SliceIsOwn

(* The client's own steps and a listing's: no span is in hand. *)
LEMMA ListingSpan ==
    ASSUME SpanInv,
           TakeAnswer \/ ResolveSymbol \/ FetchRows \/ CountRows \/ StatementFails \/ TakePage
             \/ Client
    PROVE  SpanInv'
<1>1. CASE TakeAnswer
  BY <1>1 DEF SpanInv, TakeAnswer, Idle, SliceIsOwn, Sought, Found, others
<1>2. CASE ResolveSymbol
  <2>1. call' = Idle \/ call' = [at |-> "rows"]
    BY <1>2, Zenon DEF ResolveSymbol, EndListing
  <2>2. call'.at \notin Sought \union Found \union {"answered"}
    BY <2>1 DEF Idle, Sought, Found
  <2> QED
    BY <2>2, NoSpanInHand
<1>3. CASE FetchRows
  BY <1>3 DEF SpanInv, FetchRows, SliceIsOwn, Sought, Found, others
<1>4. CASE CountRows
  BY <1>4 DEF SpanInv, CountRows, SliceIsOwn, Sought, Found, others
<1>5. CASE StatementFails
  <2>1. call' = Idle
    BY <1>5, Zenon DEF StatementFails, EndListing
  <2>2. call'.at \notin Sought \union Found \union {"answered"}
    BY <2>1 DEF Idle, Sought, Found
  <2> QED
    BY <2>2, NoSpanInHand
<1>6. CASE TakePage
  <2>1. call' = Idle \/ call' = [at |-> "resolve"]
    BY <1>6, Zenon DEF TakePage
  <2>2. call'.at \notin Sought \union Found \union {"answered"}
    BY <2>1 DEF Idle, Sought, Found
  <2> QED
    BY <2>2, NoSpanInHand
<1>7. CASE Client
  <2>1. CASE GetSymbol
    BY <2>1 DEF SpanInv, GetSymbol, Refused, Answered, SliceIsOwn, Sought, Found, others
  <2>2. ASSUME NEW limit \in Limits, NEW named \in BOOLEAN, StartListing(limit, named)
        PROVE  SpanInv'
    BY <2>2 DEF SpanInv, StartListing, SliceIsOwn, Sought, Found, others
  <2> QED
    BY <1>7, <2>1, <2>2 DEF Client
<1> QED
  BY <1>1, <1>2, <1>3, <1>4, <1>5, <1>6, <1>7

(* A source is only ever handed out under its own span, whatever the others  *)
(* do to the file and the index, but in the window SliceIsOwn names.         *)
THEOREM SliceIsOwnHolds == QueriesSpec => []SliceIsOwn
<1>1. SpanInv /\ [QueriesNext]_queriesVars => SpanInv'
  <2> SUFFICES ASSUME SpanInv, [QueriesNext]_queriesVars PROVE SpanInv'
    OBVIOUS
  <2>1. CASE Others
    BY <2>1, OthersSpan
  <2>2. CASE Serving
    BY <2>2, SymbolSpan, ListingSpan DEF Serving
  <2>3. CASE Client
    BY <2>3, ListingSpan
  <2>4. CASE UNCHANGED queriesVars
    BY <2>4 DEF SpanInv, SliceIsOwn, queriesVars
  <2> QED
    BY <2>1, <2>2, <2>3, <2>4 DEF QueriesNext
<1>2. SpanInv => SliceIsOwn
  BY DEF SpanInv
<1> QED
  BY InitSpan, <1>1, <1>2, PTL DEF QueriesSpec
-----------------------------------------------------------------------------
(* The order of the rows. *)

(* Every non-empty set of numbers has a least one. *)
LEMMA LeastNumber ==
  ASSUME NEW T, T \subseteq Nat, T # {}
  PROVE  \E n \in T : \A m \in T : n <= m
<1>1. PICK n \in T : \A m \in T : <<m, n>> \notin OpToRel(<, Nat)
  BY NatLessThanWellFounded, WFMin
<1>2. \A m \in T : ~(m < n)
  BY <1>1 DEF OpToRel
<1> QED
  BY <1>2

(* A finite set of numbers can be listed in ascending order, each once. *)
IsAscending(s, S) ==
  s \in [1..Cardinality(S) -> S] /\ \A i, j \in 1..Cardinality(S) : i < j => s[i] < s[j]

LEMMA CanBeSorted ==
  ASSUME NEW S, S \subseteq Nat, IsFiniteSet(S)
  PROVE  \E s : IsAscending(s, S)
<1> DEFINE Sets(n) == {T \in SUBSET Nat : IsFiniteSet(T) /\ Cardinality(T) = n}
           Unsorted == {n \in Nat : \E T \in Sets(n) : \A s : ~IsAscending(s, T)}
<1>1. SUFFICES ASSUME Unsorted # {} PROVE FALSE
  <2>1. Cardinality(S) \in Nat
    BY FS_CardinalityType
  <2> QED
    BY <2>1
<1>2. PICK n \in Unsorted : \A m \in Unsorted : n <= m
  <2>1. Unsorted \subseteq Nat
    OBVIOUS
  <2> HIDE DEF Unsorted
  <2> QED
    BY <1>1, <2>1, LeastNumber
<1>3. PICK T \in Sets(n) : \A s : ~IsAscending(s, T)
  OBVIOUS
<1>0. T \subseteq Nat /\ IsFiniteSet(T) /\ Cardinality(T) = n /\ n \in Nat
  OBVIOUS
<1>4. CASE T = {}
  <2>1. Cardinality(T) = 0
    BY <1>4, FS_EmptySet
  <2>2. 1..Cardinality(T) = {}
    BY <2>1
  <2>3. IsAscending([i \in 1..Cardinality(T) |-> i], T)
    BY <2>2 DEF IsAscending
  <2> QED
    BY <2>3, <1>3
<1>5. CASE T # {}
  <2>1. PICK least \in T : \A m \in T : least <= m
    BY <1>5, LeastNumber
  <2> DEFINE R == T \ {least}
  <2>2. IsFiniteSet(R) /\ Cardinality(R) = n - 1 /\ n - 1 \in Nat
    <3>1. IsFiniteSet(R) /\ Cardinality(R) = n - 1
      BY <1>0, <2>1, FS_RemoveElement
    <3>2. Cardinality(R) \in Nat
      BY <3>1, FS_CardinalityType
    <3> QED
      BY <3>1, <3>2
  <2>3. R \in Sets(n - 1)
    BY <2>2
  <2>4. PICK t : IsAscending(t, R)
    <3>1. n - 1 \notin Unsorted
      BY <1>2, <2>2
    <3> QED
      BY <2>2, <2>3, <3>1
  <2>5. t \in [1..(n - 1) -> R] /\ \A i, j \in 1..(n - 1) : i < j => t[i] < t[j]
    BY <2>2, <2>4 DEF IsAscending
  <2> HIDE DEF Unsorted
  <2> DEFINE s == [i \in 1..n |-> IF i = 1 THEN least ELSE t[i - 1]]
  <2>6. n \in Nat /\ T \subseteq Nat /\ Cardinality(T) = n
    BY <1>0
  <2>7. ASSUME NEW i \in 1..n, i # 1 PROVE i - 1 \in 1..(n - 1) /\ s[i] = t[i - 1] /\ s[i] \in R
    BY <2>5, <2>6, <2>7
  <2>8. s \in [1..n -> T]
    <3>1. ASSUME NEW i \in 1..n PROVE s[i] \in T
      BY <2>7, <2>1
    <3> QED
      BY <3>1
  <2>9. ASSUME NEW i \in 1..n, NEW j \in 1..n, i < j PROVE s[i] < s[j]
    <3>1. j # 1 /\ j \in Nat /\ i \in Nat
      BY <2>6, <2>9
    <3>2. s[j] = t[j - 1] /\ s[j] \in R /\ j - 1 \in 1..(n - 1)
      BY <2>7, <3>1
    <3>3. CASE i = 1
      <4>1. s[i] = least
        BY <3>3
      <4>2. s[j] \in T /\ s[j] # least
        BY <3>2
      <4>3. least <= s[j] /\ least \in Nat /\ s[j] \in Nat
        BY <4>2, <2>1, <2>6
      <4> HIDE DEF s, R
      <4> QED
        BY <4>1, <4>2, <4>3
    <3>4. CASE i # 1
      <4>1. s[i] = t[i - 1] /\ i - 1 \in 1..(n - 1)
        BY <3>4, <2>7
      <4>2. i - 1 < j - 1
        BY <2>9, <3>1
      <4> HIDE DEF s, R
      <4> QED
        BY <4>1, <4>2, <3>2, <2>5
    <3> QED
      BY <3>3, <3>4
  <2>10. IsAscending(s, T)
    <3> HIDE DEF s
    <3> QED
      BY <2>6, <2>8, <2>9 DEF IsAscending
  <2> QED
    BY <2>10, <1>3
<1> QED
  BY <1>4, <1>5

(* The order of a listing's rows: each once, ascending. *)
LEMMA AscendingRows ==
  ASSUME NEW S, S \subseteq Nat, IsFiniteSet(S)
  PROVE  IsAscending(Ascending(S), S)
<1>1. PICK s : IsAscending(s, S)
  BY CanBeSorted
<1>2. DOMAIN s = 1..Cardinality(S)
  BY <1>1 DEF IsAscending
<1>3. \E q \in [1..Cardinality(S) -> S] : \A i, j \in DOMAIN q : i < j => q[i] < q[j]
  BY <1>1, <1>2 DEF IsAscending
<1>4. /\ Ascending(S) \in [1..Cardinality(S) -> S]
      /\ \A i, j \in DOMAIN Ascending(S) : i < j => Ascending(S)[i] < Ascending(S)[j]
  BY <1>3 DEF Ascending
<1> QED
  BY <1>4 DEF IsAscending

-----------------------------------------------------------------------------
(* A listing that is being paged through has the first rows of the order, and *)
(* the page in hand is the one that comes next, unless a commit intervened.   *)
Asking == {"warnings", "hash", "stat", "read", "answered"}
Paging == {"resolve", "rows", "count", "page"}

IsListing(l) ==
    l = [on |-> l.on, limit |-> l.limit, got |-> l.got, done |-> l.done, named |-> l.named]

PageInv ==
    /\ IsListing(listing)
    /\ db.rows \subseteq Rows
    /\ listing.on <=> call.at \in Paging
    /\ call.at \in Asking => ~listing.done
    /\ listing.on => listing.limit \in Limits /\ ~listing.done
    /\ listing.on /\ ~moved =>
          /\ Offset \in 0..Len(Ordered)
          /\ listing.got = SubSeq(Ordered, 1, Offset)
    /\ call.at \in {"count", "page"} /\ ~moved => call.rows = Window
    /\ call.at = "page" /\ ~moved => call.total = Len(Ordered)
    /\ PagesTile

(* A page is cut from where the last one ended.                              *)
LEMMA NextPage ==
    ASSUME NEW X, NEW O \in Seq(X), NEW k \in 0..Len(O), NEW m \in k..Len(O)
    PROVE  /\ Len(SubSeq(O, k + 1, m)) = m - k
           /\ SubSeq(O, 1, k) \o SubSeq(O, k + 1, m) = SubSeq(O, 1, m)
           /\ Len(SubSeq(O, 1, m)) = m
<1>1. Len(O) \in Nat
  BY LenProperties
<1>2. k \in Nat /\ m \in Nat /\ k <= m /\ m <= Len(O)
  BY <1>1
<1>3. \A i \in 1..m : O[i] \in X
  <2>1. \A i \in 1..m : i \in 1..Len(O)
    BY <1>1, <1>2
  <2> QED
    BY <2>1, ElementOfSeq
<1>4. Len(SubSeq(O, k + 1, m)) = IF k + 1 <= m THEN m - (k + 1) + 1 ELSE 0
  <2>1. k + 1 \in Int /\ m \in Int /\ \A i \in k + 1..m : i \in 1..m
    BY <1>2
  <2>2. \A i \in k + 1..m : O[i] \in X
    BY <1>3, <2>1
  <2> QED
    BY <2>1, <2>2, SubSeqProperties
<1>5. Len(SubSeq(O, k + 1, m)) = m - k
  BY <1>2, <1>4
<1>6. SubSeq(O, 1, k) \o SubSeq(O, k + 1, m) = SubSeq(O, 1, m)
  <2>1. 1 \in 1..Len(O) + 1 /\ k \in (1 - 1)..Len(O) /\ m \in k..Len(O)
    BY <1>1, <1>2
  <2> QED
    BY <2>1, ConcatAdjacentSubSeq
<1>7. Len(SubSeq(O, 1, m)) = m
  <2>1. 1 \in Int /\ m \in Int
    BY <1>2
  <2>2. Len(SubSeq(O, 1, m)) = IF 1 <= m THEN m - 1 + 1 ELSE 0
    BY <2>1, <1>3, SubSeqProperties
  <2> QED
    BY <1>2, <2>2
<1> QED
  BY <1>5, <1>6, <1>7

(* The index's rows as a list.                                               *)
LEMMA RowsListed ==
    ASSUME PageInv
    PROVE  /\ Ordered \in Seq(Nat)
           /\ Len(Ordered) = Cardinality(db.rows) /\ Len(Ordered) \in Nat
           /\ Ordered = SubSeq(Ordered, 1, Len(Ordered))
<1>1. db.rows \subseteq Nat /\ IsFiniteSet(db.rows)
  BY QueryConstants, FS_Subset DEF PageInv
<1>2. Cardinality(db.rows) \in Nat
  BY <1>1, FS_CardinalityType
<1>3. Ordered \in [1..Cardinality(db.rows) -> db.rows]
  BY <1>1, AscendingRows DEF Ordered, IsAscending
<1>4. Ordered \in Seq(Nat) /\ Len(Ordered) = Cardinality(db.rows)
  BY <1>1, <1>2, <1>3
<1> QED
  BY <1>2, <1>4, SubSeqFull

(* What leaves the rows and the listing alone.                               *)
LEMMA QuietPages ==
    ASSUME PageInv, db'.rows = db.rows, UNCHANGED <<call, listing, moved>>
    PROVE  PageInv'
<1>1. UNCHANGED <<Ordered, Offset, Window>>
  BY DEF Ordered, Offset, Window
<1> QED
  BY <1>1, Zenon DEF PageInv, PagesTile

LEMMA OthersPages == PageInv /\ Others => PageInv'
<1> SUFFICES ASSUME PageInv, Others PROVE PageInv'
  OBVIOUS
<1>1. ASSUME NEW text \in Texts \union {NoText}, Edit(text) PROVE PageInv'
  BY <1>1, QuietPages DEF Edit
<1>2. CASE MarkPending
  <2>1. db'.rows = db.rows
    BY <1>2 DEF MarkPending
  <2> QED
    BY <1>2, <2>1, QuietPages DEF MarkPending
<1>3. ASSUME NEW rows \in SUBSET Rows, NEW homonyms \in 1..2, CommitPass(rows, homonyms)
      PROVE PageInv'
  <2>1. db'.rows \subseteq Rows
    BY <1>3 DEF CommitPass
  <2>2. UNCHANGED <<call, listing>>
    BY <1>3 DEF CommitPass
  <2>3. moved' \/ call.at \in Asking
    BY <1>3 DEF CommitPass, Asking
  <2>4. call.at \in Asking => ~listing.on /\ call.at \notin {"count", "page"} /\ ~listing.done
    BY DEF PageInv, Asking, Paging
  <2> QED
    BY <2>1, <2>2, <2>3, <2>4, Zenon DEF PageInv, PagesTile
<1> QED
  BY <1>1, <1>2, <1>3 DEF Others

(* While a symbol is asked for there is no listing.                          *)
LEMMA AskingPages ==
    ASSUME PageInv, call.at \in Asking, call'.at \in Asking \union {"idle"},
           UNCHANGED <<db, listing, moved>>
    PROVE  PageInv'
<1>1. ~listing'.on /\ ~listing'.done
  BY DEF PageInv, Asking, Paging
<1>2. call'.at \notin Paging
  BY DEF Asking, Paging
<1> QED
  BY <1>1, <1>2 DEF PageInv, PagesTile, Paging

LEMMA SymbolPages ==
    ASSUME PageInv,
           \/ ReadWarnings \/ WarningsFail \/ IndexedFileHash \/ IndexedFileHashFails
           \/ StatFile \/ ReadFile \/ TakeAnswer
    PROVE  PageInv'
<1>1. UNCHANGED <<db, listing, moved>>
  BY DEF ReadWarnings, WarningsFail, IndexedFileHash, IndexedFileHashFails, StatFile, ReadFile,
         TakeAnswer, others
<1>2. call.at \in Asking
  BY DEF ReadWarnings, WarningsFail, IndexedFileHash, IndexedFileHashFails, StatFile, ReadFile,
         TakeAnswer, Asking
<1>3. call'.at \in Asking \union {"idle"}
  <2>1. CASE ReadWarnings \/ WarningsFail
    BY <2>1 DEF ReadWarnings, WarningsFail, Asking
  <2>2. CASE IndexedFileHash \/ IndexedFileHashFails
    BY <2>2 DEF IndexedFileHash, IndexedFileHashFails, Slicing, Asking
  <2>3. CASE StatFile
    BY <2>3 DEF StatFile, Slicing, Refused, Answered, Asking
  <2>4. CASE ReadFile
    BY <2>4 DEF ReadFile, Refused, Answered, Asking
  <2>5. CASE TakeAnswer
    BY <2>5 DEF TakeAnswer, Idle
  <2> QED
    BY <2>1, <2>2, <2>3, <2>4, <2>5
<1> QED
  BY <1>1, <1>2, <1>3, AskingPages

LEMMA ClientPages == PageInv /\ Client => PageInv'
<1> SUFFICES ASSUME PageInv, Client PROVE PageInv'
  OBVIOUS
<1>1. CASE GetSymbol
  <2>1. call'.at \in Asking
    BY <1>1 DEF GetSymbol, Refused, Answered, Asking
  <2>2. listing' = NotListing /\ UNCHANGED db
    BY <1>1 DEF GetSymbol, others
  <2>3. ~listing'.on /\ ~listing'.done /\ IsListing(listing')
    BY <2>2 DEF NotListing, IsListing
  <2>4. call'.at \notin Paging
    BY <2>1 DEF Asking, Paging
  <2> QED
    BY <2>1, <2>2, <2>3, <2>4 DEF PageInv, PagesTile, Paging
<1>2. ASSUME NEW limit \in Limits, NEW named \in BOOLEAN, StartListing(limit, named)
      PROVE  PageInv'
  <2>1. /\ listing' = [on |-> TRUE, limit |-> limit, got |-> <<>>, done |-> FALSE, named |-> named]
        /\ call' = [at |-> "resolve"] /\ UNCHANGED db
    BY <1>2 DEF StartListing, others
  <2>2. Offset' = 0 /\ listing'.got = <<>> /\ listing'.on /\ ~listing'.done /\ listing'.limit = limit
    BY <2>1 DEF Offset
  <2>3. Ordered' = Ordered /\ IsListing(listing')
    BY <2>1 DEF Ordered, IsListing
  <2>4. Len(Ordered) \in Nat /\ SubSeq(Ordered, 1, 0) = <<>>
    BY RowsListed, SubSeqEmpty
  <2> QED
    BY <2>1, <2>2, <2>3, <2>4 DEF PageInv, PagesTile, Paging, Asking
<1> QED
  BY <1>1, <1>2 DEF Client

(* A listing that ends before its last page is not done.                     *)
LEMMA EndedPages ==
    ASSUME PageInv, EndListing(FALSE), UNCHANGED <<db, moved>>
    PROVE  PageInv'
<1>1. call'.at = "idle"
  BY DEF EndListing, Idle
<1>2. ~listing'.on /\ ~listing'.done /\ IsListing(listing')
  BY DEF EndListing, PageInv, IsListing
<1> QED
  BY <1>1, <1>2 DEF PageInv, PagesTile, Paging, Asking

LEMMA ListingPages ==
    ASSUME PageInv, ResolveSymbol \/ FetchRows \/ CountRows \/ StatementFails \/ TakePage
    PROVE  PageInv'
<1> USE DEF others
<1>0. UNCHANGED <<db, moved>>
  BY DEF ResolveSymbol, FetchRows, CountRows, StatementFails, TakePage
<1>1. Ordered' = Ordered
  BY <1>0 DEF Ordered
<1>2. CASE ResolveSymbol
  <2>1. CASE call' = [at |-> "rows"] /\ UNCHANGED listing
    <3>1. Offset' = Offset /\ call'.at = "rows" /\ listing.on
      BY <1>2, <2>1 DEF Offset, PageInv, Paging, ResolveSymbol
    <3> QED
      BY <1>0, <1>1, <2>1, <3>1 DEF PageInv, PagesTile, Paging, Asking
  <2>2. CASE EndListing(FALSE)
    BY <1>0, <2>2, EndedPages
  <2> QED
    BY <1>2, <2>1, <2>2, Zenon DEF ResolveSymbol
<1>3. CASE FetchRows
  <2>1. UNCHANGED listing /\ listing.on
    BY <1>3 DEF FetchRows, PageInv, Paging
  <2>2. Offset' = Offset /\ Window' = Window
    BY <1>1, <2>1 DEF Offset, Window
  <2>3. CASE call' = [at |-> "count", rows |-> Window]
    <3>1. call'.at = "count" /\ call'.rows = Window
      BY <2>3
    <3> QED
      BY <1>0, <1>1, <2>1, <2>2, <3>1 DEF PageInv, PagesTile, Paging, Asking
  <2>4. CASE PageComplete(Window) /\ call' = [at |-> "page", rows |-> Window, total |-> Len(Window)]
    <3>1. call'.at = "page" /\ call'.rows = Window /\ call'.total = Len(Window)
      BY <2>4
    <3>2. ASSUME ~moved PROVE Len(Window) = Len(Ordered)
      <4>1. Offset = 0 /\ Len(Window) < listing.limit
        BY <2>4 DEF PageComplete
      <4>2. listing.limit \in Nat \ {0}
        BY <2>1, QueryConstants DEF PageInv
      <4> DEFINE m == IF Len(Ordered) < 0 + listing.limit THEN Len(Ordered) ELSE 0 + listing.limit
      <4>3. Window = SubSeq(Ordered, 0 + 1, m)
        BY <4>1 DEF Window
      <4>4. Len(SubSeq(Ordered, 0 + 1, m)) = m - 0 /\ m \in 0..Len(Ordered)
        <5>1. 0 \in 0..Len(Ordered) /\ m \in 0..Len(Ordered)
          BY <4>2, RowsListed
        <5> HIDE DEF m
        <5> QED
          BY <5>1, RowsListed, NextPage
      <4>5. m < listing.limit
        BY <4>1, <4>3, <4>4
      <4> QED
        BY <4>2, <4>3, <4>4, <4>5, RowsListed
    <3> QED
      BY <1>0, <1>1, <2>1, <2>2, <3>1, <3>2 DEF PageInv, PagesTile, Paging, Asking
  <2> QED
    BY <1>3, <2>3, <2>4, Zenon DEF FetchRows
<1>4. CASE CountRows
  <2>1. UNCHANGED listing /\ listing.on
    BY <1>4 DEF CountRows, PageInv, Paging
  <2>2. Offset' = Offset /\ Window' = Window
    BY <1>1, <2>1 DEF Offset, Window
  <2>3. /\ call'.at = "page" /\ call'.rows = call.rows /\ call'.total = Cardinality(db.rows)
        /\ call.at = "count"
    BY <1>4 DEF CountRows
  <2>4. call'.total = Len(Ordered)
    BY <2>3, RowsListed
  <2> QED
    BY <1>0, <1>1, <2>1, <2>2, <2>3, <2>4 DEF PageInv, PagesTile, Paging, Asking
<1>5. CASE StatementFails
  BY <1>0, <1>5, EndedPages DEF StatementFails
<1>6. CASE TakePage
  <2>1. listing.on /\ call.at = "page" /\ listing.limit \in Limits /\ ~listing.done
    BY <1>6 DEF TakePage, PageInv, Paging
  <2>5. listing = [on |-> listing.on, limit |-> listing.limit, got |-> listing.got,
                   done |-> listing.done, named |-> listing.named]
    BY DEF PageInv, IsListing
  <2> DEFINE m == IF Len(Ordered) < Offset + listing.limit THEN Len(Ordered)
                  ELSE Offset + listing.limit
  <2>2. ASSUME ~moved
        PROVE  /\ listing.got \o call.rows = SubSeq(Ordered, 1, m)
               /\ Len(SubSeq(Ordered, 1, m)) = m /\ m \in 0..Len(Ordered)
               /\ Truncated <=> m < Len(Ordered)
    <3>1. /\ Offset \in 0..Len(Ordered) /\ listing.got = SubSeq(Ordered, 1, Offset)
          /\ call.rows = Window /\ call.total = Len(Ordered)
      BY <2>1, <2>2 DEF PageInv
    <3>2. Window = SubSeq(Ordered, Offset + 1, m)
      BY DEF Window
    <3>3. listing.limit \in Nat \ {0}
      BY <2>1, QueryConstants
    <3>4. /\ m \in Offset..Len(Ordered)
          /\ Len(SubSeq(Ordered, Offset + 1, m)) = m - Offset
          /\ SubSeq(Ordered, 1, Offset) \o SubSeq(Ordered, Offset + 1, m) = SubSeq(Ordered, 1, m)
          /\ Len(SubSeq(Ordered, 1, m)) = m
      <4>1. Ordered \in Seq(Nat) /\ Len(Ordered) \in Nat /\ Offset \in Nat
        BY <3>1, RowsListed
      <4>2. m \in Offset..Len(Ordered)
        BY <3>1, <3>3, <4>1
      <4> HIDE DEF m
      <4> QED
        BY <3>1, <4>1, <4>2, NextPage
    <3>5. Truncated <=> m < Len(Ordered)
      <4>1. Truncated <=> Len(Ordered) > Offset + (m - Offset)
        BY <3>1, <3>2, <3>4 DEF Truncated
      <4> HIDE DEF m
      <4> QED
        BY <3>1, <3>4, <4>1, RowsListed
    <3> HIDE DEF m
    <3> QED
      BY <3>1, <3>2, <3>4, <3>5
  <2>3. CASE Truncated
    <3>1. listing' = [listing EXCEPT !.got = @ \o call.rows] /\ call' = [at |-> "resolve"]
      BY <1>6, <2>3, Zenon DEF TakePage
    <3>2. /\ listing'.on /\ ~listing'.done /\ listing'.limit = listing.limit
          /\ listing'.got = listing.got \o call.rows /\ call'.at = "resolve"
      <4>1. listing'.on = listing.on /\ listing'.done = listing.done /\ listing'.limit = listing.limit
        BY <3>1
      <4>2. listing'.got = listing.got \o call.rows /\ call'.at = "resolve"
        BY <2>5, <3>1
      <4> QED
        BY <2>1, <4>1, <4>2
    <3>4. IsListing(listing')
      BY <2>5, <3>1 DEF IsListing
    <3> HIDE DEF m
    <3>3. ASSUME ~moved PROVE Offset' \in 0..Len(Ordered) /\ listing'.got = SubSeq(Ordered, 1, Offset')
      BY <3>3, <2>2, <3>2 DEF Offset
    <3> QED
      BY <1>0, <1>1, <2>1, <3>2, <3>3, <3>4 DEF PageInv, PagesTile, Paging, Asking
  <2>4. CASE ~Truncated
    <3>1. /\ listing' = [listing EXCEPT !.got = @ \o call.rows, !.on = FALSE, !.done = TRUE]
          /\ call' = Idle
      BY <1>6, <2>4, Zenon DEF TakePage
    <3>2. ~listing'.on /\ listing'.got = listing.got \o call.rows /\ call'.at = "idle"
      <4>1. ~listing'.on
        BY <3>1
      <4>2. listing'.got = listing.got \o call.rows
        BY <2>5, <3>1
      <4> QED
        BY <3>1, <4>1, <4>2 DEF Idle
    <3>4. IsListing(listing')
      BY <2>5, <3>1 DEF IsListing
    <3> HIDE DEF m
    <3>3. ASSUME ~moved PROVE listing'.got = Ordered
      <4>1. m = Len(Ordered)
        BY <2>2, <2>4, <3>3, RowsListed
      <4> QED
        BY <2>2, <3>2, <3>3, <4>1, RowsListed
    <3> QED
      BY <1>0, <1>1, <3>2, <3>3, <3>4 DEF PageInv, PagesTile, Paging, Asking
  <2> QED
    BY <2>3, <2>4
<1> QED
  BY <1>2, <1>3, <1>4, <1>5, <1>6

(* A listing that ran to its end while nothing was committed has every row   *)
(* once, in order, whatever the page size, the rows and the faults.          *)
THEOREM PagesTileHolds == QueriesSpec => []PagesTile
<1>1. QueriesInit => PageInv
  BY DEF QueriesInit, PageInv, IsListing, NotListing, Idle, PagesTile, Paging, Asking
<1>2. PageInv /\ [QueriesNext]_queriesVars => PageInv'
  <2> SUFFICES ASSUME PageInv, [QueriesNext]_queriesVars PROVE PageInv'
    OBVIOUS
  <2>1. CASE Others
    BY <2>1, OthersPages
  <2>2. CASE Serving
    BY <2>2, SymbolPages, ListingPages DEF Serving
  <2>3. CASE Client
    BY <2>3, ClientPages
  <2>4. CASE UNCHANGED queriesVars
    BY <2>4, QuietPages DEF queriesVars, others
  <2> QED
    BY <2>1, <2>2, <2>3, <2>4 DEF QueriesNext
<1>3. PageInv => PagesTile
  BY DEF PageInv
<1> QED
  BY <1>1, <1>2, <1>3, PTL DEF QueriesSpec

-----------------------------------------------------------------------------
(* The server. *)

\* The mutex is held by the one call in its body, the runtime's thread by the
\* one call that reopens, and a switched-off tool never gets that far.
Holding ==
  \A c \in Calls :
    /\ stage[c] \in InBody <=> holder = c
    /\ stage[c] = "reopening" <=> thread = c
    /\ stage[c] = "reindexed" => tool[c] = "reindex"
    /\ stage[c] \in {"reopening", "queued"} \cup InBody /\ tool[c] = "reindex" => allow_reindex

\* A panic leaves its trace in the mutex until the session is opened again,
\* and nobody holds a poisoned mutex.
Poison == /\ suspect => poisoned
          /\ poisoned => panicked /\ holder = None

\* A call past reopen_if_not_indexed has an index if it had one all the time.
PickedUp ==
  /\ steady # {} => Openable
  /\ \A c \in steady : stage[c] \in {"queued"} \cup InBody => session # "not_indexed"

IInv == TypeOK /\ Holding /\ Poison /\ ReadOnlyUntilPanic /\ PickedUp

USE DEF project, server, calls, history, Indexes, Sessions, ToolKinds, InBody, Finished,
        Stages, Results, Openable

LEMMA InitEstablishes == Init => IInv
<1> SUFFICES ASSUME Init PROVE IInv
  OBVIOUS
<1>1. session \in Sessions /\ (~allow_reindex => session # "writable")
  BY DEF Init, ReadOnly, Opened
<1>2. TypeOK
  BY <1>1 DEF Init, TypeOK
<1>3. Holding
  BY CallsAssumption DEF Init, Holding
<1> QED
  BY <1>1, <1>2, <1>3 DEF Init, IInv, Poison, ReadOnlyUntilPanic, PickedUp

\* What a step of call c that takes it to stage s does to the stages.
LEMMA Stepping ==
  ASSUME TypeOK, NEW c \in Calls, NEW s \in Stages, To(c, s)
  PROVE  /\ stage' \in [Calls -> Stages]
         /\ stage'[c] = s
         /\ \A d \in Calls \ {c} : stage'[d] = stage[d]
BY DEF TypeOK, To

LEMMA Finishing ==
  ASSUME TypeOK, NEW c \in Calls, NEW r \in Results, Finish(c, r)
  PROVE  /\ stage' \in [Calls -> Stages] /\ result' \in [Calls -> Results \cup {None}]
         /\ stage'[c] = "joined" /\ result'[c] = r
         /\ \A d \in Calls \ {c} : stage'[d] = stage[d] /\ result'[d] = result[d]
BY Stepping DEF TypeOK, Finish

LEMMA ReceiveKeeps ==
  ASSUME IInv, NEW c \in Calls, Receive(c)
  PROVE  IInv'
<1> USE DEF Receive
<1>1. /\ stage' \in [Calls -> Stages] /\ result' \in [Calls -> Results \cup {None}]
      /\ \A d \in Calls \ {c} : stage'[d] = stage[d] /\ result'[d] = result[d]
      /\ stage'[c] = "received" /\ UNCHANGED result
  BY Stepping DEF IInv, TypeOK
<1>2. TypeOK'
  BY <1>1, CallsAssumption DEF IInv, TypeOK
<1>3. Holding'
  BY <1>1, CallsAssumption DEF IInv, TypeOK, Holding
<1>4. Poison' /\ ReadOnlyUntilPanic'
  BY <1>1, CallsAssumption DEF IInv, TypeOK, Holding, Poison, ReadOnlyUntilPanic
<1>5. PickedUp'
  BY <1>1, CallsAssumption DEF IInv, TypeOK, Holding, PickedUp
<1> QED
  BY <1>2, <1>3, <1>4, <1>5 DEF IInv

LEMMA RejectKeeps ==
  ASSUME IInv, NEW c \in Calls, Reject(c)
  PROVE  IInv'
<1> USE DEF Reject
<1>1. /\ stage' \in [Calls -> Stages] /\ result' \in [Calls -> Results \cup {None}]
      /\ \A d \in Calls \ {c} : stage'[d] = stage[d] /\ result'[d] = result[d]
      /\ stage'[c] = "joined" /\ result'[c] = "method_not_found"
  BY Finishing DEF IInv, TypeOK
<1>2. TypeOK'
  BY <1>1, CallsAssumption DEF IInv, TypeOK
<1>3. Holding'
  BY <1>1, CallsAssumption DEF IInv, TypeOK, Holding
<1>4. Poison' /\ ReadOnlyUntilPanic'
  BY <1>1, CallsAssumption DEF IInv, TypeOK, Holding, Poison, ReadOnlyUntilPanic
<1>5. PickedUp'
  BY <1>1, CallsAssumption DEF IInv, TypeOK, Holding, PickedUp
<1> QED
  BY <1>2, <1>3, <1>4, <1>5 DEF IInv

LEMMA DispatchKeeps ==
  ASSUME IInv, NEW c \in Calls, Dispatch(c)
  PROVE  IInv'
<1> USE DEF Dispatch
<1>1. /\ stage' \in [Calls -> Stages] /\ result' \in [Calls -> Results \cup {None}]
      /\ \A d \in Calls \ {c} : stage'[d] = stage[d] /\ result'[d] = result[d]
      /\ stage'[c] = "reopening" /\ UNCHANGED result
  BY Stepping DEF IInv, TypeOK
<1>2. TypeOK'
  BY <1>1, CallsAssumption DEF IInv, TypeOK
<1>3. Holding'
  BY <1>1, CallsAssumption DEF IInv, TypeOK, Holding
<1>4. Poison' /\ ReadOnlyUntilPanic'
  BY <1>1, CallsAssumption DEF IInv, TypeOK, Holding, Poison, ReadOnlyUntilPanic
<1>5. PickedUp'
  BY <1>1, CallsAssumption DEF IInv, TypeOK, Holding, PickedUp
<1> QED
  BY <1>2, <1>3, <1>4, <1>5 DEF IInv

\* A degraded session is opened again, and shut for writing where it must be.
LEMMA ReopenKeeps ==
  ASSUME IInv, NEW c \in Calls, Reopen(c)
  PROVE  IInv'
<1> USE DEF Reopen, ReopenIfNotIndexed, Opened, ReadOnly
<1>1. /\ stage' \in [Calls -> Stages] /\ result' \in [Calls -> Results \cup {None}]
      /\ \A d \in Calls \ {c} : stage'[d] = stage[d] /\ result'[d] = result[d]
      /\ stage'[c] = "queued" /\ UNCHANGED result
  BY Stepping DEF IInv, TypeOK
<1>2. TypeOK'
  <2>1. session' \in Sessions /\ suspect' \in BOOLEAN
    BY DEF IInv, TypeOK
  <2>2. \A d \in Calls : stage'[d] \in {"joined", "answered"} <=> result'[d] # None
    BY <1>1, CallsAssumption DEF IInv, TypeOK, Holding
  <2> QED
    BY <1>1, <2>1, <2>2 DEF IInv, TypeOK
<1>3. Holding'
  BY <1>1, CallsAssumption DEF IInv, TypeOK, Holding
<1>4. Poison' /\ ReadOnlyUntilPanic'
  BY <1>1, CallsAssumption DEF IInv, TypeOK, Holding, Poison, ReadOnlyUntilPanic
<1>5. PickedUp'
  BY <1>1, CallsAssumption DEF IInv, TypeOK, Holding, PickedUp
<1> QED
  BY <1>2, <1>3, <1>4, <1>5 DEF IInv

LEMMA ReplyKeeps ==
  ASSUME IInv, NEW c \in Calls, Reply(c)
  PROVE  IInv'
<1> USE DEF Reply
<1>1. /\ stage' \in [Calls -> Stages] /\ result' \in [Calls -> Results \cup {None}]
      /\ \A d \in Calls \ {c} : stage'[d] = stage[d] /\ result'[d] = result[d]
      /\ stage'[c] = "answered" /\ UNCHANGED result
  BY Stepping DEF IInv, TypeOK
<1>2. TypeOK'
  BY <1>1, CallsAssumption DEF IInv, TypeOK
<1>3. Holding'
  BY <1>1, CallsAssumption DEF IInv, TypeOK, Holding
<1>4. Poison' /\ ReadOnlyUntilPanic'
  BY <1>1, CallsAssumption DEF IInv, TypeOK, Holding, Poison, ReadOnlyUntilPanic
<1>5. PickedUp'
  BY <1>1, CallsAssumption DEF IInv, TypeOK, Holding, PickedUp
<1> QED
  BY <1>2, <1>3, <1>4, <1>5 DEF IInv

LEMMA LockKeeps ==
  ASSUME IInv, NEW c \in Calls, Lock(c)
  PROVE  IInv'
<1> USE DEF Lock
<1>1. /\ stage' \in [Calls -> Stages] /\ result' \in [Calls -> Results \cup {None}]
      /\ \A d \in Calls \ {c} : stage'[d] = stage[d] /\ result'[d] = result[d]
      /\ stage'[c] = "running" /\ UNCHANGED result
  BY Stepping DEF IInv, TypeOK
<1>2. TypeOK'
  BY <1>1, CallsAssumption DEF IInv, TypeOK
<1>3. Holding'
  BY <1>1, CallsAssumption DEF IInv, TypeOK, Holding
<1>4. Poison' /\ ReadOnlyUntilPanic'
  BY <1>1, CallsAssumption DEF IInv, TypeOK, Holding, Poison, ReadOnlyUntilPanic
<1>5. PickedUp'
  BY <1>1, CallsAssumption DEF IInv, TypeOK, Holding, PickedUp
<1> QED
  BY <1>2, <1>3, <1>4, <1>5 DEF IInv

\* Only a panic leads here, so the new connection may be writable.
LEMMA LockRecoversKeeps ==
  ASSUME IInv, NEW c \in Calls, LockRecovers(c)
  PROVE  IInv'
<1> USE DEF LockRecovers, Opened
<1>1. /\ stage' \in [Calls -> Stages] /\ result' \in [Calls -> Results \cup {None}]
      /\ \A d \in Calls \ {c} : stage'[d] = stage[d] /\ result'[d] = result[d]
      /\ stage'[c] = "running" /\ UNCHANGED result
  BY Stepping DEF IInv, TypeOK
<1>2. TypeOK'
  BY <1>1, CallsAssumption DEF IInv, TypeOK
<1>3. Holding'
  BY <1>1, CallsAssumption DEF IInv, TypeOK, Holding
<1>4. Poison' /\ ReadOnlyUntilPanic'
  BY <1>1, CallsAssumption DEF IInv, TypeOK, Holding, Poison, ReadOnlyUntilPanic
<1>5. PickedUp'
  BY <1>1, CallsAssumption DEF IInv, TypeOK, Holding, PickedUp
<1> QED
  BY <1>2, <1>3, <1>4, <1>5 DEF IInv

LEMMA LockFailsKeeps ==
  ASSUME IInv, NEW c \in Calls, LockFails(c)
  PROVE  IInv'
<1> USE DEF LockFails
<1>1. /\ stage' \in [Calls -> Stages] /\ result' \in [Calls -> Results \cup {None}]
      /\ \A d \in Calls \ {c} : stage'[d] = stage[d] /\ result'[d] = result[d]
      /\ stage'[c] = "joined" /\ result'[c] = "error"
  BY Finishing DEF IInv, TypeOK
<1>2. TypeOK'
  BY <1>1, CallsAssumption DEF IInv, TypeOK
<1>3. Holding'
  BY <1>1, CallsAssumption DEF IInv, TypeOK, Holding
<1>4. Poison' /\ ReadOnlyUntilPanic'
  BY <1>1, CallsAssumption DEF IInv, TypeOK, Holding, Poison, ReadOnlyUntilPanic
<1>5. PickedUp'
  BY <1>1, CallsAssumption DEF IInv, TypeOK, Holding, PickedUp
<1> QED
  BY <1>2, <1>3, <1>4, <1>5 DEF IInv

LEMMA QueryKeeps ==
  ASSUME IInv, NEW c \in Calls, Query(c)
  PROVE  IInv'
<1> USE DEF Query
<1>1. /\ stage' \in [Calls -> Stages] /\ result' \in [Calls -> Results \cup {None}]
      /\ \A d \in Calls \ {c} : stage'[d] = stage[d] /\ result'[d] = result[d]
      /\ stage'[c] = "joined" /\ result'[c] \in {"ok", "error"}
  BY Finishing DEF IInv, TypeOK
<1>2. TypeOK'
  BY <1>1, CallsAssumption DEF IInv, TypeOK
<1>3. Holding'
  BY <1>1, CallsAssumption DEF IInv, TypeOK, Holding
<1>4. Poison' /\ ReadOnlyUntilPanic'
  BY <1>1, CallsAssumption DEF IInv, TypeOK, Holding, Poison, ReadOnlyUntilPanic
<1>5. PickedUp'
  BY <1>1, CallsAssumption DEF IInv, TypeOK, Holding, PickedUp
<1> QED
  BY <1>2, <1>3, <1>4, <1>5 DEF IInv

LEMMA ReindexKeeps ==
  ASSUME IInv, NEW c \in Calls, Reindex(c)
  PROVE  IInv'
<1> USE DEF Reindex
<1>1. /\ stage' \in [Calls -> Stages] /\ result' \in [Calls -> Results \cup {None}]
      /\ \A d \in Calls \ {c} : stage'[d] = stage[d] /\ result'[d] = result[d]
      /\ stage'[c] = "reindexed" /\ UNCHANGED result
  BY Stepping DEF IInv, TypeOK
<1>2. TypeOK'
  BY <1>1, CallsAssumption DEF IInv, TypeOK
<1>3. Holding'
  BY <1>1, CallsAssumption DEF IInv, TypeOK, Holding
<1>4. Poison' /\ ReadOnlyUntilPanic'
  BY <1>1, CallsAssumption DEF IInv, TypeOK, Holding, Poison, ReadOnlyUntilPanic
<1>5. PickedUp'
  BY <1>1, CallsAssumption DEF IInv, TypeOK, Holding, PickedUp
<1> QED
  BY <1>2, <1>3, <1>4, <1>5 DEF IInv

LEMMA ReindexFailsKeeps ==
  ASSUME IInv, NEW c \in Calls, ReindexFails(c)
  PROVE  IInv'
<1> USE DEF ReindexFails
<1>1. /\ stage' \in [Calls -> Stages] /\ result' \in [Calls -> Results \cup {None}]
      /\ \A d \in Calls \ {c} : stage'[d] = stage[d] /\ result'[d] = result[d]
      /\ stage'[c] = "joined" /\ result'[c] = "error"
  BY Finishing DEF IInv, TypeOK
<1>2. TypeOK'
  BY <1>1, CallsAssumption DEF IInv, TypeOK
<1>3. Holding'
  BY <1>1, CallsAssumption DEF IInv, TypeOK, Holding
<1>4. Poison' /\ ReadOnlyUntilPanic'
  BY <1>1, CallsAssumption DEF IInv, TypeOK, Holding, Poison, ReadOnlyUntilPanic
<1>5. PickedUp'
  BY <1>1, CallsAssumption DEF IInv, TypeOK, Holding, PickedUp
<1> QED
  BY <1>2, <1>3, <1>4, <1>5 DEF IInv

\* Only a server that may reindex gets here, so it too.
LEMMA ReopenReindexedKeeps ==
  ASSUME IInv, NEW c \in Calls, ReopenReindexed(c)
  PROVE  IInv'
<1> USE DEF ReopenReindexed, Opened
<1>1. /\ stage' \in [Calls -> Stages] /\ result' \in [Calls -> Results \cup {None}]
      /\ \A d \in Calls \ {c} : stage'[d] = stage[d] /\ result'[d] = result[d]
      /\ stage'[c] = "joined" /\ result'[c] \in {"ok", "error"}
  BY Finishing DEF IInv, TypeOK
<1>2. TypeOK'
  BY <1>1, CallsAssumption DEF IInv, TypeOK
<1>3. Holding'
  BY <1>1, CallsAssumption DEF IInv, TypeOK, Holding
<1>4. Poison' /\ ReadOnlyUntilPanic'
  BY <1>1, CallsAssumption DEF IInv, TypeOK, Holding, Poison, ReadOnlyUntilPanic
<1>5. PickedUp'
  BY <1>1, CallsAssumption DEF IInv, TypeOK, Holding, PickedUp
<1> QED
  BY <1>2, <1>3, <1>4, <1>5 DEF IInv

LEMMA PanicKeeps ==
  ASSUME IInv, NEW c \in Calls, Panic(c)
  PROVE  IInv'
<1> USE DEF Panic
<1>1. /\ stage' \in [Calls -> Stages] /\ result' \in [Calls -> Results \cup {None}]
      /\ \A d \in Calls \ {c} : stage'[d] = stage[d] /\ result'[d] = result[d]
      /\ stage'[c] = "joined" /\ result'[c] = "panic"
  BY Finishing DEF IInv, TypeOK
<1>2. TypeOK'
  BY <1>1, CallsAssumption DEF IInv, TypeOK
<1>3. Holding'
  BY <1>1, CallsAssumption DEF IInv, TypeOK, Holding
<1>4. Poison' /\ ReadOnlyUntilPanic'
  BY <1>1, CallsAssumption DEF IInv, TypeOK, Holding, Poison, ReadOnlyUntilPanic
<1>5. PickedUp'
  BY <1>1, CallsAssumption DEF IInv, TypeOK, Holding, PickedUp
<1> QED
  BY <1>2, <1>3, <1>4, <1>5 DEF IInv

LEMMA ChangeKeeps == IInv /\ Change => IInv'
<1> SUFFICES ASSUME IInv, Change PROVE IInv'
  OBVIOUS
<1> USE DEF Change
<1>1. TypeOK'
  BY DEF IInv, TypeOK
<1> QED
  BY <1>1 DEF IInv, Holding, Poison, ReadOnlyUntilPanic, PickedUp

LEMMA StepKeeps == IInv /\ [Next]_vars => IInv'
<1> SUFFICES ASSUME IInv, [Next]_vars PROVE IInv'
  OBVIOUS
<1>1. ASSUME NEW c \in Calls, Runtime(c) PROVE IInv'
  BY <1>1, RejectKeeps, DispatchKeeps, ReopenKeeps, ReplyKeeps DEF Runtime
<1>2. ASSUME NEW c \in Calls, Pool(c) PROVE IInv'
  BY <1>2, LockKeeps, LockRecoversKeeps, LockFailsKeeps, QueryKeeps, ReindexKeeps,
     ReindexFailsKeeps, ReopenReindexedKeeps, PanicKeeps DEF Pool
<1>3. CASE UNCHANGED vars
  BY <1>3 DEF vars, IInv, TypeOK, Holding, Poison, ReadOnlyUntilPanic, PickedUp
<1> QED
  BY <1>1, <1>2, <1>3, ChangeKeeps, ReceiveKeeps DEF Next

LEMMA Invariance == Spec => []IInv
<1> QED
  BY InitEstablishes, StepKeeps, PTL DEF Spec

\* The server's state and its calls keep their types, and a call has a result
\* exactly when its body is over.
THEOREM McpTypeInvariance == Spec => []TypeOK
<1>1. IInv => TypeOK
  BY DEF IInv
<1> QED
  BY <1>1, Invariance, PTL

\* lock_session: no body runs on a session that a body panicked on.
THEOREM NoBodyOnSuspectHolds == Spec => []NoBodyOnSuspect
<1>1. IInv => NoBodyOnSuspect
  BY DEF IInv, Poison, NoBodyOnSuspect
<1> QED
  BY <1>1, Invariance, PTL

\* run and reopen_if_not_indexed: until a body panics, a server that may not
\* reindex never holds a connection that can write.
THEOREM ReadOnlyUntilPanicHolds == Spec => []ReadOnlyUntilPanic
<1>1. IInv => ReadOnlyUntilPanic
  BY DEF IInv
<1> QED
  BY <1>1, Invariance, PTL

\* reopen_if_not_indexed: an index that was there when a call came, and stayed,
\* is what the call's body sees.
THEOREM LaterIndexPickedUpHolds == Spec => []LaterIndexPickedUp
<1>1. IInv => LaterIndexPickedUp
  BY CallsAssumption DEF IInv, TypeOK, Holding, PickedUp, LaterIndexPickedUp
<1> QED
  BY <1>1, Invariance, PTL
=============================================================================
