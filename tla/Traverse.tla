------------------------------ MODULE Traverse ------------------------------
(***************************************************************************)
(* The bounded breadth-first search behind `trace` and `impact`            *)
(* (crates/codekurve-store/src/traverse.rs, bfs), one edge per step, over  *)
(* the relationships table.                                                *)
(*                                                                         *)
(* LazyAdjacency reads one node's edges at a time, each in a statement of  *)
(* its own: a watcher may commit between two of them, so one search may    *)
(* see several generations of the graph.  `ever` and `always` are the      *)
(* edges that existed at some time, and at all times, of the search.       *)
(***************************************************************************)
EXTENDS Naturals, Sequences, FiniteSets

CONSTANTS
  Symbols,     \* symbol ids
  None,        \* no symbol, no depth, no reason
  Links,       \* the relationships there can be: records from, to, allowed
  Queries,     \* pairs of a start and a target, None for impact
  CapsSet,     \* the caps a search may be given
  MaxCommits   \* bound: edges added or removed while the search runs

\* An edge is allowed when its kind and confidence pass the caller's filters.
\* Two symbols may be related by an edge that does and by one that does not.
Edges == [from : Symbols, to : Symbols, allowed : BOOLEAN]
Caps  == [max_depth : Nat, max_nodes : Nat, max_edges : Nat]

\* TruncationReason: why a search stopped before exhausting the graph.
Reasons == {"max_depth", "max_nodes", "max_edges", "max_duration"}

ASSUME SymbolsAssumption ==
  IsFiniteSet(Symbols) /\ None \notin Symbols \cup Nat \cup Reasons
ASSUME LinksAssumption == Links \subseteq Edges
ASSUME ArgsAssumption ==
  Queries \subseteq Symbols \X (Symbols \cup {None}) /\ CapsSet \subseteq Caps
ASSUME CommitsAssumption == MaxCommits \in Nat

VARIABLES
  \* the database
  links, commits,
  \* the arguments of bfs
  start, target, caps,
  \* its locals
  phase,       \* "pop", "edges"; "found", "ended", "error" after it returned
  queue,       \* symbols to expand, in order
  reached,     \* symbols in the order they were reached (and visited)
  depths,      \* symbol -> depth, None before it is reached
  predecessor, \* symbol -> the symbol it was reached from
  node, todo,  \* the symbol being expanded and its edges not yet examined
  edges_examined, depth_capped, truncated_reason,
  \* history, never read by the program
  ever, always

args   == <<start, target, caps>>
tree   == <<reached, depths, predecessor>>
expand == <<node, todo>>
report == <<edges_examined, depth_capped, truncated_reason>>
vars   == <<links, commits, args, phase, queue, tree, expand, report, ever, always>>

Visited == {s \in Symbols : depths[s] # None}
Over    == {"found", "ended", "error"}

TypeOK ==
  /\ links \subseteq Links /\ ever \subseteq Links /\ always \subseteq Links
  /\ commits \in Nat
  /\ start \in Symbols /\ target \in Symbols \cup {None} /\ caps \in CapsSet
  /\ phase \in {"pop", "edges"} \cup Over
  /\ queue \in Seq(Symbols) /\ reached \in Seq(Symbols)
  /\ depths \in [Symbols -> Nat \cup {None}]
  /\ predecessor \in [Symbols -> Symbols \cup {None}]
  /\ node \in Symbols \cup {None} /\ todo \subseteq Links
  /\ edges_examined \in 0 .. caps.max_edges + 1 /\ depth_capped \in BOOLEAN
  /\ truncated_reason \in Reasons \cup {None}

Init ==
  /\ links \in SUBSET Links /\ commits = 0
  /\ \E q \in Queries : start = q[1] /\ target = q[2]
  /\ caps \in CapsSet
  /\ phase = IF target = start THEN "found" ELSE "pop"
  /\ queue = <<start>> /\ reached = <<start>>
  /\ depths = [s \in Symbols |-> IF s = start THEN 0 ELSE None]
  /\ predecessor = [s \in Symbols |-> None]
  /\ node = None /\ todo = {}
  /\ edges_examined = 0 /\ depth_capped = FALSE /\ truncated_reason = None
  /\ ever = links /\ always = links

-----------------------------------------------------------------------------

\* Somebody commits a batch; one of several edges at a time is enough, since
\* the search need not read in between.
Commit(e) ==
  /\ phase \notin Over
  /\ commits < MaxCommits
  /\ commits' = commits + 1
  /\ links' = IF e \in links THEN links \ {e} ELSE links \cup {e}
  /\ ever' = ever \cup links'
  /\ always' = always \cap links'
  /\ UNCHANGED <<args, phase, queue, tree, expand, report>>

Outgoing(s) == {e \in links : e.from = s}

\* Faulty variant: one level too many.
TooDeepLate(s) == depths[s] > caps.max_depth

TooDeep(s) == depths[s] >= caps.max_depth

\* The next symbol lies too deep to be expanded; that it has edges is noted.
PopDeep ==
  /\ phase = "pop" /\ queue # <<>>
  /\ TooDeep(Head(queue))
  /\ queue' = Tail(queue)
  /\ depth_capped' = (depth_capped \/ Outgoing(Head(queue)) # {})
  /\ UNCHANGED <<links, commits, args, phase, tree, expand, edges_examined,
                 truncated_reason, ever, always>>

Pop ==
  /\ phase = "pop" /\ queue # <<>>
  /\ ~TooDeep(Head(queue))
  /\ queue' = Tail(queue)
  /\ node' = Head(queue)
  /\ todo' = Outgoing(Head(queue))
  /\ phase' = "edges"
  /\ UNCHANGED <<links, commits, args, tree, report, ever, always>>

NeighborsFail ==
  /\ phase = "pop" /\ queue # <<>>
  /\ phase' = "error"
  /\ UNCHANGED <<links, commits, args, queue, tree, expand, report, ever, always>>

Truncate(r) ==
  /\ truncated_reason' = r
  /\ phase' = "ended"
  /\ UNCHANGED <<links, commits, args, queue, tree, expand, depth_capped, ever, always>>

\* max_duration has passed: this is looked at before each edge.
Expire ==
  /\ phase = "edges" /\ todo # {}
  /\ Truncate("max_duration")
  /\ UNCHANGED edges_examined

\* The first examined edge over the cap ends the search.
OverEdges(e) ==
  /\ phase = "edges" /\ e \in todo
  /\ e.allowed
  /\ edges_examined' = edges_examined + 1
  /\ edges_examined' > caps.max_edges
  /\ Truncate("max_edges")

OverNodes(e) ==
  /\ phase = "edges" /\ e \in todo
  /\ e.allowed /\ edges_examined < caps.max_edges
  /\ e.to \notin Visited
  /\ Len(reached) >= caps.max_nodes
  /\ edges_examined' = edges_examined + 1
  /\ Truncate("max_nodes")

\* Faulty variant: a filtered edge ends the expansion of its symbol.
FilterStops(e) ==
  /\ phase = "edges" /\ e \in todo
  /\ ~e.allowed
  /\ todo' = {}
  /\ UNCHANGED <<links, commits, args, phase, queue, tree, node, report, ever, always>>

Filter(e) ==
  /\ phase = "edges" /\ e \in todo
  /\ ~e.allowed
  /\ todo' = todo \ {e}
  /\ UNCHANGED <<links, commits, args, phase, queue, tree, node, report, ever, always>>

\* Faulty variant: a visited symbol gets the later predecessor.
RevisitReparents(e) ==
  /\ phase = "edges" /\ e \in todo
  /\ e.allowed /\ edges_examined < caps.max_edges
  /\ e.to \in Visited
  /\ todo' = todo \ {e}
  /\ edges_examined' = edges_examined + 1
  /\ predecessor' = [predecessor EXCEPT ![e.to] = node]
  /\ UNCHANGED <<links, commits, args, phase, queue, reached, depths, node, depth_capped,
                 truncated_reason, ever, always>>

Revisit(e) ==
  /\ phase = "edges" /\ e \in todo
  /\ e.allowed /\ edges_examined < caps.max_edges
  /\ e.to \in Visited
  /\ todo' = todo \ {e}
  /\ edges_examined' = edges_examined + 1
  /\ UNCHANGED <<links, commits, args, phase, queue, tree, node, depth_capped,
                 truncated_reason, ever, always>>

\* Faulty variant: a stack instead of a queue.
EnqueueFirst(s) == queue' = IF s = target THEN queue ELSE <<s>> \o queue

\* The target ends the search instead of being queued.
Enqueue(s) == queue' = IF s = target THEN queue ELSE Append(queue, s)

Reach(e) ==
  /\ phase = "edges" /\ e \in todo
  /\ e.allowed /\ edges_examined < caps.max_edges
  /\ e.to \notin Visited
  /\ Len(reached) < caps.max_nodes
  /\ todo' = todo \ {e}
  /\ edges_examined' = edges_examined + 1
  /\ reached' = Append(reached, e.to)
  /\ depths' = [depths EXCEPT ![e.to] = depths[node] + 1]
  /\ predecessor' = [predecessor EXCEPT ![e.to] = node]
  /\ Enqueue(e.to)
  /\ phase' = IF e.to = target THEN "found" ELSE phase
  /\ UNCHANGED <<links, commits, args, node, depth_capped, truncated_reason, ever, always>>

NextNode ==
  /\ phase = "edges" /\ todo = {}
  /\ node' = None
  /\ phase' = "pop"
  /\ UNCHANGED <<links, commits, args, queue, tree, todo, report, ever, always>>

End ==
  /\ phase = "pop" /\ queue = <<>>
  /\ truncated_reason' = IF depth_capped THEN "max_depth" ELSE None
  /\ phase' = "ended"
  /\ UNCHANGED <<links, commits, args, queue, tree, expand, edges_examined,
                 depth_capped, ever, always>>

Examine == \E e \in todo : OverEdges(e) \/ OverNodes(e) \/ Filter(e) \/ Revisit(e) \/ Reach(e)

Step == PopDeep \/ Pop \/ NeighborsFail \/ Expire \/ Examine \/ NextNode \/ End

Next == Step \/ \E e \in Links : Commit(e)

Spec == Init /\ [][Next]_vars

-----------------------------------------------------------------------------
(* The reference: the least set closed under the allowed edges of a graph  *)
(* and holding the start, and what of it lies within so many hops.         *)

Closed(S, G) == \A e \in G : e.allowed /\ e.from \in S => e.to \in S

Reachable(G) ==
  {s \in Symbols : \A S \in SUBSET Symbols : start \in S /\ Closed(S, G) => s \in S}

Within(G) ==
  LET w[k \in Nat] ==
        IF k = 0 THEN {start}
        ELSE LET nearer == w[k - 1]
             IN  nearer \cup {e.to : e \in {l \in G : l.allowed /\ l.from \in nearer}}
  IN  w

\* reconstruct_path: back from the target along the predecessors.
Path ==
  LET back[k \in Nat] ==
        IF k = 0 THEN <<target>>
        ELSE LET path == back[k - 1]
                 prev == predecessor[Head(path)]
             IN  IF Head(path) = start \/ prev = None THEN path ELSE <<prev>> \o path
  IN  back[Cardinality(Symbols)]

-----------------------------------------------------------------------------
(* Properties.                                                             *)

\* Nothing is silently incomplete: a search that ends without a path and
\* without a reason has reached every symbol that could be reached all the
\* time, its target not among them.
CompleteUnlessTruncated ==
  phase = "ended" /\ truncated_reason = None => Reachable(always) \subseteq Visited

\* The depth of a reached symbol is its distance: no shorter way along edges
\* that existed throughout was overlooked, and there is a way that long along
\* edges that existed at some time of the search.
DepthIsDistance ==
  LET throughout == Within(always)
      sometime   == Within(ever)
  IN  \A s \in Visited :
        /\ \A k \in 0 .. Cardinality(Symbols) : s \in throughout[k] => depths[s] <= k
        /\ s \in sometime[depths[s]]

\* The path that trace reports leads from the start to the target along edges
\* that existed, each allowed, in as many hops as the target is deep.
PathIsReal ==
  phase = "found" =>
    /\ Path[1] = start /\ Path[Len(Path)] = target
    /\ Len(Path) = depths[target] + 1
    /\ \A i \in 1 .. Len(Path) - 1 :
         \E e \in ever : e.allowed /\ e.from = Path[i] /\ e.to = Path[i + 1]

\* The answer keeps the caps, and says so when one of them cut it short: no
\* symbol lies deeper, there are no more symbols (the start is always one),
\* and no edge over the cap was followed.
WithinCaps ==
  /\ \A s \in Visited : depths[s] <= caps.max_depth
  /\ Len(reached) <= caps.max_nodes \/ reached = <<start>>
  /\ edges_examined > caps.max_edges => truncated_reason = "max_edges"

=============================================================================
