--------------------------- MODULE TraverseProofs ---------------------------
(* What the bounded search promises, for any graph, caps and commits.      *)
EXTENDS Traverse, FiniteSetTheorems, WellFoundedInduction, TLAPS

Queued(s)   == \E i \in 1 .. Len(queue) : queue[i] = s
Followed(s) == \A e \in always : e.allowed /\ e.from = s => e.to \in Visited

\* What was true all the time is true now, and the start was reached.
History == always \subseteq links /\ start \in Visited

\* Only reached symbols are queued or expanded, and none too deep is expanded.
Frontier ==
  /\ \A i \in 1 .. Len(queue) : queue[i] \in Visited
  /\ phase = "edges" => node \in Visited /\ depths[node] < caps.max_depth

\* While it runs, a search has given no reason, and it is within its caps.
Running ==
  phase \in {"pop", "edges"} => truncated_reason = None /\ edges_examined <= caps.max_edges

\* The edges of the symbol being expanded lead to reached symbols or wait.
Expanding ==
  phase = "edges" =>
    \A e \in always : e.allowed /\ e.from = node => e.to \in Visited \/ e \in todo

\* Unless an expansion was declined, a reached symbol has all its edges
\* followed, is being expanded, or waits in the queue; in the end the queue
\* is empty.
NothingForgotten ==
  /\ phase \in {"pop", "edges"} /\ ~depth_capped =>
       \A s \in Visited : Followed(s) \/ Queued(s) \/ (phase = "edges" /\ s = node)
  /\ phase = "ended" /\ truncated_reason = None => \A s \in Visited : Followed(s)

IInv == TypeOK /\ WithinCaps /\ History /\ Frontier /\ Running /\ Expanding /\ NothingForgotten

-----------------------------------------------------------------------------

LEMMA ArgsTyped ==
  ASSUME TypeOK
  PROVE  /\ caps \in Caps /\ start \in Symbols /\ target \in Symbols \cup {None}
         /\ Links \subseteq Edges /\ None \notin Symbols /\ None \notin Nat /\ None \notin Reasons
BY SymbolsAssumption, LinksAssumption, ArgsAssumption DEF TypeOK

LEMMA InitEstablishes == Init => IInv
<1> SUFFICES ASSUME Init PROVE IInv
  OBVIOUS
<1> USE SymbolsAssumption, LinksAssumption, ArgsAssumption
<1>1. start \in Symbols /\ target \in Symbols \cup {None} /\ caps \in Caps
  BY DEF Init
<1>2. TypeOK
  <2>1. queue \in Seq(Symbols) /\ reached \in Seq(Symbols)
    BY <1>1 DEF Init
  <2>2. depths \in [Symbols -> Nat \cup {None}] /\ predecessor \in [Symbols -> Symbols \cup {None}]
    BY <1>1 DEF Init
  <2>3. edges_examined \in 0 .. caps.max_edges + 1
    BY <1>1 DEF Init, Caps
  <2>4. phase \in {"pop", "edges"} \cup Over
    BY DEF Init, Over
  <2> QED
    BY <1>1, <2>1, <2>2, <2>3, <2>4 DEF Init, TypeOK
<1>3. Visited = {start}
  BY <1>1 DEF Init, Visited
<1>4. WithinCaps
  BY <1>1, <1>3 DEF Init, WithinCaps, Caps
<1>5. History /\ Frontier /\ Running /\ Expanding
  BY <1>1, <1>3 DEF Init, History, Frontier, Running, Expanding, Caps
<1>6. NothingForgotten
  BY <1>1, <1>3 DEF Init, NothingForgotten, Queued
<1> QED
  BY <1>2, <1>4, <1>5, <1>6 DEF IInv

\* A step that leaves the tree, the queue and the expansion alone.
LEMMA CommitPreserves ==
  ASSUME IInv, NEW e \in Links, Commit(e)
  PROVE  IInv'
<1> USE DEF Commit, args, tree, expand, report
<1>1. TypeOK'
  BY ArgsTyped DEF IInv, TypeOK, Over
<1>2. Visited' = Visited /\ always' \subseteq always
  BY DEF Visited
<1>3. WithinCaps'
  BY <1>2 DEF IInv, WithinCaps
<1>4. History' /\ Frontier' /\ Running' /\ Expanding'
  BY <1>2 DEF IInv, History, Frontier, Running, Expanding
<1>5. NothingForgotten'
  BY <1>2 DEF IInv, NothingForgotten, Queued, Followed, Over
<1> QED
  BY <1>1, <1>3, <1>4, <1>5 DEF IInv

\* What popping the queue leaves of it.
LEMMA Popped ==
  ASSUME TypeOK, queue # <<>>, queue' = Tail(queue)
  PROVE  /\ Head(queue) \in Symbols /\ queue' \in Seq(Symbols)
         /\ Head(queue) = queue[1] /\ 1 \in 1 .. Len(queue)
         /\ \A i \in 1 .. Len(queue') : i + 1 \in 1 .. Len(queue) /\ queue'[i] = queue[i + 1]
         /\ \A s : Queued(s) => s = Head(queue) \/ Queued(s)'
<1> USE DEF TypeOK
<1>1. /\ Len(queue) \in Nat \ {0} /\ Head(queue) = queue[1] /\ queue[1] \in Symbols
      /\ queue' \in Seq(Symbols) /\ Len(queue') = Len(queue) - 1
      /\ \A i \in 1 .. Len(queue') : queue'[i] = queue[i + 1]
  OBVIOUS
<1>2. ASSUME NEW s, Queued(s) PROVE s = Head(queue) \/ Queued(s)'
  <2>1. PICK i \in 1 .. Len(queue) : queue[i] = s
    BY <1>2 DEF Queued
  <2>2. CASE i = 1
    BY <1>1, <2>1, <2>2
  <2>3. CASE i # 1
    <3>1. i - 1 \in 1 .. Len(queue') /\ queue'[i - 1] = s
      BY <1>1, <2>1, <2>3
    <3> QED
      BY <3>1 DEF Queued
  <2> QED
    BY <2>2, <2>3
<1> QED
  BY <1>1, <1>2

LEMMA PopDeepPreserves ==
  ASSUME IInv, PopDeep
  PROVE  IInv'
<1> USE DEF PopDeep, args, tree, expand, report
<1>1. TypeOK /\ queue # <<>> /\ queue' = Tail(queue)
  BY DEF IInv
<1>2. TypeOK'
  BY <1>1, Popped DEF TypeOK
<1>3. Visited' = Visited
  BY DEF Visited
<1>4. WithinCaps'
  BY <1>3 DEF IInv, WithinCaps
<1>5. History' /\ Running' /\ Expanding'
  BY <1>3 DEF IInv, History, Running, Expanding
<1>6. Frontier'
  BY <1>1, <1>3, Popped DEF IInv, Frontier
<1>7. NothingForgotten'
  <2>1. ASSUME ~depth_capped', NEW s \in Visited PROVE Followed(s)' \/ Queued(s)'
    <3>1. Followed(s) \/ Queued(s)
      BY <2>1 DEF IInv, NothingForgotten
    <3>2. CASE s = Head(queue)
      BY <2>1, <3>2 DEF Outgoing, IInv, History, Followed
    <3> QED
      BY <1>1, <1>3, <3>1, <3>2, Popped DEF Followed
  <2> QED
    BY <1>3, <2>1 DEF NothingForgotten
<1> QED
  BY <1>2, <1>4, <1>5, <1>6, <1>7 DEF IInv

LEMMA PopPreserves ==
  ASSUME IInv, Pop
  PROVE  IInv'
<1> USE DEF Pop, args, tree, expand, report
<1>1. TypeOK /\ queue # <<>> /\ queue' = Tail(queue)
  BY DEF IInv
<1>2. TypeOK'
  BY <1>1, Popped DEF TypeOK, Outgoing
<1>3. Visited' = Visited
  BY DEF Visited
<1>4. WithinCaps'
  BY <1>3 DEF IInv, WithinCaps
<1>5. History' /\ Running'
  BY <1>3 DEF IInv, History, Running
<1>6. Expanding'
  BY <1>3 DEF IInv, History, Expanding, Outgoing
<1>7. Frontier'
  <2>1. node' \in Visited /\ depths[node'] \in Nat
    BY <1>1, Popped DEF IInv, Frontier, TypeOK, Visited
  <2>2. depths[node'] < caps.max_depth
    BY <1>1, <2>1, ArgsTyped DEF TooDeep, Caps
  <2> QED
    BY <1>1, <1>3, <2>1, <2>2, Popped DEF IInv, Frontier
<1>8. NothingForgotten'
  BY <1>1, <1>3, Popped DEF IInv, NothingForgotten, Followed
<1> QED
  BY <1>2, <1>4, <1>5, <1>6, <1>7, <1>8 DEF IInv

\* Steps that end the search early give a reason and change little else.
LEMMA TruncatePreserves ==
  ASSUME IInv, phase = "edges", NEW r \in Reasons, Truncate(r),
         edges_examined' \in 0 .. caps.max_edges + 1,
         edges_examined' > caps.max_edges => r = "max_edges"
  PROVE  IInv'
<1> USE DEF Truncate, args, tree, expand
<1>1. TypeOK'
  BY DEF IInv, TypeOK, Over
<1>2. Visited' = Visited
  BY DEF Visited
<1>3. WithinCaps'
  BY <1>2 DEF IInv, WithinCaps
<1>4. History' /\ Frontier' /\ Running' /\ Expanding'
  BY <1>2 DEF IInv, History, Frontier, Running, Expanding
<1>5. r # None
  BY ArgsTyped DEF IInv
<1>6. NothingForgotten'
  BY <1>5 DEF NothingForgotten
<1> QED
  BY <1>1, <1>3, <1>4, <1>6 DEF IInv

\* The search is in its loop over edges: an examined edge is within the cap or
\* the first over it.
LEMMA Counting ==
  ASSUME IInv, phase = "edges"
  PROVE  /\ edges_examined \in Nat /\ caps.max_edges \in Nat
         /\ edges_examined <= caps.max_edges
BY ArgsTyped DEF IInv, Running, TypeOK, Caps

LEMMA NeighborsFailPreserves ==
  ASSUME IInv, NeighborsFail
  PROVE  IInv'
<1> USE DEF NeighborsFail, args, tree, expand, report
<1>1. TypeOK'
  BY DEF IInv, TypeOK, Over
<1>2. Visited' = Visited
  BY DEF Visited
<1> QED
  BY <1>1, <1>2 DEF IInv, WithinCaps, History, Frontier, Running, Expanding, NothingForgotten

LEMMA FilterPreserves ==
  ASSUME IInv, NEW e \in todo, Filter(e)
  PROVE  IInv'
<1> USE DEF Filter, args, tree, report
<1>1. TypeOK'
  BY DEF IInv, TypeOK
<1>2. Visited' = Visited
  BY DEF Visited
<1>3. WithinCaps' /\ History' /\ Frontier' /\ Running' /\ Expanding'
  BY <1>2 DEF IInv, WithinCaps, History, Frontier, Running, Expanding
<1>4. NothingForgotten'
  BY <1>2 DEF IInv, NothingForgotten, Followed, Queued
<1> QED
  BY <1>1, <1>3, <1>4 DEF IInv

LEMMA RevisitPreserves ==
  ASSUME IInv, NEW e \in todo, Revisit(e)
  PROVE  IInv'
<1> USE DEF Revisit, args, tree
<1>1. edges_examined' \in 0 .. caps.max_edges + 1 /\ edges_examined' <= caps.max_edges
  BY Counting
<1>2. TypeOK'
  BY <1>1 DEF IInv, TypeOK
<1>3. Visited' = Visited
  BY DEF Visited
<1>4. WithinCaps'
  BY <1>1, <1>3, Counting DEF IInv, WithinCaps
<1>5. History' /\ Frontier' /\ Running' /\ Expanding'
  BY <1>1, <1>3 DEF IInv, History, Frontier, Running, Expanding
<1>6. NothingForgotten'
  BY <1>3 DEF IInv, NothingForgotten, Followed, Queued
<1> QED
  BY <1>2, <1>4, <1>5, <1>6 DEF IInv

\* What appending a symbol to the queue adds to it.
LEMMA Enqueued ==
  ASSUME TypeOK, NEW s \in Symbols, Enqueue(s)
  PROVE  /\ queue' \in Seq(Symbols)
         /\ \A i \in 1 .. Len(queue') :
              queue'[i] = s \/ (i \in 1 .. Len(queue) /\ queue'[i] = queue[i])
         /\ \A v : Queued(v) => Queued(v)'
         /\ s # target => Queued(s)'
<1>1. queue \in Seq(Symbols)
  BY DEF TypeOK
<1>2. CASE s = target
  BY <1>1, <1>2 DEF Enqueue, Queued
<1>3. CASE s # target
  <2>1. /\ queue' = Append(queue, s) /\ queue' \in Seq(Symbols)
        /\ Len(queue') = Len(queue) + 1 /\ Len(queue) \in Nat
        /\ queue'[Len(queue) + 1] = s
        /\ \A i \in 1 .. Len(queue) : queue'[i] = queue[i]
    BY <1>1, <1>3 DEF Enqueue
  <2>2. Queued(s)'
    BY <2>1 DEF Queued
  <2>3. \A v : Queued(v) => Queued(v)'
    BY <2>1 DEF Queued
  <2>4. ASSUME NEW i \in 1 .. Len(queue')
        PROVE  queue'[i] = s \/ (i \in 1 .. Len(queue) /\ queue'[i] = queue[i])
    <3>1. i = Len(queue) + 1 \/ i \in 1 .. Len(queue)
      BY <2>1
    <3> QED
      BY <2>1, <3>1
  <2> QED
    BY <2>1, <2>2, <2>3, <2>4
<1> QED
  BY <1>2, <1>3

LEMMA ReachPreserves ==
  ASSUME IInv, NEW e \in todo, Reach(e)
  PROVE  IInv'
<1> USE DEF Reach, args
<1>1. TypeOK /\ e.to \in Symbols /\ e.to \notin Visited /\ Enqueue(e.to) /\ phase = "edges"
  BY ArgsTyped DEF IInv, TypeOK, Edges
<1>2. /\ node \in Visited /\ depths[node] \in Nat /\ caps.max_depth \in Nat
      /\ depths[node] + 1 <= caps.max_depth
  BY <1>1, ArgsTyped DEF IInv, Frontier, Visited, TypeOK, Caps
<1>3. edges_examined' \in 0 .. caps.max_edges + 1 /\ edges_examined' <= caps.max_edges
  BY <1>1, Counting
<1>4. depths' = [depths EXCEPT ![e.to] = depths[node] + 1]
  OBVIOUS
<1>5. TypeOK'
  <2>1. depths' \in [Symbols -> Nat \cup {None}]
    BY <1>1, <1>2 DEF TypeOK
  <2>2. predecessor' \in [Symbols -> Symbols \cup {None}]
    BY <1>1 DEF TypeOK
  <2>3. queue' \in Seq(Symbols) /\ reached' \in Seq(Symbols)
    BY <1>1, Enqueued DEF TypeOK
  <2> QED
    BY <1>1, <1>3, <2>1, <2>2, <2>3 DEF TypeOK, Over
<1>6. Visited' = Visited \cup {e.to} /\ \A s \in Visited : depths'[s] = depths[s]
  <2>1. \A s \in Symbols : depths'[s] = IF s = e.to THEN depths[node] + 1 ELSE depths[s]
    BY <1>1, <1>4 DEF TypeOK
  <2>2. depths[node] + 1 # None
    BY <1>2, ArgsTyped, <1>1
  <2> QED
    BY <1>1, <2>1, <2>2 DEF Visited
<1>7. depths'[e.to] = depths[node] + 1
  BY <1>1, <1>4 DEF TypeOK
<1>8. WithinCaps'
  <2>1. \A s \in Visited' : depths'[s] <= caps.max_depth
    BY <1>2, <1>6, <1>7 DEF IInv, WithinCaps
  <2>2. Len(reached') <= caps.max_nodes
    BY <1>1, ArgsTyped DEF TypeOK, Caps
  <2>3. ~(edges_examined' > caps.max_edges)
    BY <1>1, <1>3, Counting
  <2> QED
    BY <2>1, <2>2, <2>3 DEF WithinCaps
<1>9. History' /\ Running'
  BY <1>3, <1>6 DEF IInv, History, Running
<1>10. Frontier'
  <2>1. \A i \in 1 .. Len(queue') : queue'[i] \in Visited'
    BY <1>1, <1>6, Enqueued DEF IInv, Frontier
  <2>2. node' \in Visited' /\ depths'[node'] < caps'.max_depth
    BY <1>1, <1>6 DEF IInv, Frontier
  <2> QED
    BY <2>1, <2>2 DEF Frontier
<1>11. Expanding'
  BY <1>6 DEF IInv, Expanding
<1>12. NothingForgotten'
  <2>1. \A s \in Visited : Followed(s) => Followed(s)'
    BY <1>6 DEF Followed
  <2>2. phase' \in {"edges", "found"} /\ (phase' = "edges" => e.to # target)
    BY <1>1
  <2>3. ASSUME phase' = "edges", ~depth_capped', NEW s \in Visited'
        PROVE  Followed(s)' \/ Queued(s)' \/ s = node'
    <3>1. CASE s = e.to
      BY <1>1, <2>2, <2>3, <3>1, Enqueued
    <3>2. CASE s \in Visited
      <4>1. Followed(s) \/ Queued(s) \/ s = node
        BY <1>1, <2>3, <3>2 DEF IInv, NothingForgotten
      <4> QED
        BY <1>1, <2>1, <3>2, <4>1, Enqueued
    <3> QED
      BY <1>6, <2>3, <3>1, <3>2
  <2> QED
    BY <2>2, <2>3 DEF NothingForgotten
<1> QED
  BY <1>5, <1>8, <1>9, <1>10, <1>11, <1>12 DEF IInv

LEMMA NextNodePreserves ==
  ASSUME IInv, NextNode
  PROVE  IInv'
<1> USE DEF NextNode, args, tree, report
<1>1. TypeOK'
  BY DEF IInv, TypeOK
<1>2. Visited' = Visited
  BY DEF Visited
<1>3. WithinCaps' /\ History' /\ Frontier' /\ Running' /\ Expanding'
  BY <1>2 DEF IInv, WithinCaps, History, Frontier, Running, Expanding
<1>4. Followed(node)
  BY DEF IInv, Expanding, Followed
<1>5. NothingForgotten'
  BY <1>2, <1>4 DEF IInv, NothingForgotten, Followed, Queued
<1> QED
  BY <1>1, <1>3, <1>5 DEF IInv

LEMMA EndPreserves ==
  ASSUME IInv, End
  PROVE  IInv'
<1> USE DEF End, args, tree, expand
<1>1. TypeOK'
  BY DEF IInv, TypeOK, Over, Reasons
<1>2. Visited' = Visited
  BY DEF Visited
<1>3. WithinCaps'
  BY <1>2, ArgsTyped DEF IInv, WithinCaps, Running, TypeOK, Caps
<1>4. History' /\ Frontier' /\ Running' /\ Expanding'
  BY <1>2 DEF IInv, History, Frontier, Running, Expanding
<1>5. NothingForgotten'
  <2>1. ~depth_capped => \A s \in Visited : Followed(s)
    BY DEF IInv, NothingForgotten, Queued
  <2>2. truncated_reason' = None => ~depth_capped
    BY ArgsTyped DEF IInv, TypeOK, Reasons
  <2> QED
    BY <1>2, <2>1, <2>2 DEF NothingForgotten, Followed
<1> QED
  BY <1>1, <1>3, <1>4, <1>5 DEF IInv

-----------------------------------------------------------------------------

LEMMA NextPreserves == IInv /\ [Next]_vars => IInv'
<1> SUFFICES ASSUME IInv, [Next]_vars PROVE IInv'
  OBVIOUS
<1>1. CASE \E e \in Links : Commit(e)
  BY <1>1, CommitPreserves
<1>2. CASE PopDeep
  BY <1>2, PopDeepPreserves
<1>3. CASE Pop
  BY <1>3, PopPreserves
<1>4. CASE NeighborsFail
  BY <1>4, NeighborsFailPreserves
<1>5. CASE Expire
  <2>1. edges_examined' \in 0 .. caps.max_edges + 1 /\ ~(edges_examined' > caps.max_edges)
    BY <1>5, Counting DEF Expire
  <2> QED
    BY <1>5, <2>1, TruncatePreserves DEF Expire, Reasons
<1>6. ASSUME NEW e \in todo, OverEdges(e) PROVE IInv'
  <2>1. edges_examined' \in 0 .. caps.max_edges + 1
    BY <1>6, Counting DEF OverEdges
  <2> QED
    BY <1>6, <2>1, TruncatePreserves DEF OverEdges, Reasons
<1>7. ASSUME NEW e \in todo, OverNodes(e) PROVE IInv'
  <2>1. edges_examined' \in 0 .. caps.max_edges + 1 /\ ~(edges_examined' > caps.max_edges)
    BY <1>7, Counting DEF OverNodes
  <2> QED
    BY <1>7, <2>1, TruncatePreserves DEF OverNodes, Reasons
<1>8. CASE Examine
  BY <1>6, <1>7, <1>8, FilterPreserves, RevisitPreserves, ReachPreserves DEF Examine
<1>9. CASE NextNode
  BY <1>9, NextNodePreserves
<1>10. CASE End
  BY <1>10, EndPreserves
<1>11. CASE UNCHANGED vars
  BY <1>11 DEF vars, args, tree, expand, report, IInv, TypeOK, WithinCaps, History, Frontier,
     Running, Expanding, NothingForgotten, Visited, Followed, Queued
<1> QED
  BY <1>1, <1>2, <1>3, <1>4, <1>5, <1>8, <1>9, <1>10, <1>11 DEF Next, Step

LEMMA Invariance == Spec => []IInv
<1> QED
  BY InitEstablishes, NextPreserves, PTL DEF Spec

\* The arguments keep their values and every local of bfs its type.
THEOREM TraverseTypeInvariance == Spec => []TypeOK
<1>1. IInv => TypeOK
  BY DEF IInv
<1> QED
  BY <1>1, Invariance, PTL

\* The symbols of an answer respect max_depth and max_nodes, and an edge over
\* max_edges is never followed and always confessed to.
THEOREM WithinCapsHolds == Spec => []WithinCaps
<1>1. IInv => WithinCaps
  BY DEF IInv
<1> QED
  BY <1>1, Invariance, PTL

\* bfs: "nothing is ever silently incomplete", whatever the graph, the caps,
\* the order of the edges and the commits made during the search.
THEOREM CompleteUnlessTruncatedHolds == Spec => []CompleteUnlessTruncated
<1>1. IInv => CompleteUnlessTruncated
  <2> SUFFICES ASSUME IInv, phase = "ended", truncated_reason = None
               PROVE  Reachable(always) \subseteq Visited
    BY DEF CompleteUnlessTruncated
  <2>1. \A s \in Visited : Followed(s)
    BY DEF IInv, NothingForgotten
  <2>2. Closed(Visited, always)
    BY <2>1 DEF Closed, Followed
  <2>3. start \in Visited /\ Visited \in SUBSET Symbols
    BY DEF IInv, History, Visited
  <2> QED
    BY <2>2, <2>3 DEF Reachable
<1> QED
  BY <1>1, Invariance, PTL

-----------------------------------------------------------------------------

\* Nothing is reached but by edges that existed at some time of the search.
Sound ==
  /\ links \cup todo \subseteq ever
  /\ phase = "edges" => \A e \in todo : e.from = node
  /\ Visited \subseteq Reachable(ever)

\* More edges reach more, and one more allowed edge reaches its end.
LEMMA ReachableGrows ==
  ASSUME NEW G, NEW H, G \subseteq H
  PROVE  Reachable(G) \subseteq Reachable(H)
BY DEF Reachable, Closed

LEMMA ReachableStep ==
  ASSUME NEW G, NEW e \in G, e.allowed, e.from \in Reachable(G), e.to \in Symbols
  PROVE  e.to \in Reachable(G)
BY DEF Reachable, Closed

LEMMA InitSound == Init => Sound
<1> SUFFICES ASSUME Init PROVE Sound
  OBVIOUS
<1>1. Visited = {start} /\ start \in Symbols
  BY SymbolsAssumption, ArgsAssumption DEF Init, Visited
<1> QED
  BY <1>1 DEF Init, Sound, Reachable

LEMMA NextKeepsSound == IInv /\ IInv' /\ Sound /\ [Next]_vars => Sound'
<1> SUFFICES ASSUME IInv, IInv', Sound, [Next]_vars PROVE Sound'
  OBVIOUS
<1> USE DEF args, tree, expand, report
<1>1. ASSUME NEW e \in Links, Commit(e) PROVE Sound'
  <2>1. Visited' = Visited /\ ever \subseteq ever' /\ start' = start
    BY <1>1 DEF Commit, Visited
  <2>2. Reachable(ever)' = Reachable(ever')
    BY <2>1 DEF Reachable
  <2> QED
    BY <1>1, <2>1, <2>2, ReachableGrows DEF Sound, Commit
<1>2. ASSUME UNCHANGED <<links, ever, start>>, todo' \subseteq todo \cup links,
             phase' = "edges" => \A e \in todo' : e.from = node',
             Visited' \subseteq Reachable(ever)
      PROVE  Sound'
  BY <1>2 DEF Sound, Reachable
<1>3. ASSUME NEW e \in todo, Reach(e) PROVE Sound'
  <2>1. node \in Visited /\ e.from = node /\ e \in ever /\ e.to \in Symbols
    BY <1>3, ArgsTyped DEF IInv, Frontier, Sound, TypeOK, Edges, Reach
  <2>2. Visited' \subseteq Visited \cup {e.to}
    BY <1>3 DEF IInv, TypeOK, Reach, Visited
  <2>3. e.to \in Reachable(ever)
    BY <1>3, <2>1, ReachableStep DEF Sound, Reach
  <2> QED
    BY <1>2, <1>3, <2>2, <2>3 DEF Sound, Reach
<1>4. CASE Pop
  BY <1>2, <1>4 DEF Pop, Sound, Visited, Outgoing
<1>5. CASE PopDeep \/ NeighborsFail \/ NextNode \/ End
  BY <1>2, <1>5 DEF PopDeep, NeighborsFail, NextNode, End, Sound, Visited
<1>6. CASE Expire
  BY <1>2, <1>6 DEF Expire, Truncate, Sound, Visited
<1>7. ASSUME NEW e \in todo, OverEdges(e) \/ OverNodes(e) \/ Filter(e) \/ Revisit(e)
      PROVE  Sound'
  BY <1>2, <1>7 DEF OverEdges, OverNodes, Filter, Revisit, Truncate, Sound, Visited
<1>8. CASE UNCHANGED vars
  BY <1>2, <1>8 DEF vars, Sound, Visited
<1> QED
  BY <1>1, <1>3, <1>4, <1>5, <1>6, <1>7, <1>8 DEF Next, Step, Examine

\* A search that runs beside commits never reports a symbol that no graph it
\* could have read connects to its start.
THEOREM ReachedIsReachable == Spec => [](Visited \subseteq Reachable(ever))
<1>1. Sound => Visited \subseteq Reachable(ever)
  BY DEF Sound
<1> QED
  BY <1>1, InitSound, Invariance, NextKeepsSound, PTL DEF Spec

-----------------------------------------------------------------------------
(* Recursive functions over the numbers: no theorem of the library can be    *)
(* cited for them, since each has an operator for a parameter.               *)

\* A set of numbers that holds 0, and with each number the next, holds all.
LEMMA AllNumbers ==
  ASSUME NEW T, 0 \in T, \A k \in Nat : k \in T => k + 1 \in T
  PROVE  Nat \subseteq T
<1>. SUFFICES ASSUME Nat \ T # {} PROVE FALSE
  OBVIOUS
<1>1. PICK n \in Nat \ T : \A k \in Nat \ T : <<k, n>> \notin OpToRel(<, Nat)
  <2>1. Nat \ T \subseteq Nat
    OBVIOUS
  <2>. QED BY <2>1, NatLessThanWellFounded, WFMin
<1>2. \A k \in Nat \ T : ~(k < n)
  BY <1>1 DEF OpToRel
<1>3. n \in Nat /\ n # 0
  OBVIOUS
<1>4. n - 1 \in Nat /\ (n - 1) + 1 = n /\ n - 1 < n
  BY <1>3
<1>. QED BY <1>2, <1>4

\* Iterating a step from a start is a function on the numbers.
LEMMA Iterated ==
  ASSUME NEW A, NEW a \in A, NEW step \in [A -> A]
  PROVE  \E F \in [Nat -> A] : F[0] = a /\ \A k \in Nat : F[k + 1] = step[F[k]]
<1>. DEFINE Upto(n) == {g \in [0 .. n -> A] :
                          g[0] = a /\ \A k \in 0 .. n : k < n => g[k + 1] = step[g[k]]}
            Done == {n \in Nat : Upto(n) # {}}
<1>1. ASSUME NEW n \in Nat PROVE Upto(n) # {}
  <2>1. 0 \in Done
    <3>1. [k \in 0 .. 0 |-> a] \in Upto(0)
      OBVIOUS
    <3>. QED BY <3>1
  <2>2. ASSUME NEW k \in Nat, k \in Done PROVE k + 1 \in Done
    <3>1. PICK g : g \in Upto(k)
      BY <2>2
    <3>2. g[k] \in A /\ step[g[k]] \in A
      BY <3>1
    <3>. DEFINE h == [i \in 0 .. k + 1 |-> IF i = k + 1 THEN step[g[k]] ELSE g[i]]
    <3>3. h \in [0 .. k + 1 -> A]
      BY <3>1, <3>2
    <3>4. h[0] = a
      BY <3>1
    <3>5. ASSUME NEW i \in 0 .. k + 1, i < k + 1 PROVE h[i + 1] = step[h[i]]
      <4>1. i \in 0 .. k /\ h[i] = g[i]
        BY <3>5
      <4>2. CASE i = k
        BY <4>1, <4>2
      <4>3. CASE i # k
        BY <3>1, <4>1, <4>3
      <4>. QED BY <4>2, <4>3
    <3>6. h \in Upto(k + 1)
      BY <3>3, <3>4, <3>5
    <3>. QED BY <3>6
  <2>. HIDE DEF Upto
  <2>3. Nat \subseteq Done
    <3>. HIDE DEF Done
    <3>. QED BY <2>1, <2>2, AllNumbers
  <2>. QED BY <2>3
<1>2. ASSUME NEW n \in Nat, NEW m \in Nat, n <= m, NEW g \in Upto(n), NEW h \in Upto(m)
      PROVE  g[n] = h[n]
  <2>. DEFINE Same == {k \in Nat : k <= n => g[k] = h[k]}
  <2>1. 0 \in Same
    OBVIOUS
  <2>2. ASSUME NEW k \in Nat, k \in Same PROVE k + 1 \in Same
    <3>. SUFFICES ASSUME k + 1 <= n PROVE g[k + 1] = h[k + 1]
      OBVIOUS
    <3>1. k \in 0 .. n /\ k < n /\ k \in 0 .. m /\ k < m /\ g[k] = h[k]
      BY <1>2, <2>2
    <3>. QED BY <3>1
  <2>3. Nat \subseteq Same
    <3>. HIDE DEF Same
    <3>. QED BY <2>1, <2>2, AllNumbers
  <2>. QED BY <2>3
<1>. DEFINE Pick(n) == CHOOSE g : g \in Upto(n)
            F == [n \in Nat |-> Pick(n)[n]]
<1>3. ASSUME NEW n \in Nat PROVE Pick(n) \in Upto(n)
  <2>. HIDE DEF Upto
  <2>. QED BY <1>1
<1>4. F \in [Nat -> A]
  <2>. SUFFICES ASSUME NEW n \in Nat PROVE Pick(n)[n] \in A
    OBVIOUS
  <2>1. Pick(n) \in [0 .. n -> A]
    BY <1>3
  <2>. HIDE DEF Pick
  <2>. QED BY <2>1
<1>5. F[0] = a
  <2>1. Pick(0)[0] = a
    BY <1>3
  <2>. HIDE DEF Pick
  <2>. QED BY <2>1
<1>6. ASSUME NEW k \in Nat PROVE F[k + 1] = step[F[k]]
  <2>1. Pick(k)[k] = Pick(k + 1)[k]
    <3>. HIDE DEF Upto, Pick
    <3>1. k + 1 \in Nat /\ k <= k + 1
      OBVIOUS
    <3>. QED BY <1>2, <1>3, <3>1
  <2>2. Pick(k + 1)[k + 1] = step[Pick(k + 1)[k]]
    <3>1. Pick(k + 1) \in Upto(k + 1)
      <4>. HIDE DEF Upto, Pick
      <4>. QED BY <1>3
    <3>. HIDE DEF Pick
    <3>. QED BY <3>1
  <2>. HIDE DEF Pick
  <2>. QED BY <2>1, <2>2
<1>. HIDE DEF F
<1>. QED BY <1>4, <1>5, <1>6

-----------------------------------------------------------------------------
(* The depth of a symbol is its distance.                                    *)

\* Within counts hops.
LEMMA WithinSteps ==
  ASSUME NEW G, G \subseteq Edges, start \in Symbols
  PROVE  /\ Within(G) \in [Nat -> SUBSET Symbols]
         /\ Within(G)[0] = {start}
         /\ \A k \in Nat : Within(G)[k + 1] = Within(G)[k] \cup
               {e.to : e \in {l \in G : l.allowed /\ l.from \in Within(G)[k]}}
<1>. DEFINE further(S) == S \cup {e.to : e \in {l \in G : l.allowed /\ l.from \in S}}
            step == [S \in SUBSET Symbols |-> further(S)]
            Is(w) == w = [k \in Nat |-> IF k = 0 THEN {start} ELSE further(w[k - 1])]
<1>1. step \in [SUBSET Symbols -> SUBSET Symbols]
  <2>1. \A S \in SUBSET Symbols : further(S) \in SUBSET Symbols
    BY DEF Edges
  <2>. HIDE DEF further
  <2>. QED BY <2>1
<1>2. PICK F \in [Nat -> SUBSET Symbols] : F[0] = {start} /\ \A k \in Nat : F[k + 1] = step[F[k]]
  <2>1. {start} \in SUBSET Symbols
    OBVIOUS
  <2>. DEFINE A == SUBSET Symbols
              a == {start}
  <2>2. a \in A /\ step \in [A -> A]
    BY <1>1, <2>1
  <2>3. \E F \in [Nat -> A] : F[0] = a /\ \A k \in Nat : F[k + 1] = step[F[k]]
    <3>. HIDE DEF step, A, a
    <3>. QED BY <2>2, Iterated
  <2>. QED BY <2>3
<1>3. Is(F)
  <2>1. ASSUME NEW k \in Nat PROVE F[k] = IF k = 0 THEN {start} ELSE further(F[k - 1])
    <3>1. CASE k = 0
      BY <1>2, <3>1
    <3>2. CASE k # 0
      <4>1. k - 1 \in Nat /\ (k - 1) + 1 = k
        BY <3>2
      <4>2. F[k] = step[F[k - 1]] /\ F[k - 1] \in SUBSET Symbols
        <5>. HIDE DEF step
        <5>. QED BY <1>2, <4>1
      <4>. HIDE DEF further
      <4>. QED BY <3>2, <4>2
    <3>. QED BY <3>1, <3>2
  <2>. HIDE DEF further, step
  <2>. QED BY <2>1
<1>4. Within(G) = CHOOSE w : Is(w)
  BY DEF Within
<1>5. Is(Within(G))
  <2>. HIDE DEF Is
  <2>. QED BY <1>3, <1>4
<1>6. Within(G)[0] = {start}
  BY <1>5
<1>7. ASSUME NEW k \in Nat PROVE Within(G)[k + 1] = further(Within(G)[k])
  <2>1. k + 1 \in Nat /\ k + 1 # 0 /\ (k + 1) - 1 = k
    OBVIOUS
  <2>. HIDE DEF further
  <2>. QED BY <1>5, <2>1
<1>8. Within(G) \in [Nat -> SUBSET Symbols]
  <2>. DEFINE Fine == {k \in Nat : Within(G)[k] \in SUBSET Symbols}
  <2>1. 0 \in Fine
    BY <1>6
  <2>2. ASSUME NEW k \in Nat, k \in Fine PROVE k + 1 \in Fine
    <3>1. further(Within(G)[k]) \in SUBSET Symbols
      BY <2>2 DEF Edges
    <3>. HIDE DEF further
    <3>. QED BY <1>7, <3>1
  <2>3. Nat \subseteq Fine
    <3>. HIDE DEF Fine
    <3>. QED BY <2>1, <2>2, AllNumbers
  <2>4. \A k \in Nat : Within(G)[k] \in SUBSET Symbols
    BY <2>3
  <2>5. Within(G) = [k \in Nat |-> Within(G)[k]]
    <3>. HIDE DEF further, Fine
    <3>. QED BY <1>5
  <2>. QED BY <2>4, <2>5
<1>. QED BY <1>6, <1>7, <1>8

\* While the start stays, the hops depend on the graph alone.
LEMMA WithinLater ==
  ASSUME start' = start
  PROVE  Within(ever)' = Within(ever') /\ Within(always)' = Within(always')
BY DEF Within
\* More edges bring more within so many hops.
LEMMA WithinGrows ==
  ASSUME NEW G, NEW H, G \subseteq H, H \subseteq Edges, start \in Symbols
  PROVE  \A k \in Nat : Within(G)[k] \subseteq Within(H)[k]
<1>. DEFINE Fine == {k \in Nat : Within(G)[k] \subseteq Within(H)[k]}
<1>1. 0 \in Fine
  BY WithinSteps
<1>2. ASSUME NEW k \in Nat, k \in Fine PROVE k + 1 \in Fine
  <2>1. Within(G)[k + 1] \subseteq Within(H)[k + 1]
    BY <1>2, WithinSteps
  <2>. QED BY <2>1
<1>3. Nat \subseteq Fine
  <2>. HIDE DEF Fine
  <2>. QED BY <1>1, <1>2, AllNumbers
<1>. QED BY <1>3

-----------------------------------------------------------------------------
\* Each reached symbol but the start hangs below the one it was reached from,
\* by an edge that existed; no path down the tree is longer than it has symbols.
Tree ==
  /\ start \in Visited /\ depths[start] = 0
  /\ \A s \in Visited \ {start} :
       /\ predecessor[s] \in Visited /\ depths[s] = depths[predecessor[s]] + 1
       /\ \E e \in ever : e.allowed /\ e.from = predecessor[s] /\ e.to = s
  /\ \A s \in Visited : depths[s] < Cardinality(Visited)
  /\ phase = "found" => target \in Visited

\* The queue holds symbols of at most two depths, the nearer ones first.
Order ==
  /\ phase = "pop" =>
       \A i \in 1 .. Len(queue) : depths[queue[i]] <= depths[queue[1]] + 1
  /\ phase = "edges" =>
       \A i \in 1 .. Len(queue) :
         depths[node] <= depths[queue[i]] /\ depths[queue[i]] <= depths[node] + 1
  /\ phase \in {"pop", "edges"} =>
       \A i, j \in 1 .. Len(queue) : i <= j => depths[queue[i]] <= depths[queue[j]]

\* Whatever was declined, a reached symbol that is not too deep has its edges
\* followed, is being expanded, or waits.
Waiting ==
  phase \in {"pop", "edges"} =>
    \A s \in Visited : Followed(s) \/ Queued(s) \/ (phase = "edges" /\ s = node)
                         \/ depths[s] >= caps.max_depth

\* The two halves of DepthIsDistance.
Near == \A s \in Visited : \A k \in Nat : s \in Within(always)[k] => depths[s] <= k
Far  == \A s \in Visited : s \in Within(ever)[depths[s]]

\* The depths of reached symbols are numbers.
LEMMA DepthIsNat ==
  ASSUME TypeOK, NEW s \in Visited
  PROVE  s \in Symbols /\ depths[s] \in Nat
BY DEF TypeOK, Visited

\* While a symbol is expanded, everything nearer to the start has been reached.
LEMMA NearerReached ==
  ASSUME IInv, Sound, Tree, Order, Waiting, Near, phase = "edges"
  PROVE  \A k \in Nat : k <= depths[node] => Within(always)[k] \subseteq Visited
<1>. DEFINE Fine == {k \in Nat : k <= depths[node] => Within(always)[k] \subseteq Visited}
<1>0. /\ TypeOK /\ always \subseteq Edges /\ start \in Symbols
      /\ node \in Visited /\ depths[node] \in Nat
      /\ depths[node] < caps.max_depth /\ caps.max_depth \in Nat
  BY ArgsTyped, DepthIsNat DEF IInv, TypeOK, Frontier, Caps
<1>1. 0 \in Fine
  BY <1>0, WithinSteps DEF Tree
<1>2. ASSUME NEW k \in Nat, k \in Fine PROVE k + 1 \in Fine
  <2>. SUFFICES ASSUME k + 1 <= depths[node], NEW x \in Within(always)[k + 1]
                PROVE  x \in Visited
    OBVIOUS
  <2>1. Within(always)[k] \subseteq Visited
    BY <1>0, <1>2
  <2>2. CASE x \in Within(always)[k]
    BY <2>1, <2>2
  <2>3. CASE x \notin Within(always)[k]
    <3>1. PICK e \in always : e.allowed /\ e.from \in Within(always)[k] /\ e.to = x
      BY <1>0, <2>3, WithinSteps
    <3>2. e.from \in Visited /\ depths[e.from] <= k /\ depths[e.from] \in Nat
      BY <1>0, <2>1, <3>1, DepthIsNat DEF Near
    <3>3. depths[e.from] < depths[node]
      BY <1>0, <3>2
    <3>4. ~Queued(e.from)
      BY <1>0, <3>3, <3>2, DepthIsNat DEF Queued, Order, IInv, Frontier
    <3>5. Followed(e.from)
      BY <1>0, <3>2, <3>3, <3>4 DEF Waiting
    <3>. QED BY <3>1, <3>5 DEF Followed
  <2>. QED BY <2>2, <2>3
<1>3. Nat \subseteq Fine
  <2>. HIDE DEF Fine
  <2>. QED BY <1>1, <1>2, AllNumbers
<1>. QED BY <1>3

Distances == Tree /\ Near /\ Far

\* A step that leaves the tree alone keeps what it says.
LEMMA TreeStays ==
  ASSUME IInv, IInv', Distances, UNCHANGED <<start, target, depths, predecessor>>,
         ever \subseteq ever', always' \subseteq always,
         phase' = "found" => phase = "found"
  PROVE  Distances'
<1>0. /\ TypeOK /\ start \in Symbols /\ ever' \subseteq Edges /\ ever \subseteq Edges
      /\ always \subseteq Edges /\ always' \subseteq Edges
  BY ArgsTyped DEF IInv, TypeOK
<1>1. Visited' = Visited
  BY DEF Visited
<1>2. Tree'
  BY <1>1 DEF Distances, Tree
<1>3. Near'
  <2>. SUFFICES ASSUME NEW s \in Visited, NEW k \in Nat, s \in Within(always')[k]
                PROVE  depths[s] <= k
    BY <1>1, WithinLater DEF Near
  <2>. QED BY <1>0, WithinGrows DEF Distances, Near
<1>4. Far'
  <2>. SUFFICES ASSUME NEW s \in Visited PROVE s \in Within(ever')[depths[s]]
    BY <1>1, WithinLater DEF Far
  <2>. QED BY <1>0, WithinGrows, DepthIsNat DEF Distances, Far
<1>. QED BY <1>2, <1>3, <1>4 DEF Distances

\* What reaching a symbol does to the tree.
LEMMA Grown ==
  ASSUME IInv, Sound, NEW e \in todo, Reach(e)
  PROVE  /\ node \in Visited /\ depths[node] \in Nat
         /\ e.to \in Symbols \ Visited /\ e.from = node /\ e \in ever /\ e.allowed
         /\ Visited' = Visited \cup {e.to}
         /\ \A s \in Visited : depths'[s] = depths[s] /\ predecessor'[s] = predecessor[s]
         /\ depths'[e.to] = depths[node] + 1 /\ predecessor'[e.to] = node
         /\ UNCHANGED <<start, target, ever, always>>
<1>1. TypeOK /\ e.to \in Symbols /\ e.to \notin Visited /\ phase = "edges" /\ e.allowed
  BY ArgsTyped DEF IInv, TypeOK, Edges, Reach
<1>2. node \in Visited /\ node \in Symbols /\ depths[node] \in Nat
  BY <1>1, DepthIsNat DEF IInv, Frontier
<1>3. e.from = node /\ e \in ever
  BY <1>1 DEF Sound
<1>4. /\ depths' = [depths EXCEPT ![e.to] = depths[node] + 1]
      /\ predecessor' = [predecessor EXCEPT ![e.to] = node]
      /\ UNCHANGED <<start, target, ever, always>>
  BY DEF Reach, args
<1>5. depths[node] + 1 # None
  BY <1>1, <1>2, ArgsTyped
<1>6. /\ \A s \in Symbols \ {e.to} : depths'[s] = depths[s] /\ predecessor'[s] = predecessor[s]
      /\ depths'[e.to] = depths[node] + 1 /\ predecessor'[e.to] = node
  BY <1>1, <1>4 DEF TypeOK
<1>7. Visited' = Visited \cup {e.to}
  BY <1>1, <1>5, <1>6 DEF Visited
<1>8. \A s \in Visited : s \in Symbols \ {e.to}
  BY <1>1 DEF Visited
<1>. QED BY <1>1, <1>2, <1>3, <1>4, <1>6, <1>7, <1>8

\* A symbol is reached at its distance: everything nearer was reached before.
LEMMA ReachDistances ==
  ASSUME IInv, IInv', Sound, Distances, Order, Waiting, NEW e \in todo, Reach(e)
  PROVE  Distances'
<1>0. /\ TypeOK /\ start \in Symbols /\ ever \subseteq Edges /\ always \subseteq Edges
      /\ Tree /\ Near /\ Far /\ phase = "edges"
  BY ArgsTyped DEF IInv, TypeOK, Distances, Reach
<1>1. Tree'
  <2>1. start' \in Visited' /\ depths'[start'] = 0
    BY <1>0, Grown DEF Tree
  <2>2. ASSUME NEW s \in Visited' \ {start'}
        PROVE  /\ predecessor'[s] \in Visited' /\ depths'[s] = depths'[predecessor'[s]] + 1
               /\ \E l \in ever' : l.allowed /\ l.from = predecessor'[s] /\ l.to = s
    <3>1. CASE s = e.to
      BY <3>1, Grown
    <3>2. CASE s # e.to
      <4>1. s \in Visited \ {start}
        BY <2>2, <3>2, Grown
      <4>. QED BY <1>0, <4>1, Grown DEF Tree
    <3>. QED BY <3>1, <3>2
  <2>3. ASSUME NEW s \in Visited' PROVE depths'[s] < Cardinality(Visited')
    <3>1. IsFiniteSet(Visited) /\ Cardinality(Visited) \in Nat
      BY SymbolsAssumption, FS_Subset, FS_CardinalityType DEF Visited
    <3>2. Cardinality(Visited') = Cardinality(Visited) + 1
      BY <3>1, Grown, FS_AddElement
    <3>3. s \in Visited => depths'[s] = depths[s] /\ depths[s] \in Nat
      BY <1>0, Grown, DepthIsNat
    <3>4. depths[node] < Cardinality(Visited) /\ (s \in Visited => depths[s] < Cardinality(Visited))
      BY <1>0, Grown DEF Tree
    <3>. QED BY <3>1, <3>2, <3>3, <3>4, Grown
  <2>4. phase' = "found" => target' \in Visited'
    BY <1>0, Grown DEF Reach
  <2>. QED BY <2>1, <2>2, <2>3, <2>4 DEF Tree
<1>2. Near'
  <2>. SUFFICES ASSUME NEW s \in Visited', NEW k \in Nat, s \in Within(always)[k]
                PROVE  depths'[s] <= k
    BY WithinLater, Grown DEF Near
  <2>1. CASE s \in Visited
    BY <1>0, <2>1, Grown DEF Near
  <2>2. CASE s = e.to
    <3>1. ~(k <= depths[node])
      BY <1>0, <2>2, NearerReached, Grown
    <3>. QED BY <2>2, <3>1, Grown
  <2>. QED BY <2>1, <2>2, Grown
<1>3. Far'
  <2>. SUFFICES ASSUME NEW s \in Visited' PROVE s \in Within(ever)[depths'[s]]
    BY WithinLater, Grown DEF Far
  <2>1. CASE s \in Visited
    BY <1>0, <2>1, Grown DEF Far
  <2>2. CASE s = e.to
    <3>1. node \in Within(ever)[depths[node]]
      BY <1>0, Grown DEF Far
    <3>2. e.to \in Within(ever)[depths[node] + 1]
      <4>1. Within(ever)[depths[node] + 1] = Within(ever)[depths[node]] \cup
              {l.to : l \in {x \in ever : x.allowed /\ x.from \in Within(ever)[depths[node]]}}
        BY <1>0, WithinSteps, Grown
      <4>2. e \in {x \in ever : x.allowed /\ x.from \in Within(ever)[depths[node]]}
        BY <3>1, Grown
      <4>. QED BY <4>1, <4>2
    <3>. QED BY <2>2, <3>2, Grown
  <2>. QED BY <2>1, <2>2, Grown
<1>. QED BY <1>1, <1>2, <1>3 DEF Distances

\* It is queued behind those of its depth.
LEMMA ReachOrder ==
  ASSUME IInv, IInv', Sound, Order, NEW e \in todo, Reach(e)
  PROVE  Order'
<1>0. /\ TypeOK /\ queue \in Seq(Symbols) /\ phase = "edges" /\ Frontier /\ node' = node
      /\ Enqueue(e.to)
  BY DEF IInv, TypeOK, Reach
<1>1. /\ queue' \in Seq(Symbols)
      /\ \A i \in 1 .. Len(queue') :
           \/ queue'[i] = e.to /\ i >= Len(queue)
           \/ i \in 1 .. Len(queue) /\ queue'[i] = queue[i] /\ queue[i] \in Visited
  <2>1. CASE e.to = target
    BY <1>0, <2>1 DEF Enqueue, Frontier
  <2>2. CASE e.to # target
    <3>1. /\ queue' = Append(queue, e.to) /\ queue' \in Seq(Symbols)
          /\ Len(queue') = Len(queue) + 1 /\ Len(queue) \in Nat
          /\ queue'[Len(queue) + 1] = e.to
          /\ \A i \in 1 .. Len(queue) : queue'[i] = queue[i]
      BY <1>0, <2>2, Grown DEF Enqueue
    <3>2. \A i \in 1 .. Len(queue') : i = Len(queue) + 1 \/ i \in 1 .. Len(queue)
      BY <3>1
    <3>. QED BY <1>0, <3>1, <3>2 DEF Frontier
  <2>. QED BY <2>1, <2>2
<1>2. depths'[node'] = depths[node] /\ depths[node] \in Nat
  BY <1>0, Grown
<1>3. ASSUME NEW i \in 1 .. Len(queue')
      PROVE  /\ depths'[queue'[i]] \in Nat
             /\ depths[node] <= depths'[queue'[i]] /\ depths'[queue'[i]] <= depths[node] + 1
  BY <1>0, <1>1, <1>2, Grown, DepthIsNat DEF Order
<1>4. ASSUME NEW i \in 1 .. Len(queue'), NEW j \in 1 .. Len(queue'), i <= j
      PROVE  depths'[queue'[i]] <= depths'[queue'[j]]
  <2>1. CASE queue'[j] = e.to
    BY <1>2, <1>3, <2>1, Grown
  <2>2. CASE queue'[j] # e.to
    <3>1. j \in 1 .. Len(queue) /\ queue'[j] = queue[j] /\ queue[j] \in Visited
      BY <1>1, <2>2
    <3>2. CASE i \in 1 .. Len(queue) /\ queue'[i] = queue[i] /\ queue[i] \in Visited
      BY <1>0, <1>4, <3>1, <3>2, Grown DEF Order
    <3>3. CASE queue'[i] = e.to /\ i >= Len(queue)
      <4>1. i = j
        BY <1>0, <1>4, <3>1, <3>3
      <4>. QED BY <1>3, <4>1
    <3>. QED BY <1>1, <3>2, <3>3
  <2>. QED BY <2>1, <2>2
<1>5. phase' # "pop"
  BY <1>0 DEF Reach
<1>. QED BY <1>2, <1>3, <1>4, <1>5 DEF Order

\* It waits, unless it is the target.
LEMMA ReachWaiting ==
  ASSUME IInv, IInv', Sound, Waiting, NEW e \in todo, Reach(e)
  PROVE  Waiting'
<1>0. TypeOK /\ phase = "edges" /\ Enqueue(e.to) /\ node' = node /\ caps' = caps
  BY DEF IInv, Reach, args
<1>. SUFFICES ASSUME phase' = "edges", NEW s \in Visited'
              PROVE  \/ Followed(s)' \/ Queued(s)' \/ s = node
                     \/ depths'[s] >= caps.max_depth
  BY <1>0 DEF Waiting, Reach
<1>1. e.to # target
  BY DEF Reach
<1>2. CASE s = e.to
  BY <1>0, <1>1, <1>2, Grown, Enqueued
<1>3. CASE s \in Visited
  <2>1. Followed(s) \/ Queued(s) \/ s = node \/ depths[s] >= caps.max_depth
    BY <1>0, <1>3 DEF Waiting
  <2>2. Followed(s) => Followed(s)'
    BY Grown DEF Followed
  <2>. QED BY <1>0, <1>3, <2>1, <2>2, Enqueued, Grown
<1>. QED BY <1>2, <1>3, Grown

\* Every step keeps the tree, the queue's order and what waits.
LEMMA NextKeepsSearch ==
  ASSUME IInv, IInv', Sound, Distances, Order, Waiting, [Next]_vars
  PROVE  Distances' /\ Order' /\ Waiting'
<1>. USE DEF args, tree, expand, report
<1>0. TypeOK /\ TypeOK' /\ queue \in Seq(Symbols) /\ Frontier /\ caps \in Caps /\ History
  BY ArgsTyped DEF IInv, TypeOK
<1>1. ASSUME UNCHANGED <<start, target, caps, depths, predecessor, always, ever>>,
             UNCHANGED <<node, queue>>, phase' = phase \/ phase' \in {"ended", "error"}
      PROVE  Distances' /\ Order' /\ Waiting'
  <2>1. Distances'
    BY <1>1, TreeStays
  <2>2. Visited' = Visited
    BY <1>1 DEF Visited
  <2>. QED BY <1>1, <2>1, <2>2 DEF Order, Waiting, Followed, Queued
<1>2. ASSUME NEW e \in Links, Commit(e) PROVE Distances' /\ Order' /\ Waiting'
  <2>1. /\ ever \subseteq ever' /\ always' \subseteq always
        /\ UNCHANGED <<start, target, caps, depths, predecessor, node, queue, phase>>
    BY <1>2 DEF Commit
  <2>2. Distances'
    BY <2>1, TreeStays
  <2>3. Visited' = Visited
    BY <2>1 DEF Visited
  <2>. QED BY <2>1, <2>2, <2>3 DEF Order, Waiting, Followed, Queued
<1>3. ASSUME phase = "pop", queue # <<>>, queue' = Tail(queue),
             UNCHANGED <<start, target, caps, depths, predecessor, always, ever>>,
             \/ phase' = "pop" /\ TooDeep(Head(queue))
             \/ phase' = "edges" /\ node' = Head(queue)
      PROVE  Distances' /\ Order' /\ Waiting'
  <2>1. Distances'
    BY <1>3, TreeStays
  <2>2. Visited' = Visited
    BY <1>3 DEF Visited
  <2>3. Order'
    <3>1. /\ \A i \in 1 .. Len(queue') : /\ i + 1 \in 1 .. Len(queue) /\ queue'[i] = queue[i + 1]
                                        /\ queue'[i] \in Visited /\ i \in Nat
          /\ Head(queue) = queue[1] /\ 1 \in 1 .. Len(queue) /\ Head(queue) \in Visited
          /\ queue' \in Seq(Symbols)
      BY <1>0, <1>3, Popped DEF Frontier
    <3>2. \A i \in 1 .. Len(queue') : /\ depths[queue'[i]] \in Nat
                                     /\ depths[Head(queue)] \in Nat
                                     /\ depths[Head(queue)] <= depths[queue'[i]]
                                     /\ depths[queue'[i]] <= depths[Head(queue)] + 1
      BY <1>0, <1>3, <3>1, DepthIsNat DEF Order
    <3>3. \A i, j \in 1 .. Len(queue') : i <= j => depths[queue'[i]] <= depths[queue'[j]]
      <4>. SUFFICES ASSUME NEW i \in 1 .. Len(queue'), NEW j \in 1 .. Len(queue'), i <= j
                    PROVE  depths[queue'[i]] <= depths[queue'[j]]
        OBVIOUS
      <4>1. i + 1 <= j + 1
        OBVIOUS
      <4>. QED BY <1>3, <3>1, <4>1 DEF Order
    <3>4. phase' = "pop" => \A i \in 1 .. Len(queue') : depths[queue'[i]] <= depths[queue'[1]] + 1
      <4>. SUFFICES ASSUME NEW i \in 1 .. Len(queue')
                    PROVE  depths[queue'[i]] <= depths[queue'[1]] + 1
        OBVIOUS
      <4>1. 1 \in 1 .. Len(queue')
        BY <3>1
      <4>. QED BY <3>2, <4>1
    <3>. QED BY <1>3, <3>2, <3>3, <3>4 DEF Order
  <2>4. Waiting'
    <3>. SUFFICES ASSUME NEW s \in Visited
                  PROVE  \/ Followed(s) \/ Queued(s)' \/ (phase' = "edges" /\ s = node')
                         \/ depths[s] >= caps.max_depth
      BY <1>3, <2>2 DEF Waiting, Followed
    <3>1. Followed(s) \/ Queued(s) \/ depths[s] >= caps.max_depth
      BY <1>3 DEF Waiting
    <3>2. Queued(s) => s = Head(queue) \/ Queued(s)'
      BY <1>0, <1>3, Popped
    <3>. QED BY <1>3, <3>1, <3>2 DEF TooDeep
  <2>. QED BY <2>1, <2>3, <2>4
<1>4. CASE PopDeep \/ Pop
  BY <1>3, <1>4 DEF PopDeep, Pop
<1>5. CASE NeighborsFail \/ Expire \/ End
  BY <1>1, <1>5 DEF NeighborsFail, Expire, Truncate, End
<1>6. ASSUME NEW e \in todo, OverEdges(e) \/ OverNodes(e) \/ Filter(e) \/ Revisit(e)
      PROVE  Distances' /\ Order' /\ Waiting'
  BY <1>1, <1>6 DEF OverEdges, OverNodes, Filter, Revisit, Truncate
<1>7. ASSUME NEW e \in todo, Reach(e) PROVE Distances' /\ Order' /\ Waiting'
  BY <1>7, ReachDistances, ReachOrder, ReachWaiting
<1>8. CASE NextNode
  <2>1. /\ UNCHANGED <<start, target, caps, depths, predecessor, always, ever, queue>>
        /\ phase = "edges" /\ todo = {} /\ phase' = "pop"
    BY <1>8 DEF NextNode
  <2>2. Distances'
    BY <2>1, TreeStays
  <2>3. Visited' = Visited
    BY <2>1 DEF Visited
  <2>4. Order'
    <3>. SUFFICES ASSUME NEW i \in 1 .. Len(queue)
                  PROVE  depths[queue[i]] <= depths[queue[1]] + 1
      BY <2>1 DEF Order
    <3>1. 1 \in 1 .. Len(queue) /\ queue[1] \in Visited /\ queue[i] \in Visited /\ node \in Visited
      BY <1>0, <2>1 DEF Frontier
    <3>2. depths[queue[1]] \in Nat /\ depths[queue[i]] \in Nat /\ depths[node] \in Nat
      BY <1>0, <3>1, DepthIsNat
    <3>. QED BY <2>1, <3>1, <3>2 DEF Order
  <2>5. Followed(node)
    BY <2>1 DEF IInv, Expanding, Followed
  <2>6. Waiting'
    BY <2>1, <2>3, <2>5 DEF Waiting, Followed, Queued
  <2>. QED BY <2>2, <2>4, <2>6
<1>9. CASE UNCHANGED vars
  BY <1>1, <1>9 DEF vars
<1>. QED BY <1>2, <1>4, <1>5, <1>6, <1>7, <1>8, <1>9 DEF Next, Step, Examine

LEMMA InitSearch ==
  ASSUME Init, IInv
  PROVE  Distances /\ Order /\ Waiting
<1>0. /\ TypeOK /\ start \in Symbols /\ ever \subseteq Edges /\ always \subseteq Edges
      /\ queue = <<start>> /\ depths = [s \in Symbols |-> IF s = start THEN 0 ELSE None]
      /\ 0 # None
  BY ArgsTyped DEF IInv, TypeOK, Init
<1>1. Visited = {start} /\ depths[start] = 0
  BY <1>0 DEF Visited
<1>2. Cardinality(Visited) = 1
  BY <1>1, FS_Singleton
<1>3. Tree
  BY <1>0, <1>1, <1>2 DEF Tree, Init
<1>4. Near /\ Far
  BY <1>0, <1>1, WithinSteps DEF Near, Far
<1>5. Order
  <2>1. Len(queue) = 1 /\ queue[1] = start
    BY <1>0
  <2>2. \A i \in 1 .. Len(queue) : i = 1
    BY <2>1
  <2>3. phase # "edges"
    BY DEF Init
  <2>. QED BY <1>1, <2>1, <2>2, <2>3 DEF Order
<1>6. Waiting
  <2>1. Len(queue) = 1 /\ queue[1] = start
    BY <1>0
  <2>. QED BY <1>1, <2>1 DEF Waiting, Queued
<1>. QED BY <1>3, <1>4, <1>5, <1>6 DEF Distances

-----------------------------------------------------------------------------
(* The path of a search that has found its target.                           *)

\* One step back along the predecessors, unless the path is complete.
Back(path) ==
  LET prev == predecessor[Head(path)]
  IN  IF Head(path) = start \/ prev = None THEN path ELSE <<prev>> \o path

\* reconstruct_path goes back step by step.
LEMMA PathSteps ==
  ASSUME TypeOK, target \in Symbols
  PROVE  \E B : /\ B[0] = <<target>> /\ \A k \in Nat : B[k + 1] = Back(B[k])
                /\ Path = B[Cardinality(Symbols)]
<1>. DEFINE A == Seq(Symbols) \ {<<>>}
            a == <<target>>
            step == [p \in A |-> Back(p)]
            Is(b) == b = [k \in Nat |-> IF k = 0 THEN a ELSE Back(b[k - 1])]
<1>1. step \in [A -> A]
  <2>1. ASSUME NEW p \in A PROVE Back(p) \in A
    <3>1. Head(p) \in Symbols
      OBVIOUS
    <3>2. predecessor[Head(p)] \in Symbols \cup {None}
      BY <3>1 DEF TypeOK
    <3>3. ASSUME NEW q \in Symbols PROVE <<q>> \o p \in A
      <4>1. Len(<<q>> \o p) # 0 /\ <<q>> \o p \in Seq(Symbols)
        OBVIOUS
      <4>. QED BY <4>1
    <3>. QED BY <3>2, <3>3 DEF Back
  <2>. QED BY <2>1
<1>2. a \in A
  OBVIOUS
<1>3. PICK F \in [Nat -> A] : F[0] = a /\ \A k \in Nat : F[k + 1] = step[F[k]]
  <2>. HIDE DEF A, a, step
  <2>. QED BY <1>1, <1>2, Iterated
<1>4. Is(F)
  <2>1. ASSUME NEW k \in Nat PROVE F[k] = IF k = 0 THEN a ELSE Back(F[k - 1])
    <3>1. CASE k = 0
      BY <1>3, <3>1
    <3>2. CASE k # 0
      <4>1. k - 1 \in Nat /\ (k - 1) + 1 = k
        BY <3>2
      <4>2. F[k] = step[F[k - 1]] /\ F[k - 1] \in A
        <5>. HIDE DEF step, A
        <5>. QED BY <1>3, <4>1
      <4>. HIDE DEF A
      <4>. QED BY <3>2, <4>2
    <3>. QED BY <3>1, <3>2
  <2>. HIDE DEF step, A, a
  <2>. QED BY <1>3, <2>1
<1>5. PICK B : Path = B[Cardinality(Symbols)] /\ B = CHOOSE b : Is(b)
  BY DEF Path, Back
<1>6. Is(B)
  <2>. HIDE DEF Is
  <2>. QED BY <1>4, <1>5
<1>7. B[0] = a
  BY <1>6
<1>8. ASSUME NEW k \in Nat PROVE B[k + 1] = Back(B[k])
  <2>1. k + 1 \in Nat /\ k + 1 # 0 /\ (k + 1) - 1 = k
    OBVIOUS
  <2>. QED BY <1>6, <2>1
<1>. QED BY <1>5, <1>7, <1>8

\* The i-th hop is along an allowed edge that existed.
Hop(p, i) == \E e \in ever : e.allowed /\ e.from = p[i] /\ e.to = p[i + 1]
\* A path of so many hops that ends at the target.
Leads(p, k) ==
  /\ p \in Seq(Symbols) /\ Len(p) = k + 1 /\ p[k + 1] = target
  /\ p[1] \in Visited /\ depths[p[1]] = depths[target] - k
  /\ \A i \in 1 .. k : Hop(p, i)

\* Where such a path begins.
LEMMA HeadOf ==
  ASSUME NEW k \in Nat, NEW p, Leads(p, k)
  PROVE  Head(p) = p[1] /\ Head(p) \in Visited
BY DEF Leads

\* One step back makes it one hop longer.
LEMMA BackLeads ==
  ASSUME TypeOK, Tree, target \in Visited, NEW k \in Nat, k < depths[target],
         NEW p, Leads(p, k)
  PROVE  Leads(Back(p), k + 1)
<1>. DEFINE h == p[1]
            q == predecessor[h]
            r == <<q>> \o p
<1>0. depths[target] \in Nat /\ depths[h] \in Nat /\ h \in Visited /\ Head(p) = h
  BY DepthIsNat, HeadOf DEF Leads
<1>1. h # start
  BY <1>0 DEF Leads, Tree
<1>2. /\ q \in Visited /\ depths[h] = depths[q] + 1 /\ depths[q] \in Nat
      /\ q \in Symbols /\ q # None
  BY <1>0, <1>1, DepthIsNat, SymbolsAssumption DEF Tree
<1>3. Back(p) = r
  BY <1>0, <1>1, <1>2 DEF Back
<1>4. p \in Seq(Symbols) /\ Len(p) = k + 1
  BY DEF Leads
<1>5. /\ r \in Seq(Symbols) /\ Len(r) = k + 2 /\ r[1] = q
      /\ \A i \in 1 .. k + 1 : r[i + 1] = p[i]
  <2>. HIDE DEF q
  <2>. QED BY <1>2, <1>4
<1>. HIDE DEF r, q, h
<1>6. ASSUME NEW i \in 1 .. k + 1 PROVE Hop(r, i)
  <2>1. CASE i = 1
    <3>1. r[1] = q /\ r[1 + 1] = h
      BY <1>5 DEF h
    <3>2. \E e \in ever : e.allowed /\ e.from = q /\ e.to = h
      BY <1>0, <1>1 DEF Tree, q
    <3>. QED BY <2>1, <3>1, <3>2 DEF Hop
  <2>2. CASE i # 1
    <3>1. i - 1 \in 1 .. k /\ i - 1 \in 1 .. k + 1 /\ (i - 1) + 1 = i /\ i \in 1 .. k + 1
      BY <2>2
    <3>2. r[i] = p[i - 1] /\ r[i + 1] = p[i]
      BY <1>5, <3>1
    <3>3. Hop(p, i - 1)
      BY <3>1 DEF Leads
    <3>. QED BY <3>1, <3>2, <3>3 DEF Hop
  <2>. QED BY <2>1, <2>2
<1>7. r[(k + 1) + 1] = target
  BY <1>5 DEF Leads
<1>8. depths[q] = depths[target] - (k + 1)
  BY <1>0, <1>2 DEF Leads, h
<1>. QED BY <1>2, <1>3, <1>5, <1>6, <1>7, <1>8 DEF Leads

\* After as many steps as the target is deep the path is at the start, and
\* further steps leave it alone.
LEMMA PathLeads ==
  ASSUME TypeOK, Tree, target \in Visited
  PROVE  Leads(Path, depths[target]) /\ Path[1] = start
<1>0. target \in Symbols /\ depths[target] \in Nat
  BY DepthIsNat
<1>1. PICK B : /\ B[0] = <<target>> /\ \A k \in Nat : B[k + 1] = Back(B[k])
               /\ Path = B[Cardinality(Symbols)]
  BY <1>0, PathSteps
<1>. DEFINE On == {k \in Nat : k <= depths[target] => Leads(B[k], k)}
<1>2. Nat \subseteq On
  <2>1. 0 \in On
    <3>1. <<target>> \in Seq(Symbols) /\ Len(<<target>>) = 0 + 1 /\ <<target>>[0 + 1] = target
      BY <1>0
    <3>2. <<target>>[1] = target /\ depths[target] = depths[target] - 0
      BY <1>0
    <3>3. Leads(<<target>>, 0)
      BY <3>1, <3>2 DEF Leads
    <3>. QED BY <1>1, <3>3
  <2>2. ASSUME NEW k \in Nat, k \in On PROVE k + 1 \in On
    BY <1>0, <1>1, <2>2, BackLeads
  <2>. HIDE DEF On
  <2>. QED BY <2>1, <2>2, AllNumbers
<1>. DEFINE d == depths[target]
<1>3. Leads(B[d], d)
  BY <1>0, <1>2
<1>4. B[d][1] = start /\ Head(B[d]) = start
  <2>1. B[d][1] \in Visited /\ depths[B[d][1]] = 0 /\ Head(B[d]) = B[d][1]
    BY <1>0, <1>3, HeadOf DEF Leads
  <2>2. ASSUME NEW s \in Visited, depths[s] = 0 PROVE s = start
    <3>. SUFFICES ASSUME s # start PROVE FALSE
      OBVIOUS
    <3>1. depths[s] = depths[predecessor[s]] + 1 /\ depths[predecessor[s]] \in Nat
      BY DepthIsNat DEF Tree
    <3>. QED BY <2>2, <3>1
  <2>. QED BY <2>1, <2>2
<1>. DEFINE Stays == {k \in Nat : B[d + k] = B[d]}
<1>5. Nat \subseteq Stays
  <2>1. 0 \in Stays
    BY <1>0
  <2>2. ASSUME NEW k \in Nat, k \in Stays PROVE k + 1 \in Stays
    <3>1. d + k \in Nat /\ d + (k + 1) = (d + k) + 1
      BY <1>0
    <3>2. B[(d + k) + 1] = Back(B[d])
      BY <1>1, <2>2, <3>1
    <3>3. Back(B[d]) = B[d]
      BY <1>4 DEF Back
    <3>. QED BY <3>1, <3>2, <3>3
  <2>. HIDE DEF Stays
  <2>. QED BY <2>1, <2>2, AllNumbers
<1>6. Cardinality(Symbols) \in Nat /\ d <= Cardinality(Symbols)
  <2>1. Visited \subseteq Symbols
    BY DEF Visited
  <2>2. /\ Cardinality(Visited) \in Nat /\ Cardinality(Symbols) \in Nat
        /\ Cardinality(Visited) <= Cardinality(Symbols)
    BY <2>1, SymbolsAssumption, FS_Subset, FS_CardinalityType
  <2>3. d < Cardinality(Visited)
    BY DEF Tree
  <2>. QED BY <1>0, <2>2, <2>3
<1>7. Path = B[d]
  <2>1. Cardinality(Symbols) - d \in Nat /\ d + (Cardinality(Symbols) - d) = Cardinality(Symbols)
    BY <1>0, <1>6
  <2>2. B[d + (Cardinality(Symbols) - d)] = B[d]
    BY <1>5, <2>1
  <2>. QED BY <1>1, <2>1, <2>2
<1>. QED BY <1>3, <1>4, <1>7

-----------------------------------------------------------------------------

SearchInv == IInv /\ Sound /\ Distances /\ Order /\ Waiting

LEMMA SearchInvariance == Spec => []SearchInv
<1>1. Init /\ IInv => Sound /\ Distances /\ Order /\ Waiting
  BY InitSound, InitSearch
<1>2. /\ IInv /\ IInv' /\ Sound /\ Distances /\ Order /\ Waiting /\ [Next]_vars
      => Sound' /\ Distances' /\ Order' /\ Waiting'
  BY NextKeepsSound, NextKeepsSearch
<1>. QED BY <1>1, <1>2, InitEstablishes, Invariance, PTL DEF Spec, SearchInv

\* bfs expands its queue in order, so a symbol is reached at its distance: the
\* depth it is reported with is that of a way that existed, and no way that
\* existed all the time is shorter.
THEOREM DepthIsDistanceHolds == Spec => []DepthIsDistance
<1>1. SearchInv => DepthIsDistance
  <2>. SUFFICES ASSUME SearchInv PROVE DepthIsDistance
    OBVIOUS
  <2>1. \A s \in Visited : \A k \in 0 .. Cardinality(Symbols) :
          s \in Within(always)[k] => depths[s] <= k
    BY SymbolsAssumption, FS_CardinalityType DEF SearchInv, Distances, Near
  <2>2. \A s \in Visited : s \in Within(ever)[depths[s]]
    BY DEF SearchInv, Distances, Far
  <2>. QED BY <2>1, <2>2, Zenon DEF DepthIsDistance
<1>. QED BY <1>1, SearchInvariance, PTL

\* reconstruct_path: the path to the target starts at the start, has as many
\* hops as the target is deep, and each is an allowed edge that existed.
THEOREM PathIsRealHolds == Spec => []PathIsReal
<1>1. SearchInv => PathIsReal
  <2>. SUFFICES ASSUME SearchInv, phase = "found"
                PROVE  /\ Path[1] = start /\ Path[Len(Path)] = target
                       /\ Len(Path) = depths[target] + 1
                       /\ \A i \in 1 .. Len(Path) - 1 : Hop(Path, i)
    BY Zenon DEF PathIsReal, Hop
  <2>0. TypeOK /\ Tree
    BY DEF SearchInv, IInv, Distances
  <2>1. target \in Visited /\ depths[target] \in Nat
    BY <2>0, DepthIsNat DEF Tree
  <2>2. Leads(Path, depths[target]) /\ Path[1] = start
    BY <2>0, <2>1, PathLeads
  <2>3. Len(Path) = depths[target] + 1 /\ Len(Path) - 1 = depths[target]
    BY <2>1, <2>2 DEF Leads
  <2>. QED BY <2>2, <2>3 DEF Leads
<1>. QED BY <1>1, SearchInvariance, PTL

=============================================================================
