----------------------------- MODULE MCTraverse -----------------------------
(* Small instances of Traverse.tla for TLC. *)
EXTENDS Traverse

CONSTANTS a, b, c, d, e

link(x, y, ok) == [from |-> x, to |-> y, allowed |-> ok]

\* A short and a long way from a to e, two cycles, and a filtered edge beside an
\* allowed one.
SomeLinks ==
  {link(a, b, TRUE), link(a, b, FALSE), link(a, c, TRUE), link(b, e, TRUE),
   link(c, d, TRUE), link(d, e, TRUE), link(d, c, TRUE), link(d, a, TRUE)}

\* impact of a, trace from a to e, and a trace from a symbol to itself.
SomeQueries == {<<a, None>>, <<a, e>>, <<c, c>>}

\* No cap bites, each of them bites alone, and all of them are zero.
SomeCaps ==
  {[max_depth |-> 9, max_nodes |-> 9, max_edges |-> 9],
   [max_depth |-> 2, max_nodes |-> 9, max_edges |-> 9],
   [max_depth |-> 9, max_nodes |-> 3, max_edges |-> 9],
   [max_depth |-> 9, max_nodes |-> 9, max_edges |-> 2],
   [max_depth |-> 0, max_nodes |-> 0, max_edges |-> 0]}
=============================================================================
