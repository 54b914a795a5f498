----------------------------- MODULE MCExplorer -----------------------------
(* A small instance of Explorer.tla: an index, and the one a rename leaves. *)
EXTENDS Explorer

CONSTANTS s, t, u

Before == [symbols |-> {s, t},
           found |-> [q \in Queries |-> IF q = <<"x">> THEN <<s, t>> ELSE
                                        IF q = <<"q">> THEN <<t>> ELSE <<>>],
           refs  |-> [x \in Symbols |-> CASE x = s -> <<t>> [] x = t -> <<s, t>> [] x = u -> <<>>],
           reach |-> [x \in Symbols |-> IF x = s THEN <<t, s>> ELSE <<s>>]]
After  == [symbols |-> {s, u},
           found |-> [q \in Queries |-> IF q = <<"x">> THEN <<u>> ELSE <<>>],
           refs  |-> [x \in Symbols |-> IF x = s THEN <<u, s>> ELSE <<>>],
           reach |-> [x \in Symbols |-> <<>>]]
MCIndexes == {Before, After}
MCChars   == {"q", "/", "i", "x"}
=============================================================================
