------------------------------ MODULE MCWatch -------------------------------
(* Small instances of Watch.tla for TLC. *)
EXTENDS WatchInvariant, TLC

CONSTANTS c1, c2

NoEdits   == {}
BothEdits == {<<c1, c2>>, <<c2, c1>>}
AllAccess == {"ok", "unreadable", "unwalkable"}
FileAccess == {"ok", "unreadable"}
FileSymmetry == Permutations(Files)
=============================================================================
