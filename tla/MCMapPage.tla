----------------------------- MODULE MCMapPage -----------------------------
(* Values for TLC: four roads of 1 km, the first two of them two-way.  The *)
(* server answers whole pages, so a bit more than it was asked for.        *)
EXTENDS MapPage

Way(edge, key) == [edge |-> edge, key |-> key, length |-> 1]

Graph == <<Way(1, 2), Way(1, 3), Way(2, 4), Way(2, 5), Way(3, 6), Way(4, 8)>>

MCDistance == {1, 2, 3}

MCServed == [km \in MCDistance |-> SubSeq(Graph, 1, 3 + km)]
=============================================================================
