---------------------------- MODULE MCEdgeReader ----------------------------
(* Values for TLC: two collections that share an object; both directions   *)
(* of one road, not equally long, another road, and an object without a    *)
(* length.  An int64 has four bits, and converting 2^63 yields the least   *)
(* of them, as on amd64.                                                   *)
EXTENDS EdgeReader

MCOutOfRange == -TwoTo63

ID(edge, forward) == [version |-> GraphVersion, edge |-> edge, forward |-> forward]

Forward == [id |-> ID(1, TRUE), edge |-> 1, metres |-> 5]
Backward == [id |-> ID(1, FALSE), edge |-> 1, metres |-> 6]
Other == [id |-> ID(2, TRUE), edge |-> 2, metres |-> 4]
Unmeasured == [id |-> ID(3, TRUE), edge |-> 3, metres |-> Nil]

MCCollections == <<"old", "new">>

MCStored ==
  { [old |-> {Forward, Backward, Unmeasured}, new |-> {Other}],
    [old |-> {Forward, Unmeasured}, new |-> {Backward, Other, Unmeasured}],
    [old |-> {Backward, Other, Unmeasured}, new |-> {}],
    [old |-> {Forward, Backward, Other, Unmeasured}, new |-> {Forward}] }

MCItem(edge, forward, metres) ==
  [type |-> "Feature", id |-> ID(edge, forward),
   properties |->
     [graph_version |-> GraphVersion, edge_id |-> edge, traversal_key |-> KeyOf(edge, forward),
      forward |-> forward, osm_way_id |-> 1, distance_m |-> metres, road_class |-> "primary",
      car_access |-> TRUE, motorcycle_access |-> FALSE],
   geometry |-> [type |-> "LineString", coordinates |-> <<<<105, 21>>, <<106, 21>>>>]]

MCPlainFiles ==
  { <<MCItem(2, TRUE, 4), MCItem(1, FALSE, 5)>>, <<MCItem(3, TRUE, 6), NoFeature>> }

(* An item with one property changed.                                      *)
With(f, values) ==
  {[MCItem(1, TRUE, 5) EXCEPT !.properties = (f :> x) @@ @] : x \in values}

MCVaried ==
  With("graph_version", {"v0", Nil}) \cup With("edge_id", {2, -1, Nil}) \cup
  With("traversal_key", {3, -1, Nil}) \cup With("forward", {FALSE, Nil}) \cup
  With("osm_way_id", {0, Nil}) \cup With("distance_m", {0, -1, Nil}) \cup
  With("road_class", {"service", Nil}) \cup With("car_access", {FALSE, Nil}) \cup
  With("name", {"", "street", Nil}) \cup With("traffic_status", {"unknown"}) \cup
  {[MCItem(edge, forward, 5) EXCEPT !.properties.edge_id = x, !.properties.traversal_key = key] :
     edge \in {OutOfRange, 0, TwoTo63 \div 2}, forward \in BOOLEAN,
     x \in {0, TwoTo63 \div 2, TwoTo63}, key \in {0, 1, TwoTo63}} \cup
  {[MCItem(1, TRUE, 5) EXCEPT !.id = ID(1, FALSE)],
   [MCItem(1, FALSE, 5) EXCEPT !.id = ID(1, TRUE)],
   [MCItem(1, TRUE, 5) EXCEPT !.type = "Point"],
   [MCItem(1, TRUE, 5) EXCEPT !.geometry.type = "Point"],
   [MCItem(1, TRUE, 5) EXCEPT !.geometry.coordinates = <<<<105, 21>>>>],
   [MCItem(1, TRUE, 5) EXCEPT !.geometry.coordinates = <<<<105, 21>>, <<105, 91>>>>],
   [MCItem(1, TRUE, 5) EXCEPT !.geometry.coordinates = <<<<105, 21>>, <<181, 21>>>>],
   [MCItem(1, TRUE, 5) EXCEPT !.geometry.coordinates = <<<<105>>, <<105, 21>>>>]}

MCVariedFiles ==
  {<<MCItem(1, FALSE, 5), x, MCItem(2, TRUE, 4)>> : x \in MCVaried} \cup
  {<<MCItem(0, TRUE, 5), [MCItem(OutOfRange, TRUE, 5) EXCEPT !.properties.edge_id = TwoTo63]>>}

MCSetup ==
  [op : {"all", "bounds", "distance"}, stored : MCStored, files : {MCPlainFiles}] \cup
  [op : {"all"}, stored : {[old |-> {Other}, new |-> {}]}, files : {MCVariedFiles}]

MCJob ==
  [collection : {"new"}, limit : {0}, dryRun : {FALSE}] \cup
  {[collection |-> "old", limit |-> 1, dryRun |-> FALSE],
   [collection |-> "new", limit |-> 2, dryRun |-> TRUE]}
=============================================================================
