----------------------------- MODULE EdgeReader -----------------------------
(***************************************************************************)
(* mapview.Tile38EdgeReader: one read of the graph edges, page by page and *)
(* collection by collection, over one Tile38 connection, while an importer *)
(* goes on writing the collections.  ReadAll scans everything, ReadBounds  *)
(* stops at a number of features, ReadDistance (GET /v1/graph-edges) at a  *)
(* number of metres of road.                                               *)
(*                                                                         *)
(* Tile38 is external: a cursor counts the objects listed so far.  SCAN    *)
(* lists a collection by id; INTERSECTS walks an index that any write may  *)
(* rearrange.  Only objects that the query's bounds cover are modelled.    *)
(***************************************************************************)
EXTENDS Importer

CONSTANTS
  Collections,   (* the reader's collections, in order                       *)
  Setup,         (* [op, stored, files]: the method that runs, what each     *)
                 (* collection holds at first, what may be imported          *)
  PageSize,      (* searchPageSize                                           *)
  Limit,         (* ReadBounds' limit                                        *)
  Target         (* ReadDistance's targetDistanceM                           *)

(* An object of a collection, its edge and its metres maybe Nil.           *)
Object ==
  [id : [version : {GraphVersion}, edge : Int, forward : BOOLEAN],
   edge : Int \cup {Nil}, metres : Int \cup {Nil}]

ASSUME ReaderAssumption ==
  /\ {PageSize, Limit, Target} \subseteq Nat \ {0}
  /\ Collections \in Seq(ToSet(Collections)) /\ Len(Collections) > 0
  /\ \A c \in DOMAIN Collections, d \in DOMAIN Collections : Collections[c] = Collections[d] => c = d
  /\ \A job \in Job : job.collection \in ToSet(Collections)
  /\ \A setup \in Setup :
       /\ setup.op \in {"all", "bounds", "distance"}
       /\ \A lines \in setup.files : lines \in Seq(ToSet(lines))
       /\ \A c \in ToSet(Collections) :
            /\ IsFiniteSet(setup.stored[c]) /\ setup.stored[c] \subseteq Object
            /\ \A x, y \in setup.stored[c] : x.id = y.id => x = y

VARIABLES
  op,          (* the method that runs: all, bounds or distance              *)
  listing,     (* external: listing[c], the objects of c in listing order    *)
  pc,          (* reading, done, or failed (an error, no features)           *)
  place,       (* index in Collections of the one being read                 *)
  cursor,      (* where its next page starts                                 *)
  features,    (* the features so far; their ids are seenFeatureIDs          *)
  counted,     (* [edges, metres]: seenEdgeIDs, displayedDistanceM           *)
  truncated,   (* FeatureCollection.Truncated                                *)
  atStart      (* history: the ids of the objects stored when it began       *)

readerVars == <<op, pc, place, cursor, features, counted, truncated, atStart>>
vars == <<readerVars, listing, importerVars>>

-----------------------------------------------------------------------------
ObjectOf(item) ==
  [id |-> item.id, edge |-> item.properties.edge_id, metres |-> item.properties.distance_m]

(* SCAN's order of ids: any order would do.                                *)
Rank(o) == 2 * o.id.edge + IF o.id.forward THEN 0 ELSE 1

(* The orders in which a set of objects may be listed.                     *)
Listings(objects) ==
  {list \in SetToSeqs(objects) :
     op = "all" => \A i, j \in DOMAIN list : i < j => Rank(list[i]) <= Rank(list[j])}

IDs(objects) == {o.id : o \in objects}

Init ==
  /\ \E setup \in Setup :
       /\ op = setup.op
       /\ listing \in [ToSet(Collections) -> UNION {Listings(setup.stored[c]) : c \in ToSet(Collections)}]
       /\ \A c \in ToSet(Collections) : listing[c] \in Listings(setup.stored[c])
       /\ atStart = UNION {IDs(setup.stored[c]) : c \in ToSet(Collections)}
       /\ NewImporter(setup.files)
  /\ pc = "reading"
  /\ place = 1
  /\ cursor = 0
  /\ features = <<>>
  /\ counted = [edges |-> {}, metres |-> 0]
  /\ truncated = FALSE

(* SET adds the object or replaces the one with its id.                    *)
Store(c, o) ==
  LET others == {x \in ToSet(listing[c]) : x.id # o.id}
  IN  \E order \in Listings(others \cup {o}) : listing' = [listing EXCEPT ![c] = order]

(* The importer's steps, with what becomes of its collection.              *)
Import ==
  /\ \/ /\ RefuseLine \/ CheckLine \/ EndOfFile \/ SetFails(FALSE) \/ (\E job \in Job : RunAgain(job))
        /\ UNCHANGED listing
     \/ SetLine /\ Store(run.job.collection, ObjectOf(NextLine))
     \/ SetFails(TRUE) /\ Store(run.job.collection, ObjectOf(NextLine))
  /\ UNCHANGED readerVars

-----------------------------------------------------------------------------
Here == listing[Collections[place]]

Page == SubSeq(Here, cursor + 1, Min({cursor + PageSize, Len(Here)}))

(* The cursor of the response: 0 at the end of the listing, which Tile38   *)
(* may notice only on an empty page after a full last one.                 *)
NextCursor ==
  IF cursor + PageSize < Len(Here) THEN {cursor + PageSize}
  ELSE {0} \cup IF Len(Page) = PageSize THEN {cursor + PageSize} ELSE {}

FeatureIDs == {features[i].id : i \in DOMAIN features}

(* The features of a page that are new, and the same without the check.    *)
FreshUnchecked(page) == page

Fresh(page) ==
  LET fresh[n \in 0..Len(page)] ==
        IF n = 0 THEN <<>>
        ELSE IF page[n].id \in FeatureIDs THEN fresh[n - 1] ELSE Append(fresh[n - 1], page[n])
  IN  fresh[Len(page)]

(* Stopping after one collection, and asking for the same page again.      *)
ProceedOnce(next) ==
  IF next # 0 THEN cursor' = next /\ UNCHANGED <<pc, place>>
  ELSE pc' = "done" /\ UNCHANGED <<place, cursor>>

ProceedAgain(next) ==
  IF next # 0 THEN UNCHANGED <<pc, place, cursor>>
  ELSE IF place < Len(Collections) THEN place' = place + 1 /\ cursor' = 0 /\ UNCHANGED pc
  ELSE pc' = "done" /\ UNCHANGED <<place, cursor>>

(* The next page, else the next collection, else the end.                  *)
Proceed(next) ==
  IF next # 0 THEN cursor' = next /\ UNCHANGED <<pc, place>>
  ELSE IF place < Len(Collections) THEN place' = place + 1 /\ cursor' = 0 /\ UNCHANGED pc
  ELSE pc' = "done" /\ UNCHANGED <<place, cursor>>

Truncate ==
  /\ truncated' = TRUE
  /\ pc' = "done"
  /\ UNCHANGED <<place, cursor>>

Reading(method) ==
  /\ op = method /\ pc = "reading"
  /\ UNCHANGED <<op, atStart, listing, importerVars>>

(* ReadAll: one SCAN page.                                                 *)
ScanPage ==
  /\ Reading("all")
  /\ features' = features \o Fresh(Page)
  /\ \E next \in NextCursor : Proceed(next)
  /\ UNCHANGED <<counted, truncated>>

(* ReadBounds: one INTERSECTS page; it ends at the first new feature for   *)
(* which there is no room.                                                 *)
RoomLeft == Limit - Len(features)

OverflowsEarly(fresh) == Len(fresh) >= RoomLeft

Overflows(fresh) == Len(fresh) > RoomLeft

BoundsPage ==
  LET fresh == Fresh(Page)
  IN  /\ Reading("bounds")
      /\ features' = features \o SubSeq(fresh, 1, Min({Len(fresh), RoomLeft}))
      /\ IF Overflows(fresh)
         THEN Truncate
         ELSE (\E next \in NextCursor : Proceed(next)) /\ UNCHANGED truncated
      /\ UNCHANGED counted

(* ReadDistance: an edge counts once, with the first of its directions     *)
(* that has a length; the target is compared after the whole page.         *)
Measured(o) == o.edge # Nil /\ o.metres # Nil /\ o.metres > 0

CountDirections(soFar, o) ==
  IF Measured(o)
  THEN [edges |-> soFar.edges \cup {o.edge}, metres |-> soFar.metres + o.metres]
  ELSE soFar

CountEdge(soFar, o) ==
  IF Measured(o) /\ o.edge \notin soFar.edges
  THEN [edges |-> soFar.edges \cup {o.edge}, metres |-> soFar.metres + o.metres]
  ELSE soFar

CountEdges(fresh) ==
  LET count[n \in 0..Len(fresh)] ==
        IF n = 0 THEN counted ELSE CountEdge(count[n - 1], fresh[n])
  IN  count[Len(fresh)]

DistancePage ==
  /\ Reading("distance")
  /\ features' = features \o Fresh(Page)
  /\ counted' = CountEdges(Fresh(Page))
  /\ IF counted'.metres >= Target
     THEN Truncate
     ELSE (\E next \in NextCursor : Proceed(next)) /\ UNCHANGED truncated

(* Any error of the connection (its five-second deadline, a closed socket, *)
(* a reply that cannot be read) or of Tile38 ends the read.                *)
ReadFails ==
  /\ pc = "reading"
  /\ pc' = "failed"
  /\ features' = <<>>
  /\ UNCHANGED <<op, place, cursor, counted, truncated, atStart, listing, importerVars>>

ReadPage == ScanPage \/ BoundsPage \/ DistancePage

Next ==
  \/ ReadPage
  \/ ReadFails
  \/ Import

(* The reader runs on, and a deadline bounds every command.                *)
Spec == Init /\ [][Next]_vars /\ WF_vars(ReadPage)

-----------------------------------------------------------------------------
(* No feature is answered twice, though pages shift under the reader and   *)
(* collections share objects.                                              *)
EachFeatureOnce ==
  \A i, j \in DOMAIN features : features[i].id = features[j].id => i = j

(* An answer that is not marked truncated has every object stored when the *)
(* read began: with SCAN whatever is imported meanwhile, with INTERSECTS   *)
(* if nothing is (a rearranged index may hide an object from its cursor).  *)
NothingLeftOut ==
  pc = "done" /\ ~truncated /\ (op = "all" \/ written = {}) =>
    atStart \subseteq FeatureIDs

(* The metres of road of a list of features: both directions of an edge    *)
(* are one road, as long as the first of them that has a length.           *)
FirstOfRoad(list, n) ==
  Measured(list[n]) /\ \A i \in 1..(n - 1) : Measured(list[i]) => list[i].edge # list[n].edge

MetresOf(list) ==
  LET sum[n \in 0..Len(list)] ==
        IF n = 0 THEN 0 ELSE sum[n - 1] + IF FirstOfRoad(list, n) THEN list[n].metres ELSE 0
  IN  sum[Len(list)]

(* ReadBounds never answers more than its limit, and the answer is marked  *)
(* truncated only if a stored object is really missing from it.            *)
BoundsAtItsLimit ==
  op = "bounds" =>
    /\ Len(features) <= Limit
    /\ truncated => /\ Len(features) = Limit
                    /\ \E c \in ToSet(Collections) : ~(IDs(ToSet(listing[c])) \subseteq FeatureIDs)

(* ReadDistance answers the target's length of road, counting no road      *)
(* twice, and less than a page beyond it; short of it only if there is no  *)
(* more.                                                                   *)
DistanceAtItsTarget ==
  op = "distance" /\ pc = "done" =>
    /\ truncated <=> MetresOf(features) >= Target
    /\ MetresOf(SubSeq(features, 1, Len(features) - PageSize)) < Target

(* Where a read stops: with as much as was asked for, and not before.      *)
StopsAtItsLimit == BoundsAtItsLimit /\ DistanceAtItsTarget

(* Every read ends.                                                        *)
ReadEnds == <>(pc # "reading")

(* What the map and the congestion states rely on: a traversal key belongs *)
(* to one feature, whichever runs of the importer wrote it, for all edge   *)
(* ids that an int64 holds.  (The importer lets 2^63 pass as well: where   *)
(* its conversion yields -2^63, twice that is 0, the key of edge 0.)       *)
OneFeaturePerKey ==
  \A v, w \in {w \in written : w.item.properties.edge_id < TwoTo63} :
    v.item.properties.traversal_key = w.item.properties.traversal_key => v.item.id = w.item.id

(* A run that succeeds has its whole file in its collection, or as much as *)
(* its limit asks for, though runs before it failed half-way.              *)
SuccessStoredAll ==
  run.pc = "succeeded" /\ ~run.job.dryRun =>
    LET asked == IF run.job.limit = 0 THEN Len(file) ELSE Min({run.job.limit, Len(file)})
    IN  \A i \in 1..asked : file[i].id \in IDs(ToSet(listing[run.job.collection]))
=============================================================================
