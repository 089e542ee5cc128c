------------------------------ MODULE Importer ------------------------------
(***************************************************************************)
(* cmd/graph-edge-importer: runs of the command over one GeoJSONSeq file,  *)
(* each of which validates and SETs the features line by line and stops at *)
(* the first that fails; it may then be run again.  The module has no      *)
(* next-state relation: EdgeReader gives the collections that it writes.   *)
(*                                                                         *)
(* An item is a record [type, id, properties, geometry]: its id the        *)
(* version, edge and direction that the text names, its properties a       *)
(* function from names to values, its geometry [type, coordinates].  Nil   *)
(* is a value of the wrong JSON type; NoFeature a line that is not JSON.   *)
(***************************************************************************)
EXTENDS Integers, SequencesExt

CONSTANTS
  Nil,
  NoFeature,
  GraphVersion,   (* -graph-version                                          *)
  TwoTo63,        (* 2^63, one more than the largest int64                   *)
  OutOfRange,     (* what the machine's conversion of 2^63 to int64 yields   *)
  Job,            (* command lines: [collection, limit, dryRun]              *)
  MaxRuns         (* bound: runs of the command                              *)

ASSUME ImporterAssumption ==
  /\ MaxRuns \in Nat /\ \A j \in Job : j.limit \in Nat /\ j.dryRun \in BOOLEAN
  /\ Nil \notin Nat /\ Nil \notin BOOLEAN
  /\ TwoTo63 \in Nat \ {0} /\ OutOfRange \in -TwoTo63..(TwoTo63 - 1)

VARIABLES
  file,      (* the lines of the input, blank ones left out                 *)
  run,       (* the run: job, pc, number of lines read and processed        *)
  runs,      (* history: runs begun                                         *)
  written    (* history: [collection, item] of the SETs that were applied   *)

importerVars == <<file, run, runs, written>>

-----------------------------------------------------------------------------
allowedProperties ==
  {"graph_version", "edge_id", "traversal_key", "forward", "osm_way_id", "distance_m",
   "road_class", "car_access", "motorcycle_access", "name"}

includedRoadClasses ==
  {"motorway", "motorway_link", "trunk", "trunk_link", "primary", "primary_link",
   "secondary", "secondary_link", "tertiary", "tertiary_link"}

Property(item, name) == IF name \in DOMAIN item.properties THEN item.properties[name] ELSE Nil

(* nonNegativeIntegerProperty compares float64s, where math.MaxInt64 is    *)
(* 2^63: that number passes, and only then meets the int64 it overflows.   *)
NonNegativeInteger == 0..TwoTo63

Int64(number) == IF number = TwoTo63 THEN OutOfRange ELSE number

Wrap(n) ==
  IF n >= TwoTo63 THEN n - 2 * TwoTo63 ELSE IF n < -TwoTo63 THEN n + 2 * TwoTo63 ELSE n

KeyOf(edge, forward) == Wrap(2 * edge + IF forward THEN 0 ELSE 1)

GeometryFits(geometry) ==
  /\ geometry.type = "LineString"
  /\ Len(geometry.coordinates) >= 2
  /\ \A i \in DOMAIN geometry.coordinates :
       /\ Len(geometry.coordinates[i]) >= 2
       /\ geometry.coordinates[i][1] \in -180..180
       /\ geometry.coordinates[i][2] \in -90..90

(* The id names the version, the edge and the direction of the feature,    *)
(* and so does the traversal key; and the same with the id's direction     *)
(* left unread.                                                            *)
IdentityAnyDirection(item) ==
  /\ item.id.edge = Int64(Property(item, "edge_id"))
  /\ Int64(Property(item, "traversal_key")) = KeyOf(item.id.edge, Property(item, "forward"))

IdentityFits(item) ==
  LET edge == Int64(Property(item, "edge_id"))
      forward == Property(item, "forward")
  IN  /\ item.id = [version |-> GraphVersion, edge |-> edge, forward |-> forward]
      /\ Int64(Property(item, "traversal_key")) = KeyOf(edge, forward)

AccessFits(item) ==
  LET access == {Property(item, "car_access"), Property(item, "motorcycle_access")}
  IN  access \subseteq BOOLEAN /\ TRUE \in access

ValidateFeature(item) ==
  /\ item.type = "Feature"
  /\ DOMAIN item.properties \subseteq allowedProperties
  /\ Property(item, "graph_version") = GraphVersion
  /\ Property(item, "edge_id") \in NonNegativeInteger
  /\ Property(item, "traversal_key") \in NonNegativeInteger
  /\ Property(item, "forward") \in BOOLEAN
  /\ IdentityFits(item)
  /\ Property(item, "osm_way_id") \in NonNegativeInteger
  /\ Int64(Property(item, "osm_way_id")) # 0
  /\ Property(item, "distance_m") \in Nat \ {0}
  /\ Property(item, "road_class") \in includedRoadClasses
  /\ AccessFits(item)
  /\ "name" \in DOMAIN item.properties => item.properties["name"] \notin {Nil, ""}
  /\ GeometryFits(item.geometry)

Accepted(line) == line # NoFeature /\ ValidateFeature(line)

-----------------------------------------------------------------------------
Begin(job) == [job |-> job, pc |-> "running", read |-> 0, processed |-> 0]

NewImporter(files) ==
  /\ file \in files
  /\ run \in {Begin(job) : job \in Job}
  /\ runs = 1
  /\ written = {}

NextLine == file[run.read + 1]

HasLine == run.pc = "running" /\ run.read < Len(file)

Ends(pc) == run' = [run EXCEPT !.pc = pc]

(* The loop's last statement: the limit is compared once it is reached.    *)
Processed ==
  run' = [run EXCEPT !.read = @ + 1, !.processed = @ + 1,
            !.pc = IF run.job.limit \in 1..(run.processed + 1) THEN "succeeded" ELSE @]

(* A line that is no JSON, or no feature that may be imported, or longer   *)
(* than the scanner's buffer, ends the run.                                *)
RefuseLine ==
  /\ HasLine
  /\ ~Accepted(NextLine)
  /\ Ends("failed")
  /\ UNCHANGED <<file, runs, written>>

CheckLine ==
  /\ HasLine /\ run.job.dryRun
  /\ Accepted(NextLine)
  /\ Processed
  /\ UNCHANGED <<file, runs, written>>

(* importFeature: a SET that Tile38 applies.                               *)
Writes == written' = written \cup {[collection |-> run.job.collection, item |-> NextLine]}

SetLine ==
  /\ HasLine /\ ~run.job.dryRun
  /\ Accepted(NextLine)
  /\ Writes
  /\ Processed
  /\ UNCHANGED <<file, runs>>

(* A SET that returns an error, though Tile38 may have applied it before   *)
(* the connection broke; and an error that is passed over.                 *)
SetErrs(applied) ==
  /\ HasLine /\ ~run.job.dryRun
  /\ Accepted(NextLine)
  /\ IF applied THEN Writes ELSE UNCHANGED written
  /\ UNCHANGED <<file, runs>>

SetIgnored(applied) == SetErrs(applied) /\ Processed

SetFails(applied) == SetErrs(applied) /\ Ends("failed")

EndOfFile ==
  /\ run.pc = "running" /\ run.read = Len(file)
  /\ Ends("succeeded")
  /\ UNCHANGED <<file, runs, written>>

RunAgain(job) ==
  /\ run.pc # "running"
  /\ runs < MaxRuns
  /\ run' = Begin(job)
  /\ runs' = runs + 1
  /\ UNCHANGED <<file, written>>
=============================================================================
