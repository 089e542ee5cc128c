---------------------------- MODULE Observation ----------------------------
(***************************************************************************)
(* matching.MatchedObservation and the two predicates of                   *)
(* traffic/observation.go.  An observation is a record with                *)
(*   driver, at (RecordedAt), status, vehicle, speed        of the point,  *)
(*   matched, eligible, key (TraversalKey), maxSpeed        of the match.  *)
(* Nil is the nil pointer.  The graph version is one constant per process  *)
(* (main.go gives both matchers the same one) and is left out; so are the  *)
(* checks of a blank driver, a blank graph version and a negative point    *)
(* index, which Canonicalize, main.go and adapter.go keep out.             *)
(***************************************************************************)
EXTENDS Integers

CONSTANT Nil

ZeroTime == 0   (* Go's zero time.Time, 1 January of year 1 UTC: IsZero()    *)

PayloadStatus == {"IN TRIP", "ONLINE", "OFFLINE"}   (* what gps.Canonicalize lets in *)
PayloadVehicle == {"car", "bike"}

IsValid(o) ==
  /\ o.at # ZeroTime
  /\ o.speed >= 0
  /\ o.status \in {"IN TRIP", "ONLINE"}
  /\ o.vehicle \in PayloadVehicle

CanAggregate(o) ==
  /\ IsValid(o)
  /\ o.status = "IN TRIP"
  /\ o.matched
  /\ o.eligible
  /\ o.key # Nil
  /\ o.key >= 0

NormalizeVehicleType(v) == IF v = "bike" THEN "motorcycle" ELSE v
=============================================================================
