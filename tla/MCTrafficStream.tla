--------------------------- MODULE MCTrafficStream ---------------------------
(* Values for TLC: two drivers, one segment, and one observation for every *)
(* way through Processor.Add.                                              *)
EXTENDS TrafficStream

CONSTANTS MinTime, MaxTime   (* bound: recorded times are MinTime..MaxTime   *)

(* status, vehicle, speed, matched, eligible, key, maxSpeed                *)
MCEligible ==
  [status |-> "IN TRIP", vehicle |-> "car", speed |-> 6, matched |-> TRUE, eligible |-> TRUE,
   key |-> 0, maxSpeed |-> 10]

MCKind ==
  { MCEligible,
    [MCEligible EXCEPT !.vehicle = "bike", !.speed = 9, !.maxSpeed = Nil],
    [MCEligible EXCEPT !.status = "ONLINE"],
    [MCEligible EXCEPT !.status = "OFFLINE"],
    [MCEligible EXCEPT !.matched = FALSE, !.eligible = FALSE, !.key = Nil, !.maxSpeed = Nil],
    [MCEligible EXCEPT !.key = -1],
    [MCEligible EXCEPT !.maxSpeed = 0] }

(* Driver AnyKind may send any kind, also a date in the window of the zero *)
(* time, the others only plain eligible ones.                              *)
CONSTANT AnyKind

MCSent ==
  {x \in Driver \X (MinTime..MaxTime) \X MCKind : x[1] = AnyKind \/ x[3] = MCEligible}
    \cup {<<AnyKind, ZeroTime + 1, MCEligible>>}

MCObservation ==
  { [driver |-> d, at |-> t, status |-> k.status, vehicle |-> k.vehicle, speed |-> k.speed,
     matched |-> k.matched, eligible |-> k.eligible, key |-> k.key, maxSpeed |-> k.maxSpeed] :
    <<d, t, k>> \in MCSent }
=============================================================================
