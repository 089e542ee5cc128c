------------------------------ MODULE Matching ------------------------------
(***************************************************************************)
(* The way of a trace through the matchers: main.vehicleMatcher picks the  *)
(* profile, graphhopper.Matcher posts the points and adaptResponse checks  *)
(* the answer and joins it with the original points.                       *)
(*                                                                         *)
(* GraphHopper is external: its answer is a sequence of records            *)
(*   index, matched, eligible, key, maxSpeedKMH                            *)
(* of which eligible, key and maxSpeedKMH may be absent (Nil).             *)
(***************************************************************************)
EXTENDS Observation, SequencesExt

(* The same without the loop over the points.                              *)
RouterTrustsFirst(points) == points # <<>> => points[1].vehicle \notin PayloadVehicle

(* vehicleMatcher.Match: the points of a trace share one vehicle type.     *)
RouterRefuses(points) ==
  points # <<>> =>
    \/ \E i \in DOMAIN points : points[i].vehicle # points[1].vehicle
    \/ points[1].vehicle \notin PayloadVehicle

Profile(points) == IF points[1].vehicle = "car" THEN "car" ELSE "motorcycle"

(* encodeGPX                                                               *)
EncodeRefuses(points) ==
  Len(points) >= 2 => \E i \in DOMAIN points : points[i].at = ZeroTime

(* The same without the check that eligible points are matched.            *)
AnswerRefusedLoosely(a) ==
  a.matched /\ (a.eligible = Nil \/ a.key = Nil)

(* An answer for one point that adaptResponse does not accept.             *)
AnswerRefused(a) ==
  \/ a.eligible = TRUE /\ ~a.matched
  \/ a.matched /\ (a.eligible = Nil \/ a.key = Nil)
  \/ a.matched /\ a.maxSpeedKMH # Nil /\ a.maxSpeedKMH <= 0

(* Every point of the trace must be answered once, in any order.           *)
ResponseRefused(points, response) ==
  \/ Len(response) # Len(points)
  \/ \E j \in DOMAIN response : response[j].index \notin 0..(Len(points) - 1)
  \/ \E i, j \in DOMAIN response : i # j /\ response[i].index = response[j].index
  \/ \E j \in DOMAIN response : AnswerRefused(response[j])

TraceRefused(trace) == \E i \in DOMAIN trace.points : trace.points[i].driver # trace.driver

(* The observation of a point: what the driver sent, what the map says.    *)
(* km/h to m/s is exact for the multiples of 18 that the instances use.    *)
Observe(point, a) ==
  [driver |-> point.driver, at |-> point.at, status |-> point.status,
   vehicle |-> point.vehicle, speed |-> point.speed,
   matched |-> a.matched,
   eligible |-> a.eligible = TRUE,
   key |-> IF a.matched THEN a.key ELSE Nil,
   maxSpeed |-> IF a.matched /\ a.maxSpeedKMH # Nil THEN (a.maxSpeedKMH * 5) \div 18 ELSE Nil]

(* The same with the answers taken in the order of the response.           *)
AdaptInResponseOrder(points, response) ==
  [i \in DOMAIN points |-> Observe(points[i], response[i])]

(* The observations of a trace, placed at the index that the answer names. *)
Adapt(points, response) ==
  [i \in DOMAIN points |->
     Observe(points[i], response[CHOOSE j \in DOMAIN response : response[j].index = i - 1])]

MatchRefused(trace, response) ==
  \/ RouterRefuses(trace.points)
  \/ EncodeRefuses(trace.points)
  \/ ResponseRefused(trace.points, response)
  \/ TraceRefused(trace)
=============================================================================
