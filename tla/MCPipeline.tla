----------------------------- MODULE MCPipeline -----------------------------
(* Values for TLC: car drivers on one segment.                             *)
EXTENDS Pipeline

CONSTANTS
  MinTime, MaxTime,   (* bound: recorded times are MinTime..MaxTime       *)
  Odd,        (* whether clients also go offline or change their vehicle    *)
  TwoPoint, LongOverlap, Default   (* which of the configurations to use    *)

MCPlain ==
  [driver : Driver, at : MinTime..MaxTime, status : {"IN TRIP"}, vehicle : {"car"}, speed : {6}]

MCOdd ==
  UNION {{[e EXCEPT !.status = "OFFLINE"] : e \in {x \in MCPlain : x.at = MinTime + 1}},
         {[e EXCEPT !.vehicle = "bike"] : e \in {x \in MCPlain : x.at = MinTime + 2}}}

MCEvent == MCPlain \cup IF Odd THEN MCOdd ELSE {}

(* pipeline_test.go's two-point traces; an overlap longer than minPoints,  *)
(* whose second point panics; the default overlap of two, made smaller.    *)
MCConfig ==
  UNION {
    IF TwoPoint THEN {[maxPoints |-> 2, minPoints |-> 2, maxDuration |-> 9, overlapPoints |-> 1]} ELSE {},
    IF LongOverlap THEN {[maxPoints |-> 4, minPoints |-> 2, maxDuration |-> 1, overlapPoints |-> 3]} ELSE {},
    IF Default THEN {[maxPoints |-> 3, minPoints |-> 2, maxDuration |-> 9, overlapPoints |-> 2]} ELSE {}}

MCAnswer ==
  { [matched |-> TRUE, eligible |-> TRUE, key |-> 0, maxSpeedKMH |-> 36],
    [matched |-> FALSE, eligible |-> Nil, key |-> Nil, maxSpeedKMH |-> Nil],
    [matched |-> TRUE, eligible |-> TRUE, key |-> -1, maxSpeedKMH |-> 36] }
=============================================================================
