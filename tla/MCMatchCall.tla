----------------------------- MODULE MCMatchCall -----------------------------
(* Values for TLC: plain posts with any answer, and posts that vary in one *)
(* respect with a plain answer.                                            *)
EXTENDS MatchCall

MCTrimmed == [d1 |-> "d1", d2 |-> "d2"] @@ (" d1" :> "d1") @@ (" " :> "") @@ (Nil :> "")

MCUpper ==
  ("IN TRIP" :> "IN TRIP") @@ (" online" :> "ONLINE") @@ ("Offline" :> "OFFLINE")
    @@ ("parked" :> "PARKED") @@ (Nil :> "")

MCLower == [car |-> "car", bike |-> "bike", van |-> "van"] @@ ("CAR " :> "car") @@ (Nil :> "")

(* A client's two readings of its clock, the coarse one skew minutes off.  *)
MCPost(driver, vehicle, taken, skew) ==
  [taken |-> taken,
   payload |->
     [f \in RequiredNumber |-> 1] @@
     [driver_id |-> driver, vehicle_type |-> vehicle, status |-> "IN TRIP",
      time |-> taken \div MinuteTenths + skew,
      t_timestamp |-> [minute |-> (taken \div MinuteTenths) % MinutesPerHour,
                       tenths |-> taken % MinuteTenths]]]

(* The ends of the last minute of an hour.                                 *)
Full == 60 * MinuteTenths
MCTaken == {Full - MinuteTenths, Full - 10, Full - 6, Full - 5, Full - 4, Full, Full + 5}

MCPlain(taken) == {MCPost(d, v, taken, 0) : d \in {"d1", "d2"}, v \in PayloadVehicle}

MCPlainPosts ==
  {<<>>} \cup {<<p>> : p \in MCPlain(Full)} \cup
  {<<p, q>> : p \in MCPlain(Full), q \in MCPlain(Full + 10)}

With(f, values) ==
  {[taken |-> Full, payload |-> (f :> x) @@ MCPost("d1", "car", Full, 0).payload] : x \in values}

MCVaried ==
  UNION {With(f, {Nil, Infinite, -181, -91, -2, -1, 0, 90, 180, 359, 360}) : f \in RequiredNumber \cup OptionalNumber}
    \cup With("driver_id", {" d1", " ", Nil})
    \cup With("status", {" online", "Offline", "parked", Nil})
    \cup With("vehicle_type", {"CAR ", "van", Nil})
    \cup With("event_id", {1}) \cup With("side", {1, Nil})
    \cup With("time", {Nil})
    \cup With("t_timestamp", {Nil, [minute |-> 0, tenths |-> -1], [minute |-> 0, tenths |-> MinuteTenths]})
    \cup {MCPost("d1", "car", 0, 0)}

MCVariedPosts ==
  {<<p, MCPost("d1", "car", Full + MinuteTenths, 0)>> : p \in MCVaried} \cup
  {<<MCPost("d1", "car", t, s), MCPost("d1", "car", u, z)>> :
      t \in MCTaken, u \in MCTaken, s \in -1..1, z \in -1..1}

MCAnswer(indices) ==
  [index : indices, matched : BOOLEAN, eligible : BOOLEAN \cup {Nil}, key : {-1, 0, Nil}, maxSpeedKMH : {0, 36, Nil}]

(* Full variety for one answer of the two, a plain one for the others.     *)
MCPlainAnswer(indices) ==
  [index : indices, matched : {TRUE}, eligible : {TRUE}, key : {7}, maxSpeedKMH : {Nil}]

MCResponse ==
  {<<>>} \cup {<<a>> : a \in MCPlainAnswer({0})} \cup
  {<<a, b>> : a \in MCAnswer(-1..2), b \in MCPlainAnswer(0..1)} \cup
  {<<b, a>> : a \in MCAnswer(0..1), b \in MCPlainAnswer(0..1)} \cup
  {<<a, b, c>> : a \in MCPlainAnswer({0}), b \in MCPlainAnswer({1}), c \in MCPlainAnswer({2})}

MCCall ==
  [posts : MCPlainPosts, response : MCResponse] \cup
  [posts : MCVariedPosts, response : {<<a, b>> : a \in MCPlainAnswer({0}), b \in MCPlainAnswer({1})}]
=============================================================================
