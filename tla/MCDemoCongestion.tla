-------------------------- MODULE MCDemoCongestion --------------------------
(* Values for TLC: traces of four points that share two, as the five-point *)
(* traces of the code do, and files of at most seven rows.                 *)
EXTENDS DemoCongestion

Point(d, t) ==
  [driver |-> d, at |-> t, status |-> "IN TRIP", vehicle |-> "car", speed |-> 6, usable |-> TRUE]

Drive(d, times) == [i \in DOMAIN times |-> Point(d, times[i])]

(* Out of time order; a repeated time with another status; an unusable row *)
(* and a bike; a point of the zero time and one offline; two drivers, the  *)
(* later first in the file.                                                *)
MCFile ==
  { Nil,
    Drive(1, <<4, 3, 5, 6, 7, 8, 9>>),
    Drive(1, <<3, 4, 5, 5, 6, 7>>),
    [Drive(1, <<3, 4, 4, 5, 6>>) EXCEPT ![2].status = "ONLINE", ![5].usable = FALSE],
    [Drive(1, <<3, 4, 5, 6, 7>>) EXCEPT ![5].vehicle = "bike"],
    [Drive(1, <<1, 4, 5, 6>>) EXCEPT ![4].status = "ONLINE"],
    [Drive(1, <<3, 4, 5, 6>>) EXCEPT ![3].status = "OFFLINE"],
    Drive(2, <<3, 4, 5>>) \o Drive(1, <<3, 4, 5, 6>>) \o Drive(2, <<6>>) }

MCRequest ==
  { [keys |-> {0}, boundsOK |-> TRUE, vehicle |-> "car"],
    [keys |-> {0, 1}, boundsOK |-> TRUE, vehicle |-> "car"],
    [keys |-> {0}, boundsOK |-> TRUE, vehicle |-> "motorcycle"],
    [keys |-> {-1}, boundsOK |-> TRUE, vehicle |-> "car"],
    [keys |-> {0}, boundsOK |-> FALSE, vehicle |-> "car"] }

MCAnswer ==
  { [matched |-> TRUE, eligible |-> TRUE, key |-> 0, maxSpeedKMH |-> 36],
    [matched |-> TRUE, eligible |-> TRUE, key |-> 1, maxSpeedKMH |-> Nil],
    [matched |-> FALSE, eligible |-> Nil, key |-> Nil, maxSpeedKMH |-> Nil] }
=============================================================================
