--------------------------- MODULE MCBenchTargets ---------------------------
(* Values for TLC: three drivers, recorded around a full minute.           *)
EXTENDS BenchTargets

MCTrimmed == [d1 |-> "d1", d2 |-> "d2", d3 |-> "d3"] @@ (" d1" :> "d1") @@ (" " :> "")

MCRow(id, time, tenths) ==
  [driver_id |-> id, time |-> time, t_timestamp |-> [minute |-> time, tenths |-> tenths],
   lng |-> 105, lat |-> 21, speed |-> Nil, bearing |-> -1, horizontal_acc |-> 5]

Late == MinuteTenths - 4   (* rounds to the full minute                      *)

Common ==
  <<MCRow("d1", 1, 10), MCRow("d2", 1, 20), MCRow(" d1", 1, Late), MCRow("d3", 2, 10), MCRow("d1", 2, 20)>>

MCRecording ==
  { Common, <<>>,
    <<MCRow("d1", 2, 0), MCRow("d1", 1, 0), MCRow("d2", 3, 0)>>,
    <<MCRow("d1", 1, 0), MCRow("d2", 1, 0), [MCRow("d2", 2, 0) EXCEPT !.lat = 91]>>,
    <<MCRow("d1", 1, 0), MCRow("d2", 1, 0), [MCRow("d3", 2, 0) EXCEPT !.speed = Infinite]>>,
    <<MCRow("d1", 1, 0), MCRow(" ", 1, 0)>>,
    <<MCRow("d1", 0, 0), MCRow("d1", 5, 0), MCRow("d2", 2, 0)>> }

MCFlags ==
  [cycles : {0, 2}, maxDrivers : {0, 2}, eventsPerDriver : {0, 1}, timeShift : {0, 86400000}]
=============================================================================
