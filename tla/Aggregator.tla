----------------------------- MODULE Aggregator -----------------------------
(***************************************************************************)
(* traffic.Aggregator: samples grouped by directed segment, vehicle type   *)
(* and time window.  A SegmentWindow is the sequence of its samples: its   *)
(* Speeds are their speeds and its DriverIDs their drivers.  (A sample     *)
(* also keeps its time, which the code drops, to tell samples apart.)      *)
(***************************************************************************)
EXTENDS Observation, SequencesExt

CONSTANT WindowDuration

ASSUME WindowAssumption == WindowDuration \in Nat \ {0}

VARIABLE windows   (* partial: WindowKey -> sequence of samples             *)

NewAggregator == windows = [k \in {} |-> <<>>]

(* time.Time.Round: to the nearest multiple, a half upwards.               *)
RoundToWindow(t) == ((2 * t + WindowDuration) \div (2 * WindowDuration)) * WindowDuration

(* time.Time.Truncate: down to a multiple of the duration.                 *)
Truncate(t) == (t \div WindowDuration) * WindowDuration

WindowKeyOf(o) ==
  [key |-> o.key, vehicle |-> NormalizeVehicleType(o.vehicle), start |-> Truncate(o.at)]

SampleOf(o) == [driver |-> o.driver, at |-> o.at, speed |-> o.speed]

Bucket(k) == IF k \in DOMAIN windows THEN windows[k] ELSE <<>>

Aggregate(o) ==
  windows' = [k \in DOMAIN windows \cup {WindowKeyOf(o)} |->
                IF k = WindowKeyOf(o) THEN Append(Bucket(k), SampleOf(o)) ELSE windows[k]]

(* What the map holds, as windows.                                         *)
OpenWindows == {[key |-> k, samples |-> windows[k]] : k \in DOMAIN windows}

WindowEnd(k) == k.start + WindowDuration

(* Close(now): the windows it returns, and their removal from the map.     *)
Expired(now) == {k \in DOMAIN windows : WindowEnd(k) <= now}

Closing(now) == {[key |-> k, samples |-> windows[k]] : k \in Expired(now)}

(* The same, but the windows are emptied and stay in the map.              *)
CloseLeavesEmpty(now) ==
  windows' = [k \in DOMAIN windows |-> IF k \in Expired(now) THEN <<>> ELSE windows[k]]

Close(now) == windows' = [k \in DOMAIN windows \ Expired(now) |-> windows[k]]
=============================================================================
