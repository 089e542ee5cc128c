---------------------------- MODULE DriverState ----------------------------
(***************************************************************************)
(* traffic.DriverStateBuffer: the last observation taken from each driver, *)
(* which keeps overlapping traces from being counted twice.  Of a driver's *)
(* state only LastTimestamp is ever read: LastStatus, LastGraphVersion,    *)
(* LastTraversalKey and LastSeenAt are left out.                           *)
(***************************************************************************)
EXTENDS Observation

VARIABLE driverStates   (* partial: driver -> LastTimestamp                *)

NewDriverStateBuffer == driverStates = [d \in {} |-> 0]

Known(o) == o.driver \in DOMAIN driverStates

(* Add's early returns: a repeated observation is dropped without an       *)
(* error, an invalid or older one is an error.                             *)
Repeated(o) == Known(o) /\ o.at = driverStates[o.driver]

(* Without the comparison, and with a repeated time taken for an older one. *)
NeverOlder(o) == FALSE

OlderOrEqual(o) == Known(o) /\ o.at <= driverStates[o.driver]

Older(o) == Known(o) /\ o.at < driverStates[o.driver]

StateRefuses(o) == ~IsValid(o) \/ Older(o)

(* Every other observation is remembered, whether it is aggregated or not. *)
Remember(o) ==
  driverStates' = [d \in DOMAIN driverStates \cup {o.driver} |->
                     IF d = o.driver THEN o.at ELSE driverStates[d]]
=============================================================================
