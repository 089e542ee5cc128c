-------------------------- MODULE ReferenceSpeeds --------------------------
(***************************************************************************)
(* traffic.MaxSpeedReferenceStore: the last maximum speed that the matcher *)
(* reported for a segment and vehicle type.                                *)
(***************************************************************************)
EXTENDS Observation

VARIABLE speeds   (* partial: [key, vehicle] -> speed                       *)

NewReferenceSpeeds == speeds = [k \in {} |-> 0]

ReferenceKey(key, vehicle) == [key |-> key, vehicle |-> NormalizeVehicleType(vehicle)]

Recordable(o) == o.key # Nil /\ o.maxSpeed # Nil

(* The same without the check of the speed.                                *)
RecordTrustsSpeed(o) == Recordable(o) /\ o.key < 0

RecordRefuses(o) == Recordable(o) /\ (o.key < 0 \/ o.maxSpeed <= 0)

Record(o) ==
  IF Recordable(o)
  THEN LET new == ReferenceKey(o.key, o.vehicle)
       IN  speeds' = [k \in DOMAIN speeds \cup {new} |->
                        IF k = new THEN o.maxSpeed ELSE speeds[k]]
  ELSE UNCHANGED speeds

(* Get: the reference of a segment, Nil when it was never recorded.        *)
Reference(key, vehicle) ==
  LET k == ReferenceKey(key, vehicle)
  IN  IF k \in DOMAIN speeds THEN speeds[k] ELSE Nil
=============================================================================
