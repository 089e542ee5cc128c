----------------------------- MODULE Canonical -----------------------------
(***************************************************************************)
(* internal/gps: what POST /locations decodes and Canonicalize makes of it.*)
(*                                                                         *)
(* A payload is a function from the names of its JSON fields to values; a  *)
(* field that is absent or null reads as Nil.  Its time is the number of   *)
(* the minute that the text names (Nil: no such text), its t_timestamp a   *)
(* record [minute, tenths] with the seconds in tenths of a millisecond.    *)
(***************************************************************************)
EXTENDS Observation

CONSTANTS
  Infinite,   (* NaN and the infinities, which a CSV row may hold            *)
  Trimmed,    (* strings.TrimSpace on the texts that payloads hold, the      *)
  Upper,      (* same and strings.ToUpper, the same and strings.ToLower;     *)
  Lower       (* at Nil, the text that is absent, each is the empty string   *)

RequiredNumber ==
  {"lat", "lng", "bearing", "bearing_acc", "horizontal_acc", "speed", "speed_acc",
   "time_delta", "vertical_acc", "timestamp", "altitude"}

OptionalNumber == {"delta_time", "distance"}

RequestField ==
  RequiredNumber \cup OptionalNumber
    \cup {"driver_id", "t_timestamp", "time", "status", "vehicle_type", "side"}

Field(payload, f) == IF f \in DOMAIN payload THEN payload[f] ELSE Nil

(* processLocation: a decoder with DisallowUnknownFields.  A field of      *)
(* another JSON type and text after the object, which it refuses as well,  *)
(* are left out: payloads are one object with fields of their types.       *)
DecodeRefused(payload) == ~(DOMAIN payload \subseteq RequestField)

-----------------------------------------------------------------------------
TextRefused(payload) ==
  \/ Trimmed[Field(payload, "driver_id")] = ""
  \/ Upper[Field(payload, "status")] \notin PayloadStatus
  \/ Lower[Field(payload, "vehicle_type")] \notin PayloadVehicle

(* The values that a required number may take; a speed forgotten.          *)
AllowedAnySpeed(f) ==
  CASE f = "lat" -> -90..90
    [] f = "lng" -> -180..180
    [] f = "bearing" -> -1..359
    [] f = "timestamp" -> Nat \ {0}
    [] f \in {"altitude", "speed"} -> Int
    [] OTHER -> Nat

Allowed(f) ==
  CASE f = "lat" -> -90..90
    [] f = "lng" -> -180..180
    [] f = "bearing" -> -1..359
    [] f = "timestamp" -> Nat \ {0}
    [] f = "altitude" -> Int
    [] OTHER -> Nat

NumberRefused(payload) ==
  \/ \E f \in RequiredNumber : Field(payload, f) \notin Allowed(f)
  \/ \E f \in OptionalNumber : Field(payload, f) \notin Nat \cup {Nil}

-----------------------------------------------------------------------------
MinutesPerHour == 60
MinuteMs == 60000
MinuteTenths == 10 * MinuteMs

(* What parseRecordedAt accepts, and the same without the comparison of    *)
(* the stamp's minute with the minute of the time.                         *)
TimeAcceptedAnyMinute(payload) ==
  /\ Nil \notin {Field(payload, "time"), Field(payload, "t_timestamp")}
  /\ payload.t_timestamp.tenths \in 0..(MinuteTenths - 1)

TimeAccepted(payload) ==
  /\ Nil \notin {Field(payload, "time"), Field(payload, "t_timestamp")}
  /\ payload.t_timestamp.minute = payload.time % MinutesPerHour
  /\ payload.t_timestamp.tenths \in 0..(MinuteTenths - 1)

(* math.Round(seconds * 1000)                                              *)
RoundedMs(tenths) == (tenths + 5) \div 10

RecordedAt(payload) == payload.time * MinuteMs + RoundedMs(payload.t_timestamp.tenths)

CanonicalizeRefused(payload) ==
  TextRefused(payload) \/ NumberRefused(payload) \/ ~TimeAccepted(payload)

(* The canonical event; the fields that pass through unused are left out.  *)
Canonicalize(payload) ==
  [driver |-> Trimmed[payload.driver_id],
   at |-> RecordedAt(payload),
   status |-> Upper[payload.status],
   vehicle |-> Lower[payload.vehicle_type],
   speed |-> payload.speed]
=============================================================================
