---------------------------- MODULE TraceBuffer ----------------------------
(***************************************************************************)
(* internal/trace: Buffer, the per-driver store of GPS points that cuts a  *)
(* driver's stream into overlapping traces.                                *)
(*                                                                         *)
(* Buffer.Add runs entirely under Buffer.mu, so each of its outcomes is    *)
(* one atomic action.  The module has no next-state relation: TraceStream  *)
(* closes it with an environment, Pipeline composes it with the rest of    *)
(* the service.                                                            *)
(***************************************************************************)
EXTENDS Integers, SequencesExt

CONSTANTS
  Driver,     (* non-empty driver identifiers                              *)
  NoDriver,   (* the empty driver_id                                       *)
  Event,      (* canonical events: records with at least .driver and .at   *)
  Config      (* the BufferConfigs that NewBuffer may be called with       *)

ASSUME EventAssumption ==
  /\ NoDriver \notin Driver
  /\ \A e \in Event : e.driver \in Driver \cup {NoDriver} /\ e.at \in Int

ASSUME ConfigAssumption ==
  Config \subseteq [maxPoints : Int, maxDuration : Int, minPoints : Int, overlapPoints : Int]

VARIABLES
  config,           (* Buffer.config: set by NewBuffer, never changed       *)
  pointsByDriver    (* Buffer.pointsByDriver; an absent key reads as <<>>   *)

(* BufferConfig.Validate with its last comparison off by one.               *)
ValidateLoose(c) ==
  /\ c.maxPoints >= 2 /\ c.maxDuration > 0 /\ c.minPoints >= 2
  /\ c.minPoints <= c.maxPoints
  /\ c.overlapPoints >= 0 /\ c.overlapPoints <= c.maxPoints

(* BufferConfig.Validate                                                   *)
Validate(c) ==
  /\ c.maxPoints >= 2
  /\ c.maxDuration > 0
  /\ c.minPoints >= 2
  /\ c.minPoints <= c.maxPoints
  /\ c.overlapPoints >= 0
  /\ c.overlapPoints < c.maxPoints

(* NewBuffer: an invalid configuration yields no buffer at all.            *)
NewBuffer ==
  /\ config \in {c \in Config : Validate(c)}
  /\ pointsByDriver = [d \in Driver |-> <<>>]

-----------------------------------------------------------------------------
(* The same with a repeated time let in.                                   *)
RefusedOnlyOlder(e) ==
  e.driver # NoDriver =>
    /\ pointsByDriver[e.driver] # <<>>
    /\ e.at < Last(pointsByDriver[e.driver]).at

(* The two refusals of Add: no driver, or not newer than the last point    *)
(* that the buffer still holds for the driver.                             *)
Refused(e) ==
  e.driver # NoDriver =>
    /\ pointsByDriver[e.driver] # <<>>
    /\ e.at <= Last(pointsByDriver[e.driver]).at

(* The driver's points once e is appended.                                 *)
Grown(e) == Append(pointsByDriver[e.driver], e)

(* The same with the last comparison off by one.                           *)
ShouldEmitLate(points) ==
  /\ Len(points) >= config.minPoints
  /\ \/ Len(points) >= config.maxPoints
     \/ Last(points).at - Head(points).at > config.maxDuration

ShouldEmit(points) ==
  /\ Len(points) >= config.minPoints
  /\ \/ Len(points) >= config.maxPoints
     \/ Last(points).at - Head(points).at >= config.maxDuration

(* An overlap of the oldest points, and one that make() allocates and      *)
(* copy() does not fill.                                                   *)
OverlapHead(points) == SubSeq(points, 1, config.overlapPoints)

OverlapUncopied(points) == [i \in 1..config.overlapPoints |-> [driver |-> NoDriver, at |-> 0]]

(* points[overlapStart:], the points that also start the next trace.       *)
Overlap(points) ==
  SubSeq(points, Len(points) - config.overlapPoints + 1, Len(points))

Keep(e, points) ==
  /\ pointsByDriver' = [pointsByDriver EXCEPT ![e.driver] = points]
  /\ UNCHANGED config

(* The four outcomes of Add.  The grown slice is stored before the trace   *)
(* is built, so a slice expression that panics (overlapStart < 0) leaves   *)
(* the new point behind; the deferred Unlock still runs.                   *)
AddRefused(e) ==
  /\ Refused(e)
  /\ UNCHANGED <<config, pointsByDriver>>

AddBuffered(e) ==
  /\ ~Refused(e)
  /\ ~ShouldEmit(Grown(e))
  /\ Keep(e, Grown(e))

AddEmitted(e) ==
  /\ ~Refused(e)
  /\ ShouldEmit(Grown(e))
  /\ config.overlapPoints <= Len(Grown(e))
  /\ Keep(e, Overlap(Grown(e)))

AddPanicked(e) ==
  /\ ~Refused(e)
  /\ ShouldEmit(Grown(e))
  /\ config.overlapPoints > Len(Grown(e))
  /\ Keep(e, Grown(e))

=============================================================================
