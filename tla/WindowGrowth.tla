---------------------------- MODULE WindowGrowth ----------------------------
(***************************************************************************)
(* A segment window that grows sample by sample, as Aggregator.Add grows   *)
(* it, with the congestion state that Calculate would give it at each      *)
(* moment: how the state depends on the samples.                           *)
(***************************************************************************)
EXTENDS Calculator

CONSTANTS
  Sampler, Speed,   (* what samples are made of: drivers and speeds         *)
  RefSpeed,         (* reference speeds                                     *)
  MaxLength         (* bound: samples of the window                         *)

(* What IsValid and Calculate let through.                                 *)
ASSUME GrowthAssumption ==
  Speed \subseteq Nat /\ RefSpeed \subseteq Nat \ {0} /\ Nil \notin RefSpeed

VARIABLES samples, reference

growthVars == <<samples, reference>>

SpeedSample == [driver : Sampler, speed : Speed]

GrowthInit ==
  /\ samples \in {<<s>> : s \in SpeedSample}
  /\ reference \in RefSpeed \cup {Nil}

Grow ==
  /\ Len(samples) < MaxLength
  /\ \E s \in SpeedSample : samples' = Append(samples, s)
  /\ UNCHANGED reference

GrowthSpec == GrowthInit /\ [][Grow]_growthVars

-----------------------------------------------------------------------------
(* The median by its reference definition: half the sum of the least and   *)
(* the greatest speed that has at most half of the samples on either side. *)
MedianIsMiddle ==
  LET list == SpeedsOf(samples)
      Half(Side(_)) == 2 * Cardinality({i \in DOMAIN list : Side(list[i])}) <= Len(list)
      Middle == {v \in ToSet(list) : Half(LAMBDA x : x < v) /\ Half(LAMBDA x : x > v)}
  IN  TwiceMedian(list) = Min(Middle) + Max(Middle)

StateOf(list, speed) == Calculate([key |-> "k", samples |-> list], speed, 0)

(* More evidence never takes a published level or confidence away.         *)
EvidenceNeverShrinks ==
  [][LET before == StateOf(samples, reference)
         after == StateOf(samples', reference')
     IN  /\ before.level # "UNKNOWN" => after.level # "UNKNOWN"
         /\ AtMost(before.confidence, after.confidence)]_growthVars

LevelRank(level) == CASE level = "FREE" -> 3 [] level = "SLOW" -> 2 [] level = "CONGESTED" -> 1

(* One more sample at the median speed or above never makes a segment look *)
(* more congested, one below never less.                                   *)
SampleMovesLevelItsWay ==
  [][LET before == StateOf(samples, reference)
         after == StateOf(samples', reference')
         new == Last(samples').speed
     IN  before.level # "UNKNOWN" =>
           /\ 2 * new >= before.twiceSpeed => LevelRank(after.level) >= LevelRank(before.level)
           /\ 2 * new <= before.twiceSpeed => LevelRank(after.level) <= LevelRank(before.level)]_growthVars
=============================================================================
