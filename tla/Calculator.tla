----------------------------- MODULE Calculator -----------------------------
(***************************************************************************)
(* traffic.Calculator: the congestion state of a closed window.  Speeds    *)
(* are natural numbers here, so a ratio is kept as the pair of its parts   *)
(* <<numerator, denominator>> and compared by cross-multiplication; the    *)
(* rounding of float64 is not modelled.                                    *)
(***************************************************************************)
EXTENDS Observation, SequencesExt

CONSTANTS MinSamples, MinDrivers   (* CalculatorConfig                      *)

ASSUME CalculatorAssumption == {MinSamples, MinDrivers} \subseteq Nat \ {0}

SpeedsOf(samples) == [i \in DOMAIN samples |-> samples[i].speed]

DriversOf(samples) == {samples[i].driver : i \in DOMAIN samples}

(* sort.Float64s: at place k of the sorted list is the value that has fewer *)
(* than k values below it and at least k that are not above it.            *)
Sorted(list) ==
  [k \in DOMAIN list |->
     CHOOSE v \in ToSet(list) :
       /\ Cardinality({i \in DOMAIN list : list[i] < v}) < k
       /\ Cardinality({i \in DOMAIN list : list[i] <= v}) >= k]

(* The middle of an even number of values one place too low.               *)
TwiceLowerMiddle(list) == 2 * Sorted(list)[(Len(list) + 1) \div 2]

(* Twice the median, so that the mean of two middle speeds stays whole.    *)
TwiceMedian(list) ==
  LET values == Sorted(list)
      middle == Len(values) \div 2
  IN  IF Len(values) % 2 = 1
      THEN 2 * values[middle + 1]
      ELSE values[middle] + values[middle + 1]

(* A pair <<a, b>> stands for a / b; b > 0.                                *)
AtMost(p, q) == p[1] * q[2] <= q[1] * p[2]
Smaller(p, q) == IF AtMost(p, q) THEN p ELSE q
One == <<1, 1>>

ClampRatio(p) == IF p[1] < 0 THEN <<0, 1>> ELSE Smaller(p, One)

(* Higher ratios taken for more congestion.                                *)
ClassifyReversed(p) ==
  IF AtMost(<<8, 10>>, p) THEN "CONGESTED"
  ELSE IF AtMost(<<5, 10>>, p) THEN "SLOW"
  ELSE "FREE"

ClassifyLevel(p) ==
  IF AtMost(<<8, 10>>, p) THEN "FREE"
  ELSE IF AtMost(<<5, 10>>, p) THEN "SLOW"
  ELSE "CONGESTED"

(* Samples per driver required, rather than samples and drivers.           *)
EnoughPerDriver(samples) == Len(samples) >= MinSamples * Cardinality(DriversOf(samples))

EnoughData(samples) ==
  Len(samples) >= MinSamples /\ Cardinality(DriversOf(samples)) >= MinDrivers

CalculateConfidence(sampleCount, driverCount) ==
  IF sampleCount < MinSamples \/ driverCount < MinDrivers
  THEN <<0, 1>>
  ELSE Smaller(Smaller(<<sampleCount, 2 * MinSamples>>, One),
               Smaller(<<driverCount, 2 * MinDrivers>>, One))

(* What Calculate refuses before it looks at the samples: of its checks    *)
(* only the one of WindowStart can fail on a window that Add created.      *)
CalculateRefuses(window) == window.key.start = ZeroTime

UnknownState(window, now) ==
  [key |-> window.key, sampleCount |-> Len(window.samples),
   driverCount |-> Cardinality(DriversOf(window.samples)),
   twiceSpeed |-> TwiceMedian(SpeedsOf(window.samples)),
   reference |-> Nil, ratio |-> <<0, 1>>, level |-> "UNKNOWN",
   confidence |-> <<0, 1>>, updatedAt |-> now]

(* Calculate, given what the reference store answers (Nil: not found).     *)
(* CongestionScore is 1 - SpeedRatio and is not kept apart.                *)
Calculate(window, reference, now) ==
  LET state == UnknownState(window, now)
      ratio == ClampRatio(<<state.twiceSpeed, 2 * reference>>)
  IN  IF ~EnoughData(window.samples) \/ reference = Nil
      THEN state
      ELSE [state EXCEPT !.reference = reference, !.ratio = ratio,
              !.level = ClassifyLevel(ratio),
              !.confidence = CalculateConfidence(state.sampleCount, state.driverCount)]
=============================================================================
