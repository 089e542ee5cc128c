----------------------- MODULE TrafficProcessorProofs -----------------------
(***************************************************************************)
(* Lemmas about the traffic processor's windows, for every set of reported *)
(* windows that an environment keeps: the proofs about TrafficStream and   *)
(* about Service both rest on them.  Then the lemmas about its calculator: *)
(* sorted speeds and their median, confidence, level.                      *)
(***************************************************************************)
EXTENDS TrafficProcessor, SequenceTheorems, WellFoundedInduction, FiniteSetTheorems, TLAPS

(* Samples of one driver at one time.                                      *)
SamePoint(s, t) == s.driver = t.driver /\ s.at = t.at

HasSample(ws, s) == \E w \in ws : \E i \in DOMAIN w.samples : w.samples[i] = s

(* No point is counted at two places of these windows.                     *)
OnePlaceEach(ws) ==
  \A v, w \in ws : \A i \in DOMAIN v.samples, j \in DOMAIN w.samples :
    SamePoint(v.samples[i], w.samples[j]) => v = w /\ i = j

(* A window is open, pending or among those reported.                      *)
Apart(R) ==
  /\ pendingWindows \cap (OpenWindows \cup R) = {}
  /\ OpenWindows \cap R = {}

(* What Remember does to the state of one driver.                          *)
LEMMA RememberFacts ==
  ASSUME NEW o, Remember(o)
  PROVE  /\ DOMAIN driverStates' = DOMAIN driverStates \cup {o.driver}
         /\ driverStates'[o.driver] = o.at
         /\ \A d \in DOMAIN driverStates \ {o.driver} : driverStates'[d] = driverStates[d]
  BY DEF Remember

(* Aggregator.Close(now) only takes windows away, all of them ended.       *)
LEMMA CloseFacts ==
  ASSUME NEW now
  PROVE  /\ Closing(now) \subseteq OpenWindows
         /\ \A w \in Closing(now) : WindowEnd(w.key) <= now
         /\ Close(now) => OpenWindows' = OpenWindows \ Closing(now)
  <1>1. Closing(now) \subseteq OpenWindows /\ \A w \in Closing(now) : WindowEnd(w.key) <= now
    BY DEF Closing, Expired, OpenWindows
  <1>2. ASSUME Close(now)  PROVE OpenWindows' = OpenWindows \ Closing(now)
    <2>1. DOMAIN windows' = DOMAIN windows \ Expired(now) /\ \A k \in DOMAIN windows' : windows'[k] = windows[k]
      BY <1>2 DEF Close
    <2>2. ASSUME NEW k \in DOMAIN windows, NEW l \in Expired(now),
                 [key |-> k, samples |-> windows[k]] = [key |-> l, samples |-> windows[l]]
          PROVE  k = l
      BY <2>2
    <2>3. \A k \in DOMAIN windows :
            [key |-> k, samples |-> windows[k]] \in Closing(now) <=> k \in Expired(now)
      BY <2>2 DEF Closing
    <2> QED
      BY <2>1, <2>3 DEF OpenWindows
  <1> QED
    BY <1>1, <1>2

(* Aggregator.Add changes one open window: it appends the sample there.    *)
LEMMA AggregateFacts ==
  ASSUME NEW S, \A w \in OpenWindows : w.samples \in Seq(S), NEW o, Aggregate(o)
  PROVE  LET old == Bucket(WindowKeyOf(o))
             before == [key |-> WindowKeyOf(o), samples |-> old]
             after == [key |-> WindowKeyOf(o), samples |-> Append(old, SampleOf(o))]
         IN  /\ OpenWindows' = (OpenWindows \ {before}) \cup {after}
             /\ old \in Seq(S)
             /\ old = <<>> \/ before \in OpenWindows
  <1> DEFINE new == WindowKeyOf(o)
             old == Bucket(new)
             grown == Append(old, SampleOf(o))
             before == [key |-> new, samples |-> old]
             after == [key |-> new, samples |-> grown]
  <1>1. /\ DOMAIN windows' = DOMAIN windows \cup {new}
        /\ \A k \in DOMAIN windows' : windows'[k] = IF k = new THEN grown ELSE windows[k]
    BY DEF Aggregate
  <1>2. (new \in DOMAIN windows /\ old = windows[new]) \/ (new \notin DOMAIN windows /\ old = <<>>)
    BY DEF Bucket
  <1>3. old = <<>> \/ before \in OpenWindows
    BY <1>2 DEF OpenWindows
  <1>4. old \in Seq(S)
    <2>1. CASE old = <<>>
      BY <2>1, EmptySeq
    <2>2. CASE before \in OpenWindows
      <3>1. before.samples \in Seq(S)
        BY <2>2
      <3> QED
        BY <3>1
    <2> QED
      BY <1>3, <2>1, <2>2
  <1> HIDE DEF new, grown, old
  <1>5. ASSUME NEW w \in OpenWindows'  PROVE w \in (OpenWindows \ {before}) \cup {after}
    <2>1. PICK k \in DOMAIN windows' : w = [key |-> k, samples |-> windows'[k]]
      BY <1>5 DEF OpenWindows
    <2>2. CASE k = new
      BY <1>1, <2>1, <2>2
    <2>3. CASE k # new
      <3>1. w = [key |-> k, samples |-> windows[k]] /\ k \in DOMAIN windows
        BY <1>1, <2>1, <2>3
      <3>2. w # before
        <4>1. w.key # before.key
          BY <2>3, <3>1
        <4> QED
          BY <4>1
      <3> QED
        BY <3>1, <3>2 DEF OpenWindows
    <2> QED
      BY <2>2, <2>3
  <1>6. ASSUME NEW w \in (OpenWindows \ {before}) \cup {after}  PROVE w \in OpenWindows'
    <2>1. after \in OpenWindows'
      BY <1>1 DEF OpenWindows
    <2>2. ASSUME w \in OpenWindows, w # before  PROVE w \in OpenWindows'
      <3>1. PICK k \in DOMAIN windows : w = [key |-> k, samples |-> windows[k]]
        BY <2>2 DEF OpenWindows
      <3>2. k # new
        BY <1>2, <2>2, <3>1
      <3>3. k \in DOMAIN windows' /\ windows'[k] = windows[k]
        BY <1>1, <3>2
      <3> QED
        BY <3>1, <3>3 DEF OpenWindows
    <2> QED
      BY <1>6, <2>1, <2>2
  <1>7. OpenWindows' = (OpenWindows \ {before}) \cup {after}
    BY <1>5, <1>6
  <1> QED
    BY <1>3, <1>4, <1>7 DEF new, old, grown

-----------------------------------------------------------------------------
(* A sample of a point that no window has yet is appended to one window,   *)
(* and every other sample stays where it is.                               *)
LEMMA AggregateKeepsPlaces ==
  ASSUME NEW S, NEW R, NEW o, SampleOf(o) \in S,
         \A w \in OpenWindows \cup pendingWindows \cup R : w.samples \in Seq(S),
         \A w \in OpenWindows \cup pendingWindows \cup R :
           \A i \in DOMAIN w.samples : ~SamePoint(w.samples[i], SampleOf(o)),
         OnePlaceEach(OpenWindows \cup pendingWindows \cup R), Apart(R),
         Aggregate(o), UNCHANGED pendingWindows
  PROVE  /\ OnePlaceEach(OpenWindows' \cup pendingWindows' \cup R)
         /\ pendingWindows' \cap (OpenWindows' \cup R) = {} /\ OpenWindows' \cap R = {}
         /\ \A s : HasSample(OpenWindows' \cup pendingWindows' \cup R, s)
                     <=> HasSample(OpenWindows \cup pendingWindows \cup R, s) \/ s = SampleOf(o)
         /\ \A s : HasSample(OpenWindows' \cup pendingWindows', s)
                     <=> HasSample(OpenWindows \cup pendingWindows, s) \/ s = SampleOf(o)
  <1> DEFINE all == OpenWindows \cup pendingWindows \cup R
             all2 == OpenWindows' \cup pendingWindows' \cup R
             key == WindowKeyOf(o)
             new == SampleOf(o)
             old == Bucket(key)
             n == Len(old)
             before == [key |-> key, samples |-> old]
             after == [key |-> key, samples |-> Append(old, new)]
  <1>1. /\ OpenWindows' = (OpenWindows \ {before}) \cup {after}
        /\ old \in Seq(S) /\ n \in Nat
        /\ old = <<>> \/ before \in OpenWindows
    BY AggregateFacts
  <1>2. /\ DOMAIN old = 1..n
        /\ DOMAIN after.samples = 1..(n + 1)
        /\ after.samples[n + 1] = new
        /\ \A i \in 1..n : after.samples[i] = old[i]
    BY <1>1, AppendProperties
  <1>3. before.samples = old
    OBVIOUS
  <1>4. pendingWindows' = pendingWindows /\ SamePoint(new, new)
    BY DEF SamePoint
  <1>5. \A w \in all : \A i \in DOMAIN w.samples : ~SamePoint(w.samples[i], new)
    OBVIOUS
  <1> HIDE DEF before, after, new, old, n, key
  <1>6. n + 1 \in DOMAIN after.samples /\ \A i \in DOMAIN after.samples : i = n + 1 \/ i \in 1..n
    BY <1>1, <1>2
  <1>7. \A i \in 1..n : before \in OpenWindows /\ i \in DOMAIN before.samples /\ after.samples[i] = before.samples[i]
    <2>1. old = <<>> => n = 0
      BY DEF n
    <2> QED
      BY <1>1, <1>2, <1>3, <2>1
  <1>8. after \notin all
    BY <1>2, <1>4, <1>5, <1>6
  <1>9. before \notin pendingWindows \cup R \/ before \notin OpenWindows
    BY DEF Apart
  <1>10. \A w \in all2 : w = after \/ (w \in all /\ ~(w = before /\ before \in OpenWindows))
    BY <1>1, <1>4, <1>9
  <1>11. ASSUME NEW w \in all2, NEW j \in DOMAIN w.samples, NEW i \in DOMAIN after.samples,
                SamePoint(after.samples[i], w.samples[j]) \/ SamePoint(w.samples[j], after.samples[i])
         PROVE  w = after /\ i = j
    <2>0. SamePoint(after.samples[i], w.samples[j]) /\ SamePoint(w.samples[j], after.samples[i])
      BY <1>11 DEF SamePoint
    <2>1. CASE w = after
      <3>1. CASE i = n + 1 /\ j \in 1..n
        BY <1>2, <1>5, <1>7, <2>0, <2>1, <3>1
      <3>2. CASE j = n + 1 /\ i \in 1..n
        BY <1>2, <1>5, <1>7, <2>0, <2>1, <3>2 DEF SamePoint
      <3>3. CASE i \in 1..n /\ j \in 1..n
        BY <1>7, <2>0, <2>1, <3>3 DEF OnePlaceEach
      <3> QED
        BY <1>6, <1>11, <2>1, <3>1, <3>2, <3>3
    <2>2. CASE w # after
      <3>1. w \in all /\ ~(w = before /\ before \in OpenWindows)
        BY <1>10, <2>2
      <3>2. CASE i = n + 1
        BY <1>2, <1>5, <2>0, <3>1, <3>2
      <3>3. CASE i \in 1..n
        BY <1>7, <2>0, <3>1, <3>3 DEF OnePlaceEach
      <3> QED
        BY <1>6, <3>2, <3>3
    <2> QED
      BY <2>1, <2>2
  <1>12. OnePlaceEach(all2)
    <2> SUFFICES ASSUME NEW v \in all2, NEW w \in all2, NEW i \in DOMAIN v.samples, NEW j \in DOMAIN w.samples,
                        SamePoint(v.samples[i], w.samples[j])
                 PROVE  v = w /\ i = j
      BY DEF OnePlaceEach
    <2>1. CASE v = after
      BY <1>11, <2>1
    <2>2. CASE w = after
      BY <1>11, <2>2
    <2>3. CASE v # after /\ w # after
      <3>1. v \in all /\ w \in all
        BY <1>10, <2>3
      <3> QED
        BY <3>1 DEF OnePlaceEach
    <2> QED
      BY <2>1, <2>2, <2>3
  <1>13. pendingWindows' \cap (OpenWindows' \cup R) = {} /\ OpenWindows' \cap R = {}
    BY <1>1, <1>4, <1>8 DEF Apart
  <1>14. \A s : HasSample(OpenWindows', s) <=> HasSample(OpenWindows, s) \/ s = new
    <2>1. ASSUME NEW s, HasSample(OpenWindows', s)  PROVE HasSample(OpenWindows, s) \/ s = new
      <3>1. PICK w \in OpenWindows' : \E i \in DOMAIN w.samples : w.samples[i] = s
        BY <2>1 DEF HasSample
      <3>2. PICK i \in DOMAIN w.samples : w.samples[i] = s
        BY <3>1
      <3>3. CASE w = after
        BY <1>2, <1>6, <1>7, <3>2, <3>3 DEF HasSample
      <3>4. CASE w \in OpenWindows
        BY <3>2, <3>4 DEF HasSample
      <3> QED
        BY <1>1, <3>1, <3>3, <3>4
    <2>2. HasSample(OpenWindows', new)
      BY <1>1, <1>2, <1>6 DEF HasSample
    <2>3. ASSUME NEW s, HasSample(OpenWindows, s)  PROVE HasSample(OpenWindows', s)
      <3>1. PICK w \in OpenWindows : \E i \in DOMAIN w.samples : w.samples[i] = s
        BY <2>3 DEF HasSample
      <3>2. PICK i \in DOMAIN w.samples : w.samples[i] = s
        BY <3>1
      <3>3. CASE w = before
        <4>1. i \in 1..n
          BY <1>2, <1>3, <3>2, <3>3
        <4>2. i \in DOMAIN after.samples /\ after.samples[i] = s
          <5>1. 1..n \subseteq 1..(n + 1)
            BY <1>1
          <5> QED
            BY <1>2, <1>7, <3>2, <3>3, <4>1, <5>1
        <4> QED
          BY <1>1, <4>2 DEF HasSample
      <3>4. CASE w # before
        BY <1>1, <3>2, <3>4 DEF HasSample
      <3> QED
        BY <3>3, <3>4
    <2> QED
      BY <2>1, <2>2, <2>3
  <1>15. \A v, w, s : HasSample(v \cup w, s) <=> HasSample(v, s) \/ HasSample(w, s)
    BY DEF HasSample
  <1>16. ASSUME NEW s
         PROVE  /\ HasSample(OpenWindows' \cup pendingWindows' \cup R, s)
                     <=> HasSample(OpenWindows \cup pendingWindows \cup R, s) \/ s = new
                /\ HasSample(OpenWindows' \cup pendingWindows', s)
                     <=> HasSample(OpenWindows \cup pendingWindows, s) \/ s = new
    <2>1. HasSample(pendingWindows', s) <=> HasSample(pendingWindows, s)
      BY <1>4
    <2> QED
      BY <1>14, <1>15, <2>1
  <1> QED
    BY <1>12, <1>13, <1>16 DEF new

(* A flush moves the windows due to the pending and the reported ones, and *)
(* takes none away and brings none back.                                   *)
LEMMA FlushKeepsPlaces ==
  ASSUME NEW R, NEW now, NEW failed, FlushDone(now, failed), Apart(R)
  PROVE  LET done == Due(now) \ failed
         IN  /\ failed \subseteq Due(now) /\ Due(now) \subseteq OpenWindows \cup pendingWindows
             /\ pendingWindows' = failed
             /\ OpenWindows' \cup pendingWindows' = (OpenWindows \cup pendingWindows) \ done
             /\ OpenWindows' \cup pendingWindows' \cup (R \cup done) = OpenWindows \cup pendingWindows \cup R
             /\ pendingWindows' \cap (OpenWindows' \cup (R \cup done)) = {}
             /\ OpenWindows' \cap (R \cup done) = {}
             /\ Due(now) \cap R = {}
  <1>1. /\ failed \in FailureSets(now) /\ Close(now) /\ pendingWindows' = failed
    BY DEF FlushDone
  <1>2. failed \subseteq Due(now)
    BY <1>1 DEF FailureSets, DueRefused
  <1>3. /\ Closing(now) \subseteq OpenWindows
        /\ OpenWindows' = OpenWindows \ Closing(now)
    BY <1>1, CloseFacts
  <1> QED
    BY <1>1, <1>2, <1>3 DEF Due, Apart

(* A window that holds a sample has it at one place.                       *)
LEMMA OnePlaceIsOne ==
  ASSUME NEW ws, NEW s, OnePlaceEach(ws), HasSample(ws, s)
  PROVE  Cardinality(UNION {{<<w, i>> : i \in {j \in DOMAIN w.samples : w.samples[j] = s}} : w \in ws}) = 1
  <1> DEFINE places == UNION {{<<w, i>> : i \in {j \in DOMAIN w.samples : w.samples[j] = s}} : w \in ws}
  <1>1. PICK v \in ws : \E j \in DOMAIN v.samples : v.samples[j] = s
    BY DEF HasSample
  <1>2. PICK j \in DOMAIN v.samples : v.samples[j] = s
    BY <1>1
  <1>3. \A w \in ws : \A i \in DOMAIN w.samples : w.samples[i] = s => w = v /\ i = j
    BY <1>2 DEF OnePlaceEach, SamePoint
  <1>4. places = {<<v, j>>}
    BY <1>2, <1>3
  <1> QED
    BY <1>4, FS_Singleton

-----------------------------------------------------------------------------
(* A set of natural numbers has a least one.                               *)
LEMMA LeastOne ==
  ASSUME NEW S \in SUBSET Nat, S # {}
  PROVE  \E m \in S : \A n \in S : m <= n
  <1> DEFINE R == OpToRel(<, Nat)
  <1>1. PICK x \in S : \A y \in S : ~(<<y, x>> \in R)
    <2> HIDE DEF R
    <2>1. IsWellFoundedOn(R, Nat)
      BY NatLessThanWellFounded DEF R
    <2> QED
      BY <2>1, WFMin
  <1>2. ASSUME NEW y \in S  PROVE x <= y
    <2>1. ~(<<y, x>> \in {p \in Nat \X Nat : p[1] < p[2]})
      BY <1>1 DEF OpToRel
    <2>2. x \in Nat /\ y \in Nat
      OBVIOUS
    <2>3. ~(y < x)
      BY <2>1, <2>2
    <2> QED
      BY <2>2, <2>3
  <1> QED
    BY <1>2

(* And a greatest one, if they have a bound.                               *)
LEMMA GreatestOne ==
  ASSUME NEW S \in SUBSET Nat, S # {}, NEW b \in Nat, \A n \in S : n <= b
  PROVE  \E m \in S : \A n \in S : n <= m
  <1> DEFINE T == {d \in Nat : \E n \in S : n + d = b}
  <1>1. \A n \in S : b - n \in T
    <2> SUFFICES ASSUME NEW n \in S  PROVE b - n \in T
      OBVIOUS
    <2>1. n \in Nat /\ n <= b
      OBVIOUS
    <2>2. b - n \in Nat /\ n + (b - n) = b
      BY <2>1
    <2> QED
      BY <2>2
  <1>2. T \in SUBSET Nat /\ T # {}
    BY <1>1
  <1> HIDE DEF T
  <1>3. PICK d \in T : \A e \in T : d <= e
    BY <1>2, LeastOne
  <1>4. PICK m \in S : m + d = b
    BY <1>3 DEF T
  <1>5. ASSUME NEW n \in S  PROVE n <= m
    <2>1. d <= b - n
      BY <1>1, <1>3
    <2>2. n \in Nat /\ m \in Nat /\ d \in Nat
      BY <1>2, <1>3
    <2> QED
      BY <1>4, <2>1, <2>2
  <1> QED
    BY <1>5

-----------------------------------------------------------------------------
(* The places of a list that hold less than v, and not more than v.        *)
Below(list, v) == {i \in DOMAIN list : list[i] < v}

UpTo(list, v) == {i \in DOMAIN list : list[i] <= v}

Above(list, v) == {i \in DOMAIN list : list[i] > v}

(* What there is below, up to and above a value of a list.                 *)
LEMMA CountFacts ==
  ASSUME NEW list \in Seq(Nat), NEW v \in Nat
  PROVE  /\ IsFiniteSet(Below(list, v)) /\ IsFiniteSet(UpTo(list, v))
         /\ Cardinality(Below(list, v)) \in Nat /\ Cardinality(UpTo(list, v)) \in Nat
         /\ Cardinality(Above(list, v)) = Len(list) - Cardinality(UpTo(list, v))
         /\ Cardinality(Below(list, v)) <= Cardinality(UpTo(list, v))
         /\ Cardinality(UpTo(list, v)) <= Len(list)
  <1> DEFINE all == 1..Len(list)
  <1>1. IsFiniteSet(all) /\ Cardinality(all) = Len(list) /\ DOMAIN list = all /\ Len(list) \in Nat
    <2>1. Len(list) \in Nat /\ DOMAIN list = all
      OBVIOUS
    <2>2. IsFiniteSet(1..Len(list)) /\ Cardinality(1..Len(list)) = Len(list)
      BY <2>1, FS_Interval
    <2> QED
      BY <2>1, <2>2
  <1> HIDE DEF all
  <1>2. Below(list, v) \subseteq UpTo(list, v) /\ UpTo(list, v) \subseteq all
    BY <1>1 DEF Below, UpTo
  <1>3. /\ IsFiniteSet(UpTo(list, v)) /\ Cardinality(UpTo(list, v)) \in Nat
        /\ Cardinality(UpTo(list, v)) <= Len(list)
    BY <1>1, <1>2, FS_Subset, FS_CardinalityType
  <1>4. /\ IsFiniteSet(Below(list, v)) /\ Cardinality(Below(list, v)) \in Nat
        /\ Cardinality(Below(list, v)) <= Cardinality(UpTo(list, v))
    BY <1>2, <1>3, FS_Subset, FS_CardinalityType
  <1>5. Above(list, v) = all \ UpTo(list, v)
    BY <1>1 DEF Above, UpTo
  <1>6. Cardinality(all \ UpTo(list, v)) = Cardinality(all) - Cardinality(all \cap UpTo(list, v))
    BY <1>1, <1>3, FS_Difference
  <1>7. all \cap UpTo(list, v) = UpTo(list, v)
    BY <1>2
  <1> QED
    BY <1>1, <1>3, <1>4, <1>5, <1>6, <1>7

(* A greater value has below it what a lesser one has up to it.            *)
LEMMA CountsRise ==
  ASSUME NEW list \in Seq(Nat), NEW v \in Nat, NEW w \in Nat, v < w
  PROVE  Cardinality(UpTo(list, v)) <= Cardinality(Below(list, w))
  <1>1. UpTo(list, v) \subseteq Below(list, w)
    <2> SUFFICES ASSUME NEW i \in DOMAIN list, list[i] <= v  PROVE list[i] < w
      BY DEF UpTo, Below
    <2>1. list[i] \in Nat
      OBVIOUS
    <2> QED
      BY <2>1
  <1> QED
    BY <1>1, CountFacts, FS_Subset

(* Values of a list have a greatest one.                                   *)
LEMMA GreatestValue ==
  ASSUME NEW list \in Seq(Nat), NEW V \in SUBSET ToSet(list), V # {}
  PROVE  \E m \in V : m \in Nat /\ \A v \in V : v <= m
  <1> DEFINE Counts == {Cardinality(UpTo(list, v)) : v \in V}
  <1>1. V \subseteq Nat /\ \A v \in V : \E i \in DOMAIN list : list[i] = v
    BY DEF ToSet
  <1>2. Counts \in SUBSET Nat /\ Counts # {} /\ Len(list) \in Nat /\ \A n \in Counts : n <= Len(list)
    <2>1. \A v \in V : Cardinality(UpTo(list, v)) \in Nat /\ Cardinality(UpTo(list, v)) <= Len(list)
      BY <1>1, CountFacts
    <2> QED
      BY <2>1
  <1> HIDE DEF Counts
  <1>3. PICK c \in Counts : \A n \in Counts : n <= c
    BY <1>2, GreatestOne
  <1>4. PICK m \in V : c = Cardinality(UpTo(list, m))
    BY <1>3 DEF Counts
  <1>5. ASSUME NEW v \in V, m < v  PROVE FALSE
    <2>1. m \in Nat /\ v \in Nat
      BY <1>1
    <2>2. UpTo(list, m) \subseteq UpTo(list, v)
      BY <1>5, <2>1 DEF UpTo
    <2>3. PICK i \in DOMAIN list : list[i] = v
      BY <1>1
    <2>4. i \in UpTo(list, v) /\ i \notin UpTo(list, m)
      BY <1>5, <2>1, <2>3 DEF UpTo
    <2>5. Cardinality(UpTo(list, v)) \in Counts /\ IsFiniteSet(UpTo(list, v))
      BY <2>1, CountFacts DEF Counts
    <2>6. Cardinality(UpTo(list, v)) <= Cardinality(UpTo(list, m))
      BY <1>3, <1>4, <2>5
    <2>7. /\ Cardinality(UpTo(list, m)) <= Cardinality(UpTo(list, v))
          /\ Cardinality(UpTo(list, m)) = Cardinality(UpTo(list, v)) => UpTo(list, m) = UpTo(list, v)
      BY <2>2, <2>5, FS_Subset
    <2>8. Cardinality(UpTo(list, m)) \in Nat /\ Cardinality(UpTo(list, v)) \in Nat
      BY <2>1, CountFacts
    <2> QED
      BY <2>4, <2>6, <2>7, <2>8
  <1>6. \A v \in V : v <= m
    BY <1>1, <1>4, <1>5
  <1> QED
    BY <1>1, <1>4, <1>6

(* The sorted list has a value at every place: the least of those that     *)
(* have enough up to them.                                                 *)
LEMMA SortedFacts ==
  ASSUME NEW list \in Seq(Nat), NEW k \in 1..Len(list)
  PROVE  /\ Sorted(list)[k] \in ToSet(list) /\ Sorted(list)[k] \in Nat
         /\ Cardinality(Below(list, Sorted(list)[k])) < k
         /\ Cardinality(UpTo(list, Sorted(list)[k])) >= k
  <1> DEFINE Enough == {v \in ToSet(list) : Cardinality(UpTo(list, v)) >= k}
  <1>1. /\ DOMAIN list = 1..Len(list) /\ Len(list) \in Nat /\ k \in Nat
        /\ ToSet(list) \subseteq Nat /\ ToSet(list) # {}
        /\ \A i \in DOMAIN list : list[i] \in ToSet(list)
    <2>1. DOMAIN list = 1..Len(list) /\ Len(list) \in Nat /\ k \in Nat /\ k \in DOMAIN list
      OBVIOUS
    <2>2. ToSet(list) = {list[i] : i \in DOMAIN list}
      BY DEF ToSet
    <2> QED
      BY <2>1, <2>2
  <1>2. PICK top \in ToSet(list) : \A v \in ToSet(list) : v <= top
    BY <1>1, GreatestValue
  <1>3. top \in Enough
    <2>1. UpTo(list, top) = 1..Len(list)
      BY <1>1, <1>2 DEF UpTo
    <2>2. Cardinality(1..Len(list)) = Len(list)
      BY <1>1, FS_Interval
    <2> QED
      BY <1>1, <2>1, <2>2
  <1>4. Enough \in SUBSET Nat /\ Enough # {}
    BY <1>1, <1>3
  <1>5. PICK v \in Enough : \A w \in Enough : v <= w
    <2> HIDE DEF Enough
    <2> QED
      BY <1>4, LeastOne
  <1>6. v \in ToSet(list) /\ v \in Nat /\ Cardinality(UpTo(list, v)) >= k
    BY <1>4, <1>5
  <1>7. Cardinality(Below(list, v)) < k
    <2>1. Cardinality(Below(list, v)) \in Nat /\ IsFiniteSet(Below(list, v))
      BY <1>6, CountFacts
    <2>2. SUFFICES ASSUME Cardinality(Below(list, v)) >= k  PROVE FALSE
      BY <1>1, <2>1
    <2> DEFINE V == {list[i] : i \in Below(list, v)}
    <2>3. Below(list, v) # {}
      <3>1. Cardinality({}) = 0
        BY FS_EmptySet
      <3>2. Cardinality(Below(list, v)) # 0
        BY <1>1, <2>2
      <3> QED
        BY <3>1, <3>2
    <2>4. V \in SUBSET ToSet(list) /\ V # {}
      BY <1>1, <2>3 DEF Below
    <2>5. PICK u \in V : u \in Nat /\ \A w \in V : w <= u
      <3> HIDE DEF V
      <3> QED
        BY <2>4, GreatestValue
    <2>6. u < v
      BY <2>5 DEF Below
    <2>7. Below(list, v) \subseteq UpTo(list, u)
      BY <2>5 DEF Below, UpTo
    <2>8. Cardinality(Below(list, v)) <= Cardinality(UpTo(list, u)) /\ Cardinality(UpTo(list, u)) \in Nat
      BY <2>5, <2>7, CountFacts, FS_Subset
    <2>9. u \in Enough
      BY <1>1, <2>1, <2>2, <2>4, <2>5, <2>8
    <2>10. v <= u
      BY <1>5, <2>9
    <2> QED
      BY <1>6, <2>5, <2>6, <2>10
  <1> DEFINE At(w) == w \in ToSet(list) /\ Cardinality(Below(list, w)) < k /\ Cardinality(UpTo(list, w)) >= k
  <1>8. Sorted(list)[k] = CHOOSE w \in ToSet(list) :
                            Cardinality(Below(list, w)) < k /\ Cardinality(UpTo(list, w)) >= k
    BY <1>1 DEF Sorted, Below, UpTo
  <1>9. At(Sorted(list)[k])
    BY <1>6, <1>7, <1>8
  <1> QED
    BY <1>1, <1>9

(* Nothing else stands there.                                              *)
LEMMA SortedOnly ==
  ASSUME NEW list \in Seq(Nat), NEW k \in 1..Len(list), NEW v \in Nat,
         Cardinality(Below(list, v)) < k, Cardinality(UpTo(list, v)) >= k
  PROVE  Sorted(list)[k] = v
  <1> DEFINE s == Sorted(list)[k]
  <1>1. s \in Nat /\ Cardinality(Below(list, s)) < k /\ Cardinality(UpTo(list, s)) >= k
    BY SortedFacts
  <1> HIDE DEF s
  <1>2. /\ Cardinality(Below(list, s)) \in Nat /\ Cardinality(UpTo(list, s)) \in Nat
        /\ Cardinality(Below(list, v)) \in Nat /\ Cardinality(UpTo(list, v)) \in Nat /\ k \in Nat
    BY <1>1, CountFacts
  <1>3. ~(s < v)
    <2>1. s < v => Cardinality(UpTo(list, s)) <= Cardinality(Below(list, v))
      BY <1>1, CountsRise
    <2> QED
      BY <1>1, <1>2, <2>1
  <1>4. ~(v < s)
    <2>1. v < s => Cardinality(UpTo(list, v)) <= Cardinality(Below(list, s))
      BY <1>1, CountsRise
    <2> QED
      BY <1>1, <1>2, <2>1
  <1>5. s = v
    BY <1>1, <1>3, <1>4
  <1> QED
    BY <1>5 DEF s

(* The value at k and another one, by what there is up to and below that.  *)
LEMMA SortedBounds ==
  ASSUME NEW list \in Seq(Nat), NEW k \in 1..Len(list), NEW v \in Nat
  PROVE  /\ Sorted(list)[k] <= v <=> Cardinality(UpTo(list, v)) >= k
         /\ v <= Sorted(list)[k] <=> Cardinality(Below(list, v)) < k
  <1> DEFINE s == Sorted(list)[k]
  <1>1. s \in Nat /\ Cardinality(Below(list, s)) < k /\ Cardinality(UpTo(list, s)) >= k
    BY SortedFacts
  <1> HIDE DEF s
  <1>2. /\ Cardinality(Below(list, s)) \in Nat /\ Cardinality(UpTo(list, s)) \in Nat
        /\ Cardinality(Below(list, v)) \in Nat /\ Cardinality(UpTo(list, v)) \in Nat /\ k \in Nat
        /\ Cardinality(Below(list, v)) <= Cardinality(UpTo(list, v))
    <2>1. /\ Cardinality(Below(list, s)) \in Nat /\ Cardinality(UpTo(list, s)) \in Nat
      BY <1>1, CountFacts
    <2>2. /\ Cardinality(Below(list, v)) \in Nat /\ Cardinality(UpTo(list, v)) \in Nat
          /\ Cardinality(Below(list, v)) <= Cardinality(UpTo(list, v))
      BY CountFacts
    <2> QED
      BY <2>1, <2>2
  <1>3. s < v => Cardinality(UpTo(list, s)) <= Cardinality(Below(list, v))
    BY <1>1, CountsRise
  <1>4. v < s => Cardinality(UpTo(list, v)) <= Cardinality(Below(list, s))
    BY <1>1, CountsRise
  <1>5. s < v \/ v < s \/ s = v
    BY <1>1
  <1>6. /\ s <= v <=> Cardinality(UpTo(list, v)) >= k
        /\ v <= s <=> Cardinality(Below(list, v)) < k
    BY <1>1, <1>2, <1>3, <1>4, <1>5
  <1> QED
    BY <1>6 DEF s

(* The sorted list rises.                                                  *)
LEMMA SortedRises ==
  ASSUME NEW list \in Seq(Nat), NEW j \in 1..Len(list), NEW k \in 1..Len(list), j <= k
  PROVE  Sorted(list)[j] <= Sorted(list)[k]
  <1> DEFINE s == Sorted(list)[j]
  <1>1. s \in Nat /\ Cardinality(Below(list, s)) < j
    BY SortedFacts
  <1> HIDE DEF s
  <1>2. Cardinality(Below(list, s)) \in Nat /\ j \in Nat /\ k \in Nat
    BY <1>1, CountFacts
  <1>3. Cardinality(Below(list, s)) < k
    BY <1>1, <1>2
  <1>4. s <= Sorted(list)[k]
    BY <1>1, <1>3, SortedBounds
  <1> QED
    BY <1>4 DEF s

-----------------------------------------------------------------------------
(* The values at the two places in the middle, which are one if the number *)
(* of values is odd.                                                       *)
Lower(list) == Sorted(list)[(Len(list) + 1) \div 2]

Upper(list) == Sorted(list)[Len(list) \div 2 + 1]

LEMMA MiddlePlaces ==
  ASSUME NEW list \in Seq(Nat), Len(list) >= 1
  PROVE  /\ (Len(list) + 1) \div 2 \in 1..Len(list) /\ Len(list) \div 2 + 1 \in 1..Len(list)
         /\ Lower(list) \in Nat /\ Upper(list) \in Nat /\ Lower(list) <= Upper(list)
         /\ TwiceMedian(list) = Lower(list) + Upper(list)
  <1> DEFINE n == Len(list)
  <1>1. n \in Nat /\ n >= 1
    OBVIOUS
  <1>2. /\ (n + 1) \div 2 \in 1..n /\ n \div 2 + 1 \in 1..n
        /\ (n + 1) \div 2 <= n \div 2 + 1
        /\ n % 2 = 1 => (n + 1) \div 2 = n \div 2 + 1
        /\ n % 2 # 1 => (n + 1) \div 2 = n \div 2
    <2> HIDE DEF n
    <2>1. PICK h \in Nat : n = 2 * h \/ n = 2 * h + 1
      <3>1. n \div 2 \in Nat /\ (n = 2 * (n \div 2) \/ n = 2 * (n \div 2) + 1)
        BY <1>1
      <3> QED
        BY <3>1
    <2>2. CASE n = 2 * h
      <3>1. n \div 2 = h /\ (n + 1) \div 2 = h /\ n % 2 = 0 /\ h >= 1
        BY <1>1, <2>1, <2>2
      <3> QED
        BY <1>1, <2>1, <2>2, <3>1
    <2>3. CASE n = 2 * h + 1
      <3>1. n \div 2 = h /\ (n + 1) \div 2 = h + 1 /\ n % 2 = 1
        BY <1>1, <2>1, <2>3
      <3> QED
        BY <1>1, <2>1, <2>3, <3>1
    <2> QED
      BY <2>1, <2>2, <2>3
  <1>3. Lower(list) \in Nat /\ Upper(list) \in Nat
    BY <1>2, SortedFacts DEF Lower, Upper
  <1>4. Lower(list) <= Upper(list)
    BY <1>2, SortedRises DEF Lower, Upper
  <1>5. Len(Sorted(list)) = n
    <2>1. DOMAIN Sorted(list) = 1..n
      BY DEF Sorted
    <2>2. Sorted(list) \in Seq(Nat)
      <3>1. \A k \in 1..n : Sorted(list)[k] \in Nat
        BY SortedFacts
      <3> DEFINE At(k) == CHOOSE v \in ToSet(list) :
                            /\ Cardinality({i \in DOMAIN list : list[i] < v}) < k
                            /\ Cardinality({i \in DOMAIN list : list[i] <= v}) >= k
      <3>2. Sorted(list) = [k \in 1..n |-> At(k)]
        BY DEF Sorted
      <3> HIDE DEF n, At
      <3>3. Sorted(list) \in [1..n -> Nat]
        BY <3>1, <3>2
      <3> QED
        BY <1>1, <3>3
    <2> HIDE DEF n
    <2> QED
      BY <1>1, <2>1, <2>2
  <1>6. TwiceMedian(list) = Lower(list) + Upper(list)
    <2>1. TwiceMedian(list) = IF n % 2 = 1
                              THEN 2 * Sorted(list)[n \div 2 + 1]
                              ELSE Sorted(list)[n \div 2] + Sorted(list)[n \div 2 + 1]
      BY <1>5 DEF TwiceMedian
    <2>2. n % 2 = 1 => Lower(list) = Upper(list)
      BY <1>2 DEF Lower, Upper
    <2>3. n % 2 # 1 => Lower(list) = Sorted(list)[n \div 2]
      BY <1>2 DEF Lower
    <2>4. Upper(list) = Sorted(list)[n \div 2 + 1]
      BY DEF Upper
    <2> QED
      BY <1>3, <2>1, <2>2, <2>3, <2>4
  <1> QED
    BY <1>2, <1>3, <1>4, <1>6

(* The values with at most half of the places on either side run from the  *)
(* lower one to the upper one.                                             *)
LEMMA MiddleValues ==
  ASSUME NEW list \in Seq(Nat), Len(list) >= 1
  PROVE  LET Middle == {v \in ToSet(list) : /\ 2 * Cardinality(Below(list, v)) <= Len(list)
                                            /\ 2 * Cardinality(Above(list, v)) <= Len(list)}
         IN  Min(Middle) = Lower(list) /\ Max(Middle) = Upper(list)
  <1> DEFINE n == Len(list)
             Middle == {v \in ToSet(list) : /\ 2 * Cardinality(Below(list, v)) <= Len(list)
                                            /\ 2 * Cardinality(Above(list, v)) <= Len(list)}
  <1>1. n \in Nat /\ n >= 1 /\ ToSet(list) \subseteq Nat
    BY DEF ToSet
  <1>2. /\ (n + 1) \div 2 \in 1..n /\ n \div 2 + 1 \in 1..n
        /\ Lower(list) \in Nat /\ Upper(list) \in Nat
    BY MiddlePlaces
  <1>3. ASSUME NEW v \in Nat
        PROVE  /\ Cardinality(Below(list, v)) \in Nat /\ Cardinality(UpTo(list, v)) \in Nat
               /\ Cardinality(Above(list, v)) = n - Cardinality(UpTo(list, v))
    BY CountFacts
  <1>4. Lower(list) \in Middle
    <2> DEFINE s == Lower(list)
    <2>1. s \in ToSet(list) /\ Cardinality(Below(list, s)) < (n + 1) \div 2
          /\ Cardinality(UpTo(list, s)) >= (n + 1) \div 2
      BY <1>2, SortedFacts DEF Lower
    <2>2. /\ Cardinality(Below(list, s)) \in Nat /\ Cardinality(UpTo(list, s)) \in Nat
          /\ Cardinality(Above(list, s)) = n - Cardinality(UpTo(list, s))
      BY <1>2, <1>3
    <2> HIDE DEF s, n
    <2>3. 2 * Cardinality(Below(list, s)) <= n /\ 2 * Cardinality(Above(list, s)) <= n
      BY <1>1, <1>2, <2>1, <2>2
    <2> QED
      BY <2>1, <2>3 DEF s, n
  <1>5. Upper(list) \in Middle
    <2> DEFINE s == Upper(list)
    <2>1. s \in ToSet(list) /\ Cardinality(Below(list, s)) < n \div 2 + 1
          /\ Cardinality(UpTo(list, s)) >= n \div 2 + 1
      BY <1>2, SortedFacts DEF Upper
    <2>2. /\ Cardinality(Below(list, s)) \in Nat /\ Cardinality(UpTo(list, s)) \in Nat
          /\ Cardinality(Above(list, s)) = n - Cardinality(UpTo(list, s))
      BY <1>2, <1>3
    <2> HIDE DEF s, n
    <2>3. 2 * Cardinality(Below(list, s)) <= n /\ 2 * Cardinality(Above(list, s)) <= n
      BY <1>1, <1>2, <2>1, <2>2
    <2> QED
      BY <2>1, <2>3 DEF s, n
  <1>6. ASSUME NEW v \in Middle  PROVE Lower(list) <= v /\ v <= Upper(list)
    <2>1. v \in Nat /\ 2 * Cardinality(Below(list, v)) <= n /\ 2 * Cardinality(Above(list, v)) <= n
      BY <1>1
    <2>2. /\ Cardinality(Below(list, v)) \in Nat /\ Cardinality(UpTo(list, v)) \in Nat
          /\ Cardinality(Above(list, v)) = n - Cardinality(UpTo(list, v))
      BY <1>3, <2>1
    <2>3. Cardinality(UpTo(list, v)) >= (n + 1) \div 2 /\ Cardinality(Below(list, v)) < n \div 2 + 1
      <3> HIDE DEF n
      <3> QED
        BY <1>1, <1>2, <2>1, <2>2
    <2> QED
      BY <1>2, <2>1, <2>3, SortedBounds DEF Lower, Upper
  <1>7. Middle \subseteq Nat
    BY <1>1
  <1> HIDE DEF Middle
  <1>8. Min(Middle) = Lower(list)
    <2>1. Min(Middle) \in Middle /\ \A y \in Middle : Min(Middle) <= y
      BY <1>4, <1>6 DEF Min
    <2>2. Min(Middle) <= Lower(list) /\ Lower(list) <= Min(Middle)
      BY <1>4, <1>6, <2>1
    <2> DEFINE m == Min(Middle)
    <2>3. m \in Nat /\ m <= Lower(list) /\ Lower(list) <= m
      BY <1>7, <2>1, <2>2
    <2> HIDE DEF m
    <2>4. m = Lower(list)
      BY <1>2, <2>3
    <2> QED
      BY <2>4 DEF m
  <1>9. Max(Middle) = Upper(list)
    <2>1. Max(Middle) \in Middle /\ \A y \in Middle : Max(Middle) >= y
      BY <1>5, <1>6, <1>7 DEF Max
    <2>2. Max(Middle) <= Upper(list) /\ Upper(list) <= Max(Middle)
      BY <1>2, <1>5, <1>6, <1>7, <2>1
    <2> DEFINE m == Max(Middle)
    <2>3. m \in Nat /\ m <= Upper(list) /\ Upper(list) <= m
      BY <1>7, <2>1, <2>2
    <2> HIDE DEF m
    <2>4. m = Upper(list)
      BY <1>2, <2>3
    <2> QED
      BY <2>4 DEF m
  <1> QED
    BY <1>8, <1>9 DEF Middle

-----------------------------------------------------------------------------
(* What one more value does to the counts.                                 *)
LEMMA AppendCounts ==
  ASSUME NEW list \in Seq(Nat), NEW x \in Nat, NEW v \in Nat
  PROVE  /\ Cardinality(Below(Append(list, x), v)) =
              Cardinality(Below(list, v)) + (IF x < v THEN 1 ELSE 0)
         /\ Cardinality(UpTo(Append(list, x), v)) =
              Cardinality(UpTo(list, v)) + (IF x <= v THEN 1 ELSE 0)
  <1> DEFINE n == Len(list)
             more == Append(list, x)
  <1>1. /\ n \in Nat /\ DOMAIN list = 1..n /\ DOMAIN more = 1..(n + 1)
        /\ more[n + 1] = x /\ \A i \in 1..n : more[i] = list[i]
    OBVIOUS
  <1>2. IsFiniteSet(Below(list, v)) /\ IsFiniteSet(UpTo(list, v))
    BY CountFacts
  <1> HIDE DEF n, more
  <1>3. Below(more, v) = IF x < v THEN Below(list, v) \cup {n + 1} ELSE Below(list, v)
    BY <1>1 DEF Below
  <1>4. UpTo(more, v) = IF x <= v THEN UpTo(list, v) \cup {n + 1} ELSE UpTo(list, v)
    BY <1>1 DEF UpTo
  <1>5. n + 1 \notin Below(list, v) /\ n + 1 \notin UpTo(list, v)
    BY <1>1 DEF Below, UpTo
  <1>6. /\ Cardinality(Below(list, v) \cup {n + 1}) = Cardinality(Below(list, v)) + 1
        /\ Cardinality(UpTo(list, v) \cup {n + 1}) = Cardinality(UpTo(list, v)) + 1
    BY <1>2, <1>5, FS_AddElement
  <1>7. Cardinality(Below(list, v)) \in Nat /\ Cardinality(UpTo(list, v)) \in Nat
    BY CountFacts
  <1> QED
    BY <1>3, <1>4, <1>6, <1>7 DEF more

(* And so to the sorted list: a place keeps its value or takes a lesser    *)
(* one, and what it had moves up by one place at most.                     *)
LEMMA AppendSorted ==
  ASSUME NEW list \in Seq(Nat), NEW x \in Nat, NEW k \in 1..Len(list)
  PROVE  LET s == Sorted(list)[k]
             same == Sorted(Append(list, x))[k]
             next == Sorted(Append(list, x))[k + 1]
         IN  /\ s \in Nat /\ same \in Nat /\ next \in Nat
             /\ same <= s /\ s <= next
             /\ s <= x => s <= same /\ next <= x
             /\ x <= s => next <= s /\ x <= same
  <1> DEFINE s == Sorted(list)[k]
             more == Append(list, x)
             same == Sorted(more)[k]
             next == Sorted(more)[k + 1]
  <1>1. /\ more \in Seq(Nat) /\ Len(more) = Len(list) + 1
        /\ k \in 1..Len(more) /\ k + 1 \in 1..Len(more)
    OBVIOUS
  <1>2. s \in Nat /\ same \in Nat /\ next \in Nat
    BY <1>1, SortedFacts
  <1>3. /\ Cardinality(Below(list, s)) < k /\ Cardinality(UpTo(list, s)) >= k
        /\ Cardinality(Below(list, s)) \in Nat /\ Cardinality(UpTo(list, s)) \in Nat
    BY <1>2, CountFacts, SortedFacts
  <1>4. /\ Cardinality(Below(list, x)) \in Nat /\ Cardinality(UpTo(list, x)) \in Nat
        /\ s <= x <=> Cardinality(UpTo(list, x)) >= k
        /\ x <= s <=> Cardinality(Below(list, x)) < k
    BY CountFacts, SortedBounds
  <1>5. /\ same <= s <=> Cardinality(UpTo(more, s)) >= k
        /\ s <= same <=> Cardinality(Below(more, s)) < k
        /\ next <= s <=> Cardinality(UpTo(more, s)) >= k + 1
        /\ s <= next <=> Cardinality(Below(more, s)) < k + 1
    <2> HIDE DEF s, more
    <2> QED
      BY <1>1, <1>2, SortedBounds
  <1>6. /\ x <= same <=> Cardinality(Below(more, x)) < k
        /\ next <= x <=> Cardinality(UpTo(more, x)) >= k + 1
    <2> HIDE DEF more
    <2> QED
      BY <1>1, SortedBounds
  <1>7. /\ Cardinality(Below(more, s)) = Cardinality(Below(list, s)) + (IF x < s THEN 1 ELSE 0)
        /\ Cardinality(UpTo(more, s)) = Cardinality(UpTo(list, s)) + (IF x <= s THEN 1 ELSE 0)
    <2> HIDE DEF s
    <2> QED
      BY <1>2, AppendCounts
  <1>8. /\ Cardinality(Below(more, x)) = Cardinality(Below(list, x))
        /\ Cardinality(UpTo(more, x)) = Cardinality(UpTo(list, x)) + 1
    <2>1. ~(x < x) /\ x <= x
      OBVIOUS
    <2> QED
      BY <1>4, <2>1, AppendCounts
  <1> HIDE DEF s, more, same, next
  <1>9. /\ same <= s /\ s <= next
        /\ s <= x => s <= same /\ next <= x
        /\ x <= s => next <= s /\ x <= same
    BY <1>2, <1>3, <1>4, <1>5, <1>6, <1>7, <1>8
  <1> QED
    BY <1>2, <1>9 DEF s, more, same, next

(* A value at the median or above never lowers it, one at the median or    *)
(* below never raises it.                                                  *)
LEMMA MedianMoves ==
  ASSUME NEW list \in Seq(Nat), Len(list) >= 1, NEW x \in Nat
  PROVE  /\ TwiceMedian(list) \in Nat /\ TwiceMedian(Append(list, x)) \in Nat
         /\ 2 * x >= TwiceMedian(list) => TwiceMedian(Append(list, x)) >= TwiceMedian(list)
         /\ 2 * x <= TwiceMedian(list) => TwiceMedian(Append(list, x)) <= TwiceMedian(list)
  <1> DEFINE n == Len(list)
             more == Append(list, x)
  <1>1. n \in Nat /\ n >= 1 /\ more \in Seq(Nat) /\ Len(more) = n + 1
    OBVIOUS
  <1>2. /\ TwiceMedian(list) = Lower(list) + Upper(list)
        /\ Lower(list) \in Nat /\ Upper(list) \in Nat /\ Lower(list) <= Upper(list)
    BY MiddlePlaces
  <1>3. /\ TwiceMedian(more) = Lower(more) + Upper(more)
        /\ Lower(more) \in Nat /\ Upper(more) \in Nat
    <2> HIDE DEF more, n
    <2> QED
      BY <1>1, MiddlePlaces
  <1>4. PICK h \in Nat : n = 2 * h \/ n = 2 * h + 1
    <2> HIDE DEF n
    <2>1. n \div 2 \in Nat /\ (n = 2 * (n \div 2) \/ n = 2 * (n \div 2) + 1)
      BY <1>1
    <2> QED
      BY <2>1
  <1>5. CASE n = 2 * h
    <2>1. h \in 1..n /\ h + 1 \in 1..n
      <3> HIDE DEF n
      <3> QED
        BY <1>1, <1>4, <1>5
    <2>2. Lower(list) = Sorted(list)[h] /\ Upper(list) = Sorted(list)[h + 1]
      <3>1. (n + 1) \div 2 = h /\ n \div 2 = h
        BY <1>4, <1>5
      <3> QED
        BY <3>1 DEF Lower, Upper
    <2>3. Lower(more) = Sorted(more)[h + 1] /\ Upper(more) = Sorted(more)[h + 1]
      <3>1. ((n + 1) + 1) \div 2 = h + 1 /\ (n + 1) \div 2 = h
        BY <1>4, <1>5
      <3> HIDE DEF n
      <3> QED
        BY <1>1, <3>1 DEF Lower, Upper
    <2>4. /\ Lower(list) <= Upper(more)
          /\ Lower(list) <= x => Upper(more) <= x
          /\ x <= Lower(list) => Upper(more) <= Lower(list)
      BY <2>1, <2>2, <2>3, AppendSorted
    <2>5. /\ Upper(list) <= x => Upper(list) <= Upper(more)
          /\ x <= Upper(list) => x <= Upper(more)
      BY <2>1, <2>2, <2>3, AppendSorted
    <2> HIDE DEF more
    <2>6. Lower(more) = Upper(more)
      BY <2>3
    <2>7. 2 * x >= Lower(list) + Upper(list) => Lower(more) + Upper(more) >= Lower(list) + Upper(list)
      BY <1>2, <1>3, <2>5, <2>6
    <2>8. 2 * x <= Lower(list) + Upper(list) => Lower(more) + Upper(more) <= Lower(list) + Upper(list)
      BY <1>2, <1>3, <2>4, <2>6
    <2>9. /\ 2 * x >= TwiceMedian(list) => TwiceMedian(more) >= TwiceMedian(list)
          /\ 2 * x <= TwiceMedian(list) => TwiceMedian(more) <= TwiceMedian(list)
      BY <1>2, <1>3, <2>7, <2>8
    <2>10. TwiceMedian(list) \in Nat /\ TwiceMedian(more) \in Nat
      BY <1>2, <1>3
    <2> QED
      BY <2>9, <2>10 DEF more
  <1>6. CASE n = 2 * h + 1
    <2>1. h + 1 \in 1..n
      <3> HIDE DEF n
      <3> QED
        BY <1>1, <1>4, <1>6
    <2>2. Lower(list) = Sorted(list)[h + 1] /\ Upper(list) = Sorted(list)[h + 1]
      <3>1. (n + 1) \div 2 = h + 1 /\ n \div 2 = h
        BY <1>4, <1>6
      <3> QED
        BY <3>1 DEF Lower, Upper
    <2>3. Lower(more) = Sorted(more)[h + 1] /\ Upper(more) = Sorted(more)[(h + 1) + 1]
      <3>1. ((n + 1) + 1) \div 2 = h + 1 /\ (n + 1) \div 2 = h + 1
        BY <1>4, <1>6
      <3> HIDE DEF n
      <3> QED
        BY <1>1, <3>1 DEF Lower, Upper
    <2>4. /\ Lower(list) <= x => Lower(list) <= Lower(more)
          /\ Lower(list) <= Upper(more)
          /\ Lower(more) <= Lower(list)
          /\ x <= Lower(list) => Upper(more) <= Lower(list)
      BY <2>1, <2>2, <2>3, AppendSorted
    <2> HIDE DEF more
    <2>5. Upper(list) = Lower(list)
      BY <2>2
    <2>6. 2 * x >= Lower(list) + Upper(list) => Lower(more) + Upper(more) >= Lower(list) + Upper(list)
      BY <1>2, <1>3, <2>4, <2>5
    <2>7. 2 * x <= Lower(list) + Upper(list) => Lower(more) + Upper(more) <= Lower(list) + Upper(list)
      BY <1>2, <1>3, <2>4, <2>5
    <2>8. /\ 2 * x >= TwiceMedian(list) => TwiceMedian(more) >= TwiceMedian(list)
          /\ 2 * x <= TwiceMedian(list) => TwiceMedian(more) <= TwiceMedian(list)
      BY <1>2, <1>3, <2>6, <2>7
    <2>9. TwiceMedian(list) \in Nat /\ TwiceMedian(more) \in Nat
      BY <1>2, <1>3
    <2> QED
      BY <2>8, <2>9 DEF more
  <1> QED
    BY <1>4, <1>5, <1>6

-----------------------------------------------------------------------------
(* Ratios are ordered by AtMost, and Smaller gives the lesser of two.      *)
Ratio == {p \in Nat \X Nat : p[2] > 0}

LEMMA RatioOrder ==
  ASSUME NEW p \in Ratio, NEW q \in Ratio, NEW r \in Ratio
  PROVE  /\ AtMost(p, p)
         /\ AtMost(p, q) \/ AtMost(q, p)
         /\ AtMost(p, q) /\ AtMost(q, r) => AtMost(p, r)
  <1> DEFINE a == p[1]  b == p[2]  c == q[1]  d == q[2]  e == r[1]  f == r[2]
  <1>1. /\ a \in Nat /\ c \in Nat /\ e \in Nat
        /\ b \in Nat /\ d \in Nat /\ f \in Nat /\ b > 0 /\ d > 0 /\ f > 0
    BY DEF Ratio
  <1>2. /\ AtMost(p, p) <=> a * b <= a * b
        /\ AtMost(p, q) <=> a * d <= c * b
        /\ AtMost(q, p) <=> c * b <= a * d
        /\ AtMost(q, r) <=> c * f <= e * d
        /\ AtMost(p, r) <=> a * f <= e * b
    BY DEF AtMost
  <1> HIDE DEF a, b, c, d, e, f
  <1>3. a * b \in Int /\ a * d \in Int /\ c * b \in Int
    BY <1>1
  <1>4. ASSUME a * d <= c * b, c * f <= e * d  PROVE a * f <= e * b
    <2>1. /\ (a * d) * f <= (c * b) * f /\ (c * f) * b <= (e * d) * b
      BY <1>1, <1>4
    <2>2. /\ (a * d) * f = (a * f) * d /\ (c * b) * f = (c * f) * b
          /\ (e * d) * b = (e * b) * d
      BY <1>1
    <2> DEFINE g == a * f  h == e * b  m == (c * f) * b
    <2>3. g \in Int /\ h \in Int /\ m \in Int
      BY <1>1
    <2>4. g * d <= m /\ m <= h * d
      BY <2>1, <2>2
    <2> HIDE DEF g, h, m
    <2>5. g * d <= h * d
      <3>1. g * d \in Int /\ h * d \in Int
        BY <1>1, <2>3
      <3> QED
        BY <2>3, <2>4, <3>1
    <2>6. ~(g > h)
      <3>1. g > h => g * d > h * d
        BY <1>1, <2>3
      <3>2. g * d \in Int /\ h * d \in Int
        BY <1>1, <2>3
      <3> QED
        BY <2>5, <3>1, <3>2
    <2>7. g <= h
      BY <2>3, <2>6
    <2> QED
      BY <2>7 DEF g, h
  <1> QED
    BY <1>2, <1>3, <1>4

LEMMA SmallerRises ==
  ASSUME NEW p \in Ratio, NEW q \in Ratio, NEW r \in Ratio, NEW s \in Ratio,
         AtMost(p, r), AtMost(q, s)
  PROVE  Smaller(p, q) \in Ratio /\ AtMost(Smaller(p, q), Smaller(r, s))
  <1>1. Smaller(p, q) = IF AtMost(p, q) THEN p ELSE q
    BY DEF Smaller
  <1>2. Smaller(r, s) = r \/ Smaller(r, s) = s
    BY DEF Smaller
  <1>3. AtMost(p, q) /\ AtMost(q, s) => AtMost(p, s)
    BY RatioOrder
  <1>4. AtMost(q, p) /\ AtMost(p, r) => AtMost(q, r)
    BY RatioOrder
  <1>5. AtMost(p, q) \/ AtMost(q, p)
    BY RatioOrder
  <1> QED
    BY <1>1, <1>2, <1>3, <1>4, <1>5

(* A fraction of a fixed number rises with what it counts.                 *)
LEMMA FractionRises ==
  ASSUME NEW m \in Nat, NEW n \in Nat, m <= n, NEW all \in Nat \ {0}
  PROVE  /\ <<m, 2 * all>> \in Ratio /\ <<n, 2 * all>> \in Ratio
         /\ AtMost(<<m, 2 * all>>, <<n, 2 * all>>)
  <1> DEFINE d == 2 * all
  <1>1. d \in Nat /\ d > 0
    OBVIOUS
  <1> HIDE DEF d
  <1>2. m * d <= n * d
    BY <1>1
  <1>3. <<m, d>> \in Ratio /\ <<n, d>> \in Ratio
    BY <1>1 DEF Ratio
  <1>4. AtMost(<<m, d>>, <<n, d>>)
    BY <1>2 DEF AtMost
  <1> QED
    BY <1>3, <1>4 DEF d

(* The confidence of a window with enough data rises with its samples and  *)
(* its drivers.                                                            *)
LEMMA ConfidenceRises ==
  ASSUME NEW m \in Nat, NEW n \in Nat, m <= n, m >= MinSamples,
         NEW d \in Nat, NEW e \in Nat, d <= e, d >= MinDrivers
  PROVE  /\ CalculateConfidence(n, e) \in Ratio
         /\ AtMost(CalculateConfidence(m, d), CalculateConfidence(n, e))
  <1>1. MinSamples \in Nat \ {0} /\ MinDrivers \in Nat \ {0}
    BY CalculatorAssumption
  <1> DEFINE a == <<m, 2 * MinSamples>>  b == <<n, 2 * MinSamples>>
             f == <<d, 2 * MinDrivers>>  g == <<e, 2 * MinDrivers>>
  <1>2. /\ a \in Ratio /\ b \in Ratio /\ AtMost(a, b)
        /\ f \in Ratio /\ g \in Ratio /\ AtMost(f, g)
    BY <1>1, FractionRises
  <1>3. /\ CalculateConfidence(m, d) = Smaller(Smaller(a, One), Smaller(f, One))
        /\ CalculateConfidence(n, e) = Smaller(Smaller(b, One), Smaller(g, One))
    BY <1>1 DEF CalculateConfidence
  <1> HIDE DEF a, b, f, g
  <1>4. One \in Ratio /\ AtMost(One, One)
    BY DEF One, Ratio, AtMost
  <1>5. /\ Smaller(a, One) \in Ratio /\ Smaller(b, One) \in Ratio
        /\ Smaller(f, One) \in Ratio /\ Smaller(g, One) \in Ratio
    BY <1>2, <1>4 DEF Smaller
  <1>6. /\ AtMost(Smaller(a, One), Smaller(b, One)) /\ AtMost(Smaller(f, One), Smaller(g, One))
    BY <1>2, <1>4, SmallerRises
  <1>7. AtMost(Smaller(Smaller(a, One), Smaller(f, One)), Smaller(Smaller(b, One), Smaller(g, One)))
    BY <1>5, <1>6, SmallerRises
  <1>8. Smaller(Smaller(b, One), Smaller(g, One)) \in Ratio
    BY <1>5 DEF Smaller
  <1> QED
    BY <1>3, <1>7, <1>8

-----------------------------------------------------------------------------
(* The level by the median alone: twice the median against the two parts   *)
(* of twice the reference speed.                                           *)
LEMMA LevelByMedian ==
  ASSUME NEW t \in Nat, NEW r \in Nat \ {0}
  PROVE  LET level == ClassifyLevel(ClampRatio(<<t, 2 * r>>))
         IN  /\ 16 * r <= 10 * t => level = "FREE"
             /\ 16 * r > 10 * t /\ 10 * r <= 10 * t => level = "SLOW"
             /\ 10 * r > 10 * t => level = "CONGESTED"
  <1> DEFINE d == 2 * r
             p == ClampRatio(<<t, d>>)
  <1>1. d \in Nat /\ d > 0
    OBVIOUS
  <1>2. p = IF t <= d THEN <<t, d>> ELSE <<1, 1>>
    <2>1. ~(t < 0) /\ t * 1 = t /\ 1 * d = d
      BY <1>1
    <2> HIDE DEF d
    <2> QED
      BY <2>1 DEF ClampRatio, Smaller, AtMost, One
  <1>3. /\ AtMost(<<8, 10>>, p) <=> 16 * r <= 10 * t
        /\ AtMost(<<5, 10>>, p) <=> 10 * r <= 10 * t
    <2>1. CASE t <= d
      <3>1. p = <<t, d>>
        BY <1>2, <2>1
      <3>2. /\ AtMost(<<8, 10>>, p) <=> 8 * d <= t * 10
            /\ AtMost(<<5, 10>>, p) <=> 5 * d <= t * 10
        BY <3>1 DEF AtMost
      <3> QED
        BY <3>2
    <2>2. CASE ~(t <= d)
      <3>1. p = <<1, 1>>
        BY <1>2, <2>2
      <3>2. AtMost(<<8, 10>>, p) /\ AtMost(<<5, 10>>, p)
        BY <3>1 DEF AtMost
      <3>3. 16 * r <= 10 * t /\ 10 * r <= 10 * t
        BY <2>2
      <3> QED
        BY <3>2, <3>3
    <2> QED
      BY <2>1, <2>2
  <1> HIDE DEF p
  <1>4. LET level == ClassifyLevel(p)
        IN  /\ 16 * r <= 10 * t => level = "FREE"
            /\ 16 * r > 10 * t /\ 10 * r <= 10 * t => level = "SLOW"
            /\ 10 * r > 10 * t => level = "CONGESTED"
    <2>1. /\ 16 * r > 10 * t <=> ~(16 * r <= 10 * t)
          /\ 10 * r > 10 * t <=> ~(10 * r <= 10 * t)
          /\ 16 * r <= 10 * t => 10 * r <= 10 * t
      OBVIOUS
    <2> QED
      BY <1>3, <2>1 DEF ClassifyLevel
  <1> QED
    BY <1>4 DEF p, d
=============================================================================
