-------------------------- MODULE MatchCallProofs --------------------------
(***************************************************************************)
(* Proofs about MatchCall: canonicalization and matching, for any payloads *)
(* and any answers of GraphHopper.                                         *)
(***************************************************************************)
EXTENDS MatchCall, FiniteSetTheorems, TLAPS

Traced == outcome \in {"traced", "error", "observed"}

(* Once there is a trace, its points are those of the posts, all of them   *)
(* accepted; once there are observations, the answer passed every check.   *)
CallInv ==
  /\ \E call \in Call : posts = call.posts /\ response = call.response
  /\ outcome \in {"posted", "declined", "traced", "error", "observed"}
  /\ Traced => /\ \A i \in DOMAIN posts : ~Declined(posts[i])
               /\ trace.points = [i \in DOMAIN posts |-> Canonicalize(posts[i].payload)]
  /\ ~Traced => trace.points = <<>>
  /\ Succeeded => ~MatchRefused(trace, response) /\ result = Adapt(trace.points, response)

(* Every step of the call keeps the invariant.                             *)
LEMMA CallInvStep ==
  ASSUME CallInv, [Next]_vars
  PROVE  CallInv'
  <1>1. CASE UNCHANGED vars
    BY <1>1 DEF CallInv, vars, Traced, Succeeded
  <1>2. CASE Decline
    BY <1>2 DEF CallInv, Decline, Traced, Succeeded
  <1>3. ASSUME NEW driver \in Name, MakeTrace(driver)
        PROVE  CallInv'
    BY <1>3 DEF CallInv, MakeTrace, Traced, Succeeded
  <1>4. CASE MatchErrs
    BY <1>4 DEF CallInv, MatchErrs, Traced, Succeeded
  <1>5. CASE MatchObserves
    BY <1>5 DEF CallInv, MatchObserves, Traced, Succeeded
  <1> QED
    BY <1>1, <1>2, <1>3, <1>4, <1>5 DEF Next

(* The invariant of every theorem below.                                   *)
THEOREM CallInvariant == Spec => []CallInv
  <1>1. ASSUME Init  PROVE CallInv
    <2>1. \E call \in Call : posts = call.posts /\ response = call.response
      BY <1>1 DEF Init
    <2>2. outcome = "posted" /\ trace.points = <<>>
      BY <1>1 DEF Init
    <2> QED
      BY <2>1, <2>2 DEF CallInv, Traced, Succeeded
  <1>2. CallInv /\ [Next]_vars => CallInv'
    BY CallInvStep
  <1> QED
    BY <1>1, <1>2, PTL DEF Spec

-----------------------------------------------------------------------------
(* As many points as posts, none of them declined.                         *)
LEMMA TraceFacts ==
  ASSUME CallInv, Traced
  PROVE  /\ DOMAIN posts = 1..Len(posts) /\ Len(posts) \in Nat
         /\ DOMAIN trace.points = 1..Len(posts)
         /\ trace.points \in Seq(ToSet(trace.points))
         /\ Len(trace.points) = Len(posts)
         /\ \A i \in 1..Len(posts) : /\ ~Declined(posts[i])
                                     /\ trace.points[i] = Canonicalize(posts[i].payload)
  <1>1. posts \in Seq(ToSet(posts))
    BY CallAssumption DEF CallInv
  <1>2. DOMAIN posts = 1..Len(posts) /\ Len(posts) \in Nat
    BY <1>1
  <1>3. trace.points = [i \in 1..Len(posts) |-> Canonicalize(posts[i].payload)]
    BY <1>2 DEF CallInv
  <1>4. trace.points \in Seq(ToSet(trace.points)) /\ Len(trace.points) = Len(posts)
    <2> DEFINE points == trace.points
    <2>1. points \in [1..Len(posts) -> ToSet(points)]
      <3>1. /\ DOMAIN points = 1..Len(posts)
            /\ points = [i \in DOMAIN points |-> points[i]]
        BY <1>3
      <3>2. \A i \in 1..Len(posts) : points[i] \in ToSet(points)
        BY <3>1 DEF ToSet
      <3> HIDE DEF points
      <3> QED
        BY <3>1, <3>2
    <2> HIDE DEF points
    <2>2. points \in Seq(ToSet(points)) /\ Len(points) = Len(posts)
      BY <2>1, <1>2
    <2> QED
      BY <2>2 DEF points
  <1> QED
    BY <1>2, <1>3, <1>4 DEF CallInv

(* An answer that passed every check has one answer for each point.        *)
LEMMA AnswerFacts ==
  ASSUME CallInv, Succeeded
  PROVE  /\ DOMAIN response = 1..Len(posts)
         /\ \A j \in 1..Len(posts) : /\ response[j].index \in 0..(Len(posts) - 1)
                                     /\ ~AnswerRefused(response[j])
         /\ \A i, j \in 1..Len(posts) : response[i].index = response[j].index => i = j
         /\ \A i \in 1..Len(posts) : \E j \in 1..Len(posts) : response[j].index = i - 1
  <1> DEFINE n == Len(posts)
  <1>1. response \in Seq(ToSet(response))
    BY CallAssumption DEF CallInv
  <1>2. n \in Nat /\ Len(trace.points) = n
    BY TraceFacts DEF Traced, Succeeded
  <1>3. ~ResponseRefused(trace.points, response)
    BY DEF CallInv, MatchRefused
  <1>4. DOMAIN response = 1..n
    BY <1>1, <1>2, <1>3 DEF ResponseRefused
  <1>5. \A j \in 1..n : response[j].index \in 0..(n - 1) /\ ~AnswerRefused(response[j])
    BY <1>2, <1>3, <1>4 DEF ResponseRefused
  <1>6. \A i, j \in 1..n : response[i].index = response[j].index => i = j
    BY <1>3, <1>4 DEF ResponseRefused
  <1>7. ASSUME NEW i \in 1..n  PROVE \E j \in 1..n : response[j].index = i - 1
    <2> DEFINE index == [j \in 1..n |-> response[j].index + 1]
               others == (1..n) \ {i}
    <2>1. IsFiniteSet(1..n) /\ Cardinality(1..n) = n
      <3>1. n \in Nat /\ n >= 1
        BY <1>2, <1>7
      <3> HIDE DEF n
      <3>2. IsFiniteSet(1..n) /\ Cardinality(1..n) = IF 1 > n THEN 0 ELSE n - 1 + 1
        BY <3>1, FS_Interval
      <3> QED
        BY <3>1, <3>2
    <2>2. IsFiniteSet(others) /\ Cardinality(others) < Cardinality(1..n)
      <3> HIDE DEF n
      <3>1. IsFiniteSet(others) /\ Cardinality(others) = Cardinality(1..n) - 1
        BY <1>7, <2>1, FS_RemoveElement
      <3> HIDE DEF others
      <3> QED
        BY <1>2, <2>1, <3>1
    <2>3. SUFFICES ASSUME \A j \in 1..n : index[j] # i  PROVE FALSE
      <3>1. ASSUME NEW j \in 1..n, index[j] = i  PROVE response[j].index = i - 1
        BY <1>2, <1>5, <3>1
      <3> HIDE DEF index
      <3> QED
        BY <3>1
    <2>4. index \in [1..n -> others]
      BY <1>2, <1>5, <2>3
    <2>5. PICK x, y \in 1..n : x # y /\ index[x] = index[y]
      <3> HIDE DEF index, others
      <3> QED
        BY <2>1, <2>2, <2>4, FS_PigeonHole
    <2> QED
      BY <1>5, <1>6, <2>5
  <1> QED
    BY <1>4, <1>5, <1>6, <1>7

(* The observation at a point comes from the answer that names the point.  *)
LEMMA ResultFacts ==
  ASSUME CallInv, Succeeded
  PROVE  /\ DOMAIN result = 1..Len(posts) /\ Len(result) = Len(posts)
         /\ \A j \in 1..Len(posts) :
              /\ response[j].index + 1 \in 1..Len(posts)
              /\ result[response[j].index + 1] = Observe(trace.points[response[j].index + 1], response[j])
  <1> DEFINE n == Len(posts)
             Answering(i) == CHOOSE j \in DOMAIN response : response[j].index = i - 1
  <1>1. n \in Nat /\ DOMAIN trace.points = 1..n
    BY TraceFacts DEF Traced, Succeeded
  <1>2. /\ DOMAIN response = 1..n
        /\ \A j \in 1..n : response[j].index \in 0..(n - 1)
        /\ \A i, j \in 1..n : response[i].index = response[j].index => i = j
    BY AnswerFacts
  <1>3. result = [i \in 1..n |-> Observe(trace.points[i], response[Answering(i)])]
    BY <1>1 DEF CallInv, Adapt
  <1>4. DOMAIN result = 1..n /\ Len(result) = n
    BY <1>1, <1>3
  <1>5. ASSUME NEW j \in 1..n
        PROVE  /\ response[j].index + 1 \in 1..n
               /\ result[response[j].index + 1] = Observe(trace.points[response[j].index + 1], response[j])
    <2> DEFINE i == response[j].index + 1
    <2>1. i \in 1..n /\ response[j].index = i - 1
      BY <1>1, <1>2
    <2>2. Answering(i) \in 1..n /\ response[Answering(i)].index = i - 1
      <3> HIDE DEF i
      <3> QED
        BY <1>2, <2>1
    <2>3. Answering(i) = j
      <3> HIDE DEF Answering, i
      <3> QED
        BY <1>2, <2>1, <2>2
    <2> HIDE DEF Answering
    <2> QED
      BY <1>3, <2>1, <2>3
  <1> QED
    BY <1>4, <1>5

(* Whatever the order of GraphHopper's answers, each one lands on the      *)
(* point that it names, with that point's own time and speed, and no point *)
(* goes without.                                                           *)
THEOREM AnswersMeetTheirPoints == Spec => []AnswerMeetsItsPoint
  <1>1. ASSUME CallInv  PROVE AnswerMeetsItsPoint
    <2> SUFFICES ASSUME Succeeded
                 PROVE  /\ Len(result) = Len(posts)
                        /\ \A i \in DOMAIN result : \E j \in DOMAIN response : response[j].index = i - 1
                        /\ \A j \in DOMAIN response :
                             LET o == result[response[j].index + 1]
                                 p == trace.points[response[j].index + 1]
                             IN  /\ <<o.driver, o.at, o.speed>> = <<p.driver, p.at, p.speed>>
                                 /\ o.matched = response[j].matched
                                 /\ o.matched => o.key = response[j].key
      BY DEF AnswerMeetsItsPoint
    <2>1. DOMAIN response = 1..Len(posts)
          /\ \A i \in 1..Len(posts) : \E j \in 1..Len(posts) : response[j].index = i - 1
      BY <1>1, AnswerFacts
    <2>2. /\ DOMAIN result = 1..Len(posts) /\ Len(result) = Len(posts)
          /\ \A j \in 1..Len(posts) :
               result[response[j].index + 1] = Observe(trace.points[response[j].index + 1], response[j])
      BY <1>1, ResultFacts
    <2>3. ASSUME NEW p, NEW a
          PROVE  LET o == Observe(p, a)
                 IN  /\ <<o.driver, o.at, o.speed>> = <<p.driver, p.at, p.speed>>
                     /\ o.matched = a.matched
                     /\ o.matched => o.key = a.key
      BY DEF Observe
    <2>4. ASSUME NEW j \in DOMAIN response
          PROVE  LET o == result[response[j].index + 1]
                     p == trace.points[response[j].index + 1]
                 IN  /\ <<o.driver, o.at, o.speed>> = <<p.driver, p.at, p.speed>>
                     /\ o.matched = response[j].matched
                     /\ o.matched => o.key = response[j].key
      <3>1. result[response[j].index + 1] = Observe(trace.points[response[j].index + 1], response[j])
        BY <2>1, <2>2
      <3> QED
        BY <2>3, <3>1
    <2> QED
      BY <2>1, <2>2, <2>4
  <1> QED
    BY <1>1, CallInvariant, PTL

-----------------------------------------------------------------------------
(* The minute that the text and the stamp agree on is the minute in which  *)
(* the fix was taken, as they were read less than an hour apart.           *)
LEMMA SameMinute ==
  ASSUME NEW time \in Int, NEW minute \in Int, time % 60 = minute % 60, time - minute \in -59..59
  PROVE  time = minute
  OBVIOUS

(* A time is its minute and the rest.                                      *)
LEMMA MinuteAndRest ==
  ASSUME NEW t \in Nat, NEW minute, NEW rest, minute = t \div MinuteTenths, rest = t % MinuteTenths
  PROVE  minute \in Nat /\ rest \in Nat /\ t = minute * MinuteTenths + rest
  <1>1. MinuteTenths = 600000
    BY DEF MinuteTenths, MinuteMs
  <1>2. t \div 600000 \in Nat /\ t % 600000 \in Nat /\ t = ((t \div 600000) * 600000) + (t % 600000)
    OBVIOUS
  <1> HIDE DEF MinuteTenths
  <1> QED
    BY <1>1, <1>2

(* Rounding the tenths of a millisecond.                                   *)
LEMMA Rounding ==
  ASSUME NEW minute \in Int, NEW tenths \in Nat
  PROVE  /\ minute * MinuteMs + RoundedMs(tenths) \in Int
         /\ 10 * (minute * MinuteMs + RoundedMs(tenths)) - (minute * MinuteTenths + tenths) \in -4..5
  <1> DEFINE rounded == RoundedMs(tenths)
  <1>1. rounded \in Int /\ 10 * rounded - tenths \in -4..5
    BY DEF RoundedMs
  <1> HIDE DEF rounded
  <1>2. minute * MinuteTenths = 10 * (minute * MinuteMs) /\ minute * MinuteMs \in Int
    BY DEF MinuteTenths, MinuteMs
  <1> DEFINE start == minute * MinuteMs
  <1>3. start \in Int /\ minute * MinuteTenths = 10 * start
    BY <1>2
  <1> HIDE DEF start
  <1>4. start + rounded \in Int /\ 10 * (start + rounded) - (10 * start + tenths) \in -4..5
    BY <1>1, <1>3
  <1> QED
    BY <1>3, <1>4 DEF start, rounded

(* Each point is at most half a millisecond from where its fix was taken.  *)
LEMMA PointFacts ==
  ASSUME CallInv, Traced, NEW i \in 1..Len(posts)
  PROVE  /\ trace.points[i].at \in Int /\ posts[i].taken \in Nat
         /\ 10 * trace.points[i].at - posts[i].taken \in -4..5
  <1> DEFINE payload == posts[i].payload
             taken == posts[i].taken
             minute == taken \div MinuteTenths
             tenths == taken % MinuteTenths
  <1>1. /\ i \in DOMAIN posts
        /\ ~CanonicalizeRefused(payload)
        /\ trace.points[i] = Canonicalize(payload)
    BY TraceFacts DEF Declined
  <1>2. TimeAccepted(payload)
    BY <1>1 DEF CanonicalizeRefused
  <1>3. /\ payload.t_timestamp.minute = payload.time % 60
    BY <1>2 DEF TimeAccepted, MinutesPerHour
  <1>4. /\ taken \in Nat
        /\ payload.t_timestamp.minute = minute % 60
        /\ payload.t_timestamp.tenths = tenths
        /\ payload.time \in Int
        /\ payload.time - minute \in -59..59
    <2>1. PICK call \in Call : posts = call.posts
      BY DEF CallInv
    <2>2. \A k \in DOMAIN posts :
            TimeAccepted(posts[k].payload) =>
              /\ posts[k].taken \in Nat
              /\ posts[k].payload.t_timestamp.minute = (posts[k].taken \div MinuteTenths) % 60
              /\ posts[k].payload.t_timestamp.tenths = posts[k].taken % MinuteTenths
              /\ posts[k].payload.time \in Int
              /\ posts[k].payload.time - (posts[k].taken \div MinuteTenths) \in (1 - 60)..(60 - 1)
      BY <2>1, ClockAssumption DEF MinutesPerHour
    <2> QED
      BY <1>1, <1>2, <2>2
  <1>5. trace.points[i].at = payload.time * MinuteMs + RoundedMs(payload.t_timestamp.tenths)
    BY <1>1 DEF Canonicalize, RecordedAt
  <1> HIDE DEF payload, taken
  <1>6. minute \in Int /\ tenths \in Nat /\ taken = minute * MinuteTenths + tenths
    <2>1. taken \in Nat /\ minute = taken \div MinuteTenths /\ tenths = taken % MinuteTenths
      BY <1>4
    <2> HIDE DEF minute, tenths
    <2>2. minute \in Nat /\ tenths \in Nat /\ taken = minute * MinuteTenths + tenths
      BY <2>1, MinuteAndRest
    <2> QED
      BY <2>2
  <1> HIDE DEF minute, tenths
  <1>7. payload.time = minute
    BY <1>3, <1>4, <1>6, SameMinute
  <1>8. trace.points[i].at = minute * MinuteMs + RoundedMs(tenths)
    BY <1>4, <1>5, <1>7
  <1>9. trace.points[i].at \in Int /\ 10 * trace.points[i].at - taken \in -4..5
    BY <1>6, <1>8, Rounding
  <1> QED
    BY <1>4, <1>9 DEF taken

(* A point is recorded within half a millisecond of when its fix was       *)
(* taken, and points a millisecond apart stay in order.                    *)
THEOREM PointsKeepTheirTime == Spec => []RecordedWhenTaken
  <1>1. ASSUME CallInv  PROVE RecordedWhenTaken
    <2>1. CASE ~Traced
      BY <1>1, <2>1 DEF CallInv, RecordedWhenTaken
    <2>2. CASE Traced
      <3>1. DOMAIN trace.points = 1..Len(posts)
        BY <1>1, <2>2, TraceFacts
      <3>2. ASSUME NEW i \in DOMAIN trace.points, NEW j \in DOMAIN trace.points
            PROVE  /\ 10 * trace.points[i].at - posts[i].taken \in -5..5
                   /\ posts[j].taken - posts[i].taken >= 10 => trace.points[i].at < trace.points[j].at
        <4>1. /\ trace.points[i].at \in Int /\ posts[i].taken \in Nat
              /\ 10 * trace.points[i].at - posts[i].taken \in -4..5
          BY <1>1, <2>2, <3>1, PointFacts
        <4>2. /\ trace.points[j].at \in Int /\ posts[j].taken \in Nat
              /\ 10 * trace.points[j].at - posts[j].taken \in -4..5
          BY <1>1, <2>2, <3>1, PointFacts
        <4> QED
          BY <4>1, <4>2
      <3> QED
        BY <3>2 DEF RecordedWhenTaken
    <2> QED
      BY <2>1, <2>2
  <1> QED
    BY <1>1, CallInvariant, PTL

-----------------------------------------------------------------------------
(* What passed Canonicalize, field by field.                               *)
LEMMA AcceptedFacts ==
  ASSUME NEW payload, ~CanonicalizeRefused(payload)
  PROVE  LET p == Canonicalize(payload)
         IN  p.status \in PayloadStatus /\ p.vehicle \in PayloadVehicle /\ p.speed \in Nat
  <1>1. /\ Upper[Field(payload, "status")] \in PayloadStatus
        /\ Lower[Field(payload, "vehicle_type")] \in PayloadVehicle
    BY DEF CanonicalizeRefused, TextRefused
  <1>2. Upper[Nil] \notin PayloadStatus /\ Lower[Nil] \notin PayloadVehicle
    BY TextAssumption DEF PayloadStatus, PayloadVehicle
  <1>3. /\ Field(payload, "status") = payload["status"]
        /\ Field(payload, "vehicle_type") = payload["vehicle_type"]
    BY <1>1, <1>2 DEF Field
  <1>4. Field(payload, "speed") \in Nat
    <2>1. Field(payload, "speed") \in Allowed("speed")
      BY DEF CanonicalizeRefused, NumberRefused, RequiredNumber
    <2>2. Allowed("speed") = Nat
      BY DEF Allowed
    <2> QED
      BY <2>1, <2>2
  <1>5. Field(payload, "speed") = payload["speed"]
    BY <1>4, CallAssumption DEF Field
  <1> QED
    BY <1>1, <1>3, <1>4, <1>5 DEF Canonicalize

(* A trace that is matched has two points or more, none at the zero time,  *)
(* one driver and one vehicle type.                                        *)
LEMMA MatchedFacts ==
  ASSUME CallInv, Succeeded, NEW i \in 1..Len(posts)
  PROVE  /\ trace.points[i].at # ZeroTime
         /\ trace.points[i].driver = trace.driver
         /\ trace.points[i].vehicle \in PayloadVehicle
         /\ NormalizeVehicleType(trace.points[i].vehicle) = Profile(trace.points)
  <1>1. /\ DOMAIN trace.points = 1..Len(posts) /\ Len(posts) \in Nat
        /\ trace.points \in Seq(ToSet(trace.points))
        /\ Len(trace.points) = Len(posts)
    BY TraceFacts DEF Traced, Succeeded
  <1>2. ~RouterRefuses(trace.points) /\ ~EncodeRefuses(trace.points) /\ ~TraceRefused(trace)
    BY DEF CallInv, MatchRefused
  <1>3. trace.points[i].at # ZeroTime
    BY <1>1, <1>2 DEF EncodeRefuses
  <1>4. trace.points[i].driver = trace.driver
    BY <1>1, <1>2 DEF TraceRefused
  <1>5. trace.points[i].vehicle = trace.points[1].vehicle /\ trace.points[1].vehicle \in PayloadVehicle
    BY <1>1, <1>2 DEF RouterRefuses
  <1>6. NormalizeVehicleType(trace.points[1].vehicle) = Profile(trace.points)
    BY <1>5 DEF NormalizeVehicleType, Profile, PayloadVehicle
  <1> QED
    BY <1>3, <1>4, <1>5, <1>6

(* An accepted answer makes no observation of half a match, and a speed    *)
(* limit of one km/h or more is one of a metre per second or more.         *)
LEMMA ObserveFacts ==
  ASSUME NEW p, NEW a, ~AnswerRefused(a),
         a.maxSpeedKMH # Nil => a.maxSpeedKMH \in Int /\ a.maxSpeedKMH % 18 = 0
  PROVE  LET o == Observe(p, a)
         IN  /\ o.eligible => o.matched /\ o.key # Nil
             /\ o.maxSpeed # Nil => o.maxSpeed > 0 /\ o.key # Nil
  <1> DEFINE o == Observe(p, a)
  <1>1. a.eligible = TRUE => a.matched
    BY DEF AnswerRefused
  <1>2. a.matched => a.key # Nil
    BY DEF AnswerRefused
  <1>3. /\ o.eligible = (a.eligible = TRUE)
        /\ o.matched = a.matched
        /\ o.key = IF a.matched THEN a.key ELSE Nil
        /\ o.maxSpeed = IF a.matched /\ a.maxSpeedKMH # Nil THEN (a.maxSpeedKMH * 5) \div 18 ELSE Nil
    BY DEF Observe
  <1>4. a.matched /\ a.maxSpeedKMH # Nil => (a.maxSpeedKMH * 5) \div 18 > 0
    <2> SUFFICES ASSUME a.matched, a.maxSpeedKMH # Nil  PROVE (a.maxSpeedKMH * 5) \div 18 > 0
      OBVIOUS
    <2> DEFINE kmh == a.maxSpeedKMH
    <2>1. kmh \in Int /\ kmh % 18 = 0 /\ ~(kmh <= 0)
      BY DEF AnswerRefused
    <2> HIDE DEF kmh
    <2>2. kmh >= 18
      BY <2>1
    <2>3. (kmh * 5) \div 18 > 0
      BY <2>1, <2>2
    <2> QED
      BY <2>3 DEF kmh
  <1> HIDE DEF o
  <1>5. o.eligible => o.matched /\ o.key # Nil
    BY <1>1, <1>2, <1>3
  <1>6. o.maxSpeed # Nil => o.maxSpeed > 0 /\ o.key # Nil
    BY <1>2, <1>3, <1>4
  <1> QED
    BY <1>5, <1>6 DEF o

(* What the processor relies on: what is not OFFLINE is valid, what is     *)
(* eligible is matched, limits are positive, and a trace has one driver    *)
(* and the vehicle of the profile it was matched with.                     *)
THEOREM ObservationsAreFit == Spec => []ObservationsFit
  <1>1. ASSUME CallInv, Succeeded, NEW i \in DOMAIN result
        PROVE  LET o == result[i]
               IN  /\ o.status # "OFFLINE" => IsValid(o)
                   /\ o.eligible => o.matched /\ o.key # Nil
                   /\ o.maxSpeed # Nil => o.maxSpeed > 0 /\ o.key # Nil
                   /\ o.driver = trace.driver
                   /\ NormalizeVehicleType(o.vehicle) = Profile(trace.points)
    <2>1. i \in 1..Len(posts)
      BY <1>1, ResultFacts
    <2>2. PICK j \in 1..Len(posts) : response[j].index = i - 1
      BY <1>1, <2>1, AnswerFacts
    <2> DEFINE p == trace.points[i]
               a == response[j]
               o == result[i]
    <2>3. o = Observe(p, a)
      <3>1. a.index + 1 = i
        BY <2>1, <2>2, TraceFacts, <1>1 DEF Traced, Succeeded
      <3> QED
        BY <1>1, <3>1, ResultFacts
    <2>4. p.status \in PayloadStatus /\ p.vehicle \in PayloadVehicle /\ p.speed \in Nat
      <3>1. ~CanonicalizeRefused(posts[i].payload) /\ p = Canonicalize(posts[i].payload)
        BY <1>1, <2>1, TraceFacts DEF Declined, Traced, Succeeded
      <3> QED
        BY <3>1, AcceptedFacts
    <2>5. /\ p.at # ZeroTime /\ p.driver = trace.driver
          /\ NormalizeVehicleType(p.vehicle) = Profile(trace.points)
      BY <1>1, <2>1, MatchedFacts
    <2>6. ~AnswerRefused(a)
          /\ (a.maxSpeedKMH # Nil => a.maxSpeedKMH \in Int /\ a.maxSpeedKMH % 18 = 0)
      <3>1. DOMAIN response = 1..Len(posts) /\ ~AnswerRefused(a)
        BY <1>1, AnswerFacts
      <3>2. PICK call \in Call : response = call.response
        BY <1>1 DEF CallInv
      <3>3. \A k \in DOMAIN response :
              response[k].maxSpeedKMH # Nil => response[k].maxSpeedKMH \in Int /\ response[k].maxSpeedKMH % 18 = 0
        BY <3>2, CallAssumption
      <3> QED
        BY <3>1, <3>3
    <2> HIDE DEF p, a, o
    <2>7. /\ o.driver = p.driver /\ o.at = p.at /\ o.status = p.status
          /\ o.vehicle = p.vehicle /\ o.speed = p.speed
      BY <2>3 DEF Observe
    <2>8. o.status # "OFFLINE" => IsValid(o)
      <3>1. o.at # ZeroTime /\ o.vehicle \in PayloadVehicle
        BY <2>4, <2>5, <2>7
      <3>2. o.speed >= 0
        BY <2>4, <2>7
      <3>3. o.status # "OFFLINE" => o.status \in {"IN TRIP", "ONLINE"}
        BY <2>4, <2>7 DEF PayloadStatus
      <3> QED
        BY <3>1, <3>2, <3>3 DEF IsValid
    <2>9. /\ o.eligible => o.matched /\ o.key # Nil
          /\ o.maxSpeed # Nil => o.maxSpeed > 0 /\ o.key # Nil
      BY <2>3, <2>6, ObserveFacts
    <2> QED
      BY <2>5, <2>7, <2>8, <2>9 DEF o
  <1>2. CallInv => ObservationsFit
    BY <1>1 DEF ObservationsFit
  <1> QED
    BY <1>2, CallInvariant, PTL
=============================================================================
