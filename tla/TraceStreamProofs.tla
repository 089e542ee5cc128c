------------------------- MODULE TraceStreamProofs -------------------------
(***************************************************************************)
(* What TLAPS proves about the trace buffer, for every set of drivers,     *)
(* every set of events and every configuration that Validate accepts.      *)
(***************************************************************************)
EXTENDS TraceStream, SequenceTheorems, TLAPS

(* The last points of a sequence: what they are and how they relate to it. *)
LEMMA SuffixFacts ==
  ASSUME NEW S, NEW s \in Seq(S), NEW n \in 0..Len(s)
  PROVE  LET t == SubSeq(s, Len(s) - n + 1, Len(s))
         IN  /\ t \in Seq(S)
             /\ Len(t) = n
             /\ \A i \in 1..n : t[i] = s[Len(s) - n + i]
  OBVIOUS

(* Appending e: what the longer sequence is.                               *)
LEMMA AppendFacts ==
  ASSUME NEW S, NEW s \in Seq(S), NEW e \in S
  PROVE  /\ Append(s, e) \in Seq(S)
         /\ Len(Append(s, e)) = Len(s) + 1
         /\ \A i \in 1..Len(s) : Append(s, e)[i] = s[i]
         /\ Append(s, e)[Len(s) + 1] = e
         /\ Last(Append(s, e)) = e
  BY DEF Last

-----------------------------------------------------------------------------
(* What Validate guarantees about the configuration of a running buffer.   *)
LEMMA ConfigFacts ==
  ASSUME StreamTypeOK
  PROVE  /\ config.maxPoints \in Int /\ config.minPoints \in Int
         /\ config.maxDuration \in Int /\ config.overlapPoints \in Nat
         /\ 2 <= config.minPoints /\ config.minPoints <= config.maxPoints
         /\ config.overlapPoints < config.maxPoints
  BY ConfigAssumption DEF StreamTypeOK, Validate

(* An event that Add does not refuse is from a driver and newer than what  *)
(* the buffer holds for it, and the grown buffer is the old one plus e.    *)
LEMMA GrownFacts ==
  ASSUME StreamTypeOK, NEW e \in Event, ~Refused(e)
  PROVE  /\ e.driver \in Driver
         /\ e.at \in Int
         /\ pointsByDriver[e.driver] \in Seq(Event)
         /\ pointsByDriver[e.driver] # <<>> => Last(pointsByDriver[e.driver]).at < e.at
         /\ Grown(e) \in Seq(Event)
         /\ Len(Grown(e)) = Len(pointsByDriver[e.driver]) + 1
         /\ \A i \in 1..Len(pointsByDriver[e.driver]) : Grown(e)[i] = pointsByDriver[e.driver][i]
         /\ Grown(e)[Len(pointsByDriver[e.driver]) + 1] = e
         /\ Last(Grown(e)) = e
  <1> DEFINE held == pointsByDriver[e.driver]
  <1>1. e.driver \in Driver /\ e.at \in Int
    BY EventAssumption DEF Refused
  <1>2. held \in Seq(Event)
    BY <1>1 DEF StreamTypeOK
  <1>3. held # <<>> => Last(held).at < e.at
    <2> SUFFICES ASSUME held # <<>>  PROVE Last(held).at < e.at
      OBVIOUS
    <2>1. Last(held) \in Event
      BY <1>2 DEF Last
    <2>2. Last(held).at \in Int
      BY <2>1, EventAssumption
    <2> QED
      BY <1>1, <2>2 DEF Refused
  <1> QED
    BY <1>1, <1>2, <1>3, AppendFacts DEF Grown

(* The points kept after an emission are the newest overlapPoints ones.    *)
LEMMA OverlapFacts ==
  ASSUME StreamTypeOK, NEW points \in Seq(Event), config.overlapPoints <= Len(points)
  PROVE  /\ Overlap(points) \in Seq(Event)
         /\ Len(Overlap(points)) = config.overlapPoints
         /\ \A i \in 1..config.overlapPoints :
              Overlap(points)[i] = points[Len(points) - config.overlapPoints + i]
  <1>1. config.overlapPoints \in 0..Len(points)
    BY ConfigFacts
  <1> QED
    BY <1>1, SuffixFacts DEF Overlap

(* The effect of a step that stores points for the driver of e.            *)
LEMMA KeepFacts ==
  ASSUME StreamTypeOK, NEW e \in Event, e.driver \in Driver, NEW points, Keep(e, points)
  PROVE  /\ config' = config
         /\ pointsByDriver'[e.driver] = points
         /\ \A d \in Driver \ {e.driver} : pointsByDriver'[d] = pointsByDriver[d]
         /\ points \in Seq(Event) => pointsByDriver' \in [Driver -> Seq(Event)]
  BY DEF Keep, StreamTypeOK

-----------------------------------------------------------------------------
(* Add, whatever it is called with, keeps every variable in its type.      *)
THEOREM TypeCorrect == Spec => []StreamTypeOK
  <1>1. Init => StreamTypeOK
    BY DEF Init, NewBuffer, StreamTypeOK, Outcome
  <1>2. StreamTypeOK /\ [Next]_vars => StreamTypeOK'
    <2> SUFFICES ASSUME StreamTypeOK, [Next]_vars  PROVE StreamTypeOK'
      OBVIOUS
    <2>1. ASSUME NEW e \in Event, Refuse(e)  PROVE StreamTypeOK'
      BY <2>1 DEF Refuse, AddRefused, StreamTypeOK, Outcome
    <2>2. ASSUME NEW e \in Event, Store(e)  PROVE StreamTypeOK'
      <3>1. ~Refused(e) /\ Keep(e, Grown(e)) /\ Accept(e) /\ outcome' = "buffered" /\ traces' = traces
        BY <2>2 DEF Store, AddBuffered
      <3>2. pointsByDriver' \in [Driver -> Seq(Event)] /\ config' = config
        BY <3>1, GrownFacts, KeepFacts
      <3>3. accepted' \in [Driver -> Seq(Event)]
        BY <3>1, GrownFacts DEF Accept, StreamTypeOK
      <3> QED
        BY <3>1, <3>2, <3>3 DEF StreamTypeOK, Outcome
    <2>3. ASSUME NEW e \in Event, Emit(e)  PROVE StreamTypeOK'
      <3>1. /\ ~Refused(e) /\ config.overlapPoints <= Len(Grown(e))
            /\ Keep(e, Overlap(Grown(e))) /\ Accept(e) /\ outcome' = "emitted"
            /\ traces' = [traces EXCEPT ![e.driver] = Append(@, Grown(e))]
        BY <2>3 DEF Emit, AddEmitted
      <3>2. pointsByDriver' \in [Driver -> Seq(Event)] /\ config' = config
        BY <3>1, GrownFacts, OverlapFacts, KeepFacts
      <3>3. accepted' \in [Driver -> Seq(Event)]
        BY <3>1, GrownFacts DEF Accept, StreamTypeOK
      <3>4. traces' \in [Driver -> Seq(Seq(Event))]
        BY <3>1, GrownFacts DEF StreamTypeOK
      <3> QED
        BY <3>1, <3>2, <3>3, <3>4 DEF StreamTypeOK, Outcome
    <2>4. ASSUME NEW e \in Event, Panic(e)  PROVE StreamTypeOK'
      <3>1. ~Refused(e) /\ Keep(e, Grown(e)) /\ Accept(e) /\ outcome' = "panicked" /\ traces' = traces
        BY <2>4 DEF Panic, AddPanicked
      <3>2. pointsByDriver' \in [Driver -> Seq(Event)] /\ config' = config
        BY <3>1, GrownFacts, KeepFacts
      <3>3. accepted' \in [Driver -> Seq(Event)]
        BY <3>1, GrownFacts DEF Accept, StreamTypeOK
      <3> QED
        BY <3>1, <3>2, <3>3 DEF StreamTypeOK, Outcome
    <2>5. CASE UNCHANGED vars
      BY <2>5 DEF vars, StreamTypeOK
    <2> QED
      BY <2>1, <2>2, <2>3, <2>4, <2>5 DEF Next
  <1> QED
    BY <1>1, <1>2, PTL DEF Spec

-----------------------------------------------------------------------------
(* Every step of Next but a stutter calls Add with some event; the three   *)
(* accepting outcomes store the grown buffer or its overlap.               *)
LEMMA StepFacts ==
  ASSUME StreamTypeOK, Next
  PROVE  \/ /\ outcome' = "refused"
            /\ UNCHANGED <<config, pointsByDriver, accepted, traces>>
         \/ \E e \in Event :
              /\ ~Refused(e) /\ e.driver \in Driver
              /\ accepted' = [accepted EXCEPT ![e.driver] = Append(@, e)]
              /\ \/ /\ ~ShouldEmit(Grown(e)) /\ Keep(e, Grown(e))
                    /\ outcome' = "buffered" /\ UNCHANGED traces
                 \/ /\ ShouldEmit(Grown(e)) /\ config.overlapPoints <= Len(Grown(e))
                    /\ Keep(e, Overlap(Grown(e)))
                    /\ outcome' = "emitted"
                    /\ traces' = [traces EXCEPT ![e.driver] = Append(@, Grown(e))]
                 \/ /\ ShouldEmit(Grown(e)) /\ config.overlapPoints > Len(Grown(e))
                    /\ Keep(e, Grown(e))
                    /\ outcome' = "panicked" /\ UNCHANGED traces
  <1> PICK e \in Event : Refuse(e) \/ Store(e) \/ Emit(e) \/ Panic(e)
    BY DEF Next
  <1>1. CASE Refuse(e)
    BY <1>1 DEF Refuse, AddRefused
  <1>2. CASE Store(e)
    BY <1>2, GrownFacts DEF Store, AddBuffered, Accept
  <1>3. CASE Emit(e)
    BY <1>3, GrownFacts DEF Emit, AddEmitted, Accept
  <1>4. CASE Panic(e)
    BY <1>4, GrownFacts DEF Panic, AddPanicked, Accept
  <1> QED
    BY <1>1, <1>2, <1>3, <1>4

(* A driver's buffer never reaches maxPoints between two calls of Add: a   *)
(* trace is cut first, and its overlap is shorter.                         *)
THEOREM BufferIsBounded == Spec => []BufferBounded
  <1>1. Init => BufferBounded
    BY ConfigAssumption DEF Init, NewBuffer, BufferBounded, Validate
  <1>2. StreamTypeOK /\ BufferBounded /\ [Next]_vars => BufferBounded'
    <2> SUFFICES ASSUME StreamTypeOK, BufferBounded, [Next]_vars  PROVE BufferBounded'
      OBVIOUS
    <2>1. CASE UNCHANGED <<config, pointsByDriver>>
      BY <2>1 DEF BufferBounded
    <2>2. ASSUME NEW e \in Event, ~Refused(e), NEW points \in Seq(Event),
                 Keep(e, points), Len(points) < config.maxPoints
          PROVE  BufferBounded'
      <3>1. /\ pointsByDriver'[e.driver] = points
            /\ \A d \in Driver \ {e.driver} : pointsByDriver'[d] = pointsByDriver[d]
            /\ config' = config
        BY <2>2, GrownFacts, KeepFacts
      <3> QED
        BY ONLY <2>2, <3>1, BufferBounded DEF BufferBounded
    <2>3. ASSUME NEW e \in Event, ~Refused(e), ~ShouldEmit(Grown(e)), Keep(e, Grown(e))
          PROVE  BufferBounded'
      <3>1. Len(Grown(e)) < config.maxPoints
        BY <2>3, GrownFacts, ConfigFacts DEF ShouldEmit
      <3> QED
        BY <2>2, <2>3, <3>1, GrownFacts
    <2>4. ASSUME NEW e \in Event, ~Refused(e), config.overlapPoints <= Len(Grown(e)),
                 Keep(e, Overlap(Grown(e)))
          PROVE  BufferBounded'
      <3>1. Overlap(Grown(e)) \in Seq(Event) /\ Len(Overlap(Grown(e))) < config.maxPoints
        BY <2>4, GrownFacts, OverlapFacts, ConfigFacts
      <3> QED
        BY <2>2, <2>4, <3>1
    <2>5. ASSUME NEW e \in Event, ~Refused(e), config.overlapPoints > Len(Grown(e)), Keep(e, Grown(e))
          PROVE  BufferBounded'
      <3>1. Len(Grown(e)) < config.maxPoints
        BY <2>5, GrownFacts, ConfigFacts
      <3> QED
        BY <2>2, <2>5, <3>1, GrownFacts
    <2> QED
      BY <2>1, <2>3, <2>4, <2>5, StepFacts DEF vars
  <1> QED
    BY <1>1, <1>2, TypeCorrect, PTL DEF Spec

(* Add panics in no configuration whose overlap is at most minPoints.      *)
THEOREM PanicNeedsLongOverlap == Spec => []PanicOnlyWithLongOverlap
  <1>1. Init => PanicOnlyWithLongOverlap
    BY DEF Init, PanicOnlyWithLongOverlap
  <1>2. StreamTypeOK /\ PanicOnlyWithLongOverlap /\ [Next]_vars => PanicOnlyWithLongOverlap'
    <2> SUFFICES ASSUME StreamTypeOK, PanicOnlyWithLongOverlap, [Next]_vars, outcome' = "panicked"
                 PROVE  config'.overlapPoints > config'.minPoints
      BY DEF PanicOnlyWithLongOverlap
    <2>1. CASE UNCHANGED vars
      BY <2>1 DEF vars, PanicOnlyWithLongOverlap
    <2>2. ASSUME NEW e \in Event, ~Refused(e), ShouldEmit(Grown(e)),
                 config.overlapPoints > Len(Grown(e)), Keep(e, Grown(e))
          PROVE  config'.overlapPoints > config'.minPoints
      BY <2>2, GrownFacts, ConfigFacts DEF ShouldEmit, Keep
    <2> QED
      BY <2>1, <2>2, StepFacts
  <1> QED
    BY <1>1, <1>2, TypeCorrect, PTL DEF Spec

-----------------------------------------------------------------------------
(* Once a driver has had a trace, its buffer holds a whole overlap, so a   *)
(* slice that is too short can only meet its first points.                 *)
OverlapKept ==
  \A d \in Driver : traces[d] # <<>> => Len(pointsByDriver[d]) >= config.overlapPoints

(* A call that keeps the grown buffer, returned or panicked, leaves        *)
(* OverlapKept as it was, and what it keeps is not due or has no trace.    *)
LEMMA KeptStep ==
  ASSUME StreamTypeOK, OverlapKept, NothingOverdue,
         NEW e \in Event, ~Refused(e), Keep(e, Grown(e)), UNCHANGED traces,
         ShouldEmit(Grown(e)) => config.overlapPoints > Len(Grown(e))
  PROVE  OverlapKept' /\ NothingOverdue'
  <1> DEFINE held == pointsByDriver[e.driver]
  <1>1. /\ e.driver \in Driver /\ config' = config /\ pointsByDriver'[e.driver] = Grown(e)
        /\ \A d \in Driver \ {e.driver} : pointsByDriver'[d] = pointsByDriver[d]
    BY GrownFacts, KeepFacts
  <1>2. Len(held) \in Nat /\ Len(Grown(e)) = Len(held) + 1
    BY GrownFacts
  <1>3. OverlapKept'
    <2> SUFFICES ASSUME NEW d \in Driver, traces[d] # <<>>
                 PROVE  Len(pointsByDriver'[d]) >= config.overlapPoints
      BY <1>1 DEF OverlapKept
    <2>1. Len(pointsByDriver[d]) >= config.overlapPoints
      BY DEF OverlapKept
    <2>2. CASE d = e.driver
      BY <1>1, <1>2, <2>1, <2>2, ConfigFacts
    <2>3. CASE d # e.driver
      BY <1>1, <2>1, <2>3
    <2> QED
      BY <2>2, <2>3
  <1>4. ASSUME Len(Grown(e)) >= config.minPoints,
               Last(Grown(e)).at - Head(Grown(e)).at >= config.maxDuration
        PROVE  traces[e.driver] = <<>> /\ Len(Grown(e)) < config.overlapPoints
    <2>1. config.overlapPoints > Len(Grown(e))
      BY <1>4 DEF ShouldEmit
    <2>2. ~(Len(held) >= config.overlapPoints)
      BY <1>2, <2>1, ConfigFacts
    <2> QED
      BY <1>1, <2>1, <2>2, <1>2, ConfigFacts DEF OverlapKept
  <1>5. NothingOverdue'
    <2> SUFFICES ASSUME NEW d \in Driver,
                        Len(pointsByDriver'[d]) >= config.minPoints,
                        Last(pointsByDriver'[d]).at - Head(pointsByDriver'[d]).at >= config.maxDuration
                 PROVE  HandedOut(d)' \/ CannotBeCut(d)'
      BY <1>1 DEF NothingOverdue
    <2>1. CASE d = e.driver
      BY <1>1, <1>4, <2>1 DEF CannotBeCut
    <2>2. CASE d # e.driver
      <3>1. pointsByDriver'[d] = pointsByDriver[d]
        BY <1>1, <2>2
      <3>2. HandedOut(d) \/ CannotBeCut(d)
        BY <3>1 DEF NothingOverdue
      <3> QED
        BY <1>1, <3>1, <3>2 DEF HandedOut, CannotBeCut
    <2> QED
      BY <2>1, <2>2
  <1> QED
    BY <1>3, <1>5

(* A call that emits hands out the newest point and keeps a whole overlap. *)
LEMMA EmittedStep ==
  ASSUME StreamTypeOK, OverlapKept, NothingOverdue,
         NEW e \in Event, ~Refused(e), config.overlapPoints <= Len(Grown(e)),
         Keep(e, Overlap(Grown(e))),
         traces' = [traces EXCEPT ![e.driver] = Append(@, Grown(e))]
  PROVE  OverlapKept' /\ NothingOverdue'
  <1> DEFINE overlap == Overlap(Grown(e))
  <1>1. /\ e.driver \in Driver /\ Grown(e) \in Seq(Event) /\ Len(Grown(e)) \in Nat \ {0}
        /\ overlap \in Seq(Event) /\ Len(overlap) = config.overlapPoints
    BY GrownFacts, OverlapFacts
  <1>2. /\ config' = config /\ pointsByDriver'[e.driver] = overlap
        /\ \A d \in Driver \ {e.driver} : pointsByDriver'[d] = pointsByDriver[d]
    BY <1>1, KeepFacts
  <1>3. /\ traces'[e.driver] = Append(traces[e.driver], Grown(e))
        /\ \A d \in Driver \ {e.driver} : traces'[d] = traces[d]
    BY <1>1 DEF StreamTypeOK
  <1>4. OverlapKept'
    <2> SUFFICES ASSUME NEW d \in Driver, traces'[d] # <<>>
                 PROVE  Len(pointsByDriver'[d]) >= config.overlapPoints
      BY <1>2 DEF OverlapKept
    <2>1. CASE d = e.driver
      BY <1>1, <1>2, <2>1, ConfigFacts
    <2>2. CASE d # e.driver
      BY <1>2, <1>3, <2>2 DEF OverlapKept
    <2> QED
      BY <2>1, <2>2
  <1>5. overlap # <<>> => HandedOut(e.driver)'
    <2> SUFFICES ASSUME overlap # <<>>  PROVE HandedOut(e.driver)'
      OBVIOUS
    <2>1. traces[e.driver] \in Seq(Seq(Event))
      BY <1>1 DEF StreamTypeOK
    <2>2. traces'[e.driver] # <<>> /\ Last(traces'[e.driver]) = Grown(e)
      <3> DEFINE old == traces[e.driver]
      <3>1. old \in Seq(Seq(Event)) /\ Grown(e) \in Seq(Event) /\ traces'[e.driver] = Append(old, Grown(e))
        BY <1>1, <1>3, <2>1
      <3>2. Append(old, Grown(e)) # <<>> /\ Last(Append(old, Grown(e))) = Grown(e)
        <4> HIDE DEF old
        <4> QED
          BY <3>1, AppendFacts
      <3> QED
        BY <3>1, <3>2
    <2>3. config.overlapPoints \in 1..Len(Grown(e))
      BY <1>1, ConfigFacts
    <2>4. overlap[config.overlapPoints] = Grown(e)[Len(Grown(e))]
      <3> DEFINE n == config.overlapPoints
      <3>1. overlap[n] = Grown(e)[Len(Grown(e)) - n + n] /\ n \in 1..n
        BY <1>1, <2>3, OverlapFacts
      <3>2. Len(Grown(e)) - n + n = Len(Grown(e))
        BY <1>1, <2>3
      <3> QED
        BY <3>1, <3>2
    <2>5. Last(overlap) = Last(Grown(e))
      BY <1>1, <2>4 DEF Last
    <2> QED
      BY <1>2, <2>2, <2>5 DEF HandedOut
  <1>6. NothingOverdue'
    <2> SUFFICES ASSUME NEW d \in Driver,
                        Len(pointsByDriver'[d]) >= config.minPoints,
                        Last(pointsByDriver'[d]).at - Head(pointsByDriver'[d]).at >= config.maxDuration
                 PROVE  HandedOut(d)' \/ CannotBeCut(d)'
      BY <1>2 DEF NothingOverdue
    <2>1. CASE d = e.driver
      BY <1>1, <1>2, <1>5, <2>1, ConfigFacts
    <2>2. CASE d # e.driver
      <3>1. pointsByDriver'[d] = pointsByDriver[d] /\ traces'[d] = traces[d]
        BY <1>2, <1>3, <2>2
      <3>2. HandedOut(d) \/ CannotBeCut(d)
        BY <3>1 DEF NothingOverdue
      <3> QED
        BY <1>2, <3>1, <3>2 DEF HandedOut, CannotBeCut
    <2> QED
      BY <2>1, <2>2
  <1> QED
    BY <1>4, <1>6

(* Points that are enough and span maxDuration are the overlap of a trace  *)
(* that was handed out, or were left by a panic before the first trace.    *)
THEOREM NothingIsOverdue == Spec => []NothingOverdue
  <1>1. Init => OverlapKept /\ NothingOverdue
    BY ConfigAssumption DEF Init, NewBuffer, OverlapKept, NothingOverdue, Validate
  <1>2. StreamTypeOK /\ OverlapKept /\ NothingOverdue /\ [Next]_vars => OverlapKept' /\ NothingOverdue'
    <2> SUFFICES ASSUME StreamTypeOK, OverlapKept, NothingOverdue, [Next]_vars
                 PROVE  OverlapKept' /\ NothingOverdue'
      OBVIOUS
    <2>1. CASE UNCHANGED <<config, pointsByDriver, traces>>
      BY <2>1 DEF OverlapKept, NothingOverdue, HandedOut, CannotBeCut
    <2> QED
      BY <2>1, KeptStep, EmittedStep, StepFacts DEF vars
  <1> QED
    BY <1>1, <1>2, TypeCorrect, PTL DEF Spec

-----------------------------------------------------------------------------
(* A newer point at the end of a rising sequence.                          *)
LEMMA AppendRises ==
  ASSUME NEW s \in Seq(Event), NEW e \in Event, StrictlyRising(s), s # <<>> => Last(s).at < e.at
  PROVE  StrictlyRising(Append(s, e))
  <1>1. \A x \in Event : x.at \in Int
    BY EventAssumption
  <1> SUFFICES ASSUME NEW i \in 1..(Len(s) + 1), NEW j \in 1..(Len(s) + 1), i < j
               PROVE  Append(s, e)[i].at < Append(s, e)[j].at
    BY AppendFacts DEF StrictlyRising
  <1>2. i \in 1..Len(s) /\ s # <<>>
    OBVIOUS
  <1>3. CASE j \in 1..Len(s)
    BY <1>2, <1>3, AppendFacts DEF StrictlyRising
  <1>4. CASE j = Len(s) + 1
    <2>1. s[i] \in Event /\ s[Len(s)] \in Event
      BY <1>2
    <2>2. s[i].at \in Int /\ s[Len(s)].at \in Int /\ e.at \in Int
      BY <1>1, <2>1
    <2>3. s[i].at <= s[Len(s)].at
      BY <1>2, <2>2 DEF StrictlyRising
    <2>4. s[i].at < e.at
      BY <1>2, <2>2, <2>3 DEF Last
    <2> QED
      BY <1>2, <1>4, <2>4, AppendFacts
  <1> QED
    BY <1>2, <1>3, <1>4

(* A rising buffer stays rising when Add takes a point.                    *)
LEMMA GrownRises ==
  ASSUME StreamTypeOK, NEW e \in Event, ~Refused(e), StrictlyRising(pointsByDriver[e.driver])
  PROVE  StrictlyRising(Grown(e))
  BY GrownFacts, AppendRises DEF Grown

(* The overlap of a rising sequence is rising.                             *)
LEMMA OverlapRises ==
  ASSUME StreamTypeOK, NEW points \in Seq(Event), config.overlapPoints <= Len(points),
         StrictlyRising(points)
  PROVE  StrictlyRising(Overlap(points))
  <1> SUFFICES ASSUME NEW i \in 1..config.overlapPoints, NEW j \in 1..config.overlapPoints, i < j
               PROVE  Overlap(points)[i].at < Overlap(points)[j].at
    <2>1. DOMAIN Overlap(points) = 1..config.overlapPoints
      BY OverlapFacts
    <2> QED
      BY <2>1 DEF StrictlyRising
  <1> DEFINE at(k) == Len(points) - config.overlapPoints + k
  <1>1. at(i) \in 1..Len(points) /\ at(j) \in 1..Len(points) /\ at(i) < at(j)
    BY ConfigFacts
  <1>2. points[at(i)].at < points[at(j)].at
    BY <1>1 DEF StrictlyRising
  <1> QED
    BY <1>2, OverlapFacts

(* Whatever order events come in, a buffer and a trace are in time order.  *)
THEOREM TracesAlwaysRise == Spec => []TracesRise
  <1>1. Init => TracesRise
    BY DEF Init, NewBuffer, TracesRise, StrictlyRising
  <1>2. StreamTypeOK /\ TracesRise /\ [Next]_vars => TracesRise'
    <2> SUFFICES ASSUME StreamTypeOK, TracesRise, [Next]_vars  PROVE TracesRise'
      OBVIOUS
    <2>1. CASE UNCHANGED <<pointsByDriver, traces>>
      BY <2>1 DEF TracesRise
    <2>2. ASSUME NEW e \in Event, ~Refused(e), Keep(e, Grown(e)), UNCHANGED traces
          PROVE  TracesRise'
      <3>1. e.driver \in Driver /\ StrictlyRising(Grown(e))
        BY <2>2, GrownFacts, GrownRises DEF TracesRise
      <3> QED
        BY <2>2, <3>1, KeepFacts DEF TracesRise
    <2>3. ASSUME NEW e \in Event, ~Refused(e), config.overlapPoints <= Len(Grown(e)),
                 Keep(e, Overlap(Grown(e))),
                 traces' = [traces EXCEPT ![e.driver] = Append(@, Grown(e))]
          PROVE  TracesRise'
      <3>1. e.driver \in Driver /\ StrictlyRising(Grown(e)) /\ Grown(e) \in Seq(Event)
        BY <2>3, GrownFacts, GrownRises DEF TracesRise
      <3>2. StrictlyRising(Overlap(Grown(e)))
        BY <2>3, <3>1, OverlapRises
      <3>3. ASSUME NEW d \in Driver  PROVE StrictlyRising(pointsByDriver'[d])
        BY <2>3, <3>1, <3>2, KeepFacts DEF TracesRise
      <3>4. ASSUME NEW d \in Driver, NEW k \in DOMAIN traces'[d]
            PROVE  StrictlyRising(traces'[d][k])
        <4>1. CASE d = e.driver
          <5>1. traces[d] \in Seq(Seq(Event)) /\ traces'[d] = Append(traces[d], Grown(e))
            BY <2>3, <4>1 DEF StreamTypeOK
          <5>2. CASE k \in 1..Len(traces[d])
            BY <5>1, <5>2, <3>1, AppendFacts DEF TracesRise
          <5>3. CASE k = Len(traces[d]) + 1
            BY <5>1, <5>3, <3>1, AppendFacts
          <5> QED
            BY <3>1, <5>1, <5>2, <5>3, AppendFacts
        <4>2. CASE d # e.driver
          BY <2>3, <4>2 DEF StreamTypeOK, TracesRise
        <4> QED
          BY <4>1, <4>2
      <3> QED
        BY <3>3, <3>4 DEF TracesRise
    <2> QED
      BY <2>1, <2>2, <2>3, StepFacts DEF vars
  <1> QED
    BY <1>1, <1>2, TypeCorrect, PTL DEF Spec

-----------------------------------------------------------------------------
(* s is the end of t.                                                      *)
EndOf(s, t) ==
  /\ Len(s) <= Len(t)
  /\ \A i \in 1..Len(s) : s[i] = t[Len(t) - Len(s) + i]

(* The end of the end of a sequence is its end.                            *)
LEMMA EndOfTransitive ==
  ASSUME NEW S, NEW s \in Seq(S), NEW t \in Seq(S), NEW u \in Seq(S), EndOf(s, t), EndOf(t, u)
  PROVE  EndOf(s, u)
  <1> DEFINE ls == Len(s)  lt == Len(t)  lu == Len(u)
  <1>1. ls \in Nat /\ lt \in Nat /\ lu \in Nat /\ ls <= lt /\ lt <= lu
    BY DEF EndOf
  <1>2. ASSUME NEW i \in 1..ls  PROVE s[i] = u[lu - ls + i]
    <2> DEFINE j == lt - ls + i
    <2>1. j \in 1..lt /\ lu - lt + j = lu - ls + i
      BY <1>1
    <2>2. s[i] = t[j] /\ t[j] = u[lu - lt + j]
      BY <2>1 DEF EndOf
    <2> QED
      BY <2>1, <2>2
  <1> QED
    BY <1>1, <1>2 DEF EndOf

(* Appending the same to a sequence and to an end of it leaves it an end.  *)
LEMMA EndOfAppend ==
  ASSUME NEW S, NEW s \in Seq(S), NEW t \in Seq(S), NEW e \in S, EndOf(s, t)
  PROVE  EndOf(Append(s, e), Append(t, e))
  <1> DEFINE ls == Len(s)  lt == Len(t)
  <1>1. ls \in Nat /\ lt \in Nat /\ ls <= lt
    BY DEF EndOf
  <1>2. ASSUME NEW i \in 1..(ls + 1)  PROVE Append(s, e)[i] = Append(t, e)[(lt + 1) - (ls + 1) + i]
    <2>1. CASE i \in 1..ls
      <3>1. lt - ls + i \in 1..lt /\ (lt + 1) - (ls + 1) + i = lt - ls + i
        BY <1>1, <2>1
      <3>2. s[i] = t[lt - ls + i]
        BY <2>1 DEF EndOf
      <3> QED
        BY <2>1, <3>1, <3>2, AppendFacts
    <2>2. CASE i = ls + 1
      <3>1. (lt + 1) - (ls + 1) + i = lt + 1
        BY <1>1, <2>2
      <3> QED
        BY <2>2, <3>1, AppendFacts
    <2> QED
      BY <1>1, <2>1, <2>2
  <1>3. Len(Append(s, e)) = ls + 1 /\ Len(Append(t, e)) = lt + 1
    BY AppendFacts
  <1>4. Len(Append(s, e)) <= Len(Append(t, e))
    BY <1>1, <1>3
  <1>5. \A i \in 1..Len(Append(s, e)) :
          Append(s, e)[i] = Append(t, e)[Len(Append(t, e)) - Len(Append(s, e)) + i]
    BY ONLY <1>2, <1>3
  <1> QED
    BY ONLY <1>4, <1>5 DEF EndOf

(* What relates the buffer to the stream of accepted points: the buffer    *)
(* holds the newest of them and, with an overlap, is empty only before     *)
(* the first one.  StreamRises and ImplementsFeed are not inductive        *)
(* without it: a step sees the buffer's last point, not the stream's.      *)
HeldIsSuffix ==
  \A d \in Driver :
    /\ EndOf(pointsByDriver[d], accepted[d])
    /\ config.overlapPoints > 0 /\ accepted[d] # <<>> => pointsByDriver[d] # <<>>

(* The steps keep that relation for the driver that they serve.            *)
LEMMA SuffixStep ==
  ASSUME StreamTypeOK, HeldIsSuffix, NEW e \in Event, ~Refused(e), e.driver \in Driver,
         accepted' = [accepted EXCEPT ![e.driver] = Append(@, e)],
         NEW points \in Seq(Event), Keep(e, points), EndOf(points, Grown(e)),
         config.overlapPoints > 0 => points # <<>>
  PROVE  HeldIsSuffix'
  <1>1. config' = config /\ pointsByDriver'[e.driver] = points
    BY KeepFacts
  <1>2. accepted'[e.driver] = Append(accepted[e.driver], e)
    BY DEF StreamTypeOK
  <1>3. \A d \in Driver \ {e.driver} :
          pointsByDriver'[d] = pointsByDriver[d] /\ accepted'[d] = accepted[d]
    BY KeepFacts DEF StreamTypeOK
  <1>4. pointsByDriver[e.driver] \in Seq(Event) /\ accepted[e.driver] \in Seq(Event)
    BY DEF StreamTypeOK
  <1>5. EndOf(Grown(e), Append(accepted[e.driver], e))
    BY <1>4, EndOfAppend DEF HeldIsSuffix, Grown
  <1>6. EndOf(points, accepted'[e.driver])
    <2>1. Grown(e) \in Seq(Event) /\ Append(accepted[e.driver], e) \in Seq(Event)
      BY <1>4, GrownFacts, AppendFacts
    <2>2. EndOf(points, Append(accepted[e.driver], e))
      BY <1>5, <2>1, EndOfTransitive
    <2> QED
      BY <1>2, <2>2
  <1> SUFFICES ASSUME NEW d \in Driver
               PROVE  /\ EndOf(pointsByDriver'[d], accepted'[d])
                      /\ config.overlapPoints > 0 /\ accepted'[d] # <<>> => pointsByDriver'[d] # <<>>
    BY <1>1 DEF HeldIsSuffix, EndOf
  <1>7. CASE d = e.driver
    BY <1>1, <1>6, <1>7
  <1>8. CASE d # e.driver
    BY <1>3, <1>8 DEF HeldIsSuffix
  <1> QED
    BY <1>7, <1>8

(* The buffer always holds the newest points accepted.                     *)
THEOREM BufferIsSuffix == Spec => []HeldIsSuffix
  <1>1. Init => HeldIsSuffix
    BY DEF Init, NewBuffer, HeldIsSuffix, EndOf
  <1>2. StreamTypeOK /\ HeldIsSuffix /\ [Next]_vars => HeldIsSuffix'
    <2> SUFFICES ASSUME StreamTypeOK, HeldIsSuffix, [Next]_vars  PROVE HeldIsSuffix'
      OBVIOUS
    <2>1. CASE UNCHANGED <<config, pointsByDriver, accepted>>
      BY <2>1 DEF HeldIsSuffix, EndOf
    <2>2. ASSUME NEW e \in Event, ~Refused(e), Keep(e, Grown(e)),
                 accepted' = [accepted EXCEPT ![e.driver] = Append(@, e)]
          PROVE  HeldIsSuffix'
      <3>1. Grown(e) \in Seq(Event) /\ Grown(e) # <<>> /\ e.driver \in Driver
        BY <2>2, GrownFacts
      <3>2. EndOf(Grown(e), Grown(e))
        BY <3>1 DEF EndOf
      <3> QED
        BY <2>2, <3>1, <3>2, SuffixStep
    <2>3. ASSUME NEW e \in Event, ~Refused(e), config.overlapPoints <= Len(Grown(e)),
                 Keep(e, Overlap(Grown(e))),
                 accepted' = [accepted EXCEPT ![e.driver] = Append(@, e)]
          PROVE  HeldIsSuffix'
      <3>1. Grown(e) \in Seq(Event) /\ e.driver \in Driver
        BY <2>3, GrownFacts
      <3>2. /\ Overlap(Grown(e)) \in Seq(Event)
            /\ Len(Overlap(Grown(e))) = config.overlapPoints
            /\ EndOf(Overlap(Grown(e)), Grown(e))
        BY <2>3, <3>1, OverlapFacts DEF EndOf
      <3>3. config.overlapPoints > 0 => Overlap(Grown(e)) # <<>>
        BY <3>2
      <3> QED
        BY <2>3, <3>1, <3>2, <3>3, SuffixStep
    <2> QED
      BY <2>1, <2>2, <2>3, StepFacts DEF vars
  <1> QED
    BY <1>1, <1>2, TypeCorrect, PTL DEF Spec

(* A new point is newer than the last one accepted, if the buffer still    *)
(* holds that one.                                                         *)
LEMMA NewerThanStream ==
  ASSUME StreamTypeOK, HeldIsSuffix, NEW e \in Event, ~Refused(e),
         pointsByDriver[e.driver] # <<>>
  PROVE  accepted[e.driver] # <<>> /\ Last(accepted[e.driver]).at < e.at
  <1> DEFINE held == pointsByDriver[e.driver]
             all == accepted[e.driver]
  <1>1. e.driver \in Driver /\ held \in Seq(Event) /\ all \in Seq(Event)
    BY GrownFacts DEF StreamTypeOK
  <1>2. EndOf(held, all)
    BY <1>1 DEF HeldIsSuffix
  <1>3. Len(held) \in 1..Len(all)
    BY <1>1, <1>2 DEF EndOf
  <1>4. held[Len(held)] = all[Len(all)]
    <2>1. Len(held) \in 1..Len(held) /\ Len(all) - Len(held) + Len(held) = Len(all)
      BY <1>1, <1>3
    <2> QED
      BY <1>2, <2>1 DEF EndOf
  <1>5. Last(held) = Last(all)
    BY <1>1, <1>3, <1>4 DEF Last
  <1> QED
    BY <1>1, <1>3, <1>5, GrownFacts

(* With an overlap, the points accepted from a driver rise in time over    *)
(* its whole life, across all of its traces.                               *)
THEOREM StreamAlwaysRises == Spec => []StreamRises
  <1>1. Init => StreamRises
    BY DEF Init, StreamRises, StrictlyRising
  <1>2. StreamTypeOK /\ HeldIsSuffix /\ StreamRises /\ [Next]_vars => StreamRises'
    <2> SUFFICES ASSUME StreamTypeOK, HeldIsSuffix, StreamRises, [Next]_vars  PROVE StreamRises'
      OBVIOUS
    <2>1. CASE UNCHANGED <<config, accepted>>
      BY <2>1 DEF StreamRises
    <2>2. ASSUME NEW e \in Event, ~Refused(e), e.driver \in Driver, config' = config,
                 accepted' = [accepted EXCEPT ![e.driver] = Append(@, e)]
          PROVE  StreamRises'
      <3> SUFFICES ASSUME config.overlapPoints > 0, NEW d \in Driver
                   PROVE  StrictlyRising(accepted'[d])
        BY <2>2 DEF StreamRises
      <3>1. CASE d = e.driver
        <4>1. accepted[d] \in Seq(Event) /\ StrictlyRising(accepted[d])
          BY DEF StreamTypeOK, StreamRises
        <4>2. accepted[d] # <<>> => Last(accepted[d]).at < e.at
          BY <2>2, <3>1, NewerThanStream DEF HeldIsSuffix
        <4>3. accepted'[d] = Append(accepted[d], e)
          BY <2>2, <3>1 DEF StreamTypeOK
        <4> QED
          BY <4>1, <4>2, <4>3, AppendRises
      <3>2. CASE d # e.driver
        BY <2>2, <3>2 DEF StreamTypeOK, StreamRises
      <3> QED
        BY <3>1, <3>2
    <2> QED
      BY <2>1, <2>2, StepFacts DEF vars, Keep
  <1> QED
    BY <1>1, <1>2, TypeCorrect, BufferIsSuffix, PTL DEF Spec

-----------------------------------------------------------------------------
(* Refinement: the buffer's outcomes are steps of the feed.                *)
(* The waiting points of the feed are the points that the buffer holds.    *)
LEMMA WaitingFacts ==
  ASSUME StreamTypeOK, NEW d \in Driver
  PROVE  /\ Feed!Waiting(d) = Len(pointsByDriver[d])
         /\ NextStart[d] = Len(accepted[d]) - Len(pointsByDriver[d]) + 1
         /\ NextStart[d] \in Int
  <1>1. Len(accepted[d]) \in Nat /\ Len(pointsByDriver[d]) \in Nat
    BY DEF StreamTypeOK
  <1>2. NextStart[d] = Len(accepted[d]) - Len(pointsByDriver[d]) + 1
    BY DEF NextStart
  <1>3. NextStart[d] \in Int
    BY <1>1, <1>2
  <1>4. Feed!Waiting(d) = Len(accepted[d]) - NextStart[d] + 1
    BY DEF Feed!Waiting
  <1> QED
    BY <1>1, <1>2, <1>3, <1>4

(* A point that Add does not refuse is newer for the feed too.             *)
LEMMA FeedNewer ==
  ASSUME StreamTypeOK, HeldIsSuffix, NEW e \in Event, ~Refused(e)
  PROVE  e.driver \in Driver /\ Feed!Newer(e)
  <1>1. e.driver \in Driver /\ pointsByDriver[e.driver] \in Seq(Event)
    BY GrownFacts
  <1>2. Feed!Waiting(e.driver) = Len(pointsByDriver[e.driver])
    BY <1>1, WaitingFacts
  <1>3. Len(pointsByDriver[e.driver]) > 0 => pointsByDriver[e.driver] # <<>>
    BY <1>1
  <1>4. Feed!Waiting(e.driver) > 0 => Last(accepted[e.driver]).at < e.at
    BY <1>2, <1>3, NewerThanStream
  <1>5. Feed!Newer(e) <=> (Feed!Waiting(e.driver) > 0 => Last(accepted[e.driver]).at < e.at)
    BY DEF Feed!Newer, Last, Feed!Last
  <1> QED
    BY <1>1, <1>4, <1>5

(* A trace is the interval of the stream from the start to the newest.     *)
LEMMA TraceIsInterval ==
  ASSUME StreamTypeOK, HeldIsSuffix, NEW e \in Event, ~Refused(e)
  PROVE  LET stream == Append(accepted[e.driver], e)
         IN  SubSeq(stream, NextStart[e.driver], Len(stream)) = Grown(e)
  <1> DEFINE held == pointsByDriver[e.driver]
             all == accepted[e.driver]
             stream == Append(all, e)
  <1>1. /\ e.driver \in Driver /\ held \in Seq(Event) /\ all \in Seq(Event)
        /\ Grown(e) \in Seq(Event) /\ stream \in Seq(Event)
        /\ Len(Grown(e)) = Len(held) + 1 /\ Len(stream) = Len(all) + 1
    BY GrownFacts, AppendFacts DEF StreamTypeOK
  <1>2. EndOf(Grown(e), stream)
    BY <1>1, EndOfAppend DEF HeldIsSuffix, Grown
  <1>3. Len(held) \in Nat /\ Len(all) \in Nat /\ Len(Grown(e)) \in 0..Len(stream)
    BY <1>1, <1>2 DEF EndOf
  <1>4. NextStart[e.driver] = Len(stream) - Len(Grown(e)) + 1
    <2>1. NextStart[e.driver] = Len(all) - Len(held) + 1
      BY <1>1, WaitingFacts
    <2>2. Len(all) - Len(held) + 1 = (Len(all) + 1) - (Len(held) + 1) + 1
      BY <1>3
    <2> QED
      BY <1>1, <2>1, <2>2
  <1> DEFINE cut == SubSeq(stream, Len(stream) - Len(Grown(e)) + 1, Len(stream))
  <1>5. /\ cut \in Seq(Event) /\ Len(cut) = Len(Grown(e))
        /\ \A i \in 1..Len(Grown(e)) : cut[i] = stream[Len(stream) - Len(Grown(e)) + i]
    BY <1>1, <1>3, SuffixFacts
  <1>6. \A i \in 1..Len(Grown(e)) : cut[i] = Grown(e)[i]
    BY <1>2, <1>5 DEF EndOf
  <1>7. cut = Grown(e)
    BY <1>1, <1>5, <1>6, SeqEqual
  <1> QED
    BY <1>4, <1>7

(* The buffer implements the feed of overlapping intervals.                *)
THEOREM BufferImplementsFeed == Spec => ImplementsFeed
  <1>1. Init => Feed!FeedInit
    <2> SUFFICES ASSUME Init  PROVE NextStart = [d \in Driver |-> 1]
      BY DEF Init, Feed!FeedInit
    <2>1. ASSUME NEW d \in Driver  PROVE accepted[d] = <<>> /\ pointsByDriver[d] = <<>>
      BY DEF Init, NewBuffer
    <2>2. ASSUME NEW d \in Driver  PROVE Len(accepted[d]) - Len(pointsByDriver[d]) + 1 = 1
      BY <2>1
    <2> QED
      BY <2>2 DEF NextStart
  <1>2. StreamTypeOK /\ BufferBounded /\ HeldIsSuffix /\ [Next]_vars
          => [Feed!FeedNext]_(Feed!feedVars)
    <2> SUFFICES ASSUME StreamTypeOK, BufferBounded, HeldIsSuffix, [Next]_vars
                 PROVE  Feed!FeedNext \/ UNCHANGED Feed!feedVars
      OBVIOUS
    <2>1. CASE UNCHANGED <<config, pointsByDriver, accepted, traces>>
      BY <2>1 DEF Feed!feedVars, NextStart
    <2>2. ASSUME NEW e \in Event, ~Refused(e), Keep(e, Grown(e)), UNCHANGED traces,
                 Len(Grown(e)) < config.maxPoints,
                 accepted' = [accepted EXCEPT ![e.driver] = Append(@, e)]
          PROVE  Feed!Take(e)
      <3>1. e.driver \in Driver /\ Feed!Newer(e) /\ config' = config
        BY <2>2, FeedNewer DEF Keep
      <3>2. Feed!Waiting(e.driver) + 1 < config.maxPoints
        BY <2>2, <3>1, WaitingFacts, GrownFacts
      <3>3. NextStart' = NextStart
        <4> SUFFICES ASSUME NEW d \in Driver
                     PROVE  Len(accepted'[d]) - Len(pointsByDriver'[d]) + 1
                              = Len(accepted[d]) - Len(pointsByDriver[d]) + 1
          BY DEF NextStart
        <4>1. CASE d = e.driver
          <5>1. pointsByDriver'[d] = Grown(e) /\ accepted'[d] = Append(accepted[d], e)
            BY <2>2, <3>1, <4>1, KeepFacts DEF StreamTypeOK
          <5>2. accepted[d] \in Seq(Event) /\ pointsByDriver[d] \in Seq(Event)
            BY DEF StreamTypeOK
          <5>3. Len(accepted'[d]) = Len(accepted[d]) + 1
            BY <5>1, <5>2, AppendFacts
          <5>4. Len(pointsByDriver'[d]) = Len(pointsByDriver[d]) + 1
            BY <2>2, <4>1, <5>1, GrownFacts
          <5> QED
            BY <5>2, <5>3, <5>4
        <4>2. CASE d # e.driver
          BY <2>2, <3>1, <4>2, KeepFacts DEF StreamTypeOK
        <4> QED
          BY <4>1, <4>2
      <3> QED
        BY <2>2, <3>1, <3>2, <3>3 DEF Feed!Take
    <2>3. ASSUME NEW e \in Event, ~Refused(e), ShouldEmit(Grown(e)),
                 config.overlapPoints <= Len(Grown(e)), Keep(e, Overlap(Grown(e))),
                 accepted' = [accepted EXCEPT ![e.driver] = Append(@, e)],
                 traces' = [traces EXCEPT ![e.driver] = Append(@, Grown(e))]
          PROVE  Feed!Cut(e)
      <3> DEFINE stream == Append(accepted[e.driver], e)
      <3>1. e.driver \in Driver /\ Feed!Newer(e) /\ config' = config
        BY <2>3, FeedNewer DEF Keep
      <3>2. Feed!Waiting(e.driver) + 1 \in config.minPoints..config.maxPoints
        <4>1. Feed!Waiting(e.driver) + 1 = Len(Grown(e)) /\ Len(Grown(e)) \in Nat
          <5>1. Feed!Waiting(e.driver) = Len(pointsByDriver[e.driver])
            BY <3>1, WaitingFacts
          <5>2. Len(Grown(e)) = Len(pointsByDriver[e.driver]) + 1 /\ Len(Grown(e)) \in Nat
            BY <2>3, GrownFacts
          <5> QED
            BY <5>1, <5>2
        <4>2. Len(Grown(e)) <= config.maxPoints
          BY <2>3, <3>1, GrownFacts, ConfigFacts DEF BufferBounded
        <4> QED
          BY <2>3, <4>1, <4>2, ConfigFacts DEF ShouldEmit
      <3>3. traces' = [traces EXCEPT ![e.driver] =
                         Append(@, SubSeq(stream, NextStart[e.driver], Len(stream)))]
        BY <2>3, TraceIsInterval
      <3>4. NextStart' = [NextStart EXCEPT ![e.driver] = Len(stream) - config.overlapPoints + 1]
        <4>1. pointsByDriver'[e.driver] = Overlap(Grown(e)) /\ accepted'[e.driver] = stream
          BY <2>3, <3>1, KeepFacts DEF StreamTypeOK
        <4>2. Len(Overlap(Grown(e))) = config.overlapPoints
          BY <2>3, GrownFacts, OverlapFacts
        <4>3. \A d \in Driver \ {e.driver} :
                pointsByDriver'[d] = pointsByDriver[d] /\ accepted'[d] = accepted[d]
          BY <2>3, <3>1, KeepFacts DEF StreamTypeOK
        <4> QED
          BY <3>1, <4>1, <4>2, <4>3 DEF NextStart
      <3> QED
        BY <2>3, <3>1, <3>2, <3>3, <3>4 DEF Feed!Cut
    <2>4. ASSUME NEW e \in Event, ~Refused(e)
          PROVE  /\ ~ShouldEmit(Grown(e)) => Len(Grown(e)) < config.maxPoints
                 /\ config.overlapPoints > Len(Grown(e)) => Len(Grown(e)) < config.maxPoints
      BY <2>4, GrownFacts, ConfigFacts DEF ShouldEmit
    <2> QED
      BY <2>1, <2>2, <2>3, <2>4, StepFacts DEF vars, Feed!FeedNext
  <1> QED
    BY <1>1, <1>2, TypeCorrect, BufferIsBounded, BufferIsSuffix, PTL
    DEF Spec, ImplementsFeed, Feed!FeedSpec

=============================================================================
