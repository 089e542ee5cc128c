------------------------ MODULE TrafficStreamProofs ------------------------
(***************************************************************************)
(* What TLAPS proves about the traffic processor, for every set of         *)
(* drivers, observations and processing times, and either kind of          *)
(* reference store; and about the window of WindowGrowth, for every sample *)
(* that it takes.                                                          *)
(***************************************************************************)
EXTENDS TrafficStream, WindowGrowth, TrafficProcessorProofs

(* The windows that a sample can be found in.                              *)
AllWindows == OpenWindows \cup pendingWindows \cup ReportedWindows

(* Aggregator.Add, for the windows of the type that TrafficTypeOK gives.   *)
LEMMA TypedAggregate ==
  ASSUME TrafficTypeOK, NEW o \in Observation, Aggregate(o)
  PROVE  \A w \in OpenWindows' :
           \/ w \in OpenWindows
           \/ /\ w = [key |-> WindowKeyOf(o), samples |-> Append(Bucket(WindowKeyOf(o)), SampleOf(o))]
              /\ Bucket(WindowKeyOf(o)) \in Seq(Sample)
              /\ \/ Bucket(WindowKeyOf(o)) = <<>>
                 \/ [key |-> WindowKeyOf(o), samples |-> Bucket(WindowKeyOf(o))] \in OpenWindows
  <1>1. \A w \in OpenWindows : w.samples \in Seq(Sample)
    BY DEF TrafficTypeOK, Window
  <1> QED
    BY <1>1, AggregateFacts

(* What a flush may do to the three kinds of windows.                      *)
LEMMA FlushFacts ==
  ASSUME NEW now, NEW failed, Flush(now, failed)
  PROVE  /\ OpenWindows' \subseteq OpenWindows
         /\ failed \subseteq Due(now)
         /\ failed \in FailureSets(now)
         /\ pendingWindows' = failed
         /\ \A r \in reported' : r \in reported \/ (r.window \in Due(now) \ failed /\ r.state.updatedAt = now)
         /\ UNCHANGED <<driverStates, speeds, references, taken>>
  <1>1. /\ failed \in FailureSets(now) /\ Close(now) /\ pendingWindows' = failed
        /\ UNCHANGED <<driverStates, speeds, references, taken>>
    BY DEF Flush, FlushDone
  <1>2. failed \subseteq Due(now)
    BY <1>1 DEF FailureSets, DueRefused
  <1>3. \A window, speed : Calculate(window, speed, now).updatedAt = now
    BY DEF Calculate, UnknownState
  <1>4. \A r \in reported' : r \in reported \/ (r.window \in Due(now) \ failed /\ r.state.updatedAt = now)
    BY <1>3 DEF Flush
  <1> QED
    BY <1>1, <1>2, <1>4, CloseFacts

-----------------------------------------------------------------------------
(* A step is a refusal, a note, an aggregation or a flush.                 *)
LEMMA StepFacts ==
  ASSUME Next
  PROVE  \/ \E o \in Observation :
              /\ \/ UNCHANGED driverStates
                 \/ (Remember(o) /\ ~StateRefuses(o) /\ ~Repeated(o))
              /\ UNCHANGED speeds \/ (RecordFirst(o) /\ ~RecordError(o))
              /\ UNCHANGED <<windows, references, pendingWindows, taken, reported>>
         \/ \E o \in Observation :
              /\ Remember(o) /\ ~StateRefuses(o) /\ ~Repeated(o) /\ CanAggregate(o)
              /\ RecordFirst(o) /\ ~RecordError(o)
              /\ Aggregate(o)
              /\ taken' = Append(taken, SampleOf(o))
              /\ UNCHANGED <<references, pendingWindows, reported>>
         \/ \E now \in Time : \E failed : Flush(now, failed)
  <1>1. ASSUME NEW o \in Observation, Reject(o)
        PROVE  /\ UNCHANGED driverStates
               /\ UNCHANGED speeds \/ (RecordFirst(o) /\ ~RecordError(o))
               /\ UNCHANGED <<windows, references, pendingWindows, taken, reported>>
    <2>1. UNCHANGED <<taken, reported>> /\ (AddRecordError(o) \/ AddStateError(o))
      BY <1>1 DEF Reject
    <2>2. CASE AddRecordError(o)
      BY <2>1, <2>2 DEF AddRecordError, processorVars
    <2>3. CASE AddStateError(o)
      BY <2>1, <2>3 DEF AddStateError
    <2> QED
      BY <2>1, <2>2, <2>3
  <1>2. ASSUME NEW o \in Observation, Note(o)
        PROVE  /\ UNCHANGED driverStates \/ (Remember(o) /\ ~StateRefuses(o) /\ ~Repeated(o))
               /\ RecordFirst(o) /\ ~RecordError(o)
               /\ UNCHANGED <<windows, references, pendingWindows, taken, reported>>
    <2>1. UNCHANGED <<taken, reported>> /\ (AddRepeated(o) \/ AddNoted(o))
      BY <1>2 DEF Note
    <2>2. CASE AddRepeated(o)
      BY <2>1, <2>2 DEF AddRepeated, AddFails
    <2>3. CASE AddNoted(o)
      BY <2>1, <2>3 DEF AddNoted, AddFails
    <2> QED
      BY <2>1, <2>2, <2>3
  <1>3. ASSUME NEW o \in Observation, Take(o)
        PROVE  /\ Remember(o) /\ ~StateRefuses(o) /\ ~Repeated(o) /\ CanAggregate(o)
               /\ RecordFirst(o) /\ ~RecordError(o)
               /\ Aggregate(o)
               /\ taken' = Append(taken, SampleOf(o))
               /\ UNCHANGED <<references, pendingWindows, reported>>
    BY <1>3 DEF Take, AddAggregated, AddFails
  <1> QED
    BY <1>1, <1>2, <1>3 DEF Next

(* Add and Flush, whatever they are called with, keep every variable in    *)
(* its type and leave no empty window behind.                              *)
THEOREM TypeCorrect == Spec => []TrafficTypeOK
  <1>1. Init => TrafficTypeOK
    <2> SUFFICES ASSUME Init  PROVE TrafficTypeOK
      OBVIOUS
    <2>1. references \in {"max_speed", "external"} /\ DOMAIN driverStates = {}
      BY DEF Init, NewProcessor, NewDriverStateBuffer
    <2>2. OpenWindows = {} /\ pendingWindows = {} /\ ReportedWindows = {}
      BY DEF Init, NewProcessor, NewAggregator, OpenWindows, ReportedWindows
    <2>3. taken \in Seq(Sample)
      BY EmptySeq DEF Init
    <2> QED
      BY <2>1, <2>2, <2>3 DEF TrafficTypeOK
  <1>2. TrafficTypeOK /\ [Next]_vars => TrafficTypeOK'
    <2> SUFFICES ASSUME TrafficTypeOK, [Next]_vars  PROVE TrafficTypeOK'
      OBVIOUS
    <2> DEFINE Whole(w) == w \in Window /\ w.samples # <<>>
    <2>1. \A w \in AllWindows : Whole(w)
      BY DEF TrafficTypeOK, AllWindows
    <2>2. ASSUME references' = references, taken' \in Seq(Sample),
                 DOMAIN driverStates' \subseteq Driver,
                 \A d \in DOMAIN driverStates' : driverStates'[d] \in Int,
                 \A w \in AllWindows' : Whole(w)
          PROVE  TrafficTypeOK'
      BY <2>2 DEF TrafficTypeOK, AllWindows, Window, WindowKey, WindowKeyOf, Truncate, Sample, SampleOf
    <2>3. ASSUME NEW o \in Observation, Remember(o)
          PROVE  /\ DOMAIN driverStates' \subseteq Driver
                 /\ \A d \in DOMAIN driverStates' : driverStates'[d] \in Int
      <3>1. o.driver \in Driver /\ o.at \in Int
        BY ObservationAssumption
      <3>2. /\ DOMAIN driverStates' = DOMAIN driverStates \cup {o.driver}
            /\ driverStates'[o.driver] = o.at
            /\ \A d \in DOMAIN driverStates \ {o.driver} : driverStates'[d] = driverStates[d]
        BY <2>3, RememberFacts
      <3> QED
        BY <3>1, <3>2 DEF TrafficTypeOK
    <2>4. CASE UNCHANGED vars
      BY <2>1, <2>2, <2>4 DEF vars, processorVars, AllWindows, OpenWindows, ReportedWindows, TrafficTypeOK
    <2>5. ASSUME NEW o \in Observation, UNCHANGED driverStates \/ Remember(o),
                 UNCHANGED <<windows, references, pendingWindows, taken, reported>>
          PROVE  TrafficTypeOK'
      <3>1. AllWindows' = AllWindows /\ taken' \in Seq(Sample) /\ references' = references
        BY <2>5 DEF AllWindows, OpenWindows, ReportedWindows, TrafficTypeOK
      <3>2. /\ DOMAIN driverStates' \subseteq Driver
            /\ \A d \in DOMAIN driverStates' : driverStates'[d] \in Int
        BY <2>3, <2>5 DEF TrafficTypeOK
      <3> QED
        BY <2>1, <2>2, <3>1, <3>2
    <2>6. ASSUME NEW o \in Observation, Remember(o), Aggregate(o),
                 taken' = Append(taken, SampleOf(o)),
                 UNCHANGED <<references, pendingWindows, reported>>
          PROVE  TrafficTypeOK'
      <3>1. SampleOf(o) \in Sample /\ WindowKeyOf(o) \in WindowKey
        BY DEF Sample, WindowKey
      <3>2. taken' \in Seq(Sample)
        BY <2>6, <3>1 DEF TrafficTypeOK
      <3>3. ASSUME NEW w \in OpenWindows'  PROVE Whole(w)
        <4>1. CASE w \in OpenWindows
          BY <2>1, <4>1 DEF AllWindows
        <4>2. CASE /\ w = [key |-> WindowKeyOf(o), samples |-> Append(Bucket(WindowKeyOf(o)), SampleOf(o))]
                   /\ Bucket(WindowKeyOf(o)) \in Seq(Sample)
          <5>1. /\ Append(Bucket(WindowKeyOf(o)), SampleOf(o)) \in Seq(Sample)
                /\ Append(Bucket(WindowKeyOf(o)), SampleOf(o)) # <<>>
            BY <3>1, <4>2
          <5> QED
            BY <3>1, <4>2, <5>1 DEF Window
        <4> QED
          BY <2>6, <3>3, <4>1, <4>2, TypedAggregate
      <3>4. \A w \in AllWindows' : Whole(w)
        BY <2>1, <2>6, <3>3 DEF AllWindows, ReportedWindows
      <3> QED
        BY <2>2, <2>3, <2>6, <3>2, <3>4
    <2>7. ASSUME NEW now \in Time, NEW failed, Flush(now, failed)
          PROVE  TrafficTypeOK'
      <3>1. Due(now) \subseteq AllWindows
        BY CloseFacts DEF Due, AllWindows
      <3>2. AllWindows' \subseteq AllWindows
        BY <2>7, <3>1, FlushFacts DEF AllWindows, ReportedWindows
      <3>3. UNCHANGED <<references, taken, driverStates>>
        BY <2>7, FlushFacts DEF Flush, FlushDone
      <3> QED
        BY <2>1, <2>2, <3>2, <3>3 DEF TrafficTypeOK
    <2> QED
      BY <2>4, <2>5, <2>6, <2>7, StepFacts
  <1> QED
    BY <1>1, <1>2, PTL DEF Spec

-----------------------------------------------------------------------------
(* Observations of a driver are counted in strictly rising time order: the *)
(* driver's state bounds every sample counted, and Add lets in only what   *)
(* is newer than that state.                                               *)
THEOREM DriversInOrder == Spec => []DriverOrder
  <1>1. Init => DriverOrder
    BY DEF Init, DriverOrder
  <1>2. TrafficTypeOK /\ DriverOrder /\ [Next]_vars => DriverOrder'
    <2> SUFFICES ASSUME TrafficTypeOK, DriverOrder, [Next]_vars  PROVE DriverOrder'
      OBVIOUS
    <2> DEFINE Behind(i) == /\ taken[i].driver \in DOMAIN driverStates
                            /\ taken[i].at <= driverStates[taken[i].driver]
    <2>1. CASE UNCHANGED <<driverStates, taken>>
      BY <2>1 DEF DriverOrder
    <2>2. ASSUME NEW o \in Observation, Remember(o), ~StateRefuses(o), ~Repeated(o),
                 NEW i \in DOMAIN taken
          PROVE  /\ taken[i].driver \in DOMAIN driverStates'
                 /\ taken[i].at <= driverStates'[taken[i].driver]
                 /\ taken[i].driver = o.driver => taken[i].at < o.at
      <3>1. taken[i].driver \in DOMAIN driverStates /\ taken[i].at <= driverStates[taken[i].driver]
        BY DEF DriverOrder
      <3>2. taken[i].at \in Int /\ driverStates[taken[i].driver] \in Int /\ o.at \in Int
        <4>1. taken[i] \in Sample
          BY DEF TrafficTypeOK
        <4> QED
          BY <3>1, <4>1, ObservationAssumption DEF Sample, SampleOf, TrafficTypeOK
      <3>3. taken[i].driver = o.driver => driverStates[o.driver] < o.at
        BY <2>2, <3>1, <3>2 DEF StateRefuses, Older, Repeated, Known
      <3>4. CASE taken[i].driver = o.driver
        BY <2>2, <3>1, <3>2, <3>3, <3>4, RememberFacts
      <3>5. CASE taken[i].driver # o.driver
        BY <2>2, <3>1, <3>5, RememberFacts
      <3> QED
        BY <3>4, <3>5
    <2>3. ASSUME NEW o \in Observation, Remember(o), ~StateRefuses(o), ~Repeated(o), UNCHANGED taken
          PROVE  DriverOrder'
      BY <2>2, <2>3 DEF DriverOrder
    <2>4. ASSUME NEW o \in Observation, Remember(o), ~StateRefuses(o), ~Repeated(o),
                 taken' = Append(taken, SampleOf(o))
          PROVE  DriverOrder'
      <3> DEFINE n == Len(taken)
      <3>1. taken \in Seq(Sample) /\ SampleOf(o) \in Sample /\ n \in Nat
        BY DEF TrafficTypeOK, Sample
      <3>2. /\ DOMAIN taken = 1..n /\ DOMAIN taken' = 1..(n + 1)
            /\ \A i \in 1..n : taken'[i] = taken[i]
            /\ taken'[n + 1] = SampleOf(o)
        BY <2>4, <3>1
      <3>3. SampleOf(o).driver = o.driver /\ SampleOf(o).at = o.at /\ o.at \in Int
        BY ObservationAssumption DEF SampleOf
      <3>4. ASSUME NEW i \in 1..(n + 1), NEW j \in 1..(n + 1), i < j, taken'[i].driver = taken'[j].driver
            PROVE  taken'[i].at < taken'[j].at
        <4>1. i \in 1..n
          BY <3>1, <3>4
        <4>2. CASE j \in 1..n
          BY <3>2, <3>4, <4>1, <4>2 DEF DriverOrder
        <4>3. CASE j = n + 1
          BY <2>2, <2>4, <3>2, <3>3, <3>4, <4>1, <4>3
        <4> QED
          BY <3>1, <4>2, <4>3
      <3>5. ASSUME NEW i \in 1..(n + 1)
            PROVE  taken'[i].driver \in DOMAIN driverStates' /\ taken'[i].at <= driverStates'[taken'[i].driver]
        <4>1. CASE i \in 1..n
          BY <2>2, <2>4, <3>2, <4>1
        <4>2. CASE i = n + 1
          <5>1. taken'[i].driver = o.driver /\ taken'[i].at = o.at
            BY <3>2, <3>3, <4>2
          <5>2. o.driver \in DOMAIN driverStates' /\ driverStates'[o.driver] = o.at
            BY <2>4, RememberFacts
          <5> QED
            BY <3>3, <5>1, <5>2
        <4> QED
          BY <3>1, <4>1, <4>2
      <3> QED
        BY <3>2, <3>4, <3>5 DEF DriverOrder
    <2>5. ASSUME NEW now \in Time, NEW failed, Flush(now, failed)  PROVE DriverOrder'
      BY <2>1, <2>5, FlushFacts
    <2> QED
      BY <2>1, <2>3, <2>4, <2>5, StepFacts DEF vars, processorVars
  <1> QED
    BY <1>1, <1>2, TypeCorrect, PTL DEF Spec

-----------------------------------------------------------------------------
(* A time lies in the window that Truncate puts it in.                     *)
LEMMA TruncateFacts ==
  ASSUME NEW t \in Int
  PROVE  Truncate(t) \in Int /\ Truncate(t) <= t /\ t < Truncate(t) + WindowDuration
  <1>1. WindowDuration \in Int /\ 0 < WindowDuration
    BY WindowAssumption
  <1>2. /\ t \div WindowDuration \in Int
        /\ t = WindowDuration * (t \div WindowDuration) + (t % WindowDuration)
        /\ t % WindowDuration \in 0..(WindowDuration - 1)
    BY <1>1
  <1>3. (t \div WindowDuration) * WindowDuration = WindowDuration * (t \div WindowDuration)
    BY <1>1, <1>2
  <1>4. WindowDuration * (t \div WindowDuration) \in Int
    BY <1>1, <1>2
  <1> QED
    BY <1>1, <1>2, <1>3, <1>4 DEF Truncate

(* A window holds samples of its own time span only: a late sample reopens *)
(* its own window.                                                         *)
THEOREM SamplesStayInTheirWindow == Spec => []SamplesInTheirWindow
  <1> DEFINE Inside(w) == \A i \in DOMAIN w.samples :
                            w.key.start <= w.samples[i].at /\ w.samples[i].at < WindowEnd(w.key)
  <1>0. SamplesInTheirWindow <=> \A w \in AllWindows : Inside(w)
    BY DEF SamplesInTheirWindow, AllWindows
  <1>1. Init => SamplesInTheirWindow
    BY DEF Init, NewProcessor, NewAggregator, SamplesInTheirWindow, OpenWindows, ReportedWindows
  <1>2. TrafficTypeOK /\ SamplesInTheirWindow /\ [Next]_vars => SamplesInTheirWindow'
    <2> SUFFICES ASSUME TrafficTypeOK, SamplesInTheirWindow, [Next]_vars,
                        NEW w \in AllWindows', w \notin AllWindows
                 PROVE  Inside(w)
      BY <1>0 DEF SamplesInTheirWindow, AllWindows, WindowEnd
    <2>1. CASE UNCHANGED <<windows, pendingWindows, reported>>
      BY <2>1 DEF AllWindows, OpenWindows, ReportedWindows
    <2>2. ASSUME NEW o \in Observation, Aggregate(o), UNCHANGED <<pendingWindows, reported>>
          PROVE  Inside(w)
      <3> DEFINE old == Bucket(WindowKeyOf(o))
      <3>1. w \in OpenWindows' /\ w \notin OpenWindows
        BY <2>2 DEF AllWindows, ReportedWindows
      <3>2. /\ w = [key |-> WindowKeyOf(o), samples |-> Append(old, SampleOf(o))]
            /\ old \in Seq(Sample)
            /\ old = <<>> \/ [key |-> WindowKeyOf(o), samples |-> old] \in OpenWindows
        BY <2>2, <3>1, TypedAggregate
      <3>3. \A i \in 1..Len(old) : WindowKeyOf(o).start <= old[i].at /\ old[i].at < WindowEnd(WindowKeyOf(o))
        <4>1. CASE old = <<>>
          BY <4>1
        <4>2. CASE [key |-> WindowKeyOf(o), samples |-> old] \in OpenWindows
          BY <3>2, <4>2 DEF SamplesInTheirWindow
        <4> QED
          BY <3>2, <4>1, <4>2
      <3>4. WindowKeyOf(o).start <= SampleOf(o).at /\ SampleOf(o).at < WindowEnd(WindowKeyOf(o))
        BY ObservationAssumption, TruncateFacts DEF WindowKeyOf, SampleOf, WindowEnd
      <3>5. SampleOf(o) \in Sample
        BY DEF Sample
      <3>6. /\ DOMAIN Append(old, SampleOf(o)) = 1..(Len(old) + 1)
            /\ \A i \in 1..Len(old) : Append(old, SampleOf(o))[i] = old[i]
            /\ Append(old, SampleOf(o))[Len(old) + 1] = SampleOf(o)
        BY <3>2, <3>5
      <3> SUFFICES ASSUME NEW i \in 1..(Len(old) + 1)
                   PROVE  /\ WindowKeyOf(o).start <= Append(old, SampleOf(o))[i].at
                          /\ Append(old, SampleOf(o))[i].at < WindowEnd(WindowKeyOf(o))
        BY <3>2, <3>6
      <3>7. CASE i \in 1..Len(old)
        BY <3>3, <3>6, <3>7
      <3>8. CASE i = Len(old) + 1
        BY <3>4, <3>6, <3>8
      <3> QED
        BY <3>2, <3>7, <3>8
    <2>3. ASSUME NEW now \in Time, NEW failed, Flush(now, failed)  PROVE Inside(w)
      <3>1. Due(now) \subseteq AllWindows
        BY CloseFacts DEF Due, AllWindows
      <3>2. AllWindows' \subseteq AllWindows
        BY <2>3, <3>1, FlushFacts DEF AllWindows, ReportedWindows
      <3> QED
        BY <3>2
    <2> QED
      BY <2>1, <2>2, <2>3, StepFacts DEF vars, processorVars
  <1> QED
    BY <1>1, <1>2, TypeCorrect, PTL DEF Spec

-----------------------------------------------------------------------------
(* With the store that main wires in, a window can only be left pending by *)
(* Calculate's refusal of the zero window start: Record lets no reference  *)
(* in that Calculate would refuse.  That is what has to be known of the    *)
(* store for OnlyZeroWindowPends to be inductive.                          *)
SpeedsPositive ==
  references = "max_speed" => \A k \in DOMAIN speeds : speeds[k] \in Int /\ speeds[k] > 0

(* A speed that the store accepts is positive.                             *)
LEMMA RecordKeepsPositive ==
  ASSUME SpeedsPositive, NEW o \in Observation, RecordFirst(o), ~RecordError(o), references' = references
  PROVE  SpeedsPositive'
  <1> SUFFICES ASSUME references = "max_speed"
               PROVE  \A k \in DOMAIN speeds' : speeds'[k] \in Int /\ speeds'[k] > 0
    BY DEF SpeedsPositive
  <1>1. \A k \in DOMAIN speeds : speeds[k] \in Int /\ speeds[k] > 0
    BY DEF SpeedsPositive
  <1>2. Record(o) /\ ~RecordRefuses(o)
    BY DEF RecordFirst, RecordError
  <1>3. CASE Recordable(o)
    <2>1. o.maxSpeed \in Int /\ o.maxSpeed > 0
      <3>1. o.maxSpeed \in Int /\ ~(o.maxSpeed <= 0)
        BY <1>2, <1>3, ObservationAssumption DEF Recordable, RecordRefuses
      <3> QED
        BY <3>1
    <2>2. /\ DOMAIN speeds' = DOMAIN speeds \cup {ReferenceKey(o.key, o.vehicle)}
          /\ \A k \in DOMAIN speeds' :
               speeds'[k] = IF k = ReferenceKey(o.key, o.vehicle) THEN o.maxSpeed ELSE speeds[k]
      BY <1>2, <1>3 DEF Record
    <2> QED
      BY <1>1, <2>1, <2>2
  <1>4. CASE ~Recordable(o)
    BY <1>1, <1>2, <1>4 DEF Record
  <1> QED
    BY <1>3, <1>4

(* With positive speeds only what Calculate itself refuses can fail in a   *)
(* flush.                                                                  *)
LEMMA MaxSpeedFailures ==
  ASSUME SpeedsPositive, references = "max_speed", NEW now, NEW failed \in FailureSets(now)
  PROVE  failed = DueRefused(now)
  <1>1. \A w : ~BadReference(w)
    BY DEF SpeedsPositive, BadReference, Reference
  <1> QED
    BY <1>1 DEF FailureSets

(* Nothing but the window of the zero time is ever left pending, and a     *)
(* state is never dated before the end of its window.                      *)
THEOREM ZeroWindowAlonePends == Spec => []OnlyZeroWindowPends
  <1>1. Init => SpeedsPositive /\ OnlyZeroWindowPends
    BY DEF Init, NewProcessor, NewReferenceSpeeds, SpeedsPositive, OnlyZeroWindowPends
  <1>2. SpeedsPositive /\ OnlyZeroWindowPends /\ [Next]_vars => (SpeedsPositive /\ OnlyZeroWindowPends)'
    <2> SUFFICES ASSUME SpeedsPositive, OnlyZeroWindowPends, [Next]_vars
                 PROVE  SpeedsPositive' /\ OnlyZeroWindowPends'
      OBVIOUS
    <2>1. CASE UNCHANGED <<references, pendingWindows, reported>>
      <3>1. OnlyZeroWindowPends'
        BY <2>1 DEF OnlyZeroWindowPends, WindowEnd
      <3>2. ASSUME UNCHANGED speeds  PROVE SpeedsPositive'
        BY <2>1, <3>2 DEF SpeedsPositive
      <3>3. ASSUME NEW o \in Observation, RecordFirst(o), ~RecordError(o)  PROVE SpeedsPositive'
        BY <2>1, <3>3, RecordKeepsPositive
      <3>4. ASSUME NEW now \in Time, NEW failed, Flush(now, failed)  PROVE UNCHANGED speeds
        BY <3>4, FlushFacts
      <3>5. UNCHANGED vars => UNCHANGED speeds
        BY DEF vars, processorVars
      <3> QED
        BY <3>1, <3>2, <3>3, <3>4, <3>5, StepFacts
    <2>2. ASSUME NEW now \in Time, NEW failed, Flush(now, failed)
          PROVE  SpeedsPositive' /\ OnlyZeroWindowPends'
      <3>1. UNCHANGED <<references, speeds>>
        BY <2>2 DEF Flush, FlushDone
      <3>2. SpeedsPositive'
        BY <3>1 DEF SpeedsPositive
      <3> SUFFICES ASSUME references = "max_speed"
                   PROVE  /\ \A w \in pendingWindows' : w.key.start = ZeroTime
                          /\ \A r \in reported' : WindowEnd(r.window.key) <= r.state.updatedAt
        BY <3>1, <3>2 DEF OnlyZeroWindowPends, WindowEnd
      <3>3. failed = DueRefused(now) /\ pendingWindows' = failed
        BY <2>2, FlushFacts, MaxSpeedFailures
      <3>4. \A w \in pendingWindows' : w.key.start = ZeroTime
        BY <3>3 DEF DueRefused, CalculateRefuses
      <3>5. \A w \in Due(now) \ failed : w \in Closing(now)
        BY <3>3 DEF Due, DueRefused, CalculateRefuses, OnlyZeroWindowPends
      <3>6. \A w \in Due(now) \ failed : WindowEnd(w.key) <= now
        BY <3>5, CloseFacts
      <3>7. \A r \in reported' :
              r \in reported \/ (r.window \in Due(now) \ failed /\ r.state.updatedAt = now)
        BY <2>2, FlushFacts
      <3> QED
        BY <3>4, <3>6, <3>7 DEF OnlyZeroWindowPends
    <2>3. CASE UNCHANGED vars
      BY <2>1, <2>3 DEF vars, processorVars
    <2> QED
      BY <2>1, <2>2, <2>3, StepFacts
  <1> QED
    BY <1>1, <1>2, PTL DEF Spec

-----------------------------------------------------------------------------
(* A flush reports a state of each window that is due and does not fail.   *)
LEMMA ReportFacts ==
  ASSUME NEW now, NEW failed, Flush(now, failed)
  PROVE  LET done == Due(now) \ failed
         IN  /\ FlushDone(now, failed) /\ UNCHANGED <<driverStates, taken>>
             /\ ReportedWindows' = ReportedWindows \cup done
             /\ \A r \in reported' : r \in reported \/ r.window \in done
             /\ \A r1, r2 \in reported' :
                  r1.window = r2.window /\ r1.window \notin ReportedWindows => r1 = r2
  <1> DEFINE done == Due(now) \ failed
  <1>1. FlushDone(now, failed) /\ UNCHANGED <<driverStates, taken>>
    BY DEF Flush, FlushDone
  <1>2. PICK answer : reported' = reported \cup
                        {[window |-> w, state |-> Calculate(w, answer[w], now)] : w \in done}
    BY DEF Flush
  <1> DEFINE New(w) == [window |-> w, state |-> Calculate(w, answer[w], now)]
  <1>3. \A w : New(w).window = w
    OBVIOUS
  <1> HIDE DEF New, done
  <1>4. reported' = reported \cup {New(w) : w \in done}
    BY <1>2 DEF New, done
  <1>5. ReportedWindows' = ReportedWindows \cup done
    BY <1>3, <1>4 DEF ReportedWindows
  <1>6. \A r \in reported' : r \in reported \/ (r.window \in done /\ r = New(r.window))
    BY <1>3, <1>4
  <1>7. \A r \in reported : r.window \in ReportedWindows
    BY DEF ReportedWindows
  <1> QED
    BY <1>1, <1>5, <1>6, <1>7 DEF done

(* Each sample counted is at one place of one window, and no window holds  *)
(* anything else.                                                          *)
SamplesPlaced ==
  /\ OnePlaceEach(AllWindows)
  /\ Apart(ReportedWindows)
  /\ \A r1, r2 \in reported : r1.window = r2.window => r1 = r2
  /\ \A i \in DOMAIN taken : HasSample(AllWindows, taken[i])
  /\ \A w \in AllWindows : \A i \in DOMAIN w.samples : \E n \in DOMAIN taken : taken[n] = w.samples[i]

(* An observation that Add lets in is of a point that no window has yet.   *)
LEMMA TakenIsFresh ==
  ASSUME TrafficTypeOK, DriverOrder, SamplesPlaced, NEW o \in Observation, ~StateRefuses(o), ~Repeated(o)
  PROVE  \A w \in AllWindows : \A i \in DOMAIN w.samples : ~SamePoint(w.samples[i], SampleOf(o))
  <1> SUFFICES ASSUME NEW w \in AllWindows, NEW i \in DOMAIN w.samples, SamePoint(w.samples[i], SampleOf(o))
               PROVE  FALSE
    OBVIOUS
  <1>1. PICK n \in DOMAIN taken : taken[n] = w.samples[i]
    BY DEF SamplesPlaced
  <1>2. taken[n].driver = o.driver /\ taken[n].at = o.at
    BY <1>1 DEF SamePoint, SampleOf
  <1>3. o.driver \in DOMAIN driverStates /\ o.at <= driverStates[o.driver]
    BY <1>2 DEF DriverOrder
  <1>4. o.at \in Int /\ driverStates[o.driver] \in Int
    BY <1>3, ObservationAssumption DEF TrafficTypeOK
  <1> QED
    BY <1>3, <1>4 DEF StateRefuses, Older, Repeated, Known

(* Adding places the sample; flushing moves whole windows.                 *)
LEMMA PlacedStep ==
  ASSUME TrafficTypeOK, DriverOrder, SamplesPlaced, [Next]_vars
  PROVE  SamplesPlaced'
  <1>1. CASE UNCHANGED <<windows, pendingWindows, taken, reported>>
    <2>1. /\ AllWindows' = AllWindows /\ OpenWindows' = OpenWindows
          /\ ReportedWindows' = ReportedWindows
      BY <1>1 DEF AllWindows, OpenWindows, ReportedWindows
    <2> QED
      BY <1>1, <2>1 DEF SamplesPlaced, OnePlaceEach, Apart, HasSample
  <1>2. ASSUME NEW o \in Observation, ~StateRefuses(o), ~Repeated(o), Aggregate(o),
               taken' = Append(taken, SampleOf(o)), UNCHANGED <<pendingWindows, reported>>
        PROVE  SamplesPlaced'
    <2> DEFINE all == OpenWindows \cup pendingWindows \cup ReportedWindows
               all2 == OpenWindows' \cup pendingWindows' \cup ReportedWindows
    <2>1. /\ SampleOf(o) \in Sample /\ \A w \in all : w.samples \in Seq(Sample)
          /\ \A w \in all : \A i \in DOMAIN w.samples : ~SamePoint(w.samples[i], SampleOf(o))
      BY <1>2, TakenIsFresh DEF TrafficTypeOK, Window, Sample, AllWindows
    <2>2. /\ OnePlaceEach(all2)
          /\ pendingWindows' \cap (OpenWindows' \cup ReportedWindows) = {} /\ OpenWindows' \cap ReportedWindows = {}
          /\ \A s : HasSample(all2, s) <=> HasSample(all, s) \/ s = SampleOf(o)
      BY <1>2, <2>1, AggregateKeepsPlaces DEF SamplesPlaced, AllWindows
    <2>3. ReportedWindows' = ReportedWindows /\ AllWindows' = all2 /\ AllWindows = all
      BY <1>2 DEF ReportedWindows, AllWindows
    <2>4. /\ DOMAIN taken = 1..Len(taken) /\ DOMAIN taken' = 1..(Len(taken) + 1) /\ Len(taken) \in Nat
          /\ \A i \in 1..Len(taken) : taken'[i] = taken[i]
          /\ taken'[Len(taken) + 1] = SampleOf(o)
      BY <1>2, <2>1, AppendProperties DEF TrafficTypeOK
    <2> HIDE DEF all, all2
    <2>5. \A i \in DOMAIN taken' : HasSample(AllWindows', taken'[i])
      <3> SUFFICES ASSUME NEW i \in DOMAIN taken'  PROVE HasSample(all2, taken'[i])
        BY <2>3
      <3>1. i \in 1..Len(taken) \/ i = Len(taken) + 1
        BY <2>4
      <3>2. CASE i \in 1..Len(taken)
        BY <2>2, <2>3, <2>4, <3>2 DEF SamplesPlaced
      <3>3. CASE i = Len(taken) + 1
        BY <2>2, <2>4, <3>3
      <3> QED
        BY <3>1, <3>2, <3>3
    <2>6. ASSUME NEW w \in AllWindows', NEW i \in DOMAIN w.samples
          PROVE  \E n \in DOMAIN taken' : taken'[n] = w.samples[i]
      <3>1. HasSample(all2, w.samples[i])
        BY <2>3, <2>6 DEF HasSample
      <3>2. CASE w.samples[i] = SampleOf(o)
        <4>1. Len(taken) + 1 \in DOMAIN taken'
          BY <2>4
        <4> QED
          BY <2>4, <3>2, <4>1
      <3>3. CASE HasSample(all, w.samples[i])
        <4>1. PICK n \in DOMAIN taken : taken[n] = w.samples[i]
          BY <2>3, <3>3 DEF HasSample, SamplesPlaced
        <4>2. n \in DOMAIN taken'
          BY <2>4
        <4> QED
          BY <2>4, <4>1, <4>2
      <3> QED
        BY <2>2, <3>1, <3>2, <3>3
    <2> QED
      BY <1>2, <2>2, <2>3, <2>5, <2>6 DEF SamplesPlaced, OnePlaceEach, Apart
  <1>3. ASSUME NEW now \in Time, NEW failed, Flush(now, failed)  PROVE SamplesPlaced'
    <2> DEFINE done == Due(now) \ failed
    <2>1. /\ FlushDone(now, failed) /\ UNCHANGED taken
          /\ ReportedWindows' = ReportedWindows \cup done
          /\ \A r \in reported' : r \in reported \/ r.window \in done
          /\ \A r1, r2 \in reported' :
               r1.window = r2.window /\ r1.window \notin ReportedWindows => r1 = r2
      BY <1>3, ReportFacts
    <2>2. Apart(ReportedWindows)
      BY DEF SamplesPlaced
    <2>3. /\ OpenWindows' \cup pendingWindows' \cup (ReportedWindows \cup done)
               = OpenWindows \cup pendingWindows \cup ReportedWindows
          /\ pendingWindows' \cap (OpenWindows' \cup (ReportedWindows \cup done)) = {}
          /\ OpenWindows' \cap (ReportedWindows \cup done) = {}
          /\ Due(now) \cap ReportedWindows = {}
      BY <2>1, <2>2, FlushKeepsPlaces
    <2>4. AllWindows' = AllWindows
      BY <2>1, <2>3 DEF AllWindows
    <2>5. ASSUME NEW r1 \in reported', NEW r2 \in reported', r1.window = r2.window
          PROVE  r1 = r2
      <3>1. CASE r1.window \in ReportedWindows
        BY <2>1, <2>3, <2>5, <3>1 DEF SamplesPlaced
      <3> QED
        BY <2>1, <2>5, <3>1
    <2>6. Apart(ReportedWindows)'
      BY <2>1, <2>3 DEF Apart
    <2> QED
      BY <2>1, <2>4, <2>5, <2>6 DEF SamplesPlaced, OnePlaceEach, HasSample
  <1> QED
    BY <1>1, <1>2, <1>3, StepFacts DEF vars, processorVars

(* Each sample stays at the one place that it was put at.                  *)
LEMMA PlacedAlways == Spec => []SamplesPlaced
  <1>1. Init => SamplesPlaced
    <2> SUFFICES ASSUME Init  PROVE SamplesPlaced
      OBVIOUS
    <2>1. OpenWindows = {} /\ pendingWindows = {} /\ reported = {} /\ taken = <<>>
      BY DEF Init, NewProcessor, NewAggregator, OpenWindows
    <2>2. ReportedWindows = {}
      BY <2>1 DEF ReportedWindows
    <2> QED
      BY <2>1, <2>2 DEF SamplesPlaced, AllWindows, OnePlaceEach, Apart
  <1>2. TrafficTypeOK /\ DriverOrder /\ SamplesPlaced /\ [Next]_vars => SamplesPlaced'
    BY PlacedStep
  <1> QED
    BY <1>1, <1>2, TypeCorrect, DriversInOrder, PTL DEF Spec

(* Closing, failing, retrying and reopening windows loses no sample, puts  *)
(* none at two places and reports no window twice.                         *)
THEOREM EverySampleOnce == Spec => []SamplesOnce
  <1>1. SamplesPlaced => SamplesOnce
    <2> SUFFICES ASSUME SamplesPlaced  PROVE SamplesOnce
      OBVIOUS
    <2>1. ASSUME NEW i \in DOMAIN taken  PROVE Cardinality(Places(taken[i])) = 1
      <3>1. OnePlaceEach(AllWindows) /\ HasSample(AllWindows, taken[i])
        BY DEF SamplesPlaced
      <3>2. \A ws, s : OnePlaceEach(ws) /\ HasSample(ws, s)
              => Cardinality(UNION {{<<w, k>> : k \in {j \in DOMAIN w.samples : w.samples[j] = s}} : w \in ws}) = 1
        BY OnePlaceIsOne
      <3>3. Cardinality(UNION {{<<w, k>> : k \in {j \in DOMAIN w.samples : w.samples[j] = taken[i]}} : w \in AllWindows}) = 1
        BY <3>1, <3>2
      <3> QED
        BY <3>3, Zenon DEF Places, AllWindows
    <2> QED
      BY <2>1 DEF SamplesOnce, SamplesPlaced, Apart
  <1> QED
    BY <1>1, PlacedAlways, PTL

-----------------------------------------------------------------------------
(* The samples of some windows are the elements of their sequences.        *)
LEMMA SamplesInFacts ==
  /\ \A ws, s : s \in SamplesIn(ws) <=> HasSample(ws, s)
  /\ \A vs, ws : SamplesIn(vs \cup ws) = SamplesIn(vs) \cup SamplesIn(ws)
  BY DEF SamplesIn, HasSample, ToSet

(* Windows that are taken away take their samples with them.               *)
LEMMA SamplesInRest ==
  ASSUME NEW ws, OnePlaceEach(ws), NEW done \in SUBSET ws
  PROVE  SamplesIn(ws \ done) = SamplesIn(ws) \ SamplesIn(done) /\ SamplesIn(done) \subseteq SamplesIn(ws)
  <1>1. ASSUME NEW v \in ws, NEW w \in ws, NEW i \in DOMAIN v.samples, NEW j \in DOMAIN w.samples,
               v.samples[i] = w.samples[j]
        PROVE  v = w
    BY <1>1 DEF OnePlaceEach, SamePoint
  <1>2. \A s : ~(HasSample(ws \ done, s) /\ HasSample(done, s))
    BY <1>1 DEF HasSample
  <1>3. \A s : HasSample(ws, s) <=> HasSample(ws \ done, s) \/ HasSample(done, s)
    BY DEF HasSample
  <1> QED
    BY <1>2, <1>3, SamplesInFacts

(* The processor implements the ledger: an observation moves its driver's  *)
(* time on and may open its sample, and a flush reports open samples.      *)
THEOREM ProcessorImplementsLedger == Spec => ImplementsLedger
  <1>1. Init => Ledger!LedgerInit
    <2> SUFFICES ASSUME Init  PROVE Ledger!LedgerInit
      OBVIOUS
    <2>1. OpenWindows = {} /\ pendingWindows = {} /\ ReportedWindows = {}
      BY DEF Init, NewProcessor, NewAggregator, OpenWindows, ReportedWindows
    <2>2. driverStates = [d \in {} |-> 0]
      BY DEF Init, NewProcessor, NewDriverStateBuffer
    <2> QED
      BY <2>1, <2>2 DEF Ledger!LedgerInit, SamplesIn
  <1>2. TrafficTypeOK /\ DriverOrder /\ SamplesPlaced /\ [Next]_vars => [Ledger!LedgerNext]_(Ledger!ledgerVars)
    <2> SUFFICES ASSUME TrafficTypeOK, DriverOrder, SamplesPlaced, [Next]_vars
                 PROVE  Ledger!LedgerNext \/ UNCHANGED Ledger!ledgerVars
      OBVIOUS
    <2> DEFINE held == OpenWindows \cup pendingWindows
               held2 == OpenWindows' \cup pendingWindows'
    <2>1. ASSUME UNCHANGED <<windows, pendingWindows, reported>>
          PROVE  /\ SamplesIn(held2) = SamplesIn(held) /\ SamplesIn(ReportedWindows)' = SamplesIn(ReportedWindows)
      BY <2>1 DEF OpenWindows, ReportedWindows, SamplesIn
    <2>2. CASE UNCHANGED <<driverStates, windows, pendingWindows, reported>>
      BY <2>1, <2>2 DEF Ledger!ledgerVars, SamplesIn
    <2>3. ASSUME NEW o \in Observation, Remember(o), ~StateRefuses(o), ~Repeated(o)
          PROVE  SampleOf(o) \in Sample /\ Ledger!Advance(SampleOf(o).driver, SampleOf(o).at)
      <3>1. SampleOf(o) \in Sample /\ SampleOf(o).driver = o.driver /\ SampleOf(o).at = o.at
        BY DEF Sample, SampleOf
      <3>2. o.driver \in DOMAIN driverStates => driverStates[o.driver] < o.at
        BY <2>3, ObservationAssumption DEF StateRefuses, Older, Repeated, Known, TrafficTypeOK
      <3> QED
        BY <2>3, <3>1, <3>2 DEF Ledger!Advance, Remember
    <2>4. ASSUME NEW o \in Observation, Remember(o), ~StateRefuses(o), ~Repeated(o),
                 UNCHANGED <<windows, pendingWindows, reported>>
          PROVE  Ledger!LedgerNext
      <3>1. Ledger!Pass(SampleOf(o).driver, SampleOf(o).at)
        BY <2>1, <2>3, <2>4 DEF Ledger!Pass, SamplesIn
      <3> QED
        BY <2>3, <2>4, <3>1 DEF Ledger!LedgerNext
    <2>5. ASSUME NEW o \in Observation, Remember(o), ~StateRefuses(o), ~Repeated(o), Aggregate(o),
                 UNCHANGED <<pendingWindows, reported>>
          PROVE  Ledger!LedgerNext
      <3>1. /\ SampleOf(o) \in Sample /\ \A w \in AllWindows : w.samples \in Seq(Sample)
            /\ \A w \in AllWindows : \A i \in DOMAIN w.samples : ~SamePoint(w.samples[i], SampleOf(o))
        BY <2>5, TakenIsFresh DEF TrafficTypeOK, Window, Sample, AllWindows
      <3>2. \A s : HasSample(held2, s) <=> HasSample(held, s) \/ s = SampleOf(o)
        BY <2>5, <3>1, AggregateKeepsPlaces DEF SamplesPlaced, AllWindows
      <3>3. SamplesIn(held2) = SamplesIn(held) \cup {SampleOf(o)}
        BY <3>2, SamplesInFacts
      <3>4. SamplesIn(ReportedWindows)' = SamplesIn(ReportedWindows)
        BY <2>5 DEF ReportedWindows, SamplesIn
      <3>5. Ledger!Count(SampleOf(o))
        BY <2>3, <2>5, <3>3, <3>4 DEF Ledger!Count, SamplesIn
      <3> QED
        BY <3>1, <3>5 DEF Ledger!LedgerNext
    <2>6. ASSUME NEW now \in Time, NEW failed, Flush(now, failed)
          PROVE  Ledger!LedgerNext
      <3> DEFINE done == Due(now) \ failed
      <3>1. /\ FlushDone(now, failed) /\ UNCHANGED driverStates
            /\ ReportedWindows' = ReportedWindows \cup done
        BY <2>6, ReportFacts
      <3>2. done \subseteq held /\ held2 = held \ done
        BY <3>1, FlushKeepsPlaces DEF SamplesPlaced
      <3>3. OnePlaceEach(held)
        BY DEF SamplesPlaced, OnePlaceEach, AllWindows
      <3> HIDE DEF held, held2, done
      <3>4. SamplesIn(held2) = SamplesIn(held) \ SamplesIn(done) /\ SamplesIn(done) \subseteq SamplesIn(held)
        BY <3>2, <3>3, SamplesInRest
      <3>5. SamplesIn(ReportedWindows)' = SamplesIn(ReportedWindows) \cup SamplesIn(done)
        <4>1. SamplesIn(ReportedWindows') = SamplesIn(ReportedWindows) \cup SamplesIn(done)
          BY <3>1, SamplesInFacts DEF done
        <4> QED
          BY <4>1 DEF SamplesIn
      <3>6. Ledger!Report(SamplesIn(done))
        BY <3>1, <3>4, <3>5 DEF Ledger!Report, SamplesIn, held, held2
      <3> QED
        BY <3>4, <3>6 DEF Ledger!LedgerNext, held
    <2> QED
      BY <2>2, <2>4, <2>5, <2>6, StepFacts DEF vars, processorVars
  <1> QED
    BY <1>1, <1>2, PlacedAlways, TypeCorrect, DriversInOrder, PTL
    DEF Spec, ImplementsLedger, Ledger!LedgerSpec

-----------------------------------------------------------------------------
(* And so the level keeps the order of the medians.                        *)
LEMMA LevelsRise ==
  ASSUME NEW t \in Nat, NEW u \in Nat, t <= u, NEW r \in Nat \ {0}
  PROVE  LevelRank(ClassifyLevel(ClampRatio(<<t, 2 * r>>)))
           <= LevelRank(ClassifyLevel(ClampRatio(<<u, 2 * r>>)))
  <1> DEFINE before == ClassifyLevel(ClampRatio(<<t, 2 * r>>))
             after == ClassifyLevel(ClampRatio(<<u, 2 * r>>))
  <1>1. /\ 16 * r <= 10 * t => before = "FREE"
        /\ 16 * r > 10 * t /\ 10 * r <= 10 * t => before = "SLOW"
        /\ 10 * r > 10 * t => before = "CONGESTED"
    BY LevelByMedian
  <1>2. /\ 16 * r <= 10 * u => after = "FREE"
        /\ 16 * r > 10 * u /\ 10 * r <= 10 * u => after = "SLOW"
        /\ 10 * r > 10 * u => after = "CONGESTED"
    BY LevelByMedian
  <1>3. LevelRank("FREE") = 3 /\ LevelRank("SLOW") = 2 /\ LevelRank("CONGESTED") = 1
    BY DEF LevelRank
  <1> HIDE DEF before, after
  <1>4. \/ before = "FREE" /\ after = "FREE"
        \/ before = "SLOW" /\ after \in {"FREE", "SLOW"}
        \/ before = "CONGESTED" /\ after \in {"FREE", "SLOW", "CONGESTED"}
    BY <1>1, <1>2
  <1>5. LevelRank(before) <= LevelRank(after)
    BY <1>3, <1>4
  <1> QED
    BY <1>5 DEF before, after

-----------------------------------------------------------------------------
(* The state of a window, by what it has.                                  *)
LEMMA StateFacts ==
  ASSUME NEW list, NEW speed
  PROVE  LET state == StateOf(list, speed)
         IN  /\ state.twiceSpeed = TwiceMedian(SpeedsOf(list))
             /\ ~EnoughData(list) \/ speed = Nil =>
                  state.level = "UNKNOWN" /\ state.confidence = <<0, 1>>
             /\ EnoughData(list) /\ speed # Nil =>
                  /\ state.level = ClassifyLevel(ClampRatio(<<TwiceMedian(SpeedsOf(list)), 2 * speed>>))
                  /\ state.level # "UNKNOWN"
                  /\ state.confidence = CalculateConfidence(Len(list), Cardinality(DriversOf(list)))
  <1> DEFINE window == [key |-> "k", samples |-> list]
             unknown == UnknownState(window, 0)
             ratio == ClampRatio(<<unknown.twiceSpeed, 2 * speed>>)
             state == Calculate(window, speed, 0)
  <1>1. window.samples = list
    OBVIOUS
  <1>2. /\ unknown.twiceSpeed = TwiceMedian(SpeedsOf(list))
        /\ unknown.level = "UNKNOWN" /\ unknown.confidence = <<0, 1>>
        /\ unknown.sampleCount = Len(list) /\ unknown.driverCount = Cardinality(DriversOf(list))
    BY <1>1 DEF UnknownState
  <1>3. \A a, b, c : LET new == [unknown EXCEPT !.reference = speed, !.ratio = a, !.level = b, !.confidence = c]
                     IN  new.twiceSpeed = unknown.twiceSpeed /\ new.level = b /\ new.confidence = c
    BY DEF UnknownState
  <1>4. state = IF ~EnoughData(list) \/ speed = Nil
                THEN unknown
                ELSE [unknown EXCEPT !.reference = speed, !.ratio = ratio,
                        !.level = ClassifyLevel(ratio),
                        !.confidence = CalculateConfidence(unknown.sampleCount, unknown.driverCount)]
    BY <1>1 DEF Calculate
  <1>5. \A p : ClassifyLevel(p) # "UNKNOWN"
    BY DEF ClassifyLevel
  <1> HIDE DEF unknown, window
  <1>6. CASE ~EnoughData(list) \/ speed = Nil
    <2>1. state = unknown
      BY <1>4, <1>6
    <2> QED
      BY <1>2, <1>6, <2>1 DEF StateOf, window
  <1>7. CASE EnoughData(list) /\ speed # Nil
    <2>1. /\ state.twiceSpeed = unknown.twiceSpeed /\ state.level = ClassifyLevel(ratio)
          /\ state.confidence = CalculateConfidence(unknown.sampleCount, unknown.driverCount)
      <3> DEFINE level == ClassifyLevel(ratio)
                 confidence == CalculateConfidence(unknown.sampleCount, unknown.driverCount)
                 new == [unknown EXCEPT !.reference = speed, !.ratio = ratio, !.level = level,
                           !.confidence = confidence]
      <3>1. state = new
        BY <1>4, <1>7
      <3> HIDE DEF state, ratio, level, confidence
      <3>2. new.twiceSpeed = unknown.twiceSpeed /\ new.level = level /\ new.confidence = confidence
        BY <1>3
      <3> HIDE DEF new
      <3>3. state.twiceSpeed = unknown.twiceSpeed /\ state.level = level /\ state.confidence = confidence
        BY <3>1, <3>2
      <3> QED
        BY <3>3 DEF level, confidence
    <2> QED
      BY <1>2, <1>5, <1>7, <2>1 DEF StateOf, window
  <1> QED
    BY <1>6, <1>7

-----------------------------------------------------------------------------
(* A window that grows holds samples, one at least.                        *)
GrowthTypeOK ==
  /\ samples \in Seq(SpeedSample) /\ Len(samples) >= 1
  /\ reference \in RefSpeed \cup {Nil}

LEMMA GrowthTyped == GrowthSpec => []GrowthTypeOK
  <1>1. GrowthInit => GrowthTypeOK
    <2> SUFFICES ASSUME GrowthInit  PROVE GrowthTypeOK
      OBVIOUS
    <2>1. PICK s \in SpeedSample : samples = <<s>>
      BY DEF GrowthInit
    <2>2. <<s>> \in Seq(SpeedSample) /\ Len(<<s>>) >= 1
      OBVIOUS
    <2> QED
      BY <2>1, <2>2 DEF GrowthInit, GrowthTypeOK
  <1>2. GrowthTypeOK /\ [Grow]_growthVars => GrowthTypeOK'
    <2> SUFFICES ASSUME GrowthTypeOK, [Grow]_growthVars  PROVE GrowthTypeOK'
      OBVIOUS
    <2>1. CASE Grow
      <3>1. PICK s \in SpeedSample : samples' = Append(samples, s)
        BY <2>1 DEF Grow
      <3>2. samples' \in Seq(SpeedSample) /\ Len(samples') = Len(samples) + 1 /\ Len(samples) \in Nat
        BY <3>1 DEF GrowthTypeOK
      <3>3. Len(samples') >= 1
        BY <3>2
      <3> QED
        BY <2>1, <3>2, <3>3 DEF Grow, GrowthTypeOK
    <2>2. CASE UNCHANGED growthVars
      BY <2>2 DEF growthVars, GrowthTypeOK
    <2> QED
      BY <2>1, <2>2
  <1> QED
    BY <1>1, <1>2, PTL DEF GrowthSpec

(* The speeds of such a window.                                            *)
LEMMA SpeedsTyped ==
  ASSUME NEW list \in Seq(SpeedSample)
  PROVE  SpeedsOf(list) \in Seq(Nat) /\ Len(SpeedsOf(list)) = Len(list)
  <1>1. \A i \in 1..Len(list) : list[i].speed \in Nat
    <2> SUFFICES ASSUME NEW i \in 1..Len(list)  PROVE list[i].speed \in Nat
      OBVIOUS
    <2>1. list[i] \in SpeedSample
      OBVIOUS
    <2> QED
      BY <2>1, GrowthAssumption DEF SpeedSample
  <1>2. DOMAIN list = 1..Len(list) /\ Len(list) \in Nat
    OBVIOUS
  <1>3. SpeedsOf(list) = [i \in 1..Len(list) |-> list[i].speed]
    BY <1>2 DEF SpeedsOf
  <1>4. SpeedsOf(list) \in [1..Len(list) -> Nat]
    BY <1>1, <1>3
  <1>5. SpeedsOf(list) \in Seq(Nat)
    BY <1>2, <1>4
  <1>6. DOMAIN SpeedsOf(list) = 1..Len(list)
    BY <1>3
  <1> QED
    BY <1>2, <1>5, <1>6

(* What one more sample does to them, and to what Calculate counts.        *)
LEMMA GrowthFacts ==
  ASSUME GrowthTypeOK, NEW s \in SpeedSample, samples' = Append(samples, s)
  PROVE  /\ SpeedsOf(samples') = Append(SpeedsOf(samples), s.speed) /\ s.speed \in Nat
         /\ Len(samples) \in Nat /\ Len(samples') = Len(samples) + 1
         /\ Last(samples') = s
         /\ Cardinality(DriversOf(samples)) \in Nat /\ Cardinality(DriversOf(samples')) \in Nat
         /\ Cardinality(DriversOf(samples)) <= Cardinality(DriversOf(samples'))
         /\ EnoughData(samples) => EnoughData(samples')
  <1> DEFINE n == Len(samples)
  <1>1. samples \in Seq(SpeedSample) /\ samples' \in Seq(SpeedSample) /\ s.speed \in Nat
    <2>1. samples \in Seq(SpeedSample)
      BY DEF GrowthTypeOK
    <2>2. Append(samples, s) \in Seq(SpeedSample)
      BY <2>1
    <2>3. s.speed \in Nat
      BY GrowthAssumption DEF SpeedSample
    <2> QED
      BY <2>1, <2>2, <2>3
  <1>2. /\ n \in Nat /\ Len(samples') = n + 1
        /\ DOMAIN samples = 1..n /\ DOMAIN samples' = 1..(n + 1)
        /\ samples'[n + 1] = s /\ \A i \in 1..n : samples'[i] = samples[i]
    BY <1>1
  <1>3. SpeedsOf(samples') = Append(SpeedsOf(samples), s.speed)
    <2>1. /\ SpeedsOf(samples) \in Seq(Nat) /\ Len(SpeedsOf(samples)) = n
          /\ SpeedsOf(samples') \in Seq(Nat) /\ Len(SpeedsOf(samples')) = n + 1
      BY <1>1, <1>2, SpeedsTyped
    <2>2. /\ \A i \in 1..n : SpeedsOf(samples)[i] = samples[i].speed
          /\ \A i \in 1..(n + 1) : SpeedsOf(samples')[i] = samples'[i].speed
      BY <1>2 DEF SpeedsOf
    <2>3. \A i \in 1..(n + 1) :
            SpeedsOf(samples')[i] = IF i <= n THEN SpeedsOf(samples)[i] ELSE s.speed
      BY <1>2, <2>2
    <2> DEFINE old == SpeedsOf(samples)  new == SpeedsOf(samples')
    <2> HIDE DEF n, old, new
    <2>4. Append(old, s.speed) = new
      BY <1>1, <1>2, <2>1, <2>3 DEF old, new
    <2> QED
      BY <2>4 DEF old, new
  <1>4. Last(samples') = s
    BY <1>2 DEF Last
  <1>5. DriversOf(samples) \subseteq DriversOf(samples') /\ IsFiniteSet(DriversOf(samples'))
    <2>1. DriversOf(samples) \subseteq DriversOf(samples')
      <3> HIDE DEF n
      <3> QED
        BY <1>2 DEF DriversOf
    <2> DEFINE f == [i \in 1..(n + 1) |-> samples'[i].driver]
    <2>2. f \in Surjection(1..(n + 1), DriversOf(samples'))
      BY <1>2 DEF Surjection, DriversOf
    <2>3. IsFiniteSet(1..(n + 1))
      BY <1>2, FS_Interval
    <2> HIDE DEF f
    <2>4. IsFiniteSet(DriversOf(samples'))
      BY <2>2, <2>3, FS_Surjection
    <2> QED
      BY <2>1, <2>4
  <1>6. /\ Cardinality(DriversOf(samples)) \in Nat /\ Cardinality(DriversOf(samples')) \in Nat
        /\ Cardinality(DriversOf(samples)) <= Cardinality(DriversOf(samples'))
    BY <1>5, FS_Subset, FS_CardinalityType
  <1>7. EnoughData(samples) => EnoughData(samples')
    <2>1. MinSamples \in Nat /\ MinDrivers \in Nat
      BY CalculatorAssumption
    <2> QED
      BY <1>2, <1>6, <2>1 DEF EnoughData
  <1> QED
    BY <1>1, <1>2, <1>3, <1>4, <1>6, <1>7

(* The median that Calculate takes is the middle of the sorted speeds, for *)
(* an odd and an even number of samples: half the sum of the least and the *)
(* greatest speed with at most half of the samples on either side.         *)
THEOREM MedianInTheMiddle == GrowthSpec => []MedianIsMiddle
  <1>1. GrowthTypeOK => MedianIsMiddle
    <2> SUFFICES ASSUME GrowthTypeOK  PROVE MedianIsMiddle
      OBVIOUS
    <2> DEFINE list == SpeedsOf(samples)
    <2>1. list \in Seq(Nat) /\ Len(list) >= 1
      BY SpeedsTyped DEF GrowthTypeOK
    <2> HIDE DEF list
    <2> DEFINE Middle == {v \in ToSet(list) : /\ 2 * Cardinality(Below(list, v)) <= Len(list)
                                              /\ 2 * Cardinality(Above(list, v)) <= Len(list)}
    <2>2. Min(Middle) = Lower(list) /\ Max(Middle) = Upper(list)
      BY <2>1, MiddleValues
    <2>3. TwiceMedian(list) = Lower(list) + Upper(list)
      BY <2>1, MiddlePlaces
    <2>4. TwiceMedian(list) = Min(Middle) + Max(Middle)
      BY <2>2, <2>3
    <2> QED
      BY <2>4 DEF list, MedianIsMiddle, Below, Above
  <1> QED
    BY <1>1, GrowthTyped, PTL

(* More evidence never takes a published level or its confidence away: a   *)
(* window that Calculate classified is classified with one more sample,    *)
(* with at least the same confidence.                                      *)
THEOREM EvidenceKeepsItsWeight == GrowthSpec => EvidenceNeverShrinks
  <1> DEFINE before == StateOf(samples, reference)
             after == StateOf(samples', reference')
             Holds == /\ before.level # "UNKNOWN" => after.level # "UNKNOWN"
                      /\ AtMost(before.confidence, after.confidence)
  <1>1. ASSUME GrowthTypeOK, Grow  PROVE Holds
    <2>1. PICK s \in SpeedSample : samples' = Append(samples, s)
      BY <1>1 DEF Grow
    <2>2. reference' = reference
      BY <1>1 DEF Grow
    <2> DEFINE d == Cardinality(DriversOf(samples))  e == Cardinality(DriversOf(samples'))
    <2>3. /\ Len(samples) \in Nat /\ Len(samples') \in Nat /\ Len(samples) <= Len(samples')
          /\ d \in Nat /\ e \in Nat /\ d <= e
          /\ EnoughData(samples) => EnoughData(samples')
      BY <1>1, <2>1, GrowthFacts
    <2>4. /\ ~EnoughData(samples) \/ reference = Nil =>
               before.level = "UNKNOWN" /\ before.confidence = <<0, 1>>
          /\ EnoughData(samples) /\ reference # Nil =>
               before.confidence = CalculateConfidence(Len(samples), d)
      BY StateFacts
    <2>5. /\ ~EnoughData(samples') \/ reference = Nil => after.confidence = <<0, 1>>
          /\ EnoughData(samples') /\ reference # Nil =>
               /\ after.level # "UNKNOWN"
               /\ after.confidence = CalculateConfidence(Len(samples'), e)
      <3>1. ~EnoughData(samples') \/ reference' = Nil => after.confidence = <<0, 1>>
        BY StateFacts
      <3>2. EnoughData(samples') /\ reference' # Nil => after.level # "UNKNOWN"
        BY StateFacts
      <3>3. EnoughData(samples') /\ reference' # Nil =>
              after.confidence = CalculateConfidence(Len(samples'), e)
        BY StateFacts
      <3> HIDE DEF after, e
      <3> QED
        BY <2>2, <3>1, <3>2, <3>3
    <2> HIDE DEF before, after, d, e
    <2>6. ASSUME EnoughData(samples)
          PROVE  AtMost(CalculateConfidence(Len(samples), d), CalculateConfidence(Len(samples'), e))
      BY <2>3, <2>6, ConfidenceRises DEF EnoughData, d
    <2>7. AtMost(<<0, 1>>, after.confidence)
      <3>1. \A p \in Ratio : AtMost(<<0, 1>>, p)
        BY DEF Ratio, AtMost
      <3>2. <<0, 1>> \in Ratio
        BY DEF Ratio
      <3>3. EnoughData(samples') => CalculateConfidence(Len(samples'), e) \in Ratio
        <4> SUFFICES ASSUME EnoughData(samples')  PROVE CalculateConfidence(Len(samples'), e) \in Ratio
          OBVIOUS
        <4>1. Len(samples') <= Len(samples') /\ e <= e
          BY <2>3
        <4>2. Len(samples') >= MinSamples /\ e >= MinDrivers
          BY DEF EnoughData, e
        <4> QED
          BY <2>3, <4>1, <4>2, ConfidenceRises
      <3> QED
        BY <2>5, <3>1, <3>2, <3>3
    <2>8. before.level # "UNKNOWN" => after.level # "UNKNOWN"
      BY <2>2, <2>3, <2>4, <2>5
    <2>9. AtMost(before.confidence, after.confidence)
      <3>1. CASE ~EnoughData(samples) \/ reference = Nil
        BY <2>4, <2>7, <3>1
      <3>2. CASE EnoughData(samples) /\ reference # Nil
        BY <2>2, <2>3, <2>4, <2>5, <2>6, <3>2
      <3> QED
        BY <3>1, <3>2
    <2> QED
      BY <2>8, <2>9
  <1>2. GrowthTypeOK /\ [Grow]_growthVars => [Holds]_growthVars
    BY <1>1
  <1> QED
    BY <1>2, GrowthTyped, PTL DEF GrowthSpec, EvidenceNeverShrinks

(* One more sample at the median speed or above never makes a segment look *)
(* more congested, and one at the median or below never less: Calculate's  *)
(* median, ratio and level move with the sample.                           *)
THEOREM LevelFollowsTheSample == GrowthSpec => SampleMovesLevelItsWay
  <1> DEFINE before == StateOf(samples, reference)
             after == StateOf(samples', reference')
             new == Last(samples').speed
             Holds == before.level # "UNKNOWN" =>
                        /\ 2 * new >= before.twiceSpeed => LevelRank(after.level) >= LevelRank(before.level)
                        /\ 2 * new <= before.twiceSpeed => LevelRank(after.level) <= LevelRank(before.level)
  <1>1. ASSUME GrowthTypeOK, Grow  PROVE Holds
    <2>1. PICK s \in SpeedSample : samples' = Append(samples, s)
      BY <1>1 DEF Grow
    <2>2. reference' = reference
      BY <1>1 DEF Grow
    <2> DEFINE list == SpeedsOf(samples)
               t == TwiceMedian(SpeedsOf(samples))
               u == TwiceMedian(SpeedsOf(samples'))
    <2>3. /\ SpeedsOf(samples') = Append(list, s.speed) /\ s.speed \in Nat
          /\ new = s.speed
          /\ EnoughData(samples) => EnoughData(samples')
      BY <1>1, <2>1, GrowthFacts
    <2>4. list \in Seq(Nat) /\ Len(list) >= 1
      BY <1>1, SpeedsTyped DEF GrowthTypeOK
    <2>5. /\ t \in Nat /\ u \in Nat
          /\ 2 * new >= t => u >= t
          /\ 2 * new <= t => u <= t
      <3> HIDE DEF new, list
      <3>1. t = TwiceMedian(list) /\ u = TwiceMedian(Append(list, s.speed))
        BY <2>3 DEF list
      <3> HIDE DEF t, u
      <3> QED
        BY <2>3, <2>4, <3>1, MedianMoves
    <2>6. /\ before.twiceSpeed = t
          /\ ~EnoughData(samples) \/ reference = Nil => before.level = "UNKNOWN"
          /\ EnoughData(samples) /\ reference # Nil =>
               before.level = ClassifyLevel(ClampRatio(<<t, 2 * reference>>))
      BY StateFacts
    <2>7. EnoughData(samples') /\ reference # Nil =>
               after.level = ClassifyLevel(ClampRatio(<<u, 2 * reference>>))
      BY <2>2, StateFacts
    <2> HIDE DEF before, after, new, t, u, list
    <2>8. SUFFICES ASSUME EnoughData(samples), reference # Nil  PROVE Holds
      BY <2>6
    <2>9. reference \in Nat \ {0}
      BY <1>1, <2>8, GrowthAssumption DEF GrowthTypeOK
    <2> DEFINE old == ClassifyLevel(ClampRatio(<<t, 2 * reference>>))
               now == ClassifyLevel(ClampRatio(<<u, 2 * reference>>))
    <2>10. before.level = old /\ after.level = now /\ before.twiceSpeed = t
      BY <2>3, <2>6, <2>7, <2>8
    <2>11. /\ t <= u => LevelRank(old) <= LevelRank(now)
           /\ u <= t => LevelRank(now) <= LevelRank(old)
      BY <2>5, <2>9, LevelsRise
    <2>12. /\ LevelRank(before.level) \in Nat /\ LevelRank(after.level) \in Nat
      <3>1. \A p : LevelRank(ClassifyLevel(p)) \in Nat
        BY DEF LevelRank, ClassifyLevel
      <3> QED
        BY <2>10, <3>1
    <2> HIDE DEF old, now
    <2> QED
      BY <2>5, <2>10, <2>11, <2>12
  <1>2. GrowthTypeOK /\ [Grow]_growthVars => [Holds]_growthVars
    BY <1>1
  <1> QED
    BY <1>2, GrowthTyped, PTL DEF GrowthSpec, SampleMovesLevelItsWay
=============================================================================
