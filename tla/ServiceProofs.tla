--------------------------- MODULE ServiceProofs ---------------------------
(***************************************************************************)
(* What TLAPS proves about concurrent requests over the trace buffer and   *)
(* the traffic processor, through drains, crashes and restarts: for every  *)
(* number of requests, every set of drivers, events and matcher answers,   *)
(* and every configuration that Validate accepts.                          *)
(***************************************************************************)
EXTENDS Service, TrafficProcessorProofs

(* The events of drivers, and the observations that a match can make.      *)
DriverEvent == {e \in Event : e.driver \in Driver}

Observed == {Observe(e, a) : e \in DriverEvent, a \in Answer}

Counted == {SampleOf(o) : o \in Observed}

(* The places of a request in which it bears a trace.                      *)
Bearing == {"matching", "adding", "flushing"}

Place == {"idle", "received"} \cup Bearing \cup Finished

Reading == Time \cup {0, CHOOSE t \in Time : \A u \in Time : t <= u}

Request ==
  [pc : Place, event : Event \cup {<<>>}, now : Reading, trace : Seq(DriverEvent), work : Seq(Observed)]

(* A request in flight bears an event, and something to match or to add.   *)
Sound(q) ==
  q.pc \in {"received"} \cup Bearing =>
    /\ q.event \in Event
    /\ q.pc = "matching" => q.trace # <<>>
    /\ q.pc = "adding" => q.work # <<>>

(* Every variable keeps its type, and the process is never down with a     *)
(* request in flight.                                                      *)
ServiceTypeOK ==
  /\ config \in {c \in Config : Validate(c)}
  /\ pointsByDriver \in [Driver -> Seq(DriverEvent)]
  /\ DOMAIN driverStates \subseteq Driver
  /\ \A d \in DOMAIN driverStates : driverStates[d] \in Int
  /\ requests \in [Req -> Request]
  /\ \A r \in Req : Sound(requests[r])
  /\ clock \in Reading
  /\ noted \subseteq [driver : Driver, at : Int]
  /\ taken \in Seq(Counted)
  /\ server = "stopped" => InFlight = {} /\ ~opened

-----------------------------------------------------------------------------
(* Appending: what the longer sequence is.                                 *)
LEMMA AppendFacts ==
  ASSUME NEW S, NEW s \in Seq(S), NEW e \in S
  PROVE  /\ Append(s, e) \in Seq(S)
         /\ Append(s, e) # <<>>
         /\ Len(Append(s, e)) = Len(s) + 1
         /\ \A i \in 1..Len(s) : Append(s, e)[i] = s[i]
         /\ Append(s, e)[Len(s) + 1] = e
         /\ Last(Append(s, e)) = e
  BY DEF Last

(* The last points of a sequence.                                          *)
LEMMA SuffixFacts ==
  ASSUME NEW S, NEW s \in Seq(S), NEW n \in 0..Len(s)
  PROVE  LET t == SubSeq(s, Len(s) - n + 1, Len(s))
         IN  /\ t \in Seq(S)
             /\ Len(t) = n
             /\ \A i \in 1..n : t[i] = s[Len(s) - n + i]
  OBVIOUS

(* An observation is of the driver and time of its point.                  *)
LEMMA ObservedFacts ==
  /\ \A e \in DriverEvent : e.driver \in Driver /\ e.at \in Int
  /\ \A e \in DriverEvent, a \in Answer : Observe(e, a) \in Observed /\ PointOf(Observe(e, a)) = PointOf(e)
  /\ \A o \in Observed : o.driver \in Driver /\ o.at \in Int /\ SampleOf(o) \in Counted
  /\ \A o \in Observed : SampleOf(o).driver = o.driver /\ SampleOf(o).at = o.at
  /\ \A s \in Counted : s.driver \in Driver /\ s.at \in Int
  BY EventAssumption DEF DriverEvent, Observed, Counted, Observe, SampleOf, PointOf

(* A request that takes a step alone, and what becomes of it.              *)
Moves(r, q) ==
  /\ requests' \in [Req -> Request]
  /\ requests'[r] = q
  /\ \A x \in Req \ {r} : requests'[x] = requests[x]

Ended(answer) == [pc |-> answer, event |-> <<>>, now |-> 0, trace |-> <<>>, work |-> <<>>]

Moved(q, pc, trace, work) ==
  [pc |-> pc, event |-> q.event, now |-> q.now, trace |-> trace, work |-> work]

(* A record is the record of its fields: what the provers do not see of    *)
(* an EXCEPT that changes two of them.                                     *)
LEMMA RecordFacts ==
  ASSUME NEW P, NEW E, NEW N, NEW T, NEW W, NEW q \in [pc : P, event : E, now : N, trace : T, work : W]
  PROVE  q = [pc |-> q.pc, event |-> q.event, now |-> q.now, trace |-> q.trace, work |-> q.work]
  OBVIOUS

Goes(q, pc) == [q EXCEPT !.pc = pc]

Bears(q, pc, trace) == [q EXCEPT !.pc = pc, !.trace = trace]

Begins(q, pc, work) == [q EXCEPT !.pc = pc, !.work = work]

Continues(q, pc, work) == [q EXCEPT !.work = work, !.pc = pc]

(* The updates of a request that the actions write with EXCEPT, as one     *)
(* record with a new place, trace and work.                                *)
LEMMA RequestFacts ==
  ASSUME NEW q \in Request, NEW pc, NEW x
  PROVE  /\ Goes(q, pc) = Moved(q, pc, q.trace, q.work)
         /\ Bears(q, pc, x) = Moved(q, pc, x, q.work)
         /\ Begins(q, pc, x) = Moved(q, pc, q.trace, x)
         /\ Continues(q, pc, x) = Moved(q, pc, q.trace, x)
  <1> DEFINE E == Event \cup {<<>>}
             a == [q EXCEPT !.pc = pc, !.trace = x]
             b == [q EXCEPT !.pc = pc, !.work = x]
             c == [q EXCEPT !.work = x, !.pc = pc]
  <1>1. [q EXCEPT !.pc = pc] = Moved(q, pc, q.trace, q.work)
    BY DEF Request, Moved
  <1>2. /\ a \in [pc : {pc}, event : E, now : Reading, trace : {x}, work : Seq(Observed)]
        /\ a.pc = pc /\ a.event = q.event /\ a.now = q.now /\ a.trace = x /\ a.work = q.work
    BY DEF Request
  <1>3. /\ b \in [pc : {pc}, event : E, now : Reading, trace : Seq(DriverEvent), work : {x}]
        /\ b.pc = pc /\ b.event = q.event /\ b.now = q.now /\ b.trace = q.trace /\ b.work = x
    BY DEF Request
  <1>4. /\ c \in [pc : {pc}, event : E, now : Reading, trace : Seq(DriverEvent), work : {x}]
        /\ c.pc = pc /\ c.event = q.event /\ c.now = q.now /\ c.trace = q.trace /\ c.work = x
    BY DEF Request
  <1> HIDE DEF a, b, c
  <1>5. a = [pc |-> a.pc, event |-> a.event, now |-> a.now, trace |-> a.trace, work |-> a.work]
    BY <1>2, RecordFacts
  <1>6. b = [pc |-> b.pc, event |-> b.event, now |-> b.now, trace |-> b.trace, work |-> b.work]
    BY <1>3, RecordFacts
  <1>7. c = [pc |-> c.pc, event |-> c.event, now |-> c.now, trace |-> c.trace, work |-> c.work]
    BY <1>4, RecordFacts
  <1>8. a = Moved(q, pc, x, q.work) /\ b = Moved(q, pc, q.trace, x) /\ c = Moved(q, pc, q.trace, x)
    BY <1>2, <1>3, <1>4, <1>5, <1>6, <1>7 DEF Moved
  <1> QED
    BY <1>1, <1>8 DEF a, b, c, Goes, Bears, Begins, Continues

(* Every update of one request by an action moves that request alone, to a *)
(* request.                                                                *)
LEMMA MoveFacts ==
  ASSUME ServiceTypeOK, NEW r \in Req
  PROVE  /\ requests[r] \in Request /\ Sound(requests[r])
         /\ \A q \in Request : Become(r, q) => Moves(r, q)
         /\ \A a \in Finished : Finish(r, a) => Moves(r, Ended(a))
         /\ \A pc \in Place : Goto(r, pc) => Moves(r, Moved(requests[r], pc, requests[r].trace, requests[r].work))
         /\ \A pc \in Place, trace \in Seq(DriverEvent), work \in Seq(Observed) :
              Moved(requests[r], pc, trace, work) \in Request
  <1>1. requests \in [Req -> Request] /\ requests[r] \in Request /\ Sound(requests[r])
    BY DEF ServiceTypeOK
  <1>2. \A q \in Request : Become(r, q) => Moves(r, q)
    BY <1>1 DEF Become, Moves
  <1>3. \A pc \in Place, trace \in Seq(DriverEvent), work \in Seq(Observed) :
          Moved(requests[r], pc, trace, work) \in Request
    BY <1>1 DEF Request, Moved
  <1>4. ASSUME NEW pc \in Place, Goto(r, pc)
        PROVE  Moves(r, Moved(requests[r], pc, requests[r].trace, requests[r].work))
    <2>1. Goes(requests[r], pc) = Moved(requests[r], pc, requests[r].trace, requests[r].work)
      BY <1>1, RequestFacts
    <2>2. requests[r].trace \in Seq(DriverEvent) /\ requests[r].work \in Seq(Observed)
      BY <1>1 DEF Request
    <2> QED
      BY <1>2, <1>3, <1>4, <2>1, <2>2 DEF Goto, Goes
  <1>5. ASSUME NEW a \in Finished, Finish(r, a)  PROVE Moves(r, Ended(a))
    <2>1. [Idle EXCEPT !.pc = a] = Ended(a)
      BY DEF Idle, Ended
    <2>2. <<>> \in Seq(DriverEvent) /\ <<>> \in Seq(Observed) /\ 0 \in Reading
      BY EmptySeq DEF Reading
    <2>3. Ended(a) \in Request
      BY <2>2 DEF Request, Ended, Place
    <2> QED
      BY <1>2, <1>5, <2>1, <2>3 DEF Finish
  <1> QED
    BY <1>1, <1>2, <1>3, <1>4, <1>5

(* A step of the service: time or the server's state moves on, a body      *)
(* comes, a request steps, or the process ends or starts.                  *)
LEMMA ServiceSteps ==
  ASSUME ServiceTypeOK, ServiceNext
  PROVE  \/ /\ UNCHANGED <<bufferVars, processorVars, requests, clients, historyVars>>
            /\ clock' \in Reading
            /\ server' = "stopped" => InFlight = {} /\ ~opened'
         \/ /\ \E r \in Req, e \in Event : Receive(r, e)
            /\ server' # "stopped"
         \/ /\ \E r \in Req : Step(r)
            /\ UNCHANGED <<server, opened>>
         \/ Cut
         \/ Start
  <1>1. clock \in Reading /\ (server = "stopped" => InFlight = {} /\ ~opened)
    BY DEF ServiceTypeOK
  <1>2. CASE Open \/ BodyLost \/ Signal \/ Drained
    BY <1>1, <1>2 DEF Open, BodyLost, Signal, Drained, pipelineVars, lifeVars, clientVars
  <1>3. CASE Wait
    BY <1>1, <1>3 DEF Wait, Tick, lifeVars, clientVars, Reading
  <1>4. ASSUME NEW r \in Req, NEW e \in Event, BodyArrives(r, e)
        PROVE  Receive(r, e) /\ server' # "stopped"
    BY <1>1, <1>4 DEF BodyArrives, lifeVars
  <1>5. ASSUME NEW r \in Req, Serve(r)
        PROVE  Step(r) /\ UNCHANGED <<server, opened>>
    BY <1>5 DEF Serve, lifeVars, clientVars
  <1>6. CASE DrainTimesOut \/ Crash
    BY <1>6 DEF DrainTimesOut, Crash
  <1> QED
    BY <1>2, <1>3, <1>4, <1>5, <1>6 DEF ServiceNext

(* A request that has just been received.                                  *)
Received(e) == [Idle EXCEPT !.pc = "received", !.event = e, !.now = clock]

(* A body that arrives makes one idle request a received one; a serial     *)
(* client has no other open.                                               *)
LEMMA ReceiveFacts ==
  ASSUME ServiceTypeOK, NEW r \in Req, NEW e \in Event, Receive(r, e)
  PROVE  /\ At(r, "idle")
         /\ clients = "serial" => \A q \in InFlight : requests[q].event.driver # e.driver
         /\ Moves(r, Received(e))
         /\ Received(e).pc = "received" /\ Received(e).event = e
         /\ Received(e).trace = <<>> /\ Received(e).work = <<>>
         /\ UNCHANGED <<bufferVars, processorVars, clock, clients, historyVars>>
  <1>1. <<>> \in Seq(DriverEvent) /\ <<>> \in Seq(Observed) /\ clock \in Reading
    BY EmptySeq DEF ServiceTypeOK
  <1>2. Received(e) \in Request
    BY <1>1 DEF Received, Idle, Request, Place
  <1>3. Received(e).pc = "received" /\ Received(e).event = e
    BY DEF Received, Idle
  <1>4. Received(e).trace = <<>> /\ Received(e).work = <<>>
    BY DEF Received, Idle
  <1>5. Become(r, Received(e))
    BY DEF Receive, Received
  <1>6. Moves(r, Received(e))
    BY <1>2, <1>5, MoveFacts
  <1> QED
    BY <1>3, <1>4, <1>6 DEF Receive

-----------------------------------------------------------------------------
(* buffer.Add refuses the event, or stores it as the newest of its driver. *)
LEMMA BufferAddFacts ==
  ASSUME ServiceTypeOK, NEW r \in Req, BufferAdd(r)
  PROVE  LET e == requests[r].event
             held == pointsByDriver[e.driver]
         IN  /\ At(r, "received")
             /\ UNCHANGED <<config, processorVars, clock, clients, historyVars>>
             /\ \/ Moves(r, Ended("refused")) /\ UNCHANGED pointsByDriver
                \/ /\ e \in DriverEvent /\ held \in Seq(DriverEvent)
                   /\ held # <<>> => Last(held).at < e.at
                   /\ Grown(e) \in Seq(DriverEvent) /\ Grown(e) # <<>>
                   /\ \/ /\ Moves(r, Ended("panicked")) /\ config.overlapPoints > Len(Grown(e))
                         /\ pointsByDriver' = [pointsByDriver EXCEPT ![e.driver] = Grown(e)]
                      \/ /\ Moves(r, Moved(requests[r], "flushing", requests[r].trace, requests[r].work))
                         /\ pointsByDriver' = [pointsByDriver EXCEPT ![e.driver] = Grown(e)]
                      \/ /\ Moves(r, Moved(requests[r], "matching", Grown(e), requests[r].work))
                         /\ config.overlapPoints \in 0..Len(Grown(e))
                         /\ pointsByDriver' = [pointsByDriver EXCEPT ![e.driver] = Overlap(Grown(e))]
  <1> DEFINE e == requests[r].event
             held == pointsByDriver[e.driver]
  <1>1. At(r, "received") /\ UNCHANGED <<processorVars, clock, clients, historyVars>>
    BY DEF BufferAdd
  <1>2. e \in Event
    BY <1>1 DEF ServiceTypeOK, Sound, At
  <1>3. requests[r] \in Request /\ requests[r].trace \in Seq(DriverEvent) /\ requests[r].work \in Seq(Observed)
    BY MoveFacts DEF Request
  <1>4. {"received", "refused", "panicked", "flushing", "matching"} \subseteq Place
        /\ {"refused", "panicked"} \subseteq Finished
    BY DEF Place, Finished, Answered, Bearing
  <1>5. CASE Refused(e)
    <2>1. AddRefused(e) /\ Finish(r, "refused")
      BY <1>5 DEF BufferAdd, AddPanicked, AddBuffered, AddEmitted
    <2> QED
      BY <1>1, <1>4, <2>1, MoveFacts DEF AddRefused
  <1>6. CASE ~Refused(e)
    <2>1. e \in DriverEvent /\ e.at \in Int
      BY <1>2, <1>6, EventAssumption DEF Refused, DriverEvent
    <2>2. held \in Seq(DriverEvent)
      BY <2>1 DEF ServiceTypeOK, DriverEvent
    <2>3. held # <<>> => Last(held).at < e.at
      <3> SUFFICES ASSUME held # <<>>  PROVE Last(held).at < e.at
        OBVIOUS
      <3>1. Last(held) \in DriverEvent
        BY <2>2 DEF Last
      <3>2. Last(held).at \in Int
        BY <3>1, ObservedFacts
      <3> QED
        BY <1>6, <2>1, <3>2 DEF Refused, DriverEvent
    <2>4. Grown(e) \in Seq(DriverEvent) /\ Grown(e) # <<>> /\ Len(Grown(e)) \in Nat
      BY <2>1, <2>2, AppendProperties DEF Grown
    <2>5. CASE AddPanicked(e) /\ Finish(r, "panicked")
      BY <1>1, <1>4, <2>1, <2>2, <2>3, <2>4, <2>5, MoveFacts DEF AddPanicked, Keep
    <2>6. CASE AddBuffered(e) /\ Goto(r, "flushing")
      BY <1>1, <1>4, <2>1, <2>2, <2>3, <2>4, <2>6, MoveFacts DEF AddBuffered, Keep
    <2>7. CASE AddEmitted(e) /\ Become(r, [requests[r] EXCEPT !.pc = "matching", !.trace = Grown(e)])
      <3>1. /\ Become(r, Bears(requests[r], "matching", Grown(e)))
            /\ Bears(requests[r], "matching", Grown(e)) = Moved(requests[r], "matching", Grown(e), requests[r].work)
        <4>1. Become(r, Bears(requests[r], "matching", Grown(e)))
          BY <2>7 DEF Bears
        <4> QED
          BY <1>3, <4>1, RequestFacts
      <3>2. config.overlapPoints \in Nat
        BY ConfigAssumption DEF ServiceTypeOK, Validate
      <3>3. Moved(requests[r], "matching", Grown(e), requests[r].work) \in Request
        BY <1>3, <1>4, <2>4, MoveFacts
      <3>4. Moves(r, Moved(requests[r], "matching", Grown(e), requests[r].work))
        BY <3>1, <3>3, MoveFacts
      <3> QED
        BY <1>1, <2>1, <2>2, <2>3, <2>4, <2>7, <3>2, <3>4 DEF AddEmitted, Keep
    <2> QED
      BY <1>6, <2>5, <2>6, <2>7 DEF BufferAdd, AddRefused
  <1> QED
    BY <1>5, <1>6

(* Match gives up the trace, or makes one observation of every point.      *)
LEMMA MatchFacts ==
  ASSUME ServiceTypeOK, NEW r \in Req, MatchFails(r) \/ MatchSucceeds(r)
  PROVE  /\ At(r, "matching")
         /\ UNCHANGED <<bufferVars, processorVars, clock, clients, historyVars>>
         /\ \/ Moves(r, Ended("unmatched"))
            \/ \E work \in Seq(Observed) :
                 /\ Moves(r, Moved(requests[r], "adding", requests[r].trace, work))
                 /\ work # <<>> /\ Len(work) = Len(requests[r].trace)
                 /\ \A i \in 1..Len(work) : PointOf(work[i]) = PointOf(requests[r].trace[i])
  <1>1. CASE MatchFails(r)
    BY <1>1, MoveFacts DEF MatchFails, Finished, Answered
  <1>2. CASE MatchSucceeds(r)
    <2> DEFINE points == requests[r].trace
    <2>1. requests[r] \in Request /\ points \in Seq(DriverEvent)
      BY MoveFacts DEF Request
    <2>2. PICK answers \in [DOMAIN points -> {a \in Answer : ~AnswerRefused(a)}] :
            Become(r, [requests[r] EXCEPT !.pc = "adding",
                         !.work = [i \in DOMAIN points |-> Observe(points[i], answers[i])]])
      BY <1>2 DEF MatchSucceeds
    <2> DEFINE work == [i \in DOMAIN points |-> Observe(points[i], answers[i])]
    <2>3. DOMAIN points = 1..Len(points) /\ Len(points) \in Nat /\ \A i \in 1..Len(points) : points[i] \in DriverEvent
      BY <2>1
    <2>4. \A i \in 1..Len(points) : answers[i] \in Answer
      BY <2>2, <2>3
    <2>5. \A i \in 1..Len(points) :
            Observe(points[i], answers[i]) \in Observed /\ PointOf(Observe(points[i], answers[i])) = PointOf(points[i])
      BY <2>3, <2>4, ObservedFacts
    <2>6. work \in Seq(Observed) /\ Len(work) = Len(points) /\ work # <<>>
      <3>1. work \in [1..Len(points) -> Observed]
        BY <2>3, <2>5
      <3>2. points # <<>>
        BY <1>2, MoveFacts DEF MatchSucceeds, At, Sound, Bearing
      <3> QED
        BY <2>1, <2>3, <3>1, <3>2
    <2>7. \A i \in 1..Len(work) : PointOf(work[i]) = PointOf(points[i])
      BY <2>3, <2>5, <2>6
    <2>8. Become(r, Begins(requests[r], "adding", work))
      BY <2>2 DEF Begins
    <2> HIDE DEF work
    <2>9. Become(r, Moved(requests[r], "adding", points, work))
      <3>1. Begins(requests[r], "adding", work) = Moved(requests[r], "adding", points, work)
        BY <2>1, RequestFacts
      <3> QED
        BY <2>8, <3>1
    <2>10. Moves(r, Moved(requests[r], "adding", points, work))
      BY <2>1, <2>6, <2>9, MoveFacts DEF Place, Bearing
    <2> QED
      BY <1>2, <2>6, <2>7, <2>10 DEF MatchSucceeds
  <1> QED
    BY <1>1, <1>2

(* What an addition leaves to be done.                                     *)
LEMMA WorkFacts ==
  ASSUME ServiceTypeOK, NEW r \in Req, At(r, "adding")
  PROVE  LET work == requests[r].work
         IN  /\ work \in Seq(Observed) /\ work # <<>>
             /\ Head(work) \in Observed /\ Head(work) = work[1]
             /\ Tail(work) \in Seq(Observed) /\ Len(Tail(work)) = Len(work) - 1
             /\ \A i \in 1..Len(Tail(work)) : Tail(work)[i] = work[i + 1]
  <1>1. requests[r].work \in Seq(Observed) /\ requests[r].work # <<>>
    BY MoveFacts DEF Request, At, Sound, Bearing
  <1> QED
    BY <1>1, HeadTailProperties

(* processor.Add and what it means for the request and for the histories.  *)
LEMMA AddFacts ==
  ASSUME ServiceTypeOK, NEW r \in Req, ProcessorRejects(r) \/ ProcessorTakes(r)
  PROVE  LET o == Head(requests[r].work)
             rest == Tail(requests[r].work)
             next == IF rest = <<>> THEN "flushing" ELSE "adding"
         IN  /\ At(r, "adding")
             /\ UNCHANGED <<bufferVars, clock, clients, reported>>
             /\ \/ /\ Moves(r, Ended("older")) /\ Older(o)
                   /\ UNCHANGED <<driverStates, noted, taken>>
                \/ /\ Moves(r, Ended("invalid"))
                   /\ UNCHANGED <<driverStates, noted, taken>>
                \/ /\ Moves(r, Moved(requests[r], next, requests[r].trace, rest))
                   /\ ProcessorTakes(r) /\ ~Older(o)
                   /\ \/ Repeated(o) /\ UNCHANGED <<driverStates, noted, taken>>
                      \/ /\ ~Repeated(o) /\ Remember(o)
                         /\ noted' = noted \cup {PointOf(o)}
                         /\ taken' = taken \/ taken' = Append(taken, SampleOf(o))
  <1> DEFINE o == Head(requests[r].work)
             rest == Tail(requests[r].work)
             next == IF rest = <<>> THEN "flushing" ELSE "adding"
  <1>1. At(r, "adding") /\ UNCHANGED <<bufferVars, clock, clients, reported>>
    BY DEF ProcessorRejects, ProcessorTakes, historyVars
  <1>2. CASE ProcessorRejects(r)
    <2>1. UNCHANGED <<driverStates, noted, taken>>
      BY <1>2 DEF ProcessorRejects, AddRecordError, AddStateError, processorVars, historyVars
    <2>2. (Older(o) /\ Finish(r, "older")) \/ Finish(r, "invalid")
      BY <1>2 DEF ProcessorRejects
    <2> QED
      BY <1>1, <2>1, <2>2, MoveFacts DEF Finished, Answered
  <1>3. CASE ProcessorTakes(r)
    <2>1. ~Older(o)
      BY <1>3 DEF ProcessorTakes, AddRepeated, AddNoted, AddAggregated, AddFails, StateRefuses
    <2>2. \/ Repeated(o) /\ UNCHANGED <<driverStates, noted, taken>>
          \/ /\ ~Repeated(o) /\ Remember(o)
             /\ noted' = noted \cup {PointOf(o)}
             /\ taken' = taken \/ taken' = Append(taken, SampleOf(o))
      BY <1>3 DEF ProcessorTakes, AddRepeated, AddNoted, AddAggregated, PointOf
    <2>3. Become(r, [requests[r] EXCEPT !.work = rest, !.pc = next])
      BY <1>1, <1>3, MoveFacts DEF ProcessorTakes, At, Request
    <2>4. Become(r, Moved(requests[r], next, requests[r].trace, rest))
      <3>1. Become(r, Continues(requests[r], next, rest))
        BY <2>3 DEF Continues
      <3>2. Continues(requests[r], next, rest) = Moved(requests[r], next, requests[r].trace, rest)
        BY MoveFacts, RequestFacts
      <3> QED
        BY <3>1, <3>2
    <2>5. Moved(requests[r], next, requests[r].trace, rest) \in Request
      <3>1. next \in Place
        BY DEF Place, Bearing
      <3>2. requests[r].trace \in Seq(DriverEvent)
        BY MoveFacts DEF Request
      <3> QED
        BY <1>1, <3>1, <3>2, MoveFacts, WorkFacts
    <2>6. Moves(r, Moved(requests[r], next, requests[r].trace, rest))
      BY <2>4, <2>5, MoveFacts
    <2> QED
      BY <1>1, <1>3, <2>1, <2>2, <2>6
  <1> QED
    BY <1>2, <1>3

(* processor.Flush ends the request and leaves the drivers' states alone.  *)
LEMMA FlushFacts ==
  ASSUME ServiceTypeOK, NEW r \in Req, Flush(r)
  PROVE  /\ At(r, "flushing")
         /\ UNCHANGED <<bufferVars, driverStates, clock, clients, noted, taken>>
         /\ \E answer \in {"ok", "uncalculated"} : Moves(r, Ended(answer))
  <1>1. /\ At(r, "flushing")
        /\ UNCHANGED <<bufferVars, driverStates, clock, clients, noted, taken>>
        /\ Finish(r, "ok") \/ Finish(r, "uncalculated")
    BY DEF Flush, FlushDone
  <1> QED
    BY <1>1, MoveFacts DEF Finished, Answered

(* The end of the process ends the requests in flight, and only those.     *)
LEMMA CutFacts ==
  ASSUME ServiceTypeOK, Cut
  PROVE  /\ requests' \in [Req -> Request]
         /\ \A r \in Req : requests'[r] = IF r \in InFlight THEN Ended("cut") ELSE requests[r]
         /\ InFlight' = {} /\ ~opened'
         /\ UNCHANGED <<bufferVars, driverStates, clock, clients, noted, taken>>
  <1>1. /\ \A r \in Req : requests'[r] = IF r \in InFlight THEN Ended("cut") ELSE requests[r]
        /\ DOMAIN requests' = Req /\ requests' = [r \in Req |-> requests'[r]]
    BY DEF Cut, Idle, Ended
  <1>2. Ended("cut") \in Request
    <2>1. <<>> \in Seq(DriverEvent) /\ <<>> \in Seq(Observed) /\ 0 \in Reading
      BY EmptySeq DEF Reading
    <2> QED
      BY <2>1 DEF Ended, Request, Place, Finished
  <1>3. requests' \in [Req -> Request]
    <2>1. \A r \in Req : requests'[r] \in Request
      BY <1>1, <1>2, MoveFacts
    <2> QED
      BY <1>1, <2>1
  <1>4. InFlight' = {}
    <2> SUFFICES ASSUME NEW r \in Req, requests'[r].pc \notin Finished \cup {"idle"}  PROVE FALSE
      BY DEF InFlight
    <2>1. CASE r \in InFlight
      BY <1>1, <2>1 DEF Ended, Finished
    <2>2. CASE r \notin InFlight
      BY <1>1, <2>2 DEF InFlight
    <2> QED
      BY <2>1, <2>2
  <1> QED
    BY <1>1, <1>3, <1>4 DEF Cut, processorVars, historyVars

(* A new process begins with nothing in its buffer or processor.           *)
LEMMA StartFacts ==
  ASSUME ServiceTypeOK, Start
  PROVE  /\ InFlight = {}
         /\ pointsByDriver' = [d \in Driver |-> <<>>]
         /\ DOMAIN driverStates' = {}
         /\ noted' = {} /\ taken' = <<>>
         /\ UNCHANGED <<config, requests, clock, clients>>
         /\ server' # "stopped"
  BY DEF Start, ServiceTypeOK

(* What one request's step does to the set of those in flight.             *)
LEMMA InFlightFacts ==
  ASSUME NEW r \in Req, NEW q, Moves(r, q)
  PROVE  /\ \A x \in InFlight' : x = r \/ x \in InFlight
         /\ r \in InFlight' <=> q.pc \notin Finished \cup {"idle"}
  BY DEF Moves, InFlight

-----------------------------------------------------------------------------
(* Whatever the bodies, the matcher and the crashes, every variable keeps  *)
(* its type, and the process is never down with a request in flight.       *)
THEOREM TypeCorrect == ServiceSpec => []ServiceTypeOK
  <1>1. ServiceInit => ServiceTypeOK
    <2> SUFFICES ASSUME ServiceInit  PROVE ServiceTypeOK
      OBVIOUS
    <2>1. <<>> \in Seq(DriverEvent) /\ <<>> \in Seq(Observed) /\ <<>> \in Seq(Counted)
      BY EmptySeq
    <2>2. requests \in [Req -> Request]
      <3>1. Idle \in Request
        BY <2>1 DEF Idle, Request, Place, Reading
      <3> QED
        BY <3>1 DEF ServiceInit, Init
    <2>3. InFlight = {} /\ \A r \in Req : Sound(requests[r])
      BY DEF ServiceInit, Init, InFlight, Idle, Sound, Bearing
    <2>4. pointsByDriver \in [Driver -> Seq(DriverEvent)] /\ config \in {c \in Config : Validate(c)}
      BY <2>1 DEF ServiceInit, Init, NewBuffer
    <2>5. DOMAIN driverStates = {}
      BY DEF ServiceInit, Init, NewProcessor, NewDriverStateBuffer
    <2>6. clock \in Reading /\ noted = {} /\ taken = <<>> /\ server # "stopped"
      BY DEF ServiceInit, Init, Reading
    <2> QED
      BY <2>1, <2>2, <2>3, <2>4, <2>5, <2>6 DEF ServiceTypeOK
  <1>2. ServiceTypeOK /\ [ServiceNext]_serviceVars => ServiceTypeOK'
    <2> SUFFICES ASSUME ServiceTypeOK, [ServiceNext]_serviceVars  PROVE ServiceTypeOK'
      OBVIOUS
    <2> USE DEF ServiceTypeOK
    <2>1. ASSUME UNCHANGED <<bufferVars, driverStates, requests, noted, taken>>, clock' \in Reading,
                 server' = "stopped" => InFlight = {} /\ ~opened'
          PROVE  ServiceTypeOK'
      BY <2>1 DEF bufferVars, InFlight
    <2>2. ASSUME NEW r \in Req, NEW e \in Event, Receive(r, e), server' # "stopped"  PROVE ServiceTypeOK'
      <3>1. Moves(r, Received(e)) /\ Received(e).event = e /\ UNCHANGED <<bufferVars, driverStates, clock, noted, taken>>
        BY <2>2, ReceiveFacts DEF processorVars, historyVars
      <3>2. Sound(Received(e))
        BY <2>2, ReceiveFacts DEF Sound
      <3> QED
        BY <2>2, <3>1, <3>2 DEF Moves, bufferVars
    <2>3. ASSUME NEW r \in Req, Step(r), UNCHANGED <<server, opened>>  PROVE ServiceTypeOK'
      <3> DEFINE Follows == \E q \in Request : Moves(r, q) /\ Sound(q)
                 Kept == /\ pointsByDriver' \in [Driver -> Seq(DriverEvent)]
                         /\ DOMAIN driverStates' \subseteq Driver
                         /\ \A d \in DOMAIN driverStates' : driverStates'[d] \in Int
                         /\ noted' \subseteq [driver : Driver, at : Int]
                         /\ taken' \in Seq(Counted)
      <3>0. /\ \A answer \in Finished : Moves(r, Ended(answer)) => Follows
            /\ {"refused", "panicked", "unmatched", "older", "invalid", "ok", "uncalculated"} \subseteq Finished
        <4>1. \A q : Moves(r, q) => q \in Request
          BY DEF Moves
        <4>2. \A answer \in Finished : Sound(Ended(answer))
          BY DEF Ended, Sound, Bearing, Finished, Answered
        <4> QED
          BY <4>1, <4>2 DEF Finished, Answered
      <3>9. ASSUME requests[r].event \in Event, NEW pc, NEW trace, NEW work,
                    pc = "matching" => trace # <<>>, pc = "adding" => work # <<>>,
                    Moves(r, Moved(requests[r], pc, trace, work))
             PROVE  Follows
        BY <3>9 DEF Moves, Moved, Sound
      <3>1. r \in InFlight /\ UNCHANGED <<config, clock>> /\ Kept /\ Follows
        <4> HIDE DEF Follows
        <4>0. \A label \in {"received"} \cup Bearing : At(r, label) => r \in InFlight
          BY DEF At, InFlight, Bearing, Finished, Answered
        <4>1. CASE BufferAdd(r)
          <5>1. At(r, "received") /\ UNCHANGED <<config, clock, driverStates, noted, taken>>
            BY <4>1, BufferAddFacts DEF processorVars, historyVars
          <5>2. pointsByDriver' \in [Driver -> Seq(DriverEvent)]
            <6> DEFINE e == requests[r].event
            <6>1. CASE UNCHANGED pointsByDriver
              BY <6>1
            <6>2. CASE e \in DriverEvent /\ Grown(e) \in Seq(DriverEvent)
                       /\ pointsByDriver' = [pointsByDriver EXCEPT ![e.driver] = Grown(e)]
              BY <6>2
            <6>3. CASE /\ e \in DriverEvent /\ Grown(e) \in Seq(DriverEvent)
                       /\ config.overlapPoints \in 0..Len(Grown(e))
                       /\ pointsByDriver' = [pointsByDriver EXCEPT ![e.driver] = Overlap(Grown(e))]
              <7>1. Overlap(Grown(e)) \in Seq(DriverEvent)
                BY <6>3, SuffixFacts DEF Overlap
              <7> QED
                BY <6>3, <7>1
            <6> QED
              BY <4>1, <6>1, <6>2, <6>3, BufferAddFacts
          <5>3. Follows
            <6>1. requests[r].event \in Event
              BY <5>1 DEF At, Sound
            <6> QED
              BY <3>0, <3>9, <4>1, <6>1, BufferAddFacts
          <5> QED
            BY <4>0, <5>1, <5>2, <5>3
        <4>2. CASE MatchFails(r) \/ MatchSucceeds(r)
          <5>1. At(r, "matching") /\ UNCHANGED <<bufferVars, clock, driverStates, noted, taken>>
            BY <4>2, MatchFacts DEF processorVars, historyVars
          <5>2. Follows
            <6>1. requests[r].event \in Event
              BY <5>1 DEF At, Sound, Bearing
            <6> QED
              BY <3>0, <3>9, <4>2, <6>1, MatchFacts
          <5> QED
            BY <4>0, <5>1, <5>2 DEF bufferVars, Bearing
        <4>3. CASE ProcessorRejects(r) \/ ProcessorTakes(r)
          <5> DEFINE o == Head(requests[r].work)
          <5>1. At(r, "adding") /\ UNCHANGED <<bufferVars, clock>>
            BY <4>3, AddFacts
          <5>2. Follows
            <6> DEFINE rest == Tail(requests[r].work)
                       next == IF rest = <<>> THEN "flushing" ELSE "adding"
            <6>1. requests[r].event \in Event
              BY <5>1 DEF At, Sound, Bearing
            <6>2. next # "matching" /\ (next = "adding" => rest # <<>>)
              OBVIOUS
            <6>3. \/ Moves(r, Ended("older")) \/ Moves(r, Ended("invalid"))
                  \/ Moves(r, Moved(requests[r], next, requests[r].trace, rest))
              BY <4>3, AddFacts
            <6> HIDE DEF next, rest
            <6> QED
              BY <3>0, <3>9, <6>1, <6>2, <6>3
          <5>3. o \in Observed /\ o.driver \in Driver /\ o.at \in Int /\ SampleOf(o) \in Counted
            BY <5>1, WorkFacts, ObservedFacts
          <5>4. \/ UNCHANGED <<driverStates, noted, taken>>
                \/ /\ Remember(o) /\ noted' = noted \cup {PointOf(o)}
                   /\ taken' = taken \/ taken' = Append(taken, SampleOf(o))
            BY <4>3, AddFacts
          <5>5. Kept
            <6>1. pointsByDriver' \in [Driver -> Seq(DriverEvent)]
              BY <5>1 DEF bufferVars
            <6>4. taken' \in Seq(Counted)
              <7>1. taken \in Seq(Counted)
                OBVIOUS
              <7>2. \A s \in Counted : Append(taken, s) \in Seq(Counted)
                BY <7>1, AppendProperties
              <7> QED
                BY <5>3, <5>4, <7>1, <7>2
            <6>2. noted' \subseteq [driver : Driver, at : Int]
              BY <5>3, <5>4 DEF PointOf
            <6>3. DOMAIN driverStates' \subseteq Driver /\ \A d \in DOMAIN driverStates' : driverStates'[d] \in Int
              BY <5>3, <5>4 DEF Remember
            <6> QED
              BY <6>1, <6>2, <6>3, <6>4
          <5> QED
            BY <4>0, <5>1, <5>2, <5>5 DEF bufferVars, Bearing
        <4>4. CASE Flush(r)
          <5>1. At(r, "flushing") /\ UNCHANGED <<bufferVars, clock, driverStates, noted, taken>>
            BY <4>4, FlushFacts
          <5>2. Follows
            BY <3>0, <4>4, FlushFacts
          <5> QED
            BY <4>0, <5>1, <5>2 DEF bufferVars, Bearing
        <4> QED
          BY <2>3, <4>1, <4>2, <4>3, <4>4 DEF Step
      <3>3. requests' \in [Req -> Request] /\ \A x \in Req : Sound(requests'[x])
        BY <3>1 DEF Moves
      <3>4. server' # "stopped"
        BY <2>3, <3>1
      <3> QED
        BY <3>1, <3>3, <3>4
    <2>4. CASE Cut
      <3>1. Sound(Ended("cut"))
        BY DEF Sound, Ended, Bearing
      <3>2. \A r \in Req : Sound(requests'[r])
        BY <2>4, <3>1, CutFacts
      <3> QED
        BY <2>4, <3>2, CutFacts DEF bufferVars
    <2>5. CASE Start
      <3>1. /\ pointsByDriver' \in [Driver -> Seq(DriverEvent)] /\ taken' \in Seq(Counted)
        BY <2>5, StartFacts, EmptySeq
      <3> QED
        BY <2>5, <3>1, StartFacts DEF InFlight
    <2>6. CASE UNCHANGED serviceVars
      BY <2>1, <2>6 DEF serviceVars, pipelineVars, processorVars, historyVars, lifeVars, clientVars
    <2>7. CASE ServiceNext
      BY <2>1, <2>2, <2>3, <2>4, <2>5, <2>7, ServiceSteps DEF processorVars, historyVars
    <2> QED
      BY <2>6, <2>7
  <1> QED
    BY <1>1, <1>2, PTL DEF ServiceSpec

-----------------------------------------------------------------------------
(* What any step does to the processor's memory of the drivers: nothing,   *)
(* one newer observation of one driver, or a fresh start.                  *)
LEMMA MemorySteps ==
  ASSUME ServiceTypeOK, [ServiceNext]_serviceVars
  PROVE  \/ UNCHANGED <<driverStates, noted, taken>>
         \/ \E r \in Req : \E o \in Observed :
              /\ At(r, "adding") /\ o = Head(requests[r].work)
              /\ ProcessorTakes(r)
              /\ ~Older(o) /\ ~Repeated(o) /\ Remember(o)
              /\ noted' = noted \cup {PointOf(o)}
              /\ taken' = taken \/ taken' = Append(taken, SampleOf(o))
         \/ DOMAIN driverStates' = {} /\ noted' = {} /\ taken' = <<>>
  <1>1. CASE UNCHANGED serviceVars
    BY <1>1 DEF serviceVars, pipelineVars, processorVars, historyVars
  <1>2. ASSUME NEW r \in Req, NEW e \in Event, Receive(r, e)  PROVE UNCHANGED <<driverStates, noted, taken>>
    BY <1>2, ReceiveFacts DEF processorVars, historyVars
  <1>3. ASSUME NEW r \in Req, BufferAdd(r) \/ MatchFails(r) \/ MatchSucceeds(r) \/ Flush(r)
        PROVE  UNCHANGED <<driverStates, noted, taken>>
    BY <1>3, BufferAddFacts, MatchFacts, FlushFacts DEF processorVars, historyVars
  <1>4. ASSUME NEW r \in Req, ProcessorRejects(r)
        PROVE  UNCHANGED <<driverStates, noted, taken>>
    BY <1>4 DEF ProcessorRejects, AddRecordError, AddStateError, processorVars, historyVars
  <1>5. ASSUME NEW r \in Req, ProcessorTakes(r),
               ~ UNCHANGED <<driverStates, noted, taken>>
        PROVE  \E o \in Observed :
                 /\ At(r, "adding") /\ o = Head(requests[r].work)
                 /\ ~Older(o) /\ ~Repeated(o) /\ Remember(o)
                 /\ noted' = noted \cup {PointOf(o)}
                 /\ taken' = taken \/ taken' = Append(taken, SampleOf(o))
    <2>1. At(r, "adding")
      BY <1>5 DEF ProcessorTakes
    <2>2. Head(requests[r].work) \in Observed
      BY <2>1, WorkFacts
    <2> WITNESS Head(requests[r].work) \in Observed
    <2> QED
      BY <1>5, <2>1 DEF ProcessorTakes, AddRepeated, AddNoted, AddAggregated, AddFails, StateRefuses, PointOf
  <1>6. CASE Cut
    BY <1>6, CutFacts
  <1>7. CASE Start
    BY <1>7, StartFacts
  <1>8. CASE ServiceNext
    BY <1>2, <1>3, <1>4, <1>5, <1>6, <1>7, <1>8, ServiceSteps DEF Step, processorVars, historyVars
  <1> QED
    BY <1>1, <1>8

(* What the processor remembers of a driver is the newest point noted of   *)
(* that driver, and no older than anything counted.                        *)
MemoryIsNewest ==
  /\ \A d \in DOMAIN driverStates : [driver |-> d, at |-> driverStates[d]] \in noted
  /\ \A n \in noted : n.driver \in DOMAIN driverStates /\ n.at <= driverStates[n.driver]
  /\ \A i \in DOMAIN taken : PointOf(taken[i]) \in noted

(* Nothing that was noted or counted is newer than the driver's state; the *)
(* state is itself a point that was noted.                                 *)
LEMMA MemoryStep ==
  ASSUME ServiceTypeOK, MemoryIsNewest, [ServiceNext]_serviceVars
  PROVE  MemoryIsNewest'
  <1>1. CASE UNCHANGED <<driverStates, noted, taken>>
    BY <1>1 DEF MemoryIsNewest, PointOf
  <1>2. CASE DOMAIN driverStates' = {} /\ noted' = {} /\ taken' = <<>>
    BY <1>2 DEF MemoryIsNewest
  <1>3. ASSUME NEW o \in Observed, ~Older(o), ~Repeated(o), Remember(o), noted' = noted \cup {PointOf(o)},
               taken' = taken \/ taken' = Append(taken, SampleOf(o))
        PROVE  MemoryIsNewest'
    <2>1. o.driver \in Driver /\ o.at \in Int
      BY ObservedFacts
    <2>2. o.driver \in DOMAIN driverStates => driverStates[o.driver] < o.at
      BY <1>3, <2>1 DEF Older, Repeated, Known, ServiceTypeOK
    <2>6. /\ DOMAIN driverStates' = DOMAIN driverStates \cup {o.driver}
          /\ driverStates'[o.driver] = o.at
          /\ \A d \in DOMAIN driverStates \ {o.driver} : driverStates'[d] = driverStates[d]
      BY <1>3, RememberFacts
    <2>3. ASSUME NEW d \in DOMAIN driverStates'  PROVE [driver |-> d, at |-> driverStates'[d]] \in noted'
      <3>1. CASE d = o.driver
        BY <1>3, <2>6, <3>1 DEF PointOf
      <3>2. CASE d # o.driver
        <4>1. d \in DOMAIN driverStates /\ driverStates'[d] = driverStates[d]
          BY <2>3, <2>6, <3>2
        <4> QED
          BY <1>3, <4>1 DEF MemoryIsNewest
      <3> QED
        BY <3>1, <3>2
    <2>4. ASSUME NEW n \in noted'  PROVE n.driver \in DOMAIN driverStates' /\ n.at <= driverStates'[n.driver]
      <3>1. CASE n = PointOf(o)
        BY <2>1, <2>6, <3>1 DEF PointOf
      <3>2. CASE n \in noted
        <4>1. n.driver \in DOMAIN driverStates /\ n.at <= driverStates[n.driver] /\ n.at \in Int
          BY <3>2 DEF MemoryIsNewest, ServiceTypeOK
        <4>2. driverStates[n.driver] \in Int
          BY <4>1 DEF ServiceTypeOK
        <4>3. CASE n.driver = o.driver
          BY <2>1, <2>2, <2>6, <4>1, <4>2, <4>3
        <4>4. CASE n.driver # o.driver
          BY <2>6, <4>1, <4>4
        <4> QED
          BY <4>3, <4>4
      <3> QED
        BY <1>3, <2>4, <3>1, <3>2
    <2>5. ASSUME NEW i \in DOMAIN taken'  PROVE PointOf(taken'[i]) \in noted'
      <3>1. PointOf(SampleOf(o)) = PointOf(o) /\ SampleOf(o) \in Counted
        BY ObservedFacts DEF PointOf
      <3>2. taken \in Seq(Counted)
        BY DEF ServiceTypeOK
      <3>3. CASE taken' = taken
        BY <1>3, <2>5, <3>3 DEF MemoryIsNewest
      <3>4. CASE taken' = Append(taken, SampleOf(o))
        <4>1. /\ i \in 1..(Len(taken) + 1)
              /\ \A j \in 1..Len(taken) : taken'[j] = taken[j]
              /\ taken'[Len(taken) + 1] = SampleOf(o)
          BY <2>5, <3>1, <3>2, <3>4
        <4>2. CASE i \in 1..Len(taken)
          BY <1>3, <3>2, <4>1, <4>2 DEF MemoryIsNewest
        <4>3. CASE i = Len(taken) + 1
          BY <1>3, <3>1, <4>1, <4>3
        <4> QED
          BY <3>2, <4>1, <4>2, <4>3
      <3> QED
        BY <1>3, <3>3, <3>4
    <2> QED
      BY <2>3, <2>4, <2>5 DEF MemoryIsNewest
  <1> QED
    BY <1>1, <1>2, <1>3, MemorySteps

(* Whatever the number of requests, however their traces overlap and their *)
(* steps interleave, a driver's points are counted in rising time order.   *)
THEOREM PointsCountedInOrder == ServiceSpec => []CountedInOrder
  <1>1. ServiceInit => MemoryIsNewest /\ CountedInOrder
    BY DEF ServiceInit, Init, NewProcessor, NewDriverStateBuffer, MemoryIsNewest, CountedInOrder
  <1>2. ServiceTypeOK /\ MemoryIsNewest /\ [ServiceNext]_serviceVars => MemoryIsNewest'
    BY MemoryStep
  <1>3. ServiceTypeOK /\ MemoryIsNewest /\ CountedInOrder /\ [ServiceNext]_serviceVars => CountedInOrder'
    <2> SUFFICES ASSUME ServiceTypeOK, MemoryIsNewest, CountedInOrder, [ServiceNext]_serviceVars
                 PROVE  CountedInOrder'
      OBVIOUS
    <2>1. CASE taken' = taken \/ taken' = <<>>
      BY <2>1 DEF CountedInOrder
    <2>2. ASSUME NEW o \in Observed, ~Older(o), ~Repeated(o), taken' = Append(taken, SampleOf(o))
          PROVE  CountedInOrder'
      <3> DEFINE n == Len(taken)
      <3>1. /\ SampleOf(o) \in Counted /\ SampleOf(o).driver = o.driver /\ SampleOf(o).at = o.at
            /\ o.driver \in Driver /\ o.at \in Int
        BY ObservedFacts
      <3>2. /\ n \in Nat /\ DOMAIN taken = 1..n /\ DOMAIN taken' = 1..(n + 1)
            /\ \A i \in 1..n : taken'[i] = taken[i]
            /\ taken'[n + 1] = SampleOf(o)
        BY <2>2, <3>1 DEF ServiceTypeOK
      <3>3. ASSUME NEW i \in 1..n, taken[i].driver = o.driver  PROVE taken[i].at < o.at
        <4>1. PointOf(taken[i]) \in noted
          BY <3>2 DEF MemoryIsNewest
        <4>2. /\ taken[i].driver \in DOMAIN driverStates
              /\ taken[i].at <= driverStates[taken[i].driver]
          BY <4>1 DEF MemoryIsNewest, PointOf
        <4>3. taken[i].at \in Int /\ driverStates[taken[i].driver] \in Int
          <5>1. taken[i] \in Counted
            BY <3>2 DEF ServiceTypeOK
          <5> QED
            BY <4>2, <5>1, ObservedFacts DEF ServiceTypeOK
        <4> QED
          BY <2>2, <3>1, <3>3, <4>2, <4>3 DEF Older, Repeated, Known
      <3>4. ASSUME NEW i \in 1..(n + 1), NEW j \in 1..(n + 1), i < j, taken'[i].driver = taken'[j].driver
            PROVE  taken'[i].at < taken'[j].at
        <4>1. i \in 1..n
          BY <3>2, <3>4
        <4>2. CASE j \in 1..n
          BY <3>2, <3>4, <4>1, <4>2 DEF CountedInOrder
        <4>3. CASE j = n + 1
          BY <3>1, <3>2, <3>3, <3>4, <4>1, <4>3
        <4> QED
          BY <3>2, <4>2, <4>3
      <3> QED
        BY <3>2, <3>4 DEF CountedInOrder
    <2> QED
      BY <2>1, <2>2, MemorySteps
  <1> QED
    BY <1>1, <1>2, <1>3, TypeCorrect, PTL DEF ServiceSpec

-----------------------------------------------------------------------------
(* How far a request has come with its trace: what it has added is noted,  *)
(* and what it has not is the rest of its trace.                           *)
Fits(q, points) ==
  /\ q.pc = "received" => q.trace = <<>>
  /\ q.pc = "adding" =>
       /\ Len(q.work) <= Len(q.trace)
       /\ \A i \in 1..(Len(q.trace) - Len(q.work)) : PointOf(q.trace[i]) \in points
       /\ \A i \in 1..Len(q.work) : PointOf(q.work[i]) = PointOf(q.trace[Len(q.trace) - Len(q.work) + i])
  /\ q.pc = "flushing" => \A i \in 1..Len(q.trace) : PointOf(q.trace[i]) \in points

RequestsFit == \A r \in Req : Fits(requests[r], noted)

(* An addition that is not an error leaves its point noted.                *)
LEMMA AddLeavesNoted ==
  ASSUME ServiceTypeOK, MemoryIsNewest, NEW r \in Req, ProcessorTakes(r)
  PROVE  PointOf(Head(requests[r].work)) \in noted'
  <1> DEFINE o == Head(requests[r].work)
  <1>1. CASE Repeated(o) /\ UNCHANGED noted
    <2>1. o.driver \in DOMAIN driverStates /\ driverStates[o.driver] = o.at
      BY <1>1 DEF Repeated, Known
    <2>2. [driver |-> o.driver, at |-> driverStates[o.driver]] \in noted
      BY <2>1 DEF MemoryIsNewest
    <2> QED
      BY <1>1, <2>1, <2>2 DEF PointOf
  <1>2. CASE noted' = noted \cup {PointOf(o)}
    BY <1>2
  <1> QED
    BY <1>1, <1>2 DEF ProcessorTakes, AddRepeated, AddNoted, AddAggregated, PointOf

(* A request whose first observation has just been noted still fits when   *)
(* it goes on to the rest.                                                 *)
LEMMA FitsAdvances ==
  ASSUME NEW trace \in Seq(DriverEvent), NEW work \in Seq(Observed), work # <<>>, NEW before, NEW after,
         Len(work) <= Len(trace), before \subseteq after, PointOf(Head(work)) \in after,
         \A i \in 1..(Len(trace) - Len(work)) : PointOf(trace[i]) \in before,
         \A i \in 1..Len(work) : PointOf(work[i]) = PointOf(trace[Len(trace) - Len(work) + i]),
         NEW q, NEW pc, pc = IF Tail(work) = <<>> THEN "flushing" ELSE "adding"
  PROVE  Fits(Moved(q, pc, trace, Tail(work)), after)
  <1> DEFINE k == Len(trace) - Len(work)
             rest == Tail(work)
  <1>1. /\ Head(work) = work[1] /\ rest \in Seq(Observed) /\ Len(rest) \in Nat
        /\ Len(work) \in Nat /\ Len(trace) \in Nat /\ Len(work) = Len(rest) + 1
        /\ \A i \in 1..Len(rest) : rest[i] = work[i + 1]
    BY HeadTailProperties
  <1> HIDE DEF rest
  <1>2. k \in Nat /\ Len(trace) - Len(rest) = k + 1 /\ (rest = <<>> => Len(trace) = k + 1)
    BY <1>1
  <1>3. /\ PointOf(trace[k + 1]) \in after
        /\ \A i \in 1..k : PointOf(trace[i]) \in after
        /\ \A i \in 1..Len(work) : PointOf(work[i]) = PointOf(trace[k + i])
    BY <1>1
  <1> HIDE DEF k
  <1>8. Len(rest) <= Len(trace)
    BY <1>1, <1>2
  <1>4. \A i \in 1..(k + 1) : PointOf(trace[i]) \in after
    <2> SUFFICES ASSUME NEW i \in 1..(k + 1)  PROVE PointOf(trace[i]) \in after
      OBVIOUS
    <2>1. i = k + 1 \/ i \in 1..k
      BY <1>2
    <2> QED
      BY <1>3, <2>1
  <1>5. ASSUME NEW i \in 1..Len(rest)  PROVE PointOf(rest[i]) = PointOf(trace[k + 1 + i])
    <2>1. i \in Int /\ i + 1 \in 1..Len(work) /\ k + (i + 1) = k + 1 + i
      BY <1>1, <1>2
    <2>2. PointOf(work[i + 1]) = PointOf(trace[k + (i + 1)])
      BY <1>3, <2>1
    <2> QED
      BY <1>1, <2>1, <2>2
  <1>6. CASE rest = <<>> /\ pc = "flushing"
    BY <1>2, <1>4, <1>6 DEF Fits, Moved, rest
  <1>7. CASE rest # <<>> /\ pc = "adding"
    <2>2. \A i \in 1..(Len(trace) - Len(rest)) : PointOf(trace[i]) \in after
      BY <1>2, <1>4
    <2>3. \A i \in 1..Len(rest) : PointOf(rest[i]) = PointOf(trace[Len(trace) - Len(rest) + i])
      BY <1>2, <1>5
    <2> QED
      BY <1>7, <1>8, <2>2, <2>3 DEF Fits, Moved, rest
  <1> QED
    BY <1>6, <1>7 DEF rest

(* Every step of the service keeps the requests fit: what they have left   *)
(* to add is the end of their trace, and the rest of it is noted.          *)
LEMMA FitsStep ==
  ASSUME ServiceTypeOK, MemoryIsNewest, RequestsFit, [ServiceNext]_serviceVars
  PROVE  RequestsFit'
  <1> SUFFICES ASSUME NEW x \in Req  PROVE Fits(requests'[x], noted')
    BY DEF RequestsFit
  <1>1. Fits(requests[x], noted) /\ requests[x] \in Request
    BY MoveFacts DEF RequestsFit
  <1>2. ASSUME requests'[x] = requests[x], noted \subseteq noted'  PROVE Fits(requests'[x], noted')
    BY <1>1, <1>2 DEF Fits
  <1>3. \A answer \in Finished : Fits(Ended(answer), noted')
    BY DEF Fits, Ended, Finished, Answered
  <1>4. CASE UNCHANGED <<requests, noted>>
    BY <1>2, <1>4
  <1>5. ASSUME NEW r \in Req, NEW e \in Event, Receive(r, e)  PROVE Fits(requests'[x], noted')
    <2>1. /\ Moves(r, Received(e)) /\ UNCHANGED noted
          /\ Received(e).pc = "received" /\ Received(e).trace = <<>>
      BY <1>5, ReceiveFacts DEF historyVars
    <2>2. Fits(Received(e), noted')
      BY <2>1 DEF Fits
    <2> QED
      BY <1>2, <2>1, <2>2 DEF Moves
  <1>6. ASSUME NEW r \in Req, Step(r)  PROVE Fits(requests'[x], noted')
    <2>1. noted \subseteq noted'
      BY <1>6, BufferAddFacts, MatchFacts, AddFacts, FlushFacts DEF Step, historyVars
    <2>2. ASSUME NEW q, Moves(r, q), Fits(q, noted')  PROVE Fits(requests'[x], noted')
      BY <1>2, <2>1, <2>2 DEF Moves
    <2>3. \A answer \in Finished : Moves(r, Ended(answer)) => Fits(requests'[x], noted')
      BY <1>3, <2>2
    <2>4. {"refused", "panicked", "unmatched", "older", "invalid", "ok", "uncalculated"} \subseteq Finished
      BY DEF Finished, Answered
    <2>5. Fits(requests[r], noted)
      BY DEF RequestsFit
    <2>6. requests[r].trace \in Seq(DriverEvent) /\ requests[r].work \in Seq(Observed)
      BY MoveFacts DEF Request
    <2>7. CASE BufferAdd(r)
      <3>1. requests[r].trace = <<>>
        BY <2>5, <2>7, BufferAddFacts DEF Fits, At
      <3>2. Fits(Moved(requests[r], "flushing", requests[r].trace, requests[r].work), noted')
        BY <3>1 DEF Fits, Moved
      <3>3. \A trace : Fits(Moved(requests[r], "matching", trace, requests[r].work), noted')
        BY DEF Fits, Moved
      <3> QED
        BY <2>2, <2>3, <2>4, <2>7, <3>2, <3>3, BufferAddFacts
    <2>8. CASE MatchFails(r) \/ MatchSucceeds(r)
      <3>1. CASE Moves(r, Ended("unmatched"))
        BY <2>3, <2>4, <3>1
      <3>2. ASSUME NEW work \in Seq(Observed), Len(work) = Len(requests[r].trace),
                   \A i \in 1..Len(work) : PointOf(work[i]) = PointOf(requests[r].trace[i])
            PROVE  Fits(Moved(requests[r], "adding", requests[r].trace, work), noted')
        BY <2>6, <3>2 DEF Fits, Moved
      <3> QED
        BY <2>2, <2>8, <3>1, <3>2, MatchFacts
    <2>9. CASE ProcessorRejects(r) \/ ProcessorTakes(r)
      <3> DEFINE work == requests[r].work
                 trace == requests[r].trace
                 next == IF Tail(work) = <<>> THEN "flushing" ELSE "adding"
      <3>1. At(r, "adding") /\ work # <<>>
        BY <2>9, AddFacts, WorkFacts
      <3>2. CASE Moves(r, Ended("older")) \/ Moves(r, Ended("invalid"))
        BY <2>3, <2>4, <3>2
      <3>3. CASE Moves(r, Moved(requests[r], next, requests[r].trace, Tail(work))) /\ ProcessorTakes(r)
        <4>1. PointOf(Head(work)) \in noted'
          BY <3>3, AddLeavesNoted
        <4>2. /\ Len(work) <= Len(trace)
              /\ \A i \in 1..(Len(trace) - Len(work)) : PointOf(trace[i]) \in noted
              /\ \A i \in 1..Len(work) : PointOf(work[i]) = PointOf(trace[Len(trace) - Len(work) + i])
          BY <2>5, <3>1 DEF Fits, At
        <4>3. Fits(Moved(requests[r], next, trace, Tail(work)), noted')
          <5>1. next = IF Tail(work) = <<>> THEN "flushing" ELSE "adding"
            OBVIOUS
          <5>2. work \in Seq(Observed) /\ trace \in Seq(DriverEvent)
            BY <2>6
          <5> HIDE DEF work, trace, next
          <5> QED
            BY <2>1, <3>1, <4>1, <4>2, <5>1, <5>2, FitsAdvances
        <4> QED
          BY <2>2, <3>3, <4>3
      <3> QED
        BY <2>9, <3>2, <3>3, AddFacts
    <2>10. CASE Flush(r)
      BY <2>3, <2>4, <2>10, FlushFacts
    <2> QED
      BY <1>6, <2>7, <2>8, <2>9, <2>10 DEF Step
  <1>7. CASE Cut
    BY <1>2, <1>3, <1>7, CutFacts DEF Finished
  <1>8. CASE Start
    <2>1. x \notin InFlight /\ requests'[x] = requests[x]
      BY <1>8, StartFacts
    <2> QED
      BY <2>1 DEF Fits, InFlight, Finished, Answered
  <1>9. CASE UNCHANGED serviceVars
    BY <1>4, <1>9 DEF serviceVars, pipelineVars, historyVars
  <1>10. CASE ServiceNext
    BY <1>4, <1>5, <1>6, <1>7, <1>8, <1>10, ServiceSteps DEF historyVars
  <1> QED
    BY <1>9, <1>10

(* A request that reaches its flush has had every point of its trace       *)
(* noted, whatever the other requests did between any two of its steps.    *)
THEOREM FlushesOnlyNoted == ServiceSpec => []FlushMeansNoted
  <1>1. ServiceInit => MemoryIsNewest /\ RequestsFit
    BY DEF ServiceInit, Init, NewProcessor, NewDriverStateBuffer, MemoryIsNewest, RequestsFit, Fits, Idle
  <1>2. ServiceTypeOK /\ MemoryIsNewest /\ [ServiceNext]_serviceVars => MemoryIsNewest'
    BY MemoryStep
  <1>3. ServiceTypeOK /\ MemoryIsNewest /\ RequestsFit /\ [ServiceNext]_serviceVars => RequestsFit'
    BY FitsStep
  <1>4. ServiceTypeOK /\ RequestsFit => FlushMeansNoted
    <2> SUFFICES ASSUME ServiceTypeOK, RequestsFit, NEW r \in Req, At(r, "flushing"),
                        NEW i \in DOMAIN requests[r].trace
                 PROVE  PointOf(requests[r].trace[i]) \in noted
      BY DEF FlushMeansNoted, PointOf
    <2>1. requests[r].trace \in Seq(DriverEvent)
      BY MoveFacts DEF Request
    <2>2. i \in 1..Len(requests[r].trace)
      BY <2>1
    <2> QED
      BY <2>2 DEF RequestsFit, Fits, At
  <1> QED
    BY <1>1, <1>2, <1>3, <1>4, TypeCorrect, PTL DEF ServiceSpec

-----------------------------------------------------------------------------
(* Points of one driver in rising time order.                              *)
Rising(points) == \A i, j \in 1..Len(points) : i < j => points[i].at < points[j].at

IsOf(points, d) == \A i \in 1..Len(points) : points[i].driver = d

(* A newer point at the end of rising points.                              *)
LEMMA GrowFacts ==
  ASSUME NEW e \in DriverEvent, NEW held \in Seq(DriverEvent), Rising(held), IsOf(held, e.driver),
         held # <<>> => Last(held).at < e.at
  PROVE  LET grown == Append(held, e)
         IN  /\ grown \in Seq(DriverEvent) /\ grown # <<>> /\ Len(grown) = Len(held) + 1
             /\ Rising(grown) /\ IsOf(grown, e.driver) /\ Last(grown) = e
             /\ \A i \in 1..Len(grown) : grown[i].at <= e.at
             /\ grown[1] = IF held = <<>> THEN e ELSE held[1]
  <1> DEFINE grown == Append(held, e)
             n == Len(held)
  <1>1. /\ grown \in Seq(DriverEvent) /\ grown # <<>> /\ Len(grown) = n + 1 /\ n \in Nat
        /\ \A i \in 1..n : grown[i] = held[i] /\ held[i] \in DriverEvent
        /\ grown[n + 1] = e
    BY AppendProperties
  <1>2. Last(grown) = e
    BY AppendFacts
  <1>3. \A i \in 1..n : held[i].at \in Int
    BY <1>1, ObservedFacts
  <1>4. e.at \in Int
    BY ObservedFacts
  <1>5. ASSUME NEW i \in 1..n  PROVE grown[i].at < e.at
    <2>1. held # <<>> /\ n \in 1..n /\ Last(held) = held[n]
      BY <1>1 DEF Last
    <2>2. held[i].at <= held[n].at
      <3>1. CASE i = n
        BY <1>3, <2>1, <3>1
      <3>2. CASE i < n
        BY <1>3, <2>1, <3>2 DEF Rising
      <3> QED
        BY <1>1, <3>1, <3>2
    <2> QED
      BY <1>1, <1>3, <1>4, <2>1, <2>2
  <1> HIDE DEF grown, n
  <1>6. ASSUME NEW i \in 1..(n + 1), NEW j \in 1..(n + 1), i < j  PROVE grown[i].at < grown[j].at
    <2>1. i \in 1..n
      BY <1>1, <1>6
    <2>2. CASE j \in 1..n
      BY <1>1, <1>6, <2>1, <2>2 DEF Rising, n
    <2>3. CASE j = n + 1
      BY <1>1, <1>5, <2>1, <2>3
    <2> QED
      BY <1>1, <2>2, <2>3
  <1>7. Rising(grown)
    BY <1>1, <1>6 DEF Rising
  <1>8. ASSUME NEW i \in 1..(n + 1)  PROVE grown[i].at <= e.at /\ grown[i].driver = e.driver
    <2>1. CASE i \in 1..n
      BY <1>1, <1>3, <1>4, <1>5, <2>1 DEF IsOf, n
    <2>2. CASE i = n + 1
      BY <1>1, <1>4, <2>2
    <2> QED
      BY <1>1, <2>1, <2>2
  <1>9. grown[1] = IF held = <<>> THEN e ELSE held[1]
    <2>1. held = <<>> => n = 0
      BY DEF n
    <2>2. held # <<>> => 1 \in 1..n
      BY <1>1 DEF n
    <2> QED
      BY <1>1, <2>1, <2>2
  <1> QED
    BY <1>1, <1>2, <1>7, <1>8, <1>9 DEF IsOf, grown, n

(* The last points of rising points.                                       *)
LEMMA KeepFacts ==
  ASSUME NEW d, NEW grown \in Seq(DriverEvent), Rising(grown), IsOf(grown, d), NEW n \in 0..Len(grown)
  PROVE  LET kept == SubSeq(grown, Len(grown) - n + 1, Len(grown))
         IN  /\ kept \in Seq(DriverEvent) /\ Rising(kept) /\ IsOf(kept, d)
             /\ n > 0 => kept # <<>> /\ Last(kept) = Last(grown)
             /\ n = 1 => kept[1] = Last(grown)
  <1> DEFINE kept == SubSeq(grown, Len(grown) - n + 1, Len(grown))
             m == Len(grown)
  <1>1. /\ kept \in Seq(DriverEvent) /\ Len(kept) = n
        /\ \A i \in 1..n : kept[i] = grown[m - n + i]
    BY SuffixFacts
  <1>2. n \in Nat /\ m \in Nat /\ n <= m
    OBVIOUS
  <1>3. Last(grown) = grown[m]
    BY DEF Last
  <1> HIDE DEF kept
  <1>4. Last(kept) = kept[n]
    BY <1>1 DEF Last
  <1>5. n > 0 => kept # <<>> /\ kept[n] = grown[m]
    BY <1>1, <1>2
  <1>6. \A i \in 1..n : m - n + i \in 1..m
    BY <1>2
  <1>7. Rising(kept)
    <2> SUFFICES ASSUME NEW i \in 1..n, NEW j \in 1..n, i < j  PROVE kept[i].at < kept[j].at
      BY <1>1 DEF Rising
    <2>1. m - n + i < m - n + j
      BY <1>2
    <2> QED
      BY <1>1, <1>6, <2>1 DEF Rising
  <1>8. IsOf(kept, d)
    BY <1>1, <1>6 DEF IsOf
  <1> QED
    BY <1>1, <1>3, <1>4, <1>5, <1>7, <1>8 DEF kept

(* The buffer and the traces hold points of one driver in rising order.    *)
BuffersRise == \A d \in Driver : Rising(pointsByDriver[d]) /\ IsOf(pointsByDriver[d], d)

TraceRises(q) ==
  q.pc \in {"matching", "adding"} =>
    q.event.driver \in Driver /\ Rising(q.trace) /\ IsOf(q.trace, q.event.driver)

PointsRise == BuffersRise /\ \A r \in Req : TraceRises(requests[r])

(* What Add does, said in terms of the order of the points.                *)
LEMMA BufferSteps ==
  ASSUME ServiceTypeOK, BuffersRise, NEW r \in Req, BufferAdd(r)
  PROVE  LET q == requests[r]
             e == q.event
             held == pointsByDriver[e.driver]
             kept == pointsByDriver'[e.driver]
         IN  \/ Moves(r, Ended("refused")) /\ UNCHANGED pointsByDriver
             \/ /\ e \in DriverEvent
                /\ \A d \in Driver \ {e.driver} : pointsByDriver'[d] = pointsByDriver[d]
                /\ held \in Seq(DriverEvent) /\ kept \in Seq(DriverEvent)
                /\ held # <<>> => Last(held).at < e.at
                /\ Rising(kept) /\ IsOf(kept, e.driver)
                /\ config.overlapPoints > 0 => kept # <<>> /\ Last(kept) = e
                /\ \/ /\ Moves(r, Ended("panicked")) \/ Moves(r, Moved(q, "flushing", q.trace, q.work))
                      /\ kept # <<>> /\ kept[1] = IF held = <<>> THEN e ELSE held[1]
                   \/ \E trace \in Seq(DriverEvent) :
                        /\ Moves(r, Moved(q, "matching", trace, q.work))
                        /\ trace # <<>> /\ Rising(trace) /\ IsOf(trace, e.driver)
                        /\ \A i \in 1..Len(trace) : trace[i].at <= e.at
                        /\ trace[1] = IF held = <<>> THEN e ELSE held[1]
                        /\ config.overlapPoints = 1 => kept[1] = e
  <1> DEFINE q == requests[r]
             e == q.event
             held == pointsByDriver[e.driver]
             grown == Append(held, e)
             overlap == Overlap(Grown(e))
  <1>1. CASE Moves(r, Ended("refused")) /\ UNCHANGED pointsByDriver
    BY <1>1
  <1>2. CASE ~(Moves(r, Ended("refused")) /\ UNCHANGED pointsByDriver)
    <2>1. /\ e \in DriverEvent /\ held \in Seq(DriverEvent)
          /\ held # <<>> => Last(held).at < e.at
      BY <1>2, BufferAddFacts
    <2>2. e.driver \in Driver /\ Rising(held) /\ IsOf(held, e.driver)
      BY <2>1, ObservedFacts DEF BuffersRise
    <2>3. /\ grown \in Seq(DriverEvent) /\ grown # <<>> /\ Len(grown) \in Nat
          /\ Rising(grown) /\ IsOf(grown, e.driver) /\ Last(grown) = e
          /\ \A i \in 1..Len(grown) : grown[i].at <= e.at
          /\ grown[1] = IF held = <<>> THEN e ELSE held[1]
      <3> HIDE DEF e, held
      <3>1. \A n : n = Len(held) + 1 => n \in Nat
        BY <2>1
      <3> QED
        BY <2>1, <2>2, <3>1, GrowFacts
    <2>4. Grown(e) = grown
      BY DEF Grown
    <2>5. \A points : pointsByDriver' = [pointsByDriver EXCEPT ![e.driver] = points]
            => /\ pointsByDriver'[e.driver] = points
               /\ \A d \in Driver \ {e.driver} : pointsByDriver'[d] = pointsByDriver[d]
      BY <2>2 DEF ServiceTypeOK
    <2> HIDE DEF grown
    <2>6. CASE /\ Moves(r, Ended("panicked")) \/ Moves(r, Moved(q, "flushing", q.trace, q.work))
               /\ pointsByDriver' = [pointsByDriver EXCEPT ![e.driver] = Grown(e)]
      <3>1. pointsByDriver'[e.driver] = grown
        BY <2>4, <2>5, <2>6
      <3> QED
        BY <2>1, <2>3, <2>4, <2>5, <2>6, <3>1
    <2>7. CASE /\ Moves(r, Moved(q, "matching", Grown(e), q.work))
               /\ config.overlapPoints \in 0..Len(Grown(e))
               /\ pointsByDriver' = [pointsByDriver EXCEPT ![e.driver] = overlap]
      <3>1. /\ overlap \in Seq(DriverEvent) /\ Rising(overlap) /\ IsOf(overlap, e.driver)
            /\ config.overlapPoints > 0 => overlap # <<>> /\ Last(overlap) = e
            /\ config.overlapPoints = 1 => overlap[1] = e
        BY <2>3, <2>4, <2>7, KeepFacts DEF Overlap
      <3> HIDE DEF overlap
      <3>2. pointsByDriver'[e.driver] = overlap
        BY <2>5, <2>7
      <3> QED
        BY <2>1, <2>3, <2>4, <2>5, <2>7, <3>1, <3>2
    <2> QED
      BY <1>2, <2>6, <2>7, BufferAddFacts
  <1> QED
    BY <1>1, <1>2

(* An Add that emits: the trace that the request now bears.                *)
LEMMA EmitFacts ==
  ASSUME ServiceTypeOK, BuffersRise, NEW r \in Req, BufferAdd(r), requests'[r].pc \in {"matching", "adding"}
  PROVE  LET e == requests[r].event
             held == pointsByDriver[e.driver]
             kept == pointsByDriver'[e.driver]
             trace == requests'[r].trace
         IN  /\ e \in DriverEvent
             /\ requests'[r].pc = "matching" /\ requests'[r].event = e
             /\ trace \in Seq(DriverEvent) /\ trace # <<>>
             /\ \A i \in 1..Len(trace) : trace[i].at <= e.at
             /\ trace[1] = IF held = <<>> THEN e ELSE held[1]
             /\ config.overlapPoints > 0 => kept # <<>> /\ Last(kept) = e
             /\ config.overlapPoints = 1 => kept[1] = e
  <1> DEFINE q == requests[r]
             e == q.event
             held == pointsByDriver[e.driver]
             kept == pointsByDriver'[e.driver]
             first == IF held = <<>> THEN e ELSE held[1]
  <1>1. /\ \A answer : Ended(answer).pc = answer
        /\ \A pc, trace, work : /\ Moved(q, pc, trace, work).pc = pc
                               /\ Moved(q, pc, trace, work).event = e
                               /\ Moved(q, pc, trace, work).trace = trace
    BY DEF Ended, Moved
  <1>2. /\ ~Moves(r, Ended("refused")) /\ ~Moves(r, Ended("panicked"))
        /\ ~Moves(r, Moved(q, "flushing", q.trace, q.work))
    BY <1>1 DEF Moves
  <1>3. /\ e \in DriverEvent
        /\ config.overlapPoints > 0 => kept # <<>> /\ Last(kept) = e
        /\ \E trace \in Seq(DriverEvent) :
             /\ Moves(r, Moved(q, "matching", trace, q.work))
             /\ trace # <<>>
             /\ \A i \in 1..Len(trace) : trace[i].at <= e.at
             /\ trace[1] = first
             /\ config.overlapPoints = 1 => kept[1] = e
    <2> HIDE DEF q
    <2> QED
      BY <1>2, BufferSteps DEF q
  <1>4. PICK trace \in Seq(DriverEvent) :
          /\ Moves(r, Moved(q, "matching", trace, q.work))
          /\ trace # <<>>
          /\ \A i \in 1..Len(trace) : trace[i].at <= e.at
          /\ trace[1] = first
          /\ config.overlapPoints = 1 => kept[1] = e
    BY <1>3
  <1>5. requests'[r].pc = "matching" /\ requests'[r].event = e /\ requests'[r].trace = trace
    BY <1>1, <1>4 DEF Moves
  <1> QED
    BY <1>3, <1>4, <1>5

(* What a step may make of a request, its own or that of another.          *)
LEMMA RequestSteps ==
  ASSUME ServiceTypeOK, [ServiceNext]_serviceVars, NEW x \in Req
  PROVE  LET q == requests[x]
             next == requests'[x]
         IN  \/ next = q
             \/ \E answer \in Finished :
                  next = Ended(answer) /\ (answer = "older" => At(x, "adding") /\ Older(Head(q.work)))
             \/ \E e \in Event : Receive(x, e) /\ next.pc = "received" /\ next.event = e
             \/ BufferAdd(x)
             \/ \E work \in Seq(Observed) :
                  /\ At(x, "matching") /\ next = Moved(q, "adding", q.trace, work)
                  /\ work # <<>> /\ Len(work) = Len(q.trace)
                  /\ \A i \in 1..Len(work) : PointOf(work[i]) = PointOf(q.trace[i])
             \/ /\ At(x, "adding") /\ ProcessorTakes(x)
                /\ next = Moved(q, IF Tail(q.work) = <<>> THEN "flushing" ELSE "adding", q.trace, Tail(q.work))
  <1> DEFINE q == requests[x]
  <1>1. CASE requests' = requests
    BY <1>1
  <1>2. ASSUME NEW r \in Req, NEW e \in Event, Receive(r, e)
        PROVE  requests'[x] = q \/ (r = x /\ requests'[x].pc = "received" /\ requests'[x].event = e)
    BY <1>2, ReceiveFacts DEF Moves
  <1>3. ASSUME NEW r \in Req, Step(r), r # x  PROVE requests'[x] = q
    <2>1. BufferAdd(r) => requests'[x] = q
      BY <1>3, BufferAddFacts DEF Moves
    <2>2. MatchFails(r) \/ MatchSucceeds(r) => requests'[x] = q
      BY <1>3, MatchFacts DEF Moves
    <2>3. ProcessorRejects(r) \/ ProcessorTakes(r) => requests'[x] = q
      BY <1>3, AddFacts DEF Moves
    <2>4. Flush(r) => requests'[x] = q
      BY <1>3, FlushFacts DEF Moves
    <2> QED
      BY <1>3, <2>1, <2>2, <2>3, <2>4 DEF Step
  <1>4. {"unmatched", "older", "invalid", "ok", "uncalculated", "cut"} \subseteq Finished
    BY DEF Finished, Answered
  <1>5. CASE MatchFails(x) \/ MatchSucceeds(x)
    <2>1. CASE Moves(x, Ended("unmatched"))
      BY <1>4, <2>1 DEF Moves
    <2>2. CASE \E work \in Seq(Observed) :
                 /\ Moves(x, Moved(q, "adding", q.trace, work))
                 /\ work # <<>> /\ Len(work) = Len(q.trace)
                 /\ \A i \in 1..Len(work) : PointOf(work[i]) = PointOf(q.trace[i])
      BY <1>5, <2>2, MatchFacts DEF Moves
    <2> QED
      BY <1>5, <2>1, <2>2, MatchFacts
  <1>6. CASE ProcessorRejects(x) \/ ProcessorTakes(x)
    <2> DEFINE next == IF Tail(q.work) = <<>> THEN "flushing" ELSE "adding"
    <2>1. At(x, "adding")
      BY <1>6, AddFacts
    <2>2. \/ Moves(x, Ended("older")) /\ Older(Head(q.work))
          \/ Moves(x, Ended("invalid"))
          \/ ProcessorTakes(x) /\ Moves(x, Moved(q, next, q.trace, Tail(q.work)))
      BY <1>6, AddFacts
    <2> QED
      BY <1>4, <2>1, <2>2 DEF Moves
  <1>7. CASE Flush(x)
    BY <1>4, <1>7, FlushFacts DEF Moves
  <1>8. CASE Cut
    BY <1>4, <1>8, CutFacts
  <1>9. CASE Start
    BY <1>9, StartFacts
  <1>10. CASE UNCHANGED serviceVars
    BY <1>1, <1>10 DEF serviceVars, pipelineVars
  <1>11. ASSUME NEW r \in Req, Step(r)
         PROVE  requests'[x] = q \/ BufferAdd(x) \/ MatchFails(x) \/ MatchSucceeds(x)
                  \/ ProcessorRejects(x) \/ ProcessorTakes(x) \/ Flush(x)
    BY <1>3, <1>11 DEF Step
  <1>12. CASE ServiceNext
    BY <1>1, <1>2, <1>5, <1>6, <1>7, <1>8, <1>9, <1>11, <1>12, ServiceSteps
  <1> QED
    BY <1>10, <1>12

(* The configuration stays, and the buffer only changes by an Add or by a  *)
(* new start, with no request in flight.                                   *)
LEMMA BufferUse ==
  ASSUME ServiceTypeOK, [ServiceNext]_serviceVars
  PROVE  /\ UNCHANGED <<config, clients>>
         /\ \/ UNCHANGED pointsByDriver
            \/ \E r \in Req : BufferAdd(r)
            \/ /\ pointsByDriver' = [d \in Driver |-> <<>>] /\ requests' = requests
               /\ InFlight = {} /\ noted' = {} /\ DOMAIN driverStates' = {}
  <1>1. CASE UNCHANGED serviceVars
    BY <1>1 DEF serviceVars, pipelineVars, bufferVars
  <1>2. ASSUME NEW r \in Req, NEW e \in Event, Receive(r, e)  PROVE UNCHANGED <<config, pointsByDriver, clients>>
    BY <1>2, ReceiveFacts DEF bufferVars
  <1>3. ASSUME NEW r \in Req, Step(r)
        PROVE  UNCHANGED <<config, clients>> /\ (BufferAdd(r) \/ UNCHANGED pointsByDriver)
    BY <1>3, BufferAddFacts, MatchFacts, AddFacts, FlushFacts DEF Step, bufferVars
  <1>4. CASE Cut
    BY <1>4, CutFacts DEF bufferVars
  <1>5. CASE Start
    BY <1>5, StartFacts
  <1>6. CASE ServiceNext
    BY <1>2, <1>3, <1>4, <1>5, <1>6, ServiceSteps DEF bufferVars
  <1> QED
    BY <1>1, <1>6

(* Every step of the service keeps buffers and traces rising in time.      *)
LEMMA PointsRiseStep ==
  ASSUME ServiceTypeOK, PointsRise, [ServiceNext]_serviceVars
  PROVE  PointsRise'
  <1>1. BuffersRise'
    <2>1. CASE UNCHANGED pointsByDriver
      BY <2>1 DEF PointsRise, BuffersRise
    <2>2. ASSUME NEW r \in Req, BufferAdd(r)  PROVE BuffersRise'
      <3>1. BuffersRise
        BY DEF PointsRise
      <3>2. CASE UNCHANGED pointsByDriver
        BY <3>1, <3>2 DEF BuffersRise
      <3>3. ASSUME NEW e \in DriverEvent,
                   \A d \in Driver \ {e.driver} : pointsByDriver'[d] = pointsByDriver[d],
                   Rising(pointsByDriver'[e.driver]), IsOf(pointsByDriver'[e.driver], e.driver)
            PROVE  BuffersRise'
        BY <3>1, <3>3 DEF BuffersRise
      <3> QED
        BY <2>2, <3>1, <3>2, <3>3, BufferSteps
    <2>3. CASE pointsByDriver' = [d \in Driver |-> <<>>]
      BY <2>3, EmptySeq DEF BuffersRise, Rising, IsOf
    <2> QED
      BY <2>1, <2>2, <2>3, BufferUse
  <1>2. ASSUME NEW x \in Req  PROVE TraceRises(requests'[x])
    <2>1. TraceRises(requests[x])
      BY DEF PointsRise
    <2>2. \A answer \in Finished : TraceRises(Ended(answer))
      BY DEF TraceRises, Ended, Finished, Answered
    <2>3. CASE requests'[x].pc = "received"
      BY <2>3 DEF TraceRises
    <2>4. CASE BufferAdd(x)
      <3>1. \A trace, work : TraceRises(Moved(requests[x], "flushing", trace, work))
        BY DEF TraceRises, Moved
      <3>2. ASSUME NEW trace, NEW work, requests[x].event \in DriverEvent,
                   Rising(trace), IsOf(trace, requests[x].event.driver)
            PROVE  TraceRises(Moved(requests[x], "matching", trace, work))
        BY <3>2, ObservedFacts DEF TraceRises, Moved
      <3>3. {"refused", "panicked"} \subseteq Finished
        BY DEF Finished, Answered
      <3>4. \/ Moves(x, Ended("refused")) \/ Moves(x, Ended("panicked"))
            \/ \E trace, work : Moves(x, Moved(requests[x], "flushing", trace, work))
            \/ /\ requests[x].event \in DriverEvent
               /\ \E trace, work : /\ Moves(x, Moved(requests[x], "matching", trace, work))
                                   /\ Rising(trace) /\ IsOf(trace, requests[x].event.driver)
        BY <2>4, BufferSteps DEF PointsRise
      <3> QED
        BY <2>2, <3>1, <3>2, <3>3, <3>4 DEF Moves
    <2>5. ASSUME NEW pc \in {"adding", "flushing"}, NEW work, At(x, "matching") \/ At(x, "adding"),
                 requests'[x] = Moved(requests[x], pc, requests[x].trace, work)
          PROVE  TraceRises(requests'[x])
      BY <2>1, <2>5 DEF TraceRises, Moved, At
    <2> QED
      BY <2>1, <2>2, <2>3, <2>4, <2>5, RequestSteps
  <1> QED
    BY <1>1, <1>2 DEF PointsRise

(* The buffer still holds a point of the driver that is as new as t.       *)
Reaches(d, t) == pointsByDriver[d] # <<>> /\ t <= Last(pointsByDriver[d]).at

(* No point that was noted, and none that is on its way in a trace, is     *)
(* newer than what the buffer holds of its driver.                         *)
BufferAhead ==
  config.overlapPoints > 0 =>
    /\ \A n \in noted : Reaches(n.driver, n.at)
    /\ \A r \in Req : requests[r].pc \in {"matching", "adding"} =>
         \A i \in 1..Len(requests[r].trace) : Reaches(requests[r].event.driver, requests[r].trace[i].at)

(* What a request adds next is a point of its trace, of its own driver.    *)
LEMMA AddedIsOfTrace ==
  ASSUME ServiceTypeOK, RequestsFit, PointsRise, NEW r \in Req, At(r, "adding")
  PROVE  \E i \in 1..Len(requests[r].trace) :
           /\ PointOf(Head(requests[r].work)) = PointOf(requests[r].trace[i])
           /\ Head(requests[r].work).driver = requests[r].event.driver
           /\ Head(requests[r].work).at = requests[r].trace[i].at
           /\ i = Len(requests[r].trace) - Len(requests[r].work) + 1
  <1> DEFINE trace == requests[r].trace
             work == requests[r].work
             i == Len(trace) - Len(work) + 1
  <1>1. trace \in Seq(DriverEvent) /\ work \in Seq(Observed) /\ work # <<>> /\ Head(work) = work[1]
    BY MoveFacts, WorkFacts DEF Request
  <1>2. /\ Len(work) <= Len(trace)
        /\ \A j \in 1..Len(work) : PointOf(work[j]) = PointOf(trace[Len(trace) - Len(work) + j])
    BY DEF RequestsFit, Fits, At
  <1>3. IsOf(trace, requests[r].event.driver)
    BY DEF PointsRise, TraceRises, At
  <1> HIDE DEF trace, work
  <1>4. 1 \in 1..Len(work) /\ i \in 1..Len(trace)
    BY <1>1, <1>2
  <1>5. PointOf(work[1]) = PointOf(trace[i])
    BY <1>2, <1>4
  <1>6. work[1].driver = trace[i].driver /\ work[1].at = trace[i].at
    BY <1>5 DEF PointOf
  <1> QED
    BY <1>1, <1>3, <1>4, <1>5, <1>6 DEF trace, work, IsOf

(* Every step of the service keeps the buffer at or beyond what was noted  *)
(* and what is on its way.                                                 *)
LEMMA AheadStep ==
  ASSUME ServiceTypeOK, RequestsFit, PointsRise, BufferAhead, [ServiceNext]_serviceVars
  PROVE  BufferAhead'
  <1> SUFFICES ASSUME config.overlapPoints > 0
               PROVE  /\ \A n \in noted' : Reaches(n.driver, n.at)'
                      /\ \A r \in Req : requests'[r].pc \in {"matching", "adding"} =>
                           \A i \in 1..Len(requests'[r].trace) :
                             Reaches(requests[r].event.driver, requests[r].trace[i].at)'
    BY BufferUse DEF BufferAhead
  <1>1. ASSUME InFlight = {}, noted' = {}, requests' = requests
        PROVE  /\ \A n \in noted' : Reaches(n.driver, n.at)'
               /\ \A r \in Req : requests'[r].pc \notin {"matching", "adding"}
    BY <1>1 DEF InFlight, Finished, Answered
  <1>2. CASE UNCHANGED pointsByDriver \/ \E r \in Req : BufferAdd(r)
    <2>1. ASSUME NEW d \in Driver, NEW t \in Int, Reaches(d, t)
          PROVE  Reaches(d, t)'
      <3>1. CASE UNCHANGED pointsByDriver
        BY <2>1, <3>1 DEF Reaches
      <3>2. ASSUME NEW e \in DriverEvent,
                   \A x \in Driver \ {e.driver} : pointsByDriver'[x] = pointsByDriver[x],
                   pointsByDriver[e.driver] # <<>> => Last(pointsByDriver[e.driver]).at < e.at,
                   pointsByDriver'[e.driver] # <<>>, Last(pointsByDriver'[e.driver]) = e
            PROVE  Reaches(d, t)'
        <4>1. CASE d = e.driver
          <5>1. e.at \in Int /\ pointsByDriver[d] \in Seq(DriverEvent) /\ pointsByDriver[d] # <<>>
            BY <2>1, ObservedFacts DEF Reaches, ServiceTypeOK
          <5>2. Last(pointsByDriver[d]).at \in Int
            <6>1. Last(pointsByDriver[d]) \in DriverEvent
              BY <5>1 DEF Last
            <6> QED
              BY <6>1, ObservedFacts
          <5>3. t <= e.at
            BY <2>1, <3>2, <4>1, <5>1, <5>2 DEF Reaches
          <5> QED
            BY <3>2, <4>1, <5>3 DEF Reaches
        <4>2. CASE d # e.driver
          BY <2>1, <3>2, <4>2 DEF Reaches
        <4> QED
          BY <4>1, <4>2
      <3>3. ASSUME NEW r \in Req, BufferAdd(r)  PROVE Reaches(d, t)'
        BY <3>1, <3>2, <3>3, BufferSteps DEF PointsRise
      <3> QED
        BY <1>2, <3>1, <3>3
    <2>2. ASSUME NEW n \in noted'  PROVE Reaches(n.driver, n.at)'
      <3>1. CASE n \in noted
        BY <2>1, <3>1 DEF BufferAhead, ServiceTypeOK
      <3>2. ASSUME NEW r \in Req, At(r, "adding"), n = PointOf(Head(requests[r].work))
            PROVE  Reaches(n.driver, n.at)'
        <4>1. PICK i \in 1..Len(requests[r].trace) :
                /\ Head(requests[r].work).driver = requests[r].event.driver
                /\ Head(requests[r].work).at = requests[r].trace[i].at
          BY <3>2, AddedIsOfTrace
        <4>2. Reaches(requests[r].event.driver, requests[r].trace[i].at)
          BY <3>2 DEF BufferAhead, At
        <4>3. n.driver \in Driver /\ n.at \in Int
          BY <3>2, WorkFacts, ObservedFacts DEF PointOf
        <4>4. n.driver = requests[r].event.driver /\ n.at = requests[r].trace[i].at
          BY <3>2, <4>1 DEF PointOf
        <4> QED
          BY <2>1, <4>2, <4>3, <4>4
      <3>3. n \in noted \/ \E r \in Req : At(r, "adding") /\ n = PointOf(Head(requests[r].work))
        BY <2>2, MemorySteps
      <3> QED
        BY <3>1, <3>2, <3>3
    <2>3. ASSUME NEW x \in Req, requests'[x].pc \in {"matching", "adding"}, NEW i \in 1..Len(requests'[x].trace)
          PROVE  Reaches(requests[x].event.driver, requests[x].trace[i].at)'
      <3>1. ASSUME requests[x].pc \in {"matching", "adding"},
                   requests'[x].event = requests[x].event, requests'[x].trace = requests[x].trace
            PROVE  Reaches(requests[x].event.driver, requests[x].trace[i].at)'
        <4>1. Reaches(requests[x].event.driver, requests[x].trace[i].at)
          BY <2>3, <3>1 DEF BufferAhead
        <4>2. requests[x].event.driver \in Driver
          BY <3>1 DEF PointsRise, TraceRises
        <4>3. requests[x].trace[i].at \in Int
          <5>1. requests[x].trace \in Seq(DriverEvent)
            BY MoveFacts DEF Request
          <5>2. requests[x].trace[i] \in DriverEvent
            BY <2>3, <3>1, <5>1
          <5> QED
            BY <5>2, ObservedFacts
        <4> QED
          BY <2>1, <3>1, <4>1, <4>2, <4>3
      <3>2. CASE BufferAdd(x)
        BY <2>3, <3>2, EmitFacts DEF PointsRise, Reaches
      <3>3. \/ BufferAdd(x)
            \/ /\ requests[x].pc \in {"matching", "adding"}
               /\ requests'[x].event = requests[x].event /\ requests'[x].trace = requests[x].trace
        <4>1. \A answer \in Finished : Ended(answer).pc \notin {"matching", "adding"}
          BY DEF Ended, Finished, Answered
        <4>2. \A pc, work : /\ Moved(requests[x], pc, requests[x].trace, work).event = requests[x].event
                           /\ Moved(requests[x], pc, requests[x].trace, work).trace = requests[x].trace
          BY DEF Moved
        <4> QED
          BY <2>3, <4>1, <4>2, RequestSteps DEF At
      <3> QED
        BY <3>1, <3>2, <3>3
    <2> QED
      BY <2>2, <2>3
  <1> QED
    BY <1>1, <1>2, BufferUse

(* With an overlap, nothing is ever noted that the buffer has not put in a *)
(* trace, and the buffer never falls behind what has been noted, across    *)
(* failed matches, cut requests and restarts.                              *)
THEOREM NotedStaysBehind == ServiceSpec => []NotedBehindBuffer
  <1>1. ServiceInit => RequestsFit /\ PointsRise /\ BufferAhead
    BY EmptySeq DEF ServiceInit, Init, NewBuffer, RequestsFit, Fits, PointsRise, BuffersRise, TraceRises, Rising,
           IsOf, BufferAhead, Idle
  <1>2. ServiceInit => MemoryIsNewest
    BY DEF ServiceInit, Init, NewProcessor, NewDriverStateBuffer, MemoryIsNewest
  <1>3. ServiceTypeOK /\ MemoryIsNewest /\ [ServiceNext]_serviceVars => MemoryIsNewest'
    BY MemoryStep
  <1>4. ServiceTypeOK /\ MemoryIsNewest /\ RequestsFit /\ [ServiceNext]_serviceVars => RequestsFit'
    BY FitsStep
  <1>5. ServiceTypeOK /\ PointsRise /\ [ServiceNext]_serviceVars => PointsRise'
    BY PointsRiseStep
  <1>6. ServiceTypeOK /\ RequestsFit /\ PointsRise /\ BufferAhead /\ [ServiceNext]_serviceVars => BufferAhead'
    BY AheadStep
  <1>7. BufferAhead => NotedBehindBuffer
    BY DEF BufferAhead, NotedBehindBuffer, Reaches
  <1> QED
    BY <1>1, <1>2, <1>3, <1>4, <1>5, <1>6, <1>7, TypeCorrect, PTL DEF ServiceSpec

-----------------------------------------------------------------------------
(* The oldest point that the buffer still holds of the driver is as new    *)
(* as t.                                                                   *)
Keeps(d, t) == pointsByDriver[d] # <<>> /\ t <= pointsByDriver[d][1].at

(* Clients that wait for each answer, and traces that overlap in a point.  *)
OneByOne == clients = "serial" /\ config.overlapPoints = 1

(* No two requests of a driver are in flight.                              *)
OneOfEach ==
  \A x, y \in InFlight : x # y => requests[x].event.driver # requests[y].event.driver

(* What the processor remembers of a driver, and what is on its way there, *)
(* is no newer than the oldest point that the driver's next trace will     *)
(* begin with; and what a request adds next is no older than the memory.   *)
TraceAhead(q) ==
  LET d == q.event.driver
  IN  /\ q.pc \in {"matching", "adding"} => \A i \in 1..Len(q.trace) : Keeps(d, q.trace[i].at)
      /\ d \in DOMAIN driverStates =>
           /\ q.pc = "matching" => driverStates[d] <= q.trace[1].at
           /\ q.pc = "adding" => driverStates[d] <= Head(q.work).at

SerialInOrder ==
  OneByOne =>
    /\ OneOfEach
    /\ \A d \in DOMAIN driverStates : Keeps(d, driverStates[d])
    /\ \A r \in InFlight : TraceAhead(requests[r])
    /\ \A r \in Req : ~At(r, "older")

(* Who is in flight after a step: a request that was, for the same event,  *)
(* or one just received.                                                   *)
LEMMA InFlightSteps ==
  ASSUME ServiceTypeOK, [ServiceNext]_serviceVars, NEW x \in InFlight'
  PROVE  \/ x \in InFlight /\ requests'[x].event = requests[x].event
         \/ \E e \in Event : Receive(x, e) /\ requests'[x].event = e
  <1> DEFINE q == requests[x]
             next == requests'[x]
  <1>1. x \in Req /\ next.pc \notin Finished \cup {"idle"}
    BY DEF InFlight
  <1>2. \A answer : Ended(answer).pc = answer
    BY DEF Ended
  <1>3. \A pc, trace, work : Moved(q, pc, trace, work).event = q.event
    BY DEF Moved
  <1>4. {"received", "matching", "adding"} \cap (Finished \cup {"idle"}) = {}
    BY DEF Finished, Answered
  <1>5. CASE BufferAdd(x)
    <2>1. /\ At(x, "received")
          /\ \/ \E answer \in {"refused", "panicked"} : Moves(x, Ended(answer))
             \/ \E pc, trace, work : Moves(x, Moved(q, pc, trace, work))
      BY <1>1, <1>5, BufferAddFacts
    <2>2. {"refused", "panicked"} \subseteq Finished
      BY DEF Finished, Answered
    <2> QED
      BY <1>1, <1>2, <1>3, <1>4, <2>1, <2>2 DEF Moves, At, InFlight
  <1>6. CASE ~BufferAdd(x)
    <2>1. \/ next = q
          \/ \E e \in Event : Receive(x, e) /\ next.event = e
          \/ /\ At(x, "matching") \/ At(x, "adding")
             /\ \E pc, trace, work : next = Moved(q, pc, trace, work)
      <3> HIDE DEF q
      <3> QED
        BY <1>1, <1>2, <1>6, RequestSteps DEF q
    <2> QED
      BY <1>1, <1>3, <1>4, <2>1 DEF InFlight, At
  <1> QED
    BY <1>5, <1>6

(* A serial client's next body comes when its driver has none in flight.   *)
LEMMA OneOfEachStep ==
  ASSUME ServiceTypeOK, clients = "serial", OneOfEach, [ServiceNext]_serviceVars
  PROVE  OneOfEach'
  <1> SUFFICES ASSUME NEW x \in InFlight', NEW y \in InFlight', x # y
               PROVE  requests'[x].event.driver # requests'[y].event.driver
    BY DEF OneOfEach
  <1>1. x \in Req /\ y \in Req
    BY DEF InFlight
  <1>2. ASSUME NEW a \in Req, NEW b \in Req, a # b, NEW e \in Event, Receive(a, e), requests'[a].event = e, b \in InFlight'
        PROVE  requests'[a].event.driver # requests'[b].event.driver
    <2>1. requests'[b] = requests[b]
      BY <1>2, ReceiveFacts DEF Moves
    <2>2. b \in InFlight
      BY <1>2, <2>1 DEF InFlight
    <2>3. requests[b].event.driver # e.driver
      BY <1>2, <2>2, ReceiveFacts
    <2> QED
      BY <1>2, <2>1, <2>3
  <1> QED
    BY <1>1, <1>2, InFlightSteps DEF OneOfEach

(* With one overlap point, what the buffer keeps of a driver only moves on *)
(* in time; only a new process forgets it.                                 *)
LEMMA KeepsOn ==
  ASSUME ServiceTypeOK, BuffersRise, config.overlapPoints = 1,
         UNCHANGED pointsByDriver \/ \E r \in Req : BufferAdd(r),
         NEW d \in Driver, NEW t \in Int, Keeps(d, t)
  PROVE  Keeps(d, t)'
  <1>1. CASE UNCHANGED pointsByDriver
    BY <1>1 DEF Keeps
  <1>2. ASSUME NEW r \in Req, BufferAdd(r), ~ UNCHANGED pointsByDriver  PROVE Keeps(d, t)'
    <2> DEFINE e == requests[r].event
               held == pointsByDriver[e.driver]
               kept == pointsByDriver'[e.driver]
    <2>1. /\ e \in DriverEvent
          /\ \A c \in Driver \ {e.driver} : pointsByDriver'[c] = pointsByDriver[c]
          /\ held \in Seq(DriverEvent)
          /\ held # <<>> => Last(held).at < e.at
          /\ kept # <<>>
          /\ kept[1] = e \/ kept[1] = IF held = <<>> THEN e ELSE held[1]
      BY <1>2, BufferSteps
    <2>2. CASE d # e.driver
      BY <2>1, <2>2 DEF Keeps
    <2>3. CASE d = e.driver
      <3>1. held # <<>> /\ t <= held[1].at /\ Rising(held)
        BY <2>3 DEF Keeps, BuffersRise
      <3>2. held[1].at <= Last(held).at /\ held[1].at \in Int /\ Last(held).at \in Int
        <4> HIDE DEF held
        <4>1. Len(held) \in Nat /\ 1 \in 1..Len(held) /\ Len(held) \in 1..Len(held) /\ Last(held) = held[Len(held)]
          BY <2>1, <3>1 DEF Last
        <4>2. held[1] \in DriverEvent /\ Last(held) \in DriverEvent
          BY <2>1, <4>1
        <4>3. held[1].at \in Int /\ Last(held).at \in Int
          BY <4>2, ObservedFacts
        <4>4. CASE Len(held) = 1
          BY <4>1, <4>3, <4>4
        <4>5. CASE 1 < Len(held)
          BY <3>1, <4>1, <4>3, <4>5 DEF Rising
        <4> QED
          BY <4>1, <4>3, <4>4, <4>5
      <3>3. e.at \in Int
        BY <2>1, ObservedFacts
      <3>4. t <= e.at /\ t <= held[1].at
        <4> HIDE DEF held, e
        <4> QED
          BY <2>1, <3>1, <3>2, <3>3
      <3>5. t <= kept[1].at
        BY <2>1, <3>1, <3>4
      <3> QED
        BY <2>1, <2>3, <3>5 DEF Keeps
    <2> QED
      BY <2>2, <2>3
  <1> QED
    BY <1>1, <1>2

(* What the processor remembers of the driver of a request in flight: what *)
(* it did before, unless that request itself has added an observation.     *)
LEMMA OwnMemory ==
  ASSUME ServiceTypeOK, RequestsFit, PointsRise, OneOfEach, [ServiceNext]_serviceVars,
         NEW x \in InFlight, NEW d, d = requests[x].event.driver, d \in DOMAIN driverStates'
  PROVE  \/ d \in DOMAIN driverStates /\ driverStates'[d] = driverStates[d]
         \/ At(x, "adding") /\ ProcessorTakes(x) /\ driverStates'[d] = Head(requests[x].work).at
  <1>1. ASSUME NEW r \in Req, NEW o \in Observed, At(r, "adding"), o = Head(requests[r].work), ProcessorTakes(r),
               Remember(o)
        PROVE  \/ d \in DOMAIN driverStates /\ driverStates'[d] = driverStates[d]
               \/ At(x, "adding") /\ ProcessorTakes(x) /\ driverStates'[d] = Head(requests[x].work).at
    <2>1. o.driver = requests[r].event.driver
      BY <1>1, AddedIsOfTrace
    <2>2. CASE r = x
      BY <1>1, <2>1, <2>2, RememberFacts
    <2>3. CASE r # x
      <3>1. r \in InFlight
        BY <1>1 DEF InFlight, At, Finished, Answered
      <3>2. o.driver # d
        BY <2>1, <2>3, <3>1 DEF OneOfEach
      <3> QED
        BY <1>1, <3>2, RememberFacts
    <2> QED
      BY <2>2, <2>3
  <1> QED
    BY <1>1, MemorySteps

(* What a request takes from its work is followed by something newer.      *)
LEMMA WorkRises ==
  ASSUME ServiceTypeOK, RequestsFit, PointsRise, NEW r \in Req, At(r, "adding"), Tail(requests[r].work) # <<>>
  PROVE  Head(requests[r].work).at < Head(Tail(requests[r].work)).at
  <1> DEFINE trace == requests[r].trace
             work == requests[r].work
             rest == Tail(work)
             k == Len(trace) - Len(work)
  <1>1. /\ trace \in Seq(DriverEvent) /\ work \in Seq(Observed) /\ Head(work) = work[1]
        /\ rest \in Seq(Observed) /\ Len(rest) = Len(work) - 1 /\ \A i \in 1..Len(rest) : rest[i] = work[i + 1]
    BY MoveFacts, WorkFacts DEF Request
  <1>2. /\ Len(work) <= Len(trace)
        /\ \A j \in 1..Len(work) : PointOf(work[j]) = PointOf(trace[Len(trace) - Len(work) + j])
    BY DEF RequestsFit, Fits, At
  <1>3. Rising(trace)
    BY DEF PointsRise, TraceRises, At
  <1>4. rest # <<>>
    OBVIOUS
  <1> HIDE DEF trace, work, rest
  <1>5. 1 \in 1..Len(rest) /\ Head(rest) = rest[1]
    BY <1>1, <1>4
  <1>6. rest[1] = work[2] /\ 1 \in 1..Len(work) /\ 2 \in 1..Len(work)
    BY <1>1, <1>5
  <1>7. PointOf(work[1]) = PointOf(trace[k + 1]) /\ PointOf(work[2]) = PointOf(trace[k + 2])
    BY <1>2, <1>6
  <1>8. k + 1 \in 1..Len(trace) /\ k + 2 \in 1..Len(trace) /\ k + 1 < k + 2
    BY <1>1, <1>2, <1>6
  <1>9. trace[k + 1].at < trace[k + 2].at
    BY <1>3, <1>8 DEF Rising
  <1>10. work[1].at = trace[k + 1].at /\ work[2].at = trace[k + 2].at
    BY <1>7 DEF PointOf
  <1>11. work[1].at < work[2].at
    BY <1>9, <1>10
  <1> QED
    BY <1>1, <1>5, <1>6, <1>11 DEF work, rest

(* A request's own step, and what others do meanwhile, leave its trace no  *)
(* older than the memory and no newer than what the buffer keeps.          *)
LEMMA TraceAheadStep ==
  ASSUME ServiceTypeOK, RequestsFit, PointsRise, SerialInOrder, OneByOne, [ServiceNext]_serviceVars,
         UNCHANGED pointsByDriver \/ \E r \in Req : BufferAdd(r), NEW x \in InFlight'
  PROVE  TraceAhead(requests[x])'
  <1> DEFINE q == requests[x]
             next == requests'[x]
             d == q.event.driver
  <1>1. x \in Req /\ OneOfEach /\ config.overlapPoints = 1 /\ BuffersRise
    BY DEF InFlight, SerialInOrder, OneByOne, PointsRise
  <1>2. CASE next.pc \notin {"matching", "adding"}
    BY <1>2 DEF TraceAhead
  <1>3. CASE next.pc \in {"matching", "adding"} /\ BufferAdd(x)
    <2>1. At(x, "received") /\ x \in InFlight
      BY <1>1, <1>3, BufferAddFacts DEF InFlight, At, Finished, Answered
    <2>2. /\ q.event \in DriverEvent
          /\ next.pc = "matching" /\ next.event = q.event
          /\ \A i \in 1..Len(next.trace) : next.trace[i].at <= q.event.at
          /\ pointsByDriver[d] # <<>> => next.trace[1] = pointsByDriver[d][1]
          /\ pointsByDriver'[d] # <<>> /\ pointsByDriver'[d][1] = q.event
      BY <1>1, <1>3, EmitFacts
    <2>3. ASSUME d \in DOMAIN driverStates'  PROVE driverStates'[d] <= next.trace[1].at
      <3>1. d \in DOMAIN driverStates /\ driverStates'[d] = driverStates[d]
        BY <1>1, <2>1, <2>3, OwnMemory DEF At
      <3>2. Keeps(d, driverStates[d])
        BY <3>1 DEF SerialInOrder
      <3> QED
        BY <2>2, <3>1, <3>2 DEF Keeps
    <2> QED
      BY <2>2, <2>3 DEF TraceAhead, Keeps
  <1>4. CASE next.pc \in {"matching", "adding"} /\ ~BufferAdd(x)
    <2>1. /\ next.event = q.event /\ next.trace = q.trace
          /\ \/ next = q /\ q.pc \in {"matching", "adding"}
             \/ At(x, "matching") /\ next.pc = "adding" /\ Head(next.work).at = q.trace[1].at
             \/ At(x, "adding") /\ next.pc = "adding" /\ ProcessorTakes(x)
                  /\ Tail(q.work) # <<>> /\ next.work = Tail(q.work)
      <3>1. \A answer \in Finished : Ended(answer).pc \notin {"matching", "adding"}
        BY DEF Ended, Finished, Answered
      <3>2. \A pc, work : /\ Moved(q, pc, q.trace, work).event = q.event
                          /\ Moved(q, pc, q.trace, work).trace = q.trace
                          /\ Moved(q, pc, q.trace, work).work = work
                          /\ Moved(q, pc, q.trace, work).pc = pc
        BY DEF Moved
      <3>3. ASSUME NEW work \in Seq(Observed), At(x, "matching"), next = Moved(q, "adding", q.trace, work),
                   work # <<>>, Len(work) = Len(q.trace),
                   \A i \in 1..Len(work) : PointOf(work[i]) = PointOf(q.trace[i])
            PROVE  next.pc = "adding" /\ Head(next.work).at = q.trace[1].at
        <4>1. Head(work) = work[1] /\ 1 \in 1..Len(work)
          BY <3>3
        <4>2. PointOf(work[1]) = PointOf(q.trace[1])
          BY <3>3, <4>1
        <4>3. work[1].at = q.trace[1].at
          BY <4>2 DEF PointOf
        <4> QED
          BY <3>2, <3>3, <4>1, <4>3
      <3> HIDE DEF q
      <3> QED
        BY <1>1, <1>4, <3>1, <3>2, <3>3, RequestSteps DEF q
    <2>2. q.pc \in {"matching", "adding"} /\ x \in InFlight
      BY <1>1, <2>1 DEF At, InFlight, Finished, Answered
    <2>3. TraceAhead(q) /\ d \in Driver /\ q.trace \in Seq(DriverEvent)
      BY <1>1, <2>2, MoveFacts DEF SerialInOrder, PointsRise, TraceRises, Request
    <2>4. ASSUME NEW i \in 1..Len(q.trace)  PROVE Keeps(d, q.trace[i].at)'
      <3>1. q.trace[i].at \in Int
        <4>1. q.trace[i] \in DriverEvent
          BY <2>3
        <4> QED
          BY <4>1, ObservedFacts
      <3>2. Keeps(d, q.trace[i].at)
        BY <2>2, <2>3 DEF TraceAhead
      <3>3. ASSUME NEW c \in Driver, NEW t \in Int, Keeps(c, t)  PROVE Keeps(c, t)'
        BY <1>1, <3>3, KeepsOn
      <3>4. ASSUME NEW c, NEW t, c \in Driver, t \in Int, Keeps(c, t)
            PROVE  pointsByDriver'[c] # <<>> /\ t <= pointsByDriver'[c][1].at
        BY <3>3, <3>4 DEF Keeps
      <3>5. pointsByDriver'[d] # <<>> /\ q.trace[i].at <= pointsByDriver'[d][1].at
        BY <2>3, <3>1, <3>2, <3>4
      <3> QED
        BY <2>1, <3>5 DEF Keeps
    <2>5. ASSUME d \in DOMAIN driverStates'
          PROVE  /\ next.pc = "matching" => driverStates'[d] <= next.trace[1].at
                 /\ next.pc = "adding" => driverStates'[d] <= Head(next.work).at
      <3>1. CASE d \in DOMAIN driverStates /\ driverStates'[d] = driverStates[d]
        <4>1. CASE next = q
          BY <2>3, <3>1, <4>1 DEF TraceAhead
        <4>2. CASE At(x, "matching") /\ next.pc = "adding" /\ Head(next.work).at = q.trace[1].at
          BY <2>3, <3>1, <4>2 DEF TraceAhead, At
        <4>3. CASE At(x, "adding") /\ next.pc = "adding" /\ Tail(q.work) # <<>> /\ next.work = Tail(q.work)
          <5>1. driverStates[d] <= Head(q.work).at /\ driverStates[d] \in Int
            BY <2>3, <3>1, <4>3 DEF TraceAhead, At, ServiceTypeOK
          <5>2. Head(q.work).at < Head(next.work).at
            BY <1>1, <4>3, WorkRises
          <5>3. Head(q.work).at \in Int /\ Head(next.work).at \in Int
            <6>1. Head(q.work) \in Observed /\ Tail(q.work) \in Seq(Observed)
              BY <1>1, <4>3, WorkFacts
            <6>2. Head(next.work) \in Observed
              BY <4>3, <6>1
            <6> QED
              BY <6>1, <6>2, ObservedFacts
          <5> QED
            BY <3>1, <4>3, <5>1, <5>2, <5>3
        <4> QED
          BY <2>1, <4>1, <4>2, <4>3
      <3>2. CASE At(x, "adding") /\ ProcessorTakes(x) /\ driverStates'[d] = Head(q.work).at
        <4>1. next.pc = "adding" /\ Tail(q.work) # <<>> /\ next.work = Tail(q.work)
          <5>1. next = Moved(q, IF Tail(q.work) = <<>> THEN "flushing" ELSE "adding", q.trace, Tail(q.work))
                  \/ next = Ended("older") \/ next = Ended("invalid")
            BY <1>1, <3>2, AddFacts DEF Moves
          <5>2. \A answer : Ended(answer).pc = answer
            BY DEF Ended
          <5>3. \A pc, work : Moved(q, pc, q.trace, work).pc = pc /\ Moved(q, pc, q.trace, work).work = work
            BY DEF Moved
          <5> QED
            BY <1>4, <5>1, <5>2, <5>3
        <4>2. Head(q.work).at < Head(Tail(q.work)).at /\ Head(q.work).at \in Int /\ Head(Tail(q.work)).at \in Int
          <5>1. Head(q.work) \in Observed /\ Tail(q.work) \in Seq(Observed)
            BY <1>1, <3>2, WorkFacts
          <5>2. Head(Tail(q.work)) \in Observed
            BY <4>1, <5>1
          <5> QED
            BY <1>1, <3>2, <4>1, <5>1, <5>2, ObservedFacts, WorkRises
        <4> QED
          BY <3>2, <4>1, <4>2
      <3> QED
        BY <1>1, <2>2, <2>5, <3>1, <3>2, OwnMemory
    <2> HIDE DEF q
    <2>6. next.event.driver = d /\ next.trace = q.trace
      BY <2>1
    <2> QED
      BY <2>4, <2>5, <2>6 DEF TraceAhead, q
  <1> QED
    BY <1>2, <1>3, <1>4

(* No addition is refused as older: the observation that a request adds is *)
(* as new as the memory of its driver.                                     *)
LEMMA SerialStep ==
  ASSUME ServiceTypeOK, RequestsFit, PointsRise, SerialInOrder, [ServiceNext]_serviceVars
  PROVE  SerialInOrder'
  <1> SUFFICES ASSUME OneByOne'  PROVE
          /\ OneOfEach'
          /\ \A d \in DOMAIN driverStates' : Keeps(d, driverStates[d])'
          /\ \A x \in InFlight' : TraceAhead(requests[x])'
          /\ \A x \in Req : requests'[x].pc # "older"
    BY DEF SerialInOrder, At
  <1>1. OneByOne /\ BuffersRise /\ OneOfEach /\ clients = "serial" /\ config.overlapPoints = 1
    BY BufferUse DEF OneByOne, SerialInOrder, PointsRise
  <1>2. OneOfEach'
    BY <1>1, OneOfEachStep
  <1>3. CASE /\ requests' = requests /\ InFlight = {} /\ DOMAIN driverStates' = {}
    <2>1. InFlight' = {}
      BY <1>3 DEF InFlight
    <2> QED
      BY <1>1, <1>2, <1>3, <2>1 DEF SerialInOrder, At
  <1>4. CASE UNCHANGED pointsByDriver \/ \E r \in Req : BufferAdd(r)
    <2>1. ASSUME NEW d \in Driver, NEW t \in Int, Keeps(d, t)  PROVE Keeps(d, t)'
      BY <1>1, <1>4, <2>1, KeepsOn
    <2>2. ASSUME NEW d \in DOMAIN driverStates'  PROVE Keeps(d, driverStates[d])'
      <3>1. CASE d \in DOMAIN driverStates /\ driverStates'[d] = driverStates[d]
        <4>1. d \in Driver /\ driverStates[d] \in Int /\ Keeps(d, driverStates[d])
          BY <1>1, <3>1 DEF ServiceTypeOK, SerialInOrder
        <4>2. \A c \in Driver, t \in Int : Keeps(c, t) => pointsByDriver'[c] # <<>> /\ t <= pointsByDriver'[c][1].at
          BY <2>1 DEF Keeps
        <4> QED
          BY <3>1, <4>1, <4>2 DEF Keeps
      <3>2. ASSUME NEW r \in Req, At(r, "adding"), d = Head(requests[r].work).driver,
                   driverStates'[d] = Head(requests[r].work).at
            PROVE  Keeps(d, driverStates[d])'
        <4>1. PICK i \in 1..Len(requests[r].trace) :
                /\ Head(requests[r].work).driver = requests[r].event.driver
                /\ Head(requests[r].work).at = requests[r].trace[i].at
          BY <3>2, AddedIsOfTrace
        <4>2. r \in InFlight
          BY <3>2 DEF At, InFlight, Finished, Answered
        <4>3. Keeps(d, driverStates'[d])
          BY <1>1, <3>2, <4>1, <4>2 DEF SerialInOrder, TraceAhead, At
        <4>4. d \in Driver /\ driverStates'[d] \in Int
          BY <3>2, WorkFacts, ObservedFacts
        <4>5. \A c \in Driver, t \in Int : Keeps(c, t) => pointsByDriver'[c] # <<>> /\ t <= pointsByDriver'[c][1].at
          BY <2>1 DEF Keeps
        <4> QED
          BY <4>3, <4>4, <4>5 DEF Keeps
      <3>3. \/ d \in DOMAIN driverStates /\ driverStates'[d] = driverStates[d]
            \/ \E r \in Req : /\ At(r, "adding") /\ d = Head(requests[r].work).driver
                              /\ driverStates'[d] = Head(requests[r].work).at
        <4>1. ASSUME NEW o, Remember(o)
              PROVE  \/ d \in DOMAIN driverStates /\ driverStates'[d] = driverStates[d]
                     \/ d = o.driver /\ driverStates'[d] = o.at
          BY <2>2, <4>1, RememberFacts
        <4>2. CASE UNCHANGED driverStates
          BY <2>2, <4>2
        <4> QED
          BY <2>2, <4>1, <4>2, MemorySteps
      <3> QED
        BY <3>1, <3>2, <3>3
    <2>3. ASSUME NEW x \in InFlight'  PROVE TraceAhead(requests[x])'
      BY <1>1, <1>4, <2>3, TraceAheadStep
    <2>4. ASSUME NEW x \in Req, requests'[x].pc = "older"  PROVE FALSE
      <3> DEFINE q == requests[x]
      <3>1. \A answer : Ended(answer).pc = answer
        BY DEF Ended
      <3>2. \A pc, work : Moved(q, pc, q.trace, work).pc = pc
        BY DEF Moved
      <3>3. q.pc # "older"
        BY <1>1 DEF SerialInOrder, At
      <3>4. ~BufferAdd(x)
        <4>1. BufferAdd(x) => requests'[x].pc \in {"refused", "panicked", "flushing", "matching"}
          <5>1. \A pc, trace, work : Moved(q, pc, trace, work).pc = pc
            BY DEF Moved
          <5> QED
            BY <3>1, <5>1, BufferAddFacts DEF Moves
        <4> QED
          BY <2>4, <4>1
      <3>5. At(x, "adding") /\ Older(Head(q.work))
        <4> HIDE DEF q
        <4> QED
          BY <2>4, <3>1, <3>2, <3>3, <3>4, RequestSteps DEF q
      <3>6. x \in InFlight /\ Head(q.work).driver = q.event.driver
        BY <3>5, AddedIsOfTrace DEF At, InFlight, Finished, Answered
      <3>7. q.event.driver \in DOMAIN driverStates => driverStates[q.event.driver] <= Head(q.work).at
        BY <1>1, <3>5, <3>6 DEF SerialInOrder, TraceAhead, At
      <3>8. Head(q.work).at \in Int
        BY <3>5, WorkFacts, ObservedFacts
      <3> QED
        BY <3>5, <3>6, <3>7, <3>8 DEF Older, Known, ServiceTypeOK
    <2> QED
      BY <1>2, <2>2, <2>3, <2>4
  <1> QED
    BY <1>3, <1>4, BufferUse

(* With one overlap point, a client that waits for each answer is never    *)
(* told that its point is older than what it sent before, whatever other   *)
(* clients' requests do, and whatever matches, requests and processes end. *)
THEOREM SerialClientNeverOlder == ServiceSpec => []SerialNeverOlder
  <1>1. ServiceInit => RequestsFit /\ PointsRise
    BY EmptySeq DEF ServiceInit, Init, NewBuffer, RequestsFit, Fits, PointsRise, BuffersRise, TraceRises, Rising,
           IsOf, Idle
  <1>2. ServiceInit => MemoryIsNewest
    BY DEF ServiceInit, Init, NewProcessor, NewDriverStateBuffer, MemoryIsNewest
  <1>3. ServiceInit => SerialInOrder
    <2> SUFFICES ASSUME ServiceInit  PROVE SerialInOrder
      OBVIOUS
    <2>1. \A r \in Req : requests[r].pc = "idle"
      BY DEF ServiceInit, Init, Idle
    <2>2. InFlight = {} /\ DOMAIN driverStates = {}
      BY <2>1 DEF InFlight, ServiceInit, Init, NewProcessor, NewDriverStateBuffer
    <2> QED
      BY <2>1, <2>2 DEF SerialInOrder, OneOfEach, At
  <1>4. ServiceTypeOK /\ MemoryIsNewest /\ [ServiceNext]_serviceVars => MemoryIsNewest'
    BY MemoryStep
  <1>5. ServiceTypeOK /\ MemoryIsNewest /\ RequestsFit /\ [ServiceNext]_serviceVars => RequestsFit'
    BY FitsStep
  <1>6. ServiceTypeOK /\ PointsRise /\ [ServiceNext]_serviceVars => PointsRise'
    BY PointsRiseStep
  <1>7. ServiceTypeOK /\ RequestsFit /\ PointsRise /\ SerialInOrder /\ [ServiceNext]_serviceVars => SerialInOrder'
    BY SerialStep
  <1>8. SerialInOrder => SerialNeverOlder
    BY DEF SerialInOrder, SerialNeverOlder, OneByOne
  <1> QED
    BY <1>1, <1>2, <1>3, <1>4, <1>5, <1>6, <1>7, <1>8, TypeCorrect, PTL DEF ServiceSpec

-----------------------------------------------------------------------------
AllWindows == OpenWindows \cup pendingWindows \cup reported

(* The windows hold samples of points that were noted, each point at one   *)
(* place of one window.                                                    *)
WindowsFit ==
  /\ \A w \in AllWindows : w.samples \in Seq(Counted)
  /\ OnePlaceEach(AllWindows)
  /\ Apart(reported)
  /\ \A w \in AllWindows : \A i \in DOMAIN w.samples : PointOf(w.samples[i]) \in noted

(* What any step does to the windows: nothing, one sample more, a flush, or *)
(* a fresh start.                                                          *)
LEMMA WindowSteps ==
  ASSUME ServiceTypeOK, [ServiceNext]_serviceVars
  PROVE  \/ /\ UNCHANGED <<windows, pendingWindows, reported>>
            /\ noted \subseteq noted'
         \/ \E o \in Observed :
              /\ ~Older(o) /\ ~Repeated(o)
              /\ Aggregate(o) /\ noted' = noted \cup {PointOf(o)}
              /\ UNCHANGED <<pendingWindows, reported>>
         \/ \E now, failed :
              /\ FlushDone(now, failed) /\ reported' = reported \cup (Due(now) \ failed)
              /\ UNCHANGED noted
         \/ OpenWindows' = {} /\ pendingWindows' = {} /\ reported' = {}
  <1>1. CASE UNCHANGED serviceVars
    BY <1>1 DEF serviceVars, pipelineVars, processorVars, historyVars
  <1>2. ASSUME NEW r \in Req, NEW e \in Event, Receive(r, e)
        PROVE  UNCHANGED <<windows, pendingWindows, reported, noted>>
    BY <1>2, ReceiveFacts DEF processorVars, historyVars
  <1>3. ASSUME NEW r \in Req, BufferAdd(r) \/ MatchFails(r) \/ MatchSucceeds(r)
        PROVE  UNCHANGED <<windows, pendingWindows, reported, noted>>
    BY <1>3, BufferAddFacts, MatchFacts DEF processorVars, historyVars
  <1>4. ASSUME NEW r \in Req, ProcessorRejects(r)
        PROVE  UNCHANGED <<windows, pendingWindows, reported, noted>>
    BY <1>4 DEF ProcessorRejects, AddRecordError, AddStateError, processorVars, historyVars
  <1>5. ASSUME NEW r \in Req, ProcessorTakes(r)
        PROVE  \/ /\ UNCHANGED <<windows, pendingWindows, reported>>
                  /\ noted \subseteq noted'
               \/ \E o \in Observed :
                    /\ ~Older(o) /\ ~Repeated(o)
                    /\ Aggregate(o) /\ noted' = noted \cup {PointOf(o)}
                    /\ UNCHANGED <<pendingWindows, reported>>
    <2>1. Head(requests[r].work) \in Observed
      BY <1>5, WorkFacts DEF ProcessorTakes
    <2> QED
      BY <1>5, <2>1 DEF ProcessorTakes, AddRepeated, AddNoted, AddAggregated, AddFails, StateRefuses, PointOf
  <1>6. ASSUME NEW r \in Req, Flush(r)
        PROVE  \E now, failed : /\ FlushDone(now, failed) /\ reported' = reported \cup (Due(now) \ failed)
                                /\ UNCHANGED noted
    BY <1>6 DEF Flush
  <1>7. CASE Cut
    BY <1>7 DEF Cut, processorVars, historyVars
  <1>8. CASE Start
    BY <1>8 DEF Start, OpenWindows
  <1>9. CASE ServiceNext
    BY <1>2, <1>3, <1>4, <1>5, <1>6, <1>7, <1>8, <1>9, ServiceSteps DEF Step, processorVars, historyVars
  <1> QED
    BY <1>1, <1>9

(* Only a point that was not noted before is put in a window.              *)
LEMMA WindowsFitStep ==
  ASSUME ServiceTypeOK, MemoryIsNewest, WindowsFit, [ServiceNext]_serviceVars
  PROVE  WindowsFit'
  <1>1. ASSUME UNCHANGED <<windows, pendingWindows, reported>>, noted \subseteq noted'  PROVE WindowsFit'
    <2>1. OpenWindows' = OpenWindows /\ AllWindows' = AllWindows
      BY <1>1 DEF OpenWindows, AllWindows
    <2> QED
      BY <1>1, <2>1 DEF WindowsFit, OnePlaceEach, Apart
  <1>2. ASSUME NEW o \in Observed, ~Older(o), ~Repeated(o), Aggregate(o), noted' = noted \cup {PointOf(o)},
               UNCHANGED <<pendingWindows, reported>>
        PROVE  WindowsFit'
    <2> DEFINE all == OpenWindows \cup pendingWindows \cup reported
               all2 == OpenWindows' \cup pendingWindows' \cup reported
    <2>1. SampleOf(o) \in Counted /\ SampleOf(o).driver = o.driver /\ SampleOf(o).at = o.at /\ o.at \in Int
      BY ObservedFacts
    <2>2. ASSUME NEW w \in all, NEW i \in DOMAIN w.samples, SamePoint(w.samples[i], SampleOf(o))  PROVE FALSE
      <3>1. PointOf(w.samples[i]) \in noted
        BY DEF WindowsFit, AllWindows
      <3>2. PointOf(w.samples[i]).driver = o.driver /\ PointOf(w.samples[i]).at = o.at
        BY <2>1, <2>2 DEF PointOf, SamePoint
      <3>3. o.driver \in DOMAIN driverStates /\ o.at <= driverStates[o.driver]
        BY <3>1, <3>2 DEF MemoryIsNewest
      <3> QED
        BY <1>2, <2>1, <3>3 DEF Older, Repeated, Known, ServiceTypeOK
    <2>3. \A w \in all : w.samples \in Seq(Counted)
      BY DEF WindowsFit, AllWindows
    <2>4. /\ OnePlaceEach(all2)
          /\ pendingWindows' \cap (OpenWindows' \cup reported) = {} /\ OpenWindows' \cap reported = {}
          /\ \A s : HasSample(all2, s) <=> HasSample(all, s) \/ s = SampleOf(o)
      BY <1>2, <2>1, <2>2, <2>3, AggregateKeepsPlaces DEF WindowsFit, AllWindows
    <2>5. \A w \in all2 : w.samples \in Seq(Counted)
      <3> DEFINE old == Bucket(WindowKeyOf(o))
                 after == [key |-> WindowKeyOf(o), samples |-> Append(old, SampleOf(o))]
      <3>1. OpenWindows' \subseteq OpenWindows \cup {after} /\ old \in Seq(Counted)
        BY <1>2, <2>3, AggregateFacts
      <3>2. after.samples \in Seq(Counted)
        BY <2>1, <3>1
      <3> HIDE DEF after
      <3> QED
        BY <1>2, <2>3, <3>1, <3>2
    <2>6. AllWindows' = all2 /\ AllWindows = all
      BY <1>2 DEF AllWindows
    <2> HIDE DEF all, all2
    <2>7. ASSUME NEW w \in all2, NEW i \in DOMAIN w.samples  PROVE PointOf(w.samples[i]) \in noted'
      <3>1. HasSample(all2, w.samples[i])
        BY DEF HasSample
      <3>2. CASE w.samples[i] = SampleOf(o)
        BY <1>2, <2>1, <3>2 DEF PointOf
      <3>3. CASE HasSample(all, w.samples[i])
        BY <1>2, <2>6, <3>3 DEF HasSample, WindowsFit
      <3> QED
        BY <2>4, <3>1, <3>2, <3>3
    <2> QED
      BY <1>2, <2>4, <2>5, <2>6, <2>7 DEF WindowsFit, OnePlaceEach, Apart
  <1>3. ASSUME NEW now, NEW failed, FlushDone(now, failed), reported' = reported \cup (Due(now) \ failed),
               UNCHANGED noted
        PROVE  WindowsFit'
    <2>1. Apart(reported)
      BY DEF WindowsFit
    <2>2. /\ OpenWindows' \cup pendingWindows' \cup reported' = OpenWindows \cup pendingWindows \cup reported
          /\ pendingWindows' \cap (OpenWindows' \cup reported') = {}
          /\ OpenWindows' \cap reported' = {}
      BY <1>3, <2>1, FlushKeepsPlaces
    <2>3. AllWindows' = AllWindows
      BY <2>2 DEF AllWindows
    <2> QED
      BY <1>3, <2>2, <2>3 DEF WindowsFit, OnePlaceEach, Apart
  <1>4. CASE OpenWindows' = {} /\ pendingWindows' = {} /\ reported' = {}
    <2>1. AllWindows' = {}
      BY <1>4 DEF AllWindows
    <2> QED
      BY <1>4, <2>1 DEF WindowsFit, OnePlaceEach, Apart
  <1> QED
    BY <1>1, <1>2, <1>3, <1>4, WindowSteps

-----------------------------------------------------------------------------
(* Where a point can be in this life of the service: with a request in     *)
(* flight, in the buffer, or noted.                                        *)
Carries(q, p) == PointOf(q.event) = p \/ \E i \in DOMAIN q.trace : PointOf(q.trace[i]) = p

Buffered(p) == \E d \in Driver : \E i \in DOMAIN pointsByDriver[d] : PointOf(pointsByDriver[d][i]) = p

Present(p) == p \in noted \/ Buffered(p) \/ \E r \in InFlight : Carries(requests[r], p)

Copies(p, B) == IF p \in DOMAIN B THEN B[p] ELSE 0

(* A point that is about now, and what earlier lives reported, have each   *)
(* been received.                                                          *)
SentEnough ==
  /\ IsABag(sent) /\ IsABag(counted)
  /\ \A p : Copies(p, counted) + (IF Present(p) THEN 1 ELSE 0) <= Copies(p, sent)

(* What is in a bag, and what its union with another has.                  *)
LEMMA BagFacts ==
  /\ \A B : IsABag(B) => \A p : Copies(p, B) \in Nat /\ (p \in DOMAIN B => B[p] \in Nat /\ Copies(p, B) = B[p] /\ B[p] > 0)
  /\ \A B, p : p \notin DOMAIN B => Copies(p, B) = 0
  BY DEF IsABag, Copies

(* Copies in the union of two bags are the copies in each, added.          *)
LEMMA UnionFacts ==
  ASSUME NEW A, NEW B, IsABag(A), IsABag(B)
  PROVE  IsABag(A (+) B) /\ \A p : Copies(p, A (+) B) = Copies(p, A) + Copies(p, B)
  <1> DEFINE C == A (+) B
  <1>1. /\ DOMAIN C = DOMAIN A \cup DOMAIN B
        /\ C = [p \in DOMAIN C |-> C[p]]
        /\ \A p \in DOMAIN C : C[p] = (IF p \in DOMAIN A THEN A[p] ELSE 0) + (IF p \in DOMAIN B THEN B[p] ELSE 0)
    BY DEF (+)
  <1> HIDE DEF C
  <1>2. \A p \in DOMAIN C : C[p] = Copies(p, A) + Copies(p, B)
    BY <1>1 DEF Copies
  <1>3. \A p : Copies(p, A) \in Nat /\ Copies(p, B) \in Nat
               /\ (p \in DOMAIN C => Copies(p, A) > 0 \/ Copies(p, B) > 0)
               /\ (p \notin DOMAIN C => Copies(p, A) = 0 /\ Copies(p, B) = 0)
    BY <1>1, BagFacts
  <1>4. \A p \in DOMAIN C : C[p] \in {n \in Nat : n > 0}
    <2> SUFFICES ASSUME NEW p \in DOMAIN C  PROVE C[p] \in Nat /\ C[p] > 0
      OBVIOUS
    <2>1. \A x, y \in Nat : (x > 0 \/ y > 0) => x + y \in Nat /\ x + y > 0
      OBVIOUS
    <2> QED
      BY <1>2, <1>3, <2>1
  <1>5. IsABag(C)
    BY <1>1, <1>4 DEF IsABag
  <1>6. \A p : Copies(p, C) = Copies(p, A) + Copies(p, B)
    <2> TAKE p
    <2>1. CASE p \in DOMAIN C
      BY <1>2, <1>5, <2>1, BagFacts
    <2>2. CASE p \notin DOMAIN C
      BY <1>3, <2>2, BagFacts
    <2> QED
      BY <2>1, <2>2
  <1> QED
    BY <1>5, <1>6 DEF C

(* A life reports each point at most once, and only points it has noted.   *)
LEMMA ReportedFacts ==
  ASSUME WindowsFit
  PROVE  /\ IsABag(Reported)
         /\ \A p : Copies(p, Reported) <= IF p \in noted THEN 1 ELSE 0
  <1>1. ASSUME NEW w \in reported, NEW i \in DOMAIN w.samples
        PROVE  Cardinality(PlacesReported(PointOf(w.samples[i]))) = 1 /\ PointOf(w.samples[i]) \in noted
    <2> DEFINE p == PointOf(w.samples[i])
    <2>1. w \in AllWindows /\ OnePlaceEach(AllWindows) /\ p \in noted
      BY DEF AllWindows, WindowsFit
    <2>2. ASSUME NEW v \in reported, NEW j \in DOMAIN v.samples, PointOf(v.samples[j]) = p  PROVE v = w /\ j = i
      <3>1. SamePoint(v.samples[j], w.samples[i])
        BY <2>2 DEF PointOf, SamePoint
      <3> QED
        BY <2>1, <3>1 DEF OnePlaceEach, AllWindows
    <2>3. PlacesReported(p) = {<<w, i>>}
      BY <2>2 DEF PlacesReported
    <2> QED
      BY <2>1, <2>3, FS_Singleton
  <1>2. /\ Reported = [p \in DOMAIN Reported |-> Reported[p]]
        /\ \A p \in DOMAIN Reported : Reported[p] = Cardinality(PlacesReported(p))
        /\ \A p \in DOMAIN Reported : \E w \in reported : \E i \in DOMAIN w.samples : p = PointOf(w.samples[i])
    BY DEF Reported
  <1>3. \A p \in DOMAIN Reported : Reported[p] = 1 /\ p \in noted
    BY <1>1, <1>2
  <1> HIDE DEF Reported
  <1>4. IsABag(Reported)
    BY <1>2, <1>3 DEF IsABag
  <1> QED
    BY <1>3, <1>4, BagFacts

(* What Add stores and what it emits was there before, or is the event.    *)
LEMMA BufferAddPoints ==
  ASSUME ServiceTypeOK, NEW r \in Req, BufferAdd(r), NEW p
  PROVE  /\ Buffered(p)' => Buffered(p) \/ PointOf(requests[r].event) = p
         /\ \A x \in InFlight' : Carries(requests'[x], p) => Buffered(p) \/ (x \in InFlight /\ Carries(requests[x], p))
  <1> DEFINE q == requests[r]
             e == q.event
             held == pointsByDriver[e.driver]
             grown == Grown(e)
  <1>1. At(r, "received") /\ r \in InFlight
    BY BufferAddFacts DEF At, InFlight, Finished, Answered
  <1>2. /\ \A answer : Ended(answer).pc = answer
        /\ \A pc, trace, work : Moved(q, pc, trace, work).event = e /\ Moved(q, pc, trace, work).trace = trace
    BY DEF Ended, Moved
  <1>3. {"refused", "panicked"} \subseteq Finished
    BY DEF Finished, Answered
  <1>4. CASE Moves(r, Ended("refused")) /\ UNCHANGED pointsByDriver
    <2>1. \A x \in InFlight' : x \in InFlight /\ requests'[x] = requests[x]
      BY <1>2, <1>3, <1>4, InFlightFacts DEF Moves, InFlight
    <2> QED
      BY <1>4, <2>1 DEF Buffered, Carries
  <1>5. CASE ~(Moves(r, Ended("refused")) /\ UNCHANGED pointsByDriver)
    <2>1. /\ e \in DriverEvent /\ held \in Seq(DriverEvent)
          /\ grown \in Seq(DriverEvent)
          /\ \/ Moves(r, Ended("panicked"))
             \/ Moves(r, Moved(q, "flushing", q.trace, q.work))
             \/ Moves(r, Moved(q, "matching", grown, q.work))
          /\ \/ pointsByDriver' = [pointsByDriver EXCEPT ![e.driver] = grown]
             \/ /\ config.overlapPoints \in 0..Len(grown)
                /\ pointsByDriver' = [pointsByDriver EXCEPT ![e.driver] = Overlap(grown)]
      BY <1>5, BufferAddFacts
    <2>2. \A i \in DOMAIN grown : grown[i] = e \/ \E j \in DOMAIN held : held[j] = grown[i]
      <3>1. /\ DOMAIN held = 1..Len(held) /\ Len(held) \in Nat
            /\ DOMAIN grown = 1..(Len(held) + 1) /\ grown[Len(held) + 1] = e
            /\ \A i \in 1..Len(held) : grown[i] = held[i]
        <4> HIDE DEF e, held
        <4> QED
          BY <2>1, AppendProperties DEF Grown, e, held
      <3> HIDE DEF grown, held, e
      <3> TAKE i \in DOMAIN grown
      <3>2. i = Len(held) + 1 \/ i \in 1..Len(held)
        BY <3>1
      <3> QED
        BY <3>1, <3>2
    <2> HIDE DEF grown
    <2>3. config.overlapPoints \in 0..Len(grown)
            => \A i \in DOMAIN Overlap(grown) : \E j \in DOMAIN grown : grown[j] = Overlap(grown)[i]
      <3> SUFFICES ASSUME config.overlapPoints \in 0..Len(grown), NEW i \in DOMAIN Overlap(grown)
                   PROVE  \E j \in DOMAIN grown : grown[j] = Overlap(grown)[i]
        OBVIOUS
      <3> DEFINE n == config.overlapPoints
                 kept == Overlap(grown)
      <3>1. /\ kept \in Seq(DriverEvent) /\ Len(kept) = n
            /\ \A k \in 1..n : kept[k] = grown[Len(grown) - n + k]
        <4>1. n \in 0..Len(grown) /\ kept = SubSeq(grown, Len(grown) - n + 1, Len(grown))
          BY DEF Overlap
        <4> HIDE DEF n, kept
        <4> QED
          BY <2>1, <4>1, SuffixFacts
      <3>2. i \in 1..n /\ n \in 0..Len(grown) /\ Len(grown) \in Nat /\ DOMAIN grown = 1..Len(grown)
        BY <2>1, <3>1
      <3> HIDE DEF n, kept
      <3>3. Len(grown) - n + i \in DOMAIN grown
        BY <3>2
      <3> QED
        BY <3>1, <3>2, <3>3 DEF kept
    <2>4. e.driver \in Driver /\ pointsByDriver \in [Driver -> Seq(DriverEvent)]
      BY <2>1, ObservedFacts DEF ServiceTypeOK
    <2>5. \A i \in DOMAIN grown : PointOf(grown[i]) = PointOf(e) \/ Buffered(PointOf(grown[i]))
      BY <2>2, <2>4 DEF Buffered
    <2>6. ASSUME Buffered(p)'  PROVE Buffered(p) \/ PointOf(e) = p
      <3>1. PICK d \in Driver : \E i \in DOMAIN pointsByDriver'[d] : PointOf(pointsByDriver'[d][i]) = p
        BY <2>6 DEF Buffered, PointOf
      <3>2. PICK i \in DOMAIN pointsByDriver'[d] : PointOf(pointsByDriver'[d][i]) = p
        BY <3>1
      <3>3. CASE d # e.driver
        <4>1. pointsByDriver'[d] = pointsByDriver[d]
          BY <2>1, <2>4, <3>3
        <4> QED
          BY <3>2, <4>1 DEF Buffered
      <3>4. CASE d = e.driver
        <4>1. \/ pointsByDriver'[d] = grown
              \/ config.overlapPoints \in 0..Len(grown) /\ pointsByDriver'[d] = Overlap(grown)
          BY <2>1, <2>4, <3>4
        <4>2. \E j \in DOMAIN grown : grown[j] = pointsByDriver'[d][i]
          BY <2>3, <3>2, <4>1
        <4> QED
          BY <2>5, <3>2, <4>2
      <3> QED
        BY <3>3, <3>4
    <2>7. ASSUME NEW x \in InFlight', Carries(requests'[x], p)
          PROVE  Buffered(p) \/ (x \in InFlight /\ Carries(requests[x], p))
      <3>1. CASE x # r
        <4>1. requests'[x] = requests[x] /\ x \in InFlight
          BY <2>1, <3>1 DEF Moves, InFlight
        <4> QED
          BY <2>7, <4>1
      <3>2. CASE x = r
        <4>1. requests'[r].event = e /\ (requests'[r].trace = q.trace \/ requests'[r].trace = grown)
          BY <1>2, <1>3, <2>1, <3>2 DEF Moves, InFlight
        <4>2. \/ PointOf(e) = p
              \/ \E i \in DOMAIN q.trace : PointOf(q.trace[i]) = p
              \/ \E i \in DOMAIN grown : PointOf(grown[i]) = p
          BY <2>7, <3>2, <4>1 DEF Carries
        <4> QED
          BY <1>1, <2>5, <3>2, <4>2 DEF Carries
      <3> QED
        BY <3>1, <3>2
    <2> QED
      BY <2>6, <2>7
  <1> QED
    BY <1>4, <1>5

(* What any step does to the counts of the points received and reported.   *)
LEMMA SentSteps ==
  ASSUME ServiceTypeOK, [ServiceNext]_serviceVars
  PROVE  \/ /\ UNCHANGED <<sent, counted>>
            /\ \/ UNCHANGED <<pointsByDriver, requests, noted>>
               \/ \E r \in Req : Step(r)
               \/ Cut
         \/ /\ \E r \in Req, e \in Event : Receive(r, e) /\ sent' = sent (+) SetToBag({PointOf(e)})
            /\ UNCHANGED counted
         \/ Start
  <1>1. CASE UNCHANGED serviceVars
    BY <1>1 DEF serviceVars, pipelineVars, bufferVars, historyVars, clientVars
  <1>2. CASE Open \/ BodyLost \/ Signal \/ Drained
    BY <1>2 DEF Open, BodyLost, Signal, Drained, pipelineVars, bufferVars, historyVars, clientVars
  <1>3. CASE Wait
    BY <1>3 DEF Wait, Tick, bufferVars, historyVars, clientVars
  <1>4. ASSUME NEW r \in Req, NEW e \in Event, BodyArrives(r, e)
        PROVE  Receive(r, e) /\ sent' = sent (+) SetToBag({PointOf(e)}) /\ UNCHANGED counted
    BY <1>4 DEF BodyArrives
  <1>5. ASSUME NEW r \in Req, Serve(r)  PROVE Step(r) /\ UNCHANGED <<sent, counted>>
    BY <1>5 DEF Serve, clientVars
  <1>6. CASE DrainTimesOut \/ Crash
    BY <1>6 DEF DrainTimesOut, Crash, Cut
  <1> QED
    BY <1>1, <1>2, <1>3, <1>4, <1>5, <1>6 DEF ServiceNext

(* A request's step, or the end of the process, brings no point about that *)
(* was not there.                                                          *)
LEMMA StepKeepsPoints ==
  ASSUME ServiceTypeOK, RequestsFit, PointsRise, [ServiceNext]_serviceVars,
         Cut \/ \E r \in Req : Step(r), NEW p, Present(p)'
  PROVE  Present(p)
  <1>1. CASE Cut
    <2>1. InFlight' = {} /\ noted' = noted /\ pointsByDriver' = pointsByDriver
      BY <1>1, CutFacts DEF bufferVars
    <2> QED
      BY <2>1 DEF Present, Buffered
  <1>2. ASSUME NEW r \in Req, Step(r)  PROVE Present(p)
    <2>1. ASSUME NEW x \in Req, At(x, "adding"), p = PointOf(Head(requests[x].work))  PROVE Present(p)
      <3>1. PICK i \in 1..Len(requests[x].trace) : PointOf(Head(requests[x].work)) = PointOf(requests[x].trace[i])
        BY <2>1, AddedIsOfTrace
      <3>2. requests[x].trace \in Seq(DriverEvent)
        BY MoveFacts DEF Request
      <3>3. x \in InFlight
        BY <2>1 DEF At, InFlight, Finished, Answered
      <3> QED
        BY <2>1, <3>1, <3>2, <3>3 DEF Present, Carries
    <2>2. p \in noted' => Present(p)
      BY <2>1, MemorySteps DEF Present
    <2>3. CASE BufferAdd(r)
      <3>1. r \in InFlight
        BY <2>3, BufferAddFacts DEF At, InFlight, Finished, Answered
      <3>2. Buffered(p)' => Present(p)
        BY <2>3, <3>1, BufferAddPoints DEF Present, Carries
      <3>3. (\E x \in InFlight' : Carries(requests'[x], p)) => Present(p)
        BY <2>3, BufferAddPoints DEF Present
      <3> QED
        BY <2>2, <3>2, <3>3 DEF Present, Carries, PointOf
    <2>4. CASE ~BufferAdd(r)
      <3>1. UNCHANGED pointsByDriver
        BY <1>2, <2>4, MatchFacts, AddFacts, FlushFacts DEF Step, bufferVars
      <3>2. ASSUME NEW x \in InFlight'
            PROVE  x \in InFlight /\ requests'[x].event = requests[x].event /\ requests'[x].trace = requests[x].trace
        <4> DEFINE q == requests[r]
        <4>1. \/ \E answer \in Finished : Moves(r, Ended(answer))
              \/ At(r, "matching") /\ \E pc, work : Moves(r, Moved(q, pc, q.trace, work))
              \/ At(r, "adding") /\ \E pc, work : Moves(r, Moved(q, pc, q.trace, work))
          <5>1. {"unmatched", "older", "invalid", "ok", "uncalculated"} \subseteq Finished
            BY DEF Finished, Answered
          <5>2. MatchFails(r) \/ MatchSucceeds(r) =>
                  \/ Moves(r, Ended("unmatched"))
                  \/ At(r, "matching") /\ \E pc, work : Moves(r, Moved(q, pc, q.trace, work))
            BY MatchFacts
          <5>3. ProcessorRejects(r) \/ ProcessorTakes(r) =>
                  \/ Moves(r, Ended("older")) \/ Moves(r, Ended("invalid"))
                  \/ At(r, "adding") /\ \E pc, work : Moves(r, Moved(q, pc, q.trace, work))
            BY AddFacts
          <5>4. Flush(r) => \E answer \in {"ok", "uncalculated"} : Moves(r, Ended(answer))
            BY FlushFacts
          <5> HIDE DEF q
          <5> QED
            BY <1>2, <2>4, <5>1, <5>2, <5>3, <5>4 DEF Step
        <4>2. /\ \A answer : Ended(answer).pc = answer
              /\ \A pc, work : Moved(q, pc, q.trace, work).event = q.event /\ Moved(q, pc, q.trace, work).trace = q.trace
          BY DEF Ended, Moved
        <4>3. CASE x # r
          BY <4>1, <4>3 DEF Moves, InFlight
        <4>4. CASE x = r
          <5>1. \A answer \in Finished : ~Moves(r, Ended(answer))
            BY <4>2, <4>4 DEF Moves, InFlight
          <5>2. r \in InFlight
            BY <4>1, <5>1 DEF At, InFlight, Finished, Answered
          <5> QED
            BY <4>1, <4>2, <4>4, <5>1, <5>2 DEF Moves
        <4> QED
          BY <4>3, <4>4
      <3>3. (\E x \in InFlight' : Carries(requests'[x], p)) => Present(p)
        BY <3>2 DEF Present, Carries
      <3>4. Buffered(p)' => Present(p)
        BY <3>1 DEF Present, Buffered
      <3> QED
        BY <2>2, <3>3, <3>4 DEF Present, Carries, PointOf
    <2> QED
      BY <2>3, <2>4
  <1> QED
    BY <1>1, <1>2

(* A body is counted when its point comes; a life's reports are added to   *)
(* the count when the next begins, which has none of the points yet.       *)
LEMMA SentStep ==
  ASSUME ServiceTypeOK, RequestsFit, PointsRise, WindowsFit, SentEnough, [ServiceNext]_serviceVars
  PROVE  SentEnough'
  <1>1. IsABag(sent) /\ IsABag(counted)
    BY DEF SentEnough
  <1>2. \A p : Copies(p, sent) \in Nat /\ Copies(p, counted) \in Nat
    BY <1>1, BagFacts
  <1>3. ASSUME UNCHANGED <<sent, counted>>, \A p : Present(p)' => Present(p)  PROVE SentEnough'
    <2> SUFFICES ASSUME NEW p
                 PROVE  Copies(p, counted) + (IF Present(p)' THEN 1 ELSE 0) <= Copies(p, sent)
      BY <1>1, <1>3 DEF SentEnough, Copies
    <2>1. Copies(p, counted) + (IF Present(p) THEN 1 ELSE 0) <= Copies(p, sent)
      BY DEF SentEnough
    <2> QED
      BY <1>2, <1>3, <2>1
  <1>4. CASE UNCHANGED <<sent, counted, pointsByDriver, requests, noted>>
    BY <1>3, <1>4 DEF Present, Buffered, InFlight, Carries
  <1>5. CASE UNCHANGED <<sent, counted>> /\ (Cut \/ \E r \in Req : Step(r))
    BY <1>3, <1>5, StepKeepsPoints
  <1>6. ASSUME NEW r \in Req, NEW e \in Event, Receive(r, e), sent' = sent (+) SetToBag({PointOf(e)}), UNCHANGED counted
        PROVE  SentEnough'
    <2> DEFINE one == SetToBag({PointOf(e)})
    <2>1. IsABag(one) /\ DOMAIN one = {PointOf(e)} /\ one[PointOf(e)] = 1
      BY DEF SetToBag, IsABag
    <2> HIDE DEF one
    <2>2. \A p : Copies(p, one) = IF p = PointOf(e) THEN 1 ELSE 0
      BY <2>1 DEF Copies
    <2>3. IsABag(sent') /\ \A p : Copies(p, sent') = Copies(p, sent) + Copies(p, one)
      BY <1>1, <1>6, <2>1, UnionFacts DEF one
    <2>4. /\ UNCHANGED <<pointsByDriver, noted>>
          /\ Moves(r, Received(e)) /\ Received(e).event = e /\ Received(e).trace = <<>>
      BY <1>6, ReceiveFacts DEF bufferVars, historyVars
    <2>5. ASSUME NEW p, Present(p)', p # PointOf(e)  PROVE Present(p)
      <3>1. ASSUME NEW x \in InFlight', Carries(requests'[x], p)  PROVE x \in InFlight /\ Carries(requests[x], p)
        <4>1. x # r
          BY <2>4, <2>5, <3>1 DEF Carries, Moves
        <4> QED
          BY <2>4, <3>1, <4>1 DEF Moves, InFlight
      <3> QED
        BY <2>4, <2>5, <3>1 DEF Present, Buffered, Carries
    <2> SUFFICES ASSUME NEW p
                 PROVE  Copies(p, counted) + (IF Present(p)' THEN 1 ELSE 0) <= Copies(p, sent')
      BY <1>1, <1>6, <2>3 DEF SentEnough, Copies
    <2>6. Copies(p, counted) + (IF Present(p) THEN 1 ELSE 0) <= Copies(p, sent)
      BY DEF SentEnough
    <2>7. CASE p = PointOf(e)
      <3>1. Copies(p, sent') = Copies(p, sent) + 1
        BY <2>2, <2>3, <2>7
      <3> QED
        BY <1>2, <2>6, <3>1
    <2>8. CASE p # PointOf(e)
      <3>1. Copies(p, sent') = Copies(p, sent)
        BY <1>2, <2>2, <2>3, <2>8
      <3> QED
        BY <1>2, <2>5, <2>6, <2>8, <3>1
    <2> QED
      BY <2>7, <2>8
  <1>7. CASE Start
    <2>1. counted' = counted (+) Reported /\ sent' = sent
      BY <1>7 DEF Start, clientVars
    <2>2. IsABag(counted') /\ \A p : Copies(p, counted') = Copies(p, counted) + Copies(p, Reported)
      BY <1>1, <2>1, ReportedFacts, UnionFacts
    <2>3. ASSUME NEW p  PROVE ~Present(p)'
      <3>1. InFlight' = {}
        BY <1>7, StartFacts DEF InFlight
      <3>2. ~Buffered(p)'
        BY <1>7, StartFacts DEF Buffered
      <3> QED
        BY <1>7, <3>1, <3>2, StartFacts DEF Present
    <2>4. ASSUME NEW p  PROVE Copies(p, counted') <= Copies(p, sent)
      <3>1. Copies(p, Reported) <= (IF Present(p) THEN 1 ELSE 0) /\ Copies(p, Reported) \in Nat
        BY ReportedFacts, BagFacts DEF Present
      <3>2. Copies(p, counted) + (IF Present(p) THEN 1 ELSE 0) <= Copies(p, sent)
        BY DEF SentEnough
      <3> QED
        BY <1>2, <2>2, <3>1, <3>2
    <2> SUFFICES ASSUME NEW p
                 PROVE  Copies(p, counted') + (IF Present(p)' THEN 1 ELSE 0) <= Copies(p, sent')
      BY <1>1, <2>1, <2>2 DEF SentEnough, Copies
    <2>5. Copies(p, counted') \in Nat
      BY <2>2, BagFacts
    <2> QED
      BY <2>1, <2>3, <2>4, <2>5
  <1> QED
    BY <1>4, <1>5, <1>6, <1>7, SentSteps

(* Over all its lives, with crashes at any moment and clients that send    *)
(* points again, the service reports no point more often than it got it.   *)
THEOREM ReportsOnlyWhatCame == ServiceSpec => []ReportedNoMoreThanSent
  <1>1. ServiceInit => RequestsFit /\ PointsRise
    BY EmptySeq DEF ServiceInit, Init, NewBuffer, RequestsFit, Fits, PointsRise, BuffersRise, TraceRises, Rising,
           IsOf, Idle
  <1>2. ServiceInit => MemoryIsNewest
    BY DEF ServiceInit, Init, NewProcessor, NewDriverStateBuffer, MemoryIsNewest
  <1>3. ServiceInit => WindowsFit
    <2> SUFFICES ASSUME ServiceInit  PROVE WindowsFit
      OBVIOUS
    <2>1. OpenWindows = {} /\ pendingWindows = {} /\ reported = {}
      BY DEF ServiceInit, Init, NewProcessor, NewAggregator, OpenWindows
    <2> QED
      BY <2>1 DEF WindowsFit, AllWindows, OnePlaceEach, Apart
  <1>4. ServiceInit => SentEnough
    <2> SUFFICES ASSUME ServiceInit  PROVE SentEnough
      OBVIOUS
    <2>1. IsABag(EmptyBag) /\ DOMAIN EmptyBag = {}
      BY DEF EmptyBag, SetToBag, IsABag
    <2>2. \A p : Copies(p, EmptyBag) = 0
      BY <2>1, BagFacts
    <2>3. sent = EmptyBag /\ counted = EmptyBag
      BY DEF ServiceInit
    <2>4. ASSUME NEW p  PROVE ~Present(p)
      <3>1. InFlight = {} /\ noted = {} /\ ~Buffered(p)
        BY DEF ServiceInit, Init, NewBuffer, InFlight, Idle, Buffered
      <3> QED
        BY <3>1 DEF Present
    <2> QED
      BY <2>1, <2>2, <2>3, <2>4 DEF SentEnough
  <1>5. ServiceTypeOK /\ MemoryIsNewest /\ [ServiceNext]_serviceVars => MemoryIsNewest'
    BY MemoryStep
  <1>6. ServiceTypeOK /\ MemoryIsNewest /\ RequestsFit /\ [ServiceNext]_serviceVars => RequestsFit'
    BY FitsStep
  <1>7. ServiceTypeOK /\ PointsRise /\ [ServiceNext]_serviceVars => PointsRise'
    BY PointsRiseStep
  <1>8. ServiceTypeOK /\ MemoryIsNewest /\ WindowsFit /\ [ServiceNext]_serviceVars => WindowsFit'
    BY WindowsFitStep
  <1>9. ServiceTypeOK /\ RequestsFit /\ PointsRise /\ WindowsFit /\ SentEnough /\ [ServiceNext]_serviceVars => SentEnough'
    BY SentStep
  <1>10. WindowsFit /\ SentEnough => ReportedNoMoreThanSent
    <2> SUFFICES ASSUME WindowsFit, SentEnough  PROVE counted (+) Reported \sqsubseteq sent
      BY DEF ReportedNoMoreThanSent
    <2> DEFINE total == counted (+) Reported
    <2>1. IsABag(total) /\ \A p : Copies(p, total) = Copies(p, counted) + Copies(p, Reported)
      BY ReportedFacts, UnionFacts DEF SentEnough
    <2> HIDE DEF total
    <2>2. ASSUME NEW p  PROVE Copies(p, total) <= Copies(p, sent)
      <3>1. /\ Copies(p, Reported) <= (IF Present(p) THEN 1 ELSE 0) /\ Copies(p, Reported) \in Nat
            /\ Copies(p, counted) \in Nat /\ Copies(p, sent) \in Nat
        BY ReportedFacts, BagFacts DEF Present, SentEnough
      <3>2. Copies(p, counted) + (IF Present(p) THEN 1 ELSE 0) <= Copies(p, sent)
        BY DEF SentEnough
      <3> QED
        BY <2>1, <3>1, <3>2
    <2>3. \A p \in DOMAIN total : p \in DOMAIN sent /\ total[p] <= sent[p]
      <3> TAKE p \in DOMAIN total
      <3>1. total[p] > 0 /\ total[p] \in Nat /\ Copies(p, total) = total[p]
        BY <2>1, BagFacts
      <3>2. p \in DOMAIN sent
        BY <2>2, <3>1, BagFacts
      <3>3. Copies(p, sent) = sent[p]
        BY <3>2 DEF Copies
      <3> QED
        BY <2>2, <3>1, <3>2, <3>3
    <2> QED
      BY <2>3 DEF \sqsubseteq, total
  <1> QED
    BY <1>1, <1>2, <1>3, <1>4, <1>5, <1>6, <1>7, <1>8, <1>9, <1>10, TypeCorrect, PTL DEF ServiceSpec
=============================================================================
