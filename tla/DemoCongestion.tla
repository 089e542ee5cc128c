--------------------------- MODULE DemoCongestion ---------------------------
(***************************************************************************)
(* mapview.DemoCongestionCalculator: one POST /v1/demo/congestion replays  *)
(* a recorded GPS file through the matcher and a traffic processor of its  *)
(* own, then flushes once.  Unlike the live service it cuts its traces     *)
(* from each driver's sorted points at a fixed step, for a bounded number  *)
(* of traces.  One goroutine runs it and shares nothing.                   *)
(***************************************************************************)
EXTENDS TrafficProcessor, Matching, Selection

CONSTANTS
  Driver,             (* driver identifiers, numbered in their string order  *)
  TracePoints,        (* demoTracePoints                                     *)
  TraceStep,          (* demoTraceStep                                       *)
  MaxTraces,          (* demoMaxTraces                                       *)
  PointsPerDriver,    (* demoPointsPerDriver                                 *)
  File,               (* sequences of rows, or Nil for an unreadable file    *)
  Request,            (* records [keys, boundsOK, vehicle]                   *)
  Answer              (* what GraphHopper may answer for a point             *)

ASSUME DemoAssumption ==
  /\ {TracePoints, TraceStep, MaxTraces, PointsPerDriver} \subseteq Nat \ {0}
  /\ Driver \subseteq Nat /\ IsFiniteSet(Driver)
  /\ \A file \in File \ {Nil} :
       file \in Seq(ToSet(file)) /\ \A i \in DOMAIN file : file[i].at \in Nat

VARIABLES
  request,
  eventsByDriver,   (* candidates of each driver, sorted by time             *)
  pc,               (* tracing, adding, then ok (200) or failed (422)        *)
  driverIDs,        (* the drivers not finished yet, in order                *)
  start,            (* index in the first driver's events of the next trace  *)
  response,         (* AttemptedTraces, MatchedTraces, MatchedObservations   *)
  work,             (* observations of the current trace not yet added       *)
  latest,           (* newest time added                                     *)
  attempts,         (* history: the traces tried, as <<driver, start>>       *)
  fed,              (* history: the observations added, in order             *)
  states            (* the windows in the answer                             *)

callVars == <<request, eventsByDriver>>
vars == <<processorVars, callVars, pc, driverIDs, start, response, work, latest, attempts, fed, states>>

-----------------------------------------------------------------------------
RequestRefused(q) ==
  \/ q.keys = {}
  \/ \E k \in q.keys : k < 0
  \/ ~q.boundsOK
  \/ q.vehicle \notin {"car", "motorcycle"}

(* readGPSCandidates: of each driver the first points in the file that are *)
(* usable (inside the bounds, and Canonicalize takes them) and of the      *)
(* requested vehicle, whatever their time.                                 *)
Candidates(file, vehicle, d) ==
  LET own == SelectAt(file, {i \in DOMAIN file :
                              /\ file[i].usable /\ file[i].driver = d
                              /\ NormalizeVehicleType(file[i].vehicle) = vehicle})
  IN  SubSeq(own, 1, Min({Len(own), PointsPerDriver}))

(* sort.Slice by time: points of one time come out in any order.           *)
Arrangements(points) ==
  {arranged \in {[i \in DOMAIN points |-> points[p[i]]] : p \in SetToSeqs(DOMAIN points)} :
     \A i, j \in DOMAIN points : i < j => arranged[i].at <= arranged[j].at}

Init ==
  /\ request \in Request
  /\ NewProcessor({"max_speed"})
  /\ \E file \in File :
       IF RequestRefused(request) \/ file = Nil
       THEN pc = "failed" /\ eventsByDriver = [d \in {} |-> <<>>]
       ELSE /\ pc = "tracing"
            /\ LET Found(d) == Candidates(file, request.vehicle, d)
                   drivers == {d \in Driver : Found(d) # <<>>}
               IN  eventsByDriver \in [drivers -> UNION {Arrangements(Found(d)) : d \in drivers}]
                     /\ \A d \in drivers : eventsByDriver[d] \in Arrangements(Found(d))
  /\ driverIDs \in SetToSeqs(DOMAIN eventsByDriver)
  /\ \A i, j \in DOMAIN driverIDs : i < j => driverIDs[i] < driverIDs[j]
  /\ start = 0
  /\ response = [attemptedTraces |-> 0, matchedTraces |-> 0, matchedObservations |-> 0]
  /\ work = <<>>
  /\ latest = ZeroTime
  /\ attempts = {}
  /\ fed = <<>>
  /\ states = {}

-----------------------------------------------------------------------------
Spent == response.attemptedTraces >= MaxTraces

(* The same, off by one.                                                   *)
DriverDoneEarly == start + TracePoints >= Len(eventsByDriver[Head(driverIDs)])

(* No room for another trace: the rest of the driver's points is left out. *)
DriverDone == start + TracePoints > Len(eventsByDriver[Head(driverIDs)])

NextDriver ==
  /\ pc = "tracing" /\ driverIDs # <<>> /\ ~Spent
  /\ DriverDone
  /\ driverIDs' = Tail(driverIDs)
  /\ start' = 0
  /\ UNCHANGED <<processorVars, callVars, pc, response, work, latest, attempts, fed, states>>

Attempt ==
  /\ pc = "tracing" /\ driverIDs # <<>> /\ ~Spent
  /\ ~DriverDone
  /\ attempts' = attempts \cup {<<Head(driverIDs), start>>}
  /\ start' = start + TraceStep
  /\ UNCHANGED <<processorVars, callVars, driverIDs, latest, fed, states>>

(* A trace that the matcher refuses is passed over.                        *)
TraceUnmatched ==
  /\ Attempt
  /\ response' = [response EXCEPT !.attemptedTraces = @ + 1]
  /\ UNCHANGED <<pc, work>>

(* A trace that is matched: its observations on the requested segments are *)
(* added one by one.                                                       *)
Wanted(o) == o.matched /\ o.key # Nil /\ o.key \in request.keys

TraceMatched ==
  /\ Attempt
  /\ LET points == SubSeq(eventsByDriver[Head(driverIDs)], start + 1, start + TracePoints)
     IN  /\ ~RouterRefuses(points) /\ ~EncodeRefuses(points)
         /\ \E answers \in [DOMAIN points -> {a \in Answer : ~AnswerRefused(a)}] :
              LET observations == [i \in DOMAIN points |-> Observe(points[i], answers[i])]
              IN  work' = SelectAt(observations, {i \in DOMAIN points : Wanted(observations[i])})
  /\ response' = [response EXCEPT !.attemptedTraces = @ + 1, !.matchedTraces = @ + 1]
  /\ pc' = IF work' = <<>> THEN "tracing" ELSE "adding"

(* processor.Add: its first error ends the whole calculation.              *)
AddErrs ==
  /\ pc = "adding"
  /\ AddRecordError(Head(work)) \/ AddStateError(Head(work))
  /\ pc' = "failed"
  /\ UNCHANGED <<callVars, driverIDs, start, response, work, latest, attempts, fed, states>>

AddTakes ==
  LET o == Head(work)
  IN  /\ pc = "adding"
      /\ AddRepeated(o) \/ AddNoted(o) \/ AddAggregated(o)
      /\ response' = [response EXCEPT !.matchedObservations = @ + 1]
      /\ latest' = Max({latest, o.at})
      /\ fed' = Append(fed, o)
      /\ work' = Tail(work)
      /\ pc' = IF Tail(work) = <<>> THEN "tracing" ELSE "adding"
      /\ UNCHANGED <<callVars, driverIDs, start, attempts, states>>

(* The time of the only flush, and the same without the window's length.   *)
FlushAtLatest == latest

FlushTime == latest + WindowDuration

TracesDone == pc = "tracing" /\ (driverIDs # <<>> => Spent)

FinishEmpty ==
  /\ TracesDone
  /\ latest = ZeroTime
  /\ pc' = "ok"
  /\ UNCHANGED <<processorVars, callVars, driverIDs, start, response, work, latest, attempts, fed, states>>

Finish ==
  /\ TracesDone
  /\ latest # ZeroTime
  /\ \E failed \in FailureSets(FlushTime) :
       /\ FlushDone(FlushTime, failed)
       /\ IF failed = {}
          THEN pc' = "ok" /\ states' = Due(FlushTime)
          ELSE pc' = "failed" /\ UNCHANGED states
  /\ UNCHANGED <<callVars, driverIDs, start, response, work, latest, attempts, fed>>

Next ==
  \/ NextDriver \/ TraceUnmatched \/ TraceMatched
  \/ AddErrs \/ AddTakes \/ FinishEmpty \/ Finish

Spec == Init /\ [][Next]_vars

-----------------------------------------------------------------------------
(* What the answer should be: each time of a driver counts once, with the  *)
(* first observation of that time, if it can be aggregated, in its window. *)
Counted ==
  {i \in DOMAIN fed :
     /\ CanAggregate(fed[i])
     /\ \A j \in 1..(i - 1) : <<fed[j].driver, fed[j].at>> # <<fed[i].driver, fed[i].at>>}

DirectWindow(k) ==
  LET samples == [i \in DOMAIN fed |-> SampleOf(fed[i])]
  IN  [key |-> k, samples |-> SelectAt(samples, {i \in Counted : WindowKeyOf(fed[i]) = k})]

(* A successful answer holds exactly the windows that the matched points   *)
(* make when they are counted directly, repeats of overlapping traces and  *)
(* of the file left out, on requested segments only; the one flush leaves  *)
(* nothing behind.                                                         *)
AnswerIsExact ==
  pc = "ok" =>
    /\ states = {DirectWindow(WindowKeyOf(fed[i])) : i \in Counted}
    /\ \A w \in states : w.key.key \in request.keys /\ w.key.vehicle = request.vehicle
    /\ DOMAIN windows = {} /\ pendingWindows = {}

(* The traces that the points of a driver can make.                        *)
Slots(d) ==
  {s \in 0..(Len(eventsByDriver[d]) - TracePoints) : s % TraceStep = 0}

(* No trace is tried beyond the budget, none is skipped before it is       *)
(* spent, and an earlier driver is tried out before a later one: within    *)
(* its budget the answer rests on every driver of the area.                *)
BudgetSpentInOrder ==
  /\ response.attemptedTraces = Cardinality(attempts)
  /\ response.attemptedTraces <= MaxTraces
  /\ response.matchedTraces <= response.attemptedTraces
  /\ response.matchedObservations <= response.matchedTraces * TracePoints
  /\ pc = "ok" /\ response.attemptedTraces < MaxTraces =>
       attempts = UNION {{<<d, s>> : s \in Slots(d)} : d \in DOMAIN eventsByDriver}
  /\ \A a \in attempts : \A d \in DOMAIN eventsByDriver :
       d < a[1] => \A s \in Slots(d) : <<d, s>> \in attempts
=============================================================================
