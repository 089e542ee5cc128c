------------------------------ MODULE Pipeline ------------------------------
(***************************************************************************)
(* The service: concurrent POST /locations requests, each running          *)
(* httpapi.processLocation and pipeline.Process over one shared trace      *)
(* buffer and one shared traffic processor.  A request takes the buffer's  *)
(* lock once, calls the matcher with no lock held, takes the processor's   *)
(* lock once for every observation and once more to flush; other requests  *)
(* run between any two of these steps.                                     *)
(***************************************************************************)
EXTENDS TraceBuffer, TrafficProcessor, Matching

CONSTANTS
  MaxReq,    (* bound: requests in a behaviour; each carries one event     *)
  Time,      (* clock readings                                             *)
  Answer,    (* what GraphHopper may answer for a point                    *)
  Clients    (* kinds of clients, a subset of {"serial", "concurrent"}     *)

ASSUME TimeAssumption == Time \subseteq Nat /\ Time # {} /\ MaxReq \in Nat

VARIABLES
  requests,  (* the local state of each request's goroutine                *)
  clock,     (* the wall clock                                             *)
  clients,   (* "serial": a driver's client waits for each answer          *)
  noted,     (* history: [driver, at] of the observations taken            *)
  taken,     (* history: the samples aggregated, in order                  *)
  reported   (* history: the windows calculated                            *)

bufferVars == <<config, pointsByDriver>>
historyVars == <<noted, taken, reported>>
vars == <<bufferVars, processorVars, requests, clock, clients, historyVars>>

-----------------------------------------------------------------------------
Req == 1..MaxReq   (* requests are numbered in the order of their arrival   *)

(* A request: its place in Process, its event and the time read before     *)
(* Process, the trace that its Add returned, the observations to be added. *)
Idle == [pc |-> "idle", event |-> <<>>, now |-> 0, trace |-> <<>>, work |-> <<>>]

(* The ways it is answered: 200, or 500 after the first error (a panic is  *)
(* recovered by net/http and closes the connection).                       *)
Answered == {"ok", "refused", "panicked", "unmatched", "invalid", "older", "uncalculated"}

(* The process may also end before it is (module Service).                 *)
Finished == Answered \cup {"cut"}

InFlight == {r \in Req : requests[r].pc \notin Finished \cup {"idle"}}

At(r, label) == requests[r].pc = label

Become(r, state) == requests' = [requests EXCEPT ![r] = state]

Goto(r, label) == Become(r, [requests[r] EXCEPT !.pc = label])

Finish(r, answer) == Become(r, [Idle EXCEPT !.pc = answer])

Init ==
  /\ NewBuffer
  /\ NewProcessor({"max_speed"})
  /\ requests = [r \in Req |-> Idle]
  /\ clock = CHOOSE t \in Time : \A u \in Time : t <= u
  /\ clients \in Clients
  /\ noted = {}
  /\ taken = <<>>
  /\ reported = {}

Tick ==
  /\ \E t \in Time : t > clock /\ clock' = t
  /\ UNCHANGED <<bufferVars, processorVars, requests, clients, historyVars>>

(* The body decoded and canonicalized, then the clock read.                *)
Receive(r, e) ==
  /\ At(r, "idle")
  /\ \A q \in 1..(r - 1) : ~At(q, "idle")
  /\ clients = "serial" => \A q \in InFlight : requests[q].event.driver # e.driver
  /\ Become(r, [Idle EXCEPT !.pc = "received", !.event = e, !.now = clock])
  /\ UNCHANGED <<bufferVars, processorVars, clock, clients, historyVars>>

(* buffer.Add: an error, a panic, nothing yet, or a trace.                 *)
BufferAdd(r) ==
  /\ At(r, "received")
  /\ LET e == requests[r].event
     IN  \/ AddRefused(e) /\ Finish(r, "refused")
         \/ AddPanicked(e) /\ Finish(r, "panicked")
         \/ AddBuffered(e) /\ Goto(r, "flushing")
         \/ AddEmitted(e) /\ Become(r, [requests[r] EXCEPT !.pc = "matching", !.trace = Grown(e)])
  /\ UNCHANGED <<processorVars, clock, clients, historyVars>>

(* The same by a router that never gives a mixed trace back.               *)
MatchWaits(r) ==
  /\ At(r, "matching")
  /\ ~RouterRefuses(requests[r].trace)
  /\ Finish(r, "unmatched")
  /\ UNCHANGED <<bufferVars, processorVars, clock, clients, historyVars>>

(* matcher.Match fails: mixed vehicles, a connection error, a bad status,  *)
(* a refused answer, the client's timeout or the caller's disconnection.   *)
MatchFails(r) ==
  /\ At(r, "matching")
  /\ Finish(r, "unmatched")
  /\ UNCHANGED <<bufferVars, processorVars, clock, clients, historyVars>>

MatchSucceeds(r) ==
  LET points == requests[r].trace
  IN  /\ At(r, "matching")
      /\ ~RouterRefuses(points) /\ ~EncodeRefuses(points)
      /\ \E answers \in [DOMAIN points -> {a \in Answer : ~AnswerRefused(a)}] :
           Become(r, [requests[r] EXCEPT !.pc = "adding",
                        !.work = [i \in DOMAIN points |-> Observe(points[i], answers[i])]])
      /\ UNCHANGED <<bufferVars, processorVars, clock, clients, historyVars>>

(* An error logged and passed over: the loop goes on.                      *)
ProcessorSkips(r) ==
  /\ At(r, "adding")
  /\ LET o == Head(requests[r].work)
     IN  AddRecordError(o) \/ AddStateError(o)
  /\ Become(r, [requests[r] EXCEPT !.work = Tail(@), !.pc = IF Tail(requests[r].work) = <<>> THEN "flushing" ELSE @])
  /\ UNCHANGED <<bufferVars, clock, clients, historyVars>>

(* One processor.Add; the first error ends the request: the observations   *)
(* after it are dropped and the flush is skipped.                          *)
ProcessorRejects(r) ==
  /\ At(r, "adding")
  /\ LET o == Head(requests[r].work)
     IN  /\ AddRecordError(o) \/ AddStateError(o)
         /\ Finish(r, IF IsValid(o) /\ Older(o) THEN "older" ELSE "invalid")
  /\ UNCHANGED <<bufferVars, clock, clients, historyVars>>

ProcessorTakes(r) ==
  /\ At(r, "adding")
  /\ LET o == Head(requests[r].work)
         id == [driver |-> o.driver, at |-> o.at]
     IN  \/ AddRepeated(o) /\ UNCHANGED <<noted, taken>>
         \/ AddNoted(o) /\ noted' = noted \cup {id} /\ UNCHANGED taken
         \/ AddAggregated(o) /\ noted' = noted \cup {id} /\ taken' = Append(taken, SampleOf(o))
  /\ Become(r, [requests[r] EXCEPT !.work = Tail(@), !.pc = IF Tail(requests[r].work) = <<>> THEN "flushing" ELSE @])
  /\ UNCHANGED <<bufferVars, clock, clients, reported>>

(* processor.Flush(now) and the answer, which lists the states calculated. *)
Flush(r) ==
  /\ At(r, "flushing")
  /\ \E failed \in FailureSets(requests[r].now) :
       /\ FlushDone(requests[r].now, failed)
       /\ reported' = reported \cup (Due(requests[r].now) \ failed)
       /\ Finish(r, IF failed = {} THEN "ok" ELSE "uncalculated")
  /\ UNCHANGED <<bufferVars, clock, clients, noted, taken>>

Step(r) ==
  \/ BufferAdd(r) \/ MatchFails(r) \/ MatchSucceeds(r)
  \/ ProcessorRejects(r) \/ ProcessorTakes(r) \/ Flush(r)

Next ==
  \/ Tick
  \/ \E r \in Req : (\E e \in Event : Receive(r, e)) \/ Step(r)

(* Every goroutine that serves a request runs on, and http.Client.Timeout  *)
(* bounds its call to GraphHopper.                                         *)
Spec == Init /\ [][Next]_vars /\ \A r \in Req : WF_vars(Step(r))

-----------------------------------------------------------------------------
(* Overlapping traces of concurrent requests never count a point twice: a  *)
(* driver's samples are aggregated in strictly rising time order.          *)
CountedInOrder ==
  \A i, j \in DOMAIN taken :
    i < j /\ taken[i].driver = taken[j].driver => taken[i].at < taken[j].at

(* A request that reaches its flush, and so may answer 200, has had every  *)
(* point of its trace noted: no point of it was skipped because another    *)
(* request's newer trace overtook it between buffer and processor.         *)
FlushMeansNoted ==
  \A r \in Req : At(r, "flushing") =>
    \A i \in DOMAIN requests[r].trace :
      [driver |-> requests[r].trace[i].driver, at |-> requests[r].trace[i].at] \in noted

(* A driver's newest noted point is never ahead of what the buffer holds.  *)
NotedBehindBuffer ==
  config.overlapPoints > 0 =>
    \A n \in noted : pointsByDriver[n.driver] # <<>> /\ n.at <= Last(pointsByDriver[n.driver]).at

(* With one overlap point, a client that waits for each answer never gets  *)
(* a 500 because of an observation older than what it sent before: the     *)
(* overlap point is recognised and dropped.                                *)
SerialNeverOlder ==
  clients = "serial" /\ config.overlapPoints = 1 => \A r \in Req : ~At(r, "older")

(* driver_state_test.go:64 "IgnoresDuplicate": a point that the processor  *)
(* has noted is dropped without an error when its next trace repeats it.   *)
(* Violated by the default two overlap points (buffer.go:59), even when    *)
(* the client sends its points in order and waits for each answer.         *)
DuplicatesIgnored ==
  \A r \in Req : At(r, "adding") =>
    LET o == Head(requests[r].work)
    IN  clients = "serial" /\ [driver |-> o.driver, at |-> o.at] \in noted => ~StateRefuses(o)
=============================================================================
