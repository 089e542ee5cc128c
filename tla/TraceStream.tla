---------------------------- MODULE TraceStream ----------------------------
(***************************************************************************)
(* The trace buffer under an environment that calls Add with any event, in *)
(* any order, any number of times: late, repeated and interleaved points   *)
(* included.  History variables record what the buffer took and what it    *)
(* handed out, so that its promises can be stated.                         *)
(***************************************************************************)
EXTENDS TraceBuffer

CONSTANT MaxAccepted   (* bound: accepted points of one driver              *)

VARIABLES
  accepted,    (* history: the points stored for each driver, oldest first  *)
  traces,      (* history: the traces returned for each driver              *)
  outcome      (* what the last call of Add did                             *)

vars == <<config, pointsByDriver, accepted, traces, outcome>>

Outcome == {"none", "refused", "buffered", "emitted", "panicked"}

Init ==
  /\ NewBuffer
  /\ accepted = [d \in Driver |-> <<>>]
  /\ traces = [d \in Driver |-> <<>>]
  /\ outcome = "none"

Accept(e) ==
  /\ Len(accepted[e.driver]) < MaxAccepted
  /\ accepted' = [accepted EXCEPT ![e.driver] = Append(@, e)]

Refuse(e) ==
  /\ AddRefused(e)
  /\ outcome' = "refused"
  /\ UNCHANGED <<accepted, traces>>

Store(e) ==
  /\ AddBuffered(e)
  /\ Accept(e)
  /\ outcome' = "buffered"
  /\ UNCHANGED traces

(* buildTrace copies every point held, the new one included.               *)
Emit(e) ==
  /\ AddEmitted(e)
  /\ Accept(e)
  /\ traces' = [traces EXCEPT ![e.driver] = Append(@, Grown(e))]
  /\ outcome' = "emitted"

Panic(e) ==
  /\ AddPanicked(e)
  /\ Accept(e)
  /\ outcome' = "panicked"
  /\ UNCHANGED traces

Next == \E e \in Event : Refuse(e) \/ Store(e) \/ Emit(e) \/ Panic(e)

Spec == Init /\ [][Next]_vars

-----------------------------------------------------------------------------
(* Every variable keeps its type.                                          *)
StreamTypeOK ==
  /\ config \in {c \in Config : Validate(c)}
  /\ pointsByDriver \in [Driver -> Seq(Event)]
  /\ accepted \in [Driver -> Seq(Event)]
  /\ traces \in [Driver -> Seq(Seq(Event))]
  /\ outcome \in Outcome

(* Between two calls a driver never holds maxPoints points: the memory of  *)
(* a driver is bounded whatever it sends, even after a panicked slice.     *)
BufferBounded == \A d \in Driver : Len(pointsByDriver[d]) < config.maxPoints

StrictlyRising(points) ==
  \A i, j \in DOMAIN points : i < j => points[i].at < points[j].at

(* encodeGPX and the map matcher need points in time order: whatever order *)
(* the events came in, every buffer and every trace is strictly rising.    *)
TracesRise ==
  \A d \in Driver :
    /\ StrictlyRising(pointsByDriver[d])
    /\ \A k \in DOMAIN traces[d] : StrictlyRising(traces[d][k])

(* With an overlap, Add's "newer than the last point" holds across traces  *)
(* too, though the buffer forgets all but overlapPoints points.            *)
StreamRises ==
  config.overlapPoints > 0 => \A d \in Driver : StrictlyRising(accepted[d])

(* Add can only panic in a configuration whose overlap exceeds minPoints.  *)
PanicOnlyWithLongOverlap ==
  outcome = "panicked" => config.overlapPoints > config.minPoints

(* The newest point held was handed out in the last trace: what is held is *)
(* that trace's overlap, which will start the next one.                    *)
HandedOut(d) == traces[d] # <<>> /\ Last(Last(traces[d])) = Last(pointsByDriver[d])

(* The points held are too few for the overlap's slice, so that Add panics *)
(* rather than emit them; the driver has not had a trace yet.              *)
CannotBeCut(d) == traces[d] = <<>> /\ Len(pointsByDriver[d]) < config.overlapPoints

(* A driver's points are overdue when they are enough and span maxDuration *)
(* between two calls of Add.  They are then nothing but an overlap, or     *)
(* were left behind by a panic, and panics end with the driver's first     *)
(* trace: no other new point waits longer than Add promises.               *)
NothingOverdue ==
  \A d \in Driver :
    LET held == pointsByDriver[d]
    IN  Len(held) >= config.minPoints /\ Last(held).at - Head(held).at >= config.maxDuration
          => HandedOut(d) \/ CannotBeCut(d)

(* The buffer implements the feed of overlapping intervals: the abstract   *)
(* index of the next trace's start is the position of the oldest point     *)
(* held.  So no accepted point is skipped, whatever the emissions, and     *)
(* consecutive traces share exactly overlapPoints points.                  *)
NextStart == [d \in Driver |-> Len(accepted[d]) - Len(pointsByDriver[d]) + 1]

Feed == INSTANCE TraceFeed WITH from <- NextStart

ImplementsFeed == Feed!FeedSpec

(* TestBufferAddEmitsAtMaxDuration (buffer_test.go:308), for every valid   *)
(* configuration: points that span maxDuration are emitted as a trace.     *)
(* A configuration with overlapPoints > minPoints violates it.             *)
EmitsAtMaxDuration == outcome # "panicked"
=============================================================================
