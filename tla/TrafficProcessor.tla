-------------------------- MODULE TrafficProcessor --------------------------
(***************************************************************************)
(* traffic.Processor: driver state, aggregator, calculator and reference   *)
(* speeds behind one mutex.  Add and Flush hold Processor.mu throughout    *)
(* and take the inner locks only inside it, so each outcome of a call is   *)
(* one atomic action.  TrafficStream closes the module with an             *)
(* environment, Pipeline composes it.                                      *)
(***************************************************************************)
EXTENDS DriverState, Aggregator, ReferenceSpeeds, Calculator

VARIABLES
  references,       (* the injected store: "max_speed" or "external"        *)
  pendingWindows    (* closed windows whose calculation has failed so far   *)

processorVars == <<driverStates, windows, speeds, references, pendingWindows>>

NewProcessor(stores) ==
  /\ references \in stores
  /\ NewDriverStateBuffer
  /\ NewAggregator
  /\ NewReferenceSpeeds
  /\ pendingWindows = {}

-----------------------------------------------------------------------------
(* Add.  The store is asked to record first, even what is refused next;    *)
(* only the max-speed store is a ReferenceSpeedRecorder.                   *)
RecordError(o) == references = "max_speed" /\ RecordRefuses(o)

RecordFirst(o) == IF references = "max_speed" THEN Record(o) ELSE UNCHANGED speeds

AddFails(o) == RecordError(o) \/ StateRefuses(o)

AddRecordError(o) ==
  /\ RecordError(o)
  /\ UNCHANGED processorVars

AddStateError(o) ==
  /\ ~RecordError(o)
  /\ StateRefuses(o)
  /\ RecordFirst(o)
  /\ UNCHANGED <<driverStates, windows, references, pendingWindows>>

AddRepeated(o) ==
  /\ ~AddFails(o)
  /\ Repeated(o)
  /\ RecordFirst(o)
  /\ UNCHANGED <<driverStates, windows, references, pendingWindows>>

AddNoted(o) ==
  /\ ~AddFails(o)
  /\ ~Repeated(o)
  /\ ~CanAggregate(o)
  /\ RecordFirst(o)
  /\ Remember(o)
  /\ UNCHANGED <<windows, references, pendingWindows>>

AddAggregated(o) ==
  /\ ~AddFails(o)
  /\ ~Repeated(o)
  /\ CanAggregate(o)
  /\ RecordFirst(o)
  /\ Remember(o)
  /\ Aggregate(o)
  /\ UNCHANGED <<references, pendingWindows>>

-----------------------------------------------------------------------------
(* Flush.  The windows due are those that failed before and those that     *)
(* close now.                                                              *)
Due(now) == pendingWindows \cup Closing(now)

(* What Get may return (Nil: not found).  An external store answers one of *)
(* `known`; a window without enough data is calculated without asking.     *)
Answers(window, known) ==
  IF references = "max_speed"
  THEN {Reference(window.key.key, window.key.vehicle)}
  ELSE known \cup {Nil}

(* The sets of due windows whose calculation may fail: those that are      *)
(* refused, those with enough data whose reference is not positive, and,   *)
(* with an external store, those whose lookup fails.                       *)
BadReference(window) ==
  LET reference == Reference(window.key.key, window.key.vehicle)
  IN  reference # Nil /\ reference <= 0

DueRefused(now) == {w \in Due(now) : CalculateRefuses(w)}

FailureSets(now) ==
  LET asked == {w \in Due(now) \ DueRefused(now) : EnoughData(w.samples)}
      lookups == IF references = "max_speed" THEN {{w \in asked : BadReference(w)}} ELSE SUBSET asked
  IN  {DueRefused(now) \cup failed : failed \in lookups}

(* FlushDone(now, failed): the windows in failed stay pending, every other *)
(* one due is calculated and leaves the processor.                         *)
FlushForgets(now, failed) ==
  /\ failed \in FailureSets(now)
  /\ Close(now)
  /\ pendingWindows' = {}
  /\ UNCHANGED <<driverStates, speeds, references>>

FlushKeepsAll(now, failed) ==
  /\ failed \in FailureSets(now)
  /\ Close(now)
  /\ pendingWindows' = IF failed = {} THEN {} ELSE Due(now)
  /\ UNCHANGED <<driverStates, speeds, references>>

FlushDone(now, failed) ==
  /\ failed \in FailureSets(now)
  /\ Close(now)
  /\ pendingWindows' = failed
  /\ UNCHANGED <<driverStates, speeds, references>>
=============================================================================
