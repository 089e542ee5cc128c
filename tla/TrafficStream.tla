---------------------------- MODULE TrafficStream ----------------------------
(***************************************************************************)
(* The traffic processor under an environment that calls Add with any      *)
(* observation and Flush with any time, in any order.  Callers take `now`  *)
(* before they wait for the processor's lock, so a later call may carry an *)
(* earlier time.                                                           *)
(***************************************************************************)
EXTENDS TrafficProcessor

CONSTANTS
  Driver,         (* driver identifiers                                      *)
  Observation,    (* what the matcher may hand over                         *)
  Time,           (* the processing times                                   *)
  KnownSpeed,     (* reference speeds of the external store                 *)
  MaxTaken        (* bound: samples aggregated in a behaviour               *)

ASSUME ObservationAssumption ==
  \A o \in Observation :
    o.driver \in Driver /\ o.at \in Int /\ o.maxSpeed \in Int \cup {Nil}

ASSUME TimeAssumption == Time \subseteq Int

VARIABLES
  taken,      (* history: the samples aggregated, in order                  *)
  reported    (* history: [window, state] of every calculated window        *)

vars == <<processorVars, taken, reported>>

Init ==
  /\ NewProcessor({"max_speed", "external"})
  /\ taken = <<>>
  /\ reported = {}

Reject(o) ==
  /\ AddRecordError(o) \/ AddStateError(o)
  /\ UNCHANGED <<taken, reported>>

Note(o) ==
  /\ AddRepeated(o) \/ AddNoted(o)
  /\ UNCHANGED <<taken, reported>>

Take(o) ==
  /\ AddAggregated(o)
  /\ Len(taken) < MaxTaken
  /\ taken' = Append(taken, SampleOf(o))
  /\ UNCHANGED reported

(* Every window that does not fail is calculated with the store's answer.  *)
Flush(now, failed) ==
  /\ FlushDone(now, failed)
  /\ \E answer \in [Due(now) \ failed -> KnownSpeed \cup {Nil}] :
       /\ \A w \in Due(now) \ failed : answer[w] \in Answers(w, KnownSpeed)
       /\ reported' = reported \cup
            {[window |-> w, state |-> Calculate(w, answer[w], now)] : w \in Due(now) \ failed}
  /\ UNCHANGED taken

Next ==
  \/ \E o \in Observation : Reject(o) \/ Note(o) \/ Take(o)
  \/ \E now \in Time : \E failed \in SUBSET Due(now) : Flush(now, failed)

(* No fairness: the processor has no timer, and a request whose point,     *)
(* match or observation is refused ends before it flushes.                 *)
Spec == Init /\ [][Next]_vars

-----------------------------------------------------------------------------
ReportedWindows == {r.window : r \in reported}

Sample == {SampleOf(o) : o \in Observation}

WindowKey == {WindowKeyOf(o) : o \in Observation}

Window == [key : WindowKey, samples : Seq(Sample)]

(* Every variable keeps its type; windows are never empty.                 *)
TrafficTypeOK ==
  /\ references \in {"max_speed", "external"}
  /\ DOMAIN driverStates \subseteq Driver
  /\ \A d \in DOMAIN driverStates : driverStates[d] \in Int
  /\ OpenWindows \cup pendingWindows \cup ReportedWindows \subseteq Window
  /\ \A w \in OpenWindows \cup pendingWindows \cup ReportedWindows : w.samples # <<>>
  /\ taken \in Seq(Sample)

(* Observations of a driver are aggregated in strictly rising time order,  *)
(* none twice, and none after a newer one of that driver was noted,        *)
(* however the traces that carry them overlap or overtake each other.      *)
DriverOrder ==
  /\ \A i, j \in DOMAIN taken :
       i < j /\ taken[i].driver = taken[j].driver => taken[i].at < taken[j].at
  /\ \A i \in DOMAIN taken :
       /\ taken[i].driver \in DOMAIN driverStates
       /\ taken[i].at <= driverStates[taken[i].driver]

(* The places a sample sits at, over open, pending and reported windows.   *)
Places(s) ==
  UNION {{<<w, i>> : i \in {j \in DOMAIN w.samples : w.samples[j] = s}} :
           w \in OpenWindows \cup pendingWindows \cup ReportedWindows}

(* Every sample aggregated is in exactly one window, and that window is    *)
(* open, pending or reported, never two of these: closing, failing,        *)
(* retrying and reopening a window loses no sample and reports none twice. *)
SamplesOnce ==
  /\ \A i \in DOMAIN taken : Cardinality(Places(taken[i])) = 1
  /\ pendingWindows \cap (OpenWindows \cup ReportedWindows) = {}
  /\ OpenWindows \cap ReportedWindows = {}
  /\ \A r1, r2 \in reported : r1.window = r2.window => r1 = r2

(* A window only holds samples of its own time span, so a late sample      *)
(* reopens its own window rather than joining a later one.                 *)
SamplesInTheirWindow ==
  \A w \in OpenWindows \cup pendingWindows \cup ReportedWindows :
    \A i \in DOMAIN w.samples : w.key.start <= w.samples[i].at /\ w.samples[i].at < WindowEnd(w.key)

(* With the store that the service uses nothing but the window of the zero *)
(* time is ever left pending, and no state is dated before the end of its  *)
(* window.  (With an external store that failed, the retry may come from a *)
(* caller whose `now` is older than the window's end.)                     *)
OnlyZeroWindowPends ==
  references = "max_speed" =>
    /\ \A w \in pendingWindows : w.key.start = ZeroTime
    /\ \A r \in reported : WindowEnd(r.window.key) <= r.state.updatedAt

(* The processor implements the ledger of samples: windows, retries and    *)
(* reports only ever move samples forward.                                 *)
SamplesIn(ws) == UNION {ToSet(w.samples) : w \in ws}

Ledger == INSTANCE PointLedger WITH
  newest <- driverStates,
  open <- SamplesIn(OpenWindows \cup pendingWindows),
  reported <- SamplesIn(ReportedWindows)

ImplementsLedger == Ledger!LedgerSpec

(* Flushes at `now` are not put off for ever while windows are due, nor do *)
(* they fail for ever for the store's sake.  This is what a service needs  *)
(* from its requests and is not promised to: Process flushes only for a    *)
(* request that was refused nowhere before.                                *)
FlushesKeepComing(now) == WF_vars(Flush(now, DueRefused(now)))

(* The sample's window ends by `now`, and is not that of the zero time.    *)
Reportable(n, now) ==
  /\ n \in DOMAIN taken
  /\ taken[n].at >= ZeroTime + WindowDuration
  /\ Truncate(taken[n].at) + WindowDuration <= now

(* If flushes keep coming, every sample of a window that has ended is      *)
(* reported in some congestion state, after any number of failed           *)
(* calculations and of windows reopened by late samples.                   *)
EventuallyReported ==
  \A now \in Time : FlushesKeepComing(now) =>
    \A n \in 1..MaxTaken :
      Reportable(n, now) ~>
        \E w \in ReportedWindows : n \in DOMAIN taken /\ Contains(w.samples, taken[n])
=============================================================================
