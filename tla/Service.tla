------------------------------ MODULE Service ------------------------------
(***************************************************************************)
(* main.run: the server around the pipeline.  It listens until a signal,   *)
(* drains for at most ten seconds, and ends; a crash ends it at any        *)
(* moment.  Nothing is persisted, so the next start begins with an empty   *)
(* buffer and an empty processor, while clients may send again what they   *)
(* sent before.  The server sets no time limit for a request's body.       *)
(***************************************************************************)
EXTENDS Pipeline, Bags

CONSTANTS
  Quota,    (* bounds, for each kind of clients: requests in a behaviour,  *)
  Starts    (* and how often the server starts                             *)

ASSUME ServiceAssumption == Quota \in [Clients -> 0..MaxReq] /\ Starts \in [Clients -> Nat]

VARIABLES
  server,     (* listening, draining, stopped                              *)
  starts,     (* history: how often it started                             *)
  opened,     (* a request whose header is read and whose body has not come*)
  sent,       (* history: how often each point was received                *)
  counted     (* history: how often each was reported before this life     *)

pipelineVars == <<bufferVars, processorVars, requests, clock, clients, historyVars>>
lifeVars == <<server, starts>>
clientVars == <<opened, sent>>
serviceVars == <<pipelineVars, lifeVars, clientVars, counted>>

PointOf(e) == [driver |-> e.driver, at |-> e.at]

(* How often each point is in the windows that this life has calculated.   *)
PlacesReported(p) ==
  UNION {{<<w, i>> : i \in {j \in DOMAIN w.samples : PointOf(w.samples[j]) = p}} : w \in reported}

Reported ==
  [p \in UNION {{PointOf(w.samples[i]) : i \in DOMAIN w.samples} : w \in reported} |-> Cardinality(PlacesReported(p))]

-----------------------------------------------------------------------------
ServiceInit ==
  /\ Init
  /\ server = "listening"
  /\ starts = 1
  /\ opened = FALSE
  /\ sent = EmptyBag
  /\ counted = EmptyBag

(* A connection is accepted and a header read.                             *)
Open ==
  /\ server = "listening"
  /\ ~opened
  /\ \E r \in 1..Quota[clients] : At(r, "idle")
  /\ opened' = TRUE
  /\ UNCHANGED <<pipelineVars, lifeVars, sent, counted>>

(* The body comes, which a drain waits for too; or the client goes away.   *)
BodyArrives(r, e) ==
  /\ opened
  /\ Receive(r, e)
  /\ opened' = FALSE
  /\ sent' = sent (+) SetToBag({PointOf(e)})
  /\ UNCHANGED <<lifeVars, counted>>

BodyLost ==
  /\ opened
  /\ opened' = FALSE
  /\ UNCHANGED <<pipelineVars, lifeVars, sent, counted>>

Serve(r) ==
  /\ Step(r)
  /\ UNCHANGED <<lifeVars, clientVars, counted>>

Wait ==
  /\ Tick
  /\ UNCHANGED <<lifeVars, clientVars, counted>>

-----------------------------------------------------------------------------
(* SIGINT or SIGTERM: the listener closes.                                 *)
Signal ==
  /\ server = "listening"
  /\ server' = "draining"
  /\ UNCHANGED <<pipelineVars, starts, clientVars, counted>>

(* Shutdown returns once every connection is idle.                         *)
Drained ==
  /\ server = "draining"
  /\ InFlight = {} /\ ~opened
  /\ server' = "stopped"
  /\ UNCHANGED <<pipelineVars, starts, clientVars, counted>>

(* The process ends and takes its goroutines with it.                      *)
Cut ==
  /\ server' = "stopped"
  /\ opened' = FALSE
  /\ requests' = [r \in Req |-> IF r \in InFlight THEN [Idle EXCEPT !.pc = "cut"] ELSE requests[r]]
  /\ UNCHANGED <<bufferVars, processorVars, clock, clients, historyVars, starts, sent, counted>>

(* Shutdown's context ends and run returns its error; the same by a        *)
(* Shutdown without a limit.                                               *)
DrainForever ==
  /\ server = "draining"
  /\ InFlight = {} /\ ~opened
  /\ Cut

DrainTimesOut ==
  /\ server = "draining"
  /\ Cut

(* SIGKILL, a fault, or a listener that fails.                             *)
Crash ==
  /\ server # "stopped"
  /\ Cut

(* A new process, by NewBuffer and NewProcessor again.                     *)
Start ==
  /\ server = "stopped"
  /\ starts < Starts[clients]
  /\ server' = "listening"
  /\ starts' = starts + 1
  /\ pointsByDriver' = [d \in Driver |-> <<>>]
  /\ driverStates' = [d \in {} |-> 0]
  /\ windows' = [k \in {} |-> <<>>]
  /\ speeds' = [k \in {} |-> 0]
  /\ pendingWindows' = {}
  /\ noted' = {} /\ taken' = <<>> /\ reported' = {}
  /\ counted' = counted (+) Reported
  /\ UNCHANGED <<config, references, requests, clock, clients, clientVars>>

ServiceNext ==
  \/ Open \/ BodyLost \/ Wait
  \/ \E r \in Req : (\E e \in Event : BodyArrives(r, e)) \/ Serve(r)
  \/ Signal \/ Drained \/ DrainTimesOut \/ Crash \/ Start

(* As in Pipeline; and Shutdown's context ends after ten seconds.          *)
ServiceSpec ==
  /\ ServiceInit /\ [][ServiceNext]_serviceVars
  /\ \A r \in Req : WF_serviceVars(Serve(r))
  /\ WF_serviceVars(DrainTimesOut)

-----------------------------------------------------------------------------
(* Every request that was received is answered, or cut off with the whole  *)
(* server, whatever the matcher and the others do.  (The bounds leave      *)
(* finitely many requests: all of them end if and only if none is left in  *)
(* flight in the end.)                                                     *)
EveryRequestEnds == InFlight # {} ~> InFlight = {}

(* Once signalled the server stops, though a client may keep a body back   *)
(* for ever and the server waits for it.                                   *)
StopsInTime == server = "draining" ~> server # "draining"

(* Over all its lives, with crashes at any moment and clients that send    *)
(* points again, the service reports no point more often than it got it.   *)
ReportedNoMoreThanSent ==
  counted (+) Reported \sqsubseteq sent
=============================================================================
