----------------------------- MODULE MatchCall -----------------------------
(***************************************************************************)
(* Some payloads, well formed or not, that are canonicalized, put in one   *)
(* trace and matched, with any answer of GraphHopper, well formed or not.  *)
(***************************************************************************)
EXTENDS Matching, Canonical

CONSTANTS
  Name,   (* the names that a trace may be given as its DriverID            *)
  Call    (* calls: [posts, response], a sequence of posts [taken, payload] *)
          (* and a sequence of per-point answers                            *)

(* A payload without a text is one with an empty text.                     *)
ASSUME TextAssumption == Trimmed[Nil] = "" /\ Upper[Nil] = "" /\ Lower[Nil] = ""

(* An answer's numbers are numbers, and its speed a multiple of 18 km/h.   *)
ASSUME CallAssumption ==
  /\ Nil \notin Int
  /\ \A call \in Call :
      /\ call.posts \in Seq(ToSet(call.posts))
      /\ call.response \in Seq(ToSet(call.response))
      /\ \A j \in DOMAIN call.response :
           LET a == call.response[j]
           IN  /\ a.index \in Int
               /\ a.maxSpeedKMH # Nil => a.maxSpeedKMH \in Int /\ a.maxSpeedKMH % 18 = 0

(* A phone reads its clock twice for a fix, the seconds with the fix and   *)
(* the minute at some time less than an hour from it.                      *)
ASSUME ClockAssumption ==
  \A call \in Call : \A i \in DOMAIN call.posts :
    LET taken == call.posts[i].taken
        payload == call.posts[i].payload
    IN  TimeAccepted(payload) =>
          /\ taken \in Nat
          /\ payload.t_timestamp.minute = (taken \div MinuteTenths) % MinutesPerHour
          /\ payload.t_timestamp.tenths = taken % MinuteTenths
          /\ payload.time \in Int
          /\ payload.time - (taken \div MinuteTenths) \in (1 - MinutesPerHour)..(MinutesPerHour - 1)

VARIABLES
  posts,      (* payloads, with the time (in tenths of ms) their fix was taken *)
  response,   (* GraphHopper's answer                                        *)
  trace,      (* the trace: [driver, points]                                 *)
  outcome,    (* posted, declined, traced, error, observed                   *)
  result      (* the observations returned                                   *)

vars == <<posts, response, trace, outcome, result>>

Init ==
  /\ \E call \in Call : posts = call.posts /\ response = call.response
  /\ trace = [driver |-> "", points |-> <<>>]
  /\ outcome = "posted"
  /\ result = <<>>

Declined(post) == DecodeRefused(post.payload) \/ CanonicalizeRefused(post.payload)

Decline ==
  /\ outcome = "posted"
  /\ \E i \in DOMAIN posts : Declined(posts[i])
  /\ outcome' = "declined"
  /\ UNCHANGED <<posts, response, trace, result>>

(* The caller makes a trace of the events (the service with the first      *)
(* one's driver, but the matcher is open to any).                          *)
MakeTrace(driver) ==
  /\ outcome = "posted"
  /\ \A i \in DOMAIN posts : ~Declined(posts[i])
  /\ outcome' = "traced"
  /\ trace' = [driver |-> driver, points |-> [i \in DOMAIN posts |-> Canonicalize(posts[i].payload)]]
  /\ UNCHANGED <<posts, response, result>>

(* A trace or an answer that is refused, and the router that cannot be     *)
(* reached, answers with another status or with what is not JSON.          *)
MatchErrs ==
  /\ outcome = "traced"
  /\ outcome' = "error"
  /\ UNCHANGED <<posts, response, trace, result>>

MatchObserves ==
  /\ outcome = "traced"
  /\ ~MatchRefused(trace, response)
  /\ outcome' = "observed"
  /\ result' = Adapt(trace.points, response)
  /\ UNCHANGED <<posts, response, trace>>

Next ==
  \/ Decline
  \/ \E driver \in Name : MakeTrace(driver)
  \/ MatchErrs
  \/ MatchObserves

Spec == Init /\ [][Next]_vars

-----------------------------------------------------------------------------
Succeeded == outcome = "observed"

(* Whatever the order of the answers, each one lands on the point that it  *)
(* names, with that point's own time and speed, and no point goes without. *)
AnswerMeetsItsPoint ==
  Succeeded =>
    /\ Len(result) = Len(posts)
    /\ \A i \in DOMAIN result : \E j \in DOMAIN response : response[j].index = i - 1
    /\ \A j \in DOMAIN response :
         LET o == result[response[j].index + 1]
             p == trace.points[response[j].index + 1]
         IN  /\ <<o.driver, o.at, o.speed>> = <<p.driver, p.at, p.speed>>
             /\ o.matched = response[j].matched
             /\ o.matched => o.key = response[j].key

(* A point is recorded within half a millisecond of when its fix was       *)
(* taken, though a phone may read its two clocks on either side of a full  *)
(* minute; so points stay in order if they are a millisecond apart.        *)
RecordedWhenTaken ==
  \A i, j \in DOMAIN trace.points :
    /\ 10 * trace.points[i].at - posts[i].taken \in -5..5
    /\ posts[j].taken - posts[i].taken >= 10 => trace.points[i].at < trace.points[j].at

(* What the processor relies on.  What Canonicalize lets in and the        *)
(* matcher passes on is valid unless it is OFFLINE; what is eligible is    *)
(* matched and has a key, a speed limit is positive, and the points of a   *)
(* trace share a driver and the vehicle whose profile they were matched    *)
(* with.  (A key may still be negative, which the reference store refuses.)*)
ObservationsFit ==
  Succeeded => \A i \in DOMAIN result : LET o == result[i] IN
    /\ o.status # "OFFLINE" => IsValid(o)
    /\ o.eligible => o.matched /\ o.key # Nil
    /\ o.maxSpeed # Nil => o.maxSpeed > 0 /\ o.key # Nil
    /\ o.driver = trace.driver
    /\ NormalizeVehicleType(o.vehicle) = Profile(trace.points)
=============================================================================
