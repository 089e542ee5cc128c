----------------------------- MODULE TraceFeed -----------------------------
(***************************************************************************)
(* What a trace buffer promises, without its buffer: the accepted points   *)
(* of a driver form one stream, and the traces are consecutive intervals   *)
(* of it.  A trace starts overlapPoints points before the end of the       *)
(* previous one, so no accepted point is ever skipped; it ends at the      *)
(* newest point and is neither shorter than minPoints nor longer than      *)
(* maxPoints.                                                              *)
(***************************************************************************)
EXTENDS Integers, SequencesExt

CONSTANTS Driver, Event

VARIABLES
  config,     (* the buffer's configuration                                *)
  accepted,   (* accepted[d]: every point taken from d, oldest first        *)
  traces,     (* traces[d]: the traces cut from accepted[d], oldest first   *)
  from        (* from[d]: index in accepted[d] of the next trace's start    *)

feedVars == <<config, accepted, traces, from>>

FeedInit ==
  /\ accepted = [d \in Driver |-> <<>>]
  /\ traces = [d \in Driver |-> <<>>]
  /\ from = [d \in Driver |-> 1]

(* Number of points from from[d] to the end of the stream.                 *)
Waiting(d) == Len(accepted[d]) - from[d] + 1

(* e comes after the points that the next trace already has.               *)
Newer(e) == Waiting(e.driver) > 0 => Last(accepted[e.driver]).at < e.at

(* The point joins the stream; maxPoints waiting points force a trace.     *)
Take(e) ==
  /\ Newer(e)
  /\ Waiting(e.driver) + 1 < config.maxPoints
  /\ accepted' = [accepted EXCEPT ![e.driver] = Append(@, e)]
  /\ UNCHANGED <<config, traces, from>>

(* The point joins the stream and completes a trace.                       *)
Cut(e) ==
  LET d == e.driver
      stream == Append(accepted[d], e)
  IN  /\ Newer(e)
      /\ Waiting(d) + 1 \in config.minPoints..config.maxPoints
      /\ accepted' = [accepted EXCEPT ![d] = stream]
      /\ traces' = [traces EXCEPT ![d] = Append(@, SubSeq(stream, from[d], Len(stream)))]
      /\ from' = [from EXCEPT ![d] = Len(stream) - config.overlapPoints + 1]
      /\ UNCHANGED config

FeedNext == \E e \in {x \in Event : x.driver \in Driver} : Take(e) \/ Cut(e)

FeedSpec == FeedInit /\ [][FeedNext]_feedVars
=============================================================================
