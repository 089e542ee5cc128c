--------------------------- MODULE MCTraceStream ---------------------------
(* Values for TLC: every event is a driver (or none) and a time; every     *)
(* small configuration is tried, the invalid ones too.                     *)
EXTENDS TraceStream

CONSTANTS
  MaxTime,     (* bound: recorded times are 1..MaxTime                      *)
  MaxConfig    (* bound: the largest maxPoints                              *)

MCEvent == [driver : Driver \cup {NoDriver}, at : 1..MaxTime]

MCConfig ==
  [maxPoints : 1..MaxConfig, maxDuration : {0, 3}, minPoints : 1..MaxConfig, overlapPoints : -1..MaxConfig]
=============================================================================
