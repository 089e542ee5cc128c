---------------------------- MODULE PointLedger ----------------------------
(***************************************************************************)
(* What the service promises about samples, without windows, traces or     *)
(* requests: the observations of a driver are counted in time order, each  *)
(* at most once, and a counted sample is reported at most once.            *)
(***************************************************************************)
EXTENDS Integers

CONSTANTS Driver, Sample   (* samples: records with .driver and .at         *)

VARIABLES
  newest,     (* partial: driver -> time of the newest observation noted    *)
  open,       (* samples counted and not yet reported                       *)
  reported    (* samples reported                                           *)

ledgerVars == <<newest, open, reported>>

LedgerInit == newest = [d \in {} |-> 0] /\ open = {} /\ reported = {}

(* Time only moves forward for a driver.                                   *)
Advance(d, t) ==
  /\ d \in DOMAIN newest => newest[d] < t
  /\ newest' = [x \in DOMAIN newest \cup {d} |-> IF x = d THEN t ELSE newest[x]]

Count(s) ==
  /\ Advance(s.driver, s.at)
  /\ open' = open \cup {s}
  /\ UNCHANGED reported

(* An observation that carries no sample: not matched, not in trip.        *)
Pass(d, t) == Advance(d, t) /\ UNCHANGED <<open, reported>>

Report(S) ==
  /\ S \subseteq open
  /\ open' = open \ S
  /\ reported' = reported \cup S
  /\ UNCHANGED newest

LedgerNext ==
  \/ \E s \in Sample : Count(s) \/ Pass(s.driver, s.at)
  \/ \E S \in SUBSET open : Report(S)

LedgerSpec == LedgerInit /\ [][LedgerNext]_ledgerVars
=============================================================================
