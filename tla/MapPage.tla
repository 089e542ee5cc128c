------------------------------ MODULE MapPage ------------------------------
(***************************************************************************)
(* The script of mapview/web/map.html.  A browser runs one callback at a   *)
(* time, so an action is what happens between two awaits; the picker, the  *)
(* debounce timer, the load of the edges and the congestion demo meet in   *)
(* the shared variables allEdges, edgeLayer and displayedTraversalKeys.    *)
(*                                                                         *)
(* The server's answers are inputs: Served gives the edges for a distance, *)
(* and a demo may answer any list of states on the keys that it was sent.  *)
(***************************************************************************)
EXTENDS Integers, SequencesExt

CONSTANTS
  Distance,    (* the picker's options in km; its empty option is 0          *)
  Served,      (* the features of GET /v1/graph-edges, for each distance     *)
  DemoLimit,   (* calculateCongestion's greatest distance                    *)
  MaxStates,   (* bound: states of one demo answer                           *)
  MaxPicks,    (* bound: changes of the picker                               *)
  MaxDemos     (* bound: demos that reach the server                         *)

ASSUME PageAssumption ==
  /\ Distance \subseteq Nat \ {0} /\ DOMAIN Served = Distance
  /\ \A km \in Distance : Served[km] \in Seq(ToSet(Served[km]))
  /\ {DemoLimit, MaxStates, MaxPicks, MaxDemos} \subseteq Nat

VARIABLES
  picker,      (* distancePicker.value                                       *)
  timer,       (* the distance that edgeRequestTimer will load, or Unset     *)
  loads,       (* fetches of edges under way: [nr, km]                       *)
  allEdges,    (* the edges loaded and their demo_congestion marks, or Unset *)
  edgeLayer,   (* the features rendered, with the marks that coloured them   *)
  demo,        (* calculateCongestion: pc, nr, km, keys sent, states left    *)
  user,        (* "patient": picks and asks only when the page is quiet      *)
  picks,       (* history: changes of the picker                             *)
  started,     (* history: loads started                                     *)
  broken       (* history: the newest load failed                            *)

pickVars == <<picker, timer, picks>>
loadVars == <<loads, started, broken>>
vars == <<pickVars, loadVars, allEdges, edgeLayer, demo, user>>

-----------------------------------------------------------------------------
Unset == [km |-> 0, nr |-> 0]   (* null                                      *)

NoMarks == [k \in {} |-> 0]

KeysOf(features) == {features[i].key : i \in DOMAIN features}

(* The length of the roads among the first n features: an edge counts at   *)
(* its first direction.                                                    *)
IsNewEdge(features, i) == \A j \in 1..(i - 1) : features[j].edge # features[i].edge

LengthOf(features, n) ==
  FoldSet(LAMBDA i, sum : features[i].length + sum, 0, {i \in 1..n : IsNewEdge(features, i)})

(* selectDistance: the loop breaks at the first new edge that starts at or *)
(* beyond the distance.                                                    *)
SelectDistance(features, km) ==
  LET Beyond == {i \in DOMAIN features : IsNewEdge(features, i) /\ LengthOf(features, i - 1) >= km}
  IN  SubSeq(features, 1, IF Beyond = {} THEN Len(features) ELSE Min(Beyond) - 1)

(* renderEdges without selectDistance.                                     *)
RenderedInFull(edges, km) == [list |-> edges.list, marks |-> edges.marks]

(* renderEdges colours the layer by the marks that the features bear now.  *)
Rendered(edges, km) == [list |-> SelectDistance(edges.list, km), marks |-> edges.marks]

displayedTraversalKeys == KeysOf(edgeLayer.list)

Init ==
  /\ picker = 0
  /\ timer = 0
  /\ loads = {}
  /\ allEdges = Unset
  /\ edgeLayer = [list |-> <<>>, marks |-> NoMarks]
  /\ demo = [pc |-> "idle", nr |-> 0, km |-> 0, keys |-> {}, left |-> <<>>]
  /\ user \in {"patient", "hasty"}
  /\ picks = 0
  /\ started = 0
  /\ broken = FALSE

Quiet == timer = 0 /\ loads = {} /\ demo.pc = "idle"

UserActs == user = "patient" => Quiet

-----------------------------------------------------------------------------
(* The picker's change listener: it drops the timer and sets it again.     *)
Pick(km) ==
  /\ UserActs
  /\ picks < MaxPicks
  /\ picker # km
  /\ picker' = km
  /\ timer' = km
  /\ picks' = picks + 1
  /\ UNCHANGED <<loadVars, allEdges, edgeLayer, demo, user>>

(* loadEdges up to its fetch: abort() ends the fetch before it, whose      *)
(* AbortError is ignored.  The same without the abort controller.          *)
LoadsKept(load) == loads \cup {load}

LoadsAfterAbort(load) == {load}

StartLoad ==
  /\ timer # 0
  /\ timer' = 0
  /\ started' = started + 1
  /\ loads' = LoadsAfterAbort([nr |-> started + 1, km |-> timer])
  /\ UNCHANGED <<picker, picks, broken, allEdges, edgeLayer, demo, user>>

(* The answer: new features, without marks, all rendered anew.             *)
EdgesArrive(load) ==
  /\ load \in loads
  /\ loads' = loads \ {load}
  /\ broken' = FALSE
  /\ allEdges' = [nr |-> load.nr, km |-> load.km, list |-> Served[load.km], marks |-> NoMarks]
  /\ edgeLayer' = Rendered(allEdges', load.km)
  /\ UNCHANGED <<pickVars, started, demo, user>>

(* A refused or broken request: the page keeps the edges that it has.      *)
LoadFails(load) ==
  /\ load \in loads
  /\ loads' = loads \ {load}
  /\ broken' = TRUE
  /\ UNCHANGED <<pickVars, started, allEdges, edgeLayer, demo, user>>

-----------------------------------------------------------------------------
(* calculateCongestion up to its fetch.  Nothing happens before the first  *)
(* load, beyond the limit or, since an empty layer has no bounds, when     *)
(* nothing is shown; the button is disabled while a demo runs.             *)
ButtonEnabled == demo.pc = "idle"

AskDemo ==
  /\ UserActs
  /\ demo.nr < MaxDemos
  /\ ButtonEnabled
  /\ allEdges # Unset
  /\ picker <= DemoLimit
  /\ edgeLayer.list # <<>>
  /\ demo' = [pc |-> "asked", nr |-> demo.nr + 1, km |-> picker,
              keys |-> displayedTraversalKeys, left |-> <<>>]
  /\ UNCHANGED <<pickVars, loadVars, allEdges, edgeLayer, user>>

(* The finally block, and the same left out.                               *)
Stuck == demo' = demo

Return == demo' = [demo EXCEPT !.pc = "idle", !.keys = {}, !.left = <<>>]

DemoFails ==
  /\ demo.pc = "asked"
  /\ Return
  /\ UNCHANGED <<pickVars, loadVars, allEdges, edgeLayer, user>>

(* An answer without states clears the marks of whatever edges are loaded  *)
(* by now, and returns without rendering.                                  *)
DemoHasNothing ==
  /\ demo.pc = "asked"
  /\ allEdges' = [allEdges EXCEPT !.marks = NoMarks]
  /\ Return
  /\ UNCHANGED <<pickVars, loadVars, edgeLayer, user>>

(* The edges with one more state marked; a state is known by its demo.     *)
Mark(edges, key) ==
  [edges EXCEPT !.marks =
     [k \in DOMAIN @ \cup ({key} \cap KeysOf(edges.list)) |-> IF k = key THEN demo.nr ELSE @[k]]]

(* One turn of the loop over the states, up to its 200 ms wait.            *)
PaintFirst(edges, states) ==
  /\ allEdges' = Mark(edges, Head(states))
  /\ edgeLayer' = Rendered(allEdges', demo.km)
  /\ demo' = [demo EXCEPT !.pc = "painting", !.left = Tail(states)]
  /\ UNCHANGED <<pickVars, loadVars, user>>

(* The loop that deletes the marks of the demo before, and the same left   *)
(* out.                                                                    *)
MarksKept == allEdges

MarksDeleted == [allEdges EXCEPT !.marks = NoMarks]

DemoAnswers ==
  /\ demo.pc = "asked"
  /\ \E n \in 1..MaxStates : \E states \in [1..n -> demo.keys] : PaintFirst(MarksDeleted, states)

PaintNext ==
  /\ demo.pc = "painting" /\ demo.left # <<>>
  /\ PaintFirst(allEdges, demo.left)

DemoEnds ==
  /\ demo.pc = "painting" /\ demo.left = <<>>
  /\ Return
  /\ UNCHANGED <<pickVars, loadVars, allEdges, edgeLayer, user>>

DemoStep == DemoFails \/ DemoHasNothing \/ DemoAnswers \/ PaintNext \/ DemoEnds

Next ==
  \/ \E km \in Distance \cup {0} : Pick(km)
  \/ StartLoad
  \/ \E load \in loads : EdgesArrive(load) \/ LoadFails(load)
  \/ AskDemo
  \/ DemoStep

(* The server answers or the connection breaks, and timers fire.           *)
Spec == Init /\ [][Next]_vars /\ WF_vars(DemoStep)

-----------------------------------------------------------------------------
(* The colours on the map never mix two demos, though edges may be loaded  *)
(* and the button pressed between any two turns of the painting loop.      *)
OneDemoPainted ==
  LET Demos(marks) == {marks[k] : k \in DOMAIN marks}
  IN  /\ Cardinality(Demos(edgeLayer.marks)) <= 1
      /\ allEdges # Unset => Cardinality(Demos(allEdges.marks)) <= 1

(* Once nothing is under way, the edges are those of the newest load,      *)
(* however the answers of the loads before it were delayed.                *)
NewestLoadWins == loads = {} /\ started > 0 /\ ~broken => allEdges.nr = started

(* For a user who waits for the page, the map shows just the distance that *)
(* was picked, demos and failed loads before included.  (A hasty user's    *)
(* late demo cuts newer edges to the distance it was asked for.)           *)
PatientViewIsAsPicked ==
  user = "patient" /\ Quiet /\ started > 0 /\ ~broken /\ picker # 0
    => edgeLayer.list = SelectDistance(Served[picker], picker)

(* Every demo gives its button back, whatever the server answers.          *)
ButtonComesBack == demo.pc = "asked" ~> demo.pc = "idle"
=============================================================================
