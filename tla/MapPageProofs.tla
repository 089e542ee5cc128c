--------------------------- MODULE MapPageProofs ---------------------------
(***************************************************************************)
(* Proofs about the page of MapPage, for any graph, distances and bounds.  *)
(***************************************************************************)
EXTENDS MapPage, WellFoundedInduction, FiniteSetTheorems, TLAPS

Feature == UNION {ToSet(Served[km]) : km \in Distance}

Keys == {f.key : f \in Feature}

Marks == UNION {[K -> 0..MaxDemos] : K \in SUBSET Keys}

Edges == [nr : Nat \ {0}, km : Distance, list : {Served[km] : km \in Distance}, marks : Marks]

PageTypeOK ==
  /\ picker \in Distance \cup {0}
  /\ timer \in Distance \cup {0}
  /\ loads \subseteq [nr : Nat \ {0}, km : Distance]
  /\ allEdges = Unset \/ (allEdges \in Edges /\ allEdges.list = Served[allEdges.km])
  /\ edgeLayer \in [list : Seq(Feature), marks : Marks]
  /\ demo \in [pc : {"idle", "asked", "painting"}, nr : 0..MaxDemos, km : Nat, keys : SUBSET Keys, left : Seq(Keys)]
  /\ user \in {"patient", "hasty"}
  /\ picks \in Nat
  /\ started \in Nat
  /\ broken \in BOOLEAN

-----------------------------------------------------------------------------
(* A set of natural numbers has a least one.                               *)
LEMMA LeastOne ==
  ASSUME NEW S \in SUBSET Nat, S # {}
  PROVE  Min(S) \in S /\ \A n \in S : Min(S) <= n
  <1> DEFINE R == OpToRel(<, Nat)
  <1>1. PICK x \in S : \A y \in S : ~(<<y, x>> \in R)
    <2> HIDE DEF R
    <2>1. IsWellFoundedOn(R, Nat)
      BY NatLessThanWellFounded DEF R
    <2> QED
      BY <2>1, WFMin
  <1>2. ASSUME NEW y \in S  PROVE x <= y
    <2>1. ~(<<y, x>> \in {p \in Nat \X Nat : p[1] < p[2]})
      BY <1>1 DEF OpToRel
    <2>2. x \in Nat /\ y \in Nat
      OBVIOUS
    <2>3. ~(y < x)
      BY <2>1, <2>2
    <2> QED
      BY <2>2, <2>3
  <1> QED
    BY <1>2 DEF Min

(* What selectDistance leaves of a list is the list up to some place.      *)
LEMMA SelectedIsPrefix ==
  ASSUME NEW S, NEW list \in Seq(S), NEW km
  PROVE  \E n \in 0..Len(list) : SelectDistance(list, km) = SubSeq(list, 1, n)
  <1> DEFINE Beyond == {i \in DOMAIN list : IsNewEdge(list, i) /\ LengthOf(list, i - 1) >= km}
  <1>1. CASE Beyond = {}
    BY <1>1 DEF SelectDistance
  <1>2. CASE Beyond # {}
    <2>1. Beyond \in SUBSET Nat /\ Beyond \subseteq 1..Len(list)
      OBVIOUS
    <2>2. Min(Beyond) \in 1..Len(list)
      <3> HIDE DEF Beyond
      <3> QED
        BY <1>2, <2>1, LeastOne
    <2>3. SelectDistance(list, km) = SubSeq(list, 1, Min(Beyond) - 1)
      BY <1>2 DEF SelectDistance
    <2> HIDE DEF Beyond
    <2> QED
      BY <2>2, <2>3
  <1> QED
    BY <1>1, <1>2

(* So the layer is made of features that the server answered.              *)
LEMMA SelectedTyped ==
  ASSUME NEW S, NEW list \in Seq(S), NEW km
  PROVE  SelectDistance(list, km) \in Seq(S)
  <1>1. PICK n \in 0..Len(list) : SelectDistance(list, km) = SubSeq(list, 1, n)
    BY SelectedIsPrefix
  <1> QED
    BY <1>1

(* What the server answers for a distance is a sequence of features.       *)
LEMMA ServedTyped ==
  ASSUME NEW km \in Distance
  PROVE  Served[km] \in Seq(Feature)
  <1>1. Served[km] \in Seq(ToSet(Served[km]))
    BY PageAssumption
  <1>2. ToSet(Served[km]) \subseteq Feature
    BY DEF Feature
  <1> HIDE DEF Feature
  <1> QED
    BY <1>1, <1>2

(* The keys of a list of features are keys.                                *)
LEMMA KeysTyped ==
  ASSUME NEW list \in Seq(Feature)
  PROVE  KeysOf(list) \subseteq Keys
  <1>1. \A i \in DOMAIN list : list[i] \in Feature
    <2> HIDE DEF Feature
    <2> QED
      OBVIOUS
  <1> QED
    BY <1>1 DEF KeysOf, Keys

(* The features of loaded edges are those of one answer.                   *)
LEMMA EdgesTyped ==
  ASSUME NEW edges \in Edges
  PROVE  edges.list \in Seq(Feature)
  <1>1. PICK km \in Distance : edges.list = Served[km]
    BY DEF Edges
  <1> QED
    BY <1>1, ServedTyped

(* Rendering loaded edges gives a layer, whatever the distance.            *)
LEMMA RenderedTyped ==
  ASSUME NEW edges \in Edges, NEW km
  PROVE  Rendered(edges, km) \in [list : Seq(Feature), marks : Marks]
  <1>1. SelectDistance(edges.list, km) \in Seq(Feature)
    BY EdgesTyped, SelectedTyped
  <1> HIDE DEF Feature, Marks
  <1> QED
    BY <1>1 DEF Rendered, Edges

(* Mark puts the demo's number at one key at most, and keeps the edges.    *)
LEMMA MarkFacts ==
  ASSUME NEW edges \in Edges, NEW key, demo.nr \in 0..MaxDemos
  PROVE  /\ Mark(edges, key) \in Edges
         /\ Mark(edges, key).list = edges.list
         /\ Mark(edges, key).nr = edges.nr
         /\ Mark(edges, key).km = edges.km
         /\ \A k \in DOMAIN Mark(edges, key).marks :
              \/ Mark(edges, key).marks[k] = demo.nr
              \/ k \in DOMAIN edges.marks /\ Mark(edges, key).marks[k] = edges.marks[k]
  <1> DEFINE new == [k \in DOMAIN edges.marks \cup ({key} \cap KeysOf(edges.list)) |->
                       IF k = key THEN demo.nr ELSE edges.marks[k]]
  <1>1. Mark(edges, key) = [edges EXCEPT !.marks = new]
    BY DEF Mark
  <1>2. new \in Marks
    <2>1. PICK K \in SUBSET Keys : edges.marks \in [K -> 0..MaxDemos]
      BY DEF Edges, Marks
    <2>2. KeysOf(edges.list) \subseteq Keys
      BY EdgesTyped, KeysTyped
    <2>3. DOMAIN new \in SUBSET Keys
      BY <2>1, <2>2
    <2>4. new \in [DOMAIN new -> 0..MaxDemos]
      BY <2>1
    <2> HIDE DEF new
    <2> QED
      BY <2>3, <2>4 DEF Marks
  <1>3. \A k \in DOMAIN new : new[k] = demo.nr \/ (k \in DOMAIN edges.marks /\ new[k] = edges.marks[k])
    OBVIOUS
  <1> HIDE DEF new
  <1>4. [edges EXCEPT !.marks = new] \in Edges /\ [edges EXCEPT !.marks = new].marks = new
    BY <1>2 DEF Edges
  <1> QED
    BY <1>1, <1>3, <1>4 DEF Edges

(* An uncoloured page is a page with marks.                                *)
LEMMA NoMarksTyped ==
  NoMarks \in Marks
  <1>1. NoMarks \in [{} -> 0..MaxDemos]
    BY DEF NoMarks
  <1> QED
    BY <1>1 DEF Marks

(* Loaded edges are told apart from edges that are not set yet.            *)
LEMMA EdgesAreSet ==
  ASSUME NEW edges \in Edges
  PROVE  edges # Unset
  BY DEF Edges, Unset

(* Nothing but the marks goes when the marks are deleted.                  *)
LEMMA DeletedFacts ==
  ASSUME PageTypeOK, allEdges # Unset
  PROVE  /\ MarksDeleted \in Edges
         /\ MarksDeleted.marks = NoMarks
         /\ MarksDeleted.nr = allEdges.nr
         /\ MarksDeleted.km = allEdges.km
         /\ MarksDeleted.list = allEdges.list
  <1> HIDE DEF Marks, NoMarks
  <1> QED
    BY NoMarksTyped DEF PageTypeOK, MarksDeleted, Edges

(* A turn of the painting loop.                                            *)
LEMMA PaintFacts ==
  ASSUME PageTypeOK, demo.pc # "idle",
         NEW edges \in Edges, edges.list = Served[edges.km],
         NEW states \in Seq(Keys), states # <<>>, PaintFirst(edges, states)
  PROVE  /\ allEdges' \in Edges
         /\ allEdges'.list = edges.list /\ allEdges'.nr = edges.nr /\ allEdges'.km = edges.km
         /\ \A k \in DOMAIN allEdges'.marks :
              \/ allEdges'.marks[k] = demo.nr
              \/ k \in DOMAIN edges.marks /\ allEdges'.marks[k] = edges.marks[k]
         /\ edgeLayer' = Rendered(allEdges', demo.km)
         /\ demo' \in [pc : {"painting"}, nr : {demo.nr}, km : {demo.km}, keys : {demo.keys}, left : Seq(Keys)]
         /\ UNCHANGED <<pickVars, loadVars, user>>
         /\ PageTypeOK'
  <1>1. allEdges' = Mark(edges, Head(states)) /\ edgeLayer' = Rendered(allEdges', demo.km)
    BY DEF PaintFirst
  <1>2. demo.nr \in 0..MaxDemos
    BY DEF PageTypeOK
  <1>3. /\ allEdges' \in Edges
        /\ allEdges'.list = edges.list /\ allEdges'.nr = edges.nr /\ allEdges'.km = edges.km
        /\ \A k \in DOMAIN allEdges'.marks :
             \/ allEdges'.marks[k] = demo.nr
             \/ k \in DOMAIN edges.marks /\ allEdges'.marks[k] = edges.marks[k]
    BY <1>1, <1>2, MarkFacts
  <1>4. edgeLayer' \in [list : Seq(Feature), marks : Marks]
    BY <1>1, <1>3, RenderedTyped
  <1>5. Tail(states) \in Seq(Keys)
    OBVIOUS
  <1>6. demo' \in [pc : {"painting"}, nr : {demo.nr}, km : {demo.km}, keys : {demo.keys}, left : Seq(Keys)]
    <2> HIDE DEF Keys
    <2> QED
      BY <1>5 DEF PaintFirst, PageTypeOK
  <1>7. UNCHANGED <<pickVars, loadVars, user>>
    BY DEF PaintFirst
  <1>8. PageTypeOK'
    <2>1. demo' \in [pc : {"idle", "asked", "painting"}, nr : 0..MaxDemos, km : Nat, keys : SUBSET Keys, left : Seq(Keys)]
      <3> HIDE DEF Keys
      <3> QED
        BY <1>6 DEF PageTypeOK
    <2>2. allEdges' \in Edges /\ allEdges'.list = Served[allEdges'.km]
      BY <1>3
    <2> HIDE DEF Edges, Keys, Feature, Marks
    <2> QED
      BY <2>1, <2>2, <1>4, <1>7 DEF PageTypeOK, pickVars, loadVars
  <1> QED
    BY <1>1, <1>3, <1>6, <1>7, <1>8

-----------------------------------------------------------------------------
(* The congestion demo runs over edges that were loaded.                   *)
DemoHasEdges == demo.pc # "idle" => allEdges # Unset

(* The demo's first turn deletes the marks before it, the next ones add.   *)
LEMMA AnswerFacts ==
  ASSUME PageTypeOK, DemoHasEdges, DemoAnswers \/ PaintNext
  PROVE  /\ demo.pc # "idle" /\ allEdges \in Edges
         /\ allEdges' \in Edges
         /\ allEdges'.list = allEdges.list /\ allEdges'.nr = allEdges.nr /\ allEdges'.km = allEdges.km
         /\ \A k \in DOMAIN allEdges'.marks :
              \/ allEdges'.marks[k] = demo.nr
              \/ /\ demo.pc = "painting"
                 /\ k \in DOMAIN allEdges.marks /\ allEdges'.marks[k] = allEdges.marks[k]
         /\ edgeLayer' = Rendered(allEdges', demo.km)
         /\ demo' \in [pc : {"painting"}, nr : {demo.nr}, km : {demo.km}, keys : {demo.keys}, left : Seq(Keys)]
         /\ UNCHANGED <<pickVars, loadVars, user>>
         /\ PageTypeOK'
  <1>1. demo.pc # "idle"
    BY DEF DemoAnswers, PaintNext
  <1>2. allEdges # Unset /\ allEdges \in Edges /\ allEdges.list = Served[allEdges.km]
    BY <1>1 DEF DemoHasEdges, PageTypeOK
  <1>3. CASE DemoAnswers
    <2>1. PICK n \in 1..MaxStates : \E states \in [1..n -> demo.keys] : PaintFirst(MarksDeleted, states)
      BY <1>3 DEF DemoAnswers
    <2>a. PICK states \in [1..n -> demo.keys] : PaintFirst(MarksDeleted, states)
      BY <2>1
    <2>2. states \in Seq(Keys) /\ states # <<>>
      <3>1. MaxStates \in Nat /\ demo.keys \subseteq Keys
        BY PageAssumption DEF PageTypeOK
      <3> HIDE DEF Keys
      <3> QED
        BY <3>1
    <2>3. DOMAIN NoMarks = {}
      BY DEF NoMarks
    <2> HIDE DEF Edges, Keys
    <2> QED
      BY <1>1, <1>2, <2>a, <2>2, <2>3, DeletedFacts, PaintFacts
  <1>4. CASE PaintNext
    <2>1. demo.left \in Seq(Keys) /\ demo.left # <<>> /\ demo.pc = "painting" /\ PaintFirst(allEdges, demo.left)
      BY <1>4 DEF PaintNext, PageTypeOK
    <2> HIDE DEF Edges, Keys
    <2> QED
      BY <1>1, <1>2, <2>1, PaintFacts
  <1> QED
    BY <1>3, <1>4

(* The finally block only gives the button back.                           *)
LEMMA ReturnFacts ==
  ASSUME PageTypeOK, Return
  PROVE  demo' \in [pc : {"idle"}, nr : {demo.nr}, km : {demo.km}, keys : SUBSET Keys, left : Seq(Keys)]
  <1>1. <<>> \in Seq(Keys)
    OBVIOUS
  <1> HIDE DEF Keys
  <1> QED
    BY <1>1 DEF PageTypeOK, Return

(* The demos that did not paint: their answer failed, was empty, or ended. *)
LEMMA DemoLeaves ==
  ASSUME PageTypeOK, DemoFails \/ DemoHasNothing \/ DemoEnds
  PROVE  /\ demo.pc # "idle"
         /\ Return
         /\ allEdges' \in {allEdges, [allEdges EXCEPT !.marks = NoMarks]}
         /\ UNCHANGED <<pickVars, loadVars, edgeLayer, user>>
  BY DEF DemoFails, DemoHasNothing, DemoEnds

(* The answer to a load.                                                   *)
LEMMA ArriveFacts ==
  ASSUME PageTypeOK, NEW load \in loads, EdgesArrive(load)
  PROVE  /\ load \in [nr : Nat \ {0}, km : Distance]
         /\ allEdges' \in Edges
         /\ allEdges'.list = Served[load.km] /\ allEdges'.nr = load.nr /\ allEdges'.km = load.km
         /\ allEdges'.marks = NoMarks
         /\ edgeLayer' = Rendered(allEdges', load.km)
         /\ edgeLayer' \in [list : Seq(Feature), marks : Marks]
  <1>1. load \in [nr : Nat \ {0}, km : Distance]
    BY DEF PageTypeOK
  <1>2. allEdges' = [nr |-> load.nr, km |-> load.km, list |-> Served[load.km], marks |-> NoMarks]
    BY DEF EdgesArrive
  <1>3. allEdges' \in Edges
    BY <1>1, <1>2, NoMarksTyped DEF Edges
  <1>4. edgeLayer' = Rendered(allEdges', load.km)
    BY DEF EdgesArrive
  <1> QED
    BY <1>1, <1>2, <1>3, <1>4, RenderedTyped

(* The types hold when the page opens.                                     *)
LEMMA PageTypeInit ==
  ASSUME Init
  PROVE  PageTypeOK /\ DemoHasEdges
  <1>1. edgeLayer \in [list : Seq(Feature), marks : Marks]
    <2>1. <<>> \in Seq(Feature)
      OBVIOUS
    <2> HIDE DEF Feature, Marks, NoMarks
    <2> QED
      BY <2>1, NoMarksTyped DEF Init
  <1>2. demo \in [pc : {"idle", "asked", "painting"}, nr : 0..MaxDemos, km : Nat, keys : SUBSET Keys, left : Seq(Keys)]
    <2>1. <<>> \in Seq(Keys)
      OBVIOUS
    <2> HIDE DEF Keys
    <2> QED
      BY <2>1, PageAssumption DEF Init
  <1>3. demo.pc = "idle"
    BY DEF Init
  <1> HIDE DEF Feature, Marks, Keys, Edges
  <1> QED
    BY <1>1, <1>2, <1>3 DEF Init, PageTypeOK, DemoHasEdges

(* Every step of the page, its timers, its loads and its demos keeps the   *)
(* types.                                                                  *)
LEMMA PageTypeStep ==
  ASSUME PageTypeOK, DemoHasEdges, [Next]_vars
  PROVE  PageTypeOK' /\ DemoHasEdges'
  <1> USE DEF PageTypeOK, DemoHasEdges
  <1> HIDE DEF Feature, Marks, Keys, Edges, NoMarks
  <1>1. ASSUME NEW km \in Distance \cup {0}, Pick(km)  PROVE PageTypeOK' /\ DemoHasEdges'
    BY <1>1 DEF Pick, loadVars
  <1>2. CASE StartLoad
    <2>1. [nr |-> started + 1, km |-> timer] \in [nr : Nat \ {0}, km : Distance]
      BY <1>2 DEF StartLoad
    <2> QED
      BY <1>2, <2>1 DEF StartLoad, LoadsAfterAbort
  <1>3. ASSUME NEW load \in loads, EdgesArrive(load)  PROVE PageTypeOK' /\ DemoHasEdges'
    <2>1. allEdges' # Unset
      BY <1>3, ArriveFacts, EdgesAreSet
    <2> QED
      BY <1>3, <2>1, ArriveFacts DEF EdgesArrive, pickVars
  <1>4. ASSUME NEW load \in loads, LoadFails(load)  PROVE PageTypeOK' /\ DemoHasEdges'
    BY <1>4 DEF LoadFails, pickVars
  <1>5. CASE AskDemo
    <2>1. displayedTraversalKeys \subseteq Keys
      BY KeysTyped DEF displayedTraversalKeys
    <2>2. <<>> \in Seq(Keys)
      OBVIOUS
    <2>3. demo' \in [pc : {"idle", "asked", "painting"}, nr : 0..MaxDemos, km : Nat, keys : SUBSET Keys, left : Seq(Keys)]
      <3>1. demo.nr + 1 \in 0..MaxDemos
        BY <1>5, PageAssumption DEF AskDemo
      <3>2. picker \in Nat
        BY PageAssumption
      <3>3. demo' = [pc |-> "asked", nr |-> demo.nr + 1, km |-> picker,
                     keys |-> displayedTraversalKeys, left |-> <<>>]
        BY <1>5 DEF AskDemo
      <3> QED
        BY <2>1, <2>2, <3>1, <3>2, <3>3
    <2> QED
      BY <1>5, <2>3 DEF AskDemo, pickVars, loadVars
  <1>6. CASE DemoFails \/ DemoHasNothing \/ DemoEnds
    <2>1. allEdges # Unset /\ allEdges \in Edges /\ allEdges.list = Served[allEdges.km]
      BY <1>6, DemoLeaves
    <2>2. /\ allEdges' \in Edges /\ allEdges'.list = allEdges.list /\ allEdges'.km = allEdges.km
      BY <1>6, <2>1, DemoLeaves, NoMarksTyped DEF Edges
    <2>3. allEdges' # Unset
      BY <2>2, EdgesAreSet
    <2>4. demo' \in [pc : {"idle", "asked", "painting"}, nr : 0..MaxDemos, km : Nat, keys : SUBSET Keys, left : Seq(Keys)]
      BY <1>6, DemoLeaves, ReturnFacts
    <2> QED
      BY <1>6, <2>1, <2>2, <2>3, <2>4, DemoLeaves DEF pickVars, loadVars
  <1>7. CASE DemoAnswers \/ PaintNext
    <2>1. allEdges' # Unset
      BY <1>7, AnswerFacts, EdgesAreSet
    <2> QED
      BY <1>7, <2>1, AnswerFacts
  <1>8. CASE UNCHANGED vars
    BY <1>8 DEF vars, pickVars, loadVars
  <1> QED
    BY <1>1, <1>2, <1>3, <1>4, <1>5, <1>6, <1>7, <1>8 DEF Next, DemoStep

(* The page's variables keep their types: what is shown is made of         *)
(* features the server served, and a running demo has edges to mark.       *)
THEOREM TypeCorrect == Spec => [](PageTypeOK /\ DemoHasEdges)
  <1>1. Init => PageTypeOK /\ DemoHasEdges
    BY PageTypeInit
  <1>2. (PageTypeOK /\ DemoHasEdges) /\ [Next]_vars => (PageTypeOK /\ DemoHasEdges)'
    BY PageTypeStep
  <1> QED
    BY <1>1, <1>2, PTL DEF Spec

-----------------------------------------------------------------------------
(* A fetch under way is that of the newest load: abort() ended the others. *)
OnlyNewestLoads == \A load \in loads : load.nr = started

(* However loads and their answers interleave, with the demo in between,   *)
(* the page at rest has the edges of the newest load.                      *)
THEOREM NewestLoadStays == Spec => []NewestLoadWins
  <1> DEFINE Inv == OnlyNewestLoads /\ NewestLoadWins
  <1>1. Init => Inv
    BY DEF Init, OnlyNewestLoads, NewestLoadWins
  <1>2. PageTypeOK /\ DemoHasEdges /\ Inv /\ [Next]_vars => Inv'
    <2> SUFFICES ASSUME PageTypeOK, DemoHasEdges, Inv, [Next]_vars
                 PROVE  Inv'
      OBVIOUS
    <2> USE DEF OnlyNewestLoads, NewestLoadWins
    <2> HIDE DEF PageTypeOK, DemoHasEdges, Edges, Feature, Marks, Keys, NoMarks
    <2>1. ASSUME NEW km \in Distance \cup {0}, Pick(km)  PROVE Inv'
      BY <2>1 DEF Pick, loadVars
    <2>2. CASE StartLoad
      <3>1. loads' = {[nr |-> started + 1, km |-> timer]} /\ started' = started + 1
        BY <2>2 DEF StartLoad, LoadsAfterAbort
      <3>2. [nr |-> started + 1, km |-> timer].nr = started + 1
        OBVIOUS
      <3>3. OnlyNewestLoads'
        BY <3>1, <3>2
      <3>4. loads' # {}
        BY <3>1
      <3> QED
        BY <3>3, <3>4
    <2>3. ASSUME NEW load \in loads, EdgesArrive(load)  PROVE Inv'
      <3>1. allEdges'.nr = load.nr
        BY <2>3, ArriveFacts
      <3>2. loads' = loads \ {load} /\ started' = started
        BY <2>3 DEF EdgesArrive
      <3>3. load.nr = started
        BY <2>3
      <3>4. OnlyNewestLoads'
        BY <3>2
      <3>5. NewestLoadWins'
        BY <3>1, <3>2, <3>3
      <3> QED
        BY <3>4, <3>5
    <2>4. ASSUME NEW load \in loads, LoadFails(load)  PROVE Inv'
      BY <2>4 DEF LoadFails
    <2>5. CASE AskDemo
      BY <2>5 DEF AskDemo, loadVars
    <2>6. CASE DemoFails \/ DemoHasNothing \/ DemoEnds
      <3>1. allEdges # Unset /\ allEdges \in Edges
        BY <2>6, DemoLeaves DEF PageTypeOK, DemoHasEdges
      <3>2. allEdges'.nr = allEdges.nr
        BY <2>6, <3>1, DemoLeaves DEF Edges
      <3> QED
        BY <2>6, <3>2, DemoLeaves DEF loadVars
    <2>7. CASE DemoAnswers \/ PaintNext
      BY <2>7, AnswerFacts DEF loadVars
    <2>8. CASE UNCHANGED vars
      BY <2>8 DEF vars, loadVars
    <2> QED
      BY <2>1, <2>2, <2>3, <2>4, <2>5, <2>6, <2>7, <2>8 DEF Next, DemoStep
  <1> QED
    BY <1>1, <1>2, TypeCorrect, PTL DEF Spec

-----------------------------------------------------------------------------
(* Marks of one demo only.                                                 *)
OneDemo(marks) == \A k, l \in DOMAIN marks : marks[k] = marks[l]

(* The marks of the layer are those of one demo, and while a demo paints   *)
(* the loaded edges bear no others than its own.                           *)
MarksOfOneDemo ==
  /\ OneDemo(edgeLayer.marks)
  /\ allEdges # Unset => OneDemo(allEdges.marks)
  /\ demo.pc = "painting" => \A k \in DOMAIN allEdges.marks : allEdges.marks[k] = demo.nr

(* Marks that agree name at most one demo.                                 *)
LEMMA OneDemoCounts ==
  ASSUME NEW marks, OneDemo(marks)
  PROVE  Cardinality({marks[k] : k \in DOMAIN marks}) <= 1
  <1> DEFINE S == {marks[k] : k \in DOMAIN marks}
  <1>1. ASSUME DOMAIN marks = {}  PROVE Cardinality(S) <= 1
    <2>1. S = {}
      BY <1>1
    <2> HIDE DEF S
    <2> QED
      BY <2>1, FS_EmptySet
  <1>2. ASSUME NEW k \in DOMAIN marks  PROVE Cardinality(S) <= 1
    <2>1. S = {marks[k]}
      BY DEF OneDemo
    <2>2. Cardinality({marks[k]}) = 1
      BY FS_Singleton
    <2> HIDE DEF S
    <2> QED
      BY <2>1, <2>2
  <1>3. Cardinality(S) <= 1
    <2> HIDE DEF S
    <2> QED
      BY <1>1, <1>2
  <1> QED
    BY <1>3

(* Loads clear the marks, a demo deletes them before its own.              *)
LEMMA MarksOfOneDemoStep ==
  ASSUME PageTypeOK, DemoHasEdges, MarksOfOneDemo, [Next]_vars
  PROVE  MarksOfOneDemo'
  <1> USE DEF MarksOfOneDemo
  <1> HIDE DEF PageTypeOK, DemoHasEdges, Edges, Feature, Marks, Keys, NoMarks
  <1>0. OneDemo(NoMarks) /\ DOMAIN NoMarks = {}
    BY DEF OneDemo, NoMarks
  <1>1. ASSUME NEW km \in Distance \cup {0}, Pick(km)  PROVE MarksOfOneDemo'
    BY <1>1 DEF Pick
  <1>2. CASE StartLoad
    BY <1>2 DEF StartLoad
  <1>3. ASSUME NEW load \in loads, EdgesArrive(load)  PROVE MarksOfOneDemo'
    <2>1. allEdges'.marks = NoMarks /\ edgeLayer'.marks = NoMarks
      BY <1>3, ArriveFacts DEF Rendered
    <2> QED
      BY <1>0, <2>1
  <1>4. ASSUME NEW load \in loads, LoadFails(load)  PROVE MarksOfOneDemo'
    BY <1>4 DEF LoadFails
  <1>5. CASE AskDemo
    <2>1. demo'.pc = "asked" /\ UNCHANGED <<allEdges, edgeLayer>>
      BY <1>5 DEF AskDemo
    <2> QED
      BY <2>1
  <1>6. CASE DemoFails \/ DemoHasNothing \/ DemoEnds
    <2>1. demo'.pc = "idle"
      BY <1>6, DemoLeaves, ReturnFacts
    <2>2. allEdges # Unset /\ allEdges \in Edges
      BY <1>6, DemoLeaves DEF DemoHasEdges, PageTypeOK
    <2>3. [allEdges EXCEPT !.marks = NoMarks].marks = NoMarks
      BY <2>2 DEF Edges
    <2>4. allEdges'.marks = NoMarks \/ allEdges'.marks = allEdges.marks
      BY <1>6, <2>3, DemoLeaves
    <2>5. edgeLayer' = edgeLayer
      BY <1>6, DemoLeaves
    <2> QED
      BY <1>0, <2>1, <2>2, <2>4, <2>5
  <1>7. CASE DemoAnswers \/ PaintNext
    <2>1. demo'.nr = demo.nr
      BY <1>7, AnswerFacts
    <2>2. \A k \in DOMAIN allEdges'.marks : allEdges'.marks[k] = demo.nr
      BY <1>7, AnswerFacts
    <2>3. edgeLayer'.marks = allEdges'.marks
      BY <1>7, AnswerFacts DEF Rendered
    <2>4. OneDemo(allEdges'.marks)
      BY <2>2 DEF OneDemo
    <2> QED
      BY <2>1, <2>2, <2>3, <2>4
  <1>8. CASE UNCHANGED vars
    BY <1>8 DEF vars
  <1> QED
    BY <1>1, <1>2, <1>3, <1>4, <1>5, <1>6, <1>7, <1>8 DEF Next, DemoStep

(* Though edges may be loaded, refused or picked anew between two turns of *)
(* the painting loop, the map never shows colours of two demos.            *)
THEOREM ColoursNeverMix == Spec => []OneDemoPainted
  <1>1. Init => MarksOfOneDemo
    <2> SUFFICES ASSUME Init  PROVE MarksOfOneDemo
      OBVIOUS
    <2>1. edgeLayer.marks = NoMarks /\ allEdges = Unset /\ demo.pc = "idle"
      BY DEF Init
    <2>2. OneDemo(NoMarks)
      BY DEF OneDemo, NoMarks
    <2> QED
      BY <2>1, <2>2 DEF MarksOfOneDemo
  <1>2. PageTypeOK /\ DemoHasEdges /\ MarksOfOneDemo /\ [Next]_vars => MarksOfOneDemo'
    BY MarksOfOneDemoStep
  <1>3. MarksOfOneDemo => OneDemoPainted
    BY OneDemoCounts DEF MarksOfOneDemo, OneDemoPainted
  <1> QED
    BY <1>1, <1>2, <1>3, TypeCorrect, PTL DEF Spec

-----------------------------------------------------------------------------
(* A patient user leaves one thing under way at most, and it is about the  *)
(* distance that the picker shows.                                         *)
OneThingAtATime ==
  user = "patient" =>
    /\ timer # 0 => timer = picker /\ loads = {} /\ demo.pc = "idle"
    /\ loads # {} => demo.pc = "idle" /\ \A load \in loads : load.km = picker
    /\ demo.pc # "idle" => demo.km = picker

(* When nothing is being fetched, the edges and the layer are the          *)
(* picker's, a demo over them or not.                                      *)
ShowsThePick ==
  user = "patient" /\ timer = 0 /\ loads = {} /\ started > 0 /\ ~broken /\ picker # 0 =>
    /\ allEdges.list = Served[picker]
    /\ edgeLayer.list = SelectDistance(Served[picker], picker)

(* For a user who waits, every step keeps one thing going at a time, with  *)
(* the picked distance.                                                    *)
LEMMA PickShownStep ==
  ASSUME PageTypeOK, DemoHasEdges, OneThingAtATime, ShowsThePick, [Next]_vars
  PROVE  OneThingAtATime' /\ ShowsThePick'
  <1> USE DEF OneThingAtATime, ShowsThePick
  <1> HIDE DEF PageTypeOK, DemoHasEdges, Edges, Feature, Marks, Keys, NoMarks
  <1>1. ASSUME NEW km \in Distance \cup {0}, Pick(km)  PROVE OneThingAtATime' /\ ShowsThePick'
    BY <1>1 DEF Pick, UserActs, Quiet, loadVars
  <1>2. CASE StartLoad
    <2>1. loads' = {[nr |-> started + 1, km |-> timer]} /\ timer' = 0 /\ timer # 0
      BY <1>2 DEF StartLoad, LoadsAfterAbort
    <2>2. UNCHANGED <<picker, demo, user>>
      BY <1>2 DEF StartLoad
    <2>3. loads' # {} /\ \A load \in loads' : load.km = timer
      BY <2>1
    <2> QED
      BY <2>1, <2>2, <2>3
  <1>3. ASSUME NEW load \in loads, EdgesArrive(load)  PROVE OneThingAtATime' /\ ShowsThePick'
    <2>1. /\ allEdges'.list = Served[load.km]
          /\ edgeLayer'.list = SelectDistance(Served[load.km], load.km)
      BY <1>3, ArriveFacts DEF Rendered
    <2>2. loads' \subseteq loads /\ UNCHANGED <<picker, timer, demo, user>>
      BY <1>3 DEF EdgesArrive, pickVars
    <2>3. user = "patient" => load.km = picker
      BY <1>3
    <2> QED
      BY <1>3, <2>1, <2>2, <2>3
  <1>4. ASSUME NEW load \in loads, LoadFails(load)  PROVE OneThingAtATime' /\ ShowsThePick'
    BY <1>4 DEF LoadFails, pickVars
  <1>5. CASE AskDemo
    <2>1. /\ demo'.pc = "asked" /\ demo'.km = picker
          /\ UNCHANGED <<pickVars, loadVars, allEdges, edgeLayer, user>>
          /\ user = "patient" => timer = 0 /\ loads = {}
      BY <1>5 DEF AskDemo, UserActs, Quiet
    <2> QED
      BY <2>1 DEF pickVars, loadVars
  <1>6. CASE DemoFails \/ DemoHasNothing \/ DemoEnds
    <2>1. demo'.pc = "idle"
      BY <1>6, DemoLeaves, ReturnFacts
    <2>2. allEdges # Unset /\ allEdges \in Edges
      BY <1>6, DemoLeaves DEF DemoHasEdges, PageTypeOK
    <2>3. [allEdges EXCEPT !.marks = NoMarks].list = allEdges.list
      BY <2>2 DEF Edges
    <2>4. allEdges'.list = allEdges.list
      BY <1>6, <2>3, DemoLeaves
    <2>5. UNCHANGED <<pickVars, loadVars, edgeLayer, user>>
      BY <1>6, DemoLeaves
    <2> QED
      BY <2>1, <2>4, <2>5 DEF pickVars, loadVars
  <1>7. CASE DemoAnswers \/ PaintNext
    <2>1. demo.pc # "idle" /\ demo'.km = demo.km /\ allEdges'.list = allEdges.list
      BY <1>7, AnswerFacts
    <2>2. edgeLayer'.list = SelectDistance(allEdges.list, demo.km)
      BY <1>7, <2>1, AnswerFacts DEF Rendered
    <2>3. UNCHANGED <<pickVars, loadVars, user>>
      BY <1>7, AnswerFacts
    <2> QED
      BY <2>1, <2>2, <2>3 DEF pickVars, loadVars
  <1>8. CASE UNCHANGED vars
    BY <1>8 DEF vars, pickVars, loadVars
  <1> QED
    BY <1>1, <1>2, <1>3, <1>4, <1>5, <1>6, <1>7, <1>8 DEF Next, DemoStep

(* For a user who waits for the page, what is shown at rest is just the    *)
(* distance that was picked, demos and failed loads before included.       *)
THEOREM PatientSeesThePick == Spec => []PatientViewIsAsPicked
  <1>1. Init => OneThingAtATime /\ ShowsThePick
    BY DEF Init, OneThingAtATime, ShowsThePick
  <1>2. PageTypeOK /\ DemoHasEdges /\ (OneThingAtATime /\ ShowsThePick) /\ [Next]_vars
          => (OneThingAtATime /\ ShowsThePick)'
    BY PickShownStep
  <1>3. ShowsThePick => PatientViewIsAsPicked
    BY DEF ShowsThePick, PatientViewIsAsPicked, Quiet
  <1> QED
    BY <1>1, <1>2, <1>3, TypeCorrect, PTL DEF Spec
=============================================================================
