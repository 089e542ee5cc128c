------------------------ MODULE DemoCongestionProofs ------------------------
(***************************************************************************)
(* Proofs about DemoCongestion, for any recorded files, requests, answers  *)
(* of the matcher, trace lengths and budgets; and, from the line that says *)
(* so, about BenchTargets, the other program that reads recorded files,    *)
(* for any files, limits and numbers of shards and cycles.                 *)
(***************************************************************************)
EXTENDS DemoCongestion, BenchTargets, WellFoundedInduction, SequenceTheorems, FiniteSetTheorems, TLAPS

(* A set of natural numbers has a least one.                               *)
LEMMA LeastOne ==
  ASSUME NEW S \in SUBSET Nat, S # {}
  PROVE  \E m \in S : \A n \in S : m <= n
  <1> DEFINE R == OpToRel(<, Nat)
  <1>1. PICK x \in S : \A y \in S : ~(<<y, x>> \in R)
    <2> HIDE DEF R
    <2>1. IsWellFoundedOn(R, Nat)
      BY NatLessThanWellFounded DEF R
    <2> QED
      BY <2>1, WFMin
  <1>2. ASSUME NEW y \in S  PROVE x <= y
    <2>1. ~(<<y, x>> \in {p \in Nat \X Nat : p[1] < p[2]})
      BY <1>1 DEF OpToRel
    <2>2. x \in Nat /\ y \in Nat
      OBVIOUS
    <2>3. ~(y < x)
      BY <2>1, <2>2
    <2> QED
      BY <2>2, <2>3
  <1> QED
    BY <1>2

(* Induction up to n over a set in place of a predicate.                   *)
LEMMA CountingUp ==
  ASSUME NEW n \in Nat, NEW S, 0 \in S, \A i \in 0..n : i < n /\ i \in S => i + 1 \in S
  PROVE  \A i \in 0..n : i \in S
  <1> DEFINE Bad == {i \in 0..n : i \notin S}
  <1>1. ASSUME Bad # {}  PROVE FALSE
    <2>1. PICK m \in Bad : \A i \in Bad : m <= i
      <3>1. Bad \in SUBSET Nat
        OBVIOUS
      <3> HIDE DEF Bad
      <3> QED
        BY <1>1, <3>1, LeastOne
    <2>2. m \in 1..n
      OBVIOUS
    <2>3. m - 1 \in 0..n /\ m - 1 < n /\ m - 1 \notin Bad
      BY <2>1, <2>2
    <2>4. m - 1 \in S
      BY <2>3
    <2>5. (m - 1) + 1 \in S
      BY <2>3, <2>4
    <2> QED
      BY <2>2, <2>5
  <1> QED
    BY <1>1

-----------------------------------------------------------------------------
(* The list that the n-th turn of SelectAt's loop leaves, if kept lists    *)
(* what the turns before it left.                                          *)
Turn(list, S, kept, n) ==
  IF n = 0 THEN <<>>
  ELSE IF n \in S THEN Append(kept[n - 1], list[n]) ELSE kept[n - 1]

(* SelectAt's recursive function is there, whatever the list.              *)
LEMMA SelectExists ==
  ASSUME NEW V, NEW list \in Seq(V), NEW S
  PROVE  \E kept : kept = [n \in 0..Len(list) |-> Turn(list, S, kept, n)]
  <1> DEFINE Upto(m) == \E f : f = [n \in 0..m |-> Turn(list, S, f, n)]
             M == {m \in 0..Len(list) : Upto(m)}
  <1>1. 0 \in M
    <2> DEFINE f == [n \in 0..0 |-> <<>>]
    <2>1. f = [n \in 0..0 |-> Turn(list, S, f, n)]
      BY DEF Turn
    <2> HIDE DEF f
    <2>2. Upto(0)
      BY <2>1
    <2>3. 0 \in 0..Len(list)
      OBVIOUS
    <2> QED
      BY <2>2, <2>3
  <1>2. ASSUME NEW m \in 0..Len(list), m < Len(list), m \in M
        PROVE  m + 1 \in M
    <2>1. PICK f : f = [n \in 0..m |-> Turn(list, S, f, n)]
      BY <1>2
    <2> DEFINE g == [n \in 0..(m + 1) |-> IF n <= m THEN f[n] ELSE Turn(list, S, f, n)]
    <2>2. ASSUME NEW n \in 0..(m + 1)  PROVE g[n] = Turn(list, S, g, n)
      <3>1. CASE n <= m
        <4>1. n \in 0..m /\ (n # 0 => n - 1 \in 0..m)
          BY <3>1
        <4>2. g[n] = f[n]
          BY <3>1, <4>1
        <4>3. n # 0 => g[n - 1] = f[n - 1]
          BY <4>1
        <4>4. f[n] = Turn(list, S, f, n)
          BY <2>1, <4>1
        <4>5. Turn(list, S, f, n) = Turn(list, S, g, n)
          <5> HIDE DEF g
          <5> QED
            BY <4>3 DEF Turn
        <4> HIDE DEF g
        <4> QED
          BY <4>2, <4>4, <4>5
      <3>2. CASE n = m + 1
        <4>1. n # 0 /\ n - 1 = m /\ m \in 0..m /\ ~(n <= m)
          BY <3>2
        <4>2. g[n] = Turn(list, S, f, n)
          BY <4>1
        <4>3. g[m] = f[m]
          BY <4>1
        <4>4. Turn(list, S, f, n) = Turn(list, S, g, n)
          <5> HIDE DEF g
          <5> QED
            BY <4>1, <4>3 DEF Turn
        <4> HIDE DEF g
        <4> QED
          BY <4>2, <4>4
      <3>3. n <= m \/ n = m + 1
        BY <1>2
      <3> QED
        BY <3>1, <3>2, <3>3
    <2>3. DOMAIN g = 0..(m + 1) /\ g = [n \in DOMAIN g |-> g[n]]
      OBVIOUS
    <2>4. g = [n \in 0..(m + 1) |-> Turn(list, S, g, n)]
      <3> HIDE DEF g
      <3> QED
        BY <2>2, <2>3
    <2> HIDE DEF g
    <2>5. Upto(m + 1)
      BY <2>4
    <2>6. m + 1 \in 0..Len(list)
      BY <1>2
    <2> QED
      BY <2>5, <2>6
  <1>3. Len(list) \in Nat /\ Len(list) \in 0..Len(list)
    OBVIOUS
  <1>4. Len(list) \in M
    <2> HIDE DEF M
    <2> QED
      BY <1>1, <1>2, <1>3, CountingUp
  <1> QED
    BY <1>4

(* SelectAt turn by turn.                                                  *)
LEMMA SelectTurns ==
  ASSUME NEW V, NEW list \in Seq(V), NEW S
  PROVE  \E kept : /\ SelectAt(list, S) = kept[Len(list)]
                   /\ kept[0] = <<>>
                   /\ \A n \in 1..Len(list) :
                        kept[n] = IF n \in S THEN Append(kept[n - 1], list[n]) ELSE kept[n - 1]
  <1> DEFINE Loop(f) == f = [n \in 0..Len(list) |-> Turn(list, S, f, n)]
             F == CHOOSE f : Loop(f)
  <1>1. SelectAt(list, S) = F[Len(list)]
    BY DEF SelectAt, Turn
  <1>2. Loop(F)
    <2>1. \E f : Loop(f)
      BY SelectExists
    <2> HIDE DEF Loop
    <2> QED
      BY <2>1
  <1>3. \A n \in 0..Len(list) : F[n] = Turn(list, S, F, n)
    <2> HIDE DEF F
    <2> QED
      BY <1>2
  <1> HIDE DEF F, Loop
  <1>4. F[0] = <<>>
    <2>1. 0 \in 0..Len(list)
      OBVIOUS
    <2> QED
      BY <1>3, <2>1 DEF Turn
  <1>5. \A n \in 1..Len(list) : F[n] = IF n \in S THEN Append(F[n - 1], list[n]) ELSE F[n - 1]
    <2> SUFFICES ASSUME NEW n \in 1..Len(list)
                 PROVE  F[n] = IF n \in S THEN Append(F[n - 1], list[n]) ELSE F[n - 1]
      OBVIOUS
    <2>1. n \in 0..Len(list) /\ n # 0
      OBVIOUS
    <2> QED
      BY <1>3, <2>1 DEF Turn
  <1> QED
    BY <1>1, <1>4, <1>5

(* What SelectAt returns: elements of the list at indices in S, no more    *)
(* than the list has.                                                      *)
LEMMA SelectFacts ==
  ASSUME NEW V, NEW list \in Seq(V), NEW S
  PROVE  /\ SelectAt(list, S) \in Seq({list[j] : j \in S \cap DOMAIN list})
         /\ Len(SelectAt(list, S)) <= Len(list)
         /\ S \cap DOMAIN list = {} => SelectAt(list, S) = <<>>
  <1> DEFINE W == {list[j] : j \in S \cap DOMAIN list}
             l == Len(list)
  <1>1. PICK kept : /\ SelectAt(list, S) = kept[l]
                    /\ kept[0] = <<>>
                    /\ \A n \in 1..l : kept[n] = IF n \in S THEN Append(kept[n - 1], list[n]) ELSE kept[n - 1]
    BY SelectTurns
  <1>2. l \in Nat /\ DOMAIN list = 1..l
    OBVIOUS
  <1> DEFINE Right(n) == kept[n] \in Seq(W) /\ Len(kept[n]) <= n /\ (W = {} => kept[n] = <<>>)
             M == {n \in 0..l : Right(n)}
  <1> HIDE DEF W
  <1>3. 0 \in M
    <2>1. <<>> \in Seq(W) /\ Len(<<>>) = 0
      OBVIOUS
    <2>2. Right(0)
      BY <1>1, <2>1
    <2> QED
      BY <1>2, <2>2
  <1>4. ASSUME NEW m \in 0..l, m < l, m \in M  PROVE m + 1 \in M
    <2>1. m + 1 \in 1..l /\ (m + 1) - 1 = m
      BY <1>2, <1>4
    <2>2. kept[m + 1] = IF m + 1 \in S THEN Append(kept[m], list[m + 1]) ELSE kept[m]
      BY <1>1, <2>1
    <2>3. kept[m] \in Seq(W) /\ Len(kept[m]) \in Nat /\ Len(kept[m]) <= m /\ (W = {} => kept[m] = <<>>)
      BY <1>4
    <2>4. CASE m + 1 \in S
      <3>1. list[m + 1] \in W
        BY <1>2, <2>1, <2>4 DEF W
      <3>2. kept[m + 1] = Append(kept[m], list[m + 1])
        BY <2>2, <2>4
      <3> DEFINE t == kept[m]  e == list[m + 1]
      <3>3. t \in Seq(W) /\ e \in W
        BY <2>3, <3>1
      <3> HIDE DEF t, e
      <3>4. Append(t, e) \in Seq(W) /\ Len(Append(t, e)) = Len(t) + 1 /\ W # {}
        BY <3>3
      <3>5. kept[m + 1] = Append(t, e) /\ Len(t) <= m /\ Len(t) \in Nat
        BY <2>3, <3>2 DEF t, e
      <3>6. Right(m + 1)
        BY <3>4, <3>5
      <3> HIDE DEF Right
      <3> QED
        BY <2>1, <1>2, <3>6
    <2>5. CASE m + 1 \notin S
      BY <1>2, <2>1, <2>2, <2>3, <2>5
    <2> QED
      BY <2>4, <2>5
  <1>5. l \in M
    <2> HIDE DEF M, l
    <2> QED
      BY <1>2, <1>3, <1>4, CountingUp
  <1>6. S \cap DOMAIN list = {} => W = {}
    BY DEF W
  <1> QED
    BY <1>1, <1>5, <1>6 DEF W

(* SelectAt of a longer list: the new element comes last, if it is chosen. *)
LEMMA SelectAppend ==
  ASSUME NEW V, NEW list \in Seq(V), NEW e \in V, NEW S, NEW T,
         NEW n, n = Len(list), \A i \in 1..n : i \in S <=> i \in T
  PROVE  /\ n + 1 \in T => SelectAt(Append(list, e), T) = Append(SelectAt(list, S), e)
         /\ n + 1 \notin T => SelectAt(Append(list, e), T) = SelectAt(list, S)
  <1> DEFINE l == Len(list)
             more == Append(list, e)
  <1>1. PICK f : /\ SelectAt(list, S) = f[l]
                 /\ f[0] = <<>>
                 /\ \A i \in 1..l : f[i] = IF i \in S THEN Append(f[i - 1], list[i]) ELSE f[i - 1]
    BY SelectTurns
  <1>2. /\ l \in Nat /\ DOMAIN list = 1..l
        /\ more \in Seq(V) /\ Len(more) = l + 1
        /\ \A i \in 1..l : more[i] = list[i]
        /\ more[l + 1] = e
    OBVIOUS
  <1> HIDE DEF more
  <1>3. PICK g : /\ SelectAt(more, T) = g[Len(more)]
                 /\ g[0] = <<>>
                 /\ \A i \in 1..Len(more) : g[i] = IF i \in T THEN Append(g[i - 1], more[i]) ELSE g[i - 1]
    BY <1>2, SelectTurns
  <1> DEFINE M == {i \in 0..l : f[i] = g[i]}
  <1> HIDE DEF l
  <1>4. 0 \in M
    BY <1>1, <1>2, <1>3
  <1>5. ASSUME NEW m \in 0..l, m < l, m \in M  PROVE m + 1 \in M
    <2>1. m + 1 \in 1..l /\ m + 1 \in 1..Len(more) /\ (m + 1) - 1 = m
      BY <1>2, <1>5
    <2>2. f[m + 1] = IF m + 1 \in S THEN Append(f[m], list[m + 1]) ELSE f[m]
      BY <1>1, <2>1
    <2>3. g[m + 1] = IF m + 1 \in T THEN Append(g[m], more[m + 1]) ELSE g[m]
      BY <1>3, <2>1
    <2>4. f[m] = g[m] /\ list[m + 1] = more[m + 1] /\ (m + 1 \in S <=> m + 1 \in T)
      BY <1>2, <1>5, <2>1
    <2> QED
      BY <1>2, <2>1, <2>2, <2>3, <2>4
  <1>6. l \in M
    <2>1. \A i \in 0..l : i \in M
      <3> HIDE DEF M
      <3> QED
        BY <1>2, <1>4, <1>5, CountingUp
    <2> QED
      BY <1>2, <2>1
  <1>7. g[l + 1] = IF l + 1 \in T THEN Append(g[l], e) ELSE g[l]
    <2>1. l + 1 \in 1..Len(more) /\ (l + 1) - 1 = l
      BY <1>2
    <2> QED
      BY <1>2, <1>3, <2>1
  <1>8. f[l] = g[l]
    BY <1>6
  <1> QED
    BY <1>1, <1>2, <1>3, <1>7, <1>8 DEF more, l

(* Multiples of the step: the next one after b is b + step.                *)
LEMMA Multiples ==
  ASSUME NEW step \in Nat \ {0}, NEW a \in Nat, NEW b \in Nat, a % step = 0, b % step = 0
  PROVE  /\ 0 % step = 0
         /\ (b + step) % step = 0
         /\ a < b + step => a <= b
  <1> DEFINE m == a \div step  n == b \div step
  <1>1. m \in Nat /\ n \in Nat /\ a = step * m /\ b = step * n
    OBVIOUS
  <1> HIDE DEF m, n
  <1>2. 0 % step = 0
    OBVIOUS
  <1>3. (b + step) % step = 0
    <2>1. b + step = step * (n + 1) /\ n + 1 \in Nat /\ b + step \in Nat
      BY <1>1
    <2>2. (b + step) \div step = n + 1
      BY <2>1
    <2> QED
      BY <2>1, <2>2
  <1>4. ASSUME a < b + step  PROVE a <= b
    <2>1. step * m < step * (n + 1)
      BY <1>1, <1>4
    <2>2. m < n + 1
      <3> SUFFICES ASSUME m >= n + 1 PROVE FALSE
        BY <1>1
      <3>1. PICK k \in Nat : m = n + 1 + k
        BY <1>1
      <3>2. step * m = step * (n + 1) + step * k /\ step * k \in Nat
        BY <3>1, <1>1
      <3>3. step * m \in Int /\ step * (n + 1) \in Int
        BY <1>1
      <3> DEFINE x == step * m  y == step * (n + 1)  z == step * k
      <3>4. x = y + z /\ z \in Nat /\ x \in Int /\ y \in Int /\ x < y
        BY <2>1, <3>2, <3>3
      <3> HIDE DEF x, y, z
      <3> QED
        BY <3>4
    <2>3. m <= n
      BY <1>1, <2>2
    <2>4. PICK k \in Nat : n = m + k
      BY <1>1, <2>3
    <2>5. step * n = step * m + step * k /\ step * k \in Nat
      BY <1>1, <2>4
    <2> QED
      BY <1>1, <2>5
  <1> QED
    BY <1>2, <1>3, <1>4

(* The orders of a finite set: each of its elements is in each of them.    *)
LEMMA OrderFacts ==
  ASSUME NEW S, IsFiniteSet(S), NEW list \in SetToSeqs(S)
  PROVE  /\ list \in Seq(S) /\ Len(list) = Cardinality(S)
         /\ \A x \in S : \E i \in DOMAIN list : list[i] = x
  <1> DEFINE n == Cardinality(S)
  <1>1. n \in Nat
    BY FS_CardinalityType
  <1>2. list \in [1..n -> S] /\ \A i, j \in 1..n : i # j => list[i] # list[j]
    BY DEF SetToSeqs
  <1>3. list \in Surjection(1..n, S)
    <2>1. list \in Injection(1..n, S)
      BY <1>2 DEF Injection, IsInjective
    <2>2. IsFiniteSet(1..n) /\ Cardinality(1..n) = n
      <3> HIDE DEF n
      <3> QED
        BY <1>1, FS_Interval
    <2> HIDE DEF n
    <2> QED
      BY <2>1, <2>2, FS_Injection DEF n
  <1>4. \A x \in S : \E i \in DOMAIN list : list[i] = x
    BY <1>2, <1>3 DEF Surjection
  <1>5. list \in Seq(S) /\ Len(list) = n
    <2> HIDE DEF n
    <2> QED
      BY <1>1, <1>2
  <1> QED
    BY <1>4, <1>5

(* Sorting keeps the points, in some order.                                *)
LEMMA ArrangedFacts ==
  ASSUME NEW V, NEW points \in Seq(V), NEW arranged \in Arrangements(points)
  PROVE  arranged \in Seq(V)
  <1>1. PICK p \in SetToSeqs(DOMAIN points) : arranged = [i \in DOMAIN points |-> points[p[i]]]
    BY DEF Arrangements
  <1>2. DOMAIN points = 1..Len(points) /\ Len(points) \in Nat
    OBVIOUS
  <1>3. IsFiniteSet(DOMAIN points) /\ Cardinality(DOMAIN points) = Len(points)
    <2> DEFINE n == Len(points)
    <2>1. n \in Nat /\ DOMAIN points = 1..n
      BY <1>2
    <2> HIDE DEF n
    <2>2. IsFiniteSet(1..n) /\ Cardinality(1..n) = n
      BY <2>1, FS_Interval
    <2> QED
      BY <2>1, <2>2 DEF n
  <1>4. \A i \in DOMAIN points : p[i] \in DOMAIN points
    <2>1. p \in Seq(DOMAIN points) /\ Len(p) = Len(points)
      BY <1>1, <1>3, OrderFacts
    <2> QED
      BY <1>2, <2>1
  <1>5. arranged \in [1..Len(points) -> V]
    BY <1>1, <1>2, <1>4
  <1> QED
    BY <1>2, <1>5

-----------------------------------------------------------------------------
(* The rows of the requested vehicle, and what may be added of them.       *)
Recorded ==
  {row \in UNION {ToSet(file) : file \in File \ {Nil}} :
     row.at \in Nat /\ NormalizeVehicleType(row.vehicle) = request.vehicle}

Observed == {o \in {Observe(row, a) : row \in Recorded, a \in Answer} : Wanted(o)}

Counts == [attemptedTraces : Nat, matchedTraces : Nat, matchedObservations : Nat]

(* The types, with drivers in order and work only between adds.            *)
DemoTypeOK ==
  /\ pc \in {"tracing", "adding", "ok", "failed"}
  /\ DOMAIN eventsByDriver \subseteq Driver
  /\ \A d \in DOMAIN eventsByDriver : eventsByDriver[d] \in Seq(Recorded)
  /\ driverIDs \in Seq(DOMAIN eventsByDriver)
  /\ \A i, j \in DOMAIN driverIDs : i < j => driverIDs[i] < driverIDs[j]
  /\ start \in Nat /\ start % TraceStep = 0
  /\ response \in Counts
  /\ work \in Seq(Observed)
  /\ pc \in {"tracing", "ok"} => work = <<>>
  /\ pc = "adding" => work # <<>>
  /\ latest \in Nat
  /\ fed \in Seq(Observed)

(* What the drivers' candidates are.                                       *)
LEMMA CandidatesTyped ==
  ASSUME NEW file \in File \ {Nil}, NEW d
  PROVE  Candidates(file, request.vehicle, d) \in Seq(Recorded)
  <1> DEFINE chosen == {i \in DOMAIN file : /\ file[i].usable /\ file[i].driver = d
                                           /\ NormalizeVehicleType(file[i].vehicle) = request.vehicle}
             own == SelectAt(file, chosen)
  <1>1. file \in Seq(ToSet(file)) /\ \A i \in DOMAIN file : file[i].at \in Nat
    BY DemoAssumption
  <1>2. own \in Seq({file[i] : i \in chosen \cap DOMAIN file})
    <2> HIDE DEF chosen
    <2> QED
      BY <1>1, SelectFacts
  <1>3. {file[i] : i \in chosen \cap DOMAIN file} \subseteq Recorded
    BY <1>1 DEF Recorded, ToSet
  <1>4. own \in Seq(Recorded)
    <2> HIDE DEF own, chosen
    <2> QED
      BY <1>2, <1>3
  <1>5. Candidates(file, request.vehicle, d) = SubSeq(own, 1, Min({Len(own), PointsPerDriver}))
    BY DEF Candidates
  <1>6. Min({Len(own), PointsPerDriver}) \in 0..Len(own)
    <2> HIDE DEF own
    <2> DEFINE l == Len(own)  m == Min({l, PointsPerDriver})
    <2>1. l \in Nat /\ PointsPerDriver \in Nat
      BY <1>4, DemoAssumption
    <2> HIDE DEF l
    <2>2. m \in {l, PointsPerDriver} /\ \A y \in {l, PointsPerDriver} : m <= y
      <3>1. \E x \in {l, PointsPerDriver} : \A y \in {l, PointsPerDriver} : x <= y
        BY <2>1
      <3> QED
        BY <3>1 DEF Min
    <2> QED
      BY <2>1, <2>2 DEF l
  <1>7. ASSUME NEW m \in 0..Len(own)  PROVE SubSeq(own, 1, m) \in Seq(Recorded)
    <2> HIDE DEF own, Recorded
    <2>1. own \in Seq(Recorded) /\ Len(own) \in Nat
      BY <1>4
    <2>2. \A i \in 1..m : own[i] \in Recorded
      BY <2>1
    <2> QED
      BY <2>1, <2>2
  <1> HIDE DEF own, Recorded
  <1> QED
    BY <1>5, <1>6, <1>7

(* The types hold at the start.                                            *)
LEMMA DemoTypeInit ==
  ASSUME Init
  PROVE  DemoTypeOK
  <1>1. /\ start = 0 /\ work = <<>> /\ latest = 0 /\ fed = <<>>
        /\ response = [attemptedTraces |-> 0, matchedTraces |-> 0, matchedObservations |-> 0]
        /\ pc \in {"tracing", "failed"}
    BY DEF Init, ZeroTime
  <1>2. /\ DOMAIN eventsByDriver \subseteq Driver
        /\ \A d \in DOMAIN eventsByDriver : eventsByDriver[d] \in Seq(Recorded)
    <2>1. PICK file \in File :
            IF RequestRefused(request) \/ file = Nil
            THEN pc = "failed" /\ eventsByDriver = [d \in {} |-> <<>>]
            ELSE /\ pc = "tracing"
                 /\ LET Found(d) == Candidates(file, request.vehicle, d)
                        drivers == {d \in Driver : Found(d) # <<>>}
                    IN  eventsByDriver \in [drivers -> UNION {Arrangements(Found(d)) : d \in drivers}]
                          /\ \A d \in drivers : eventsByDriver[d] \in Arrangements(Found(d))
      BY DEF Init
    <2>2. CASE RequestRefused(request) \/ file = Nil
      BY <2>1, <2>2
    <2>3. CASE ~(RequestRefused(request) \/ file = Nil)
      <3> DEFINE drivers == {d \in Driver : Candidates(file, request.vehicle, d) # <<>>}
      <3>1. /\ DOMAIN eventsByDriver = drivers
            /\ \A d \in drivers : eventsByDriver[d] \in Arrangements(Candidates(file, request.vehicle, d))
        BY <2>1, <2>3
      <3>2. ASSUME NEW d \in drivers  PROVE eventsByDriver[d] \in Seq(Recorded)
        <4>1. Candidates(file, request.vehicle, d) \in Seq(Recorded)
          BY <2>3, CandidatesTyped
        <4> QED
          BY <3>1, <3>2, <4>1, ArrangedFacts
      <3> QED
        BY <3>1, <3>2
    <2> QED
      BY <2>2, <2>3
  <1>3. driverIDs \in Seq(DOMAIN eventsByDriver)
    <2>1. driverIDs \in SetToSeqs(DOMAIN eventsByDriver)
      BY DEF Init
    <2>2. IsFiniteSet(DOMAIN eventsByDriver)
      BY <1>2, DemoAssumption, FS_Subset
    <2> QED
      BY <2>1, <2>2, OrderFacts
  <1>4. \A i, j \in DOMAIN driverIDs : i < j => driverIDs[i] < driverIDs[j]
    BY DEF Init
  <1>5. 0 % TraceStep = 0
    BY DemoAssumption, Multiples
  <1>6. <<>> \in Seq(Observed)
    BY EmptySeq
  <1>7. response \in Counts
    BY <1>1 DEF Counts
  <1> HIDE DEF Observed, Recorded
  <1> QED
    BY <1>1, <1>2, <1>3, <1>4, <1>5, <1>6, <1>7 DEF DemoTypeOK

(* A matched trace leaves as many observations to add as it has points, at *)
(* most, all on requested segments.                                        *)
LEMMA MatchedWork ==
  ASSUME DemoTypeOK, TraceMatched
  PROVE  /\ Head(driverIDs) \in DOMAIN eventsByDriver
         /\ work' \in Seq(Observed) /\ Len(work') <= TracePoints
  <1> DEFINE events == eventsByDriver[Head(driverIDs)]
             points == SubSeq(events, start + 1, start + TracePoints)
  <1>1. driverIDs # <<>> /\ ~DriverDone /\ start \in Nat /\ TracePoints \in Nat \ {0}
    BY DemoAssumption DEF DemoTypeOK, TraceMatched, Attempt
  <1>2. Head(driverIDs) \in DOMAIN eventsByDriver
    <2>1. driverIDs \in Seq(DOMAIN eventsByDriver)
      BY DEF DemoTypeOK
    <2> QED
      BY <1>1, <2>1
  <1>3. events \in Seq(Recorded) /\ Len(events) \in Nat
    BY <1>2 DEF DemoTypeOK
  <1>4. start + TracePoints <= Len(events)
    BY <1>1, <1>3 DEF DriverDone
  <1>5. points \in Seq(Recorded) /\ Len(points) = TracePoints
    <2> HIDE DEF events, Recorded
    <2> QED
      BY <1>1, <1>3, <1>4
  <1>6. PICK answers \in [DOMAIN points -> {a \in Answer : ~AnswerRefused(a)}] :
          LET observations == [i \in DOMAIN points |-> Observe(points[i], answers[i])]
          IN  work' = SelectAt(observations, {i \in DOMAIN points : Wanted(observations[i])})
    BY DEF TraceMatched
  <1> DEFINE observations == [i \in DOMAIN points |-> Observe(points[i], answers[i])]
             chosen == {i \in DOMAIN points : Wanted(observations[i])}
             all == {Observe(row, a) : row \in Recorded, a \in Answer}
  <1>7. work' = SelectAt(observations, chosen)
    BY <1>6
  <1>8. /\ DOMAIN points = 1..TracePoints /\ \A i \in DOMAIN points : points[i] \in Recorded
        /\ \A i \in DOMAIN points : answers[i] \in Answer
    <2> HIDE DEF points, Recorded
    <2> QED
      BY <1>5, <1>6
  <1>9. /\ DOMAIN observations = 1..TracePoints
        /\ \A i \in 1..TracePoints : observations[i] = Observe(points[i], answers[i])
        /\ chosen = {i \in 1..TracePoints : Wanted(observations[i])}
    BY <1>8
  <1>10. \A i \in 1..TracePoints : observations[i] \in all
    <2> HIDE DEF points, Recorded, observations
    <2> QED
      BY <1>8, <1>9
  <1>11. Observed = {o \in all : Wanted(o)}
    BY DEF Observed
  <1>12. observations = [i \in 1..TracePoints |-> observations[i]]
    BY <1>9
  <1> HIDE DEF points, Recorded, observations, all, chosen, events
  <1>13. observations \in Seq(all) /\ Len(observations) = TracePoints
    BY <1>1, <1>10, <1>12
  <1>14. {observations[j] : j \in chosen \cap DOMAIN observations} \subseteq Observed
    BY <1>9, <1>10, <1>11
  <1>15. /\ work' \in Seq({observations[j] : j \in chosen \cap DOMAIN observations})
         /\ Len(work') <= TracePoints
    BY <1>7, <1>13, SelectFacts
  <1> QED
    BY <1>2, <1>14, <1>15

(* A matched trace counts as tried and as matched.                         *)
LEMMA CountsOfMatch ==
  ASSUME DemoTypeOK, TraceMatched
  PROVE  /\ response' \in Counts
         /\ response'.attemptedTraces = response.attemptedTraces + 1
         /\ response'.matchedTraces = response.matchedTraces + 1
         /\ response'.matchedObservations = response.matchedObservations
  <1> DEFINE tried == [response EXCEPT !.attemptedTraces = response.attemptedTraces + 1]
  <1>1. /\ tried \in Counts /\ tried.attemptedTraces = response.attemptedTraces + 1
        /\ tried.matchedTraces = response.matchedTraces
        /\ tried.matchedObservations = response.matchedObservations
        /\ response.matchedTraces + 1 \in Nat
    <2>1. response \in Counts
      BY DEF DemoTypeOK
    <2> QED
      BY <2>1 DEF Counts
  <1>2. response' = [tried EXCEPT !.matchedTraces = response.matchedTraces + 1]
    BY DEF TraceMatched
  <1> HIDE DEF tried
  <1> QED
    BY <1>1, <1>2 DEF Counts

(* The head and the rest of the observations that are being added.         *)
LEMMA WorkLeft ==
  ASSUME DemoTypeOK, pc = "adding"
  PROVE  /\ Head(work) \in Observed /\ Tail(work) \in Seq(Observed)
         /\ Len(work) \in Nat /\ Len(Tail(work)) = Len(work) - 1
  <1>1. work \in Seq(Observed) /\ work # <<>>
    BY DEF DemoTypeOK
  <1> HIDE DEF Observed
  <1> QED
    BY <1>1

(* An observation that may be added has a time and is of the request.      *)
LEMMA ObservedFacts ==
  ASSUME NEW o \in Observed
  PROVE  /\ o.at \in Nat /\ o.key \in request.keys
         /\ NormalizeVehicleType(o.vehicle) = request.vehicle
  <1>1. Wanted(o)
    BY DEF Observed
  <1>2. PICK row \in Recorded, a \in Answer : o = Observe(row, a)
    BY DEF Observed
  <1>3. o.at = row.at /\ o.vehicle = row.vehicle
    BY <1>2 DEF Observe
  <1> QED
    BY <1>1, <1>3 DEF Recorded, Wanted

(* The newer of two times.                                                 *)
LEMMA NewerOfTwo ==
  ASSUME NEW a \in Nat, NEW b \in Nat
  PROVE  Max({a, b}) \in Nat /\ Max({a, b}) >= a /\ Max({a, b}) >= b
  <1> DEFINE m == Max({a, b})
  <1>1. m = CHOOSE x \in {a, b} : \A y \in {a, b} : x >= y
    BY DEF Max
  <1>2. \E x \in {a, b} : \A y \in {a, b} : x >= y
    OBVIOUS
  <1>3. m \in {a, b} /\ \A y \in {a, b} : m >= y
    BY <1>1, <1>2
  <1> QED
    BY <1>3

(* The drivers left are in order, also after one of them.                  *)
LEMMA DriversLeft ==
  ASSUME DemoTypeOK, driverIDs # <<>>
  PROVE  /\ Head(driverIDs) \in DOMAIN eventsByDriver /\ Head(driverIDs) = driverIDs[1]
         /\ Tail(driverIDs) \in Seq(DOMAIN eventsByDriver)
         /\ Len(driverIDs) \in Nat \ {0} /\ DOMAIN driverIDs = 1..Len(driverIDs)
         /\ DOMAIN Tail(driverIDs) = 1..(Len(driverIDs) - 1)
         /\ \A i \in 1..(Len(driverIDs) - 1) : Tail(driverIDs)[i] = driverIDs[i + 1]
  <1>1. driverIDs \in Seq(DOMAIN eventsByDriver)
    BY DEF DemoTypeOK
  <1> QED
    BY <1>1

(* Every step keeps the types.                                             *)
LEMMA DemoTypeStep ==
  ASSUME DemoTypeOK, [Next]_vars
  PROVE  DemoTypeOK'
  <1>1. UNCHANGED callVars
    BY DEF Next, vars, NextDriver, TraceUnmatched, TraceMatched, Attempt, AddErrs, AddTakes,
           FinishEmpty, Finish
  <1>2. UNCHANGED <<request, eventsByDriver>>
    BY <1>1 DEF callVars
  <1>3. Recorded' = Recorded /\ Observed' = Observed
    BY <1>2 DEF Recorded, Observed, Wanted
  <1>4. TraceStep \in Nat \ {0} /\ TracePoints \in Nat \ {0}
    BY DemoAssumption
  <1> HIDE DEF Recorded, Observed
  <1>5. CASE NextDriver
    <2>1. /\ driverIDs # <<>> /\ driverIDs' = Tail(driverIDs) /\ start' = 0
          /\ UNCHANGED <<pc, response, work, latest, fed>>
      BY <1>5 DEF NextDriver
    <2>2. driverIDs' \in Seq(DOMAIN eventsByDriver)
      BY <2>1, DriversLeft
    <2>3. ASSUME NEW i \in DOMAIN driverIDs', NEW j \in DOMAIN driverIDs', i < j
          PROVE  driverIDs'[i] < driverIDs'[j]
      <3>1. /\ i + 1 \in DOMAIN driverIDs /\ j + 1 \in DOMAIN driverIDs /\ i + 1 < j + 1
            /\ driverIDs'[i] = driverIDs[i + 1] /\ driverIDs'[j] = driverIDs[j + 1]
        BY <2>1, <2>3, DriversLeft
      <3> QED
        BY <3>1 DEF DemoTypeOK
    <2>4. 0 \in Nat /\ 0 % TraceStep = 0
      BY <1>4, Multiples
    <2> QED
      BY <1>2, <1>3, <2>1, <2>2, <2>3, <2>4 DEF DemoTypeOK
  <1>6. ASSUME Attempt  PROVE start' \in Nat /\ start' % TraceStep = 0
    <2>1. start' = start + TraceStep /\ start \in Nat /\ start % TraceStep = 0
      BY <1>6 DEF Attempt, DemoTypeOK
    <2>2. 0 % TraceStep = 0 /\ start + TraceStep \in Nat
      BY <1>4, <2>1, Multiples
    <2>3. (start + TraceStep) % TraceStep = 0
      BY <1>4, <2>1, Multiples
    <2> QED
      BY <2>1, <2>2, <2>3
  <1>7. CASE TraceUnmatched
    <2>1. /\ Attempt /\ UNCHANGED <<pc, work, driverIDs, latest, fed>>
          /\ response' = [response EXCEPT !.attemptedTraces = @ + 1]
      BY <1>7 DEF TraceUnmatched, Attempt
    <2>2. response' \in Counts
      <3>1. response \in Counts
        BY DEF DemoTypeOK
      <3> QED
        BY <2>1, <3>1 DEF Counts
    <2> QED
      BY <1>2, <1>3, <1>6, <2>1, <2>2 DEF DemoTypeOK
  <1>8. CASE TraceMatched
    <2>1. /\ Attempt /\ UNCHANGED <<driverIDs, latest, fed>>
          /\ response' = [response EXCEPT !.attemptedTraces = @ + 1, !.matchedTraces = @ + 1]
          /\ pc' = IF work' = <<>> THEN "tracing" ELSE "adding"
      BY <1>8 DEF TraceMatched, Attempt
    <2>2. response' \in Counts
      BY <1>8, CountsOfMatch
    <2>3. work' \in Seq(Observed)
      BY <1>8, MatchedWork
    <2> QED
      BY <1>2, <1>3, <1>6, <2>1, <2>2, <2>3 DEF DemoTypeOK
  <1>9. CASE AddTakes
    <2>1. /\ pc = "adding"
          /\ UNCHANGED <<driverIDs, start>>
          /\ response' = [response EXCEPT !.matchedObservations = @ + 1]
          /\ latest' = Max({latest, Head(work).at})
          /\ fed' = Append(fed, Head(work))
          /\ work' = Tail(work)
          /\ pc' = IF Tail(work) = <<>> THEN "tracing" ELSE "adding"
      BY <1>9 DEF AddTakes
    <2>2. response' \in Counts
      <3>1. response \in Counts
        BY DEF DemoTypeOK
      <3> QED
        BY <2>1, <3>1 DEF Counts
    <2>3. Head(work) \in Observed /\ work' \in Seq(Observed)
      BY <2>1, WorkLeft
    <2>4. latest' \in Nat
      <3>1. Head(work).at \in Nat /\ latest \in Nat
        BY <2>3, ObservedFacts DEF DemoTypeOK
      <3> QED
        BY <2>1, <3>1, NewerOfTwo
    <2>5. fed' \in Seq(Observed)
      <3> DEFINE o == Head(work)
      <3>1. fed \in Seq(Observed) /\ o \in Observed /\ fed' = Append(fed, o)
        BY <2>1, <2>3 DEF DemoTypeOK
      <3> HIDE DEF o
      <3> QED
        BY <3>1
    <2>6. pc' \in {"tracing", "adding"} /\ (pc' = "tracing" <=> work' = <<>>)
      BY <2>1
    <2> QED
      BY <1>2, <1>3, <2>1, <2>2, <2>3, <2>4, <2>5, <2>6 DEF DemoTypeOK
  <1>10. CASE AddErrs \/ FinishEmpty \/ Finish \/ UNCHANGED vars
    <2>1. /\ UNCHANGED <<driverIDs, start, response, work, latest, fed>>
          /\ pc' = "failed" \/ pc' = pc \/ (pc = "tracing" /\ pc' = "ok")
      BY <1>10 DEF AddErrs, FinishEmpty, Finish, TracesDone, vars
    <2> QED
      BY <1>2, <1>3, <2>1 DEF DemoTypeOK
  <1> QED
    BY <1>5, <1>7, <1>8, <1>9, <1>10 DEF Next

(* The calculation's variables have their types: the drivers left are in   *)
(* order, a trace starts at a multiple of the step, and observations wait  *)
(* to be added only between two traces.                                    *)
THEOREM TypeCorrect == Spec => []DemoTypeOK
  <1>1. Init => DemoTypeOK
    BY DemoTypeInit
  <1>2. DemoTypeOK /\ [Next]_vars => DemoTypeOK'
    BY DemoTypeStep
  <1> QED
    BY <1>1, <1>2, PTL DEF Spec

-----------------------------------------------------------------------------
(* The drivers done have all their traces tried, the first driver left     *)
(* those before start, the others none.                                    *)
DriversInTurn ==
  /\ \A d \in DOMAIN eventsByDriver :
       \/ \E i \in DOMAIN driverIDs : driverIDs[i] = d
       \/ /\ \A s \in Slots(d) : <<d, s>> \in attempts
          /\ \A i \in DOMAIN driverIDs : d < driverIDs[i]
  /\ \A i \in DOMAIN driverIDs : \A s \in Slots(driverIDs[i]) :
       <<driverIDs[i], s>> \in attempts <=> i = 1 /\ s < start

AllSlots == UNION {{<<d, s>> : s \in Slots(d)} : d \in DOMAIN eventsByDriver}

InBudget ==
  /\ IsFiniteSet(attempts) /\ attempts \subseteq AllSlots
  /\ response.attemptedTraces = Cardinality(attempts)
  /\ response.attemptedTraces <= MaxTraces
  /\ response.matchedTraces <= response.attemptedTraces
  /\ response.matchedObservations + Len(work) <= response.matchedTraces * TracePoints
  /\ pc = "ok" => driverIDs = <<>> \/ Spent

BudgetInv == DemoTypeOK /\ DriversInTurn /\ InBudget

(* What the traces of a driver are.                                        *)
LEMMA SlotFacts ==
  ASSUME DemoTypeOK, NEW d \in DOMAIN eventsByDriver
  PROVE  /\ Len(eventsByDriver[d]) \in Nat
         /\ \A s : s \in Slots(d) <=> /\ s \in Nat /\ s + TracePoints <= Len(eventsByDriver[d])
                                      /\ s % TraceStep = 0
  <1> DEFINE l == Len(eventsByDriver[d])
  <1>1. l \in Nat
    BY DEF DemoTypeOK
  <1>2. Slots(d) = {s \in 0..(l - TracePoints) : s % TraceStep = 0}
    BY DEF Slots
  <1>3. TracePoints \in Nat
    BY DemoAssumption
  <1> HIDE DEF l
  <1>4. \A s : s \in 0..(l - TracePoints) <=> s \in Nat /\ s + TracePoints <= l
    BY <1>1, <1>3
  <1> QED
    BY <1>1, <1>2, <1>4 DEF l

(* At the start no trace is tried and every driver is left.                *)
LEMMA BudgetInit ==
  ASSUME Init
  PROVE  BudgetInv
  <1>1. DemoTypeOK
    BY DemoTypeInit
  <1>2. /\ start = 0 /\ work = <<>> /\ attempts = {} /\ pc # "ok"
        /\ response = [attemptedTraces |-> 0, matchedTraces |-> 0, matchedObservations |-> 0]
        /\ driverIDs \in SetToSeqs(DOMAIN eventsByDriver)
    BY DEF Init
  <1>3. \A d \in DOMAIN eventsByDriver : \E i \in DOMAIN driverIDs : driverIDs[i] = d
    <2>1. IsFiniteSet(DOMAIN eventsByDriver)
      BY <1>1, DemoAssumption, FS_Subset DEF DemoTypeOK
    <2> QED
      BY <1>2, <2>1, OrderFacts
  <1>4. ASSUME NEW i \in DOMAIN driverIDs, NEW s \in Slots(driverIDs[i])  PROVE ~(s < start)
    <2>1. driverIDs[i] \in DOMAIN eventsByDriver
      BY <1>1 DEF DemoTypeOK
    <2>2. s \in Nat
      BY <1>1, <2>1, SlotFacts
    <2> QED
      BY <1>2, <2>2
  <1>5. DriversInTurn
    BY <1>2, <1>3, <1>4 DEF DriversInTurn
  <1>6. InBudget
    <2>1. IsFiniteSet({}) /\ Cardinality({}) = 0
      BY FS_EmptySet
    <2>2. /\ response.attemptedTraces = 0 /\ response.matchedTraces = 0
          /\ response.matchedObservations = 0 /\ Len(work) = 0
      BY <1>2
    <2>3. 0 * TracePoints = 0 /\ 0 <= MaxTraces
      BY DemoAssumption
    <2> QED
      BY <1>2, <2>1, <2>2, <2>3 DEF InBudget
  <1> QED
    BY <1>1, <1>5, <1>6 DEF BudgetInv

(* A trace that is tried is the next one of the first driver left.         *)
LEMMA BudgetAttempt ==
  ASSUME BudgetInv, Attempt, UNCHANGED eventsByDriver
  PROVE  /\ DriversInTurn'
         /\ IsFiniteSet(attempts') /\ attempts' \subseteq AllSlots'
         /\ Cardinality(attempts') = response.attemptedTraces + 1
         /\ response.attemptedTraces + 1 <= MaxTraces
  <1> DEFINE h == Head(driverIDs)
             a == <<h, start>>
  <1>1. /\ DemoTypeOK /\ DriversInTurn /\ InBudget
        /\ driverIDs # <<>> /\ ~Spent /\ ~DriverDone
        /\ attempts' = attempts \cup {a} /\ start' = start + TraceStep
        /\ driverIDs' = driverIDs
    BY DEF BudgetInv, Attempt
  <1>2. /\ h \in DOMAIN eventsByDriver /\ h = driverIDs[1] /\ 1 \in DOMAIN driverIDs
        /\ DOMAIN driverIDs \subseteq Nat \ {0}
    BY <1>1, DriversLeft
  <1>3. start \in Nat /\ start % TraceStep = 0 /\ TraceStep \in Nat \ {0} /\ TracePoints \in Nat
    BY <1>1, DemoAssumption DEF DemoTypeOK
  <1> HIDE DEF h
  <1>4. start \in Slots(h)
    <2>1. start + TracePoints <= Len(eventsByDriver[h])
      <3>1. Len(eventsByDriver[h]) \in Nat
        BY <1>1, <1>2, SlotFacts
      <3> QED
        BY <1>1, <1>3, <3>1 DEF DriverDone, h
    <2> QED
      BY <1>1, <1>2, <1>3, <2>1, SlotFacts
  <1>5. a \notin attempts
    BY <1>1, <1>2, <1>3, <1>4 DEF DriversInTurn
  <1>6. \A d : Slots(d)' = Slots(d)
    BY DEF Slots
  <1>7. /\ \A d \in DOMAIN eventsByDriver : Slots(d) = Slots(d)'
        /\ AllSlots' = AllSlots
    BY <1>6 DEF AllSlots
  <1>8. ASSUME NEW i \in DOMAIN driverIDs, NEW s \in Slots(driverIDs[i])
        PROVE  <<driverIDs[i], s>> \in attempts' <=> i = 1 /\ s < start'
    <2>1. <<driverIDs[i], s>> \in attempts <=> i = 1 /\ s < start
      BY <1>1 DEF DriversInTurn
    <2>2. driverIDs[i] \in DOMAIN eventsByDriver
      BY <1>1 DEF DemoTypeOK
    <2>3. s \in Nat /\ s % TraceStep = 0
      BY <1>1, <2>2, SlotFacts
    <2>4. CASE i = 1
      <3>1. driverIDs[i] = h
        BY <1>2, <2>4
      <3>2. <<driverIDs[i], s>> \in attempts' <=> s < start \/ s = start
        BY <1>1, <2>1, <2>4, <3>1
      <3>3. s < start + TraceStep => s <= start
        BY <1>3, <2>3, Multiples
      <3>4. s < start \/ s = start <=> s < start + TraceStep
        BY <1>3, <2>3, <3>3
      <3> QED
        BY <1>1, <2>4, <3>2, <3>4
    <2>5. CASE i # 1
      <3>1. i > 1
        BY <1>2, <2>5
      <3>2. driverIDs[1] < driverIDs[i]
        BY <1>1, <1>2, <3>1 DEF DemoTypeOK
      <3>3. driverIDs[1] \in Nat /\ driverIDs[i] \in Nat
        BY <1>1, <1>2, <2>2, DemoAssumption DEF DemoTypeOK
      <3>4. driverIDs[i] # h
        BY <1>2, <3>2, <3>3
      <3> QED
        BY <1>1, <2>1, <2>5, <3>4
    <2> QED
      BY <2>4, <2>5
  <1>9. DriversInTurn'
    <2>1. ASSUME NEW d \in DOMAIN eventsByDriver
          PROVE  \/ \E i \in DOMAIN driverIDs : driverIDs[i] = d
                 \/ /\ \A s \in Slots(d) : <<d, s>> \in attempts'
                    /\ \A i \in DOMAIN driverIDs : d < driverIDs[i]
      BY <1>1 DEF DriversInTurn
    <2> QED
      BY <1>1, <1>6, <1>8, <2>1 DEF DriversInTurn
  <1>10. a \in AllSlots
    BY <1>2, <1>4 DEF AllSlots
  <1>11. IsFiniteSet(attempts') /\ Cardinality(attempts') = Cardinality(attempts) + 1
    <2>1. IsFiniteSet(attempts)
      BY <1>1 DEF InBudget
    <2> HIDE DEF a
    <2> QED
      BY <1>1, <1>5, <2>1, FS_AddElement
  <1>12. response.attemptedTraces + 1 <= MaxTraces
    <2>1. response \in Counts /\ MaxTraces \in Nat
      BY <1>1, DemoAssumption DEF DemoTypeOK
    <2>2. response.attemptedTraces \in Nat
      BY <2>1 DEF Counts
    <2> QED
      BY <1>1, <2>1, <2>2 DEF Spent
  <1> QED
    BY <1>1, <1>7, <1>9, <1>10, <1>11, <1>12 DEF InBudget

(* A driver is left behind when all its traces are tried.                  *)
LEMMA BudgetNextDriver ==
  ASSUME BudgetInv, NextDriver
  PROVE  DriversInTurn'
  <1> DEFINE h == Head(driverIDs)
             n == Len(driverIDs)
  <1>1. /\ DemoTypeOK /\ DriversInTurn /\ InBudget
        /\ driverIDs # <<>> /\ DriverDone
        /\ driverIDs' = Tail(driverIDs) /\ start' = 0
        /\ UNCHANGED <<attempts, eventsByDriver>>
    BY DEF BudgetInv, NextDriver, callVars
  <1>2. /\ h \in DOMAIN eventsByDriver /\ h = driverIDs[1]
        /\ n \in Nat \ {0} /\ DOMAIN driverIDs = 1..n
        /\ DOMAIN driverIDs' = 1..(n - 1)
        /\ \A i \in 1..(n - 1) : driverIDs'[i] = driverIDs[i + 1]
    BY <1>1, DriversLeft
  <1>3. start \in Nat /\ TracePoints \in Nat
    BY <1>1, DemoAssumption DEF DemoTypeOK
  <1> HIDE DEF h, n
  <1>4. ASSUME NEW s \in Slots(h)  PROVE <<h, s>> \in attempts
    <2>1. /\ s \in Nat /\ s + TracePoints <= Len(eventsByDriver[h])
          /\ Len(eventsByDriver[h]) \in Nat
      BY <1>1, <1>2, SlotFacts
    <2>2. start + TracePoints > Len(eventsByDriver[h])
      BY <1>1 DEF DriverDone, h
    <2>3. s < start
      BY <1>3, <2>1, <2>2
    <2>4. 1 \in DOMAIN driverIDs
      BY <1>2
    <2> QED
      BY <1>1, <1>2, <2>3, <2>4 DEF DriversInTurn
  <1>5. ASSUME NEW i \in DOMAIN driverIDs'
        PROVE  /\ i + 1 \in DOMAIN driverIDs /\ i + 1 > 1 /\ driverIDs'[i] = driverIDs[i + 1]
               /\ driverIDs[i + 1] \in DOMAIN eventsByDriver
    <2>1. i + 1 \in DOMAIN driverIDs /\ i + 1 > 1
      BY <1>2, <1>5
    <2> QED
      BY <1>1, <1>2, <1>5, <2>1 DEF DemoTypeOK
  <1>6. \A i \in DOMAIN driverIDs' : h < driverIDs'[i]
    <2>1. 1 \in DOMAIN driverIDs
      BY <1>2
    <2> QED
      BY <1>1, <1>2, <1>5, <2>1 DEF DemoTypeOK
  <1>7. \A d : Slots(d)' = Slots(d)
    BY <1>1 DEF Slots
  <1>8. ASSUME NEW d \in DOMAIN eventsByDriver
        PROVE  \/ \E i \in DOMAIN driverIDs' : driverIDs'[i] = d
               \/ /\ \A s \in Slots(d) : <<d, s>> \in attempts
                  /\ \A i \in DOMAIN driverIDs' : d < driverIDs'[i]
    <2>1. CASE d = h
      BY <1>4, <1>6, <2>1
    <2>2. CASE \E j \in DOMAIN driverIDs : driverIDs[j] = d /\ d # h
      <3>1. PICK j \in DOMAIN driverIDs : driverIDs[j] = d /\ d # h
        BY <2>2
      <3>2. j - 1 \in 1..(n - 1) /\ (j - 1) + 1 = j
        BY <1>2, <3>1
      <3> QED
        BY <1>2, <3>1, <3>2
    <2>3. CASE ~(\E j \in DOMAIN driverIDs : driverIDs[j] = d)
      <3>1. /\ \A s \in Slots(d) : <<d, s>> \in attempts
            /\ \A i \in DOMAIN driverIDs : d < driverIDs[i]
        BY <1>1, <2>3 DEF DriversInTurn
      <3> QED
        BY <1>5, <3>1
    <2> QED
      BY <2>1, <2>2, <2>3
  <1>9. ASSUME NEW i \in DOMAIN driverIDs', NEW s \in Slots(driverIDs'[i])
        PROVE  ~(<<driverIDs'[i], s>> \in attempts) /\ ~(s < start')
    <2>1. s \in Nat
      BY <1>1, <1>5, SlotFacts
    <2>2. i + 1 # 1
      BY <1>2, <1>5
    <2> QED
      BY <1>1, <1>5, <2>1, <2>2 DEF DriversInTurn
  <1>10. DriversInTurn' <=>
           /\ \A d \in DOMAIN eventsByDriver :
                \/ \E i \in DOMAIN driverIDs' : driverIDs'[i] = d
                \/ /\ \A s \in Slots(d) : <<d, s>> \in attempts
                   /\ \A i \in DOMAIN driverIDs' : d < driverIDs'[i]
           /\ \A i \in DOMAIN driverIDs' : \A s \in Slots(driverIDs'[i]) :
                <<driverIDs'[i], s>> \in attempts <=> i = 1 /\ s < start'
    BY <1>1, <1>7 DEF DriversInTurn
  <1> QED
    BY <1>8, <1>9, <1>10

(* Every step keeps the budget.                                            *)
LEMMA BudgetStep ==
  ASSUME BudgetInv, [Next]_vars
  PROVE  BudgetInv'
  <1>1. DemoTypeOK /\ DriversInTurn /\ InBudget
    BY DEF BudgetInv
  <1>2. DemoTypeOK'
    BY <1>1, DemoTypeStep
  <1>3. UNCHANGED eventsByDriver
    BY DEF Next, vars, callVars, NextDriver, TraceUnmatched, TraceMatched, Attempt, AddErrs, AddTakes,
           FinishEmpty, Finish
  <1>4. AllSlots' = AllSlots
    <2>1. \A d : Slots(d)' = Slots(d)
      BY <1>3 DEF Slots
    <2> QED
      BY <1>3, <2>1 DEF AllSlots
  <1>5. ASSUME UNCHANGED <<driverIDs, start, attempts>>  PROVE DriversInTurn'
    BY <1>1, <1>3, <1>5 DEF DriversInTurn, Slots
  <1>6. /\ response \in Counts /\ response.attemptedTraces \in Nat /\ response.matchedTraces \in Nat
        /\ response.matchedObservations \in Nat /\ TracePoints \in Nat
    <2>1. response \in Counts
      BY <1>1 DEF DemoTypeOK
    <2> QED
      BY <2>1, DemoAssumption DEF Counts
  <1>7. /\ IsFiniteSet(attempts) /\ attempts \subseteq AllSlots
        /\ response.attemptedTraces = Cardinality(attempts)
        /\ response.attemptedTraces <= MaxTraces
        /\ response.matchedTraces <= response.attemptedTraces
        /\ response.matchedObservations + Len(work) <= response.matchedTraces * TracePoints
    BY <1>1 DEF InBudget
  <1>8. pc = "tracing" => Len(work) = 0
    <2>1. pc = "tracing" => work = <<>>
      BY <1>1 DEF DemoTypeOK
    <2> QED
      BY <2>1
  <1>9. CASE NextDriver
    <2>1. DriversInTurn'
      BY <1>9, BudgetNextDriver
    <2>2. UNCHANGED <<attempts, response, work, pc>> /\ pc # "ok"
      BY <1>9 DEF NextDriver
    <2> QED
      BY <1>2, <1>4, <1>7, <2>1, <2>2 DEF BudgetInv, InBudget
  <1>10. ASSUME Attempt
         PROVE  /\ DriversInTurn'
                /\ IsFiniteSet(attempts') /\ attempts' \subseteq AllSlots'
                /\ Cardinality(attempts') = response.attemptedTraces + 1
                /\ response.attemptedTraces + 1 <= MaxTraces
    BY <1>3, <1>10, BudgetAttempt
  <1>11. CASE TraceUnmatched
    <2>1. /\ Attempt /\ UNCHANGED <<pc, work>> /\ pc # "ok"
          /\ response' = [response EXCEPT !.attemptedTraces = @ + 1]
      BY <1>11 DEF TraceUnmatched, Attempt
    <2>2. /\ response'.attemptedTraces = response.attemptedTraces + 1
          /\ response'.matchedTraces = response.matchedTraces
          /\ response'.matchedObservations = response.matchedObservations
      BY <1>6, <2>1 DEF Counts
    <2>3. response'.matchedTraces <= response'.attemptedTraces
      BY <1>6, <1>7, <2>2
    <2> QED
      BY <1>2, <1>7, <1>10, <2>1, <2>2, <2>3 DEF BudgetInv, InBudget
  <1>12. CASE TraceMatched
    <2>1. Attempt /\ pc = "tracing" /\ pc' # "ok"
      BY <1>12 DEF TraceMatched, Attempt
    <2>2. /\ response'.attemptedTraces = response.attemptedTraces + 1
          /\ response'.matchedTraces = response.matchedTraces + 1
          /\ response'.matchedObservations = response.matchedObservations
      BY <1>1, <1>12, CountsOfMatch
    <2>3. response'.matchedTraces <= response'.attemptedTraces
      BY <1>6, <1>7, <2>2
    <2>4. Len(work') \in Nat /\ Len(work') <= TracePoints
      <3>1. work' \in Seq(Observed) /\ Len(work') <= TracePoints
        BY <1>1, <1>12, MatchedWork
      <3> HIDE DEF Observed
      <3> QED
        BY <3>1
    <2>5. response'.matchedObservations + Len(work') <= response'.matchedTraces * TracePoints
      <3> DEFINE m == response.matchedTraces
                 b == m * TracePoints
                 o == response.matchedObservations
                 w == Len(work')
      <3>1. (m + 1) * TracePoints = b + TracePoints /\ b \in Nat
        BY <1>6
      <3>2. o <= b /\ o \in Nat /\ w \in Nat /\ w <= TracePoints
        BY <1>6, <1>7, <1>8, <2>1, <2>4
      <3>3. response'.matchedTraces = m + 1 /\ response'.matchedObservations = o
        BY <2>2
      <3> HIDE DEF m, b, o, w
      <3>4. o + w <= b + TracePoints
        BY <1>6, <3>1, <3>2
      <3> QED
        BY <3>1, <3>3, <3>4 DEF w
    <2> QED
      BY <1>2, <1>10, <2>1, <2>2, <2>3, <2>5 DEF BudgetInv, InBudget
  <1>13. CASE AddTakes
    <2>1. /\ pc = "adding" /\ pc' # "ok" /\ UNCHANGED <<driverIDs, start, attempts>>
          /\ response' = [response EXCEPT !.matchedObservations = @ + 1]
          /\ work' = Tail(work)
      BY <1>13 DEF AddTakes
    <2>2. /\ response'.attemptedTraces = response.attemptedTraces
          /\ response'.matchedTraces = response.matchedTraces
          /\ response'.matchedObservations = response.matchedObservations + 1
      BY <1>6, <2>1 DEF Counts
    <2>3. Len(work) \in Nat /\ Len(work') = Len(work) - 1
      BY <1>1, <2>1, WorkLeft
    <2>4. response'.matchedObservations + Len(work') = response.matchedObservations + Len(work)
      BY <1>6, <2>2, <2>3
    <2> QED
      BY <1>2, <1>4, <1>5, <1>7, <2>1, <2>2, <2>4 DEF BudgetInv, InBudget
  <1>14. CASE AddErrs \/ FinishEmpty \/ Finish \/ UNCHANGED vars
    <2>1. UNCHANGED <<driverIDs, start, attempts, response, work>>
      BY <1>14 DEF AddErrs, FinishEmpty, Finish, vars
    <2>2. pc' = "ok" => TracesDone \/ pc = "ok"
      BY <1>14 DEF AddErrs, FinishEmpty, Finish, vars
    <2>3. pc' = "ok" => driverIDs' = <<>> \/ Spent'
      BY <1>1, <2>1, <2>2 DEF InBudget, TracesDone, Spent
    <2> QED
      BY <1>2, <1>4, <1>5, <1>7, <2>1, <2>3 DEF BudgetInv, InBudget
  <1> QED
    BY <1>9, <1>11, <1>12, <1>13, <1>14 DEF Next

(* No trace is tried beyond the budget, no more match than are tried, and  *)
(* no more observations come of them than they have points; while the      *)
(* budget lasts, no trace of the area is skipped, and an earlier driver is *)
(* always tried out before a later one.                                    *)
THEOREM BudgetIsKept == Spec => []BudgetSpentInOrder
  <1>1. Init => BudgetInv
    BY BudgetInit
  <1>2. BudgetInv /\ [Next]_vars => BudgetInv'
    BY BudgetStep
  <1>3. BudgetInv => BudgetSpentInOrder
    <2> SUFFICES ASSUME BudgetInv  PROVE BudgetSpentInOrder
      OBVIOUS
    <2>1. DemoTypeOK /\ DriversInTurn /\ InBudget
      BY DEF BudgetInv
    <2>2. response.matchedObservations <= response.matchedTraces * TracePoints
      <3> DEFINE o == response.matchedObservations
                 b == response.matchedTraces * TracePoints
                 w == Len(work)
      <3>1. o \in Nat /\ b \in Nat
        <4>1. response \in Counts /\ TracePoints \in Nat
          BY <2>1, DemoAssumption DEF DemoTypeOK
        <4> QED
          BY <4>1 DEF Counts
      <3>2. w \in Nat
        <4>1. work \in Seq(Observed)
          BY <2>1 DEF DemoTypeOK
        <4> HIDE DEF Observed
        <4> QED
          BY <4>1
      <3>3. o + w <= b
        BY <2>1 DEF InBudget
      <3> HIDE DEF o, b, w
      <3>4. o <= b
        BY <3>1, <3>2, <3>3
      <3> QED
        BY <3>4 DEF o, b
    <2>3. ASSUME NEW a \in attempts
          PROVE  /\ a[1] \in DOMAIN eventsByDriver /\ a[2] \in Slots(a[1]) /\ a = <<a[1], a[2]>>
      BY <2>1 DEF InBudget, AllSlots
    <2>4. ASSUME pc = "ok", response.attemptedTraces < MaxTraces
          PROVE  attempts = AllSlots
      <3>1. ~Spent
        <4>1. response \in Counts /\ MaxTraces \in Nat
          BY <2>1, DemoAssumption DEF DemoTypeOK
        <4> QED
          BY <2>4, <4>1 DEF Spent, Counts
      <3>2. driverIDs = <<>>
        BY <2>1, <2>4, <3>1 DEF InBudget
      <3>3. DOMAIN driverIDs = {}
        BY <3>2
      <3>4. AllSlots \subseteq attempts
        BY <2>1, <3>3 DEF DriversInTurn, AllSlots
      <3> QED
        BY <2>1, <3>4 DEF InBudget
    <2>5. ASSUME NEW a \in attempts, NEW d \in DOMAIN eventsByDriver, d < a[1], NEW s \in Slots(d)
          PROVE  <<d, s>> \in attempts
      <3>1. \A e \in DOMAIN eventsByDriver : e \in Nat
        BY <2>1, DemoAssumption DEF DemoTypeOK
      <3>2. CASE \E i \in DOMAIN driverIDs : driverIDs[i] = d
        <4>1. PICK i \in DOMAIN driverIDs : driverIDs[i] = d
          BY <3>2
        <4>2. driverIDs # <<>> /\ i \in Nat \ {0} /\ 1 \in DOMAIN driverIDs
          <5>1. driverIDs # <<>>
            BY <4>1
          <5> QED
            BY <2>1, <4>1, <5>1, DriversLeft
        <4>3. \A j \in DOMAIN driverIDs : driverIDs[j] = a[1] => j = 1
          BY <2>1, <2>3 DEF DriversInTurn
        <4>4. CASE \E j \in DOMAIN driverIDs : driverIDs[j] = a[1]
          <5>1. driverIDs[1] = a[1]
            BY <4>3, <4>4
          <5>2. i = 1 \/ i > 1
            BY <4>2
          <5>3. a[1] <= d
            <6>1. i > 1 => driverIDs[1] < driverIDs[i]
              BY <2>1, <4>1, <4>2 DEF DemoTypeOK
            <6> QED
              BY <2>3, <3>1, <4>1, <5>1, <5>2, <6>1
          <5> QED
            BY <2>3, <2>5, <3>1, <5>3
        <4>5. CASE ~(\E j \in DOMAIN driverIDs : driverIDs[j] = a[1])
          <5>1. a[1] < driverIDs[i]
            BY <2>1, <2>3, <4>1, <4>5 DEF DriversInTurn
          <5> QED
            BY <2>3, <2>5, <3>1, <4>1, <5>1
        <4> QED
          BY <4>4, <4>5
      <3>3. CASE ~(\E i \in DOMAIN driverIDs : driverIDs[i] = d)
        BY <2>1, <2>5, <3>3 DEF DriversInTurn
      <3> QED
        BY <3>2, <3>3
    <2> QED
      BY <2>1, <2>2, <2>4, <2>5 DEF BudgetSpentInOrder, InBudget, AllSlots
  <1> QED
    BY <1>1, <1>2, <1>3, PTL DEF Spec

-----------------------------------------------------------------------------
(* What the processor holds of the observations added so far: the windows  *)
(* that they make, and of each driver the time of its newest one.          *)
DirectlyCounted ==
  /\ DOMAIN windows = {WindowKeyOf(fed[i]) : i \in Counted}
  /\ \A k \in DOMAIN windows : windows[k] = DirectWindow(k).samples

NewestKept ==
  /\ \A i \in DOMAIN fed :
       /\ IsValid(fed[i]) /\ fed[i].at <= latest
       /\ fed[i].driver \in DOMAIN driverStates /\ fed[i].at <= driverStates[fed[i].driver]
  /\ \A d \in DOMAIN driverStates :
       \E i \in DOMAIN fed : fed[i].driver = d /\ fed[i].at = driverStates[d]

Running == pc \in {"tracing", "adding"}

AnswerInv ==
  /\ DemoTypeOK
  /\ Running => /\ references = "max_speed" /\ pendingWindows = {} /\ states = {}
                /\ DirectlyCounted /\ NewestKept
  /\ AnswerIsExact

(* The samples of the observations added, one for each.                    *)
Samples == [i \in DOMAIN fed |-> SampleOf(fed[i])]

CountedIn(k) == {i \in Counted : WindowKeyOf(fed[i]) = k}

(* The observation o is added to those before.                             *)
Grows(o) == fed \in Seq(Observed) /\ fed' = Append(fed, o)

(* Of a longer list the same are counted, and the new one if it can be     *)
(* aggregated and its time is new for its driver.                          *)
LEMMA CountedAppend ==
  ASSUME NEW o \in Observed, Grows(o)
  PROVE  /\ Len(fed) \in Nat /\ DOMAIN fed = 1..Len(fed)
         /\ DOMAIN fed' = 1..(Len(fed) + 1)
         /\ \A i \in 1..Len(fed) : fed'[i] = fed[i]
         /\ fed'[Len(fed) + 1] = o
         /\ Counted \subseteq 1..Len(fed)
         /\ \A i \in 1..Len(fed) : i \in Counted' <=> i \in Counted
         /\ Len(fed) + 1 \in Counted' <=>
              /\ CanAggregate(o)
              /\ \A j \in 1..Len(fed) : ~(fed[j].driver = o.driver /\ fed[j].at = o.at)
         /\ Counted' = Counted \cup (IF Len(fed) + 1 \in Counted' THEN {Len(fed) + 1} ELSE {})
  <1> DEFINE n == Len(fed)
  <1>1. /\ n \in Nat /\ DOMAIN fed = 1..n /\ DOMAIN fed' = 1..(n + 1)
        /\ \A i \in 1..n : fed'[i] = fed[i]
        /\ fed'[n + 1] = o
    <2> HIDE DEF Observed
    <2> QED
      BY DEF Grows
  <1> HIDE DEF n
  <1>2. \A i : i \in Counted <=>
          /\ i \in 1..n /\ CanAggregate(fed[i])
          /\ \A j \in 1..(i - 1) : ~(fed[j].driver = fed[i].driver /\ fed[j].at = fed[i].at)
    BY <1>1 DEF Counted
  <1>3. \A i : i \in Counted' <=>
          /\ i \in 1..(n + 1) /\ CanAggregate(fed'[i])
          /\ \A j \in 1..(i - 1) : ~(fed'[j].driver = fed'[i].driver /\ fed'[j].at = fed'[i].at)
    <2>1. Counted' = {i \in DOMAIN fed' :
                        /\ CanAggregate(fed'[i])
                        /\ \A j \in 1..(i - 1) :
                             <<fed'[j].driver, fed'[j].at>> # <<fed'[i].driver, fed'[i].at>>}
      BY DEF Counted
    <2> QED
      BY <1>1, <2>1
  <1>4. ASSUME NEW i \in 1..n  PROVE i \in Counted' <=> i \in Counted
    <2>1. i \in 1..(n + 1) /\ \A j \in 1..(i - 1) : fed'[j] = fed[j]
      <3>1. i \in 1..(n + 1) /\ \A j \in 1..(i - 1) : j \in 1..n
        BY <1>1
      <3> QED
        BY <1>1, <3>1
    <2>2. fed'[i] = fed[i]
      BY <1>1
    <2>3. i \in Counted <=>
            /\ CanAggregate(fed[i])
            /\ \A j \in 1..(i - 1) : ~(fed[j].driver = fed[i].driver /\ fed[j].at = fed[i].at)
      BY <1>2
    <2>4. i \in Counted' <=>
            /\ CanAggregate(fed[i])
            /\ \A j \in 1..(i - 1) : ~(fed'[j].driver = fed[i].driver /\ fed'[j].at = fed[i].at)
      BY <1>3, <2>1, <2>2
    <2>5. (\A j \in 1..(i - 1) : ~(fed'[j].driver = fed[i].driver /\ fed'[j].at = fed[i].at))
            <=> \A j \in 1..(i - 1) : ~(fed[j].driver = fed[i].driver /\ fed[j].at = fed[i].at)
      BY <2>1
    <2> QED
      BY <2>3, <2>4, <2>5
  <1>5. n + 1 \in Counted' <=>
          /\ CanAggregate(o)
          /\ \A j \in 1..n : ~(fed[j].driver = o.driver /\ fed[j].at = o.at)
    <2>1. n + 1 \in 1..(n + 1) /\ (n + 1) - 1 = n
      BY <1>1
    <2> QED
      BY <1>1, <1>3, <2>1
  <1>6. \A i : i \in 1..(n + 1) <=> i \in 1..n \/ i = n + 1
    BY <1>1
  <1>7. Counted' = Counted \cup (IF n + 1 \in Counted' THEN {n + 1} ELSE {})
    BY <1>2, <1>3, <1>4, <1>6
  <1>8. Counted \subseteq 1..n
    BY <1>2
  <1> QED
    BY <1>1, <1>4, <1>5, <1>7, <1>8 DEF n

(* The windows counted directly from a longer list: the new sample comes   *)
(* last in its own.                                                        *)
LEMMA DirectAppend ==
  ASSUME NEW o \in Observed, Grows(o), NEW k
  PROVE  DirectWindow(k)' =
           IF Len(fed) + 1 \in Counted' /\ WindowKeyOf(o) = k
           THEN [key |-> k, samples |-> Append(DirectWindow(k).samples, SampleOf(o))]
           ELSE DirectWindow(k)
  <1> DEFINE n == Len(fed)
             V == {SampleOf(x) : x \in Observed}
             e == SampleOf(o)
  <1>1. /\ n \in Nat /\ DOMAIN fed = 1..n /\ DOMAIN fed' = 1..(n + 1)
        /\ \A i \in 1..n : fed'[i] = fed[i]
        /\ fed'[n + 1] = o
        /\ Counted \subseteq 1..n
        /\ \A i \in 1..n : i \in Counted' <=> i \in Counted
    BY CountedAppend
  <1>2. \A i \in 1..n : fed[i] \in Observed
    <2> HIDE DEF Observed
    <2> QED
      BY <1>1 DEF Grows
  <1>3. e \in V
    OBVIOUS
  <1>4. Samples = [i \in 1..n |-> SampleOf(fed[i])] /\ \A i \in 1..n : Samples[i] \in V
    BY <1>1, <1>2 DEF Samples
  <1>5. Samples' = [i \in 1..(n + 1) |-> SampleOf(fed'[i])]
    BY <1>1 DEF Samples, SampleOf
  <1> HIDE DEF n, V, e
  <1>6. Samples \in Seq(V) /\ Len(Samples) = n /\ DOMAIN Samples = 1..n
    BY <1>1, <1>4
  <1>7. Samples' = Append(Samples, e)
    <2> DEFINE more == Append(Samples, e)
    <2>1. /\ DOMAIN more = 1..(n + 1) /\ more = [i \in DOMAIN more |-> more[i]]
          /\ \A i \in 1..n : more[i] = Samples[i]
          /\ more[n + 1] = e
      <3> DEFINE x == Samples
      <3>1. x \in Seq(V) /\ Len(x) = n /\ n \in Nat /\ e \in V
        BY <1>1, <1>3, <1>6
      <3> HIDE DEF x
      <3>2. LET y == Append(x, e)
            IN  /\ y \in Seq(V) /\ DOMAIN y = 1..(n + 1)
                /\ \A i \in 1..n : y[i] = x[i]
                /\ y[n + 1] = e
        BY <3>1, AppendProperties
      <3>3. more \in Seq(V)
        BY <3>2 DEF x
      <3>4. more = [i \in DOMAIN more |-> more[i]]
        <4> HIDE DEF more
        <4> QED
          BY <3>3
      <3> QED
        BY <3>2, <3>4 DEF x
    <2>2. \A i \in 1..(n + 1) : SampleOf(fed'[i]) = more[i]
      <3> SUFFICES ASSUME NEW i \in 1..(n + 1)  PROVE SampleOf(fed'[i]) = more[i]
        OBVIOUS
      <3> HIDE DEF more
      <3>1. CASE i \in 1..n
        BY <1>1, <1>4, <2>1, <3>1
      <3>2. CASE i = n + 1
        BY <1>1, <2>1, <3>2 DEF e
      <3>3. i \in 1..n \/ i = n + 1
        BY <1>1
      <3> QED
        BY <3>1, <3>2, <3>3
    <2> HIDE DEF more
    <2>3. Samples' = more
      BY <1>5, <2>1, <2>2
    <2> QED
      BY <2>3 DEF more
  <1>8. \A i \in DOMAIN Samples : i \in CountedIn(k) <=> i \in CountedIn(k)'
    BY <1>1, <1>6 DEF CountedIn, WindowKeyOf
  <1>9. n + 1 \in CountedIn(k)' <=> n + 1 \in Counted' /\ WindowKeyOf(o) = k
    BY <1>1 DEF CountedIn, WindowKeyOf
  <1>10. DirectWindow(k) = [key |-> k, samples |-> SelectAt(Samples, CountedIn(k))]
    BY DEF DirectWindow, Samples, CountedIn
  <1>11. DirectWindow(k)' = [key |-> k, samples |-> SelectAt(Samples', CountedIn(k)')]
    BY DEF DirectWindow, Samples, CountedIn
  <1> DEFINE T == CountedIn(k)'
  <1>12. \A i \in DOMAIN Samples : i \in CountedIn(k) <=> i \in T
    BY <1>8
  <1> HIDE DEF T
  <1>13. SelectAt(Append(Samples, e), T) =
           IF n + 1 \in T THEN Append(SelectAt(Samples, CountedIn(k)), e) ELSE SelectAt(Samples, CountedIn(k))
    <2> DEFINE x == Samples  S == CountedIn(k)
    <2>1. x \in Seq(V) /\ e \in V /\ n = Len(x)
      BY <1>3, <1>6
    <2>2. \A i \in 1..n : i \in S <=> i \in T
      BY <1>6, <1>12
    <2> HIDE DEF x, S
    <2>3. /\ n + 1 \in T => SelectAt(Append(x, e), T) = Append(SelectAt(x, S), e)
          /\ n + 1 \notin T => SelectAt(Append(x, e), T) = SelectAt(x, S)
      BY <2>1, <2>2, SelectAppend
    <2> QED
      BY <2>3 DEF x, S
  <1>14. DirectWindow(k).samples = SelectAt(Samples, CountedIn(k))
    BY <1>10
  <1> QED
    BY <1>7, <1>9, <1>10, <1>11, <1>13, <1>14 DEF T, n, e

(* A window that no counted observation is in has no samples.              *)
LEMMA DirectEmpty ==
  ASSUME fed \in Seq(Observed), NEW k, \A i \in Counted : WindowKeyOf(fed[i]) # k
  PROVE  DirectWindow(k).samples = <<>>
  <1> DEFINE V == {SampleOf(x) : x \in Observed}
             x == Samples
             S == CountedIn(k)
  <1>1. x \in Seq(V)
    <2> DEFINE n == Len(fed)
    <2>1. n \in Nat /\ DOMAIN fed = 1..n /\ \A i \in 1..n : fed[i] \in Observed
      <3> HIDE DEF Observed
      <3> QED
        OBVIOUS
    <2>2. \A i \in 1..n : SampleOf(fed[i]) \in V
      BY <2>1
    <2>3. x = [i \in 1..n |-> SampleOf(fed[i])]
      BY <2>1 DEF Samples
    <2> HIDE DEF n, V, x
    <2> QED
      BY <2>1, <2>2, <2>3
  <1>2. S = {}
    BY DEF CountedIn
  <1>3. DirectWindow(k).samples = SelectAt(x, S)
    BY DEF DirectWindow, Samples, CountedIn
  <1> HIDE DEF V, x, S
  <1>4. S \cap DOMAIN x = {} => SelectAt(x, S) = <<>>
    BY <1>1, SelectFacts
  <1> QED
    BY <1>2, <1>3, <1>4

(* An empty processor has counted nothing.                                 *)
LEMMA AnswerInit ==
  ASSUME Init
  PROVE  AnswerInv
  <1>1. DemoTypeOK
    BY DemoTypeInit
  <1>2. /\ fed = <<>> /\ states = {} /\ pc # "ok" /\ references = "max_speed" /\ pendingWindows = {}
        /\ windows = [k \in {} |-> <<>>] /\ driverStates = [d \in {} |-> 0]
    BY DEF Init, NewProcessor, NewAggregator, NewDriverStateBuffer
  <1>3. DOMAIN fed = {} /\ Counted = {}
    BY <1>2 DEF Counted
  <1>4. DOMAIN windows = {} /\ DOMAIN driverStates = {}
    BY <1>2
  <1>5. DirectlyCounted /\ NewestKept
    BY <1>3, <1>4 DEF DirectlyCounted, NewestKept
  <1> QED
    BY <1>1, <1>2, <1>5 DEF AnswerInv, AnswerIsExact

(* Add counts an observation in its window if it should be counted, and    *)
(* keeps its time if it is the driver's newest.                            *)
LEMMA AnswerAdd ==
  ASSUME AnswerInv, AddTakes
  PROVE  DirectlyCounted' /\ NewestKept'
  <1> DEFINE o == Head(work)
             n == Len(fed)
             key == WindowKeyOf(o)
  <1>1. /\ DemoTypeOK /\ DirectlyCounted /\ NewestKept /\ pc = "adding"
        /\ AddRepeated(o) \/ AddNoted(o) \/ AddAggregated(o)
        /\ latest' = Max({latest, o.at})
        /\ fed' = Append(fed, o)
    BY DEF AnswerInv, AddTakes, Running
  <1>2. o \in Observed /\ Grows(o)
    BY <1>1, WorkLeft DEF DemoTypeOK, Grows
  <1> HIDE DEF o
  <1>3. /\ n \in Nat /\ DOMAIN fed = 1..n
        /\ DOMAIN fed' = 1..(n + 1)
        /\ \A i \in 1..n : fed'[i] = fed[i]
        /\ fed'[n + 1] = o
        /\ Counted \subseteq 1..n
        /\ n + 1 \in Counted' <=>
             /\ CanAggregate(o)
             /\ \A j \in 1..n : ~(fed[j].driver = o.driver /\ fed[j].at = o.at)
        /\ Counted' = Counted \cup (IF n + 1 \in Counted' THEN {n + 1} ELSE {})
    BY <1>2, CountedAppend
  <1>4. \A k : DirectWindow(k)' =
           IF n + 1 \in Counted' /\ key = k
           THEN [key |-> k, samples |-> Append(DirectWindow(k).samples, SampleOf(o))]
           ELSE DirectWindow(k)
    BY <1>2, DirectAppend
  <1> HIDE DEF n
  <1>5. /\ IsValid(o) /\ ~Older(o)
        /\ Repeated(o) => UNCHANGED driverStates
        /\ ~Repeated(o) => Remember(o)
        /\ Repeated(o) \/ ~CanAggregate(o) => UNCHANGED windows
        /\ ~Repeated(o) /\ CanAggregate(o) => Aggregate(o)
    BY <1>1 DEF AddRepeated, AddNoted, AddAggregated, AddFails, StateRefuses
  <1>6. o.at \in Nat /\ latest \in Nat /\ \A i \in 1..n : fed[i].at \in Nat
    <2>1. \A i \in 1..n : fed[i] \in Observed
      <3>1. fed \in Seq(Observed)
        BY <1>1 DEF DemoTypeOK
      <3> HIDE DEF Observed
      <3> QED
        BY <1>3, <3>1
    <2> QED
      BY <1>1, <1>2, <2>1, ObservedFacts DEF DemoTypeOK
  <1>7. latest' >= latest /\ latest' >= o.at /\ latest' \in Nat
    BY <1>1, <1>6, NewerOfTwo
  <1>8. /\ \A i \in 1..n : /\ IsValid(fed[i]) /\ fed[i].at <= latest
                           /\ fed[i].driver \in DOMAIN driverStates
                           /\ fed[i].at <= driverStates[fed[i].driver]
        /\ \A d \in DOMAIN driverStates : \E i \in 1..n : fed[i].driver = d /\ fed[i].at = driverStates[d]
    BY <1>1, <1>3 DEF NewestKept
  <1>9. \A i : i \in 1..(n + 1) <=> i \in 1..n \/ i = n + 1
    BY <1>3
  <1>10. ASSUME Repeated(o)  PROVE n + 1 \notin Counted'
    BY <1>3, <1>8, <1>10 DEF Repeated, Known
  <1>11. ASSUME ~Repeated(o), o.driver \in DOMAIN driverStates
         PROVE  driverStates[o.driver] \in Nat /\ driverStates[o.driver] < o.at
    <2>1. driverStates[o.driver] \in Nat
      BY <1>6, <1>8, <1>11
    <2> QED
      BY <1>5, <1>6, <1>11, <2>1 DEF Older, Repeated, Known
  <1>12. ASSUME ~Repeated(o), CanAggregate(o)  PROVE n + 1 \in Counted'
    <2>1. ASSUME NEW j \in 1..n, fed[j].driver = o.driver, fed[j].at = o.at  PROVE FALSE
      <3>1. o.driver \in DOMAIN driverStates /\ o.at <= driverStates[o.driver]
        BY <1>8, <2>1
      <3> QED
        BY <1>6, <1>11, <1>12, <3>1
    <2> QED
      BY <1>3, <1>12, <2>1
  <1>13. NewestKept'
    <2>0. ASSUME NEW i \in 1..n
          PROVE  /\ fed'[i] = fed[i] /\ IsValid(fed[i]) /\ fed[i].at <= latest'
                 /\ fed[i].driver \in DOMAIN driverStates /\ fed[i].at <= driverStates[fed[i].driver]
      <3>1. fed[i].at \in Nat /\ fed[i].at <= latest
        BY <1>6, <1>8
      <3>2. fed[i].at <= latest'
        BY <1>6, <1>7, <3>1
      <3> QED
        BY <1>3, <1>8, <3>2
    <2>1. ASSUME NEW i \in 1..(n + 1)
          PROVE  /\ IsValid(fed'[i]) /\ fed'[i].at <= latest'
                 /\ fed'[i].driver \in DOMAIN driverStates'
                 /\ fed'[i].at <= driverStates'[fed'[i].driver]
      <3>1. CASE Repeated(o)
        <4>1. driverStates' = driverStates /\ o.driver \in DOMAIN driverStates /\ o.at = driverStates[o.driver]
          BY <1>5, <3>1 DEF Repeated, Known
        <4>2. CASE i \in 1..n
          BY <2>0, <4>1, <4>2
        <4>3. CASE i = n + 1
          BY <1>3, <1>5, <1>6, <1>7, <4>1, <4>3
        <4> QED
          BY <1>9, <4>2, <4>3
      <3>2. CASE ~Repeated(o)
        <4>1. /\ DOMAIN driverStates' = DOMAIN driverStates \cup {o.driver}
              /\ driverStates'[o.driver] = o.at
              /\ \A d \in DOMAIN driverStates \ {o.driver} : driverStates'[d] = driverStates[d]
          BY <1>5, <3>2 DEF Remember
        <4>2. CASE i \in 1..n
          <5>1. fed'[i] = fed[i] /\ fed[i].at <= latest' /\ fed[i].driver \in DOMAIN driverStates'
            BY <2>0, <4>1, <4>2
          <5>2. CASE fed[i].driver = o.driver
            <6>1. driverStates[o.driver] \in Nat /\ driverStates[o.driver] < o.at /\ fed[i].at \in Nat
              BY <1>6, <1>8, <1>11, <3>2, <4>2, <5>2
            <6>2. fed[i].at <= driverStates[o.driver]
              BY <1>8, <4>2, <5>2
            <6>3. fed[i].at <= o.at
              BY <1>6, <6>1, <6>2
            <6> QED
              BY <1>8, <4>1, <4>2, <5>1, <5>2, <6>3
          <5>3. CASE fed[i].driver # o.driver
            BY <1>8, <4>1, <4>2, <5>1, <5>3
          <5> QED
            BY <1>8, <4>2, <5>1, <5>2, <5>3
        <4>3. CASE i = n + 1
          BY <1>3, <1>5, <1>6, <1>7, <4>1, <4>3
        <4> QED
          BY <1>9, <4>2, <4>3
      <3> QED
        BY <3>1, <3>2
    <2>2. ASSUME NEW d \in DOMAIN driverStates'
          PROVE  \E i \in 1..(n + 1) : fed'[i].driver = d /\ fed'[i].at = driverStates'[d]
      <3>1. CASE d \in DOMAIN driverStates /\ driverStates'[d] = driverStates[d]
        <4>1. PICK i \in 1..n : fed[i].driver = d /\ fed[i].at = driverStates[d]
          BY <1>8, <3>1
        <4> QED
          BY <1>3, <1>9, <3>1, <4>1
      <3>2. CASE d = o.driver /\ driverStates'[d] = o.at
        BY <1>3, <1>9, <3>2
      <3>3. CASE Repeated(o)
        BY <1>5, <3>1, <3>3
      <3>4. CASE ~Repeated(o)
        <4>1. /\ DOMAIN driverStates' = DOMAIN driverStates \cup {o.driver}
              /\ driverStates'[o.driver] = o.at
              /\ \A e \in DOMAIN driverStates \ {o.driver} : driverStates'[e] = driverStates[e]
          BY <1>5, <3>4 DEF Remember
        <4> QED
          BY <3>1, <3>2, <4>1
      <3> QED
        BY <3>3, <3>4
    <2>3. NewestKept' <=>
            /\ \A i \in DOMAIN fed' :
                 /\ IsValid(fed'[i]) /\ fed'[i].at <= latest'
                 /\ fed'[i].driver \in DOMAIN driverStates' /\ fed'[i].at <= driverStates'[fed'[i].driver]
            /\ \A d \in DOMAIN driverStates' :
                 \E i \in DOMAIN fed' : fed'[i].driver = d /\ fed'[i].at = driverStates'[d]
      BY DEF NewestKept
    <2> QED
      BY <1>3, <2>1, <2>2, <2>3
  <1> DEFINE Keys == {WindowKeyOf(fed[i]) : i \in Counted}
  <1>14. DOMAIN windows = Keys /\ \A k \in DOMAIN windows : windows[k] = DirectWindow(k).samples
    BY <1>1 DEF DirectlyCounted
  <1>15. {WindowKeyOf(fed'[i]) : i \in Counted'} = Keys \cup (IF n + 1 \in Counted' THEN {key} ELSE {})
    <2>1. \A i \in Counted : WindowKeyOf(fed'[i]) = WindowKeyOf(fed[i])
      BY <1>3
    <2>2. WindowKeyOf(fed'[n + 1]) = key
      BY <1>3
    <2> HIDE DEF key
    <2> QED
      BY <1>3, <2>1, <2>2
  <1>16. DirectlyCounted' <=>
           /\ DOMAIN windows' = {WindowKeyOf(fed'[i]) : i \in Counted'}
           /\ \A k \in DOMAIN windows' : windows'[k] = DirectWindow(k)'.samples
    BY DEF DirectlyCounted, WindowKeyOf
  <1>17. DirectlyCounted'
    <2> HIDE DEF key, Keys
    <2>1. CASE Repeated(o) \/ ~CanAggregate(o)
      <3>1. n + 1 \notin Counted' /\ windows' = windows
        BY <1>3, <1>5, <1>10, <2>1
      <3> QED
        BY <1>4, <1>14, <1>15, <1>16, <3>1
    <2>2. CASE ~Repeated(o) /\ CanAggregate(o)
      <3>1. n + 1 \in Counted' /\ Aggregate(o)
        BY <1>5, <1>12, <2>2
      <3>2. /\ DOMAIN windows' = DOMAIN windows \cup {key}
            /\ windows'[key] = Append(Bucket(key), SampleOf(o))
            /\ \A k \in DOMAIN windows \ {key} : windows'[k] = windows[k]
        BY <3>1 DEF Aggregate, key
      <3>3. Bucket(key) = DirectWindow(key).samples
        <4>1. CASE key \in DOMAIN windows
          BY <1>14, <4>1 DEF Bucket
        <4>2. CASE key \notin DOMAIN windows
          <5>1. \A i \in Counted : WindowKeyOf(fed[i]) # key
            BY <1>14, <4>2 DEF Keys
          <5>2. DirectWindow(key).samples = <<>>
            BY <1>1, <5>1, DirectEmpty DEF DemoTypeOK
          <5> QED
            BY <4>2, <5>2 DEF Bucket
        <4> QED
          BY <4>1, <4>2
      <3>4. ASSUME NEW k \in DOMAIN windows'  PROVE windows'[k] = DirectWindow(k)'.samples
        <4>1. CASE k = key
          <5>1. DirectWindow(k)' = [key |-> k, samples |-> Append(DirectWindow(k).samples, SampleOf(o))]
            BY <1>4, <3>1, <4>1
          <5> QED
            BY <3>2, <3>3, <4>1, <5>1
        <4>2. CASE k # key
          BY <1>4, <1>14, <3>2, <4>2
        <4> QED
          BY <4>1, <4>2
      <3> QED
        BY <1>14, <1>15, <1>16, <3>1, <3>2, <3>4
    <2> QED
      BY <2>1, <2>2
  <1> QED
    BY <1>13, <1>17

(* No observation added, nothing counted.                                  *)
LEMMA DirectUnchanged ==
  ASSUME UNCHANGED fed
  PROVE  /\ Counted' = Counted
         /\ \A k : DirectWindow(k)' = DirectWindow(k)
         /\ {WindowKeyOf(fed[i]) : i \in Counted}' = {WindowKeyOf(fed[i]) : i \in Counted}
         /\ {DirectWindow(WindowKeyOf(fed[i])) : i \in Counted}'
              = {DirectWindow(WindowKeyOf(fed[i])) : i \in Counted}
  <1>1. Counted' = Counted
    BY DEF Counted
  <1>2. \A k : DirectWindow(k)' = DirectWindow(k)
    BY <1>1 DEF DirectWindow
  <1>3. \A i : WindowKeyOf(fed[i])' = WindowKeyOf(fed[i])
    BY DEF WindowKeyOf
  <1> QED
    BY <1>1, <1>2, <1>3 DEF DirectWindow

(* The window of a time starts no later.                                   *)
LEMMA TruncateBelow ==
  ASSUME NEW t \in Nat
  PROVE  Truncate(t) \in Nat /\ Truncate(t) <= t
  <1>1. WindowDuration \in Nat \ {0}
    BY WindowAssumption
  <1> DEFINE m == t \div WindowDuration  r == t % WindowDuration  p == m * WindowDuration
  <1>2. m \in Nat /\ r \in Nat /\ t = WindowDuration * m + r
    BY <1>1
  <1> HIDE DEF m, r
  <1>3. p \in Nat /\ t = p + r
    BY <1>1, <1>2
  <1>4. Truncate(t) = p
    BY DEF Truncate, m
  <1> HIDE DEF p
  <1> QED
    BY <1>2, <1>3, <1>4

(* When the last observation is added, one flush closes every window.      *)
LEMMA AnswerFinish ==
  ASSUME AnswerInv, FinishEmpty \/ Finish
  PROVE  pc' = "ok" =>
           /\ states' = {DirectWindow(WindowKeyOf(fed[i])) : i \in Counted}
           /\ \A w \in states' : w.key.key \in request.keys /\ w.key.vehicle = request.vehicle
           /\ DOMAIN windows' = {} /\ pendingWindows' = {}
  <1>1. /\ DemoTypeOK /\ DirectlyCounted /\ NewestKept /\ pendingWindows = {} /\ states = {}
    BY DEF AnswerInv, Running, FinishEmpty, Finish, TracesDone
  <1> DEFINE all == {DirectWindow(WindowKeyOf(fed[i])) : i \in Counted}
  <1>2. \A i \in DOMAIN fed : fed[i] \in Observed
    <2>1. fed \in Seq(Observed)
      BY <1>1 DEF DemoTypeOK
    <2> HIDE DEF Observed
    <2> QED
      BY <2>1
  <1>3. Counted \subseteq DOMAIN fed
    BY DEF Counted
  <1>4. \A w \in all : w.key.key \in request.keys /\ w.key.vehicle = request.vehicle
    <2>1. \A k : DirectWindow(k).key = k
      BY DEF DirectWindow
    <2>2. ASSUME NEW i \in Counted
          PROVE  LET k == WindowKeyOf(fed[i])
                 IN  k.key \in request.keys /\ k.vehicle = request.vehicle
      <3>1. fed[i] \in Observed
        BY <1>2, <1>3
      <3>2. fed[i].key \in request.keys /\ NormalizeVehicleType(fed[i].vehicle) = request.vehicle
        BY <3>1, ObservedFacts
      <3> QED
        BY <3>2 DEF WindowKeyOf
    <2> QED
      BY <2>1, <2>2
  <1>5. CASE FinishEmpty
    <2>1. latest = 0 /\ UNCHANGED <<windows, pendingWindows, states>>
      BY <1>5 DEF FinishEmpty, ZeroTime, processorVars
    <2>2. DOMAIN fed = {}
      <3>1. ASSUME NEW i \in DOMAIN fed  PROVE FALSE
        <4>1. fed[i].at \in Nat
          BY <1>2, <3>1, ObservedFacts
        <4>2. IsValid(fed[i]) /\ fed[i].at <= latest
          BY <1>1, <3>1 DEF NewestKept
        <4>3. fed[i].at # 0
          BY <4>2 DEF IsValid, ZeroTime
        <4> QED
          BY <2>1, <4>1, <4>2, <4>3
      <3> QED
        BY <3>1
    <2>3. Counted = {}
      BY <1>3, <2>2
    <2> QED
      BY <1>1, <2>1, <2>3 DEF DirectlyCounted
  <1>6. CASE Finish
    <2>1. PICK failed \in FailureSets(FlushTime) :
            /\ FlushDone(FlushTime, failed)
            /\ IF failed = {}
               THEN pc' = "ok" /\ states' = Due(FlushTime)
               ELSE pc' = "failed" /\ UNCHANGED states
      BY <1>6 DEF Finish
    <2>2. CASE failed = {}
      <3>1. ASSUME NEW k \in DOMAIN windows  PROVE k \in Expired(FlushTime)
        <4>1. PICK i \in Counted : k = WindowKeyOf(fed[i])
          BY <1>1, <3>1 DEF DirectlyCounted
        <4>2. fed[i].at \in Nat /\ fed[i].at <= latest /\ latest \in Nat
          BY <1>1, <1>2, <1>3, ObservedFacts DEF NewestKept, DemoTypeOK
        <4>3. k.start = Truncate(fed[i].at)
          BY <4>1 DEF WindowKeyOf
        <4>4. k.start \in Nat /\ k.start <= fed[i].at
          BY <4>2, <4>3, TruncateBelow
        <4>5. k.start + WindowDuration <= latest + WindowDuration
          BY <4>2, <4>4, WindowAssumption
        <4> QED
          BY <3>1, <4>5 DEF Expired, WindowEnd, FlushTime
      <3>2. Expired(FlushTime) = DOMAIN windows
        BY <3>1 DEF Expired
      <3>3. Due(FlushTime) = {[key |-> k, samples |-> windows[k]] : k \in DOMAIN windows}
        BY <1>1, <3>2 DEF Due, Closing
      <3>4. \A k \in DOMAIN windows : [key |-> k, samples |-> windows[k]] = DirectWindow(k)
        <4>1. \A k : DirectWindow(k) = [key |-> k, samples |-> DirectWindow(k).samples]
          BY DEF DirectWindow
        <4> QED
          BY <1>1, <4>1 DEF DirectlyCounted
      <3>5. Due(FlushTime) = all
        BY <1>1, <3>3, <3>4 DEF DirectlyCounted
      <3>6. DOMAIN windows' = {} /\ pendingWindows' = {}
        BY <2>1, <2>2, <3>2 DEF FlushDone, Close
      <3> QED
        BY <1>4, <2>1, <2>2, <3>5, <3>6
    <2>3. CASE failed # {}
      BY <2>1, <2>3
    <2> QED
      BY <2>2, <2>3
  <1> QED
    BY <1>5, <1>6

(* Every step keeps the answer exact.                                      *)
LEMMA AnswerStep ==
  ASSUME AnswerInv, [Next]_vars
  PROVE  AnswerInv'
  <1>1. DemoTypeOK'
    BY DemoTypeStep DEF AnswerInv
  <1>2. CASE NextDriver \/ TraceUnmatched \/ TraceMatched
    <2>1. /\ UNCHANGED <<processorVars, latest, fed, states>> /\ Running /\ pc' # "ok"
      BY <1>2 DEF NextDriver, TraceUnmatched, TraceMatched, Attempt, Running
    <2>2. UNCHANGED <<references, pendingWindows, windows, driverStates, latest, fed, states>>
      BY <2>1 DEF processorVars
    <2>3. DirectlyCounted' /\ NewestKept'
      <3>1. DirectlyCounted /\ NewestKept
        BY <2>1 DEF AnswerInv
      <3> QED
        BY <2>2, <3>1, DirectUnchanged DEF DirectlyCounted, NewestKept
    <2> QED
      BY <1>1, <2>1, <2>2, <2>3 DEF AnswerInv, AnswerIsExact
  <1>3. CASE AddErrs
    <2>1. pc' = "failed"
      BY <1>3 DEF AddErrs
    <2> QED
      BY <1>1, <2>1 DEF AnswerInv, AnswerIsExact, Running
  <1>4. CASE AddTakes
    <2>1. DirectlyCounted' /\ NewestKept'
      BY <1>4, AnswerAdd DEF AnswerInv
    <2>2. UNCHANGED <<references, pendingWindows, states>> /\ Running /\ pc' # "ok"
      BY <1>4 DEF AddTakes, AddRepeated, AddNoted, AddAggregated, Running
    <2> QED
      BY <1>1, <2>1, <2>2 DEF AnswerInv, AnswerIsExact
  <1>5. CASE FinishEmpty \/ Finish
    <2>1. pc' \in {"ok", "failed"} /\ UNCHANGED <<request, fed>>
      BY <1>5 DEF FinishEmpty, Finish, callVars
    <2>2. AnswerIsExact'
      BY <1>5, <2>1, AnswerFinish, DirectUnchanged DEF AnswerIsExact
    <2> QED
      BY <1>1, <2>1, <2>2 DEF AnswerInv, Running
  <1>6. CASE UNCHANGED vars
    <2>1. UNCHANGED <<references, pendingWindows, windows, driverStates, latest, fed, states, pc, request>>
      BY <1>6 DEF vars, processorVars, callVars
    <2>2. AnswerIsExact'
      BY <2>1, DirectUnchanged DEF AnswerInv, AnswerIsExact
    <2>3. DirectlyCounted => DirectlyCounted'
      BY <2>1, DirectUnchanged DEF DirectlyCounted
    <2>4. NewestKept => NewestKept'
      BY <2>1 DEF NewestKept
    <2> QED
      BY <1>1, <2>1, <2>2, <2>3, <2>4 DEF AnswerInv, Running
  <1> QED
    BY <1>2, <1>3, <1>4, <1>5, <1>6 DEF Next

(* A successful answer holds exactly the windows that the matched points   *)
(* make when they are counted directly: repeats of overlapping traces and  *)
(* of the file are left out, only requested segments are in it, and the    *)
(* one flush leaves nothing in the processor.                              *)
THEOREM AnswersAreExact == Spec => []AnswerIsExact
  <1>1. Init => AnswerInv
    BY AnswerInit
  <1>2. AnswerInv /\ [Next]_vars => AnswerInv'
    BY AnswerStep
  <1>3. AnswerInv => AnswerIsExact
    BY DEF AnswerInv
  <1> QED
    BY <1>1, <1>2, <1>3, PTL DEF Spec

-----------------------------------------------------------------------------
(* The benchmark's generators.  What the n-th row makes of the rows before *)
(* it, if read lists what those left.                                      *)
RowRead(read, n) == IF n = 0 THEN NoDrivers ELSE ReadRow(flags, read[n - 1], recording[n])

(* ReadCSV's recursive function is there, for n rows and so for them all.  *)
LEMMA ReadExists ==
  ASSUME NEW l \in Nat
  PROVE  \E read : read = [n \in 0..l |-> RowRead(read, n)]
  <1> DEFINE Upto(m) == \E f : f = [n \in 0..m |-> RowRead(f, n)]
             M == {m \in 0..l : Upto(m)}
  <1>1. 0 \in M
    <2> DEFINE f == [n \in 0..0 |-> NoDrivers]
    <2>1. f = [n \in 0..0 |-> RowRead(f, n)]
      BY DEF RowRead
    <2> HIDE DEF f
    <2>2. Upto(0)
      BY <2>1
    <2> QED
      BY <2>2
  <1>2. ASSUME NEW m \in 0..l, m < l, m \in M
        PROVE  m + 1 \in M
    <2>1. PICK f : f = [n \in 0..m |-> RowRead(f, n)]
      BY <1>2
    <2> DEFINE g == [n \in 0..(m + 1) |-> IF n <= m THEN f[n] ELSE RowRead(f, n)]
    <2>2. ASSUME NEW n \in 0..(m + 1)  PROVE g[n] = RowRead(g, n)
      <3>1. CASE n <= m
        <4>1. n \in 0..m /\ (n # 0 => n - 1 \in 0..m)
          BY <3>1
        <4>2. g[n] = f[n]
          BY <3>1, <4>1
        <4>3. n # 0 => g[n - 1] = f[n - 1]
          BY <4>1
        <4>4. f[n] = RowRead(f, n)
          BY <2>1, <4>1
        <4>5. RowRead(f, n) = RowRead(g, n)
          <5> HIDE DEF g
          <5> QED
            BY <4>3 DEF RowRead
        <4> HIDE DEF g
        <4> QED
          BY <4>2, <4>4, <4>5
      <3>2. CASE n = m + 1
        <4>1. n # 0 /\ n - 1 = m /\ m \in 0..m /\ ~(n <= m)
          BY <3>2
        <4>2. g[n] = RowRead(f, n)
          BY <4>1
        <4>3. g[m] = f[m]
          BY <4>1
        <4>4. RowRead(f, n) = RowRead(g, n)
          <5> HIDE DEF g
          <5> QED
            BY <4>1, <4>3 DEF RowRead
        <4> HIDE DEF g
        <4> QED
          BY <4>2, <4>4
      <3>3. n <= m \/ n = m + 1
        BY <1>2
      <3> QED
        BY <3>1, <3>2, <3>3
    <2>3. DOMAIN g = 0..(m + 1) /\ g = [n \in DOMAIN g |-> g[n]]
      OBVIOUS
    <2>4. g = [n \in 0..(m + 1) |-> RowRead(g, n)]
      <3> HIDE DEF g
      <3> QED
        BY <2>2, <2>3
    <2> HIDE DEF g
    <2>5. Upto(m + 1)
      BY <2>4
    <2>6. m + 1 \in 0..l
      BY <1>2
    <2> QED
      BY <2>5, <2>6
  <1>3. l \in M
    <2> HIDE DEF M
    <2> QED
      BY <1>1, <1>2, CountingUp
  <1> QED
    BY <1>3

(* ReadCSV row by row.                                                     *)
LEMMA ReadTurns ==
  ASSUME Len(recording) \in Nat
  PROVE  \E read : /\ Read = read[Len(recording)]
                   /\ read[0] = NoDrivers
                   /\ \A n \in 1..Len(recording) : read[n] = ReadRow(flags, read[n - 1], recording[n])
  <1> DEFINE Loop(f) == f = [n \in 0..Len(recording) |-> RowRead(f, n)]
             F == CHOOSE f : Loop(f)
  <1>1. Read = F[Len(recording)]
    BY DEF Read, ReadCSV, RowRead
  <1>2. Loop(F)
    <2>1. \E f : Loop(f)
      BY ReadExists
    <2> HIDE DEF Loop
    <2> QED
      BY <2>1
  <1>3. \A n \in 0..Len(recording) : F[n] = RowRead(F, n)
    <2> HIDE DEF F
    <2> QED
      BY <1>2
  <1> HIDE DEF F, Loop
  <1>4. F[0] = NoDrivers
    BY <1>3 DEF RowRead
  <1>5. \A n \in 1..Len(recording) : F[n] = ReadRow(flags, F[n - 1], recording[n])
    <2> SUFFICES ASSUME NEW n \in 1..Len(recording)
                 PROVE  F[n] = ReadRow(flags, F[n - 1], recording[n])
      OBVIOUS
    <2>1. n \in 0..Len(recording) /\ n # 0
      OBVIOUS
    <2> QED
      BY <1>3, <2>1 DEF RowRead
  <1> QED
    BY <1>1, <1>4, <1>5

-----------------------------------------------------------------------------
(* A recording that the generators may be given.                           *)
WellRecorded ==
  /\ recording \in Seq(ToSet(recording))
  /\ \A n \in DOMAIN recording : recording[n].time \in Int \cup {Nil}

DriverName == {Trimmed[recording[n].driver_id] : n \in DOMAIN recording}

DriverTrace == [id : DriverName, points : Seq(Int)]

ReadState == [drivers : Seq(DriverTrace), failed : BOOLEAN, minimum : Int, maximum : Int]

(* A row's time is a number, if its texts are accepted.                    *)
LEMMA PointTyped ==
  ASSUME BenchAssumption, NEW row, row.time \in Int \cup {Nil}, PointAccepted(row)
  PROVE  PointOf(row) \in Int
  <1>1. row.time \in Int
    BY DEF PointAccepted
  <1>2. row.t_timestamp.tenths \in Int
    <2>1. MinuteTenths \in Int
      BY DEF MinuteTenths, MinuteMs
    <2>2. row.t_timestamp.tenths \in 0..(MinuteTenths - 1)
      BY DEF PointAccepted
    <2> QED
      BY <2>1, <2>2
  <1> DEFINE t == row.t_timestamp.tenths  u == row.time
  <1> HIDE DEF t, u
  <1>3. t \in Int /\ u \in Int
    BY <1>1, <1>2 DEF t, u
  <1>4. u * 60000 + ((t + 5) \div 10) \in Int
    BY <1>3
  <1> QED
    BY <1>4 DEF PointOf, RoundedMs, MinuteMs, t, u

(* What a row adds, if it adds something: a point to the i-th driver.      *)
AddsPoint(old, new, n, i) ==
  LET id == Trimmed[recording[n].driver_id]
      l == Len(old.drivers)
      at == PointOf(recording[n])
  IN  /\ PointAccepted(recording[n])
      /\ i \in 1..(l + 1)
      /\ i = l + 1 => \A d \in 1..l : old.drivers[d].id # id
      /\ i <= l => old.drivers[i].id = id
      /\ Len(new.drivers) = IF i = l + 1 THEN l + 1 ELSE l
      /\ new.drivers[i].id = id
      /\ new.drivers[i].points = IF i = l + 1 THEN <<at>> ELSE Append(old.drivers[i].points, at)
      /\ \A d \in 1..l : d # i => new.drivers[d] = old.drivers[d]
      /\ new.failed = FALSE
      /\ new.minimum = IF old.minimum = 0 \/ at < old.minimum THEN at ELSE old.minimum
      /\ new.maximum = IF at > old.maximum THEN at ELSE old.maximum

(* A row adds a point, or nothing, or ends the reading.                    *)
LEMMA ReadRowFacts ==
  ASSUME BenchAssumption, WellRecorded, NEW n \in DOMAIN recording, NEW old \in ReadState
  PROVE  LET new == ReadRow(flags, old, recording[n])
         IN  /\ new \in ReadState
             /\ new.failed \/ new = old \/ \E i \in 1..(Len(old.drivers) + 1) : AddsPoint(old, new, n, i)
             /\ old.failed => new.failed
  <1> DEFINE row == recording[n]
             id == Trimmed[row.driver_id]
             i == IndexOf(old.drivers, id)
             l == Len(old.drivers)
             isNew == i > l
             points == IF isNew THEN <<>> ELSE old.drivers[i].points
             at == PointOf(row)
             grown == [drivers |-> IF isNew
                                   THEN Append(old.drivers, [id |-> id, points |-> <<at>>])
                                   ELSE [old.drivers EXCEPT ![i].points = Append(@, at)],
                       failed |-> FALSE,
                       minimum |-> IF old.minimum = 0 \/ at < old.minimum THEN at ELSE old.minimum,
                       maximum |-> IF at > old.maximum THEN at ELSE old.maximum]
             new == ReadRow(flags, old, row)
  <1>1. /\ old.drivers \in Seq(DriverTrace) /\ l \in Nat /\ DOMAIN old.drivers = 1..l
        /\ old.minimum \in Int /\ old.maximum \in Int /\ old.failed \in BOOLEAN
        /\ id \in DriverName
    <2>1. id \in DriverName
      BY DEF DriverName
    <2> QED
      BY <2>1 DEF ReadState
  <1>2. \/ i \in 1..l /\ old.drivers[i].id = id
        \/ i = l + 1 /\ \A d \in 1..l : old.drivers[d].id # id
    BY <1>1 DEF IndexOf
  <1>3. \/ new = [old EXCEPT !.failed = TRUE]
        \/ ~old.failed /\ new = old
        \/ ~old.failed /\ PointAccepted(row) /\ new = grown
    BY DEF ReadRow
  <1>4. [old EXCEPT !.failed = TRUE] \in ReadState /\ [old EXCEPT !.failed = TRUE].failed
    BY DEF ReadState
  <1>5. ASSUME PointAccepted(row)
        PROVE  /\ grown \in ReadState
               /\ new = grown => \E k \in 1..(l + 1) : AddsPoint(old, new, n, k)
    <2>1. at \in Int
      <3>1. row.time \in Int \cup {Nil}
        BY DEF WellRecorded
      <3> QED
        BY <1>5, <3>1, PointTyped
    <2>2. <<at>> \in Seq(Int)
      <3> HIDE DEF at
      <3> QED
        BY <2>1
    <2>3. CASE i = l + 1 /\ \A d \in 1..l : old.drivers[d].id # id
      <3> DEFINE t == [id |-> id, points |-> <<at>>]
      <3>1. t \in DriverTrace
        BY <1>1, <2>2 DEF DriverTrace
      <3>2. isNew
        BY <1>1, <2>3
      <3>3. t.id = id /\ t.points = <<at>>
        OBVIOUS
      <3> HIDE DEF t
      <3>4. /\ Append(old.drivers, t) \in Seq(DriverTrace)
            /\ Len(Append(old.drivers, t)) = l + 1
            /\ Append(old.drivers, t)[l + 1] = t
            /\ \A d \in 1..l : Append(old.drivers, t)[d] = old.drivers[d]
        <4> DEFINE ds == old.drivers
        <4>1. ds \in Seq(DriverTrace) /\ l = Len(ds)
          BY <1>1
        <4> HIDE DEF ds
        <4>2. /\ Append(ds, t) \in Seq(DriverTrace)
              /\ Len(Append(ds, t)) = Len(ds) + 1
              /\ Append(ds, t)[Len(ds) + 1] = t
              /\ \A d \in 1..Len(ds) : Append(ds, t)[d] = ds[d]
          BY <3>1, <4>1
        <4> QED
          BY <4>1, <4>2 DEF ds
      <3>5. grown.drivers = Append(old.drivers, t)
        BY <3>2 DEF t
      <3> HIDE DEF at, i, id
      <3>6. grown \in ReadState
        BY <1>1, <2>1, <3>4, <3>5 DEF ReadState
      <3>7. grown.failed = FALSE
            /\ grown.minimum = (IF old.minimum = 0 \/ at < old.minimum THEN at ELSE old.minimum)
            /\ grown.maximum = (IF at > old.maximum THEN at ELSE old.maximum)
        OBVIOUS
      <3> HIDE DEF grown
      <3>8. ASSUME new = grown  PROVE AddsPoint(old, new, n, l + 1)
        <4>1. l + 1 \in 1..(l + 1) /\ ~(l + 1 <= l) /\ \A d \in 1..l : d # l + 1
          BY <1>1
        <4>2. \A d \in 1..l : old.drivers[d].id # id
          BY <2>3
        <4> HIDE DEF l, new
        <4>3. /\ Len(new.drivers) = l + 1 /\ new.drivers[l + 1].id = id
              /\ new.drivers[l + 1].points = <<at>>
              /\ \A d \in 1..l : new.drivers[d] = old.drivers[d]
          BY <3>3, <3>4, <3>5, <3>8
        <4>4. /\ new.failed = FALSE
              /\ new.minimum = (IF old.minimum = 0 \/ at < old.minimum THEN at ELSE old.minimum)
              /\ new.maximum = (IF at > old.maximum THEN at ELSE old.maximum)
          BY <3>7, <3>8
        <4> QED
          BY <1>5, <4>1, <4>2, <4>3, <4>4 DEF AddsPoint, l, at, id
      <3>9. l + 1 \in 1..(l + 1)
        BY <1>1
      <3> QED
        BY <3>6, <3>8, <3>9
    <2>4. CASE i \in 1..l /\ old.drivers[i].id = id
      <3> DEFINE ds == [old.drivers EXCEPT ![i].points = Append(@, at)]
                 ps == old.drivers[i].points
      <3>1. ~isNew /\ l + 1 # i /\ i \in 1..(l + 1) /\ i <= l
        BY <1>1, <2>4
      <3>2. old.drivers[i] \in DriverTrace
        BY <1>1, <2>4
      <3>3. ps \in Seq(Int)
        BY <3>2 DEF DriverTrace
      <3> HIDE DEF i, at, id, ps
      <3>4. Append(ps, at) \in Seq(Int)
        BY <2>1, <3>3
      <3>5. /\ ds[i] = [old.drivers[i] EXCEPT !.points = Append(ps, at)]
            /\ DOMAIN ds = 1..l
            /\ \A d \in 1..l : d # i => ds[d] = old.drivers[d]
        BY <1>1, <2>4 DEF ps
      <3>6. ds[i].id = id /\ ds[i].points = Append(ps, at) /\ ds[i] \in DriverTrace
        BY <2>4, <3>2, <3>4, <3>5 DEF DriverTrace
      <3>7. ds \in Seq(DriverTrace) /\ Len(ds) = l
        <4>1. \A d \in 1..l : ds[d] \in DriverTrace
          BY <1>1, <3>5, <3>6
        <4>2. ds = [d \in 1..l |-> ds[d]]
          BY <3>5
        <4> HIDE DEF ds, l
        <4>3. ds \in [1..l -> DriverTrace]
          BY <4>1, <4>2
        <4> QED
          BY <1>1, <3>5, <4>3 DEF l
      <3>8. grown.drivers = ds
        BY <3>1
      <3> HIDE DEF ds
      <3>9. grown \in ReadState
        BY <1>1, <2>1, <3>7, <3>8 DEF ReadState
      <3>10. grown.failed = FALSE
             /\ grown.minimum = (IF old.minimum = 0 \/ at < old.minimum THEN at ELSE old.minimum)
             /\ grown.maximum = (IF at > old.maximum THEN at ELSE old.maximum)
        OBVIOUS
      <3> HIDE DEF grown
      <3>11. ASSUME new = grown  PROVE AddsPoint(old, new, n, i)
        <4> HIDE DEF l, new
        <4>1. /\ Len(new.drivers) = l /\ new.drivers[i].id = id
              /\ new.drivers[i].points = Append(ps, at)
              /\ \A d \in 1..l : d # i => new.drivers[d] = old.drivers[d]
          BY <3>5, <3>6, <3>7, <3>8, <3>11
        <4>2. /\ new.failed = FALSE
              /\ new.minimum = (IF old.minimum = 0 \/ at < old.minimum THEN at ELSE old.minimum)
              /\ new.maximum = (IF at > old.maximum THEN at ELSE old.maximum)
          BY <3>10, <3>11
        <4> QED
          BY <1>5, <2>4, <3>1, <4>1, <4>2 DEF AddsPoint, l, at, id, ps
      <3> QED
        BY <3>1, <3>9, <3>11
    <2> QED
      BY <1>2, <2>3, <2>4
  <1> HIDE DEF grown, new, i, points, isNew
  <1>6. new \in ReadState
    BY <1>3, <1>4, <1>5
  <1>7. new.failed \/ new = old \/ \E k \in 1..(l + 1) : AddsPoint(old, new, n, k)
    BY <1>3, <1>4, <1>5
  <1>8. old.failed => new.failed
    BY <1>3, <1>4
  <1> QED
    BY <1>6, <1>7, <1>8 DEF new

(* What the reading has after n rows, if it has not failed: drivers with   *)
(* an id of their own, the points of each from its rows and in their       *)
(* order, and bounds of all points.                                        *)
IDsApart(drivers) == \A c, d \in DOMAIN drivers : drivers[c].id = drivers[d].id => c = d

FromRows(drivers, n) ==
  \A d \in DOMAIN drivers :
    /\ Len(drivers[d].points) >= 1
    /\ \A k \in DOMAIN drivers[d].points : \E m \in RowsOf(drivers[d].id) :
         m <= n /\ drivers[d].points[k] = PointOf(recording[m])

PointsRise(drivers) ==
  \A d \in DOMAIN drivers : RisesInFile(drivers[d].id) =>
    \A j, k \in DOMAIN drivers[d].points : j < k => drivers[d].points[j] < drivers[d].points[k]

PointsBounded(read) ==
  /\ read.drivers = <<>> \/ read.minimum # 0
  /\ \A d \in DOMAIN read.drivers : \A k \in DOMAIN read.drivers[d].points :
       read.minimum <= read.drivers[d].points[k] /\ read.drivers[d].points[k] <= read.maximum

RightRead(read, n) ==
  /\ IDsApart(read.drivers)
  /\ FromRows(read.drivers, n)
  /\ PointsRise(read.drivers)
  /\ NoneAtZero => PointsBounded(read)

(* One more point keeps all that.                                          *)
LEMMA AddsPointRight ==
  ASSUME BenchAssumption, WellRecorded, NEW n \in DOMAIN recording,
         NEW old \in ReadState, NEW new \in ReadState, RightRead(old, n - 1),
         NEW i \in 1..(Len(old.drivers) + 1), AddsPoint(old, new, n, i)
  PROVE  RightRead(new, n)
  <1> DEFINE id == Trimmed[recording[n].driver_id]
             l == Len(old.drivers)
             at == PointOf(recording[n])
             before == IF i = l + 1 THEN <<>> ELSE old.drivers[i].points
             after == new.drivers[i].points
  <1>1. /\ l \in Nat /\ DOMAIN old.drivers = 1..l /\ n \in Nat
        /\ \A d \in 1..l : old.drivers[d] \in DriverTrace
        /\ old.minimum \in Int /\ old.maximum \in Int
        /\ DOMAIN new.drivers = 1..(IF i = l + 1 THEN l + 1 ELSE l)
    <2>1. old.drivers \in Seq(DriverTrace) /\ new.drivers \in Seq(DriverTrace)
      BY DEF ReadState
    <2>2. Len(new.drivers) = IF i = l + 1 THEN l + 1 ELSE l
      BY DEF AddsPoint
    <2>3. recording \in Seq(ToSet(recording))
      BY DEF WellRecorded
    <2>4. n \in Nat
      BY <2>3
    <2> QED
      BY <2>1, <2>2, <2>4 DEF ReadState
  <1>2. at \in Int
    <2>1. recording[n].time \in Int \cup {Nil}
      BY DEF WellRecorded
    <2> QED
      BY <2>1, PointTyped DEF AddsPoint
  <1>3. n \in RowsOf(id)
    BY DEF RowsOf, AddsPoint
  <1>4. /\ PointAccepted(recording[n])
        /\ i = l + 1 => \A d \in 1..l : old.drivers[d].id # id
        /\ i <= l => old.drivers[i].id = id
        /\ new.drivers[i].id = id
        /\ after = IF i = l + 1 THEN <<at>> ELSE Append(old.drivers[i].points, at)
        /\ \A d \in 1..l : d # i => new.drivers[d] = old.drivers[d]
        /\ new.minimum = IF old.minimum = 0 \/ at < old.minimum THEN at ELSE old.minimum
        /\ new.maximum = IF at > old.maximum THEN at ELSE old.maximum
    BY DEF AddsPoint
  <1>5. before \in Seq(Int)
    <2>1. CASE i = l + 1
      BY <2>1
    <2>2. CASE i # l + 1
      <3>1. i \in 1..l
        BY <1>1, <2>2
      <3>2. old.drivers[i] \in DriverTrace
        BY <1>1, <3>1
      <3> QED
        BY <2>2, <3>2 DEF DriverTrace
    <2> QED
      BY <2>1, <2>2
  <1>6. /\ Len(before) \in Nat /\ DOMAIN before = 1..Len(before)
        /\ DOMAIN after = 1..(Len(before) + 1) /\ Len(after) = Len(before) + 1
        /\ after[Len(before) + 1] = at
        /\ \A k \in 1..Len(before) : after[k] = before[k]
    <2>1. after = Append(before, at)
      <3>1. CASE i = l + 1
        BY <1>4, <3>1
      <3>2. CASE i # l + 1
        BY <1>4, <3>2
      <3> QED
        BY <3>1, <3>2
    <2> HIDE DEF before, after, at
    <2> QED
      BY <1>2, <1>5, <2>1
  <1>7. \A d \in DOMAIN new.drivers : d = i \/ (d \in 1..l /\ d # i)
    BY <1>1
  <1>8. \A k \in 1..Len(before) : i \in 1..l /\ before = old.drivers[i].points
    BY <1>1
  <1>9. (i = l + 1 /\ i \notin 1..l /\ ~(i <= l)) \/ (i \in 1..l /\ i # l + 1 /\ i <= l)
    <2>1. i \in 1..(l + 1) /\ l \in Nat
      BY <1>1
    <2> HIDE DEF l
    <2> QED
      BY <2>1
  <1> HIDE DEF id, l, at, before, after
  <1>10. IDsApart(new.drivers)
    <2>1. \A c, d \in 1..l : old.drivers[c].id = old.drivers[d].id => c = d
      BY <1>1 DEF RightRead, IDsApart
    <2>2. \A d \in 1..l : d # i => old.drivers[d].id # id
      BY <1>4, <1>9, <2>1
    <2> QED
      BY <1>4, <1>7, <2>1, <2>2 DEF IDsApart
  <1>11. \A d \in 1..l :
           /\ Len(old.drivers[d].points) >= 1
           /\ \A k \in DOMAIN old.drivers[d].points : \E m \in RowsOf(old.drivers[d].id) :
                m <= n - 1 /\ old.drivers[d].points[k] = PointOf(recording[m])
    BY <1>1 DEF RightRead, FromRows
  <1>12. RowsOf(id) \subseteq Nat /\ \A d : RowsOf(d) \subseteq Nat
    <2>1. DOMAIN recording \subseteq Nat
      <3>1. recording \in Seq(ToSet(recording))
        BY DEF WellRecorded
      <3> QED
        BY <3>1
    <2> QED
      BY <2>1 DEF RowsOf
  <1>13. \A k \in 1..Len(before) : \E m \in RowsOf(id) : m < n /\ before[k] = PointOf(recording[m])
    <2> SUFFICES ASSUME NEW k \in 1..Len(before)
                 PROVE  \E m \in RowsOf(id) : m < n /\ before[k] = PointOf(recording[m])
      OBVIOUS
    <2>1. i \in 1..l /\ before = old.drivers[i].points /\ old.drivers[i].id = id
      BY <1>4, <1>8, <1>9
    <2>2. PICK m \in RowsOf(id) : m <= n - 1 /\ before[k] = PointOf(recording[m])
      BY <1>6, <1>11, <2>1
    <2>3. m < n
      BY <1>1, <1>12, <2>2
    <2> QED
      BY <2>2, <2>3
  <1>14. FromRows(new.drivers, n)
    <2> SUFFICES ASSUME NEW d \in DOMAIN new.drivers
                 PROVE  /\ Len(new.drivers[d].points) >= 1
                        /\ \A k \in DOMAIN new.drivers[d].points : \E m \in RowsOf(new.drivers[d].id) :
                             m <= n /\ new.drivers[d].points[k] = PointOf(recording[m])
      BY DEF FromRows
    <2>1. CASE d = i
      <3>1. new.drivers[d].points = after /\ new.drivers[d].id = id
        BY <1>4, <2>1 DEF after
      <3>2. Len(after) >= 1
        BY <1>6
      <3>3. ASSUME NEW k \in DOMAIN after
            PROVE  \E m \in RowsOf(id) : m <= n /\ after[k] = PointOf(recording[m])
        <4>1. k \in 1..Len(before) \/ k = Len(before) + 1
          BY <1>6
        <4>2. CASE k \in 1..Len(before)
          <5>1. PICK m \in RowsOf(id) : m < n /\ before[k] = PointOf(recording[m])
            BY <1>13, <4>2
          <5>2. m <= n /\ after[k] = before[k]
            BY <1>1, <1>6, <1>12, <4>2, <5>1
          <5> QED
            BY <5>1, <5>2
        <4>3. CASE k = Len(before) + 1
          <5>1. n <= n /\ after[k] = PointOf(recording[n])
            BY <1>1, <1>6, <4>3 DEF at
          <5> QED
            BY <1>3, <5>1
        <4> QED
          BY <4>1, <4>2, <4>3
      <3> QED
        BY <3>1, <3>2, <3>3
    <2>2. CASE d \in 1..l /\ d # i
      <3>1. new.drivers[d] = old.drivers[d]
        BY <1>4, <2>2
      <3>2. \A m \in RowsOf(old.drivers[d].id) : m <= n - 1 => m <= n
        BY <1>1, <1>12
      <3> QED
        BY <1>11, <2>2, <3>1, <3>2
    <2> QED
      BY <1>7, <2>1, <2>2
  <1>15. PointsRise(new.drivers)
    <2> SUFFICES ASSUME NEW d \in DOMAIN new.drivers, RisesInFile(new.drivers[d].id),
                        NEW j \in DOMAIN new.drivers[d].points, NEW k \in DOMAIN new.drivers[d].points, j < k
                 PROVE  new.drivers[d].points[j] < new.drivers[d].points[k]
      BY DEF PointsRise
    <2>1. \A c \in 1..l : RisesInFile(old.drivers[c].id) =>
            \A g, h \in DOMAIN old.drivers[c].points : g < h => old.drivers[c].points[g] < old.drivers[c].points[h]
      BY <1>1 DEF RightRead, PointsRise
    <2>2. CASE d = i
      <3>1. new.drivers[d].points = after /\ new.drivers[d].id = id
        BY <1>4, <2>2 DEF after
      <3>2. j \in 1..Len(before) /\ (k \in 1..Len(before) \/ k = Len(before) + 1)
        BY <1>6, <3>1
      <3>3. CASE k \in 1..Len(before)
        <4>1. i \in 1..l /\ before = old.drivers[i].points /\ old.drivers[i].id = id
          BY <1>4, <1>8, <1>9, <3>3
        <4>2. before[j] < before[k]
          BY <1>6, <2>1, <3>1, <3>2, <3>3, <4>1
        <4> QED
          BY <1>6, <3>1, <3>2, <3>3, <4>2
      <3>4. CASE k = Len(before) + 1
        <4>1. PICK m \in RowsOf(id) : m < n /\ before[j] = PointOf(recording[m])
          BY <1>13, <3>2
        <4>2. PointOf(recording[m]) < PointOf(recording[n])
          BY <1>3, <3>1, <4>1 DEF RisesInFile
        <4> QED
          BY <1>6, <3>1, <3>2, <3>4, <4>1, <4>2 DEF at
      <3> QED
        BY <3>2, <3>3, <3>4
    <2>3. CASE d \in 1..l /\ d # i
      <3>1. new.drivers[d] = old.drivers[d]
        BY <1>4, <2>3
      <3> QED
        BY <2>1, <2>3, <3>1
    <2> QED
      BY <1>7, <2>2, <2>3
  <1>16. ASSUME NoneAtZero  PROVE PointsBounded(new)
    <2>1. at # 0
      BY <1>4, <1>16 DEF NoneAtZero, at
    <2>2. /\ old.drivers = <<>> \/ old.minimum # 0
          /\ \A d \in 1..l : \A k \in DOMAIN old.drivers[d].points :
               old.minimum <= old.drivers[d].points[k] /\ old.drivers[d].points[k] <= old.maximum
      BY <1>1, <1>16 DEF RightRead, PointsBounded
    <2>3. old.minimum = 0 => l = 0
      BY <2>2 DEF l
    <2>4. /\ new.minimum # 0 /\ new.minimum \in Int /\ new.maximum \in Int
          /\ new.minimum <= at /\ at <= new.maximum
          /\ l # 0 => new.minimum <= old.minimum
          /\ old.maximum <= new.maximum
      BY <1>1, <1>2, <1>4, <2>1, <2>3
    <2>5. ASSUME NEW d \in 1..l, NEW k \in DOMAIN old.drivers[d].points
          PROVE  new.minimum <= old.drivers[d].points[k] /\ old.drivers[d].points[k] <= new.maximum
      <3>1. l # 0
        BY <1>1
      <3>2. old.drivers[d].points[k] \in Int
        <4>1. old.drivers[d].points \in Seq(Int)
          BY <1>1 DEF DriverTrace
        <4> QED
          BY <4>1
      <3>3. old.minimum <= old.drivers[d].points[k] /\ old.drivers[d].points[k] <= old.maximum
        BY <2>2
      <3> QED
        BY <1>1, <2>4, <3>1, <3>2, <3>3
    <2>6. ASSUME NEW d \in DOMAIN new.drivers, NEW k \in DOMAIN new.drivers[d].points
          PROVE  new.minimum <= new.drivers[d].points[k] /\ new.drivers[d].points[k] <= new.maximum
      <3>1. CASE d = i
        <4>1. new.drivers[d].points = after
          BY <3>1 DEF after
        <4>2. k \in 1..Len(before) \/ k = Len(before) + 1
          BY <1>6, <4>1
        <4>3. CASE k \in 1..Len(before)
          <5>1. i \in 1..l /\ before = old.drivers[i].points
            BY <1>8, <4>3
          <5> QED
            BY <1>6, <2>5, <4>1, <4>3, <5>1
        <4>4. CASE k = Len(before) + 1
          BY <1>6, <2>4, <4>1, <4>4
        <4> QED
          BY <4>2, <4>3, <4>4
      <3>2. CASE d \in 1..l /\ d # i
        BY <1>4, <2>5, <3>2
      <3> QED
        BY <1>7, <3>1, <3>2
    <2> QED
      BY <2>4, <2>6 DEF PointsBounded
  <1> QED
    BY <1>10, <1>14, <1>15, <1>16 DEF RightRead

(* So what ReadCSV returns is right, if it returns.                        *)
LEMMA ReadCSVRight ==
  ASSUME BenchAssumption, WellRecorded
  PROVE  /\ Read \in ReadState
         /\ ~Read.failed => RightRead(Read, Len(recording))
  <1> DEFINE l == Len(recording)
  <1>1. l \in Nat /\ DOMAIN recording = 1..l
    BY DEF WellRecorded
  <1>2. PICK read : /\ Read = read[l]
                    /\ read[0] = NoDrivers
                    /\ \A n \in 1..l : read[n] = ReadRow(flags, read[n - 1], recording[n])
    BY <1>1, ReadTurns
  <1> HIDE DEF l
  <1> DEFINE M == {n \in 0..l : read[n] \in ReadState /\ (~read[n].failed => RightRead(read[n], n))}
  <1>3. 0 \in M
    <2>1. NoDrivers \in ReadState
      BY DEF NoDrivers, ReadState
    <2>2. NoDrivers.drivers = <<>> /\ DOMAIN NoDrivers.drivers = {}
      BY DEF NoDrivers
    <2>3. RightRead(NoDrivers, 0)
      BY <2>2 DEF RightRead, IDsApart, FromRows, PointsRise, PointsBounded
    <2> QED
      BY <1>1, <1>2, <2>1, <2>3
  <1>4. ASSUME NEW m \in 0..l, m < l, m \in M  PROVE m + 1 \in M
    <2> DEFINE old == read[m]  new == read[m + 1]  n == m + 1
    <2>1. n \in DOMAIN recording /\ n - 1 = m /\ n \in 1..l /\ n \in 0..l
      BY <1>1, <1>4
    <2>2. new = ReadRow(flags, old, recording[n]) /\ old \in ReadState /\ (~old.failed => RightRead(old, m))
      BY <1>2, <1>4, <2>1
    <2> HIDE DEF old, new
    <2>3. /\ new \in ReadState
          /\ new.failed \/ new = old \/ \E i \in 1..(Len(old.drivers) + 1) : AddsPoint(old, new, n, i)
          /\ old.failed => new.failed
      <3> HIDE DEF n
      <3> QED
        BY <2>1, <2>2, ReadRowFacts
    <2>4. ASSUME ~new.failed  PROVE RightRead(new, n)
      <3>1. RightRead(old, m)
        BY <2>2, <2>3, <2>4
      <3>2. CASE new = old
        <4>1. \A p \in DOMAIN recording : p <= m => p <= n
          BY <1>1, <2>1
        <4>2. \A d : RowsOf(d) \subseteq DOMAIN recording
          BY DEF RowsOf
        <4> HIDE DEF n
        <4>3. FromRows(old.drivers, n)
          <5>1. FromRows(old.drivers, m)
            BY <3>1 DEF RightRead
          <5> QED
            BY <4>1, <4>2, <5>1 DEF FromRows
        <4> QED
          BY <3>1, <3>2, <4>3 DEF RightRead
      <3>3. CASE \E i \in 1..(Len(old.drivers) + 1) : AddsPoint(old, new, n, i)
        <4>1. PICK i \in 1..(Len(old.drivers) + 1) : AddsPoint(old, new, n, i)
          BY <3>3
        <4>2. RightRead(old, n - 1)
          BY <2>1, <3>1
        <4> HIDE DEF n
        <4> QED
          BY <2>1, <2>2, <2>3, <4>1, <4>2, AddsPointRight
      <3> QED
        BY <2>3, <2>4, <3>2, <3>3
    <2> QED
      BY <2>1, <2>3, <2>4 DEF new
  <1>5. l \in M
    <2>1. \A i \in 0..l : i \in M
      <3> HIDE DEF M
      <3> QED
        BY <1>1, <1>3, <1>4, CountingUp
    <2>2. l \in 0..l
      BY <1>1
    <2> QED
      BY <2>1, <2>2
  <1> QED
    BY <1>2, <1>5 DEF l

-----------------------------------------------------------------------------
NoRepeats(list) == \A i, j \in DOMAIN list : list[i] = list[j] => i = j

(* SelectAt leaves out none of the chosen elements, and of a list without  *)
(* repetitions it makes one without.                                       *)
LEMMA SelectComplete ==
  ASSUME NEW V, NEW list \in Seq(V), NEW S,
         NoRepeats(list)
  PROVE  LET kept == SelectAt(list, S)
         IN  /\ \A k \in S \cap DOMAIN list : \E j \in DOMAIN kept : kept[j] = list[k]
             /\ \A j \in DOMAIN kept : \E k \in S \cap DOMAIN list : kept[j] = list[k]
             /\ \A i, j \in DOMAIN kept : kept[i] = kept[j] => i = j
  <1> DEFINE l == Len(list)
  <1>1. PICK kept : /\ SelectAt(list, S) = kept[l]
                    /\ kept[0] = <<>>
                    /\ \A n \in 1..l : kept[n] = IF n \in S THEN Append(kept[n - 1], list[n]) ELSE kept[n - 1]
    BY SelectTurns
  <1>2. l \in Nat /\ DOMAIN list = 1..l
    OBVIOUS
  <1> HIDE DEF l
  <1> DEFINE Right(n) ==
               /\ kept[n] \in Seq(V)
               /\ \A k \in 1..n : k \in S => \E j \in DOMAIN kept[n] : kept[n][j] = list[k]
               /\ \A j \in DOMAIN kept[n] : \E k \in 1..n : k \in S /\ kept[n][j] = list[k]
               /\ \A i, j \in DOMAIN kept[n] : kept[n][i] = kept[n][j] => i = j
             M == {n \in 0..l : Right(n)}
  <1>3. 0 \in M
    <2>1. <<>> \in Seq(V) /\ DOMAIN <<>> = {} /\ 1..0 = {}
      OBVIOUS
    <2>2. Right(0)
      BY <1>1, <2>1
    <2> QED
      BY <1>2, <2>2
  <1>4. ASSUME NEW m \in 0..l, m < l, m \in M  PROVE m + 1 \in M
    <2> DEFINE old == kept[m]  new == kept[m + 1]  e == list[m + 1]
    <2>1. /\ m + 1 \in 1..l /\ (m + 1) - 1 = m /\ m + 1 \in 0..l
          /\ \A k \in 1..m : k \in 1..(m + 1) /\ k \in 1..l /\ k # m + 1
          /\ \A k \in 1..(m + 1) : k \in 1..m \/ k = m + 1
      BY <1>2, <1>4
    <2>2. new = IF m + 1 \in S THEN Append(old, e) ELSE old
      BY <1>1, <2>1
    <2>3. /\ old \in Seq(V)
          /\ \A k \in 1..m : k \in S => \E j \in DOMAIN old : old[j] = list[k]
          /\ \A j \in DOMAIN old : \E k \in 1..m : k \in S /\ old[j] = list[k]
          /\ \A i, j \in DOMAIN old : old[i] = old[j] => i = j
      BY <1>4
    <2>4. e \in V /\ \A k \in 1..m : list[k] # e
      <3>1. e \in V
        BY <1>2, <2>1
      <3>2. \A k \in 1..m : list[k] # e
        BY <1>2, <2>1 DEF NoRepeats
      <3> QED
        BY <3>1, <3>2
    <2> HIDE DEF old, new, e
    <2>5. CASE m + 1 \in S
      <3>1. new = Append(old, e)
        BY <2>2, <2>5
      <3>2. /\ new \in Seq(V) /\ DOMAIN old = 1..Len(old) /\ DOMAIN new = 1..(Len(old) + 1)
            /\ Len(old) \in Nat
            /\ new[Len(old) + 1] = e /\ \A j \in 1..Len(old) : new[j] = old[j]
        BY <2>3, <2>4, <3>1
      <3>3. \A j \in DOMAIN new : j \in DOMAIN old \/ j = Len(old) + 1
        BY <3>2
      <3>4. DOMAIN old \subseteq DOMAIN new /\ Len(old) + 1 \in DOMAIN new
        BY <3>2
      <3>5. \A k \in 1..(m + 1) : k \in S => \E j \in DOMAIN new : new[j] = list[k]
        <4> SUFFICES ASSUME NEW k \in 1..(m + 1), k \in S  PROVE \E j \in DOMAIN new : new[j] = list[k]
          OBVIOUS
        <4>1. CASE k = m + 1
          BY <3>2, <3>4, <4>1 DEF e
        <4>2. CASE k \in 1..m
          <5>1. PICK j \in DOMAIN old : old[j] = list[k]
            BY <2>3, <4>2
          <5> QED
            BY <3>2, <3>4, <5>1
        <4> QED
          BY <2>1, <4>1, <4>2
      <3>6. \A j \in DOMAIN new : \E k \in 1..(m + 1) : k \in S /\ new[j] = list[k]
        <4> SUFFICES ASSUME NEW j \in DOMAIN new  PROVE \E k \in 1..(m + 1) : k \in S /\ new[j] = list[k]
          OBVIOUS
        <4>1. CASE j = Len(old) + 1
          <5>1. m + 1 \in 1..(m + 1)
            BY <1>4
          <5> QED
            BY <2>5, <3>2, <4>1, <5>1 DEF e
        <4>2. CASE j \in DOMAIN old
          <5>1. PICK k \in 1..m : k \in S /\ old[j] = list[k]
            BY <2>3, <4>2
          <5> QED
            BY <2>1, <3>2, <4>2, <5>1
        <4> QED
          BY <3>3, <4>1, <4>2
      <3>7. \A i, j \in DOMAIN new : new[i] = new[j] => i = j
        <4>1. \A j \in DOMAIN old : old[j] # e
          BY <2>3, <2>4
        <4> QED
          BY <2>3, <3>2, <3>3, <4>1
      <3>8. Right(m + 1)
        BY <3>2, <3>5, <3>6, <3>7 DEF new
      <3> HIDE DEF Right
      <3> QED
        BY <2>1, <3>8
    <2>6. CASE m + 1 \notin S
      <3>1. new = old
        BY <2>2, <2>6
      <3>2. \A k \in 1..(m + 1) : k \in S => k \in 1..m
        BY <2>1, <2>6
      <3>3. Right(m + 1)
        BY <2>1, <2>3, <3>1, <3>2 DEF new
      <3> HIDE DEF Right
      <3> QED
        BY <2>1, <3>3
    <2> QED
      BY <2>5, <2>6
  <1>5. l \in M
    <2> HIDE DEF M
    <2>1. \A i \in 0..l : i \in M
      BY <1>2, <1>3, <1>4, CountingUp
    <2>2. l \in 0..l
      BY <1>2
    <2> QED
      BY <2>1, <2>2
  <1>6. Right(l)
    BY <1>5
  <1>7. \A k : k \in S \cap DOMAIN list <=> k \in 1..l /\ k \in S
    BY <1>2
  <1> QED
    BY <1>1, <1>6, <1>7

-----------------------------------------------------------------------------
(* The drivers of one shard are those of the reading at the places that    *)
(* are its own.                                                            *)
LEMMA ShardFacts ==
  ASSUME BenchAssumption, WellRecorded, ~Read.failed, NEW s \in Shard
  PROVE  LET all == Read.drivers
             mine == SelectDriverShard(all, s)
         IN  /\ mine \in Seq(DriverTrace)
             /\ IDsApart(mine)
             /\ \A i \in DOMAIN mine : \E k \in DOMAIN all : (k - 1) % ShardCount = s /\ mine[i] = all[k]
             /\ \A k \in DOMAIN all : (k - 1) % ShardCount = s => \E i \in DOMAIN mine : mine[i] = all[k]
  <1> DEFINE all == Read.drivers
             mine == SelectDriverShard(all, s)
             S == {n \in DOMAIN all : (n - 1) % ShardCount = s}
  <1>1. all \in Seq(DriverTrace) /\ IDsApart(all)
    BY ReadCSVRight DEF ReadState, RightRead
  <1>2. mine = SelectAt(all, S)
    BY DEF SelectDriverShard
  <1> HIDE DEF all, mine
  <1>3. NoRepeats(all)
    BY <1>1 DEF IDsApart, NoRepeats
  <1>4. /\ \A k \in S \cap DOMAIN all : \E j \in DOMAIN mine : mine[j] = all[k]
        /\ \A j \in DOMAIN mine : \E k \in S \cap DOMAIN all : mine[j] = all[k]
        /\ \A i, j \in DOMAIN mine : mine[i] = mine[j] => i = j
    <2> HIDE DEF S
    <2> QED
      BY <1>1, <1>2, <1>3, SelectComplete
  <1>5. mine \in Seq(DriverTrace)
    <2>1. mine \in Seq({all[j] : j \in S \cap DOMAIN all})
      <3> HIDE DEF S
      <3> QED
        BY <1>1, <1>2, SelectFacts
    <2>2. {all[j] : j \in S \cap DOMAIN all} \subseteq DriverTrace
      <3> HIDE DEF S
      <3> QED
        BY <1>1
    <2> QED
      BY <2>1, <2>2
  <1>6. IDsApart(mine)
    <2> SUFFICES ASSUME NEW i \in DOMAIN mine, NEW j \in DOMAIN mine, mine[i].id = mine[j].id  PROVE i = j
      BY DEF IDsApart
    <2>1. PICK k \in S \cap DOMAIN all : mine[i] = all[k]
      BY <1>4
    <2>2. PICK m \in S \cap DOMAIN all : mine[j] = all[m]
      BY <1>4
    <2>3. k = m
      BY <1>1, <2>1, <2>2 DEF IDsApart
    <2> QED
      BY <1>4, <2>1, <2>2, <2>3
  <1>7. \A i \in DOMAIN mine : \E k \in DOMAIN all : (k - 1) % ShardCount = s /\ mine[i] = all[k]
    BY <1>4
  <1>8. \A k \in DOMAIN all : (k - 1) % ShardCount = s => \E i \in DOMAIN mine : mine[i] = all[k]
    BY <1>4
  <1> QED
    BY <1>5, <1>6, <1>7, <1>8 DEF all, mine

-----------------------------------------------------------------------------
(* What a generator has written: the target of its place (c, n, i) is the  *)
(* (n+1)-th point of its i-th driver in cycle c.                           *)
EventID(g, c, n, i) == [cycle |-> c, driver |-> g.drivers[i].id, sequence |-> n]

Body(limits, g, c, n, i) ==
  [event_id |-> EventID(g, c, n, i),
   driver_id |-> g.drivers[i].id,
   recorded_at_ms |-> g.drivers[i].points[n + 1] + (limits.timeShift + c * g.span),
   longitude |-> 0, latitude |-> 0, speed_mps |-> 0, heading_deg |-> 0, accuracy_m |-> 0]

(* The places that the loops have passed.                                  *)
Passed(g, c, n, i) ==
  \/ c < g.cycle
  \/ c = g.cycle /\ n < g.sequence
  \/ c = g.cycle /\ n = g.sequence /\ i < g.index

Labelled(limits, g, list) ==
  \A p \in DOMAIN list : \E c, n \in Nat : \E i \in DOMAIN g.drivers :
    Passed(g, c, n, i) /\ Has(g.drivers[i], n) /\ list[p] = Body(limits, g, c, n, i)

Earlier(a, b) == a.cycle < b.cycle \/ (a.cycle = b.cycle /\ a.sequence < b.sequence)

InOrder(list) ==
  \A p, q \in DOMAIN list :
    p < q /\ list[p].driver_id = list[q].driver_id => Earlier(list[p].event_id, list[q].event_id)

NoneLeftOut(g, list) ==
  \A c, n \in Nat : \A i \in DOMAIN g.drivers :
    Passed(g, c, n, i) /\ Has(g.drivers[i], n) => \E p \in DOMAIN list : list[p].event_id = EventID(g, c, n, i)

(* A generator that has its drivers, and one that has not.                 *)
Writer(read, limits, s, g, list) ==
  /\ ~read.failed
  /\ g.drivers = SelectDriverShard(read.drivers, s) /\ g.drivers # <<>>
  /\ g.span = CycleSpan(read) /\ g.span > 0
  /\ g.index <= Len(g.drivers)
  /\ g.pc = "done" => g.cycle = limits.cycles /\ g.sequence = 0 /\ g.index = 1
  /\ Labelled(limits, g, list)
  /\ InOrder(list)
  /\ NoneLeftOut(g, list)

RightGenerator(read, limits, s, g, list) ==
  /\ g = [pc |-> g.pc, drivers |-> g.drivers, span |-> g.span,
          cycle |-> g.cycle, sequence |-> g.sequence, index |-> g.index]
  /\ g.pc \in {"reading", "failed", "writing", "done", "closed"}
  /\ g.cycle \in Nat /\ g.sequence \in Nat /\ g.index \in Nat \ {0}
  /\ list \in Seq(ToSet(list)) /\ Len(list) <= MaxTargets
  /\ g.pc = "reading" => g.cycle = 0 /\ g.sequence = 0 /\ g.index = 1
  /\ g.pc \in {"reading", "failed"} => list = <<>>
  /\ g.pc \in {"writing", "done", "closed"} => Writer(read, limits, s, g, list)

BenchInv ==
  /\ recording \in Recording /\ flags \in Flags
  /\ generators = [s \in Shard |-> generators[s]] /\ targets = [s \in Shard |-> targets[s]]
  /\ \A s \in Shard : RightGenerator(Read, flags, s, generators[s], targets[s])

-----------------------------------------------------------------------------
LEMMA BenchAssumed ==
  ASSUME BenchAssumption, recording \in Recording, flags \in Flags
  PROVE  /\ WellRecorded
         /\ flags.cycles \in Nat /\ flags.timeShift \in Int
         /\ ShardCount \in Nat \ {0} /\ MaxTargets \in Nat
         /\ Shard = 0..(ShardCount - 1)
  <1>1. \A n \in DOMAIN recording : recording[n].time \in Int \cup {Nil}
    BY DEF BenchAssumption
  <1>2. recording \in Seq(ToSet(recording))
    BY DEF BenchAssumption
  <1>3. {flags.cycles, flags.maxDrivers, flags.eventsPerDriver} \subseteq Nat /\ flags.timeShift \in Int
    BY DEF BenchAssumption
  <1> QED
    BY <1>1, <1>2, <1>3 DEF WellRecorded, BenchAssumption, Shard

LEMMA BenchInvInit ==
  ASSUME BenchAssumption, BenchInit
  PROVE  BenchInv
  <1>1. /\ recording \in Recording /\ flags \in Flags
        /\ generators = [s \in Shard |-> generators[s]] /\ targets = [s \in Shard |-> targets[s]]
    BY DEF BenchInit
  <1>2. ASSUME NEW s \in Shard
        PROVE  RightGenerator(Read, flags, s, generators[s], targets[s])
    <2>1. generators[s] = [pc |-> "reading", drivers |-> <<>>, span |-> 0, cycle |-> 0, sequence |-> 0, index |-> 1]
      BY DEF BenchInit
    <2>2. targets[s] = <<>>
      BY DEF BenchInit
    <2> DEFINE empty == targets[s]
    <2>3. empty \in Seq(ToSet(empty)) /\ Len(empty) <= MaxTargets
      BY <2>2 DEF BenchAssumption
    <2> QED
      BY <2>1, <2>2, <2>3 DEF RightGenerator
  <1> QED
    BY <1>1, <1>2 DEF BenchInv

(* Advanced passes the place where the generator is, and no other.         *)
LEMMA AdvancedPasses ==
  ASSUME NEW g, g.cycle \in Nat, g.sequence \in Nat, g.index \in Nat \ {0},
         Len(g.drivers) \in Nat, DOMAIN g.drivers = 1..Len(g.drivers), g.index <= Len(g.drivers),
         g = [pc |-> g.pc, drivers |-> g.drivers, span |-> g.span,
              cycle |-> g.cycle, sequence |-> g.sequence, index |-> g.index]
  PROVE  LET h == Advanced(g)
         IN  /\ h = [pc |-> g.pc, drivers |-> g.drivers, span |-> g.span,
                     cycle |-> g.cycle, sequence |-> h.sequence, index |-> h.index]
             /\ h.sequence \in Nat /\ h.index \in 1..Len(g.drivers)
             /\ \A c, n \in Nat : \A i \in DOMAIN g.drivers :
                  Passed(h, c, n, i) <=> Passed(g, c, n, i) \/ (c = g.cycle /\ n = g.sequence /\ i = g.index)
  <1> DEFINE h == Advanced(g)
  <1>1. /\ h = [pc |-> g.pc, drivers |-> g.drivers, span |-> g.span,
                cycle |-> g.cycle, sequence |-> h.sequence, index |-> h.index]
        /\ g.index < Len(g.drivers) => h.sequence = g.sequence /\ h.index = g.index + 1
        /\ ~(g.index < Len(g.drivers)) => h.sequence = g.sequence + 1 /\ h.index = 1
    BY DEF Advanced
  <1>2. h.cycle = g.cycle
    BY <1>1
  <1> HIDE DEF h
  <1>3. h.sequence \in Nat /\ h.index \in 1..Len(g.drivers)
    BY <1>1
  <1>4. ASSUME NEW c \in Nat, NEW n \in Nat, NEW i \in DOMAIN g.drivers
        PROVE  Passed(h, c, n, i) <=> Passed(g, c, n, i) \/ (c = g.cycle /\ n = g.sequence /\ i = g.index)
    BY <1>1, <1>2, <1>3 DEF Passed
  <1> QED
    BY <1>1, <1>3, <1>4 DEF h

(* A generator that writes keeps the invariant.                            *)
LEMMA WriterWrites ==
  ASSUME BenchAssumption, WellRecorded, NEW s \in Shard, NEW g, NEW list,
         flags.timeShift \in Int, flags.cycles \in Nat,
         RightGenerator(Read, flags, s, g, list), g.pc = "writing",
         Has(g.drivers[g.index], g.sequence), Len(list) < MaxTargets
  PROVE  RightGenerator(Read, flags, s, Advanced(g), Append(list, Target(g)))
  <1> DEFINE h == Advanced(g)
             t == Target(g)
             longer == Append(list, t)
             l == Len(list)
             id == g.drivers[g.index].id
  <1>1. /\ g = [pc |-> g.pc, drivers |-> g.drivers, span |-> g.span,
                cycle |-> g.cycle, sequence |-> g.sequence, index |-> g.index]
        /\ g.cycle \in Nat /\ g.sequence \in Nat /\ g.index \in Nat \ {0}
        /\ list \in Seq(ToSet(list))
        /\ Writer(Read, flags, s, g, list)
    BY DEF RightGenerator
  <1>2. /\ Len(g.drivers) \in Nat /\ DOMAIN g.drivers = 1..Len(g.drivers) /\ g.index <= Len(g.drivers)
        /\ IDsApart(g.drivers)
    <2>1. ~Read.failed /\ g.drivers = SelectDriverShard(Read.drivers, s) /\ g.index <= Len(g.drivers)
      BY <1>1 DEF Writer
    <2>2. g.drivers \in Seq(DriverTrace) /\ IDsApart(g.drivers)
      BY <2>1, ShardFacts
    <2> QED
      BY <2>1, <2>2
  <1>3. /\ h = [pc |-> g.pc, drivers |-> g.drivers, span |-> g.span,
                cycle |-> g.cycle, sequence |-> h.sequence, index |-> h.index]
        /\ h.sequence \in Nat /\ h.index \in 1..Len(g.drivers)
        /\ \A c, n \in Nat : \A i \in DOMAIN g.drivers :
             Passed(h, c, n, i) <=> Passed(g, c, n, i) \/ (c = g.cycle /\ n = g.sequence /\ i = g.index)
    BY <1>1, <1>2, AdvancedPasses
  <1> HIDE DEF h
  <1>4. h.pc = "writing" /\ h.drivers = g.drivers /\ h.span = g.span /\ h.cycle = g.cycle
    BY <1>3
  <1>5. t = Body(flags, g, g.cycle, g.sequence, g.index)
    BY DEF Target, Body, EventID
  <1>6. \A c, n \in Nat : \A i \in DOMAIN g.drivers :
          /\ Body(flags, h, c, n, i) = Body(flags, g, c, n, i)
          /\ EventID(h, c, n, i) = EventID(g, c, n, i)
          /\ Body(flags, g, c, n, i).event_id = EventID(g, c, n, i)
          /\ Body(flags, g, c, n, i).driver_id = g.drivers[i].id
    BY <1>4 DEF Body, EventID
  <1> HIDE DEF t
  <1>7. /\ l \in Nat /\ DOMAIN list = 1..l /\ DOMAIN longer = 1..(l + 1) /\ Len(longer) = l + 1
        /\ longer[l + 1] = t /\ \A p \in 1..l : longer[p] = list[p]
        /\ longer \in Seq(ToSet(longer))
    <2>1. l \in Nat /\ DOMAIN list = 1..l
      BY <1>1
    <2>2. list \in Seq(ToSet(list) \cup {t})
      BY <1>1
    <2>3. /\ longer \in Seq(ToSet(list) \cup {t}) /\ DOMAIN longer = 1..(l + 1) /\ Len(longer) = l + 1
          /\ longer[l + 1] = t /\ \A p \in 1..l : longer[p] = list[p]
      BY <2>2
    <2> HIDE DEF longer
    <2>4. longer \in Seq(ToSet(longer))
      BY <2>3 DEF ToSet
    <2> QED
      BY <2>1, <2>3, <2>4
  <1> HIDE DEF longer
  <1>8. g.index \in DOMAIN g.drivers
    BY <1>1, <1>2
  <1>9. Labelled(flags, h, longer)
    <2> SUFFICES ASSUME NEW p \in 1..(l + 1)
                 PROVE  \E c, n \in Nat : \E i \in DOMAIN h.drivers :
                          Passed(h, c, n, i) /\ Has(h.drivers[i], n) /\ longer[p] = Body(flags, h, c, n, i)
      BY <1>7 DEF Labelled
    <2>1. CASE p = l + 1
      <3>1. longer[p] = Body(flags, h, g.cycle, g.sequence, g.index)
        BY <1>1, <1>5, <1>6, <1>7, <1>8, <2>1
      <3>2. Passed(h, g.cycle, g.sequence, g.index)
        BY <1>1, <1>3, <1>8
      <3> QED
        BY <1>1, <1>4, <1>8, <3>1, <3>2
    <2>2. CASE p \in 1..l
      <3>1. PICK c \in Nat, n \in Nat, i \in DOMAIN g.drivers :
              Passed(g, c, n, i) /\ Has(g.drivers[i], n) /\ list[p] = Body(flags, g, c, n, i)
        BY <1>1, <1>7, <2>2 DEF Writer, Labelled
      <3>2. longer[p] = Body(flags, h, c, n, i) /\ Passed(h, c, n, i)
        BY <1>3, <1>6, <1>7, <2>2, <3>1
      <3> QED
        BY <1>4, <3>1, <3>2
    <2> QED
      BY <1>7, <2>1, <2>2
  <1>10. InOrder(longer)
    <2> SUFFICES ASSUME NEW p \in 1..(l + 1), NEW q \in 1..(l + 1), p < q,
                        longer[p].driver_id = longer[q].driver_id
                 PROVE  Earlier(longer[p].event_id, longer[q].event_id)
      BY <1>7 DEF InOrder
    <2>1. CASE q \in 1..l
      <3>1. p \in 1..l
        BY <1>7, <2>1
      <3>2. InOrder(list)
        BY <1>1 DEF Writer
      <3> QED
        BY <1>7, <2>1, <3>1, <3>2 DEF InOrder
    <2>2. CASE q = l + 1
      <3>1. p \in 1..l
        BY <1>7, <2>2
      <3>2. PICK c \in Nat, n \in Nat, i \in DOMAIN g.drivers :
              Passed(g, c, n, i) /\ Has(g.drivers[i], n) /\ list[p] = Body(flags, g, c, n, i)
        BY <1>1, <1>7, <3>1 DEF Writer, Labelled
      <3>3. g.drivers[i].id = id
        BY <1>1, <1>5, <1>6, <1>7, <1>8, <2>2, <3>1, <3>2
      <3>4. i = g.index
        BY <1>2, <1>8, <3>3 DEF IDsApart
      <3>5. c < g.cycle \/ (c = g.cycle /\ n < g.sequence)
        BY <1>1, <3>2, <3>4 DEF Passed
      <3>6. longer[p].event_id = EventID(g, c, n, i) /\ longer[q].event_id = EventID(g, g.cycle, g.sequence, g.index)
        BY <1>1, <1>5, <1>6, <1>7, <1>8, <2>2, <3>1, <3>2
      <3> QED
        BY <3>5, <3>6 DEF Earlier, EventID
    <2> QED
      BY <1>7, <2>1, <2>2
  <1>11. NoneLeftOut(h, longer)
    <2>1. ASSUME NEW c \in Nat, NEW n \in Nat, NEW i \in DOMAIN g.drivers,
                 Passed(h, c, n, i), Has(g.drivers[i], n)
          PROVE  \E p \in 1..(l + 1) : longer[p].event_id = EventID(h, c, n, i)
      <3>1. CASE Passed(g, c, n, i)
        <4>1. NoneLeftOut(g, list)
          BY <1>1 DEF Writer
        <4>2. \E p \in DOMAIN list : list[p].event_id = EventID(g, c, n, i)
          BY <2>1, <3>1, <4>1 DEF NoneLeftOut
        <4>3. PICK p \in 1..l : list[p].event_id = EventID(g, c, n, i)
          BY <1>7, <4>2
        <4>4. p \in 1..(l + 1) /\ longer[p] = list[p]
          BY <1>7
        <4>5. EventID(h, c, n, i) = EventID(g, c, n, i)
          BY <1>6
        <4> QED
          BY <4>3, <4>4, <4>5
      <3>2. CASE c = g.cycle /\ n = g.sequence /\ i = g.index
        <4>1. longer[l + 1].event_id = EventID(h, c, n, i) /\ l + 1 \in 1..(l + 1)
          BY <1>5, <1>6, <1>7, <3>2
        <4> QED
          BY <4>1
      <3> QED
        BY <1>3, <2>1, <3>1, <3>2
    <2>2. DOMAIN longer = 1..(l + 1) /\ h.drivers = g.drivers
      BY <1>4, <1>7
    <2>3. ASSUME NEW c \in Nat, NEW n \in Nat, NEW i \in DOMAIN h.drivers,
                 Passed(h, c, n, i), Has(h.drivers[i], n)
          PROVE  \E p \in DOMAIN longer : longer[p].event_id = EventID(h, c, n, i)
      <3>1. i \in DOMAIN g.drivers /\ Has(g.drivers[i], n)
        BY <2>2, <2>3
      <3>2. \E p \in 1..(l + 1) : longer[p].event_id = EventID(h, c, n, i)
        BY <2>1, <2>3, <3>1
      <3> QED
        BY <2>2, <3>2
    <2> HIDE DEF l
    <2> QED
      BY <2>3 DEF NoneLeftOut
  <1>12. Writer(Read, flags, s, h, longer)
    <2>1. h.index <= Len(h.drivers)
      BY <1>2, <1>3, <1>4
    <2> QED
      BY <1>1, <1>4, <1>9, <1>10, <1>11, <2>1 DEF Writer
  <1>13. /\ h = [pc |-> h.pc, drivers |-> h.drivers, span |-> h.span,
                 cycle |-> h.cycle, sequence |-> h.sequence, index |-> h.index]
         /\ h.index \in Nat \ {0} /\ Len(longer) <= MaxTargets /\ h.cycle \in Nat
    BY <1>1, <1>2, <1>3, <1>4, <1>7 DEF BenchAssumption
  <1>14. RightGenerator(Read, flags, s, h, longer)
    BY <1>3, <1>4, <1>7, <1>12, <1>13 DEF RightGenerator
  <1> QED
    BY <1>14 DEF h, t, longer

(* A driver without a point at this place: the place is passed, and no     *)
(* target is missing.                                                      *)
LEMMA WriterPasses ==
  ASSUME BenchAssumption, WellRecorded, NEW s \in Shard, NEW g, NEW list,
         RightGenerator(Read, flags, s, g, list), g.pc = "writing",
         ~Has(g.drivers[g.index], g.sequence)
  PROVE  RightGenerator(Read, flags, s, Advanced(g), list)
  <1> DEFINE h == Advanced(g)
  <1>1. /\ g = [pc |-> g.pc, drivers |-> g.drivers, span |-> g.span,
                cycle |-> g.cycle, sequence |-> g.sequence, index |-> g.index]
        /\ g.cycle \in Nat /\ g.sequence \in Nat /\ g.index \in Nat \ {0}
        /\ list \in Seq(ToSet(list)) /\ Len(list) <= MaxTargets
        /\ Writer(Read, flags, s, g, list)
    BY DEF RightGenerator
  <1>2. Len(g.drivers) \in Nat /\ DOMAIN g.drivers = 1..Len(g.drivers) /\ g.index <= Len(g.drivers)
    <2>1. ~Read.failed /\ g.drivers = SelectDriverShard(Read.drivers, s) /\ g.index <= Len(g.drivers)
      BY <1>1 DEF Writer
    <2>2. g.drivers \in Seq(DriverTrace)
      BY <2>1, ShardFacts
    <2> QED
      BY <2>1, <2>2
  <1>3. /\ h = [pc |-> g.pc, drivers |-> g.drivers, span |-> g.span,
                cycle |-> g.cycle, sequence |-> h.sequence, index |-> h.index]
        /\ h.sequence \in Nat /\ h.index \in 1..Len(g.drivers)
        /\ \A c, n \in Nat : \A i \in DOMAIN g.drivers :
             Passed(h, c, n, i) <=> Passed(g, c, n, i) \/ (c = g.cycle /\ n = g.sequence /\ i = g.index)
    BY <1>1, <1>2, AdvancedPasses
  <1> HIDE DEF h
  <1>4. h.pc = "writing" /\ h.drivers = g.drivers /\ h.span = g.span /\ h.cycle = g.cycle
    BY <1>3
  <1>5. \A c, n \in Nat : \A i \in DOMAIN g.drivers :
          /\ Body(flags, h, c, n, i) = Body(flags, g, c, n, i)
          /\ EventID(h, c, n, i) = EventID(g, c, n, i)
    BY <1>4 DEF Body, EventID
  <1>6. Labelled(flags, h, list)
    <2> SUFFICES ASSUME NEW p \in DOMAIN list
                 PROVE  \E c, n \in Nat : \E i \in DOMAIN h.drivers :
                          Passed(h, c, n, i) /\ Has(h.drivers[i], n) /\ list[p] = Body(flags, h, c, n, i)
      BY DEF Labelled
    <2>1. PICK c \in Nat, n \in Nat, i \in DOMAIN g.drivers :
            Passed(g, c, n, i) /\ Has(g.drivers[i], n) /\ list[p] = Body(flags, g, c, n, i)
      BY <1>1 DEF Writer, Labelled
    <2> QED
      BY <1>3, <1>4, <1>5, <2>1
  <1>7. NoneLeftOut(h, list)
    <2>1. ASSUME NEW c \in Nat, NEW n \in Nat, NEW i \in DOMAIN h.drivers,
                 Passed(h, c, n, i), Has(h.drivers[i], n)
          PROVE  \E p \in DOMAIN list : list[p].event_id = EventID(h, c, n, i)
      <3>1. i \in DOMAIN g.drivers /\ Has(g.drivers[i], n)
        BY <1>4, <2>1
      <3>2. Passed(g, c, n, i)
        BY <1>3, <2>1, <3>1
      <3>3. NoneLeftOut(g, list)
        BY <1>1 DEF Writer
      <3>4. \E p \in DOMAIN list : list[p].event_id = EventID(g, c, n, i)
        BY <3>1, <3>2, <3>3 DEF NoneLeftOut
      <3> QED
        BY <1>5, <3>1, <3>4
    <2> QED
      BY <2>1 DEF NoneLeftOut
  <1>8. Writer(Read, flags, s, h, list)
    <2>1. h.index <= Len(h.drivers)
      BY <1>2, <1>3, <1>4
    <2> QED
      BY <1>1, <1>4, <1>6, <1>7, <2>1 DEF Writer
  <1>9. /\ h = [pc |-> h.pc, drivers |-> h.drivers, span |-> h.span,
                cycle |-> h.cycle, sequence |-> h.sequence, index |-> h.index]
        /\ h.index \in Nat \ {0} /\ h.cycle \in Nat
    BY <1>1, <1>2, <1>3, <1>4
  <1>10. RightGenerator(Read, flags, s, h, list)
    BY <1>1, <1>3, <1>4, <1>8, <1>9 DEF RightGenerator
  <1> QED
    BY <1>10 DEF h

(* The end of a cycle: no driver has a point at or after this place.       *)
LEMMA WriterTurns ==
  ASSUME BenchAssumption, WellRecorded, NEW s \in Shard, NEW g, NEW list, NEW h,
         flags.cycles \in Nat,
         RightGenerator(Read, flags, s, g, list), g.pc = "writing", ~EventsLeft(g),
         h = [g EXCEPT !.pc = IF flags.cycles = g.cycle + 1 THEN "done" ELSE @,
                       !.cycle = @ + 1, !.sequence = 0, !.index = 1]
  PROVE  RightGenerator(Read, flags, s, h, list)
  <1>1. /\ g = [pc |-> g.pc, drivers |-> g.drivers, span |-> g.span,
                cycle |-> g.cycle, sequence |-> g.sequence, index |-> g.index]
        /\ g.cycle \in Nat /\ g.sequence \in Nat /\ g.index \in Nat \ {0}
        /\ list \in Seq(ToSet(list)) /\ Len(list) <= MaxTargets
        /\ Writer(Read, flags, s, g, list)
    BY DEF RightGenerator
  <1>2. /\ Len(g.drivers) \in Nat /\ DOMAIN g.drivers = 1..Len(g.drivers) /\ 1 <= Len(g.drivers)
        /\ \A i \in DOMAIN g.drivers : Len(g.drivers[i].points) \in Nat
    <2>1. ~Read.failed /\ g.drivers = SelectDriverShard(Read.drivers, s) /\ g.index <= Len(g.drivers)
      BY <1>1 DEF Writer
    <2>2. g.drivers \in Seq(DriverTrace)
      BY <2>1, ShardFacts
    <2>3. \A i \in DOMAIN g.drivers : g.drivers[i] \in DriverTrace
      BY <2>2
    <2>4. \A i \in DOMAIN g.drivers : g.drivers[i].points \in Seq(Int)
      BY <2>3 DEF DriverTrace
    <2> QED
      BY <1>1, <2>1, <2>2, <2>4
  <1>3. /\ h = [pc |-> h.pc, drivers |-> g.drivers, span |-> g.span,
                cycle |-> g.cycle + 1, sequence |-> 0, index |-> 1]
        /\ h.pc = "writing" \/ (h.pc = "done" /\ flags.cycles = g.cycle + 1)
    BY <1>1
  <1>4. h.drivers = g.drivers /\ h.span = g.span /\ h.cycle = g.cycle + 1 /\ h.sequence = 0 /\ h.index = 1
    BY <1>3
  <1>5. \A i \in DOMAIN g.drivers : Len(g.drivers[i].points) <= g.sequence
    BY <1>1, <1>2 DEF EventsLeft, Has
  <1>6. \A c, n \in Nat : \A i \in DOMAIN g.drivers :
          /\ Body(flags, h, c, n, i) = Body(flags, g, c, n, i)
          /\ EventID(h, c, n, i) = EventID(g, c, n, i)
          /\ Passed(g, c, n, i) => Passed(h, c, n, i)
          /\ Passed(h, c, n, i) /\ Has(g.drivers[i], n) => Passed(g, c, n, i)
    <2> SUFFICES ASSUME NEW c \in Nat, NEW n \in Nat, NEW i \in DOMAIN g.drivers
                 PROVE  /\ Body(flags, h, c, n, i) = Body(flags, g, c, n, i)
                        /\ EventID(h, c, n, i) = EventID(g, c, n, i)
                        /\ Passed(g, c, n, i) => Passed(h, c, n, i)
                        /\ Passed(h, c, n, i) /\ Has(g.drivers[i], n) => Passed(g, c, n, i)
      OBVIOUS
    <2>1. Body(flags, h, c, n, i) = Body(flags, g, c, n, i) /\ EventID(h, c, n, i) = EventID(g, c, n, i)
      BY <1>4 DEF Body, EventID
    <2>2. Passed(g, c, n, i) => Passed(h, c, n, i)
      BY <1>1, <1>4 DEF Passed
    <2>3. i \in Nat \ {0}
      BY <1>2
    <2>4. Passed(h, c, n, i) => c < g.cycle + 1
      BY <1>1, <1>4, <2>3 DEF Passed
    <2>5. Has(g.drivers[i], n) => n < g.sequence
      BY <1>1, <1>2, <1>5 DEF Has
    <2> QED
      BY <1>1, <2>1, <2>2, <2>4, <2>5 DEF Passed
  <1>7. Labelled(flags, h, list)
    <2> SUFFICES ASSUME NEW p \in DOMAIN list
                 PROVE  \E c, n \in Nat : \E i \in DOMAIN h.drivers :
                          Passed(h, c, n, i) /\ Has(h.drivers[i], n) /\ list[p] = Body(flags, h, c, n, i)
      BY DEF Labelled
    <2>1. PICK c \in Nat, n \in Nat, i \in DOMAIN g.drivers :
            Passed(g, c, n, i) /\ Has(g.drivers[i], n) /\ list[p] = Body(flags, g, c, n, i)
      BY <1>1 DEF Writer, Labelled
    <2> QED
      BY <1>4, <1>6, <2>1
  <1>8. NoneLeftOut(h, list)
    <2>1. ASSUME NEW c \in Nat, NEW n \in Nat, NEW i \in DOMAIN h.drivers,
                 Passed(h, c, n, i), Has(h.drivers[i], n)
          PROVE  \E p \in DOMAIN list : list[p].event_id = EventID(h, c, n, i)
      <3>1. i \in DOMAIN g.drivers /\ Has(g.drivers[i], n)
        BY <1>4, <2>1
      <3>2. Passed(g, c, n, i)
        BY <1>6, <2>1, <3>1
      <3>3. NoneLeftOut(g, list)
        BY <1>1 DEF Writer
      <3>4. \E p \in DOMAIN list : list[p].event_id = EventID(g, c, n, i)
        BY <3>1, <3>2, <3>3 DEF NoneLeftOut
      <3> QED
        BY <1>6, <3>1, <3>4
    <2> QED
      BY <2>1 DEF NoneLeftOut
  <1>9. Writer(Read, flags, s, h, list)
    <2>1. h.index <= Len(h.drivers)
      BY <1>2, <1>4
    <2>2. h.pc = "done" => h.cycle = flags.cycles /\ h.sequence = 0 /\ h.index = 1
      BY <1>3, <1>4
    <2> QED
      BY <1>1, <1>4, <1>7, <1>8, <2>1, <2>2 DEF Writer
  <1>10. h = [pc |-> h.pc, drivers |-> h.drivers, span |-> h.span,
              cycle |-> h.cycle, sequence |-> h.sequence, index |-> h.index]
    BY <1>3, <1>4
  <1>11. h.cycle \in Nat /\ h.sequence \in Nat /\ h.index \in Nat \ {0}
    BY <1>1, <1>4
  <1> QED
    BY <1>1, <1>3, <1>9, <1>10, <1>11 DEF RightGenerator

(* A generator before its first cycle has passed no place.                 *)
LEMMA WriterStarts ==
  ASSUME BenchAssumption, WellRecorded, NEW s \in Shard, NEW g, NEW list, NEW h,
         RightGenerator(Read, flags, s, g, list), g.pc = "reading",
         NEW mine, mine = SelectDriverShard(Read.drivers, s), NEW span, span = CycleSpan(Read),
         ~Read.failed, mine # <<>>, span > 0,
         h = [g EXCEPT !.pc = "writing", !.drivers = mine, !.span = span]
  PROVE  RightGenerator(Read, flags, s, h, list)
  <1>1. /\ list = <<>> /\ list \in Seq(ToSet(list)) /\ Len(list) <= MaxTargets
        /\ g = [pc |-> g.pc, drivers |-> g.drivers, span |-> g.span,
                cycle |-> g.cycle, sequence |-> g.sequence, index |-> g.index]
        /\ g.cycle = 0 /\ g.sequence = 0 /\ g.index = 1
    BY DEF RightGenerator
  <1>2. h = [pc |-> "writing", drivers |-> mine, span |-> span,
             cycle |-> g.cycle, sequence |-> g.sequence, index |-> g.index]
    <2>1. g = [pc |-> g.pc, drivers |-> g.drivers, span |-> g.span,
               cycle |-> g.cycle, sequence |-> g.sequence, index |-> g.index]
      BY <1>1
    <2> QED
      BY <2>1
  <1>3. mine \in Seq(DriverTrace)
    BY ShardFacts
  <1>4. 1 <= Len(mine) /\ Len(mine) \in Nat /\ DOMAIN mine = 1..Len(mine)
    BY <1>3
  <1>5. /\ h.drivers = mine /\ h.pc = "writing" /\ h.span = span
        /\ h.cycle = 0 /\ h.sequence = 0 /\ h.index = 1
    BY <1>1, <1>2
  <1>6. \A c, n \in Nat : \A i \in DOMAIN mine : ~Passed(h, c, n, i)
    BY <1>4, <1>5 DEF Passed
  <1>7. DOMAIN list = {}
    BY <1>1
  <1>8. Labelled(flags, h, list) /\ InOrder(list)
    BY <1>7 DEF Labelled, InOrder
  <1>9. NoneLeftOut(h, list)
    BY <1>5, <1>6 DEF NoneLeftOut
  <1>10. Writer(Read, flags, s, h, list)
    BY <1>4, <1>5, <1>8, <1>9 DEF Writer
  <1>11. h = [pc |-> h.pc, drivers |-> h.drivers, span |-> h.span,
              cycle |-> h.cycle, sequence |-> h.sequence, index |-> h.index]
    BY <1>1, <1>2, <1>5
  <1> QED
    BY <1>1, <1>5, <1>10, <1>11 DEF RightGenerator

(* Every action, of whichever shard, keeps the invariant.                  *)
LEMMA BenchInvStep ==
  ASSUME BenchAssumption, BenchInv, [BenchNext]_benchVars
  PROVE  BenchInv'
  <1>1. /\ WellRecorded /\ flags.cycles \in Nat /\ flags.timeShift \in Int
        /\ recording \in Recording /\ flags \in Flags
        /\ generators = [s \in Shard |-> generators[s]] /\ targets = [s \in Shard |-> targets[s]]
        /\ \A s \in Shard : RightGenerator(Read, flags, s, generators[s], targets[s])
    BY BenchAssumed DEF BenchInv
  <1> DEFINE Kept(s) == /\ recording' = recording /\ flags' = flags
                        /\ \E g, list : /\ generators' = [generators EXCEPT ![s] = g]
                                        /\ targets' = [targets EXCEPT ![s] = list]
                                        /\ RightGenerator(Read, flags, s, g, list)
  <1>2. ASSUME NEW s \in Shard, Kept(s)  PROVE BenchInv'
    <2>1. PICK g, list : /\ generators' = [generators EXCEPT ![s] = g]
                         /\ targets' = [targets EXCEPT ![s] = list]
                         /\ RightGenerator(Read, flags, s, g, list)
      BY <1>2
    <2>2. recording' = recording /\ flags' = flags /\ Read' = Read
      BY <1>2 DEF Read
    <2>3. /\ generators' = [r \in Shard |-> generators'[r]] /\ targets' = [r \in Shard |-> targets'[r]]
      BY <1>1, <2>1
    <2>4. \A r \in Shard : RightGenerator(Read, flags, r, generators'[r], targets'[r])
      BY <1>1, <2>1
    <2> QED
      BY <1>1, <2>2, <2>3, <2>4 DEF BenchInv
  <1>3. ASSUME NEW s \in Shard, targets' = targets  PROVE targets' = [targets EXCEPT ![s] = targets[s]]
    BY <1>1, <1>3
  <1>4. ASSUME NEW s \in Shard, ReadFails(s)  PROVE Kept(s)
    <2> DEFINE g == generators[s]  h == [g EXCEPT !.pc = "failed"]
    <2>1. g.pc = "reading" /\ generators' = [generators EXCEPT ![s] = h] /\ UNCHANGED <<recording, flags, targets>>
      BY <1>4 DEF ReadFails, Become
    <2>2. RightGenerator(Read, flags, s, g, targets[s])
      BY <1>1
    <2> HIDE DEF g
    <2>3. g = [pc |-> g.pc, drivers |-> g.drivers, span |-> g.span,
               cycle |-> g.cycle, sequence |-> g.sequence, index |-> g.index]
      BY <2>2 DEF RightGenerator
    <2>4. /\ h.drivers = g.drivers /\ h.span = g.span /\ h.cycle = g.cycle
          /\ h.sequence = g.sequence /\ h.index = g.index /\ h.pc = "failed"
          /\ h = [pc |-> h.pc, drivers |-> h.drivers, span |-> h.span,
                  cycle |-> h.cycle, sequence |-> h.sequence, index |-> h.index]
      BY <2>3
    <2> HIDE DEF h
    <2>5. RightGenerator(Read, flags, s, h, targets[s])
      BY <2>1, <2>2, <2>4 DEF RightGenerator
    <2> QED
      BY <1>3, <2>1, <2>5 DEF h
  <1>5. ASSUME NEW s \in Shard, ReadFile(s)  PROVE Kept(s)
    <2> DEFINE g == generators[s]
               mine == SelectDriverShard(Read.drivers, s)
               span == CycleSpan(Read)
               h == [g EXCEPT !.pc = "writing", !.drivers = mine, !.span = span]
    <2>1. /\ g.pc = "reading" /\ generators' = [generators EXCEPT ![s] = h] /\ UNCHANGED <<recording, flags, targets>>
          /\ ~Read.failed /\ mine # <<>> /\ span > 0
      BY <1>5 DEF ReadFile, Become
    <2>2. RightGenerator(Read, flags, s, g, targets[s])
      BY <1>1
    <2> HIDE DEF g
    <2>3. RightGenerator(Read, flags, s, h, targets[s])
      BY <1>1, <2>1, <2>2, WriterStarts
    <2> QED
      BY <1>3, <2>1, <2>3
  <1>6. ASSUME NEW s \in Shard, WriteTarget(s)  PROVE Kept(s)
    <2> DEFINE g == generators[s]
    <2>1. /\ g.pc = "writing" /\ Has(g.drivers[g.index], g.sequence) /\ Len(targets[s]) < MaxTargets
          /\ targets' = [targets EXCEPT ![s] = Append(targets[s], Target(g))]
          /\ generators' = [generators EXCEPT ![s] = Advanced(g)] /\ UNCHANGED <<recording, flags>>
      BY <1>6 DEF WriteTarget, Become
    <2>2. RightGenerator(Read, flags, s, g, targets[s])
      BY <1>1
    <2> HIDE DEF g
    <2>3. RightGenerator(Read, flags, s, Advanced(g), Append(targets[s], Target(g)))
      BY <1>1, <2>1, <2>2, WriterWrites
    <2> QED
      BY <2>1, <2>3
  <1>7. ASSUME NEW s \in Shard, PassDriver(s)  PROVE Kept(s)
    <2> DEFINE g == generators[s]
    <2>1. /\ g.pc = "writing" /\ ~Has(g.drivers[g.index], g.sequence)
          /\ generators' = [generators EXCEPT ![s] = Advanced(g)] /\ UNCHANGED <<recording, flags, targets>>
      BY <1>7 DEF PassDriver, Become
    <2>2. RightGenerator(Read, flags, s, g, targets[s])
      BY <1>1
    <2> HIDE DEF g
    <2>3. RightGenerator(Read, flags, s, Advanced(g), targets[s])
      BY <1>1, <2>1, <2>2, WriterPasses
    <2> QED
      BY <1>3, <2>1, <2>3
  <1>8. ASSUME NEW s \in Shard, NextCycle(s)  PROVE Kept(s)
    <2> DEFINE g == generators[s]
               h == [g EXCEPT !.pc = IF flags.cycles = g.cycle + 1 THEN "done" ELSE @,
                              !.cycle = @ + 1, !.sequence = 0, !.index = 1]
    <2>1. /\ g.pc = "writing" /\ ~EventsLeft(g)
          /\ generators' = [generators EXCEPT ![s] = h] /\ UNCHANGED <<recording, flags, targets>>
      BY <1>8 DEF NextCycle, Become
    <2>2. RightGenerator(Read, flags, s, g, targets[s])
      BY <1>1
    <2> HIDE DEF g
    <2>3. RightGenerator(Read, flags, s, h, targets[s])
      BY <1>1, <2>1, <2>2, WriterTurns
    <2> QED
      BY <1>3, <2>1, <2>3
  <1>9. ASSUME NEW s \in Shard, BrokenPipe(s)  PROVE Kept(s)
    <2> DEFINE g == generators[s]  h == [g EXCEPT !.pc = "closed"]
    <2>1. g.pc = "writing" /\ generators' = [generators EXCEPT ![s] = h] /\ UNCHANGED <<recording, flags, targets>>
      BY <1>9 DEF BrokenPipe, Become
    <2>2. RightGenerator(Read, flags, s, g, targets[s])
      BY <1>1
    <2> HIDE DEF g
    <2>3. g = [pc |-> g.pc, drivers |-> g.drivers, span |-> g.span,
               cycle |-> g.cycle, sequence |-> g.sequence, index |-> g.index]
      BY <2>2 DEF RightGenerator
    <2>4. /\ h.drivers = g.drivers /\ h.span = g.span /\ h.cycle = g.cycle
          /\ h.sequence = g.sequence /\ h.index = g.index /\ h.pc = "closed"
          /\ h = [pc |-> h.pc, drivers |-> h.drivers, span |-> h.span,
                  cycle |-> h.cycle, sequence |-> h.sequence, index |-> h.index]
      BY <2>3
    <2> HIDE DEF h
    <2>5. Writer(Read, flags, s, g, targets[s])
      BY <2>1, <2>2 DEF RightGenerator
    <2>6. /\ \A c, n, i : Body(flags, h, c, n, i) = Body(flags, g, c, n, i)
          /\ \A c, n, i : EventID(h, c, n, i) = EventID(g, c, n, i)
          /\ \A c, n, i : Passed(h, c, n, i) <=> Passed(g, c, n, i)
      BY <2>4 DEF Body, EventID, Passed
    <2>7. Labelled(flags, h, targets[s])
      BY <2>4, <2>5, <2>6 DEF Writer, Labelled
    <2>8. NoneLeftOut(h, targets[s])
      BY <2>4, <2>5, <2>6 DEF Writer, NoneLeftOut
    <2>9. Writer(Read, flags, s, h, targets[s])
      BY <2>4, <2>5, <2>7, <2>8 DEF Writer
    <2>10. RightGenerator(Read, flags, s, h, targets[s])
      BY <2>1, <2>2, <2>4, <2>9 DEF RightGenerator
    <2> QED
      BY <1>3, <2>1, <2>10 DEF h
  <1>10. ASSUME UNCHANGED benchVars  PROVE BenchInv'
    <2>1. /\ recording' = recording /\ flags' = flags
          /\ generators' = generators /\ targets' = targets
      BY <1>10 DEF benchVars
    <2>2. Read' = Read
      BY <2>1 DEF Read
    <2> QED
      BY <1>1, <2>1, <2>2 DEF BenchInv
  <1> HIDE DEF Kept
  <1> QED
    BY <1>2, <1>4, <1>5, <1>6, <1>7, <1>8, <1>9, <1>10 DEF BenchNext

LEMMA BenchAlways == BenchSpec => []BenchInv
  <1>1. BenchInit => BenchInv
    BY BenchInvInit, BenchAssumption
  <1>2. BenchInv /\ [BenchNext]_benchVars => BenchInv'
    BY BenchInvStep, BenchAssumption
  <1> QED
    BY <1>1, <1>2, PTL DEF BenchSpec

-----------------------------------------------------------------------------
(* Where a target comes from: a point of one of the reading's drivers, and *)
(* one of its shard.                                                       *)
FromReading(t, s, span) ==
  \E c, n \in Nat, k \in DOMAIN Read.drivers :
    /\ (k - 1) % ShardCount = s
    /\ n + 1 \in DOMAIN Read.drivers[k].points
    /\ t.event_id = [cycle |-> c, driver |-> Read.drivers[k].id, sequence |-> n]
    /\ t.driver_id = Read.drivers[k].id
    /\ t.recorded_at_ms = Read.drivers[k].points[n + 1] + (flags.timeShift + c * span)

LEMMA TargetOrigin ==
  ASSUME BenchAssumption, BenchInv, NEW s \in Shard, NEW p \in DOMAIN targets[s]
  PROVE  ~Read.failed /\ CycleSpan(Read) > 0 /\ FromReading(targets[s][p], s, CycleSpan(Read))
  <1> DEFINE g == generators[s]  list == targets[s]  all == Read.drivers
  <1>1. WellRecorded /\ RightGenerator(Read, flags, s, g, list)
    BY BenchAssumed DEF BenchInv
  <1> HIDE DEF g, list
  <1>2. p \in DOMAIN list
    BY DEF list
  <1>3. Writer(Read, flags, s, g, list)
    <2>1. list # <<>>
      BY <1>2
    <2> QED
      BY <1>1, <2>1 DEF RightGenerator
  <1>4. PICK c \in Nat, n \in Nat, i \in DOMAIN g.drivers :
          Has(g.drivers[i], n) /\ list[p] = Body(flags, g, c, n, i)
    BY <1>2, <1>3 DEF Writer, Labelled
  <1>5. ~Read.failed /\ g.drivers = SelectDriverShard(all, s) /\ g.span = CycleSpan(Read) /\ g.span > 0
    BY <1>3 DEF Writer
  <1>6. PICK k \in DOMAIN all : (k - 1) % ShardCount = s /\ g.drivers[i] = all[k]
    BY <1>1, <1>5, ShardFacts
  <1>7. n + 1 \in DOMAIN all[k].points
    <2>1. Read.drivers \in Seq(DriverTrace)
      BY <1>1, ReadCSVRight DEF ReadState
    <2>2. all[k] \in DriverTrace
      BY <2>1
    <2>3. all[k].points \in Seq(Int)
      BY <2>2 DEF DriverTrace
    <2> HIDE DEF all
    <2> QED
      BY <1>4, <1>6, <2>3 DEF Has
  <1>8. /\ list[p].event_id = [cycle |-> c, driver |-> all[k].id, sequence |-> n]
        /\ list[p].driver_id = all[k].id
        /\ list[p].recorded_at_ms = all[k].points[n + 1] + (flags.timeShift + c * CycleSpan(Read))
    BY <1>4, <1>5, <1>6 DEF Body, EventID
  <1> QED
    BY <1>5, <1>6, <1>7, <1>8 DEF FromReading, list, all

(* The targets of one driver are in one shard's output.                    *)
LEMMA OneShard ==
  ASSUME BenchAssumption, BenchInv, NEW s \in Shard, NEW r \in Shard,
         NEW p \in DOMAIN targets[s], NEW q \in DOMAIN targets[r],
         targets[s][p].driver_id = targets[r][q].driver_id
  PROVE  s = r
  <1> DEFINE all == Read.drivers
  <1>1. PICK k \in DOMAIN all : (k - 1) % ShardCount = s /\ targets[s][p].driver_id = all[k].id
    BY TargetOrigin DEF FromReading
  <1>2. PICK m \in DOMAIN all : (m - 1) % ShardCount = r /\ targets[r][q].driver_id = all[m].id
    BY TargetOrigin DEF FromReading
  <1>3. IDsApart(all)
    <2>1. ~Read.failed
      BY TargetOrigin
    <2> QED
      BY <2>1, BenchAssumed, ReadCSVRight DEF BenchInv, RightRead
  <1>4. k = m
    BY <1>1, <1>2, <1>3 DEF IDsApart
  <1> QED
    BY <1>1, <1>2, <1>4

(* Places in terms of the outputs' own places, and the outputs' order.     *)
LEMMA PlacesAre ==
  ASSUME BenchAssumption, BenchInv
  PROVE  /\ \A p \in Places : /\ p[1] \in Shard /\ p[2] \in DOMAIN targets[p[1]] /\ p[2] \in Nat
                              /\ p = <<p[1], p[2]>>
         /\ \A s \in Shard : \A i \in DOMAIN targets[s] : <<s, i>> \in Places
         /\ \A s \in Shard : InOrder(targets[s])
  <1>1. ASSUME NEW s \in Shard
        PROVE  /\ Len(targets[s]) \in Nat /\ DOMAIN targets[s] = 1..Len(targets[s])
               /\ Len(targets[s]) <= MaxTargets
               /\ InOrder(targets[s])
    <2> DEFINE list == targets[s]
    <2>1. RightGenerator(Read, flags, s, generators[s], list)
      BY DEF BenchInv
    <2> HIDE DEF list
    <2>2. list \in Seq(ToSet(list)) /\ Len(list) <= MaxTargets
      BY <2>1 DEF RightGenerator
    <2>3. InOrder(list)
      <3>1. list = <<>> \/ Writer(Read, flags, s, generators[s], list)
        BY <2>1 DEF RightGenerator
      <3>2. list = <<>> => InOrder(list)
        BY DEF InOrder
      <3> QED
        BY <3>1, <3>2 DEF Writer
    <2> QED
      BY <2>2, <2>3 DEF list
  <1>2. MaxTargets \in Nat
    BY DEF BenchAssumption
  <1>3. ASSUME NEW p \in Places
        PROVE  p[1] \in Shard /\ p[2] \in DOMAIN targets[p[1]] /\ p[2] \in Nat /\ p = <<p[1], p[2]>>
    <2>1. p \in Shard \X (1..MaxTargets) /\ p[2] <= Len(targets[p[1]])
      BY DEF Places
    <2>2. p[1] \in Shard /\ p[2] \in 1..MaxTargets /\ p = <<p[1], p[2]>>
      BY <2>1
    <2>3. Len(targets[p[1]]) \in Nat /\ DOMAIN targets[p[1]] = 1..Len(targets[p[1]])
      BY <1>1, <2>2
    <2> QED
      BY <1>2, <2>1, <2>2, <2>3
  <1>4. ASSUME NEW s \in Shard, NEW i \in DOMAIN targets[s]  PROVE <<s, i>> \in Places
    BY <1>1, <1>2 DEF Places
  <1> QED
    BY <1>1, <1>3, <1>4

(* Generators that have all ended by themselves have written every point.  *)
LEMMA AllDoneWritten ==
  ASSUME BenchAssumption, BenchInv, \A s \in Shard : generators[s].pc = "done",
         NEW cycle \in 0..(flags.cycles - 1), NEW d \in DOMAIN Read.drivers,
         NEW n \in DOMAIN Read.drivers[d].points
  PROVE  \E p \in Places :
           TargetAt(p).event_id = [cycle |-> cycle, driver |-> Read.drivers[d].id, sequence |-> n - 1]
  <1> DEFINE s == (d - 1) % ShardCount
             g == generators[s]
             list == targets[s]
             all == Read.drivers
  <1>1. /\ WellRecorded /\ ShardCount \in Nat \ {0} /\ flags.cycles \in Nat
        /\ Shard = 0..(ShardCount - 1)
    BY BenchAssumed DEF BenchInv
  <1>2. all \in Seq(DriverTrace)
    BY <1>1, ReadCSVRight DEF ReadState
  <1>3. d \in Nat \ {0}
    BY <1>2
  <1>4. s \in Shard
    BY <1>1, <1>3
  <1>5. n - 1 \in Nat /\ n - 1 < Len(all[d].points)
    <2>1. all[d] \in DriverTrace
      BY <1>2
    <2>2. all[d].points \in Seq(Int)
      BY <2>1 DEF DriverTrace
    <2>3. n \in DOMAIN all[d].points
      OBVIOUS
    <2> HIDE DEF all
    <2> QED
      BY <2>2, <2>3
  <1> HIDE DEF all, s
  <1>6. RightGenerator(Read, flags, s, g, list) /\ g.pc = "done"
    BY <1>4 DEF BenchInv
  <1>7. /\ ~Read.failed /\ g.drivers = SelectDriverShard(all, s)
        /\ g.cycle = flags.cycles
        /\ NoneLeftOut(g, list)
    BY <1>6 DEF RightGenerator, Writer, all
  <1>8. PICK i \in DOMAIN g.drivers : g.drivers[i] = all[d]
    BY <1>1, <1>4, <1>7, ShardFacts DEF all, s
  <1>9. cycle \in Nat /\ cycle < g.cycle
    BY <1>1, <1>7
  <1>10. Passed(g, cycle, n - 1, i) /\ Has(g.drivers[i], n - 1)
    BY <1>5, <1>8, <1>9 DEF Passed, Has
  <1>11. PICK p \in DOMAIN list : list[p].event_id = EventID(g, cycle, n - 1, i)
    BY <1>5, <1>7, <1>9, <1>10 DEF NoneLeftOut
  <1>12. <<s, p>> \in Places
    BY <1>4, PlacesAre
  <1>13. TargetAt(<<s, p>>).event_id = [cycle |-> cycle, driver |-> all[d].id, sequence |-> n - 1]
    BY <1>8, <1>11 DEF TargetAt, EventID
  <1> QED
    BY <1>12, <1>13 DEF all

(* No two targets of one run have an event ID in common, over all cycles   *)
(* and all shards; and generators that end by themselves have written every *)
(* point that readCSV's limits leave, in each cycle (writeCycle,           *)
(* selectDriverShard).                                                     *)
THEOREM EventsWrittenOnce == BenchSpec => []EachEventOnce
  <1>1. BenchInv => EachEventOnce
    <2> SUFFICES ASSUME BenchInv  PROVE EachEventOnce
      OBVIOUS
    <2> USE BenchAssumption
    <2>1. ASSUME NEW p \in Places, NEW q \in Places, p # q,
                 TargetAt(p).event_id = TargetAt(q).event_id
          PROVE  FALSE
      <3> DEFINE s == p[1]  i == p[2]  r == q[1]  j == q[2]
      <3>1. /\ s \in Shard /\ i \in DOMAIN targets[s] /\ i \in Nat /\ p = <<s, i>>
            /\ r \in Shard /\ j \in DOMAIN targets[r] /\ j \in Nat /\ q = <<r, j>>
            /\ InOrder(targets[s])
        BY PlacesAre
      <3>2. targets[s][i].event_id = targets[r][j].event_id
        BY <2>1 DEF TargetAt
      <3> HIDE DEF s, i, r, j
      <3>3. /\ targets[s][i].driver_id = targets[s][i].event_id.driver
            /\ targets[s][i].event_id.cycle \in Nat /\ targets[s][i].event_id.sequence \in Nat
        <4>1. FromReading(targets[s][i], s, CycleSpan(Read))
          BY <3>1, TargetOrigin
        <4> QED
          BY <4>1 DEF FromReading
      <3>4. targets[r][j].driver_id = targets[r][j].event_id.driver
        <4>1. FromReading(targets[r][j], r, CycleSpan(Read))
          BY <3>1, TargetOrigin
        <4> QED
          BY <4>1 DEF FromReading
      <3>5. targets[s][i].driver_id = targets[r][j].driver_id
        BY <3>2, <3>3, <3>4
      <3>6. s = r
        BY <3>1, <3>5, OneShard
      <3>7. i < j \/ j < i
        BY <2>1, <3>1, <3>6
      <3>8. Earlier(targets[s][i].event_id, targets[s][j].event_id)
            \/ Earlier(targets[s][j].event_id, targets[s][i].event_id)
        BY <3>1, <3>5, <3>6, <3>7 DEF InOrder
      <3> QED
        BY <3>2, <3>3, <3>6, <3>8 DEF Earlier
    <2>2. (\A s \in Shard : generators[s].pc = "done") =>
            \A cycle \in 0..(flags.cycles - 1), d \in DOMAIN Read.drivers :
              \A n \in DOMAIN Read.drivers[d].points :
                \E p \in Places :
                  TargetAt(p).event_id = [cycle |-> cycle, driver |-> Read.drivers[d].id, sequence |-> n - 1]
      BY AllDoneWritten
    <2> QED
      BY <2>1, <2>2 DEF EachEventOnce
  <1> QED
    BY <1>1, BenchAlways, PTL

(* A later cycle begins after every point of the cycles before it.         *)
LEMMA LaterCycle ==
  ASSUME NEW c \in Nat, NEW d \in Nat, c < d, NEW a \in Int, NEW b \in Int,
         NEW low \in Int, NEW high \in Int, a <= high, low <= b,
         NEW span \in Int, span > 0, span > high - low
  PROVE  a + c * span < b + d * span
  <1> DEFINE e == d - c - 1
  <1>1. e \in Nat /\ d = c + 1 + e
    OBVIOUS
  <1> HIDE DEF e
  <1>2. d * span = c * span + span + e * span
    BY <1>1
  <1>3. e * span >= 0 /\ e * span \in Int /\ c * span \in Int
    BY <1>1
  <1> DEFINE x == c * span  y == e * span  z == d * span
  <1> HIDE DEF x, y, z
  <1>4. x \in Int /\ y \in Int /\ y >= 0 /\ z = x + span + y
    BY <1>2, <1>3 DEF x, y, z
  <1>5. a + x < b + z
    BY <1>4
  <1> QED
    BY <1>5 DEF x, z

(* A driver's targets are in one shard's output, and their times rise, in  *)
(* all cycles, if they rise in the file and none in it is zero (readCSV,   *)
(* selectDriverShard, writeCycle).                                         *)
THEOREM TimesRiseInAllCycles == BenchSpec => []DriverTimesRise
  <1>1. BenchInv => DriverTimesRise
    <2> SUFFICES ASSUME BenchInv, NEW p \in Places, NEW q \in Places,
                        TargetAt(p).driver_id = TargetAt(q).driver_id
                 PROVE  /\ p[1] = q[1]
                        /\ p[2] < q[2] /\ NoneAtZero /\ RisesInFile(TargetAt(p).driver_id)
                             => TargetAt(p).recorded_at_ms < TargetAt(q).recorded_at_ms
      BY DEF DriverTimesRise
    <2> USE BenchAssumption
    <2> DEFINE s == p[1]  i == p[2]  j == q[2]
               all == Read.drivers  t == targets[s][i]  u == targets[s][j]
               span == CycleSpan(Read)
    <2>1. p[1] = q[1]
      BY PlacesAre, OneShard DEF TargetAt
    <2>2. /\ TargetAt(p) = t /\ TargetAt(q) = u /\ t.driver_id = u.driver_id
          /\ s \in Shard /\ i \in DOMAIN targets[s] /\ j \in DOMAIN targets[s]
          /\ InOrder(targets[s])
      BY <2>1, PlacesAre DEF TargetAt
    <2>3. ASSUME i < j, NoneAtZero, RisesInFile(t.driver_id)
          PROVE  t.recorded_at_ms < u.recorded_at_ms
      <3>1. ~Read.failed /\ span > 0 /\ FromReading(t, s, span) /\ FromReading(u, s, span)
        BY <2>2, TargetOrigin
      <3> HIDE DEF t, u, span
      <3>2. PICK c \in Nat, n \in Nat, k \in DOMAIN all :
              /\ n + 1 \in DOMAIN all[k].points
              /\ t.event_id = [cycle |-> c, driver |-> all[k].id, sequence |-> n]
              /\ t.driver_id = all[k].id
              /\ t.recorded_at_ms = all[k].points[n + 1] + (flags.timeShift + c * span)
        BY <3>1 DEF FromReading
      <3>3. PICK d \in Nat, m \in Nat, h \in DOMAIN all :
              /\ m + 1 \in DOMAIN all[h].points
              /\ u.event_id = [cycle |-> d, driver |-> all[h].id, sequence |-> m]
              /\ u.driver_id = all[h].id
              /\ u.recorded_at_ms = all[h].points[m + 1] + (flags.timeShift + d * span)
        BY <3>1 DEF FromReading
      <3>4. Earlier(t.event_id, u.event_id)
        BY <2>2, <2>3 DEF InOrder, t, u
      <3>5. c < d \/ (c = d /\ n < m)
        BY <3>2, <3>3, <3>4 DEF Earlier
      <3>6. /\ WellRecorded /\ flags.timeShift \in Int
            /\ Read \in ReadState /\ RightRead(Read, Len(recording))
        BY <3>1, BenchAssumed, ReadCSVRight DEF BenchInv
      <3>7. k = h
        BY <2>2, <3>2, <3>3, <3>6 DEF RightRead, IDsApart
      <3> DEFINE a == all[k].points[n + 1]  b == all[k].points[m + 1]
      <3>8. a \in Int /\ b \in Int /\ Read.minimum \in Int /\ Read.maximum \in Int
        <4>1. all \in Seq(DriverTrace) /\ Read.minimum \in Int /\ Read.maximum \in Int
          BY <3>6 DEF ReadState
        <4>2. all[k] \in DriverTrace
          BY <4>1
        <4>3. all[k].points \in Seq(Int)
          BY <4>2 DEF DriverTrace
        <4> HIDE DEF all
        <4> QED
          BY <3>2, <3>3, <3>7, <4>1, <4>3
      <3>9. Read.minimum <= b /\ a <= Read.maximum
        BY <2>3, <3>2, <3>3, <3>6, <3>7 DEF RightRead, PointsBounded
      <3>10. span \in Int /\ span > Read.maximum - Read.minimum
        BY <3>8 DEF span, CycleSpan, MinuteMs
      <3>11. n < m => a < b
        <4>1. \A x, y \in DOMAIN all[k].points : x < y => all[k].points[x] < all[k].points[y]
          <5>1. PointsRise(all) /\ RisesInFile(all[k].id)
            BY <2>3, <3>2, <3>6 DEF RightRead
          <5> HIDE DEF all
          <5> QED
            BY <5>1 DEF PointsRise
        <4>2. n + 1 \in DOMAIN all[k].points /\ m + 1 \in DOMAIN all[k].points
          BY <3>2, <3>3, <3>7
        <4> QED
          BY <4>1, <4>2
      <3> HIDE DEF a, b, all
      <3>12. t.recorded_at_ms = a + (flags.timeShift + c * span) /\ u.recorded_at_ms = b + (flags.timeShift + d * span)
        BY <3>2, <3>3, <3>7 DEF a, b
      <3>13. a + c * span < b + d * span
        <4>1. CASE c < d
          BY <3>1, <3>8, <3>9, <3>10, <4>1, LaterCycle
        <4>2. CASE c = d /\ n < m
          <5> DEFINE x == c * span
          <5>1. x \in Int /\ x = d * span
            BY <3>10, <4>2
          <5> HIDE DEF x
          <5>2. a + x < b + x
            BY <3>8, <3>11, <4>2, <5>1
          <5> QED
            BY <5>1, <5>2 DEF x
        <4> QED
          BY <3>5, <4>1, <4>2
      <3> DEFINE x == c * span  y == d * span
      <3>14. x \in Int /\ y \in Int
        BY <3>10
      <3> HIDE DEF x, y
      <3>15. a + (flags.timeShift + x) < b + (flags.timeShift + y)
        <4>1. a + x < b + y
          BY <3>13 DEF x, y
        <4> QED
          BY <3>6, <3>8, <3>14, <4>1
      <3> QED
        BY <3>12, <3>15 DEF x, y
    <2> QED
      BY <2>1, <2>2, <2>3
  <1> QED
    BY <1>1, BenchAlways, PTL
=============================================================================
