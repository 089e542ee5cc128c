-------------------------- MODULE EdgeReaderProofs --------------------------
(***************************************************************************)
(* Proofs about the reader of EdgeReader and the importer that writes      *)
(* under it, for any collections, files, command lines and page size.      *)
(***************************************************************************)
EXTENDS EdgeReader, WellFoundedInduction, FiniteSetTheorems, TLAPS

ObjectID == [version : {GraphVersion}, edge : Int, forward : BOOLEAN]

(* No object is listed twice, and SCAN's listing is in the order of ids.   *)
IDsDistinct(list) == \A i, j \in DOMAIN list : list[i].id = list[j].id => i = j

InOrder(list) == \A i, j \in DOMAIN list : i < j => Rank(list[i]) <= Rank(list[j])

WellListed(list) ==
  /\ list \in Seq(Object)
  /\ IDsDistinct(list)
  /\ op = "all" => InOrder(list)

Lists(list, id) == \E i \in DOMAIN list : list[i].id = id

-----------------------------------------------------------------------------
(* A set of natural numbers has a least one.                               *)
LEMMA LeastOne ==
  ASSUME NEW S \in SUBSET Nat, S # {}
  PROVE  \E m \in S : \A n \in S : m <= n
  <1> DEFINE R == OpToRel(<, Nat)
  <1>1. PICK x \in S : \A y \in S : ~(<<y, x>> \in R)
    <2> HIDE DEF R
    <2>1. IsWellFoundedOn(R, Nat)
      BY NatLessThanWellFounded DEF R
    <2> QED
      BY <2>1, WFMin
  <1>2. ASSUME NEW y \in S  PROVE x <= y
    <2>1. ~(<<y, x>> \in {p \in Nat \X Nat : p[1] < p[2]})
      BY <1>1 DEF OpToRel
    <2>2. x \in Nat /\ y \in Nat
      OBVIOUS
    <2>3. ~(y < x)
      BY <2>1, <2>2
    <2> QED
      BY <2>2, <2>3
  <1> QED
    BY <1>2

(* Induction up to n over a set in place of a predicate.                   *)
LEMMA CountingUp ==
  ASSUME NEW n \in Nat, NEW S, 0 \in S, \A i \in 0..n : i < n /\ i \in S => i + 1 \in S
  PROVE  \A i \in 0..n : i \in S
  <1> DEFINE Bad == {i \in 0..n : i \notin S}
  <1>1. ASSUME Bad # {}  PROVE FALSE
    <2>1. PICK m \in Bad : \A i \in Bad : m <= i
      <3>1. Bad \in SUBSET Nat
        OBVIOUS
      <3> HIDE DEF Bad
      <3> QED
        BY <1>1, <3>1, LeastOne
    <2>2. m \in 1..n
      OBVIOUS
    <2>3. m - 1 \in 0..n /\ m - 1 < n /\ m - 1 \notin Bad
      BY <2>1, <2>2
    <2>4. m - 1 \in S
      BY <2>3
    <2>5. (m - 1) + 1 \in S
      BY <2>3, <2>4
    <2> QED
      BY <2>2, <2>5
  <1> QED
    BY <1>1

(* The least of two numbers is the lesser of them.                         *)
LEMMA LesserOfTwo ==
  ASSUME NEW a \in Int, NEW b \in Int
  PROVE  Min({a, b}) = IF a <= b THEN a ELSE b
  <1> DEFINE m == IF a <= b THEN a ELSE b
  <1>1. m \in {a, b} /\ \A y \in {a, b} : m <= y
    OBVIOUS
  <1>2. \A x \in {a, b} : (\A y \in {a, b} : x <= y) => x = m
    OBVIOUS
  <1> HIDE DEF m
  <1>3. Min({a, b}) \in {a, b} /\ \A y \in {a, b} : Min({a, b}) <= y
    BY <1>1 DEF Min
  <1>4. Min({a, b}) = m
    BY <1>2, <1>3
  <1> QED
    BY <1>4 DEF m

(* Objects of one rank have one id.                                        *)
LEMMA RankTellsIDs ==
  ASSUME NEW x \in Object, NEW y \in Object, Rank(x) = Rank(y)
  PROVE  x.id = y.id
  <1>1. /\ x.id \in [version : {GraphVersion}, edge : Int, forward : BOOLEAN]
        /\ y.id \in [version : {GraphVersion}, edge : Int, forward : BOOLEAN]
    BY DEF Object
  <1>2. /\ x.id.forward => Rank(x) = 2 * x.id.edge
        /\ ~x.id.forward => Rank(x) = 2 * x.id.edge + 1
        /\ y.id.forward => Rank(y) = 2 * y.id.edge
        /\ ~y.id.forward => Rank(y) = 2 * y.id.edge + 1
    BY <1>1 DEF Rank
  <1>3. x.id.edge \in Int /\ y.id.edge \in Int /\ x.id.forward \in BOOLEAN /\ y.id.forward \in BOOLEAN
    BY <1>1
  <1>4. x.id.edge = y.id.edge /\ x.id.forward = y.id.forward
    <2> DEFINE e == x.id.edge  d == y.id.edge
    <2>1. e \in Int /\ d \in Int
      BY <1>3
    <2>2. \/ x.id.forward /\ y.id.forward /\ 2 * e = 2 * d
          \/ ~x.id.forward /\ ~y.id.forward /\ 2 * e + 1 = 2 * d + 1
          \/ x.id.forward /\ ~y.id.forward /\ 2 * e = 2 * d + 1
          \/ ~x.id.forward /\ y.id.forward /\ 2 * e + 1 = 2 * d
      BY <1>2, <1>3
    <2> HIDE DEF e, d
    <2>3. 2 * e # 2 * d + 1 /\ 2 * e + 1 # 2 * d
      BY <2>1
    <2>4. (2 * e = 2 * d \/ 2 * e + 1 = 2 * d + 1) => e = d
      BY <2>1
    <2>5. e = d /\ ((x.id.forward /\ y.id.forward) \/ (~x.id.forward /\ ~y.id.forward))
      BY <2>2, <2>3, <2>4
    <2> QED
      BY <1>3, <2>5 DEF e, d
  <1> QED
    BY <1>1, <1>4

(* What SCAN sorts by is a number.                                         *)
LEMMA RankTyped ==
  ASSUME NEW x \in Object
  PROVE  Rank(x) \in Int
  BY DEF Rank, Object

(* The objects of a list are finitely many.                                *)
LEMMA ListedFinite ==
  ASSUME NEW S, NEW list \in Seq(S)
  PROVE  IsFiniteSet(ToSet(list))
  <1> DEFINE f == [i \in 1..Len(list) |-> list[i]]
  <1>1. f \in Surjection(1..Len(list), ToSet(list))
    BY DEF Surjection, ToSet
  <1>2. IsFiniteSet(1..Len(list))
    BY FS_Interval
  <1> HIDE DEF f
  <1> QED
    BY <1>1, <1>2, FS_Surjection

(* Listing a set of objects lists all of them, each once.                  *)
LEMMA ListingFacts ==
  ASSUME NEW objects \in SUBSET Object, IsFiniteSet(objects),
         \A x, y \in objects : x.id = y.id => x = y,
         NEW list \in Listings(objects)
  PROVE  WellListed(list) /\ ToSet(list) = objects
  <1> DEFINE n == Cardinality(objects)
  <1>1. n \in Nat
    BY FS_CardinalityType
  <1>2. /\ list \in [1..n -> objects]
        /\ \A i, j \in 1..n : i # j => list[i] # list[j]
        /\ op = "all" => InOrder(list)
    BY DEF Listings, SetToSeqs, InOrder
  <1>3. ToSet(list) = objects
    <2>1. list \in Injection(1..n, objects)
      BY <1>2 DEF Injection, IsInjective
    <2>2. Cardinality(1..n) = n
      BY <1>1, FS_Interval
    <2>3. list \in Surjection(1..n, objects)
      <3> HIDE DEF n
      <3> QED
        BY <2>1, <2>2, FS_Injection DEF n
    <2> QED
      BY <1>2, <2>3 DEF Surjection, ToSet
  <1>4. IDsDistinct(list)
    BY <1>2 DEF IDsDistinct
  <1>5. list \in Seq(Object)
    <2> HIDE DEF n
    <2> QED
      BY <1>1, <1>2
  <1> QED
    BY <1>2, <1>3, <1>4, <1>5 DEF WellListed

(* A list of objects goes on being well listed when one is SET: its id is  *)
(* added to those of the collection, if it was not there.                  *)
LEMMA StoreFacts ==
  ASSUME NEW c \in DOMAIN listing, WellListed(listing[c]), NEW o \in Object, Store(c, o)
  PROVE  /\ DOMAIN listing' = DOMAIN listing
         /\ \A d \in DOMAIN listing : d # c => listing'[d] = listing[d]
         /\ WellListed(listing'[c])
         /\ \A id : Lists(listing'[c], id) <=> Lists(listing[c], id) \/ id = o.id
  <1> DEFINE others == {x \in ToSet(listing[c]) : x.id # o.id}
             now == others \cup {o}
  <1>1. PICK order \in Listings(now) : listing' = [listing EXCEPT ![c] = order]
    BY DEF Store
  <1>2. ToSet(listing[c]) \subseteq Object
    BY DEF WellListed, ToSet
  <1>3. \A x, y \in ToSet(listing[c]) : x.id = y.id => x = y
    BY DEF WellListed, ToSet, IDsDistinct
  <1>4. IsFiniteSet(now)
    <2>1. IsFiniteSet(ToSet(listing[c]))
      BY ListedFinite DEF WellListed
    <2>2. others \subseteq ToSet(listing[c])
      OBVIOUS
    <2>3. IsFiniteSet(others)
      BY <2>1, <2>2, FS_Subset
    <2> HIDE DEF others
    <2> QED
      BY <2>3, FS_AddElement
  <1>5. now \in SUBSET Object
    BY <1>2
  <1>6. \A x, y \in now : x.id = y.id => x = y
    BY <1>3
  <1>7. WellListed(order) /\ ToSet(order) = now
    <2> HIDE DEF now
    <2> QED
      BY <1>1, <1>4, <1>5, <1>6, ListingFacts
  <1>8. ASSUME NEW id
        PROVE  Lists(order, id) <=> Lists(listing[c], id) \/ id = o.id
    <2>1. Lists(order, id) <=> \E x \in now : x.id = id
      <3> HIDE DEF now
      <3> QED
        BY <1>7 DEF Lists, ToSet
    <2>2. Lists(listing[c], id) <=> \E x \in ToSet(listing[c]) : x.id = id
      BY DEF Lists, ToSet
    <2> QED
      BY <2>1, <2>2
  <1> HIDE DEF now, others
  <1>9. listing'[c] = order
    BY <1>1
  <1> QED
    BY <1>1, <1>7, <1>8, <1>9

(* In SCAN's order an object never moves forward when others are added:    *)
(* those before it stay before it.                                         *)
LEMMA PlaceOnlyGrows ==
  ASSUME NEW L, NEW M, WellListed(L), WellListed(M), InOrder(L), InOrder(M),
         \A id : Lists(L, id) => Lists(M, id),
         NEW i \in DOMAIN L, NEW j \in DOMAIN M, L[i].id = M[j].id
  PROVE  i <= j
  <1>1. /\ L \in Seq(Object) /\ M \in Seq(Object)
        /\ DOMAIN L = 1..Len(L) /\ DOMAIN M = 1..Len(M)
        /\ Len(L) \in Nat /\ Len(M) \in Nat
    BY DEF WellListed
  <1> DEFINE f == [k \in 1..i |-> CHOOSE m \in DOMAIN M : M[m].id = L[k].id]
  <1>2. ASSUME NEW k \in 1..i
        PROVE  f[k] \in 1..j /\ M[f[k]].id = L[k].id
    <2>1. k \in DOMAIN L /\ k <= i
      BY <1>1
    <2>2. \E m \in DOMAIN M : M[m].id = L[k].id
      BY <2>1 DEF Lists
    <2>3. f[k] \in DOMAIN M /\ M[f[k]].id = L[k].id
      BY <2>2
    <2> HIDE DEF f
    <2>4. M[f[k]] \in Object /\ M[j] \in Object /\ L[k] \in Object /\ L[i] \in Object
      BY <1>1, <2>1, <2>3
    <2>5. Rank(L[k]) <= Rank(L[i])
      <3>1. CASE k = i
        <4>1. Rank(L[i]) \in Int
          BY <2>4, RankTyped
        <4>2. Rank(L[k]) = Rank(L[i])
          BY <3>1
        <4> QED
          BY <4>1, <4>2
      <3>2. CASE k < i
        BY <3>2, <2>1 DEF InOrder
      <3>3. k = i \/ k < i
        BY <1>1
      <3> QED
        BY <3>1, <3>2, <3>3
    <2>6. Rank(L[i]) = Rank(M[j]) /\ Rank(L[k]) = Rank(M[f[k]])
      BY <2>3 DEF Rank
    <2>7. ASSUME j < f[k]  PROVE FALSE
      <3>1. Rank(M[j]) <= Rank(M[f[k]])
        BY <2>3, <2>7 DEF InOrder
      <3>2. Rank(M[j]) \in Int /\ Rank(M[f[k]]) \in Int
        BY <2>4, RankTyped
      <3>3. Rank(M[j]) = Rank(M[f[k]])
        BY <2>5, <2>6, <3>1, <3>2
      <3>4. M[j].id = M[f[k]].id
        BY <2>4, <3>3, RankTellsIDs
      <3>5. j = f[k]
        BY <2>3, <3>4 DEF WellListed, IDsDistinct
      <3> QED
        BY <1>1, <2>7, <3>5
    <2> QED
      BY <1>1, <2>3, <2>7
  <1>3. \A k, m \in 1..i : f[k] = f[m] => k = m
    <2> SUFFICES ASSUME NEW k \in 1..i, NEW m \in 1..i, f[k] = f[m]  PROVE k = m
      OBVIOUS
    <2>1. L[k].id = L[m].id
      BY <1>2
    <2>2. k \in DOMAIN L /\ m \in DOMAIN L
      BY <1>1
    <2> HIDE DEF f
    <2> QED
      BY <2>1, <2>2 DEF WellListed, IDsDistinct
  <1>4. f \in Injection(1..i, 1..j)
    <2>1. f \in [1..i -> 1..j]
      BY <1>2
    <2> QED
      BY <1>3, <2>1 DEF Injection, IsInjective
  <1>5. /\ IsFiniteSet(1..j)
        /\ Cardinality(1..i) = i /\ Cardinality(1..j) = j
    BY <1>1, FS_Interval
  <1> HIDE DEF f
  <1> QED
    BY <1>4, <1>5, FS_Injection

-----------------------------------------------------------------------------
(* The part of a list after place a, up to place b.                        *)
LEMMA PartOfList ==
  ASSUME NEW S, NEW s \in Seq(S), NEW a \in Nat, NEW b \in Nat, b <= Len(s),
         NEW part, part = SubSeq(s, a + 1, b)
  PROVE  /\ part \in Seq(S)
         /\ a + 1 <= b => Len(part) = b - a
         /\ ~(a + 1 <= b) => Len(part) = 0
         /\ DOMAIN part = 1..Len(part)
         /\ \A i \in 1..Len(part) : part[i] = s[a + i]
  <1>1. CASE a + 1 <= b
    BY <1>1
  <1>2. CASE ~(a + 1 <= b)
    BY <1>2
  <1> QED
    BY <1>1, <1>2

(* A page is the part of the listing from the cursor on.                   *)
LEMMA PageFacts ==
  ASSUME WellListed(Here), cursor \in Nat
  PROVE  /\ Page \in Seq(Object)
         /\ IDsDistinct(Page)
         /\ Len(Page) <= PageSize
         /\ \A i \in DOMAIN Page : cursor + i \in DOMAIN Here /\ Page[i] = Here[cursor + i]
         /\ \A i \in DOMAIN Here : cursor < i /\ i <= cursor + PageSize
              => i - cursor \in DOMAIN Page /\ Page[i - cursor] = Here[i]
  <1> DEFINE n == Len(Here)
             last == Min({cursor + PageSize, n})
  <1>1. /\ PageSize \in Nat /\ PageSize > 0
        /\ Here \in Seq(Object) /\ n \in Nat /\ DOMAIN Here = 1..n
    BY ReaderAssumption DEF WellListed
  <1>2. Page = SubSeq(Here, cursor + 1, last)
    BY DEF Page
  <1>3. last = IF cursor + PageSize <= n THEN cursor + PageSize ELSE n
    <2> HIDE DEF n
    <2> QED
      BY <1>1, LesserOfTwo
  <1> HIDE DEF last
  <1>4. /\ last \in Nat /\ last <= n /\ last <= cursor + PageSize
        /\ last = n \/ last = cursor + PageSize
    <2> HIDE DEF n
    <2>1. CASE cursor + PageSize <= n
      BY <1>1, <1>3, <2>1
    <2>2. CASE ~(cursor + PageSize <= n)
      BY <1>1, <1>3, <2>2
    <2> QED
      BY <2>1, <2>2
  <1>5. /\ Page \in Seq(Object)
        /\ cursor + 1 <= last => Len(Page) = last - cursor
        /\ ~(cursor + 1 <= last) => Len(Page) = 0
        /\ DOMAIN Page = 1..Len(Page)
        /\ \A i \in 1..Len(Page) : Page[i] = Here[cursor + i]
    <2>1. Here \in Seq(Object) /\ cursor \in Nat /\ last \in Nat /\ last <= Len(Here)
      BY <1>1, <1>4
    <2> HIDE DEF n, Object
    <2> QED
      BY <1>2, <2>1, PartOfList
  <1> DEFINE p == Len(Page)
  <1>a. p \in Nat /\ p <= PageSize /\ p <= last /\ (p = last - cursor \/ (p = 0 /\ last <= cursor))
    <2>1. Len(Page) \in Nat
      BY <1>5
    <2> HIDE DEF n
    <2> QED
      BY <1>1, <1>4, <1>5, <2>1
  <1>b. \A i \in DOMAIN Page : cursor + i \in DOMAIN Here /\ Page[i] = Here[cursor + i]
    <2> SUFFICES ASSUME NEW i \in DOMAIN Page  PROVE cursor + i \in DOMAIN Here /\ Page[i] = Here[cursor + i]
      OBVIOUS
    <2>1. i \in 1..p /\ Page[i] = Here[cursor + i]
      BY <1>5
    <2> HIDE DEF n, p
    <2>2. cursor + i \in 1..n
      BY <1>1, <1>4, <1>a, <2>1
    <2> QED
      BY <1>1, <2>1, <2>2
  <1>6. IDsDistinct(Page)
    <2> SUFFICES ASSUME NEW i \in DOMAIN Page, NEW j \in DOMAIN Page, Page[i].id = Page[j].id
                 PROVE  i = j
      BY DEF IDsDistinct
    <2>1. cursor + i = cursor + j
      BY <1>b DEF WellListed, IDsDistinct
    <2>2. i \in Nat /\ j \in Nat
      BY <1>5
    <2> QED
      BY <2>1, <2>2
  <1>7. Len(Page) <= PageSize
    BY <1>a
  <1>8. \A i \in DOMAIN Here : cursor < i /\ i <= cursor + PageSize
          => i - cursor \in DOMAIN Page /\ Page[i - cursor] = Here[i]
    <2> SUFFICES ASSUME NEW i \in 1..n, cursor < i, i <= cursor + PageSize
                 PROVE  i - cursor \in DOMAIN Page /\ Page[i - cursor] = Here[i]
      BY <1>1
    <2>1. i - cursor \in 1..p
      <3> HIDE DEF n, p
      <3> QED
        BY <1>1, <1>4, <1>a
    <2>2. i - cursor \in DOMAIN Page
      BY <1>5, <2>1
    <2>3. cursor + (i - cursor) = i
      BY <1>1
    <2> QED
      BY <1>b, <2>2, <2>3
  <1> QED
    BY <1>5, <1>b, <1>6, <1>7, <1>8

-----------------------------------------------------------------------------
(* The list that the n-th turn of Fresh's loop leaves, if fresh lists what *)
(* the turns before it left.                                               *)
Kept(page, fresh, n) ==
  IF n = 0 THEN <<>>
  ELSE IF page[n].id \in FeatureIDs THEN fresh[n - 1] ELSE Append(fresh[n - 1], page[n])

(* Fresh's recursive function is there, whatever the page.                 *)
LEMMA FreshExists ==
  ASSUME NEW page \in Seq(Object)
  PROVE  \E fresh : fresh = [n \in 0..Len(page) |-> Kept(page, fresh, n)]
  <1> DEFINE Upto(m) == \E f : f = [n \in 0..m |-> Kept(page, f, n)]
             S == {m \in 0..Len(page) : Upto(m)}
  <1>1. 0 \in S
    <2> DEFINE f == [n \in 0..0 |-> <<>>]
    <2>1. f = [n \in 0..0 |-> Kept(page, f, n)]
      BY DEF Kept
    <2> HIDE DEF f
    <2>2. Upto(0)
      BY <2>1
    <2>3. 0 \in 0..Len(page)
      OBVIOUS
    <2> QED
      BY <2>2, <2>3
  <1>2. ASSUME NEW m \in 0..Len(page), m < Len(page), m \in S
        PROVE  m + 1 \in S
    <2>1. PICK f : f = [n \in 0..m |-> Kept(page, f, n)]
      BY <1>2
    <2> DEFINE g == [n \in 0..(m + 1) |-> IF n <= m THEN f[n] ELSE Kept(page, f, n)]
    <2>2. ASSUME NEW n \in 0..(m + 1)  PROVE g[n] = Kept(page, g, n)
      <3>1. CASE n <= m
        <4>1. n \in 0..m /\ (n # 0 => n - 1 \in 0..m)
          BY <3>1
        <4>2. g[n] = f[n]
          BY <3>1, <4>1
        <4>3. n # 0 => g[n - 1] = f[n - 1]
          BY <4>1
        <4>4. f[n] = Kept(page, f, n)
          BY <2>1, <4>1
        <4>5. Kept(page, f, n) = Kept(page, g, n)
          <5> HIDE DEF g
          <5> QED
            BY <4>3 DEF Kept
        <4> HIDE DEF g
        <4> QED
          BY <4>2, <4>4, <4>5
      <3>2. CASE n = m + 1
        <4>1. n # 0 /\ n - 1 = m /\ m \in 0..m /\ ~(n <= m)
          BY <3>2
        <4>2. g[n] = Kept(page, f, n)
          BY <4>1
        <4>3. g[m] = f[m]
          BY <4>1
        <4>4. Kept(page, f, n) = Kept(page, g, n)
          <5> HIDE DEF g
          <5> QED
            BY <4>1, <4>3 DEF Kept
        <4> HIDE DEF g
        <4> QED
          BY <4>2, <4>4
      <3>3. n <= m \/ n = m + 1
        BY <1>2
      <3> QED
        BY <3>1, <3>2, <3>3
    <2>3. DOMAIN g = 0..(m + 1) /\ g = [n \in DOMAIN g |-> g[n]]
      OBVIOUS
    <2>4. g = [n \in 0..(m + 1) |-> Kept(page, g, n)]
      <3> HIDE DEF g
      <3> QED
        BY <2>2, <2>3
    <2> HIDE DEF g
    <2>5. Upto(m + 1)
      BY <2>4
    <2>6. m + 1 \in 0..Len(page)
      BY <1>2
    <2> QED
      BY <2>5, <2>6
  <1>3. Len(page) \in Nat /\ Len(page) \in 0..Len(page)
    OBVIOUS
  <1>4. Len(page) \in S
    <2> HIDE DEF S
    <2> QED
      BY <1>1, <1>2, <1>3, CountingUp
  <1> QED
    BY <1>4

(* What a page adds to the features: those of its objects whose ids are    *)
(* new, each once.                                                         *)
LEMMA FreshFacts ==
  ASSUME NEW page \in Seq(Object), IDsDistinct(page)
  PROVE  /\ Fresh(page) \in Seq(Object)
         /\ IDsDistinct(Fresh(page))
         /\ \A id : Lists(Fresh(page), id) <=> Lists(page, id) /\ id \notin FeatureIDs
         /\ Len(Fresh(page)) <= Len(page)
  <1> DEFINE Loop(f) == f = [n \in 0..Len(page) |-> Kept(page, f, n)]
             F == CHOOSE f : Loop(f)
  <1>1. Fresh(page) = F[Len(page)]
    BY DEF Fresh, Kept
  <1>2. Loop(F)
    <2>1. \E f : Loop(f)
      BY FreshExists
    <2> HIDE DEF Loop
    <2> QED
      BY <2>1
  <1>3. \A n \in 0..Len(page) : F[n] = Kept(page, F, n)
    <2> HIDE DEF F
    <2> QED
      BY <1>2
  <1> HIDE DEF F, Loop
  <1> DEFINE Right(n) ==
               /\ F[n] \in Seq(Object)
               /\ IDsDistinct(F[n])
               /\ \A id : Lists(F[n], id) <=> id \notin FeatureIDs /\ \E i \in 1..n : page[i].id = id
               /\ Len(F[n]) <= n
             S == {n \in 0..Len(page) : Right(n)}
  <1>4. 0 \in S
    <2>1. 0 \in 0..Len(page)
      OBVIOUS
    <2>2. F[0] = <<>>
      BY <1>3, <2>1 DEF Kept
    <2>3. F[0] \in Seq(Object) /\ DOMAIN F[0] = {} /\ Len(F[0]) = 0
      BY <2>2
    <2>4. IDsDistinct(F[0])
      BY <2>3 DEF IDsDistinct
    <2>5. \A id : ~Lists(F[0], id)
      BY <2>3 DEF Lists
    <2>6. Right(0)
      BY <2>3, <2>4, <2>5
    <2> QED
      BY <2>1, <2>6
  <1>5. ASSUME NEW m \in 0..Len(page), m < Len(page), m \in S
        PROVE  m + 1 \in S
    <2> DEFINE n == m + 1
    <2>1. n \in 1..Len(page) /\ n \in 0..Len(page) /\ n # 0 /\ n - 1 = m
      BY <1>5
    <2>2. page[n] \in Object
      BY <2>1
    <2>3. Right(m)
      BY <1>5
    <2>4. F[n] = IF page[n].id \in FeatureIDs THEN F[m] ELSE Append(F[m], page[n])
      BY <1>3, <2>1 DEF Kept
    <2>5. \A i \in 1..n : i \in 1..m \/ i = n
      BY <2>1
    <2>6. 1..m \subseteq 1..n /\ n \in 1..n
      BY <2>1
    <2>7. \A i \in 1..m : page[i].id # page[n].id
      BY <2>1 DEF IDsDistinct
    <2>8. CASE page[n].id \in FeatureIDs
      <3>1. F[n] = F[m]
        BY <2>4, <2>8
      <3>2. Len(F[n]) <= n
        BY <2>1, <2>3, <3>1
      <3>3. \A id : Lists(F[n], id) <=> id \notin FeatureIDs /\ \E i \in 1..n : page[i].id = id
        <4> HIDE DEF n
        <4> QED
          BY <2>3, <2>5, <2>6, <2>8, <3>1
      <3> HIDE DEF n
      <3> QED
        BY <2>1, <2>3, <3>1, <3>2, <3>3
    <2>9. CASE page[n].id \notin FeatureIDs
      <3> HIDE DEF n
      <3> DEFINE old == F[m]
                 new == F[n]
      <3>1. new = Append(old, page[n]) /\ old \in Seq(Object)
        BY <2>3, <2>4, <2>9
      <3> HIDE DEF old, new
      <3>2. /\ new \in Seq(Object)
            /\ Len(new) = Len(old) + 1
            /\ DOMAIN new = 1..(Len(old) + 1) /\ DOMAIN old = 1..Len(old)
            /\ \A i \in 1..Len(old) : new[i] = old[i]
            /\ new[Len(old) + 1] = page[n]
        BY <2>2, <3>1
      <3>3. Len(old) \in Nat
        BY <3>1
      <3>4. \A i \in DOMAIN new : i \in DOMAIN old \/ i = Len(old) + 1
        BY <3>2, <3>3
      <3>5. DOMAIN old \subseteq DOMAIN new /\ Len(old) + 1 \in DOMAIN new
        BY <3>2, <3>3
      <3>6. \A id : Lists(new, id) <=> Lists(old, id) \/ id = page[n].id
        BY <3>2, <3>4, <3>5 DEF Lists
      <3>7. ~Lists(old, page[n].id)
        BY <2>3, <2>7 DEF old
      <3>8. IDsDistinct(new)
        <4>1. IDsDistinct(old)
          BY <2>3 DEF old
        <4> QED
          BY <3>2, <3>4, <3>7, <4>1 DEF IDsDistinct, Lists
      <3>9. \A id : Lists(new, id) <=> id \notin FeatureIDs /\ \E i \in 1..n : page[i].id = id
        <4>1. \A id : Lists(old, id) <=> id \notin FeatureIDs /\ \E i \in 1..m : page[i].id = id
          BY <2>3 DEF old
        <4> QED
          BY <2>5, <2>6, <2>9, <3>6, <4>1
      <3>10. Len(new) <= n
        <4>1. Len(old) <= m
          BY <2>3 DEF old
        <4> QED
          BY <2>1, <3>2, <3>3, <4>1 DEF n
      <3> QED
        BY <2>1, <3>2, <3>8, <3>9, <3>10 DEF new
    <2> QED
      BY <2>8, <2>9
  <1>6. Len(page) \in Nat /\ Len(page) \in 0..Len(page) /\ DOMAIN page = 1..Len(page)
    OBVIOUS
  <1>7. Len(page) \in S
    <2> HIDE DEF S
    <2> QED
      BY <1>4, <1>5, <1>6, CountingUp
  <1>8. Right(Len(page))
    BY <1>7
  <1> QED
    BY <1>1, <1>6, <1>8 DEF Lists

-----------------------------------------------------------------------------
Run == [job : Job, pc : {"running", "succeeded", "failed"}, read : Nat, processed : Nat]

ImporterTypeOK ==
  /\ file \in Seq(ToSet(file))
  /\ run \in Run /\ run.read <= Len(file)
  /\ runs \in Nat
  /\ \A w \in written : Accepted(w.item)

ReaderTypeOK ==
  /\ op \in {"all", "bounds", "distance"}
  /\ DOMAIN listing = ToSet(Collections)
  /\ \A c \in DOMAIN listing : WellListed(listing[c])
  /\ pc \in {"reading", "done", "failed"}
  /\ place \in 1..Len(Collections)
  /\ cursor \in Nat
  /\ features \in Seq(Object)
  /\ op = "bounds" => Len(features) <= Limit
  /\ truncated \in BOOLEAN

TypeOK == ImporterTypeOK /\ ReaderTypeOK

(* A feature that the importer lets pass: its id names an object, and if   *)
(* an int64 holds its edge id, so does its traversal key, wrapped around.  *)
LEMMA AcceptedFacts ==
  ASSUME NEW line, Accepted(line)
  PROVE  /\ ObjectOf(line) \in Object
         /\ ObjectOf(line).id = line.id
         /\ line.id \in ObjectID
         /\ line.properties.traversal_key \in NonNegativeInteger
         /\ Int64(line.properties.traversal_key) = KeyOf(line.id.edge, line.id.forward)
         /\ line.properties.edge_id < TwoTo63 => line.id.edge \in 0..(TwoTo63 - 1)
  <1> DEFINE edge == Property(line, "edge_id")
             forward == Property(line, "forward")
             metres == Property(line, "distance_m")
             key == Property(line, "traversal_key")
  <1>1. /\ edge \in NonNegativeInteger /\ key \in NonNegativeInteger
        /\ forward \in BOOLEAN /\ metres \in Nat
        /\ line.id = [version |-> GraphVersion, edge |-> Int64(edge), forward |-> forward]
        /\ Int64(key) = KeyOf(Int64(edge), forward)
    BY DEF Accepted, ValidateFeature, IdentityFits
  <1>2. /\ edge \in Nat /\ key \in Nat
        /\ Int64(edge) \in Int
        /\ edge < TwoTo63 => Int64(edge) \in 0..(TwoTo63 - 1)
    BY <1>1, ImporterAssumption DEF NonNegativeInteger, Int64
  <1>3. Nil \notin Nat /\ Nil \notin BOOLEAN
    BY ImporterAssumption
  <1>4. /\ edge = line.properties.edge_id
        /\ metres = line.properties.distance_m
        /\ key = line.properties.traversal_key
    BY <1>1, <1>2, <1>3 DEF Property
  <1> HIDE DEF edge, forward, metres, key
  <1>5. line.id \in ObjectID /\ line.id.edge = Int64(edge) /\ line.id.forward = forward
    BY <1>1, <1>2 DEF ObjectID
  <1>6. ObjectOf(line) = [id |-> line.id, edge |-> edge, metres |-> metres]
    BY <1>4 DEF ObjectOf
  <1>7. ObjectOf(line) \in Object
    BY <1>1, <1>2, <1>5, <1>6 DEF Object, ObjectID
  <1> QED
    BY <1>1, <1>2, <1>4, <1>5, <1>6, <1>7

(* Wrapped around or not, the key of an edge id that an int64 holds tells  *)
(* the edge and its direction.                                             *)
LEMMA KeyTellsIDs ==
  ASSUME NEW d \in 0..(TwoTo63 - 1), NEW e \in 0..(TwoTo63 - 1),
         NEW f \in BOOLEAN, NEW g \in BOOLEAN, KeyOf(d, f) = KeyOf(e, g)
  PROVE  d = e /\ f = g
  <1> DEFINE m == 2 * d + IF f THEN 0 ELSE 1
             n == 2 * e + IF g THEN 0 ELSE 1
  <1>1. TwoTo63 \in Nat
    BY ImporterAssumption
  <1>2. m \in 0..(2 * TwoTo63 - 1) /\ n \in 0..(2 * TwoTo63 - 1)
    BY <1>1
  <1>3. Wrap(m) = Wrap(n)
    BY DEF KeyOf
  <1>4. m = n
    <2> HIDE DEF m, n
    <2> QED
      BY <1>1, <1>2, <1>3 DEF Wrap
  <1> QED
    BY <1>1, <1>4

(* How an importer's run goes on.                                          *)
LEMMA ProcessedFacts ==
  ASSUME run \in Run, Processed
  PROVE  /\ run' \in Run
         /\ run'.job = run.job
         /\ run'.read = run.read + 1 /\ run'.processed = run.processed + 1
         /\ run.job.limit \in 1..(run.processed + 1) => run'.pc = "succeeded"
         /\ run.job.limit \notin 1..(run.processed + 1) => run'.pc = run.pc
  <1> DEFINE outcome == IF run.job.limit \in 1..(run.processed + 1) THEN "succeeded" ELSE run.pc
  <1>1. outcome \in {"running", "succeeded", "failed"}
    BY DEF Run
  <1>2. run' = [run EXCEPT !.read = run.read + 1, !.processed = run.processed + 1, !.pc = outcome]
    BY DEF Processed
  <1>3. run.read + 1 \in Nat /\ run.processed + 1 \in Nat
    BY DEF Run
  <1> HIDE DEF outcome
  <1>4. /\ run' \in Run
        /\ run'.job = run.job
        /\ run'.read = run.read + 1 /\ run'.processed = run.processed + 1
        /\ run'.pc = outcome
    BY <1>1, <1>2, <1>3 DEF Run
  <1> QED
    BY <1>4 DEF outcome

(* A run that ends keeps its job and its counts.                           *)
LEMMA EndsFacts ==
  ASSUME run \in Run, NEW outcome \in {"succeeded", "failed"}, Ends(outcome)
  PROVE  /\ run' \in Run
         /\ run'.job = run.job /\ run'.read = run.read /\ run'.processed = run.processed
         /\ run'.pc = outcome
  BY DEF Run, Ends

(* A run that begins has read nothing.                                     *)
LEMMA BeginFacts ==
  ASSUME NEW job \in Job
  PROVE  /\ Begin(job) \in Run
         /\ Begin(job).job = job /\ Begin(job).pc = "running"
         /\ Begin(job).read = 0 /\ Begin(job).processed = 0
  BY DEF Run, Begin

(* A step of the importer either SETs the line it is at, once it is        *)
(* accepted, or leaves the collections alone.                              *)
Sets ==
  /\ HasLine /\ ~run.job.dryRun /\ Accepted(NextLine)
  /\ Store(run.job.collection, ObjectOf(NextLine))
  /\ Writes

(* The importer's steps are SETs or leave the collections alone, and no    *)
(* step changes the reader or the file.                                    *)
LEMMA ImportCases ==
  ASSUME Import
  PROVE  /\ UNCHANGED readerVars
         /\ Sets \/ UNCHANGED <<listing, written>>
         /\ file' = file
  BY DEF Import, Sets, RefuseLine, CheckLine, EndOfFile, SetFails, SetErrs, SetLine, RunAgain

(* Whatever the importer does, no id leaves a collection, and the          *)
(* collections stay well listed.                                           *)
LEMMA ListingsGrow ==
  ASSUME TypeOK, Import
  PROVE  /\ DOMAIN listing' = DOMAIN listing
         /\ \A c \in DOMAIN listing : \A id : Lists(listing[c], id) => Lists(listing'[c], id)
         /\ \A c \in DOMAIN listing : WellListed(listing'[c])
         /\ (\A c \in DOMAIN listing : WellListed(listing[c]))'
         /\ Sets => Lists(listing'[run.job.collection], NextLine.id)
  <1>1. op' = op
    BY ImportCases DEF readerVars
  <1>2. CASE Sets
    <2> DEFINE c == run.job.collection
               o == ObjectOf(NextLine)
    <2>1. c \in DOMAIN listing /\ WellListed(listing[c])
      BY ReaderAssumption DEF TypeOK, ImporterTypeOK, ReaderTypeOK, Run
    <2>2. o \in Object /\ o.id = NextLine.id
      BY <1>2, AcceptedFacts DEF Sets
    <2>3. Store(c, o)
      BY <1>2 DEF Sets
    <2> HIDE DEF c, o
    <2>4. /\ DOMAIN listing' = DOMAIN listing
          /\ \A d \in DOMAIN listing : d # c => listing'[d] = listing[d]
          /\ WellListed(listing'[c])
          /\ \A id : Lists(listing'[c], id) <=> Lists(listing[c], id) \/ id = o.id
      BY <2>1, <2>2, <2>3, StoreFacts
    <2>5. ASSUME NEW d \in DOMAIN listing
          PROVE  /\ WellListed(listing'[d])
                 /\ \A id : Lists(listing[d], id) => Lists(listing'[d], id)
      <3>1. WellListed(listing[d])
        BY DEF TypeOK, ReaderTypeOK
      <3> QED
        BY <2>4, <3>1
    <2>6. Lists(listing'[c], NextLine.id)
      BY <2>2, <2>4
    <2>7. (\A d \in DOMAIN listing : WellListed(listing[d]))'
      BY <1>1, <2>4, <2>5 DEF WellListed
    <2> QED
      BY <2>4, <2>5, <2>6, <2>7 DEF c
  <1>3. CASE ~Sets
    <2>1. listing' = listing
      BY <1>3, ImportCases
    <2>2. \A c \in DOMAIN listing : WellListed(listing[c])
      BY DEF TypeOK, ReaderTypeOK
    <2>3. (\A c \in DOMAIN listing : WellListed(listing[c]))'
      BY <1>1, <2>1, <2>2 DEF WellListed
    <2> QED
      BY <1>3, <2>1, <2>2, <2>3
  <1> QED
    BY <1>2, <1>3

-----------------------------------------------------------------------------
(* What a list has when another is appended to it.                         *)
LEMMA AppendedFacts ==
  ASSUME NEW old \in Seq(Object), NEW added \in Seq(Object)
  PROVE  /\ old \o added \in Seq(Object)
         /\ Len(old \o added) = Len(old) + Len(added)
         /\ \A id : Lists(old \o added, id) <=> Lists(old, id) \/ Lists(added, id)
         /\ IDsDistinct(old) /\ IDsDistinct(added) /\ (\A id : Lists(added, id) => ~Lists(old, id))
              => IDsDistinct(old \o added)
  <1> DEFINE new == old \o added
             n == Len(old)
             m == Len(added)
  <1>1. /\ n \in Nat /\ m \in Nat
        /\ DOMAIN old = 1..n /\ DOMAIN added = 1..m
    OBVIOUS
  <1>2. /\ new \in Seq(Object)
        /\ Len(new) = n + m /\ DOMAIN new = 1..(n + m)
        /\ \A i \in 1..n : new[i] = old[i]
        /\ \A i \in 1..m : new[n + i] = added[i]
    OBVIOUS
  <1> HIDE DEF new, n, m
  <1>3. \A i \in 1..n : i \in DOMAIN new
    BY <1>1, <1>2
  <1>4. \A i \in 1..m : n + i \in DOMAIN new
    BY <1>1, <1>2
  <1>5. \A i \in DOMAIN new : i \in 1..n \/ (i - n \in 1..m /\ n + (i - n) = i)
    BY <1>1, <1>2
  <1>6. \A i \in DOMAIN new : i \in 1..n \/ (\E k \in 1..m : i = n + k /\ new[i] = added[k])
    BY <1>2, <1>5
  <1>7. \A id : Lists(new, id) <=> Lists(old, id) \/ Lists(added, id)
    <2> SUFFICES ASSUME NEW id
                 PROVE  Lists(new, id) <=> Lists(old, id) \/ Lists(added, id)
      OBVIOUS
    <2>1. Lists(old, id) => Lists(new, id)
      BY <1>1, <1>2, <1>3 DEF Lists
    <2>2. Lists(added, id) => Lists(new, id)
      BY <1>1, <1>2, <1>4 DEF Lists
    <2>3. ASSUME NEW i \in DOMAIN new, new[i].id = id
          PROVE  Lists(old, id) \/ Lists(added, id)
      <3>1. CASE i \in 1..n
        BY <1>1, <1>2, <2>3, <3>1 DEF Lists
      <3>2. CASE \E k \in 1..m : i = n + k /\ new[i] = added[k]
        BY <1>1, <2>3, <3>2 DEF Lists
      <3> QED
        BY <1>6, <3>1, <3>2
    <2> QED
      BY <2>1, <2>2, <2>3 DEF Lists
  <1>8. ASSUME IDsDistinct(old), IDsDistinct(added), \A id : Lists(added, id) => ~Lists(old, id),
               NEW i \in DOMAIN new, NEW j \in DOMAIN new, new[i].id = new[j].id
        PROVE  i = j
    <2>1. CASE i \in 1..n /\ j \in 1..n
      BY <1>1, <1>2, <1>8, <2>1 DEF IDsDistinct
    <2>2. ASSUME i \in 1..n, NEW k \in 1..m, new[j] = added[k]  PROVE FALSE
      <3>1. Lists(old, new[i].id)
        BY <1>1, <1>2, <2>2 DEF Lists
      <3>2. Lists(added, new[j].id)
        BY <1>1, <2>2 DEF Lists
      <3> QED
        BY <1>8, <3>1, <3>2
    <2>3. ASSUME j \in 1..n, NEW k \in 1..m, new[i] = added[k]  PROVE FALSE
      <3>1. Lists(old, new[j].id)
        BY <1>1, <1>2, <2>3 DEF Lists
      <3>2. Lists(added, new[i].id)
        BY <1>1, <2>3 DEF Lists
      <3> QED
        BY <1>8, <3>1, <3>2
    <2>4. ASSUME NEW k \in 1..m, i = n + k, new[i] = added[k], NEW l \in 1..m, j = n + l, new[j] = added[l]
          PROVE  i = j
      <3>1. k = l
        BY <1>1, <1>8, <2>4 DEF IDsDistinct
      <3> QED
        BY <2>4, <3>1
    <2> QED
      BY <1>6, <2>1, <2>2, <2>3, <2>4
  <1>9. IDsDistinct(old) /\ IDsDistinct(added) /\ (\A id : Lists(added, id) => ~Lists(old, id))
          => IDsDistinct(new)
    BY <1>8 DEF IDsDistinct
  <1> QED
    BY <1>2, <1>7, <1>9 DEF new, n, m

(* A page is read: fresh objects are added to the features, and unless     *)
(* that ends the read as truncated, all of the fresh ones are.             *)
LEMMA ReadPageFacts ==
  ASSUME TypeOK, ReadPage
  PROVE  /\ pc = "reading"
         /\ UNCHANGED <<op, atStart, listing, importerVars>>
         /\ \E added \in Seq(Object) :
              /\ features' = features \o added
              /\ op = "bounds" => Len(features) + Len(added) <= Limit
              /\ IDsDistinct(added)
              /\ \A id : Lists(added, id) => Lists(Page, id) /\ ~Lists(features, id)
              /\ \/ Truncate
                 \/ /\ \A id : Lists(Page, id) => Lists(features, id) \/ Lists(added, id)
                    /\ \E next \in NextCursor : Proceed(next)
                    /\ UNCHANGED truncated
  <1> DEFINE fresh == Fresh(Page)
             Good(added) ==
               /\ features' = features \o added
               /\ op = "bounds" => Len(features) + Len(added) <= Limit
               /\ IDsDistinct(added)
               /\ \A id : Lists(added, id) => Lists(Page, id) /\ ~Lists(features, id)
               /\ \/ Truncate
                  \/ /\ \A id : Lists(Page, id) => Lists(features, id) \/ Lists(added, id)
                     /\ \E next \in NextCursor : Proceed(next)
                     /\ UNCHANGED truncated
  <1>1. pc = "reading" /\ UNCHANGED <<op, atStart, listing, importerVars>>
    BY DEF ReadPage, ScanPage, BoundsPage, DistancePage, Reading
  <1>2. WellListed(Here) /\ cursor \in Nat
    BY ReaderAssumption DEF TypeOK, ReaderTypeOK, Here, ToSet
  <1>3. Page \in Seq(Object) /\ IDsDistinct(Page)
    BY <1>2, PageFacts
  <1>4. \A id : id \in FeatureIDs <=> Lists(features, id)
    BY DEF FeatureIDs, Lists
  <1>5. /\ fresh \in Seq(Object)
        /\ IDsDistinct(fresh)
        /\ \A id : Lists(fresh, id) <=> Lists(Page, id) /\ ~Lists(features, id)
    BY <1>3, <1>4, FreshFacts
  <1> HIDE DEF fresh
  <1>6. CASE ScanPage
    <2>1. op = "all" /\ features' = features \o fresh
      BY <1>6 DEF ScanPage, Reading, fresh
    <2>2. (\E next \in NextCursor : Proceed(next)) /\ UNCHANGED truncated
      BY <1>6 DEF ScanPage
    <2>3. Good(fresh)
      BY <1>5, <2>1, <2>2
    <2> QED
      BY <1>1, <1>5, <2>3
  <1>7. CASE DistancePage
    <2>1. op = "distance" /\ features' = features \o fresh
      BY <1>7 DEF DistancePage, Reading, fresh
    <2>2. Truncate \/ ((\E next \in NextCursor : Proceed(next)) /\ UNCHANGED truncated)
      BY <1>7 DEF DistancePage
    <2>3. Good(fresh)
      BY <1>5, <2>1, <2>2
    <2> QED
      BY <1>1, <1>5, <2>3
  <1>8. CASE BoundsPage
    <2> DEFINE last == Min({Len(fresh), RoomLeft})
               added == SubSeq(fresh, 1, last)
    <2>1. /\ op = "bounds" /\ features' = features \o added
          /\ IF Len(fresh) > RoomLeft
             THEN Truncate
             ELSE (\E next \in NextCursor : Proceed(next)) /\ UNCHANGED truncated
      BY <1>8 DEF BoundsPage, Reading, Overflows, fresh
    <2>2. Len(fresh) \in Nat /\ RoomLeft \in Nat /\ Len(features) \in Nat /\ Limit \in Nat
          /\ Len(features) + RoomLeft = Limit
      <3>1. Limit \in Nat /\ Len(features) \in Nat /\ Len(features) <= Limit
        BY <2>1, ReaderAssumption DEF TypeOK, ReaderTypeOK
      <3> QED
        BY <1>5, <3>1 DEF RoomLeft
    <2>3. last = IF Len(fresh) <= RoomLeft THEN Len(fresh) ELSE RoomLeft
      BY <2>2, LesserOfTwo
    <2> HIDE DEF last
    <2>4. last \in Nat /\ last <= Len(fresh) /\ last <= RoomLeft
      BY <2>2, <2>3
    <2>5. /\ added \in Seq(Object)
          /\ Len(added) = last
          /\ DOMAIN added = 1..last
          /\ \A i \in 1..last : added[i] = fresh[i]
      BY <1>5, <2>4
    <2> HIDE DEF added
    <2>6. 1..last \subseteq DOMAIN fresh
      BY <1>5, <2>4
    <2>7. IDsDistinct(added)
      BY <1>5, <2>5, <2>6 DEF IDsDistinct
    <2>8. \A id : Lists(added, id) => Lists(fresh, id)
      BY <2>5, <2>6 DEF Lists
    <2>9. ~(Len(fresh) > RoomLeft) => \A id : Lists(fresh, id) => Lists(added, id)
      <3> SUFFICES ASSUME ~(Len(fresh) > RoomLeft)
                   PROVE  \A id : Lists(fresh, id) => Lists(added, id)
        OBVIOUS
      <3>1. last = Len(fresh)
        BY <2>2, <2>3
      <3>2. DOMAIN fresh = DOMAIN added
        BY <1>5, <2>5, <3>1
      <3> QED
        BY <2>5, <3>2 DEF Lists
    <2>10. Len(features) + Len(added) <= Limit
      BY <2>2, <2>4, <2>5
    <2>11. Good(added)
      BY <1>5, <2>1, <2>7, <2>8, <2>9, <2>10
    <2> QED
      BY <1>1, <2>5, <2>11
  <1> QED
    BY <1>6, <1>7, <1>8 DEF ReadPage

(* Where the read goes on after a page.                                    *)
LEMMA ProceedFacts ==
  ASSUME TypeOK, NEW next \in NextCursor, Proceed(next)
  PROVE  \/ /\ next = cursor + PageSize
            /\ cursor' = cursor + PageSize /\ pc' = pc /\ place' = place
         \/ /\ Len(Here) <= cursor + PageSize
            /\ place < Len(Collections)
            /\ place' = place + 1 /\ cursor' = 0 /\ pc' = pc
         \/ /\ Len(Here) <= cursor + PageSize
            /\ place = Len(Collections)
            /\ pc' = "done" /\ place' = place /\ cursor' = cursor
  <1>1. /\ PageSize \in Nat /\ PageSize > 0 /\ cursor \in Nat
        /\ place \in 1..Len(Collections) /\ Len(Collections) \in Nat
    BY ReaderAssumption DEF TypeOK, ReaderTypeOK
  <1>2. Len(Here) \in Nat
    <2>1. Here \in Seq(Object)
      BY DEF TypeOK, ReaderTypeOK, Here, ToSet, WellListed
    <2> QED
      BY <2>1
  <1>3. next = cursor + PageSize \/ (next = 0 /\ ~(cursor + PageSize < Len(Here)))
    BY <1>1 DEF NextCursor
  <1>4. CASE next = cursor + PageSize
    <2>1. next # 0
      BY <1>1, <1>4
    <2> QED
      BY <1>4, <2>1 DEF Proceed
  <1>5. CASE next = 0 /\ ~(cursor + PageSize < Len(Here))
    <2>1. Len(Here) <= cursor + PageSize
      BY <1>1, <1>2, <1>5
    <2>2. CASE place < Len(Collections)
      BY <1>5, <2>1, <2>2 DEF Proceed
    <2>3. CASE ~(place < Len(Collections))
      <3>1. place = Len(Collections)
        BY <1>1, <2>3
      <3> QED
        BY <1>5, <2>1, <2>3, <3>1 DEF Proceed
    <2> QED
      BY <2>2, <2>3
  <1> QED
    BY <1>3, <1>4, <1>5

(* The types hold at the start, with every collection well listed.         *)
LEMMA TypeInit ==
  ASSUME Init
  PROVE  TypeOK
  <1>1. PICK setup \in Setup :
          /\ op = setup.op
          /\ listing \in [ToSet(Collections) -> UNION {Listings(setup.stored[c]) : c \in ToSet(Collections)}]
          /\ \A c \in ToSet(Collections) : listing[c] \in Listings(setup.stored[c])
          /\ NewImporter(setup.files)
    BY DEF Init
  <1>2. /\ op \in {"all", "bounds", "distance"}
        /\ file \in Seq(ToSet(file))
    BY <1>1, ReaderAssumption DEF NewImporter
  <1>3. DOMAIN listing = ToSet(Collections) /\ \A c \in DOMAIN listing : WellListed(listing[c])
    <2> SUFFICES ASSUME NEW c \in ToSet(Collections)  PROVE WellListed(listing[c])
      BY <1>1
    <2>1. /\ IsFiniteSet(setup.stored[c]) /\ setup.stored[c] \in SUBSET Object
          /\ \A x, y \in setup.stored[c] : x.id = y.id => x = y
          /\ listing[c] \in Listings(setup.stored[c])
      BY <1>1, ReaderAssumption
    <2> DEFINE objects == setup.stored[c]
    <2> HIDE DEF objects
    <2>2. /\ IsFiniteSet(objects) /\ objects \in SUBSET Object
          /\ \A x, y \in objects : x.id = y.id => x = y
          /\ listing[c] \in Listings(objects)
      BY <2>1 DEF objects
    <2> QED
      BY <2>2, ListingFacts
  <1>4. run \in Run /\ run.read = 0 /\ runs \in Nat /\ written = {}
    BY <1>1, BeginFacts DEF NewImporter
  <1>5. run.read <= Len(file)
    <2>1. Len(file) \in Nat
      BY <1>2
    <2> QED
      BY <1>4, <2>1
  <1>6. /\ pc = "reading" /\ place = 1 /\ cursor = 0 /\ features = <<>> /\ truncated = FALSE
    BY DEF Init
  <1>7. features \in Seq(Object) /\ Len(features) = 0
    BY <1>6
  <1>8. 1 \in 1..Len(Collections) /\ 0 <= Limit
    BY ReaderAssumption
  <1> QED
    BY <1>2, <1>3, <1>4, <1>5, <1>6, <1>7, <1>8 DEF TypeOK, ImporterTypeOK, ReaderTypeOK

(* Every step of the reader and of the importer keeps the types.           *)
LEMMA TypeStep ==
  ASSUME TypeOK, [Next]_vars
  PROVE  TypeOK'
  <1> USE DEF TypeOK
  <1>1. CASE Import
    <2>1. ReaderTypeOK'
      <3>1. UNCHANGED readerVars /\ DOMAIN listing' = DOMAIN listing
        BY <1>1, ImportCases, ListingsGrow
      <3>2. (\A c \in DOMAIN listing : WellListed(listing[c]))'
        BY <1>1, ListingsGrow
      <3> QED
        BY <3>1, <3>2 DEF ReaderTypeOK, readerVars
    <2>2. \A w \in written' : Accepted(w.item)
      <3>1. CASE Sets
        BY <3>1 DEF ImporterTypeOK, Sets, Writes
      <3>2. CASE ~Sets
        BY <1>1, <3>2, ImportCases DEF ImporterTypeOK
      <3> QED
        BY <3>1, <3>2
    <2>3. file' = file /\ run \in Run /\ Len(file) \in Nat /\ run.read \in Nat
      BY <1>1, ImportCases DEF ImporterTypeOK, Run
    <2>4. run' \in Run /\ run'.read <= Len(file) /\ runs' \in Nat
      <3>1. CASE RefuseLine \/ EndOfFile \/ SetFails(FALSE) \/ SetFails(TRUE)
        <4>1. (Ends("failed") \/ Ends("succeeded")) /\ runs' = runs
          BY <3>1 DEF RefuseLine, EndOfFile, SetFails, SetErrs
        <4> QED
          BY <2>3, <4>1, EndsFacts DEF ImporterTypeOK
      <3>2. CASE CheckLine \/ SetLine
        <4>1. Processed /\ HasLine /\ runs' = runs
          BY <3>2 DEF CheckLine, SetLine
        <4>2. run' \in Run /\ run'.read = run.read + 1
          BY <2>3, <4>1, ProcessedFacts
        <4> QED
          BY <2>3, <4>1, <4>2 DEF ImporterTypeOK, HasLine
      <3>3. ASSUME NEW job \in Job, RunAgain(job)  PROVE run' \in Run /\ run'.read <= Len(file) /\ runs' \in Nat
        <4>1. run' = Begin(job) /\ runs' = runs + 1
          BY <3>3 DEF RunAgain
        <4> QED
          BY <2>3, <4>1, BeginFacts DEF ImporterTypeOK
      <3> QED
        BY <1>1, <3>1, <3>2, <3>3 DEF Import
    <2> QED
      BY <2>1, <2>2, <2>3, <2>4 DEF ImporterTypeOK
  <1>2. CASE ReadPage
    <2>1. UNCHANGED <<op, atStart, listing, importerVars>> /\ pc = "reading"
      BY <1>2, ReadPageFacts
    <2>2. ImporterTypeOK'
      BY <2>1 DEF ImporterTypeOK, importerVars
    <2>3. PICK added \in Seq(Object) :
            /\ features' = features \o added
            /\ op = "bounds" => Len(features) + Len(added) <= Limit
            /\ \/ Truncate
               \/ (\E next \in NextCursor : Proceed(next)) /\ UNCHANGED truncated
      BY <1>2, ReadPageFacts
    <2>4. features' \in Seq(Object) /\ (op = "bounds" => Len(features') <= Limit)
      BY <2>3, AppendedFacts DEF ReaderTypeOK
    <2>5. pc' \in {"reading", "done", "failed"} /\ place' \in 1..Len(Collections) /\ cursor' \in Nat
          /\ truncated' \in BOOLEAN
      <3>1. CASE Truncate
        BY <3>1 DEF ReaderTypeOK, Truncate
      <3>2. ASSUME NEW next \in NextCursor, Proceed(next), UNCHANGED truncated
            PROVE  pc' \in {"reading", "done", "failed"} /\ place' \in 1..Len(Collections) /\ cursor' \in Nat
                   /\ truncated' \in BOOLEAN
        <4>1. PageSize \in Nat /\ Len(Collections) \in Nat
          BY ReaderAssumption
        <4> QED
          BY <3>2, <4>1, ProceedFacts DEF ReaderTypeOK
      <3> QED
        BY <2>3, <3>1, <3>2
    <2>6. (\A c \in DOMAIN listing : WellListed(listing[c]))'
      BY <2>1 DEF ReaderTypeOK, WellListed
    <2>7. ReaderTypeOK'
      BY <2>1, <2>4, <2>5, <2>6 DEF ReaderTypeOK
    <2> QED
      BY <2>2, <2>7
  <1>3. CASE ReadFails
    <2>1. UNCHANGED <<op, place, cursor, truncated, listing, importerVars>> /\ pc' = "failed" /\ features' = <<>>
      BY <1>3 DEF ReadFails
    <2>2. features' \in Seq(Object) /\ Len(features') = 0 /\ 0 <= Limit
      BY <2>1, ReaderAssumption
    <2>3. (\A c \in DOMAIN listing : WellListed(listing[c]))'
      BY <2>1 DEF ReaderTypeOK, WellListed
    <2> QED
      BY <2>1, <2>2, <2>3 DEF ReaderTypeOK, ImporterTypeOK, importerVars
  <1>4. CASE UNCHANGED vars
    <2>1. (\A c \in DOMAIN listing : WellListed(listing[c]))'
      BY <1>4 DEF ReaderTypeOK, WellListed, vars, readerVars
    <2> QED
      BY <1>4, <2>1 DEF ReaderTypeOK, ImporterTypeOK, vars, readerVars, importerVars
  <1> QED
    BY <1>1, <1>2, <1>3, <1>4 DEF Next

(* The reader, the importer and the collections keep their types; no       *)
(* object is listed twice, and ReadBounds has room for what it answers.    *)
THEOREM TypeCorrect == Spec => []TypeOK
  <1>1. Init => TypeOK
    BY TypeInit
  <1>2. TypeOK /\ [Next]_vars => TypeOK'
    BY TypeStep
  <1> QED
    BY <1>1, <1>2, PTL DEF Spec

-----------------------------------------------------------------------------
(* Whatever runs of the importer write, and in whatever state they end, a  *)
(* traversal key belongs to one feature of those whose edge id an int64    *)
(* holds, and whatever the machine makes of 2^63.                          *)
THEOREM KeysNameFeatures == Spec => []OneFeaturePerKey
  <1>1. TypeOK => OneFeaturePerKey
    <2> SUFFICES ASSUME TypeOK, NEW v \in written, NEW w \in written,
                        v.item.properties.edge_id < TwoTo63,
                        w.item.properties.edge_id < TwoTo63,
                        v.item.properties.traversal_key = w.item.properties.traversal_key
                 PROVE  v.item.id = w.item.id
      BY DEF OneFeaturePerKey
    <2>1. Accepted(v.item) /\ Accepted(w.item)
      BY DEF TypeOK, ImporterTypeOK
    <2> DEFINE x == v.item.id
               y == w.item.id
    <2>2. /\ x \in ObjectID /\ x.edge \in 0..(TwoTo63 - 1)
          /\ y \in ObjectID /\ y.edge \in 0..(TwoTo63 - 1)
      BY <2>1, AcceptedFacts
    <2>3. KeyOf(x.edge, x.forward) = KeyOf(y.edge, y.forward)
      BY <2>1, AcceptedFacts
    <2> HIDE DEF x, y
    <2>4. x.forward \in BOOLEAN /\ y.forward \in BOOLEAN
      BY <2>2 DEF ObjectID
    <2>5. x.edge = y.edge /\ x.forward = y.forward
      BY <2>2, <2>3, <2>4, KeyTellsIDs
    <2>6. x = y
      BY <2>2, <2>5 DEF ObjectID
    <2> QED
      BY <2>6 DEF x, y
  <1> QED
    BY <1>1, TypeCorrect, PTL

(* Though pages shift under the reader and collections share objects, no   *)
(* feature is answered twice.                                              *)
THEOREM FeaturesAnsweredOnce == Spec => []EachFeatureOnce
  <1>1. Init => EachFeatureOnce
    <2> SUFFICES ASSUME Init  PROVE EachFeatureOnce
      OBVIOUS
    <2>1. features = <<>> /\ DOMAIN <<>> = {}
      BY DEF Init
    <2> QED
      BY <2>1 DEF EachFeatureOnce
  <1>2. TypeOK /\ EachFeatureOnce /\ [Next]_vars => EachFeatureOnce'
    <2> SUFFICES ASSUME TypeOK, EachFeatureOnce, [Next]_vars
                 PROVE  EachFeatureOnce'
      OBVIOUS
    <2>1. CASE ReadPage
      <3>1. PICK added \in Seq(Object) :
              /\ features' = features \o added
              /\ IDsDistinct(added)
              /\ \A id : Lists(added, id) => ~Lists(features, id)
        BY <2>1, ReadPageFacts
      <3>2. features \in Seq(Object) /\ IDsDistinct(features)
        BY DEF TypeOK, ReaderTypeOK, EachFeatureOnce, IDsDistinct
      <3>3. IDsDistinct(features \o added)
        BY <3>1, <3>2, AppendedFacts
      <3> QED
        BY <3>1, <3>3 DEF EachFeatureOnce, IDsDistinct
    <2>2. CASE ReadFails
      <3>1. features' = <<>> /\ DOMAIN <<>> = {}
        BY <2>2 DEF ReadFails
      <3> QED
        BY <3>1 DEF EachFeatureOnce
    <2>3. CASE Import \/ UNCHANGED vars
      <3>1. features' = features
        BY <2>3, ImportCases DEF vars, readerVars
      <3> QED
        BY <3>1 DEF EachFeatureOnce
    <2> QED
      BY <2>1, <2>2, <2>3 DEF Next
  <1> QED
    BY <1>1, <1>2, TypeCorrect, PTL DEF Spec

-----------------------------------------------------------------------------
(* What the read has still before it: the rest of the collection it is at, *)
(* and the collections after it.                                           *)
IsAhead(id) ==
  \/ \E i \in DOMAIN Here : cursor < i /\ Here[i].id = id
  \/ \E p \in (place + 1)..Len(Collections) : Lists(listing[Collections[p]], id)

(* Nothing that was stored at the start is lost between the features and   *)
(* what lies ahead.                                                        *)
NoneLost ==
  op = "all" \/ written = {} =>
    /\ pc = "reading" => \A id \in atStart : Lists(features, id) \/ IsAhead(id)
    /\ pc = "done" /\ ~truncated => \A id \in atStart : Lists(features, id)

(* The collection being read is one of the listing's, and well listed.     *)
LEMMA HereListed ==
  ASSUME TypeOK
  PROVE  /\ \A p \in 1..Len(Collections) : Collections[p] \in DOMAIN listing
         /\ Collections[place] \in DOMAIN listing
         /\ WellListed(Here)
         /\ DOMAIN Here = 1..Len(Here) /\ Len(Here) \in Nat
         /\ Len(Collections) \in Nat /\ place \in 1..Len(Collections) /\ cursor \in Nat
         /\ PageSize \in Nat /\ PageSize > 0
  <1>1. \A p \in 1..Len(Collections) : Collections[p] \in DOMAIN listing
    BY ReaderAssumption DEF TypeOK, ReaderTypeOK, ToSet
  <1>2. place \in 1..Len(Collections) /\ cursor \in Nat
    BY DEF TypeOK, ReaderTypeOK
  <1>3. WellListed(Here)
    BY <1>1, <1>2 DEF TypeOK, ReaderTypeOK, Here
  <1>4. Here \in Seq(Object)
    BY <1>3 DEF WellListed
  <1> HIDE DEF Here
  <1> QED
    BY <1>1, <1>2, <1>3, <1>4, ReaderAssumption

(* All collections are ahead of the reader when it begins.                 *)
LEMMA NoneLostInit ==
  ASSUME Init
  PROVE  NoneLost
  <1> SUFFICES ASSUME NEW id \in atStart  PROVE IsAhead(id)
    BY DEF Init, NoneLost
  <1>1. PICK setup \in Setup :
          /\ \A c \in ToSet(Collections) : listing[c] \in Listings(setup.stored[c])
          /\ atStart = UNION {IDs(setup.stored[c]) : c \in ToSet(Collections)}
    BY DEF Init
  <1>2. PICK c \in ToSet(Collections) : id \in IDs(setup.stored[c])
    BY <1>1
  <1>3. PICK x \in setup.stored[c] : x.id = id
    BY <1>2 DEF IDs
  <1> DEFINE objects == setup.stored[c]
  <1>4. /\ IsFiniteSet(objects) /\ objects \in SUBSET Object
        /\ \A v, w \in objects : v.id = w.id => v = w
        /\ listing[c] \in Listings(objects) /\ x \in objects
    BY <1>1, <1>2, <1>3, ReaderAssumption
  <1> HIDE DEF objects
  <1>5. ToSet(listing[c]) = objects
    BY <1>4, ListingFacts
  <1>6. PICK i \in DOMAIN listing[c] : listing[c][i].id = id
    BY <1>3, <1>4, <1>5 DEF ToSet
  <1>7. TypeOK
    BY TypeInit
  <1>8. PICK p \in 1..Len(Collections) : Collections[p] = c
    BY ReaderAssumption DEF ToSet
  <1>9. place = 1 /\ cursor = 0
    BY DEF Init
  <1>10. CASE p = 1
    <2>1. Here = listing[c]
      BY <1>8, <1>9, <1>10 DEF Here
    <2>2. i \in DOMAIN Here /\ Here[i].id = id
      BY <1>6, <2>1
    <2>3. 0 < i
      <3> HIDE DEF Here
      <3> QED
        BY <1>7, <2>2, HereListed
    <2> QED
      BY <1>9, <2>2, <2>3 DEF IsAhead
  <1>11. CASE p # 1
    <2>1. p \in (place + 1)..Len(Collections)
      BY <1>8, <1>9, <1>11, ReaderAssumption
    <2>2. Lists(listing[Collections[p]], id)
      BY <1>6, <1>8 DEF Lists
    <2> QED
      BY <2>1, <2>2 DEF IsAhead
  <1> QED
    BY <1>10, <1>11

(* An import may move objects, but under SCAN never back over the cursor.  *)
LEMMA NoneLostImport ==
  ASSUME TypeOK, NoneLost, Import
  PROVE  NoneLost'
  <1>1. UNCHANGED readerVars
    BY ImportCases
  <1>2. CASE ~Sets
    <2>1. UNCHANGED <<listing, written>>
      BY <1>2, ImportCases
    <2> QED
      BY <1>1, <2>1 DEF NoneLost, IsAhead, Here, readerVars
  <1>3. CASE Sets
    <2>1. written' # {}
      BY <1>3 DEF Sets, Writes
    <2>2. SUFFICES ASSUME op = "all"  PROVE NoneLost'
      BY <1>1, <2>1 DEF NoneLost, readerVars
    <2>3. SUFFICES ASSUME pc = "reading", NEW id \in atStart, IsAhead(id)
                   PROVE  IsAhead(id)'
      BY <1>1, <2>2 DEF NoneLost, readerVars
    <2>4. /\ \A c \in DOMAIN listing : \A x : Lists(listing[c], x) => Lists(listing'[c], x)
          /\ \A c \in DOMAIN listing : WellListed(listing'[c])
      BY ListingsGrow
    <2>5. CASE \E p \in (place + 1)..Len(Collections) : Lists(listing[Collections[p]], id)
      <3>1. PICK p \in (place + 1)..Len(Collections) : Lists(listing[Collections[p]], id)
        BY <2>5
      <3>2. p \in 1..Len(Collections)
        BY HereListed
      <3>3. Lists(listing'[Collections[p]], id)
        BY <2>4, <3>1, <3>2, HereListed
      <3> QED
        BY <1>1, <3>1, <3>3 DEF IsAhead, readerVars
    <2>6. ASSUME NEW i \in DOMAIN Here, cursor < i, Here[i].id = id  PROVE IsAhead(id)'
      <3> DEFINE c == Collections[place]
                 L == listing[c]
                 M == listing'[c]
      <3>1. /\ c \in DOMAIN listing
            /\ WellListed(L) /\ WellListed(M)
            /\ \A x : Lists(L, x) => Lists(M, x)
        BY <2>4, HereListed DEF Here
      <3>2. InOrder(L) /\ InOrder(M)
        BY <2>2, <3>1 DEF WellListed
      <3>3. i \in DOMAIN L /\ L[i].id = id
        BY <2>6 DEF Here
      <3>4. PICK j \in DOMAIN M : M[j].id = id
        BY <3>1, <3>3 DEF Lists
      <3>5. i <= j
        <4> HIDE DEF L, M
        <4> QED
          BY <3>1, <3>2, <3>3, <3>4, PlaceOnlyGrows
      <3>6. i \in Nat /\ j \in Nat /\ cursor \in Nat
        <4>1. L \in Seq(Object) /\ M \in Seq(Object)
          BY <3>1 DEF WellListed
        <4> HIDE DEF L, M
        <4> QED
          BY <3>3, <3>4, <4>1, HereListed
      <3>7. cursor < j
        BY <2>6, <3>5, <3>6
      <3>8. Here' = M /\ cursor' = cursor
        BY <1>1 DEF Here, readerVars
      <3> QED
        BY <3>4, <3>7, <3>8 DEF IsAhead
    <2> QED
      BY <2>3, <2>5, <2>6 DEF IsAhead
  <1> QED
    BY <1>2, <1>3

(* A page takes the next objects ahead, and the cursor passes no others.   *)
LEMMA NoneLostPage ==
  ASSUME TypeOK, NoneLost, ReadPage
  PROVE  NoneLost'
  <1>1. pc = "reading" /\ UNCHANGED <<op, atStart, listing, importerVars>>
    BY ReadPageFacts
  <1>2. PICK added \in Seq(Object) :
          /\ features' = features \o added
          /\ \/ Truncate
             \/ /\ \A id : Lists(Page, id) => Lists(features, id) \/ Lists(added, id)
                /\ \E next \in NextCursor : Proceed(next)
                /\ UNCHANGED truncated
    BY ReadPageFacts
  <1>3. \A id : Lists(features', id) <=> Lists(features, id) \/ Lists(added, id)
    BY <1>2, AppendedFacts DEF TypeOK, ReaderTypeOK
  <1>4. CASE Truncate
    BY <1>4 DEF Truncate, NoneLost
  <1>5. ASSUME \A id : Lists(Page, id) => Lists(features, id) \/ Lists(added, id),
               NEW next \in NextCursor, Proceed(next)
        PROVE  NoneLost'
    <2>1. SUFFICES ASSUME op = "all" \/ written = {}, NEW id \in atStart, ~Lists(features', id)
                   PROVE  pc' = "reading" /\ IsAhead(id)'
      BY <1>1 DEF NoneLost, importerVars
    <2>2. IsAhead(id) /\ ~Lists(Page, id)
      BY <1>1, <1>3, <1>5, <2>1 DEF NoneLost
    <2>3. ASSUME NEW i \in DOMAIN Here, cursor < i, Here[i].id = id
          PROVE  cursor + PageSize < i
      <3>1. ASSUME i <= cursor + PageSize  PROVE FALSE
        <4>1. i - cursor \in DOMAIN Page /\ Page[i - cursor] = Here[i]
          BY <2>3, <3>1, PageFacts, HereListed
        <4> QED
          BY <2>2, <2>3, <4>1 DEF Lists
      <3>2. i \in Nat /\ cursor + PageSize \in Nat
        <4> HIDE DEF Here
        <4> QED
          BY <2>3, HereListed
      <3> QED
        BY <3>1, <3>2
    <2>4. CASE cursor' = cursor + PageSize /\ pc' = pc /\ place' = place
      <3>1. Here' = Here
        BY <1>1, <2>4 DEF Here
      <3> QED
        BY <1>1, <2>2, <2>3, <2>4, <3>1 DEF IsAhead
    <2>5. ASSUME Len(Here) <= cursor + PageSize
          PROVE  \E p \in (place + 1)..Len(Collections) : Lists(listing[Collections[p]], id)
      <3>1. ASSUME NEW i \in DOMAIN Here, cursor < i, Here[i].id = id  PROVE FALSE
        <4>1. cursor + PageSize < i
          BY <2>3, <3>1
        <4>2. i \in 1..Len(Here) /\ Len(Here) \in Nat /\ cursor + PageSize \in Nat
          <5> HIDE DEF Here
          <5> QED
            BY <3>1, HereListed
        <4> QED
          BY <2>5, <4>1, <4>2
      <3> QED
        BY <2>2, <3>1 DEF IsAhead
    <2>6. CASE /\ Len(Here) <= cursor + PageSize
               /\ place < Len(Collections)
               /\ place' = place + 1 /\ cursor' = 0 /\ pc' = pc
      <3>1. PICK p \in (place + 1)..Len(Collections) : Lists(listing[Collections[p]], id)
        BY <2>5, <2>6
      <3>2. PICK i \in DOMAIN listing[Collections[p]] : listing[Collections[p]][i].id = id
        BY <3>1 DEF Lists
      <3>3. CASE p = place + 1
        <4>1. Here' = listing[Collections[p]]
          BY <1>1, <2>6, <3>3 DEF Here
        <4>2. 0 < i
          <5>1. p \in 1..Len(Collections)
            BY <3>1, HereListed
          <5>2. listing[Collections[p]] \in Seq(Object)
            BY <5>1, HereListed DEF TypeOK, ReaderTypeOK, WellListed
          <5> QED
            BY <3>2, <5>2
        <4> QED
          BY <1>1, <2>6, <3>2, <4>1, <4>2 DEF IsAhead
      <3>4. CASE p # place + 1
        <4>1. p \in (place' + 1)..Len(Collections)
          BY <2>6, <3>1, <3>4, HereListed
        <4> QED
          BY <1>1, <2>6, <3>1, <4>1 DEF IsAhead
      <3> QED
        BY <3>3, <3>4
    <2>7. CASE /\ Len(Here) <= cursor + PageSize
               /\ place = Len(Collections)
               /\ pc' = "done"
      <3>1. PICK p \in (place + 1)..Len(Collections) : TRUE
        BY <2>5, <2>7
      <3> QED
        BY <2>7, <3>1, HereListed
    <2> QED
      BY <1>5, <2>4, <2>6, <2>7, ProceedFacts
  <1> QED
    BY <1>2, <1>4, <1>5

(* With SCAN whatever is imported meanwhile, and with INTERSECTS if        *)
(* nothing is, an answer that is not truncated has all that was stored.    *)
THEOREM NothingIsLost == Spec => []NothingLeftOut
  <1>1. Init => NoneLost
    BY NoneLostInit
  <1>2. TypeOK /\ NoneLost /\ [Next]_vars => NoneLost'
    <2> SUFFICES ASSUME TypeOK, NoneLost, [Next]_vars  PROVE NoneLost'
      OBVIOUS
    <2>1. CASE ReadFails
      BY <2>1 DEF ReadFails, NoneLost
    <2>2. CASE UNCHANGED vars
      BY <2>2 DEF vars, readerVars, importerVars, NoneLost, IsAhead, Here
    <2> QED
      BY <2>1, <2>2, NoneLostImport, NoneLostPage DEF Next
  <1>3. NoneLost => NothingLeftOut
    BY DEF NoneLost, NothingLeftOut, Lists, FeatureIDs
  <1> QED
    BY <1>1, <1>2, <1>3, TypeCorrect, PTL DEF Spec

-----------------------------------------------------------------------------
(* A ReadBounds that ended as truncated is full, and a stored object is    *)
(* not among its features.                                                 *)
TruncatedRightly ==
  op = "bounds" /\ truncated =>
    /\ pc = "done"
    /\ Len(features) = Limit
    /\ \E c \in DOMAIN listing : \E id : Lists(listing[c], id) /\ ~Lists(features, id)

(* The page that overflows fills the features up, and its first new object *)
(* beyond them is left out.                                                *)
LEMMA OverflowLeavesOneOut ==
  ASSUME TypeOK, BoundsPage, Overflows(Fresh(Page))
  PROVE  TruncatedRightly'
  <1> DEFINE fresh == Fresh(Page)
             last == Min({Len(fresh), RoomLeft})
             added == SubSeq(fresh, 1, last)
  <1>1. /\ op = "bounds" /\ op' = op /\ listing' = listing
        /\ pc' = "done"
        /\ features' = features \o added
        /\ Len(fresh) > RoomLeft
    BY DEF BoundsPage, Reading, Overflows, Truncate
  <1>2. Page \in Seq(Object) /\ IDsDistinct(Page)
    BY HereListed, PageFacts
  <1>3. /\ fresh \in Seq(Object) /\ IDsDistinct(fresh)
        /\ \A id : Lists(fresh, id) <=> Lists(Page, id) /\ id \notin FeatureIDs
    BY <1>2, FreshFacts
  <1> HIDE DEF fresh
  <1>4. /\ features \in Seq(Object) /\ Len(features) \in Nat
        /\ Len(fresh) \in Nat /\ DOMAIN fresh = 1..Len(fresh)
        /\ RoomLeft \in Nat /\ Len(features) + RoomLeft = Limit
    <2>1. Limit \in Nat /\ Len(features) \in Nat /\ Len(features) <= Limit /\ features \in Seq(Object)
      BY <1>1, ReaderAssumption DEF TypeOK, ReaderTypeOK
    <2> QED
      BY <1>3, <2>1 DEF RoomLeft
  <1>5. last = RoomLeft
    <2>1. last = IF Len(fresh) <= RoomLeft THEN Len(fresh) ELSE RoomLeft
      BY <1>4, LesserOfTwo
    <2>2. ~(Len(fresh) <= RoomLeft)
      <3>1. Len(fresh) > RoomLeft
        BY <1>1
      <3> QED
        BY <1>4, <3>1
    <2> QED
      BY <2>1, <2>2
  <1> HIDE DEF last
  <1>6. /\ added \in Seq(Object)
        /\ Len(added) = RoomLeft /\ DOMAIN added = 1..RoomLeft
        /\ \A i \in 1..RoomLeft : added[i] = fresh[i]
    BY <1>1, <1>3, <1>4, <1>5
  <1> HIDE DEF added
  <1> DEFINE next == RoomLeft + 1
             id == fresh[next].id
  <1>7. next \in DOMAIN fresh /\ \A i \in 1..RoomLeft : i \in DOMAIN fresh /\ i # next
    BY <1>1, <1>4
  <1> HIDE DEF next
  <1>8. Lists(fresh, id)
    BY <1>7 DEF Lists
  <1>9. ~Lists(features, id)
    BY <1>3, <1>8 DEF FeatureIDs, Lists
  <1>10. ~Lists(added, id)
    BY <1>3, <1>6, <1>7 DEF Lists, IDsDistinct
  <1>11. Lists(Here, id)
    <2>1. PICK i \in DOMAIN Page : Page[i].id = id
      BY <1>3, <1>8 DEF Lists
    <2>2. cursor + i \in DOMAIN Here /\ Page[i] = Here[cursor + i]
      BY HereListed, PageFacts
    <2> QED
      BY <2>1, <2>2 DEF Lists
  <1>12. Collections[place] \in DOMAIN listing'
    BY <1>1, HereListed
  <1>13. Lists(listing'[Collections[place]], id)
    BY <1>1, <1>11 DEF Here
  <1>14. Len(features') = Limit /\ ~Lists(features', id)
    BY <1>1, <1>4, <1>6, <1>9, <1>10, AppendedFacts
  <1> HIDE DEF id
  <1> QED
    BY <1>1, <1>12, <1>13, <1>14 DEF TruncatedRightly

(* Every other step leaves the features of a truncated answer as they are, *)
(* and takes no object out of the collections.                             *)
LEMMA TruncatedStep ==
  ASSUME TypeOK, TruncatedRightly, [Next]_vars
  PROVE  TruncatedRightly'
  <1>1. CASE Import
    <2>1. UNCHANGED readerVars
      BY <1>1, ImportCases
    <2>2. /\ DOMAIN listing' = DOMAIN listing
          /\ \A c \in DOMAIN listing : \A id : Lists(listing[c], id) => Lists(listing'[c], id)
      BY <1>1, ListingsGrow
    <2> QED
      BY <2>1, <2>2 DEF TruncatedRightly, readerVars
  <1>2. CASE BoundsPage
    <2>1. CASE Overflows(Fresh(Page))
      BY <1>2, <2>1, OverflowLeavesOneOut
    <2>2. CASE ~Overflows(Fresh(Page))
      <3>1. pc = "reading" /\ op' = op /\ truncated' = truncated
        BY <1>2, <2>2 DEF BoundsPage, Reading
      <3> QED
        BY <3>1 DEF TruncatedRightly
    <2> QED
      BY <2>1, <2>2
  <1>3. CASE ScanPage \/ DistancePage
    <2>1. op # "bounds" /\ op' = op
      BY <1>3 DEF ScanPage, DistancePage, Reading
    <2> QED
      BY <2>1 DEF TruncatedRightly
  <1>4. CASE ReadFails
    BY <1>4 DEF ReadFails, TruncatedRightly
  <1>5. CASE UNCHANGED vars
    BY <1>5 DEF TruncatedRightly, vars, readerVars
  <1> QED
    BY <1>1, <1>2, <1>3, <1>4, <1>5 DEF Next, ReadPage

(* ReadBounds never answers more than its limit, and says truncated only   *)
(* of an answer that is full and has left a stored object out, whatever is *)
(* imported before the answer is looked at.                                *)
THEOREM BoundsStopRight == Spec => []BoundsAtItsLimit
  <1>1. Init => TruncatedRightly
    BY DEF Init, TruncatedRightly
  <1>2. TypeOK /\ TruncatedRightly /\ [Next]_vars => TruncatedRightly'
    BY TruncatedStep
  <1>3. TypeOK /\ TruncatedRightly => BoundsAtItsLimit
    <2> SUFFICES ASSUME TypeOK, TruncatedRightly, op = "bounds"  PROVE BoundsAtItsLimit
      BY DEF BoundsAtItsLimit
    <2>1. Len(features) <= Limit /\ DOMAIN listing = ToSet(Collections)
      BY DEF TypeOK, ReaderTypeOK
    <2>2. ASSUME NEW c, NEW id, Lists(listing[c], id), ~Lists(features, id)
          PROVE  ~(IDs(ToSet(listing[c])) \subseteq FeatureIDs)
      BY <2>2 DEF Lists, IDs, ToSet, FeatureIDs
    <2> QED
      BY <2>1, <2>2 DEF TruncatedRightly, BoundsAtItsLimit
  <1> QED
    BY <1>1, <1>2, <1>3, TypeCorrect, PTL DEF Spec

-----------------------------------------------------------------------------
(* What a loop's n-th turn makes of the turns before it: MetresOf adds the *)
(* metres of a road's first feature, and CountEdges counts the n-th of the *)
(* fresh ones.                                                             *)
Metres(list, n) == IF FirstOfRoad(list, n) THEN list[n].metres ELSE 0

Summed(list, sum, n) == IF n = 0 THEN 0 ELSE sum[n - 1] + Metres(list, n)

Counted(fresh, count, n) == IF n = 0 THEN counted ELSE CountEdge(count[n - 1], fresh[n])

(* Both recursive functions are there, whatever the list.                  *)
LEMMA SumExists ==
  ASSUME NEW list, Len(list) \in Nat
  PROVE  \E sum : sum = [n \in 0..Len(list) |-> Summed(list, sum, n)]
  <1> DEFINE Upto(m) == \E f : f = [n \in 0..m |-> Summed(list, f, n)]
             S == {m \in 0..Len(list) : Upto(m)}
  <1>1. 0 \in S
    <2> DEFINE f == [n \in 0..0 |-> 0]
    <2>1. f = [n \in 0..0 |-> Summed(list, f, n)]
      BY DEF Summed
    <2> HIDE DEF f
    <2>2. Upto(0)
      BY <2>1
    <2> QED
      BY <2>2
  <1>2. ASSUME NEW m \in 0..Len(list), m < Len(list), m \in S
        PROVE  m + 1 \in S
    <2>1. PICK f : f = [n \in 0..m |-> Summed(list, f, n)]
      BY <1>2
    <2> DEFINE g == [n \in 0..(m + 1) |-> IF n <= m THEN f[n] ELSE Summed(list, f, n)]
    <2>2. ASSUME NEW n \in 0..(m + 1)  PROVE g[n] = Summed(list, g, n)
      <3>1. (n \in 0..m /\ n <= m /\ (n # 0 => n - 1 \in 0..m)) \/ (n = m + 1 /\ n # 0 /\ n - 1 \in 0..m /\ ~(n <= m))
        OBVIOUS
      <3>2. g[n] = Summed(list, f, n)
        BY <2>1, <3>1
      <3>3. n # 0 => g[n - 1] = f[n - 1]
        BY <3>1
      <3> HIDE DEF g
      <3> QED
        BY <3>2, <3>3 DEF Summed
    <2>3. DOMAIN g = 0..(m + 1) /\ g = [n \in DOMAIN g |-> g[n]]
      OBVIOUS
    <2>4. g = [n \in 0..(m + 1) |-> Summed(list, g, n)]
      <3> HIDE DEF g
      <3> QED
        BY <2>2, <2>3
    <2> HIDE DEF g
    <2>5. Upto(m + 1) /\ m + 1 \in 0..Len(list)
      BY <1>2, <2>4
    <2> QED
      BY <2>5
  <1>3. Len(list) \in S
    <2>1. Len(list) \in 0..Len(list)
      OBVIOUS
    <2> HIDE DEF S
    <2> QED
      BY <1>1, <1>2, <2>1, CountingUp
  <1> QED
    BY <1>3

LEMMA CountExists ==
  ASSUME NEW fresh, Len(fresh) \in Nat
  PROVE  \E count : count = [n \in 0..Len(fresh) |-> Counted(fresh, count, n)]
  <1> DEFINE Upto(m) == \E f : f = [n \in 0..m |-> Counted(fresh, f, n)]
             S == {m \in 0..Len(fresh) : Upto(m)}
  <1>1. 0 \in S
    <2> DEFINE f == [n \in 0..0 |-> counted]
    <2>1. f = [n \in 0..0 |-> Counted(fresh, f, n)]
      BY DEF Counted
    <2> HIDE DEF f
    <2>2. Upto(0)
      BY <2>1
    <2> QED
      BY <2>2
  <1>2. ASSUME NEW m \in 0..Len(fresh), m < Len(fresh), m \in S
        PROVE  m + 1 \in S
    <2>1. PICK f : f = [n \in 0..m |-> Counted(fresh, f, n)]
      BY <1>2
    <2> DEFINE g == [n \in 0..(m + 1) |-> IF n <= m THEN f[n] ELSE Counted(fresh, f, n)]
    <2>2. ASSUME NEW n \in 0..(m + 1)  PROVE g[n] = Counted(fresh, g, n)
      <3>1. (n \in 0..m /\ n <= m /\ (n # 0 => n - 1 \in 0..m)) \/ (n = m + 1 /\ n # 0 /\ n - 1 \in 0..m /\ ~(n <= m))
        OBVIOUS
      <3>2. g[n] = Counted(fresh, f, n)
        BY <2>1, <3>1
      <3>3. n # 0 => g[n - 1] = f[n - 1]
        BY <3>1
      <3> HIDE DEF g
      <3> QED
        BY <3>2, <3>3 DEF Counted
    <2>3. DOMAIN g = 0..(m + 1) /\ g = [n \in DOMAIN g |-> g[n]]
      OBVIOUS
    <2>4. g = [n \in 0..(m + 1) |-> Counted(fresh, g, n)]
      <3> HIDE DEF g
      <3> QED
        BY <2>2, <2>3
    <2> HIDE DEF g
    <2>5. Upto(m + 1) /\ m + 1 \in 0..Len(fresh)
      BY <1>2, <2>4
    <2> QED
      BY <2>5
  <1>3. Len(fresh) \in S
    <2>1. Len(fresh) \in 0..Len(fresh)
      OBVIOUS
    <2> HIDE DEF S
    <2> QED
      BY <1>1, <1>2, <2>1, CountingUp
  <1> QED
    BY <1>3

(* The sum of a list turn by turn.                                         *)
IsSum(list, sum) ==
  /\ sum[0] = 0
  /\ \A n \in 1..Len(list) : sum[n] = sum[n - 1] + Metres(list, n)

LEMMA SumTurns ==
  ASSUME NEW list \in Seq(Object)
  PROVE  \E sum : IsSum(list, sum) /\ MetresOf(list) = sum[Len(list)]
  <1> DEFINE Loop(f) == f = [n \in 0..Len(list) |-> Summed(list, f, n)]
             F == CHOOSE f : Loop(f)
  <1>1. Len(list) \in Nat
    OBVIOUS
  <1>2. MetresOf(list) = F[Len(list)]
    BY DEF MetresOf, Summed, Metres
  <1>3. Loop(F)
    <2>1. \E f : Loop(f)
      BY <1>1, SumExists
    <2> HIDE DEF Loop
    <2> QED
      BY <2>1
  <1>4. \A n \in 0..Len(list) : F[n] = Summed(list, F, n)
    <2> HIDE DEF F
    <2> QED
      BY <1>3
  <1> HIDE DEF F, Loop
  <1>5. F[0] = 0
    BY <1>1, <1>4 DEF Summed
  <1>6. ASSUME NEW n \in 1..Len(list)  PROVE F[n] = F[n - 1] + Metres(list, n)
    <2>1. n \in 0..Len(list) /\ n # 0
      BY <1>1
    <2> QED
      BY <1>4, <2>1 DEF Summed
  <1> QED
    BY <1>2, <1>5, <1>6 DEF IsSum

LEMMA CountTurns ==
  ASSUME NEW fresh \in Seq(Object)
  PROVE  \E count : /\ CountEdges(fresh) = count[Len(fresh)]
                    /\ count[0] = counted
                    /\ \A n \in 1..Len(fresh) : count[n] = CountEdge(count[n - 1], fresh[n])
  <1> DEFINE Loop(f) == f = [n \in 0..Len(fresh) |-> Counted(fresh, f, n)]
             F == CHOOSE f : Loop(f)
  <1>1. Len(fresh) \in Nat
    OBVIOUS
  <1>2. CountEdges(fresh) = F[Len(fresh)]
    BY DEF CountEdges, Counted
  <1>3. Loop(F)
    <2>1. \E f : Loop(f)
      BY <1>1, CountExists
    <2> HIDE DEF Loop
    <2> QED
      BY <2>1
  <1>4. \A n \in 0..Len(fresh) : F[n] = Counted(fresh, F, n)
    <2> HIDE DEF F
    <2> QED
      BY <1>3
  <1> HIDE DEF F, Loop
  <1>5. F[0] = counted
    BY <1>1, <1>4 DEF Counted
  <1>6. ASSUME NEW n \in 1..Len(fresh)  PROVE F[n] = CountEdge(F[n - 1], fresh[n])
    <2>1. n \in 0..Len(fresh) /\ n # 0
      BY <1>1
    <2> QED
      BY <1>4, <2>1 DEF Counted
  <1> QED
    BY <1>2, <1>5, <1>6

(* What a feature adds is a length or nothing, and depends only on what    *)
(* stands before it.                                                       *)
LEMMA MetresFacts ==
  ASSUME NEW list \in Seq(Object), NEW n \in 1..Len(list)
  PROVE  /\ Metres(list, n) \in Nat
         /\ \A part \in Seq(Object) :
              (\A i \in 1..n : part[i] = list[i]) => Metres(part, n) = Metres(list, n)
  <1>1. list[n] \in Object
    OBVIOUS
  <1>2. Metres(list, n) \in Nat
    BY <1>1 DEF Metres, FirstOfRoad, Measured, Object
  <1>3. ASSUME NEW part, \A i \in 1..n : part[i] = list[i]
        PROVE  Metres(part, n) = Metres(list, n)
    <2>1. n \in 1..n /\ \A i \in 1..(n - 1) : i \in 1..n
      OBVIOUS
    <2>2. FirstOfRoad(part, n) <=> FirstOfRoad(list, n)
      BY <1>3, <2>1 DEF FirstOfRoad
    <2> QED
      BY <1>3, <2>1, <2>2 DEF Metres
  <1> QED
    BY <1>2, <1>3

(* The sums of a list are numbers that do not fall; and those up to a      *)
(* place are of the part of the list up to there.                          *)
LEMMA SumsRise ==
  ASSUME NEW list \in Seq(Object), NEW sum, IsSum(list, sum)
  PROVE  \A n \in 0..Len(list) : sum[n] \in Nat /\ sum[n] <= sum[Len(list)]
  <1> DEFINE l == Len(list)
  <1>1. l \in Nat
    OBVIOUS
  <1>2. \A n \in 1..l : Metres(list, n) \in Nat
    BY MetresFacts
  <1>3. sum[0] = 0 /\ \A n \in 1..l : sum[n] = sum[n - 1] + Metres(list, n)
    BY DEF IsSum
  <1> HIDE DEF l
  <1> DEFINE S == {n \in 0..l : sum[n] \in Nat}
  <1>4. \A n \in 0..l : n \in S
    <2>1. 0 \in S
      BY <1>1, <1>3
    <2>2. ASSUME NEW m \in 0..l, m < l, m \in S  PROVE m + 1 \in S
      <3>1. m + 1 \in 1..l /\ m + 1 \in 0..l /\ (m + 1) - 1 = m
        BY <1>1, <2>2
      <3>2. sum[m + 1] = sum[m] + Metres(list, m + 1) /\ sum[m] \in Nat /\ Metres(list, m + 1) \in Nat
        BY <1>2, <1>3, <2>2, <3>1
      <3> QED
        BY <3>1, <3>2
    <2> HIDE DEF S
    <2> QED
      BY <1>1, <2>1, <2>2, CountingUp
  <1> DEFINE T == {k \in 0..l : sum[l - k] <= sum[l]}
  <1>5. \A k \in 0..l : k \in T
    <2>1. 0 \in T
      <3>1. l - 0 = l /\ l \in 0..l /\ 0 \in 0..l
        BY <1>1
      <3>2. sum[l] \in Nat
        BY <1>4, <3>1
      <3> QED
        BY <3>1, <3>2
    <2>2. ASSUME NEW k \in 0..l, k < l, k \in T  PROVE k + 1 \in T
      <3> DEFINE n == l - k
      <3>1. n \in 1..l /\ n \in 0..l /\ n - 1 \in 0..l /\ l - (k + 1) = n - 1 /\ k + 1 \in 0..l /\ l \in 0..l
        BY <1>1, <2>2
      <3>2. sum[n] <= sum[l]
        BY <2>2
      <3> HIDE DEF n
      <3>3. /\ sum[n] = sum[n - 1] + Metres(list, n) /\ Metres(list, n) \in Nat
            /\ sum[n] \in Nat /\ sum[n - 1] \in Nat /\ sum[l] \in Nat
        BY <1>2, <1>3, <1>4, <3>1
      <3>4. sum[n - 1] <= sum[l]
        BY <3>2, <3>3
      <3> QED
        BY <3>1, <3>4
    <2> HIDE DEF T
    <2> QED
      BY <1>1, <2>1, <2>2, CountingUp
  <1>6. ASSUME NEW n \in 0..l  PROVE sum[n] \in Nat /\ sum[n] <= sum[l]
    <2>1. l - n \in 0..l /\ l - (l - n) = n
      BY <1>1
    <2>2. l - n \in T
      BY <1>5, <2>1
    <2> QED
      BY <1>4, <2>1, <2>2
  <1> QED
    BY <1>6 DEF l

LEMMA SumOfPart ==
  ASSUME NEW list \in Seq(Object), NEW sum, IsSum(list, sum),
         NEW part \in Seq(Object), Len(part) <= Len(list), \A i \in 1..Len(part) : part[i] = list[i]
  PROVE  MetresOf(part) = sum[Len(part)]
  <1> DEFINE l == Len(part)
  <1>1. PICK own : IsSum(part, own) /\ MetresOf(part) = own[l]
    BY SumTurns
  <1>2. /\ l \in Nat /\ \A n \in 1..l : n \in 1..Len(list)
        /\ own[0] = 0 /\ \A n \in 1..l : own[n] = own[n - 1] + Metres(part, n)
        /\ sum[0] = 0 /\ \A n \in 1..l : sum[n] = sum[n - 1] + Metres(list, n)
    BY <1>1 DEF IsSum
  <1>3. ASSUME NEW n \in 1..l  PROVE Metres(part, n) = Metres(list, n)
    <2>1. \A i \in 1..n : i \in 1..l
      BY <1>2
    <2> QED
      BY <1>2, <2>1, MetresFacts
  <1> HIDE DEF l
  <1> DEFINE S == {n \in 0..l : own[n] = sum[n]}
  <1>4. 0 \in S
    BY <1>2
  <1>5. ASSUME NEW m \in 0..l, m < l, m \in S  PROVE m + 1 \in S
    <2>1. m + 1 \in 1..l /\ m + 1 \in 0..l /\ (m + 1) - 1 = m
      BY <1>2, <1>5
    <2>2. own[m + 1] = own[m] + Metres(part, m + 1)
      BY <1>2, <2>1
    <2>3. sum[m + 1] = sum[m] + Metres(list, m + 1)
      BY <1>2, <2>1
    <2>4. own[m] = sum[m] /\ Metres(part, m + 1) = Metres(list, m + 1)
      BY <1>3, <1>5, <2>1
    <2> QED
      BY <2>1, <2>2, <2>3, <2>4
  <1>6. l \in S
    <2>1. \A n \in 0..l : n \in S
      <3> HIDE DEF S
      <3> QED
        BY <1>2, <1>4, <1>5, CountingUp
    <2>2. l \in 0..l
      BY <1>2
    <2> QED
      BY <2>1, <2>2
  <1> QED
    BY <1>1, <1>6 DEF l

(* The beginning of a list has no more metres than the list.               *)
LEMMA BeginningIsLess ==
  ASSUME NEW list \in Seq(Object), NEW part \in Seq(Object),
         Len(part) <= Len(list), \A i \in 1..Len(part) : part[i] = list[i]
  PROVE  MetresOf(part) \in Nat /\ MetresOf(list) \in Nat /\ MetresOf(part) <= MetresOf(list)
  <1>1. PICK sum : IsSum(list, sum) /\ MetresOf(list) = sum[Len(list)]
    BY SumTurns
  <1>2. MetresOf(part) = sum[Len(part)]
    BY <1>1, SumOfPart
  <1>3. Len(part) \in 0..Len(list) /\ Len(list) \in 0..Len(list)
    OBVIOUS
  <1> QED
    BY <1>1, <1>2, <1>3, SumsRise

(* The edges that have a length among the first n of a list.               *)
EdgesOf(list, n) == {list[i].edge : i \in {j \in 1..n : Measured(list[j])}}

(* The page's loop counts what the sum has: an edge is among those seen    *)
(* unless the feature is the first of its road.                            *)
LEMMA PageCounted ==
  ASSUME NEW old \in Seq(Object), NEW fresh \in Seq(Object),
         counted.metres = MetresOf(old), counted.edges = EdgesOf(old, Len(old))
  PROVE  LET whole == old \o fresh
         IN  /\ CountEdges(fresh).metres = MetresOf(whole)
             /\ CountEdges(fresh).edges = EdgesOf(whole, Len(whole))
  <1> DEFINE whole == old \o fresh  k == Len(old)  l == Len(fresh)
  <1>1. /\ k \in Nat /\ l \in Nat
        /\ whole \in Seq(Object) /\ Len(whole) = k + l
        /\ \A i \in 1..k : whole[i] = old[i]
        /\ \A i \in 1..l : whole[k + i] = fresh[i]
    OBVIOUS
  <1>2. PICK sum : IsSum(whole, sum) /\ MetresOf(whole) = sum[k + l]
    BY <1>1, SumTurns
  <1>3. MetresOf(old) = sum[k]
    <2> HIDE DEF whole
    <2> QED
      BY <1>1, <1>2, SumOfPart
  <1>4. PICK count : /\ CountEdges(fresh) = count[l]
                     /\ count[0] = counted
                     /\ \A n \in 1..l : count[n] = CountEdge(count[n - 1], fresh[n])
    BY CountTurns
  <1> HIDE DEF whole, k, l
  <1> DEFINE S == {n \in 0..l : count[n].metres = sum[k + n] /\ count[n].edges = EdgesOf(whole, k + n)}
  <1>5. 0 \in S
    <2>1. EdgesOf(whole, k) = EdgesOf(old, k)
      BY <1>1 DEF EdgesOf
    <2>2. k + 0 = k /\ 0 \in 0..l
      BY <1>1
    <2> QED
      BY <1>3, <1>4, <2>1, <2>2 DEF k
  <1>6. ASSUME NEW m \in 0..l, m < l, m \in S  PROVE m + 1 \in S
    <2> DEFINE n == k + m  o == whole[n + 1]
    <2>1. /\ m + 1 \in 1..l /\ m + 1 \in 0..l /\ (m + 1) - 1 = m
          /\ n \in Nat /\ n + 1 \in 1..Len(whole) /\ (n + 1) - 1 = n /\ k + (m + 1) = n + 1
      BY <1>1, <1>6
    <2>2. fresh[m + 1] = o
      BY <1>1, <2>1
    <2>3. count[m + 1] = CountEdge(count[m], o)
      BY <1>4, <2>1, <2>2
    <2>4. count[m].metres = sum[n] /\ count[m].edges = EdgesOf(whole, n)
      BY <1>6
    <2>5. sum[n + 1] = sum[n] + Metres(whole, n + 1)
      BY <1>2, <2>1 DEF IsSum
    <2>6. sum[n] \in Nat
      <3>1. n \in 0..Len(whole)
        BY <2>1
      <3> QED
        BY <1>1, <1>2, <3>1, SumsRise
    <2> HIDE DEF n, o
    <2>7. FirstOfRoad(whole, n + 1) <=> Measured(o) /\ o.edge \notin EdgesOf(whole, n)
      BY <2>1 DEF FirstOfRoad, EdgesOf, o
    <2>8. EdgesOf(whole, n + 1) = EdgesOf(whole, n) \cup (IF Measured(o) THEN {o.edge} ELSE {})
      <3>1. \A i \in 1..(n + 1) : i \in 1..n \/ i = n + 1
        BY <2>1
      <3>2. 1..n \subseteq 1..(n + 1) /\ n + 1 \in 1..(n + 1)
        BY <2>1
      <3> QED
        BY <3>1, <3>2 DEF EdgesOf, o
    <2>9. count[m + 1].metres = sum[n + 1] /\ count[m + 1].edges = EdgesOf(whole, n + 1)
      <3>1. CASE FirstOfRoad(whole, n + 1)
        <4>1. count[m + 1] = [edges |-> count[m].edges \cup {o.edge}, metres |-> count[m].metres + o.metres]
          BY <2>3, <2>4, <2>7, <3>1 DEF CountEdge
        <4>2. Metres(whole, n + 1) = o.metres
          BY <3>1 DEF Metres, o
        <4> QED
          BY <2>4, <2>5, <2>7, <2>8, <3>1, <4>1, <4>2
      <3>2. CASE ~FirstOfRoad(whole, n + 1)
        <4>1. count[m + 1] = count[m]
          BY <2>3, <2>4, <2>7, <3>2 DEF CountEdge
        <4>2. Metres(whole, n + 1) = 0
          BY <3>2 DEF Metres
        <4>3. EdgesOf(whole, n + 1) = EdgesOf(whole, n)
          BY <2>7, <2>8, <3>2
        <4> QED
          BY <2>4, <2>5, <2>6, <4>1, <4>2, <4>3
      <3> QED
        BY <3>1, <3>2
    <2> QED
      BY <2>1, <2>9
  <1>7. l \in S
    <2>1. \A n \in 0..l : n \in S
      <3> HIDE DEF S
      <3> QED
        BY <1>1, <1>5, <1>6, CountingUp
    <2>2. l \in 0..l
      BY <1>1
    <2> QED
      BY <2>1, <2>2
  <1>8. CountEdges(fresh).metres = MetresOf(whole) /\ CountEdges(fresh).edges = EdgesOf(whole, Len(whole))
    BY <1>1, <1>2, <1>4, <1>7
  <1> QED
    BY <1>8 DEF whole

(* ReadDistance knows the metres of what it has, reads on only below the   *)
(* target, and had less than that a page before its end.                   *)
DistanceCounted ==
  op = "distance" =>
    /\ pc # "failed" => /\ counted.metres = MetresOf(features)
                        /\ counted.edges = EdgesOf(features, Len(features))
    /\ pc = "reading" => ~truncated /\ counted.metres < Target
    /\ pc = "done" => /\ truncated <=> counted.metres >= Target
                      /\ MetresOf(SubSeq(features, 1, Len(features) - PageSize)) < Target

LEMMA DistanceInit ==
  ASSUME Init
  PROVE  DistanceCounted
  <1>1. features = <<>> /\ counted = [edges |-> {}, metres |-> 0] /\ truncated = FALSE /\ pc = "reading"
    BY DEF Init
  <1>2. features \in Seq(Object) /\ Len(features) = 0
    BY <1>1
  <1>3. MetresOf(features) = 0
    BY <1>2, SumTurns DEF IsSum
  <1>4. EdgesOf(features, Len(features)) = {}
    BY <1>2 DEF EdgesOf
  <1>5. 0 < Target
    BY ReaderAssumption
  <1> QED
    BY <1>1, <1>3, <1>4, <1>5 DEF DistanceCounted

LEMMA DistancePageCounted ==
  ASSUME TypeOK, DistanceCounted, DistancePage
  PROVE  DistanceCounted'
  <1> DEFINE fresh == Fresh(Page)
             part == SubSeq(features', 1, Len(features') - PageSize)
  <1>1. /\ op = "distance" /\ pc = "reading" /\ op' = op
        /\ features' = features \o fresh /\ counted' = CountEdges(fresh)
        /\ \/ counted'.metres >= Target /\ Truncate
           \/ /\ ~(counted'.metres >= Target) /\ truncated' = truncated
              /\ \E next \in NextCursor : Proceed(next)
    BY DEF DistancePage, Reading
  <1>2. Page \in Seq(Object) /\ IDsDistinct(Page) /\ Len(Page) <= PageSize
    BY HereListed, PageFacts
  <1>3. fresh \in Seq(Object) /\ Len(fresh) <= Len(Page)
    BY <1>2, FreshFacts
  <1>4. features \in Seq(Object) /\ PageSize \in Nat /\ Target \in Nat
    BY ReaderAssumption DEF TypeOK, ReaderTypeOK
  <1> HIDE DEF fresh
  <1>5. /\ counted.metres = MetresOf(features) /\ counted.edges = EdgesOf(features, Len(features))
        /\ ~truncated /\ counted.metres < Target
    BY <1>1 DEF DistanceCounted
  <1>6. counted'.metres = MetresOf(features') /\ counted'.edges = EdgesOf(features', Len(features'))
    BY <1>1, <1>3, <1>4, <1>5, PageCounted
  <1>7. MetresOf(part) < Target
    <2>1. /\ features' \in Seq(Object) /\ Len(features') = Len(features) + Len(fresh)
          /\ Len(features) \in Nat /\ Len(fresh) \in Nat /\ Len(Page) \in Nat
          /\ \A i \in 1..Len(features) : features'[i] = features[i]
      BY <1>1, <1>2, <1>3, <1>4
    <2>2. /\ part \in Seq(Object) /\ Len(part) <= Len(features)
          /\ \A i \in 1..Len(part) : part[i] = features'[i]
      <3> DEFINE b == Len(features') - PageSize
      <3>1. b \in Int /\ b <= Len(features) /\ b <= Len(features')
        BY <1>2, <1>3, <1>4, <2>1
      <3>2. CASE b \in Nat
        <4>1. part = SubSeq(features', 0 + 1, b) /\ \A i \in 1..Len(part) : 0 + i = i
          OBVIOUS
        <4> HIDE DEF part, b
        <4> QED
          BY <2>1, <3>1, <3>2, <4>1, PartOfList
      <3>3. CASE ~(b \in Nat)
        <4>1. b < 1
          BY <3>1, <3>3
        <4> HIDE DEF b
        <4>2. SubSeq(features', 1, b) = <<>>
          BY <2>1, <3>1, <4>1
        <4>3. part = <<>>
          BY <4>2 DEF b
        <4> HIDE DEF part
        <4> QED
          BY <2>1, <4>3
      <3> QED
        BY <3>2, <3>3
    <2> HIDE DEF part
    <2>3. \A i \in 1..Len(part) : part[i] = features[i]
      BY <2>1, <2>2
    <2>4. MetresOf(part) \in Nat /\ MetresOf(features) \in Nat /\ MetresOf(part) <= MetresOf(features)
      BY <1>4, <2>2, <2>3, BeginningIsLess
    <2> QED
      BY <1>4, <1>5, <2>4
  <1>8. CASE counted'.metres >= Target /\ Truncate
    <2>1. truncated' = TRUE /\ pc' = "done"
      BY <1>8 DEF Truncate
    <2> QED
      BY <1>1, <1>6, <1>7, <1>8, <2>1 DEF DistanceCounted
  <1>9. CASE ~(counted'.metres >= Target) /\ truncated' = truncated /\ \E next \in NextCursor : Proceed(next)
    <2>1. pc' = "reading" \/ pc' = "done"
      BY <1>1, <1>9 DEF Proceed
    <2>2. counted'.metres < Target
      <3>1. MetresOf(features') \in Nat
        <4>1. features' \in Seq(Object)
          BY <1>1, <1>3, <1>4
        <4> QED
          BY <4>1, BeginningIsLess
      <3> QED
        BY <1>4, <1>6, <1>9, <3>1
    <2> QED
      BY <1>1, <1>5, <1>6, <1>7, <1>9, <2>1, <2>2 DEF DistanceCounted
  <1> QED
    BY <1>1, <1>8, <1>9

LEMMA DistanceStep ==
  ASSUME TypeOK, DistanceCounted, [Next]_vars
  PROVE  DistanceCounted'
  <1>1. CASE DistancePage
    BY <1>1, DistancePageCounted
  <1>2. CASE ScanPage \/ BoundsPage
    <2>1. op # "distance" /\ op' = op
      BY <1>2 DEF ScanPage, BoundsPage, Reading
    <2> QED
      BY <2>1 DEF DistanceCounted
  <1>3. CASE ReadFails
    <2>1. pc' = "failed"
      BY <1>3 DEF ReadFails
    <2> QED
      BY <2>1 DEF DistanceCounted
  <1>4. CASE UNCHANGED readerVars
    BY <1>4 DEF DistanceCounted, readerVars
  <1>5. CASE Import
    BY <1>4, <1>5, ImportCases
  <1>6. CASE UNCHANGED vars
    BY <1>4, <1>6 DEF vars
  <1> QED
    BY <1>1, <1>2, <1>3, <1>5, <1>6 DEF Next, ReadPage

(* Where a read stops (ReadBounds at its limit of features, ReadDistance   *)
(* at its metres of road): never with more, or a page more, than was asked *)
(* for, and short of it only if there is no more.                          *)
THEOREM StopsRight == Spec => []StopsAtItsLimit
  <1>1. Init => DistanceCounted
    BY DistanceInit
  <1>2. TypeOK /\ DistanceCounted /\ [Next]_vars => DistanceCounted'
    BY DistanceStep
  <1>3. DistanceCounted => DistanceAtItsTarget
    BY DEF DistanceCounted, DistanceAtItsTarget
  <1>4. BoundsAtItsLimit /\ DistanceAtItsTarget => StopsAtItsLimit
    BY DEF StopsAtItsLimit
  <1> QED
    BY <1>1, <1>2, <1>3, <1>4, TypeCorrect, BoundsStopRight, PTL DEF Spec

-----------------------------------------------------------------------------
(* What a run of the importer has SET so far, and where it ends.           *)
RunStores ==
  /\ run.processed = run.read
  /\ ~run.job.dryRun => \A i \in 1..run.read : Lists(listing[run.job.collection], file[i].id)
  /\ run.pc = "running" /\ run.job.limit # 0 => run.read < run.job.limit
  /\ run.pc = "succeeded" => run.read = Len(file) \/ (run.job.limit # 0 /\ run.read = run.job.limit)

(* A line that is processed is SET, unless the run is dry.                 *)
LEMMA ProcessedStores ==
  ASSUME TypeOK, RunStores, Import, CheckLine \/ Sets, Processed
  PROVE  RunStores'
  <1> DEFINE c == run.job.collection
             limit == run.job.limit
             read == run.read
  <1>1. /\ run \in Run /\ run.pc = "running" /\ read < Len(file)
        /\ file' = file /\ file \in Seq(ToSet(file))
        /\ limit \in Nat /\ read \in Nat /\ c \in DOMAIN listing
    <2>1. HasLine
      BY DEF CheckLine, Sets
    <2> QED
      BY <2>1, ImportCases, ReaderAssumption, ImporterAssumption
         DEF HasLine, TypeOK, ImporterTypeOK, ReaderTypeOK, Run
  <1>2. /\ run'.job = run.job
        /\ run'.read = read + 1 /\ run'.processed = run.processed + 1
        /\ limit \in 1..(run.processed + 1) => run'.pc = "succeeded"
        /\ limit \notin 1..(run.processed + 1) => run'.pc = run.pc
    BY <1>1, ProcessedFacts
  <1>3. run.processed = read /\ (limit # 0 => read < limit)
    BY <1>1 DEF RunStores
  <1>4. ~run.job.dryRun => \A i \in 1..(read + 1) : Lists(listing'[c], file[i].id)
    <2> SUFFICES ASSUME ~run.job.dryRun, NEW i \in 1..(read + 1)
                 PROVE  Lists(listing'[c], file[i].id)
      OBVIOUS
    <2>1. Sets
      BY DEF CheckLine
    <2>2. CASE i = read + 1
      <3>1. Lists(listing'[c], NextLine.id)
        BY <2>1, ListingsGrow
      <3> QED
        BY <2>2, <3>1 DEF NextLine
    <2>3. CASE i # read + 1
      <3>1. i \in 1..read
        BY <1>1, <2>3
      <3>2. Lists(listing[c], file[i].id)
        BY <3>1 DEF RunStores
      <3> QED
        BY <1>1, <3>2, ListingsGrow
    <2> QED
      BY <2>2, <2>3
  <1>5. limit \in 1..(read + 1) => limit # 0 /\ read + 1 = limit
    <2> HIDE DEF limit, read
    <2> QED
      BY <1>1, <1>3
  <1>6. limit \notin 1..(read + 1) /\ limit # 0 => read + 1 < limit
    <2> HIDE DEF limit, read
    <2> QED
      BY <1>1, <1>3
  <1>7. /\ run'.pc = "running" /\ limit # 0 => read + 1 < limit
        /\ run'.pc = "succeeded" => limit # 0 /\ read + 1 = limit
    BY <1>1, <1>2, <1>3, <1>5, <1>6
  <1> QED
    BY <1>1, <1>2, <1>3, <1>4, <1>7 DEF RunStores

(* Every step keeps stored what the run has processed.                     *)
LEMMA RunStoresStep ==
  ASSUME TypeOK, RunStores, [Next]_vars
  PROVE  RunStores'
  <1>1. CASE Import
    <2>1. /\ file' = file /\ run \in Run /\ Len(file) \in Nat
          /\ run.job.collection \in DOMAIN listing
      BY <1>1, ImportCases, ReaderAssumption DEF TypeOK, ImporterTypeOK, ReaderTypeOK, Run
    <2>2. \A id : Lists(listing[run.job.collection], id) => Lists(listing'[run.job.collection], id)
      BY <1>1, <2>1, ListingsGrow
    <2>3. CASE RefuseLine \/ SetFails(FALSE) \/ SetFails(TRUE) \/ EndOfFile
      <3>1. \/ Ends("failed")
            \/ Ends("succeeded") /\ run.read = Len(file)
        BY <2>3 DEF RefuseLine, SetFails, SetErrs, EndOfFile
      <3>2. /\ run'.job = run.job /\ run'.read = run.read /\ run'.processed = run.processed
            /\ run'.pc = "failed" \/ (run'.pc = "succeeded" /\ run.read = Len(file))
        BY <2>1, <3>1, EndsFacts
      <3> QED
        BY <2>1, <2>2, <3>2 DEF RunStores
    <2>4. CASE CheckLine
      <3>1. Processed
        BY <2>4 DEF CheckLine
      <3> QED
        BY <1>1, <2>4, <3>1, ProcessedStores
    <2>5. CASE SetLine /\ Store(run.job.collection, ObjectOf(NextLine))
      <3>1. Sets /\ Processed
        BY <2>5 DEF SetLine, Sets
      <3> QED
        BY <1>1, <3>1, ProcessedStores
    <2>6. ASSUME NEW job \in Job, RunAgain(job)  PROVE RunStores'
      <3>1. /\ run'.job = job /\ run'.pc = "running" /\ run'.read = 0 /\ run'.processed = 0
        BY <2>6, BeginFacts DEF RunAgain
      <3>2. job.limit \in Nat
        BY ImporterAssumption
      <3>3. 1..0 = {}
        OBVIOUS
      <3>4. job.limit # 0 => 0 < job.limit
        BY <3>2
      <3> QED
        BY <3>1, <3>3, <3>4 DEF RunStores
    <2> QED
      BY <1>1, <2>3, <2>4, <2>5, <2>6 DEF Import
  <1>2. CASE ReadPage \/ ReadFails \/ UNCHANGED vars
    <2>1. UNCHANGED <<listing, importerVars>>
      BY <1>2, ReadPageFacts DEF ReadFails, vars
    <2> QED
      BY <2>1 DEF RunStores, importerVars
  <1> QED
    BY <1>1, <1>2 DEF Next

(* A run of the importer that succeeds has its whole file, or what its     *)
(* limit asks for, in the collection, whatever runs before it left there.  *)
THEOREM SuccessMeansStored == Spec => []SuccessStoredAll
  <1>1. Init => RunStores
    <2> SUFFICES ASSUME Init  PROVE RunStores
      OBVIOUS
    <2>1. PICK job \in Job : run = Begin(job)
      BY DEF Init, NewImporter
    <2>2. run.job = job /\ run.pc = "running" /\ run.read = 0 /\ run.processed = 0
      BY <2>1, BeginFacts
    <2>3. job.limit \in Nat
      BY ImporterAssumption
    <2>4. 1..0 = {}
      OBVIOUS
    <2>5. job.limit # 0 => 0 < job.limit
      BY <2>3
    <2> QED
      BY <2>2, <2>4, <2>5 DEF RunStores
  <1>2. TypeOK /\ RunStores /\ [Next]_vars => RunStores'
    BY RunStoresStep
  <1>3. TypeOK /\ RunStores => SuccessStoredAll
    <2> SUFFICES ASSUME TypeOK, RunStores, run.pc = "succeeded", ~run.job.dryRun
                 PROVE  LET asked == IF run.job.limit = 0 THEN Len(file) ELSE Min({run.job.limit, Len(file)})
                        IN  \A i \in 1..asked : file[i].id \in IDs(ToSet(listing[run.job.collection]))
      BY DEF SuccessStoredAll
    <2> DEFINE limit == run.job.limit
               size == Len(file)
               asked == IF limit = 0 THEN size ELSE Min({limit, size})
    <2>1. limit \in Nat /\ size \in Nat /\ run.read \in Nat /\ run.read <= size
      BY ImporterAssumption DEF TypeOK, ImporterTypeOK, Run
    <2>2. run.read = size \/ (limit # 0 /\ run.read = limit)
      BY DEF RunStores
    <2> HIDE DEF limit, size
    <2>3. Min({limit, size}) = IF limit <= size THEN limit ELSE size
      BY <2>1, LesserOfTwo
    <2>4. asked \in Nat /\ asked <= run.read
      BY <2>1, <2>2, <2>3
    <2>5. ASSUME NEW i \in 1..asked
          PROVE  file[i].id \in IDs(ToSet(listing[run.job.collection]))
      <3>1. i \in 1..run.read
        <4> HIDE DEF asked
        <4> QED
          BY <2>1, <2>4
      <3>2. Lists(listing[run.job.collection], file[i].id)
        BY <3>1 DEF RunStores
      <3> QED
        BY <3>2 DEF Lists, IDs, ToSet
    <2> QED
      BY <2>5 DEF limit, size
  <1> QED
    BY <1>1, <1>2, <1>3, TypeCorrect, PTL DEF Spec
=============================================================================
