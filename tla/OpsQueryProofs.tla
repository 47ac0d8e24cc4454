---------------------------- MODULE OpsQueryProofs ----------------------------
(***************************************************************************)
(* Proofs about OpsQuery as a part of OpsApp, for any records, queries,    *)
(* page sizes and bounds.                                                  *)
(*                                                                         *)
(* A record's place in a sorted list is one more than the number of those  *)
(* before it: that gives the sorted list, and says what a page shows.      *)
(***************************************************************************)
EXTENDS OpsApp, FiniteSetTheorems, TLAPS

-----------------------------------------------------------------------------
(***************************************************************************)
(* Sorted lists.                                                           *)
(***************************************************************************)

\* R orders the elements of S one after the other.
Orders(R, S) ==
  /\ \A x \in S : <<x, x>> \notin R
  /\ \A x, y \in S : x # y => <<x, y>> \in R \/ <<y, x>> \in R
  /\ \A x, y, z \in S : <<x, y>> \in R /\ <<y, z>> \in R => <<x, z>> \in R

Below(x, R, S) == {y \in S : <<y, x>> \in R}

\* The list has the elements of S in the order R.
Lists(list, R, S) ==
  /\ list \in [1..Cardinality(S) -> S]
  /\ \A j, k \in 1..Cardinality(S) : j < k => <<list[j], list[k]>> \in R

LEMMA SizeIsNatural == \A S : IsFiniteSet(S) => Cardinality(S) \in Nat
BY FS_CardinalityType

LEMMA IntervalsAreFinite == \A n \in Nat : IsFiniteSet(1..n) /\ Cardinality(1..n) = n
BY FS_Interval

LEMMA BelowIsSmaller ==
  ASSUME NEW S, IsFiniteSet(S), NEW R, Orders(R, S), NEW x \in S
  PROVE  /\ IsFiniteSet(Below(x, R, S))
         /\ Cardinality(Below(x, R, S)) \in Nat
         /\ Cardinality(Below(x, R, S)) + 1 \in 1..Cardinality(S)
         /\ \A y \in S : <<x, y>> \in R =>
              Cardinality(Below(x, R, S)) < Cardinality(Below(y, R, S))
<1>1. ASSUME NEW y \in S
      PROVE  /\ IsFiniteSet(Below(y, R, S)) /\ Cardinality(Below(y, R, S)) \in Nat
             /\ Below(y, R, S) \in SUBSET S
  <2>1. Below(y, R, S) \in SUBSET S
    BY DEF Below
  <2> QED
    BY <2>1, FS_Subset, SizeIsNatural
<1>2. ASSUME NEW T, IsFiniteSet(T), NEW U \in SUBSET T, NEW e \in T, e \notin U
      PROVE  Cardinality(U) < Cardinality(T)
  <2>1. Cardinality(U) <= Cardinality(T) /\ Cardinality(U) # Cardinality(T)
        /\ IsFiniteSet(U)
    BY <1>2, FS_Subset
  <2> QED
    BY <1>2, <2>1, SizeIsNatural
<1>3. x \notin Below(x, R, S)
  BY DEF Below, Orders
<1>4. Cardinality(Below(x, R, S)) < Cardinality(S)
  BY <1>1, <1>2, <1>3
<1>5. ASSUME NEW y \in S, <<x, y>> \in R
      PROVE  Cardinality(Below(x, R, S)) < Cardinality(Below(y, R, S))
  <2>1. Below(x, R, S) \subseteq Below(y, R, S) /\ x \in Below(y, R, S)
    BY <1>5 DEF Below, Orders
  <2> QED
    BY <1>1, <1>2, <1>3, <2>1
<1> QED
  BY <1>1, <1>4, <1>5, SizeIsNatural

\* There is such a list: each element at the place that the number of those
\* below it gives.
LEMMA SortedExists ==
  ASSUME NEW S, IsFiniteSet(S), NEW R, Orders(R, S)
  PROVE  \E list : Lists(list, R, S)
<1> DEFINE place == [x \in S |-> Cardinality(Below(x, R, S)) + 1]
<1>1. PICK n \in Nat : n = Cardinality(S)
  BY SizeIsNatural
<1>2. place \in [S -> 1..n]
  BY <1>1, BelowIsSmaller
<1>3. ASSUME NEW x \in S, NEW y \in S, <<x, y>> \in R PROVE place[x] < place[y]
  BY <1>3, BelowIsSmaller
<1> HIDE DEF place
<1>4. place \in Injection(S, 1..n)
  <2>1. ASSUME NEW x \in S, NEW y \in S, x # y PROVE place[x] # place[y]
    <3>1. <<x, y>> \in R \/ <<y, x>> \in R
      BY <2>1 DEF Orders
    <3>2. place[x] \in Int /\ place[y] \in Int
      BY <1>2
    <3> QED
      BY <1>3, <3>1, <3>2
  <2> QED
    BY <1>2, <2>1 DEF Injection, IsInjective
<1>5. place \in Surjection(S, 1..n)
  BY <1>1, <1>4, IntervalsAreFinite, FS_Injection
<1>6. \A k \in 1..n : \E x \in S : place[x] = k
  BY <1>5 DEF Surjection
<1> DEFINE list == [k \in 1..n |-> CHOOSE x \in S : place[x] = k]
<1>7. /\ list \in [1..n -> S]
      /\ \A k \in 1..n : place[list[k]] = k
  BY <1>6
<1> HIDE DEF list
<1>8. ASSUME NEW j \in 1..n, NEW k \in 1..n, j < k PROVE <<list[j], list[k]>> \in R
  <2>1. list[j] # list[k] /\ list[j] \in S /\ list[k] \in S
    BY <1>7, <1>8
  <2>2. CASE <<list[k], list[j]>> \in R
    <3>1. place[list[k]] < place[list[j]]
      BY <1>3, <2>1, <2>2
    <3> QED
      BY <1>7, <1>8, <3>1
  <2> QED
    BY <2>1, <2>2 DEF Orders
<1> QED
  BY <1>1, <1>7, <1>8 DEF Lists

LEMMA SortedLists ==
  ASSUME NEW S, IsFiniteSet(S), NEW R, Orders(R, S)
  PROVE  Lists(Sorted(S, R), R, S)
<1>1. \E list \in [1..Cardinality(S) -> S] :
        \A j, k \in 1..Cardinality(S) : j < k => <<list[j], list[k]>> \in R
  BY SortedExists DEF Lists
<1> QED
  BY <1>1 DEF Sorted, Lists

\* It has every element once, and each where the number of those below it says.
LEMMA ListedOnce ==
  ASSUME NEW S, IsFiniteSet(S), NEW R, Orders(R, S), NEW list, Lists(list, R, S)
  PROVE  /\ \A j, k \in DOMAIN list : list[j] = list[k] => j = k
         /\ \A x \in S : \E k \in DOMAIN list : list[k] = x
         /\ \A k \in DOMAIN list : Cardinality(Below(list[k], R, S)) = k - 1
<1>1. PICK n \in Nat : n = Cardinality(S)
  BY SizeIsNatural
<1>2. /\ list \in [1..n -> S] /\ DOMAIN list = 1..n
      /\ \A j, k \in 1..n : j < k => <<list[j], list[k]>> \in R
  BY <1>1 DEF Lists
<1>3. ASSUME NEW j \in 1..n, NEW k \in 1..n, list[j] = list[k] PROVE j = k
  <2>1. list[j] \in S /\ <<list[j], list[j]>> \notin R
    BY <1>2 DEF Orders
  <2>2. ~(j < k) /\ ~(k < j)
    BY <1>2, <1>3, <2>1
  <2> QED
    BY <2>2
<1>4. list \in Injection(1..n, S)
  BY <1>2, <1>3 DEF Injection, IsInjective
<1>5. list \in Surjection(1..n, S)
  BY <1>1, <1>4, IntervalsAreFinite, FS_Injection
<1>6. ASSUME NEW k \in 1..n PROVE Cardinality(Below(list[k], R, S)) = k - 1
  <2> DEFINE first == [j \in 1..(k - 1) |-> list[j]]
             B == Below(list[k], R, S)
  <2>1. \A j \in 1..(k - 1) : j \in 1..n /\ j < k
    BY <1>6
  <2>2. \A j \in 1..(k - 1) : list[j] \in B
    BY <1>2, <2>1 DEF Below
  <2>3. ASSUME NEW y \in B PROVE \E j \in 1..(k - 1) : list[j] = y
    <3>1. y \in S /\ <<y, list[k]>> \in R
      BY <2>3 DEF Below
    <3>2. PICK j \in 1..n : list[j] = y
      BY <1>5, <3>1 DEF Surjection
    <3>3. ~(k < j)
      <4>1. CASE k < j
        <5>1. <<list[k], y>> \in R /\ list[k] \in S
          BY <1>2, <3>2, <4>1
        <5> QED
          BY <3>1, <5>1 DEF Orders
      <4> QED
        BY <4>1
    <3>4. j # k
      BY <3>1, <3>2 DEF Orders
    <3>5. j \in 1..(k - 1)
      BY <3>3, <3>4
    <3> QED
      BY <3>2, <3>5
  <2> HIDE DEF B
  <2>4. first \in Bijection(1..(k - 1), B)
    BY <1>3, <2>1, <2>2, <2>3 DEF Bijection, Injection, IsInjective, Surjection
  <2>5. ExistsBijection(1..(k - 1), B) /\ k - 1 \in Nat
    BY <2>4 DEF ExistsBijection
  <2>6. Cardinality(B) = k - 1
    BY <2>5, FS_CountingElements
  <2> QED
    BY <2>6 DEF B
<1> QED
  BY <1>2, <1>3, <1>5, <1>6 DEF Surjection

-----------------------------------------------------------------------------
(***************************************************************************)
(* Texts of stamps, and the order of records.                              *)
(***************************************************************************)

LEMMA TextsAreNumbers ==
  \A t \in Nat : Second(t) \in Nat /\ FirstDigit(t) \in Int /\ SecondDigit(t) \in Int
<1>1. Digit \in Nat \ {0}
  BY QueryAssumption
<1>2. Fraction \in Nat \ {0}
  BY <1>1 DEF Fraction
<1> SUFFICES ASSUME NEW t \in Nat
             PROVE  Second(t) \in Nat /\ FirstDigit(t) \in Int /\ SecondDigit(t) \in Int
  OBVIOUS
<1>3. Second(t) \in Nat
  BY <1>2 DEF Second
<1>4. FirstDigit(t) \in Int
  BY <1>1, <1>2 DEF FirstDigit
<1>5. SecondDigit(t) \in Int
  BY <1>1 DEF SecondDigit
<1> QED
  BY <1>3, <1>4, <1>5

\* Later instants are not in earlier seconds.
LEMMA SecondsPass ==
  ASSUME NEW t \in Nat, NEW u \in Nat, t <= u
  PROVE  Second(t) <= Second(u)
<1>1. PICK F \in Nat \ {0} : F = Fraction
  BY QueryAssumption DEF Fraction
<1>2. PICK p \in Nat, q \in Nat : p = t \div F /\ q = u \div F
  BY <1>1
<1>3. F * p <= t /\ u < F * (q + 1)
  BY <1>1, <1>2
<1>4. F * p < F * (q + 1)
  <2>1. F * p \in Int /\ F * (q + 1) \in Int
    BY <1>1, <1>2
  <2> QED
    BY <1>3, <2>1
<1>5. CASE p >= q + 1
  <2>1. F * p >= F * (q + 1)
    BY <1>1, <1>2, <1>5
  <2> QED
    BY <1>1, <1>2, <1>4, <2>1
<1>6. CASE ~(p >= q + 1)
  BY <1>1, <1>2, <1>6 DEF Second
<1> QED
  BY <1>5, <1>6

LEMMA WeightsAreNumbers == \A priority : Weight(priority) \in Nat
BY DEF Weight

Entry == [subject : SUBSET STRING, owner : STRING, priority : STRING, status : STRING,
          updated : Nat]

\* What is stored has been stamped.
LiveFits ==
  /\ clock \in Int /\ (Id # {} => clock \in Nat)
  /\ live \in [Id -> {Nothing} \cup Entry]
  /\ \A i \in Id : live[i] # Nothing => live[i].updated <= clock

LEMMA BeforeOrders ==
  ASSUME LiveFits, NEW S \in SUBSET {i \in Id : live[i] # Nothing}
  PROVE  IsFiniteSet(S) /\ Orders(Earlier(S), S)
<1>1. IsFiniteSet(S)
  BY QueryAssumption, FS_Subset
<1>2. ASSUME NEW i \in S
      PROVE  /\ i \in Int /\ Weight(live[i].priority) \in Int
             /\ Second(live[i].updated) \in Int
             /\ FirstDigit(live[i].updated) \in Int
             /\ SecondDigit(live[i].updated) \in Int
  <2>1. i \in Nat /\ live[i].updated \in Nat
    BY QueryAssumption DEF LiveFits, Entry
  <2> QED
    BY <2>1, TextsAreNumbers, WeightsAreNumbers
<1>3. \A i \in S : ~Before(i, i)
  BY <1>2 DEF Before, TextAfter
<1>4. \A i, j \in S : i # j => Before(i, j) \/ Before(j, i)
  BY <1>2 DEF Before, TextAfter
<1>5. \A i, j, k \in S : Before(i, j) /\ Before(j, k) => Before(i, k)
  BY <1>2 DEF Before, TextAfter
<1>6. \A i, j \in S : <<i, j>> \in Earlier(S) <=> Before(i, j)
  BY DEF Earlier
<1> QED
  BY <1>1, <1>3, <1>4, <1>5, <1>6 DEF Orders

LEMMA FoundLists ==
  ASSUME LiveFits, NEW query
  PROVE  LET S == Matching(query)
         IN /\ IsFiniteSet(S) /\ Cardinality(S) \in Nat
            /\ Lists(Found(query), Earlier(S), S)
            /\ Orders(Earlier(S), S)
<1> DEFINE S == Matching(query)
<1>1. S \in SUBSET {i \in Id : live[i] # Nothing}
  BY DEF Matching
<1>2. IsFiniteSet(S) /\ Orders(Earlier(S), S) /\ Cardinality(S) \in Nat
  BY <1>1, BeforeOrders, SizeIsNatural
<1>3. Lists(Found(query), Earlier(S), S)
  BY <1>2, SortedLists DEF Found
<1> QED
  BY <1>2, <1>3

-----------------------------------------------------------------------------
(***************************************************************************)
(* Pages.                                                                  *)
(***************************************************************************)

\* The places of the list that come before the page, and those on it.
PageLength(size) == opsQueryDefaults(0, size).size
PageStart(page, size) == (opsQueryDefaults(page, size).page - 1) * PageLength(size)

LEMMA PagesAreNumbers ==
  ASSUME NEW page \in Nat, NEW size \in Int
  PROVE  /\ opsQueryDefaults(page, size).page \in Nat \ {0}
         /\ opsQueryDefaults(page, size).size = PageLength(size)
         /\ PageLength(size) \in Nat \ {0} /\ PageLength(size) <= MaxSize
         /\ PageStart(page, size) \in Nat
         /\ PageStart(0, size) = 0
         /\ PageStart(opsQueryDefaults(page, size).page + 1, size)
              = PageStart(page, size) + PageLength(size)
<1> DEFINE p == opsQueryDefaults(page, size).page
           s == PageLength(size)
<1>1. DefaultSize \in Nat \ {0} /\ MaxSize \in Nat \ {0} /\ DefaultSize <= MaxSize
  BY QueryAssumption
<1>2. /\ p \in Nat \ {0} /\ s \in Nat \ {0} /\ s <= MaxSize
      /\ opsQueryDefaults(page, size).size = s
  BY <1>1 DEF opsQueryDefaults, PageLength
<1>3. PageStart(0, size) = 0
  <2>1. opsQueryDefaults(0, size).page = 1
    BY DEF opsQueryDefaults
  <2> QED
    BY <1>2, <2>1 DEF PageStart
<1>4. PageStart(page, size) = (p - 1) * s
  BY DEF PageStart
<1>5. PageStart(p + 1, size) = p * s
  <2>1. opsQueryDefaults(p + 1, size).page = p + 1
    BY <1>2 DEF opsQueryDefaults
  <2> QED
    BY <1>2, <2>1 DEF PageStart
<1> HIDE DEF p, s
<1>6. (p - 1) * s \in Nat /\ p * s = (p - 1) * s + s
  <2>1. PICK m \in Nat : p = m + 1
    BY <1>2
  <2> QED
    BY <1>2, <2>1
<1> QED
  BY <1>2, <1>3, <1>4, <1>5, <1>6 DEF p, s

\* A page shows the places of the list from its start on, as many as there are
\* and fit, and tells whether there are more.
LEMMA SearchShows ==
  ASSUME LiveFits, NEW query, NEW page \in Nat, NEW size \in Int,
         NEW n, n = Cardinality(Matching(query)),
         NEW start, start = PageStart(page, size),
         NEW length, length = PageLength(size),
         NEW answer, answer = Search(query, page, size)
  PROVE  /\ answer.items \in Seq(Matching(query))
         /\ Len(answer.items) = IF n <= start THEN 0
                                ELSE IF start + length < n THEN length ELSE n - start
         /\ \A k \in 1..Len(answer.items) : answer.items[k] = Found(query)[start + k]
         /\ answer.hasNext <=> start + length < n
         /\ answer.page = opsQueryDefaults(page, size).page
<1> DEFINE S == Matching(query)
           q == opsQueryDefaults(page, size)
<1>1. PICK found : found = Found(query) /\ found \in [1..n -> S] /\ n \in Nat
  BY FoundLists DEF Lists
<1>2. start \in Nat /\ length \in Nat \ {0}
  BY PagesAreNumbers
<1>3. /\ q.page \in Nat \ {0} /\ q.size = length
      /\ start = (q.page - 1) * length
      /\ q = [page |-> q.page, size |-> length]
  BY <1>2, PagesAreNumbers DEF PageStart, opsQueryDefaults
<1>4. opsQueryDefaults(q.page, q.size) = q
  <2>1. length <= MaxSize /\ MaxSize \in Nat
    BY <1>2, PagesAreNumbers, QueryAssumption
  <2> QED
    BY <1>2, <1>3, <2>1 DEF opsQueryDefaults
<1>5. Len(found) = n /\ found \in Seq(S)
  BY <1>1
<1> DEFINE first == Least(start, n)
           end   == Least(first + length, n)
<1>6. opsBounds(n, q.page, q.size) = [start |-> first, end |-> end]
  BY <1>3, <1>4 DEF opsBounds
<1>7. answer = [items |-> SubSeq(found, first + 1, end), page |-> q.page, hasNext |-> end < n]
  <2>1. PICK bounds : bounds = opsBounds(Len(Found(query)), q.page, q.size)
    OBVIOUS
  <2>2. answer = [items |-> SubSeq(Found(query), bounds.start + 1, bounds.end),
                  page |-> q.page, hasNext |-> bounds.end < Len(Found(query))]
    BY <2>1, Zenon DEF Search
  <2>3. bounds.start = first /\ bounds.end = end
    BY <1>1, <1>5, <1>6, <2>1
  <2>4. Found(query) = found /\ Len(Found(query)) = n
    BY <1>1, <1>5
  <2> HIDE DEF q, first, end
  <2> QED
    BY <2>2, <2>3, <2>4, Zenon
<1> HIDE DEF q, S
<1>8. /\ first \in Nat /\ end \in Nat /\ first <= end /\ end <= n
      /\ end - first = IF n <= start THEN 0
                       ELSE IF start + length < n THEN length ELSE n - start
      /\ first < end => first = start
      /\ (end < n) <=> (start + length < n)
  BY <1>1, <1>2 DEF Least
<1> HIDE DEF first, end
<1>9. PICK items : items = SubSeq(found, first + 1, end)
  OBVIOUS
<1>10. /\ items \in Seq(S) /\ Len(items) = end - first
       /\ \A k \in 1..(end - first) : items[k] = found[first + k]
  <2>1. \A i \in 1..n : found[i] \in S
    BY <1>1
  <2>2. items \in Seq(S)
    BY <1>5, <1>8, <1>9, <2>1
  <2>3. Len(items) = end - first
    BY <1>5, <1>8, <1>9
  <2>4. ASSUME NEW k \in 1..(end - first) PROVE items[k] = found[first + k]
    <3>1. (first + 1) + k - 1 = first + k /\ end - (first + 1) + 1 = end - first
      BY <1>8
    <3> QED
      BY <1>5, <1>8, <1>9, <3>1
  <2> QED
    BY <2>2, <2>3, <2>4
<1>11. ASSUME NEW k \in 1..Len(items) PROVE items[k] = found[start + k]
  BY <1>8, <1>10, <1>11
<1>12. Len(items) = IF n <= start THEN 0
                    ELSE IF start + length < n THEN length ELSE n - start
  BY <1>8, <1>10
<1>13. PICK more \in BOOLEAN : more <=> end < n
  OBVIOUS
<1>14. answer = [items |-> items, page |-> q.page, hasNext |-> more]
  <2>1. (end < n) = more
    BY <1>13
  <2> QED
    BY <1>7, <1>9, <2>1, Zenon
<1>15. answer.items = items /\ answer.page = q.page /\ (answer.hasNext <=> more)
  BY <1>14
<1>16. answer.hasNext <=> start + length < n
  BY <1>8, <1>13, <1>15
<1> QED
  BY <1>1, <1>10, <1>11, <1>12, <1>15, <1>16, Zenon DEF S, q

-----------------------------------------------------------------------------
(***************************************************************************)
(* The client's walk.                                                      *)
(***************************************************************************)

\* How many matches the list has before the record of id i.
Place(i, query) == Cardinality(Below(i, Earlier(Matching(query)), Matching(query)))

\* As long as nothing is written the client has seen the list from its
\* beginning up to the next page, and at the end all of it.
ShownSoFar ==
  LET n == Cardinality(Matching(walk.query))
  IN /\ Len(walk.shown) <= n
     /\ Len(walk.shown) = IF walk.at = "walking" THEN PageStart(walk.page, walk.size) ELSE n
     /\ \A k \in 1..Len(walk.shown) :
          walk.shown[k] \in Matching(walk.query) /\ Place(walk.shown[k], walk.query) = k - 1

\* A record that has not been shown yet has not fallen back to a page that the
\* client is past.
StillAhead(i) ==
  \/ i \in ToSet(walk.shown)
  \/ Second(live[i].updated) \in moved
  \/ walk.at = "walking" /\ PageStart(walk.page, walk.size) <= Place(i, walk.query)

Walk == [at : {"walking", "done"}, query : Query, size : PageSize, page : Nat, shown : Seq(Id)]

WalkFits ==
  /\ LiveFits
  /\ \/ walk = NoWalk /\ kept = {}
     \/ /\ walk \in Walk
        /\ kept \subseteq Matching(walk.query)
        /\ quiet => ShownSoFar
        /\ ~left => \A i \in kept : StillAhead(i)

LEMMA Places ==
  ASSUME LiveFits, NEW query,
         NEW n, n = Cardinality(Matching(query))
  PROVE  /\ n \in Nat
         /\ \A i \in Matching(query) :
              Place(i, query) \in Nat /\ Place(i, query) < n
         /\ \A i, j \in Matching(query) :
              Before(i, j) => Place(i, query) < Place(j, query)
         /\ \A i, j \in Matching(query) :
              Place(i, query) < Place(j, query) => Before(i, j)
         /\ \A i, j \in Matching(query) : Place(i, query) = Place(j, query) => i = j
         /\ \A i \in Matching(query) : Found(query)[Place(i, query) + 1] = i
         /\ \A k \in 1..n : /\ Found(query)[k] \in Matching(query)
                            /\ Place(Found(query)[k], query) = k - 1
<1> DEFINE S == Matching(query)
           R == Earlier(S)
<1>1. PICK found : found = Found(query)
  OBVIOUS
<1>2. IsFiniteSet(S) /\ n \in Nat /\ Lists(found, R, S) /\ Orders(R, S)
  BY <1>1, FoundLists
<1>3. \A i, j \in S : <<i, j>> \in R <=> Before(i, j)
  BY DEF Earlier
<1>4. DOMAIN found = 1..n /\ found \in [1..n -> S]
  BY <1>2 DEF Lists
<1>5. \A i \in S : Place(i, query) = Cardinality(Below(i, R, S))
  BY DEF Place
<1> HIDE DEF R, S
<1>6. \A i \in S : Place(i, query) \in Nat /\ Place(i, query) + 1 \in 1..n
  BY <1>2, <1>5, BelowIsSmaller DEF S
<1>7. \A i, j \in S : Before(i, j) => Place(i, query) < Place(j, query)
  BY <1>2, <1>3, <1>5, BelowIsSmaller
<1>8. \A i, j \in S : i # j => Before(i, j) \/ Before(j, i)
  BY <1>2, <1>3 DEF Orders
<1>9. \A i, j \in S : /\ Place(i, query) = Place(j, query) => i = j
                      /\ Place(i, query) < Place(j, query) => Before(i, j)
  <2> SUFFICES ASSUME NEW i \in S, NEW j \in S, i # j
               PROVE  /\ Place(i, query) # Place(j, query)
                      /\ Place(i, query) < Place(j, query) => Before(i, j)
    BY <1>6
  <2>1. CASE Before(i, j)
    BY <1>6, <1>7, <2>1
  <2>2. CASE Before(j, i)
    BY <1>6, <1>7, <2>2
  <2> QED
    BY <1>8, <2>1, <2>2
<1>10. \A k \in 1..n : found[k] \in S /\ Place(found[k], query) = k - 1
  BY <1>2, <1>4, <1>5, ListedOnce
<1>11. \A i \in S : found[Place(i, query) + 1] = i
  <2> TAKE i \in S
  <2>1. PICK k \in 1..n : found[k] = i
    BY <1>2, <1>4, ListedOnce
  <2>2. Place(i, query) = k - 1
    BY <1>10, <2>1
  <2> QED
    BY <2>1, <2>2
<1>12. \A i \in S : Place(i, query) < n
  BY <1>2, <1>6
<1> QED
  BY <1>1, <1>2, <1>6, <1>7, <1>9, <1>10, <1>11, <1>12 DEF S

LEMMA PlacesStay ==
  ASSUME live' = live, NEW query
  PROVE  /\ Matching(query)' = Matching(query)
         /\ \A i : Place(i, query)' = Place(i, query)
<1>1. Matching(query)' = Matching(query)
  BY DEF Matching, opsMatch
<1>2. ASSUME NEW i, NEW j PROVE Before(i, j)' <=> Before(i, j)
  BY DEF Before, TextAfter, Weight, Second, FirstDigit, SecondDigit, Fraction
<1>3. ASSUME NEW i
      PROVE  Below(i, Earlier(Matching(query)), Matching(query))'
               = Below(i, Earlier(Matching(query)), Matching(query))
  BY <1>1, <1>2 DEF Below, Earlier
<1>4. ASSUME NEW i PROVE Place(i, query)' = Place(i, query)
  <2> DEFINE B == Below(i, Earlier(Matching(query)), Matching(query))
  <2>1. Place(i, query)' = Cardinality(B') /\ Place(i, query) = Cardinality(B)
    BY DEF Place
  <2> QED
    BY <1>3, <2>1
<1> QED
  BY <1>1, <1>4

LEMMA WalkFitsFirst == QueryInit => WalkFits
<1> SUFFICES ASSUME QueryInit PROVE WalkFits
  OBVIOUS
<1>1. walk = NoWalk /\ kept = {}
  BY DEF QueryInit
<1>2. PICK size \in Nat : size = Cardinality(Id) /\ clock = size - 1
  BY SizeIsNatural, QueryAssumption DEF QueryInit
<1>3. Id # {} => size # 0
  BY <1>2, FS_EmptySet, QueryAssumption
<1>4. ASSUME NEW draft \in Draft, NEW t \in 0..(size - 1) PROVE Stamped(draft, t) \in Entry
  BY QueryAssumption DEF Stamped, Entry
<1>5. /\ live \in [Id -> {Nothing} \cup {Stamped(draft, t) : draft \in Draft, t \in 0..(size - 1)}]
      /\ \A i \in Id : live[i] # Nothing => live[i].updated \in 0..(size - 1)
  BY <1>2 DEF QueryInit, Stamped
<1>6. LiveFits
  BY <1>2, <1>3, <1>4, <1>5 DEF LiveFits
<1> QED
  BY <1>1, <1>6 DEF WalkFits

LEMMA WalkBeginsFits == WalkFits /\ WalkBegins => WalkFits'
<1> SUFFICES ASSUME WalkFits, WalkBegins PROVE WalkFits'
  OBVIOUS
<1>1. PICK query \in Query, size \in PageSize :
        /\ walk' = [at |-> "walking", query |-> query, size |-> size, page |-> 0, shown |-> <<>>]
        /\ kept' = Matching(query)
  BY DEF WalkBegins
<1>2. live' = live /\ clock' = clock /\ LiveFits
  BY DEF WalkBegins, WalkFits
<1>3. /\ walk'.at = "walking" /\ walk'.query = query /\ walk'.size = size /\ walk'.page = 0
      /\ walk'.shown = <<>>
  BY <1>1
<1>4. walk' \in Walk
  BY <1>1 DEF Walk
<1>5. /\ Matching(query)' = Matching(query)
      /\ \A i : Place(i, query)' = Place(i, query)
  BY <1>2, PlacesStay
<1>6. PICK n \in Nat : n = Cardinality(Matching(query))
  BY <1>2, Places
<1>7. PageStart(0, size) = 0
  BY PagesAreNumbers, QueryAssumption
<1>8. ShownSoFar'
  BY <1>3, <1>5, <1>6, <1>7 DEF ShownSoFar
<1>9. \A i \in kept' : StillAhead(i)'
  <2>1. \A i \in Matching(query) : Place(i, query) >= 0
    BY <1>2, Places
  <2> QED
    BY <1>1, <1>3, <1>5, <1>7, <2>1 DEF StillAhead
<1>10. LiveFits'
  BY <1>2 DEF LiveFits
<1> QED
  BY <1>1, <1>3, <1>4, <1>5, <1>8, <1>9, <1>10 DEF WalkFits

LEMMA WalkGoesOnFits == WalkFits /\ WalkGoesOn => WalkFits'
<1> SUFFICES ASSUME WalkFits, WalkGoesOn PROVE WalkFits'
  OBVIOUS
<1>1. /\ walk \in Walk /\ walk.at = "walking" /\ LiveFits
      /\ kept \subseteq Matching(walk.query)
      /\ quiet => ShownSoFar
      /\ ~left => \A i \in kept : StillAhead(i)
  BY DEF WalkFits, WalkGoesOn, NoWalk
<1>2. PICK query \in Query, size \in PageSize, page \in Nat, shown \in Seq(Id) :
        walk = [at |-> "walking", query |-> query, size |-> size, page |-> page, shown |-> shown]
  BY <1>1 DEF Walk
<1>3. size \in Int
  BY QueryAssumption
<1>4. PICK answer : answer = Search(query, page, size)
  OBVIOUS
<1>5. PICK n : n = Cardinality(Matching(query))
  OBVIOUS
<1>6. PICK start : start = PageStart(page, size)
  OBVIOUS
<1>7. PICK length : length = PageLength(size)
  OBVIOUS
<1>8. PICK found : found = Found(query)
  OBVIOUS
<1> DEFINE S == Matching(query)
           items == answer.items
           m == IF n <= start THEN 0 ELSE IF start + length < n THEN length ELSE n - start
<1>9. /\ items \in Seq(S) /\ Len(items) = m
      /\ \A k \in 1..Len(items) : items[k] = found[start + k]
      /\ answer.hasNext <=> start + length < n
      /\ answer.page = opsQueryDefaults(page, size).page
  BY <1>1, <1>3, <1>4, <1>5, <1>6, <1>7, <1>8, SearchShows
<1>10. /\ answer.page \in Nat \ {0}
       /\ start \in Nat /\ length \in Nat \ {0}
       /\ PageStart(answer.page + 1, size) = start + length
  BY <1>3, <1>6, <1>7, <1>9, PagesAreNumbers
<1>11. PICK at \in {"walking", "done"} : at = IF answer.hasNext THEN "walking" ELSE "done"
  OBVIOUS
<1>12. PICK shown2 : shown2 = shown \o items
  OBVIOUS
<1>13. /\ walk' = [at |-> at, query |-> query, size |-> size, page |-> answer.page + 1,
                   shown |-> shown2]
       /\ live' = live /\ clock' = clock /\ quiet' = quiet /\ kept' = kept /\ left' = left
       /\ moved' = moved
  <2>1. walk' = [walk EXCEPT !.shown = @ \o answer.items, !.page = answer.page + 1,
                             !.at = IF answer.hasNext THEN "walking" ELSE "done"]
    BY <1>2, <1>4 DEF WalkGoesOn
  <2> HIDE DEF items
  <2>2. walk' = [walk EXCEPT !.shown = shown2, !.page = answer.page + 1, !.at = at]
    BY <1>2, <1>11, <1>12, <2>1 DEF items
  <2> QED
    BY <1>2, <2>2 DEF WalkGoesOn
<1>14. /\ walk'.at = at /\ walk'.query = query /\ walk'.size = size
       /\ walk'.page = answer.page + 1 /\ walk'.shown = shown2
  BY <1>13
<1>15. /\ n \in Nat
       /\ \A i \in S : Place(i, query) \in Nat /\ Place(i, query) < n
       /\ \A i \in S : found[Place(i, query) + 1] = i
       /\ \A k \in 1..n : found[k] \in S /\ Place(found[k], query) = k - 1
  BY <1>1, <1>5, <1>8, Places
<1>16. /\ Matching(query)' = S
       /\ \A i : Place(i, query)' = Place(i, query)
  BY <1>13, PlacesStay
<1>17. S \subseteq Id
  BY DEF Matching
<1> HIDE DEF S, items
<1>18. items \in Seq(Id)
  BY <1>9, <1>17
<1>19. /\ shown2 \in Seq(Id)
       /\ Len(shown2) = Len(shown) + Len(items)
       /\ \A k \in 1..Len(shown) : shown2[k] = shown[k]
       /\ \A k \in 1..Len(items) : shown2[Len(shown) + k] = items[k]
  BY <1>12, <1>18
<1>20. PICK s \in Nat : s = Len(shown)
  OBVIOUS
<1>21. ASSUME quiet PROVE ShownSoFar'
  <2>1. /\ s = start /\ s <= n
        /\ \A k \in 1..s : shown[k] \in S /\ Place(shown[k], query) = k - 1
    BY <1>1, <1>2, <1>5, <1>6, <1>20, <1>21 DEF ShownSoFar, S
  <2>2. Len(shown2) = s + m
    BY <1>9, <1>19, <1>20
  <2>3. Len(shown2) <= n
    BY <1>10, <1>15, <2>1, <2>2
  <2>4. Len(shown2) = IF at = "walking" THEN start + length ELSE n
    BY <1>9, <1>10, <1>11, <1>15, <2>1, <2>2
  <2>5. ASSUME NEW k \in 1..Len(shown2)
        PROVE  shown2[k] \in S /\ Place(shown2[k], query) = k - 1
    <3>1. CASE k <= s
      BY <1>19, <1>20, <2>1, <3>1
    <3>2. CASE k > s
      <4>1. k - s \in 1..Len(items) /\ s + (k - s) = k
        BY <1>9, <1>20, <2>2, <3>2
      <4>2. shown2[k] = found[k]
        BY <1>9, <1>19, <1>20, <2>1, <4>1
      <4>3. k \in 1..n
        BY <1>15, <2>2, <2>3
      <4> QED
        BY <1>15, <4>2, <4>3
    <3> QED
      BY <1>20, <3>1, <3>2
  <2> QED
    BY <1>5, <1>10, <1>14, <1>16, <2>3, <2>4, <2>5 DEF ShownSoFar, S
<1>22. ASSUME ~left, NEW i \in kept PROVE StillAhead(i)'
  <2>1. i \in S /\ StillAhead(i)
    BY <1>1, <1>2, <1>22 DEF S
  <2>2. CASE i \in ToSet(shown)
    <3>1. PICK k \in 1..s : shown[k] = i
      BY <1>20, <2>2 DEF ToSet
    <3>2. k \in DOMAIN shown2 /\ shown2[k] = i
      BY <1>9, <1>19, <1>20, <3>1
    <3> QED
      BY <1>14, <3>2 DEF StillAhead, ToSet
  <2>3. CASE Second(live[i].updated) \in moved
    <3>1. Second(live'[i].updated) \in moved'
      BY <1>13, <2>3
    <3>2. Second(live[i].updated)' = Second(live'[i].updated)
      BY DEF Second, Fraction
    <3> QED
      BY <3>1, <3>2 DEF StillAhead
  <2>4. CASE start <= Place(i, query)
    <3>1. PICK p \in Nat : p = Place(i, query) /\ p < n /\ start <= p /\ found[p + 1] = i
      BY <1>15, <2>1, <2>4
    <3>2. CASE p < start + length
      <4>1. p - start + 1 \in 1..m
        <5>1. n \in Nat /\ start \in Nat /\ length \in Nat
          BY <1>10, <1>15
        <5> QED
          BY <5>1, <3>1, <3>2
      <4>2. PICK k \in 1..Len(items) : k = p - start + 1
        BY <1>9, <4>1
      <4>3. start + k = p + 1
        BY <1>10, <4>2
      <4>4. items[k] = i
        BY <1>9, <3>1, <4>3
      <4>5. s + k \in DOMAIN shown2 /\ shown2[s + k] = i
        BY <1>19, <1>20, <4>4
      <4> QED
        BY <1>14, <4>5 DEF StillAhead, ToSet
    <3>3. CASE ~(p < start + length)
      <4>1. at = "walking" /\ PageStart(answer.page + 1, size) <= p
        BY <1>9, <1>10, <1>11, <1>15, <3>1, <3>3
      <4>2. /\ walk'.at = "walking"
            /\ PageStart(walk'.page, walk'.size) <= Place(i, query)'
        BY <1>14, <1>16, <3>1, <4>1
      <4> QED
        BY <1>14, <4>2 DEF StillAhead
    <3> QED
      BY <3>2, <3>3
  <2> QED
    BY <1>2, <1>6, <2>1, <2>2, <2>3, <2>4 DEF StillAhead
<1>23. LiveFits'
  BY <1>1, <1>13 DEF LiveFits
<1>24. walk' \in Walk /\ kept' \subseteq Matching(query)'
  BY <1>1, <1>2, <1>10, <1>13, <1>16, <1>19 DEF Walk, S
<1> QED
  BY <1>13, <1>14, <1>21, <1>22, <1>23, <1>24 DEF WalkFits

\* A write of one record moves no other match towards the end, unless a match
\* left or one was moved within the other's second.
LEMMA StoreFits ==
  ASSUME WalkFits, NEW j \in Id, NEW record \in {Nothing} \cup Entry, Store(j, record),
         record # Nothing => record.updated <= clock + 1,
         record # Nothing /\ live[j] # Nothing =>
           record.priority = live[j].priority /\ record.updated = clock + 1
  PROVE  WalkFits'
<1>1. /\ clock \in Nat /\ clock' = clock + 1
      /\ live \in [Id -> {Nothing} \cup Entry]
      /\ live' = [live EXCEPT ![j] = record]
      /\ walk' = walk /\ quiet' = FALSE /\ kept' = kept \ {j}
      /\ \A i \in Id : live[i] # Nothing => live[i].updated <= clock
  BY DEF WalkFits, LiveFits, Store
<1>2. /\ live' \in [Id -> {Nothing} \cup Entry]
      /\ live'[j] = record
      /\ \A i \in Id \ {j} : live'[i] = live[i]
  BY <1>1
<1>3. LiveFits'
  <2>1. ASSUME NEW i \in Id, live'[i] # Nothing PROVE live'[i].updated <= clock'
    <3>1. CASE i = j
      BY <1>1, <1>2, <2>1, <3>1
    <3>2. CASE i # j
      <4>1. live[i] # Nothing /\ live[i] \in Entry /\ live'[i] = live[i]
        BY <1>1, <1>2, <2>1, <3>2
      <4>2. live[i].updated \in Nat /\ live[i].updated <= clock
        BY <1>1, <4>1 DEF Entry
      <4> QED
        BY <1>1, <4>1, <4>2
    <3> QED
      BY <3>1, <3>2
  <2> QED
    BY <1>1, <1>2, <2>1 DEF LiveFits
<1>4. CASE walk = NoWalk /\ kept = {}
  BY <1>1, <1>3, <1>4 DEF WalkFits
<1>5. CASE ~(walk = NoWalk /\ kept = {})
  <2>1. /\ walk \in Walk
        /\ kept \subseteq Matching(walk.query)
        /\ ~left => \A i \in kept : StillAhead(i)
    BY <1>5 DEF WalkFits
  <2>2. PICK query \in Query, size \in PageSize, page \in Nat, shown \in Seq(Id),
             at \in {"walking", "done"} :
          walk = [at |-> at, query |-> query, size |-> size, page |-> page, shown |-> shown]
    BY <2>1 DEF Walk
  <2>3. /\ walk.at = at /\ walk.query = query /\ walk.size = size /\ walk.page = page
        /\ walk.shown = shown
    BY <2>2
  <2> DEFINE S == Matching(query)
  <2>4. S \subseteq Id /\ S' \subseteq Id
    BY DEF Matching
  <2>5. \A i \in Id \ {j} : i \in S <=> i \in S'
    BY <1>2 DEF Matching, opsMatch
  <2>6. kept' \subseteq S'
    BY <1>1, <2>1, <2>3, <2>4, <2>5
  <2>7. ASSUME ~left', NEW i \in kept' PROVE StillAhead(i)'
    <3>1. i \in kept /\ i # j /\ i \in S /\ i \in S' /\ live'[i] = live[i] /\ i \in Id
      BY <1>1, <1>2, <2>1, <2>3, <2>4, <2>6, <2>7
    <3>2. left' = (left \/ (Listed(j) /\ ~Listed(j)'))
          /\ moved' = IF Listed(j) /\ Listed(j)' THEN moved \cup {Second(clock')} ELSE moved
      BY DEF Store
    <3>3. ~left /\ ~(Listed(j) /\ ~Listed(j)') /\ moved \subseteq moved'
      BY <2>7, <3>2
    <3>4. PICK second \in Nat : second = Second(live[i].updated)
      <4>1. live[i] \in Entry
        BY <1>1, <3>1 DEF Matching
      <4> QED
        BY <4>1, TextsAreNumbers DEF Entry
    <3>5. Second(live[i].updated)' = second
      BY <3>1, <3>4 DEF Second, Fraction
    <3>6. StillAhead(i)
      BY <2>1, <3>1, <3>3
    <3>7. CASE i \in ToSet(shown)
      BY <1>1, <2>3, <3>7 DEF StillAhead, ToSet
    <3>8. CASE second \in moved'
      BY <3>5, <3>8 DEF StillAhead
    <3>9. CASE at = "walking" /\ PageStart(page, size) <= Place(i, query) /\ second \notin moved'
      <4> DEFINE B == Below(i, Earlier(S), S)
      <4>1. B \subseteq S /\ B' \subseteq S'
        BY DEF Below
      <4>2. IsFiniteSet(B')
        BY <2>4, <4>1, FS_Subset, QueryAssumption
      <4>3. ASSUME NEW k \in B PROVE k \in B'
        <5>1. k \in S /\ Before(k, i)
          BY DEF Below, Earlier
        <5>2. CASE k # j
          <6>1. live'[k] = live[k] /\ k \in S'
            BY <1>2, <2>4, <2>5, <5>1, <5>2
          <6>2. Before(k, i)'
            BY <3>1, <5>1, <6>1
               DEF Before, TextAfter, Weight, Second, FirstDigit, SecondDigit, Fraction
          <6> QED
            BY <3>1, <6>1, <6>2 DEF Below, Earlier
        <5>3. CASE k = j
          <6>1. Listed(j) /\ Listed(j)'
            BY <2>3, <3>3, <3>9, <5>1, <5>3 DEF Listed
          <6>2. j \in S' /\ live[j] # Nothing /\ live'[j] # Nothing
            BY <1>1, <2>3, <5>1, <5>3, <6>1 DEF Listed, Matching
          <6>3. live'[j].priority = live[j].priority /\ live'[j].updated = clock + 1
            BY <1>2, <6>2
          <6>4. PICK now \in Nat : now = Second(clock + 1)
            BY <1>1, TextsAreNumbers
          <6>5. moved' = moved \cup {now}
            <7>1. Second(clock') = now
              BY <1>1, <6>4
            <7> QED
              BY <3>2, <6>1, <7>1
          <6>6. second <= now
            <7>1. live[i] \in Entry /\ live[i].updated <= clock
              BY <1>1, <3>1 DEF Matching
            <7>2. PICK u \in Nat : u = live[i].updated
              BY <7>1 DEF Entry
            <7>3. u <= clock + 1
              BY <1>1, <7>1, <7>2
            <7> QED
              BY <1>1, <3>4, <6>4, <7>2, <7>3, SecondsPass
          <6>7. now > second
            BY <3>9, <6>5, <6>6
          <6>8. Second(live[j].updated)' = now
            BY <6>3, <6>4 DEF Second, Fraction
          <6>9. TextAfter(live[j].updated, live[i].updated)'
            BY <3>5, <6>7, <6>8 DEF TextAfter
          <6>10. /\ Weight(live[j].priority)' = Weight(live[j].priority)
                 /\ Weight(live[i].priority)' = Weight(live[i].priority)
            BY <3>1, <6>3 DEF Weight
          <6>11. \/ Weight(live[j].priority) > Weight(live[i].priority)
                 \/ Weight(live[j].priority) = Weight(live[i].priority)
            BY <5>1, <5>3 DEF Before
          <6>12. Before(j, i)'
            BY <6>9, <6>10, <6>11 DEF Before
          <6> QED
            BY <3>1, <5>3, <6>2, <6>12 DEF Below, Earlier
        <5> QED
          BY <5>2, <5>3
      <4>4. PICK old, new : old = Cardinality(B) /\ new = Cardinality(B')
        OBVIOUS
      <4>5. IsFiniteSet(B) /\ old \in Nat /\ new \in Nat /\ old <= new
        BY <4>2, <4>3, <4>4, FS_Subset, SizeIsNatural
      <4>6. Place(i, query) = old /\ Place(i, query)' = new
        <5>1. Cardinality(B)' = Cardinality(B')
          OBVIOUS
        <5> QED
          BY <4>4, <5>1 DEF Place
      <4>7. PICK start : start = PageStart(page, size)
        OBVIOUS
      <4>8. start \in Nat
        BY <4>7, PagesAreNumbers, QueryAssumption
      <4>9. start <= new
        BY <3>9, <4>5, <4>6, <4>7, <4>8
      <4> QED
        BY <1>1, <2>3, <3>9, <4>6, <4>7, <4>9 DEF StillAhead
    <3> QED
      BY <2>3, <3>3, <3>4, <3>6, <3>7, <3>8, <3>9 DEF StillAhead
  <2> QED
    BY <1>1, <1>3, <2>1, <2>3, <2>6, <2>7 DEF WalkFits
<1> QED
  BY <1>4, <1>5

LEMMA WalkFitsStays == WalkFits /\ [AppNext]_appVars => WalkFits'
<1> SUFFICES ASSUME WalkFits, [AppNext]_appVars PROVE WalkFits'
  OBVIOUS
<1>1. LiveFits
  BY DEF WalkFits
<1>2. CASE UNCHANGED queryVars
  <2>1. /\ live' = live /\ clock' = clock /\ walk' = walk /\ quiet' = quiet /\ kept' = kept
        /\ left' = left /\ moved' = moved
    BY <1>2 DEF queryVars, walkVars
  <2>2. PICK query : query = walk.query
    OBVIOUS
  <2>3. /\ Matching(query)' = Matching(query)
        /\ \A i : Place(i, query)' = Place(i, query)
    BY <2>1, PlacesStay
  <2>4. walk'.query = query
    BY <2>1, <2>2
  <2>5. ShownSoFar => ShownSoFar'
    BY <2>1, <2>2, <2>3, <2>4 DEF ShownSoFar
  <2>6. \A i : StillAhead(i) => StillAhead(i)'
    BY <2>1, <2>2, <2>3, <2>4 DEF StillAhead, Second, Fraction
  <2>7. LiveFits'
    BY <1>1, <2>1 DEF LiveFits
  <2> QED
    BY <2>1, <2>2, <2>3, <2>4, <2>5, <2>6, <2>7 DEF WalkFits
<1>3. CASE WalkBegins
  BY <1>3, WalkBeginsFits
<1>4. CASE WalkGoesOn
  BY <1>4, WalkGoesOnFits
<1>5. ASSUME NEW i \in Id, Created(i) PROVE WalkFits'
  <2>1. live[i] = Nothing /\ clock \in Nat
    BY <1>1, <1>5 DEF Created, LiveFits
  <2>2. PICK draft \in Draft, t \in 0..(clock + 1) : Store(i, Stamped(draft, t))
    BY <1>5 DEF Created
  <2>3. Stamped(draft, t) \in Entry /\ Stamped(draft, t).updated <= clock + 1
    BY <2>1, QueryAssumption DEF Stamped, Entry
  <2> QED
    BY <2>1, <2>2, <2>3, StoreFits
<1>6. ASSUME NEW i \in Id, Moved(i) PROVE WalkFits'
  <2>1. live[i] # Nothing /\ live[i] \in Entry /\ clock \in Nat
    BY <1>1, <1>6 DEF Moved, LiveFits
  <2>2. PICK status \in NewStatus :
          Store(i, [live[i] EXCEPT !.status = status, !.updated = clock + 1])
    BY <1>6 DEF Moved
  <2>3. PICK record : record = [live[i] EXCEPT !.status = status, !.updated = clock + 1]
    OBVIOUS
  <2>4. record \in Entry /\ record.updated = clock + 1 /\ record.priority = live[i].priority
    <3>1. status \in STRING
      BY QueryAssumption
    <3>2. PICK old : old = live[i]
      OBVIOUS
    <3>3. PICK now \in Nat : now = clock + 1
      BY <2>1
    <3>4. old \in Entry /\ record = [old EXCEPT !.status = status, !.updated = now]
      BY <2>1, <2>3, <3>2, <3>3
    <3> QED
      BY <3>1, <3>2, <3>3, <3>4 DEF Entry
  <2>5. Store(i, record) /\ record.updated <= clock + 1
    BY <2>1, <2>2, <2>3, <2>4
  <2> QED
    BY <2>4, <2>5, StoreFits
<1>7. ASSUME NEW i \in Id, Archived(i) PROVE WalkFits'
  BY <1>7, StoreFits DEF Archived
<1> QED
  BY <1>2, <1>3, <1>4, <1>5, <1>6, <1>7 DEF AppNext, QueryNext, appVars

LEMMA WalkFitsAlways == AppSpec => []WalkFits
<1>1. AppInit => WalkFits
  BY WalkFitsFirst DEF AppInit
<1> QED
  BY <1>1, WalkFitsStays, PTL DEF AppSpec

\* A client that walks through the pages while records are written misses one
\* that was there all the time only if another match left the list, or was
\* moved within the second of the missed record's stamp: a later stamp comes
\* first in the list that the next page is cut from, so what is written moves
\* unread records towards the end.
THEOREM WalkMisses == AppSpec => []WalkMissesOnlyAfterLeaving
<1>1. WalkFits => WalkMissesOnlyAfterLeaving
  BY DEF WalkFits, WalkMissesOnlyAfterLeaving, StillAhead, NoWalk
<1> QED
  BY <1>1, WalkFitsAlways, PTL

\* The work sheet is the records of the status, sorted by id.
LEMMA SheetLists ==
  ASSUME LiveFits, NEW status
  PROVE  LET S == {i \in Id : live[i] # Nothing /\ status \in {"", live[i].status}}
         IN /\ Cardinality(S) \in Nat
            /\ Sheet(status) \in [1..Cardinality(S) -> S]
            /\ \A i \in S : \E k \in DOMAIN Sheet(status) : Sheet(status)[k] = i
<1> DEFINE S == {i \in Id : live[i] # Nothing /\ status \in {"", live[i].status}}
           R == {p \in S \X S : p[1] < p[2]}
<1>1. IsFiniteSet(S) /\ S \subseteq Nat
  <2>1. S \subseteq Id
    OBVIOUS
  <2> HIDE DEF S
  <2> QED
    BY <2>1, QueryAssumption, FS_Subset
<1>2. PICK n \in Nat : n = Cardinality(S)
  BY <1>1, SizeIsNatural
<1> HIDE DEF S
<1>3. Orders(R, S)
  <2>1. \A i, j \in S : <<i, j>> \in R <=> i < j
    OBVIOUS
  <2> HIDE DEF R
  <2> QED
    BY <1>1, <2>1 DEF Orders
<1>4. PICK sheet : sheet = Sheet(status)
  OBVIOUS
<1>5. Lists(sheet, R, S)
  <2>1. sheet = Sorted(S, R)
    BY <1>4 DEF Sheet, S, R
  <2> QED
    BY <1>1, <1>3, <2>1, SortedLists
<1>6. sheet \in [1..n -> S]
  BY <1>2, <1>5 DEF Lists
<1>7. \A i \in S : \E k \in DOMAIN sheet : sheet[k] = i
  BY <1>1, <1>3, <1>5, ListedOnce
<1> QED
  BY <1>2, <1>4, <1>6, <1>7 DEF S

\* A walk in which nothing is written shows every match once, the urgent and
\* later ones first, however the list is cut into pages, and the work sheet of
\* a status names the same records if they fit on it.
THEOREM QuietWalkListsAll == AppSpec => []QuietWalkListsMatches
<1>1. ASSUME WalkFits PROVE QuietWalkListsMatches
  <2> SUFFICES ASSUME walk.at = "done", quiet
               PROVE  QuietWalkListsMatches
    BY DEF QuietWalkListsMatches
  <2>1. walk \in Walk /\ ShownSoFar /\ LiveFits
    BY <1>1 DEF WalkFits, NoWalk
  <2>2. PICK query, shown, n : /\ query = walk.query /\ shown = walk.shown
                               /\ n = Cardinality(Matching(query))
    OBVIOUS
  <2> DEFINE S == Matching(query)
  <2>3. /\ n \in Nat
        /\ \A i \in S : Place(i, query) \in Nat /\ Place(i, query) < n
        /\ \A i, j \in S : Place(i, query) < Place(j, query) => Before(i, j)
        /\ \A i, j \in S : Place(i, query) = Place(j, query) => i = j
    BY <2>1, <2>2, Places
  <2>4. /\ shown \in Seq(Id) /\ Len(shown) = n
        /\ \A k \in 1..n : shown[k] \in S /\ Place(shown[k], query) = k - 1
    BY <2>1, <2>2 DEF ShownSoFar, Walk
  <2>5. DOMAIN shown = 1..n
    BY <2>4
  <2> HIDE DEF S
  <2>6. ToSet(shown) = S
    <3>1. ASSUME NEW i \in S PROVE \E k \in 1..n : shown[k] = i
      <4>1. PICK k \in 1..n : k = Place(i, query) + 1
        BY <2>3
      <4>2. shown[k] \in S /\ Place(shown[k], query) = Place(i, query)
        BY <2>3, <2>4, <4>1
      <4> QED
        BY <2>3, <4>2
    <3> QED
      BY <2>4, <2>5, <3>1 DEF ToSet
  <2>7. ASSUME NEW j \in 1..n, NEW k \in 1..n, j < k
        PROVE  LET a == live[shown[j]]
                   b == live[shown[k]]
               IN /\ shown[j] # shown[k]
                  /\ Weight(a.priority) >= Weight(b.priority)
                  /\ Weight(a.priority) = Weight(b.priority)
                       => Second(a.updated) >= Second(b.updated)
    <3>1. PICK x \in S, y \in S : x = shown[j] /\ y = shown[k]
      BY <2>4
    <3>2. Place(x, query) < Place(y, query)
      BY <2>4, <2>7, <3>1
    <3>3. x # y /\ Before(x, y)
      BY <2>3, <3>1, <3>2
    <3>4. /\ Weight(live[x].priority) \in Nat /\ Weight(live[y].priority) \in Nat
          /\ Second(live[x].updated) \in Nat /\ Second(live[y].updated) \in Nat
      <4>1. live[x].updated \in Nat /\ live[y].updated \in Nat
        BY <2>1 DEF S, Matching, LiveFits, Entry
      <4> QED
        BY <4>1, TextsAreNumbers, WeightsAreNumbers
    <3>5. /\ Weight(live[x].priority) >= Weight(live[y].priority)
          /\ Weight(live[x].priority) = Weight(live[y].priority)
               => Second(live[x].updated) >= Second(live[y].updated)
      BY <3>3, <3>4 DEF Before, TextAfter
    <3> QED
      BY <3>1, <3>3, <3>5
  <2>8. ASSUME query = [subject |-> {}, owner |-> "", priority |-> "", status |-> query.status]
        PROVE  LET sheet == Export(query.status, 0)
               IN ToSet(sheet) = ToSet(shown) \/ Len(sheet) = ExportSize
    <3>1. S = {i \in Id : live[i] # Nothing /\ query.status \in {"", live[i].status}}
      <4>1. PICK status : status = query.status
        OBVIOUS
      <4>2. query = [subject |-> {}, owner |-> "", priority |-> "", status |-> status]
        BY <2>8, <4>1, Zenon
      <4>3. query.subject = {} /\ query.owner = "" /\ query.priority = ""
        BY <4>2
      <4> QED
        BY <4>3 DEF S, Matching, opsMatch
    <3>2. PICK list : list = Sheet(query.status)
      OBVIOUS
    <3>3. list \in [1..n -> S] /\ \A i \in S : \E k \in 1..n : list[k] = i
      <4>1. /\ list \in [1..Cardinality(S) -> S]
            /\ \A i \in S : \E k \in DOMAIN list : list[k] = i
        BY <2>1, <3>1, <3>2, SheetLists, Zenon
      <4>2. Cardinality(S) = n
        BY <2>2 DEF S
      <4> QED
        BY <4>1, <4>2
    <3>4. list \in Seq(S) /\ Len(list) = n
      BY <2>3, <3>3
    <3>5. PICK size \in Nat \ {0} : size = ExportSize
      BY QueryAssumption
    <3>6. PICK sheet : sheet = SubSeq(list, 1, Least(size, n))
      OBVIOUS
    <3>7. Export(query.status, 0) = sheet
      <4>1. /\ Export(query.status, 0) = SubSeq(Sheet(query.status), 1, Least(ExportSize, Len(Sheet(query.status))))
            /\ Len(Sheet(query.status)) = n
        BY <3>2, <3>4 DEF Export
      <4> QED
        BY <3>2, <3>5, <3>6, <4>1
    <3>8. CASE size < n
      <4>1. sheet = SubSeq(list, 1, size) /\ size \in 1..n
        BY <2>3, <3>5, <3>6, <3>8 DEF Least
      <4>2. Len(sheet) = size
        BY <2>3, <3>4, <4>1
      <4> QED
        BY <3>5, <3>7, <4>2
    <3>9. CASE ~(size < n)
      <4>1. sheet = list
        BY <2>3, <3>4, <3>6, <3>9 DEF Least
      <4>2. ToSet(sheet) = S
        BY <3>3, <4>1 DEF ToSet
      <4> QED
        BY <2>6, <3>7, <4>2
    <3> QED
      BY <3>8, <3>9
  <2> QED
    BY <2>2, <2>5, <2>6, <2>7, <2>8 DEF QuietWalkListsMatches, S
<1> QED
  BY <1>1, WalkFitsAlways, PTL

=============================================================================
