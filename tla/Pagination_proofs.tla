------------------------- MODULE Pagination_proofs -------------------------
(***************************************************************************)
(* Proofs about Pagination, for every page size above one, every start and *)
(* any number of items opened, closed and reopened.                        *)
(***************************************************************************)
EXTENDS Pagination, FiniteSetTheorems, TLAPS

\* The part of a set of numbers up to n, by which Position counts.
Upto(S, n) == {m \in S : m <= n}

-----------------------------------------------------------------------------
(* Positions. *)

\* Sets of existing items are finite, and so is every part of them.
LEMMA ItemsFinite ==
    ASSUME NEW c \in Nat, NEW S \in SUBSET (1..c)
    PROVE  /\ IsFiniteSet(S)
           /\ Cardinality(S) \in Nat
           /\ \A n : IsFiniteSet(Upto(S, n)) /\ Cardinality(Upto(S, n)) \in Nat
           /\ \A n : Cardinality(Upto(S, n)) <= Cardinality(S)
<1>1. IsFiniteSet(1..c)
  BY FS_Interval
<1>2. IsFiniteSet(S)
  BY <1>1, FS_Subset
<1>3. ASSUME NEW n PROVE IsFiniteSet(Upto(S, n)) /\ Cardinality(Upto(S, n)) <= Cardinality(S)
  <2>1. Upto(S, n) \in SUBSET S
    BY DEF Upto
  <2> QED BY <1>2, <2>1, FS_Subset
<1> QED BY <1>2, <1>3, FS_CardinalityType

\* In the list of all items each one's position is its number.
LEMMA PositionOfAll ==
    ASSUME NEW c \in Nat, NEW n \in 1..c
    PROVE  Cardinality(Upto(1..c, n)) = n
<1>1. Upto(1..c, n) = 1..n
  BY DEF Upto
<1> QED BY <1>1, FS_Interval

\* Positions increase along the list.
LEMMA PositionIncreases ==
    ASSUME NEW c \in Nat, NEW S \in SUBSET (1..c), NEW m \in S, NEW n \in S, m < n
    PROVE  Cardinality(Upto(S, m)) < Cardinality(Upto(S, n))
<1>1. IsFiniteSet(Upto(S, n)) /\ Cardinality(Upto(S, n)) \in Nat /\ Cardinality(Upto(S, m)) \in Nat
  BY ItemsFinite
<1>2. n \in Upto(S, n) /\ Upto(S, m) \in SUBSET (Upto(S, n) \ {n})
  <2>1. m \in Int /\ n \in Int /\ S \subseteq Int
    OBVIOUS
  <2>2. ASSUME NEW k \in Upto(S, m) PROVE k \in Upto(S, n) \ {n}
    BY <2>1, <2>2 DEF Upto
  <2>3. n \in Upto(S, n)
    BY <2>1 DEF Upto
  <2> QED BY <2>2, <2>3
<1>3. /\ IsFiniteSet(Upto(S, n) \ {n})
      /\ Cardinality(Upto(S, n) \ {n}) = Cardinality(Upto(S, n)) - 1
  BY <1>1, <1>2, FS_RemoveElement
<1>4. Cardinality(Upto(S, m)) <= Cardinality(Upto(S, n) \ {n})
  BY <1>2, <1>3, FS_Subset
<1> QED BY <1>1, <1>3, <1>4

\* No two items share a position.
LEMMA PositionUnique ==
    ASSUME NEW c \in Nat, NEW S \in SUBSET (1..c), NEW m \in S, NEW n \in S,
           Cardinality(Upto(S, m)) = Cardinality(Upto(S, n))
    PROVE  m = n
<1>1. Cardinality(Upto(S, n)) \in Nat
  BY ItemsFinite
<1>2. m \in Int /\ n \in Int
  OBVIOUS
<1>3. ASSUME m < n PROVE FALSE
  <2>1. Cardinality(Upto(S, m)) < Cardinality(Upto(S, n))
    BY <1>3, PositionIncreases
  <2> QED BY <1>1, <2>1
<1>4. ASSUME n < m PROVE FALSE
  <2>1. Cardinality(Upto(S, n)) < Cardinality(Upto(S, m))
    BY <1>4, PositionIncreases
  <2> QED BY <1>1, <2>1
<1> QED BY <1>2, <1>3, <1>4

\* Taking an item out of the list moves those after it up by one.
LEMMA PositionAfterRemoval ==
    ASSUME NEW c \in Nat, NEW S \in SUBSET (1..c), NEW m \in S, NEW n \in 1..c
    PROVE  Cardinality(Upto(S \ {m}, n)) =
             IF m <= n THEN Cardinality(Upto(S, n)) - 1 ELSE Cardinality(Upto(S, n))
<1>1. IsFiniteSet(Upto(S, n))
  BY ItemsFinite
<1>2. Upto(S \ {m}, n) = Upto(S, n) \ {m}
  BY DEF Upto
<1>3. m \in Upto(S, n) <=> m <= n
  BY DEF Upto
<1> QED BY <1>1, <1>2, <1>3, FS_RemoveElement

\* Putting one in moves those after it down by one.
LEMMA PositionAfterInsertion ==
    ASSUME NEW c \in Nat, NEW S \in SUBSET (1..c), NEW m \in (1..c) \ S, NEW n \in 1..c
    PROVE  Cardinality(Upto(S \cup {m}, n)) =
             IF m <= n THEN Cardinality(Upto(S, n)) + 1 ELSE Cardinality(Upto(S, n))
<1>1. IsFiniteSet(Upto(S, n))
  BY ItemsFinite
<1>2. m \notin Upto(S, n)
  BY DEF Upto
<1>3. CASE m <= n
  <2>1. Upto(S \cup {m}, n) = Upto(S, n) \cup {m}
    BY <1>3 DEF Upto
  <2> QED BY <1>1, <1>2, <1>3, <2>1, FS_AddElement
<1>4. CASE ~(m <= n)
  <2>1. Upto(S \cup {m}, n) = Upto(S, n)
    BY <1>4 DEF Upto
  <2> QED BY <1>4, <2>1
<1> QED BY <1>3, <1>4

\* A set that gains at most one element gains at most one in size.
LEMMA AtMostOneMore ==
    ASSUME NEW A, NEW B, IsFiniteSet(A),
           \A x \in B \ A : \A y \in B \ A : x = y
    PROVE  /\ IsFiniteSet(B)
           /\ Cardinality(A) \in Nat /\ Cardinality(B) \in Nat
           /\ Cardinality(B) <= Cardinality(A) + 1
           /\ B \subseteq A => Cardinality(B) <= Cardinality(A)
<1>1. Cardinality(A) \in Nat
  BY FS_CardinalityType
<1>2. CASE B \subseteq A
  BY <1>1, <1>2, FS_Subset, FS_CardinalityType
<1>3. CASE ~(B \subseteq A)
  <2>1. PICK x : x \in B \ A
    BY <1>3
  <2>2. B \in SUBSET (A \cup {x})
    BY <2>1
  <2>3. IsFiniteSet(A \cup {x}) /\ Cardinality(A \cup {x}) = Cardinality(A) + 1
    BY <2>1, FS_AddElement
  <2>4. IsFiniteSet(B) /\ Cardinality(B) <= Cardinality(A) + 1
    BY <2>2, <2>3, FS_Subset
  <2> QED BY <1>1, <1>3, <2>4, FS_CardinalityType
<1> QED BY <1>2, <1>3
-----------------------------------------------------------------------------
(* Pages. *)

\* Consecutive pages are PerPage positions apart.
LEMMA PageBounds ==
    ASSUME NEW p \in Nat
    PROVE  /\ p * PerPage \in Int /\ (p - 1) * PerPage \in Int
           /\ p * PerPage = (p - 1) * PerPage + PerPage
           /\ ((p + 1) - 1) * PerPage = p * PerPage
BY PerPageAssumption

\* Later pages start later.
LEMMA PagesOrdered ==
    ASSUME NEW p \in Nat, NEW q \in Nat, p <= q
    PROVE  (p - 1) * PerPage <= (q - 1) * PerPage
BY SMTT(30), PerPageAssumption

\* What division does to natural numbers.
LEMMA QuotientIsNat ==
    ASSUME NEW a \in Nat, NEW b \in Nat, b > 0
    PROVE  a \div b \in Nat
<1>1. a \div b \in Int /\ a = b * (a \div b) + (a % b) /\ a % b \in 0..(b - 1)
  BY SMT
<1>2. ASSUME a \div b <= -1 PROVE FALSE
  <2>1. b * (a \div b) <= b * (-1)
    BY SMT, <1>1, <1>2
  <2> QED BY SMT, <1>1, <2>1
<1> QED BY SMT, <1>1, <1>2

\* A number lies less than b after the multiple of b that the division finds.
LEMMA Division ==
    ASSUME NEW a \in Nat, NEW b \in Nat, b > 0
    PROVE  /\ (a \div b) * b \in Nat
           /\ (a \div b) * b <= a /\ a < (a \div b) * b + b
<1>1. PICK q \in Nat : q = a \div b
  BY QuotientIsNat
<1>2. a = b * q + (a % b) /\ a % b \in 0..(b - 1)
  BY SMT, <1>1
<1>3. b * q = q * b /\ q * b \in Nat
  BY SMT, <1>1
<1> QED BY SMT, <1>1, <1>2, <1>3

\* One divided by more than one.
LEMMA QuotientOfOne ==
    ASSUME NEW b \in Nat, b > 1
    PROVE  1 \div b = 0
<1>1. 1 \div b \in Nat /\ 1 = b * (1 \div b) + (1 % b) /\ 1 % b \in 0..(b - 1)
  BY SMT, QuotientIsNat
<1>2. ASSUME 1 \div b >= 1 PROVE FALSE
  <2>1. b * (1 \div b) >= b * 1
    BY SMT, <1>1, <1>2
  <2> QED BY SMT, <1>1, <2>1
<1> QED BY SMT, <1>1, <1>2

\* A job starts at a positive page, and at the first one by default.
LEMMA Starts ==
    ASSUME job \in Jobs
    PROVE  /\ FirstPage \in Nat /\ FirstPage >= 1
           /\ From \in Nat /\ FirstPage - 1 = From \div PerPage
           /\ ~job.all => FirstPage = 1
<1>1. job.from \in Nat /\ job.all \in BOOLEAN /\ (job.all = FALSE => job.from = 1)
  <2>1. CASE job = PeriodicJob
    BY <2>1 DEF PeriodicJob, DefaultFrom
  <2>3. CASE job = CommandJob
    BY <2>3 DEF CommandJob
  <2>2. CASE job \in FlagJobs
    BY <2>2, IndexAssumption DEF FlagJobs
  <2> QED BY <2>1, <2>2, <2>3 DEF Jobs
<1>2. From \in Nat /\ From \div PerPage \in Nat
  <2>1. From \in Nat
    BY <1>1, IndexAssumption DEF From
  <2> QED BY <2>1, PerPageAssumption, QuotientIsNat
<1>3. ASSUME ~job.all PROVE From = 1
  BY <1>1, <1>3 DEF From
<1>4. 1 \div PerPage = 0
  BY PerPageAssumption, QuotientOfOne
<1> QED BY <1>1, <1>2, <1>3, <1>4 DEF FirstPage

-----------------------------------------------------------------------------
(* The inductive invariant. *)

IInv ==
    /\ TypeOK
    /\ NoneBeforeOpened
    /\ ListedIsRange
    /\ CrossingsBounded

\* Sizes of the sets that CrossingsBounded counts.
LEMMA CountedSetsFinite ==
    ASSUME TypeOK
    PROVE  /\ IsFiniteSet(Missed) /\ IsFiniteSet(Behind)
           /\ IsFiniteSet(Repeated) /\ IsFiniteSet(Again)
<1>1. IsFiniteSet(1..count) /\ IsFiniteSet(Numbers)
  BY FS_Interval, BoundsAssumption DEF TypeOK, Numbers
<1>2. Missed \in SUBSET (1..count) /\ Behind \in SUBSET (1..count)
  BY DEF TypeOK, Missed, Behind
<1>3. 1..count \subseteq Numbers
  BY BoundsAssumption DEF TypeOK, Numbers
<1>4. Repeated \in SUBSET Numbers /\ Again \in SUBSET Numbers
  BY <1>3 DEF TypeOK, Repeated, Again
<1> QED BY <1>1, <1>2, <1>4, FS_Subset

\* The invariant holds at the start: nothing is listed.
LEMMA InitInvariant == Init => IInv
<1> SUFFICES ASSUME Init PROVE IInv
  OBVIOUS
<1>1. job \in Jobs /\ FirstPage \in Nat /\ FirstPage >= 1 /\ (~job.all => FirstPage = 1)
  BY Starts DEF Init
<1>2. TypeOK
  BY <1>1, BoundsAssumption DEF Init, TypeOK
<1>3. NoneBeforeOpened /\ ListedIsRange
  <2>1. (FirstPage - 1) * PerPage \in Int
    BY <1>1, PerPageAssumption
  <2> QED BY <1>1, <2>1 DEF Init, NoneBeforeOpened, ListedIsRange, Numbers
<1>4. ASSUME ~job.all PROVE Behind = {} /\ Again = {}
  <2>1. Boundary = 0
    BY <1>1, <1>4, PerPageAssumption DEF Init, Boundary
  <2>2. ASSUME NEW n \in open PROVE Position(n) > 0
    <3>1. count \in Nat /\ open \in SUBSET (1..count) /\ Upto(open, n) = {m \in open : m <= n}
      BY DEF Init, Upto
    <3>2. IsFiniteSet(Upto(open, n)) /\ n \in Upto(open, n)
      <4>1. IsFiniteSet(Upto(open, n))
        BY <3>1, ItemsFinite
      <4>2. n \in Int
        BY <3>1
      <4> QED BY <3>1, <4>1, <4>2
    <3>3. Cardinality(Upto(open, n)) \in Nat /\ Cardinality(Upto(open, n)) # 0
      BY <3>2, FS_EmptySet, FS_CardinalityType
    <3> QED BY <1>4, <3>1, <3>3 DEF Position, Selected
  <2>3. Behind = {}
    <3>1. ASSUME NEW n \in Behind PROVE FALSE
      <4>1. n \in open /\ Position(n) <= 0
        BY <2>1 DEF Behind, Missed, Init
      <4>2. Position(n) \in Nat
        <5>1. count \in Nat /\ open \in SUBSET (1..count)
          BY BoundsAssumption DEF Init
        <5>2. Cardinality(Upto(open, n)) \in Nat
          BY <5>1, ItemsFinite
        <5> QED BY <1>4, <5>2 DEF Position, Selected, Upto
      <4> QED BY <4>1, <4>2, <2>2
    <3> QED BY <3>1
  <2>4. Again = {}
    <3>1. open \subseteq Numbers
      BY BoundsAssumption DEF Init, Numbers
    <3>2. \A n \in Numbers : listed[n] = 0
      BY DEF Init
    <3> QED BY <3>1, <3>2 DEF Again, Repeated
  <2> QED BY <2>3, <2>4
<1>5. CrossingsBounded
  BY <1>1, <1>4, FS_EmptySet DEF CrossingsBounded, Succeeded, Init
<1> QED BY <1>2, <1>3, <1>5 DEF IInv

\* Every step keeps the types.
LEMMA StepTypes == IInv /\ [Next]_vars => TypeOK'
<1> SUFFICES ASSUME IInv, [Next]_vars PROVE TypeOK'
  OBVIOUS
<1> USE DEF IInv
<1>1. CASE ListPage
  <2>1. page' \in Nat
    BY <1>1 DEF ListPage, NextPage, TypeOK
  <2> QED BY <1>1, <2>1 DEF ListPage, github, TypeOK
<1>2. CASE ListFails
  BY <1>2 DEF ListFails, github, TypeOK
<1>3. CASE OpenItem
  BY <1>3, BoundsAssumption DEF OpenItem, TypeOK
<1>4. ASSUME NEW n \in Numbers, CloseItem(n) PROVE TypeOK'
  BY <1>4 DEF CloseItem, TypeOK
<1>5. ASSUME NEW n \in Numbers, ReopenItem(n) PROVE TypeOK'
  BY <1>5 DEF ReopenItem, TypeOK
<1>6. CASE Over
  BY <1>6 DEF Over, vars, TypeOK
<1>7. CASE UNCHANGED vars
  BY <1>7 DEF vars, TypeOK
<1> QED BY <1>1, <1>2, <1>3, <1>4, <1>5, <1>6, <1>7 DEF Next

\* What a page has and which page is next, in the list of all items.
LEMMA PageOfAll ==
    ASSUME TypeOK, job.all
    PROVE  /\ OnPage(page) = {n \in 1..count : (page - 1) * PerPage < n /\ n <= page * PerPage}
           /\ NextPage(page) = IF count > page * PerPage THEN page + 1 ELSE 0
<1>1. count \in Nat /\ Selected = 1..count
  BY DEF TypeOK, Selected
<1>2. \A n \in 1..count : Position(n) = n
  BY <1>1, PositionOfAll DEF Position, Upto
<1>3. Cardinality(Selected) = count
  BY <1>1, FS_Interval
<1> QED BY <1>1, <1>2, <1>3 DEF OnPage, NextPage

\* Every step keeps what is listed of all items a range.
LEMMA StepRange == IInv /\ [Next]_vars => NoneBeforeOpened' /\ ListedIsRange'
<1> SUFFICES ASSUME IInv, [Next]_vars PROVE NoneBeforeOpened' /\ ListedIsRange'
  OBVIOUS
<1>0. TypeOK /\ NoneBeforeOpened /\ ListedIsRange
  BY DEF IInv
<1>a. /\ FirstPage \in Nat /\ FirstPage >= 1 /\ count \in Nat /\ page \in Nat
      /\ (FirstPage - 1) * PerPage \in Int
  BY <1>0, Starts, PageBounds DEF TypeOK
<1>b. 1..count \subseteq Numbers
  BY <1>0, BoundsAssumption DEF TypeOK, Numbers
<1>1. CASE ListPage
  <2>1. /\ job' = job /\ count' = count /\ failed' = failed /\ FirstPage' = FirstPage
        /\ page # 0 /\ page' = NextPage(page)
        /\ \A n \in Numbers : listed'[n] = IF n \in OnPage(page) THEN listed[n] + 1 ELSE listed[n]
    BY <1>1 DEF ListPage, github, FirstPage, From
  <2>2. OnPage(page) \subseteq 1..count
    BY <1>0 DEF TypeOK, OnPage, Selected
  <2>3. NoneBeforeOpened'
    BY <1>0, <1>a, <2>1, <2>2 DEF NoneBeforeOpened, TypeOK
  <2>4. ASSUME job.all, ~failed PROVE ListedIsRange'
    <3>1. /\ OnPage(page) = {n \in 1..count : (page - 1) * PerPage < n /\ n <= page * PerPage}
          /\ NextPage(page) = IF count > page * PerPage THEN page + 1 ELSE 0
      BY <1>0, <2>4, PageOfAll
    <3>2. /\ page * PerPage \in Int /\ (page - 1) * PerPage \in Int
          /\ (page - 1) * PerPage < page * PerPage
          /\ ((page + 1) - 1) * PerPage = page * PerPage
      BY <1>a, PageBounds, PerPageAssumption
    <3>3. /\ FirstPage <= page
          /\ \A n \in Numbers :
               listed[n] = IF (FirstPage - 1) * PerPage < n /\ n <= (page - 1) * PerPage
                           THEN 1 ELSE 0
      BY <1>0, <2>1, <2>4 DEF ListedIsRange
    <3>4. (FirstPage - 1) * PerPage <= (page - 1) * PerPage
      BY <1>a, <3>3, PagesOrdered
    <3>5. ASSUME NEW n \in 1..count
          PROVE  listed'[n] = IF (FirstPage - 1) * PerPage < n /\ n <= page * PerPage THEN 1 ELSE 0
      <4>1. n \in Numbers /\ n \in Int
        BY <1>b
      <4>2. CASE n \in OnPage(page)
        BY <1>a, <2>1, <3>1, <3>2, <3>3, <3>4, <4>1, <4>2
      <4>3. CASE n \notin OnPage(page)
        BY <1>a, <2>1, <3>1, <3>2, <3>3, <3>4, <4>1, <4>3
      <4> QED BY <4>2, <4>3
    <3>6. CASE count > page * PerPage
      <4>1. page' = page + 1 /\ page' # 0 /\ FirstPage <= page' /\ (page' - 1) * PerPage = page * PerPage
        BY <1>a, <2>1, <3>1, <3>2, <3>3, <3>6
      <4>2. ASSUME NEW n \in Numbers
            PROVE  listed'[n] = IF (FirstPage - 1) * PerPage < n /\ n <= page * PerPage THEN 1 ELSE 0
        <5>1. CASE n \in 1..count
          BY <5>1, <3>5
        <5>2. CASE n \notin 1..count
          <6>1. n \in Int /\ n > count
            BY <1>a, <5>2 DEF Numbers
          <6>2. listed'[n] = 0
            BY <2>1, <2>3, <6>1 DEF NoneBeforeOpened
          <6> QED BY <1>a, <3>2, <3>6, <6>1, <6>2
        <5> QED BY <5>1, <5>2
      <4> QED BY <2>1, <3>6, <4>1, <4>2 DEF ListedIsRange
    <3>7. CASE ~(count > page * PerPage)
      <4>1. page' = 0
        BY <2>1, <3>1, <3>7
      <4>2. \A n \in 1..count : listed'[n] = IF n > (FirstPage - 1) * PerPage THEN 1 ELSE 0
        BY <1>a, <3>2, <3>5, <3>7
      <4> QED BY <2>1, <4>1, <4>2 DEF ListedIsRange
    <3> QED BY <3>6, <3>7
  <2>5. ListedIsRange'
    BY <2>1, <2>4 DEF ListedIsRange
  <2> QED BY <2>3, <2>5
<1>2. CASE ListFails
  BY <1>0, <1>2 DEF ListFails, github, NoneBeforeOpened, ListedIsRange
<1>3. CASE OpenItem
  <2>1. /\ job' = job /\ count' = count + 1 /\ failed' = failed /\ FirstPage' = FirstPage
        /\ page # 0 /\ page' = page /\ listed' = listed
    BY <1>3 DEF OpenItem, FirstPage, From
  <2>2. NoneBeforeOpened'
    BY <1>0, <1>a, <2>1 DEF NoneBeforeOpened, Numbers
  <2>3. (page - 1) * PerPage \in Int
    BY <1>a, PageBounds
  <2>4. ListedIsRange'
    BY <1>0, <1>a, <2>1, <2>3 DEF ListedIsRange
  <2> QED BY <2>2, <2>4
<1>4. ASSUME NEW n \in Numbers, CloseItem(n) PROVE NoneBeforeOpened' /\ ListedIsRange'
  BY <1>0, <1>4 DEF CloseItem, NoneBeforeOpened, ListedIsRange, FirstPage, From
<1>5. ASSUME NEW n \in Numbers, ReopenItem(n) PROVE NoneBeforeOpened' /\ ListedIsRange'
  BY <1>0, <1>5 DEF ReopenItem, NoneBeforeOpened, ListedIsRange, FirstPage, From
<1>6. CASE UNCHANGED vars
  BY <1>0, <1>6 DEF vars, NoneBeforeOpened, ListedIsRange, FirstPage, From
<1> QED BY <1>1, <1>2, <1>3, <1>4, <1>5, <1>6 DEF Next, Over

\* The list of open items, by the part of it up to an item.
LEMMA PositionOfOpen ==
    ASSUME TypeOK, ~job.all
    PROVE  /\ count \in Nat /\ open \in SUBSET (1..count) /\ untouched \subseteq open
           /\ Selected = open
           /\ \A n : Position(n) = Cardinality(Upto(open, n)) /\ Position(n) \in Nat
           /\ \A n : Position(n) <= Cardinality(open)
           /\ Boundary \in Int /\ Cardinality(open) \in Nat
<1>1. count \in Nat /\ open \in SUBSET (1..count) /\ untouched \subseteq open /\ Selected = open
  BY DEF TypeOK, Selected
<1>2. \A n : Position(n) = Cardinality(Upto(open, n))
  BY <1>1 DEF Position, Upto
<1>3. Boundary \in Int
  BY PageBounds DEF Boundary, TypeOK
<1> QED BY <1>1, <1>2, <1>3, ItemsFinite

\* Listing a page: nothing is passed over, nothing new is listed again.
LEMMA StepListPage == IInv /\ ListPage /\ ~job.all => CrossingsBounded'
<1> SUFFICES ASSUME IInv, ListPage, ~job.all PROVE CrossingsBounded'
  OBVIOUS
<1>1. /\ TypeOK /\ Cardinality(Behind) <= closings /\ Cardinality(Again) <= reopenings
      /\ closings \in Nat /\ reopenings \in Nat /\ page \in Nat
  BY DEF IInv, CrossingsBounded, ListPage, TypeOK
<1>2. /\ job' = job /\ open' = open /\ untouched' = untouched /\ count' = count
      /\ closings' = closings /\ reopenings' = reopenings /\ failed' = failed
      /\ page' = NextPage(page) /\ page # 0
      /\ \A n \in Numbers : listed'[n] = IF n \in OnPage(page) THEN listed[n] + 1 ELSE listed[n]
  BY DEF ListPage, github
<1>3. /\ open \in SUBSET (1..count) /\ untouched \subseteq open /\ Selected = open /\ open \subseteq Numbers
      /\ \A n : Position(n) \in Nat /\ Position(n) <= Cardinality(open)
      /\ Cardinality(open) \in Nat
  BY <1>1, PositionOfOpen, BoundsAssumption DEF TypeOK, Numbers
<1>4. \A n : Position(n)' = Position(n)
  BY <1>2 DEF Position, Selected
<1>5. /\ page * PerPage \in Int /\ (page - 1) * PerPage \in Int
      /\ (page - 1) * PerPage < page * PerPage
      /\ ((page + 1) - 1) * PerPage = page * PerPage
      /\ Boundary = (page - 1) * PerPage
  BY <1>1, PageBounds, PerPageAssumption DEF Boundary
<1>6. OnPage(page) = {n \in open : Boundary < Position(n) /\ Position(n) <= page * PerPage}
  BY <1>3, <1>5 DEF OnPage
<1>7. \A n \in Numbers : listed[n] \in Nat
  BY <1>1 DEF TypeOK
<1>8. ASSUME NEW n \in Missed', Position(n) <= page * PerPage PROVE n \in Behind
  <2>1. n \in untouched /\ listed'[n] = 0 /\ n \in Numbers /\ n \in open
    BY <1>2, <1>3, <1>8 DEF Missed
  <2>2. n \notin OnPage(page) /\ listed[n] = 0
    BY <1>2, <1>7, <2>1
  <2> QED BY <1>3, <1>5, <1>6, <1>8, <2>1, <2>2 DEF Behind, Missed
<1>9. Repeated' \subseteq Again
  <2>1. ASSUME NEW n \in Numbers, listed'[n] > 1 PROVE n \in Again
    BY <1>2, <1>3, <1>6, <1>7, <2>1 DEF Again, Repeated
  <2> QED BY <2>1 DEF Repeated
<1>10. IsFiniteSet(Behind) /\ IsFiniteSet(Again)
  BY <1>1, CountedSetsFinite
<1>11. CASE Cardinality(open) > page * PerPage
  <2>1. page' = page + 1 /\ page' # 0 /\ Boundary' = page * PerPage
    BY <1>1, <1>2, <1>3, <1>5, <1>11 DEF NextPage, Boundary
  <2>2. Behind' \in SUBSET Behind
    BY <1>4, <1>8, <2>1 DEF Behind
  <2>3. Again' \in SUBSET Again
    <3>1. ASSUME NEW n \in open, listed'[n] > 0, Position(n) > page * PerPage PROVE n \in Again
      BY <1>2, <1>3, <1>5, <1>6, <1>7, <3>1 DEF Again
    <3> QED BY <1>2, <1>4, <1>9, <2>1, <3>1 DEF Again
  <2>4. Cardinality(Behind') <= Cardinality(Behind) /\ Cardinality(Again') <= Cardinality(Again)
        /\ IsFiniteSet(Behind') /\ IsFiniteSet(Again')
    BY <1>10, <2>2, <2>3, FS_Subset
  <2>5. Cardinality(Behind') <= closings' /\ Cardinality(Again') <= reopenings'
    BY <1>1, <1>2, <1>10, <2>4, FS_CardinalityType
  <2> QED BY <1>2, <2>1, <2>5 DEF CrossingsBounded, Succeeded
<1>12. CASE ~(Cardinality(open) > page * PerPage)
  <2>1. page' = 0
    BY <1>2, <1>3, <1>12 DEF NextPage
  <2>2. Missed' \in SUBSET Behind
    BY <1>3, <1>5, <1>8, <1>12
  <2>3. Cardinality(Missed') <= Cardinality(Behind) /\ Cardinality(Repeated') <= Cardinality(Again)
        /\ IsFiniteSet(Missed') /\ IsFiniteSet(Repeated')
    BY <1>9, <1>10, <2>2, FS_Subset
  <2>4. Cardinality(Missed') <= closings' /\ Cardinality(Repeated') <= reopenings'
    BY <1>1, <1>2, <1>10, <2>3, FS_CardinalityType
  <2> QED BY <1>2, <2>1, <2>4 DEF CrossingsBounded, Succeeded
<1> QED BY <1>3, <1>5, <1>11, <1>12

\* Closing an item moves one other past the boundary at most.
LEMMA StepCloseItem ==
    ASSUME NEW m \in Numbers
    PROVE  IInv /\ CloseItem(m) /\ ~job.all => CrossingsBounded'
<1> SUFFICES ASSUME IInv, CloseItem(m), ~job.all PROVE CrossingsBounded'
  OBVIOUS
<1>1. /\ TypeOK /\ Cardinality(Behind) <= closings /\ Cardinality(Again) <= reopenings
      /\ closings \in Nat /\ reopenings \in Nat /\ page \in Nat
  BY DEF IInv, CrossingsBounded, CloseItem, TypeOK
<1>2. /\ job' = job /\ open' = open \ {m} /\ untouched' = untouched \ {m} /\ m \in open
      /\ closings' = closings + 1 /\ reopenings' = reopenings /\ listed' = listed
      /\ page' = page /\ page # 0 /\ count' = count
  BY DEF CloseItem
<1>3. /\ count \in Nat /\ open \in SUBSET (1..count) /\ untouched \subseteq open
      /\ \A n : Position(n) = Cardinality(Upto(open, n)) /\ Position(n) \in Nat
      /\ Boundary \in Int /\ Boundary' = Boundary
  BY <1>1, <1>2, PositionOfOpen DEF Boundary
<1>4. ASSUME NEW n \in open
      PROVE  Position(n)' = IF m <= n THEN Position(n) - 1 ELSE Position(n)
  <2>1. Position(n)' = Cardinality(Upto(open \ {m}, n))
    BY <1>2 DEF Position, Selected, Upto
  <2>2. n \in 1..count
    BY <1>3
  <2> QED BY <1>2, <1>3, <2>1, <2>2, PositionAfterRemoval
<1>5. \A x \in Behind' \ Behind : \A y \in Behind' \ Behind : x = y
  <2>1. ASSUME NEW x \in Behind' \ Behind PROVE x \in open /\ Position(x) = Boundary + 1
    <3>1. x \in untouched /\ listed[x] = 0 /\ Position(x)' <= Boundary
      BY <1>2, <1>3 DEF Behind, Missed
    <3>2. x \in open /\ ~(Position(x) <= Boundary)
      BY <1>3, <2>1, <3>1 DEF Behind, Missed
    <3> QED BY <1>3, <1>4, <3>1, <3>2
  <2>2. ASSUME NEW x \in Behind' \ Behind, NEW y \in Behind' \ Behind PROVE x = y
    <3>1. x \in open /\ y \in open /\ Cardinality(Upto(open, x)) = Cardinality(Upto(open, y))
      BY <1>3, <2>1
    <3> QED BY <1>3, <3>1, PositionUnique
  <2> QED BY <2>2
<1>6. Again' \in SUBSET Again
  <2>1. ASSUME NEW n \in open, Position(n)' > Boundary PROVE Position(n) > Boundary
    BY <1>3, <1>4, <2>1
  <2> QED BY <1>2, <1>3, <2>1 DEF Again, Repeated
<1>7. IsFiniteSet(Behind) /\ IsFiniteSet(Again)
  BY <1>1, CountedSetsFinite
<1>8. /\ Cardinality(Behind) \in Nat /\ Cardinality(Behind') \in Nat
      /\ Cardinality(Behind') <= Cardinality(Behind) + 1
  BY <1>5, <1>7, AtMostOneMore
<1>9. /\ Cardinality(Again) \in Nat /\ Cardinality(Again') \in Nat
      /\ Cardinality(Again') <= Cardinality(Again)
  BY <1>6, <1>7, FS_Subset, FS_CardinalityType
<1>10. Cardinality(Behind') <= closings' /\ Cardinality(Again') <= reopenings'
  BY <1>1, <1>2, <1>8, <1>9
<1> QED BY <1>2, <1>10 DEF CrossingsBounded, Succeeded

\* Opening one again moves one other back over it at most, or is listed itself.
LEMMA StepReopenItem ==
    ASSUME NEW m \in Numbers
    PROVE  IInv /\ ReopenItem(m) /\ ~job.all => CrossingsBounded'
<1> SUFFICES ASSUME IInv, ReopenItem(m), ~job.all PROVE CrossingsBounded'
  OBVIOUS
<1>1. /\ TypeOK /\ Cardinality(Behind) <= closings /\ Cardinality(Again) <= reopenings
      /\ closings \in Nat /\ reopenings \in Nat /\ page \in Nat
  BY DEF IInv, CrossingsBounded, ReopenItem, TypeOK
<1>2. /\ job' = job /\ open' = open \cup {m} /\ untouched' = untouched /\ m \in (1..count) \ open
      /\ closings' = closings /\ reopenings' = reopenings + 1 /\ listed' = listed
      /\ page' = page /\ page # 0 /\ count' = count
  BY DEF ReopenItem
<1>3. /\ count \in Nat /\ open \in SUBSET (1..count) /\ untouched \subseteq open
      /\ \A n : Position(n) = Cardinality(Upto(open, n)) /\ Position(n) \in Nat
      /\ Boundary \in Int /\ Boundary' = Boundary
  BY <1>1, <1>2, PositionOfOpen DEF Boundary
<1>4. ASSUME NEW n \in 1..count
      PROVE  /\ Position(n)' = Cardinality(Upto(open', n))
             /\ Position(n)' = IF m <= n THEN Position(n) + 1 ELSE Position(n)
  <2>1. Position(n)' = Cardinality(Upto(open \cup {m}, n))
    BY <1>2 DEF Position, Selected, Upto
  <2> QED BY <1>2, <1>3, <2>1, PositionAfterInsertion
<1>5. Behind' \in SUBSET Behind
  <2>1. ASSUME NEW n \in untouched, Position(n)' <= Boundary PROVE Position(n) <= Boundary
    <3>1. n \in 1..count
      BY <1>3
    <3> QED BY <1>3, <1>4, <2>1, <3>1
  <2> QED BY <1>2, <1>3, <2>1 DEF Behind, Missed
<1>6. \A x \in Again' \ Again : \A y \in Again' \ Again : x = y
  <2>1. ASSUME NEW x \in Again' \ Again
        PROVE  /\ x \in open' /\ x \in 1..count /\ Position(x)' > Boundary
               /\ x # m => m < x /\ Position(x)' = Boundary + 1
    <3>1. x \in open' /\ listed[x] > 0 /\ Position(x)' > Boundary
      BY <1>2, <1>3, <2>1 DEF Again, Repeated
    <3>2. x \in 1..count
      BY <1>2, <1>3, <3>1
    <3>3. ASSUME x # m PROVE m < x /\ Position(x)' = Boundary + 1
      <4>1. x \in open /\ ~(Position(x) > Boundary)
        BY <1>2, <2>1, <3>1, <3>3 DEF Again
      <4>2. m \in Int /\ x \in Int
        BY <1>2, <3>2
      <4> QED BY <1>3, <1>4, <3>1, <3>2, <3>3, <4>1, <4>2
    <3> QED BY <3>1, <3>2, <3>3
  <2>2. open' \in SUBSET (1..count)
    BY <1>2, <1>3
  <2>3. ASSUME NEW x \in Again' \ Again, m \in Again' \ Again, x # m PROVE FALSE
    <3>1. m < x /\ Position(x)' = Boundary + 1 /\ Position(m)' > Boundary
      BY <2>1, <2>3
    <3>2. m \in open' /\ x \in open'
      BY <2>1, <2>3
    <3>3. Cardinality(Upto(open', m)) < Cardinality(Upto(open', x))
      BY <1>3, <2>2, <3>1, <3>2, PositionIncreases
    <3>4. Position(m)' < Position(x)' /\ Position(m)' \in Int
      BY <1>2, <1>3, <1>4, <2>1, <2>3, <3>3
    <3> QED BY <1>3, <3>1, <3>4
  <2>4. ASSUME NEW x \in Again' \ Again, NEW y \in Again' \ Again, x # m, y # m PROVE x = y
    <3>1. x \in open' /\ y \in open' /\ Cardinality(Upto(open', x)) = Cardinality(Upto(open', y))
      BY <1>4, <2>1, <2>4
    <3> QED BY <1>3, <2>2, <3>1, PositionUnique
  <2> QED BY <2>3, <2>4
<1>7. IsFiniteSet(Behind) /\ IsFiniteSet(Again)
  BY <1>1, CountedSetsFinite
<1>8. /\ Cardinality(Again) \in Nat /\ Cardinality(Again') \in Nat
      /\ Cardinality(Again') <= Cardinality(Again) + 1
  BY <1>6, <1>7, AtMostOneMore
<1>9. /\ Cardinality(Behind) \in Nat /\ Cardinality(Behind') \in Nat
      /\ Cardinality(Behind') <= Cardinality(Behind)
  BY <1>5, <1>7, FS_Subset, FS_CardinalityType
<1>10. Cardinality(Behind') <= closings' /\ Cardinality(Again') <= reopenings'
  BY <1>1, <1>2, <1>8, <1>9
<1> QED BY <1>2, <1>10 DEF CrossingsBounded, Succeeded

\* A new item is last in the list and not listed yet.
LEMMA StepOpenItem == IInv /\ OpenItem /\ ~job.all => CrossingsBounded'
<1> SUFFICES ASSUME IInv, OpenItem, ~job.all PROVE CrossingsBounded'
  OBVIOUS
<1>1. /\ TypeOK /\ Cardinality(Behind) <= closings /\ Cardinality(Again) <= reopenings
      /\ page # 0
  BY DEF IInv, CrossingsBounded, OpenItem
<1>2. /\ job' = job /\ open' = open \cup {count + 1} /\ untouched' = untouched
      /\ closings' = closings /\ reopenings' = reopenings /\ listed' = listed
      /\ page' = page /\ count + 1 \in Numbers
  BY <1>1, BoundsAssumption DEF OpenItem, TypeOK, Numbers
<1>3. /\ count \in Nat /\ open \in SUBSET (1..count) /\ untouched \subseteq open
      /\ Boundary' = Boundary
  BY <1>1, <1>2, PositionOfOpen DEF Boundary
<1>4. ASSUME NEW n \in open PROVE Position(n)' = Position(n)
  <2>1. {k \in open \cup {count + 1} : k <= n} = {k \in open : k <= n}
    <3>1. n \in 1..count
      BY <1>3
    <3>2. ~(count + 1 <= n)
      BY <1>3, <3>1
    <3> QED BY <3>2
  <2> QED BY <1>2, <2>1 DEF Position, Selected
<1>5. listed[count + 1] = 0
  BY <1>2, <1>3 DEF IInv, NoneBeforeOpened
<1>6. Behind' = Behind
  <2>1. untouched \subseteq open
    BY <1>3
  <2> QED BY <1>2, <1>3, <1>4, <2>1 DEF Behind, Missed
<1>7. Again' = Again
  <2>1. Repeated' = Repeated
    BY <1>2 DEF Repeated
  <2>2. {n \in open' : listed'[n] > 0 /\ Position(n)' > Boundary'}
          = {n \in open : listed[n] > 0 /\ Position(n) > Boundary}
    <3>1. ~(listed[count + 1] > 0)
      BY <1>5
    <3>2. \A n \in open : Position(n)' > Boundary' <=> Position(n) > Boundary
      BY <1>3, <1>4
    <3> QED BY <1>2, <3>1, <3>2
  <2> QED BY <2>1, <2>2 DEF Again
<1> QED BY <1>1, <1>2, <1>6, <1>7 DEF CrossingsBounded, Succeeded

\* Every step keeps the counts.
LEMMA StepCrossings == IInv /\ [Next]_vars => CrossingsBounded'
<1> SUFFICES ASSUME IInv, [Next]_vars PROVE CrossingsBounded'
  OBVIOUS
<1>0. job' = job
  BY DEF Next, ListPage, ListFails, OpenItem, CloseItem, ReopenItem, Over, vars
<1> SUFFICES ASSUME ~job.all PROVE CrossingsBounded'
  BY <1>0 DEF CrossingsBounded
<1>1. CASE ListFails
  <2>1. /\ job' = job /\ page' = 0 /\ failed' /\ reopenings' = reopenings /\ Repeated' = Repeated
        /\ TypeOK /\ Cardinality(Again) <= reopenings /\ reopenings \in Nat
    BY <1>1 DEF ListFails, github, Repeated, IInv, CrossingsBounded, TypeOK
  <2>2. Repeated \in SUBSET Again /\ IsFiniteSet(Again)
    BY <2>1, CountedSetsFinite DEF Again
  <2>3. Cardinality(Repeated) \in Nat /\ Cardinality(Again) \in Nat
        /\ Cardinality(Repeated) <= Cardinality(Again)
    BY <2>2, FS_Subset, FS_CardinalityType
  <2> QED BY <2>1, <2>3 DEF CrossingsBounded, Succeeded
<1>2. CASE UNCHANGED vars
  BY <1>2 DEF vars, IInv, CrossingsBounded, Succeeded, Missed, Repeated, Behind, Again,
              Boundary, Position, Selected
<1> QED BY <1>1, <1>2, StepListPage, StepCloseItem, StepReopenItem, StepOpenItem DEF Next, Over

-----------------------------------------------------------------------------
(* Theorems. *)

\* Types, what is listed of all items and the counts of open ones, in every state.
THEOREM Invariant == Spec => []IInv
<1>1. Init => IInv
  BY InitInvariant
<1>2. IInv /\ [Next]_vars => IInv'
  BY StepTypes, StepRange, StepCrossings DEF IInv
<1> QED BY <1>1, <1>2, PTL DEF Spec

\* Type correctness: in particular an item that was open all along is still open.
THEOREM TypeCorrect == Spec => []TypeOK
<1>1. IInv => TypeOK
  BY DEF IInv
<1> QED BY <1>1, Invariant, PTL

\* A job over all items that meets no error lists each after From, none twice, and
\* none that is a page or more before it.
THEOREM Complete == Spec => []CompleteAfterFrom
<1>1. IInv => CompleteAfterFrom
  <2> SUFFICES ASSUME IInv, Succeeded, job.all, NEW n \in 1..count
               PROVE  /\ listed[n] <= 1
                      /\ n > From => listed[n] = 1
                      /\ n + PerPage <= From => listed[n] = 0
    BY DEF CompleteAfterFrom
  <2> DEFINE before == (FirstPage - 1) * PerPage
  <2>1. From \in Nat /\ PerPage \in Nat \ {0} /\ n \in Nat
    BY Starts, PerPageAssumption DEF IInv, TypeOK, Numbers
  <2>2. before \in Nat /\ before <= From /\ From < before + PerPage
    <3>1. FirstPage - 1 = From \div PerPage
      BY Starts DEF IInv, TypeOK
    <3> QED BY <2>1, <3>1, Division
  <2>3. listed[n] = IF n > before THEN 1 ELSE 0
    BY DEF IInv, ListedIsRange, Succeeded
  <2> HIDE DEF before
  <2> QED BY <2>1, <2>2, <2>3
<1> QED BY <1>1, Invariant, PTL

\* A job over open items misses no more of those open all along than were closed.
THEOREM MissesBounded == Spec => []MissesNeedClosings
<1>1. IInv => MissesNeedClosings
  BY DEF IInv, CrossingsBounded, MissesNeedClosings
<1> QED BY <1>1, Invariant, PTL

\* It lists no more items twice than were reopened.
THEOREM RepeatsBounded == Spec => []RepeatsNeedReopenings
<1>1. IInv => RepeatsNeedReopenings
  <2> SUFFICES ASSUME IInv, ~job.all PROVE Cardinality(Repeated) <= reopenings
    BY DEF RepeatsNeedReopenings
  <2>1. CASE page = 0
    BY <2>1 DEF IInv, CrossingsBounded
  <2>2. CASE page # 0
    <3>1. Repeated \in SUBSET Again /\ IsFiniteSet(Again)
      BY CountedSetsFinite DEF Again, IInv
    <3>2. Cardinality(Again) <= reopenings /\ reopenings \in Nat
      BY <2>2 DEF IInv, CrossingsBounded, TypeOK
    <3>3. Cardinality(Repeated) \in Nat /\ Cardinality(Again) \in Nat
          /\ Cardinality(Repeated) <= Cardinality(Again)
      BY <3>1, FS_Subset, FS_CardinalityType
    <3> QED BY <3>2, <3>3
  <2> QED BY <2>1, <2>2
<1> QED BY <1>1, Invariant, PTL
=============================================================================
