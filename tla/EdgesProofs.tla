------------------------------ MODULE EdgesProofs ------------------------------
(***************************************************************************)
(* Theorems about the ends of the system: the client that pages through a  *)
(* list (Pagination), the screen of a post (PostScreen) and the bot        *)
(* service (BotLifecycle).                                                 *)
(*                                                                         *)
(* Pagination first, for every page size and any number of rows.  What     *)
(* makes the walk orderly is the look-ahead row: it lies below every item  *)
(* of its page (TakeBelow), and all later pages lie at or below it.        *)
(***************************************************************************)
EXTENDS MCPagination, MCEdges, FiniteSetTheorems, WellFoundedInduction, TLAPS

\* A row beyond the first n of a finite set of numbers lies below all of them.
LEMMA TakeBelow ==
  ASSUME NEW S, IsFiniteSet(S), S \subseteq Nat, NEW n \in Nat,
         NEW i \in Take(S, 0, n), NEW x \in S \ Take(S, 0, n)
  PROVE  x < i
<1>1. i \in S /\ i \in Nat /\ x \in Nat
  BY DEF Take
<1>2. /\ Newer(i, S) \subseteq S /\ Newer(x, S) \subseteq S
      /\ IsFiniteSet(Newer(i, S)) /\ IsFiniteSet(Newer(x, S))
      /\ Cardinality(Newer(i, S)) \in Nat /\ Cardinality(Newer(x, S)) \in Nat
  <2>1. Newer(i, S) \subseteq S /\ Newer(x, S) \subseteq S
    BY DEF Newer
  <2>2. QED
    BY <2>1, FS_Subset, FS_CardinalityType
<1>3. Cardinality(Newer(i, S)) < n
  BY DEF Take
<1>4. ~(Cardinality(Newer(x, S)) < n)
  BY <1>2 DEF Take
<1>5. CASE x > i
  <2>1. Newer(x, S) \subseteq Newer(i, S)
    <3>1. ASSUME NEW j \in S, j > x PROVE j > i
      <4>1. j \in Nat
        OBVIOUS
      <4>2. QED
        BY <4>1, <3>1, <1>1, <1>5
    <3>2. QED
      BY <3>1 DEF Newer
  <2>2. Cardinality(Newer(x, S)) <= Cardinality(Newer(i, S))
    BY <2>1, <1>2, FS_Subset
  <2>3. QED
    BY <2>2, <1>2, <1>3, <1>4
<1>6. CASE x = i
  BY <1>6
<1>7. QED
  BY <1>1, <1>5, <1>6

\* The page and the cursor that are made of a finite set of rows.
LEMMA PageMade ==
  ASSUME NEW S, IsFiniteSet(S), S \subseteq Nat \ {0}, buildCursorPage(S)
  PROVE  /\ page' \subseteq S
         /\ walk' \in {"next", "done"}
         /\ cursor' \in S \cup {NoCursor}
         /\ walk' = "next" => cursor' \in S /\ \A i \in page' : cursor' < i
<1> DEFINE extra == S \ Take(S, 0, Limit)
<1>1. page' = Take(S, 0, Limit) /\ page' \subseteq S
  BY DEF buildCursorPage, Take
<1>2. CASE extra = {}
  BY <1>1, <1>2 DEF buildCursorPage
<1>3. CASE extra # {}
  <2>1. cursor' \in extra
    BY <1>3 DEF buildCursorPage
  <2>2. \A i \in page' : cursor' < i
    BY <2>1, <1>1, TakeBelow, PaginationAssumption
  <2>3. QED
    BY <2>1, <2>2, <1>1, <1>3 DEF buildCursorPage
<1>4. QED
  BY <1>2, <1>3

\* The rows of a page are rows of the table, at or below the cursor.
LEMMA RowsFound ==
  ASSUME TypeOK
  PROVE  /\ Listed \subseteq 1..created /\ IsFiniteSet(Listed)
         /\ \A S \in SUBSET Listed : \A skip : findMany(S, skip) \subseteq Listed
         /\ From(cursor) \subseteq Listed
         /\ \A i \in From(cursor) : i <= cursor
         /\ \A S \in SUBSET Listed : IsFiniteSet(S)
<1>1. IsFiniteSet(1..created)
  BY FS_Interval DEF TypeOK
<1>2. Listed \subseteq 1..created
  BY DEF Listed
<1>3. \A S \in SUBSET Listed : IsFiniteSet(S)
  BY <1>1, <1>2, FS_Subset
<1>4. QED
  BY <1>2, <1>3 DEF findMany, Take, From

-----------------------------------------------------------------------------
LEMMA TypeInit == Init => TypeOK
<1> SUFFICES ASSUME Init PROVE TypeOK
  OBVIOUS
<1>1. cut \in BOOLEAN
  BY DEF Init
<1>2. QED
  BY <1>1, PaginationAssumption DEF Init, TypeOK, NoCursor

LEMMA TypeNext == TypeOK /\ [Next]_vars => TypeOK'
<1> SUFFICES ASSUME TypeOK, [Next]_vars PROVE TypeOK'
  OBVIOUS
<1> USE PaginationAssumption
<1>1. ASSUME FirstPage PROVE TypeOK'
  <2>1. PICK S \in SUBSET Listed : buildCursorPage(S)
    BY <1>1, RowsFound DEF FirstPage
  <2>2. /\ page' \subseteq 1..created /\ cursor' \in 0..created /\ walk' \in {"next", "done"}
        /\ walk' = "next" => cursor' # NoCursor
    BY <2>1, PageMade, RowsFound DEF NoCursor, TypeOK
  <2>3. QED
    BY <2>2, <1>1, RowsFound DEF FirstPage, rowVars, TypeOK
<1>2. ASSUME NextPage PROVE TypeOK'
  <2>1. PICK S \in SUBSET Listed : buildCursorPage(S)
    <3>1. findMany(From(cursor), 1) \subseteq Listed
      BY RowsFound
    <3>2. QED
      BY <3>1, <1>2 DEF NextPage
  <2>2. /\ page' \subseteq 1..created /\ cursor' \in 0..created /\ walk' \in {"next", "done"}
        /\ walk' = "next" => cursor' # NoCursor
    BY <2>1, PageMade, RowsFound DEF NoCursor, TypeOK
  <2>3. QED
    BY <2>2, <1>2 DEF NextPage, More, rowVars, Shown, TypeOK
<1>3. CASE Insert
  BY <1>3 DEF Insert, walkVars, histVars, TypeOK
<1>4. ASSUME NEW i \in Listed, Hide(i) PROVE TypeOK'
  BY <1>4, RowsFound DEF Hide, walkVars, TypeOK
<1>5. ASSUME NEW i \in Listed, Delete(i) PROVE TypeOK'
  BY <1>5, RowsFound DEF Delete, walkVars, TypeOK
<1>6. ASSUME NEW i \in hidden, Unhide(i) PROVE TypeOK'
  BY <1>6 DEF Unhide, walkVars, histVars, TypeOK
<1>7. CASE UNCHANGED vars
  BY <1>7 DEF vars, rowVars, walkVars, histVars, TypeOK
<1>8. QED
  BY <1>1, <1>2, <1>3, <1>4, <1>5, <1>6, <1>7 DEF Next

\* Every variable keeps its type, and a page that announces another one carries the
\* cursor to ask for it.  (buildCursorPage)
THEOREM TypeCorrect == Spec => []TypeOK
  BY TypeInit, TypeNext, PTL DEF Spec

-----------------------------------------------------------------------------
(* The inductive invariant: what is still to come lies at or below the     *)
(* cursor, and the cursor lies below everything shown.                     *)
CursorBelow == /\ walk = "next" => \A i \in Shown : cursor < i
               /\ walk = "first" => Shown = {}

OrderInv == CursorBelow /\ NewestFirst

LEMMA OrderInit == Init => OrderInv
  BY DEF Init, OrderInv, CursorBelow, NewestFirst, Shown

LEMMA OrderNext == TypeOK /\ OrderInv /\ [Next]_vars => OrderInv'
<1> SUFFICES ASSUME TypeOK, OrderInv, [Next]_vars PROVE OrderInv'
  OBVIOUS
<1>1. ASSUME FirstPage PROVE OrderInv'
  <2>1. PICK S \in SUBSET Listed : buildCursorPage(S)
    BY <1>1, RowsFound DEF FirstPage
  <2>2. /\ walk' \in {"next", "done"}
        /\ walk' = "next" => \A i \in page' : cursor' < i
    BY <2>1, PageMade, RowsFound DEF TypeOK
  <2>3. QED
    BY <2>2, <1>1 DEF FirstPage, OrderInv, CursorBelow, NewestFirst, Shown
<1>2. ASSUME NextPage PROVE OrderInv'
  <2> DEFINE S == findMany(From(cursor), 1)
  <2>1. S \subseteq Listed /\ \A i \in S : i <= cursor
    BY RowsFound DEF findMany, Take
  <2>2. /\ page' \subseteq S
        /\ walk' \in {"next", "done"}
        /\ walk' = "next" => cursor' \in S /\ \A i \in page' : cursor' < i
    <3>1. S \subseteq Nat \ {0} /\ IsFiniteSet(S)
      BY <2>1, RowsFound DEF TypeOK
    <3>2. buildCursorPage(S)
      BY <1>2 DEF NextPage
    <3>3. QED
      BY <3>1, <3>2, PageMade
  <2>3. earlier' = Shown /\ \A j \in Shown : cursor < j
    BY <1>2 DEF NextPage, OrderInv, CursorBelow
  <2>4. cursor \in Int /\ Shown \subseteq Int /\ S \subseteq Int
    BY <2>1, RowsFound DEF TypeOK, Shown
  <2>5. \A i \in page', j \in earlier' : i < j
    BY <2>1, <2>2, <2>3, <2>4
  <2>6. ASSUME walk' = "next" PROVE \A i \in page' \cup earlier' : cursor' < i
    <3>1. \A i \in page' : cursor' < i
      BY <2>2, <2>6
    <3>2. cursor' <= cursor /\ cursor' \in Int
      BY <2>1, <2>2, <2>4, <2>6
    <3>3. ASSUME NEW i \in Shown PROVE cursor' < i
      <4>1. cursor < i /\ i \in Int
        BY <2>3, <2>4
      <4>2. QED
        BY <4>1, <3>2, <2>4
    <3>4. QED
      BY <3>1, <3>3, <2>3
  <2>7. QED
    BY <2>2, <2>5, <2>6 DEF OrderInv, CursorBelow, NewestFirst, Shown
<1>3. CASE UNCHANGED walkVars
  BY <1>3 DEF walkVars, OrderInv, CursorBelow, NewestFirst, Shown
<1>4. QED
  BY <1>1, <1>2, <1>3 DEF Next, Insert, Hide, Delete, Unhide, vars

\* Nothing is shown twice and the order is kept, for every page size and whatever is
\* added, hidden or deleted during the walk.  (buildCursorPage, cursor and skip)
THEOREM PagesInOrder == Spec => []NewestFirst
<1>1. OrderInv => NewestFirst
  BY DEF OrderInv
<1>2. QED
  BY <1>1, TypeInit, TypeNext, OrderInit, OrderNext, PTL DEF Spec

-----------------------------------------------------------------------------
(* What a page leaves out.                                                 *)

\* A set of numbers that is not empty has a least element.
LEMMA LeastExists ==
  ASSUME NEW S, S \subseteq Nat, S # {}
  PROVE  \E m \in S : \A x \in S : m <= x
<1> DEFINE Less == OpToRel(<, Nat)
<1>1. PICK m \in S : \A x \in S : <<x, m>> \notin Less
  <2>1. IsWellFoundedOn(Less, Nat)
    BY NatLessThanWellFounded
  <2> HIDE DEF Less
  <2>2. QED
    BY <2>1, WFMin
<1>2. ASSUME NEW x \in S PROVE m <= x
  <2>1. ~(x < m)
    BY <1>1 DEF OpToRel
  <2>2. QED
    BY <2>1
<1>3. QED
  BY <1>2

\* Of two members of a finite set the newer has fewer above it.
LEMMA FewerAbove ==
  ASSUME NEW S, IsFiniteSet(S), S \subseteq Nat, NEW i \in S, NEW j \in S, i < j
  PROVE  /\ Cardinality(Newer(i, S)) \in Nat /\ Cardinality(Newer(j, S)) \in Nat
         /\ Cardinality(Newer(j, S)) < Cardinality(Newer(i, S))
<1>1. /\ Newer(i, S) \subseteq S
      /\ Newer(j, S) \subseteq Newer(i, S) \ {j}
      /\ j \in Newer(i, S)
  <2>1. \A k \in S : k > j => k > i /\ k # j
    OBVIOUS
  <2>2. QED
    BY <2>1 DEF Newer
<1>2. IsFiniteSet(Newer(i, S)) /\ IsFiniteSet(Newer(i, S) \ {j}) /\ IsFiniteSet(Newer(j, S))
  BY <1>1, FS_Subset, FS_RemoveElement
<1>3. Cardinality(Newer(i, S) \ {j}) = Cardinality(Newer(i, S)) - 1
  BY <1>1, <1>2, FS_RemoveElement
<1>4. Cardinality(Newer(j, S)) <= Cardinality(Newer(i, S) \ {j})
  BY <1>1, <1>2, FS_Subset
<1>5. Cardinality(Newer(i, S)) \in Nat /\ Cardinality(Newer(j, S)) \in Nat
  BY <1>2, FS_CardinalityType
<1>6. QED
  BY <1>3, <1>4, <1>5

\* A finite set of numbers that is not empty has a greatest element.
LEMMA GreatestExists ==
  ASSUME NEW S, IsFiniteSet(S), S \subseteq Nat, S # {}
  PROVE  \E m \in S : \A x \in S : x <= m
<1> DEFINE T == {Cardinality(Newer(i, S)) : i \in S}
<1>1. \A i \in S : Cardinality(Newer(i, S)) \in Nat
  <2>1. \A i \in S : Newer(i, S) \subseteq S
    BY DEF Newer
  <2>2. QED
    BY <2>1, FS_Subset, FS_CardinalityType
<1>2. T \subseteq Nat /\ T # {}
  BY <1>1
<1>3. PICK k \in T : \A n \in T : k <= n
  <2> HIDE DEF T
  <2>1. QED
    BY <1>2, LeastExists
<1>4. PICK m \in S : k = Cardinality(Newer(m, S))
  BY <1>3
<1>5. ASSUME NEW x \in S, m < x PROVE FALSE
  <2>1. Cardinality(Newer(x, S)) < Cardinality(Newer(m, S))
    BY <1>5, FewerAbove
  <2>2. k <= Cardinality(Newer(x, S))
    BY <1>3
  <2>3. QED
    BY <2>1, <2>2, <1>1, <1>4
<1>6. \A x \in S : x <= m
  BY <1>5
<1>7. QED
  BY <1>6

\* Skipping one row is leaving out the newest.
LEMMA SkipOne ==
  ASSUME NEW S, IsFiniteSet(S), S \subseteq Nat, NEW m \in S, \A x \in S : x <= m,
         NEW n \in Nat
  PROVE  Take(S, 1, n) = Take(S \ {m}, 0, n)
<1> DEFINE D == S \ {m}
<1>1. ASSUME NEW i \in D
      PROVE  /\ Cardinality(Newer(i, D)) \in Nat
             /\ Cardinality(Newer(i, S)) = Cardinality(Newer(i, D)) + 1
  <2>1. Newer(i, D) \subseteq S /\ m \notin Newer(i, D)
    BY DEF Newer
  <2>2. IsFiniteSet(Newer(i, D))
    BY <2>1, FS_Subset
  <2>3. Newer(i, S) = Newer(i, D) \cup {m}
    <3>1. m > i
      BY DEF Newer
    <3>2. QED
      BY <3>1 DEF Newer
  <2>4. QED
    BY <2>1, <2>2, <2>3, FS_AddElement, FS_CardinalityType
<1>2. Newer(m, S) = {}
  <2>1. \A j \in S : ~(j > m)
    OBVIOUS
  <2>2. QED
    BY <2>1 DEF Newer
<1>3. Cardinality(Newer(m, S)) = 0
  BY <1>2, FS_EmptySet
<1>4. m \notin Take(S, 1, n)
  BY <1>3 DEF Take
<1>5. ASSUME NEW i \in D PROVE i \in Take(S, 1, n) <=> i \in Take(D, 0, n)
  <2>1. i \in Take(S, 1, n) <=> 1 <= Cardinality(Newer(i, S)) /\ Cardinality(Newer(i, S)) < 1 + n
    BY DEF Take
  <2>2. i \in Take(D, 0, n) <=> 0 <= Cardinality(Newer(i, D)) /\ Cardinality(Newer(i, D)) < 0 + n
    BY DEF Take
  <2> HIDE DEF D
  <2>3. QED
    BY <1>1, <2>1, <2>2
<1>6. Take(S, 1, n) \subseteq S /\ Take(D, 0, n) \subseteq D
  BY DEF Take
<1>7. QED
  BY <1>4, <1>5, <1>6

\* Of the rows found with one to look ahead, a page without a next one shows them
\* all; a page with a next one shows every row above the extra one.
LEMMA NothingSkippedInside ==
  ASSUME NEW D, IsFiniteSet(D), D \subseteq Nat, NEW R, R = Take(D, 0, Limit + 1)
  PROVE  /\ R \subseteq Take(R, 0, Limit) => D \subseteq R
         /\ \A c \in R \ Take(R, 0, Limit), i \in D : i > c => i \in Take(R, 0, Limit)
<1> USE PaginationAssumption
<1>1. R \subseteq D /\ IsFiniteSet(R) /\ R \subseteq Nat
  BY FS_Subset DEF Take
<1>2. \A i \in D : Newer(i, R) \subseteq Newer(i, D) /\ Newer(i, D) \subseteq D
  BY <1>1 DEF Newer
<1>3. \A i \in D : /\ IsFiniteSet(Newer(i, D)) /\ IsFiniteSet(Newer(i, R))
                   /\ Cardinality(Newer(i, R)) <= Cardinality(Newer(i, D))
                   /\ Cardinality(Newer(i, R)) \in Nat /\ Cardinality(Newer(i, D)) \in Nat
  BY <1>2, FS_Subset, FS_CardinalityType
<1>4. \A i \in D : i \in R <=> Cardinality(Newer(i, D)) < Limit + 1
  BY <1>3 DEF Take
<1>5. \A i \in R : i \in Take(R, 0, Limit) <=> Cardinality(Newer(i, R)) < Limit
  BY <1>1, <1>3 DEF Take
<1>6. ASSUME NEW c \in R \ Take(R, 0, Limit), NEW i \in D, i > c PROVE i \in Take(R, 0, Limit)
  <2>1. c \in D /\ c \in R /\ i \in Nat /\ c \in Nat
    BY <1>1
  <2>2. Cardinality(Newer(i, D)) < Cardinality(Newer(c, D))
    BY <2>1, <1>6, FewerAbove
  <2>3. Cardinality(Newer(c, D)) < Limit + 1
    BY <2>1, <1>4
  <2>4. i \in R
    BY <2>1, <2>2, <2>3, <1>3, <1>4
  <2>5. Cardinality(Newer(i, R)) < Cardinality(Newer(c, R))
    BY <2>1, <2>4, <1>1, <1>6, FewerAbove
  <2>6. Cardinality(Newer(i, R)) < Limit
    BY <2>1, <2>3, <2>5, <1>3
  <2>7. QED
    BY <2>4, <2>6, <1>5
<1>7. ASSUME R \subseteq Take(R, 0, Limit), NEW y \in D \ R PROVE FALSE
  <2>1. IsFiniteSet(D \ R) /\ D \ R \subseteq Nat /\ D \ R # {}
    BY FS_Subset
  <2>2. PICK x \in D \ R : \A z \in D \ R : z <= x
    BY <2>1, GreatestExists
  <2>3. Newer(x, D) \subseteq R
    <3>1. \A z \in D \ R : ~(z > x)
      BY <2>2
    <3>2. QED
      BY <3>1 DEF Newer
  <2>4. ~(Cardinality(Newer(x, D)) < Limit + 1) /\ Cardinality(Newer(x, D)) \in Nat
    BY <1>3, <1>4
  <2>5. Newer(x, D) # {}
    BY <2>4, FS_EmptySet
  <2>6. PICK m \in Newer(x, D) : \A z \in Newer(x, D) : m <= z
    BY <2>3, <2>5, <1>1, LeastExists
  <2>7. Newer(x, D) \ {m} \subseteq Newer(m, R)
    BY <2>3, <2>6, <1>1 DEF Newer
  <2>8. Cardinality(Newer(x, D) \ {m}) = Cardinality(Newer(x, D)) - 1
    BY <1>3, <2>6, FS_RemoveElement
  <2>9. Cardinality(Newer(x, D) \ {m}) <= Cardinality(Newer(m, R))
    BY <2>3, <2>7, <1>1, <1>3, FS_Subset
  <2>10. Cardinality(Newer(m, R)) < Limit
    BY <2>3, <1>5, <1>7
  <2>11. Cardinality(Newer(m, R)) \in Nat
    BY <2>3, <1>1, <1>3
  <2>12. QED
    BY <2>4, <2>8, <2>9, <2>10, <2>11
<1>8. QED
  BY <1>6, <1>7

-----------------------------------------------------------------------------
(* What a walk leaves out.  While it lasts, what it has missed so far is   *)
(* what was listed from its first page on, has not been shown, and lies    *)
(* above the cursor: no later page can show it.                            *)
Missed == {i \in steady \ Shown : walk = "next" => i > cursor}

MissInv ==
    /\ walk = "first" => steady = {}
    /\ steady \subseteq Listed
    /\ ~cut => Cardinality(Missed) <= turns

LEMMA MissInit == Init => MissInv
<1> SUFFICES ASSUME Init PROVE MissInv
  OBVIOUS
<1>1. Missed = {}
  BY DEF Init, Missed
<1>2. QED
  BY <1>1, FS_EmptySet DEF Init, MissInv

\* There are no more missed rows than rows at all.
LEMMA FewRows ==
  ASSUME NEW c \in 0..MaxRows, NEW M, M \subseteq 1..c
  PROVE  /\ IsFiniteSet(M) /\ Cardinality(M) \in Nat
         /\ Cardinality(M) <= MaxRows
<1>1. c \in Nat /\ c <= MaxRows
  BY PaginationAssumption
<1>2. IsFiniteSet(1..c) /\ Cardinality(1..c) = c
  BY <1>1, FS_Interval
<1>3. IsFiniteSet(M) /\ Cardinality(M) <= c
  BY <1>2, FS_Subset
<1>4. QED
  BY <1>1, <1>3, FS_CardinalityType, PaginationAssumption

LEMMA MissedIsSmall ==
  ASSUME TypeOK
  PROVE  /\ IsFiniteSet(Missed) /\ Cardinality(Missed) \in Nat
         /\ Cardinality(Missed) <= MaxRows
<1>1. created \in 0..MaxRows /\ Missed \subseteq 1..created
  <2>1. Missed \subseteq steady
    BY DEF Missed
  <2>2. QED
    BY <2>1 DEF TypeOK
<1>2. QED
  BY <1>1, FewRows

\* A first page misses nothing.
LEMMA FirstPageMisses == TypeOK /\ FirstPage => Missed' = {}
<1> SUFFICES ASSUME TypeOK, FirstPage PROVE Missed' = {}
  OBVIOUS
<1> USE PaginationAssumption
<1> DEFINE R == findMany(Listed, 0)
           P == Take(R, 0, Limit)
<1>1. R = Take(Listed, 0, Limit + 1) /\ IsFiniteSet(Listed) /\ Listed \subseteq Nat
  BY RowsFound DEF findMany, TypeOK
<1>2. /\ R \subseteq P => Listed \subseteq R
      /\ \A c \in R \ P, i \in Listed : i > c => i \in P
  BY <1>1, NothingSkippedInside
<1>3. /\ page' = P /\ earlier' = {} /\ steady' = Listed
      /\ walk' = IF R \ P = {} THEN "done" ELSE "next"
      /\ R \ P # {} => cursor' \in R \ P
  BY DEF FirstPage, buildCursorPage
<1> HIDE DEF R, P
<1>4. Shown' = P
  BY <1>3 DEF Shown
<1>5. CASE R \ P = {}
  BY <1>2, <1>3, <1>4, <1>5 DEF Missed
<1>6. CASE R \ P # {}
  BY <1>2, <1>3, <1>4, <1>6 DEF Missed
<1>7. QED
  BY <1>5, <1>6

\* A further page misses at most the newest of the rows it is asked for.
LEMMA NextPageMisses ==
  TypeOK /\ MissInv /\ NextPage /\ cursor \notin gone => \E m : Missed' \subseteq Missed \cup {m}
<1> SUFFICES ASSUME TypeOK, MissInv, NextPage, cursor \notin gone
             PROVE  \E m : Missed' \subseteq Missed \cup {m}
  OBVIOUS
<1> USE PaginationAssumption
<1> DEFINE F == From(cursor)
           R == findMany(F, 1)
           P == Take(R, 0, Limit)
<1>1. F \subseteq Nat /\ IsFiniteSet(F) /\ F = {i \in Listed : i <= cursor}
  BY RowsFound DEF TypeOK, From
<1>2. /\ page' = P /\ earlier' = Shown /\ steady' = steady /\ walk = "next"
      /\ walk' = IF R \ P = {} THEN "done" ELSE "next"
      /\ R \ P # {} => cursor' \in R \ P
  BY DEF NextPage, buildCursorPage
<1>3. R = Take(F, 1, Limit + 1) /\ R \subseteq F
  BY DEF findMany, Take
<1>4. PICK m : /\ R \subseteq P => F \subseteq R \cup {m}
               /\ \A c \in R \ P, i \in F : i > c => i \in P \cup {m}
  <2>1. CASE F = {}
    BY <2>1, <1>3
  <2>2. CASE F # {}
    <3>1. PICK m \in F : \A x \in F : x <= m
      BY <1>1, <2>2, GreatestExists
    <3>2. R = Take(F \ {m}, 0, Limit + 1)
      BY <1>1, <1>3, <3>1, SkipOne
    <3>3. IsFiniteSet(F \ {m}) /\ F \ {m} \subseteq Nat
      BY <1>1, FS_Subset
    <3> HIDE DEF F, R
    <3>4. /\ R \subseteq P => F \ {m} \subseteq R
          /\ \A c \in R \ P, i \in F \ {m} : i > c => i \in P
      BY <3>2, <3>3, NothingSkippedInside
    <3> HIDE DEF P
    <3>5. QED
      BY <3>4
  <2>3. QED
    BY <2>1, <2>2
<1>5. Shown' = P \cup Shown
  BY <1>2 DEF Shown
<1>6. \A i \in steady : i \in F \/ i > cursor
  <2>1. steady \subseteq Listed /\ Listed \subseteq Nat /\ cursor \in Nat
    BY RowsFound DEF MissInv, TypeOK
  <2>2. QED
    BY <2>1, <1>1
<1> HIDE DEF F, R, P
<1>7. ASSUME NEW i \in Missed', i \notin Missed PROVE i = m
  <2>1. i \in steady /\ i \notin P /\ i \notin Shown /\ (walk' = "next" => i > cursor')
    BY <1>2, <1>5, <1>7 DEF Missed
  <2>2. i \in F
    BY <2>1, <1>2, <1>6, <1>7 DEF Missed
  <2>3. QED
    BY <2>1, <2>2, <1>2, <1>3, <1>4
<1>8. QED
  BY <1>7

LEMMA MissNext == TypeOK /\ TypeOK' /\ MissInv /\ [Next]_vars => MissInv'
<1> SUFFICES ASSUME TypeOK, TypeOK', MissInv, [Next]_vars PROVE MissInv'
  OBVIOUS
<1> USE PaginationAssumption
<1>1. ASSUME FirstPage PROVE MissInv'
  <2>1. Missed' = {}
    BY <1>1, FirstPageMisses
  <2>2. walk' # "first"
    BY <1>1 DEF FirstPage, buildCursorPage
  <2>3. steady' \subseteq Listed' /\ turns' = 0
    BY <1>1 DEF FirstPage, rowVars, Listed
  <2>4. QED
    BY <2>1, <2>2, <2>3, FS_EmptySet DEF MissInv
<1>2. ASSUME NextPage PROVE MissInv'
  <2>1. walk' # "first"
    BY <1>2 DEF NextPage, buildCursorPage
  <2>2. steady' \subseteq Listed'
    BY <1>2 DEF NextPage, rowVars, Listed, MissInv
  <2>3. ASSUME ~cut' PROVE Cardinality(Missed') <= turns'
    <3>1. ~cut /\ cursor \notin gone /\ turns' = More(turns) /\ turns \in Nat
      <4>1. turns' = More(turns) /\ cut' = (cut \/ cursor \in gone)
        BY <1>2 DEF NextPage
      <4>2. ~cut /\ cursor \notin gone
        BY <4>1, <2>3, Zenon
      <4>3. QED
        BY <4>1, <4>2 DEF TypeOK
    <3>2. PICK m : Missed' \subseteq Missed \cup {m}
      BY <1>2, <3>1, NextPageMisses
    <3>3. Cardinality(Missed') \in Nat /\ Cardinality(Missed') <= MaxRows
      <4>1. created' \in 0..MaxRows /\ Missed' \subseteq 1..created'
        <5>1. Missed' \subseteq steady'
          BY DEF Missed
        <5>2. QED
          BY <5>1 DEF TypeOK
      <4>2. QED
        BY <4>1, FewRows
    <3>4. /\ IsFiniteSet(Missed \cup {m}) /\ Cardinality(Missed) \in Nat
          /\ Cardinality(Missed \cup {m}) \in Nat
          /\ Cardinality(Missed \cup {m}) <= Cardinality(Missed) + 1
      <4>1. IsFiniteSet(Missed) /\ Cardinality(Missed) \in Nat
        BY MissedIsSmall
      <4>2. QED
        BY <4>1, FS_AddElement
    <3>5. Cardinality(Missed') <= Cardinality(Missed \cup {m})
      BY <3>2, <3>4, FS_Subset
    <3>6. Cardinality(Missed) <= turns
      BY <3>1 DEF MissInv
    <3>7. Cardinality(Missed') <= turns + 1
      BY <3>1, <3>3, <3>4, <3>5, <3>6
    <3>8. turns <= MaxRows
      BY DEF TypeOK
    <3>9. QED
      BY <3>1, <3>3, <3>7, <3>8 DEF More
  <2>4. QED
    BY <2>1, <2>2, <2>3 DEF MissInv
<1>3. ASSUME UNCHANGED <<walkVars, cut>>, steady' \subseteq steady, steady' \subseteq Listed'
      PROVE  MissInv'
  <2>1. Missed' \subseteq Missed
    BY <1>3 DEF walkVars, Missed, Shown
  <2>2. Cardinality(Missed') <= Cardinality(Missed) /\ Cardinality(Missed') \in Nat
    BY <2>1, MissedIsSmall, FS_Subset, FS_CardinalityType
  <2>3. ~cut' => Cardinality(Missed') <= turns'
    BY <2>2, <1>3, MissedIsSmall DEF walkVars, MissInv, TypeOK
  <2>4. QED
    BY <2>3, <1>3 DEF walkVars, MissInv
<1>4. CASE Insert
  <2>1. Listed \subseteq Listed'
    BY <1>4 DEF Insert, Listed, TypeOK
  <2>2. QED
    BY <2>1, <1>3, <1>4 DEF Insert, histVars, MissInv
<1>5. ASSUME NEW i \in Listed, Hide(i) \/ Delete(i) PROVE MissInv'
  <2>1. steady \subseteq Listed
    BY DEF MissInv
  <2>2. steady' = steady \ {i} /\ Listed' = Listed \ {i} /\ UNCHANGED <<walkVars, cut>>
    BY <1>5 DEF Hide, Delete, Listed
  <2>3. QED
    BY <2>1, <2>2, <1>3
<1>6. ASSUME NEW i \in hidden, Unhide(i) PROVE MissInv'
  <2>1. Listed \subseteq Listed'
    BY <1>6 DEF Unhide, Listed
  <2>2. QED
    BY <2>1, <1>3, <1>6 DEF Unhide, histVars, MissInv
<1>7. CASE UNCHANGED vars
  <2>1. Listed' = Listed
    BY <1>7 DEF vars, rowVars, Listed
  <2>2. QED
    BY <2>1, <1>3, <1>7 DEF vars, histVars, MissInv
<1>8. QED
  BY <1>1, <1>2, <1>4, <1>5, <1>6, <1>7 DEF Next

\* For every page size and any number of rows that come, hide and go, a walk misses
\* at most one row at each boundary between two pages, unless the row its cursor
\* names was deleted.  (skip: 1 after rows[limit].id)
THEOREM OneRowPerBoundary == Spec => []OneMissAtABoundary
<1>1. MissInv => OneMissAtABoundary
  <2> SUFFICES ASSUME MissInv, walk = "done", ~cut PROVE Cardinality(steady \ Shown) <= turns
    BY DEF OneMissAtABoundary
  <2>1. Missed = steady \ Shown
    BY DEF Missed
  <2>2. QED
    BY <2>1 DEF MissInv
<1>2. QED
  BY <1>1, TypeInit, TypeNext, MissInit, MissNext, PTL DEF Spec

-----------------------------------------------------------------------------
(* The bot.  What is open is bounded from above and from below by where    *)
(* the lifespan is; a start or a stop that is given up keeps what it had.  *)
AtMost ==
    [ph \in Phases |->
        CASE ph = "infra" -> {"webhook"}
          [] ph = "session" -> Infra \cup {"webhook"}
          [] ph = "telegram" -> Infra \cup {"webhook", "session"}
          [] ph = "userbot" -> Infra \cup {"webhook", "session", "polling"}
          [] ph = "backend" -> Infra \cup {"webhook", "session", "polling", "userbot"}
          [] ph \in {"serving", "stopPolling", "aborted"} ->
                Infra \cup {"webhook", "session", "polling", "userbot", "backend"}
          [] ph \in {"stopWebhook", "closeSession"} ->
                Infra \cup {"webhook", "session", "userbot", "backend"}
          [] ph = "stopUserbot" -> Infra \cup {"webhook", "userbot", "backend"}
          [] ph = "closeBackend" -> Infra \cup {"webhook", "backend"}
          [] ph = "closeRedis" -> Infra \cup {"webhook"}
          [] ph = "closeEngine" -> {"engine", "webhook"}
          [] ph = "stopped" -> {"webhook"}]

BotInv ==
    /\ phase \in Phases
    /\ up \subseteq AtMost[phase]
    /\ phase \notin {"infra", "closeEngine", "stopped"} => Infra \subseteq up
    /\ ~("polling" \in up /\ "webhook" \in up)
    /\ phase \notin {"infra", "session", "telegram", "aborted"} /\ "polling" \in up => Polls

LEMMA BotInvInit == BotInit => BotInv
  BY DEF BotInit, BotInv, AtMost, Phases, Infra, Polls

LEMMA BotInvNext == BotInv /\ [BotNext]_botVars => BotInv'
<1> SUFFICES ASSUME BotInv, [BotNext]_botVars PROVE BotInv'
  OBVIOUS
<1> USE DEF BotInv, AtMost, Phases, Infra, Pass, Acquire, Release, Polls
<1>1. CASE OpenInfra
  BY <1>1 DEF OpenInfra
<1>2. CASE OpenSession
  BY <1>2 DEF OpenSession, If
<1>3. CASE StartTelegram
  BY <1>3 DEF StartTelegram, Hooks
<1>4. CASE StartUserbot
  BY <1>4 DEF StartUserbot, If
<1>5. CASE MakeBackendClient
  BY <1>5 DEF MakeBackendClient, If
<1>6. CASE StartFails
  BY <1>6 DEF StartFails
<1>7. CASE PollingDies
  BY <1>7 DEF PollingDies
<1>8. CASE Terminate
  BY <1>8 DEF Terminate
<1>9. CASE StopPolling
  BY <1>9 DEF StopPolling
<1>10. CASE DeleteWebhook
  BY <1>10 DEF DeleteWebhook
<1>11. CASE CloseSession
  BY <1>11 DEF CloseSession
<1>12. CASE StopUserbot
  BY <1>12 DEF StopUserbot
<1>13. CASE CloseBackend
  BY <1>13 DEF CloseBackend
<1>14. CASE CloseRedis
  BY <1>14 DEF CloseRedis
<1>15. CASE CloseEngine
  BY <1>15 DEF CloseEngine
<1>16. CASE StopFails
  BY <1>16 DEF StopFails
<1>17. CASE UNCHANGED botVars
  BY <1>17 DEF botVars
<1>18. QED
  BY <1>1, <1>2, <1>3, <1>4, <1>5, <1>6, <1>7, <1>8, <1>9, <1>10, <1>11, <1>12, <1>13,
     <1>14, <1>15, <1>16, <1>17 DEF BotNext

LEMMA BotInvSays == BotInv => StopsInOrder
  BY DEF BotInv, StopsInOrder, AtMost, Phases, Infra

\* Whatever the settings enable and whatever fails: what works in the background has
\* its infrastructure under it, the bot does not poll beside a webhook, and a service
\* that stopped has left nothing open but a webhook.  (runner.py, app.py lifespan)
THEOREM BotStopsInOrder == BotSpec => []StopsInOrder
  BY BotInvInit, BotInvNext, BotInvSays, PTL DEF BotSpec

-----------------------------------------------------------------------------
(* The heart.  An answer on its way says what the server has; otherwise    *)
(* the button does, as long as no answer has been lost.                    *)
HeartInv ==
    /\ likedOn \in BOOLEAN
    /\ heart \in [liked : BOOLEAN, call : {"none", "sent", "served", "failed"},
                  answer : BOOLEAN, lost : BOOLEAN]
    /\ heart.call = "served" => heart.answer = likedOn
    /\ heart.call # "served" /\ ~heart.lost => heart.liked = likedOn

LEMMA HeartInit == ScreenInit => HeartInv
  BY DEF ScreenInit, HeartInv, ViewerContext

LEMMA HeartNext == HeartInv /\ [ScreenNext]_screenVars => HeartInv'
<1> SUFFICES ASSUME HeartInv, [ScreenNext]_screenVars PROVE HeartInv'
  OBVIOUS
<1> USE DEF HeartInv
<1>1. CASE UNCHANGED <<heart, likedOn>>
  BY <1>1
<1>2. CASE ToggleLike
  BY <1>2 DEF ToggleLike
<1>3. CASE ServeLike
  BY <1>3 DEF ServeLike
<1>4. CASE LikeLost
  BY <1>4 DEF LikeLost
<1>5. CASE ReceiveLike
  BY <1>5 DEF ReceiveLike, LikeReceived
<1>6. ASSUME NEW p \in Panels,
             \/ Open(p) \/ Close(p) \/ Type(p) \/ Submit(p)
             \/ ServeLoad(p) \/ ServeSubmit(p) \/ CallLost(p) \/ ReceiveLoad(p) \/ ReceiveSubmit(p)
      PROVE  UNCHANGED <<heart, likedOn>>
  BY <1>6 DEF Open, Close, Type, Submit, ServeLoad, ServeSubmit, CallLost, ReceiveLoad,
              ReceiveSubmit, Received
<1>7. Others \/ Verify \/ UNCHANGED screenVars => UNCHANGED <<heart, likedOn>>
  BY DEF Others, Verify, screenVars
<1>8. QED
  BY <1>1, <1>2, <1>3, <1>4, <1>5, <1>6, <1>7 DEF ScreenNext

\* The heart shows the reaction the server has, unless an answer was lost after it
\* had been served and none has arrived since.  (PostCard.tsx, handleToggleLike)
THEOREM HeartIsTrue == ScreenSpec => []HeartIsTrueUnlessLost
<1>1. HeartInv => HeartIsTrueUnlessLost
  BY DEF HeartInv, HeartIsTrueUnlessLost
<1>2. QED
  BY <1>1, HeartInit, HeartNext, PTL DEF ScreenSpec

-----------------------------------------------------------------------------
(* The panels.  Put stores a record with a mark on it.                     *)
Calls == {"none", "sent", "served", "failed", "done"}
PanelRecord ==
    [open : BOOLEAN, shown : [Items -> 0..2], load : Calls, rows : SUBSET Items,
     typed : BOOLEAN, submit : Calls, item : Items \cup {0}, own : SUBSET Items, met : BOOLEAN]
Marked(new) == [new EXCEPT !.met = @ \/ (Busy(new.load) /\ Busy(new.submit))]

(* What holds of one panel r whose items are the rows in S.  What was made *)
(* after the list was read is not on it, unless load and form have met.    *)
PanelOK(r, S) ==
    /\ r \in PanelRecord
    /\ r.rows \subseteq S /\ r.own \subseteq S
    /\ \A i \in Items : r.shown[i] > 0 => i \in S
    /\ \A i \in Items : r.shown[i] > 1 => i \in r.own
    /\ r.submit = "served" => r.item \in S \ r.own
    /\ r.load = "none" => ~r.open
    /\ ~r.met /\ r.submit = "served" => r.item \notin r.rows
    /\ ~r.met /\ r.load # "done" => r.submit = "none" /\ r.own = {} /\ r.shown = OnceEach({})
    /\ ~r.met /\ r.load = "done" /\ r.open => r.shown = OnceEach(r.rows \cup r.own)

\* More rows on the server change nothing of a panel.
LEMMA PanelKept ==
  ASSUME NEW S, NEW T, S \subseteq T, NEW r, PanelOK(r, S)
  PROVE  PanelOK(r, T)
  BY DEF PanelOK

LEMMA FreshOK ==
  ASSUME NEW S
  PROVE  PanelOK(Fresh, S)
<1>1. OnceEach({}) = [i \in Items |-> 0]
  BY DEF OnceEach
<1>2. OnceEach({}) \in [Items -> 0..2]
  BY <1>1
<1>3. Fresh \in PanelRecord
  BY <1>1, <1>2 DEF Fresh, PanelRecord, Calls
<1>4. Fresh.shown = OnceEach({})
  BY <1>1 DEF Fresh
<1>5. QED
  BY <1>1, <1>3, <1>4 DEF Fresh, PanelOK

LEMMA OpenOK ==
  ASSUME NEW S, NEW r, PanelOK(r, S), r.load = "none"
  PROVE  PanelOK(Marked([r EXCEPT !.open = TRUE, !.load = "sent"]), S)
  BY DEF PanelOK, PanelRecord, Marked, Busy, Calls

LEMMA CloseOK ==
  ASSUME NEW S, NEW r, PanelOK(r, S)
  PROVE  PanelOK(Marked([r EXCEPT !.open = FALSE]), S)
  BY DEF PanelOK, PanelRecord, Marked, Busy, Calls

LEMMA TypingOK ==
  ASSUME NEW S, NEW r, PanelOK(r, S), NEW b \in BOOLEAN
  PROVE  PanelOK(Marked([r EXCEPT !.typed = b]), S)
  BY DEF PanelOK, PanelRecord, Marked, Busy, Calls

LEMMA SubmitOK ==
  ASSUME NEW S, NEW r, PanelOK(r, S), r.open, r.submit = "none"
  PROVE  PanelOK(Marked([r EXCEPT !.submit = "sent"]), S)
  BY DEF PanelOK, PanelRecord, Marked, Busy, Calls

LEMMA ServeLoadOK ==
  ASSUME NEW S, S \subseteq Items, NEW r, PanelOK(r, S), r.load = "sent"
  PROVE  PanelOK(Marked([r EXCEPT !.load = "served", !.rows = S]), S)
  BY DEF PanelOK, PanelRecord, Marked, Busy, Calls

LEMMA ServeSubmitOK ==
  ASSUME NEW S, NEW r, PanelOK(r, S), r.submit = "sent", NEW i \in Items, i \notin S
  PROVE  PanelOK(Marked([r EXCEPT !.submit = "served", !.item = i]), S \cup {i})
  BY DEF PanelOK, PanelRecord, Marked, Busy, Calls

LEMMA CallLostOK ==
  ASSUME NEW S, NEW r, PanelOK(r, S)
  PROVE  /\ r.load \in {"sent", "served"} => PanelOK(Marked([r EXCEPT !.load = "failed"]), S)
         /\ r.submit \in {"sent", "served"} => PanelOK(Marked([r EXCEPT !.submit = "failed"]), S)
  BY DEF PanelOK, PanelRecord, Marked, Busy, Calls

\* The list is loaded: the rows it was read from, or none.
LEMMA LoadedOK ==
  ASSUME NEW S, NEW r, PanelOK(r, S), r.load \in {"served", "failed"}
  PROVE  LET done == [r EXCEPT !.load = "done"] IN
         /\ ~r.open \/ r.load = "failed" => PanelOK(Marked([done EXCEPT !.rows = {}]), S)
         /\ r.load = "served" => PanelOK(Marked([done EXCEPT !.shown = OnceEach(r.rows)]), S)
         /\ PanelOK(Marked([done EXCEPT !.shown = OnceEach({}), !.rows = {}]), S)
<1> DEFINE done == [r EXCEPT !.load = "done"]
<1>1. /\ \A rows : OnceEach(rows) \in [Items -> 0..2]
      /\ \A rows : \A i \in Items : OnceEach(rows)[i] > 0 => i \in rows
      /\ \A rows : \A i \in Items : ~(OnceEach(rows)[i] > 1)
  BY DEF OnceEach
<1>2. OnceEach(r.rows \cup {}) = OnceEach(r.rows) /\ OnceEach({} \cup {}) = OnceEach({})
  <2>1. r.rows \cup {} = r.rows /\ {} \cup {} = {}
    OBVIOUS
  <2>2. QED
    BY <2>1
<1> USE DEF PanelOK, PanelRecord, Marked, Busy, Calls
<1>3. ASSUME ~r.open \/ r.load = "failed" PROVE PanelOK(Marked([done EXCEPT !.rows = {}]), S)
  BY <1>1, <1>2, <1>3
<1>4. ASSUME r.load = "served" PROVE PanelOK(Marked([done EXCEPT !.shown = OnceEach(r.rows)]), S)
  BY <1>1, <1>2, <1>4
<1>5. PanelOK(Marked([done EXCEPT !.shown = OnceEach({}), !.rows = {}]), S)
  BY <1>1, <1>2
<1>6. QED
  BY <1>3, <1>4, <1>5

\* An answer of the form: the item is appended where there is a list.
LEMMA AddedOK ==
  ASSUME NEW S, S \subseteq Items, NEW r, PanelOK(r, S), r.submit = "served", NEW shown,
         shown = IF r.open THEN [r.shown EXCEPT ![r.item] = @ + 1] ELSE r.shown
  PROVE  PanelOK(Marked([r EXCEPT !.submit = "none", !.item = 0, !.typed = FALSE,
                                  !.shown = shown, !.own = @ \cup {r.item}]), S)
<1> DEFINE new == [r EXCEPT !.submit = "none", !.item = 0, !.typed = FALSE,
                            !.shown = shown, !.own = @ \cup {r.item}]
<1>1. /\ r \in PanelRecord /\ r.item \in Items /\ r.item \in S /\ r.item \notin r.own
      /\ r.shown \in [Items -> 0..2] /\ ~(r.shown[r.item] > 1)
  BY DEF PanelOK, PanelRecord
<1>2. /\ shown \in [Items -> 0..2]
      /\ \A i \in Items : shown[i] > 0 => i \in S
      /\ \A i \in Items : shown[i] > 1 => i \in r.own \cup {r.item}
  <2>1. \A i \in Items : i # r.item => shown[i] = r.shown[i]
    BY <1>1
  <2>2. shown[r.item] \in 0..2
    BY <1>1
  <2>3. shown \in [Items -> 0..2]
    BY <1>1
  <2>4. QED
    BY <1>1, <2>1, <2>2, <2>3 DEF PanelOK
<1>3. ASSUME ~r.met, r.load = "done", r.open PROVE shown = OnceEach(r.rows \cup (r.own \cup {r.item}))
  <2>1. r.shown = OnceEach(r.rows \cup r.own) /\ r.item \notin r.rows \cup r.own
    BY <1>1, <1>3 DEF PanelOK
  <2>2. shown = [r.shown EXCEPT ![r.item] = @ + 1]
    BY <1>3
  <2>3. \A i \in Items : shown[i] = OnceEach(r.rows \cup (r.own \cup {r.item}))[i]
    BY <2>1, <2>2, <1>1 DEF OnceEach
  <2>4. OnceEach(r.rows \cup (r.own \cup {r.item})) = [i \in Items |-> OnceEach(r.rows \cup (r.own \cup {r.item}))[i]]
    BY DEF OnceEach
  <2>5. shown = [i \in Items |-> shown[i]]
    BY <1>2
  <2>6. QED
    BY <2>3, <2>4, <2>5
<1> HIDE DEF new
<1>4. /\ Marked(new) \in PanelRecord
      /\ Marked(new).rows = r.rows /\ Marked(new).own = r.own \cup {r.item}
      /\ Marked(new).shown = shown /\ Marked(new).submit = "none"
      /\ Marked(new).load = r.load /\ Marked(new).open = r.open
      /\ ~Marked(new).met => ~r.met
  <2>1. new \in PanelRecord
    BY <1>1, <1>2 DEF new, PanelRecord, Calls
  <2>2. /\ new.rows = r.rows /\ new.own = r.own \cup {r.item}
        /\ new.shown = shown /\ new.submit = "none"
        /\ new.load = r.load /\ new.open = r.open /\ new.met = r.met
    BY <1>1 DEF new, PanelRecord
  <2>3. QED
    BY <2>1, <2>2, <1>1 DEF Marked, PanelRecord, Busy
<1>5. ~r.met => r.load = "done"
  BY DEF PanelOK
<1>6. r.load = "none" => ~r.open
  BY DEF PanelOK
<1>7. r.rows \subseteq S /\ r.own \cup {r.item} \subseteq S
  BY <1>1 DEF PanelOK
<1>8. PanelOK(Marked(new), S)
  BY <1>2, <1>3, <1>4, <1>5, <1>6, <1>7 DEF PanelOK
<1>9. QED
  BY <1>8 DEF new

\* A form whose answer was an error.
LEMMA RefusedOK ==
  ASSUME NEW S, NEW r, PanelOK(r, S)
  PROVE  PanelOK(Marked([r EXCEPT !.submit = "none", !.item = 0]), S)
  BY DEF PanelOK, PanelRecord, Marked, Busy, Calls

LEMMA RefusedByServerOK ==
  ASSUME NEW S, NEW r, PanelOK(r, S), r.submit = "sent"
  PROVE  PanelOK(Marked([r EXCEPT !.submit = "failed"]), S)
  BY DEF PanelOK, PanelRecord, Marked, Busy, Calls

-----------------------------------------------------------------------------
(* The screen as a whole.  An item is on its way to one form at most, and  *)
(* the card has counted the comments that arrived.                         *)
RowsOK ==
    /\ made \in 0..MaxItems
    /\ posts \cap comments = {} /\ posts \cup comments = 1..made
Arrived == UNION {panel[m].own : m \in Modals}

ScreenInv ==
    /\ RowsOK
    /\ panel \in [Panels -> PanelRecord]
    /\ \A p \in Panels : PanelOK(panel[p], Store(p))
    /\ \A p, q \in Panels : panel[p].submit = "served" =>
          /\ panel[p].item \notin panel[q].own
          /\ p # q /\ panel[q].submit = "served" => panel[p].item # panel[q].item
    /\ \A m, n \in Modals : panel[m].open /\ panel[n].open => m = n
    /\ count \in Nat /\ count = Cardinality(Arrived)

LEMMA ScreenInvInit == ScreenInit => ScreenInv
<1> SUFFICES ASSUME ScreenInit PROVE ScreenInv
  OBVIOUS
<1> USE PostScreenAssumption
<1>1. RowsOK
  BY DEF ScreenInit, RowsOK
<1>2. \A p \in Panels : panel[p] = Fresh
  BY DEF ScreenInit
<1>3. \A S : PanelOK(Fresh, S)
  BY FreshOK
<1>4. Fresh \in PanelRecord /\ Fresh.submit = "none" /\ Fresh.own = {} /\ ~Fresh.open
  <2>1. Fresh \in PanelRecord
    BY <1>3 DEF PanelOK
  <2>2. QED
    BY <2>1 DEF Fresh
<1> HIDE DEF Fresh
<1>5. Arrived = {}
  BY <1>2, <1>4 DEF Arrived, Panels
<1>6. panel \in [Panels -> PanelRecord]
  BY <1>4 DEF ScreenInit
<1>7. count \in Nat /\ count = Cardinality(Arrived)
  BY <1>5, FS_EmptySet DEF ScreenInit
<1>8. \A m, n \in Modals : panel[m].open /\ panel[n].open => m = n
  BY <1>2, <1>4 DEF Panels
<1>9. QED
  BY <1>1, <1>2, <1>3, <1>4, <1>6, <1>7, <1>8 DEF ScreenInv

LEMMA RowsFinite ==
  ASSUME RowsOK
  PROVE  /\ made \in Nat /\ 1..made \subseteq Items
         /\ posts \subseteq Items /\ comments \subseteq Items
         /\ IsFiniteSet(comments)
<1>1. made \in Nat /\ made <= MaxItems
  BY PostScreenAssumption DEF RowsOK
<1>2. 1..made \subseteq Items
  BY <1>1, PostScreenAssumption DEF Items
<1>3. IsFiniteSet(1..made) /\ comments \subseteq 1..made
  BY <1>1, FS_Interval DEF RowsOK
<1>4. IsFiniteSet(comments)
  BY <1>3, FS_Subset
<1>5. QED
  BY <1>1, <1>2, <1>4 DEF RowsOK

\* Each panel takes its items from one of the two tables.
LEMMA Stores ==
  ASSUME ScreenInv
  PROVE  /\ \A p \in Panels : Store(p) \subseteq Items /\ Store(p) \subseteq 1..made
         /\ \A m \in Modals : m \in Panels /\ m # Feed /\ Store(m) = comments
         /\ \A p \in Panels : panel[p].own \subseteq Store(p)
         /\ \A p \in Panels : panel[p].submit = "served" => panel[p].item \in Store(p)
         /\ Arrived \subseteq comments /\ IsFiniteSet(Arrived)
<1>1. RowsOK
  BY DEF ScreenInv
<1>2. \A p \in Panels : Store(p) \subseteq Items /\ Store(p) \subseteq 1..made
  BY <1>1, RowsFinite DEF Store, RowsOK
<1>3. \A m \in Modals : m \in Panels /\ m # Feed /\ Store(m) = comments
  BY PostScreenAssumption DEF Panels, Store
<1>4. /\ \A p \in Panels : panel[p].own \subseteq Store(p)
      /\ \A p \in Panels : panel[p].submit = "served" => panel[p].item \in Store(p)
  BY DEF ScreenInv, PanelOK
<1>5. Arrived \subseteq comments
  BY <1>3, <1>4 DEF Arrived
<1>6. IsFiniteSet(Arrived)
  BY <1>1, <1>5, RowsFinite, FS_Subset
<1>7. QED
  BY <1>2, <1>3, <1>4, <1>5, <1>6

LEMMA PutMeans ==
  ASSUME panel \in [Panels -> PanelRecord], NEW p \in Panels, NEW new, Put(p, new)
  PROVE  /\ panel'[p] = Marked(new) /\ \A q \in Panels : q # p => panel'[q] = panel[q]
         /\ DOMAIN panel' = Panels /\ panel' = [q \in Panels |-> panel'[q]]
  BY DEF Put, Marked

\* The mark is on the field met alone.
LEMMA MarkIsMet ==
  ASSUME NEW new \in PanelRecord
  PROVE  /\ Marked(new).open = new.open /\ Marked(new).own = new.own
         /\ Marked(new).submit = new.submit /\ Marked(new).item = new.item
  BY DEF Marked, PanelRecord

\* A step of one panel keeps the screen in order if it keeps the panel in order, opens
\* a modal only where none is open, and appends only what is on its way to the form.
LEMMA PanelMoves ==
  ASSUME ScreenInv, NEW p \in Panels, RowsOK',
         posts \subseteq posts', comments \subseteq comments',
         DOMAIN panel' = Panels /\ panel' = [q \in Panels |-> panel'[q]],
         \A q \in Panels : q # p => panel'[q] = panel[q],
         PanelOK(panel'[p], Store(p)'),
         panel'[p].open => \/ panel[p].open \/ p = Feed
                           \/ \A m \in Modals : ~panel[m].open,
         panel'[p].submit = "served" => \/ /\ panel[p].submit = "served"
                                           /\ panel'[p].item = panel[p].item
                                        \/ panel'[p].item \notin 1..made,
         \/ panel'[p].own = panel[p].own /\ count' = count
         \/ /\ panel[p].submit = "served" /\ panel'[p].submit = "none"
            /\ panel'[p].own = panel[p].own \cup {panel[p].item}
            /\ count' = IF p = Feed THEN count ELSE count + 1
  PROVE  ScreenInv'
<1> USE PostScreenAssumption
<1>1. \A q \in Panels : PanelOK(panel'[q], Store(q)')
  <2>1. \A q \in Panels : Store(q) \subseteq Store(q)'
    BY DEF Store
  <2>2. \A q \in Panels : q # p => PanelOK(panel[q], Store(q))
    BY DEF ScreenInv
  <2>3. QED
    BY <2>1, <2>2, PanelKept
<1>2. panel' \in [Panels -> PanelRecord]
  BY <1>1 DEF PanelOK
<1>3. ASSUME NEW q \in Panels, NEW r \in Panels, panel'[q].submit = "served"
      PROVE  /\ panel'[q].item \notin panel'[r].own
             /\ q # r /\ panel'[r].submit = "served" => panel'[q].item # panel'[r].item
  <2>1. \A s \in Panels : panel[s].own \subseteq 1..made
    BY Stores
  <2>2. \A s \in Panels : panel[s].submit = "served" => panel[s].item \in 1..made
    BY Stores
  <2>3. \A s, t \in Panels : panel[s].submit = "served" =>
          /\ panel[s].item \notin panel[t].own
          /\ s # t /\ panel[t].submit = "served" => panel[s].item # panel[t].item
    BY DEF ScreenInv
  <2>4. CASE q = p
    BY <2>1, <2>2, <2>3, <2>4, <1>3
  <2>5. CASE q # p
    <3>1. panel[q].submit = "served" /\ panel'[q].item = panel[q].item
      BY <2>5, <1>3
    <3>2. CASE r = p
      BY <2>1, <2>2, <2>3, <2>5, <3>1, <3>2
    <3>3. CASE r # p
      BY <2>3, <3>1, <3>3
    <3>4. QED
      BY <3>2, <3>3
  <2>6. QED
    BY <2>4, <2>5
<1>4. \A m, n \in Modals : panel'[m].open /\ panel'[n].open => m = n
  <2>1. \A m, n \in Modals : panel[m].open /\ panel[n].open => m = n
    BY DEF ScreenInv
  <2>2. \A m \in Modals : m \in Panels /\ m # Feed
    BY Stores
  <2>3. QED
    BY <2>1, <2>2
<1>5. count' \in Nat /\ count' = Cardinality(Arrived')
  <2>1. count \in Nat /\ count = Cardinality(Arrived) /\ IsFiniteSet(Arrived)
    BY Stores DEF ScreenInv
  <2>2. CASE panel'[p].own = panel[p].own /\ count' = count
    <3>1. \A m \in Modals : panel'[m].own = panel[m].own
      BY <2>2, Stores
    <3>2. Arrived' = Arrived
      BY <3>1 DEF Arrived
    <3>3. QED
      BY <2>1, <2>2, <3>2
  <2>3. CASE /\ panel[p].submit = "served"
             /\ panel'[p].own = panel[p].own \cup {panel[p].item}
             /\ count' = IF p = Feed THEN count ELSE count + 1
    <3>1. CASE p = Feed
      <4>1. \A m \in Modals : panel'[m].own = panel[m].own
        BY <3>1, Stores
      <4>2. Arrived' = Arrived
        BY <4>1 DEF Arrived
      <4>3. QED
        BY <2>1, <2>3, <3>1, <4>2
    <3>2. CASE p # Feed
      <4>1. p \in Modals
        BY <3>2 DEF Panels
      <4>2. \A m \in Modals : panel[p].item \notin panel[m].own
        BY <2>3, Stores DEF ScreenInv
      <4>3. panel[p].item \notin Arrived
        BY <4>2 DEF Arrived
      <4>4. Arrived' = Arrived \cup {panel[p].item}
        <5>1. \A m \in Modals : m # p => panel'[m].own = panel[m].own
          BY Stores
        <5>2. QED
          BY <2>3, <4>1, <5>1 DEF Arrived
      <4>5. Cardinality(Arrived') = Cardinality(Arrived) + 1
        BY <2>1, <4>3, <4>4, FS_AddElement
      <4>6. QED
        BY <2>1, <2>3, <3>2, <4>5
    <3>3. QED
      BY <3>1, <3>2
  <2>4. QED
    BY <2>2, <2>3
<1>6. QED
  BY <1>1, <1>2, <1>3, <1>4, <1>5 DEF ScreenInv

\* The steps of a panel that leave the tables and the card alone.
LEMMA QuietMove ==
  ASSUME ScreenInv, NEW p \in Panels, NEW new \in PanelRecord, Put(p, new),
         UNCHANGED <<posts, comments, made, count>>,
         PanelOK(Marked(new), Store(p)), new.own = panel[p].own,
         new.open => panel[p].open \/ p = Feed \/ \A m \in Modals : ~panel[m].open,
         new.submit = "served" => panel[p].submit = "served" /\ new.item = panel[p].item
  PROVE  ScreenInv'
<1>1. panel \in [Panels -> PanelRecord] /\ RowsOK'
  BY DEF ScreenInv, RowsOK
<1>2. /\ panel'[p] = Marked(new) /\ \A q \in Panels : q # p => panel'[q] = panel[q]
      /\ DOMAIN panel' = Panels /\ panel' = [q \in Panels |-> panel'[q]]
  BY <1>1, PutMeans
<1>3. /\ panel'[p].open = new.open /\ panel'[p].own = new.own
      /\ panel'[p].submit = new.submit /\ panel'[p].item = new.item
  BY <1>2, MarkIsMet
<1>4. PanelOK(panel'[p], Store(p)')
  BY <1>2 DEF Store
<1>5. QED
  BY <1>1, <1>2, <1>3, <1>4, PanelMoves

\* What the browser and the network do to one panel, and the reading of a list.
LEMMA BrowserSteps ==
  ASSUME ScreenInv, NEW p \in Panels,
         Open(p) \/ Close(p) \/ Type(p) \/ Submit(p) \/ ServeLoad(p) \/ CallLost(p)
  PROVE  ScreenInv'
<1> DEFINE r == panel[p]
<1>1. r \in PanelRecord /\ PanelOK(r, Store(p)) /\ Store(p) \subseteq Items
  BY Stores DEF ScreenInv
<1>3. CASE Open(p)
  <2> DEFINE new == [r EXCEPT !.open = TRUE, !.load = "sent"]
  <2>1. /\ Put(p, new) /\ UNCHANGED <<posts, comments, made, count>> /\ r.load = "none"
        /\ p \in Modals => \A m \in Modals : ~panel[m].open
    BY <1>3 DEF Open
  <2>2. PanelOK(Marked(new), Store(p))
    BY <1>1, <2>1, OpenOK
  <2>3. new \in PanelRecord /\ new.own = r.own /\ new.submit = r.submit /\ new.item = r.item
    BY <1>1 DEF PanelRecord, Calls
  <2>4. p = Feed \/ \A m \in Modals : ~panel[m].open
    BY <2>1 DEF Panels
  <2> HIDE DEF new
  <2>5. QED
    BY <2>1, <2>2, <2>3, <2>4, QuietMove
<1>4. CASE Close(p)
  <2> DEFINE new == [r EXCEPT !.open = FALSE]
  <2>1. Put(p, new) /\ UNCHANGED <<posts, comments, made, count>>
    BY <1>4 DEF Close
  <2>2. PanelOK(Marked(new), Store(p))
    BY <1>1, CloseOK
  <2>3. new \in PanelRecord /\ new.own = r.own /\ new.submit = r.submit /\ new.item = r.item /\ ~new.open
    BY <1>1 DEF PanelRecord, Calls
  <2> HIDE DEF new
  <2>4. QED
    BY <2>1, <2>2, <2>3, QuietMove
<1>5. ASSUME NEW b \in BOOLEAN, Put(p, [r EXCEPT !.typed = b]), UNCHANGED <<posts, comments, made, count>>
      PROVE  ScreenInv'
  <2> DEFINE new == [r EXCEPT !.typed = b]
  <2>1. PanelOK(Marked(new), Store(p))
    BY <1>1, TypingOK
  <2>2. /\ new \in PanelRecord /\ new.own = r.own /\ new.submit = r.submit
        /\ new.item = r.item /\ new.open = r.open
    BY <1>1 DEF PanelRecord, Calls
  <2>3. Put(p, new)
    BY <1>5
  <2> HIDE DEF new
  <2>4. QED
    BY <1>5, <2>1, <2>2, <2>3, QuietMove
<1>6. CASE Type(p)
  BY <1>5, <1>6 DEF Type
<1>7. CASE Submit(p)
  <2>1. CASE Put(p, [r EXCEPT !.submit = "sent"])
    <3> DEFINE new == [r EXCEPT !.submit = "sent"]
    <3>1. r.open /\ r.submit = "none" /\ UNCHANGED <<posts, comments, made, count>>
      BY <1>7 DEF Submit
    <3>2. PanelOK(Marked(new), Store(p))
      BY <1>1, <3>1, SubmitOK
    <3>3. new \in PanelRecord /\ new.own = r.own /\ new.submit = "sent" /\ new.open = r.open
      BY <1>1 DEF PanelRecord, Calls
    <3>4. Put(p, new)
      BY <2>1
    <3> HIDE DEF new
    <3>5. QED
      BY <3>1, <3>2, <3>3, <3>4, QuietMove
  <2>2. CASE Put(p, [r EXCEPT !.typed = FALSE])
    BY <2>2, <1>5, <1>7 DEF Submit
  <2>3. CASE Put(p, [r EXCEPT !.open = FALSE])
    <3> DEFINE new == [r EXCEPT !.open = FALSE]
    <3>1. PanelOK(Marked(new), Store(p))
      BY <1>1, CloseOK
    <3>2. new \in PanelRecord /\ new.own = r.own /\ new.submit = r.submit /\ new.item = r.item /\ ~new.open
      BY <1>1 DEF PanelRecord, Calls
    <3>3. Put(p, new) /\ UNCHANGED <<posts, comments, made, count>>
      BY <1>7, <2>3 DEF Submit
    <3> HIDE DEF new
    <3>4. QED
      BY <3>1, <3>2, <3>3, QuietMove
  <2>4. QED
    BY <1>7, <2>1, <2>2, <2>3 DEF Submit
<1>8. CASE ServeLoad(p)
  <2> DEFINE new == [r EXCEPT !.load = "served", !.rows = Store(p)]
  <2>1. Put(p, new) /\ UNCHANGED <<posts, comments, made, count>> /\ r.load = "sent"
    BY <1>8 DEF ServeLoad
  <2>2. PanelOK(Marked(new), Store(p))
    BY <1>1, <2>1, ServeLoadOK
  <2>3. /\ new \in PanelRecord /\ new.own = r.own /\ new.submit = r.submit
        /\ new.item = r.item /\ new.open = r.open
    BY <1>1 DEF PanelRecord, Calls
  <2> HIDE DEF new
  <2>4. QED
    BY <2>1, <2>2, <2>3, QuietMove
<1>9. CASE CallLost(p)
  <2>1. UNCHANGED <<posts, comments, made, count>>
    BY <1>9 DEF CallLost
  <2>2. CASE r.load \in {"sent", "served"} /\ Put(p, [r EXCEPT !.load = "failed"])
    <3> DEFINE new == [r EXCEPT !.load = "failed"]
    <3>1. PanelOK(Marked(new), Store(p))
      BY <1>1, <2>2, CallLostOK
    <3>2. /\ new \in PanelRecord /\ new.own = r.own /\ new.submit = r.submit
          /\ new.item = r.item /\ new.open = r.open
      BY <1>1 DEF PanelRecord, Calls
    <3>3. Put(p, new)
      BY <2>2
    <3> HIDE DEF new
    <3>4. QED
      BY <2>1, <3>1, <3>2, <3>3, QuietMove
  <2>3. CASE r.submit \in {"sent", "served"} /\ Put(p, [r EXCEPT !.submit = "failed"])
    <3> DEFINE new == [r EXCEPT !.submit = "failed"]
    <3>1. PanelOK(Marked(new), Store(p))
      BY <1>1, <2>3, CallLostOK
    <3>2. new \in PanelRecord /\ new.own = r.own /\ new.submit = "failed" /\ new.open = r.open
      BY <1>1 DEF PanelRecord, Calls
    <3>3. Put(p, new)
      BY <2>3
    <3> HIDE DEF new
    <3>4. QED
      BY <2>1, <3>1, <3>2, <3>3, QuietMove
  <2>4. QED
    BY <1>9, <2>2, <2>3 DEF CallLost
<1>10. QED
  BY <1>3, <1>4, <1>6, <1>7, <1>8, <1>9

LEMMA LoadArrives ==
  ASSUME ScreenInv, NEW p \in Panels, ReceiveLoad(p)
  PROVE  ScreenInv'
<1> DEFINE r == panel[p]
           done == [r EXCEPT !.load = "done"]
           none == [done EXCEPT !.rows = {}]
           list == [done EXCEPT !.shown = OnceEach(r.rows)]
           empty == [done EXCEPT !.shown = OnceEach({}), !.rows = {}]
<1>1. r \in PanelRecord /\ PanelOK(r, Store(p))
  BY DEF ScreenInv
<1>2. r.load \in {"served", "failed"} /\ UNCHANGED <<posts, comments, made, count>>
  BY DEF ReceiveLoad
<1>3. \/ Put(p, none) /\ (~r.open \/ r.load = "failed")
      \/ Put(p, list) /\ r.load = "served"
      \/ Put(p, empty)
  BY DEF ReceiveLoad
<1>4. /\ ~r.open \/ r.load = "failed" => PanelOK(Marked(none), Store(p))
      /\ r.load = "served" => PanelOK(Marked(list), Store(p))
      /\ PanelOK(Marked(empty), Store(p))
  BY <1>1, <1>2, LoadedOK
<1>5. \A rows : OnceEach(rows) \in [Items -> 0..2]
  BY DEF OnceEach
<1>6. ASSUME NEW new \in {none, list, empty}
      PROVE  /\ new \in PanelRecord /\ new.own = r.own /\ new.submit = r.submit
             /\ new.item = r.item /\ new.open = r.open
  <2>1. done \in PanelRecord /\ OnceEach(r.rows) \in [Items -> 0..2] /\ OnceEach({}) \in [Items -> 0..2]
    BY <1>1, <1>5 DEF PanelRecord, Calls
  <2>2. CASE new = none
    BY <1>1, <2>1, <2>2 DEF PanelRecord
  <2>3. CASE new = list
    BY <1>1, <2>1, <2>3 DEF PanelRecord
  <2>4. CASE new = empty
    BY <1>1, <2>1, <2>4 DEF PanelRecord
  <2>5. QED
    BY <2>2, <2>3, <2>4
<1>7. PICK new \in {none, list, empty} : Put(p, new) /\ PanelOK(Marked(new), Store(p))
  BY <1>3, <1>4
<1> HIDE DEF none, list, empty
<1>8. QED
  BY <1>2, <1>6, <1>7, QuietMove

\* An item is made: a row of one table, with a new number.
LEMMA MakeMeans ==
  ASSUME RowsOK, NEW p \in Panels, Make(p)
  PROVE  /\ RowsOK' /\ posts \subseteq posts' /\ comments \subseteq comments'
         /\ made' \in Items /\ made' \notin 1..made
         /\ Store(p)' = Store(p) \cup {made'}
<1> USE PostScreenAssumption
<1>1. made \in Nat /\ made < MaxItems /\ made' = made + 1
  BY DEF Make, RowsOK
<1>2. 1..made' = (1..made) \cup {made'} /\ made' \notin 1..made /\ made' \in 0..MaxItems
  BY <1>1
<1>3. CASE p = Feed
  <2>1. posts' = posts \cup {made'} /\ comments' = comments
    BY <1>3 DEF Make
  <2>2. QED
    BY <1>1, <1>2, <1>3, <2>1 DEF RowsOK, Store, Items
<1>4. CASE p # Feed
  <2>1. comments' = comments \cup {made'} /\ posts' = posts
    BY <1>4 DEF Make
  <2>2. QED
    BY <1>1, <1>2, <1>4, <2>1 DEF RowsOK, Store, Items
<1>5. QED
  BY <1>3, <1>4

LEMMA SubmitArrives ==
  ASSUME ScreenInv, NEW p \in Panels, ServeSubmit(p)
  PROVE  ScreenInv'
<1> DEFINE r == panel[p]
<1>1. r \in PanelRecord /\ PanelOK(r, Store(p)) /\ RowsOK /\ panel \in [Panels -> PanelRecord]
  BY DEF ScreenInv
<1>2. r.submit = "sent" /\ count' = count
  BY DEF ServeSubmit
<1>3. CASE MayWrite
  <2> DEFINE new == [r EXCEPT !.submit = "served", !.item = made']
  <2>1. Make(p) /\ Put(p, new)
    BY <1>3 DEF ServeSubmit
  <2>2. /\ RowsOK' /\ posts \subseteq posts' /\ comments \subseteq comments'
        /\ made' \in Items /\ made' \notin 1..made /\ Store(p)' = Store(p) \cup {made'}
    BY <1>1, <2>1, MakeMeans
  <2>3. made' \notin Store(p)
    BY <2>2, Stores
  <2>4. PanelOK(Marked(new), Store(p)')
    <3>1. PICK i \in Items : i = made'
      BY <2>2
    <3>2. PanelOK(Marked([r EXCEPT !.submit = "served", !.item = i]), Store(p) \cup {i})
      BY <1>1, <1>2, <2>3, <3>1, ServeSubmitOK
    <3>3. QED
      BY <2>2, <3>1, <3>2
  <2>5. /\ new \in PanelRecord /\ new.own = r.own /\ new.item = made' /\ new.open = r.open
    BY <1>1, <2>2 DEF PanelRecord, Calls
  <2> HIDE DEF new
  <2>6. /\ panel'[p] = Marked(new) /\ \A q \in Panels : q # p => panel'[q] = panel[q]
        /\ DOMAIN panel' = Panels /\ panel' = [q \in Panels |-> panel'[q]]
    BY <1>1, <2>1, PutMeans
  <2>7. /\ panel'[p].open = r.open /\ panel'[p].own = r.own /\ panel'[p].item = made'
    BY <2>5, <2>6, MarkIsMet
  <2>8. PanelOK(panel'[p], Store(p)')
    BY <2>4, <2>6
  <2>9. QED
    BY <1>2, <2>2, <2>6, <2>7, <2>8, PanelMoves
<1>4. CASE ~MayWrite
  <2> DEFINE new == [r EXCEPT !.submit = "failed"]
  <2>1. UNCHANGED <<posts, comments, made, count>> /\ Put(p, new)
    BY <1>4 DEF ServeSubmit
  <2>2. PanelOK(Marked(new), Store(p))
    BY <1>1, <1>2, RefusedByServerOK
  <2>3. new \in PanelRecord /\ new.own = r.own /\ new.submit = "failed" /\ new.open = r.open
    BY <1>1 DEF PanelRecord, Calls
  <2> HIDE DEF new
  <2>4. QED
    BY <2>1, <2>2, <2>3, QuietMove
<1>5. QED
  BY <1>3, <1>4

LEMMA AnswerArrives ==
  ASSUME ScreenInv, NEW p \in Panels, ReceiveSubmit(p)
  PROVE  ScreenInv'
<1> DEFINE r == panel[p]
           shown == IF r.open THEN [r.shown EXCEPT ![r.item] = @ + 1] ELSE r.shown
<1>1. /\ r \in PanelRecord /\ PanelOK(r, Store(p)) /\ panel \in [Panels -> PanelRecord]
      /\ Store(p) \subseteq Items
  BY Stores DEF ScreenInv
<1>2. /\ Received(p, shown)
      /\ UNCHANGED <<posts, comments, made>>
  BY DEF ReceiveSubmit, Received
<1>3. CASE r.submit = "served"
  <2> DEFINE new == [r EXCEPT !.submit = "none", !.item = 0, !.typed = FALSE,
                              !.shown = shown, !.own = @ \cup {r.item}]
  <2>1. Put(p, new) /\ count' = IF p = Feed THEN count ELSE count + 1
    BY <1>2, <1>3 DEF Received
  <2>2. PanelOK(Marked(new), Store(p))
    BY <1>1, <1>3, AddedOK
  <2>3. /\ Marked(new).open = r.open /\ Marked(new).own = r.own \cup {r.item}
        /\ Marked(new).submit = "none"
    BY <1>1 DEF Marked, PanelRecord
  <2> HIDE DEF new
  <2>4. /\ panel'[p] = Marked(new) /\ \A q \in Panels : q # p => panel'[q] = panel[q]
        /\ DOMAIN panel' = Panels /\ panel' = [q \in Panels |-> panel'[q]]
    BY <1>1, <2>1, PutMeans
  <2>5. PanelOK(panel'[p], Store(p)')
    BY <1>2, <2>2, <2>4 DEF Store
  <2>6. RowsOK'
    BY <1>2 DEF ScreenInv, RowsOK
  <2>7. QED
    BY <1>2, <1>3, <2>1, <2>3, <2>4, <2>5, <2>6, PanelMoves
<1>4. CASE r.submit # "served"
  <2> DEFINE new == [r EXCEPT !.submit = "none", !.item = 0]
  <2>1. Put(p, new) /\ UNCHANGED <<posts, comments, made, count>>
    BY <1>2, <1>4 DEF Received
  <2>2. PanelOK(Marked(new), Store(p))
    BY <1>1, RefusedOK
  <2>3. new \in PanelRecord /\ new.own = r.own /\ new.submit = "none" /\ new.open = r.open
    BY <1>1 DEF PanelRecord, Calls
  <2> HIDE DEF new
  <2>4. QED
    BY <2>1, <2>2, <2>3, QuietMove
<1>5. QED
  BY <1>3, <1>4

LEMMA OthersMake ==
  ASSUME ScreenInv, Others
  PROVE  ScreenInv'
<1>1. PICK p \in Panels : Make(p)
  BY DEF Others
<1>2. RowsOK' /\ posts \subseteq posts' /\ comments \subseteq comments'
  BY <1>1, MakeMeans DEF ScreenInv
<1>3. panel' = panel /\ count' = count /\ Arrived' = Arrived
  BY DEF Others, Arrived
<1>4. \A q \in Panels : PanelOK(panel[q], Store(q)')
  <2>1. \A q \in Panels : Store(q) \subseteq Store(q)'
    BY <1>2 DEF Store
  <2>2. \A q \in Panels : PanelOK(panel[q], Store(q))
    BY DEF ScreenInv
  <2>3. QED
    BY <2>1, <2>2, PanelKept
<1>5. QED
  BY <1>2, <1>3, <1>4 DEF ScreenInv

LEMMA ScreenInvNext == ScreenInv /\ [ScreenNext]_screenVars => ScreenInv'
<1> SUFFICES ASSUME ScreenInv, [ScreenNext]_screenVars PROVE ScreenInv'
  OBVIOUS
<1>1. ASSUME UNCHANGED <<posts, comments, made, panel, count>> PROVE ScreenInv'
  BY <1>1 DEF ScreenInv, RowsOK, Arrived, Store
<1>2. Verify \/ ToggleLike \/ ServeLike \/ LikeLost \/ ReceiveLike \/ UNCHANGED screenVars
        => UNCHANGED <<posts, comments, made, panel, count>>
  BY DEF Verify, ToggleLike, ServeLike, LikeLost, ReceiveLike, LikeReceived, screenVars
<1>3. QED
  BY <1>1, <1>2, BrowserSteps, LoadArrives, SubmitArrives, AnswerArrives, OthersMake
  DEF ScreenNext

LEMMA ScreenInvSays == ScreenInv => ScreenIsComplete
<1> SUFFICES ASSUME ScreenInv PROVE ScreenTypeOK /\ ListIsCompleteUnlessMet
  BY DEF ScreenIsComplete
<1>1. \A p \in Panels :
        /\ panel[p].shown \in [Items -> 0..2]
        /\ panel[p].own \cup {i \in Items : panel[p].shown[i] > 0} \subseteq Store(p)
  <2>1. \A p \in Panels : panel[p] \in PanelRecord /\ PanelOK(panel[p], Store(p))
    BY DEF ScreenInv
  <2>2. QED
    BY <2>1 DEF PanelOK, PanelRecord
<1>2. Cardinality({m \in Modals : panel[m].open}) <= 1
  <2> DEFINE O == {m \in Modals : panel[m].open}
  <2>1. CASE O = {}
    BY <2>1, FS_EmptySet
  <2>2. CASE O # {}
    <3>1. PICK m \in O : TRUE
      BY <2>2
    <3>2. O = {m}
      BY <3>1 DEF ScreenInv
    <3>3. Cardinality({m}) = 1
      BY FS_Singleton
    <3>4. QED
      BY <3>2, <3>3
  <2>3. QED
    BY <2>1, <2>2
<1>3. count <= Cardinality(comments)
  <2>1. Arrived \subseteq comments /\ IsFiniteSet(comments)
    BY Stores, RowsFinite DEF ScreenInv
  <2>2. Cardinality(Arrived) <= Cardinality(comments)
    BY <2>1, FS_Subset
  <2>3. QED
    BY <2>2 DEF ScreenInv
<1>4. ListIsCompleteUnlessMet
  <2>1. \A p \in Panels : PanelOK(panel[p], Store(p))
    BY DEF ScreenInv
  <2>2. QED
    BY <2>1 DEF ListIsCompleteUnlessMet, PanelOK
<1>5. QED
  BY <1>1, <1>2, <1>3, <1>4 DEF ScreenTypeOK, ScreenInv, RowsOK

\* For any number of openings and items, in any order of calls and answers: a list
\* shows what was there when it was read and what the user added since, each once,
\* unless load and form were under way together; and the card counts no comment that
\* is not there.  (CommentsModal.tsx, PostCreator.tsx, Feed.tsx)
THEOREM ListsAreComplete == ScreenSpec => []ScreenIsComplete
  BY ScreenInvInit, ScreenInvNext, ScreenInvSays, PTL DEF ScreenSpec

=============================================================================
