-------------------------- MODULE AutoDelete_proofs --------------------------
(***************************************************************************)
(* Proofs about AutoDelete, for every size of the table, pattern of        *)
(* missing ids, number of days to keep and number of errors, and about the *)
(* Calendar it computes its cutoff with, for all years.                    *)
(***************************************************************************)
EXTENDS MCAutoDelete, FiniteSetTheorems, TLAPS

LEMMA ProbeInside ==
  ASSUME lower \in Nat, upper \in Nat, Narrowing
  PROVE  Probe \in Nat /\ lower < Probe /\ Probe < upper
  BY DEF Narrowing, Probe

(* The local variables and the ids stay in their ranges: a probe is always *)
(* inside the interval, which never leaves the ids given.                  *)
(* (cw_output.cpp autodelete)                                              *)
THEOREM TypeCorrect == Spec => []TypeOK
<1>1. Init => TypeOK
  BY AutoDeleteAssumption DEF Init, TypeOK, Rows, Ids
<1>2. TypeOK /\ [Next]_vars => TypeOK'
  <2> SUFFICES ASSUME TypeOK, [Next]_vars PROVE TypeOK'
    OBVIOUS
  <2> USE AutoDeleteAssumption DEF TypeOK, Rows, Ids, bounds
  <2>1. CASE NewDay
    BY <2>1 DEF NewDay
  <2>11. CASE Rest
    BY <2>11 DEF Rest
  <2>2. ASSUME NEW date \in 0..today, Store(date)
        PROVE  /\ Rows' \subseteq 1..(nextId' - 1) /\ table' \in [Rows' -> 0..today]
               /\ nextId' \in 1..(LastId + 1) /\ upper \in 0..nextId'
    BY <2>2 DEF Store
  <2>3. CASE Insert
    <3>1. PICK date \in newest..today : Store(date) /\ newest' = date /\ UNCHANGED imports
      BY <2>3 DEF Insert
    <3>2. date \in 0..today
      OBVIOUS
    <3> QED
      BY <2>2, <3>1, <3>2 DEF Store
  <2>4. CASE Import
    <3>1. PICK date \in 0..today : Store(date)
      BY <2>4 DEF Import
    <3> QED
      BY <2>2, <2>4, <3>1 DEF Store, Import
  <2>5. CASE Burn
    BY <2>5 DEF Burn
  <2>6. CASE Begin
    <3>1. ASSUME NEW lo \in Rows, NEW hi \in Rows, FirstAndLast(lo, hi)
          PROVE  lo \in 0..(hi + 1) /\ hi + 1 \in 0..nextId
      BY <3>1 DEF FirstAndLast
    <3>2. lower' \in 0..upper' /\ upper' \in 0..nextId
      <4>1. CASE lower' = 0 /\ upper' = 1
        BY <4>1
      <4>2. ASSUME NEW lo \in Rows, NEW hi \in Rows, FirstAndLast(lo, hi),
                   lower' = lo, upper' = hi + 1
            PROVE  lower' \in 0..upper' /\ upper' \in 0..nextId
        BY <3>1, <4>2
      <4>3. \/ lower' = 0 /\ upper' = 1
            \/ \E lo, hi \in Rows : FirstAndLast(lo, hi) /\ lower' = lo /\ upper' = hi + 1
        <5> HIDE DEF TypeOK, Rows
        <5> QED
          BY <2>6 DEF Begin
      <4> QED
        BY <4>1, <4>2, <4>3
    <3>3. /\ UNCHANGED <<table, nextId, newest, today, rested, gaps, imports, errors>>
          /\ pc' = "search" /\ cutoff' = today - KeepDays
      BY <2>6 DEF Begin
    <3>4. cutoff' \in Int
      BY <3>3
    <3> QED
      BY <3>2, <3>3, <3>4
  <2>7. CASE Search
    <3>1. Probe \in Nat /\ lower < Probe /\ Probe < upper
      BY <2>7, ProbeInside DEF Search
    <3>2. lower' \in 0..upper' /\ upper' \in 0..nextId
      BY <2>7, <3>1 DEF Search
    <3> QED
      BY <2>7, <3>2 DEF Search
  <2>8. CASE Delete
    BY <2>8 DEF Delete
  <2>9. CASE DBError
    BY <2>9 DEF DBError
  <2>10. CASE UNCHANGED vars
    BY <2>10 DEF vars
  <2> QED
    BY <2>1, <2>3, <2>4, <2>5, <2>6, <2>7, <2>8, <2>9, <2>10, <2>11 DEF Next
<1> QED
  BY <1>1, <1>2, PTL DEF Spec

-----------------------------------------------------------------------------
(* The rows are in the order of their dates as long as no older capture    *)
(* file is stored, and the cutoff of a search is never later than the      *)
(* cutoff of the current day.                                              *)
Ordered ==
  /\ \A i, j \in Rows : i <= j => table[i] <= table[j]
  /\ \A i \in Rows : table[i] <= newest
  /\ pc = "search" => cutoff + KeepDays <= today

RowsInOrder == imports = 0 => Ordered
DeleteInv == TypeOK /\ RowsInOrder /\ SearchSound

(* An older capture is stored once and for all.                            *)
LEMMA NeverImported ==
  ASSUME TypeOK, [Next]_vars, imports' = 0
  PROVE  imports = 0 /\ ~Import
<1>1. ASSUME Import PROVE imports' # 0
  BY <1>1 DEF Import, TypeOK
<1>2. imports' = imports
  <2>1. NewDay \/ Rest \/ Burn \/ Begin \/ Search \/ Delete \/ DBError \/ UNCHANGED vars => imports' = imports
    BY DEF NewDay, Rest, Burn, Begin, Search, Delete, DBError, vars, bounds
  <2>2. Insert => imports' = imports
    BY DEF Insert
  <2> QED
    BY <1>1, <2>1, <2>2 DEF Next
<1> QED
  BY <1>1, <1>2

LEMMA InOrderStep ==
  ASSUME TypeOK, RowsInOrder, [Next]_vars
  PROVE  RowsInOrder'
<1> SUFFICES ASSUME imports' = 0 PROVE Ordered'
  BY DEF RowsInOrder
<1>0. Ordered /\ ~Import
  BY NeverImported DEF RowsInOrder
<1> USE AutoDeleteAssumption DEF TypeOK, Ordered, Rows, Ids, bounds
<1>1. CASE NewDay \/ Rest
  BY <1>0, <1>1 DEF NewDay, Rest
<1>2. CASE Insert
  <2>1. PICK date \in newest..today : Store(date) /\ newest' = date /\ UNCHANGED imports
    BY <1>0, <1>2 DEF Insert
  <2>2. \A i \in Rows' : (i \in Rows /\ i < nextId /\ table'[i] = table[i])
                         \/ (i = nextId /\ table'[i] = date)
    BY <2>1 DEF Store
  <2>3. \A i, j \in Rows' : i <= j => table'[i] <= table'[j]
    BY <1>0, <2>1, <2>2
  <2>4. \A i \in Rows' : table'[i] <= newest'
    BY <1>0, <2>1, <2>2
  <2> QED
    BY <1>0, <2>1, <2>3, <2>4 DEF Store
<1>3. CASE Import
  BY <1>0, <1>3
<1>4. CASE Burn
  BY <1>0, <1>4 DEF Burn
<1>5. CASE Begin
  BY <1>0, <1>5 DEF Begin
<1>6. CASE Search
  BY <1>0, <1>6 DEF Search
<1>7. CASE Delete
  BY <1>0, <1>7 DEF Delete
<1>8. CASE DBError
  BY <1>0, <1>8 DEF DBError
<1>9. CASE UNCHANGED vars
  BY <1>0, <1>9 DEF vars
<1> QED
  BY <1>1, <1>2, <1>3, <1>4, <1>5, <1>6, <1>7, <1>8, <1>9 DEF Next

LEMMA SoundStep ==
  ASSUME TypeOK, RowsInOrder, SearchSound, [Next]_vars
  PROVE  SearchSound'
<1> SUFFICES ASSUME imports' = 0 PROVE SearchSound'
  BY DEF SearchSound
<1>0. Ordered /\ imports = 0
  BY NeverImported DEF RowsInOrder
<1> USE AutoDeleteAssumption DEF TypeOK, SearchSound, Rows, Ids, bounds
<1>1. CASE NewDay \/ Rest
  BY <1>0, <1>1 DEF NewDay, Rest
<1>2. CASE Insert \/ Import \/ Burn
  <2>1. pc' # "search"
    BY <1>2 DEF Insert, Import, Burn, Store
  <2> QED
    BY <2>1
<1>3. CASE Begin
  <2>1. table' = table
    BY <1>3 DEF Begin
  <2>2. \A i \in Rows : ~(i < lower')
    <3>1. CASE Rows = {}
      BY <3>1
    <3>2. ASSUME NEW lo \in Rows, NEW hi \in Rows, FirstAndLast(lo, hi), lower' = lo
          PROVE  \A i \in Rows : ~(i < lower')
      BY <3>2 DEF FirstAndLast
    <3> QED
      BY <1>3, <3>1, <3>2 DEF Begin
  <2> QED
    BY <2>1, <2>2
<1>4. CASE Search
  <2>1. Probe \in Nat /\ lower < Probe /\ Probe < upper
    BY <1>4, ProbeInside DEF Search
  <2>2. CASE Old(Probe)
    <3>1. \A i \in Rows : i < Probe + 1 => table[i] <= table[Probe]
      BY <1>0, <2>1, <2>2 DEF Old, Ordered
    <3>2. table[Probe] < cutoff /\ table[Probe] \in Int
      BY <2>2 DEF Old
    <3>3. lower' = Probe + 1 /\ cutoff' = cutoff /\ table' = table
      BY <1>4, <2>2 DEF Search
    <3> QED
      BY <1>0, <3>1, <3>2, <3>3
  <2>3. CASE ~Old(Probe)
    BY <1>0, <1>4, <2>3 DEF Search
  <2> QED
    BY <2>2, <2>3
<1>5. CASE Delete \/ DBError
  BY <1>0, <1>5 DEF Delete, DBError
<1>6. CASE UNCHANGED vars
  BY <1>0, <1>6 DEF vars
<1> QED
  BY <1>1, <1>2, <1>3, <1>4, <1>5, <1>6 DEF Next

(* DeleteInv is inductive.                                                 *)
THEOREM Invariant == Spec => []DeleteInv
<1>1. Init => DeleteInv
  BY AutoDeleteAssumption DEF Init, DeleteInv, TypeOK, RowsInOrder, Ordered, SearchSound, Rows, Ids
<1>2. DeleteInv /\ [Next]_vars /\ TypeOK' => DeleteInv'
  BY InOrderStep, SoundStep DEF DeleteInv
<1> QED
  BY <1>1, <1>2, TypeCorrect, PTL DEF Spec

(* The search never moves its lower end past a row that is young enough.   *)
(* (cw_output.cpp autodelete)                                              *)
THEOREM SearchIsSound == Spec => []SearchSound
<1>1. DeleteInv => SearchSound
  BY DEF DeleteInv
<1> QED
  BY <1>1, Invariant, PTL

(* As long as no older capture was stored, a row that is deleted is older  *)
(* than the days to keep. (cw_output.cpp autodelete)                       *)
THEOREM YoungRowsStay == Spec => OnlyOldDeleted
<1>1. ASSUME DeleteInv, [Next]_vars
      PROVE  [imports = 0 => \A i \in Rows \ DOMAIN table' : table[i] + KeepDays < today]_vars
  <2> SUFFICES ASSUME imports = 0
               PROVE  \A i \in Rows \ DOMAIN table' : table[i] + KeepDays < today
    OBVIOUS
  <2> USE AutoDeleteAssumption DEF DeleteInv, TypeOK, Rows, bounds
  <2>1. CASE Delete
    <3>1. SUFFICES ASSUME NEW i \in Rows \ DOMAIN table'
                   PROVE  table[i] + KeepDays < today
      OBVIOUS
    <3>2. i \in Nat /\ i < lower
      BY <1>1, <2>1 DEF Delete
    <3>3. table[i] \in Int /\ table[i] < cutoff /\ cutoff + KeepDays <= today
      BY <1>1, <2>1, <3>2 DEF Delete, SearchSound, RowsInOrder, Ordered
    <3> QED
      BY <1>1, <3>3
  <2>2. ASSUME DOMAIN table \subseteq DOMAIN table'
        PROVE  \A i \in Rows \ DOMAIN table' : table[i] + KeepDays < today
    BY <2>2
  <2>3. NewDay \/ Rest \/ Burn \/ Begin \/ Search \/ DBError \/ UNCHANGED vars => table' = table
    BY DEF NewDay, Rest, Burn, Begin, Search, DBError, vars
  <2>4. Insert \/ Import => DOMAIN table \subseteq DOMAIN table'
    BY DEF Insert, Import, Store
  <2> QED
    BY <1>1, <2>1, <2>2, <2>3, <2>4 DEF Next
<1> QED
  BY <1>1, Invariant, PTL DEF Spec, OnlyOldDeleted
-----------------------------------------------------------------------------
(* A table without gaps and the interval of the search in it: what is      *)
(* inside the interval exists, and the rows from its upper end on are young. *)
Bisection ==
  /\ \A i \in Rows : i..(nextId - 1) \subseteq Rows
  /\ pc = "search" =>
       /\ Rows # {} => lower..(upper - 1) \subseteq Rows
       /\ \A i \in Rows : upper <= i => table[i] >= cutoff
DenseInv == DeleteInv /\ (Dense => Bisection)

LEMMA NeverBurnt ==
  ASSUME TypeOK, [Next]_vars, Dense'
  PROVE  Dense /\ ~Import /\ ~Burn
<1>1. imports = 0 /\ ~Import
  BY NeverImported DEF Dense
<1>2. ~Burn
  BY DEF Burn, Dense, TypeOK
<1>3. gaps' = gaps
  <2>1. NewDay \/ Rest \/ Begin \/ Search \/ Delete \/ DBError \/ UNCHANGED vars => gaps' = gaps
    BY DEF NewDay, Rest, Begin, Search, Delete, DBError, vars, bounds
  <2>2. Insert => gaps' = gaps
    BY DEF Insert, Store
  <2> QED
    BY <1>1, <1>2, <2>1, <2>2 DEF Next
<1> QED
  BY <1>1, <1>2, <1>3 DEF Dense

LEMMA BisectionStep ==
  ASSUME TypeOK, RowsInOrder, Dense => Bisection, [Next]_vars, Dense'
  PROVE  Bisection'
<1>0. Dense /\ Bisection /\ Ordered /\ ~Import /\ ~Burn
  BY NeverBurnt DEF RowsInOrder, Dense
<1> USE AutoDeleteAssumption DEF TypeOK, Rows, Ids, bounds
<1>1. CASE NewDay \/ Rest
  BY <1>0, <1>1 DEF NewDay, Rest, Bisection
<1>2. CASE Insert
  <2>1. PICK date \in newest..today : Store(date)
    BY <1>2 DEF Insert
  <2>2. Rows' = Rows \cup {nextId} /\ nextId' = nextId + 1 /\ pc' # "search"
    BY <2>1 DEF Store
  <2>3. \A i \in Rows' : i..(nextId' - 1) \subseteq Rows'
    BY <1>0, <2>2 DEF Bisection
  <2> QED
    BY <2>2, <2>3 DEF Bisection
<1>3. CASE Begin
  <2>1. table' = table /\ nextId' = nextId /\ Rows' = Rows
    BY <1>3 DEF Begin
  <2>2. ASSUME NEW lo \in Rows, NEW hi \in Rows, FirstAndLast(lo, hi), lower' = lo, upper' = hi + 1
        PROVE  lower'..(upper' - 1) \subseteq Rows /\ \A i \in Rows : ~(upper' <= i)
    <3>1. \A i \in Rows : i <= hi
      BY <2>2 DEF FirstAndLast
    <3>2. lo..hi \subseteq lo..(nextId - 1)
      OBVIOUS
    <3>3. lo..(nextId - 1) \subseteq Rows
      BY <1>0 DEF Bisection
    <3> QED
      BY <2>2, <3>1, <3>2, <3>3
  <2>3. \/ Rows = {}
        \/ lower'..(upper' - 1) \subseteq Rows /\ \A i \in Rows : ~(upper' <= i)
    BY <1>3, <2>2 DEF Begin
  <2> QED
    BY <1>0, <2>1, <2>3 DEF Bisection
<1>4. CASE Search
  <2>1. Probe \in Nat /\ lower < Probe /\ Probe < upper
    BY <1>4, ProbeInside DEF Search
  <2>2. UNCHANGED <<table, nextId, pc, cutoff>> /\ pc = "search"
    BY <1>4 DEF Search
  <2>3. CASE Old(Probe)
    <3>1. lower' = Probe + 1 /\ upper' = upper
      BY <1>4, <2>3 DEF Search
    <3> QED
      BY <1>0, <2>1, <2>2, <3>1 DEF Bisection
  <2>4. CASE ~Old(Probe)
    <3>1. upper' = Probe /\ lower' = lower
      BY <1>4, <2>4 DEF Search
    <3>2. Rows # {} => Probe \in Rows /\ table[Probe] >= cutoff /\ table[Probe] \in Int
      BY <1>0, <2>1, <2>2, <2>4 DEF Bisection, Old
    <3>3. \A i \in Rows : Probe <= i => table[i] >= cutoff
      BY <1>0, <3>2, <2>1 DEF Ordered
    <3> QED
      BY <1>0, <2>1, <2>2, <3>1, <3>3 DEF Bisection
  <2> QED
    BY <2>3, <2>4
<1>5. CASE Delete
  <2>1. Rows' = {r \in Rows : r >= lower} /\ nextId' = nextId /\ pc' # "search"
    BY <1>5 DEF Delete
  <2> QED
    BY <1>0, <2>1 DEF Bisection
<1>6. CASE DBError
  BY <1>0, <1>6 DEF DBError, Bisection
<1>7. CASE UNCHANGED vars
  BY <1>0, <1>7 DEF vars, Bisection
<1> QED
  BY <1>0, <1>1, <1>2, <1>3, <1>4, <1>5, <1>6, <1>7 DEF Next

(* A deletion from a table without gaps, stored in the order of its dates, *)
(* leaves at most one of the old rows. (cw_output.cpp autodelete)          *)
THEOREM OneOldRowLeft == Spec => AtMostOneOldLeft
<1>1. Init => (Dense => Bisection)
  BY DEF Init, Bisection, Rows
<1>2. DeleteInv /\ (Dense => Bisection) /\ [Next]_vars => (Dense => Bisection)'
  BY BisectionStep DEF DeleteInv
<1>3. ASSUME DeleteInv, Dense => Bisection, [Next]_vars
      PROVE  [Dense /\ Delete => Cardinality({i \in DOMAIN table' : table[i] < cutoff}) <= 1]_vars
  <2> SUFFICES ASSUME Dense, Delete
               PROVE  Cardinality({i \in DOMAIN table' : table[i] < cutoff}) <= 1
    OBVIOUS
  <2> DEFINE left == {i \in DOMAIN table' : table[i] < cutoff}
  <2>1. left \subseteq {lower}
    <3> SUFFICES ASSUME NEW i \in left PROVE i = lower
      OBVIOUS
    <3>1. i \in Rows /\ i >= lower /\ table[i] < cutoff
      BY DEF Delete
    <3>2. table[i] \in Int /\ i \in Nat /\ cutoff \in Int /\ lower \in Nat /\ upper \in Nat
      BY <1>3, <3>1 DEF DeleteInv, TypeOK, Rows
    <3>3. ~(upper <= i)
      BY <1>3, <3>1, <3>2 DEF Bisection, Delete
    <3>4. upper <= lower + 1
      BY <3>2 DEF Delete, Narrowing
    <3> QED
      BY <3>1, <3>2, <3>3, <3>4
  <2>2. left = {} \/ left = {lower}
    BY <2>1
  <2>3. Cardinality({}) = 0 /\ Cardinality({lower}) = 1
    BY FS_EmptySet, FS_Singleton
  <2> QED
    BY <2>2, <2>3
<1> QED
  BY <1>1, <1>2, <1>3, Invariant, PTL DEF Spec, AtMostOneOldLeft

-----------------------------------------------------------------------------
(* The calendar.                                                           *)
LEMMA Quotient ==
  ASSUME NEW a \in Nat
  PROVE  /\ a \div 4 \in Nat /\ 4 * (a \div 4) <= a /\ a < 4 * (a \div 4) + 4
         /\ a \div 100 \in Nat /\ 100 * (a \div 100) <= a /\ a < 100 * (a \div 100) + 100
         /\ a \div 400 \in Nat /\ 400 * (a \div 400) <= a /\ a < 400 * (a \div 400) + 400
OBVIOUS

(* A number of years is one of centuries, of four years and of years.      *)
Parts(y, c, f, q, j) ==
  /\ f \in Nat /\ j \in 0..3 /\ q \in 0..24 /\ c = 4 * f + (c - 4 * f) /\ c - 4 * f \in 0..3
  /\ c \in Nat /\ y = 100 * c + 4 * q + j

LEMMA PartsExist ==
  ASSUME NEW y \in Nat
  PROVE  \E c, f, q, j \in Nat : Parts(y, c, f, q, j)
<1> DEFINE c == y \div 100
           f == c \div 4
           r == y - 100 * c
           q == r \div 4
           j == r - 4 * q
<1>1. c \in Nat /\ r \in 0..99
  BY Quotient
<1>2. f \in Nat /\ c - 4 * f \in 0..3
  BY <1>1, Quotient
<1>3. q \in Nat /\ j \in 0..3
  BY <1>1, Quotient
<1> HIDE DEF c, f, q
<1>4. Parts(y, c, f, q, j)
  BY <1>1, <1>2, <1>3 DEF Parts
<1>5. QED
  BY <1>1, <1>2, <1>3, <1>4

LEMMA Leap ==
  ASSUME NEW y \in Nat, NEW c, NEW f, NEW q, NEW j, Parts(y, c, f, q, j)
  PROVE  C!IsLeap(y) <=> j = 0 /\ (q # 0 \/ c = 4 * f)
<1>1. y % 4 = j
  BY DEF Parts
<1>2. (y % 100 = 0) <=> q = 0 /\ j = 0
  BY DEF Parts
<1>3. (y % 400 = 0) <=> q = 0 /\ j = 0 /\ c = 4 * f
  BY DEF Parts
<1>4. QED
  BY <1>1, <1>2, <1>3 DEF C!IsLeap, Parts

(* Days before the year that begins in March. *)
OfCentury(y, c) == ((c * 146097) \div 4) + (((y - c * 100) * 1461) \div 4)
Before(y) == OfCentury(y, y \div 100)

LEMMA BeforeParts ==
  ASSUME NEW y \in Nat, NEW c, NEW f, NEW q, NEW j, Parts(y, c, f, q, j)
  PROVE  Before(y) = 36524 * c + f + 365 * (4 * q + j) + q
<1>1. y \div 100 = c
  BY DEF Parts
<1>2. (c * 146097) \div 4 = 36524 * c + f
  BY DEF Parts
<1>3. (y - c * 100) = 4 * q + j
  BY DEF Parts
<1>4. ((4 * q + j) * 1461) \div 4 = 365 * (4 * q + j) + q
  BY DEF Parts
<1>5. Before(y) = OfCentury(y, c)
  BY <1>1 DEF Before
<1>6. Before(y) = (36524 * c + f) + (365 * (4 * q + j) + q)
  BY <1>2, <1>3, <1>4, <1>5 DEF OfCentury
<1>7. QED
  BY <1>6 DEF Parts

LEMMA NextYearBegins ==
  ASSUME NEW y \in Nat
  PROVE  Before(y + 1) = Before(y) + (IF C!IsLeap(y + 1) THEN 366 ELSE 365)
<1>1. PICK c, f, q, j \in Nat : Parts(y, c, f, q, j)
  BY PartsExist
<1>2. PICK d, g, p, k \in Nat : Parts(y + 1, d, g, p, k)
  <2>1. y + 1 \in Nat
    OBVIOUS
  <2>2. QED
    BY <2>1, PartsExist
<1>3. Before(y) = 36524 * c + f + 365 * (4 * q + j) + q
  BY <1>1, BeforeParts
<1>4. Before(y + 1) = 36524 * d + g + 365 * (4 * p + k) + p
  BY <1>2, BeforeParts
<1>5. C!IsLeap(y + 1) <=> k = 0 /\ (p # 0 \/ d = 4 * g)
  BY <1>2, Leap
<1>6. CASE j < 3
  <2>1. d = c /\ g = f /\ p = q /\ k = j + 1
    BY <1>1, <1>2, <1>6 DEF Parts
  <2>2. QED
    BY <1>3, <1>4, <1>5, <2>1
<1>7. CASE j = 3 /\ q < 24
  <2>1. d = c /\ g = f /\ p = q + 1 /\ k = 0
    BY <1>1, <1>2, <1>7 DEF Parts
  <2>2. QED
    BY <1>3, <1>4, <1>5, <1>7, <2>1
<1>8. CASE j = 3 /\ q = 24
  <2>1. d = c + 1 /\ p = 0 /\ k = 0
    BY <1>1, <1>2, <1>8 DEF Parts
  <2>2. g = IF c - 4 * f = 3 THEN f + 1 ELSE f
    BY <1>1, <1>2, <2>1 DEF Parts
  <2>3. d = 4 * g <=> c - 4 * f = 3
    BY <1>1, <1>2, <2>1, <2>2 DEF Parts
  <2>4. QED
    BY <1>1, <1>3, <1>4, <1>5, <1>8, <2>1, <2>2, <2>3 DEF Parts
<1>9. QED
  BY <1>1, <1>6, <1>7, <1>8 DEF Parts

(* The date of the clock, and the year that begins in March it lies in.    *)
March(d) == 4800 + (IF d.month < 3 THEN d.year - 1 ELSE d.year)
MonthOf(d) == IF d.month < 3 THEN d.month + 9 ELSE d.month - 3
DaysBefore(d) == ((153 * MonthOf(d) + 2) \div 5)
Date(d) ==
  /\ d \in [year : Nat \ {0}, month : 1..12, day : 1..31]
  /\ d.day <= C!MonthDays(d.year, d.month)

LEMMA NumberByParts ==
  ASSUME NEW d, Date(d)
  PROVE  C!ToJDN(d.year, d.month, d.day) = Before(March(d)) + DaysBefore(d) + d.day - 32045
<1>1. March(d) \in Nat
  BY DEF Date, March
<1>2. QED
  BY <1>1 DEF Before, OfCentury, March, DaysBefore, MonthOf, C!ToJDN, Date

(* The day after a date has the next number. *)
LEMMA FirstDate == C!ToJDN(FirstYear, 1, 1) = FirstDay
<1> DEFINE y == FirstYear - 1
<1>1. y \in Nat /\ FirstDay = 1721426 + 365 * y + y \div 4 - y \div 100 + y \div 400
  BY CalendarAssumption
<1> HIDE DEF y
<1>2. PICK c, f, q, j \in Nat : Parts(y, c, f, q, j)
  <2>1. y \in Nat
    BY <1>1
  <2>2. QED
    BY <2>1, PartsExist
<1>3. y \div 4 = 25 * c + q /\ y \div 100 = c /\ y \div 400 = f
  BY <1>1, <1>2, SMT DEF Parts
<1>4. y + 4800 \in Nat /\ Parts(y + 4800, c + 48, f + 12, q, j)
  BY <1>1, <1>2 DEF Parts
<1>5. Before(y + 4800) = 36524 * (c + 48) + (f + 12) + 365 * (4 * q + j) + q
  BY <1>4, BeforeParts
<1>6. Date([year |-> FirstYear, month |-> 1, day |-> 1])
  BY CalendarAssumption, SMT DEF Date, C!MonthDays
<1>7. C!ToJDN(FirstYear, 1, 1) = Before(y + 4800) + 306 + 1 - 32045
  <2>1. March([year |-> FirstYear, month |-> 1, day |-> 1]) = y + 4800
    BY CalendarAssumption, SMT DEF March, y
  <2>2. DaysBefore([year |-> FirstYear, month |-> 1, day |-> 1]) = 306
    BY DEF DaysBefore, MonthOf
  <2>3. QED
    BY <1>6, <2>1, <2>2, NumberByParts
<1>8. y = 100 * c + 4 * q + j
  BY <1>2 DEF Parts
<1>9. QED
  BY <1>1, <1>3, <1>5, <1>7, <1>8

LEMMA NextDate ==
  ASSUME Date(ymd), C!NumberOfDate, C!Next
  PROVE  Date(ymd') /\ C!NumberOfDate'
<1> DEFINE number(d) == Before(March(d)) + DaysBefore(d) + d.day - 32045
<1>1. C!NumberOfDate <=> day = number(ymd)
  BY NumberByParts DEF C!NumberOfDate
<1>2. Date(ymd') => (C!NumberOfDate' <=> day' = number(ymd'))
  BY NumberByParts DEF C!NumberOfDate
<1>3. March(ymd) \in Nat /\ Before(March(ymd)) \in Int
  <2>1. March(ymd) \in Nat
    BY DEF Date, March
  <2>2. PICK c, f, q, j \in Nat : Parts(March(ymd), c, f, q, j)
    BY <2>1, PartsExist
  <2>3. Before(March(ymd)) = 36524 * c + f + 365 * (4 * q + j) + q
    BY <2>1, <2>2, BeforeParts
  <2>4. QED
    BY <2>1, <2>3
<1>4. SUFFICES Date(ymd') /\ day' = day + 1 /\ number(ymd') = number(ymd) + 1
  BY <1>1, <1>2
<1>5. CASE C!NextDay
  <2>1. Date(ymd') /\ March(ymd') = March(ymd) /\ DaysBefore(ymd') = DaysBefore(ymd) /\ day' = day + 1
        /\ ymd'.day = ymd.day + 1 /\ ymd.day \in Nat /\ DaysBefore(ymd) \in Nat
    BY <1>5 DEF C!NextDay, Date, March, DaysBefore, MonthOf, C!MonthDays
  <2>2. QED
    BY <1>3, <2>1
<1>6. CASE C!NextMonth
  <2>1. /\ Date(ymd') /\ day' = day + 1 /\ ymd'.day = 1 /\ ymd.day = C!MonthDays(ymd.year, ymd.month)
        /\ ymd'.month = ymd.month + 1 /\ ymd'.year = ymd.year /\ ymd.month \in 1..11 /\ ymd.year \in Nat \ {0}
    <3>1. /\ day' = day + 1 /\ ymd' = [ymd EXCEPT !.month = @ + 1, !.day = 1]
          /\ ymd.day = C!MonthDays(ymd.year, ymd.month) /\ ymd.month < 12
      BY <1>6 DEF C!NextMonth
    <3>2. ymd = [year |-> ymd.year, month |-> ymd.month, day |-> ymd.day] /\ ymd.month \in 1..11
          /\ ymd.year \in Nat \ {0}
      BY <3>1 DEF Date
    <3>3. ymd' = [year |-> ymd.year, month |-> ymd.month + 1, day |-> 1]
      BY <3>1, <3>2, Zenon
    <3>4. 1 <= C!MonthDays(ymd.year, ymd.month + 1)
      BY <3>2 DEF C!MonthDays
    <3>5. QED
      BY <3>1, <3>2, <3>3, <3>4 DEF Date
  <2>2. CASE ymd.month # 2
    <3>1. March(ymd') = March(ymd)
      BY <2>1, <2>2 DEF March
    <3>2. DaysBefore(ymd') = DaysBefore(ymd) + ymd.day /\ DaysBefore(ymd) \in Nat /\ ymd.day \in Nat
      <4>1. ymd.month \in {1, 3, 4, 5, 6, 7, 8, 9, 10, 11}
        BY <2>1, <2>2
      <4>2. QED
        BY <2>1, <4>1 DEF DaysBefore, MonthOf, C!MonthDays
    <3>3. QED
      BY <1>3, <2>1, <3>1, <3>2
  <2>3. CASE ymd.month = 2
    <3>1. March(ymd) \in Nat /\ March(ymd') = March(ymd) + 1 /\ March(ymd) + 1 = ymd.year + 4800
      BY <2>1, <2>3 DEF March
    <3>2. DaysBefore(ymd') = 0 /\ DaysBefore(ymd) = 337
      BY <2>1, <2>3 DEF DaysBefore, MonthOf
    <3>3. C!IsLeap(March(ymd) + 1) <=> C!IsLeap(ymd.year)
      BY <2>1, <3>1 DEF C!IsLeap
    <3>4. Before(March(ymd')) = Before(March(ymd)) + (IF C!IsLeap(ymd.year) THEN 366 ELSE 365)
      BY <3>1, <3>3, NextYearBegins
    <3>5. ymd.day = IF C!IsLeap(ymd.year) THEN 29 ELSE 28
      BY <2>1, <2>3 DEF C!MonthDays
    <3>6. QED
      BY <1>3, <2>1, <3>2, <3>4, <3>5
  <2>4. QED
    BY <2>2, <2>3
<1>7. CASE C!NextYear
  <2>1. /\ Date(ymd') /\ day' = day + 1 /\ ymd'.day = 1 /\ ymd.day = 31
        /\ ymd'.month = 1 /\ ymd.month = 12 /\ ymd'.year = ymd.year + 1 /\ ymd.year \in Nat \ {0}
    BY <1>7 DEF C!NextYear, Date, C!MonthDays
  <2>2. March(ymd') = March(ymd) /\ DaysBefore(ymd') = 306 /\ DaysBefore(ymd) = 275
    BY <2>1 DEF March, DaysBefore, MonthOf
  <2>3. QED
    BY <1>3, <2>1, <2>2
<1>8. QED
  BY <1>5, <1>6, <1>7 DEF C!Next

(* ToYMD one division after another.                                       *)
OfMonth(year, e, m) ==
  [year |-> IF m < 10 THEN year ELSE year + 1,
   month |-> IF m < 10 THEN m + 3 ELSE m - 9, day |-> (e - m * 153) \div 5 + 1]
OfDay(year, e) == OfMonth(year, e, e \div 153)
OfYear(c, d, y) == OfDay((c - 48) * 100 + y, ((d - y * 1461) \div 4) * 5 + 2)
OfDays(c, d) == OfYear(c, d, d \div 1461)
OfDaysAfter(jdn, c) == OfDays(c, ((jdn * 4 - c * 146097 + 128179) \div 4) * 4 + 3)
LEMMA Stepwise == \A jdn : C!ToYMD(jdn) = OfDaysAfter(jdn, (jdn * 4 + 128179) \div 146097)
BY SMT DEF C!ToYMD, OfDaysAfter, OfDays, OfYear, OfDay, OfMonth

(* The date is found again from the number. *)
LEMMA NumberToDate ==
  ASSUME NEW d, Date(d)
  PROVE  C!ToYMD(C!ToJDN(d.year, d.month, d.day)) = d
<1> DEFINE y == March(d)
           m == MonthOf(d)
           n == DaysBefore(d) + d.day - 1
           jdn == C!ToJDN(d.year, d.month, d.day)
<1>1. /\ y \in Nat /\ m \in 0..11 /\ d.year \in Nat /\ d.month \in 1..12 /\ d.day \in 1..31
      /\ d = [year |-> d.year, month |-> d.month, day |-> d.day]
      /\ d.month = IF m < 10 THEN m + 3 ELSE m - 9
      /\ d.year = IF m < 10 THEN y - 4800 ELSE y - 4799
  BY DEF Date, March, MonthOf
<1>2. PICK c, f, q, j \in Nat : Parts(y, c, f, q, j)
  <2>1. y \in Nat
    BY <1>1
  <2> HIDE DEF y
  <2>2. QED
    BY <2>1, PartsExist
<1>3. Before(y) = 36524 * c + f + 365 * (4 * q + j) + q
  BY <1>1, <1>2, BeforeParts
<1>4. n \in 0..365 /\ (n = 365 => C!IsLeap(d.year) /\ d.month = 2) /\ d.day = n - DaysBefore(d) + 1
  <2>1. /\ (d.month = 3 => m = 0) /\ (d.month = 4 => m = 1) /\ (d.month = 5 => m = 2)
        /\ (d.month = 6 => m = 3) /\ (d.month = 7 => m = 4) /\ (d.month = 8 => m = 5)
        /\ (d.month = 9 => m = 6) /\ (d.month = 10 => m = 7) /\ (d.month = 11 => m = 8)
        /\ (d.month = 12 => m = 9) /\ (d.month = 1 => m = 10) /\ (d.month = 2 => m = 11)
    BY DEF MonthOf
  <2>2. DaysBefore(d) = (153 * m + 2) \div 5
    BY DEF DaysBefore
  <2> HIDE DEF m
  <2>3. d.day <= C!MonthDays(d.year, d.month)
    BY DEF Date
  <2>4. QED
    BY <1>1, <2>1, <2>2, <2>3 DEF C!MonthDays
<1>5. n = 365 => j = 3 /\ (q = 24 => c - 4 * f = 3)
  <2>1. SUFFICES ASSUME n = 365 PROVE j = 3 /\ (q = 24 => c - 4 * f = 3)
    OBVIOUS
  <2>2. C!IsLeap(y + 1)
    BY <1>1, <1>4, <2>1 DEF C!IsLeap
  <2>3. PICK a, g, p, k \in Nat : Parts(y + 1, a, g, p, k)
    <3>1. y + 1 \in Nat
      BY <1>1
    <3>2. QED
      BY <3>1, PartsExist
  <2>4. k = 0 /\ (p # 0 \/ a = 4 * g)
    BY <1>1, <2>2, <2>3, Leap
  <2>5. j = 3
    BY <1>2, <2>3, <2>4 DEF Parts
  <2>6. QED
    BY <1>2, <2>3, <2>4, <2>5 DEF Parts
<1>6. jdn = (36524 * c + f + 365 * (4 * q + j) + q) + n + 1 - 32045
  <2>1. jdn = Before(y) + DaysBefore(d) + d.day - 32045
    BY NumberByParts
  <2>2. DaysBefore(d) \in Int
    BY <1>1 DEF DaysBefore
  <2> HIDE DEF jdn, y
  <2>3. QED
    BY <1>1, <1>2, <1>3, <1>4, <2>1, <2>2, SMT
<1>12. (n * 5 + 2) \div 153 = m /\ (n * 5 + 2 - m * 153) \div 5 + 1 = d.day
  <2>1. DaysBefore(d) = (153 * m + 2) \div 5 /\ n = DaysBefore(d) + d.day - 1
    BY DEF DaysBefore
  <2>2. /\ d.day <= C!MonthDays(d.year, d.month)
    BY DEF Date
  <2> HIDE DEF m, n
  <2>3. m # 11 => d.day <= (IF m \in {1, 3, 6, 8} THEN 30 ELSE 31)
    BY <1>1, <2>2 DEF C!MonthDays
  <2>4. d.day <= 29 \/ m # 11
    BY <1>1, <2>2 DEF C!MonthDays
  <2>5. QED
    BY <1>1, <2>1, <2>3, <2>4
<1> HIDE DEF n, jdn, y
<1>7. /\ c \in Nat /\ f \in Nat /\ c - 4 * f \in 0..3 /\ q \in 0..24 /\ j \in 0..3
      /\ y = 100 * c + 4 * q + j
  BY <1>2 DEF Parts
<1>8. (jdn * 4 + 128179) \div 146097 = c
  BY <1>4, <1>5, <1>6, <1>7, SMT
<1>9. (jdn * 4 - c * 146097 + 128179) \div 4 = 365 * (4 * q + j) + q + n
  BY <1>4, <1>5, <1>6, <1>7, SMT
<1>10. ((365 * (4 * q + j) + q + n) * 4 + 3) \div 1461 = 4 * q + j
  BY <1>4, <1>5, <1>7
<1>11. (((365 * (4 * q + j) + q + n) * 4 + 3 - (4 * q + j) * 1461) \div 4) = n
  BY <1>4, <1>5, <1>7
<1>13. C!ToYMD(jdn) = [year |-> IF m < 10 THEN y - 4800 ELSE y - 4799,
                      month |-> IF m < 10 THEN m + 3 ELSE m - 9, day |-> d.day]
  <2> HIDE DEF m
  <2>1. (c - 48) * 100 + (4 * q + j) = y - 4800
    BY <1>7
  <2> DEFINE year == y - 4800
             e == n * 5 + 2
             z == 4 * q + j
             x == (365 * z + q + n) * 4 + 3
  <2>2. C!ToYMD(jdn) = OfDaysAfter(jdn, c)
    BY <1>8, Stepwise, SMT
  <2>3. OfDaysAfter(jdn, c) = OfDays(c, x)
    BY <1>9, SMT DEF OfDaysAfter
  <2>4. OfDays(c, x) = OfYear(c, x, z)
    BY <1>10, SMT DEF OfDays
  <2>5. OfYear(c, x, z) = OfDay(year, e)
    <3>1. ((x - z * 1461) \div 4) * 5 + 2 = e /\ (c - 48) * 100 + z = year
      BY <1>4, <1>7, <1>11, <2>1, SMT
    <3> HIDE DEF year, e, z, x
    <3>2. QED
      BY <3>1, SMT DEF OfYear
  <2>6. OfDay(year, e) = OfMonth(year, e, m)
    BY <1>12, SMT DEF OfDay
  <2>7. y \in Nat /\ year + 1 = y - 4799
    BY <1>1, SMT
  <2>8. (e - m * 153) \div 5 + 1 = d.day
    BY <1>1, <1>4, <1>12, SMT
  <2> HIDE DEF year, e, z, x
  <2>9. OfMonth(year, e, m) = [year |-> IF m < 10 THEN year ELSE year + 1,
                               month |-> IF m < 10 THEN m + 3 ELSE m - 9, day |-> d.day]
    BY <2>8, SMT DEF OfMonth
  <2>10. QED
    BY <2>2, <2>3, <2>4, <2>5, <2>6, <2>7, <2>9, SMT DEF year
<1>14. QED
  BY <1>1, <1>13, SMT DEF jdn

(* The day at hand is a date and its number is that of ToJDN.              *)
CalendarInv == Date(ymd) /\ C!NumberOfDate

(* The two conversions are exact, each the inverse of the other, on every  *)
(* day from the year 1 on. (calendar.cpp ToJDN and ToYMD)                  *)
THEOREM ConversionsExact == MCSpec => []CalendarExact
<1>1. MCInit => CalendarInv
  <2> SUFFICES ASSUME MCInit PROVE CalendarInv
    OBVIOUS
  <2>1. ymd = [year |-> FirstYear, month |-> 1, day |-> 1] /\ day = FirstDay
    BY DEF MCInit, C!Init
  <2>2. Date(ymd)
    BY <2>1, CalendarAssumption, SMT DEF Date, C!MonthDays
  <2>3. C!NumberOfDate
    BY <2>1, FirstDate, Zenon DEF C!NumberOfDate
  <2>4. QED
    BY <2>2, <2>3 DEF CalendarInv
<1>2. CalendarInv /\ [MCNext]_<<vars, part, calendar>> => CalendarInv'
  <2> SUFFICES ASSUME CalendarInv, [MCNext]_<<vars, part, calendar>> PROVE CalendarInv'
    OBVIOUS
  <2>1. CASE C!Next
    BY <2>1, NextDate DEF CalendarInv
  <2>2. CASE UNCHANGED calendar
    <3>1. ymd' = ymd /\ day' = day
      BY <2>2 DEF calendar
    <3>2. QED
      BY <3>1, Zenon DEF CalendarInv, C!NumberOfDate, Date
  <2>3. QED
    BY <2>1, <2>2, Zenon DEF MCNext
<1>3. CalendarInv => CalendarExact
  <2> SUFFICES ASSUME CalendarInv PROVE CalendarExact
    OBVIOUS
  <2>1. C!ToYMD(C!ToJDN(ymd.year, ymd.month, ymd.day)) = ymd /\ C!ToJDN(ymd.year, ymd.month, ymd.day) = day
    BY NumberToDate, Zenon DEF CalendarInv, C!NumberOfDate
  <2>2. QED
    BY <2>1, Zenon DEF CalendarExact, C!NumberOfDate, C!DateOfNumber
<1>4. QED
  BY <1>1, <1>2, <1>3, PTL DEF MCSpec
=============================================================================
