-------------------------- MODULE FDBIndex_proofs --------------------------
(***************************************************************************)
(* An FDB index is sorted and searched right, whatever its rows and        *)
(* however many.  First the sort: the quicksort of hfdb_index.c keeps      *)
(* every row and leaves them in order when no range is left.  The argument *)
(* is InOrder: rows out of order share a range that is still to come.  A   *)
(* partition moves rows within its own range only, so that its pairs with  *)
(* rows outside keep their order.                                          *)
(*                                                                         *)
(* Then the query over the file so written, for every size of the window:  *)
(* the rows before the search all lie before the query, whichever way it   *)
(* moves, and the place of the cursor parts the rows given from the rest.  *)
(***************************************************************************)
EXTENDS FDBIndexSort, FDBIndex, FiniteSetTheorems, TLAPS

Item  == [key : Keys, from : 1..N]
RangeT == [lo : 1..N, hi : 1..N]
ScanT == [on : {TRUE}, lo : 1..N, hi : 1..N, b : 1..N, e : 1..N, pivot : 1..N]

\* Rows compare like their keys: Behind is irreflexive, and what is not behind a
\* row is not behind a row that is not before it either.
LEMMA BehindOrder ==
    ASSUME NEW r \in Item, NEW s \in Item, NEW t \in Item
    PROVE  /\ ~Behind(r, r)
           /\ ~Behind(r, s) /\ ~Behind(s, t) => ~Behind(r, t)
           /\ ~Behind(r, s) /\ Behind(t, s) => ~Behind(r, t)
<1>1. r.key \in Int /\ s.key \in Int /\ t.key \in Int
  BY FDBIndexRowsAssumption DEF Item
<1> QED BY <1>1 DEF Behind, Precedes

LEMMA Lengths ==
    ASSUME SortTypeOK
    PROVE  /\ N \in Nat
           /\ data \in [1..N -> Item]
           /\ todo \in Seq(RangeT)
           /\ scan.on => scan \in ScanT
<1>1. N \in Nat
  BY DEF SortTypeOK, N
<1>2. scan.on => scan \in ScanT
  <2>1. NoScan.on = FALSE
    BY DEF NoScan
  <2>2. scan = NoScan \/ scan \in ScanT
    BY Zenon DEF SortTypeOK, ScanT
  <2> QED BY <2>1, <2>2, Zenon
<1> QED BY <1>1, <1>2 DEF SortTypeOK, Item, RangeT

\* The stack with one range more.
LEMMA PushOne ==
    ASSUME NEW R, NEW s \in Seq(R), NEW r \in R
    PROVE  /\ <<r>> \o s \in Seq(R)
           /\ DOMAIN (<<r>> \o s) = 1..Len(s) + 1
           /\ (<<r>> \o s)[1] = r
           /\ \A k \in 1..Len(s) : (<<r>> \o s)[k + 1] = s[k]
  OBVIOUS

\* The stack with its first range taken off.
LEMMA PopOne ==
    ASSUME NEW R, NEW s \in Seq(R), s # <<>>
    PROVE  /\ Head(s) = s[1] /\ Head(s) \in R
           /\ Tail(s) \in Seq(R)
           /\ DOMAIN Tail(s) = 1..Len(s) - 1
           /\ \A k \in 1..Len(s) - 1 : Tail(s)[k] = s[k + 1] /\ k + 1 \in DOMAIN s
  OBVIOUS

\* Exchanging two rows of a range moves no row outside it and none out of it.
LEMMA SwapInRange ==
    ASSUME N \in Nat, data \in [1..N -> Item],
           scan.lo \in 1..N, scan.hi \in 1..N,
           NEW i \in scan.lo..scan.hi, NEW j \in scan.lo..scan.hi,
           data' = Swapped(i, j)
    PROVE  /\ data' \in [1..N -> Item]
           /\ data'[i] = data[j] /\ data'[j] = data[i]
           /\ \A x \in 1..N \ {i, j} : data'[x] = data[x]
           /\ \A x \in 1..N \ scan.lo..scan.hi : data'[x] = data[x]
           /\ \A x \in scan.lo..scan.hi : \E y \in scan.lo..scan.hi : data'[x] = data[y]
<1>1. i \in 1..N /\ j \in 1..N
  OBVIOUS
<1>2. \A x \in 1..N :
        data'[x] = IF x = j THEN data[i] ELSE IF x = i THEN data[j] ELSE data[x]
  BY <1>1 DEF Swapped
<1>3. data' \in [1..N -> Item]
  BY <1>1 DEF Swapped
<1>4. \A x \in scan.lo..scan.hi : x \in 1..N
  OBVIOUS
<1> QED BY <1>1, <1>2, <1>3, <1>4

LEMMA SwapKeepsRows ==
    ASSUME SortTypeOK, KeepsRows, NEW i \in 1..N, NEW j \in 1..N,
           data' = Swapped(i, j), input' = input
    PROVE  KeepsRows'
<1>1. N \in Nat /\ data \in [1..N -> Item]
  BY Lengths
<1>2. \A x \in 1..N : data'[x] = IF x = j THEN data[i] ELSE IF x = i THEN data[j] ELSE data[x]
  BY <1>1 DEF Swapped
<1>3. \A x \in 1..N : \E y \in 1..N : data'[y] = data[x]
  BY <1>1, <1>2
<1>4. N' = N
  BY DEF N
<1> QED BY <1>3, <1>4 DEF KeepsRows

LEMMA Intervals ==
    ASSUME NEW n \in Nat, NEW lo \in 1..n, NEW hi \in 1..n
    PROVE  /\ lo..hi \subseteq 1..n
           /\ \A a, b \in 1..n : b < lo \/ hi < a => \A y \in lo..hi : y \notin a..b
  OBVIOUS

\* A pair of rows that are not both in the range in hand is in order, or in one
\* range to come, even after rows of the range in hand changed places.
LEMMA CrossPairs ==
    ASSUME SortTypeOK, InOrder, RangesApart, ScanInv, scan.on,
           data' \in [1..N -> Item],
           \A x \in 1..N \ scan.lo..scan.hi : data'[x] = data[x],
           \A x \in scan.lo..scan.hi : \E y \in scan.lo..scan.hi : data'[x] = data[y],
           NEW i \in 1..N, NEW j \in 1..N, i < j,
           ~(i \in scan.lo..scan.hi /\ j \in scan.lo..scan.hi)
    PROVE  \/ ~Behind(data'[i], data'[j])
           \/ \E k \in DOMAIN todo : {i, j} \subseteq todo[k].lo..todo[k].hi
<1> DEFINE S == scan.lo..scan.hi
<1>1. N \in Nat /\ data \in [1..N -> Item] /\ todo \in Seq(RangeT) /\ scan \in ScanT
  BY Lengths
<1>2. scan.lo \in 1..N /\ scan.hi \in 1..N /\ scan.lo < scan.hi
  BY <1>1 DEF ScanT, ScanInv
<1>3. \A k \in DOMAIN todo : /\ todo[k].lo \in 1..N /\ todo[k].hi \in 1..N
                             /\ todo[k].hi < scan.lo \/ scan.hi < todo[k].lo
  <2>1. \A k \in DOMAIN todo : todo[k] \in RangeT
    BY <1>1
  <2> QED BY <2>1 DEF RangesApart, Apart, RangeT
<1>4. \A x, y \in 1..N : x < y =>
        \/ ~Behind(data[x], data[y])
        \/ \E k \in DOMAIN todo : {x, y} \subseteq todo[k].lo..todo[k].hi
        \/ x \in S /\ y \in S
  <2> SUFFICES ASSUME NEW x \in 1..N, NEW y \in 1..N, x < y, Behind(data[x], data[y])
               PROVE  \/ \E k \in DOMAIN todo : {x, y} \subseteq todo[k].lo..todo[k].hi
                      \/ x \in S /\ y \in S
    OBVIOUS
  <2>1. PICK r \in Ranges : {x, y} \subseteq r.lo..r.hi
    BY DEF InOrder
  <2>2. CASE \E k \in DOMAIN todo : r = todo[k]
    BY <2>1, <2>2
  <2>3. CASE r = Part(scan.lo, scan.hi)
    BY <2>1, <2>3 DEF Part
  <2> QED BY <2>2, <2>3 DEF Ranges
<1>n. /\ S \subseteq 1..N
      /\ \A x \in 1..N : x \notin S => \A y, z \in S : (x < y <=> x < z) /\ (y < x <=> z < x)
      /\ \A k \in DOMAIN todo : \A y \in S : y \notin todo[k].lo..todo[k].hi
  <2>1. \A a, b \in 1..N : b < scan.lo \/ scan.hi < a => \A y \in S : y \notin a..b
    BY <1>1, <1>2, Intervals
  <2>2. \A k \in DOMAIN todo : \A y \in S : y \notin todo[k].lo..todo[k].hi
    BY <1>3, <2>1
  <2>3. S \subseteq 1..N
    BY <1>1, <1>2, Intervals
  <2>4. \A x \in 1..N : x \notin S => \A y, z \in S : (x < y <=> x < z) /\ (y < x <=> z < x)
    <3> SUFFICES ASSUME NEW x \in 1..N, x \notin S, NEW y \in S, NEW z \in S
                 PROVE  (x < y <=> x < z) /\ (y < x <=> z < x)
      OBVIOUS
    <3> DEFINE lo == scan.lo
               hi == scan.hi
    <3>1. N \in Nat /\ lo \in 1..N /\ hi \in 1..N /\ x \notin lo..hi /\ y \in lo..hi /\ z \in lo..hi
      BY <1>1, <1>2
    <3> HIDE DEF lo, hi, S
    <3>2. lo \in Int /\ hi \in Int /\ x \in Int /\ y \in Int /\ z \in Int
      BY <3>1
    <3>3. x < lo \/ hi < x
      BY <3>1, <3>2
    <3>4. lo <= y /\ y <= hi /\ lo <= z /\ z <= hi
      BY <3>1, <3>2
    <3> QED BY <3>2, <3>3, <3>4
  <2> QED BY <2>2, <2>3, <2>4
<1>f. /\ \A x \in 1..N \ S : data'[x] = data[x]
      /\ \A x \in S : \E y \in S : data'[x] = data[y]
      /\ ~(i \in S /\ j \in S)
  OBVIOUS
<1> HIDE DEF S
<1>5. CASE i \notin S /\ j \notin S
  BY <1>4, <1>5, <1>f
<1>6. CASE i \in S /\ j \notin S
  <2>1. PICK y \in S : data'[i] = data[y]
    BY <1>6, <1>f
  <2>2. y \in 1..N /\ y < j
    BY <1>6, <1>n
  <2>3. data'[j] = data[j]
    BY <1>6, <1>f
  <2> QED BY <1>4, <1>6, <1>n, <2>1, <2>2, <2>3
<1>7. CASE i \notin S /\ j \in S
  <2>1. PICK y \in S : data'[j] = data[y]
    BY <1>7, <1>f
  <2>2. y \in 1..N /\ i < y
    BY <1>7, <1>n
  <2>3. data'[i] = data[i]
    BY <1>7, <1>f
  <2> QED BY <1>4, <1>7, <1>n, <2>1, <2>2, <2>3
<1> QED BY <1>5, <1>6, <1>7, <1>f
-----------------------------------------------------------------------------
(* The steps.                                                              *)

LEMMA BeginStep ==
    ASSUME SortInv, Begin
    PROVE  SortInv'
<1>1. /\ N \in Nat /\ data \in [1..N -> Item] /\ todo \in Seq(RangeT) /\ todo # <<>>
      /\ ~scan.on /\ UNCHANGED <<mode, input, data>> /\ todo' = Tail(todo)
  BY Lengths DEF SortInv, Begin
<1> DEFINE r == Head(todo)
<1>2. scan' = [on |-> TRUE, lo |-> r.lo, hi |-> r.hi, b |-> r.lo, e |-> r.hi,
               pivot |-> (r.lo + r.hi) \div 2]
  BY DEF Begin
<1>3. /\ r = todo[1] /\ r \in RangeT /\ 1 \in DOMAIN todo
      /\ Tail(todo) \in Seq(RangeT)
      /\ \A k \in DOMAIN Tail(todo) : Tail(todo)[k] = todo[k + 1] /\ k + 1 \in DOMAIN todo /\ k + 1 # 1
  BY <1>1, PopOne
<1>4. r.lo \in 1..N /\ r.hi \in 1..N /\ r.lo < r.hi
  BY <1>3 DEF RangeT, SortInv, RangesApart
<1> HIDE DEF r
<1>5. (r.lo + r.hi) \div 2 \in r.lo..r.hi /\ r.lo..r.hi \subseteq 1..N
  BY <1>1, <1>4
<1>6. N' = N
  BY <1>1 DEF N
<1>7. SortTypeOK'
  <2>1. scan' \in ScanT
    BY <1>2, <1>4, <1>5 DEF ScanT
  <2> QED BY <1>1, <1>3, <1>6, <2>1 DEF SortInv, SortTypeOK, ScanT, RangeT
<1>8. KeepsRows'
  BY <1>1, <1>6 DEF SortInv, KeepsRows
<1>9. Ranges \subseteq Ranges'
  <2>1. \A k \in DOMAIN todo : todo[k] = r \/ \E l \in DOMAIN Tail(todo) : todo[k] = Tail(todo)[l]
    <3> SUFFICES ASSUME NEW k \in DOMAIN todo, k # 1
                 PROVE  k - 1 \in DOMAIN Tail(todo) /\ Tail(todo)[k - 1] = todo[k]
      BY <1>3
    <3> QED BY <1>1, PopOne
  <2>2. r = Part(scan'.lo, scan'.hi) /\ scan'.on
    BY <1>2, <1>3 DEF Part, RangeT
  <2> QED BY <1>1, <2>1, <2>2 DEF Ranges
<1>10. InOrder'
  BY <1>1, <1>6, <1>9 DEF SortInv, InOrder, Behind, Precedes
<1>11. RangesApart'
  <2>1. \A k \in DOMAIN Tail(todo) : Apart(Tail(todo)[k], r)
    BY <1>3 DEF SortInv, RangesApart
  <2>2. \A k \in DOMAIN Tail(todo) : Apart(Tail(todo)[k], scan')
    BY <1>2, <2>1 DEF Apart
  <2>3. \A k, l \in DOMAIN Tail(todo) : k # l => k + 1 # l + 1
    BY <1>1
  <2> QED BY <1>1, <1>3, <2>2, <2>3 DEF SortInv, RangesApart
<1>12. ScanInv'
  BY <1>1, <1>2, <1>4, <1>5 DEF ScanInv
<1> QED BY <1>7, <1>8, <1>10, <1>11, <1>12 DEF SortInv
\* A step inside the range in hand leaves the ranges alone.
LEMMA SameRanges ==
    ASSUME SortInv, scan.on, UNCHANGED <<mode, input, todo>>,
           scan' \in ScanT, scan'.lo = scan.lo, scan'.hi = scan.hi
    PROVE  N' = N /\ scan'.on /\ Ranges' = Ranges /\ RangesApart'
<1>1. N' = N
  BY DEF N
<1>2. scan'.on
  BY DEF ScanT
<1>3. Ranges' = Ranges
  BY <1>2 DEF Ranges
<1>4. RangesApart'
  BY <1>2 DEF SortInv, RangesApart, Apart
<1> QED BY <1>1, <1>2, <1>3, <1>4

\* What ScanInv says of the range in hand.
LEMMA InHand ==
    ASSUME SortInv, scan.on
    PROVE  /\ N \in Nat /\ data \in [1..N -> Item] /\ todo \in Seq(RangeT) /\ scan \in ScanT
           /\ scan.lo \in 1..N /\ scan.hi \in 1..N /\ scan.b \in 1..N /\ scan.e \in 1..N
           /\ scan.pivot \in 1..N
           /\ scan.lo < scan.hi
           /\ scan.lo <= scan.b /\ scan.b <= scan.e /\ scan.e <= scan.hi
           /\ scan.pivot \in scan.lo..scan.e
           /\ \A i \in scan.lo..scan.b - 1 : ~BehindPivot(i)
           /\ \A i \in scan.e + 1..scan.hi : BehindPivot(i)
           /\ ~BehindPivot(scan.pivot)
<1>1. /\ N \in Nat /\ data \in [1..N -> Item] /\ todo \in Seq(RangeT) /\ scan \in ScanT
  BY Lengths DEF SortInv
<1>2. /\ scan.lo \in 1..N /\ scan.hi \in 1..N /\ scan.b \in 1..N /\ scan.e \in 1..N
      /\ scan.pivot \in 1..N
  BY <1>1 DEF ScanT
<1>3. ~BehindPivot(scan.pivot)
  BY <1>1, <1>2, BehindOrder DEF BehindPivot
<1> QED BY <1>1, <1>2, <1>3 DEF SortInv, ScanInv

LEMMA KeepStep ==
    ASSUME SortInv, Keep
    PROVE  SortInv'
<1>1. /\ scan.on /\ scan.b < scan.e /\ ~BehindPivot(scan.b)
      /\ UNCHANGED <<mode, input, data, todo>>
  BY DEF Keep
<1>2. scan' = [on |-> TRUE, lo |-> scan.lo, hi |-> scan.hi, b |-> scan.b + 1, e |-> scan.e,
               pivot |-> scan.pivot]
  BY <1>1, InHand DEF Keep, ScanT
<1>3. scan' \in ScanT /\ scan'.lo = scan.lo /\ scan'.hi = scan.hi
  BY <1>1, <1>2, InHand DEF ScanT
<1>4. N' = N /\ Ranges' = Ranges /\ RangesApart'
  BY <1>1, <1>3, SameRanges
<1>5. SortTypeOK'
  BY <1>1, <1>3, <1>4 DEF SortInv, SortTypeOK, ScanT
<1>6. KeepsRows' /\ InOrder'
  BY <1>1, <1>4 DEF SortInv, KeepsRows, InOrder, Behind, Precedes
<1>7. ScanInv'
  <2>1. \A i \in scan.lo..scan.b : ~BehindPivot(i)
    BY <1>1, InHand
  <2>2. \A i \in Int : BehindPivot(i)' = BehindPivot(i)
    BY <1>1, <1>2 DEF BehindPivot, Behind, Precedes
  <2> QED BY <1>1, <1>2, <2>1, <2>2, InHand DEF ScanInv
<1> QED BY <1>4, <1>5, <1>6, <1>7 DEF SortInv

LEMMA ExhaustStep ==
    ASSUME SortInv, Exhaust
    PROVE  SortInv'
<1>1. /\ scan.on /\ scan.b < scan.e /\ \A i \in scan.b..scan.e : BehindPivot(i)
      /\ UNCHANGED <<mode, input, data, todo>>
  BY DEF Exhaust
<1>2. scan' = [on |-> TRUE, lo |-> scan.lo, hi |-> scan.hi, b |-> scan.b, e |-> scan.b,
               pivot |-> scan.pivot]
  BY <1>1, InHand DEF Exhaust, ScanT
<1>3. scan' \in ScanT /\ scan'.lo = scan.lo /\ scan'.hi = scan.hi
  BY <1>1, <1>2, InHand DEF ScanT
<1>4. N' = N /\ Ranges' = Ranges /\ RangesApart'
  BY <1>1, <1>3, SameRanges
<1>5. SortTypeOK'
  BY <1>1, <1>3, <1>4 DEF SortInv, SortTypeOK, ScanT
<1>6. KeepsRows' /\ InOrder'
  BY <1>1, <1>4 DEF SortInv, KeepsRows, InOrder, Behind, Precedes
<1>7. ScanInv'
  <2>1. \A i \in scan.b..scan.hi : BehindPivot(i)
    BY <1>1, InHand
  <2>2. scan.pivot \in scan.lo..scan.b
    BY <2>1, InHand, <1>1
  <2>3. \A i \in Int : BehindPivot(i)' = BehindPivot(i)
    BY <1>1, <1>2 DEF BehindPivot, Behind, Precedes
  <2> QED BY <1>1, <1>2, <2>1, <2>2, <2>3, InHand DEF ScanInv
<1> QED BY <1>4, <1>5, <1>6, <1>7 DEF SortInv

\* Rows of the range in hand changed places and the range is still in hand.
LEMMA InOrderInHand ==
    ASSUME SortInv, scan.on, UNCHANGED <<mode, input, todo>>,
           data' \in [1..N -> Item],
           \A x \in 1..N \ scan.lo..scan.hi : data'[x] = data[x],
           \A x \in scan.lo..scan.hi : \E y \in scan.lo..scan.hi : data'[x] = data[y],
           scan' \in ScanT, scan'.lo = scan.lo, scan'.hi = scan.hi
    PROVE  InOrder'
<1>1. N' = N /\ Ranges' = Ranges
  BY SameRanges
<1>2. SUFFICES ASSUME NEW i \in 1..N, NEW j \in 1..N, i < j
               PROVE  \/ ~Behind(data'[i], data'[j])
                      \/ \E r \in Ranges : {i, j} \subseteq r.lo..r.hi
  BY <1>1 DEF InOrder, Behind, Precedes
<1>3. CASE i \in scan.lo..scan.hi /\ j \in scan.lo..scan.hi
  <2>1. Part(scan.lo, scan.hi) \in Ranges
    BY DEF Ranges
  <2>2. /\ Part(scan.lo, scan.hi).lo = scan.lo /\ Part(scan.lo, scan.hi).hi = scan.hi
    BY DEF Part
  <2> QED BY <1>3, <2>1, <2>2
<1>4. CASE ~(i \in scan.lo..scan.hi /\ j \in scan.lo..scan.hi)
  <2>1. SortTypeOK /\ InOrder /\ RangesApart /\ ScanInv
    BY DEF SortInv
  <2>2. \/ ~Behind(data'[i], data'[j])
        \/ \E k \in DOMAIN todo : {i, j} \subseteq todo[k].lo..todo[k].hi
    BY <1>2, <1>4, <2>1, CrossPairs
  <2> QED BY <2>2 DEF Ranges
<1> QED BY <1>3, <1>4

LEMMA ExchangeStep ==
    ASSUME SortInv, Exchange
    PROVE  SortInv'
<1>1. /\ scan.on /\ scan.b < scan.e /\ BehindPivot(scan.b)
      /\ UNCHANGED <<mode, input, todo>>
  BY DEF Exchange
<1>2. PICK j \in scan.b + 1..scan.e :
        /\ ~BehindPivot(j)
        /\ \A i \in j + 1..scan.e : BehindPivot(i)
        /\ data' = Swapped(scan.b, j)
        /\ scan' = [scan EXCEPT !.e = j - 1, !.pivot = IF @ = j THEN scan.b ELSE @]
  BY DEF Exchange
<1>3. scan' = [on |-> TRUE, lo |-> scan.lo, hi |-> scan.hi, b |-> scan.b, e |-> j - 1,
               pivot |-> IF scan.pivot = j THEN scan.b ELSE scan.pivot]
  BY <1>1, <1>2, InHand DEF ScanT
<1>4. /\ j \in 1..N /\ scan.b \in scan.lo..scan.hi /\ j \in scan.lo..scan.hi /\ j - 1 \in 1..N
      /\ j - 1 \in scan.b..scan.e
  BY <1>1, InHand, SMTT(20)
<1>5. scan' \in ScanT /\ scan'.lo = scan.lo /\ scan'.hi = scan.hi
  BY <1>1, <1>3, <1>4, InHand DEF ScanT
<1>6. N' = N /\ Ranges' = Ranges /\ RangesApart'
  BY <1>1, <1>5, SameRanges
<1>7. /\ data' \in [1..N -> Item]
      /\ data'[scan.b] = data[j] /\ data'[j] = data[scan.b]
      /\ \A x \in 1..N \ {scan.b, j} : data'[x] = data[x]
      /\ \A x \in 1..N \ scan.lo..scan.hi : data'[x] = data[x]
      /\ \A x \in scan.lo..scan.hi : \E y \in scan.lo..scan.hi : data'[x] = data[y]
  <2>1. N \in Nat /\ data \in [1..N -> Item] /\ scan.lo \in 1..N /\ scan.hi \in 1..N
    BY <1>1, InHand
  <2> QED BY <1>2, <1>4, <2>1, SwapInRange
<1>8. SortTypeOK'
  BY <1>1, <1>5, <1>6, <1>7 DEF SortInv, SortTypeOK, ScanT, Item
<1>9. KeepsRows'
  BY <1>1, <1>2, <1>4, InHand, SwapKeepsRows DEF SortInv
<1>10. InOrder'
  BY <1>1, <1>5, <1>7, InOrderInHand
<1>11. ScanInv'
  <2> DEFINE lo == scan.lo
             hi == scan.hi
             b == scan.b
             e == scan.e
             p == scan.pivot
             q == scan'.pivot
  <2>1. /\ lo \in Int /\ hi \in Int /\ b \in Int /\ e \in Int /\ p \in Int /\ j \in Int
        /\ lo < hi /\ lo <= b /\ b < j /\ j <= e /\ e <= hi /\ lo <= p /\ p <= e
        /\ lo \in 1..N /\ hi \in 1..N
    BY <1>1, <1>4, InHand
  <2>2. q = IF p = j THEN b ELSE p
    BY <1>3
  <2>3. p # b /\ (p = j \/ p < j)
    <3>1. ~BehindPivot(p)
      BY <1>1, InHand
    <3>2. p # b /\ p \notin j + 1..e
      BY <1>1, <1>2, <3>1
    <3> QED BY <2>1, <3>2
  <2>4. data'[q] = data[p]
    BY <1>4, <1>7, <2>2, <2>3, <1>1, InHand
  <2>5. \A x \in Int : BehindPivot(x)' <=> Behind(data'[x], data[p])
    BY <1>1, <2>4 DEF BehindPivot, Behind, Precedes
  <2>6. \A x \in lo..b - 1 : ~BehindPivot(x)'
    <3> SUFFICES ASSUME NEW x \in lo..b - 1
                 PROVE  ~Behind(data'[x], data[p])
      BY <2>5
    <3>1. ~BehindPivot(x)
      BY <1>1, InHand
    <3>2. x \in 1..N \ {b, j}
      BY <2>1, <1>1, InHand
    <3> QED BY <1>7, <3>1, <3>2 DEF BehindPivot
  <2>7. \A x \in (j - 1) + 1..hi : BehindPivot(x)'
    <3> SUFFICES ASSUME NEW x \in j..hi
                 PROVE  Behind(data'[x], data[p])
      BY <2>1, <2>5
    <3>1. CASE x = j
      BY <1>1, <1>7, <3>1 DEF BehindPivot
    <3>2. CASE x # j
      <4>1. BehindPivot(x)
        <5>1. x \in j + 1..e \/ x \in e + 1..hi
          BY <2>1, <3>2
        <5> QED BY <5>1, <1>1, <1>2, InHand
      <4>2. x \in 1..N \ {b, j}
        BY <2>1, <3>2, <1>1, InHand
      <4> QED BY <1>7, <4>1, <4>2 DEF BehindPivot
    <3> QED BY <3>1, <3>2
  <2>8. q \in lo..j - 1
    BY <2>1, <2>2, <2>3
  <2>9. scan'.b = b /\ scan'.e = j - 1 /\ scan'.lo = lo /\ scan'.hi = hi /\ scan'.on
    BY <1>3
  <2>10. lo < hi /\ lo <= b /\ b <= j - 1 /\ j - 1 <= hi
    BY <2>1
  <2> HIDE DEF lo, hi, b, e, p
  <2> QED BY <2>6, <2>7, <2>8, <2>9, <2>10 DEF ScanInv
<1> QED BY <1>6, <1>8, <1>9, <1>10, <1>11 DEF SortInv

\* A stack of ranges of more than one row each, with no row in common.
Stack(s) ==
    /\ s \in Seq(RangeT)
    /\ \A k \in DOMAIN s : s[k].lo < s[k].hi
    /\ \A k, l \in DOMAIN s : k # l => Apart(s[k], s[l])

Members(s) == {s[k] : k \in DOMAIN s}

LEMMA PushedStack ==
    ASSUME NEW s, Stack(s), NEW r,
           r.lo < r.hi => r \in RangeT /\ \A m \in Members(s) : Apart(m, r)
    PROVE  /\ Stack(Pushed(r, s))
           /\ Members(s) \subseteq Members(Pushed(r, s))
           /\ r.lo < r.hi => r \in Members(Pushed(r, s))
           /\ \A m \in Members(Pushed(r, s)) : m \in Members(s) \/ m = r
<1>1. CASE ~(r.lo < r.hi)
  BY <1>1 DEF Pushed
<1>2. CASE r.lo < r.hi
  <2> DEFINE t == <<r>> \o s
  <2>1. Pushed(r, s) = t
    BY <1>2 DEF Pushed
  <2>2. s \in Seq(RangeT) /\ r \in RangeT /\ \A m \in Members(s) : Apart(m, r)
    BY <1>2 DEF Stack
  <2>3. /\ t \in Seq(RangeT) /\ DOMAIN t = 1..Len(s) + 1 /\ DOMAIN s = 1..Len(s) /\ Len(s) \in Nat
        /\ t[1] = r /\ \A k \in 1..Len(s) : t[k + 1] = s[k]
    BY <2>2, PushOne
  <2> HIDE DEF t
  <2>4. \A k \in DOMAIN t : \/ k = 1 /\ t[k] = r
                            \/ k - 1 \in DOMAIN s /\ k = (k - 1) + 1 /\ t[k] = s[k - 1]
    BY <2>3
  <2>5. \A k \in DOMAIN t : t[k].lo < t[k].hi
    BY <1>2, <2>4 DEF Stack
  <2>6. \A k, l \in DOMAIN t : k # l => Apart(t[k], t[l])
    <3> SUFFICES ASSUME NEW k \in DOMAIN t, NEW l \in DOMAIN t, k # l
                 PROVE  Apart(t[k], t[l])
      OBVIOUS
    <3>1. \A m \in DOMAIN s : Apart(s[m], r) /\ Apart(r, s[m])
      BY <2>2 DEF Members, Apart
    <3>2. \A m, n \in DOMAIN s : m # n => Apart(s[m], s[n])
      BY DEF Stack
    <3>3. CASE k = 1
      <4>1. l - 1 \in DOMAIN s /\ t[l] = s[l - 1] /\ t[k] = r
        BY <2>3, <2>4, <3>3
      <4> QED BY <3>1, <4>1
    <3>4. CASE l = 1
      <4>1. k - 1 \in DOMAIN s /\ t[k] = s[k - 1] /\ t[l] = r
        BY <2>3, <2>4, <3>4
      <4> QED BY <3>1, <4>1
    <3>5. CASE k # 1 /\ l # 1
      <4>1. k - 1 \in DOMAIN s /\ l - 1 \in DOMAIN s /\ t[k] = s[k - 1] /\ t[l] = s[l - 1]
        BY <2>4, <3>5
      <4>2. k - 1 # l - 1
        BY <2>3
      <4> QED BY <3>2, <4>1, <4>2
    <3> QED BY <3>3, <3>4, <3>5
  <2>7. Stack(t)
    BY <2>3, <2>5, <2>6 DEF Stack
  <2>8. /\ Members(s) \subseteq Members(t) /\ r \in Members(t)
        /\ \A m \in Members(t) : m \in Members(s) \/ m = r
    <3>1. r \in Members(t)
      BY <2>3 DEF Members
    <3>2. \A k \in DOMAIN s : k + 1 \in DOMAIN t /\ t[k + 1] = s[k]
      BY <2>3
    <3>3. Members(s) \subseteq Members(t)
      BY <3>2 DEF Members
    <3>4. \A m \in Members(t) : m \in Members(s) \/ m = r
      BY <2>4 DEF Members
    <3> QED BY <3>1, <3>3, <3>4
  <2> QED BY <2>1, <2>7, <2>8
<1> QED BY <1>1, <1>2

\* The ranges to come, and those a part of the range in hand is apart from.
LEMMA HandApart ==
    ASSUME SortInv, scan.on
    PROVE  /\ Stack(todo)
           /\ \A m \in Members(todo) : m \in RangeT /\ Apart(m, scan)
<1>1. todo \in Seq(RangeT)
  BY Lengths DEF SortInv
<1> QED BY <1>1 DEF SortInv, RangesApart, Stack, Members

\* Once the range in hand is given up for parts of it, the pairs of rows in it
\* are what InOrder depends on.
LEMMA HandOver ==
    ASSUME SortInv, scan.on, UNCHANGED <<mode, input>>, scan' = NoScan,
           data' \in [1..N -> Item],
           \A x \in 1..N \ scan.lo..scan.hi : data'[x] = data[x],
           \A x \in scan.lo..scan.hi : \E y \in scan.lo..scan.hi : data'[x] = data[y],
           Stack(todo'), Members(todo) \subseteq Members(todo'), KeepsRows',
           \A i, j \in scan.lo..scan.hi :
               i < j => \/ ~Behind(data'[i], data'[j])
                        \/ \E r \in Members(todo') : {i, j} \subseteq r.lo..r.hi
    PROVE  SortInv'
<1>1. N' = N /\ ~scan'.on
  BY DEF N, NoScan
<1>2. SortTypeOK'
  BY <1>1 DEF SortInv, SortTypeOK, Stack, RangeT, Item, NoScan
<1>3. InOrder'
  <2>1. Ranges' = Members(todo')
    BY <1>1 DEF Ranges, Members
  <2> SUFFICES ASSUME NEW i \in 1..N, NEW j \in 1..N, i < j
               PROVE  \/ ~Behind(data'[i], data'[j])
                      \/ \E r \in Members(todo') : {i, j} \subseteq r.lo..r.hi
    BY <1>1, <2>1 DEF InOrder, Behind, Precedes
  <2>2. CASE i \in scan.lo..scan.hi /\ j \in scan.lo..scan.hi
    BY <2>2
  <2>3. CASE ~(i \in scan.lo..scan.hi /\ j \in scan.lo..scan.hi)
    <3>1. SortTypeOK /\ InOrder /\ RangesApart /\ ScanInv
      BY DEF SortInv
    <3>2. \/ ~Behind(data'[i], data'[j])
          \/ \E k \in DOMAIN todo : {i, j} \subseteq todo[k].lo..todo[k].hi
      BY <2>3, <3>1, CrossPairs
    <3> QED BY <3>2 DEF Members
  <2> QED BY <2>2, <2>3
<1>4. RangesApart'
  BY <1>1 DEF RangesApart, Stack
<1>5. ScanInv'
  BY <1>1 DEF ScanInv
<1> QED BY <1>2, <1>3, <1>4, <1>5 DEF SortInv

LEMMA SplitLastStep ==
    ASSUME SortInv, SplitLast
    PROVE  SortInv'
<1>1. /\ scan.on /\ Stop(scan.hi) /\ UNCHANGED <<mode, input>> /\ scan' = NoScan
      /\ data' = IF BehindPivot(scan.hi) THEN data ELSE Swapped(scan.hi, scan.pivot)
      /\ todo' = Pushed(Part(scan.lo, scan.hi - 1), todo)
  BY DEF SplitLast
<1> DEFINE lo == scan.lo
           hi == scan.hi
           p == scan.pivot
<1>2. /\ N \in Nat /\ data \in [1..N -> Item]
      /\ lo \in 1..N /\ hi \in 1..N /\ p \in 1..N /\ p \in lo..hi /\ hi \in lo..hi
      /\ lo < hi /\ \A i \in lo..hi - 1 : i \in 1..N
      /\ ~BehindPivot(p)
  BY <1>1, InHand
<1>3. \A i \in lo..hi - 1 : ~BehindPivot(i)
  <2> SUFFICES ASSUME NEW i \in lo..hi - 1
               PROVE  ~BehindPivot(i)
    OBVIOUS
  <2>1. i \in lo..scan.b - 1 \/ i \in scan.b..hi - 1
    BY <1>1, InHand
  <2> QED BY <1>1, <2>1, InHand DEF Stop
<1>4. /\ data' \in [1..N -> Item]
      /\ \A x \in 1..N \ lo..hi : data'[x] = data[x]
      /\ \A x \in lo..hi : \E y \in lo..hi : data'[x] = data[y]
      /\ \A i \in lo..hi - 1 : ~Behind(data'[i], data'[hi])
      /\ KeepsRows'
  <2>1. CASE BehindPivot(hi)
    <3>1. data' = data
      BY <1>1, <2>1
    <3>2. \A i \in lo..hi - 1 : ~Behind(data[i], data[hi])
      BY <1>2, <1>3, <2>1, BehindOrder DEF BehindPivot
    <3>3. KeepsRows'
      BY <1>1, <3>1 DEF SortInv, KeepsRows, N
    <3> QED BY <1>2, <3>1, <3>2, <3>3
  <2>2. CASE ~BehindPivot(hi)
    <3>1. data' = Swapped(hi, p)
      BY <1>1, <2>2
    <3>2. /\ data' \in [1..N -> Item]
          /\ data'[hi] = data[p] /\ data'[p] = data[hi]
          /\ \A x \in 1..N \ {hi, p} : data'[x] = data[x]
          /\ \A x \in 1..N \ lo..hi : data'[x] = data[x]
          /\ \A x \in lo..hi : \E y \in lo..hi : data'[x] = data[y]
      BY <1>2, <3>1, SwapInRange
    <3>3. ASSUME NEW i \in lo..hi - 1
          PROVE  ~Behind(data'[i], data'[hi])
      <4>1. i # hi /\ i \in 1..N
        BY <1>2
      <4>2. CASE i = p
        BY <2>2, <3>2, <4>2 DEF BehindPivot
      <4>3. CASE i # p
        BY <1>3, <3>2, <4>1, <4>3 DEF BehindPivot
      <4> QED BY <4>2, <4>3
    <3>4. KeepsRows'
      BY <1>1, <1>2, <3>1, SwapKeepsRows DEF SortInv
    <3> QED BY <3>2, <3>3, <3>4
  <2> QED BY <2>1, <2>2
<1> DEFINE r == Part(lo, hi - 1)
<1>5. r.lo = lo /\ r.hi = hi - 1
  BY DEF Part
<1>6. /\ Stack(todo')
      /\ Members(todo) \subseteq Members(todo')
      /\ r.lo < r.hi => r \in Members(todo')
  <2>1. Stack(todo) /\ \A m \in Members(todo) : m \in RangeT /\ Apart(m, scan)
    BY <1>1, HandApart
  <2>2. ASSUME r.lo < r.hi
        PROVE  r \in RangeT /\ \A m \in Members(todo) : Apart(m, r)
    <3>1. r \in RangeT
      BY <1>2, <1>5, <2>2 DEF RangeT, Part
    <3>2. ASSUME NEW m \in Members(todo)
          PROVE  Apart(m, r)
      <4>1. m.lo \in Int /\ m.hi \in Int /\ (m.hi < lo \/ hi < m.lo)
        BY <2>1 DEF RangeT, Apart
      <4> QED BY <1>2, <1>5, <4>1 DEF Apart
    <3> QED BY <3>1, <3>2
  <2>3. /\ Stack(Pushed(r, todo))
        /\ Members(todo) \subseteq Members(Pushed(r, todo))
        /\ r.lo < r.hi => r \in Members(Pushed(r, todo))
    BY <2>1, <2>2, PushedStack
  <2> QED BY <1>1, <2>3
<1>7. ASSUME NEW i \in lo..hi, NEW j \in lo..hi, i < j
      PROVE  \/ ~Behind(data'[i], data'[j])
             \/ \E m \in Members(todo') : {i, j} \subseteq m.lo..m.hi
  <2>1. CASE j = hi
    BY <1>2, <1>4, <1>7, <2>1
  <2>2. CASE j # hi
    <3>1. lo < hi - 1 /\ {i, j} \subseteq lo..hi - 1
      BY <1>2, <1>7, <2>2
    <3> QED BY <1>5, <1>6, <3>1
  <2> QED BY <2>1, <2>2
<1> HIDE DEF r
<1> QED BY <1>1, <1>4, <1>6, <1>7, HandOver

\* A part of the range in hand is apart from the ranges to come.
LEMMA PartApart ==
    ASSUME SortInv, scan.on, NEW r,
           r.lo \in Int, r.hi \in Int, scan.lo <= r.lo, r.hi <= scan.hi
    PROVE  \A m \in Members(todo) : Apart(m, r)
<1> SUFFICES ASSUME NEW m \in Members(todo)
             PROVE  Apart(m, r)
  OBVIOUS
<1>1. scan.lo \in Int /\ scan.hi \in Int
  BY InHand
<1>2. m.lo \in Int /\ m.hi \in Int /\ (m.hi < scan.lo \/ scan.hi < m.lo)
  BY HandApart DEF RangeT, Apart
<1> QED BY <1>1, <1>2 DEF Apart

LEMMA SplitStep ==
    ASSUME SortInv, Split
    PROVE  SortInv'
<1>1. scan.on /\ scan.b >= scan.e /\ UNCHANGED <<mode, input, data>> /\ scan' = NoScan
  BY DEF Split
<1>2. PICK b \in scan.b..scan.hi - 1 :
        /\ Stop(b)
        /\ todo' = Pushed(Part(scan.lo, b - 1),
                          IF scan.lo # b THEN <<Part(b, scan.hi)>> \o todo ELSE todo)
  BY DEF Split
<1> DEFINE lo == scan.lo
           hi == scan.hi
           p == scan.pivot
           right == Part(b, hi)
           left == Part(lo, b - 1)
<1>3. /\ N \in Nat /\ data \in [1..N -> Item]
      /\ lo \in 1..N /\ hi \in 1..N /\ p \in 1..N /\ b \in 1..N
      /\ lo <= b /\ b < hi /\ scan.b = scan.e
      /\ \A i \in lo..hi : i \in 1..N
  BY <1>1, InHand
<1>4. \A i \in lo..b - 1 : ~BehindPivot(i)
  <2> SUFFICES ASSUME NEW i \in lo..b - 1
               PROVE  ~BehindPivot(i)
    OBVIOUS
  <2>1. i \in lo..scan.b - 1 \/ i \in scan.b..b - 1
    BY <1>1, <1>3, InHand
  <2> QED BY <1>1, <1>2, <2>1, InHand DEF Stop
<1>5. \A i \in b..hi : BehindPivot(i)
  <2> SUFFICES ASSUME NEW i \in b..hi
               PROVE  BehindPivot(i)
    OBVIOUS
  <2>1. i = b \/ i \in scan.e + 1..hi
    BY <1>1, <1>3, InHand
  <2>2. BehindPivot(b)
    BY <1>2, <1>3 DEF Stop
  <2> QED BY <1>1, <2>1, <2>2, InHand
<1>6. lo # b
  <2> SUFFICES ASSUME lo = b
               PROVE  FALSE
    OBVIOUS
  <2>1. scan.b = lo /\ p = lo
    BY <1>1, <1>3, InHand
  <2> QED BY <1>1, <1>3, <1>5, <2>1, InHand
<1>7. /\ left.lo = lo /\ left.hi = b - 1
      /\ right.lo = b /\ right.hi = hi
      /\ right \in RangeT
      /\ left.lo < left.hi => left \in RangeT
  BY <1>3 DEF Part, RangeT
<1>8. todo' = Pushed(left, Pushed(right, todo))
  <2>1. Pushed(right, todo) = <<right>> \o todo
    BY <1>3, <1>7 DEF Pushed
  <2> QED BY <1>2, <1>6, <2>1
<1>9. \A m \in Members(todo) : Apart(m, left) /\ Apart(m, right)
  <2>1. \A m \in Members(todo) : Apart(m, left)
    BY <1>1, <1>3, <1>7, PartApart
  <2>2. \A m \in Members(todo) : Apart(m, right)
    BY <1>1, <1>3, <1>7, PartApart
  <2> QED BY <2>1, <2>2
<1> HIDE DEF left, right
<1>10. /\ Stack(Pushed(right, todo))
       /\ Members(todo) \subseteq Members(Pushed(right, todo))
       /\ right \in Members(Pushed(right, todo))
       /\ \A m \in Members(Pushed(right, todo)) : m \in Members(todo) \/ m = right
  <2>1. Stack(todo)
    BY <1>1, HandApart
  <2>2. right.lo < right.hi
    BY <1>3, <1>7
  <2> QED BY <1>7, <1>9, <2>1, <2>2, PushedStack
<1>11. /\ Stack(todo')
       /\ Members(Pushed(right, todo)) \subseteq Members(todo')
       /\ left.lo < left.hi => left \in Members(todo')
  <2>1. Apart(right, left)
    BY <1>3, <1>7 DEF Apart
  <2>2. \A m \in Members(Pushed(right, todo)) : Apart(m, left)
    BY <1>9, <1>10, <2>1
  <2>3. /\ Stack(Pushed(left, Pushed(right, todo)))
        /\ Members(Pushed(right, todo)) \subseteq Members(Pushed(left, Pushed(right, todo)))
        /\ left.lo < left.hi => left \in Members(Pushed(left, Pushed(right, todo)))
    BY <1>7, <1>10, <2>2, PushedStack
  <2> QED BY <1>8, <2>3
<1>12. ASSUME NEW i \in lo..hi, NEW j \in lo..hi, i < j
       PROVE  \/ ~Behind(data'[i], data'[j])
              \/ \E m \in Members(todo') : {i, j} \subseteq m.lo..m.hi
  <2>1. CASE j < b
    <3>1. lo < b - 1 /\ {i, j} \subseteq lo..b - 1
      BY <1>3, <1>12, <2>1
    <3> QED BY <1>7, <1>11, <3>1
  <2>2. CASE b <= i
    <3>1. {i, j} \subseteq b..hi
      BY <1>3, <1>12, <2>2
    <3> QED BY <1>7, <1>10, <1>11, <3>1
  <2>3. CASE i < b /\ b <= j
    <3>1. i \in lo..b - 1 /\ j \in b..hi
      BY <1>3, <2>3
    <3>2. ~BehindPivot(i) /\ BehindPivot(j)
      BY <1>4, <1>5, <3>1
    <3>3. data[i] \in Item /\ data[j] \in Item /\ data[p] \in Item
      BY <1>3
    <3> QED BY <1>1, <3>2, <3>3, BehindOrder DEF BehindPivot
  <2> QED BY <1>3, <1>12, <2>1, <2>2, <2>3
<1>13. KeepsRows'
  BY <1>1 DEF SortInv, KeepsRows, N
<1>14. \A x \in lo..hi : \E y \in lo..hi : data'[x] = data[y]
  BY <1>1
<1>15. Members(todo) \subseteq Members(todo')
  BY <1>10, <1>11
<1> QED BY <1>1, <1>3, <1>11, <1>12, <1>13, <1>14, <1>15, HandOver

LEMMA SortStutterStep ==
    ASSUME SortInv, UNCHANGED sortVars
    PROVE  SortInv'
<1>1. UNCHANGED <<mode, input, data, todo, scan>>
  BY DEF sortVars
<1>2. N' = N /\ Ranges' = Ranges
  BY <1>1 DEF N, Ranges
<1>3. SortTypeOK'
  BY <1>1, <1>2 DEF SortInv, SortTypeOK
<1>4. KeepsRows' /\ InOrder'
  BY <1>1, <1>2 DEF SortInv, KeepsRows, InOrder, Behind, Precedes
<1>5. RangesApart'
  BY <1>1 DEF SortInv, RangesApart, Apart
<1>6. ScanInv'
  BY <1>1 DEF SortInv, ScanInv, BehindPivot, Behind, Precedes
<1> QED BY <1>3, <1>4, <1>5, <1>6 DEF SortInv

LEMMA SortInitStep ==
    ASSUME SortInit
    PROVE  SortInv
<1>1. PICK n \in 0..MaxLen : input \in Rows(n)
  BY DEF SortInit
<1>2. PICK k \in [1..n -> Keys] : input = [i \in 1..n |-> [key |-> k[i], from |-> i]]
  BY <1>1 DEF Rows
<1>3. n \in Nat
  BY <1>1, FDBIndexRowsAssumption
<1>4. input \in Seq([key : Keys, from : Nat])
  BY <1>2, <1>3
<1>5. N = n
  BY <1>2, <1>3 DEF N
<1>6. input \in [1..N -> Item]
  BY <1>2, <1>5 DEF Item
<1>7. /\ mode \in Modes /\ data = input /\ scan = NoScan /\ ~scan.on
      /\ todo = IF N > 1 THEN <<Part(1, N)>> ELSE <<>>
  BY DEF SortInit, NoScan
<1>8. Stack(todo)
  <2>1. CASE N > 1
    <3>1. Part(1, N) \in RangeT /\ Part(1, N).lo < Part(1, N).hi
      BY <1>3, <1>5, <2>1 DEF Part, RangeT
    <3> QED BY <1>7, <2>1, <3>1 DEF Stack
  <2>2. CASE ~(N > 1)
    BY <1>7, <2>2 DEF Stack
  <2> QED BY <2>1, <2>2
<1>9. SortTypeOK
  BY <1>1, <1>4, <1>5, <1>6, <1>7, <1>8, FDBIndexRowsAssumption DEF SortTypeOK, Item, RangeT, Stack
<1>10. KeepsRows
  BY <1>7 DEF KeepsRows
<1>11. InOrder
  <2> SUFFICES ASSUME NEW i \in 1..N, NEW j \in 1..N, i < j
               PROVE  \E r \in Ranges : {i, j} \subseteq r.lo..r.hi
    BY DEF InOrder
  <2>1. N > 1
    BY <1>3, <1>5
  <2>2. Part(1, N) \in Ranges
    BY <1>7, <2>1 DEF Ranges
  <2>3. Part(1, N).lo = 1 /\ Part(1, N).hi = N
    BY DEF Part
  <2> QED BY <2>2, <2>3
<1>12. RangesApart /\ ScanInv
  BY <1>7, <1>8 DEF RangesApart, ScanInv, Stack
<1> QED BY <1>9, <1>10, <1>11, <1>12 DEF SortInv

-----------------------------------------------------------------------------
(* What the sort keeps to.                                                 *)

\* The strengthened invariant holds at every step of the sort.
THEOREM SortInvariance == SortSpec => []SortInv
<1>1. SortInv /\ [SortNext]_sortVars => SortInv'
  BY BeginStep, KeepStep, ExchangeStep, ExhaustStep, SplitLastStep, SplitStep, SortStutterStep
     DEF SortNext
<1> QED BY <1>1, SortInitStep, PTL DEF SortSpec

\* Ranges, bounds and rows keep their types.
THEOREM SortTypeCorrect == SortSpec => []SortTypeOK
<1>1. SortInv => SortTypeOK
  BY DEF SortInv
<1> QED BY <1>1, SortInvariance, PTL

\* The bounds of FDBIndexSortScan meet and never cross: `assert(b == e)` holds.
THEOREM BoundsMeetAlways == SortSpec => []BoundsMeet
<1>1. SortInv => BoundsMeet
  BY DEF SortInv, ScanInv, BoundsMeet
<1> QED BY <1>1, SortInvariance, PTL

\* The exchanges of FDBIndexSort lose no row and double none.
THEOREM KeepsRowsAlways == SortSpec => []KeepsRows
<1>1. SortInv => KeepsRows
  BY DEF SortInv
<1> QED BY <1>1, SortInvariance, PTL

\* Rows out of order share a range that FDBIndexSort has still to come to.
THEOREM InOrderAlways == SortSpec => []InOrder
<1>1. SortInv => InOrder
  BY DEF SortInv
<1> QED BY <1>1, SortInvariance, PTL

\* With no range left the rows are an index as FDBIndexCursorToBegin needs it.
THEOREM SortDelivers == SortSpec => []DeliversIndex
<1>1. SortInv => DeliversIndex
  <2> SUFFICES ASSUME SortInv, Done
               PROVE  IndexFile([i \in 1..N |-> data[i].key])
    BY DEF DeliversIndex
  <2> DEFINE s == [i \in 1..N |-> data[i].key]
  <2>1. N \in 0..MaxLen /\ data \in [1..N -> Item]
    <3>1. N \in Nat /\ data \in [1..N -> Item] /\ N <= MaxLen
      BY Lengths DEF SortInv, SortTypeOK
    <3> QED BY <3>1, FDBIndexRowsAssumption
  <2>2. s \in [1..N -> Keys]
    BY <2>1 DEF Item
  <2>3. \A i, j \in 1..N : i < j => ~Behind(data[i], data[j])
    BY DEF SortInv, InOrder, Done, Ranges
  <2>4. Sorted(s)
    BY <2>2, <2>3 DEF Sorted, Behind
  <2> QED BY <2>1, <2>2, <2>4 DEF IndexFile
<1> QED BY <1>1, SortInvariance, PTL

-----------------------------------------------------------------------------
(* The query.  How its rows lie.                                           *)

CursorT == [location : Nat, index : Nat, length : 0..Window]
SearchT == [pc : {"new", "window", "bisect", "idle"}, b : Nat, e : Int]
OutT(n) == {Miss, NoRow, Failed} \cup {Row(p) : p \in 0..(n - 1)}

\* A query for a negative 32-bit key: its bits are read without the sign.
Blind == query.is = "Int32" /\ query.lo < 0

LEMMA QueryFacts ==
    ASSUME TypeOK
    PROVE  /\ query = AllRows \/ (query.lo \in Keys /\ query.hi \in {query.lo, query.lo + 1})
           /\ query.lo \in Int /\ query.hi \in Int /\ query.lo <= query.hi
           /\ Low \in Int /\ High \in Int /\ Low <= High
           /\ ~Blind => Low = query.lo /\ High = query.hi
           /\ Blind => \A k \in Keys : k < Low
<1>1. query \in Queries
  BY DEF TypeOK
<1>2. query = AllRows \/ (query.lo \in Keys /\ query.hi \in {query.lo, query.lo + 1})
  <2>1. CASE \E t \in {"Int32", "Int64", "String"}, k \in Keys : query = [is |-> t, lo |-> k, hi |-> k]
    BY <2>1
  <2>2. CASE \E k \in Keys : query = [is |-> "String", lo |-> k, hi |-> k + 1]
    BY <2>2
  <2> QED BY <1>1, <2>1, <2>2 DEF Queries
<1>3. query.lo \in Int /\ query.hi \in Int /\ query.lo <= query.hi
  <2>1. CASE query = AllRows
    BY <2>1 DEF AllRows
  <2>2. CASE query.lo \in Keys /\ query.hi \in {query.lo, query.lo + 1}
    <3>1. query.lo \in Int
      BY <2>2, FDBIndexRowsAssumption
    <3> QED BY <2>2, <3>1
  <2> QED BY <1>2, <2>1, <2>2
<1>4. Wide \in Nat
  BY FDBIndexAssumption
<1>5. Low \in Int /\ High \in Int /\ Low <= High
  BY <1>3, <1>4 DEF Low, High
<1>6. ~Blind => Low = query.lo /\ High = query.hi
  BY <1>3 DEF Low, High, Blind
<1>7. ASSUME Blind, NEW k \in Keys
      PROVE  k < Low
  <2>1. query.lo \in Keys
    BY <1>2, <1>7 DEF Blind, AllRows
  <2>2. Low = query.lo + Wide
    BY <1>7 DEF Low, Blind
  <2>3. -Wide <= 2 * query.lo /\ 2 * k < Wide /\ k \in Int
    BY <2>1, FDBIndexAssumption, FDBIndexRowsAssumption
  <2> QED BY <1>3, <1>4, <2>2, <2>3
<1> QED BY <1>2, <1>3, <1>5, <1>6, <1>7

LEMMA KeyFacts ==
    ASSUME TypeOK
    PROVE  /\ RowCount \in Nat
           /\ DOMAIN index = 1..RowCount
           /\ mode \in Modes
           /\ \A p \in Places : Key(p) \in Keys /\ Key(p) \in Int /\ p + 1 \in DOMAIN index
<1>1. index \in Seq(Keys) /\ mode \in Modes
  BY DEF TypeOK
<1>2. RowCount \in Nat /\ DOMAIN index = 1..RowCount /\ \A i \in 1..RowCount : index[i] \in Keys
  BY <1>1 DEF RowCount
<1>3. ASSUME NEW p \in Places
      PROVE  Key(p) \in Keys /\ Key(p) \in Int /\ p + 1 \in DOMAIN index
  <2>1. p + 1 \in 1..RowCount
    BY <1>2 DEF Places
  <2> QED BY <1>2, <2>1, FDBIndexRowsAssumption DEF Key
<1> QED BY <1>1, <1>2, <1>3

\* A row lies before the query, in it or past it; rows before one that lies before
\* it do so too, as do rows behind one past it.
LEMMA RowOrder ==
    ASSUME TypeOK, Sorted(index), NEW p \in Places
    PROVE  /\ Asc(p) \/ Same(p) \/ Desc(p)
           /\ ~(Asc(p) /\ Same(p)) /\ ~(Desc(p) /\ Same(p)) /\ ~(Asc(p) /\ Desc(p))
           /\ \A q \in Places : q <= p /\ Asc(p) => Asc(q)
           /\ \A q \in Places : q <= p /\ Desc(q) => Desc(p)
<1>1. /\ Low \in Int /\ High \in Int /\ Low <= High
      /\ mode \in Modes /\ Key(p) \in Int
  BY QueryFacts, KeyFacts
<1>2. ASSUME NEW q \in Places, q < p
      PROVE  /\ Key(q) \in Int
             /\ ~Precedes(Key(p), Key(q))
  <2>1. /\ RowCount \in Nat /\ q + 1 \in DOMAIN index /\ p + 1 \in DOMAIN index /\ q + 1 < p + 1
        /\ Key(q) \in Int
    BY <1>2, KeyFacts DEF Places
  <2> QED BY <2>1 DEF Sorted, Key
<1>3. ASSUME NEW q \in Places, q < p
      PROVE  /\ Asc(p) => Asc(q)
             /\ Desc(q) => Desc(p)
  BY <1>1, <1>2, <1>3 DEF Asc, Desc, Same, Matches, Precedes, Modes
<1>4. \A q \in Places : q <= p => q < p \/ q = p
  BY KeyFacts DEF Places
<1> QED BY <1>3, <1>4 DEF Asc, Desc

\* What the cursor looks for is what is wanted, but for a negative 32-bit key, which
\* no row has when it is read as the code reads it.
LEMMA SoughtIsWanted ==
    ASSUME TypeOK, NEW p \in Places
    PROVE  /\ Sought(p) => p \in Wanted
           /\ p \in Wanted /\ ~Blind => Sought(p)
           /\ Blind => ~Sought(p)
<1>1. /\ Low \in Int /\ High \in Int
      /\ query.lo \in Int /\ query.hi \in Int
      /\ ~Blind => Low = query.lo /\ High = query.hi
      /\ Blind => \A k \in Keys : k < Low
      /\ Key(p) \in Keys /\ Key(p) \in Int
  BY QueryFacts, KeyFacts
<1>2. CASE Blind
  <2>1. ~Same(p)
    BY <1>1, <1>2 DEF Same, Matches
  <2>2. query # AllRows
    BY <1>2 DEF Blind, AllRows
  <2> QED BY <1>2, <2>1, <2>2 DEF Sought
<1>3. CASE ~Blind
  BY <1>1, <1>3 DEF Sought, Wanted, Same, Matches, Places
<1> QED BY <1>2, <1>3

\* The file and the query stay; so does the place of every row.
LEMMA Fixed ==
    ASSUME UNCHANGED <<index, mode, query>>
    PROVE  /\ RowCount' = RowCount /\ Places' = Places /\ Wanted' = Wanted
           /\ Sorted(index)' = Sorted(index)
           /\ \A p : Asc(p)' = Asc(p) /\ Desc(p)' = Desc(p) /\ Same(p)' = Same(p)
           /\ \A p : Sought(p)' = Sought(p)
<1>1. RowCount' = RowCount
  BY DEF RowCount
<1>2. \A p : Key(p)' = Key(p)
  BY DEF Key
<1>3. Low' = Low /\ High' = High
  BY DEF Low, High
<1>4. \A p : Same(p)' = Same(p)
  BY <1>2, <1>3 DEF Same, Matches
<1>5. \A p : Asc(p)' = Asc(p) /\ Desc(p)' = Desc(p)
  BY <1>2, <1>3, <1>4 DEF Asc, Desc, Precedes
<1>6. \A p : Sought(p)' = Sought(p)
  BY <1>4 DEF Sought
<1>7. Wanted' = Wanted
  BY <1>1, <1>2 DEF Wanted
<1>8. Sorted(index)' = Sorted(index)
  BY DEF Sorted, Precedes
<1> QED BY <1>1, <1>4, <1>5, <1>6, <1>7, <1>8 DEF Places

-----------------------------------------------------------------------------
(* Steps of one shape.                                                     *)

LEMMA Types ==
    ASSUME TypeOK
    PROVE  /\ cur \in CursorT /\ search \in SearchT /\ out \in OutT(RowCount)
           /\ given \in Seq(Places) /\ query \in Queries /\ index \in Seq(Keys)
           /\ cur.location \in Nat /\ cur.index \in Nat /\ cur.length \in 0..Window
           /\ search.b \in Nat /\ search.e \in Int
           /\ Window \in Nat /\ Window > 0
  BY FDBIndexAssumption DEF TypeOK, CursorT, SearchT, OutT, Places

LEMMA TypeKept ==
    ASSUME TypeOK, UNCHANGED <<index, mode, query>>,
           cur' \in CursorT, search' \in SearchT, out' \in OutT(RowCount),
           given' \in Seq(Places)
    PROVE  TypeOK'
<1>1. RowCount' = RowCount /\ Places' = Places
  BY Fixed
<1> QED BY <1>1 DEF TypeOK, CursorT, SearchT, OutT, Places

\* A step of the search that finds and misses nothing yet.
LEMMA Searches ==
    ASSUME QueryInv, search.pc # "idle", query # AllRows,
           UNCHANGED <<index, mode, query, out, given>>,
           cur' \in CursorT, search' \in SearchT, search'.pc \in {"window", "bisect"},
           WindowInv', BisectInv'
    PROVE  QueryInv'
<1>1. TypeOK /\ Sorted(index) /\ given = <<>> /\ out = NoRow
  BY DEF QueryInv, SearchInv
<1>2. TypeOK'
  BY <1>1, Types, TypeKept
<1>3. Sorted(index)'
  BY <1>1, Fixed
<1>4. SearchInv' /\ GivenInv' /\ EndInv'
  BY <1>1 DEF SearchInv, GivenInv, EndInv
<1>5. MissIsAbsent'
  BY <1>1 DEF MissIsAbsent, NoRow, Miss
<1> QED BY <1>2, <1>3, <1>4, <1>5 DEF QueryInv

\* The search comes to rest without a row.
LEMMA Gives0 ==
    ASSUME QueryInv, search.pc # "idle", NEW o \in {Miss, Failed}, Rest(o),
           cur' \in CursorT, cur'.location + cur'.index + cur'.length <= RowCount,
           \A p \in Places : p < cur'.location + cur'.index => ~Sought(p),
           MissIsAbsent'
    PROVE  QueryInv'
<1>1. TypeOK /\ Sorted(index) /\ given = <<>> /\ out = NoRow
  BY DEF QueryInv, SearchInv
<1>2. /\ UNCHANGED <<index, mode, query>> /\ search' = Resting /\ out' = o /\ given' = <<>>
      /\ o # NoRow
  BY <1>1 DEF Rest, Miss, Failed, NoRow
<1>3. /\ RowCount \in Nat /\ RowCount' = RowCount /\ Places' = Places
      /\ \A p : Sought(p)' = Sought(p)
  BY <1>1, <1>2, Fixed, KeyFacts
<1>4. search'.pc = "idle" /\ search' \in SearchT
  BY <1>2 DEF Resting, SearchT
<1>5. TypeOK'
  BY <1>1, <1>2, <1>4, TypeKept DEF OutT
<1>6. Sorted(index)'
  BY <1>1, <1>2, Fixed
<1>7. SearchInv' /\ WindowInv' /\ BisectInv' /\ EndInv'
  BY <1>2, <1>4 DEF SearchInv, WindowInv, BisectInv, EndInv
<1>8. GivenInv'
  <2>1. cur'.location \in Nat /\ cur'.index \in Nat /\ cur'.length \in Nat
    BY FDBIndexAssumption DEF CursorT
  <2>2. \A p \in 0..(cur'.location + cur'.index - 1) : p \in Places /\ p < cur'.location + cur'.index
    BY <1>3, <2>1 DEF Places
  <2> QED BY <1>2, <1>3, <2>1, <2>2 DEF GivenInv
<1> QED BY <1>5, <1>6, <1>7, <1>8 DEF QueryInv

\* The search comes to rest at its first row.
LEMMA Gives1 ==
    ASSUME QueryInv, search.pc # "idle", NEW q \in Places, Rest(Row(q)), Sought(q),
           cur' \in CursorT, cur'.location + cur'.index = q + 1,
           q + 1 + cur'.length <= RowCount,
           \A p \in Places : p < q => ~Sought(p)
    PROVE  QueryInv'
<1>1. TypeOK /\ Sorted(index) /\ given = <<>> /\ out = NoRow
  BY DEF QueryInv, SearchInv
<1>2. /\ UNCHANGED <<index, mode, query>> /\ search' = Resting /\ out' = Row(q) /\ given' = <<q>>
      /\ out' # NoRow /\ out' # Miss
  BY <1>1 DEF Rest, Row, NoRow, Miss
<1>3. /\ RowCount \in Nat /\ RowCount' = RowCount /\ Places' = Places
      /\ \A p : Sought(p)' = Sought(p)
  BY <1>1, <1>2, Fixed, KeyFacts
<1>4. search'.pc = "idle" /\ search' \in SearchT
  BY <1>2 DEF Resting, SearchT
<1>5. TypeOK'
  BY <1>1, <1>2, <1>4, TypeKept DEF OutT, Places
<1>6. Sorted(index)'
  BY <1>1, <1>2, Fixed
<1>7. SearchInv' /\ WindowInv' /\ BisectInv' /\ EndInv' /\ MissIsAbsent'
  BY <1>2, <1>4 DEF SearchInv, WindowInv, BisectInv, EndInv, MissIsAbsent
<1>8. GivenInv'
  <2>1. cur'.location \in Nat /\ cur'.index \in Nat /\ cur'.length \in Nat
    BY FDBIndexAssumption DEF CursorT
  <2>2. \A p \in 0..q : p \in Places /\ (p < q \/ p = q)
    BY <1>3 DEF Places
  <2>3. DOMAIN given' = {1} /\ given'[1] = q
    BY <1>2
  <2>4. \A p \in 0..q : Sought(p) => Got(p)'
    BY <2>2, <2>3 DEF Got
  <2>5. q + 1 - 1 = q /\ q < q + 1
    BY <1>3 DEF Places
  <2>6. q \in Nat /\ 0..(cur'.location + cur'.index - 1) = 0..q
    <3>1. q \in Nat /\ cur'.location + cur'.index = q + 1
      BY <1>3 DEF Places
    <3>2. cur'.location + cur'.index - 1 = q
      BY <2>1, <3>1
    <3> QED BY <3>1, <3>2
  <2>7. cur'.location + cur'.index + cur'.length <= RowCount
    BY <1>3, <2>1, <2>6
  <2>8. /\ \A j \in DOMAIN given' : given'[j] < cur'.location + cur'.index /\ Sought(given'[j])
        /\ \A i, j \in DOMAIN given' : i < j => given'[i] < given'[j]
    BY <2>3, <2>5
  <2> QED BY <1>3, <2>4, <2>6, <2>7, <2>8 DEF GivenInv
<1> QED BY <1>5, <1>6, <1>7, <1>8 DEF QueryInv

LEMMA QueryInitStep ==
    ASSUME Init
    PROVE  QueryInv
<1>1. PICK n \in 0..MaxLen : index \in [1..n -> Keys]
  BY DEF Init, IndexFile
<1>2. n \in Nat /\ index \in Seq(Keys)
  BY <1>1, FDBIndexRowsAssumption
<1>3. /\ mode \in Modes /\ Sorted(index) /\ query \in Queries
      /\ cur = Fresh /\ search = New /\ out = NoRow /\ given = <<>>
  BY DEF Init, IndexFile
<1>4. cur \in CursorT /\ search \in SearchT /\ search.pc = "new"
  BY <1>3, FDBIndexAssumption DEF Fresh, New, CursorT, SearchT
<1>5. TypeOK
  BY <1>2, <1>3, <1>4 DEF TypeOK, CursorT, SearchT
<1>6. SearchInv /\ WindowInv /\ BisectInv /\ GivenInv /\ EndInv
  BY <1>3, <1>4 DEF SearchInv, WindowInv, BisectInv, GivenInv, EndInv
<1>7. MissIsAbsent
  BY <1>3 DEF MissIsAbsent, NoRow, Miss
<1> QED BY <1>3, <1>5, <1>6, <1>7 DEF QueryInv

-----------------------------------------------------------------------------
(* The search, step by step.                                               *)

LEMMA ReadableFacts ==
    ASSUME TypeOK, NEW loc \in 0..RowCount
    PROVE  /\ Readable(loc) \in 0..Window
           /\ loc + Readable(loc) <= RowCount
           /\ Readable(loc) = 0 <=> loc = RowCount
<1>1. RowCount \in Nat /\ Window \in Nat /\ Window > 0
  BY KeyFacts, Types
<1> QED BY <1>1 DEF Readable

LEMMA BeginAllStep ==
    ASSUME QueryInv, BeginAll
    PROVE  QueryInv'
<1>1. /\ TypeOK /\ search.pc = "new" /\ query = AllRows /\ RowCount > 0
      /\ cur' = [location |-> 0, index |-> 1, length |-> Readable(0) - 1]
      /\ Rest(Row(0))
  BY DEF QueryInv, BeginAll
<1>2. RowCount \in Nat /\ 0 \in Places /\ 0 \in 0..RowCount
  BY <1>1, KeyFacts DEF Places
<1>3. Readable(0) \in 1..Window /\ 0 + Readable(0) <= RowCount /\ Window \in Nat
  BY <1>1, <1>2, ReadableFacts, Types
<1> HIDE DEF Readable
<1>4. cur' \in CursorT /\ cur'.location + cur'.index = 0 + 1 /\ 0 + 1 + cur'.length <= RowCount
  BY <1>1, <1>2, <1>3 DEF CursorT
<1>5. \A p \in Places : ~(p < 0)
  BY DEF Places
<1> QED BY <1>1, <1>2, <1>4, <1>5, Gives1 DEF Sought

LEMMA BeginEmptyStep ==
    ASSUME QueryInv, BeginEmpty
    PROVE  QueryInv'
<1>1. /\ TypeOK /\ search.pc = "new" /\ RowCount = 0 /\ Rest(Miss) /\ cur' = Fresh
  BY DEF QueryInv, BeginEmpty, SearchInv
<1>2. Places = {}
  BY <1>1 DEF Places
<1>3. cur' \in CursorT /\ cur'.location + cur'.index + cur'.length <= RowCount
  BY <1>1, FDBIndexAssumption DEF Fresh, CursorT
<1>4. MissIsAbsent'
  <2>1. Wanted = {} /\ Wanted' = Wanted
    BY <1>1, <1>2, Fixed DEF Wanted, Rest, Places
  <2> QED BY <2>1 DEF MissIsAbsent
<1> QED BY <1>1, <1>2, <1>3, <1>4, Gives0

LEMMA BeginSearchStep ==
    ASSUME QueryInv, BeginSearch
    PROVE  QueryInv'
<1>1. /\ TypeOK /\ search.pc = "new" /\ RowCount > 0 /\ query # AllRows /\ cur' = Fresh
      /\ search' = [pc |-> "window", b |-> 0, e |-> RowCount - 1]
      /\ UNCHANGED <<index, mode, query, out, given>>
  BY DEF QueryInv, BeginSearch
<1>2. RowCount \in Nat /\ Window \in Nat \ {0} /\ RowCount' = RowCount
  BY <1>1, KeyFacts, FDBIndexAssumption, Fixed
<1>3. cur' \in CursorT /\ search' \in SearchT
  BY <1>1, <1>2 DEF Fresh, CursorT, SearchT
<1>4. cur'.location = 0 /\ cur'.index = 0 /\ cur'.length = 0 /\ 0 % Window = 0
  BY <1>1, <1>2 DEF Fresh
<1>5. WindowInv'
  BY <1>1, <1>2, <1>4 DEF WindowInv
<1>6. BisectInv'
  BY <1>1 DEF BisectInv
<1> QED BY <1>1, <1>3, <1>5, <1>6, Searches

\* What the search in its windows knows.
LEMMA AtTheWindow ==
    ASSUME QueryInv, search.pc = "window"
    PROVE  /\ TypeOK /\ Sorted(index) /\ query # AllRows /\ given = <<>>
           /\ RowCount \in Nat /\ Window \in Nat \ {0}
           /\ cur.location \in Nat /\ cur.location < RowCount
           /\ cur = Reading(cur.location)
           /\ cur.location \in Places
           /\ \A p \in Places : p < cur.location => Asc(p)
           /\ cur.location % Window = 0 \/ \A p \in Places : Asc(p)
<1>1. TypeOK /\ Sorted(index) /\ query # AllRows /\ given = <<>>
  BY DEF QueryInv, SearchInv
<1>2. RowCount \in Nat /\ Window \in Nat \ {0} /\ cur \in CursorT /\ cur.location \in Nat
  BY <1>1, KeyFacts, Types, FDBIndexAssumption
<1>3. /\ cur.index = 0 /\ cur.length = 0 /\ cur.location < RowCount
      /\ \A p \in 0..cur.location - 1 : Asc(p)
      /\ cur.location % Window = 0 \/ \A p \in Places : Asc(p)
  BY DEF QueryInv, WindowInv
<1>4. cur = Reading(cur.location)
  BY <1>2, <1>3 DEF CursorT, Reading
<1>5. cur.location \in Places /\ \A p \in Places : p < cur.location => p \in 0..cur.location - 1
  BY <1>2, <1>3 DEF Places
<1> QED BY <1>1, <1>2, <1>3, <1>4, <1>5

\* The search moves to another window, with all rows before it before the query.
LEMMA Moves ==
    ASSUME QueryInv, search.pc = "window", UNCHANGED <<index, mode, query, out, given>>,
           NEW loc \in Places, cur' = Reading(loc),
           search' \in SearchT, search'.pc = "window",
           \A p \in Places : p < loc => Asc(p),
           loc % Window = 0 \/ \A p \in Places : Asc(p)
    PROVE  QueryInv'
<1>1. RowCount \in Nat /\ Window \in Nat \ {0} /\ query # AllRows
  BY AtTheWindow
<1>2. /\ RowCount' = RowCount /\ Places' = Places
      /\ \A p : Asc(p)' = Asc(p)
  BY Fixed
<1>3. cur' \in CursorT /\ cur'.location = loc /\ cur'.index = 0 /\ cur'.length = 0
  BY <1>1 DEF Reading, CursorT, Places
<1>4. \A p \in 0..loc - 1 : p \in Places /\ p < loc
  BY <1>1 DEF Places
<1>5. WindowInv'
  BY <1>1, <1>2, <1>3, <1>4 DEF WindowInv, Places
<1>6. BisectInv'
  BY DEF BisectInv
<1> QED BY <1>1, <1>3, <1>5, <1>6, Searches

\* Division by the size of a window.
LEMMA Divided ==
    ASSUME NEW w \in Nat \ {0}, NEW n \in Int
    PROVE  /\ n \div w \in Int /\ n % w \in 0..w - 1
           /\ n = w * (n \div w) + (n % w)
  BY Z3

LEMMA Grows ==
    ASSUME NEW w \in Nat \ {0}, NEW x \in Int, NEW y \in Int, x + 1 <= y
    PROVE  w * x + w <= w * y
<1>1. y - x - 1 >= 0
  OBVIOUS
<1>2. w * (y - x - 1) >= 0
  BY <1>1, Z3
<1>3. w * (y - x - 1) = w * y - w * x - w
  BY Z3
<1> QED BY <1>2, <1>3

LEMMA Multiple ==
    ASSUME NEW w \in Nat \ {0}, NEW x \in Int
    PROVE  (w * x) % w = 0
<1> DEFINE n == w * x
           y == n \div w
           r == n % w
<1>1. n \in Int /\ y \in Int /\ r \in 0..w - 1 /\ n = w * y + r
  <2>1. n \in Int
    OBVIOUS
  <2> HIDE DEF n
  <2> QED BY <2>1, Divided
<1>2. w * y \in Int
  BY <1>1
<1>3. ~(x + 1 <= y)
  <2>1. SUFFICES ASSUME x + 1 <= y PROVE FALSE
    OBVIOUS
  <2>2. w * x + w <= w * y
    BY <1>1, <2>1, Grows
  <2> QED BY <1>1, <1>2, <2>2
<1>4. ~(y + 1 <= x)
  <2>1. SUFFICES ASSUME y + 1 <= x PROVE FALSE
    OBVIOUS
  <2>2. w * y + w <= w * x
    BY <1>1, <2>1, Grows
  <2> QED BY <1>1, <1>2, <2>2
<1>5. x = y
  BY <1>1, <1>3, <1>4
<1> QED BY <1>1, <1>2, <1>5

LEMMA DivSteps ==
    ASSUME NEW w \in Nat \ {0}, NEW n \in Nat, n % w = 0
    PROVE  /\ (n + w) % w = 0
           /\ n # 0 => n >= w /\ (n - w) % w = 0
<1> DEFINE x == n \div w
<1>1. x \in Int /\ n = w * x
  BY Divided
<1> HIDE DEF x
<1>2. w * (x + 1) = n + w /\ w * (x - 1) = n - w
  BY <1>1, Z3
<1>3. (w * (x + 1)) % w = 0 /\ (w * (x - 1)) % w = 0
  BY <1>1, Multiple
<1>4. n # 0 => n >= w
  <2>1. SUFFICES ASSUME n # 0 PROVE x >= 1
    <3>1. x >= 1 => w * 0 + w <= w * x
      BY <1>1, Grows
    <3> QED BY <1>1, <3>1
  <2>2. x < 1 => w * x <= 0
    BY <1>1, Z3
  <2> QED BY <1>1, <2>1, <2>2
<1> QED BY <1>2, <1>3, <1>4

\* Behind the last whole window at a multiple of its size there is no further one.
LEMMA ShortRest ==
    ASSUME NEW w \in Nat \ {0}, NEW n \in Nat, NEW l \in Nat, l % w = 0, n < l + w
    PROVE  n - (n % w) <= l
<1> DEFINE x == n \div w
           y == l \div w
           r == n % w
<1>1. x \in Int /\ y \in Int /\ r \in 0..w - 1 /\ n = w * x + r /\ l = w * y
  <2>1. l = w * y + (l % w) /\ w * y \in Int
    BY Divided
  <2> QED BY Divided, <2>1
<1> HIDE DEF x, y, r
<1>2. w * x \in Int /\ w * y \in Int
  BY <1>1
<1>3. ~(y + 1 <= x)
  <2>1. SUFFICES ASSUME y + 1 <= x PROVE FALSE
    OBVIOUS
  <2>2. w * y + w <= w * x
    BY <1>1, <2>1, Grows
  <2> QED BY <1>1, <1>2, <2>2
<1>4. x = y \/ x + 1 <= y
  BY <1>1, <1>3
<1>5. x + 1 <= y => w * x + w <= w * y
  BY <1>1, Grows
<1>6. w * x <= w * y
  BY <1>2, <1>4, <1>5
<1>7. n - r = w * x
  BY <1>1, <1>2
<1> QED BY <1>1, <1>6, <1>7 DEF r

LEMMA StepBackStep ==
    ASSUME QueryInv, StepBack
    PROVE  QueryInv'
<1> DEFINE loc == cur.location - Window
<1>1. /\ search.pc = "window" /\ cur.location # 0 /\ ~Asc(cur.location)
      /\ cur' = Reading(IF cur.location < Window THEN 0 ELSE loc)
      /\ search' = [search EXCEPT !.e = cur.location]
      /\ UNCHANGED <<index, mode, query, out, given>>
  BY DEF StepBack, AtWindow, First
<1>2. cur.location % Window = 0 /\ cur.location \in Places /\ cur.location \in Nat
  BY <1>1, AtTheWindow
<1>3. /\ cur.location >= Window /\ loc % Window = 0 /\ loc \in Nat
      /\ cur' = Reading(loc)
  <2>1. Window \in Nat \ {0}
    BY FDBIndexAssumption
  <2>2. cur.location >= Window /\ loc % Window = 0
    BY <1>1, <1>2, <2>1, DivSteps
  <2> HIDE DEF loc
  <2>3. ~(cur.location < Window)
    BY <1>2, <2>1, <2>2
  <2> QED BY <1>1, <1>2, <2>1, <2>2, <2>3 DEF loc
<1>4. loc \in Places /\ loc < cur.location
  BY <1>2, <1>3, KeyFacts, FDBIndexAssumption DEF QueryInv, Places
<1>5. search' \in SearchT /\ search'.pc = "window"
  BY <1>1, <1>2, Types DEF QueryInv, SearchT
<1> HIDE DEF loc
<1>6. \A p \in Places : p < loc => Asc(p)
  <2>1. \A p \in Places : p < loc => p < cur.location
    BY <1>2, <1>3, <1>4, KeyFacts DEF QueryInv, Places
  <2> QED BY <1>1, <2>1, AtTheWindow
<1> QED BY <1>1, <1>3, <1>4, <1>5, <1>6, Moves

LEMMA StepOnStep ==
    ASSUME QueryInv, StepOn
    PROVE  QueryInv'
<1> DEFINE l == cur.location
           next == IF Last + 1 >= RowCount THEN RowCount - 1 ELSE Last + 1
<1>1. /\ search.pc = "window" /\ l + Window <= RowCount /\ Asc(Last)
      /\ cur' = Reading(next) /\ search' = [search EXCEPT !.b = next]
      /\ UNCHANGED <<index, mode, query, out, given>>
  BY DEF StepOn, AtWindow, Whole
<1>2. /\ TypeOK /\ Sorted(index) /\ l \in Nat /\ RowCount \in Nat /\ Window \in Nat \ {0}
      /\ l % Window = 0 \/ \A p \in Places : Asc(p)
  BY <1>1, AtTheWindow
<1>3. Last \in Places /\ Last = l + Window - 1 /\ Last + 1 = l + Window
  BY <1>1, <1>2 DEF Last, Places
<1>4. \A p \in Places : p <= Last => Asc(p)
  BY <1>1, <1>2, <1>3, RowOrder
<1>5. /\ next \in Places /\ next \in Nat
      /\ \A p \in Places : p < next => Asc(p)
      /\ next % Window = 0 \/ \A p \in Places : Asc(p)
  <2>1. CASE Last + 1 >= RowCount
    <3>1. next = RowCount - 1 /\ \A p \in Places : p <= Last
      BY <1>2, <1>3, <2>1 DEF Places
    <3> QED BY <1>1, <1>2, <1>3, <1>4, <3>1 DEF Places
  <2>2. CASE Last + 1 < RowCount
    <3>1. next = l + Window /\ next \in Places /\ next \in Nat
      BY <1>2, <1>3, <2>2 DEF Places
    <3>2. \A p \in Places : p < next => p <= Last
      BY <1>2, <1>3, <3>1 DEF Places
    <3>3. l % Window = 0 => next % Window = 0
      BY <1>2, <3>1, DivSteps
    <3> QED BY <1>2, <1>4, <3>1, <3>2, <3>3
  <2> QED BY <1>2, <1>3, <2>1, <2>2
<1> HIDE DEF next
<1>6. search' \in SearchT /\ search'.pc = "window"
  BY <1>1, <1>2, <1>5, Types DEF SearchT
<1> QED BY <1>1, <1>5, <1>6, Moves

\* No row of the file is wanted, so that none is missed.
LEMMA NothingMissed ==
    ASSUME QueryInv, UNCHANGED <<index, mode, query>>,
           \A p \in Places : ~Sought(p)
    PROVE  MissIsAbsent'
<1>1. TypeOK /\ Wanted' = Wanted /\ Blind' = Blind /\ Wanted \subseteq Places
  BY Fixed DEF QueryInv, Blind, Wanted, Places
<1>2. ~Blind => Wanted = {}
  BY <1>1, SoughtIsWanted
<1> QED BY <1>1, <1>2 DEF MissIsAbsent, Blind

LEMMA MissShortStep ==
    ASSUME QueryInv, MissShort
    PROVE  QueryInv'
<1> DEFINE l == cur.location
<1>1. search.pc = "window" /\ ~(l + Window <= RowCount) /\ Rest(Miss) /\ cur' = cur
  BY DEF MissShort, Whole
<1>2. /\ TypeOK /\ Sorted(index) /\ query # AllRows
      /\ l \in Nat /\ RowCount \in Nat /\ Window \in Nat \ {0} /\ l < RowCount
      /\ cur = Reading(l)
      /\ \A p \in Places : p < l => Asc(p)
      /\ l % Window = 0 \/ \A p \in Places : Asc(p)
  BY <1>1, AtTheWindow
<1>3. UNCHANGED <<index, mode, query>> /\ RowCount' = RowCount /\ Places' = Places
  BY <1>1, Fixed DEF Rest
<1>4. /\ cur' \in CursorT /\ cur'.location + cur'.index + cur'.length <= RowCount
      /\ cur'.location + cur'.index = l
  BY <1>1, <1>2 DEF Reading, CursorT
<1>5. \A p \in Places : Asc(p) => ~Sought(p)
  BY <1>2, RowOrder DEF Sought
<1>6. MissIsAbsent'
  <2>1. CASE l % Window = 0
    <3>1. RowCount - (RowCount % Window) <= l /\ RowCount % Window \in Int
      BY <1>1, <1>2, <2>1, ShortRest
    <3>2. ASSUME NEW p \in Wanted, ~Blind
          PROVE  p >= RowCount - (RowCount % Window)
      <4>1. p \in Places
        BY <3>2 DEF Wanted, Places
      <4>2. Sought(p)
        BY <1>2, <3>2, <4>1, SoughtIsWanted
      <4>3. ~(p < l) /\ p \in Int
        BY <1>2, <1>5, <4>1, <4>2 DEF Places
      <4> QED BY <1>2, <3>1, <4>3
    <3>3. Wanted' = Wanted /\ Blind' = Blind
      BY <1>3, Fixed DEF Blind
    <3> QED BY <1>3, <3>2, <3>3 DEF MissIsAbsent, Blind
  <2>2. CASE \A p \in Places : Asc(p)
    BY <1>3, <1>5, <2>2, NothingMissed
  <2> QED BY <1>2, <2>1, <2>2
<1>7. \A p \in Places : p < l => ~Sought(p)
  BY <1>2, <1>5
<1> QED BY <1>1, <1>4, <1>6, <1>7, Gives0

LEMMA MissBeforeStep ==
    ASSUME QueryInv, MissBefore
    PROVE  QueryInv'
<1>1. /\ search.pc = "window" /\ cur.location + Window <= RowCount
      /\ cur.location = 0 /\ Desc(0) /\ cur' = Loaded /\ Rest(Miss)
  BY DEF MissBefore, AtWindow, Whole, First
<1>2. /\ TypeOK /\ Sorted(index) /\ query # AllRows
      /\ RowCount \in Nat /\ Window \in Nat \ {0} /\ 0 \in Places
  BY <1>1, AtTheWindow
<1>3. \A p \in Places : Desc(p)
  <2>1. \A p \in Places : 0 <= p
    BY <1>2 DEF Places
  <2> QED BY <1>1, <1>2, <2>1, RowOrder
<1>4. \A p \in Places : ~Sought(p)
  BY <1>2, <1>3, RowOrder DEF Sought
<1>5. cur' \in CursorT /\ cur'.location + cur'.index + cur'.length <= RowCount
  BY <1>1, <1>2 DEF Loaded, CursorT
<1>6. MissIsAbsent'
  BY <1>1, <1>4, NothingMissed DEF Rest
<1> QED BY <1>1, <1>4, <1>5, <1>6, Gives0

LEMMA BeginFailsStep ==
    ASSUME QueryInv, BeginFails
    PROVE  QueryInv'
<1>1. Rest(Failed) /\ cur' = Reading(cur.location) /\ search.pc \in {"window", "new"}
  BY DEF BeginFails, Reading
<1>2. MissIsAbsent'
  BY <1>1 DEF Rest, MissIsAbsent, Failed, Miss
<1>3. CASE search.pc = "window"
  <2>1. /\ TypeOK /\ Sorted(index) /\ query # AllRows
        /\ cur.location \in Nat /\ cur.location < RowCount /\ RowCount \in Nat
        /\ \A p \in Places : p < cur.location => Asc(p)
    BY <1>3, AtTheWindow
  <2>2. /\ cur' \in CursorT /\ cur'.location + cur'.index = cur.location
        /\ cur'.location + cur'.index + cur'.length <= RowCount
    BY <1>1, <2>1, FDBIndexAssumption DEF Reading, CursorT
  <2>3. \A p \in Places : p < cur.location => ~Sought(p)
    BY <2>1, RowOrder DEF Sought
  <2> QED BY <1>1, <1>2, <1>3, <2>2, <2>3, Gives0
<1>4. CASE search.pc = "new"
  <2>1. TypeOK /\ cur = Fresh /\ RowCount \in Nat
    BY <1>4, KeyFacts DEF QueryInv, SearchInv
  <2>2. /\ cur' \in CursorT /\ cur'.location + cur'.index = 0
        /\ cur'.location + cur'.index + cur'.length <= RowCount
    BY <1>1, <2>1, FDBIndexAssumption DEF Fresh, Reading, CursorT
  <2>3. \A p \in Places : ~(p < 0)
    BY DEF Places
  <2> QED BY <1>1, <1>2, <1>4, <2>2, <2>3, Gives0
<1> QED BY <1>1, <1>3, <1>4

-----------------------------------------------------------------------------
(* The bisection of a window.                                              *)

LEMMA InsideStep ==
    ASSUME QueryInv, Inside
    PROVE  QueryInv'
<1> DEFINE l == cur.location
<1>1. /\ search.pc = "window" /\ l + Window <= RowCount /\ cur' = Loaded
      /\ UNCHANGED <<index, mode, query, out, given>>
      /\ \/ l = 0 /\ Same(l) /\ search' = [pc |-> "bisect", b |-> 0, e |-> 0]
         \/ Asc(l) /\ ~Asc(Last) /\ search' = [pc |-> "bisect", b |-> l, e |-> Last]
  BY DEF Inside, AtWindow, Whole, First
<1>2. /\ TypeOK /\ Sorted(index) /\ query # AllRows
      /\ l \in Nat /\ RowCount \in Nat /\ Window \in Nat \ {0} /\ l \in Places
      /\ \A p \in Places : p < l => Asc(p)
  BY <1>1, AtTheWindow
<1>3. /\ RowCount' = RowCount /\ Places' = Places
      /\ \A p : Asc(p)' = Asc(p) /\ Same(p)' = Same(p) /\ Desc(p)' = Desc(p)
  BY <1>1, Fixed
<1>4. /\ cur' \in CursorT /\ cur'.location = l /\ cur'.index = 0 /\ cur'.length = Window
  BY <1>1, <1>2 DEF Loaded, CursorT
<1>5. Last \in Places /\ Last = l + Window - 1 /\ Last \in Int
  BY <1>1, <1>2 DEF Last, Places
<1>6. /\ search' \in SearchT /\ search'.pc = "bisect" /\ search'.b = l /\ search'.e \in Places
      /\ l <= search'.e /\ search'.e <= Last
      /\ Same(search'.e) \/ Desc(search'.e)
  <2>2. CASE l = 0 /\ Same(l) /\ search' = [pc |-> "bisect", b |-> 0, e |-> 0]
    BY <1>2, <1>5, <2>2 DEF SearchT
  <2>3. CASE Asc(l) /\ ~Asc(Last) /\ search' = [pc |-> "bisect", b |-> l, e |-> Last]
    <3>1. Same(Last) \/ Desc(Last)
      BY <1>2, <1>5, <2>3, RowOrder
    <3>2. l \in Nat /\ l <= Last
      BY <1>2, <1>5
    <3> QED BY <1>5, <2>3, <3>1, <3>2 DEF SearchT
  <2> QED BY <1>1, <2>2, <2>3
<1>7. \/ Same(search'.e)
      \/ \A p \in Places : p > search'.e => Desc(p)
  <2>1. \A p \in Places : p > search'.e => search'.e <= p
    BY <1>2, <1>6 DEF Places
  <2> QED BY <1>2, <1>6, <2>1, RowOrder
<1>8. BisectInv'
  <2>1. search'.e < l + Window
    BY <1>2, <1>5, <1>6 DEF Places
  <2> QED BY <1>1, <1>2, <1>3, <1>4, <1>6, <1>7, <2>1 DEF BisectInv
<1>9. WindowInv'
  BY <1>6 DEF WindowInv
<1> QED BY <1>1, <1>2, <1>4, <1>6, <1>8, <1>9, Searches

\* What the bisection knows.
LEMMA InTheWindow ==
    ASSUME QueryInv, search.pc = "bisect"
    PROVE  /\ TypeOK /\ Sorted(index) /\ query # AllRows /\ given = <<>>
           /\ RowCount \in Nat /\ Window \in Nat \ {0} /\ cur \in CursorT /\ search \in SearchT
           /\ cur.location \in Nat /\ search.b \in Nat /\ search.e \in Int
           /\ cur = Loaded /\ cur.length = Window /\ cur.index = 0
           /\ cur.location + Window <= RowCount
           /\ cur.location <= search.b /\ search.e < cur.location + Window
           /\ \A p \in Places : p < search.b => Asc(p)
           /\ \/ search.b <= search.e /\ Same(search.e)
              \/ \A p \in Places : p > search.e => Desc(p)
<1>1. TypeOK /\ Sorted(index) /\ query # AllRows /\ given = <<>>
  BY DEF QueryInv, SearchInv
<1>2. /\ RowCount \in Nat /\ Window \in Nat \ {0} /\ cur \in CursorT /\ search \in SearchT
      /\ cur.location \in Nat /\ search.b \in Nat /\ search.e \in Int
  BY <1>1, KeyFacts, Types, FDBIndexAssumption
<1>3. BisectInv
  BY DEF QueryInv
<1>4. cur = Loaded
  BY <1>2, <1>3 DEF BisectInv, Loaded, CursorT
<1> QED BY <1>1, <1>2, <1>3, <1>4 DEF BisectInv

LEMMA MiddleFacts ==
    ASSUME QueryInv, Bisecting
    PROVE  /\ Middle \in Nat /\ Middle \in Places
           /\ search.b <= Middle /\ Middle <= search.e
           /\ search.pc = "bisect"
<1>1. search.pc = "bisect" /\ search.b <= search.e
  BY DEF Bisecting
<1>2. /\ RowCount \in Nat /\ Window \in Nat \ {0} /\ cur.location \in Nat
      /\ search.b \in Nat /\ search.e \in Int
      /\ cur.location + Window <= RowCount /\ search.e < cur.location + Window
  BY <1>1, InTheWindow
<1>3. Middle \in Nat /\ search.b <= Middle /\ Middle <= search.e
  BY <1>1, <1>2 DEF Middle
<1> QED BY <1>1, <1>2, <1>3 DEF Places

LEMMA NarrowStep ==
    ASSUME QueryInv, Narrow
    PROVE  QueryInv'
<1> DEFINE m == Middle
           b == search.b
           e == search.e
<1>1. /\ Bisecting /\ UNCHANGED <<index, mode, cur, query, out, given>>
      /\ \/ Asc(m) /\ search' = [search EXCEPT !.b = m + 1]
         \/ Desc(m) /\ search' = [search EXCEPT !.e = m - 1]
         \/ Same(m) /\ b # m /\ search' = [search EXCEPT !.e = m]
  BY DEF Narrow
<1>2. m \in Nat /\ m \in Places /\ b <= m /\ m <= e /\ search.pc = "bisect"
  BY <1>1, MiddleFacts
<1> HIDE DEF m
<1>3. /\ TypeOK /\ Sorted(index) /\ query # AllRows
      /\ RowCount \in Nat /\ Window \in Nat \ {0} /\ cur \in CursorT /\ search \in SearchT
      /\ cur.location \in Nat /\ b \in Nat /\ e \in Int
      /\ cur.length = Window /\ cur.index = 0 /\ cur.location + Window <= RowCount
      /\ cur.location <= b /\ e < cur.location + Window
      /\ \A p \in Places : p < b => Asc(p)
      /\ \/ b <= e /\ Same(e)
         \/ \A p \in Places : p > e => Desc(p)
  BY <1>2, InTheWindow
<1>4. /\ RowCount' = RowCount /\ Places' = Places
      /\ \A p : Asc(p)' = Asc(p) /\ Same(p)' = Same(p) /\ Desc(p)' = Desc(p)
  BY <1>1, Fixed
<1> DEFINE Bounds(x, y) ==
               /\ x \in Nat /\ y \in Int /\ cur.location <= x /\ y < cur.location + Window
               /\ \A p \in Places : p < x => Asc(p)
               /\ \/ x <= y /\ Same(y)
                  \/ \A p \in Places : p > y => Desc(p)
<1>5. ASSUME NEW x, NEW y, Bounds(x, y), search' = [search EXCEPT !.b = x, !.e = y]
      PROVE  QueryInv'
  <2>1. search' \in SearchT /\ search'.pc = "bisect" /\ search'.b = x /\ search'.e = y
    BY <1>2, <1>3, <1>5 DEF SearchT
  <2>2. BisectInv'
    BY <1>1, <1>3, <1>4, <1>5, <2>1 DEF BisectInv
  <2>3. WindowInv'
    BY <2>1 DEF WindowInv
  <2> QED BY <1>1, <1>2, <1>3, <2>1, <2>2, <2>3, Searches
<1>6. /\ \A x : [search EXCEPT !.b = x] = [search EXCEPT !.b = x, !.e = e]
      /\ \A y : [search EXCEPT !.e = y] = [search EXCEPT !.b = b, !.e = y]
  BY <1>3 DEF SearchT
<1>7. \A p \in Places : p \in Int
  BY <1>3 DEF Places
<1>8. CASE Asc(m) /\ search' = [search EXCEPT !.b = m + 1]
  <2>1. \A p \in Places : p < m + 1 => Asc(p)
    <3>1. \A p \in Places : p < m + 1 => p <= m
      BY <1>2, <1>7
    <3> QED BY <1>2, <1>3, <1>8, <3>1, RowOrder
  <2>2. Same(e) => m + 1 <= e
    <3>1. Same(e) => m # e
      BY <1>2, <1>3, <1>8, RowOrder
    <3> QED BY <1>2, <1>3, <3>1
  <2>3. cur.location <= m + 1 /\ m + 1 \in Nat
    BY <1>2, <1>3
  <2>4. Bounds(m + 1, e)
    BY <1>3, <2>1, <2>2, <2>3
  <2> HIDE DEF Bounds
  <2> QED BY <1>5, <1>6, <1>8, <2>4
<1>9. CASE Desc(m) /\ search' = [search EXCEPT !.e = m - 1]
  <2>1. \A p \in Places : p > m - 1 => Desc(p)
    <3>1. \A p \in Places : p > m - 1 => m <= p
      BY <1>2, <1>7
    <3> QED BY <1>2, <1>3, <1>9, <3>1, RowOrder
  <2>2. m - 1 \in Int /\ m - 1 < cur.location + Window
    BY <1>2, <1>3
  <2>3. Bounds(b, m - 1)
    BY <1>3, <2>1, <2>2
  <2> HIDE DEF Bounds
  <2> QED BY <1>5, <1>6, <1>9, <2>3
<1>10. CASE Same(m) /\ search' = [search EXCEPT !.e = m]
  <2>1. m < cur.location + Window
    BY <1>2, <1>3
  <2>2. Bounds(b, m)
    BY <1>2, <1>3, <1>10, <2>1
  <2> HIDE DEF Bounds
  <2> QED BY <1>5, <1>6, <1>10, <2>2
<1> QED BY <1>1, <1>8, <1>9, <1>10

LEMMA FoundStep ==
    ASSUME QueryInv, Found
    PROVE  QueryInv'
<1> DEFINE m == Middle
           i == m - cur.location
<1>1. /\ Bisecting /\ Same(m) /\ search.b = m /\ Rest(Row(m))
      /\ cur' = [cur EXCEPT !.index = i + 1, !.length = cur.length - i - 1]
  BY DEF Found
<1>2. m \in Nat /\ m \in Places /\ m <= search.e /\ search.pc = "bisect"
  BY <1>1, MiddleFacts
<1> HIDE DEF m
<1>3. /\ TypeOK /\ Sorted(index) /\ query # AllRows
      /\ RowCount \in Nat /\ Window \in Nat \ {0} /\ cur \in CursorT
      /\ cur.location \in Nat /\ search.e \in Int
      /\ cur.length = Window /\ cur.location + Window <= RowCount
      /\ cur.location <= m /\ search.e < cur.location + Window
      /\ \A p \in Places : p < m => Asc(p)
  BY <1>1, <1>2, InTheWindow
<1>4. i \in 0..Window - 1
  BY <1>2, <1>3
<1>5. cur' = [location |-> cur.location, index |-> i + 1, length |-> Window - i - 1]
  BY <1>1, <1>3 DEF CursorT
<1>6. /\ cur' \in CursorT /\ cur'.location + cur'.index = m + 1
      /\ m + 1 + cur'.length <= RowCount
  <2>1. i + 1 \in Nat /\ Window - i - 1 \in 0..Window
    BY <1>3, <1>4
  <2>2. cur' \in CursorT
    BY <1>3, <1>5, <2>1 DEF CursorT
  <2>3. cur.location + (i + 1) = m + 1 /\ m + 1 + (Window - i - 1) = cur.location + Window
    BY <1>2, <1>3
  <2> QED BY <1>3, <1>5, <2>2, <2>3
<1>7. \A p \in Places : p < m => ~Sought(p)
  BY <1>3, RowOrder DEF Sought
<1> QED BY <1>1, <1>2, <1>6, <1>7, Gives1 DEF Sought

LEMMA MissInsideStep ==
    ASSUME QueryInv, MissInside
    PROVE  QueryInv'
<1>1. search.pc = "bisect" /\ search.b > search.e /\ Rest(Miss) /\ cur' = cur
  BY DEF MissInside
<1>2. /\ TypeOK /\ Sorted(index) /\ query # AllRows
      /\ RowCount \in Nat /\ Window \in Nat \ {0} /\ cur \in CursorT
      /\ cur.location \in Nat /\ search.b \in Nat /\ search.e \in Int
      /\ cur.length = Window /\ cur.index = 0 /\ cur.location + Window <= RowCount
      /\ \A p \in Places : p < search.b => Asc(p)
      /\ \/ search.b <= search.e /\ Same(search.e)
         \/ \A p \in Places : p > search.e => Desc(p)
  BY <1>1, InTheWindow
<1>3. \A p \in Places : ~Sought(p)
  <2>1. \A p \in Places : p < search.b \/ p > search.e
    BY <1>1, <1>2 DEF Places
  <2>2. \A p \in Places : p > search.e => Desc(p)
    BY <1>1, <1>2
  <2> QED BY <1>2, <2>1, <2>2, RowOrder DEF Sought
<1>4. MissIsAbsent'
  BY <1>1, <1>3, NothingMissed DEF Rest
<1>5. cur' \in CursorT /\ cur'.location + cur'.index + cur'.length <= RowCount
  BY <1>1, <1>2
<1> QED BY <1>1, <1>3, <1>4, <1>5, Gives0

-----------------------------------------------------------------------------
(* Going on from the first row.                                            *)

\* What the cursor at rest knows of its next row and of those it gave.
LEMMA AtRest ==
    ASSUME QueryInv, search.pc = "idle"
    PROVE  /\ TypeOK /\ Sorted(index) /\ RowCount \in Nat /\ Window \in Nat \ {0}
           /\ cur \in CursorT /\ cur.location \in Nat /\ cur.index \in Nat
           /\ cur.length \in 0..Window /\ cur.length \in Nat
           /\ cur.location + cur.index + cur.length <= RowCount
           /\ given \in Seq(Places)
           /\ \A p \in Places : p < cur.location + cur.index /\ Sought(p) => Got(p)
           /\ \A j \in DOMAIN given : given[j] < cur.location + cur.index /\ Sought(given[j])
           /\ \A i, j \in DOMAIN given : i < j => given[i] < given[j]
<1>1. TypeOK /\ Sorted(index)
  BY DEF QueryInv
<1>2. /\ RowCount \in Nat /\ Window \in Nat \ {0} /\ cur \in CursorT
      /\ cur.location \in Nat /\ cur.index \in Nat /\ cur.length \in 0..Window
      /\ given \in Seq(Places)
  BY <1>1, KeyFacts, Types, FDBIndexAssumption
<1>3. GivenInv
  BY DEF QueryInv
<1>4. \A p \in Places : p < cur.location + cur.index => p \in 0..(cur.location + cur.index - 1)
  BY <1>2 DEF Places
<1>5. cur.length \in Nat
  BY <1>2
<1> QED BY <1>1, <1>2, <1>3, <1>4, <1>5 DEF GivenInv

LEMMA RefilledFacts ==
    ASSUME QueryInv, search.pc = "idle"
    PROVE  /\ Refilled \in CursorT
           /\ Refilled.location \in Nat /\ Refilled.index \in Nat /\ Refilled.length \in Nat
           /\ Refilled.location + Refilled.index = cur.location + cur.index
           /\ Refilled.location + Refilled.index + Refilled.length <= RowCount
           /\ Refilled.length = 0 => Refilled.location + Refilled.index = RowCount
<1> DEFINE l == cur.location + cur.index
<1>1. /\ TypeOK /\ RowCount \in Nat /\ Window \in Nat \ {0}
      /\ cur \in CursorT /\ cur.location \in Nat /\ cur.index \in Nat
      /\ cur.length \in 0..Window /\ cur.length \in Nat
      /\ cur.location + cur.index + cur.length <= RowCount
  BY AtRest
<1>2. CASE cur.length # 0
  BY <1>1, <1>2 DEF Refilled
<1>3. CASE cur.length = 0
  <2>1. l \in 0..RowCount /\ l \in Nat
    BY <1>1
  <2>2. /\ Readable(l) \in 0..Window /\ l + Readable(l) <= RowCount
        /\ Readable(l) = 0 => l = RowCount
    BY <1>1, <2>1, ReadableFacts
  <2>3. Refilled = [location |-> l, index |-> 0, length |-> Readable(l)]
    BY <1>3 DEF Refilled
  <2> HIDE DEF l
  <2>4. Refilled \in CursorT
    BY <1>1, <2>1, <2>2, <2>3 DEF CursorT
  <2>5. Readable(l) \in Nat /\ l + 0 = l
    BY <1>1, <2>1, <2>2
  <2> QED BY <2>1, <2>2, <2>3, <2>4, <2>5 DEF l
<1> QED BY <1>1, <1>2, <1>3

\* A step of the cursor at rest that gives no row and steps over none sought.
LEMMA GivesNone ==
    ASSUME QueryInv, search.pc = "idle", NEW o \in {NoRow, Failed}, Rest(o),
           cur' \in CursorT, cur'.location + cur'.index + cur'.length <= RowCount,
           \A p \in Places : p < cur'.location + cur'.index /\ Sought(p) => Got(p),
           \A j \in DOMAIN given : given[j] < cur'.location + cur'.index,
           o = NoRow /\ given # <<>> => \A p \in Places : Sought(p) => Got(p)
    PROVE  QueryInv'
<1>1. /\ TypeOK /\ Sorted(index) /\ RowCount \in Nat /\ given \in Seq(Places)
      /\ \A j \in DOMAIN given : Sought(given[j])
      /\ \A i, j \in DOMAIN given : i < j => given[i] < given[j]
  BY AtRest
<1>2. /\ UNCHANGED <<index, mode, query, given>> /\ search' = Resting /\ out' = o
      /\ o # Miss
  BY DEF Rest, Miss, Failed, NoRow
<1>3. /\ RowCount' = RowCount /\ Places' = Places
      /\ \A p : Sought(p)' = Sought(p) /\ Got(p)' = Got(p)
  BY <1>2, Fixed DEF Got
<1>4. search'.pc = "idle" /\ search' \in SearchT
  BY <1>2 DEF Resting, SearchT
<1>5. TypeOK'
  BY <1>1, <1>2, <1>4, TypeKept DEF OutT
<1>6. Sorted(index)'
  BY <1>1, <1>2, Fixed
<1>7. SearchInv' /\ WindowInv' /\ BisectInv' /\ MissIsAbsent'
  BY <1>2, <1>4 DEF SearchInv, WindowInv, BisectInv, MissIsAbsent
<1>8. EndInv'
  BY <1>2, <1>3 DEF EndInv
<1>9. GivenInv'
  <2>1. cur'.location \in Nat /\ cur'.index \in Nat /\ cur'.length \in Nat
    BY FDBIndexAssumption DEF CursorT
  <2>2. \A p \in 0..(cur'.location + cur'.index - 1) : p \in Places /\ p < cur'.location + cur'.index
    BY <1>1, <2>1 DEF Places
  <2>3. \A p \in 0..(cur'.location + cur'.index - 1) : Sought(p) => Got(p)
    BY <2>2
  <2> QED BY <1>1, <1>2, <1>3, <2>3 DEF GivenInv
<1> QED BY <1>5, <1>6, <1>7, <1>8, <1>9 DEF QueryInv

\* It gives the row behind those it gave.
LEMMA GivesNext ==
    ASSUME QueryInv, search.pc = "idle", NEW q \in Places, Rest(Row(q)), Sought(q),
           q = cur.location + cur.index,
           cur' \in CursorT, cur'.location + cur'.index = q + 1,
           q + 1 + cur'.length <= RowCount
    PROVE  QueryInv'
<1>1. /\ TypeOK /\ Sorted(index) /\ RowCount \in Nat /\ given \in Seq(Places)
      /\ \A p \in Places : p < q /\ Sought(p) => Got(p)
      /\ \A j \in DOMAIN given : given[j] < q /\ Sought(given[j])
      /\ \A i, j \in DOMAIN given : i < j => given[i] < given[j]
  BY AtRest
<1>2. /\ UNCHANGED <<index, mode, query>> /\ search' = Resting /\ out' = Row(q)
      /\ given' = Append(given, q) /\ out' # NoRow /\ out' # Miss
  BY DEF Rest, Row, NoRow, Miss
<1>3. /\ RowCount' = RowCount /\ Places' = Places
      /\ \A p : Sought(p)' = Sought(p)
  BY <1>2, Fixed
<1>4. search'.pc = "idle" /\ search' \in SearchT
  BY <1>2 DEF Resting, SearchT
<1>5. given' \in Seq(Places)
  BY <1>1, <1>2
<1>6. TypeOK'
  BY <1>1, <1>2, <1>4, <1>5, TypeKept DEF OutT, Places
<1>7. Sorted(index)'
  BY <1>1, <1>2, Fixed
<1>8. SearchInv' /\ WindowInv' /\ BisectInv' /\ EndInv' /\ MissIsAbsent'
  BY <1>2, <1>4 DEF SearchInv, WindowInv, BisectInv, EndInv, MissIsAbsent
<1>9. /\ DOMAIN given' = 1..Len(given) + 1 /\ DOMAIN given = 1..Len(given) /\ Len(given) \in Nat
      /\ given'[Len(given) + 1] = q
      /\ \A j \in 1..Len(given) : given'[j] = given[j]
  BY <1>1, <1>2
<1>10. q \in Nat
  BY <1>1 DEF Places
<1>11. \A p \in 0..q : Sought(p) => Got(p)'
  <2>1. \A p \in 0..q : p \in Places /\ (p < q \/ p = q)
    BY <1>1, <1>10 DEF Places
  <2>2. Got(q)'
    BY <1>9 DEF Got
  <2>3. ASSUME NEW p \in Places, Got(p) PROVE Got(p)'
    <3>1. PICK j \in DOMAIN given : given[j] = p
      BY <2>3 DEF Got
    <3> QED BY <1>9, <3>1 DEF Got
  <2> QED BY <1>1, <2>1, <2>2, <2>3
<1>12. /\ \A j \in DOMAIN given' : given'[j] < q + 1 /\ Sought(given'[j])
       /\ \A i, j \in DOMAIN given' : i < j => given'[i] < given'[j]
  <2>1. ASSUME NEW j \in DOMAIN given'
        PROVE  /\ j \in Int
               /\ j = Len(given) + 1 \/ (j \in DOMAIN given /\ given'[j] = given[j])
    BY <1>9
  <2>2. \A j \in DOMAIN given : given[j] \in Int
    BY <1>1, <1>9 DEF Places
  <2>3. \A j \in DOMAIN given' : given'[j] < q + 1 /\ Sought(given'[j])
    BY <1>1, <1>9, <1>10, <2>1, <2>2
  <2>4. ASSUME NEW i \in DOMAIN given', NEW j \in DOMAIN given', i < j
        PROVE  given'[i] < given'[j]
    <3>1. i \in DOMAIN given /\ given'[i] = given[i]
      BY <1>9, <2>4
    <3> QED BY <1>1, <1>9, <2>1, <2>4, <3>1
  <2> QED BY <2>3, <2>4
<1>13. GivenInv'
  <2>1. cur'.location \in Nat /\ cur'.index \in Nat /\ cur'.length \in Nat
    BY FDBIndexAssumption DEF CursorT
  <2>2. cur'.location + cur'.index - 1 = q
    BY <1>10, <2>1
  <2>3. 0..(cur'.location + cur'.index - 1) = 0..q
    BY <2>2
  <2>4. cur'.location + cur'.index + cur'.length <= RowCount
    BY <1>10, <2>1
  <2> QED BY <1>3, <1>11, <1>12, <2>3, <2>4 DEF GivenInv
<1> QED BY <1>6, <1>7, <1>8, <1>13 DEF QueryInv

LEMMA ToNextStep ==
    ASSUME QueryInv, ToNext
    PROVE  QueryInv'
<1> DEFINE w == Refilled
           q == w.location + w.index
<1>1. /\ search.pc = "idle" /\ w.length # 0
      /\ cur' = [w EXCEPT !.index = @ + 1, !.length = @ - 1]
      /\ Rest(IF query = AllRows \/ Same(q) THEN Row(q) ELSE NoRow)
  BY DEF ToNext
<1>2. /\ w \in CursorT /\ w.location \in Nat /\ w.index \in Nat /\ w.length \in Nat
      /\ q = cur.location + cur.index /\ q + w.length <= RowCount
  BY <1>1, RefilledFacts
<1> HIDE DEF w
<1>3. cur' = [location |-> w.location, index |-> w.index + 1, length |-> w.length - 1]
  BY <1>1, <1>2 DEF CursorT
<1>4. /\ TypeOK /\ Sorted(index) /\ RowCount \in Nat /\ Window \in Nat \ {0}
      /\ given \in Seq(Places)
      /\ \A p \in Places : p < q /\ Sought(p) => Got(p)
      /\ \A j \in DOMAIN given : given[j] < q /\ Sought(given[j])
  BY <1>1, <1>2, AtRest
<1>5. /\ q \in Nat /\ q \in Places /\ w.index + 1 \in Nat /\ w.length - 1 \in Nat
      /\ w.length - 1 \in 0..Window
  <2>1. w.length \in 0..Window /\ w.length \in Nat /\ w.length # 0 /\ w.index \in Nat
    BY <1>1, <1>2 DEF CursorT
  <2>2. w.index + 1 \in Nat /\ w.length - 1 \in Nat /\ w.length - 1 \in 0..Window
    BY <1>4, <2>1
  <2>3. q \in Nat
    BY <1>2
  <2> HIDE DEF q
  <2>4. q < RowCount
    BY <1>2, <1>4, <2>1, <2>3
  <2> QED BY <1>4, <2>2, <2>3, <2>4 DEF Places
<1>6. /\ cur' \in CursorT /\ cur'.location + cur'.index = q + 1
      /\ q + 1 + cur'.length <= RowCount
      /\ cur'.location + cur'.index + cur'.length <= RowCount
  BY <1>2, <1>3, <1>4, <1>5, SMTT(20) DEF CursorT
<1> HIDE DEF q
<1>7. CASE Sought(q)
  <2>1. Rest(Row(q))
    BY <1>1, <1>7 DEF Sought
  <2> QED BY <1>1, <1>2, <1>5, <1>6, <1>7, <2>1, GivesNext
<1>8. CASE ~Sought(q)
  <2>1. Rest(NoRow)
    BY <1>1, <1>8 DEF Sought
  <2>2. \A p \in Places : p < q + 1 /\ Sought(p) => Got(p)
    <3>1. \A p \in Places : p < q + 1 => p < q \/ p = q
      BY <1>5 DEF Places
    <3> QED BY <1>4, <1>8, <3>1
  <2>3. \A j \in DOMAIN given : given[j] \in Places /\ given[j] < q + 1
    <3>1. \A j \in DOMAIN given : given[j] \in Places
      BY <1>4
    <3>2. \A p \in Places : p < q => p < q + 1
      BY <1>5 DEF Places
    <3> QED BY <1>4, <3>1, <3>2
  <2>4. ASSUME given # <<>>, NEW p \in Places, Sought(p)
        PROVE  Got(p)
    <3>1. 1 \in DOMAIN given
      BY <1>4, <2>4
    <3>2. given[1] \in Places /\ given[1] < q /\ Sought(given[1])
      BY <1>4, <2>3, <3>1
    <3>3. query # AllRows /\ Same(given[1]) /\ ~Same(q)
      BY <1>8, <3>2 DEF Sought
    <3>4. given[1] <= q
      BY <1>5, <3>2 DEF Places
    <3>5. Desc(q)
      BY <1>4, <1>5, <3>2, <3>3, <3>4, RowOrder
    <3>6. ~(q <= p)
      BY <1>4, <1>5, <2>4, <3>3, <3>5, RowOrder DEF Sought
    <3>7. p < q
      BY <1>5, <3>6 DEF Places
    <3> QED BY <1>4, <2>4, <3>7
  <2> QED BY <1>1, <1>6, <2>1, <2>2, <2>3, <2>4, GivesNone
<1> QED BY <1>7, <1>8

LEMMA NextEndStep ==
    ASSUME QueryInv, NextEnd
    PROVE  QueryInv'
<1>1. search.pc = "idle" /\ Refilled.length = 0 /\ cur' = Refilled /\ Rest(NoRow)
  BY DEF NextEnd
<1>2. /\ cur' \in CursorT /\ cur'.location + cur'.index = cur.location + cur.index
      /\ cur'.location + cur'.index = RowCount
      /\ cur'.location + cur'.index + cur'.length <= RowCount
  BY <1>1, RefilledFacts
<1>3. /\ RowCount \in Nat
      /\ \A p \in Places : p < RowCount /\ Sought(p) => Got(p)
      /\ \A j \in DOMAIN given : given[j] < RowCount
  BY <1>1, <1>2, AtRest
<1>4. \A p \in Places : p < RowCount
  BY <1>3 DEF Places
<1> QED BY <1>1, <1>2, <1>3, <1>4, GivesNone

LEMMA NextFailsStep ==
    ASSUME QueryInv, NextFails
    PROVE  QueryInv'
<1> DEFINE l == cur.location + cur.index
<1>1. search.pc = "idle" /\ cur.length = 0 /\ cur' = Reading(l) /\ Rest(Failed)
  BY DEF NextFails
<1>2. /\ Window \in Nat \ {0} /\ RowCount \in Nat /\ l \in Nat /\ l + 0 <= RowCount
      /\ \A p \in Places : p < l /\ Sought(p) => Got(p)
      /\ \A j \in DOMAIN given : given[j] < l
  BY <1>1, AtRest
<1> HIDE DEF l
<1>3. /\ cur' \in CursorT /\ cur'.location + cur'.index = l
      /\ cur'.location + cur'.index + cur'.length <= RowCount
  BY <1>1, <1>2 DEF Reading, CursorT
<1>4. Failed # NoRow
  BY DEF Failed, NoRow
<1> QED BY <1>1, <1>2, <1>3, <1>4, GivesNone

LEMMA QueryStutter ==
    ASSUME QueryInv, UNCHANGED vars
    PROVE  QueryInv'
<1>1. UNCHANGED <<index, mode, cur, query, search, out, given>>
  BY DEF vars
<1>2. /\ RowCount' = RowCount /\ Places' = Places /\ Wanted' = Wanted
      /\ Sorted(index)' = Sorted(index)
      /\ \A p : Asc(p)' = Asc(p) /\ Desc(p)' = Desc(p) /\ Same(p)' = Same(p)
      /\ \A p : Sought(p)' = Sought(p) /\ Got(p)' = Got(p)
  BY <1>1, Fixed DEF Got
<1>3. TypeOK'
  BY <1>1, Types, TypeKept DEF QueryInv
<1>4. WindowInv'
  BY <1>1, <1>2 DEF QueryInv, WindowInv
<1>5. BisectInv'
  BY <1>1, <1>2 DEF QueryInv, BisectInv
<1>6. GivenInv' /\ EndInv'
  BY <1>1, <1>2 DEF QueryInv, GivenInv, EndInv
<1>7. SearchInv' /\ MissIsAbsent'
  BY <1>1, <1>2 DEF QueryInv, SearchInv, MissIsAbsent
<1> QED BY <1>2, <1>3, <1>4, <1>5, <1>6, <1>7 DEF QueryInv

-----------------------------------------------------------------------------
(* What a query keeps to.                                                  *)

\* The strengthened invariant holds at every step of a query.
THEOREM QueryInvariance == Spec => []QueryInv
<1>1. QueryInv /\ [Next]_vars => QueryInv'
  BY BeginAllStep, BeginEmptyStep, BeginSearchStep, MissShortStep, StepBackStep, StepOnStep,
     MissBeforeStep, InsideStep, NarrowStep, FoundStep, MissInsideStep, BeginFailsStep,
     ToNextStep, NextEndStep, NextFailsStep, QueryStutter
     DEF Next, Searching
<1> QED BY <1>1, QueryInitStep, PTL DEF Spec

\* The cursor, its search and its answers keep their types.
THEOREM QueryTypeCorrect == Spec => []TypeOK
<1>1. QueryInv => TypeOK
  BY DEF QueryInv
<1> QED BY <1>1, QueryInvariance, PTL

\* The bisection of FDBIndexCursorToBegin never looks at a row outside the window
\* in memory: `assert(i >= cursor->location && i < ...)` holds.
THEOREM ProbeInWindowAlways == Spec => []ProbeInWindow
<1>1. QueryInv => ProbeInWindow
  <2> SUFFICES ASSUME QueryInv, Bisecting
               PROVE  Middle \in cur.location..(cur.location + cur.length - 1)
    BY DEF ProbeInWindow
  <2>1. Middle \in Nat /\ search.b <= Middle /\ Middle <= search.e /\ search.pc = "bisect"
    BY MiddleFacts
  <2>2. /\ Window \in Nat \ {0} /\ cur.location \in Nat /\ search.b \in Nat /\ search.e \in Int
        /\ cur.length = Window
        /\ cur.location <= search.b /\ search.e < cur.location + Window
    BY <2>1, InTheWindow
  <2> QED BY <2>1, <2>2
<1> QED BY <1>1, QueryInvariance, PTL

\* What a cursor gave, with and without a search in progress.
LEMMA GivenFacts ==
    ASSUME QueryInv
    PROVE  /\ TypeOK /\ RowCount \in Nat /\ given \in Seq(Places)
           /\ DOMAIN given = 1..Len(given) /\ Len(given) \in Nat
           /\ \A j \in DOMAIN given : given[j] \in Places /\ given[j] \in Nat /\ Sought(given[j])
           /\ \A i, j \in DOMAIN given : i < j => given[i] < given[j]
           /\ \A j \in DOMAIN given : \A p \in Places : p <= given[j] /\ Sought(p) => Got(p)
           /\ given # <<>> => ~Blind
<1>1. TypeOK /\ given \in Seq(Places)
  BY Types DEF QueryInv
<1>2. /\ RowCount \in Nat /\ DOMAIN given = 1..Len(given) /\ Len(given) \in Nat
      /\ \A j \in DOMAIN given : given[j] \in Places /\ given[j] \in Nat
      /\ given # <<>> => 1 \in DOMAIN given
  BY <1>1, KeyFacts DEF Places
<1>3. CASE search.pc = "idle"
  <2>1. /\ cur.location \in Nat /\ cur.index \in Nat
        /\ \A p \in Places : p < cur.location + cur.index /\ Sought(p) => Got(p)
        /\ \A j \in DOMAIN given : given[j] < cur.location + cur.index /\ Sought(given[j])
        /\ \A i, j \in DOMAIN given : i < j => given[i] < given[j]
    BY <1>3, AtRest
  <2>2. ASSUME NEW j \in DOMAIN given, NEW p \in Places, p <= given[j], Sought(p)
        PROVE  Got(p)
    <3>1. p < cur.location + cur.index
      BY <1>2, <2>1, <2>2 DEF Places
    <3> QED BY <2>1, <2>2, <3>1
  <2>3. given # <<>> => ~Blind
    BY <1>1, <1>2, <2>1, SoughtIsWanted
  <2> QED BY <1>1, <1>2, <2>1, <2>2, <2>3
<1>4. CASE search.pc # "idle"
  <2>1. given = <<>> /\ DOMAIN given = {}
    BY <1>4 DEF QueryInv, SearchInv
  <2> QED BY <1>1, <1>2, <2>1
<1> QED BY <1>3, <1>4

\* The rows a cursor gives are the wanted ones from the first of them on, each once
\* and in the order of the file, across the windows of FDBIndexCursorToNext.
THEOREM GivesWantedInOrderAlways == Spec => []GivesWantedInOrder
<1>1. QueryInv => GivesWantedInOrder
  <2> SUFFICES ASSUME QueryInv, NEW j \in DOMAIN given
               PROVE  /\ given[j] \in Wanted
                      /\ \A i \in 1..j - 1 : given[i] < given[j]
                      /\ Wanted \cap 0..given[j] = {given[i] : i \in 1..j}
    BY DEF GivesWantedInOrder
  <2>1. /\ TypeOK /\ DOMAIN given = 1..Len(given) /\ Len(given) \in Nat
        /\ \A i \in DOMAIN given : given[i] \in Places /\ given[i] \in Nat /\ Sought(given[i])
        /\ \A i, k \in DOMAIN given : i < k => given[i] < given[k]
        /\ \A p \in Places : p <= given[j] /\ Sought(p) => Got(p)
        /\ ~Blind
    <3>1. given # <<>>
      OBVIOUS
    <3> QED BY <3>1, GivenFacts
  <2>2. /\ \A i \in 1..j : i \in DOMAIN given /\ (i < j \/ i = j)
        /\ \A i \in DOMAIN given : i \in 1..j \/ j < i
    BY <2>1
  <2>3. \A i \in DOMAIN given : given[i] \in Wanted
    BY <2>1, SoughtIsWanted
  <2>4. \A i \in 1..j - 1 : given[i] < given[j]
    <3>1. \A i \in 1..j - 1 : i \in DOMAIN given /\ i < j
      BY <2>1
    <3> QED BY <2>1, <3>1
  <2>5. ASSUME NEW p \in Wanted, p \in 0..given[j]
        PROVE  \E i \in 1..j : p = given[i]
    <3>1. p \in Places /\ p <= given[j] /\ p \in Nat
      BY <2>1, <2>5 DEF Wanted, Places
    <3>2. Got(p)
      BY <2>1, <2>5, <3>1, SoughtIsWanted
    <3>3. PICK i \in DOMAIN given : given[i] = p
      BY <3>2 DEF Got
    <3>4. ~(j < i)
      <4>1. j < i => given[j] < given[i]
        BY <2>1
      <4> QED BY <2>1, <3>1, <3>3, <4>1
    <3> QED BY <2>2, <3>3, <3>4
  <2>6. ASSUME NEW i \in 1..j
        PROVE  given[i] \in Wanted /\ given[i] \in 0..given[j]
    <3>1. i \in DOMAIN given /\ (given[i] < given[j] \/ given[i] = given[j])
      BY <2>1, <2>2
    <3>2. given[i] \in Nat /\ given[j] \in Nat
      BY <2>1, <3>1
    <3> QED BY <2>3, <3>1, <3>2
  <2> QED BY <2>3, <2>4, <2>5, <2>6
<1> QED BY <1>1, QueryInvariance, PTL

\* A NULL behind a row means that the wanted rows are used up.
THEOREM EndIsEndAlways == Spec => []EndIsEnd
<1>1. QueryInv => EndIsEnd
  <2> SUFFICES ASSUME QueryInv, out = NoRow, given # <<>>
               PROVE  Len(given) = Cardinality(Wanted)
    BY DEF EndIsEnd
  <2>1. /\ TypeOK /\ DOMAIN given = 1..Len(given) /\ Len(given) \in Nat
        /\ \A i \in DOMAIN given : given[i] \in Places /\ given[i] \in Nat /\ Sought(given[i])
        /\ \A i, k \in DOMAIN given : i < k => given[i] < given[k]
        /\ ~Blind /\ given \in Seq(Places)
    BY GivenFacts
  <2>2. \A i \in 1..Len(given) : given[i] \in Wanted
    BY <2>1, SoughtIsWanted
  <2>3. given \in [1..Len(given) -> Wanted]
    BY <2>1, <2>2
  <2>4. ASSUME NEW p \in Wanted
        PROVE  \E i \in 1..Len(given) : given[i] = p
    <3>1. p \in Places
      BY DEF Wanted, Places
    <3>2. Sought(p)
      BY <2>1, <3>1, SoughtIsWanted
    <3> QED BY <2>1, <3>1, <3>2 DEF QueryInv, EndInv, Got
  <2>5. ASSUME NEW i \in 1..Len(given), NEW k \in 1..Len(given), given[i] = given[k]
        PROVE  i = k
    <3>1. given[i] \in Nat /\ given[k] \in Nat
      BY <2>1
    <3>2. ~(i < k) /\ ~(k < i)
      BY <2>1, <2>5, <3>1
    <3> QED BY <2>1, <3>2
  <2>6. given \in Bijection(1..Len(given), Wanted)
    BY <2>3, <2>4, <2>5 DEF Bijection, Injection, Surjection, IsInjective
  <2>7. ExistsBijection(1..Len(given), Wanted)
    BY <2>6 DEF ExistsBijection
  <2> QED BY <2>1, <2>7, FS_CountingElements
<1> QED BY <1>1, QueryInvariance, PTL

\* A NULL at the beginning misses no row of a whole window.
THEOREM MissIsAbsentAlways == Spec => []MissIsAbsent
<1>1. QueryInv => MissIsAbsent
  BY DEF QueryInv
<1> QED BY <1>1, QueryInvariance, PTL
=============================================================================
