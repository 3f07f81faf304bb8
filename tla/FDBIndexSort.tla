---------------------------- MODULE FDBIndexSort ----------------------------
(***************************************************************************)
(* FDBIndexSort of src/vTeam/c/db/hfdb_index.c, which puts the rows of an  *)
(* index in order before fdbgen writes them: a quicksort in place whose    *)
(* pivot is an item that the exchanges move about, with the recursion's    *)
(* ranges on a stack.  Positions count from one; halving and the bounds    *)
(* are the same as in the code, which counts from zero.                    *)
(***************************************************************************)
EXTENDS FDBIndexRows

VARIABLES
    input,      (* ghost: the rows as they came                            *)
    data,       (* the rows in memory                                      *)
    todo,       (* the ranges whose FDBIndexSortScan is still to come      *)
    scan        (* the FDBIndexSortScan under way                          *)

sortVars == <<mode, input, data, todo, scan>>

N == Len(input)

\* A row is its key and, to tell equal ones apart, where it came from.
Rows(n) == {[i \in 1..n |-> [key |-> k[i], from |-> i]] : k \in [1..n -> Keys]}

\* FDBIndexSortPropertyCompare gives Desc: row r belongs behind row s.
Behind(r, s) == Precedes(s.key, r.key)

Part(lo, hi) == [lo |-> lo, hi |-> hi]
NoScan == [on |-> FALSE, lo |-> 1, hi |-> 1, b |-> 1, e |-> 1, pivot |-> 1]

SortInit ==
    /\ mode \in Modes
    /\ input \in UNION {Rows(n) : n \in 0..MaxLen}
    /\ data = input
    /\ todo = IF N > 1 THEN <<Part(1, N)>> ELSE <<>>
    /\ scan = NoScan

\* A call begins with the row in the middle as its pivot.
Begin ==
    /\ ~scan.on /\ todo # <<>>
    /\ LET r == Head(todo)
       IN  scan' = [on |-> TRUE, lo |-> r.lo, hi |-> r.hi, b |-> r.lo, e |-> r.hi,
                    pivot |-> (r.lo + r.hi) \div 2]
    /\ todo' = Tail(todo)
    /\ UNCHANGED <<mode, input, data>>

BehindPivot(i) == Behind(data[i], data[scan.pivot])

Keep ==
    /\ scan.on /\ scan.b < scan.e /\ ~BehindPivot(scan.b)
    /\ scan' = [scan EXCEPT !.b = @ + 1]
    /\ UNCHANGED <<mode, input, data, todo>>

\* Mutant of Swapped: the row put aside is not put back.
Overwritten(i, j) == [data EXCEPT ![i] = data[j]]

Swapped(i, j) == [data EXCEPT ![i] = data[j], ![j] = data[i]]

\* Mutants of Exchange: the pivot is not followed when it moves; the bound is
\* lowered twice.
ExchangeLosesPivot ==
    /\ scan.on /\ scan.b < scan.e /\ BehindPivot(scan.b)
    /\ \E j \in scan.b + 1..scan.e :
        /\ ~BehindPivot(j)
        /\ \A i \in j + 1..scan.e : BehindPivot(i)
        /\ data' = Swapped(scan.b, j)
        /\ scan' = [scan EXCEPT !.e = j - 1]
    /\ UNCHANGED <<mode, input, todo>>

ExchangeLowersTwice ==
    /\ scan.on /\ scan.b < scan.e /\ BehindPivot(scan.b)
    /\ \E j \in scan.b + 1..scan.e :
        /\ ~BehindPivot(j)
        /\ data' = Swapped(scan.b, j)
        /\ scan' = [scan EXCEPT !.e = j - 2,
                                !.pivot = IF @ = j THEN scan.b ELSE @]
    /\ UNCHANGED <<mode, input, todo>>

\* A row behind the pivot changes places with the last one that is not.
Exchange ==
    /\ scan.on /\ scan.b < scan.e /\ BehindPivot(scan.b)
    /\ \E j \in scan.b + 1..scan.e :
        /\ ~BehindPivot(j)
        /\ \A i \in j + 1..scan.e : BehindPivot(i)
        /\ data' = Swapped(scan.b, j)
        /\ scan' = [scan EXCEPT !.e = j - 1,
                                !.pivot = IF @ = j THEN scan.b ELSE @]
    /\ UNCHANGED <<mode, input, todo>>

\* Mutant of Exhaust: the bound passes the row.
ExhaustPasses ==
    /\ scan.on /\ scan.b < scan.e
    /\ \A i \in scan.b..scan.e : BehindPivot(i)
    /\ scan' = [scan EXCEPT !.e = scan.b - 1]
    /\ UNCHANGED <<mode, input, data, todo>>

\* No row up to the bound is left on the wrong side.
Exhaust ==
    /\ scan.on /\ scan.b < scan.e
    /\ \A i \in scan.b..scan.e : BehindPivot(i)
    /\ scan' = [scan EXCEPT !.e = scan.b]
    /\ UNCHANGED <<mode, input, data, todo>>

\* Pushed(r): the ranges to come with r in front, unless it has one row.
Pushed(r, rest) == IF r.lo < r.hi THEN <<r>> \o rest ELSE rest

\* Where the second loop stops: the first row behind the pivot, or the last row.
Stop(b) ==
    /\ b \in scan.b..scan.hi
    /\ \A i \in scan.b..b - 1 : ~BehindPivot(i)
    /\ b = scan.hi \/ BehindPivot(b)

\* Mutant of SplitLast: the last row is sorted again.
SplitLastWhole ==
    /\ scan.on /\ scan.b >= scan.e
    /\ Stop(scan.hi)
    /\ data' = IF BehindPivot(scan.hi) THEN data ELSE Swapped(scan.hi, scan.pivot)
    /\ todo' = Pushed(Part(scan.lo, scan.hi), todo)
    /\ scan' = NoScan
    /\ UNCHANGED <<mode, input>>

\* All but perhaps the last row go before it.
SplitLast ==
    /\ scan.on /\ scan.b >= scan.e
    /\ Stop(scan.hi)
    /\ data' = IF BehindPivot(scan.hi) THEN data ELSE Swapped(scan.hi, scan.pivot)
    /\ todo' = Pushed(Part(scan.lo, scan.hi - 1), todo)
    /\ scan' = NoScan
    /\ UNCHANGED <<mode, input>>

\* The range falls in two; a right part as large as the range is not sorted.
Split ==
    /\ scan.on /\ scan.b >= scan.e
    /\ \E b \in scan.b..scan.hi - 1 :
        /\ Stop(b)
        /\ todo' = Pushed(Part(scan.lo, b - 1),
                          IF scan.lo # b THEN <<Part(b, scan.hi)>> \o todo ELSE todo)
    /\ scan' = NoScan
    /\ UNCHANGED <<mode, input, data>>

SortNext == Begin \/ Keep \/ Exchange \/ Exhaust \/ SplitLast \/ Split

SortSpec == SortInit /\ [][SortNext]_sortVars /\ WF_sortVars(SortNext)

-----------------------------------------------------------------------------

Done == todo = <<>> /\ ~scan.on

\* Type invariant of the sort.
SortTypeOK ==
    /\ mode \in Modes
    /\ input \in Seq([key : Keys, from : Nat]) /\ N <= MaxLen
    /\ data \in [1..N -> [key : Keys, from : 1..N]]
    /\ todo \in Seq([lo : 1..N, hi : 1..N])
    /\ scan = NoScan \/ scan \in [on : {TRUE}, lo : 1..N, hi : 1..N, b : 1..N, e : 1..N,
                                  pivot : 1..N]

\* `assert(b == e)` (hfdb_index.c:176): the bounds never cross.
BoundsMeet == scan.on => scan.b <= scan.e

\* No row is lost or doubled by the exchanges.
KeepsRows == \A i \in 1..N : \E j \in 1..N : data[j] = input[i]

\* What is left to sort lies in the ranges to come: rows of no common range are
\* in order, so that with no range left all are.
Ranges == {todo[k] : k \in DOMAIN todo}
          \cup (IF scan.on THEN {Part(scan.lo, scan.hi)} ELSE {})
InOrder ==
    \A i, j \in 1..N :
        i < j => \/ ~Behind(data[i], data[j])
                 \/ \E r \in Ranges : {i, j} \subseteq r.lo..r.hi

\* Which, when none is left, is an index that FDBIndexCursorToBegin can search.
DeliversIndex == Done => IndexFile([i \in 1..N |-> data[i].key])

\* The sort comes to an end.
SortEnds == <>Done

-----------------------------------------------------------------------------
(* The inductive invariant.                                                *)

Apart(r, s) == r.hi < s.lo \/ s.hi < r.lo

\* The ranges to come, the one in hand included, have no row in common.
RangesApart ==
    /\ \A k \in DOMAIN todo : todo[k].lo < todo[k].hi
    /\ \A k, l \in DOMAIN todo : k # l => Apart(todo[k], todo[l])
    /\ scan.on => \A k \in DOMAIN todo : Apart(todo[k], scan)

\* Rows before the bound b are not behind the pivot, rows after the bound e are,
\* and the pivot, wherever it has moved, is not among the latter.
ScanInv ==
    scan.on =>
        /\ scan.lo < scan.hi
        /\ scan.lo <= scan.b /\ scan.b <= scan.e /\ scan.e <= scan.hi
        /\ scan.pivot \in scan.lo..scan.e
        /\ \A i \in scan.lo..scan.b - 1 : ~BehindPivot(i)
        /\ \A i \in scan.e + 1..scan.hi : BehindPivot(i)

SortInv ==
    /\ SortTypeOK
    /\ KeepsRows
    /\ InOrder
    /\ RangesApart
    /\ ScanInv
=============================================================================
