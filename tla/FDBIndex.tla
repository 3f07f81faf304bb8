------------------------------ MODULE FDBIndex ------------------------------
(***************************************************************************)
(* A query over an FDB index file, src/vTeam/c/db/hfdb_index.c: the rows   *)
(* lie sorted by one key, and a cursor that buffers Window rows at a time  *)
(* looks for the first row of a query (FDBIndexCursorToBegin) and hands    *)
(* out the rows from there on (FDBIndexCursorToNext), as VTFDBIndexCursor  *)
(* calls them.                                                             *)
(*                                                                         *)
(* The file is written once, by fdbgen, from the rows FDBIndexSort put in  *)
(* order, and does not change under a query.  A search holds flock(LOCK_SH)*)
(* throughout; nobody takes LOCK_EX on an index, so the lock is left out.  *)
(***************************************************************************)
EXTENDS FDBIndexRows, FiniteSets

CONSTANTS
    Window,     (* rows a cursor buffers: FDBIndexData.size                *)
    Wide        (* 2^32 scaled down                                        *)

ASSUME FDBIndexAssumption ==
    /\ Window \in Nat \ {0}
    /\ Wide \in Nat /\ \A k \in Keys : -Wide <= 2 * k /\ 2 * k < Wide

VARIABLES
    index,      (* the file: the keys of its rows                          *)
    cur,        (* the FDBIndexCursor: location, index, length             *)
    query,      (* what the cursor was made to look for                    *)
    search,     (* the FDBIndexCursorToBegin in progress: pc, b, e         *)
    out,        (* what the last call gave: a row's place, or no row       *)
    given       (* ghost: the places of all rows the cursor gave           *)

vars == <<index, mode, cur, query, search, out, given>>

\* The key of the row at place p, counted from zero as in the code.
Key(p) == index[p + 1]
RowCount == Len(index)

\* A query takes all rows, or those with a key in lo..hi: one key for an equal
\* match, a range of them for a string prefix.  `is` is the property's type.
AllRows == [is |-> "all", lo |-> 0, hi |-> 0]
Queries ==
    {AllRows}
    \cup {[is |-> t, lo |-> k, hi |-> k] : t \in {"Int32", "Int64", "String"}, k \in Keys}
    \cup {[is |-> "String", lo |-> k, hi |-> k + 1] : k \in Keys}

Fresh == [location |-> 0, index |-> 0, length |-> 0]
Resting == [pc |-> "idle", b |-> 0, e |-> 0]
New   == [pc |-> "new", b |-> 0, e |-> 0]

\* NULL is one answer in the code; here it tells its cause.
Row(p) == [kind |-> "row", place |-> p]
Miss   == [kind |-> "miss", place |-> -1]
NoRow  == [kind |-> "end", place |-> -1]
Failed == [kind |-> "fail", place |-> -1]

Init ==
    /\ mode \in Modes
    /\ IndexFile(index)
    /\ query \in Queries
    /\ cur = Fresh /\ search = New /\ out = NoRow /\ given = <<>>

-----------------------------------------------------------------------------
(* Comparing a row with the query.                                         *)

\* The Int32 case falls into the Int64 case, which reads the union as eight
\* bytes: a negative 32-bit key is compared as the same bits without its sign.
Low  == IF query.is = "Int32" /\ query.lo < 0 THEN query.lo + Wide ELSE query.lo
High == Low + query.hi - query.lo

Matches(k) == k \in Low..High

\* FDBIndexCursorToNextPropertysCompare: where row p lies from the query.
Same(p) == Matches(Key(p))
Asc(p)  == ~Same(p) /\ Precedes(Key(p), Low)
Desc(p) == ~Same(p) /\ ~Precedes(Key(p), Low)

-----------------------------------------------------------------------------
(* FDBIndexCursorToBegin.                                                  *)

Rest(o) ==
    /\ search' = Resting
    /\ out' = o
    /\ given' = IF o.kind = "row" THEN Append(given, o.place) ELSE given
    /\ UNCHANGED <<index, mode, query>>

\* min(Window, the rows behind loc): what a read there returns.
Readable(loc) ==
    IF RowCount - loc < Window THEN IF RowCount < loc THEN 0 ELSE RowCount - loc ELSE Window

\* A query of all rows reads the first window and gives its first row.
BeginAll ==
    /\ search.pc = "new" /\ query = AllRows /\ RowCount > 0
    /\ cur' = [location |-> 0, index |-> 1, length |-> Readable(0) - 1]
    /\ Rest(Row(0))

BeginEmpty ==
    /\ search.pc = "new" /\ RowCount = 0
    /\ Rest(Miss)
    /\ UNCHANGED cur

BeginSearch ==
    /\ search.pc = "new" /\ query # AllRows /\ RowCount > 0
    /\ cur' = Fresh
    /\ search' = [pc |-> "window", b |-> 0, e |-> RowCount - 1]
    /\ UNCHANGED <<index, mode, query, out, given>>

\* Mutant of Whole: < for <=.
WholeAndMore(loc) == loc + Window < RowCount

\* The search reads whole windows only.
Whole(loc) == loc + Window <= RowCount

\* It ends without a row where no whole window is left, or its read fails.
MissShort ==
    /\ search.pc = "window" /\ ~Whole(cur.location)
    /\ Rest(Miss)
    /\ UNCHANGED cur

BeginFails ==
    /\ \/ search.pc = "window"
       \/ search.pc = "new" /\ query = AllRows /\ RowCount > 0
    /\ cur' = [location |-> cur.location, index |-> 0, length |-> 0]
    /\ Rest(Failed)

AtWindow == search.pc = "window" /\ Whole(cur.location)
First == cur.location
Last  == cur.location + Window - 1

Reading(loc) == [location |-> loc, index |-> 0, length |-> 0]
Loaded       == [location |-> cur.location, index |-> 0, length |-> Window]

\* The window starts behind the query's first row: look at the one before it.
StepBack ==
    /\ AtWindow /\ cur.location # 0 /\ ~Asc(First)
    /\ cur' = Reading(IF cur.location < Window THEN 0 ELSE cur.location - Window)
    /\ search' = [search EXCEPT !.e = cur.location]
    /\ UNCHANGED <<index, mode, query, out, given>>

\* Mutant of StepOn: the location is not moved.
StepOnStays ==
    /\ AtWindow /\ Asc(First) /\ Asc(Last)
    /\ cur' = Reading(First)
    /\ search' = [search EXCEPT !.b = First]
    /\ UNCHANGED <<index, mode, query, out, given>>

\* It ends before the query's first row: look at the next one.
StepOn ==
    /\ AtWindow /\ Asc(First) /\ Asc(Last)
    /\ LET next == IF Last + 1 >= RowCount THEN RowCount - 1 ELSE Last + 1
       IN  /\ cur' = Reading(next)
           /\ search' = [search EXCEPT !.b = next]
    /\ UNCHANGED <<index, mode, query, out, given>>

\* The first row of all is past the query.
MissBefore ==
    /\ AtWindow /\ cur.location = 0 /\ Desc(First)
    /\ cur' = Loaded
    /\ Rest(Miss)

\* Mutant of Inside: the bounds are kept when the first row matches.
InsideKeepsBounds ==
    /\ AtWindow
    /\ \/ cur.location = 0 /\ Same(First) /\ search' = [search EXCEPT !.pc = "bisect"]
       \/ Asc(First) /\ ~Asc(Last) /\ search' = [pc |-> "bisect", b |-> First, e |-> Last]
    /\ cur' = Loaded
    /\ UNCHANGED <<index, mode, query, out, given>>

\* The query's first row is in the window: bisect it.
Inside ==
    /\ AtWindow
    /\ \/ cur.location = 0 /\ Same(First) /\ search' = [pc |-> "bisect", b |-> 0, e |-> 0]
       \/ Asc(First) /\ ~Asc(Last) /\ search' = [pc |-> "bisect", b |-> First, e |-> Last]
    /\ cur' = Loaded
    /\ UNCHANGED <<index, mode, query, out, given>>

Middle == (search.b + search.e) \div 2

Bisecting == search.pc = "bisect" /\ search.b <= search.e

\* A matching row is the first one only when the bounds have met at it.
Narrow ==
    /\ Bisecting
    /\ \/ Asc(Middle) /\ search' = [search EXCEPT !.b = Middle + 1]
       \/ Desc(Middle) /\ search' = [search EXCEPT !.e = Middle - 1]
       \/ Same(Middle) /\ search.b # Middle /\ search' = [search EXCEPT !.e = Middle]
    /\ UNCHANGED <<index, mode, cur, query, out, given>>

\* Mutants of Found: the window is stepped twice; any matching row will do.
FoundTwice ==
    /\ Bisecting /\ Same(Middle) /\ search.b = Middle
    /\ LET i == Middle - cur.location
       IN  cur' = [cur EXCEPT !.index = i + 2, !.length = cur.length - i - 2]
    /\ Rest(Row(Middle))

FoundAny ==
    /\ Bisecting /\ Same(Middle)
    /\ LET i == Middle - cur.location
       IN  cur' = [cur EXCEPT !.index = i + 1, !.length = cur.length - i - 1]
    /\ Rest(Row(Middle))

Found ==
    /\ Bisecting /\ Same(Middle) /\ search.b = Middle
    /\ LET i == Middle - cur.location
       IN  cur' = [cur EXCEPT !.index = i + 1, !.length = cur.length - i - 1]
    /\ Rest(Row(Middle))

MissInside ==
    /\ search.pc = "bisect" /\ search.b > search.e
    /\ Rest(Miss)
    /\ UNCHANGED cur

-----------------------------------------------------------------------------
(* FDBIndexCursorToNext.                                                   *)

\* Mutant of Refilled: the refill forgets how far the old window was used.
RefilledSame ==
    IF cur.length # 0 THEN cur
    ELSE [location |-> cur.location, index |-> 0, length |-> Readable(cur.location)]

\* The window it takes the row from, refilled when it is used up.
Refilled ==
    IF cur.length # 0 THEN cur
    ELSE [location |-> cur.location + cur.index, index |-> 0,
          length |-> Readable(cur.location + cur.index)]

\* A row that the query does not match is stepped over and answered with NULL.
ToNext ==
    LET w == Refilled
        p == w.location + w.index
    IN  /\ search.pc = "idle" /\ w.length # 0
        /\ cur' = [w EXCEPT !.index = @ + 1, !.length = @ - 1]
        /\ Rest(IF query = AllRows \/ Same(p) THEN Row(p) ELSE NoRow)

NextEnd ==
    /\ search.pc = "idle" /\ Refilled.length = 0
    /\ cur' = Refilled
    /\ Rest(NoRow)

NextFails ==
    /\ search.pc = "idle" /\ cur.length = 0
    /\ cur' = Reading(cur.location + cur.index)
    /\ Rest(Failed)

Searching ==
    \/ BeginAll \/ BeginEmpty \/ BeginSearch
    \/ MissShort \/ StepBack \/ StepOn \/ MissBefore \/ Inside
    \/ Narrow \/ Found \/ MissInside

Next == Searching \/ BeginFails \/ ToNext \/ NextEnd \/ NextFails

Spec == Init /\ [][Next]_vars

\* A search is a loop of the process that asked for it: it takes its steps, and
\* need not fail.
FairSpec == Spec /\ WF_vars(Searching)

-----------------------------------------------------------------------------

\* Type invariant of an index cursor and the call that moves it.
TypeOK ==
    /\ mode \in Modes
    /\ index \in Seq(Keys)
    /\ query \in Queries
    /\ cur \in [location : Nat, index : Nat, length : 0..Window]
    /\ search \in [pc : {"new", "window", "bisect", "idle"}, b : Nat, e : Int]
    /\ out \in {Miss, NoRow, Failed} \cup {Row(p) : p \in 0..(RowCount - 1)}
    /\ given \in Seq(0..(RowCount - 1))

\* `assert(i >= cursor->location && i < ...)` (hfdb_index.c:790): the bounds of
\* the bisection never leave the window in memory, though the windows before it
\* moved them.
ProbeInWindow ==
    Bisecting => Middle \in cur.location..(cur.location + cur.length - 1)

\* The rows the caller wants, by their places.
Wanted == {p \in 0..(RowCount - 1) : query = AllRows \/ Key(p) \in query.lo..query.hi}

\* The rows a cursor gives are the wanted ones from the first of them on,
\* each once and in the order of the file, across windows and failed reads
\* (FDBIndexCursorToBegin and FDBIndexCursorToNext).
GivesWantedInOrder ==
    \A j \in DOMAIN given :
        /\ given[j] \in Wanted
        /\ \A i \in 1..j - 1 : given[i] < given[j]
        /\ Wanted \cap 0..given[j] = {given[i] : i \in 1..j}

\* A NULL behind a row means that the wanted rows are used up.
EndIsEnd ==
    out = NoRow /\ given # <<>> => Len(given) = Cardinality(Wanted)

\* A NULL at the beginning means that no row of a whole window is wanted; the
\* rows behind the last whole window are never searched, and a negative 32-bit
\* key is never found.
MissIsAbsent ==
    out = Miss
        /\ ~(query.is = "Int32" /\ query.lo < 0)
        => \A p \in Wanted : p >= RowCount - (RowCount % Window)

\* A search comes to an end unless the first row not before the query opens a
\* window other than the first: there StepBack and StepOn undo each other.
Before == Cardinality({p \in 0..(RowCount - 1) : Asc(p)})
OpensWindow == Before # 0 /\ Before % Window = 0 /\ Whole(Before)

SearchEnds == search.pc = "window" /\ ~OpensWindow ~> search.pc = "idle"

-----------------------------------------------------------------------------
(* The inductive invariant.                                                *)

Places == 0..(RowCount - 1)

\* The row at p is one the cursor gives, and it has given it.
Sought(p) == query = AllRows \/ Same(p)
Got(p) == \E j \in DOMAIN given : given[j] = p

\* Until the first row or miss nothing was given.
SearchInv ==
    /\ search.pc # "idle" => given = <<>> /\ out = NoRow
    /\ search.pc = "new" => cur = Fresh
    /\ search.pc \in {"window", "bisect"} => query # AllRows

\* The windows behind the search lie before the query; it stands at a multiple of
\* Window, but for a last step when all rows lie before the query.
WindowInv ==
    search.pc = "window" =>
        /\ cur.index = 0 /\ cur.length = 0 /\ cur.location < RowCount
        /\ \A p \in 0..cur.location - 1 : Asc(p)
        /\ cur.location % Window = 0 \/ \A p \in Places : Asc(p)

\* The bounds stay in the window in memory: rows before them lie before the query,
\* and rows behind them are past it unless the upper bound is at a match.
BisectInv ==
    search.pc = "bisect" =>
        /\ cur.index = 0 /\ cur.length = Window /\ cur.location + Window <= RowCount
        /\ cur.location <= search.b /\ search.e < cur.location + Window
        /\ \A p \in Places : p < search.b => Asc(p)
        /\ \/ search.b <= search.e /\ Same(search.e)
           \/ \A p \in Places : p > search.e => Desc(p)

\* The cursor gave what is sought before its place, in the order of the file.
GivenInv ==
    search.pc = "idle" =>
        /\ cur.location + cur.index + cur.length <= RowCount
        /\ \A p \in 0..(cur.location + cur.index - 1) : Sought(p) => Got(p)
        /\ \A j \in DOMAIN given : given[j] < cur.location + cur.index /\ Sought(given[j])
        /\ \A i, j \in DOMAIN given : i < j => given[i] < given[j]

\* Once it ended behind a row, that is all.
EndInv == out = NoRow /\ given # <<>> => \A p \in Places : Sought(p) => Got(p)

QueryInv ==
    /\ TypeOK /\ Sorted(index)
    /\ SearchInv /\ WindowInv /\ BisectInv
    /\ GivenInv /\ EndInv /\ MissIsAbsent
=============================================================================
