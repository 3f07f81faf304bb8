-------------------------------- MODULE FDB --------------------------------
(***************************************************************************)
(* The table half of the FDB store, src/vTeam/c/db/hfdb.c: one ".db" file  *)
(* (class record with lastRowid, then fixed-size rows) shared by programs  *)
(* that each hold one FDB handle and one FDBCursor.                        *)
(*                                                                         *)
(* A row's position in the file is the only index there is: the rowid      *)
(* stored in a row is a number taken from the handle's private copy of the *)
(* class, and FDBCursorToRowid turns a rowid back into a position.  What   *)
(* the file holds, what each handle believes, and what each cursor window  *)
(* has buffered are therefore three copies that calls must keep in step.   *)
(*                                                                         *)
(* Writers hold flock(LOCK_EX) between the class write and the row write;  *)
(* a cursor reads its window under LOCK_SH in one step; FDBOpen and        *)
(* FDBRowCount take no lock.                                               *)
(***************************************************************************)
EXTENDS Integers, Sequences

CONSTANTS
    Handles,    (* one per program that opens the table                    *)
    Writers,    (* the handles that call FDBInsertData or FDBInsert        *)
    Calls,      (* Calls[h]: which of the cursor calls the program makes   *)
    NoHandle,   (* the holder of the exclusive lock when nobody holds it   *)
    Window,     (* rows a cursor buffers: FDBData.length                   *)
    Wrap,       (* 2^32 scaled down: the modulus of huint32 counters       *)
    MaxBatch,   (* bound: rows of one FDBInsertData                        *)
    MaxRows,    (* bound: rows in the file                                 *)
    MaxRowid    (* bound: rowids handed out                                *)

ASSUME FDBAssumption ==
    /\ Writers \subseteq Handles
    /\ NoHandle \notin Handles
    /\ Calls \in [Handles -> SUBSET {"next", "rowid", "commit"}]
    /\ Window \in Nat \ {0}
    /\ MaxBatch \in Nat /\ MaxRows \in Nat /\ MaxRowid \in Nat
    /\ Wrap \in Nat /\ Wrap > MaxRows + MaxRowid + Window

VARIABLES
    lastRowid,  (* on disk: FDBClass.lastRowid                             *)
    rows,       (* on disk: the whole rows after the class                 *)
    frag,       (* on disk: part of a row follows the last whole row       *)
    lock,       (* the handle that holds LOCK_EX on the file               *)
    hdl,        (* hdl[h]: the FDB structure behind a handle               *)
    ins,        (* ins[h]: the insert call in progress                     *)
    cur,        (* cur[h]: the FDBCursor                                   *)
    out,        (* out[h]: what the last cursor call gave its caller       *)
    torn        (* ghost: some rowid was recorded without its row          *)

disk == <<lastRowid, rows, frag, torn>>
vars == <<lastRowid, rows, frag, lock, hdl, ins, cur, out, torn>>

\* A row stands for its rowid property, the one the store itself writes and
\* looks rows up by.  A hole in the file reads as zeros; bytes that are no row
\* (fresh memory, a torn row, a read across two rows) are Garbage.
Unset   == 0
Garbage == -1
Row     == Nat \cup {Garbage}

\* hdl.open is FALSE while the program has no FDB; rowCount -1 is "not cached".
Closed       == [open |-> FALSE, lastRowid |-> 0, rowCount |-> -1]
Opened(last) == [open |-> TRUE, lastRowid |-> last, rowCount |-> -1]

Idle == [pc |-> "idle", first |-> 0, n |-> 0, api |-> "data"]

\* A cursor before its first read; its window is fresh malloc memory.
NewCursor == [data |-> [j \in 1..Window |-> Garbage],
              location |-> 0, index |-> 0, length |-> 0]

\* out.asked is the rowid a "row" was asked for, 0 when it comes from a scan.
\* out.unread is a ghost: the read() behind the answer failed, and the caller has
\* no way to see it.
Told(kind, row, asked) == [kind |-> kind, row |-> row, asked |-> asked, unread |-> FALSE]
Unread(row, asked)     == [kind |-> "row", row |-> row, asked |-> asked, unread |-> TRUE]
Nothing == Told("none", Garbage, 0)

Init ==
    /\ lastRowid = 0 /\ rows = <<>> /\ frag = FALSE /\ torn = FALSE
    /\ lock = NoHandle
    /\ hdl = [h \in Handles |-> Closed]
    /\ ins = [h \in Handles |-> Idle]
    /\ cur = [h \in Handles |-> NewCursor]
    /\ out = [h \in Handles |-> Nothing]

\* A program is sequential: no other call while an insert is under way, and
\* none while FDBCursorNext is still skipping rows its filter refused.
Free(h)      == hdl[h].open /\ ins[h].pc = "idle" /\ out[h].kind # "skip"
Scanning(h)  == hdl[h].open /\ ins[h].pc = "idle"

-----------------------------------------------------------------------------
(* Opening and closing.                                                    *)

\* FDBCreate truncates both files and writes a class whose lastRowid is the 0
\* FDBClassInitialize gave it.  fdbgen does so before anyone opens the table.
Create(h) ==
    /\ h \in Writers
    /\ \A g \in Handles : ~hdl[g].open
    /\ lastRowid' = 0 /\ rows' = <<>> /\ frag' = FALSE /\ torn' = FALSE
    /\ hdl' = [hdl EXCEPT ![h] = Opened(0)]
    /\ UNCHANGED <<lock, ins, cur, out>>

\* FDBOpen copies the class, lastRowid with it, without taking the lock.
Open(h) ==
    /\ ~hdl[h].open
    /\ hdl' = [hdl EXCEPT ![h] = Opened(lastRowid)]
    /\ UNCHANGED <<disk, lock, ins, cur, out>>

\* The handle and its cursor are gone.
Forget(h) ==
    /\ hdl' = [hdl EXCEPT ![h] = Closed]
    /\ ins' = [ins EXCEPT ![h] = Idle]
    /\ cur' = [cur EXCEPT ![h] = NewCursor]
    /\ out' = [out EXCEPT ![h] = Nothing]

Close(h) ==
    /\ Free(h)
    /\ Forget(h)
    /\ UNCHANGED <<disk, lock>>

\* The process dies at any point; the kernel drops its flock.
Crash(h) ==
    /\ hdl[h].open
    /\ Forget(h)
    /\ lock' = IF lock = h THEN NoHandle ELSE lock
    /\ torn' = (torn \/ ins[h].pc = "class")
    /\ UNCHANGED <<lastRowid, rows, frag>>

\* Mutant of Counted: a part of a row counts.
CountedUp(h) ==
    IF hdl[h].rowCount = -1 THEN Len(rows) + (IF frag THEN 1 ELSE 0) ELSE hdl[h].rowCount

\* FDBRowCount: stat() rounded down to whole rows, cached until an FDBInsert.
Counted(h) == IF hdl[h].rowCount = -1 THEN Len(rows) ELSE hdl[h].rowCount

RowCount(h) ==
    /\ "rowid" \in Calls[h] /\ Free(h)
    /\ hdl' = [hdl EXCEPT ![h].rowCount = Counted(h)]
    /\ UNCHANGED <<disk, lock, ins, cur, out>>

-----------------------------------------------------------------------------
(* FDBInsertData (api "data") and FDBInsert (api "one").                   *)

\* Rowids are taken from the handle's own lastRowid before the lock.
InsertBegin(h) ==
    /\ h \in Writers /\ Free(h)
    /\ \E api \in {"data", "one"}, n \in 1..MaxBatch :
        /\ api = "one" => n = 1
        /\ hdl[h].lastRowid + n <= MaxRowid
        /\ Len(rows) + n <= MaxRows
        /\ ins' = [ins EXCEPT ![h] = [pc |-> "numbered", first |-> hdl[h].lastRowid + 1,
                                      n |-> n, api |-> api]]
        /\ hdl' = IF api = "one" THEN [hdl EXCEPT ![h].rowCount = -1] ELSE hdl
    /\ UNCHANGED <<disk, lock, cur, out>>

Claimed(h) == ins[h].first + ins[h].n - 1

\* flock(LOCK_EX), then the class with the new lastRowid.
InsertClass(h) ==
    /\ ins[h].pc = "numbered" /\ lock = NoHandle
    /\ lock' = h
    /\ lastRowid' = Claimed(h)
    /\ hdl' = [hdl EXCEPT ![h].lastRowid = Claimed(h)]
    /\ ins' = [ins EXCEPT ![h].pc = "class"]
    /\ UNCHANGED <<rows, frag, torn, cur, out>>

\* Mutant of InsertClassFails: what was never added is taken back.
InsertClassFailsSubtracts(h) ==
    /\ ins[h].pc = "numbered" /\ lock = NoHandle
    /\ UNCHANGED <<lastRowid, rows, frag, torn, lock, cur, out>>
    /\ hdl' = [hdl EXCEPT ![h].lastRowid = @ - ins[h].n]
    /\ ins' = [ins EXCEPT ![h] = Idle]

\* open() fails before the lock is asked for, or the class write does under it:
\* the handle's lastRowid is put back, the file may already hold the new one.
InsertClassFails(h) ==
    /\ ins[h].pc = "numbered"
    /\ \/ UNCHANGED lastRowid
       \/ lock = NoHandle /\ lastRowid' = Claimed(h)
    /\ torn' = (torn \/ lastRowid' # lastRowid)
    /\ ins' = [ins EXCEPT ![h] = Idle]
    /\ UNCHANGED <<rows, frag, lock, hdl, cur, out>>

\* Mutant of Batch: rowid ++ for ++ rowid.
BatchFromLast(h) ==
    [i \in 1..ins[h].n |->
        IF ins[h].api = "data" THEN ins[h].first + i - 2 ELSE Unset]

\* FDBInsertData numbered the rows; FDBInsert passes its arguments to
\* FDBClassSetPropertyInt32Value in the wrong order and leaves the row's rowid
\* as the caller had it, which is zero after FDBDataClear.
Batch(h) ==
    [i \in 1..ins[h].n |->
        IF ins[h].api = "data" THEN ins[h].first + i - 1 ELSE Unset]

\* Rows appended behind a fragment straddle the row grid.
Framed(batch) == IF frag THEN [i \in DOMAIN batch |-> Garbage] ELSE batch

InsertRows(h) ==
    /\ ins[h].pc = "class"
    /\ rows' = rows \o Framed(Batch(h))
    /\ lock' = NoHandle
    /\ ins' = [ins EXCEPT ![h] = Idle]
    /\ UNCHANGED <<lastRowid, frag, torn, hdl, cur, out>>

\* Mutants of InsertRowsFails: the failed insert's rowids are handed out again;
\* an early return without flock(LOCK_UN).
InsertRowsFailsRestores(h) ==
    /\ ins[h].pc = "class"
    /\ \E k \in 0..(ins[h].n - 1) : rows' = rows \o SubSeq(Batch(h), 1, k)
    /\ torn' = TRUE
    /\ lock' = NoHandle
    /\ ins' = [ins EXCEPT ![h] = Idle]
    /\ hdl' = [hdl EXCEPT ![h].lastRowid = ins[h].first - 1]
    /\ UNCHANGED <<lastRowid, frag, cur, out>>

InsertRowsFailsHoldsLock(h) ==
    /\ ins[h].pc = "class"
    /\ torn' = TRUE
    /\ ins' = [ins EXCEPT ![h] = Idle]
    /\ UNCHANGED <<lastRowid, rows, frag, lock, hdl, cur, out>>

\* A short write: k whole rows arrive and perhaps part of another.  Behind a
\* fragment that part may complete one more (misframed) row.
InsertRowsFails(h) ==
    /\ ins[h].pc = "class"
    /\ \E k \in 0..(ins[h].n - 1), c \in {0, 1} :
        /\ c = 1 => frag
        /\ frag' \in BOOLEAN
        /\ (frag /\ c = 0) => frag'
        /\ rows' = rows \o (IF frag THEN [i \in 1..(k + c) |-> Garbage]
                                    ELSE SubSeq(Batch(h), 1, k))
    /\ torn' = TRUE
    /\ lock' = NoHandle
    /\ ins' = [ins EXCEPT ![h] = Idle]
    /\ UNCHANGED <<lastRowid, hdl, cur, out>>

-----------------------------------------------------------------------------
(* Cursors.                                                                *)

\* A program drops its cursor and starts another query.
Query(h) ==
    /\ "next" \in Calls[h] /\ Free(h)
    /\ cur' = [cur EXCEPT ![h] = NewCursor]
    /\ out' = [out EXCEPT ![h] = Nothing]
    /\ UNCHANGED <<disk, lock, hdl, ins>>

\* read() of up to Window rows behind row `loc`: the rest of the buffer stays.
Readable(loc) ==
    IF Len(rows) <= loc THEN 0
    ELSE IF Len(rows) - loc < Window THEN Len(rows) - loc ELSE Window

\* Mutant of Filled: the index of the old window survives.
FilledKeepsIndex(c, loc) ==
    [data     |-> [j \in 1..Window |->
                      IF j <= Readable(loc) THEN rows[loc + j] ELSE c.data[j]],
     location |-> loc,
     index    |-> c.index,
     length   |-> Readable(loc)]

Filled(c, loc) ==
    [data     |-> [j \in 1..Window |->
                      IF j <= Readable(loc) THEN rows[loc + j] ELSE c.data[j]],
     location |-> loc,
     index    |-> 0,
     length   |-> Readable(loc)]

\* FDBDataItemAt at the cursor's index; outside the buffer it is NULL.
HasItem(c) == c.index < Window
ItemAt(c)  == IF HasItem(c) THEN c.data[c.index + 1] ELSE Garbage
Stepped(c) == [data     |-> c.data,
               location |-> c.location,
               index    |-> c.index + 1,
               length   |-> (c.length + Wrap - 1) % Wrap]

\* Mutant of Fetched: the same window again.
FetchedAgain(h) ==
    IF cur[h].length = 0 THEN Filled(cur[h], cur[h].location) ELSE cur[h]

\* The window a turn of FDBCursorNext's loop looks at.
Fetched(h) ==
    IF cur[h].length = 0 THEN Filled(cur[h], cur[h].location + cur[h].index) ELSE cur[h]

\* One turn of the loop that finds an item: the filter takes it ("row") or
\* refuses it and the call goes on ("skip").
NextItem(h) ==
    /\ "next" \in Calls[h] /\ Scanning(h)
    /\ cur[h].length = 0 => lock = NoHandle
    /\ Fetched(h).length # 0
    /\ cur' = [cur EXCEPT ![h] = Stepped(Fetched(h))]
    /\ \E kind \in {"row", "skip"} :
        out' = [out EXCEPT ![h] = IF HasItem(Fetched(h))
                                  THEN Told(kind, ItemAt(Fetched(h)), 0)
                                  ELSE Told(IF kind = "row" THEN "end" ELSE "skip", Garbage, 0)]
    /\ UNCHANGED <<disk, lock, hdl, ins>>

\* The refill reads nothing and FDBCursorNext returns NULL.
NextEnd(h) ==
    /\ "next" \in Calls[h] /\ Scanning(h)
    /\ lock = NoHandle
    /\ Fetched(h).length = 0
    /\ cur' = [cur EXCEPT ![h] = Fetched(h)]
    /\ out' = [out EXCEPT ![h] = Told("end", Garbage, 0)]
    /\ UNCHANGED <<disk, lock, hdl, ins>>

\* A window whose read() failed.
Emptied(data, loc) == [data |-> data, location |-> loc, index |-> 0, length |-> 0]

\* open() or read() fails and the caller gets the same NULL as at the end: the
\* cursor keeps its place, as it was or with the window dropped.
NextFails(h) ==
    /\ "next" \in Calls[h] /\ Scanning(h)
    /\ cur[h].length = 0
    /\ \/ UNCHANGED cur
       \/ /\ lock = NoHandle
          /\ cur' = [cur EXCEPT ![h] = Emptied(cur[h].data, cur[h].location + cur[h].index)]
    /\ out' = [out EXCEPT ![h] = Told("fail", Garbage, 0)]
    /\ UNCHANGED <<disk, lock, hdl, ins>>

\* Mutant of InWindow: <= for <.
InWindowInclusive(c, r) ==
    /\ r - 1 >= c.location
    /\ r - 1 <= (c.location + c.index + c.length) % Wrap

\* Is row r in the window?  (The sum wraps: huint32.)
InWindow(c, r) ==
    /\ r - 1 >= c.location
    /\ r - 1 < (c.location + c.index + c.length) % Wrap

\* FDBCursorToRowid for a rowid found in the table, as an index gives it.  Its
\* range test can refuse no positive rowid, and what the read returned is not
\* looked at: past the end the item is whatever the buffer held, and length
\* goes below zero.
ToRowid(h) ==
    /\ "rowid" \in Calls[h] /\ Free(h)
    /\ \E r \in {rows[i] : i \in DOMAIN rows} \ {Unset, Garbage} :
        LET c == cur[h]
            w == IF InWindow(c, r)
                 THEN [c EXCEPT !.index  = r - 1 - c.location,
                                !.length = (c.location + c.index + c.length - (r - 1)) % Wrap]
                 ELSE Filled(c, r - 1)
        IN  /\ InWindow(c, r) \/ lock = NoHandle
            /\ cur' = [cur EXCEPT ![h] = Stepped(w)]
            /\ out' = [out EXCEPT ![h] = Told("row", ItemAt(w), r)]
    /\ hdl' = [hdl EXCEPT ![h].rowCount = Counted(h)]
    /\ UNCHANGED <<disk, lock, ins>>

\* The same call when its open() fails, which leaves the cursor alone and gives
\* NULL, or its read() does, which gives the first item of the old window as if
\* it were the row asked for.
ToRowidFails(h) ==
    /\ "rowid" \in Calls[h] /\ Free(h)
    /\ \E r \in {rows[i] : i \in DOMAIN rows} \ {Unset, Garbage} :
        LET w == Emptied(cur[h].data, r - 1)
        IN  /\ ~InWindow(cur[h], r)
            /\ \/ /\ cur' = cur
                  /\ out' = [out EXCEPT ![h] = Told("fail", Garbage, 0)]
               \/ /\ lock = NoHandle
                  /\ cur' = [cur EXCEPT ![h] = Stepped(w)]
                  /\ out' = [out EXCEPT ![h] = Unread(ItemAt(w), r)]
    /\ hdl' = [hdl EXCEPT ![h].rowCount = Counted(h)]
    /\ UNCHANGED <<disk, lock, ins>>

\* write() of one row at position p, which may lie past the end of the file.
Written(p, row) ==
    [i \in 1..(IF p > Len(rows) THEN p ELSE Len(rows)) |->
        IF i = p THEN row
        ELSE IF i <= Len(rows) THEN rows[i]
        ELSE IF frag /\ i = Len(rows) + 1 THEN Garbage ELSE Unset]

\* FDBCursorCommit writes the item the cursor gave out last back to where the
\* cursor says it came from.  The caller has changed its other properties.
Commit(h) ==
    LET c == cur[h]
        p == c.location + c.index
    IN  /\ "commit" \in Calls[h] /\ Free(h) /\ lock = NoHandle
        /\ c.index # 0 /\ c.index <= Window
        /\ p <= MaxRows
        /\ rows' = Written(p, c.data[c.index])
        /\ frag' = (frag /\ p <= Len(rows))
        /\ UNCHANGED <<lastRowid, torn, lock, hdl, ins, cur, out>>

\* Its write() is cut short: a row in the file is left a mix of two rows, which
\* has its rowid still if they are the same row; one past the end leaves the
\* hole and a fragment.
CommitFails(h) ==
    LET c == cur[h]
        p == c.location + c.index
        item == c.data[c.index]
    IN  /\ "commit" \in Calls[h] /\ Free(h) /\ lock = NoHandle
        /\ c.index # 0 /\ c.index <= Window
        /\ p <= MaxRows
        /\ \E left \in {item, Garbage} :
            /\ p <= Len(rows) /\ rows[p] = item => left = item
            /\ rows' = IF p <= Len(rows) THEN Written(p, left)
                       ELSE SubSeq(Written(p, left), 1, p - 1)
        /\ frag' = (frag \/ p > Len(rows))
        /\ UNCHANGED <<lastRowid, torn, lock, hdl, ins, cur, out>>

-----------------------------------------------------------------------------

Insert(h) ==
    \/ InsertBegin(h)
    \/ InsertClass(h)
    \/ InsertClassFails(h)
    \/ InsertRows(h)
    \/ InsertRowsFails(h)

Next ==
    \E h \in Handles :
        \/ Create(h) \/ Open(h) \/ Close(h) \/ Crash(h) \/ RowCount(h)
        \/ Insert(h)
        \/ Query(h) \/ NextItem(h) \/ NextEnd(h) \/ NextFails(h)
        \/ ToRowid(h) \/ ToRowidFails(h) \/ Commit(h) \/ CommitFails(h)

Spec == Init /\ [][Next]_vars

\* `assert(dataItem)` of FDBCursorCommit (hfdb.c:933): wherever a program may
\* call it, the buffer has the item the call would write.
CommitFindsItem ==
    \A h \in Handles :
        "commit" \in Calls[h] /\ Free(h) /\ cur[h].index # 0 => cur[h].index <= Window

\* A cached row count never counts a row the file does not hold, torn rows at
\* its end included (FDBRowCount, hfdb.c:447-462).
RowCountNeverOverstates ==
    \A h \in Handles : hdl[h].rowCount <= Len(rows)

\* write() returns: an insert that holds the lock goes on to its row write.
Fairness == \A h \in Handles : WF_vars(InsertRows(h) \/ InsertRowsFails(h))

FairSpec == Spec /\ Fairness
=============================================================================
