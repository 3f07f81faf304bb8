----------------------------- MODULE FDBClients -----------------------------
(***************************************************************************)
(* The FDB table as the programs of this repository use it, and what it    *)
(* gives them.  fdbgen/main.c is the one program that inserts; VTFDB.m     *)
(* reads rows by rowid through one cursor (dataItemOfRowid) and scans and  *)
(* commits through others (VTFDBCursor), never both through the same one.  *)
(***************************************************************************)
EXTENDS FDB

ASSUME ClientAssumption ==
    /\ \A w1, w2 \in Writers : w1 = w2
    /\ \A h \in Handles :
        "rowid" \in Calls[h] => Calls[h] = {"rowid"}

Scanners == {h \in Handles : "next" \in Calls[h]}

(* The type of the state.                                                  *)
HandleT == [open : BOOLEAN, lastRowid : Nat, rowCount : Nat \cup {-1}]
InsertT == {Idle} \cup [pc : {"numbered", "class"}, first : Nat \ {0}, n : Nat \ {0},
                       api : {"data", "one"}]
CursorT == [data : [1..Window -> Row], location : Nat, index : Nat, length : Nat]
AnswerT == [kind : {"none", "row", "skip", "end", "fail"}, row : Row, asked : Nat,
            unread : BOOLEAN]

\* Type invariant of hfdb.c's file, handles and cursors.
TypeOK ==
    /\ lastRowid \in Nat
    /\ rows \in Seq(Row)
    /\ frag \in BOOLEAN /\ torn \in BOOLEAN
    /\ lock \in Handles \cup {NoHandle}
    /\ hdl \in [Handles -> HandleT]
    /\ ins \in [Handles -> InsertT]
    /\ cur \in [Handles -> CursorT]
    /\ out \in [Handles -> AnswerT]

-----------------------------------------------------------------------------

\* As long as no insert failed between its class write and its row write, the
\* row at position i carries rowid i, or none when FDBInsert stored it: what
\* FDBCursorToRowid (hfdb.c:862) takes for granted.
RowidIsPosition ==
    ~torn => \A i \in DOMAIN rows : rows[i] \in {i, Unset}

\* Failed, short and interrupted inserts included, rowids in the file increase
\* and none exceeds the lastRowid on disk: no rowid is handed out twice,
\* whatever FDBInsertData (hfdb.c:496-519) puts back or leaves after a failure.
RowidsIncrease ==
    /\ \A i, j \in DOMAIN rows :
        i < j /\ rows[i] > 0 /\ rows[j] > 0
            => rows[i] < rows[j]
    /\ \A i \in DOMAIN rows : rows[i] <= lastRowid

\* The item dataItemOfRowid gives is the row asked for, through a window that
\* may be older than the file (FDBCursorToRowid, hfdb.c:828-839 and 862-893).
\* The one exception is the answer of a call whose own read() failed, which is a
\* row of the old window (hfdb.c:874-893); the calls behind it are right again.
SeekFindsRow ==
    \A h \in Handles :
        ~torn /\ ~out[h].unread /\ out[h].kind = "row" /\ out[h].asked > 0
            => out[h].row \in {out[h].asked, Unset}

\* Windowed scanning, with rows appended and committed meanwhile and inserts
\* failing anywhere, is a front-to-back scan of a growing table: no row is
\* skipped, repeated or mistaken for another, and NULL means the end.
Scan == INSTANCE FDBScan WITH
    table <- rows,
    pos   <- [s \in Scanners |-> cur[s].location + cur[s].index],
    ret   <- [s \in Scanners |-> [kind |-> out[s].kind, id |-> out[s].row]]

ScanSpec == Scan!Spec

\* Every path of an insert that took flock(LOCK_EX) gives it back.
LockReleased == \A h \in Handles : lock = h ~> lock # h

-----------------------------------------------------------------------------
(* The inductive invariant behind the safety properties, by its parts.     *)

\* A handle without an FDB has nothing else; one that inserts is a writer's, and
\* exactly the handle between its class write and its row write has the lock.
CallInv ==
    \A h \in Handles :
        /\ ~hdl[h].open => hdl[h] = Closed /\ ins[h] = Idle /\ cur[h] = NewCursor
                              /\ out[h] = Nothing
        /\ ins[h].pc # "idle" => h \in Writers
        /\ lock = h <=> ins[h].pc = "class"
        /\ ins[h].pc = "numbered" => ins[h].first = hdl[h].lastRowid + 1
        /\ ins[h].pc = "class" => hdl[h].lastRowid = Claimed(h)

\* The writer's lastRowid lies between the rowids in the file, the rows it is
\* about to append excepted, and the lastRowid on disk.
NumberInv ==
    /\ RowidsIncrease
    /\ \A h \in Writers : hdl[h].open =>
        /\ hdl[h].lastRowid <= lastRowid
        /\ \A i \in DOMAIN rows : rows[i] <= hdl[h].lastRowid
        /\ ins[h].pc = "class" => \A i \in DOMAIN rows : rows[i] < ins[h].first

\* Until something is torn, lastRowid counts the rows, the ones an insert still
\* has to write included, in the file and in the writer's handle alike.
ExactInv ==
    ~torn =>
        /\ ~frag
        /\ \A i \in DOMAIN rows : rows[i] \in {i, Unset}
        /\ \A h \in Writers : ins[h].pc = "class" => lastRowid = Len(rows) + ins[h].n
        /\ (\A h \in Writers : ins[h].pc # "class") => lastRowid = Len(rows)
        /\ \A h \in Writers : hdl[h].open => hdl[h].lastRowid = lastRowid

\* What a scanning program has buffered are rows of the file, at the place the
\* cursor says, each with the identity it still has there.
ScanInv ==
    \A h \in Handles : "rowid" \notin Calls[h] =>
        /\ cur[h].index + cur[h].length <= Window
        /\ cur[h].location + cur[h].index + cur[h].length <= Len(rows)
        /\ \A j \in 1..(cur[h].index + cur[h].length) :
              cur[h].data[j] = rows[cur[h].location + j]
        /\ out[h].asked = 0

IInv ==
    /\ TypeOK
    /\ CallInv
    /\ NumberInv
    /\ ExactInv
    /\ ScanInv
    /\ RowCountNeverOverstates
=============================================================================
