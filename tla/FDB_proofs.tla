----------------------------- MODULE FDB_proofs -----------------------------
(***************************************************************************)
(* Proofs about the FDB table under the assumptions of FDBClients: one     *)
(* inserting program, and no program that scans through the cursor it      *)
(* seeks with.  Type correctness first, then the safety properties and     *)
(* that a windowed scan implements FDBScan, from an inductive invariant.   *)
(***************************************************************************)
EXTENDS FDBClients, SequenceTheorems, TLAPS

-----------------------------------------------------------------------------
(* How the file and the windows change.                                    *)

\* x modulo m for the values huint32 counters take here.
LEMMA ModSmall ==
    ASSUME NEW m \in Nat \ {0}, NEW x \in 0..(m - 1)
    PROVE  x % m = x
OBVIOUS

LEMMA ModOnce ==
    ASSUME NEW m \in Nat \ {0}, NEW x \in m..(2 * m - 1)
    PROVE  x % m = x - m
<1>1. x % m \in 0..(m - 1) /\ x = m * (x \div m) + (x % m)
  OBVIOUS
<1> QED BY <1>1

LEMMA ModType ==
    ASSUME NEW m \in Nat \ {0}, NEW x \in Int
    PROVE  x % m \in Nat
OBVIOUS

\* A cursor's turn uses up one buffered item.
LEMMA SteppedType ==
    ASSUME NEW c \in CursorT
    PROVE  /\ Stepped(c) \in CursorT
           /\ Stepped(c).data = c.data
           /\ Stepped(c).location = c.location
           /\ Stepped(c).index = c.index + 1
           /\ c.length \in 1..(Wrap - 1) => Stepped(c).length = c.length - 1
<1> DEFINE x == c.length + Wrap - 1
<1>1. Wrap \in Nat \ {0} /\ x \in Int
  BY FDBAssumption DEF CursorT
<1>2. x % Wrap \in Nat
  BY <1>1, ModType
<1>0. /\ Stepped(c).data = c.data
      /\ Stepped(c).location = c.location
      /\ Stepped(c).index = c.index + 1
      /\ Stepped(c).length = x % Wrap
  BY DEF Stepped
<1>5. Stepped(c) \in CursorT
  BY <1>1, <1>2 DEF CursorT, Stepped
<1>3. CASE c.length \in 1..(Wrap - 1)
  <2>1. x \in Wrap..(2 * Wrap - 1)
    BY <1>1, <1>3
  <2>2. x % Wrap = x - Wrap
    BY <1>1, <2>1, ModOnce
  <2> QED BY <1>0, <1>1, <1>3, <1>5, <2>2
<1>4. CASE c.length \notin 1..(Wrap - 1)
  BY <1>0, <1>4, <1>5
<1> QED BY <1>3, <1>4

\* A refill takes rows from the file and keeps the rest of the buffer.
LEMMA FilledType ==
    ASSUME rows \in Seq(Row), NEW c \in CursorT, NEW loc \in Nat
    PROVE  /\ Filled(c, loc) \in CursorT
           /\ Filled(c, loc).location = loc
           /\ Filled(c, loc).index = 0
           /\ Filled(c, loc).length = Readable(loc)
           /\ Readable(loc) \in 0..Window
           /\ Readable(loc) > 0 => loc + Readable(loc) <= Len(rows)
           /\ Readable(loc) = 0 => loc >= Len(rows)
           /\ \A j \in 1..Readable(loc) : Filled(c, loc).data[j] = rows[loc + j]
<1>1. Len(rows) \in Nat /\ Window \in Nat \ {0}
  BY FDBAssumption
<1>2. /\ Readable(loc) \in 0..Window
      /\ Readable(loc) > 0 => loc + Readable(loc) <= Len(rows)
      /\ Readable(loc) = 0 => loc >= Len(rows)
  BY <1>1 DEF Readable
<1>3. \A j \in 1..Window : j <= Readable(loc) => rows[loc + j] \in Row
  BY <1>1, <1>2
<1> QED BY <1>1, <1>2, <1>3 DEF Filled, CursorT

LEMMA FunctionIsSeq ==
    ASSUME NEW S, NEW m \in Nat, NEW f \in [1..m -> S]
    PROVE  f \in Seq(S) /\ Len(f) = m
OBVIOUS

\* Elements of a concatenation by the side they come from.
LEMMA Extended ==
    ASSUME NEW S, NEW s \in Seq(S), NEW t \in Seq(S)
    PROVE  /\ s \o t \in Seq(S)
           /\ Len(s \o t) = Len(s) + Len(t)
           /\ \A i \in 1..Len(s) : (s \o t)[i] = s[i]
           /\ \A i \in 1..Len(s \o t) :
                i > Len(s) => /\ i - Len(s) \in 1..Len(t)
                              /\ (s \o t)[i] = t[i - Len(s)]
<1>1. /\ s \o t \in Seq(S)
      /\ Len(s \o t) = Len(s) + Len(t)
      /\ \A i \in 1..(Len(s) + Len(t)) :
            (s \o t)[i] = IF i <= Len(s) THEN s[i] ELSE t[i - Len(s)]
  BY ConcatProperties
<1>2. Len(s) \in Nat /\ Len(t) \in Nat
  OBVIOUS
<1> QED BY <1>1, <1>2

\* An appended batch leaves what was there and adds numbered rows, unnumbered
\* rows (FDBInsert), or garbage (behind a fragment).
LEMMA Appended ==
    ASSUME TypeOK, NEW h \in Handles,
           InsertRows(h) \/ InsertRowsFails(h)
    PROVE  /\ rows' \in Seq(Row)
           /\ Len(rows') >= Len(rows)
           /\ Len(rows') <= Len(rows) + ins[h].n
           /\ \A i \in 1..Len(rows) : rows'[i] = rows[i]
           /\ \A i \in 1..Len(rows') : i > Len(rows) =>
                 rows'[i] \in {Garbage, Unset, ins[h].first + (i - Len(rows)) - 1}
           /\ ~frag => \A i \in 1..Len(rows') : i > Len(rows) =>
                 rows'[i] \in {Unset, ins[h].first + (i - Len(rows)) - 1}
<1> DEFINE n == ins[h].n
           f == ins[h].first
           batch == Batch(h)
           junk(k) == [i \in 1..k |-> Garbage]
<1>1. n \in Nat /\ f \in Nat /\ rows \in Seq(Row) /\ Len(rows) \in Nat
  BY DEF TypeOK, InsertT, Idle
<1>2. /\ batch \in Seq(Row) /\ Len(batch) = n
      /\ \A i \in 1..n : batch[i] \in {Unset, f + i - 1}
  <2>1. \A i \in 1..n : batch[i] \in Row /\ batch[i] \in {Unset, f + i - 1}
    BY <1>1 DEF Batch, Row, Unset
  <2>2. batch \in [1..n -> Row]
    BY <2>1 DEF Batch
  <2>3. batch \in Seq(Row) /\ Len(batch) = n
    <3> HIDE DEF batch, n
    <3> QED BY <1>1, <2>2, FunctionIsSeq
  <2> QED BY <2>1, <2>3
<1>3. \A k \in Nat : junk(k) \in Seq(Row) /\ Len(junk(k)) = k
  BY DEF Row
<1>4. CASE InsertRows(h)
  <2> DEFINE t == Framed(batch)
  <2>1. /\ t \in Seq(Row) /\ Len(t) = n
        /\ \A i \in 1..n : t[i] \in {Garbage, Unset, f + i - 1}
        /\ ~frag => \A i \in 1..n : t[i] \in {Unset, f + i - 1}
    <3>1. CASE frag
      BY <1>1, <1>2, <1>3, <3>1 DEF Framed
    <3>2. CASE ~frag
      BY <1>2, <3>2 DEF Framed
    <3> QED BY <3>1, <3>2
  <2>2. rows' = rows \o t
    BY <1>4 DEF InsertRows
  <2> HIDE DEF t, n, f, batch
  <2>3. /\ rows \o t \in Seq(Row)
        /\ Len(rows \o t) = Len(rows) + n
        /\ \A i \in 1..Len(rows) : (rows \o t)[i] = rows[i]
        /\ \A i \in 1..Len(rows \o t) : i > Len(rows) =>
              i - Len(rows) \in 1..n /\ (rows \o t)[i] = t[i - Len(rows)]
    BY <1>1, <2>1, Extended
  <2>4. \A i \in 1..Len(rows \o t) : i > Len(rows) =>
          /\ (rows \o t)[i] \in {Garbage, Unset, f + (i - Len(rows)) - 1}
          /\ ~frag => (rows \o t)[i] \in {Unset, f + (i - Len(rows)) - 1}
    BY <2>1, <2>3
  <2> QED BY <1>1, <2>2, <2>3, <2>4 DEF n, f
<1>5. CASE InsertRowsFails(h)
  <2>1. PICK k \in 0..(n - 1), c \in {0, 1} :
          /\ c = 1 => frag
          /\ rows' = rows \o (IF frag THEN junk(k + c) ELSE SubSeq(batch, 1, k))
    BY <1>5 DEF InsertRowsFails
  <2> DEFINE t == IF frag THEN junk(k + c) ELSE SubSeq(batch, 1, k)
             m == IF frag THEN k + c ELSE k
  <2>2. m \in Nat /\ m <= n
    BY <1>1, <2>1
  <2>3. /\ t \in Seq(Row) /\ Len(t) = m
        /\ \A i \in 1..m : t[i] \in {Garbage, Unset, f + i - 1}
        /\ ~frag => \A i \in 1..m : t[i] \in {Unset, f + i - 1}
    <3>1. CASE frag
      BY <1>3, <2>2, <3>1
    <3>2. CASE ~frag
      <4>1. \A i \in 1..k : batch[i] \in Row
        BY <1>1, <1>2
      <4>2. /\ SubSeq(batch, 1, k) \in Seq(Row)
            /\ Len(SubSeq(batch, 1, k)) = IF 1 <= k THEN k - 1 + 1 ELSE 0
            /\ \A i \in 1..(k - 1 + 1) : SubSeq(batch, 1, k)[i] = batch[1 + i - 1]
        BY <4>1, SubSeqProperties
      <4> QED BY <1>1, <1>2, <3>2, <4>2
    <3> QED BY <3>1, <3>2
  <2>4. rows' = rows \o t
    BY <2>1
  <2> HIDE DEF t, m, n, f, batch
  <2>5. /\ rows \o t \in Seq(Row)
        /\ Len(rows \o t) = Len(rows) + m
        /\ \A i \in 1..Len(rows) : (rows \o t)[i] = rows[i]
        /\ \A i \in 1..Len(rows \o t) : i > Len(rows) =>
              i - Len(rows) \in 1..m /\ (rows \o t)[i] = t[i - Len(rows)]
    BY <1>1, <2>3, Extended
  <2>6. \A i \in 1..Len(rows \o t) : i > Len(rows) =>
          /\ (rows \o t)[i] \in {Garbage, Unset, f + (i - Len(rows)) - 1}
          /\ ~frag => (rows \o t)[i] \in {Unset, f + (i - Len(rows)) - 1}
    BY <2>3, <2>5
  <2> QED BY <1>1, <2>2, <2>4, <2>5, <2>6 DEF n, f
<1> QED BY <1>4, <1>5

LEMMA AppendedAll ==
    ASSUME TypeOK, NEW h \in Handles, InsertRows(h)
    PROVE  Len(rows') = Len(rows) + ins[h].n
<1> DEFINE n == ins[h].n
           f == ins[h].first
           t == Framed(Batch(h))
<1>1. n \in Nat /\ f \in Nat /\ rows \in Seq(Row)
  BY DEF TypeOK, InsertT, Idle
<1>2. t \in [1..n -> Row]
  <2>1. \A i \in 1..n : Batch(h)[i] \in Row /\ Garbage \in Row
    BY <1>1 DEF Batch, Row, Unset
  <2>2. Batch(h) \in [1..n -> Row]
    BY <2>1 DEF Batch
  <2> QED BY <2>1, <2>2 DEF Framed
<1>3. t \in Seq(Row) /\ Len(t) = n
  <2> HIDE DEF t, n
  <2> QED BY <1>1, <1>2, FunctionIsSeq
<1>4. rows' = rows \o t
  BY DEF InsertRows
<1> HIDE DEF t, n
<1>5. Len(rows \o t) = Len(rows) + Len(t)
  BY <1>1, <1>3, Extended
<1> QED BY <1>3, <1>4, <1>5 DEF n

-----------------------------------------------------------------------------
(* Type correctness.                                                       *)

LEMMA NewCursorType == NewCursor \in CursorT
BY FDBAssumption DEF NewCursor, CursorT, Row

LEMMA FetchedType ==
    ASSUME TypeOK, NEW h \in Handles
    PROVE  Fetched(h) \in CursorT
<1>1. cur[h] \in CursorT /\ rows \in Seq(Row)
  BY DEF TypeOK
<1>2. cur[h].location + cur[h].index \in Nat
  BY <1>1 DEF CursorT
<1> QED BY <1>1, <1>2, FilledType DEF Fetched

LEMMA EmptiedType ==
    ASSUME NEW c \in CursorT, NEW loc \in Nat
    PROVE  Emptied(c.data, loc) \in CursorT
BY DEF Emptied, CursorT

LEMMA ItemType ==
    ASSUME NEW c \in CursorT
    PROVE  ItemAt(c) \in Row
BY FDBAssumption DEF CursorT, HasItem, ItemAt, Row

\* A row written inside the file replaces one row; past its end it leaves holes.
LEMMA WrittenType ==
    ASSUME rows \in Seq(Row), NEW p \in Nat, NEW row \in Row
    PROVE  Written(p, row) \in Seq(Row)
<1> DEFINE m == IF p > Len(rows) THEN p ELSE Len(rows)
<1>1. Len(rows) \in Nat /\ m \in Nat /\ \A i \in 1..Len(rows) : rows[i] \in Row
  OBVIOUS
<1>2. Garbage \in Row /\ Unset \in Row
  BY DEF Row, Unset
<1>3. Written(p, row) \in [1..m -> Row]
  BY <1>1, <1>2 DEF Written
<1> HIDE DEF m
<1> QED BY <1>1, <1>3, FunctionIsSeq

LEMMA TypeStep ==
    ASSUME TypeOK, [Next]_vars
    PROVE  TypeOK'
<1> USE DEF TypeOK
<1>0. CASE UNCHANGED vars
  BY <1>0 DEF vars
<1> SUFFICES ASSUME NEW h \in Handles,
                    \/ Create(h) \/ Open(h) \/ Close(h) \/ Crash(h) \/ RowCount(h)
                    \/ Insert(h)
                    \/ Query(h) \/ NextItem(h) \/ NextEnd(h) \/ NextFails(h)
                    \/ ToRowid(h) \/ ToRowidFails(h) \/ Commit(h) \/ CommitFails(h)
             PROVE  TypeOK'
  BY <1>0 DEF Next
<1>a. Closed \in HandleT /\ Idle \in InsertT /\ NewCursor \in CursorT /\ Nothing \in AnswerT
  BY NewCursorType DEF Closed, HandleT, Idle, InsertT, Nothing, Told, AnswerT, Row
<1>b. \A last \in Nat : Opened(last) \in HandleT
  BY DEF Opened, HandleT
<1>c. hdl[h] \in HandleT /\ ins[h] \in InsertT /\ cur[h] \in CursorT /\ Len(rows) \in Nat
  OBVIOUS
<1>d. Counted(h) \in Nat
  BY <1>c DEF Counted, HandleT
<1>1. CASE Create(h)
  <2>1. rows' \in Seq(Row)
    BY <1>1 DEF Create
  <2> QED BY <1>1, <1>b, <2>1 DEF Create
<1>2. CASE Open(h)
  BY <1>2, <1>b DEF Open, disk
<1>3. CASE Close(h)
  BY <1>3, <1>a DEF Close, Forget, disk
<1>4. CASE Crash(h)
  BY <1>4, <1>a DEF Crash, Forget
<1>5. CASE RowCount(h)
  <2>1. [hdl[h] EXCEPT !.rowCount = Counted(h)] \in HandleT
    BY <1>c, <1>d DEF HandleT
  <2> QED BY <1>5, <2>1 DEF RowCount, disk
<1>6. CASE Insert(h)
  <2>1. CASE InsertBegin(h)
    <3>1. PICK api \in {"data", "one"}, n \in 1..MaxBatch :
            /\ ins' = [ins EXCEPT ![h] = [pc |-> "numbered", first |-> hdl[h].lastRowid + 1,
                                           n |-> n, api |-> api]]
            /\ hdl' = IF api = "one" THEN [hdl EXCEPT ![h].rowCount = -1] ELSE hdl
      BY <2>1 DEF InsertBegin
    <3>2. [hdl[h] EXCEPT !.rowCount = -1] \in HandleT
      BY <1>c DEF HandleT
    <3>3. [pc |-> "numbered", first |-> hdl[h].lastRowid + 1, n |-> n, api |-> api] \in InsertT
      BY <1>c, FDBAssumption DEF InsertT, HandleT
    <3>4. ins' \in [Handles -> InsertT] /\ hdl' \in [Handles -> HandleT]
      BY <3>1, <3>2, <3>3
    <3> QED BY <2>1, <3>4 DEF InsertBegin, disk
  <2>2. CASE InsertClass(h)
    <3>1. Claimed(h) \in Nat
      BY <1>c, <2>2 DEF Claimed, InsertT, Idle, InsertClass
    <3>3. ins[h] \in [pc : {"numbered", "class"}, first : Nat \ {0}, n : Nat \ {0},
                       api : {"data", "one"}]
      BY <1>c, <2>2 DEF InsertT, Idle, InsertClass
    <3>2. /\ [hdl[h] EXCEPT !.lastRowid = Claimed(h)] \in HandleT
          /\ [ins[h] EXCEPT !.pc = "class"] \in InsertT
      BY <1>c, <3>1, <3>3 DEF HandleT, InsertT
    <3> QED BY <2>2, <3>1, <3>2 DEF InsertClass
  <2>3. CASE InsertClassFails(h)
    BY <1>a, <1>c, <2>3 DEF InsertClassFails, Claimed, InsertT, Idle
  <2>4. CASE InsertRows(h)
    BY <1>a, <2>4, Appended DEF InsertRows
  <2>5. CASE InsertRowsFails(h)
    BY <1>a, <2>5, Appended DEF InsertRowsFails
  <2> QED BY <1>6, <2>1, <2>2, <2>3, <2>4, <2>5 DEF Insert
<1>7. CASE Query(h)
  BY <1>7, <1>a DEF Query, disk
<1>8. CASE NextItem(h)
  <2>1. Fetched(h) \in CursorT /\ Stepped(Fetched(h)) \in CursorT
    BY FetchedType, SteppedType
  <2>2. \A kind \in {"row", "skip"} :
          (IF HasItem(Fetched(h))
           THEN Told(kind, ItemAt(Fetched(h)), 0)
           ELSE Told(IF kind = "row" THEN "end" ELSE "skip", Garbage, 0)) \in AnswerT
    BY <2>1, ItemType DEF Told, AnswerT, Row
  <2> QED BY <1>8, <2>1, <2>2 DEF NextItem, disk
<1>9. CASE NextEnd(h)
  BY <1>9, FetchedType DEF NextEnd, disk, Told, AnswerT, Row
<1>10. CASE ToRowid(h)
  <2>1. PICK r \in {rows[i] : i \in DOMAIN rows} \ {Unset, Garbage} :
        LET c == cur[h]
            w == IF InWindow(c, r)
                 THEN [c EXCEPT !.index  = r - 1 - c.location,
                                !.length = (c.location + c.index + c.length - (r - 1)) % Wrap]
                 ELSE Filled(c, r - 1)
        IN  /\ cur' = [cur EXCEPT ![h] = Stepped(w)]
            /\ out' = [out EXCEPT ![h] = Told("row", ItemAt(w), r)]
    BY <1>10 DEF ToRowid
  <2> DEFINE c == cur[h]
             w == IF InWindow(c, r)
                  THEN [c EXCEPT !.index  = r - 1 - c.location,
                                 !.length = (c.location + c.index + c.length - (r - 1)) % Wrap]
                  ELSE Filled(c, r - 1)
  <2>2. r \in Nat \ {0}
    BY DEF Row, Unset
  <2>3. w \in CursorT
    <3>1. CASE InWindow(c, r)
      <4>1. r - 1 - c.location \in Nat
        BY <1>c, <2>2, <3>1 DEF InWindow, CursorT
      <4>2. (c.location + c.index + c.length - (r - 1)) % Wrap \in Nat
        <5>1. c.location + c.index + c.length - (r - 1) \in Int
          BY <1>c, <2>2 DEF CursorT
        <5>2. Wrap \in Nat \ {0}
          BY FDBAssumption
        <5> QED BY <5>1, <5>2, ModType
      <4> QED BY <1>c, <3>1, <4>1, <4>2 DEF CursorT
    <3>2. CASE ~InWindow(c, r)
      BY <1>c, <2>2, <3>2, FilledType
    <3> QED BY <3>1, <3>2
  <2>4. Stepped(w) \in CursorT /\ Told("row", ItemAt(w), r) \in AnswerT
    BY <2>2, <2>3, SteppedType, ItemType DEF Told, AnswerT
  <2>5. [hdl[h] EXCEPT !.rowCount = Counted(h)] \in HandleT
    BY <1>c, <1>d DEF HandleT
  <2>6. /\ cur' = [cur EXCEPT ![h] = Stepped(w)]
        /\ out' = [out EXCEPT ![h] = Told("row", ItemAt(w), r)]
    BY <2>1
  <2> HIDE DEF w
  <2> QED BY <1>10, <2>4, <2>5, <2>6 DEF ToRowid, disk
<1>11. CASE Commit(h)
  <2>1. cur[h].location + cur[h].index \in Nat /\ cur[h].data[cur[h].index] \in Row
    BY <1>c, <1>11, FDBAssumption DEF Commit, CursorT
  <2>2. rows' \in Seq(Row)
    BY <1>11, <2>1, WrittenType DEF Commit
  <2> QED BY <1>11, <2>2 DEF Commit
<1>12. CASE NextFails(h)
  <2>1. cur[h].location + cur[h].index \in Nat
    BY <1>c DEF CursorT
  <2>2. Emptied(cur[h].data, cur[h].location + cur[h].index) \in CursorT
    BY <1>c, <2>1, EmptiedType
  <2>3. cur' \in [Handles -> CursorT]
    BY <1>12, <2>2 DEF NextFails
  <2>4. Told("fail", Garbage, 0) \in AnswerT
    BY DEF Told, AnswerT, Row
  <2> QED BY <1>12, <2>3, <2>4 DEF NextFails, disk
<1>13. CASE ToRowidFails(h)
  <2> DEFINE w(r) == Emptied(cur[h].data, r - 1)
  <2>1. PICK r \in {rows[i] : i \in DOMAIN rows} \ {Unset, Garbage} :
          \/ /\ cur' = cur
             /\ out' = [out EXCEPT ![h] = Told("fail", Garbage, 0)]
          \/ /\ cur' = [cur EXCEPT ![h] = Stepped(w(r))]
             /\ out' = [out EXCEPT ![h] = Unread(ItemAt(w(r)), r)]
    BY <1>13 DEF ToRowidFails
  <2>2. r \in Nat /\ w(r) \in CursorT
    <3>1. r \in Nat /\ r - 1 \in Nat
      BY DEF Row, Unset
    <3> QED BY <1>c, <3>1, EmptiedType
  <2>3. Told("fail", Garbage, 0) \in AnswerT /\ Unread(ItemAt(w(r)), r) \in AnswerT
    BY <2>2, ItemType DEF Told, Unread, AnswerT, Row
  <2>4. Stepped(w(r)) \in CursorT
    BY <2>2, SteppedType
  <2> HIDE DEF w
  <2>5. cur' \in [Handles -> CursorT] /\ out' \in [Handles -> AnswerT]
    BY <2>1, <2>3, <2>4
  <2>6. [hdl[h] EXCEPT !.rowCount = Counted(h)] \in HandleT
    BY <1>c, <1>d DEF HandleT
  <2> QED BY <1>13, <2>5, <2>6 DEF ToRowidFails, disk
<1>14. CASE CommitFails(h)
  <2> DEFINE p == cur[h].location + cur[h].index
  <2>1. p \in Nat /\ cur[h].data[cur[h].index] \in Row /\ Garbage \in Row
    BY <1>c, <1>14, FDBAssumption DEF CommitFails, CursorT, Row
  <2>2. /\ Written(p, cur[h].data[cur[h].index]) \in Seq(Row)
        /\ Written(p, Garbage) \in Seq(Row)
    BY <2>1, WrittenType
  <2>3. ASSUME NEW left \in {cur[h].data[cur[h].index], Garbage}, p > Len(rows)
        PROVE  SubSeq(Written(p, left), 1, p - 1) \in Seq(Row)
    <3>1. Written(p, left) \in Seq(Row) /\ DOMAIN Written(p, left) = 1..p
      BY <1>c, <2>1, <2>2, <2>3 DEF Written
    <3>2. Len(Written(p, left)) = p
      BY <2>1, <3>1
    <3> QED BY <2>1, <3>1, <3>2, SubSeqProperties
  <2>4. frag' \in BOOLEAN
    BY <1>14, Zenon DEF CommitFails
  <2>5. rows' \in Seq(Row)
    <3>1. PICK left \in {cur[h].data[cur[h].index], Garbage} :
            rows' = IF p <= Len(rows) THEN Written(p, left)
                    ELSE SubSeq(Written(p, left), 1, p - 1)
      BY <1>14, Zenon DEF CommitFails
    <3>2. Written(p, left) \in Seq(Row)
      BY <2>2, <3>1
    <3>3. CASE p <= Len(rows)
      BY <3>1, <3>2, <3>3
    <3>4. CASE p > Len(rows)
      <4>1. ~(p <= Len(rows))
        BY <1>c, <2>1, <3>4
      <4> QED BY <2>3, <3>1, <3>4, <4>1
    <3> QED BY <1>c, <2>1, <3>3, <3>4
  <2> QED BY <1>14, <2>4, <2>5 DEF CommitFails
<1> QED BY <1>1, <1>2, <1>3, <1>4, <1>5, <1>6, <1>7, <1>8, <1>9, <1>10, <1>11,
           <1>12, <1>13, <1>14

LEMMA TypeInit ==
    ASSUME Init
    PROVE  TypeOK
<1>1. Closed \in HandleT /\ Idle \in InsertT /\ Nothing \in AnswerT
  BY DEF Closed, HandleT, Idle, InsertT, Nothing, Told, AnswerT, Row
<1>2. lastRowid \in Nat /\ rows \in Seq(Row)
  BY DEF Init
<1>3. frag \in BOOLEAN /\ torn \in BOOLEAN /\ lock \in Handles \cup {NoHandle}
  BY Zenon DEF Init
<1>4. /\ hdl \in [Handles -> HandleT] /\ ins \in [Handles -> InsertT]
      /\ cur \in [Handles -> CursorT] /\ out \in [Handles -> AnswerT]
  BY <1>1, NewCursorType DEF Init
<1> QED BY <1>2, <1>3, <1>4 DEF TypeOK

\* Whatever happens, hfdb.c's counters stay counters and its windows windows:
\* no length or index leaves the naturals.
THEOREM TypeCorrect == Spec => []TypeOK
<1>1. Init => TypeOK
  BY TypeInit
<1>2. TypeOK /\ [Next]_vars => TypeOK'
  BY TypeStep
<1> QED BY <1>1, <1>2, PTL DEF Spec

-----------------------------------------------------------------------------
(* The inductive invariant and what follows from it.                       *)

\* The calls that only look: they leave the file and every insert alone.
Observe(h) ==
    \/ RowCount(h) \/ Query(h) \/ NextItem(h) \/ NextEnd(h) \/ NextFails(h)
    \/ ToRowid(h) \/ ToRowidFails(h)

LEMMA ObserveFacts ==
    ASSUME TypeOK, NEW h \in Handles, Observe(h)
    PROVE  /\ UNCHANGED <<lastRowid, rows, frag, torn, lock, ins>>
           /\ hdl[h].open /\ ins[h].pc = "idle"
           /\ \A g \in Handles : /\ hdl'[g].open = hdl[g].open
                                 /\ hdl'[g].lastRowid = hdl[g].lastRowid
                                 /\ g # h => /\ hdl'[g] = hdl[g]
                                             /\ cur'[g] = cur[g]
                                             /\ out'[g] = out[g]
<1> USE DEF Free, Scanning, disk
<1>0. hdl \in [Handles -> HandleT] /\ hdl[h] \in HandleT
      /\ cur \in [Handles -> CursorT] /\ out \in [Handles -> AnswerT]
  BY DEF TypeOK
<1>1. CASE RowCount(h)
  BY <1>0, <1>1 DEF RowCount, HandleT
<1>2. CASE Query(h)
  BY <1>0, <1>2 DEF Query
<1>3. CASE NextItem(h)
  BY <1>0, <1>3 DEF NextItem
<1>4. CASE NextEnd(h)
  BY <1>0, <1>4 DEF NextEnd
<1>5. CASE NextFails(h)
  BY <1>0, <1>5 DEF NextFails
<1>6. CASE ToRowid(h)
  BY <1>0, <1>6 DEF ToRowid, HandleT
<1>7. CASE ToRowidFails(h)
  BY <1>0, <1>7 DEF ToRowidFails, HandleT
<1> QED BY <1>1, <1>2, <1>3, <1>4, <1>5, <1>6, <1>7 DEF Observe

\* Under the invariant a program commits the row it read to where it read it:
\* FDBCursorCommit changes no row's identity, short writes included.
LEMMA CommitKeeps ==
    ASSUME TypeOK, ScanInv, NEW h \in Handles, Commit(h) \/ CommitFails(h)
    PROVE  UNCHANGED vars
<1> DEFINE c == cur[h]
           p == c.location + c.index
           item == c.data[c.index]
<1>1. "rowid" \notin Calls[h]
  BY ClientAssumption DEF Commit, CommitFails
<1>2. c \in CursorT /\ rows \in Seq(Row) /\ Len(rows) \in Nat /\ c.index # 0
  BY DEF TypeOK, Commit, CommitFails
<1>3. /\ p \in 1..Len(rows) /\ item = rows[p]
  <2>1. c.location \in Nat /\ c.index \in Nat /\ c.length \in Nat
    BY <1>2 DEF CursorT
  <2>2. /\ c.location + c.index + c.length <= Len(rows)
        /\ \A j \in 1..(c.index + c.length) : c.data[j] = rows[c.location + j]
    BY <1>1 DEF ScanInv
  <2>3. c.index \in 1..(c.index + c.length) /\ c.location + c.index \in 1..Len(rows)
    <3>1. \A l, x, n, m \in Nat :
             x # 0 /\ l + x + n <= m => x \in 1..(x + n) /\ l + x \in 1..m
      OBVIOUS
    <3> HIDE DEF c
    <3> QED BY <1>2, <2>1, <2>2, <3>1
  <2>4. c.data[c.index] = rows[c.location + c.index]
    <3> HIDE DEF c
    <3> QED BY <2>2, <2>3
  <2> QED BY <2>3, <2>4
<1>4. Written(p, item) = rows
  <2>1. Written(p, item) = [i \in 1..Len(rows) |-> IF i = p THEN item ELSE rows[i]]
    BY <1>2, <1>3 DEF Written
  <2>2. rows = [i \in 1..Len(rows) |-> rows[i]]
    BY <1>2
  <2> HIDE DEF p, item
  <2> QED BY <1>3, <2>1, <2>2
<1>5. CASE Commit(h)
  <2>1. rows' = Written(p, item) /\ frag' = (frag /\ p <= Len(rows))
    BY <1>5 DEF Commit
  <2>2. frag' = frag
    BY <1>3, <2>1 DEF TypeOK
  <2> QED BY <1>4, <1>5, <2>1, <2>2 DEF Commit, vars
<1>6. CASE CommitFails(h)
  <2>1. /\ frag' = (frag \/ p > Len(rows))
        /\ UNCHANGED <<lastRowid, torn, lock, hdl, ins, cur, out>>
    BY <1>6, Zenon DEF CommitFails
  <2>2. rows' = Written(p, item)
    BY <1>3, <1>6 DEF CommitFails
  <2>3. frag' = frag
    BY <1>3, <2>1 DEF TypeOK
  <2> QED BY <1>4, <2>1, <2>2, <2>3 DEF vars
<1> QED BY <1>5, <1>6
\* The steps by what the invariant sees of them.
Step(h) ==
    \/ Create(h) \/ Open(h) \/ Close(h) \/ Crash(h)
    \/ InsertBegin(h) \/ InsertClass(h) \/ InsertClassFails(h)
    \/ InsertRows(h) \/ InsertRowsFails(h)
    \/ Observe(h)

LEMMA StepCases ==
    ASSUME TypeOK, ScanInv, [Next]_vars
    PROVE  UNCHANGED vars \/ \E h \in Handles : Step(h)
<1>1. ASSUME NEW h \in Handles, Commit(h) \/ CommitFails(h) PROVE UNCHANGED vars
  BY <1>1, CommitKeeps
<1> QED BY <1>1 DEF Next, Insert, Step, Observe

-----------------------------------------------------------------------------
(* The invariant, part by part.                                            *)

LEMMA CallStep ==
    ASSUME TypeOK, CallInv, NEW h \in Handles, Step(h)
    PROVE  CallInv'
<1> SUFFICES ASSUME NEW g \in Handles
             PROVE  /\ ~hdl'[g].open => hdl'[g] = Closed /\ ins'[g] = Idle
                                          /\ cur'[g] = NewCursor /\ out'[g] = Nothing
                    /\ ins'[g].pc # "idle" => g \in Writers
                    /\ lock' = g <=> ins'[g].pc = "class"
                    /\ ins'[g].pc = "numbered" => ins'[g].first = hdl'[g].lastRowid + 1
                    /\ ins'[g].pc = "class" => hdl'[g].lastRowid = ins'[g].first + ins'[g].n - 1
  BY DEF CallInv, Claimed
<1>0. /\ hdl[g] \in HandleT /\ ins[g] \in InsertT
      /\ hdl \in [Handles -> HandleT] /\ ins \in [Handles -> InsertT]
      /\ cur \in [Handles -> CursorT] /\ out \in [Handles -> AnswerT]
  BY DEF TypeOK
<1>i. /\ ~hdl[g].open => hdl[g] = Closed /\ ins[g] = Idle /\ cur[g] = NewCursor
                            /\ out[g] = Nothing
      /\ ins[g].pc # "idle" => g \in Writers
      /\ lock = g <=> ins[g].pc = "class"
      /\ ins[g].pc = "numbered" => ins[g].first = hdl[g].lastRowid + 1
      /\ ins[g].pc = "class" => hdl[g].lastRowid = ins[g].first + ins[g].n - 1
  BY DEF CallInv, Claimed
<1>n. NoHandle # g /\ Idle.pc = "idle"
  BY FDBAssumption DEF Idle
<1>1. CASE Create(h)
  BY <1>0, <1>i, <1>n, <1>1 DEF Create, Opened
<1>2. CASE Open(h)
  BY <1>0, <1>i, <1>n, <1>2 DEF Open, Opened
<1>3. CASE Close(h)
  BY <1>0, <1>i, <1>n, <1>3 DEF Close, Forget, Free, Closed
<1>4. CASE Crash(h)
  BY <1>0, <1>i, <1>n, <1>4 DEF Crash, Forget, Closed
<1>5. CASE InsertBegin(h)
  <2>1. PICK api \in {"data", "one"}, n \in 1..MaxBatch :
          /\ ins' = [ins EXCEPT ![h] = [pc |-> "numbered", first |-> hdl[h].lastRowid + 1,
                                         n |-> n, api |-> api]]
          /\ hdl' = IF api = "one" THEN [hdl EXCEPT ![h].rowCount = -1] ELSE hdl
    BY <1>5 DEF InsertBegin
  <2>2. hdl'[g].lastRowid = hdl[g].lastRowid /\ hdl'[g].open = hdl[g].open
    BY <1>0, <2>1 DEF HandleT
  <2>3. g # h => hdl'[g] = hdl[g] /\ ins'[g] = ins[g]
    BY <1>0, <2>1
  <2>4. /\ h \in Writers /\ hdl[h].open /\ ins[h].pc = "idle"
        /\ UNCHANGED <<lock, cur, out>>
    BY <1>5 DEF InsertBegin, Free
  <2>5. CASE g = h
    <3>1. ins'[g] = [pc |-> "numbered", first |-> hdl[g].lastRowid + 1, n |-> n, api |-> api]
      BY <1>0, <2>1, <2>5
    <3> QED BY <1>i, <2>2, <2>4, <2>5, <3>1
  <2> QED BY <1>i, <2>3, <2>4, <2>5
<1>6. CASE InsertClass(h)
  BY <1>0, <1>i, <1>n, <1>6 DEF InsertClass, Claimed, HandleT, InsertT, Idle, Closed
<1>7. CASE InsertClassFails(h)
  BY <1>0, <1>i, <1>n, <1>7 DEF InsertClassFails
<1>8. CASE InsertRows(h)
  BY <1>0, <1>i, <1>n, <1>8 DEF InsertRows, CallInv
<1>9. CASE InsertRowsFails(h)
  BY <1>0, <1>i, <1>n, <1>9 DEF InsertRowsFails, CallInv
<1>10. CASE Observe(h)
  BY <1>0, <1>i, <1>n, <1>10, ObserveFacts
<1> QED BY <1>1, <1>2, <1>3, <1>4, <1>5, <1>6, <1>7, <1>8, <1>9, <1>10 DEF Step
\* What an insert under way knows of itself.
LEMMA InsertFacts ==
    ASSUME TypeOK, CallInv, NEW h \in Handles, ins[h].pc # "idle"
    PROVE  /\ h \in Writers /\ hdl[h].open
           /\ ins[h].first \in Nat \ {0} /\ ins[h].n \in Nat \ {0}
           /\ Claimed(h) = ins[h].first + ins[h].n - 1
           /\ hdl[h].lastRowid \in Nat
           /\ ins[h].pc = "numbered" => ins[h].first = hdl[h].lastRowid + 1
           /\ ins[h].pc = "class" => hdl[h].lastRowid = Claimed(h)
           /\ ins[h].pc = "class" => \A g \in Handles : ins[g].pc = "class" => g = h
<1>1. hdl[h] \in HandleT /\ ins[h] \in InsertT
  BY DEF TypeOK
<1> QED BY <1>1 DEF CallInv, InsertT, HandleT, Idle, Claimed

\* Numbers f, f+1, ... behind increasing ones below f increase.
LEMMA StillIncreasing ==
    ASSUME NEW L \in Nat, NEW M \in Nat, NEW f \in Nat \ {0}, NEW n \in Nat \ {0},
           M <= L + n, NEW old, NEW new,
           \A i \in 1..L : old[i] \in Int /\ old[i] < f /\ new[i] = old[i],
           \A i, j \in 1..L : i < j /\ old[i] > 0 /\ old[j] > 0 => old[i] < old[j],
           \A i \in 1..M : i > L => new[i] \in {-1, 0, f + (i - L) - 1}
    PROVE  /\ \A i \in 1..M : new[i] \in Int /\ new[i] <= f + n - 1
           /\ \A i, j \in 1..M : i < j /\ new[i] > 0 /\ new[j] > 0 => new[i] < new[j]
<1>1. \A i \in 1..M : new[i] \in Int /\ new[i] <= f + n - 1
  <2> SUFFICES ASSUME NEW i \in 1..M
               PROVE  new[i] \in Int /\ new[i] <= f + n - 1
    OBVIOUS
  <2>1. CASE i <= L
    BY <2>1
  <2>2. CASE i > L
    BY <2>2
  <2> QED BY <2>1, <2>2
<1>2. ASSUME NEW i \in 1..M, NEW j \in 1..M, i < j, new[i] > 0, new[j] > 0
      PROVE  new[i] < new[j]
  <2>1. CASE j <= L
    BY <1>2, <2>1
  <2>2. CASE j > L
    <3>1. new[j] = f + (j - L) - 1
      BY <1>2, <2>2
    <3>2. CASE i <= L
      BY <2>2, <3>1, <3>2
    <3>3. CASE i > L
      <4>1. new[i] = f + (i - L) - 1
        BY <1>2, <3>3
      <4> QED BY <1>2, <3>1, <4>1
    <3> QED BY <3>2, <3>3
  <2> QED BY <2>1, <2>2
<1> QED BY <1>1, <1>2

LEMMA NumberStep ==
    ASSUME TypeOK, CallInv, NumberInv, NEW h \in Handles, Step(h)
    PROVE  NumberInv'
<1>0. /\ hdl \in [Handles -> HandleT] /\ ins \in [Handles -> InsertT]
      /\ hdl[h] \in HandleT /\ ins[h] \in InsertT
      /\ lastRowid \in Nat /\ rows \in Seq(Row) /\ Len(rows) \in Nat
      /\ \A i \in 1..Len(rows) : rows[i] \in Nat \cup {-1}
  BY DEF TypeOK, Row, Garbage
<1>w. \A g \in Writers : h \in Writers => g = h
  BY ClientAssumption
<1> USE DEF NumberInv, RowidsIncrease
<1>1. CASE Create(h)
  <2>1. rows' = <<>> /\ lastRowid' = 0 /\ \A g \in Writers : g = h
    BY <1>1, <1>w DEF Create
  <2>2. hdl'[h].lastRowid = 0
    BY <1>0, <1>1 DEF Create, Opened
  <2> QED BY <2>1, <2>2
<1>2. CASE Open(h)
  <2>1. /\ UNCHANGED <<rows, lastRowid, ins>>
        /\ hdl'[h].lastRowid = lastRowid
        /\ \A g \in Handles : g # h => hdl'[g] = hdl[g]
    BY <1>0, <1>2 DEF Open, Opened, disk
  <2>2. ins[h].pc = "idle"
    BY <1>2 DEF Open, CallInv, Idle
  <2>3. \A g \in Writers : g \in Handles
    BY FDBAssumption
  <2> QED BY <1>0, <2>1, <2>2, <2>3
<1>3. CASE Close(h) \/ Crash(h)
  <2>1. /\ UNCHANGED <<rows, lastRowid>>
        /\ ~hdl'[h].open
        /\ \A g \in Handles : g # h => hdl'[g] = hdl[g] /\ ins'[g] = ins[g]
    BY <1>0, <1>3 DEF Close, Crash, Forget, Closed, disk
  <2>2. \A g \in Writers : g \in Handles
    BY FDBAssumption
  <2> QED BY <1>0, <2>1, <2>2
<1>4. CASE InsertBegin(h)
  <2>1. /\ UNCHANGED <<rows, lastRowid>>
        /\ \A g \in Handles : /\ hdl'[g].open = hdl[g].open
                              /\ hdl'[g].lastRowid = hdl[g].lastRowid
                              /\ ins'[g].pc = "class" => ins'[g] = ins[g]
    BY <1>0, <1>4 DEF InsertBegin, HandleT, disk
  <2>2. \A g \in Writers : g \in Handles
    BY FDBAssumption
  <2> QED BY <1>0, <2>1, <2>2
<1>5. CASE InsertClass(h)
  <2>1. ins[h].pc = "numbered"
    BY <1>5 DEF InsertClass
  <2>2. /\ h \in Writers /\ hdl[h].open
        /\ ins[h].first = hdl[h].lastRowid + 1
        /\ Claimed(h) > hdl[h].lastRowid
        /\ Claimed(h) \in Nat /\ hdl[h].lastRowid \in Nat
    BY <2>1, InsertFacts
  <2>3. /\ UNCHANGED rows /\ lastRowid' = Claimed(h)
        /\ hdl'[h].lastRowid = Claimed(h)
        /\ ins'[h].first = ins[h].first
    BY <1>0, <1>5 DEF InsertClass, HandleT, InsertT, Idle
  <2>4. \A i \in DOMAIN rows : rows[i] <= hdl[h].lastRowid
    BY <2>2
  <2>5. \A i \in DOMAIN rows : rows[i] < ins[h].first /\ rows[i] <= Claimed(h)
    BY <1>0, <2>2, <2>4
  <2> QED BY <1>w, <2>2, <2>3, <2>5
<1>6. CASE InsertClassFails(h)
  <2>1. ins[h].pc = "numbered"
    BY <1>6 DEF InsertClassFails
  <2>2. /\ h \in Writers /\ hdl[h].open
        /\ Claimed(h) > hdl[h].lastRowid
        /\ Claimed(h) \in Nat /\ hdl[h].lastRowid \in Nat
    BY <2>1, InsertFacts
  <2>3. /\ UNCHANGED <<rows, hdl>> /\ lastRowid' \in {lastRowid, Claimed(h)}
        /\ ins'[h].pc = "idle"
    BY <1>0, <1>6 DEF InsertClassFails, Idle
  <2>4. \A i \in DOMAIN rows : rows[i] <= hdl[h].lastRowid
    BY <2>2
  <2>5. hdl[h].lastRowid <= lastRowid' /\ \A i \in DOMAIN rows : rows[i] <= lastRowid'
    BY <1>0, <2>2, <2>3, <2>4
  <2> QED BY <1>w, <2>2, <2>3, <2>4, <2>5
<1>7. CASE InsertRows(h) \/ InsertRowsFails(h)
  <2>1. ins[h].pc = "class"
    BY <1>7 DEF InsertRows, InsertRowsFails
  <2>2. /\ h \in Writers /\ hdl[h].open
        /\ hdl[h].lastRowid = ins[h].first + ins[h].n - 1
        /\ ins[h].first \in Nat \ {0} /\ ins[h].n \in Nat \ {0}
    BY <2>1, InsertFacts
  <2>3. \A i \in 1..Len(rows) : rows[i] < ins[h].first
    BY <1>0, <2>1, <2>2
  <2>4. /\ UNCHANGED <<lastRowid, hdl>> /\ ins'[h].pc = "idle"
    BY <1>0, <1>7 DEF InsertRows, InsertRowsFails, Idle
  <2> DEFINE f == ins[h].first
             n == ins[h].n
             L == Len(rows)
  <2>5. /\ rows' \in Seq(Row) /\ Len(rows') \in Nat
        /\ Len(rows') <= L + n
        /\ \A i \in 1..L : rows'[i] = rows[i]
        /\ \A i \in 1..Len(rows') : i > L =>
              rows'[i] \in {Garbage, Unset, f + (i - L) - 1}
    BY <1>7, Appended
  <2>6. /\ \A i \in 1..Len(rows') : rows'[i] \in Int /\ rows'[i] <= f + n - 1
        /\ \A i, j \in 1..Len(rows') :
              i < j /\ rows'[i] > 0 /\ rows'[j] > 0 => rows'[i] < rows'[j]
    <3>1. \A i \in 1..L : rows[i] \in Int /\ rows[i] < f /\ rows'[i] = rows[i]
      BY <1>0, <2>3, <2>5
    <3>2. \A i, j \in 1..L : i < j /\ rows[i] > 0 /\ rows[j] > 0 => rows[i] < rows[j]
      BY <1>0
    <3>3. \A i \in 1..Len(rows') : i > L => rows'[i] \in {-1, 0, f + (i - L) - 1}
      BY <2>5 DEF Unset, Garbage
    <3>4. f \in Nat \ {0} /\ n \in Nat \ {0} /\ L \in Nat
      BY <1>0, <2>2
    <3> HIDE DEF f, n, L, NumberInv
    <3> QED BY <2>5, <3>1, <3>2, <3>3, <3>4, StillIncreasing
  <2>8. hdl[h].lastRowid <= lastRowid
    BY <2>2
  <2>9. \A i \in 1..Len(rows') : rows'[i] <= lastRowid
    BY <1>0, <2>2, <2>6, <2>8
  <2>11. DOMAIN rows' = 1..Len(rows')
    BY <2>5
  <2> HIDE DEF f, n, L
  <2> QED BY <1>w, <2>2, <2>4, <2>6, <2>8, <2>9, <2>11 DEF f, n
<1>8. CASE Observe(h)
  <2>1. \A g \in Writers : g \in Handles
    BY FDBAssumption
  <2> QED BY <1>0, <1>8, <2>1, ObserveFacts
<1> QED BY <1>1, <1>2, <1>3, <1>4, <1>5, <1>6, <1>7, <1>8 DEF Step
LEMMA ExactStep ==
    ASSUME TypeOK, CallInv, NumberInv, ExactInv, NEW h \in Handles, Step(h)
    PROVE  ExactInv'
<1>0. /\ hdl \in [Handles -> HandleT] /\ ins \in [Handles -> InsertT]
      /\ hdl[h] \in HandleT /\ ins[h] \in InsertT
      /\ lastRowid \in Nat /\ rows \in Seq(Row) /\ Len(rows) \in Nat
  BY DEF TypeOK
<1>w. /\ \A g \in Writers : g \in Handles
      /\ \A g \in Writers : h \in Writers => g = h
  BY FDBAssumption, ClientAssumption
<1>t. torn => torn'
      \/ Create(h)
  BY DEF Step, Open, Close, Crash, InsertBegin, InsertClass, InsertClassFails, InsertRows,
     InsertRowsFails, Observe, RowCount, Query, NextItem, NextEnd, NextFails, ToRowid,
     ToRowidFails, disk
<1>1. CASE Create(h)
  <2>1. rows' = <<>> /\ lastRowid' = 0 /\ frag' = FALSE
    BY <1>1 DEF Create
  <2>2. hdl'[h].lastRowid = 0 /\ h \in Writers
    BY <1>0, <1>1 DEF Create, Opened
  <2>3. UNCHANGED ins /\ \A g \in Handles : ins[g] = Idle
    BY <1>1 DEF Create, CallInv
  <2> QED BY <1>w, <2>1, <2>2, <2>3 DEF ExactInv, Idle
<1> SUFFICES ASSUME ~torn, ~torn'
             PROVE  ExactInv'
  BY <1>t, <1>1 DEF ExactInv
<1>e. /\ ~frag
      /\ \A i \in DOMAIN rows : rows[i] \in {i, Unset}
      /\ \A g \in Writers : ins[g].pc = "class" => lastRowid = Len(rows) + ins[g].n
      /\ (\A g \in Writers : ins[g].pc # "class") => lastRowid = Len(rows)
      /\ \A g \in Writers : hdl[g].open => hdl[g].lastRowid = lastRowid
  BY DEF ExactInv
<1> USE DEF ExactInv
<1>2. CASE Open(h)
  <2>1. /\ UNCHANGED <<rows, frag, lastRowid, ins>>
        /\ hdl'[h].lastRowid = lastRowid
        /\ \A g \in Handles : g # h => hdl'[g] = hdl[g]
    BY <1>0, <1>2 DEF Open, Opened, disk
  <2> QED BY <1>e, <1>w, <2>1
<1>3. CASE Close(h) \/ Crash(h)
  <2>1. /\ UNCHANGED <<rows, frag, lastRowid>>
        /\ ~hdl'[h].open /\ ins'[h].pc = "idle"
        /\ \A g \in Handles : g # h => hdl'[g] = hdl[g] /\ ins'[g] = ins[g]
    BY <1>0, <1>3 DEF Close, Crash, Forget, Closed, Idle, disk
  <2>2. ins[h].pc # "class"
    <3>1. CASE Close(h)
      BY <3>1 DEF Close, Free
    <3>2. CASE Crash(h)
      BY <3>2, Zenon DEF Crash
    <3> QED BY <1>3, <3>1, <3>2
  <2> QED BY <1>e, <1>w, <2>1, <2>2
<1>4. CASE InsertBegin(h)
  <2>1. /\ UNCHANGED <<rows, frag, lastRowid>>
        /\ ins'[h].pc = "numbered" /\ ins[h].pc = "idle"
        /\ \A g \in Handles : /\ hdl'[g].open = hdl[g].open
                              /\ hdl'[g].lastRowid = hdl[g].lastRowid
                              /\ g # h => ins'[g] = ins[g]
    BY <1>0, <1>4 DEF InsertBegin, HandleT, Free, disk
  <2> QED BY <1>e, <1>w, <2>1
<1>5. CASE InsertClass(h)
  <2>1. ins[h].pc = "numbered"
    BY <1>5 DEF InsertClass
  <2>2. /\ h \in Writers /\ hdl[h].open
        /\ Claimed(h) = hdl[h].lastRowid + ins[h].n
        /\ hdl[h].lastRowid \in Nat /\ ins[h].n \in Nat
    BY <2>1, InsertFacts, SMTT(20)
  <2>3. /\ UNCHANGED <<rows, frag>> /\ lastRowid' = Claimed(h)
        /\ hdl'[h].lastRowid = Claimed(h)
        /\ ins'[h].n = ins[h].n /\ ins'[h].pc = "class"
    BY <1>0, <1>5 DEF InsertClass, HandleT, InsertT, Idle
  <2>4. lastRowid = Len(rows) /\ hdl[h].lastRowid = lastRowid
    BY <1>e, <1>w, <2>1, <2>2
  <2> QED BY <1>e, <1>w, <2>2, <2>3, <2>4
<1>6. CASE InsertClassFails(h)
  <2>1. ins[h].pc = "numbered"
    BY <1>6 DEF InsertClassFails
  <2>2. h \in Writers
    BY <2>1, InsertFacts
  <2>3. /\ UNCHANGED <<rows, frag, hdl, lastRowid>> /\ ins'[h].pc = "idle"
    BY <1>0, <1>6 DEF InsertClassFails, Idle
  <2> QED BY <1>e, <1>w, <2>1, <2>2, <2>3
<1>7. CASE InsertRows(h)
  <2>1. ins[h].pc = "class"
    BY <1>7 DEF InsertRows
  <2>2. /\ h \in Writers /\ hdl[h].open
        /\ hdl[h].lastRowid = ins[h].first + ins[h].n - 1
        /\ ins[h].first \in Nat \ {0} /\ ins[h].n \in Nat \ {0}
    BY <2>1, InsertFacts
  <2>3. /\ UNCHANGED <<lastRowid, frag, hdl>> /\ ins'[h].pc = "idle"
    BY <1>0, <1>7 DEF InsertRows, Idle
  <2>4. /\ rows' \in Seq(Row) /\ Len(rows') = Len(rows) + ins[h].n
        /\ \A i \in 1..Len(rows) : rows'[i] = rows[i]
        /\ \A i \in 1..Len(rows') : i > Len(rows) =>
              rows'[i] \in {Unset, ins[h].first + (i - Len(rows)) - 1}
    BY <1>7, <1>e, Appended, AppendedAll
  <2>5. ins[h].first = Len(rows) + 1
    BY <1>0, <1>e, <2>1, <2>2
  <2>6. \A i \in 1..Len(rows') : rows'[i] \in {i, Unset}
    BY <1>0, <1>e, <2>4, <2>5
  <2>7. lastRowid' = Len(rows')
    BY <1>e, <2>1, <2>2, <2>3, <2>4
  <2>8. DOMAIN rows' = 1..Len(rows')
    BY <2>4
  <2> QED BY <1>e, <1>w, <2>2, <2>3, <2>6, <2>7, <2>8
<1>8. CASE InsertRowsFails(h)
  BY <1>8 DEF InsertRowsFails
<1>9. CASE Observe(h)
  BY <1>e, <1>w, <1>9, ObserveFacts
<1> QED BY <1>1, <1>2, <1>3, <1>4, <1>5, <1>6, <1>7, <1>8, <1>9 DEF Step

\* A cached row count is a number of rows the file had.
LEMMA CountStep ==
    ASSUME TypeOK, CallInv, RowCountNeverOverstates, NEW h \in Handles, Step(h)
    PROVE  RowCountNeverOverstates'
<1>0. /\ hdl \in [Handles -> HandleT] /\ hdl[h] \in HandleT /\ Len(rows) \in Nat
      /\ \A g \in Handles : hdl[g].rowCount \in Int /\ hdl[g].rowCount <= Len(rows)
  BY DEF TypeOK, HandleT, RowCountNeverOverstates
<1> SUFFICES ASSUME NEW g \in Handles
             PROVE  hdl'[g].rowCount <= Len(rows')
  BY DEF RowCountNeverOverstates
<1>1. CASE Create(h)
  BY <1>0, <1>1 DEF Create, Opened, CallInv, Closed
<1>2. CASE Open(h)
  BY <1>0, <1>2 DEF Open, Opened, disk
<1>3. CASE Close(h) \/ Crash(h)
  BY <1>0, <1>3 DEF Close, Crash, Forget, Closed, disk
<1>4. CASE InsertBegin(h)
  <2>1. UNCHANGED rows /\ hdl' \in {hdl, [hdl EXCEPT ![h].rowCount = -1]}
    BY <1>4 DEF InsertBegin, disk
  <2> QED BY <1>0, <2>1 DEF HandleT
<1>5. CASE InsertClass(h)
  BY <1>0, <1>5 DEF InsertClass, HandleT
<1>6. CASE InsertClassFails(h)
  BY <1>0, <1>6 DEF InsertClassFails
<1>7. CASE InsertRows(h) \/ InsertRowsFails(h)
  <2>1. rows' \in Seq(Row) /\ Len(rows') >= Len(rows)
    BY <1>7, Appended
  <2>2. UNCHANGED hdl
    BY <1>7 DEF InsertRows, InsertRowsFails
  <2> QED BY <1>0, <2>1, <2>2
<1>8. CASE Observe(h)
  <2>1. UNCHANGED rows
    BY <1>8, ObserveFacts
  <2>2. hdl' \in {hdl, [hdl EXCEPT ![h].rowCount = Counted(h)]}
    BY <1>8 DEF Observe, RowCount, Query, NextItem, NextEnd, NextFails, ToRowid, ToRowidFails
  <2>3. Counted(h) <= Len(rows)
    BY <1>0 DEF Counted
  <2> QED BY <1>0, <2>1, <2>2, <2>3 DEF HandleT
<1> QED BY <1>1, <1>2, <1>3, <1>4, <1>5, <1>6, <1>7, <1>8 DEF Step
-----------------------------------------------------------------------------
(* Scans.                                                                  *)

\* A window that shows rows of the file at the place it says.
Faithful(c) ==
    /\ c.index + c.length <= Window
    /\ c.location + c.index + c.length <= Len(rows)
    /\ \A j \in 1..(c.index + c.length) : c.data[j] = rows[c.location + j]

LEMMA FetchedFaithful ==
    ASSUME TypeOK, NEW h \in Handles, Faithful(cur[h])
    PROVE  /\ Fetched(h) \in CursorT
           /\ Faithful(Fetched(h))
           /\ Fetched(h).location + Fetched(h).index = cur[h].location + cur[h].index
           /\ Fetched(h).length = 0 => cur[h].location + cur[h].index = Len(rows)
<1> DEFINE c == cur[h]
           loc == c.location + c.index
<1>1. c \in CursorT /\ rows \in Seq(Row) /\ Len(rows) \in Nat /\ Window \in Nat
  BY FDBAssumption DEF TypeOK
<1>2. c.location \in Nat /\ c.index \in Nat /\ c.length \in Nat /\ loc \in Nat
  BY <1>1 DEF CursorT
<1>3. CASE c.length = 0
  <2>1. Fetched(h) = Filled(c, loc)
    BY <1>3 DEF Fetched
  <2>2. /\ Filled(c, loc) \in CursorT
        /\ Filled(c, loc).location = loc
        /\ Filled(c, loc).index = 0
        /\ Filled(c, loc).length = Readable(loc)
        /\ Readable(loc) \in 0..Window
        /\ Readable(loc) > 0 => loc + Readable(loc) <= Len(rows)
        /\ Readable(loc) = 0 => loc >= Len(rows)
        /\ \A j \in 1..Readable(loc) : Filled(c, loc).data[j] = rows[loc + j]
    BY <1>1, <1>2, FilledType
  <2>3. loc <= Len(rows)
    BY <1>2, <1>3 DEF Faithful
  <2> HIDE DEF c, loc
  <2>4. Faithful(Filled(c, loc))
    BY <1>1, <1>2, <2>2, <2>3 DEF Faithful
  <2> QED BY <1>1, <1>2, <2>1, <2>2, <2>3, <2>4 DEF c, loc
<1>4. CASE c.length # 0
  BY <1>1, <1>4 DEF Fetched
<1> QED BY <1>3, <1>4

\* One turn of a scan looks at the row behind the place it had reached.
LEMMA ScanTurn ==
    ASSUME TypeOK, NEW h \in Handles, Faithful(cur[h]), Fetched(h).length # 0
    PROVE  LET w == Fetched(h)
               p == cur[h].location + cur[h].index
           IN  /\ Stepped(w) \in CursorT /\ Faithful(Stepped(w))
               /\ Stepped(w).location + Stepped(w).index = p + 1
               /\ HasItem(w) /\ p + 1 \in 1..Len(rows) /\ ItemAt(w) = rows[p + 1]
<1> DEFINE w == Fetched(h)
           s == Stepped(w)
           p == cur[h].location + cur[h].index
<1>1. /\ w \in CursorT /\ Faithful(w) /\ w.location + w.index = p
      /\ rows \in Seq(Row) /\ Len(rows) \in Nat
      /\ Window \in Nat /\ Wrap \in Nat /\ Wrap > Window
  BY FetchedFaithful, FDBAssumption DEF TypeOK
<1>2. w.location \in Nat /\ w.index \in Nat /\ w.length \in Nat \ {0}
  BY <1>1 DEF CursorT
<1>3. /\ w.index + w.length <= Window
      /\ w.location + w.index + w.length <= Len(rows)
      /\ \A j \in 1..(w.index + w.length) : w.data[j] = rows[w.location + j]
  BY <1>1 DEF Faithful
<1> HIDE DEF w, p
<1>4. w.length \in 1..(Wrap - 1)
  BY <1>1, <1>2, <1>3
<1>5. /\ s \in CursorT /\ s.data = w.data /\ s.location = w.location
      /\ s.index = w.index + 1 /\ s.length = w.length - 1
  BY <1>1, <1>4, SteppedType
<1> HIDE DEF s
<1>6. s.index + s.length = w.index + w.length
  BY <1>2, <1>5
<1>7. Faithful(s)
  <2>1. s.location + s.index + s.length = w.location + w.index + w.length
    BY <1>2, <1>5
  <2>2. \A j \in 1..(s.index + s.length) : s.data[j] = rows[s.location + j]
    BY <1>3, <1>5, <1>6
  <2> QED BY <1>3, <1>6, <2>1, <2>2 DEF Faithful
<1>8. w.index < Window /\ w.data[w.index + 1] = rows[p + 1] /\ p + 1 \in 1..Len(rows)
  <2>1. w.index + 1 \in 1..(w.index + w.length) /\ p \in Nat /\ p + 1 <= Len(rows)
    BY <1>1, <1>2, <1>3
  <2>2. w.location + (w.index + 1) = p + 1
    BY <1>1, <1>2
  <2>3. w.data[w.index + 1] = rows[p + 1]
    BY <1>3, <2>1, <2>2
  <2> QED BY <1>1, <1>2, <1>3, <2>1, <2>3
<1> QED BY <1>1, <1>2, <1>5, <1>7, <1>8 DEF HasItem, ItemAt, w, s, p

LEMMA ScanStep ==
    ASSUME TypeOK, CallInv, ScanInv, NEW h \in Handles, Step(h)
    PROVE  ScanInv'
<1> SUFFICES ASSUME NEW g \in Handles, "rowid" \notin Calls[g]
             PROVE  Faithful(cur[g])' /\ out'[g].asked = 0
  BY DEF ScanInv, Faithful
<1>0. /\ hdl \in [Handles -> HandleT] /\ cur \in [Handles -> CursorT]
      /\ out \in [Handles -> AnswerT] /\ cur[g] \in CursorT
      /\ rows \in Seq(Row) /\ Len(rows) \in Nat /\ Window \in Nat
      /\ Faithful(cur[g]) /\ out[g].asked = 0
  BY FDBAssumption DEF TypeOK, ScanInv, Faithful
<1>n. /\ NewCursor.index = 0 /\ NewCursor.length = 0 /\ NewCursor.location = 0
      /\ Nothing.asked = 0
  BY DEF NewCursor, Nothing, Told
<1>l. cur[g].location \in Nat /\ cur[g].index \in Nat /\ cur[g].length \in Nat
  BY <1>0 DEF CursorT
<1>1. CASE Create(h)
  <2>1. cur'[g] = NewCursor /\ out'[g] = Nothing /\ rows' = <<>>
    BY <1>1 DEF Create, CallInv
  <2> QED BY <1>0, <1>n, <2>1 DEF Faithful
<1>2. CASE UNCHANGED <<rows, cur, out>>
  BY <1>0, <1>2 DEF Faithful
<1>3. CASE Close(h) \/ Crash(h)
  <2>1. /\ UNCHANGED rows
        /\ (g = h /\ cur'[g] = NewCursor /\ out'[g] = Nothing)
           \/ (cur'[g] = cur[g] /\ out'[g] = out[g])
    BY <1>0, <1>3 DEF Close, Crash, Forget, disk
  <2> QED BY <1>0, <1>n, <2>1 DEF Faithful
<1>4. CASE InsertRows(h) \/ InsertRowsFails(h)
  <2>1. /\ rows' \in Seq(Row) /\ Len(rows') >= Len(rows) /\ Len(rows') \in Nat
        /\ \A i \in 1..Len(rows) : rows'[i] = rows[i]
    BY <1>4, Appended
  <2>2. UNCHANGED <<cur, out>>
    BY <1>4 DEF InsertRows, InsertRowsFails
  <2> DEFINE c == cur[g]
  <2>3. \A j \in 1..(c.index + c.length) : c.location + j \in 1..Len(rows)
    BY <1>0, <1>l DEF Faithful
  <2>4. \A j \in 1..(c.index + c.length) : c.data[j] = rows'[c.location + j]
    BY <1>0, <2>1, <2>3 DEF Faithful
  <2>5. c.index + c.length <= Window /\ c.location + c.index + c.length <= Len(rows')
    BY <1>0, <1>l, <2>1 DEF Faithful
  <2> QED BY <1>0, <2>2, <2>4, <2>5 DEF Faithful
<1>5. CASE Observe(h)
  <2>1. CASE g # h
    BY <1>0, <1>5, <2>1, ObserveFacts DEF Faithful
  <2>2. CASE g = h
    <3>0. UNCHANGED rows
      BY <1>5, ObserveFacts
    <3>1. CASE RowCount(h)
      BY <1>2, <3>1 DEF RowCount, disk
    <3>2. CASE Query(h)
      <4>1. cur'[g] = NewCursor /\ out'[g] = Nothing
        BY <1>0, <2>2, <3>2 DEF Query
      <4> QED BY <1>0, <1>n, <3>0, <4>1 DEF Faithful
    <3>3. CASE NextItem(h)
      <4>1. cur'[g] = Stepped(Fetched(g)) /\ Fetched(g).length # 0
        BY <1>0, <2>2, <3>3 DEF NextItem
      <4>2. out'[g].asked = 0
        BY <1>0, <2>2, <3>3 DEF NextItem, Told
      <4>3. Faithful(Stepped(Fetched(g)))
        BY <1>0, <4>1, ScanTurn
      <4> QED BY <3>0, <4>1, <4>2, <4>3 DEF Faithful
    <3>4. CASE NextEnd(h)
      <4>1. cur'[g] = Fetched(g) /\ out'[g].asked = 0
        BY <1>0, <2>2, <3>4 DEF NextEnd, Told
      <4>2. Faithful(Fetched(g))
        BY <1>0, FetchedFaithful
      <4> QED BY <3>0, <4>1, <4>2 DEF Faithful
    <3>5. CASE NextFails(h)
      <4>1. cur'[g] = cur[g] \/ cur'[g] = Emptied(cur[g].data, cur[g].location + cur[g].index)
        BY <1>0, <2>2, <3>5 DEF NextFails
      <4>2. out'[g].asked = 0 /\ cur[g].length = 0
        BY <1>0, <2>2, <3>5 DEF NextFails, Told
      <4>3. Faithful(Emptied(cur[g].data, cur[g].location + cur[g].index))
        BY <1>0, <1>l, <4>2 DEF Faithful, Emptied
      <4> QED BY <1>0, <3>0, <4>1, <4>2, <4>3 DEF Faithful
    <3>6. CASE ToRowid(h) \/ ToRowidFails(h)
      BY <2>2, <3>6 DEF ToRowid, ToRowidFails
    <3> QED BY <1>5, <3>1, <3>2, <3>3, <3>4, <3>5, <3>6 DEF Observe
  <2> QED BY <2>1, <2>2
<1>6. CASE Open(h) \/ InsertBegin(h) \/ InsertClass(h) \/ InsertClassFails(h)
  BY <1>2, <1>6 DEF Open, InsertBegin, InsertClass, InsertClassFails, disk
<1> QED BY <1>1, <1>3, <1>4, <1>5, <1>6 DEF Step
-----------------------------------------------------------------------------
(* What the table promises.                                                *)

LEMMA InitInv == Init => IInv
<1> SUFFICES ASSUME Init PROVE IInv
  OBVIOUS
<1>0. TypeOK
  BY TypeInit
<1>1. /\ \A h \in Handles : hdl[h] = Closed /\ ins[h] = Idle /\ cur[h] = NewCursor
                              /\ out[h] = Nothing /\ lock # h
      /\ rows = <<>> /\ lastRowid = 0 /\ frag = FALSE
      /\ Len(rows) = 0 /\ DOMAIN rows = {}
  BY FDBAssumption DEF Init
<1>2. CallInv
  <2> SUFFICES ASSUME NEW h \in Handles
               PROVE  /\ hdl[h] = Closed /\ ins[h] = Idle /\ cur[h] = NewCursor
                            /\ out[h] = Nothing
                      /\ ins[h].pc = "idle" /\ lock # h
    BY DEF CallInv
  <2> QED BY <1>1 DEF Idle
<1>3. NumberInv
  BY <1>1, FDBAssumption DEF NumberInv, RowidsIncrease, Closed
<1>4. ExactInv
  BY <1>1, FDBAssumption DEF ExactInv, Closed, Idle
<1>5. ScanInv
  BY <1>1, FDBAssumption DEF ScanInv, NewCursor, Nothing, Told
<1>6. RowCountNeverOverstates
  <2>1. Closed.rowCount = -1
    BY DEF Closed
  <2>2. Closed.rowCount <= Len(rows)
    BY <1>1, <2>1
  <2> QED BY <1>1, <2>2, Zenon DEF RowCountNeverOverstates
<1> QED BY <1>0, <1>2, <1>3, <1>4, <1>5, <1>6 DEF IInv

LEMMA InvStep ==
    ASSUME IInv, [Next]_vars
    PROVE  IInv'
<1> USE DEF IInv
<1>1. TypeOK'
  BY TypeStep
<1>2. CASE UNCHANGED vars
  BY <1>1, <1>2 DEF vars, CallInv, Claimed, NumberInv, RowidsIncrease, ExactInv, ScanInv,
     RowCountNeverOverstates
<1>3. ASSUME NEW h \in Handles, Step(h) PROVE IInv'
  BY <1>1, <1>3, CallStep, NumberStep, ExactStep, ScanStep, CountStep
<1> QED BY <1>2, <1>3, StepCases

\* The inductive invariant of the table and its programs.
THEOREM Invariance == Spec => []IInv
<1>1. Init => IInv
  BY InitInv
<1>2. IInv /\ [Next]_vars => IInv'
  BY InvStep
<1> QED BY <1>1, <1>2, PTL DEF Spec

\* Without a torn insert, the row at position i has rowid i (or none): the
\* addressing FDBCursorToRowid uses is right however the programs interleave.
THEOREM RowidIsPositionAlways == Spec => []RowidIsPosition
<1>1. IInv => RowidIsPosition
  BY DEF IInv, ExactInv, RowidIsPosition
<1> QED BY <1>1, Invariance, PTL

\* No rowid is handed out twice, whatever fails and whoever crashes.
THEOREM RowidsIncreaseAlways == Spec => []RowidsIncrease
<1>1. IInv => RowidsIncrease
  BY DEF IInv, NumberInv
<1> QED BY <1>1, Invariance, PTL

\* FDBRowCount's cached answer never exceeds the rows in the file.
THEOREM RowCountNeverOverstatesAlways == Spec => []RowCountNeverOverstates
<1>1. IInv => RowCountNeverOverstates
  BY DEF IInv
<1> QED BY <1>1, Invariance, PTL

\* For a program that scans and commits through one cursor and seeks through
\* another, the assertion in FDBCursorCommit holds.
THEOREM CommitFindsItemAlways == Spec => []CommitFindsItem
<1>1. IInv => CommitFindsItem
  <2> SUFFICES ASSUME IInv, NEW h \in Handles, "commit" \in Calls[h]
               PROVE  cur[h].index <= Window
    BY DEF CommitFindsItem
  <2>1. "rowid" \notin Calls[h]
    BY ClientAssumption
  <2>2. cur[h].index \in Nat /\ cur[h].length \in Nat
    BY DEF IInv, TypeOK, CursorT
  <2>3. cur[h].index + cur[h].length <= Window /\ Window \in Nat
    BY <2>1, FDBAssumption DEF IInv, ScanInv
  <2> QED BY <2>2, <2>3
<1> QED BY <1>1, Invariance, PTL

-----------------------------------------------------------------------------
(* Rows by rowid.                                                          *)

Seekers == {h \in Handles : "rowid" \in Calls[h]}

\* No more rowids are handed out than the bound allows, so that no sum over a
\* window wraps.
NumberBound ==
    /\ lastRowid <= MaxRowid
    /\ \A h \in Handles :
        /\ hdl[h].lastRowid <= MaxRowid
        /\ ins[h].pc = "numbered" => Claimed(h) <= MaxRowid

\* A window that holds the rows from its location on, or one that a failed read
\* left with a length below zero and that InWindow finds nothing in.
Seen(c) ==
    \/ /\ c.index + c.length <= Window
       /\ c.location + c.index + c.length <= MaxRowid
       /\ \A j \in 1..(c.index + c.length) : c.data[j] \in {c.location + j, Unset}
    \/ c.index = 1 /\ c.length = Wrap - 1 /\ c.location < Wrap

Right(a) == ~a.unread /\ a.kind = "row" /\ a.asked > 0 => a.row \in {a.asked, Unset}

SeekInv == ~torn => \A h \in Seekers : Seen(cur[h]) /\ Right(out[h])

LEMMA NewCursorSeen == Seen(NewCursor) /\ Right(Nothing)
<1>1. /\ NewCursor.location = 0 /\ NewCursor.index = 0 /\ NewCursor.length = 0
      /\ Nothing.kind = "none"
  BY DEF NewCursor, Nothing, Told
<1>2. 0 <= MaxRowid /\ 0 <= Window /\ 1..0 = {}
  BY FDBAssumption
<1> QED BY <1>1, <1>2 DEF Seen, Right

LEMMA BoundStep == ASSUME IInv, NumberBound, [Next]_vars PROVE NumberBound'
<1>0. /\ TypeOK /\ CallInv /\ hdl \in [Handles -> HandleT] /\ ins \in [Handles -> InsertT]
      /\ lastRowid \in Nat /\ MaxRowid \in Nat
  BY FDBAssumption DEF IInv, TypeOK
<1>1. \A h \in Handles : hdl[h].lastRowid \in Nat
  BY <1>0 DEF HandleT
<1>2. CASE UNCHANGED vars
  BY <1>2 DEF vars, NumberBound, Claimed
<1>3. ASSUME NEW h \in Handles, Step(h) PROVE NumberBound'
  <2>1. CASE Create(h)
    BY <1>0, <2>1 DEF Create, NumberBound, Opened, Claimed
  <2>2. CASE Open(h)
    BY <1>0, <2>2 DEF Open, NumberBound, Opened, Claimed, disk
  <2>3. CASE Close(h) \/ Crash(h)
    <3>1. /\ lastRowid' = lastRowid
          /\ hdl' = [hdl EXCEPT ![h] = Closed] /\ ins' = [ins EXCEPT ![h] = Idle]
      BY <2>3 DEF Close, Crash, Forget, disk
    <3>2. Closed.lastRowid = 0 /\ Idle.pc = "idle"
      BY DEF Closed, Idle
    <3> QED BY <1>0, <3>1, <3>2 DEF NumberBound, Claimed
  <2>4. CASE Observe(h)
    BY <1>0, <2>4, ObserveFacts DEF NumberBound, Claimed
  <2>5. CASE InsertBegin(h)
    <3>1. PICK api \in {"data", "one"}, n \in 1..MaxBatch :
             /\ hdl[h].lastRowid + n <= MaxRowid
             /\ ins' = [ins EXCEPT ![h] = [pc |-> "numbered", first |-> hdl[h].lastRowid + 1,
                                           n |-> n, api |-> api]]
             /\ hdl' = IF api = "one" THEN [hdl EXCEPT ![h].rowCount = -1] ELSE hdl
      BY <2>5 DEF InsertBegin
    <3>2. /\ lastRowid' = lastRowid
          /\ \A g \in Handles : hdl'[g].lastRowid = hdl[g].lastRowid
      BY <1>0, <2>5, <3>1 DEF InsertBegin, disk, HandleT
    <3>3. /\ ins'[h].first = hdl[h].lastRowid + 1 /\ ins'[h].n = n
          /\ \A g \in Handles : g # h => ins'[g] = ins[g]
      BY <1>0, <3>1
    <3>4. ins'[h].first + ins'[h].n - 1 <= MaxRowid
      <4>1. n \in Nat
        BY FDBAssumption
      <4> QED BY <1>0, <1>1, <3>1, <3>3, <4>1
    <3> QED BY <1>0, <3>2, <3>3, <3>4 DEF NumberBound, Claimed
  <2>6. CASE InsertClass(h)
    <3>1. /\ ins[h].pc = "numbered" /\ lastRowid' = Claimed(h)
          /\ hdl' = [hdl EXCEPT ![h].lastRowid = Claimed(h)]
          /\ ins' = [ins EXCEPT ![h].pc = "class"]
      BY <2>6 DEF InsertClass
    <3>2. /\ hdl'[h].lastRowid = Claimed(h) /\ ins'[h].pc = "class"
          /\ \A g \in Handles : g # h => hdl'[g] = hdl[g] /\ ins'[g] = ins[g]
      BY <1>0, <3>1 DEF HandleT, InsertT, Idle
    <3> QED BY <1>0, <3>1, <3>2 DEF NumberBound, Claimed
  <2>7. CASE InsertClassFails(h)
    <3>1. /\ ins[h].pc = "numbered" /\ lastRowid' \in {lastRowid, Claimed(h)}
          /\ hdl' = hdl /\ ins' = [ins EXCEPT ![h] = Idle]
      BY <2>7 DEF InsertClassFails
    <3> QED BY <1>0, <3>1 DEF NumberBound, Claimed, Idle
  <2>8. CASE InsertRows(h) \/ InsertRowsFails(h)
    <3>1. lastRowid' = lastRowid /\ hdl' = hdl /\ ins' = [ins EXCEPT ![h] = Idle]
      BY <2>8 DEF InsertRows, InsertRowsFails
    <3> QED BY <1>0, <3>1 DEF NumberBound, Claimed, Idle
  <2> QED BY <1>3, <2>1, <2>2, <2>3, <2>4, <2>5, <2>6, <2>7, <2>8 DEF Step
<1> QED BY <1>2, <1>3, StepCases DEF IInv

\* Rows of a table that is not torn are where their rowid says, within the bound.
LEMMA RowFacts ==
    ASSUME IInv, NumberBound, ~torn
    PROVE  /\ rows \in Seq(Row) /\ Len(rows) \in Nat /\ Len(rows) <= MaxRowid
           /\ \A i \in 1..Len(rows) : rows[i] \in {i, Unset}
<1>1. /\ rows \in Seq(Row) /\ Len(rows) \in Nat /\ lastRowid \in Nat /\ MaxRowid \in Nat
      /\ DOMAIN rows = 1..Len(rows) /\ TypeOK /\ CallInv
  BY FDBAssumption DEF IInv, TypeOK
<1>2. /\ \A i \in DOMAIN rows : rows[i] \in {i, Unset}
      /\ \A h \in Writers : ins[h].pc = "class" => lastRowid = Len(rows) + ins[h].n
      /\ (\A h \in Writers : ins[h].pc # "class") => lastRowid = Len(rows)
  BY DEF IInv, ExactInv
<1>3. Len(rows) <= lastRowid
  <2>1. ASSUME NEW h \in Writers, ins[h].pc = "class"
        PROVE  Len(rows) <= lastRowid
    <3>1. ins[h].n \in Nat
      BY <1>1, <2>1, FDBAssumption, InsertFacts
    <3>2. lastRowid = Len(rows) + ins[h].n
      BY <1>2, <2>1
    <3> QED BY <1>1, <3>1, <3>2
  <2>2. CASE \A h \in Writers : ins[h].pc # "class"
    <3>1. lastRowid = Len(rows)
      BY <1>2, <2>2
    <3> QED BY <1>1, <3>1
  <2> QED BY <2>1, <2>2
<1>4. lastRowid <= MaxRowid
  BY DEF NumberBound
<1>5. \A i \in 1..Len(rows) : rows[i] \in {i, Unset}
  BY <1>1, <1>2
<1> QED BY <1>1, <1>3, <1>4, <1>5

\* A window filled at a row of the table, its first item given out.
LEMMA FilledSeen ==
    ASSUME IInv, NumberBound, ~torn, NEW c \in CursorT, NEW r \in 1..Len(rows), rows[r] = r
    PROVE  LET w == Filled(c, r - 1)
           IN  Seen(Stepped(w)) /\ ItemAt(w) \in {r, Unset}
<1> DEFINE w == Filled(c, r - 1)
           k == Readable(r - 1)
<1>1. /\ rows \in Seq(Row) /\ Len(rows) \in Nat /\ Len(rows) <= MaxRowid
      /\ \A i \in 1..Len(rows) : rows[i] \in {i, Unset}
  BY RowFacts
<1>2. /\ Window \in Nat \ {0} /\ Wrap \in Nat /\ Wrap > Window /\ MaxRowid \in Nat
      /\ r - 1 \in Nat /\ r - 1 < Len(rows)
  BY <1>1, FDBAssumption
<1>3. /\ w \in CursorT /\ w.location = r - 1 /\ w.index = 0 /\ w.length = k
      /\ k \in 0..Window
      /\ k > 0 => r - 1 + k <= Len(rows)
      /\ k = 0 => r - 1 >= Len(rows)
      /\ \A j \in 1..k : w.data[j] = rows[r - 1 + j]
  BY <1>1, <1>2, FilledType
<1> HIDE DEF w, k
<1>4. k \in 1..(Wrap - 1)
  BY <1>1, <1>2, <1>3
<1>5. /\ Stepped(w).data = w.data /\ Stepped(w).location = r - 1
      /\ Stepped(w).index = 1 /\ Stepped(w).length = k - 1
  <2>1. w \in CursorT /\ w.length \in 1..(Wrap - 1)
    BY <1>3, <1>4
  <2>2. /\ Stepped(w).data = w.data /\ Stepped(w).location = w.location
        /\ Stepped(w).index = w.index + 1 /\ Stepped(w).length = w.length - 1
    BY <2>1, SteppedType
  <2> QED BY <1>3, <2>2
<1>6. \A j \in 1..k : w.data[j] \in {r - 1 + j, Unset}
  <2>1. \A j \in 1..k : r - 1 + j \in 1..Len(rows)
    BY <1>1, <1>2, <1>3, <1>4
  <2> QED BY <1>1, <1>3, <2>1
<1>7. 1 + (k - 1) = k /\ r - 1 + 1 + (k - 1) = r - 1 + k
  BY <1>2, <1>4
<1>8. Seen(Stepped(w))
  <2>1. k <= Window /\ r - 1 + k <= MaxRowid
    BY <1>1, <1>2, <1>3, <1>4
  <2> QED BY <1>5, <1>6, <1>7, <2>1 DEF Seen
<1>9. ItemAt(w) \in {r, Unset}
  <2>1. 1 \in 1..k /\ r - 1 + 1 = r
    BY <1>2, <1>4
  <2>2. ItemAt(w) = w.data[1]
    BY <1>2, <1>3 DEF ItemAt, HasItem
  <2> QED BY <1>6, <2>1, <2>2
<1> QED BY <1>8, <1>9 DEF w

\* A row found in the window a cursor has.
LEMMA WindowSeen ==
    ASSUME NEW c \in CursorT, Seen(c), NEW r \in 1..MaxRowid, InWindow(c, r),
           NEW x, x = r - 1 - c.location,
           NEW n, n = c.location + c.index + c.length - (r - 1),
           NEW w, w = [c EXCEPT !.index = x, !.length = n % Wrap]
    PROVE  Seen(Stepped(w)) /\ ItemAt(w) \in {r, Unset}
<1> DEFINE e == c.location + c.index + c.length
<1>1. /\ c.location \in Nat /\ c.index \in Nat /\ c.length \in Nat
      /\ Wrap \in Nat \ {0} /\ Window \in Nat /\ MaxRowid \in Nat /\ Wrap > MaxRowid + Window
  BY FDBAssumption, SMTT(20) DEF CursorT
<1>2. r - 1 >= c.location /\ r - 1 < e % Wrap
  BY DEF InWindow
<1>3. ~(c.index = 1 /\ c.length = Wrap - 1 /\ c.location < Wrap)
  <2> SUFFICES ASSUME c.index = 1, c.length = Wrap - 1, c.location < Wrap
               PROVE  FALSE
    OBVIOUS
  <2>1. e \in Wrap..(2 * Wrap - 1) /\ e - Wrap = c.location
    BY <1>1
  <2>2. e % Wrap = e - Wrap
    <3> HIDE DEF e
    <3> QED BY <1>1, <2>1, ModOnce
  <2> QED BY <1>1, <1>2, <2>1, <2>2
<1>4. /\ c.index + c.length <= Window /\ e <= MaxRowid
      /\ \A j \in 1..(c.index + c.length) : c.data[j] \in {c.location + j, Unset}
  BY <1>3 DEF Seen
<1>5. e \in 0..(Wrap - 1)
  BY <1>1, <1>4
<1>6. e % Wrap = e
  <2> HIDE DEF e
  <2> QED BY <1>1, <1>5, ModSmall
<1>7. n \in 1..(Wrap - 1) /\ x \in Nat /\ x + n = c.index + c.length
  <2>1. r - 1 < e /\ e <= Wrap - 1 /\ e \in Nat /\ r - 1 \in Nat
    BY <1>1, <1>2, <1>5, <1>6
  <2>2. n \in 1..(Wrap - 1)
    <3>1. n = e - (r - 1)
      BY <1>1
    <3> HIDE DEF e
    <3> QED BY <1>1, <2>1, <3>1
  <2>3. x \in Nat
    BY <1>1, <1>2, <2>1
  <2>4. x + n = c.index + c.length
    BY <1>1
  <2> QED BY <2>2, <2>3, <2>4
<1>8. n % Wrap = n /\ n \in Nat
  <2>1. n \in 0..(Wrap - 1) /\ n \in Nat
    BY <1>1, <1>7
  <2> QED BY <1>1, <2>1, ModSmall
<1>9. /\ w \in CursorT /\ w.data = c.data /\ w.location = c.location
      /\ w.index = x /\ w.length = n
  <2>1. w = [c EXCEPT !.index = x, !.length = n]
    BY <1>8
  <2> QED BY <1>7, <1>8, <2>1 DEF CursorT
<1>10. c.location + (x + 1) + (n - 1) = e /\ (x + 1) + (n - 1) = c.index + c.length
  BY <1>1, <1>7
<1> HIDE DEF e
<1>11. x + 1 \in 1..(c.index + c.length) /\ c.location + (x + 1) = r /\ x < Window
  <2>1. c.index + c.length \in Nat /\ c.index + c.length <= Window
    BY <1>1, <1>4
  <2>2. x \in Nat /\ x + 1 <= c.index + c.length
    BY <1>7, <2>1
  <2>3. c.location + (x + 1) = r
    BY <1>1
  <2> QED BY <1>1, <2>1, <2>2, <2>3
<1>12. /\ Stepped(w).data = c.data /\ Stepped(w).location = c.location
       /\ Stepped(w).index = x + 1 /\ Stepped(w).length = n - 1
  BY <1>7, <1>9, SteppedType
<1>13. Seen(Stepped(w))
  BY <1>4, <1>10, <1>12 DEF Seen
<1>14. ItemAt(w) \in {r, Unset}
  <2>1. ItemAt(w) = c.data[x + 1]
    BY <1>9, <1>11 DEF ItemAt, HasItem
  <2> QED BY <1>4, <1>11, <2>1
<1> QED BY <1>13, <1>14

LEMMA SeekRow ==
    ASSUME IInv, NumberBound, ~torn, NEW h \in Handles, Seen(cur[h]), ToRowid(h)
    PROVE  Seen(cur'[h]) /\ Right(out'[h])
<1> DEFINE c == cur[h]
           win(r) == [c EXCEPT !.index  = r - 1 - c.location,
                               !.length = (c.location + c.index + c.length - (r - 1)) % Wrap]
           w(r) == IF InWindow(c, r) THEN win(r) ELSE Filled(c, r - 1)
<1>1. /\ cur \in [Handles -> CursorT] /\ out \in [Handles -> AnswerT] /\ c \in CursorT
  BY DEF IInv, TypeOK
<1>2. /\ rows \in Seq(Row) /\ Len(rows) \in Nat /\ Len(rows) <= MaxRowid
      /\ \A i \in 1..Len(rows) : rows[i] \in {i, Unset}
  BY RowFacts
<1>3. PICK r \in {rows[i] : i \in DOMAIN rows} \ {Unset, Garbage} :
         /\ cur' = [cur EXCEPT ![h] = Stepped(w(r))]
         /\ out' = [out EXCEPT ![h] = Told("row", ItemAt(w(r)), r)]
  BY DEF ToRowid
<1>4. r \in 1..Len(rows) /\ rows[r] = r
  BY <1>2, <1>3
<1>5. r \in 1..MaxRowid
  BY <1>2, <1>4, FDBAssumption
<1>6. CASE InWindow(c, r)
  <2>1. w(r) = win(r)
    BY <1>6
  <2>2. Seen(Stepped(win(r))) /\ ItemAt(win(r)) \in {r, Unset}
    BY <1>1, <1>5, <1>6, WindowSeen
  <2> HIDE DEF w, win
  <2>3. Seen(cur'[h]) /\ out'[h] = Told("row", ItemAt(w(r)), r)
    BY <1>1, <1>3, <2>1, <2>2
  <2> QED BY <2>1, <2>2, <2>3 DEF Right, Told
<1>7. CASE ~InWindow(c, r)
  <2>1. w(r) = Filled(c, r - 1)
    BY <1>7
  <2>2. Seen(Stepped(Filled(c, r - 1))) /\ ItemAt(Filled(c, r - 1)) \in {r, Unset}
    BY <1>1, <1>4, FilledSeen
  <2> HIDE DEF w
  <2>3. Seen(cur'[h]) /\ out'[h] = Told("row", ItemAt(w(r)), r)
    BY <1>1, <1>3, <2>1, <2>2
  <2> QED BY <2>1, <2>2, <2>3 DEF Right, Told
<1> QED BY <1>6, <1>7

LEMMA SeekFails ==
    ASSUME IInv, NumberBound, ~torn, NEW h \in Handles, Seen(cur[h]), ToRowidFails(h)
    PROVE  Seen(cur'[h]) /\ Right(out'[h])
<1>1. /\ cur \in [Handles -> CursorT] /\ out \in [Handles -> AnswerT] /\ cur[h] \in CursorT
  BY DEF IInv, TypeOK
<1>2. /\ rows \in Seq(Row) /\ Len(rows) \in Nat /\ Len(rows) <= MaxRowid
      /\ \A i \in 1..Len(rows) : rows[i] \in {i, Unset}
  BY RowFacts
<1>3. out'[h].kind = "fail" \/ out'[h].unread
  BY <1>1 DEF ToRowidFails, Told, Unread
<1>4. PICK r \in {rows[i] : i \in DOMAIN rows} \ {Unset, Garbage} :
         \/ UNCHANGED cur
         \/ cur' = [cur EXCEPT ![h] = Stepped(Emptied(cur[h].data, r - 1))]
  BY DEF ToRowidFails
<1>5. r \in 1..Len(rows)
  BY <1>2, <1>4
<1>6. CASE UNCHANGED cur
  BY <1>3, <1>6 DEF Right
<1>7. CASE cur' = [cur EXCEPT ![h] = Stepped(Emptied(cur[h].data, r - 1))]
  <2> DEFINE w == Emptied(cur[h].data, r - 1)
  <2>1. /\ Wrap \in Nat \ {0} /\ MaxRowid \in Nat /\ Wrap > MaxRowid
        /\ r - 1 < Wrap /\ Wrap - 1 \in 0..(Wrap - 1) /\ 0 + Wrap - 1 = Wrap - 1
    BY <1>2, <1>5, FDBAssumption
  <2>2. (Wrap - 1) % Wrap = Wrap - 1
    BY <2>1, ModSmall
  <2>3. cur'[h] = Stepped(w)
    BY <1>1, <1>7
  <2>4. w.location = r - 1 /\ w.index = 0 /\ w.length = 0
    BY DEF Emptied
  <2> HIDE DEF w
  <2>5. /\ Stepped(w).index = 1 /\ Stepped(w).location = r - 1
        /\ Stepped(w).length = Wrap - 1
    BY <2>1, <2>2, <2>4 DEF Stepped
  <2>6. Seen(Stepped(w))
    BY <2>1, <2>5 DEF Seen
  <2> QED BY <1>3, <2>3, <2>6 DEF Right
<1> QED BY <1>4, <1>6, <1>7

\* A program that seeks changes its cursor by seeking, or loses it.
LEMMA SeekerSteps ==
    ASSUME IInv, NEW g \in Handles, Step(g), NEW h \in Seekers
    PROVE  \/ cur'[h] = cur[h] /\ out'[h] = out[h]
           \/ cur'[h] = NewCursor /\ out'[h] = Nothing
           \/ g = h /\ (ToRowid(h) \/ ToRowidFails(h))
<1>1. /\ TypeOK /\ cur \in [Handles -> CursorT] /\ out \in [Handles -> AnswerT]
      /\ h \in Handles /\ "next" \notin Calls[h]
  BY ClientAssumption DEF IInv, TypeOK, Seekers
<1>2. CASE Close(g) \/ Crash(g)
  BY <1>1, <1>2 DEF Close, Crash, Forget
<1>3. CASE Observe(g)
  <2>1. CASE g # h
    BY <1>1, <1>3, <2>1, ObserveFacts
  <2>2. CASE g = h
    BY <1>1, <1>3, <2>2 DEF Observe, RowCount, Query, NextItem, NextEnd, NextFails
  <2> QED BY <2>1, <2>2
<1>4. CASE Create(g) \/ Open(g)
  BY <1>4 DEF Create, Open
<1>5. CASE Insert(g)
  BY <1>5 DEF Insert, InsertBegin, InsertClass, InsertClassFails, InsertRows, InsertRowsFails
<1> QED BY <1>2, <1>3, <1>4, <1>5 DEF Step, Insert

LEMMA SeekStep == ASSUME IInv, NumberBound, SeekInv, [Next]_vars PROVE SeekInv'
<1>1. CASE UNCHANGED vars
  BY <1>1 DEF vars, SeekInv
<1>2. ASSUME NEW g \in Handles, Step(g) PROVE SeekInv'
  <2>1. CASE Create(g)
    <3>1. \A h \in Handles : cur[h] = NewCursor /\ out[h] = Nothing
      BY <2>1 DEF Create, IInv, CallInv
    <3>2. UNCHANGED <<cur, out>>
      BY <2>1 DEF Create
    <3> QED BY <3>1, <3>2, NewCursorSeen DEF SeekInv, Seekers
  <2>2. CASE ~Create(g)
    <3>1. torn => torn'
      <4>1. CASE Observe(g)
        BY <4>1, ObserveFacts DEF IInv
      <4>2. CASE ~Observe(g)
        BY <1>2, <2>2, <4>2 DEF Step, disk, Open, Close, Crash, InsertBegin, InsertClass,
           InsertClassFails, InsertRows, InsertRowsFails
      <4> QED BY <4>1, <4>2
    <3>2. ASSUME ~torn, NEW h \in Seekers
          PROVE  Seen(cur'[h]) /\ Right(out'[h])
      <4>1. h \in Handles /\ Seen(cur[h]) /\ Right(out[h])
        BY <3>2 DEF SeekInv, Seekers
      <4> QED BY <1>2, <3>2, <4>1, SeekerSteps, SeekRow, SeekFails, NewCursorSeen
    <3> QED BY <3>1, <3>2 DEF SeekInv
  <2> QED BY <2>1, <2>2
<1> QED BY <1>1, <1>2, StepCases DEF IInv

LEMMA SeekInit == Init => NumberBound /\ SeekInv
<1> SUFFICES ASSUME Init PROVE NumberBound /\ SeekInv
  OBVIOUS
<1>1. /\ lastRowid = 0 /\ hdl = [h \in Handles |-> Closed] /\ ins = [h \in Handles |-> Idle]
      /\ cur = [h \in Handles |-> NewCursor] /\ out = [h \in Handles |-> Nothing]
  BY DEF Init
<1>2. Closed.lastRowid = 0 /\ Idle.pc = "idle" /\ 0 <= MaxRowid
  BY FDBAssumption DEF Closed, Idle
<1>3. NumberBound
  BY <1>1, <1>2 DEF NumberBound
<1>4. SeekInv
  BY <1>1, NewCursorSeen DEF SeekInv, Seekers
<1> QED BY <1>3, <1>4

\* A row asked for by its rowid is the row that comes, or one that FDBInsert left
\* without a number, unless the read() of this very call failed: through a window
\* older than the file, and in the calls behind a failed read, as long as no
\* insert was torn.
THEOREM SeekFindsRowAlways == Spec => []SeekFindsRow
<1> DEFINE S == NumberBound /\ SeekInv
<1>1. Init => S
  BY SeekInit
<1>2. IInv /\ S /\ [Next]_vars => S'
  BY BoundStep, SeekStep
<1>3. IInv /\ S => SeekFindsRow
  <2> SUFFICES ASSUME IInv, SeekInv, NEW h \in Handles,
                      ~torn, ~out[h].unread, out[h].kind = "row", out[h].asked > 0
               PROVE  out[h].row \in {out[h].asked, Unset}
    BY DEF SeekFindsRow
  <2>1. CASE h \in Seekers
    BY <2>1 DEF SeekInv, Right
  <2>2. CASE h \notin Seekers
    <3>1. out[h].asked = 0
      BY <2>2 DEF IInv, ScanInv, Seekers
    <3> QED BY <3>1
  <2> QED BY <2>1, <2>2
<1> HIDE DEF S
<1> QED BY <1>1, <1>2, <1>3, Invariance, PTL DEF Spec

-----------------------------------------------------------------------------
(* A windowed scan implements FDBScan.                                     *)

Place(h)  == cur[h].location + cur[h].index
Answer(h) == [kind |-> out[h].kind, id |-> out[h].row]

LEMMA ExceptOne ==
    ASSUME NEW S, NEW h \in S, NEW v, NEW f, NEW g,
           f = [s \in S |-> f[s]], g = [s \in S |-> g[s]],
           g[h] = v, \A s \in S : s # h => g[s] = f[s]
    PROVE  g = [f EXCEPT ![h] = v]
OBVIOUS

LEMMA ScanRefinementStep ==
    ASSUME IInv, [Next]_vars
    PROVE  [Scan!Next]_(Scan!avars)
<1> DEFINE pos == [s \in Scanners |-> Place(s)]
           ret == [s \in Scanners |-> Answer(s)]
<1> USE DEF Scan!avars, Place, Answer
<1>0. TypeOK /\ CallInv /\ ScanInv
  BY DEF IInv
<1>c. ASSUME UNCHANGED <<rows, cur, out>> PROVE UNCHANGED Scan!avars
  BY <1>c
<1>1. CASE UNCHANGED vars
  BY <1>1, <1>c DEF vars
<1>2. ASSUME NEW h \in Handles, Step(h) PROVE [Scan!Next]_(Scan!avars)
  <2>0. /\ cur \in [Handles -> CursorT] /\ out \in [Handles -> AnswerT]
        /\ \A s \in Scanners : s \in Handles /\ "rowid" \notin Calls[s]
        /\ rows \in Seq(Row) /\ Len(rows) \in Nat
    BY <1>0, ClientAssumption DEF TypeOK, Scanners
  <2>1. CASE Create(h)
    <3>1. /\ rows' = <<>> /\ UNCHANGED <<cur, out>>
          /\ \A s \in Scanners : cur[s] = NewCursor /\ out[s] = Nothing
      BY <1>0, <2>0, <2>1 DEF Create, CallInv
    <3>2. \A s \in Scanners : Place(s) = 0 /\ Answer(s) = Scan!Nothing
      BY <3>1 DEF NewCursor, Nothing, Told, Garbage, Scan!Nothing
    <3>3. Scan!Recreate
      BY <3>1, <3>2 DEF Scan!Recreate
    <3> QED BY <3>3 DEF Scan!Next
  <2>2. CASE Open(h) \/ InsertBegin(h) \/ InsertClass(h) \/ InsertClassFails(h)
    BY <1>c, <2>2 DEF Open, InsertBegin, InsertClass, InsertClassFails, disk
  <2>3. CASE InsertRows(h) \/ InsertRowsFails(h)
    <3>1. /\ Len(rows') >= Len(rows) /\ \A i \in 1..Len(rows) : rows'[i] = rows[i]
          /\ rows' \in Seq(Row)
      BY <1>0, <2>3, Appended
    <3>2. UNCHANGED <<cur, out>>
      BY <2>3 DEF InsertRows, InsertRowsFails
    <3>3. Scan!Grow
      BY <2>0, <3>1, <3>2 DEF Scan!Grow
    <3> QED BY <3>3 DEF Scan!Next
  <2>r. ASSUME h \in Scanners, UNCHANGED rows,
               cur' = [cur EXCEPT ![h] = NewCursor], out' = [out EXCEPT ![h] = Nothing]
        PROVE  Scan!Restart(h)
    <3>1. cur'[h] = NewCursor /\ out'[h] = Nothing
      BY <2>0, <2>r
    <3>2. \A s \in Scanners : s # h => cur'[s] = cur[s] /\ out'[s] = out[s]
      BY <2>0, <2>r
    <3>3. NewCursor.location + NewCursor.index = 0
          /\ [kind |-> Nothing.kind, id |-> Nothing.row] = Scan!Nothing
      BY DEF NewCursor, Nothing, Told, Garbage, Scan!Nothing
    <3>4. pos' = [pos EXCEPT ![h] = 0]
      <4>1. pos'[h] = 0 /\ \A s \in Scanners : s # h => pos'[s] = pos[s]
        BY <2>r, <3>1, <3>2, <3>3
      <4>2. pos = [s \in Scanners |-> pos[s]] /\ pos' = [s \in Scanners |-> pos'[s]]
        OBVIOUS
      <4> HIDE DEF pos
      <4> QED BY <2>r, <4>1, <4>2, ExceptOne
    <3>5. ret' = [ret EXCEPT ![h] = Scan!Nothing]
      <4>1. ret'[h] = Scan!Nothing /\ \A s \in Scanners : s # h => ret'[s] = ret[s]
        BY <2>r, <3>1, <3>2, <3>3
      <4>2. ret = [s \in Scanners |-> ret[s]] /\ ret' = [s \in Scanners |-> ret'[s]]
        OBVIOUS
      <4> HIDE DEF ret
      <4> QED BY <2>r, <4>1, <4>2, ExceptOne
    <3> QED BY <2>r, <3>4, <3>5 DEF Scan!Restart
  <2>o. ASSUME h \notin Scanners, UNCHANGED rows,
               \A g \in Handles : g # h => cur'[g] = cur[g] /\ out'[g] = out[g]
        PROVE  UNCHANGED Scan!avars
    BY <2>0, <2>o
  <2>4. CASE Close(h) \/ Crash(h)
    <3>1. /\ UNCHANGED rows /\ cur' = [cur EXCEPT ![h] = NewCursor]
          /\ out' = [out EXCEPT ![h] = Nothing]
      BY <2>4 DEF Close, Crash, Forget, disk
    <3>2. CASE h \in Scanners
      BY <2>r, <3>1, <3>2 DEF Scan!Next
    <3>3. CASE h \notin Scanners
      BY <2>0, <2>o, <3>1, <3>3
    <3> QED BY <3>2, <3>3
  <2>5. CASE Observe(h)
    <3>0. /\ UNCHANGED rows
          /\ \A g \in Handles : g # h => cur'[g] = cur[g] /\ out'[g] = out[g]
      BY <1>0, <2>5, ObserveFacts
    <3>1. CASE h \notin Scanners
      BY <2>o, <3>0, <3>1
    <3>2. CASE h \in Scanners
      <4>0. /\ Faithful(cur[h]) /\ cur[h] \in CursorT
            /\ cur[h].location \in Nat /\ cur[h].index \in Nat
        BY <1>0, <2>0, <3>2 DEF ScanInv, Faithful, CursorT
      <4>p. ASSUME NEW q, NEW a, cur'[h].location + cur'[h].index = q,
                   out'[h].kind = a.kind, out'[h].row = a.id,
                   a = [kind |-> a.kind, id |-> a.id]
            PROVE  pos' = [pos EXCEPT ![h] = q] /\ ret' = [ret EXCEPT ![h] = a]
        <5>1. pos'[h] = q /\ ret'[h] = a
          BY <3>2, <4>p
        <5>2. \A s \in Scanners : s # h => pos'[s] = pos[s] /\ ret'[s] = ret[s]
          BY <2>0, <3>0
        <5>3. /\ pos = [s \in Scanners |-> pos[s]] /\ pos' = [s \in Scanners |-> pos'[s]]
              /\ ret = [s \in Scanners |-> ret[s]] /\ ret' = [s \in Scanners |-> ret'[s]]
          OBVIOUS
        <5> HIDE DEF pos, ret
        <5> QED BY <3>2, <5>1, <5>2, <5>3, ExceptOne
      <4>2. CASE Query(h)
        BY <2>r, <3>0, <3>2, <4>2 DEF Query, Scan!Next
      <4>3. CASE NextItem(h)
        <5>1. PICK kind \in {"row", "skip"} :
                 out' = [out EXCEPT ![h] = IF HasItem(Fetched(h))
                                  THEN Told(kind, ItemAt(Fetched(h)), 0)
                                  ELSE Told(IF kind = "row" THEN "end" ELSE "skip", Garbage, 0)]
          BY <4>3 DEF NextItem
        <5>2. Fetched(h).length # 0 /\ cur'[h] = Stepped(Fetched(h))
          BY <2>0, <4>3 DEF NextItem
        <5>3. /\ Stepped(Fetched(h)).location + Stepped(Fetched(h)).index = Place(h) + 1
              /\ HasItem(Fetched(h)) /\ Place(h) + 1 \in 1..Len(rows)
              /\ ItemAt(Fetched(h)) = rows[Place(h) + 1]
          BY <1>0, <4>0, <5>2, ScanTurn
        <5>4. out'[h] = Told(kind, rows[Place(h) + 1], 0)
          BY <2>0, <5>1, <5>3
        <5> DEFINE a == [kind |-> kind, id |-> rows[Place(h) + 1]]
        <5>5. pos' = [pos EXCEPT ![h] = Place(h) + 1] /\ ret' = [ret EXCEPT ![h] = a]
          <6>1. a.kind = kind /\ a.id = rows[Place(h) + 1]
                /\ a = [kind |-> a.kind, id |-> a.id]
            OBVIOUS
          <6>2. out'[h].kind = kind /\ out'[h].row = rows[Place(h) + 1]
            BY <5>4 DEF Told
          <6> HIDE DEF a, pos, ret
          <6> QED BY <4>p, <5>2, <5>3, <6>1, <6>2
        <5>6. pos[h] = Place(h) /\ Place(h) < Len(rows)
          BY <2>0, <3>2, <4>0, <5>3
        <5>7. Scan!Examine(h)
          BY <3>0, <5>5, <5>6 DEF Scan!Examine
        <5> QED BY <3>2, <5>7 DEF Scan!Next
      <4>4. CASE NextEnd(h)
        <5>1. Fetched(h).length = 0 /\ cur'[h] = Fetched(h) /\ out'[h] = Told("end", Garbage, 0)
          BY <2>0, <4>4 DEF NextEnd
        <5>2. /\ Fetched(h).location + Fetched(h).index = Place(h)
              /\ Place(h) = Len(rows)
          BY <1>0, <4>0, <5>1, FetchedFaithful
        <5>3. pos' = [pos EXCEPT ![h] = Place(h)] /\ ret' = [ret EXCEPT ![h] = Scan!Done]
          <6>1. /\ Scan!Done = [kind |-> Scan!Done.kind, id |-> Scan!Done.id]
                /\ out'[h].kind = Scan!Done.kind /\ out'[h].row = Scan!Done.id
            BY <5>1 DEF Scan!Done, Told, Garbage
          <6> HIDE DEF pos, ret
          <6> QED BY <4>p, <5>1, <5>2, <6>1
        <5>4. pos' = pos /\ pos[h] = Len(rows)
          BY <3>2, <5>2, <5>3
        <5>5. Scan!Finish(h)
          BY <3>0, <5>3, <5>4 DEF Scan!Finish
        <5> QED BY <3>2, <5>5 DEF Scan!Next
      <4>5. CASE NextFails(h)
        <5>1. /\ cur'[h] = cur[h] \/ cur'[h] = Emptied(cur[h].data, Place(h))
              /\ out'[h] = Told("fail", Garbage, 0)
          BY <2>0, <4>5 DEF NextFails
        <5>2. cur'[h].location + cur'[h].index = Place(h)
          BY <4>0, <5>1 DEF Emptied
        <5>3. pos' = [pos EXCEPT ![h] = Place(h)] /\ ret' = [ret EXCEPT ![h] = Scan!Failed]
          <6>1. /\ Scan!Failed = [kind |-> Scan!Failed.kind, id |-> Scan!Failed.id]
                /\ out'[h].kind = Scan!Failed.kind /\ out'[h].row = Scan!Failed.id
            BY <5>1 DEF Scan!Failed, Told, Garbage
          <6> HIDE DEF pos, ret
          <6> QED BY <4>p, <5>2, <6>1
        <5>4. pos' = pos
          BY <3>2, <5>3
        <5>5. Scan!Fail(h)
          BY <3>0, <5>3, <5>4 DEF Scan!Fail
        <5> QED BY <3>2, <5>5 DEF Scan!Next
      <4>6. CASE RowCount(h) \/ ToRowid(h) \/ ToRowidFails(h)
        BY <2>0, <3>2, <4>6 DEF RowCount, ToRowid, ToRowidFails
      <4> QED BY <2>5, <4>2, <4>3, <4>4, <4>5, <4>6 DEF Observe
    <3> QED BY <3>1, <3>2
  <2> QED BY <1>2, <2>1, <2>2, <2>3, <2>4, <2>5 DEF Step
<1> QED BY <1>0, <1>1, <1>2, StepCases

\* However windows, appends, commits, failures and crashes interleave, a scan
\* with FDBCursorNext is a front-to-back scan of a growing table.
THEOREM ScanRefinement == Spec => ScanSpec
<1>1. Init => Scan!Init
  <2> SUFFICES ASSUME Init PROVE Scan!Init
    OBVIOUS
  <2>1. \A s \in Scanners : cur[s] = NewCursor /\ out[s] = Nothing
    BY DEF Init, Scanners
  <2>2. rows = <<>>
    BY DEF Init
  <2> QED BY <2>1, <2>2 DEF Scan!Init, Scan!Nothing, NewCursor, Nothing, Told, Garbage
<1>2. IInv /\ [Next]_vars => [Scan!Next]_(Scan!avars)
  BY ScanRefinementStep
<1> QED BY <1>1, <1>2, Invariance, PTL DEF Spec, ScanSpec, Scan!Spec
=============================================================================
