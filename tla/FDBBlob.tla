------------------------------ MODULE FDBBlob ------------------------------
(***************************************************************************)
(* The blob half of the FDB store, src/vTeam/c/db/hfdb.c:528-669: values   *)
(* appended to a ".bob" file as length and data, named by their place in   *)
(* it, and read through a handle's buffer, which is filled with as many    *)
(* records as fit behind the one asked for.  Nothing in the file separates *)
(* records: where one begins follows from the length of the one before.    *)
(*                                                                         *)
(* FDBBlobCreate holds flock(LOCK_EX) throughout, FDBBlobRead LOCK_SH      *)
(* while it fills the buffer and no lock when the buffer has the answer.   *)
(***************************************************************************)
EXTENDS Integers, Sequences

CONSTANTS
    Base,       (* values of a byte: a length takes HeadLen of them        *)
    TagLen,     (* bytes of FDBBlobTag                                     *)
    BufSize,    (* FDB_BLOB_BUF_SIZE                                       *)
    MaxData,    (* bound: bytes of a blob                                  *)
    MaxFile     (* bound: bytes of the file                                *)

HeadLen == 2

ASSUME FDBBlobAssumption ==
    /\ Base \in Nat /\ Base > 1
    /\ TagLen \in Nat \ {0}
    /\ BufSize \in Nat \ {0}
    /\ MaxData \in Nat /\ MaxData < Base * Base
    /\ MaxFile \in Nat

VARIABLES
    file,       (* the bytes of the file                                   *)
    blobs,      (* ghost: what was stored at each place FDBBlobCreate gave *)
    torn,       (* ghost: where a record was begun and not finished        *)
    win,        (* the reading handle's buffer: FDBInternal.blob           *)
    asked,      (* the place FDBBlobRead is filling the buffer for, or 0   *)
    out         (* its last answer                                         *)

vars == <<file, blobs, torn, win, asked, out>>

Byte == 0..Base - 1
Datas == UNION {[1..n -> Byte] : n \in 0..MaxData}

\* The bytes p+1 .. p+n of s.
Slice(s, p, n) == [i \in 1..n |-> s[p + i]]

\* A huint32 as its bytes, lowest first, and back.
Header(n) == <<n % Base, n \div Base>>
LengthAt(s, p) == s[p + 1] + Base * s[p + 2]
Record(d) == Header(Len(d)) \o d

\* win.size 0: nothing allocated yet.
Empty == [location |-> 0, bytes |-> <<>>, size |-> 0]
Answer(kind, place, data) == [kind |-> kind, place |-> place, data |-> data]
NoAnswer == Answer("none", 0, <<>>)

Init ==
    /\ file = <<>> /\ blobs = <<>> /\ torn = {}
    /\ win = Empty /\ asked = 0 /\ out = NoAnswer

-----------------------------------------------------------------------------
(* FDBBlobCreate, by any process.                                          *)

\* A read in progress has LOCK_SH.
Unlocked == asked = 0

\* The tag goes in front of the first record.
Tag == [i \in 1..(IF file = <<>> THEN TagLen ELSE 0) |-> 0]
Place == Len(file) + Len(Tag)

Create(d) ==
    /\ Unlocked /\ Len(file \o Tag \o Record(d)) <= MaxFile
    /\ file' = file \o Tag \o Record(d)
    /\ blobs' = [v \in DOMAIN blobs \cup {Place} |-> IF v = Place THEN d ELSE blobs[v]]
    /\ UNCHANGED <<torn, win, asked, out>>

\* One of its writes is cut short, or the process dies: part of it stays.
CreateFails(d) ==
    LET all == Tag \o Record(d)
    IN  /\ Unlocked /\ Len(file) + Len(all) <= MaxFile
        /\ \E k \in 0..Len(all) - 1 :
            /\ file' = file \o Slice(all, 0, k)
            /\ torn' = IF k > Len(Tag) THEN torn \cup {Place} ELSE torn
        /\ UNCHANGED <<blobs, win, asked, out>>

-----------------------------------------------------------------------------
(* FDBBlobRead, through one handle.                                        *)

\* Mutant of InBuffer: <= for <.
InBufferInclusive(w, v) == v >= w.location /\ v <= w.location + Len(w.bytes)

InBuffer(w, v) == v >= w.location /\ v < w.location + Len(w.bytes)

\* What lies in the buffer at place v; behind what was read it is anything.
Taken(w, v) ==
    LET p == v - w.location
    IN  IF /\ p + HeadLen <= Len(w.bytes)
           /\ p + HeadLen + LengthAt(w.bytes, p) <= Len(w.bytes)
        THEN Answer("blob", v, Slice(w.bytes, p + HeadLen, LengthAt(w.bytes, p)))
        ELSE Answer("junk", v, <<>>)

ReadHit(v) ==
    /\ asked = 0 /\ InBuffer(win, v)
    /\ out' = Taken(win, v)
    /\ UNCHANGED <<file, blobs, torn, win, asked>>

\* Mutant of ReadBegin: the place of the data is taken for the record's.
ReadBeginAtData(v) ==
    /\ asked = 0 /\ ~InBuffer(win, v)
    /\ win' = [win EXCEPT !.location = v - HeadLen, !.bytes = <<>>]
    /\ asked' = v /\ out' = NoAnswer
    /\ UNCHANGED <<file, blobs, torn>>

\* The buffer is given up before the file is even open.
ReadBegin(v) ==
    /\ asked = 0 /\ ~InBuffer(win, v)
    /\ win' = [win EXCEPT !.location = v, !.bytes = <<>>]
    /\ asked' = v /\ out' = NoAnswer
    /\ UNCHANGED <<file, blobs, torn>>

\* The loop's next record: where it begins and, its length read, ends.
At == win.location + Len(win.bytes)
HeadThere == At + HeadLen <= Len(file)
Upto == At + HeadLen + LengthAt(file, At)

Larger(m, n) == IF m < n THEN n ELSE m

\* The buffer is allocated, or grows, for the first record only.
Allotted ==
    IF win.bytes # <<>> THEN win.size
    ELSE Larger(IF win.size = 0 THEN BufSize ELSE win.size, Upto - At)

Fits == Upto - win.location <= Allotted /\ Upto <= Len(file)

\* Mutant of ReadRecord: the header is not counted.
ReadRecordData ==
    /\ asked # 0 /\ HeadThere /\ Fits
    /\ win' = [win EXCEPT !.bytes = @ \o Slice(file, At + HeadLen, Upto - At - HeadLen),
                          !.size = Allotted]
    /\ UNCHANGED <<file, blobs, torn, asked, out>>

ReadRecord ==
    /\ asked # 0 /\ HeadThere /\ Fits
    /\ win' = [win EXCEPT !.bytes = @ \o Slice(file, At, Upto - At), !.size = Allotted]
    /\ UNCHANGED <<file, blobs, torn, asked, out>>

\* The file has no further record, or the buffer no room for it.
ReadEnd ==
    /\ asked # 0 /\ ~(HeadThere /\ Fits)
    /\ win' = IF HeadThere THEN [win EXCEPT !.size = Allotted] ELSE win
    /\ out' = IF InBuffer(win, asked) THEN Taken(win, asked) ELSE Answer("null", asked, <<>>)
    /\ asked' = 0
    /\ UNCHANGED <<file, blobs, torn>>

\* open(), lseek() or a read() fails; the buffer may have grown already.
ReadFails ==
    /\ asked # 0
    /\ \/ UNCHANGED win
       \/ HeadThere /\ win' = [win EXCEPT !.size = Allotted]
    /\ out' = IF InBuffer(win, asked) THEN Taken(win, asked) ELSE Answer("fail", asked, <<>>)
    /\ asked' = 0
    /\ UNCHANGED <<file, blobs, torn>>

\* FDBClose and FDBOpen: a handle with no buffer.
Reopen ==
    /\ asked = 0
    /\ win' = Empty /\ out' = NoAnswer
    /\ UNCHANGED <<file, blobs, torn, asked>>

Next ==
    \/ \E d \in Datas : Create(d) \/ CreateFails(d)
    \/ \E v \in DOMAIN blobs : ReadHit(v) \/ ReadBegin(v)
    \/ ReadRecord \/ ReadEnd \/ ReadFails \/ Reopen

Spec == Init /\ [][Next]_vars

-----------------------------------------------------------------------------

\* Type invariant of the blob file and the handle that reads it.
TypeOK ==
    /\ file \in Seq(Byte)
    /\ DOMAIN blobs \subseteq Nat /\ \A v \in DOMAIN blobs : blobs[v] \in Seq(Byte)
    /\ torn \subseteq Nat
    /\ win \in [location : Nat, bytes : Seq(Byte), size : Nat]
    /\ asked \in Nat
    /\ out \in [kind : {"none", "blob", "junk", "null", "fail"}, place : Nat, data : Seq(Byte)]

\* FDBBlobRead gives the blob that FDBBlobCreate stored at the place, from the
\* file or from a buffer filled before the file grew, whatever writes failed
\* before or after; only a buffer filled across a torn record may be misread.
BlobFound ==
    out.kind \notin {"none", "fail"}
        /\ (\A t \in torn : t \notin win.location..out.place)
        => out = Answer("blob", out.place, blobs[out.place])

\* The loop of FDBBlobRead stays on the records: where it stops, the next one
\* begins or the file ends, unless it went over a torn one.
BufferFramed ==
    win.bytes # <<>> /\ (\A t \in torn : t \notin win.location..At - 1)
        => At \in DOMAIN blobs \cup torn \cup {Len(file)}
=============================================================================
