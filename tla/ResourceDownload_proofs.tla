----------------------- MODULE ResourceDownload_proofs -----------------------
(***************************************************************************)
(* Proofs that a resource file is one whole body the server sent, and that *)
(* the copy there was goes only for a whole new one, for any tasks, any    *)
(* number of pieces and any number of versions, with the exceptions that   *)
(* SavedIsWhole names.                                                     *)
(***************************************************************************)
EXTENDS ResourceDownload, SequenceTheorems, TLAPS

-----------------------------------------------------------------------------
(* Files.                                                                  *)

LEMMA PieceType ==
    ASSUME NEW v \in Nat, NEW i \in Nat
    PROVE  Piece(v, i) \in [ver : Nat, num : Nat]
BY DEF Piece

LEMMA PartType ==
    ASSUME NEW v \in Nat, NEW n \in Nat
    PROVE  Part(v, n) \in FileT /\ Len(Part(v, n)) = n
<1>1. \A i \in 1..n : Piece(v, i) \in [ver : Nat, num : Nat]
  BY PieceType
<1> QED BY <1>1 DEF Part, FileT

LEMMA AbsentType == Absent \in FileT /\ Len(Absent) = 1 /\ Absent[1].num = 0
<1>1. Piece(0, 0) \in [ver : Nat, num : Nat] /\ Piece(0, 0).num = 0
  BY DEF Piece
<1> QED BY <1>1 DEF Absent, FileT

\* A file that is there is told from one that is not.
LEMMA PartPresent ==
    ASSUME NEW v \in Nat, NEW n \in Nat
    PROVE  Part(v, n) # Absent
<1>1. Len(Part(v, n)) = n
  BY PartType
<1>2. CASE n = 1
  <2>1. Part(v, n)[1] = Piece(v, 1)
    BY <1>2 DEF Part
  <2>2. Piece(v, 1).num = 1
    BY DEF Piece
  <2> QED BY <2>1, <2>2, AbsentType
<1> QED BY <1>1, <1>2, AbsentType

LEMMA PartEmpty ==
    ASSUME NEW v \in Nat
    PROVE  Part(v, 0) = <<>>
<1>1. Part(v, 0) \in FileT /\ Len(Part(v, 0)) = 0
  BY PartType
<1> QED BY <1>1, EmptySeq DEF FileT

\* One more piece of the same version.
LEMMA PartGrows ==
    ASSUME NEW v \in Nat, NEW n \in Nat
    PROVE  Append(Part(v, n), Piece(v, n + 1)) = Part(v, n + 1)
<1> DEFINE S == [ver : Nat, num : Nat]
           a == Append(Part(v, n), Piece(v, n + 1))
           b == Part(v, n + 1)
<1>1. Part(v, n) \in Seq(S) /\ Len(Part(v, n)) = n
  BY PartType DEF FileT
<1>2. Piece(v, n + 1) \in S
  BY PieceType
<1>3. a \in Seq(S) /\ Len(a) = n + 1
  BY <1>1, <1>2
<1>4. b \in Seq(S) /\ Len(b) = n + 1
  BY PartType DEF FileT
<1>5. ASSUME NEW i \in 1..(n + 1)
      PROVE  a[i] = b[i]
  <2>1. b[i] = Piece(v, i)
    BY DEF Part
  <2>2. CASE i = n + 1
    BY <1>1, <1>2, <2>1, <2>2
  <2>3. CASE i \in 1..n
    <3>1. Part(v, n)[i] = Piece(v, i)
      BY <2>3 DEF Part
    <3> QED BY <1>1, <1>2, <2>1, <2>3, <3>1
  <2>4. i = n + 1 \/ i \in 1..n
    OBVIOUS
  <2> HIDE DEF a, b
  <2> QED BY <2>2, <2>3, <2>4
<1> HIDE DEF a, b
<1>6. a = b
  BY <1>3, <1>4, <1>5, SeqEqual
<1> QED BY <1>6 DEF a, b
-----------------------------------------------------------------------------
(* The invariant.  At most one operation writes, and what it has written   *)
(* is one body from the start.                                             *)

Writes(d) == d.stage = "open"

\* What a callback was called for, which answer it is part of, and what was got of
\* it and may come.
Shape(d) ==
    /\ d.in = "response" => d.stage = "asked"
    /\ d.in \in {"data", "finish", "move"} => d.stage = "open"
    /\ d.in = "data" => d.got < d.size
    /\ d.stage \in {"idle", "asked"} => d.got = 0
    /\ d.stage = "open" =>
          /\ d.got <= d.size /\ d.len \in {0, d.size}
          /\ d.ver = 0 => d.first = 0 /\ d.size <= Chunks
          /\ d.ver # 0 => d.first + d.size = Chunks

OneWriter == \A t, u \in Tasks : Writes(dl[t]) /\ Writes(dl[u]) => t = u

\* What operation d writes continues what is at path.tmp, unless a write of it
\* failed; one that moves path.tmp has the whole body there.
Continued(d) ==
    /\ Writes(d) /\ ~d.lost => tmp = Part(d.ver, d.first + d.got)
    /\ d.in = "move" => ~d.lost /\ d.got = d.size

Whole == file = Absent \/ Body(file)

Safe == OneWriter /\ (\A t \in Tasks : Continued(dl[t])) /\ Whole

IInv == TypeOK /\ (\A t \in Tasks : Shape(dl[t])) /\ (~spoilt => Safe)

LEMMA OverFacts ==
    /\ Over \in TaskT /\ Shape(Over) /\ ~Writes(Over)
    /\ Over.in = "none" /\ Continued(Over) /\ Continued(Over)'
<1>2. 1 \in 0..MaxVersion
  BY DownloadAssumption
<1>1. Idle \in TaskT /\ Idle.in = "none"
  BY <1>2 DEF Idle, TaskT
<1>3. Over \in TaskT
  BY <1>1 DEF Over, TaskT
<1>4. Over.stage = "over" /\ Over.in = "none"
  BY <1>1 DEF Over, TaskT
<1> QED BY <1>3, <1>4 DEF Shape, Writes, Continued

\* An answer that was got to its end is a whole body.
LEMMA BodyPart ==
    ASSUME NEW d \in TaskT, Shape(d), d.stage = "open"
    PROVE  Body(Part(d.ver, d.first + d.size))
<1>1. d.ver \in 0..MaxVersion /\ d.first \in Nat /\ d.size \in Nat /\ Chunks \in Nat
  BY DownloadAssumption DEF TaskT
<1>2. CASE d.ver = 0
  <2>1. d.first + d.size \in 0..Chunks
    BY <1>1, <1>2 DEF Shape
  <2> QED BY <1>2, <2>1 DEF Body
<1>3. CASE d.ver # 0
  <2>1. d.ver \in 1..MaxVersion /\ d.first + d.size = Chunks
    BY <1>1, <1>3, DownloadAssumption DEF Shape
  <2> QED BY <2>1 DEF Body
<1> QED BY <1>2, <1>3

\* Init: no operation, and the files of an earlier run.
LEMMA InitInv == Init => IInv
<1> SUFFICES ASSUME Init PROVE IInv
  OBVIOUS
<1>1. Idle \in TaskT /\ Shape(Idle) /\ ~Writes(Idle) /\ Idle.in = "none"
  BY DownloadAssumption DEF Idle, TaskT, Shape, Writes
<1>2. Absent \in FileT /\ \A n \in Nat : Part(1, n) \in FileT
  BY PartType, AbsentType
<1>3. dl \in [Tasks -> TaskT] /\ \A t \in Tasks : dl[t] = Idle
  BY <1>1 DEF Init
<1>6. file \in FileT /\ tmp \in FileT
  BY <1>2, DownloadAssumption DEF Init
<1>7. version \in 1..MaxVersion
  BY DownloadAssumption DEF Init
<1>8. spoilt \in BOOLEAN
  BY DEF Init
<1>4. TypeOK
  BY <1>3, <1>6, <1>7, <1>8 DEF TypeOK
<1>5. Whole
  BY DownloadAssumption DEF Init, Whole, Body
<1> QED BY <1>1, <1>3, <1>4, <1>5 DEF IInv, Safe, OneWriter, Continued

\* A step of task t that writes to no file keeps the invariant if t does not begin
\* to write by it.
LEMMA QuietStep ==
    ASSUME IInv, NEW t \in Tasks, NEW d \in TaskT,
           dl' = [dl EXCEPT ![t] = d], UNCHANGED <<file, tmp, version, spoilt>>,
           Shape(d),
           d.in = "move" => dl[t].in = "move",
           Writes(d) => /\ Writes(dl[t])
                        /\ d.ver = dl[t].ver /\ d.first = dl[t].first
                        /\ d.got = dl[t].got /\ d.size = dl[t].size /\ d.lost = dl[t].lost
    PROVE  IInv'
<1>1. dl' \in [Tasks -> TaskT] /\ \A u \in Tasks : dl'[u] = IF u = t THEN d ELSE dl[u]
  BY DEF IInv, TypeOK
<1>2. TypeOK' /\ (\A u \in Tasks : Shape(dl[u]))'
  BY <1>1 DEF IInv, TypeOK
<1>3. ASSUME ~spoilt
      PROVE  Safe'
  <2>1. Safe
    BY <1>3 DEF IInv
  <2>2. OneWriter'
    BY <1>1, <2>1 DEF Safe, OneWriter
  <2>3. Whole'
    BY <2>1 DEF Safe, Whole, Body
  <2>4. ASSUME NEW u \in Tasks PROVE Continued(dl[u])'
    <3>1. d.in = "move" => Writes(d)
      BY DEF Shape, Writes
    <3> QED BY <1>1, <2>1, <3>1 DEF Safe, Continued
  <2> QED BY <2>2, <2>3, <2>4 DEF Safe
<1> QED BY <1>2, <1>3 DEF IInv
\* Ask, Cancel, Break and the first half of a callback change what t is about to do.
LEMMA AskStep == ASSUME IInv, NEW t \in Tasks, Ask(t) PROVE IInv'
<1> DEFINE b == IF t \in Resume /\ tmp # Absent THEN Len(tmp) ELSE 0
           asked == [dl[t] EXCEPT !.stage = "asked", !.begin = b]
<1>1. dl[t] \in TaskT /\ Shape(dl[t]) /\ dl[t].stage = "idle" /\ b \in Nat
  BY DEF IInv, TypeOK, FileT, Ask
<1>3. asked \in TaskT /\ Shape(asked) /\ ~Writes(asked) /\ asked.in = dl[t].in
  <2> HIDE DEF b
  <2> QED BY <1>1 DEF TaskT, Shape, Writes
<1>4. UNCHANGED <<file, tmp, version, spoilt>>
      /\ \/ dl' = [dl EXCEPT ![t] = Over]
         \/ dl' = [dl EXCEPT ![t] = asked]
  BY DEF Ask
<1> HIDE DEF asked, b
<1> QED BY <1>3, <1>4, OverFacts, QuietStep

LEMMA CancelStep == ASSUME IInv, NEW t \in Tasks, Cancel(t) PROVE IInv'
<1> DEFINE d == [dl[t] EXCEPT !.cancelled = TRUE]
<1>1. dl[t] \in TaskT /\ Shape(dl[t])
  BY DEF IInv, TypeOK
<1>2. d \in TaskT /\ Shape(d) /\ d.in = dl[t].in
  BY <1>1 DEF TaskT, Shape
<1>3. Writes(d) => /\ Writes(dl[t])
                   /\ d.ver = dl[t].ver /\ d.first = dl[t].first
                   /\ d.got = dl[t].got /\ d.size = dl[t].size /\ d.lost = dl[t].lost
  BY <1>1 DEF TaskT, Writes
<1>4. UNCHANGED <<file, tmp, version, spoilt>>
      /\ \/ dl' = [dl EXCEPT ![t] = Over]
         \/ dl' = [dl EXCEPT ![t] = d]
  BY DEF Cancel
<1> HIDE DEF d
<1> QED BY <1>2, <1>3, <1>4, OverFacts, QuietStep

LEMMA BreakStep == ASSUME IInv, NEW t \in Tasks, Break(t) PROVE IInv'
<1>1. UNCHANGED <<file, tmp, version, spoilt>> /\ dl' = [dl EXCEPT ![t] = Over]
  BY DEF Break
<1> QED BY <1>1, OverFacts, QuietStep

LEMMA ConnectionStep == ASSUME IInv, NEW t \in Tasks, Connection(t) PROVE IInv'
<1> DEFINE d(c) == [dl[t] EXCEPT !.in = c]
<1>1. dl[t] \in TaskT /\ Shape(dl[t])
  BY DEF IInv, TypeOK
<1>2. PICK c \in {"response", "data", "finish"} :
         /\ Enter(t, c)
         /\ c = "response" => dl[t].stage = "asked"
         /\ c # "response" => dl[t].stage = "open"
         /\ c = "data" => dl[t].got < dl[t].size
  BY DEF Connection
<1>3. UNCHANGED <<file, tmp, version, spoilt>> /\ dl' = [dl EXCEPT ![t] = d(c)]
  BY <1>2 DEF Enter
<1>4. d(c) \in TaskT /\ d(c).in = c /\ d(c).stage = dl[t].stage
      /\ d(c).got = dl[t].got /\ d(c).first = dl[t].first /\ d(c).len = dl[t].len
      /\ d(c).ver = dl[t].ver /\ d(c).size = dl[t].size /\ d(c).lost = dl[t].lost
  BY <1>1 DEF TaskT
<1> HIDE DEF d
<1>5. Shape(d(c))
  BY <1>1, <1>2, <1>4 DEF Shape
<1>6. d(c).in # "move" /\ (Writes(d(c)) => Writes(dl[t]))
  BY <1>4, <1>2 DEF Writes
<1> QED BY <1>3, <1>4, <1>5, <1>6, QuietStep

\* Nobody writes after the program was killed.
LEMMA CrashStep == ASSUME IInv, Crash PROVE IInv'
<1> DEFINE d(t) == IF dl[t].stage = "idle" THEN dl[t] ELSE Over
<1>1. ASSUME NEW t \in Tasks
      PROVE  d(t) \in TaskT /\ Shape(d(t)) /\ ~Writes(d(t)) /\ d(t).in # "move"
  <2>1. dl[t] \in TaskT /\ Shape(dl[t])
    BY DEF IInv, TypeOK
  <2> QED BY <2>1, OverFacts DEF Shape, Writes
<1>2. dl' = [t \in Tasks |-> d(t)] /\ UNCHANGED <<file, tmp, version, spoilt>>
  BY DEF Crash
<1> HIDE DEF d
<1>3. dl' \in [Tasks -> TaskT]
      /\ \A t \in Tasks : Shape(dl'[t]) /\ ~Writes(dl'[t]) /\ dl'[t].in # "move"
  BY <1>1, <1>2
<1>4. TypeOK' /\ (\A t \in Tasks : Shape(dl[t]))'
  BY <1>2, <1>3 DEF IInv, TypeOK
<1>5. ASSUME ~spoilt PROVE Safe'
  <2>1. Whole'
    BY <1>2, <1>5 DEF IInv, Safe, Whole, Body
  <2> QED BY <1>3, <2>1 DEF Safe, OneWriter, Continued
<1> QED BY <1>2, <1>4, <1>5 DEF IInv

LEMMA PublishStep == ASSUME IInv, Publish PROVE IInv'
<1>1. version' \in 1..MaxVersion /\ UNCHANGED <<dl, file, tmp, spoilt>>
  BY DownloadAssumption DEF Publish, IInv, TypeOK
<1>2. TypeOK' /\ (\A t \in Tasks : Shape(dl[t]))'
  BY <1>1 DEF IInv, TypeOK
<1>3. ~spoilt => Safe'
  BY <1>1 DEF IInv, Safe, OneWriter, Continued, Whole, Body
<1> QED BY <1>1, <1>2, <1>3 DEF IInv
-----------------------------------------------------------------------------
(* The callbacks that write.                                               *)

\* What a step of the one writer t leaves to show: the others write nothing, and
\* what t has written is right.
LEMMA WriterStep ==
    ASSUME IInv, NEW t \in Tasks, NEW d \in TaskT, dl' = [dl EXCEPT ![t] = d],
           Shape(d), file' \in FileT, tmp' \in FileT, version' = version,
           spoilt' \in BOOLEAN,
           ~spoilt' => /\ Whole' /\ Continued(d)'
                       /\ \A u \in Tasks \ {t} : ~Writes(dl[u])
    PROVE  IInv'
<1>1. dl' \in [Tasks -> TaskT] /\ \A u \in Tasks : dl'[u] = IF u = t THEN d ELSE dl[u]
  BY DEF IInv, TypeOK
<1>2. TypeOK' /\ (\A u \in Tasks : Shape(dl[u]))'
  BY <1>1 DEF IInv, TypeOK
<1>3. ASSUME ~spoilt'
      PROVE  Safe'
  <2>1. OneWriter'
    BY <1>1, <1>3 DEF OneWriter
  <2>2. ASSUME NEW u \in Tasks PROVE Continued(dl[u])'
    <3>1. u # t => dl[u].in # "move"
      BY <1>3 DEF IInv, Shape, Writes
    <3>2. CASE u = t
      BY <1>1, <1>3, <3>2
    <3>3. CASE u # t
      BY <1>1, <1>3, <3>1, <3>3 DEF Continued
    <3> QED BY <3>2, <3>3
  <2> QED BY <1>3, <2>1, <2>2 DEF Safe
<1> QED BY <1>2, <1>3 DEF IInv

\* The end of a callback that leaves its task at e, or over when it was cancelled.
LEMMA LeaveStep ==
    ASSUME IInv, NEW t \in Tasks, NEW e \in TaskT, Leave(t, e), e.stage = "open",
           Shape([e EXCEPT !.in = "none"]), file' \in FileT, tmp' \in FileT,
           version' = version, spoilt' \in BOOLEAN,
           ~spoilt' => /\ Whole'
                       /\ ~e.lost => tmp' = Part(e.ver, e.first + e.got)
                       /\ \A u \in Tasks \ {t} : ~Writes(dl[u])
    PROVE  IInv'
<1> DEFINE n == [e EXCEPT !.in = "none"]
<1>1. n \in TaskT /\ n.in = "none" /\ n.lost = e.lost /\ n.ver = e.ver
      /\ n.first = e.first /\ n.got = e.got
  BY DEF TaskT
<1>2. CASE dl[t].cancelled
  <2>1. dl' = [dl EXCEPT ![t] = Over]
    BY <1>2 DEF Leave
  <2> QED BY <2>1, OverFacts, WriterStep
<1>3. CASE ~dl[t].cancelled
  <2>1. dl' = [dl EXCEPT ![t] = n] /\ Shape(n)
    BY <1>3 DEF Leave
  <2> HIDE DEF n
  <2>2. ~spoilt' => Continued(n)'
    BY <1>1 DEF Continued
  <2> QED BY <1>1, <2>1, <2>2, WriterStep
<1> QED BY <1>2, <1>3

\* doBackgroundResponse begins a body or goes on with the one that is there.
LEMMA RespondStep == ASSUME IInv, NEW t \in Tasks, Respond(t) PROVE IInv'
<1> DEFINE e(a, len, fails) ==
             [dl[t] EXCEPT !.stage = "open", !.ver = a.ver, !.first = a.first,
                           !.size = a.size, !.len = len, !.lost = fails]
<1>0. PICK a \in Answers(t), fails \in BOOLEAN : \E len \in {0, a.size} :
          /\ fails => dl[t].begin = 0
          /\ Leave(t, e(a, len, fails))
          /\ tmp' = IF fails THEN tmp ELSE Begun(t)
          /\ spoilt' = (spoilt \/ ~Continues(t, a) \/ \E u \in Tasks \ {t} : Writing(u))
  BY DEF Respond
<1>1. PICK len \in {0, a.size} :
          /\ fails => dl[t].begin = 0
          /\ Leave(t, e(a, len, fails))
          /\ tmp' = IF fails THEN tmp ELSE Begun(t)
          /\ spoilt' = (spoilt \/ ~Continues(t, a) \/ \E u \in Tasks \ {t} : Writing(u))
  BY <1>0
<1>2. dl[t] \in TaskT /\ Shape(dl[t]) /\ dl[t].in = "response" /\ dl[t].got = 0
      /\ version \in 1..MaxVersion
  BY DEF IInv, TypeOK, Respond, Shape
<1>3. /\ a.ver \in 0..MaxVersion /\ a.first \in Nat /\ a.size \in Nat
      /\ a.ver = 0 => a.first = 0 /\ a.size <= Chunks
      /\ a.ver # 0 => a.first + a.size = Chunks
  <2>1. CASE a \in [ver : {0}, first : {0}, size : 0..Chunks]
    BY <2>1, DownloadAssumption
  <2>2. CASE a \notin [ver : {0}, first : {0}, size : 0..Chunks]
    <3>1. PICK f \in {0, dl[t].begin} :
             f < Chunks /\ a = [ver |-> version, first |-> f, size |-> Chunks - f]
      BY <2>2 DEF Answers
    <3>2. f \in Nat
      BY <1>2 DEF TaskT
    <3> QED BY <1>2, <3>1, <3>2, DownloadAssumption
  <2> QED BY <2>1, <2>2
<1>4. len \in Nat
  BY <1>3
<1>5. /\ e(a, len, fails) \in TaskT /\ e(a, len, fails).stage = "open"
      /\ e(a, len, fails).got = 0 /\ e(a, len, fails).ver = a.ver
      /\ e(a, len, fails).first = a.first /\ e(a, len, fails).lost = fails
  BY <1>2, <1>3, <1>4 DEF TaskT
<1>6. Shape([e(a, len, fails) EXCEPT !.in = "none"])
  BY <1>2, <1>3, <1>4 DEF Shape, TaskT
<1>9. tmp' \in FileT /\ file' \in FileT /\ version' = version /\ file' = file
  BY <1>1, EmptySeq DEF Respond, Begun, IInv, TypeOK, FileT
<1>10. spoilt' \in BOOLEAN
  BY <1>1
<1>11. ASSUME ~spoilt'
       PROVE  /\ Whole'
              /\ ~fails => tmp' = Part(a.ver, a.first + 0)
              /\ \A u \in Tasks \ {t} : ~Writes(dl[u])
  <2>1. ~spoilt /\ Continues(t, a) /\ \A u \in Tasks \ {t} : ~Writing(u)
    BY <1>1, <1>11
  <2>2. \A u \in Tasks \ {t} : ~Writes(dl[u])
    BY <2>1 DEF Writing, Writes
  <2>3. Whole'
    BY <1>9, <2>1 DEF IInv, Safe, Whole, Body
  <2>4. ASSUME ~fails PROVE tmp' = Part(a.ver, a.first)
    <3>1. CASE dl[t].begin = 0
      <4>1. a.first = 0
        <5>1. CASE a \in [ver : {0}, first : {0}, size : 0..Chunks]
          BY <5>1
        <5>2. CASE a \notin [ver : {0}, first : {0}, size : 0..Chunks]
          BY <3>1, <5>2 DEF Answers
        <5> QED BY <5>1, <5>2
      <4>2. a.ver \in Nat
        BY <1>3, DownloadAssumption
      <4> QED BY <1>1, <2>4, <3>1, <4>1, <4>2, PartEmpty DEF Begun
    <3>2. CASE dl[t].begin # 0
      BY <1>1, <2>1, <2>4, <3>2 DEF Continues, Begun
    <3> QED BY <3>1, <3>2
  <2>5. a.first + 0 = a.first
    BY <1>3
  <2> QED BY <2>2, <2>3, <2>4, <2>5
<1> HIDE DEF e
<1> QED BY <1>1, <1>5, <1>6, <1>9, <1>10, <1>11, LeaveStep

\* doBackgroundReceiveData appends the next piece, or fails to.
LEMMA ReceiveStep == ASSUME IInv, NEW t \in Tasks, Receive(t) PROVE IInv'
<1> DEFINE g == dl[t].got + 1
           n == dl[t].first + dl[t].got
           p == Piece(dl[t].ver, n + 1)
           e(fails) == [dl[t] EXCEPT !.got = g, !.lost = @ \/ fails]
<1>1. dl \in [Tasks -> TaskT] /\ dl[t] \in TaskT /\ Shape(dl[t])
      /\ dl[t].in = "data" /\ dl[t].stage = "open"
  BY DEF IInv, TypeOK, Receive, Shape
<1>2. dl[t].got \in Nat /\ dl[t].first \in Nat /\ dl[t].ver \in Nat /\ dl[t].size \in Nat
      /\ dl[t].got < dl[t].size /\ g \in Nat /\ n \in Nat /\ g <= dl[t].size
      /\ dl[t].lost \in BOOLEAN
  BY <1>1, DownloadAssumption DEF TaskT, Shape
<1>3. PICK fails \in BOOLEAN :
         /\ Leave(t, e(fails))
         /\ tmp' = IF fails THEN tmp ELSE Append(IF tmp = Absent THEN <<>> ELSE tmp, p)
  BY DEF Receive
<1>4. UNCHANGED <<file, version, spoilt>>
  BY DEF Receive
<1>5. /\ e(fails) \in TaskT /\ e(fails).stage = "open" /\ e(fails).got = g
      /\ e(fails).first = dl[t].first /\ e(fails).ver = dl[t].ver
      /\ e(fails).lost = (dl[t].lost \/ fails)
  <2> HIDE DEF g, n, p
  <2> QED BY <1>1, <1>2 DEF TaskT
<1>6. Shape([e(fails) EXCEPT !.in = "none"])
  <2> HIDE DEF g, n, p
  <2> QED BY <1>1, <1>2 DEF Shape, TaskT
<1>7. p \in [ver : Nat, num : Nat]
  <2>1. n + 1 \in Nat
    BY <1>2
  <2> HIDE DEF n
  <2> QED BY <1>2, <2>1, PieceType
<1>8. tmp' \in FileT /\ file' \in FileT
  <2>1. (IF tmp = Absent THEN <<>> ELSE tmp) \in FileT
    BY EmptySeq DEF IInv, TypeOK, FileT
  <2>2. tmp \in FileT /\ file \in FileT
    BY DEF IInv, TypeOK
  <2> HIDE DEF p, e, n, g
  <2>3. Append(IF tmp = Absent THEN <<>> ELSE tmp, p) \in FileT
    BY <1>7, <2>1 DEF FileT
  <2> QED BY <1>3, <1>4, <2>2, <2>3, <1>7, <2>1, <1>7, <2>1 DEF IInv, TypeOK, FileT
<1>9. ASSUME ~spoilt'
      PROVE  /\ Whole'
             /\ ~(dl[t].lost \/ fails) => tmp' = Part(dl[t].ver, dl[t].first + g)
             /\ \A u \in Tasks \ {t} : ~Writes(dl[u])
  <2>1. Safe /\ Writes(dl[t])
    BY <1>1, <1>4, <1>9 DEF IInv, Writes
  <2>2. \A u \in Tasks \ {t} : ~Writes(dl[u])
    BY <2>1 DEF Safe, OneWriter
  <2>3. Whole'
    BY <1>4, <2>1 DEF Safe, Whole, Body
  <2>4. ASSUME ~dl[t].lost, ~fails PROVE tmp' = Part(dl[t].ver, dl[t].first + g)
    <3>1. tmp = Part(dl[t].ver, n)
      BY <2>1, <2>4 DEF Safe, Continued
    <3>2. tmp # Absent
      BY <1>2, <3>1, PartPresent
    <3>3. Append(Part(dl[t].ver, n), Piece(dl[t].ver, n + 1)) = Part(dl[t].ver, n + 1)
      <4> HIDE DEF n
      <4> QED BY <1>2, PartGrows
    <3>4. tmp' = Append(tmp, p)
      BY <1>3, <2>4, <3>2
    <3>5. n + 1 = dl[t].first + g
      BY <1>2
    <3> HIDE DEF n, g
    <3> QED BY <3>1, <3>3, <3>4, <3>5
  <2> QED BY <2>2, <2>3, <2>4
<1>10. spoilt' \in BOOLEAN /\ version' = version
  BY <1>4 DEF IInv, TypeOK
<1> HIDE DEF e, g, n, p
<1> QED BY <1>3, <1>5, <1>6, <1>8, <1>9, <1>10, LeaveStep

\* A body that is taken for complete is complete, and all of it was written.
LEMMA SavedComplete ==
    ASSUME IInv, NEW t \in Tasks, Finish(t), Saves(t), ~spoilt'
    PROVE  dl[t].got = dl[t].size /\ ~dl[t].lost
<1>1. dl[t].stage = "open" /\ Shape(dl[t])
  BY DEF IInv, Finish, Shape
<1>2. ~EndedUnseen(t) /\ ~dl[t].lost
  BY DEF Finish
<1> QED BY <1>1, <1>2 DEF EndedUnseen, Saves, Shape

\* The one writer of an unspoilt resource has path.tmp to itself.
LEMMA FinishWriter ==
    ASSUME IInv, NEW t \in Tasks, dl[t].in \in {"finish", "move"}, ~spoilt
    PROVE  /\ Whole
           /\ \A u \in Tasks \ {t} : ~Writes(dl[u])
           /\ ~dl[t].lost => tmp = Part(dl[t].ver, dl[t].first + dl[t].got)
           /\ dl[t].in = "move" => dl[t].got = dl[t].size /\ ~dl[t].lost
<1>1. Safe /\ Writes(dl[t])
  BY DEF IInv, Shape, Writes
<1> QED BY <1>1 DEF Safe, OneWriter, Continued

\* doBackgroundLoaded up to the removal of the old copy.
LEMMA FinishStep == ASSUME IInv, NEW t \in Tasks, Finish(t) PROVE IInv'
<1>1. dl \in [Tasks -> TaskT] /\ dl[t] \in TaskT /\ Shape(dl[t])
      /\ dl[t].in = "finish" /\ dl[t].stage = "open"
  BY DEF IInv, TypeOK, Finish, Shape
<1>2. version' = version
  BY DEF Finish
<1>3. spoilt' \in BOOLEAN /\ (~spoilt' => ~spoilt)
  BY DEF Finish
<1>4. CASE Saves(t)
  <2>1. [dl[t] EXCEPT !.in = "move"] \in TaskT
    BY <1>1 DEF TaskT
  <2> PICK d \in TaskT : d = [dl[t] EXCEPT !.in = "move"]
    BY <2>1
  <2>2. dl' = [dl EXCEPT ![t] = d] /\ file' = Absent /\ tmp' = tmp
    BY <1>1, <1>4 DEF Finish
  <2>3. d.in = "move" /\ d.stage = "open" /\ d.got = dl[t].got /\ d.size = dl[t].size
        /\ d.first = dl[t].first /\ d.ver = dl[t].ver /\ d.len = dl[t].len
        /\ d.lost = dl[t].lost
    BY <1>1 DEF TaskT
  <2>4. Shape(d)
    BY <1>1, <2>3 DEF Shape
  <2>5. file' \in FileT /\ tmp' \in FileT
    BY <2>2, AbsentType DEF IInv, TypeOK
  <2>6. ASSUME ~spoilt'
        PROVE  /\ Whole' /\ Continued(d)'
               /\ \A u \in Tasks \ {t} : ~Writes(dl[u])
    <3>1. /\ \A u \in Tasks \ {t} : ~Writes(dl[u])
          /\ ~dl[t].lost => tmp = Part(dl[t].ver, dl[t].first + dl[t].got)
      BY <1>1, <1>3, <2>6, FinishWriter
    <3>2. dl[t].got = dl[t].size /\ ~dl[t].lost
      BY <1>4, <2>6, SavedComplete
    <3>3. Continued(d)'
      BY <2>2, <2>3, <3>1, <3>2 DEF Continued
    <3>4. Whole'
      BY <2>2 DEF Whole, Absent
    <3> QED BY <3>1, <3>3, <3>4
  <2> QED BY <1>2, <1>3, <2>2, <2>4, <2>5, <2>6, WriterStep
<1>5. CASE ~Saves(t)
  <2>2. dl' = [dl EXCEPT ![t] = Over] /\ file' = file
        /\ tmp' = IF t \in Resume THEN tmp ELSE Absent
    BY <1>1, <1>5 DEF Finish
  <2>5. file' \in FileT /\ tmp' \in FileT
    BY <2>2, AbsentType DEF IInv, TypeOK
  <2>6. ASSUME ~spoilt'
        PROVE  Whole' /\ \A u \in Tasks \ {t} : ~Writes(dl[u])
    <3>1. Whole /\ \A u \in Tasks \ {t} : ~Writes(dl[u])
      BY <1>1, <1>3, <2>6, FinishWriter
    <3>4. Whole'
      BY <2>2, <3>1 DEF Whole, Body
    <3> QED BY <3>1, <3>4
  <2> QED BY <1>2, <1>3, <2>2, <2>5, <2>6, OverFacts, WriterStep
<1> QED BY <1>4, <1>5

\* The move puts a whole body in place.
LEMMA MoveStep == ASSUME IInv, NEW t \in Tasks, Move(t) PROVE IInv'
<1>1. dl[t] \in TaskT /\ Shape(dl[t]) /\ dl[t].in = "move" /\ dl[t].stage = "open"
  BY DEF IInv, TypeOK, Move, Shape
<1>2. version' = version /\ spoilt' = spoilt /\ spoilt' \in BOOLEAN
  BY <1>1 DEF Move, IInv, TypeOK
<1>4. dl' = [dl EXCEPT ![t] = Over]
  BY DEF Move
<1>5. \/ file = Absent /\ file' = tmp /\ tmp' = Absent
      \/ file' = file /\ tmp' = tmp
  BY DEF Move
<1>6. file' \in FileT /\ tmp' \in FileT
  BY <1>5, AbsentType DEF IInv, TypeOK
<1>7. ASSUME ~spoilt'
      PROVE  Whole' /\ \A u \in Tasks \ {t} : ~Writes(dl[u])
  <2>1. /\ Whole /\ \A u \in Tasks \ {t} : ~Writes(dl[u])
        /\ tmp = Part(dl[t].ver, dl[t].first + dl[t].size)
    BY <1>1, <1>2, <1>7, FinishWriter
  <2>2. Body(tmp)
    BY <1>1, <2>1, BodyPart
  <2>3. Whole'
    BY <1>5, <2>1, <2>2 DEF Whole, Body
  <2> QED BY <2>1, <2>3
<1> QED BY <1>2, <1>4, <1>6, <1>7, OverFacts, WriterStep

-----------------------------------------------------------------------------
(* The theorems.                                                           *)

LEMMA StepInv == IInv /\ [Next]_vars => IInv'
<1> SUFFICES ASSUME IInv, [Next]_vars PROVE IInv'
  OBVIOUS
<1>1. CASE UNCHANGED vars
  <2>1. UNCHANGED <<dl, file, tmp, version, spoilt>>
    BY <1>1 DEF vars
  <2>2. TypeOK' /\ (\A t \in Tasks : Shape(dl[t]))'
    BY <2>1 DEF IInv, TypeOK
  <2>3. ~spoilt => Safe'
    BY <2>1 DEF IInv, Safe, OneWriter, Continued, Whole, Body
  <2> QED BY <2>1, <2>2, <2>3 DEF IInv
<1>2. CASE Crash
  BY <1>2, CrashStep
<1>3. CASE Publish
  BY <1>3, PublishStep
<1>4. ASSUME NEW t \in Tasks, Step(t) PROVE IInv'
  BY <1>4, AskStep, CancelStep, BreakStep, ConnectionStep, RespondStep, ReceiveStep,
     FinishStep, MoveStep DEF Step
<1> QED BY <1>1, <1>2, <1>3, <1>4 DEF Next

\* Types, what a callback is called for, and that one operation at most writes.
THEOREM Inv == Spec => []IInv
<1> QED BY InitInv, StepInv, PTL DEF Spec

\* Whatever the tasks for a resource, the answers of the server, the writes that
\* fail and the moments of cancellation and death: the file at path is one whole
\* body (doBackgroundLoaded), with the exceptions SavedIsWhole names.
THEOREM WholeSaved == Spec => []SavedIsWhole
<1>1. IInv => SavedIsWhole
  BY DEF IInv, Safe, Whole, SavedIsWhole
<1> QED BY <1>1, Inv, PTL

\* The old copy is only removed when a whole body waits at path.tmp, with the same
\* exceptions.
THEOREM CopyKept == Spec => CopyIsKept
<1>1. ASSUME IInv, [Next]_vars, ~spoilt', file # Absent, file' = Absent
      PROVE  Body(tmp')
  <2>1. PICK t \in Tasks : Finish(t) /\ Saves(t)
    <3>1. CASE UNCHANGED vars
      BY <1>1, <3>1 DEF vars
    <3>2. CASE Crash \/ Publish
      BY <1>1, <3>2 DEF Crash, Publish
    <3>3. ASSUME NEW t \in Tasks, Step(t) PROVE Finish(t) /\ Saves(t)
      BY <1>1, <3>3 DEF Step, Ask, Cancel, Break, Connection, Enter, Respond, Receive,
                        Finish, Move
    <3> QED BY <1>1, <3>1, <3>2, <3>3 DEF Next
  <2>2. /\ dl[t] \in TaskT /\ Shape(dl[t]) /\ dl[t].in = "finish" /\ dl[t].stage = "open"
        /\ ~spoilt /\ tmp' = tmp
    BY <1>1, <2>1 DEF IInv, TypeOK, Finish, Shape
  <2>3. dl[t].got = dl[t].size /\ ~dl[t].lost
    BY <1>1, <2>1, SavedComplete
  <2>4. tmp = Part(dl[t].ver, dl[t].first + dl[t].size)
    BY <1>1, <2>2, <2>3, FinishWriter
  <2>5. Body(tmp)
    BY <2>2, <2>4, BodyPart
  <2> QED BY <2>2, <2>5
<1>2. IInv /\ [Next]_vars
        => [~spoilt' /\ file # Absent /\ file' = Absent => Body(tmp')]_vars
  BY <1>1
<1> QED BY <1>2, Inv, PTL DEF Spec, CopyIsKept
=============================================================================
