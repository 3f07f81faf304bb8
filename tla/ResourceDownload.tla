--------------------------- MODULE ResourceDownload ---------------------------
(***************************************************************************)
(* What VTHttpTask does to the files of one resource: the body of an       *)
(* answer is appended to path.tmp, and moved to path when it has ended.    *)
(* Tasks for the same resource (images, documents, sounds) have a thread   *)
(* each and share both files.  A callback first looks whether its          *)
(* operation is cancelled and then writes, and the main thread may cancel  *)
(* in between; the program may die at any time and leaves the files.       *)
(***************************************************************************)
EXTENDS Integers, Sequences

CONSTANTS
    Tasks,       (* downloads of the resource, each asked for once         *)
    Forced,      (* forceUpdateResource: documents                         *)
    Resume,      (* allowResume                                            *)
    Check,       (* allowCheckContentLength: images                        *)
    Chunks,      (* pieces the resource arrives in, an error page at most  *)
    MaxVersion   (* bound: versions of the resource on the server          *)

ASSUME DownloadAssumption ==
    /\ Forced \subseteq Tasks /\ Resume \subseteq Tasks /\ Check \subseteq Tasks
    /\ Chunks \in Nat \ {0} /\ MaxVersion \in Nat \ {0}

VARIABLES
    dl,          (* dl[t]: the task and its operation                      *)
    file,        (* the file at path, a sequence of pieces                 *)
    tmp,         (* path.tmp                                               *)
    version,     (* the resource on the server                             *)
    spoilt       (* ghost: something happened that no task notices         *)

vars == <<dl, file, tmp, version, spoilt>>

\* Piece i of version v of the resource; version 0 is an error page.
Piece(v, i) == [ver |-> v, num |-> i]

\* The first n pieces of version v, and the file that is not there.
Part(v, n) == [i \in 1..n |-> Piece(v, i)]
Absent == <<Piece(0, 0)>>

Idle == [stage |-> "idle", in |-> "none", cancelled |-> FALSE,
         begin |-> 0, first |-> 0, size |-> 0, len |-> 0, got |-> 0, ver |-> 1,
         lost |-> FALSE]

\* A task that has ended, or was cancelled: whatever calls it back finds that and
\* goes away.
Over == [Idle EXCEPT !.stage = "over"]

Init ==
    /\ dl = [t \in Tasks |-> Idle]
    /\ file \in {Absent, Part(1, Chunks)}
    /\ tmp \in {Absent} \cup {Part(1, n) : n \in 0..Chunks}
    /\ version = 1
    /\ spoilt = FALSE

-----------------------------------------------------------------------------
(* The main thread.                                                        *)

\* doWillRequeset: a file that is there is the answer; else the request is for the
\* whole body or, to resume, for what path.tmp does not have.
Ask(t) ==
    /\ dl[t].stage = "idle"
    /\ dl' = [dl EXCEPT ![t] =
                IF file # Absent /\ t \notin Forced THEN Over
                ELSE [@ EXCEPT !.stage = "asked",
                               !.begin = IF t \in Resume /\ tmp # Absent THEN Len(tmp) ELSE 0]]
    /\ UNCHANGED <<file, tmp, version, spoilt>>

\* VTHttpTaskOperator cancel.  A callback that is running goes on to its end.
Cancel(t) ==
    /\ dl[t].stage \in {"asked", "open"} /\ ~dl[t].cancelled
    /\ dl' = [dl EXCEPT ![t] = IF @.in = "none" THEN Over ELSE [@ EXCEPT !.cancelled = TRUE]]
    /\ UNCHANGED <<file, tmp, version, spoilt>>

-----------------------------------------------------------------------------
(* The thread of an operation.                                             *)

\* A callback has found its connection current and its operation not cancelled.
Enter(t, callback) ==
    /\ dl[t].in = "none"
    /\ dl' = [dl EXCEPT ![t].in = callback]
    /\ UNCHANGED <<file, tmp, version, spoilt>>

\* The callback has done its work on d.
Leave(t, d) == dl' = [dl EXCEPT ![t] = IF @.cancelled THEN Over ELSE [d EXCEPT !.in = "none"]]

Connection(t) ==
    \/ dl[t].stage = "asked" /\ Enter(t, "response")
    \/ dl[t].stage = "open" /\ dl[t].got < dl[t].size /\ Enter(t, "data")
    \/ dl[t].stage = "open" /\ Enter(t, "finish")

\* Another operation writes, or is about to.
Writing(u) == dl[u].in # "none" \/ dl[u].stage = "open"

\* What the server may answer: the resource, what is left of it behind the pieces
\* asked for, or an error page, whose status nothing looks at.
Answers(t) ==
    {[ver |-> version, first |-> f, size |-> Chunks - f] :
        f \in {g \in {0, dl[t].begin} : g < Chunks}}
    \cup [ver : {0}, first : {0}, size : 0..Chunks]

\* The answer continues what path.tmp has.
Continues(t, a) ==
    dl[t].begin = 0 \/ (a.first = dl[t].begin /\ tmp = Part(a.ver, a.first))

\* Mutant of Begun: path.tmp is not emptied.
BegunKept(t) == IF tmp = Absent THEN <<>> ELSE tmp

\* fopen with "w" unless the task resumes.
Begun(t) == IF dl[t].begin = 0 THEN <<>> ELSE tmp

\* doBackgroundResponse.  The server may ignore the range, and name no length; the
\* fopen may fail, which nothing notices.
Respond(t) ==
    /\ dl[t].in = "response"
    /\ \E a \in Answers(t), fails \in BOOLEAN : \E len \in {0, a.size} :
          /\ fails => dl[t].begin = 0
          /\ Leave(t, [dl[t] EXCEPT !.stage = "open", !.ver = a.ver, !.first = a.first,
                                    !.size = a.size, !.len = len, !.lost = fails])
          /\ tmp' = IF fails THEN tmp ELSE Begun(t)
          /\ spoilt' = (spoilt \/ ~Continues(t, a) \/ \E u \in Tasks \ {t} : Writing(u))
    /\ UNCHANGED <<file, version>>

\* doBackgroundReceiveData: the data is counted, then appended (fopen with "a").  A
\* failing fopen or fwrite is not noticed; of a short fwrite the part written and
\* the part lost are two pieces.
Receive(t) ==
    /\ dl[t].in = "data"
    /\ \E fails \in BOOLEAN :
          /\ Leave(t, [dl[t] EXCEPT !.got = @ + 1, !.lost = @ \/ fails])
          /\ tmp' = IF fails THEN tmp
                    ELSE Append(IF tmp = Absent THEN <<>> ELSE tmp,
                                Piece(dl[t].ver, dl[t].first + dl[t].got + 1))
    /\ UNCHANGED <<file, version, spoilt>>

\* Mutant of Saves: the length of a resumed answer is not looked at.
SavesResumed(t) ==
    \/ t \in Resume \/ t \notin Check
    \/ dl[t].len = 0 \/ dl[t].len = dl[t].got

\* Whether the body is taken for complete.
Saves(t) ==
    \/ t \in Resume /\ dl[t].len = dl[t].got
    \/ t \notin Resume /\ (t \notin Check \/ dl[t].len = 0 \/ dl[t].len = dl[t].got)

\* The body ended early, and there is no length, or nobody looks at it.
EndedUnseen(t) ==
    /\ dl[t].got # dl[t].size
    /\ dl[t].len = 0 \/ t \notin Resume \cup Check

\* Mutant of Finish: the old copy goes whether or not there is a new one.
FinishFirst(t) ==
    /\ dl[t].in = "finish"
    /\ file' = Absent
    /\ IF Saves(t)
       THEN dl' = [dl EXCEPT ![t].in = "move"] /\ tmp' = tmp
       ELSE /\ dl' = [dl EXCEPT ![t] = Over]
            /\ tmp' = IF t \in Resume THEN tmp ELSE Absent
    /\ spoilt' = (spoilt \/ (Saves(t) /\ (EndedUnseen(t) \/ dl[t].lost)))
    /\ UNCHANGED version

\* doBackgroundLoaded: a body taken for complete replaces the copy at path, which is
\* removed first; else path.tmp is removed, or kept for the next attempt.
Finish(t) ==
    /\ dl[t].in = "finish"
    /\ IF Saves(t)
       THEN dl' = [dl EXCEPT ![t].in = "move"] /\ file' = Absent /\ tmp' = tmp
       ELSE /\ dl' = [dl EXCEPT ![t] = Over]
            /\ file' = file
            /\ tmp' = IF t \in Resume THEN tmp ELSE Absent
    /\ spoilt' = (spoilt \/ (Saves(t) /\ (EndedUnseen(t) \/ dl[t].lost)))
    /\ UNCHANGED version

\* The move fails when another task has put its copy there, or has no path.tmp left.
Move(t) ==
    /\ dl[t].in = "move"
    /\ dl' = [dl EXCEPT ![t] = Over]
    /\ IF file = Absent THEN file' = tmp /\ tmp' = Absent ELSE UNCHANGED <<file, tmp>>
    /\ UNCHANGED <<version, spoilt>>

\* didFailWithError, connectTimeout.
Break(t) ==
    /\ dl[t].stage \in {"asked", "open"} /\ dl[t].in = "none"
    /\ dl' = [dl EXCEPT ![t] = Over]
    /\ UNCHANGED <<file, tmp, version, spoilt>>

-----------------------------------------------------------------------------
\* The program is killed and started again.
Crash ==
    /\ \E t \in Tasks : dl[t].stage \in {"asked", "open"}
    /\ dl' = [t \in Tasks |-> IF dl[t].stage = "idle" THEN dl[t] ELSE Over]
    /\ UNCHANGED <<file, tmp, version, spoilt>>

\* Another resource is put on the server.
Publish ==
    /\ version < MaxVersion
    /\ version' = version + 1
    /\ UNCHANGED <<dl, file, tmp, spoilt>>

Step(t) ==
    \/ Ask(t) \/ Cancel(t) \/ Break(t)
    \/ Connection(t) \/ Respond(t) \/ Receive(t) \/ Finish(t) \/ Move(t)

Next == (\E t \in Tasks : Step(t)) \/ Crash \/ Publish

Spec == Init /\ [][Next]_vars

-----------------------------------------------------------------------------
TaskT ==
    [stage : {"idle", "asked", "open", "over"},
     in : {"none", "response", "data", "finish", "move"},
     cancelled : BOOLEAN, begin : Nat, first : Nat, size : Nat, len : Nat, got : Nat,
     ver : 0..MaxVersion, lost : BOOLEAN]

FileT == Seq([ver : Nat, num : Nat])

TypeOK ==
    /\ dl \in [Tasks -> TaskT]
    /\ file \in FileT /\ tmp \in FileT
    /\ version \in 1..MaxVersion
    /\ spoilt \in BOOLEAN

\* One body as the server sent it, whole: a version of the resource or an error page.
Body(f) ==
    \/ \E v \in 1..MaxVersion : f = Part(v, Chunks)
    \/ \E n \in 0..Chunks : f = Part(0, n)

\* A resource file is one whole body, never a part or a mix of two, whichever tasks
\* asked for it, were cancelled, resumed or died on the way.  The code looks at no
\* status, so that body may be an error page.  The exceptions (spoilt): two tasks
\* wrote at the same time; a resumed answer did not continue what was there; a body
\* that ended early, and no length was there or looked at to tell, or of which a
\* piece was counted and not written, was taken for complete.
SavedIsWhole == ~spoilt => file = Absent \/ Body(file)

\* With the same exceptions, the copy there was goes only when a whole body waits at
\* path.tmp to take its place: an answer that is short by its length, or broken off,
\* leaves it alone.  (An error page does not, and a kill between the removal and the
\* move leaves the new body at path.tmp and nothing at path.)
CopyIsKept ==
    [][~spoilt' /\ file # Absent /\ file' = Absent => Body(tmp')]_vars

\* What happens after that is of no interest to either.
Unspoilt == ~spoilt
=============================================================================
