------------------------------ MODULE APIRequests ------------------------------
(***************************************************************************)
(* Requests by way of VTAPIService: the comments HCCommentViewController   *)
(* sends through HCCommentService, and the requests of other screens,      *)
(* which carry their screen as source and may be cancelled.  An answer     *)
(* comes on the thread of its HTTP operation, goes to the main thread,     *)
(* waits in _responses for another block and only then reaches the task's  *)
(* delegate, a screen the task does not keep alive.                        *)
(***************************************************************************)
EXTENDS Integers, Sequences

CONSTANTS
    Comments,    (* screens to write a comment on (HCCommentViewController) *)
    Sources,     (* screens that cancel: their requests carry a source      *)
    MaxRequests  (* bound: requests                                         *)

Screens == Comments \cup Sources

ASSUME APIAssumption ==
    /\ Comments \cap Sources = {}
    /\ MaxRequests \in Nat

VARIABLES
    screen,      (* screen[s]: where it is, its overlay, its refCmtTask and *)
                 (* whether it was opened for an activity (commentType)     *)
    req,         (* requests in the order they were made                    *)
    main         (* blocks of the main queue                                *)

vars == <<screen, req, main>>

Init ==
    /\ \E activities \in SUBSET Comments :
          screen = [s \in Screens |-> [at |-> "top", loading |-> FALSE, ref |-> 0,
                                       activity |-> s \in activities]]
    /\ req = <<>> /\ main = <<>>

-----------------------------------------------------------------------------
(* VTAPIService, HCCommentService and VTHttpService.                       *)

\* handle: an HTTP task of its own for every request; delegate is the task's.
Request(s) ==
    Append(req, [by |-> s, delegate |-> TRUE, op |-> "open", cancelled |-> FALSE,
                 listed |-> TRUE, held |-> FALSE, told |-> 0, wanted |-> TRUE])

\* Mutant of TakenBack: an answer already in _responses is still given.
TakenBackLate(r) == [r EXCEPT !.listed = FALSE, !.cancelled = (@ \/ r.listed)]

\* The loops over _httpTasks and _responses of cancelHandle and
\* cancelHandleForSource, for a request they are looking for.
TakenBack(r) ==
    [r EXCEPT !.listed = FALSE, !.held = FALSE, !.cancelled = (@ \/ r.listed)]

\* The same as its caller sees it: an answer that has not come is not wanted.
GivenUp(r) == [TakenBack(r) EXCEPT !.wanted = r.told # 0]

\* vtHttpTask didFailError: the task is answered at once.
Failed(r) == [r EXCEPT !.listed = FALSE, !.told = @ + 1]

\* vtHttpTaskDidLoaded: the answer is left for the next block.
Held(r) == [r EXCEPT !.listed = FALSE, !.held = TRUE]

\* Mutant of Told: the overlay stays when the comment was refused.
ToldOpen(scr, s, good) ==
    IF s \in Comments /\ scr[s].at # "gone" /\ good
    THEN [scr EXCEPT ![s].loading = FALSE, ![s].at = "popped"] ELSE scr

\* What the delegate does with its answer: a comment screen closes its overlay, and
\* itself if the comment was taken.
Told(scr, s, good) ==
    IF s \in Comments /\ scr[s].at # "gone"
    THEN [scr EXCEPT ![s].loading = FALSE,
                     ![s].at = IF good THEN "popped" ELSE @]
    ELSE scr

Telling(r, good) ==
    screen' = IF req[r].delegate THEN Told(screen, req[r].by, good) ELSE screen

-----------------------------------------------------------------------------
(* The screens.  Only of comment screens it matters that others cover them. *)

\* doSubmitComment.  The overlay covers the screen, so that nothing can be sent
\* while it is there.  It is shown first; of a comment on an activity nothing more
\* becomes.
Send(s) ==
    /\ s \in Comments
    /\ screen[s].at = "top" /\ ~screen[s].loading
    /\ \/ /\ screen[s].activity
          /\ screen' = [screen EXCEPT ![s].loading = TRUE]
          /\ req' = req
       \/ /\ ~screen[s].activity
          /\ Len(req) < MaxRequests
          /\ req' = Request(s)
          /\ screen' = [screen EXCEPT ![s].loading = TRUE, ![s].ref = Len(req) + 1]
    /\ UNCHANGED main

Query(s) ==
    /\ s \in Sources
    /\ screen[s].at = "top"
    /\ Len(req) < MaxRequests
    /\ req' = Request(s)
    /\ UNCHANGED <<screen, main>>

\* viewDidDisappear takes the overlay away, whatever is under way.
Cover(s) ==
    /\ s \in Comments
    /\ screen[s].at = "top"
    /\ screen' = [screen EXCEPT ![s].at = "covered", ![s].loading = FALSE]
    /\ UNCHANGED <<req, main>>

Uncover(s) ==
    /\ screen[s].at = "covered"
    /\ screen' = [screen EXCEPT ![s].at = "top"]
    /\ UNCHANGED <<req, main>>

Pop(s) ==
    /\ screen[s].at \in {"top", "covered"} /\ ~screen[s].loading
    /\ screen' = [screen EXCEPT ![s].at = "popped"]
    /\ UNCHANGED <<req, main>>

\* cancelHandle with IVTAPICancelTask.
Cancel(r) ==
    /\ req[r].by \in Sources /\ screen[req[r].by].at # "gone"
    /\ req' = [req EXCEPT ![r] = GivenUp(@)]
    /\ UNCHANGED <<screen, main>>

\* Mutant of Dismantled: the comment task keeps its delegate.
DismantledKept(s) ==
    [r \in DOMAIN req |-> IF s \in Sources /\ req[r].by = s THEN GivenUp(req[r]) ELSE req[r]]

\* dealloc of a screen: refCmtTask loses its delegate, and what has the screen as
\* its source is cancelled.  A comment has none and goes on.
Dismantled(s) ==
    [r \in DOMAIN req |->
        IF s \in Sources /\ req[r].by = s THEN GivenUp(req[r])
        ELSE IF r = screen[s].ref THEN [req[r] EXCEPT !.delegate = FALSE] ELSE req[r]]

Dealloc(s) ==
    /\ screen[s].at = "popped"
    /\ screen' = [screen EXCEPT ![s].at = "gone", ![s].loading = FALSE]
    /\ req' = Dismantled(s)
    /\ UNCHANGED main

-----------------------------------------------------------------------------
(* The thread of an HTTP operation.  It tests for cancellation and posts;  *)
(* the main thread tests again.                                            *)

Ends(r, kind) ==
    /\ req[r].op = "open" /\ ~req[r].cancelled
    /\ req' = [req EXCEPT ![r].op = "ended"]
    /\ main' = Append(main, [kind |-> kind, req |-> r])
    /\ UNCHANGED screen

\* connectionDidFinishLoading, didFailWithError and connectTimeout.
EndOp(r) == \E kind \in {"loaded", "failed", "timeout"} : Ends(r, kind)

-----------------------------------------------------------------------------
(* The main thread.                                                        *)

Run(kind) ==
    /\ main # <<>> /\ Head(main).kind = kind

\* didLoaded: a cancelled operation says nothing.
LoadedBlock ==
    /\ Run("loaded")
    /\ LET r == Head(main).req
       IN  IF req[r].cancelled
           THEN req' = req /\ main' = Tail(main)
           ELSE /\ req' = [req EXCEPT ![r] = Held(@)]
                /\ main' = Append(Tail(main), [kind |-> "response", req |-> r])
    /\ UNCHANGED screen

\* mainDoFailError.
Fail(r) ==
    IF req[r].cancelled THEN UNCHANGED <<req, screen>>
    ELSE req' = [req EXCEPT ![r] = Failed(@)] /\ Telling(r, FALSE)

FailedBlock ==
    /\ Run("failed")
    /\ Fail(Head(main).req)
    /\ main' = Tail(main)

\* connectTimeout leaves the rest to a zero-delay timer.
TimeoutBlock ==
    /\ Run("timeout")
    /\ req' = [req EXCEPT ![Head(main).req].op = "late"]
    /\ main' = Tail(main)
    /\ UNCHANGED screen

LateFails(r) ==
    /\ req[r].op = "late"
    /\ IF req[r].cancelled
       THEN req' = [req EXCEPT ![r].op = "ended"] /\ UNCHANGED screen
       ELSE req' = [req EXCEPT ![r] = Failed([@ EXCEPT !.op = "ended"])] /\ Telling(r, FALSE)
    /\ UNCHANGED main

\* Mutant of Answers: the block does not look whether the answer is still there.
AnswersAlways(r) == TRUE

\* The block finds its answer in _responses.
Answers(r) == req[r].held

\* The block of vtHttpTaskDidLoaded; the comment was taken, or refused.
ResponseBlock ==
    /\ Run("response")
    /\ LET r == Head(main).req
       IN  IF Answers(r)
           THEN /\ req' = [req EXCEPT ![r].held = FALSE, ![r].told = @ + 1]
                /\ \E good \in BOOLEAN : Telling(r, good)
           ELSE UNCHANGED <<req, screen>>
    /\ main' = Tail(main)

-----------------------------------------------------------------------------
RunMain == LoadedBlock \/ FailedBlock \/ TimeoutBlock \/ ResponseBlock

Gesture(s) == Send(s) \/ Query(s) \/ Cover(s) \/ Uncover(s) \/ Pop(s) \/ Dealloc(s)

Next ==
    \/ \E s \in Screens : Gesture(s)
    \/ \E r \in DOMAIN req : Cancel(r) \/ EndOp(r) \/ LateFails(r)
    \/ RunMain

Spec == Init /\ [][Next]_vars

\* The main run loop serves its queue and its timers, and a connection ends, at the
\* latest by its timeout.
FairSpec ==
    /\ Spec
    /\ WF_vars(RunMain)
    /\ \A r \in 1..MaxRequests :
        /\ WF_vars(r \in DOMAIN req /\ EndOp(r))
        /\ WF_vars(r \in DOMAIN req /\ LateFails(r))

-----------------------------------------------------------------------------
\* Somebody still owes request r an answer.
Owed(r) ==
    \/ req[r].held
    \/ ~req[r].cancelled /\ req[r].listed

ScreenT ==
    [at : {"top", "covered", "popped", "gone"}, loading : BOOLEAN, ref : 0..MaxRequests,
     activity : BOOLEAN]

ReqT ==
    [by : Screens, delegate : BOOLEAN, op : {"open", "late", "ended"}, cancelled : BOOLEAN,
     listed : BOOLEAN, held : BOOLEAN, told : Nat, wanted : BOOLEAN]

BlockT == [kind : {"loaded", "failed", "timeout", "response"}, req : 1..MaxRequests]

TypeOK ==
    /\ screen \in [Screens -> ScreenT]
    /\ req \in Seq(ReqT) /\ Len(req) <= MaxRequests
    /\ main \in Seq(BlockT)

\* What a caller sees of its requests.
Outcome ==
    [r \in 1..MaxRequests |->
        IF r \notin DOMAIN req THEN "unasked"
        ELSE IF req[r].told = 0 THEN (IF req[r].wanted THEN "open" ELSE "taken back")
        ELSE IF req[r].told = 1 THEN "told" ELSE "told again"]

AO == INSTANCE AnswerOnce WITH state <- Outcome

\* A request is answered once, or never if it was cancelled, though the cancellation
\* may come between any two of the steps an answer takes; and one of the two happens.
AnsweredOnce == AO!FairSpec

\* An answer does not go to a screen that is gone, unless the screen was covered
\* while its comment was on the way and sent another one: it forgets the first.
DelegateAlive ==
    \A r \in DOMAIN req :
        Owed(r) /\ req[r].delegate /\ screen[req[r].by].at = "gone"
            => req[r].by \in Comments /\ screen[req[r].by].ref > r

\* The overlay that covers everything goes, whatever becomes of the comment.  The
\* one of a comment on an activity stays: nothing is sent, so nothing answers
\* (HCCommentViewController.m:93-118).
OverlayGoes ==
    \A s \in Comments : screen[s].loading /\ ~screen[s].activity ~> ~screen[s].loading
=============================================================================
