------------------------------ MODULE ImageTasks ------------------------------
(***************************************************************************)
(* How an image view gets its picture.  VTImageService answers from its    *)
(* memory cache or from the resource file; else it enrols the view with    *)
(* the one download of that address, and tells all the views enrolled when *)
(* the download ends.  Everything here runs on the main thread, except for *)
(* the threads of the HTTP operations; reads of views with localAsyncLoad  *)
(* and the second half of a cell's setDataItem are blocks of the main      *)
(* queue.  The time an operation waits for a slot is part of "open".       *)
(*                                                                         *)
(* Addresses are absolute; named, bundled and "/" pictures are shown at    *)
(* once and left out, and so are default pictures and reuseFileURI.        *)
(***************************************************************************)
EXTENDS Integers, Sequences, FiniteSets

CONSTANTS
    Views,       (* views that show an image (IVTImageTask)                *)
    Srcs,        (* addresses of images                                    *)
    Nothing,     (* no picture, or the default one                         *)
    Cancellable, (* the ones that start with http://                       *)
    Async,       (* views with localAsyncLoad                              *)
    Rebound,     (* views of reused cells, given one item after another    *)
    Headers,     (* views that get an address when a data source answers   *)
    Paged,       (* views a screen loads, downloads and cancels            *)
    MaxOps       (* bound: HTTP operations                                 *)

ASSUME ImageAssumption ==
    /\ Nothing \notin Srcs
    /\ Cancellable \subseteq Srcs /\ Async \subseteq Views
    /\ Rebound \subseteq Views /\ Headers \subseteq Views /\ Paged \subseteq Views
    /\ MaxOps \in Nat

VARIABLES
    view,        (* view[v]: address, flags and the address it shows       *)
    waiting,     (* _imageTasks: the views enrolled with each address      *)
    task,        (* _httpTasks: the operation of each address, or 0        *)
    op,          (* the operations in the order they were made             *)
    cached,      (* _imageCached: addresses with a picture in memory       *)
    file,        (* the resource file of each address                      *)
    main,        (* blocks of the main queue                               *)
    moved        (* ghost: views given an address while still busy         *)

vars == <<view, waiting, task, op, cached, file, main, moved>>

Init ==
    /\ view \in [Views -> {[src |-> s, loading |-> FALSE, loaded |-> FALSE, pic |-> Nothing]
                           : s \in Srcs}]
    /\ waiting = [s \in Srcs |-> {}]
    /\ task = [s \in Srcs |-> 0]
    /\ op = <<>> /\ cached = {} /\ main = <<>> /\ moved = {}
    /\ file \in [Srcs -> {"none", "image"}]

\* A handler makes several calls in turn; each is an operator on this record.
Now == [view |-> view, waiting |-> waiting, task |-> task, op |-> op,
        cached |-> cached, main |-> main]

Becomes(w) ==
    /\ view' = w.view /\ waiting' = w.waiting /\ task' = w.task
    /\ op' = w.op /\ cached' = w.cached /\ main' = w.main

-----------------------------------------------------------------------------
(* VTImageService.                                                         *)

\* setLoading:NO and setImage: of the picture of s.
Shows(r, s) == [r EXCEPT !.loading = FALSE, !.loaded = TRUE, !.pic = s]

\* Mutant of Told: views are told of a picture only.
ToldPicture(w, s, pic) ==
    [w EXCEPT !.view = [v \in Views |-> IF v \in w.waiting[s] /\ pic = s
                                        THEN Shows(w.view[v], pic) ELSE w.view[v]],
              !.waiting[s] = {},
              !.task[s] = IF w.waiting[s] = {} THEN @ ELSE 0]

\* The end of the download of s: every view enrolled gets the picture or nil,
\* and the lists forget the address.
Told(w, s, pic) ==
    [w EXCEPT !.view = [v \in Views |-> IF v \in w.waiting[s]
                                        THEN Shows(w.view[v], pic) ELSE w.view[v]],
              !.waiting[s] = {},
              !.task[s] = IF w.waiting[s] = {} THEN @ ELSE 0]

\* doLoaded and vtHttpTaskDidLoaded: the file is there and is a picture, is
\* there and is none, or is not there.
DidLoaded(w, s) ==
    IF file[s] = "image" THEN Told([w EXCEPT !.cached = @ \cup {s}], s, s)
                         ELSE Told(w, s, Nothing)

\* A view that needs the network joins the download of s or starts it.  A file
\* that exists ends the new download before it has an operation.
Enrolled(w, v, s) ==
    LET joined == [w EXCEPT !.waiting[s] = @ \cup {v}, !.view[v].loading = TRUE]
    IN  IF w.waiting[s] # {} THEN joined
        ELSE IF file[s] # "none" THEN DidLoaded(joined, s)
        ELSE [joined EXCEPT !.task[s] = Len(w.op) + 1,
                            !.op = Append(@, [src |-> s, stage |-> "open",
                                              cancelled |-> FALSE])]

\* The read of the local file and what follows it (the block fn).
FromFile(w, v, s, type) ==
    IF file[s] = "image"
    THEN [w EXCEPT !.cached = @ \cup {s}, !.view[v] = Shows(@, s)]
    ELSE IF type = "image" THEN Enrolled(w, v, s) ELSE w

\* handle:task:priority: for IVTImageTask ("image") and IVTLocalImageTask ("local").
Handled(w, v, type) ==
    LET s == w.view[v].src
    IN  IF s \in w.cached THEN [w EXCEPT !.view[v] = Shows(@, s)]
        ELSE IF v \in Async
             THEN [w EXCEPT !.main = Append(@, [kind |-> type, view |-> v, src |-> s, op |-> 0])]
             ELSE FromFile(w, v, s, type)

\* VTHttpTaskOperator cancel: its blocks and its connection find it cancelled.
Stopped(w, s) ==
    [w EXCEPT !.op = [o \in DOMAIN @ |-> IF o = w.task[s] THEN [@[o] EXCEPT !.cancelled = TRUE]
                                                          ELSE @[o]],
              !.task[s] = 0]

\* Mutant of Left: the download of a list that got empty goes on.
LeftRunning(w, s, vs) == [w EXCEPT !.waiting[s] = @ \ vs]

\* The views vs leave the list of s; the download of an empty list is cancelled.
Left(w, s, vs) ==
    LET rest == [w EXCEPT !.waiting[s] = @ \ vs]
    IN  IF rest.waiting[s] = {} THEN Stopped(rest, s) ELSE rest

\* cancelHandle:task: looks under the address the view has now.
Cancelled(w, v) ==
    LET s == w.view[v].src
    IN  IF s \in Cancellable /\ w.waiting[s] # {}
        THEN Left([w EXCEPT !.view[v].loading = FALSE], s, {v}) ELSE w

-----------------------------------------------------------------------------
(* The controllers and cells that use it.                                  *)

\* cancelDownloadImagesForView:, loadImagesForView:, downloadImagesForView:.
CancelDownload(w, v) == IF w.view[v].loading THEN Cancelled(w, v) ELSE w

LoadLocal(w, v) ==
    LET c == CancelDownload(w, v)
    IN  IF c.view[v].loaded THEN c ELSE Handled(c, v, "local")

Download(w, v) ==
    IF w.view[v].loading \/ w.view[v].loaded THEN w ELSE Handled(w, v, "image")

\* Mutant of Addressed: the picture of the old address stays.
AddressedKept(r, s) ==
    IF s = r.src THEN r ELSE [r EXCEPT !.src = s, !.loaded = FALSE]

\* VTImageView setSrc:, called before any cancellation.
Addressed(r, s) ==
    IF s = r.src THEN r ELSE [r EXCEPT !.src = s, !.loaded = FALSE, !.pic = Nothing]

Reads(v) == \E i \in DOMAIN main : main[i].kind \in {"image", "local"} /\ main[i].view = v

\* A view is busy while it is loading, while a read of it is due, and while it
\* still waits for a download although its picture came from the file.
Busy(v) ==
    \/ view[v].loading
    \/ Reads(v)
    \/ \E s \in Srcs : v \in waiting[s] /\ (view[v].loaded \/ v \in moved)

Moves(v, s) ==
    moved' = IF s = view[v].src THEN moved
             ELSE IF Busy(v) THEN moved \cup {v} ELSE moved \ {v}

\* Room for n more blocks or operations.
Room(n) ==
    Len(op) + Cardinality({i \in DOMAIN main : main[i].op = 0}) + n <= MaxOps

\* VTTableViewCell setDataItem: the outlets set the address, then the download is
\* cancelled, the file tried, and the rest left to a block.
Rebind(v, s) ==
    /\ v \in Rebound /\ Room(2)
    /\ LET w == LoadLocal(CancelDownload([Now EXCEPT !.view[v] = Addressed(@, s)], v), v)
       IN  Becomes([w EXCEPT !.main = Append(@, [kind |-> "download", view |-> v,
                                                 src |-> s, op |-> 0])])
    /\ Moves(v, s)
    /\ UNCHANGED file

DownloadBlock ==
    /\ main # <<>> /\ Head(main).kind = "download"
    /\ Becomes(Download([Now EXCEPT !.main = Tail(@)], Head(main).view))
    /\ UNCHANGED <<file, moved>>

\* reloadTableHeaderViewData: address, cancel, download.
Headed(v, s) == Download(CancelDownload([Now EXCEPT !.view[v] = Addressed(@, s)], v), v)

SetHeader(v, s) ==
    /\ v \in Headers /\ Room(1)
    /\ Becomes(Headed(v, s))
    /\ Moves(v, s)
    /\ UNCHANGED file

\* A screen appears, gets an answer, or goes.
PageLoads(v) ==
    /\ v \in Paged /\ Room(1)
    /\ Becomes(LoadLocal(Now, v))
    /\ UNCHANGED <<file, moved>>

PageDownloads(v) ==
    /\ v \in Paged /\ Room(1)
    /\ Becomes(Download(Now, v))
    /\ UNCHANGED <<file, moved>>

PageCancels(v) ==
    /\ v \in Paged
    /\ view[v].loading
    /\ Becomes(Cancelled(Now, v))
    /\ UNCHANGED <<file, moved>>

\* cancelHandleForSource: the views of a screen leave every list at once.
Leaving(s) ==
    {v \in Paged : v \in waiting[s]}

CloseScreen ==
    /\ \E s \in Srcs : Leaving(s) # {}
    /\ view' = [v \in Views |-> IF \E s \in Srcs : v \in Leaving(s)
                                THEN [view[v] EXCEPT !.loading = FALSE] ELSE view[v]]
    /\ waiting' = [s \in Srcs |-> waiting[s] \ Leaving(s)]
    /\ task' = [s \in Srcs |-> IF waiting[s] \ Leaving(s) = {} THEN 0 ELSE task[s]]
    /\ op' = [o \in DOMAIN op |->
                 IF \E s \in Srcs : o = task[s] /\ waiting[s] # {} /\ waiting[s] \ Leaving(s) = {}
                 THEN [op[o] EXCEPT !.cancelled = TRUE] ELSE op[o]]
    /\ UNCHANGED <<cached, file, main, moved>>

\* didReceiveMemoryWarning: pictures nobody shows are dropped.
MemoryWarning ==
    /\ cached' = {s \in cached : \E v \in Views : view[v].pic = s}
    /\ UNCHANGED <<view, waiting, task, op, file, main, moved>>

\* The block of a view with localAsyncLoad reads the file of the address the view
\* had when it was asked for.
ReadBlock ==
    /\ main # <<>> /\ Head(main).kind \in {"image", "local"}
    /\ Becomes(FromFile([Now EXCEPT !.main = Tail(@)], Head(main).view, Head(main).src,
                        Head(main).kind))
    /\ UNCHANGED <<file, moved>>

-----------------------------------------------------------------------------
(* The HTTP operations.  A callback of a connection looks whether the      *)
(* operation is cancelled and then acts.                                   *)

Post(o, kind) == main' = Append(main, [kind |-> kind, view |-> Nothing, src |-> op[o].src, op |-> o])

At(o, stage) == op' = [op EXCEPT ![o].stage = stage]

Callback(o) == o \in DOMAIN op /\ op[o].stage = "open" /\ ~op[o].cancelled

\* connectionDidFinishLoading, past its check.
Lands(o) ==
    /\ Callback(o)
    /\ At(o, "landing")
    /\ UNCHANGED <<view, waiting, task, cached, file, main, moved>>

\* doBackgroundLoaded moves what came into place, picture or not, or drops a body
\* of the wrong length; then the main queue is told.
Landed(o) ==
    /\ o \in DOMAIN op /\ op[o].stage = "landing"
    /\ At(o, "ended")
    /\ \E content \in {"image", "junk", file[op[o].src]} :
           file' = [file EXCEPT ![op[o].src] = content]
    /\ Post(o, "loaded")
    /\ UNCHANGED <<view, waiting, task, cached, moved>>

\* didFailWithError.
Breaks(o) ==
    /\ Callback(o)
    /\ At(o, "ended")
    /\ Post(o, "failed")
    /\ UNCHANGED <<view, waiting, task, cached, file, moved>>

\* connectTimeout tells the main queue, which leaves the rest to a zero-delay timer.
TimesOut(o) ==
    /\ Callback(o)
    /\ At(o, "ended")
    /\ Post(o, "timeout")
    /\ UNCHANGED <<view, waiting, task, cached, file, moved>>

TimeoutBlock ==
    /\ main # <<>> /\ Head(main).kind = "timeout"
    /\ At(Head(main).op, "late")
    /\ main' = Tail(main)
    /\ UNCHANGED <<view, waiting, task, cached, file, moved>>

\* mainDoFailError and didLoaded leave a cancelled operation alone.
LateFails(o) ==
    /\ o \in DOMAIN op /\ op[o].stage = "late"
    /\ Becomes(LET w == [Now EXCEPT !.op[o].stage = "ended"]
               IN  IF op[o].cancelled THEN w ELSE Told(w, op[o].src, Nothing))
    /\ UNCHANGED <<file, moved>>

EndBlock ==
    /\ main # <<>> /\ Head(main).kind \in {"loaded", "failed"}
    /\ LET b == Head(main)
           w == [Now EXCEPT !.main = Tail(@)]
       IN  Becomes(IF op[b.op].cancelled THEN w
                   ELSE IF b.kind = "loaded" THEN DidLoaded(w, b.src)
                   ELSE Told(w, b.src, Nothing))
    /\ UNCHANGED <<file, moved>>

-----------------------------------------------------------------------------
MainBlock == DownloadBlock \/ ReadBlock \/ TimeoutBlock \/ EndBlock

Gesture ==
    \/ \E v \in Views :
          \/ \E s \in Srcs : Rebind(v, s) \/ SetHeader(v, s)
          \/ PageLoads(v) \/ PageDownloads(v) \/ PageCancels(v)
    \/ CloseScreen \/ MemoryWarning

OpStep(o) == Lands(o) \/ Landed(o) \/ Breaks(o) \/ TimesOut(o) \/ LateFails(o)

Next == MainBlock \/ Gesture \/ \E o \in 1..MaxOps : OpStep(o)

Spec == Init /\ [][Next]_vars

\* The main run loop serves its queue, and the network or the timer ends every
\* connection.  Gestures are nobody's duty.
FairSpec ==
    /\ Spec
    /\ WF_vars(MainBlock)
    /\ \A o \in 1..MaxOps : WF_vars(OpStep(o))

-----------------------------------------------------------------------------
Stages == {"open", "landing", "late", "ended"}

ViewT ==
    [src : Srcs, loading : BOOLEAN, loaded : BOOLEAN, pic : Srcs \cup {Nothing}]

OpT == [src : Srcs, stage : Stages, cancelled : BOOLEAN]

BlockT ==
    [kind : {"image", "local", "download", "loaded", "failed", "timeout"},
     view : Views \cup {Nothing}, src : Srcs, op : Nat]

TypeOK ==
    /\ view \in [Views -> ViewT]
    /\ waiting \in [Srcs -> SUBSET Views]
    /\ task \in [Srcs -> Nat]
    /\ op \in Seq(OpT)
    /\ cached \subseteq Srcs
    /\ file \in [Srcs -> {"none", "image", "junk"}]
    /\ main \in Seq(BlockT)
    /\ moved \subseteq Views

\* A view shows no picture but the one of its address, unless it was given that
\* address while it was busy with another: cells are, since their outlets run
\* before the cancellation, which then looks under the new address.
OwnImage == \A v \in Views \ moved : view[v].pic \in {Nothing, view[v].src}

\* An operation somebody has to be told about.
Pending(o) ==
    /\ ~op[o].cancelled
    /\ \/ op[o].stage # "ended"
       \/ \E i \in DOMAIN main : main[i].op = o

\* Views wait under an address exactly as long as one download of it is under way,
\* the one _httpTasks names: nobody waits in vain, nothing is downloaded for nobody
\* and never twice at a time.
WaitersHaveDownload ==
    \A s \in Srcs :
        {o \in DOMAIN op : op[o].src = s /\ Pending(o)}
            = IF waiting[s] = {} THEN {} ELSE {task[s]}

\* A view that is loading does not stay so, whatever is cancelled and given a new
\* address meanwhile.
LoadingEnds == \A v \in Views : view[v].loading ~> ~view[v].loading
=============================================================================
