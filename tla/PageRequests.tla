---------------------------- MODULE PageRequests ----------------------------
(***************************************************************************)
(* How a list screen gets its pages: VTURLDataSource (a VTPageDataSource)  *)
(* asks VTURLService, which reads the cache of VTDownlinkService and sends *)
(* a VTHttpTask through VTHttpService, and the answer comes back over      *)
(* three queues.                                                           *)
(*                                                                         *)
(* The main thread runs gestures, the blocks of its dispatch queue (main)  *)
(* and its zero-delay timers (later) in any order between the three; the   *)
(* serial queue (jobs) touches the cache; each HTTP operation has a thread *)
(* and holds one of MaxThread slots until the main thread has heard of its *)
(* end.  No step carries the page or the subject it was asked for: an      *)
(* answer meets the data source as it is when it arrives.                  *)
(***************************************************************************)
EXTENDS Integers, Sequences, FiniteSets

CONSTANTS
    Sources,     (* data sources                                           *)
    Url,         (* Url[s]: the address template a data source reads       *)
    Gestures,    (* Gestures[s]: what is done to it, see below             *)
    Checked,     (* sources with an errorCodeKeyPath: bad bodies are errors *)
    Kept,        (* sources an earlier launch may have left a page of      *)
    Pages,       (* pages that have items; the ones behind are empty       *)
    MaxThread,   (* slots of the HTTP operation queue                      *)
    MaxSubject,  (* bound: items a reused cell shows in turn               *)
    MaxWants,    (* bound: loadMoreData calls under way                    *)
    MaxRequests, (* bound: requests                                        *)
    MaxVersion   (* bound: versions of the content on the server           *)

ASSUME PageAssumption ==
    /\ Gestures \in [Sources -> SUBSET {"refresh", "scroll", "rebind", "leave"}]
    /\ Checked \subseteq Sources /\ Kept \subseteq Sources
    /\ Pages \in Nat /\ MaxThread \in Nat \ {0} /\ MaxSubject \in Nat \ {0}
    /\ MaxWants \in Nat /\ MaxRequests \in Nat /\ MaxVersion \in Nat \ {0}

VARIABLES
    ds,          (* ds[s]: the data source                                 *)
    wants,       (* wants[s]: loadMoreData calls waiting for the run loop  *)
    reqs,        (* requests in the order they were made                   *)
    main,        (* blocks of the main dispatch queue                      *)
    later,       (* zero-delay performSelector calls of the main thread    *)
    jobs,        (* jobs of VTDownlinkService's serial queue               *)
    cache,       (* cache[k]: the stored first page of address k           *)
    version,     (* the content on the server                              *)
    heard,       (* ghost: the newest request of s whose answer arrived    *)
    last         (* ghost: the newest first page that arrived for s        *)

vars == <<ds, wants, reqs, main, later, jobs, cache, version, heard, last>>

\* An address is a template filled in with the subject a cell shows; lists have
\* one.  A cached page is stored under the address of page 1.
Key(s, subject) == [url |-> Url[s], subject |-> subject]
Keys == {Key(s, i) : s \in Sources, i \in 1..MaxSubject}

\* A response: page `page` of address `key` as it was in version `ver`.  Junk
\* is a body VTJSON gives nothing usable for.
NoKey  == [url |-> "none", subject |-> 0]
NoBody == [key |-> NoKey, page |-> -1, ver |-> 0]
Junk   == [key |-> NoKey, page |-> 0, ver |-> 0]

\* The items of a body, as one entry of the list.
Items(body) == IF body.page \in 1..Pages THEN <<body>> ELSE <<>>

\* What an earlier launch may have left under an address: the cache is a table of
\* the application's database.
Remembered(k) ==
    IF \E s \in Kept : Url[s] = k.url
    THEN {NoBody, Junk, [key |-> k, page |-> 1, ver |-> 1]} ELSE {NoBody}

NewSource == [subject |-> 1, pageIndex |-> 1, loading |-> FALSE, dataChanged |-> TRUE,
              hasMore |-> FALSE, list |-> <<>>, shown |-> TRUE, stale |-> FALSE]

Init ==
    /\ ds = [s \in Sources |-> NewSource]
    /\ wants = [s \in Sources |-> 0]
    /\ reqs = <<>> /\ main = <<>> /\ later = <<>> /\ jobs = <<>>
    /\ cache \in [Keys -> UNION {Remembered(k) : k \in Keys}]
    /\ \A k \in Keys : cache[k] \in Remembered(k)
    /\ version = 1
    /\ heard = [s \in Sources |-> 0]
    /\ last = [s \in Sources |-> NoBody]

Block(kind, r, body) == [kind |-> kind, req |-> r, body |-> body]
Timer(kind, r)       == [kind |-> kind, req |-> r]
Job(kind, r, key)    == [kind |-> kind, req |-> r, key |-> key]

-----------------------------------------------------------------------------
(* Gestures: the main thread runs a handler of a controller.               *)

\* VTURLService handle: the cache read of a first page goes to the serial queue,
\* the HTTP task to the main queue.
Submit(s, d, rs) ==
    LET r == Len(rs) + 1
    IN  /\ r <= MaxRequests
        /\ ds' = [ds EXCEPT ![s] = d]
        /\ reqs' = Append(rs, [src |-> s, key |-> Key(s, d.subject), page |-> d.pageIndex,
                               at |-> "posted", item |-> TRUE, changed |-> TRUE,
                               body |-> NoBody, told |-> 0, void |-> FALSE])
        /\ main' = Append(main, Block("start", r, NoBody))
        /\ jobs' = IF d.pageIndex = 1
                   THEN Append(jobs, Job("read", r, Key(s, d.subject))) ELSE jobs

\* Mutant of Reloaded: a list of several pages is not marked for replacement.
ReloadedUnmarked(d) == [d EXCEPT !.loading = TRUE, !.pageIndex = 1]

\* VTPageDataSource reloadData.
Reloaded(d) == [d EXCEPT !.loading = TRUE, !.pageIndex = 1,
                         !.dataChanged = (@ \/ d.pageIndex # 1)]

\* viewWillAppear, or a pull on the table: reloadData when nothing is loading.
\* The loading views a pull looks at are animated exactly while loading is set.
Refresh(s) ==
    /\ "refresh" \in Gestures[s] /\ ds[s].shown
    /\ ~ds[s].loading
    /\ Submit(s, Reloaded(ds[s]), reqs)
    /\ UNCHANGED <<wants, later, cache, version, heard, last>>

\* What a scroll looks at.
MayLoadMore(d) == d.shown /\ ~d.loading /\ d.hasMore

\* scrollViewDidScroll and scrollViewDidEndDragging at the end of the table ask
\* for loadMoreData on the main thread, but not now.
Scroll(s) ==
    /\ "scroll" \in Gestures[s] /\ MayLoadMore(ds[s])
    /\ wants[s] < MaxWants
    /\ wants' = [wants EXCEPT ![s] = @ + 1]
    /\ UNCHANGED <<ds, reqs, main, later, jobs, cache, version, heard, last>>

\* Mutant of More: loading is not set.
MoreUnmarked(d) == [d EXCEPT !.pageIndex = @ + 1]

\* VTPageDataSource loadMoreData.
More(d) == [d EXCEPT !.pageIndex = @ + 1, !.loading = TRUE]

\* The posted call.  Nothing is looked at again; what the scroll saw may no longer
\* be so, which the ghost stale records.
LoadMore(s) ==
    /\ wants[s] > 0
    /\ wants' = [wants EXCEPT ![s] = @ - 1]
    /\ Submit(s, More([ds[s] EXCEPT !.stale = @ \/ ~MayLoadMore(ds[s])]), reqs)
    /\ UNCHANGED <<later, cache, version, heard, last>>

\* Mutant of Dropped: the item and the delegate survive the cancellation.
DroppedKept(s) ==
    [r \in DOMAIN reqs |->
        IF reqs[r].src = s
        THEN [reqs[r] EXCEPT !.void = (@ \/ reqs[r].item)] ELSE reqs[r]]

\* VTURLService cancelHandle: the items of the task go, with the delegate of
\* their HTTP tasks.  The operation itself is not found, it is sought under
\* IVTHttpTask, in another VTHttpService than the one it was given to.
Dropped(s) ==
    [r \in DOMAIN reqs |->
        IF reqs[r].src = s
        THEN [reqs[r] EXCEPT !.item = FALSE, !.void = (@ \/ reqs[r].item)] ELSE reqs[r]]

\* An answer to one of the requests rs of s is on its way.
Awaited(s, rs) == \E r \in DOMAIN rs : rs[r].src = s /\ rs[r].told = 0 /\ ~rs[r].void

\* A reused cell gets another data item: cancel, then reloadData.  An answer whose
\* item was taken comes all the same, and makes it stale.
Rebind(s) ==
    /\ "rebind" \in Gestures[s] /\ ds[s].subject < MaxSubject
    /\ Submit(s, Reloaded([ds[s] EXCEPT !.subject = @ + 1, !.loading = FALSE,
                                        !.stale = @ \/ Awaited(s, Dropped(s))]),
              Dropped(s))
    /\ last' = [last EXCEPT ![s] = NoBody]
    /\ UNCHANGED <<wants, later, cache, version, heard>>

\* The screen is closed and its controller cancels the data source, which the
\* blocks under way keep alive.
Leave(s) ==
    /\ "leave" \in Gestures[s] /\ ds[s].shown
    /\ ds' = [ds EXCEPT ![s].shown = FALSE, ![s].loading = FALSE]
    /\ reqs' = Dropped(s)
    /\ UNCHANGED <<wants, main, later, jobs, cache, version, heard, last>>

-----------------------------------------------------------------------------
(* The HTTP operations: VTHttpService and its VTHttpTaskOperator threads.  *)

At(r, stage) == reqs' = [reqs EXCEPT ![r].at = stage]

\* An operation keeps its slot until the main thread has dealt with its end.
Busy == {r \in DOMAIN reqs : reqs[r].at \in {"open", "ending"}}

\* The queue starts its operations in order as slots come free.
StartOp(r) ==
    /\ reqs[r].at = "queued"
    /\ \A q \in 1..(r - 1) : reqs[q].at # "queued"
    /\ Cardinality(Busy) < MaxThread
    /\ At(r, "open")
    /\ UNCHANGED <<ds, wants, main, later, jobs, cache, version, heard, last>>

\* connectionDidFinishLoading: what the server has now, or a bad body.
Answer(r) ==
    /\ reqs[r].at = "open"
    /\ \E body \in {[key |-> reqs[r].key, page |-> reqs[r].page, ver |-> version], Junk} :
        reqs' = [reqs EXCEPT ![r].at = "ending", ![r].body = body]
    /\ main' = Append(main, Block("loaded", r, NoBody))
    /\ UNCHANGED <<ds, wants, later, jobs, cache, version, heard, last>>

\* didFailWithError.
Break(r) ==
    /\ reqs[r].at = "open"
    /\ At(r, "ending")
    /\ main' = Append(main, Block("failed", r, NoBody))
    /\ UNCHANGED <<ds, wants, later, jobs, cache, version, heard, last>>

\* connectTimeout gives the connection up, so that nothing else can end it.
Timeout(r) ==
    /\ reqs[r].at = "open"
    /\ At(r, "ending")
    /\ main' = Append(main, Block("timeout", r, NoBody))
    /\ UNCHANGED <<ds, wants, later, jobs, cache, version, heard, last>>

-----------------------------------------------------------------------------
(* The main thread: blocks and timers, each queue in order.                *)

RunBlock(kind) ==
    /\ main # <<>> /\ Head(main).kind = kind
    /\ main' = Tail(main)

RunTimer(kind) ==
    /\ later # <<>> /\ Head(later).kind = kind
    /\ later' = Tail(later)

\* VTHttpService handle puts the operation in its queue.
StartHttp ==
    /\ RunBlock("start")
    /\ At(Head(main).req, "queued")
    /\ UNCHANGED <<ds, wants, later, jobs, cache, version, heard, last>>

\* Mutant of Failed: the page that did not come is given back.
FailedBack(d) == [d EXCEPT !.loading = FALSE, !.pageIndex = @ - 1]

\* VTDataSource vtDownlinkTaskDidFitalError.  The page index stays where
\* loadMoreData moved it.
Failed(d) == [d EXCEPT !.loading = FALSE]

\* Mutant of EndFailed: an operation whose task nobody waits for never ends.
EndFailedLeaks(r) ==
    LET q == reqs[r]
    IN  IF q.item
        THEN /\ reqs' = [reqs EXCEPT ![r].at = "done", ![r].item = FALSE, ![r].told = @ + 1]
             /\ ds' = [ds EXCEPT ![q.src] = Failed(@)]
        ELSE UNCHANGED <<reqs, ds>>

\* mainDoFailError: the task's item is taken, its data source told, the
\* operation finished.
EndFailed(r) ==
    LET q == reqs[r]
    IN  /\ reqs' = [reqs EXCEPT ![r].at = "done", ![r].item = FALSE,
                                ![r].told = IF q.item THEN @ + 1 ELSE @]
        /\ ds' = IF q.item THEN [ds EXCEPT ![q.src] = Failed(@)] ELSE ds

FailBlock ==
    /\ RunBlock("failed")
    /\ EndFailed(Head(main).req)
    /\ UNCHANGED <<wants, later, jobs, cache, version, heard, last>>

\* Mutant of TimeoutBlock: the timer is not set.
TimeoutBlockIdle ==
    /\ RunBlock("timeout")
    /\ UNCHANGED <<ds, wants, reqs, later, jobs, cache, version, heard, last>>

TimeoutBlock ==
    /\ RunBlock("timeout")
    /\ later' = Append(later, Timer("fail", Head(main).req))
    /\ UNCHANGED <<ds, wants, reqs, jobs, cache, version, heard, last>>

FailTimer ==
    /\ RunTimer("fail")
    /\ EndFailed(Head(later).req)
    /\ UNCHANGED <<wants, main, jobs, cache, version, heard, last>>

\* VTHttpTaskOperator didLoaded: the item is taken at once, the data source told
\* in a timer that no cancellation reaches.
LoadedBlock ==
    /\ RunBlock("loaded")
    /\ LET r == Head(main).req
       IN  /\ reqs' = [reqs EXCEPT ![r].at = "done", ![r].item = FALSE]
           /\ later' = IF reqs[r].item THEN Append(later, Timer("answer", r)) ELSE later
    /\ UNCHANGED <<ds, wants, jobs, cache, version, heard, last>>

Refused(r) == reqs[r].body = Junk /\ reqs[r].src \in Checked

\* VTURLService didLoaded finds an error in the body.
RefuseTimer ==
    /\ RunTimer("answer") /\ Refused(Head(later).req)
    /\ LET r == Head(later).req
       IN  /\ reqs' = [reqs EXCEPT ![r].told = @ + 1]
           /\ ds' = [ds EXCEPT ![reqs[r].src] = Failed(@)]
    /\ UNCHANGED <<wants, main, jobs, cache, version, heard, last>>

\* Mutant of AnswerTimer: the data source is told without a turn of the serial
\* queue.
AnswerTimerDirect ==
    /\ RunTimer("answer") /\ ~Refused(Head(later).req)
    /\ LET r == Head(later).req
           d == ds[reqs[r].src]
       IN  /\ jobs' = IF d.pageIndex = 1
                      THEN Append(jobs, Job("write", r, Key(reqs[r].src, d.subject))) ELSE jobs
           /\ main' = Append(main, Block("answer", r, NoBody))
    /\ UNCHANGED <<ds, wants, reqs, cache, version, heard, last>>

\* It finds none: a data source that is now at page 1 has the body cached under
\* the address it now has, and is told by way of the serial queue.
AnswerTimer ==
    /\ RunTimer("answer") /\ ~Refused(Head(later).req)
    /\ LET r == Head(later).req
           d == ds[reqs[r].src]
           k == Key(reqs[r].src, d.subject)
       IN  jobs' = jobs \o (IF d.pageIndex = 1 THEN <<Job("write", r, k)>> ELSE <<>>)
                        \o <<Job("tell", r, k)>>
    /\ UNCHANGED <<ds, wants, reqs, main, cache, version, heard, last>>

Loaded(d, list, body) == [d EXCEPT !.list = list \o Items(body), !.hasMore = Items(body) # <<>>,
                                   !.dataChanged = FALSE]

\* vtDownlinkTaskDidLoadedFromCache: only a data source that has yet to be
\* filled takes it.
CachedBlock ==
    /\ RunBlock("cached")
    /\ LET s == reqs[Head(main).req].src
       IN  ds' = [ds EXCEPT ![s] = IF @.dataChanged THEN Loaded(@, <<>>, Head(main).body) ELSE @]
    /\ UNCHANGED <<wants, reqs, later, jobs, cache, version, heard, last>>

\* vtDownlinkTaskDidLoaded: a page 1 that changed replaces the list, another page
\* goes behind it.
Arrived(d, r) ==
    LET e == [d EXCEPT !.loading = FALSE]
    IN  IF d.dataChanged \/ reqs[r].changed
        THEN Loaded(e, IF d.pageIndex = 1 THEN <<>> ELSE d.list, reqs[r].body)
        ELSE e

AnswerBlock ==
    /\ RunBlock("answer")
    /\ LET r == Head(main).req
           s == reqs[r].src
       IN  /\ ds' = [ds EXCEPT ![s] = Arrived(@, r)]
           /\ reqs' = [reqs EXCEPT ![r].told = @ + 1]
           /\ heard' = [heard EXCEPT ![s] = IF r > @ THEN r ELSE @]
           /\ last' = IF reqs[r].page = 1 THEN [last EXCEPT ![s] = reqs[r].body] ELSE last
    /\ UNCHANGED <<wants, later, jobs, cache, version>>

-----------------------------------------------------------------------------
(* VTDownlinkService's serial queue.                                       *)

RunJob(kind) ==
    /\ jobs # <<>> /\ Head(jobs).kind = kind
    /\ jobs' = Tail(jobs)

ReadJob ==
    /\ RunJob("read")
    /\ LET stored == cache[Head(jobs).key]
       IN  main' = IF stored = NoBody THEN main
                   ELSE Append(main, Block("cached", Head(jobs).req, stored))
    /\ UNCHANGED <<ds, wants, reqs, later, cache, version, heard, last>>

\* Mutant of Changed: compared after the row was updated.
ChangedAfter(stored, body) == FALSE

\* Whether a body differs from the stored one: the MD5 of its text, none for Junk.
Changed(stored, body) == stored # body \/ body = Junk

WriteJob ==
    /\ RunJob("write")
    /\ LET r == Head(jobs).req
           k == Head(jobs).key
       IN  /\ reqs' = [reqs EXCEPT ![r].changed = Changed(cache[k], reqs[r].body)]
           /\ cache' = [cache EXCEPT ![k] = reqs[r].body]
    /\ UNCHANGED <<ds, wants, main, later, version, heard, last>>

TellJob ==
    /\ RunJob("tell")
    /\ main' = Append(main, Block("answer", Head(jobs).req, NoBody))
    /\ UNCHANGED <<ds, wants, reqs, later, cache, version, heard, last>>

-----------------------------------------------------------------------------

\* Someone edits the content.
Publish ==
    /\ version < MaxVersion
    /\ version' = version + 1
    /\ UNCHANGED <<ds, wants, reqs, main, later, jobs, cache, heard, last>>

Gesture(s) == Refresh(s) \/ Scroll(s) \/ Rebind(s) \/ Leave(s)

RunMain ==
    \/ StartHttp \/ FailBlock \/ TimeoutBlock \/ LoadedBlock \/ CachedBlock \/ AnswerBlock

RunLater == FailTimer \/ RefuseTimer \/ AnswerTimer

RunJobs == ReadJob \/ WriteJob \/ TellJob

EndOp(r) == Answer(r) \/ Break(r) \/ Timeout(r)

Next ==
    \/ \E s \in Sources : Gesture(s) \/ LoadMore(s)
    \/ RunMain \/ RunLater \/ RunJobs
    \/ \E r \in DOMAIN reqs : StartOp(r) \/ EndOp(r)
    \/ Publish

Spec == Init /\ [][Next]_vars

\* The main run loop serves its dispatch queue and its timers, GCD the serial
\* queue, NSOperationQueue starts what it has slots for, and an operation is
\* ended by its timer at the latest.
Fairness ==
    /\ WF_vars(RunMain) /\ WF_vars(RunLater) /\ WF_vars(RunJobs)
    /\ \A r \in 1..MaxRequests :
        /\ WF_vars(r \in DOMAIN reqs /\ StartOp(r))
        /\ WF_vars(r \in DOMAIN reqs /\ EndOp(r))

FairSpec == Spec /\ Fairness
=============================================================================
