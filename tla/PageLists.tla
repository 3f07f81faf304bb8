----------------------------- MODULE PageLists -----------------------------
(***************************************************************************)
(* What the list screens and reused cells may rely on when they load their *)
(* data through PageRequests, and what only those may that asked for one   *)
(* thing at a time so far: the code does not keep them from asking for two *)
(* (see stale in LoadMore and Rebind), and it does not repair their lists  *)
(* when they did.                                                          *)
(***************************************************************************)
EXTENDS PageRequests

Body    == [key : Keys, page : Nat \ {0}, ver : Nat \ {0}] \cup {Junk}
SourceT == [subject : Nat \ {0}, pageIndex : Nat \ {0}, loading : BOOLEAN,
            dataChanged : BOOLEAN, hasMore : BOOLEAN, list : Seq(Body), shown : BOOLEAN,
            stale : BOOLEAN]
RequestT == [src : Sources, key : Keys, page : Nat \ {0},
             at : {"posted", "queued", "open", "ending", "done"}, item : BOOLEAN,
             changed : BOOLEAN, body : Body \cup {NoBody}, told : Nat, void : BOOLEAN]
BlockT == [kind : {"start", "loaded", "failed", "timeout", "cached", "answer"},
           req : Nat \ {0}, body : Body \cup {NoBody}]
TimerT == [kind : {"fail", "answer"}, req : Nat \ {0}]
JobT   == [kind : {"read", "write", "tell"}, req : Nat \ {0}, key : Keys]

\* Type invariant of the data sources, the requests and the three queues.
PagesTypeOK ==
    /\ ds \in [Sources -> SourceT]
    /\ wants \in [Sources -> Nat]
    /\ reqs \in Seq(RequestT)
    /\ main \in Seq(BlockT) /\ later \in Seq(TimerT) /\ jobs \in Seq(JobT)
    /\ cache \in [Keys -> Body \cup {NoBody}]
    /\ version \in Nat \ {0}
    /\ heard \in [Sources -> Nat]
    /\ last \in [Sources -> Body \cup {NoBody}]

-----------------------------------------------------------------------------
(* Whatever the gestures.                                                  *)

Asker(r) == reqs[r].src

\* A page read from the cache never reaches a data source after the answer to
\* the same request or a newer one: it cannot replace fresher data.  The single
\* serial queue of VTDownlinkService (VTDownlinkService.m:110, 150, 190) is what
\* orders them, no code compares anything.
CacheBeforeAnswer ==
    /\ \A i \in DOMAIN main : main[i].kind = "cached" => main[i].req > heard[Asker(main[i].req)]
    /\ \A i \in DOMAIN jobs : jobs[i].kind = "read" => jobs[i].req > heard[Asker(jobs[i].req)]

\* A request is answered once, by data or by an error, over all the queues it
\* passes; and not at all when it was cancelled while VTURLService still had its
\* item (VTURLService.m:146-173, 236-304).
OneAnswer ==
    \A r \in DOMAIN reqs : reqs[r].told <= 1 /\ (reqs[r].void => reqs[r].told = 0)

\* A data source that loads stops loading: no list waits for ever with every
\* gesture refused, whatever is lost, late or cancelled.
LoadingEnds == \A s \in Sources : ds[s].loading ~> ~ds[s].loading

\* Every operation of the bounded HTTP queue leaves it, the ones whose task was
\* cancelled included, so a queued one gets its turn (VTHttpService.m:118-142).
OpsEnd ==
    \A r \in 1..MaxRequests :
        (r \in DOMAIN reqs /\ reqs[r].at # "done") ~> (r \in DOMAIN reqs /\ reqs[r].at = "done")

-----------------------------------------------------------------------------
(* Until a data source asks for a second thing while the answer to a first one *)
(* is due.                                                                     *)

\* It has not: no posted loadMoreData ran after a refresh or at the list's end,
\* and the address it has is the only one it had, and its own.
Orderly(s) ==
    /\ ~ds[s].stale /\ ds[s].subject = 1
    /\ \A t \in Sources : Url[t] = Url[s] => t = s

\* A page between two that are shown is missing only because it came as an error
\* or as Junk when it was asked for.
Missed(s, p) ==
    \E r \in DOMAIN reqs :
        /\ Asker(r) = s /\ reqs[r].page = p
        /\ reqs[r].at = "done" /\ reqs[r].body \in {NoBody, Junk}

\* An orderly list is page 1 and pages behind it in order, none twice, none left
\* out but one that failed (VTPageDataSource.m:49-93).
ListIsPages ==
    \A s \in Sources :
        LET l == ds[s].list
        IN  Orderly(s) =>
            /\ l # <<>> => l[1].page = 1
            /\ \A i \in DOMAIN l \ {1} :
                  /\ l[i - 1].page < l[i].page
                  /\ \A p \in (l[i - 1].page + 1)..(l[i].page - 1) : Missed(s, p)

\* What is stored under the address of a first page is a first page of that
\* address, unless requests of one that reads this template crossed, of a list or
\* of a reused cell: the next launch does not start from another page
\* (VTURLService.m:268, VTDownlinkService.m:147-185).
CacheIsFirstPage ==
    \A k \in Keys :
        (\A s \in Sources : Url[s] = k.url => ~ds[s].stale)
            => cache[k] \in {NoBody, Junk} \/ (cache[k].page = 1 /\ cache[k].key = k)

Resting(s) ==
    /\ ~ds[s].loading /\ wants[s] = 0
    /\ \A r \in DOMAIN reqs : Asker(r) = s => reqs[r].at = "done"
    /\ \A i \in DOMAIN main : Asker(main[i].req) # s
    /\ \A i \in DOMAIN later : Asker(later[i].req) # s
    /\ \A i \in DOMAIN jobs : Asker(jobs[i].req) # s

\* Once all is quiet an orderly list begins with the newest first page its data
\* source was given, although an answer whose UUID is the cached one is not even
\* loaded (VTDownlinkService.m:160, VTPageDataSource.m:86).
FreshWhenResting ==
    \A s \in Sources :
        LET l == ds[s].list
        IN  Orderly(s) /\ Resting(s) /\ last[s] # NoBody
                => IF Items(last[s]) = <<>> THEN l = <<>> ELSE l # <<>> /\ l[1] = last[s]
=============================================================================
