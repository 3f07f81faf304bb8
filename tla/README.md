# HouseCar and vTeam in TLA+

HouseCar is an iOS application on top of vTeam, a framework in Objective-C (services, data sources, controllers,
views) and a C library. The repository has no tests and next to no documentation; this project states what its
stateful parts are meant to do, checks it with TLC on small instances and proves the most important of it with TLAPS
for every instance. Definitions are translated from the source, and `PROJECT.json` ("map") says from which lines.

The parts that carry the logic that is hard to get right are modelled here:

* **the FDB store** (`src/vTeam/c/db`): a single-file table with its blob file and its sorted indexes, written by the
  tool `fdbgen` and read by the application (`vTeam/FDB/VTFDB.m`, `VTFDBIndex.m`), shared between processes by `flock`;
* **the request path of the list screens** (`VTDataSource.m` to `VTHttpService.m`): gestures, a page cache, HTTP
  operations and their answers over the main thread, its timers, a serial queue and operation threads;
* **what else goes over HTTP**: the images of reused views (`VTImageService.m`), the resource files on disk and their
  resumed downloads (`VTHttpTask.m`), requests with one answer and the screens that wait for it (`VTAPIService.m`,
  `HCCommentViewController.m`);
* **the process server** (`hserver.c`), with its signal handlers.

## Inventory

Every component with its sources and its status is listed in `PROJECT.json` ("components"). The ones with state of
their own:

| component | state | operations | interacts through | what is hard | what makes it correct |
| --- | --- | --- | --- | --- | --- |
| table store, `hfdb.c` | class record and rows on disk; per handle a copy of the class, the file descriptor and a row count; per cursor a window of rows with `location`, `index`, `length` | create, open, close, row count, insert (batch, single), cursor next / to-rowid / commit | the file, `flock` | two writes per insert, short writes, crashes; three copies of the state; `huint32` wrap | rowids unique and increasing; a row is found by its rowid; a scan meets every row once |
| blob store, `hfdb.c` | `.bob` file of length-prefixed records; a handle's buffer | blob create, blob read | the file, `flock`; places stored in rows | torn records; a buffer older than the file | the blob read is the blob stored |
| index, `hfdb_index.c` | index file of sorted rows; per cursor a window | insert, sort, write; to-begin, to-next | the table's rowids | pivot that moves, window edges, truncated comparisons | sorted, nothing lost; search ends, finds what is there, gives each match once |
| FDB callers, `fdbgen/main.c`, `VTFDB.m`, `VTFDBIndex.m` | one handle each, cursors | which calls are made on which cursor | calls | the cursor API trusts its caller | discipline: one writer; reads by rowid on a cursor of their own |
| data sources, `VTDataSource.m`, `VTPageDataSource.m`, `VTURLDataSource.m` | page index, loading, dataChanged, list | reloadData, loadMoreData, cancel, the three delegate calls | delegate calls from `VTURLService` | answers to old requests meet new state | pages in order, once; fresh at rest; loading ends |
| request services, `VTURLService.m`, `VTDownlinkService.m` | task items; the cache in SQLite | handle, cancelHandle, cached / loaded / failed | main queue, zero-delay timers, a serial queue | four queues, cancellation between any two | one answer per request; cache before answer |
| HTTP service, `VTHttpService.m`, `VTHttpTask.m` | operation queue with bounded slots; per operation a connection and a timer | handle, cancel, answer, error, timeout | operation threads | timeout against answer | every operation leaves the queue |
| controllers and cells, `VTTableDataController.m`, `VTTableViewCell.m`, `VTDataController.m` | the gesture in progress | pull, scroll, reuse, close | data sources | posted gestures | (stated for the data sources) |
| image service, `VTImageService.m` | waiting tasks and the download per address, memory cache | handle, cancel, cancel for source, delivery, memory warning | `VTHttpService`, the views of cells and screens | enrolment after a queue hop; a view that changes its address | a view waits while its download runs, and shows its own picture |
| downloads, `VTHttpTask.m` | the resource file and its `.tmp`; per task offsets, lengths | request, response, data, end, cancel, resume | two files shared by all tasks of the resource, the server | tasks at once, cut bodies, a server that changes, a program that dies | a saved file is one whole body |
| API service and comment screen, `VTAPIService.m`, `HCCommentService.m`, `HCCommentViewController.m` | open HTTP tasks, answers held for a block; the screen's overlay and `refCmtTask` | handle, cancel, cancel for source, answer, error | HTTP service, main queue, unretained delegates | cancellation between the two blocks of an answer; a screen that goes | answered once or taken back; no answer to a screen that is gone |
| process server, `hserver.c` | a pid per worker slot | run, SIGCHLD and termination handlers | fork, signals | a signal between any two steps of the loop that forks | every living worker is known; a dead one is replaced |
| threads, queue, events, `hthread.c`, `hqueue.c`, `hevent.c` | thread record, priority list | create, cancel, join | shared memory | record freed by one side while the other uses it | freed once, never used after |

Left out altogether: the shell's configuration and view stacks, the SQLite mapping, further services that send one
request at a time, layout, drawing, OpenGL, the Vermin compiler and interpreter (no caller in the application), text
formats, third-party code.

## Modules

| module | models | extends / instantiates |
| --- | --- | --- |
| `FDB` | the table half of `hfdb.c`, one action per call or per step between lock and unlock | |
| `FDBScan` | abstract: a front-to-back scan of a table that only grows | |
| `FDBClients` | the callers' discipline, the properties, the inductive invariant | extends `FDB`, `FDBScan` by refinement |
| `FDB_proofs` | type correctness; the invariant, the safety theorems, the refinement | extends `FDBClients`, `TLAPS` |
| `FDBBlob` | `FDBBlobCreate`, `FDBBlobRead` byte by byte | |
| `FDBBlob_proofs` | what is read is what was stored | extends `FDBBlob`, `TLAPS` |
| `FDBIndexRows` | the keys and what an index file is: the form the sort leaves and a search starts from | |
| `FDBIndexSort` | `FDBIndexSort`, its recursion as a stack of ranges | extends `FDBIndexRows` |
| `FDBIndex` | `FDBIndexCursorToBegin`, `FDBIndexCursorToNext`, and the inductive invariant of a query | extends `FDBIndexRows` |
| `FDBIndex_proofs` | the sort delivers an index file, and a query over one gives what is sought | extends `FDBIndexSort`, `FDBIndex`, `TLAPS` |
| `PageRequests` | data sources, `VTURLService`, `VTDownlinkService`, `VTHttpService` with their queues | |
| `PageLists` | what lists and cells may rely on | extends `PageRequests` |
| `ImageTasks` | `VTImageService`, its HTTP operations, and the cells, headers and screens that use it | |
| `ResourceDownload` | the two files of a resource under the tasks of `VTHttpTask` | |
| `AnswerOnce` | abstract: what becomes of a request, as who asked sees it | |
| `APIRequests` | `VTAPIService`, `HCCommentService`, the comment screen and a screen that cancels | instantiates `AnswerOnce` by refinement |
| `ServerProcesses` | `SRVServerRun` and its two signal handlers | |
| `PageLists_proofs`, `ImageTasks_proofs`, `ResourceDownload_proofs`, `APIRequests_proofs`, `ServerProcesses_proofs` | invariants, safety theorems and a refinement | each extends its module and `TLAPS` |
| `MCFDB`, `MCFDBMixed`, `MCFDBIndex`, `MCPages` | constants of the runs; the other modules are run as they are | |

Operators named in a comment "Mutant of X" are wrong variants of X. No specification uses them; each shows that some
property fails if the code had that bug ("mutants" in `PROJECT.json`).

### The table (`FDB`, `FDBClients`, `FDBScan`)

`lastRowid`, `rows`, `frag` are the file: the class record, the whole rows, and whether part of a row follows. A row
is the rowid property stored in it. `hdl[h]` is the `FDBInternal` of a program, `cur[h]` its `FDBCursor`, `ins[h]` the
insert in progress, `lock` the holder of `flock(LOCK_EX)`. An insert is `InsertBegin` (numbers taken from the handle's
copy before the lock), `InsertClass` (lock, class written), `InsertRows` (rows appended, unlock), each with the ways
it can fail: open or write errors, a short write that leaves any number of rows and a fragment, a process that dies
(`Crash`, which also drops the lock). A refill of a cursor's window reads in one step, since it holds `LOCK_SH`
throughout. `huint32` lengths wrap modulo `Wrap`.

Faithful to the code and easily mistaken for slips of the model: `FDBInsert` stores no rowid (its call has swapped
arguments, `hfdb.c:720`); `FDBCursorToRowid` steps the cursor even if its read returned nothing; `FDBOpen` reads the
class without a lock; `FDBCursorCommit` writes behind the end when told to.

`FDBClients` adds what the programs of the repository do with it (`ClientAssumption`): `fdbgen` is the one writer, and
`VTFDB.m` reads by rowid through a cursor it uses for nothing else. The rowids asked for are ones stored in the table,
as `VTFDBIndex.m` gets them from an index or a caller from a row. Readers meet only through the file, and what one of
them writes (a commit) changes no row's identity, so one reader beside the writer is enough for each run.

### Blobs (`FDBBlob`)

Bytes matter here, since nothing but a length separates records; a byte has `Base` values and a length takes two of
them. `Create` and `CreateFails` are the appends, cut anywhere; `ReadBegin`, `ReadRecord`, `ReadEnd` the loop that
fills the buffer with as many records as fit; `ReadHit` the answer from the buffer. `blobs` and `torn` are ghosts.

### The index (`FDBIndexRows`, `FDBIndexSort`, `FDBIndex`)

`FDBIndexSort` counts positions from one. `todo` is the recursion's ranges still to come, `scan` the call under way;
the inner loops are taken in one step each (`Exchange` to the next pair, `Stop` for the second loop) because nothing
interferes. `FDBIndex` starts from any sorted file (`IndexFile`), which is what the sort ends with (`SortDelivers`). `search` holds the loop's bounds, one action per window looked at
and per halving; `given` is a ghost. An `Int32` query falls into the `Int64` case of the comparison, so that a
negative key is compared without its sign (`Low`).

### Requests (`PageRequests`, `PageLists`)

`ds[s]` is a `VTPageDataSource`; `reqs` the requests in the order they were made, each with the stage of its HTTP
operation, whether `VTURLService` still has its item, and (ghosts) how often it was answered and whether it was
cancelled in time. The ghost `stale` says that the requests of a data source crossed: `loadMoreData` ran although
the list was loading, had ended or was gone, or a reused cell asked again with an answer to its old request still due.
`main`, `later` and `jobs` are the main dispatch queue, the zero-delay `performSelector` calls and
the serial queue: each in order, interleaved arbitrarily. Gestures are guarded like the controllers guard them; the
loading views a pull looks at are animated exactly while `loading` is set. No action carries the page or subject that
was asked for, because no step of the code does: `AnswerTimer` and `AnswerBlock` look at the data source as it is.

Choices that follow the code: the cache key of an answer comes from the data source's current state; `changed`
compares MD5 sums, so equal bodies are equal UUIDs; a cached body that is not JSON reads back as null and empties the
list; `cancelHandle` never stops the HTTP operation, since it looks for it in the wrong service instance; the page
index is not given back on an error; the delay of `loadMoreData` is the `wants` counter. The
cache starts empty or with what an earlier launch left in its database (`Remembered`). `loaded` of a data source is
left out (it only narrows the gestures); `skipCached` is never set and the cleanup task never sent.

### Images (`ImageTasks`)

`view[v]` is a view with its address, its two flags and, instead of the `UIImage`, the address of the picture it
shows. `waiting` and `task` are `_imageTasks` and `_httpTasks`, `op` the HTTP operations and `main` the main queue. A
handler of the code makes several calls one after the other (set the address, cancel, look in memory, read the file,
enrol, start a download), so the calls are operators on a record of the state (`Now`), composed in the order of the
code, and `Becomes` makes the result the next state.

What follows the code: `cancelHandle` looks under the address the view has *now*, and not at all unless that address
starts with `http://`; `cancelHandleForSource` looks under every address. An asynchronous read enrols the address it
was asked for, whatever the view has by then. A file that is no picture is never downloaded again. A list that gets
empty cancels its download, whose callbacks may be past their check already (`Lands`, `Landed`).

### Downloads (`ResourceDownload`)

A body is a sequence of numbered pieces of a version, so that a file can be told from a mixture of two. `dl[t].in` is
the callback the task's thread is in: it has found its operation not cancelled and has yet to write. `Respond` opens
`path.tmp` anew or keeps it to resume, `Receive` appends, `Finish` decides by length whether the body is kept, `Move`
puts it in place; `Cancel` and `Break` come in between, `Crash` leaves the two files. Nothing in the code looks at the
HTTP status, so the server may send an error page (version 0) of any length wherever it may send the resource. Nothing
looks at what `fopen` and `fwrite` return either: each may fail in `Respond` and `Receive`, and the piece still counts
(`lost`). The ghost `spoilt` marks what no task can notice: two that write at once, a resumed answer that does not
continue the file, a body taken for complete that was cut short where nobody looks at the length, or of which a write
had failed.

In the repository nobody sets `allowResume`; documents (`VTURLDocumentController.m:150-173`) force the update and
ignore the length, images check it. All three kinds are modelled, since the properties are those of `VTHttpTask`.

### Requests with an answer (`APIRequests`, `AnswerOnce`)

`req[r]` is one call of `handle` with its HTTP task: `listed` while it is in `_httpTasks`, `held` while its answer
waits in `_responses` for the second block. `told` and `wanted` are ghosts: what the caller got, and whether it still
wants it. `delegate` says whether the task still points to its screen, which it does not keep alive. `AnswerOnce` is
the promise to a caller (asked, then told once or taken back) and `Outcome` the refinement mapping.

What follows the code: a comment carries no source, so that leaving the screen does not cancel it; instead `dealloc`
cuts the delegate of `refCmtTask`. The overlay is the only guard against a second comment, and `viewDidDisappear`
takes it away. `activity` says which type of comment the screen was opened for.

### Workers (`ServerProcesses`)

`frame` is the main process's stack: the loop of `SRVServerRun`, and on top of it the handlers that interrupt it, each
at a slot of its own loop, with a child that `fork` has given and `process->pid = pid` has not recorded. `proc` is the
kernel's view of the processes, zombies included; `pending` is the one SIGCHLD that can wait. The ghost `torn` marks
signals at a moment the code does not survive (below).

## Runs

| run | module, cfg | distinct states | shows |
| --- | --- | --- | --- |
| `fdb_scan` | `MCFDB`, `MCFDBScan.cfg` | 89,247 | a writer whose inserts fail or die anywhere, with a program that scans and commits: types, `RowidIsPosition`, `RowidsIncrease`, `CommitFindsItem`; the windowed scan implements `FDBScan` (`ScanSpec`); the lock is given back (`LockReleased`) |
| `fdb_seek` | `MCFDB`, `MCFDBSeek.cfg` | 142,158 | the same writer with a program that reads by rowid: `SeekFindsRow`, `RowCountNeverOverstates` |
| `fdb_commit` | `MCFDBMixed`, `MCFDBCommit.cfg` | violation | all cursor calls of `hfdb.h` on one cursor reach the failing `assert(dataItem)` of `FDBCursorCommit` |
| `fdb_blob` | `FDBBlob`, `FDBBlob.cfg` | 211,301 | `BlobFound`, `BufferFramed` with any append torn |
| `index_sort` | `FDBIndexSort`, `FDBIndexSort.cfg` | 228,922 | `BoundsMeet` (the code's assertion), `KeepsRows`, `InOrder`, and that the sort ends |
| `index_query` | `MCFDBIndex`, `MCFDBIndex.cfg` | 152,481 | `ProbeInWindow` (an assertion), `GivesWantedInOrder`, `EndIsEnd`, `MissIsAbsent`, `SearchEnds` |
| `pages_list` | `MCPages`, `MCPagesList.cfg` | 1,585,203 | one list whose gestures may overlap, with or without a page an earlier launch has stored: `ListIsPages`, `FreshWhenResting` |
| `pages_mixed` | `MCPages`, `MCPagesMixed.cfg` | 85,739 | such a list and a reused cell on one HTTP slot: `CacheBeforeAnswer`, `OneAnswer`, `CacheIsFirstPage`, `LoadingEnds`, `OpsEnd` |
| `image_tasks` | `ImageTasks`, `ImageTasks.cfg` | 214,246 | a reused cell and a view of a screen, two addresses of which one is never cancelled: `OwnImage`, `WaitersHaveDownload`, `LoadingEnds` |
| `resource_download` | `ResourceDownload`, `ResourceDownload.cfg` | 464,739 | an image, a document and a resumable task of one resource, error pages and failing writes included: `SavedIsWhole`, `CopyIsKept` |
| `api_requests` | `APIRequests`, `APIRequests.cfg` | 348,110 | a comment screen (of either comment type) and one that cancels: `DelegateAlive`, `OverlayGoes`; `AnsweredOnce`, i.e. it implements `AnswerOnce`, liveness included |
| `server_processes` | `ServerProcesses`, `ServerProcesses.cfg` | 76,640 | workers that die at any step of a main process that is told to quit at any step: `Accounted`, `Replaced` |

The FDB runs check for deadlock too, except for the sort, which stops when it is done. The other runs switch that
check off: a closed screen stops, a server ends, and so does a model at its bounds.

### What the runs found

* **`assert(dataItem)` in `FDBCursorCommit` can fail** (`fdb_commit`). `FDBCursorToRowid` on an empty read makes the
  unsigned length 2^32-1; `FDBCursorNext` then never refills and walks off the buffer. No program of the repository
  mixes the calls that way, and under `ClientAssumption` the assertion is a theorem (`CommitFindsItemAlways`).
* **A failed `read()` hands out another row.** `FDBCursorToRowid` then sets the length to 0 and still returns the
  first item of the buffer (`hfdb.c:874-893`), a row of the old window or fresh memory, which its caller cannot tell
  from the row it asked for. The ghost `unread` marks such an answer and `SeekFindsRow` excepts it; without the
  exception TLC violates the property. The calls behind it are right again: the window it leaves is one `InWindow`
  finds nothing in.
* **A windowed search can run for ever** (`FDBIndex`, `OpensWindow`). If the first row not before the query is the
  first of a window other than the first, `StepOn` moves onto that window and `StepBack` moves off it again. The
  property `SearchEnds` is stated for the other cases; without its exception TLC shows the loop.
* **Short windows are never searched.** Rows behind the last whole window, and any index shorter than one window
  (2000 rows unless told otherwise), are not found. `MissIsAbsent` says so exactly.
* **Negative `Int32` keys are never found**, for the missing break in the comparison (same property).
* **Two gestures of a list may overlap.** A scroll posts `loadMoreData` for later (`VTTableDataController.m:443-472`)
  and it looks at nothing again: if the list was refreshed in between, or another `loadMoreData` ran or came back
  empty, it runs all the same. Two answers are then due to one page index, and the first page can be skipped, appended
  to or stored under the wrong page. The ghost `stale` marks the data source when this happens; `ListIsPages`,
  `FreshWhenResting` and `CacheIsFirstPage` except it from then on, because no step of the code is certain to repair
  it, not even another refresh. Everything before it is covered, and so are the overlaps that do no harm. Without the
  exception TLC violates all three by Scroll, Refresh, LoadMore.
* **A reused cell can keep the old item's data**, since `dataChanged` stays NO (`VTTableViewCell.m:219-239`), and an
  answer that its cancellation came too late for stores a page under the new item's address. `ListIsPages` and
  `FreshWhenResting` therefore speak of a data source's first address (`Orderly`); `CacheIsFirstPage` holds for cells
  too, until such an answer is due (`stale` again).
* **A buffer filled across a torn blob record is misframed.** `BlobFound` excepts exactly the buffers that hold one.
* **A reused view can show another item's picture.** Cells and headers set the address first and cancel afterwards
  (`VTTableViewCell.m:219-239`, `VTItemViewController.m:81-100`, `HCActivityDetailTableDataController.m:21-36`), so
  the cancellation looks in the wrong list: the old picture still arrives, and since the view counts as loading, its
  own is never asked for. `OwnImage` excepts such views (the ghost `moved`) until they are at rest when given an
  address.
* **Two tasks of one resource spoil it.** Both append to the same `.tmp`; `SavedIsWhole` excepts overlapping writers.
  A document cut short by the server is saved as it is, since its task looks at no length.
* **An error page is saved as the resource.** No status is looked at (`VTHttpTask.m:324-341`, `VTHttpService.m:377-406`):
  the page of a 404 or 500 that is as long as it says, or any page of a document's task, replaces the copy at `path`
  (`VTHttpTask.m:263-286`). `SavedIsWhole` therefore speaks of one whole *body*, a version or an error page
  (`Body`), and `CopyIsKept` promises the old copy only against answers that are short or broken off.
* **A full disk goes unnoticed.** `fopen` and `fwrite` may fail and the data still counts (`VTHttpTask.m:209-221`), so
  a file shorter than its count is saved; both properties except a body with such a gap.
* **A kill between the removal of the copy and the move** (`VTHttpTask.m:285-286`) leaves the new body in `path.tmp`
  and nothing at `path`, until the next task for the resource begins.
* **A comment screen may be answered after it is gone.** If the screen was covered while a comment was on its way, a
  second one can be sent; `refCmtTask` then forgets the first task, whose delegate is not cut. `DelegateAlive` states
  the exception.
* **A comment on an activity waits for ever.** `doSubmitComment` shows the overlay before it looks at the type of the
  comment, and its branch for activities sends nothing (`HCCommentViewController.m:93-118`), so no answer takes the
  overlay away. No caller passes that type today. `OverlayGoes` excepts screens opened for it; without the exception
  TLC violates it.
* **Signals the process server does not survive** (`torn` in `Accounted`): a worker that dies before all slots are
  started makes the handler start the remaining ones, and the start loop starts them again; a SIGCHLD on top of the
  INT or TERM handler restarts workers just killed; a quit between `fork` and the store of the pid leaves a worker
  behind, as does a `fork` that fails. The command `exit` is never read: the loop tests the listening socket in a set
  that holds only the standard input.

### Bounds

Each bound is a named constant used only in guards. *Table*: windows of two rows and batches of up to two give every
position of a row in a window and batches that cross an edge; four rows are two full windows, and a
fifth would only make a scan longer. `Wrap` only has to exceed every sum that does not wrap in the code (`FDBAssumption`). *Blobs*:
ten bytes hold three records or a torn record between two; the buffer of five bytes holds one or two, and a blob can
exceed it. *Sort*: six rows over four keys; four keys are needed before a lost pivot leaves the order wrong, and the
theorem has no bound. *Search*: windows of five rows and eleven rows, i.e. two whole windows and a short one; five
because in smaller windows an early stop of the bisection cannot be told from a right one. *Pages*: two pages with
items and an empty one behind, one HTTP slot (as before the launch flag is set), two posted `loadMoreData` (two scrolls
before either runs). `pages_list` has four requests, the least for a list of two pages that is refreshed and scrolled
once more, and two versions on the server, and may start with a stored page (`Kept`). `pages_mixed` has three requests,
three items for the cell and one version: its properties compare no bodies, and a cached page and an answer differ by
the request they belong to. *Images*: three operations let a download be cancelled, started again, and
meet a third of the other address; one view is read asynchronously, one address never cancelled. Run once each as
well: both views reused and asynchronous (767,343 states), both addresses cancellable (282,282). *Downloads*: two
pieces are the least of which a part differs from the whole, two versions the least a resumed task can mix; error
pages of no piece, one and two are shorter than the resource or as long; one task of each kind. The constraint `Unspoilt` drops what follows a spoilt state, of which neither property says anything.
*API*: three requests over two screens let a forgotten comment, a second one and a cancelled request meet. *Workers*:
two slots, one that may refuse, and one pid more than slots so that a pid is free while a zombie keeps another; also
run with three slots and four pids (1.4 million states).

### Fairness

*Table*: a `write()` returns, so an insert that holds the lock goes on to success or failure (`FairSpec` of `FDB`);
nothing else is fair, programs may stop or die anywhere. *Sort*: it runs in one process (`WF_sortVars(SortNext)`). *Search*:
a loop of the process that asked takes its steps; reads may fail but need not. *Pages*: the main run loop serves both
its queues and GCD its serial queue; `NSOperationQueue` starts what it has slots for; each operation is ended by its
timer at the latest. Gestures and edits of the content are not fair. *Images, API*: the
same main run loop, timers included; each operation is ended by the network or by its timer. Nothing obliges a user
to do anything. *Workers*: the main process runs and the kernel delivers a signal that waits and is not blocked;
workers need not die, and `select` need not fail. `ResourceDownload` states safety only.

## Proofs

All are checked by TLAPS without gaps, from the named assumptions on the constants alone, for any number of handles, any
window, any bounds, any rows, any set of views, tasks, screens or slots. None has a premise more.

**`FDB_proofs`**: `TypeCorrect`, `Spec => []TypeOK`, the wrap of a cursor's length included. The lemmas say what the
helpers on cursors and sequences return. None of the safety properties is inductive. `IInv` strengthens them with what ties the copies of
the state together: `CallInv` (the handle between its class write and its row write is the one with the lock, and it
is a writer), `NumberInv` (the writer's `lastRowid` lies between the rowids in the file and the one on disk, which is
why a failed insert's numbers are never used twice), `ExactInv` (until something is torn, `lastRowid` counts the
rows, pending ones included), `ScanInv` (what a scanning cursor has buffered are rows of the file at the place it
says). Each part is kept by every action (`CallStep`, `NumberStep`, `ExactStep`, `CountStep`, `ScanStep`), given
`CommitKeeps`: a commit, torn or not, changes no row's identity. From `Invariance` follow `RowidIsPositionAlways`,
`RowidsIncreaseAlways`, `RowCountNeverOverstatesAlways`, `CommitFindsItemAlways` and `ScanRefinement`: every step of
`FDB` is a step of `FDBScan` or leaves it unchanged. `SeekFindsRowAlways` needs a second invariant: a seeking
program's window may be older than the file, so `Seen` describes it without the file (what lies in it from its
location on carries the rowid of its place, or none), or as one that a failed read left with a length below zero, in
which `InWindow` finds nothing. `NumberBound` keeps the sums of a window below `Wrap`.

**`FDBBlob_proofs`**: `BlobTypeCorrect`, `BlobFoundAlways`, `BufferFramedAlways`, for any bytes, buffer and tag. Records
carry no mark, so the invariant says how they tile the file (`FileInv`: each blob is there whole, the next one, a torn
one or the end follows, none overlaps) and how the buffer tiles with them (`WinInv`: it is a part of the file, ends
where a record does and cuts none in two, as long as no torn record lies in between). Without `Clean` in the second
half it would not be kept: a torn header makes the loop take any number of bytes. `Given` then follows for every
answer, and `ReadEndStep` shows that a place the file has never yields nothing, because the buffer grows for the first
record.

**`FDBIndex_proofs`**, the sort: partial correctness of the quicksort. `InOrder` says that rows out of order share a
range still to come; it needs `RangesApart` (ranges have no row in common) and `ScanInv` (rows before `b` are not
behind the pivot, rows after `e` are, and the pivot, wherever the exchanges moved it, is not among the latter).
`CrossPairs` is the heart: whatever changes places within the range in hand, its pairs with rows outside keep their
order. From `SortInvariance` follow `SortTypeCorrect`, the code's assertion (`BoundsMeetAlways`), `KeepsRowsAlways`,
`InOrderAlways`, and `SortDelivers`: when no range is left the rows are an index file in the sense of `FDBIndex`.

The query: `ProbeInWindowAlways` (the assertion of the bisection), `GivesWantedInOrderAlways`, `EndIsEndAlways`,
`MissIsAbsentAlways`, for any sorted file, any window size and any query. Which rows lie behind a search does not
follow from its bounds, since it also steps back. `WindowInv` therefore says that all rows in front of the window lie
before the query, whichever way it came, and that the window starts at a multiple of its size but for the last step.
`BisectInv` says that the bounds stay in the window and that the rows behind the upper one are past the query *unless*
a match stands at it: the code moves the upper bound onto a match and not below it. `GivenInv` says that the cursor's
place parts the rows it gave from those still to come, which a failed read between two windows does not change.
`EndIsEnd` counts, so its proof makes the list of what was given a bijection onto the wanted rows. The keys a negative
`Int32` query never finds and the rows behind the last whole window are excepted as `MissIsAbsent` excepts them.

**`PageLists_proofs`**: `OneAnswerAlways` and `CacheBeforeAnswerAlways`, for any gestures and any number of slots. No
code compares anything, so both rest on where a request can be. `Carried` says what a block, a timer or a job may be
about (an answer is due only to a request that ended, was not told and was not cancelled in time), `Sole` that one
thing at most carries a request, over the three queues together: so no two of them can tell it. `Ordered` says that a
read of the cache in the serial queue, or the block it became, is newer than every answer in front of it *and* than
every answer heard: without the first half a step that hears an answer could leave an older cached page behind it.
`OneReq` is what one change of a request does to all of this, `MainTail` to `JobsAppend` what one step of a queue does.

`ListIsPagesAlways`, `CacheIsFirstPageAlways` and `FreshWhenRestingAlways` need a second invariant, `Calm`, over what
the runs call orderly. It distinguishes three things. Every source whose requests did not cross (`Plain`) is `Firm`:
the one answer that may be due to it is to its newest request and for the page it is at, and while it does not load
there is none; this is what makes a posted `loadMoreData` that finds the list as the scroll saw it harmless, whatever
gestures overlapped before. All that is stored for such sources are first pages of
their own addresses, and a first page is told by the job behind the one that stores it, so that nothing comes between
the two (`FirstPages`, `Pairs`). And an orderly source (`Fine`) has a list in order (`Lists`): what the serial queue has
not dealt with counts as changed (`Alone`); the list begins with what is stored, unless the answer on its way says
that it changed (`Stored`), which is why an answer that compares equal to the stored page need not be loaded; a list to
be replaced still has its read of the cache coming, which arrives before the answer and so before another page is put
behind it (`Pending`); each page between the list and the page index was lost to an error (`Place`, `Order`). `Sticky` says that no step
makes a source plain or orderly again, so that what holds of it now held in the state before. A step is about one
source; `Frame` says what it keeps of the others.

**`ImageTasks_proofs`**: `OwnImageAlways` and `WaitersHaveDownloadAlways`. The end of a download tells every view in
its list, so the invariant must say whose list it is. `Owns`: a view that was not moved in its list unnoticed shows,
waits for and reads its own address only. `Fetched`: there are views waiting for an address exactly when one operation
for it lives, and it is the one the task names. `Posted`: a block that ends an operation is its only one. Without
`Fetched` a second operation for an address could end after the list was told, and without `Posted` one operation
could end twice.

**`ResourceDownload_proofs`**: `WholeSaved` and `CopyKept`. Neither follows from the files alone: `IInv` says what each
task knows of `path.tmp`. Until the files are spoilt at most one task is writing, and while it is, `path.tmp` is the
part of *its* body that ends where it has got to, unless a write of this task failed (`lost`); a task about to move
has the whole of one, since `Finish` marks a gap it cannot see. So the body at `path` is whole whenever a move
succeeds, and the old copy is removed only before such a move.

**`ServerProcesses_proofs`**: `AllAccounted`. The invariant describes the stack: which frames can lie on which
(`Stack`, `Below`), that a slot behind a loop's place has been dealt with (`Ordered`, `Unstarted`), that an unrecorded
child is known to exactly one frame and to no slot (`Unrecorded`), and that a recorded pid belongs to its slot
(`Known`). Without the stack's order a handler could start a slot whose start below it has not been recorded yet.

**`APIRequests_proofs`**: `AlwaysDelegateAlive`, and `ImplementsAnswerOnce`, the safety half of the refinement that
`api_requests` checks with its liveness. A request is told twice only if two steps each still find it. So the
invariant says of each request where its answer is and whether it was told (`Sound`), what the block of the main queue
that carries it may still find (`Queued`), that there is one such block at most (`Queue`), and that a request of a
screen that is gone is cancelled, cut off or older than the one the screen remembers (`Placed`).

**Only model-checked**: everything under fairness (`LockReleased`, `SortEnds`, `SearchEnds`, `LoadingEnds`, `OpsEnd`,
`OverlayGoes`, `Replaced`, the liveness in `AnsweredOnce`), which is out of the prover's reach. Every
invariant and every safety action property a run checks is also a theorem. The safety half of `AnsweredOnce`
is `ImplementsAnswerOnce`.

## Not modelled

Of the modelled components: `FDBCreate`'s own failures, failing `stat()` and `lseek()`, files over 4 GB, rowid 0, a
system crash that loses writes the kernel had accepted, property accessors, string conversion of blobs; `FDBIndexWrite`
(it truncates and rewrites the index without a lock, offline) and the parsing of index configurations; integer
overflow of an `Int64` difference and NaN in the index comparison; uploads and redirects of `VTHttpTask`; status and
gather data sources; default, named and bundled pictures. Two writers at a time are outside `ClientAssumption`: each
would number rows from its own stale copy. `cancelHandle` with the request task itself (`VTAPIService.m`) has no
caller. What a worker does between open and close is the code of who uses `hserver.c`.

Left out on purpose, though they hold state: `hthread.c` and its queue, which nothing in the repository calls, so that
no order of its calls can be called right; `VTCrashService` and `VTAudioService`, which the application's `cfg.plist`
does not configure (the first deletes the whole table of reports after an upload, with the ones recorded meanwhile);
the containers, text formats, streams and the Vermin language of the C library, sequential code that unit tests
reach; the pinyin tables, speex, zip and MD5, most of the lines of the repository, which are data or third-party code.

Hazards no property covers are listed in `PROJECT.json` with the reason: among them the stale `lastRowid` of a second
writer, the index rewritten under a reader and the shared lock a search keeps.

## Plan

Done: the table, blobs and index with their proofs; requests of lists; images, downloads, API requests and the process
server. What is left, in this order:

1. Abstract specifications, and proofs that the modules implement them: a map from places to blobs for `FDBBlob`; a set
   query in order for `FDBIndex`.
2. `VTAudioService` and `VTCrashService`, should the application come to use them; `ThreadRecord` (`hthread.c:20-79`)
   once a caller says which calls may overlap.
