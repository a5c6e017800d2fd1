# StockSearch and its server library: a TLA+ verification project

The repository holds the stock-search programs of a web-technology course: an
Android app, an AJAX page with a servlet and a PHP service behind it, a
server-side PHP page and a plant-catalogue page, next to the Apache httpd 2.2.22
distribution they were served with, of which the libraries APR, apr-util, PCRE
and Expat are there as source. This project models the course programs and the
parts of APR and apr-util that threads and processes share (queue, resource
list, thread pool, shared-memory allocator, memory pools), checks them with TLC
on small instances and proves the most important results with TLAPS for every
instance.

## Inventory

| Component | State it keeps | Operations | What is hard |
|---|---|---|---|
| `MainActivity.java` (Android search screen) | search box, result and error panels, field `map1`, chart, news button, suggestions; per activity instance | text watcher, suggestion click, search click, news click, three `AsyncTask`s, re-creation on rotation | listeners, one background thread and result callbacks interleave; results for a destroyed activity; the news button outlives its result; the chart comes in a second task |
| `Util.java` (its web-service client) | the static field `jObject` | `getListFromYahoo`, `getStockData` | all tasks share `jObject` between parse and use; no timeouts; several ways to fail |
| `NewsActivity.java` (headlines) | list rows, typed filter, field `pos`, open dialogs | type, click, View, Cancel, rotation | positions of a filtered list, filter results that arrive late, stacked dialogs |
| `util/SystemUiHider*.java` | `mVisible`, window and view flags, listener | `setup`, `hide`, `show`, `toggle`, the framework's report | visibility is cached; reports are late; the user can bring the bars back; the listener runs in the middle of a call |
| `search_stock.html` (AJAX page) | global `req`, some twenty globals of the last quote, six page elements, tab sets | search, handler `changeRequest`, tab callback, Facebook post, reload | overlapping requests share one handler and one global; the tab module arrives late; answers fail half-way through the handler |
| `search_stock.java` (servlet), `search_stock1.php` | none between requests | fetch twice and convert; fetch quote and news and merge | one of several fetches failing |
| `PHP/search_stock.php` | none | build the page | quote or news missing |
| `XML/Homework2.html` | none | validate, build a table | missing or wrong document |
| `apr_queue.c` | ring `data` with `nelts`, `in`, `out`; `terminated`; two waiter counts | push, pop, trypush, trypop, interrupt_all, term | waits that are not loops, signals that depend on a count, `terminated` read without the mutex, term in two critical sections |
| `apr_reslist.c` | idle resources, `nidle`, `ntotal`, limits, time to live | acquire, release, invalidate, maintain, cleanup | constructors and destructors that fail in the middle, timed waits, resources taken before the sleeper wakes |
| `apr_thread_pool.c` | task ring with an index per priority segment, scheduled ring, idle and busy threads, settings | push, top, schedule, cancel, idle_max_set, destroy, the worker's loop | `terminated` and `idle_max` set without the lock, trimming in three critical sections, threads that end by themselves, cancellation of running tasks |
| `apr_rmm.c` | two lists of blocks inside shared memory | malloc, calloc, realloc, free, destroy | splitting and joining in any order, sizes that wrap around, destruction while others hold blocks |
| `apr_pools.c`, allocator | free nodes in bins by size, a limit | alloc, free, max_free_set, destroy | reads before the mutex, the bookkeeping of the highest bin and of the limit |
| `apr_pools.c`, pools | tree of pools, ring of nodes per pool, cleanups | create, palloc, clear, destroy, cleanup register/kill/run | siblings created and destroyed by several threads, cleanups that change the list they are in, the order of the ring |
| the rest of APR and apr-util, PCRE, Expat, httpd headers, server configuration, generated code, static pages | | | see "Not modelled" |

Calls go from the app to Yahoo's suggestion service and to a quote servlet, from
the page to the servlet, and from the servlet to the PHP service, which asks
Yahoo for the quote and the news. The screen hands the headlines to
`NewsActivity` through an intent. The UI hiders are a library of the app. In the
server library every pool takes its memory from an allocator, and the queue, the
resource list and the thread pool are built on mutexes and condition variables
and register their cleanups with a pool.

What makes each part correct:

- search screen: when nothing is under way it answers the *last* search, with
  the quote, colour, chart and news of one and the same stock; a press never
  throws; every search is answered unless a server never answers;
- headline list: View opens the headline that was clicked;
- UI hiders: `isVisible()`, the listener and the window say the same once the
  reports have arrived, however old they were, and a `hide()` that overtakes no
  report of visible bars stays in force;
- AJAX page: it shows the newest search and nothing that has been overtaken;
  what is posted is what is shown; a complete page has its tabs;
- queue: a bounded FIFO with the documented return values; nobody sleeps beside
  an element or a slot that nobody else is coming for; term releases everyone;
- resource list: each resource is idle or with one holder, never more than
  `hmax`, none lost by a failure;
- thread pool: each accepted task is queued, held by one worker, run, cancelled
  or dropped by destroy, and is run in the end; cancel and destroy return, and only when they may;
- shared-memory allocator: the blocks tile the segment without gap or overlap and
  are as large as asked for, and free neighbours are always joined;
- pools: memory is in one pool or one free list, the tree is linked both ways,
  no cleanup is run twice, and none is forgotten but for the pre-cleanups that a
  cleanup registers too late.

## Modules

| Module | Role |
|---|---|
| `MainActivity` | `MainActivity.java` and `Util.java` |
| `SearchScreen` | abstract: a FIFO of searches per activity instance |
| `MainActivityRefinement` | the mapping from `MainActivity` to `SearchScreen` |
| `MCMainActivity` | symbols, news lists and symmetry for TLC |
| `MainActivityProofs` | theorems about `MainActivity`, and that it implements `SearchScreen` |
| `SearchPage`, `MCSearchPage`, `SearchPageProofs` | the script of `search_stock.html`, its TLC instance, its theorems |
| `NewsActivity` | `NewsActivity.java` |
| `SystemUiHiderBase`, `SystemUiHiderHoneycomb` | the two implementations |
| `SystemUi` | `getInstance()`: one of the two, chosen in the initial state; the properties of either |
| `AndroidUiProofs` | theorems about `NewsActivity` and about `SystemUi` |
| `AprQueue`, `AprQueueProofs` | `apr_queue.c`, its theorems |
| `BoundedFifo` | abstract: what `apr_queue.h` promises |
| `AprReslist`, `AprReslistProofs` | `apr_reslist.c`, its theorems |
| `AprThreadPool`, `MCAprThreadPool`, `AprThreadPoolProofs` | `apr_thread_pool.c`, priorities and owners for TLC, its theorems |
| `AprRmm`, `MCAprRmm`, `AprRmmProofs` | `apr_rmm.c`, symmetry for TLC, its theorems |
| `AprAllocator` | the allocator of `apr_pools.c`, as operators on its variables |
| `AprPools`, `MCAprPools`, `AprPoolsProofs` | the pools of `apr_pools.c` over `AprAllocator`, symmetry for TLC, theorems about the tree, the cleanups and the memory |

Definitions whose comment starts with "Mutant:" are variants of the definition
that follows them, each with one plausible bug. They are not part of any
specification; `PROJECT.json` says which property each of them breaks.

### MainActivity

`ui[i]` holds the views and fields of activity instance `i`. `queue`, `running`
and `posted` are the stations of a task: given to `execute()`, inside
`doInBackground`, on its way to `onPostExecute`. The manifest asks for SDK 16,
where `execute()` uses one serial executor for the whole process. Each listener
and each `onPostExecute` is one action (`TypeText`, `ItemClick`, `SearchClick`,
`NewsClick`, `Recreate`, `PostList`, `PostData`). `doInBackground` is split where
the shared field is written and read: `FetchParses` assigns `jObject`, `Extract`
reads it. `FetchFails` and `Hang` are the failures before it; the exceptions
after it are in `Extracted`. Quotes are abstracted to symbol, `ChangeType` and
per news item whether it has a link. `asked` and `lost` are history variables.

To `SearchScreen` the searches under way are the data tasks of the three stations
put end to end, the posted ones first and the queued ones last, and of them those
of one instance (`UnderWay`, `SearchesIn` in `MainActivityRefinement`).

### SearchPage

`requests` are all `XMLHttpRequest`s, `req` the global. `ReadyStateChange(i, k)`
moves request `i` on and runs `changeRequest`, which looks at `req`, as the code
does. The answers (`Kind`) are what the servlet and the PHP service can produce:
a failed status, an empty body, no JSON, a result without a quote, zeros, and
quotes with no, one or several news items. `globals` says whose identity and
whose prices the globals hold. A callback of `YUI().use` that has to wait for
the tab module is in `waiting`.

### NewsActivity

Headlines are the indices of `newsh` and `newslinks`. `Type` changes the filter,
`Publish` is the filter thread's later update of the rows; `onItemClick` stores
the position and opens a dialog; `onClick` is the choice in the top dialog.
`RowsOf` gives the matching headlines in their order by saying which headline is
in each row, the form the proofs reason about.

### SystemUiHider*

In `SystemUiHiderBase` a call is split at the call of the client's listener
(`Enter`, `Return`), which may call the hider again. `nested` is a history
variable: the last outermost call had another inside it.

In `SystemUiHiderHoneycomb` `hide` and `show` only set the view's flags, and
`SystemShows` is the user bringing the bars back. `Post` is the framework that
finds the flags changed and puts a report with the flags of that moment into
`posted`; `onSystemUiVisibilityChange` handles the oldest report and tests the
flags *in it*, as the code tests its argument. Calls and touches come between the
two, so a report may be older than a `hide()` that it then undoes
(`SystemUiHiderHoneycomb.java:117`), or cover several changes. `kept` is a history
variable: the last call was `hide()`, no report of visible bars was on its way, and
the user has left the bars alone since.

### AprQueue

A critical section of `one_big_mutex` is an action. `pc` says where a thread is:
between calls, at the lock, asleep, woken and again on its way to the mutex, or
past the unlock and about to look at `terminated`. A woken thread competes with
the others, so barging is part of the model, and `SpuriousWakeup` is what
condition variables may do. `BoundedFifo` sees only the contents of the ring,
read from `out`, and the returns.

### AprReslist

`avail` is the list of idle resources, `nold` how many at its end have outlived
the time to live; `Age` lets time pass. `live` is the client's view: what its
constructor made and its destructor did not yet get. `apr_reslist_release` is
two critical sections, its signal and `apr_reslist_maintain`. Each loop over
several resources is one action with a choice of where a constructor or
destructor fails. `dropped` counts signals used up by threads that left with an
error, which `NoLostWakeup` allows for: the code does not pass them on.

### AprThreadPool

Workers go from `starting` through `busy`, `idle` and `woken` to `none` (detached)
or `exited` (to be joined). A worker's critical section is `LoopTop` or
`TaskDone`; `terminated` may be set by `thread_pool_cleanup` between two reads of
one section (`WorkRaced`). The calls of clients that take several sections
(cancel, idle_max_set, destroy) are steps of `client`. The ring of tasks and
`task_idx` are as in the code, including which insertions move the index.
`RingRemove` is the ring without the tasks of one owner, in the same order;
`IndexAfterRemoval` is what becomes of a segment's index when `remove_tasks`
has gone through it. `accepted` and `cancelled` are history variables, the tasks
that were ever taken and those a cancel has removed; `gone` also has what destroy
drops.

### AprRmm

`blk` maps offsets to headers. `find_block_of_size`, `move_block` and their parts
are functions of a heap; an operation is one critical section, realloc two.
Sizes are computed modulo `Word`, and `Requests` holds values that wrap.

### AprAllocator and AprPools

Sizes are in units of which a boundary has four. The unlocked look at `max_index`
and `free[0]` in `allocator_alloc` may find anything: the model lets each look
lead to the bins, to the sink or to the system (`Looks`), which covers every race
and more. `stack` holds the calls a thread is in, because
`apr_pool_destroy` is recursive and calls cleanup functions; a cleanup function of
either kind may register or kill another cleanup of either kind (`Called`).
`registered` and `late` are history variables: the cleanups ever registered, and
the pre-cleanups registered when the loop over the pre-cleanups was over. Destroy
loses these, clear leaves them in a list whose memory it gives back. A pool is unlinked, and its nodes are freed,
in different critical sections, as in the code. `Subpools(p)` is what the loop of
`apr_pool_destroy` would go through: the smallest set with the first subpool and
the sibling of every member. The loop of `allocator_free` is one critical section:
`Turns` lists its states, each from the one before by what the loop does with one
node (`FreeNode`). What the limit counts is `Kept`, an index of n being n + 1
boundaries (`Boundaries`).

## Runs

| Run | Shows | Bounds |
|---|---|---|
| `one_screen` | views consistent, `jObject` is the task's own, last search wins, chart settles, news of the shown quote | 1 instance, 4 user events, 2 symbols, two news lists (last item with and without link) |
| `rotation` | no overtaking, refinement of `SearchScreen`, every search is answered or a request hangs | 2 instances, 3 user events, 2 symbols, 2 change types |
| `search_page` | newest answer shown, no overtaken header, posts and tabs | 3 requests, 4 user events, 2 symbols, all kinds of answers |
| `news` | indices in bounds; a click in the complete list opens its headline | 3 headlines, 5 filters, 2 dialogs |
| `news_filter` | *violated*: the toast does not name the clicked headline | 2 headlines |
| `ui` | `isVisible()`, listener and bars agree when settled, and `isVisible()` does in the end; a `hide()` stays in force | six flag sets, 2 calls inside each other, 2 reports on their way |
| `queue` | waiters counted, no lost wakeup, refinement of `BoundedFifo`, term releases everyone | 3 threads, 2 items, 2 slots |
| `reslist` | accounting, no lost wakeup | 4 threads, `min` 1, `smax` 1, `hmax` 2, 3 resources |
| `thread_pool` | counters, index, each accepted task in exactly one place, cancel complete, tasks run, destroy returns | 2 workers, 2 tasks, 1 client with multi-step calls |
| `thread_pool_priority` | *violated*: a task is taken although one of higher priority is queued | 1 worker, 3 tasks of one segment |
| `rmm` | tiling without gap or overlap, no needless shortage, sizes, overhead | 2 processes, a segment of 32 units with headers of 4, 5 request sizes |
| `pools` | bins, limit, nodes, ring, tree, cleanups | 2 threads, root and 2 pools, 4 nodes, 2 cleanups |

Why the bounds are enough. Two symbols tell "this stock" from "another". Four
events on one screen allow a suggestion, two searches and a press in any order,
with every interleaving of their tasks; three with two instances allow a search
before and after a rotation. Three requests on the page let an overtaken request
be neither the oldest nor the newest. Three threads let one sleep, one be woken
and one barge in; two slots make the ring wrap and be neither full nor empty.
Four threads on a list of two resources allow two holders, a sleeper and a
thread that takes the sleeper's resource. Two workers and two tasks allow a
trimmed, a busy and a new thread at a time (the run has also been made once with
three tasks). 32 units hold up to seven blocks, so that a freed block has free
neighbours on both, either or no side. Two pools below the root can be siblings
of two threads or parent and child. Events are counted only to end the
exploration, so `CHECK_DEADLOCK FALSE` is used where a behaviour ends when the
user does nothing more, when a pool or segment has been destroyed, or when every
thread waits for a resource a client keeps. The other runs have finitely many
states without bounds on length.

Fairness. `MainActivity!Fairness` says that the executor thread and the main
looper keep running, which Android guarantees to a process that lives. Servers
may be silent for ever: `Hang` is a fair way for a fetch to go on, and
`SearchAnswered` excepts it. `SystemUi!FairSpec` says that the framework posts
a report when the flags have changed and delivers what it has posted. `AprQueue!FairSpec` and `AprThreadPool!FairSpec` say that a thread
inside a call is scheduled and gets a mutex that is free, and for the pool that
tasks return, time passes and timed waits end; nobody is assumed to call
anything. Weak fairness per thread is enough: once a thread's step is enabled it
stays so.

### Where code and documentation disagree

- `NewsActivity.java:46`: the position in the *filtered* list indexes the
  unfiltered arrays (`news_filter`).
- `apr_thread_pool.c:557`: a push that becomes the first of its priority segment
  does not become the segment's index; 65, 70, 75 pushed in this order are
  served as 70, 75, 65 (`thread_pool_priority`).

Smaller ones, without a run of their own: `SystemUiHiderBase.java:28` tests the
layout flag the wrong way round; `FLAG_HIDE_NAVIGATION` contains the bit of
`FLAG_FULLSCREEN`, so that `SystemUiHiderHoneycomb.java:63` hides the navigation
bar for either; the comment of `apr_queue.c:171` on why a wait ended is too
narrow; `thread_max_set` (`apr_thread_pool.c:908`), the size `apr_rmm_realloc`
copies (`apr_rmm.c:380`) and a limit of the allocator that is lowered
(`apr_pools.c:196`) are hazards of `PROJECT.json`. So is `apr_pools.c:809`: a
cleanup "can safely" register further ones (`apr_pools.h:583-588`), but a
pre-cleanup that a plain cleanup registers comes after the loop over the
pre-cleanups and is never run.

Hazards too small for `PROJECT.json`: the last news item alone decides about the
news button (`Util.java:161`), a single item is no array (`Util.java:145`), a
failed AJAX status is ignored (`search_stock.html:365`), one JSONP callback
serves all autocomplete requests (`search_stock.html:112`), and a pool cleanup
that creates a subpool during `apr_pool_destroy` leaves it behind
(`apr_pools.c:766`).

## Proofs

All theorems hold for every value of the constants that the named assumptions of
the modules allow, which TLC evaluates in the runs: `Null`, `None` and `NULL` are
none of the values they stand beside, bounds are naturals, a news list is a
sequence of Booleans, there are finitely many threads, workers and resources
(`FiniteAssumption`, `WorkersAssumption`), the limits of a resource list are what
`apr_reslist_create` insists on, priorities are bytes, the root is a pool
(`PoolsAssumption`), a pool structure fits into the smallest node and requests
and limits are naturals, the limits of the width of `apr_uint32_t`
(`SizesAssumption` of `AprPools`), a segment has room for its header and one
block, its length fits into a word, and it, the headers and the word are multiples
of the alignment (`SizesAssumption` of `AprRmm`). Each invariant is proved in the same way: a strengthening
`Inv` that TLC has checked on the run's instance first, one lemma per action that
the action keeps it, and the property as a consequence.

`MainActivityProofs`

- `TypeCorrect`: `TypeOK` and `JObjectOwn` are inductive only together. A task
  that reads `jObject` must find its own kind of answer there, or the result it
  posts has no type. The type invariant contains the serial executor's
  guarantee, at most one running task.
- `ViewsAgree`, from a lemma that `setDatatoUI` makes consistent views out of
  any views; `NoListenerThrows` and `NewsOfShownQuote` follow from it: the error
  branch leaves the news button enabled but hides the panel it lies in.
- `SearchesKeepOrder`, then `LastSearchIsAnswered`. `LatestWins` speaks of
  screens with nothing under way and is not inductive. `NoOvertaking`
  strengthens it: wherever the youngest search of an instance is (the last data
  task of the queue; if there is none, the running one; if there is none, the
  last posted one; if there is none, the screen) it is the one asked last, and
  every answer under way belongs to the text of its own task. One lemma for each
  station of a task (`YoungestSearch`, `YoungestStart`, `YoungestFinish`,
  `YoungestPosted`) and a frame lemma for the other steps carry the proof.
- `ChartsSettle`. `ChartSettles` allows any chart while the right one is under
  way, and would not survive an older chart that arrives after it.
  `YoungestChart` adds that the chart of the shown quote is the last one asked
  for: it waits behind all others of its instance, or is being fetched with none
  behind it, or has been stored or lost with none left to overwrite it.
- `ClientRefines`: every step is a step of `SearchScreen` or leaves it as it is. A
  task that moves on from one station to the next leaves the tasks under way as
  they are (`WayStart`, `WayFinish`), a listener appends one (`NewSearch`),
  `onPostExecute` takes the first away and shows its answer (`PostAnswers`), where
  `NoOvertaking` gives that the answer is the one to the task's own text. All of it
  rests on one fact about the filter, that the searches in a concatenation are
  those of the first part followed by those of the second (`HeadsConcat`).

`SearchPageProofs`

- `TypeCorrect`, with "`req` is false or the newest request".
- `NewestAnswerShown`: `NewestShown` is inductive on top of it, because a late
  event of another request renders the newest again.
- `OvertakenAnswerHidden`, an action property, follows from the types alone.
- `PostIsAboutHeader` from the invariant `FbMatches` of that module: a share
  button is there only when the header and all globals are of one stock.
- `TabsArrive`.
- `TabsOfHeader`. Without late tab modules `TabsMatch` is kept by every step. For a
  page with one search the module may be late, and the invariant `SingleSearch`
  says how far that search has come: nothing rendered, one call of `YUI().use`
  waiting on an empty element, or one set of tabs built and nobody waiting.

`AndroidUiProofs`, for any number of headlines, filters and dialogs, and for any
flags of the hiders

- `NewsTypes`: `pos` stays an index of the arrays, because a row of a filtered
  list exists only below the number of headlines (`RowsOf` lists at most those).
- `NewsViewOpensRow`, with `PosOfNewest`: while the newest dialog is on top, `pos`
  is still its position; dialogs below may find another one there.
- `HidersSettle`, for every set of flags, any depth of calls and any number of
  reports. On the newer devices `ReportedAgrees` ties `mVisible`, the listener, the
  window flag and the action bar to the report that was *handled* last, whatever
  the view shows and however old the report was; when none is on its way that
  report has the flags of the view. On the older ones `CallAgrees` says of a call
  that is under way, and has no other inside it, that it will store what the
  listener was told and the window shows.
- `HideStaysInForce`, with `KeptHidden`: while a `hide()` is in force the view has
  the hide flags and no report on its way says that the bars are visible. That a
  report posted later does not say so either is what `FlagFacts` is for: a report
  mentions every flag the hider tests, and `hide()` sets one of them.

`AprQueueProofs`, for any finite set of threads, any items and any capacity

- `TypeCorrect`: counters within the ring, and `in` is `nelts` slots after `out`
  modulo the capacity, which every later proof needs.
- `WaitersAreCounted`: the counts are the cardinalities of the sets of threads
  inside a wait. Each step moves at most one thread in or out of these sets,
  except the broadcasts, which only move threads from asleep to woken; a lemma
  for each of these moves carries the proof.
- `NoWakeupIsLost`: inductive with `WaitersCounted`, because a push signals only
  when the count is not zero. The interesting steps are a woken thread that finds
  nothing (then nothing was there for the others either) and a barging thread
  (it takes away what the woken thread was coming for).
- `ImplementsFifo`: every step is a step of `BoundedFifo` on `Contents`, or leaves
  it alone; the arithmetic of the wrapping indices is in lemmas of its own.

`AprReslistProofs`, for any finite sets of threads and resources and any limits

- `ReslistAccounted` and `ReslistOwned`: `Accounted` speaks of sets and counts, and
  a count can stay right while a resource is in the list twice. `Owned` adds that
  the list has no duplicates, that no two threads hold the same resource, and
  that a thread inside acquire, or between release and maintain, holds none. The
  loops of maintain and acquire that may stop in the middle are handled by
  lemmas on what they leave of the list (a prefix, or a prefix and fresh
  resources).
- `ReslistNoLostWakeup`: inductive on top of these. Idle resources and free slots
  are counted against woken threads and `dropped`; each action moves at most one
  thread between asleep, woken and neither, except cleanup, which requires that
  all resources are back.

`AprThreadPoolProofs`, for any finite set of workers and any tasks and clients

- `PoolInvariant`: the invariant has one part per structure. `OnePlace` states
  `TaskInOnePlace` worker by worker, with `accepted = Accounted`: no task that was
  taken is anywhere else than in a ring, with a worker, run or gone; `IndexNotDangling` is needed by the very
  insertions that use the index; `CancelledOut` says that what a waiting cancel
  has found has left the rings for good; `Threads` that a thread that was told to
  stop is out of the idle ring, still there, and joined by one client only.
- `TasksKept`: every accepted task is in exactly one place, and before destroy has
  begun only cancelled ones are gone. The second half is a small invariant of its
  own (`GoneInit`, `GoneNext`).
- `IndexSound`, `ThreadsCounted` are parts of the invariant or follow from it.
- `CancelIsComplete`, an action property: the step that ends the wait finds no
  worker busy with a task of the owner, and `CancelledOut` excludes the rings.

`AprPoolsProofs`, for any sets of threads, pools and cleanups

- `PoolsInvariant`. `Stacks`, `Exclusive` and `Owned` describe the calls threads can
  be in: a recursive destroy is a chain of pools, each the parent of the one
  before, no pool is in two calls, and a thread is in calls on its own pools
  until one thread alone destroys the root. That is what makes the unlocked parts
  of a destroy safe. `Tree` is about the pointers: `child`, `sibling` and `ref`
  agree for the pools in a list (`Pointers`), every set that has the first subpool
  and the siblings of its members has all subpools (`Reaches`), and no pool is
  below itself (`Acyclic`). `Emptied` says which loops a call has left behind: only
  late pre-cleanups are left after the first one. `Lists` says that each cleanup
  is in at most one list, and there once, that one that is done is in none, and that
  every registered one is in a list, done or late.
- `TreeStaysLinked`: `Reaches` gives that no subpool is missed, `Pointers` that
  nothing else is found. Unlinking a pool is two lemmas, one for the first
  subpool of its parent (`UnlinkFirst`) and one for a later one (`UnlinkLater`).
- `CleanupsOnce` follows from `Lists`. What registering and killing do to the lists
  of a pool is said once (`NewListed`, `KilledListed`), what a cleanup function may
  do follows from both (`CalledListed`), and one lemma on replacing the lists of a
  pool (`ListsStep`) carries it to the invariant.
- `MemoryInvariant`, for any nodes, requests and limits. `Mem` has what the four
  properties below need from each other: `BinsOK` and `LimitOK` for the allocator
  (they are also what every turn of the loop in `allocator_free` keeps), `Placed`
  (no node in two rings or in a ring and a bin, and one the system has in none),
  `Rings`, `RingSorted`, and `Gone` (no bins after the root). It uses `Inv`: that
  no pool is in two calls is why the ring a destroy frees is still the pool's own.
- `BinsStayRight` and `LimitKept`: `max_index` goes down to the next bin in use when
  a bin becomes empty, and `current_free_index` is what is left of the limit
  although it is computed with unsigned arithmetic.
- `NodesInOnePlace` follows from `Placed`; the allocator may be shared by any number
  of threads.
- `RingsStaySorted`: `apr_palloc` moves the node it leaves to where its free space
  belongs. One lemma says what a sorted list with one node taken out and one put in
  looks like (`PromoteSorted`), for a node from the ring and for a new one.

`AprRmmProofs`, for any segment, sizes of headers, alignment and width of a word, any
requests and any number of clients

- `SegmentInvariant`. The lists are described without walking along them: `Linked`
  says of a set of offsets that the first one is its least member and that `next`
  and `prev` of each lead to the next larger and the next smaller member. `HeapOK`
  adds `Tiles` (blocks without gap or overlap) and `Apart` (no free block ends
  where another one starts); the used set is `Held`, what the clients have, `Once`
  each, and `Roomy` is that each block has room for what was asked for. One lemma
  for each thing that `apr_rmm.c` does to a list carries the proof: taking a block
  out (`ClosedFacts`), putting one in where its offset belongs (`OpenedFacts`),
  cutting one in two (`SplitSegment`), joining two (`JoinedSegment`); `GiveHeap` and
  `FreeHeap` put them together for malloc and free. Joining is where `Apart` is lost
  for a moment: the freed block may touch a free one on both sides
  (`CollapseHeap`).
- `SegmentStaysTiled` (no gap and no overlap), `UsedBlocksAreHeld` and
  `NoNeedlessShortage` speak of the lists as a walk along `next` finds them. `ChainFacts` says that for a linked set the
  recursive definition `Chain` has a value, and is the set in ascending order,
  because `next` always leads upwards.
- `UsedBlocksAreHeld` also rests on `BlockSizeFacts`: sizes are computed modulo
  `Word`, and a sum that wraps around gives 0, which malloc refuses, or a block
  that is large enough.
- `NoNeedlessShortage`: a stretch without allocations starts in a free block
  (`Covered`), and as its end is not the start of another free one (`Apart`), nor
  of a used one, the stretch lies in that one block, and the search
  finds it or a smaller one that is large enough (`BestFitFacts`).

Three of these arguments are inductions over data: over the turns of the loop in
`allocator_free`, over the length of a list of tasks and over the walk along a list
of blocks, from its far end. They are made without an induction theorem: if the statement fails for some number there is a least one for which it
fails (`LeastNat`), and the step from its neighbour is a contradiction.

Only model-checked:

- the liveness properties `SearchAnswered`, `EventuallyTrue`, `TermReleases`,
  `TasksRun` and `DestroyReturns`, which need fairness and `ENABLED`, beyond this
  prover;
- `OverheadEnough` of `AprRmm`, which compares with the sum of all requests: what a
  sum over a set is after one element joins it is an induction over sets that the
  library states with an operator parameter.

## Limits of the model

- Texts of messages, numbers and layout are left out. `ChangeType` is kept
  because the colour depends on it.
- Library code (AsyncTask, AutoCompleteTextView, ListView and its filter,
  AlertDialog, View flags, XMLHttpRequest, YUI) is modelled from its use here.
- `setImage` touches a view from the background thread. It is one atomic step.
- A low-memory kill of the process is not modelled: nothing is persisted.
- `SystemUiHiderHoneycomb`: the client has called `setup()` first, as the class
  asks, and its listener does not call `toggle()`. Reports arrive in the order in
  which they were posted, one for each change the framework notices.
- `SystemUiHiderBase` promises nothing about a listener that calls the hider: after
  such a call `isVisible()` may be wrong, and `SettledAgrees` speaks of calls that
  had no other inside them. Without `FLAG_FULLSCREEN` its `hide()` hides nothing and
  `isVisible()` still turns false, so that the property compares with the window
  only when the flag is set.
- Mutexes and condition variables do not fail, and a mutex is not held by a
  thread that has died.
- `AprReslist`: a thread holds at most one resource, and the list is destroyed
  after every thread has given its resource back, as the assertions of
  `reslist_cleanup` require.
- `AprThreadPool`: without `thread_max_set`; `TasksRun` is for callers that keep at
  least one idle thread and a threshold of 0. Allocations succeed: when
  `elt_new` fails in a new thread (`apr_thread_pool.c:246-250`) the thread ends but
  stays counted in `thd_cnt`, and a later destroy waits for it for ever. That path is
  not in the model, and `DestroyReturns` says nothing of it.
- `AprRmm`: clients free what they were given, once.
- `AprPools`: a thread uses the pools it created; the limit of the allocator is
  changed while nothing is kept; the small `cleanup_t` structures take no memory.
  What is read of a late pre-cleanup after a clear has given its memory back is not
  modelled: it stays in the list. Cleanup functions call only into the pool they
  belong to; subpools that they create are left out.

## Not modelled

- The page's autocomplete widget, the servlet, both PHP programs and the
  plant-catalogue page (see the plan).
- The server itself: its core and its modules are not in the repository, only
  headers, the list of modules and test programs.
- PCRE, Expat and the Unicode tables, some 40,000 lines: a compiler, a matcher and
  a parser for text. They keep no state between calls that threads share, and
  what they compute for an input could only be compared with a second
  implementation.
- The drivers of apr-util (DBD, DBM, LDAP, memcache, crypto) and the platform
  layers of APR (files, sockets, processes, poll, locks; each for Unix, Windows,
  OS/2, NetWare and BeOS): thin layers over libraries and system calls that are
  not in the repository.
- Headers, tests and sequential helpers (tables, hashes, strings, dates).

Measured in lines, most of the C code of the repository is of these kinds: what
is modelled is where its state is shared and its failures interleave, a few
thousand lines out of 180,000. A third of it cannot be modelled without turning
parsers, drivers and per-platform wrappers into transliterations.

## Plan

Done: `MainActivity` with its abstract specification, proofs and the refinement, `SearchPage`
with its proofs, `NewsActivity` and the UI hiders with theirs; `AprQueue` with its abstract
specification and proofs, `AprReslist` and `AprThreadPool` with their proofs,
`AprRmm` with its proofs, and `AprAllocator` and `AprPools` with the proofs about the
tree, the cleanups and the memory. Next, in this order:

1. Bucket brigades of apr-util (shared reference-counted buckets, `apr_brigade`).
2. `QuotePipeline`: the servlet's double fetch and `search_stock1.php` with its
   two fetches, each of which may fail; which answers (`SearchPage!Kind`) the
   page can receive and from which failures; composed with `SearchPage`.
3. The autocomplete widget of the page: the one global JSONP callback that
   every request overwrites.
4. `StockPage` (`PHP/search_stock.php`) and `PlantCatalog` (`XML/Homework2.html`).
