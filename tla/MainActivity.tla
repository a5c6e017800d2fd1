---------------------------- MODULE MainActivity ----------------------------
(***************************************************************************)
(* The Android client of StockSearch: the search screen (MainActivity),    *)
(* the two web-service calls it makes (Util) and the AsyncTask machinery   *)
(* that carries them.                                                      *)
(*                                                                         *)
(* Two threads act.  The main thread runs the listeners and the            *)
(* onPostExecute methods, one at a time, so each is one action.  The       *)
(* background thread runs doInBackground.  The manifest asks for SDK 16    *)
(* (minimum and target), where AsyncTask.execute puts every task of the    *)
(* process on one serial executor: tasks run one after the other in the    *)
(* order of their execute calls, and their results reach the main thread   *)
(* in that order.  AsyncTask is library code; it is modelled from that use.*)
(*                                                                         *)
(* A rotation, or leaving and starting again, destroys the activity and    *)
(* creates a new one.  A task is an inner class and keeps the activity     *)
(* that created it, so views are kept per activity instance.               *)
(***************************************************************************)
EXTENDS Naturals, Sequences

CONSTANTS
  Symbol,      \* stock symbols
  ChangeType,  \* values of the ChangeType field of a quote
  News,        \* news lists: per item TRUE for a link, FALSE for "No Link"
  MaxInst,     \* bound: activity instances in a behaviour
  MaxEvents,   \* bound: user events in a behaviour
  Null         \* Java's null

ASSUME InstAssumption  == MaxInst \in Nat \ {0}
ASSUME EventAssumption == MaxEvents \in Nat
ASSUME NewsAssumption  == News \subseteq Seq(BOOLEAN)

VARIABLES
  inst,     \* the activity instance on the screen
  text,     \* the text of its search box
  ui,       \* the views and fields of every instance
  queue,    \* tasks given to execute() and not started
  running,  \* tasks inside doInBackground
  jObject,  \* the static field Util.jObject
  posted,   \* results on their way to onPostExecute
  front,    \* Null, or the arrays handed to the NewsActivity on top
  crashed,  \* an exception left a listener
  events,   \* user events so far
  asked,    \* history: the last text each instance searched for
  lost      \* history: the (instance, symbol) whose last chart fetch failed

vars == <<inst, text, ui, queue, running, jObject, posted, front, crashed,
          events, asked, lost>>

-----------------------------------------------------------------------------
(* Values. *)

Inst == 1 .. MaxInst

(* A text is what precedes its first comma and whether more follows: the   *)
(* user types symbols, a suggestion line is "symbol, name(exchange)".      *)
EmptyText     == [head |-> Null, more |-> FALSE]
SymbolText(s) == [head |-> s, more |-> FALSE]
ItemText(s)   == [head |-> s, more |-> TRUE]
Typed == {EmptyText} \cup {SymbolText(s) : s \in Symbol}
Text  == Typed \cup {ItemText(s) : s \in Symbol}

(* (ci.split(","))[0] *)
FirstPart(t) == [head |-> t.head, more |-> FALSE]

(* What getStockData() returns for a complete answer. *)
Map == [sym : Symbol, change : ChangeType, news : News]

(* hasNews is assigned in every iteration of the loop over the items, so   *)
(* the last item decides; it starts FALSE.                                 *)
HasNews(m) == m.news # << >> /\ m.news[Len(m.news)]

(* The JSON texts the servers send: a quote, suggestions (the entries      *)
(* before the first malformed one), or JSON without the expected members   *)
(* (a stock with one news item is of this kind: its "Item" is no array).   *)
QuoteBody   == [kind : {"quote"}, map : Map]
SuggestBody == [kind : {"suggest"}, items : SUBSET Symbol]
OtherBody   == [kind : {"other"}]
Body        == QuoteBody \cup SuggestBody \cup OtherBody

Task == [kind : {"list", "data", "image"}, inst : Inst,
         arg : Text \ {EmptyText}]

ListTask(i, t)  == [kind |-> "list",  inst |-> i, arg |-> t]
DataTask(i, t)  == [kind |-> "data",  inst |-> i, arg |-> t]
ImageTask(i, m) == [kind |-> "image", inst |-> i, arg |-> SymbolText(m.sym)]

(* A task in doInBackground: waiting for the answer, stuck on a server     *)
(* that never answers, or between the assignment of Util.jObject and its   *)
(* use; body is the answer it received.                                    *)
Run == [task : Task, pc : {"fetch", "hung"}, body : {Null}] \cup
       [task : {t \in Task : t.kind # "image"}, pc : {"extract"}, body : Body]

Post == [task : {t \in Task : t.kind = "data"}, ret : Map \cup {Null}] \cup
        [task : {t \in Task : t.kind = "list"}, ret : (SUBSET Symbol) \cup {Null}]

(* Colour and arrow chosen from ChangeType. *)
Style == {"none", "green up_g", "red down_r", "black up_g"}
StyleOf(m) == CASE m.change = "+" -> "green up_g"
                [] m.change = "-" -> "red down_r"
                [] OTHER          -> "black up_g"

UI == [result : BOOLEAN, error : BOOLEAN, map1 : Map \cup {Null},
       shown : Map \cup {Null}, style : Style, chart : Symbol \cup {Null},
       news : BOOLEAN, list : SUBSET Symbol]

ASSUME NullAssumption ==
  /\ Null \notin Symbol
  /\ Null \notin Text
  /\ Null \notin Map
  /\ Null \notin Body

-----------------------------------------------------------------------------
(* What the listeners hand to execute(). *)

onTextChanged(i, t) == IF t = EmptyText THEN << >> ELSE <<ListTask(i, t)>>

getStockData(i, t) == IF t = EmptyText THEN << >> ELSE <<DataTask(i, t)>>

(* Both panels GONE, no suggestions, the news button disabled (layout). *)
onCreate == [result |-> FALSE, error |-> FALSE, map1 |-> Null, shown |-> Null,
             style |-> "none", chart |-> Null, news |-> FALSE, list |-> {}]

Init ==
  /\ inst = 1
  /\ text = EmptyText
  /\ ui = [i \in Inst |-> onCreate]
  /\ queue = << >>
  /\ running = {}
  /\ jObject = Null
  /\ posted = << >>
  /\ front = Null
  /\ crashed = FALSE
  /\ events = 0
  /\ asked = [i \in Inst |-> Null]
  /\ lost = {}

-----------------------------------------------------------------------------
(* User events, on the main thread. *)

UserEvent ==
  /\ ~crashed
  /\ front = Null
  /\ events < MaxEvents
  /\ events' = events + 1

TypeText(t) ==
  /\ UserEvent
  /\ t # text
  /\ text' = t
  /\ queue' = queue \o onTextChanged(inst, t)
  /\ UNCHANGED <<inst, ui, running, jObject, posted, front, crashed, asked, lost>>

(* The drop-down list first replaces the text by the whole line, which     *)
(* runs the text watcher; onItemClick then sets the symbol, which runs it  *)
(* again, and searches.                                                    *)
ItemClick(s) ==
  /\ UserEvent
  /\ s \in ui[inst].list
  /\ LET ci == ItemText(s)
         t  == FirstPart(ci)
     IN  /\ text' = t
         /\ queue' = queue \o onTextChanged(inst, ci) \o onTextChanged(inst, t)
                           \o getStockData(inst, t)
         /\ asked' = [asked EXCEPT ![inst] = t]
  /\ UNCHANGED <<inst, ui, running, jObject, posted, front, crashed, lost>>

SearchClick ==
  /\ UserEvent
  /\ queue' = queue \o getStockData(inst, text)
  /\ asked' = IF text = EmptyText THEN asked ELSE [asked EXCEPT ![inst] = text]
  /\ UNCHANGED <<inst, text, ui, running, jObject, posted, front, crashed, lost>>

(* The button lies inside the result panel: it can be pressed while the    *)
(* panel is visible and the button enabled.  loadNews() reads the field    *)
(* map1, not the map of the search that enabled the button.                *)
NewsClick ==
  /\ UserEvent
  /\ ui[inst].result
  /\ ui[inst].news
  /\ IF ui[inst].map1 = Null
     THEN crashed' = TRUE /\ UNCHANGED front
     ELSE front' = ui[inst].map1 /\ UNCHANGED crashed
  /\ UNCHANGED <<inst, text, ui, queue, running, jObject, posted, asked, lost>>

(* Back from the NewsActivity. *)
BackFromNews ==
  /\ front # Null
  /\ front' = Null
  /\ UNCHANGED <<inst, text, ui, queue, running, jObject, posted, crashed,
                 events, asked, lost>>

(* The activity is destroyed and created again.  After a rotation the      *)
(* framework restores the text of the box, which runs the text watcher;    *)
(* nothing else is saved.                                                  *)
Recreate(t) ==
  /\ UserEvent
  /\ inst < MaxInst
  /\ inst' = inst + 1
  /\ text' = t
  /\ queue' = queue \o onTextChanged(inst + 1, t)
  /\ UNCHANGED <<ui, running, jObject, posted, front, crashed, asked, lost>>

-----------------------------------------------------------------------------
(* The background thread. *)

(* Mutant: every task starts at once (THREAD_POOL_EXECUTOR). *)
StartTaskParallel ==
  /\ ~crashed
  /\ queue # << >>
  /\ running' = running \cup {[task |-> Head(queue), pc |-> "fetch", body |-> Null]}
  /\ queue' = Tail(queue)
  /\ UNCHANGED <<inst, text, ui, jObject, posted, front, crashed, events, asked,
                 lost>>

(* The serial executor starts a task when the previous one has finished. *)
StartTask ==
  /\ ~crashed
  /\ running = {}
  /\ queue # << >>
  /\ running' = {[task |-> Head(queue), pc |-> "fetch", body |-> Null]}
  /\ queue' = Tail(queue)
  /\ UNCHANGED <<inst, text, ui, jObject, posted, front, crashed, events, asked,
                 lost>>

(* Mutant: a failed task reports nothing. *)
FinishSilently(r, ret) ==
  /\ running' = running \ {r}
  /\ posted' = IF r.task.kind = "image" \/ ret = Null THEN posted
               ELSE Append(posted, [task |-> r.task, ret |-> ret])

(* doInBackground returns: the result is posted to the main thread.  A     *)
(* finished LoadImageTask changes nothing there: its onPostExecute() has   *)
(* no parameter and overrides nothing.                                     *)
Finish(r, ret) ==
  /\ running' = running \ {r}
  /\ posted' = IF r.task.kind = "image" THEN posted
               ELSE Append(posted, [task |-> r.task, ret |-> ret])

(* No timeout is set on the HttpClient or on the URL: a server that        *)
(* accepts and never answers keeps the task where it is.                   *)
Hang(r) ==
  /\ ~crashed
  /\ r \in running
  /\ r.pc = "fetch"
  /\ running' = (running \ {r}) \cup {[r EXCEPT !.pc = "hung"]}
  /\ UNCHANGED <<inst, text, ui, queue, jObject, posted, front, crashed, events,
                 asked, lost>>

(* The request fails before jObject is assigned: an I/O or HTTP error, an  *)
(* empty or unparsable answer, or a URI that the request refuses (a        *)
(* suggestion line holds spaces).  getStockData() throws and the task      *)
(* returns null; getListFromYahoo() returns its list, still empty, for the *)
(* exceptions it catches and throws the others.                            *)
FetchFails(r, ret) ==
  /\ ~crashed
  /\ r \in running
  /\ r.pc = "fetch"
  /\ ret \in IF r.task.kind = "list" THEN {Null, {}} ELSE {Null}
  /\ Finish(r, ret)
  /\ lost' = IF r.task.kind = "image"
             THEN lost \cup {<<r.task.inst, r.task.arg.head>>} ELSE lost
  /\ UNCHANGED <<inst, text, ui, queue, jObject, front, crashed, events, asked>>

(* The answers a server may send to a request. *)
Answers(t) ==
  OtherBody \cup
  CASE t.kind = "data" -> [kind : {"quote"}, map : {m \in Map : m.sym = t.arg.head}]
    [] t.kind = "list" -> SuggestBody

(* The answer arrives and is parsed into the static field. *)
FetchParses(r, b) ==
  /\ ~crashed
  /\ r \in running
  /\ r.pc = "fetch"
  /\ r.task.kind # "image"
  /\ ~r.task.arg.more
  /\ b \in Answers(r.task)
  /\ jObject' = b
  /\ running' = (running \ {r}) \cup {[r EXCEPT !.pc = "extract", !.body = b]}
  /\ UNCHANGED <<inst, text, ui, queue, posted, front, crashed, events, asked,
                 lost>>

(* The fields are read from the static field.  A missing member throws:    *)
(* out of getStockData(), where the task returns null, or inside           *)
(* getListFromYahoo(), which returns the entries read so far.              *)
Extracted(kind, b) ==
  CASE kind = "data" -> IF b.kind = "quote" THEN b.map ELSE Null
    [] kind = "list" -> IF b.kind = "suggest" THEN b.items ELSE {}

Extract(r) ==
  /\ ~crashed
  /\ r \in running
  /\ r.pc = "extract"
  /\ Finish(r, Extracted(r.task.kind, jObject))
  /\ UNCHANGED <<inst, text, ui, queue, jObject, front, crashed, events, asked,
                 lost>>

(* setImage() on the background thread: the bitmap (Null: undecodable) is  *)
(* stored in the ImageView; a refusal of the call from this thread comes   *)
(* after that and is swallowed by doInBackground.                          *)
LoadImage(r, bitmap) ==
  /\ ~crashed
  /\ r \in running
  /\ r.pc = "fetch"
  /\ r.task.kind = "image"
  /\ bitmap \in {r.task.arg.head, Null}
  /\ ui' = [ui EXCEPT ![r.task.inst].chart = bitmap]
  /\ Finish(r, Null)
  /\ lost' = lost \ {<<r.task.inst, r.task.arg.head>>}
  /\ UNCHANGED <<inst, text, queue, jObject, front, crashed, events, asked>>

-----------------------------------------------------------------------------
(* onPostExecute, on the main thread. *)

(* RetrieveStockListTask: a null or empty list leaves the suggestions. *)
PostList ==
  /\ ~crashed
  /\ posted # << >>
  /\ LET p == Head(posted)
     IN  /\ p.task.kind = "list"
         /\ ui' = IF p.ret \in {Null, {}} THEN ui
                  ELSE [ui EXCEPT ![p.task.inst].list = p.ret]
  /\ posted' = Tail(posted)
  /\ UNCHANGED <<inst, text, queue, running, jObject, front, crashed, events,
                 asked, lost>>

(* Mutant: the error branch does not hide the result panel. *)
setDatatoUIKeepsResult(u, m) ==
  IF m # Null
  THEN [u EXCEPT !.map1 = m, !.shown = m, !.style = StyleOf(m),
                 !.news = HasNews(m), !.error = FALSE, !.result = TRUE]
  ELSE [u EXCEPT !.map1 = Null, !.error = TRUE]

(* Mutant: map1 keeps the quote that first enabled the button. *)
setDatatoUIStaleMap(u, m) ==
  IF m # Null
  THEN [u EXCEPT !.map1 = IF @ = Null THEN m ELSE @, !.shown = m,
                 !.style = StyleOf(m), !.news = HasNews(m), !.error = FALSE,
                 !.result = TRUE]
  ELSE [u EXCEPT !.map1 = Null, !.result = FALSE, !.error = TRUE]

(* setDatatoUI(): map1 is assigned first; the error branch leaves the      *)
(* texts, the chart and the news button as they are.                       *)
setDatatoUI(u, m) ==
  IF m # Null
  THEN [u EXCEPT !.map1 = m, !.shown = m, !.style = StyleOf(m),
                 !.news = HasNews(m), !.error = FALSE, !.result = TRUE]
  ELSE [u EXCEPT !.map1 = Null, !.result = FALSE, !.error = TRUE]

(* Mutant: the result goes to the activity on the screen. *)
PostDataToCurrent ==
  /\ ~crashed
  /\ posted # << >>
  /\ LET p == Head(posted)
     IN  /\ p.task.kind = "data"
         /\ ui' = [ui EXCEPT ![inst] = setDatatoUI(@, p.ret)]
         /\ queue' = IF p.ret = Null THEN queue
                     ELSE Append(queue, ImageTask(inst, p.ret))
  /\ posted' = Tail(posted)
  /\ UNCHANGED <<inst, text, running, jObject, front, crashed, events, asked, lost>>

(* Mutant: the result waits until its activity is on the screen again. *)
PostDataWaits ==
  /\ ~crashed
  /\ posted # << >>
  /\ LET p == Head(posted)
     IN  /\ p.task.kind = "data"
         /\ p.task.inst = inst
         /\ ui' = [ui EXCEPT ![inst] = setDatatoUI(@, p.ret)]
         /\ queue' = IF p.ret = Null THEN queue
                     ELSE Append(queue, ImageTask(inst, p.ret))
  /\ posted' = Tail(posted)
  /\ UNCHANGED <<inst, text, running, jObject, front, crashed, events, asked, lost>>

(* Mutant: the chart is not loaded again when one is on the screen. *)
PostDataOneChart ==
  /\ ~crashed
  /\ posted # << >>
  /\ LET p == Head(posted)
         i == p.task.inst
     IN  /\ p.task.kind = "data"
         /\ ui' = [ui EXCEPT ![i] = setDatatoUI(@, p.ret)]
         /\ queue' = IF p.ret = Null \/ ui[i].chart # Null THEN queue
                     ELSE Append(queue, ImageTask(i, p.ret))
  /\ posted' = Tail(posted)
  /\ UNCHANGED <<inst, text, running, jObject, front, crashed, events, asked, lost>>

(* RetrieveStockDataTask *)
PostData ==
  /\ ~crashed
  /\ posted # << >>
  /\ LET p == Head(posted)
         i == p.task.inst
     IN  /\ p.task.kind = "data"
         /\ ui' = [ui EXCEPT ![i] = setDatatoUI(@, p.ret)]
         /\ queue' = IF p.ret = Null THEN queue
                     ELSE Append(queue, ImageTask(i, p.ret))
  /\ posted' = Tail(posted)
  /\ UNCHANGED <<inst, text, running, jObject, front, crashed, events, asked, lost>>

-----------------------------------------------------------------------------
User ==
  \/ \E t \in Typed : TypeText(t)
  \/ \E s \in Symbol : ItemClick(s)
  \/ SearchClick
  \/ NewsClick
  \/ BackFromNews
  \/ \E t \in {text, EmptyText} : Recreate(t)

Background ==
  \/ StartTask
  \/ \E r \in running :
       \/ Hang(r)
       \/ \E ret \in {Null, {}} : FetchFails(r, ret)
       \/ \E b \in Body : FetchParses(r, b)
       \/ Extract(r)
       \/ \E bitmap \in Symbol \cup {Null} : LoadImage(r, bitmap)

MainLooper == PostList \/ PostData

Next == User \/ Background \/ MainLooper

Spec == Init /\ [][Next]_vars

(* The executor and the main looper keep running.  Nothing is assumed of   *)
(* the servers: Hang is one of the steps that resolve a fetch.             *)
Fairness == WF_vars(Background) /\ WF_vars(MainLooper)

FairSpec == Spec /\ Fairness

-----------------------------------------------------------------------------
(* Properties. *)

(* Every variable has its type; the serial executor runs at most one task. *)
TypeOK ==
  /\ inst \in Inst
  /\ text \in Text
  /\ ui \in [Inst -> UI]
  /\ queue \in Seq(Task)
  /\ running \subseteq Run
  /\ \A r1, r2 \in running : r1 = r2
  /\ jObject \in Body \cup {Null}
  /\ posted \in Seq(Post)
  /\ front \in Map \cup {Null}
  /\ crashed \in BOOLEAN
  /\ events \in 0 .. MaxEvents
  /\ asked \in [Inst -> Text \cup {Null}]
  /\ lost \subseteq Inst \X Symbol

(* setDatatoUI keeps the panels, the texts, the news button and the field  *)
(* map1 together: never both panels, the result panel shows the quote held *)
(* in map1 with its colour and its news button, the error panel comes with *)
(* map1 = null.                                                            *)
ViewsConsistent ==
  \A i \in Inst :
    LET u == ui[i]
    IN  /\ ~(u.result /\ u.error)
        /\ u.error => u.map1 = Null
        /\ u.result => /\ u.map1 # Null
                       /\ u.map1 = u.shown
                       /\ u.style = StyleOf(u.shown)
                       /\ u.news = HasNews(u.shown)

(* No listener throws: the enabled news button, which survives a failed    *)
(* search, can never be pressed while map1 is null.                        *)
NeverCrashes == ~crashed

(* Util.jObject is static and shared by all tasks: the task about to read  *)
(* it finds the answer to its own request there.                           *)
JObjectOwn == \A r \in running : r.pc = "extract" => jObject = r.body

(* The NewsActivity opens on the headlines of the quote on the screen.     *)
NewsOpensShown ==
  [][front' # front /\ front' # Null =>
       ui[inst].result /\ front' = ui[inst].shown]_vars

(* A data task of instance i that has not reached setDatatoUI. *)
DataOf(t, i) == t.kind = "data" /\ t.inst = i

InQueue(i)   == {k \in DOMAIN queue : DataOf(queue[k], i)}
InRunning(i) == {r \in running : DataOf(r.task, i)}
InPosted(i)  == {k \in DOMAIN posted : DataOf(posted[k].task, i)}
Pending(i)   == InQueue(i) # {} \/ InRunning(i) # {} \/ InPosted(i) # {}

(* The screen of instance i answers a search for t. *)
Answered(i, t) ==
  IF t = Null THEN ~ui[i].result /\ ~ui[i].error
  ELSE \/ ui[i].error
       \/ ui[i].result /\ ui[i].shown.sym = t.head

(* Whatever the order of searches, suggestions, charts and answers: when   *)
(* no search of an instance is under way its screen answers the last one   *)
(* made in it, and stays blank if there was none (a result for an activity *)
(* destroyed by a rotation never reaches its successor).                   *)
LatestWins == \A i \in Inst : ~Pending(i) => Answered(i, asked[i])

(* A search and its answer stay together through the shared field: what a  *)
(* task received, and what is on its way to setDatatoUI, answers the text  *)
(* that the task was created with.                                         *)
OwnAnswers ==
  /\ \A r \in running : r.pc = "extract" => r.body \in Answers(r.task)
  /\ \A k \in DOMAIN posted :
       posted[k].task.kind = "data" =>
         \/ posted[k].ret = Null
         \/ posted[k].ret.sym = posted[k].task.arg.head

IsLast(k, S) == k \in S /\ \A j \in S : j <= k

(* The youngest search of instance i, wherever it has got to, is the one   *)
(* asked last.                                                             *)
YoungestIsLast(i) ==
  /\ \A k \in InQueue(i) : IsLast(k, InQueue(i)) => queue[k].arg = asked[i]
  /\ InQueue(i) = {} => \A r \in InRunning(i) : r.task.arg = asked[i]
  /\ InQueue(i) = {} /\ InRunning(i) = {} =>
       \A k \in InPosted(i) :
         IsLast(k, InPosted(i)) => posted[k].task.arg = asked[i]
  /\ ~Pending(i) => Answered(i, asked[i])

(* The inductive form of LatestWins: no search overtakes an earlier one on *)
(* its way through the executor and the main looper, and each keeps its    *)
(* own answer.                                                             *)
NoOvertaking == OwnAnswers /\ \A i \in Inst : YoungestIsLast(i)

(* An image task for the chart of symbol s in instance i has not finished. *)
ChartPending(i, s) ==
  LET t == [kind |-> "image", inst |-> i, arg |-> SymbolText(s)]
  IN  \/ \E k \in DOMAIN queue : queue[k] = t
      \/ \E r \in running : r.task = t

(* setImage runs later, on the other thread and per search: the chart next *)
(* to a quote is the quote's own, or none, unless its own is still to come *)
(* or could not be fetched.                                                *)
ChartSettles ==
  \A i \in Inst :
    ui[i].shown # Null =>
      LET s == ui[i].shown.sym
      IN  \/ ChartPending(i, s)
          \/ <<i, s>> \in lost
          \/ ui[i].chart \in {s, Null}

(* A request that no server answers holds up the serial executor. *)
Stuck == \E r \in running : r.pc = "hung"

(* Every search is answered on its screen once the user stops, unless a    *)
(* request (of any task, also for suggestions or a chart) is never         *)
(* answered.                                                               *)
SearchAnswered == \A i \in Inst : Pending(i) ~> (~Pending(i) \/ Stuck)

=============================================================================
