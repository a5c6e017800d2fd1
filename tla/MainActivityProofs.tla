------------------------- MODULE MainActivityProofs -------------------------
(* Safety of the Android client for any number of symbols, activity        *)
(* instances, user events and news lists, and that it implements the       *)
(* abstract search screen.                                                 *)
EXTENDS MainActivityRefinement, SequenceTheorems, FiniteSetTheorems,
        WellFoundedInduction, TLAPS

-----------------------------------------------------------------------------
(* Facts about the values. *)

(* What the listeners hand to execute() is a sequence of tasks. *)
LEMMA ListenerTasks ==
  ASSUME NEW i \in Inst, NEW t \in Text
  PROVE  /\ onTextChanged(i, t) \in Seq(Task)
         /\ getStockData(i, t) \in Seq(Task)
<1>1. t # EmptyText => ListTask(i, t) \in Task /\ DataTask(i, t) \in Task
  BY DEF ListTask, DataTask, Task
<1> QED
  BY <1>1 DEF onTextChanged, getStockData

(* Tasks appended in two steps are appended in one. *)
LEMMA AppendedTasks ==
  \A x, y, z \in Seq(Task) : (x \o y) \o z = x \o (y \o z)
OBVIOUS

(* The texts the model builds are texts. *)
LEMMA Texts ==
  /\ EmptyText \in Text
  /\ Typed \subseteq Text
  /\ \A s \in Symbol : SymbolText(s) \in Text /\ ItemText(s) \in Text
  /\ \A s \in Symbol : SymbolText(s) # EmptyText /\ ItemText(s) # EmptyText
  /\ \A s \in Symbol : FirstPart(ItemText(s)) = SymbolText(s)
  /\ \A t \in Text \ {EmptyText} : t.head \in Symbol
<1>1. EmptyText \in Text /\ Typed \subseteq Text
  BY DEF Text, Typed
<1>2. \A s \in Symbol : SymbolText(s) \in Text /\ ItemText(s) \in Text
  BY DEF Text, Typed
<1>3. \A s \in Symbol : SymbolText(s) # EmptyText /\ ItemText(s) # EmptyText
  BY NullAssumption DEF SymbolText, ItemText, EmptyText
<1>4. \A s \in Symbol : FirstPart(ItemText(s)) = SymbolText(s)
  BY DEF FirstPart, SymbolText, ItemText
<1>5. \A t \in Text \ {EmptyText} : t.head \in Symbol
  <2> SUFFICES ASSUME NEW t \in Text, t # EmptyText PROVE t.head \in Symbol
    OBVIOUS
  <2>1. \E s \in Symbol : t = SymbolText(s) \/ t = ItemText(s)
    BY DEF Text, Typed
  <2> QED
    BY <2>1 DEF SymbolText, ItemText
<1> QED
  BY <1>1, <1>2, <1>3, <1>4, <1>5

(* The instances are numbered without gaps. *)
LEMMA Insts ==
  /\ 1 \in Inst
  /\ \A i \in Inst : i < MaxInst => i + 1 \in Inst
BY InstAssumption DEF Inst

(* The style of a quote is one of the three that the branches set. *)
LEMMA Styles == \A m \in Map : StyleOf(m) \in Style
BY DEF StyleOf, Style

(* hasNews is a Boolean. *)
LEMMA HasNewsBoolean == \A m \in Map : HasNews(m) \in BOOLEAN
BY DEF HasNews, Map

(* A freshly created activity, and one updated by setDatatoUI, have the    *)
(* views of an activity.                                                   *)
LEMMA onCreateType == onCreate \in UI
BY DEF onCreate, UI, Style

LEMMA setDatatoUIType ==
  ASSUME NEW u \in UI, NEW m \in Map \cup {Null}
  PROVE  setDatatoUI(u, m) \in UI
<1>1. CASE m = Null
  BY <1>1 DEF setDatatoUI, UI
<1>2. CASE m # Null
  <2>1. m \in Map
    BY <1>2
  <2> QED
    BY <1>2, <2>1, Styles, HasNewsBoolean DEF setDatatoUI, UI
<1> QED
  BY <1>1, <1>2

LEMMA ViewUpdateType ==
  ASSUME NEW u \in UI
  PROVE  /\ \A b \in Symbol \cup {Null} : [u EXCEPT !.chart = b] \in UI
         /\ \A l \in SUBSET Symbol : [u EXCEPT !.list = l] \in UI
BY DEF UI

(* The two ways a running task changes without finishing. *)
LEMMA RunType ==
  ASSUME NEW r \in Run, r.pc = "fetch"
  PROVE  /\ [r EXCEPT !.pc = "hung"] \in Run
         /\ \A b \in Body :
              LET q == [r EXCEPT !.pc = "extract", !.body = b]
              IN  /\ r.task.kind # "image" => q \in Run
                  /\ q.task = r.task /\ q.body = b
<1>1. r \in [task : Task, pc : {"fetch", "hung"}, body : {Null}]
  BY DEF Run
<1>2. [r EXCEPT !.pc = "hung"] \in [task : Task, pc : {"fetch", "hung"}, body : {Null}]
  BY <1>1
<1>3. ASSUME NEW b \in Body
      PROVE  LET q == [r EXCEPT !.pc = "extract", !.body = b]
             IN  /\ r.task.kind # "image" =>
                      q \in [task : {t \in Task : t.kind # "image"},
                             pc : {"extract"}, body : Body]
                 /\ q.task = r.task /\ q.body = b
  BY <1>1
<1> QED
  BY <1>2, <1>3 DEF Run

(* A step from a well-typed state is well typed.  What a task extracts has *)
(* the type of its kind only because it reads its own answer: without      *)
(* JObjectOwn the static field could still be null.                        *)
LEMMA NextType == TypeOK /\ JObjectOwn /\ [Next]_vars => TypeOK'
<1> SUFFICES ASSUME TypeOK, JObjectOwn, [Next]_vars PROVE TypeOK'
  OBVIOUS
<1> USE DEF TypeOK
<1>1. ASSUME NEW t \in Typed, TypeText(t) PROVE TypeOK'
  <2>1. onTextChanged(inst, t) \in Seq(Task) /\ t \in Text
    BY Texts, ListenerTasks
  <2>2. queue' \in Seq(Task)
    BY <1>1, <2>1 DEF TypeText
  <2>3. events' \in 0 .. MaxEvents
    BY <1>1, EventAssumption DEF TypeText, UserEvent
  <2> QED
    BY <1>1, <2>1, <2>2, <2>3 DEF TypeText
<1>2. ASSUME NEW s \in Symbol, ItemClick(s) PROVE TypeOK'
  <2> DEFINE t == FirstPart(ItemText(s))
  <2>1. t \in Text /\ ItemText(s) \in Text
    BY Texts
  <2>2. /\ onTextChanged(inst, ItemText(s)) \in Seq(Task)
        /\ onTextChanged(inst, t) \in Seq(Task)
        /\ getStockData(inst, t) \in Seq(Task)
    BY <2>1, ListenerTasks
  <2> HIDE DEF t
  <2>3. /\ text' = t
        /\ queue' = queue \o onTextChanged(inst, ItemText(s)) \o
                     onTextChanged(inst, t) \o getStockData(inst, t)
        /\ asked' = [asked EXCEPT ![inst] = t]
    BY <1>2 DEF ItemClick, t
  <2>4. queue' \in Seq(Task) /\ asked' \in [Inst -> Text \cup {Null}]
    BY <2>1, <2>2, <2>3
  <2>5. events' \in 0 .. MaxEvents
    BY <1>2, EventAssumption DEF ItemClick, UserEvent
  <2> QED
    BY <1>2, <2>1, <2>3, <2>4, <2>5 DEF ItemClick
<1>3. ASSUME SearchClick PROVE TypeOK'
  <2>1. queue' \in Seq(Task)
    BY <1>3, ListenerTasks DEF SearchClick
  <2>2. events' \in 0 .. MaxEvents
    BY <1>3, EventAssumption DEF SearchClick, UserEvent
  <2> QED
    BY <1>3, <2>1, <2>2 DEF SearchClick
<1>4. ASSUME NewsClick PROVE TypeOK'
  <2>1. events' \in 0 .. MaxEvents
    BY <1>4, EventAssumption DEF NewsClick, UserEvent
  <2>2. crashed' \in BOOLEAN
    BY <1>4 DEF NewsClick
  <2>3. front' \in Map \cup {Null}
    BY <1>4 DEF NewsClick, UserEvent, UI
  <2> QED
    BY <1>4, <2>1, <2>2, <2>3 DEF NewsClick
<1>5. ASSUME BackFromNews PROVE TypeOK'
  BY <1>5 DEF BackFromNews
<1>6. ASSUME NEW t \in {text, EmptyText}, Recreate(t) PROVE TypeOK'
  <2>1. t \in Text /\ inst + 1 \in Inst
    BY <1>6, Texts, Insts DEF Recreate
  <2>2. queue' \in Seq(Task)
    BY <1>6, <2>1, ListenerTasks DEF Recreate
  <2>3. events' \in 0 .. MaxEvents
    BY <1>6, EventAssumption DEF Recreate, UserEvent
  <2> QED
    BY <1>6, <2>1, <2>2, <2>3 DEF Recreate
<1>7. ASSUME StartTask PROVE TypeOK'
  <2>1. Head(queue) \in Task /\ Tail(queue) \in Seq(Task)
    BY <1>7 DEF StartTask
  <2>2. [task |-> Head(queue), pc |-> "fetch", body |-> Null] \in Run
    BY <2>1 DEF Run
  <2> QED
    BY <1>7, <2>1, <2>2 DEF StartTask
<1>8. ASSUME NEW r \in running, NEW ret, Finish(r, ret),
             r.task.kind = "data" => ret \in Map \cup {Null},
             r.task.kind = "list" => ret \in (SUBSET Symbol) \cup {Null}
      PROVE  /\ running' \subseteq Run
             /\ \A r1, r2 \in running' : r1 = r2
             /\ posted' \in Seq(Post)
  <2>1. r.task \in Task
    BY DEF Run
  <2>2. r.task.kind # "image" => [task |-> r.task, ret |-> ret] \in Post
    BY <1>8, <2>1 DEF Post, Task
  <2> QED
    BY <1>8, <2>2 DEF Finish
<1>9. ASSUME NEW r \in running, Hang(r) PROVE TypeOK'
  <2>1. [r EXCEPT !.pc = "hung"] \in Run
    BY <1>9, RunType DEF Hang
  <2> QED
    BY <1>9, <2>1 DEF Hang
<1>10. ASSUME NEW r \in running, NEW ret \in {Null, {}}, FetchFails(r, ret)
       PROVE  TypeOK'
  <2>1. /\ r.task.kind = "data" => ret \in Map \cup {Null}
        /\ r.task.kind = "list" => ret \in (SUBSET Symbol) \cup {Null}
    BY <1>10 DEF FetchFails
  <2>2. /\ running' \subseteq Run
        /\ \A r1, r2 \in running' : r1 = r2
        /\ posted' \in Seq(Post)
    <3>1. Finish(r, ret)
      BY <1>10 DEF FetchFails
    <3> QED
      BY <1>8, <2>1, <3>1
  <2>3. r.task.inst \in Inst /\ r.task.arg.head \in Symbol
    BY Texts DEF Run, Task
  <2>4. lost' \subseteq Inst \X Symbol
    BY <1>10, <2>3 DEF FetchFails
  <2> QED
    BY <1>10, <2>2, <2>4 DEF FetchFails
<1>11. ASSUME NEW r \in running, NEW b \in Body, FetchParses(r, b) PROVE TypeOK'
  <2>1. [r EXCEPT !.pc = "extract", !.body = b] \in Run
    BY <1>11, RunType DEF FetchParses
  <2> QED
    BY <1>11, <2>1 DEF FetchParses
<1>12. ASSUME NEW r \in running, Extract(r) PROVE TypeOK'
  <2> DEFINE ret == Extracted(r.task.kind, jObject)
  <2>1. jObject \in Body
    BY <1>12 DEF Extract, JObjectOwn, Run
  <2>2. r.task.kind = "data" => ret \in Map \cup {Null}
    BY <2>1 DEF Extracted, Body, QuoteBody, SuggestBody, OtherBody
  <2>3. r.task.kind = "list" => ret \in (SUBSET Symbol) \cup {Null}
    BY <2>1 DEF Extracted, Body, QuoteBody, SuggestBody, OtherBody
  <2> HIDE DEF ret
  <2>4. Finish(r, ret)
    BY <1>12 DEF Extract, ret
  <2>5. /\ running' \subseteq Run
        /\ \A r1, r2 \in running' : r1 = r2
        /\ posted' \in Seq(Post)
    BY <1>8, <2>2, <2>3, <2>4
  <2> QED
    BY <1>12, <2>5 DEF Extract
<1>13. ASSUME NEW r \in running, NEW bitmap \in Symbol \cup {Null},
              LoadImage(r, bitmap)
       PROVE  TypeOK'
  <2>1. /\ running' \subseteq Run
        /\ \A r1, r2 \in running' : r1 = r2
        /\ posted' \in Seq(Post)
    BY <1>8, <1>13 DEF LoadImage
  <2>2. r.task.inst \in Inst
    BY DEF Run, Task
  <2>3. ui' \in [Inst -> UI]
    <3>1. [ui[r.task.inst] EXCEPT !.chart = bitmap] \in UI
      BY <2>2, ViewUpdateType
    <3> QED
      BY <1>13, <2>2, <3>1 DEF LoadImage
  <2>4. lost' \subseteq Inst \X Symbol
    BY <1>13 DEF LoadImage
  <2> QED
    BY <1>13, <2>1, <2>3, <2>4 DEF LoadImage
<1>14. ASSUME PostList PROVE TypeOK'
  <2> DEFINE p == Head(posted)
  <2>1. p \in Post /\ posted' \in Seq(Post)
    BY <1>14 DEF PostList
  <2>2. /\ p.task.inst \in Inst
        /\ p.task.kind = "list"
        /\ p.ret \notin {Null, {}} => p.ret \subseteq Symbol
    <3>1. p.task.kind = "list"
      BY <1>14 DEF PostList
    <3>2. p \in [task : {t \in Task : t.kind = "list"},
                ret : (SUBSET Symbol) \cup {Null}]
      BY <2>1, <3>1 DEF Post
    <3> QED
      BY ONLY <3>1, <3>2 DEF Task
  <2> HIDE DEF p
  <2>3. ui' = IF p.ret \in {Null, {}} THEN ui
              ELSE [ui EXCEPT ![p.task.inst].list = p.ret]
    BY <1>14 DEF PostList, p
  <2>4. ui' \in [Inst -> UI]
    <3>1. p.ret \notin {Null, {}} => [ui[p.task.inst] EXCEPT !.list = p.ret] \in UI
      BY <2>2, ViewUpdateType
    <3> QED
      BY <2>2, <2>3, <3>1
  <2> QED
    BY <1>14, <2>1, <2>4 DEF PostList
<1>15. ASSUME PostData PROVE TypeOK'
  <2> DEFINE p == Head(posted)
             i == p.task.inst
  <2>1. p \in Post /\ posted' \in Seq(Post)
    BY <1>15 DEF PostData
  <2>2. i \in Inst /\ p.ret \in Map \cup {Null}
    BY <1>15, <2>1 DEF PostData, Post, Task
  <2>3. /\ ui' = [ui EXCEPT ![i] = setDatatoUI(@, p.ret)]
        /\ queue' = IF p.ret = Null THEN queue
                    ELSE Append(queue, ImageTask(i, p.ret))
    BY <1>15 DEF PostData
  <2> HIDE DEF i, p
  <2>4. ui' \in [Inst -> UI]
    BY <2>2, <2>3, setDatatoUIType
  <2>5. p.ret # Null => ImageTask(i, p.ret) \in Task
    BY <2>2, Texts DEF ImageTask, Task, Map
  <2>6. queue' \in Seq(Task)
    BY <2>3, <2>5
  <2> QED
    BY <1>15, <2>1, <2>4, <2>6 DEF PostData
<1>16. CASE UNCHANGED vars
  BY <1>16 DEF vars
<1> QED
  BY <1>1, <1>2, <1>3, <1>4, <1>5, <1>6, <1>7, <1>9, <1>10, <1>11, <1>12, <1>13,
     <1>14, <1>15, <1>16
  DEF Next, User, Background, MainLooper

(* A task that is about to read Util.jObject finds its own answer: the     *)
(* only other writer would be a second running task.                       *)
LEMMA NextJObjectOwn == TypeOK /\ JObjectOwn /\ [Next]_vars => JObjectOwn'
<1> SUFFICES ASSUME TypeOK, JObjectOwn, [Next]_vars PROVE JObjectOwn'
  OBVIOUS
<1>1. \A r1, r2 \in running : r1 = r2
  BY DEF TypeOK
<1>2. CASE running' = running /\ jObject' = jObject
  BY <1>2 DEF JObjectOwn
<1>3. CASE StartTask
  BY <1>3 DEF StartTask, JObjectOwn
<1>4. ASSUME NEW r \in running,
             \/ Hang(r)
             \/ \E ret \in {Null, {}} : FetchFails(r, ret)
             \/ Extract(r)
             \/ \E bitmap \in Symbol \cup {Null} : LoadImage(r, bitmap)
      PROVE  JObjectOwn'
  <2>1. jObject' = jObject
    BY <1>4 DEF Hang, FetchFails, Extract, LoadImage
  <2>2. \A q \in running' : q \in running \/ q.pc = "hung"
    <3>1. [r EXCEPT !.pc = "hung"].pc = "hung"
      BY DEF TypeOK, Run
    <3> QED
      BY <1>4, <3>1 DEF Hang, FetchFails, Extract, LoadImage, Finish
  <2> QED
    BY <2>1, <2>2 DEF JObjectOwn
<1>5. ASSUME NEW r \in running, NEW b \in Body, FetchParses(r, b)
      PROVE  JObjectOwn'
  <2>1. running' = {[r EXCEPT !.pc = "extract", !.body = b]}
    BY <1>1, <1>5 DEF FetchParses
  <2>2. [r EXCEPT !.pc = "extract", !.body = b].body = b
    BY <1>5, RunType DEF TypeOK, FetchParses
  <2> QED
    BY <1>5, <2>1, <2>2 DEF FetchParses, JObjectOwn
<1>6. CASE User \/ MainLooper \/ UNCHANGED vars
  BY <1>2, <1>6 DEF User, MainLooper, TypeText, ItemClick, SearchClick,
     NewsClick, BackFromNews, Recreate, PostList, PostData, vars
<1> QED
  BY <1>3, <1>4, <1>5, <1>6 DEF Next, Background

(* Every reachable state is well typed and at most one task runs: the      *)
(* executor that AsyncTask.execute uses is serial.                         *)
THEOREM TypeCorrect == Spec => []TypeOK /\ []JObjectOwn
<1>1. Init => TypeOK
  <2> SUFFICES ASSUME Init PROVE TypeOK
    OBVIOUS
  <2>1. text \in Text /\ inst \in Inst /\ ui \in [Inst -> UI]
    BY Texts, Insts, onCreateType DEF Init
  <2>2. queue \in Seq(Task) /\ posted \in Seq(Post)
    BY DEF Init
  <2>3. events \in 0 .. MaxEvents
    BY EventAssumption DEF Init
  <2>4. asked \in [Inst -> Text \cup {Null}]
    BY DEF Init
  <2> QED
    BY <2>1, <2>2, <2>3, <2>4 DEF Init, TypeOK
<1>2. Init => JObjectOwn
  BY DEF Init, JObjectOwn
<1> QED
  BY <1>1, <1>2, NextType, NextJObjectOwn, PTL DEF Spec

-----------------------------------------------------------------------------
(* The views. *)

(* The views of one instance agree with each other. *)
Consistent(u) ==
  /\ ~(u.result /\ u.error)
  /\ u.error => u.map1 = Null
  /\ u.result => /\ u.map1 # Null
                 /\ u.map1 = u.shown
                 /\ u.style = StyleOf(u.shown)
                 /\ u.news = HasNews(u.shown)

LEMMA ConsistentDef == ViewsConsistent <=> \A i \in Inst : Consistent(ui[i])
BY DEF ViewsConsistent, Consistent

(* setDatatoUI makes the views agree, whatever they were. *)
LEMMA setDatatoUIConsistent ==
  ASSUME NEW u \in UI, NEW m \in Map \cup {Null}
  PROVE  Consistent(setDatatoUI(u, m))
<1>1. CASE m = Null
  BY <1>1 DEF setDatatoUI, UI, Consistent
<1>2. CASE m # Null
  BY <1>2 DEF setDatatoUI, UI, Consistent
<1> QED
  BY <1>1, <1>2

(* A new chart or new suggestions leave the views in agreement. *)
LEMMA ViewUpdateConsistent ==
  ASSUME NEW u \in UI, Consistent(u), NEW x
  PROVE  /\ Consistent([u EXCEPT !.chart = x])
         /\ Consistent([u EXCEPT !.list = x])
BY DEF UI, Consistent

LEMMA NextViews == TypeOK /\ ViewsConsistent /\ [Next]_vars => ViewsConsistent'
<1> SUFFICES ASSUME TypeOK, ViewsConsistent, [Next]_vars,
                    NEW i \in Inst
             PROVE  Consistent(ui'[i])
  BY ConsistentDef DEF ViewsConsistent, Consistent
<1>1. Consistent(ui[i]) /\ ui[i] \in UI /\ ui \in [Inst -> UI]
  BY ConsistentDef DEF TypeOK
<1>2. CASE ui' = ui
  BY <1>1, <1>2
<1>3. ASSUME NEW r \in running, NEW bitmap, LoadImage(r, bitmap)
      PROVE  Consistent(ui'[i])
  <2>1. ui'[i] = ui[i] \/ ui'[i] = [ui[i] EXCEPT !.chart = bitmap]
    BY <1>1, <1>3 DEF LoadImage
  <2> QED
    BY <1>1, <2>1, ViewUpdateConsistent
<1>4. CASE PostList
  <2> DEFINE l == Head(posted).ret
  <2>1. ui'[i] = ui[i] \/ ui'[i] = [ui[i] EXCEPT !.list = l]
    BY <1>1, <1>4 DEF PostList
  <2> QED
    BY <1>1, <2>1, ViewUpdateConsistent
<1>5. CASE PostData
  <2> DEFINE p == Head(posted)
  <2>1. ui'[i] = ui[i] \/ ui'[i] = setDatatoUI(ui[i], p.ret)
    BY <1>1, <1>5 DEF PostData
  <2>2. p \in Post /\ p.task.kind = "data"
    BY <1>5 DEF PostData, TypeOK
  <2>3. p.ret \in Map \cup {Null}
    BY <2>2 DEF Post
  <2> QED
    BY <1>1, <2>1, <2>3, setDatatoUIConsistent
<1>6. CASE User \/ UNCHANGED vars
  BY <1>2, <1>6 DEF User, TypeText, ItemClick, SearchClick, NewsClick,
     BackFromNews, Recreate, vars
<1>7. CASE Background
  BY <1>2, <1>3, <1>7 DEF Background, StartTask, Hang, FetchFails, FetchParses,
     Extract
<1> QED
  BY <1>4, <1>5, <1>6, <1>7 DEF Next, MainLooper

(* The panels, the texts, the news button and map1 always agree.           *)
THEOREM ViewsAgree == Spec => []ViewsConsistent
<1>1. Init => ViewsConsistent
  BY DEF Init, ViewsConsistent, onCreate
<1> QED
  BY <1>1, NextViews, TypeCorrect, PTL DEF Spec

(* The news button that a failed search leaves enabled is out of reach     *)
(* while map1 is null: no listener throws.                                 *)
THEOREM NoListenerThrows == Spec => []NeverCrashes
<1>1. Init => NeverCrashes
  BY DEF Init, NeverCrashes
<1>2. ViewsConsistent /\ TypeOK /\ NeverCrashes /\ [Next]_vars => NeverCrashes'
  <2> SUFFICES ASSUME ViewsConsistent, TypeOK, NeverCrashes, [Next]_vars
               PROVE  NeverCrashes'
    OBVIOUS
  <2>1. CASE NewsClick
    BY <2>1 DEF NewsClick, ViewsConsistent, NeverCrashes, TypeOK
  <2>2. CASE crashed' = crashed
    BY <2>2 DEF NeverCrashes
  <2> QED
    BY <2>1, <2>2 DEF Next, User, Background, MainLooper, TypeText, ItemClick,
       SearchClick, BackFromNews, Recreate, StartTask, Hang, FetchFails,
       FetchParses, Extract, LoadImage, PostList, PostData, vars
<1> QED
  BY <1>1, <1>2, TypeCorrect, ViewsAgree, PTL DEF Spec

(* The NewsActivity opens on the headlines of the quote on the screen,     *)
(* although loadNews reads a field that every search overwrites.           *)
THEOREM NewsOfShownQuote == Spec => NewsOpensShown
<1> DEFINE A == front' # front /\ front' # Null =>
                  ui[inst].result /\ front' = ui[inst].shown
<1>1. ViewsConsistent /\ TypeOK /\ [Next]_vars => [A]_vars
  <2> SUFFICES ASSUME ViewsConsistent, TypeOK, Next PROVE A
    OBVIOUS
  <2>1. CASE NewsClick
    BY <2>1 DEF NewsClick, ViewsConsistent, TypeOK
  <2>2. CASE front' = front \/ front' = Null
    BY <2>2
  <2> QED
    BY <2>1, <2>2 DEF Next, User, Background, MainLooper, TypeText, ItemClick,
       SearchClick, BackFromNews, Recreate, StartTask, Hang, FetchFails,
       FetchParses, Extract, LoadImage, PostList, PostData
<1> QED
  BY <1>1, TypeCorrect, ViewsAgree, PTL DEF Spec, NewsOpensShown

-----------------------------------------------------------------------------
(* The way of a search through the executor. *)

(* The answer to a data request is the requested stock, or an answer from  *)
(* which nothing can be read.                                              *)
LEMMA ExtractedOwn ==
  ASSUME NEW t \in Task, t.kind = "data", NEW b \in Answers(t)
  PROVE  LET m == Extracted("data", b) IN m = Null \/ m.sym = t.arg.head
BY DEF Answers, Extracted, OtherBody

(* Tasks appended to the queue that are not searches of i leave the        *)
(* queued searches of i where they are.                                    *)
LEMMA QueueFrame ==
  ASSUME TypeOK, NEW i \in Inst, NEW q \in Seq(Task),
         \A k \in DOMAIN q : ~DataOf(q[k], i),
         queue' = queue \o q
  PROVE  /\ InQueue(i)' = InQueue(i)
         /\ \A k \in InQueue(i) : queue'[k] = queue[k]
<1>1. /\ queue \in Seq(Task)
      /\ DOMAIN queue = 1 .. Len(queue)
      /\ DOMAIN queue' = 1 .. Len(queue) + Len(q)
      /\ DOMAIN q = 1 .. Len(q)
      /\ Len(queue) \in Nat /\ Len(q) \in Nat
  BY DEF TypeOK
<1>2. \A k \in 1 .. Len(queue) : queue'[k] = queue[k]
  BY <1>1
<1>3. \A k \in DOMAIN queue' :
        k \notin 1 .. Len(queue) =>
          k - Len(queue) \in DOMAIN q /\ queue'[k] = q[k - Len(queue)]
  BY <1>1
<1> QED
  BY <1>1, <1>2, <1>3 DEF InQueue

(* A step that changes neither the searches of i nor its screen. *)
LEMMA YoungestFrame ==
  ASSUME TypeOK, NEW i \in Inst, YoungestIsLast(i), NEW q \in Seq(Task),
         \A k \in DOMAIN q : ~DataOf(q[k], i),
         queue' = queue \o q, running' = running, posted' = posted,
         asked'[i] = asked[i], ui'[i] = ui[i]
  PROVE  YoungestIsLast(i)'
<1>1. /\ InQueue(i)' = InQueue(i)
      /\ \A k \in InQueue(i) : queue'[k] = queue[k]
  BY QueueFrame
<1>2. InRunning(i)' = InRunning(i) /\ InPosted(i)' = InPosted(i)
  BY DEF InRunning, InPosted
<1> QED
  BY <1>1, <1>2 DEF YoungestIsLast, IsLast, Pending, Answered

(* A new search becomes the youngest one and the last one asked. *)
LEMMA YoungestSearch ==
  ASSUME TypeOK, NEW i \in Inst, NEW t \in Text \ {EmptyText},
         NEW q \in Seq(Task), \A k \in DOMAIN q : ~DataOf(q[k], i),
         queue' = queue \o q \o <<DataTask(i, t)>>,
         asked'[i] = t
  PROVE  YoungestIsLast(i)'
<1> DEFINE n == Len(queue) + Len(q) + 1
<1>1. /\ queue \in Seq(Task)
      /\ DataTask(i, t) \in Task
      /\ DataOf(DataTask(i, t), i)
      /\ DataTask(i, t).arg = t
  BY DEF TypeOK, DataTask, Task, DataOf
<1>2. /\ DOMAIN queue' = 1 .. n
      /\ n \in 1 .. n
      /\ queue'[n] = DataTask(i, t)
  <2>1. queue \o q \in Seq(Task) /\ Len(queue \o q) = Len(queue) + Len(q)
    BY <1>1
  <2> QED
    BY <1>1, <2>1
<1>3. n \in InQueue(i)'
  BY <1>1, <1>2 DEF InQueue
<1>4. InQueue(i)' \subseteq 1 .. n /\ n \in Nat
  BY <1>1, <1>2 DEF InQueue
<1> HIDE DEF n
<1>5. \A k \in InQueue(i)' : IsLast(k, InQueue(i)') => k = n
  BY <1>3, <1>4 DEF IsLast
<1> QED
  BY <1>1, <1>2, <1>3, <1>5 DEF YoungestIsLast, Pending

(* The serial executor moves the head of the queue. *)
LEMMA YoungestStart ==
  ASSUME TypeOK, NEW i \in Inst, YoungestIsLast(i), StartTask
  PROVE  YoungestIsLast(i)'
<1>1. /\ queue \in Seq(Task) /\ queue # << >>
      /\ DOMAIN queue = 1 .. Len(queue) /\ Len(queue) \in Nat \ {0}
      /\ queue' = Tail(queue)
      /\ DOMAIN queue' = 1 .. Len(queue) - 1
      /\ \A k \in DOMAIN queue' : queue'[k] = queue[k + 1]
  BY DEF TypeOK, StartTask
<1>2. \A k \in InQueue(i)' : k + 1 \in InQueue(i) /\ queue'[k] = queue[k + 1]
  BY <1>1 DEF InQueue
<1>3. \A k \in InQueue(i) : k = 1 \/ (k > 1 /\ k - 1 \in InQueue(i)')
  BY <1>1 DEF InQueue
<1>4. InQueue(i)' \subseteq Nat \ {0} /\ InQueue(i) \subseteq Nat
  BY <1>1 DEF InQueue
<1>5. \A k \in InQueue(i)' : IsLast(k, InQueue(i)') => IsLast(k + 1, InQueue(i))
  <2> SUFFICES ASSUME NEW k \in InQueue(i)', IsLast(k, InQueue(i)'),
                      NEW j \in InQueue(i)
               PROVE  j <= k + 1
    BY <1>2 DEF IsLast
  <2>1. k \in Nat /\ j \in Nat
    BY <1>4
  <2>2. CASE j = 1
    BY <2>1, <2>2
  <2>3. CASE j > 1 /\ j - 1 \in InQueue(i)'
    <3>1. j - 1 <= k
      BY <2>3 DEF IsLast
    <3> QED
      BY <2>1, <3>1
  <2> QED
    BY <1>3, <2>2, <2>3
<1>6. \A k \in InQueue(i)' : IsLast(k, InQueue(i)') => queue'[k].arg = asked'[i]
  BY <1>2, <1>5 DEF YoungestIsLast, StartTask
<1>7. InRunning(i) = {} /\ InPosted(i)' = InPosted(i) /\ posted' = posted
      /\ asked' = asked /\ ui' = ui
  BY DEF StartTask, InRunning, InPosted
<1>8. running' = {[task |-> queue[1], pc |-> "fetch", body |-> Null]}
  BY <1>1 DEF StartTask
<1>9. CASE DataOf(queue[1], i)
  <2>1. 1 \in InQueue(i)
    BY <1>1, <1>9 DEF InQueue
  <2>2. InQueue(i)' = {} => IsLast(1, InQueue(i))
    BY <1>3, <2>1 DEF IsLast
  <2>3. InQueue(i)' = {} => queue[1].arg = asked[i]
    BY <2>1, <2>2 DEF YoungestIsLast
  <2>4. InRunning(i)' # {}
    <3> DEFINE r == [task |-> queue[1], pc |-> "fetch", body |-> Null]
    <3>1. r \in running' /\ r.task = queue[1]
      BY <1>8
    <3> QED
      BY <1>9, <3>1 DEF InRunning
  <2>5. \A r \in InRunning(i)' : r.task = queue[1]
    BY <1>8 DEF InRunning
  <2> QED
    BY <1>6, <1>7, <2>3, <2>4, <2>5 DEF YoungestIsLast, Pending
<1>10. CASE ~DataOf(queue[1], i)
  <2>1. InRunning(i)' = {}
    BY <1>8, <1>10 DEF InRunning
  <2>2. InQueue(i)' = {} => InQueue(i) = {}
    BY <1>3, <1>10 DEF InQueue
  <2> QED
    BY <1>6, <1>7, <2>1, <2>2 DEF YoungestIsLast, Pending, Answered
<1> QED
  BY <1>9, <1>10

(* A running task that finishes appends its result to the posted ones. *)
LEMMA YoungestFinish ==
  ASSUME TypeOK, NEW i \in Inst, YoungestIsLast(i),
         NEW r \in running, NEW ret, Finish(r, ret),
         queue' = queue, asked' = asked,
         ui'[i].result = ui[i].result, ui'[i].error = ui[i].error,
         ui'[i].shown = ui[i].shown
  PROVE  YoungestIsLast(i)'
<1> DEFINE n == Len(posted) + 1
           p == [task |-> r.task, ret |-> ret]
<1>1. running = {r} /\ running' = {}
  BY DEF TypeOK, Finish
<1>2. InQueue(i)' = InQueue(i) /\ InRunning(i)' = {}
  BY <1>1 DEF InQueue, InRunning
<1>3. posted \in Seq(Post) /\ DOMAIN posted = 1 .. Len(posted) /\ n \in Nat
  BY DEF TypeOK
<1>4. InPosted(i) \subseteq 1 .. Len(posted)
  BY <1>3 DEF InPosted
<1>5. CASE DataOf(r.task, i)
  <2>1. posted' = Append(posted, p)
    BY <1>5 DEF Finish, DataOf
  <2>2. DOMAIN posted' = 1 .. n /\ posted'[n] = p
    BY <1>3, <2>1
  <2>3. p.task = r.task
    OBVIOUS
  <2>4. n \in InPosted(i)' /\ InPosted(i)' \subseteq 1 .. n
    BY <1>3, <1>5, <2>2, <2>3 DEF InPosted
  <2> HIDE DEF n, p
  <2>5. \A k \in InPosted(i)' : IsLast(k, InPosted(i)') => k = n
    BY <1>3, <2>4 DEF IsLast
  <2>6. r \in InRunning(i)
    BY <1>5 DEF InRunning
  <2>7. InQueue(i) = {} => posted'[n].task.arg = asked[i]
    BY <2>2, <2>3, <2>6 DEF YoungestIsLast
  <2> QED
    BY <1>2, <2>4, <2>5, <2>7 DEF YoungestIsLast, Pending
<1>6. CASE ~DataOf(r.task, i)
  <2>1. InRunning(i) = {}
    BY <1>1, <1>6 DEF InRunning
  <2>2. InPosted(i)' = InPosted(i) /\ \A k \in InPosted(i) : posted'[k] = posted[k]
    <3>1. CASE posted' = posted
      BY <3>1 DEF InPosted
    <3>2. CASE posted' = Append(posted, p)
      <4>1. DOMAIN posted' = 1 .. n /\ posted'[n] = p /\ p.task = r.task
        BY <1>3, <3>2
      <4>2. \A k \in 1 .. Len(posted) : posted'[k] = posted[k]
        BY <1>3, <3>2
      <4>3. n \notin InPosted(i)'
        BY <1>6, <4>1 DEF InPosted
      <4>4. 1 .. n = (1 .. Len(posted)) \cup {n}
        BY <1>3
      <4> HIDE DEF n, p
      <4> QED
        BY <1>3, <4>1, <4>2, <4>3, <4>4 DEF InPosted
    <3> QED
      BY <3>1, <3>2 DEF Finish
  <2> QED
    BY <1>2, <2>1, <2>2 DEF YoungestIsLast, Pending, Answered, IsLast
<1> QED
  BY <1>5, <1>6

(* A result that is dropped or applied leaves the head of the posted ones. *)
LEMMA YoungestPosted ==
  ASSUME TypeOK, NEW i \in Inst, YoungestIsLast(i),
         posted # << >>, posted' = Tail(posted),
         NEW q \in Seq(Task), \A k \in DOMAIN q : ~DataOf(q[k], i),
         queue' = queue \o q, running' = running, asked' = asked,
         DataOf(Head(posted).task, i) =>
           \/ ui'[i].error
           \/ ui'[i].result /\ ui'[i].shown.sym = Head(posted).task.arg.head,
         ~DataOf(Head(posted).task, i) =>
           /\ ui'[i].result = ui[i].result
           /\ ui'[i].error = ui[i].error
           /\ ui'[i].shown = ui[i].shown
  PROVE  YoungestIsLast(i)'
<1>1. /\ posted \in Seq(Post)
      /\ DOMAIN posted = 1 .. Len(posted) /\ Len(posted) \in Nat \ {0}
      /\ DOMAIN posted' = 1 .. Len(posted) - 1
      /\ \A k \in DOMAIN posted' : posted'[k] = posted[k + 1]
      /\ Head(posted) = posted[1]
  BY DEF TypeOK
<1>2. /\ InQueue(i)' = InQueue(i)
      /\ \A k \in InQueue(i) : queue'[k] = queue[k]
  BY QueueFrame
<1>3. InRunning(i)' = InRunning(i)
  BY DEF InRunning
<1>4. \A k \in InPosted(i)' : k + 1 \in InPosted(i) /\ posted'[k] = posted[k + 1]
  BY <1>1 DEF InPosted
<1>5. \A k \in InPosted(i) : k = 1 \/ (k > 1 /\ k - 1 \in InPosted(i)')
  BY <1>1 DEF InPosted
<1>6. InPosted(i)' \subseteq Nat \ {0} /\ InPosted(i) \subseteq Nat
  BY <1>1 DEF InPosted
<1>7. \A k \in InPosted(i)' : IsLast(k, InPosted(i)') => IsLast(k + 1, InPosted(i))
  <2> SUFFICES ASSUME NEW k \in InPosted(i)', IsLast(k, InPosted(i)'),
                      NEW j \in InPosted(i)
               PROVE  j <= k + 1
    BY <1>4 DEF IsLast
  <2>1. k \in Nat /\ j \in Nat
    BY <1>6
  <2>2. CASE j = 1
    BY <2>1, <2>2
  <2>3. CASE j > 1 /\ j - 1 \in InPosted(i)'
    <3>1. j - 1 <= k
      BY <2>3 DEF IsLast
    <3> QED
      BY <2>1, <3>1
  <2> QED
    BY <1>5, <2>2, <2>3
<1>8. InQueue(i) = {} /\ InRunning(i) = {} =>
        \A k \in InPosted(i)' :
          IsLast(k, InPosted(i)') => posted'[k].task.arg = asked[i]
  BY <1>4, <1>7 DEF YoungestIsLast
<1>9. ~Pending(i)' => Answered(i, asked[i])'
  <2> SUFFICES ASSUME InQueue(i) = {}, InRunning(i) = {}, InPosted(i)' = {}
               PROVE  Answered(i, asked[i])'
    BY <1>2, <1>3 DEF Pending
  <2>1. CASE DataOf(posted[1].task, i)
    <3>1. 1 \in InPosted(i)
      BY <1>1, <2>1 DEF InPosted
    <3>2. IsLast(1, InPosted(i))
      BY <1>5, <3>1 DEF IsLast
    <3>3. posted[1].task.arg = asked[i]
      BY <3>1, <3>2 DEF YoungestIsLast
    <3>4. asked[i] # Null
      BY <1>1, <3>1, <3>3, NullAssumption DEF Post, Task
    <3> QED
      BY <1>1, <2>1, <3>3, <3>4 DEF Answered
  <2>2. CASE ~DataOf(posted[1].task, i)
    <3>1. InPosted(i) = {}
      BY <1>5, <2>2 DEF InPosted
    <3>2. Answered(i, asked[i])
      BY <3>1 DEF YoungestIsLast, Pending
    <3> QED
      BY <1>1, <2>2, <3>2 DEF Answered
  <2> QED
    BY <2>1, <2>2
<1> QED
  BY <1>2, <1>3, <1>8, <1>9 DEF YoungestIsLast, IsLast

(* A listener that only asks for suggestions, or for nothing. *)
LEMMA NoSearch ==
  ASSUME NEW i \in Inst, NEW j \in Inst, NEW t \in Text
  PROVE  /\ onTextChanged(j, t) \in Seq(Task)
         /\ \A k \in DOMAIN onTextChanged(j, t) :
              ~DataOf(onTextChanged(j, t)[k], i)
<1>1. ~DataOf(ListTask(j, t), i)
  BY DEF ListTask, DataOf
<1> QED
  BY <1>1, ListenerTasks DEF onTextChanged

(* Every step keeps the youngest search of every instance the last one     *)
(* asked there.                                                            *)
LEMMA NextYoungest ==
  ASSUME TypeOK, OwnAnswers, NEW i \in Inst, YoungestIsLast(i), [Next]_vars
  PROVE  YoungestIsLast(i)'
<1> DEFINE none == << >>
<1>1. /\ none \in Seq(Task)
      /\ \A k \in DOMAIN none : ~DataOf(none[k], i)
      /\ queue = queue \o none
      /\ queue \in Seq(Task)
  BY DEF TypeOK
<1> HIDE DEF none
<1>2. CASE /\ queue' = queue /\ running' = running /\ posted' = posted
           /\ asked' = asked /\ ui' = ui
  BY <1>1, <1>2, YoungestFrame
<1>3. ASSUME NEW t \in Typed, TypeText(t) PROVE YoungestIsLast(i)'
  <2>1. t \in Text /\ inst \in Inst
    BY Texts DEF TypeOK
  <2> QED
    BY <1>3, <2>1, NoSearch, YoungestFrame DEF TypeText
<1>4. ASSUME NEW s \in Symbol, ItemClick(s) PROVE YoungestIsLast(i)'
  <2> DEFINE t  == SymbolText(s)
             q1 == onTextChanged(inst, ItemText(s))
             q2 == onTextChanged(inst, t)
             q  == q1 \o q2
  <2>1. /\ t \in Text \ {EmptyText} /\ ItemText(s) \in Text /\ inst \in Inst
        /\ FirstPart(ItemText(s)) = t
    BY Texts DEF TypeOK
  <2>2. /\ q1 \in Seq(Task) /\ q2 \in Seq(Task)
        /\ \A k \in DOMAIN q1 : ~DataOf(q1[k], i)
        /\ \A k \in DOMAIN q2 : ~DataOf(q2[k], i)
    BY <2>1, NoSearch
  <2>3. /\ getStockData(inst, t) = <<DataTask(inst, t)>>
        /\ DataTask(inst, t) \in Task
    BY <2>1 DEF getStockData, DataTask, Task
  <2>4. /\ queue' = queue \o q1 \o q2 \o <<DataTask(inst, t)>>
        /\ asked' = [asked EXCEPT ![inst] = t]
        /\ running' = running /\ posted' = posted /\ ui' = ui
    BY <1>4, <2>1, <2>3 DEF ItemClick
  <2> HIDE DEF t, q1, q2
  <2>5. q \in Seq(Task) /\ \A k \in DOMAIN q : ~DataOf(q[k], i)
    BY <2>2
  <2>6. queue' = queue \o q \o <<DataTask(inst, t)>>
    BY <1>1, <2>2, <2>4
  <2>7. CASE i = inst
    <3>1. asked'[i] = t
      BY <2>4, <2>7 DEF TypeOK
    <3> HIDE DEF q
    <3> QED
      BY <2>1, <2>5, <2>6, <2>7, <3>1, YoungestSearch
  <2>8. CASE i # inst
    <3> DEFINE w == q \o <<DataTask(inst, t)>>
    <3> HIDE DEF q
    <3>1. ~DataOf(DataTask(inst, t), i)
      BY <2>8 DEF DataTask, DataOf
    <3>2. w \in Seq(Task) /\ queue' = queue \o w
      <4> DEFINE d == <<DataTask(inst, t)>>
      <4>1. d \in Seq(Task)
        BY <2>3
      <4>2. queue' = (queue \o q) \o d /\ w = q \o d
        BY <2>6
      <4> HIDE DEF d, w
      <4>3. w \in Seq(Task)
        BY <2>5, <4>1, <4>2
      <4>4. (queue \o q) \o d = queue \o (q \o d)
        BY <1>1, <2>5, <4>1, AppendedTasks
      <4> QED BY <4>2, <4>3, <4>4
    <3>3. \A k \in DOMAIN w : ~DataOf(w[k], i)
      BY <2>3, <2>5, <3>1
    <3>4. asked'[i] = asked[i]
      BY <2>4, <2>8 DEF TypeOK
    <3> HIDE DEF w
    <3> QED
      BY <2>4, <3>2, <3>3, <3>4, YoungestFrame
  <2> QED
    BY <2>7, <2>8
<1>5. ASSUME SearchClick PROVE YoungestIsLast(i)'
  <2>1. text \in Text /\ inst \in Inst /\ asked \in [Inst -> Text \cup {Null}]
    BY DEF TypeOK
  <2>2. CASE text = EmptyText
    BY <1>2, <1>5, <1>1, <2>2, YoungestFrame DEF SearchClick, getStockData, none
  <2>3. CASE text # EmptyText
    <3> DEFINE w == <<DataTask(inst, text)>>
    <3>1. /\ DataTask(inst, text) \in Task
          /\ queue' = queue \o w
          /\ asked' = [asked EXCEPT ![inst] = text]
          /\ running' = running /\ posted' = posted /\ ui' = ui
      BY <1>5, <2>1, <2>3 DEF SearchClick, getStockData, DataTask, Task
    <3>2. CASE i = inst
      <4>1. asked'[i] = text /\ queue' = queue \o none \o w
        BY <1>1, <2>1, <3>1, <3>2
      <4> QED
        BY <1>1, <2>1, <2>3, <3>2, <4>1, YoungestSearch
    <3>3. CASE i # inst
      <4>1. ~DataOf(DataTask(inst, text), i)
        BY <3>3 DEF DataTask, DataOf
      <4>2. w \in Seq(Task) /\ \A k \in DOMAIN w : ~DataOf(w[k], i)
        BY <3>1, <4>1
      <4>3. asked'[i] = asked[i]
        BY <2>1, <3>1, <3>3
      <4> HIDE DEF w
      <4> QED
        BY <3>1, <4>2, <4>3, YoungestFrame
    <3> QED
      BY <3>2, <3>3
  <2> QED
    BY <2>2, <2>3
<1>6. CASE NewsClick \/ BackFromNews \/ UNCHANGED vars
  BY <1>2, <1>6 DEF NewsClick, BackFromNews, vars
<1>7. ASSUME NEW t \in {text, EmptyText}, Recreate(t) PROVE YoungestIsLast(i)'
  <2>1. t \in Text /\ inst + 1 \in Inst
    BY <1>7, Texts, Insts DEF Recreate, TypeOK
  <2> QED
    BY <1>7, <2>1, NoSearch, YoungestFrame DEF Recreate
<1>8. CASE StartTask
  BY <1>8, YoungestStart
<1>9. ASSUME NEW r \in running, NEW q, q.task = r.task,
             running' = (running \ {r}) \cup {q},
             queue' = queue, posted' = posted, asked' = asked, ui' = ui
      PROVE  YoungestIsLast(i)'
  <2>1. running = {r} /\ running' = {q}
    BY <1>9 DEF TypeOK
  <2>2. /\ InQueue(i)' = InQueue(i) /\ InPosted(i)' = InPosted(i)
        /\ InRunning(i)' = {} <=> InRunning(i) = {}
        /\ \A x \in InRunning(i)' : \E y \in InRunning(i) : x.task = y.task
    BY <1>9, <2>1 DEF InQueue, InPosted, InRunning
  <2> QED
    BY <1>9, <2>2 DEF YoungestIsLast, Pending, Answered
<1>10. ASSUME NEW r \in running, Hang(r) PROVE YoungestIsLast(i)'
  <2>1. [r EXCEPT !.pc = "hung"].task = r.task
    BY DEF TypeOK, Run
  <2> QED
    BY <1>9, <1>10, <2>1 DEF Hang
<1>11. ASSUME NEW r \in running, NEW b \in Body, FetchParses(r, b)
       PROVE  YoungestIsLast(i)'
  <2>1. [r EXCEPT !.pc = "extract", !.body = b].task = r.task
    BY <1>11, RunType DEF TypeOK, FetchParses
  <2> QED
    BY <1>9, <1>11, <2>1 DEF FetchParses
<1>12. ASSUME NEW r \in running, NEW ret \in {Null, {}}, FetchFails(r, ret)
       PROVE  YoungestIsLast(i)'
  BY <1>12, YoungestFinish DEF FetchFails
<1>13. ASSUME NEW r \in running, Extract(r) PROVE YoungestIsLast(i)'
  BY <1>13, YoungestFinish DEF Extract
<1>14. ASSUME NEW r \in running, NEW bitmap, LoadImage(r, bitmap)
       PROVE  YoungestIsLast(i)'
  <2>1. /\ ui'[i].result = ui[i].result /\ ui'[i].error = ui[i].error
        /\ ui'[i].shown = ui[i].shown
    BY <1>14 DEF LoadImage, TypeOK, UI
  <2> QED
    BY <1>14, <2>1, YoungestFinish DEF LoadImage
<1>15. CASE PostList
  <2>1. /\ ui'[i].result = ui[i].result /\ ui'[i].error = ui[i].error
        /\ ui'[i].shown = ui[i].shown
    BY <1>15 DEF PostList, TypeOK, UI
  <2>2. ~DataOf(Head(posted).task, i)
    BY <1>15 DEF PostList, DataOf
  <2> QED
    BY <1>1, <1>15, <2>1, <2>2, YoungestPosted DEF PostList
<1>16. CASE PostData
  <2> DEFINE p == Head(posted)
             j == p.task.inst
             q == IF p.ret = Null THEN << >> ELSE <<ImageTask(j, p.ret)>>
  <2>1. /\ p \in Post /\ p = posted[1] /\ 1 \in DOMAIN posted
        /\ p.task.kind = "data"
    BY <1>16 DEF PostData, TypeOK
  <2>2. /\ j \in Inst /\ p.ret \in Map \cup {Null}
        /\ p.ret = Null \/ p.ret.sym = p.task.arg.head
    <3>1. p.task \in Task /\ p.ret \in Map \cup {Null}
      BY <2>1 DEF Post
    <3> QED
      BY <2>1, <3>1 DEF Task, OwnAnswers
  <2>3. /\ ui' = [ui EXCEPT ![j] = setDatatoUI(ui[j], p.ret)]
        /\ queue' = IF p.ret = Null THEN queue
                    ELSE Append(queue, ImageTask(j, p.ret))
        /\ posted # << >> /\ posted' = Tail(posted)
        /\ running' = running /\ asked' = asked
    BY <1>16 DEF PostData
  <2>4. p.ret # Null => ImageTask(j, p.ret) \in Task
                        /\ ~DataOf(ImageTask(j, p.ret), i)
    BY <2>2, Texts DEF ImageTask, Task, Map, DataOf
  <2>5. ui \in [Inst -> UI]
    BY DEF TypeOK
  <2> HIDE DEF p, j
  <2>6. /\ q \in Seq(Task) /\ queue' = queue \o q
        /\ \A k \in DOMAIN q : ~DataOf(q[k], i)
    BY <1>1, <2>3, <2>4
  <2>7. DataOf(p.task, i) =>
          \/ ui'[i].error
          \/ ui'[i].result /\ ui'[i].shown.sym = p.task.arg.head
    <3>1. \A u \in UI : \/ setDatatoUI(u, p.ret).error
                        \/ /\ setDatatoUI(u, p.ret).result
                           /\ setDatatoUI(u, p.ret).shown = p.ret
                           /\ p.ret # Null
      BY <2>2 DEF setDatatoUI, UI
    <3>2. DataOf(p.task, i) => i = j
      BY DEF DataOf, j
    <3>3. ui'[j] = setDatatoUI(ui[j], p.ret)
      BY <2>2, <2>3, <2>5
    <3> QED
      BY <2>2, <2>5, <3>1, <3>2, <3>3
  <2>8. ~DataOf(p.task, i) => ui'[i] = ui[i]
    <3>1. ~DataOf(p.task, i) => i # j
      BY <2>1 DEF DataOf, j
    <3> QED
      BY <2>2, <2>3, <2>5, <3>1
  <2> HIDE DEF q
  <2> QED
    BY <2>3, <2>6, <2>7, <2>8, YoungestPosted DEF p
<1> QED
  BY <1>3, <1>4, <1>5, <1>6, <1>7, <1>8, <1>10, <1>11, <1>12, <1>13, <1>14,
     <1>15, <1>16
  DEF Next, User, Background, MainLooper

(* A posted result answers the text its task was created with. *)
Own(p) == p.task.kind = "data" => p.ret = Null \/ p.ret.sym = p.task.arg.head

(* What the running task received answers its own request. *)
RunningOwn == \A r \in running : r.pc = "extract" => r.body \in Answers(r.task)

LEMMA OwnAnswersDef ==
  OwnAnswers <=> RunningOwn /\ \A k \in DOMAIN posted : Own(posted[k])
BY DEF OwnAnswers, RunningOwn, Own

(* A task that finishes with a result of its own adds one to the posted    *)
(* results and leaves nothing running.                                     *)
LEMMA OwnFinish ==
  ASSUME TypeOK, OwnAnswers, NEW r \in running, NEW ret, Finish(r, ret),
         r.task.kind = "data" => ret = Null \/ ret.sym = r.task.arg.head
  PROVE  OwnAnswers'
<1> DEFINE p == [task |-> r.task, ret |-> ret]
<1>1. running' = {}
  BY DEF TypeOK, Finish
<1>2. Own(p)
  BY DEF Own
<1>3. posted \in Seq(Post) /\ \A k \in DOMAIN posted : Own(posted[k])
  BY OwnAnswersDef DEF TypeOK
<1> HIDE DEF p
<1>4. posted' = posted \/ posted' = Append(posted, p)
  BY DEF Finish, p
<1>5. \A k \in DOMAIN posted' : Own(posted'[k])
  BY <1>2, <1>3, <1>4
<1> QED
  BY <1>1, <1>5 DEF OwnAnswers, Own

(* Every step keeps each search together with its own answer.  The static  *)
(* field is harmless because its reader is its last writer (JObjectOwn).   *)
LEMMA NextOwnAnswers ==
  TypeOK /\ JObjectOwn /\ OwnAnswers /\ [Next]_vars => OwnAnswers'
<1> SUFFICES ASSUME TypeOK, JObjectOwn, OwnAnswers, [Next]_vars PROVE OwnAnswers'
  OBVIOUS
<1>1. CASE running' = running /\ posted' = posted
  BY <1>1 DEF OwnAnswers
<1>2. CASE StartTask
  BY <1>2 DEF StartTask, OwnAnswers
<1>3. ASSUME NEW r \in running, Hang(r) PROVE OwnAnswers'
  <2>1. [r EXCEPT !.pc = "hung"].pc = "hung"
    BY DEF TypeOK, Run
  <2> QED
    BY <1>3, <2>1 DEF Hang, OwnAnswers
<1>4. ASSUME NEW r \in running, NEW ret \in {Null, {}}, FetchFails(r, ret)
      PROVE  OwnAnswers'
  BY <1>4, OwnFinish DEF FetchFails
<1>5. ASSUME NEW r \in running, NEW b \in Body, FetchParses(r, b)
      PROVE  OwnAnswers'
  <2> DEFINE q == [r EXCEPT !.pc = "extract", !.body = b]
  <2>1. running' = {q} /\ posted' = posted /\ b \in Answers(r.task)
    BY <1>5 DEF FetchParses, TypeOK
  <2>2. q.task = r.task /\ q.body = b
    BY <1>5, RunType DEF FetchParses, TypeOK
  <2> QED
    BY <2>1, <2>2 DEF OwnAnswers
<1>6. ASSUME NEW r \in running, Extract(r) PROVE OwnAnswers'
  <2> DEFINE ret == Extracted(r.task.kind, jObject)
  <2>1. jObject \in Answers(r.task)
    BY <1>6 DEF Extract, JObjectOwn, OwnAnswers
  <2>2. r.task \in Task
    BY DEF TypeOK, Run
  <2>3. r.task.kind = "data" => ret = Null \/ ret.sym = r.task.arg.head
    BY <2>1, <2>2, ExtractedOwn
  <2> HIDE DEF ret
  <2>4. Finish(r, ret)
    BY <1>6 DEF Extract, ret
  <2> QED
    BY <2>3, <2>4, OwnFinish
<1>7. ASSUME NEW r \in running, NEW bitmap, LoadImage(r, bitmap)
      PROVE  OwnAnswers'
  BY <1>7, OwnFinish DEF LoadImage
<1>8. CASE MainLooper
  <2>1. posted \in Seq(Post) /\ \A k \in DOMAIN posted : Own(posted[k])
    BY OwnAnswersDef DEF TypeOK
  <2>2. running' = running /\ posted # << >> /\ posted' = Tail(posted)
    BY <1>8 DEF MainLooper, PostList, PostData
  <2>3. \A k \in DOMAIN posted' : Own(posted'[k])
    BY <2>1, <2>2
  <2> QED
    BY <2>2, <2>3 DEF OwnAnswers, Own
<1>9. CASE User \/ UNCHANGED vars
  BY <1>1, <1>9 DEF User, TypeText, ItemClick, SearchClick, NewsClick,
     BackFromNews, Recreate, vars
<1> QED
  BY <1>2, <1>3, <1>4, <1>5, <1>6, <1>7, <1>8, <1>9 DEF Next, Background

(* No search overtakes another one of its instance, and each keeps its own *)
(* answer, for any number of symbols, instances and events.                *)
THEOREM SearchesKeepOrder == Spec => []NoOvertaking
<1>1. Init => NoOvertaking
  BY DEF Init, NoOvertaking, OwnAnswers, YoungestIsLast, InQueue, InRunning,
     InPosted, Pending, Answered, onCreate
<1>2. TypeOK /\ JObjectOwn /\ NoOvertaking /\ [Next]_vars => NoOvertaking'
  <2> SUFFICES ASSUME TypeOK, JObjectOwn, NoOvertaking, [Next]_vars
               PROVE  NoOvertaking'
    OBVIOUS
  <2>1. OwnAnswers'
    BY NextOwnAnswers DEF NoOvertaking
  <2>2. ASSUME NEW i \in Inst PROVE YoungestIsLast(i)'
    BY NextYoungest DEF NoOvertaking
  <2> QED
    BY <2>1, <2>2 DEF NoOvertaking
<1> QED
  BY <1>1, <1>2, TypeCorrect, PTL DEF Spec

(* When no search of an instance is under way, its screen answers the last *)
(* search made there and nothing else.                                     *)
THEOREM LastSearchIsAnswered == Spec => []LatestWins
<1>1. NoOvertaking => LatestWins
  BY DEF NoOvertaking, YoungestIsLast, LatestWins
<1> QED
  BY <1>1, SearchesKeepOrder, PTL

-----------------------------------------------------------------------------
(* The way of a chart through the executor. *)

ImageOf(t, i) == t.kind = "image" /\ t.inst = i
Charts(i) == {k \in DOMAIN queue : ImageOf(queue[k], i)}
ChartTask(i, s) == [kind |-> "image", inst |-> i, arg |-> SymbolText(s)]

(* The chart of s is the youngest one asked for by instance i: it waits    *)
(* last of them, or is being fetched with none waiting behind it, or has   *)
(* been stored or lost with none left to overwrite it.                     *)
Waits(i, s) ==
  \E k \in Charts(i) : IsLast(k, Charts(i)) /\ queue[k] = ChartTask(i, s)
Loads(i, s) == Charts(i) = {} /\ \E r \in running : r.task = ChartTask(i, s)
Settled(i, s) ==
  /\ Charts(i) = {}
  /\ \A r \in running : ~ImageOf(r.task, i)
  /\ <<i, s>> \in lost \/ ui[i].chart \in {s, Null}

YoungestChart(i) ==
  ui[i].shown # Null =>
    \/ Waits(i, ui[i].shown.sym)
    \/ Loads(i, ui[i].shown.sym)
    \/ Settled(i, ui[i].shown.sym)

(* Tasks appended to the queue that are no charts of i leave the queued    *)
(* charts of i where they are.                                             *)
LEMMA ChartsFrame ==
  ASSUME TypeOK, NEW i \in Inst, NEW q \in Seq(Task),
         \A k \in DOMAIN q : ~ImageOf(q[k], i),
         queue' = queue \o q
  PROVE  /\ Charts(i)' = Charts(i)
         /\ \A k \in Charts(i) : queue'[k] = queue[k]
<1>1. /\ queue \in Seq(Task)
      /\ DOMAIN queue = 1 .. Len(queue)
      /\ DOMAIN queue' = 1 .. Len(queue) + Len(q)
      /\ DOMAIN q = 1 .. Len(q)
      /\ Len(queue) \in Nat /\ Len(q) \in Nat
  BY DEF TypeOK
<1>2. \A k \in 1 .. Len(queue) : queue'[k] = queue[k]
  BY <1>1
<1>3. \A k \in DOMAIN queue' :
        k \notin 1 .. Len(queue) =>
          k - Len(queue) \in DOMAIN q /\ queue'[k] = q[k - Len(queue)]
  BY <1>1
<1> QED
  BY <1>1, <1>2, <1>3 DEF Charts

(* A step that asks for no chart of i and touches neither its views nor    *)
(* the running task.                                                       *)
LEMMA ChartFrame ==
  ASSUME TypeOK, NEW i \in Inst, YoungestChart(i), NEW q \in Seq(Task),
         \A k \in DOMAIN q : ~ImageOf(q[k], i),
         queue' = queue \o q, running' = running, lost' = lost,
         ui'[i].shown = ui[i].shown, ui'[i].chart = ui[i].chart
  PROVE  YoungestChart(i)'
<1>1. /\ Charts(i)' = Charts(i)
      /\ \A k \in Charts(i) : queue'[k] = queue[k]
  BY ChartsFrame
<1> QED
  BY <1>1 DEF YoungestChart, Waits, Loads, Settled, IsLast

(* A quote that is shown asks for its chart behind all others. *)
LEMMA ChartAsked ==
  ASSUME TypeOK, NEW i \in Inst, NEW s \in Symbol,
         queue' = Append(queue, ChartTask(i, s)),
         ui'[i].shown.sym = s
  PROVE  YoungestChart(i)'
<1> DEFINE n == Len(queue) + 1
<1>1. queue \in Seq(Task) /\ ImageOf(ChartTask(i, s), i)
  BY DEF TypeOK, ChartTask, ImageOf
<1>2. /\ DOMAIN queue' = 1 .. n /\ n \in Nat /\ n \in 1 .. n
      /\ queue'[n] = ChartTask(i, s)
  BY <1>1
<1> HIDE DEF n
<1>3. n \in Charts(i)' /\ Charts(i)' \subseteq 1 .. n
  BY <1>1, <1>2 DEF Charts
<1>4. IsLast(n, Charts(i)')
  BY <1>2, <1>3 DEF IsLast
<1> QED
  BY <1>2, <1>3, <1>4 DEF YoungestChart, Waits

(* The serial executor moves the head of the queue. *)
LEMMA ChartStart ==
  ASSUME TypeOK, NEW i \in Inst, YoungestChart(i), StartTask
  PROVE  YoungestChart(i)'
<1> DEFINE s == ui[i].shown.sym
<1>1. /\ queue \in Seq(Task) /\ queue # << >>
      /\ DOMAIN queue = 1 .. Len(queue) /\ Len(queue) \in Nat \ {0}
      /\ queue' = Tail(queue)
      /\ DOMAIN queue' = 1 .. Len(queue) - 1
      /\ \A k \in DOMAIN queue' : queue'[k] = queue[k + 1]
  BY DEF TypeOK, StartTask
<1>2. \A k \in Charts(i)' : k + 1 \in Charts(i) /\ queue'[k] = queue[k + 1]
  BY <1>1 DEF Charts
<1>3. \A k \in Charts(i) :
        k = 1 \/ (k > 1 /\ k - 1 \in Charts(i)' /\ queue'[k - 1] = queue[k])
  BY <1>1 DEF Charts
<1>4. Charts(i)' \subseteq Nat \ {0} /\ Charts(i) \subseteq Nat
  BY <1>1 DEF Charts
<1>5. /\ ui' = ui /\ lost' = lost /\ running = {}
      /\ running' = {[task |-> queue[1], pc |-> "fetch", body |-> Null]}
  BY <1>1 DEF StartTask
<1>6. CASE Waits(i, s)
  <2>1. PICK k \in Charts(i) : IsLast(k, Charts(i)) /\ queue[k] = ChartTask(i, s)
    BY <1>6 DEF Waits
  <2>2. CASE k = 1
    <3>1. \A j \in Charts(i)' : FALSE
      BY <1>2, <1>4, <2>1, <2>2 DEF IsLast
    <3>2. \E r \in running' : r.task = ChartTask(i, s)
      BY <1>5, <2>1, <2>2
    <3> QED
      BY <1>5, <3>1, <3>2 DEF YoungestChart, Loads
  <2>3. CASE k > 1
    <3>1. k - 1 \in Charts(i)' /\ queue'[k - 1] = ChartTask(i, s)
      BY <1>3, <2>1, <2>3
    <3>2. \A j \in Charts(i)' : j <= k - 1
      BY <1>2, <1>4, <2>1 DEF IsLast
    <3> QED
      BY <1>5, <3>1, <3>2 DEF YoungestChart, Waits, IsLast
  <2> QED
    BY <1>3, <2>2, <2>3
<1>7. CASE Settled(i, s)
  <2>1. Charts(i)' = {}
    BY <1>2, <1>7 DEF Settled
  <2>2. ~ImageOf(queue[1], i)
    BY <1>1, <1>7 DEF Settled, Charts
  <2>3. \A r \in running' : ~ImageOf(r.task, i)
    BY <1>5, <2>2
  <2> QED
    BY <1>5, <1>7, <2>1, <2>3 DEF YoungestChart, Settled
<1>8. ~Loads(i, s)
  BY <1>5 DEF Loads
<1> QED
  BY <1>5, <1>6, <1>7, <1>8 DEF YoungestChart

(* A running task that is not a chart of i gives way. *)
LEMMA ChartOther ==
  ASSUME TypeOK, NEW i \in Inst, YoungestChart(i),
         NEW r \in running, running' = {}, queue' = queue,
         ~ImageOf(r.task, i),
         \A s : <<i, s>> \in lost => <<i, s>> \in lost',
         ui'[i].shown = ui[i].shown, ui'[i].chart = ui[i].chart
  PROVE  YoungestChart(i)'
<1>1. running = {r}
  BY DEF TypeOK
<1>2. Charts(i)' = Charts(i)
  BY DEF Charts
<1>3. \A s : ImageOf(ChartTask(i, s), i)
  BY DEF ImageOf, ChartTask
<1>4. \A s : ~Loads(i, s)
  BY <1>1, <1>3 DEF Loads
<1> QED
  BY <1>2, <1>4 DEF YoungestChart, Waits, Settled, IsLast

(* A chart of i has been loaded, or its fetch has failed. *)
LEMMA ChartDone ==
  ASSUME TypeOK, NEW i \in Inst, YoungestChart(i),
         NEW r \in running, running' = {}, queue' = queue,
         ImageOf(r.task, i),
         <<i, r.task.arg.head>> \in lost' \/ ui'[i].chart \in {r.task.arg.head, Null},
         ui'[i].shown = ui[i].shown
  PROVE  YoungestChart(i)'
<1> DEFINE s == ui[i].shown.sym
<1>1. running = {r}
  BY DEF TypeOK
<1>2. Charts(i)' = Charts(i)
  BY DEF Charts
<1>3. ~Settled(i, s)
  BY DEF Settled
<1>4. CASE Waits(i, s)
  BY <1>2, <1>4 DEF YoungestChart, Waits, IsLast
<1>5. CASE Loads(i, s)
  <2>1. r.task = ChartTask(i, s)
    BY <1>1, <1>5 DEF Loads
  <2>2. r.task.arg.head = s
    BY <2>1 DEF ChartTask, SymbolText
  <2> QED
    BY <1>2, <1>5, <2>2 DEF YoungestChart, Loads, Settled
<1> QED
  BY <1>3, <1>4, <1>5 DEF YoungestChart

(* Every step keeps the chart of the shown quote the youngest one. *)
LEMMA NextChart ==
  ASSUME TypeOK, NEW i \in Inst, YoungestChart(i), [Next]_vars
  PROVE  YoungestChart(i)'
<1> DEFINE none == << >>
<1>1. /\ none \in Seq(Task)
      /\ \A k \in DOMAIN none : ~ImageOf(none[k], i)
      /\ queue = queue \o none
      /\ queue \in Seq(Task)
  BY DEF TypeOK
<1> HIDE DEF none
<1>2. CASE queue' = queue /\ running' = running /\ lost' = lost /\ ui' = ui
  BY <1>1, <1>2, ChartFrame
<1>3. ASSUME NEW j \in Inst, NEW t \in Text
      PROVE  /\ onTextChanged(j, t) \in Seq(Task)
             /\ \A k \in DOMAIN onTextChanged(j, t) :
                  ~ImageOf(onTextChanged(j, t)[k], i)
             /\ getStockData(j, t) \in Seq(Task)
             /\ \A k \in DOMAIN getStockData(j, t) :
                  ~ImageOf(getStockData(j, t)[k], i)
  <2>1. ~ImageOf(ListTask(j, t), i) /\ ~ImageOf(DataTask(j, t), i)
    BY DEF ListTask, DataTask, ImageOf
  <2> QED
    BY <2>1, ListenerTasks DEF onTextChanged, getStockData
<1>4. ASSUME NEW t \in Typed, TypeText(t) PROVE YoungestChart(i)'
  <2>1. t \in Text /\ inst \in Inst
    BY Texts DEF TypeOK
  <2> QED
    BY <1>3, <1>4, <2>1, ChartFrame DEF TypeText
<1>5. ASSUME NEW s \in Symbol, ItemClick(s) PROVE YoungestChart(i)'
  <2> DEFINE q1 == onTextChanged(inst, ItemText(s))
             q2 == onTextChanged(inst, SymbolText(s))
             q3 == getStockData(inst, SymbolText(s))
             q  == q1 \o q2 \o q3
  <2>1. /\ SymbolText(s) \in Text /\ ItemText(s) \in Text /\ inst \in Inst
        /\ FirstPart(ItemText(s)) = SymbolText(s)
    BY Texts DEF TypeOK
  <2>2. /\ q1 \in Seq(Task) /\ q2 \in Seq(Task) /\ q3 \in Seq(Task)
        /\ \A k \in DOMAIN q1 : ~ImageOf(q1[k], i)
        /\ \A k \in DOMAIN q2 : ~ImageOf(q2[k], i)
        /\ \A k \in DOMAIN q3 : ~ImageOf(q3[k], i)
    BY <1>3, <2>1
  <2>3. /\ queue' = queue \o q1 \o q2 \o q3
        /\ running' = running /\ lost' = lost /\ ui' = ui
    BY <1>5, <2>1 DEF ItemClick
  <2> HIDE DEF q1, q2, q3
  <2>4. q1 \o q2 \in Seq(Task) /\ \A k \in DOMAIN (q1 \o q2) : ~ImageOf((q1 \o q2)[k], i)
    BY <2>2
  <2>5. q \in Seq(Task) /\ \A k \in DOMAIN q : ~ImageOf(q[k], i)
    <3> DEFINE w == q1 \o q2
    <3>1. w \in Seq(Task) /\ (\A k \in DOMAIN w : ~ImageOf(w[k], i)) /\ q = w \o q3
      BY <2>4
    <3> HIDE DEF w, q
    <3> QED
      BY <2>2, <3>1
  <2>6. queue' = queue \o q
    <3>1. queue \o q1 \o q2 = queue \o (q1 \o q2)
      BY <1>1, <2>2, AppendedTasks
    <3> DEFINE w == q1 \o q2
    <3>2. queue' = (queue \o w) \o q3 /\ q = w \o q3 /\ w \in Seq(Task)
      BY <2>3, <2>4, <3>1
    <3> HIDE DEF w, q
    <3>3. (queue \o w) \o q3 = queue \o (w \o q3)
      <4>1. queue \in Seq(Task) /\ w \in Seq(Task) /\ q3 \in Seq(Task)
        BY <1>1, <2>2, <3>2
      <4> QED BY <4>1, AppendedTasks
    <3> QED
      BY <3>2, <3>3
  <2> HIDE DEF q
  <2> QED
    BY <2>3, <2>5, <2>6, ChartFrame
<1>6. ASSUME SearchClick PROVE YoungestChart(i)'
  <2>1. text \in Text /\ inst \in Inst
    BY DEF TypeOK
  <2> QED
    BY <1>3, <1>6, <2>1, ChartFrame DEF SearchClick
<1>7. CASE NewsClick \/ BackFromNews \/ UNCHANGED vars
  BY <1>2, <1>7 DEF NewsClick, BackFromNews, vars
<1>8. ASSUME NEW t \in {text, EmptyText}, Recreate(t) PROVE YoungestChart(i)'
  <2>1. t \in Text /\ inst + 1 \in Inst
    BY <1>8, Texts, Insts DEF Recreate, TypeOK
  <2> QED
    BY <1>3, <1>8, <2>1, ChartFrame DEF Recreate
<1>9. CASE StartTask
  BY <1>9, ChartStart
<1>10. ASSUME NEW r \in running, NEW q, q.task = r.task,
              running' = (running \ {r}) \cup {q},
              queue' = queue, lost' = lost, ui' = ui
       PROVE  YoungestChart(i)'
  <2>1. running = {r} /\ running' = {q}
    BY <1>10 DEF TypeOK
  <2>2. Charts(i)' = Charts(i)
    BY <1>10 DEF Charts
  <2> QED
    BY <1>10, <2>1, <2>2 DEF YoungestChart, Waits, Loads, Settled, IsLast
<1>11. ASSUME NEW r \in running, Hang(r) PROVE YoungestChart(i)'
  <2>1. [r EXCEPT !.pc = "hung"].task = r.task
    BY DEF TypeOK, Run
  <2> QED
    BY <1>10, <1>11, <2>1 DEF Hang
<1>12. ASSUME NEW r \in running, NEW b \in Body, FetchParses(r, b)
       PROVE  YoungestChart(i)'
  <2>1. [r EXCEPT !.pc = "extract", !.body = b].task = r.task
    BY <1>12, RunType DEF TypeOK, FetchParses
  <2> QED
    BY <1>10, <1>12, <2>1 DEF FetchParses
<1>13. ASSUME NEW r \in running, NEW ret, Finish(r, ret) PROVE running' = {}
  BY <1>13 DEF TypeOK, Finish
<1>14. ASSUME NEW r \in running, NEW ret \in {Null, {}}, FetchFails(r, ret)
       PROVE  YoungestChart(i)'
  <2>1. /\ running' = {} /\ queue' = queue /\ ui' = ui
        /\ \A s : <<i, s>> \in lost => <<i, s>> \in lost'
    BY <1>13, <1>14 DEF FetchFails
  <2>2. CASE ImageOf(r.task, i)
    <3>1. <<i, r.task.arg.head>> \in lost'
      BY <1>14, <2>2 DEF FetchFails, ImageOf
    <3> QED
      BY <2>1, <2>2, <3>1, ChartDone
  <2>3. CASE ~ImageOf(r.task, i)
    BY <2>1, <2>3, ChartOther
  <2> QED
    BY <2>2, <2>3
<1>15. ASSUME NEW r \in running, Extract(r) PROVE YoungestChart(i)'
  <2>1. ~ImageOf(r.task, i)
    BY <1>15 DEF Extract, TypeOK, Run, ImageOf
  <2>2. running' = {} /\ queue' = queue /\ ui' = ui /\ lost' = lost
    BY <1>13, <1>15 DEF Extract
  <2> QED
    BY <2>1, <2>2, ChartOther
<1>16. ASSUME NEW r \in running, NEW bitmap, LoadImage(r, bitmap)
       PROVE  YoungestChart(i)'
  <2>1. /\ running' = {} /\ queue' = queue /\ r.task.kind = "image"
        /\ bitmap \in {r.task.arg.head, Null}
        /\ ui' = [ui EXCEPT ![r.task.inst].chart = bitmap]
        /\ lost' = lost \ {<<r.task.inst, r.task.arg.head>>}
    BY <1>13, <1>16 DEF LoadImage
  <2>2. ui \in [Inst -> UI]
    BY DEF TypeOK
  <2>3. ui'[i].shown = ui[i].shown
    BY <2>1, <2>2 DEF UI
  <2>4. CASE r.task.inst = i
    <3>1. ui'[i].chart = bitmap
      BY <2>1, <2>2, <2>4 DEF UI
    <3> QED
      BY <2>1, <2>3, <2>4, <3>1, ChartDone DEF ImageOf
  <2>5. CASE r.task.inst # i
    <3>1. ui'[i].chart = ui[i].chart
      BY <2>1, <2>2, <2>5
    <3>2. \A s : <<i, s>> \in lost => <<i, s>> \in lost'
      BY <2>1, <2>5
    <3> QED
      BY <2>1, <2>3, <2>5, <3>1, <3>2, ChartOther DEF ImageOf
  <2> QED
    BY <2>4, <2>5
<1>17. CASE PostList
  <2>1. ui'[i].shown = ui[i].shown /\ ui'[i].chart = ui[i].chart
    BY <1>17 DEF PostList, TypeOK, UI
  <2> QED
    BY <1>1, <1>17, <2>1, ChartFrame DEF PostList
<1>18. CASE PostData
  <2> DEFINE p == Head(posted)
             j == p.task.inst
  <2>1. /\ p \in Post /\ p.task.kind = "data"
    BY <1>18 DEF PostData, TypeOK
  <2>2. j \in Inst /\ p.ret \in Map \cup {Null}
    <3>1. p.task \in Task /\ p.ret \in Map \cup {Null}
      BY <2>1 DEF Post
    <3> QED
      BY <3>1 DEF Task
  <2>3. /\ ui' = [ui EXCEPT ![j] = setDatatoUI(ui[j], p.ret)]
        /\ queue' = IF p.ret = Null THEN queue
                    ELSE Append(queue, ImageTask(j, p.ret))
        /\ running' = running /\ lost' = lost
    BY <1>18 DEF PostData
  <2>4. ui \in [Inst -> UI]
    BY DEF TypeOK
  <2>5. p.ret # Null => /\ ImageTask(j, p.ret) = ChartTask(j, p.ret.sym)
                        /\ ImageTask(j, p.ret) \in Task
                        /\ p.ret.sym \in Symbol
    BY <2>2, Texts DEF ImageTask, ChartTask, Task, Map
  <2> HIDE DEF p, j
  <2>6. CASE p.ret = Null
    <3>1. ui'[i].shown = ui[i].shown /\ ui'[i].chart = ui[i].chart
      BY <2>2, <2>3, <2>4, <2>6 DEF setDatatoUI, UI
    <3> QED
      BY <1>1, <2>3, <2>6, <3>1, ChartFrame
  <2>7. CASE p.ret # Null /\ i = j
    <3>1. ui'[i].shown = p.ret
      BY <2>2, <2>3, <2>4, <2>7 DEF setDatatoUI, UI
    <3> QED
      BY <2>3, <2>5, <2>7, <3>1, ChartAsked
  <2>8. CASE p.ret # Null /\ i # j
    <3> DEFINE q == <<ImageTask(j, p.ret)>>
    <3>1. ui'[i] = ui[i]
      BY <2>2, <2>3, <2>4, <2>8
    <3>2. ~ImageOf(ImageTask(j, p.ret), i)
      BY <2>8 DEF ImageTask, ImageOf
    <3>3. q \in Seq(Task) /\ \A k \in DOMAIN q : ~ImageOf(q[k], i)
      <4> DEFINE t == ImageTask(j, p.ret)
      <4>1. t \in Task /\ ~ImageOf(t, i) /\ q = <<t>>
        BY <2>5, <2>8, <3>2
      <4> HIDE DEF t
      <4> QED
        BY <4>1
    <3>4. queue' = queue \o q
      BY <1>1, <2>3, <2>5, <2>8
    <3> HIDE DEF q
    <3> QED
      BY <2>3, <3>1, <3>3, <3>4, ChartFrame
  <2> QED
    BY <2>6, <2>7, <2>8
<1> QED
  BY <1>4, <1>5, <1>6, <1>7, <1>8, <1>9, <1>11, <1>12, <1>14, <1>15, <1>16,
     <1>17, <1>18
  DEF Next, User, Background, MainLooper

(* The chart next to a quote is the quote's own or none, unless its own is *)
(* still to come or could not be fetched, although setImage runs on the    *)
(* background thread and without asking which quote is shown by then.      *)
THEOREM ChartsSettle == Spec => []ChartSettles
<1> DEFINE Young == \A i \in Inst : YoungestChart(i)
<1>1. Init => Young
  BY DEF Init, YoungestChart, onCreate
<1>2. TypeOK /\ Young /\ [Next]_vars => Young'
  BY NextChart
<1>3. Young => ChartSettles
  <2> SUFFICES ASSUME Young, NEW i \in Inst, ui[i].shown # Null
               PROVE  LET s == ui[i].shown.sym
                      IN  \/ ChartPending(i, s)
                          \/ <<i, s>> \in lost
                          \/ ui[i].chart \in {s, Null}
    BY DEF ChartSettles
  <2> QED
    BY DEF YoungestChart, Waits, Loads, Settled, ChartPending, ChartTask, Charts
<1> HIDE DEF Young
<1> QED
  BY <1>1, <1>2, <1>3, TypeCorrect, PTL DEF Spec

-----------------------------------------------------------------------------
(* The searches in a sequence of tasks. *)

(* A nonempty set of numbers has a least one. *)
LEMMA LeastNat ==
  ASSUME NEW T \in SUBSET Nat, T # {}
  PROVE  \E m \in T : \A k \in T : m <= k
<1> DEFINE W == {1 .. k : k \in T}
<1>1. W \subseteq FiniteSubsetsOf(Nat)
  <2>1. \A k \in T : IsFiniteSet(1 .. k) /\ 1 .. k \in SUBSET Nat
    BY FS_Interval
  <2> QED BY <2>1 DEF FiniteSubsetsOf
<1>2. IsWellFoundedOn(StrictSubsetOrdering(Nat), FiniteSubsetsOf(Nat))
  BY FS_StrictSubsetOrderingWellFounded
<1>3. PICK X \in W : \A Y \in W : <<Y, X>> \notin StrictSubsetOrdering(Nat)
  <2>1. W # {}
    OBVIOUS
  <2> HIDE DEF W
  <2> QED BY <1>1, <1>2, <2>1, WFMin
<1>4. PICK m \in T : X = 1 .. m
  BY <1>3
<1>5. ASSUME NEW k \in T, k < m PROVE FALSE
  <2>1. 1 .. k \in W
    OBVIOUS
  <2>2. 1 .. k \subseteq 1 .. m /\ 1 .. k # 1 .. m
    <3>1. m \in 1 .. m /\ m \notin 1 .. k
      BY <1>5
    <3> QED BY <1>5, <3>1
  <2>3. <<1 .. k, 1 .. m>> \in StrictSubsetOrdering(Nat)
    BY <1>1, <1>4, <2>1, <2>2 DEF StrictSubsetOrdering, FiniteSubsetsOf
  <2> QED BY <1>3, <1>4, <2>1, <2>3
<1> QED BY <1>5

(* The searches before task t and, if it is one, t. *)
With(h, t, i) == IF DataOf(t, i) THEN Append(h, t.arg.head) ELSE h

(* The recursive function exists. *)
LEMMA HeadsDef ==
  ASSUME NEW s \in Seq(Task), NEW i
  PROVE  /\ Heads(s, i)[0] = << >>
         /\ \A n \in 1 .. Len(s) : Heads(s, i)[n] = With(Heads(s, i)[n - 1], s[n], i)
<1> DEFINE N == Len(s)
           H(f, k) == IF k = 0 THEN << >>
                      ELSE IF DataOf(s[k], i) THEN Append(f[k - 1], s[k].arg.head)
                           ELSE f[k - 1]
           Upto(f, m) == f = [k \in 0 .. m |-> H(f, k)]
           Bad == {m \in Nat : ~\E f : Upto(f, m)}
<1>1. N \in Nat
  OBVIOUS
<1>2. Heads(s, i) = CHOOSE f : Upto(f, N)
  BY Zenon DEF Heads
<1> HIDE DEF N
<1>3. Bad = {}
  <2> SUFFICES ASSUME Bad # {} PROVE FALSE
    OBVIOUS
  <2>1. Bad \in SUBSET Nat
    OBVIOUS
  <2>2. PICK m \in Bad : \A k \in Bad : m <= k
    <3> HIDE DEF Bad
    <3> QED BY <2>1, LeastNat
  <2>3. m \in Nat /\ ~\E f : Upto(f, m)
    BY <2>2
  <2>4. CASE m = 0
    <3> DEFINE f == [k \in 0 .. 0 |-> << >>]
    <3>1. f = [k \in 0 .. 0 |-> H(f, k)]
      OBVIOUS
    <3> QED BY <2>3, <2>4, <3>1
  <2>5. CASE m # 0
    <3>1. m - 1 \in Nat /\ m - 1 \notin Bad
      <4> HIDE DEF Bad
      <4> QED BY <2>2, <2>3, <2>5
    <3>2. PICK f : Upto(f, m - 1)
      BY <3>1
    <3> DEFINE g == [k \in 0 .. m |-> IF k = m THEN With(f[m - 1], s[m], i) ELSE f[k]]
    <3>3. ASSUME NEW k \in 0 .. m PROVE g[k] = H(g, k)
      <4>1. CASE k = m
        <5>1. m - 1 \in 0 .. m /\ m - 1 # m
          BY <2>3, <2>5
        <5>2. g[m - 1] = f[m - 1] /\ g[m] = With(f[m - 1], s[m], i)
          BY <2>3, <5>1
        <5> QED BY <2>5, <4>1, <5>2 DEF With
      <4>2. CASE k # m
        <5>1. k \in 0 .. m - 1
          BY <2>3, <4>2
        <5>2. f[k] = H(f, k)
          BY <3>2, <5>1
        <5>3. CASE k = 0
          BY <4>2, <5>2, <5>3
        <5>4. CASE k # 0
          <6>1. k - 1 \in 0 .. m /\ k - 1 # m
            BY <2>3, <5>1, <5>4
          <6>2. g[k - 1] = f[k - 1]
            BY <6>1
          <6> QED BY <4>2, <5>2, <5>4, <6>2
        <5> QED BY <5>3, <5>4
      <4> QED BY <4>1, <4>2
    <3>4. DOMAIN g = 0 .. m /\ g = [k \in 0 .. m |-> g[k]]
      OBVIOUS
    <3> HIDE DEF g, H
    <3>5. g = [k \in 0 .. m |-> H(g, k)]
      BY <3>3, <3>4
    <3> QED BY <2>3, <3>5
  <2> QED BY <2>4, <2>5
<1>4. \E f : Upto(f, N)
  BY <1>1, <1>3
<1>5. Upto(Heads(s, i), N)
  <2> HIDE DEF Upto
  <2> QED BY <1>2, <1>4, Zenon
<1> DEFINE F == Heads(s, i)
<1>6. \A k \in 0 .. N : F[k] = H(F, k)
  <2>1. F = [k \in 0 .. N |-> H(F, k)]
    BY <1>5
  <2> HIDE DEF F, H
  <2> QED BY <2>1
<1>7. F[0] = << >>
  <2>1. 0 \in 0 .. N
    BY <1>1
  <2> QED BY <1>6, <2>1
<1>8. ASSUME NEW n \in 1 .. N PROVE F[n] = With(F[n - 1], s[n], i)
  <2>1. n \in 0 .. N /\ n # 0
    BY <1>1
  <2> QED BY <1>6, <2>1 DEF With
<1> QED BY <1>7, <1>8 DEF N

(* The heads are symbols. *)
LEMMA HeadsType ==
  ASSUME NEW s \in Seq(Task), NEW i
  PROVE  \A n \in 0 .. Len(s) : Heads(s, i)[n] \in Seq(Symbol)
<1> DEFINE N == Len(s)
           Bad == {n \in Nat : n <= N /\ Heads(s, i)[n] \notin Seq(Symbol)}
<1>1. N \in Nat /\ \A n \in 1 .. N : s[n] \in Task
  OBVIOUS
<1>2. /\ Heads(s, i)[0] = << >>
      /\ \A n \in 1 .. N : Heads(s, i)[n] = With(Heads(s, i)[n - 1], s[n], i)
  BY HeadsDef
<1> HIDE DEF N
<1>3. Bad = {}
  <2> SUFFICES ASSUME Bad # {} PROVE FALSE
    OBVIOUS
  <2>1. Bad \in SUBSET Nat
    OBVIOUS
  <2>2. PICK m \in Bad : \A k \in Bad : m <= k
    <3> HIDE DEF Bad
    <3> QED BY <2>1, LeastNat
  <2>3. m \in Nat /\ m <= N /\ Heads(s, i)[m] \notin Seq(Symbol)
    BY <2>2
  <2>4. m # 0
    <3>1. << >> \in Seq(Symbol)
      OBVIOUS
    <3> QED BY ONLY <1>2, <2>3, <3>1
  <2>5. m - 1 \in Nat /\ m - 1 <= N /\ m - 1 \notin Bad /\ m \in 1 .. N
    <3> HIDE DEF Bad
    <3> QED BY <1>1, <2>2, <2>3, <2>4
  <2>6. Heads(s, i)[m - 1] \in Seq(Symbol)
    BY <2>5
  <2>7. s[m] \in Task /\ s[m].arg.head \in Symbol
    BY <1>1, <2>5, Texts DEF Task
  <2>8. With(Heads(s, i)[m - 1], s[m], i) \in Seq(Symbol)
    BY <2>6, <2>7 DEF With
  <2> QED BY <1>2, <2>3, <2>5, <2>8
<1>4. ASSUME NEW n \in 0 .. N PROVE Heads(s, i)[n] \in Seq(Symbol)
  <2>1. n \in Nat /\ n <= N /\ n \notin Bad
    BY <1>1, <1>3
  <2> QED BY <2>1
<1> QED BY <1>4 DEF N

(* One sequence after the other. *)
Cat(a, b) == a \o b

LEMMA AppendCat ==
  ASSUME NEW a \in Seq(Symbol), NEW b \in Seq(Symbol), NEW x \in Symbol
  PROVE  Append(Cat(a, b), x) = Cat(a, Append(b, x))
BY DEF Cat

LEMMA CatFacts ==
  ASSUME NEW S, NEW a \in Seq(S), NEW b \in Seq(S)
  PROVE  /\ Cat(a, b) \in Seq(S) /\ Cat(a, << >>) = a /\ Cat(<< >>, a) = a
         /\ \A c \in Seq(S) : Cat(Cat(a, b), c) = Cat(a, Cat(b, c))
<1>1. Cat(a, b) \in Seq(S)
  BY DEF Cat
<1>2. Cat(a, << >>) = a /\ Cat(<< >>, a) = a
  BY DEF Cat
<1>3. ASSUME NEW c \in Seq(S) PROVE Cat(Cat(a, b), c) = Cat(a, Cat(b, c))
  BY DEF Cat
<1> QED BY <1>1, <1>2, <1>3

(* The searches in two sequences of tasks, one after the other. *)
LEMMA HeadsConcat ==
  ASSUME NEW s \in Seq(Task), NEW t \in Seq(Task), NEW i
  PROVE  SearchesIn(Cat(s, t), i) = Cat(SearchesIn(s, i), SearchesIn(t, i))
<1> DEFINE u == s \o t
           N == Len(s)
           M == Len(t)
           A == Heads(u, i)
           B == Heads(s, i)
           C == Heads(t, i)
<1>1. /\ u \in Seq(Task) /\ N \in Nat /\ M \in Nat /\ Len(u) = N + M
      /\ \A n \in 1 .. N : u[n] = s[n]
      /\ \A n \in 1 .. M : u[N + n] = t[n]
  OBVIOUS
<1> HIDE DEF u
<1>2. /\ A[0] = << >> /\ \A n \in 1 .. N + M : A[n] = With(A[n - 1], u[n], i)
      /\ B[0] = << >> /\ \A n \in 1 .. N : B[n] = With(B[n - 1], s[n], i)
      /\ C[0] = << >> /\ \A n \in 1 .. M : C[n] = With(C[n - 1], t[n], i)
  BY <1>1, HeadsDef
<1>3. /\ \A n \in 0 .. N : B[n] \in Seq(Symbol)
      /\ \A n \in 0 .. M : C[n] \in Seq(Symbol)
      /\ \A n \in 1 .. M : t[n] \in Task /\ t[n].arg.head \in Symbol
  <2>1. \A n \in 1 .. M : t[n] \in Task
    OBVIOUS
  <2>2. \A x \in Task : x.arg.head \in Symbol
    BY Texts DEF Task
  <2>3. \A n \in 0 .. N : B[n] \in Seq(Symbol)
    BY HeadsType
  <2>4. \A n \in 0 .. M : C[n] \in Seq(Symbol)
    BY HeadsType
  <2> QED BY <2>1, <2>2, <2>3, <2>4
<1> HIDE DEF N, M, A, B, C
<1>4. A[N] = B[N]
  <2> DEFINE Bad == {n \in Nat : n <= N /\ A[n] # B[n]}
  <2>1. Bad = {}
    <3> SUFFICES ASSUME Bad # {} PROVE FALSE
      OBVIOUS
    <3>1. Bad \in SUBSET Nat
      OBVIOUS
    <3>2. PICK m \in Bad : \A k \in Bad : m <= k
      <4> HIDE DEF Bad
      <4> QED BY <3>1, LeastNat
    <3>3. m \in Nat /\ m <= N /\ A[m] # B[m] /\ m # 0
      BY <1>2, <3>2
    <3>4. m - 1 \in Nat /\ m - 1 <= N /\ m - 1 \notin Bad /\ m \in 1 .. N /\ m \in 1 .. N + M
      <4> HIDE DEF Bad
      <4> QED BY <1>1, <3>2, <3>3
    <3>5. A[m - 1] = B[m - 1]
      BY <3>4
    <3> QED BY <1>1, <1>2, <3>3, <3>4, <3>5
  <2>2. N \notin Bad /\ N <= N
    BY <1>1, <2>1
  <2> QED BY <1>1, <2>2
<1>5. A[N + M] = B[N] \o C[M]
  <2> DEFINE Bad == {n \in Nat : n <= M /\ A[N + n] # B[N] \o C[n]}
  <2>1. Bad = {}
    <3> SUFFICES ASSUME Bad # {} PROVE FALSE
      OBVIOUS
    <3>1. Bad \in SUBSET Nat
      OBVIOUS
    <3>2. PICK m \in Bad : \A k \in Bad : m <= k
      <4> HIDE DEF Bad
      <4> QED BY <3>1, LeastNat
    <3>3. m \in Nat /\ m <= M /\ A[N + m] # B[N] \o C[m]
      BY <3>2
    <3>4. N \in 0 .. N /\ B[N] \in Seq(Symbol)
      BY <1>1, <1>3
    <3>5. m # 0
      <4>1. B[N] \o << >> = B[N]
        BY <3>4
      <4>2. ASSUME m = 0 PROVE FALSE
        <5>1. N + m = N
          BY <1>1, <4>2
        <5> QED BY <1>2, <1>4, <3>3, <4>1, <4>2, <5>1
      <4> QED BY <4>2
    <3>6. /\ m - 1 \in Nat /\ m - 1 <= M /\ m - 1 \notin Bad /\ m \in 1 .. M /\ N + m \in 1 .. N + M
          /\ N + m - 1 = N + (m - 1) /\ m - 1 \in 0 .. M
      <4> HIDE DEF Bad
      <4> QED BY <1>1, <3>2, <3>3, <3>5
    <3>7. A[N + (m - 1)] = B[N] \o C[m - 1]
      BY <3>6
    <3>8. A[N + m] = With(B[N] \o C[m - 1], t[m], i)
      <4> DEFINE j == N + m
                 l == N + (m - 1)
      <4>1. /\ j \in 1 .. N + M /\ j \in Nat /\ N \in Nat /\ M \in Nat /\ j - 1 = l
            /\ A[l] = B[N] \o C[m - 1] /\ u[j] = t[m]
        BY <1>1, <3>3, <3>6, <3>7
      <4> HIDE DEF j, l
      <4>2. A[j] = With(A[j - 1], u[j], i)
        BY ONLY <1>2, <4>1
      <4>3. A[j] = With(B[N] \o C[m - 1], t[m], i)
        BY ONLY <4>1, <4>2
      <4> QED BY ONLY <4>3 DEF j
    <3>9. C[m] = With(C[m - 1], t[m], i)
      BY <1>2, <3>6
    <3>10. C[m - 1] \in Seq(Symbol) /\ t[m].arg.head \in Symbol
      BY <1>3, <3>6
    <3>11. With(B[N] \o C[m - 1], t[m], i) = B[N] \o With(C[m - 1], t[m], i)
      <4> HIDE DEF Bad
      <4>1. Append(Cat(B[N], C[m - 1]), t[m].arg.head) = Cat(B[N], Append(C[m - 1], t[m].arg.head))
        BY ONLY <3>4, <3>10, AppendCat
      <4> QED BY <4>1 DEF With, Cat
    <3> HIDE DEF Bad
    <3> QED BY ONLY <3>3, <3>8, <3>9, <3>11, Zenon
  <2>2. M \notin Bad /\ M <= M
    <3> HIDE DEF Bad
    <3> QED BY <1>1, <2>1
  <2> QED BY <1>1, <2>2
<1>6. A[Len(u)] = B[N] \o C[M]
  BY <1>1, <1>5
<1> QED BY <1>6 DEF SearchesIn, Cat, A, B, C, u, N, M

LEMMA HeadsOne ==
  ASSUME NEW i
  PROVE  /\ SearchesIn(<< >>, i) = << >>
         /\ \A t \in Task : SearchesIn(<<t>>, i) = IF DataOf(t, i) THEN <<t.arg.head>> ELSE << >>
         /\ \A s \in Seq(Task) : SearchesIn(s, i) \in Seq(Symbol)
<1>1. SearchesIn(<< >>, i) = << >>
  <2> DEFINE e == << >>
  <2>1. e \in Seq(Task) /\ Len(e) = 0
    OBVIOUS
  <2> HIDE DEF e
  <2>2. Heads(e, i)[0] = << >>
    BY <2>1, HeadsDef
  <2>3. SearchesIn(e, i) = << >>
    BY <2>1, <2>2 DEF SearchesIn
  <2> QED BY <2>3 DEF e
<1>2. ASSUME NEW t \in Task
      PROVE  SearchesIn(<<t>>, i) = IF DataOf(t, i) THEN <<t.arg.head>> ELSE << >>
  <2> DEFINE e == <<t>>
             o == 1
  <2>1. e \in Seq(Task) /\ Len(e) = o /\ e[o] = t /\ o \in 1 .. o /\ o - 1 = 0
    OBVIOUS
  <2> HIDE DEF e, o
  <2>2. Heads(e, i)[0] = << >> /\ \A n \in 1 .. Len(e) : Heads(e, i)[n] = With(Heads(e, i)[n - 1], e[n], i)
    BY <2>1, HeadsDef
  <2>3. Heads(e, i)[o] = With(<< >>, t, i)
    BY <2>1, <2>2
  <2>4. SearchesIn(e, i) = With(<< >>, t, i)
    BY <2>1, <2>3 DEF SearchesIn
  <2>5. Append(<< >>, t.arg.head) = <<t.arg.head>>
    OBVIOUS
  <2> QED BY ONLY <2>4, <2>5 DEF e, With
<1>3. ASSUME NEW s \in Seq(Task) PROVE SearchesIn(s, i) \in Seq(Symbol)
  <2>1. Len(s) \in 0 .. Len(s)
    OBVIOUS
  <2> QED BY <2>1, HeadsType DEF SearchesIn
<1> QED BY <1>1, <1>2, <1>3

-----------------------------------------------------------------------------
(* The client implements the abstract search screen. *)

(* The searches of instance i under way. *)
Way(i) == SearchesIn(UnderWay, i)

LEMMA PostedFacts ==
  ASSUME NEW s \in Seq(Post)
  PROVE  /\ PostedTasks(s) \in Seq(Task)
         /\ \A p \in Post : PostedTasks(Append(s, p)) = PostedTasks(s) \o <<p.task>>
         /\ s # << >> => /\ PostedTasks(s) = <<Head(s).task>> \o PostedTasks(Tail(s))
                         /\ Head(s).task \in Task
<1>1. Len(s) \in Nat /\ DOMAIN s = 1 .. Len(s)
  OBVIOUS
<1>2. \A p \in Post : p.task \in Task
  BY DEF Post
<1>3. \A k \in 1 .. Len(s) : s[k].task \in Task
  BY <1>2
<1> DEFINE t == PostedTasks(s)
<1>4. t = [k \in 1 .. Len(s) |-> s[k].task]
  BY <1>1 DEF PostedTasks
<1>5. t \in Seq(Task) /\ Len(t) = Len(s) /\ \A k \in 1 .. Len(s) : t[k] = s[k].task
  BY <1>1, <1>3, <1>4
<1> HIDE DEF t
<1>6. ASSUME NEW p \in Post PROVE PostedTasks(Append(s, p)) = t \o <<p.task>>
  <2> DEFINE a == Append(s, p)
             x == p.task
             b == t \o <<x>>
             c == PostedTasks(a)
             N == Len(s)
  <2>1. /\ DOMAIN a = 1 .. N + 1 /\ a[N + 1] = p /\ \A k \in 1 .. N : a[k] = s[k]
    BY <1>1
  <2>2. c = [k \in 1 .. N + 1 |-> a[k].task]
    BY <2>1 DEF PostedTasks
  <2>3. x \in Task
    BY <1>2
  <2> HIDE DEF x
  <2>4. b \in Seq(Task) /\ Len(b) = N + 1 /\ b[N + 1] = x /\ \A k \in 1 .. N : b[k] = t[k]
    BY <1>5, <2>3
  <2>5. b = [k \in 1 .. N + 1 |-> b[k]]
    BY <2>4
  <2> HIDE DEF a, b, c, N
  <2>6. N \in Nat
    BY <1>1 DEF N
  <2>7. ASSUME NEW k \in 1 .. N + 1 PROVE a[k].task = b[k]
    <3>1. CASE k = N + 1
      BY <2>1, <2>4, <3>1 DEF x
    <3>2. CASE k # N + 1
      <4>1. k \in 1 .. N
        BY <2>6, <3>2
      <4> QED BY <1>5, <2>1, <2>4, <4>1 DEF N
    <3> QED BY <3>1, <3>2
  <2>8. c = b
    BY <2>2, <2>5, <2>7
  <2> QED BY <2>8 DEF a, b, c, x
<1>7. ASSUME s # << >>
      PROVE  t = <<Head(s).task>> \o PostedTasks(Tail(s)) /\ Head(s).task \in Task
  <2> DEFINE a == Tail(s)
             x == Head(s).task
             c == PostedTasks(a)
             N == Len(s)
             b == <<x>> \o c
  <2>1. /\ a \in Seq(Post) /\ DOMAIN a = 1 .. N - 1 /\ N - 1 \in Nat /\ N \in Nat /\ Head(s) = s[1]
        /\ \A k \in 1 .. N - 1 : a[k] = s[k + 1]
    BY <1>1, <1>7
  <2>2. c = [k \in 1 .. N - 1 |-> a[k].task]
    BY <2>1 DEF PostedTasks
  <2>3. x \in Task /\ x = t[1]
    BY <1>5, <1>2, <2>1
  <2>4. \A k \in 1 .. N - 1 : a[k].task \in Task
    BY <1>2, <2>1
  <2> HIDE DEF x, a
  <2>5. c \in Seq(Task) /\ Len(c) = N - 1 /\ \A k \in 1 .. N - 1 : c[k] = a[k].task
    BY <2>1, <2>2, <2>4
  <2> HIDE DEF c
  <2>6. b \in Seq(Task) /\ Len(b) = N /\ b[1] = x /\ \A k \in 1 .. N - 1 : b[k + 1] = c[k]
    BY <2>1, <2>3, <2>5
  <2> HIDE DEF b, N
  <2>7. ASSUME NEW k \in 1 .. N PROVE t[k] = b[k]
    <3>1. CASE k = 1
      BY <2>3, <2>6, <3>1
    <3>2. CASE k # 1
      <4> DEFINE j == k - 1
      <4>1. j \in 1 .. N - 1 /\ j + 1 = k
        BY <2>1, <3>2
      <4> HIDE DEF j
      <4>2. b[j + 1] = a[j].task /\ a[j] = s[j + 1]
        BY <2>1, <2>5, <2>6, <4>1
      <4>3. b[k] = s[k].task
        BY <4>1, <4>2
      <4> QED BY <1>5, <4>3 DEF N
    <3> QED BY <3>1, <3>2
  <2>8. t = [k \in 1 .. N |-> t[k]] /\ b = [k \in 1 .. N |-> b[k]]
    BY <1>5, <2>6 DEF N
  <2>9. t = b
    BY <2>7, <2>8
  <2> QED BY <2>3, <2>9 DEF a, b, c, x
<1> QED BY <1>5, <1>6, <1>7 DEF t

LEMMA RunningFacts ==
  ASSUME NEW R \in SUBSET Run, \A r1, r2 \in R : r1 = r2
  PROVE  /\ RunningTasks(R) \in Seq(Task)
         /\ R = {} => RunningTasks(R) = << >>
         /\ \A r \in R : RunningTasks(R) = <<r.task>> /\ r.task \in Task
<1>1. ASSUME NEW r \in R PROVE RunningTasks(R) = <<r.task>> /\ r.task \in Task
  <2>1. (CHOOSE x \in R : TRUE) = r
    OBVIOUS
  <2>2. r.task \in Task
    BY DEF Run
  <2> QED BY <2>1, <2>2 DEF RunningTasks
<1>2. R = {} => RunningTasks(R) = << >>
  BY DEF RunningTasks
<1>3. RunningTasks(R) \in Seq(Task)
  <2>1. CASE R = {}
    <3>1. << >> \in Seq(Task)
      OBVIOUS
    <3> QED BY ONLY <1>2, <2>1, <3>1
  <2>2. CASE R # {}
    <3>1. PICK r \in R : TRUE
      BY <2>2
    <3>2. \A x \in Task : <<x>> \in Seq(Task)
      OBVIOUS
    <3> QED BY ONLY <1>1, <3>1, <3>2
  <2> QED BY <2>1, <2>2
<1> QED BY <1>1, <1>2, <1>3

(* Three sequences. *)
Cat3(a, b, c) == Cat(Cat(a, b), c)

(* The searches under way are those of the three places. *)
LEMMA WayParts ==
  ASSUME NEW p \in Seq(Task), NEW d \in Seq(Task), NEW q \in Seq(Task), NEW i
  PROVE  /\ SearchesIn(Cat3(p, d, q), i)
              = Cat3(SearchesIn(p, i), SearchesIn(d, i), SearchesIn(q, i))
         /\ SearchesIn(p, i) \in Seq(Symbol) /\ SearchesIn(d, i) \in Seq(Symbol)
         /\ SearchesIn(q, i) \in Seq(Symbol)
<1>1. SearchesIn(p, i) \in Seq(Symbol) /\ SearchesIn(d, i) \in Seq(Symbol)
      /\ SearchesIn(q, i) \in Seq(Symbol)
  BY HeadsOne
<1>2. SearchesIn(Cat(p, d), i) = Cat(SearchesIn(p, i), SearchesIn(d, i)) /\ Cat(p, d) \in Seq(Task)
  BY HeadsConcat, CatFacts
<1>3. SearchesIn(Cat(Cat(p, d), q), i) = Cat(SearchesIn(Cat(p, d), i), SearchesIn(q, i))
  BY <1>2, HeadsConcat
<1> QED BY <1>1, <1>2, <1>3 DEF Cat3

(* The searches of i in results, runs and tasks. *)
Three(results, runs, tasks, i) ==
  Cat3(SearchesIn(PostedTasks(results), i), SearchesIn(RunningTasks(runs), i), SearchesIn(tasks, i))

LEMMA WayIs ==
  ASSUME TypeOK, TypeOK', NEW i
  PROVE  /\ Way(i) = Three(posted, running, queue, i)
         /\ Way(i)' = Three(posted', running', queue', i)
<1>1. /\ PostedTasks(posted) \in Seq(Task) /\ RunningTasks(running) \in Seq(Task) /\ queue \in Seq(Task)
  <2>1. posted \in Seq(Post) /\ queue \in Seq(Task) /\ running \in SUBSET Run
        /\ \A r1, r2 \in running : r1 = r2
    BY DEF TypeOK
  <2> QED BY <2>1, PostedFacts, RunningFacts
<1>2. /\ PostedTasks(posted') \in Seq(Task) /\ RunningTasks(running') \in Seq(Task) /\ queue' \in Seq(Task)
  <2>1. posted' \in Seq(Post) /\ queue' \in Seq(Task) /\ running' \in SUBSET Run
        /\ \A r1, r2 \in running' : r1 = r2
    BY DEF TypeOK
  <2> QED BY <2>1, PostedFacts, RunningFacts
<1>3. Way(i) = SearchesIn(Cat3(PostedTasks(posted), RunningTasks(running), queue), i)
  BY DEF Way, UnderWay, Cat3, Cat
<1>4. Way(i)' = SearchesIn(Cat3(PostedTasks(posted'), RunningTasks(running'), queue'), i)
  BY DEF Way, UnderWay, Cat3, Cat
<1>5. Way(i) = Three(posted, running, queue, i)
  <2> DEFINE p == PostedTasks(posted)
             d == RunningTasks(running)
             q == queue
  <2>1. p \in Seq(Task) /\ d \in Seq(Task) /\ q \in Seq(Task)
    BY <1>1
  <2> HIDE DEF p, d, q
  <2>2. SearchesIn(Cat3(p, d, q), i) = Cat3(SearchesIn(p, i), SearchesIn(d, i), SearchesIn(q, i))
    BY ONLY <2>1, WayParts
  <2> QED BY <1>3, <2>2 DEF Three, p, d, q
<1>6. Way(i)' = Three(posted', running', queue', i)
  <2> DEFINE p == PostedTasks(posted')
             d == RunningTasks(running')
             q == queue'
  <2>1. p \in Seq(Task) /\ d \in Seq(Task) /\ q \in Seq(Task)
    BY <1>2
  <2> HIDE DEF p, d, q
  <2>2. SearchesIn(Cat3(p, d, q), i) = Cat3(SearchesIn(p, i), SearchesIn(d, i), SearchesIn(q, i))
    BY ONLY <2>1, WayParts
  <2> QED BY <1>4, <2>2 DEF Three, p, d, q
<1> QED BY <1>5, <1>6

(* The parts are sequences of symbols. *)
LEMMA ThreeTypes ==
  ASSUME TypeOK, NEW i
  PROVE  /\ posted \in Seq(Post) /\ queue \in Seq(Task) /\ running \in SUBSET Run
         /\ \A r1, r2 \in running : r1 = r2
         /\ SearchesIn(PostedTasks(posted), i) \in Seq(Symbol)
         /\ SearchesIn(RunningTasks(running), i) \in Seq(Symbol)
         /\ SearchesIn(queue, i) \in Seq(Symbol)
         /\ PostedTasks(posted) \in Seq(Task)
<1>1. posted \in Seq(Post) /\ queue \in Seq(Task) /\ running \in SUBSET Run
      /\ \A r1, r2 \in running : r1 = r2
  BY DEF TypeOK
<1>2. PostedTasks(posted) \in Seq(Task) /\ RunningTasks(running) \in Seq(Task)
  BY <1>1, PostedFacts, RunningFacts
<1> QED BY <1>1, <1>2, HeadsOne

(* Tasks given to execute() come last, *)
LEMMA WayQueue ==
  ASSUME TypeOK, TypeOK', NEW i, NEW q \in Seq(Task), queue' = queue \o q,
         running' = running, posted' = posted
  PROVE  Way(i)' = Way(i) \o SearchesIn(q, i)
<1> DEFINE a == SearchesIn(PostedTasks(posted), i)
           b == SearchesIn(RunningTasks(running), i)
           c == SearchesIn(queue, i)
           d == SearchesIn(q, i)
<1>1. a \in Seq(Symbol) /\ b \in Seq(Symbol) /\ c \in Seq(Symbol) /\ d \in Seq(Symbol)
  BY ThreeTypes, HeadsOne
<1>2. SearchesIn(Cat(queue, q), i) = Cat(c, d)
  <2>1. queue \in Seq(Task)
    BY ThreeTypes
  <2> QED BY <2>1, HeadsConcat
<1>3. Way(i)' = Cat(Cat(a, b), Cat(c, d)) /\ Way(i) = Cat(Cat(a, b), c)
  <2>1. queue' = Cat(queue, q)
    BY DEF Cat
  <2> QED BY <1>2, <2>1, WayIs DEF Three, Cat3
<1> HIDE DEF a, b, c, d
<1>4. Cat(a, b) \in Seq(Symbol)
  BY <1>1, CatFacts
<1>5. Cat(Cat(Cat(a, b), c), d) = Cat(Cat(a, b), Cat(c, d))
  BY <1>1, <1>4, CatFacts
<1> QED BY <1>3, <1>5 DEF d, Cat

(* a task that starts, goes on or finishes keeps its place, *)
LEMMA WayStart ==
  ASSUME TypeOK, TypeOK', NEW i, StartTask
  PROVE  Way(i)' = Way(i)
<1> DEFINE x == Head(queue)
           rest == Tail(queue)
           r == [task |-> x, pc |-> "fetch", body |-> Null]
           a == SearchesIn(PostedTasks(posted), i)
           b == SearchesIn(<<x>>, i)
           c == SearchesIn(rest, i)
<1>1. /\ running = {} /\ queue # << >> /\ running' = {r} /\ queue' = rest /\ posted' = posted
      /\ queue \in Seq(Task) /\ running' \in SUBSET Run /\ r.task = x
  BY DEF StartTask, TypeOK
<1>2. x \in Task /\ rest \in Seq(Task) /\ queue = <<x>> \o rest
  BY <1>1
<1> DEFINE e == <<x>>
<1>3. e \in Seq(Task)
  BY <1>2
<1>4. RunningTasks(running) = << >> /\ RunningTasks(running') = e
  <2>1. \A r1, r2 \in running' : r1 = r2
    BY <1>1
  <2>2. r \in running'
    BY <1>1
  <2>3. running' \in SUBSET Run /\ r.task = x /\ running = {}
    BY <1>1
  <2> HIDE DEF r
  <2>4. RunningTasks(running') = <<r.task>>
    BY ONLY <2>1, <2>2, <2>3, RunningFacts
  <2>5. RunningTasks({}) = << >>
    BY DEF RunningTasks
  <2> QED BY <2>3, <2>4, <2>5
<1> HIDE DEF rest, e, r
<1>5. SearchesIn(queue, i) = Cat(b, c)
  <2>1. rest \in Seq(Task) /\ queue = Cat(e, rest) /\ b = SearchesIn(e, i)
    BY <1>2 DEF e, Cat
  <2> QED BY <1>3, <2>1, HeadsConcat
<1>6. a \in Seq(Symbol) /\ b \in Seq(Symbol) /\ c \in Seq(Symbol) /\ SearchesIn(<< >>, i) = << >>
  BY <1>2, <1>3, ThreeTypes, HeadsOne DEF e
<1>7. Way(i) = Cat(Cat(a, << >>), Cat(b, c)) /\ Way(i)' = Cat(Cat(a, b), c)
  BY <1>1, <1>4, <1>5, <1>6, WayIs DEF Three, Cat3, e
<1> HIDE DEF a, b, c
<1>8. Cat(a, << >>) = a /\ Cat(Cat(a, b), c) = Cat(a, Cat(b, c))
  BY <1>6, CatFacts
<1> QED BY <1>7, <1>8

LEMMA WayRuns ==
  ASSUME TypeOK, TypeOK', NEW i, NEW r \in running, NEW q, running' = (running \ {r}) \cup {q},
         q.task = r.task, queue' = queue, posted' = posted
  PROVE  Way(i)' = Way(i)
<1>1. r \in running /\ q \in running' /\ running' \in SUBSET Run /\ running \in SUBSET Run
      /\ (\A r1, r2 \in running : r1 = r2) /\ (\A r1, r2 \in running' : r1 = r2)
  BY DEF TypeOK
<1>2. RunningTasks(running) = <<r.task>> /\ RunningTasks(running') = <<q.task>>
  BY <1>1, RunningFacts
<1> QED BY <1>2, WayIs DEF Three, Cat3

LEMMA WayFinish ==
  ASSUME TypeOK, TypeOK', NEW i, NEW r \in running, NEW ret, Finish(r, ret), queue' = queue
  PROVE  Way(i)' = Way(i)
<1> DEFINE p == [task |-> r.task, ret |-> ret]
           x == r.task
           e == <<x>>
           a == SearchesIn(PostedTasks(posted), i)
           b == SearchesIn(e, i)
           c == SearchesIn(queue, i)
<1>1. /\ running' = {} /\ posted' = IF x.kind = "image" THEN posted ELSE Append(posted, p)
      /\ running \in SUBSET Run /\ (\A r1, r2 \in running : r1 = r2)
  BY DEF TypeOK, Finish
<1>2. RunningTasks(running) = e /\ RunningTasks({}) = << >> /\ x \in Task
  <2>1. RunningTasks({}) = << >>
    BY DEF RunningTasks
  <2> QED BY <1>1, <2>1, RunningFacts
<1>3. e \in Seq(Task)
  BY <1>2
<1>4. p.task = x
  OBVIOUS
<1> HIDE DEF p, e
<1>5. a \in Seq(Symbol) /\ b \in Seq(Symbol) /\ c \in Seq(Symbol) /\ SearchesIn(<< >>, i) = << >>
  BY <1>3, ThreeTypes, HeadsOne
<1>6. Way(i) = Cat(Cat(a, b), c)
  BY <1>2, WayIs DEF Three, Cat3
<1>7. CASE x.kind = "image"
  <2>1. b = << >>
    <3>1. ~DataOf(x, i)
      BY <1>7 DEF DataOf
    <3> QED BY <1>2, <3>1, HeadsOne DEF e
  <2>2. Way(i)' = Cat(Cat(a, << >>), c)
    BY <1>1, <1>2, <1>5, <1>7, WayIs DEF Three, Cat3
  <2> HIDE DEF a, b, c
  <2> QED BY <1>6, <2>1, <2>2
<1>8. CASE x.kind # "image"
  <2>1. posted \in Seq(Post) /\ posted' = Append(posted, p) /\ posted' \in Seq(Post)
    BY <1>1, <1>8 DEF TypeOK
  <2>2. p \in Post
    <3>1. Len(posted') = Len(posted) + 1 /\ posted'[Len(posted) + 1] = p /\ Len(posted) \in Nat
      BY <2>1
    <3>2. Len(posted) + 1 \in 1 .. Len(posted')
      BY <3>1
    <3> QED BY ONLY <2>1, <3>1, <3>2
  <2>3. PostedTasks(posted') = PostedTasks(posted) \o e
    BY <1>4, <2>1, <2>2, PostedFacts DEF e
  <2>4. SearchesIn(PostedTasks(posted'), i) = Cat(a, b)
    <3>1. PostedTasks(posted) \in Seq(Task) /\ PostedTasks(posted') = Cat(PostedTasks(posted), e)
      BY <2>3, ThreeTypes DEF Cat
    <3> QED BY <1>3, <3>1, HeadsConcat
  <2>5. Way(i)' = Cat(Cat(Cat(a, b), << >>), c)
    BY <1>1, <1>2, <1>5, <2>4, WayIs DEF Three, Cat3
  <2> HIDE DEF a, b, c
  <2>6. Cat(a, b) \in Seq(Symbol)
    BY <1>5, CatFacts
  <2>7. Cat(Cat(a, b), << >>) = Cat(a, b)
    BY <2>6, CatFacts
  <2> QED BY <1>6, <2>5, <2>7
<1> QED BY <1>7, <1>8

(* and the oldest result leaves first. *)
LEMMA WayPost ==
  ASSUME TypeOK, TypeOK', NEW i, NEW q \in Seq(Task), SearchesIn(q, i) = << >>,
         posted # << >>, posted' = Tail(posted), running' = running, queue' = queue \o q
  PROVE  /\ Head(posted).task \in Task
         /\ Way(i) = SearchesIn(<<Head(posted).task>>, i) \o Way(i)'
         /\ Way(i)' \in Seq(Symbol)
<1> DEFINE x == Head(posted).task
           rest == PostedTasks(Tail(posted))
           e == <<x>>
           a == SearchesIn(e, i)
           b == SearchesIn(rest, i)
           c == SearchesIn(RunningTasks(running), i)
           d == SearchesIn(queue, i)
<1>1. /\ PostedTasks(posted) = e \o rest /\ x \in Task /\ rest \in Seq(Task)
  <2>1. posted \in Seq(Post) /\ Tail(posted) \in Seq(Post)
    BY DEF TypeOK
  <2> QED BY <2>1, PostedFacts
<1>2. e \in Seq(Task)
  BY <1>1
<1> HIDE DEF e, rest
<1>3. a \in Seq(Symbol) /\ b \in Seq(Symbol) /\ c \in Seq(Symbol) /\ d \in Seq(Symbol)
  BY <1>1, <1>2, ThreeTypes, HeadsOne
<1>4. SearchesIn(PostedTasks(posted), i) = Cat(a, b)
  <2>1. PostedTasks(posted) = Cat(e, rest) /\ rest \in Seq(Task)
    BY <1>1 DEF Cat
  <2> QED BY <1>2, <2>1, HeadsConcat
<1>5. SearchesIn(queue', i) = d
  <2>1. queue' = Cat(queue, q) /\ queue \in Seq(Task)
    BY ThreeTypes DEF Cat
  <2>2. SearchesIn(queue', i) = Cat(d, << >>)
    BY <2>1, HeadsConcat
  <2> HIDE DEF d
  <2> QED BY <1>3, <2>2, CatFacts
<1>6. Way(i) = Cat(Cat(Cat(a, b), c), d) /\ Way(i)' = Cat(Cat(b, c), d)
  BY <1>4, <1>5, WayIs DEF Three, Cat3, rest
<1> HIDE DEF a, b, c, d
<1>7. Cat(b, c) \in Seq(Symbol) /\ Cat(Cat(a, b), c) = Cat(a, Cat(b, c))
  BY <1>3, CatFacts
<1>8. Cat(Cat(a, Cat(b, c)), d) = Cat(a, Cat(Cat(b, c), d)) /\ Cat(Cat(b, c), d) \in Seq(Symbol)
  BY <1>3, <1>7, CatFacts
<1> QED BY <1>1, <1>6, <1>7, <1>8 DEF Cat, a, e

(* The three kinds of steps, on the abstract screen. *)
LEMMA ToSame ==
  ASSUME \A j \in Inst : Way(j)' = Way(j) /\ Screen(j)' = Screen(j)
  PROVE  UNCHANGED <<Searches, Screens>>
<1>1. Searches' = [j \in Inst |-> Way(j)'] /\ Searches = [j \in Inst |-> Way(j)]
  BY DEF Searches, Way
<1>2. Screens' = [j \in Inst |-> Screen(j)'] /\ Screens = [j \in Inst |-> Screen(j)]
  BY DEF Screens
<1> QED BY <1>1, <1>2

LEMMA ToSearch ==
  ASSUME NEW i \in Inst, NEW s \in Symbol, Way(i)' = Append(Way(i), s),
         \A j \in Inst \ {i} : Way(j)' = Way(j),
         \A j \in Inst : Screen(j)' = Screen(j)
  PROVE  Abstract!Next
<1>1. Searches' = [j \in Inst |-> Way(j)'] /\ Searches = [j \in Inst |-> Way(j)]
  BY DEF Searches, Way
<1>2. Screens' = [j \in Inst |-> Screen(j)'] /\ Screens = [j \in Inst |-> Screen(j)]
  BY DEF Screens
<1>3. Screens' = Screens
  BY <1>2
<1>4. Searches' = [Searches EXCEPT ![i] = Append(@, s)]
  BY <1>1
<1>5. Abstract!Search(i, s)
  BY <1>3, <1>4 DEF Abstract!Search
<1> QED BY <1>5 DEF Abstract!Next

LEMMA ToAnswer ==
  ASSUME NEW i \in Inst, NEW s \in Symbol, NEW rest \in Seq(Symbol),
         Way(i) = <<s>> \o rest, Way(i)' = rest, Screen(i)' \in {s, "error"},
         \A j \in Inst \ {i} : Way(j)' = Way(j) /\ Screen(j)' = Screen(j)
  PROVE  Abstract!Next
<1>1. Searches' = [j \in Inst |-> Way(j)'] /\ Searches = [j \in Inst |-> Way(j)]
  BY DEF Searches, Way
<1>2. Screens' = [j \in Inst |-> Screen(j)'] /\ Screens = [j \in Inst |-> Screen(j)]
  BY DEF Screens
<1> DEFINE w == <<s>> \o rest
<1>3. w # << >> /\ Head(w) = s /\ Tail(w) = rest
  OBVIOUS
<1>4. Searches[i] = w
  BY <1>1
<1> HIDE DEF w
<1>5. Screens' = [Screens EXCEPT ![i] = Screen(i)']
  BY <1>2
<1>6. Searches' = [Searches EXCEPT ![i] = Tail(@)]
  <2>1. Tail(Searches[i]) = rest
    BY <1>3, <1>4
  <2>2. Searches' = [Searches EXCEPT ![i] = rest]
    BY <1>1
  <2> QED BY <2>1, <2>2
<1>7. Searches[i] # << >> /\ \E d \in {Head(Searches[i]), "error"} : Screens' = [Screens EXCEPT ![i] = d]
  BY <1>3, <1>4, <1>5
<1>8. Abstract!Answer(i)
  BY <1>6, <1>7 DEF Abstract!Answer
<1> QED BY <1>8 DEF Abstract!Next

(* The panels and the quote decide. *)
LEMMA SameScreen ==
  ASSUME NEW j \in Inst, ui'[j].error = ui[j].error, ui'[j].result = ui[j].result,
         ui'[j].shown = ui[j].shown
  PROVE  Screen(j)' = Screen(j)
BY DEF Screen

LEMMA ListSearches ==
  ASSUME NEW i \in Inst, NEW t \in Text, NEW j
  PROVE  /\ onTextChanged(i, t) \in Seq(Task) /\ SearchesIn(onTextChanged(i, t), j) = << >>
         /\ getStockData(i, t) \in Seq(Task)
         /\ SearchesIn(getStockData(i, t), j) = IF t = EmptyText \/ i # j THEN << >> ELSE <<t.head>>
<1>1. onTextChanged(i, t) \in Seq(Task) /\ getStockData(i, t) \in Seq(Task)
  BY ListenerTasks
<1>2. CASE t = EmptyText
  <2>1. onTextChanged(i, t) = << >> /\ getStockData(i, t) = << >>
    BY <1>2 DEF onTextChanged, getStockData
  <2> QED BY <1>1, <1>2, <2>1, HeadsOne
<1>3. CASE t # EmptyText
  <2> DEFINE l == ListTask(i, t)
             d == DataTask(i, t)
  <2>1. onTextChanged(i, t) = <<l>> /\ getStockData(i, t) = <<d>>
    BY <1>3 DEF onTextChanged, getStockData
  <2>2. l \in Task /\ d \in Task /\ ~DataOf(l, j) /\ (DataOf(d, j) <=> i = j) /\ d.arg = t
    BY <1>3 DEF ListTask, DataTask, Task, DataOf
  <2> HIDE DEF l, d
  <2>3. SearchesIn(<<l>>, j) = << >>
    BY <2>2, HeadsOne
  <2>4. SearchesIn(<<d>>, j) = IF DataOf(d, j) THEN <<d.arg.head>> ELSE << >>
    BY <2>2, HeadsOne
  <2>5. SearchesIn(<<d>>, j) = IF i # j THEN << >> ELSE <<t.head>>
    BY <2>2, <2>4
  <2> QED BY <1>1, <1>3, <2>1, <2>3, <2>5
<1> QED BY <1>2, <1>3

(* A step that only gives tasks to execute(). *)
LEMMA QueueStep ==
  ASSUME TypeOK, TypeOK', NEW q \in Seq(Task), queue' = queue \o q,
         running' = running, posted' = posted, ui' = ui
  PROVE  \A j \in Inst : /\ Way(j)' = Way(j) \o SearchesIn(q, j) /\ Screen(j)' = Screen(j)
                         /\ Way(j) \in Seq(Symbol)
<1> SUFFICES ASSUME NEW j \in Inst
             PROVE  /\ Way(j)' = Way(j) \o SearchesIn(q, j) /\ Screen(j)' = Screen(j)
                    /\ Way(j) \in Seq(Symbol)
  OBVIOUS
<1>1. Way(j)' = Way(j) \o SearchesIn(q, j)
  BY WayQueue
<1>2. Screen(j)' = Screen(j)
  BY SameScreen
<1>3. Way(j) \in Seq(Symbol)
  <2> DEFINE a == SearchesIn(PostedTasks(posted), j)
             b == SearchesIn(RunningTasks(running), j)
             c == SearchesIn(queue, j)
  <2>1. Way(j) = Cat3(a, b, c) /\ a \in Seq(Symbol) /\ b \in Seq(Symbol) /\ c \in Seq(Symbol)
    BY WayIs, ThreeTypes DEF Three
  <2> HIDE DEF a, b, c
  <2>2. Cat(a, b) \in Seq(Symbol)
    BY <2>1, CatFacts
  <2>3. Cat(Cat(a, b), c) \in Seq(Symbol)
    BY <2>1, <2>2, CatFacts
  <2> QED BY <2>1, <2>3 DEF Cat3
<1> QED BY <1>1, <1>2, <1>3

(* No search among the new tasks, or one of instance i. *)
LEMMA NoNewSearch ==
  ASSUME TypeOK, TypeOK', NEW q \in Seq(Task), queue' = queue \o q,
         running' = running, posted' = posted, ui' = ui,
         \A j \in Inst : SearchesIn(q, j) = << >>
  PROVE  UNCHANGED <<Searches, Screens>>
<1>1. ASSUME NEW j \in Inst PROVE Way(j)' = Way(j) /\ Screen(j)' = Screen(j)
  <2> DEFINE w == Way(j)
  <2>1. Way(j)' = w \o << >> /\ Screen(j)' = Screen(j) /\ w \in Seq(Symbol)
    BY QueueStep
  <2> HIDE DEF w
  <2>2. w \o << >> = w
    BY <2>1
  <2> QED BY <2>1, <2>2 DEF w
<1> QED BY <1>1, ToSame

LEMMA NewSearch ==
  ASSUME TypeOK, TypeOK', NEW q \in Seq(Task), queue' = queue \o q,
         running' = running, posted' = posted, ui' = ui,
         NEW i \in Inst, NEW s \in Symbol,
         \A j \in Inst : SearchesIn(q, j) = IF i # j THEN << >> ELSE <<s>>
  PROVE  Abstract!Next
<1>1. ASSUME NEW j \in Inst, j # i PROVE Way(j)' = Way(j)
  <2> DEFINE w == Way(j)
  <2>1. Way(j)' = w \o << >> /\ w \in Seq(Symbol)
    BY <1>1, QueueStep
  <2> HIDE DEF w
  <2>2. w \o << >> = w
    BY <2>1
  <2> QED BY <2>1, <2>2 DEF w
<1>2. Way(i)' = Append(Way(i), s)
  <2> DEFINE w == Way(i)
  <2>1. Way(i)' = w \o <<s>> /\ w \in Seq(Symbol)
    BY QueueStep
  <2> HIDE DEF w
  <2>2. w \o <<s>> = Append(w, s)
    BY <2>1
  <2> QED BY <2>1, <2>2 DEF w
<1>3. \A j \in Inst : Screen(j)' = Screen(j)
  BY QueueStep
<1> QED BY <1>1, <1>2, <1>3, ToSearch

(* An answer reaches setDatatoUI. *)
LEMMA PostAnswers ==
  ASSUME TypeOK, TypeOK', OwnAnswers, PostData
  PROVE  Abstract!Next
<1> DEFINE p == Head(posted)
           x == p.task
<1>0. x.inst \in Inst
  <2>1. p \in Post
    BY DEF PostData, TypeOK
  <2> QED BY <2>1 DEF Post, Task
<1> PICK i \in Inst : i = x.inst
  BY <1>0
<1> DEFINE q == IF p.ret = Null THEN << >> ELSE <<ImageTask(i, p.ret)>>
<1>1. /\ posted # << >> /\ posted' = Tail(posted) /\ running' = running
      /\ x.kind = "data" /\ ui' = [ui EXCEPT ![i] = setDatatoUI(@, p.ret)]
      /\ queue' = IF p.ret = Null THEN queue ELSE Append(queue, ImageTask(i, p.ret))
  BY DEF PostData
<1>2. /\ posted \in Seq(Post) /\ queue \in Seq(Task) /\ ui \in [Inst -> UI]
  BY DEF TypeOK
<1>3. p \in Post /\ p = posted[1] /\ 1 \in DOMAIN posted
  BY <1>1, <1>2
<1>4. x \in Task /\ i \in Inst /\ p.ret \in Map \cup {Null} /\ x.arg.head \in Symbol
  <2>1. x \in Task /\ p.ret \in Map \cup {Null}
    BY <1>1, <1>3 DEF Post
  <2> QED BY <2>1, Texts DEF Task
<1>5. p.ret # Null => p.ret \in Map /\ p.ret.sym = x.arg.head
  BY <1>1, <1>3, <1>4 DEF OwnAnswers
<1> HIDE DEF p, x
<1>6. q \in Seq(Task) /\ queue' = queue \o q /\ \A j \in Inst : SearchesIn(q, j) = << >>
  <2>1. CASE p.ret = Null
    BY <1>1, <1>2, <2>1, HeadsOne
  <2>2. CASE p.ret # Null
    <3> DEFINE m == ImageTask(i, p.ret)
    <3>1. m \in Task /\ \A j \in Inst : ~DataOf(m, j)
      <4>1. p.ret.sym \in Symbol
        BY <1>4, <1>5, <2>2
      <4>2. SymbolText(p.ret.sym) \in Text \ {EmptyText}
        BY <4>1, Texts
      <4> QED BY <1>4, <4>2 DEF ImageTask, Task, DataOf
    <3> HIDE DEF m
    <3>2. q = <<m>> /\ queue' = Append(queue, m)
      BY <1>1, <2>2 DEF m
    <3>3. <<m>> \in Seq(Task) /\ Append(queue, m) = queue \o <<m>>
      BY <1>2, <3>1
    <3>4. \A j \in Inst : SearchesIn(<<m>>, j) = << >>
      BY <3>1, HeadsOne
    <3> HIDE DEF q
    <3> QED BY <3>2, <3>3, <3>4
  <2> QED BY <2>1, <2>2
<1> HIDE DEF q
<1>7. ASSUME NEW j \in Inst
      PROVE  Way(j) = SearchesIn(<<x>>, j) \o Way(j)' /\ Way(j)' \in Seq(Symbol)
  BY <1>1, <1>6, WayPost DEF x, p
<1>8. \A j \in Inst : SearchesIn(<<x>>, j) = IF j = i THEN <<x.arg.head>> ELSE << >>
  <2>1. \A j \in Inst : DataOf(x, j) <=> j = i
    BY <1>1 DEF DataOf, x
  <2> QED BY <1>4, <2>1, HeadsOne
<1>9. ASSUME NEW j \in Inst \ {i} PROVE Way(j)' = Way(j) /\ Screen(j)' = Screen(j)
  <2>1. ui'[j] = ui[j]
    BY <1>1, <1>2, <1>4
  <2> DEFINE w == Way(j)'
  <2>2. Way(j) = << >> \o w /\ w \in Seq(Symbol)
    BY <1>7, <1>8
  <2> HIDE DEF w
  <2>3. << >> \o w = w
    BY <2>2
  <2> QED BY <2>1, <2>2, <2>3, SameScreen DEF w
<1>10. Screen(i)' \in {x.arg.head, "error"}
  <2>1. ui'[i] = setDatatoUI(ui[i], p.ret) /\ ui[i] \in UI
    BY <1>1, <1>2, <1>4
  <2>2. CASE p.ret = Null
    <3>1. ui'[i].error = TRUE /\ ui'[i].result = FALSE
      BY <2>1, <2>2 DEF setDatatoUI, UI
    <3> QED BY <3>1 DEF Screen
  <2>3. CASE p.ret # Null
    <3>1. ui'[i].error = FALSE /\ ui'[i].result = TRUE /\ ui'[i].shown = p.ret
      BY <2>1, <2>3 DEF setDatatoUI, UI
    <3> QED BY <1>5, <2>3, <3>1 DEF Screen
  <2> QED BY <2>2, <2>3
<1>11. Way(i) = <<x.arg.head>> \o Way(i)' /\ Way(i)' \in Seq(Symbol)
  BY <1>4, <1>7, <1>8
<1> QED BY <1>4, <1>9, <1>10, <1>11, ToAnswer

(* Every step of the client is a step of the abstract screen or none. *)
LEMMA NextRefines ==
  ASSUME TypeOK, TypeOK', OwnAnswers, [Next]_vars
  PROVE  [Abstract!Next]_<<Searches, Screens>>
<1>0. inst \in Inst /\ queue \in Seq(Task) /\ text \in Text /\ queue \o << >> = queue
  BY DEF TypeOK
<1>1. ASSUME queue' = queue, running' = running, posted' = posted, ui' = ui
      PROVE  UNCHANGED <<Searches, Screens>>
  <2> DEFINE q == << >>
  <2>1. q \in Seq(Task) /\ queue' = queue \o q /\ \A j \in Inst : SearchesIn(q, j) = << >>
    BY <1>0, <1>1, HeadsOne
  <2> HIDE DEF q
  <2> QED BY <1>1, <2>1, NoNewSearch
<1>2. ASSUME NEW t \in Typed, TypeText(t) PROVE UNCHANGED <<Searches, Screens>>
  <2> DEFINE q == onTextChanged(inst, t)
  <2>1. /\ q \in Seq(Task) /\ \A j \in Inst : SearchesIn(q, j) = << >>
    <3>1. t \in Text
      BY Texts
    <3> QED BY <1>0, <3>1, ListSearches
  <2>2. queue' = queue \o q /\ running' = running /\ posted' = posted /\ ui' = ui
    BY <1>2 DEF TypeText
  <2> HIDE DEF q
  <2> QED BY <2>1, <2>2, NoNewSearch
<1>3. ASSUME NEW s \in Symbol, ItemClick(s) PROVE Abstract!Next
  <2> PICK i \in Inst : i = inst
    BY <1>0
  <2> DEFINE c == ItemText(s)
             t == FirstPart(c)
             o == onTextChanged(i, c)
             l == onTextChanged(i, t)
             d == getStockData(i, t)
             q == Cat3(o, l, d)
  <2>1. c \in Text /\ t \in Text /\ t # EmptyText /\ t.head = s
    BY Texts DEF SymbolText
  <2>2. /\ queue' = queue \o o \o l \o d /\ running' = running /\ posted' = posted /\ ui' = ui
    BY <1>3 DEF ItemClick
  <2> HIDE DEF c, t
  <2>3. o \in Seq(Task) /\ l \in Seq(Task) /\ d \in Seq(Task)
    BY <2>1, ListSearches
  <2>4. \A j \in Inst : /\ SearchesIn(o, j) = << >> /\ SearchesIn(l, j) = << >>
                        /\ SearchesIn(d, j) = IF i # j THEN << >> ELSE <<s>>
    BY <2>1, ListSearches
  <2> HIDE DEF o, l, d
  <2>5. q \in Seq(Task) /\ queue' = queue \o q
    <3>1. Cat(o, l) \in Seq(Task) /\ Cat(Cat(queue, o), l) = Cat(queue, Cat(o, l))
      BY <1>0, <2>3, CatFacts
    <3>2. /\ Cat(Cat(o, l), d) \in Seq(Task)
          /\ Cat(Cat(queue, Cat(o, l)), d) = Cat(queue, Cat(Cat(o, l), d))
      BY <1>0, <2>3, <3>1, CatFacts
    <3>3. queue' = Cat(Cat(Cat(queue, o), l), d)
      BY <2>2 DEF Cat
    <3>4. q \in Seq(Task) /\ queue' = Cat(queue, q)
      BY <3>1, <3>2, <3>3 DEF Cat3
    <3> HIDE DEF q
    <3> QED BY <3>4 DEF Cat
  <2>6. \A j \in Inst : SearchesIn(q, j) = IF i # j THEN << >> ELSE <<s>>
    <3> SUFFICES ASSUME NEW j \in Inst PROVE SearchesIn(q, j) = IF i # j THEN << >> ELSE <<s>>
      OBVIOUS
    <3>1. SearchesIn(q, j) = Cat3(SearchesIn(o, j), SearchesIn(l, j), SearchesIn(d, j))
      BY <2>3, WayParts
    <3> DEFINE e == SearchesIn(d, j)
    <3>2. e \in Seq(Symbol) /\ e = IF i # j THEN << >> ELSE <<s>>
      BY <2>3, <2>4, HeadsOne
    <3> HIDE DEF e, q
    <3>3. SearchesIn(q, j) = Cat(Cat(<< >>, << >>), e)
      BY <2>4, <3>1 DEF Cat3, e
    <3>4. Cat(Cat(<< >>, << >>), e) = e
      <4>1. Cat(<< >>, << >>) = << >>
        BY DEF Cat
      <4> QED BY <3>2, <4>1, CatFacts
    <3> QED BY <3>2, <3>3, <3>4
  <2> HIDE DEF q
  <2> QED BY <2>2, <2>5, <2>6, NewSearch
<1>4. ASSUME SearchClick PROVE [Abstract!Next]_<<Searches, Screens>>
  <2> PICK i \in Inst : i = inst
    BY <1>0
  <2> PICK t \in Text : t = text
    BY <1>0
  <2> DEFINE q == getStockData(i, t)
  <2>1. queue' = queue \o q /\ running' = running /\ posted' = posted /\ ui' = ui
    BY <1>4 DEF SearchClick
  <2>2. q \in Seq(Task)
    BY ListSearches
  <2>3. \A j \in Inst : SearchesIn(q, j) = IF t = EmptyText \/ i # j THEN << >> ELSE <<t.head>>
    BY ListSearches
  <2> HIDE DEF q
  <2>4. CASE t = EmptyText
    BY <2>1, <2>2, <2>3, <2>4, NoNewSearch
  <2>5. CASE t # EmptyText
    <3>1. t.head \in Symbol /\ \A j \in Inst : SearchesIn(q, j) = IF i # j THEN << >> ELSE <<t.head>>
      BY <2>3, <2>5, Texts
    <3> QED BY <2>1, <2>2, <3>1, NewSearch
  <2> QED BY <2>4, <2>5
<1>5. ASSUME NewsClick \/ BackFromNews \/ UNCHANGED vars PROVE UNCHANGED <<Searches, Screens>>
  BY <1>1, <1>5 DEF NewsClick, BackFromNews, vars
<1>6. ASSUME NEW t \in {text, EmptyText}, Recreate(t) PROVE UNCHANGED <<Searches, Screens>>
  <2> DEFINE q == onTextChanged(inst + 1, t)
  <2>1. inst + 1 \in Inst /\ t \in Text
    BY <1>0, <1>6, Insts, Texts DEF Recreate
  <2>2. /\ q \in Seq(Task) /\ \A j \in Inst : SearchesIn(q, j) = << >>
    BY <2>1, ListSearches
  <2>3. queue' = queue \o q /\ running' = running /\ posted' = posted /\ ui' = ui
    BY <1>6 DEF Recreate
  <2> HIDE DEF q
  <2> QED BY <2>2, <2>3, NoNewSearch
<1>7. ASSUME StartTask PROVE UNCHANGED <<Searches, Screens>>
  <2>1. ui' = ui
    BY <1>7 DEF StartTask
  <2>2. \A j \in Inst : Way(j)' = Way(j) /\ Screen(j)' = Screen(j)
    BY <1>7, <2>1, WayStart, SameScreen
  <2> QED BY <2>2, ToSame
<1>8. ASSUME NEW r \in running, NEW q, running' = (running \ {r}) \cup {q}, q.task = r.task,
             queue' = queue, posted' = posted, ui' = ui
      PROVE  UNCHANGED <<Searches, Screens>>
  <2>1. \A j \in Inst : Way(j)' = Way(j) /\ Screen(j)' = Screen(j)
    BY <1>8, WayRuns, SameScreen
  <2> QED BY <2>1, ToSame
<1>9. ASSUME NEW r \in running, Hang(r) PROVE UNCHANGED <<Searches, Screens>>
  <2>1. r \in Run
    BY DEF TypeOK
  <2> DEFINE q == [r EXCEPT !.pc = "hung"]
  <2>2. q.task = r.task
    BY <2>1 DEF Run
  <2>3. running' = (running \ {r}) \cup {q} /\ queue' = queue /\ posted' = posted /\ ui' = ui
    BY <1>9 DEF Hang
  <2> HIDE DEF q
  <2> QED BY <1>8, <2>2, <2>3
<1>10. ASSUME NEW r \in running, NEW b \in Body, FetchParses(r, b)
       PROVE  UNCHANGED <<Searches, Screens>>
  <2>1. r \in Run /\ r.pc = "fetch"
    BY <1>10 DEF TypeOK, FetchParses
  <2> DEFINE q == [r EXCEPT !.pc = "extract", !.body = b]
  <2>2. q.task = r.task
    BY <2>1, RunType
  <2>3. running' = (running \ {r}) \cup {q} /\ queue' = queue /\ posted' = posted /\ ui' = ui
    BY <1>10 DEF FetchParses
  <2> HIDE DEF q
  <2> QED BY <1>8, <2>2, <2>3
<1>11. ASSUME NEW r \in running, NEW ret, Finish(r, ret), queue' = queue,
              \A j \in Inst : Screen(j)' = Screen(j)
       PROVE  UNCHANGED <<Searches, Screens>>
  <2>1. \A j \in Inst : Way(j)' = Way(j) /\ Screen(j)' = Screen(j)
    BY <1>11, WayFinish
  <2> QED BY <2>1, ToSame
<1>12. ASSUME ui' = ui PROVE \A j \in Inst : Screen(j)' = Screen(j)
  BY <1>12, SameScreen
<1>13. ASSUME NEW r \in running, NEW ret, FetchFails(r, ret) PROVE UNCHANGED <<Searches, Screens>>
  BY <1>11, <1>12, <1>13 DEF FetchFails
<1>14. ASSUME NEW r \in running, Extract(r) PROVE UNCHANGED <<Searches, Screens>>
  <2> PICK ret : ret = Extracted(r.task.kind, jObject)
    OBVIOUS
  <2>1. Finish(r, ret) /\ queue' = queue /\ ui' = ui
    BY <1>14 DEF Extract
  <2> QED BY <1>11, <1>12, <2>1
<1>15. ASSUME NEW r \in running, NEW bitmap, LoadImage(r, bitmap)
       PROVE  UNCHANGED <<Searches, Screens>>
  <2>1. /\ Finish(r, Null) /\ queue' = queue /\ ui' = [ui EXCEPT ![r.task.inst].chart = bitmap]
        /\ ui \in [Inst -> UI]
    BY <1>15 DEF LoadImage, TypeOK
  <2>2. ASSUME NEW j \in Inst PROVE Screen(j)' = Screen(j)
    <3>1. ui'[j].error = ui[j].error /\ ui'[j].result = ui[j].result /\ ui'[j].shown = ui[j].shown
      BY <2>1 DEF UI
    <3> QED BY <3>1, SameScreen
  <2> QED BY <1>11, <2>1, <2>2
<1>16. ASSUME PostList PROVE UNCHANGED <<Searches, Screens>>
  <2> DEFINE p == Head(posted)
             x == p.task
             q == << >>
  <2>1. /\ posted # << >> /\ posted' = Tail(posted) /\ running' = running /\ queue' = queue
        /\ x.kind = "list" /\ ui \in [Inst -> UI]
        /\ ui' = IF p.ret \in {Null, {}} THEN ui ELSE [ui EXCEPT ![x.inst].list = p.ret]
    BY <1>16 DEF PostList, TypeOK
  <2>2. q \in Seq(Task) /\ queue' = queue \o q /\ \A j \in Inst : SearchesIn(q, j) = << >>
    BY <1>0, <2>1, HeadsOne
  <2> HIDE DEF q
  <2>3. ASSUME NEW j \in Inst PROVE Way(j)' = Way(j)
    <3>1. x \in Task /\ Way(j) = SearchesIn(<<x>>, j) \o Way(j)' /\ Way(j)' \in Seq(Symbol)
      BY <2>1, <2>2, WayPost
    <3>2. SearchesIn(<<x>>, j) = << >>
      <4>1. ~DataOf(x, j)
        BY <2>1 DEF DataOf
      <4> QED BY <3>1, <4>1, HeadsOne
    <3> DEFINE w == Way(j)'
    <3>3. Way(j) = << >> \o w /\ w \in Seq(Symbol)
      BY <3>1, <3>2
    <3> HIDE DEF w
    <3>4. << >> \o w = w
      BY <3>3
    <3> QED BY <3>3, <3>4 DEF w
  <2>4. ASSUME NEW j \in Inst PROVE Screen(j)' = Screen(j)
    <3>1. ui'[j].error = ui[j].error /\ ui'[j].result = ui[j].result /\ ui'[j].shown = ui[j].shown
      BY <2>1 DEF UI
    <3> QED BY <3>1, SameScreen
  <2> QED BY <2>3, <2>4, ToSame
<1>17. PostData => Abstract!Next
  BY PostAnswers
<1> QED BY <1>2, <1>3, <1>4, <1>5, <1>6, <1>7, <1>9, <1>10, <1>13, <1>14, <1>15, <1>16, <1>17
        DEF Next, User, Background, MainLooper

LEMMA InitRefines == Init => Abstract!Init
<1> SUFFICES ASSUME Init PROVE Abstract!Init
  OBVIOUS
<1>1. posted = << >> /\ running = {} /\ queue = << >> /\ ui = [i \in Inst |-> onCreate]
  BY DEF Init
<1>2. UnderWay = << >>
  <2>1. PostedTasks(<< >>) = << >>
    BY DEF PostedTasks
  <2>2. RunningTasks({}) = << >>
    BY DEF RunningTasks
  <2>3. UnderWay = << >> \o << >> \o << >>
    BY <1>1, <2>1, <2>2 DEF UnderWay
  <2> QED BY <2>3
<1>3. ASSUME NEW i \in Inst PROVE SearchesIn(UnderWay, i) = << >> /\ Screen(i) = "blank"
  <2>1. SearchesIn(UnderWay, i) = << >>
    BY <1>2, HeadsOne
  <2>2. ui[i].error = FALSE /\ ui[i].result = FALSE
    BY <1>1 DEF onCreate
  <2> QED BY <2>1, <2>2 DEF Screen
<1> QED BY <1>3 DEF Abstract!Init, Searches, Screens

(* The Android client implements the abstract search screen, for any       *)
(* number of symbols, instances and events: tasks, the two threads, the    *)
(* shared static field, suggestions, charts and rotations hidden, every    *)
(* search is answered on the screen it was made on, in order, by its own   *)
(* stock or by the error message.                                          *)
THEOREM ClientRefines == Spec => RefinesSearchScreen
<1>1. TypeOK /\ TypeOK' /\ NoOvertaking /\ [Next]_vars => [Abstract!Next]_<<Searches, Screens>>
  BY NextRefines DEF NoOvertaking
<1> QED BY <1>1, InitRefines, TypeCorrect, SearchesKeepOrder, PTL
        DEF Spec, RefinesSearchScreen, Abstract!Spec
=============================================================================
