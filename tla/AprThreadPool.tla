--------------------------- MODULE AprThreadPool ----------------------------
(***************************************************************************)
(* apr_thread_pool_t of apr-util.  Worker threads take tasks by priority,  *)
(* or scheduled tasks when they are due, and sleep on one condition        *)
(* variable when there is nothing to do.  Clients submit and cancel tasks, *)
(* change the number of idle threads and destroy the pool.                 *)
(*                                                                         *)
(* A critical section of me->lock is one action.  terminated and idle_max  *)
(* are written without the lock: a worker inside its critical section may  *)
(* find terminated set halfway.  task_cnt, scheduled_task_cnt and idle_cnt *)
(* change together with their rings and are the lengths of these.          *)
(* thread_max_set is left out: with busy threads it writes null pointers   *)
(* into the ring of busy threads.                                          *)
(***************************************************************************)
EXTENDS Naturals, Sequences, FiniteSets, SequencesExt

CONSTANTS
  Workers,            \* the threads there may be at a time
  Tasks,              \* each is submitted at most once
  NULL,
  Priority, Owner,    \* of each task
  init_threads, thd_max,
  IdleMaxes,          \* the values a client passes to idle_max_set
  IdleWaits,          \* and to idle_wait_set: 0 or not
  Thresholds,         \* and to threshold_set
  Clients

ASSUME PriorityAssumption == Priority \in [Tasks -> 0 .. 255]
ASSUME SizeAssumption ==
  init_threads \in Nat /\ thd_max \in Nat /\ IdleMaxes \subseteq Nat
ASSUME WorkersAssumption == IsFiniteSet(Workers)
ASSUME NullAssumption == NULL \notin Tasks

VARIABLES
  tasks,        \* me->tasks
  task_idx,     \* per priority segment, a task of the segment
  scheduled,    \* me->scheduled_tasks
  due,          \* how many of them are due
  idle,         \* me->idle_thds
  thd_cnt, idle_max, idle_wait, threshold, terminated,
  loc,          \* where each worker is
  state,        \* elt->state
  cur,          \* the task it runs
  timed,        \* it sleeps in timedwait
  client,       \* what each client is doing
  finished,     \* the tasks that were run
  gone,         \* the tasks that were cancelled, or dropped at the end
  refused,      \* the tasks whose submission returned an error
  accepted,     \* history: the tasks that were ever put into a ring
  cancelled     \* history: those of gone that a client cancelled

queues == <<tasks, task_idx, scheduled, due>>
workers == <<idle, thd_cnt, loc, state, cur, timed>>
settings == <<idle_max, idle_wait, threshold, terminated>>
vars == <<queues, workers, settings, client, finished, gone, refused, accepted, cancelled>>

Running == {cur[w] : w \in {v \in Workers : loc[v] = "busy"}}
Pending == ToSet(tasks) \cup ToSet(scheduled)
Accounted == Pending \cup Running \cup finished \cup gone

TASK_PRIORITY_SEG(t) == Priority[t] \div 64

-----------------------------------------------------------------------------
(* The rings. *)

(* APR_RING_REMOVE of the members of out: the others keep their order.     *)
RingRemove(ring, out) ==
  LET kept == {i \in 1 .. Len(ring) : ring[i] \notin out}
  IN  [i \in 1 .. Cardinality(kept) |->
         ring[CHOOSE k \in kept : Cardinality({j \in kept : j <= k}) = i]]

Pos(t) == CHOOSE i \in 1 .. Len(tasks) : tasks[i] = t

(* The first place at or after i whose task has a priority below p, or,    *)
(* with same, not above p; the end of the ring if there is none.           *)
PlaceFrom(i, p, same) ==
  LET fits == {j \in i .. Len(tasks) :
                 Priority[tasks[j]] < p \/ (same /\ Priority[tasks[j]] = p)}
  IN  IF fits = {} THEN Len(tasks) + 1 ELSE CHOOSE j \in fits : \A k \in fits : j <= k

LowerSegs(seg) == {s \in 0 .. 3 : s < seg /\ task_idx[s] # NULL}

(* add_if_empty, and the rest of the insertion in add_task. *)
Place(t, push) ==
  LET seg == TASK_PRIORITY_SEG(t)
  IN  IF task_idx[seg] # NULL THEN PlaceFrom(Pos(task_idx[seg]), Priority[t], ~push)
      ELSE IF LowerSegs(seg) = {} THEN Len(tasks) + 1
      ELSE Pos(task_idx[CHOOSE s \in LowerSegs(seg) : \A r \in LowerSegs(seg) : r <= s])

InsertTask(t, push) ==
  LET seg == TASK_PRIORITY_SEG(t)
      at == Place(t, push)
  IN  /\ tasks' = InsertAt(tasks, at, t)
      /\ task_idx' = IF task_idx[seg] = NULL \/ (~push /\ at = Pos(task_idx[seg]))
                       THEN [task_idx EXCEPT ![seg] = t] ELSE task_idx

(* The index after the first task has left the ring: the next task of the  *)
(* segment.                                                                *)
Unindexed ==
  LET seg == TASK_PRIORITY_SEG(Head(tasks))
      more == Len(tasks) > 1 /\ TASK_PRIORITY_SEG(tasks[2]) = seg
  IN  IF task_idx[seg] # Head(tasks) THEN task_idx
      ELSE [task_idx EXCEPT ![seg] = IF more THEN tasks[2] ELSE NULL]

(* pop_task: a task that is due, or the first one. *)
HasTask == due > 0 \/ tasks # << >>
NextTask == IF due > 0 THEN Head(scheduled) ELSE Head(tasks)

(* Mutant: the index is left alone. *)
pop_taskKeepsIdx ==
  IF due > 0
    THEN /\ scheduled' = Tail(scheduled) /\ due' = due - 1
         /\ UNCHANGED <<tasks, task_idx>>
    ELSE /\ tasks' = Tail(tasks)
         /\ UNCHANGED <<task_idx, scheduled, due>>

(* Mutant: a due task stays in the ring. *)
pop_taskKeepsDue ==
  IF due > 0
    THEN due' = due - 1 /\ UNCHANGED <<tasks, task_idx, scheduled>>
    ELSE /\ tasks' = Tail(tasks)
         /\ task_idx' = Unindexed
         /\ UNCHANGED <<scheduled, due>>

pop_task ==
  IF due > 0
    THEN /\ scheduled' = Tail(scheduled) /\ due' = due - 1
         /\ UNCHANGED <<tasks, task_idx>>
    ELSE /\ tasks' = Tail(tasks)
         /\ task_idx' = Unindexed
         /\ UNCHANGED <<scheduled, due>>

(* Time passes. *)
Tick ==
  /\ due < Len(scheduled)
  /\ due' = due + 1
  /\ UNCHANGED <<tasks, task_idx, scheduled, workers, settings, client,
               finished, gone, refused, accepted, cancelled>>

-----------------------------------------------------------------------------
(* Signals and new threads. *)

Signal(l) ==
  LET asleep == {w \in Workers : l[w] = "idle"}
  IN  IF asleep = {} THEN {l} ELSE {[l EXCEPT ![w] = "woken"] : w \in asleep}

(* Mutant: only a new thread is given the task. *)
CreateWithoutSignal(need, t) ==
  \/ /\ need
     /\ \E w \in Workers : loc[w] = "none" /\ loc' = [loc EXCEPT ![w] = "starting"]
     /\ thd_cnt' = thd_cnt + 1
     /\ UNCHANGED <<idle, state, cur, timed, refused>>
  \/ /\ refused' = IF need THEN refused \cup {t} ELSE refused
     /\ UNCHANGED workers

(* A thread is needed: apr_thread_create; then the signal.  When it fails  *)
(* the caller gets the error, but t stays in its ring.                     *)
CreateAndSignal(need, t) ==
  \/ /\ need
     /\ \E w \in Workers :
          /\ loc[w] = "none"
          /\ loc' \in Signal([loc EXCEPT ![w] = "starting"])
     /\ thd_cnt' = thd_cnt + 1
     /\ UNCHANGED <<idle, state, cur, timed, refused>>
  \/ /\ loc' \in Signal(loc)
     /\ refused' = IF need THEN refused \cup {t} ELSE refused
     /\ UNCHANGED <<idle, thd_cnt, state, cur, timed>>

(* A wakeup by the system, or by the end of a timed wait. *)
Wakeup(w) ==
  /\ loc[w] = "idle"
  /\ loc' = [loc EXCEPT ![w] = "woken"]
  /\ UNCHANGED <<queues, idle, thd_cnt, state, cur, timed, settings, client,
               finished, gone, refused, accepted, cancelled>>

-----------------------------------------------------------------------------
(* thread_pool_func.  i is the idle ring without the worker. *)

(* A worker that becomes idle.  waiting_time() may be negative when a      *)
(* scheduled task has become due since pop_task: the wait has no end.      *)
Sleep(w, i) ==
  /\ idle' = Append(i, w)
  /\ loc' = [loc EXCEPT ![w] = "idle"]
  /\ IF scheduled # << >>
       THEN \E late \in BOOLEAN :
              /\ timed' = [timed EXCEPT ![w] = ~late]
              /\ due' = IF late THEN 1 ELSE due
              /\ UNCHANGED state
       ELSE /\ timed' = [timed EXCEPT ![w] = Len(i) + 1 > idle_max]
            /\ state' = IF Len(i) + 1 > idle_max THEN [state EXCEPT ![w] = "TH_PROBATION"]
                        ELSE state
            /\ UNCHANGED due
  /\ cur' = [cur EXCEPT ![w] = NULL]
  /\ UNCHANGED <<tasks, task_idx, scheduled, thd_cnt, gone>>

(* Mutant: the thread is not counted out. *)
LeaveUncounted(w, i) ==
  /\ idle' = i
  /\ loc' = [loc EXCEPT ![w] = "none"]
  /\ cur' = [cur EXCEPT ![w] = NULL]
  /\ timed' = [timed EXCEPT ![w] = FALSE]
  /\ state' = [state EXCEPT ![w] = "TH_RUN"]
  /\ UNCHANGED thd_cnt

(* The worker's thread is detached and ends. *)
Leave(w, i) ==
  /\ idle' = i
  /\ thd_cnt' = thd_cnt - 1
  /\ loc' = [loc EXCEPT ![w] = "none"]
  /\ cur' = [cur EXCEPT ![w] = NULL]
  /\ timed' = [timed EXCEPT ![w] = FALSE]
  /\ state' = [state EXCEPT ![w] = "TH_RUN"]      \* as elt_new sets it

Surplus(i) == Len(i) >= idle_max /\ ~(scheduled # << >> /\ idle_max = 0) /\ ~idle_wait

(* Mutant: a worker whose wait has timed out leaves with the task it has   *)
(* just taken.                                                             *)
WorkLeavesWithTask(w, i, stop) ==
  \/ /\ HasTask /\ ~stop
     /\ pop_task
     /\ UNCHANGED gone
     /\ IF state[w] # "TH_RUN"
          THEN Leave(w, i)
          ELSE /\ loc' = [loc EXCEPT ![w] = "busy"]
               /\ cur' = [cur EXCEPT ![w] = NextTask]
               /\ timed' = [timed EXCEPT ![w] = FALSE]
               /\ idle' = i
               /\ UNCHANGED <<thd_cnt, state>>
  \/ /\ HasTask /\ stop
     /\ pop_task
     /\ gone' = gone \cup {NextTask}
     /\ Leave(w, i)
  \/ /\ ~HasTask
     /\ IF Surplus(i) \/ stop \/ state[w] # "TH_RUN"
          THEN Leave(w, i) /\ UNCHANGED <<queues, gone>>
          ELSE Sleep(w, i)

(* From the insertion into the busy ring on.  stop: terminated as it is    *)
(* read there.                                                             *)
Work(w, i, stop) ==
  \/ /\ HasTask /\ ~stop
     /\ pop_task
     /\ loc' = [loc EXCEPT ![w] = "busy"]
     /\ cur' = [cur EXCEPT ![w] = NextTask]
     /\ timed' = [timed EXCEPT ![w] = FALSE]
     /\ idle' = i
     /\ UNCHANGED <<thd_cnt, state, gone>>
  \/ /\ HasTask /\ stop       \* the task is taken out and not run
     /\ pop_task
     /\ gone' = gone \cup {NextTask}
     /\ Leave(w, i)
  \/ /\ ~HasTask
     /\ IF Surplus(i) \/ stop \/ state[w] # "TH_RUN"
          THEN Leave(w, i) /\ UNCHANGED <<queues, gone>>
          ELSE Sleep(w, i)

(* terminated may be set while the worker is in its critical section. *)
Late == {c \in Clients : client[c] = [op |-> "destroy", at |-> "terminate"]}

WorkRaced(w, i) ==
  \/ Work(w, i, terminated) /\ UNCHANGED <<terminated, client>>
  \/ \E c \in Late :
       /\ Work(w, i, TRUE)
       /\ terminated' = TRUE
       /\ client' = [client EXCEPT ![c].at = "idle_max"]

(* The first lock, or the lock after a wait. *)
LoopTop(w) ==
  /\ loc[w] \in {"starting", "woken"}
  /\ IF terminated \/ state[w] = "TH_STOP"
       THEN /\ thd_cnt' = thd_cnt - 1
            /\ loc' = [loc EXCEPT ![w] = "exited"]
            /\ timed' = [timed EXCEPT ![w] = FALSE]
            /\ UNCHANGED <<queues, idle, state, cur, terminated, client, gone>>
       ELSE WorkRaced(w, RingRemove(idle, {w}))
  /\ UNCHANGED <<idle_max, idle_wait, threshold, finished, refused, accepted, cancelled>>

(* The task returns; the worker takes the lock and the next task. *)
TaskDone(w) ==
  /\ loc[w] = "busy"
  /\ finished' = finished \cup {cur[w]}
  /\ WorkRaced(w, idle)
  /\ UNCHANGED <<idle_max, idle_wait, threshold, refused, accepted, cancelled>>

-----------------------------------------------------------------------------
(* Submitting tasks. *)

add_task(t, push) ==
  /\ ~terminated
  /\ t \notin accepted
  /\ accepted' = accepted \cup {t}
  /\ InsertTask(t, push)
  /\ LET need == \/ thd_cnt = 0
                 \/ idle = << >> /\ thd_cnt < thd_max /\ Len(tasks) + 1 > threshold
     IN  CreateAndSignal(need, t)
  /\ UNCHANGED <<scheduled, due, settings, client, finished, gone, cancelled>>

(* The new task, due later than now, has its place among the others. *)
schedule_task(t) ==
  /\ ~terminated
  /\ t \notin accepted
  /\ accepted' = accepted \cup {t}
  /\ \E at \in due + 1 .. Len(scheduled) + 1 : scheduled' = InsertAt(scheduled, at, t)
  /\ CreateAndSignal(thd_cnt = 0, t)
  /\ UNCHANGED <<tasks, task_idx, due, settings, client, finished, gone, cancelled>>

-----------------------------------------------------------------------------
(* The other calls of the clients, in steps. *)

Idle(c) == client[c] = [op |-> "none"]
At(c, op, at) == client[c].op = op /\ client[c].at = at
Goto(c, at) == client' = [client EXCEPT ![c].at = at]
Returns(c) == client' = [client EXCEPT ![c] = [op |-> "none"]]

OwnedBy(o) == {t \in Tasks : Owner[t] = o}

(* remove_tasks: the ring is walked, and the index of a segment moves on   *)
(* from a task that is taken out while the next one is of the segment too. *)
IndexAfterRemoval(o, seg) ==
  LET from == Pos(task_idx[seg])
      kept == {j \in from .. Len(tasks) :
                 /\ \A k \in from .. j : TASK_PRIORITY_SEG(tasks[k]) = seg
                 /\ \A k \in from .. j : Owner[tasks[k]] = o <=> k < j}
  IN  IF task_idx[seg] = NULL \/ kept = {} THEN NULL
      ELSE tasks[CHOOSE j \in kept : TRUE]

(* apr_thread_pool_tasks_cancel, up to the first unlock. *)
tasks_cancel(c, o) ==
  /\ Idle(c)
  /\ client' = [client EXCEPT ![c] =
                  [op |-> "cancel", at |-> "wait",
                   owned |-> OwnedBy(o) \cap (Pending \cup Running)]]
  /\ tasks' = RingRemove(tasks, OwnedBy(o))
  /\ task_idx' = [seg \in 0 .. 3 |-> IndexAfterRemoval(o, seg)]
  /\ scheduled' = RingRemove(scheduled, OwnedBy(o))
  /\ due' = Cardinality({i \in 1 .. due : Owner[scheduled[i]] # o})
  /\ gone' = gone \cup (Pending \cap OwnedBy(o))
  /\ cancelled' = cancelled \cup (Pending \cap OwnedBy(o))
  /\ UNCHANGED <<workers, settings, finished, refused, accepted>>

(* Mutant: threads that run a task of the owner are not waited for. *)
wait_on_busy_threadsNot(c) ==
  /\ At(c, "cancel", "wait")
  /\ Returns(c)
  /\ UNCHANGED <<queues, workers, settings, finished, gone, refused, accepted, cancelled>>

(* A walk along the busy ring finds no task of the owner. *)
wait_on_busy_threads(c) ==
  /\ At(c, "cancel", "wait")
  /\ \A t \in client[c].owned, r \in Running : Owner[r] # Owner[t]
  /\ Returns(c)
  /\ UNCHANGED <<queues, workers, settings, finished, gone, refused, accepted, cancelled>>

idle_wait_set(v) ==
  /\ idle_wait' = v
  /\ UNCHANGED <<queues, workers, idle_max, threshold, terminated, client,
               finished, gone, refused, accepted, cancelled>>

threshold_set(v) ==
  /\ threshold' = v
  /\ UNCHANGED <<queues, workers, idle_max, idle_wait, terminated, client,
               finished, gone, refused, accepted, cancelled>>

(* apr_thread_pool_idle_max_set: the new value, without the lock. *)
idle_max_set(c, cnt) ==
  /\ Idle(c) /\ ~terminated
  /\ idle_max' = cnt
  /\ client' = [client EXCEPT ![c] = [op |-> "idle_max_set", at |-> "trim", cnt |-> cnt]]
  /\ UNCHANGED <<queues, workers, idle_wait, threshold, terminated,
               finished, gone, refused, accepted, cancelled>>

(* trim_threads(me, &cnt, 1): the threads after the first cnt are taken    *)
(* out of the idle ring and told to stop.                                  *)
trim_threads(c) ==
  /\ client[c].op \in {"idle_max_set", "destroy"} /\ client[c].at = "trim"
  /\ LET keep == IF client[c].op = "destroy" THEN 0 ELSE client[c].cnt
         out == IF Len(idle) <= keep THEN << >> ELSE SubSeq(idle, keep + 1, Len(idle))
     IN  /\ idle' = IF Len(idle) <= keep THEN idle ELSE SubSeq(idle, 1, keep)
         /\ state' = [w \in Workers |-> IF w \in ToSet(out) THEN "TH_STOP" ELSE state[w]]
         /\ client' = [client EXCEPT ![c] =
                         [op |-> client[c].op, at |-> "broadcast", join |-> ToSet(out)]]
  /\ UNCHANGED <<queues, thd_cnt, loc, cur, timed, settings,
               finished, gone, refused, accepted, cancelled>>

(* Mutant: only one thread is woken. *)
BroadcastOne(c) ==
  /\ client[c].op \in {"idle_max_set", "destroy"} /\ client[c].at = "broadcast"
  /\ loc' \in Signal(loc)
  /\ Goto(c, "join")
  /\ UNCHANGED <<queues, idle, thd_cnt, state, cur, timed, settings,
               finished, gone, refused, accepted, cancelled>>

(* trim_idle_threads: the broadcast in a critical section of its own. *)
Broadcast(c) ==
  /\ client[c].op \in {"idle_max_set", "destroy"} /\ client[c].at = "broadcast"
  /\ loc' = [w \in Workers |-> IF loc[w] = "idle" THEN "woken" ELSE loc[w]]
  /\ Goto(c, "join")
  /\ UNCHANGED <<queues, idle, thd_cnt, state, cur, timed, settings,
               finished, gone, refused, accepted, cancelled>>

(* The stopped threads are joined. *)
Join(c) ==
  /\ client[c].op \in {"idle_max_set", "destroy"} /\ client[c].at = "join"
  /\ \A w \in client[c].join : loc[w] = "exited"
  /\ loc' = [w \in Workers |-> IF w \in client[c].join THEN "none" ELSE loc[w]]
  /\ state' = [w \in Workers |-> IF w \in client[c].join THEN "TH_RUN" ELSE state[w]]
  /\ IF client[c].op = "destroy" THEN Goto(c, "spin") ELSE Returns(c)
  /\ UNCHANGED <<queues, idle, thd_cnt, cur, timed, settings,
               finished, gone, refused, accepted, cancelled>>

(* apr_thread_pool_destroy, called once, when no other call is under way. *)
destroy(c) ==
  /\ ~terminated /\ \A d \in Clients : Idle(d)
  /\ client' = [client EXCEPT ![c] = [op |-> "destroy", at |-> "terminate"]]
  /\ UNCHANGED <<queues, workers, settings, finished, gone, refused, accepted, cancelled>>

(* thread_pool_cleanup, in steps. *)
CleanupTerminates(c) ==
  /\ At(c, "destroy", "terminate")
  /\ terminated' = TRUE
  /\ Goto(c, "idle_max")
  /\ UNCHANGED <<queues, workers, idle_max, idle_wait, threshold,
               finished, gone, refused, accepted, cancelled>>

CleanupIdleMax(c) ==
  /\ At(c, "destroy", "idle_max")
  /\ idle_max' = 0
  /\ Goto(c, "trim")
  /\ UNCHANGED <<queues, workers, idle_wait, threshold, terminated,
               finished, gone, refused, accepted, cancelled>>

CleanupReturns(c) ==
  /\ At(c, "destroy", "spin")
  /\ thd_cnt = 0
  /\ client' = [client EXCEPT ![c] = [op |-> "destroyed"]]
  /\ UNCHANGED <<queues, workers, settings, finished, gone, refused, accepted, cancelled>>

-----------------------------------------------------------------------------
Init ==  \* apr_thread_pool_create, thread_pool_construct
  /\ tasks = << >> /\ scheduled = << >> /\ due = 0 /\ idle = << >>
  /\ task_idx = [s \in 0 .. 3 |-> NULL]
  /\ thd_cnt = init_threads
  /\ idle_max = init_threads
  /\ idle_wait = FALSE
  /\ threshold = init_threads \div 2
  /\ terminated = FALSE
  /\ \E first \in SUBSET Workers :
       /\ Cardinality(first) = init_threads
       /\ loc = [w \in Workers |-> IF w \in first THEN "starting" ELSE "none"]
  /\ state = [w \in Workers |-> "TH_RUN"]
  /\ cur = [w \in Workers |-> NULL]
  /\ timed = [w \in Workers |-> FALSE]
  /\ client = [c \in Clients |-> [op |-> "none"]]
  /\ finished = {} /\ gone = {} /\ refused = {} /\ accepted = {} /\ cancelled = {}

Worker(w) == LoopTop(w) \/ TaskDone(w)

Client(c) ==
  \/ wait_on_busy_threads(c)
  \/ trim_threads(c)
  \/ Broadcast(c)
  \/ Join(c)
  \/ CleanupTerminates(c)
  \/ CleanupIdleMax(c)
  \/ CleanupReturns(c)

Next ==
  \/ \E w \in Workers : Worker(w) \/ Wakeup(w)
  \/ \E t \in Tasks : (\E push \in BOOLEAN : add_task(t, push)) \/ schedule_task(t)
  \/ \E c \in Clients :
       \/ Client(c)
       \/ \E o \in {Owner[t] : t \in Tasks} : tasks_cancel(c, o)
       \/ \E cnt \in IdleMaxes : idle_max_set(c, cnt)
       \/ destroy(c)
  \/ \E v \in IdleWaits : idle_wait_set(v)
  \/ \E v \in Thresholds : threshold_set(v)
  \/ Tick

Spec == Init /\ [][Next]_vars

(* Workers and clients inside a call are scheduled, tasks return, time     *)
(* passes and timed waits end.                                             *)
FairSpec ==
  /\ Spec
  /\ \A w \in Workers : WF_vars(Worker(w)) /\ WF_vars(timed[w] /\ Wakeup(w))
  /\ \A c \in Clients : WF_vars(Client(c))
  /\ WF_vars(Tick)

-----------------------------------------------------------------------------
Alive == {w \in Workers : loc[w] \in {"starting", "busy", "idle", "woken"}}

(* The counters and rings agree with what the threads do: thd_cnt counts   *)
(* the threads that have not left, the idle ring holds the sleeping ones,  *)
(* those that were told to stop aside, and no worker is in it twice.       *)
TypeOK ==
  /\ tasks \in Seq(Tasks) /\ scheduled \in Seq(Tasks)
  /\ due \in 0 .. Len(scheduled)
  /\ thd_cnt = Cardinality(Alive)
  /\ IsInjective(idle)
  /\ \A w \in Workers : loc[w] \in {"idle", "woken"} =>
       (w \in ToSet(idle) <=> state[w] # "TH_STOP")
  /\ \A w \in ToSet(idle) : loc[w] \in {"idle", "woken", "exited"}

(* A non-null task_idx[seg], which add_if_empty dereferences, is a queued  *)
(* task of that segment, whatever was popped or cancelled.                 *)
IndexNotDangling ==
  \A s \in 0 .. 3 :
    task_idx[s] # NULL => task_idx[s] \in ToSet(tasks) /\ TASK_PRIORITY_SEG(task_idx[s]) = s

(* No accepted task is lost or run twice: each is in one ring once, held   *)
(* by one worker, run, cancelled or, from terminated on, dropped.          *)
TaskInOnePlace ==
  /\ accepted = Accounted
  /\ ~terminated => gone = cancelled
  /\ IsInjective(tasks) /\ IsInjective(scheduled)
  /\ ToSet(tasks) \cap ToSet(scheduled) = {}
  /\ Pending \cap Running = {}
  /\ Pending \cap (finished \cup gone) = {}
  /\ Running \cap (finished \cup gone) = {}
  /\ finished \cap gone = {}
  /\ \A v, w \in Workers : v # w /\ loc[v] = "busy" /\ loc[w] = "busy" => cur[v] # cur[w]

(* "If there is any task from the owner that is currently running, the     *)
(* function will spin until the task finished": when tasks_cancel returns, *)
(* no task the owner had at the call is queued or being run.               *)
CancelComplete ==
  [][\A c \in Clients :
       (At(c, "cancel", "wait") /\ client'[c].op = "none") =>
         client[c].owned \cap (Pending \cup Running)' = {}]_vars

(* A task whose submission succeeded is run, unless it is cancelled or the *)
(* pool destroyed: the signal of add_task, the broadcast and the threads   *)
(* that are trimmed or time out never strand it (as long as no caller sets *)
(* idle_max to 0).                                                         *)
TasksRun ==
  \A t \in Tasks :
    (t \in ToSet(tasks) \ refused) ~> (t \in finished \cup gone \/ terminated)

(* apr_thread_pool_destroy returns: every thread leaves, also one that was *)
(* about to sleep when terminated was set.                                 *)
DestroyReturns == \A c \in Clients : (client[c].op = "destroy") ~> (client[c].op = "destroyed")

(* Tasks have a priority, "with higher values being served first": a      *)
(* worker that takes a task from the ring takes one of highest priority.   *)
PriorityOrder ==
  [][\A w \in Workers :
       (cur'[w] # cur[w] /\ cur'[w] \in ToSet(tasks)) =>
         \A t \in ToSet(tasks) : Priority[t] <= Priority[cur'[w]]]_vars
=============================================================================
