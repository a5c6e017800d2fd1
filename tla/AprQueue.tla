------------------------------ MODULE AprQueue ------------------------------
(***************************************************************************)
(* apr_queue_t of apr-util: a thread-safe FIFO in a ring of bounded size.  *)
(* All fields are accessed with one_big_mutex held, except the reads of    *)
(* terminated before the lock is taken and after it is released, so one    *)
(* critical section is one action.  A thread that waits on a condition     *)
(* variable has released the mutex; when it is woken it competes for the   *)
(* mutex with every thread that has just arrived.  Mutex and condition     *)
(* variables do not fail.                                                  *)
(***************************************************************************)
EXTENDS Naturals, Sequences, FiniteSets

CONSTANTS
  Threads,
  Item,    \* the elements that are pushed
  NULL,
  Bound    \* queue_capacity

ASSUME ThreadsAssumption == IsFiniteSet(Threads)
ASSUME NullAssumption == NULL \notin Item
ASSUME BoundAssumption == Bound \in Nat \ {0}

VARIABLES
  data, nelts, in, out, terminated, full_waiters, empty_waiters,
  pc,    \* where each thread is
  arg,   \* the element a pushing thread brings
  ret    \* the latest return

ring == <<data, nelts, in, out>>
vars == <<data, nelts, in, out, terminated, full_waiters, empty_waiters, pc, arg, ret>>

Ops == {"push", "trypush", "pop", "trypop"}

Init ==  \* apr_queue_create
  /\ data = [i \in 0 .. Bound - 1 |-> NULL]
  /\ nelts = 0
  /\ in = 0
  /\ out = 0
  /\ terminated = FALSE
  /\ full_waiters = 0
  /\ empty_waiters = 0
  /\ pc = [t \in Threads |-> "idle"]
  /\ arg = [t \in Threads |-> NULL]
  /\ ret = [op |-> "none"]

apr_queue_full == nelts = Bound
apr_queue_empty == nelts = 0

(* queue->x++; if (queue->x >= queue->bounds) queue->x -= queue->bounds *)
Step(x) == IF x + 1 >= Bound THEN x + 1 - Bound ELSE x + 1

At(p, where) == {t \in Threads : p[t] = where}

-----------------------------------------------------------------------------
(* Condition variables. *)

(* apr_thread_cond_signal: one of the waiting threads, if any, is woken. *)
Signal(p, wait, woken) ==
  IF At(p, wait) = {} THEN {p} ELSE {[p EXCEPT ![t] = woken] : t \in At(p, wait)}

(* apr_thread_cond_broadcast, on both condition variables. *)
Broadcast(p) ==
  [t \in Threads |-> CASE p[t] = "wait_empty" -> "woken_empty"
                       [] p[t] = "wait_full" -> "woken_full"
                       [] OTHER -> p[t]]

(* A condition variable may wake a thread that nobody signalled. *)
SpuriousWakeup(t) ==
  /\ \/ pc[t] = "wait_empty" /\ pc' = [pc EXCEPT ![t] = "woken_empty"]
     \/ pc[t] = "wait_full" /\ pc' = [pc EXCEPT ![t] = "woken_full"]
  /\ UNCHANGED <<ring, terminated, full_waiters, empty_waiters, arg, ret>>

-----------------------------------------------------------------------------
(* The calls, up to the lock: the first look at terminated. *)

SideOf(op) == IF op \in {"push", "trypush"} THEN "push" ELSE "pop"

Call(t, op, x) ==
  /\ pc[t] = "idle"
  /\ IF terminated
       THEN ret' = [op |-> SideOf(op), rv |-> "APR_EOF"] /\ UNCHANGED <<pc, arg>>
       ELSE /\ pc' = [pc EXCEPT ![t] = op]
            /\ arg' = IF SideOf(op) = "push" THEN [arg EXCEPT ![t] = x] ELSE arg
            /\ UNCHANGED ret
  /\ UNCHANGED <<ring, terminated, full_waiters, empty_waiters>>

-----------------------------------------------------------------------------
(* The critical sections. *)

(* Mutant: only the push that makes the queue non-empty signals. *)
InsertSignalsOnce(t, waiters) ==
  /\ data' = [data EXCEPT ![in] = arg[t]]
  /\ in' = Step(in)
  /\ nelts' = nelts + 1
  /\ LET p == [pc EXCEPT ![t] = "idle"]
     IN  pc' \in IF waiters > 0 /\ nelts = 0 THEN Signal(p, "wait_empty", "woken_empty") ELSE {p}
  /\ arg' = [arg EXCEPT ![t] = NULL]
  /\ ret' = [op |-> "push", rv |-> "APR_SUCCESS", data |-> arg[t]]
  /\ UNCHANGED <<out, terminated, empty_waiters>>

(* The element is stored and a waiting popper signalled. *)
Insert(t, waiters) ==
  /\ data' = [data EXCEPT ![in] = arg[t]]
  /\ in' = Step(in)
  /\ nelts' = nelts + 1
  /\ LET p == [pc EXCEPT ![t] = "idle"]
     IN  pc' \in IF waiters > 0 THEN Signal(p, "wait_empty", "woken_empty") ELSE {p}
  /\ arg' = [arg EXCEPT ![t] = NULL]
  /\ ret' = [op |-> "push", rv |-> "APR_SUCCESS", data |-> arg[t]]
  /\ UNCHANGED <<out, terminated, empty_waiters>>

(* Mutant: the index is advanced before the element is read. *)
TakeNext(t, waiters) ==
  /\ out' = Step(out)
  /\ nelts' = nelts - 1
  /\ LET p == [pc EXCEPT ![t] = "idle"]
     IN  pc' \in IF waiters > 0 THEN Signal(p, "wait_full", "woken_full") ELSE {p}
  /\ ret' = [op |-> "pop", rv |-> "APR_SUCCESS", data |-> data[Step(out)]]
  /\ UNCHANGED <<data, in, terminated, full_waiters, arg>>

(* The oldest element is read and a waiting pusher signalled. *)
Take(t, waiters) ==
  /\ out' = Step(out)
  /\ nelts' = nelts - 1
  /\ LET p == [pc EXCEPT ![t] = "idle"]
     IN  pc' \in IF waiters > 0 THEN Signal(p, "wait_full", "woken_full") ELSE {p}
  /\ ret' = [op |-> "pop", rv |-> "APR_SUCCESS", data |-> data[out]]
  /\ UNCHANGED <<data, in, terminated, full_waiters, arg>>

(* Found full or empty again: unlock, then look at terminated. *)
Unlock(t) ==
  /\ pc' = [pc EXCEPT ![t] = IF pc[t] \in {"push", "woken_full"} THEN "intr_push" ELSE "intr_pop"]
  /\ UNCHANGED <<ring, terminated, arg, ret>>

(* Mutant: the wait does not look at terminated again. *)
apr_queue_pushNoRecheck(t) ==
  /\ pc[t] = "push"
  /\ \/ ~apr_queue_full /\ Insert(t, empty_waiters) /\ UNCHANGED full_waiters
     \/ /\ apr_queue_full
        /\ full_waiters' = full_waiters + 1
        /\ pc' = [pc EXCEPT ![t] = "wait_full"]
        /\ UNCHANGED <<ring, terminated, empty_waiters, arg, ret>>

apr_queue_push(t) ==
  /\ pc[t] = "push"
  /\ \/ ~apr_queue_full /\ Insert(t, empty_waiters) /\ UNCHANGED full_waiters
     \/ /\ apr_queue_full /\ ~terminated
        /\ full_waiters' = full_waiters + 1
        /\ pc' = [pc EXCEPT ![t] = "wait_full"]
        /\ UNCHANGED <<ring, terminated, empty_waiters, arg, ret>>
     \/ apr_queue_full /\ terminated /\ Unlock(t) /\ UNCHANGED <<full_waiters, empty_waiters>>

(* apr_queue_push after apr_thread_cond_wait. *)
PushWoken(t) ==
  /\ pc[t] = "woken_full"
  /\ full_waiters' = full_waiters - 1
  /\ \/ ~apr_queue_full /\ Insert(t, empty_waiters)
     \/ apr_queue_full /\ Unlock(t) /\ UNCHANGED empty_waiters

apr_queue_trypush(t) ==
  /\ pc[t] = "trypush"
  /\ \/ ~apr_queue_full /\ Insert(t, empty_waiters)
     \/ /\ apr_queue_full
        /\ pc' = [pc EXCEPT ![t] = "idle"]
        /\ arg' = [arg EXCEPT ![t] = NULL]
        /\ ret' = [op |-> "push", rv |-> "APR_EAGAIN"]
        /\ UNCHANGED <<ring, terminated, empty_waiters>>
  /\ UNCHANGED full_waiters

apr_queue_pop(t) ==
  /\ pc[t] = "pop"
  /\ \/ ~apr_queue_empty /\ Take(t, full_waiters) /\ UNCHANGED empty_waiters
     \/ /\ apr_queue_empty /\ ~terminated
        /\ empty_waiters' = empty_waiters + 1
        /\ pc' = [pc EXCEPT ![t] = "wait_empty"]
        /\ UNCHANGED <<ring, terminated, full_waiters, arg, ret>>
     \/ apr_queue_empty /\ terminated /\ Unlock(t) /\ UNCHANGED <<full_waiters, empty_waiters>>

(* Mutant: the count is only taken back when an element is found. *)
PopWokenKeepsCount(t) ==
  /\ pc[t] = "woken_empty"
  /\ \/ ~apr_queue_empty /\ empty_waiters' = empty_waiters - 1 /\ Take(t, full_waiters)
     \/ apr_queue_empty /\ Unlock(t) /\ UNCHANGED <<full_waiters, empty_waiters>>

(* apr_queue_pop after apr_thread_cond_wait. *)
PopWoken(t) ==
  /\ pc[t] = "woken_empty"
  /\ empty_waiters' = empty_waiters - 1
  /\ \/ ~apr_queue_empty /\ Take(t, full_waiters)
     \/ apr_queue_empty /\ Unlock(t) /\ UNCHANGED full_waiters

apr_queue_trypop(t) ==
  /\ pc[t] = "trypop"
  /\ \/ ~apr_queue_empty /\ Take(t, full_waiters)
     \/ /\ apr_queue_empty
        /\ pc' = [pc EXCEPT ![t] = "idle"]
        /\ ret' = [op |-> "pop", rv |-> "APR_EAGAIN"]
        /\ UNCHANGED <<ring, terminated, full_waiters, arg>>
  /\ UNCHANGED empty_waiters

(* After the unlock: terminated is read without the lock. *)
Interrupted(t) ==
  /\ pc[t] \in {"intr_push", "intr_pop"}
  /\ pc' = [pc EXCEPT ![t] = "idle"]
  /\ arg' = [arg EXCEPT ![t] = NULL]
  /\ ret' = [op |-> IF pc[t] = "intr_push" THEN "push" ELSE "pop",
             rv |-> IF terminated THEN "APR_EOF" ELSE "APR_EINTR"]
  /\ UNCHANGED <<ring, terminated, full_waiters, empty_waiters>>

(* Called by the client, or by apr_queue_term once it has unlocked. *)
apr_queue_interrupt_all(t) ==
  /\ pc[t] \in {"idle", "interrupt"}
  /\ pc' = Broadcast([pc EXCEPT ![t] = "idle"])
  /\ ret' = [op |-> "control", rv |-> "APR_SUCCESS"]
  /\ UNCHANGED <<ring, terminated, full_waiters, empty_waiters, arg>>

apr_queue_term(t) ==
  /\ pc[t] = "idle"
  /\ terminated' = TRUE
  /\ pc' = [pc EXCEPT ![t] = "interrupt"]
  /\ UNCHANGED <<ring, full_waiters, empty_waiters, arg, ret>>

(* A thread's own steps once it is inside a call. *)
Run(t) ==
  \/ apr_queue_push(t)
  \/ PushWoken(t)
  \/ apr_queue_trypush(t)
  \/ apr_queue_pop(t)
  \/ PopWoken(t)
  \/ apr_queue_trypop(t)
  \/ Interrupted(t)
  \/ pc[t] = "interrupt" /\ apr_queue_interrupt_all(t)

Next == \E t \in Threads :
  \/ \E op \in Ops, x \in Item : Call(t, op, x)
  \/ Run(t)
  \/ apr_queue_interrupt_all(t)
  \/ apr_queue_term(t)
  \/ SpuriousWakeup(t)

Spec == Init /\ [][Next]_vars

(* A thread inside a call is scheduled and gets the mutex when it is free. *)
FairSpec == Spec /\ \A t \in Threads : WF_vars(Run(t))

-----------------------------------------------------------------------------
Where == Ops \cup {"idle", "wait_full", "woken_full", "wait_empty", "woken_empty",
                   "intr_push", "intr_pop", "interrupt"}

(* The counters stay inside the ring and in is nelts slots after out. *)
TypeOK ==
  /\ data \in [0 .. Bound - 1 -> Item \cup {NULL}]
  /\ nelts \in 0 .. Bound
  /\ in \in 0 .. Bound - 1
  /\ out \in 0 .. Bound - 1
  /\ in = IF out + nelts < Bound THEN out + nelts ELSE out + nelts - Bound
  /\ terminated \in BOOLEAN
  /\ full_waiters \in Nat
  /\ empty_waiters \in Nat
  /\ pc \in [Threads -> Where]
  /\ arg \in [Threads -> Item \cup {NULL}]

(* The waiter counts, which decide whether a push or a pop signals at all, *)
(* count the threads inside apr_thread_cond_wait.                          *)
WaitersCounted ==
  /\ full_waiters = Cardinality(At(pc, "wait_full")) + Cardinality(At(pc, "woken_full"))
  /\ empty_waiters = Cardinality(At(pc, "wait_empty")) + Cardinality(At(pc, "woken_empty"))

(* No wakeup is lost, though the waits of apr_queue_push and apr_queue_pop *)
(* are not loops, a signalled thread can be overtaken and interrupt_all    *)
(* wakes everybody: while a popper sleeps, every element in the queue has  *)
(* a popper on its way, and while a pusher sleeps, every free slot has a   *)
(* pusher on its way.                                                      *)
NoLostWakeup ==
  /\ At(pc, "wait_empty") # {} => nelts <= Cardinality(At(pc, "woken_empty"))
  /\ At(pc, "wait_full") # {} => Bound - nelts <= Cardinality(At(pc, "woken_full"))

(* The ring, read from out, is the FIFO that the callers were promised,    *)
(* with every return value as documented.                                  *)
Contents ==
  [i \in 1 .. nelts |->
     data[IF out + i - 1 < Bound THEN out + i - 1 ELSE out + i - 1 - Bound]]

Fifo == INSTANCE BoundedFifo WITH q <- Contents

RefinesBoundedFifo == Fifo!Spec

(* After apr_queue_term every call that is under way returns: nobody is    *)
(* left asleep, although terminated is set in one critical section and the *)
(* sleepers are woken in another.                                          *)
TermReleases == \A t \in Threads : (terminated /\ pc[t] # "idle") ~> (pc[t] = "idle")
=============================================================================
