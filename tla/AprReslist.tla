----------------------------- MODULE AprReslist -----------------------------
(***************************************************************************)
(* apr_reslist_t of apr-util: a pool of resources (connections) with a     *)
(* desired minimum, a soft and a hard maximum and a time to live.  Every   *)
(* field is accessed with listlock held, so a critical section is one      *)
(* action; apr_reslist_release is two of them.  Constructor and destructor *)
(* are the client's and may fail; a resource counts as gone after its      *)
(* destructor was called.  Containers (apr_res_t) are interchangeable and  *)
(* left out.  A client thread holds at most one resource.                  *)
(***************************************************************************)
EXTENDS Integers, Sequences, FiniteSets, FiniteSetsExt, Functions, SequencesExt

CONSTANTS
  Threads,
  Res,               \* the resources the constructor may return
  None,              \* no resource
  min, smax, hmax    \* of apr_reslist_create

ASSUME FiniteAssumption == IsFiniteSet(Threads) /\ IsFiniteSet(Res)
ASSUME NoneAssumption == None \notin Res
ASSUME LimitsAssumption ==  \* what apr_reslist_create insists on
  /\ min \in Nat /\ smax \in Nat /\ hmax \in Nat \ {0}
  /\ min <= smax /\ smax <= hmax

VARIABLES
  avail,     \* avail_list, the most recently released first
  nidle, ntotal,
  nold,      \* how many entries, at the end of avail, were freed ttl ago
  ttl,       \* ttl > 0, chosen when the list is created
  timeout,   \* a timeout is set
  destroyed, \* reslist_cleanup has run
  pc,        \* where each thread is
  held,      \* the resource each thread holds
  live,      \* the resources constructed and not yet destroyed
  dropped    \* wakeups used up by threads that left without a resource

list == <<avail, nidle, ntotal, nold>>
vars == <<avail, nidle, ntotal, nold, ttl, timeout, destroyed, pc, held, live, dropped>>

At(p, S) == {t \in Threads : p[t] \in S}
Asleep == {"wait", "timedwait"}
Woken == {"woken", "timedwoken"}

WakeUp(where) == CASE where = "wait" -> "woken"
                   [] where = "timedwait" -> "timedwoken"
                   [] OTHER -> where

(* n calls of apr_thread_cond_signal. *)
Signal(p, n) ==
  LET k == Cardinality(At(p, Asleep))
  IN  {[t \in Threads |-> IF t \in W THEN WakeUp(p[t]) ELSE p[t]] :
          W \in kSubset(IF n < k THEN n ELSE k, At(p, Asleep))}

(* Wakeups only count while somebody sleeps. *)
Dropped(p, d) == IF At(p, Asleep) = {} THEN 0 ELSE IF d < hmax THEN d ELSE hmax

(* apr_reslist_create: maintain creates the first resources, successfully. *)
Init ==
  /\ \E first \in kSubset(min, Res) :
       /\ avail = SetToSeq(first)
       /\ live = first
  /\ nidle = min
  /\ ntotal = min
  /\ nold = 0
  /\ ttl \in BOOLEAN
  /\ timeout = FALSE
  /\ destroyed = FALSE
  /\ pc = [t \in Threads |-> "run"]
  /\ held = [t \in Threads |-> None]
  /\ dropped = 0

(* Time passes for the resources that were freed first. *)
Age ==
  /\ nold < Len(avail)
  /\ nold' = nold + 1
  /\ UNCHANGED <<avail, nidle, ntotal, ttl, timeout, destroyed, pc, held, live, dropped>>

-----------------------------------------------------------------------------
(* apr_reslist_acquire *)

Return(t) == [pc EXCEPT ![t] = "run"]

Sleep(t) == [pc EXCEPT ![t] = IF timeout THEN "timedwait" ELSE "wait"]

(* pop_resource, and the resource is handed out. *)
Take(t) ==
  /\ nidle > 0
  /\ held' = [held EXCEPT ![t] = Head(avail)]
  /\ avail' = Tail(avail)
  /\ nidle' = nidle - 1
  /\ nold' = IF nold < nidle THEN nold ELSE nidle - 1
  /\ pc' = Return(t)
  /\ UNCHANGED <<ntotal, live>>

(* The list is empty: block, or fill a free slot.  tot and alive are       *)
(* ntotal and live after the expired resources are gone.                   *)
WaitOrCreate(t, tot, alive) ==
  /\ avail' = << >> /\ nidle' = 0 /\ nold' = 0
  /\ \/ /\ tot >= hmax
        /\ pc' = Sleep(t)
        /\ ntotal' = tot /\ live' = alive
        /\ UNCHANGED held
     \/ /\ tot < hmax
        /\ \E r \in Res \ alive :  \* create_resource
             /\ held' = [held EXCEPT ![t] = r]
             /\ live' = alive \cup {r}
             /\ ntotal' = tot + 1
        /\ pc' = Return(t)
     \/ /\ tot < hmax              \* the constructor fails
        /\ ntotal' = tot /\ live' = alive
        /\ pc' = Return(t)
        /\ UNCHANGED held

(* The head is expired, and with it the whole list. *)
HeadExpired == ttl /\ nidle > 0 /\ nold = Len(avail)

(* Expired resources are destroyed until a destructor fails. *)
AcquireFails(t) ==
  /\ HeadExpired
  /\ \E k \in 1 .. nidle :
       /\ avail' = SubSeq(avail, k + 1, Len(avail))
       /\ live' = live \ Range(SubSeq(avail, 1, k))
       /\ nidle' = nidle - k
       /\ ntotal' = ntotal - k
       /\ nold' = nold - k
  /\ UNCHANGED <<pc, held>>

apr_reslist_acquire(t) ==
  /\ ~destroyed
  /\ pc[t] = "run" /\ held[t] = None
  /\ \/ ~HeadExpired /\ Take(t)
     \/ AcquireFails(t)
     \/ HeadExpired /\ WaitOrCreate(t, ntotal - nidle, live \ Range(avail))
     \/ nidle <= 0 /\ WaitOrCreate(t, ntotal, live)
  /\ dropped' = Dropped(pc', dropped)
  /\ UNCHANGED <<ttl, timeout, destroyed>>

(* Mutant: the wait is not a loop. *)
AcquireWokenOnce(t) ==
  /\ pc[t] \in Woken
  /\ \/ Take(t)
     \/ /\ nidle <= 0
        /\ \E r \in Res \ live :
             /\ held' = [held EXCEPT ![t] = r]
             /\ live' = live \cup {r}
             /\ ntotal' = ntotal + 1
        /\ pc' = Return(t)
        /\ UNCHANGED <<avail, nidle, nold>>
  /\ dropped' = Dropped(pc', dropped)
  /\ UNCHANGED <<ttl, timeout, destroyed>>

(* apr_reslist_acquire after apr_thread_cond_wait: the loop's condition is *)
(* looked at again, an idle resource is taken without an expiry check.     *)
AcquireWoken(t) ==
  /\ pc[t] \in Woken
  /\ \/ Take(t)
     \/ nidle <= 0 /\ WaitOrCreate(t, ntotal, live)
  /\ dropped' = Dropped(pc', IF pc'[t] = "run" /\ held'[t] = None THEN dropped + 1 ELSE dropped)
  /\ UNCHANGED <<ttl, timeout, destroyed>>

(* apr_thread_cond_timedwait gives up; a signal sent at the same time may  *)
(* be lost with it.                                                        *)
AcquireTimesOut(t) ==
  /\ pc[t] \in {"timedwait", "timedwoken"}
  /\ pc' = Return(t)
  /\ dropped' = Dropped(pc', IF pc[t] = "timedwoken" THEN dropped + 1 ELSE dropped)
  /\ UNCHANGED <<list, ttl, timeout, destroyed, held, live>>

(* A condition variable may wake a thread that nobody signalled. *)
SpuriousWakeup(t) ==
  /\ pc[t] \in Asleep
  /\ pc' = [pc EXCEPT ![t] = WakeUp(pc[t])]
  /\ dropped' = Dropped(pc', dropped)
  /\ UNCHANGED <<list, ttl, timeout, destroyed, held, live>>

-----------------------------------------------------------------------------
(* apr_reslist_release, apr_reslist_maintain, apr_reslist_invalidate *)

(* push_resource, a signal, and on to apr_reslist_maintain. *)
apr_reslist_release(t) ==
  /\ pc[t] = "run" /\ held[t] # None
  /\ avail' = <<held[t]>> \o avail
  /\ nidle' = nidle + 1
  /\ held' = [held EXCEPT ![t] = None]
  /\ pc' \in Signal([pc EXCEPT ![t] = "maintain"], 1)
  /\ dropped' = Dropped(pc', dropped)
  /\ UNCHANGED <<ntotal, nold, ttl, timeout, destroyed, live>>

(* How many resources are to be created, and how many may be expired. *)
Wanted == IF min - nidle < hmax - ntotal THEN min - nidle ELSE hmax - ntotal
Expirable ==
  LET n == IF ttl THEN nold ELSE Len(avail)
  IN  IF nidle - smax < n THEN nidle - smax ELSE n

(* j resources are created and as many signals sent; with fewer than       *)
(* Wanted a constructor failed.                                            *)
MaintainCreates(t) ==
  /\ nidle < min /\ ntotal < hmax
  /\ \E j \in 0 .. Wanted : \E new \in kSubset(j, Res \ live) :
       /\ avail' = SetToSeq(new) \o avail
       /\ live' = live \cup new
       /\ nidle' = nidle + j
       /\ ntotal' = ntotal + j
       /\ pc' \in Signal(Return(t), j)
  /\ UNCHANGED nold

(* Mutant: the expired resources stay in ntotal. *)
MaintainExpiresUncounted(t) ==
  /\ ~(nidle < min /\ ntotal < hmax)
  /\ \E k \in 0 .. Len(avail) :
       /\ k = Expirable \/ (nidle > smax /\ k \in 1 .. Expirable) \/ (nidle <= smax /\ k = 0)
       /\ avail' = SubSeq(avail, 1, Len(avail) - k)
       /\ live' = live \ Range(SubSeq(avail, Len(avail) - k + 1, Len(avail)))
       /\ nidle' = nidle - k
       /\ nold' = IF k < nold THEN nold - k ELSE 0
  /\ pc' = Return(t)
  /\ UNCHANGED ntotal

(* k resources are expired from the end of the list; with fewer than       *)
(* Expirable the destructor of the last one failed.                        *)
MaintainExpires(t) ==
  /\ ~(nidle < min /\ ntotal < hmax)
  /\ \E k \in 0 .. Len(avail) :
       /\ k = Expirable \/ (nidle > smax /\ k \in 1 .. Expirable) \/ (nidle <= smax /\ k = 0)
       /\ avail' = SubSeq(avail, 1, Len(avail) - k)
       /\ live' = live \ Range(SubSeq(avail, Len(avail) - k + 1, Len(avail)))
       /\ nidle' = nidle - k
       /\ ntotal' = ntotal - k
       /\ nold' = IF k < nold THEN nold - k ELSE 0
  /\ pc' = Return(t)

(* Called by apr_reslist_release, or by the client. *)
apr_reslist_maintain(t) ==
  /\ ~destroyed
  /\ pc[t] \in {"run", "maintain"}
  /\ MaintainCreates(t) \/ MaintainExpires(t)
  /\ dropped' = Dropped(pc', dropped)
  /\ UNCHANGED <<ttl, timeout, destroyed, held>>

(* Mutant: the waiting thread is not told of the free slot. *)
apr_reslist_invalidateSilently(t) ==
  /\ pc[t] = "run" /\ held[t] # None
  /\ live' = live \ {held[t]}
  /\ ntotal' = ntotal - 1
  /\ held' = [held EXCEPT ![t] = None]
  /\ UNCHANGED <<avail, nidle, nold, ttl, timeout, destroyed, pc, dropped>>

apr_reslist_invalidate(t) ==
  /\ pc[t] = "run" /\ held[t] # None
  /\ live' = live \ {held[t]}
  /\ ntotal' = ntotal - 1
  /\ held' = [held EXCEPT ![t] = None]
  /\ pc' \in Signal(pc, 1)
  /\ dropped' = Dropped(pc', dropped)
  /\ UNCHANGED <<avail, nidle, nold, ttl, timeout, destroyed>>

apr_reslist_timeout_set(set) ==
  /\ ~destroyed
  /\ timeout' = set
  /\ UNCHANGED <<list, ttl, destroyed, pc, held, live, dropped>>

(* apr_reslist_destroy, once every thread has given its resource back. *)
reslist_cleanup ==
  /\ ~destroyed
  /\ \A t \in Threads : pc[t] = "run" /\ held[t] = None
  /\ destroyed' = TRUE
  /\ avail' = << >>
  /\ live' = live \ Range(avail)
  /\ ntotal' = ntotal - nidle
  /\ nidle' = 0
  /\ nold' = 0
  /\ UNCHANGED <<ttl, timeout, pc, held, dropped>>

Next ==
  \/ \E t \in Threads :
       \/ apr_reslist_acquire(t)
       \/ AcquireWoken(t)
       \/ AcquireTimesOut(t)
       \/ SpuriousWakeup(t)
       \/ apr_reslist_release(t)
       \/ apr_reslist_maintain(t)
       \/ apr_reslist_invalidate(t)
  \/ \E set \in BOOLEAN : apr_reslist_timeout_set(set)
  \/ Age
  \/ reslist_cleanup

Spec == Init /\ [][Next]_vars

-----------------------------------------------------------------------------
Holders == {t \in Threads : held[t] # None}

(* Every resource that was constructed and not destroyed is in the list    *)
(* once or held by one thread, never both, the counters agree with it, and *)
(* there are never more than hmax: nothing is leaked by a failing          *)
(* constructor or destructor, handed out twice or used after its           *)
(* destructor ran.                                                         *)
Accounted ==
  /\ live = Range(avail) \cup {held[t] : t \in Holders}
  /\ nidle = Len(avail)
  /\ ntotal = nidle + Cardinality(Holders)
  /\ ntotal = Cardinality(live)
  /\ ntotal <= hmax

(* "If we have met our maximum number of resources, we will block until    *)
(* one becomes available": while a thread sleeps in apr_reslist_acquire,   *)
(* every idle resource and every free slot has a thread on its way to it,  *)
(* except for the wakeups of threads that left with an error.              *)
NoLostWakeup ==
  At(pc, Asleep) # {} =>
    nidle + (hmax - ntotal) <= Cardinality(At(pc, Woken)) + dropped
=============================================================================
