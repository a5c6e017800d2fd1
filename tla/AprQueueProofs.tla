--------------------------- MODULE AprQueueProofs ---------------------------
(***************************************************************************)
(* Proofs about AprQueue for any set of threads, any elements and any      *)
(* capacity: the ring and its counters, that no wakeup is lost, and that   *)
(* the ring implements BoundedFifo.                                        *)
(***************************************************************************)
EXTENDS AprQueue, FiniteSetTheorems, TLAPS

(* The number of threads at a place. *)
N(p, w) == Cardinality(At(p, w))

-----------------------------------------------------------------------------
(* Counting threads. *)

(* The threads at a place are finitely many, and none iff their number is  *)
(* zero.                                                                   *)
LEMMA CountType ==
  ASSUME NEW p, NEW w
  PROVE  /\ IsFiniteSet(At(p, w))
         /\ N(p, w) \in Nat
         /\ At(p, w) = {} <=> N(p, w) = 0
<1>1. IsFiniteSet(At(p, w))
  BY FS_Subset, ThreadsAssumption DEF At
<1> QED BY <1>1, FS_CardinalityType, FS_EmptySet DEF N

(* A thread that moves leaves one place and enters another. *)
LEMMA Move ==
  ASSUME NEW p \in [Threads -> Where], NEW t \in Threads,
         NEW from \in Where, p[t] = from, NEW to \in Where, to # from,
         NEW q \in [Threads -> Where],
         q[t] = to, \A u \in Threads : u # t => q[u] = p[u]
  PROVE  /\ N(p, from) \in Nat \ {0} /\ N(p, to) \in Nat
         /\ N(q, from) = N(p, from) - 1
         /\ N(q, to) = N(p, to) + 1
         /\ \A w \in Where : w # from /\ w # to => N(q, w) = N(p, w)
<1>2. At(q, from) = At(p, from) \ {t} /\ t \in At(p, from)
  BY DEF At
<1>3. At(q, to) = At(p, to) \cup {t} /\ t \notin At(p, to)
  BY DEF At
<1>4. \A w \in Where : w # from /\ w # to => At(q, w) = At(p, w)
  BY DEF At
<1>5. IsFiniteSet(At(p, from)) /\ IsFiniteSet(At(p, to))
  BY CountType
<1>6. Cardinality(At(p, from) \ {t}) = Cardinality(At(p, from)) - 1
  BY <1>2, <1>5, FS_RemoveElement
<1>7. Cardinality(At(p, to) \cup {t}) = Cardinality(At(p, to)) + 1
  BY <1>3, <1>5, FS_AddElement
<1>8. N(p, from) \in Nat \ {0} /\ N(p, to) \in Nat
  <2>1. N(p, from) \in Nat /\ N(p, to) \in Nat
    BY CountType
  <2>2. At(p, from) # {}
    BY <1>2
  <2>3. N(p, from) # 0
    BY <2>2, CountType
  <2> QED BY <2>1, <2>3
<1> QED BY <1>2, <1>3, <1>4, <1>6, <1>7, <1>8 DEF N

(* A signal moves one waiting thread, if there is one. *)
LEMMA SignalMoves ==
  ASSUME NEW p \in [Threads -> Where], NEW wait \in Where, NEW woken \in Where, wait # woken,
         NEW q \in Signal(p, wait, woken)
  PROVE  /\ q \in [Threads -> Where]
         /\ N(p, wait) = 0 => q = p
         /\ N(p, wait) # 0 => /\ N(q, wait) = N(p, wait) - 1
                              /\ N(q, woken) = N(p, woken) + 1
         /\ \A w \in Where : w # wait /\ w # woken => N(q, w) = N(p, w)
<1>1. CASE At(p, wait) = {}
  BY <1>1, CountType DEF Signal
<1>2. CASE At(p, wait) # {}
  <2>1. PICK t \in At(p, wait) : q = [p EXCEPT ![t] = woken]
    BY <1>2 DEF Signal
  <2>2. t \in Threads /\ p[t] = wait
    BY <2>1 DEF At
  <2>3. q \in [Threads -> Where] /\ q[t] = woken /\ \A u \in Threads : u # t => q[u] = p[u]
    BY <2>1, <2>2
  <2>5. /\ N(q, wait) = N(p, wait) - 1
        /\ N(q, woken) = N(p, woken) + 1
        /\ \A w \in Where : w # wait /\ w # woken => N(q, w) = N(p, w)
    BY <2>2, <2>3, Move
  <2>4. N(p, wait) # 0
    BY <1>2, CountType
  <2> QED BY <2>3, <2>4, <2>5
<1> QED BY <1>1, <1>2

(* A broadcast empties both wait sets. *)
LEMMA BroadcastMoves ==
  ASSUME NEW p \in [Threads -> Where]
  PROVE  /\ Broadcast(p) \in [Threads -> Where]
         /\ N(Broadcast(p), "wait_empty") = 0
         /\ N(Broadcast(p), "wait_full") = 0
         /\ N(Broadcast(p), "woken_empty") = N(p, "wait_empty") + N(p, "woken_empty")
         /\ N(Broadcast(p), "woken_full") = N(p, "wait_full") + N(p, "woken_full")
<1> DEFINE q == Broadcast(p)
<1>1. q \in [Threads -> Where]
  BY DEF Broadcast, Where
<1>2. At(q, "wait_empty") = {} /\ At(q, "wait_full") = {}
  BY DEF Broadcast, At
<1>3. At(q, "woken_empty") = At(p, "wait_empty") \cup At(p, "woken_empty")
  BY DEF Broadcast, At
<1>4. At(q, "woken_full") = At(p, "wait_full") \cup At(p, "woken_full")
  BY DEF Broadcast, At
<1>5. /\ At(p, "wait_empty") \cap At(p, "woken_empty") = {}
      /\ At(p, "wait_full") \cap At(p, "woken_full") = {}
  BY DEF At
<1>6. N(q, "woken_empty") = N(p, "wait_empty") + N(p, "woken_empty")
  <2>1. IsFiniteSet(At(p, "wait_empty")) /\ IsFiniteSet(At(p, "woken_empty"))
    BY CountType
  <2>2. N(p, "wait_empty") \in Nat /\ N(p, "woken_empty") \in Nat
    BY CountType
  <2> DEFINE A == At(p, "wait_empty")  B == At(p, "woken_empty")
  <2>3. Cardinality(A \cup B) = Cardinality(A) + Cardinality(B) - Cardinality(A \cap B)
    BY <2>1, FS_Union
  <2>4. Cardinality(A \cap B) = 0
    BY <1>5, FS_EmptySet
  <2>5. N(q, "woken_empty") = Cardinality(A \cup B)
    BY <1>3 DEF N
  <2> QED BY <2>2, <2>3, <2>4, <2>5 DEF N
<1>7. N(q, "woken_full") = N(p, "wait_full") + N(p, "woken_full")
  <2>1. IsFiniteSet(At(p, "wait_full")) /\ IsFiniteSet(At(p, "woken_full"))
    BY CountType
  <2>2. N(p, "wait_full") \in Nat /\ N(p, "woken_full") \in Nat
    BY CountType
  <2> DEFINE A == At(p, "wait_full")  B == At(p, "woken_full")
  <2>3. Cardinality(A \cup B) = Cardinality(A) + Cardinality(B) - Cardinality(A \cap B)
    BY <2>1, FS_Union
  <2>4. Cardinality(A \cap B) = 0
    BY <1>5, FS_EmptySet
  <2>5. N(q, "woken_full") = Cardinality(A \cup B)
    BY <1>4 DEF N
  <2> QED BY <2>2, <2>3, <2>4, <2>5 DEF N
<1> QED BY <1>1, <1>2, <1>6, <1>7, CountType

-----------------------------------------------------------------------------
(* What the steps do to the counts. *)

(* The places where a thread waits or has been woken. *)
Waits == {"wait_full", "woken_full", "wait_empty", "woken_empty"}

(* A successful push: the pusher leaves, a sleeping popper is woken. *)
LEMMA InsertMoves ==
  ASSUME TypeOK, WaitersCounted, NEW t \in Threads,
         pc[t] \in {"push", "trypush", "woken_full"}, Insert(t, empty_waiters)
  PROVE  /\ pc' \in [Threads -> Where]
         /\ N(pc', "wait_full") = N(pc, "wait_full")
         /\ N(pc', "woken_full") =
              IF pc[t] = "woken_full" THEN N(pc, "woken_full") - 1 ELSE N(pc, "woken_full")
         /\ N(pc, "wait_empty") = 0 => /\ N(pc', "wait_empty") = 0
                                       /\ N(pc', "woken_empty") = N(pc, "woken_empty")
         /\ N(pc, "wait_empty") # 0 => /\ N(pc', "wait_empty") = N(pc, "wait_empty") - 1
                                       /\ N(pc', "woken_empty") = N(pc, "woken_empty") + 1
<1> DEFINE p == [pc EXCEPT ![t] = "idle"]
<1> HIDE DEF p
<1>1. pc \in [Threads -> Where] /\ pc[t] \in Where /\ "idle" \in Where /\ pc[t] # "idle"
  BY DEF TypeOK, Where
<1>2. /\ p \in [Threads -> Where]
      /\ N(p, pc[t]) = N(pc, pc[t]) - 1
      /\ \A w \in Where : w # pc[t] /\ w # "idle" => N(p, w) = N(pc, w)
  <2>1. /\ p \in [Threads -> Where]
        /\ p[t] = "idle" /\ \A u \in Threads : u # t => p[u] = pc[u]
    BY <1>1 DEF p
  <2> QED BY <1>1, <2>1, Move
<1>3. Waits \subseteq Where /\ \A w \in Waits : N(pc, w) \in Nat /\ N(p, w) \in Nat
  BY CountType DEF Waits, Where
<1>4. /\ N(p, "wait_full") = N(pc, "wait_full")
      /\ N(p, "wait_empty") = N(pc, "wait_empty")
      /\ N(p, "woken_empty") = N(pc, "woken_empty")
      /\ N(p, "woken_full") =
           IF pc[t] = "woken_full" THEN N(pc, "woken_full") - 1 ELSE N(pc, "woken_full")
  BY <1>2, <1>3 DEF Waits
<1>5. empty_waiters = N(pc, "wait_empty") + N(pc, "woken_empty")
  BY DEF WaitersCounted, N
<1>6. CASE empty_waiters > 0
  <2>1. pc' \in Signal(p, "wait_empty", "woken_empty")
    BY <1>6 DEF Insert, p
  <2>2. /\ pc' \in [Threads -> Where]
        /\ N(p, "wait_empty") = 0 => pc' = p
        /\ N(p, "wait_empty") # 0 => /\ N(pc', "wait_empty") = N(p, "wait_empty") - 1
                                     /\ N(pc', "woken_empty") = N(p, "woken_empty") + 1
        /\ \A w \in Where : w # "wait_empty" /\ w # "woken_empty" => N(pc', w) = N(p, w)
    BY <1>2, <1>3, <2>1, SignalMoves DEF Waits
  <2> QED BY <1>3, <1>4, <2>2 DEF Waits
<1>7. CASE ~(empty_waiters > 0)
  <2>1. pc' = p
    BY <1>7 DEF Insert, p
  <2>2. N(pc, "wait_empty") = 0
    BY <1>3, <1>5, <1>7 DEF Waits
  <2> QED BY <1>2, <1>4, <2>1, <2>2
<1> QED BY <1>6, <1>7

(* A successful pop: the popper leaves, a sleeping pusher is woken. *)
LEMMA TakeMoves ==
  ASSUME TypeOK, WaitersCounted, NEW t \in Threads,
         pc[t] \in {"pop", "trypop", "woken_empty"}, Take(t, full_waiters)
  PROVE  /\ pc' \in [Threads -> Where]
         /\ N(pc', "wait_empty") = N(pc, "wait_empty")
         /\ N(pc', "woken_empty") =
              IF pc[t] = "woken_empty" THEN N(pc, "woken_empty") - 1 ELSE N(pc, "woken_empty")
         /\ N(pc, "wait_full") = 0 => /\ N(pc', "wait_full") = 0
                                      /\ N(pc', "woken_full") = N(pc, "woken_full")
         /\ N(pc, "wait_full") # 0 => /\ N(pc', "wait_full") = N(pc, "wait_full") - 1
                                      /\ N(pc', "woken_full") = N(pc, "woken_full") + 1
<1> DEFINE p == [pc EXCEPT ![t] = "idle"]
<1> HIDE DEF p
<1>1. pc \in [Threads -> Where] /\ pc[t] \in Where /\ "idle" \in Where /\ pc[t] # "idle"
  BY DEF TypeOK, Where
<1>2. /\ p \in [Threads -> Where]
      /\ N(p, pc[t]) = N(pc, pc[t]) - 1
      /\ \A w \in Where : w # pc[t] /\ w # "idle" => N(p, w) = N(pc, w)
  <2>1. /\ p \in [Threads -> Where]
        /\ p[t] = "idle" /\ \A u \in Threads : u # t => p[u] = pc[u]
    BY <1>1 DEF p
  <2> QED BY <1>1, <2>1, Move
<1>3. Waits \subseteq Where /\ \A w \in Waits : N(pc, w) \in Nat /\ N(p, w) \in Nat
  BY CountType DEF Waits, Where
<1>4. /\ N(p, "wait_full") = N(pc, "wait_full")
      /\ N(p, "wait_empty") = N(pc, "wait_empty")
      /\ N(p, "woken_full") = N(pc, "woken_full")
      /\ N(p, "woken_empty") =
           IF pc[t] = "woken_empty" THEN N(pc, "woken_empty") - 1 ELSE N(pc, "woken_empty")
  BY <1>2, <1>3 DEF Waits
<1>5. full_waiters = N(pc, "wait_full") + N(pc, "woken_full")
  BY DEF WaitersCounted, N
<1>6. CASE full_waiters > 0
  <2>1. pc' \in Signal(p, "wait_full", "woken_full")
    BY <1>6 DEF Take, p
  <2>2. /\ pc' \in [Threads -> Where]
        /\ N(p, "wait_full") = 0 => pc' = p
        /\ N(p, "wait_full") # 0 => /\ N(pc', "wait_full") = N(p, "wait_full") - 1
                                    /\ N(pc', "woken_full") = N(p, "woken_full") + 1
        /\ \A w \in Where : w # "wait_full" /\ w # "woken_full" => N(pc', w) = N(p, w)
    BY <1>2, <1>3, <2>1, SignalMoves DEF Waits
  <2> QED BY <1>3, <1>4, <2>2 DEF Waits
<1>7. CASE ~(full_waiters > 0)
  <2>1. pc' = p
    BY <1>7 DEF Take, p
  <2>2. N(pc, "wait_full") = 0
    BY <1>3, <1>5, <1>7 DEF Waits
  <2> QED BY <1>2, <1>4, <2>1, <2>2
<1> QED BY <1>6, <1>7

-----------------------------------------------------------------------------
(* The invariants. *)

(* The ring part of the type invariant. *)
RingOK ==
  /\ data \in [0 .. Bound - 1 -> Item \cup {NULL}]
  /\ nelts \in 0 .. Bound
  /\ in \in 0 .. Bound - 1
  /\ out \in 0 .. Bound - 1
  /\ in = IF out + nelts < Bound THEN out + nelts ELSE out + nelts - Bound

(* A thread on its way to store an element has one. *)
ArgOK ==
  \A t \in Threads : pc[t] \in {"push", "trypush", "wait_full", "woken_full"} => arg[t] \in Item

(* What NoLostWakeup and WaitersCounted say, in terms of N. *)
Balanced ==
  /\ full_waiters = N(pc, "wait_full") + N(pc, "woken_full")
  /\ empty_waiters = N(pc, "wait_empty") + N(pc, "woken_empty")
  /\ N(pc, "wait_empty") # 0 => nelts <= N(pc, "woken_empty")
  /\ N(pc, "wait_full") # 0 => Bound - nelts <= N(pc, "woken_full")

(* The two forms are the same. *)
LEMMA BalancedMeans == WaitersCounted /\ NoLostWakeup <=> Balanced
BY CountType DEF WaitersCounted, NoLostWakeup, Balanced, N

(* Storing an element keeps the ring well formed. *)
LEMMA InsertRing ==
  ASSUME TypeOK, NEW t \in Threads, NEW n, ~apr_queue_full, Insert(t, n)
  PROVE  RingOK'
BY BoundAssumption DEF TypeOK, RingOK, Insert, apr_queue_full, Step

(* So does taking one. *)
LEMMA TakeRing ==
  ASSUME TypeOK, NEW t \in Threads, NEW n, ~apr_queue_empty, Take(t, n)
  PROVE  RingOK'
BY BoundAssumption DEF TypeOK, RingOK, Take, apr_queue_empty, Step

(* The initial state. *)
LEMMA InitInv == Init => TypeOK /\ ArgOK /\ WaitersCounted /\ NoLostWakeup
<1> SUFFICES ASSUME Init PROVE TypeOK /\ ArgOK /\ WaitersCounted /\ NoLostWakeup
  OBVIOUS
<1>1. TypeOK /\ ArgOK
  <2>1. data \in [0 .. Bound - 1 -> Item \cup {NULL}]
    BY DEF Init
  <2>2. /\ nelts \in 0 .. Bound /\ in \in 0 .. Bound - 1 /\ out \in 0 .. Bound - 1
        /\ in = IF out + nelts < Bound THEN out + nelts ELSE out + nelts - Bound
        /\ full_waiters \in Nat /\ empty_waiters \in Nat
    BY BoundAssumption DEF Init
  <2>3. terminated \in BOOLEAN /\ pc \in [Threads -> Where] /\ arg \in [Threads -> Item \cup {NULL}]
    BY DEF Init, Where
  <2>4. ArgOK
    BY DEF Init, ArgOK
  <2> QED BY <2>1, <2>2, <2>3, <2>4 DEF TypeOK
<1>2. \A w \in Waits : At(pc, w) = {}
  BY DEF Init, At, Waits
<1>3. ASSUME NEW w \in Waits PROVE N(pc, w) = 0
  <2>1. At(pc, w) = {}
    BY <1>2
  <2> QED BY <2>1, CountType
<1>4. full_waiters = 0 /\ empty_waiters = 0
  BY DEF Init
<1> QED BY <1>1, <1>3, <1>4, BalancedMeans DEF Balanced, Waits

(* A step that leaves the ring and the waiting threads alone. *)
LEMMA QuietStep ==
  ASSUME TypeOK, ArgOK, Balanced, NEW t \in Threads, NEW to \in Where,
         pc[t] \notin Waits, to \notin Waits, to # pc[t],
         pc' \in [Threads -> Where],
         pc'[t] = to, \A u \in Threads : u # t => pc'[u] = pc[u],
         UNCHANGED <<data, nelts, in, out, full_waiters, empty_waiters>>
  PROVE  Balanced' /\ RingOK'
<1>1. pc \in [Threads -> Where] /\ pc[t] \in Where
  BY DEF TypeOK
<1>3. \A w \in Waits : N(pc', w) = N(pc, w)
  <2>1. \A w \in Where : w # pc[t] /\ w # to => N(pc', w) = N(pc, w)
    BY <1>1, Move
  <2> QED BY <2>1 DEF Waits, Where
<1>4. Balanced'
  BY <1>3 DEF Balanced, Waits
<1>5. RingOK'
  BY DEF TypeOK, RingOK
<1> QED BY <1>4, <1>5

(* A successful push keeps the balance: the popper it wakes is on its way  *)
(* to the element it stored, and the slot it used had a pusher on its way. *)
LEMMA InsertBalanced ==
  ASSUME TypeOK, WaitersCounted, Balanced, NEW t \in Threads, ~apr_queue_full,
         pc[t] \in {"push", "trypush", "woken_full"}, Insert(t, empty_waiters),
         full_waiters' = IF pc[t] = "woken_full" THEN full_waiters - 1 ELSE full_waiters
  PROVE  Balanced'
<1>1. \A w \in Waits : N(pc, w) \in Nat
  BY CountType
<1>2. nelts \in 0 .. Bound /\ nelts' = nelts + 1 /\ empty_waiters' = empty_waiters
  BY DEF TypeOK, Insert
<1>3. /\ N(pc', "wait_full") = N(pc, "wait_full")
      /\ N(pc', "woken_full") =
           IF pc[t] = "woken_full" THEN N(pc, "woken_full") - 1 ELSE N(pc, "woken_full")
      /\ N(pc, "wait_empty") = 0 => /\ N(pc', "wait_empty") = 0
                                    /\ N(pc', "woken_empty") = N(pc, "woken_empty")
      /\ N(pc, "wait_empty") # 0 => /\ N(pc', "wait_empty") = N(pc, "wait_empty") - 1
                                    /\ N(pc', "woken_empty") = N(pc, "woken_empty") + 1
  BY InsertMoves
<1> QED BY <1>1, <1>2, <1>3, BoundAssumption DEF Balanced, Waits

(* The same for a successful pop. *)
LEMMA TakeBalanced ==
  ASSUME TypeOK, WaitersCounted, Balanced, NEW t \in Threads, ~apr_queue_empty,
         pc[t] \in {"pop", "trypop", "woken_empty"}, Take(t, full_waiters),
         empty_waiters' = IF pc[t] = "woken_empty" THEN empty_waiters - 1 ELSE empty_waiters
  PROVE  Balanced'
<1>1. \A w \in Waits : N(pc, w) \in Nat
  BY CountType
<1>2. nelts \in 0 .. Bound /\ nelts' = nelts - 1 /\ full_waiters' = full_waiters
  BY DEF TypeOK, Take
<1>3. /\ N(pc', "wait_empty") = N(pc, "wait_empty")
      /\ N(pc', "woken_empty") =
           IF pc[t] = "woken_empty" THEN N(pc, "woken_empty") - 1 ELSE N(pc, "woken_empty")
      /\ N(pc, "wait_full") = 0 => /\ N(pc', "wait_full") = 0
                                   /\ N(pc', "woken_full") = N(pc, "woken_full")
      /\ N(pc, "wait_full") # 0 => /\ N(pc', "wait_full") = N(pc, "wait_full") - 1
                                   /\ N(pc', "woken_full") = N(pc, "woken_full") + 1
  BY TakeMoves
<1> QED BY <1>1, <1>2, <1>3, BoundAssumption DEF Balanced, Waits

(* A thread that goes to sleep, is woken by nobody, or gives up after it   *)
(* was woken: it moves between from and to and the ring stays as it is.    *)
LEMMA WaitStep ==
  ASSUME TypeOK, Balanced, NEW t \in Threads, NEW to \in Where, to # pc[t],
         pc' \in [Threads -> Where],
         pc'[t] = to, \A u \in Threads : u # t => pc'[u] = pc[u],
         nelts' = nelts,
         \/ /\ pc[t] = "push" /\ to = "wait_full" /\ apr_queue_full
            /\ full_waiters' = full_waiters + 1 /\ empty_waiters' = empty_waiters
         \/ /\ pc[t] = "pop" /\ to = "wait_empty" /\ apr_queue_empty
            /\ empty_waiters' = empty_waiters + 1 /\ full_waiters' = full_waiters
         \/ /\ pc[t] = "wait_full" /\ to = "woken_full"
            /\ UNCHANGED <<full_waiters, empty_waiters>>
         \/ /\ pc[t] = "wait_empty" /\ to = "woken_empty"
            /\ UNCHANGED <<full_waiters, empty_waiters>>
         \/ /\ pc[t] = "woken_full" /\ to = "intr_push" /\ apr_queue_full
            /\ full_waiters' = full_waiters - 1 /\ empty_waiters' = empty_waiters
         \/ /\ pc[t] = "woken_empty" /\ to = "intr_pop" /\ apr_queue_empty
            /\ empty_waiters' = empty_waiters - 1 /\ full_waiters' = full_waiters
  PROVE  Balanced'
<1>1. \A w \in Waits : N(pc, w) \in Nat
  BY CountType
<1>2. pc \in [Threads -> Where] /\ pc[t] \in Where /\ nelts \in 0 .. Bound
  BY DEF TypeOK
<1>3. /\ N(pc, pc[t]) \in Nat \ {0}
      /\ N(pc', pc[t]) = N(pc, pc[t]) - 1
      /\ N(pc', to) = N(pc, to) + 1
      /\ \A w \in Where : w # pc[t] /\ w # to => N(pc', w) = N(pc, w)
  BY <1>2, Move
<1>4. Waits \subseteq Where
  BY DEF Waits, Where
<1> QED BY <1>1, <1>2, <1>3, <1>4, BoundAssumption
        DEF Balanced, Waits, apr_queue_full, apr_queue_empty

-----------------------------------------------------------------------------
(* One step. *)

Inv == TypeOK /\ ArgOK /\ WaitersCounted /\ NoLostWakeup

(* The counts are natural numbers because they count threads. *)
LEMMA BalancedNatNext == Balanced' => full_waiters' \in Nat /\ empty_waiters' \in Nat
<1>1. \A w \in Waits : N(pc', w) \in Nat
  BY CountType
<1> QED BY <1>1 DEF Balanced, Waits

(* A step is dealt with once the ring, the balance, pc and arg are. *)
LEMMA StepParts ==
  ASSUME RingOK', Balanced', terminated' \in BOOLEAN, pc' \in [Threads -> Where],
         arg' \in [Threads -> Item \cup {NULL}], ArgOK'
  PROVE  Inv'
<1>1. full_waiters' \in Nat /\ empty_waiters' \in Nat
  BY BalancedNatNext
<1>2. TypeOK'
  BY <1>1 DEF TypeOK, RingOK
<1>3. WaitersCounted' /\ NoLostWakeup'
  <2>1. /\ IsFiniteSet(At(pc', "wait_empty")) /\ IsFiniteSet(At(pc', "wait_full"))
        /\ At(pc', "wait_empty") = {} <=> N(pc', "wait_empty") = 0
        /\ At(pc', "wait_full") = {} <=> N(pc', "wait_full") = 0
    BY CountType
  <2> QED BY <2>1 DEF WaitersCounted, NoLostWakeup, Balanced, N
<1> QED BY <1>2, <1>3 DEF Inv

(* Insert leaves arg and the other threads' elements in order. *)
LEMMA InsertArg ==
  ASSUME Inv, NEW t \in Threads, NEW n, Insert(t, n)
  PROVE  /\ arg' \in [Threads -> Item \cup {NULL}]
         /\ terminated' \in BOOLEAN
         /\ ArgOK'
<1>1. \A p, q, u : u \in Threads /\ q \in Signal(p, "wait_empty", "woken_empty") /\ p \in [Threads -> Where]
                   => q[u] = p[u] \/ q[u] = "woken_empty"
  BY DEF Signal, At
<1>2. \A u \in Threads : pc'[u] = [pc EXCEPT ![t] = "idle"][u] \/ pc'[u] = "woken_empty"
  <2>1. [pc EXCEPT ![t] = "idle"] \in [Threads -> Where]
    BY DEF Inv, TypeOK, Where
  <2> QED BY <1>1, <2>1 DEF Insert
<1>3. pc \in [Threads -> Where] /\ arg \in [Threads -> Item \cup {NULL}]
  BY DEF Inv, TypeOK
<1>4. arg' \in [Threads -> Item \cup {NULL}] /\ terminated' \in BOOLEAN
  BY <1>3 DEF Insert, Inv, TypeOK
<1>5. ArgOK'
  BY <1>2, <1>3 DEF Insert, Inv, ArgOK
<1> QED BY <1>4, <1>5

(* The same for Take. *)
LEMMA TakeArg ==
  ASSUME Inv, NEW t \in Threads, NEW n, Take(t, n)
  PROVE  /\ arg' \in [Threads -> Item \cup {NULL}]
         /\ terminated' \in BOOLEAN
         /\ ArgOK'
<1>1. \A p, q, u : u \in Threads /\ q \in Signal(p, "wait_full", "woken_full") /\ p \in [Threads -> Where]
                   => q[u] = p[u] \/ (q[u] = "woken_full" /\ p[u] = "wait_full")
  BY DEF Signal, At
<1>2. \A u \in Threads : \/ pc'[u] = [pc EXCEPT ![t] = "idle"][u]
                         \/ [pc EXCEPT ![t] = "idle"][u] = "wait_full"
  <2>1. [pc EXCEPT ![t] = "idle"] \in [Threads -> Where]
    BY DEF Inv, TypeOK, Where
  <2> QED BY <1>1, <2>1 DEF Take
<1>3. pc \in [Threads -> Where] /\ arg \in [Threads -> Item \cup {NULL}]
  BY DEF Inv, TypeOK
<1>4. arg' \in [Threads -> Item \cup {NULL}] /\ terminated' \in BOOLEAN
  BY <1>3 DEF Take, Inv, TypeOK
<1>5. ArgOK'
  BY <1>2, <1>3 DEF Take, Inv, ArgOK
<1> QED BY <1>4, <1>5

(* A step that stores an element. *)
LEMMA InsertStep ==
  ASSUME Inv, NEW t \in Threads, ~apr_queue_full,
         pc[t] \in {"push", "trypush", "woken_full"}, Insert(t, empty_waiters),
         full_waiters' = IF pc[t] = "woken_full" THEN full_waiters - 1 ELSE full_waiters
  PROVE  Inv'
<1>1. TypeOK /\ WaitersCounted /\ Balanced
  BY BalancedMeans DEF Inv
<1>2. RingOK' /\ Balanced' /\ pc' \in [Threads -> Where]
  BY <1>1, InsertRing, InsertBalanced, InsertMoves
<1> QED BY <1>2, InsertArg, StepParts

(* A step that takes an element. *)
LEMMA TakeStep ==
  ASSUME Inv, NEW t \in Threads, ~apr_queue_empty,
         pc[t] \in {"pop", "trypop", "woken_empty"}, Take(t, full_waiters),
         empty_waiters' = IF pc[t] = "woken_empty" THEN empty_waiters - 1 ELSE empty_waiters
  PROVE  Inv'
<1>1. TypeOK /\ WaitersCounted /\ Balanced
  BY BalancedMeans DEF Inv
<1>2. RingOK' /\ Balanced' /\ pc' \in [Threads -> Where]
  BY <1>1, TakeRing, TakeBalanced, TakeMoves
<1> QED BY <1>2, TakeArg, StepParts

(* A step that moves one thread and leaves the ring alone. *)
LEMMA MoveStep ==
  ASSUME Inv, NEW t \in Threads, NEW to \in Where, to # pc[t],
         pc' = [pc EXCEPT ![t] = to], UNCHANGED ring, terminated' \in BOOLEAN,
         arg' \in [Threads -> Item \cup {NULL}],
         \A u \in Threads : u # t => arg'[u] = arg[u],
         to \in {"push", "trypush", "wait_full", "woken_full"} => arg'[t] \in Item,
         \/ pc[t] \notin Waits /\ to \notin Waits /\ UNCHANGED <<full_waiters, empty_waiters>>
         \/ /\ pc[t] = "push" /\ to = "wait_full" /\ apr_queue_full
            /\ full_waiters' = full_waiters + 1 /\ empty_waiters' = empty_waiters
         \/ /\ pc[t] = "pop" /\ to = "wait_empty" /\ apr_queue_empty
            /\ empty_waiters' = empty_waiters + 1 /\ full_waiters' = full_waiters
         \/ /\ pc[t] = "wait_full" /\ to = "woken_full"
            /\ UNCHANGED <<full_waiters, empty_waiters>>
         \/ /\ pc[t] = "wait_empty" /\ to = "woken_empty"
            /\ UNCHANGED <<full_waiters, empty_waiters>>
         \/ /\ pc[t] = "woken_full" /\ to = "intr_push" /\ apr_queue_full
            /\ full_waiters' = full_waiters - 1 /\ empty_waiters' = empty_waiters
         \/ /\ pc[t] = "woken_empty" /\ to = "intr_pop" /\ apr_queue_empty
            /\ empty_waiters' = empty_waiters - 1 /\ full_waiters' = full_waiters
  PROVE  Inv'
<1>1. TypeOK /\ ArgOK /\ Balanced
  BY BalancedMeans DEF Inv
<1>2. /\ pc' \in [Threads -> Where]
      /\ pc'[t] = to /\ \A u \in Threads : u # t => pc'[u] = pc[u]
  BY <1>1 DEF TypeOK
<1>3. /\ nelts' = nelts
      /\ UNCHANGED <<data, nelts, in, out>>
  BY DEF ring
<1>4. RingOK'
  BY <1>1, <1>3 DEF RingOK, TypeOK
<1>5. Balanced'
  <2>1. CASE pc[t] \notin Waits /\ to \notin Waits /\ UNCHANGED <<full_waiters, empty_waiters>>
    BY <1>1, <1>2, <1>3, <2>1, QuietStep
  <2>2. CASE ~(pc[t] \notin Waits /\ to \notin Waits /\ UNCHANGED <<full_waiters, empty_waiters>>)
    BY <1>1, <1>2, <1>3, <2>2, WaitStep
  <2> QED BY <2>1, <2>2
<1>6. ArgOK'
  BY <1>1, <1>2 DEF ArgOK
<1> QED BY <1>2, <1>4, <1>5, <1>6, StepParts

(* Waking everybody, and returning. *)
LEMMA BroadcastStep ==
  ASSUME Inv, NEW t \in Threads, apr_queue_interrupt_all(t)
  PROVE  Inv'
<1>1. TypeOK /\ ArgOK /\ Balanced /\ pc \in [Threads -> Where]
  BY BalancedMeans DEF Inv, TypeOK
<1> DEFINE p == [pc EXCEPT ![t] = "idle"]
<1>2. p \in [Threads -> Where] /\ p[t] = "idle" /\ \A u \in Threads : u # t => p[u] = pc[u]
  BY <1>1 DEF Where
<1>3. pc' = Broadcast(p) /\ pc[t] \in Where /\ pc[t] \notin Waits /\ "idle" \in Where
  BY <1>1 DEF apr_queue_interrupt_all, Waits, Where
<1> HIDE DEF p
<1>4. \A w \in Waits : N(p, w) = N(pc, w)
  <2>1. CASE pc[t] = "idle"
    <3>1. \A w \in Waits : At(p, w) = At(pc, w)
      BY <1>1, <1>2, <2>1 DEF At
    <3> QED BY <3>1 DEF N
  <2>2. CASE pc[t] # "idle"
    <3>1. \A w \in Where : w # pc[t] /\ w # "idle" => N(p, w) = N(pc, w)
      BY <1>1, <1>2, <1>3, <2>2, Move
    <3> QED BY <1>3, <3>1 DEF Waits, Where
  <2> QED BY <2>1, <2>2
<1>5. \A w \in Waits : N(pc, w) \in Nat
  BY CountType
<1>6. /\ pc' \in [Threads -> Where]
      /\ N(pc', "wait_empty") = 0 /\ N(pc', "wait_full") = 0
      /\ N(pc', "woken_empty") = N(p, "wait_empty") + N(p, "woken_empty")
      /\ N(pc', "woken_full") = N(p, "wait_full") + N(p, "woken_full")
  BY <1>2, <1>3, BroadcastMoves
<1>7. Balanced'
  <2>1. UNCHANGED <<full_waiters, empty_waiters>>
    BY DEF apr_queue_interrupt_all
  <2> QED BY <1>1, <1>4, <1>5, <1>6, <2>1 DEF Balanced, Waits
<1>8. RingOK' /\ terminated' \in BOOLEAN /\ arg' \in [Threads -> Item \cup {NULL}]
  BY <1>1 DEF RingOK, TypeOK, apr_queue_interrupt_all, ring
<1>9. ArgOK'
  <2>1. \A u \in Threads : pc'[u] \in {"push", "trypush", "wait_full", "woken_full"}
                           => pc[u] \in {"push", "trypush", "wait_full", "woken_full"}
    BY <1>2, <1>3 DEF Broadcast
  <2> QED BY <1>1, <2>1 DEF ArgOK, apr_queue_interrupt_all
<1> QED BY <1>6, <1>7, <1>8, <1>9, StepParts

(* Every step keeps the invariant. *)
LEMMA NextInv == Inv /\ [Next]_vars => Inv'
<1> SUFFICES ASSUME Inv, [Next]_vars PROVE Inv'
  OBVIOUS
<1>0. /\ TypeOK /\ ArgOK /\ pc \in [Threads -> Where]
      /\ arg \in [Threads -> Item \cup {NULL}] /\ terminated \in BOOLEAN
  BY DEF Inv, TypeOK
<1>1. ASSUME NEW t \in Threads, NEW op \in Ops, NEW x \in Item, Call(t, op, x)
      PROVE  Inv'
  <2>1. CASE terminated
    <3>1. UNCHANGED <<ring, terminated, full_waiters, empty_waiters, pc, arg>>
      BY <1>1, <2>1 DEF Call
    <3> QED BY <3>1 DEF Inv, TypeOK, ArgOK, WaitersCounted, NoLostWakeup, At, ring
  <2>2. CASE ~terminated
    <3>1. /\ pc' = [pc EXCEPT ![t] = op] /\ pc[t] = "idle"
          /\ UNCHANGED <<ring, terminated, full_waiters, empty_waiters>>
          /\ arg' = IF SideOf(op) = "push" THEN [arg EXCEPT ![t] = x] ELSE arg
      BY <1>1, <2>2 DEF Call
    <3>2. op \in Where /\ op # pc[t] /\ op \notin Waits /\ pc[t] \notin Waits
      BY <3>1 DEF Ops, Where, Waits
    <3>3. /\ arg' \in [Threads -> Item \cup {NULL}]
          /\ \A u \in Threads : u # t => arg'[u] = arg[u]
          /\ op \in {"push", "trypush"} => arg'[t] \in Item
      BY <1>0, <3>1 DEF SideOf
    <3> QED BY <1>0, <3>1, <3>2, <3>3, MoveStep DEF Ops
  <2> QED BY <2>1, <2>2
<1>2. ASSUME NEW t \in Threads, apr_queue_push(t) PROVE Inv'
  <2>1. CASE ~apr_queue_full /\ Insert(t, empty_waiters) /\ UNCHANGED full_waiters
    BY <1>2, <2>1, InsertStep DEF apr_queue_push
  <2>2. CASE /\ apr_queue_full /\ ~terminated
             /\ full_waiters' = full_waiters + 1
             /\ pc' = [pc EXCEPT ![t] = "wait_full"]
             /\ UNCHANGED <<ring, terminated, empty_waiters, arg, ret>>
    <3>1. pc[t] = "push" /\ arg[t] \in Item
      BY <1>0, <1>2 DEF apr_queue_push, ArgOK
    <3> QED BY <1>0, <2>2, <3>1, MoveStep DEF Where
  <2>3. CASE apr_queue_full /\ Unlock(t) /\ UNCHANGED <<full_waiters, empty_waiters>>
    <3>1. pc[t] = "push"
      BY <1>2 DEF apr_queue_push
    <3>2. pc' = [pc EXCEPT ![t] = "intr_push"] /\ UNCHANGED <<ring, terminated, arg>>
      BY <2>3, <3>1 DEF Unlock
    <3> QED BY <1>0, <2>3, <3>1, <3>2, MoveStep DEF Where, Waits
  <2> QED BY <1>2, <2>1, <2>2, <2>3 DEF apr_queue_push
<1>3. ASSUME NEW t \in Threads, PushWoken(t) PROVE Inv'
  <2>0. pc[t] = "woken_full" /\ full_waiters' = full_waiters - 1
    BY <1>3 DEF PushWoken
  <2>1. CASE ~apr_queue_full /\ Insert(t, empty_waiters)
    BY <2>0, <2>1, InsertStep
  <2>2. CASE apr_queue_full /\ Unlock(t) /\ UNCHANGED empty_waiters
    <3>1. pc' = [pc EXCEPT ![t] = "intr_push"] /\ UNCHANGED <<ring, terminated, arg>>
      BY <2>0, <2>2 DEF Unlock
    <3> QED BY <1>0, <2>0, <2>2, <3>1, MoveStep DEF Where
  <2> QED BY <1>3, <2>1, <2>2 DEF PushWoken
<1>4. ASSUME NEW t \in Threads, apr_queue_trypush(t) PROVE Inv'
  <2>0. pc[t] = "trypush" /\ UNCHANGED full_waiters
    BY <1>4 DEF apr_queue_trypush
  <2>1. CASE ~apr_queue_full /\ Insert(t, empty_waiters)
    BY <2>0, <2>1, InsertStep
  <2>2. CASE /\ pc' = [pc EXCEPT ![t] = "idle"]
             /\ arg' = [arg EXCEPT ![t] = NULL]
             /\ UNCHANGED <<ring, terminated, empty_waiters>>
    <3>1. arg' \in [Threads -> Item \cup {NULL}] /\ \A u \in Threads : u # t => arg'[u] = arg[u]
      BY <1>0, <2>2
    <3> QED BY <1>0, <2>0, <2>2, <3>1, MoveStep DEF Where, Waits
  <2> QED BY <1>4, <2>1, <2>2 DEF apr_queue_trypush
<1>5. ASSUME NEW t \in Threads, apr_queue_pop(t) PROVE Inv'
  <2>0. pc[t] = "pop"
    BY <1>5 DEF apr_queue_pop
  <2>1. CASE ~apr_queue_empty /\ Take(t, full_waiters) /\ UNCHANGED empty_waiters
    BY <2>0, <2>1, TakeStep
  <2>2. CASE /\ apr_queue_empty /\ ~terminated
             /\ empty_waiters' = empty_waiters + 1
             /\ pc' = [pc EXCEPT ![t] = "wait_empty"]
             /\ UNCHANGED <<ring, terminated, full_waiters, arg, ret>>
    BY <1>0, <2>0, <2>2, MoveStep DEF Where
  <2>3. CASE apr_queue_empty /\ Unlock(t) /\ UNCHANGED <<full_waiters, empty_waiters>>
    <3>1. pc' = [pc EXCEPT ![t] = "intr_pop"] /\ UNCHANGED <<ring, terminated, arg>>
      BY <2>0, <2>3 DEF Unlock
    <3> QED BY <1>0, <2>0, <2>3, <3>1, MoveStep DEF Where, Waits
  <2> QED BY <1>5, <2>1, <2>2, <2>3 DEF apr_queue_pop
<1>6. ASSUME NEW t \in Threads, PopWoken(t) PROVE Inv'
  <2>0. pc[t] = "woken_empty" /\ empty_waiters' = empty_waiters - 1
    BY <1>6 DEF PopWoken
  <2>1. CASE ~apr_queue_empty /\ Take(t, full_waiters)
    BY <2>0, <2>1, TakeStep
  <2>2. CASE apr_queue_empty /\ Unlock(t) /\ UNCHANGED full_waiters
    <3>1. pc' = [pc EXCEPT ![t] = "intr_pop"] /\ UNCHANGED <<ring, terminated, arg>>
      BY <2>0, <2>2 DEF Unlock
    <3> QED BY <1>0, <2>0, <2>2, <3>1, MoveStep DEF Where
  <2> QED BY <1>6, <2>1, <2>2 DEF PopWoken
<1>7. ASSUME NEW t \in Threads, apr_queue_trypop(t) PROVE Inv'
  <2>0. pc[t] = "trypop" /\ UNCHANGED empty_waiters
    BY <1>7 DEF apr_queue_trypop
  <2>1. CASE ~apr_queue_empty /\ Take(t, full_waiters)
    BY <2>0, <2>1, TakeStep
  <2>2. CASE /\ pc' = [pc EXCEPT ![t] = "idle"]
             /\ UNCHANGED <<ring, terminated, full_waiters, arg>>
    BY <1>0, <2>0, <2>2, MoveStep DEF Where, Waits
  <2> QED BY <1>7, <2>1, <2>2 DEF apr_queue_trypop
<1>8. ASSUME NEW t \in Threads, Interrupted(t) PROVE Inv'
  <2>1. /\ pc[t] \in {"intr_push", "intr_pop"} /\ pc' = [pc EXCEPT ![t] = "idle"]
        /\ arg' = [arg EXCEPT ![t] = NULL]
        /\ UNCHANGED <<ring, terminated, full_waiters, empty_waiters>>
    BY <1>8 DEF Interrupted
  <2>2. arg' \in [Threads -> Item \cup {NULL}] /\ \A u \in Threads : u # t => arg'[u] = arg[u]
    BY <1>0, <2>1
  <2> QED BY <1>0, <2>1, <2>2, MoveStep DEF Where, Waits
<1>9. ASSUME NEW t \in Threads, apr_queue_interrupt_all(t) PROVE Inv'
  BY <1>9, BroadcastStep
<1>10. ASSUME NEW t \in Threads, apr_queue_term(t) PROVE Inv'
  <2>1. /\ pc[t] = "idle" /\ pc' = [pc EXCEPT ![t] = "interrupt"] /\ terminated' = TRUE
        /\ UNCHANGED <<ring, full_waiters, empty_waiters, arg>>
    BY <1>10 DEF apr_queue_term
  <2> QED BY <1>0, <2>1, MoveStep DEF Where, Waits
<1>11. ASSUME NEW t \in Threads, SpuriousWakeup(t) PROVE Inv'
  <2>1. UNCHANGED <<ring, terminated, full_waiters, empty_waiters, arg>>
    BY <1>11 DEF SpuriousWakeup
  <2>2. CASE pc[t] = "wait_empty" /\ pc' = [pc EXCEPT ![t] = "woken_empty"]
    BY <1>0, <2>1, <2>2, MoveStep DEF Where
  <2>3. CASE pc[t] = "wait_full" /\ pc' = [pc EXCEPT ![t] = "woken_full"]
    <3>1. arg[t] \in Item
      BY <1>0, <2>3 DEF ArgOK
    <3> QED BY <1>0, <2>1, <2>3, <3>1, MoveStep DEF Where
  <2> QED BY <1>11, <2>2, <2>3 DEF SpuriousWakeup
<1>12. CASE UNCHANGED vars
  BY <1>12 DEF vars, Inv, TypeOK, ArgOK, WaitersCounted, NoLostWakeup, At
<1> QED
  BY <1>1, <1>2, <1>3, <1>4, <1>5, <1>6, <1>7, <1>8, <1>9, <1>10, <1>11, <1>12 DEF Next, Run

-----------------------------------------------------------------------------
(* The counters of apr_queue_t stay inside the ring, and in follows out by *)
(* nelts slots.                                                            *)
THEOREM TypeCorrect == Spec => []TypeOK
<1>1. Init => Inv
  BY InitInv DEF Inv
<1>2. Inv => TypeOK
  BY DEF Inv
<1> QED BY <1>1, <1>2, NextInv, PTL DEF Spec

(* full_waiters and empty_waiters count the threads inside cond_wait. *)
THEOREM WaitersAreCounted == Spec => []WaitersCounted
<1>1. Init => Inv
  BY InitInv DEF Inv
<1>2. Inv => WaitersCounted
  BY DEF Inv
<1> QED BY <1>1, <1>2, NextInv, PTL DEF Spec

(* No thread sleeps in apr_queue_push or apr_queue_pop while there is a    *)
(* slot or an element that no woken thread is on its way to.               *)
THEOREM NoWakeupIsLost == Spec => []NoLostWakeup
<1>1. Init => Inv
  BY InitInv DEF Inv
<1>2. Inv => NoLostWakeup
  BY DEF Inv
<1> QED BY <1>1, <1>2, NextInv, PTL DEF Spec

-----------------------------------------------------------------------------
(* The ring is a FIFO. *)

(* The i-th element, counted from out. *)
Slot(o, i) == IF o + i - 1 < Bound THEN o + i - 1 ELSE o + i - 1 - Bound

(* It is inside the ring. *)
LEMMA SlotRange ==
  ASSUME NEW n \in Nat, n <= Bound, NEW o \in 0 .. Bound - 1
  PROVE  \A i \in 1 .. n : Slot(o, i) \in 0 .. Bound - 1
BY BoundAssumption DEF Slot

(* Contents is a sequence of nelts elements. *)
LEMMA ContentsSeq ==
  ASSUME TypeOK
  PROVE  /\ Contents \in Seq(Item \cup {NULL})
         /\ Len(Contents) = nelts
         /\ DOMAIN Contents = 1 .. nelts
         /\ \A i \in 1 .. nelts : Contents[i] = data[Slot(out, i)]
<1>1. nelts \in Nat /\ nelts <= Bound /\ out \in 0 .. Bound - 1
  BY BoundAssumption DEF TypeOK
<1>2. \A i \in 1 .. nelts : Slot(out, i) \in 0 .. Bound - 1
  BY <1>1, SlotRange
<1>3. \A i \in 1 .. nelts : data[Slot(out, i)] \in Item \cup {NULL}
  BY <1>2 DEF TypeOK
<1>4. Contents = [i \in 1 .. nelts |-> data[Slot(out, i)]]
  BY DEF Contents, Slot
<1> QED BY <1>1, <1>3, <1>4

(* The same after a step. *)
LEMMA ContentsSeqNext ==
  ASSUME TypeOK'
  PROVE  /\ Contents' \in Seq(Item \cup {NULL})
         /\ Len(Contents') = nelts'
         /\ DOMAIN Contents' = 1 .. nelts'
         /\ \A i \in 1 .. nelts' : Contents'[i] = data'[Slot(out', i)]
<1>1. nelts' \in Nat /\ nelts' <= Bound /\ out' \in 0 .. Bound - 1
  BY BoundAssumption DEF TypeOK
<1>2. \A i \in 1 .. nelts' : Slot(out', i) \in 0 .. Bound - 1
  BY <1>1, SlotRange
<1>3. \A i \in 1 .. nelts' : data'[Slot(out', i)] \in Item \cup {NULL}
  BY <1>2 DEF TypeOK
<1>4. Contents' = [i \in 1 .. nelts' |-> data'[Slot(out', i)]]
  BY DEF Contents, Slot
<1> QED BY <1>1, <1>3, <1>4

(* A push appends its element. *)
LEMMA InsertContents ==
  ASSUME Inv, Inv', NEW t \in Threads, NEW n, ~apr_queue_full, Insert(t, n)
  PROVE  Contents' = Append(Contents, arg[t])
<1>1. TypeOK /\ TypeOK'
  BY DEF Inv
<1>2. /\ nelts' = nelts + 1 /\ out' = out /\ nelts \in Nat /\ nelts < Bound
      /\ data \in [0 .. Bound - 1 -> Item \cup {NULL}]
      /\ data' = [data EXCEPT ![in] = arg[t]] /\ in \in 0 .. Bound - 1
      /\ in = Slot(out, nelts + 1) /\ out \in 0 .. Bound - 1
  BY <1>1, BoundAssumption DEF TypeOK, Insert, apr_queue_full, Slot
<1>3. \A i \in 1 .. nelts : Slot(out, i) # in /\ Slot(out, i) \in 0 .. Bound - 1
  BY <1>2, BoundAssumption DEF Slot
<1>4. \A i \in 1 .. nelts : Contents'[i] = Contents[i]
  BY <1>1, <1>2, <1>3, ContentsSeq, ContentsSeqNext
<1>5. Contents'[nelts + 1] = arg[t]
  BY <1>1, <1>2, ContentsSeqNext
<1>6. /\ Contents \in Seq(Item \cup {NULL}) /\ Len(Contents) = nelts
      /\ Contents' \in Seq(Item \cup {NULL}) /\ Len(Contents') = nelts + 1
  BY <1>1, <1>2, ContentsSeq, ContentsSeqNext
<1> QED BY <1>2, <1>4, <1>5, <1>6

(* A pop removes the head. *)
LEMMA TakeContents ==
  ASSUME Inv, Inv', NEW t \in Threads, NEW n, ~apr_queue_empty, Take(t, n)
  PROVE  Contents # << >> /\ Contents' = Tail(Contents) /\ data[out] = Head(Contents)
<1>1. TypeOK /\ TypeOK'
  BY DEF Inv
<1>2. /\ nelts' = nelts - 1 /\ out' = Step(out) /\ nelts \in Nat \ {0} /\ nelts <= Bound
      /\ data' = data /\ out \in 0 .. Bound - 1
  BY <1>1, BoundAssumption DEF TypeOK, Take, apr_queue_empty
<1>3. \A i \in 1 .. nelts - 1 : Slot(out', i) = Slot(out, i + 1)
  BY <1>2, BoundAssumption DEF Slot, Step
<1>4. Slot(out, 1) = out
  BY <1>2, BoundAssumption DEF Slot
<1>5. \A i \in 1 .. nelts - 1 : Contents'[i] = Contents[i + 1]
  BY <1>1, <1>2, <1>3, ContentsSeq, ContentsSeqNext
<1>6. /\ Contents \in Seq(Item \cup {NULL}) /\ Len(Contents) = nelts
      /\ Contents' \in Seq(Item \cup {NULL}) /\ Len(Contents') = nelts - 1
      /\ Contents[1] = data[out]
  BY <1>1, <1>2, <1>4, ContentsSeq, ContentsSeqNext
<1> QED BY <1>2, <1>5, <1>6

(* Leaving the ring alone leaves its contents alone. *)
LEMMA SameContents == UNCHANGED ring => Contents' = Contents
BY DEF ring, Contents

(* The ring is full exactly when the FIFO is, and empty when it is. *)
LEMMA FullEmpty ==
  ASSUME TypeOK
  PROVE  /\ apr_queue_full <=> Len(Contents) = Bound
         /\ ~apr_queue_full <=> Len(Contents) < Bound
         /\ apr_queue_empty <=> Contents = << >>
<1>1. /\ Contents \in Seq(Item \cup {NULL}) /\ Len(Contents) = nelts
      /\ nelts \in 0 .. Bound
  BY ContentsSeq DEF TypeOK
<1> QED BY <1>1, BoundAssumption DEF apr_queue_full, apr_queue_empty

(* A step that stores an element is a push of the FIFO. *)
LEMMA InsertIsPush ==
  ASSUME Inv, Inv', NEW t \in Threads, NEW n, ~apr_queue_full, Insert(t, n),
         pc[t] \in {"push", "trypush", "woken_full"}
  PROVE  Fifo!Next
<1>1. arg[t] \in Item
  BY DEF Inv, ArgOK
<1>2. Len(Contents) < Bound
  BY FullEmpty DEF Inv
<1>3. Contents' = Append(Contents, arg[t])
  BY InsertContents
<1>4. Fifo!Push(arg[t])
  BY <1>2, <1>3 DEF Insert, Fifo!Push
<1> QED BY <1>1, <1>4 DEF Fifo!Next

(* A step that takes an element is a pop of the FIFO. *)
LEMMA TakeIsPop ==
  ASSUME Inv, Inv', NEW t \in Threads, NEW n, ~apr_queue_empty, Take(t, n)
  PROVE  Fifo!Next
<1>1. Contents # << >> /\ Contents' = Tail(Contents) /\ data[out] = Head(Contents)
  BY TakeContents
<1>2. Fifo!Pop
  BY <1>1 DEF Take, Fifo!Pop
<1> QED BY <1>2 DEF Fifo!Next

(* A step that returns without an element changes nothing. *)
LEMMA FailIsFail ==
  ASSUME Inv, UNCHANGED ring, UNCHANGED terminated,
         NEW op \in {"push", "pop"}, NEW rv \in {"APR_EAGAIN", "APR_EOF", "APR_EINTR"},
         ret' = [op |-> op, rv |-> rv], rv = "APR_EOF" => terminated,
         rv = "APR_EAGAIN" => IF op = "push" THEN apr_queue_full ELSE apr_queue_empty
  PROVE  Fifo!Next
<1>1. Contents' = Contents
  BY SameContents
<1>2. rv = "APR_EAGAIN" => IF op = "push" THEN Len(Contents) = Bound ELSE Contents = << >>
  BY FullEmpty DEF Inv
<1>3. Fifo!Fail(op, rv)
  BY <1>1, <1>2 DEF Fifo!Fail
<1> QED BY <1>3 DEF Fifo!Next

(* A step inside a call, invisible to the FIFO. *)
LEMMA InnerStep ==
  ASSUME UNCHANGED <<ring, terminated, ret>>
  PROVE  UNCHANGED Fifo!vars
BY SameContents DEF Fifo!vars

(* Every step of the queue is a step of the FIFO or a stutter. *)
LEMMA NextRefines == Inv /\ Inv' /\ [Next]_vars => [Fifo!Next]_Fifo!vars
<1> SUFFICES ASSUME Inv, Inv', [Next]_vars PROVE [Fifo!Next]_Fifo!vars
  OBVIOUS
<1>1. ASSUME NEW t \in Threads, NEW op \in Ops, NEW x \in Item, Call(t, op, x)
      PROVE  [Fifo!Next]_Fifo!vars
  <2>1. CASE terminated
    <3>1. /\ ret' = [op |-> SideOf(op), rv |-> "APR_EOF"] /\ UNCHANGED ring
          /\ UNCHANGED terminated /\ SideOf(op) \in {"push", "pop"}
      BY <1>1, <2>1 DEF Call, SideOf
    <3> QED BY <2>1, <3>1, FailIsFail
  <2>2. CASE ~terminated
    BY <1>1, <2>2, InnerStep DEF Call
  <2> QED BY <2>1, <2>2
<1>2. ASSUME NEW t \in Threads, apr_queue_push(t) PROVE [Fifo!Next]_Fifo!vars
  BY <1>2, InsertIsPush, InnerStep DEF apr_queue_push, Unlock
<1>3. ASSUME NEW t \in Threads, PushWoken(t) PROVE [Fifo!Next]_Fifo!vars
  BY <1>3, InsertIsPush, InnerStep DEF PushWoken, Unlock
<1>4. ASSUME NEW t \in Threads, apr_queue_trypush(t) PROVE [Fifo!Next]_Fifo!vars
  BY <1>4, InsertIsPush, FailIsFail DEF apr_queue_trypush
<1>5. ASSUME NEW t \in Threads, apr_queue_pop(t) PROVE [Fifo!Next]_Fifo!vars
  BY <1>5, TakeIsPop, InnerStep DEF apr_queue_pop, Unlock
<1>6. ASSUME NEW t \in Threads, PopWoken(t) PROVE [Fifo!Next]_Fifo!vars
  BY <1>6, TakeIsPop, InnerStep DEF PopWoken, Unlock
<1>7. ASSUME NEW t \in Threads, apr_queue_trypop(t) PROVE [Fifo!Next]_Fifo!vars
  BY <1>7, TakeIsPop, FailIsFail DEF apr_queue_trypop
<1>8. ASSUME NEW t \in Threads, Interrupted(t) PROVE [Fifo!Next]_Fifo!vars
  BY <1>8, FailIsFail DEF Interrupted
<1>9. ASSUME NEW t \in Threads, apr_queue_interrupt_all(t) PROVE [Fifo!Next]_Fifo!vars
  <2>1. Fifo!Controlled
    BY <1>9, SameContents DEF apr_queue_interrupt_all, Fifo!Controlled
  <2> QED BY <2>1 DEF Fifo!Next
<1>10. ASSUME NEW t \in Threads, apr_queue_term(t) PROVE [Fifo!Next]_Fifo!vars
  <2>1. Fifo!Terminate
    BY <1>10, SameContents DEF apr_queue_term, Fifo!Terminate
  <2> QED BY <2>1 DEF Fifo!Next
<1>11. ASSUME NEW t \in Threads, SpuriousWakeup(t) PROVE [Fifo!Next]_Fifo!vars
  BY <1>11, InnerStep DEF SpuriousWakeup
<1>12. CASE UNCHANGED vars
  BY <1>12, InnerStep DEF vars, ring
<1> QED
  BY <1>1, <1>2, <1>3, <1>4, <1>5, <1>6, <1>7, <1>8, <1>9, <1>10, <1>11, <1>12 DEF Next, Run

(* apr_queue implements the FIFO its callers are promised: elements come   *)
(* out once and in order, and every return value means what it says.       *)
THEOREM ImplementsFifo == Spec => RefinesBoundedFifo
<1>1. Init => Inv
  BY InitInv DEF Inv
<1>2. Init => Fifo!Init
  BY DEF Init, Fifo!Init, Contents, Fifo!NoRet
<1>3. Fifo!Spec <=> RefinesBoundedFifo
  BY DEF RefinesBoundedFifo
<1> QED BY <1>1, <1>2, <1>3, NextInv, NextRefines, PTL DEF Spec, Fifo!Spec
=============================================================================
