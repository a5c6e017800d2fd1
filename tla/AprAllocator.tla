---------------------------- MODULE AprAllocator ----------------------------
(***************************************************************************)
(* apr_allocator_t of APR: the free memory nodes, binned by size, between  *)
(* the pools and the system.  The critical sections of its mutex are       *)
(* operators on the variables; AprPools makes them actions of the threads. *)
(* Sizes are in units, BOUNDARY of them per step of a node's index.        *)
(***************************************************************************)
EXTENDS Integers, Sequences, FiniteSets, FiniteSetsExt, SequencesExt

CONSTANTS
  Nodes,        \* the memory the system has
  MAX_INDEX,
  BOUNDARY,     \* BOUNDARY_SIZE; MIN_ALLOC is twice as much
  NODE_SIZE,    \* APR_MEMNODE_T_SIZE
  Word          \* apr_uint32_t counts modulo this

ASSUME AllocatorAssumption ==
  /\ MAX_INDEX \in Nat /\ MAX_INDEX > 1
  /\ BOUNDARY \in Nat /\ NODE_SIZE \in 1 .. BOUNDARY
  /\ Word \in Nat /\ Word > MAX_INDEX

VARIABLES
  free,                \* the bins: 0 is the sink for oversized nodes
  max_index, max_free_index, current_free_index,
  index                \* of each node; 0 while the system has it

bins == <<free, max_index, current_free_index>>
allocator == <<bins, max_free_index, index>>

Slots == 0 .. MAX_INDEX - 1

(* The index of the smallest node with room for size. *)
IndexFor(size) ==
  LET i == (size + NODE_SIZE + BOUNDARY - 1) \div BOUNDARY - 1 IN IF i < 1 THEN 1 ELSE i

Capacity(i) == (i + 1) * BOUNDARY - NODE_SIZE

-----------------------------------------------------------------------------
(* allocator_alloc.  max_index and free[0] are first read without the      *)
(* mutex, while another thread may write them: whatever they say, there is *)
(* a walk along the bins, a walk along the sink or none.                   *)
Looks(i) == {"sink", "system"} \cup (IF i < MAX_INDEX THEN {"bins"} ELSE {})

(* The bins that the walk reaches and that have a node. *)
Hits(i) == {j \in Slots : i <= j /\ (j = i \/ j <= max_index) /\ free[j] # << >>}

(* The place in the sink of the first node that is large enough. *)
SinkHits(i) == {k \in 1 .. Len(free[0]) : i <= index[free[0][k]]}

(* n leaves the free lists. *)
Unretain(n) ==
  LET sum == (current_free_index + index[n] + 1) % Word
  IN  current_free_index' = IF sum > max_free_index THEN max_free_index ELSE sum

(* The highest bin below j that is not empty; the sink if there is none. *)
NextMax(j) == Max({k \in 0 .. j - 1 : k = 0 \/ free[k] # << >>})

(* Mutant: the highest index stays when its last node leaves. *)
TakeFromBinsKeepsMax(i, n) ==
  LET j == Min(Hits(i))
  IN  /\ Hits(i) # {} /\ n = Head(free[j])
      /\ free' = [free EXCEPT ![j] = Tail(@)]
      /\ Unretain(n)
      /\ UNCHANGED <<max_index, max_free_index, index>>

TakeFromBins(i, n) ==
  LET j == Min(Hits(i))
  IN  /\ Hits(i) # {} /\ n = Head(free[j])
      /\ free' = [free EXCEPT ![j] = Tail(@)]
      /\ max_index' = IF Tail(free[j]) = << >> /\ j >= max_index THEN NextMax(max_index)
                      ELSE max_index
      /\ Unretain(n)
      /\ UNCHANGED <<max_free_index, index>>

TakeFromSink(i, n) ==
  /\ SinkHits(i) # {}
  /\ n = free[0][Min(SinkHits(i))]
  /\ free' = [free EXCEPT ![0] = RemoveAt(@, Min(SinkHits(i)))]
  /\ Unretain(n)
  /\ UNCHANGED <<max_index, max_free_index, index>>

(* malloc of a new node. *)
TakeFromSystem(i, n) ==
  /\ index[n] = 0
  /\ index' = [index EXCEPT ![n] = i]
  /\ UNCHANGED <<bins, max_free_index>>

(* n is the node for a request of index i. *)
allocator_alloc(i, n) ==
  \E look \in Looks(i) :
    \/ look = "bins" /\ TakeFromBins(i, n)
    \/ look = "sink" /\ TakeFromSink(i, n)
    \/ /\ CASE look = "bins" -> Hits(i) = {}
             [] look = "sink" -> SinkHits(i) = {}
             [] OTHER -> TRUE
       /\ TakeFromSystem(i, n)

(* Mutant: the limit is looked at once, for all the nodes. *)
FreeNodeUnlimited(acc, n) ==
  LET i == index[n]
      slot == IF i < MAX_INDEX THEN i ELSE 0
  IN  IF max_free_index # 0 /\ i + 1 > current_free_index
        THEN [acc EXCEPT !.out = @ \cup {n}]
        ELSE [acc EXCEPT !.free[slot] = <<n>> \o @,
                         !.max = IF acc.free[slot] = << >> /\ slot > @ THEN slot ELSE @,
                         !.cur = IF @ >= i + 1 THEN @ - (i + 1) ELSE 0]

(* One turn of the loop of allocator_free: a node that exceeds what may be *)
(* kept will go back to the system, another one into the bin of its size.  *)
FreeNode(acc, n) ==
  LET i == index[n]
      slot == IF i < MAX_INDEX THEN i ELSE 0
  IN  IF max_free_index # 0 /\ i + 1 > acc.cur
        THEN [acc EXCEPT !.out = @ \cup {n}]
        ELSE [acc EXCEPT !.free[slot] = <<n>> \o @,
                         !.max = IF acc.free[slot] = << >> /\ slot > @ THEN slot ELSE @,
                         !.cur = IF @ >= i + 1 THEN @ - (i + 1) ELSE 0]

(* The bins after each turn, and the nodes for the system. *)
Turns(nodes) ==
  LET after[k \in 0 .. Len(nodes)] ==
        IF k = 0 THEN [free |-> free, max |-> max_index, cur |-> current_free_index, out |-> {}]
        ELSE FreeNode(after[k - 1], nodes[k])
  IN  after

allocator_free(nodes) ==
  LET end == Turns(nodes)[Len(nodes)]
  IN  /\ free' = end.free /\ max_index' = end.max /\ current_free_index' = end.cur
      /\ index' = [n \in Nodes |-> IF n \in end.out THEN 0 ELSE index[n]]
      /\ UNCHANGED max_free_index

Retained == UNION {ToSet(free[j]) : j \in Slots}

(* What the kept nodes amount to: a node of index i is i + 1 boundaries.   *)
Boundaries(S) == UNION {{n} \X (0 .. index[n]) : n \in S}
Kept == Cardinality(Boundaries(Retained))

(* max: the new limit in multiples of BOUNDARY, 0 for none. *)
apr_allocator_max_free_set(max) ==
  LET sum == (current_free_index + max - max_free_index) % Word
  IN  /\ current_free_index' = IF sum > max THEN max ELSE sum
      /\ max_free_index' = max
      /\ UNCHANGED <<free, max_index, index>>

(* apr_allocator_destroy, after its owner has freed its own nodes. *)
apr_allocator_destroy(nodes) ==
  /\ free' = [j \in Slots |-> << >>]
  /\ index' = [n \in Nodes |-> IF n \in Retained \cup ToSet(nodes) THEN 0 ELSE index[n]]
  /\ max_index' = 0 /\ max_free_index' = 0 /\ current_free_index' = 0

AllocatorInit ==  \* apr_allocator_create
  /\ free = [j \in Slots |-> << >>]
  /\ max_index = 0 /\ max_free_index = 0 /\ current_free_index = 0

-----------------------------------------------------------------------------
(* Each node is in the bin of its size and in one only, the sink has the   *)
(* oversized ones, and max_index is the highest bin in use: a node that is *)
(* found is never too small, and none is missed.                           *)
BinsRight ==
  /\ \A j \in Slots, n \in Nodes :
       n \in ToSet(free[j]) => IF j = 0 THEN index[n] >= MAX_INDEX ELSE index[n] = j
  /\ \A j \in Slots : IsInjective(free[j])
  /\ max_index = Max({j \in Slots : j = 0 \/ free[j] # << >>})

(* current_free_index stays in its "Range: 0..max_free_index", and with a  *)
(* limit what is kept and what may still be kept add up to it, whatever    *)
(* nodes come and go.                                                      *)
KeptWithinLimit ==
  /\ current_free_index \in 0 .. max_free_index
  /\ max_free_index # 0 => Kept + current_free_index = max_free_index
=============================================================================
