------------------------------ MODULE AprPools ------------------------------
(***************************************************************************)
(* apr_pool_t of APR, built without APR_POOL_DEBUG: a tree of memory pools *)
(* over one allocator.  A thread works on the pools it has created, below  *)
(* the root (global_pool, which owns the allocator) or below one of its    *)
(* own; the root's list of subpools and the allocator are shared and have  *)
(* a mutex.  Every critical section of it is one action, and so is what a  *)
(* thread does between two of them on its own pools; a cleanup function is *)
(* a step of its own and may call back into its pool.                      *)
(*                                                                         *)
(* Left out: the memory of the cleanup_t structures (reused through        *)
(* free_cleanups; what is read of one that was in memory given back), user *)
(* data, subprocesses, tags, the cleanups before exec and apr_psprintf,    *)
(* which writes into the nodes directly.                                   *)
(***************************************************************************)
EXTENDS AprAllocator

CONSTANTS
  Threads,
  Pools, Root,    \* apr_pool_t structures
  NULL,
  POOL_SIZE,      \* SIZEOF_POOL_T
  Requests,       \* sizes for apr_palloc
  Cleanups,       \* each is registered at most once
  MaxFrees        \* for apr_allocator_max_free_set

ASSUME PoolsAssumption == Root \in Pools /\ NULL \notin Pools \cup Threads
ASSUME SizesAssumption ==  \* a pool structure fits into the smallest node
  /\ POOL_SIZE \in 0 .. Capacity(1) /\ Requests \subseteq Nat
  /\ MaxFrees \subseteq 0 .. Word - 1

VARIABLES
  parent, child, sibling, ref,   \* ref: the pointer that points to the pool
  ring,           \* its nodes, from the active one on
  self,           \* the node with the pool structure
  cleanups, pre_cleanups,
  space,          \* per node: endp - first_avail
  free_index,     \* per node
  owner,          \* the thread that uses the pool
  stack,          \* the calls each thread is in, the innermost first
  done,           \* the cleanups that were run or killed
  registered,     \* history: all that were ever registered,
  late            \* and as pre-cleanups by a cleanup after those had been run

tree == <<parent, child, sibling, ref, owner>>
memory == <<ring, self, space, free_index>>
duties == <<cleanups, pre_cleanups, done, registered, late>>
vars == <<allocator, tree, memory, duties, stack>>

Live == {p \in Pools : ring[p] # << >>}

(* What a pointer to pool pointers, <<"child", p>> or <<"sibling", p>>, is *)
(* set to.                                                                 *)
Store(at, q) ==
  /\ child' = IF at[1] = "child" THEN [child EXCEPT ![at[2]] = q] ELSE child
  /\ sibling' = IF at[1] = "sibling" THEN [sibling EXCEPT ![at[2]] = q] ELSE sibling

Idle(t) == stack[t] = << >>

(* The threads have stopped when the root is destroyed. *)
Closing == \E u \in Threads : \E i \in 1 .. Len(stack[u]) :
             stack[u][i].op = "destroy" /\ stack[u][i].pool = Root
Start(t) == Idle(t) /\ ~Closing

Top(t) == Head(stack[t])
At(t, op, at) == ~Idle(t) /\ Top(t).op = op /\ Top(t).at = at
Call(t, frame) == stack' = [stack EXCEPT ![t] = <<frame>> \o @]
Goto(t, at) == stack' = [stack EXCEPT ![t][1].at = at]
Return(t) == stack' = [stack EXCEPT ![t] = Tail(@)]

-----------------------------------------------------------------------------
(* apr_palloc *)

(* Mutant: the former active node is not moved. *)
PromoteUnsorted(node, act, rest, fi) == <<node, act>> \o rest

(* The ring after node, taken out of rest if it was there, has become the  *)
(* active one and the former active one, act, has its free_index fi: rest  *)
(* has the larger free_index first.                                        *)
Promote(node, act, rest, fi) ==
  LET places == {j \in 2 .. Len(rest) : fi >= free_index[rest[j]]}
      at == IF rest = << >> \/ fi >= free_index[rest[1]] THEN 1
            ELSE IF places = {} THEN Len(rest) + 1 ELSE Min(places)
  IN  <<node>> \o InsertAt(rest, at, act)

(* size is taken from node, with room units left, which becomes active. *)
UseNode(p, node, room, size, rest) ==
  LET act == Head(ring[p])
      fi == space[act] \div BOUNDARY
  IN  /\ ring' = [ring EXCEPT ![p] = Promote(node, act, rest, fi)]
      /\ space' = [space EXCEPT ![node] = room - size]
      /\ free_index' = [free_index EXCEPT ![node] = 0, ![act] = fi]
      /\ UNCHANGED self

(* There is room in the active node, or in the next one. *)
PallocHere(p, size) ==
  \/ /\ size <= space[Head(ring[p])]
     /\ space' = [space EXCEPT ![Head(ring[p])] = @ - size]
     /\ UNCHANGED <<ring, self, free_index>>
  \/ /\ size > space[Head(ring[p])]
     /\ Len(ring[p]) > 1 /\ size <= space[ring[p][2]]
     /\ UseNode(p, ring[p][2], space[ring[p][2]], size, SubSeq(ring[p], 3, Len(ring[p])))

FitsHere(p, size) ==
  size <= space[Head(ring[p])] \/ (Len(ring[p]) > 1 /\ size <= space[ring[p][2]])

(* When malloc fails apr_palloc returns NULL and nothing has changed. *)
apr_palloc(t, p, size) ==
  /\ Start(t) /\ p \in Live /\ owner[p] = t
  /\ \/ PallocHere(p, size) /\ UNCHANGED allocator
     \/ /\ ~FitsHere(p, size)
        /\ \E n \in Nodes : /\ allocator_alloc(IndexFor(size), n)
                            /\ UseNode(p, n, Capacity(index'[n]), size, Tail(ring[p]))
  /\ UNCHANGED <<tree, duties, stack>>

-----------------------------------------------------------------------------
(* apr_pool_create_ex *)

(* The pool is made in its first node, *)
apr_pool_create(t, q) ==
  /\ Start(t) /\ q \in Live /\ (q = Root \/ owner[q] = t)
  /\ \E n \in Nodes, p \in Pools \ Live :
       /\ allocator_alloc(1, n)
       /\ ring' = [ring EXCEPT ![p] = <<n>>]
       /\ self' = [self EXCEPT ![p] = n]
       /\ space' = [space EXCEPT ![n] = Capacity(index'[n]) - POOL_SIZE]
       /\ parent' = [parent EXCEPT ![p] = q]
       /\ child' = [child EXCEPT ![p] = NULL]
       /\ owner' = [owner EXCEPT ![p] = t]
       /\ cleanups' = [cleanups EXCEPT ![p] = << >>]
       /\ pre_cleanups' = [pre_cleanups EXCEPT ![p] = << >>]
       /\ Call(t, [op |-> "create", at |-> "link", pool |-> p])
  /\ UNCHANGED <<sibling, ref, free_index, done, registered, late>>

(* Mutant: the former first subpool keeps its reference. *)
CreateLinksOneWay(t) ==
  LET p == Top(t).pool
      first == child[parent[p]]
  IN  /\ At(t, "create", "link")
      /\ sibling' = [sibling EXCEPT ![p] = first]
      /\ child' = [child EXCEPT ![parent[p]] = p]
      /\ ref' = [ref EXCEPT ![p] = <<"child", parent[p]>>]
      /\ Return(t)
      /\ UNCHANGED <<allocator, parent, owner, memory, duties>>

(* and put in front of its parent's subpools. *)
CreateLinks(t) ==
  LET p == Top(t).pool
      first == child[parent[p]]
  IN  /\ At(t, "create", "link")
      /\ sibling' = [sibling EXCEPT ![p] = first]
      /\ child' = [child EXCEPT ![parent[p]] = p]
      /\ ref' = [x \in Pools |-> IF x = p THEN <<"child", parent[p]>>
                                 ELSE IF x = first THEN <<"sibling", p>> ELSE ref[x]]
      /\ Return(t)
      /\ UNCHANGED <<allocator, parent, owner, memory, duties>>

-----------------------------------------------------------------------------
(* Cleanups *)

Fresh(k) == k \notin registered

(* The lists of p become c and d. *)
Become(p, c, d) ==
  /\ cleanups' = [cleanups EXCEPT ![p] = c]
  /\ pre_cleanups' = [pre_cleanups EXCEPT ![p] = d]

(* k comes first in one of the lists c and d of p. *)
Register(p, k, c, d) ==
  /\ Fresh(k) /\ registered' = registered \cup {k}
  /\ Become(p, <<k>> \o c, d) \/ Become(p, c, <<k>> \o d)

apr_pool_cleanup_register(t, p, k) ==
  /\ Start(t) /\ p \in Live /\ owner[p] = t
  /\ Register(p, k, cleanups[p], pre_cleanups[p])
  /\ UNCHANGED <<allocator, tree, memory, stack, done, late>>

(* The first entry of k leaves each list.  Also apr_pool_cleanup_run, which *)
(* calls the function as well.                                              *)
apr_pool_cleanup_kill(t, p, k) ==
  /\ Start(t) /\ p \in Live /\ owner[p] = t
  /\ k \in ToSet(cleanups[p] \o pre_cleanups[p])
  /\ Become(p, RemoveFirst(cleanups[p], k), RemoveFirst(pre_cleanups[p], k))
  /\ done' = done \cup {k}
  /\ UNCHANGED <<allocator, tree, memory, stack, registered, late>>

(* k was taken off the lists of p, which are c and d now, and its function *)
(* is called: it may register or kill another cleanup of either kind.      *)
Called(p, k, c, d) ==
  \/ Become(p, c, d) /\ done' = done \cup {k} /\ UNCHANGED registered
  \/ \E new \in Cleanups : Register(p, new, c, d) /\ done' = done \cup {k}
  \/ \E other \in ToSet(c \o d) :
       /\ Become(p, RemoveFirst(c, other), RemoveFirst(d, other))
       /\ done' = done \cup {k, other} /\ UNCHANGED registered

(* Mutant: the rest of the list is read before the function is called, so  *)
(* that what the function registers is forgotten.                          *)
RunCleanupStale(t, p) ==
  /\ At(t, Top(t).op, "cleanups") /\ cleanups[p] # << >>
  /\ Become(p, Tail(cleanups[p]), pre_cleanups[p])
  /\ \E new \in Cleanups : Fresh(new) /\ registered' = registered \cup {new}
  /\ done' = done \cup {Head(cleanups[p])}
  /\ UNCHANGED late

(* run_cleanups: one is taken off the list and called.  The pre-cleanups   *)
(* were run before: one that is registered now is not, in this call.       *)
RunCleanup(t, p) ==
  /\ At(t, Top(t).op, "cleanups") /\ cleanups[p] # << >>
  /\ Called(p, Head(cleanups[p]), Tail(cleanups[p]), pre_cleanups[p])
  /\ late' = late \cup (ToSet(pre_cleanups'[p]) \ ToSet(pre_cleanups[p]))

RunPreCleanup(t, p) ==
  /\ At(t, Top(t).op, "pre") /\ pre_cleanups[p] # << >>
  /\ Called(p, Head(pre_cleanups[p]), cleanups[p], Tail(pre_cleanups[p]))
  /\ UNCHANGED late

run_cleanups(t) ==
  /\ ~Idle(t) /\ Top(t).at \in {"pre", "cleanups"}
  /\ RunCleanup(t, Top(t).pool) \/ RunPreCleanup(t, Top(t).pool)
  /\ UNCHANGED <<allocator, tree, memory, stack>>

-----------------------------------------------------------------------------
(* apr_pool_clear, apr_pool_destroy *)

apr_pool_clear(t, p) ==
  /\ Start(t) /\ p \in Live /\ owner[p] = t
  /\ Call(t, [op |-> "clear", at |-> "pre", pool |-> p])
  /\ UNCHANGED <<allocator, tree, memory, duties>>

(* The root goes last, by apr_pool_terminate, when the threads are done. *)
apr_pool_destroy(t, p) ==
  /\ Start(t) /\ p \in Live
  /\ owner[p] = t \/ (p = Root /\ \A u \in Threads : Idle(u))
  /\ Call(t, [op |-> "destroy", at |-> "pre", pool |-> p])
  /\ UNCHANGED <<allocator, tree, memory, duties>>

(* With the pre-cleanups done, the loop over the subpools. *)
DestroySubpools(t) ==
  LET p == Top(t).pool
  IN  /\ ~Idle(t) /\ Top(t).at = "pre" /\ pre_cleanups[p] = << >>
      /\ IF child[p] # NULL THEN Call(t, [op |-> "destroy", at |-> "pre", pool |-> child[p]])
         ELSE Goto(t, "cleanups")
      /\ UNCHANGED <<allocator, tree, memory, duties>>

CleanupsDone(t) == ~Idle(t) /\ Top(t).at = "cleanups" /\ cleanups[Top(t).pool] = << >>

(* The nodes from the one with the pool structure on. *)
FromSelf(p) ==
  LET i == CHOOSE j \in 1 .. Len(ring[p]) : ring[p][j] = self[p]
  IN  SubSeq(ring[p], i, Len(ring[p])) \o SubSeq(ring[p], 1, i - 1)

(* What the nodes of p hold is forgotten. *)
Forget(f, p) == [n \in Nodes |-> IF n \in ToSet(ring[p]) THEN 0 ELSE f[n]]

(* Mutant: the chain that is given back starts with the first node. *)
ClearFreesAll(t) ==
  LET p == Top(t).pool
  IN  /\ CleanupsDone(t) /\ Top(t).op = "clear"
      /\ ring' = [ring EXCEPT ![p] = <<self[p]>>]
      /\ space' = [n \in Nodes |-> IF n = self[p] THEN Capacity(index[n]) - POOL_SIZE
                                   ELSE Forget(space, p)[n]]
      /\ free_index' = Forget(free_index, p)
      /\ IF Len(ring[p]) > 1 THEN allocator_free(FromSelf(p)) ELSE UNCHANGED allocator
      /\ Return(t)
      /\ UNCHANGED <<tree, self, duties>>

(* apr_pool_clear keeps the first node and gives the others back. *)
ClearFrees(t) ==
  LET p == Top(t).pool
  IN  /\ CleanupsDone(t) /\ Top(t).op = "clear"
      /\ ring' = [ring EXCEPT ![p] = <<self[p]>>]
      /\ space' = [n \in Nodes |-> IF n = self[p] THEN Capacity(index[n]) - POOL_SIZE
                                   ELSE Forget(space, p)[n]]
      /\ free_index' = Forget(free_index, p)
      /\ IF Len(ring[p]) > 1 THEN allocator_free(Tail(FromSelf(p))) ELSE UNCHANGED allocator
      /\ Return(t)
      /\ UNCHANGED <<tree, self, duties>>

(* The pool leaves its parent's list of subpools. *)
DestroyUnlinks(t) ==
  LET p == Top(t).pool
  IN  /\ CleanupsDone(t) /\ Top(t).op = "destroy"
      /\ IF p = Root THEN UNCHANGED <<child, sibling, ref>>
         ELSE /\ Store(ref[p], sibling[p])
              /\ ref' = IF sibling[p] = NULL THEN ref ELSE [ref EXCEPT ![sibling[p]] = ref[p]]
      /\ Goto(t, "free")
      /\ UNCHANGED <<allocator, parent, owner, memory, duties>>

(* Its nodes go to the allocator, and with the root the allocator goes; a  *)
(* pre-cleanup that is listed still goes with the pool.                    *)
DestroyFrees(t) ==
  LET p == Top(t).pool
  IN  /\ At(t, "destroy", "free")
      /\ IF p = Root THEN apr_allocator_destroy(FromSelf(p)) ELSE allocator_free(FromSelf(p))
      /\ ring' = [ring EXCEPT ![p] = << >>]
      /\ space' = Forget(space, p) /\ free_index' = Forget(free_index, p)
      /\ owner' = [owner EXCEPT ![p] = NULL] /\ self' = [self EXCEPT ![p] = NULL]
      /\ parent' = [parent EXCEPT ![p] = NULL] /\ ref' = [ref EXCEPT ![p] = NULL]
      /\ sibling' = [sibling EXCEPT ![p] = NULL]
      /\ Become(p, << >>, << >>)
      /\ Return(t)
      /\ UNCHANGED <<child, done, registered, late>>

(* The limit is changed while nobody has a pool and nothing is kept. *)
MaxFreeSet(max) ==
  /\ Live = {Root} /\ Retained = {}
  /\ apr_allocator_max_free_set(max)
  /\ UNCHANGED <<tree, memory, duties, stack>>

-----------------------------------------------------------------------------
Init ==  \* apr_pool_initialize
  /\ AllocatorInit
  /\ \E n \in Nodes :
       /\ index = [m \in Nodes |-> IF m = n THEN 1 ELSE 0]
       /\ ring = [p \in Pools |-> IF p = Root THEN <<n>> ELSE << >>]
       /\ self = [p \in Pools |-> IF p = Root THEN n ELSE NULL]
       /\ space = [m \in Nodes |-> IF m = n THEN Capacity(1) - POOL_SIZE ELSE 0]
  /\ free_index = [n \in Nodes |-> 0]
  /\ parent = [p \in Pools |-> NULL] /\ child = [p \in Pools |-> NULL]
  /\ sibling = [p \in Pools |-> NULL] /\ ref = [p \in Pools |-> NULL]
  /\ owner = [p \in Pools |-> NULL]
  /\ cleanups = [p \in Pools |-> << >>] /\ pre_cleanups = [p \in Pools |-> << >>]
  /\ done = {} /\ registered = {} /\ late = {}
  /\ stack = [t \in Threads |-> << >>]

Next ==
  \/ \E max \in MaxFrees : MaxFreeSet(max)
  \/ \E t \in Threads :
    \/ \E p \in Pools :
         \/ apr_pool_create(t, p)
         \/ apr_pool_clear(t, p)
         \/ apr_pool_destroy(t, p)
         \/ \E size \in Requests : apr_palloc(t, p, size)
         \/ \E k \in Cleanups :
              \/ apr_pool_cleanup_register(t, p, k)
              \/ apr_pool_cleanup_kill(t, p, k)
    \/ CreateLinks(t)
    \/ run_cleanups(t)
    \/ DestroySubpools(t)
    \/ ClearFrees(t)
    \/ DestroyUnlinks(t)
    \/ DestroyFrees(t)

Spec == Init /\ [][Next]_vars

-----------------------------------------------------------------------------
(* Every node the system has given out is in the ring of one pool, once,   *)
(* or in one free list: memory is never in two pools, nor used after it    *)
(* was given back, nor leaked, with two threads in the allocator; and when *)
(* the root is destroyed the system has everything back.                   *)
NodesAccounted ==
  /\ \A n \in Nodes :
       Cardinality({p \in Pools : n \in ToSet(ring[p])} \cup {j \in Slots : n \in ToSet(free[j])})
         = IF index[n] = 0 THEN 0 ELSE 1
  /\ \A p \in Live : IsInjective(ring[p]) /\ self[p] \in ToSet(ring[p])
  /\ Root \notin Live => \A n \in Nodes : index[n] = 0

(* The nodes behind the active one have the larger free_index first, and   *)
(* it is what their free space amounts to, so that apr_palloc finds the    *)
(* roomiest node in active->next; no node is used beyond its end.          *)
RingSorted ==
  \A p \in Live :
    /\ \A i \in 1 .. Len(ring[p]) : space[ring[p][i]] >= 0
    /\ \A i \in 2 .. Len(ring[p]) :
         /\ free_index[ring[p][i]] = space[ring[p][i]] \div BOUNDARY
         /\ i > 2 => free_index[ring[p][i - 1]] >= free_index[ring[p][i]]

(* The pools that are in their parent's list: not those that are just made *)
(* or about to be freed.                                                   *)
Linked(p) ==
  /\ p \in Live \ {Root}
  /\ \A t \in Threads : ~Idle(t) /\ Top(t).at \in {"link", "free"} => Top(t).pool # p

(* The subpools that child and sibling lead to: the smallest set with the  *)
(* first one and the sibling of every member.                              *)
Subpools(p) ==
  {q \in Pools : \A S \in SUBSET Pools :
     /\ child[p] # NULL => child[p] \in S
     /\ \A x \in S : sibling[x] # NULL => sibling[x] \in S
     => q \in S}

(* The subpools of a pool, as child and sibling lead through them, are the *)
(* live pools it is the parent of, and each is found through its ref,      *)
(* whichever threads create and destroy its siblings; no pool outlives its *)
(* parent.                                                                 *)
TreeLinked ==
  /\ \A p \in Live :
       /\ Subpools(p) = {q \in Pools : Linked(q) /\ parent[q] = p}
       /\ child[p] # NULL => ref[child[p]] = <<"child", p>>
  /\ \A p \in Pools : Linked(p) =>
       /\ parent[p] \in Live
       /\ sibling[p] # NULL => ref[sibling[p]] = <<"sibling", p>>

Listed(p) == ToSet(cleanups[p] \o pre_cleanups[p])

(* A cleanup that was run or killed is in no list any more, also when      *)
(* cleanups register and kill others while they are run, none is listed    *)
(* twice, and none is forgotten: each that was ever registered was run or  *)
(* killed or is in the list of a pool that is there, but for the           *)
(* pre-cleanups that a cleanup registered when those had been run.         *)
CleanupOnce ==
  /\ \A p \in Pools : IsInjective(cleanups[p] \o pre_cleanups[p]) /\ Listed(p) \cap done = {}
  /\ \A p, q \in Pools : p # q => Listed(p) \cap Listed(q) = {}
  /\ LET found == done \cup UNION {Listed(p) : p \in Live}
     IN  found \subseteq registered /\ registered \ found \subseteq late
=============================================================================
