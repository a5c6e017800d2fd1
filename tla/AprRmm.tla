------------------------------- MODULE AprRmm -------------------------------
(***************************************************************************)
(* apr_rmm of apr-util: an allocator inside a segment of shared memory.    *)
(* The headers of the blocks form two doubly linked lists, of used and of  *)
(* free blocks, with offsets as links and 0 as the end.  The clients are   *)
(* processes that attached to the segment; each critical section of        *)
(* rmm->lock is one action and apr_rmm_realloc is two.  They use the API   *)
(* as documented: they free what they were given, once.                    *)
(*                                                                         *)
(* blk holds the headers; the memory between them is the clients' and left *)
(* out, so apr_rmm_calloc is apr_rmm_malloc and apr_rmm_realloc copies     *)
(* nothing.  apr_rmm_attach and apr_rmm_detach change nothing in the       *)
(* segment.                                                                *)
(***************************************************************************)
EXTENDS Integers, Sequences, FiniteSets, FiniteSetsExt

CONSTANTS
  Clients,
  Size,            \* of the segment
  Align,           \* APR_ALIGN_DEFAULT rounds up to a multiple of it
  Hdr, Block,      \* RMM_HDR_BLOCK_SIZE, RMM_BLOCK_SIZE
  Word,            \* apr_size_t counts modulo this
  Requests         \* the values of reqsize

ASSUME SizesAssumption ==
  /\ Align \in Nat \ {0} /\ Hdr \in Nat \ {0} /\ Block \in Nat \ {0}
  /\ Size \in Nat /\ Word \in Nat
  /\ \A n \in {Size, Hdr, Block, Word} : n % Align = 0
  /\ Hdr + Block <= Size /\ Size < Word
  /\ Requests \subseteq 0 .. Word - 1

VARIABLES
  blk,          \* offset of a block -> its rmm_block_t
  firstused, firstfree,
  abssize,      \* 0 when the segment has been destroyed
  allocs,       \* per client: what it was given and asked for
  moving,       \* per client: the allocation apr_rmm_realloc will free
  freed         \* something was freed

lists == <<blk, firstused, firstfree>>
vars == <<blk, firstused, firstfree, abssize, allocs, moving, freed>>

Heap == [blk |-> blk, used |-> firstused, free |-> firstfree]

ALIGN_DEFAULT(n) == (((n + Align - 1) % Word) \div Align) * Align

-----------------------------------------------------------------------------
(* The lists.  h is a heap: blk, used and free. *)

(* The blocks of the list that starts at first. *)
Chain(b, first) ==
  LET from[o \in DOMAIN b \cup {0}] == IF o = 0 THEN << >> ELSE <<o>> \o from[b[o].next]
  IN  from[first]

(* The block at find, or the last one before the walk overshoots it. *)
find_block_by_offset(b, first, find) ==
  LET c == Chain(b, first)
      reached == {i \in 1 .. Len(c) : c[i] >= find}
      stop == IF reached = {} THEN Len(c) + 1 ELSE Min(reached)
  IN  IF stop <= Len(c) /\ c[stop] = find THEN find
      ELSE IF stop = 1 THEN 0 ELSE c[stop - 1]

(* The block of exactly this size that comes first, or else the first of   *)
(* the smallest that are larger.                                           *)
BestFit(h, size) ==
  LET c == Chain(h.blk, h.free)
      fits == {i \in 1 .. Len(c) : h.blk[c[i]].size >= size}
      best == {i \in fits : \A j \in fits : h.blk[c[i]].size <= h.blk[c[j]].size}
  IN  IF fits = {} THEN 0 ELSE c[Min(best)]

(* Mutant: the block that is split keeps its size. *)
find_block_of_sizeUncut(h, size) ==
  LET best == BestFit(h, size)
      old == h.blk[best]
      rest == [size |-> old.size - size, prev |-> best, next |-> old.next]
  IN  IF best = 0 \/ old.size <= Block + size THEN h
      ELSE [h EXCEPT !.blk =
              [o \in DOMAIN h.blk \cup {best + size} |->
                 IF o = best + size THEN rest
                 ELSE IF o = best THEN [old EXCEPT !.next = best + size]
                 ELSE IF o = old.next THEN [h.blk[o] EXCEPT !.prev = best + size]
                 ELSE h.blk[o]]]

(* The heap after find_block_of_size has split the block it returns. *)
find_block_of_size(h, size) ==
  LET best == BestFit(h, size)
      old == h.blk[best]
      rest == [size |-> old.size - size, prev |-> best, next |-> old.next]
  IN  IF best = 0 \/ old.size <= Block + size THEN h
      ELSE [h EXCEPT !.blk =
              [o \in DOMAIN h.blk \cup {best + size} |->
                 IF o = best + size THEN rest
                 ELSE IF o = best THEN [old EXCEPT !.size = size, !.next = best + size]
                 ELSE IF o = old.next THEN [h.blk[o] EXCEPT !.prev = best + size]
                 ELSE h.blk[o]]]

(* Links of the blocks at o, if there are any. *)
SetNext(b, o, n) == IF o = 0 THEN b ELSE [b EXCEPT ![o].next = n]
SetPrev(b, o, p) == IF o = 0 THEN b ELSE [b EXCEPT ![o].prev = p]

(* move_block: "close the gap" in the list the block is in, *)
Unlink(h, this, list) ==
  LET it == h.blk[this]
      b == SetPrev(SetNext(h.blk, it.prev, it.next), it.next, it.prev)
  IN  IF it.prev # 0 THEN [h EXCEPT !.blk = b]
      ELSE [h EXCEPT !.blk = b, ![list] = it.next]

(* put it into the other one, *)
LinkIn(h, this, list) ==
  LET p == find_block_by_offset(h.blk, h[list], this)
      n == IF p = 0 THEN h[list] ELSE h.blk[p].next
      b == [h.blk EXCEPT ![this].prev = p, ![this].next = n]
  IN  [h EXCEPT !.blk = SetPrev(SetNext(b, p, this), n, this),
                ![list] = IF p = 0 THEN this ELSE @]

(* and join it with the free block it touches on either side. *)
Collapse(h, o) ==
  LET n == h.blk[o].next
      b == [h.blk EXCEPT ![o].size = @ + h.blk[n].size, ![o].next = h.blk[n].next]
  IN  IF o # 0 /\ n # 0 /\ o + h.blk[o].size = n
        THEN [h EXCEPT !.blk = [x \in DOMAIN b \ {n} |-> SetPrev(b, b[o].next, o)[x]]]
        ELSE h

(* Mutant: a block is joined with its successor only. *)
move_blockHalf(h, this, free) ==
  IF ~free THEN LinkIn(Unlink(h, this, "free"), this, "used")
  ELSE Collapse(LinkIn(Unlink(h, this, "used"), this, "free"), this)

move_block(h, this, free) ==
  IF ~free THEN LinkIn(Unlink(h, this, "free"), this, "used")
  ELSE LET in == LinkIn(Unlink(h, this, "used"), this, "free")
           p == in.blk[this].prev
       IN  IF p # 0 /\ p + in.blk[p].size = this
             THEN Collapse(Collapse(in, p), p)
             ELSE Collapse(in, this)

-----------------------------------------------------------------------------
(* Mutant: the sum is not checked for overflow. *)
BlockSizeUnchecked(req) == (ALIGN_DEFAULT(req) + Block) % Word

(* The size of the block for a request, or 0 if there can be none. *)
BlockSize(req) ==
  LET size == (ALIGN_DEFAULT(req) + Block) % Word
  IN  IF size < req THEN 0 ELSE size

(* The offset apr_rmm_malloc would return, or 0. *)
Offered(req) ==
  LET this == IF BlockSize(req) = 0 THEN 0 ELSE BestFit(Heap, BlockSize(req))
  IN  IF this = 0 THEN 0 ELSE this + Block

Becomes(h) == blk' = h.blk /\ firstused' = h.used /\ firstfree' = h.free

Give(c, req) ==
  /\ Offered(req) # 0
  /\ Becomes(move_block(find_block_of_size(Heap, BlockSize(req)), Offered(req) - Block, FALSE))
  /\ allocs' = [allocs EXCEPT ![c] = @ \cup {[off |-> Offered(req), req |-> req]}]

None == [off |-> 0, req |-> 0]

apr_rmm_malloc(c, req) ==
  /\ moving[c] = None
  /\ Give(c, req)
  /\ UNCHANGED <<abssize, moving, freed>>

(* apr_rmm_realloc up to the successful apr_rmm_malloc. *)
apr_rmm_realloc(c, a, req) ==
  /\ moving[c] = None /\ a \in allocs[c]
  /\ ALIGN_DEFAULT(req) >= req
  /\ Give(c, ALIGN_DEFAULT(req))
  /\ moving' = [moving EXCEPT ![c] = a]
  /\ UNCHANGED <<abssize, freed>>

(* The checks of apr_rmm_free. *)
Sane(off) ==
  LET this == off - Block
  IN  /\ off >= Hdr + Block
      /\ IF blk[this].prev # 0 THEN blk[blk[this].prev].next = this ELSE firstused = this
      /\ blk[this].next # 0 => blk[blk[this].next].prev = this

(* Refused with APR_EINVAL if the checks fail; the client lets go of it    *)
(* either way.                                                             *)
apr_rmm_free(c, a) ==
  /\ a \in allocs[c] /\ moving[c] \in {None, a}
  /\ \/ Sane(a.off) /\ Becomes(move_block(Heap, a.off - Block, TRUE))
     \/ ~Sane(a.off) /\ UNCHANGED lists
  /\ allocs' = [allocs EXCEPT ![c] = @ \ {a}]
  /\ moving' = [moving EXCEPT ![c] = None]
  /\ freed' = TRUE
  /\ UNCHANGED abssize

apr_rmm_destroy ==
  /\ abssize # 0
  /\ blk' = [o \in DOMAIN blk |-> [blk[o] EXCEPT !.prev = 0, !.next = 0]]
  /\ firstused' = 0 /\ firstfree' = 0 /\ abssize' = 0
  /\ UNCHANGED <<allocs, moving, freed>>

(* Mutant: no room for alignment. *)
apr_rmm_overhead_getUnaligned(n) == Hdr + n * Block

(* HDR + n * (BLOCK + one unit of alignment). *)
apr_rmm_overhead_get(n) == Hdr + n * (Block + ALIGN_DEFAULT(1))

Init ==  \* apr_rmm_init
  /\ blk = [o \in {Hdr} |-> [size |-> Size - Hdr, prev |-> 0, next |-> 0]]
  /\ firstused = 0
  /\ firstfree = Hdr
  /\ abssize = Size
  /\ allocs = [c \in Clients |-> {}]
  /\ moving = [c \in Clients |-> None]
  /\ freed = FALSE

Next ==
  \/ \E c \in Clients, req \in Requests :
       \/ apr_rmm_malloc(c, req)
       \/ \E a \in allocs[c] : apr_rmm_realloc(c, a, req)
  \/ \E c \in Clients : \E a \in allocs[c] : apr_rmm_free(c, a)
  \/ apr_rmm_destroy

Spec == Init /\ [][Next]_vars

-----------------------------------------------------------------------------
Used == Chain(blk, firstused)
Free == Chain(blk, firstfree)
Given == UNION {allocs[c] : c \in Clients}
End(o) == o + blk[o].size

(* The blocks of the two lists are all there are, each list is sorted and  *)
(* linked in both directions, and the blocks tile the segment: each begins *)
(* after every lower one has ended, and where one ends another begins or   *)
(* the segment ends.                                                       *)
Tiled ==
  LET All == {Used[i] : i \in 1 .. Len(Used)} \cup {Free[i] : i \in 1 .. Len(Free)}
      Linked(c) == \A i \in 1 .. Len(c) :
                     /\ blk[c[i]].prev = IF i = 1 THEN 0 ELSE c[i - 1]
                     /\ i > 1 => c[i - 1] < c[i]
  IN  abssize # 0 =>
        /\ Linked(Used) /\ Linked(Free)
        /\ All = DOMAIN blk /\ Len(Used) + Len(Free) = Cardinality(All)
        /\ Hdr \in All
        /\ \A o \in All : blk[o].size > 0 /\ (End(o) = Size \/ End(o) \in All)
        /\ \A o, p \in All : o < p => End(o) <= p

(* Free space is never fragmented needlessly: apr_rmm_malloc finds room    *)
(* whenever some stretch of the segment without allocations is as long as  *)
(* the block it needs.                                                     *)
NoFalseShortage ==
  LET Taken(x) == \E a \in Given : a.off - Block <= x /\ x < End(a.off - Block)
  IN  abssize # 0 =>
        \A req \in Requests :
          (/\ BlockSize(req) # 0
           /\ \E x \in Hdr .. Size : /\ x + BlockSize(req) <= Size
                                     /\ \A y \in x .. x + BlockSize(req) - 1 : ~Taken(y))
          => Offered(req) # 0

(* The used list is what the clients hold, each block with room for what   *)
(* was asked for, whatever the size computation wraps around to; and       *)
(* apr_rmm_free refuses none of them.                                      *)
HeldBlocks ==
  abssize # 0 =>
    /\ {a.off - Block : a \in Given} = {Used[i] : i \in 1 .. Len(Used)}
    /\ Cardinality(Given) = Len(Used)
    /\ \A a \in Given : a.off + a.req <= End(a.off - Block) /\ Sane(a.off)

(* apr_rmm_overhead_get is "the required overallocation of memory needed   *)
(* to fit n allocs": until something is freed, a request fails only when   *)
(* it and the earlier ones exceed the segment with that overhead.          *)
OverheadEnough ==
  abssize # 0 /\ ~freed =>
    \A req \in Requests :
      apr_rmm_overhead_get(Cardinality(Given) + 1) + MapThenSumSet(LAMBDA a : a.req, Given) + req
        <= Size
      => Offered(req) # 0
=============================================================================
