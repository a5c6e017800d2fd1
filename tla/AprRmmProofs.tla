---------------------------- MODULE AprRmmProofs ----------------------------
(***************************************************************************)
(* Proofs about AprRmm, for any segment, any sizes of headers and words,   *)
(* and any number of clients: the blocks of the two lists tile the         *)
(* segment, the used ones are what the clients hold, and apr_rmm_malloc    *)
(* finds room whenever there is some in one piece.                         *)
(***************************************************************************)
EXTENDS AprRmm, FunctionTheorems, FiniteSetTheorems, SequenceTheorems, WellFoundedInduction, TLAPS

-----------------------------------------------------------------------------
(* Numbers. *)

(* A nonempty set of numbers has a least one. *)
LEMMA LeastNat ==
  ASSUME NEW T \in SUBSET Nat, T # {}
  PROVE  \E m \in T : \A k \in T : m <= k
<1> DEFINE W == {1 .. k : k \in T}
<1>1. W \subseteq FiniteSubsetsOf(Nat)
  BY FS_Interval DEF FiniteSubsetsOf
<1>2. IsWellFoundedOn(StrictSubsetOrdering(Nat), FiniteSubsetsOf(Nat))
  BY FS_StrictSubsetOrderingWellFounded
<1>3. PICK X \in W : \A Y \in W : <<Y, X>> \notin StrictSubsetOrdering(Nat)
  <2>1. W # {}
    OBVIOUS
  <2> HIDE DEF W
  <2> QED BY <1>1, <1>2, <2>1, WFMin
<1>4. PICK m \in T : X = 1 .. m
  BY <1>3
<1>5. ASSUME NEW k \in T, k < m PROVE FALSE
  <2>1. 1 .. k \in W
    OBVIOUS
  <2>2. 1 .. k \subseteq 1 .. m /\ 1 .. k # 1 .. m
    <3>1. m \in 1 .. m /\ m \notin 1 .. k
      BY <1>5
    <3> QED BY <1>5, <3>1
  <2>3. <<1 .. k, 1 .. m>> \in StrictSubsetOrdering(Nat)
    BY <1>1, <1>4, <2>1, <2>2 DEF StrictSubsetOrdering, FiniteSubsetsOf
  <2> QED BY <1>3, <1>4, <2>1, <2>3
<1> QED BY <1>5

(* A nonempty bounded one has a greatest. *)
LEMMA GreatestNat ==
  ASSUME NEW T \in SUBSET Nat, T # {}, NEW N \in Nat, \A k \in T : k <= N
  PROVE  \E m \in T : \A k \in T : k <= m
<1> DEFINE D == {N - k : k \in T}
<1>1. D \in SUBSET Nat /\ D # {}
  <2>1. \A k \in T : N - k \in Nat
    OBVIOUS
  <2>2. PICK k \in T : TRUE
    OBVIOUS
  <2>3. N - k \in D
    OBVIOUS
  <2>4. \A d \in D : d \in Nat
    BY <2>1
  <2> QED BY <2>3, <2>4
<1>2. PICK d \in D : \A k \in D : d <= k
  <2> HIDE DEF D
  <2> QED BY <1>1, LeastNat
<1>3. PICK m \in T : d = N - m
  BY <1>2
<1>4. ASSUME NEW k \in T PROVE k <= m
  <2>1. d <= N - k
    BY <1>2
  <2> QED BY <1>3, <2>1
<1> QED BY <1>4

(* What Min of FiniteSetsExt chooses. *)
LEMMA MinFacts ==
  ASSUME NEW T \in SUBSET Nat, T # {}
  PROVE  Min(T) \in T /\ \A k \in T : Min(T) <= k
<1>1. \E m \in T : \A k \in T : m <= k
  BY LeastNat
<1> QED BY <1>1 DEF Min

LEMMA Offsets ==
  /\ Size \in Nat /\ Word \in Nat /\ Hdr \in Nat /\ Hdr > 0 /\ Hdr + Block <= Size /\ Size < Word
  /\ Block \in Nat /\ Block > 0
BY SizesAssumption

-----------------------------------------------------------------------------
(* The invariant of the segment.  A list is described by the set S of its  *)
(* members: links go to the next larger and the next smaller one.          *)

Header == [size : Nat, prev : Nat, next : Nat]

Succ(S, o, n) ==
  IF n = 0 THEN \A x \in S : x <= o
  ELSE n \in S /\ o < n /\ \A x \in S : o < x => n <= x

Pred(S, o, p) == p \in S \cup {0} /\ p < o /\ \A x \in S : x < o => x <= p

Linked(b, first, S) ==
  /\ Succ(S, 0, first)
  /\ \A o \in S : Succ(S, o, b[o].next) /\ Pred(S, o, b[o].prev)

(* Headers in the segment whose links, of either list, lead upwards. *)
Headers(b) ==
  /\ b \in [DOMAIN b -> Header] /\ DOMAIN b \subseteq 1 .. Size - 1
  /\ \A o \in DOMAIN b : b[o].next = 0 \/ (b[o].next \in DOMAIN b /\ o < b[o].next)

(* The blocks follow each other without a gap. *)
Tiles(b) ==
  /\ Hdr \in DOMAIN b /\ \A o \in DOMAIN b : Hdr <= o
  /\ \A o \in DOMAIN b : b[o].size > 0 /\ o + b[o].size \in DOMAIN b \cup {Size}
  /\ \A o, p \in DOMAIN b : o < p => o + b[o].size <= p

(* No two free blocks touch. *)
Apart(b, F) == \A o \in F : o + b[o].size \notin F

HeapOK(b, u, f, U) ==
  /\ Headers(b) /\ Tiles(b) /\ U \subseteq DOMAIN b
  /\ Linked(b, u, U) /\ Linked(b, f, DOMAIN b \ U) /\ Apart(b, DOMAIN b \ U)

-----------------------------------------------------------------------------
(* Walking along a list. *)

(* The recursive function of Chain exists, because links lead upwards. *)
LEMMA ChainDef ==
  ASSUME NEW b, Headers(b)
  PROVE  /\ Chain(b, 0) = << >>
         /\ \A o \in DOMAIN b : Chain(b, o) = <<o>> \o Chain(b, b[o].next)
<1> DEFINE D == DOMAIN b
           H(f, o) == IF o = 0 THEN << >> ELSE <<o>> \o f[b[o].next]
           Dom(m) == {o \in D \cup {0} : o = 0 \/ o > Size - m}
           Upto(f, m) == f = [o \in Dom(m) |-> H(f, o)]
           Bad == {m \in Nat : ~\E f : Upto(f, m)}
           fc == CHOOSE f : f = [o \in D \cup {0} |-> H(f, o)]
<1>1. \A first : Chain(b, first) = fc[first]
  BY Zenon DEF Chain
<1>2. /\ \A o \in D : o \in 1 .. Size - 1 /\ o # 0
      /\ \A o \in D : b[o].next = 0 \/ (b[o].next \in D /\ o < b[o].next)
      /\ Size \in Nat
  BY Offsets DEF Headers
<1> HIDE DEF D
<1>3. Bad = {}
  <2> SUFFICES ASSUME Bad # {} PROVE FALSE
    OBVIOUS
  <2>1. Bad \in SUBSET Nat
    OBVIOUS
  <2>2. PICK m \in Bad : \A k \in Bad : m <= k
    <3> HIDE DEF Bad
    <3> QED BY <2>1, LeastNat
  <2>3. m \in Nat /\ ~\E f : Upto(f, m)
    BY <2>2
  <2>4. CASE m = 0
    <3> DEFINE f == [k \in {0} |-> << >>]
    <3>1. Dom(0) = {0}
      BY <1>2
    <3>2. f = [o \in {0} |-> H(f, o)]
      OBVIOUS
    <3>3. Upto(f, 0)
      BY <3>1, <3>2
    <3> QED BY <2>3, <2>4, <3>3
  <2>5. CASE m # 0
    <3>1. m - 1 \in Nat /\ m - 1 \notin Bad
      <4> HIDE DEF Bad
      <4> QED BY <2>2, <2>3, <2>5
    <3>2. PICK f : Upto(f, m - 1)
      BY <3>1
    <3> DEFINE g == [o \in Dom(m) |-> IF o \in Dom(m - 1) THEN f[o] ELSE <<o>> \o f[b[o].next]]
    <3>3. Dom(m - 1) \subseteq Dom(m)
      BY <1>2, <2>3
    <3>4. \A o \in Dom(m) : o # 0 => b[o].next \in Dom(m - 1)
      BY <1>2, <2>3
    <3>5. \A o \in Dom(m - 1) : g[o] = f[o] /\ f[o] = H(f, o)
      <4> HIDE DEF Dom
      <4> QED BY <3>2, <3>3
    <3>6. 0 \in Dom(m - 1)
      OBVIOUS
    <3>7. ASSUME NEW o \in Dom(m) PROVE g[o] = H(g, o)
      <4>1. CASE o = 0
        BY <3>5, <3>6, <4>1
      <4>2. CASE o # 0
        <5>1. g[b[o].next] = f[b[o].next]
          BY <3>4, <3>5, <4>2
        <5>2. g[o] = <<o>> \o f[b[o].next]
          <6> HIDE DEF Dom
          <6> QED BY <3>5, <4>2
        <5> HIDE DEF g
        <5> QED BY <4>2, <5>1, <5>2
      <4> QED BY <4>1, <4>2
    <3>8. g = [o \in Dom(m) |-> H(g, o)]
      <4> HIDE DEF Dom, H
      <4> QED BY <3>7
    <3> HIDE DEF g
    <3> QED BY <2>3, <3>8
  <2> QED BY <2>4, <2>5
<1>4. \E f : f = [o \in D \cup {0} |-> H(f, o)]
  <2>1. Dom(Size) = D \cup {0}
    BY <1>2
  <2>2. \E f : Upto(f, Size)
    BY <1>2, <1>3
  <2> HIDE DEF Dom
  <2> QED BY <2>1, <2>2
<1>5. fc = [o \in D \cup {0} |-> H(fc, o)]
  <2> HIDE DEF H
  <2> QED BY <1>4
<1> HIDE DEF fc
<1>6. fc[0] = << >> /\ \A o \in D : fc[o] = <<o>> \o fc[b[o].next]
  <2>1. \A o \in D \cup {0} : fc[o] = H(fc, o)
    <3> HIDE DEF H
    <3> QED BY <1>5
  <2> QED BY <1>2, <2>1
<1> QED BY <1>1, <1>6 DEF D

(* A sequence of numbers that grows. *)
Grows(c) == \A i, j \in 1 .. Len(c) : i < j => c[i] < c[j]

(* The sequence with one more in front. *)
LEMMA Cons ==
  ASSUME NEW S, NEW x \in S, NEW s \in Seq(S)
  PROVE  /\ <<x>> \o s \in Seq(S) /\ Len(s) \in Nat /\ Len(<<x>> \o s) = Len(s) + 1
         /\ (<<x>> \o s)[1] = x
         /\ \A i \in 2 .. Len(s) + 1 : i - 1 \in 1 .. Len(s) /\ (<<x>> \o s)[i] = s[i - 1]
         /\ \A i \in 1 .. Len(s) : i + 1 \in 2 .. Len(s) + 1 /\ (<<x>> \o s)[i + 1] = s[i]
OBVIOUS

(* From a member of a list the walk finds the member and all after it, in  *)
(* the order of their offsets.                                             *)
Walk(b, S, o, c) ==
  /\ c \in Seq(S) /\ c # << >> /\ c[1] = o /\ Grows(c)
  /\ \A x \in S : o <= x => \E i \in 1 .. Len(c) : c[i] = x
  /\ \A i \in 2 .. Len(c) : b[c[i]].prev = c[i - 1]

(* A list's links are inverse to each other. *)
LEMMA LinkBack ==
  ASSUME NEW b, NEW first, NEW S \in SUBSET Nat, Linked(b, first, S), 0 \notin S,
         NEW o \in S, b[o].next # 0
  PROVE  b[o].next \in S /\ o < b[o].next /\ b[b[o].next].prev = o
<1> DEFINE n == b[o].next
<1>1. n \in S /\ o < n /\ \A x \in S : o < x => n <= x
  BY DEF Linked, Succ
<1>2. Pred(S, n, b[n].prev)
  BY <1>1 DEF Linked
<1> HIDE DEF n
<1> DEFINE p == b[n].prev
<1>3. p \in S \cup {0} /\ p < n /\ \A x \in S : x < n => x <= p
  BY <1>2 DEF Pred
<1> HIDE DEF p
<1>4. p = o
  <2>1. o <= p
    BY <1>1, <1>3
  <2>2. p \in S
    BY <1>3, <2>1
  <2>3. ~(o < p)
    BY <1>1, <1>3, <2>2
  <2> QED BY <2>1, <2>2, <2>3
<1> QED BY <1>1, <1>4 DEF p, n

LEMMA WalkStep ==
  ASSUME NEW b, NEW first, NEW S \in SUBSET Nat, Linked(b, first, S), 0 \notin S,
         NEW o \in S, NEW c,
         IF b[o].next = 0 THEN c = << >> ELSE Walk(b, S, b[o].next, c)
  PROVE  Walk(b, S, o, <<o>> \o c)
<1> DEFINE n == b[o].next
           d == <<o>> \o c
<1>1. CASE n = 0
  <2>1. d \in Seq(S) /\ Len(d) = 1 /\ d[1] = o /\ d # << >>
    BY <1>1
  <2>2. \A x \in S : x <= o
    BY <1>1 DEF Linked, Succ
  <2>3. \A x \in S : o <= x => x = o
    BY <2>2
  <2>4. Grows(d)
    BY <2>1 DEF Grows
  <2> HIDE DEF d
  <2>5. 1 \in 1 .. Len(d) /\ 2 .. Len(d) = {}
    BY <2>1
  <2>6. \A x \in S : o <= x => \E i \in 1 .. Len(d) : d[i] = x
    BY <2>1, <2>3, <2>5
  <2> QED BY <2>1, <2>4, <2>5, <2>6 DEF Walk, d
<1>2. CASE n # 0
  <2>1. n \in S /\ o < n /\ b[n].prev = o
    BY <1>2, LinkBack
  <2>2. \A x \in S : o < x => n <= x
    BY <1>2 DEF Linked, Succ
  <2>3. /\ c \in Seq(S) /\ c # << >> /\ c[1] = n /\ Grows(c)
        /\ \A x \in S : n <= x => \E i \in 1 .. Len(c) : c[i] = x
        /\ \A i \in 2 .. Len(c) : b[c[i]].prev = c[i - 1]
    BY <1>2 DEF Walk
  <2>4. /\ d \in Seq(S) /\ Len(c) \in Nat /\ Len(d) = Len(c) + 1 /\ d[1] = o
        /\ \A i \in 2 .. Len(c) + 1 : i - 1 \in 1 .. Len(c) /\ d[i] = c[i - 1]
        /\ \A i \in 1 .. Len(c) : i + 1 \in 2 .. Len(c) + 1 /\ d[i + 1] = c[i]
    BY <2>3, Cons
  <2>5. Len(c) >= 1 /\ d # << >>
    BY <2>3, <2>4
  <2> HIDE DEF d, n
  <2>6. \A i \in 1 .. Len(c) : c[i] \in Nat /\ n <= c[i] /\ o < c[i]
    <3> SUFFICES ASSUME NEW i \in 1 .. Len(c) PROVE c[i] \in Nat /\ n <= c[i] /\ o < c[i]
      OBVIOUS
    <3>1. c[i] \in S /\ 1 \in 1 .. Len(c)
      BY <2>3, <2>5
    <3>2. 1 < i => c[1] < c[i]
      BY <2>3, <3>1 DEF Grows
    <3>3. i = 1 \/ 1 < i
      BY <2>4
    <3>4. n \in Nat /\ o \in Nat /\ c[i] \in Nat
      BY <2>1, <3>1
    <3>5. n <= c[i]
      BY <2>3, <3>2, <3>3, <3>4
    <3> QED BY <2>1, <3>4, <3>5
  <2>7. Grows(d)
    <3> SUFFICES ASSUME NEW i \in 1 .. Len(d), NEW j \in 1 .. Len(d), i < j
                 PROVE  d[i] < d[j]
      BY DEF Grows
    <3>1. j \in 2 .. Len(c) + 1 /\ (i = 1 \/ i \in 2 .. Len(c) + 1)
      BY <2>4
    <3>2. j - 1 \in 1 .. Len(c) /\ d[j] = c[j - 1]
      BY <2>4, <3>1
    <3>3. CASE i = 1
      BY <2>4, <2>6, <3>2, <3>3
    <3>4. CASE i \in 2 .. Len(c) + 1
      <4>1. i - 1 \in 1 .. Len(c) /\ d[i] = c[i - 1] /\ i - 1 < j - 1
        BY <2>4, <3>1, <3>4
      <4> QED BY <2>3, <3>2, <4>1 DEF Grows
    <3> QED BY <3>1, <3>3, <3>4
  <2>8. ASSUME NEW x \in S, o <= x
        PROVE  \E i \in 1 .. Len(d) : d[i] = x
    <3>1. CASE x = o
      <4>1. 1 \in 1 .. Len(d)
        BY <2>4
      <4> QED BY <2>4, <3>1, <4>1
    <3>2. CASE x # o
      <4>1. n <= x
        BY <2>2, <2>8, <3>2
      <4>2. PICK i \in 1 .. Len(c) : c[i] = x
        BY <2>3, <4>1
      <4>3. i + 1 \in 1 .. Len(d) /\ d[i + 1] = x
        BY <2>4, <4>2
      <4> QED BY <4>3
    <3> QED BY <3>1, <3>2
  <2>9. ASSUME NEW i \in 2 .. Len(d) PROVE b[d[i]].prev = d[i - 1]
    <3>1. i \in 2 .. Len(c) + 1
      BY <2>4
    <3>2. i - 1 \in 1 .. Len(c) /\ d[i] = c[i - 1]
      BY <2>4, <3>1
    <3>3. CASE i = 2
      <4>1. d[i] = n /\ d[i - 1] = o
        BY <2>3, <2>4, <3>2, <3>3
      <4> QED BY <2>1, <4>1
    <3>4. CASE i # 2
      <4>1. i - 1 \in 2 .. Len(c) + 1 /\ i - 1 \in 2 .. Len(c)
        BY <2>4, <3>1, <3>4
      <4>2. d[i - 1] = c[(i - 1) - 1] /\ b[c[i - 1]].prev = c[(i - 1) - 1]
        BY <2>3, <2>4, <4>1
      <4> QED BY <3>2, <4>2
    <3> QED BY <3>3, <3>4
  <2> QED BY <2>4, <2>5, <2>7, <2>8, <2>9 DEF Walk, d
<1> QED BY <1>1, <1>2

LEMMA WalkFrom ==
  ASSUME NEW b, Headers(b), NEW first, NEW S \in SUBSET DOMAIN b, Linked(b, first, S),
         NEW o \in S
  PROVE  Walk(b, S, o, Chain(b, o))
<1> DEFINE Bad == {m \in Nat : \E x \in S : m = Size - x /\ ~Walk(b, S, x, Chain(b, x))}
<1>1. S \subseteq 1 .. Size - 1 /\ S \in SUBSET Nat /\ 0 \notin S /\ Size \in Nat
  BY Offsets DEF Headers
<1>2. Bad = {}
  <2> SUFFICES ASSUME Bad # {} PROVE FALSE
    OBVIOUS
  <2>1. Bad \in SUBSET Nat
    OBVIOUS
  <2>2. PICK m \in Bad : \A k \in Bad : m <= k
    <3> HIDE DEF Bad
    <3> QED BY <2>1, LeastNat
  <2>3. PICK x \in S : m = Size - x /\ ~Walk(b, S, x, Chain(b, x))
    BY <2>2
  <2> DEFINE n == b[x].next
  <2>4. ASSUME n # 0 PROVE Walk(b, S, n, Chain(b, n))
    <3>1. n \in S /\ x < n
      BY <1>1, <2>4, LinkBack
    <3> HIDE DEF n
    <3>2. Size - n \in Nat /\ Size - n < m
      BY <1>1, <2>3, <3>1
    <3>3. Size - n \notin Bad
      <4> HIDE DEF Bad
      <4> QED BY <2>1, <2>2, <3>2
    <3> QED BY <3>1, <3>2, <3>3
  <2>5. n = 0 => Chain(b, n) = << >>
    BY ChainDef
  <2>6. Walk(b, S, x, <<x>> \o Chain(b, n))
    BY <1>1, <2>4, <2>5, WalkStep
  <2>7. Chain(b, x) = <<x>> \o Chain(b, n)
    BY ChainDef
  <2> QED BY <2>3, <2>6, <2>7
<1>3. Size - o \in Nat /\ Size - o \notin Bad
  BY <1>1, <1>2
<1> QED BY <1>3

(* The walk along a list finds its members in order. *)
LEMMA ChainFacts ==
  ASSUME NEW b, Headers(b), NEW first, NEW S \in SUBSET DOMAIN b, Linked(b, first, S)
  PROVE  /\ Chain(b, first) \in Seq(S) /\ Grows(Chain(b, first))
         /\ \A x \in S : \E i \in 1 .. Len(Chain(b, first)) : Chain(b, first)[i] = x
         /\ \A i \in 1 .. Len(Chain(b, first)) :
              b[Chain(b, first)[i]].prev = IF i = 1 THEN 0 ELSE Chain(b, first)[i - 1]
<1> DEFINE c == Chain(b, first)
<1>1. S \in SUBSET Nat /\ 0 \notin S /\ \A x \in S : 0 < x
  BY Offsets DEF Headers
<1>2. CASE first = 0
  <2>1. S = {}
    BY <1>1, <1>2 DEF Linked, Succ
  <2>2. c = << >>
    BY <1>2, ChainDef
  <2> QED BY <2>1, <2>2 DEF Grows
<1>3. CASE first # 0
  <2>1. first \in S /\ \A x \in S : 0 < x => first <= x
    BY <1>3 DEF Linked, Succ
  <2>2. Walk(b, S, first, c)
    BY <2>1, WalkFrom
  <2>3. b[first].prev = 0
    <3> DEFINE p == b[first].prev
    <3>1. p \in S \cup {0} /\ p < first
      BY <2>1 DEF Linked, Pred
    <3> HIDE DEF p
    <3>2. p \notin S
      BY <1>1, <2>1, <3>1
    <3> QED BY <3>1, <3>2 DEF p
  <2> HIDE DEF c
  <2>4. c \in Seq(S) /\ Grows(c) /\ c[1] = first
    BY <2>2 DEF Walk
  <2>5. \A x \in S : \E i \in 1 .. Len(c) : c[i] = x
    BY <1>1, <2>1, <2>2 DEF Walk
  <2>6. ASSUME NEW i \in 1 .. Len(c) PROVE b[c[i]].prev = IF i = 1 THEN 0 ELSE c[i - 1]
    <3>1. CASE i = 1
      BY <2>3, <2>4, <3>1
    <3>2. CASE i # 1
      <4>1. i \in 2 .. Len(c)
        BY <2>4, <3>2
      <4> QED BY <2>2, <3>2, <4>1 DEF Walk
    <3> QED BY <3>1, <3>2
  <2> QED BY <2>4, <2>5, <2>6 DEF c
<1> QED BY <1>2, <1>3

(* ChainFacts in one: c lists S in ascending order, prev leading back. *)
Listed(b, c, S) ==
  /\ c \in Seq(S) /\ Grows(c) /\ \A x \in S : \E i \in 1 .. Len(c) : c[i] = x
  /\ \A i \in 1 .. Len(c) : b[c[i]].prev = IF i = 1 THEN 0 ELSE c[i - 1]

LEMMA ChainListed ==
  ASSUME NEW b, Headers(b), NEW first, NEW S \in SUBSET DOMAIN b, Linked(b, first, S)
  PROVE  Listed(b, Chain(b, first), S)
<1> DEFINE c == Chain(b, first)
<1>1. c \in Seq(S) /\ Grows(c) /\ \A x \in S : \E i \in 1 .. Len(c) : c[i] = x
  BY ChainFacts
<1>2. \A i \in 1 .. Len(c) : b[c[i]].prev = IF i = 1 THEN 0 ELSE c[i - 1]
  BY ChainFacts
<1> HIDE DEF c
<1>3. Listed(b, c, S)
  BY <1>1, <1>2 DEF Listed
<1> QED BY <1>3 DEF c


(* find_block_by_offset finds the place of a block that is not in the list. *)
LEMMA FindFacts ==
  ASSUME NEW b, Headers(b), NEW first, NEW S \in SUBSET DOMAIN b, Linked(b, first, S),
         NEW this \in Nat, this \notin S, this > 0
  PROVE  Pred(S, this, find_block_by_offset(b, first, this))
<1> DEFINE c == Chain(b, first)
           reached == {i \in 1 .. Len(c) : c[i] >= this}
           stop == IF reached = {} THEN Len(c) + 1 ELSE Min(reached)
<1>1. /\ c \in Seq(S) /\ Grows(c)
      /\ \A x \in S : \E i \in 1 .. Len(c) : c[i] = x
  BY ChainFacts
<1>2. find_block_by_offset(b, first, this) =
        IF stop <= Len(c) /\ c[stop] = this THEN this ELSE IF stop = 1 THEN 0 ELSE c[stop - 1]
  BY DEF find_block_by_offset
<1>3. S \in SUBSET Nat
  BY Offsets DEF Headers
<1> HIDE DEF c
<1>4. Len(c) \in Nat /\ \A i \in 1 .. Len(c) : c[i] \in S /\ c[i] \in Nat /\ c[i] # this
  BY <1>1, <1>3
<1>5. /\ stop \in 1 .. Len(c) + 1
      /\ \A i \in 1 .. Len(c) : i < stop => c[i] < this
      /\ stop <= Len(c) => c[stop] > this
  <2>1. CASE reached = {}
    <3>1. \A i \in 1 .. Len(c) : c[i] < this
      BY <1>4, <2>1
    <3>2. stop = Len(c) + 1
      BY <2>1
    <3> QED BY <1>4, <3>1, <3>2
  <2>2. CASE reached # {}
    <3>1. reached \in SUBSET Nat
      OBVIOUS
    <3>2. Min(reached) \in reached /\ \A k \in reached : Min(reached) <= k
      <4> HIDE DEF reached
      <4> QED BY <2>2, <3>1, MinFacts
    <3>3. stop = Min(reached)
      BY <2>2
    <3>4. stop \in 1 .. Len(c) /\ c[stop] >= this
      BY <3>2, <3>3
    <3>5. ASSUME NEW i \in 1 .. Len(c), i < stop PROVE c[i] < this
      <4>1. i \notin reached
        <5> HIDE DEF reached
        <5> QED BY <3>2, <3>3, <3>4, <3>5
      <4> QED BY <1>4, <4>1
    <3> HIDE DEF stop
    <3> QED BY <1>4, <3>4, <3>5
  <2> QED BY <2>1, <2>2
<1> HIDE DEF stop
<1>6. find_block_by_offset(b, first, this) = IF stop = 1 THEN 0 ELSE c[stop - 1]
  BY <1>2, <1>4, <1>5
<1>7. CASE stop = 1
  <2>1. ASSUME NEW x \in S PROVE ~(x < this)
    <3>1. PICK i \in 1 .. Len(c) : c[i] = x
      BY <1>1
    <3>2. 1 <= Len(c) /\ c[1] > this /\ 1 \in 1 .. Len(c)
      BY <1>4, <1>5, <1>7, <3>1
    <3>3. i = 1 \/ c[1] < c[i]
      <4>1. i = 1 \/ 1 < i
        BY ONLY <3>1, i \in 1 .. Len(c)
      <4>2. Grows(c) /\ i \in 1 .. Len(c) /\ 1 \in 1 .. Len(c)
        BY <1>1, <3>2
      <4> QED BY ONLY <4>1, <4>2 DEF Grows
    <3>4. c[i] > this
      BY <1>4, <3>1, <3>2, <3>3
    <3> QED BY <1>4, <3>1, <3>4
  <2> QED BY <1>6, <1>7, <2>1 DEF Pred
<1>8. CASE stop # 1
  <2> DEFINE p == c[stop - 1]
  <2>1. stop - 1 \in 1 .. Len(c) /\ stop - 1 < stop
    BY <1>4, <1>5, <1>8
  <2>2. p \in S /\ p < this /\ p \in Nat
    BY <1>4, <1>5, <2>1
  <2>3. ASSUME NEW x \in S, x < this PROVE x <= p
    <3>1. PICK i \in 1 .. Len(c) : c[i] = x
      BY <1>1
    <3>2. i < stop
      <4> SUFFICES ASSUME i >= stop PROVE FALSE
        BY <1>5, <3>1
      <4>1. stop \in 1 .. Len(c) /\ c[stop] > this
        BY <1>4, <1>5, <3>1
      <4>2. i = stop \/ stop < i
        BY <1>5, <3>1
      <4>3. i = stop \/ c[stop] < c[i]
        BY <1>1, <3>1, <4>1, <4>2 DEF Grows
      <4> QED BY <1>4, <2>3, <3>1, <4>1, <4>3
    <3>3. i = stop - 1 \/ i < stop - 1
      BY <1>5, <3>1, <3>2
    <3>4. i = stop - 1 \/ c[i] < p
      BY <1>1, <2>1, <3>1, <3>3 DEF Grows
    <3> QED BY <1>4, <2>2, <3>1, <3>4
  <2> HIDE DEF p
  <2> QED BY <1>6, <1>8, <2>2, <2>3 DEF Pred, p
<1> QED BY <1>7, <1>8

(* find_block_of_size finds a large enough block of the list if there is   *)
(* one.                                                                    *)
LEMMA BestFitFacts ==
  ASSUME NEW h, Headers(h.blk), NEW S \in SUBSET DOMAIN h.blk, Linked(h.blk, h.free, S),
         NEW size \in Nat
  PROVE  /\ BestFit(h, size) # 0 => BestFit(h, size) \in S /\ h.blk[BestFit(h, size)].size >= size
         /\ (\E x \in S : h.blk[x].size >= size) => BestFit(h, size) # 0
<1> DEFINE b == h.blk
           c == Chain(b, h.free)
           fits == {i \in 1 .. Len(c) : b[c[i]].size >= size}
           best == {i \in fits : \A j \in fits : b[c[i]].size <= b[c[j]].size}
<1>1. c \in Seq(S) /\ \A x \in S : \E i \in 1 .. Len(c) : c[i] = x
  <2>1. Listed(b, c, S)
    BY ChainListed
  <2> HIDE DEF b, c
  <2> QED BY ONLY <2>1 DEF Listed
<1>2. BestFit(h, size) = IF fits = {} THEN 0 ELSE c[Min(best)]
  BY DEF BestFit
<1>3. \A x \in S : x # 0 /\ b[x].size \in Nat
  BY Offsets DEF Headers, Header
<1> HIDE DEF b, c
<1>4. \A i \in 1 .. Len(c) : c[i] \in S /\ b[c[i]].size \in Nat
  BY <1>1, <1>3
<1>5. CASE fits = {}
  <2>1. ASSUME NEW x \in S PROVE ~(b[x].size >= size)
    <3>1. PICK i \in 1 .. Len(c) : c[i] = x
      BY <1>1
    <3>2. i \notin fits
      BY <1>5
    <3> QED BY <3>1, <3>2
  <2> QED BY <1>2, <1>5, <2>1 DEF b
<1>6. CASE fits # {}
  <2> DEFINE T == {b[c[i]].size : i \in fits}
  <2>1. T \in SUBSET Nat /\ T # {}
    BY <1>4, <1>6
  <2>2. PICK s \in T : \A k \in T : s <= k
    <3> HIDE DEF T
    <3> QED BY <2>1, LeastNat
  <2>3. PICK i \in fits : s = b[c[i]].size
    BY <2>2
  <2>4. i \in best
    <3> SUFFICES ASSUME NEW j \in fits PROVE b[c[i]].size <= b[c[j]].size
      BY <2>3
    <3>1. b[c[j]].size \in T
      OBVIOUS
    <3> HIDE DEF T, fits
    <3> QED BY <2>2, <2>3, <3>1
  <2>5. best \in SUBSET Nat
    OBVIOUS
  <2>6. Min(best) \in best
    <3> HIDE DEF best
    <3> QED BY <2>4, <2>5, MinFacts
  <2>7. Min(best) \in 1 .. Len(c) /\ b[c[Min(best)]].size >= size
    BY <2>6
  <2> HIDE DEF best, fits
  <2>8. c[Min(best)] \in S /\ c[Min(best)] # 0 /\ BestFit(h, size) = c[Min(best)]
    BY <1>2, <1>3, <1>4, <1>6, <2>7
  <2> QED BY <2>7, <2>8 DEF b
<1> QED BY <1>5, <1>6

-----------------------------------------------------------------------------
(* Changing links. *)

LEMMA HeaderFacts ==
  ASSUME NEW D, NEW b \in [D -> Header], NEW o \in D
  PROVE  b[o] \in Header /\ b[o].size \in Nat /\ b[o].prev \in Nat /\ b[o].next \in Nat
BY DEF Header

(* d differs from b only in one next, or one prev. *)
NextSet(b, d, o, n) ==
  /\ d \in [DOMAIN b -> Header]
  /\ \A x \in DOMAIN b : /\ d[x].size = b[x].size /\ d[x].prev = b[x].prev
                         /\ d[x].next = IF x = o THEN n ELSE b[x].next
PrevSet(b, d, o, p) ==
  /\ d \in [DOMAIN b -> Header]
  /\ \A x \in DOMAIN b : /\ d[x].size = b[x].size /\ d[x].next = b[x].next
                         /\ d[x].prev = IF x = o THEN p ELSE b[x].prev

LEMMA SetFacts ==
  ASSUME NEW b, b \in [DOMAIN b -> Header], 0 \notin DOMAIN b, NEW o \in DOMAIN b \cup {0},
         NEW n \in Nat
  PROVE  NextSet(b, SetNext(b, o, n), o, n) /\ PrevSet(b, SetPrev(b, o, n), o, n)
<1>1. \A x \in DOMAIN b : b[x] \in Header
  OBVIOUS
<1>2. NextSet(b, SetNext(b, o, n), o, n)
  BY <1>1 DEF SetNext, NextSet, Header
<1>3. PrevSet(b, SetPrev(b, o, n), o, n)
  BY <1>1 DEF SetPrev, PrevSet, Header
<1> QED BY <1>2, <1>3

(* A list whose headers keep their links. *)
LEMMA LinkedSame ==
  ASSUME NEW b, NEW d, NEW first, NEW S, Linked(b, first, S),
         \A x \in S : d[x].next = b[x].next /\ d[x].prev = b[x].prev
  PROVE  Linked(d, first, S)
BY DEF Linked

(* A list without one of its members, *)
LEMMA LinkedWithout ==
  ASSUME NEW b, NEW d, NEW first, NEW S \in SUBSET Nat, 0 \notin S, Linked(b, first, S),
         NEW this \in S, NEW now,
         now = IF b[this].prev # 0 THEN first ELSE b[this].next,
         \A x \in S \ {this} :
           /\ d[x].next = IF x = b[this].prev THEN b[this].next ELSE b[x].next
           /\ d[x].prev = IF x = b[this].next THEN b[this].prev ELSE b[x].prev
  PROVE  Linked(d, now, S \ {this})
<1> DEFINE p == b[this].prev
           n == b[this].next
           R == S \ {this}
<1>1. Succ(S, this, n) /\ Pred(S, this, p) /\ Succ(S, 0, first)
  BY DEF Linked
<1>2. \A x \in S : Succ(S, x, b[x].next) /\ Pred(S, x, b[x].prev)
  BY DEF Linked
<1>3. \A x \in R : /\ d[x].next = IF x = p THEN n ELSE b[x].next
                   /\ d[x].prev = IF x = n THEN p ELSE b[x].prev
  OBVIOUS
<1>4. now = IF p # 0 THEN first ELSE n
  OBVIOUS
<1> HIDE DEF p, n
<1>0. /\ this \in Int /\ this > 0 /\ p \in Int /\ n \in Int
      /\ \A x \in S : x \in Int /\ x > 0
  <2>1. \A x \in S : x \in Int /\ x > 0
    OBVIOUS
  <2>2. p \in S \cup {0} /\ n \in S \cup {0}
    BY <1>1 DEF Succ, Pred
  <2> QED BY <2>1, <2>2
<1>5. Succ(R, 0, now)
  <2>1. CASE p = 0
    BY <1>0, <1>1, <1>4, <2>1 DEF Succ, Pred
  <2>2. CASE p # 0
    <3>1. p \in S /\ p < this /\ first # this
      BY <1>0, <1>1, <2>2 DEF Succ, Pred
    <3> QED BY <1>0, <1>1, <1>4, <2>2, <3>1 DEF Succ
  <2> QED BY <1>0, <2>1, <2>2
<1>6. ASSUME NEW x \in R PROVE Succ(R, x, d[x].next)
  <2>1. Succ(S, x, b[x].next)
    BY <1>0, <1>2
  <2>2. CASE x = p
    <3>1. d[x].next = n /\ x < this
      BY <1>0, <1>1, <1>3, <2>2 DEF Pred
    <3> QED BY <1>0, <1>1, <2>2, <3>1 DEF Succ, Pred
  <2>3. CASE x # p
    <3>1. d[x].next = b[x].next
      BY <1>0, <1>3, <2>3
    <3> DEFINE y == b[x].next
    <3>2. Succ(S, x, y)
      BY <1>0, <2>1
    <3> HIDE DEF y
    <3>3. y # this
      <4> SUFFICES ASSUME y = this PROVE FALSE
        OBVIOUS
      <4>1. x < this /\ \A z \in S : x < z => this <= z
        BY <1>0, <3>2 DEF Succ
      <4>2. p \in S \cup {0} /\ p < this /\ x <= p
        BY <1>0, <1>1, <4>1 DEF Pred
      <4> QED BY <1>0, <2>3, <4>1, <4>2
    <3>4. Succ(R, x, y)
      BY <1>0, <3>2, <3>3 DEF Succ
    <3> QED BY <1>0, <3>1, <3>4 DEF y
  <2> QED BY <1>0, <2>2, <2>3
<1>7. ASSUME NEW x \in R PROVE Pred(R, x, d[x].prev)
  <2>1. Pred(S, x, b[x].prev)
    BY <1>0, <1>2
  <2>2. CASE x = n
    <3>1. d[x].prev = p /\ this < x /\ n # 0
      BY <1>0, <1>1, <1>3, <2>2 DEF Succ
    <3>2. n \in S /\ \A z \in S : this < z => n <= z
      BY <1>0, <1>1, <3>1 DEF Succ
    <3>3. p \in S \cup {0} /\ p < this /\ \A z \in S : z < this => z <= p
      BY <1>0, <1>1 DEF Pred
    <3>4. ASSUME NEW z \in R, z < x PROVE z <= p
      BY <1>0, <2>2, <3>2, <3>3, <3>4
    <3> QED BY <1>0, <2>2, <3>1, <3>2, <3>3, <3>4 DEF Pred
  <2>3. CASE x # n
    <3>1. d[x].prev = b[x].prev
      BY <1>0, <1>3, <2>3
    <3> DEFINE y == b[x].prev
    <3>2. Pred(S, x, y)
      BY <1>0, <2>1
    <3> HIDE DEF y
    <3>3. y # this
      <4> SUFFICES ASSUME y = this PROVE FALSE
        OBVIOUS
      <4>1. this < x /\ \A z \in S : z < x => z <= this
        BY <1>0, <3>2 DEF Pred
      <4>2. n \in S /\ this < n /\ n <= x
        BY <1>0, <1>1, <4>1 DEF Succ
      <4> QED BY <1>0, <2>3, <4>1, <4>2
    <3>4. Pred(R, x, y)
      BY <1>0, <3>2, <3>3 DEF Pred
    <3> QED BY <1>0, <3>1, <3>4 DEF y
  <2> QED BY <1>0, <2>2, <2>3
<1> QED BY <1>5, <1>6, <1>7 DEF Linked

(* this goes into the list S between p and n: d is b with the links        *)
(* changed.                                                                *)
Inserted(b, d, first, S, this, p, n) ==
  /\ S \in SUBSET Nat /\ 0 \notin S /\ Linked(b, first, S)
  /\ this \in Nat /\ this \notin S /\ this > 0
  /\ Pred(S, this, p) /\ n = (IF p = 0 THEN first ELSE b[p].next)
  /\ d[this].next = n /\ d[this].prev = p
  /\ \A x \in S : /\ d[x].next = IF x = p THEN this ELSE b[x].next
                  /\ d[x].prev = IF x = n THEN this ELSE b[x].prev

(* Then the list with the new one is linked. *)
LEMMA LinkedWith ==
  ASSUME NEW b, NEW d, NEW first, NEW S, NEW this, NEW p, NEW n,
         Inserted(b, d, first, S, this, p, n)
  PROVE  Linked(d, IF p = 0 THEN this ELSE first, S \cup {this}) /\ Succ(S, this, n)
<1> SUFFICES ASSUME S \in SUBSET Nat, 0 \notin S, Linked(b, first, S),
                    this \in Nat \ S, this > 0, Pred(S, this, p),
                    n = IF p = 0 THEN first ELSE b[p].next,
                    d[this].next = n, d[this].prev = p,
                    \A x \in S : /\ d[x].next = IF x = p THEN this ELSE b[x].next
                                 /\ d[x].prev = IF x = n THEN this ELSE b[x].prev
             PROVE  Linked(d, IF p = 0 THEN this ELSE first, S \cup {this}) /\ Succ(S, this, n)
  BY DEF Inserted
<1> DEFINE R == S \cup {this}
           now == IF p = 0 THEN this ELSE first
<1>1. Succ(S, 0, first) /\ \A x \in S : Succ(S, x, b[x].next) /\ Pred(S, x, b[x].prev)
  BY DEF Linked
<1>2. p \in S \cup {0} /\ p < this /\ \A x \in S : x < this => x <= p
  BY DEF Pred
<1>0. /\ this \in Int /\ this > 0 /\ p \in Int
      /\ \A x \in S : x \in Int /\ x > 0
  <2>1. \A x \in S : x \in Int /\ x > 0
    OBVIOUS
  <2> QED BY <1>2, <2>1
<1>3. Succ(S, p, n)
  <2>1. CASE p = 0
    BY <1>0, <1>1, <2>1
  <2>2. CASE p # 0
    BY <1>0, <1>1, <1>2, <2>2
  <2> QED BY <1>0, <2>1, <2>2
<1>4. n = 0 \/ (n \in S /\ this < n)
  <2> SUFFICES ASSUME n # 0 PROVE n \in S /\ this < n
    OBVIOUS
  <2>1. n \in S /\ p < n
    BY <1>3 DEF Succ
  <2>2. n \in Int /\ n # this /\ ~(n < this)
    BY <1>0, <1>2, <2>1
  <2> QED BY <1>0, <2>1, <2>2
<1>5. Succ(S, this, n)
  <2>1. CASE n = 0
    <3>1. \A x \in S : x <= p
      BY <1>0, <1>3, <2>1 DEF Succ
    <3>2. \A x \in S : x <= this
      BY <1>0, <1>2, <3>1
    <3> QED BY <1>0, <2>1, <3>2 DEF Succ
  <2>2. CASE n # 0
    <3>1. n \in S /\ \A x \in S : p < x => n <= x
      BY <1>0, <1>3, <2>2 DEF Succ
    <3>2. \A x \in S : this < x => n <= x
      BY <1>0, <1>2, <3>1
    <3> QED BY <1>0, <1>4, <2>2, <3>1, <3>2 DEF Succ
  <2> QED BY <1>0, <2>1, <2>2
<1>6. Succ(R, 0, now)
  <2>1. CASE p = 0
    <3>1. \A x \in R : 0 < x => this <= x
      BY <1>0, <1>2, <2>1
    <3> QED BY <1>0, <2>1, <3>1 DEF Succ
  <2>2. CASE p # 0
    <3>1. p \in S /\ first \in S /\ 0 < first /\ first <= p /\ first # 0
      BY <1>0, <1>1, <1>2, <2>2 DEF Succ
    <3>2. \A x \in S : 0 < x => first <= x
      BY <1>0, <1>1, <3>1 DEF Succ
    <3>3. first <= this
      BY <1>0, <1>2, <3>1
    <3> QED BY <1>0, <2>2, <3>1, <3>2, <3>3 DEF Succ
  <2> QED BY <1>0, <2>1, <2>2
<1>7. Succ(R, this, d[this].next)
  BY <1>0, <1>5 DEF Succ
<1>8. Pred(R, this, d[this].prev)
  <2>1. \A x \in R : x < this => x <= p
    BY <1>0, <1>2
  <2> QED BY <1>2, <2>1 DEF Pred
<1>9. ASSUME NEW x \in S PROVE Succ(R, x, d[x].next)
  <2>1. CASE x = p
    <3>1. d[x].next = this /\ x < this
      BY <1>0, <1>2, <2>1
    <3>2. \A z \in R : x < z => this <= z
      BY <1>0, <1>2, <2>1
    <3> QED BY <1>0, <3>1, <3>2 DEF Succ
  <2>2. CASE x # p
    <3> DEFINE y == b[x].next
    <3>1. d[x].next = y /\ Succ(S, x, y)
      BY <1>0, <1>1, <2>2
    <3> HIDE DEF y
    <3>2. x < this => y # 0 /\ y < this
      <4> SUFFICES ASSUME x < this PROVE y # 0 /\ y < this
        OBVIOUS
      <4>1. x < p /\ p \in S
        BY <1>0, <1>2, <2>2
      <4>2. y # 0
        <5> SUFFICES ASSUME y = 0 PROVE FALSE
          OBVIOUS
        <5>1. p <= x
          BY <3>1, <4>1 DEF Succ
        <5> QED BY <1>0, <4>1, <5>1
      <4>3. y \in S /\ y <= p
        BY <3>1, <4>1, <4>2 DEF Succ
      <4> QED BY <1>0, <1>2, <4>2, <4>3
    <3>3. Succ(R, x, y)
      <4>1. CASE y = 0
        <5>1. \A z \in S : z <= x
          BY <3>1, <4>1 DEF Succ
        <5>2. this <= x
          BY <1>0, <3>2, <4>1
        <5> QED BY <4>1, <5>1, <5>2 DEF Succ
      <4>2. CASE y # 0
        <5>1. y \in S /\ x < y /\ \A z \in S : x < z => y <= z
          BY <3>1, <4>2 DEF Succ
        <5>2. x < this => y <= this
          BY <1>0, <3>2, <5>1
        <5> QED BY <4>2, <5>1, <5>2 DEF Succ
      <4> QED BY <4>1, <4>2
    <3> QED BY <1>0, <3>1, <3>3
  <2> QED BY <1>0, <2>1, <2>2
<1>10. ASSUME NEW x \in S PROVE Pred(R, x, d[x].prev)
  <2>1. CASE x = n
    <3>1. d[x].prev = this /\ this < x
      BY <1>0, <1>4, <2>1
    <3>2. \A z \in S : this < z => x <= z
      BY <1>0, <1>4, <1>5, <2>1 DEF Succ
    <3> QED BY <1>0, <3>1, <3>2 DEF Pred
  <2>2. CASE x # n
    <3> DEFINE y == b[x].prev
    <3>1. d[x].prev = y /\ Pred(S, x, y)
      BY <1>0, <1>1, <2>2
    <3> HIDE DEF y
    <3>2. this < x => this <= y
      <4> SUFFICES ASSUME this < x PROVE this <= y
        OBVIOUS
      <4>0. n # 0
        <5> SUFFICES ASSUME n = 0 PROVE FALSE
          OBVIOUS
        <5>1. x <= this
          BY <1>5 DEF Succ
        <5> QED BY <1>0, <5>1
      <4>1. n \in S /\ n < x /\ this < n
        <5>1. n \in S /\ n <= x /\ this < n
          BY <1>5, <4>0 DEF Succ
        <5> QED BY <1>0, <2>2, <5>1
      <4> QED BY <1>0, <3>1, <4>1 DEF Pred
    <3>3. Pred(R, x, y)
      BY <1>0, <3>1, <3>2 DEF Pred
    <3> QED BY <1>0, <3>1, <3>3
  <2> QED BY <1>0, <2>1, <2>2
<1> HIDE DEF now
<1>11. Linked(d, now, R)
  BY <1>0, <1>6, <1>7, <1>8, <1>9, <1>10 DEF Linked
<1> QED BY <1>5, <1>11 DEF now


-----------------------------------------------------------------------------
(* The operations on the heap. *)

Of(b, u, f) == [blk |-> b, used |-> u, free |-> f]

(* A heap but for free blocks that touch. *)
Segment(b, u, f, U) ==
  /\ Headers(b) /\ Tiles(b) /\ U \subseteq DOMAIN b
  /\ Linked(b, u, U) /\ Linked(b, f, DOMAIN b \ U)

LEMMA HeapParts ==
  ASSUME NEW b, NEW u, NEW f, NEW U
  PROVE  HeapOK(b, u, f, U) <=> Segment(b, u, f, U) /\ Apart(b, DOMAIN b \ U)
BY DEF HeapOK, Segment

(* The gap is closed, *)
Closed(b, this) ==
  SetPrev(SetNext(b, b[this].prev, b[this].next), b[this].next, b[this].prev)

Closing(b, first, this) == IF b[this].prev # 0 THEN first ELSE b[this].next

LEMMA UnlinkIs ==
  ASSUME NEW b, NEW u, NEW f, NEW this
  PROVE  /\ Unlink(Of(b, u, f), this, "used") = Of(Closed(b, this), Closing(b, u, this), f)
         /\ Unlink(Of(b, u, f), this, "free") = Of(Closed(b, this), u, Closing(b, f, this))
BY DEF Unlink, Of, Closed, Closing

(* and the block put into its place. *)
Place(b, first, this) == find_block_by_offset(b, first, this)
After(b, first, this) ==
  IF Place(b, first, this) = 0 THEN first ELSE b[Place(b, first, this)].next

Opened(b, first, this) ==
  SetPrev(SetNext([b EXCEPT ![this].prev = Place(b, first, this), ![this].next = After(b, first, this)],
                  Place(b, first, this), this),
          After(b, first, this), this)

Opening(b, first, this) == IF Place(b, first, this) = 0 THEN this ELSE first

LEMMA LinkInIs ==
  ASSUME NEW b, NEW u, NEW f, NEW this
  PROVE  /\ LinkIn(Of(b, u, f), this, "used") = Of(Opened(b, u, this), Opening(b, u, this), f)
         /\ LinkIn(Of(b, u, f), this, "free") = Of(Opened(b, f, this), u, Opening(b, f, this))
<1>1. LinkIn(Of(b, u, f), this, "used") = Of(Opened(b, u, this), Opening(b, u, this), f)
  <2> DEFINE h == Of(b, u, f)
  <2>1. h.blk = b /\ h["used"] = u /\ h = [blk |-> b, used |-> u, free |-> f]
    BY DEF Of
  <2> HIDE DEF h
  <2>2. LinkIn(h, this, "used") =
          [h EXCEPT !.blk = Opened(b, u, this), !["used"] = Opening(b, u, this)]
    BY <2>1 DEF LinkIn, Opened, Opening, Place, After
  <2> QED BY <2>1, <2>2 DEF Of, h
<1>2. LinkIn(Of(b, u, f), this, "free") = Of(Opened(b, f, this), u, Opening(b, f, this))
  <2> DEFINE h == Of(b, u, f)
  <2>1. h.blk = b /\ h["free"] = f /\ h = [blk |-> b, used |-> u, free |-> f]
    BY DEF Of
  <2> HIDE DEF h
  <2>2. LinkIn(h, this, "free") =
          [h EXCEPT !.blk = Opened(b, f, this), !["free"] = Opening(b, f, this)]
    BY <2>1 DEF LinkIn, Opened, Opening, Place, After
  <2> QED BY <2>1, <2>2 DEF Of, h
<1> QED BY <1>1, <1>2

LEMMA DomainFacts ==
  ASSUME NEW b, Headers(b)
  PROVE  /\ b \in [DOMAIN b -> Header] /\ DOMAIN b \in SUBSET Nat /\ 0 \notin DOMAIN b
         /\ \A o \in DOMAIN b : o \in Nat /\ 0 < o /\ o < Size
BY Offsets DEF Headers

(* d has the blocks of b, but for the links of those in T. *)
Relinked(b, d, T) ==
  /\ Headers(d) /\ DOMAIN d = DOMAIN b
  /\ \A x \in DOMAIN b : d[x].size = b[x].size
  /\ \A x \in DOMAIN b \ T : d[x].next = b[x].next /\ d[x].prev = b[x].prev

LEMMA ClosedFacts ==
  ASSUME NEW b, Headers(b), NEW first, NEW S \in SUBSET DOMAIN b, Linked(b, first, S),
         NEW this \in S
  PROVE  /\ Relinked(b, Closed(b, this), S \ {this})
         /\ Linked(Closed(b, this), Closing(b, first, this), S \ {this})
<1> DEFINE D == DOMAIN b
           p == b[this].prev
           n == b[this].next
           e == SetNext(b, p, n)
           d == SetPrev(e, n, p)
<1>1. /\ b \in [D -> Header] /\ D \in SUBSET Nat /\ 0 \notin D
      /\ \A o \in D : o \in Nat /\ 0 < o /\ o < Size
  BY DomainFacts
<1>2. Succ(S, this, n) /\ Pred(S, this, p)
  BY DEF Linked
<1>3. p \in Nat /\ n \in Nat
  BY <1>1, HeaderFacts
<1>4. \A o \in D : b[o].next = 0 \/ (b[o].next \in D /\ o < b[o].next)
  BY DEF Headers
<1>5. this \in Nat
  BY <1>1
<1>6. d = Closed(b, this)
  BY DEF Closed
<1>7. Closing(b, first, this) = IF p # 0 THEN first ELSE n
  BY DEF Closing
<1>8. D = DOMAIN b
  OBVIOUS
<1> HIDE DEF D, p, n
<1>9. n = 0 \/ (n \in S /\ this < n)
  BY <1>2 DEF Succ
<1>10. p \in S \cup {0} /\ p < this
  BY <1>2 DEF Pred
<1>11. p \in D \cup {0} /\ n \in D \cup {0}
  BY <1>8, <1>9, <1>10
<1>12. /\ e \in [D -> Header]
       /\ \A x \in D : /\ e[x].size = b[x].size /\ e[x].prev = b[x].prev
                       /\ e[x].next = IF x = p THEN n ELSE b[x].next
  <2>1. b \in [DOMAIN b -> Header] /\ 0 \notin DOMAIN b /\ p \in DOMAIN b \cup {0}
    BY <1>1, <1>8, <1>11
  <2>2. NextSet(b, SetNext(b, p, n), p, n)
    BY <1>3, <2>1, SetFacts
  <2> QED BY <1>8, <2>2 DEF NextSet
<1> HIDE DEF e
<1>13. /\ d \in [D -> Header]
       /\ \A x \in D : /\ d[x].size = e[x].size /\ d[x].next = e[x].next
                       /\ d[x].prev = IF x = n THEN p ELSE e[x].prev
  <2>1. e \in [DOMAIN e -> Header] /\ 0 \notin DOMAIN e /\ n \in DOMAIN e \cup {0} /\ DOMAIN e = D
    BY <1>1, <1>11, <1>12
  <2>2. PrevSet(e, SetPrev(e, n, p), n, p)
    BY <1>3, <2>1, SetFacts
  <2> QED BY <2>1, <2>2 DEF PrevSet
<1> HIDE DEF d
<1>14. /\ d \in [D -> Header] /\ DOMAIN d = D
       /\ \A x \in D : /\ d[x].size = b[x].size
                       /\ d[x].next = IF x = p THEN n ELSE b[x].next
                       /\ d[x].prev = IF x = n THEN p ELSE b[x].prev
  BY <1>12, <1>13
<1>15. Headers(d)
  <2>1. ASSUME NEW o \in D PROVE d[o].next = 0 \/ (d[o].next \in D /\ o < d[o].next)
    <3>1. CASE o = p
      <4>1. n = 0 \/ (n \in D /\ p < n)
        BY <1>1, <1>3, <1>5, <1>9, <1>10, <1>11
      <4> QED BY <1>14, <3>1, <4>1
    <3>2. CASE o # p
      BY <1>4, <1>14, <3>2
    <3> QED BY <3>1, <3>2
  <2>2. D \subseteq 1 .. Size - 1
    BY <1>8 DEF Headers
  <2> QED BY <1>14, <2>1, <2>2 DEF Headers
<1>16. ASSUME NEW x \in D \ (S \ {this}) PROVE d[x].next = b[x].next /\ d[x].prev = b[x].prev
  <2>1. x # p /\ x # n
    BY <1>1, <1>3, <1>5, <1>9, <1>10
  <2> QED BY <1>14, <2>1
<1>17. Linked(d, Closing(b, first, this), S \ {this})
  <2>1. S \in SUBSET Nat /\ 0 \notin S
    BY <1>1, <1>8
  <2>2. \A x \in S \ {this} : /\ d[x].next = IF x = p THEN n ELSE b[x].next
                              /\ d[x].prev = IF x = n THEN p ELSE b[x].prev
    BY <1>8, <1>14
  <2> QED BY <1>7, <2>1, <2>2, LinkedWithout DEF p, n
<1>18. Relinked(b, d, S \ {this})
  BY <1>8, <1>14, <1>15, <1>16 DEF Relinked
<1> QED BY <1>6, <1>17, <1>18

LEMMA OpenedFacts ==
  ASSUME NEW b, Headers(b), NEW first, NEW S \in SUBSET DOMAIN b, Linked(b, first, S),
         NEW this \in DOMAIN b \ S
  PROVE  /\ Relinked(b, Opened(b, first, this), S \cup {this})
         /\ Linked(Opened(b, first, this), Opening(b, first, this), S \cup {this})
<1> DEFINE D == DOMAIN b
           p == Place(b, first, this)
           n == After(b, first, this)
           a == [b EXCEPT ![this].prev = p, ![this].next = n]
           e == SetNext(a, p, this)
           d == SetPrev(e, n, this)
<1>1. /\ b \in [D -> Header] /\ D \in SUBSET Nat /\ 0 \notin D
      /\ \A o \in D : o \in Nat /\ 0 < o /\ o < Size
  BY DomainFacts
<1>2. Pred(S, this, p)
  BY <1>1, FindFacts DEF Place
<1>3. n = IF p = 0 THEN first ELSE b[p].next
  BY DEF After
<1>4. \A o \in D : b[o].next = 0 \/ (b[o].next \in D /\ o < b[o].next)
  BY DEF Headers
<1>5. this \in D /\ this \in Nat /\ this > 0 /\ this \notin S
  BY <1>1
<1>6. d = Opened(b, first, this) /\ Opening(b, first, this) = IF p = 0 THEN this ELSE first
  BY DEF Opened, Opening
<1>8. D = DOMAIN b
  OBVIOUS
<1> HIDE DEF D, p, n
<1>9. p \in S \cup {0} /\ p < this
  BY <1>2 DEF Pred
<1>10. n \in S \cup {0}
  BY <1>3, <1>9 DEF Linked, Succ
<1>11. p \in D \cup {0} /\ n \in D \cup {0} /\ p \in Nat /\ n \in Nat
  BY <1>1, <1>8, <1>9, <1>10
<1>12. /\ a \in [D -> Header]
       /\ \A x \in D : /\ a[x].size = b[x].size
                       /\ a[x].prev = IF x = this THEN p ELSE b[x].prev
                       /\ a[x].next = IF x = this THEN n ELSE b[x].next
  <2>1. \A x \in D : b[x] \in Header
    BY <1>1
  <2> QED BY <1>1, <1>5, <1>11, <2>1 DEF Header
<1> HIDE DEF a
<1>13. /\ e \in [D -> Header]
       /\ \A x \in D : /\ e[x].size = a[x].size /\ e[x].prev = a[x].prev
                       /\ e[x].next = IF x = p THEN this ELSE a[x].next
  <2>1. a \in [DOMAIN a -> Header] /\ 0 \notin DOMAIN a /\ p \in DOMAIN a \cup {0} /\ DOMAIN a = D
    BY <1>1, <1>11, <1>12
  <2>2. NextSet(a, SetNext(a, p, this), p, this)
    BY <1>5, <2>1, SetFacts
  <2> QED BY <2>1, <2>2 DEF NextSet
<1> HIDE DEF e
<1>14. /\ d \in [D -> Header]
       /\ \A x \in D : /\ d[x].size = e[x].size /\ d[x].next = e[x].next
                       /\ d[x].prev = IF x = n THEN this ELSE e[x].prev
  <2>1. e \in [DOMAIN e -> Header] /\ 0 \notin DOMAIN e /\ n \in DOMAIN e \cup {0} /\ DOMAIN e = D
    BY <1>1, <1>11, <1>13
  <2>2. PrevSet(e, SetPrev(e, n, this), n, this)
    BY <1>5, <2>1, SetFacts
  <2> QED BY <2>1, <2>2 DEF PrevSet
<1> HIDE DEF d
<1>15. p # this /\ n # this
  BY <1>5, <1>9, <1>10
<1>16. /\ d \in [D -> Header] /\ DOMAIN d = D
       /\ d[this].next = n /\ d[this].prev = p /\ \A x \in D : d[x].size = b[x].size
       /\ \A x \in D \ {this} : /\ d[x].next = IF x = p THEN this ELSE b[x].next
                                /\ d[x].prev = IF x = n THEN this ELSE b[x].prev
  <2>1. d \in [D -> Header] /\ DOMAIN d = D
    BY ONLY <1>14
  <2>2. ASSUME NEW x \in D
        PROVE  /\ d[x].size = b[x].size
               /\ d[x].next = IF x = p THEN this ELSE IF x = this THEN n ELSE b[x].next
               /\ d[x].prev = IF x = n THEN this ELSE IF x = this THEN p ELSE b[x].prev
    <3>1. /\ d[x].size = e[x].size /\ d[x].next = e[x].next
          /\ d[x].prev = IF x = n THEN this ELSE e[x].prev
      BY ONLY x \in D, <1>14
    <3>2. /\ e[x].size = a[x].size /\ e[x].prev = a[x].prev
          /\ e[x].next = IF x = p THEN this ELSE a[x].next
      BY ONLY x \in D, <1>13
    <3>3. /\ a[x].size = b[x].size
          /\ a[x].prev = IF x = this THEN p ELSE b[x].prev
          /\ a[x].next = IF x = this THEN n ELSE b[x].next
      BY ONLY x \in D, <1>12
    <3> QED BY ONLY <3>1, <3>2, <3>3
  <2>3. d[this].next = n /\ d[this].prev = p
    BY ONLY <1>5, <1>15, <2>2
  <2>4. \A x \in D \ {this} : /\ d[x].next = IF x = p THEN this ELSE b[x].next
                              /\ d[x].prev = IF x = n THEN this ELSE b[x].prev
    BY ONLY <2>2
  <2> QED BY <2>1, <2>2, <2>3, <2>4
<1>17. Linked(d, IF p = 0 THEN this ELSE first, S \cup {this}) /\ Succ(S, this, n)
  <2>1. S \in SUBSET Nat /\ 0 \notin S
    BY <1>1, <1>8
  <2>2. \A x \in S : /\ d[x].next = IF x = p THEN this ELSE b[x].next
                     /\ d[x].prev = IF x = n THEN this ELSE b[x].prev
    BY <1>5, <1>8, <1>16
  <2>3. this \in Nat \ S /\ d[this].next = n /\ d[this].prev = p
    BY <1>5, <1>16
  <2>4. Inserted(b, d, first, S, this, p, n)
    BY ONLY Linked(b, first, S), <1>2, <1>3, <1>5, <2>1, <2>2, <2>3 DEF Inserted
  <2> QED BY ONLY <2>4, LinkedWith
<1>18. Headers(d)
  <2>1. ASSUME NEW o \in D PROVE d[o].next = 0 \/ (d[o].next \in D /\ o < d[o].next)
    <3>1. CASE o = this
      <4>1. n = 0 \/ this < n
        BY <1>17 DEF Succ
      <4> QED BY <1>11, <1>16, <3>1, <4>1
    <3>2. CASE o # this /\ o = p
      BY <1>5, <1>9, <1>16, <3>2
    <3>3. CASE o # this /\ o # p
      BY <1>4, <1>16, <3>3
    <3> QED BY <3>1, <3>2, <3>3
  <2>2. D \subseteq 1 .. Size - 1
    BY <1>8 DEF Headers
  <2> QED BY <1>16, <2>1, <2>2 DEF Headers
<1>19. ASSUME NEW x \in D \ (S \cup {this}) PROVE d[x].next = b[x].next /\ d[x].prev = b[x].prev
  <2>1. x # p /\ x # n /\ x # this
    BY <1>1, <1>9, <1>10
  <2> QED BY <1>16, <2>1
<1>20. Relinked(b, d, S \cup {this})
  BY <1>8, <1>16, <1>18, <1>19 DEF Relinked
<1> QED BY <1>6, <1>17, <1>20

(* The blocks do not change while links do. *)
LEMMA TilesSame ==
  ASSUME NEW b, NEW d, Tiles(b), DOMAIN d = DOMAIN b, \A x \in DOMAIN b : d[x].size = b[x].size
  PROVE  Tiles(d)
BY DEF Tiles

(* h has the blocks of b with others in the lists. *)
Moved(h, b, U) ==
  \E d, v, g : /\ h = Of(d, v, g) /\ Segment(d, v, g, U) /\ DOMAIN d = DOMAIN b
               /\ \A x \in DOMAIN b : d[x].size = b[x].size

(* move_block, before free blocks are joined. *)
LEMMA MoveToUsed ==
  ASSUME NEW b, NEW u, NEW f, NEW U, Segment(b, u, f, U), NEW this \in DOMAIN b \ U
  PROVE  Moved(move_block(Of(b, u, f), this, FALSE), b, U \cup {this})
<1> DEFINE D == DOMAIN b
           F == D \ U
           e == Closed(b, this)
           g == Closing(b, f, this)
           d == Opened(e, u, this)
           v == Opening(e, u, this)
<1>1. Headers(b) /\ Tiles(b) /\ U \subseteq D /\ Linked(b, u, U) /\ Linked(b, f, F)
  BY DEF Segment
<1>2. /\ Headers(e) /\ DOMAIN e = D /\ \A x \in D : e[x].size = b[x].size
      /\ \A x \in D \ (F \ {this}) : e[x].next = b[x].next /\ e[x].prev = b[x].prev
      /\ Linked(e, g, F \ {this})
  <2>1. F \in SUBSET DOMAIN b /\ this \in F /\ Headers(b) /\ Linked(b, f, F)
    BY <1>1
  <2> HIDE DEF F
  <2>2. Relinked(b, e, F \ {this}) /\ Linked(e, g, F \ {this})
    BY <2>1, ClosedFacts
  <2> QED BY <2>2 DEF Relinked
<1>3. move_block(Of(b, u, f), this, FALSE) = Of(d, v, g)
  BY UnlinkIs, LinkInIs DEF move_block
<1> HIDE DEF e, g
<1>4. Linked(e, u, U)
  BY <1>1, <1>2, LinkedSame
<1>5. /\ Headers(d) /\ DOMAIN d = D /\ \A x \in D : d[x].size = e[x].size
      /\ \A x \in D \ (U \cup {this}) : d[x].next = e[x].next /\ d[x].prev = e[x].prev
      /\ Linked(d, v, U \cup {this})
  <2>1. U \in SUBSET DOMAIN e /\ this \in DOMAIN e \ U /\ Headers(e)
    BY <1>1, <1>2
  <2>2. Relinked(e, d, U \cup {this}) /\ Linked(d, v, U \cup {this})
    BY <1>4, <2>1, OpenedFacts
  <2> HIDE DEF d, v
  <2> QED BY <1>2, <2>2 DEF Relinked
<1> HIDE DEF d, v
<1>6. D \ (U \cup {this}) = F \ {this}
  OBVIOUS
<1>7. Linked(d, g, D \ (U \cup {this}))
  BY <1>2, <1>5, <1>6, LinkedSame
<1>8. Tiles(d)
  BY <1>1, <1>2, <1>5, TilesSame
<1>9. Segment(d, v, g, U \cup {this})
  BY <1>1, <1>5, <1>7, <1>8 DEF Segment
<1>10. \A x \in D : d[x].size = b[x].size
  BY <1>2, <1>5
<1> QED BY <1>3, <1>5, <1>9, <1>10 DEF Moved

LEMMA MoveToFree ==
  ASSUME NEW b, NEW u, NEW f, NEW U, Segment(b, u, f, U), NEW this \in U
  PROVE  Moved(LinkIn(Unlink(Of(b, u, f), this, "used"), this, "free"), b, U \ {this})
<1> DEFINE D == DOMAIN b
           F == D \ U
           e == Closed(b, this)
           v == Closing(b, u, this)
           d == Opened(e, f, this)
           g == Opening(e, f, this)
<1>1. Headers(b) /\ Tiles(b) /\ U \subseteq D /\ Linked(b, u, U) /\ Linked(b, f, F)
  BY DEF Segment
<1>2. /\ Headers(e) /\ DOMAIN e = D /\ \A x \in D : e[x].size = b[x].size
      /\ \A x \in D \ (U \ {this}) : e[x].next = b[x].next /\ e[x].prev = b[x].prev
      /\ Linked(e, v, U \ {this})
  <2>1. U \in SUBSET DOMAIN b /\ this \in U /\ Headers(b) /\ Linked(b, u, U)
    BY <1>1
  <2> HIDE DEF F
  <2>2. Relinked(b, e, U \ {this}) /\ Linked(e, v, U \ {this})
    BY <2>1, ClosedFacts
  <2> QED BY <2>2 DEF Relinked
<1>3. LinkIn(Unlink(Of(b, u, f), this, "used"), this, "free") = Of(d, v, g)
  BY UnlinkIs, LinkInIs
<1> HIDE DEF e, v
<1>4. Linked(e, f, F)
  BY <1>1, <1>2, LinkedSame
<1>5. /\ Headers(d) /\ DOMAIN d = D /\ \A x \in D : d[x].size = e[x].size
      /\ \A x \in D \ (F \cup {this}) : d[x].next = e[x].next /\ d[x].prev = e[x].prev
      /\ Linked(d, g, F \cup {this})
  <2>1. F \in SUBSET DOMAIN e /\ this \in DOMAIN e \ F /\ Headers(e)
    BY <1>1, <1>2
  <2> HIDE DEF F
  <2>2. Relinked(e, d, F \cup {this}) /\ Linked(d, g, F \cup {this})
    BY <1>4, <2>1, OpenedFacts
  <2> HIDE DEF d, g
  <2> QED BY <1>2, <2>2 DEF Relinked
<1> HIDE DEF d, g
<1>6. D \ (U \ {this}) = F \cup {this} /\ D \ (F \cup {this}) = U \ {this}
  BY <1>1
<1>7. Linked(d, v, U \ {this})
  BY <1>2, <1>5, <1>6, LinkedSame
<1>8. Tiles(d)
  BY <1>1, <1>2, <1>5, TilesSame
<1>9. Segment(d, v, g, U \ {this})
  BY <1>1, <1>5, <1>6, <1>7, <1>8 DEF Segment
<1>10. \A x \in D : d[x].size = b[x].size
  BY <1>2, <1>5
<1> QED BY <1>3, <1>5, <1>9, <1>10 DEF Moved

-----------------------------------------------------------------------------
(* Splitting a block. *)

(* d is b with a new free block r behind best. *)
Split(b, d, best, r) ==
  /\ d \in [DOMAIN b \cup {r} -> Header]
  /\ d[r].size = b[best].size - (r - best) /\ d[r].prev = best /\ d[r].next = b[best].next
  /\ d[best].size = r - best
  /\ \A x \in DOMAIN b :
       /\ x # best => d[x].size = b[x].size
       /\ d[x].next = IF x = best THEN r ELSE b[x].next
       /\ d[x].prev = IF x = b[best].next THEN r ELSE b[x].prev

LEMMA SplitTiles ==
  ASSUME NEW b, NEW d, Headers(b), Tiles(b), NEW best \in DOMAIN b, NEW r \in Nat,
         best < r, r < best + b[best].size, Split(b, d, best, r)
  PROVE  Tiles(d) /\ DOMAIN d = DOMAIN b \cup {r} /\ r \notin DOMAIN b /\ r < Size
<1> DEFINE D == DOMAIN b
           s == b[best].size
<1>1. /\ \A o \in D : o \in Nat /\ 0 < o /\ o < Size /\ b[o].size \in Nat
      /\ Size \in Nat /\ Hdr \in Nat
  BY DomainFacts, HeaderFacts, Offsets
<1>2. /\ Hdr \in D /\ \A o \in D : Hdr <= o
      /\ \A o \in D : b[o].size > 0 /\ o + b[o].size \in D \cup {Size}
      /\ \A o, p \in D : o < p => o + b[o].size <= p
  BY DEF Tiles
<1>3. /\ DOMAIN d = D \cup {r} /\ d[r].size = s - (r - best) /\ d[best].size = r - best
      /\ \A x \in D : x # best => d[x].size = b[x].size
  BY DEF Split
<1>4. best \in D /\ best \in Nat /\ s \in Nat /\ r \in Nat
  BY <1>1
<1> HIDE DEF D
<1>5. r \notin D
  BY <1>2, <1>4
<1>6. best + s <= Size
  BY <1>1, <1>2, <1>4
<1>7. r < Size /\ Hdr <= r
  BY <1>1, <1>2, <1>4, <1>6
<1>8. r + d[r].size = best + s /\ d[r].size > 0 /\ best + d[best].size = r /\ d[best].size > 0
  BY <1>3, <1>4
<1>9. ASSUME NEW o \in D \cup {r}
      PROVE  d[o].size > 0 /\ o + d[o].size \in D \cup {r} \cup {Size}
  <2>1. CASE o = r
    BY <1>2, <1>4, <1>8, <2>1
  <2>2. CASE o = best
    BY <1>8, <2>2
  <2>3. CASE o \in D /\ o # best
    BY <1>2, <1>3, <2>3
  <2> QED BY <1>9, <2>1, <2>2, <2>3
<1>10. ASSUME NEW o \in D \cup {r}, NEW p \in D \cup {r}, o < p
       PROVE  o + d[o].size <= p
  <2>1. CASE o = r
    <3>1. p \in D /\ best < p
      BY <1>1, <1>4, <1>10, <2>1
    <3> QED BY <1>2, <1>4, <1>8, <2>1, <3>1
  <2>2. CASE o = best
    <3>1. p = r \/ best + s <= p
      BY <1>2, <1>4, <1>10, <2>2
    <3>2. p \in Nat
      BY <1>1, <1>4
    <3> QED BY <1>4, <1>8, <2>2, <3>1, <3>2
  <2>3. CASE o \in D /\ o # best
    <3>1. d[o].size = b[o].size /\ o \in Nat /\ b[o].size \in Nat
      BY <1>1, <1>3, <2>3
    <3>2. CASE p \in D
      BY <1>2, <1>10, <2>3, <3>1, <3>2
    <3>3. CASE p = r
      <4>1. ~(best < o)
        <5> SUFFICES ASSUME best < o PROVE FALSE
          OBVIOUS
        <5>1. best + s <= o
          BY <1>2, <1>4, <2>3
        <5> QED BY <1>4, <1>10, <3>1, <3>3, <5>1
      <4>2. o < best
        BY <1>4, <2>3, <3>1, <4>1
      <4>3. o + b[o].size <= best
        BY <1>2, <1>4, <2>3, <4>2
      <4> QED BY <1>4, <3>1, <3>3, <4>3
    <3> QED BY <3>2, <3>3
  <2> QED BY <1>10, <2>1, <2>2, <2>3
<1>11. Tiles(d)
  <2>1. Hdr \in DOMAIN d /\ \A o \in DOMAIN d : Hdr <= o
    BY <1>2, <1>3, <1>7
  <2>2. \A o \in DOMAIN d : d[o].size > 0 /\ o + d[o].size \in DOMAIN d \cup {Size}
    BY <1>3, <1>9
  <2>3. \A o, p \in DOMAIN d : o < p => o + d[o].size <= p
    BY <1>3, <1>10
  <2> QED BY <2>1, <2>2, <2>3 DEF Tiles
<1> QED BY <1>3, <1>5, <1>7, <1>11 DEF D

LEMMA SplitSegment ==
  ASSUME NEW b, NEW u, NEW f, NEW U, HeapOK(b, u, f, U), NEW d,
         NEW best \in DOMAIN b \ U, NEW r \in Nat,
         best < r, r < best + b[best].size, Split(b, d, best, r)
  PROVE  /\ Segment(d, u, f, U) /\ DOMAIN d = DOMAIN b \cup {r} /\ r \notin DOMAIN b
         /\ Apart(d, DOMAIN d \ (U \cup {best}))
<1> DEFINE D == DOMAIN b
           F == D \ U
           n == b[best].next
<1>1. /\ Headers(b) /\ Tiles(b) /\ U \subseteq D
      /\ Linked(b, u, U) /\ Linked(b, f, F) /\ Apart(b, F)
  BY DEF HeapOK
<1>2. Tiles(d) /\ DOMAIN d = D \cup {r} /\ r \notin D /\ r < Size
  BY <1>1, SplitTiles
<1>3. /\ D \in SUBSET Nat /\ 0 \notin D /\ \A o \in D : o \in Nat /\ 0 < o /\ o < Size
      /\ \A o \in D : b[o].size \in Nat /\ b[o].next \in Nat
  BY <1>1, DomainFacts, HeaderFacts
<1>4. /\ d \in [D \cup {r} -> Header]
      /\ d[r].size = b[best].size - (r - best) /\ d[r].prev = best /\ d[r].next = n
      /\ d[best].size = r - best
      /\ \A x \in D : /\ x # best => d[x].size = b[x].size
                      /\ d[x].next = IF x = best THEN r ELSE b[x].next
                      /\ d[x].prev = IF x = n THEN r ELSE b[x].prev
  BY DEF Split
<1>5. /\ \A o \in D : b[o].size > 0 /\ o + b[o].size \in D \cup {Size}
      /\ \A o, p \in D : o < p => o + b[o].size <= p
  BY <1>1 DEF Tiles
<1>6. Succ(F, best, n) /\ best \in F
  BY <1>1 DEF Linked
<1>7. best \in D /\ best \in Nat /\ b[best].size \in Nat
  BY <1>3
<1>8. U \subseteq D /\ F \subseteq D /\ U \cap F = {} /\ D = U \cup F
  BY <1>1
<1>9. n \in F \cup {0}
  BY <1>6 DEF Succ
<1> HIDE DEF D, F, n
<1>10. Pred(F, r, best)
  <2>1. ASSUME NEW x \in F, x < r PROVE x <= best
    <3> SUFFICES ASSUME best < x PROVE FALSE
      BY <1>3, <1>7, <1>8
    <3>1. best + b[best].size <= x /\ x \in Nat
      BY <1>3, <1>5, <1>7, <1>8
    <3> QED BY <1>7, <2>1, <3>1
  <2> QED BY <1>6, <2>1 DEF Pred
<1>11. Linked(d, f, F \cup {r}) /\ Succ(F, r, n)
  <2>1. F \in SUBSET Nat /\ 0 \notin F /\ r \in Nat \ F /\ r > 0 /\ best # 0
    BY <1>2, <1>3, <1>7, <1>8
  <2>2. n = IF best = 0 THEN f ELSE b[best].next
    BY <2>1 DEF n
  <2>3. \A x \in F : /\ d[x].next = IF x = best THEN r ELSE b[x].next
                     /\ d[x].prev = IF x = n THEN r ELSE b[x].prev
    BY <1>4, <1>8
  <2>4. Linked(d, IF best = 0 THEN r ELSE f, F \cup {r}) /\ Succ(F, r, n)
    <3>1. Linked(b, f, F) /\ d[r].next = n /\ d[r].prev = best
      BY <1>1, <1>4
    <3>2. Inserted(b, d, f, F, r, best, n)
      BY ONLY <1>10, <2>1, <2>2, <2>3, <3>1 DEF Inserted
    <3> QED BY ONLY <3>2, LinkedWith
  <2> QED BY <2>1, <2>4
<1>12. Linked(d, u, U)
  <2>1. \A x \in U : x # best /\ x # n /\ x \in D
    BY <1>3, <1>6, <1>8, <1>9
  <2>2. \A x \in U : d[x].next = b[x].next /\ d[x].prev = b[x].prev
    BY <1>4, <2>1
  <2> QED BY <1>1, <2>2, LinkedSame
<1>13. Headers(d)
  <2>1. ASSUME NEW o \in DOMAIN d PROVE d[o].next = 0 \/ (d[o].next \in DOMAIN d /\ o < d[o].next)
    <3>1. CASE o = r
      <4>1. n = 0 \/ (n \in F /\ r < n)
        BY <1>11 DEF Succ
      <4> QED BY <1>2, <1>4, <1>8, <3>1, <4>1
    <3>2. CASE o = best
      BY <1>2, <1>4, <1>7, <3>2
    <3>3. CASE o \in D /\ o # best
      <4>1. b[o].next = 0 \/ (b[o].next \in D /\ o < b[o].next)
        BY <1>1, <3>3 DEF Headers, D
      <4> QED BY <1>2, <1>4, <3>3, <4>1
    <3> QED BY <1>2, <3>1, <3>2, <3>3
  <2>2. DOMAIN d \subseteq 1 .. Size - 1
    BY <1>2, <1>3, <1>7, Offsets
  <2> QED BY <1>2, <1>4, <2>1, <2>2 DEF Headers
<1>14. DOMAIN d \ U = F \cup {r}
  BY <1>2, <1>8
<1>15. Segment(d, u, f, U)
  BY <1>2, <1>8, <1>11, <1>12, <1>13, <1>14 DEF Segment
<1>16. DOMAIN d \ (U \cup {best}) = (F \ {best}) \cup {r}
  BY <1>2, <1>7, <1>8
<1>17. ASSUME NEW o \in (F \ {best}) \cup {r}
       PROVE  o + d[o].size \notin (F \ {best}) \cup {r}
  <2>1. best + b[best].size \notin F
    BY <1>1, <1>6 DEF Apart
  <2>2. CASE o = r
    <3>1. r + d[r].size = best + b[best].size
      BY <1>4, <1>7
    <3> QED BY <1>7, <2>1, <2>2, <3>1
  <2>3. CASE o \in F \ {best}
    <3>1. d[o].size = b[o].size /\ o + b[o].size \notin F
      BY <1>1, <1>4, <1>8, <2>3 DEF Apart
    <3>2. o \in D /\ o \in Nat /\ b[o].size \in Nat
      BY <1>3, <1>8, <2>3
    <3>3. o + b[o].size # r
      <4>1. CASE o < best
        <5>1. o + b[o].size <= best
          BY <1>5, <1>7, <3>2, <4>1
        <5> QED BY <1>7, <3>2, <5>1
      <4>2. CASE best < o
        <5>1. best + b[best].size <= o
          BY <1>5, <1>7, <3>2, <4>2
        <5> QED BY <1>7, <3>2, <5>1
      <4> QED BY <1>7, <2>3, <3>2, <4>1, <4>2
    <3> QED BY <3>1, <3>3
  <2> QED BY <1>17, <2>2, <2>3
<1>18. Apart(d, DOMAIN d \ (U \cup {best}))
  BY <1>16, <1>17 DEF Apart
<1> QED BY <1>2, <1>15, <1>18 DEF D

(* find_block_of_size returns a free block that is large enough, and no    *)
(* two other free ones touch.                                              *)
LEMMA SizedFacts ==
  ASSUME NEW b, NEW u, NEW f, NEW U, HeapOK(b, u, f, U), NEW size \in Nat, size > 0,
         NEW best, best = BestFit(Of(b, u, f), size), best # 0
  PROVE  \E d : /\ find_block_of_size(Of(b, u, f), size) = Of(d, u, f)
                /\ Segment(d, u, f, U) /\ DOMAIN b \subseteq DOMAIN d
                /\ best \in DOMAIN b \ U /\ d[best].size >= size
                /\ \A x \in DOMAIN b \ {best} : d[x].size = b[x].size
                /\ Apart(d, DOMAIN d \ (U \cup {best}))
<1> DEFINE F == DOMAIN b \ U
           h == Of(b, u, f)
           r == best + size
           old == b[best]
<1>1. /\ Headers(b) /\ Tiles(b) /\ U \subseteq DOMAIN b
      /\ Linked(b, u, U) /\ Linked(b, f, F) /\ Apart(b, F)
  BY DEF HeapOK
<1>2. h.blk = b /\ h.free = f /\ h = [blk |-> b, used |-> u, free |-> f]
  BY DEF Of
<1>3. best \in F /\ old.size >= size
  <2>1. Headers(h.blk) /\ F \in SUBSET DOMAIN h.blk /\ Linked(h.blk, h.free, F)
    BY <1>1, <1>2
  <2> HIDE DEF F, h
  <2>2. BestFit(h, size) # 0 => BestFit(h, size) \in F /\ h.blk[BestFit(h, size)].size >= size
    BY <2>1, BestFitFacts
  <2> QED BY <1>2, <2>2 DEF h
<1>4. /\ best \in Nat /\ best \in DOMAIN b /\ old \in Header /\ old.size \in Nat
      /\ old.next \in Nat /\ old.prev \in Nat /\ b \in [DOMAIN b -> Header]
  BY <1>1, <1>3, DomainFacts, HeaderFacts
<1>5. CASE old.size <= Block + size
  <2>1. find_block_of_size(h, size) = Of(b, u, f)
    BY <1>2, <1>5 DEF find_block_of_size
  <2>2. Apart(b, DOMAIN b \ (U \cup {best}))
    BY <1>1 DEF Apart
  <2>3. Segment(b, u, f, U)
    BY <1>1 DEF Segment
  <2> QED BY <1>3, <2>1, <2>2, <2>3
<1>6. CASE ~(old.size <= Block + size)
  <2> DEFINE d == [o \in DOMAIN b \cup {r} |->
                     IF o = r THEN [size |-> old.size - size, prev |-> best, next |-> old.next]
                     ELSE IF o = best THEN [old EXCEPT !.size = size, !.next = r]
                     ELSE IF o = old.next THEN [b[o] EXCEPT !.prev = r]
                     ELSE b[o]]
  <2>1. find_block_of_size(h, size) = [h EXCEPT !.blk = d]
    BY <1>2, <1>6 DEF find_block_of_size
  <2>2. find_block_of_size(h, size) = Of(d, u, f)
    <3> HIDE DEF d, h
    <3> QED BY <1>2, <2>1 DEF Of
  <2>3. r \in Nat /\ best < r /\ r < best + old.size /\ size = r - best
    BY <1>4, <1>6, Offsets
  <2>4. r \notin DOMAIN b
    <3>1. \A p \in DOMAIN b : best < p => best + b[best].size <= p
      BY <1>1, <1>4 DEF Tiles
    <3> QED BY <1>4, <2>3, <3>1
  <2>5. Split(b, d, best, r)
    <3>1. /\ d[r] = [size |-> old.size - size, prev |-> best, next |-> old.next]
          /\ d[best] = [old EXCEPT !.size = size, !.next = r]
          /\ \A x \in DOMAIN b : x # best =>
               d[x] = IF x = old.next THEN [b[x] EXCEPT !.prev = r] ELSE b[x]
          /\ DOMAIN d = DOMAIN b \cup {r} /\ d = [x \in DOMAIN b \cup {r} |-> d[x]]
      BY <1>4, <2>3, <2>4
    <3>2. \A x \in DOMAIN b : b[x] \in Header
      BY <1>4
    <3>3. /\ d[r] \in Header /\ d[r].size = old.size - size /\ d[r].prev = best /\ d[r].next = old.next
      <4>1. old.size - size \in Nat
        BY <1>4, <1>6, Offsets
      <4> HIDE DEF d
      <4> QED BY <1>4, <3>1, <4>1 DEF Header
    <3>4. /\ d[best] \in Header /\ d[best].size = size /\ d[best].prev = old.prev /\ d[best].next = r
      <4> HIDE DEF d, r
      <4> QED BY <1>4, <2>3, <3>1 DEF Header
    <3>5. ASSUME NEW x \in DOMAIN b, x # best
          PROVE  /\ d[x] \in Header /\ d[x].size = b[x].size /\ d[x].next = b[x].next
                 /\ d[x].prev = IF x = old.next THEN r ELSE b[x].prev
      <4>1. d[x] = IF x = old.next THEN [b[x] EXCEPT !.prev = r] ELSE b[x]
        BY <3>1, <3>5
      <4> HIDE DEF d, r
      <4> QED BY <2>3, <3>2, <4>1 DEF Header
    <3>6. best # old.next
      <4>1. old.next = 0 \/ best < old.next
        BY <1>1, <1>4 DEF Headers
      <4> QED BY <1>4, <4>1
    <3> HIDE DEF d
    <3>7. d \in [DOMAIN b \cup {r} -> Header]
      BY <3>1, <3>3, <3>4, <3>5
    <3> HIDE DEF r
    <3> QED BY <2>3, <3>3, <3>4, <3>5, <3>6, <3>7 DEF Split
  <2> HIDE DEF d, r
  <2>6. /\ Segment(d, u, f, U) /\ DOMAIN d = DOMAIN b \cup {r} /\ r \notin DOMAIN b
        /\ Apart(d, DOMAIN d \ (U \cup {best}))
    <3>1. best \in DOMAIN b \ U /\ r < best + b[best].size
      BY <1>3, <2>3
    <3> QED BY ONLY HeapOK(b, u, f, U), <2>3, <2>5, <3>1, SplitSegment
  <2>7. d[best].size = size /\ \A x \in DOMAIN b \ {best} : d[x].size = b[x].size
    BY <2>3, <2>5 DEF Split
  <2>8. d[best].size >= size /\ best \in DOMAIN b \ U /\ DOMAIN b \subseteq DOMAIN d
    BY <1>3, <2>6, <2>7
  <2> HIDE DEF h
  <2> QED BY <2>2, <2>6, <2>7, <2>8 DEF h
<1> QED BY <1>5, <1>6

(* What apr_rmm_malloc makes of the heap. *)
Gave(h, b, U, best, size) ==
  \E d, v, g :
    /\ h = Of(d, v, g) /\ HeapOK(d, v, g, U \cup {best}) /\ best \notin U /\ best \in DOMAIN b
    /\ d[best].size >= size /\ \A x \in U : d[x].size = b[x].size

LEMMA GiveHeap ==
  ASSUME NEW b, NEW u, NEW f, NEW U, HeapOK(b, u, f, U), NEW size \in Nat, size > 0,
         NEW best, best = BestFit(Of(b, u, f), size), best # 0
  PROVE  Gave(move_block(find_block_of_size(Of(b, u, f), size), best, FALSE), b, U, best, size)
<1>1. PICK e : /\ find_block_of_size(Of(b, u, f), size) = Of(e, u, f)
               /\ Segment(e, u, f, U) /\ DOMAIN b \subseteq DOMAIN e
               /\ best \in DOMAIN b \ U /\ e[best].size >= size
               /\ \A x \in DOMAIN b \ {best} : e[x].size = b[x].size
               /\ Apart(e, DOMAIN e \ (U \cup {best}))
  BY SizedFacts
<1>2. best \in DOMAIN e \ U
  BY <1>1
<1>3. PICK d, v, g :
           /\ move_block(Of(e, u, f), best, FALSE) = Of(d, v, g)
           /\ Segment(d, v, g, U \cup {best}) /\ DOMAIN d = DOMAIN e
           /\ \A x \in DOMAIN e : d[x].size = e[x].size
  <2>1. Segment(e, u, f, U)
    BY <1>1
  <2>2. Moved(move_block(Of(e, u, f), best, FALSE), e, U \cup {best})
    BY ONLY <1>2, <2>1, MoveToUsed
  <2> QED BY <2>2 DEF Moved
<1>4. Apart(d, DOMAIN d \ (U \cup {best}))
  BY <1>1, <1>3 DEF Apart
<1>5. HeapOK(d, v, g, U \cup {best})
  BY <1>3, <1>4, HeapParts
<1>6. U \subseteq DOMAIN b
  BY DEF HeapOK
<1>7. \A x \in U : d[x].size = b[x].size
  BY <1>1, <1>3, <1>6
<1>8. d[best].size >= size
  BY <1>1, <1>3
<1>9. move_block(find_block_of_size(Of(b, u, f), size), best, FALSE) = Of(d, v, g)
  BY <1>1, <1>3
<1> QED BY <1>1, <1>5, <1>7, <1>8, <1>9 DEF Gave

-----------------------------------------------------------------------------
(* Joining free blocks. *)

(* d is b with the block n joined to the block o before it. *)
Joined(b, d, o, n) ==
  /\ d \in [DOMAIN b \ {n} -> Header]
  /\ d[o].size = b[o].size + b[n].size
  /\ \A x \in DOMAIN b \ {n} :
       /\ x # o => d[x].size = b[x].size
       /\ d[x].next = IF x = o THEN b[n].next ELSE b[x].next
       /\ d[x].prev = IF x = b[n].next THEN o ELSE b[x].prev

LEMMA JoinedTiles ==
  ASSUME NEW b, NEW d, Headers(b), Tiles(b), NEW o \in DOMAIN b, NEW n \in DOMAIN b,
         o + b[o].size = n, Joined(b, d, o, n)
  PROVE  Tiles(d)
<1> DEFINE D == DOMAIN b
<1>1. /\ \A x \in D : x \in Nat /\ 0 < x /\ x < Size /\ b[x].size \in Nat
      /\ Size \in Nat /\ Hdr \in Nat
  BY DomainFacts, HeaderFacts, Offsets
<1>2. /\ Hdr \in D /\ \A x \in D : Hdr <= x
      /\ \A x \in D : b[x].size > 0 /\ x + b[x].size \in D \cup {Size}
      /\ \A x, y \in D : x < y => x + b[x].size <= y
  BY DEF Tiles
<1>3. /\ DOMAIN d = D \ {n} /\ d[o].size = b[o].size + b[n].size
      /\ \A x \in D \ {n} : x # o => d[x].size = b[x].size
  BY DEF Joined
<1>4. o \in D /\ n \in D /\ o \in Nat /\ n \in Nat /\ b[o].size \in Nat /\ b[n].size \in Nat
  BY <1>1
<1> HIDE DEF D
<1>5. o < n /\ b[o].size > 0 /\ b[n].size > 0
  BY <1>2, <1>4
<1>6. o + d[o].size = n + b[n].size
  BY <1>3, <1>4
<1>7. Hdr # n
  BY <1>1, <1>2, <1>4, <1>5
<1>8. n + b[n].size # n
  BY <1>4, <1>5
<1>9. ASSUME NEW x \in D \ {n}
      PROVE  d[x].size > 0 /\ x + d[x].size \in (D \ {n}) \cup {Size}
  <2>1. CASE x = o
    <3>1. d[o].size > 0
      BY <1>3, <1>4, <1>5
    <3>2. n + b[n].size \in (D \ {n}) \cup {Size}
      BY <1>2, <1>4, <1>8
    <3> QED BY <1>6, <2>1, <3>1, <3>2
  <2>2. CASE x # o
    <3>1. d[x].size = b[x].size /\ x \in Nat /\ b[x].size \in Nat /\ b[x].size > 0
      BY <1>1, <1>2, <1>3, <2>2
    <3>2. x + b[x].size # n
      <4>1. CASE x < o
        <5>1. x + b[x].size <= o
          BY <1>2, <1>4, <4>1
        <5> QED BY <1>4, <1>5, <3>1, <5>1
      <4>2. CASE o < x
        <5>1. n <= x
          BY <1>2, <1>4, <4>2
        <5> QED BY <1>4, <3>1, <5>1
      <4> QED BY <1>4, <2>2, <3>1, <4>1, <4>2
    <3>3. x + b[x].size \in D \cup {Size}
      BY <1>2
    <3> QED BY <3>1, <3>2, <3>3
  <2> QED BY <2>1, <2>2
<1>10. ASSUME NEW x \in D \ {n}, NEW y \in D \ {n}, x < y
       PROVE  x + d[x].size <= y
  <2>1. CASE x = o
    <3>1. n <= y /\ y \in Nat
      BY <1>1, <1>2, <1>4, <1>10, <2>1
    <3>2. n < y
      BY <1>4, <1>10, <3>1
    <3> QED BY <1>2, <1>4, <1>6, <2>1, <3>2
  <2>2. CASE x # o
    BY <1>2, <1>3, <1>10, <2>2
  <2> QED BY <2>1, <2>2
<1> HIDE DEF D
<1>11. Hdr \in DOMAIN d /\ \A x \in DOMAIN d : Hdr <= x
  BY <1>2, <1>3, <1>7
<1>12. \A x \in DOMAIN d : d[x].size > 0 /\ x + d[x].size \in DOMAIN d \cup {Size}
  BY <1>3, <1>9
<1>13. \A x, y \in DOMAIN d : x < y => x + d[x].size <= y
  BY <1>3, <1>10
<1> QED BY <1>11, <1>12, <1>13 DEF Tiles

LEMMA JoinedSegment ==
  ASSUME NEW b, NEW u, NEW f, NEW U, Segment(b, u, f, U), NEW d, NEW o \in DOMAIN b \ U,
         NEW n, n = b[o].next, n # 0, o + b[o].size = n, Joined(b, d, o, n)
  PROVE  Segment(d, u, f, U) /\ DOMAIN d = DOMAIN b \ {n} /\ n \in DOMAIN b \ U /\ o < n
<1> DEFINE D == DOMAIN b
           F == D \ U
           m == b[n].next
<1>1. /\ Headers(b) /\ Tiles(b) /\ U \subseteq D /\ Linked(b, u, U) /\ Linked(b, f, F)
  BY DEF Segment
<1>2. /\ D \in SUBSET Nat /\ 0 \notin D /\ \A x \in D : x \in Nat /\ 0 < x /\ x < Size
  BY <1>1, DomainFacts
<1>3. /\ d \in [D \ {n} -> Header]
      /\ \A x \in D \ {n} : /\ d[x].next = IF x = o THEN m ELSE b[x].next
                            /\ d[x].prev = IF x = m THEN o ELSE b[x].prev
  BY DEF Joined
<1>4. F \in SUBSET Nat /\ 0 \notin F /\ o \in F /\ F \subseteq D /\ D \ (U \cup {n}) = F \ {n}
  BY <1>2
<1> HIDE DEF D, F
<1>5. n \in F /\ o < n /\ b[n].prev = o
  BY <1>1, <1>4, LinkBack
<1>6. Tiles(d)
  BY <1>1, <1>4, <1>5, JoinedTiles DEF D
<1>7. m = 0 \/ (m \in F /\ n < m)
  BY <1>1, <1>5 DEF Linked, Succ
<1> HIDE DEF m
<1>8. U \subseteq D \ {n} /\ (D \ {n}) \ U = F \ {n} /\ o # 0 /\ o # n /\ o \in Nat /\ n \in Nat
  <2>1. o \in Nat /\ n \in Nat /\ o # 0
    BY <1>4, <1>5
  <2>2. U \subseteq D \ {n} /\ (D \ {n}) \ U = F \ {n}
    BY <1>1, <1>5 DEF F
  <2> QED BY <1>5, <2>1, <2>2
<1>9. Linked(d, f, F \ {n})
  <2>1. f = IF b[n].prev # 0 THEN f ELSE b[n].next
    BY <1>5, <1>8
  <2>2. \A x \in F \ {n} : /\ d[x].next = IF x = b[n].prev THEN b[n].next ELSE b[x].next
                           /\ d[x].prev = IF x = b[n].next THEN b[n].prev ELSE b[x].prev
    BY <1>3, <1>4, <1>5 DEF m
  <2>3. Linked(b, f, F)
    BY <1>1
  <2> QED BY ONLY <1>4, <1>5, <2>1, <2>2, <2>3, LinkedWithout
<1>10. Linked(d, u, U)
  <2>1. \A x \in U : x # o /\ x # m /\ x \in D \ {n}
    BY <1>2, <1>4, <1>7, <1>8 DEF F
  <2>2. \A x \in U : d[x].next = b[x].next /\ d[x].prev = b[x].prev
    BY <1>3, <2>1
  <2> QED BY <1>1, <2>2, LinkedSame
<1>11. Headers(d)
  <2>1. ASSUME NEW x \in D \ {n}
        PROVE  d[x].next = 0 \/ (d[x].next \in D \ {n} /\ x < d[x].next)
    <3>1. CASE x = o
      <4>1. m = 0 \/ (m \in D \ {n} /\ o < m)
        <5>1. m \in F => m \in D /\ m \in Nat
          BY <1>4
        <5> QED BY <1>5, <1>7, <1>8, <5>1
      <4> QED BY <1>3, <3>1, <4>1
    <3>2. CASE x # o
      <4> DEFINE y == b[x].next
      <4>1. y = 0 \/ (y \in D /\ x < y)
        BY <1>1 DEF Headers, D
      <4>2. y # n
        <5>1. CASE x \in U
          <6>1. Succ(U, x, y)
            BY <1>1, <5>1 DEF Linked
          <6> HIDE DEF y
          <6>2. y = 0 \/ y \in U
            BY <6>1 DEF Succ
          <6> QED BY <1>2, <1>5, <1>8, <6>2
        <5>2. CASE x \notin U
          <6>1. x \in F
            BY <5>2 DEF F
          <6>2. y # 0 => b[y].prev = x
            <7>1. Linked(b, f, F) /\ F \in SUBSET Nat /\ 0 \notin F
              BY <1>1, <1>4
            <7>2. b[x].next # 0 => b[b[x].next].prev = x
              BY ONLY <6>1, <7>1, LinkBack
            <7> QED BY <7>2
          <6> QED BY <1>2, <1>4, <1>5, <3>2, <6>2
        <5> QED BY <5>1, <5>2
      <4>3. d[x].next = y
        BY <1>3, <3>2
      <4> HIDE DEF y
      <4> QED BY <4>1, <4>2, <4>3
    <3> QED BY <3>1, <3>2
  <2>2. D \ {n} \subseteq 1 .. Size - 1
    BY <1>1 DEF Headers, D
  <2> QED BY <1>3, <2>1, <2>2 DEF Headers
<1>12. Segment(d, u, f, U) /\ DOMAIN d = D \ {n}
  BY <1>3, <1>6, <1>8, <1>9, <1>10, <1>11 DEF Segment
<1> QED BY <1>4, <1>5, <1>12 DEF D, F

LEMMA CollapseIs ==
  ASSUME NEW b, NEW u, NEW f, Headers(b), NEW o \in DOMAIN b, NEW n, n = b[o].next
  PROVE  /\ n # 0 /\ o + b[o].size = n
              => \E d : Collapse(Of(b, u, f), o) = Of(d, u, f) /\ Joined(b, d, o, n)
         /\ ~(n # 0 /\ o + b[o].size = n) => Collapse(Of(b, u, f), o) = Of(b, u, f)
<1> DEFINE D == DOMAIN b
           h == Of(b, u, f)
           a == [b EXCEPT ![o].size = @ + b[n].size, ![o].next = b[n].next]
           e == SetPrev(a, a[o].next, o)
           d == [x \in DOMAIN a \ {n} |-> e[x]]
<1>1. h.blk = b /\ h = [blk |-> b, used |-> u, free |-> f]
  BY DEF Of
<1>2. /\ b \in [D -> Header] /\ 0 \notin D /\ D \in SUBSET Nat /\ o \in Nat /\ o # 0
      /\ \A x \in D : b[x].next = 0 \/ (b[x].next \in D /\ x < b[x].next)
  BY DomainFacts DEF Headers
<1>3. Collapse(h, o) = IF n # 0 /\ o + b[o].size = n THEN [h EXCEPT !.blk = d] ELSE h
  BY <1>1, <1>2 DEF Collapse
<1>4. ASSUME n # 0, o + b[o].size = n
      PROVE  Collapse(h, o) = Of(d, u, f) /\ Joined(b, d, o, n)
  <2>1. Collapse(h, o) = [h EXCEPT !.blk = d]
    BY <1>3, <1>4
  <2>2. Collapse(h, o) = Of(d, u, f)
    <3> HIDE DEF d, h
    <3> QED BY <1>1, <2>1 DEF Of
  <2>3. n \in D /\ o < n /\ n # o
    BY <1>2, <1>4
  <2>4. \A x \in D : /\ b[x] \in Header /\ b[x].size \in Nat /\ b[x].prev \in Nat
                     /\ b[x].next \in Nat
    BY <1>2, HeaderFacts
  <2>5. b[n].next \in D \cup {0} /\ b[n].next # n /\ b[n].next \in Nat
    BY <1>2, <2>3, <2>4
  <2>6. /\ a \in [D -> Header] /\ DOMAIN a = D
        /\ \A x \in D : /\ a[x].size = IF x = o THEN b[o].size + b[n].size ELSE b[x].size
                        /\ a[x].next = IF x = o THEN b[n].next ELSE b[x].next
                        /\ a[x].prev = b[x].prev
    <3>1. b[o].size + b[n].size \in Nat /\ b[o] \in Header
      BY <2>3, <2>4
    <3>2. a = [b EXCEPT ![o] = [b[o] EXCEPT !.size = b[o].size + b[n].size, !.next = b[n].next]]
      BY <1>2
    <3> DEFINE w == [b[o] EXCEPT !.size = b[o].size + b[n].size, !.next = b[n].next]
    <3>3. /\ w \in Header /\ w.size = b[o].size + b[n].size /\ w.next = b[n].next
          /\ w.prev = b[o].prev
      BY <2>5, <3>1 DEF Header
    <3> HIDE DEF w, a
    <3> QED BY <1>2, <3>2, <3>3 DEF w
  <2>7. a[o].next = b[n].next
    BY <2>6
  <2> HIDE DEF a
  <2>8. PrevSet(a, e, b[n].next, o)
    <3>1. a \in [DOMAIN a -> Header] /\ 0 \notin DOMAIN a /\ b[n].next \in DOMAIN a \cup {0}
      BY <1>2, <2>5, <2>6
    <3>2. PrevSet(a, SetPrev(a, b[n].next, o), b[n].next, o)
      BY ONLY <1>2, <3>1, SetFacts
    <3> QED BY <2>7, <3>2
  <2> HIDE DEF e
  <2>9. e \in [D -> Header]
        /\ \A x \in D : /\ e[x].size = a[x].size /\ e[x].next = a[x].next
                        /\ e[x].prev = IF x = b[n].next THEN o ELSE a[x].prev
    BY <2>6, <2>8 DEF PrevSet
  <2>10. d \in [D \ {n} -> Header] /\ \A x \in D \ {n} : d[x] = e[x]
    BY <2>6, <2>9
  <2> HIDE DEF d
  <2>11. Joined(b, d, o, n)
    BY <2>3, <2>6, <2>9, <2>10 DEF Joined
  <2> QED BY <2>2, <2>11
<1>5. ASSUME ~(n # 0 /\ o + b[o].size = n) PROVE Collapse(h, o) = h
  BY <1>3, <1>5
<1> QED BY <1>4, <1>5

(* Free blocks that touch, if any, begin with o. *)
ApartBut(b, F, o) == \A x \in F : x # o => x + b[x].size \notin F

(* A member is the next one of the one before it. *)
LEMMA LinkForth ==
  ASSUME NEW b, NEW first, NEW S \in SUBSET Nat, Linked(b, first, S), 0 \notin S,
         NEW o \in S, NEW p, p = b[o].prev, p # 0
  PROVE  p \in S /\ p < o /\ b[p].next = o /\ \A x \in S : x < o => x <= p
<1>1. p \in S /\ p < o /\ \A x \in S : x < o => x <= p
  BY DEF Linked, Pred
<1> DEFINE n == b[p].next
<1>2. Succ(S, p, n)
  BY <1>1 DEF Linked
<1> HIDE DEF n
<1>3. p \in Nat /\ o \in Nat
  BY <1>1
<1>4. n # 0
  <2> SUFFICES ASSUME n = 0 PROVE FALSE
    OBVIOUS
  <2>1. o <= p
    BY <1>2 DEF Succ
  <2> QED BY <1>1, <1>3, <2>1
<1>5. n \in S /\ p < n /\ n <= o
  BY <1>1, <1>2, <1>4 DEF Succ
<1>6. n \in Nat /\ ~(n < o)
  BY <1>1, <1>3, <1>5
<1> QED BY <1>1, <1>3, <1>5, <1>6 DEF n

LEMMA CollapseHeap ==
  ASSUME NEW b, NEW u, NEW f, NEW U, Segment(b, u, f, U), NEW o \in DOMAIN b \ U,
         ApartBut(b, DOMAIN b \ U, o)
  PROVE  \E d : /\ Collapse(Of(b, u, f), o) = Of(d, u, f) /\ HeapOK(d, u, f, U)
                /\ \A x \in U : d[x].size = b[x].size
<1> DEFINE D == DOMAIN b
           F == D \ U
           n == b[o].next
<1>1. /\ Headers(b) /\ Tiles(b) /\ U \subseteq D /\ Linked(b, u, U) /\ Linked(b, f, F)
  BY DEF Segment
<1>2. /\ n # 0 /\ o + b[o].size = n
           => \E d : Collapse(Of(b, u, f), o) = Of(d, u, f) /\ Joined(b, d, o, n)
      /\ ~(n # 0 /\ o + b[o].size = n) => Collapse(Of(b, u, f), o) = Of(b, u, f)
  BY <1>1, CollapseIs
<1>3. \A x \in D : x \in Nat /\ b[x].size \in Nat /\ b[x].size > 0
  BY <1>1, DomainFacts, HeaderFacts DEF Tiles
<1>4. CASE n # 0 /\ o + b[o].size = n
  <2>1. PICK d : Collapse(Of(b, u, f), o) = Of(d, u, f) /\ Joined(b, d, o, n)
    BY <1>2, <1>4
  <2>2. Segment(d, u, f, U) /\ DOMAIN d = D \ {n} /\ n \in D \ U /\ o < n
    <3> HIDE DEF n
    <3>1. n = b[o].next
      BY DEF n
    <3> QED BY ONLY Segment(b, u, f, U), o \in DOMAIN b \ U, <1>4, <2>1, <3>1, JoinedSegment DEF D
  <2>3. /\ d[o].size = b[o].size + b[n].size
        /\ \A x \in D \ {n} : x # o => d[x].size = b[x].size
    BY <2>1 DEF Joined
  <2>4. o \in D /\ n \in D /\ n \in F /\ n # o
    BY <1>3, <2>2
  <2>5. o + d[o].size = n + b[n].size
    BY <1>3, <1>4, <2>3, <2>4
  <2> HIDE DEF n
  <2>6. ASSUME NEW x \in F \ {n} PROVE x + d[x].size \notin F
    <3>1. CASE x = o
      BY <2>4, <2>5, <3>1 DEF ApartBut
    <3>2. CASE x # o
      BY <2>3, <3>2 DEF ApartBut
    <3> QED BY <3>1, <3>2
  <2>7. DOMAIN d \ U = F \ {n}
    BY <2>2
  <2>8. Apart(d, DOMAIN d \ U)
    BY <2>6, <2>7 DEF Apart
  <2>9. \A x \in U : d[x].size = b[x].size
    BY <1>1, <2>2, <2>3
  <2> QED BY <2>1, <2>2, <2>8, <2>9, HeapParts
<1>5. CASE ~(n # 0 /\ o + b[o].size = n)
  <2>1. Collapse(Of(b, u, f), o) = Of(b, u, f)
    BY <1>2, <1>5
  <2>2. o + b[o].size \notin F
    <3> DEFINE y == o + b[o].size
    <3> SUFFICES ASSUME y \in F PROVE FALSE
      OBVIOUS
    <3>1. y \in Nat /\ o < y /\ o \in Nat /\ o \in F
      BY <1>3
    <3>2. Succ(F, o, n)
      BY <1>1 DEF Linked
    <3>3. \A x \in D : o < x => y <= x
      BY <1>1 DEF Tiles
    <3>4. y # n \/ n = 0
      BY <1>5
    <3> HIDE DEF n, y
    <3>5. n # 0
      <4> SUFFICES ASSUME n = 0 PROVE FALSE
        OBVIOUS
      <4>1. y <= o
        BY <3>2 DEF Succ
      <4> QED BY <3>1, <4>1
    <3>6. n \in F /\ o < n /\ n <= y
      BY <3>1, <3>2, <3>5 DEF Succ
    <3>7. n \in D /\ n \in Nat /\ y <= n
      BY <1>3, <3>3, <3>6
    <3> QED BY <3>1, <3>4, <3>5, <3>6, <3>7
  <2>3. Apart(b, F)
    BY <2>2 DEF Apart, ApartBut
  <2> QED BY <2>1, <2>3, HeapParts
<1> QED BY <1>4, <1>5

(* What apr_rmm_free makes of the heap. *)
Freed(h, b, U) ==
  \E d, v, g :
    h = Of(d, v, g) /\ HeapOK(d, v, g, U) /\ \A x \in U : d[x].size = b[x].size

LEMMA FreeHeap ==
  ASSUME NEW b, NEW u, NEW f, NEW U, HeapOK(b, u, f, U), NEW this \in U
  PROVE  Freed(move_block(Of(b, u, f), this, TRUE), b, U \ {this})
<1> DEFINE D == DOMAIN b
           F == D \ U
           R == U \ {this}
           in == LinkIn(Unlink(Of(b, u, f), this, "used"), this, "free")
<1>1. Segment(b, u, f, U) /\ Apart(b, F) /\ U \subseteq D
  BY HeapParts DEF HeapOK
<1>2. Moved(in, b, R)
  BY ONLY <1>1, this \in U, MoveToFree
<1>3. PICK e, v, g : /\ in = Of(e, v, g) /\ Segment(e, v, g, R) /\ DOMAIN e = D
                     /\ \A x \in D : e[x].size = b[x].size
  <2> HIDE DEF in, R
  <2> QED BY <1>2 DEF Moved
<1> DEFINE p == e[this].prev
<1>4. move_block(Of(b, u, f), this, TRUE) =
        IF p # 0 /\ p + e[p].size = this THEN Collapse(Collapse(Of(e, v, g), p), p)
        ELSE Collapse(Of(e, v, g), this)
  <2>1. in.blk = e
    BY <1>3 DEF Of
  <2>2. move_block(Of(b, u, f), this, TRUE) =
          IF in.blk[this].prev # 0 /\ in.blk[this].prev + in.blk[in.blk[this].prev].size = this
            THEN Collapse(Collapse(in, in.blk[this].prev), in.blk[this].prev)
            ELSE Collapse(in, this)
    BY DEF move_block
  <2> HIDE DEF in
  <2> QED BY <1>3, <2>1, <2>2
<1> HIDE DEF in
<1>5. /\ Headers(e) /\ Tiles(e) /\ R \subseteq D /\ Linked(e, v, R) /\ Linked(e, g, D \ R)
  BY <1>3 DEF Segment
<1>6. D \ R = F \cup {this} /\ this \in D /\ this \notin F
  BY <1>1
<1>7. /\ D \in SUBSET Nat /\ 0 \notin D
      /\ \A x \in D : x \in Nat /\ 0 < x /\ e[x].size \in Nat /\ e[x].size > 0
      /\ \A x, y \in D : x < y => x + e[x].size <= y
  <2>1. D \in SUBSET Nat /\ 0 \notin D /\ \A x \in D : x \in Nat /\ 0 < x
    BY <1>3, <1>5, DomainFacts
  <2>2. \A x \in D : e[x].size \in Nat
    BY <1>3, <1>5, DomainFacts, HeaderFacts
  <2>3. \A x \in D : e[x].size > 0
    BY <1>3, <1>5 DEF Tiles
  <2>4. \A x, y \in D : x < y => x + e[x].size <= y
    BY <1>3, <1>5 DEF Tiles
  <2> QED BY <2>1, <2>2, <2>3, <2>4
<1>8. \A x \in F : x + e[x].size \notin F
  BY <1>1, <1>3 DEF Apart
<1>9. D \ R \in SUBSET Nat /\ 0 \notin D \ R /\ this \in D \ R
  BY <1>6, <1>7
<1>10. CASE p # 0 /\ p + e[p].size = this
  <2>1. p \in D \ R /\ p < this /\ e[p].next = this
    <3> HIDE DEF R
    <3> QED BY <1>5, <1>9, <1>10, LinkForth
  <2>2. p \in F /\ this # 0
    BY <1>6, <1>7, <2>1
  <2> HIDE DEF p
  <2>3. PICK d : Collapse(Of(e, v, g), p) = Of(d, v, g) /\ Joined(e, d, p, this)
    <3>1. p \in DOMAIN e /\ this = e[p].next /\ this # 0 /\ p + e[p].size = this
      BY <1>3, <1>10, <2>1, <2>2
    <3> QED BY ONLY <1>5, <3>1, CollapseIs
  <2>4. Segment(d, v, g, R) /\ DOMAIN d = D \ {this}
    <3>1. p \in DOMAIN e \ R /\ this = e[p].next /\ this # 0 /\ p + e[p].size = this
      BY <1>3, <1>10, <2>1, <2>2
    <3>2. Segment(e, v, g, R) /\ Joined(e, d, p, this)
      BY <1>3, <2>3
    <3>3. Segment(d, v, g, R) /\ DOMAIN d = DOMAIN e \ {this}
      <4> HIDE DEF R
      <4> QED BY ONLY <3>1, <3>2, JoinedSegment
    <3> QED BY <1>3, <3>3
  <2>5. \A x \in D \ {this} : x # p => d[x].size = b[x].size
    BY <1>3, <2>3 DEF Joined
  <2>6. DOMAIN d \ R = F
    BY <1>6, <2>4
  <2>7. ApartBut(d, DOMAIN d \ R, p) /\ p \in DOMAIN d \ R
    <3>1. \A x \in F : x # p => x + d[x].size \notin F
      BY <1>1, <1>6, <2>5 DEF Apart
    <3> QED BY <2>2, <2>6, <3>1 DEF ApartBut
  <2>8. PICK a : /\ Collapse(Of(d, v, g), p) = Of(a, v, g) /\ HeapOK(a, v, g, R)
                 /\ \A x \in R : a[x].size = d[x].size
    <3>1. Segment(d, v, g, R)
      BY <2>4
    <3> HIDE DEF R
    <3> QED BY ONLY <2>7, <3>1, CollapseHeap
  <2>9. \A x \in R : a[x].size = b[x].size
    <3>1. \A x \in R : x \in D \ {this} /\ x # p
      BY <1>1, <2>2
    <3> QED BY <2>5, <2>8, <3>1
  <2>10. move_block(Of(b, u, f), this, TRUE) = Of(a, v, g)
    BY <1>4, <1>10, <2>3, <2>8 DEF p
  <2> QED BY <2>8, <2>9, <2>10 DEF Freed
<1>11. CASE ~(p # 0 /\ p + e[p].size = this)
  <2>1. Pred(D \ R, this, p)
    BY <1>5, <1>9 DEF Linked
  <2> HIDE DEF p
  <2>2. ASSUME NEW x \in F PROVE x + e[x].size # this
    <3> SUFFICES ASSUME x + e[x].size = this PROVE FALSE
      OBVIOUS
    <3>1. x \in D /\ x \in Nat /\ 0 < x /\ x < this /\ x \in D \ R /\ this \in Nat
      BY <1>6, <1>7
    <3>2. x <= p /\ p < this /\ p \in (D \ R) \cup {0}
      BY <2>1, <3>1 DEF Pred
    <3>3. p \in D /\ p \in Nat /\ p # 0
      BY <1>7, <3>1, <3>2
    <3>4. CASE x = p
      BY <1>11, <3>3, <3>4
    <3>5. CASE x # p
      <4>1. x + e[x].size <= p
        BY <1>7, <3>1, <3>2, <3>3, <3>5
      <4> QED BY <1>7, <3>1, <3>2, <3>3, <4>1
    <3> QED BY <3>4, <3>5
  <2>3. ApartBut(e, DOMAIN e \ R, this) /\ this \in DOMAIN e \ R
    <3>1. ASSUME NEW x \in F \cup {this}, x # this PROVE x + e[x].size \notin F \cup {this}
      BY <1>8, <2>2, <3>1
    <3>2. DOMAIN e \ R = F \cup {this}
      BY <1>3, <1>6
    <3> HIDE DEF R
    <3> QED BY <3>1, <3>2 DEF ApartBut
  <2>4. PICK a : /\ Collapse(Of(e, v, g), this) = Of(a, v, g) /\ HeapOK(a, v, g, R)
                 /\ \A x \in R : a[x].size = e[x].size
    <3>1. Segment(e, v, g, R)
      BY <1>3
    <3> HIDE DEF R
    <3> QED BY ONLY <2>3, <3>1, CollapseHeap
  <2>5. \A x \in R : a[x].size = b[x].size
    BY <1>1, <1>3, <2>4
  <2>6. move_block(Of(b, u, f), this, TRUE) = Of(a, v, g)
    BY <1>4, <1>11, <2>4 DEF p
  <2> QED BY <2>4, <2>5, <2>6 DEF Freed
<1> QED BY <1>10, <1>11

-----------------------------------------------------------------------------
(* The sizes. *)

LEMMA RoundedDown ==
  ASSUME NEW m \in Nat, NEW a \in Nat, a > 0
  PROVE  (m \div a) * a \in Nat /\ (m \div a) * a <= m /\ m < (m \div a) * a + a
OBVIOUS

LEMMA Multiples ==
  ASSUME NEW m \in Nat, NEW n \in Nat, NEW a \in Nat, a > 0, m % a = 0, n % a = 0, m < n
  PROVE  m + a <= n
<1> DEFINE p == m \div a
           q == n \div a
<1>1. p \in Int /\ q \in Int /\ m = a * p /\ n = a * q
  OBVIOUS
<1> HIDE DEF p, q
<1> DEFINE k == q - p
<1>2. k \in Int /\ n - m = a * k
  BY <1>1
<1> HIDE DEF k
<1>3. k > 0
  <2> SUFFICES ASSUME k <= 0 PROVE FALSE
    BY <1>2
  <2>1. a * k <= 0
    BY <1>2
  <2> QED BY <1>2, <2>1
<1>4. k - 1 \in Nat /\ a * (k - 1) \in Nat /\ a * k = a * (k - 1) + a
  BY <1>2, <1>3
<1> QED BY <1>2, <1>4

LEMMA Wraps ==
  ASSUME NEW m \in Nat, NEW w \in Nat, w > 0, m < 2 * w
  PROVE  m % w = IF m < w THEN m ELSE m - w
OBVIOUS

LEMMA Aligned ==
  ASSUME NEW req \in 0 .. Word - 1
  PROVE  ALIGN_DEFAULT(req) \in 0 .. Word - 1
<1> DEFINE m == (req + Align - 1) % Word
<1>1. Align \in Nat /\ Align > 0 /\ Word \in Nat /\ Word > 0
  BY SizesAssumption
<1>2. m \in Nat /\ m < Word
  BY <1>1
<1> HIDE DEF m
<1>3. (m \div Align) * Align \in Nat /\ (m \div Align) * Align <= m
  BY <1>1, <1>2, RoundedDown
<1>4. ALIGN_DEFAULT(req) = (m \div Align) * Align
  BY DEF ALIGN_DEFAULT, m
<1> QED BY <1>1, <1>2, <1>3, <1>4

(* A block that is given out has room for the header and the request,      *)
(* although both sums may wrap around.                                     *)
LEMMA BlockSizeFacts ==
  ASSUME NEW req \in 0 .. Word - 1, BlockSize(req) # 0
  PROVE  BlockSize(req) \in Nat /\ BlockSize(req) >= req + Block
<1> DEFINE m == (req + Align - 1) % Word
           r == (m \div Align) * Align
           size == (r + Block) % Word
<1>1. Align \in Nat /\ Align > 0 /\ Word \in Nat /\ Word > 0 /\ Block \in Nat /\ req \in Nat /\ req < Word
  BY SizesAssumption
<1>2. Block + Align <= Word
  <2>1. Block < Word /\ Block % Align = 0 /\ Word % Align = 0
    BY SizesAssumption
  <2> QED BY <1>1, <2>1, Multiples
<1>3. m = IF req + Align - 1 < Word THEN req + Align - 1 ELSE req + Align - 1 - Word
  <2>1. req + Align - 1 \in Nat /\ req + Align - 1 < 2 * Word
    BY <1>1, <1>2
  <2> QED BY <1>1, <2>1, Wraps
<1>4. m \in Nat /\ m < Word
  BY <1>1
<1>5. BlockSize(req) = IF size < req THEN 0 ELSE size
  BY DEF BlockSize, ALIGN_DEFAULT
<1> HIDE DEF m
<1>6. r \in Nat /\ r <= m /\ m < r + Align
  BY <1>1, <1>4, RoundedDown
<1> HIDE DEF r
<1>7. size = IF r + Block < Word THEN r + Block ELSE r + Block - Word
  <2> DEFINE k == r + Block
  <2>1. k \in Nat /\ k < 2 * Word
    BY <1>1, <1>2, <1>4, <1>6
  <2>2. size = k % Word
    OBVIOUS
  <2> HIDE DEF k
  <2>3. k % Word = IF k < Word THEN k ELSE k - Word
    BY <1>1, <2>1, Wraps
  <2> HIDE DEF size
  <2>4. size = IF k < Word THEN k ELSE k - Word
    BY <2>2, <2>3
  <2> QED BY <1>1, <1>6, <2>4 DEF k
<1>8. size \in Nat
  BY <1>1, <1>6, <1>7
<1> HIDE DEF size
<1>9. BlockSize(req) = size /\ ~(size < req)
  BY <1>5
<1>10. CASE req + Align - 1 < Word
  <2>1. r >= req /\ r <= req + Align - 1
    BY <1>1, <1>3, <1>6, <1>10
  <2>2. r + Block < Word
    BY <1>1, <1>2, <1>6, <1>7, <1>8, <1>9, <2>1
  <2> QED BY <1>1, <1>6, <1>7, <1>8, <1>9, <2>1, <2>2
<1>11. CASE ~(req + Align - 1 < Word)
  <2>1. r <= req + Align - 1 - Word
    BY <1>1, <1>3, <1>4, <1>6, <1>11
  <2>2. r + Block < req
    BY <1>1, <1>2, <1>6, <2>1
  <2>3. size < req
    BY <1>1, <1>6, <1>7, <1>8, <2>2
  <2> QED BY <1>9, <2>3
<1> QED BY <1>10, <1>11

-----------------------------------------------------------------------------
(* The inductive invariant: the used blocks are the held ones. *)

Held == {a.off - Block : a \in Given}

Alloc == [off : Nat, req : Nat]

(* Nothing is given out twice. *)
Once ==
  \A c, d \in Clients : \A x \in allocs[c], y \in allocs[d] : x.off = y.off => c = d /\ x = y

Roomy == \A a \in Given : a.off >= Block /\ blk[a.off - Block].size >= a.req + Block

Inv ==
  abssize # 0 =>
    /\ allocs \in [Clients -> SUBSET Alloc] /\ Once /\ Roomy
    /\ HeapOK(blk, firstused, firstfree, Held)

LEMMA InitInv == Init => Inv
<1> SUFFICES ASSUME Init PROVE Inv
  OBVIOUS
<1>1. /\ blk = [o \in {Hdr} |-> [size |-> Size - Hdr, prev |-> 0, next |-> 0]]
      /\ firstused = 0 /\ firstfree = Hdr /\ allocs = [c \in Clients |-> {}]
  BY DEF Init
<1>2. Given = {} /\ Held = {} /\ allocs \in [Clients -> SUBSET Alloc] /\ Once /\ Roomy
  <2>1. \A c \in Clients : allocs[c] = {}
    BY <1>1
  <2>2. Given = {}
    BY <2>1 DEF Given
  <2> QED BY <1>1, <2>1, <2>2 DEF Held, Once, Roomy
<1>3. /\ DOMAIN blk = {Hdr} /\ blk[Hdr] = [size |-> Size - Hdr, prev |-> 0, next |-> 0]
      /\ blk[Hdr].size = Size - Hdr /\ blk[Hdr].prev = 0 /\ blk[Hdr].next = 0
  BY <1>1
<1>4. Hdr \in Nat /\ Hdr > 0 /\ Size \in Nat /\ Size - Hdr \in Nat /\ Size - Hdr > 0 /\ Hdr + (Size - Hdr) = Size
      /\ Hdr \in 1 .. Size - 1 /\ ~(Hdr < Hdr)
  BY Offsets
<1>5. Headers(blk)
  <2>1. blk[Hdr] \in Header
    BY <1>3, <1>4 DEF Header
  <2>2. blk \in [{Hdr} -> Header]
    BY <1>1, <1>3, <2>1
  <2> QED BY <1>3, <1>4, <2>2 DEF Headers
<1>6. Tiles(blk)
  <2>1. \A o \in {Hdr} : Hdr <= o /\ blk[o].size > 0 /\ o + blk[o].size \in {Hdr} \cup {Size}
    BY <1>3, <1>4
  <2>2. \A o, p \in {Hdr} : ~(o < p)
    BY <1>4
  <2> QED BY <1>3, <2>1, <2>2 DEF Tiles
<1>7. Linked(blk, firstused, {})
  BY <1>1 DEF Linked, Succ
<1>8. Linked(blk, firstfree, {Hdr})
  <2>1. Succ({Hdr}, 0, Hdr) /\ Succ({Hdr}, Hdr, 0) /\ Pred({Hdr}, Hdr, 0)
    BY <1>4 DEF Succ, Pred
  <2> QED BY <1>1, <1>3, <2>1 DEF Linked
<1>9. Apart(blk, {Hdr})
  <2>1. Hdr + blk[Hdr].size # Hdr
    BY <1>3, <1>4
  <2> QED BY <2>1 DEF Apart
<1>10. DOMAIN blk \ Held = {Hdr} /\ Held \subseteq DOMAIN blk
  BY <1>2, <1>3
<1> QED BY <1>2, <1>5, <1>6, <1>7, <1>8, <1>9, <1>10 DEF Inv, HeapOK

LEMMA HeapIs == Heap = Of(blk, firstused, firstfree)
BY DEF Heap, Of

LEMMA AllocFacts ==
  ASSUME allocs \in [Clients -> SUBSET Alloc]
  PROVE  Given \subseteq Alloc /\ \A a \in Given : a.off \in Nat /\ a.req \in Nat
BY DEF Given, Alloc

(* Giving out a block. *)
LEMMA GiveInv ==
  ASSUME Inv, NEW c \in Clients, NEW req \in 0 .. Word - 1, Give(c, req), UNCHANGED abssize
  PROVE  Inv'
<1> SUFFICES ASSUME abssize # 0 PROVE Inv'
  BY DEF Inv
<1> DEFINE size == BlockSize(req)
           best == BestFit(Heap, size)
           new == [off |-> best + Block, req |-> req]
<1>1. allocs \in [Clients -> SUBSET Alloc] /\ Once /\ Roomy /\ HeapOK(blk, firstused, firstfree, Held)
  BY DEF Inv
<1>2. size # 0 /\ best # 0 /\ Offered(req) = best + Block
  BY DEF Give, Offered
<1>3. size \in Nat /\ size >= req + Block /\ size > 0 /\ req \in Nat /\ Block \in Nat /\ Block > 0
  <2>1. size \in Nat /\ size >= req + Block
    BY <1>2, BlockSizeFacts
  <2>2. req \in Nat /\ Block \in Nat /\ Block > 0
    BY Offsets
  <2> HIDE DEF size
  <2> QED BY <2>1, <2>2
<1> HIDE DEF size
<1>4. PICK d, v, g :
        /\ move_block(find_block_of_size(Heap, size), best, FALSE) = Of(d, v, g)
        /\ HeapOK(d, v, g, Held \cup {best}) /\ best \notin Held /\ best \in DOMAIN blk
        /\ d[best].size >= size /\ \A x \in Held : d[x].size = blk[x].size
  <2>1. best = BestFit(Of(blk, firstused, firstfree), size)
    BY HeapIs
  <2>2. HeapOK(blk, firstused, firstfree, Held) /\ best # 0
    BY <1>1, <1>2
  <2> HIDE DEF best
  <2>3. Gave(move_block(find_block_of_size(Of(blk, firstused, firstfree), size), best, FALSE),
             blk, Held, best, size)
    BY ONLY <1>3, <2>1, <2>2, GiveHeap
  <2> QED BY <2>3, HeapIs DEF Gave
<1>5. best \in Nat
  BY <1>1, <1>4, DomainFacts DEF HeapOK
<1> HIDE DEF best
<1>6. Offered(req) - Block = best
  BY <1>2, <1>3, <1>5
<1>7. /\ blk' = d /\ firstused' = v /\ firstfree' = g
      /\ allocs' = [allocs EXCEPT ![c] = @ \cup {new}]
  <2>1. Becomes(Of(d, v, g))
    BY <1>2, <1>4, <1>6 DEF Give, size
  <2>2. allocs' = [allocs EXCEPT ![c] = @ \cup {new}]
    BY <1>2 DEF Give
  <2> QED BY <2>1, <2>2 DEF Becomes, Of
<1>8. new \in Alloc /\ new.off = best + Block /\ new.req = req
  BY <1>3, <1>5 DEF Alloc
<1> HIDE DEF new
<1>9. /\ allocs' \in [Clients -> SUBSET Alloc]
      /\ allocs'[c] = allocs[c] \cup {new} /\ \A x \in Clients : x # c => allocs'[x] = allocs[x]
  BY <1>1, <1>7, <1>8
<1>10. Given' = Given \cup {new}
  <2>1. Given' = UNION {allocs'[x] : x \in Clients}
    BY DEF Given
  <2> QED BY <1>9, <2>1 DEF Given
<1>11. \A a \in Given : a.off \in Nat /\ a.req \in Nat
  BY <1>1, AllocFacts
<1>12. Held' = Held \cup {best}
  <2>1. Held' = {a.off - Block : a \in Given'}
    BY DEF Held
  <2>2. new.off - Block = best
    BY <1>3, <1>5, <1>8
  <2> QED BY <1>10, <2>1, <2>2 DEF Held
<1>13. \A a \in Given : a.off # new.off
  <2> SUFFICES ASSUME NEW a \in Given, a.off = new.off PROVE FALSE
    OBVIOUS
  <2>1. a.off - Block = best
    BY <1>3, <1>5, <1>8
  <2> QED BY <1>4, <2>1 DEF Held
<1>14. Once'
  <2> SUFFICES ASSUME NEW p \in Clients, NEW q \in Clients,
                      NEW x \in allocs'[p], NEW y \in allocs'[q], x.off = y.off
               PROVE  p = q /\ x = y
    BY DEF Once
  <2>1. x \in allocs[p] \/ (p = c /\ x = new)
    BY <1>9
  <2>2. y \in allocs[q] \/ (q = c /\ y = new)
    BY <1>9
  <2>3. x \in allocs[p] => x.off # new.off
    BY <1>13 DEF Given
  <2>4. y \in allocs[q] => y.off # new.off
    BY <1>13 DEF Given
  <2> QED BY <1>1, <2>1, <2>2, <2>3, <2>4 DEF Once
<1>15. Roomy'
  <2> SUFFICES ASSUME NEW a \in Given'
               PROVE  a.off >= Block /\ blk'[a.off - Block].size >= a.req + Block
    BY DEF Roomy
  <2>1. CASE a = new
    <3>1. a.off - Block = best /\ a.off >= Block /\ a.req = req
      BY <1>3, <1>5, <1>8, <2>1
    <3>2. d[best].size \in Nat
      BY <1>4, DomainFacts, HeaderFacts DEF HeapOK
    <3> QED BY <1>3, <1>4, <1>7, <3>1, <3>2
  <2>2. CASE a \in Given
    <3>1. a.off >= Block /\ blk[a.off - Block].size >= a.req + Block
      BY <1>1, <2>2 DEF Roomy
    <3>2. a.off - Block \in Held
      BY <2>2 DEF Held
    <3> QED BY <1>4, <1>7, <3>1, <3>2
  <2> QED BY <1>10, <2>1, <2>2
<1>16. HeapOK(blk, firstused, firstfree, Held)'
  BY <1>4, <1>7, <1>12 DEF HeapOK
<1> QED BY <1>9, <1>14, <1>15, <1>16 DEF Inv

(* The first of a list has none before it. *)
LEMMA FirstFacts ==
  ASSUME NEW b, NEW first, NEW S \in SUBSET Nat, Linked(b, first, S), 0 \notin S,
         NEW o \in S, b[o].prev = 0
  PROVE  first = o
<1>1. Succ(S, 0, first) /\ \A x \in S : x < o => x <= 0
  BY DEF Linked, Pred
<1>2. o \in Nat /\ o > 0
  OBVIOUS
<1>3. first # 0
  <2> SUFFICES ASSUME first = 0 PROVE FALSE
    OBVIOUS
  <2>1. o <= 0
    BY <1>1 DEF Succ
  <2> QED BY <1>2, <2>1
<1>4. first \in S /\ 0 < first /\ first <= o
  BY <1>1, <1>2, <1>3 DEF Succ
<1>5. first \in Nat /\ ~(first < o)
  BY <1>1, <1>4
<1> QED BY <1>2, <1>4, <1>5

(* apr_rmm_free accepts what was given out. *)
LEMMA HeldSane ==
  ASSUME Inv, abssize # 0, NEW a \in Given
  PROVE  /\ Sane(a.off) /\ a.off - Block \in Held /\ a.off - Block \in DOMAIN blk
         /\ a.off \in Nat /\ a.req \in Nat
<1> DEFINE this == a.off - Block
<1>1. allocs \in [Clients -> SUBSET Alloc] /\ HeapOK(blk, firstused, firstfree, Held)
  BY DEF Inv
<1>2. a.off \in Nat /\ a.req \in Nat
  BY <1>1, AllocFacts
<1>3. this \in Held
  BY DEF Held
<1>4. Headers(blk) /\ Tiles(blk) /\ Held \subseteq DOMAIN blk /\ Linked(blk, firstused, Held)
  BY <1>1 DEF HeapOK
<1>5. DOMAIN blk \in SUBSET Nat /\ 0 \notin DOMAIN blk
  BY <1>4, DomainFacts
<1>6. Held \in SUBSET Nat /\ 0 \notin Held /\ this \in DOMAIN blk /\ this \in Nat
  BY <1>3, <1>4, <1>5
<1>7. Hdr <= this
  BY <1>4, <1>6 DEF Tiles
<1>8. a.off >= Hdr + Block
  BY <1>2, <1>6, <1>7, Offsets
<1> HIDE DEF this
<1>9. blk[this].prev # 0 => blk[blk[this].prev].next = this
  BY <1>3, <1>4, <1>6, LinkForth
<1>10. blk[this].prev = 0 => firstused = this
  BY <1>3, <1>4, <1>6, FirstFacts
<1>11. blk[this].next # 0 => blk[blk[this].next].prev = this
  BY <1>3, <1>4, <1>6, LinkBack
<1>12. Sane(a.off)
  BY <1>8, <1>9, <1>10, <1>11 DEF Sane, this
<1> QED BY <1>2, <1>3, <1>6, <1>12 DEF this

(* Taking one back. *)
LEMMA FreeInv ==
  ASSUME Inv, NEW c \in Clients, NEW a \in allocs[c], apr_rmm_free(c, a)
  PROVE  Inv'
<1>0. abssize' = abssize
  BY DEF apr_rmm_free
<1> SUFFICES ASSUME abssize # 0 PROVE Inv'
  BY <1>0 DEF Inv
<1> DEFINE this == a.off - Block
<1>1. allocs \in [Clients -> SUBSET Alloc] /\ Once /\ Roomy /\ HeapOK(blk, firstused, firstfree, Held)
  BY DEF Inv
<1>2. a \in Given
  BY DEF Given
<1>3. Sane(a.off) /\ this \in Held /\ a.off \in Nat
  BY <1>2, HeldSane
<1>4. /\ Becomes(move_block(Heap, this, TRUE))
      /\ allocs' = [allocs EXCEPT ![c] = @ \ {a}]
  BY <1>3 DEF apr_rmm_free
<1>5. PICK d, v, g :
        /\ move_block(Heap, this, TRUE) = Of(d, v, g)
        /\ HeapOK(d, v, g, Held \ {this}) /\ \A x \in Held \ {this} : d[x].size = blk[x].size
  <2> HIDE DEF this
  <2>1. HeapOK(blk, firstused, firstfree, Held) /\ this \in Held
    BY <1>1, <1>3
  <2>2. Freed(move_block(Of(blk, firstused, firstfree), this, TRUE), blk, Held \ {this})
    BY ONLY <2>1, FreeHeap
  <2> QED BY <2>2, HeapIs DEF Freed
<1>6. blk' = d /\ firstused' = v /\ firstfree' = g
  <2>1. Becomes(Of(d, v, g))
    BY <1>4, <1>5
  <2> QED BY <2>1 DEF Becomes, Of
<1>7. /\ allocs' \in [Clients -> SUBSET Alloc]
      /\ allocs'[c] = allocs[c] \ {a} /\ \A x \in Clients : x # c => allocs'[x] = allocs[x]
  BY <1>1, <1>4
<1>8. Given' = Given \ {a}
  <2>1. Given' = UNION {allocs'[x] : x \in Clients}
    BY DEF Given
  <2>2. \A x \in Clients : a \in allocs[x] => x = c
    BY <1>1 DEF Once
  <2>3. \A y : y \in Given' => y \in Given \ {a}
    BY <1>7, <2>1, <2>2 DEF Given
  <2>4. \A y : y \in Given \ {a} => y \in Given'
    BY <1>7, <2>1 DEF Given
  <2> QED BY <2>3, <2>4
<1>9. \A x, y \in Given : x.off = y.off => x = y
  BY <1>1 DEF Once, Given
<1>10. \A x \in Given : x.off \in Nat /\ x.req \in Nat
  BY <1>1, AllocFacts
<1>11. Block \in Nat
  BY Offsets
<1>12. \A x \in Given \ {a} : x.off - Block # this
  BY <1>2, <1>9, <1>10, <1>11
<1> HIDE DEF this
<1>13. Held' = Held \ {this}
  <2>1. Held' = {x.off - Block : x \in Given \ {a}}
    BY <1>8 DEF Held
  <2>2. this = a.off - Block
    BY DEF this
  <2>3. \A y : y \in Held' => y \in Held \ {this}
    BY <1>12, <2>1 DEF Held
  <2>4. \A y : y \in Held \ {this} => y \in Held'
    BY <2>1, <2>2 DEF Held
  <2> QED BY <2>3, <2>4
<1>14. Once'
  <2> SUFFICES ASSUME NEW p \in Clients, NEW q \in Clients,
                      NEW x \in allocs'[p], NEW y \in allocs'[q], x.off = y.off
               PROVE  p = q /\ x = y
    BY DEF Once
  <2>1. x \in allocs[p] /\ y \in allocs[q]
    BY <1>7
  <2> QED BY <1>1, <2>1 DEF Once
<1>15. Roomy'
  <2> SUFFICES ASSUME NEW x \in Given'
               PROVE  x.off >= Block /\ blk'[x.off - Block].size >= x.req + Block
    BY DEF Roomy
  <2>1. x \in Given /\ x # a
    BY <1>8
  <2>2. x.off >= Block /\ blk[x.off - Block].size >= x.req + Block
    BY <1>1, <2>1 DEF Roomy
  <2>3. x.off - Block \in Held \ {this}
    BY <1>12, <2>1 DEF Held
  <2> QED BY <1>5, <1>6, <2>2, <2>3
<1>16. HeapOK(blk, firstused, firstfree, Held)'
  BY <1>5, <1>6, <1>13 DEF HeapOK
<1> QED BY <1>7, <1>14, <1>15, <1>16 DEF Inv

LEMMA NextInv == Inv /\ [Next]_vars => Inv'
<1> SUFFICES ASSUME Inv, [Next]_vars PROVE Inv'
  OBVIOUS
<1>1. ASSUME NEW c \in Clients, NEW req \in Requests, apr_rmm_malloc(c, req)
      PROVE  Inv'
  <2>1. req \in 0 .. Word - 1 /\ Give(c, req) /\ UNCHANGED abssize
    BY <1>1, SizesAssumption DEF apr_rmm_malloc
  <2> QED BY <2>1, GiveInv
<1>2. ASSUME NEW c \in Clients, NEW req \in Requests, NEW a \in allocs[c], apr_rmm_realloc(c, a, req)
      PROVE  Inv'
  <2>1. req \in 0 .. Word - 1 /\ Give(c, ALIGN_DEFAULT(req)) /\ UNCHANGED abssize
    BY <1>2, SizesAssumption DEF apr_rmm_realloc
  <2>2. ALIGN_DEFAULT(req) \in 0 .. Word - 1
    BY <2>1, Aligned
  <2> QED BY <2>1, <2>2, GiveInv
<1>3. ASSUME NEW c \in Clients, NEW a \in allocs[c], apr_rmm_free(c, a)
      PROVE  Inv'
  BY <1>3, FreeInv
<1>4. CASE apr_rmm_destroy
  BY <1>4 DEF apr_rmm_destroy, Inv
<1>5. CASE UNCHANGED vars
  <2>1. UNCHANGED <<blk, firstused, firstfree, abssize, allocs>>
    BY <1>5 DEF vars
  <2>2. Given' = Given /\ Held' = Held
    BY <2>1 DEF Given, Held
  <2> QED BY <2>1, <2>2 DEF Inv, Once, Roomy, HeapOK
<1> QED BY <1>1, <1>2, <1>3, <1>4, <1>5 DEF Next

(* The inductive invariant of the segment: the links of both lists, the    *)
(* blocks without gap or overlap, no two free ones side by side, and the   *)
(* used ones held by one client each, through every critical section of    *)
(* rmm->lock.                                                              *)
THEOREM SegmentInvariant == Spec => []Inv
BY InitInv, NextInv, PTL DEF Spec

-----------------------------------------------------------------------------
(* The properties. *)

(* The members of a list are counted by the walk along it. *)
LEMMA CountChain ==
  ASSUME NEW S \in SUBSET Nat, NEW c \in Seq(S), Grows(c),
         \A x \in S : \E i \in 1 .. Len(c) : c[i] = x
  PROVE  IsFiniteSet(S) /\ Cardinality(S) = Len(c) /\ S = {c[i] : i \in 1 .. Len(c)}
<1>1. Len(c) \in Nat /\ c \in [1 .. Len(c) -> S]
  OBVIOUS
<1>2. ASSUME NEW i \in 1 .. Len(c), NEW j \in 1 .. Len(c), c[i] = c[j] PROVE i = j
  <2>1. c[i] \in Nat /\ c[j] \in Nat
    BY <1>1
  <2>2. i \in Nat /\ j \in Nat /\ (i < j => c[i] < c[j]) /\ (j < i => c[j] < c[i])
    BY DEF Grows
  <2> QED BY <1>2, <2>1, <2>2
<1>3. c \in Bijection(1 .. Len(c), S)
  BY <1>1, <1>2 DEF Bijection, Injection, Surjection, IsInjective
<1>4. ExistsBijection(1 .. Len(c), S)
  BY <1>3 DEF ExistsBijection
<1>5. IsFiniteSet(1 .. Len(c)) /\ Cardinality(1 .. Len(c)) = Len(c)
  <2> DEFINE n == Len(c)
  <2>1. n \in Nat
    BY <1>1
  <2> HIDE DEF n
  <2>2. IsFiniteSet(1 .. n) /\ Cardinality(1 .. n) = n
    BY ONLY <2>1, FS_Interval
  <2> QED BY <2>2 DEF n
<1>6. IsFiniteSet(S) /\ Cardinality(S) = Len(c)
  BY <1>4, <1>5, FS_Bijection
<1> QED BY <1>1, <1>6

(* The two lists. *)
LEMMA ListFacts ==
  ASSUME Inv, abssize # 0
  PROVE  LET F == DOMAIN blk \ Held
         IN  /\ Headers(blk) /\ Tiles(blk) /\ Held \subseteq DOMAIN blk
             /\ Held \in SUBSET Nat /\ F \in SUBSET Nat
             /\ Used \in Seq(Held) /\ Grows(Used) /\ Held = {Used[i] : i \in 1 .. Len(Used)}
             /\ IsFiniteSet(Held) /\ Cardinality(Held) = Len(Used)
             /\ \A i \in 1 .. Len(Used) : blk[Used[i]].prev = IF i = 1 THEN 0 ELSE Used[i - 1]
             /\ Free \in Seq(F) /\ Grows(Free) /\ F = {Free[i] : i \in 1 .. Len(Free)}
             /\ IsFiniteSet(F) /\ Cardinality(F) = Len(Free)
             /\ \A i \in 1 .. Len(Free) : blk[Free[i]].prev = IF i = 1 THEN 0 ELSE Free[i - 1]
<1> DEFINE F == DOMAIN blk \ Held
<1>1. /\ Headers(blk) /\ Tiles(blk) /\ Held \subseteq DOMAIN blk
      /\ Linked(blk, firstused, Held) /\ Linked(blk, firstfree, F)
  BY DEF Inv, HeapOK
<1>2. /\ Held \in SUBSET Nat /\ F \in SUBSET Nat
      /\ Held \in SUBSET DOMAIN blk /\ F \in SUBSET DOMAIN blk
  BY <1>1, DomainFacts
<1> HIDE DEF F
<1>3. /\ Used \in Seq(Held) /\ Grows(Used) /\ \A x \in Held : \E i \in 1 .. Len(Used) : Used[i] = x
      /\ \A i \in 1 .. Len(Used) : blk[Used[i]].prev = IF i = 1 THEN 0 ELSE Used[i - 1]
  <2>1. Headers(blk) /\ Held \in SUBSET DOMAIN blk /\ Linked(blk, firstused, Held)
    BY <1>1, <1>2
  <2>2. Listed(blk, Chain(blk, firstused), Held)
    BY ONLY <2>1, ChainListed
  <2>3. Listed(blk, Used, Held)
    BY <2>2 DEF Used
  <2> QED BY ONLY <2>3 DEF Listed
<1>4. /\ Free \in Seq(F) /\ Grows(Free) /\ \A x \in F : \E i \in 1 .. Len(Free) : Free[i] = x
      /\ \A i \in 1 .. Len(Free) : blk[Free[i]].prev = IF i = 1 THEN 0 ELSE Free[i - 1]
  <2>1. Headers(blk) /\ F \in SUBSET DOMAIN blk /\ Linked(blk, firstfree, F)
    BY <1>1, <1>2
  <2>2. Listed(blk, Chain(blk, firstfree), F)
    BY ONLY <2>1, ChainListed
  <2>3. Listed(blk, Free, F)
    BY <2>2 DEF Free
  <2> QED BY ONLY <2>3 DEF Listed
<1>5. /\ IsFiniteSet(Held) /\ Cardinality(Held) = Len(Used)
      /\ Held = {Used[i] : i \in 1 .. Len(Used)}
  BY <1>2, <1>3, CountChain
<1>6. IsFiniteSet(F) /\ Cardinality(F) = Len(Free) /\ F = {Free[i] : i \in 1 .. Len(Free)}
  BY <1>2, <1>4, CountChain
<1> QED BY <1>1, <1>2, <1>3, <1>4, <1>5, <1>6 DEF F

LEMMA InvTiled ==
  ASSUME Inv
  PROVE  Tiled
<1> SUFFICES ASSUME abssize # 0 PROVE Tiled
  BY DEF Tiled
<1> DEFINE F == DOMAIN blk \ Held
           All == {Used[i] : i \in 1 .. Len(Used)} \cup {Free[i] : i \in 1 .. Len(Free)}
           LinkedBy(c) == \A i \in 1 .. Len(c) :
                            /\ blk[c[i]].prev = IF i = 1 THEN 0 ELSE c[i - 1]
                            /\ i > 1 => c[i - 1] < c[i]
<1>1. /\ Headers(blk) /\ Tiles(blk) /\ Held \subseteq DOMAIN blk
      /\ Held \in SUBSET Nat /\ F \in SUBSET Nat
      /\ Used \in Seq(Held) /\ Grows(Used) /\ Held = {Used[i] : i \in 1 .. Len(Used)}
      /\ IsFiniteSet(Held) /\ Cardinality(Held) = Len(Used)
      /\ \A i \in 1 .. Len(Used) : blk[Used[i]].prev = IF i = 1 THEN 0 ELSE Used[i - 1]
      /\ Free \in Seq(F) /\ Grows(Free) /\ F = {Free[i] : i \in 1 .. Len(Free)}
      /\ IsFiniteSet(F) /\ Cardinality(F) = Len(Free)
      /\ \A i \in 1 .. Len(Free) : blk[Free[i]].prev = IF i = 1 THEN 0 ELSE Free[i - 1]
  BY ListFacts
<1>2. All = Held \cup F /\ All = DOMAIN blk /\ Held \cap F = {}
  BY <1>1
<1>a. /\ Len(Used) \in Nat /\ Cardinality(Held) = Len(Used) /\ IsFiniteSet(Held)
      /\ Len(Free) \in Nat /\ Cardinality(F) = Len(Free) /\ IsFiniteSet(F)
  <2>1. Used \in Seq(Held) /\ Free \in Seq(F)
    BY <1>1
  <2> HIDE DEF F
  <2>2. Len(Used) \in Nat /\ Len(Free) \in Nat
    BY ONLY <2>1, LenProperties
  <2> QED BY <1>1, <2>2 DEF F
<1>3. LinkedBy(Used)
  <2> SUFFICES ASSUME NEW i \in 1 .. Len(Used), i > 1 PROVE Used[i - 1] < Used[i]
    BY <1>1
  <2>1. i - 1 \in 1 .. Len(Used) /\ i - 1 < i
    BY <1>a
  <2> QED BY <1>1, <2>1 DEF Grows
<1>4. LinkedBy(Free)
  <2> SUFFICES ASSUME NEW i \in 1 .. Len(Free), i > 1 PROVE Free[i - 1] < Free[i]
    BY <1>1
  <2>1. i - 1 \in 1 .. Len(Free) /\ i - 1 < i
    BY <1>a
  <2> QED BY <1>1, <2>1 DEF Grows
<1>5. Len(Used) + Len(Free) = Cardinality(All)
  <2> HIDE DEF F, All
  <2>1. Cardinality(Held \cup F) = Cardinality(Held) + Cardinality(F) - Cardinality(Held \cap F)
    BY ONLY <1>a, FS_Union
  <2>2. Cardinality(Held \cap F) = 0
    BY <1>2, FS_EmptySet
  <2>3. All = Held \cup F
    BY <1>2
  <2> QED BY ONLY <1>a, <2>1, <2>2, <2>3
<1>6. /\ Hdr \in All
      /\ \A o \in All : blk[o].size > 0 /\ (End(o) = Size \/ End(o) \in All)
      /\ \A o, p \in All : o < p => End(o) <= p
  <2>1. /\ Hdr \in DOMAIN blk
        /\ \A o \in DOMAIN blk :
             blk[o].size > 0 /\ o + blk[o].size \in DOMAIN blk \cup {Size}
        /\ \A o, p \in DOMAIN blk : o < p => o + blk[o].size <= p
    BY <1>1 DEF Tiles
  <2> HIDE DEF All
  <2> QED BY <1>2, <2>1 DEF End
<1>7. /\ LinkedBy(Used) /\ LinkedBy(Free) /\ All = DOMAIN blk
      /\ Len(Used) + Len(Free) = Cardinality(All) /\ Hdr \in All
      /\ \A o \in All : blk[o].size > 0 /\ (End(o) = Size \/ End(o) \in All)
      /\ \A o, p \in All : o < p => End(o) <= p
  BY <1>2, <1>3, <1>4, <1>5, <1>6
<1> QED BY <1>7, Zenon DEF Tiled

(* For any number of clients and any sizes: the used and the free list     *)
(* stay sorted and linked both ways, and their blocks tile the segment:    *)
(* each begins after every lower one has ended, and where one ends another *)
(* begins or the segment ends.                                             *)
THEOREM SegmentStaysTiled == Spec => []Tiled
BY SegmentInvariant, InvTiled, PTL

LEMMA InvHeldBlocks ==
  ASSUME Inv
  PROVE  HeldBlocks
<1> SUFFICES ASSUME abssize # 0 PROVE HeldBlocks
  BY DEF HeldBlocks
<1>1. /\ Held \in SUBSET Nat /\ Held = {Used[i] : i \in 1 .. Len(Used)}
      /\ IsFiniteSet(Held) /\ Cardinality(Held) = Len(Used)
  BY ListFacts
<1>2. allocs \in [Clients -> SUBSET Alloc] /\ Once /\ Roomy
  BY DEF Inv
<1>3. Block \in Nat /\ \A a \in Given : a.off \in Nat /\ a.req \in Nat
  BY <1>2, AllocFacts, Offsets
<1>4. Cardinality(Given) = Cardinality(Held)
  <2> DEFINE at == [a \in Given |-> a.off - Block]
  <2>1. \A a, x \in Given : a.off = x.off => a = x
    BY <1>2 DEF Once, Given
  <2>2. at \in [Given -> Held] /\ \A x \in Held : \E a \in Given : at[a] = x
    BY DEF Held
  <2>3. \A a, x \in Given : at[a] = at[x] => a = x
    BY <1>3, <2>1
  <2>4. at \in Bijection(Given, Held)
    <3> HIDE DEF at
    <3> QED BY <2>2, <2>3 DEF Bijection, Injection, Surjection, IsInjective
  <2>5. ExistsBijection(Given, Held)
    <3> HIDE DEF at
    <3> QED BY <2>4 DEF ExistsBijection
  <2>6. ExistsBijection(Held, Given)
    BY <2>5, Fun_ExistsBijSymmetric
  <2> QED BY <1>1, <2>6, FS_Bijection
<1>5. ASSUME NEW a \in Given PROVE a.off + a.req <= End(a.off - Block) /\ Sane(a.off)
  <2>1. a.off >= Block /\ blk[a.off - Block].size >= a.req + Block
    BY <1>2 DEF Roomy
  <2>2. Sane(a.off) /\ a.off - Block \in DOMAIN blk
    BY HeldSane
  <2>3. blk[a.off - Block].size \in Nat
    BY <2>2, DomainFacts, HeaderFacts DEF Inv, HeapOK
  <2> DEFINE s == blk[a.off - Block].size
  <2>4. End(a.off - Block) = (a.off - Block) + s
    BY DEF End
  <2> HIDE DEF s
  <2>5. a.off + a.req <= (a.off - Block) + s
    BY <1>3, <2>1, <2>3 DEF s
  <2> QED BY <2>2, <2>4, <2>5
<1> QED BY <1>1, <1>4, <1>5 DEF HeldBlocks, Held

(* The used list is exactly what the clients hold, each block has room for *)
(* what was asked for whatever the sums wrap around to, and apr_rmm_free   *)
(* refuses none of them.                                                   *)
THEOREM UsedBlocksAreHeld == Spec => []HeldBlocks
BY SegmentInvariant, InvHeldBlocks, PTL

(* Every place of the segment is in a block. *)
LEMMA Covered ==
  ASSUME NEW b, Headers(b), Tiles(b), NEW y \in Hdr .. Size - 1
  PROVE  \E o \in DOMAIN b : o <= y /\ y < o + b[o].size
<1> DEFINE T == {o \in DOMAIN b : o <= y}
<1>1. /\ DOMAIN b \in SUBSET Nat /\ Hdr \in DOMAIN b /\ y \in Nat /\ Hdr <= y /\ y < Size
      /\ \A o \in DOMAIN b : b[o].size \in Nat /\ b[o].size > 0
      /\ \A o \in DOMAIN b : o + b[o].size \in DOMAIN b \cup {Size}
  BY DomainFacts, HeaderFacts, Offsets DEF Tiles
<1>2. T \in SUBSET Nat /\ T # {} /\ \A k \in T : k <= y
  BY <1>1
<1>3. PICK o \in T : \A k \in T : k <= o
  <2> HIDE DEF T
  <2> QED BY <1>1, <1>2, GreatestNat
<1>4. o \in DOMAIN b /\ o <= y /\ o \in Nat /\ b[o].size \in Nat /\ b[o].size > 0
  BY <1>1, <1>3
<1>5. y < o + b[o].size
  <2> DEFINE e == o + b[o].size
  <2> SUFFICES ASSUME e <= y PROVE FALSE
    BY <1>1, <1>4
  <2>1. e \in DOMAIN b \cup {Size} /\ e \in Nat /\ o < e
    BY <1>1, <1>4
  <2>2. e \in T
    <3> HIDE DEF e
    <3> QED BY <1>1, <2>1, Offsets
  <2>3. e <= o
    <3> HIDE DEF e, T
    <3> QED BY <1>3, <2>2
  <2> HIDE DEF e
  <2> QED BY <1>4, <2>1, <2>3
<1> QED BY <1>4, <1>5

LEMMA InvNoFalseShortage ==
  ASSUME Inv
  PROVE  NoFalseShortage
<1> DEFINE Taken(x) == \E a \in Given : a.off - Block <= x /\ x < End(a.off - Block)
<1> SUFFICES ASSUME abssize # 0, NEW req \in Requests, BlockSize(req) # 0,
                    NEW x \in Hdr .. Size, x + BlockSize(req) <= Size,
                    \A y \in x .. x + BlockSize(req) - 1 : ~Taken(y)
             PROVE  Offered(req) # 0
  BY DEF NoFalseShortage
<1> DEFINE size == BlockSize(req)
           D == DOMAIN blk
           F == D \ Held
<1>1. /\ Headers(blk) /\ Tiles(blk) /\ Held \subseteq D
      /\ Linked(blk, firstfree, F) /\ Apart(blk, F)
  BY DEF Inv, HeapOK
<1>2. size \in Nat /\ size > 0
  <2>1. req \in 0 .. Word - 1
    BY SizesAssumption
  <2>2. size \in Nat /\ size # 0
    BY <2>1, BlockSizeFacts
  <2> HIDE DEF size
  <2> QED BY <2>2
<1>3. x + size <= Size /\ \A y \in x .. x + size - 1 : ~Taken(y)
  OBVIOUS
<1>4. Offered(req) = IF BestFit(Heap, size) = 0 THEN 0 ELSE BestFit(Heap, size) + Block
  BY DEF Offered
<1> HIDE DEF size
<1>5. /\ D \in SUBSET Nat /\ \A o \in D : o \in Nat /\ blk[o].size \in Nat /\ blk[o].size > 0
      /\ \A o \in D : o + blk[o].size \in D \cup {Size}
      /\ x \in Nat /\ Size \in Nat /\ Hdr \in Nat
  BY <1>1, DomainFacts, HeaderFacts, Offsets DEF Tiles
<1>6. \A o \in Held : \A y \in x .. x + size - 1 : ~(o <= y /\ y < o + blk[o].size)
  BY <1>3 DEF Held, End
<1>7. PICK o \in D : o <= x /\ x < o + blk[o].size
  <2>1. x \in Hdr .. Size - 1
    BY <1>2, <1>3, <1>5
  <2> QED BY <1>1, <2>1, Covered
<1>8. o \in F
  <2>1. x \in x .. x + size - 1
    BY <1>2, <1>5
  <2> QED BY <1>6, <1>7, <2>1
<1>9. blk[o].size >= size
  <2> DEFINE e == o + blk[o].size
  <2> SUFFICES ASSUME blk[o].size < size PROVE FALSE
    BY <1>2, <1>5
  <2>1. e \in Nat /\ x < e /\ e < x + size /\ e < Size
    BY <1>2, <1>3, <1>5, <1>7
  <2>2. e \in D
    BY <1>5, <2>1
  <2>3. e \notin F
    BY <1>1, <1>8 DEF Apart
  <2>4. e \in Held /\ blk[e].size \in Nat /\ blk[e].size > 0
    BY <1>5, <2>2, <2>3
  <2> HIDE DEF e
  <2>5. e \in x .. x + size - 1 /\ e <= e /\ e < e + blk[e].size
    BY <1>2, <1>5, <2>1, <2>4
  <2> QED BY <1>6, <2>4, <2>5
<1>10. BestFit(Heap, size) # 0 /\ (BestFit(Heap, size) \in F)
  <2> DEFINE h == Heap
  <2>1. h.blk = blk /\ h.free = firstfree
    BY DEF Heap
  <2>2. Headers(h.blk) /\ F \in SUBSET DOMAIN h.blk /\ Linked(h.blk, h.free, F)
        /\ \E y \in F : h.blk[y].size >= size
    BY <1>1, <1>8, <1>9, <2>1
  <2> HIDE DEF h, F
  <2>3. BestFit(h, size) # 0 /\ BestFit(h, size) \in F
    BY <1>2, <2>2, BestFitFacts
  <2> QED BY <2>3 DEF h
<1>11. BestFit(Heap, size) \in Nat /\ Block \in Nat
  BY <1>5, <1>10, Offsets
<1> DEFINE best == BestFit(Heap, size)
<1> HIDE DEF best
<1> QED BY <1>4, <1>10, <1>11, Offsets

(* apr_rmm_malloc finds room whenever a stretch without allocations is as  *)
(* long as the block it needs: free blocks that touch are always joined.   *)
THEOREM NoNeedlessShortage == Spec => []NoFalseShortage
BY SegmentInvariant, InvNoFalseShortage, PTL
=============================================================================
