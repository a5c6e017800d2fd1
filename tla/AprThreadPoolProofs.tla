------------------------ MODULE AprThreadPoolProofs -------------------------
(***************************************************************************)
(* Proofs about AprThreadPool for any number of workers, tasks, priorities *)
(* and clients: no task is lost or run twice, no segment index dangles,    *)
(* the counters and the idle ring agree with what the threads do, and a    *)
(* cancel that returns has left nothing of its owner behind.               *)
(***************************************************************************)
EXTENDS AprThreadPool, FiniteSetTheorems, SequenceTheorems,
        WellFoundedInduction, TLAPS

-----------------------------------------------------------------------------
(* Numbers. *)

(* A nonempty set of numbers has a least one. *)
LEMMA LeastNat ==
  ASSUME NEW T \in SUBSET Nat, T # {}
  PROVE  \E m \in T : \A k \in T : m <= k
<1> DEFINE W == {1 .. k : k \in T}
<1>1. W \subseteq FiniteSubsetsOf(Nat)
  BY FS_Interval DEF FiniteSubsetsOf
<1>2. IsWellFoundedOn(StrictSubsetOrdering(Nat), FiniteSubsetsOf(Nat))
  BY FS_StrictSubsetOrderingWellFounded
<1>3. PICK X \in W : \A Y \in W : <<Y, X>> \notin StrictSubsetOrdering(Nat)
  <2>1. W # {}
    OBVIOUS
  <2> HIDE DEF W
  <2> QED BY <1>1, <1>2, <2>1, WFMin
<1>4. PICK m \in T : X = 1 .. m
  BY <1>3
<1>5. ASSUME NEW k \in T, k < m PROVE FALSE
  <2>1. 1 .. k \in W
    OBVIOUS
  <2>2. 1 .. k \subseteq 1 .. m /\ 1 .. k # 1 .. m
    <3>1. m \in 1 .. m /\ m \notin 1 .. k
      BY <1>5
    <3> QED BY <1>5, <3>1
  <2>3. <<1 .. k, 1 .. m>> \in StrictSubsetOrdering(Nat)
    BY <1>1, <1>4, <2>1, <2>2 DEF StrictSubsetOrdering, FiniteSubsetsOf
  <2> QED BY <1>3, <1>4, <2>1, <2>3
<1> QED BY <1>5

-----------------------------------------------------------------------------
(* Rings: sequences without repetitions. *)

LEMMA ToSetDef ==
  ASSUME NEW S, NEW s \in Seq(S)
  PROVE  /\ ToSet(s) = {s[i] : i \in 1 .. Len(s)} /\ ToSet(s) \subseteq S
         /\ Len(s) \in Nat /\ DOMAIN s = 1 .. Len(s)
BY DEF ToSet

(* The rest of a ring is the ring without its first member. *)
LEMMA TailFacts ==
  ASSUME NEW S, NEW s \in Seq(S), s # << >>, IsInjective(s)
  PROVE  /\ Tail(s) \in Seq(S) /\ IsInjective(Tail(s))
         /\ Len(Tail(s)) = Len(s) - 1 /\ Len(s) \in Nat \ {0}
         /\ Head(s) \in ToSet(s) /\ Head(s) = s[1]
         /\ ToSet(Tail(s)) = ToSet(s) \ {Head(s)}
<1>1. /\ Tail(s) \in Seq(S) /\ Len(Tail(s)) = Len(s) - 1 /\ Head(s) = s[1]
      /\ Len(s) \in Nat \ {0} /\ DOMAIN s = 1 .. Len(s)
      /\ DOMAIN Tail(s) = 1 .. Len(s) - 1
      /\ \A i \in 1 .. Len(s) - 1 : Tail(s)[i] = s[i + 1]
  OBVIOUS
<1>2. IsInjective(Tail(s))
  BY <1>1 DEF IsInjective
<1>3. \A x \in ToSet(Tail(s)) : x \in ToSet(s) \ {Head(s)}
  BY <1>1 DEF ToSet, IsInjective
<1>4. \A x \in ToSet(s) \ {Head(s)} : x \in ToSet(Tail(s))
  <2> SUFFICES ASSUME NEW i \in 1 .. Len(s), i # 1 PROVE s[i] \in ToSet(Tail(s))
    BY <1>1 DEF ToSet
  <2>1. i - 1 \in 1 .. Len(s) - 1 /\ s[i] = Tail(s)[i - 1]
    BY <1>1
  <2> QED BY <1>1, <2>1 DEF ToSet
<1>5. Head(s) \in ToSet(s)
  BY <1>1 DEF ToSet
<1> QED BY <1>1, <1>2, <1>3, <1>4, <1>5

LEMMA AppendFacts ==
  ASSUME NEW S, NEW s \in Seq(S), NEW x \in S
  PROVE  /\ Append(s, x) \in Seq(S)
         /\ ToSet(Append(s, x)) = ToSet(s) \cup {x}
         /\ IsInjective(s) /\ x \notin ToSet(s) => IsInjective(Append(s, x))
<1>1. /\ Append(s, x) \in Seq(S) /\ Len(s) \in Nat /\ DOMAIN s = 1 .. Len(s)
      /\ DOMAIN Append(s, x) = 1 .. Len(s) + 1
      /\ Append(s, x)[Len(s) + 1] = x
      /\ \A i \in 1 .. Len(s) : Append(s, x)[i] = s[i]
  OBVIOUS
<1>2. 1 .. Len(s) + 1 = (1 .. Len(s)) \cup {Len(s) + 1}
  BY <1>1
<1>3. ToSet(Append(s, x)) = ToSet(s) \cup {x}
  BY <1>1, <1>2 DEF ToSet
<1>4. IsInjective(s) /\ x \notin ToSet(s) => IsInjective(Append(s, x))
  BY <1>1, <1>2 DEF ToSet, IsInjective
<1> QED BY <1>1, <1>3, <1>4

(* A ring cut in two. *)
LEMMA CutFacts ==
  ASSUME NEW S, NEW s \in Seq(S), IsInjective(s), NEW k \in 0 .. Len(s)
  PROVE  LET a == SubSeq(s, 1, k)
             b == SubSeq(s, k + 1, Len(s))
         IN  /\ a \in Seq(S) /\ IsInjective(a)
             /\ ToSet(a) \cup ToSet(b) = ToSet(s)
             /\ ToSet(a) \cap ToSet(b) = {}
<1> DEFINE a == SubSeq(s, 1, k)
           b == SubSeq(s, k + 1, Len(s))
<1>1. Len(s) \in Nat /\ DOMAIN s = 1 .. Len(s) /\ k \in Nat /\ k <= Len(s)
  OBVIOUS
<1>2. a \in Seq(S) /\ DOMAIN a = 1 .. k /\ \A i \in 1 .. k : a[i] = s[i]
  BY <1>1
<1>3. DOMAIN b = 1 .. Len(s) - k /\ \A i \in 1 .. Len(s) - k : b[i] = s[k + i]
  BY <1>1
<1> HIDE DEF a, b
<1>4. IsInjective(a)
  BY <1>1, <1>2 DEF IsInjective
<1>5. ToSet(a) \subseteq ToSet(s) /\ ToSet(b) \subseteq ToSet(s)
  <2>1. \A i \in 1 .. k : a[i] \in ToSet(s)
    BY <1>1, <1>2 DEF ToSet
  <2>2. \A i \in 1 .. Len(s) - k : b[i] \in ToSet(s)
    <3> SUFFICES ASSUME NEW i \in 1 .. Len(s) - k PROVE b[i] \in ToSet(s)
      OBVIOUS
    <3>1. k + i \in 1 .. Len(s) /\ b[i] = s[k + i]
      BY <1>1, <1>3
    <3> QED BY <1>1, <3>1 DEF ToSet
  <2> QED BY <1>2, <1>3, <2>1, <2>2 DEF ToSet
<1>6. ToSet(s) \subseteq ToSet(a) \cup ToSet(b)
  <2> SUFFICES ASSUME NEW i \in 1 .. Len(s) PROVE s[i] \in ToSet(a) \cup ToSet(b)
    BY <1>1 DEF ToSet
  <2>1. CASE i <= k
    BY <1>1, <1>2, <2>1 DEF ToSet
  <2>2. CASE i > k
    <3>1. i - k \in 1 .. Len(s) - k /\ k + (i - k) = i
      BY <1>1, <2>2
    <3> QED BY <1>3, <3>1 DEF ToSet
  <2> QED BY <1>1, <2>1, <2>2
<1>7. ToSet(a) \cap ToSet(b) = {}
  <2> SUFFICES ASSUME NEW i \in 1 .. k, NEW j \in 1 .. Len(s) - k PROVE a[i] # b[j]
    <3>1. ToSet(a) = {a[i] : i \in 1 .. k} /\ ToSet(b) = {b[j] : j \in 1 .. Len(s) - k}
      BY <1>2, <1>3 DEF ToSet
    <3> QED BY <3>1
  <2>0. a[i] = s[i] /\ b[j] = s[k + j]
    BY <1>2, <1>3
  <2>1. i \in 1 .. Len(s) /\ k + j \in 1 .. Len(s) /\ i # k + j
    BY <1>1
  <2> QED BY <1>1, <2>0, <2>1 DEF IsInjective
<1> QED BY <1>2, <1>4, <1>5, <1>6, <1>7 DEF a, b

LEMMA InsertFacts ==
  ASSUME NEW S, NEW s \in Seq(S), NEW x \in S, NEW at \in 1 .. Len(s) + 1
  PROVE  /\ InsertAt(s, at, x) \in Seq(S)
         /\ Len(InsertAt(s, at, x)) = Len(s) + 1
         /\ ToSet(InsertAt(s, at, x)) = ToSet(s) \cup {x}
         /\ IsInjective(s) /\ x \notin ToSet(s) => IsInjective(InsertAt(s, at, x))
<1> DEFINE u == InsertAt(s, at, x)
<1>1. Len(s) \in Nat /\ DOMAIN s = 1 .. Len(s) /\ at \in Nat /\ 1 <= at /\ at <= Len(s) + 1
  OBVIOUS
<1>2. /\ u \in Seq(S) /\ Len(u) = Len(s) + 1
      /\ DOMAIN u = 1 .. Len(s) + 1
      /\ \A j \in 1 .. Len(s) + 1 :
           u[j] = IF j < at THEN s[j] ELSE IF j = at THEN x ELSE s[j - 1]
  <2> DEFINE p == SubSeq(s, 1, at - 1)
             q == SubSeq(s, at, Len(s))
  <2>1. p \in Seq(S) /\ Len(p) = at - 1 /\ \A j \in 1 .. at - 1 : p[j] = s[j]
    BY <1>1
  <2>2. /\ q \in Seq(S) /\ Len(q) = Len(s) - at + 1
        /\ \A j \in 1 .. Len(s) - at + 1 : q[j] = s[at + j - 1]
    BY <1>1
  <2>3. u = (p \o <<x>>) \o q
    BY DEF InsertAt
  <2> HIDE DEF p, q, u
  <2>4. /\ p \o <<x>> \in Seq(S) /\ Len(p \o <<x>>) = at
        /\ \A j \in 1 .. at : (p \o <<x>>)[j] = IF j < at THEN s[j] ELSE x
    BY <1>1, <2>1
  <2> DEFINE w == p \o <<x>>
  <2>5. w \in Seq(S) /\ Len(w) = at /\ u = w \o q
    BY <2>3, <2>4
  <2>6. \A j \in 1 .. at : w[j] = IF j < at THEN s[j] ELSE x
    BY <2>4
  <2> HIDE DEF w
  <2>7. u \in Seq(S) /\ Len(u) = Len(s) + 1 /\ DOMAIN u = 1 .. Len(s) + 1
    <3>1. u \in Seq(S) /\ Len(u) = Len(w) + Len(q)
      BY <2>2, <2>5
    <3>2. Len(w) + Len(q) = Len(s) + 1
      BY <1>1, <2>2, <2>5
    <3> QED BY <3>1, <3>2
  <2>8. \A j \in 1 .. at : u[j] = w[j]
    BY <1>1, <2>2, <2>5
  <2>9. ASSUME NEW j \in 1 .. Len(s) + 1, j > at PROVE u[j] = s[j - 1]
    <3>1. j - at \in 1 .. Len(q) /\ at + (j - at) - 1 = j - 1
      BY <1>1, <2>2, <2>9
    <3>2. u[j] = q[j - at]
      BY <1>1, <2>2, <2>5, <2>9
    <3> QED BY <2>2, <3>1, <3>2
  <2> QED BY <1>1, <2>6, <2>7, <2>8, <2>9
<1> HIDE DEF u
<1>3. \A y \in ToSet(u) : y \in ToSet(s) \cup {x}
  BY <1>1, <1>2 DEF ToSet
<1>4. \A i \in 1 .. Len(s) : s[i] \in ToSet(u)
  <2> SUFFICES ASSUME NEW i \in 1 .. Len(s) PROVE s[i] \in ToSet(u)
    OBVIOUS
  <2>1. CASE i < at
    BY <1>1, <1>2, <2>1 DEF ToSet
  <2>2. CASE ~(i < at)
    <3>1. i + 1 \in 1 .. Len(s) + 1 /\ ~(i + 1 < at) /\ i + 1 # at /\ (i + 1) - 1 = i
      BY <1>1, <2>2
    <3>2. u[i + 1] = s[i]
      BY <1>2, <3>1
    <3> QED BY <1>2, <3>1, <3>2 DEF ToSet
  <2> QED BY <2>1, <2>2
<1>5. x \in ToSet(u)
  BY <1>1, <1>2 DEF ToSet
<1>6. ToSet(u) = ToSet(s) \cup {x}
  BY <1>1, <1>3, <1>4, <1>5 DEF ToSet
<1>7. ASSUME IsInjective(s), x \notin ToSet(s) PROVE IsInjective(u)
  <2> SUFFICES ASSUME NEW i \in 1 .. Len(s) + 1, NEW j \in 1 .. Len(s) + 1, u[i] = u[j]
               PROVE  i = j
    BY <1>2 DEF IsInjective
  <2>1. \A k \in 1 .. Len(s) : s[k] # x
    BY <1>1, <1>7 DEF ToSet
  <2>2. \A k, l \in 1 .. Len(s) : s[k] = s[l] => k = l
    BY <1>1, <1>7 DEF IsInjective
  <2> QED BY <1>1, <1>2, <2>1, <2>2
<1> QED BY <1>2, <1>6, <1>7 DEF u
(* The position of a kept member among the kept ones. *)
UpTo(kept, h) == {k \in kept : k <= h}

LEMMA UpToFacts ==
  ASSUME NEW n \in Nat, NEW kept \in SUBSET (1 .. n), NEW h \in kept
  PROVE  /\ IsFiniteSet(kept)
         /\ Cardinality(kept) \in Nat
         /\ Cardinality(UpTo(kept, h)) \in 1 .. Cardinality(kept)
<1>1. IsFiniteSet(kept)
  <2>1. IsFiniteSet(1 .. n)
    BY FS_Interval
  <2> QED BY <2>1, FS_Subset
<1>2. UpTo(kept, h) \subseteq kept /\ h \in UpTo(kept, h)
  BY DEF UpTo
<1>3. IsFiniteSet(UpTo(kept, h)) /\ Cardinality(UpTo(kept, h)) <= Cardinality(kept)
  BY <1>1, <1>2, FS_Subset
<1>4. Cardinality(UpTo(kept, h)) \in Nat /\ Cardinality(UpTo(kept, h)) # 0
      /\ Cardinality(kept) \in Nat
  BY <1>1, <1>2, <1>3, FS_CardinalityType, FS_EmptySet
<1> QED BY <1>1, <1>3, <1>4

LEMMA UpToGrows ==
  ASSUME NEW n \in Nat, NEW kept \in SUBSET (1 .. n), NEW g \in kept, NEW h \in kept, g < h
  PROVE  Cardinality(UpTo(kept, g)) < Cardinality(UpTo(kept, h))
<1>1. UpTo(kept, g) \subseteq UpTo(kept, h) /\ h \in UpTo(kept, h) /\ h \notin UpTo(kept, g)
  <2>1. \A k \in kept : k \in Int
    OBVIOUS
  <2>2. \A k \in kept : k <= g => k <= h
    BY <2>1
  <2>3. h <= h /\ ~(h <= g)
    BY <2>1
  <2> QED BY <2>2, <2>3 DEF UpTo
<1>2. IsFiniteSet(UpTo(kept, h))
  BY UpToFacts, FS_Subset DEF UpTo
<1>3. /\ Cardinality(UpTo(kept, g)) <= Cardinality(UpTo(kept, h))
      /\ Cardinality(UpTo(kept, g)) # Cardinality(UpTo(kept, h))
  <2>1. UpTo(kept, g) \in SUBSET UpTo(kept, h) /\ UpTo(kept, g) # UpTo(kept, h)
    BY <1>1
  <2> QED BY <1>2, <2>1, FS_Subset
<1>4. Cardinality(UpTo(kept, g)) \in Int /\ Cardinality(UpTo(kept, h)) \in Int
  <2>1. IsFiniteSet(UpTo(kept, g))
    BY <1>1, <1>2, FS_Subset
  <2> QED BY <1>2, <2>1, FS_CardinalityType
<1> QED BY <1>3, <1>4

(* Taking members out of a ring leaves exactly the others, each once. *)
LEMMA RemoveFacts ==
  ASSUME NEW S, NEW s \in Seq(S), NEW out
  PROVE  LET r == RingRemove(s, out)
         IN  /\ r \in Seq(S)
             /\ Len(r) = Cardinality({i \in 1 .. Len(s) : s[i] \notin out})
             /\ ToSet(r) = ToSet(s) \ out
             /\ IsInjective(s) => IsInjective(r)
<1> DEFINE r == RingRemove(s, out)
           kept == {i \in 1 .. Len(s) : s[i] \notin out}
           n == Cardinality(kept)
           rank == [h \in kept |-> Cardinality(UpTo(kept, h))]
           member == [i \in 1 .. n |-> CHOOSE h \in kept : Cardinality(UpTo(kept, h)) = i]
<1>1. /\ Len(s) \in Nat /\ DOMAIN s = 1 .. Len(s)
      /\ kept \in SUBSET (1 .. Len(s))
      /\ \A i \in 1 .. Len(s) : s[i] \in S
  OBVIOUS
<1>2. \A i \in 1 .. Len(s) : i \in kept <=> s[i] \notin out
  OBVIOUS
<1>3. r = [i \in 1 .. n |-> s[CHOOSE h \in kept : Cardinality(UpTo(kept, h)) = i]]
  BY DEF RingRemove, UpTo
<1> HIDE DEF kept
<1>4. IsFiniteSet(kept) /\ n \in Nat
  <2>1. IsFiniteSet(1 .. Len(s))
    BY <1>1, FS_Interval
  <2>2. IsFiniteSet(kept)
    BY <1>1, <2>1, FS_Subset
  <2> QED BY <2>2, FS_CardinalityType
<1>5. rank \in [kept -> 1 .. n]
  BY <1>1, UpToFacts
<1>6. ASSUME NEW g \in kept, NEW h \in kept, rank[g] = rank[h] PROVE g = h
  <2>1. Cardinality(UpTo(kept, g)) = Cardinality(UpTo(kept, h))
        /\ Cardinality(UpTo(kept, g)) \in Int
    <3>1. rank[g] = Cardinality(UpTo(kept, g)) /\ rank[h] = Cardinality(UpTo(kept, h))
      OBVIOUS
    <3> QED BY <1>4, <1>5, <1>6, <3>1
  <2>2. ~(g < h) /\ ~(h < g)
    <3> DEFINE l == Len(s)
    <3>1. l \in Nat /\ kept \in SUBSET (1 .. l)
      BY <1>1
    <3> HIDE DEF l
    <3>2. /\ g < h => Cardinality(UpTo(kept, g)) < Cardinality(UpTo(kept, h))
          /\ h < g => Cardinality(UpTo(kept, h)) < Cardinality(UpTo(kept, g))
      BY <3>1, UpToGrows
    <3> QED BY <2>1, <3>2
  <2> QED BY <1>1, <2>2
<1>7. rank \in Injection(kept, 1 .. n)
  BY <1>5, <1>6 DEF Injection, IsInjective
<1>8. IsFiniteSet(1 .. n) /\ Cardinality(1 .. n) = n
  BY <1>4, FS_Interval
<1>9. rank \in Surjection(kept, 1 .. n)
  BY <1>4, <1>7, <1>8, FS_Injection
<1>10. \A i \in 1 .. n : \E h \in kept : Cardinality(UpTo(kept, h)) = i
  BY <1>9 DEF Surjection
<1>11. \A i \in 1 .. n : member[i] \in kept /\ Cardinality(UpTo(kept, member[i])) = i
  BY <1>10
<1>12. \A i, j \in 1 .. n : member[i] = member[j] => i = j
  BY <1>11
<1>13. ASSUME NEW h \in kept PROVE \E i \in 1 .. n : member[i] = h
  <2>1. rank[h] \in 1 .. n /\ rank[h] = Cardinality(UpTo(kept, h))
    BY <1>5
  <2>2. member[rank[h]] \in kept /\ rank[member[rank[h]]] = rank[h]
    BY <1>11, <2>1
  <2> QED BY <1>6, <2>1, <2>2
<1>14. r = [i \in 1 .. n |-> s[member[i]]]
  BY <1>3
<1> HIDE DEF member, n, rank, r
<1>15. \A i \in 1 .. n : member[i] \in 1 .. Len(s) /\ s[member[i]] \notin out
  BY <1>1, <1>2, <1>11
<1>16. r \in [1 .. n -> S]
  BY <1>1, <1>14, <1>15
<1>17. r \in Seq(S) /\ Len(r) = n /\ DOMAIN r = 1 .. n
  BY <1>4, <1>16
<1>18. \A x \in ToSet(r) : x \in ToSet(s) \ out
  BY <1>1, <1>14, <1>15, <1>17 DEF ToSet
<1>19. ASSUME NEW x \in ToSet(s) \ out PROVE x \in ToSet(r)
  <2>1. PICK j \in 1 .. Len(s) : x = s[j]
    BY <1>1 DEF ToSet
  <2>2. PICK i \in 1 .. n : member[i] = j
    BY <1>2, <1>13, <2>1
  <2>3. r[i] = x
    BY <1>14, <2>1, <2>2
  <2> QED BY <1>17, <2>3 DEF ToSet
<1>20. IsInjective(s) => IsInjective(r)
  BY <1>1, <1>12, <1>14, <1>15, <1>17 DEF IsInjective
<1> QED BY <1>17, <1>18, <1>19, <1>20 DEF r, n, kept
-----------------------------------------------------------------------------
(* The invariant. *)

Places == {"none", "starting", "busy", "idle", "woken", "exited"}
States == {"TH_RUN", "TH_PROBATION", "TH_STOP"}

ClientState ==
  [op : {"none", "destroyed"}]
  \cup [op : {"cancel"}, at : {"wait"}, owned : SUBSET Tasks]
  \cup [op : {"idle_max_set"}, at : {"trim"}, cnt : Nat]
  \cup [op : {"destroy"}, at : {"terminate", "idle_max", "trim"}]
  \cup [op : {"idle_max_set"}, at : {"broadcast", "join"}, join : SUBSET Workers]
  \cup [op : {"destroy"}, at : {"broadcast", "join", "spin"}, join : SUBSET Workers]

Types ==
  /\ tasks \in Seq(Tasks) /\ scheduled \in Seq(Tasks)
  /\ task_idx \in [0 .. 3 -> Tasks \cup {NULL}]
  /\ due \in 0 .. Len(scheduled)
  /\ idle \in Seq(Workers)
  /\ loc \in [Workers -> Places]
  /\ state \in [Workers -> States]
  /\ cur \in [Workers -> Tasks \cup {NULL}]
  /\ client \in [Clients -> ClientState]
  /\ finished \subseteq Tasks /\ gone \subseteq Tasks

(* TaskInOnePlace, worker by worker. *)
OnePlace ==
  /\ accepted = Accounted
  /\ IsInjective(tasks) /\ IsInjective(scheduled)
  /\ ToSet(tasks) \cap ToSet(scheduled) = {}
  /\ Pending \cap (finished \cup gone) = {}
  /\ finished \cap gone = {}
  /\ \A w \in Workers :
       loc[w] = "busy" =>
         /\ cur[w] \in Tasks
         /\ cur[w] \notin Pending \cup finished \cup gone
         /\ \A v \in Workers : v # w /\ loc[v] = "busy" => cur[v] # cur[w]

(* While a cancel waits, the tasks it found have left the rings, and they  *)
(* cannot be submitted again.                                              *)
CancelledOut ==
  \A c \in Clients :
    client[c].op = "cancel" =>
      client[c].owned \subseteq Accounted \ Pending

(* The threads that client c has told to stop and has not joined. *)
Stopped(c) ==
  IF client[c].op \in {"idle_max_set", "destroy"} /\ client[c].at \in {"broadcast", "join"}
    THEN client[c].join ELSE {}

(* A thread that was told to stop is out of the idle ring, still there,    *)
(* and joined by one client only.                                          *)
Threads ==
  /\ IsInjective(idle)
  /\ \A w \in Workers : loc[w] \in {"idle", "woken"} =>
       (w \in ToSet(idle) <=> state[w] # "TH_STOP")
  /\ \A w \in ToSet(idle) :
       loc[w] \in {"idle", "woken", "exited"} /\ state[w] # "TH_STOP"
  /\ \A w \in Workers :
       state[w] = "TH_STOP" => loc[w] \in {"idle", "woken", "exited"}
  /\ \A c \in Clients : \A w \in Stopped(c) :
       /\ state[w] = "TH_STOP"
       /\ \A d \in Clients : d # c => w \notin Stopped(d)

Counted == thd_cnt = Cardinality(Alive)

Inv == Types /\ OnePlace /\ IndexNotDangling /\ CancelledOut /\ Threads /\ Counted

-----------------------------------------------------------------------------
(* The rings of tasks and the segment index. *)

LEMMA Segments == \A t \in Tasks : TASK_PRIORITY_SEG(t) \in 0 .. 3
BY PriorityAssumption DEF TASK_PRIORITY_SEG

(* An indexed task is found in the ring. *)
LEMMA PosFacts ==
  ASSUME Types, IndexNotDangling, NEW s \in 0 .. 3, task_idx[s] # NULL
  PROVE  /\ Pos(task_idx[s]) \in 1 .. Len(tasks)
         /\ tasks[Pos(task_idx[s])] = task_idx[s]
<1>1. \E i \in 1 .. Len(tasks) : tasks[i] = task_idx[s]
  <2>1. task_idx[s] \in ToSet(tasks) /\ tasks \in Seq(Tasks)
    BY DEF Types, IndexNotDangling
  <2> QED BY <2>1 DEF ToSet
<1> QED BY <1>1 DEF Pos

(* A new task is put somewhere in the ring or at its end. *)
LEMMA PlaceFacts ==
  ASSUME Types, IndexNotDangling, NEW t \in Tasks, NEW push \in BOOLEAN
  PROVE  Place(t, push) \in 1 .. Len(tasks) + 1
<1> DEFINE seg == TASK_PRIORITY_SEG(t)
<1>1. Len(tasks) \in Nat /\ seg \in 0 .. 3
  BY Segments DEF Types
<1>2. CASE task_idx[seg] # NULL
  <2> DEFINE from == Pos(task_idx[seg])
             fits == {j \in from .. Len(tasks) :
                        Priority[tasks[j]] < Priority[t]
                        \/ (~push /\ Priority[tasks[j]] = Priority[t])}
  <2>1. from \in 1 .. Len(tasks)
    BY <1>1, <1>2, PosFacts
  <2>2. fits \in SUBSET Nat /\ fits \subseteq 1 .. Len(tasks)
    BY <1>1, <2>1
  <2>3. Place(t, push) = IF fits = {} THEN Len(tasks) + 1
                         ELSE CHOOSE j \in fits : \A k \in fits : j <= k
    BY <1>2 DEF Place, PlaceFrom
  <2> HIDE DEF fits
  <2>4. fits # {} => \E j \in fits : \A k \in fits : j <= k
    BY <2>2, LeastNat
  <2>5. fits # {} => Place(t, push) \in fits
    BY <2>3, <2>4
  <2>6. CASE fits = {}
    BY <1>1, <2>3, <2>6
  <2>7. CASE fits # {}
    <3>1. Place(t, push) \in 1 .. Len(tasks)
      BY <2>2, <2>5, <2>7
    <3> QED BY <1>1, <3>1
  <2> QED BY <2>6, <2>7
<1>3. CASE task_idx[seg] = NULL /\ LowerSegs(seg) # {}
  <2> DEFINE L == LowerSegs(seg)
             low == CHOOSE s \in L : \A r \in L : r <= s
             flip == {3 - s : s \in L}
  <2>1. L \subseteq 0 .. 3 /\ \A s \in L : task_idx[s] # NULL
    BY DEF LowerSegs
  <2>2. Place(t, push) = Pos(task_idx[low])
    BY <1>3 DEF Place
  <2>3. flip \in SUBSET Nat /\ flip # {}
    BY <1>3, <2>1
  <2>4. PICK m \in flip : \A k \in flip : m <= k
    BY <2>3, LeastNat
  <2>5. \E s \in L : \A r \in L : r <= s
    <3>1. PICK s \in L : m = 3 - s
      BY <2>4
    <3>2. \A r \in L : 3 - s <= 3 - r
      BY <2>4, <3>1
    <3>3. \A r \in L : r <= s
      BY <2>1, <3>2
    <3> QED BY <3>3
  <2>6. low \in L
    BY <2>5
  <2> QED BY <1>1, <2>1, <2>2, <2>6, PosFacts
<1>4. CASE task_idx[seg] = NULL /\ LowerSegs(seg) = {}
  BY <1>1, <1>4 DEF Place
<1> QED BY <1>2, <1>3, <1>4

LEMMA InsertTaskFacts ==
  ASSUME Types, OnePlace, IndexNotDangling, NEW t \in Tasks, NEW push \in BOOLEAN,
         t \notin ToSet(tasks), InsertTask(t, push)
  PROVE  /\ tasks' \in Seq(Tasks) /\ IsInjective(tasks')
         /\ ToSet(tasks') = ToSet(tasks) \cup {t}
         /\ task_idx' \in [0 .. 3 -> Tasks \cup {NULL}]
         /\ IndexNotDangling'
<1>1. tasks' = InsertAt(tasks, Place(t, push), t) /\ Place(t, push) \in 1 .. Len(tasks) + 1
  BY PlaceFacts DEF InsertTask
<1>2. /\ tasks' \in Seq(Tasks) /\ IsInjective(tasks')
      /\ ToSet(tasks') = ToSet(tasks) \cup {t}
  BY <1>1, InsertFacts DEF Types, OnePlace
<1>3. \/ task_idx' = task_idx
      \/ task_idx' = [task_idx EXCEPT ![TASK_PRIORITY_SEG(t)] = t]
  BY DEF InsertTask
<1>4. task_idx \in [0 .. 3 -> Tasks \cup {NULL}] /\ TASK_PRIORITY_SEG(t) \in 0 .. 3
  BY Segments DEF Types
<1>5. IndexNotDangling'
  BY <1>2, <1>3, <1>4 DEF IndexNotDangling
<1> QED BY <1>2, <1>3, <1>4, <1>5

(* The task that is popped leaves its ring. *)
LEMMA PopFacts ==
  ASSUME Types, OnePlace, IndexNotDangling, HasTask, pop_task
  PROVE  /\ tasks' \in Seq(Tasks) /\ IsInjective(tasks')
         /\ scheduled' \in Seq(Tasks) /\ IsInjective(scheduled')
         /\ NextTask \in Pending
         /\ ToSet(tasks') = ToSet(tasks) \ {NextTask}
         /\ ToSet(scheduled') = ToSet(scheduled) \ {NextTask}
         /\ due' \in 0 .. Len(scheduled')
         /\ task_idx' \in [0 .. 3 -> Tasks \cup {NULL}]
         /\ IndexNotDangling'
<1>1. /\ tasks \in Seq(Tasks) /\ scheduled \in Seq(Tasks)
      /\ IsInjective(tasks) /\ IsInjective(scheduled)
      /\ ToSet(tasks) \cap ToSet(scheduled) = {}
      /\ Len(scheduled) \in Nat /\ due \in Nat /\ due <= Len(scheduled)
      /\ task_idx \in [0 .. 3 -> Tasks \cup {NULL}]
  BY DEF Types, OnePlace
<1>2. CASE due > 0
  <2>1. scheduled # << >>
    BY <1>1, <1>2
  <2>2. /\ scheduled' = Tail(scheduled) /\ due' = due - 1
        /\ tasks' = tasks /\ task_idx' = task_idx /\ NextTask = Head(scheduled)
    BY <1>2 DEF pop_task, NextTask
  <2>3. /\ scheduled' \in Seq(Tasks) /\ IsInjective(scheduled')
        /\ NextTask \in ToSet(scheduled)
        /\ ToSet(scheduled') = ToSet(scheduled) \ {NextTask}
        /\ Len(scheduled') = Len(scheduled) - 1
    BY <1>1, <2>1, <2>2, TailFacts
  <2>4. due' \in 0 .. Len(scheduled')
    BY <1>1, <1>2, <2>2, <2>3
  <2>5. ToSet(tasks') = ToSet(tasks) \ {NextTask} /\ NextTask \in Pending
    BY <1>1, <2>2, <2>3 DEF Pending
  <2>6. IndexNotDangling'
    BY <2>2 DEF IndexNotDangling
  <2> QED BY <1>1, <2>2, <2>3, <2>4, <2>5, <2>6
<1>3. CASE ~(due > 0)
  <2> DEFINE h == Head(tasks)
             seg == TASK_PRIORITY_SEG(h)
  <2>1. tasks # << >>
    BY <1>3 DEF HasTask
  <2>2. /\ tasks' = Tail(tasks) /\ task_idx' = Unindexed
        /\ scheduled' = scheduled /\ due' = due /\ NextTask = h
    BY <1>3 DEF pop_task, NextTask
  <2>3. /\ tasks' \in Seq(Tasks) /\ IsInjective(tasks')
        /\ h \in ToSet(tasks) /\ h = tasks[1]
        /\ ToSet(tasks') = ToSet(tasks) \ {h}
        /\ Len(tasks) \in Nat \ {0}
    BY <1>1, <2>1, <2>2, TailFacts
  <2>4. ToSet(scheduled') = ToSet(scheduled) \ {NextTask} /\ NextTask \in Pending
    BY <1>1, <2>2, <2>3 DEF Pending
  <2>5. seg \in 0 .. 3 /\ h \in Tasks
    BY <1>1, <2>3, ToSetDef, Segments
  <2>6. Len(tasks) > 1 => tasks[2] \in ToSet(tasks) \ {h} /\ tasks[2] \in Tasks
    BY <1>1, <2>3 DEF ToSet, IsInjective
  <2>7. \/ task_idx' = task_idx /\ task_idx[seg] # h
        \/ task_idx' = [task_idx EXCEPT ![seg] = NULL]
        \/ /\ Len(tasks) > 1 /\ TASK_PRIORITY_SEG(tasks[2]) = seg
           /\ task_idx' = [task_idx EXCEPT ![seg] = tasks[2]]
    BY <2>2 DEF Unindexed
  <2> HIDE DEF h, seg
  <2>8. task_idx' \in [0 .. 3 -> Tasks \cup {NULL}]
    BY <1>1, <2>5, <2>6, <2>7
  <2>9. ASSUME NEW s \in 0 .. 3, task_idx'[s] # NULL
        PROVE  task_idx'[s] \in ToSet(tasks') /\ TASK_PRIORITY_SEG(task_idx'[s]) = s
    <3>1. CASE s = seg /\ task_idx' # task_idx
      BY <1>1, <2>3, <2>5, <2>6, <2>7, <2>9, <3>1
    <3>2. CASE s # seg
      <4>1. task_idx'[s] = task_idx[s]
        BY <1>1, <2>5, <2>7, <3>2
      <4>2. task_idx[s] \in ToSet(tasks) /\ TASK_PRIORITY_SEG(task_idx[s]) = s
        BY <2>9, <4>1 DEF IndexNotDangling
      <4>3. task_idx[s] # h
        BY <3>2, <4>2 DEF seg
      <4> QED BY <2>3, <4>1, <4>2, <4>3
    <3>3. CASE s = seg /\ task_idx' = task_idx
      <4>1. task_idx[s] # h
        BY <1>1, <2>3, <2>5, <2>6, <2>7, <2>9, <3>3, NullAssumption
      <4> QED BY <2>3, <2>9, <3>3, <4>1 DEF IndexNotDangling
    <3> QED BY <3>1, <3>2, <3>3
  <2>10. IndexNotDangling'
    BY <2>9 DEF IndexNotDangling, TASK_PRIORITY_SEG
  <2>11. due' \in 0 .. Len(scheduled')
    BY <1>1, <2>2
  <2> QED BY <1>1, <2>2, <2>3, <2>4, <2>8, <2>10, <2>11
<1> QED BY <1>2, <1>3
(* What remove_tasks and remove_scheduled_tasks leave. *)
LEMMA RemovalFacts ==
  ASSUME Types, OnePlace, IndexNotDangling, NEW c \in Clients, NEW o, tasks_cancel(c, o)
  PROVE  /\ tasks' \in Seq(Tasks) /\ IsInjective(tasks')
         /\ scheduled' \in Seq(Tasks) /\ IsInjective(scheduled')
         /\ ToSet(tasks') = ToSet(tasks) \ OwnedBy(o)
         /\ ToSet(scheduled') = ToSet(scheduled) \ OwnedBy(o)
         /\ due' \in 0 .. Len(scheduled')
         /\ task_idx' \in [0 .. 3 -> Tasks \cup {NULL}]
         /\ IndexNotDangling'
<1>1. /\ tasks \in Seq(Tasks) /\ scheduled \in Seq(Tasks)
      /\ IsInjective(tasks) /\ IsInjective(scheduled)
      /\ Len(scheduled) \in Nat /\ due \in Nat /\ due <= Len(scheduled)
      /\ Len(tasks) \in Nat
  BY DEF Types, OnePlace
<1>2. /\ tasks' = RingRemove(tasks, OwnedBy(o))
      /\ scheduled' = RingRemove(scheduled, OwnedBy(o))
      /\ due' = Cardinality({i \in 1 .. due : Owner[scheduled[i]] # o})
      /\ task_idx' = [seg \in 0 .. 3 |-> IndexAfterRemoval(o, seg)]
  BY DEF tasks_cancel
<1>3. /\ tasks' \in Seq(Tasks) /\ IsInjective(tasks')
      /\ ToSet(tasks') = ToSet(tasks) \ OwnedBy(o)
  BY <1>1, <1>2, RemoveFacts
<1>4. /\ scheduled' \in Seq(Tasks) /\ IsInjective(scheduled')
      /\ ToSet(scheduled') = ToSet(scheduled) \ OwnedBy(o)
      /\ Len(scheduled') = Cardinality({i \in 1 .. Len(scheduled) : scheduled[i] \notin OwnedBy(o)})
  BY <1>1, <1>2, RemoveFacts
<1>5. due' \in 0 .. Len(scheduled')
  <2> DEFINE A == {i \in 1 .. due : Owner[scheduled[i]] # o}
             B == {i \in 1 .. Len(scheduled) : scheduled[i] \notin OwnedBy(o)}
  <2>1. IsFiniteSet(1 .. Len(scheduled))
    BY <1>1, FS_Interval
  <2>2. B \in SUBSET (1 .. Len(scheduled))
    OBVIOUS
  <2>3. IsFiniteSet(B)
    BY <2>1, <2>2, FS_Subset
  <2>4. A \in SUBSET B
    BY <1>1 DEF OwnedBy
  <2> HIDE DEF A, B
  <2>5. IsFiniteSet(A) /\ Cardinality(A) <= Cardinality(B)
    BY <2>3, <2>4, FS_Subset
  <2>6. Cardinality(A) \in Nat /\ Cardinality(B) \in Nat
    BY <2>3, <2>5, FS_CardinalityType
  <2>7. due' = Cardinality(A) /\ Len(scheduled') = Cardinality(B)
    BY <1>2, <1>4 DEF A, B
  <2> QED BY <2>5, <2>6, <2>7
<1>6. ASSUME NEW s \in 0 .. 3, IndexAfterRemoval(o, s) # NULL
      PROVE  /\ IndexAfterRemoval(o, s) \in ToSet(tasks) \ OwnedBy(o)
             /\ TASK_PRIORITY_SEG(IndexAfterRemoval(o, s)) = s
  <2> DEFINE from == Pos(task_idx[s])
             kept == {j \in from .. Len(tasks) :
                        /\ \A k \in from .. j : TASK_PRIORITY_SEG(tasks[k]) = s
                        /\ \A k \in from .. j : Owner[tasks[k]] = o <=> k < j}
             j == CHOOSE j \in kept : TRUE
  <2>1. task_idx[s] # NULL /\ kept # {} /\ IndexAfterRemoval(o, s) = tasks[j]
    BY <1>6 DEF IndexAfterRemoval
  <2>2. from \in 1 .. Len(tasks)
    BY <2>1, PosFacts
  <2>3. j \in kept
    BY <2>1
  <2>4. /\ j \in from .. Len(tasks)
        /\ \A k \in from .. j : TASK_PRIORITY_SEG(tasks[k]) = s
        /\ \A k \in from .. j : Owner[tasks[k]] = o <=> k < j
    BY <2>3
  <2> HIDE DEF j, kept, from
  <2>5. j \in 1 .. Len(tasks) /\ j \in from .. j /\ ~(j < j)
    BY <1>1, <2>2, <2>4
  <2>6. TASK_PRIORITY_SEG(tasks[j]) = s /\ Owner[tasks[j]] # o
    BY <2>4, <2>5
  <2>7. tasks[j] \in ToSet(tasks)
    BY <1>1, <2>5 DEF ToSet
  <2> QED BY <2>1, <2>6, <2>7 DEF OwnedBy
<1>7. task_idx' \in [0 .. 3 -> Tasks \cup {NULL}]
  BY <1>1, <1>2, <1>6, ToSetDef
<1>8. IndexNotDangling'
  <2> SUFFICES ASSUME NEW s \in 0 .. 3, task_idx'[s] # NULL
               PROVE  task_idx'[s] \in ToSet(tasks') /\ TASK_PRIORITY_SEG(task_idx'[s]) = s
    BY DEF IndexNotDangling, TASK_PRIORITY_SEG
  <2>1. task_idx'[s] = IndexAfterRemoval(o, s)
    BY <1>2
  <2> HIDE DEF tasks_cancel
  <2> QED BY <1>3, <1>6, <2>1
<1> QED BY <1>3, <1>4, <1>5, <1>7, <1>8

-----------------------------------------------------------------------------
(* Tasks on their way. *)

(* A step that changes neither the rings nor what the workers run. *)
LEMMA TasksFrame ==
  ASSUME OnePlace, tasks' = tasks, scheduled' = scheduled, cur' = cur,
         finished' = finished, gone' = gone, accepted' = accepted,
         \A w \in Workers : loc'[w] = "busy" <=> loc[w] = "busy"
  PROVE  OnePlace' /\ Pending' = Pending /\ Accounted' = Accounted
<1>1. Pending' = Pending
  BY DEF Pending
<1>2. Running' = Running
  BY DEF Running
<1>3. Accounted' = Accounted
  BY <1>1, <1>2 DEF Accounted
<1>4. OnePlace'
  BY <1>1, <1>3 DEF OnePlace
<1> QED BY <1>1, <1>3, <1>4

(* A task that no place knows is put into one of the rings. *)
LEMMA TasksSubmit ==
  ASSUME Types, OnePlace, NEW t \in Tasks, t \notin Accounted,
         \/ /\ IsInjective(tasks') /\ ToSet(tasks') = ToSet(tasks) \cup {t}
            /\ scheduled' = scheduled
         \/ /\ IsInjective(scheduled') /\ ToSet(scheduled') = ToSet(scheduled) \cup {t}
            /\ tasks' = tasks,
         cur' = cur, finished' = finished, gone' = gone, accepted' = accepted \cup {t},
         \A w \in Workers : loc'[w] = "busy" <=> loc[w] = "busy"
  PROVE  OnePlace' /\ Pending' = Pending \cup {t} /\ Accounted' = Accounted \cup {t}
<1>1. Pending' = Pending \cup {t}
  BY DEF Pending
<1>2. Running' = Running
  BY DEF Running
<1>3. /\ t \notin ToSet(tasks) /\ t \notin ToSet(scheduled)
      /\ t \notin finished /\ t \notin gone
      /\ \A w \in Workers : loc[w] = "busy" => cur[w] # t
  BY DEF Accounted, Pending, Running
<1>4. IsInjective(tasks') /\ IsInjective(scheduled')
  BY DEF OnePlace
<1>5. ToSet(tasks') \cap ToSet(scheduled') = {}
  BY <1>3 DEF OnePlace
<1>6. /\ Pending' \cap (finished \cup gone)' = {}
      /\ (finished \cap gone)' = {}
  BY <1>1, <1>3 DEF OnePlace
<1>7. ASSUME NEW w \in Workers, loc'[w] = "busy"
      PROVE  /\ cur'[w] \in Tasks
             /\ cur'[w] \notin Pending' \cup finished' \cup gone'
             /\ \A v \in Workers : v # w /\ loc'[v] = "busy" => cur'[v] # cur'[w]
  <2>1. /\ cur[w] \in Tasks
        /\ cur[w] \notin Pending \cup finished \cup gone
        /\ \A v \in Workers : v # w /\ loc[v] = "busy" => cur[v] # cur[w]
    BY <1>7 DEF OnePlace
  <2> QED BY <1>1, <1>3, <1>7, <2>1
<1>8. Accounted' = Accounted \cup {t}
  BY <1>1, <1>2 DEF Accounted
<1>9. accepted' = Accounted'
  BY <1>8 DEF OnePlace
<1>10. OnePlace'
  BY <1>4, <1>5, <1>6, <1>7, <1>9 DEF OnePlace
<1> QED BY <1>1, <1>8, <1>10

(* Tasks are taken out of the rings without being run. *)
LEMMA TasksDrop ==
  ASSUME OnePlace, NEW out,
         IsInjective(tasks'), IsInjective(scheduled'),
         ToSet(tasks') = ToSet(tasks) \ out, ToSet(scheduled') = ToSet(scheduled) \ out,
         gone' = gone \cup (Pending \cap out),
         cur' = cur, finished' = finished, accepted' = accepted,
         \A w \in Workers : loc'[w] = "busy" <=> loc[w] = "busy"
  PROVE  OnePlace' /\ Pending' = Pending \ out /\ Accounted' = Accounted
<1>1. Pending' = Pending \ out
  BY DEF Pending
<1>2. Running' = Running
  BY DEF Running
<1>3. ToSet(tasks') \cap ToSet(scheduled') = {}
  BY DEF OnePlace
<1>4. /\ Pending' \cap (finished \cup gone)' = {}
      /\ (finished \cap gone)' = {}
  BY <1>1 DEF OnePlace
<1>5. ASSUME NEW w \in Workers, loc'[w] = "busy"
      PROVE  /\ cur'[w] \in Tasks
             /\ cur'[w] \notin Pending' \cup finished' \cup gone'
             /\ \A v \in Workers : v # w /\ loc'[v] = "busy" => cur'[v] # cur'[w]
  <2>1. /\ cur[w] \in Tasks
        /\ cur[w] \notin Pending \cup finished \cup gone
        /\ \A v \in Workers : v # w /\ loc[v] = "busy" => cur[v] # cur[w]
    BY <1>5 DEF OnePlace
  <2> QED BY <1>1, <1>5, <2>1
<1>6. Accounted' = Accounted
  BY <1>1, <1>2 DEF Accounted
<1>7. OnePlace'
  BY <1>3, <1>4, <1>5, <1>6 DEF OnePlace
<1> QED BY <1>1, <1>6, <1>7
(* What a worker's critical section does to the tasks: it runs one, drops  *)
(* one, or finds none.                                                     *)
Runs(w) ==
  /\ HasTask /\ pop_task
  /\ loc' = [loc EXCEPT ![w] = "busy"] /\ cur' = [cur EXCEPT ![w] = NextTask]
  /\ gone' = gone

Drops(w) ==
  /\ HasTask /\ pop_task
  /\ loc' = [loc EXCEPT ![w] = "none"] /\ cur' = [cur EXCEPT ![w] = NULL]
  /\ gone' = gone \cup {NextTask}

FindsNone(w) ==
  /\ tasks' = tasks /\ task_idx' = task_idx /\ scheduled' = scheduled
  /\ due' = due \/ (scheduled # << >> /\ due' = 1)
  /\ \E l \in {"none", "idle"} : loc' = [loc EXCEPT ![w] = l]
  /\ cur' = [cur EXCEPT ![w] = NULL]
  /\ gone' = gone

(* And to the threads: the worker works on, leaves or falls asleep. *)
WorksOn(w, i) ==
  /\ loc' = [loc EXCEPT ![w] = "busy"] /\ state' = state /\ idle' = i
  /\ thd_cnt' = thd_cnt

Leaves(w, i) ==
  /\ loc' = [loc EXCEPT ![w] = "none"] /\ state' = [state EXCEPT ![w] = "TH_RUN"]
  /\ idle' = i /\ thd_cnt' = thd_cnt - 1

FallsAsleep(w, i) ==
  /\ loc' = [loc EXCEPT ![w] = "idle"]
  /\ state[w] = "TH_RUN"
  /\ \E e \in {"TH_RUN", "TH_PROBATION"} : state' = [state EXCEPT ![w] = e]
  /\ idle' = Append(i, w) /\ thd_cnt' = thd_cnt

LEMMA WorkForms ==
  ASSUME Types, NEW w \in Workers, NEW i, NEW stop, Work(w, i, stop)
  PROVE  /\ Runs(w) \/ Drops(w) \/ FindsNone(w)
         /\ WorksOn(w, i) \/ Leaves(w, i) \/ FallsAsleep(w, i)
<1>1. CASE HasTask /\ ~stop
  BY <1>1 DEF Work, Runs, WorksOn
<1>2. CASE HasTask /\ stop
  BY <1>2 DEF Work, Drops, Leaves, Leave
<1>3. CASE ~HasTask /\ Leave(w, i) /\ UNCHANGED <<queues, gone>>
  BY <1>3 DEF Leave, Leaves, FindsNone, queues
<1>4. CASE ~HasTask /\ Sleep(w, i) /\ state[w] = "TH_RUN"
  <2>1. FindsNone(w)
    BY <1>4 DEF Sleep, FindsNone
  <2>2. state = [state EXCEPT ![w] = "TH_RUN"]
    BY <1>4 DEF Types
  <2>3. state' = state \/ state' = [state EXCEPT ![w] = "TH_PROBATION"]
    BY <1>4 DEF Sleep
  <2>4. FallsAsleep(w, i)
    BY <1>4, <2>2, <2>3 DEF Sleep, FallsAsleep
  <2> QED BY <2>1, <2>4
<1> QED BY <1>1, <1>2, <1>3, <1>4 DEF Work

(* A worker takes its next task, and the one it ran, if any, is finished. *)
LEMMA WorkTasks ==
  ASSUME Types, OnePlace, IndexNotDangling, NEW w \in Workers,
         Runs(w) \/ Drops(w) \/ FindsNone(w),
         finished' = IF loc[w] = "busy" THEN finished \cup {cur[w]} ELSE finished,
         accepted' = accepted
  PROVE  /\ tasks' \in Seq(Tasks) /\ scheduled' \in Seq(Tasks)
         /\ task_idx' \in [0 .. 3 -> Tasks \cup {NULL}]
         /\ due' \in 0 .. Len(scheduled')
         /\ loc' \in [Workers -> Places]
         /\ cur' \in [Workers -> Tasks \cup {NULL}]
         /\ finished' \subseteq Tasks /\ gone' \subseteq Tasks
         /\ OnePlace' /\ IndexNotDangling'
         /\ Pending' \subseteq Pending /\ Accounted' = Accounted
<1> DEFINE done == IF loc[w] = "busy" THEN {cur[w]} ELSE {}
           took == IF Runs(w) \/ Drops(w) THEN {NextTask} ELSE {}
<1>1. /\ tasks \in Seq(Tasks) /\ scheduled \in Seq(Tasks)
      /\ task_idx \in [0 .. 3 -> Tasks \cup {NULL}]
      /\ due \in 0 .. Len(scheduled)
      /\ loc \in [Workers -> Places]
      /\ cur \in [Workers -> Tasks \cup {NULL}]
      /\ finished \subseteq Tasks /\ gone \subseteq Tasks
  BY DEF Types
<1>2. /\ done \subseteq Tasks /\ finished' = finished \cup done
      /\ done \cap (Pending \cup finished \cup gone) = {}
  BY DEF OnePlace
<1>3. /\ tasks' \in Seq(Tasks) /\ scheduled' \in Seq(Tasks)
      /\ IsInjective(tasks') /\ IsInjective(scheduled')
      /\ task_idx' \in [0 .. 3 -> Tasks \cup {NULL}]
      /\ due' \in 0 .. Len(scheduled')
      /\ IndexNotDangling'
      /\ ToSet(tasks') = ToSet(tasks) \ took
      /\ ToSet(scheduled') = ToSet(scheduled) \ took
      /\ took \subseteq Pending
  <2>1. CASE Runs(w) \/ Drops(w)
    <3>1. HasTask /\ pop_task /\ took = {NextTask}
      BY <2>1 DEF Runs, Drops
    <3> QED BY <3>1, PopFacts
  <2>2. CASE ~(Runs(w) \/ Drops(w))
    <3>1. /\ tasks' = tasks /\ task_idx' = task_idx /\ scheduled' = scheduled
          /\ due' = due \/ (scheduled # << >> /\ due' = 1)
      BY <2>2 DEF FindsNone
    <3>2. due' \in 0 .. Len(scheduled')
      BY <1>1, <3>1
    <3> QED BY <1>1, <2>2, <3>1, <3>2 DEF OnePlace, IndexNotDangling
  <2> QED BY <2>1, <2>2
<1>4. /\ Pending' = Pending \ took
      /\ Pending \subseteq Tasks
  BY <1>1, <1>3, ToSetDef DEF Pending
<1>5. \/ /\ loc' = [loc EXCEPT ![w] = "busy"] /\ gone' = gone
         /\ cur' = [cur EXCEPT ![w] = NextTask] /\ took = {NextTask}
      \/ /\ \E l \in {"none", "idle"} : loc' = [loc EXCEPT ![w] = l]
         /\ cur' = [cur EXCEPT ![w] = NULL] /\ gone' = gone \cup took
  BY DEF Runs, Drops, FindsNone
<1> HIDE DEF done, took
<1>6. took \subseteq Tasks /\ gone \subseteq gone' /\ gone' \subseteq gone \cup took
  BY <1>3, <1>4, <1>5
<1>7. loc' \in [Workers -> Places] /\ cur' \in [Workers -> Tasks \cup {NULL}]
  <2>1. loc' \in [Workers -> Places]
    BY <1>1, <1>5 DEF Places
  <2>2. cur' \in [Workers -> Tasks \cup {NULL}]
    BY <1>1, <1>5, <1>6
  <2> QED BY <2>1, <2>2
<1>8. \A v \in Workers : v # w => loc'[v] = loc[v] /\ cur'[v] = cur[v]
  BY <1>1, <1>5
<1>9. loc'[w] = "busy" => took = {cur'[w]} /\ gone' = gone
  BY <1>1, <1>5
<1>10. \A v \in Workers : v # w /\ loc[v] = "busy" => cur[v] \notin done
  BY DEF OnePlace, done
<1>11. /\ Pending' \cap (finished' \cup gone') = {}
       /\ finished' \cap gone' = {}
  BY <1>2, <1>3, <1>4, <1>6 DEF OnePlace
<1>12. ASSUME NEW v \in Workers, loc'[v] = "busy"
       PROVE  /\ cur'[v] \in Tasks
              /\ cur'[v] \notin Pending' \cup finished' \cup gone'
              /\ \A u \in Workers : u # v /\ loc'[u] = "busy" => cur'[u] # cur'[v]
  <2>1. CASE v = w
    <3>1. cur'[w] \in took /\ gone' = gone /\ took = {cur'[w]}
      BY <1>9, <1>12, <2>1
    <3>2. cur'[w] \in Tasks /\ cur'[w] \in Pending /\ cur'[w] \notin Pending'
      BY <1>3, <1>4, <3>1
    <3>3. cur'[w] \notin finished' \cup gone'
      BY <1>2, <3>1, <3>2 DEF OnePlace
    <3>4. \A u \in Workers : u # w /\ loc'[u] = "busy" => cur'[u] # cur'[w]
      BY <1>8, <3>2 DEF OnePlace
    <3> QED BY <2>1, <3>2, <3>3, <3>4
  <2>2. CASE v # w
    <3>1. loc[v] = "busy" /\ cur'[v] = cur[v] /\ cur[v] \notin done
      BY <1>8, <1>10, <1>12, <2>2
    <3>2. /\ cur[v] \in Tasks
          /\ cur[v] \notin Pending \cup finished \cup gone
          /\ \A u \in Workers : u # v /\ loc[u] = "busy" => cur[u] # cur[v]
      BY <3>1 DEF OnePlace
    <3>3. cur[v] \notin Pending' \cup finished' \cup gone'
      BY <1>2, <1>3, <1>4, <1>6, <3>1, <3>2
    <3>4. ASSUME NEW u \in Workers, u # v, loc'[u] = "busy" PROVE cur'[u] # cur'[v]
      <4>1. CASE u = w
        BY <1>3, <1>9, <3>1, <3>2, <3>4, <4>1
      <4>2. CASE u # w
        BY <1>8, <3>1, <3>2, <3>4, <4>2
      <4> QED BY <4>1, <4>2
    <3> QED BY <3>1, <3>2, <3>3, <3>4
  <2> QED BY <2>1, <2>2
<1>13. Accounted \subseteq Accounted'
  <2> SUFFICES ASSUME NEW t \in Accounted PROVE t \in Accounted'
    OBVIOUS
  <2>1. CASE t \in finished \cup gone
    BY <1>2, <1>6, <2>1 DEF Accounted
  <2>2. CASE t \in Running
    <3>1. PICK v \in Workers : loc[v] = "busy" /\ t = cur[v]
      BY <2>2 DEF Running
    <3>2. CASE v = w
      BY <1>2, <3>1, <3>2 DEF Accounted, done
    <3>3. CASE v # w
      <4>1. loc'[v] = "busy" /\ cur'[v] = t
        BY <1>8, <3>1, <3>3
      <4> QED BY <4>1 DEF Accounted, Running
    <3> QED BY <3>2, <3>3
  <2>3. CASE t \in Pending
    <3>1. CASE t \notin took
      BY <1>4, <2>3, <3>1 DEF Accounted
    <3>2. CASE t \in took /\ loc'[w] = "busy"
      BY <1>9, <3>2 DEF Accounted, Running
    <3>3. CASE t \in took /\ loc'[w] # "busy"
      <4>1. took \subseteq gone'
        BY <1>1, <1>5, <3>3
      <4> QED BY <3>3, <4>1 DEF Accounted
    <3> QED BY <3>1, <3>2, <3>3
  <2> QED BY <2>1, <2>2, <2>3 DEF Accounted
<1>14. Accounted' \subseteq Accounted
  <2>1. took \cup done \subseteq Accounted
    BY <1>3 DEF Accounted, Running, done
  <2>2. Running' \subseteq Running \cup took
    <3> SUFFICES ASSUME NEW v \in Workers, loc'[v] = "busy"
                 PROVE  cur'[v] \in Running \cup took
      BY DEF Running
    <3>1. CASE v = w
      BY <1>9, <3>1
    <3>2. CASE v # w
      BY <1>8, <3>2 DEF Running
    <3> QED BY <3>1, <3>2
  <2> QED BY <1>2, <1>4, <1>6, <2>1, <2>2 DEF Accounted
<1>15. Accounted' = Accounted
  BY <1>13, <1>14
<1>16. OnePlace'
  <2>1. ToSet(tasks') \cap ToSet(scheduled') = {}
    BY <1>3 DEF OnePlace
  <2>2. accepted' = Accounted'
    BY <1>15 DEF OnePlace
  <2> QED BY <1>3, <1>11, <1>12, <2>1, <2>2 DEF OnePlace
<1>17. finished' \subseteq Tasks /\ gone' \subseteq Tasks
  BY <1>1, <1>2, <1>6
<1> QED BY <1>3, <1>4, <1>7, <1>15, <1>16, <1>17
-----------------------------------------------------------------------------
(* The threads. *)

SameStopped == \A c \in Clients : Stopped(c)' = Stopped(c)

LEMMA StoppedWorkers == ASSUME Types, NEW c \in Clients PROVE Stopped(c) \subseteq Workers
<1>1. client[c] \in ClientState
  BY DEF Types
<1> QED BY <1>1 DEF Stopped, ClientState

LEMMA AliveFinite == IsFiniteSet(Alive) /\ Cardinality(Alive) \in Nat
<1>1. Alive \in SUBSET Workers
  BY DEF Alive
<1>2. IsFiniteSet(Alive)
  BY <1>1, WorkersAssumption, FS_Subset
<1> QED BY <1>2, FS_CardinalityType

(* A signal or a broadcast wakes sleeping threads, and a thread may start. *)
LEMMA ThreadsWake ==
  ASSUME Types, Threads, SameStopped, loc' \in [Workers -> Places],
         \A v \in Workers : \/ loc'[v] = loc[v]
                            \/ loc[v] = "idle" /\ loc'[v] = "woken"
                            \/ loc[v] = "none" /\ loc'[v] = "starting",
         idle' = idle, state' = state
  PROVE  Threads'
<1>1. IsInjective(idle') /\ ToSet(idle') = ToSet(idle) /\ ToSet(idle) \subseteq Workers
  BY ToSetDef DEF Threads, Types
<1>2. \A w \in Workers : loc'[w] \in {"idle", "woken"} =>
        (w \in ToSet(idle') <=> state'[w] # "TH_STOP")
  BY <1>1 DEF Threads
<1>3. \A w \in ToSet(idle') :
        loc'[w] \in {"idle", "woken", "exited"} /\ state'[w] # "TH_STOP"
  BY <1>1 DEF Threads
<1>4. \A w \in Workers :
        state'[w] = "TH_STOP" => loc'[w] \in {"idle", "woken", "exited"}
  BY DEF Threads
<1>5. \A c \in Clients : \A w \in Stopped(c)' :
        /\ state'[w] = "TH_STOP"
        /\ \A d \in Clients : d # c => w \notin Stopped(d)'
  BY DEF Threads, SameStopped
<1> QED BY <1>1, <1>2, <1>3, <1>4, <1>5 DEF Threads

(* A worker at work: i is the idle ring without it. *)
LEMMA WorkThreads ==
  ASSUME Types, Threads, Counted, SameStopped, NEW w \in Workers,
         loc[w] \in {"starting", "woken", "busy"}, state[w] # "TH_STOP",
         NEW i \in Seq(Workers), IsInjective(i), ToSet(i) = ToSet(idle) \ {w},
         WorksOn(w, i) \/ Leaves(w, i) \/ FallsAsleep(w, i)
  PROVE  /\ idle' \in Seq(Workers) /\ state' \in [Workers -> States]
         /\ Threads' /\ Counted'
<1>1. /\ loc \in [Workers -> Places] /\ state \in [Workers -> States]
      /\ ToSet(idle) \subseteq Workers
  BY ToSetDef DEF Types
<1>2. \E l \in {"busy", "none", "idle"} : loc' = [loc EXCEPT ![w] = l]
  BY DEF WorksOn, Leaves, FallsAsleep
<1>3. loc'[w] \in {"busy", "none", "idle"} /\ \A v \in Workers : v # w => loc'[v] = loc[v]
  BY <1>1, <1>2
<1>4. state' \in [Workers -> States] /\ state'[w] # "TH_STOP"
      /\ \A v \in Workers : v # w => state'[v] = state[v]
  <2>1. CASE WorksOn(w, i)
    BY <1>1, <2>1 DEF WorksOn
  <2>2. CASE Leaves(w, i)
    BY <1>1, <2>2 DEF Leaves, States
  <2>3. CASE FallsAsleep(w, i)
    BY <1>1, <2>3 DEF FallsAsleep, States
  <2> QED BY <2>1, <2>2, <2>3
<1>5. /\ idle' \in Seq(Workers) /\ IsInjective(idle')
      /\ ToSet(idle') = IF loc'[w] = "idle" THEN ToSet(i) \cup {w} ELSE ToSet(i)
  <2>1. CASE WorksOn(w, i) \/ Leaves(w, i)
    <3>1. loc'[w] # "idle" /\ idle' = i
      BY <1>1, <2>1 DEF WorksOn, Leaves
    <3> QED BY <3>1
  <2>2. CASE FallsAsleep(w, i)
    <3>1. loc'[w] = "idle" /\ idle' = Append(i, w) /\ w \notin ToSet(i)
      BY <1>1, <2>2 DEF FallsAsleep
    <3> QED BY <3>1, AppendFacts
  <2> QED BY <2>1, <2>2
<1>6. \A v \in Workers : loc'[v] \in {"idle", "woken"} =>
        (v \in ToSet(idle') <=> state'[v] # "TH_STOP")
  <2> SUFFICES ASSUME NEW v \in Workers, loc'[v] \in {"idle", "woken"}
               PROVE  v \in ToSet(idle') <=> state'[v] # "TH_STOP"
    OBVIOUS
  <2>1. CASE v = w
    BY <1>3, <1>4, <1>5, <2>1
  <2>2. CASE v # w
    BY <1>3, <1>4, <1>5, <2>2 DEF Threads
  <2> QED BY <2>1, <2>2
<1>7. \A v \in ToSet(idle') :
        loc'[v] \in {"idle", "woken", "exited"} /\ state'[v] # "TH_STOP"
  BY <1>1, <1>3, <1>4, <1>5 DEF Threads
<1>8. \A v \in Workers :
        state'[v] = "TH_STOP" => loc'[v] \in {"idle", "woken", "exited"}
  BY <1>3, <1>4 DEF Threads
<1>9. \A c \in Clients : \A v \in Stopped(c)' :
        /\ state'[v] = "TH_STOP"
        /\ \A d \in Clients : d # c => v \notin Stopped(d)'
  <2> SUFFICES ASSUME NEW c \in Clients, NEW v \in Stopped(c)
               PROVE  /\ state'[v] = "TH_STOP"
                      /\ \A d \in Clients : d # c => v \notin Stopped(d)
    BY DEF SameStopped
  <2>1. /\ state[v] = "TH_STOP"
        /\ \A d \in Clients : d # c => v \notin Stopped(d)
    BY DEF Threads
  <2>2. v # w
    BY <2>1
  <2>3. state'[v] = state[v]
    <3>1. \/ state' = state
          \/ \E e \in States : state' = [state EXCEPT ![w] = e]
      BY DEF WorksOn, Leaves, FallsAsleep, States
    <3>2. v \in Workers
      BY StoppedWorkers
    <3> QED BY <1>1, <2>2, <3>1, <3>2
  <2> QED BY <2>1, <2>3
<1>10. Threads'
  BY <1>5, <1>6, <1>7, <1>8, <1>9 DEF Threads
<1>11. Counted'
  <2>1. w \in Alive
    BY DEF Alive
  <2>2. CASE loc'[w] # "none"
    <3>1. Alive' = Alive
      BY <1>3, <2>2 DEF Alive
    <3>2. thd_cnt' = thd_cnt
      BY <1>1, <2>2 DEF WorksOn, Leaves, FallsAsleep
    <3> QED BY <3>1, <3>2 DEF Counted
  <2>3. CASE loc'[w] = "none"
    <3>1. Alive' = Alive \ {w}
      BY <1>3, <2>3 DEF Alive
    <3>2. thd_cnt' = thd_cnt - 1
      BY <1>1, <2>3 DEF WorksOn, Leaves, FallsAsleep
    <3>3. Cardinality(Alive \ {w}) = Cardinality(Alive) - 1
      BY <2>1, AliveFinite, FS_RemoveElement
    <3> QED BY <3>1, <3>2, <3>3 DEF Counted
  <2> QED BY <2>2, <2>3
<1> QED BY <1>4, <1>5, <1>10, <1>11

LEMMA SignalFacts ==
  ASSUME NEW l \in [Workers -> Places], NEW m \in Signal(l)
  PROVE  /\ m \in [Workers -> Places]
         /\ \A v \in Workers : m[v] = l[v] \/ (l[v] = "idle" /\ m[v] = "woken")
BY DEF Signal, Places

(* Submitting a task may start a thread and wakes one. *)
LEMMA CreateThreads ==
  ASSUME Types, Threads, Counted, client' = client, NEW need, NEW t, CreateAndSignal(need, t)
  PROVE  /\ loc' \in [Workers -> Places] /\ idle' = idle /\ state' = state /\ cur' = cur
         /\ \A w \in Workers : loc'[w] = "busy" <=> loc[w] = "busy"
         /\ Threads' /\ Counted'
<1>1. SameStopped
  BY DEF SameStopped, Stopped
<1>2. loc \in [Workers -> Places]
  BY DEF Types
<1>3. idle' = idle /\ state' = state /\ cur' = cur
  BY DEF CreateAndSignal
<1>4. CASE loc' \in Signal(loc) /\ thd_cnt' = thd_cnt
  <2>1. /\ loc' \in [Workers -> Places]
        /\ \A v \in Workers : loc'[v] = loc[v] \/ (loc[v] = "idle" /\ loc'[v] = "woken")
    BY <1>2, <1>4, SignalFacts
  <2>2. Alive' = Alive
    BY <2>1 DEF Alive
  <2> QED BY <1>1, <1>3, <1>4, <2>1, <2>2, ThreadsWake DEF Counted
<1>5. CASE /\ \E w \in Workers :
                loc[w] = "none" /\ loc' \in Signal([loc EXCEPT ![w] = "starting"])
           /\ thd_cnt' = thd_cnt + 1
  <2>1. PICK w \in Workers :
          loc[w] = "none" /\ loc' \in Signal([loc EXCEPT ![w] = "starting"])
    BY <1>5
  <2> DEFINE l == [loc EXCEPT ![w] = "starting"]
  <2>2. l \in [Workers -> Places] /\ l[w] = "starting"
        /\ \A v \in Workers : v # w => l[v] = loc[v]
    BY <1>2 DEF Places
  <2> HIDE DEF l
  <2>3. /\ loc' \in [Workers -> Places]
        /\ \A v \in Workers : loc'[v] = l[v] \/ (l[v] = "idle" /\ loc'[v] = "woken")
    BY <2>1, <2>2, SignalFacts DEF l
  <2>4. /\ loc'[w] = "starting"
        /\ \A v \in Workers :
             v # w => loc'[v] = loc[v] \/ (loc[v] = "idle" /\ loc'[v] = "woken")
    BY <2>2, <2>3
  <2>5. Alive' = Alive \cup {w} /\ w \notin Alive
    BY <2>1, <2>4 DEF Alive
  <2>6. Cardinality(Alive \cup {w}) = Cardinality(Alive) + 1
    BY <2>5, AliveFinite, FS_AddElement
  <2>7. Counted'
    BY <1>5, <2>5, <2>6 DEF Counted
  <2>8. Threads'
    BY <1>1, <1>3, <2>1, <2>3, <2>4, ThreadsWake
  <2>9. \A v \in Workers : loc'[v] = "busy" <=> loc[v] = "busy"
    BY <2>1, <2>4
  <2> QED BY <1>3, <2>3, <2>7, <2>8, <2>9
<1> QED BY <1>4, <1>5 DEF CreateAndSignal
-----------------------------------------------------------------------------
(* The clients. *)

(* A client's step changes its own record only. *)
LEMMA ClientStep ==
  ASSUME Types, NEW c \in Clients, NEW r \in ClientState, client' = [client EXCEPT ![c] = r]
  PROVE  /\ client' \in [Clients -> ClientState]
         /\ client'[c] = r
         /\ \A d \in Clients : d # c => client'[d] = client[d] /\ Stopped(d)' = Stopped(d)
BY DEF Types, Stopped

LEMMA GotoDestroy ==
  ASSUME NEW r \in ClientState, r.op = "destroy", r.at \in {"terminate", "idle_max"},
         NEW v \in {"idle_max", "trim"}
  PROVE  LET s == [r EXCEPT !.at = v]
         IN  s \in ClientState /\ s.op = "destroy" /\ s.at = v
BY DEF ClientState

LEMMA GotoJoin ==
  ASSUME NEW r \in ClientState, r.op \in {"idle_max_set", "destroy"},
         r.at \in {"broadcast", "join"},
         NEW v \in {"join", "spin"}, v = "spin" => r.op = "destroy"
  PROVE  LET s == [r EXCEPT !.at = v]
         IN  s \in ClientState /\ s.op = r.op /\ s.at = v /\ s.join = r.join
BY DEF ClientState

(* Cancels under way are not disturbed by a step that submits only new     *)
(* tasks and forgets none.                                                 *)
LEMMA CancelledKept ==
  ASSUME CancelledOut, Accounted \subseteq Accounted', Pending' \cap Accounted \subseteq Pending,
         \A c \in Clients :
           client'[c].op = "cancel" => client'[c] = client[c]
  PROVE  CancelledOut'
BY DEF CancelledOut
-----------------------------------------------------------------------------
(* Every step keeps the invariant. *)

(* A worker's critical section, raced or not by the write of terminated. *)
LEMMA WorkRacedInv ==
  ASSUME Inv, NEW w \in Workers,
         loc[w] \in {"starting", "woken", "busy"}, state[w] # "TH_STOP",
         NEW i \in Seq(Workers), IsInjective(i), ToSet(i) = ToSet(idle) \ {w},
         WorkRaced(w, i),
         finished' = IF loc[w] = "busy" THEN finished \cup {cur[w]} ELSE finished,
         accepted' = accepted
  PROVE  Inv'
<1> USE DEF Inv
<1>1. PICK stop : Work(w, i, stop)
  BY DEF WorkRaced
<1>2. /\ Runs(w) \/ Drops(w) \/ FindsNone(w)
      /\ WorksOn(w, i) \/ Leaves(w, i) \/ FallsAsleep(w, i)
  BY <1>1, WorkForms
<1>3. \/ client' = client
      \/ \E c \in Clients : /\ client[c] = [op |-> "destroy", at |-> "terminate"]
                            /\ client' = [client EXCEPT ![c].at = "idle_max"]
  BY DEF WorkRaced, Late
<1>4. /\ client' \in [Clients -> ClientState] /\ SameStopped
      /\ \A c \in Clients : client'[c].op = "cancel" => client'[c] = client[c]
  <2>1. CASE client' = client
    BY <2>1 DEF Types, SameStopped, Stopped
  <2>2. ASSUME NEW c \in Clients, client[c] = [op |-> "destroy", at |-> "terminate"],
               client' = [client EXCEPT ![c].at = "idle_max"]
        PROVE  <1>4!:
    <3> DEFINE r == [client[c] EXCEPT !.at = "idle_max"]
    <3>1. client[c] \in ClientState
      BY DEF Types
    <3>2. client[c].op = "destroy" /\ client[c].at = "terminate"
      BY <2>2
    <3>3. r \in ClientState /\ r.op = "destroy" /\ r.at = "idle_max"
      BY <3>1, <3>2, GotoDestroy
    <3>4. client' = [client EXCEPT ![c] = r]
      BY <2>2
    <3> HIDE DEF r
    <3>5. /\ client' \in [Clients -> ClientState] /\ client'[c] = r
          /\ \A d \in Clients : d # c => client'[d] = client[d] /\ Stopped(d)' = Stopped(d)
      BY <3>3, <3>4, ClientStep
    <3>6. Stopped(c)' = {} /\ Stopped(c) = {}
      BY <3>2, <3>3, <3>5 DEF Stopped
    <3>7. SameStopped
      BY <3>5, <3>6 DEF SameStopped
    <3>8. \A d \in Clients : client'[d].op = "cancel" => client'[d] = client[d]
      BY <3>3, <3>5
    <3> QED BY <3>5, <3>7, <3>8
  <2> QED BY <1>3, <2>1, <2>2
<1>5. /\ tasks' \in Seq(Tasks) /\ scheduled' \in Seq(Tasks)
      /\ task_idx' \in [0 .. 3 -> Tasks \cup {NULL}]
      /\ due' \in 0 .. Len(scheduled')
      /\ loc' \in [Workers -> Places]
      /\ cur' \in [Workers -> Tasks \cup {NULL}]
      /\ finished' \subseteq Tasks /\ gone' \subseteq Tasks
      /\ OnePlace' /\ IndexNotDangling'
      /\ Pending' \subseteq Pending /\ Accounted' = Accounted
  BY <1>2, WorkTasks
<1>6. /\ idle' \in Seq(Workers) /\ state' \in [Workers -> States]
      /\ Threads' /\ Counted'
  BY <1>2, <1>4, WorkThreads
<1>7. CancelledOut'
  BY <1>4, <1>5, CancelledKept
<1> QED BY <1>4, <1>5, <1>6, <1>7 DEF Types

LEMMA LoopTopInv == ASSUME Inv, NEW w \in Workers, LoopTop(w) PROVE Inv'
<1> USE DEF Inv
<1>1. CASE terminated \/ state[w] = "TH_STOP"
  <2>1. /\ loc[w] \in {"starting", "woken"}
        /\ thd_cnt' = thd_cnt - 1 /\ loc' = [loc EXCEPT ![w] = "exited"]
        /\ UNCHANGED <<queues, idle, state, cur, client, gone, finished, accepted>>
    BY <1>1 DEF LoopTop
  <2>2. /\ tasks' = tasks /\ task_idx' = task_idx /\ scheduled' = scheduled /\ due' = due
        /\ idle' = idle /\ state' = state /\ cur' = cur /\ client' = client
        /\ gone' = gone /\ finished' = finished /\ accepted' = accepted
    BY <2>1 DEF queues
  <2>3. /\ loc \in [Workers -> Places] /\ loc' \in [Workers -> Places]
        /\ loc'[w] = "exited" /\ \A v \in Workers : v # w => loc'[v] = loc[v]
    BY <2>1 DEF Types, Places
  <2>4. \A v \in Workers : loc'[v] = "busy" <=> loc[v] = "busy"
    BY <2>1, <2>3
  <2>5. OnePlace' /\ Pending' = Pending /\ Accounted' = Accounted
    BY <2>2, <2>4, TasksFrame
  <2>6. IndexNotDangling' /\ SameStopped
    BY <2>2 DEF IndexNotDangling, SameStopped, Stopped
  <2>7. CancelledOut'
    BY <2>2, <2>5, CancelledKept
  <2>8. Threads'
    <3>1. ToSet(idle) \subseteq Workers
      BY ToSetDef DEF Types
    <3> QED BY <2>1, <2>2, <2>3, <2>6, <3>1 DEF Threads, SameStopped
  <2>9. Counted'
    <3>1. Alive' = Alive \ {w} /\ w \in Alive
      BY <2>1, <2>3 DEF Alive
    <3>2. Cardinality(Alive \ {w}) = Cardinality(Alive) - 1
      BY <3>1, AliveFinite, FS_RemoveElement
    <3> QED BY <2>1, <3>1, <3>2 DEF Counted
  <2> QED BY <2>2, <2>3, <2>5, <2>6, <2>7, <2>8, <2>9 DEF Types
<1>2. CASE ~terminated /\ state[w] # "TH_STOP"
  <2> DEFINE i == RingRemove(idle, {w})
  <2>1. i \in Seq(Workers) /\ IsInjective(i) /\ ToSet(i) = ToSet(idle) \ {w}
    BY RemoveFacts DEF Types, Threads
  <2>2. loc[w] \in {"starting", "woken"} /\ WorkRaced(w, i) /\ finished' = finished
        /\ accepted' = accepted
    BY <1>2 DEF LoopTop
  <2> HIDE DEF i
  <2> QED BY <1>2, <2>1, <2>2, WorkRacedInv
<1> QED BY <1>1, <1>2

LEMMA TaskDoneInv == ASSUME Inv, NEW w \in Workers, TaskDone(w) PROVE Inv'
<1> USE DEF Inv
<1>1. /\ loc[w] = "busy" /\ finished' = finished \cup {cur[w]} /\ WorkRaced(w, idle)
      /\ accepted' = accepted
  BY DEF TaskDone
<1>2. idle \in Seq(Workers) /\ IsInjective(idle)
  BY DEF Types, Threads
<1>3. w \notin ToSet(idle) /\ state[w] # "TH_STOP"
  BY <1>1 DEF Threads
<1>4. ToSet(idle) = ToSet(idle) \ {w}
  BY <1>3
<1> QED BY <1>1, <1>2, <1>3, <1>4, WorkRacedInv

(* Submissions. *)
LEMMA add_taskInv ==
  ASSUME Inv, NEW t \in Tasks, NEW push \in BOOLEAN, add_task(t, push) PROVE Inv'
<1> USE DEF Inv
<1>1. /\ t \notin Accounted /\ accepted' = accepted \cup {t} /\ InsertTask(t, push)
      /\ scheduled' = scheduled /\ due' = due /\ client' = client
      /\ finished' = finished /\ gone' = gone
      /\ \E need : CreateAndSignal(need, t)
  BY DEF add_task, OnePlace
<1>2. t \notin ToSet(tasks)
  BY <1>1 DEF Accounted, Pending
<1>3. /\ tasks' \in Seq(Tasks) /\ IsInjective(tasks')
      /\ ToSet(tasks') = ToSet(tasks) \cup {t}
      /\ task_idx' \in [0 .. 3 -> Tasks \cup {NULL}]
      /\ IndexNotDangling'
  BY <1>1, <1>2, InsertTaskFacts
<1>4. /\ loc' \in [Workers -> Places] /\ idle' = idle /\ state' = state /\ cur' = cur
      /\ \A w \in Workers : loc'[w] = "busy" <=> loc[w] = "busy"
      /\ Threads' /\ Counted'
  BY <1>1, CreateThreads
<1>5. OnePlace' /\ Pending' = Pending \cup {t} /\ Accounted' = Accounted \cup {t}
  BY <1>1, <1>3, <1>4, TasksSubmit
<1>6. CancelledOut'
  BY <1>1, <1>5, CancelledKept
<1> QED BY <1>1, <1>3, <1>4, <1>5, <1>6 DEF Types

LEMMA schedule_taskInv ==
  ASSUME Inv, NEW t \in Tasks, schedule_task(t) PROVE Inv'
<1> USE DEF Inv
<1>1. /\ t \notin Accounted /\ accepted' = accepted \cup {t}
      /\ tasks' = tasks /\ task_idx' = task_idx /\ due' = due /\ client' = client
      /\ finished' = finished /\ gone' = gone
      /\ \E need : CreateAndSignal(need, t)
  BY DEF schedule_task, OnePlace
<1>2. PICK at \in due + 1 .. Len(scheduled) + 1 : scheduled' = InsertAt(scheduled, at, t)
  BY DEF schedule_task
<1>3. /\ at \in 1 .. Len(scheduled) + 1 /\ scheduled \in Seq(Tasks) /\ IsInjective(scheduled)
      /\ Len(scheduled) \in Nat /\ due \in 0 .. Len(scheduled)
  BY <1>2 DEF Types, OnePlace
<1>4. t \notin ToSet(scheduled)
  BY <1>1 DEF Accounted, Pending
<1>5. /\ scheduled' \in Seq(Tasks) /\ IsInjective(scheduled')
      /\ ToSet(scheduled') = ToSet(scheduled) \cup {t}
      /\ Len(scheduled') = Len(scheduled) + 1
  BY <1>2, <1>3, <1>4, InsertFacts
<1>6. due' \in 0 .. Len(scheduled')
  BY <1>1, <1>3, <1>5
<1>7. /\ loc' \in [Workers -> Places] /\ idle' = idle /\ state' = state /\ cur' = cur
      /\ \A w \in Workers : loc'[w] = "busy" <=> loc[w] = "busy"
      /\ Threads' /\ Counted'
  BY <1>1, CreateThreads
<1>8. OnePlace' /\ Pending' = Pending \cup {t} /\ Accounted' = Accounted \cup {t}
  BY <1>1, <1>5, <1>7, TasksSubmit
<1>9. CancelledOut' /\ IndexNotDangling'
  BY <1>1, <1>8, CancelledKept DEF IndexNotDangling
<1> QED BY <1>1, <1>5, <1>6, <1>7, <1>8, <1>9 DEF Types
(* A step that touches neither tasks nor threads, and in which a client's  *)
(* record changes, if at all, to one without threads to join.              *)
LEMMA QuietInv ==
  ASSUME Inv, UNCHANGED <<tasks, task_idx, scheduled, idle, thd_cnt, loc, state, cur, finished, gone,
                          accepted>>,
         due' \in 0 .. Len(scheduled),
         \/ client' = client
         \/ \E c \in Clients, r \in ClientState :
              /\ client' = [client EXCEPT ![c] = r]
              /\ r.op # "cancel"
              /\ \/ r.op \in {"none", "destroyed"}
                 \/ r.at \notin {"broadcast", "join"}
  PROVE  Inv'
<1> USE DEF Inv
<1>1. /\ tasks' = tasks /\ task_idx' = task_idx /\ scheduled' = scheduled
      /\ idle' = idle /\ thd_cnt' = thd_cnt /\ loc' = loc /\ state' = state
      /\ cur' = cur /\ finished' = finished /\ gone' = gone /\ accepted' = accepted
  OBVIOUS
<1>2. OnePlace' /\ Pending' = Pending /\ Accounted' = Accounted
  BY <1>1, TasksFrame
<1>3. IndexNotDangling' /\ Counted'
  BY <1>1 DEF IndexNotDangling, Counted, Alive
<1>4. /\ client' \in [Clients -> ClientState]
      /\ \A c \in Clients : client'[c].op = "cancel" => client'[c] = client[c]
      /\ \A c \in Clients : Stopped(c)' = Stopped(c) \/ Stopped(c)' = {}
  <2>1. CASE client' = client
    BY <2>1 DEF Types, Stopped
  <2>2. ASSUME NEW c \in Clients, NEW r \in ClientState,
               client' = [client EXCEPT ![c] = r], r.op # "cancel",
               r.op \in {"none", "destroyed"} \/ r.at \notin {"broadcast", "join"}
        PROVE  <1>4!:
    <3>1. /\ client' \in [Clients -> ClientState] /\ client'[c] = r
          /\ \A d \in Clients : d # c => client'[d] = client[d] /\ Stopped(d)' = Stopped(d)
      BY <2>2, ClientStep
    <3>2. Stopped(c)' = {}
      BY <2>2, <3>1 DEF Stopped
    <3> QED BY <2>2, <3>1, <3>2
  <2> QED BY <2>1, <2>2
<1>5. CancelledOut'
  BY <1>2, <1>4, CancelledKept
<1>6. Threads'
  BY <1>1, <1>4 DEF Threads
<1> QED BY <1>1, <1>2, <1>3, <1>4, <1>5, <1>6 DEF Types

LEMMA tasks_cancelInv ==
  ASSUME Inv, NEW c \in Clients, NEW o, tasks_cancel(c, o) PROVE Inv'
<1> USE DEF Inv
<1> DEFINE owned == OwnedBy(o) \cap (Pending \cup Running)
           r == [op |-> "cancel", at |-> "wait", owned |-> owned]
<1>1. /\ idle' = idle /\ thd_cnt' = thd_cnt /\ loc' = loc /\ state' = state
      /\ cur' = cur /\ finished' = finished /\ accepted' = accepted
      /\ gone' = gone \cup (Pending \cap OwnedBy(o))
      /\ client' = [client EXCEPT ![c] = r] /\ Idle(c)
  BY DEF tasks_cancel, workers
<1>2. /\ tasks' \in Seq(Tasks) /\ IsInjective(tasks')
      /\ scheduled' \in Seq(Tasks) /\ IsInjective(scheduled')
      /\ ToSet(tasks') = ToSet(tasks) \ OwnedBy(o)
      /\ ToSet(scheduled') = ToSet(scheduled) \ OwnedBy(o)
      /\ due' \in 0 .. Len(scheduled')
      /\ task_idx' \in [0 .. 3 -> Tasks \cup {NULL}]
      /\ IndexNotDangling'
  BY RemovalFacts
<1>3. OnePlace' /\ Pending' = Pending \ OwnedBy(o) /\ Accounted' = Accounted
  BY <1>1, <1>2, TasksDrop
<1>4. OwnedBy(o) \subseteq Tasks
  BY DEF OwnedBy
<1>5. owned \subseteq Accounted' \ Pending'
  BY <1>3 DEF Accounted
<1> HIDE DEF owned
<1>6. r \in ClientState /\ r.op = "cancel" /\ r.owned = owned
  <2>1. owned \in SUBSET Tasks
    BY <1>4 DEF owned
  <2> QED BY <2>1 DEF ClientState
<1> HIDE DEF r
<1>7. /\ client' \in [Clients -> ClientState] /\ client'[c] = r
      /\ \A d \in Clients : d # c => client'[d] = client[d] /\ Stopped(d)' = Stopped(d)
  BY <1>1, <1>6, ClientStep
<1>8. Stopped(c)' = {}
  BY <1>6, <1>7 DEF Stopped
<1>9. Threads'
  BY <1>1, <1>7, <1>8 DEF Threads
<1>10. CancelledOut'
  <2> SUFFICES ASSUME NEW d \in Clients, client'[d].op = "cancel"
               PROVE  client'[d].owned \subseteq Accounted' \ Pending'
    BY DEF CancelledOut
  <2>1. CASE d = c
    BY <1>5, <1>6, <1>7, <2>1
  <2>2. CASE d # c
    <3>1. client[d].op = "cancel" /\ client'[d].owned = client[d].owned
      BY <1>7, <2>2
    <3> QED BY <1>3, <3>1 DEF CancelledOut
  <2> QED BY <2>1, <2>2
<1>11. Counted' /\ gone' \subseteq Tasks
  BY <1>1, <1>4 DEF Counted, Alive, Types
<1> QED BY <1>1, <1>2, <1>3, <1>7, <1>9, <1>10, <1>11 DEF Types

(* Threads are taken out of the idle ring and told to stop. *)
LEMMA trim_threadsInv ==
  ASSUME Inv, NEW c \in Clients, trim_threads(c) PROVE Inv'
<1> USE DEF Inv
<1> DEFINE keep == IF client[c].op = "destroy" THEN 0 ELSE client[c].cnt
           out == IF Len(idle) <= keep THEN << >> ELSE SubSeq(idle, keep + 1, Len(idle))
           r == [op |-> client[c].op, at |-> "broadcast", join |-> ToSet(out)]
<1>1. client[c].op \in {"idle_max_set", "destroy"} /\ client[c].at = "trim"
  BY DEF trim_threads
<1>2. client[c] \in ClientState
  BY DEF Types
<1>3. keep \in Nat
  BY <1>1, <1>2 DEF ClientState
<1>4. /\ idle' = IF Len(idle) <= keep THEN idle ELSE SubSeq(idle, 1, keep)
      /\ state' = [w \in Workers |-> IF w \in ToSet(out) THEN "TH_STOP" ELSE state[w]]
      /\ client' = [client EXCEPT ![c] = r]
  BY DEF trim_threads
<1>5. /\ tasks' = tasks /\ task_idx' = task_idx /\ scheduled' = scheduled /\ due' = due
      /\ thd_cnt' = thd_cnt /\ loc' = loc /\ cur' = cur
      /\ finished' = finished /\ gone' = gone /\ accepted' = accepted
  BY DEF trim_threads, queues
<1>6. idle \in Seq(Workers) /\ IsInjective(idle) /\ Len(idle) \in Nat
      /\ ToSet(idle) \subseteq Workers
  BY ToSetDef DEF Types, Threads
<1>7. /\ idle' \in Seq(Workers) /\ IsInjective(idle')
      /\ ToSet(idle') \cup ToSet(out) = ToSet(idle)
      /\ ToSet(idle') \cap ToSet(out) = {}
  <2> HIDE DEF keep
  <2>1. CASE Len(idle) <= keep
    <3>1. idle' = idle /\ ToSet(out) = {}
      BY <1>4, <2>1 DEF ToSet
    <3> QED BY <1>6, <3>1
  <2>2. CASE ~(Len(idle) <= keep)
    <3>1. idle' = SubSeq(idle, 1, keep) /\ out = SubSeq(idle, keep + 1, Len(idle))
      BY <1>4, <2>2
    <3>2. keep \in 0 .. Len(idle)
      BY <1>3, <1>6, <2>2
    <3> HIDE DEF out
    <3> QED BY <1>6, <3>1, <3>2, CutFacts
  <2> QED BY <2>1, <2>2
<1> DEFINE stop == ToSet(out)
<1>8. /\ r \in ClientState /\ r.op # "cancel" /\ r.join = stop
      /\ r.op \in {"idle_max_set", "destroy"} /\ r.at = "broadcast"
  <2> HIDE DEF keep, out
  <2>1. ToSet(out) \in SUBSET Workers
    BY <1>6, <1>7
  <2> QED BY <1>1, <2>1 DEF ClientState
<1>9. /\ ToSet(idle') \cup stop = ToSet(idle) /\ ToSet(idle') \cap stop = {}
      /\ state' = [w \in Workers |-> IF w \in stop THEN "TH_STOP" ELSE state[w]]
  BY <1>4, <1>7
<1> HIDE DEF keep, out, r, stop
<1>10. /\ client' \in [Clients -> ClientState] /\ client'[c] = r
       /\ \A d \in Clients : d # c => client'[d] = client[d] /\ Stopped(d)' = Stopped(d)
  BY <1>4, <1>8, ClientStep
<1>11. Stopped(c)' = stop
  BY <1>8, <1>10 DEF Stopped
<1>12. /\ state \in [Workers -> States] /\ state' \in [Workers -> States]
       /\ stop \subseteq Workers
  BY <1>6, <1>9 DEF Types, States
<1>13. OnePlace' /\ Pending' = Pending /\ Accounted' = Accounted
  BY <1>5, TasksFrame
<1>14. IndexNotDangling' /\ Counted'
  BY <1>5 DEF IndexNotDangling, Counted, Alive
<1>15. CancelledOut'
  <2>1. \A d \in Clients : client'[d].op = "cancel" => client'[d] = client[d]
    BY <1>8, <1>10
  <2> QED BY <1>13, <2>1, CancelledKept
<1>16. \A w \in Workers : loc'[w] \in {"idle", "woken"} =>
         (w \in ToSet(idle') <=> state'[w] # "TH_STOP")
  BY <1>5, <1>9, <1>12 DEF Threads
<1>17. \A w \in ToSet(idle') :
         loc'[w] \in {"idle", "woken", "exited"} /\ state'[w] # "TH_STOP"
  BY <1>5, <1>6, <1>9, <1>12 DEF Threads
<1>18. \A w \in Workers :
         state'[w] = "TH_STOP" => loc'[w] \in {"idle", "woken", "exited"}
  BY <1>5, <1>9, <1>12 DEF Threads
<1>19. ASSUME NEW d \in Clients, NEW w \in Stopped(d)'
       PROVE  /\ state'[w] = "TH_STOP"
              /\ \A e \in Clients : e # d => w \notin Stopped(e)'
  <2>1. CASE d = c
    <3>1. w \in stop /\ w \in ToSet(idle) /\ state'[w] = "TH_STOP" /\ state[w] # "TH_STOP"
      BY <1>9, <1>11, <1>12, <1>19, <2>1 DEF Threads
    <3>2. \A e \in Clients : w \notin Stopped(e)
      BY <3>1 DEF Threads
    <3> QED BY <1>10, <2>1, <3>1, <3>2
  <2>2. CASE d # c
    <3>1. w \in Stopped(d) /\ state[w] = "TH_STOP"
          /\ \A e \in Clients : e # d => w \notin Stopped(e)
      BY <1>10, <1>19, <2>2 DEF Threads
    <3>2. w \in Workers
      BY <3>1, StoppedWorkers
    <3>3. w \notin stop
      BY <1>9, <3>1 DEF Threads
    <3>4. state'[w] = "TH_STOP"
      BY <1>9, <3>1, <3>2
    <3> QED BY <1>10, <1>11, <3>1, <3>3, <3>4
  <2> QED BY <2>1, <2>2
<1>20. Threads'
  BY <1>7, <1>16, <1>17, <1>18, <1>19 DEF Threads
<1> QED BY <1>5, <1>7, <1>10, <1>12, <1>13, <1>14, <1>15, <1>20 DEF Types

LEMMA BroadcastInv ==
  ASSUME Inv, NEW c \in Clients, Broadcast(c) PROVE Inv'
<1> USE DEF Inv
<1> DEFINE r == [client[c] EXCEPT !.at = "join"]
<1>1. /\ client[c].op \in {"idle_max_set", "destroy"} /\ client[c].at = "broadcast"
      /\ client[c] \in ClientState
      /\ client' = [client EXCEPT ![c] = r]
  BY DEF Broadcast, Goto, Types
<1>2. r \in ClientState /\ r.op = client[c].op /\ r.at = "join" /\ r.join = client[c].join
  BY <1>1, GotoJoin
<1> HIDE DEF r
<1>3. /\ client' \in [Clients -> ClientState] /\ client'[c] = r
      /\ \A d \in Clients : d # c => client'[d] = client[d] /\ Stopped(d)' = Stopped(d)
  BY <1>1, <1>2, ClientStep
<1>4. SameStopped
  BY <1>1, <1>2, <1>3 DEF SameStopped, Stopped
<1>5. /\ tasks' = tasks /\ task_idx' = task_idx /\ scheduled' = scheduled /\ due' = due
      /\ idle' = idle /\ thd_cnt' = thd_cnt /\ state' = state /\ cur' = cur
      /\ finished' = finished /\ gone' = gone /\ accepted' = accepted
      /\ loc' = [w \in Workers |-> IF loc[w] = "idle" THEN "woken" ELSE loc[w]]
  BY DEF Broadcast, queues
<1>6. /\ loc' \in [Workers -> Places]
      /\ \A w \in Workers : loc'[w] = loc[w] \/ (loc[w] = "idle" /\ loc'[w] = "woken")
  BY <1>5 DEF Types, Places
<1>7. OnePlace' /\ Pending' = Pending /\ Accounted' = Accounted
  BY <1>5, <1>6, TasksFrame
<1>8. CancelledOut'
  <2>1. \A d \in Clients : client'[d].op = "cancel" => client'[d] = client[d]
    BY <1>1, <1>2, <1>3
  <2> QED BY <1>7, <2>1, CancelledKept
<1>9. Threads'
  BY <1>4, <1>5, <1>6, ThreadsWake
<1>10. IndexNotDangling' /\ Counted'
  <2>1. Alive' = Alive
    BY <1>6 DEF Alive
  <2> QED BY <1>5, <2>1 DEF IndexNotDangling, Counted
<1> QED BY <1>3, <1>5, <1>6, <1>7, <1>8, <1>9, <1>10 DEF Types

(* The stopped threads have exited and are given back. *)
LEMMA JoinInv ==
  ASSUME Inv, NEW c \in Clients, Join(c) PROVE Inv'
<1> USE DEF Inv
<1> DEFINE J == client[c].join
<1>1. /\ client[c].op \in {"idle_max_set", "destroy"} /\ client[c].at = "join"
      /\ client[c] \in ClientState
      /\ \A w \in J : loc[w] = "exited"
      /\ loc' = [w \in Workers |-> IF w \in J THEN "none" ELSE loc[w]]
      /\ state' = [w \in Workers |-> IF w \in J THEN "TH_RUN" ELSE state[w]]
  BY DEF Join, Types
<1>2. /\ tasks' = tasks /\ task_idx' = task_idx /\ scheduled' = scheduled /\ due' = due
      /\ idle' = idle /\ thd_cnt' = thd_cnt /\ cur' = cur
      /\ finished' = finished /\ gone' = gone /\ accepted' = accepted
  BY DEF Join, queues
<1>3. Stopped(c) = J /\ J \subseteq Workers
  BY <1>1, StoppedWorkers DEF Stopped
<1>4. \E r \in ClientState : /\ client' = [client EXCEPT ![c] = r]
                             /\ r.op # "cancel"
                             /\ r.op = "none" \/ r.at = "spin"
  <2>1. CASE client[c].op = "destroy"
    <3> DEFINE r == [client[c] EXCEPT !.at = "spin"]
    <3>1. client' = [client EXCEPT ![c] = r]
      BY <2>1 DEF Join, Goto
    <3>2. r \in ClientState /\ r.op = "destroy" /\ r.at = "spin"
      BY <1>1, <2>1, GotoJoin
    <3> HIDE DEF r
    <3> QED BY <3>1, <3>2
  <2>2. CASE client[c].op # "destroy"
    <3> DEFINE r == [op |-> "none"]
    <3>1. client' = [client EXCEPT ![c] = r]
      BY <2>2 DEF Join, Returns
    <3>2. r \in ClientState /\ r.op = "none"
      BY DEF ClientState
    <3> HIDE DEF r
    <3> QED BY <3>1, <3>2
  <2> QED BY <2>1, <2>2
<1>5. PICK r \in ClientState : /\ client' = [client EXCEPT ![c] = r]
                               /\ r.op # "cancel"
                               /\ r.op = "none" \/ r.at = "spin"
  BY <1>4
<1>6. /\ client' \in [Clients -> ClientState] /\ client'[c] = r
      /\ \A d \in Clients : d # c => client'[d] = client[d] /\ Stopped(d)' = Stopped(d)
  BY <1>5, ClientStep
<1>7. Stopped(c)' = {}
  BY <1>5, <1>6 DEF Stopped
<1> HIDE DEF J
<1>8. /\ loc \in [Workers -> Places] /\ loc' \in [Workers -> Places]
      /\ state \in [Workers -> States] /\ state' \in [Workers -> States]
      /\ ToSet(idle) \subseteq Workers
  BY <1>1, ToSetDef DEF Types, Places, States
<1>9. \A w \in Workers : loc'[w] = "busy" <=> loc[w] = "busy"
  BY <1>1
<1>10. OnePlace' /\ Pending' = Pending /\ Accounted' = Accounted
  BY <1>2, <1>9, TasksFrame
<1>11. CancelledOut'
  <2>1. \A d \in Clients : client'[d].op = "cancel" => client'[d] = client[d]
    BY <1>5, <1>6
  <2> QED BY <1>10, <2>1, CancelledKept
<1>12. IndexNotDangling' /\ Counted'
  <2>1. Alive' = Alive
    BY <1>1 DEF Alive
  <2> QED BY <1>2, <2>1 DEF IndexNotDangling, Counted
<1>13. \A w \in J : state[w] = "TH_STOP" /\ w \notin ToSet(idle)
  BY <1>3 DEF Threads
<1>14. \A w \in Workers : loc'[w] \in {"idle", "woken"} =>
         (w \in ToSet(idle') <=> state'[w] # "TH_STOP")
  BY <1>1, <1>2 DEF Threads
<1>15. \A w \in ToSet(idle') :
         loc'[w] \in {"idle", "woken", "exited"} /\ state'[w] # "TH_STOP"
  BY <1>1, <1>2, <1>8, <1>13 DEF Threads
<1>16. \A w \in Workers :
         state'[w] = "TH_STOP" => loc'[w] \in {"idle", "woken", "exited"}
  BY <1>1 DEF Threads
<1>17. ASSUME NEW d \in Clients, NEW w \in Stopped(d)'
       PROVE  /\ state'[w] = "TH_STOP"
              /\ \A e \in Clients : e # d => w \notin Stopped(e)'
  <2>1. d # c
    BY <1>7, <1>17
  <2>2. w \in Stopped(d) /\ state[w] = "TH_STOP"
        /\ \A e \in Clients : e # d => w \notin Stopped(e)
    BY <1>6, <1>17, <2>1 DEF Threads
  <2>3. w \in Workers /\ w \notin J
    BY <1>3, <2>1, <2>2, StoppedWorkers
  <2> QED BY <1>1, <1>6, <1>7, <2>2, <2>3
<1>18. Threads'
  <2>1. IsInjective(idle')
    BY <1>2 DEF Threads
  <2> QED BY <1>14, <1>15, <1>16, <1>17, <2>1 DEF Threads
<1> QED BY <1>2, <1>6, <1>8, <1>10, <1>11, <1>12, <1>18 DEF Types
(* The steps of the clients that concern neither tasks nor threads. *)
LEMMA QuietClientInv ==
  ASSUME Inv, NEW c \in Clients,
         \/ wait_on_busy_threads(c)
         \/ CleanupTerminates(c) \/ CleanupIdleMax(c) \/ CleanupReturns(c)
         \/ \E cnt \in IdleMaxes : idle_max_set(c, cnt)
         \/ destroy(c)
  PROVE  Inv'
<1> DEFINE Quiet(r) == /\ r \in ClientState /\ client' = [client EXCEPT ![c] = r]
                       /\ r.op # "cancel"
                       /\ r.op \in {"none", "destroyed"} \/ r.at \notin {"broadcast", "join"}
<1>1. /\ UNCHANGED <<tasks, task_idx, scheduled, idle, thd_cnt, loc, state, cur, finished, gone,
                          accepted>>
      /\ due' = due
  BY DEF wait_on_busy_threads, CleanupTerminates, CleanupIdleMax, CleanupReturns,
     idle_max_set, destroy, queues, workers
<1>2. client[c] \in ClientState /\ due \in 0 .. Len(scheduled)
  BY DEF Inv, Types
<1>3. CASE wait_on_busy_threads(c)
  <2>1. Quiet([op |-> "none"])
    BY <1>3 DEF wait_on_busy_threads, Returns, ClientState
  <2> QED BY <1>1, <1>2, <2>1, QuietInv
<1>4. CASE CleanupTerminates(c)
  <2> DEFINE r == [client[c] EXCEPT !.at = "idle_max"]
  <2>1. r \in ClientState /\ r.op = "destroy" /\ r.at = "idle_max"
    BY <1>2, <1>4, GotoDestroy DEF CleanupTerminates, At
  <2>2. client' = [client EXCEPT ![c] = r]
    BY <1>4 DEF CleanupTerminates, Goto
  <2> HIDE DEF r
  <2>3. Quiet(r)
    BY <2>1, <2>2
  <2> QED BY <1>1, <1>2, <2>3, QuietInv
<1>5. CASE CleanupIdleMax(c)
  <2> DEFINE r == [client[c] EXCEPT !.at = "trim"]
  <2>1. r \in ClientState /\ r.op = "destroy" /\ r.at = "trim"
    BY <1>2, <1>5, GotoDestroy DEF CleanupIdleMax, At
  <2>2. client' = [client EXCEPT ![c] = r]
    BY <1>5 DEF CleanupIdleMax, Goto
  <2> HIDE DEF r
  <2>3. Quiet(r)
    BY <2>1, <2>2
  <2> QED BY <1>1, <1>2, <2>3, QuietInv
<1>6. CASE CleanupReturns(c)
  <2>1. Quiet([op |-> "destroyed"])
    BY <1>6 DEF CleanupReturns, ClientState
  <2> QED BY <1>1, <1>2, <2>1, QuietInv
<1>7. ASSUME NEW cnt \in IdleMaxes, idle_max_set(c, cnt) PROVE Inv'
  <2>1. Quiet([op |-> "idle_max_set", at |-> "trim", cnt |-> cnt])
    BY <1>7, SizeAssumption DEF idle_max_set, ClientState
  <2> QED BY <1>1, <1>2, <2>1, QuietInv
<1>8. CASE destroy(c)
  <2>1. Quiet([op |-> "destroy", at |-> "terminate"])
    BY <1>8 DEF destroy, ClientState
  <2> QED BY <1>1, <1>2, <2>1, QuietInv
<1> QED BY <1>3, <1>4, <1>5, <1>6, <1>7, <1>8

LEMMA WakeupInv == ASSUME Inv, NEW w \in Workers, Wakeup(w) PROVE Inv'
<1> USE DEF Inv
<1>1. /\ tasks' = tasks /\ task_idx' = task_idx /\ scheduled' = scheduled /\ due' = due
      /\ idle' = idle /\ thd_cnt' = thd_cnt /\ state' = state /\ cur' = cur
      /\ finished' = finished /\ gone' = gone /\ accepted' = accepted /\ client' = client
      /\ loc[w] = "idle" /\ loc' = [loc EXCEPT ![w] = "woken"]
  BY DEF Wakeup, queues
<1>2. /\ loc' \in [Workers -> Places]
      /\ \A v \in Workers : loc'[v] = loc[v] \/ (loc[v] = "idle" /\ loc'[v] = "woken")
  BY <1>1 DEF Types, Places
<1>3. SameStopped /\ IndexNotDangling'
  BY <1>1 DEF SameStopped, Stopped, IndexNotDangling
<1>4. OnePlace' /\ Pending' = Pending /\ Accounted' = Accounted
  BY <1>1, <1>2, TasksFrame
<1>5. CancelledOut'
  BY <1>1, <1>4, CancelledKept
<1>6. Threads'
  BY <1>1, <1>2, <1>3, ThreadsWake
<1>7. Counted'
  <2>1. Alive' = Alive
    BY <1>2 DEF Alive
  <2> QED BY <1>1, <2>1 DEF Counted
<1> QED BY <1>1, <1>2, <1>3, <1>4, <1>5, <1>6, <1>7 DEF Types

LEMMA InitInv == Init => Inv
<1> SUFFICES ASSUME Init PROVE Inv
  OBVIOUS
<1>1. PICK first \in SUBSET Workers :
        /\ Cardinality(first) = init_threads
        /\ loc = [w \in Workers |-> IF w \in first THEN "starting" ELSE "none"]
  BY DEF Init
<1>2. /\ tasks = << >> /\ scheduled = << >> /\ due = 0 /\ idle = << >>
      /\ task_idx = [s \in 0 .. 3 |-> NULL] /\ thd_cnt = init_threads
      /\ state = [w \in Workers |-> "TH_RUN"] /\ cur = [w \in Workers |-> NULL]
      /\ client = [c \in Clients |-> [op |-> "none"]]
      /\ finished = {} /\ gone = {} /\ accepted = {}
  BY DEF Init
<1>3. [op |-> "none"] \in ClientState /\ [op |-> "none"].op = "none"
  BY DEF ClientState
<1>4. Types
  <2>1. loc \in [Workers -> Places] /\ state \in [Workers -> States]
    BY <1>1, <1>2 DEF Places, States
  <2>2. client \in [Clients -> ClientState]
    BY <1>2, <1>3
  <2> QED BY <1>2, <2>1, <2>2 DEF Types
<1>5. ToSet(tasks) = {} /\ ToSet(scheduled) = {} /\ ToSet(idle) = {}
      /\ IsInjective(tasks) /\ IsInjective(scheduled) /\ IsInjective(idle)
  BY <1>2 DEF ToSet, IsInjective
<1>6. OnePlace
  <2>1. accepted = Accounted
    BY <1>1, <1>2, <1>5 DEF Accounted, Pending, Running
  <2> QED BY <1>1, <1>2, <1>5, <2>1 DEF OnePlace, Pending
<1>7. IndexNotDangling
  BY <1>2 DEF IndexNotDangling
<1>8. \A c \in Clients : client[c].op = "none"
  BY <1>2, <1>3
<1>9. CancelledOut
  BY <1>8 DEF CancelledOut
<1>10. Threads
  BY <1>1, <1>2, <1>5, <1>8 DEF Threads, Stopped
<1>11. Counted
  <2>1. Alive = first
    BY <1>1 DEF Alive
  <2> QED BY <1>1, <1>2, <2>1 DEF Counted
<1> QED BY <1>4, <1>6, <1>7, <1>9, <1>10, <1>11 DEF Inv

LEMMA NextInv == Inv /\ [Next]_vars => Inv'
<1> SUFFICES ASSUME Inv, [Next]_vars PROVE Inv'
  OBVIOUS
<1>1. ASSUME NEW w \in Workers, Worker(w) PROVE Inv'
  BY <1>1, LoopTopInv, TaskDoneInv DEF Worker
<1>2. ASSUME NEW c \in Clients, Client(c) PROVE Inv'
  BY <1>2, QuietClientInv, trim_threadsInv, BroadcastInv, JoinInv DEF Client
<1>3. ASSUME UNCHANGED <<tasks, task_idx, scheduled, workers, client, finished, gone,
                         accepted>>,
             due' \in 0 .. Len(scheduled)
      PROVE  Inv'
  BY <1>3, QuietInv DEF workers
<1>4. CASE Tick
  <2>1. due' \in 0 .. Len(scheduled)
    BY <1>4 DEF Tick, Inv, Types
  <2> QED BY <1>3, <1>4, <2>1 DEF Tick
<1>5. ASSUME NEW v, idle_wait_set(v) \/ threshold_set(v) PROVE Inv'
  <2>1. due \in 0 .. Len(scheduled)
    BY DEF Inv, Types
  <2> QED BY <1>3, <1>5, <2>1 DEF idle_wait_set, threshold_set, queues
<1>6. CASE UNCHANGED vars
  <2>1. due \in 0 .. Len(scheduled)
    BY DEF Inv, Types
  <2> QED BY <1>3, <1>6, <2>1 DEF vars, queues
<1>7. ASSUME NEW t \in Tasks,
             (\E push \in BOOLEAN : add_task(t, push)) \/ schedule_task(t)
      PROVE  Inv'
  BY <1>7, add_taskInv, schedule_taskInv
<1>8. ASSUME NEW c \in Clients,
             \/ \E o \in {Owner[t] : t \in Tasks} : tasks_cancel(c, o)
             \/ \E cnt \in IdleMaxes : idle_max_set(c, cnt)
             \/ destroy(c)
      PROVE  Inv'
  BY <1>8, tasks_cancelInv, QuietClientInv
<1> QED BY <1>1, <1>2, <1>4, <1>5, <1>6, <1>7, <1>8, WakeupInv DEF Next

(* The invariant of the pool: rings, index, workers and cancels agree,     *)
(* whatever workers, submitters, cancels, trims and the destruction        *)
(* interleave.                                                             *)
THEOREM PoolInvariant == Spec => []Inv
BY InitInv, NextInv, PTL DEF Spec

(* Only a cancel takes a task away, until terminated is set. *)
LEMMA GoneInit == Init => (~terminated => gone = cancelled)
BY DEF Init

LEMMA GoneNext == (~terminated => gone = cancelled) /\ [Next]_vars
                    => (~terminated => gone = cancelled)'
<1> SUFFICES ASSUME ~terminated => gone = cancelled, [Next]_vars, ~terminated'
             PROVE  gone' = cancelled'
  OBVIOUS
<1>1. ASSUME UNCHANGED <<terminated, gone, cancelled>> PROVE gone' = cancelled'
  BY <1>1
<1>2. ASSUME NEW w \in Workers, NEW i, WorkRaced(w, i), UNCHANGED cancelled
      PROVE  gone' = cancelled'
  <2>1. Work(w, i, terminated) /\ terminated' = terminated
    BY <1>2 DEF WorkRaced
  <2>2. gone' = gone
    BY <2>1 DEF Work, Sleep
  <2> QED BY <1>1, <1>2, <2>1, <2>2
<1>3. ASSUME NEW w \in Workers, Worker(w) \/ Wakeup(w) PROVE gone' = cancelled'
  <2>1. CASE LoopTop(w)
    BY <1>1, <1>2, <2>1 DEF LoopTop
  <2>2. CASE TaskDone(w)
    BY <1>2, <2>2 DEF TaskDone
  <2>3. CASE Wakeup(w)
    BY <1>1, <2>3 DEF Wakeup, settings
  <2> QED BY <1>3, <2>1, <2>2, <2>3 DEF Worker
<1>4. ASSUME NEW c \in Clients, Client(c) PROVE gone' = cancelled'
  BY <1>1, <1>4 DEF Client, wait_on_busy_threads, trim_threads, Broadcast, Join,
     CleanupTerminates, CleanupIdleMax, CleanupReturns, settings
<1>5. ASSUME NEW c \in Clients, NEW o, tasks_cancel(c, o) PROVE gone' = cancelled'
  BY <1>5 DEF tasks_cancel, settings
<1>6. ASSUME NEW c \in Clients, (\E cnt : idle_max_set(c, cnt)) \/ destroy(c)
      PROVE  gone' = cancelled'
  BY <1>1, <1>6 DEF idle_max_set, destroy, settings
<1>7. ASSUME \E t \in Tasks : (\E push \in BOOLEAN : add_task(t, push)) \/ schedule_task(t)
      PROVE  gone' = cancelled'
  BY <1>1, <1>7 DEF add_task, schedule_task, settings
<1>8. ASSUME \/ \E v : idle_wait_set(v) \/ threshold_set(v)
             \/ Tick \/ UNCHANGED vars
      PROVE  gone' = cancelled'
  BY <1>1, <1>8 DEF idle_wait_set, threshold_set, Tick, vars, settings
<1> QED BY <1>3, <1>4, <1>5, <1>6, <1>7, <1>8 DEF Next

(* However workers, submitters, cancels, trims and the destruction         *)
(* interleave: every task that was ever accepted is in one ring once, held *)
(* by one worker, run, cancelled or, from terminated on, dropped.          *)
THEOREM TasksKept == Spec => []TaskInOnePlace
<1>1. Inv /\ (~terminated => gone = cancelled) => TaskInOnePlace
  BY DEF Inv, OnePlace, TaskInOnePlace, Running
<1> QED BY <1>1, PoolInvariant, GoneInit, GoneNext, PTL DEF Spec

(* A segment index that add_task dereferences points to a queued task of   *)
(* its segment.                                                            *)
THEOREM IndexSound == Spec => []IndexNotDangling
<1>1. Inv => IndexNotDangling
  BY DEF Inv
<1> QED BY <1>1, PoolInvariant, PTL

(* thd_cnt counts the threads that have not left, and the idle ring holds  *)
(* the sleeping ones that were not told to stop, each once.                *)
THEOREM ThreadsCounted == Spec => []TypeOK
<1>1. Inv => TypeOK
  BY DEF Inv, Types, Threads, Counted, TypeOK
<1> QED BY <1>1, PoolInvariant, PTL

(* When tasks_cancel returns, no task that the owner had at the call is    *)
(* queued or being run.                                                    *)
THEOREM CancelIsComplete == Spec => CancelComplete
<1> DEFINE Done == \A c \in Clients :
                     (At(c, "cancel", "wait") /\ client'[c].op = "none") =>
                       client[c].owned \cap (Pending \cup Running)' = {}
<1>1. Inv /\ [Next]_vars => Done
  <2> SUFFICES ASSUME Inv, [Next]_vars, NEW c \in Clients,
                      At(c, "cancel", "wait"), client'[c].op = "none"
               PROVE  client[c].owned \cap (Pending \cup Running)' = {}
    OBVIOUS
  <2>1. client \in [Clients -> ClientState] /\ client[c].op = "cancel"
    BY DEF Inv, Types, At
  <2>2. client'[c] # client[c]
    BY <2>1
  <2>3. client' # client
    BY <2>2
  <2>4. CASE wait_on_busy_threads(c)
    <3>1. /\ Pending' = Pending /\ Running' = Running
      BY <2>4 DEF wait_on_busy_threads, queues, workers, Pending, Running
    <3>2. client[c].owned \cap Running = {}
      BY <2>4 DEF wait_on_busy_threads
    <3>3. client[c].owned \cap Pending = {}
      BY <2>1 DEF Inv, CancelledOut
    <3> QED BY <3>1, <3>2, <3>3
  <2>5. ASSUME NEW d \in Clients, NEW r, d # c, client' = [client EXCEPT ![d] = r]
        PROVE  FALSE
    BY <2>1, <2>2, <2>5
  <2>6. ASSUME NEW d \in Clients, client[d].op # "cancel",
               \E r : client' = [client EXCEPT ![d] = r]
        PROVE  FALSE
    BY <2>1, <2>5, <2>6
  <2>7. ASSUME NEW w \in Workers, NEW i, WorkRaced(w, i) PROVE FALSE
    <3>1. PICK d \in Late : client' = [client EXCEPT ![d].at = "idle_max"]
      BY <2>3, <2>7 DEF WorkRaced
    <3>2. d \in Clients /\ client[d].op = "destroy"
      BY DEF Late
    <3> QED BY <2>6, <3>1, <3>2
  <2>8. ASSUME NEW w \in Workers, Worker(w) \/ Wakeup(w) PROVE FALSE
    BY <2>3, <2>7, <2>8 DEF Worker, LoopTop, TaskDone, Wakeup
  <2>9. ASSUME NEW d \in Clients, Client(d), ~(wait_on_busy_threads(c) /\ d = c) PROVE FALSE
    <3>1. CASE wait_on_busy_threads(d)
      BY <2>5, <2>9, <3>1 DEF wait_on_busy_threads, Returns
    <3>2. CASE ~wait_on_busy_threads(d)
      <4>1. client[d].op \in {"idle_max_set", "destroy"}
            /\ \E r : client' = [client EXCEPT ![d] = r]
        BY <2>9, <3>2 DEF Client, trim_threads, Broadcast, Join, CleanupTerminates,
           CleanupIdleMax, CleanupReturns, At, Goto, Returns
      <4> QED BY <2>6, <4>1
    <3> QED BY <3>1, <3>2
  <2>10. ASSUME NEW d \in Clients,
                \/ \E o : tasks_cancel(d, o)
                \/ \E cnt : idle_max_set(d, cnt)
                \/ destroy(d)
         PROVE  FALSE
    <3>1. client[d] = [op |-> "none"]
      BY <2>10 DEF tasks_cancel, idle_max_set, destroy, Idle
    <3>2. client[d].op = "none"
      BY <3>1
    <3>3. CASE \E o : tasks_cancel(d, o)
      BY <2>6, <3>2, <3>3 DEF tasks_cancel
    <3>4. CASE \E cnt : idle_max_set(d, cnt)
      BY <2>6, <3>2, <3>4 DEF idle_max_set
    <3>5. CASE destroy(d)
      BY <2>6, <3>2, <3>5 DEF destroy
    <3> QED BY <2>10, <3>3, <3>4, <3>5
  <2>11. ASSUME client' = client PROVE FALSE
    BY <2>3, <2>11
  <2> QED BY <2>4, <2>8, <2>9, <2>10, <2>11
       DEF Next, add_task, schedule_task, idle_wait_set, threshold_set, Tick, vars
<1> QED BY <1>1, PoolInvariant, PTL DEF Spec, CancelComplete
=============================================================================
