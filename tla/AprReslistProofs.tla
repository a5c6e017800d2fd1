-------------------------- MODULE AprReslistProofs --------------------------
(***************************************************************************)
(* Proofs about AprReslist for any number of threads, any finite set of    *)
(* resources and any limits that apr_reslist_create accepts: no resource   *)
(* is leaked, shared or miscounted, and no wakeup is lost.                 *)
(***************************************************************************)
EXTENDS AprReslist, FiniteSetTheorems, SequenceTheorems, TLAPS

-----------------------------------------------------------------------------
(* Sequences without repetitions. *)

(* The rest of a list without repetitions is the list without its head. *)
LEMMA TailFacts ==
  ASSUME NEW S, NEW s \in Seq(S), s # << >>, IsInjective(s)
  PROVE  /\ Head(s) \in S /\ Tail(s) \in Seq(S)
         /\ Len(Tail(s)) = Len(s) - 1 /\ Len(s) > 0
         /\ IsInjective(Tail(s))
         /\ Head(s) \in Range(s)
         /\ Range(Tail(s)) = Range(s) \ {Head(s)}
<1>1. /\ Head(s) \in S /\ Tail(s) \in Seq(S) /\ Len(Tail(s)) = Len(s) - 1
      /\ \A i \in 1 .. Len(Tail(s)) : Tail(s)[i] = s[i + 1]
      /\ Len(s) \in Nat \ {0} /\ Head(s) = s[1]
  BY HeadTailProperties, EmptySeq
<1>2. DOMAIN s = 1 .. Len(s) /\ DOMAIN Tail(s) = 1 .. Len(s) - 1
  BY <1>1, LenProperties
<1>3. IsInjective(Tail(s))
  BY <1>1, <1>2 DEF IsInjective
<1>4. Range(s) = {s[i] : i \in 1 .. Len(s)} /\ Range(Tail(s)) = {s[i + 1] : i \in 1 .. Len(s) - 1}
  BY <1>1, <1>2 DEF Range
<1>5. ASSUME NEW x PROVE x \in Range(Tail(s)) <=> x \in Range(s) \ {Head(s)}
  <2>1. ASSUME x \in Range(Tail(s)) PROVE x \in Range(s) \ {Head(s)}
    <3>1. PICK i \in 1 .. Len(s) - 1 : x = s[i + 1]
      BY <1>4, <2>1
    <3>2. i + 1 \in 1 .. Len(s) /\ i + 1 # 1 /\ 1 \in 1 .. Len(s)
      BY <1>1, <3>1
    <3> QED BY <1>1, <1>2, <1>4, <3>1, <3>2 DEF IsInjective
  <2>2. ASSUME x \in Range(s) \ {Head(s)} PROVE x \in Range(Tail(s))
    <3>1. PICK i \in 1 .. Len(s) : x = s[i]
      BY <1>4, <2>2
    <3>2. i # 1
      BY <1>1, <2>2, <3>1
    <3>3. i - 1 \in 1 .. Len(s) - 1 /\ (i - 1) + 1 = i
      BY <1>1, <3>1, <3>2
    <3> QED BY <1>4, <3>1, <3>3
  <2> QED BY <2>1, <2>2
<1>6. Head(s) \in Range(s)
  BY <1>1, <1>4
<1> QED BY <1>1, <1>3, <1>5, <1>6

(* A list without repetitions cut in two. *)
LEMMA CutFacts ==
  ASSUME NEW S, NEW s \in Seq(S), IsInjective(s), NEW k \in 0 .. Len(s)
  PROVE  LET a == SubSeq(s, 1, k)
             b == SubSeq(s, k + 1, Len(s))
         IN  /\ a \in Seq(S) /\ Len(a) = k /\ IsInjective(a)
             /\ b \in Seq(S) /\ Len(b) = Len(s) - k /\ IsInjective(b)
             /\ Range(a) \cup Range(b) = Range(s)
             /\ Range(a) \cap Range(b) = {}
<1> DEFINE a == SubSeq(s, 1, k)
           b == SubSeq(s, k + 1, Len(s))
<1>1. Len(s) \in Nat /\ DOMAIN s = 1 .. Len(s) /\ \A i \in 1 .. Len(s) : s[i] \in S
  BY LenProperties
<1>2. a \in Seq(S) /\ Len(a) = k /\ \A i \in 1 .. k : a[i] = s[i]
  <2>1. \A i \in 1 .. k : s[i] \in S
    BY <1>1
  <2>2. /\ a \in Seq(S) /\ Len(a) = IF 1 <= k THEN k - 1 + 1 ELSE 0
        /\ \A i \in 1 .. k - 1 + 1 : a[i] = s[1 + i - 1]
    BY <1>1, <2>1, SubSeqProperties
  <2>3. Len(a) = k
    BY <1>1, <2>2
  <2>4. \A i \in 1 .. k : i \in 1 .. k - 1 + 1 /\ 1 + i - 1 = i
    BY <1>1
  <2>5. \A i \in 1 .. k : a[i] = s[i]
    BY <2>2, <2>4
  <2> QED BY <2>2, <2>3, <2>5
<1>3. b \in Seq(S) /\ Len(b) = Len(s) - k /\ \A i \in 1 .. Len(s) - k : b[i] = s[k + i]
  <2>1. \A i \in k + 1 .. Len(s) : s[i] \in S
    BY <1>1
  <2>2. /\ b \in Seq(S) /\ Len(b) = IF k + 1 <= Len(s) THEN Len(s) - (k + 1) + 1 ELSE 0
        /\ \A i \in 1 .. Len(s) - (k + 1) + 1 : b[i] = s[k + 1 + i - 1]
    <3>1. k + 1 \in Int /\ Len(s) \in Int
      BY <1>1
    <3> DEFINE m == k + 1  n == Len(s)
    <3>2. \A i \in m .. n : s[i] \in S
      BY <2>1
    <3> HIDE DEF m, n
    <3>3. /\ SubSeq(s, m, n) \in Seq(S) /\ Len(SubSeq(s, m, n)) = IF m <= n THEN n - m + 1 ELSE 0
          /\ \A i \in 1 .. n - m + 1 : SubSeq(s, m, n)[i] = s[m + i - 1]
      BY <3>1, <3>2, SubSeqProperties DEF m, n
    <3> QED BY <3>3 DEF m, n
  <2>3. Len(b) = Len(s) - k
    <3> DEFINE n == Len(s)
    <3>1. n \in Nat /\ k \in 0 .. n /\ Len(b) = IF k + 1 <= n THEN n - (k + 1) + 1 ELSE 0
      BY <1>1, <2>2
    <3> HIDE DEF n, b
    <3>2. Len(b) = n - k
      BY <3>1
    <3> QED BY <3>2 DEF n
  <2>4. \A i \in 1 .. Len(s) - k : i \in 1 .. Len(s) - (k + 1) + 1 /\ k + 1 + i - 1 = k + i
    BY <1>1
  <2>5. \A i \in 1 .. Len(s) - k : b[i] = s[k + i]
    BY <2>2, <2>4
  <2> QED BY <2>2, <2>3, <2>5
<1>4. DOMAIN a = 1 .. k /\ DOMAIN b = 1 .. Len(s) - k
  BY <1>2, <1>3, LenProperties
<1> HIDE DEF a, b
<1>5. IsInjective(a)
  <2> SUFFICES ASSUME NEW i \in 1 .. k, NEW j \in 1 .. k, s[i] = s[j] PROVE i = j
    BY <1>2, <1>4 DEF IsInjective
  <2>1. i \in 1 .. Len(s) /\ j \in 1 .. Len(s)
    BY <1>1
  <2> QED BY <1>1, <2>1 DEF IsInjective
<1>6. IsInjective(b)
  <2> SUFFICES ASSUME NEW i \in 1 .. Len(s) - k, NEW j \in 1 .. Len(s) - k, s[k + i] = s[k + j]
               PROVE  i = j
    BY <1>3, <1>4 DEF IsInjective
  <2>1. k + i \in 1 .. Len(s) /\ k + j \in 1 .. Len(s)
    BY <1>1
  <2>2. k + i = k + j
    BY <1>1, <2>1 DEF IsInjective
  <2> QED BY <1>1, <2>2
<1>7. /\ Range(s) = {s[i] : i \in 1 .. Len(s)}
      /\ Range(a) = {s[i] : i \in 1 .. k}
      /\ Range(b) = {s[k + i] : i \in 1 .. Len(s) - k}
  <2>1. Range(s) = {s[i] : i \in 1 .. Len(s)}
    BY <1>1 DEF Range
  <2>2. Range(a) = {a[i] : i \in 1 .. k} /\ Range(b) = {b[i] : i \in 1 .. Len(s) - k}
    BY <1>4 DEF Range
  <2>3. {a[i] : i \in 1 .. k} = {s[i] : i \in 1 .. k}
    BY <1>2
  <2>4. {b[i] : i \in 1 .. Len(s) - k} = {s[k + i] : i \in 1 .. Len(s) - k}
    BY <1>3
  <2> QED BY <2>1, <2>2, <2>3, <2>4
<1>8. Range(a) \cup Range(b) = Range(s)
  <2>1. ASSUME NEW x \in Range(s) PROVE x \in Range(a) \cup Range(b)
    <3>1. PICK i \in 1 .. Len(s) : x = s[i]
      BY <1>7
    <3>2. CASE i <= k
      BY <1>7, <3>1, <3>2, <1>1
    <3>3. CASE i > k
      <4>1. i - k \in 1 .. Len(s) - k /\ k + (i - k) = i
        BY <1>1, <3>1, <3>3
      <4> QED BY <1>7, <3>1, <4>1
    <3> QED BY <1>1, <3>1, <3>2, <3>3
  <2>2. \A i \in 1 .. k : i \in 1 .. Len(s)
    BY <1>1
  <2>3. \A i \in 1 .. Len(s) - k : k + i \in 1 .. Len(s)
    BY <1>1
  <2> QED BY <1>7, <2>1, <2>2, <2>3
<1>9. Range(a) \cap Range(b) = {}
  <2> SUFFICES ASSUME NEW i \in 1 .. k, NEW j \in 1 .. Len(s) - k, s[i] = s[k + j] PROVE FALSE
    BY <1>7
  <2>1. i \in 1 .. Len(s) /\ k + j \in 1 .. Len(s) /\ i # k + j
    BY <1>1
  <2> QED BY <1>1, <2>1 DEF IsInjective
<1>10. QED BY <1>2, <1>3, <1>5, <1>6, <1>8, <1>9 DEF a, b

(* Two lists without repetitions and without common elements. *)
LEMMA ConcatFacts ==
  ASSUME NEW S, NEW a \in Seq(S), NEW b \in Seq(S), IsInjective(a), IsInjective(b),
         Range(a) \cap Range(b) = {}
  PROVE  /\ a \o b \in Seq(S) /\ Len(a \o b) = Len(a) + Len(b)
         /\ IsInjective(a \o b)
         /\ Range(a \o b) = Range(a) \cup Range(b)
<1>1. /\ a \o b \in Seq(S) /\ Len(a \o b) = Len(a) + Len(b)
      /\ \A i \in 1 .. Len(a) + Len(b) :
           (a \o b)[i] = IF i <= Len(a) THEN a[i] ELSE b[i - Len(a)]
  BY ConcatProperties
<1>2. /\ Len(a) \in Nat /\ Len(b) \in Nat
      /\ DOMAIN a = 1 .. Len(a) /\ DOMAIN b = 1 .. Len(b)
      /\ DOMAIN (a \o b) = 1 .. Len(a) + Len(b)
  BY <1>1, LenProperties
<1>3. IsInjective(a \o b)
  <2> SUFFICES ASSUME NEW i \in 1 .. Len(a) + Len(b), NEW j \in 1 .. Len(a) + Len(b),
                      (a \o b)[i] = (a \o b)[j]
               PROVE  i = j
    BY <1>2 DEF IsInjective
  <2>1. CASE i <= Len(a) /\ j <= Len(a)
    <3>1. i \in DOMAIN a /\ j \in DOMAIN a /\ a[i] = a[j]
      BY <1>1, <1>2, <2>1
    <3> QED BY <3>1 DEF IsInjective
  <2>2. CASE i > Len(a) /\ j > Len(a)
    <3>1. i - Len(a) \in DOMAIN b /\ j - Len(a) \in DOMAIN b /\ b[i - Len(a)] = b[j - Len(a)]
      BY <1>1, <1>2, <2>2
    <3>2. i - Len(a) = j - Len(a)
      BY <3>1 DEF IsInjective
    <3> QED BY <1>2, <3>2
  <2>3. CASE i <= Len(a) /\ j > Len(a)
    <3>1. i \in DOMAIN a /\ j - Len(a) \in DOMAIN b /\ a[i] = b[j - Len(a)]
      BY <1>1, <1>2, <2>3
    <3> QED BY <3>1 DEF Range
  <2>4. CASE i > Len(a) /\ j <= Len(a)
    <3>1. i - Len(a) \in DOMAIN b /\ j \in DOMAIN a /\ a[j] = b[i - Len(a)]
      BY <1>1, <1>2, <2>4
    <3> QED BY <3>1 DEF Range
  <2> QED BY <1>2, <2>1, <2>2, <2>3, <2>4
<1>4. Range(a \o b) = Range(a) \cup Range(b)
  BY RangeConcatenation
<1> QED BY <1>1, <1>3, <1>4

(* The list of the elements of a finite set. *)
LEMMA SetToSeqFacts ==
  ASSUME NEW S, IsFiniteSet(S)
  PROVE  /\ SetToSeq(S) \in Seq(S) /\ Len(SetToSeq(S)) = Cardinality(S)
         /\ IsInjective(SetToSeq(S))
         /\ Range(SetToSeq(S)) = S
<1> DEFINE n == Cardinality(S)
           f == SetToSeq(S)
<1>1. n \in Nat /\ Bijection(1 .. n, S) # {}
  BY FS_CardinalityType DEF ExistsBijection
<1>2. \E g \in [1 .. n -> S] : IsInjective(g)
  BY <1>1 DEF Bijection, Injection
<1>3. f \in [1 .. n -> S] /\ IsInjective(f)
  BY <1>2 DEF SetToSeq
<1> HIDE DEF f, n
<1>4. Cardinality(1 .. n) = n /\ IsFiniteSet(1 .. n)
  BY <1>1, FS_Interval
<1>5. f \in Injection(1 .. n, S)
  BY <1>3 DEF Injection
<1>6. f \in Surjection(1 .. n, S)
  BY <1>4, <1>5, FS_Injection DEF n
<1>7. Range(f) = S
  BY <1>3, <1>6 DEF Range, Surjection
<1>8. f \in Seq(S) /\ Len(f) = n
  <2>1. f \in Seq(S)
    BY <1>1, <1>3, SeqDef
  <2>2. DOMAIN f = 1 .. n /\ DOMAIN f = 1 .. Len(f) /\ Len(f) \in Nat
    BY <1>3, <2>1, LenProperties
  <2> QED BY <1>1, <2>1, <2>2
<1> QED BY <1>3, <1>7, <1>8 DEF f, n

(* A list without repetitions has as many elements as entries. *)
LEMMA RangeCounted ==
  ASSUME NEW S, NEW s \in Seq(S), IsInjective(s)
  PROVE  IsFiniteSet(Range(s)) /\ Cardinality(Range(s)) = Len(s)
<1>1. Len(s) \in Nat /\ s \in [1 .. Len(s) -> S] /\ DOMAIN s = 1 .. Len(s)
  BY LenProperties
<1>2. s \in Bijection(1 .. Len(s), Range(s))
  <2>1. s \in [1 .. Len(s) -> Range(s)]
    BY <1>1 DEF Range
  <2>2. \A x \in Range(s) : \E i \in 1 .. Len(s) : s[i] = x
    BY <1>1 DEF Range
  <2> QED BY <2>1, <2>2 DEF Bijection, Injection, Surjection
<1>3. ExistsBijection(1 .. Len(s), Range(s))
  BY <1>2 DEF ExistsBijection
<1>4. IsFiniteSet(1 .. Len(s)) /\ Cardinality(1 .. Len(s)) = Len(s)
  BY <1>1, FS_Interval
<1> QED BY <1>3, <1>4, FS_Bijection

-----------------------------------------------------------------------------
(* The inductive invariant. *)

Where == {"run", "maintain"} \cup Asleep \cup Woken

Types ==
  /\ avail \in Seq(Res) /\ nold \in 0 .. Len(avail)
  /\ ttl \in BOOLEAN /\ timeout \in BOOLEAN /\ destroyed \in BOOLEAN
  /\ pc \in [Threads -> Where]
  /\ held \in [Threads -> Res \cup {None}]
  /\ dropped \in Nat

HeldSet == {held[t] : t \in Holders}

(* Every resource has one place: one entry of the list or one thread,      *)
(* which is not inside apr_reslist_acquire then.                           *)
Owned ==
  /\ IsInjective(avail)
  /\ \A t, u \in Holders : held[t] = held[u] => t = u
  /\ \A t \in Holders : pc[t] = "run"
  /\ HeldSet \cap Range(avail) = {}
  /\ live = Range(avail) \cup HeldSet
  /\ nidle = Len(avail)
  /\ ntotal = nidle + Cardinality(Holders)
  /\ ntotal <= hmax

Sound == Types /\ Owned

(* The holders are finitely many, and so are the resources they hold. *)
LEMMA HoldersFinite ==
  ASSUME held \in [Threads -> Res \cup {None}]
  PROVE  /\ IsFiniteSet(Holders) /\ Cardinality(Holders) \in Nat
         /\ HeldSet \subseteq Res /\ IsFiniteSet(HeldSet)
<1>1. IsFiniteSet(Holders)
  BY FS_Subset, FiniteAssumption DEF Holders
<1>2. HeldSet \subseteq Res
  BY DEF HeldSet, Holders
<1>3. IsFiniteSet(HeldSet)
  BY <1>2, FS_Subset, FiniteAssumption
<1> QED BY <1>1, <1>2, <1>3, FS_CardinalityType

(* Everything Accounted says follows: what is live is counted twice, as    *)
(* entries and threads and as resources.                                   *)
LEMMA SoundAccounted == Sound => Accounted
<1> SUFFICES ASSUME Sound PROVE Accounted
  OBVIOUS
<1>1. IsFiniteSet(Range(avail)) /\ Cardinality(Range(avail)) = Len(avail)
  BY RangeCounted DEF Sound, Types, Owned
<1>2. IsFiniteSet(HeldSet) /\ IsFiniteSet(Holders) /\ Cardinality(Holders) \in Nat
  BY HoldersFinite DEF Sound, Types
<1>3. Cardinality(HeldSet) = Cardinality(Holders)
  <2> DEFINE f == [t \in Holders |-> held[t]]
  <2>1. f \in [Holders -> HeldSet] /\ DOMAIN f = Holders
    BY DEF HeldSet
  <2>2. IsInjective(f)
    BY DEF Sound, Owned, IsInjective
  <2>3. \A x \in HeldSet : \E t \in Holders : f[t] = x
    BY DEF HeldSet
  <2>4. f \in Bijection(Holders, HeldSet)
    BY <2>1, <2>2, <2>3 DEF Bijection, Injection, Surjection
  <2>5. ExistsBijection(Holders, HeldSet)
    BY <2>4 DEF ExistsBijection
  <2> QED BY <1>2, <2>5, FS_Bijection
<1>4. Cardinality(live) = Len(avail) + Cardinality(Holders)
  <2>1. Cardinality(HeldSet \cap Range(avail)) = 0
    BY FS_EmptySet DEF Sound, Owned
  <2>2. Cardinality(HeldSet \cup Range(avail)) =
          Cardinality(HeldSet) + Cardinality(Range(avail)) - Cardinality(HeldSet \cap Range(avail))
    BY <1>1, <1>2, FS_Union
  <2>3. live = HeldSet \cup Range(avail)
    BY DEF Sound, Owned
  <2>4. Len(avail) \in Nat
    BY LenProperties DEF Sound, Types
  <2> QED BY <1>1, <1>2, <1>3, <2>1, <2>2, <2>3, <2>4
<1> QED BY <1>4 DEF Sound, Owned, Accounted, HeldSet

-----------------------------------------------------------------------------
(* What the steps do to the holders and to the waiting threads. *)

(* A thread that held nothing gets the resource r. *)
LEMMA GiveFacts ==
  ASSUME held \in [Threads -> Res \cup {None}], NEW t \in Threads, held[t] = None,
         NEW r \in Res, held' = [held EXCEPT ![t] = r]
  PROVE  /\ held' \in [Threads -> Res \cup {None}]
         /\ Holders' = Holders \cup {t}
         /\ Cardinality(Holders') = Cardinality(Holders) + 1
         /\ HeldSet' = HeldSet \cup {r}
         /\ \A u \in Holders : held'[u] = held[u]
         /\ held'[t] = r /\ t \notin Holders
<1>1. /\ held' \in [Threads -> Res \cup {None}] /\ held'[t] = r
      /\ \A u \in Threads : u # t => held'[u] = held[u]
  OBVIOUS
<1>2. Holders' = Holders \cup {t} /\ t \notin Holders
  BY <1>1, NoneAssumption DEF Holders
<1>3. Cardinality(Holders') = Cardinality(Holders) + 1
  BY <1>2, HoldersFinite, FS_AddElement
<1>4. \A u \in Holders : held'[u] = held[u]
  BY <1>1 DEF Holders
<1>5. HeldSet' = HeldSet \cup {r}
  BY <1>1, <1>2, <1>4 DEF HeldSet
<1> QED BY <1>1, <1>2, <1>3, <1>4, <1>5

(* A thread gives its resource back. *)
LEMMA BackFacts ==
  ASSUME held \in [Threads -> Res \cup {None}], NEW t \in Threads, held[t] # None,
         \A u, v \in Holders : held[u] = held[v] => u = v,
         held' = [held EXCEPT ![t] = None]
  PROVE  /\ held' \in [Threads -> Res \cup {None}]
         /\ Holders' = Holders \ {t}
         /\ Cardinality(Holders') = Cardinality(Holders) - 1
         /\ HeldSet' = HeldSet \ {held[t]}
         /\ \A u \in Holders' : held'[u] = held[u]
         /\ t \in Holders /\ held[t] \in HeldSet /\ held[t] \in Res
<1>1. /\ held' \in [Threads -> Res \cup {None}] /\ held'[t] = None
      /\ \A u \in Threads : u # t => held'[u] = held[u]
  OBVIOUS
<1>2. Holders' = Holders \ {t} /\ t \in Holders
  BY <1>1 DEF Holders
<1>3. Cardinality(Holders') = Cardinality(Holders) - 1
  BY <1>2, HoldersFinite, FS_RemoveElement
<1>4. \A u \in Holders' : held'[u] = held[u]
  BY <1>1, <1>2 DEF Holders
<1>5. held[t] \in HeldSet /\ held[t] \in Res
  BY <1>2 DEF HeldSet
<1>6. HeldSet' = HeldSet \ {held[t]}
  <2>1. HeldSet' = {held[u] : u \in Holders \ {t}}
    BY <1>2, <1>4 DEF HeldSet
  <2>2. \A u \in Holders \ {t} : held[u] # held[t]
    BY <1>2
  <2> QED BY <2>1, <2>2 DEF HeldSet
<1> QED BY <1>1, <1>2, <1>3, <1>4, <1>5, <1>6

(* Where the threads are decides who sleeps and who was woken. *)
LEMMA AtFinite ==
  ASSUME NEW p, NEW S
  PROVE  /\ At(p, S) \subseteq Threads /\ IsFiniteSet(At(p, S))
         /\ Cardinality(At(p, S)) \in Nat
<1>1. At(p, S) \subseteq Threads
  BY DEF At
<1>2. IsFiniteSet(At(p, S))
  BY <1>1, FS_Subset, FiniteAssumption
<1> QED BY <1>1, <1>2, FS_CardinalityType

(* n signals wake n threads, or nobody sleeps after them. *)
LEMMA SignalFacts ==
  ASSUME NEW p \in [Threads -> Where], NEW n \in Nat, NEW q \in Signal(p, n)
  PROVE  /\ q \in [Threads -> Where]
         /\ \A u \in Threads : q[u] = p[u] \/ (p[u] \in Asleep /\ q[u] \in Woken)
         /\ At(q, Asleep) # {} =>
              /\ At(p, Asleep) # {}
              /\ Cardinality(At(q, Woken)) = Cardinality(At(p, Woken)) + n
<1> DEFINE k == Cardinality(At(p, Asleep))
<1>1. k \in Nat /\ IsFiniteSet(At(p, Asleep))
  BY AtFinite
<1>2. PICK W \in kSubset(IF n < k THEN n ELSE k, At(p, Asleep)) :
        q = [t \in Threads |-> IF t \in W THEN WakeUp(p[t]) ELSE p[t]]
  BY DEF Signal
<1>3. W \subseteq At(p, Asleep) /\ Cardinality(W) = IF n < k THEN n ELSE k
  BY <1>2 DEF kSubset
<1>4. \A u \in W : u \in Threads /\ p[u] \in Asleep /\ q[u] \in Woken
  BY <1>2, <1>3 DEF At, Asleep, Woken, WakeUp
<1>5. \A u \in Threads \ W : q[u] = p[u]
  BY <1>2
<1>6. q \in [Threads -> Where]
  BY <1>2, <1>4, <1>5 DEF Where
<1>7. ASSUME At(q, Asleep) # {}
      PROVE  At(p, Asleep) # {} /\ Cardinality(At(q, Woken)) = Cardinality(At(p, Woken)) + n
  <2>1. At(q, Asleep) = At(p, Asleep) \ W /\ At(q, Woken) = At(p, Woken) \cup W
    BY <1>4, <1>5 DEF At, Asleep, Woken
  <2>2. W # At(p, Asleep)
    BY <1>7, <2>1
  <2>3. IsFiniteSet(W) /\ Cardinality(W) # k
    BY <1>1, <1>3, <2>2, FS_Subset
  <2>4. Cardinality(W) = n
    BY <1>1, <1>3, <2>3
  <2>5. At(p, Woken) \cap W = {}
    BY <1>4 DEF At, Asleep, Woken
  <2>6. Cardinality(At(p, Woken) \cup W) = Cardinality(At(p, Woken)) + Cardinality(W) - 0
    BY <2>3, <2>5, AtFinite, FS_Union, FS_EmptySet
  <2>7. Cardinality(At(p, Woken)) \in Nat
    BY AtFinite
  <2> QED BY <1>7, <2>1, <2>4, <2>6, <2>7
<1>8. \A u \in Threads : q[u] = p[u] \/ (p[u] \in Asleep /\ q[u] \in Woken)
  BY <1>4, <1>5
<1> QED BY <1>6, <1>7, <1>8

-----------------------------------------------------------------------------
(* The steps preserve Sound and NoLostWakeup. *)

(* The part of Owned that is about the threads. *)
Apart ==
  /\ \A t, u \in Holders : held[t] = held[u] => t = u
  /\ \A t \in Holders : pc[t] = "run"

(* A resource nobody holds is given to t, which returns from acquire. *)
LEMMA GiveApart ==
  ASSUME Sound, NEW t \in Threads, held[t] = None, NEW r \in Res \ HeldSet,
         held' = [held EXCEPT ![t] = r], pc' = Return(t)
  PROVE  Apart' /\ pc' \in [Threads -> Where]
<1>1. pc \in [Threads -> Where] /\ pc'[t] = "run" /\ \A u \in Threads : u # t => pc'[u] = pc[u]
  BY DEF Sound, Types, Return
<1>2. pc' \in [Threads -> Where]
  BY <1>1 DEF Return, Where
<1>3. /\ Holders' = Holders \cup {t} /\ held'[t] = r /\ t \notin Holders
      /\ \A u \in Holders : held'[u] = held[u]
  BY GiveFacts DEF Sound, Types
<1>4. \A u \in Holders : held[u] # r
  BY DEF HeldSet
<1>5. \A u, v \in Holders' : held'[u] = held'[v] => u = v
  BY <1>3, <1>4 DEF Sound, Owned
<1>6. \A u \in Holders' : pc'[u] = "run"
  BY <1>1, <1>3 DEF Sound, Owned, Holders
<1> QED BY <1>2, <1>5, <1>6 DEF Apart

(* t, which holds nothing, moves; nobody gets or gives back a resource. *)
LEMMA MoveApart ==
  ASSUME Sound, NEW t \in Threads, held[t] = None, NEW w \in Where,
         held' = held, pc' = [pc EXCEPT ![t] = w]
  PROVE  Apart' /\ pc' \in [Threads -> Where] /\ Holders' = Holders /\ HeldSet' = HeldSet
<1>1. pc \in [Threads -> Where] /\ \A u \in Threads : u # t => pc'[u] = pc[u]
  BY DEF Sound, Types
<1>2. pc' \in [Threads -> Where]
  BY <1>1
<1>3. Holders' = Holders /\ HeldSet' = HeldSet
  BY DEF Holders, HeldSet
<1>4. \A u \in Holders : u \in Threads /\ u # t
  BY DEF Holders
<1> QED BY <1>1, <1>2, <1>3, <1>4 DEF Apart, Sound, Owned

(* A woken or sleeping thread holds nothing. *)
LEMMA WaitingHoldsNothing ==
  ASSUME Sound, NEW t \in Threads, pc[t] # "run"
  PROVE  held[t] = None
BY DEF Sound, Owned, Holders

(* The count of dropped wakeups stays a number. *)
LEMMA DroppedType ==
  ASSUME NEW p, NEW d \in Nat
  PROVE  Dropped(p, d) \in Nat
BY LimitsAssumption DEF Dropped

(* pop_resource *)
LEMMA TakeSound ==
  ASSUME Sound, NEW t \in Threads, held[t] = None, Take(t), dropped' \in Nat,
         UNCHANGED <<ttl, timeout, destroyed>>
  PROVE  Sound' /\ Cardinality(Holders') = Cardinality(Holders) + 1
<1>1. /\ avail \in Seq(Res) /\ Len(avail) \in Nat /\ IsInjective(avail) /\ nidle = Len(avail)
      /\ held \in [Threads -> Res \cup {None}] /\ nold \in 0 .. Len(avail)
  BY LenProperties DEF Sound, Types, Owned
<1>2. avail # << >>
  BY <1>1, EmptySeq DEF Take
<1>3. /\ Head(avail) \in Res /\ avail' \in Seq(Res)
      /\ Len(avail') = Len(avail) - 1 /\ Len(avail) > 0
      /\ IsInjective(avail') /\ Head(avail) \in Range(avail)
      /\ Range(avail') = Range(avail) \ {Head(avail)}
  BY <1>1, <1>2, TailFacts DEF Take
<1>4. Head(avail) \notin HeldSet
  BY <1>3 DEF Sound, Owned
<1>5. /\ held' \in [Threads -> Res \cup {None}]
      /\ Cardinality(Holders') = Cardinality(Holders) + 1
      /\ HeldSet' = HeldSet \cup {Head(avail)}
  BY <1>1, <1>3, GiveFacts DEF Take
<1>6. Apart' /\ pc' \in [Threads -> Where]
  BY <1>3, <1>4, GiveApart DEF Take
<1>7. nidle' = Len(avail') /\ nold' \in 0 .. Len(avail')
  BY <1>1, <1>3 DEF Take
<1>8. Types'
  BY <1>3, <1>5, <1>6, <1>7 DEF Types, Sound
<1>9. ntotal' = nidle' + Cardinality(Holders') /\ ntotal' <= hmax
  BY <1>1, <1>5, HoldersFinite DEF Take, Sound, Owned
<1>10. HeldSet' \cap Range(avail') = {} /\ live' = Range(avail') \cup HeldSet'
  BY <1>3, <1>5 DEF Take, Sound, Owned
<1>11. Owned'
  BY <1>3, <1>6, <1>7, <1>9, <1>10 DEF Owned, Apart
<1> QED BY <1>5, <1>8, <1>11 DEF Sound

(* Blocking on, or filling a slot of, a list that is empty or whose        *)
(* entries have all expired.                                               *)
LEMMA WaitOrCreateSound ==
  ASSUME Sound, NEW t \in Threads, held[t] = None,
         WaitOrCreate(t, ntotal - nidle, live \ Range(avail)), dropped' \in Nat,
         UNCHANGED <<ttl, timeout, destroyed>>
  PROVE  /\ Sound'
         /\ \/ pc' = Sleep(t) /\ Cardinality(Holders') >= hmax
            \/ /\ pc' = Return(t) /\ held'[t] # None
               /\ Cardinality(Holders') = Cardinality(Holders) + 1
            \/ pc' = Return(t) /\ held'[t] = None /\ Holders' = Holders
<1> DEFINE tot == ntotal - nidle
           alive == live \ Range(avail)
<1>1. tot = Cardinality(Holders) /\ tot \in Nat /\ hmax \in Nat
  BY HoldersFinite, LimitsAssumption, LenProperties DEF Sound, Types, Owned
<1>2. alive = HeldSet
  BY DEF Sound, Owned
<1> HIDE DEF tot, alive
<1>3. WaitOrCreate(t, tot, alive)
  BY DEF tot, alive
<1>4. /\ avail' \in Seq(Res) /\ Len(avail') = 0 /\ IsInjective(avail') /\ Range(avail') = {}
      /\ nidle' = 0 /\ nold' = 0
  BY <1>3, EmptySeq DEF WaitOrCreate, IsInjective, Range
<1>5. held \in [Threads -> Res \cup {None}]
  BY DEF Sound, Types
<1>6. CASE /\ held' = held /\ ntotal' = tot /\ live' = alive
           /\ \/ tot >= hmax /\ pc' = Sleep(t)
              \/ tot < hmax /\ pc' = Return(t)
  <2>1. \E w \in Where : pc' = [pc EXCEPT ![t] = w]
    BY <1>6 DEF Sleep, Return, Where, Asleep
  <2>2. Apart' /\ pc' \in [Threads -> Where] /\ Holders' = Holders /\ HeldSet' = HeldSet
    BY <1>6, <2>1, MoveApart
  <2>3. Types'
    BY <1>4, <1>5, <1>6, <2>2 DEF Types, Sound
  <2>4. tot <= hmax
    BY <1>1, LenProperties DEF Sound, Owned, Types
  <2>5. Owned'
    BY <1>1, <1>2, <1>4, <1>6, <2>2, <2>4 DEF Owned, Apart
  <2> QED BY <1>1, <1>5, <1>6, <2>2, <2>3, <2>5 DEF Sound
<1>7. CASE /\ tot < hmax /\ pc' = Return(t)
           /\ \E r \in Res \ alive : /\ held' = [held EXCEPT ![t] = r]
                                     /\ live' = alive \cup {r}
                                     /\ ntotal' = tot + 1
  <2>1. PICK r \in Res \ HeldSet : /\ held' = [held EXCEPT ![t] = r]
                                   /\ live' = HeldSet \cup {r}
                                   /\ ntotal' = tot + 1
    BY <1>2, <1>7
  <2>2. /\ held' \in [Threads -> Res \cup {None}] /\ held'[t] = r
        /\ Cardinality(Holders') = Cardinality(Holders) + 1
        /\ HeldSet' = HeldSet \cup {r}
    BY <1>5, <2>1, GiveFacts
  <2>3. Apart' /\ pc' \in [Threads -> Where]
    BY <1>7, <2>1, GiveApart
  <2>4. Types'
    BY <1>4, <2>2, <2>3 DEF Types, Sound
  <2>5. Owned'
    BY <1>1, <1>4, <1>7, <2>1, <2>2, <2>3 DEF Owned, Apart
  <2> QED BY <1>7, <2>2, <2>4, <2>5, NoneAssumption DEF Sound
<1> QED BY <1>3, <1>6, <1>7 DEF WaitOrCreate

(* On an empty list nothing has to be expired first. *)
LEMMA EmptyWaitOrCreate ==
  ASSUME Sound, NEW t, nidle <= 0, WaitOrCreate(t, ntotal, live)
  PROVE  WaitOrCreate(t, ntotal - nidle, live \ Range(avail))
<1>1. Len(avail) \in Nat /\ nidle = Len(avail) /\ nidle = 0 /\ avail \in Seq(Res)
  BY LenProperties DEF Sound, Types, Owned
<1>2. Range(avail) = {}
  <2>1. avail = << >>
    BY <1>1, EmptySeq
  <2> QED BY <2>1 DEF Range
<1>3. ntotal - nidle = ntotal /\ live \ Range(avail) = live
  BY <1>1, <1>2, HoldersFinite DEF Sound, Types, Owned
<1> QED BY <1>3

(* A step after which every thread still holds what it held. *)
LEMMA SameApart ==
  ASSUME Sound, held' = held, \A u \in Threads : pc[u] = "run" => pc'[u] = "run"
  PROVE  Apart' /\ Holders' = Holders /\ HeldSet' = HeldSet
<1>1. Holders' = Holders /\ HeldSet' = HeldSet
  BY DEF Holders, HeldSet
<1>2. \A u \in Holders : u \in Threads
  BY DEF Holders
<1> QED BY <1>1, <1>2 DEF Apart, Sound, Owned

(* A step in which t gives its resource back. *)
LEMMA BackApart ==
  ASSUME Sound, NEW t \in Threads, held[t] # None, held' = [held EXCEPT ![t] = None],
         \A u \in Threads \ {t} : pc[u] = "run" => pc'[u] = "run"
  PROVE  Apart'
<1>1. Holders' = Holders \ {t} /\ \A u \in Holders' : held'[u] = held[u]
  BY BackFacts DEF Sound, Types, Owned
<1>2. \A u \in Holders : u \in Threads
  BY DEF Holders
<1> QED BY <1>1, <1>2 DEF Apart, Sound, Owned

(* k entries of the list are destroyed. *)
LEMMA ExpireSound ==
  ASSUME Sound, held' = held, pc' \in [Threads -> Where], dropped' \in Nat,
         \A u \in Threads : pc[u] = "run" => pc'[u] = "run",
         UNCHANGED <<ttl, timeout, destroyed>>,
         NEW k \in Nat, NEW gone,
         avail' \in Seq(Res), IsInjective(avail'), Len(avail') = Len(avail) - k,
         Range(avail') \cup gone = Range(avail), Range(avail') \cap gone = {},
         live' = live \ gone, nidle' = nidle - k, ntotal' = ntotal - k,
         nold' \in 0 .. Len(avail')
  PROVE  Sound' /\ Holders' = Holders
<1>1. Apart' /\ Holders' = Holders /\ HeldSet' = HeldSet
  BY SameApart
<1>2. Types'
  BY DEF Types, Sound
<1>3. Len(avail) \in Nat /\ Cardinality(Holders) \in Nat /\ hmax \in Nat
  BY HoldersFinite, LenProperties, LimitsAssumption DEF Sound, Types
<1>4. nidle' = Len(avail') /\ ntotal' = nidle' + Cardinality(Holders') /\ ntotal' <= hmax
  BY <1>1, <1>3 DEF Sound, Owned
<1>5. HeldSet' \cap Range(avail') = {} /\ live' = Range(avail') \cup HeldSet'
  BY <1>1 DEF Sound, Owned
<1> QED BY <1>1, <1>2, <1>4, <1>5 DEF Sound, Owned, Apart

(* A destructor fails while apr_reslist_acquire expires the list. *)
LEMMA AcquireFailsSound ==
  ASSUME Sound, NEW t \in Threads, AcquireFails(t), dropped' \in Nat,
         UNCHANGED <<ttl, timeout, destroyed>>
  PROVE  Sound' /\ Holders' = Holders
<1>1. PICK k \in 1 .. nidle :
        /\ avail' = SubSeq(avail, k + 1, Len(avail))
        /\ live' = live \ Range(SubSeq(avail, 1, k))
        /\ nidle' = nidle - k /\ ntotal' = ntotal - k /\ nold' = nold - k
  BY DEF AcquireFails
<1>2. /\ avail \in Seq(Res) /\ Len(avail) \in Nat /\ IsInjective(avail) /\ nidle = Len(avail)
      /\ nold = Len(avail) /\ pc' = pc /\ held' = held /\ pc \in [Threads -> Where]
  BY LenProperties DEF Sound, Types, Owned, AcquireFails, HeadExpired
<1>3. k \in 0 .. Len(avail) /\ k \in Nat
  BY <1>1, <1>2
<1> DEFINE gone == Range(SubSeq(avail, 1, k))
<1>4. /\ avail' \in Seq(Res) /\ Len(avail') = Len(avail) - k /\ IsInjective(avail')
      /\ gone \cup Range(avail') = Range(avail) /\ gone \cap Range(avail') = {}
  BY <1>1, <1>2, <1>3, CutFacts
<1>5. live' = live \ gone
  BY <1>1
<1> HIDE DEF gone
<1>6. nold' \in 0 .. Len(avail')
  BY <1>1, <1>2, <1>3, <1>4
<1> QED BY <1>1, <1>2, <1>3, <1>4, <1>5, <1>6, ExpireSound

(* Entries are expired from the end of the list by apr_reslist_maintain. *)
LEMMA MaintainExpiresSound ==
  ASSUME Sound, NEW t \in Threads, MaintainExpires(t), dropped' \in Nat,
         UNCHANGED <<ttl, timeout, destroyed, held>>
  PROVE  Sound' /\ Holders' = Holders
<1>1. PICK k \in 0 .. Len(avail) :
        /\ avail' = SubSeq(avail, 1, Len(avail) - k)
        /\ live' = live \ Range(SubSeq(avail, Len(avail) - k + 1, Len(avail)))
        /\ nidle' = nidle - k /\ ntotal' = ntotal - k
        /\ nold' = IF k < nold THEN nold - k ELSE 0
  BY DEF MaintainExpires
<1>2. /\ avail \in Seq(Res) /\ Len(avail) \in Nat /\ IsInjective(avail) /\ nold \in 0 .. Len(avail)
      /\ pc \in [Threads -> Where] /\ pc' = [pc EXCEPT ![t] = "run"]
  BY LenProperties DEF Sound, Types, Owned, MaintainExpires, Return
<1> DEFINE j == Len(avail) - k
           gone == Range(SubSeq(avail, j + 1, Len(avail)))
<1>3. j \in 0 .. Len(avail) /\ k \in Nat /\ Len(avail) - j = k /\ j = Len(avail) - k
  BY <1>1, <1>2
<1>4. avail' = SubSeq(avail, 1, j) /\ live' = live \ gone
  BY <1>1
<1> HIDE DEF j
<1>5. /\ avail' \in Seq(Res) /\ Len(avail') = j /\ IsInjective(avail')
      /\ Range(avail') \cup gone = Range(avail) /\ Range(avail') \cap gone = {}
  BY <1>2, <1>3, <1>4, CutFacts
<1> HIDE DEF gone
<1>6. nold' \in 0 .. Len(avail') /\ Len(avail') = Len(avail) - k
  BY <1>1, <1>2, <1>3, <1>5
<1>7. pc' \in [Threads -> Where] /\ \A u \in Threads : pc[u] = "run" => pc'[u] = "run"
  BY <1>2 DEF Where
<1> QED BY <1>1, <1>3, <1>4, <1>5, <1>6, <1>7, ExpireSound

(* Resources are created by apr_reslist_maintain. *)
LEMMA MaintainCreatesSound ==
  ASSUME Sound, NEW t \in Threads, MaintainCreates(t), dropped' \in Nat,
         UNCHANGED <<ttl, timeout, destroyed, held>>
  PROVE  Sound' /\ Holders' = Holders /\ \E j \in Nat : pc' \in Signal(Return(t), j)
<1>0. PICK j \in 0 .. Wanted : \E new \in kSubset(j, Res \ live) :
        /\ avail' = SetToSeq(new) \o avail
        /\ live' = live \cup new
        /\ nidle' = nidle + j /\ ntotal' = ntotal + j
        /\ pc' \in Signal(Return(t), j)
  BY DEF MaintainCreates
<1>1. PICK new \in kSubset(j, Res \ live) :
        /\ avail' = SetToSeq(new) \o avail
        /\ live' = live \cup new
        /\ nidle' = nidle + j /\ ntotal' = ntotal + j
        /\ pc' \in Signal(Return(t), j)
  BY <1>0
<1>2. /\ avail \in Seq(Res) /\ Len(avail) \in Nat /\ IsInjective(avail) /\ nold \in 0 .. Len(avail)
      /\ pc \in [Threads -> Where] /\ nidle = Len(avail)
      /\ ntotal = nidle + Cardinality(Holders) /\ Cardinality(Holders) \in Nat
  BY LenProperties, HoldersFinite DEF Sound, Types, Owned
<1>3. j \in Nat /\ ntotal + j <= hmax
  <2>1. j \in 0 .. Wanted
    OBVIOUS
  <2>2. Len(avail) \in Nat /\ Cardinality(Holders) \in Nat /\ nidle = Len(avail)
        /\ ntotal = nidle + Cardinality(Holders)
    BY <1>2
  <2>3. nidle \in Nat /\ ntotal \in Nat
    BY <2>2
  <2> QED BY <2>1, <2>3, LimitsAssumption DEF Wanted
<1>4. new \subseteq Res /\ new \cap live = {} /\ IsFiniteSet(new) /\ Cardinality(new) = j
  BY <1>1, FS_Subset, FiniteAssumption DEF kSubset
<1>5. /\ SetToSeq(new) \in Seq(new) /\ Len(SetToSeq(new)) = j
      /\ IsInjective(SetToSeq(new)) /\ Range(SetToSeq(new)) = new
  BY <1>4, SetToSeqFacts
<1>6. SetToSeq(new) \in Seq(Res)
  BY <1>4, <1>5, SeqDef
<1>7. Range(avail) \cap new = {} /\ HeldSet \cap new = {}
  BY <1>4 DEF Sound, Owned
<1>8. /\ avail' \in Seq(Res) /\ Len(avail') = j + Len(avail) /\ IsInjective(avail')
      /\ Range(avail') = new \cup Range(avail)
  <2> DEFINE a == SetToSeq(new)
  <2>1. a \in Seq(Res) /\ Len(a) = j /\ IsInjective(a) /\ Range(a) \cap Range(avail) = {} /\ Range(a) = new
    BY <1>5, <1>6, <1>7
  <2>2. avail' = a \o avail
    BY <1>1
  <2> HIDE DEF a
  <2>3. /\ a \o avail \in Seq(Res) /\ Len(a \o avail) = Len(a) + Len(avail)
        /\ IsInjective(a \o avail) /\ Range(a \o avail) = Range(a) \cup Range(avail)
    BY <1>2, <2>1, ConcatFacts
  <2> QED BY <2>1, <2>2, <2>3
<1>9. Return(t) \in [Threads -> Where] /\ \A u \in Threads : pc[u] = "run" => Return(t)[u] = "run"
  BY <1>2 DEF Return, Where
<1>10. pc' \in [Threads -> Where] /\ \A u \in Threads : pc[u] = "run" => pc'[u] = "run"
  <2>1. \A u \in Threads : pc'[u] = Return(t)[u] \/ Return(t)[u] \in Asleep
    BY <1>1, <1>3, <1>9, SignalFacts
  <2> QED BY <1>1, <1>3, <1>9, <2>1, SignalFacts DEF Asleep
<1>11. Apart' /\ Holders' = Holders /\ HeldSet' = HeldSet
  BY <1>10, SameApart
<1>12. nold' \in 0 .. Len(avail') /\ nidle' = Len(avail')
  BY <1>1, <1>2, <1>3, <1>8 DEF MaintainCreates
<1>13. Types'
  BY <1>8, <1>10, <1>12 DEF Types, Sound
<1>14. ntotal' = nidle' + Cardinality(Holders') /\ ntotal' <= hmax
  BY <1>1, <1>2, <1>3, <1>11
<1>15. HeldSet' \cap Range(avail') = {} /\ live' = Range(avail') \cup HeldSet'
  BY <1>1, <1>7, <1>8, <1>11 DEF Sound, Owned
<1>16. Owned'
  BY <1>8, <1>11, <1>12, <1>14, <1>15 DEF Owned, Apart
<1> QED BY <1>1, <1>3, <1>11, <1>13, <1>16 DEF Sound

(* A signal leaves a running thread running. *)
LEMMA SignalRuns ==
  ASSUME NEW p \in [Threads -> Where], NEW n \in Nat, NEW q \in Signal(p, n)
  PROVE  q \in [Threads -> Where] /\ \A u \in Threads : p[u] = "run" => q[u] = "run"
<1>1. q \in [Threads -> Where] /\ \A u \in Threads : q[u] = p[u] \/ p[u] \in Asleep
  BY SignalFacts
<1> QED BY <1>1 DEF Asleep

(* apr_reslist_release pushes the resource on the list. *)
LEMMA ReleaseSound ==
  ASSUME Sound, NEW t \in Threads, apr_reslist_release(t), dropped' \in Nat
  PROVE  Sound' /\ Cardinality(Holders') = Cardinality(Holders) - 1
<1>1. /\ avail \in Seq(Res) /\ Len(avail) \in Nat /\ IsInjective(avail) /\ nold \in 0 .. Len(avail)
      /\ pc \in [Threads -> Where] /\ nidle = Len(avail)
      /\ held \in [Threads -> Res \cup {None}] /\ held[t] # None
      /\ ntotal = nidle + Cardinality(Holders) /\ Cardinality(Holders) \in Nat
  BY LenProperties, HoldersFinite DEF Sound, Types, Owned, apr_reslist_release
<1>2. /\ held' \in [Threads -> Res \cup {None}]
      /\ Cardinality(Holders') = Cardinality(Holders) - 1
      /\ HeldSet' = HeldSet \ {held[t]} /\ held[t] \in HeldSet /\ held[t] \in Res
  BY <1>1, BackFacts DEF Sound, Owned, apr_reslist_release
<1> DEFINE p == [pc EXCEPT ![t] = "maintain"]
<1>3. /\ p \in [Threads -> Where] /\ pc' \in Signal(p, 1)
      /\ \A u \in Threads \ {t} : p[u] = pc[u]
  BY <1>1 DEF Where, apr_reslist_release
<1> HIDE DEF p
<1>4. pc' \in [Threads -> Where] /\ \A u \in Threads : p[u] = "run" => pc'[u] = "run"
  BY <1>3, SignalRuns
<1>5. Apart'
  BY <1>1, <1>3, <1>4, BackApart DEF apr_reslist_release
<1> DEFINE a == <<held[t]>>
<1>6. a \in Seq(Res) /\ Len(a) = 1 /\ IsInjective(a) /\ Range(a) = {held[t]}
  BY <1>2 DEF IsInjective, Range
<1>7. avail' = a \o avail
  BY DEF apr_reslist_release
<1> HIDE DEF a
<1>8. Range(a) \cap Range(avail) = {}
  BY <1>2, <1>6 DEF Sound, Owned
<1>9. /\ a \o avail \in Seq(Res) /\ Len(a \o avail) = Len(a) + Len(avail)
      /\ IsInjective(a \o avail) /\ Range(a \o avail) = Range(a) \cup Range(avail)
  <2>1. avail \in Seq(Res) /\ IsInjective(avail) /\ a \in Seq(Res) /\ IsInjective(a)
    BY <1>1, <1>6
  <2> QED BY <1>8, <2>1, ConcatFacts
<1>10. /\ avail' \in Seq(Res) /\ Len(avail') = 1 + Len(avail) /\ IsInjective(avail')
       /\ Range(avail') = {held[t]} \cup Range(avail)
  BY <1>6, <1>7, <1>9
<1>11. nidle' = Len(avail') /\ nold' \in 0 .. Len(avail')
  BY <1>1, <1>10 DEF apr_reslist_release
<1>12. Types'
  BY <1>2, <1>4, <1>10, <1>11 DEF Types, Sound, apr_reslist_release
<1>13. ntotal' = nidle' + Cardinality(Holders') /\ ntotal' <= hmax
  BY <1>1, <1>2 DEF Sound, Owned, apr_reslist_release
<1>14. HeldSet' \cap Range(avail') = {} /\ live' = Range(avail') \cup HeldSet'
  BY <1>2, <1>10 DEF Sound, Owned, apr_reslist_release
<1>15. Owned'
  BY <1>5, <1>10, <1>11, <1>13, <1>14 DEF Owned, Apart
<1> QED BY <1>2, <1>12, <1>15 DEF Sound

(* apr_reslist_invalidate destroys the resource. *)
LEMMA InvalidateSound ==
  ASSUME Sound, NEW t \in Threads, apr_reslist_invalidate(t), dropped' \in Nat
  PROVE  Sound' /\ Cardinality(Holders') = Cardinality(Holders) - 1
<1>1. /\ Len(avail) \in Nat /\ pc \in [Threads -> Where] /\ nidle = Len(avail)
      /\ held \in [Threads -> Res \cup {None}] /\ held[t] # None
      /\ ntotal = nidle + Cardinality(Holders) /\ Cardinality(Holders) \in Nat /\ hmax \in Nat
  BY LenProperties, HoldersFinite, LimitsAssumption DEF Sound, Types, Owned, apr_reslist_invalidate
<1>2. /\ held' \in [Threads -> Res \cup {None}]
      /\ Cardinality(Holders') = Cardinality(Holders) - 1
      /\ HeldSet' = HeldSet \ {held[t]} /\ held[t] \in HeldSet
  BY <1>1, BackFacts DEF Sound, Owned, apr_reslist_invalidate
<1>3. pc' \in [Threads -> Where] /\ \A u \in Threads : pc[u] = "run" => pc'[u] = "run"
  BY <1>1, SignalRuns DEF apr_reslist_invalidate
<1>4. Apart'
  BY <1>1, <1>3, BackApart DEF apr_reslist_invalidate
<1>5. Types'
  BY <1>2, <1>3 DEF Types, Sound, apr_reslist_invalidate
<1>6. ntotal' = nidle' + Cardinality(Holders') /\ ntotal' <= hmax
  BY <1>1, <1>2 DEF Sound, Owned, apr_reslist_invalidate
<1>7. HeldSet' \cap Range(avail') = {} /\ live' = Range(avail') \cup HeldSet'
  BY <1>2 DEF Sound, Owned, apr_reslist_invalidate
<1>8. Owned'
  BY <1>1, <1>4, <1>6, <1>7 DEF Owned, Apart, Sound, apr_reslist_invalidate
<1> QED BY <1>2, <1>5, <1>8 DEF Sound

(* apr_reslist_destroy empties the list; nobody holds anything then. *)
LEMMA CleanupSound ==
  ASSUME Sound, reslist_cleanup
  PROVE  Sound'
<1>1. /\ Len(avail) \in Nat /\ nidle = Len(avail) /\ hmax \in Nat
      /\ ntotal = nidle + Cardinality(Holders) /\ Cardinality(Holders) \in Nat
  BY LenProperties, HoldersFinite, LimitsAssumption DEF Sound, Types, Owned
<1>2. /\ avail' \in Seq(Res) /\ Len(avail') = 0 /\ IsInjective(avail') /\ Range(avail') = {}
  BY EmptySeq DEF reslist_cleanup, IsInjective, Range
<1>3. Apart' /\ Holders' = Holders /\ HeldSet' = HeldSet
  BY SameApart DEF reslist_cleanup
<1>4. Types'
  BY <1>2 DEF Types, Sound, reslist_cleanup
<1>5. ntotal' = nidle' + Cardinality(Holders') /\ ntotal' <= hmax /\ nidle' = Len(avail')
  BY <1>1, <1>2, <1>3 DEF Sound, Owned, reslist_cleanup
<1>6. HeldSet' \cap Range(avail') = {} /\ live' = Range(avail') \cup HeldSet'
  BY <1>2, <1>3 DEF Sound, Owned, reslist_cleanup
<1> QED BY <1>2, <1>3, <1>4, <1>5, <1>6 DEF Sound, Owned, Apart

(* apr_reslist_create starts with min idle resources. *)
LEMMA InitSound == Init => Sound
<1> SUFFICES ASSUME Init PROVE Sound
  OBVIOUS
<1>1. PICK first \in kSubset(min, Res) : avail = SetToSeq(first) /\ live = first
  BY DEF Init
<1>2. first \subseteq Res /\ IsFiniteSet(first) /\ Cardinality(first) = min
  BY FS_Subset, FiniteAssumption DEF kSubset
<1>3. avail \in Seq(first) /\ Len(avail) = min /\ IsInjective(avail) /\ Range(avail) = first
  BY <1>1, <1>2, SetToSeqFacts
<1>4. avail \in Seq(Res)
  BY <1>2, <1>3, SeqDef
<1>5. Holders = {} /\ HeldSet = {} /\ Cardinality(Holders) = 0
  BY FS_EmptySet DEF Init, Holders, HeldSet
<1>6. Types
  <2>1. nold \in 0 .. Len(avail)
    BY <1>3, LimitsAssumption DEF Init
  <2>2. pc \in [Threads -> Where] /\ held \in [Threads -> Res \cup {None}]
    BY DEF Init, Where
  <2>3. ttl \in BOOLEAN /\ timeout \in BOOLEAN /\ destroyed \in BOOLEAN /\ dropped \in Nat
    BY DEF Init
  <2> QED BY <1>4, <2>1, <2>2, <2>3 DEF Types
<1>7. Owned
  BY <1>1, <1>3, <1>5, LimitsAssumption DEF Init, Owned
<1> QED BY <1>6, <1>7 DEF Sound

-----------------------------------------------------------------------------
(* Wakeups. *)

(* What waiting threads could have: an idle resource or a free slot for    *)
(* each resource that is not held.                                         *)
LEMMA FreeFacts ==
  ASSUME Sound
  PROVE  /\ nidle + (hmax - ntotal) = hmax - Cardinality(Holders)
         /\ Cardinality(Holders) \in Nat /\ dropped \in Nat /\ hmax \in Nat
BY LenProperties, HoldersFinite, LimitsAssumption DEF Sound, Types, Owned

(* t stops waiting, or was not waiting. *)
LEMMA ReturnFacts ==
  ASSUME Sound, NEW t \in Threads
  PROVE  /\ Return(t) \in [Threads -> Where]
         /\ At(Return(t), Asleep) \subseteq At(pc, Asleep)
         /\ Cardinality(At(Return(t), Woken)) =
              IF pc[t] \in Woken THEN Cardinality(At(pc, Woken)) - 1 ELSE Cardinality(At(pc, Woken))
<1>1. /\ pc \in [Threads -> Where] /\ Return(t)[t] = "run"
      /\ \A u \in Threads : u # t => Return(t)[u] = pc[u]
  BY DEF Sound, Types, Return
<1>2. Return(t) \in [Threads -> Where]
  BY <1>1 DEF Return, Where
<1>3. At(Return(t), Asleep) \subseteq At(pc, Asleep)
  BY <1>1 DEF At, Asleep
<1>4. At(Return(t), Woken) = At(pc, Woken) \ {t} /\ (t \in At(pc, Woken) <=> pc[t] \in Woken)
  BY <1>1 DEF At, Woken
<1>5. Cardinality(At(pc, Woken) \ {t}) =
        IF t \in At(pc, Woken) THEN Cardinality(At(pc, Woken)) - 1 ELSE Cardinality(At(pc, Woken))
  BY AtFinite, FS_RemoveElement
<1> QED BY <1>2, <1>3, <1>4, <1>5

(* A step keeps NoLostWakeup when no resource is free after it, or when    *)
(* every resource that becomes free comes with a woken thread and every    *)
(* thread that is woken no more is counted or takes a resource: capping    *)
(* the count at hmax loses nothing.                                        *)
LEMMA WakeupKept ==
  ASSUME Sound, Sound', NoLostWakeup, NEW d \in Nat, dropped' = Dropped(pc', d),
         At(pc', Asleep) # {} =>
           \/ Cardinality(Holders') >= hmax
           \/ /\ At(pc, Asleep) # {}
              /\ dropped + Cardinality(At(pc, Woken)) + Cardinality(Holders)
                   <= d + Cardinality(At(pc', Woken)) + Cardinality(Holders')
  PROVE  NoLostWakeup'
<1> DEFINE c == Cardinality(Holders)
           cc == Cardinality(Holders')
           w == Cardinality(At(pc, Woken))
           ww == Cardinality(At(pc', Woken))
<1>1. nidle + (hmax - ntotal) = hmax - c /\ c \in Nat /\ dropped \in Nat /\ hmax \in Nat
  BY FreeFacts
<1>2. nidle' + (hmax - ntotal') = hmax - cc /\ cc \in Nat /\ dropped' \in Nat
  <2>1. Len(avail') \in Nat
    BY LenProperties DEF Sound, Types
  <2>2. IsFiniteSet(Holders')
    BY FiniteAssumption, FS_Subset DEF Holders
  <2>3. cc \in Nat
    BY <2>2, FS_CardinalityType
  <2>4. nidle' = Len(avail') /\ ntotal' = nidle' + cc /\ dropped' \in Nat
    BY DEF Sound, Types, Owned
  <2> HIDE DEF cc
  <2> QED BY <1>1, <2>1, <2>3, <2>4
<1>3. w \in Nat /\ ww \in Nat
  BY AtFinite
<1> SUFFICES ASSUME At(pc', Asleep) # {} PROVE hmax - cc <= ww + dropped'
  BY <1>2 DEF NoLostWakeup
<1>4. dropped' = IF d < hmax THEN d ELSE hmax
  BY DEF Dropped
<1>5. \/ cc >= hmax
      \/ At(pc, Asleep) # {} /\ dropped + w + c <= d + ww + cc
  OBVIOUS
<1>6. At(pc, Asleep) # {} => hmax - c <= w + dropped
  BY <1>1 DEF NoLostWakeup
<1> HIDE DEF c, cc, w, ww
<1> QED BY <1>1, <1>2, <1>3, <1>4, <1>5, <1>6

Inv == Sound /\ NoLostWakeup

(* apr_reslist_acquire *)
LEMMA AcquireStep ==
  ASSUME Inv, NEW t \in Threads, apr_reslist_acquire(t)
  PROVE  Inv'
<1> USE DEF Inv
<1>1. /\ pc[t] = "run" /\ held[t] = None /\ dropped' = Dropped(pc', dropped)
      /\ UNCHANGED <<ttl, timeout, destroyed>> /\ dropped \in Nat /\ dropped' \in Nat
  BY DroppedType DEF apr_reslist_acquire, Sound, Types
<1>2. Return(t) = pc
  BY <1>1 DEF Return, Sound, Types
<1>3. /\ Cardinality(Holders) \in Nat /\ Cardinality(At(pc, Woken)) \in Nat
  BY FreeFacts, AtFinite
<1>4. CASE Take(t)
  <2>1. Sound' /\ Cardinality(Holders') = Cardinality(Holders) + 1 /\ pc' = pc
    BY <1>1, <1>2, <1>4, TakeSound DEF Take
  <2> QED BY <1>1, <1>3, <2>1, WakeupKept
<1>5. CASE AcquireFails(t)
  <2>1. Sound' /\ Holders' = Holders /\ pc' = pc
    BY <1>1, <1>5, AcquireFailsSound DEF AcquireFails
  <2> QED BY <1>1, <1>3, <2>1, WakeupKept
<1>6. CASE WaitOrCreate(t, ntotal - nidle, live \ Range(avail))
  <2>1. /\ Sound'
        /\ \/ Cardinality(Holders') >= hmax
           \/ pc' = pc /\ Cardinality(Holders') = Cardinality(Holders) + 1
           \/ pc' = pc /\ Cardinality(Holders') = Cardinality(Holders)
    BY <1>1, <1>2, <1>6, WaitOrCreateSound
  <2> QED BY <1>1, <1>3, <2>1, WakeupKept
<1>7. CASE nidle <= 0 /\ WaitOrCreate(t, ntotal, live)
  BY <1>6, <1>7, EmptyWaitOrCreate
<1> QED BY <1>4, <1>5, <1>6, <1>7 DEF apr_reslist_acquire

(* apr_reslist_acquire after the wait. *)
LEMMA AcquireWokenStep ==
  ASSUME Inv, NEW t \in Threads, AcquireWoken(t)
  PROVE  Inv'
<1> USE DEF Inv
<1> DEFINE d == IF pc'[t] = "run" /\ held'[t] = None THEN dropped + 1 ELSE dropped
<1>1. /\ pc[t] \in Woken /\ dropped' = Dropped(pc', d)
      /\ UNCHANGED <<ttl, timeout, destroyed>> /\ dropped \in Nat /\ d \in Nat
  BY DEF AcquireWoken, Sound, Types
<1>2. dropped' \in Nat
  BY <1>1, DroppedType
<1>3. held[t] = None
  BY <1>1, WaitingHoldsNothing DEF Woken
<1>4. /\ At(Return(t), Asleep) \subseteq At(pc, Asleep)
      /\ Cardinality(At(Return(t), Woken)) = Cardinality(At(pc, Woken)) - 1
      /\ Cardinality(At(pc, Woken)) \in Nat /\ Cardinality(Holders) \in Nat
      /\ Return(t)[t] = "run"
  BY <1>1, ReturnFacts, FreeFacts, AtFinite DEF Return, Sound, Types
<1>5. CASE Take(t)
  <2>1. Sound' /\ Cardinality(Holders') = Cardinality(Holders) + 1 /\ pc' = Return(t)
    BY <1>1, <1>2, <1>3, <1>5, TakeSound DEF Take
  <2>2. d \in {dropped, dropped + 1}
    OBVIOUS
  <2> HIDE DEF d
  <2> QED BY <1>1, <1>4, <2>1, <2>2, WakeupKept
<1>6. CASE nidle <= 0 /\ WaitOrCreate(t, ntotal, live)
  <2>1. /\ Sound'
        /\ \/ Cardinality(Holders') >= hmax
           \/ pc' = Return(t) /\ Cardinality(Holders') = Cardinality(Holders) + 1
           \/ pc' = Return(t) /\ held'[t] = None /\ Cardinality(Holders') = Cardinality(Holders)
    BY <1>1, <1>2, <1>3, <1>6, EmptyWaitOrCreate, WaitOrCreateSound
  <2>2. d \in {dropped, dropped + 1} /\ (pc' = Return(t) /\ held'[t] = None => d = dropped + 1)
    BY <1>4
  <2> HIDE DEF d
  <2> QED BY <1>1, <1>4, <2>1, <2>2, WakeupKept
<1> QED BY <1>5, <1>6 DEF AcquireWoken

(* A step that changes nothing but where t, which holds nothing, is. *)
LEMMA MoveSound ==
  ASSUME Sound, NEW t \in Threads, held[t] = None, NEW w \in Where,
         pc' = [pc EXCEPT ![t] = w], dropped' \in Nat,
         UNCHANGED <<list, ttl, timeout, destroyed, held, live>>
  PROVE  Sound' /\ Holders' = Holders
<1>1. Apart' /\ pc' \in [Threads -> Where] /\ Holders' = Holders /\ HeldSet' = HeldSet
  BY MoveApart
<1>2. Types'
  BY <1>1 DEF Types, Sound, list
<1>3. Owned'
  BY <1>1 DEF Owned, Apart, Sound, list
<1> QED BY <1>1, <1>2, <1>3 DEF Sound

(* apr_reslist_acquire gives up waiting. *)
LEMMA TimesOutStep ==
  ASSUME Inv, NEW t \in Threads, AcquireTimesOut(t)
  PROVE  Inv'
<1> USE DEF Inv
<1> DEFINE d == IF pc[t] = "timedwoken" THEN dropped + 1 ELSE dropped
<1>1. /\ pc[t] \in {"timedwait", "timedwoken"} /\ pc' = Return(t) /\ dropped' = Dropped(pc', d)
      /\ UNCHANGED <<list, ttl, timeout, destroyed, held, live>>
      /\ dropped \in Nat /\ d \in Nat
  BY DEF AcquireTimesOut, Sound, Types
<1>2. dropped' \in Nat
  BY <1>1, DroppedType
<1>3. held[t] = None
  BY <1>1, WaitingHoldsNothing
<1>4. Sound' /\ Holders' = Holders
  BY <1>1, <1>2, <1>3, MoveSound DEF Return, Where
<1>5. /\ At(pc', Asleep) \subseteq At(pc, Asleep)
      /\ Cardinality(At(pc', Woken)) =
           IF pc[t] \in Woken THEN Cardinality(At(pc, Woken)) - 1 ELSE Cardinality(At(pc, Woken))
      /\ Cardinality(At(pc, Woken)) \in Nat /\ Cardinality(Holders) \in Nat
  BY <1>1, ReturnFacts, FreeFacts, AtFinite
<1>6. /\ pc[t] \in Woken => d = dropped + 1
      /\ pc[t] \notin Woken => d = dropped
  BY <1>1 DEF Woken
<1> HIDE DEF d
<1> QED BY <1>1, <1>4, <1>5, <1>6, WakeupKept

(* A sleeping thread wakes up by itself. *)
LEMMA SpuriousStep ==
  ASSUME Inv, NEW t \in Threads, SpuriousWakeup(t)
  PROVE  Inv'
<1> USE DEF Inv
<1>1. /\ pc[t] \in Asleep /\ pc' = [pc EXCEPT ![t] = WakeUp(pc[t])]
      /\ dropped' = Dropped(pc', dropped)
      /\ UNCHANGED <<list, ttl, timeout, destroyed, held, live>>
      /\ dropped \in Nat /\ dropped' \in Nat /\ pc \in [Threads -> Where]
  BY DroppedType DEF SpuriousWakeup, Sound, Types
<1>2. held[t] = None
  BY <1>1, WaitingHoldsNothing DEF Asleep
<1>3. WakeUp(pc[t]) \in Woken /\ WakeUp(pc[t]) \in Where
  BY <1>1 DEF WakeUp, Woken, Asleep, Where
<1>4. Sound' /\ Holders' = Holders
  BY <1>1, <1>2, <1>3, MoveSound
<1>5. At(pc', Asleep) \subseteq At(pc, Asleep) /\ At(pc, Woken) \subseteq At(pc', Woken)
  BY <1>1, <1>3 DEF At, Asleep, Woken
<1>6. Cardinality(At(pc, Woken)) <= Cardinality(At(pc', Woken))
  BY <1>5, AtFinite, FS_Subset
<1>7. /\ Cardinality(At(pc, Woken)) \in Nat /\ Cardinality(At(pc', Woken)) \in Nat
      /\ Cardinality(Holders) \in Nat
  BY FreeFacts, AtFinite
<1>8. At(pc', Asleep) # {} =>
        /\ At(pc, Asleep) # {}
        /\ dropped + Cardinality(At(pc, Woken)) + Cardinality(Holders)
             <= dropped + Cardinality(At(pc', Woken)) + Cardinality(Holders')
  <2> DEFINE w == Cardinality(At(pc, Woken))
             ww == Cardinality(At(pc', Woken))
             c == Cardinality(Holders)
  <2>1. dropped \in Nat /\ w \in Nat /\ ww \in Nat /\ c \in Nat /\ w <= ww
    BY <1>1, <1>6, <1>7
  <2>2. Cardinality(Holders') = c
    BY <1>4
  <2> HIDE DEF w, ww, c
  <2>3. dropped + w + c <= dropped + ww + c
    BY <2>1
  <2> QED BY <1>5, <2>2, <2>3 DEF w, ww, c
<1> QED BY <1>1, <1>4, <1>8, WakeupKept

(* apr_reslist_release, whose thread goes on to apr_reslist_maintain. *)
LEMMA ReleaseStep ==
  ASSUME Inv, NEW t \in Threads, apr_reslist_release(t)
  PROVE  Inv'
<1> USE DEF Inv
<1> DEFINE p == [pc EXCEPT ![t] = "maintain"]
<1>1. /\ pc[t] = "run" /\ pc' \in Signal(p, 1) /\ dropped' = Dropped(pc', dropped)
      /\ dropped \in Nat /\ dropped' \in Nat /\ pc \in [Threads -> Where]
  BY DroppedType DEF apr_reslist_release, Sound, Types
<1>2. p \in [Threads -> Where] /\ At(p, Asleep) = At(pc, Asleep) /\ At(p, Woken) = At(pc, Woken)
  BY <1>1 DEF At, Asleep, Woken, Where
<1> HIDE DEF p
<1>3. Sound' /\ Cardinality(Holders') = Cardinality(Holders) - 1
  BY <1>1, ReleaseSound
<1>4. At(pc', Asleep) # {} => /\ At(pc, Asleep) # {}
                              /\ Cardinality(At(pc', Woken)) = Cardinality(At(pc, Woken)) + 1
  BY <1>1, <1>2, SignalFacts
<1>5. Cardinality(At(pc, Woken)) \in Nat /\ Cardinality(Holders) \in Nat
  BY FreeFacts, AtFinite
<1> QED BY <1>1, <1>3, <1>4, <1>5, WakeupKept

(* apr_reslist_invalidate *)
LEMMA InvalidateStep ==
  ASSUME Inv, NEW t \in Threads, apr_reslist_invalidate(t)
  PROVE  Inv'
<1> USE DEF Inv
<1>1. /\ pc' \in Signal(pc, 1) /\ dropped' = Dropped(pc', dropped)
      /\ dropped \in Nat /\ dropped' \in Nat /\ pc \in [Threads -> Where]
  BY DroppedType DEF apr_reslist_invalidate, Sound, Types
<1>2. Sound' /\ Cardinality(Holders') = Cardinality(Holders) - 1
  BY <1>1, InvalidateSound
<1>3. At(pc', Asleep) # {} => /\ At(pc, Asleep) # {}
                              /\ Cardinality(At(pc', Woken)) = Cardinality(At(pc, Woken)) + 1
  BY <1>1, SignalFacts
<1>4. Cardinality(At(pc, Woken)) \in Nat /\ Cardinality(Holders) \in Nat
  BY FreeFacts, AtFinite
<1> QED BY <1>1, <1>2, <1>3, <1>4, WakeupKept

(* apr_reslist_maintain *)
LEMMA MaintainStep ==
  ASSUME Inv, NEW t \in Threads, apr_reslist_maintain(t)
  PROVE  Inv'
<1> USE DEF Inv
<1>1. /\ pc[t] \in {"run", "maintain"} /\ dropped' = Dropped(pc', dropped)
      /\ UNCHANGED <<ttl, timeout, destroyed, held>> /\ dropped \in Nat /\ dropped' \in Nat
  BY DroppedType DEF apr_reslist_maintain, Sound, Types
<1>2. /\ Return(t) \in [Threads -> Where] /\ At(Return(t), Asleep) \subseteq At(pc, Asleep)
      /\ Cardinality(At(Return(t), Woken)) = Cardinality(At(pc, Woken))
      /\ Cardinality(At(pc, Woken)) \in Nat /\ Cardinality(Holders) \in Nat
  BY <1>1, ReturnFacts, FreeFacts, AtFinite DEF Woken
<1>3. CASE MaintainCreates(t)
  <2>1. Sound' /\ Holders' = Holders /\ \E j \in Nat : pc' \in Signal(Return(t), j)
    BY <1>1, <1>3, MaintainCreatesSound
  <2>2. PICK j \in Nat : pc' \in Signal(Return(t), j)
    BY <2>1
  <2>3. At(pc', Asleep) # {} =>
          /\ At(Return(t), Asleep) # {}
          /\ Cardinality(At(pc', Woken)) = Cardinality(At(Return(t), Woken)) + j
    BY <1>2, <2>2, SignalFacts
  <2> QED BY <1>1, <1>2, <2>1, <2>3, WakeupKept
<1>4. CASE MaintainExpires(t)
  <2>1. Sound' /\ Holders' = Holders /\ pc' = Return(t)
    BY <1>1, <1>4, MaintainExpiresSound DEF MaintainExpires
  <2> QED BY <1>1, <1>2, <2>1, WakeupKept
<1> QED BY <1>3, <1>4 DEF apr_reslist_maintain

(* The steps that no thread takes in acquire or release. *)
LEMMA OtherStep ==
  ASSUME Inv,
         \/ UNCHANGED vars
         \/ \E set \in BOOLEAN : apr_reslist_timeout_set(set)
         \/ Age
         \/ reslist_cleanup
  PROVE  Inv'
<1> USE DEF Inv
<1>1. CASE UNCHANGED vars
  BY <1>1 DEF vars, Sound, Types, Owned, HeldSet, Holders, NoLostWakeup, At
<1>2. CASE \E set \in BOOLEAN : apr_reslist_timeout_set(set)
  BY <1>2 DEF apr_reslist_timeout_set, list, Sound, Types, Owned, HeldSet, Holders, NoLostWakeup, At
<1>3. CASE Age
  <2>1. nold' \in 0 .. Len(avail')
    BY <1>3, LenProperties DEF Age, Sound, Types
  <2> QED BY <1>3, <2>1 DEF Age, Sound, Types, Owned, HeldSet, Holders, NoLostWakeup, At
<1>4. CASE reslist_cleanup
  <2>1. At(pc', Asleep) = {}
    BY <1>4 DEF reslist_cleanup, At, Asleep
  <2> QED BY <1>4, <2>1, CleanupSound DEF NoLostWakeup
<1> QED BY <1>1, <1>2, <1>3, <1>4

LEMMA InitInv == Init => Inv
<1> SUFFICES ASSUME Init PROVE Inv
  OBVIOUS
<1>1. At(pc, Asleep) = {}
  BY DEF Init, At, Asleep
<1> QED BY <1>1, InitSound DEF Inv, NoLostWakeup

LEMMA NextInv == Inv /\ [Next]_vars => Inv'
<1> SUFFICES ASSUME Inv, [Next]_vars PROVE Inv'
  OBVIOUS
<1>1. ASSUME NEW t \in Threads,
             \/ apr_reslist_acquire(t) \/ AcquireWoken(t) \/ AcquireTimesOut(t)
             \/ SpuriousWakeup(t) \/ apr_reslist_release(t)
             \/ apr_reslist_maintain(t) \/ apr_reslist_invalidate(t)
      PROVE  Inv'
  BY <1>1, AcquireStep, AcquireWokenStep, TimesOutStep, SpuriousStep, ReleaseStep,
     MaintainStep, InvalidateStep
<1> QED BY <1>1, OtherStep DEF Next

(* In every behaviour of apr_reslist, for any number of threads, resources *)
(* and any limits: a resource that was constructed and not destroyed is in *)
(* the list once or held by one thread, nidle and ntotal count them, and   *)
(* there are never more than hmax, whichever constructor or destructor     *)
(* fails.                                                                  *)
THEOREM ReslistAccounted == Spec => []Accounted
<1>1. Inv => Accounted
  BY SoundAccounted DEF Inv
<1> QED BY <1>1, InitInv, NextInv, PTL DEF Spec

(* In every behaviour, while a thread sleeps in apr_reslist_acquire, every *)
(* idle resource and every free slot has a woken thread on its way to it   *)
(* or was given up by one that left with an error.                         *)
THEOREM ReslistNoLostWakeup == Spec => []NoLostWakeup
<1>1. Inv => NoLostWakeup
  BY DEF Inv
<1> QED BY <1>1, InitInv, NextInv, PTL DEF Spec

(* In every behaviour no resource is handed to two threads, none is idle   *)
(* and held at once or twice in the list, and a thread that is waiting in  *)
(* apr_reslist_acquire or is between release and maintain holds none.      *)
THEOREM ReslistOwned == Spec => []Owned
<1>1. Inv => Owned
  BY DEF Inv, Sound
<1> QED BY <1>1, InitInv, NextInv, PTL DEF Spec
=============================================================================
