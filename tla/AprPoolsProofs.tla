--------------------------- MODULE AprPoolsProofs ---------------------------
(***************************************************************************)
(* Proofs about AprPools for any number of threads, pools and cleanups:    *)
(* the tree of pools stays linked both ways, whichever threads create,     *)
(* clear and destroy pools, and each cleanup is run or killed once.  And   *)
(* for any nodes and limits: each node is in one place, in the bin of its  *)
(* size, the bins keep no more than the limit, and the rings stay sorted.  *)
(***************************************************************************)
EXTENDS AprPools, FiniteSetTheorems, SequenceTheorems, WellFoundedInduction,
        TLAPS

-----------------------------------------------------------------------------
(* Numbers and sequences. *)

(* A nonempty set of numbers has a least one. *)
LEMMA LeastNat ==
  ASSUME NEW T \in SUBSET Nat, T # {}
  PROVE  \E m \in T : \A k \in T : m <= k
<1> DEFINE W == {1 .. k : k \in T}
<1>1. W \subseteq FiniteSubsetsOf(Nat)
  BY FS_Interval DEF FiniteSubsetsOf
<1>2. IsWellFoundedOn(StrictSubsetOrdering(Nat), FiniteSubsetsOf(Nat))
  BY FS_StrictSubsetOrderingWellFounded
<1>3. PICK X \in W : \A Y \in W : <<Y, X>> \notin StrictSubsetOrdering(Nat)
  <2>1. W # {}
    OBVIOUS
  <2> HIDE DEF W
  <2> QED BY <1>1, <1>2, <2>1, WFMin
<1>4. PICK m \in T : X = 1 .. m
  BY <1>3
<1>5. ASSUME NEW k \in T, k < m PROVE FALSE
  <2>1. 1 .. k \in W
    OBVIOUS
  <2>2. 1 .. k \subseteq 1 .. m /\ 1 .. k # 1 .. m
    <3>1. m \in 1 .. m /\ m \notin 1 .. k
      BY <1>5
    <3> QED BY <1>5, <3>1
  <2>3. <<1 .. k, 1 .. m>> \in StrictSubsetOrdering(Nat)
    BY <1>1, <1>4, <2>1, <2>2 DEF StrictSubsetOrdering, FiniteSubsetsOf
  <2> QED BY <1>3, <1>4, <2>1, <2>3
<1> QED BY <1>5

LEMMA PushFacts ==
  ASSUME NEW S, NEW s \in Seq(S), NEW x \in S
  PROVE  /\ <<x>> \o s \in Seq(S) /\ Len(<<x>> \o s) = Len(s) + 1 /\ Len(s) \in Nat
         /\ (<<x>> \o s)[1] = x
         /\ \A i \in 1 .. Len(s) : (<<x>> \o s)[i + 1] = s[i]
         /\ \A i \in 1 .. Len(s) + 1 : i = 1 \/ (i - 1 \in 1 .. Len(s) /\ (<<x>> \o s)[i] = s[i - 1])
         /\ <<x>> \o s # << >>
<1> DEFINE u == <<x>> \o s
<1>1. /\ u \in Seq(S) /\ Len(u) = Len(s) + 1 /\ Len(s) \in Nat /\ u[1] = x
  OBVIOUS
<1>2. \A i \in 1 .. Len(s) + 1 : i = 1 \/ (i - 1 \in 1 .. Len(s) /\ u[i] = s[i - 1])
  OBVIOUS
<1> HIDE DEF u
<1>3. ASSUME NEW i \in 1 .. Len(s) PROVE u[i + 1] = s[i]
  BY <1>1, <1>2
<1> QED BY <1>1, <1>2, <1>3 DEF u

LEMMA PopFacts ==
  ASSUME NEW S, NEW s \in Seq(S), s # << >>
  PROVE  /\ Tail(s) \in Seq(S) /\ Len(Tail(s)) = Len(s) - 1
         /\ Len(s) \in Nat /\ Len(s) > 0 /\ Head(s) = s[1] /\ s[1] \in S
         /\ \A i \in 1 .. Len(s) - 1 : Tail(s)[i] = s[i + 1] /\ i + 1 \in 1 .. Len(s)
OBVIOUS

LEMMA ToSetDef ==
  ASSUME NEW S, NEW s \in Seq(S)
  PROVE  /\ ToSet(s) = {s[i] : i \in 1 .. Len(s)} /\ ToSet(s) \subseteq S
         /\ Len(s) \in Nat /\ DOMAIN s = 1 .. Len(s)
BY DEF ToSet

(* A list after an entry was put in front, *)
LEMMA PushList ==
  ASSUME NEW S, NEW s \in Seq(S), NEW x \in S
  PROVE  /\ <<x>> \o s \in Seq(S) /\ ToSet(<<x>> \o s) = ToSet(s) \cup {x}
         /\ IsInjective(s) /\ x \notin ToSet(s) => IsInjective(<<x>> \o s)
<1> DEFINE u == <<x>> \o s
<1>1. /\ u \in Seq(S) /\ Len(u) = Len(s) + 1 /\ Len(s) \in Nat /\ u[1] = x
      /\ \A i \in 1 .. Len(s) : u[i + 1] = s[i]
      /\ \A i \in 1 .. Len(s) + 1 : i = 1 \/ (i - 1 \in 1 .. Len(s) /\ u[i] = s[i - 1])
  BY PushFacts
<1>2. DOMAIN s = 1 .. Len(s) /\ DOMAIN u = 1 .. Len(s) + 1
  BY <1>1
<1> HIDE DEF u
<1>3. ToSet(u) \subseteq ToSet(s) \cup {x}
  <2> SUFFICES ASSUME NEW i \in 1 .. Len(s) + 1, i # 1 PROVE u[i] \in ToSet(s)
    BY <1>1, <1>2 DEF ToSet
  <2> QED BY <1>1, <1>2 DEF ToSet
<1>4. ASSUME NEW i \in 1 .. Len(s) PROVE s[i] \in ToSet(u)
  <2>1. i + 1 \in 1 .. Len(s) + 1
    BY <1>1
  <2> QED BY <1>1, <1>2, <2>1 DEF ToSet
<1>5. x \in ToSet(u)
  BY <1>1, <1>2 DEF ToSet
<1>6. ASSUME IsInjective(s), x \notin ToSet(s) PROVE IsInjective(u)
  <2>1. \A i, j \in 1 .. Len(s) : s[i] = s[j] => i = j
    BY <1>2, <1>6 DEF IsInjective
  <2>2. \A i \in 1 .. Len(s) : s[i] # x
    BY <1>2, <1>6 DEF ToSet
  <2> QED BY <1>1, <1>2, <2>1, <2>2 DEF IsInjective
<1> QED BY <1>1, <1>2, <1>3, <1>4, <1>5, <1>6 DEF u, ToSet

(* after the first one was taken, *)
LEMMA PopList ==
  ASSUME NEW S, NEW s \in Seq(S), s # << >>, IsInjective(s)
  PROVE  /\ Tail(s) \in Seq(S) /\ IsInjective(Tail(s))
         /\ Head(s) \in ToSet(s) /\ Head(s) \in S
         /\ ToSet(Tail(s)) = ToSet(s) \ {Head(s)}
<1>1. /\ Tail(s) \in Seq(S) /\ Len(Tail(s)) = Len(s) - 1 /\ Head(s) = s[1]
      /\ Len(s) \in Nat \ {0} /\ DOMAIN s = 1 .. Len(s)
      /\ DOMAIN Tail(s) = 1 .. Len(s) - 1
      /\ \A i \in 1 .. Len(s) - 1 : Tail(s)[i] = s[i + 1]
  OBVIOUS
<1>2. IsInjective(Tail(s))
  BY <1>1 DEF IsInjective
<1>3. \A x \in ToSet(Tail(s)) : x \in ToSet(s) \ {Head(s)}
  BY <1>1 DEF ToSet, IsInjective
<1>4. \A x \in ToSet(s) \ {Head(s)} : x \in ToSet(Tail(s))
  <2> SUFFICES ASSUME NEW i \in 1 .. Len(s), i # 1 PROVE s[i] \in ToSet(Tail(s))
    BY <1>1 DEF ToSet
  <2>1. i - 1 \in 1 .. Len(s) - 1 /\ s[i] = Tail(s)[i - 1]
    BY <1>1
  <2> QED BY <1>1, <2>1 DEF ToSet
<1>5. Head(s) \in ToSet(s) /\ Head(s) \in S
  BY <1>1 DEF ToSet
<1> QED BY <1>1, <1>2, <1>3, <1>4, <1>5

(* after the k-th was taken, *)
LEMMA RemoveAtList ==
  ASSUME NEW S, NEW s \in Seq(S), IsInjective(s), NEW k \in 1 .. Len(s)
  PROVE  /\ RemoveAt(s, k) \in Seq(S) /\ IsInjective(RemoveAt(s, k))
         /\ ToSet(RemoveAt(s, k)) = ToSet(s) \ {s[k]}
         /\ s[k] \in ToSet(s) /\ s[k] \in S
<1>1. Len(s) \in Nat /\ DOMAIN s = 1 .. Len(s) /\ ToSet(s) = {s[i] : i \in 1 .. Len(s)}
  BY ToSetDef
<1> DEFINE r == RemoveAt(s, k)
           x == s[k]
           a == SubSeq(s, 1, k - 1)
           b == SubSeq(s, k + 1, Len(s))
<1>2. k \in 1 .. Len(s) /\ s[k] = x
  OBVIOUS
<1>3. r = a \o b
  BY DEF RemoveAt
<1> HIDE DEF x, r
<1>4. a \in Seq(S) /\ Len(a) = k - 1 /\ \A i \in 1 .. k - 1 : a[i] = s[i]
  BY <1>1, <1>2
<1>5. b \in Seq(S) /\ Len(b) = Len(s) - k /\ \A i \in 1 .. Len(s) - k : b[i] = s[k + i]
  <2>1. k \in Nat /\ 1 <= k /\ k <= Len(s) /\ Len(s) \in Nat
    BY <1>1, <1>2
  <2>2. b \in Seq(S)
    BY <2>1
  <2>3. DOMAIN b = 1 .. Len(s) - k /\ \A i \in 1 .. Len(s) - k : b[i] = s[k + i]
    BY <2>1
  <2>4. Len(s) - k \in Nat
    BY <2>1
  <2> QED BY <2>2, <2>3, <2>4
<1> HIDE DEF a, b
<1>6. r \in Seq(S) /\ Len(r) = Len(s) - 1 /\ DOMAIN r = 1 .. Len(s) - 1
  <2>0. a \in Seq(S) /\ b \in Seq(S)
    BY <1>4, <1>5
  <2>1. r \in Seq(S) /\ Len(r) = Len(a) + Len(b)
    BY <1>3, <2>0
  <2>2. Len(a) + Len(b) = Len(s) - 1
    BY <1>1, <1>2, <1>4, <1>5
  <2> QED BY <2>1, <2>2
<1>7. ASSUME NEW i \in 1 .. k - 1 PROVE i \in 1 .. Len(s) - 1 /\ r[i] = s[i]
  <2>1. i \in 1 .. Len(a) /\ r[i] = a[i] /\ i \in 1 .. Len(s) - 1
    BY <1>1, <1>2, <1>3, <1>4, <1>5
  <2> QED BY <1>4, <2>1
<1>8. ASSUME NEW i \in k .. Len(s) - 1 PROVE i \in 1 .. Len(s) - 1 /\ r[i] = s[i + 1]
  <2>1. i - (k - 1) \in 1 .. Len(b) /\ k + (i - (k - 1)) = i + 1
    BY <1>1, <1>2, <1>5
  <2>2. i \in 1 .. Len(s) - 1 /\ r[i] = b[i - (k - 1)]
    BY <1>1, <1>2, <1>3, <1>4, <1>5
  <2> QED BY <1>5, <2>1, <2>2
<1>9. \A i \in 1 .. Len(s) - 1 : i \in 1 .. k - 1 \/ i \in k .. Len(s) - 1
  BY <1>1, <1>2
<1>10. \A i, j \in 1 .. Len(s) : s[i] = s[j] => i = j
  BY <1>1 DEF IsInjective
<1>11. ASSUME NEW y \in ToSet(r) PROVE y \in ToSet(s) \ {x}
  <2>1. PICK i \in 1 .. Len(s) - 1 : y = r[i]
    BY <1>6 DEF ToSet
  <2>2. CASE i \in 1 .. k - 1
    <3>1. i \in 1 .. Len(s) /\ i # k
      BY <1>1, <1>2, <2>2
    <3> QED BY <1>1, <1>2, <1>7, <1>10, <2>1, <2>2, <3>1
  <2>3. CASE i \in k .. Len(s) - 1
    <3>1. i + 1 \in 1 .. Len(s) /\ i + 1 # k
      BY <1>1, <1>2, <2>3
    <3> QED BY <1>1, <1>2, <1>8, <1>10, <2>1, <2>3, <3>1
  <2> QED BY <1>9, <2>2, <2>3
<1>12. ASSUME NEW i \in 1 .. Len(s), s[i] # x PROVE s[i] \in ToSet(r)
  <2>1. CASE i < k
    <3>1. i \in 1 .. k - 1
      BY <1>1, <1>2, <2>1
    <3> QED BY <1>6, <1>7, <3>1 DEF ToSet
  <2>2. CASE i > k
    <3>1. i - 1 \in k .. Len(s) - 1 /\ (i - 1) + 1 = i
      BY <1>1, <1>2, <2>2
    <3> QED BY <1>6, <1>8, <3>1 DEF ToSet
  <2> QED BY <1>1, <1>2, <1>12, <2>1, <2>2
<1>13. ToSet(r) = ToSet(s) \ {x}
  BY <1>1, <1>11, <1>12
<1>14. ASSUME NEW i \in 1 .. Len(s) - 1, NEW j \in 1 .. Len(s) - 1, r[i] = r[j]
       PROVE  i = j
  <2> DEFINE f(h) == IF h \in 1 .. k - 1 THEN h ELSE h + 1
  <2>1. ASSUME NEW h \in 1 .. Len(s) - 1 PROVE r[h] = s[f(h)] /\ f(h) \in 1 .. Len(s)
    <3>1. f(h) \in 1 .. Len(s)
      BY <1>1, <1>2
    <3> QED BY <1>7, <1>8, <1>9, <3>1
  <2>2. f(i) = f(j)
    <3> HIDE DEF f
    <3> QED BY <1>10, <1>14, <2>1
  <2> QED BY <1>1, <1>2, <2>2
<1>15. IsInjective(r)
  BY <1>6, <1>14 DEF IsInjective
<1>16. x \in ToSet(s) /\ x \in S
  BY <1>1, <1>2
<1> QED BY <1>6, <1>13, <1>15, <1>16 DEF r, x

(* and after one was killed. *)
LEMMA KillList ==
  ASSUME NEW S, NEW s \in Seq(S), NEW x, IsInjective(s)
  PROVE  /\ RemoveFirst(s, x) \in Seq(S) /\ IsInjective(RemoveFirst(s, x))
         /\ ToSet(RemoveFirst(s, x)) = ToSet(s) \ {x}
<1>1. Len(s) \in Nat /\ DOMAIN s = 1 .. Len(s) /\ ToSet(s) = {s[i] : i \in 1 .. Len(s)}
  BY ToSetDef
<1>2. CASE ~\E i \in 1 .. Len(s) : s[i] = x
  BY <1>1, <1>2 DEF RemoveFirst
<1>3. CASE \E i \in 1 .. Len(s) : s[i] = x
  <2> DEFINE I == {i \in 1 .. Len(s) : s[i] = x}
             k == Min(I)
  <2>1. k \in 1 .. Len(s) /\ s[k] = x
    <3>1. I \in SUBSET Nat /\ I # {}
      BY <1>1, <1>3
    <3>2. \E m \in I : \A j \in I : m <= j
      BY <3>1, LeastNat
    <3>3. k \in I
      BY <3>2 DEF Min
    <3> QED BY <3>3
  <2>2. RemoveFirst(s, x) = RemoveAt(s, k)
    <3>1. I # {} /\ SelectInSeq(s, LAMBDA v : v = x) = k
      BY <1>3 DEF SelectInSeq
    <3> QED BY <1>3, <3>1 DEF RemoveFirst
  <2> HIDE DEF k
  <2> QED BY <2>1, <2>2, RemoveAtList
<1> QED BY <1>2, <1>3

-----------------------------------------------------------------------------
(* The inductive invariant. *)

Frames == [op : {"create", "clear", "destroy"}, at : {"link", "pre", "cleanups", "free"},
           pool : Pools]

(* The types of what the tree and the cleanups depend on. *)
Types ==
  /\ parent \in [Pools -> Pools \cup {NULL}]
  /\ child \in [Pools -> Pools \cup {NULL}]
  /\ sibling \in [Pools -> Pools \cup {NULL}]
  /\ ref \in [Pools -> ({"child", "sibling"} \X Pools) \cup {NULL}]
  /\ owner \in [Pools -> Threads \cup {NULL}]
  /\ ring \in [Pools -> Seq(Nodes)]
  /\ self \in [Pools -> Nodes \cup {NULL}] /\ \A p \in Live : self[p] \in Nodes
  /\ cleanups \in [Pools -> Seq(Cleanups)]
  /\ pre_cleanups \in [Pools -> Seq(Cleanups)]
  /\ done \subseteq Cleanups /\ registered \subseteq Cleanups
  /\ stack \in [Threads -> Seq(Frames)]
  /\ owner[Root] = NULL

Frame(t, i) == stack[t][i]
Depth(t) == 1 .. Len(stack[t])

(* A call on the stack: only the innermost one has left its loop over the  *)
(* subpools, and the others are in the destruction of a parent.            *)
FrameOK(t, i) ==
  /\ Frame(t, i).pool \in Live
  /\ Frame(t, i).op = "create" <=> Frame(t, i).at = "link"
  /\ Frame(t, i).at = "link" => Len(stack[t]) = 1 /\ Frame(t, i).pool # Root
  /\ Frame(t, i).at = "free" => Frame(t, i).op = "destroy"
  /\ Frame(t, i).pool = Root => Frame(t, i).op = "destroy"
  /\ i > 1 => Frame(t, i).at = "pre"
  /\ i < Len(stack[t]) =>
       Frame(t, i).pool # Root /\ parent[Frame(t, i).pool] = Frame(t, i + 1).pool

Stacks == \A t \in Threads : \A i \in Depth(t) : FrameOK(t, i)

(* No pool is in two calls. *)
Exclusive ==
  \A t, u \in Threads : \A i \in Depth(t), j \in Depth(u) :
    Frame(t, i).pool = Frame(u, j).pool => t = u /\ i = j

(* A thread is in calls on its own pools, until one destroys the root: it  *)
(* is then the only one in a call.                                         *)
Owned ==
  /\ Closing => \A t, u \in Threads : ~Idle(t) /\ ~Idle(u) => t = u
  /\ ~Closing => \A t \in Threads : \A i \in Depth(t) : owner[Frame(t, i).pool] = t

(* What a clear or destroy has been through: the pre-cleanups that are     *)
(* listed when they have been run are late.                                *)
Emptied ==
  \A t \in Threads : \A i \in Depth(t) :
    LET p == Frame(t, i).pool
    IN  /\ Frame(t, i).at \in {"cleanups", "free"} =>
             ToSet(pre_cleanups[p]) \subseteq late /\ child[p] = NULL
        /\ Frame(t, i).at = "free" => cleanups[p] = << >>

Members == {p \in Pools : Linked(p)}

(* child, sibling and ref agree, for the pools that are in a list. *)
Pointers ==
  /\ \A p \in Pools : child[p] # NULL =>
       child[p] \in Members /\ parent[child[p]] = p /\ ref[child[p]] = <<"child", p>>
  /\ \A p \in Members : sibling[p] # NULL =>
       /\ sibling[p] \in Members /\ parent[sibling[p]] = parent[p]
       /\ ref[sibling[p]] = <<"sibling", p>>
  /\ \A p \in Members :
       \/ ref[p] = <<"child", parent[p]>> /\ child[parent[p]] = p
       \/ \E x \in Members : ref[p] = <<"sibling", x>> /\ sibling[x] = p

(* A pool has a parent, of the same thread unless it is the root. *)
Parents ==
  \A p \in Live \ {Root} :
    /\ parent[p] \in Live
    /\ parent[p] # Root => owner[p] = owner[parent[p]]
    /\ owner[p] \in Threads

(* No pool is below itself. *)
Acyclic ==
  \A S \in SUBSET (Live \ {Root}) : (\A p \in S : parent[p] \in S) => S = {}

(* S has the first subpool of p, and the sibling of each member. *)
Closed(S, p) ==
  /\ child[p] # NULL => child[p] \in S
  /\ \A x \in S : sibling[x] # NULL => sibling[x] \in S

(* No subpool is missed. *)
Reaches ==
  \A p \in Pools : \A S \in SUBSET Pools :
    Closed(S, p) => \A q \in Members : parent[q] = p => q \in S

(* A pool that is not yet in its parent's list has no sibling. *)
Making(p) == \E t \in Threads : At(t, "create", "link") /\ Top(t).pool = p
Unborn == \A p \in Pools : p \notin Live \/ Making(p) => sibling[p] = NULL

Tree == Pointers /\ Parents /\ Acyclic /\ Reaches /\ Unborn

(* The cleanups that pool p has to run. *)
Todo(p) == ToSet(cleanups[p]) \cup ToSet(pre_cleanups[p])

(* Each cleanup is in one list, once, or done, or was a late one.          *)
Lists ==
  /\ \A p \in Pools :
       /\ IsInjective(cleanups[p]) /\ IsInjective(pre_cleanups[p])
       /\ ToSet(cleanups[p]) \cap ToSet(pre_cleanups[p]) = {}
       /\ Todo(p) \cap done = {} /\ Todo(p) \subseteq registered
       /\ p \notin Live => cleanups[p] = << >> /\ pre_cleanups[p] = << >>
  /\ \A p, q \in Pools : p # q => Todo(p) \cap Todo(q) = {}
  /\ done \subseteq registered
  /\ \A k \in registered : k \in done \cup late \/ \E p \in Pools : k \in Todo(p)

Inv == Types /\ Stacks /\ Exclusive /\ Owned /\ Emptied /\ Tree /\ Lists

-----------------------------------------------------------------------------
(* The stacks of calls. *)

LEMMA TopFacts ==
  ASSUME Types, NEW t \in Threads, ~Idle(t)
  PROVE  /\ Top(t) = stack[t][1] /\ 1 \in Depth(t) /\ Top(t) \in Frames
         /\ Len(stack[t]) \in Nat /\ Len(stack[t]) > 0 /\ Top(t).pool \in Pools
<1>1. stack[t] \in Seq(Frames) /\ stack[t] # << >>
  BY DEF Types, Idle
<1>2. Len(stack[t]) \in Nat /\ Len(stack[t]) > 0 /\ Head(stack[t]) = stack[t][1]
      /\ stack[t][1] \in Frames
  BY <1>1, PopFacts
<1>3. 1 \in 1 .. Len(stack[t])
  BY <1>2
<1>4. stack[t][1].pool \in Pools
  BY <1>2 DEF Frames
<1> QED BY <1>2, <1>3, <1>4 DEF Top, Depth

LEMMA CallFacts ==
  ASSUME Types, NEW t \in Threads, NEW f \in Frames, Call(t, f)
  PROVE  /\ stack' \in [Threads -> Seq(Frames)]
         /\ Len(stack[t]) \in Nat /\ Len(stack'[t]) = Len(stack[t]) + 1
         /\ stack'[t][1] = f
         /\ \A i \in 1 .. Len(stack[t]) : stack'[t][i + 1] = stack[t][i]
         /\ \A i \in 1 .. Len(stack[t]) + 1 :
              i = 1 \/ (i - 1 \in 1 .. Len(stack[t]) /\ stack'[t][i] = stack[t][i - 1])
         /\ \A u \in Threads \ {t} : stack'[u] = stack[u]
         /\ ~Idle(t)' /\ Top(t)' = f
<1>1. stack \in [Threads -> Seq(Frames)] /\ stack[t] \in Seq(Frames)
  BY DEF Types
<1>2. stack' = [stack EXCEPT ![t] = <<f>> \o stack[t]]
  BY DEF Call
<1> DEFINE s == <<f>> \o stack[t]
<1>3. /\ s \in Seq(Frames) /\ Len(s) = Len(stack[t]) + 1 /\ Len(stack[t]) \in Nat
      /\ s[1] = f /\ \A i \in 1 .. Len(stack[t]) : s[i + 1] = stack[t][i]
      /\ \A i \in 1 .. Len(stack[t]) + 1 :
           i = 1 \/ (i - 1 \in 1 .. Len(stack[t]) /\ s[i] = stack[t][i - 1])
      /\ s # << >>
  BY <1>1, PushFacts
<1>4. Head(s) = s[1]
  BY <1>3
<1> HIDE DEF s
<1>5. stack' = [stack EXCEPT ![t] = s]
  BY <1>2 DEF s
<1>6. stack' \in [Threads -> Seq(Frames)] /\ stack'[t] = s /\ \A u \in Threads \ {t} : stack'[u] = stack[u]
  BY <1>1, <1>3, <1>5
<1> QED BY <1>3, <1>4, <1>6 DEF Idle, Top

LEMMA ReturnFacts ==
  ASSUME Types, NEW t \in Threads, ~Idle(t), Return(t)
  PROVE  /\ stack' \in [Threads -> Seq(Frames)]
         /\ Len(stack[t]) \in Nat /\ Len(stack[t]) > 0 /\ Len(stack'[t]) = Len(stack[t]) - 1
         /\ \A i \in 1 .. Len(stack[t]) - 1 :
              stack'[t][i] = stack[t][i + 1] /\ i + 1 \in 1 .. Len(stack[t])
         /\ \A u \in Threads \ {t} : stack'[u] = stack[u]
         /\ Idle(t)' <=> Len(stack[t]) = 1
         /\ ~Idle(t)' => Top(t)' = stack[t][2]
<1>1. stack \in [Threads -> Seq(Frames)] /\ stack[t] \in Seq(Frames) /\ stack[t] # << >>
  BY DEF Types, Idle
<1>2. stack' = [stack EXCEPT ![t] = Tail(stack[t])]
  BY DEF Return
<1> DEFINE s == Tail(stack[t])
<1>3. /\ s \in Seq(Frames) /\ Len(s) = Len(stack[t]) - 1 /\ Len(stack[t]) \in Nat
      /\ Len(stack[t]) > 0
      /\ \A i \in 1 .. Len(stack[t]) - 1 : s[i] = stack[t][i + 1] /\ i + 1 \in 1 .. Len(stack[t])
  BY <1>1, PopFacts
<1> HIDE DEF s
<1>5. stack' = [stack EXCEPT ![t] = s]
  BY <1>2 DEF s
<1>6. stack' \in [Threads -> Seq(Frames)] /\ stack'[t] = s /\ \A u \in Threads \ {t} : stack'[u] = stack[u]
  BY <1>1, <1>3, <1>5
<1>7. s = << >> <=> Len(stack[t]) = 1
  <2>1. s = << >> <=> Len(s) = 0
    <3>1. s \in Seq(Frames)
      BY <1>3
    <3> QED BY <3>1
  <2> QED BY <1>3, <2>1
<1>8. s # << >> => Head(s) = stack[t][2]
  <2> SUFFICES ASSUME s # << >> PROVE Head(s) = stack[t][2]
    OBVIOUS
  <2>1. Len(s) > 0 /\ Head(s) = s[1]
    BY <1>3
  <2>2. 1 \in 1 .. Len(stack[t]) - 1 /\ 1 + 1 = 2
    BY <1>3, <2>1
  <2> QED BY <1>3, <2>1, <2>2
<1> QED BY <1>3, <1>6, <1>7, <1>8 DEF Idle, Top

LEMMA GotoFacts ==
  ASSUME Types, NEW t \in Threads, ~Idle(t), NEW a \in {"cleanups", "free"}, Goto(t, a)
  PROVE  /\ stack' \in [Threads -> Seq(Frames)]
         /\ Len(stack[t]) \in Nat /\ Len(stack'[t]) = Len(stack[t])
         /\ stack'[t][1] \in Frames /\ stack'[t][1].at = a
         /\ stack'[t][1].op = stack[t][1].op /\ stack'[t][1].pool = stack[t][1].pool
         /\ \A i \in 1 .. Len(stack[t]) : i # 1 => stack'[t][i] = stack[t][i]
         /\ \A u \in Threads \ {t} : stack'[u] = stack[u]
         /\ ~Idle(t)' /\ Top(t)' = stack'[t][1]
<1>1. stack \in [Threads -> Seq(Frames)] /\ stack[t] \in Seq(Frames) /\ stack[t] # << >>
  BY DEF Types, Idle
<1> DEFINE f == [stack[t][1] EXCEPT !.at = a]
           s == [stack[t] EXCEPT ![1] = f]
<1>2. stack' = [stack EXCEPT ![t] = s]
  BY DEF Goto
<1>3. Len(stack[t]) \in Nat /\ Len(stack[t]) > 0 /\ stack[t][1] \in Frames
  BY <1>1, PopFacts
<1>4. f \in Frames /\ f.at = a /\ f.op = stack[t][1].op /\ f.pool = stack[t][1].pool
  BY <1>3 DEF Frames
<1> HIDE DEF f
<1>5. /\ s \in Seq(Frames) /\ Len(s) = Len(stack[t]) /\ s[1] = f
      /\ \A i \in 1 .. Len(stack[t]) : i # 1 => s[i] = stack[t][i]
  BY <1>1, <1>3, <1>4
<1>6. s # << >> /\ Head(s) = s[1]
  BY <1>3, <1>5
<1> HIDE DEF s
<1>7. stack' \in [Threads -> Seq(Frames)] /\ stack'[t] = s /\ \A u \in Threads \ {t} : stack'[u] = stack[u]
  BY <1>1, <1>2, <1>5
<1> QED BY <1>3, <1>4, <1>5, <1>6, <1>7 DEF Idle, Top

(* What holds of the stacks, besides their types. *)
Calls == Stacks /\ Exclusive /\ Owned

(* Pools stay what they are. *)
Stays(p) == p \in Live' /\ parent'[p] = parent[p] /\ owner'[p] = owner[p]

LEMMA CallsSame ==
  ASSUME Calls, UNCHANGED stack, \A p \in Live : Stays(p)
  PROVE  Calls'
<1>1. Stacks'
  BY DEF Calls, Stacks, FrameOK, Frame, Depth, Stays
<1>2. Exclusive'
  BY DEF Calls, Exclusive, Frame, Depth
<1>3. Closing' <=> Closing
  BY DEF Closing
<1>4. \A t \in Threads : Idle(t)' <=> Idle(t)
  BY DEF Idle
<1>5. Owned'
  <2>1. \A t \in Threads : \A i \in Depth(t) : Stays(Frame(t, i).pool)
    BY DEF Calls, Stacks, FrameOK
  <2> QED BY <1>3, <1>4, <2>1 DEF Calls, Owned, Frame, Depth, Stays
<1> QED BY <1>1, <1>2, <1>5 DEF Calls

(* A new call. *)
LEMMA CallsPush ==
  ASSUME Types, Calls, NEW t \in Threads, NEW f \in Frames, Call(t, f),
         \A p \in Live : Stays(p),
         owner'[Root] = NULL,
         f.pool \in Live', f.at \in {"link", "pre"}, f.op = "create" <=> f.at = "link",
         f.pool = Root => f.op = "destroy",
         f.at = "link" => Idle(t),
         \A u \in Threads : \A j \in Depth(u) : Frame(u, j).pool # f.pool,
         Idle(t) => ~Closing /\ (owner'[f.pool] = t \/ (f.pool = Root /\ \A u \in Threads : Idle(u))),
         ~Idle(t) => /\ f.pool # Root /\ parent'[f.pool] = Top(t).pool /\ Top(t).at = "pre"
                     /\ ~Closing => owner'[f.pool] = t
  PROVE  Calls'
<1> USE DEF Frame, Depth
<1>1. /\ stack' \in [Threads -> Seq(Frames)]
      /\ Len(stack[t]) \in Nat /\ Len(stack'[t]) = Len(stack[t]) + 1
      /\ stack'[t][1] = f
      /\ \A i \in 1 .. Len(stack[t]) : stack'[t][i + 1] = stack[t][i]
      /\ \A i \in 1 .. Len(stack[t]) + 1 :
           i = 1 \/ (i - 1 \in 1 .. Len(stack[t]) /\ stack'[t][i] = stack[t][i - 1])
      /\ \A u \in Threads \ {t} : stack'[u] = stack[u]
      /\ ~Idle(t)' /\ Top(t)' = f
  BY CallFacts
<1>2. \A u \in Threads : \A i \in Depth(u) : FrameOK(u, i) /\ Stays(stack[u][i].pool)
  BY DEF Calls, Stacks, FrameOK
<1>3. Idle(t) <=> Len(stack[t]) = 0
  <2>1. stack[t] \in Seq(Frames)
    BY DEF Types
  <2> QED BY <2>1 DEF Idle
<1>4. ASSUME NEW u \in Threads \ {t}, NEW i \in Depth(u) PROVE FrameOK(u, i)'
  <2>1. stack'[u] = stack[u]
    BY <1>1
  <2>2. i < Len(stack[u]) => i + 1 \in 1 .. Len(stack[u])
    <3>1. Len(stack[u]) \in Nat
      BY DEF Types
    <3> QED BY <3>1
  <2> QED BY <1>2, <2>1, <2>2 DEF FrameOK, Stays
<1>5. FrameOK(t, 1)'
  <2>1. f.at = "link" => Len(stack'[t]) = 1
    BY <1>1, <1>3
  <2>2. 1 < Len(stack'[t]) => f.pool # Root /\ parent'[f.pool] = stack'[t][2].pool
    <3> SUFFICES ASSUME 1 < Len(stack'[t]) PROVE f.pool # Root /\ parent'[f.pool] = stack'[t][2].pool
      OBVIOUS
    <3>1. ~Idle(t) /\ 1 \in 1 .. Len(stack[t]) /\ 1 + 1 = 2
      BY <1>1, <1>3
    <3>2. stack'[t][2] = Top(t)
      BY <1>1, <3>1, TopFacts
    <3> QED BY <3>1, <3>2
  <2> QED BY <1>1, <2>1, <2>2 DEF FrameOK
<1>6. ASSUME NEW i \in 1 .. Len(stack[t]) + 1, i # 1 PROVE FrameOK(t, i)'
  <2>1. i - 1 \in 1 .. Len(stack[t]) /\ stack'[t][i] = stack[t][i - 1]
    BY <1>1, <1>6
  <2>2. ~Idle(t)
    BY <1>1, <1>3, <2>1
  <2>3. stack[t][i - 1].at = "pre"
    <3>1. CASE i - 1 = 1
      BY <2>2, <3>1, TopFacts
    <3>2. CASE i - 1 # 1
      <4>1. i - 1 > 1
        BY <2>1, <3>2
      <4> QED BY <1>2, <2>1, <4>1 DEF FrameOK
    <3> QED BY <3>1, <3>2
  <2>4. FrameOK(t, i - 1) /\ Stays(stack[t][i - 1].pool)
    BY <1>2, <2>1
  <2>5. i < Len(stack'[t]) => i - 1 < Len(stack[t]) /\ stack'[t][i + 1] = stack[t][(i - 1) + 1]
    <3> SUFFICES ASSUME i < Len(stack'[t])
                 PROVE  i - 1 < Len(stack[t]) /\ stack'[t][i + 1] = stack[t][(i - 1) + 1]
      OBVIOUS
    <3>1. i - 1 < Len(stack[t]) /\ i + 1 \in 1 .. Len(stack[t]) + 1 /\ i + 1 # 1
          /\ (i + 1) - 1 = (i - 1) + 1
      BY <1>1, <1>6
    <3> QED BY <1>1, <3>1
  <2> QED BY <2>1, <2>3, <2>4, <2>5 DEF FrameOK, Stays
<1>7. Stacks'
  <2>1. ASSUME NEW i \in 1 .. Len(stack'[t]) PROVE FrameOK(t, i)'
    BY <1>1, <1>5, <1>6
  <2>2. \A u \in Threads \ {t} : Len(stack'[u]) = Len(stack[u])
    BY <1>1
  <2> QED BY <1>4, <2>1, <2>2 DEF Stacks
<1>8. ASSUME NEW u \in Threads, NEW i \in 1 .. Len(stack'[u])
      PROVE  \/ u = t /\ i = 1 /\ stack'[u][i] = f
             \/ u = t /\ i - 1 \in Depth(t) /\ stack'[u][i] = stack[t][i - 1]
             \/ u # t /\ i \in Depth(u) /\ stack'[u][i] = stack[u][i]
  <2>1. CASE u = t
    BY <1>1, <2>1
  <2>2. CASE u # t
    BY <1>1, <2>2
  <2> QED BY <2>1, <2>2
<1>9. Exclusive'
  <2> SUFFICES ASSUME NEW u \in Threads, NEW v \in Threads,
                      NEW i \in 1 .. Len(stack'[u]), NEW j \in 1 .. Len(stack'[v]),
                      stack'[u][i].pool = stack'[v][j].pool
               PROVE  u = v /\ i = j
    BY DEF Exclusive
  <2>1. i \in Int /\ j \in Int
    OBVIOUS
  <2>2. \A w, x \in Threads : \A k \in Depth(w), l \in Depth(x) :
          stack[w][k].pool = stack[x][l].pool => w = x /\ k = l
    BY DEF Calls, Exclusive
  <2>3. CASE u = t /\ v = t
    <3>1. i = 1 \/ (i - 1 \in Depth(t) /\ stack'[u][i] = stack[t][i - 1])
      BY <1>8, <2>3
    <3>2. j = 1 \/ (j - 1 \in Depth(t) /\ stack'[v][j] = stack[t][j - 1])
      BY <1>8, <2>3
    <3>3. CASE i = 1 /\ j = 1
      BY <2>3, <3>3
    <3>4. CASE i = 1 /\ j # 1
      <4>1. stack'[u][i] = f
        BY <1>1, <2>3, <3>4
      <4>2. j - 1 \in Depth(t) /\ stack'[v][j] = stack[t][j - 1]
        BY <3>2, <3>4
      <4>3. stack[t][j - 1].pool # f.pool
        BY <4>2
      <4> QED BY <4>1, <4>2, <4>3
    <3>5. CASE i # 1 /\ j = 1
      <4>1. stack'[v][j] = f
        BY <1>1, <2>3, <3>5
      <4>2. i - 1 \in Depth(t) /\ stack'[u][i] = stack[t][i - 1]
        BY <3>1, <3>5
      <4>3. stack[t][i - 1].pool # f.pool
        BY <4>2
      <4> QED BY <4>1, <4>2, <4>3
    <3>6. CASE i # 1 /\ j # 1
      <4>1. i - 1 = j - 1
        BY <2>2, <2>3, <3>1, <3>2, <3>6
      <4> QED BY <2>1, <2>3, <4>1
    <3> QED BY <3>3, <3>4, <3>5, <3>6
  <2>4. CASE u = t /\ v # t
    <3>1. \/ i = 1 /\ stack'[u][i] = f
          \/ i - 1 \in Depth(t) /\ stack'[u][i] = stack[t][i - 1]
      BY <1>8, <2>4
    <3>2. j \in Depth(v) /\ stack'[v][j] = stack[v][j]
      BY <1>8, <2>4
    <3>3. ASSUME stack'[u][i] = f PROVE FALSE
      BY <2>4, <3>2, <3>3
    <3>4. ASSUME i - 1 \in Depth(t), stack'[u][i] = stack[t][i - 1] PROVE FALSE
      BY ONLY <2>2, <2>4, <3>2, <3>4, stack'[u][i].pool = stack'[v][j].pool, u \in Threads, v \in Threads
    <3> QED BY ONLY <3>1, <3>3, <3>4
  <2>5. CASE u # t /\ v = t
    <3>1. i \in Depth(u) /\ stack'[u][i] = stack[u][i]
      BY <1>8, <2>5
    <3>2. \/ j = 1 /\ stack'[v][j] = f
          \/ j - 1 \in Depth(t) /\ stack'[v][j] = stack[t][j - 1]
      BY <1>8, <2>5
    <3> QED BY <2>2, <2>5, <3>1, <3>2
  <2>6. CASE u # t /\ v # t
    <3>1. i \in Depth(u) /\ stack'[u][i] = stack[u][i]
      BY <1>8, <2>6
    <3>2. j \in Depth(v) /\ stack'[v][j] = stack[v][j]
      BY <1>8, <2>6
    <3> QED BY <2>2, <2>6, <3>1, <3>2
  <2> QED BY <2>3, <2>4, <2>5, <2>6
<1>10. Closing' <=> Closing \/ (f.op = "destroy" /\ f.pool = Root)
  <2>1. ASSUME Closing' PROVE Closing \/ (f.op = "destroy" /\ f.pool = Root)
    <3>1. PICK u \in Threads : \E i \in 1 .. Len(stack'[u]) :
            stack'[u][i].op = "destroy" /\ stack'[u][i].pool = Root
      BY <2>1 DEF Closing
    <3>2. PICK i \in 1 .. Len(stack'[u]) : stack'[u][i].op = "destroy" /\ stack'[u][i].pool = Root
      BY <3>1
    <3>3. CASE u # t
      <4>1. i \in 1 .. Len(stack[u]) /\ stack'[u][i] = stack[u][i]
        BY <1>8, <3>3 DEF Depth
      <4> QED BY <3>2, <4>1 DEF Closing
    <3>4. CASE u = t /\ stack'[u][i] = f
      BY <3>2, <3>4
    <3>5. CASE u = t /\ stack'[u][i] # f
      <4>1. i - 1 \in 1 .. Len(stack[t]) /\ stack'[t][i] = stack[t][i - 1]
        BY <1>8, <3>5 DEF Depth
      <4> QED BY <3>2, <3>5, <4>1 DEF Closing
    <3> QED BY <3>3, <3>4, <3>5
  <2>2. ASSUME Closing PROVE Closing'
    <3>1. PICK u \in Threads : \E i \in 1 .. Len(stack[u]) :
            stack[u][i].op = "destroy" /\ stack[u][i].pool = Root
      BY <2>2 DEF Closing
    <3>2. PICK i \in 1 .. Len(stack[u]) : stack[u][i].op = "destroy" /\ stack[u][i].pool = Root
      BY <3>1
    <3>3. CASE u = t
      <4>1. i + 1 \in 1 .. Len(stack'[t]) /\ stack'[t][i + 1] = stack[t][i]
        BY <1>1, <3>3
      <4> QED BY <3>2, <3>3, <4>1 DEF Closing
    <3>4. CASE u # t
      BY <1>1, <3>2, <3>4 DEF Closing
    <3> QED BY <3>3, <3>4
  <2>3. ASSUME f.op = "destroy", f.pool = Root PROVE Closing'
    <3>1. 1 \in 1 .. Len(stack'[t])
      BY <1>1
    <3> QED BY <1>1, <2>3, <3>1 DEF Closing
  <2> QED BY <2>1, <2>2, <2>3
<1>11. \A u \in Threads \ {t} : Idle(u)' <=> Idle(u)
  BY <1>1 DEF Idle
<1>12. Owned'
  <2>1. CASE ~Closing'
    <3>1. ~Closing /\ f.pool # Root
      BY <1>10, <2>1
    <3>2. owner'[f.pool] = t
      BY <3>1
    <3>3. \A u \in Threads : \A i \in Depth(u) : owner'[stack[u][i].pool] = u
      BY <1>2, <3>1 DEF Calls, Owned, Stays
    <3>4. ASSUME NEW u \in Threads, NEW i \in 1 .. Len(stack'[u])
          PROVE  owner'[stack'[u][i].pool] = u
      <4>1. CASE u = t /\ stack'[u][i] = f
        BY <3>2, <4>1
      <4>2. CASE u = t /\ stack'[u][i] # f
        <5>1. i - 1 \in Depth(t) /\ stack'[u][i] = stack[t][i - 1]
          BY <1>8, <4>2
        <5> QED BY <3>3, <4>2, <5>1
      <4>3. CASE u # t
        <5>1. i \in Depth(u) /\ stack'[u][i] = stack[u][i]
          BY <1>8, <4>3
        <5> QED BY <3>3, <5>1
      <4> QED BY <4>1, <4>2, <4>3
    <3> QED BY <2>1, <3>4 DEF Owned
  <2>2. CASE Closing'
    <3>1. CASE Closing
      <4>1. ~Idle(t)
        BY <3>1
      <4>2. \A u \in Threads : ~Idle(u) => u = t
        BY <3>1, <4>1 DEF Calls, Owned
      <4> QED BY <1>11, <2>2, <4>2 DEF Owned
    <3>2. CASE ~Closing
      <4>1. f.pool = Root /\ Idle(t) /\ owner'[f.pool] # t
        BY <1>10, <2>2, <3>2, PoolsAssumption
      <4>2. \A u \in Threads : Idle(u)
        BY <4>1
      <4> QED BY <1>11, <2>2, <4>2 DEF Owned
    <3> QED BY <3>1, <3>2
  <2> QED BY <2>1, <2>2
<1> QED BY <1>7, <1>9, <1>12 DEF Calls

(* The innermost call moves on. *)
LEMMA CallsGoto ==
  ASSUME Types, Calls, NEW t \in Threads, ~Idle(t), NEW a \in {"cleanups", "free"}, Goto(t, a),
         Top(t).op # "create", a = "free" => Top(t).op = "destroy",
         \A p \in Live : Stays(p)
  PROVE  Calls'
<1> USE DEF Frame, Depth
<1>1. /\ stack' \in [Threads -> Seq(Frames)]
      /\ Len(stack[t]) \in Nat /\ Len(stack'[t]) = Len(stack[t])
      /\ stack'[t][1].at = a
      /\ stack'[t][1].op = stack[t][1].op /\ stack'[t][1].pool = stack[t][1].pool
      /\ \A i \in 1 .. Len(stack[t]) : i # 1 => stack'[t][i] = stack[t][i]
      /\ \A u \in Threads \ {t} : stack'[u] = stack[u]
      /\ ~Idle(t)'
  BY GotoFacts
<1>2. \A u \in Threads : \A i \in Depth(u) : FrameOK(u, i) /\ Stays(stack[u][i].pool)
  BY DEF Calls, Stacks, FrameOK
<1>3. \A u \in Threads : Len(stack[u]) \in Nat /\ Len(stack'[u]) = Len(stack[u])
  <2>1. \A u \in Threads : Len(stack[u]) \in Nat
    BY DEF Types
  <2> QED BY <1>1, <2>1
<1>4. \A u \in Threads : \A i \in Depth(u) :
        /\ stack'[u][i].pool = stack[u][i].pool /\ stack'[u][i].op = stack[u][i].op
        /\ stack'[u][i].at = stack[u][i].at \/ (u = t /\ i = 1 /\ stack'[u][i].at = a)
  BY <1>1
<1>5. ASSUME NEW u \in Threads, NEW i \in Depth(u) PROVE FrameOK(u, i)'
  <2>1. i < Len(stack[u]) => i + 1 \in Depth(u)
    BY <1>3
  <2>2. FrameOK(u, i) /\ Stays(stack[u][i].pool)
    BY <1>2
  <2>3. i < Len(stack[u]) => stack'[u][i + 1].pool = stack[u][i + 1].pool
    BY <1>4, <2>1
  <2>4. CASE stack'[u][i].at = stack[u][i].at
    BY <1>3, <1>4, <2>2, <2>3, <2>4 DEF FrameOK, Stays
  <2>5. CASE u = t /\ i = 1 /\ stack'[u][i].at = a
    <3>1. stack[u][i].op # "create" /\ (a = "free" => stack[u][i].op = "destroy")
      BY <2>5, TopFacts
    <3>2. ~(i > 1) /\ a # "link"
      BY <2>5
    <3> QED BY <1>3, <1>4, <2>2, <2>3, <2>5, <3>1, <3>2 DEF FrameOK, Stays
  <2> QED BY <1>4, <2>4, <2>5
<1>6. Stacks'
  BY <1>3, <1>5 DEF Stacks
<1>7. Exclusive'
  <2> SUFFICES ASSUME NEW u \in Threads, NEW v \in Threads,
                      NEW i \in Depth(u), NEW j \in Depth(v),
                      stack'[u][i].pool = stack'[v][j].pool
               PROVE  u = v /\ i = j
    BY <1>3 DEF Exclusive
  <2>1. stack[u][i].pool = stack[v][j].pool
    BY <1>4
  <2> QED BY <2>1 DEF Calls, Exclusive
<1>8. Closing' <=> Closing
  <2>1. ASSUME NEW u \in Threads
        PROVE  (\E i \in 1 .. Len(stack'[u]) : stack'[u][i].op = "destroy" /\ stack'[u][i].pool = Root)
               <=> (\E i \in 1 .. Len(stack[u]) : stack[u][i].op = "destroy" /\ stack[u][i].pool = Root)
    <3>1. Len(stack'[u]) = Len(stack[u])
      BY <1>3
    <3>2. \A i \in 1 .. Len(stack[u]) :
            stack'[u][i].pool = stack[u][i].pool /\ stack'[u][i].op = stack[u][i].op
      BY <1>4
    <3> QED BY <3>1, <3>2
  <2> QED BY <2>1 DEF Closing
<1>9. \A u \in Threads : Idle(u)' <=> Idle(u)
  BY <1>1 DEF Idle
<1>10. Owned'
  <2>1. ASSUME ~Closing, NEW u \in Threads, NEW i \in Depth(u)
        PROVE  owner'[stack'[u][i].pool] = u
    BY <1>2, <1>4, <2>1 DEF Calls, Owned, Stays
  <2>2. Closing => \A u, v \in Threads : ~Idle(u) /\ ~Idle(v) => u = v
    BY DEF Calls, Owned
  <2> QED BY <1>3, <1>8, <1>9, <2>1, <2>2 DEF Owned
<1> QED BY <1>6, <1>7, <1>10 DEF Calls

(* The innermost call returns. *)
LEMMA CallsPop ==
  ASSUME Types, Calls, NEW t \in Threads, ~Idle(t), Return(t),
         \A p \in Live : p = Top(t).pool \/ Stays(p)
  PROVE  Calls'
<1> USE DEF Frame, Depth
<1>1. /\ stack' \in [Threads -> Seq(Frames)]
      /\ Len(stack[t]) \in Nat /\ Len(stack[t]) > 0 /\ Len(stack'[t]) = Len(stack[t]) - 1
      /\ \A i \in 1 .. Len(stack[t]) - 1 :
           stack'[t][i] = stack[t][i + 1] /\ i + 1 \in 1 .. Len(stack[t])
      /\ \A u \in Threads \ {t} : stack'[u] = stack[u]
      /\ Idle(t)' <=> Len(stack[t]) = 1
  BY ReturnFacts
<1>2. /\ \A u \in Threads : \A i \in Depth(u) : FrameOK(u, i)
      /\ \A u, v \in Threads : \A i \in Depth(u), j \in Depth(v) :
           stack[u][i].pool = stack[v][j].pool => u = v /\ i = j
  BY DEF Calls, Stacks, Exclusive
<1>3. 1 \in Depth(t) /\ Top(t) = stack[t][1]
  BY TopFacts
<1>4. ASSUME NEW u \in Threads, NEW i \in Depth(u), u # t \/ i # 1
      PROVE  Stays(stack[u][i].pool)
  <2>1. stack[u][i].pool \in Live
    BY <1>2 DEF FrameOK
  <2>2. stack[u][i].pool # Top(t).pool
    BY <1>2, <1>3, <1>4
  <2> QED BY <2>1, <2>2
<1>5. ASSUME NEW u \in Threads, NEW i \in 1 .. Len(stack'[u])
      PROVE  \/ u = t /\ i + 1 \in Depth(t) /\ i + 1 # 1 /\ stack'[u][i] = stack[t][i + 1]
             \/ u # t /\ i \in Depth(u) /\ stack'[u][i] = stack[u][i]
  <2>1. CASE u = t
    BY <1>1, <2>1
  <2>2. CASE u # t
    BY <1>1, <2>2
  <2> QED BY <2>1, <2>2
<1>6. ASSUME NEW u \in Threads, NEW i \in 1 .. Len(stack'[u]) PROVE FrameOK(u, i)'
  <2>1. CASE u = t
    <3>1. i + 1 \in Depth(t) /\ i + 1 # 1 /\ stack'[u][i] = stack[t][i + 1] /\ i + 1 > 1
      BY <1>5, <2>1
    <3>2. FrameOK(t, i + 1) /\ Stays(stack[t][i + 1].pool)
      BY <1>2, <1>4, <3>1
    <3>3. stack[t][i + 1].at = "pre"
      BY <3>1, <3>2 DEF FrameOK
    <3>4. i < Len(stack'[t]) => i + 1 < Len(stack[t]) /\ stack'[t][i + 1] = stack[t][(i + 1) + 1]
      <4> SUFFICES ASSUME i < Len(stack'[t])
                   PROVE  i + 1 < Len(stack[t]) /\ stack'[t][i + 1] = stack[t][(i + 1) + 1]
        OBVIOUS
      <4>1. i + 1 < Len(stack[t]) /\ i + 1 \in 1 .. Len(stack[t]) - 1
        BY <1>1, <2>1
      <4> QED BY <1>1, <4>1
    <3> QED BY <2>1, <3>1, <3>2, <3>3, <3>4 DEF FrameOK, Stays
  <2>2. CASE u # t
    <3>1. i \in Depth(u) /\ stack'[u] = stack[u]
      BY <1>1, <2>2
    <3>2. FrameOK(u, i) /\ Stays(stack[u][i].pool)
      BY <1>2, <1>4, <2>2, <3>1
    <3> QED BY <3>1, <3>2 DEF FrameOK, Stays
  <2> QED BY <2>1, <2>2
<1>7. Stacks'
  BY <1>6 DEF Stacks
<1>8. Exclusive'
  <2> SUFFICES ASSUME NEW u \in Threads, NEW v \in Threads,
                      NEW i \in 1 .. Len(stack'[u]), NEW j \in 1 .. Len(stack'[v]),
                      stack'[u][i].pool = stack'[v][j].pool
               PROVE  u = v /\ i = j
    BY DEF Exclusive
  <2>1. i \in Int /\ j \in Int
    OBVIOUS
  <2>2. \/ u = t /\ i + 1 \in Depth(t) /\ stack'[u][i] = stack[t][i + 1]
        \/ u # t /\ i \in Depth(u) /\ stack'[u][i] = stack[u][i]
    BY <1>5
  <2>3. \/ v = t /\ j + 1 \in Depth(t) /\ stack'[v][j] = stack[t][j + 1]
        \/ v # t /\ j \in Depth(v) /\ stack'[v][j] = stack[v][j]
    BY <1>5
  <2>4. u = v
    <3>1. CASE u = t /\ v # t
      <4>1. i + 1 \in Depth(t) /\ j \in Depth(v) /\ stack[t][i + 1].pool = stack[v][j].pool
        BY <2>2, <2>3, <3>1
      <4> QED BY <1>2, <3>1, <4>1
    <3>2. CASE u # t /\ v = t
      <4>1. j + 1 \in Depth(t) /\ i \in Depth(u) /\ stack[t][j + 1].pool = stack[u][i].pool
        BY <2>2, <2>3, <3>2
      <4> QED BY <1>2, <3>2, <4>1
    <3>3. CASE u # t /\ v # t
      <4>1. i \in Depth(u) /\ j \in Depth(v) /\ stack[u][i].pool = stack[v][j].pool
        BY <2>2, <2>3, <3>3
      <4> QED BY <1>2, <4>1
    <3> QED BY <3>1, <3>2, <3>3
  <2>5. CASE u = t
    <3>1. i + 1 = j + 1
      BY <1>2, <2>2, <2>3, <2>4, <2>5
    <3> QED BY <2>1, <2>4, <3>1
  <2>6. CASE u # t
    BY <1>2, <2>2, <2>3, <2>4, <2>6
  <2> QED BY <2>5, <2>6
<1>9. ASSUME Closing' PROVE Closing
  <2>1. PICK u \in Threads : \E i \in 1 .. Len(stack'[u]) :
          stack'[u][i].op = "destroy" /\ stack'[u][i].pool = Root
    BY <1>9 DEF Closing
  <2>2. PICK i \in 1 .. Len(stack'[u]) : stack'[u][i].op = "destroy" /\ stack'[u][i].pool = Root
    BY <2>1
  <2> QED BY <1>5, <2>2 DEF Closing
<1>10. \A u \in Threads \ {t} : Idle(u)' <=> Idle(u)
  BY <1>1 DEF Idle
<1>11. CASE Closing
  <2>1. \A u \in Threads : ~Idle(u) => u = t
    BY <1>11 DEF Calls, Owned
  <2>2. \A u, v \in Threads : ~Idle(u)' /\ ~Idle(v)' => u = v
    BY <1>10, <2>1
  <2>3. ASSUME ~Closing', NEW u \in Threads, NEW i \in 1 .. Len(stack'[u]) PROVE FALSE
    <3>1. u = t
      <4>1. ~Idle(u)'
        BY DEF Idle
      <4> QED BY <1>10, <2>1, <4>1
    <3>2. Len(stack[t]) # 1
      BY <1>1, <3>1
    <3>3. PICK v \in Threads : \E j \in 1 .. Len(stack[v]) :
            stack[v][j].op = "destroy" /\ stack[v][j].pool = Root
      BY <1>11 DEF Closing
    <3>4. PICK j \in 1 .. Len(stack[v]) : stack[v][j].op = "destroy" /\ stack[v][j].pool = Root
      BY <3>3
    <3>5. v = t
      <4>1. ~Idle(v)
        BY <3>4 DEF Idle
      <4> QED BY <2>1, <4>1
    <3>6. ~(j < Len(stack[t]))
      BY <1>2, <3>4, <3>5 DEF FrameOK
    <3>7. j - 1 \in 1 .. Len(stack'[t]) /\ (j - 1) + 1 = j /\ j - 1 \in 1 .. Len(stack[t]) - 1
      <4> DEFINE n == Len(stack[t])
      <4>1. n \in Nat /\ n > 0 /\ n # 1 /\ j \in 1 .. n /\ ~(j < n) /\ Len(stack'[t]) = n - 1
        BY <1>1, <3>2, <3>4, <3>5, <3>6
      <4> HIDE DEF n
      <4>2. j - 1 \in 1 .. n - 1 /\ (j - 1) + 1 = j
        BY <4>1
      <4> QED BY <4>1, <4>2 DEF n
    <3>8. stack'[t][j - 1] = stack[t][j]
      BY <1>1, <3>7
    <3> QED BY <2>3, <3>4, <3>5, <3>7, <3>8 DEF Closing
  <2>4. Owned'
    BY <2>2, <2>3 DEF Owned
  <2> QED BY <1>7, <1>8, <2>4 DEF Calls
<1>12. CASE ~Closing
  <2>1. \A u \in Threads : \A i \in Depth(u) : owner[stack[u][i].pool] = u
    BY <1>12 DEF Calls, Owned
  <2>2. ASSUME NEW u \in Threads, NEW i \in 1 .. Len(stack'[u])
        PROVE  owner'[stack'[u][i].pool] = u
    <3>1. CASE u = t
      <4>1. i + 1 \in Depth(t) /\ i + 1 # 1 /\ stack'[u][i] = stack[t][i + 1]
        BY <1>5, <3>1
      <4>2. owner'[stack[t][i + 1].pool] = owner[stack[t][i + 1].pool]
        BY <1>4, <4>1 DEF Stays
      <4> QED BY <2>1, <3>1, <4>1, <4>2
    <3>2. CASE u # t
      <4>1. i \in Depth(u) /\ stack'[u][i] = stack[u][i]
        BY <1>5, <3>2
      <4>2. owner'[stack[u][i].pool] = owner[stack[u][i].pool]
        BY <1>4, <3>2, <4>1 DEF Stays
      <4> QED BY <2>1, <4>1, <4>2
    <3> QED BY <3>1, <3>2
  <2>3. Owned'
    BY <1>9, <1>12, <2>2 DEF Owned
  <2> QED BY <1>7, <1>8, <2>3 DEF Calls
<1> QED BY <1>11, <1>12

-----------------------------------------------------------------------------
(* The tree. *)

(* The pool that is in no list because of what t is doing. *)
Detached(t) == IF ~Idle(t) /\ Top(t).at \in {"link", "free"} THEN {Top(t).pool} ELSE {}

LEMMA MembersDef ==
  /\ Members = {p \in Live \ {Root} : \A t \in Threads : p \notin Detached(t)}
  /\ Members' = {p \in Live' \ {Root} : \A t \in Threads : p \notin Detached(t)'}
  /\ Members \subseteq Live /\ Live \subseteq Pools /\ Root \notin Members
  /\ Members' \subseteq Live'
  /\ \A p \in Pools : Making(p) => p \notin Members
<1>1. Live \subseteq Pools /\ Live' \subseteq Pools
  BY DEF Live
<1>2. \A p \in Pools : Linked(p) <=> p \in Live \ {Root} /\ \A t \in Threads : p \notin Detached(t)
  BY DEF Linked, Detached
<1>3. \A p \in Pools : Linked(p)' <=> p \in Live' \ {Root} /\ \A t \in Threads : p \notin Detached(t)'
  BY DEF Linked, Detached
<1>4. \A p \in Pools : Making(p) => ~Linked(p)
  BY DEF Making, At, Linked
<1> QED BY <1>1, <1>2, <1>3, <1>4 DEF Members

LEMMA TreeSame ==
  ASSUME Tree, UNCHANGED <<parent, child, sibling, ref, owner>>, Live' = Live,
         Members' = Members, \A p \in Pools : Making(p)' => Making(p)
  PROVE  Tree'
<1>1. Pointers'
  BY DEF Tree, Pointers
<1>2. Parents' /\ Acyclic'
  BY DEF Tree, Parents, Acyclic
<1>3. Reaches'
  BY DEF Tree, Reaches, Closed
<1>4. Unborn'
  BY DEF Tree, Unborn
<1> QED BY <1>1, <1>2, <1>3, <1>4 DEF Tree

(* No pool is its own parent. *)
LEMMA NotOwnParent ==
  ASSUME Acyclic, NEW p \in Live \ {Root}
  PROVE  parent[p] # p
<1> SUFFICES ASSUME parent[p] = p PROVE FALSE
  OBVIOUS
<1>1. {p} \in SUBSET (Live \ {Root}) /\ \A x \in {p} : parent[x] \in {p}
  OBVIOUS
<1> QED BY <1>1 DEF Acyclic

(* The root is there as long as any pool is. *)
LEMMA RootLives ==
  ASSUME Parents, Acyclic, NEW q \in Live
  PROVE  Root \in Live
<1> SUFFICES ASSUME Root \notin Live PROVE FALSE
  OBVIOUS
<1>1. Live \in SUBSET (Live \ {Root}) /\ \A x \in Live : parent[x] \in Live
  BY DEF Parents
<1> QED BY <1>1 DEF Acyclic

LEMMA TreeCreate ==
  ASSUME Types, Tree, NEW t \in Threads, NEW q \in Live, NEW p \in Pools \ Live,
         q = Root \/ owner[q] = t,
         parent' = [parent EXCEPT ![p] = q], child' = [child EXCEPT ![p] = NULL],
         owner' = [owner EXCEPT ![p] = t], UNCHANGED <<sibling, ref>>,
         Live' = Live \cup {p}, Members' = Members,
         \A x \in Pools : Making(x)' => Making(x) \/ x = p
  PROVE  Tree'
<1>0. Members \subseteq Live /\ Live \subseteq Pools /\ Root \notin Members
  BY MembersDef
<1>1. p # Root
  BY RootLives DEF Tree
<1>2. /\ parent \in [Pools -> Pools \cup {NULL}] /\ child \in [Pools -> Pools \cup {NULL}]
      /\ owner \in [Pools -> Threads \cup {NULL}]
  BY DEF Types
<1>3. /\ \A x \in Pools \ {p} : parent'[x] = parent[x] /\ child'[x] = child[x] /\ owner'[x] = owner[x]
      /\ parent'[p] = q /\ child'[p] = NULL /\ owner'[p] = t
  BY <1>2
<1>4. \A x \in Live : x # p /\ (x # Root => parent[x] \in Live)
  BY DEF Tree, Parents
<1>5. Pointers'
  <2>1. ASSUME NEW x \in Pools, child'[x] # NULL
        PROVE  child'[x] \in Members' /\ parent'[child'[x]] = x /\ ref'[child'[x]] = <<"child", x>>
    <3>1. x # p /\ child'[x] = child[x]
      BY <1>3, <2>1
    <3>2. child[x] \in Members /\ parent[child[x]] = x /\ ref[child[x]] = <<"child", x>>
      BY <2>1, <3>1 DEF Tree, Pointers
    <3> QED BY <1>0, <1>3, <1>4, <3>1, <3>2
  <2>2. ASSUME NEW x \in Members', sibling'[x] # NULL
        PROVE  /\ sibling'[x] \in Members' /\ parent'[sibling'[x]] = parent'[x]
               /\ ref'[sibling'[x]] = <<"sibling", x>>
    <3>1. /\ sibling[x] \in Members /\ parent[sibling[x]] = parent[x]
          /\ ref[sibling[x]] = <<"sibling", x>>
      BY <2>2 DEF Tree, Pointers
    <3> QED BY <1>0, <1>3, <1>4, <3>1
  <2>3. ASSUME NEW x \in Members'
        PROVE  \/ ref'[x] = <<"child", parent'[x]>> /\ child'[parent'[x]] = x
               \/ \E y \in Members' : ref'[x] = <<"sibling", y>> /\ sibling'[y] = x
    <3>1. \/ ref[x] = <<"child", parent[x]>> /\ child[parent[x]] = x
          \/ \E y \in Members : ref[x] = <<"sibling", y>> /\ sibling[y] = x
      BY DEF Tree, Pointers
    <3>2. parent'[x] = parent[x] /\ child'[parent[x]] = child[parent[x]]
      BY <1>0, <1>3, <1>4
    <3> QED BY <3>1, <3>2
  <2> QED BY <2>1, <2>2, <2>3 DEF Pointers
<1>6. Parents'
  <2> SUFFICES ASSUME NEW x \in Live' \ {Root}
               PROVE  /\ parent'[x] \in Live' /\ owner'[x] \in Threads
                      /\ parent'[x] # Root => owner'[x] = owner'[parent'[x]]
    BY DEF Parents
  <2>1. CASE x = p
    BY <1>0, <1>3, <1>4, <2>1
  <2>2. CASE x # p
    <3>1. x \in Live /\ parent[x] \in Live /\ parent'[x] = parent[x] /\ owner'[x] = owner[x]
          /\ owner'[parent[x]] = owner[parent[x]]
      BY <1>0, <1>3, <1>4, <2>2
    <3> QED BY <3>1 DEF Tree, Parents
  <2> QED BY <2>1, <2>2
<1>7. Acyclic'
  <2> SUFFICES ASSUME NEW S \in SUBSET (Live' \ {Root}), \A x \in S : parent'[x] \in S
               PROVE  S = {}
    BY DEF Acyclic
  <2>1. S \ {p} \in SUBSET (Live \ {Root})
    OBVIOUS
  <2>2. ASSUME NEW x \in S \ {p} PROVE parent[x] \in S \ {p}
    BY <1>0, <1>3, <1>4, <2>1
  <2>3. S \ {p} = {}
    BY <2>1, <2>2 DEF Tree, Acyclic
  <2>4. p \notin S
    BY <1>3, <1>4, <2>3
  <2> QED BY <2>3, <2>4
<1>8. Reaches'
  <2> SUFFICES ASSUME NEW x \in Pools, NEW S \in SUBSET Pools, Closed(S, x)',
                      NEW m \in Members', parent'[m] = x
               PROVE  m \in S
    BY DEF Reaches
  <2>1. m \in Members /\ parent[m] = x /\ x \in Live /\ x # p
    BY <1>0, <1>3, <1>4
  <2>2. Closed(S, x)
    BY <1>3, <2>1 DEF Closed
  <2> QED BY <2>1, <2>2 DEF Tree, Reaches
<1>9. Unborn'
  BY DEF Tree, Unborn
<1> QED BY <1>5, <1>6, <1>7, <1>8, <1>9 DEF Tree

LEMMA TreeLink ==
  ASSUME Types, Tree, NEW p \in Live \ {Root}, Making(p),
         sibling' = [sibling EXCEPT ![p] = child[parent[p]]],
         child' = [child EXCEPT ![parent[p]] = p],
         ref' = [x \in Pools |-> IF x = p THEN <<"child", parent[p]>>
                                 ELSE IF x = child[parent[p]] THEN <<"sibling", p>> ELSE ref[x]],
         UNCHANGED <<parent, owner>>, Live' = Live, Members' = Members \cup {p},
         \A x \in Pools : Making(x)' => Making(x) /\ x # p
  PROVE  Tree'
<1> DEFINE q == parent[p]
           first == child[q]
<1>0. Members \subseteq Live /\ Live \subseteq Pools /\ p \notin Members /\ p \in Pools
  BY MembersDef
<1>1. /\ sibling \in [Pools -> Pools \cup {NULL}] /\ child \in [Pools -> Pools \cup {NULL}]
      /\ NULL \notin Pools
  BY PoolsAssumption DEF Types
<1>2. q \in Live /\ q # p /\ q \in Pools
  BY <1>0, NotOwnParent DEF Tree, Parents
<1>3. /\ sibling'[p] = first /\ \A x \in Pools \ {p} : sibling'[x] = sibling[x]
      /\ child'[q] = p /\ \A x \in Pools \ {q} : child'[x] = child[x]
      /\ ref'[p] = <<"child", q>> /\ \A x \in Pools \ {p, first} : ref'[x] = ref[x]
      /\ first \in Pools /\ first # p => ref'[first] = <<"sibling", p>>
  BY <1>0, <1>1, <1>2
<1>4. sibling[p] = NULL
  BY <1>0 DEF Tree, Unborn
<1>5. first # NULL => first \in Members /\ parent[first] = q /\ ref[first] = <<"child", q>>
  BY <1>2 DEF Tree, Pointers
<1> HIDE DEF first, q
<1>6. /\ \A x \in Pools : child[x] # NULL =>
           child[x] \in Members /\ parent[child[x]] = x /\ ref[child[x]] = <<"child", x>>
      /\ \A x \in Members : sibling[x] # NULL =>
           /\ sibling[x] \in Members /\ parent[sibling[x]] = parent[x]
           /\ ref[sibling[x]] = <<"sibling", x>>
      /\ \A x \in Members :
           \/ ref[x] = <<"child", parent[x]>> /\ child[parent[x]] = x
           \/ \E y \in Members : ref[x] = <<"sibling", y>> /\ sibling[y] = x
  BY DEF Tree, Pointers
<1>7. parent[p] = q /\ child[q] = first
  BY DEF q, first
<1>8. ASSUME NEW x \in Pools, child'[x] # NULL
      PROVE  child'[x] \in Members' /\ parent'[child'[x]] = x /\ ref'[child'[x]] = <<"child", x>>
  <2>1. CASE x = q
    BY <1>3, <1>7, <2>1
  <2>2. CASE x # q
    <3>1. child'[x] = child[x]
      BY <1>3, <2>2
    <3>2. child[x] \in Members /\ parent[child[x]] = x /\ ref[child[x]] = <<"child", x>>
      BY <1>6, <1>8, <3>1
    <3>3. child[x] # p /\ child[x] # first /\ child[x] \in Pools
      BY <1>0, <1>1, <1>5, <2>2, <3>2
    <3> QED BY <1>3, <3>1, <3>2, <3>3
  <2> QED BY <2>1, <2>2
<1>9. ASSUME NEW x \in Members', sibling'[x] # NULL
      PROVE  /\ sibling'[x] \in Members' /\ parent'[sibling'[x]] = parent'[x]
             /\ ref'[sibling'[x]] = <<"sibling", x>>
  <2>1. CASE x = p
    BY <1>0, <1>1, <1>3, <1>5, <1>7, <1>9, <2>1
  <2>2. CASE x # p
    <3>1. x \in Members /\ sibling'[x] = sibling[x]
      BY <1>0, <1>3, <2>2
    <3>2. /\ sibling[x] \in Members /\ parent[sibling[x]] = parent[x]
          /\ ref[sibling[x]] = <<"sibling", x>>
      BY <1>6, <1>9, <3>1
    <3>3. sibling[x] # p /\ sibling[x] # first /\ sibling[x] \in Pools
      <4>1. <<"sibling", x>> # <<"child", q>>
        OBVIOUS
      <4> QED BY <1>0, <1>1, <1>5, <3>2, <4>1
    <3> QED BY <1>3, <3>1, <3>2, <3>3
  <2> QED BY <2>1, <2>2
<1>10. ASSUME NEW x \in Members'
       PROVE  \/ ref'[x] = <<"child", parent'[x]>> /\ child'[parent'[x]] = x
              \/ \E y \in Members' : ref'[x] = <<"sibling", y>> /\ sibling'[y] = x
  <2>1. CASE x = p
    BY <1>3, <1>7, <2>1
  <2>2. CASE x # p /\ x = first
    <3>1. ref'[x] = <<"sibling", p>> /\ sibling'[p] = x /\ p \in Members'
      BY <1>0, <1>3, <2>2
    <3> QED BY <3>1
  <2>3. CASE x # p /\ x # first
    <3>1. x \in Members /\ ref'[x] = ref[x]
      BY <1>0, <1>3, <2>3
    <3>2. CASE ref[x] = <<"child", parent[x]>> /\ child[parent[x]] = x
      <4>1. parent[x] \in Pools /\ parent[x] # q
        BY <1>0, <1>7, <2>3, <3>1, <3>2, MembersDef DEF Tree, Parents
      <4> QED BY <1>3, <3>1, <3>2, <4>1
    <3>3. CASE \E y \in Members : ref[x] = <<"sibling", y>> /\ sibling[y] = x
      <4>1. PICK y \in Members : ref[x] = <<"sibling", y>> /\ sibling[y] = x
        BY <3>3
      <4>2. y \in Members' /\ sibling'[y] = x
        BY <1>0, <1>3, <4>1
      <4> QED BY <3>1, <4>1, <4>2
    <3> QED BY <1>6, <3>1, <3>2, <3>3
  <2> QED BY <2>1, <2>2, <2>3
<1>11. Pointers'
  BY <1>8, <1>9, <1>10 DEF Pointers
<1>12. Parents' /\ Acyclic'
  BY DEF Tree, Parents, Acyclic
<1>13. Reaches'
  <2> SUFFICES ASSUME NEW x \in Pools, NEW S \in SUBSET Pools, Closed(S, x)',
                      NEW m \in Members', parent'[m] = x
               PROVE  m \in S
    BY DEF Reaches
  <2>1. /\ child'[x] # NULL => child'[x] \in S
        /\ \A y \in S : sibling'[y] # NULL => sibling'[y] \in S
    BY DEF Closed
  <2>2. \A y \in S : sibling[y] # NULL => sibling[y] \in S
    BY <1>3, <1>4, <2>1
  <2>3. CASE x = q
    <3>1. p \in S
      BY <1>0, <1>1, <1>3, <2>1, <2>3
    <3>2. Closed(S, x)
      BY <1>3, <1>7, <2>1, <2>2, <2>3, <3>1 DEF Closed
    <3> QED BY <3>1, <3>2 DEF Tree, Reaches
  <2>4. CASE x # q
    <3>1. Closed(S, x) /\ m # p
      BY <1>3, <1>7, <2>1, <2>2, <2>4 DEF Closed
    <3> QED BY <3>1 DEF Tree, Reaches
  <2> QED BY <2>3, <2>4
<1>14. Unborn'
  BY <1>0, <1>3 DEF Tree, Unborn
<1> QED BY <1>11, <1>12, <1>13, <1>14 DEF Tree

(* What the pointers around p become when it is first in its list, *)
LEMMA UnlinkFirst ==
  ASSUME Types, Pointers, Reaches, Parents, NEW p \in Members,
         ref[p] = <<"child", parent[p]>>, child[parent[p]] = p,
         child' = [child EXCEPT ![parent[p]] = sibling[p]], sibling' = sibling,
         ref' = IF sibling[p] = NULL THEN ref ELSE [ref EXCEPT ![sibling[p]] = ref[p]],
         UNCHANGED parent, Members' = Members \ {p}
  PROVE  Pointers' /\ Reaches'
<1> DEFINE q == parent[p]
           s == sibling[p]
<1>0. Members \subseteq Live /\ Live \subseteq Pools /\ p \in Pools /\ Root \notin Members
  BY MembersDef
<1>1. /\ sibling \in [Pools -> Pools \cup {NULL}] /\ child \in [Pools -> Pools \cup {NULL}]
      /\ DOMAIN ref = Pools /\ NULL \notin Pools
  BY PoolsAssumption DEF Types
<1>2. \A x \in Members : parent[x] \in Pools
  BY <1>0 DEF Parents
<1>3. /\ \A x \in Pools : child[x] # NULL =>
           child[x] \in Members /\ parent[child[x]] = x /\ ref[child[x]] = <<"child", x>>
      /\ \A x \in Members : sibling[x] # NULL =>
           /\ sibling[x] \in Members /\ parent[sibling[x]] = parent[x]
           /\ ref[sibling[x]] = <<"sibling", x>>
      /\ \A x \in Members :
           \/ ref[x] = <<"child", parent[x]>> /\ child[parent[x]] = x
           \/ \E y \in Members : ref[x] = <<"sibling", y>> /\ sibling[y] = x
  BY DEF Pointers
<1>4. s # NULL => s \in Members /\ parent[s] = q /\ ref[s] = <<"sibling", p>> /\ s # p
  <2>1. <<"sibling", p>> # <<"child", q>>
    OBVIOUS
  <2> QED BY <1>3, <2>1
<1>5. /\ child'[q] = s /\ \A x \in Pools \ {q} : child'[x] = child[x]
      /\ s # NULL => ref'[s] = <<"child", q>>
      /\ \A x \in Pools \ {s} : ref'[x] = ref[x]
  <2>1. child'[q] = s /\ \A x \in Pools \ {q} : child'[x] = child[x]
    BY <1>1, <1>2
  <2>2. CASE s = NULL
    BY <2>1, <2>2
  <2>3. CASE s # NULL
    BY <1>0, <1>1, <1>4, <2>1, <2>3
  <2> QED BY <2>2, <2>3
<1>6. parent[p] = q /\ child[q] = p /\ ref[p] = <<"child", q>> /\ sibling[p] = s /\ q \in Pools
  BY <1>2
<1> HIDE DEF q, s
<1>7. ASSUME NEW x \in Pools, child'[x] # NULL
      PROVE  child'[x] \in Members' /\ parent'[child'[x]] = x /\ ref'[child'[x]] = <<"child", x>>
  <2>1. CASE x = q
    BY <1>4, <1>5, <1>7, <2>1
  <2>2. CASE x # q
    <3>1. child'[x] = child[x]
      BY <1>5, <2>2
    <3>2. child[x] \in Members /\ parent[child[x]] = x /\ ref[child[x]] = <<"child", x>>
      BY <1>3, <1>7, <3>1
    <3>3. child[x] # p /\ child[x] # s
      BY <1>0, <1>1, <1>4, <1>6, <2>2, <3>2
    <3> QED BY <1>0, <1>5, <3>1, <3>2, <3>3
  <2> QED BY <2>1, <2>2
<1>8. ASSUME NEW x \in Members', sibling'[x] # NULL
      PROVE  /\ sibling'[x] \in Members' /\ parent'[sibling'[x]] = parent'[x]
             /\ ref'[sibling'[x]] = <<"sibling", x>>
  <2>1. x \in Members /\ x # p
    OBVIOUS
  <2>2. /\ sibling[x] \in Members /\ parent[sibling[x]] = parent[x]
        /\ ref[sibling[x]] = <<"sibling", x>>
    BY <1>3, <1>8, <2>1
  <2>3. <<"sibling", x>> # <<"child", q>> /\ <<"sibling", x>> # <<"sibling", p>>
    BY <2>1
  <2>4. sibling[x] # p /\ sibling[x] # s
    BY <1>0, <1>1, <1>4, <1>6, <2>2, <2>3
  <2> QED BY <1>0, <1>5, <2>2, <2>4
<1>9. ASSUME NEW x \in Members'
      PROVE  \/ ref'[x] = <<"child", parent'[x]>> /\ child'[parent'[x]] = x
             \/ \E y \in Members' : ref'[x] = <<"sibling", y>> /\ sibling'[y] = x
  <2>1. x \in Members /\ x # p /\ x \in Pools
    BY <1>0
  <2>2. CASE x = s
    BY <1>1, <1>4, <1>5, <2>1, <2>2
  <2>3. CASE x # s
    <3>1. ref'[x] = ref[x]
      BY <1>5, <2>1, <2>3
    <3>2. CASE ref[x] = <<"child", parent[x]>> /\ child[parent[x]] = x
      <4>1. parent[x] # q /\ parent[x] \in Pools
        BY <1>2, <1>6, <2>1, <3>2
      <4> QED BY <1>5, <3>1, <3>2, <4>1
    <3>3. CASE \E y \in Members : ref[x] = <<"sibling", y>> /\ sibling[y] = x
      <4>1. PICK y \in Members : ref[x] = <<"sibling", y>> /\ sibling[y] = x
        BY <3>3
      <4>2. y \in Members'
        BY <1>6, <2>3, <4>1
      <4> QED BY <3>1, <4>1, <4>2
    <3> QED BY <1>3, <2>1, <3>2, <3>3
  <2> QED BY <2>2, <2>3
<1>10. Reaches'
  <2> SUFFICES ASSUME NEW x \in Pools, NEW S \in SUBSET Pools, Closed(S, x)',
                      NEW m \in Members', parent'[m] = x
               PROVE  m \in S
    BY DEF Reaches
  <2>1. /\ child'[x] # NULL => child'[x] \in S
        /\ \A y \in S : sibling[y] # NULL => sibling[y] \in S
    BY DEF Closed
  <2>2. CASE x = q
    <3>1. S \cup {p} \in SUBSET Pools
      BY <1>0
    <3>2. Closed(S \cup {p}, x)
      BY <1>5, <1>6, <2>1, <2>2 DEF Closed
    <3>3. m \in S \cup {p}
      BY <3>1, <3>2 DEF Reaches
    <3> QED BY <3>3
  <2>3. CASE x # q
    <3>1. Closed(S, x)
      BY <1>5, <2>1, <2>3 DEF Closed
    <3> QED BY <3>1 DEF Reaches
  <2> QED BY <2>2, <2>3
<1> QED BY <1>7, <1>8, <1>9, <1>10 DEF Pointers

(* and when it comes after w. *)
LEMMA UnlinkLater ==
  ASSUME Types, Pointers, Reaches, Parents, NEW p \in Members, NEW w \in Members,
         ref[p] = <<"sibling", w>>, sibling[w] = p,
         sibling' = [sibling EXCEPT ![w] = sibling[p]], child' = child,
         ref' = IF sibling[p] = NULL THEN ref ELSE [ref EXCEPT ![sibling[p]] = ref[p]],
         UNCHANGED parent, Members' = Members \ {p}
  PROVE  Pointers' /\ Reaches'
<1> DEFINE q == parent[p]
           s == sibling[p]
<1>0. Members \subseteq Live /\ Live \subseteq Pools /\ p \in Pools /\ w \in Pools /\ Root \notin Members
  BY MembersDef
<1>1. /\ sibling \in [Pools -> Pools \cup {NULL}] /\ child \in [Pools -> Pools \cup {NULL}]
      /\ DOMAIN ref = Pools /\ NULL \notin Pools
  BY PoolsAssumption DEF Types
<1>2. \A x \in Members : parent[x] \in Pools
  BY <1>0 DEF Parents
<1>3. /\ \A x \in Pools : child[x] # NULL =>
           child[x] \in Members /\ parent[child[x]] = x /\ ref[child[x]] = <<"child", x>>
      /\ \A x \in Members : sibling[x] # NULL =>
           /\ sibling[x] \in Members /\ parent[sibling[x]] = parent[x]
           /\ ref[sibling[x]] = <<"sibling", x>>
      /\ \A x \in Members :
           \/ ref[x] = <<"child", parent[x]>> /\ child[parent[x]] = x
           \/ \E y \in Members : ref[x] = <<"sibling", y>> /\ sibling[y] = x
  BY DEF Pointers
<1>4. \A x : <<"sibling", w>> # <<"child", x>>
  OBVIOUS
<1>5. \A x : <<"sibling", x>> = <<"sibling", w>> => x = w
  OBVIOUS
<1>6. \A x \in Pools : child[x] # p
  BY <1>0, <1>1, <1>3, <1>4
<1>7. \A x \in Members : sibling[x] = p => x = w
  BY <1>0, <1>1, <1>3, <1>5
<1>8. w # p
  <2> SUFFICES ASSUME w = p PROVE FALSE
    OBVIOUS
  <2>1. Members \ {p} \in SUBSET Pools
    BY <1>0
  <2>2. Closed(Members \ {p}, q)
    BY <1>2, <1>3, <1>6, <1>7 DEF Closed
  <2> QED BY <1>2, <2>1, <2>2 DEF Reaches
<1>9. s # NULL => s \in Members /\ parent[s] = q /\ ref[s] = <<"sibling", p>> /\ s # p
  BY <1>3, <1>7, <1>8
<1>10. parent[w] = q
  BY <1>0, <1>1, <1>3
<1>11. /\ sibling'[w] = s /\ \A x \in Pools \ {w} : sibling'[x] = sibling[x]
       /\ s # NULL => ref'[s] = <<"sibling", w>>
       /\ \A x \in Pools \ {s} : ref'[x] = ref[x]
  <2>1. sibling'[w] = s /\ \A x \in Pools \ {w} : sibling'[x] = sibling[x]
    BY <1>0, <1>1
  <2>2. CASE s = NULL
    BY <2>1, <2>2
  <2>3. CASE s # NULL
    BY <1>0, <1>1, <1>9, <2>1, <2>3
  <2> QED BY <2>2, <2>3
<1>12. sibling[p] = s
  OBVIOUS
<1> HIDE DEF q, s
<1>13. ASSUME NEW x \in Pools, child'[x] # NULL
       PROVE  child'[x] \in Members' /\ parent'[child'[x]] = x /\ ref'[child'[x]] = <<"child", x>>
  <2>1. child[x] \in Members /\ parent[child[x]] = x /\ ref[child[x]] = <<"child", x>>
    BY <1>3, <1>13
  <2>2. <<"child", x>> # <<"sibling", p>>
    OBVIOUS
  <2>3. child[x] # p /\ child[x] # s
    BY <1>0, <1>1, <1>6, <1>9, <2>1, <2>2
  <2> QED BY <1>0, <1>11, <2>1, <2>3
<1>14. ASSUME NEW x \in Members', sibling'[x] # NULL
       PROVE  /\ sibling'[x] \in Members' /\ parent'[sibling'[x]] = parent'[x]
              /\ ref'[sibling'[x]] = <<"sibling", x>>
  <2>1. x \in Members /\ x # p /\ x \in Pools
    BY <1>0
  <2>2. CASE x = w
    BY <1>9, <1>10, <1>11, <1>14, <2>2
  <2>3. CASE x # w
    <3>1. sibling'[x] = sibling[x]
      BY <1>11, <2>1, <2>3
    <3>2. /\ sibling[x] \in Members /\ parent[sibling[x]] = parent[x]
          /\ ref[sibling[x]] = <<"sibling", x>>
      BY <1>3, <1>14, <2>1, <3>1
    <3>3. <<"sibling", x>> # <<"sibling", p>>
      BY <2>1
    <3>4. sibling[x] # p /\ sibling[x] # s
      BY <1>0, <1>1, <1>7, <1>9, <2>1, <2>3, <3>2, <3>3
    <3> QED BY <1>0, <1>11, <3>1, <3>2, <3>4
  <2> QED BY <2>2, <2>3
<1>15. ASSUME NEW x \in Members'
       PROVE  \/ ref'[x] = <<"child", parent'[x]>> /\ child'[parent'[x]] = x
              \/ \E y \in Members' : ref'[x] = <<"sibling", y>> /\ sibling'[y] = x
  <2>1. x \in Members /\ x # p /\ x \in Pools
    BY <1>0
  <2>2. CASE x = s
    <3>1. w \in Members' /\ ref'[x] = <<"sibling", w>> /\ sibling'[w] = x
      BY <1>0, <1>1, <1>8, <1>11, <2>1, <2>2
    <3> QED BY <3>1
  <2>3. CASE x # s
    <3>1. ref'[x] = ref[x]
      BY <1>11, <2>1, <2>3
    <3>2. CASE ref[x] = <<"child", parent[x]>> /\ child[parent[x]] = x
      BY <3>1, <3>2
    <3>3. CASE \E y \in Members : ref[x] = <<"sibling", y>> /\ sibling[y] = x
      <4>1. PICK y \in Members : ref[x] = <<"sibling", y>> /\ sibling[y] = x
        BY <3>3
      <4>2. y # p /\ y # w /\ y \in Pools
        BY <1>0, <1>12, <2>1, <2>3, <4>1
      <4>3. y \in Members' /\ sibling'[y] = x
        BY <1>11, <4>1, <4>2
      <4> QED BY <3>1, <4>1, <4>3
    <3> QED BY <1>3, <2>1, <3>2, <3>3
  <2> QED BY <2>2, <2>3
<1>16. Reaches'
  <2> SUFFICES ASSUME NEW x \in Pools, NEW S \in SUBSET Pools, Closed(S, x)',
                      NEW m \in Members', parent'[m] = x
               PROVE  m \in S
    BY DEF Reaches
  <2>1. /\ child[x] # NULL => child[x] \in S
        /\ \A y \in S : sibling'[y] # NULL => sibling'[y] \in S
    BY DEF Closed
  <2> DEFINE T == IF w \in S THEN S \cup {p} ELSE S
  <2>2. T \in SUBSET Pools
    BY <1>0
  <2>3. ASSUME NEW y \in T, sibling[y] # NULL PROVE sibling[y] \in T
    <3>1. CASE y = w
      BY <1>8, <2>3, <3>1
    <3>2. CASE y # w /\ y \in S
      BY <1>11, <2>1, <2>3, <3>2
    <3>3. CASE y # w /\ y \notin S
      BY <1>11, <1>12, <2>1, <2>3, <3>3
    <3> QED BY <3>1, <3>2, <3>3
  <2>4. Closed(T, x)
    BY <2>1, <2>3 DEF Closed
  <2>5. m \in T
    BY <2>2, <2>4 DEF Reaches
  <2> QED BY <2>5
<1> QED BY <1>13, <1>14, <1>15, <1>16 DEF Pointers

LEMMA TreeUnlink ==
  ASSUME Types, Tree, NEW p \in Members, Store(ref[p], sibling[p]),
         ref' = IF sibling[p] = NULL THEN ref ELSE [ref EXCEPT ![sibling[p]] = ref[p]],
         UNCHANGED <<parent, owner>>, Live' = Live, Members' = Members \ {p},
         \A x \in Pools : Making(x)' => Making(x)
  PROVE  Tree'
<1>1. Pointers /\ Reaches /\ Parents /\ Acyclic /\ Unborn
  BY DEF Tree
<1>2. Parents' /\ Acyclic'
  BY <1>1 DEF Parents, Acyclic
<1>3. CASE ref[p] = <<"child", parent[p]>> /\ child[parent[p]] = p
  <2>1. child' = [child EXCEPT ![parent[p]] = sibling[p]] /\ sibling' = sibling
    BY <1>3 DEF Store
  <2>2. Pointers' /\ Reaches'
    BY <1>1, <1>3, <2>1, UnlinkFirst
  <2>3. Unborn'
    BY <1>1, <2>1 DEF Unborn
  <2> QED BY <1>2, <2>2, <2>3 DEF Tree
<1>4. CASE \E x \in Members : ref[p] = <<"sibling", x>> /\ sibling[x] = p
  <2>1. PICK w \in Members : ref[p] = <<"sibling", w>> /\ sibling[w] = p
    BY <1>4
  <2>2. child' = child /\ sibling' = [sibling EXCEPT ![w] = sibling[p]]
    BY <2>1 DEF Store
  <2>3. Pointers' /\ Reaches'
    BY <1>1, <2>1, <2>2, UnlinkLater
  <2>4. ASSUME NEW x \in Pools, x \notin Live' \/ Making(x)' PROVE sibling'[x] = NULL
    <3>1. sibling[x] = NULL
      BY <1>1, <2>4 DEF Unborn
    <3>2. x # w
      BY <2>4, MembersDef
    <3> QED BY <2>2, <3>1, <3>2 DEF Types
  <2> QED BY <1>2, <2>3, <2>4 DEF Tree, Unborn
<1> QED BY <1>1, <1>3, <1>4 DEF Pointers

LEMMA TreeFree ==
  ASSUME Types, Tree, NEW p \in Live \ Members,
         \A x \in Live \ {Root} : parent[x] # p,
         owner' = [owner EXCEPT ![p] = NULL], parent' = [parent EXCEPT ![p] = NULL],
         ref' = [ref EXCEPT ![p] = NULL], sibling' = [sibling EXCEPT ![p] = NULL],
         UNCHANGED child, Live' = Live \ {p}, Members' = Members,
         \A x \in Pools : Making(x)' => Making(x)
  PROVE  Tree'
<1>0. Members \subseteq Live /\ Live \subseteq Pools /\ p \in Pools /\ Root \notin Members
  BY MembersDef
<1>1. /\ sibling'[p] = NULL
      /\ \A x \in Pools \ {p} : /\ owner'[x] = owner[x] /\ parent'[x] = parent[x]
                                /\ ref'[x] = ref[x] /\ sibling'[x] = sibling[x]
  BY <1>0 DEF Types
<1>2. /\ \A x \in Pools : child[x] # NULL =>
           child[x] \in Members /\ parent[child[x]] = x /\ ref[child[x]] = <<"child", x>>
      /\ \A x \in Members : sibling[x] # NULL =>
           /\ sibling[x] \in Members /\ parent[sibling[x]] = parent[x]
           /\ ref[sibling[x]] = <<"sibling", x>>
      /\ \A x \in Members :
           \/ ref[x] = <<"child", parent[x]>> /\ child[parent[x]] = x
           \/ \E y \in Members : ref[x] = <<"sibling", y>> /\ sibling[y] = x
  BY DEF Tree, Pointers
<1>3. \A x \in Members : x # p /\ x \in Pools
  BY <1>0
<1>4. Pointers'
  <2>1. \A x \in Members : parent'[x] = parent[x] /\ ref'[x] = ref[x] /\ sibling'[x] = sibling[x]
    BY <1>1, <1>3
  <2> QED BY <1>2, <2>1 DEF Pointers
<1>5. Parents'
  <2> SUFFICES ASSUME NEW x \in Live \ {Root}, x # p
               PROVE  /\ parent'[x] \in Live \ {p} /\ owner'[x] \in Threads
                      /\ parent'[x] # Root => owner'[x] = owner'[parent'[x]]
    BY DEF Parents
  <2>1. parent[x] \in Live \ {p} /\ (parent[x] # Root => owner[x] = owner[parent[x]])
        /\ owner[x] \in Threads
    BY DEF Tree, Parents
  <2> QED BY <1>0, <1>1, <2>1
<1>6. Acyclic'
  <2> SUFFICES ASSUME NEW S \in SUBSET (Live' \ {Root}), \A x \in S : parent'[x] \in S
               PROVE  S = {}
    BY DEF Acyclic
  <2>1. S \in SUBSET (Live \ {Root}) /\ \A x \in S : parent[x] \in S
    BY <1>0, <1>1
  <2> QED BY <2>1 DEF Tree, Acyclic
<1>7. Reaches'
  <2> SUFFICES ASSUME NEW x \in Pools, NEW S \in SUBSET Pools, Closed(S, x)',
                      NEW m \in Members, parent'[m] = x
               PROVE  m \in S
    BY DEF Reaches
  <2>1. /\ child[x] # NULL => child[x] \in S
        /\ \A y \in S : sibling'[y] # NULL => sibling'[y] \in S
    BY DEF Closed
  <2>2. S \cap Members \in SUBSET Pools
    OBVIOUS
  <2>3. Closed(S \cap Members, x)
    BY <1>1, <1>2, <1>3, <2>1 DEF Closed
  <2>4. parent[m] = x
    BY <1>1, <1>3
  <2> QED BY <2>2, <2>3, <2>4 DEF Tree, Reaches
<1>8. Unborn'
  <2> SUFFICES ASSUME NEW x \in Pools, x \notin Live' \/ Making(x)' PROVE sibling'[x] = NULL
    BY DEF Unborn
  <2>1. CASE x = p
    BY <1>1, <2>1
  <2>2. CASE x # p
    BY <1>1, <2>2 DEF Tree, Unborn
  <2> QED BY <2>1, <2>2
<1> QED BY <1>4, <1>5, <1>6, <1>7, <1>8 DEF Tree

(* A subpool that is about to be destroyed is in no call yet. *)
LEMMA SubpoolFree ==
  ASSUME Types, Calls, Tree, NEW t \in Threads, ~Idle(t), child[Top(t).pool] # NULL
  PROVE  \A u \in Threads : \A j \in Depth(u) : Frame(u, j).pool # child[Top(t).pool]
<1> DEFINE p == Top(t).pool
           c == child[p]
<1>0. /\ Top(t) = stack[t][1] /\ 1 \in Depth(t) /\ p \in Pools
      /\ Len(stack[t]) \in Nat
  BY TopFacts
<1>1. c \in Members /\ parent[c] = p
  BY <1>0 DEF Tree, Pointers
<1>2. c \in Live \ {Root}
  BY <1>1, MembersDef
<1> SUFFICES ASSUME NEW u \in Threads, NEW j \in Depth(u), stack[u][j].pool = c PROVE FALSE
  BY DEF Frame
<1>3. CASE u # t
  <2>1. ~Idle(u)
    <3>1. Len(stack[u]) # 0
      BY DEF Depth
    <3> QED BY <3>1 DEF Idle
  <2>2. ~Closing
    BY <1>3, <2>1 DEF Calls, Owned
  <2>3. owner[p] = t /\ owner[c] = u
    BY <1>0, <2>2 DEF Calls, Owned, Frame
  <2>4. p # Root
    BY <2>3, PoolsAssumption DEF Types
  <2> QED BY <1>1, <1>2, <1>3, <2>3, <2>4 DEF Tree, Parents
<1>4. CASE u = t
  <2> DEFINE S == {stack[t][i].pool : i \in 1 .. j}
  <2>1. \A i \in 1 .. j : i \in Depth(t)
    BY <1>0, <1>4 DEF Depth
  <2>2. ASSUME NEW i \in 1 .. j PROVE stack[t][i].pool \in Live \ {Root} /\ parent[stack[t][i].pool] \in S
    <3>1. FrameOK(t, i)
      BY <2>1 DEF Calls, Stacks
    <3>2. CASE i = j
      <4>1. stack[t][1].pool \in S
        BY DEF Depth
      <4> QED BY <1>0, <1>1, <1>2, <1>4, <3>2, <4>1
    <3>3. CASE i # j
      <4>1. i < Len(stack[t]) /\ i + 1 \in 1 .. j
        BY <1>0, <1>4, <3>3 DEF Depth
      <4> QED BY <3>1, <4>1 DEF FrameOK, Frame
    <3> QED BY <3>2, <3>3
  <2>3. S \in SUBSET (Live \ {Root}) /\ \A x \in S : parent[x] \in S
    BY <2>2
  <2>4. S = {}
    BY <2>3 DEF Tree, Acyclic
  <2>5. c \in S
    BY <1>4 DEF Depth
  <2> QED BY <2>4, <2>5
<1> QED BY <1>3, <1>4

(* A pool that is about to be freed is the parent of none. *)
LEMMA Childless ==
  ASSUME Types, Calls, Tree, Emptied, NEW t \in Threads, ~Idle(t), Top(t).at = "free"
  PROVE  \A x \in Live \ {Root} : parent[x] # Top(t).pool
<1> DEFINE p == Top(t).pool
<1>0. Top(t) = stack[t][1] /\ 1 \in Depth(t) /\ p \in Pools
  BY TopFacts
<1> SUFFICES ASSUME NEW x \in Live \ {Root}, parent[x] = p PROVE FALSE
  OBVIOUS
<1>1. child[p] = NULL
  BY <1>0 DEF Emptied, Frame
<1>2. x \notin Members
  <2>1. Closed({}, p)
    BY <1>1 DEF Closed
  <2> QED BY <1>0, <2>1 DEF Tree, Reaches
<1>3. PICK u \in Threads : ~Idle(u) /\ Top(u).pool = x
  BY <1>2, MembersDef DEF Detached
<1>4. CASE u = t
  BY <1>3, <1>4, NotOwnParent DEF Tree
<1>5. CASE u # t
  <2>1. ~Closing
    BY <1>3, <1>5 DEF Calls, Owned
  <2>2. owner[p] = t
    BY <1>0, <2>1 DEF Calls, Owned, Frame
  <2>3. owner[x] = u
    <3>1. Top(u) = stack[u][1] /\ 1 \in Depth(u)
      BY <1>3, TopFacts
    <3> QED BY <1>3, <2>1, <3>1 DEF Calls, Owned, Frame
  <2>4. p # Root
    BY <2>2, PoolsAssumption DEF Types
  <2> QED BY <1>5, <2>2, <2>3, <2>4 DEF Tree, Parents
<1> QED BY <1>4, <1>5

-----------------------------------------------------------------------------
(* Which pools are in a list, after a step of t. *)

Others(t) == \A u \in Threads \ {t} : stack'[u] = stack[u]

LEMMA OthersFacts ==
  ASSUME NEW t \in Threads, Others(t)
  PROVE  /\ \A u \in Threads \ {t} : /\ Detached(u)' = Detached(u) /\ Idle(u)' = Idle(u)
                                     /\ Top(u)' = Top(u) /\ Depth(u)' = Depth(u)
         /\ \A p \in Pools : Making(p)' =>
              Making(p) \/ (At(t, "create", "link")' /\ Top(t)'.pool = p)
<1>1. ASSUME NEW u \in Threads \ {t}
      PROVE  /\ Idle(u)' = Idle(u) /\ Top(u)' = Top(u) /\ Depth(u)' = Depth(u)
             /\ Detached(u)' = Detached(u)
             /\ At(u, "create", "link")' = At(u, "create", "link")
  <2>1. stack'[u] = stack[u]
    BY DEF Others
  <2> QED BY <2>1 DEF Idle, Top, Depth, Detached, At
<1>2. ASSUME NEW p \in Pools, Making(p)'
      PROVE  Making(p) \/ (At(t, "create", "link")' /\ Top(t)'.pool = p)
  <2>1. PICK u \in Threads : At(u, "create", "link")' /\ Top(u)'.pool = p
    BY <1>2 DEF Making
  <2>2. CASE u = t
    BY <2>1, <2>2
  <2>3. CASE u # t
    BY <1>1, <2>1, <2>3 DEF Making
  <2> QED BY <2>2, <2>3
<1> QED BY <1>1, <1>2

LEMMA MembersStep ==
  ASSUME NEW t \in Threads, Others(t), Live' = Live, Detached(t)' = Detached(t)
  PROVE  Members' = Members
<1>1. \A u \in Threads : Detached(u)' = Detached(u)
  BY OthersFacts
<1> QED BY <1>1, MembersDef

(* Two threads are never about the same pool. *)
LEMMA TopsDiffer ==
  ASSUME Types, Calls, NEW t \in Threads, ~Idle(t)
  PROVE  \A u \in Threads \ {t} : ~Idle(u) => Top(u).pool # Top(t).pool
<1> SUFFICES ASSUME NEW u \in Threads \ {t}, ~Idle(u), Top(u).pool = Top(t).pool PROVE FALSE
  OBVIOUS
<1>1. Top(t) = stack[t][1] /\ 1 \in Depth(t)
  BY TopFacts
<1>2. Top(u) = stack[u][1] /\ 1 \in Depth(u)
  BY TopFacts
<1> QED BY <1>1, <1>2 DEF Calls, Exclusive, Frame

(* The innermost call of t is in order. *)
LEMMA TopOK ==
  ASSUME Types, Calls, NEW t \in Threads, ~Idle(t)
  PROVE  /\ Top(t).pool \in Live
         /\ Top(t).op = "create" <=> Top(t).at = "link"
         /\ Top(t).at = "link" => Len(stack[t]) = 1 /\ Top(t).pool # Root
         /\ Top(t).at = "free" => Top(t).op = "destroy"
         /\ Len(stack[t]) # 1 => stack[t][2].at = "pre" /\ stack[t][2].op # "create"
<1>1. Top(t) = stack[t][1] /\ 1 \in Depth(t) /\ Len(stack[t]) \in Nat /\ Len(stack[t]) > 0
  BY TopFacts
<1>2. FrameOK(t, 1)
  BY <1>1 DEF Calls, Stacks
<1>3. ASSUME Len(stack[t]) # 1 PROVE stack[t][2].at = "pre" /\ stack[t][2].op # "create"
  <2> DEFINE n == Len(stack[t])
  <2>0. n \in Nat /\ n > 0 /\ n # 1
    BY <1>1, <1>3
  <2> HIDE DEF n
  <2>1. 2 \in 1 .. n
    BY <2>0
  <2>2. FrameOK(t, 2)
    BY <2>1 DEF Calls, Stacks, Depth, n
  <2> QED BY <2>2 DEF FrameOK, Frame
<1> QED BY <1>1, <1>2, <1>3 DEF FrameOK, Frame

(* After a step that leaves the calls and the tree alone. *)
LEMMA Still ==
  ASSUME Calls, Tree, UNCHANGED <<parent, child, sibling, ref, owner, stack>>, Live' = Live
  PROVE  Calls' /\ Tree'
<1>1. Calls'
  BY CallsSame DEF Stays
<1>2. Members' = Members /\ \A p \in Pools : Making(p)' => Making(p)
  <2>1. \A u \in Threads : Detached(u)' = Detached(u)
    BY DEF Detached, Idle, Top
  <2>2. \A p \in Pools : Making(p)' => Making(p)
    BY DEF Making, At, Idle, Top
  <2> QED BY <2>1, <2>2, MembersDef
<1> QED BY <1>1, <1>2, TreeSame

(* The calls after a step of t that leaves what they emptied alone, or     *)
(* whose new innermost call has emptied nothing.                           *)
LEMMA EmptiedStep ==
  ASSUME Emptied, NEW t \in Threads, Others(t), late \subseteq late',
         \A u \in Threads \ {t} : \A i \in Depth(u) :
           /\ cleanups'[Frame(u, i).pool] = cleanups[Frame(u, i).pool]
           /\ pre_cleanups'[Frame(u, i).pool] = pre_cleanups[Frame(u, i).pool]
           /\ child[Frame(u, i).pool] = NULL => child'[Frame(u, i).pool] = NULL,
         \A i \in Depth(t)' :
           LET p == stack'[t][i].pool
           IN  /\ stack'[t][i].at \in {"cleanups", "free"} =>
                    ToSet(pre_cleanups'[p]) \subseteq late' /\ child'[p] = NULL
               /\ stack'[t][i].at = "free" => cleanups'[p] = << >>
  PROVE  Emptied'
<1>1. ASSUME NEW u \in Threads \ {t}, NEW i \in Depth(u)'
      PROVE  LET p == stack'[u][i].pool
             IN  /\ stack'[u][i].at \in {"cleanups", "free"} =>
                      ToSet(pre_cleanups'[p]) \subseteq late' /\ child'[p] = NULL
                 /\ stack'[u][i].at = "free" => cleanups'[p] = << >>
  <2>1. stack'[u] = stack[u] /\ i \in Depth(u)
    BY DEF Others, Depth
  <2> QED BY <2>1 DEF Emptied, Frame
<1> QED BY <1>1 DEF Emptied, Frame

-----------------------------------------------------------------------------
(* Cleanups. *)

LEMMA ConcatList ==
  ASSUME NEW S, NEW s \in Seq(S), NEW r \in Seq(S)
  PROVE  /\ ToSet(s \o r) = ToSet(s) \cup ToSet(r)
         /\ (IsInjective(s) /\ IsInjective(r) /\ ToSet(s) \cap ToSet(r) = {}) => IsInjective(s \o r)
<1> DEFINE u == s \o r
           n == Len(s)
           m == Len(r)
<1>1. n \in Nat /\ m \in Nat /\ DOMAIN s = 1 .. n /\ DOMAIN r = 1 .. m
  OBVIOUS
<1>2. u \in Seq(S) /\ Len(u) = n + m
  OBVIOUS
<1>3. DOMAIN u = 1 .. n + m
  BY <1>2
<1>4. \A i \in 1 .. n + m : u[i] = IF i <= n THEN s[i] ELSE r[i - n]
  OBVIOUS
<1> HIDE DEF u, n, m
<1>5. ASSUME NEW i \in 1 .. n + m PROVE u[i] \in ToSet(s) \cup ToSet(r)
  <2>1. CASE i <= n
    BY <1>1, <1>4, <2>1 DEF ToSet
  <2>2. CASE ~(i <= n)
    <3>1. i - n \in 1 .. m
      BY <1>1, <2>2
    <3> QED BY <1>1, <1>4, <2>2, <3>1 DEF ToSet
  <2> QED BY <2>1, <2>2
<1>6. ASSUME NEW i \in 1 .. n PROVE s[i] \in ToSet(u)
  <2>1. i \in 1 .. n + m /\ i <= n
    BY <1>1
  <2> QED BY <1>3, <1>4, <2>1 DEF ToSet
<1>7. ASSUME NEW i \in 1 .. m PROVE r[i] \in ToSet(u)
  <2>1. n + i \in 1 .. n + m /\ ~(n + i <= n) /\ (n + i) - n = i
    BY <1>1
  <2>2. u[n + i] = r[i]
    BY <1>4, <2>1
  <2> QED BY <1>3, <2>1, <2>2 DEF ToSet
<1>8. ToSet(u) = ToSet(s) \cup ToSet(r)
  BY <1>1, <1>3, <1>5, <1>6, <1>7 DEF ToSet
<1>9. ASSUME IsInjective(s), IsInjective(r), ToSet(s) \cap ToSet(r) = {},
             NEW i \in 1 .. n + m, NEW j \in 1 .. n + m, u[i] = u[j]
      PROVE  i = j
  <2>1. \A a \in 1 .. n, b \in 1 .. m : s[a] # r[b]
    <3>1. \A a \in 1 .. n, b \in 1 .. m : s[a] \in ToSet(s) /\ r[b] \in ToSet(r)
      BY <1>1 DEF ToSet
    <3> QED BY <1>9, <3>1
  <2>2. /\ \A a, b \in 1 .. n : s[a] = s[b] => a = b
        /\ \A a, b \in 1 .. m : r[a] = r[b] => a = b
    BY <1>1, <1>9 DEF IsInjective
  <2>3. /\ i <= n => i \in 1 .. n /\ u[i] = s[i]
        /\ ~(i <= n) => i - n \in 1 .. m /\ u[i] = r[i - n]
        /\ j <= n => j \in 1 .. n /\ u[j] = s[j]
        /\ ~(j <= n) => j - n \in 1 .. m /\ u[j] = r[j - n]
    BY <1>1, <1>4
  <2>4. CASE i <= n /\ j <= n
    BY <1>9, <2>2, <2>3, <2>4
  <2>5. CASE ~(i <= n) /\ ~(j <= n)
    <3>1. i - n = j - n
      BY <1>9, <2>2, <2>3, <2>5
    <3> QED BY <1>1, <3>1
  <2>6. CASE i <= n /\ ~(j <= n)
    BY <1>9, <2>1, <2>3, <2>6
  <2>7. CASE ~(i <= n) /\ j <= n
    BY <1>9, <2>1, <2>3, <2>7
  <2> QED BY <2>4, <2>5, <2>6, <2>7
<1> QED BY <1>3, <1>8, <1>9 DEF IsInjective, u

LEMMA TodoFacts ==
  ASSUME Types, NEW p \in Pools
  PROVE  /\ ToSet(cleanups[p] \o pre_cleanups[p]) = Todo(p)
         /\ Todo(p) \subseteq Cleanups
         /\ cleanups[p] \in Seq(Cleanups) /\ pre_cleanups[p] \in Seq(Cleanups)
<1>1. cleanups[p] \in Seq(Cleanups) /\ pre_cleanups[p] \in Seq(Cleanups)
  BY DEF Types
<1> QED BY <1>1, ConcatList, ToSetDef DEF Todo

(* A step makes c and d the lists of p, which is in no call that has       *)
(* emptied what changes, and what is in neither now is done.               *)
Replaces(p, c, d) ==
  /\ c \in Seq(Cleanups) /\ IsInjective(c) /\ d \in Seq(Cleanups) /\ IsInjective(d)
  /\ ToSet(c) \cap ToSet(d) = {}
  /\ \A k \in ToSet(c) \cup ToSet(d) : k \in Todo(p) \/ Fresh(k)
  /\ Become(p, c, d)
  /\ done' = done \cup (Todo(p) \ (ToSet(c) \cup ToSet(d)))
  /\ registered' = registered \cup ToSet(c) \cup ToSet(d)

LEMMA ListsChange ==
  ASSUME Types, Lists, NEW p \in Live, NEW c, NEW d, Replaces(p, c, d),
         late \subseteq late', Live' = Live
  PROVE  /\ Lists' /\ done' \subseteq Cleanups /\ registered' \subseteq Cleanups
         /\ cleanups' \in [Pools -> Seq(Cleanups)] /\ pre_cleanups' \in [Pools -> Seq(Cleanups)]
<1> DEFINE new == ToSet(c) \cup ToSet(d)
<1>0. /\ p \in Pools /\ c \in Seq(Cleanups) /\ IsInjective(c) /\ d \in Seq(Cleanups) /\ IsInjective(d)
      /\ ToSet(c) \cap ToSet(d) = {} /\ \A k \in new : k \in Todo(p) \/ k \notin registered
      /\ cleanups' = [cleanups EXCEPT ![p] = c] /\ pre_cleanups' = [pre_cleanups EXCEPT ![p] = d]
      /\ done' = done \cup (Todo(p) \ new) /\ registered' = registered \cup new
  BY DEF Replaces, Become, Fresh, Live
<1>1. /\ cleanups' \in [Pools -> Seq(Cleanups)] /\ pre_cleanups' \in [Pools -> Seq(Cleanups)]
      /\ cleanups'[p] = c /\ pre_cleanups'[p] = d
      /\ \A q \in Pools \ {p} : cleanups'[q] = cleanups[q] /\ pre_cleanups'[q] = pre_cleanups[q]
  BY <1>0 DEF Types
<1>2. done' \subseteq Cleanups /\ registered' \subseteq Cleanups
  <2>1. new \subseteq Cleanups
    BY <1>0, ToSetDef
  <2> QED BY <1>0, <2>1, TodoFacts DEF Types
<1>4. /\ \A q \in Pools : Todo(q) \cap done = {} /\ Todo(q) \subseteq registered
      /\ \A q, r \in Pools : q # r => Todo(q) \cap Todo(r) = {}
      /\ done \subseteq registered
      /\ \A k \in registered : k \in done \cup late \/ \E q \in Pools : k \in Todo(q)
  BY DEF Lists
<1>7. Todo(p)' = new /\ \A q \in Pools \ {p} : Todo(q)' = Todo(q)
  BY <1>1 DEF Todo
<1>8. ASSUME NEW q \in Pools
      PROVE  /\ IsInjective(cleanups'[q]) /\ IsInjective(pre_cleanups'[q])
             /\ ToSet(cleanups'[q]) \cap ToSet(pre_cleanups'[q]) = {}
             /\ q \notin Live' => cleanups'[q] = << >> /\ pre_cleanups'[q] = << >>
  <2>1. CASE q = p
    BY <1>0, <1>1, <2>1
  <2>2. CASE q # p
    BY <1>1, <2>2 DEF Lists
  <2> QED BY <2>1, <2>2
<1> HIDE DEF new
<1>9. \A q \in Pools : Todo(q)' \cap done' = {} /\ Todo(q)' \subseteq registered'
  BY <1>0, <1>4, <1>7
<1>10. \A q, r \in Pools : q # r => Todo(q)' \cap Todo(r)' = {}
  BY <1>0, <1>4, <1>7
<1>11. done' \subseteq registered'
  BY <1>0, <1>4
<1>12. ASSUME NEW k \in registered'
       PROVE  k \in done' \cup late' \/ \E q \in Pools : k \in Todo(q)'
  BY <1>0, <1>4, <1>7
<1> QED BY <1>1, <1>2, <1>8, <1>9, <1>10, <1>11, <1>12 DEF Lists

(* p is in no call that has emptied what the step changes. *)
Allowed(p) ==
  /\ late \subseteq late'
  /\ UNCHANGED <<tree, memory, stack>>
  /\ \A u \in Threads : \A i \in Depth(u) : Frame(u, i).pool = p =>
       /\ Frame(u, i).at # "free"
       /\ Frame(u, i).at = "cleanups" => ToSet(pre_cleanups'[p]) \subseteq late'

LEMMA ListsStep ==
  ASSUME Inv, NEW p \in Live, NEW c, NEW d, Replaces(p, c, d), Allowed(p)
  PROVE  Inv'
<1> USE DEF Allowed
<1>0. Types /\ Calls /\ Emptied /\ Tree /\ Lists /\ p \in Pools
  BY DEF Inv, Calls, Live
<1>1. Live' = Live
  BY DEF Live, memory
<1>2. /\ Lists' /\ done' \subseteq Cleanups /\ registered' \subseteq Cleanups
      /\ cleanups' \in [Pools -> Seq(Cleanups)] /\ pre_cleanups' \in [Pools -> Seq(Cleanups)]
  BY <1>0, <1>1, ListsChange
<1>3. Types'
  BY <1>0, <1>1, <1>2 DEF Types, tree, memory
<1>4. Calls' /\ Tree'
  BY <1>0, <1>1, Still DEF tree
<1>5. Emptied'
  <2> SUFFICES ASSUME NEW u \in Threads, NEW i \in Depth(u)
               PROVE  LET q == Frame(u, i).pool
                      IN  /\ Frame(u, i).at \in {"cleanups", "free"} =>
                               ToSet(pre_cleanups'[q]) \subseteq late' /\ child[q] = NULL
                          /\ Frame(u, i).at = "free" => cleanups'[q] = << >>
    BY DEF Emptied, Depth, Frame, tree
  <2> DEFINE q == Frame(u, i).pool
  <2>0. /\ q \in Pools /\ cleanups' = [cleanups EXCEPT ![p] = c]
        /\ pre_cleanups' = [pre_cleanups EXCEPT ![p] = d]
    BY <1>0 DEF Calls, Stacks, FrameOK, Live, Replaces, Become
  <2>1. CASE q = p
    BY <1>0, <2>0, <2>1 DEF Types, Emptied
  <2>2. CASE q # p
    BY <1>0, <2>0, <2>2 DEF Types, Emptied
  <2> QED BY <2>1, <2>2
<1> QED BY <1>2, <1>3, <1>4, <1>5 DEF Inv, Calls

-----------------------------------------------------------------------------
(* The steps. *)

LEMMA InvParts ==
  Inv <=> Types /\ Calls /\ Emptied /\ Tree /\ Lists
BY DEF Inv, Calls

LEMMA InvSame ==
  ASSUME Inv, UNCHANGED <<tree, memory, duties, stack>>
  PROVE  Inv'
<1>0. /\ Types /\ Calls /\ Emptied /\ Tree /\ Lists
      /\ UNCHANGED <<parent, child, sibling, ref, owner, stack>>
      /\ UNCHANGED <<ring, self, cleanups, pre_cleanups, done, registered, late>>
  BY InvParts DEF tree, memory, duties
<1>1. Live' = Live
  BY <1>0 DEF Live
<1>2. Calls' /\ Tree'
  BY <1>0, <1>1, Still
<1>3. Types'
  BY <1>0, <1>1 DEF Types
<1>4. Emptied'
  BY <1>0 DEF Emptied, Frame, Depth
<1>5. Lists'
  BY <1>0, <1>1 DEF Lists, Todo
<1> QED BY <1>2, <1>3, <1>4, <1>5 DEF Inv, Calls

LEMMA PromoteFacts ==
  ASSUME NEW node \in Nodes, NEW act \in Nodes, NEW rest \in Seq(Nodes), NEW fi
  PROVE  Promote(node, act, rest, fi) \in Seq(Nodes) /\ Promote(node, act, rest, fi) # << >>
<1> DEFINE places == {j \in 2 .. Len(rest) : fi >= free_index[rest[j]]}
           at == IF rest = << >> \/ fi >= free_index[rest[1]] THEN 1
                 ELSE IF places = {} THEN Len(rest) + 1 ELSE Min(places)
<1>1. Len(rest) \in Nat
  OBVIOUS
<1>2. places # {} => Min(places) \in places
  <2> SUFFICES ASSUME places # {} PROVE Min(places) \in places
    OBVIOUS
  <2>1. places \in SUBSET Nat
    BY <1>1
  <2>2. \E m \in places : \A k \in places : m <= k
    BY <2>1, LeastNat
  <2> QED BY <2>2 DEF Min
<1>3. at \in 1 .. Len(rest) + 1
  <2>1. places # {} => Min(places) \in 2 .. Len(rest)
    BY <1>2
  <2> HIDE DEF places
  <2> QED BY <1>1, <2>1
<1>4. Promote(node, act, rest, fi) = <<node>> \o InsertAt(rest, at, act)
  BY DEF Promote
<1> HIDE DEF at, places
<1>5. InsertAt(rest, at, act) \in Seq(Nodes)
  <2>1. at \in Nat /\ 1 <= at /\ at <= Len(rest) + 1
    BY <1>1, <1>3
  <2>2. SubSeq(rest, 1, at - 1) \in Seq(Nodes) /\ SubSeq(rest, at, Len(rest)) \in Seq(Nodes)
    BY <1>1, <2>1
  <2> QED BY <2>2 DEF InsertAt
<1> QED BY <1>4, <1>5, PushFacts

LEMMA UseNodeFacts ==
  ASSUME Types, NEW p \in Live, NEW node \in Nodes, NEW room, NEW size, NEW rest \in Seq(Nodes),
         UseNode(p, node, room, size, rest)
  PROVE  Live' = Live /\ ring' \in [Pools -> Seq(Nodes)] /\ self' = self
<1>1. p \in Pools /\ ring \in [Pools -> Seq(Nodes)] /\ ring[p] \in Seq(Nodes) /\ ring[p] # << >>
  BY DEF Types, Live
<1>2. Head(ring[p]) \in Nodes
  BY <1>1
<1> DEFINE new == Promote(node, Head(ring[p]), rest, space[Head(ring[p])] \div BOUNDARY)
<1>3. new \in Seq(Nodes) /\ new # << >>
  BY <1>2, PromoteFacts
<1>4. ring' = [ring EXCEPT ![p] = new] /\ self' = self
  BY DEF UseNode
<1> HIDE DEF new
<1> QED BY <1>1, <1>3, <1>4 DEF Live

LEMMA PallocStep ==
  ASSUME Inv, NEW t \in Threads, NEW p \in Pools, NEW size \in Requests, apr_palloc(t, p, size)
  PROVE  Inv'
<1>0. /\ Types /\ Calls /\ Emptied /\ Tree /\ Lists /\ p \in Live
      /\ UNCHANGED <<parent, child, sibling, ref, owner, stack>>
      /\ UNCHANGED <<cleanups, pre_cleanups, done, registered, late>>
  BY InvParts DEF apr_palloc, tree, duties
<1>1. ring \in [Pools -> Seq(Nodes)] /\ ring[p] \in Seq(Nodes) /\ ring[p] # << >>
  BY <1>0 DEF Types, Live
<1>2. Live' = Live /\ ring' \in [Pools -> Seq(Nodes)] /\ self' = self
  <2>1. CASE PallocHere(p, size)
    <3>1. CASE UNCHANGED <<ring, self, free_index>>
      BY <1>1, <3>1 DEF Live
    <3>2. CASE /\ Len(ring[p]) > 1
               /\ UseNode(p, ring[p][2], space[ring[p][2]], size, SubSeq(ring[p], 3, Len(ring[p])))
      <4>1. ring[p][2] \in Nodes /\ SubSeq(ring[p], 3, Len(ring[p])) \in Seq(Nodes)
        <5>1. Len(ring[p]) \in Nat
          BY <1>1
        <5>2. 2 \in 1 .. Len(ring[p])
          BY <3>2, <5>1
        <5> QED BY <1>1, <5>1, <5>2
      <4> QED BY <1>0, <3>2, <4>1, UseNodeFacts
    <3> QED BY <2>1, <3>1, <3>2 DEF PallocHere
  <2>2. CASE \E n \in Nodes : UseNode(p, n, Capacity(index'[n]), size, Tail(ring[p]))
    <3>1. PICK n \in Nodes : UseNode(p, n, Capacity(index'[n]), size, Tail(ring[p]))
      BY <2>2
    <3>2. Tail(ring[p]) \in Seq(Nodes)
      BY <1>1
    <3> QED BY <1>0, <3>1, <3>2, UseNodeFacts
  <2> QED BY <2>1, <2>2 DEF apr_palloc
<1>3. Calls' /\ Tree'
  BY <1>0, <1>2, Still
<1>4. Types'
  BY <1>0, <1>2 DEF Types
<1>5. Emptied'
  BY <1>0 DEF Emptied, Frame, Depth
<1>6. Lists'
  BY <1>0, <1>2 DEF Lists, Todo
<1> QED BY <1>3, <1>4, <1>5, <1>6, InvParts DEF Inv, Calls

LEMMA CreateStep ==
  ASSUME Inv, NEW t \in Threads, NEW q \in Pools, apr_pool_create(t, q)
  PROVE  Inv'
<1>0. /\ Types /\ Calls /\ Emptied /\ Tree /\ Lists
      /\ q \in Live /\ (q = Root \/ owner[q] = t) /\ Idle(t) /\ ~Closing
      /\ UNCHANGED <<sibling, ref, done, registered, late>>
  BY InvParts DEF apr_pool_create, Start
<1>1. PICK n \in Nodes, p \in Pools \ Live :
        /\ ring' = [ring EXCEPT ![p] = <<n>>]
        /\ self' = [self EXCEPT ![p] = n]
        /\ parent' = [parent EXCEPT ![p] = q]
        /\ child' = [child EXCEPT ![p] = NULL]
        /\ owner' = [owner EXCEPT ![p] = t]
        /\ cleanups' = [cleanups EXCEPT ![p] = << >>]
        /\ pre_cleanups' = [pre_cleanups EXCEPT ![p] = << >>]
        /\ Call(t, [op |-> "create", at |-> "link", pool |-> p])
  BY DEF apr_pool_create
<1> DEFINE f == [op |-> "create", at |-> "link", pool |-> p]
<1>2. f \in Frames /\ f.op = "create" /\ f.at = "link" /\ f.pool = p
  BY DEF Frames
<1> HIDE DEF f
<1>3. Call(t, f)
  BY <1>1 DEF f
<1>4. Live' = Live \cup {p}
  <2>1. <<n>> # << >>
    OBVIOUS
  <2> QED BY <1>0, <1>1, <2>1 DEF Live, Types
<1>5. p # Root /\ Root \in Pools /\ Live \subseteq Pools
  BY <1>0, RootLives, PoolsAssumption DEF Tree, Live
<1>6. /\ \A x \in Pools \ {p} : /\ parent'[x] = parent[x] /\ owner'[x] = owner[x] /\ child'[x] = child[x]
                                /\ cleanups'[x] = cleanups[x] /\ pre_cleanups'[x] = pre_cleanups[x]
                                /\ self'[x] = self[x]
      /\ owner'[p] = t /\ self'[p] = n /\ cleanups'[p] = << >> /\ pre_cleanups'[p] = << >>
  BY <1>0, <1>1 DEF Types
<1>7. /\ stack' \in [Threads -> Seq(Frames)] /\ stack'[t][1] = f
      /\ Len(stack[t]) \in Nat /\ Len(stack'[t]) = Len(stack[t]) + 1
      /\ \A u \in Threads \ {t} : stack'[u] = stack[u]
      /\ ~Idle(t)' /\ Top(t)' = f
  BY <1>0, <1>2, <1>3, CallFacts
<1>8. Types'
  <2>1. \A x \in Live' : self'[x] \in Nodes
    BY <1>0, <1>4, <1>5, <1>6 DEF Types
  <2>2. ring' \in [Pools -> Seq(Nodes)] /\ self' \in [Pools -> Nodes \cup {NULL}]
    BY <1>0, <1>1 DEF Types
  <2>3. /\ parent' \in [Pools -> Pools \cup {NULL}] /\ child' \in [Pools -> Pools \cup {NULL}]
        /\ owner' \in [Pools -> Threads \cup {NULL}] /\ owner'[Root] = NULL
    BY <1>0, <1>1, <1>5, <1>6 DEF Types
  <2>4. cleanups' \in [Pools -> Seq(Cleanups)] /\ pre_cleanups' \in [Pools -> Seq(Cleanups)]
    BY <1>0, <1>1 DEF Types
  <2> QED BY <1>0, <1>7, <2>1, <2>2, <2>3, <2>4 DEF Types
<1>9. \A x \in Live : Stays(x) /\ x # p
  BY <1>4, <1>5, <1>6 DEF Stays
<1>10. \A u \in Threads : \A j \in Depth(u) : Frame(u, j).pool # f.pool
  BY <1>0, <1>2, <1>9 DEF Calls, Stacks, FrameOK
<1>11. Calls'
  BY <1>0, <1>2, <1>3, <1>4, <1>5, <1>6, <1>8, <1>9, <1>10, CallsPush DEF Types
<1>12. Others(t)
  BY <1>7 DEF Others
<1>13. Members' = Members
  <2>1. Detached(t) = {} /\ Detached(t)' = {p}
    BY <1>0, <1>2, <1>7 DEF Detached
  <2>2. \A u \in Threads \ {t} : Detached(u)' = Detached(u)
    BY <1>12, OthersFacts
  <2> QED BY <1>4, <1>9, <2>1, <2>2, MembersDef
<1>14. \A x \in Pools : Making(x)' => Making(x) \/ x = p
  BY <1>2, <1>7, <1>12, OthersFacts
<1>15. Tree'
  BY <1>0, <1>1, <1>4, <1>13, <1>14, TreeCreate
<1>16. Emptied'
  <2>1. \A u \in Threads : \A i \in Depth(u) : Frame(u, i).pool \in Pools \ {p}
    BY <1>0, <1>5, <1>9 DEF Calls, Stacks, FrameOK
  <2>2. Depth(t)' = {1}
    <3>1. Len(stack[t]) = 0
      BY <1>0 DEF Idle
    <3>2. Len(stack'[t]) = 1
      BY <1>7, <3>1
    <3> QED BY <3>2 DEF Depth
  <2>3. \A i \in Depth(t)' : stack'[t][i].at = "link"
    BY <1>2, <1>7, <2>2
  <2> QED BY <1>0, <1>6, <1>12, <2>1, <2>3, EmptiedStep
<1>17. Lists'
  <2>1. IsInjective(<< >>) /\ ToSet(<< >>) = {}
    BY DEF IsInjective, ToSet
  <2>2. \A x \in Pools \ {p} : Todo(x)' = Todo(x)
    BY <1>6 DEF Todo
  <2>3. Todo(p)' = {} /\ Todo(p) = {}
    <3>1. cleanups[p] = << >> /\ pre_cleanups[p] = << >>
      BY <1>0, <1>1 DEF Lists
    <3> QED BY <1>6, <2>1, <3>1 DEF Todo
  <2>4. \A x \in Pools : Todo(x)' = Todo(x)
    BY <2>2, <2>3
  <2>5. ASSUME NEW x \in Pools
        PROVE  /\ IsInjective(cleanups'[x]) /\ IsInjective(pre_cleanups'[x])
               /\ ToSet(cleanups'[x]) \cap ToSet(pre_cleanups'[x]) = {}
               /\ x \notin Live' => cleanups'[x] = << >> /\ pre_cleanups'[x] = << >>
    <3>1. CASE x = p
      BY <1>6, <2>1, <3>1
    <3>2. CASE x # p
      BY <1>0, <1>4, <1>6, <3>2 DEF Lists
    <3> QED BY <3>1, <3>2
  <2> QED BY <1>0, <2>4, <2>5 DEF Lists
<1> QED BY <1>8, <1>11, <1>15, <1>16, <1>17 DEF Inv, Calls

(* The calls around the innermost one are in their loops. *)
LEMMA OuterPre ==
  ASSUME Types, Calls, NEW t \in Threads
  PROVE  \A i \in Depth(t) : i # 1 => stack[t][i].at = "pre"
<1> SUFFICES ASSUME NEW i \in Depth(t), i # 1 PROVE stack[t][i].at = "pre"
  OBVIOUS
<1>1. i > 1
  BY DEF Depth
<1>2. FrameOK(t, i)
  BY DEF Calls, Stacks
<1> QED BY <1>1, <1>2 DEF FrameOK, Frame

LEMMA PopPre ==
  ASSUME Types, Calls, NEW t \in Threads, ~Idle(t), Return(t)
  PROVE  /\ Others(t) /\ \A i \in Depth(t)' : stack'[t][i].at = "pre"
         /\ Detached(t)' = {} /\ ~At(t, "create", "link")'
<1>1. /\ stack' \in [Threads -> Seq(Frames)]
      /\ Len(stack[t]) \in Nat /\ Len(stack[t]) > 0 /\ Len(stack'[t]) = Len(stack[t]) - 1
      /\ \A i \in 1 .. Len(stack[t]) - 1 :
           stack'[t][i] = stack[t][i + 1] /\ i + 1 \in 1 .. Len(stack[t])
      /\ \A u \in Threads \ {t} : stack'[u] = stack[u]
      /\ Idle(t)' <=> Len(stack[t]) = 1
      /\ ~Idle(t)' => Top(t)' = stack[t][2]
  BY ReturnFacts
<1>2. ASSUME NEW i \in Depth(t)' PROVE stack'[t][i].at = "pre"
  <2>1. i \in 1 .. Len(stack[t]) - 1
    BY <1>1 DEF Depth
  <2>2. i + 1 \in Depth(t) /\ i + 1 # 1 /\ stack'[t][i] = stack[t][i + 1]
    BY <1>1, <2>1 DEF Depth
  <2> QED BY <2>2, OuterPre
<1>3. ~Idle(t)' => Top(t)'.at = "pre" /\ Top(t)'.op # "create"
  BY <1>1, TopOK
<1> QED BY <1>1, <1>2, <1>3 DEF Others, Detached, At

LEMMA LinkStep ==
  ASSUME Inv, NEW t \in Threads, CreateLinks(t)
  PROVE  Inv'
<1> DEFINE p == Top(t).pool
           q == parent[p]
<1>0. /\ Types /\ Calls /\ Emptied /\ Tree /\ Lists
      /\ ~Idle(t) /\ Top(t).op = "create" /\ Top(t).at = "link" /\ At(t, "create", "link")
      /\ sibling' = [sibling EXCEPT ![p] = child[q]]
      /\ child' = [child EXCEPT ![q] = p]
      /\ ref' = [x \in Pools |-> IF x = p THEN <<"child", q>>
                                 ELSE IF x = child[q] THEN <<"sibling", p>> ELSE ref[x]]
      /\ Return(t)
      /\ UNCHANGED <<parent, owner, ring, self, cleanups, pre_cleanups, done, registered, late>>
  BY InvParts DEF CreateLinks, At, memory, duties
<1>1. /\ p \in Live \ {Root} /\ Len(stack[t]) = 1 /\ p \in Pools
      /\ Top(t) = stack[t][1] /\ 1 \in Depth(t)
  BY <1>0, TopOK, TopFacts
<1>2. Live' = Live
  BY <1>0 DEF Live
<1>3. Making(p)
  BY <1>0 DEF Making
<1>4. q \in Live /\ q # p /\ q \in Pools /\ p \notin Members
  BY <1>0, <1>1, <1>3, NotOwnParent, MembersDef DEF Tree, Parents
<1>5. /\ Others(t) /\ Detached(t)' = {} /\ Detached(t) = {p} /\ ~At(t, "create", "link")'
      /\ \A i \in Depth(t)' : stack'[t][i].at = "pre"
  BY <1>0, PopPre DEF Detached
<1>6. \A u \in Threads \ {t} : p \notin Detached(u) /\ Detached(u)' = Detached(u)
  BY <1>0, <1>5, TopsDiffer, OthersFacts DEF Detached
<1>7. Members' = Members \cup {p}
  BY <1>1, <1>2, <1>5, <1>6, MembersDef
<1>8. \A x \in Pools : Making(x)' => Making(x) /\ x # p
  <2> SUFFICES ASSUME NEW x \in Pools, Making(x)' PROVE Making(x) /\ x # p
    OBVIOUS
  <2>1. PICK u \in Threads : At(u, "create", "link")' /\ Top(u)'.pool = x
    BY DEF Making
  <2>2. u # t
    BY <1>5, <2>1
  <2>3. Idle(u)' = Idle(u) /\ Top(u)' = Top(u)
    BY <1>5, <2>2, OthersFacts
  <2>4. ~Idle(u) /\ At(u, "create", "link") /\ Top(u).pool = x
    BY <2>1, <2>3 DEF At
  <2> QED BY <1>0, <2>2, <2>4, TopsDiffer DEF Making
<1>9. Tree'
  BY <1>0, <1>1, <1>2, <1>3, <1>7, <1>8, TreeLink
<1>10. Calls'
  BY <1>0, <1>2, CallsPop DEF Stays
<1>11. Types'
  <2>1. stack' \in [Threads -> Seq(Frames)]
    BY <1>0, ReturnFacts
  <2>2. sibling' \in [Pools -> Pools \cup {NULL}] /\ child' \in [Pools -> Pools \cup {NULL}]
    BY <1>0, <1>1, <1>4 DEF Types
  <2>3. ref' \in [Pools -> ({"child", "sibling"} \X Pools) \cup {NULL}]
    BY <1>0, <1>1, <1>4 DEF Types
  <2> QED BY <1>0, <1>2, <2>1, <2>2, <2>3 DEF Types
<1>12. ASSUME NEW u \in Threads, NEW j \in Depth(u) PROVE Frame(u, j).pool # q
  <2> SUFFICES ASSUME Frame(u, j).pool = q PROVE FALSE
    OBVIOUS
  <2>1. FrameOK(u, j) /\ ~Idle(u)
    <3>1. Len(stack[u]) # 0
      BY DEF Depth
    <3> QED BY <1>0, <3>1 DEF Calls, Stacks, Idle
  <2>2. u # t
    BY <1>1, <1>4 DEF Frame, Depth
  <2>3. ~Closing
    BY <1>0, <2>1, <2>2 DEF Calls, Owned
  <2>4. owner[q] = u /\ owner[p] = t
    BY <1>0, <1>1, <2>3 DEF Calls, Owned, Frame
  <2>5. q # Root
    BY <1>0, <2>4, PoolsAssumption DEF Types
  <2> QED BY <1>0, <1>1, <2>2, <2>4, <2>5 DEF Tree, Parents
<1>13. Emptied'
  <2>1. \A x \in Pools \ {q} : child'[x] = child[x]
    BY <1>0 DEF Types
  <2>2. \A u \in Threads : \A i \in Depth(u) : Frame(u, i).pool \in Pools \ {q}
    BY <1>0, <1>12 DEF Calls, Stacks, FrameOK, Live
  <2> HIDE DEF q, p
  <2> QED BY <1>0, <1>5, <2>1, <2>2, EmptiedStep
<1>14. Lists'
  BY <1>0, <1>2 DEF Lists, Todo
<1> QED BY <1>9, <1>10, <1>11, <1>13, <1>14 DEF Inv, Calls

(* A pool whose thread is in no call is in none either. *)
LEMMA NotInCall ==
  ASSUME Types, Calls, NEW t \in Threads, Start(t), NEW p \in Pools, owner[p] = t
  PROVE  \A u \in Threads : \A j \in Depth(u) : Frame(u, j).pool # p
<1> SUFFICES ASSUME NEW u \in Threads, NEW j \in Depth(u), Frame(u, j).pool = p PROVE FALSE
  OBVIOUS
<1>1. u = t
  BY DEF Calls, Owned, Start
<1>2. Len(stack[t]) = 0
  BY DEF Start, Idle
<1> QED BY <1>1, <1>2 DEF Depth

(* The lists of p are c and d but for the cleanups in gone. *)
Popped(p, c, d, gone) ==
  /\ c \in Seq(Cleanups) /\ IsInjective(c) /\ d \in Seq(Cleanups) /\ IsInjective(d)
  /\ ToSet(c) \cap ToSet(d) = {} /\ gone \cap (ToSet(c) \cup ToSet(d)) = {}
  /\ Todo(p) = ToSet(c) \cup ToSet(d) \cup gone

LEMMA AllListed ==
  ASSUME Types, Lists, NEW p \in Pools
  PROVE  Popped(p, cleanups[p], pre_cleanups[p], {}) /\ Todo(p) \subseteq registered
BY DEF Types, Lists, Todo, Popped

LEMMA LeftListed ==
  ASSUME Types, Lists, NEW p \in Pools, NEW c, NEW d, NEW gone, Popped(p, c, d, gone),
         Become(p, c, d), done' = done \cup gone, UNCHANGED registered
  PROVE  Replaces(p, c, d)
<1>1. Todo(p) \subseteq registered
  BY DEF Lists
<1>2. gone = Todo(p) \ (ToSet(c) \cup ToSet(d)) /\ registered' = registered \cup ToSet(c) \cup ToSet(d)
  BY <1>1 DEF Popped
<1> QED BY <1>2 DEF Replaces, Popped

LEMMA NewListed ==
  ASSUME Types, Lists, NEW p \in Pools, NEW c, NEW d, NEW gone, Popped(p, c, d, gone),
         NEW k \in Cleanups, Register(p, k, c, d), done' = done \cup gone
  PROVE  \E e, g : Replaces(p, e, g)
<1>0. /\ c \in Seq(Cleanups) /\ IsInjective(c) /\ d \in Seq(Cleanups) /\ IsInjective(d)
      /\ ToSet(c) \cap ToSet(d) = {} /\ gone \cap (ToSet(c) \cup ToSet(d)) = {}
      /\ Todo(p) = ToSet(c) \cup ToSet(d) \cup gone
      /\ Fresh(k) /\ registered' = registered \cup {k}
  BY DEF Popped, Register
<1>1. k \notin Todo(p) /\ Todo(p) \subseteq registered
  BY <1>0 DEF Lists, Fresh
<1> DEFINE e == <<k>> \o c
           g == <<k>> \o d
<1>2. e \in Seq(Cleanups) /\ ToSet(e) = ToSet(c) \cup {k} /\ IsInjective(e)
  BY <1>0, <1>1, PushList
<1>3. g \in Seq(Cleanups) /\ ToSet(g) = ToSet(d) \cup {k} /\ IsInjective(g)
  BY <1>0, <1>1, PushList
<1>4. Become(p, e, d) \/ Become(p, c, g)
  BY DEF Register
<1> HIDE DEF e, g
<1>5. CASE Become(p, e, d)
  <2>1. /\ ToSet(e) \cap ToSet(d) = {} /\ \A x \in ToSet(e) \cup ToSet(d) : x \in Todo(p) \/ Fresh(x)
        /\ gone = Todo(p) \ (ToSet(e) \cup ToSet(d))
        /\ registered' = registered \cup ToSet(e) \cup ToSet(d)
    BY <1>0, <1>1, <1>2
  <2> QED BY <1>0, <1>2, <1>5, <2>1 DEF Replaces
<1>6. CASE Become(p, c, g)
  <2>1. /\ ToSet(c) \cap ToSet(g) = {} /\ \A x \in ToSet(c) \cup ToSet(g) : x \in Todo(p) \/ Fresh(x)
        /\ gone = Todo(p) \ (ToSet(c) \cup ToSet(g))
        /\ registered' = registered \cup ToSet(c) \cup ToSet(g)
    BY <1>0, <1>1, <1>3
  <2> QED BY <1>0, <1>3, <1>6, <2>1 DEF Replaces
<1> QED BY <1>4, <1>5, <1>6

LEMMA KilledListed ==
  ASSUME Types, Lists, NEW p \in Pools, NEW c, NEW d, NEW gone, Popped(p, c, d, gone),
         NEW k \in ToSet(c \o d), Become(p, RemoveFirst(c, k), RemoveFirst(d, k)),
         done' = done \cup gone \cup {k}, UNCHANGED registered
  PROVE  \E e, g : Replaces(p, e, g)
<1>0. /\ c \in Seq(Cleanups) /\ IsInjective(c) /\ d \in Seq(Cleanups) /\ IsInjective(d)
      /\ ToSet(c) \cap ToSet(d) = {} /\ gone \cap (ToSet(c) \cup ToSet(d)) = {}
      /\ Todo(p) = ToSet(c) \cup ToSet(d) \cup gone
  BY DEF Popped
<1>1. k \in ToSet(c) \cup ToSet(d) /\ Todo(p) \subseteq registered
  BY <1>0, ConcatList DEF Lists
<1> DEFINE e == RemoveFirst(c, k)
           g == RemoveFirst(d, k)
<1>2. /\ e \in Seq(Cleanups) /\ ToSet(e) = ToSet(c) \ {k} /\ IsInjective(e)
      /\ g \in Seq(Cleanups) /\ ToSet(g) = ToSet(d) \ {k} /\ IsInjective(g)
  BY <1>0, KillList
<1>3. Become(p, e, g)
  OBVIOUS
<1> HIDE DEF e, g
<1>4. /\ ToSet(e) \cap ToSet(g) = {} /\ \A x \in ToSet(e) \cup ToSet(g) : x \in Todo(p)
      /\ gone \cup {k} = Todo(p) \ (ToSet(e) \cup ToSet(g))
      /\ registered' = registered \cup ToSet(e) \cup ToSet(g)
  BY <1>0, <1>1, <1>2
<1>5. done' = done \cup (Todo(p) \ (ToSet(e) \cup ToSet(g)))
  BY <1>4
<1> QED BY <1>2, <1>3, <1>4, <1>5 DEF Replaces

LEMMA RegisterStep ==
  ASSUME Inv, NEW t \in Threads, NEW p \in Pools, NEW k \in Cleanups,
         apr_pool_cleanup_register(t, p, k)
  PROVE  Inv'
<1>0. /\ Types /\ Calls /\ Lists /\ Start(t) /\ p \in Live /\ owner[p] = t
      /\ Register(p, k, cleanups[p], pre_cleanups[p])
      /\ UNCHANGED <<tree, memory, stack, done, late>>
  BY InvParts DEF apr_pool_cleanup_register
<1>1. done' = done \cup {}
  BY <1>0
<1>2. PICK e, g : Replaces(p, e, g)
  BY <1>0, <1>1, AllListed, NewListed
<1>3. Allowed(p)
  BY <1>0, NotInCall DEF Allowed
<1> QED BY <1>0, <1>2, <1>3, ListsStep

LEMMA KillStep ==
  ASSUME Inv, NEW t \in Threads, NEW p \in Pools, NEW k \in Cleanups,
         apr_pool_cleanup_kill(t, p, k)
  PROVE  Inv'
<1>0. /\ Types /\ Calls /\ Lists /\ Start(t) /\ p \in Live /\ owner[p] = t
      /\ k \in ToSet(cleanups[p] \o pre_cleanups[p])
      /\ Become(p, RemoveFirst(cleanups[p], k), RemoveFirst(pre_cleanups[p], k))
      /\ done' = done \cup {k}
      /\ UNCHANGED <<tree, memory, stack, registered, late>>
  BY InvParts DEF apr_pool_cleanup_kill
<1>1. done' = done \cup {} \cup {k}
  BY <1>0
<1>2. PICK e, g : Replaces(p, e, g)
  BY <1>0, <1>1, AllListed, KilledListed
<1>3. Allowed(p)
  BY <1>0, NotInCall DEF Allowed
<1> QED BY <1>0, <1>2, <1>3, ListsStep

(* What the function of k does to the lists. *)
LEMMA CalledListed ==
  ASSUME Types, Lists, NEW p \in Pools, NEW k, NEW c, NEW d,
         Popped(p, c, d, {k}), Called(p, k, c, d)
  PROVE  \E e, g : Replaces(p, e, g)
<1>1. CASE Become(p, c, d) /\ done' = done \cup {k} /\ UNCHANGED registered
  BY <1>1, LeftListed
<1>2. CASE \E new \in Cleanups : Register(p, new, c, d) /\ done' = done \cup {k}
  BY <1>2, NewListed
<1>3. CASE \E other \in ToSet(c \o d) :
             /\ Become(p, RemoveFirst(c, other), RemoveFirst(d, other))
             /\ done' = done \cup {k, other} /\ UNCHANGED registered
  <2>1. PICK other \in ToSet(c \o d) :
             /\ Become(p, RemoveFirst(c, other), RemoveFirst(d, other))
             /\ done' = done \cup {k, other} /\ UNCHANGED registered
    BY <1>3
  <2>2. done' = done \cup {k} \cup {other}
    BY <2>1
  <2> QED BY <2>1, <2>2, KilledListed
<1> QED BY <1>1, <1>2, <1>3 DEF Called

LEMMA RunStep ==
  ASSUME Inv, NEW t \in Threads, run_cleanups(t)
  PROVE  Inv'
<1> DEFINE p == Top(t).pool
           c == cleanups[p]
           d == pre_cleanups[p]
<1>0. /\ Types /\ Calls /\ Emptied /\ Lists /\ ~Idle(t)
      /\ RunCleanup(t, p) \/ RunPreCleanup(t, p)
      /\ UNCHANGED <<tree, memory, stack>>
  BY InvParts DEF run_cleanups
<1>1. p \in Live /\ p \in Pools /\ Top(t) = stack[t][1] /\ 1 \in Depth(t)
  BY <1>0, TopOK, TopFacts
<1>2. ASSUME NEW u \in Threads, NEW i \in Depth(u), Frame(u, i).pool = p PROVE Frame(u, i) = Top(t)
  BY <1>0, <1>1, <1>2 DEF Calls, Exclusive, Frame
<1>3. /\ c \in Seq(Cleanups) /\ d \in Seq(Cleanups) /\ IsInjective(c) /\ IsInjective(d)
      /\ ToSet(c) \cap ToSet(d) = {} /\ Todo(p) = ToSet(c) \cup ToSet(d)
  BY <1>0, <1>1 DEF Types, Lists, Todo
<1>5. CASE RunCleanup(t, p)
  <2> DEFINE k == Head(c)
             rest == Tail(c)
  <2>1. /\ c # << >> /\ Top(t).at = "cleanups" /\ Called(p, k, rest, d)
        /\ late' = late \cup (ToSet(pre_cleanups'[p]) \ ToSet(d))
    BY <1>5 DEF RunCleanup, At
  <2>2. /\ rest \in Seq(Cleanups) /\ IsInjective(rest) /\ k \in ToSet(c)
        /\ ToSet(rest) = ToSet(c) \ {k}
    BY <1>3, <2>1, PopList
  <2>3. Frame(t, 1).at = "cleanups" /\ Frame(t, 1).pool = p
    BY <1>1, <2>1 DEF Frame
  <2>4. ToSet(d) \subseteq late
    BY <1>0, <1>1, <2>3 DEF Emptied
  <2> HIDE DEF k, rest, c, d, p
  <2>5. Popped(p, rest, d, {k})
    BY <1>3, <2>2 DEF Popped
  <2>6. PICK e, g : Replaces(p, e, g)
    BY <1>0, <1>1, <2>1, <2>5, CalledListed
  <2>7. late \subseteq late' /\ ToSet(pre_cleanups'[p]) \subseteq late'
    BY <2>1, <2>4
  <2>8. \A u \in Threads : \A i \in Depth(u) : Frame(u, i).pool = p => Frame(u, i).at # "free"
    BY <1>2, <2>1
  <2>9. Allowed(p)
    BY <1>0, <2>7, <2>8 DEF Allowed
  <2> QED BY <1>1, <2>6, <2>9, ListsStep
<1>6. CASE RunPreCleanup(t, p)
  <2> DEFINE k == Head(d)
             rest == Tail(d)
  <2>1. d # << >> /\ Top(t).at = "pre" /\ Called(p, k, c, rest) /\ UNCHANGED late
    BY <1>6 DEF RunPreCleanup, At
  <2>2. /\ rest \in Seq(Cleanups) /\ IsInjective(rest) /\ k \in ToSet(d)
        /\ ToSet(rest) = ToSet(d) \ {k}
    BY <1>3, <2>1, PopList
  <2> HIDE DEF k, rest, c, d, p
  <2>3. Popped(p, c, rest, {k})
    BY <1>3, <2>2 DEF Popped
  <2>4. PICK e, g : Replaces(p, e, g)
    BY <1>0, <1>1, <2>1, <2>3, CalledListed
  <2>5. \A u \in Threads : \A i \in Depth(u) : Frame(u, i).pool = p => Frame(u, i).at = "pre"
    BY <1>2, <2>1
  <2>6. Allowed(p)
    BY <1>0, <2>1, <2>5 DEF Allowed
  <2> QED BY <1>1, <2>4, <2>6, ListsStep
<1> QED BY <1>0, <1>5, <1>6

(* A call of apr_pool_clear or apr_pool_destroy. *)
LEMMA EnterStep ==
  ASSUME Inv, NEW t \in Threads, NEW f \in Frames, Call(t, f),
         UNCHANGED <<tree, memory, duties>>,
         f.op \in {"clear", "destroy"}, f.at = "pre", f.pool \in Live,
         f.pool = Root => f.op = "destroy",
         \A u \in Threads : \A j \in Depth(u) : Frame(u, j).pool # f.pool,
         Idle(t) => ~Closing /\ (owner[f.pool] = t \/ (f.pool = Root /\ \A u \in Threads : Idle(u))),
         ~Idle(t) => /\ f.pool # Root /\ parent[f.pool] = Top(t).pool /\ Top(t).at = "pre"
                     /\ ~Closing => owner[f.pool] = t
  PROVE  Inv'
<1>0. /\ Types /\ Calls /\ Emptied /\ Tree /\ Lists
      /\ UNCHANGED <<parent, child, sibling, ref, owner>>
      /\ UNCHANGED <<ring, self, cleanups, pre_cleanups, done, registered, late>>
  BY InvParts DEF tree, memory, duties
<1>1. Live' = Live
  BY <1>0 DEF Live
<1>2. /\ stack' \in [Threads -> Seq(Frames)] /\ stack'[t][1] = f
      /\ Len(stack[t]) \in Nat /\ Len(stack'[t]) = Len(stack[t]) + 1
      /\ \A i \in 1 .. Len(stack[t]) + 1 :
           i = 1 \/ (i - 1 \in 1 .. Len(stack[t]) /\ stack'[t][i] = stack[t][i - 1])
      /\ \A u \in Threads \ {t} : stack'[u] = stack[u]
      /\ ~Idle(t)' /\ Top(t)' = f
  BY <1>0, CallFacts
<1>3. Types'
  BY <1>0, <1>1, <1>2 DEF Types
<1>4. Calls'
  <2>1. /\ \A p \in Live : Stays(p)
        /\ owner'[Root] = NULL /\ f.pool \in Live' /\ f.at \in {"link", "pre"}
        /\ f.op = "create" <=> f.at = "link"
        /\ f.at # "link"
    BY <1>0, <1>1 DEF Stays, Types
  <2> QED BY <1>0, <2>1, CallsPush
<1>5. Others(t)
  BY <1>2 DEF Others
<1>6. Detached(t) = {} /\ Detached(t)' = {} /\ ~At(t, "create", "link")'
  BY <1>2 DEF Detached, At
<1>7. Members' = Members
  BY <1>1, <1>5, <1>6, MembersStep
<1>8. \A x \in Pools : Making(x)' => Making(x)
  BY <1>5, <1>6, OthersFacts
<1>9. Tree'
  BY <1>0, <1>1, <1>7, <1>8, TreeSame
<1>10. Emptied'
  <2>1. ASSUME NEW i \in Depth(t)' PROVE stack'[t][i].at = "pre"
    <3>1. CASE i = 1
      BY <1>2, <3>1
    <3>2. CASE i # 1
      <4>1. i - 1 \in Depth(t) /\ stack'[t][i] = stack[t][i - 1]
        BY <1>2, <3>2 DEF Depth
      <4>2. ~Idle(t)
        <5>1. Len(stack[t]) # 0
          BY <1>2, <4>1 DEF Depth
        <5> QED BY <5>1 DEF Idle
      <4>3. CASE i - 1 = 1
        BY <1>0, <4>1, <4>2, <4>3, TopFacts
      <4>4. CASE i - 1 # 1
        BY <1>0, <4>1, <4>4, OuterPre
      <4> QED BY <4>3, <4>4
    <3> QED BY <3>1, <3>2
  <2> QED BY <1>0, <1>5, <2>1, EmptiedStep
<1>11. Lists'
  BY <1>0, <1>1 DEF Lists, Todo
<1> QED BY <1>3, <1>4, <1>9, <1>10, <1>11 DEF Inv, Calls

LEMMA ClearStep ==
  ASSUME Inv, NEW t \in Threads, NEW p \in Pools, apr_pool_clear(t, p)
  PROVE  Inv'
<1>0. /\ Types /\ Calls /\ Start(t) /\ p \in Live /\ owner[p] = t
      /\ Call(t, [op |-> "clear", at |-> "pre", pool |-> p])
      /\ UNCHANGED <<tree, memory, duties>>
  BY InvParts DEF apr_pool_clear
<1> DEFINE f == [op |-> "clear", at |-> "pre", pool |-> p]
<1>1. f \in Frames /\ f.op = "clear" /\ f.at = "pre" /\ f.pool = p
  BY DEF Frames
<1>2. Call(t, f)
  BY <1>0
<1> HIDE DEF f
<1>3. \A u \in Threads : \A j \in Depth(u) : Frame(u, j).pool # f.pool
  BY <1>0, <1>1, NotInCall
<1>4. p # Root
  BY <1>0, PoolsAssumption DEF Types
<1>5. Idle(t) /\ ~Closing
  BY <1>0 DEF Start
<1> QED BY <1>0, <1>1, <1>2, <1>3, <1>4, <1>5, EnterStep

LEMMA DestroyStep ==
  ASSUME Inv, NEW t \in Threads, NEW p \in Pools, apr_pool_destroy(t, p)
  PROVE  Inv'
<1>0. /\ Types /\ Calls /\ Start(t) /\ p \in Live
      /\ owner[p] = t \/ (p = Root /\ \A u \in Threads : Idle(u))
      /\ Call(t, [op |-> "destroy", at |-> "pre", pool |-> p])
      /\ UNCHANGED <<tree, memory, duties>>
  BY InvParts DEF apr_pool_destroy
<1> DEFINE f == [op |-> "destroy", at |-> "pre", pool |-> p]
<1>1. f \in Frames /\ f.op = "destroy" /\ f.at = "pre" /\ f.pool = p
  BY DEF Frames
<1>2. Call(t, f)
  BY <1>0
<1> HIDE DEF f
<1>3. \A u \in Threads : \A j \in Depth(u) : Frame(u, j).pool # f.pool
  <2>1. CASE owner[p] = t
    BY <1>0, <1>1, <2>1, NotInCall
  <2>2. CASE \A u \in Threads : Idle(u)
    <3>1. \A u \in Threads : Len(stack[u]) = 0
      BY <2>2 DEF Idle
    <3> QED BY <3>1 DEF Depth
  <2> QED BY <1>0, <2>1, <2>2
<1>4. Idle(t) /\ ~Closing
  BY <1>0 DEF Start
<1> QED BY <1>0, <1>1, <1>2, <1>3, <1>4, EnterStep

(* The innermost call moves on and leaves the tree alone. *)
LEMMA SubpoolsStep ==
  ASSUME Inv, NEW t \in Threads, DestroySubpools(t)
  PROVE  Inv'
<1> DEFINE p == Top(t).pool
<1>0. /\ Types /\ Calls /\ Emptied /\ Tree /\ Lists
      /\ ~Idle(t) /\ Top(t).at = "pre" /\ pre_cleanups[p] = << >>
      /\ UNCHANGED <<tree, memory, duties>>
      /\ UNCHANGED <<parent, child, sibling, ref, owner>>
      /\ UNCHANGED <<ring, self, cleanups, pre_cleanups, done, registered, late>>
  BY InvParts DEF DestroySubpools, tree, memory, duties
<1>1. p \in Live /\ p \in Pools /\ Top(t) = stack[t][1] /\ 1 \in Depth(t) /\ Top(t).op # "create"
  BY <1>0, TopOK, TopFacts
<1>2. CASE child[p] # NULL
  <2> DEFINE c == child[p]
             f == [op |-> "destroy", at |-> "pre", pool |-> c]
  <2>1. c \in Members /\ parent[c] = p
    BY <1>0, <1>1, <1>2 DEF Tree, Pointers
  <2>2. c \in Live \ {Root} /\ c \in Pools
    BY <2>1, MembersDef
  <2>3. f \in Frames /\ f.op = "destroy" /\ f.at = "pre" /\ f.pool = c
    BY <2>2 DEF Frames
  <2>4. Call(t, f)
    BY <1>2 DEF DestroySubpools
  <2> HIDE DEF f
  <2>5. \A u \in Threads : \A j \in Depth(u) : Frame(u, j).pool # f.pool
    BY <1>0, <1>2, <2>3, SubpoolFree
  <2>6. ~Closing => owner[c] = t
    <3> SUFFICES ASSUME ~Closing PROVE owner[c] = t
      OBVIOUS
    <3>1. owner[p] = t
      BY <1>0, <1>1 DEF Calls, Owned, Frame
    <3>2. p # Root
      BY <1>0, <3>1, PoolsAssumption DEF Types
    <3> QED BY <1>0, <2>1, <2>2, <3>1, <3>2 DEF Tree, Parents
  <2> QED BY <1>0, <2>1, <2>2, <2>3, <2>4, <2>5, <2>6, EnterStep
<1>3. CASE child[p] = NULL
  <2>0. Goto(t, "cleanups")
    BY <1>3 DEF DestroySubpools
  <2>1. Live' = Live
    BY <1>0 DEF Live
  <2>2. /\ stack' \in [Threads -> Seq(Frames)]
        /\ Len(stack[t]) \in Nat /\ Len(stack'[t]) = Len(stack[t])
        /\ stack'[t][1].at = "cleanups" /\ stack'[t][1].op = stack[t][1].op
        /\ stack'[t][1].pool = stack[t][1].pool
        /\ \A i \in 1 .. Len(stack[t]) : i # 1 => stack'[t][i] = stack[t][i]
        /\ \A u \in Threads \ {t} : stack'[u] = stack[u]
        /\ ~Idle(t)' /\ Top(t)' = stack'[t][1]
    BY <1>0, <2>0, GotoFacts
  <2>3. Types'
    BY <1>0, <2>1, <2>2 DEF Types
  <2>4. Calls'
    BY <1>0, <1>1, <2>0, <2>1, CallsGoto DEF Stays
  <2>5. Others(t)
    BY <2>2 DEF Others
  <2>6. Detached(t) = {} /\ Detached(t)' = {} /\ ~At(t, "create", "link")'
    BY <1>0, <2>2 DEF Detached, At
  <2>7. Members' = Members /\ \A x \in Pools : Making(x)' => Making(x)
    BY <2>1, <2>5, <2>6, MembersStep, OthersFacts
  <2>8. Tree'
    BY <1>0, <2>1, <2>7, TreeSame
  <2>9. Emptied'
    <3>1. ASSUME NEW i \in Depth(t)'
          PROVE  LET x == stack'[t][i].pool
                 IN  /\ stack'[t][i].at \in {"cleanups", "free"} =>
                          ToSet(pre_cleanups'[x]) \subseteq late' /\ child'[x] = NULL
                     /\ stack'[t][i].at = "free" => cleanups'[x] = << >>
      <4>1. CASE i = 1
        <5>1. ToSet(<< >>) = {}
          BY DEF ToSet
        <5> QED BY <1>0, <1>1, <1>3, <2>2, <4>1, <5>1
      <4>2. CASE i # 1
        <5>1. i \in Depth(t) /\ stack'[t][i] = stack[t][i]
          BY <2>2, <4>2 DEF Depth
        <5> QED BY <1>0, <4>2, <5>1, OuterPre
      <4> QED BY <4>1, <4>2
    <3> QED BY <1>0, <2>5, <3>1, EmptiedStep
  <2>10. Lists'
    BY <1>0, <2>1 DEF Lists, Todo
  <2> QED BY <2>3, <2>4, <2>8, <2>9, <2>10 DEF Inv, Calls
<1> QED BY <1>2, <1>3

LEMMA ClearFreesStep ==
  ASSUME Inv, NEW t \in Threads, ClearFrees(t)
  PROVE  Inv'
<1> DEFINE p == Top(t).pool
<1>0. /\ Types /\ Calls /\ Emptied /\ Tree /\ Lists
      /\ ~Idle(t) /\ Top(t).at = "cleanups"
      /\ ring' = [ring EXCEPT ![p] = <<self[p]>>] /\ Return(t)
      /\ UNCHANGED <<parent, child, sibling, ref, owner>>
      /\ UNCHANGED <<self, cleanups, pre_cleanups, done, registered, late>>
  BY InvParts DEF ClearFrees, CleanupsDone, tree, duties
<1>1. p \in Live /\ p \in Pools /\ self[p] \in Nodes
  BY <1>0, TopOK, TopFacts DEF Types
<1>2. Live' = Live /\ ring' \in [Pools -> Seq(Nodes)]
  <2>1. ring \in [Pools -> Seq(Nodes)] /\ <<self[p]>> \in Seq(Nodes) /\ <<self[p]>> # << >>
    BY <1>0, <1>1 DEF Types
  <2> DEFINE new == <<self[p]>>
  <2>2. new \in Seq(Nodes) /\ new # << >> /\ ring' = [ring EXCEPT ![p] = new]
    BY <1>0, <2>1
  <2> HIDE DEF new, p
  <2> QED BY <1>1, <2>1, <2>2 DEF Live
<1>3. /\ Others(t) /\ Detached(t)' = {} /\ ~At(t, "create", "link")'
      /\ \A i \in Depth(t)' : stack'[t][i].at = "pre"
  BY <1>0, PopPre
<1>4. Detached(t) = {}
  BY <1>0 DEF Detached
<1>5. Members' = Members /\ \A x \in Pools : Making(x)' => Making(x)
  BY <1>2, <1>3, <1>4, MembersStep, OthersFacts
<1>6. Tree'
  BY <1>0, <1>2, <1>5, TreeSame
<1>7. Calls'
  BY <1>0, <1>2, CallsPop DEF Stays
<1>8. Types'
  <2>1. stack' \in [Threads -> Seq(Frames)]
    BY <1>0, ReturnFacts
  <2> QED BY <1>0, <1>2, <2>1 DEF Types
<1>9. Emptied'
  BY <1>0, <1>3, EmptiedStep
<1>10. Lists'
  BY <1>0, <1>2 DEF Lists, Todo
<1> QED BY <1>6, <1>7, <1>8, <1>9, <1>10 DEF Inv, Calls

LEMMA UnlinkStep ==
  ASSUME Inv, NEW t \in Threads, DestroyUnlinks(t)
  PROVE  Inv'
<1> DEFINE p == Top(t).pool
<1>0. /\ Types /\ Calls /\ Emptied /\ Tree /\ Lists
      /\ ~Idle(t) /\ Top(t).at = "cleanups" /\ cleanups[p] = << >> /\ Top(t).op = "destroy"
      /\ Goto(t, "free")
      /\ UNCHANGED <<parent, owner, ring, self, cleanups, pre_cleanups, done, registered, late>>
  BY InvParts DEF DestroyUnlinks, CleanupsDone, memory, duties
<1>1. p \in Live /\ p \in Pools /\ Top(t) = stack[t][1] /\ 1 \in Depth(t)
  BY <1>0, TopOK, TopFacts
<1>2. Live' = Live
  BY <1>0 DEF Live
<1>3. /\ stack' \in [Threads -> Seq(Frames)]
      /\ Len(stack[t]) \in Nat /\ Len(stack'[t]) = Len(stack[t])
      /\ stack'[t][1].at = "free" /\ stack'[t][1].op = stack[t][1].op
      /\ stack'[t][1].pool = stack[t][1].pool
      /\ \A i \in 1 .. Len(stack[t]) : i # 1 => stack'[t][i] = stack[t][i]
      /\ \A u \in Threads \ {t} : stack'[u] = stack[u]
      /\ ~Idle(t)' /\ Top(t)' = stack'[t][1]
  BY <1>0, GotoFacts
<1>4. Calls'
  BY <1>0, <1>1, <1>2, CallsGoto DEF Stays
<1>5. Others(t)
  BY <1>3 DEF Others
<1>6. Detached(t) = {} /\ Detached(t)' = {p} /\ ~At(t, "create", "link")'
  BY <1>0, <1>1, <1>3 DEF Detached, At
<1>7. \A u \in Threads \ {t} : p \notin Detached(u) /\ Detached(u)' = Detached(u)
  BY <1>0, <1>5, TopsDiffer, OthersFacts DEF Detached
<1>8. Members' = Members \ {p} /\ (p # Root => p \in Members) /\ Root \notin Members
  BY <1>1, <1>2, <1>6, <1>7, MembersDef
<1>9. \A x \in Pools : Making(x)' => Making(x)
  BY <1>5, <1>6, OthersFacts
<1>10. ToSet(pre_cleanups[p]) \subseteq late /\ child[p] = NULL
  BY <1>0, <1>1 DEF Emptied, Frame
<1>11. /\ Tree' /\ sibling' \in [Pools -> Pools \cup {NULL}] /\ child' \in [Pools -> Pools \cup {NULL}]
       /\ ref' \in [Pools -> ({"child", "sibling"} \X Pools) \cup {NULL}]
       /\ \A x \in Pools : child[x] = NULL => child'[x] = NULL
  <2>1. CASE p = Root
    <3>1. UNCHANGED <<child, sibling, ref>> /\ Members' = Members
      BY <1>8, <2>1 DEF DestroyUnlinks
    <3>2. Tree'
      BY <1>0, <1>2, <1>9, <3>1, TreeSame
    <3> QED BY <1>0, <3>1, <3>2 DEF Types
  <2>2. CASE p # Root
    <3>1. /\ Store(ref[p], sibling[p]) /\ p \in Members
          /\ ref' = IF sibling[p] = NULL THEN ref ELSE [ref EXCEPT ![sibling[p]] = ref[p]]
      BY <1>8, <2>2 DEF DestroyUnlinks
    <3>2. Tree'
      BY <1>0, <1>2, <1>8, <1>9, <3>1, TreeUnlink
    <3>3. ref[p] \in ({"child", "sibling"} \X Pools) \cup {NULL} /\ sibling[p] \in Pools \cup {NULL}
      BY <1>0, <1>1 DEF Types
    <3>4. ref' \in [Pools -> ({"child", "sibling"} \X Pools) \cup {NULL}]
      BY <1>0, <3>1, <3>3 DEF Types
    <3>5. /\ child' = IF ref[p][1] = "child" THEN [child EXCEPT ![ref[p][2]] = sibling[p]] ELSE child
          /\ sibling' = IF ref[p][1] = "sibling" THEN [sibling EXCEPT ![ref[p][2]] = sibling[p]]
                        ELSE sibling
      BY <3>1 DEF Store
    <3>6. sibling' \in [Pools -> Pools \cup {NULL}] /\ child' \in [Pools -> Pools \cup {NULL}]
      BY <1>0, <3>3, <3>5 DEF Types
    <3>7. ASSUME NEW x \in Pools, child[x] = NULL PROVE child'[x] = NULL
      <4>1. \/ ref[p] = <<"child", parent[p]>> /\ child[parent[p]] = p
            \/ \E y \in Members : ref[p] = <<"sibling", y>> /\ sibling[y] = p
        BY <1>0, <3>1 DEF Tree, Pointers
      <4>2. CASE ref[p] = <<"child", parent[p]>> /\ child[parent[p]] = p
        <5>1. child' = [child EXCEPT ![parent[p]] = sibling[p]] /\ x # parent[p]
          BY <1>1, <3>5, <3>7, <4>2, PoolsAssumption
        <5> QED BY <1>0, <3>7, <5>1 DEF Types
      <4>3. CASE \E y \in Members : ref[p] = <<"sibling", y>> /\ sibling[y] = p
        <5>1. child' = child
          BY <3>5, <4>3
        <5> QED BY <3>7, <5>1
      <4> QED BY <4>1, <4>2, <4>3
    <3> QED BY <3>2, <3>4, <3>6, <3>7
  <2> QED BY <2>1, <2>2
<1>12. Types'
  BY <1>0, <1>2, <1>3, <1>11 DEF Types
<1>13. Emptied'
  <2>1. ASSUME NEW i \in Depth(t)'
        PROVE  LET x == stack'[t][i].pool
               IN  /\ stack'[t][i].at \in {"cleanups", "free"} =>
                        ToSet(pre_cleanups'[x]) \subseteq late' /\ child'[x] = NULL
                   /\ stack'[t][i].at = "free" => cleanups'[x] = << >>
    <3>1. CASE i = 1
      BY <1>0, <1>1, <1>3, <1>10, <1>11, <3>1
    <3>2. CASE i # 1
      <4>1. i \in Depth(t) /\ stack'[t][i] = stack[t][i]
        BY <1>3, <3>2 DEF Depth
      <4> QED BY <1>0, <3>2, <4>1, OuterPre
    <3> QED BY <3>1, <3>2
  <2>2. \A u \in Threads : \A i \in Depth(u) : Frame(u, i).pool \in Pools
    BY <1>0 DEF Calls, Stacks, FrameOK, Live
  <2> QED BY <1>0, <1>5, <1>11, <2>1, <2>2, EmptiedStep
<1>14. Lists'
  BY <1>0, <1>2 DEF Lists, Todo
<1> QED BY <1>4, <1>11, <1>12, <1>13, <1>14 DEF Inv, Calls

LEMMA FreeStep ==
  ASSUME Inv, NEW t \in Threads, DestroyFrees(t)
  PROVE  Inv'
<1> DEFINE p == Top(t).pool
<1>0. /\ Types /\ Calls /\ Emptied /\ Tree /\ Lists
      /\ ~Idle(t) /\ Top(t).at = "free"
      /\ ring' = [ring EXCEPT ![p] = << >>]
      /\ owner' = [owner EXCEPT ![p] = NULL] /\ self' = [self EXCEPT ![p] = NULL]
      /\ parent' = [parent EXCEPT ![p] = NULL] /\ ref' = [ref EXCEPT ![p] = NULL]
      /\ sibling' = [sibling EXCEPT ![p] = NULL]
      /\ cleanups' = [cleanups EXCEPT ![p] = << >>]
      /\ pre_cleanups' = [pre_cleanups EXCEPT ![p] = << >>]
      /\ Return(t)
      /\ UNCHANGED <<child, done, registered, late>>
  BY InvParts DEF DestroyFrees, At, Become
<1>1. p \in Live /\ p \in Pools /\ Top(t) = stack[t][1] /\ 1 \in Depth(t)
  BY <1>0, TopOK, TopFacts
<1>2. Live' = Live \ {p} /\ ring' \in [Pools -> Seq(Nodes)]
  <2>1. << >> \in Seq(Nodes)
    OBVIOUS
  <2> QED BY <1>0, <1>1, <2>1 DEF Live, Types
<1>3. /\ Others(t) /\ Detached(t)' = {} /\ ~At(t, "create", "link")' /\ Detached(t) = {p}
      /\ \A i \in Depth(t)' : stack'[t][i].at = "pre"
  BY <1>0, PopPre DEF Detached
<1>4. \A u \in Threads \ {t} : Detached(u)' = Detached(u)
  BY <1>3, OthersFacts
<1>5. Members' = Members /\ p \notin Members
  BY <1>2, <1>3, <1>4, MembersDef
<1>6. \A x \in Pools : Making(x)' => Making(x)
  BY <1>3, OthersFacts
<1>7. \A x \in Live \ {Root} : parent[x] # p
  BY <1>0, Childless
<1>8. Tree'
  BY <1>0, <1>1, <1>2, <1>5, <1>6, <1>7, TreeFree
<1>9. /\ \A x \in Pools \ {p} : parent'[x] = parent[x] /\ owner'[x] = owner[x] /\ self'[x] = self[x]
      /\ owner'[p] = NULL
  BY <1>0, <1>1 DEF Types
<1>10. Calls'
  <2>1. \A x \in Live : x = p \/ Stays(x)
    BY <1>2, <1>9 DEF Stays, Live
  <2> QED BY <1>0, <2>1, CallsPop
<1>12. /\ cleanups' \in [Pools -> Seq(Cleanups)] /\ pre_cleanups' \in [Pools -> Seq(Cleanups)]
       /\ cleanups'[p] = << >> /\ pre_cleanups'[p] = << >>
       /\ \A x \in Pools \ {p} : cleanups'[x] = cleanups[x] /\ pre_cleanups'[x] = pre_cleanups[x]
  <2>1. << >> \in Seq(Cleanups)
    OBVIOUS
  <2> QED BY <1>0, <1>1, <2>1 DEF Types
<1>13. Types'
  <2>1. stack' \in [Threads -> Seq(Frames)]
    BY <1>0, ReturnFacts
  <2>2. \A x \in Live' : self'[x] \in Nodes
    BY <1>0, <1>2, <1>9 DEF Types, Live
  <2>3. /\ owner' \in [Pools -> Threads \cup {NULL}] /\ self' \in [Pools -> Nodes \cup {NULL}]
        /\ parent' \in [Pools -> Pools \cup {NULL}] /\ sibling' \in [Pools -> Pools \cup {NULL}]
        /\ ref' \in [Pools -> ({"child", "sibling"} \X Pools) \cup {NULL}]
    BY <1>0, <1>1 DEF Types
  <2>4. owner'[Root] = NULL
    BY <1>0, <1>9, PoolsAssumption DEF Types
  <2> QED BY <1>0, <1>2, <1>12, <2>1, <2>2, <2>3, <2>4 DEF Types
<1>14. \A u \in Threads \ {t} : \A i \in Depth(u) : Frame(u, i).pool \in Pools \ {p}
  <2> SUFFICES ASSUME NEW u \in Threads \ {t}, NEW i \in Depth(u) PROVE Frame(u, i).pool \in Pools \ {p}
    OBVIOUS
  <2>1. Frame(u, i).pool \in Pools
    BY <1>0 DEF Calls, Stacks, FrameOK, Live
  <2>2. Frame(t, 1).pool = p
    BY <1>1 DEF Frame
  <2> QED BY <1>0, <1>1, <2>1, <2>2 DEF Calls, Exclusive
<1>15. Emptied'
  BY <1>0, <1>3, <1>12, <1>14, EmptiedStep
<1>16. Lists'
  <2>1. cleanups[p] = << >> /\ ToSet(pre_cleanups[p]) \subseteq late
    BY <1>0, <1>1 DEF Emptied, Frame
  <2>2. ToSet(<< >>) = {} /\ IsInjective(<< >>)
    BY DEF ToSet, IsInjective
  <2>0. PICK q \in Pools : q = p
    BY <1>1
  <2>3. Todo(q)' = {} /\ Todo(q) \subseteq late /\ \A x \in Pools \ {q} : Todo(x)' = Todo(x)
    BY <1>12, <2>0, <2>1, <2>2 DEF Todo
  <2>4. ASSUME NEW x \in Pools
        PROVE  /\ IsInjective(cleanups'[x]) /\ IsInjective(pre_cleanups'[x])
               /\ ToSet(cleanups'[x]) \cap ToSet(pre_cleanups'[x]) = {}
               /\ Todo(x)' \cap done' = {} /\ Todo(x)' \subseteq registered'
               /\ x \notin Live' => cleanups'[x] = << >> /\ pre_cleanups'[x] = << >>
    <3>1. CASE x = q
      BY <1>12, <2>0, <2>2, <2>3, <3>1
    <3>2. CASE x # q
      BY <1>0, <1>2, <1>12, <2>0, <2>3, <3>2 DEF Lists
    <3> QED BY <3>1, <3>2
  <2>5. \A x, y \in Pools : x # y => Todo(x)' \cap Todo(y)' = {}
    <3>1. \A x, y \in Pools : x # y => Todo(x) \cap Todo(y) = {}
      BY <1>0 DEF Lists
    <3> QED BY <2>3, <3>1
  <2>6. ASSUME NEW k \in registered'
        PROVE  k \in done' \cup late' \/ \E x \in Pools : k \in Todo(x)'
    <3>1. k \in done \cup late \/ \E x \in Pools : k \in Todo(x)
      BY <1>0 DEF Lists
    <3> QED BY <1>0, <2>3, <3>1
  <2>7. done' \subseteq registered'
    BY <1>0 DEF Lists
  <2> QED BY <2>4, <2>5, <2>6, <2>7 DEF Lists
<1> QED BY <1>8, <1>10, <1>13, <1>15, <1>16 DEF Inv, Calls

-----------------------------------------------------------------------------
(* The theorems. *)

LEMMA InitInv == Init => Inv
<1> SUFFICES ASSUME Init PROVE Inv
  OBVIOUS
<1>0. Root \in Pools /\ NULL \notin Pools /\ NULL \notin Threads
  BY PoolsAssumption
<1>1. PICK n \in Nodes :
        /\ ring = [p \in Pools |-> IF p = Root THEN <<n>> ELSE << >>]
        /\ self = [p \in Pools |-> IF p = Root THEN n ELSE NULL]
  BY DEF Init
<1>2. /\ parent = [p \in Pools |-> NULL] /\ child = [p \in Pools |-> NULL]
      /\ sibling = [p \in Pools |-> NULL] /\ ref = [p \in Pools |-> NULL]
      /\ owner = [p \in Pools |-> NULL]
      /\ cleanups = [p \in Pools |-> << >>] /\ pre_cleanups = [p \in Pools |-> << >>]
      /\ done = {} /\ registered = {} /\ late = {} /\ stack = [t \in Threads |-> << >>]
  BY DEF Init
<1>3. <<n>> # << >> /\ <<n>> \in Seq(Nodes) /\ << >> \in Seq(Nodes)
      /\ << >> \in Seq(Cleanups) /\ << >> \in Seq(Frames)
  OBVIOUS
<1>4. Live = {Root}
  BY <1>0, <1>1, <1>3 DEF Live
<1>5. \A t \in Threads : Idle(t) /\ Depth(t) = {}
  BY <1>2 DEF Idle, Depth
<1>6. Types
  <2>1. parent \in [Pools -> Pools \cup {NULL}] /\ child \in [Pools -> Pools \cup {NULL}]
        /\ sibling \in [Pools -> Pools \cup {NULL}]
        /\ ref \in [Pools -> ({"child", "sibling"} \X Pools) \cup {NULL}]
        /\ owner \in [Pools -> Threads \cup {NULL}] /\ owner[Root] = NULL
    BY <1>0, <1>2
  <2>2. ring \in [Pools -> Seq(Nodes)]
    BY <1>1, <1>3
  <2>3. self \in [Pools -> Nodes \cup {NULL}] /\ self[Root] \in Nodes
    BY <1>0, <1>1
  <2>4. /\ cleanups \in [Pools -> Seq(Cleanups)] /\ pre_cleanups \in [Pools -> Seq(Cleanups)]
        /\ done \subseteq Cleanups /\ registered \subseteq Cleanups /\ stack \in [Threads -> Seq(Frames)]
    BY <1>2, <1>3
  <2> QED BY <1>4, <2>1, <2>2, <2>3, <2>4 DEF Types
<1>7. Calls
  <2>1. ~Closing
    BY <1>5 DEF Closing, Depth
  <2> QED BY <1>5, <2>1 DEF Calls, Stacks, Exclusive, Owned
<1>8. Emptied
  BY <1>5 DEF Emptied
<1>9. Tree
  <2>1. Members = {}
    BY <1>4, MembersDef
  <2>2. Pointers /\ Reaches
    BY <1>2, <2>1 DEF Pointers, Reaches
  <2>3. Parents /\ Acyclic
    BY <1>4 DEF Parents, Acyclic
  <2>4. Unborn
    BY <1>2 DEF Unborn
  <2> QED BY <2>2, <2>3, <2>4 DEF Tree
<1>10. Lists
  <2>1. ToSet(<< >>) = {} /\ IsInjective(<< >>)
    BY DEF ToSet, IsInjective
  <2>2. \A p \in Pools : cleanups[p] = << >> /\ pre_cleanups[p] = << >>
    BY <1>2
  <2>3. \A p \in Pools : Todo(p) = {}
    BY <2>1, <2>2 DEF Todo
  <2> QED BY <1>2, <2>1, <2>2, <2>3 DEF Lists
<1> QED BY <1>6, <1>7, <1>8, <1>9, <1>10, InvParts

LEMMA NextInv == Inv /\ [Next]_vars => Inv'
<1> SUFFICES ASSUME Inv, [Next]_vars PROVE Inv'
  OBVIOUS
<1>1. ASSUME NEW max \in MaxFrees, MaxFreeSet(max) PROVE Inv'
  <2>1. UNCHANGED <<tree, memory, duties, stack>>
    BY <1>1 DEF MaxFreeSet
  <2> QED BY <2>1, InvSame
<1>2. ASSUME NEW t \in Threads, NEW p \in Pools,
             \/ apr_pool_create(t, p)
             \/ apr_pool_clear(t, p)
             \/ apr_pool_destroy(t, p)
             \/ \E size \in Requests : apr_palloc(t, p, size)
             \/ \E k \in Cleanups :
                  \/ apr_pool_cleanup_register(t, p, k)
                  \/ apr_pool_cleanup_kill(t, p, k)
      PROVE  Inv'
  BY <1>2, CreateStep, ClearStep, DestroyStep, PallocStep, RegisterStep, KillStep
<1>3. ASSUME NEW t \in Threads,
             \/ CreateLinks(t)
             \/ run_cleanups(t)
             \/ DestroySubpools(t)
             \/ ClearFrees(t)
             \/ DestroyUnlinks(t)
             \/ DestroyFrees(t)
      PROVE  Inv'
  BY <1>3, LinkStep, RunStep, SubpoolsStep, ClearFreesStep, UnlinkStep, FreeStep
<1>4. ASSUME UNCHANGED vars PROVE Inv'
  <2>1. UNCHANGED <<tree, memory, duties, stack>>
    BY <1>4 DEF vars
  <2> QED BY <2>1, InvSame
<1> QED BY <1>1, <1>2, <1>3, <1>4 DEF Next

(* The calls that threads are in, the tree of pools and the lists of      *)
(* cleanups stay consistent through every critical section of             *)
(* apr_pool_create_ex, apr_pool_clear and apr_pool_destroy.               *)
THEOREM PoolsInvariant == Spec => []Inv
BY InitInv, NextInv, PTL DEF Spec

LEMMA InvTree ==
  ASSUME Inv
  PROVE  TreeLinked
<1>0. Types /\ Pointers /\ Parents /\ Reaches /\ Unborn
  BY DEF Inv, Tree
<1>1. \A q \in Pools : q \in Members <=> Linked(q)
  BY DEF Members
<1>2. NULL \notin Pools
  BY PoolsAssumption
<1>3. ASSUME NEW p \in Live, NEW q \in Subpools(p)
      PROVE  q \in Pools /\ Linked(q) /\ parent[q] = p
  <2> DEFINE S == {x \in Members : parent[x] = p}
  <2>1. p \in Pools /\ Members \subseteq Pools
    BY MembersDef DEF Live
  <2>2. S \in SUBSET Pools
    BY <2>1
  <2>3. child[p] # NULL => child[p] \in S
    BY <1>0, <2>1 DEF Pointers
  <2>4. \A x \in S : sibling[x] # NULL => sibling[x] \in S
    BY <1>0 DEF Pointers
  <2>5. q \in Pools /\ q \in S
    <3> HIDE DEF S
    <3> QED BY <1>3, <2>2, <2>3, <2>4 DEF Subpools
  <2> QED BY <1>1, <2>5
<1>4. ASSUME NEW p \in Live, NEW q \in Pools, Linked(q), parent[q] = p
      PROVE  q \in Subpools(p)
  <2>1. p \in Pools /\ q \in Members
    BY <1>1, <1>4 DEF Live
  <2>2. ASSUME NEW S \in SUBSET Pools, Closed(S, p) PROVE q \in S
    BY <1>0, <1>4, <2>1, <2>2 DEF Reaches
  <2> QED BY <2>2 DEF Subpools, Closed
<1>5. ASSUME NEW p \in Live
      PROVE  /\ Subpools(p) = {q \in Pools : Linked(q) /\ parent[q] = p}
             /\ child[p] # NULL => ref[child[p]] = <<"child", p>>
  <2>1. p \in Pools
    BY DEF Live
  <2>2. Subpools(p) \subseteq {q \in Pools : Linked(q) /\ parent[q] = p}
    BY <1>3
  <2>3. {q \in Pools : Linked(q) /\ parent[q] = p} \subseteq Subpools(p)
    BY <1>4
  <2>4. child[p] # NULL => ref[child[p]] = <<"child", p>>
    BY <1>0, <2>1 DEF Pointers
  <2> QED BY <2>2, <2>3, <2>4
<1>6. ASSUME NEW p \in Pools, Linked(p)
      PROVE  /\ parent[p] \in Live
             /\ sibling[p] # NULL => ref[sibling[p]] = <<"sibling", p>>
  <2>1. p \in Members /\ p \in Live \ {Root}
    BY <1>1, <1>6, MembersDef
  <2> QED BY <1>0, <2>1 DEF Pointers, Parents
<1> QED BY <1>5, <1>6 DEF TreeLinked

(* child and sibling lead from every pool to exactly the live pools it is *)
(* the parent of, and ref of each back: for any number of threads that    *)
(* create, clear and destroy pools below a shared root.                   *)
THEOREM TreeStaysLinked == Spec => []TreeLinked
BY PoolsInvariant, InvTree, PTL

LEMMA InvOnce ==
  ASSUME Inv
  PROVE  CleanupOnce
<1>1. Types /\ Lists
  BY DEF Inv
<1>2. \A p \in Pools : Listed(p) = Todo(p)
  BY <1>1, TodoFacts DEF Listed
<1>3. ASSUME NEW p \in Pools PROVE IsInjective(cleanups[p] \o pre_cleanups[p])
  <2>1. /\ IsInjective(cleanups[p]) /\ IsInjective(pre_cleanups[p])
        /\ ToSet(cleanups[p]) \cap ToSet(pre_cleanups[p]) = {}
    BY <1>1 DEF Lists
  <2>2. cleanups[p] \in Seq(Cleanups) /\ pre_cleanups[p] \in Seq(Cleanups)
    BY <1>1 DEF Types
  <2> QED BY <2>1, <2>2, ConcatList
<1>4. /\ \A p \in Pools : Listed(p) \cap done = {}
      /\ \A p, q \in Pools : p # q => Listed(p) \cap Listed(q) = {}
  BY <1>1, <1>2 DEF Lists
<1>5. \A p \in Pools \ Live : Todo(p) = {}
  <2>1. ToSet(<< >>) = {}
    BY DEF ToSet
  <2> QED BY <1>1, <2>1 DEF Lists, Todo
<1>6. done \cup UNION {Listed(p) : p \in Live} \subseteq registered
  <2>1. \A p \in Live : Listed(p) \subseteq registered
    BY <1>1, <1>2 DEF Lists, Live
  <2> QED BY <1>1, <2>1 DEF Lists
<1>7. registered \ (done \cup UNION {Listed(p) : p \in Live}) \subseteq late
  <2> SUFFICES ASSUME NEW k \in registered, k \notin done, k \notin late
               PROVE  \E p \in Live : k \in Listed(p)
    OBVIOUS
  <2>1. PICK p \in Pools : k \in Todo(p)
    BY <1>1 DEF Lists
  <2> QED BY <1>2, <1>5, <2>1
<1> QED BY <1>3, <1>4, <1>6, <1>7 DEF CleanupOnce

(* Each cleanup is run or killed once, also when cleanup functions        *)
(* register and kill others from inside run_cleanups; and none is         *)
(* forgotten: what was registered and is not run or killed is in the list *)
(* of a pool that is there, unless a cleanup registered it as a           *)
(* pre-cleanup when run_cleanups was done with those.                     *)
THEOREM CleanupsOnce == Spec => []CleanupOnce
BY PoolsInvariant, InvOnce, PTL

-----------------------------------------------------------------------------
(* More of numbers and sequences. *)

(* A bounded one has a greatest. *)
LEMMA GreatestNat ==
  ASSUME NEW T \in SUBSET Nat, T # {}, NEW b \in Nat, \A k \in T : k <= b
  PROVE  \E m \in T : \A k \in T : k <= m
<1> DEFINE U == {b - k : k \in T}
<1>1. U \in SUBSET Nat /\ U # {}
  <2>1. \A k \in T : b - k \in Nat
    OBVIOUS
  <2> QED BY <2>1
<1>2. PICK u \in U : \A k \in U : u <= k
  BY <1>1, LeastNat
<1>3. PICK m \in T : u = b - m
  BY <1>2
<1>4. ASSUME NEW k \in T PROVE k <= m
  <2>1. b - k \in U
    OBVIOUS
  <2>2. b - m <= b - k
    BY <1>2, <1>3, <2>1
  <2>3. k \in Nat /\ m \in Nat
    OBVIOUS
  <2> HIDE DEF U
  <2> QED BY <2>2, <2>3
<1> QED BY <1>4

LEMMA MinOf ==
  ASSUME NEW T \in SUBSET Nat, T # {}
  PROVE  Min(T) \in T /\ \A k \in T : Min(T) <= k
<1>1. \E m \in T : \A k \in T : m <= k
  BY LeastNat
<1> QED BY <1>1 DEF Min

LEMMA MaxOf ==
  ASSUME NEW T \in SUBSET Nat, T # {}, NEW b \in Nat, \A k \in T : k <= b
  PROVE  Max(T) \in T /\ \A k \in T : k <= Max(T)
<1>1. \E m \in T : \A k \in T : k <= m
  BY GreatestNat
<1> QED BY <1>1 DEF Max

LEMMA EmptyList ==
  ASSUME NEW S
  PROVE  /\ << >> \in Seq(S) /\ ToSet(<< >>) = {} /\ IsInjective(<< >>)
         /\ \A s \in Seq(S) : ToSet(s) = {} <=> s = << >>
<1>1. << >> \in Seq(S) /\ ToSet(<< >>) = {} /\ IsInjective(<< >>)
  BY DEF ToSet, IsInjective
<1>2. ASSUME NEW s \in Seq(S), s # << >> PROVE ToSet(s) # {}
  <2>1. Len(s) \in Nat /\ Len(s) > 0 /\ DOMAIN s = 1 .. Len(s)
    BY <1>2
  <2>2. 1 \in 1 .. Len(s)
    BY <2>1
  <2>3. s[1] \in ToSet(s)
    BY <2>1, <2>2 DEF ToSet
  <2> QED BY <2>3
<1> QED BY <1>1, <1>2

LEMMA OneList ==
  ASSUME NEW S, NEW x \in S
  PROVE  <<x>> \in Seq(S) /\ <<x>> # << >> /\ ToSet(<<x>>) = {x} /\ IsInjective(<<x>>)
BY DEF ToSet, IsInjective

(* A node of the index for a size has room for it. *)
LEMMA DivFacts ==
  ASSUME NEW a \in Int, NEW b \in Nat, b > 0
  PROVE  /\ a \div b \in Int /\ b * (a \div b) <= a /\ a < b * (a \div b) + b
         /\ a >= 0 => a \div b >= 0
OBVIOUS

LEMMA Times ==
  ASSUME NEW b \in Nat, NEW i \in Int, NEW j \in Int, i <= j
  PROVE  b * i <= b * j /\ b * i \in Int /\ b * j \in Int
OBVIOUS

LEMMA CapacityFacts ==
  /\ BOUNDARY \in Nat /\ BOUNDARY > 0
  /\ \A i \in Nat : Capacity(i) \in Int
  /\ \A i, j \in Nat : i <= j => Capacity(i) <= Capacity(j)
  /\ \A size \in Nat : /\ IndexFor(size) \in Nat /\ IndexFor(size) >= 1
                       /\ size <= Capacity(IndexFor(size))
<1>1. BOUNDARY \in Nat /\ BOUNDARY > 0 /\ NODE_SIZE \in Nat
  BY AllocatorAssumption
<1>2. ASSUME NEW i \in Nat PROVE Capacity(i) = BOUNDARY * (i + 1) - NODE_SIZE /\ Capacity(i) \in Int
  BY <1>1 DEF Capacity
<1>3. ASSUME NEW i \in Nat, NEW j \in Nat, i <= j PROVE Capacity(i) <= Capacity(j)
  <2>1. BOUNDARY * (i + 1) <= BOUNDARY * (j + 1)
    BY <1>1, <1>3, Times
  <2> QED BY <1>1, <1>2, <2>1
<1>4. ASSUME NEW size \in Nat
      PROVE  /\ IndexFor(size) \in Nat /\ IndexFor(size) >= 1
             /\ size <= Capacity(IndexFor(size))
  <2> DEFINE a == size + NODE_SIZE + BOUNDARY - 1
             q == a \div BOUNDARY
             i == IndexFor(size)
  <2>1. a \in Int
    BY <1>1
  <2>2. q \in Int /\ a < BOUNDARY * q + BOUNDARY
    <3> HIDE DEF a
    <3> QED BY <1>1, <2>1, DivFacts
  <2>3. i = IF q - 1 < 1 THEN 1 ELSE q - 1
    BY DEF IndexFor
  <2>4. BOUNDARY * q + BOUNDARY > size + NODE_SIZE + BOUNDARY - 1
    BY <2>2
  <2> HIDE DEF q, i
  <2>5. i \in Nat /\ i >= 1 /\ q <= i + 1
    BY <2>2, <2>3
  <2>6. BOUNDARY * q <= BOUNDARY * (i + 1) /\ BOUNDARY * q \in Int /\ BOUNDARY * (i + 1) \in Int
    BY <1>1, <2>2, <2>5, Times
  <2>7. Capacity(i) = BOUNDARY * (i + 1) - NODE_SIZE
    BY <1>2, <2>5
  <2> DEFINE x == BOUNDARY * q
             y == BOUNDARY * (i + 1)
  <2>8. x <= y /\ x \in Int /\ y \in Int /\ x + BOUNDARY > size + NODE_SIZE + BOUNDARY - 1
        /\ Capacity(i) = y - NODE_SIZE
    BY <2>4, <2>6, <2>7
  <2> HIDE DEF x, y
  <2>9. size <= Capacity(i)
    BY <1>1, <2>8
  <2> QED BY <2>5, <2>9 DEF i
<1> QED BY <1>1, <1>2, <1>3, <1>4

-----------------------------------------------------------------------------
(* The memory: what the allocator and the pools have. *)

(* Node n belongs into bin j. *)
InBin(n, j) == IF j = 0 THEN index[n] >= MAX_INDEX ELSE index[n] = j

(* The nodes in the bins fr. *)
Held(fr) == UNION {ToSet(fr[j]) : j \in Slots}

(* Bins with their nodes and mx as the highest one in use. *)
BinsOK(fr, mx) ==
  /\ fr \in [Slots -> Seq(Nodes)] /\ mx \in Slots
  /\ \A j \in Slots : IsInjective(fr[j]) /\ \A n \in ToSet(fr[j]) : InBin(n, j)
  /\ mx = 0 \/ fr[mx] # << >>
  /\ \A j \in Slots : fr[j] # << >> => j <= mx

(* The nodes S are kept and cu more may be. *)
LimitOK(S, cu) ==
  /\ cu \in 0 .. max_free_index
  /\ max_free_index # 0 => Cardinality(Boundaries(S)) + cu = max_free_index

Allocator ==
  /\ index \in [Nodes -> Nat] /\ max_free_index \in 0 .. Word - 1
  /\ BinsOK(free, max_index) /\ LimitOK(Held(free), current_free_index)

(* A node is with the system, in one ring or in the bins. *)
Placed ==
  /\ \A p, q \in Pools : p # q => ToSet(ring[p]) \cap ToSet(ring[q]) = {}
  /\ \A p \in Pools : ToSet(ring[p]) \cap Held(free) = {}
  /\ \A n \in Nodes :
       index[n] # 0 <=> n \in Held(free) \/ \E p \in Pools : n \in ToSet(ring[p])

Rings == \A p \in Live : IsInjective(ring[p]) /\ self[p] \in ToSet(ring[p])

Rooms == space \in [Nodes -> Int] /\ free_index \in [Nodes -> Int]

(* With the root the bins are gone. *)
Gone == Root \notin Live => Held(free) = {}

Mem == Allocator /\ Placed /\ Rings /\ Rooms /\ RingSorted /\ Gone

-----------------------------------------------------------------------------
(* What the kept nodes amount to. *)

LEMMA BoundariesFinite ==
  ASSUME index \in [Nodes -> Nat], NEW S \in SUBSET Nodes, IsFiniteSet(S)
  PROVE  IsFiniteSet(Boundaries(S)) /\ Cardinality(Boundaries(S)) \in Nat
<1> DEFINE f == [n \in S |-> {n} \X (0 .. index[n])]
           T == {{n} \X (0 .. index[n]) : n \in S}
<1>1. f \in Surjection(S, T)
  <2>1. f \in [S -> T]
    OBVIOUS
  <2>2. \A y \in T : \E n \in S : f[n] = y
    OBVIOUS
  <2> QED BY <2>1, <2>2 DEF Surjection
<1>2. IsFiniteSet(T)
  BY <1>1, FS_Surjection
<1>3. ASSUME NEW n \in S PROVE IsFiniteSet({n} \X (0 .. index[n]))
  <2>0. index[n] \in Int
    BY <1>3
  <2>1. IsFiniteSet({n})
    BY FS_Singleton
  <2>2. IsFiniteSet(0 .. index[n])
    BY <2>0, FS_Interval
  <2> QED BY <2>1, <2>2, FS_Product
<1>4. \A X \in T : IsFiniteSet(X)
  BY <1>3
<1>5. IsFiniteSet(UNION T)
  <2> HIDE DEF T
  <2> QED BY <1>2, <1>4, FS_UNION
<1> QED BY <1>5, FS_CardinalityType DEF Boundaries

LEMMA BoundariesAdd ==
  ASSUME index \in [Nodes -> Nat], NEW S \in SUBSET Nodes, IsFiniteSet(S), NEW n \in Nodes \ S
  PROVE  /\ IsFiniteSet(S \cup {n})
         /\ Cardinality(Boundaries(S \cup {n})) = Cardinality(Boundaries(S)) + index[n] + 1
<1> DEFINE A == Boundaries(S)
           B == {n} \X (0 .. index[n])
<1>1. IsFiniteSet(A) /\ Cardinality(A) \in Nat
  BY BoundariesFinite
<1>2. IsFiniteSet({n}) /\ Cardinality({n}) = 1
  BY FS_Singleton
<1>3. index[n] \in Nat /\ IsFiniteSet(0 .. index[n]) /\ Cardinality(0 .. index[n]) = index[n] + 1
  BY FS_Interval
<1>4. IsFiniteSet(B) /\ Cardinality(B) = 1 * Cardinality(0 .. index[n])
  BY <1>2, <1>3, FS_Product
<1>5. Cardinality(B) = index[n] + 1
  BY <1>3, <1>4
<1>6. A \cap B = {}
  BY DEF Boundaries
<1>7. Boundaries(S \cup {n}) = A \cup B
  BY DEF Boundaries
<1> HIDE DEF A, B
<1>8. Cardinality(A \cup B) = Cardinality(A) + Cardinality(B) - Cardinality(A \cap B)
  BY <1>1, <1>4, FS_Union
<1>9. Cardinality(A \cap B) = 0
  BY <1>6, FS_EmptySet
<1>10. IsFiniteSet(S \cup {n})
  BY FS_AddElement
<1>11. Cardinality(A \cup B) = Cardinality(A) + index[n] + 1
  BY <1>1, <1>3, <1>5, <1>8, <1>9
<1> QED BY <1>7, <1>10, <1>11 DEF A

LEMMA BoundariesDrop ==
  ASSUME index \in [Nodes -> Nat], NEW S \in SUBSET Nodes, IsFiniteSet(S), NEW n \in S
  PROVE  /\ IsFiniteSet(S \ {n})
         /\ Cardinality(Boundaries(S)) = Cardinality(Boundaries(S \ {n})) + index[n] + 1
         /\ Cardinality(Boundaries(S \ {n})) \in Nat
<1> DEFINE T == S \ {n}
<1>1. T \in SUBSET Nodes /\ IsFiniteSet(T) /\ n \in Nodes \ T /\ T \cup {n} = S
  BY FS_RemoveElement
<1> HIDE DEF T
<1>2. Cardinality(Boundaries(T \cup {n})) = Cardinality(Boundaries(T)) + index[n] + 1
      /\ Cardinality(Boundaries(T)) \in Nat
  BY <1>1, BoundariesAdd, BoundariesFinite
<1> QED BY <1>1, <1>2 DEF T

LEMMA HeldFacts ==
  ASSUME NEW fr \in [Slots -> Seq(Nodes)]
  PROVE  /\ Held(fr) \in SUBSET Nodes /\ IsFiniteSet(Held(fr))
         /\ \A n : n \in Held(fr) <=> \E j \in Slots : n \in ToSet(fr[j])
         /\ \A j \in Slots : fr[j] \in Seq(Nodes) /\ ToSet(fr[j]) \in SUBSET Nodes
<1>1. ASSUME NEW j \in Slots
      PROVE  fr[j] \in Seq(Nodes) /\ ToSet(fr[j]) \in SUBSET Nodes /\ IsFiniteSet(ToSet(fr[j]))
  <2>1. fr[j] \in Seq(Nodes)
    OBVIOUS
  <2>2. /\ ToSet(fr[j]) = {fr[j][i] : i \in 1 .. Len(fr[j])} /\ ToSet(fr[j]) \subseteq Nodes
        /\ Len(fr[j]) \in Nat /\ DOMAIN fr[j] = 1 .. Len(fr[j])
    BY <2>1, ToSetDef
  <2> DEFINE s == fr[j]
             f == [i \in 1 .. Len(s) |-> s[i]]
  <2>3. f \in Surjection(1 .. Len(s), ToSet(s))
    BY <2>2 DEF Surjection
  <2>4. IsFiniteSet(1 .. Len(s))
    BY <2>2, FS_Interval
  <2>5. IsFiniteSet(ToSet(s))
    BY <2>3, <2>4, FS_Surjection
  <2> QED BY <2>1, <2>2, <2>5
<1> DEFINE T == {ToSet(fr[j]) : j \in Slots}
           g == [j \in Slots |-> ToSet(fr[j])]
<1>2. IsFiniteSet(T)
  <2>1. g \in Surjection(Slots, T)
    BY DEF Surjection
  <2>2. IsFiniteSet(Slots)
    BY FS_Interval, AllocatorAssumption DEF Slots
  <2> QED BY <2>1, <2>2, FS_Surjection
<1>3. \A X \in T : IsFiniteSet(X)
  BY <1>1
<1>4. IsFiniteSet(UNION T)
  <2> HIDE DEF T
  <2> QED BY <1>2, <1>3, FS_UNION
<1> QED BY <1>1, <1>4 DEF Held

LEMMA SlotFacts ==
  /\ MAX_INDEX \in Nat /\ MAX_INDEX > 1 /\ 0 \in Slots /\ Slots \subseteq Nat
  /\ \A j \in Slots : j < MAX_INDEX /\ j \in Nat
  /\ \A j \in Nat : j < MAX_INDEX => j \in Slots
  /\ Word \in Nat /\ Word > MAX_INDEX
BY AllocatorAssumption DEF Slots

LEMMA LimitDrop ==
  ASSUME index \in [Nodes -> Nat], max_free_index \in 0 .. Word - 1,
         NEW S \in SUBSET Nodes, IsFiniteSet(S), NEW n \in S,
         NEW cu, LimitOK(S, cu)
  PROVE  LET sum == (cu + index[n] + 1) % Word
         IN  LimitOK(S \ {n}, IF sum > max_free_index THEN max_free_index ELSE sum)
<1> DEFINE k == Cardinality(Boundaries(S))
           d == Cardinality(Boundaries(S \ {n}))
           i == index[n]
           sum == (cu + i + 1) % Word
           new == IF sum > max_free_index THEN max_free_index ELSE sum
<1>1. k = d + i + 1 /\ d \in Nat /\ i \in Nat
  BY BoundariesDrop
<1>2. cu \in 0 .. max_free_index /\ (max_free_index # 0 => k + cu = max_free_index)
  BY DEF LimitOK
<1> HIDE DEF k, d, i
<1>3. Word \in Nat /\ Word > 0 /\ cu + i + 1 \in Nat
  BY <1>1, <1>2, SlotFacts
<1>4. sum \in Nat
  BY <1>3
<1>5. new \in 0 .. max_free_index
  BY <1>4, SlotFacts
<1>6. ASSUME max_free_index # 0 PROVE d + new = max_free_index
  <2>1. cu + i + 1 \in 0 .. Word - 1 /\ d + (cu + i + 1) = max_free_index
    BY <1>1, <1>2, <1>3, <1>6
  <2>2. sum = cu + i + 1
    BY <1>3, <2>1
  <2> QED BY <1>1, <1>2, <2>1, <2>2
<1> QED BY <1>5, <1>6 DEF LimitOK, d, i

LEMMA LimitAdd ==
  ASSUME index \in [Nodes -> Nat], max_free_index \in 0 .. Word - 1,
         NEW S \in SUBSET Nodes, IsFiniteSet(S), NEW n \in Nodes \ S,
         NEW cu, LimitOK(S, cu), ~(max_free_index # 0 /\ index[n] + 1 > cu)
  PROVE  LimitOK(S \cup {n}, IF cu >= index[n] + 1 THEN cu - (index[n] + 1) ELSE 0)
<1> DEFINE k == Cardinality(Boundaries(S))
           d == Cardinality(Boundaries(S \cup {n}))
           i == index[n]
           new == IF cu >= i + 1 THEN cu - (i + 1) ELSE 0
<1>1. d = k + i + 1 /\ k \in Nat /\ i \in Nat
  BY BoundariesAdd, BoundariesFinite
<1>2. /\ cu \in 0 .. max_free_index /\ (max_free_index # 0 => k + cu = max_free_index)
      /\ ~(max_free_index # 0 /\ i + 1 > cu)
  BY DEF LimitOK
<1> HIDE DEF k, d, i
<1>3. new \in 0 .. max_free_index
  BY <1>1, <1>2, SlotFacts
<1>4. max_free_index # 0 => d + new = max_free_index
  BY <1>1, <1>2, SlotFacts
<1> QED BY <1>3, <1>4 DEF LimitOK, d, i

(* A node in the bins has an index, and is in one bin. *)
LEMMA InBinFacts ==
  ASSUME index \in [Nodes -> Nat], NEW fr, NEW mx, BinsOK(fr, mx), NEW n \in Held(fr)
  PROVE  /\ n \in Nodes /\ index[n] \in Nat /\ index[n] >= 1
         /\ \A j, k \in Slots : n \in ToSet(fr[j]) /\ n \in ToSet(fr[k]) => j = k
<1>1. fr \in [Slots -> Seq(Nodes)]
  BY DEF BinsOK
<1>2. n \in Nodes /\ index[n] \in Nat
  BY <1>1, HeldFacts
<1>3. \A j \in Slots : n \in ToSet(fr[j]) => InBin(n, j)
  BY DEF BinsOK
<1>4. \A j \in Slots : InBin(n, j) => index[n] >= 1
  BY <1>2, SlotFacts DEF InBin
<1>5. \A j, k \in Slots : InBin(n, j) /\ InBin(n, k) => j = k
  BY <1>2, SlotFacts DEF InBin
<1>6. \E j \in Slots : n \in ToSet(fr[j])
  BY <1>1, HeldFacts
<1> QED BY <1>2, <1>3, <1>4, <1>5, <1>6

(* The bins after a node was put into its bin, *)
Pushes(fr, mx, n, slot, fr2, mx2) ==
  /\ BinsOK(fr, mx) /\ n \in Nodes \ Held(fr) /\ index[n] >= 1
  /\ slot = IF index[n] < MAX_INDEX THEN index[n] ELSE 0
  /\ fr2 = [fr EXCEPT ![slot] = <<n>> \o @]
  /\ mx2 = IF fr[slot] = << >> /\ slot > mx THEN slot ELSE mx

LEMMA BinPush ==
  ASSUME index \in [Nodes -> Nat], NEW fr, NEW mx, NEW n, NEW slot, NEW fr2, NEW mx2,
         Pushes(fr, mx, n, slot, fr2, mx2)
  PROVE  BinsOK(fr2, mx2) /\ Held(fr2) = Held(fr) \cup {n}
<1>0. /\ BinsOK(fr, mx) /\ n \in Nodes \ Held(fr) /\ index[n] >= 1
      /\ slot = IF index[n] < MAX_INDEX THEN index[n] ELSE 0
      /\ fr2 = [fr EXCEPT ![slot] = <<n>> \o @]
      /\ mx2 = IF fr[slot] = << >> /\ slot > mx THEN slot ELSE mx
  BY DEF Pushes
<1>1. /\ fr \in [Slots -> Seq(Nodes)] /\ mx \in Slots
      /\ \A j \in Slots : IsInjective(fr[j]) /\ \A m \in ToSet(fr[j]) : InBin(m, j)
      /\ mx = 0 \/ fr[mx] # << >>
      /\ \A j \in Slots : fr[j] # << >> => j <= mx
  BY <1>0 DEF BinsOK
<1>2. index[n] \in Nat /\ index[n] >= 1
  BY <1>0
<1>3. slot \in Slots /\ slot \in Nat /\ InBin(n, slot)
  BY <1>0, <1>2, SlotFacts DEF InBin
<1>4. fr[slot] \in Seq(Nodes) /\ n \notin ToSet(fr[slot]) /\ IsInjective(fr[slot])
  BY <1>0, <1>1, <1>3, HeldFacts
<1> DEFINE s == <<n>> \o fr[slot]
<1>5. s \in Seq(Nodes) /\ ToSet(s) = ToSet(fr[slot]) \cup {n} /\ IsInjective(s) /\ s # << >>
  BY <1>0, <1>4, PushList, PushFacts
<1>6. fr2 = [fr EXCEPT ![slot] = s]
  BY <1>0
<1> HIDE DEF s
<1>7. fr2 \in [Slots -> Seq(Nodes)] /\ fr2[slot] = s /\ \A j \in Slots \ {slot} : fr2[j] = fr[j]
  BY <1>1, <1>3, <1>5, <1>6
<1>8. ASSUME NEW j \in Slots PROVE IsInjective(fr2[j]) /\ \A m \in ToSet(fr2[j]) : InBin(m, j)
  <2>1. CASE j = slot
    BY <1>1, <1>3, <1>5, <1>7, <2>1
  <2>2. CASE j # slot
    BY <1>1, <1>7, <2>2
  <2> QED BY <2>1, <2>2
<1>9. mx2 \in Slots /\ (mx2 = 0 \/ fr2[mx2] # << >>)
  <2>1. CASE mx2 = slot
    BY <1>3, <1>5, <1>7, <2>1
  <2>2. CASE mx2 # slot
    BY <1>0, <1>1, <1>7, <2>2
  <2> QED BY <2>1, <2>2
<1>10. ASSUME NEW j \in Slots, fr2[j] # << >> PROVE j <= mx2
  <2>1. mx \in Nat /\ slot \in Nat /\ j \in Nat
    BY <1>1, <1>3, SlotFacts
  <2>2. fr[slot] # << >> => slot <= mx
    BY <1>1, <1>3
  <2>3. mx <= mx2 /\ slot <= mx2
    BY <1>0, <2>1, <2>2
  <2>4. CASE j = slot
    BY <2>3, <2>4
  <2>5. CASE j # slot
    <3>1. j <= mx
      BY <1>1, <1>7, <1>10, <2>5
    <3>2. mx2 \in Nat
      BY <1>0, <2>1
    <3> QED BY <2>1, <2>3, <3>1, <3>2
  <2> QED BY <2>4, <2>5
<1>11. Held(fr2) = Held(fr) \cup {n}
  <2>1. ASSUME NEW m PROVE m \in Held(fr2) <=> m \in Held(fr) \cup {n}
    <3>1. m \in Held(fr2) <=> \E j \in Slots : m \in ToSet(fr2[j])
      BY <1>7, HeldFacts
    <3>2. m \in Held(fr) <=> \E j \in Slots : m \in ToSet(fr[j])
      BY <1>1, HeldFacts
    <3>3. ASSUME NEW j \in Slots PROVE m \in ToSet(fr2[j]) => m \in ToSet(fr[j]) \/ m = n
      BY <1>5, <1>7
    <3>4. ASSUME NEW j \in Slots PROVE m \in ToSet(fr[j]) => m \in ToSet(fr2[j])
      BY <1>5, <1>7
    <3>5. n \in ToSet(fr2[slot])
      BY <1>5, <1>7
    <3> QED BY <1>3, <3>1, <3>2, <3>3, <3>4, <3>5
  <2> QED BY <2>1
<1> QED BY <1>7, <1>8, <1>9, <1>10, <1>11 DEF BinsOK

(* and after one was taken out. *)
Pops(fr, mx, j, n, s, fr2, mx2) ==
  /\ BinsOK(fr, mx) /\ j \in Slots /\ n \in ToSet(fr[j])
  /\ s \in Seq(Nodes) /\ IsInjective(s) /\ ToSet(s) = ToSet(fr[j]) \ {n}
  /\ fr2 = [fr EXCEPT ![j] = s]
  /\ mx2 \in Slots /\ (mx2 = 0 \/ fr2[mx2] # << >>)
  /\ \A k \in Slots : fr2[k] # << >> => k <= mx2

LEMMA BinPop ==
  ASSUME index \in [Nodes -> Nat], NEW fr, NEW mx, NEW j, NEW n, NEW s, NEW fr2, NEW mx2,
         Pops(fr, mx, j, n, s, fr2, mx2)
  PROVE  BinsOK(fr2, mx2) /\ Held(fr2) = Held(fr) \ {n} /\ n \in Held(fr)
<1>0. /\ BinsOK(fr, mx) /\ j \in Slots /\ n \in ToSet(fr[j])
      /\ s \in Seq(Nodes) /\ IsInjective(s) /\ ToSet(s) = ToSet(fr[j]) \ {n}
      /\ fr2 = [fr EXCEPT ![j] = s]
      /\ mx2 \in Slots /\ (mx2 = 0 \/ fr2[mx2] # << >>)
      /\ \A k \in Slots : fr2[k] # << >> => k <= mx2
  BY DEF Pops
<1>1. /\ fr \in [Slots -> Seq(Nodes)]
      /\ \A k \in Slots : IsInjective(fr[k]) /\ \A m \in ToSet(fr[k]) : InBin(m, k)
  BY <1>0 DEF BinsOK
<1>2. fr2 \in [Slots -> Seq(Nodes)] /\ fr2[j] = s /\ \A k \in Slots \ {j} : fr2[k] = fr[k]
  BY <1>0, <1>1
<1>3. ASSUME NEW k \in Slots PROVE IsInjective(fr2[k]) /\ \A m \in ToSet(fr2[k]) : InBin(m, k)
  <2>1. CASE k = j
    BY <1>0, <1>1, <1>2, <2>1
  <2>2. CASE k # j
    BY <1>1, <1>2, <2>2
  <2> QED BY <2>1, <2>2
<1>4. n \in Held(fr)
  BY <1>0, <1>1, HeldFacts
<1>5. \A k \in Slots : n \in ToSet(fr[k]) => k = j
  BY <1>0, <1>4, InBinFacts
<1>6. Held(fr2) = Held(fr) \ {n}
  <2>1. ASSUME NEW m PROVE m \in Held(fr2) <=> m \in Held(fr) \ {n}
    <3>1. m \in Held(fr2) <=> \E k \in Slots : m \in ToSet(fr2[k])
      BY <1>2, HeldFacts
    <3>2. m \in Held(fr) <=> \E k \in Slots : m \in ToSet(fr[k])
      BY <1>1, HeldFacts
    <3>3. ASSUME NEW k \in Slots PROVE m \in ToSet(fr2[k]) <=> m \in ToSet(fr[k]) /\ m # n
      <4>1. CASE k = j
        BY <1>0, <1>2, <4>1
      <4>2. CASE k # j
        BY <1>2, <1>5, <4>2
      <4> QED BY <4>1, <4>2
    <3> QED BY <3>1, <3>2, <3>3
  <2> QED BY <2>1
<1> QED BY <1>0, <1>2, <1>3, <1>4, <1>6 DEF BinsOK

(* The allocator after a step that leaves the index of the kept nodes. *)
LEMMA AllocatorStep ==
  ASSUME index' \in [Nodes -> Nat], max_free_index' = max_free_index,
         max_free_index \in 0 .. Word - 1,
         BinsOK(free', max_index'), LimitOK(Held(free'), current_free_index'),
         \A n \in Held(free') : index'[n] = index[n]
  PROVE  Allocator'
<1>1. free' \in [Slots -> Seq(Nodes)]
  BY DEF BinsOK
<1>2. ASSUME NEW j \in Slots, NEW n \in ToSet(free'[j]) PROVE InBin(n, j)'
  <2>1. n \in Held(free')
    BY <1>1, HeldFacts
  <2>2. InBin(n, j) /\ index'[n] = index[n]
    BY <2>1 DEF BinsOK
  <2> QED BY <2>2 DEF InBin
<1>3. BinsOK(free, max_index)'
  BY <1>2 DEF BinsOK
<1>4. Held(free)' = Held(free')
  BY DEF Held
<1>5. Boundaries(Held(free))' = Boundaries(Held(free'))
  BY <1>4 DEF Boundaries
<1>6. LimitOK(Held(free), current_free_index)'
  BY <1>5 DEF LimitOK
<1> QED BY <1>3, <1>6 DEF Allocator

(* What allocator_alloc promises. *)
Allocates(i, n) ==
  /\ Allocator' /\ n \in Nodes /\ index'[n] >= i
  /\ \A m \in Nodes \ {n} : index'[m] = index[m]
  /\ Held(free') = Held(free) \ {n}
  /\ n \in Held(free) \/ index[n] = 0
  /\ max_free_index' = max_free_index

LEMMA Taken ==
  ASSUME Allocator, NEW i \in Nat, NEW j \in Slots, NEW n \in ToSet(free[j]),
         NEW s \in Seq(Nodes), IsInjective(s), ToSet(s) = ToSet(free[j]) \ {n},
         free' = [free EXCEPT ![j] = s],
         max_index' \in Slots, max_index' = 0 \/ free'[max_index'] # << >>,
         \A k \in Slots : free'[k] # << >> => k <= max_index',
         Unretain(n), UNCHANGED <<max_free_index, index>>, index[n] >= i
  PROVE  Allocates(i, n)
<1>0. /\ index \in [Nodes -> Nat] /\ max_free_index \in 0 .. Word - 1
      /\ BinsOK(free, max_index) /\ LimitOK(Held(free), current_free_index)
  BY DEF Allocator
<1>1. BinsOK(free', max_index') /\ Held(free') = Held(free) \ {n} /\ n \in Held(free)
  <2>1. Pops(free, max_index, j, n, s, free', max_index')
    BY <1>0 DEF Pops
  <2> QED BY ONLY <1>0, <2>1, BinPop
<1>2. free \in [Slots -> Seq(Nodes)]
  BY <1>0 DEF BinsOK
<1>3. Held(free) \in SUBSET Nodes /\ IsFiniteSet(Held(free)) /\ n \in Nodes
  BY <1>1, <1>2, HeldFacts
<1>4. LimitOK(Held(free) \ {n}, current_free_index')
  <2> DEFINE cu == current_free_index
             sum == (cu + index[n] + 1) % Word
  <2>1. LimitOK(Held(free) \ {n}, IF sum > max_free_index THEN max_free_index ELSE sum)
    BY <1>0, <1>1, <1>3, LimitDrop
  <2> QED BY <2>1 DEF Unretain
<1>5. Allocator'
  BY <1>0, <1>1, <1>4, AllocatorStep
<1> QED BY <1>1, <1>3, <1>5 DEF Allocates

LEMMA AllocFacts ==
  ASSUME Allocator, NEW i \in Nat, i >= 1, NEW n \in Nodes, allocator_alloc(i, n)
  PROVE  Allocates(i, n)
<1>0. /\ index \in [Nodes -> Nat] /\ max_free_index \in 0 .. Word - 1
      /\ BinsOK(free, max_index) /\ LimitOK(Held(free), current_free_index)
  BY DEF Allocator
<1>1. /\ free \in [Slots -> Seq(Nodes)] /\ max_index \in Slots /\ max_index \in Nat
      /\ \A j \in Slots : IsInjective(free[j]) /\ \A m \in ToSet(free[j]) : InBin(m, j)
      /\ max_index = 0 \/ free[max_index] # << >>
      /\ \A j \in Slots : free[j] # << >> => j <= max_index
  BY <1>0, SlotFacts DEF BinsOK
<1>2. CASE i < MAX_INDEX /\ TakeFromBins(i, n)
  <2> DEFINE j == Min(Hits(i))
             s == Tail(free[j])
  <2>1. j \in Hits(i)
    <3>1. Hits(i) \in SUBSET Nat /\ Hits(i) # {}
      BY <1>2, SlotFacts DEF Hits, TakeFromBins
    <3> QED BY <3>1, MinOf
  <2>2. j \in Slots /\ j \in Nat /\ i <= j /\ free[j] # << >> /\ free[j] \in Seq(Nodes)
    BY <1>1, <2>1, SlotFacts DEF Hits
  <2>3. /\ n = Head(free[j]) /\ free' = [free EXCEPT ![j] = s]
        /\ max_index' = IF s = << >> /\ j >= max_index THEN NextMax(max_index) ELSE max_index
        /\ Unretain(n) /\ UNCHANGED <<max_free_index, index>>
    BY <1>2 DEF TakeFromBins
  <2> HIDE DEF j
  <2>4. /\ s \in Seq(Nodes) /\ IsInjective(s) /\ n \in ToSet(free[j])
        /\ ToSet(s) = ToSet(free[j]) \ {n}
    BY <1>1, <2>2, <2>3, PopList
  <2> HIDE DEF s
  <2>5. index[n] = j
    <3>1. InBin(n, j) /\ j # 0
      BY <1>1, <2>2, <2>4
    <3> QED BY <3>1 DEF InBin
  <2>6. free'[j] = s /\ \A k \in Slots \ {j} : free'[k] = free[k]
    BY <1>1, <2>2, <2>3
  <2>7. j <= max_index
    BY <1>1, <2>2
  <2>8. /\ max_index' \in Slots /\ (max_index' = 0 \/ free'[max_index'] # << >>)
        /\ \A k \in Slots : free'[k] # << >> => k <= max_index'
    <3>1. CASE s = << >> /\ j >= max_index
      <4>1. j = max_index /\ max_index' = NextMax(j)
        BY <1>1, <2>2, <2>3, <2>7, <3>1
      <4> DEFINE T == {k \in 0 .. j - 1 : k = 0 \/ free[k] # << >>}
      <4>2. T \in SUBSET Nat /\ 0 \in T /\ \A k \in T : k <= j
        BY <2>2
      <4>3. Max(T) \in T /\ \A k \in T : k <= Max(T)
        BY <2>2, <4>2, MaxOf
      <4>4. NextMax(j) = Max(T)
        BY DEF NextMax
      <4> DEFINE m == Max(T)
      <4>5. m \in 0 .. j - 1 /\ (m = 0 \/ free[m] # << >>) /\ max_index' = m
        BY <4>1, <4>3, <4>4
      <4>6. m \in Slots /\ m # j /\ m \in Nat
        BY <2>2, <4>5, SlotFacts
      <4>7. ASSUME NEW k \in Slots, free'[k] # << >> PROVE k <= m
        <5>1. k # j /\ free[k] # << >>
          BY <2>6, <3>1, <4>7
        <5>2. k <= j /\ k \in Nat
          BY <1>1, <4>1, <5>1, SlotFacts
        <5>3. k \in T
          BY <2>2, <5>1, <5>2
        <5> QED BY <4>3, <5>3
      <4> HIDE DEF m, T
      <4> QED BY <2>6, <4>5, <4>6, <4>7
    <3>2. CASE ~(s = << >> /\ j >= max_index)
      <4>1. max_index' = max_index
        BY <2>3, <3>2
      <4>2. max_index = 0 \/ free'[max_index] # << >>
        <5>1. CASE j = max_index
          BY <1>1, <2>2, <2>6, <3>2, <5>1
        <5>2. CASE j # max_index
          BY <1>1, <2>6, <5>2
        <5> QED BY <5>1, <5>2
      <4>3. \A k \in Slots : free'[k] # << >> => k <= max_index
        BY <1>1, <2>6, <2>7
      <4> QED BY <1>1, <4>1, <4>2, <4>3
    <3> QED BY <3>1, <3>2
  <2> QED BY <2>2, <2>3, <2>4, <2>5, <2>8, Taken
<1>3. CASE TakeFromSink(i, n)
  <2> DEFINE k == Min(SinkHits(i))
             s == RemoveAt(free[0], k)
  <2>1. free[0] \in Seq(Nodes) /\ IsInjective(free[0]) /\ 0 \in Slots
    BY <1>1, SlotFacts
  <2>2. k \in SinkHits(i)
    <3>1. SinkHits(i) \in SUBSET Nat /\ SinkHits(i) # {}
      BY <1>3, <2>1 DEF SinkHits, TakeFromSink
    <3> QED BY <3>1, MinOf
  <2>3. k \in 1 .. Len(free[0]) /\ i <= index[free[0][k]]
    BY <2>2 DEF SinkHits
  <2>4. /\ n = free[0][k] /\ free' = [free EXCEPT ![0] = s]
        /\ Unretain(n) /\ UNCHANGED <<max_index, max_free_index, index>>
    BY <1>3 DEF TakeFromSink
  <2> HIDE DEF k
  <2>5. s \in Seq(Nodes) /\ IsInjective(s) /\ ToSet(s) = ToSet(free[0]) \ {n} /\ n \in ToSet(free[0])
    BY <2>1, <2>3, <2>4, RemoveAtList
  <2> HIDE DEF s
  <2>6. free'[0] = s /\ \A m \in Slots \ {0} : free'[m] = free[m]
    BY <1>1, <2>1, <2>4
  <2>7. /\ max_index' \in Slots /\ (max_index' = 0 \/ free'[max_index'] # << >>)
        /\ \A m \in Slots : free'[m] # << >> => m <= max_index'
    <3>1. max_index' \in Slots /\ (max_index' = 0 \/ free'[max_index'] # << >>)
      BY <1>1, <2>4, <2>6
    <3>2. ASSUME NEW m \in Slots, free'[m] # << >> PROVE m <= max_index
      BY <1>1, <2>6, <3>2, SlotFacts
    <3> QED BY <2>4, <3>1, <3>2
  <2>8. index[n] >= i
    BY <1>0, <2>3, <2>4
  <2> QED BY <2>1, <2>4, <2>5, <2>7, <2>8, Taken
<1>4. CASE TakeFromSystem(i, n)
  <2>1. /\ index[n] = 0 /\ index' = [index EXCEPT ![n] = i]
        /\ UNCHANGED <<free, max_index, current_free_index, max_free_index>>
    BY <1>4 DEF TakeFromSystem, bins
  <2>2. n \notin Held(free)
    BY <1>0, <2>1, InBinFacts
  <2>3. /\ index' \in [Nodes -> Nat] /\ index'[n] = i
        /\ \A m \in Nodes \ {n} : index'[m] = index[m]
    BY <1>0, <2>1
  <2>4. Held(free') = Held(free) /\ Held(free) \subseteq Nodes
    BY <1>1, <2>1, HeldFacts
  <2>5. \A m \in Held(free') : index'[m] = index[m]
    BY <2>2, <2>3, <2>4
  <2>6. BinsOK(free', max_index') /\ LimitOK(Held(free'), current_free_index')
    BY <1>0, <2>1
  <2>7. Allocator'
    BY <1>0, <2>1, <2>3, <2>5, <2>6, AllocatorStep
  <2> QED BY <2>1, <2>2, <2>3, <2>4, <2>7 DEF Allocates
<1> QED BY <1>2, <1>3, <1>4 DEF allocator_alloc, Looks

(* The loop of allocator_free: the recursive function exists. *)
LEMMA TurnsDef ==
  ASSUME NEW nodes \in Seq(Nodes)
  PROVE  /\ Turns(nodes)[0] =
              [free |-> free, max |-> max_index, cur |-> current_free_index, out |-> {}]
         /\ \A k \in 1 .. Len(nodes) : Turns(nodes)[k] = FreeNode(Turns(nodes)[k - 1], nodes[k])
<1> DEFINE N == Len(nodes)
           st == [free |-> free, max |-> max_index, cur |-> current_free_index, out |-> {}]
           Turn(f, k) == IF k = 0 THEN st ELSE FreeNode(f[k - 1], nodes[k])
           Upto(f, m) == f = [k \in 0 .. m |-> Turn(f, k)]
           Bad == {m \in Nat : ~\E f : Upto(f, m)}
<1>1. N \in Nat
  OBVIOUS
<1>2. Turns(nodes) = CHOOSE f : Upto(f, N)
  BY Zenon DEF Turns
<1> HIDE DEF st, N
<1>3. Bad = {}
  <2> SUFFICES ASSUME Bad # {} PROVE FALSE
    OBVIOUS
  <2>1. Bad \in SUBSET Nat
    OBVIOUS
  <2>2. PICK m \in Bad : \A k \in Bad : m <= k
    <3> HIDE DEF Bad
    <3> QED BY <2>1, LeastNat
  <2>3. m \in Nat /\ ~\E f : Upto(f, m)
    BY <2>2
  <2>4. CASE m = 0
    <3> DEFINE f == [k \in 0 .. 0 |-> st]
    <3>1. f = [k \in 0 .. 0 |-> Turn(f, k)]
      OBVIOUS
    <3> QED BY <2>3, <2>4, <3>1
  <2>5. CASE m # 0
    <3>1. m - 1 \in Nat /\ m - 1 \notin Bad
      <4> HIDE DEF Bad
      <4> QED BY <2>2, <2>3, <2>5
    <3>2. PICK f : Upto(f, m - 1)
      BY <3>1
    <3> DEFINE g == [k \in 0 .. m |-> IF k = m THEN FreeNode(f[m - 1], nodes[m]) ELSE f[k]]
    <3>3. ASSUME NEW k \in 0 .. m PROVE g[k] = Turn(g, k)
      <4>1. CASE k = m
        <5>1. m - 1 \in 0 .. m /\ m - 1 # m
          BY <2>3, <2>5
        <5>2. g[m - 1] = f[m - 1] /\ g[m] = FreeNode(f[m - 1], nodes[m])
          BY <2>3, <5>1
        <5> QED BY <2>5, <4>1, <5>2
      <4>2. CASE k # m
        <5>1. k \in 0 .. m - 1
          BY <2>3, <4>2
        <5>2. f[k] = Turn(f, k)
          BY <3>2, <5>1
        <5>3. CASE k = 0
          BY <4>2, <5>2, <5>3
        <5>4. CASE k # 0
          <6>1. k - 1 \in 0 .. m /\ k - 1 # m
            BY <2>3, <5>1, <5>4
          <6>2. g[k - 1] = f[k - 1]
            BY <6>1
          <6> QED BY <4>2, <5>2, <5>4, <6>2
        <5> QED BY <5>3, <5>4
      <4> QED BY <4>1, <4>2
    <3>4. DOMAIN g = 0 .. m /\ g = [k \in 0 .. m |-> g[k]]
      OBVIOUS
    <3> HIDE DEF g, Turn
    <3>5. g = [k \in 0 .. m |-> Turn(g, k)]
      BY <3>3, <3>4
    <3> QED BY <2>3, <3>5
  <2> QED BY <2>4, <2>5
<1>4. \E f : Upto(f, N)
  BY <1>1, <1>3
<1>5. Upto(Turns(nodes), N)
  <2> HIDE DEF Upto
  <2> QED BY <1>2, <1>4, Zenon
<1> DEFINE T == Turns(nodes)
<1>6. \A k \in 0 .. N : T[k] = Turn(T, k)
  <2>1. T = [k \in 0 .. N |-> Turn(T, k)]
    BY <1>5
  <2> HIDE DEF T, Turn
  <2> QED BY <2>1
<1>7. T[0] = st
  BY <1>1, <1>6
<1>8. ASSUME NEW k \in 1 .. N PROVE T[k] = FreeNode(T[k - 1], nodes[k])
  <2>1. k \in 0 .. N /\ k # 0
    BY <1>1
  <2> QED BY <1>6, <2>1
<1> QED BY <1>7, <1>8 DEF st, N

Accs == [free : [Slots -> Seq(Nodes)], max : Slots, cur : Nat, out : SUBSET Nodes]

(* The bins, in the middle of the loop. *)
TurnOK(acc) ==
  acc \in Accs /\ BinsOK(acc.free, acc.max) /\ LimitOK(Held(acc.free), acc.cur)

LEMMA TurnStep ==
  ASSUME index \in [Nodes -> Nat], max_free_index \in 0 .. Word - 1, NEW acc, TurnOK(acc),
         NEW n \in Nodes \ Held(acc.free), index[n] >= 1
  PROVE  LET b == FreeNode(acc, n)
         IN  /\ TurnOK(b)
             /\ \/ b.out = acc.out \cup {n} /\ Held(b.free) = Held(acc.free)
                \/ b.out = acc.out /\ Held(b.free) = Held(acc.free) \cup {n}
<1> DEFINE b == FreeNode(acc, n)
           i == index[n]
           slot == IF i < MAX_INDEX THEN i ELSE 0
<1>0. acc \in Accs /\ BinsOK(acc.free, acc.max) /\ LimitOK(Held(acc.free), acc.cur)
  BY DEF TurnOK
<1>1. /\ acc.free \in [Slots -> Seq(Nodes)] /\ acc.max \in Slots /\ acc.cur \in Nat
      /\ acc.out \in SUBSET Nodes
      /\ acc = [free |-> acc.free, max |-> acc.max, cur |-> acc.cur, out |-> acc.out]
  BY <1>0 DEF Accs
<1>2. i \in Nat /\ slot \in Slots
  BY SlotFacts
<1>3. CASE max_free_index # 0 /\ i + 1 > acc.cur
  <2>1. b = [acc EXCEPT !.out = @ \cup {n}]
    BY <1>3 DEF FreeNode
  <2>2. /\ b.free = acc.free /\ b.max = acc.max /\ b.cur = acc.cur /\ b.out = acc.out \cup {n}
        /\ b \in Accs
    BY <1>0, <2>1 DEF Accs
  <2> QED BY <1>0, <2>2 DEF TurnOK
<1>4. CASE ~(max_free_index # 0 /\ i + 1 > acc.cur)
  <2> DEFINE fr == [acc.free EXCEPT ![slot] = <<n>> \o @]
             mx == IF acc.free[slot] = << >> /\ slot > acc.max THEN slot ELSE acc.max
             cu == IF acc.cur >= i + 1 THEN acc.cur - (i + 1) ELSE 0
  <2>1. b = [acc EXCEPT !.free[slot] = <<n>> \o @,
                        !.max = IF acc.free[slot] = << >> /\ slot > @ THEN slot ELSE @,
                        !.cur = IF @ >= i + 1 THEN @ - (i + 1) ELSE 0]
    BY <1>4, Zenon DEF FreeNode
  <2>2. b = [free |-> fr, max |-> mx, cur |-> cu, out |-> acc.out]
    BY <1>0, <2>1 DEF Accs
  <2>3. b.free = fr /\ b.max = mx /\ b.cur = cu /\ b.out = acc.out
    BY <2>2
  <2>4. BinsOK(fr, mx) /\ Held(fr) = Held(acc.free) \cup {n}
    <3>1. Pushes(acc.free, acc.max, n, slot, fr, mx)
      BY <1>0 DEF Pushes
    <3> HIDE DEF b, fr, mx, slot
    <3> QED BY ONLY index \in [Nodes -> Nat], <3>1, BinPush
  <2>5. Held(acc.free) \in SUBSET Nodes /\ IsFiniteSet(Held(acc.free))
    BY <1>1, HeldFacts
  <2>6. LimitOK(Held(acc.free) \cup {n}, cu)
    <3> HIDE DEF b
    <3> QED BY <1>0, <1>4, <2>5, LimitAdd
  <2>7. cu \in Nat
    BY <1>1, <1>2
  <2>8. fr \in [Slots -> Seq(Nodes)] /\ mx \in Slots
    BY <2>4 DEF BinsOK
  <2> HIDE DEF b, fr, mx, cu
  <2>9. b \in Accs
    BY <1>1, <2>2, <2>7, <2>8 DEF Accs
  <2>10. TurnOK(b)
    BY <2>3, <2>4, <2>6, <2>9 DEF TurnOK
  <2>11. b.out = acc.out /\ Held(b.free) = Held(acc.free) \cup {n}
    BY <2>3, <2>4
  <2> QED BY <2>10, <2>11 DEF b
<1> QED BY <1>3, <1>4

(* After each turn a node is in the bins or goes back to the system. *)
TurnInv(nodes, k, acc) ==
  /\ TurnOK(acc) /\ acc.out \subseteq {nodes[i] : i \in 1 .. k}
  /\ Held(acc.free) = Held(free) \cup ({nodes[i] : i \in 1 .. k} \ acc.out)

(* A chain of nodes that may be given to allocator_free. *)
Chain(nodes) ==
  /\ nodes \in Seq(Nodes) /\ IsInjective(nodes)
  /\ \A n \in ToSet(nodes) : index[n] >= 1 /\ n \notin Held(free)

LEMMA TurnsInv ==
  ASSUME Allocator, NEW nodes, Chain(nodes)
  PROVE  TurnInv(nodes, Len(nodes), Turns(nodes)[Len(nodes)])
<1> DEFINE T == Turns(nodes)
           N == Len(nodes)
           Bad == {k \in Nat : k <= N /\ ~TurnInv(nodes, k, T[k])}
<1>0. /\ index \in [Nodes -> Nat] /\ max_free_index \in 0 .. Word - 1
      /\ BinsOK(free, max_index) /\ LimitOK(Held(free), current_free_index)
  BY DEF Allocator
<1>1. /\ nodes \in Seq(Nodes) /\ IsInjective(nodes) /\ N \in Nat /\ DOMAIN nodes = 1 .. N
      /\ \A i \in 1 .. N : nodes[i] \in Nodes /\ index[nodes[i]] >= 1 /\ nodes[i] \notin Held(free)
  BY ToSetDef DEF Chain
<1>2. /\ T[0] = [free |-> free, max |-> max_index, cur |-> current_free_index, out |-> {}]
      /\ \A k \in 1 .. N : T[k] = FreeNode(T[k - 1], nodes[k])
  BY <1>1, TurnsDef
<1> HIDE DEF T, N
<1>3. Bad = {}
  <2> SUFFICES ASSUME Bad # {} PROVE FALSE
    OBVIOUS
  <2>1. Bad \in SUBSET Nat
    OBVIOUS
  <2>2. PICK m \in Bad : \A k \in Bad : m <= k
    <3> HIDE DEF Bad
    <3> QED BY <2>1, LeastNat
  <2>3. m \in Nat /\ m <= N /\ ~TurnInv(nodes, m, T[m])
    BY <2>2
  <2>4. CASE m = 0
    <3> DEFINE a == T[0]
    <3>1. a.free = free /\ a.max = max_index /\ a.cur = current_free_index /\ a.out = {}
      BY <1>2
    <3>2. a \in Accs
      <4>1. /\ free \in [Slots -> Seq(Nodes)] /\ max_index \in Slots
            /\ current_free_index \in Nat /\ {} \in SUBSET Nodes
        BY <1>0 DEF BinsOK, LimitOK
      <4> QED BY <1>2, <4>1 DEF Accs
    <3> HIDE DEF a
    <3>3. TurnOK(a)
      BY <1>0, <3>1, <3>2 DEF TurnOK
    <3>4. {nodes[i] : i \in 1 .. 0} = {}
      OBVIOUS
    <3>5. TurnInv(nodes, 0, a)
      BY <3>1, <3>3, <3>4 DEF TurnInv
    <3> QED BY <2>3, <2>4, <3>5 DEF a
  <2>5. CASE m # 0
    <3> DEFINE a == T[m - 1]
               n == nodes[m]
               b == T[m]
               U == {nodes[i] : i \in 1 .. m - 1}
               V == {nodes[i] : i \in 1 .. m}
    <3>1. m - 1 \in Nat /\ m - 1 <= N /\ m \in 1 .. N /\ m - 1 \notin Bad
      <4> HIDE DEF Bad
      <4> QED BY <1>1, <2>2, <2>3, <2>5
    <3>2. TurnInv(nodes, m - 1, a)
      BY <3>1
    <3>3. /\ TurnOK(a) /\ a.out \subseteq U
          /\ Held(a.free) = Held(free) \cup (U \ a.out)
      BY <3>2 DEF TurnInv
    <3>4. b = FreeNode(a, n)
      BY <1>2, <3>1
    <3>5. n \notin U /\ V = U \cup {n}
      <4>1. \A i \in 1 .. m - 1 : i \in 1 .. N /\ i # m /\ i \in 1 .. m
        BY <1>1, <3>1
      <4>2. \A i \in 1 .. m : i \in 1 .. m - 1 \/ i = m
        BY <3>1
      <4>3. n \notin U
        BY <1>1, <3>1, <4>1 DEF IsInjective
      <4> QED BY <3>1, <4>1, <4>2, <4>3
    <3>6. n \in Nodes /\ index[n] >= 1 /\ n \notin Held(free)
      BY <1>1, <3>1
    <3> HIDE DEF a, b, n, U, V
    <3>7. n \in Nodes \ Held(a.free)
      BY <3>3, <3>5, <3>6
    <3>8. /\ TurnOK(b)
          /\ \/ b.out = a.out \cup {n} /\ Held(b.free) = Held(a.free)
             \/ b.out = a.out /\ Held(b.free) = Held(a.free) \cup {n}
      BY <1>0, <3>3, <3>4, <3>6, <3>7, TurnStep
    <3>9. b.out \subseteq V /\ Held(b.free) = Held(free) \cup (V \ b.out)
      BY <3>3, <3>5, <3>6, <3>8
    <3>10. TurnInv(nodes, m, b)
      BY <3>8, <3>9 DEF TurnInv, V
    <3> QED BY <2>3, <3>10 DEF b
  <2> QED BY <2>4, <2>5
<1>4. TurnInv(nodes, N, T[N])
  BY <1>1, <1>3
<1> QED BY <1>4 DEF T, N

(* What allocator_free promises. *)
Frees(S) ==
  /\ Allocator' /\ max_free_index' = max_free_index
  /\ \E out \in SUBSET S :
       /\ Held(free') = Held(free) \cup (S \ out)
       /\ \A n \in Nodes : index'[n] = IF n \in out THEN 0 ELSE index[n]

LEMMA FreeFacts ==
  ASSUME Allocator, NEW nodes, Chain(nodes), allocator_free(nodes)
  PROVE  Frees(ToSet(nodes))
<1> DEFINE end == Turns(nodes)[Len(nodes)]
<1>0. /\ index \in [Nodes -> Nat] /\ max_free_index \in 0 .. Word - 1
      /\ BinsOK(free, max_index)
  BY DEF Allocator
<1>1. TurnInv(nodes, Len(nodes), end)
  BY TurnsInv
<1>2. /\ free' = end.free /\ max_index' = end.max /\ current_free_index' = end.cur
      /\ index' = [n \in Nodes |-> IF n \in end.out THEN 0 ELSE index[n]]
      /\ max_free_index' = max_free_index
  BY DEF allocator_free
<1>3. ToSet(nodes) = {nodes[i] : i \in 1 .. Len(nodes)} /\ ToSet(nodes) \subseteq Nodes
  BY ToSetDef DEF Chain
<1> HIDE DEF end
<1>4. /\ TurnOK(end) /\ end.out \subseteq ToSet(nodes)
      /\ Held(free') = Held(free) \cup (ToSet(nodes) \ end.out)
  BY <1>1, <1>2, <1>3 DEF TurnInv
<1>5. BinsOK(free', max_index') /\ LimitOK(Held(free'), current_free_index')
  BY <1>2, <1>4 DEF TurnOK
<1>6. \A n \in Nodes : index'[n] = IF n \in end.out THEN 0 ELSE index[n]
  BY <1>2
<1>7. index' \in [Nodes -> Nat]
  BY <1>0, <1>2
<1>8. \A n \in Held(free') : n \in Nodes /\ n \notin end.out
  <2>1. Held(free) \subseteq Nodes /\ \A n \in ToSet(nodes) : n \notin Held(free)
    BY <1>0, HeldFacts DEF BinsOK, Chain
  <2> QED BY <1>3, <1>4, <2>1
<1>9. Allocator'
  <2>1. \A n \in Held(free') : index'[n] = index[n]
    BY <1>6, <1>8
  <2> QED BY <1>0, <1>2, <1>5, <1>7, <2>1, AllocatorStep
<1> QED BY <1>2, <1>4, <1>6, <1>9 DEF Frees

-----------------------------------------------------------------------------
(* The rings. *)

LEMMA SubSeqList ==
  ASSUME NEW S, NEW s \in Seq(S), NEW a \in Nat, NEW b \in Nat,
         1 <= a, a <= b + 1, b <= Len(s)
  PROVE  /\ SubSeq(s, a, b) \in Seq(S) /\ Len(SubSeq(s, a, b)) = b - a + 1
         /\ \A i \in 1 .. b - a + 1 : SubSeq(s, a, b)[i] = s[a + i - 1]
         /\ ToSet(SubSeq(s, a, b)) = {s[k] : k \in a .. b}
         /\ IsInjective(s) => IsInjective(SubSeq(s, a, b))
<1> DEFINE u == SubSeq(s, a, b)
           m == b - a + 1
<1>0. Len(s) \in Nat /\ DOMAIN s = 1 .. Len(s) /\ m \in Nat
  OBVIOUS
<1>1. u \in Seq(S) /\ Len(u) = m /\ DOMAIN u = 1 .. m
  <2>1. u \in Seq(S)
    BY <1>0
  <2>2. DOMAIN u = 1 .. m
    BY <1>0
  <2> QED BY <1>0, <2>1, <2>2
<1>2. \A i \in 1 .. m : u[i] = s[a + i - 1]
  BY <1>0
<1> HIDE DEF u
<1>3. ASSUME NEW i \in 1 .. m PROVE a + i - 1 \in a .. b /\ a + i - 1 \in 1 .. Len(s)
  BY <1>0
<1>4. ASSUME NEW k \in a .. b PROVE k - a + 1 \in 1 .. m /\ a + (k - a + 1) - 1 = k
  BY <1>0
<1>5. ToSet(u) = {s[k] : k \in a .. b}
  <2>1. \A x \in ToSet(u) : x \in {s[k] : k \in a .. b}
    BY <1>1, <1>2, <1>3 DEF ToSet
  <2>2. ASSUME NEW k \in a .. b PROVE s[k] \in ToSet(u)
    <3>1. u[k - a + 1] = s[k]
      BY <1>2, <1>4
    <3> QED BY <1>1, <1>4, <3>1 DEF ToSet
  <2> QED BY <2>1, <2>2
<1>6. ASSUME IsInjective(s) PROVE IsInjective(u)
  <2> SUFFICES ASSUME NEW i \in 1 .. m, NEW j \in 1 .. m, u[i] = u[j] PROVE i = j
    BY <1>1 DEF IsInjective
  <2>1. s[a + i - 1] = s[a + j - 1]
    BY <1>2
  <2>2. a + i - 1 = a + j - 1
    BY <1>0, <1>3, <1>6, <2>1 DEF IsInjective
  <2> QED BY <1>0, <2>2
<1> QED BY <1>1, <1>2, <1>5, <1>6 DEF u

(* A ring from its i-th node on, *)
LEMMA RotateList ==
  ASSUME NEW S, NEW s \in Seq(S), IsInjective(s), NEW i \in 1 .. Len(s)
  PROVE  LET r == SubSeq(s, i, Len(s)) \o SubSeq(s, 1, i - 1)
         IN  /\ r \in Seq(S) /\ IsInjective(r) /\ ToSet(r) = ToSet(s)
             /\ r # << >> /\ Head(r) = s[i]
<1> DEFINE a == SubSeq(s, i, Len(s))
           b == SubSeq(s, 1, i - 1)
           r == a \o b
<1>0. Len(s) \in Nat /\ i \in Nat /\ i - 1 \in Nat /\ 1 <= i /\ i <= Len(s) /\ DOMAIN s = 1 .. Len(s)
      /\ 1 <= i - 1 + 1 /\ i - 1 <= Len(s) /\ i <= Len(s) + 1
  OBVIOUS
<1>1. /\ a \in Seq(S) /\ Len(a) = Len(s) - i + 1 /\ a[1] = s[i]
      /\ ToSet(a) = {s[k] : k \in i .. Len(s)} /\ IsInjective(a)
  <2>1. /\ a \in Seq(S) /\ Len(a) = Len(s) - i + 1
        /\ \A j \in 1 .. Len(s) - i + 1 : a[j] = s[i + j - 1]
        /\ ToSet(a) = {s[k] : k \in i .. Len(s)} /\ IsInjective(a)
    BY <1>0, SubSeqList
  <2>2. 1 \in 1 .. Len(s) - i + 1 /\ i + 1 - 1 = i
    BY <1>0
  <2> QED BY <2>1, <2>2
<1>2. b \in Seq(S) /\ ToSet(b) = {s[k] : k \in 1 .. i - 1} /\ IsInjective(b)
  BY <1>0, SubSeqList
<1> HIDE DEF a, b
<1>3. ToSet(a) \cap ToSet(b) = {}
  <2>1. \A k \in i .. Len(s) : \A l \in 1 .. i - 1 : s[k] # s[l]
    BY <1>0 DEF IsInjective
  <2> QED BY <1>1, <1>2, <2>1
<1>4. ToSet(a) \cup ToSet(b) = ToSet(s)
  <2>1. \A k \in 1 .. Len(s) : k \in i .. Len(s) \/ k \in 1 .. i - 1
    BY <1>0
  <2>2. \A k \in i .. Len(s) : k \in 1 .. Len(s)
    BY <1>0
  <2>3. \A k \in 1 .. i - 1 : k \in 1 .. Len(s)
    BY <1>0
  <2>4. ToSet(s) = {s[k] : k \in 1 .. Len(s)}
    BY ToSetDef
  <2> QED BY <1>1, <1>2, <2>1, <2>2, <2>3, <2>4
<1>5. r \in Seq(S) /\ ToSet(r) = ToSet(s) /\ IsInjective(r)
  <2>1. r \in Seq(S)
    BY <1>1, <1>2
  <2>2. a \in Seq(S) /\ b \in Seq(S) /\ IsInjective(a) /\ IsInjective(b)
    BY <1>1, <1>2
  <2>3. ToSet(r) = ToSet(a) \cup ToSet(b)
    BY ONLY <2>2, ConcatList DEF r
  <2>4. IsInjective(r)
    BY ONLY <1>3, <2>2, ConcatList DEF r
  <2> QED BY <1>4, <2>1, <2>3, <2>4
<1>6. r # << >> /\ Head(r) = s[i]
  <2>1. Len(a) \in Nat /\ Len(a) >= 1 /\ Len(b) \in Nat
    BY <1>0, <1>1, <1>2
  <2>2. Len(r) = Len(a) + Len(b) /\ 1 \in 1 .. Len(a)
    BY <1>1, <1>2, <2>1
  <2>3. r[1] = a[1]
    BY <1>1, <1>2, <2>1, <2>2
  <2> HIDE DEF r
  <2>4. r # << >>
    BY <1>5, <2>1, <2>2
  <2> QED BY <1>1, <1>5, <2>3, <2>4
<1> QED BY <1>5, <1>6 DEF a, b

(* and a list with an entry put at the place at. *)
LEMMA InsertList ==
  ASSUME NEW S, NEW s \in Seq(S), IsInjective(s), NEW x \in S \ ToSet(s),
         NEW at \in 1 .. Len(s) + 1
  PROVE  LET r == InsertAt(s, at, x)
         IN  /\ r \in Seq(S) /\ IsInjective(r) /\ ToSet(r) = ToSet(s) \cup {x}
             /\ Len(r) = Len(s) + 1 /\ r[at] = x
             /\ \A k \in 1 .. at - 1 : r[k] = s[k]
             /\ \A k \in at + 1 .. Len(s) + 1 : r[k] = s[k - 1]
<1> DEFINE m == at - 1
           a == SubSeq(s, 1, m)
           b == SubSeq(s, at, Len(s))
           e == <<x>>
           c == a \o e
           r == c \o b
<1>0. /\ Len(s) \in Nat /\ at \in Nat /\ at - 1 \in Nat /\ 1 <= at /\ at <= Len(s) + 1
      /\ DOMAIN s = 1 .. Len(s) /\ m \in Nat /\ 1 <= m + 1 /\ m <= Len(s)
  OBVIOUS
<1>1. /\ a \in Seq(S) /\ Len(a) = m - 1 + 1 /\ ToSet(a) = {s[k] : k \in 1 .. m}
      /\ IsInjective(a) /\ \A i \in 1 .. m - 1 + 1 : a[i] = s[1 + i - 1]
  <2> DEFINE o == 1
  <2>1. o \in Nat /\ o <= o /\ o <= m + 1 /\ 1 <= o
    BY <1>0
  <2> HIDE DEF m, o
  <2>2. /\ SubSeq(s, o, m) \in Seq(S) /\ Len(SubSeq(s, o, m)) = m - o + 1
        /\ ToSet(SubSeq(s, o, m)) = {s[k] : k \in o .. m} /\ IsInjective(SubSeq(s, o, m))
        /\ \A i \in 1 .. m - o + 1 : SubSeq(s, o, m)[i] = s[o + i - 1]
    BY <1>0, <2>1, SubSeqList
  <2> QED BY <2>2 DEF o
<1>2. /\ b \in Seq(S) /\ Len(b) = Len(s) - at + 1 /\ ToSet(b) = {s[k] : k \in at .. Len(s)}
      /\ IsInjective(b) /\ \A i \in 1 .. Len(s) - at + 1 : b[i] = s[at + i - 1]
  BY <1>0, SubSeqList
<1>3. InsertAt(s, at, x) = r
  BY DEF InsertAt
<1> HIDE DEF a, b
<1>4. Len(a) = at - 1 /\ \A i \in 1 .. at - 1 : a[i] = s[i]
  BY <1>0, <1>1
<1>5. ToSet(a) \cup ToSet(b) = ToSet(s) /\ ToSet(a) \cap ToSet(b) = {}
  <2>1. \A k \in at .. Len(s) : \A l \in 1 .. at - 1 : s[k] # s[l]
    BY <1>0 DEF IsInjective
  <2>2. \A k \in 1 .. Len(s) : k \in at .. Len(s) \/ k \in 1 .. at - 1
    BY <1>0
  <2>3. \A k \in at .. Len(s) : k \in 1 .. Len(s)
    BY <1>0
  <2>4. \A k \in 1 .. at - 1 : k \in 1 .. Len(s)
    BY <1>0
  <2>5. ToSet(s) = {s[k] : k \in 1 .. Len(s)}
    BY ToSetDef
  <2>6. ToSet(a) \cup ToSet(b) = ToSet(s)
    BY <1>1, <1>2, <2>2, <2>3, <2>4, <2>5
  <2>7. ToSet(a) \cap ToSet(b) = {}
    BY <1>1, <1>2, <2>1
  <2> QED BY <2>6, <2>7
<1>6. e \in Seq(S) /\ ToSet(e) = {x} /\ IsInjective(e) /\ Len(e) = 1 /\ e[1] = x
  BY OneList
<1> HIDE DEF e
<1>7. c \in Seq(S) /\ ToSet(c) = ToSet(a) \cup {x} /\ IsInjective(c)
  <2>1. ToSet(a) \cap ToSet(e) = {}
    BY <1>5, <1>6
  <2>2. c \in Seq(S)
    BY <1>1, <1>6
  <2> QED BY <1>1, <1>6, <2>1, <2>2, ConcatList
<1>8. /\ Len(c) = at /\ c[at] = x
      /\ \A i \in 1 .. at - 1 : c[i] = s[i]
  <2>1. a \in Seq(S) /\ e \in Seq(S) /\ Len(a) \in Nat
    BY <1>1, <1>6
  <2>2. Len(c) = Len(a) + Len(e) /\ \A i \in 1 .. Len(a) : c[i] = a[i]
    BY <2>1
  <2>3. c[Len(a) + 1] = e[1]
    <3>1. \A i \in Len(a) + 1 .. Len(a) + Len(e) : c[i] = e[i - Len(a)]
      BY <2>1
    <3>2. Len(a) + 1 \in Len(a) + 1 .. Len(a) + Len(e) /\ (Len(a) + 1) - Len(a) = 1
      BY <1>6, <2>1
    <3> QED BY <3>1, <3>2
  <2>4. Len(a) + 1 = at /\ Len(a) + Len(e) = at
    BY <1>0, <1>4, <1>6
  <2> QED BY <1>4, <1>6, <2>2, <2>3, <2>4
<1> HIDE DEF c
<1>9. r \in Seq(S) /\ ToSet(r) = ToSet(s) \cup {x} /\ IsInjective(r)
  <2>1. ToSet(c) \cap ToSet(b) = {} /\ ToSet(c) \cup ToSet(b) = ToSet(s) \cup {x}
    BY <1>5, <1>7
  <2>2. r \in Seq(S)
    BY <1>2, <1>7
  <2>3. b \in Seq(S) /\ IsInjective(b) /\ c \in Seq(S) /\ IsInjective(c)
    BY <1>2, <1>7
  <2>4. ToSet(r) = ToSet(c) \cup ToSet(b)
    BY <2>3, ConcatList
  <2>5. IsInjective(r)
    BY <2>1, <2>3, ConcatList
  <2> QED BY <2>1, <2>2, <2>4, <2>5
<1>10. Len(r) = Len(s) + 1
  <2>0. c \in Seq(S) /\ b \in Seq(S)
    BY <1>2, <1>7
  <2>1. Len(r) = Len(c) + Len(b)
    BY <2>0
  <2> QED BY <1>0, <1>2, <1>8, <2>1
<1>11. \A i \in 1 .. at : r[i] = c[i]
  BY <1>0, <1>2, <1>7, <1>8
<1>12. ASSUME NEW k \in at + 1 .. Len(s) + 1 PROVE r[k] = s[k - 1]
  <2>1. k - at \in 1 .. Len(s) - at + 1 /\ at + (k - at) - 1 = k - 1
    BY <1>0
  <2>2. r[k] = b[k - at]
    BY <1>0, <1>2, <1>7, <1>8
  <2> QED BY <1>2, <2>1, <2>2
<1> HIDE DEF r
<1>13. r[at] = x /\ \A k \in 1 .. at - 1 : r[k] = s[k]
  BY <1>0, <1>8, <1>11
<1> QED BY <1>3, <1>9, <1>10, <1>12, <1>13

(* The nodes s behind the active one: sp has their space, fx their index. *)
Behind(s, sp, fx) ==
  \A i \in 1 .. Len(s) :
    /\ sp[s[i]] >= 0 /\ fx[s[i]] = sp[s[i]] \div BOUNDARY
    /\ i > 1 => fx[s[i - 1]] >= fx[s[i]]

(* A ring with them. *)
SortedSeq(s, sp, fx) ==
  /\ \A i \in 1 .. Len(s) : sp[s[i]] >= 0
  /\ \A i \in 2 .. Len(s) :
       /\ fx[s[i]] = sp[s[i]] \div BOUNDARY
       /\ i > 2 => fx[s[i - 1]] >= fx[s[i]]

LEMMA SortedCons ==
  ASSUME NEW r \in Seq(Nodes), NEW n \in Nodes, NEW sp, NEW fx,
         Behind(r, sp, fx), sp[n] >= 0
  PROVE  SortedSeq(<<n>> \o r, sp, fx)
<1> DEFINE u == <<n>> \o r
           N == Len(r)
<1>1. /\ Len(u) = N + 1 /\ N \in Nat /\ u[1] = n
      /\ \A i \in 1 .. N + 1 : i = 1 \/ (i - 1 \in 1 .. N /\ u[i] = r[i - 1])
  BY PushFacts
<1>2. \A i \in 1 .. N :
        /\ sp[r[i]] >= 0 /\ fx[r[i]] = sp[r[i]] \div BOUNDARY
        /\ i > 1 => fx[r[i - 1]] >= fx[r[i]]
  BY DEF Behind
<1> HIDE DEF u, N
<1>3. ASSUME NEW i \in 1 .. N + 1 PROVE sp[u[i]] >= 0
  <2>1. CASE i = 1
    BY <1>1, <2>1
  <2>2. CASE i # 1
    BY <1>1, <1>2, <2>2
  <2> QED BY <2>1, <2>2
<1>4. ASSUME NEW i \in 2 .. N + 1
      PROVE  /\ fx[u[i]] = sp[u[i]] \div BOUNDARY
             /\ i > 2 => fx[u[i - 1]] >= fx[u[i]]
  <2>1. i \in 1 .. N + 1 /\ i # 1
    BY <1>1
  <2>2. i - 1 \in 1 .. N /\ u[i] = r[i - 1]
    BY <1>1, <2>1
  <2>3. fx[u[i]] = sp[u[i]] \div BOUNDARY
    BY <1>2, <2>2
  <2>4. ASSUME i > 2 PROVE fx[u[i - 1]] >= fx[u[i]]
    <3>1. i - 1 \in 1 .. N + 1 /\ i - 1 # 1 /\ i - 1 > 1
      BY <1>1, <2>1, <2>4
    <3>2. u[i - 1] = r[(i - 1) - 1]
      BY <1>1, <3>1
    <3>3. fx[r[(i - 1) - 1]] >= fx[r[i - 1]]
      BY <1>2, <2>2, <3>1
    <3> QED BY <2>2, <3>2, <3>3
  <2> QED BY <2>3, <2>4
<1>5. SortedSeq(u, sp, fx)
  BY <1>1, <1>3, <1>4 DEF SortedSeq
<1> QED BY <1>5 DEF u

LEMMA SortedTail ==
  ASSUME NEW s \in Seq(Nodes), s # << >>, NEW sp, NEW fx, SortedSeq(s, sp, fx)
  PROVE  Behind(Tail(s), sp, fx) /\ sp[Head(s)] >= 0
<1> DEFINE N == Len(s)
<1>1. /\ Len(Tail(s)) = N - 1 /\ N \in Nat /\ N > 0 /\ Head(s) = s[1]
      /\ \A i \in 1 .. N - 1 : Tail(s)[i] = s[i + 1] /\ i + 1 \in 1 .. N
  BY PopFacts
<1> DEFINE u == Tail(s)
<1>2. /\ \A i \in 1 .. N : sp[s[i]] >= 0
      /\ \A i \in 2 .. N : /\ fx[s[i]] = sp[s[i]] \div BOUNDARY
                           /\ i > 2 => fx[s[i - 1]] >= fx[s[i]]
  BY DEF SortedSeq
<1> HIDE DEF u, N
<1>3. ASSUME NEW i \in 1 .. N - 1
      PROVE  /\ sp[u[i]] >= 0 /\ fx[u[i]] = sp[u[i]] \div BOUNDARY
             /\ i > 1 => fx[u[i - 1]] >= fx[u[i]]
  <2>1. u[i] = s[i + 1] /\ i + 1 \in 1 .. N /\ i + 1 \in 2 .. N
    BY <1>1 DEF u
  <2>2. ASSUME i > 1 PROVE fx[u[i - 1]] >= fx[u[i]]
    <3>1. i - 1 \in 1 .. N - 1 /\ (i - 1) + 1 = i /\ i + 1 > 2 /\ (i + 1) - 1 = i
      BY <1>1, <2>2
    <3>2. u[i - 1] = s[i]
      BY <1>1, <3>1 DEF u
    <3>3. fx[s[i]] >= fx[s[i + 1]]
      BY <1>2, <2>1, <3>1
    <3> QED BY <2>1, <3>2, <3>3
  <2> QED BY <1>2, <2>1, <2>2
<1>4. Behind(u, sp, fx)
  BY <1>1, <1>3 DEF Behind, u
<1>5. sp[Head(s)] >= 0
  BY <1>1, <1>2
<1> QED BY <1>4, <1>5 DEF u

LEMMA BehindTail ==
  ASSUME NEW s \in Seq(Nodes), s # << >>, NEW sp, NEW fx, Behind(s, sp, fx)
  PROVE  Behind(Tail(s), sp, fx) /\ sp[Head(s)] >= 0
<1> DEFINE N == Len(s)
           u == Tail(s)
<1>1. /\ Len(u) = N - 1 /\ N \in Nat /\ N > 0 /\ Head(s) = s[1]
      /\ \A i \in 1 .. N - 1 : u[i] = s[i + 1] /\ i + 1 \in 1 .. N
  BY PopFacts
<1>2. \A i \in 1 .. N : /\ sp[s[i]] >= 0 /\ fx[s[i]] = sp[s[i]] \div BOUNDARY
                        /\ i > 1 => fx[s[i - 1]] >= fx[s[i]]
  BY DEF Behind
<1> HIDE DEF u, N
<1>3. ASSUME NEW i \in 1 .. N - 1
      PROVE  /\ sp[u[i]] >= 0 /\ fx[u[i]] = sp[u[i]] \div BOUNDARY
             /\ i > 1 => fx[u[i - 1]] >= fx[u[i]]
  <2>1. u[i] = s[i + 1] /\ i + 1 \in 1 .. N
    BY <1>1
  <2>2. ASSUME i > 1 PROVE fx[u[i - 1]] >= fx[u[i]]
    <3>1. i - 1 \in 1 .. N - 1 /\ (i - 1) + 1 = i /\ i + 1 > 1 /\ (i + 1) - 1 = i
      BY <1>1, <2>2
    <3>2. u[i - 1] = s[i]
      BY <1>1, <3>1
    <3>3. fx[s[i]] >= fx[s[i + 1]]
      BY <1>2, <2>1, <3>1
    <3> QED BY <2>1, <3>2, <3>3
  <2> QED BY <1>2, <2>1, <2>2
<1>4. Behind(u, sp, fx)
  BY <1>1, <1>3 DEF Behind
<1>5. sp[Head(s)] >= 0
  BY <1>1, <1>2
<1> QED BY <1>4, <1>5 DEF u

(* The same order when space and index of the nodes stay. *)
LEMMA SortedSame ==
  ASSUME NEW s \in Seq(Nodes), NEW sp, NEW fx, NEW sp2, NEW fx2, SortedSeq(s, sp, fx),
         \A n \in ToSet(s) : sp2[n] = sp[n] /\ fx2[n] = fx[n]
  PROVE  SortedSeq(s, sp2, fx2)
<1>1. Len(s) \in Nat /\ \A i \in 1 .. Len(s) : s[i] \in ToSet(s)
  BY ToSetDef
<1>2. ASSUME NEW i \in 2 .. Len(s) PROVE i \in 1 .. Len(s) /\ i - 1 \in 1 .. Len(s)
  BY <1>1
<1> QED BY <1>1, <1>2 DEF SortedSeq

LEMMA RingSortedDef ==
  RingSorted <=> \A p \in Live : SortedSeq(ring[p], space, free_index)
BY DEF RingSorted, SortedSeq

(* The place where Promote puts the former active node. *)
LEMMA PlaceFacts ==
  ASSUME NEW rest \in Seq(Nodes), NEW fi \in Int, free_index \in [Nodes -> Int]
  PROVE  LET places == {j \in 2 .. Len(rest) : fi >= free_index[rest[j]]}
             at == IF rest = << >> \/ fi >= free_index[rest[1]] THEN 1
                   ELSE IF places = {} THEN Len(rest) + 1 ELSE Min(places)
         IN  /\ at \in 1 .. Len(rest) + 1
             /\ \A k \in 1 .. at - 1 : free_index[rest[k]] >= fi
             /\ at <= Len(rest) => fi >= free_index[rest[at]]
<1> DEFINE N == Len(rest)
           fx(k) == free_index[rest[k]]
           places == {j \in 2 .. N : fi >= fx(j)}
           at == IF rest = << >> \/ fi >= fx(1) THEN 1
                 ELSE IF places = {} THEN N + 1 ELSE Min(places)
<1>1. N \in Nat /\ (rest = << >> => N = 0)
  OBVIOUS
<1>2. \A k \in 1 .. N : fx(k) \in Int
  OBVIOUS
<1> HIDE DEF N
<1>3. CASE rest = << >> \/ fi >= fx(1)
  <2>1. at = 1
    BY <1>3
  <2> HIDE DEF fx
  <2>2. 1 <= N => fi >= fx(1)
    BY <1>1, <1>3
  <2>3. at \in 1 .. N + 1 /\ (\A k \in 1 .. at - 1 : fx(k) >= fi) /\ (at <= N => fi >= fx(at))
    <3> HIDE DEF at
    <3> QED BY <1>1, <2>1, <2>2
  <2> QED BY <2>3 DEF N, fx
<1>4. CASE ~(rest = << >> \/ fi >= fx(1)) /\ places = {}
  <2>1. at = N + 1
    BY <1>4
  <2>2. \A k \in 2 .. N : ~(fi >= fx(k))
    BY <1>4
  <2>3. ~(fi >= fx(1))
    BY <1>4
  <2> HIDE DEF fx, at, places
  <2>4. ASSUME NEW k \in 1 .. N PROVE fx(k) >= fi
    <3>1. k = 1 \/ k \in 2 .. N
      BY <1>1
    <3> QED BY <1>2, <2>2, <2>3, <3>1
  <2>5. at \in 1 .. N + 1 /\ (\A k \in 1 .. at - 1 : fx(k) >= fi) /\ (at <= N => fi >= fx(at))
    BY <1>1, <2>1, <2>4
  <2> QED BY <2>5 DEF N, fx, at, places
<1>5. CASE ~(rest = << >> \/ fi >= fx(1)) /\ places # {}
  <2>1. at = Min(places)
    BY <1>5
  <2>2. places \in SUBSET Nat
    BY <1>1
  <2>3. at \in places /\ \A k \in places : at <= k
    <3> HIDE DEF places, at
    <3> QED BY <1>5, <2>1, <2>2, MinOf
  <2>4. at \in 2 .. N /\ fi >= fx(at)
    BY <2>3
  <2>5. \A k \in 2 .. N : fi >= fx(k) => at <= k
    BY <2>3
  <2>6. ~(fi >= fx(1))
    BY <1>5
  <2> HIDE DEF fx, at, places
  <2>7. ASSUME NEW k \in 1 .. at - 1 PROVE fx(k) >= fi
    <3>1. k \in 1 .. N /\ (k = 1 \/ k \in 2 .. N) /\ ~(at <= k)
      BY <1>1, <2>4
    <3> QED BY <1>2, <2>5, <2>6, <3>1
  <2>8. at \in 1 .. N + 1 /\ (\A k \in 1 .. at - 1 : fx(k) >= fi) /\ (at <= N => fi >= fx(at))
    BY <1>1, <2>4, <2>7
  <2> QED BY <2>8 DEF N, fx, at, places
<1> QED BY <1>3, <1>4, <1>5

(* The active node act goes behind node, into rest, at its place. *)
Promotes(node, act, rest, sp, fx) ==
  /\ node \in Nodes /\ act \in Nodes /\ node # act
  /\ rest \in Seq(Nodes) /\ IsInjective(rest) /\ node \notin ToSet(rest) /\ act \notin ToSet(rest)
  /\ Behind(rest, space, free_index) /\ space[act] >= 0
  /\ sp = [space EXCEPT ![node] = sp[node]] /\ sp[node] \in Int /\ sp[node] >= 0
  /\ fx = [free_index EXCEPT ![node] = 0, ![act] = space[act] \div BOUNDARY]

LEMMA PromoteSorted ==
  ASSUME Rooms, NEW node, NEW act, NEW rest, NEW sp, NEW fx, Promotes(node, act, rest, sp, fx)
  PROVE  LET new == Promote(node, act, rest, space[act] \div BOUNDARY)
         IN  /\ new \in Seq(Nodes) /\ new # << >> /\ IsInjective(new)
             /\ ToSet(new) = ToSet(rest) \cup {node, act}
             /\ SortedSeq(new, sp, fx)
             /\ sp \in [Nodes -> Int] /\ fx \in [Nodes -> Int]
<1> DEFINE fi == space[act] \div BOUNDARY
           N == Len(rest)
           places == {j \in 2 .. Len(rest) : fi >= free_index[rest[j]]}
           at == IF rest = << >> \/ fi >= free_index[rest[1]] THEN 1
                 ELSE IF places = {} THEN Len(rest) + 1 ELSE Min(places)
           r == InsertAt(rest, at, act)
<1>0. /\ node \in Nodes /\ act \in Nodes /\ node # act
      /\ rest \in Seq(Nodes) /\ IsInjective(rest) /\ node \notin ToSet(rest) /\ act \notin ToSet(rest)
      /\ Behind(rest, space, free_index) /\ space[act] >= 0
      /\ sp = [space EXCEPT ![node] = sp[node]] /\ sp[node] \in Int /\ sp[node] >= 0
      /\ fx = [free_index EXCEPT ![node] = 0, ![act] = fi]
  BY DEF Promotes
<1>1. space \in [Nodes -> Int] /\ free_index \in [Nodes -> Int]
  BY DEF Rooms
<1>2. fi \in Int
  <2>1. space[act] \in Int
    BY <1>0, <1>1
  <2> QED BY <2>1, CapacityFacts, DivFacts
<1>3. Promote(node, act, rest, fi) = <<node>> \o r
  BY DEF Promote
<1>4. /\ at \in 1 .. N + 1
      /\ \A k \in 1 .. at - 1 : free_index[rest[k]] >= fi
      /\ at <= N => fi >= free_index[rest[at]]
  <2>1. rest \in Seq(Nodes)
    BY <1>0
  <2> HIDE DEF fi
  <2> QED BY ONLY <1>1, <1>2, <2>1, PlaceFacts
<1>5. sp[act] = space[act] /\ sp \in [Nodes -> Int]
  <2> DEFINE v == sp[node]
  <2>1. sp = [space EXCEPT ![node] = v] /\ v \in Int
    BY <1>0
  <2> HIDE DEF v
  <2> QED BY <1>0, <1>1, <2>1
<1>6. \A n \in Nodes \ {node} : sp[n] = space[n]
  <2> DEFINE v == sp[node]
  <2>1. sp = [space EXCEPT ![node] = v]
    BY <1>0
  <2> HIDE DEF v
  <2> QED BY <1>0, <1>1, <2>1
<1> HIDE DEF fi
<1>7. /\ fx \in [Nodes -> Int] /\ fx[act] = fi
      /\ \A n \in Nodes \ {node, act} : fx[n] = free_index[n]
  BY <1>0, <1>1, <1>2
<1> HIDE DEF places, at
<1>8. /\ r \in Seq(Nodes) /\ IsInjective(r) /\ ToSet(r) = ToSet(rest) \cup {act}
      /\ Len(r) = N + 1 /\ r[at] = act
      /\ \A k \in 1 .. at - 1 : r[k] = rest[k]
      /\ \A k \in at + 1 .. N + 1 : r[k] = rest[k - 1]
  BY <1>0, <1>4, InsertList
<1> HIDE DEF r
<1>9. /\ N \in Nat
      /\ \A k \in 1 .. N : /\ rest[k] \in Nodes \ {node, act}
                           /\ sp[rest[k]] = space[rest[k]] /\ fx[rest[k]] = free_index[rest[k]]
                           /\ space[rest[k]] >= 0
                           /\ free_index[rest[k]] = space[rest[k]] \div BOUNDARY
                           /\ k > 1 => free_index[rest[k - 1]] >= free_index[rest[k]]
  <2>1. N \in Nat /\ \A k \in 1 .. N : rest[k] \in ToSet(rest) /\ rest[k] \in Nodes
    BY <1>0, ToSetDef
  <2>2. \A k \in 1 .. N : rest[k] \in Nodes \ {node, act}
    BY <1>0, <2>1
  <2>3. \A k \in 1 .. N : sp[rest[k]] = space[rest[k]] /\ fx[rest[k]] = free_index[rest[k]]
    BY <1>6, <1>7, <2>2
  <2>4. \A k \in 1 .. N : /\ space[rest[k]] >= 0
                          /\ free_index[rest[k]] = space[rest[k]] \div BOUNDARY
                          /\ k > 1 => free_index[rest[k - 1]] >= free_index[rest[k]]
    BY <1>0 DEF Behind
  <2> QED BY <2>1, <2>2, <2>3, <2>4
<1> HIDE DEF N
<1>10. ASSUME NEW i \in 1 .. N + 1
       PROVE  /\ sp[r[i]] >= 0 /\ fx[r[i]] = sp[r[i]] \div BOUNDARY
              /\ i > 1 => fx[r[i - 1]] >= fx[r[i]]
  <2>1. CASE i < at
    <3>1. i \in 1 .. at - 1 /\ i \in 1 .. N
      BY <1>4, <1>9, <2>1
    <3>2. r[i] = rest[i]
      BY <1>8, <3>1
    <3>3. ASSUME i > 1 PROVE fx[r[i - 1]] >= fx[r[i]]
      <4>1. i - 1 \in 1 .. at - 1 /\ i - 1 \in 1 .. N
        BY <1>4, <1>9, <2>1, <3>1, <3>3
      <4>2. r[i - 1] = rest[i - 1]
        BY <1>8, <4>1
      <4>3. free_index[rest[i - 1]] >= free_index[rest[i]]
        BY <1>9, <3>1, <3>3
      <4> QED BY <1>9, <3>1, <3>2, <4>1, <4>2, <4>3
    <3> QED BY <1>9, <3>1, <3>2, <3>3
  <2>2. CASE i = at
    <3>1. r[i] = act /\ fx[r[i]] = fi /\ sp[r[i]] = space[act]
      BY <1>5, <1>7, <1>8, <2>2
    <3>2. fi = space[act] \div BOUNDARY /\ space[act] >= 0
      BY <1>0 DEF fi
    <3>3. ASSUME i > 1 PROVE fx[r[i - 1]] >= fx[r[i]]
      <4>1. i - 1 \in 1 .. at - 1 /\ i - 1 \in 1 .. N
        BY <1>4, <1>9, <2>2, <3>3
      <4>2. r[i - 1] = rest[i - 1] /\ free_index[rest[i - 1]] >= fi
        BY <1>4, <1>8, <4>1
      <4> QED BY <1>9, <3>1, <4>1, <4>2
    <3> QED BY <3>1, <3>2, <3>3
  <2>3. CASE i > at
    <3>1. i \in at + 1 .. N + 1 /\ i - 1 \in 1 .. N
      BY <1>4, <1>9, <2>3
    <3>2. r[i] = rest[i - 1]
      BY <1>8, <3>1
    <3>3. fx[r[i - 1]] >= fx[r[i]]
      <4>1. CASE i - 1 = at
        <5>1. r[i - 1] = act /\ at <= N
          BY <1>8, <3>1, <4>1
        <5>2. fi >= free_index[rest[i - 1]]
          BY <1>4, <4>1, <5>1
        <5> QED BY <1>7, <1>9, <3>1, <3>2, <5>1, <5>2
      <4>2. CASE i - 1 # at
        <5>1. i - 1 \in at + 1 .. N + 1 /\ (i - 1) - 1 \in 1 .. N /\ i - 1 > 1
          BY <1>4, <1>9, <2>3, <4>2
        <5>2. r[i - 1] = rest[(i - 1) - 1]
          BY <1>8, <5>1
        <5>3. free_index[rest[(i - 1) - 1]] >= free_index[rest[i - 1]]
          BY <1>9, <3>1, <5>1
        <5> QED BY <1>9, <3>1, <3>2, <5>1, <5>2, <5>3
      <4> QED BY <4>1, <4>2
    <3> QED BY <1>9, <3>1, <3>2, <3>3
  <2>4. i < at \/ i = at \/ i > at
    BY <1>4, <1>9
  <2> QED BY <2>1, <2>2, <2>3, <2>4
<1>11. Behind(r, sp, fx)
  BY <1>8, <1>10 DEF Behind
<1> DEFINE new == <<node>> \o r
<1>12. SortedSeq(new, sp, fx)
  BY <1>0, <1>8, <1>11, SortedCons
<1>13. new \in Seq(Nodes) /\ ToSet(new) = ToSet(r) \cup {node} /\ IsInjective(new) /\ new # << >>
  <2>1. node \notin ToSet(r)
    BY <1>0, <1>8
  <2> QED BY <1>0, <1>8, <2>1, PushList, PushFacts
<1> HIDE DEF new
<1>14. ToSet(new) = ToSet(rest) \cup {node, act}
  BY <1>8, <1>13
<1> QED BY <1>3, <1>5, <1>7, <1>12, <1>13, <1>14 DEF new, fi

-----------------------------------------------------------------------------
(* Where the nodes are, after a step. *)

LEMMA PlacedSame ==
  ASSUME Placed, Held(free') = Held(free), index' = index,
         \A q \in Pools : ToSet(ring'[q]) = ToSet(ring[q])
  PROVE  Placed'
<1>1. Held(free)' = Held(free)
  BY DEF Held
<1> QED BY <1>1 DEF Placed

(* A node goes into the ring of p, *)
LEMMA PlacedAlloc ==
  ASSUME Placed, NEW p \in Pools, NEW i \in Nat, i >= 1, NEW n, Allocates(i, n),
         \A q \in Pools \ {p} : ring'[q] = ring[q],
         ToSet(ring'[p]) = ToSet(ring[p]) \cup {n}
  PROVE  Placed'
<1>0. /\ n \in Nodes /\ index'[n] >= i /\ index' \in [Nodes -> Nat]
      /\ \A m \in Nodes \ {n} : index'[m] = index[m]
      /\ Held(free') = Held(free) \ {n} /\ (n \in Held(free) \/ index[n] = 0)
  BY DEF Allocates, Allocator
<1>1. Held(free)' = Held(free')
  BY DEF Held
<1>2. index'[n] # 0
  BY <1>0
<1> DEFINE R(q) == ToSet(ring[q])
           S(q) == ToSet(ring'[q])
<1>3. /\ \A q, u \in Pools : q # u => R(q) \cap R(u) = {}
      /\ \A q \in Pools : R(q) \cap Held(free) = {}
      /\ \A m \in Nodes : index[m] # 0 <=> m \in Held(free) \/ \E q \in Pools : m \in R(q)
  BY DEF Placed
<1>4. (\A q \in Pools \ {p} : S(q) = R(q)) /\ S(p) = R(p) \cup {n}
  OBVIOUS
<1> HIDE DEF R, S
<1>5. \A q \in Pools : n \notin R(q)
  BY <1>0, <1>3
<1>6. \A q, u \in Pools : q # u => S(q) \cap S(u) = {}
  BY <1>3, <1>4, <1>5
<1>7. \A q \in Pools : S(q) \cap Held(free') = {}
  BY <1>0, <1>3, <1>4
<1>8. ASSUME NEW m \in Nodes
      PROVE  index'[m] # 0 <=> m \in Held(free') \/ \E q \in Pools : m \in S(q)
  <2>1. CASE m = n
    BY <1>2, <1>4, <2>1
  <2>2. CASE m # n
    <3>1. \A q \in Pools : m \in S(q) <=> m \in R(q)
      BY <1>4, <2>2
    <3> QED BY <1>0, <1>3, <2>2, <3>1
  <2> QED BY <2>1, <2>2
<1> QED BY <1>1, <1>6, <1>7, <1>8 DEF Placed, S

(* and those of T leave it. *)
LEMMA PlacedFree ==
  ASSUME Placed, NEW p \in Pools, NEW T \in SUBSET ToSet(ring[p]), Frees(T), T \subseteq Nodes,
         \A q \in Pools \ {p} : ring'[q] = ring[q],
         ToSet(ring'[p]) = ToSet(ring[p]) \ T
  PROVE  Placed'
<1>0. PICK out \in SUBSET T :
        /\ Held(free') = Held(free) \cup (T \ out)
        /\ \A n \in Nodes : index'[n] = IF n \in out THEN 0 ELSE index[n]
  BY DEF Frees
<1>1. Held(free)' = Held(free')
  BY DEF Held
<1> DEFINE R(q) == ToSet(ring[q])
           S(q) == ToSet(ring'[q])
<1>2. /\ \A q, u \in Pools : q # u => R(q) \cap R(u) = {}
      /\ \A q \in Pools : R(q) \cap Held(free) = {}
      /\ \A m \in Nodes : index[m] # 0 <=> m \in Held(free) \/ \E q \in Pools : m \in R(q)
  BY DEF Placed
<1>3. (\A q \in Pools \ {p} : S(q) = R(q)) /\ S(p) = R(p) \ T /\ T \subseteq R(p)
  OBVIOUS
<1> HIDE DEF R, S
<1>4. \A q, u \in Pools : q # u => S(q) \cap S(u) = {}
  BY <1>2, <1>3
<1>5. \A q \in Pools : S(q) \cap T = {}
  BY <1>2, <1>3
<1>6. \A q \in Pools : S(q) \cap Held(free') = {}
  BY <1>0, <1>2, <1>3, <1>5
<1>7. ASSUME NEW m \in Nodes
      PROVE  index'[m] # 0 <=> m \in Held(free') \/ \E q \in Pools : m \in S(q)
  <2>1. CASE m \in out
    BY <1>0, <1>2, <1>3, <1>5, <2>1
  <2>2. CASE m \in T \ out
    BY <1>0, <1>2, <1>3, <2>2
  <2>3. CASE m \notin T
    <3>1. \A q \in Pools : m \in S(q) <=> m \in R(q)
      BY <1>3, <2>3
    <3> QED BY <1>0, <1>2, <2>3, <3>1
  <2> QED BY <2>1, <2>2, <2>3
<1> QED BY <1>1, <1>4, <1>6, <1>7 DEF Placed, S

(* The nodes of a pool may be given to allocator_free. *)
LEMMA RingChain ==
  ASSUME Allocator, Placed, NEW p \in Pools, NEW s \in Seq(Nodes), IsInjective(s),
         ToSet(s) \subseteq ToSet(ring[p])
  PROVE  Chain(s)
<1> SUFFICES ASSUME NEW n \in ToSet(s) PROVE index[n] >= 1 /\ n \notin Held(free)
  BY DEF Chain
<1>1. n \in Nodes /\ n \in ToSet(ring[p])
  BY ToSetDef
<1>2. index[n] \in Nat /\ index[n] # 0 /\ n \notin Held(free)
  BY <1>1 DEF Allocator, Placed
<1> QED BY <1>2

LEMMA SelfFirst ==
  ASSUME Types, Rings, NEW p \in Live
  PROVE  /\ FromSelf(p) \in Seq(Nodes) /\ IsInjective(FromSelf(p))
         /\ ToSet(FromSelf(p)) = ToSet(ring[p])
         /\ FromSelf(p) # << >> /\ Head(FromSelf(p)) = self[p]
         /\ Tail(FromSelf(p)) \in Seq(Nodes) /\ IsInjective(Tail(FromSelf(p)))
         /\ ToSet(Tail(FromSelf(p))) = ToSet(ring[p]) \ {self[p]}
<1> DEFINE s == ring[p]
           i == CHOOSE j \in 1 .. Len(s) : s[j] = self[p]
<1>1. s \in Seq(Nodes) /\ IsInjective(s) /\ self[p] \in ToSet(s)
  BY DEF Types, Rings, Live
<1>2. i \in 1 .. Len(s) /\ s[i] = self[p]
  <2>1. ToSet(s) = {s[k] : k \in 1 .. Len(s)}
    BY <1>1, ToSetDef
  <2>2. \E k \in 1 .. Len(s) : s[k] = self[p]
    BY <1>1, <2>1
  <2> QED BY <2>2
<1> DEFINE r == FromSelf(p)
<1>3. r = SubSeq(s, i, Len(s)) \o SubSeq(s, 1, i - 1)
  BY DEF FromSelf
<1> HIDE DEF i, s, r
<1>4. r \in Seq(Nodes) /\ IsInjective(r) /\ ToSet(r) = ToSet(s) /\ r # << >> /\ Head(r) = s[i]
  BY <1>1, <1>2, <1>3, RotateList
<1>5. Tail(r) \in Seq(Nodes) /\ IsInjective(Tail(r)) /\ ToSet(Tail(r)) = ToSet(r) \ {Head(r)}
  BY <1>4, PopList
<1> QED BY <1>2, <1>4, <1>5 DEF r, s

LEMMA RingSortedStep ==
  ASSUME \A q \in Live' : SortedSeq(ring'[q], space', free_index')
  PROVE  RingSorted'
BY DEF RingSorted, SortedSeq

(* The rings of the other pools keep their order. *)
LEMMA OthersSorted ==
  ASSUME Types, Placed, RingSorted, NEW p \in Pools, NEW n,
         \A q \in Pools \ {p} : n \notin ToSet(ring[q]),
         \A m \in Nodes : m \notin ToSet(ring[p]) \cup {n} =>
           space'[m] = space[m] /\ free_index'[m] = free_index[m]
  PROVE  \A q \in Live \ {p} : SortedSeq(ring[q], space', free_index')
<1> SUFFICES ASSUME NEW q \in Live \ {p} PROVE SortedSeq(ring[q], space', free_index')
  OBVIOUS
<1>1. q \in Pools /\ ring[q] \in Seq(Nodes)
  BY DEF Live, Types
<1>2. ToSet(ring[q]) \subseteq Nodes /\ ToSet(ring[q]) \cap ToSet(ring[p]) = {}
  BY <1>1, ToSetDef DEF Placed
<1>3. \A m \in ToSet(ring[q]) : space'[m] = space[m] /\ free_index'[m] = free_index[m]
  BY <1>1, <1>2
<1>4. SortedSeq(ring[q], space, free_index)
  BY RingSortedDef
<1> QED BY <1>1, <1>3, <1>4, SortedSame

-----------------------------------------------------------------------------
(* The steps that touch the memory. *)

LEMMA AllocatorSame ==
  ASSUME Allocator, UNCHANGED allocator
  PROVE  Allocator' /\ Held(free') = Held(free) /\ index' = index
<1>1. UNCHANGED <<free, max_index, current_free_index, max_free_index, index>>
  BY DEF allocator, bins
<1> QED BY <1>1 DEF Allocator, BinsOK, InBin, LimitOK, Held, Boundaries

LEMMA MemSame ==
  ASSUME Mem, UNCHANGED <<allocator, memory>>
  PROVE  Mem'
<1>0. Allocator /\ Placed /\ Rings /\ Rooms /\ RingSorted /\ Gone
  BY DEF Mem
<1>1. UNCHANGED <<ring, self, space, free_index>>
  BY DEF memory
<1>2. Allocator' /\ Held(free') = Held(free) /\ index' = index
  BY <1>0, AllocatorSame
<1>3. Live' = Live
  BY <1>1 DEF Live
<1>4. Placed'
  BY <1>0, <1>1, <1>2, PlacedSame
<1>5. Rings' /\ Rooms'
  BY <1>0, <1>1, <1>3 DEF Rings, Rooms
<1>6. RingSorted'
  BY <1>0, <1>1, <1>3 DEF RingSorted
<1>7. Held(free)' = Held(free')
  BY DEF Held
<1>8. Gone'
  BY <1>0, <1>2, <1>3, <1>7 DEF Gone
<1> QED BY <1>2, <1>4, <1>5, <1>6, <1>8 DEF Mem

LEMMA GoneStays ==
  ASSUME Root \in Live'
  PROVE  Gone'
BY DEF Gone

(* apr_palloc makes another node the active one. *)
LEMMA UseNodeMem ==
  ASSUME Types, Placed, Rings, Rooms, RingSorted, NEW p \in Live,
         NEW node, NEW room, NEW size, NEW rest,
         UseNode(p, node, room, size, rest),
         Promotes(node, Head(ring[p]), rest, space', free_index'),
         ToSet(ring[p]) \subseteq ToSet(rest) \cup {node, Head(ring[p])},
         ToSet(rest) \subseteq ToSet(ring[p]),
         \A q \in Pools \ {p} : node \notin ToSet(ring[q])
  PROVE  /\ Rings' /\ Rooms' /\ RingSorted' /\ Live' = Live
         /\ \A q \in Pools \ {p} : ring'[q] = ring[q]
         /\ ToSet(ring'[p]) = ToSet(ring[p]) \cup {node}
<1> DEFINE act == Head(ring[p])
           new == Promote(node, act, rest, space[act] \div BOUNDARY)
<1>0. p \in Pools /\ ring \in [Pools -> Seq(Nodes)] /\ ring[p] \in Seq(Nodes) /\ ring[p] # << >>
      /\ IsInjective(ring[p]) /\ self[p] \in ToSet(ring[p])
  BY DEF Types, Live, Rings
<1>1. act \in ToSet(ring[p])
  BY <1>0, PopList
<1>2. /\ new \in Seq(Nodes) /\ new # << >> /\ IsInjective(new)
      /\ ToSet(new) = ToSet(rest) \cup {node, act}
      /\ SortedSeq(new, space', free_index')
      /\ space' \in [Nodes -> Int] /\ free_index' \in [Nodes -> Int]
  BY PromoteSorted
<1>3. ring' = [ring EXCEPT ![p] = new] /\ self' = self
  BY DEF UseNode
<1>4. node \in Nodes /\ act \in Nodes /\ rest \in Seq(Nodes)
  BY DEF Promotes
<1>5. Live' = Live /\ self' = self
  BY <1>4, UseNodeFacts
<1>6. \A m \in Nodes : m \notin ToSet(ring[p]) \cup {node} =>
        space'[m] = space[m] /\ free_index'[m] = free_index[m]
  <2>1. /\ space' = [space EXCEPT ![node] = room - size]
        /\ free_index' = [free_index EXCEPT ![node] = 0, ![act] = space[act] \div BOUNDARY]
    BY DEF UseNode
  <2> HIDE DEF act
  <2> QED BY <1>1, <2>1 DEF Rooms
<1> HIDE DEF act, new
<1>7. ring'[p] = new /\ \A q \in Pools \ {p} : ring'[q] = ring[q]
  BY <1>0, <1>3
<1>8. ToSet(ring'[p]) = ToSet(ring[p]) \cup {node}
  BY <1>1, <1>2, <1>7 DEF act
<1>9. \A q \in Live \ {p} : SortedSeq(ring[q], space', free_index')
  BY <1>0, <1>6, OthersSorted
<1>10. RingSorted'
  <2>1. ASSUME NEW q \in Live' PROVE SortedSeq(ring'[q], space', free_index')
    <3>1. q \in Pools /\ q \in Live
      BY <1>5 DEF Live
    <3>2. CASE q = p
      BY <1>2, <1>7, <3>2
    <3>3. CASE q # p
      BY <1>7, <1>9, <3>1, <3>3
    <3> QED BY <3>2, <3>3
  <2> QED BY <2>1, RingSortedStep
<1>11. Rings'
  <2> SUFFICES ASSUME NEW q \in Live PROVE IsInjective(ring'[q]) /\ self'[q] \in ToSet(ring'[q])
    BY <1>5 DEF Rings
  <2>1. q \in Pools
    BY DEF Live
  <2>2. CASE q = p
    BY <1>0, <1>2, <1>5, <1>7, <1>8, <2>2
  <2>3. CASE q # p
    BY <1>5, <1>7, <2>1, <2>3 DEF Rings
  <2> QED BY <2>2, <2>3
<1>12. Rooms'
  BY <1>2 DEF Rooms
<1> QED BY <1>5, <1>7, <1>8, <1>10, <1>11, <1>12

(* There was room in the next node, *)
LEMMA NextNodeMem ==
  ASSUME Types, Mem, NEW p \in Live, Root \in Live, NEW size \in Nat,
         Len(ring[p]) > 1, size <= space[ring[p][2]],
         UseNode(p, ring[p][2], space[ring[p][2]], size, SubSeq(ring[p], 3, Len(ring[p]))),
         UNCHANGED allocator
  PROVE  Mem'
<1> DEFINE s == ring[p]
           node == s[2]
           rest == SubSeq(s, 3, Len(s))
<1>0. Allocator /\ Placed /\ Rings /\ Rooms /\ RingSorted /\ Gone
  BY DEF Mem
<1>1. p \in Pools /\ s \in Seq(Nodes) /\ s # << >> /\ IsInjective(s)
  BY <1>0 DEF Types, Live, Rings
<1>2. Len(s) \in Nat /\ 2 \in 1 .. Len(s) /\ Len(s) \in 2 .. Len(s)
  BY <1>1
<1> DEFINE u == Tail(s)
<1>3. u = SubSeq(s, 2, Len(s))
  BY <1>1, TailIsSubSeq
<1>4. Head(u) = node /\ Tail(u) = rest
  <2>1. Head(SubSeq(s, 2, Len(s))) = s[2] /\ Tail(SubSeq(s, 2, Len(s))) = SubSeq(s, 2 + 1, Len(s))
    BY <1>1, <1>2, HeadTailOfSubSeq
  <2> QED BY <1>3, <2>1
<1>5. u \in Seq(Nodes) /\ IsInjective(u) /\ ToSet(u) = ToSet(s) \ {Head(s)} /\ Head(s) \in ToSet(s)
      /\ Head(s) \in Nodes
  BY <1>1, PopList
<1>6. u # << >>
  <2>1. Len(u) = Len(s) - 1
    BY <1>1
  <2>2. Len(u) # 0
    BY <1>2, <2>1
  <2>3. Len(<< >>) = 0
    OBVIOUS
  <2> HIDE DEF u
  <2> QED BY <2>2, <2>3
<1>7. SortedSeq(s, space, free_index)
  BY <1>0, RingSortedDef
<1>8. Behind(u, space, free_index) /\ space[Head(s)] >= 0
  BY <1>1, <1>7, SortedTail
<1> HIDE DEF u
<1>9. /\ Tail(u) \in Seq(Nodes) /\ IsInjective(Tail(u)) /\ ToSet(Tail(u)) = ToSet(u) \ {Head(u)}
      /\ Head(u) \in ToSet(u) /\ Head(u) \in Nodes
  BY <1>5, <1>6, PopList
<1>10. Behind(Tail(u), space, free_index)
  BY <1>5, <1>6, <1>8, BehindTail
<1> DEFINE act == Head(s)
<1>11. /\ space' = [space EXCEPT ![node] = space[node] - size]
       /\ free_index' = [free_index EXCEPT ![node] = 0, ![act] = space[act] \div BOUNDARY]
  BY DEF UseNode
<1>12. UseNode(p, node, space[node], size, rest) /\ size <= space[node]
  OBVIOUS
<1> HIDE DEF act, node, rest
<1>13. /\ node \in Nodes /\ act \in Nodes /\ node # act /\ node \in ToSet(s)
       /\ rest \in Seq(Nodes) /\ IsInjective(rest) /\ node \notin ToSet(rest) /\ act \notin ToSet(rest)
       /\ Behind(rest, space, free_index) /\ space[act] >= 0
       /\ ToSet(s) \subseteq ToSet(rest) \cup {node, act} /\ ToSet(rest) \subseteq ToSet(s)
  BY <1>4, <1>5, <1>8, <1>9, <1>10 DEF act
<1>14. space'[node] = space[node] - size /\ space[node] \in Int
  BY <1>0, <1>11, <1>13 DEF Rooms
<1>15. space'[node] \in Int /\ space'[node] >= 0
  BY <1>12, <1>14
<1>16. Promotes(node, act, rest, space', free_index')
  BY <1>11, <1>13, <1>14, <1>15 DEF Promotes
<1>17. \A q \in Pools \ {p} : node \notin ToSet(ring[q])
  BY <1>0, <1>1, <1>13 DEF Placed
<1>18. /\ Rings' /\ Rooms' /\ RingSorted' /\ Live' = Live
       /\ \A q \in Pools \ {p} : ring'[q] = ring[q]
       /\ ToSet(ring'[p]) = ToSet(ring[p]) \cup {node}
  BY <1>0, <1>12, <1>13, <1>16, <1>17, UseNodeMem DEF act
<1>19. Allocator' /\ Held(free') = Held(free) /\ index' = index
  BY <1>0, AllocatorSame
<1>20. Placed'
  <2>1. \A q \in Pools : ToSet(ring'[q]) = ToSet(ring[q])
    BY <1>13, <1>18
  <2> QED BY <1>0, <1>19, <2>1, PlacedSame
<1>21. Gone'
  BY <1>18, GoneStays
<1> QED BY <1>18, <1>19, <1>20, <1>21 DEF Mem

(* or a new one was needed. *)
LEMMA NewNodeMem ==
  ASSUME Types, Mem, NEW p \in Live, Root \in Live, NEW size \in Nat, NEW n \in Nodes,
         allocator_alloc(IndexFor(size), n),
         UseNode(p, n, Capacity(index'[n]), size, Tail(ring[p]))
  PROVE  Mem'
<1> DEFINE s == ring[p]
           rest == Tail(s)
           act == Head(s)
           i == IndexFor(size)
<1>0. Allocator /\ Placed /\ Rings /\ Rooms /\ RingSorted /\ Gone
  BY DEF Mem
<1>1. p \in Pools /\ s \in Seq(Nodes) /\ s # << >> /\ IsInjective(s)
  BY <1>0 DEF Types, Live, Rings
<1>2. i \in Nat /\ i >= 1 /\ size <= Capacity(i)
  BY CapacityFacts
<1>3. Allocates(i, n)
  <2> HIDE DEF i
  <2>1. allocator_alloc(i, n)
    BY DEF i
  <2> QED BY <1>0, <1>2, <2>1, AllocFacts
<1> HIDE DEF i
<1>4. /\ index'[n] >= i /\ index'[n] \in Nat /\ (n \in Held(free) \/ index[n] = 0) /\ Allocator'
  BY <1>3 DEF Allocates, Allocator
<1>5. \A q \in Pools : n \notin ToSet(ring[q])
  BY <1>0, <1>4 DEF Placed
<1>6. /\ rest \in Seq(Nodes) /\ IsInjective(rest) /\ ToSet(rest) = ToSet(s) \ {act}
      /\ act \in ToSet(s) /\ act \in Nodes
  BY <1>1, PopList
<1>7. SortedSeq(s, space, free_index)
  BY <1>0, RingSortedDef
<1>8. Behind(rest, space, free_index) /\ space[act] >= 0
  BY <1>1, <1>7, SortedTail
<1> DEFINE room == Capacity(index'[n])
<1>9. /\ space' = [space EXCEPT ![n] = room - size]
      /\ free_index' = [free_index EXCEPT ![n] = 0, ![act] = space[act] \div BOUNDARY]
      /\ UseNode(p, n, room, size, rest)
  BY DEF UseNode
<1>10. room \in Int /\ room >= size
  <2>1. Capacity(i) <= room /\ Capacity(i) \in Int /\ room \in Int
    BY <1>2, <1>4, CapacityFacts
  <2> HIDE DEF room
  <2> QED BY <1>2, <2>1
<1> HIDE DEF act, rest, room
<1>11. n # act /\ n \notin ToSet(rest) /\ act \notin ToSet(rest)
  BY <1>1, <1>5, <1>6
<1>12. space'[n] = room - size
  BY <1>0, <1>9 DEF Rooms
<1>13. space'[n] \in Int /\ space'[n] >= 0
  BY <1>10, <1>12
<1>14. Promotes(n, act, rest, space', free_index')
  BY <1>6, <1>8, <1>9, <1>11, <1>12, <1>13 DEF Promotes
<1>15. /\ Rings' /\ Rooms' /\ RingSorted' /\ Live' = Live
       /\ \A q \in Pools \ {p} : ring'[q] = ring[q]
       /\ ToSet(ring'[p]) = ToSet(ring[p]) \cup {n}
  <2>1. ToSet(s) \subseteq ToSet(rest) \cup {n, act} /\ ToSet(rest) \subseteq ToSet(s)
    BY <1>6
  <2> QED BY <1>0, <1>5, <1>9, <1>14, <2>1, UseNodeMem DEF act
<1>16. Placed'
  BY <1>0, <1>1, <1>2, <1>3, <1>15, PlacedAlloc
<1>17. Gone'
  BY <1>15, GoneStays
<1> QED BY <1>4, <1>15, <1>16, <1>17 DEF Mem

LEMMA PallocMem ==
  ASSUME Inv, Mem, NEW t \in Threads, NEW p \in Pools, NEW size \in Requests, apr_palloc(t, p, size)
  PROVE  Mem'
<1>0. /\ Types /\ Tree /\ p \in Live /\ size \in Nat
      /\ Allocator /\ Placed /\ Rings /\ Rooms /\ RingSorted /\ Gone
  BY SizesAssumption DEF Inv, Mem, apr_palloc
<1>1. Root \in Live
  BY <1>0, RootLives DEF Tree
<1>2. ring[p] \in Seq(Nodes) /\ ring[p] # << >> /\ IsInjective(ring[p])
  BY <1>0 DEF Types, Live, Rings
<1> DEFINE act == Head(ring[p])
<1>3. ASSUME size <= space[act], space' = [space EXCEPT ![act] = @ - size],
             UNCHANGED <<ring, self, free_index>>, UNCHANGED allocator
      PROVE  Mem'
  <2>1. act \in ToSet(ring[p]) /\ act \in Nodes
    BY <1>2, PopList
  <2>2. Live' = Live
    BY <1>3 DEF Live
  <2>3. SortedSeq(ring[p], space, free_index)
    BY <1>0, RingSortedDef
  <2> DEFINE sp == space'
             s == ring[p]
  <2>4. sp[act] = space[act] - size /\ space[act] \in Int /\ sp \in [Nodes -> Int]
        /\ \A m \in Nodes \ {act} : sp[m] = space[m]
    <3> HIDE DEF act
    <3> QED BY <1>0, <1>3, <2>1 DEF Rooms
  <2>5. sp[act] >= 0
    BY <1>0, <1>3, <2>4
  <2>6. /\ Tail(s) \in Seq(Nodes) /\ ToSet(Tail(s)) = ToSet(s) \ {act} /\ s = <<act>> \o Tail(s)
        /\ ToSet(s) \subseteq Nodes
    <3>1. s = <<act>> \o Tail(s)
      BY <1>2
    <3> QED BY <1>2, <3>1, PopList, ToSetDef
  <2>7. Behind(Tail(s), space, free_index)
    BY <1>2, <2>3, SortedTail
  <2> DEFINE r == Tail(s)
  <2>8. Behind(r, sp, free_index)
    <3>1. /\ r \in Seq(Nodes) /\ \A m \in ToSet(r) : sp[m] = space[m]
          /\ Behind(r, space, free_index)
      BY <2>4, <2>6, <2>7
    <3> HIDE DEF r, sp
    <3>2. \A k \in 1 .. Len(r) : r[k] \in ToSet(r)
      BY <3>1, ToSetDef
    <3> QED BY <3>1, <3>2 DEF Behind
  <2>9. SortedSeq(<<act>> \o r, sp, free_index)
    <3> HIDE DEF r, sp, act
    <3>1. r \in Seq(Nodes)
      BY <2>6 DEF r
    <3> QED BY <2>1, <2>5, <2>8, <3>1, SortedCons
  <2>10. \A q \in Live \ {p} : SortedSeq(ring[q], space', free_index')
    <3>1. \A q \in Pools \ {p} : act \notin ToSet(ring[q])
      BY <1>0, <2>1 DEF Placed
    <3>2. \A m \in Nodes : m \notin ToSet(ring[p]) \cup {act} =>
            space'[m] = space[m] /\ free_index'[m] = free_index[m]
      BY <1>3, <2>4
    <3> HIDE DEF act
    <3> QED BY <1>0, <3>1, <3>2, OthersSorted
  <2>11. RingSorted'
    <3>1. SortedSeq(ring[p], space', free_index')
      BY <1>3, <2>6, <2>9
    <3>2. \A q \in Live' : SortedSeq(ring'[q], space', free_index')
      BY <1>3, <2>2, <2>10, <3>1
    <3> QED BY <3>2, RingSortedStep
  <2>12. Rooms' /\ Rings'
    BY <1>0, <1>3, <2>2, <2>4 DEF Rooms, Rings
  <2>13. Allocator' /\ Held(free') = Held(free) /\ index' = index
    BY <1>0, <1>3, AllocatorSame
  <2>14. Placed'
    BY <1>0, <1>3, <2>13, PlacedSame
  <2>15. Gone'
    BY <1>1, <2>2, GoneStays
  <2> QED BY <2>11, <2>12, <2>13, <2>14, <2>15 DEF Mem
<1>4. ASSUME Len(ring[p]) > 1, size <= space[ring[p][2]], UNCHANGED allocator,
             UseNode(p, ring[p][2], space[ring[p][2]], size, SubSeq(ring[p], 3, Len(ring[p])))
      PROVE  Mem'
  BY <1>0, <1>1, <1>4, NextNodeMem
<1>5. ASSUME NEW n \in Nodes, allocator_alloc(IndexFor(size), n),
             UseNode(p, n, Capacity(index'[n]), size, Tail(ring[p]))
      PROVE  Mem'
  BY <1>0, <1>1, <1>5, NewNodeMem
<1>6. CASE PallocHere(p, size) /\ UNCHANGED allocator
  BY <1>3, <1>4, <1>6 DEF PallocHere
<1>7. CASE \E n \in Nodes : /\ allocator_alloc(IndexFor(size), n)
                           /\ UseNode(p, n, Capacity(index'[n]), size, Tail(ring[p]))
  BY <1>5, <1>7
<1> QED BY <1>6, <1>7 DEF apr_palloc

LEMMA OneSorted ==
  ASSUME NEW n \in Nodes, NEW sp, NEW fx, sp[n] >= 0
  PROVE  SortedSeq(<<n>>, sp, fx)
<1>1. Len(<<n>>) = 1 /\ <<n>>[1] = n
  OBVIOUS
<1> DEFINE s == <<n>>
<1>2. Len(s) = 1 /\ s[1] = n
  BY <1>1
<1> HIDE DEF s
<1>3. \A i \in 1 .. 1 : i = 1
  OBVIOUS
<1>4. 2 .. 1 = {}
  OBVIOUS
<1>5. SortedSeq(s, sp, fx)
  BY <1>2, <1>3, <1>4 DEF SortedSeq
<1> QED BY <1>5 DEF s

LEMMA CreateMem ==
  ASSUME Inv, Mem, NEW t \in Threads, NEW q \in Pools, apr_pool_create(t, q)
  PROVE  Mem'
<1>0. /\ Types /\ Tree /\ q \in Live
      /\ Allocator /\ Placed /\ Rings /\ Rooms /\ RingSorted /\ Gone
  BY DEF Inv, Mem, apr_pool_create
<1>1. Root \in Live
  BY <1>0, RootLives DEF Tree
<1>2. PICK n \in Nodes, p \in Pools \ Live :
        /\ allocator_alloc(1, n)
        /\ ring' = [ring EXCEPT ![p] = <<n>>]
        /\ self' = [self EXCEPT ![p] = n]
        /\ space' = [space EXCEPT ![n] = Capacity(index'[n]) - POOL_SIZE]
        /\ free_index' = free_index
  BY DEF apr_pool_create
<1>3. Allocates(1, n)
  <2> DEFINE i == 1
  <2>1. i \in Nat /\ i >= 1 /\ allocator_alloc(i, n)
    BY <1>2
  <2> HIDE DEF i
  <2>2. Allocates(i, n)
    BY <1>0, <2>1, AllocFacts
  <2> QED BY <2>2 DEF i
<1>4. /\ index'[n] >= 1 /\ index'[n] \in Nat /\ (n \in Held(free) \/ index[n] = 0) /\ Allocator'
  BY <1>3 DEF Allocates, Allocator
<1>5. \A x \in Pools : n \notin ToSet(ring[x])
  BY <1>0, <1>4 DEF Placed
<1>6. <<n>> \in Seq(Nodes) /\ <<n>> # << >> /\ ToSet(<<n>>) = {n} /\ IsInjective(<<n>>)
  BY OneList
<1>7. /\ ring'[p] = <<n>> /\ \A x \in Pools \ {p} : ring'[x] = ring[x] /\ self'[x] = self[x]
      /\ self'[p] = n
  BY <1>0, <1>2 DEF Types
<1>8. Live' = Live \cup {p} /\ p \notin Live /\ ring[p] = << >>
  BY <1>2, <1>6, <1>7 DEF Live
<1>9. ToSet(ring[p]) = {}
  BY <1>8, EmptyList
<1> DEFINE room == Capacity(index'[n])
<1>10. room \in Int /\ POOL_SIZE \in Int /\ room >= POOL_SIZE
  <2>1. Capacity(1) <= room /\ Capacity(1) \in Int /\ room \in Int
    BY <1>4, CapacityFacts
  <2>2. POOL_SIZE \in Nat /\ POOL_SIZE <= Capacity(1)
    BY <2>1, SizesAssumption
  <2> HIDE DEF room
  <2> QED BY <2>1, <2>2
<1>11. /\ space'[n] = room - POOL_SIZE /\ space' \in [Nodes -> Int]
       /\ \A m \in Nodes \ {n} : space'[m] = space[m]
  <2>1. space' = [space EXCEPT ![n] = room - POOL_SIZE] /\ room - POOL_SIZE \in Int
    BY <1>2, <1>10
  <2> HIDE DEF room
  <2> QED BY <1>0, <2>1 DEF Rooms
<1>12. space'[n] >= 0
  <2> HIDE DEF room
  <2> QED BY <1>10, <1>11
<1>13. RingSorted'
  <2>1. \A x \in Live \ {p} : SortedSeq(ring[x], space', free_index')
    BY <1>0, <1>2, <1>5, <1>11, OthersSorted
  <2>2. SortedSeq(<<n>>, space', free_index')
    BY <1>12, OneSorted
  <2>3. ASSUME NEW x \in Live' PROVE SortedSeq(ring'[x], space', free_index')
    <3>1. CASE x = p
      BY <1>7, <2>2, <3>1
    <3>2. CASE x # p
      <4>1. x \in Live \ {p} /\ ring'[x] = ring[x]
        BY <1>7, <1>8, <3>2 DEF Live
      <4> QED BY <2>1, <4>1
    <3> QED BY <3>1, <3>2
  <2> QED BY <2>3, RingSortedStep
<1>14. Rings'
  <2> SUFFICES ASSUME NEW x \in Live' PROVE IsInjective(ring'[x]) /\ self'[x] \in ToSet(ring'[x])
    BY DEF Rings
  <2>1. CASE x = p
    BY <1>6, <1>7, <2>1
  <2>2. CASE x # p
    BY <1>0, <1>7, <1>8, <2>2 DEF Rings, Live
  <2> QED BY <2>1, <2>2
<1>15. Rooms'
  BY <1>0, <1>2, <1>11 DEF Rooms
<1>16. Placed'
  <2>1. ToSet(ring'[p]) = ToSet(ring[p]) \cup {n}
    BY <1>6, <1>7, <1>9
  <2> DEFINE i == 1
  <2>2. i \in Nat /\ i >= 1 /\ Allocates(i, n)
    BY <1>3
  <2> HIDE DEF i
  <2> QED BY <1>0, <1>2, <1>7, <2>1, <2>2, PlacedAlloc
<1>17. Gone'
  BY <1>1, <1>8, GoneStays
<1> QED BY <1>4, <1>13, <1>14, <1>15, <1>16, <1>17 DEF Mem

(* apr_pool_clear keeps the first node. *)
LEMMA ClearFreesMem ==
  ASSUME Inv, Mem, NEW t \in Threads, ClearFrees(t)
  PROVE  Mem'
<1> DEFINE p == Top(t).pool
           n == self[p]
           T == ToSet(ring[p]) \ {n}
<1>0. /\ Types /\ Calls /\ Tree /\ ~Idle(t)
      /\ Allocator /\ Placed /\ Rings /\ Rooms /\ RingSorted /\ Gone
  BY InvParts DEF Mem, ClearFrees, CleanupsDone
<1>1. /\ ring' = [ring EXCEPT ![p] = <<n>>]
      /\ space' = [m \in Nodes |-> IF m = n THEN Capacity(index[m]) - POOL_SIZE
                                   ELSE Forget(space, p)[m]]
      /\ free_index' = Forget(free_index, p)
      /\ IF Len(ring[p]) > 1 THEN allocator_free(Tail(FromSelf(p))) ELSE UNCHANGED allocator
      /\ self' = self
  BY DEF ClearFrees
<1>2. p \in Live /\ p \in Pools /\ n \in Nodes
  BY <1>0, TopOK, TopFacts DEF Types
<1>3. Root \in Live
  BY <1>0, <1>2, RootLives DEF Tree
<1> HIDE DEF p
<1>4. /\ ring[p] \in Seq(Nodes) /\ ring[p] # << >> /\ IsInjective(ring[p]) /\ n \in ToSet(ring[p])
      /\ ToSet(ring[p]) \subseteq Nodes
  BY <1>0, <1>2, ToSetDef DEF Types, Rings, Live
<1>5. <<n>> \in Seq(Nodes) /\ <<n>> # << >> /\ ToSet(<<n>>) = {n} /\ IsInjective(<<n>>)
  BY <1>2, OneList
<1>6. ring'[p] = <<n>> /\ \A x \in Pools \ {p} : ring'[x] = ring[x]
  BY <1>0, <1>1, <1>2 DEF Types
<1>7. Live' = Live
  BY <1>2, <1>5, <1>6 DEF Live
<1>8. Allocator' /\ Placed'
  <2>1. CASE Len(ring[p]) > 1
    <3> DEFINE r == Tail(FromSelf(p))
    <3>1. r \in Seq(Nodes) /\ IsInjective(r) /\ ToSet(r) = T
      BY <1>0, <1>2, SelfFirst
    <3>2. allocator_free(r)
      BY <1>1, <2>1
    <3> HIDE DEF r
    <3>3. Chain(r)
      BY <1>0, <1>2, <3>1, RingChain
    <3>4. Frees(T)
      BY <1>0, <3>1, <3>2, <3>3, FreeFacts
    <3>5. ToSet(ring'[p]) = ToSet(ring[p]) \ T
      BY <1>4, <1>5, <1>6
    <3>6. Placed'
      <4>1. T \in SUBSET ToSet(ring[p]) /\ T \subseteq Nodes
        BY <1>4
      <4> HIDE DEF T
      <4> QED BY <1>0, <1>2, <1>6, <3>4, <3>5, <4>1, PlacedFree
    <3> QED BY <3>4, <3>6 DEF Frees
  <2>2. CASE ~(Len(ring[p]) > 1)
    <3>1. Allocator' /\ Held(free') = Held(free) /\ index' = index
      BY <1>0, <1>1, <2>2, AllocatorSame
    <3>2. ToSet(ring[p]) = {n}
      <4> DEFINE N == Len(ring[p])
      <4>1. N \in Nat /\ ToSet(ring[p]) = {ring[p][k] : k \in 1 .. N}
        BY <1>4, ToSetDef
      <4> HIDE DEF N
      <4>2. \A k \in 1 .. N : k = 1
        BY <2>2, <4>1 DEF N
      <4> QED BY <1>4, <4>1, <4>2
    <3>3. \A x \in Pools : ToSet(ring'[x]) = ToSet(ring[x])
      BY <1>5, <1>6, <3>2
    <3> QED BY <1>0, <3>1, <3>3, PlacedSame
  <2> QED BY <2>1, <2>2
<1>9. index[n] \in Nat /\ index[n] >= 1
  <2>1. index[n] \in Nat /\ index[n] # 0
    BY <1>0, <1>2, <1>4 DEF Allocator, Placed
  <2> QED BY <2>1
<1> DEFINE room == Capacity(index[n])
<1>10. room \in Int /\ POOL_SIZE \in Int /\ room >= POOL_SIZE
  <2>1. Capacity(1) <= room /\ Capacity(1) \in Int /\ room \in Int
    BY <1>9, CapacityFacts
  <2>2. POOL_SIZE \in Nat /\ POOL_SIZE <= Capacity(1)
    BY <2>1, SizesAssumption
  <2> HIDE DEF room
  <2> QED BY <2>1, <2>2
<1>11. space'[n] = room - POOL_SIZE /\ space'[n] >= 0
  <2>1. space'[n] = room - POOL_SIZE
    BY <1>1, <1>2
  <2> HIDE DEF room
  <2> QED BY <1>10, <2>1
<1>12. ASSUME NEW m \in Nodes
       PROVE  /\ space'[m] \in Int /\ free_index'[m] \in Int
              /\ m \notin ToSet(ring[p]) => space'[m] = space[m] /\ free_index'[m] = free_index[m]
  <2>1. CASE m = n
    BY <1>0, <1>1, <1>4, <1>10, <1>11, <2>1 DEF Forget, Rooms
  <2>2. CASE m # n
    BY <1>0, <1>1, <2>2 DEF Forget, Rooms
  <2> QED BY <2>1, <2>2
<1>13. Rooms'
  <2>1. /\ space' = [m \in Nodes |-> space'[m]] /\ free_index' = [m \in Nodes |-> free_index'[m]]
    BY <1>1 DEF Forget
  <2> QED BY <1>12, <2>1 DEF Rooms
<1>14. RingSorted'
  <2>1. \A x \in Live \ {p} : SortedSeq(ring[x], space', free_index')
    <3>1. \A x \in Pools \ {p} : n \notin ToSet(ring[x])
      BY <1>0, <1>2, <1>4 DEF Placed
    <3> QED BY <1>0, <1>2, <1>12, <3>1, OthersSorted
  <2>2. SortedSeq(<<n>>, space', free_index')
    <3> HIDE DEF n
    <3> QED BY <1>2, <1>11, OneSorted
  <2>3. ASSUME NEW x \in Live' PROVE SortedSeq(ring'[x], space', free_index')
    <3>1. CASE x = p
      BY <1>6, <2>2, <3>1
    <3>2. CASE x # p
      <4>1. x \in Live \ {p} /\ ring'[x] = ring[x]
        BY <1>6, <1>7, <3>2 DEF Live
      <4> QED BY <2>1, <4>1
    <3> QED BY <3>1, <3>2
  <2> QED BY <2>3, RingSortedStep
<1>15. Rings'
  <2> SUFFICES ASSUME NEW x \in Live' PROVE IsInjective(ring'[x]) /\ self'[x] \in ToSet(ring'[x])
    BY DEF Rings
  <2>1. CASE x = p
    BY <1>1, <1>5, <1>6, <2>1
  <2>2. CASE x # p
    BY <1>0, <1>1, <1>6, <1>7, <2>2 DEF Rings, Live
  <2> QED BY <2>1, <2>2
<1>16. Gone'
  BY <1>3, <1>7, GoneStays
<1> QED BY <1>8, <1>13, <1>14, <1>15, <1>16 DEF Mem

(* The allocator with empty bins. *)
LEMMA EmptyBins ==
  ASSUME NEW fr, fr = [j \in Slots |-> << >>]
  PROVE  Held(fr) = {} /\ BinsOK(fr, 0) /\ Boundaries({}) = {} /\ Cardinality({}) = 0
<1>1. fr \in [Slots -> Seq(Nodes)] /\ \A j \in Slots : fr[j] = << >> /\ ToSet(fr[j]) = {}
                                                       /\ IsInjective(fr[j])
  BY EmptyList
<1>2. Held(fr) = {}
  BY <1>1 DEF Held
<1>3. BinsOK(fr, 0)
  BY <1>1, SlotFacts DEF BinsOK
<1>4. Boundaries({}) = {}
  BY DEF Boundaries
<1> QED BY <1>2, <1>3, <1>4, FS_EmptySet

(* The root goes last: no pool is left but it. *)
LEMMA RootLast ==
  ASSUME Types, Calls, Tree, Emptied, NEW t \in Threads, ~Idle(t), Top(t).at = "free",
         Top(t).pool = Root
  PROVE  Live \subseteq {Root}
<1> DEFINE S == Live \ {Root}
<1>1. \A x \in S : parent[x] # Root
  BY Childless
<1>2. \A x \in S : parent[x] \in S
  BY <1>1 DEF Tree, Parents
<1>3. S \in SUBSET (Live \ {Root})
  OBVIOUS
<1>4. S = {}
  BY <1>2, <1>3 DEF Tree, Acyclic
<1> QED BY <1>4

LEMMA DestroyFreesMem ==
  ASSUME Inv, Mem, NEW t \in Threads, DestroyFrees(t)
  PROVE  Mem'
<1> DEFINE p == Top(t).pool
<1>0. /\ Types /\ Calls /\ Tree /\ Emptied /\ ~Idle(t) /\ Top(t).at = "free"
      /\ Allocator /\ Placed /\ Rings /\ Rooms /\ RingSorted /\ Gone
  BY InvParts DEF Mem, DestroyFrees, At
<1>1. /\ IF p = Root THEN apr_allocator_destroy(FromSelf(p)) ELSE allocator_free(FromSelf(p))
      /\ ring' = [ring EXCEPT ![p] = << >>]
      /\ space' = Forget(space, p) /\ free_index' = Forget(free_index, p)
      /\ self' = [self EXCEPT ![p] = NULL]
  BY DEF DestroyFrees
<1>2. p \in Live /\ p \in Pools
  BY <1>0, TopOK, TopFacts
<1>3. Root \in Live
  BY <1>0, <1>2, RootLives DEF Tree
<1>4. p = Root => Live \subseteq {Root}
  BY <1>0, RootLast
<1> HIDE DEF p
<1>5. /\ ring'[p] = << >> /\ \A x \in Pools \ {p} : ring'[x] = ring[x] /\ self'[x] = self[x]
      /\ ToSet(ring'[p]) = {}
  BY <1>0, <1>1, <1>2, EmptyList DEF Types
<1>6. Live' = Live \ {p}
  BY <1>2, <1>5 DEF Live
<1> DEFINE r == FromSelf(p)
<1>7. r \in Seq(Nodes) /\ IsInjective(r) /\ ToSet(r) = ToSet(ring[p]) /\ ToSet(r) \subseteq Nodes
  BY <1>0, <1>2, SelfFirst, ToSetDef
<1>8. /\ space' \in [Nodes -> Int] /\ free_index' \in [Nodes -> Int]
      /\ \A m \in Nodes : m \notin ToSet(ring[p]) =>
           space'[m] = space[m] /\ free_index'[m] = free_index[m]
  BY <1>0, <1>1 DEF Forget, Rooms
<1>9. RingSorted'
  <2>1. \A x \in Live \ {p} : SortedSeq(ring[x], space', free_index')
    <3>1. self[p] \in ToSet(ring[p])
      BY <1>0, <1>2 DEF Rings
    <3>2. \A x \in Pools \ {p} : self[p] \notin ToSet(ring[x])
      BY <1>0, <1>2, <3>1 DEF Placed
    <3> QED BY <1>0, <1>2, <1>8, <3>2, OthersSorted
  <2>2. ASSUME NEW x \in Live' PROVE SortedSeq(ring'[x], space', free_index')
    <3>1. x \in Live \ {p} /\ ring'[x] = ring[x]
      BY <1>5, <1>6 DEF Live
    <3> QED BY <2>1, <3>1
  <2> QED BY <2>2, RingSortedStep
<1>10. Rings'
  <2> SUFFICES ASSUME NEW x \in Live' PROVE IsInjective(ring'[x]) /\ self'[x] \in ToSet(ring'[x])
    BY DEF Rings
  <2> QED BY <1>0, <1>5, <1>6 DEF Rings, Live
<1>11. Rooms'
  BY <1>8 DEF Rooms
<1> HIDE DEF r
<1>12. CASE p # Root
  <2>1. allocator_free(r)
    BY <1>1, <1>12 DEF r
  <2>2. Chain(r)
    BY <1>0, <1>2, <1>7, RingChain
  <2>3. Frees(ToSet(r))
    BY <1>0, <2>1, <2>2, FreeFacts
  <2>4. Placed'
    <3> DEFINE T == ToSet(r)
    <3>1. /\ T \in SUBSET ToSet(ring[p]) /\ T \subseteq Nodes /\ Frees(T)
          /\ ToSet(ring'[p]) = ToSet(ring[p]) \ T
      BY <1>5, <1>7, <2>3
    <3> HIDE DEF T
    <3> QED BY <1>0, <1>2, <1>5, <3>1, PlacedFree
  <2>5. Gone'
    BY <1>3, <1>6, <1>12, GoneStays
  <2> QED BY <1>9, <1>10, <1>11, <2>3, <2>4, <2>5 DEF Frees, Mem
<1>13. CASE p = Root
  <2>1. /\ free' = [j \in Slots |-> << >>]
        /\ index' = [n \in Nodes |-> IF n \in Retained \cup ToSet(r) THEN 0 ELSE index[n]]
        /\ max_index' = 0 /\ max_free_index' = 0 /\ current_free_index' = 0
    BY <1>1, <1>13 DEF apr_allocator_destroy, r
  <2>2. Held(free') = {} /\ BinsOK(free', 0) /\ Boundaries({}) = {} /\ Cardinality({}) = 0
    BY <2>1, EmptyBins
  <2>3. Retained = Held(free)
    BY DEF Retained, Held
  <2>4. \A x \in Pools \ {p} : ToSet(ring[x]) = {}
    <3>1. \A x \in Pools \ {p} : ring[x] = << >>
      BY <1>4, <1>13 DEF Live
    <3> QED BY <3>1, EmptyList
  <2>5. \A n \in Nodes : index'[n] = 0
    <3>1. \A n \in Nodes : index[n] # 0 => n \in Retained \cup ToSet(r)
      BY <1>0, <1>7, <2>3, <2>4 DEF Placed
    <3> QED BY <2>1, <3>1
  <2>6. \A x \in Pools : ToSet(ring'[x]) = {}
    BY <1>5, <2>4
  <2>7. Held(free)' = {}
    BY <2>2 DEF Held
  <2>8. Placed'
    BY <2>5, <2>6, <2>7 DEF Placed
  <2>9. Gone'
    BY <2>7 DEF Gone
  <2>10. Allocator'
    <3>1. index' \in [Nodes -> Nat]
      BY <2>1, <2>5
    <3>2. max_free_index' \in 0 .. Word - 1
      BY <2>1, SlotFacts
    <3>3. BinsOK(free, max_index)'
      <4>1. free' \in [Slots -> Seq(Nodes)] /\ \A j \in Slots : ToSet(free'[j]) = {}
        BY <2>1, EmptyList
      <4> QED BY <2>1, <2>2, <4>1 DEF BinsOK
    <3>4. LimitOK(Held(free), current_free_index)'
      BY <2>1 DEF LimitOK
    <3> QED BY <3>1, <3>2, <3>3, <3>4 DEF Allocator
  <2> QED BY <1>9, <1>10, <1>11, <2>8, <2>9, <2>10 DEF Mem
<1> QED BY <1>12, <1>13

LEMMA MaxFreeMem ==
  ASSUME Mem, NEW max \in MaxFrees, MaxFreeSet(max)
  PROVE  Mem'
<1>0. /\ Allocator /\ Placed /\ Rings /\ Rooms /\ RingSorted /\ Gone
      /\ Live = {Root} /\ Retained = {} /\ UNCHANGED <<ring, self, space, free_index>>
      /\ UNCHANGED <<free, max_index, index>> /\ max_free_index' = max
      /\ max \in 0 .. Word - 1
  BY SizesAssumption DEF Mem, MaxFreeSet, memory, apr_allocator_max_free_set
<1>1. Held(free) = {} /\ Held(free') = {} /\ Held(free)' = {} /\ Live' = Live
  BY <1>0 DEF Retained, Held, Live
<1>2. Boundaries({}) = {} /\ Cardinality({}) = 0
  BY FS_EmptySet DEF Boundaries
<1> DEFINE cu == current_free_index
           mf == max_free_index
           sum == (cu + max - mf) % Word
<1>3. cu \in 0 .. mf /\ (mf # 0 => cu = mf) /\ mf \in Nat
  <2>1. mf \in 0 .. Word - 1 /\ cu \in 0 .. mf /\ (mf # 0 => Cardinality({}) + cu = mf)
    BY <1>0, <1>1, <1>2 DEF Allocator, LimitOK
  <2> HIDE DEF cu, mf
  <2> QED BY <1>2, <2>1
<1>4. current_free_index' = IF sum > max THEN max ELSE sum
  BY <1>0 DEF MaxFreeSet, apr_allocator_max_free_set
<1>5. current_free_index' = max
  <2> HIDE DEF cu, mf
  <2>1. cu + max - mf = max
    BY <1>0, <1>3
  <2>2. sum = max
    BY <1>0, <2>1, SlotFacts
  <2> QED BY <1>4, <2>2
<1>6. LimitOK(Held(free), current_free_index)'
  <2>1. Boundaries(Held(free))' = {}
    BY <1>1 DEF Boundaries
  <2>2. max \in Nat
    BY <1>0
  <2> QED BY <1>0, <1>2, <1>5, <2>1, <2>2 DEF LimitOK
<1>7. BinsOK(free, max_index)'
  BY <1>0 DEF Allocator, BinsOK, InBin
<1>8. Allocator'
  BY <1>0, <1>6, <1>7 DEF Allocator
<1>9. Placed'
  BY <1>0, <1>1, PlacedSame
<1>10. Rings' /\ Rooms' /\ RingSorted' /\ Gone'
  BY <1>0, <1>1 DEF Rings, Rooms, RingSorted, Gone
<1> QED BY <1>8, <1>9, <1>10 DEF Mem

LEMMA InitMem == Init => Mem
<1> SUFFICES ASSUME Init PROVE Mem
  OBVIOUS
<1>1. PICK n \in Nodes :
        /\ index = [m \in Nodes |-> IF m = n THEN 1 ELSE 0]
        /\ ring = [p \in Pools |-> IF p = Root THEN <<n>> ELSE << >>]
        /\ self = [p \in Pools |-> IF p = Root THEN n ELSE NULL]
        /\ space = [m \in Nodes |-> IF m = n THEN Capacity(1) - POOL_SIZE ELSE 0]
  BY DEF Init
<1>2. /\ free = [j \in Slots |-> << >>] /\ max_index = 0 /\ max_free_index = 0
      /\ current_free_index = 0 /\ free_index = [m \in Nodes |-> 0]
  BY DEF Init, AllocatorInit
<1>3. Held(free) = {} /\ BinsOK(free, 0) /\ Boundaries({}) = {} /\ Cardinality({}) = 0
  BY <1>2, EmptyBins
<1>4. Allocator
  <2>1. index \in [Nodes -> Nat] /\ max_free_index \in 0 .. Word - 1
    BY <1>1, <1>2, SlotFacts
  <2>2. LimitOK(Held(free), current_free_index)
    BY <1>2 DEF LimitOK
  <2> QED BY <1>2, <1>3, <2>1, <2>2 DEF Allocator
<1>5. <<n>> # << >> /\ ToSet(<<n>>) = {n} /\ IsInjective(<<n>>) /\ ToSet(<< >>) = {}
  BY OneList, EmptyList
<1>6. Live = {Root} /\ Root \in Pools /\ ring[Root] = <<n>> /\ self[Root] = n
  BY <1>1, <1>5, PoolsAssumption DEF Live
<1>7. ToSet(ring[Root]) = {n} /\ \A p \in Pools \ {Root} : ToSet(ring[p]) = {}
  BY <1>1, <1>5, <1>6
<1>8. Placed
  <2>1. \A m \in Nodes : index[m] # 0 <=> m = n
    BY <1>1
  <2> HIDE DEF Init
  <2>2. \A p, q \in Pools : p # q => ToSet(ring[p]) \cap ToSet(ring[q]) = {}
    BY <1>7
  <2> QED BY <1>3, <1>6, <1>7, <2>1, <2>2 DEF Placed
<1>9. Rings
  BY <1>5, <1>6 DEF Rings
<1>10. POOL_SIZE \in Nat /\ Capacity(1) \in Int /\ POOL_SIZE <= Capacity(1)
  <2>1. Capacity(1) \in Int
    BY CapacityFacts
  <2> QED BY <2>1, SizesAssumption
<1>11. Capacity(1) - POOL_SIZE \in Int /\ Capacity(1) - POOL_SIZE >= 0
  BY <1>10
<1>12. Rooms
  BY <1>1, <1>2, <1>11 DEF Rooms
<1>13. space[n] >= 0
  BY <1>1, <1>11
<1>14. RingSorted
  <2>1. SortedSeq(<<n>>, space, free_index)
    BY <1>13, OneSorted
  <2> QED BY <1>6, <2>1, RingSortedDef
<1>15. Gone
  BY <1>3 DEF Gone
<1> QED BY <1>4, <1>8, <1>9, <1>12, <1>14, <1>15 DEF Mem

LEMMA NextMem == Inv /\ Mem /\ [Next]_vars => Mem'
<1> SUFFICES ASSUME Inv, Mem, [Next]_vars PROVE Mem'
  OBVIOUS
<1>1. ASSUME NEW max \in MaxFrees, MaxFreeSet(max) PROVE Mem'
  BY <1>1, MaxFreeMem
<1>2. ASSUME NEW t \in Threads, NEW p \in Pools,
             \/ apr_pool_create(t, p)
             \/ apr_pool_clear(t, p)
             \/ apr_pool_destroy(t, p)
             \/ \E size \in Requests : apr_palloc(t, p, size)
             \/ \E k \in Cleanups :
                  \/ apr_pool_cleanup_register(t, p, k)
                  \/ apr_pool_cleanup_kill(t, p, k)
      PROVE  Mem'
  <2>1. CASE apr_pool_create(t, p)
    BY <2>1, CreateMem
  <2>2. CASE \E size \in Requests : apr_palloc(t, p, size)
    BY <2>2, PallocMem
  <2>3. CASE \/ apr_pool_clear(t, p) \/ apr_pool_destroy(t, p)
             \/ \E k \in Cleanups : \/ apr_pool_cleanup_register(t, p, k)
                                    \/ apr_pool_cleanup_kill(t, p, k)
    <3>1. UNCHANGED <<allocator, memory>>
      BY <2>3 DEF apr_pool_clear, apr_pool_destroy, apr_pool_cleanup_register, apr_pool_cleanup_kill
    <3> QED BY <3>1, MemSame
  <2> QED BY <1>2, <2>1, <2>2, <2>3
<1>3. ASSUME NEW t \in Threads,
             \/ CreateLinks(t)
             \/ run_cleanups(t)
             \/ DestroySubpools(t)
             \/ ClearFrees(t)
             \/ DestroyUnlinks(t)
             \/ DestroyFrees(t)
      PROVE  Mem'
  <2>1. CASE CreateLinks(t) \/ run_cleanups(t) \/ DestroySubpools(t) \/ DestroyUnlinks(t)
    <3>1. UNCHANGED <<allocator, memory>>
      BY <2>1 DEF CreateLinks, run_cleanups, DestroySubpools, DestroyUnlinks
    <3> QED BY <3>1, MemSame
  <2>2. CASE ClearFrees(t)
    BY <2>2, ClearFreesMem
  <2>3. CASE DestroyFrees(t)
    BY <2>3, DestroyFreesMem
  <2> QED BY <1>3, <2>1, <2>2, <2>3
<1>4. ASSUME UNCHANGED vars PROVE Mem'
  <2>1. UNCHANGED <<allocator, memory>>
    BY <1>4 DEF vars
  <2> QED BY <2>1, MemSame
<1> QED BY <1>1, <1>2, <1>3, <1>4 DEF Next

(* The memory stays consistent through every critical section of the      *)
(* allocator's mutex: a node is with the system, in one ring or in the    *)
(* bin of its size, whichever threads allocate, clear and destroy.        *)
THEOREM MemoryInvariant == Spec => [](Inv /\ Mem)
BY InitInv, InitMem, NextInv, NextMem, PTL DEF Spec

LEMMA MemBins ==
  ASSUME Mem
  PROVE  BinsRight
<1>1. /\ free \in [Slots -> Seq(Nodes)] /\ max_index \in Slots
      /\ \A j \in Slots : IsInjective(free[j]) /\ \A n \in ToSet(free[j]) : InBin(n, j)
      /\ max_index = 0 \/ free[max_index] # << >>
      /\ \A j \in Slots : free[j] # << >> => j <= max_index
  BY DEF Mem, Allocator, BinsOK
<1> DEFINE T == {j \in Slots : j = 0 \/ free[j] # << >>}
<1>2. T \in SUBSET Nat /\ T # {} /\ max_index \in T /\ max_index \in Nat
  BY <1>1, SlotFacts
<1>3. \A j \in T : j <= max_index
  BY <1>1, <1>2
<1>4. Max(T) \in T /\ \A j \in T : j <= Max(T)
  <2> HIDE DEF T
  <2> QED BY <1>2, <1>3, MaxOf
<1>5. max_index = Max(T)
  <2> DEFINE m == Max(T)
  <2>1. m \in Nat /\ m <= max_index /\ max_index <= m
    BY <1>2, <1>3, <1>4
  <2> HIDE DEF m, T
  <2> QED BY <1>2, <2>1 DEF m
<1> QED BY <1>1, <1>5 DEF BinsRight, InBin

(* Every node that allocator_free keeps is in the bin of its size and in  *)
(* one only, and max_index is the highest bin in use, for any number of   *)
(* nodes, bins and threads.                                               *)
THEOREM BinsStayRight == Spec => []BinsRight
BY MemoryInvariant, MemBins, PTL

LEMMA MemLimit ==
  ASSUME Mem
  PROVE  KeptWithinLimit
<1>1. Retained = Held(free)
  BY DEF Retained, Held
<1> QED BY <1>1 DEF Mem, Allocator, LimitOK, KeptWithinLimit, Kept

(* allocator_free keeps no more than apr_allocator_max_free_set allows,   *)
(* and current_free_index is exactly what is left of the limit, through   *)
(* the modular arithmetic of allocator_alloc and allocator_free.          *)
THEOREM LimitKept == Spec => []KeptWithinLimit
BY MemoryInvariant, MemLimit, PTL

LEMMA MemPlaces ==
  ASSUME Mem, Inv
  PROVE  NodesAccounted
<1>0. Allocator /\ Placed /\ Rings /\ Gone
  BY DEF Mem
<1>1. index \in [Nodes -> Nat] /\ BinsOK(free, max_index) /\ free \in [Slots -> Seq(Nodes)]
  BY <1>0 DEF Allocator, BinsOK
<1>2. ASSUME NEW n \in Nodes
      PROVE  Cardinality({p \in Pools : n \in ToSet(ring[p])} \cup {j \in Slots : n \in ToSet(free[j])})
               = IF index[n] = 0 THEN 0 ELSE 1
  <2> DEFINE P == {p \in Pools : n \in ToSet(ring[p])}
             J == {j \in Slots : n \in ToSet(free[j])}
  <2>1. J # {} <=> n \in Held(free)
    BY <1>1, HeldFacts
  <2>2. CASE index[n] = 0
    <3>1. P = {} /\ n \notin Held(free)
      BY <1>0, <2>2 DEF Placed
    <3>2. P \cup J = {}
      BY <2>1, <3>1
    <3> QED BY <2>2, <3>2, FS_EmptySet
  <2>3. CASE index[n] # 0 /\ n \in Held(free)
    <3>1. P = {}
      BY <1>0, <2>3 DEF Placed
    <3>2. \A j, k \in J : j = k
      BY <1>1, <2>3, InBinFacts
    <3>3. PICK j \in J : TRUE
      BY <2>1, <2>3
    <3>4. P \cup J = {j}
      <4> HIDE DEF P, J
      <4> QED BY <3>1, <3>2, <3>3
    <3> QED BY <2>3, <3>4, FS_Singleton
  <2>4. CASE index[n] # 0 /\ n \notin Held(free)
    <3>1. J = {}
      BY <2>1, <2>4
    <3>2. PICK p \in P : TRUE
      BY <1>0, <2>4 DEF Placed
    <3>3. \A q \in P : q = p
      BY <1>0, <3>2 DEF Placed
    <3>4. P \cup J = {p}
      <4> HIDE DEF P, J
      <4> QED BY <3>1, <3>2, <3>3
    <3> QED BY <2>4, <3>4, FS_Singleton
  <2> QED BY <2>2, <2>3, <2>4
<1>3. \A p \in Live : IsInjective(ring[p]) /\ self[p] \in ToSet(ring[p])
  BY <1>0 DEF Rings
<1>4. ASSUME Root \notin Live, NEW n \in Nodes
      PROVE  index[n] = 0
  <2>1. \A p \in Pools : p \notin Live
    BY <1>4, RootLives DEF Inv, Tree
  <2>2. \A p \in Pools : ring[p] = << >>
    BY <2>1 DEF Live
  <2>3. \A p \in Pools : n \notin ToSet(ring[p])
    BY <2>2, EmptyList
  <2>4. n \notin Held(free)
    BY <1>0, <1>4 DEF Gone
  <2> QED BY <1>0, <2>3, <2>4 DEF Placed
<1> QED BY <1>2, <1>3, <1>4 DEF NodesAccounted

(* Every node the allocator got from the system is in exactly one place,   *)
(* the ring of one pool or one bin; a live pool keeps the node its         *)
(* structure lies in; and with the root pool everything went back.         *)
THEOREM NodesInOnePlace == Spec => []NodesAccounted
BY MemoryInvariant, MemPlaces, PTL

LEMMA MemSorted ==
  ASSUME Mem
  PROVE  RingSorted
BY DEF Mem

(* The nodes behind the active one stay sorted by what is left in them,    *)
(* through apr_palloc's lazy re-sorting, clears and destroys.              *)
THEOREM RingsStaySorted == Spec => []RingSorted
BY MemoryInvariant, MemSorted, PTL
=============================================================================
