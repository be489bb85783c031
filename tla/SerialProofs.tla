---------------------------- MODULE SerialProofs ----------------------------
(***************************************************************************)
(* Theorems about Serial, for values of any size and depth.  The facts     *)
(* about the recursive functions are inductions, carried out with a least  *)
(* counterexample: a shallowest value of which the fact is not true.       *)
(***************************************************************************)
EXTENDS Serial, FiniteSetTheorems, SequenceTheorems, TLAPS

-----------------------------------------------------------------------------
(* Induction. *)

Less == { ss \in Nat \X Nat : ss[1] < ss[2] }

(* A set of naturals has a least element.                                  *)
LEMMA Least ==
    ASSUME NEW S \in SUBSET Nat, S # {}
    PROVE  \E m \in S : \A k \in S : m <= k
<1>1. IsWellFoundedOn(Less, Nat)
  BY NatLessThanWellFounded, Zenon DEF OpToRel, Less
<1>2. PICK m \in S : \A k \in S : <<k, m>> \notin Less
  BY <1>1, WFMin
<1>3. \A a, b \in Nat : a < b => <<a, b>> \in Less
  BY DEF Less
<1>4. \A k \in S : ~(k < m)
  BY <1>2, <1>3
<1>5. QED
  BY <1>4

(* Of the values in a set, one has nothing inside that is in the set.      *)
LEMMA Shallowest ==
    ASSUME NEW Bad \in SUBSET Value, Bad # {}
    PROVE  \E v \in Bad : \A x \in Children(v) : x \notin Bad
<1> DEFINE D == { Depth(v) : v \in Bad }
<1>1. D \in SUBSET Nat /\ D # {}
  BY ValueAssumption
<1>2. PICK m \in D : \A k \in D : m <= k
  BY <1>1, Least
<1>3. PICK v \in Bad : Depth(v) = m
  BY <1>2
<1>4. ASSUME NEW x \in Children(v), x \in Bad PROVE FALSE
  <2>1. Depth(x) \in D
    BY <1>4
  <2>2. Depth(v) <= Depth(x)
    BY <1>2, <1>3, <2>1
  <2>3. Depth(x) < Depth(v) /\ Depth(x) \in Nat /\ Depth(v) \in Nat
    BY <1>4, ValueAssumption
  <2>4. QED
    BY <2>2, <2>3
<1>5. QED
  BY <1>3, <1>4

-----------------------------------------------------------------------------
(* Lexicographic order is a strict total order. *)

LEMMA BeforeIrreflexive ==
    ASSUME NEW a \in Seq(Int)
    PROVE  ~Before(a, a)
BY DEF Before

(* The place where the one comes before the other.                         *)
Parts(a, b, i) ==
    /\ i \in 1 .. Len(b)
    /\ \A j \in 1 .. i - 1 : j <= Len(a) /\ a[j] = b[j]
    /\ i > Len(a) \/ a[i] < b[i]

LEMMA BeforeTransitive ==
    ASSUME NEW a \in Seq(Int), NEW b \in Seq(Int), NEW c \in Seq(Int),
           Before(a, b), Before(b, c)
    PROVE  Before(a, c)
<1>1. PICK i \in 1 .. Len(b) : Parts(a, b, i)
  BY DEF Before, Parts
<1>2. PICK j \in 1 .. Len(c) : Parts(b, c, j)
  BY DEF Before, Parts
<1>3. Len(a) \in Nat /\ Len(b) \in Nat /\ Len(c) \in Nat /\ i \in Int /\ j \in Int
  BY LenProperties
<1>4. /\ \A k \in 1 .. Len(a) : a[k] \in Int
      /\ \A k \in 1 .. Len(b) : b[k] \in Int
      /\ \A k \in 1 .. Len(c) : c[k] \in Int
  BY ElementOfSeq
<1>5. CASE i < j
  <2>1. i <= Len(b) /\ b[i] = c[i] /\ i \in 1 .. Len(c)
    BY <1>2, <1>3, <1>5 DEF Parts
  <2>2. \A k \in 1 .. i - 1 : k <= Len(a) /\ a[k] = c[k]
    <3>1. \A k \in 1 .. i - 1 : k <= Len(a) /\ a[k] = b[k]
      BY <1>1 DEF Parts
    <3>2. \A k \in 1 .. i - 1 : b[k] = c[k]
      BY <1>2, <1>3, <1>5 DEF Parts
    <3>3. QED
      BY <3>1, <3>2
  <2>3. i > Len(a) \/ a[i] < c[i]
    BY <1>1, <2>1 DEF Parts
  <2>4. QED
    BY <2>1, <2>2, <2>3 DEF Before
<1>6. CASE i = j
  <2>1. \A k \in 1 .. j - 1 : k <= Len(a) /\ a[k] = c[k]
    <3>1. \A k \in 1 .. j - 1 : k <= Len(a) /\ a[k] = b[k]
      BY <1>1, <1>6 DEF Parts
    <3>2. \A k \in 1 .. j - 1 : b[k] = c[k]
      BY <1>2 DEF Parts
    <3>3. QED
      BY <3>1, <3>2
  <2>2. j > Len(a) \/ a[j] < c[j]
    <3>1. j > Len(a) \/ a[j] < b[j]
      BY <1>1, <1>6 DEF Parts
    <3>2. b[j] < c[j]
      BY <1>1, <1>2, <1>3, <1>6 DEF Parts
    <3>3. CASE ~(j > Len(a))
      <4>1. a[j] \in Int /\ b[j] \in Int /\ c[j] \in Int
        <5>1. j \in 1 .. Len(a) /\ j \in 1 .. Len(b) /\ j \in 1 .. Len(c)
          BY <1>3, <1>6, <3>3
        <5>2. QED
          BY <1>4, <5>1
      <4>2. a[j] < b[j]
        BY <3>1, <3>3
      <4>3. QED
        BY <3>2, <4>1, <4>2
    <3>4. QED
      BY <3>3
  <2>3. QED
    BY <2>1, <2>2 DEF Before
<1>7. CASE j < i
  <2>1. j <= Len(a) /\ a[j] = b[j] /\ j <= Len(b)
    BY <1>1, <1>2, <1>3, <1>7 DEF Parts
  <2>2. \A k \in 1 .. j - 1 : k <= Len(a) /\ a[k] = c[k]
    <3>1. \A k \in 1 .. j - 1 : k <= Len(a) /\ a[k] = b[k]
      BY <1>1, <1>3, <1>7 DEF Parts
    <3>2. \A k \in 1 .. j - 1 : b[k] = c[k]
      BY <1>2 DEF Parts
    <3>3. QED
      BY <3>1, <3>2
  <2>3. a[j] < c[j]
    BY <1>2, <1>3, <2>1 DEF Parts
  <2>4. QED
    BY <2>2, <2>3 DEF Before
<1>8. QED
  BY <1>3, <1>5, <1>6, <1>7

LEMMA BeforeTotal ==
    ASSUME NEW a \in Seq(Int), NEW b \in Seq(Int), a # b
    PROVE  Before(a, b) \/ Before(b, a)
<1> DEFINE D == { i \in Nat \ {0} : i <= Len(a) /\ i <= Len(b) /\ a[i] # b[i] }
<1>1. Len(a) \in Nat /\ Len(b) \in Nat
  BY LenProperties
<1>2. /\ \A k \in 1 .. Len(a) : a[k] \in Int
      /\ \A k \in 1 .. Len(b) : b[k] \in Int
  BY ElementOfSeq
<1>3. CASE D # {}
  <2>1. D \in SUBSET Nat
    OBVIOUS
  <2>2. PICK m \in D : \A k \in D : m <= k
    BY <1>3, <2>1, Least
  <2>3. m \in 1 .. Len(a) /\ m \in 1 .. Len(b) /\ (a[m] < b[m] \/ b[m] < a[m])
    BY <1>1, <1>2, <2>2
  <2>4. \A k \in 1 .. m - 1 : k <= Len(a) /\ k <= Len(b) /\ a[k] = b[k]
    BY <1>1, <2>2, <2>3
  <2>5. QED
    BY <2>3, <2>4 DEF Before
<1>4. CASE D = {}
  <2>1. \A k \in Nat \ {0} : k <= Len(a) /\ k <= Len(b) => a[k] = b[k]
    BY <1>4
  <2>2. Len(a) # Len(b)
    <3> SUFFICES ASSUME Len(a) = Len(b) PROVE FALSE
      OBVIOUS
    <3>1. \A k \in 1 .. Len(a) : a[k] = b[k]
      BY <1>1, <2>1
    <3>2. QED
      BY <3>1, SeqEqual
  <2>3. CASE Len(a) < Len(b)
    <3>1. Len(a) + 1 \in 1 .. Len(b) /\ Len(a) + 1 > Len(a)
      BY <1>1, <2>3
    <3>2. \A k \in 1 .. (Len(a) + 1) - 1 : k <= Len(a) /\ a[k] = b[k]
      BY <1>1, <2>1, <2>3
    <3>3. QED
      BY <3>1, <3>2 DEF Before
  <2>4. CASE Len(b) < Len(a)
    <3>1. Len(b) + 1 \in 1 .. Len(a) /\ Len(b) + 1 > Len(b)
      BY <1>1, <2>4
    <3>2. \A k \in 1 .. (Len(b) + 1) - 1 : k <= Len(b) /\ b[k] = a[k]
      BY <1>1, <2>1, <2>4
    <3>3. QED
      BY <3>1, <3>2 DEF Before
  <2>5. QED
    BY <1>1, <2>2, <2>3, <2>4
<1>5. QED
  BY <1>3, <1>4

-----------------------------------------------------------------------------
(* Values and entries. *)

LEMMA EncodeType ==
    ASSUME NEW v \in Value
    PROVE  encode(v) \in Seq(Int)
BY EncodeAssumption

LEMMA EncodeInjective ==
    ASSUME NEW v \in Value, NEW w \in Value, encode(v) = encode(w)
    PROVE  v = w
BY EncodeAssumption

LEMMA EntryShape ==
    ASSUME NEW e \in Entries
    PROVE  e.k \in Value /\ e.v \in Value /\ e = Entry(e.k, e.v)
BY DEF Entries, Entry

LEMMA MapShape ==
    ASSUME NEW v \in Value, v.t = "map"
    PROVE  /\ v.s \in Seq(Entries) /\ v = MapOf(v.s)
           /\ \A i \in DOMAIN v.s : v.s[i].k \in Children(v) /\ v.s[i].v \in Children(v)
<1>1. v \in [t : {"map"}, n : {0}, s : Seq(Entries)]
  BY ValueAssumption
<1>2. QED
  BY <1>1 DEF MapOf, Children

LEMMA ListShape ==
    ASSUME NEW v \in Value, v.t # "map"
    PROVE  /\ v.s \in Seq(Value) /\ v = [t |-> v.t, n |-> v.n, s |-> v.s]
           /\ \A i \in DOMAIN v.s : v.s[i] \in Children(v)
<1>1. CASE v \in [t : {"int", "bytes", "text", "float"}, n : Int, s : {<<>>}]
  BY <1>1, EmptySeq DEF Children
<1>2. CASE v \in [t : {"array", "tag"}, n : Int, s : Seq(Value)]
  BY <1>2 DEF Children
<1>3. QED
  BY <1>1, <1>2, ValueAssumption

LEMMA LeafShape ==
    ASSUME NEW v \in Value, v.t \in {"int", "bytes", "text", "float"}
    PROVE  v.s = <<>> /\ v = Leaf(v.t, v.n) /\ Children(v) = {} /\ v.n \in Int
<1>1. v \in [t : {"int", "bytes", "text", "float"}, n : Int, s : {<<>>}]
  BY ValueAssumption
<1>2. v.s = <<>> /\ v.n \in Int /\ v = Leaf(v.t, v.n)
  BY <1>1 DEF Leaf
<1>3. DOMAIN v.s = {}
  BY <1>2
<1>4. QED
  BY <1>2, <1>3 DEF Children

LEMMA SeqDomain ==
    ASSUME NEW S, NEW s \in Seq(S)
    PROVE  Len(s) \in Nat /\ DOMAIN s = 1 .. Len(s) /\ \A i \in DOMAIN s : s[i] \in S
BY LenProperties, ElementOfSeq

LEMMA ChildrenAreValues ==
    ASSUME NEW v \in Value
    PROVE  Children(v) \subseteq Value
<1>1. CASE v.t = "map"
  <2>1. \A i \in DOMAIN v.s : v.s[i].k \in Value /\ v.s[i].v \in Value
    BY <1>1, MapShape, SeqDomain, EntryShape
  <2>2. QED
    BY <1>1, <2>1 DEF Children
<1>2. CASE v.t # "map"
  BY <1>2, ListShape, SeqDomain DEF Children
<1>3. QED
  BY <1>1, <1>2

-----------------------------------------------------------------------------
(* Sorting. *)

LEMMA PrecedesIsOrder ==
    ASSUME NEW e \in Seq(Entries), NEW i \in DOMAIN e, NEW j \in DOMAIN e, NEW h \in DOMAIN e
    PROVE  /\ ~Precedes(e, i, i)
           /\ Precedes(e, h, i) /\ Precedes(e, i, j) => Precedes(e, h, j)
           /\ i # j => Precedes(e, i, j) \/ Precedes(e, j, i)
<1> DEFINE a == encode(e[h].k)
           b == encode(e[i].k)
           c == encode(e[j].k)
<1>1. a \in Seq(Int) /\ b \in Seq(Int) /\ c \in Seq(Int)
  BY SeqDomain, EntryShape, EncodeType
<1>2. i \in Nat /\ j \in Nat /\ h \in Nat
  BY SeqDomain
<1>3. /\ Precedes(e, i, i) <=> Before(b, b) \/ (b = b /\ i < i)
      /\ Precedes(e, h, i) <=> Before(a, b) \/ (a = b /\ h < i)
      /\ Precedes(e, i, j) <=> Before(b, c) \/ (b = c /\ i < j)
      /\ Precedes(e, j, i) <=> Before(c, b) \/ (c = b /\ j < i)
      /\ Precedes(e, h, j) <=> Before(a, c) \/ (a = c /\ h < j)
  BY DEF Precedes
<1> HIDE DEF a, b, c
<1>4. ~Before(b, b) /\ (Before(a, b) /\ Before(b, c) => Before(a, c))
      /\ (b # c => Before(b, c) \/ Before(c, b))
  BY <1>1, BeforeIrreflexive, BeforeTransitive, BeforeTotal
<1>5. QED
  BY <1>2, <1>3, <1>4

Earlier(e, i) == { j \in DOMAIN e : Precedes(e, j, i) }

LEMMA EarlierIsSmall ==
    ASSUME NEW e \in Seq(Entries), NEW i \in DOMAIN e
    PROVE  /\ IsFiniteSet(Earlier(e, i)) /\ Cardinality(Earlier(e, i)) \in Nat
           /\ Rank(e, i) = Cardinality(Earlier(e, i)) + 1
           /\ Rank(e, i) \in 1 .. Len(e)
<1>1. DOMAIN e = 1 .. Len(e) /\ Len(e) \in Nat
  BY SeqDomain
<1>2. IsFiniteSet(DOMAIN e) /\ Cardinality(DOMAIN e) = Len(e)
  <2>1. IsFiniteSet(1 .. Len(e))
        /\ Cardinality(1 .. Len(e)) = IF 1 > Len(e) THEN 0 ELSE Len(e) - 1 + 1
    BY <1>1, FS_Interval
  <2>2. QED
    BY <1>1, <2>1
<1>3. Earlier(e, i) \in SUBSET DOMAIN e
  BY DEF Earlier
<1>4. i \notin Earlier(e, i)
  BY PrecedesIsOrder DEF Earlier
<1>5. IsFiniteSet(Earlier(e, i)) /\ Cardinality(Earlier(e, i)) \in Nat
  BY <1>2, <1>3, FS_Subset, FS_CardinalityType
<1>6. Cardinality(Earlier(e, i)) <= Len(e) /\ Cardinality(Earlier(e, i)) # Len(e)
  BY <1>2, <1>3, <1>4, FS_Subset
<1>7. Rank(e, i) = Cardinality(Earlier(e, i)) + 1
  BY DEF Rank, Earlier
<1>8. QED
  BY <1>1, <1>5, <1>6, <1>7

LEMMA RankRises ==
    ASSUME NEW e \in Seq(Entries), NEW i \in DOMAIN e, NEW j \in DOMAIN e, Precedes(e, i, j)
    PROVE  Rank(e, i) < Rank(e, j)
<1>1. Earlier(e, i) \in SUBSET Earlier(e, j)
  BY PrecedesIsOrder DEF Earlier
<1>2. i \in Earlier(e, j) /\ i \notin Earlier(e, i)
  BY PrecedesIsOrder DEF Earlier
<1>3. /\ Cardinality(Earlier(e, i)) <= Cardinality(Earlier(e, j))
      /\ Cardinality(Earlier(e, i)) # Cardinality(Earlier(e, j))
  BY <1>1, <1>2, EarlierIsSmall, FS_Subset
<1>4. QED
  BY <1>3, EarlierIsSmall

LEMMA RankIsOnto ==
    ASSUME NEW e \in Seq(Entries), NEW r \in DOMAIN e
    PROVE  \E i \in DOMAIN e : Rank(e, i) = r
<1> DEFINE f == [i \in DOMAIN e |-> Rank(e, i)]
<1>1. f \in [DOMAIN e -> DOMAIN e]
  BY EarlierIsSmall, SeqDomain
<1>2. \A i, j \in DOMAIN e : f[i] = f[j] => i = j
  <2> SUFFICES ASSUME NEW i \in DOMAIN e, NEW j \in DOMAIN e, f[i] = f[j], i # j PROVE FALSE
    OBVIOUS
  <2>1. Rank(e, i) = Rank(e, j) /\ Rank(e, i) \in Nat
    BY EarlierIsSmall, SeqDomain
  <2>2. Rank(e, i) < Rank(e, j) \/ Rank(e, j) < Rank(e, i)
    BY RankRises, PrecedesIsOrder
  <2>3. QED
    BY <2>1, <2>2
<1>3. IsFiniteSet(DOMAIN e)
  BY SeqDomain, FS_Interval
<1>4. f \in Injection(DOMAIN e, DOMAIN e)
  BY <1>1, <1>2 DEF Injection, IsInjective
<1>5. f \in Surjection(DOMAIN e, DOMAIN e)
  BY <1>3, <1>4, FS_Injection
<1>6. QED
  BY <1>5 DEF Surjection

(* The sorted sequence is the entries in another order: by key, and by     *)
(* their old place where keys are the same.                                *)
Sorts(p, e, s) ==
    /\ p \in [DOMAIN e -> DOMAIN e]
    /\ s = [r \in DOMAIN e |-> e[p[r]]]
    /\ \A i \in DOMAIN e : \E r \in DOMAIN e : p[r] = i
    /\ \A r, q \in DOMAIN e : r < q => Precedes(e, p[r], p[q])

LEMMA SortPermutes ==
    ASSUME NEW e \in Seq(Entries)
    PROVE  \E p : Sorts(p, e, sort_by_cached_key(e))
<1> DEFINE p == [r \in DOMAIN e |-> CHOOSE i \in DOMAIN e : Rank(e, i) = r]
<1>1. \A r \in DOMAIN e : p[r] \in DOMAIN e /\ Rank(e, p[r]) = r
  BY RankIsOnto
<1>2. p \in [DOMAIN e -> DOMAIN e]
  BY <1>1
<1>3. sort_by_cached_key(e) = [r \in DOMAIN e |-> e[p[r]]]
  BY DEF sort_by_cached_key
<1> HIDE DEF p
<1>4. ASSUME NEW r \in DOMAIN e, NEW q \in DOMAIN e, r < q PROVE Precedes(e, p[r], p[q])
  <2>1. p[r] \in DOMAIN e /\ p[q] \in DOMAIN e /\ Rank(e, p[r]) = r /\ Rank(e, p[q]) = q
    BY <1>1
  <2>2. r \in Nat /\ q \in Nat
    BY SeqDomain
  <2>3. ~Precedes(e, p[q], p[r])
    BY <1>4, <2>1, <2>2, RankRises
  <2>4. p[r] # p[q]
    BY <1>4, <2>1, <2>2
  <2>5. QED
    BY <2>1, <2>3, <2>4, PrecedesIsOrder
<1>5. ASSUME NEW i \in DOMAIN e PROVE \E r \in DOMAIN e : p[r] = i
  <2>1. Rank(e, i) \in DOMAIN e
    BY EarlierIsSmall, SeqDomain
  <2>2. p[Rank(e, i)] \in DOMAIN e /\ Rank(e, p[Rank(e, i)]) = Rank(e, i)
    BY <1>1, <2>1
  <2>3. p[Rank(e, i)] = i
    <3> SUFFICES ASSUME p[Rank(e, i)] # i PROVE FALSE
      OBVIOUS
    <3>1. Rank(e, p[Rank(e, i)]) < Rank(e, i) \/ Rank(e, i) < Rank(e, p[Rank(e, i)])
      BY <2>2, PrecedesIsOrder, RankRises
    <3>2. Rank(e, i) \in Nat
      BY EarlierIsSmall, SeqDomain
    <3>3. QED
      BY <2>2, <3>1, <3>2
  <2>4. QED
    BY <2>1, <2>3
<1>6. QED
  BY <1>2, <1>3, <1>4, <1>5 DEF Sorts

(* The keys rise, or rise strictly, along a sequence of entries.           *)
Rising(s) ==
    \A i, j \in DOMAIN s : i < j => ~Before(encode(s[j].k), encode(s[i].k))

StrictlyRising(s) ==
    \A i, j \in DOMAIN s : i < j => Before(encode(s[i].k), encode(s[j].k))

RangeOf(s) == { s[i] : i \in DOMAIN s }

LEMMA KeyType ==
    ASSUME NEW e \in Seq(Entries), NEW i \in DOMAIN e
    PROVE  e[i] \in Entries /\ e[i].k \in Value /\ e[i].v \in Value
           /\ encode(e[i].k) \in Seq(Int) /\ i \in Nat
BY SeqDomain, EntryShape, EncodeType

LEMMA SortShape ==
    ASSUME NEW e \in Seq(Entries)
    PROVE  /\ sort_by_cached_key(e) \in Seq(Entries)
           /\ DOMAIN sort_by_cached_key(e) = DOMAIN e
           /\ Len(sort_by_cached_key(e)) = Len(e)
<1> DEFINE s == sort_by_cached_key(e)
<1>1. PICK p : Sorts(p, e, s)
  BY SortPermutes
<1>2. /\ DOMAIN s = DOMAIN e
      /\ \A r \in DOMAIN e : s[r] = e[p[r]] /\ p[r] \in DOMAIN e
  BY <1>1 DEF Sorts
<1>3. s = [r \in DOMAIN e |-> s[r]] /\ DOMAIN e = 1 .. Len(e) /\ Len(e) \in Nat
  BY <1>1, SeqDomain DEF Sorts
<1>4. \A r \in DOMAIN e : s[r] \in Entries
  BY <1>2, SeqDomain
<1> HIDE DEF s
<1>5. s \in [1 .. Len(e) -> Entries]
  BY <1>3, <1>4
<1>6. s \in Seq(Entries)
  BY <1>3, <1>5, IsASeq
<1>7. Len(s) = Len(e)
  BY <1>2, <1>3, <1>6, LenProperties
<1>8. QED
  BY <1>2, <1>6, <1>7 DEF s

LEMMA SortRises ==
    ASSUME NEW e \in Seq(Entries)
    PROVE  Rising(sort_by_cached_key(e))
<1> DEFINE s == sort_by_cached_key(e)
<1>1. PICK p : Sorts(p, e, s)
  BY SortPermutes
<1>2. DOMAIN s = DOMAIN e
  BY SortShape
<1>3. ASSUME NEW i \in DOMAIN e, NEW j \in DOMAIN e, i < j
      PROVE  ~Before(encode(s[j].k), encode(s[i].k))
  <2>1. p[i] \in DOMAIN e /\ p[j] \in DOMAIN e /\ s[i] = e[p[i]] /\ s[j] = e[p[j]]
        /\ Precedes(e, p[i], p[j])
    BY <1>1, <1>3 DEF Sorts
  <2> DEFINE a == encode(e[p[i]].k)
             b == encode(e[p[j]].k)
  <2>2. a \in Seq(Int) /\ b \in Seq(Int)
    BY <2>1, KeyType
  <2>3. Before(a, b) \/ a = b
    BY <2>1 DEF Precedes
  <2>4. ~Before(b, a)
    <3> HIDE DEF a, b
    <3>1. QED
      BY <2>2, <2>3, BeforeIrreflexive, BeforeTransitive
  <2>5. QED
    BY <2>1, <2>4
<1>4. QED
  BY <1>2, <1>3 DEF Rising

(* What is in order already stays as it is.                                *)
LEMMA SortOfSorted ==
    ASSUME NEW e \in Seq(Entries), Rising(e)
    PROVE  sort_by_cached_key(e) = e
<1>1. ASSUME NEW i \in DOMAIN e, NEW j \in DOMAIN e
      PROVE  Precedes(e, i, j) <=> i < j
  <2> DEFINE a == encode(e[i].k)
             b == encode(e[j].k)
  <2>1. a \in Seq(Int) /\ b \in Seq(Int) /\ i \in Nat /\ j \in Nat
    BY KeyType
  <2>2. /\ i < j => ~Before(b, a)
        /\ j < i => ~Before(a, b)
        /\ i = j => a = b
    BY DEF Rising
  <2>3. Precedes(e, i, j) <=> Before(a, b) \/ (a = b /\ i < j)
    BY DEF Precedes
  <2> HIDE DEF a, b
  <2>4. (a # b => Before(a, b) \/ Before(b, a)) /\ ~Before(a, a)
    BY <2>1, BeforeTotal, BeforeIrreflexive
  <2>5. QED
    BY <2>1, <2>2, <2>3, <2>4
<1>2. ASSUME NEW i \in DOMAIN e
      PROVE  Rank(e, i) = i
  <2>1. i \in 1 .. Len(e) /\ Len(e) \in Nat /\ DOMAIN e = 1 .. Len(e)
    BY SeqDomain
  <2>2. Earlier(e, i) = 1 .. (i - 1)
    BY <1>1, <2>1 DEF Earlier
  <2>3. Cardinality(1 .. (i - 1)) = i - 1
    BY <2>1, FS_Interval
  <2>4. QED
    BY <2>1, <2>2, <2>3, EarlierIsSmall
<1>3. \A r \in DOMAIN e : (CHOOSE i \in DOMAIN e : Rank(e, i) = r) = r
  BY <1>2
<1>4. \A r \in DOMAIN e : sort_by_cached_key(e)[r] = e[r]
  BY <1>3 DEF sort_by_cached_key
<1>5. QED
  BY <1>4, SortShape, SeqDomain, SeqEqual

LEMMA SortElements ==
    ASSUME NEW e \in Seq(Entries)
    PROVE  RangeOf(sort_by_cached_key(e)) = RangeOf(e)
<1>1. PICK p : Sorts(p, e, sort_by_cached_key(e))
  BY SortPermutes
<1>2. QED
  BY <1>1, SortShape DEF Sorts, RangeOf

(* A repeated key is an entry for each of two places.                      *)
LEMMA RepeatsIs ==
    ASSUME NEW e \in Seq(Entries)
    PROVE  Repeats(e) <=> \E i, j \in DOMAIN e : i # j /\ e[i].k = e[j].k
<1>1. \A i, j \in DOMAIN e : encode(e[i].k) = encode(e[j].k) <=> e[i].k = e[j].k
  BY KeyType, EncodeInjective
<1>2. \A i \in DOMAIN e : i \in Nat
  BY KeyType
<1>3. QED
  BY <1>1, <1>2 DEF Repeats

LEMMA SortKeepsRepeats ==
    ASSUME NEW e \in Seq(Entries)
    PROVE  Repeats(sort_by_cached_key(e)) <=> Repeats(e)
<1> DEFINE s == sort_by_cached_key(e)
<1>1. PICK p : Sorts(p, e, s)
  BY SortPermutes
<1>2. s \in Seq(Entries) /\ DOMAIN s = DOMAIN e
  BY SortShape
<1>3. /\ \A r \in DOMAIN e : p[r] \in DOMAIN e /\ s[r] = e[p[r]]
      /\ \A i \in DOMAIN e : \E r \in DOMAIN e : p[r] = i
      /\ \A r, q \in DOMAIN e : r < q => p[r] # p[q]
  BY <1>1, PrecedesIsOrder DEF Sorts
<1>4. \A r, q \in DOMAIN e : r # q => p[r] # p[q]
  BY <1>3, KeyType
<1> HIDE DEF s
<1>5. Repeats(s) <=> \E i, j \in DOMAIN s : i # j /\ s[i].k = s[j].k
  BY <1>2, RepeatsIs
<1>6. Repeats(e) <=> \E i, j \in DOMAIN e : i # j /\ e[i].k = e[j].k
  BY RepeatsIs
<1>7. ASSUME Repeats(s) PROVE Repeats(e)
  <2>1. PICK r, q \in DOMAIN e : r # q /\ s[r].k = s[q].k
    BY <1>2, <1>5, <1>7
  <2>2. p[r] \in DOMAIN e /\ p[q] \in DOMAIN e /\ s[r] = e[p[r]] /\ s[q] = e[p[q]]
    BY <1>3
  <2>3. p[r] # p[q] /\ e[p[r]].k = e[p[q]].k
    BY <1>4, <2>1, <2>2
  <2>4. QED
    BY <1>6, <2>2, <2>3
<1>8. ASSUME Repeats(e) PROVE Repeats(s)
  <2>1. PICK i, j \in DOMAIN e : i # j /\ e[i].k = e[j].k
    BY <1>6, <1>8
  <2>2. PICK r \in DOMAIN e : p[r] = i
    BY <1>3
  <2>3. PICK q \in DOMAIN e : p[q] = j
    BY <1>3
  <2>4. r # q /\ s[r].k = s[q].k
    BY <1>3, <2>1, <2>2, <2>3
  <2>5. QED
    BY <1>2, <1>5, <2>4
<1>9. QED
  BY <1>7, <1>8 DEF s

LEMMA StrictlyRisingIs ==
    ASSUME NEW e \in Seq(Entries)
    PROVE  StrictlyRising(e) <=> Rising(e) /\ ~Repeats(e)
<1>1. ASSUME NEW i \in DOMAIN e, NEW j \in DOMAIN e, i < j
      PROVE  Before(encode(e[i].k), encode(e[j].k))
                <=> /\ ~Before(encode(e[j].k), encode(e[i].k))
                    /\ encode(e[i].k) # encode(e[j].k)
  <2> DEFINE a == encode(e[i].k)
             b == encode(e[j].k)
  <2>1. a \in Seq(Int) /\ b \in Seq(Int)
    BY KeyType
  <2> HIDE DEF a, b
  <2>2. Before(a, b) <=> ~Before(b, a) /\ a # b
    BY <2>1, BeforeIrreflexive, BeforeTransitive, BeforeTotal
  <2>3. QED
    BY <2>2 DEF a, b
<1>2. QED
  BY <1>1 DEF StrictlyRising, Rising, Repeats

(* The place of an entry in a strictly rising sequence is told by how many *)
(* of the entries come before it.                                          *)
LEMMA PlaceIsTold ==
    ASSUME NEW e \in Seq(Entries), StrictlyRising(e), NEW i \in DOMAIN e
    PROVE  Cardinality({ x \in RangeOf(e) : Before(encode(x.k), encode(e[i].k)) }) = i - 1
<1> DEFINE S == { x \in RangeOf(e) : Before(encode(x.k), encode(e[i].k)) }
           f == [j \in 1 .. (i - 1) |-> e[j]]
<1>1. i \in 1 .. Len(e) /\ Len(e) \in Nat /\ DOMAIN e = 1 .. Len(e)
  BY SeqDomain
<1>2. \A j \in DOMAIN e : Before(encode(e[j].k), encode(e[i].k)) <=> j < i
  <2> SUFFICES ASSUME NEW j \in DOMAIN e
               PROVE  Before(encode(e[j].k), encode(e[i].k)) <=> j < i
    OBVIOUS
  <2> DEFINE a == encode(e[j].k)
             b == encode(e[i].k)
  <2>1. a \in Seq(Int) /\ b \in Seq(Int) /\ i \in Nat /\ j \in Nat
    BY KeyType
  <2>2. (j < i => Before(a, b)) /\ (i < j => Before(b, a)) /\ (i = j => a = b)
    BY DEF StrictlyRising
  <2> HIDE DEF a, b
  <2>3. Before(a, b) <=> j < i
    BY <2>1, <2>2, BeforeIrreflexive, BeforeTransitive
  <2>4. QED
    BY <2>3 DEF a, b
<1>3. f \in [1 .. (i - 1) -> S]
  BY <1>1, <1>2 DEF RangeOf
<1>4. \A h, j \in 1 .. (i - 1) : f[h] = f[j] => h = j
  <2> SUFFICES ASSUME NEW h \in 1 .. (i - 1), NEW j \in 1 .. (i - 1), e[h] = e[j], h # j
               PROVE  FALSE
    BY <1>1
  <2>1. h \in DOMAIN e /\ j \in DOMAIN e /\ (h < j \/ j < h)
    BY <1>1
  <2>2. Before(encode(e[h].k), encode(e[h].k))
    BY <2>1 DEF StrictlyRising
  <2>3. QED
    BY <2>1, <2>2, KeyType, BeforeIrreflexive
<1>5. \A x \in S : \E j \in 1 .. (i - 1) : f[j] = x
  <2> SUFFICES ASSUME NEW x \in S PROVE \E j \in 1 .. (i - 1) : e[j] = x
    BY <1>1
  <2>1. PICK j \in DOMAIN e : e[j] = x /\ Before(encode(e[j].k), encode(e[i].k))
    BY DEF RangeOf
  <2>2. j \in 1 .. (i - 1)
    BY <1>1, <1>2, <2>1
  <2>3. QED
    BY <2>1, <2>2
<1> HIDE DEF S, f
<1>6. f \in Bijection(1 .. (i - 1), S)
  BY <1>3, <1>4, <1>5 DEF Bijection, Injection, Surjection, IsInjective
<1>7. ExistsBijection(1 .. (i - 1), S) /\ i - 1 \in Nat
  BY <1>1, <1>6 DEF ExistsBijection
<1>8. Cardinality(S) = i - 1
  BY <1>7, FS_CountingElements
<1>9. QED
  BY <1>8 DEF S

(* Two strictly rising sequences of the same entries are the same.         *)
LEMMA StrictlyRisingIsUnique ==
    ASSUME NEW e \in Seq(Entries), NEW s \in Seq(Entries),
           StrictlyRising(e), StrictlyRising(s), RangeOf(e) = RangeOf(s)
    PROVE  e = s
<1>1. ASSUME NEW a \in Seq(Entries), NEW b \in Seq(Entries),
             StrictlyRising(a), StrictlyRising(b), RangeOf(a) = RangeOf(b),
             NEW i \in DOMAIN a
      PROVE  i \in DOMAIN b /\ a[i] = b[i]
  <2>1. PICK j \in DOMAIN b : b[j] = a[i]
    BY <1>1 DEF RangeOf
  <2>2. i - 1 = j - 1
    BY <1>1, <2>1, PlaceIsTold
  <2>3. i = j
    BY <1>1, <2>1, <2>2, KeyType
  <2>4. QED
    BY <2>1, <2>3
<1>2. DOMAIN e = DOMAIN s /\ \A i \in DOMAIN e : e[i] = s[i]
  BY <1>1
<1>3. /\ DOMAIN e = 1 .. Len(e) /\ Len(e) \in Nat
      /\ DOMAIN s = 1 .. Len(s) /\ Len(s) \in Nat
  BY SeqDomain
<1>4. Len(e) = Len(s)
  <2>1. \A k \in Nat : k \in 1 .. Len(e) <=> k \in 1 .. Len(s)
    BY <1>2, <1>3
  <2>2. Len(e) # 0 => Len(e) <= Len(s)
    BY <1>3, <2>1
  <2>3. Len(s) # 0 => Len(s) <= Len(e)
    BY <1>3, <2>1
  <2>4. ASSUME NEW m \in Nat, NEW n \in Nat, m # 0 => m <= n, n # 0 => n <= m
        PROVE  m = n
    BY <2>4
  <2>5. QED
    BY <1>3, <2>2, <2>3, <2>4
<1>5. QED
  BY <1>2, <1>3, <1>4, SeqEqual

-----------------------------------------------------------------------------
(* One turn of each recursion. *)

Canoned(s) == [i \in DOMAIN s |-> Entry(canonicalize(s[i].k), canonicalize(s[i].v))]

LEMMA CanonicalMap ==
    ASSUME NEW v \in Value, v.t = "map"
    PROVE  canonicalize(v) = MapOf(sort_by_cached_key(Canoned(v.s)))
<1> DEFINE inner == [x \in Children(v) |-> canonicalize(x)]
<1>1. \A i \in DOMAIN v.s : v.s[i].k \in Children(v) /\ v.s[i].v \in Children(v)
  BY DEF Children
<1>2. [i \in DOMAIN v.s |-> Entry(inner[v.s[i].k], inner[v.s[i].v])] = Canoned(v.s)
  BY <1>1 DEF Canoned
<1>3. canonicalize(v) = canonicalize_by(inner, v)
  BY RecursionAssumption
<1> HIDE DEF inner
<1>4. QED
  BY <1>2, <1>3 DEF canonicalize_by

LEMMA CanonicalList ==
    ASSUME NEW v \in Value, v.t # "map"
    PROVE  canonicalize(v) = [v EXCEPT !.s = [i \in DOMAIN v.s |-> canonicalize(v.s[i])]]
<1> DEFINE inner == [x \in Children(v) |-> canonicalize(x)]
<1>1. \A i \in DOMAIN v.s : v.s[i] \in Children(v)
  BY DEF Children
<1>2. [i \in DOMAIN v.s |-> inner[v.s[i]]] = [i \in DOMAIN v.s |-> canonicalize(v.s[i])]
  BY <1>1
<1>3. canonicalize(v) = canonicalize_by(inner, v)
  BY RecursionAssumption
<1> HIDE DEF inner
<1>4. QED
  BY <1>2, <1>3 DEF canonicalize_by

LEMMA CanonicalIsValue ==
    ASSUME NEW v \in Value
    PROVE  canonicalize(v) \in Value
BY ClosureAssumption

LEMMA NanIs ==
    ASSUME NEW v \in Value
    PROVE  contains_nan(v) <=> \/ v.t = "float" /\ v.n = 1
                               \/ \E x \in Children(v) : contains_nan(x)
<1> DEFINE inner == [x \in Children(v) |-> contains_nan(x)]
<1>1. contains_nan(v) <=> contains_nan_by(inner, v)
  BY RecursionAssumption
<1>2. \A x \in Children(v) : inner[x] <=> contains_nan(x)
  OBVIOUS
<1> HIDE DEF inner
<1>3. QED
  BY <1>1, <1>2 DEF contains_nan_by

LEMMA InvalidMapIs ==
    ASSUME NEW v \in Value, v.t = "map"
    PROVE  has_invalid_map_key(v) <=>
              \E e \in RangeOf(v.s) : BadKey(e.k) \/ has_invalid_map_key(e.v)
<1>1. has_invalid_map_key(v) <=>
         \E i \in DOMAIN v.s : BadKey(v.s[i].k) \/ has_invalid_map_key(v.s[i].v)
  <2> DEFINE inner == [x \in Children(v) |-> has_invalid_map_key(x)]
  <2>1. has_invalid_map_key(v) <=> has_invalid_map_key_by(inner, v)
    BY RecursionAssumption
  <2>2. \A i \in DOMAIN v.s : inner[v.s[i].v] <=> has_invalid_map_key(v.s[i].v)
    BY DEF Children
  <2> HIDE DEF inner
  <2>3. QED
    BY <2>1, <2>2 DEF has_invalid_map_key_by
<1>2. QED
  BY <1>1 DEF RangeOf

LEMMA InvalidListIs ==
    ASSUME NEW v \in Value, v.t # "map"
    PROVE  has_invalid_map_key(v) <=> \E x \in Children(v) : has_invalid_map_key(x)
<1>1. has_invalid_map_key(v) <=> \E i \in DOMAIN v.s : has_invalid_map_key(v.s[i])
  <2> DEFINE inner == [x \in Children(v) |-> has_invalid_map_key(x)]
  <2>1. has_invalid_map_key(v) <=> has_invalid_map_key_by(inner, v)
    BY RecursionAssumption
  <2>2. \A i \in DOMAIN v.s : inner[v.s[i]] <=> has_invalid_map_key(v.s[i])
    BY DEF Children
  <2> HIDE DEF inner
  <2>3. QED
    BY <2>1, <2>2 DEF has_invalid_map_key_by
<1>2. QED
  BY <1>1 DEF Children

LEMMA InsideIs ==
    ASSUME NEW v \in Value
    PROVE  Inside(v) = {v} \cup UNION { Inside(x) : x \in Children(v) }
<1> DEFINE inner == [x \in Children(v) |-> Inside(x)]
<1>1. Inside(v) = Inside_by(inner, v)
  BY RecursionAssumption
<1>2. { inner[x] : x \in Children(v) } = { Inside(x) : x \in Children(v) }
  OBVIOUS
<1>3. QED
  BY <1>1, <1>2 DEF Inside_by

-----------------------------------------------------------------------------
(* Canonical form. *)

LEMMA CanonedShape ==
    ASSUME NEW s \in Seq(Entries)
    PROVE  /\ Canoned(s) \in Seq(Entries) /\ DOMAIN Canoned(s) = DOMAIN s
           /\ \A i \in DOMAIN s : /\ Canoned(s)[i].k = canonicalize(s[i].k)
                                  /\ Canoned(s)[i].v = canonicalize(s[i].v)
<1>1. \A i \in DOMAIN s : canonicalize(s[i].k) \in Value /\ canonicalize(s[i].v) \in Value
  BY KeyType, CanonicalIsValue
<1>2. \A i \in DOMAIN s : Entry(canonicalize(s[i].k), canonicalize(s[i].v)) \in Entries
  BY <1>1 DEF Entry, Entries
<1>3. DOMAIN s = 1 .. Len(s) /\ Len(s) \in Nat
  BY SeqDomain
<1>4. Canoned(s) \in [1 .. Len(s) -> Entries]
  BY <1>2, <1>3 DEF Canoned
<1>5. Canoned(s) \in Seq(Entries)
  BY <1>3, <1>4, IsASeq
<1>6. QED
  BY <1>5 DEF Canoned, Entry

LEMMA CanonedFixed ==
    ASSUME NEW s \in Seq(Entries),
           \A i \in DOMAIN s : canonicalize(s[i].k) = s[i].k /\ canonicalize(s[i].v) = s[i].v
    PROVE  Canoned(s) = s
<1>1. \A i \in DOMAIN s : Canoned(s)[i] = s[i]
  BY KeyType, EntryShape DEF Canoned
<1>2. DOMAIN Canoned(s) = DOMAIN s /\ Canoned(s) \in Seq(Entries)
  BY CanonedShape
<1>3. Len(Canoned(s)) = Len(s)
  BY <1>2, LenProperties, SeqDomain DEF Canoned
<1>4. QED
  BY <1>1, <1>2, <1>3, SeqDomain, SeqEqual

(* The entries of a map in canonical form are those of the map.            *)
LEMMA CanonicalEntries ==
    ASSUME NEW v \in Value, v.t = "map"
    PROVE  /\ canonicalize(v).t = "map"
           /\ canonicalize(v).s = sort_by_cached_key(Canoned(v.s))
           /\ canonicalize(v).s \in Seq(Entries)
           /\ Rising(canonicalize(v).s)
           /\ RangeOf(canonicalize(v).s) = RangeOf(Canoned(v.s))
           /\ \A i \in DOMAIN canonicalize(v).s : \E j \in DOMAIN v.s :
                 /\ canonicalize(v).s[i].k = canonicalize(v.s[j].k)
                 /\ canonicalize(v).s[i].v = canonicalize(v.s[j].v)
           /\ \A j \in DOMAIN v.s : \E i \in DOMAIN canonicalize(v).s :
                 /\ canonicalize(v).s[i].k = canonicalize(v.s[j].k)
                 /\ canonicalize(v).s[i].v = canonicalize(v.s[j].v)
<1> DEFINE c == Canoned(v.s)
           s == sort_by_cached_key(c)
<1>1. v.s \in Seq(Entries)
  BY MapShape
<1>2. c \in Seq(Entries) /\ DOMAIN c = DOMAIN v.s
      /\ \A i \in DOMAIN c : c[i].k = canonicalize(v.s[i].k) /\ c[i].v = canonicalize(v.s[i].v)
  BY <1>1, CanonedShape
<1>3. canonicalize(v).t = "map" /\ canonicalize(v).s = s
  BY CanonicalMap DEF MapOf
<1> HIDE DEF c
<1>4. s \in Seq(Entries) /\ Rising(s) /\ RangeOf(s) = RangeOf(c) /\ DOMAIN s = DOMAIN c
  BY <1>2, SortShape, SortRises, SortElements
<1> HIDE DEF s
<1>5. \A i \in DOMAIN s : \E j \in DOMAIN c : s[i] = c[j]
  BY <1>4 DEF RangeOf
<1>6. \A j \in DOMAIN c : \E i \in DOMAIN s : s[i] = c[j]
  BY <1>4 DEF RangeOf
<1>7. \A i \in DOMAIN s : \E j \in DOMAIN v.s :
         s[i].k = canonicalize(v.s[j].k) /\ s[i].v = canonicalize(v.s[j].v)
  BY <1>2, <1>5
<1>8. \A j \in DOMAIN v.s : \E i \in DOMAIN s :
         s[i].k = canonicalize(v.s[j].k) /\ s[i].v = canonicalize(v.s[j].v)
  BY <1>2, <1>6
<1>9. QED
  BY <1>3, <1>4, <1>7, <1>8 DEF c, s

LEMMA CanonicalItems ==
    ASSUME NEW v \in Value, v.t # "map"
    PROVE  /\ canonicalize(v).t = v.t /\ canonicalize(v).n = v.n
           /\ DOMAIN canonicalize(v).s = DOMAIN v.s
           /\ \A i \in DOMAIN v.s : canonicalize(v).s[i] = canonicalize(v.s[i])
<1>1. v = [t |-> v.t, n |-> v.n, s |-> v.s]
  BY ListShape
<1>2. canonicalize(v) = [t |-> v.t, n |-> v.n, s |-> [i \in DOMAIN v.s |-> canonicalize(v.s[i])]]
  BY <1>1, CanonicalList
<1>3. QED
  BY <1>2

LEMMA CanonicalType ==
    ASSUME NEW v \in Value
    PROVE  canonicalize(v).t = v.t
BY CanonicalEntries, CanonicalItems

(* A scalar is in canonical form.                                          *)
LEMMA CanonicalLeaf ==
    ASSUME NEW v \in Value, v.t \in {"int", "bytes", "text", "float"}
    PROVE  canonicalize(v) = v
<1>1. v.s = <<>> /\ v = Leaf(v.t, v.n)
  BY LeafShape
<1>2. canonicalize(v) \in Value /\ canonicalize(v).t = v.t /\ canonicalize(v).n = v.n
  BY CanonicalIsValue, CanonicalItems
<1>3. canonicalize(v) = Leaf(canonicalize(v).t, canonicalize(v).n)
  BY <1>2, LeafShape
<1>4. QED
  BY <1>1, <1>2, <1>3

(* Items in canonical form make a list in canonical form.                  *)
LEMMA ListFixedIs ==
    ASSUME NEW v \in Value, v.t # "map"
    PROVE  canonicalize(v) = v <=> \A i \in DOMAIN v.s : canonicalize(v.s[i]) = v.s[i]
<1>1. canonicalize(v) = v => \A i \in DOMAIN v.s : canonicalize(v.s[i]) = v.s[i]
  BY CanonicalItems
<1>2. ASSUME \A i \in DOMAIN v.s : canonicalize(v.s[i]) = v.s[i]
      PROVE  canonicalize(v) = v
  <2>1. v = [t |-> v.t, n |-> v.n, s |-> v.s] /\ v.s \in Seq(Value)
    BY ListShape
  <2>2. [i \in DOMAIN v.s |-> canonicalize(v.s[i])] = v.s
    BY <1>2, <2>1
  <2>3. QED
    BY <2>1, <2>2, CanonicalList
<1>3. QED
  BY <1>1, <1>2

(* canonicalize (serial.rs:52) is idempotent: the canonical form is in     *)
(* canonical form, at every depth.                                         *)
THEOREM CanonicalIsFixed ==
    ASSUME NEW w \in Value
    PROVE  canonicalize(canonicalize(w)) = canonicalize(w)
<1> DEFINE Bad == { v \in Value : canonicalize(canonicalize(v)) # canonicalize(v) }
<1>1. ASSUME NEW v \in Value, \A x \in Children(v) : x \notin Bad
      PROVE  v \notin Bad
  <2>1. \A x \in Children(v) : x \in Value /\ canonicalize(canonicalize(x)) = canonicalize(x)
    BY <1>1, ChildrenAreValues
  <2> DEFINE u == canonicalize(v)
  <2>2. u \in Value
    BY CanonicalIsValue
  <2>3. CASE v.t = "map"
    <3>1. u.t = "map" /\ u.s \in Seq(Entries) /\ Rising(u.s)
      BY <2>3, CanonicalEntries
    <3>2. ASSUME NEW i \in DOMAIN u.s
          PROVE  canonicalize(u.s[i].k) = u.s[i].k /\ canonicalize(u.s[i].v) = u.s[i].v
      <4>1. PICK j \in DOMAIN v.s : /\ u.s[i].k = canonicalize(v.s[j].k)
                                    /\ u.s[i].v = canonicalize(v.s[j].v)
        BY <2>3, CanonicalEntries
      <4>2. v.s[j].k \in Children(v) /\ v.s[j].v \in Children(v)
        BY <2>3, MapShape
      <4>3. /\ canonicalize(canonicalize(v.s[j].k)) = canonicalize(v.s[j].k)
            /\ canonicalize(canonicalize(v.s[j].v)) = canonicalize(v.s[j].v)
        BY <2>1, <4>2
      <4>4. QED
        BY <4>1, <4>3
    <3> HIDE DEF u
    <3>3. Canoned(u.s) = u.s
      BY <3>1, <3>2, CanonedFixed
    <3>4. canonicalize(u) = MapOf(u.s)
      BY <2>2, <3>1, <3>3, CanonicalMap, SortOfSorted
    <3>5. u = MapOf(u.s)
      BY <2>2, <3>1, MapShape
    <3>6. QED
      BY <3>4, <3>5 DEF u
  <2>4. CASE v.t # "map"
    <3>1. u.t # "map" /\ \A i \in DOMAIN u.s : canonicalize(u.s[i]) = u.s[i]
      BY <2>1, <2>4, CanonicalItems, ListShape
    <3> HIDE DEF u
    <3>2. canonicalize(u) = u
      BY <2>2, <3>1, ListFixedIs
    <3>3. QED
      BY <3>2 DEF u
  <2>5. QED
    BY <2>3, <2>4
<1>2. Bad = {}
  BY <1>1, Shallowest
<1>3. QED
  BY <1>2

(* A map is in canonical form when its keys rise and its entries are.      *)
LEMMA MapFixedIs ==
    ASSUME NEW v \in Value, v.t = "map"
    PROVE  canonicalize(v) = v <=>
              /\ Rising(v.s)
              /\ \A i \in DOMAIN v.s : canonicalize(v.s[i].k) = v.s[i].k
                                       /\ canonicalize(v.s[i].v) = v.s[i].v
<1>1. v.s \in Seq(Entries) /\ v = MapOf(v.s)
      /\ \A i \in DOMAIN v.s : v.s[i].k \in Value /\ v.s[i].v \in Value
  BY MapShape, KeyType
<1>2. ASSUME canonicalize(v) = v
      PROVE  /\ Rising(v.s)
             /\ \A i \in DOMAIN v.s : canonicalize(v.s[i].k) = v.s[i].k
                                      /\ canonicalize(v.s[i].v) = v.s[i].v
  <2>1. ASSUME NEW i \in DOMAIN v.s
        PROVE  canonicalize(v.s[i].k) = v.s[i].k /\ canonicalize(v.s[i].v) = v.s[i].v
    <3>0. \A h \in DOMAIN canonicalize(v).s : \E j \in DOMAIN v.s :
             /\ canonicalize(v).s[h].k = canonicalize(v.s[j].k)
             /\ canonicalize(v).s[h].v = canonicalize(v.s[j].v)
      BY CanonicalEntries
    <3>1. PICK j \in DOMAIN v.s : /\ v.s[i].k = canonicalize(v.s[j].k)
                                  /\ v.s[i].v = canonicalize(v.s[j].v)
      <4> DEFINE u == canonicalize(v)
      <4>1. /\ u = v
            /\ \A h \in DOMAIN u.s : \E j \in DOMAIN v.s :
                  u.s[h].k = canonicalize(v.s[j].k) /\ u.s[h].v = canonicalize(v.s[j].v)
        BY <1>2, <3>0
      <4> HIDE DEF u
      <4>2. QED
        BY <4>1
    <3>2. /\ canonicalize(canonicalize(v.s[j].k)) = canonicalize(v.s[j].k)
          /\ canonicalize(canonicalize(v.s[j].v)) = canonicalize(v.s[j].v)
      BY <1>1, CanonicalIsFixed
    <3>3. QED
      BY <3>1, <3>2
  <2>2. QED
    BY <1>2, <2>1, CanonicalEntries
<1>3. ASSUME Rising(v.s),
             \A i \in DOMAIN v.s : canonicalize(v.s[i].k) = v.s[i].k
                                   /\ canonicalize(v.s[i].v) = v.s[i].v
      PROVE  canonicalize(v) = v
  BY <1>1, <1>3, CanonedFixed, CanonicalMap, SortOfSorted
<1>4. QED
  BY <1>2, <1>3

(* A value is in canonical form when the keys of every map inside rise.    *)
LEMMA FixedIsSorted ==
    ASSUME NEW w \in Value
    PROVE  canonicalize(w) = w <=> \A x \in Inside(w) : x.t = "map" => Ascending(x)
<1> DEFINE Sorted(v) == \A x \in Inside(v) : x.t = "map" => Ascending(x)
           Bad == { v \in Value : ~(canonicalize(v) = v <=> Sorted(v)) }
<1>1. ASSUME NEW v \in Value, \A x \in Children(v) : x \notin Bad
      PROVE  v \notin Bad
  <2>1. \A x \in Children(v) : x \in Value /\ (canonicalize(x) = x <=> Sorted(x))
    BY <1>1, ChildrenAreValues
  <2>2. Sorted(v) <=> (v.t = "map" => Ascending(v)) /\ \A x \in Children(v) : Sorted(x)
    BY InsideIs
  <2> HIDE DEF Sorted
  <2>3. CASE v.t = "map"
    <3>1. canonicalize(v) = v <=> Rising(v.s) /\ \A x \in Children(v) : canonicalize(x) = x
      BY <2>3, MapFixedIs DEF Children
    <3>2. Rising(v.s) <=> Ascending(v)
      BY DEF Rising, Ascending
    <3>3. QED
      BY <2>1, <2>2, <2>3, <3>1, <3>2
  <2>4. CASE v.t # "map"
    <3>1. canonicalize(v) = v <=> \A x \in Children(v) : canonicalize(x) = x
      BY <2>4, ListFixedIs DEF Children
    <3>2. QED
      BY <2>1, <2>2, <2>4, <3>1
  <2>5. QED
    BY <2>3, <2>4
<1>2. Bad = {}
  BY <1>1, Shallowest
<1>3. QED
  BY <1>2

(* What is inside a canonical form is the canonical form of what was.      *)
LEMMA ChildrenOfCanonical ==
    ASSUME NEW v \in Value
    PROVE  /\ \A x \in Children(v) : canonicalize(x) \in Children(canonicalize(v))
           /\ \A y \in Children(canonicalize(v)) : \E x \in Children(v) : y = canonicalize(x)
<1> DEFINE u == canonicalize(v)
<1>1. CASE v.t = "map"
  <2>1. /\ u.t = "map"
        /\ \A i \in DOMAIN u.s : \E j \in DOMAIN v.s :
              u.s[i].k = canonicalize(v.s[j].k) /\ u.s[i].v = canonicalize(v.s[j].v)
        /\ \A j \in DOMAIN v.s : \E i \in DOMAIN u.s :
              u.s[i].k = canonicalize(v.s[j].k) /\ u.s[i].v = canonicalize(v.s[j].v)
    BY <1>1, CanonicalEntries
  <2> HIDE DEF u
  <2>2. /\ \A x : x \in Children(v) <=> \E j \in DOMAIN v.s : x = v.s[j].k \/ x = v.s[j].v
        /\ \A y : y \in Children(u) <=> \E i \in DOMAIN u.s : y = u.s[i].k \/ y = u.s[i].v
    BY <1>1, <2>1 DEF Children
  <2>3. ASSUME NEW x \in Children(v)
        PROVE  canonicalize(x) \in Children(u)
    <3>1. PICK j \in DOMAIN v.s : x = v.s[j].k \/ x = v.s[j].v
      BY <2>2
    <3>2. PICK i \in DOMAIN u.s : /\ u.s[i].k = canonicalize(v.s[j].k)
                                  /\ u.s[i].v = canonicalize(v.s[j].v)
      BY <2>1
    <3>3. canonicalize(x) = u.s[i].k \/ canonicalize(x) = u.s[i].v
      BY <3>1, <3>2
    <3>4. QED
      BY <2>2, <3>3
  <2>4. ASSUME NEW y \in Children(u)
        PROVE  \E x \in Children(v) : y = canonicalize(x)
    <3>1. PICK i \in DOMAIN u.s : y = u.s[i].k \/ y = u.s[i].v
      BY <2>2
    <3>2. PICK j \in DOMAIN v.s : /\ u.s[i].k = canonicalize(v.s[j].k)
                                  /\ u.s[i].v = canonicalize(v.s[j].v)
      BY <2>1
    <3>3. v.s[j].k \in Children(v) /\ v.s[j].v \in Children(v)
      BY <2>2
    <3>4. QED
      BY <3>1, <3>2, <3>3
  <2>5. QED
    BY <2>3, <2>4 DEF u
<1>2. CASE v.t # "map"
  <2>1. /\ u.t # "map" /\ DOMAIN u.s = DOMAIN v.s
        /\ \A i \in DOMAIN v.s : u.s[i] = canonicalize(v.s[i])
    BY <1>2, CanonicalItems
  <2> HIDE DEF u
  <2>2. /\ Children(v) = { v.s[i] : i \in DOMAIN v.s }
        /\ Children(u) = { u.s[i] : i \in DOMAIN u.s }
    BY <1>2, <2>1 DEF Children
  <2>3. /\ \A x \in Children(v) : canonicalize(x) \in Children(u)
        /\ \A y \in Children(u) : \E x \in Children(v) : y = canonicalize(x)
    BY <2>1, <2>2
  <2>4. QED
    BY <2>3 DEF u
<1>3. QED
  BY <1>1, <1>2

(* Putting a value in canonical form adds and removes no NaN.              *)
LEMMA CanonicalKeepsNan ==
    ASSUME NEW w \in Value
    PROVE  contains_nan(canonicalize(w)) <=> contains_nan(w)
<1> DEFINE Bad == { v \in Value : ~(contains_nan(canonicalize(v)) <=> contains_nan(v)) }
<1>1. ASSUME NEW v \in Value, \A x \in Children(v) : x \notin Bad
      PROVE  v \notin Bad
  <2> DEFINE u == canonicalize(v)
  <2>1. \A x \in Children(v) : contains_nan(canonicalize(x)) <=> contains_nan(x)
    BY <1>1, ChildrenAreValues
  <2>2. /\ \A x \in Children(v) : canonicalize(x) \in Children(u)
        /\ \A y \in Children(u) : \E x \in Children(v) : y = canonicalize(x)
    BY ChildrenOfCanonical
  <2>3. (\E y \in Children(u) : contains_nan(y)) <=> (\E x \in Children(v) : contains_nan(x))
    BY <2>1, <2>2
  <2>4. v.t = "float" => u = v
    BY CanonicalLeaf
  <2>5. u.t = v.t /\ u \in Value
    BY CanonicalType, CanonicalIsValue
  <2>6. contains_nan(v) <=> \/ v.t = "float" /\ v.n = 1
                            \/ \E x \in Children(v) : contains_nan(x)
    BY NanIs
  <2> HIDE DEF u
  <2>7. contains_nan(u) <=> \/ u.t = "float" /\ u.n = 1
                            \/ \E x \in Children(u) : contains_nan(x)
    BY <2>5, NanIs
  <2>8. contains_nan(u) <=> contains_nan(v)
    BY <2>3, <2>4, <2>5, <2>6, <2>7
  <2>9. QED
    BY <2>8 DEF u
<1>2. Bad = {}
  BY <1>1, Shallowest
<1>3. QED
  BY <1>2

(* Nor a key of a forbidden type.                                          *)
LEMMA CanonicalKeepsInvalid ==
    ASSUME NEW w \in Value
    PROVE  has_invalid_map_key(canonicalize(w)) <=> has_invalid_map_key(w)
<1> DEFINE Bad == { v \in Value :
                      ~(has_invalid_map_key(canonicalize(v)) <=> has_invalid_map_key(v)) }
<1>1. ASSUME NEW v \in Value, \A x \in Children(v) : x \notin Bad
      PROVE  v \notin Bad
  <2> DEFINE u == canonicalize(v)
  <2>1. \A x \in Children(v) : /\ x \in Value
                               /\ has_invalid_map_key(canonicalize(x)) <=> has_invalid_map_key(x)
    BY <1>1, ChildrenAreValues
  <2>2. u.t = v.t /\ u \in Value
    BY CanonicalType, CanonicalIsValue
  <2>3. CASE v.t = "map"
    <3>1. /\ \A i \in DOMAIN u.s : \E j \in DOMAIN v.s :
                u.s[i].k = canonicalize(v.s[j].k) /\ u.s[i].v = canonicalize(v.s[j].v)
          /\ \A j \in DOMAIN v.s : \E i \in DOMAIN u.s :
                u.s[i].k = canonicalize(v.s[j].k) /\ u.s[i].v = canonicalize(v.s[j].v)
      BY <2>3, CanonicalEntries
    <3>2. \A j \in DOMAIN v.s :
             /\ canonicalize(v.s[j].k).t = v.s[j].k.t
             /\ has_invalid_map_key(canonicalize(v.s[j].v)) <=> has_invalid_map_key(v.s[j].v)
      BY <2>1, <2>3, MapShape, CanonicalType
    <3> HIDE DEF u
    <3>3. /\ has_invalid_map_key(v) <=>
                \E j \in DOMAIN v.s : BadKey(v.s[j].k) \/ has_invalid_map_key(v.s[j].v)
          /\ has_invalid_map_key(u) <=>
                \E i \in DOMAIN u.s : BadKey(u.s[i].k) \/ has_invalid_map_key(u.s[i].v)
      BY <2>2, <2>3, InvalidMapIs DEF RangeOf
    <3>4. ASSUME NEW i \in DOMAIN u.s, NEW j \in DOMAIN v.s,
                 u.s[i].k = canonicalize(v.s[j].k), u.s[i].v = canonicalize(v.s[j].v)
          PROVE  /\ BadKey(u.s[i].k) <=> BadKey(v.s[j].k)
                 /\ has_invalid_map_key(u.s[i].v) <=> has_invalid_map_key(v.s[j].v)
      <4>1. u.s[i].k.t = v.s[j].k.t
        BY <3>2, <3>4
      <4>2. QED
        BY <3>2, <3>4, <4>1 DEF BadKey
    <3>5. has_invalid_map_key(u) <=> has_invalid_map_key(v)
      BY <3>1, <3>3, <3>4
    <3>6. QED
      BY <3>5 DEF u
  <2>4. CASE v.t # "map"
    <3>1. /\ \A x \in Children(v) : canonicalize(x) \in Children(u)
          /\ \A y \in Children(u) : \E x \in Children(v) : y = canonicalize(x)
      BY ChildrenOfCanonical
    <3>2. (\E y \in Children(u) : has_invalid_map_key(y))
             <=> (\E x \in Children(v) : has_invalid_map_key(x))
      BY <2>1, <3>1
    <3> HIDE DEF u
    <3>3. has_invalid_map_key(u) <=> has_invalid_map_key(v)
      BY <2>2, <2>4, <3>2, InvalidListIs
    <3>4. QED
      BY <3>3 DEF u
  <2>5. QED
    BY <2>3, <2>4
<1>2. Bad = {}
  BY <1>1, Shallowest
<1>3. QED
  BY <1>2

(* A value is portable when the scans of strict_map find nothing.          *)
LEMMA PortableTurn ==
    ASSUME NEW v \in Value
    PROVE  Portable(v) <=>
              /\ v # Leaf("float", 1)
              /\ v.t = "map" => \A i \in DOMAIN v.s : v.s[i].k.t \in {"int", "text"}
              /\ \A x \in Children(v) : Portable(x)
BY InsideIs DEF Portable

LEMMA PortableIs ==
    ASSUME NEW w \in Value
    PROVE  Portable(w) <=> ~contains_nan(w) /\ ~has_invalid_map_key(w)
<1> DEFINE Clean(v) == ~contains_nan(v) /\ ~has_invalid_map_key(v)
           Bad == { v \in Value : ~(Portable(v) <=> Clean(v)) }
<1>1. ASSUME NEW v \in Value, \A x \in Children(v) : x \notin Bad
      PROVE  v \notin Bad
  <2>1. \A x \in Children(v) : x \in Value /\ (Portable(x) <=> Clean(x))
    BY <1>1, ChildrenAreValues
  <2>2. v = Leaf("float", 1) <=> v.t = "float" /\ v.n = 1
    BY LeafShape DEF Leaf
  <2>3. CASE v.t = "map"
    <3>1. \A x : x \in Children(v) <=> \E i \in DOMAIN v.s : x = v.s[i].k \/ x = v.s[i].v
      BY <2>3 DEF Children
    <3>2. has_invalid_map_key(v) <=>
             \E i \in DOMAIN v.s : BadKey(v.s[i].k) \/ has_invalid_map_key(v.s[i].v)
      BY <2>3, InvalidMapIs DEF RangeOf
    <3>3. contains_nan(v) <=> \E x \in Children(v) : contains_nan(x)
      BY <2>3, NanIs
    <3>4. \A i \in DOMAIN v.s : ~BadKey(v.s[i].k) =>
             ~contains_nan(v.s[i].k) /\ ~has_invalid_map_key(v.s[i].k)
      <4>1. ASSUME NEW k \in Value, ~BadKey(k)
            PROVE  ~contains_nan(k) /\ ~has_invalid_map_key(k)
        <5>1. k.t \in {"int", "text"} /\ Children(k) = {}
          BY <4>1, LeafShape DEF BadKey
        <5>2. QED
          BY <5>1, NanIs, InvalidListIs
      <4>2. \A i \in DOMAIN v.s : v.s[i].k \in Value
        BY <2>1, <3>1
      <4>3. QED
        BY <4>1, <4>2
    <3>5. Clean(v) <=> /\ \A i \in DOMAIN v.s : ~BadKey(v.s[i].k)
                       /\ \A x \in Children(v) : Clean(x)
      BY <3>1, <3>2, <3>3, <3>4
    <3> HIDE DEF Clean
    <3>6. Portable(v) <=> /\ \A i \in DOMAIN v.s : ~BadKey(v.s[i].k)
                          /\ \A x \in Children(v) : Portable(x)
      BY <2>2, <2>3, PortableTurn DEF BadKey
    <3>7. QED
      BY <2>1, <3>5, <3>6
  <2>4. CASE v.t # "map"
    <3>1. Clean(v) <=> v # Leaf("float", 1) /\ \A x \in Children(v) : Clean(x)
      BY <2>2, <2>4, NanIs, InvalidListIs
    <3> HIDE DEF Clean
    <3>2. Portable(v) <=> v # Leaf("float", 1) /\ \A x \in Children(v) : Portable(x)
      BY <2>4, PortableTurn
    <3>3. QED
      BY <2>1, <3>1, <3>2
  <2>5. QED
    BY <2>3, <2>4
<1>2. Bad = {}
  BY <1>1, Shallowest
<1>3. QED
  BY <1>2

LEMMA NoneIsNoString ==
    /\ None # "Malformed" /\ None # "NonCanonical" /\ None # "UnknownReservedKey"
    /\ None # "BadType" /\ None # "Nothing" /\ None # "Ok" /\ None # "Serialization"
    /\ None # "AppNotMap" /\ None # "ReservedKey" /\ None # "Nan"
BY NoneAssumption DEF MintError, Outcome

(* strict_map (serial.rs:209) accepts exactly the canonical plaintexts of  *)
(* portable maps: writing a value again and comparing the bytes tells      *)
(* whether every map in it rises, at every depth.                          *)
THEOREM StrictIsCanonical ==
    ASSUME NEW p, p.value \in Value
    PROVE  strict_error(p) = None <=> Canonical(p)
<1> DEFINE v == p.value
<1>1. None # "Malformed" /\ None # "NonCanonical"
  BY NoneIsNoString
<1>2. strict_error(p) = None <=>
         /\ p.decodes /\ v.t = "map" /\ ~contains_nan(v) /\ ~has_invalid_map_key(v)
         /\ ~Repeats(v.s) /\ p.exact /\ encode(canonicalize(v)) = encode(v)
  BY <1>1 DEF strict_error
<1>3. encode(canonicalize(v)) = encode(v) <=> canonicalize(v) = v
  BY EncodeInjective, CanonicalIsValue
<1>4. canonicalize(v) = v <=> \A x \in Inside(v) : x.t = "map" => Ascending(x)
  BY FixedIsSorted
<1>5. v.t = "map" => (StrictlyAscending(v) <=> Ascending(v) /\ ~Repeats(v.s))
  <2>1. v.t = "map" => v.s \in Seq(Entries)
    BY MapShape
  <2>2. QED
    BY <2>1, StrictlyRisingIs DEF StrictlyRising, Rising, StrictlyAscending, Ascending
<1>6. v \in Inside(v)
  BY InsideIs
<1>7. Portable(v) <=> ~contains_nan(v) /\ ~has_invalid_map_key(v)
  BY PortableIs
<1>8. Canonical(p) <=>
         /\ p.decodes /\ p.exact /\ v.t = "map" /\ Portable(v) /\ StrictlyAscending(v)
         /\ \A x \in Inside(v) : x.t = "map" => Ascending(x)
  BY DEF Canonical
<1> HIDE DEF v
<1>9. QED
  BY <1>2, <1>3, <1>4, <1>5, <1>6, <1>7, <1>8

-----------------------------------------------------------------------------
(* Reserved keys. *)

LEMMA KeyIs ==
    /\ RESERVED = {"tid", "exp", "aud", "sub", "iss"}
    /\ Key["tid"] = -1 /\ Key["exp"] = -2 /\ Key["aud"] = -3
    /\ Key["sub"] = -4 /\ Key["iss"] = -5
BY DEF RESERVED, Key

LEMMA KeysDiffer ==
    ASSUME NEW f \in RESERVED
    PROVE  /\ Key[f] \in Int /\ Key[f] < 0
           /\ f \notin {"unknown", "invalid", "app"}
           /\ \A g \in RESERVED : Key[f] = Key[g] => f = g
BY KeyIs

LEMMA ClassifyIs ==
    ASSUME NEW k
    PROVE  /\ \A f \in RESERVED : classify(k) = f <=> k = ikey(Key[f])
           /\ classify(k) \in RESERVED \cup {"unknown", "invalid", "app"}
           /\ classify(k) \notin RESERVED => classify(k) =
                 IF is_negative_int(k) THEN "unknown" ELSE IF BadKey(k) THEN "invalid" ELSE "app"
<1>1. CASE \E f \in RESERVED : k = ikey(Key[f])
  <2>1. PICK f \in RESERVED : k = ikey(Key[f])
    BY <1>1
  <2>2. \A g \in RESERVED : k = ikey(Key[g]) => g = f
    BY <2>1, KeysDiffer DEF ikey, Leaf
  <2>3. classify(k) = f
    BY <2>1, <2>2 DEF classify
  <2>4. QED
    BY <2>1, <2>2, <2>3
<1>2. CASE ~\E f \in RESERVED : k = ikey(Key[f])
  <2>1. classify(k) = IF is_negative_int(k) THEN "unknown"
                      ELSE IF BadKey(k) THEN "invalid" ELSE "app"
    BY <1>2 DEF classify
  <2>2. QED
    BY <1>2, <2>1, KeysDiffer
<1>3. QED
  BY <1>1, <1>2

LEMMA ReservedKeyIs ==
    ASSUME NEW k \in Value, NEW f \in RESERVED
    PROVE  classify(k) = f <=> k.t = "int" /\ k.n = Key[f]
BY ClassifyIs, LeafShape DEF ikey, Leaf

(* A reserved entry is told by its key's number alone.                     *)
LEMMA NegativeIs ==
    ASSUME NEW k \in Value, k.t \in {"int", "text"}
    PROVE  /\ k.t = "int" /\ k.n < 0 <=> classify(k) # "app"
           /\ classify(k) # "invalid"
<1>1. \A f \in RESERVED : classify(k) = f => k.t = "int" /\ k.n < 0
  BY ReservedKeyIs, KeysDiffer
<1>2. classify(k) \in RESERVED \/ classify(k) =
         IF is_negative_int(k) THEN "unknown" ELSE IF BadKey(k) THEN "invalid" ELSE "app"
  BY ClassifyIs
<1>3. QED
  BY <1>1, <1>2, KeysDiffer DEF is_negative_int, BadKey

LEMMA RecognizedIs ==
    ASSUME NEW kind \in Kind
    PROVE  Recognized(kind) \subseteq RESERVED /\ Required(kind) \subseteq RESERVED
           /\ "tid" \notin Recognized("manifest")
BY KeyIs DEF Recognized, Required, Kind

(* The arms take the entries a half is entitled to.                        *)
EntryEntitled(kind, e) ==
    e.k.t = "int" /\ e.k.n < 0 =>
        \E f \in Recognized(kind) : Key[f] = e.k.n /\ Reads(f, e.v)

LEMMA ArmsAreEntitled ==
    ASSUME NEW kind \in Kind, NEW e \in Entries, e.k.t \in {"int", "text"}
    PROVE  arm_error(kind, e) = None <=> EntryEntitled(kind, e)
<1> DEFINE c == classify(e.k)
<1>1. e.k \in Value /\ (c # "app" <=> e.k.t = "int" /\ e.k.n < 0) /\ c # "invalid"
  BY NegativeIs, EntryShape
<1>2. \A f \in Recognized(kind) : f \in RESERVED /\ (c = f <=> e.k.t = "int" /\ e.k.n = Key[f])
  BY <1>1, RecognizedIs, ReservedKeyIs
<1>3. arm_error(kind, e) = None <=> c = "app" \/ (c \in Recognized(kind) /\ Reads(c, e.v))
  BY <1>1, NoneIsNoString DEF arm_error
<1>4. CASE c = "app"
  BY <1>1, <1>3, <1>4 DEF EntryEntitled
<1>5. CASE c # "app"
  <2>1. EntryEntitled(kind, e) <=> \E f \in Recognized(kind) : c = f /\ Reads(f, e.v)
    BY <1>1, <1>2, <1>5 DEF EntryEntitled
  <2>2. QED
    BY <1>3, <1>5, <2>1
<1>6. QED
  BY <1>4, <1>5

LEMMA ArmTakes ==
    ASSUME NEW kind \in Kind, NEW e, arm_error(kind, e) = None
    PROVE  classify(e.k) = "app" \/ classify(e.k) \in Recognized(kind)
BY NoneIsNoString DEF arm_error

LEMMA ArmErrorType ==
    ASSUME NEW kind \in Kind, NEW e
    PROVE  arm_error(kind, e) \in {None, "NonCanonical", "UnknownReservedKey", "BadType"}
BY DEF arm_error

(* The keys of a plaintext that strict_map accepts.                        *)
LEMMA CanonicalPlaintext ==
    ASSUME NEW p, p.value \in Value, strict_error(p) = None
    PROVE  /\ p.value.t = "map" /\ p.value.s \in Seq(Entries)
           /\ StrictlyRising(p.value.s) /\ ~Repeats(p.value.s)
           /\ \A i \in DOMAIN p.value.s : p.value.s[i].k.t \in {"int", "text"}
<1>1. Canonical(p)
  BY StrictIsCanonical
<1>2. p.value.t = "map" /\ StrictlyRising(p.value.s) /\ Portable(p.value)
  BY <1>1 DEF Canonical, StrictlyAscending, StrictlyRising
<1>3. p.value.s \in Seq(Entries)
  BY <1>2, MapShape
<1>4. \A i \in DOMAIN p.value.s : p.value.s[i].k.t \in {"int", "text"}
  BY <1>2, PortableTurn
<1>5. QED
  BY <1>2, <1>3, <1>4, StrictlyRisingIs

-----------------------------------------------------------------------------
(* The inductive invariant: what has been read of a half accounts for the  *)
(* entries of its plaintext up to where the decoder stands.                *)

Puts(kind) == IF kind = "manifest" THEN {"iss"} ELSE RESERVED

Made(kind, clauses, app) ==
    IF app_error(app) # None THEN [error |-> app_error(app)]
    ELSE Plaintext(TRUE, to_plaintext(kind, clauses, app), TRUE)

SourceInv ==
    \/ source = None
    \/ \E kind \in Kind, clauses \in Clauses, app \in AppValue :
          /\ source = [kind |-> kind, clauses |-> clauses, app |-> app]
          /\ \A f \in Required(kind) : clauses[f] # None
          /\ plain = Made(kind, clauses, app)

PlainInv ==
    \/ plain = None /\ source = None
          /\ \A kind \in Kind : rest[kind] = None /\ out[kind] = None
    \/ \E error \in MintError : plain = [error |-> error]
          /\ \A kind \in Kind : rest[kind] = None /\ out[kind] = None
    \/ \E decodes, exact \in BOOLEAN, value \in Value : plain = Plaintext(decodes, value, exact)

(* A decoder that is not at work has nothing; one that failed before it    *)
(* started was given a plaintext that is not canonical.                    *)
Idle(kind) ==
    /\ got[kind] = [f \in RESERVED |-> None] /\ opaque[kind] = <<>>
    /\ out[kind] # None => strict_error(plain) # None /\ out[kind] # "Ok"

(* The first m entries were taken, and are the fields and the application  *)
(* entries read.                                                           *)
Accounts(kind, es, m, fields, app) ==
    /\ \A i \in 1 .. m : arm_error(kind, es[i]) = None
    /\ \A f \in RESERVED : fields[f] # None => \E i \in 1 .. m : classify(es[i].k) = f
    /\ \A i \in 1 .. m : classify(es[i].k) \in RESERVED => fields[classify(es[i].k)] = es[i].v
    /\ app \in Seq(Entries) /\ StrictlyRising(app)
    /\ \A e \in RangeOf(app) : \E i \in 1 .. m : classify(es[i].k) = "app" /\ e = es[i]
    /\ \A i \in 1 .. m : classify(es[i].k) = "app" => es[i] \in RangeOf(app)

AtWork(kind, es, left, fields, app, outcome) ==
    /\ left \in Seq(Entries) /\ Len(left) <= Len(es)
    /\ \A i \in 1 .. Len(left) : left[i] = es[Len(es) - Len(left) + i]
    /\ Accounts(kind, es, Len(es) - Len(left), fields, app)
    /\ outcome = "Ok" => left = <<>>
    /\ outcome # None /\ left # <<>> => arm_error(kind, left[1]) # None

ReadInv ==
    \A kind \in Kind :
        IF rest[kind] = None THEN Idle(kind)
        ELSE /\ plain # None /\ plain.error = None /\ strict_error(plain) = None
             /\ AtWork(kind, plain.value.s, rest[kind], got[kind], opaque[kind], out[kind])

ShapeInv ==
    /\ rest \in [Kind -> Seq(Entries) \cup {None}]
    /\ got \in [Kind -> [RESERVED -> Value \cup {None}]]
    /\ opaque \in [Kind -> Seq(Entries)]
    /\ out \in [Kind -> Outcome \cup {None}]

IInv == SourceInv /\ PlainInv /\ ReadInv /\ ShapeInv

LEMMA RisingAppend ==
    ASSUME NEW s \in Seq(Entries), NEW e \in Entries, StrictlyRising(s),
           \A x \in RangeOf(s) : Before(encode(x.k), encode(e.k))
    PROVE  /\ Append(s, e) \in Seq(Entries) /\ StrictlyRising(Append(s, e))
           /\ \A x : x \in RangeOf(Append(s, e)) <=> x \in RangeOf(s) \/ x = e
<1> DEFINE t == Append(s, e)
<1>1. /\ t \in Seq(Entries) /\ Len(t) = Len(s) + 1
      /\ \A i \in 1 .. Len(s) : t[i] = s[i]
      /\ t[Len(s) + 1] = e
  BY AppendProperties
<1>2. Len(s) \in Nat /\ DOMAIN s = 1 .. Len(s) /\ DOMAIN t = 1 .. Len(t)
  BY <1>1, SeqDomain
<1> HIDE DEF t
<1>3. ASSUME NEW i \in DOMAIN t, NEW j \in DOMAIN t, i < j
      PROVE  Before(encode(t[i].k), encode(t[j].k))
  <2>1. i \in DOMAIN s /\ t[i] = s[i]
    BY <1>1, <1>2, <1>3
  <2>2. CASE j = Len(s) + 1
    BY <1>1, <2>1, <2>2 DEF RangeOf
  <2>3. CASE j # Len(s) + 1
    <3>1. j \in DOMAIN s /\ t[j] = s[j]
      BY <1>1, <1>2, <2>3
    <3>2. QED
      BY <1>3, <2>1, <3>1 DEF StrictlyRising
  <2>4. QED
    BY <2>2, <2>3
<1>4. \A x : x \in RangeOf(t) <=> x \in RangeOf(s) \/ x = e
  BY <1>1, <1>2 DEF RangeOf
<1>5. QED
  BY <1>1, <1>3, <1>4 DEF t, StrictlyRising

(* No entry taken yet.                                                     *)
LEMMA AccountsFromNothing ==
    ASSUME NEW kind \in Kind, NEW es
    PROVE  Accounts(kind, es, 0, [f \in RESERVED |-> None], <<>>)
<1>1. <<>> \in Seq(Entries) /\ Len(<<>>) = 0
  BY EmptySeq
<1>2. DOMAIN <<>> = {}
  BY <1>1, SeqDomain
<1>3. StrictlyRising(<<>>) /\ RangeOf(<<>>) = {}
  BY <1>2 DEF StrictlyRising, RangeOf
<1>4. QED
  BY <1>1, <1>3 DEF Accounts

(* One more.                                                               *)
LEMMA AccountsForOneMore ==
    ASSUME NEW kind \in Kind, NEW es \in Seq(Entries), StrictlyRising(es),
           NEW m \in Nat, m < Len(es),
           NEW fields \in [RESERVED -> Value \cup {None}], NEW app,
           Accounts(kind, es, m, fields, app), arm_error(kind, es[m + 1]) = None
    PROVE  LET e == es[m + 1]
               c == classify(e.k)
           IN  Accounts(kind, es, m + 1,
                        IF c = "app" THEN fields ELSE [fields EXCEPT ![c] = e.v],
                        IF c = "app" THEN Append(app, e) ELSE app)
<1> DEFINE e == es[m + 1]
           c == classify(e.k)
           newFields == IF c = "app" THEN fields ELSE [fields EXCEPT ![c] = e.v]
           newApp == IF c = "app" THEN Append(app, e) ELSE app
<1>1. Len(es) \in Nat /\ DOMAIN es = 1 .. Len(es) /\ m + 1 \in DOMAIN es /\ e \in Entries
  BY SeqDomain
<1>2. \A i \in 1 .. m : Before(encode(es[i].k), encode(e.k))
  BY <1>1 DEF StrictlyRising
<1>3. \A i \in 1 .. m : es[i].k # e.k
  <2>1. encode(e.k) \in Seq(Int)
    BY <1>1, EntryShape, EncodeType
  <2>2. QED
    BY <1>2, <2>1, BeforeIrreflexive
<1>4. c = "app" \/ (c \in RESERVED /\ c # "app")
  BY ArmTakes, RecognizedIs, KeysDiffer
<1>5. /\ \A i \in 1 .. m : arm_error(kind, es[i]) = None
      /\ \A f \in RESERVED : fields[f] # None => \E i \in 1 .. m : classify(es[i].k) = f
      /\ \A i \in 1 .. m : classify(es[i].k) \in RESERVED => fields[classify(es[i].k)] = es[i].v
      /\ app \in Seq(Entries) /\ StrictlyRising(app)
      /\ \A x \in RangeOf(app) : \E i \in 1 .. m : classify(es[i].k) = "app" /\ x = es[i]
      /\ \A i \in 1 .. m : classify(es[i].k) = "app" => es[i] \in RangeOf(app)
  BY DEF Accounts
<1>6. \A i : i \in 1 .. m + 1 <=> i \in 1 .. m \/ i = m + 1
  OBVIOUS
<1>7. \A i \in 1 .. m : c \in RESERVED => classify(es[i].k) # c
  BY <1>3, ClassifyIs
<1>8. arm_error(kind, e) = None
  OBVIOUS
<1> HIDE DEF e
<1>9. \A i \in 1 .. m + 1 : arm_error(kind, es[i]) = None
  BY <1>5, <1>6, <1>8 DEF e
<1>10. \A f \in RESERVED : newFields[f] # None => \E i \in 1 .. m + 1 : classify(es[i].k) = f
  <2>1. SUFFICES ASSUME NEW f \in RESERVED, newFields[f] # None
                 PROVE  \E i \in 1 .. m + 1 : classify(es[i].k) = f
    OBVIOUS
  <2>2. f = c \/ fields[f] # None
    BY <1>4, <2>1
  <2>3. CASE f = c
    BY <1>6, <2>3 DEF e
  <2>4. CASE fields[f] # None
    BY <1>5, <1>6, <2>4
  <2>5. QED
    BY <2>2, <2>3, <2>4
<1>11. ASSUME NEW i \in 1 .. m + 1, classify(es[i].k) \in RESERVED
       PROVE  newFields[classify(es[i].k)] = es[i].v
  <2>1. CASE i = m + 1
    <3>1. classify(es[i].k) = c /\ es[i].v = e.v
      BY <2>1 DEF e
    <3> HIDE DEF c
    <3>2. c \in RESERVED /\ c # "app"
      BY <1>4, <1>11, <3>1, KeysDiffer
    <3>3. newFields[c] = e.v
      BY <3>2
    <3>4. QED
      BY <3>1, <3>3
  <2>2. CASE i \in 1 .. m
    <3>1. fields[classify(es[i].k)] = es[i].v
      BY <1>5, <1>11, <2>2
    <3>2. c \in RESERVED => classify(es[i].k) # c
      BY <1>7, <2>2
    <3> HIDE DEF c
    <3>3. newFields[classify(es[i].k)] = fields[classify(es[i].k)]
      BY <1>4, <1>11, <3>2
    <3>4. QED
      BY <3>1, <3>3
  <2>3. QED
    BY <1>6, <2>1, <2>2
<1>12. /\ newApp \in Seq(Entries) /\ StrictlyRising(newApp)
       /\ \A x : x \in RangeOf(newApp) <=> x \in RangeOf(app) \/ (c = "app" /\ x = e)
  <2>1. \A x \in RangeOf(app) : Before(encode(x.k), encode(e.k))
    BY <1>2, <1>5
  <2>2. CASE c = "app"
    BY <1>1, <1>5, <2>1, <2>2, RisingAppend
  <2>3. CASE c # "app"
    BY <1>5, <2>3
  <2>4. QED
    BY <2>2, <2>3
<1> HIDE DEF c, newApp, newFields
<1>13. \A x \in RangeOf(newApp) : \E i \in 1 .. m + 1 : classify(es[i].k) = "app" /\ x = es[i]
  BY <1>5, <1>6, <1>12 DEF e, c
<1>14. \A i \in 1 .. m + 1 : classify(es[i].k) = "app" => es[i] \in RangeOf(newApp)
  BY <1>5, <1>6, <1>12 DEF e, c
<1>15. Accounts(kind, es, m + 1, newFields, newApp)
  BY <1>9, <1>10, <1>11, <1>12, <1>13, <1>14 DEF Accounts
<1>16. QED
  BY <1>15 DEF newFields, newApp, c, e

LEMMA AtWorkStarts ==
    ASSUME NEW kind \in Kind, NEW es \in Seq(Entries)
    PROVE  AtWork(kind, es, es, [f \in RESERVED |-> None], <<>>, None)
<1>1. Len(es) \in Nat /\ Len(es) - Len(es) = 0 /\ \A i \in 1 .. Len(es) : i = 0 + i
  BY SeqDomain
<1>2. \A i \in 1 .. Len(es) : es[i] = es[Len(es) - Len(es) + i]
  BY <1>1
<1>3. Accounts(kind, es, Len(es) - Len(es), [f \in RESERVED |-> None], <<>>)
  BY <1>1, AccountsFromNothing
<1>4. QED
  BY <1>1, <1>2, <1>3, NoneIsNoString DEF AtWork

LEMMA AtWorkTakes ==
    ASSUME NEW kind \in Kind, NEW es \in Seq(Entries), StrictlyRising(es), NEW left,
           NEW fields \in [RESERVED -> Value \cup {None}], NEW app,
           AtWork(kind, es, left, fields, app, None), left # <<>>,
           arm_error(kind, Head(left)) = None
    PROVE  LET e == Head(left)
               c == classify(e.k)
           IN  AtWork(kind, es, Tail(left),
                      IF c = "app" THEN fields ELSE [fields EXCEPT ![c] = e.v],
                      IF c = "app" THEN Append(app, e) ELSE app, None)
<1> DEFINE m == Len(es) - Len(left)
           e == Head(left)
           c == classify(e.k)
<1>1. /\ left \in Seq(Entries) /\ Len(left) <= Len(es)
      /\ \A i \in 1 .. Len(left) : left[i] = es[m + i]
      /\ Accounts(kind, es, m, fields, app)
  BY DEF AtWork
<1>2. Len(es) \in Nat /\ Len(left) \in Nat \ {0}
  BY <1>1, SeqDomain, EmptySeq
<1>3. /\ Tail(left) \in Seq(Entries) /\ Len(Tail(left)) = Len(left) - 1
      /\ \A i \in 1 .. Len(left) - 1 : Tail(left)[i] = left[i + 1]
  <2>1. /\ Tail(left) \in Seq(Entries) /\ Len(Tail(left)) = Len(left) - 1
        /\ \A i \in 1 .. Len(Tail(left)) : Tail(left)[i] = left[i + 1]
    BY <1>1, HeadTailProperties
  <2>2. QED
    BY <2>1
<1>4. m \in Nat /\ m < Len(es) /\ e = es[m + 1]
  BY <1>1, <1>2
<1>5. Len(es) - Len(Tail(left)) = m + 1
  BY <1>2, <1>3
<1>6. \A i \in 1 .. Len(left) - 1 : Tail(left)[i] = es[m + 1 + i]
  BY <1>1, <1>2, <1>3
<1> HIDE DEF m
<1>7. Accounts(kind, es, m + 1,
               IF c = "app" THEN fields ELSE [fields EXCEPT ![c] = e.v],
               IF c = "app" THEN Append(app, e) ELSE app)
  BY <1>1, <1>4, AccountsForOneMore
<1> HIDE DEF e, c
<1>8. AtWork(kind, es, Tail(left),
             IF c = "app" THEN fields ELSE [fields EXCEPT ![c] = e.v],
             IF c = "app" THEN Append(app, e) ELSE app, None)
  BY <1>2, <1>3, <1>5, <1>6, <1>7, NoneIsNoString DEF AtWork
<1>9. QED
  BY <1>8 DEF e, c

(* A plaintext, once there is one, is of a value in play.                  *)
LEMMA PlaintextShape ==
    ASSUME PlainInv, plain # None, plain.error = None
    PROVE  plain.value \in Value
<1>1. CASE \E error \in MintError : plain = [error |-> error]
  BY <1>1, NoneAssumption
<1>2. CASE \E decodes, exact \in BOOLEAN, value \in Value :
              plain = Plaintext(decodes, value, exact)
  BY <1>2 DEF Plaintext
<1>3. QED
  BY <1>1, <1>2 DEF PlainInv

LEMMA StrictErrorType ==
    ASSUME NEW p
    PROVE  strict_error(p) \in {None, "Malformed", "NonCanonical"}
BY DEF strict_error

(* What is minted is refused, or is the canonical form of a map in play.   *)
LEMMA MadeShape ==
    ASSUME NEW kind \in Kind, NEW clauses \in Clauses, NEW app \in AppValue
    PROVE  \/ \E error \in MintError : Made(kind, clauses, app) = [error |-> error]
           \/ /\ app \in AppMap /\ app_error(app) = None
              /\ MapOf(app.s \o ReservedEntries(kind, clauses)) \in Value
              /\ to_plaintext(kind, clauses, app) \in Value
              /\ Made(kind, clauses, app) =
                    Plaintext(TRUE, to_plaintext(kind, clauses, app), TRUE)
<1>1. CASE app_error(app) # None
  <2>1. app_error(app) \in MintError
    BY <1>1 DEF app_error, MintError
  <2>2. QED
    BY <1>1, <2>1 DEF Made
<1>2. CASE app_error(app) = None
  <2>1. app \in AppMap
    BY <1>2, NoneIsNoString DEF app_error, AppMap
  <2>2. MapOf(app.s \o ReservedEntries(kind, clauses)) \in Value
    BY <2>1, PlayAssumption
  <2>3. to_plaintext(kind, clauses, app) \in Value
    BY <2>2, CanonicalIsValue DEF to_plaintext, assemble
  <2>4. QED
    BY <1>2, <2>1, <2>2, <2>3 DEF Made
<1>3. QED
  BY <1>1, <1>2

LEMMA InitIInv == Init => IInv
<1> SUFFICES ASSUME Init PROVE IInv
  OBVIOUS
<1>1. source = None /\ plain = None
  BY DEF Init
<1>2. \A kind \in Kind : /\ rest[kind] = None /\ out[kind] = None
                         /\ got[kind] = [f \in RESERVED |-> None] /\ opaque[kind] = <<>>
  BY DEF Init
<1>3. ShapeInv
  BY EmptySeq DEF Init, ShapeInv
<1>4. SourceInv /\ PlainInv
  BY <1>1, <1>2 DEF SourceInv, PlainInv
<1>5. ReadInv
  BY <1>2 DEF ReadInv, Idle
<1>6. QED
  BY <1>3, <1>4, <1>5 DEF IInv

(* Before there is a plaintext nothing is at work.                         *)
LEMMA NothingYet ==
    ASSUME IInv, plain = None
    PROVE  /\ source = None
           /\ \A kind \in Kind : rest[kind] = None /\ out[kind] = None
           /\ \A kind \in Kind : got[kind] = [f \in RESERVED |-> None] /\ opaque[kind] = <<>>
<1>1. \A error : None # [error |-> error] \/ error \notin MintError
  BY NoneAssumption
<1>2. \A decodes, exact \in BOOLEAN, value \in Value : None # Plaintext(decodes, value, exact)
  BY NoneAssumption
<1>3. source = None /\ \A kind \in Kind : rest[kind] = None /\ out[kind] = None
  BY <1>1, <1>2 DEF IInv, PlainInv, SourceInv
<1>4. QED
  BY <1>3 DEF IInv, ReadInv, Idle

(* A plaintext appears.                                                    *)
LEMMA PlaintextAppears ==
    ASSUME IInv, plain = None, UNCHANGED <<rest, got, opaque, out>>,
           \/ \E error \in MintError : plain' = [error |-> error]
           \/ \E decodes, exact \in BOOLEAN, value \in Value :
                 plain' = Plaintext(decodes, value, exact)
    PROVE  PlainInv' /\ ReadInv' /\ ShapeInv'
<1>1. /\ \A kind \in Kind : rest[kind] = None /\ out[kind] = None
      /\ \A kind \in Kind : got[kind] = [f \in RESERVED |-> None] /\ opaque[kind] = <<>>
  BY NothingYet
<1>2. PlainInv'
  BY <1>1 DEF PlainInv
<1>3. ReadInv'
  BY <1>1 DEF ReadInv, Idle
<1>4. ShapeInv'
  BY DEF IInv, ShapeInv
<1>5. QED
  BY <1>2, <1>3, <1>4

LEMMA MintStep ==
    ASSUME IInv, NEW kind \in Kind, NEW clauses \in Clauses, NEW app \in AppValue,
           Mint(kind, clauses, app)
    PROVE  IInv'
<1>1. /\ plain = None /\ \A f \in Required(kind) : clauses[f] # None
      /\ source' = [kind |-> kind, clauses |-> clauses, app |-> app]
      /\ plain' = Made(kind, clauses, app)
      /\ UNCHANGED <<rest, got, opaque, out>>
  BY DEF Mint, Made
<1>2. \/ \E error \in MintError : plain' = [error |-> error]
      \/ \E decodes, exact \in BOOLEAN, value \in Value :
            plain' = Plaintext(decodes, value, exact)
  BY <1>1, MadeShape
<1>3. PlainInv' /\ ReadInv' /\ ShapeInv'
  BY <1>1, <1>2, PlaintextAppears
<1>4. SourceInv'
  BY <1>1 DEF SourceInv
<1>5. QED
  BY <1>3, <1>4 DEF IInv

LEMMA ReceiveStep ==
    ASSUME IInv, NEW value \in WireValue, NEW decodes \in BOOLEAN, NEW exact \in BOOLEAN,
           Receive(value, decodes, exact)
    PROVE  IInv'
<1>1. /\ plain = None /\ plain' = Plaintext(decodes, value, exact)
      /\ source' = source /\ UNCHANGED <<rest, got, opaque, out>>
  BY DEF Receive
<1>2. value \in Value
  BY PlayAssumption
<1>3. PlainInv' /\ ReadInv' /\ ShapeInv'
  BY <1>1, <1>2, PlaintextAppears
<1>4. source = None
  BY <1>1, NothingYet
<1>5. SourceInv'
  BY <1>1, <1>4 DEF SourceInv
<1>6. QED
  BY <1>3, <1>5 DEF IInv

(* A step that only reads keeps what there is to be read.                  *)
LEMMA ReadingKeeps ==
    ASSUME IInv, plain # None, plain.error = None, UNCHANGED <<source, plain>>
    PROVE  SourceInv' /\ PlainInv'
<1>1. SourceInv'
  BY DEF IInv, SourceInv
<1>2. \E decodes, exact \in BOOLEAN, value \in Value : plain = Plaintext(decodes, value, exact)
  <2>1. ~\E error \in MintError : plain = [error |-> error]
    BY NoneAssumption
  <2>2. QED
    BY <2>1 DEF IInv, PlainInv
<1>3. PlainInv'
  BY <1>2 DEF PlainInv
<1>4. QED
  BY <1>1, <1>3

(* A decoder that returns.                                                 *)
LEMMA ReturnStep ==
    ASSUME IInv, NEW kind \in Kind, NEW outcome \in Outcome, Return(kind, outcome),
           plain # None, plain.error = None,
           IF rest[kind] = None THEN strict_error(plain) # None /\ outcome # "Ok"
           ELSE IF rest[kind] = <<>> THEN TRUE
           ELSE outcome # "Ok" /\ arm_error(kind, Head(rest[kind])) # None
    PROVE  IInv'
<1> DEFINE shown == IF kind = "manifest" /\ outcome # "Ok" THEN "Nothing" ELSE outcome
<1>1. /\ out' = [out EXCEPT ![kind] = shown]
      /\ UNCHANGED <<source, plain, rest, got, opaque>>
  BY DEF Return
<1>2. shown \in Outcome /\ (outcome # "Ok" => shown # "Ok")
  BY DEF Outcome
<1> HIDE DEF shown
<1>3. SourceInv' /\ PlainInv'
  BY <1>1, ReadingKeeps
<1>4. ShapeInv'
  BY <1>1, <1>2 DEF IInv, ShapeInv
<1>5. /\ out'[kind] = shown /\ \A k \in Kind : k # kind => out'[k] = out[k]
  BY <1>1 DEF IInv, ShapeInv
<1>6. ASSUME NEW k \in Kind
      PROVE  IF rest'[k] = None THEN Idle(k)'
             ELSE /\ plain' # None /\ plain'.error = None /\ strict_error(plain') = None
                  /\ AtWork(k, plain'.value.s, rest'[k], got'[k], opaque'[k], out'[k])
  <2>1. IF rest[k] = None THEN Idle(k)
        ELSE /\ plain # None /\ plain.error = None /\ strict_error(plain) = None
             /\ AtWork(k, plain.value.s, rest[k], got[k], opaque[k], out[k])
    BY DEF IInv, ReadInv
  <2>2. CASE k # kind
    BY <1>1, <1>5, <2>1, <2>2 DEF Idle
  <2>3. CASE k = kind /\ rest[k] = None
    BY <1>1, <1>2, <1>5, <2>1, <2>3 DEF Idle
  <2>4. CASE k = kind /\ rest[k] # None
    <3> DEFINE left == rest[k]
    <3>1. left \in Seq(Entries) /\ (left # <<>> => Head(left) = left[1])
      BY <2>1, <2>4 DEF AtWork
    <3>2. /\ shown = "Ok" => left = <<>>
          /\ left # <<>> => arm_error(k, left[1]) # None
      BY <1>2, <2>4, <3>1
    <3> HIDE DEF left
    <3>3. AtWork(k, plain.value.s, left, got[k], opaque[k], shown)
      BY <2>1, <2>4, <3>2 DEF AtWork, left
    <3>4. QED
      BY <1>1, <1>5, <2>1, <2>4, <3>3 DEF left
  <2>5. QED
    BY <2>2, <2>3, <2>4
<1>7. ReadInv'
  BY <1>6 DEF ReadInv
<1>8. QED
  BY <1>3, <1>4, <1>7 DEF IInv

LEMMA OpenStep ==
    ASSUME IInv, NEW kind \in Kind, Open(kind)
    PROVE  IInv'
<1>1. plain # None /\ plain.error = None /\ rest[kind] = None /\ out[kind] = None
  BY DEF Open
<1>2. CASE strict_error(plain) # None
  <2>1. Return(kind, strict_error(plain))
    BY <1>2 DEF Open
  <2>2. strict_error(plain) \in Outcome /\ strict_error(plain) # "Ok"
    BY <1>2, StrictErrorType DEF Outcome
  <2>3. QED
    BY <1>1, <1>2, <2>1, <2>2, ReturnStep
<1>3. CASE strict_error(plain) = None
  <2> DEFINE es == plain.value.s
  <2>1. rest' = [rest EXCEPT ![kind] = es] /\ UNCHANGED <<source, plain, got, opaque, out>>
    BY <1>3 DEF Open
  <2>2. es \in Seq(Entries)
    BY <1>1, <1>3, PlaintextShape, CanonicalPlaintext DEF IInv
  <2> HIDE DEF es
  <2>3. es # None
    BY <2>2, NoneAssumption
  <2>4. rest'[kind] = es /\ \A k \in Kind : k # kind => rest'[k] = rest[k]
    BY <2>1 DEF IInv, ShapeInv
  <2>5. ShapeInv'
    BY <2>1, <2>2 DEF IInv, ShapeInv
  <2>6. SourceInv' /\ PlainInv'
    BY <1>1, <2>1, ReadingKeeps
  <2>7. ASSUME NEW k \in Kind
        PROVE  IF rest'[k] = None THEN Idle(k)'
               ELSE /\ plain' # None /\ plain'.error = None /\ strict_error(plain') = None
                    /\ AtWork(k, plain'.value.s, rest'[k], got'[k], opaque'[k], out'[k])
    <3>1. IF rest[k] = None THEN Idle(k)
          ELSE /\ plain # None /\ plain.error = None /\ strict_error(plain) = None
               /\ AtWork(k, plain.value.s, rest[k], got[k], opaque[k], out[k])
      BY DEF IInv, ReadInv
    <3>2. CASE k # kind
      BY <2>1, <2>4, <3>1, <3>2 DEF Idle
    <3>3. CASE k = kind
      <4>1. got[k] = [f \in RESERVED |-> None] /\ opaque[k] = <<>> /\ out[k] = None
        BY <1>1, <3>1, <3>3 DEF Idle
      <4>2. AtWork(k, es, es, got[k], opaque[k], out[k])
        BY <2>2, <4>1, AtWorkStarts
      <4>3. QED
        BY <1>1, <1>3, <2>1, <2>3, <2>4, <3>3, <4>2 DEF es
    <3>4. QED
      BY <3>2, <3>3
  <2>8. ReadInv'
    BY <2>7 DEF ReadInv
  <2>9. QED
    BY <2>5, <2>6, <2>8 DEF IInv
<1>4. QED
  BY <1>2, <1>3

LEMMA TakeStep ==
    ASSUME IInv, NEW kind \in Kind, Take(kind)
    PROVE  IInv'
<1> DEFINE e == Head(rest[kind])
           c == classify(e.k)
<1>1. rest[kind] # None /\ out[kind] = None /\ rest[kind] # <<>>
  BY DEF Take, Running
<1>2. /\ plain # None /\ plain.error = None /\ strict_error(plain) = None
      /\ AtWork(kind, plain.value.s, rest[kind], got[kind], opaque[kind], None)
  BY <1>1 DEF IInv, ReadInv
<1>3. /\ rest \in [Kind -> Seq(Entries) \cup {None}]
      /\ got \in [Kind -> [RESERVED -> Value \cup {None}]]
      /\ opaque \in [Kind -> Seq(Entries)]
  BY DEF IInv, ShapeInv
<1>4. CASE arm_error(kind, e) # None
  <2>1. Return(kind, arm_error(kind, e))
    BY <1>4 DEF Take
  <2>2. arm_error(kind, e) \in Outcome /\ arm_error(kind, e) # "Ok"
    BY <1>4, ArmErrorType DEF Outcome
  <2>3. QED
    BY <1>1, <1>2, <1>4, <2>1, <2>2, ReturnStep
<1>5. CASE arm_error(kind, e) = None
  <2> DEFINE es == plain.value.s
             left == Tail(rest[kind])
             fields == IF c = "app" THEN got[kind] ELSE [got[kind] EXCEPT ![c] = e.v]
             app == IF c = "app" THEN Append(opaque[kind], e) ELSE opaque[kind]
  <2>1. /\ got' = IF c = "app" THEN got ELSE [got EXCEPT ![kind][c] = e.v]
        /\ opaque' = IF c = "app" THEN [opaque EXCEPT ![kind] = Append(@, e)] ELSE opaque
        /\ rest' = [rest EXCEPT ![kind] = left]
        /\ UNCHANGED <<source, plain, out>>
    BY <1>5 DEF Take
  <2>2. es \in Seq(Entries) /\ StrictlyRising(es)
    BY <1>2, PlaintextShape, CanonicalPlaintext DEF IInv
  <2>3. AtWork(kind, es, left, fields, app, None)
    BY <1>1, <1>2, <1>3, <1>5, <2>2, AtWorkTakes
  <2>4. left \in Seq(Entries) /\ app \in Seq(Entries)
    BY <2>3 DEF AtWork, Accounts
  <2>5. c = "app" \/ (c \in RESERVED /\ c # "app")
    BY <1>5, ArmTakes, RecognizedIs, KeysDiffer
  <2>6. e \in Entries /\ e.v \in Value
    BY <1>1, <1>3, HeadTailProperties, EntryShape
  <2> HIDE DEF es, left, e, c
  <2>7. fields \in [RESERVED -> Value \cup {None}]
    BY <1>3, <2>5, <2>6
  <2>8. /\ got' = [got EXCEPT ![kind] = fields]
        /\ opaque' = [opaque EXCEPT ![kind] = app]
    BY <1>3, <2>1
  <2> HIDE DEF fields, app
  <2>9. /\ rest'[kind] = left /\ got'[kind] = fields /\ opaque'[kind] = app
        /\ \A k \in Kind : k # kind =>
              rest'[k] = rest[k] /\ got'[k] = got[k] /\ opaque'[k] = opaque[k]
    BY <1>3, <2>1, <2>8
  <2>10. left # None
    BY <2>4, NoneAssumption
  <2>11. ShapeInv'
    BY <1>3, <2>1, <2>4, <2>7, <2>8 DEF IInv, ShapeInv
  <2>12. SourceInv' /\ PlainInv'
    BY <1>2, <2>1, ReadingKeeps
  <2>13. ASSUME NEW k \in Kind
         PROVE  IF rest'[k] = None THEN Idle(k)'
                ELSE /\ plain' # None /\ plain'.error = None /\ strict_error(plain') = None
                     /\ AtWork(k, plain'.value.s, rest'[k], got'[k], opaque'[k], out'[k])
    <3>1. IF rest[k] = None THEN Idle(k)
          ELSE /\ plain # None /\ plain.error = None /\ strict_error(plain) = None
               /\ AtWork(k, plain.value.s, rest[k], got[k], opaque[k], out[k])
      BY DEF IInv, ReadInv
    <3>2. CASE k # kind
      BY <2>1, <2>9, <3>1, <3>2 DEF Idle
    <3>3. CASE k = kind
      BY <1>1, <1>2, <2>1, <2>3, <2>9, <2>10, <3>3 DEF es
    <3>4. QED
      BY <3>2, <3>3
  <2>14. ReadInv'
    BY <2>13 DEF ReadInv
  <2>15. QED
    BY <2>11, <2>12, <2>14 DEF IInv
<1>6. QED
  BY <1>4, <1>5

LEMMA FinishStep ==
    ASSUME IInv, NEW kind \in Kind, Finish(kind)
    PROVE  IInv'
<1>1. rest[kind] # None /\ rest[kind] = <<>>
  BY DEF Finish, Running
<1>2. plain # None /\ plain.error = None
  BY <1>1 DEF IInv, ReadInv
<1>3. \E outcome \in {"Nothing", "Malformed", "Ok"} : Return(kind, outcome)
  BY DEF Finish
<1>4. {"Nothing", "Malformed", "Ok"} \subseteq Outcome
  BY DEF Outcome
<1>5. QED
  BY <1>1, <1>2, <1>3, <1>4, ReturnStep

LEMMA StutterStep == ASSUME IInv, UNCHANGED vars PROVE IInv'
BY DEF vars, IInv, SourceInv, PlainInv, ReadInv, ShapeInv, Idle

(* What has been read accounts for the entries read, whichever steps the   *)
(* two decoders take.                                                      *)
THEOREM SerialInvariant == Spec => []IInv
<1>1. Init => IInv
  BY InitIInv
<1>2. IInv /\ [Next]_vars => IInv'
  <2>1. SUFFICES ASSUME IInv, [Next]_vars PROVE IInv'
    OBVIOUS
  <2>2. CASE \E kind \in Kind, clauses \in Clauses, app \in AppValue : Mint(kind, clauses, app)
    BY <2>1, <2>2, MintStep
  <2>3. CASE \E value \in WireValue, decodes, exact \in BOOLEAN : Receive(value, decodes, exact)
    BY <2>1, <2>3, ReceiveStep
  <2>4. CASE \E kind \in Kind : Open(kind)
    BY <2>1, <2>4, OpenStep
  <2>5. CASE \E kind \in Kind : Take(kind)
    BY <2>1, <2>5, TakeStep
  <2>6. CASE \E kind \in Kind : Finish(kind)
    BY <2>1, <2>6, FinishStep
  <2>7. CASE UNCHANGED vars
    BY <2>1, <2>7, StutterStep
  <2>8. QED
    BY <2>1, <2>2, <2>3, <2>4, <2>5, <2>6, <2>7 DEF Next
<1>3. QED
  BY <1>1, <1>2, PTL DEF Spec

-----------------------------------------------------------------------------
(* What the two decoders read. *)

LEMMA AtWorkFacts ==
    ASSUME IInv, NEW kind \in Kind, rest[kind] # None
    PROVE  /\ plain # None /\ plain.error = None /\ strict_error(plain) = None
           /\ plain.value \in Value /\ Canonical(plain)
           /\ plain.value.s \in Seq(Entries) /\ StrictlyRising(plain.value.s)
           /\ \A i \in DOMAIN plain.value.s : plain.value.s[i].k.t \in {"int", "text"}
           /\ AtWork(kind, plain.value.s, rest[kind], got[kind], opaque[kind], out[kind])
<1>1. /\ plain # None /\ plain.error = None /\ strict_error(plain) = None
      /\ AtWork(kind, plain.value.s, rest[kind], got[kind], opaque[kind], out[kind])
  BY DEF IInv, ReadInv
<1>2. plain.value \in Value
  BY <1>1, PlaintextShape DEF IInv
<1>3. QED
  BY <1>1, <1>2, CanonicalPlaintext, StrictIsCanonical

(* All the entries are accounted for when a half is decoded.               *)
LEMMA DecodedFacts ==
    ASSUME IInv, NEW kind \in Kind, out[kind] = "Ok"
    PROVE  /\ rest[kind] = <<>> /\ rest[kind] # None
           /\ Accounts(kind, plain.value.s, Len(plain.value.s), got[kind], opaque[kind])
<1>1. rest[kind] # None
  BY NoneIsNoString DEF IInv, ReadInv, Idle
<1>2. rest[kind] = <<>> /\ plain.value.s \in Seq(Entries)
      /\ Accounts(kind, plain.value.s, Len(plain.value.s) - Len(rest[kind]),
                  got[kind], opaque[kind])
  BY <1>1, AtWorkFacts DEF AtWork
<1>3. Len(plain.value.s) \in Nat /\ Len(rest[kind]) = 0
  BY <1>2, SeqDomain, EmptySeq
<1>4. Len(plain.value.s) - Len(rest[kind]) = Len(plain.value.s)
  BY <1>3
<1>5. QED
  BY <1>1, <1>2, <1>4

(* The entry a decoder stands at.                                          *)
LEMMA HeadStands ==
    ASSUME NEW es \in Seq(Entries), NEW left \in Seq(Entries), left # <<>>,
           Len(left) <= Len(es),
           \A i \in 1 .. Len(left) : left[i] = es[Len(es) - Len(left) + i]
    PROVE  \E m \in Nat : /\ m = Len(es) - Len(left) /\ m + 1 \in DOMAIN es
                          /\ left[1] = es[m + 1] /\ Head(left) = es[m + 1]
                          /\ \A i \in 1 .. m : i \in DOMAIN es /\ i < m + 1
<1> DEFINE m == Len(es) - Len(left)
<1>1. Len(es) \in Nat /\ Len(left) \in Nat \ {0} /\ DOMAIN es = 1 .. Len(es)
  BY SeqDomain, EmptySeq
<1>2. left[1] = es[m + 1] /\ Head(left) = left[1]
  BY <1>1
<1>3. m \in Nat /\ m + 1 <= Len(es)
  BY <1>1
<1> HIDE DEF m
<1>4. m + 1 \in DOMAIN es /\ \A i \in 1 .. m : i \in DOMAIN es /\ i < m + 1
  BY <1>1, <1>3
<1>5. QED
  BY <1>2, <1>3, <1>4 DEF m

(* What a failed decoder left is the entry it failed on and those after.   *)
LEMMA FailedFacts ==
    ASSUME IInv, NEW kind \in Kind, out[kind] # None, rest[kind] # <<>>
    PROVE  \/ rest[kind] = None /\ strict_error(plain) # None
                 /\ plain # None /\ plain.value \in Value
           \/ rest[kind] # None /\ \E i \in DOMAIN plain.value.s :
                 arm_error(kind, plain.value.s[i]) # None
<1>1. CASE rest[kind] = None
  <2>1. strict_error(plain) # None
    BY <1>1 DEF IInv, ReadInv, Idle
  <2>2. \E decodes, exact \in BOOLEAN, value \in Value : plain = Plaintext(decodes, value, exact)
    BY DEF IInv, PlainInv
  <2>3. plain # None /\ plain.value \in Value
    BY <2>2, NoneAssumption DEF Plaintext
  <2>4. QED
    BY <1>1, <2>1, <2>3
<1>2. CASE rest[kind] # None
  <2> DEFINE es == plain.value.s
             left == rest[kind]
  <2>1. /\ left \in Seq(Entries) /\ Len(left) <= Len(es) /\ es \in Seq(Entries)
        /\ \A i \in 1 .. Len(left) : left[i] = es[Len(es) - Len(left) + i]
        /\ arm_error(kind, left[1]) # None
    BY <1>2, AtWorkFacts DEF AtWork
  <2> HIDE DEF es, left
  <2>2. \E i \in DOMAIN es : arm_error(kind, es[i]) # None
    <3>1. left # <<>>
      BY DEF left
    <3>2. PICK m \in Nat : m + 1 \in DOMAIN es /\ left[1] = es[m + 1]
      BY <2>1, <3>1, HeadStands
    <3>3. QED
      BY <2>1, <3>2
  <2>3. QED
    BY <1>2, <2>2 DEF es
<1>3. QED
  BY <1>1, <1>2

(* A half is entitled to its entries when every arm takes its entry.       *)
LEMMA EntitledIs ==
    ASSUME NEW kind \in Kind, NEW p, p.value \in Value, Canonical(p)
    PROVE  Entitled(kind, p.value) <=>
              \A i \in DOMAIN p.value.s : arm_error(kind, p.value.s[i]) = None
<1> DEFINE es == p.value.s
<1>1. es \in Seq(Entries) /\ \A i \in DOMAIN es : es[i].k.t \in {"int", "text"}
  BY StrictIsCanonical, CanonicalPlaintext
<1>2. \A i \in DOMAIN es : arm_error(kind, es[i]) = None <=> EntryEntitled(kind, es[i])
  BY <1>1, KeyType, ArmsAreEntitled
<1>3. Entitled(kind, p.value) <=> \A i \in DOMAIN es : EntryEntitled(kind, es[i])
  BY DEF Entitled, EntryEntitled
<1>4. QED
  BY <1>2, <1>3

(* The fields read are those in the plaintext.                             *)
FieldRead(value, fields, f) ==
    Field(value, Key[f]) = IF fields[f] = None THEN {} ELSE {fields[f]}

LEMMA FieldIsRead ==
    ASSUME NEW value, NEW es \in Seq(Entries), value.s = es,
           NEW kind \in Kind, NEW fields, NEW app, Accounts(kind, es, Len(es), fields, app),
           NEW f \in RESERVED
    PROVE  FieldRead(value, fields, f)
<1>1. es \in Seq(Entries) /\ DOMAIN es = 1 .. Len(es)
  BY SeqDomain
<1>2. \A i \in DOMAIN es : classify(es[i].k) = f <=> es[i].k.t = "int" /\ es[i].k.n = Key[f]
  BY <1>1, KeyType, ReservedKeyIs
<1>3. /\ fields[f] # None => \E i \in DOMAIN es : classify(es[i].k) = f
      /\ \A i \in DOMAIN es : classify(es[i].k) = f => fields[f] = es[i].v
  BY <1>1 DEF Accounts
<1>4. \A i \in DOMAIN es : es[i].v # None
  BY <1>1, KeyType, NoneAssumption
<1>5. \A x : x \in Field(value, Key[f]) <=> \E i \in DOMAIN es : classify(es[i].k) = f /\ x = es[i].v
  BY <1>2 DEF Field
<1>6. CASE fields[f] = None
  <2>1. \A x : x \notin Field(value, Key[f])
    BY <1>3, <1>4, <1>5, <1>6
  <2>2. QED
    BY <1>6, <2>1 DEF FieldRead
<1>7. CASE fields[f] # None
  <2>1. \A x : x \in Field(value, Key[f]) <=> x = fields[f]
    BY <1>3, <1>5, <1>7
  <2>2. QED
    BY <1>7, <2>1 DEF FieldRead
<1>8. QED
  BY <1>6, <1>7

LEMMA DecodesExactlyHolds == ASSUME IInv PROVE DecodesExactly
<1>1. ASSUME NEW kind \in Kind, out[kind] = "Ok"
      PROVE  /\ Canonical(plain) /\ Entitled(kind, plain.value)
             /\ \A f \in RESERVED : Field(plain.value, Key[f]) =
                   IF got[kind][f] = None THEN {} ELSE {got[kind][f]}
  <2>1. /\ rest[kind] = <<>> /\ rest[kind] # None
        /\ Accounts(kind, plain.value.s, Len(plain.value.s), got[kind], opaque[kind])
    BY <1>1, DecodedFacts
  <2>2. Canonical(plain) /\ plain.value \in Value /\ plain.value.s \in Seq(Entries)
    BY <2>1, AtWorkFacts
  <2>3. plain.value.t = "map"
    BY <2>2 DEF Canonical
  <2>4. \A i \in DOMAIN plain.value.s : arm_error(kind, plain.value.s[i]) = None
    BY <2>1, <2>2, SeqDomain DEF Accounts
  <2>5. Entitled(kind, plain.value)
    BY <2>2, <2>4, EntitledIs
  <2>6. ASSUME NEW f \in RESERVED
        PROVE  Field(plain.value, Key[f]) =
                   IF got[kind][f] = None THEN {} ELSE {got[kind][f]}
    <3> DEFINE value == plain.value
               es == plain.value.s
               fields == got[kind]
               app == opaque[kind]
    <3>1. value.s = es /\ es \in Seq(Entries) /\ Accounts(kind, es, Len(es), fields, app)
      BY <2>1, <2>2
    <3> HIDE DEF value, es, fields, app
    <3>2. FieldRead(value, fields, f)
      BY <3>1, FieldIsRead
    <3>3. QED
      BY <3>2 DEF value, fields, FieldRead
  <2>7. QED
    BY <2>2, <2>5, <2>6
<1>2. ASSUME NEW kind \in Kind, out[kind] # None, rest[kind] # <<>>
      PROVE  ~(Canonical(plain) /\ Entitled(kind, plain.value))
  <2>1. \/ rest[kind] = None /\ strict_error(plain) # None
              /\ plain # None /\ plain.value \in Value
        \/ rest[kind] # None /\ \E i \in DOMAIN plain.value.s :
              arm_error(kind, plain.value.s[i]) # None
    BY <1>2, FailedFacts
  <2>2. CASE rest[kind] = None
    BY <2>1, <2>2, StrictIsCanonical
  <2>3. CASE rest[kind] # None
    <3>1. Canonical(plain) /\ plain.value \in Value
      BY <2>3, AtWorkFacts
    <3>2. QED
      BY <2>1, <2>3, <3>1, EntitledIs
  <2>4. QED
    BY <2>2, <2>3
<1>3. QED
  BY <1>1, <1>2 DEF DecodesExactly

LEMMA EachFieldReadOnceHolds == ASSUME IInv PROVE EachFieldReadOnce
<1> SUFFICES ASSUME NEW kind \in Kind, Running(kind), rest[kind] # <<>>
             PROVE  LET c == classify(Head(rest[kind]).k) IN
                    c # "invalid" /\ (c \in RESERVED => got[kind][c] = None)
  BY DEF EachFieldReadOnce
<1> DEFINE es == plain.value.s
           left == rest[kind]
           c == classify(Head(left).k)
<1>1. /\ left \in Seq(Entries) /\ Len(left) <= Len(es) /\ es \in Seq(Entries)
      /\ \A i \in 1 .. Len(left) : left[i] = es[Len(es) - Len(left) + i]
      /\ Accounts(kind, es, Len(es) - Len(left), got[kind], opaque[kind])
      /\ StrictlyRising(es)
      /\ \A i \in DOMAIN es : es[i].k.t \in {"int", "text"}
  BY AtWorkFacts DEF Running, AtWork
<1>2. left # <<>>
  OBVIOUS
<1> HIDE DEF left, es
<1>3. PICK m \in Nat : /\ m = Len(es) - Len(left) /\ m + 1 \in DOMAIN es
                       /\ Head(left) = es[m + 1]
                       /\ \A i \in 1 .. m : i \in DOMAIN es /\ i < m + 1
  BY <1>1, <1>2, HeadStands
<1>4. c = classify(es[m + 1].k) /\ es[m + 1].k \in Value /\ encode(es[m + 1].k) \in Seq(Int)
  BY <1>1, <1>3, KeyType
<1> HIDE DEF c
<1>5. c # "invalid"
  BY <1>1, <1>3, <1>4, NegativeIs
<1>6. ASSUME c \in RESERVED, got[kind][c] # None
      PROVE  FALSE
  <2>1. PICK i \in 1 .. m : classify(es[i].k) = c
    BY <1>1, <1>3, <1>6 DEF Accounts
  <2>2. es[i].k = es[m + 1].k
    BY <1>4, <1>6, <2>1, ClassifyIs
  <2>3. Before(encode(es[i].k), encode(es[m + 1].k))
    <3>1. i \in DOMAIN es /\ i < m + 1 /\ m + 1 \in DOMAIN es
      BY <1>3
    <3>2. QED
      BY <1>1, <3>1 DEF StrictlyRising
  <2>4. QED
    BY <1>4, <2>2, <2>3, BeforeIrreflexive
<1>7. QED
  BY <1>5, <1>6 DEF c, left

LEMMA NeverBothHolds == ASSUME IInv PROVE NeverBoth
<1> SUFFICES ASSUME out["mandate"] = "Ok", got["mandate"]["tid"] # None, out["manifest"] = "Ok"
             PROVE  FALSE
  BY DEF NeverBoth
<1>1. "mandate" \in Kind /\ "manifest" \in Kind /\ "tid" \in RESERVED
  BY KeyIs DEF Kind
<1>2. PICK i \in 1 .. Len(plain.value.s) : classify(plain.value.s[i].k) = "tid"
  BY <1>1, DecodedFacts DEF Accounts
<1>3. arm_error("manifest", plain.value.s[i]) = None
  BY <1>1, DecodedFacts DEF Accounts
<1>4. classify(plain.value.s[i].k) = "app" \/ classify(plain.value.s[i].k) \in Recognized("manifest")
  BY <1>1, <1>3, ArmTakes
<1>5. QED
  BY <1>1, <1>2, <1>4, RecognizedIs, KeysDiffer

-----------------------------------------------------------------------------
(* What mint puts in a plaintext. *)

(* The entries that stand for the clauses of F.                            *)
ClauseEntry(clauses, f) == Entry(ikey(Key[f]), clauses[f])
Clausal == { Entry(ikey(Key[f]), v) : f \in RESERVED, v \in Value }
Distinct(s) == \A i, j \in DOMAIN s : i < j => s[i].k # s[j].k

StandsFor(s, F, clauses) ==
    /\ s \in Seq(Clausal) /\ Distinct(s)
    /\ \A e \in RangeOf(s) : \E f \in F : clauses[f] # None /\ e = ClauseEntry(clauses, f)
    /\ \A f \in F : clauses[f] # None => ClauseEntry(clauses, f) \in RangeOf(s)

LEMMA ClauseIsValue ==
    ASSUME NEW clauses \in Clauses, NEW f \in RESERVED, clauses[f] # None
    PROVE  clauses[f] \in Value /\ Reads(f, clauses[f])
BY ClausesAssumption DEF ClauseOf

(* What is in two sequences joined.                                        *)
LEMMA RangeOfJoin ==
    ASSUME NEW S, NEW s \in Seq(S), NEW t \in Seq(S)
    PROVE  /\ s \o t \in Seq(S)
           /\ \A x : x \in RangeOf(s \o t) <=> x \in RangeOf(s) \/ x \in RangeOf(t)
<1> DEFINE u == s \o t
           m == Len(s)
           n == Len(t)
<1>1. /\ u \in Seq(S) /\ Len(u) = m + n
      /\ \A i \in 1 .. m + n : u[i] = IF i <= m THEN s[i] ELSE t[i - m]
  BY ConcatProperties
<1>2. m \in Nat /\ n \in Nat /\ DOMAIN s = 1 .. m /\ DOMAIN t = 1 .. n /\ DOMAIN u = 1 .. m + n
  BY <1>1, SeqDomain
<1> HIDE DEF u, m, n
<1>3. \A i \in DOMAIN s : i \in DOMAIN u /\ u[i] = s[i]
  BY <1>1, <1>2
<1>4. \A j \in DOMAIN t : m + j \in DOMAIN u /\ u[m + j] = t[j]
  <2>1. SUFFICES ASSUME NEW j \in DOMAIN t PROVE m + j \in DOMAIN u /\ u[m + j] = t[j]
    OBVIOUS
  <2>2. j \in Nat /\ 1 <= j /\ j <= n
    BY <1>2
  <2>3. m + j \in 1 .. m + n /\ ~(m + j <= m) /\ (m + j) - m = j
    BY <1>2, <2>2
  <2>4. QED
    BY <1>1, <1>2, <2>3
<1>5. \A i \in DOMAIN u : (i \in DOMAIN s /\ u[i] = s[i]) \/ (i - m \in DOMAIN t /\ u[i] = t[i - m])
  BY <1>1, <1>2
<1>6. \A x : x \in RangeOf(u) <=> x \in RangeOf(s) \/ x \in RangeOf(t)
  BY <1>3, <1>4, <1>5 DEF RangeOf
<1>7. QED
  BY <1>1, <1>6 DEF u

LEMMA DistinctJoin ==
    ASSUME NEW S, NEW s \in Seq(S), NEW t \in Seq(S), Distinct(s), Distinct(t),
           \A x \in RangeOf(s), y \in RangeOf(t) : x.k # y.k
    PROVE  Distinct(s \o t)
<1> DEFINE u == s \o t
           m == Len(s)
           n == Len(t)
<1>1. /\ u \in Seq(S) /\ Len(u) = m + n
      /\ \A i \in 1 .. m + n : u[i] = IF i <= m THEN s[i] ELSE t[i - m]
  BY ConcatProperties
<1>2. m \in Nat /\ n \in Nat /\ DOMAIN s = 1 .. m /\ DOMAIN t = 1 .. n /\ DOMAIN u = 1 .. m + n
  BY <1>1, SeqDomain
<1> HIDE DEF u, m, n
<1>3. ASSUME NEW i \in DOMAIN u, NEW j \in DOMAIN u, i < j
      PROVE  u[i].k # u[j].k
  <2>1. /\ i \in Nat /\ j \in Nat
        /\ i <= m => i \in DOMAIN s /\ u[i] = s[i]
        /\ j <= m => j \in DOMAIN s /\ u[j] = s[j]
        /\ ~(i <= m) => i - m \in DOMAIN t /\ u[i] = t[i - m]
        /\ ~(j <= m) => j - m \in DOMAIN t /\ u[j] = t[j - m]
    <3>1. \A h \in DOMAIN u : /\ h \in Nat
                              /\ h <= m => h \in DOMAIN s /\ u[h] = s[h]
      BY <1>1, <1>2
    <3>2. \A h \in DOMAIN u : ~(h <= m) => h - m \in DOMAIN t /\ u[h] = t[h - m]
      BY <1>1, <1>2
    <3>3. QED
      BY <3>1, <3>2
  <2>2. CASE j <= m
    BY <1>2, <1>3, <2>1, <2>2 DEF Distinct
  <2>3. CASE i <= m /\ ~(j <= m)
    BY <2>1, <2>3 DEF RangeOf
  <2>4. CASE ~(i <= m)
    <3>1. i - m < j - m /\ ~(j <= m)
      BY <1>2, <1>3, <2>1, <2>4
    <3>2. QED
      BY <2>1, <2>4, <3>1 DEF Distinct
  <2>5. QED
    BY <1>2, <1>3, <2>1, <2>2, <2>3, <2>4
<1>4. QED
  BY <1>3 DEF Distinct, u

LEMMA StandsForOne ==
    ASSUME NEW clauses \in Clauses, NEW f \in RESERVED
    PROVE  StandsFor(Put(clauses, f), {f}, clauses)
<1>1. CASE clauses[f] = None
  <2>1. Put(clauses, f) = <<>> /\ <<>> \in Seq(Clausal) /\ Len(<<>>) = 0
    BY <1>1, EmptySeq DEF Put
  <2>2. DOMAIN <<>> = {}
    BY <2>1, SeqDomain
  <2>3. QED
    BY <1>1, <2>1, <2>2 DEF StandsFor, Distinct, RangeOf
<1>2. CASE clauses[f] # None
  <2> DEFINE e == ClauseEntry(clauses, f)
  <2>1. Put(clauses, f) = <<e>>
    BY <1>2 DEF Put, ClauseEntry
  <2>2. e \in Clausal
    BY <1>2, ClauseIsValue DEF Clausal, ClauseEntry
  <2> HIDE DEF e
  <2>3. <<e>> \in Seq(Clausal) /\ DOMAIN <<e>> = {1} /\ <<e>>[1] = e
    BY <2>2
  <2>4. Distinct(<<e>>) /\ RangeOf(<<e>>) = {e}
    BY <2>3 DEF Distinct, RangeOf
  <2>5. QED
    BY <1>2, <2>1, <2>3, <2>4 DEF StandsFor, e
<1>3. QED
  BY <1>1, <1>2

LEMMA StandsForBoth ==
    ASSUME NEW clauses \in Clauses, NEW s, NEW t,
           NEW F \in SUBSET RESERVED, NEW G \in SUBSET RESERVED, F \cap G = {},
           StandsFor(s, F, clauses), StandsFor(t, G, clauses)
    PROVE  StandsFor(s \o t, F \cup G, clauses)
<1>1. /\ s \in Seq(Clausal) /\ Distinct(s) /\ t \in Seq(Clausal) /\ Distinct(t)
      /\ \A e \in RangeOf(s) : \E f \in F : clauses[f] # None /\ e = ClauseEntry(clauses, f)
      /\ \A f \in F : clauses[f] # None => ClauseEntry(clauses, f) \in RangeOf(s)
      /\ \A e \in RangeOf(t) : \E f \in G : clauses[f] # None /\ e = ClauseEntry(clauses, f)
      /\ \A f \in G : clauses[f] # None => ClauseEntry(clauses, f) \in RangeOf(t)
  BY DEF StandsFor
<1>2. /\ s \o t \in Seq(Clausal)
      /\ \A x : x \in RangeOf(s \o t) <=> x \in RangeOf(s) \/ x \in RangeOf(t)
  BY <1>1, RangeOfJoin
<1>3. ASSUME NEW x \in RangeOf(s), NEW y \in RangeOf(t)
      PROVE  x.k # y.k
  <2>1. PICK f \in F : x = ClauseEntry(clauses, f)
    BY <1>1
  <2>2. PICK g \in G : y = ClauseEntry(clauses, g)
    BY <1>1
  <2>3. Key[f] # Key[g]
    BY KeysDiffer
  <2>4. QED
    BY <2>1, <2>2, <2>3 DEF ClauseEntry, Entry, ikey, Leaf
<1>4. Distinct(s \o t)
  BY <1>1, <1>3, DistinctJoin
<1>5. QED
  BY <1>1, <1>2, <1>4 DEF StandsFor

LEMMA ReservedEntriesStand ==
    ASSUME NEW kind \in Kind, NEW clauses \in Clauses
    PROVE  StandsFor(ReservedEntries(kind, clauses), Puts(kind), clauses)
<1>1. \A f \in RESERVED : StandsFor(Put(clauses, f), {f}, clauses)
  BY StandsForOne
<1>2. CASE kind = "manifest"
  BY <1>1, <1>2, KeyIs DEF ReservedEntries, Puts
<1>3. CASE kind # "manifest"
  <2> DEFINE a == Put(clauses, "tid")
             b == Put(clauses, "exp")
             c == Put(clauses, "aud")
             d == Put(clauses, "sub")
             e == Put(clauses, "iss")
  <2>1. /\ StandsFor(a, {"tid"}, clauses) /\ StandsFor(b, {"exp"}, clauses)
        /\ StandsFor(c, {"aud"}, clauses) /\ StandsFor(d, {"sub"}, clauses)
        /\ StandsFor(e, {"iss"}, clauses)
    BY <1>1, KeyIs
  <2>2. ReservedEntries(kind, clauses) = a \o b \o c \o d \o e
    BY <1>3 DEF ReservedEntries
  <2> HIDE DEF a, b, c, d, e
  <2>3. StandsFor(a \o b, {"tid", "exp"}, clauses)
    <3>1. {"tid"} \cap {"exp"} = {} /\ {"tid"} \cup {"exp"} = {"tid", "exp"}
      OBVIOUS
    <3>2. QED
      BY <2>1, <3>1, KeyIs, StandsForBoth
  <2>4. StandsFor(a \o b \o c, {"tid", "exp", "aud"}, clauses)
    <3>1. /\ {"tid", "exp"} \cap {"aud"} = {}
          /\ {"tid", "exp"} \cup {"aud"} = {"tid", "exp", "aud"}
      OBVIOUS
    <3>2. QED
      BY <2>1, <2>3, <3>1, KeyIs, StandsForBoth
  <2>5. StandsFor(a \o b \o c \o d, {"tid", "exp", "aud", "sub"}, clauses)
    <3>1. /\ {"tid", "exp", "aud"} \cap {"sub"} = {}
          /\ {"tid", "exp", "aud"} \cup {"sub"} = {"tid", "exp", "aud", "sub"}
      OBVIOUS
    <3>2. QED
      BY <2>1, <2>4, <3>1, KeyIs, StandsForBoth
  <2>6. StandsFor(a \o b \o c \o d \o e, {"tid", "exp", "aud", "sub", "iss"}, clauses)
    <3>1. /\ {"tid", "exp", "aud", "sub"} \cap {"iss"} = {}
          /\ {"tid", "exp", "aud", "sub"} \cup {"iss"} = {"tid", "exp", "aud", "sub", "iss"}
      OBVIOUS
    <3>2. QED
      BY <2>1, <2>5, <3>1, KeyIs, StandsForBoth
  <2>7. QED
    BY <1>3, <2>2, <2>6, KeyIs DEF Puts
<1>4. QED
  BY <1>2, <1>3

LEMMA SeqWidens ==
    ASSUME NEW S, NEW T, NEW s \in Seq(S)
    PROVE  s \in Seq(S \cup T) /\ s \in Seq(T \cup S)
OBVIOUS

(* The entries of a map in canonical form, one by one.                     *)
Canon(e) == Entry(canonicalize(e.k), canonicalize(e.v))

LEMMA CanonicalRange ==
    ASSUME NEW v \in Value, v.t = "map"
    PROVE  \A x : x \in RangeOf(canonicalize(v).s) <=> \E e \in RangeOf(v.s) : x = Canon(e)
<1>1. RangeOf(canonicalize(v).s) = RangeOf(Canoned(v.s))
  BY CanonicalEntries
<1>2. \A x : x \in RangeOf(Canoned(v.s)) <=> \E e \in RangeOf(v.s) : x = Canon(e)
  BY DEF RangeOf, Canoned, Canon
<1>3. QED
  BY <1>1, <1>2

(* What mint assembles is a map of the application's entries and the       *)
(* clauses'.                                                               *)
LEMMA RawShape ==
    ASSUME NEW app \in AppMap, NEW kind \in Kind, NEW clauses \in Clauses
    PROVE  LET R == ReservedEntries(kind, clauses)
               raw == MapOf(app.s \o R)
           IN  /\ app \in Value /\ app.t = "map" /\ app.s \in Seq(Entries)
               /\ raw \in Value /\ raw.t = "map" /\ raw.s \in Seq(Entries)
               /\ raw.s = app.s \o R /\ R \in Seq(Clausal)
               /\ \A x : x \in RangeOf(raw.s) <=> x \in RangeOf(app.s) \/ x \in RangeOf(R)
<1> DEFINE R == ReservedEntries(kind, clauses)
           raw == MapOf(app.s \o R)
<1>1. app \in Value /\ app.t = "map" /\ raw \in Value
  BY PlayAssumption DEF AppMap
<1>2. raw.t = "map" /\ raw.s = app.s \o R
  BY DEF MapOf
<1>3. app.s \in Seq(Entries) /\ raw.s \in Seq(Entries)
  BY <1>1, <1>2, MapShape
<1>4. R \in Seq(Clausal)
  BY ReservedEntriesStand DEF StandsFor
<1>5. \A x : x \in RangeOf(app.s \o R) <=> x \in RangeOf(app.s) \/ x \in RangeOf(R)
  <2>1. app.s \in Seq(Entries \cup Clausal) /\ R \in Seq(Entries \cup Clausal)
    BY <1>3, <1>4, SeqWidens
  <2>2. QED
    BY <2>1, RangeOfJoin
<1> HIDE DEF raw, R
<1>6. QED
  BY <1>1, <1>2, <1>3, <1>4, <1>5 DEF raw, R

(* The values of clauses are in canonical form and portable.               *)
LEMMA ReadsPlain ==
    ASSUME NEW f \in RESERVED, NEW v \in Value, Reads(f, v)
    PROVE  canonicalize(v) = v /\ Portable(v)
<1>1. ASSUME NEW x \in Value, x.t \in {"int", "bytes", "text"}
      PROVE  canonicalize(x) = x /\ Portable(x)
  <2>1. Children(x) = {} /\ x.t # "map" /\ x # Leaf("float", 1)
    BY <1>1, LeafShape DEF Leaf
  <2>2. QED
    BY <1>1, <2>1, CanonicalLeaf, PortableTurn
<1>2. CASE v.t = "array" /\ \A i \in DOMAIN v.s : v.s[i].t = "text"
  <2>1. \A i \in DOMAIN v.s : v.s[i] \in Children(v) /\ v.s[i] \in Value
    BY <1>2, ListShape, ChildrenAreValues
  <2>2. \A i \in DOMAIN v.s : canonicalize(v.s[i]) = v.s[i] /\ Portable(v.s[i])
    BY <1>1, <1>2, <2>1
  <2>3. canonicalize(v) = v
    BY <1>2, <2>2, ListFixedIs
  <2>4. v # Leaf("float", 1)
    BY <1>2 DEF Leaf
  <2>5. \A x \in Children(v) : Portable(x)
    BY <1>2, <2>2 DEF Children
  <2>6. QED
    BY <1>2, <2>3, <2>4, <2>5, PortableTurn
<1>3. QED
  BY <1>1, <1>2 DEF Reads, read_int

(* A clause's entry is in canonical form, and its arm takes it.            *)
LEMMA ClauseEntryIs ==
    ASSUME NEW kind \in Kind, NEW clauses \in Clauses, NEW f \in Puts(kind), clauses[f] # None,
           ClauseEntry(clauses, f) \in Entries
    PROVE  LET e == ClauseEntry(clauses, f) IN
           /\ Canon(e) = e /\ Portable(e.k) /\ Portable(e.v)
           /\ e.k.t = "int" /\ e.k.n < 0 /\ e.v = clauses[f]
           /\ classify(e.k) = f /\ f \in RESERVED /\ arm_error(kind, e) = None
<1> DEFINE e == ClauseEntry(clauses, f)
<1>1. f \in RESERVED /\ f \in Recognized(kind)
  BY KeyIs DEF Puts, Recognized, Kind
<1>2. e.k = ikey(Key[f]) /\ e.v = clauses[f] /\ e = Entry(e.k, e.v)
  BY DEF ClauseEntry, Entry
<1>3. e.k \in Value /\ e.v \in Value /\ Reads(f, e.v)
  BY <1>1, <1>2, EntryShape, ClauseIsValue
<1>4. e.k.t = "int" /\ e.k.n = Key[f] /\ e.k.n < 0
  BY <1>1, <1>2, KeysDiffer DEF ikey, Leaf
<1> HIDE DEF e
<1>5. canonicalize(e.k) = e.k /\ Portable(e.k)
  <2>1. Children(e.k) = {} /\ e.k # Leaf("float", 1)
    BY <1>3, <1>4, LeafShape DEF Leaf
  <2>2. QED
    BY <1>3, <1>4, <2>1, CanonicalLeaf, PortableTurn
<1>6. canonicalize(e.v) = e.v /\ Portable(e.v)
  BY <1>1, <1>3, ReadsPlain
<1>7. Canon(e) = e
  BY <1>2, <1>5, <1>6 DEF Canon
<1>8. classify(e.k) = f
  BY <1>1, <1>3, <1>4, ReservedKeyIs
<1>9. arm_error(kind, e) = None
  BY <1>1, <1>3, <1>8, NoneIsNoString, KeysDiffer DEF arm_error
<1>10. QED
  BY <1>1, <1>2, <1>4, <1>5, <1>6, <1>7, <1>8, <1>9 DEF e

(* Entries an application may hand over: portable, none of them reserved.  *)
LEMMA AppEntryIs ==
    ASSUME NEW app \in AppMap, app_error(app) = None, Portable(app), NEW e \in RangeOf(app.s)
    PROVE  /\ e \in Entries /\ e.k \in Value /\ e.v \in Value
           /\ Portable(e.k) /\ Portable(e.v)
           /\ e.k.t \in {"int", "text"} /\ ~(e.k.t = "int" /\ e.k.n < 0)
           /\ canonicalize(e.k) = e.k /\ classify(e.k) = "app"
<1>1. app \in Value /\ app.t = "map" /\ app.s \in Seq(Entries)
  BY PlayAssumption, MapShape DEF AppMap
<1>2. PICK i \in DOMAIN app.s : e = app.s[i]
  BY DEF RangeOf
<1>3. e \in Entries /\ e.k \in Value /\ e.v \in Value
  BY <1>1, <1>2, KeyType
<1>4. Portable(e.k) /\ Portable(e.v) /\ e.k.t \in {"int", "text"}
  BY <1>1, <1>2, MapShape, PortableTurn
<1>5. ~is_negative_int(e.k)
  BY <1>1, <1>2, NoneIsNoString DEF app_error
<1>6. canonicalize(e.k) = e.k
  BY <1>3, <1>4, CanonicalLeaf
<1>7. classify(e.k) = "app"
  BY <1>3, <1>4, <1>5, NegativeIs DEF is_negative_int
<1>8. QED
  BY <1>3, <1>4, <1>5, <1>6, <1>7 DEF is_negative_int

LEMMA DistinctIs ==
    ASSUME NEW s \in Seq(Entries)
    PROVE  Distinct(s) <=> ~Repeats(s)
<1>1. DOMAIN s \subseteq Nat
  BY SeqDomain
<1>2. Repeats(s) <=> \E i, j \in DOMAIN s : i # j /\ s[i].k = s[j].k
  BY RepeatsIs
<1>3. \A i, j \in DOMAIN s : i # j => i < j \/ j < i
  BY <1>1
<1>4. QED
  BY <1>1, <1>2, <1>3 DEF Distinct

(* Keys that are in canonical form stay apart.                             *)
LEMMA CanonicalKeepsDistinct ==
    ASSUME NEW v \in Value, v.t = "map", Distinct(v.s),
           \A e \in RangeOf(v.s) : canonicalize(e.k) = e.k
    PROVE  ~Repeats(canonicalize(v).s)
<1>1. v.s \in Seq(Entries)
  BY MapShape
<1>2. /\ Canoned(v.s) \in Seq(Entries) /\ DOMAIN Canoned(v.s) = DOMAIN v.s
      /\ \A i \in DOMAIN v.s : Canoned(v.s)[i].k = canonicalize(v.s[i].k)
  BY <1>1, CanonedShape
<1>3. \A i \in DOMAIN v.s : Canoned(v.s)[i].k = v.s[i].k
  BY <1>2 DEF RangeOf
<1>4. Distinct(Canoned(v.s))
  BY <1>2, <1>3 DEF Distinct
<1>5. QED
  BY <1>2, <1>4, DistinctIs, SortKeepsRepeats, CanonicalEntries

(* What an application may hand over is minted into a plaintext that       *)
(* strict_map accepts, of the application's entries and the clauses'.      *)
LEMMA MintedIs ==
    ASSUME NEW kind \in Kind, NEW clauses \in Clauses, NEW app \in AppMap,
           app_error(app) = None, Portable(app), ~Repeats(app.s)
    PROVE  LET value == to_plaintext(kind, clauses, app)
               R == ReservedEntries(kind, clauses)
           IN  /\ strict_error(Plaintext(TRUE, value, TRUE)) = None
               /\ \A x : x \in RangeOf(value.s) <=>
                     \/ x \in RangeOf(canonicalize(app).s)
                     \/ x \in RangeOf(R)
               /\ \A e \in RangeOf(canonicalize(app).s) : classify(e.k) = "app"
               /\ \A e \in RangeOf(R) : e \in Entries
<1> DEFINE R == ReservedEntries(kind, clauses)
           raw == MapOf(app.s \o R)
           value == canonicalize(raw)
<1>1. /\ app \in Value /\ app.t = "map" /\ app.s \in Seq(Entries)
      /\ raw \in Value /\ raw.t = "map" /\ raw.s \in Seq(Entries)
      /\ raw.s = app.s \o R /\ R \in Seq(Clausal)
      /\ \A x : x \in RangeOf(raw.s) <=> x \in RangeOf(app.s) \/ x \in RangeOf(R)
  BY RawShape
<1>2. to_plaintext(kind, clauses, app) = value
  BY DEF to_plaintext, assemble
<1>3. Distinct(R) /\ \A e \in RangeOf(R) : \E f \in Puts(kind) :
                        clauses[f] # None /\ e = ClauseEntry(clauses, f)
  BY ReservedEntriesStand DEF StandsFor
<1> HIDE DEF R, raw
<1>4. \A e \in RangeOf(raw.s) : e \in Entries
  BY <1>1, KeyType DEF RangeOf
<1>5. \A e \in RangeOf(R) : /\ e \in Entries
                            /\ Canon(e) = e /\ Portable(e.k) /\ Portable(e.v)
                            /\ e.k.t = "int" /\ e.k.n < 0
  BY <1>1, <1>3, <1>4, ClauseEntryIs
<1>6. \A e \in RangeOf(app.s) :
         /\ Portable(e.k) /\ Portable(e.v)
         /\ e.k.t \in {"int", "text"} /\ ~(e.k.t = "int" /\ e.k.n < 0)
         /\ canonicalize(e.k) = e.k /\ classify(e.k) = "app"
  BY AppEntryIs
<1>7. \A e \in RangeOf(R) : canonicalize(e.k) = e.k
  BY <1>5 DEF Canon, Entry
<1>8. Distinct(raw.s)
  <2>1. Distinct(app.s)
    BY <1>1, DistinctIs
  <2>2. \A x \in RangeOf(app.s), y \in RangeOf(R) : x.k # y.k
    BY <1>5, <1>6
  <2>3. app.s \in Seq(Entries \cup Clausal) /\ R \in Seq(Entries \cup Clausal)
    BY <1>1, SeqWidens
  <2>4. Distinct(app.s \o R)
    BY <1>3, <2>1, <2>2, <2>3, DistinctJoin
  <2>5. QED
    BY <1>1, <2>4
<1>9. value \in Value /\ value.t = "map" /\ value.s \in Seq(Entries) /\ ~Repeats(value.s)
  <2>1. \A e \in RangeOf(raw.s) : canonicalize(e.k) = e.k
    BY <1>1, <1>6, <1>7
  <2>2. QED
    BY <1>1, <1>8, <2>1, CanonicalIsValue, CanonicalEntries, CanonicalKeepsDistinct
<1>10. Portable(raw)
  <2>1. \A i \in DOMAIN raw.s : /\ raw.s[i].k.t \in {"int", "text"}
                                /\ Portable(raw.s[i].k) /\ Portable(raw.s[i].v)
    <3>1. \A e \in RangeOf(raw.s) : e.k.t \in {"int", "text"} /\ Portable(e.k) /\ Portable(e.v)
      BY <1>1, <1>5, <1>6
    <3>2. QED
      BY <3>1 DEF RangeOf
  <2>2. \A x \in Children(raw) : Portable(x)
    BY <1>1, <2>1 DEF Children
  <2>3. raw # Leaf("float", 1)
    BY <1>1 DEF Leaf
  <2>4. QED
    BY <1>1, <2>1, <2>2, <2>3, PortableTurn
<1>11. ~contains_nan(value) /\ ~has_invalid_map_key(value)
  BY <1>1, <1>10, PortableIs, CanonicalKeepsNan, CanonicalKeepsInvalid
<1>12. canonicalize(value) = value
  BY <1>1, CanonicalIsFixed
<1> DEFINE p == Plaintext(TRUE, value, TRUE)
<1>13. p.decodes = TRUE /\ p.exact = TRUE /\ p.value = value
  BY DEF Plaintext
<1>14. \A x : x \in RangeOf(value.s) <=>
          x \in RangeOf(canonicalize(app).s) \/ x \in RangeOf(R)
  <2>1. \A x : x \in RangeOf(value.s) <=> \E e \in RangeOf(raw.s) : x = Canon(e)
    BY <1>1, CanonicalRange
  <2>2. \A x : x \in RangeOf(canonicalize(app).s) <=> \E e \in RangeOf(app.s) : x = Canon(e)
    BY <1>1, CanonicalRange
  <2> HIDE DEF value
  <2>3. QED
    BY <1>1, <1>5, <2>1, <2>2
<1>15. \A e \in RangeOf(canonicalize(app).s) : classify(e.k) = "app"
  <2>1. SUFFICES ASSUME NEW x \in RangeOf(canonicalize(app).s)
                 PROVE  classify(x.k) = "app"
    OBVIOUS
  <2>2. PICK e \in RangeOf(app.s) : x = Canon(e)
    BY <1>1, <2>1, CanonicalRange
  <2>3. x.k = e.k
    BY <1>6, <2>2 DEF Canon, Entry
  <2>4. QED
    BY <1>6, <2>3
<1> HIDE DEF value, p
<1>16. strict_error(p) = None
  BY <1>9, <1>11, <1>12, <1>13 DEF strict_error
<1>17. QED
  BY <1>2, <1>5, <1>14, <1>15, <1>16 DEF R, p

(* A minted half and what it was minted from.                              *)
LEMMA MintedFacts ==
    ASSUME IInv, Minted
    PROVE  \E kind \in Kind, clauses \in Clauses, app \in AppMap :
              /\ source = [kind |-> kind, clauses |-> clauses, app |-> app]
              /\ app_error(app) = None
              /\ plain = Plaintext(TRUE, to_plaintext(kind, clauses, app), TRUE)
              /\ plain.value = to_plaintext(kind, clauses, app)
<1>1. PICK kind \in Kind, clauses \in Clauses, app \in AppValue :
         /\ source = [kind |-> kind, clauses |-> clauses, app |-> app]
         /\ plain = Made(kind, clauses, app)
  BY DEF Minted, IInv, SourceInv
<1>2. ~\E error \in MintError : plain = [error |-> error]
  BY NoneAssumption DEF Minted
<1>3. app \in AppMap /\ app_error(app) = None
      /\ plain = Plaintext(TRUE, to_plaintext(kind, clauses, app), TRUE)
  BY <1>1, <1>2, MadeShape
<1>4. plain.value = to_plaintext(kind, clauses, app)
  BY <1>3 DEF Plaintext
<1>5. QED
  BY <1>1, <1>3, <1>4

(* What is read of a half all of whose entries are accounted for.          *)
LEMMA AllAccounted ==
    ASSUME NEW kind \in Kind, NEW es \in Seq(Entries), NEW fields, NEW app,
           Accounts(kind, es, Len(es), fields, app)
    PROVE  /\ \A f \in RESERVED : fields[f] # None =>
                 \E e \in RangeOf(es) : classify(e.k) = f
           /\ \A e \in RangeOf(es) : classify(e.k) \in RESERVED => fields[classify(e.k)] = e.v
           /\ app \in Seq(Entries) /\ StrictlyRising(app)
           /\ \A x : x \in RangeOf(app) <=> x \in RangeOf(es) /\ classify(x.k) = "app"
<1>1. DOMAIN es = 1 .. Len(es)
  BY SeqDomain
<1>2. \A x : x \in RangeOf(es) <=> \E i \in DOMAIN es : x = es[i]
  BY DEF RangeOf
<1>3. /\ \A f \in RESERVED : fields[f] # None => \E i \in DOMAIN es : classify(es[i].k) = f
      /\ \A i \in DOMAIN es : classify(es[i].k) \in RESERVED => fields[classify(es[i].k)] = es[i].v
      /\ app \in Seq(Entries) /\ StrictlyRising(app)
      /\ \A e \in RangeOf(app) : \E i \in DOMAIN es : classify(es[i].k) = "app" /\ e = es[i]
      /\ \A i \in DOMAIN es : classify(es[i].k) = "app" => es[i] \in RangeOf(app)
  BY <1>1 DEF Accounts
<1>4. QED
  BY <1>2, <1>3

LEMMA MintedReadsBackHolds == ASSUME IInv PROVE MintedReadsBack
<1> SUFFICES ASSUME Minted, Portable(source.app), ~Repeats(source.app.s)
             PROVE  LET kind == source.kind IN
        /\ out[kind] # None => rest[kind] = <<>>
        /\ out[kind] = "Ok" => \A f \in RESERVED :
              got[kind][f] = IF f \in Recognized(kind) /\ (kind = "mandate" \/ f = "iss")
                             THEN source.clauses[f] ELSE None
        /\ out[kind] = "Ok" =>
              encode(MapOf(opaque[kind])) = encode(canonicalize(source.app))
  BY DEF MintedReadsBack
<1>1. PICK kind \in Kind, clauses \in Clauses, app \in AppMap :
         /\ source = [kind |-> kind, clauses |-> clauses, app |-> app]
         /\ app_error(app) = None
         /\ plain = Plaintext(TRUE, to_plaintext(kind, clauses, app), TRUE)
         /\ plain.value = to_plaintext(kind, clauses, app)
  BY MintedFacts
<1>2. source.kind = kind /\ source.clauses = clauses /\ source.app = app
  BY <1>1
<1> DEFINE es == plain.value.s
           R == ReservedEntries(kind, clauses)
<1>3. /\ strict_error(plain) = None
      /\ \A x : x \in RangeOf(es) <=> x \in RangeOf(canonicalize(app).s) \/ x \in RangeOf(R)
      /\ \A e \in RangeOf(canonicalize(app).s) : classify(e.k) = "app"
      /\ \A e \in RangeOf(R) : e \in Entries
  BY <1>1, <1>2, MintedIs
<1>4. /\ \A e \in RangeOf(R) : \E f \in Puts(kind) :
            clauses[f] # None /\ e = ClauseEntry(clauses, f)
      /\ \A f \in Puts(kind) : clauses[f] # None => ClauseEntry(clauses, f) \in RangeOf(R)
  BY ReservedEntriesStand DEF StandsFor
<1>5. \A f \in Puts(kind) : clauses[f] # None =>
         LET e == ClauseEntry(clauses, f) IN
         /\ e \in RangeOf(R) /\ e.v = clauses[f] /\ f \in RESERVED
         /\ classify(e.k) = f /\ classify(e.k) # "app" /\ arm_error(kind, e) = None
  BY <1>3, <1>4, ClauseEntryIs, KeysDiffer
<1> HIDE DEF R
<1>6. \A e \in RangeOf(es) : arm_error(kind, e) = None
  <2>1. \A e \in RangeOf(canonicalize(app).s) : arm_error(kind, e) = None
    BY <1>3 DEF arm_error
  <2>2. \A e \in RangeOf(R) : arm_error(kind, e) = None
    BY <1>4, <1>5
  <2>3. QED
    BY <1>3, <2>1, <2>2
<1>7. out[kind] # None => rest[kind] = <<>>
  <2>1. SUFFICES ASSUME out[kind] # None, rest[kind] # <<>> PROVE FALSE
    OBVIOUS
  <2>2. \E i \in DOMAIN es : arm_error(kind, es[i]) # None
    BY <1>3, <2>1, FailedFacts
  <2>3. QED
    BY <1>6, <2>2 DEF RangeOf
<1>8. ASSUME out[kind] = "Ok"
      PROVE  /\ \A f \in RESERVED : got[kind][f] =
                   IF f \in Recognized(kind) /\ (kind = "mandate" \/ f = "iss")
                   THEN clauses[f] ELSE None
             /\ opaque[kind] = canonicalize(app).s
  <2>1. /\ Accounts(kind, es, Len(es), got[kind], opaque[kind])
        /\ es \in Seq(Entries) /\ DOMAIN es = 1 .. Len(es)
    BY <1>8, DecodedFacts, AtWorkFacts, SeqDomain
  <2> DEFINE fields == got[kind]
             read == opaque[kind]
  <2>2. /\ \A f \in RESERVED : fields[f] # None =>
              \E e \in RangeOf(es) : classify(e.k) = f
        /\ \A e \in RangeOf(es) : classify(e.k) \in RESERVED => fields[classify(e.k)] = e.v
        /\ read \in Seq(Entries) /\ StrictlyRising(read)
        /\ \A x : x \in RangeOf(read) <=> x \in RangeOf(es) /\ classify(x.k) = "app"
    BY <2>1, AllAccounted
  <2> HIDE DEF fields, read, es
  <2>3. ASSUME NEW f \in RESERVED
        PROVE  fields[f] = IF f \in Puts(kind) THEN clauses[f] ELSE None
    <3>1. fields[f] # None => f \in Puts(kind) /\ clauses[f] # None
      <4>1. SUFFICES ASSUME fields[f] # None PROVE f \in Puts(kind) /\ clauses[f] # None
        OBVIOUS
      <4>2. PICK e \in RangeOf(es) : classify(e.k) = f
        BY <2>2, <4>1
      <4>3. e \in RangeOf(R)
        BY <1>3, <4>2, KeysDiffer
      <4>4. PICK g \in Puts(kind) : clauses[g] # None /\ e = ClauseEntry(clauses, g)
        BY <1>4, <4>3
      <4>5. g = f
        BY <1>5, <4>2, <4>4
      <4>6. QED
        BY <4>4, <4>5
    <3>2. f \in Puts(kind) /\ clauses[f] # None => fields[f] = clauses[f]
      <4>1. SUFFICES ASSUME f \in Puts(kind), clauses[f] # None PROVE fields[f] = clauses[f]
        OBVIOUS
      <4> DEFINE e == ClauseEntry(clauses, f)
      <4>2. e \in RangeOf(es) /\ classify(e.k) = f /\ e.v = clauses[f]
        BY <1>3, <1>5, <4>1
      <4> HIDE DEF e
      <4>3. QED
        BY <2>2, <4>2
    <3>3. QED
      BY <3>1, <3>2
  <2>4. \A f \in RESERVED : f \in Puts(kind) <=>
           f \in Recognized(kind) /\ (kind = "mandate" \/ f = "iss")
    BY KeyIs DEF Puts, Recognized, Kind
  <2>5. read = canonicalize(app).s
    <3>1. app \in Value /\ app.t = "map" /\ app.s \in Seq(Entries)
      BY RawShape
    <3>2. canonicalize(app).s \in Seq(Entries) /\ Rising(canonicalize(app).s)
      BY <3>1, CanonicalEntries
    <3>3. ~Repeats(canonicalize(app).s)
      <4>1. Distinct(app.s)
        BY <1>2, <3>1, DistinctIs
      <4>2. \A e \in RangeOf(app.s) : canonicalize(e.k) = e.k
        BY <1>1, <1>2, AppEntryIs
      <4>3. QED
        BY <3>1, <4>1, <4>2, CanonicalKeepsDistinct
    <3>4. StrictlyRising(canonicalize(app).s)
      BY <3>2, <3>3, StrictlyRisingIs
    <3>5. \A e \in RangeOf(R) : classify(e.k) # "app"
      BY <1>4, <1>5
    <3>6. RangeOf(read) = RangeOf(canonicalize(app).s)
      BY <1>3, <2>2, <3>5
    <3>7. QED
      BY <2>2, <3>2, <3>4, <3>6, StrictlyRisingIsUnique
  <2>6. QED
    BY <2>3, <2>4, <2>5 DEF fields, read
<1>9. canonicalize(app) = MapOf(canonicalize(app).s)
  <2>1. app \in Value /\ app.t = "map"
    BY RawShape
  <2>2. canonicalize(app) \in Value /\ canonicalize(app).t = "map"
    BY <2>1, CanonicalIsValue, CanonicalType
  <2>3. QED
    BY <2>2, MapShape
<1>10. QED
  BY <1>2, <1>7, <1>8, <1>9

LEMMA ReorderedIs ==
    ASSUME NEW S, NEW s \in Seq(S)
    PROVE  /\ Reordered(s) \in Seq(S) /\ Len(Reordered(s)) = Len(s)
           /\ DOMAIN Reordered(s) = DOMAIN s
           /\ \A i \in DOMAIN s : Len(s) + 1 - i \in DOMAIN s /\ Reordered(s)[i] = s[Len(s) + 1 - i]
<1> DEFINE n == Len(s)
<1>1. n \in Nat /\ DOMAIN s = 1 .. n /\ \A i \in DOMAIN s : s[i] \in S
  BY SeqDomain
<1>2. \A i \in 1 .. n : n + 1 - i \in 1 .. n /\ n + 1 - (n + 1 - i) = i
  BY <1>1
<1>3. \A i \in 1 .. n : s[n + 1 - i] \in S
  BY <1>1, <1>2
<1>4. Reordered(s) = [i \in 1 .. n |-> s[n + 1 - i]]
  BY <1>1 DEF Reordered
<1> HIDE DEF n
<1>5. Reordered(s) \in [1 .. n -> S]
  BY <1>3, <1>4
<1>6. Reordered(s) \in Seq(S) /\ Len(Reordered(s)) = n
  BY <1>1, <1>5
<1>7. QED
  BY <1>1, <1>2, <1>4, <1>6 DEF n

(* Two maps of the same entries, one a rearrangement of the other.         *)
LEMMA RearrangedKeepsRepeats ==
    ASSUME NEW v \in Value, v.t = "map", NEW w \in Value, w.t = "map",
           NEW p, \A i \in DOMAIN w.s : p[i] \in DOMAIN v.s /\ w.s[i] = v.s[p[i]],
           \A i, j \in DOMAIN w.s : i # j => p[i] # p[j],
           ~Repeats(canonicalize(v).s)
    PROVE  ~Repeats(canonicalize(w).s)
<1>1. v.s \in Seq(Entries) /\ w.s \in Seq(Entries)
  BY MapShape
<1>2. /\ Canoned(v.s) \in Seq(Entries) /\ DOMAIN Canoned(v.s) = DOMAIN v.s
      /\ Canoned(w.s) \in Seq(Entries) /\ DOMAIN Canoned(w.s) = DOMAIN w.s
      /\ \A i \in DOMAIN v.s : Canoned(v.s)[i].k = canonicalize(v.s[i].k)
      /\ \A i \in DOMAIN w.s : Canoned(w.s)[i].k = canonicalize(w.s[i].k)
  BY <1>1, CanonedShape
<1>3. ~Repeats(Canoned(v.s))
  BY <1>2, CanonicalEntries, SortKeepsRepeats
<1>4. ASSUME NEW i \in DOMAIN w.s, NEW j \in DOMAIN w.s, i # j,
             Canoned(w.s)[i].k = Canoned(w.s)[j].k
      PROVE  FALSE
  <2>1. /\ p[i] \in DOMAIN v.s /\ p[j] \in DOMAIN v.s /\ p[i] # p[j]
        /\ w.s[i] = v.s[p[i]] /\ w.s[j] = v.s[p[j]]
    BY <1>4
  <2>2. Canoned(v.s)[p[i]].k = Canoned(v.s)[p[j]].k
    <3>1. Canoned(v.s)[p[i]].k = canonicalize(w.s[i].k)
      BY <1>2, <2>1
    <3>2. Canoned(v.s)[p[j]].k = canonicalize(w.s[j].k)
      BY <1>2, <2>1
    <3>3. canonicalize(w.s[i].k) = canonicalize(w.s[j].k)
      BY <1>2, <1>4
    <3>4. QED
      BY <3>1, <3>2, <3>3
  <2>3. QED
    BY <1>2, <1>3, <2>1, <2>2, RepeatsIs
<1>5. ~Repeats(Canoned(w.s))
  BY <1>2, <1>4, RepeatsIs
<1>6. QED
  BY <1>2, <1>5, CanonicalEntries, SortKeepsRepeats

(* The order of a map's entries does not show in its canonical form, in    *)
(* whatever order they are given: canonicalize (serial.rs:52), when no two *)
(* keys of the result are equal.                                           *)
THEOREM RearrangedIsTheSame ==
    ASSUME NEW v \in Value, v.t = "map", NEW w \in Value, w.t = "map",
           NEW p, \A i \in DOMAIN w.s : p[i] \in DOMAIN v.s /\ w.s[i] = v.s[p[i]],
           \A i, j \in DOMAIN w.s : i # j => p[i] # p[j],
           \A j \in DOMAIN v.s : \E i \in DOMAIN w.s : p[i] = j,
           ~Repeats(canonicalize(v).s)
    PROVE  canonicalize(w) = canonicalize(v)
<1>1. ~Repeats(canonicalize(w).s)
  BY RearrangedKeepsRepeats
<1>2. /\ canonicalize(v).t = "map" /\ canonicalize(v).s \in Seq(Entries)
      /\ Rising(canonicalize(v).s)
      /\ canonicalize(w).t = "map" /\ canonicalize(w).s \in Seq(Entries)
      /\ Rising(canonicalize(w).s)
  BY CanonicalEntries
<1>3. StrictlyRising(canonicalize(v).s) /\ StrictlyRising(canonicalize(w).s)
  BY <1>1, <1>2, StrictlyRisingIs
<1>4. \A x : x \in RangeOf(v.s) <=> x \in RangeOf(w.s)
  <2>1. ASSUME NEW x, x \in RangeOf(w.s) PROVE x \in RangeOf(v.s)
    BY <2>1 DEF RangeOf
  <2>2. ASSUME NEW x, x \in RangeOf(v.s) PROVE x \in RangeOf(w.s)
    <3>1. PICK j \in DOMAIN v.s : x = v.s[j]
      BY <2>2 DEF RangeOf
    <3>2. PICK i \in DOMAIN w.s : p[i] = j
      BY <3>1
    <3>3. w.s[i] = x
      BY <3>1, <3>2
    <3>4. QED
      BY <3>3 DEF RangeOf
  <2>3. QED
    BY <2>1, <2>2
<1>5. RangeOf(canonicalize(v).s) = RangeOf(canonicalize(w).s)
  <2>1. \A x : x \in RangeOf(canonicalize(v).s) <=> x \in RangeOf(canonicalize(w).s)
    BY <1>4, CanonicalRange
  <2>2. QED
    BY <2>1 DEF RangeOf
<1>6. canonicalize(v).s = canonicalize(w).s
  BY <1>2, <1>3, <1>5, StrictlyRisingIsUnique
<1>7. canonicalize(v) \in Value /\ canonicalize(w) \in Value
  BY CanonicalIsValue
<1>8. QED
  BY <1>2, <1>6, <1>7, MapShape

LEMMA OrderDoesNotShowHolds == ASSUME IInv PROVE OrderDoesNotShow
<1> SUFFICES ASSUME Minted, ~Repeats(plain.value.s)
             PROVE  encode(plain.value) =
                       encode(to_plaintext(source.kind, source.clauses,
                                           MapOf(Reordered(source.app.s))))
  BY DEF OrderDoesNotShow
<1>1. PICK kind \in Kind, clauses \in Clauses, app \in AppMap :
         /\ source = [kind |-> kind, clauses |-> clauses, app |-> app]
         /\ plain.value = to_plaintext(kind, clauses, app)
  BY MintedFacts
<1>2. source.kind = kind /\ source.clauses = clauses /\ source.app = app
  BY <1>1
<1> DEFINE R == ReservedEntries(kind, clauses)
           a == app.s
           b == Reordered(app.s)
           v == MapOf(a \o R)
           w == MapOf(b \o R)
<1>3. /\ v \in Value /\ v.t = "map" /\ v.s \in Seq(Entries) /\ v.s = a \o R
      /\ R \in Seq(Clausal) /\ a \in Seq(Entries)
  BY RawShape
<1>4. w \in Value /\ w.t = "map" /\ w.s = b \o R
  BY PlayAssumption DEF MapOf
<1>5. plain.value = canonicalize(v)
      /\ to_plaintext(kind, clauses, MapOf(b)) = canonicalize(w)
  BY <1>1 DEF to_plaintext, assemble, MapOf
<1>6. /\ b \in Seq(Entries) /\ Len(b) = Len(a) /\ DOMAIN b = DOMAIN a
      /\ \A i \in DOMAIN a : Len(a) + 1 - i \in DOMAIN a /\ b[i] = a[Len(a) + 1 - i]
  BY <1>3, ReorderedIs
<1>7. w.s \in Seq(Entries)
  BY <1>4, MapShape
<1>8. /\ a \in Seq(Entries \cup Clausal) /\ b \in Seq(Entries \cup Clausal)
      /\ R \in Seq(Entries \cup Clausal)
  BY <1>3, <1>6, SeqWidens
<1> DEFINE m == Len(a)
           n == Len(R)
           p == [i \in 1 .. m + n |-> IF i <= m THEN m + 1 - i ELSE i]
<1>9. /\ m \in Nat /\ n \in Nat /\ DOMAIN a = 1 .. m
      /\ DOMAIN v.s = 1 .. m + n /\ DOMAIN w.s = 1 .. m + n
      /\ \A i \in 1 .. m + n : v.s[i] = IF i <= m THEN a[i] ELSE R[i - m]
      /\ \A i \in 1 .. m + n : w.s[i] = IF i <= m THEN b[i] ELSE R[i - m]
  <2>1. m \in Nat /\ n \in Nat /\ DOMAIN a = 1 .. m
    BY <1>3, SeqDomain
  <2>2. /\ Len(a \o R) = m + n /\ a \o R \in Seq(Entries \cup Clausal)
        /\ \A i \in 1 .. m + n : (a \o R)[i] = IF i <= m THEN a[i] ELSE R[i - m]
    BY <1>8, ConcatProperties
  <2>3. /\ Len(b \o R) = m + n /\ b \o R \in Seq(Entries \cup Clausal)
        /\ \A i \in 1 .. m + n : (b \o R)[i] = IF i <= m THEN b[i] ELSE R[i - m]
    <3>1. /\ Len(b \o R) = Len(b) + n /\ b \o R \in Seq(Entries \cup Clausal)
          /\ \A i \in 1 .. Len(b) + n : (b \o R)[i] = IF i <= Len(b) THEN b[i] ELSE R[i - Len(b)]
      BY <1>8, ConcatProperties
    <3>2. QED
      BY <1>6, <3>1
  <2>4. DOMAIN (a \o R) = 1 .. m + n /\ DOMAIN (b \o R) = 1 .. m + n
    BY <2>2, <2>3, SeqDomain
  <2> HIDE DEF v, w, m, n
  <2>5. QED
    BY <1>3, <1>4, <2>1, <2>2, <2>3, <2>4
<1> HIDE DEF v, w, a, b, R, m, n
<1>10. \A i \in 1 .. m : m + 1 - i \in 1 .. m /\ b[i] = a[m + 1 - i]
  BY <1>6, <1>9 DEF m
<1>11. ASSUME NEW i \in DOMAIN w.s
       PROVE  p[i] \in DOMAIN v.s /\ w.s[i] = v.s[p[i]]
  <2>1. i \in 1 .. m + n
    BY <1>9
  <2>2. CASE i <= m
    <3>1. i \in 1 .. m /\ p[i] = m + 1 - i
      BY <1>9, <2>1, <2>2
    <3>2. m + 1 - i \in 1 .. m /\ m + 1 - i \in 1 .. m + n /\ m + 1 - i <= m
      BY <1>9, <1>10, <3>1
    <3>3. w.s[i] = b[i] /\ v.s[m + 1 - i] = a[m + 1 - i]
      BY <1>9, <2>1, <2>2, <3>2
    <3>4. QED
      BY <1>9, <1>10, <3>1, <3>2, <3>3
  <2>3. CASE ~(i <= m)
    <3>1. p[i] = i
      BY <2>1, <2>3
    <3>2. QED
      BY <1>9, <2>1, <2>3, <3>1
  <2>4. QED
    BY <2>2, <2>3
<1>12. ASSUME NEW i \in DOMAIN w.s, NEW j \in DOMAIN w.s, i # j
       PROVE  p[i] # p[j]
  BY <1>9, <1>12
<1>13. ASSUME NEW j \in DOMAIN v.s
       PROVE  \E i \in DOMAIN w.s : p[i] = j
  <2>1. j \in 1 .. m + n
    BY <1>9
  <2>2. CASE j <= m
    <3>1. m + 1 - j \in 1 .. m + n /\ m + 1 - j <= m /\ m + 1 - (m + 1 - j) = j
      BY <1>9, <2>1, <2>2
    <3>2. p[m + 1 - j] = j
      BY <3>1
    <3>3. QED
      BY <1>9, <3>1, <3>2
  <2>3. CASE ~(j <= m)
    <3>1. p[j] = j
      BY <2>1, <2>3
    <3>2. QED
      BY <1>9, <2>1, <3>1
  <2>4. QED
    BY <2>2, <2>3
<1> HIDE DEF p
<1>14. canonicalize(w) = canonicalize(v)
  <2>1. ~Repeats(canonicalize(v).s)
    BY <1>5
  <2>2. /\ \A i \in DOMAIN w.s : p[i] \in DOMAIN v.s /\ w.s[i] = v.s[p[i]]
        /\ \A i, j \in DOMAIN w.s : i # j => p[i] # p[j]
        /\ \A j \in DOMAIN v.s : \E i \in DOMAIN w.s : p[i] = j
    BY <1>11, <1>12, <1>13
  <2>3. v \in Value /\ v.t = "map" /\ w \in Value /\ w.t = "map"
    BY <1>3, <1>4
  <2>4. QED
    BY <2>1, <2>2, <2>3, RearrangedIsTheSame
<1>15. QED
  BY <1>2, <1>5, <1>14 DEF b

-----------------------------------------------------------------------------
(* The properties. *)

(* from_mandate_plaintext and from_manifest_plaintext decode exactly the   *)
(* canonical plaintexts of entries their kind of half may have, and what   *)
(* they return are its fields: the one pass over a value's bytes decides   *)
(* canonical form at every depth.                                          *)
THEOREM SerialDecodesExactly == Spec => []DecodesExactly
BY SerialInvariant, DecodesExactlyHolds, PTL

(* Behind strict_map the Invalid arm is dead, and no read of a field       *)
(* overwrites an earlier one.                                              *)
THEOREM SerialEachFieldReadOnce == Spec => []EachFieldReadOnce
BY SerialInvariant, EachFieldReadOnceHolds, PTL

(* A plaintext with a mandate's tid never decodes as a manifest.           *)
THEOREM SerialNeverBoth == Spec => []NeverBoth
BY SerialInvariant, NeverBothHolds, PTL

(* to_plaintext and the decoder of its kind are inverse: what is minted    *)
(* from portable entries without a repeated key reads back as it was.      *)
THEOREM SerialMintedReadsBack == Spec => []MintedReadsBack
BY SerialInvariant, MintedReadsBackHolds, PTL

(* assemble gives the same bytes for the application's entries in the      *)
(* opposite order.                                                         *)
THEOREM SerialOrderDoesNotShow == Spec => []OrderDoesNotShow
BY SerialInvariant, OrderDoesNotShowHolds, PTL
=============================================================================
