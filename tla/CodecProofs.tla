----------------------------- MODULE CodecProofs -----------------------------
(***************************************************************************)
(* Theorems about MacCommands: RoundTrip and PrefixParsed for any number   *)
(* of commands, with any values in their fields, cut off anywhere or with  *)
(* anything unknown behind any of them.  And lemmas about Messages: what   *)
(* each message is encoded to, byte by byte, that decoding takes it back,  *)
(* and that what was decoded is encoded to what it was.                    *)
(*                                                                         *)
(* The former rest on what Encode writes being what Decode reads           *)
(* (LaidBack): for every list of fields that is laid out as those of the   *)
(* classes are, with every value a field has room for.  Encode adds up the *)
(* contributions of the fields to a byte with MapThenSumSet, which takes   *)
(* them in an order that nobody knows; that the order does not matter is   *)
(* shown first, since the library has its facts about sums for operator    *)
(* arguments only.                                                         *)
(***************************************************************************)
EXTENDS
  MacCommands, Messages,
  FiniteSetTheorems, WellFoundedInduction, SequenceTheorems, TLAPS

-----------------------------------------------------------------------------
(* Induction, and sums over finite sets.                                   *)

\* A set of naturals has a least element.
LEMMA LeastIn ==
  ASSUME NEW S, S \subseteq Nat, S # {}
  PROVE  \E x \in S : \A y \in S : x <= y
<1> DEFINE segments == {0..n : n \in S}
<1>1. segments \subseteq FiniteSubsetsOf(Nat) /\ segments # {}
  <2>1. ASSUME NEW n \in S
        PROVE  0..n \in FiniteSubsetsOf(Nat)
    <3>1. IsFiniteSet(0..n)
      BY FS_Interval
    <3>2. 0..n \subseteq Nat
      OBVIOUS
    <3> QED
      BY <3>1, <3>2 DEF FiniteSubsetsOf
  <2> QED
    BY <2>1
<1>2. PICK least \in segments :
        \A other \in segments : <<other, least>> \notin StrictSubsetOrdering(Nat)
  <2> HIDE DEF segments
  <2> QED
    BY <1>1, FS_StrictSubsetOrderingWellFounded, WFMin
<1>3. PICK x \in S : least = 0..x
  OBVIOUS
<1>4. \A y \in S : x <= y
  <2> SUFFICES ASSUME NEW y \in S, y < x
               PROVE  FALSE
    OBVIOUS
  <2>1. 0..y \in segments /\ 0..y \subseteq 0..x /\ x \in 0..x /\ x \notin 0..y
    OBVIOUS
  <2>2. <<0..y, 0..x>> \in StrictSubsetOrdering(Nat)
    BY <2>1 DEF StrictSubsetOrdering
  <2> QED
    BY <1>2, <1>3, <2>1, <2>2
<1> QED
  BY <1>4

\* Induction over the numbers up to n, the statement being a set of numbers.
LEMMA UpTo ==
  ASSUME NEW n \in Nat, NEW S, 0 \in S, \A i \in 0..(n - 1) : i \in S => i + 1 \in S
  PROVE  0..n \subseteq S
<1> SUFFICES ASSUME (0..n) \ S # {}
             PROVE  FALSE
  OBVIOUS
<1>1. PICK x \in (0..n) \ S : \A y \in (0..n) \ S : x <= y
  <2> DEFINE Missing == (0..n) \ S
  <2>1. Missing \subseteq Nat /\ Missing # {}
    OBVIOUS
  <2> HIDE DEF Missing
  <2>2. \E x \in Missing : \A y \in Missing : x <= y
    BY <2>1, LeastIn, Zenon
  <2> QED
    BY <2>2 DEF Missing
<1>2. x # 0 /\ x - 1 \in 0..(n - 1)
  OBVIOUS
<1>3. x - 1 \in S
  BY <1>1, <1>2
<1> QED
  BY <1>2, <1>3

\* MapThenSumSet adds up the values f of a set by taking out one element after
\* the other, the one that CHOOSE returns first.  Adds(G, f, D) says that G does
\* so for the sets of D.
First(s) == CHOOSE x \in s : TRUE

Adds(G, f, D) ==
  \A s \in D : G[s] = IF s = {} THEN 0 ELSE f[First(s)] + G[s \ {First(s)}]

\* The subsets of n elements at most, by which the inductions go.
Small(S, n) == {s \in SUBSET S : Cardinality(s) <= n}

\* There is such a sum.
LEMMA SumsExist ==
  ASSUME NEW S, IsFiniteSet(S), NEW f \in [S -> Int]
  PROVE  \E G \in [SUBSET S -> Int] : Adds(G, f, SUBSET S)
<1> DEFINE Done == {n \in Nat : \E G \in [Small(S, n) -> Int] : Adds(G, f, Small(S, n))}
           N == Cardinality(S)
<1>0. N \in Nat /\ \A s \in SUBSET S : IsFiniteSet(s) /\ Cardinality(s) \in 0..N
  BY FS_CardinalityType, FS_Subset
<1>1. 0 \in Done
  <2>1. Small(S, 0) = {{}}
    <3>1. \A s \in SUBSET S : Cardinality(s) <= 0 <=> s = {}
      BY <1>0, FS_EmptySet
    <3> QED
      BY <3>1 DEF Small
  <2>2. [s \in Small(S, 0) |-> 0] \in [Small(S, 0) -> Int]
    OBVIOUS
  <2>3. Adds([s \in Small(S, 0) |-> 0], f, Small(S, 0))
    BY <2>1 DEF Adds
  <2> QED
    BY <2>2, <2>3
<1>2. ASSUME NEW n \in 0..(N - 1), n \in Done
      PROVE  n + 1 \in Done
  <2>1. PICK g \in [Small(S, n) -> Int] : Adds(g, f, Small(S, n))
    BY <1>2
  <2> DEFINE h == [s \in Small(S, n + 1) |->
                     IF s \in Small(S, n) THEN g[s] ELSE f[First(s)] + g[s \ {First(s)}]]
  <2>2. ASSUME NEW s \in Small(S, n + 1), s # {}
        PROVE  First(s) \in s /\ First(s) \in S /\ s \ {First(s)} \in Small(S, n)
    <3>1. First(s) \in s
      BY <2>2 DEF First
    <3>2. s \in SUBSET S /\ IsFiniteSet(s) /\ Cardinality(s) <= n + 1 /\ Cardinality(s) \in Nat
      BY <1>0 DEF Small
    <3>3. Cardinality(s \ {First(s)}) = Cardinality(s) - 1
      BY <3>1, <3>2, FS_RemoveElement, Zenon
    <3> QED
      BY <3>1, <3>2, <3>3 DEF Small
  <2>3. {} \in Small(S, n) /\ Small(S, n) \subseteq Small(S, n + 1)
    BY <1>0, FS_EmptySet DEF Small
  <2>4. h \in [Small(S, n + 1) -> Int]
    <3>1. ASSUME NEW s \in Small(S, n + 1)
          PROVE  (IF s \in Small(S, n) THEN g[s] ELSE f[First(s)] + g[s \ {First(s)}]) \in Int
      <4>1. CASE s \in Small(S, n)
        BY <4>1
      <4>2. CASE s \notin Small(S, n)
        <5>1. First(s) \in S /\ s \ {First(s)} \in Small(S, n)
          BY <2>2, <2>3, <4>2
        <5>2. f[First(s)] \in Int /\ g[s \ {First(s)}] \in Int
          BY <5>1
        <5> QED
          BY <4>2, <5>2
      <4> QED
        BY <4>1, <4>2
    <3> QED
      BY <3>1
  <2>5. Adds(h, f, Small(S, n + 1))
    <3>1. ASSUME NEW s \in Small(S, n + 1)
          PROVE  h[s] = IF s = {} THEN 0 ELSE f[First(s)] + h[s \ {First(s)}]
      BY <2>1, <2>2, <2>3 DEF Adds
    <3> QED
      BY <3>1 DEF Adds
  <2> HIDE DEF h
  <2> QED
    BY <2>4, <2>5
<1>3. N \in Done
  <2> HIDE DEF Done, N
  <2>1. 0..N \subseteq Done
    BY <1>0, <1>1, <1>2, UpTo
  <2> QED
    BY <1>0, <2>1
<1>4. Small(S, N) = SUBSET S
  BY <1>0 DEF Small
<1>5. \E G \in [Small(S, N) -> Int] : Adds(G, f, Small(S, N))
  BY <1>3, Zenon
<1> QED
  BY <1>4, <1>5, Zenon

\* There is only one.
LEMMA SumsAreOne ==
  ASSUME NEW S, IsFiniteSet(S), NEW f, NEW G, NEW H,
         Adds(G, f, SUBSET S), Adds(H, f, SUBSET S)
  PROVE  \A s \in SUBSET S : G[s] = H[s]
<1> DEFINE Same == {n \in Nat : \A s \in Small(S, n) : G[s] = H[s]}
           N == Cardinality(S)
<1>0. N \in Nat /\ \A s \in SUBSET S : IsFiniteSet(s) /\ Cardinality(s) \in 0..N
  BY FS_CardinalityType, FS_Subset
<1>1. 0 \in Same
  <2>1. \A s \in Small(S, 0) : s = {}
    <3>1. \A s \in SUBSET S : Cardinality(s) <= 0 <=> s = {}
      BY <1>0, FS_EmptySet
    <3> QED
      BY <3>1 DEF Small
  <2> QED
    BY <2>1 DEF Adds, Small
<1>2. ASSUME NEW n \in 0..(N - 1), n \in Same
      PROVE  n + 1 \in Same
  <2>1. ASSUME NEW s \in Small(S, n + 1), s # {}
        PROVE  s \ {First(s)} \in Small(S, n)
    <3>1. First(s) \in s
      BY <2>1 DEF First
    <3>2. s \in SUBSET S /\ IsFiniteSet(s) /\ Cardinality(s) <= n + 1 /\ Cardinality(s) \in Nat
      BY <1>0 DEF Small
    <3>3. Cardinality(s \ {First(s)}) = Cardinality(s) - 1
      BY <3>1, <3>2, FS_RemoveElement, Zenon
    <3> QED
      BY <3>1, <3>2, <3>3 DEF Small
  <2>2. ASSUME NEW s \in Small(S, n + 1)
        PROVE  G[s] = H[s]
    BY <1>2, <2>1 DEF Adds, Small
  <2> QED
    BY <2>2
<1>3. N \in Same
  <2> HIDE DEF Same, N
  <2>1. 0..N \subseteq Same
    BY <1>0, <1>1, <1>2, UpTo
  <2> QED
    BY <1>0, <2>1
<1>4. Small(S, N) = SUBSET S
  BY <1>0 DEF Small
<1>5. \A s \in Small(S, N) : G[s] = H[s]
  BY <1>3, Zenon
<1> QED
  BY <1>4, <1>5, Zenon

Summed(S, f, H) == IsFiniteSet(S) /\ f \in [S -> Int] /\ Adds(H, f, SUBSET S)

Additive(S, f, H) ==
  /\ H[{}] = 0
  /\ \A s \in SUBSET S : H[s] \in Int
  /\ \A s \in SUBSET S : \A x \in s : H[s] = f[x] + H[s \ {x}]

\* The order does not matter: any element may be taken first.
LEMMA AnyFirst ==
  ASSUME NEW S, NEW f, NEW H, Summed(S, f, H)
  PROVE  Additive(S, f, H)
<1> IsFiniteSet(S) /\ f \in [S -> Int] /\ Adds(H, f, SUBSET S)
  BY DEF Summed
<1> DEFINE N == Cardinality(S)
           Free == {n \in Nat : \A s \in Small(S, n) : \A x \in s : H[s] = f[x] + H[s \ {x}]}
<1>0. N \in Nat /\ \A s \in SUBSET S : IsFiniteSet(s) /\ Cardinality(s) \in 0..N
  BY FS_CardinalityType, FS_Subset
<1>1. H[{}] = 0
  BY DEF Adds
<1>2. \A s \in SUBSET S : H[s] \in Int
  <2>1. PICK G \in [SUBSET S -> Int] : Adds(G, f, SUBSET S)
    BY SumsExist
  <2>2. \A s \in SUBSET S : G[s] = H[s]
    BY <2>1, SumsAreOne
  <2> QED
    BY <2>1, <2>2
<1>3. 0 \in Free
  <2>1. \A s \in SUBSET S : Cardinality(s) <= 0 => s = {}
    BY <1>0, FS_EmptySet
  <2>2. \A s \in Small(S, 0) : s = {}
    BY <2>1 DEF Small
  <2> QED
    BY <2>2
<1>4. ASSUME NEW n \in 0..(N - 1), n \in Free
      PROVE  n + 1 \in Free
  <2>1. ASSUME NEW s \in Small(S, n + 1), NEW x \in s
        PROVE  s \ {x} \in Small(S, n)
    <3>1. s \in SUBSET S /\ IsFiniteSet(s) /\ Cardinality(s) <= n + 1 /\ Cardinality(s) \in Nat
      BY <1>0 DEF Small
    <3>2. Cardinality(s \ {x}) = Cardinality(s) - 1
      BY <3>1, FS_RemoveElement, Zenon
    <3> QED
      BY <3>1, <3>2 DEF Small
  <2>2. \A t \in Small(S, n) : \A x \in t : H[t] = f[x] + H[t \ {x}]
    BY <1>4
  <2>3. ASSUME NEW s \in Small(S, n + 1), NEW x \in s
        PROVE  H[s] = f[x] + H[s \ {x}]
    <3> DEFINE y == First(s)
    <3>1. y \in s /\ s \subseteq S
      BY DEF First, Small
    <3>2. H[s] = f[y] + H[s \ {y}]
      BY <3>1 DEF Adds
    <3>3. CASE x = y
      BY <3>2, <3>3
    <3>4. CASE x # y
      <4>1. s \ {y} \in Small(S, n) /\ s \ {x} \in Small(S, n)
        BY <2>1, <3>1
      <4>2. x \in s \ {y} /\ y \in s \ {x} /\ (s \ {y}) \ {x} = (s \ {x}) \ {y}
        BY <3>1, <3>4
      <4> DEFINE rest == (s \ {x}) \ {y}
      <4>3. H[s \ {y}] = f[x] + H[rest] /\ H[s \ {x}] = f[y] + H[rest]
        BY <2>2, <4>1, <4>2
      <4>4. H[rest] \in Int /\ f[x] \in Int /\ f[y] \in Int
        BY <1>2, <3>1
      <4> HIDE DEF rest, y
      <4> QED
        BY <3>2, <4>3, <4>4
    <3> QED
      BY <3>3, <3>4
  <2>4. n + 1 \in Nat
    BY <1>0
  <2> QED
    BY <2>3, <2>4, Zenon
<1>5. N \in Free
  <2> HIDE DEF Free, N
  <2>1. 0..N \subseteq Free
    BY <1>0, <1>3, <1>4, UpTo
  <2> QED
    BY <1>0, <2>1
<1>6. Small(S, N) = SUBSET S
  BY <1>0 DEF Small
<1>7. \A s \in Small(S, N) : \A x \in s : H[s] = f[x] + H[s \ {x}]
  BY <1>5, Zenon
<1>8. \A s \in SUBSET S : \A x \in s : H[s] = f[x] + H[s \ {x}]
  BY <1>6, <1>7, Zenon
<1> QED
  BY <1>1, <1>2, <1>8, Zenon DEF Additive

\* The bytes of Encode and the numbers of Take are such sums.
LEMMA EncodeSum ==
  ASSUME NEW F, IsFiniteSet(F), NEW p, NEW k, k \in 1..Max({0} \cup {f.at + f.len : f \in F}),
         \A f \in F : Put(f, p[f.name], k - 1) \in Int,
         NEW v, v = [f \in F |-> Put(f, p[f.name], k - 1)]
  PROVE  \E H : Summed(F, v, H) /\ Encode(F, p)[k] = H[F]
<1> DEFINE Is(G) == G = [s \in SUBSET F |-> IF s = {} THEN 0
                           ELSE Put(First(s), p[First(s).name], k - 1) + G[s \ {First(s)}]]
<1>0. v \in [F -> Int]
  OBVIOUS
<1>1. PICK G \in [SUBSET F -> Int] : Adds(G, v, SUBSET F)
  BY <1>0, SumsExist
<1>f. \A s \in SUBSET F : s # {} => First(s) \in F
  BY DEF First
<1>2. Is(G)
  BY <1>1, <1>f DEF Adds
<1>3. PICK H : H = CHOOSE K : Is(K)
  OBVIOUS
<1>4. Is(H)
  <2> HIDE DEF Is
  <2> QED
    BY <1>2, <1>3, Zenon
<1>5. H = [s \in SUBSET F |-> IF s = {} THEN 0
                           ELSE Put(First(s), p[First(s).name], k - 1) + H[s \ {First(s)}]]
  BY <1>4, Zenon
<1>6. Encode(F, p)[k] = H[F]
  BY <1>3 DEF Encode, MapThenSumSet, MapThenFoldSet, First
<1> HIDE DEF Is
<1>7. Summed(F, v, H)
  BY <1>0, <1>5, <1>f DEF Adds, Summed
<1> QED
  BY <1>6, <1>7

\* What adds nothing can be left out.
LEMMA ZerosOut ==
  ASSUME NEW S, NEW f, NEW H, Summed(S, f, H),
         NEW A, A \subseteq S, \A x \in S \ A : f[x] = 0
  PROVE  H[S] = H[A]
<1> IsFiniteSet(S) /\ f \in [S -> Int] /\ Adds(H, f, SUBSET S)
  BY DEF Summed
<1> DEFINE R == S \ A
           N == Cardinality(R)
           Gone == {n \in Nat : \A s \in Small(R, n) : H[A \cup s] = H[A]}
<1>0. N \in Nat /\ \A s \in SUBSET R : IsFiniteSet(s) /\ Cardinality(s) \in 0..N
  <2>1. IsFiniteSet(R)
    BY FS_Subset
  <2> QED
    BY <2>1, FS_CardinalityType, FS_Subset
<1>a. \A s \in SUBSET S : H[s] \in Int
  <2>1. Additive(S, f, H)
    BY AnyFirst, Zenon
  <2> QED
    BY <2>1 DEF Additive
<1>b. \A s \in SUBSET S : \A x \in s : H[s] = f[x] + H[s \ {x}]
  <2>1. Additive(S, f, H)
    BY AnyFirst, Zenon
  <2> QED
    BY <2>1 DEF Additive
<1>1. 0 \in Gone
  <2>1. \A s \in SUBSET R : Cardinality(s) <= 0 => s = {}
    BY <1>0, FS_EmptySet
  <2>2. \A s \in Small(R, 0) : s = {}
    BY <2>1 DEF Small
  <2>3. A \cup {} = A
    OBVIOUS
  <2> QED
    BY <2>2, <2>3
<1>2. ASSUME NEW n \in 0..(N - 1), n \in Gone
      PROVE  n + 1 \in Gone
  <2>1. ASSUME NEW s \in Small(R, n + 1), NEW x \in s
        PROVE  H[A \cup s] = H[A]
    <3>1. s \in SUBSET R /\ IsFiniteSet(s) /\ Cardinality(s) <= n + 1 /\ Cardinality(s) \in Nat
      BY <1>0 DEF Small
    <3>2. Cardinality(s \ {x}) = Cardinality(s) - 1
      BY <3>1, FS_RemoveElement, Zenon
    <3>3. s \ {x} \in Small(R, n)
      BY <3>1, <3>2 DEF Small
    <3>4. H[A \cup (s \ {x})] = H[A]
      BY <1>2, <3>3
    <3>5. A \cup s \in SUBSET S /\ x \in A \cup s /\ (A \cup s) \ {x} = A \cup (s \ {x})
      BY <3>1
    <3>6. H[A \cup s] = f[x] + H[A \cup (s \ {x})]
      BY <1>b, <3>5
    <3>7. f[x] = 0
      BY <3>1
    <3>8. H[A] \in Int
      BY <1>a
    <3> QED
      BY <3>4, <3>6, <3>7, <3>8
  <2>2. ASSUME NEW s \in Small(R, n + 1)
        PROVE  H[A \cup s] = H[A]
    <3>1. CASE s = {}
      <4>1. A \cup s = A
        BY <3>1
      <4> QED
        BY <4>1
    <3>2. CASE s # {}
      BY <2>1, <3>2
    <3> QED
      BY <3>1, <3>2
  <2>3. n + 1 \in Nat
    BY <1>0
  <2> QED
    BY <2>2, <2>3
<1>3. N \in Gone
  <2> HIDE DEF Gone, N
  <2>1. 0..N \subseteq Gone
    BY <1>0, <1>1, <1>2, UpTo
  <2> QED
    BY <1>0, <2>1
<1>4. R \in Small(R, N)
  BY <1>0 DEF Small
<1>5. H[A \cup R] = H[A]
  BY <1>3, <1>4
<1>6. A \cup R = S
  OBVIOUS
<1> QED
  BY <1>5, <1>6

\* Sums of one, two and three.
FewOf(S, f, H) ==
  /\ \A x \in S : H[{x}] = f[x]
  /\ \A x, y \in S : x # y => H[{x, y}] = f[x] + f[y]
  /\ \A x, y, z \in S :
       x # y /\ y # z /\ x # z => H[{x, y, z}] = f[x] + f[y] + f[z]

\* What Additive says of sums so short.
LEMMA FewAdded ==
  ASSUME NEW S, NEW f, NEW H, Summed(S, f, H)
  PROVE  FewOf(S, f, H)
<1> IsFiniteSet(S) /\ f \in [S -> Int] /\ Adds(H, f, SUBSET S)
  BY DEF Summed
<1>1. Additive(S, f, H)
  BY AnyFirst, Zenon
<1>2. \A x \in S : H[{x}] = f[x]
  <2> SUFFICES ASSUME NEW x \in S
               PROVE  H[{x}] = f[x]
    OBVIOUS
  <2>1. {x} \in SUBSET S /\ x \in {x} /\ {x} \ {x} = {}
    OBVIOUS
  <2>2. H[{x}] = f[x] + H[{}] /\ H[{}] = 0
    BY <1>1, <2>1 DEF Additive
  <2> QED
    BY <2>2
<1>3. \A x, y \in S : x # y => H[{x, y}] = f[x] + f[y]
  <2> SUFFICES ASSUME NEW x \in S, NEW y \in S, x # y
               PROVE  H[{x, y}] = f[x] + f[y]
    OBVIOUS
  <2>1. {x, y} \in SUBSET S /\ x \in {x, y} /\ {x, y} \ {x} = {y}
    OBVIOUS
  <2>2. H[{x, y}] = f[x] + H[{y}]
    BY <1>1, <2>1 DEF Additive
  <2> QED
    BY <1>2, <2>2
<1>4. \A x, y, z \in S :
        x # y /\ y # z /\ x # z => H[{x, y, z}] = f[x] + f[y] + f[z]
  <2> SUFFICES ASSUME NEW x \in S, NEW y \in S, NEW z \in S, x # y, y # z, x # z
               PROVE  H[{x, y, z}] = f[x] + f[y] + f[z]
    OBVIOUS
  <2>1. {x, y, z} \in SUBSET S /\ x \in {x, y, z} /\ {x, y, z} \ {x} = {y, z}
    OBVIOUS
  <2>2. H[{x, y, z}] = f[x] + H[{y, z}]
    BY <1>1, <2>1 DEF Additive
  <2>3. H[{y, z}] = f[y] + f[z]
    BY <1>3
  <2> QED
    BY <2>2, <2>3
<1> QED
  BY <1>2, <1>3, <1>4, Zenon DEF FewOf

-----------------------------------------------------------------------------
(* What a field contributes to the bytes, and what is taken out of them.   *)

\* A field as the messages have them; digits are left to whoever needs them.
IsField(f) ==
  /\ f.at \in Nat /\ f.len \in 1..4 /\ f.low \in 0..7 /\ f.width \in 1..8
  /\ f.kind \in {"bits", "number", "margin"}

Covers(f, k) == k - 1 \in f.at..(f.at + f.len - 1)

\* The powers that a field is put together with are positive.
LEMMA Powers ==
  /\ \A n \in 0..8 : 2^n \in Nat \ {0}
  /\ \A n \in 0..4 : 256^n \in Nat \ {0}
<1>1. ASSUME NEW n \in 0..8
      PROVE  2^n \in Nat \ {0}
  <2>1. 2^0 = 1 /\ 2^1 = 2 /\ 2^2 = 4 /\ 2^3 = 8 /\ 2^4 = 16 /\ 2^5 = 32 /\ 2^6 = 64 /\ 2^7 = 128 /\ 2^8 = 256
    OBVIOUS
  <2>2. n = 0 \/ n = 1 \/ n = 2 \/ n = 3 \/ n = 4 \/ n = 5 \/ n = 6 \/ n = 7 \/ n = 8
    OBVIOUS
  <2>3. n = 0 => 2^n = 1
    BY <2>1, Zenon
  <2>4. n = 1 => 2^n = 2
    BY <2>1, Zenon
  <2>5. n = 2 => 2^n = 4
    BY <2>1, Zenon
  <2>6. n = 3 => 2^n = 8
    BY <2>1, Zenon
  <2>7. n = 4 => 2^n = 16
    BY <2>1, Zenon
  <2>8. n = 5 => 2^n = 32
    BY <2>1, Zenon
  <2>9. n = 6 => 2^n = 64
    <3>1. n = 6 => 2^n = 2^6
      BY Zenon
    <3> QED
      BY <2>1, <3>1, SMT
  <2>10. n = 7 => 2^n = 128
    <3>1. n = 7 => 2^n = 2^7
      BY Zenon
    <3> QED
      BY <2>1, <3>1, SMT
  <2>11. n = 8 => 2^n = 256
    <3>1. n = 8 => 2^n = 2^8
      BY Zenon
    <3> QED
      BY <2>1, <3>1, SMT
  <2> QED
    BY <2>2, <2>3, <2>4, <2>5, <2>6, <2>7, <2>8, <2>9, <2>10, <2>11
<1>2. ASSUME NEW n \in 0..4
      PROVE  256^n \in Nat \ {0}
  <2>1. 256^0 = 1 /\ 256^1 = 256 /\ 256^2 = 65536 /\ 256^3 = 16777216 /\ 256^4 = 4294967296
    OBVIOUS
  <2>2. n = 0 \/ n = 1 \/ n = 2 \/ n = 3 \/ n = 4
    OBVIOUS
  <2>3. n = 0 => 256^n = 1
    BY <2>1
  <2>4. n = 1 => 256^n = 256
    BY <2>1
  <2>5. n = 2 => 256^n = 65536
    BY <2>1
  <2>6. n = 3 => 256^n = 16777216
    BY <2>1
  <2>7. n = 4 => 256^n = 4294967296
    BY <2>1
  <2> QED
    BY <2>2, <2>3, <2>4, <2>5, <2>6, <2>7
<1> QED
  BY <1>1, <1>2

\* The same of one power of 2, for a width in 1..8 or a place in 0..7.
LEMMA PowerOf2 ==
  ASSUME NEW n \in 0..8
  PROVE  2^n \in Nat \ {0}
BY Powers, Zenon

\* A field contributes a number to its own bytes and nothing to the others.
LEMMA PutInt ==
  ASSUME NEW f, IsField(f), NEW v \in Int, NEW k \in Int
  PROVE  /\ Put(f, v, k - 1) \in Int
         /\ ~Covers(f, k) => Put(f, v, k - 1) = 0
<1>1. CASE ~Covers(f, k)
  BY <1>1 DEF Covers, Put, IsField
<1>2. CASE Covers(f, k) /\ f.kind = "bits"
  <2> DEFINE m == 2^f.width
             l == 2^f.low
  <2>0. f.width \in 0..8 /\ f.low \in 0..8
    BY DEF IsField
  <2>1. m \in Nat \ {0} /\ l \in Nat \ {0}
    BY <2>0, Powers, Zenon
  <2>2. Put(f, v, k - 1) = (v % m) * l
    BY <1>2 DEF Covers, Put
  <2> HIDE DEF m, l
  <2> QED
    BY SMT, <1>2, <2>1, <2>2
<1>3. CASE Covers(f, k) /\ f.kind = "number"
  <2> DEFINE i == k - 1 - f.at
             m == 256^i
  <2>0. i \in 0..4
    BY <1>3 DEF Covers, IsField
  <2>1. m \in Nat \ {0}
    BY <2>0, Powers, Zenon
  <2>2. Put(f, v, k - 1) = (v \div m) % 256
    BY <1>3 DEF Covers, Put
  <2> HIDE DEF m
  <2> QED
    BY SMT, <1>3, <2>1, <2>2
<1>4. CASE Covers(f, k) /\ f.kind = "margin"
  BY SMT, <1>4 DEF Covers, Put
<1> QED
  BY <1>1, <1>2, <1>3, <1>4 DEF IsField

ByteSums(F, p, k) ==
  LET Part(f) == Put(f, p[f.name], k - 1) IN
  /\ \A x \in F : (\A f \in F : Covers(f, k) => f = x) => Encode(F, p)[k] = Part(x)
  /\ \A x, y \in F : x # y /\ (\A f \in F : Covers(f, k) => f \in {x, y}) =>
       Encode(F, p)[k] = Part(x) + Part(y)
  /\ \A x, y, z \in F :
       x # y /\ y # z /\ x # z /\ (\A f \in F : Covers(f, k) => f \in {x, y, z}) =>
         Encode(F, p)[k] = Part(x) + Part(y) + Part(z)

\* The bytes, by how many fields cover them.
LEMMA ByteIs ==
  ASSUME NEW F, IsFiniteSet(F), \A f \in F : IsField(f),
         NEW p, \A f \in F : p[f.name] \in Int,
         NEW k \in 1..Max({0} \cup {f.at + f.len : f \in F}), k \in Nat
  PROVE  ByteSums(F, p, k)
<1> DEFINE v == [f \in F |-> Put(f, p[f.name], k - 1)]
<1>0. ASSUME NEW f \in F
      PROVE  /\ Put(f, p[f.name], k - 1) \in Int
             /\ ~Covers(f, k) => Put(f, p[f.name], k - 1) = 0
  <2>1. IsField(f) /\ p[f.name] \in Int /\ k \in Int
    OBVIOUS
  <2> QED
    BY <2>1, PutInt, Zenon
<1>1. \A f \in F : Put(f, p[f.name], k - 1) \in Int
  BY <1>0, Zenon
<1>2. v \in [F -> Int]
  BY <1>1
<1>3. \A f \in F : ~Covers(f, k) => v[f] = 0
  BY <1>0
<1>v. v = [f \in F |-> Put(f, p[f.name], k - 1)] /\ \A f \in F : v[f] = Put(f, p[f.name], k - 1)
  OBVIOUS
<1> HIDE DEF v
<1>4. PICK H : Summed(F, v, H) /\ Encode(F, p)[k] = H[F]
  BY <1>1, <1>v, EncodeSum, SMTT(60)
<1>5. FewOf(F, v, H)
  BY <1>4, FewAdded, Zenon
<1>6. ASSUME NEW A, A \subseteq F, \A f \in F : Covers(f, k) => f \in A
      PROVE  H[F] = H[A]
  <2>1. \A f \in F \ A : v[f] = 0
    BY <1>3, <1>6
  <2> QED
    BY <1>4, <1>6, <2>1, ZerosOut
<1>7. ASSUME NEW x \in F, \A f \in F : Covers(f, k) => f = x
      PROVE  Encode(F, p)[k] = Put(x, p[x.name], k - 1)
  <2>1. H[F] = H[{x}]
    <3>1. {x} \subseteq F /\ \A f \in F : Covers(f, k) => f \in {x}
      BY <1>7
    <3> QED
      BY <1>6, <3>1, Zenon
  <2> QED
    BY <1>4, <1>5, <1>v, <2>1 DEF FewOf
<1>8. ASSUME NEW x \in F, NEW y \in F, x # y, \A f \in F : Covers(f, k) => f \in {x, y}
      PROVE  Encode(F, p)[k] = Put(x, p[x.name], k - 1) + Put(y, p[y.name], k - 1)
  <2>1. H[F] = H[{x, y}]
    <3>1. {x, y} \subseteq F
      OBVIOUS
    <3> QED
      BY <1>6, <1>8, <3>1, Zenon
  <2>2. H[{x, y}] = v[x] + v[y]
    BY <1>5, <1>8 DEF FewOf
  <2> QED
    BY <1>4, <1>v, <2>1, <2>2
<1>9. ASSUME NEW x \in F, NEW y \in F, NEW z \in F, x # y, y # z, x # z,
             \A f \in F : Covers(f, k) => f \in {x, y, z}
      PROVE  Encode(F, p)[k] =
               Put(x, p[x.name], k - 1) + Put(y, p[y.name], k - 1) + Put(z, p[z.name], k - 1)
  <2>1. H[F] = H[{x, y, z}]
    <3>1. {x, y, z} \subseteq F
      OBVIOUS
    <3> QED
      BY <1>6, <1>9, <3>1, Zenon
  <2>2. H[{x, y, z}] = v[x] + v[y] + v[z]
    <3>1. x # y /\ y # z /\ x # z
      BY <1>9
    <3> QED
      BY <1>5, <3>1, ZenonT(60) DEF FewOf
  <2> QED
    BY <1>4, <1>v, <2>1, <2>2
<1> QED
  BY <1>7, <1>8, <1>9 DEF ByteSums

\* Every byte is a number.
LEMMA EncodeInt ==
  ASSUME NEW F, IsFiniteSet(F), \A f \in F : IsField(f),
         NEW p, \A f \in F : p[f.name] \in Int,
         NEW k \in 1..Max({0} \cup {f.at + f.len : f \in F}), k \in Nat
  PROVE  Encode(F, p)[k] \in Int
<1> DEFINE v == [f \in F |-> Put(f, p[f.name], k - 1)]
<1>1. \A f \in F : Put(f, p[f.name], k - 1) \in Int
  <2>1. ASSUME NEW f \in F
        PROVE  Put(f, p[f.name], k - 1) \in Int
    <3>1. IsField(f) /\ p[f.name] \in Int /\ k \in Int
      OBVIOUS
    <3> QED
      BY <3>1, PutInt, Zenon
  <2> QED
    BY <2>1, Zenon
<1>2. v = [f \in F |-> Put(f, p[f.name], k - 1)]
  OBVIOUS
<1> HIDE DEF v
<1>3. PICK H : Summed(F, v, H) /\ Encode(F, p)[k] = H[F]
  BY <1>1, <1>2, EncodeSum, SMTT(60)
<1>4. Additive(F, v, H)
  BY <1>3, AnyFirst
<1> QED
  BY <1>3, <1>4 DEF Additive

\* A little-endian number is the sum over its bytes.
LEMMA NumberSum ==
  ASSUME NEW f, f.kind = "number", f.len \in 1..4, NEW raw,
         NEW S, S = 0..(f.len - 1), \A i \in S : raw[f.at + 1 + i] \in Int,
         NEW v, v = [i \in S |-> raw[f.at + 1 + i] * 256^i]
  PROVE  \E H : Summed(S, v, H) /\ Take(f, raw) = H[S]
<1> DEFINE Is(G) == G = [s \in SUBSET S |-> IF s = {} THEN 0
                           ELSE raw[f.at + 1 + First(s)] * 256^First(s) + G[s \ {First(s)}]]
<1>0. v \in [S -> Int]
  <2>1. ASSUME NEW i \in S
        PROVE  raw[f.at + 1 + i] * 256^i \in Int
    <3>1. i \in 0..4
      OBVIOUS
    <3>2. 256^i \in Int
      BY <3>1, Powers
    <3> QED
      BY <3>2
  <2> QED
    BY <2>1
<1>s. IsFiniteSet(S)
  BY FS_Interval
<1>1. PICK G \in [SUBSET S -> Int] : Adds(G, v, SUBSET S)
  BY <1>0, <1>s, SumsExist
<1>f. \A s \in SUBSET S : s # {} => First(s) \in S
  BY DEF First
<1>2. Is(G)
  BY <1>1, <1>f DEF Adds
<1>3. PICK H : H = CHOOSE K : Is(K)
  OBVIOUS
<1>4. Is(H)
  <2> HIDE DEF Is
  <2> QED
    BY <1>2, <1>3, Zenon
<1>5. H = [s \in SUBSET S |-> IF s = {} THEN 0
                           ELSE raw[f.at + 1 + First(s)] * 256^First(s) + H[s \ {First(s)}]]
  BY <1>4, Zenon
<1>6. Take(f, raw) = H[S]
  BY <1>3 DEF Take, MapThenSumSet, MapThenFoldSet, First
<1> HIDE DEF Is
<1>7. Summed(S, v, H)
  BY <1>0, <1>s, <1>5, <1>f, ZenonT(60) DEF Adds, Summed
<1> QED
  BY <1>6, <1>7

\* The bytes of a number, each with its weight, are the number.
LEMMA DigitsBack ==
  ASSUME NEW v \in Nat
  PROVE  /\ v < 256 => ((v \div 1) % 256) * 1 = v
         /\ v < 65536 => ((v \div 1) % 256) * 1 + ((v \div 256) % 256) * 256 = v
         /\ v < 16777216 =>
              ((v \div 1) % 256) * 1 + ((v \div 256) % 256) * 256
                + ((v \div 65536) % 256) * 65536 = v
         /\ v < 4294967296 =>
              ((v \div 1) % 256) * 1 + ((v \div 256) % 256) * 256
                + ((v \div 65536) % 256) * 65536 + ((v \div 16777216) % 256) * 16777216 = v
<1> DEFINE a == v \div 256
           b == v \div 65536
           c == v \div 16777216
<1>1. a \in Nat /\ b \in Nat /\ c \in Nat /\ v \div 1 = v
  BY SMT
<1>2. /\ v = (v % 256) + a * 256 /\ a = (a % 256) + b * 256 /\ b = (b % 256) + c * 256
  BY SMT
<1>3. /\ v % 256 \in 0..255 /\ a % 256 \in 0..255 /\ b % 256 \in 0..255
      /\ v < 256 => a = 0
      /\ v < 65536 => b = 0
      /\ v < 16777216 => c = 0
      /\ v < 4294967296 => c < 256
      /\ c < 256 => c % 256 = c
  BY SMT
<1>4. 0 % 256 = 0
  BY SMT
<1> HIDE DEF a, b, c
<1>5. v < 256 => ((v \div 1) % 256) * 1 = v
  BY SMT, <1>1
<1>6. v < 65536 => ((v \div 1) % 256) * 1 + (a % 256) * 256 = v
  BY SMT, <1>1, <1>2, <1>3
<1>7. v < 16777216 => ((v \div 1) % 256) * 1 + (a % 256) * 256 + (b % 256) * 65536 = v
  BY SMT, <1>1, <1>2, <1>3
<1>8. v < 4294967296 =>
        ((v \div 1) % 256) * 1 + (a % 256) * 256 + (b % 256) * 65536 + (c % 256) * 16777216 = v
  BY SMT, <1>1, <1>2, <1>3
<1> QED
  BY SMT, <1>5, <1>6, <1>7, <1>8 DEF a, b, c

\* The weights as numbers.
LEMMA Powers256 ==
  /\ 256^0 = 1 /\ 256^1 = 256 /\ 256^2 = 65536 /\ 256^3 = 16777216 /\ 256^4 = 4294967296
OBVIOUS

\* The sums over the positions of a number.
LEMMA FirstFewAdded ==
  ASSUME NEW S, NEW w, NEW H, Summed(S, w, H)
  PROVE  /\ S = {0} => H[S] = w[0]
         /\ S = {0, 1} => H[S] = w[0] + w[1]
         /\ S = {0, 1, 2} => H[S] = w[0] + w[1] + w[2]
         /\ S = {0, 1, 2, 3} => H[S] = w[0] + w[1] + w[2] + w[3]
<1>1. FewOf(S, w, H) /\ Additive(S, w, H)
  BY AnyFirst, FewAdded, Zenon
<1>2. ASSUME S = {0} PROVE H[S] = w[0]
  BY <1>1, <1>2 DEF FewOf
<1>3. ASSUME S = {0, 1} PROVE H[S] = w[0] + w[1]
  <2>1. 0 \in S /\ 1 \in S /\ 0 # 1
    BY <1>3
  <2>2. H[{0, 1}] = w[0] + w[1]
    BY <1>1, <2>1 DEF FewOf
  <2> QED
    BY <1>3, <2>2, Zenon
<1>4. ASSUME 0 \in S, 1 \in S, 2 \in S PROVE H[{0, 1, 2}] = w[0] + w[1] + w[2]
  <2>1. 0 # 1 /\ 1 # 2 /\ 0 # 2
    OBVIOUS
  <2> QED
    BY <1>1, <1>4, <2>1 DEF FewOf
<1>5. ASSUME S = {0, 1, 2} PROVE H[S] = w[0] + w[1] + w[2]
  BY <1>4, <1>5
<1>6. ASSUME S = {0, 1, 2, 3} PROVE H[S] = w[0] + w[1] + w[2] + w[3]
  <2>1. S \in SUBSET S /\ S \ {3} = {0, 1, 2} /\ 0 \in S /\ 1 \in S /\ 2 \in S /\ 3 \in S
    BY <1>6
  <2>2. H[S] = w[3] + H[{0, 1, 2}]
    BY <1>1, <2>1 DEF Additive
  <2>3. H[{0, 1, 2}] = w[0] + w[1] + w[2]
    BY <1>4, <2>1
  <2>4. w[0] \in Int /\ w[1] \in Int /\ w[2] \in Int /\ w[3] \in Int
    BY <2>1 DEF Summed
  <2> QED
    BY <2>2, <2>3, <2>4
<1> QED
  BY <1>2, <1>3, <1>5, <1>6

\* The bytes of a number, each with its weight.
LEMMA NumberTaken ==
  ASSUME NEW f, f.kind = "number", f.len \in 1..4, NEW raw,
         \A i \in 0..(f.len - 1) : raw[f.at + 1 + i] \in Int
  PROVE  LET r(i) == raw[f.at + 1 + i] IN
         /\ f.len = 1 => Take(f, raw) = r(0) * 1
         /\ f.len = 2 => Take(f, raw) = r(0) * 1 + r(1) * 256
         /\ f.len = 3 => Take(f, raw) = r(0) * 1 + r(1) * 256 + r(2) * 65536
         /\ f.len = 4 => Take(f, raw) = r(0) * 1 + r(1) * 256 + r(2) * 65536 + r(3) * 16777216
<1> DEFINE S == 0..(f.len - 1)
           w == [i \in S |-> raw[f.at + 1 + i] * 256^i]
<1>1. \A i \in S : raw[f.at + 1 + i] \in Int
  OBVIOUS
<1>2. w = [i \in S |-> raw[f.at + 1 + i] * 256^i] /\ S = 0..(f.len - 1)
  OBVIOUS
<1> HIDE DEF S, w
<1>3. PICK H : Summed(S, w, H) /\ Take(f, raw) = H[S]
  BY <1>1, <1>2, NumberSum, ZenonT(60)
<1>4. /\ S = {0} => H[S] = w[0]
      /\ S = {0, 1} => H[S] = w[0] + w[1]
      /\ S = {0, 1, 2} => H[S] = w[0] + w[1] + w[2]
      /\ S = {0, 1, 2, 3} => H[S] = w[0] + w[1] + w[2] + w[3]
  BY <1>3, FirstFewAdded
<1>5. \A i \in S : w[i] = raw[f.at + 1 + i] * 256^i
  BY <1>2, Zenon
<1>6. CASE f.len = 1
  <2>1. S = {0}
    BY <1>2, <1>6
  <2>2. 0 \in S
    BY <2>1
  <2>3. H[S] = w[0]
    BY <1>4, <2>1, Zenon
  <2>4. /\ w[0] = raw[f.at + 1 + 0] * 1
    <3>1. w[0] = raw[f.at + 1 + 0] * 256^0
      BY <1>5, <2>2, Zenon
    <3> QED
      BY <3>1, Powers256
  <2> QED
    BY <1>3, <1>6, <2>3, <2>4
<1>7. CASE f.len = 2
  <2>1. S = {0, 1}
    BY <1>2, <1>7
  <2>2. 0 \in S /\ 1 \in S
    BY <2>1
  <2>3. H[S] = w[0] + w[1]
    BY <1>4, <2>1, Zenon
  <2>4. /\ w[0] = raw[f.at + 1 + 0] * 1
        /\ w[1] = raw[f.at + 1 + 1] * 256
    <3>1. w[0] = raw[f.at + 1 + 0] * 256^0
      BY <1>5, <2>2, Zenon
    <3>2. w[1] = raw[f.at + 1 + 1] * 256^1
      BY <1>5, <2>2, Zenon
    <3> QED
      BY <3>1, <3>2, Powers256
  <2> QED
    BY <1>3, <1>7, <2>3, <2>4
<1>8. CASE f.len = 3
  <2>1. S = {0, 1, 2}
    BY <1>2, <1>8
  <2>2. 0 \in S /\ 1 \in S /\ 2 \in S
    BY <2>1
  <2>3. H[S] = w[0] + w[1] + w[2]
    BY <1>4, <2>1, Zenon
  <2>4. /\ w[0] = raw[f.at + 1 + 0] * 1
        /\ w[1] = raw[f.at + 1 + 1] * 256
        /\ w[2] = raw[f.at + 1 + 2] * 65536
    <3>1. w[0] = raw[f.at + 1 + 0] * 256^0
      BY <1>5, <2>2, Zenon
    <3>2. w[1] = raw[f.at + 1 + 1] * 256^1
      BY <1>5, <2>2, Zenon
    <3>3. w[2] = raw[f.at + 1 + 2] * 256^2
      BY <1>5, <2>2, Zenon
    <3> QED
      BY <3>1, <3>2, <3>3, Powers256
  <2> QED
    BY <1>3, <1>8, <2>3, <2>4
<1>9. CASE f.len = 4
  <2>1. S = {0, 1, 2, 3}
    BY <1>2, <1>9
  <2>2. 0 \in S /\ 1 \in S /\ 2 \in S /\ 3 \in S
    BY <2>1
  <2>3. H[S] = w[0] + w[1] + w[2] + w[3]
    BY <1>4, <2>1, Zenon
  <2>4. /\ w[0] = raw[f.at + 1 + 0] * 1
        /\ w[1] = raw[f.at + 1 + 1] * 256
        /\ w[2] = raw[f.at + 1 + 2] * 65536
        /\ w[3] = raw[f.at + 1 + 3] * 16777216
    <3>1. w[0] = raw[f.at + 1 + 0] * 256^0
      BY <1>5, <2>2, Zenon
    <3>2. w[1] = raw[f.at + 1 + 1] * 256^1
      BY <1>5, <2>2, Zenon
    <3>3. w[2] = raw[f.at + 1 + 2] * 256^2
      BY <1>5, <2>2, Zenon
    <3>4. w[3] = raw[f.at + 1 + 3] * 256^3
      BY <1>5, <2>2, Zenon
    <3> QED
      BY <3>1, <3>2, <3>3, <3>4, Powers256
  <2> QED
    BY <1>3, <1>9, <2>3, <2>4
<1> QED
  BY <1>6, <1>7, <1>8, <1>9

\* A number is read back.
LEMMA NumberBack ==
  ASSUME NEW f, f.kind = "number", f.len \in 1..4, f.at \in Nat, NEW raw,
         NEW v \in Nat, v < 256^f.len,
         \A i \in 0..(f.len - 1) : raw[f.at + 1 + i] = (v \div 256^i) % 256
  PROVE  Take(f, raw) = v
<1> DEFINE r(i) == raw[f.at + 1 + i]
<1> DEFINE q(i) == (v \div 256^i) % 256
<1>0. \A i \in 0..(f.len - 1) : r(i) = q(i)
  OBVIOUS
<1>1. f.len > 0 => r(0) = (v \div 1) % 256
  <2>1. f.len > 0 => 0 \in 0..(f.len - 1)
    OBVIOUS
  <2>2. f.len > 0 => r(0) = q(0)
    <3> HIDE DEF q, r
    <3> QED
      BY <1>0, <2>1, Zenon
  <2>3. q(0) = (v \div 1) % 256
    BY Powers256, SMT
  <2> HIDE DEF q, r
  <2> QED
    BY <2>2, <2>3, SMT
<1>2. f.len > 1 => r(1) = (v \div 256) % 256
  <2>1. f.len > 1 => 1 \in 0..(f.len - 1)
    OBVIOUS
  <2>2. f.len > 1 => r(1) = q(1)
    <3> HIDE DEF q, r
    <3> QED
      BY <1>0, <2>1, Zenon
  <2>3. q(1) = (v \div 256) % 256
    BY Powers256, SMT
  <2> HIDE DEF q, r
  <2> QED
    BY <2>2, <2>3, SMT
<1>3. f.len > 2 => r(2) = (v \div 65536) % 256
  <2>1. f.len > 2 => 2 \in 0..(f.len - 1)
    OBVIOUS
  <2>2. f.len > 2 => r(2) = q(2)
    <3> HIDE DEF q, r
    <3> QED
      BY <1>0, <2>1, Zenon
  <2>3. q(2) = (v \div 65536) % 256
    BY Powers256, SMT
  <2> HIDE DEF q, r
  <2> QED
    BY <2>2, <2>3, SMT
<1>4. f.len > 3 => r(3) = (v \div 16777216) % 256
  <2>1. f.len > 3 => 3 \in 0..(f.len - 1)
    OBVIOUS
  <2>2. f.len > 3 => r(3) = q(3)
    <3> HIDE DEF q, r
    <3> QED
      BY <1>0, <2>1, Zenon
  <2>3. q(3) = (v \div 16777216) % 256
    BY Powers256, SMT
  <2> HIDE DEF q, r
  <2> QED
    BY <2>2, <2>3, SMT
<1>5. /\ f.len = 1 => v < 256
      /\ f.len = 2 => v < 65536
      /\ f.len = 3 => v < 16777216
      /\ f.len = 4 => v < 4294967296
  <2>1. f.len = 1 => 256^f.len = 256
    BY Powers256
  <2>2. f.len = 2 => 256^f.len = 65536
    BY Powers256
  <2>3. f.len = 3 => 256^f.len = 16777216
    BY Powers256
  <2>4. f.len = 4 => 256^f.len = 4294967296
    BY Powers256
  <2> QED
    BY <2>1, <2>2, <2>3, <2>4
<1>6. /\ (v \div 1) % 256 \in Int /\ (v \div 256) % 256 \in Int
      /\ (v \div 65536) % 256 \in Int /\ (v \div 16777216) % 256 \in Int
  BY SMT
<1>7. \A i \in 0..(f.len - 1) : r(i) \in Int
  <2> SUFFICES ASSUME NEW i \in 0..(f.len - 1)
               PROVE  r(i) \in Int
    OBVIOUS
  <2>1. (i = 0 \/ i = 1 \/ i = 2 \/ i = 3) /\ f.len > i
    OBVIOUS
  <2> HIDE DEF r
  <2>2. (i = 0 => r(0) \in Int) /\ (i = 1 => r(1) \in Int)
        /\ (i = 2 => r(2) \in Int) /\ (i = 3 => r(3) \in Int)
    BY <1>1, <1>2, <1>3, <1>4, <1>6, <2>1
  <2> QED
    BY <2>1, <2>2, Zenon
<1>8. /\ f.len = 1 => Take(f, raw) = r(0) * 1
      /\ f.len = 2 => Take(f, raw) = r(0) * 1 + r(1) * 256
      /\ f.len = 3 => Take(f, raw) = r(0) * 1 + r(1) * 256 + r(2) * 65536
      /\ f.len = 4 => Take(f, raw) = r(0) * 1 + r(1) * 256 + r(2) * 65536 + r(3) * 16777216
  BY <1>7, NumberTaken
<1> HIDE DEF r
<1>9. CASE f.len = 1
  BY <1>1, <1>5, <1>8, <1>9, DigitsBack
<1>10. CASE f.len = 2
  BY <1>1, <1>2, <1>5, <1>8, <1>10, DigitsBack
<1>11. CASE f.len = 3
  BY <1>1, <1>2, <1>3, <1>5, <1>8, <1>11, DigitsBack
<1>12. CASE f.len = 4
  <2>1. Take(f, raw) = ((v \div 1) % 256) * 1 + ((v \div 256) % 256) * 256
          + ((v \div 65536) % 256) * 65536 + ((v \div 16777216) % 256) * 16777216
    BY <1>1, <1>2, <1>3, <1>4, <1>8, <1>12
  <2>2. v < 4294967296
    BY <1>5, <1>12
  <2> QED
    BY <2>1, <2>2, DigitsBack
<1> QED
  BY <1>9, <1>10, <1>11, <1>12

-----------------------------------------------------------------------------
(* The ways in which the fields of a class are laid out.                   *)

\* How many bytes a list of fields has.
Size(F) == Max({0} \cup {f.at + f.len : f \in F})

\* What a field has room for.
IsValue(f, v) ==
  CASE f.kind = "bits" -> v \in Nat /\ v < 2^f.width
    [] f.kind = "number" -> v \in Nat /\ v < 256^f.len
    [] f.kind = "margin" -> v \in -32..31

Values(F) == {p \in [Names(F) -> Int] : \A f \in F : IsValue(f, p[f.name])}

\* No byte of one is a byte of the other.
Apart(f, g) == f.at + f.len <= g.at \/ g.at + g.len <= f.at

\* A field that has its bytes for itself, and two or three that share a byte.
Alone(F, f) ==
  /\ \A g \in F : g = f \/ Apart(f, g)
  /\ f.kind = "bits" => f.low = 0 /\ f.len = 1
  /\ f.kind = "margin" => f.len = 1

Pair(F, f, g) ==
  /\ f # g /\ f.at = g.at /\ f.len = 1 /\ g.len = 1
  /\ \A h \in F : h = f \/ h = g \/ Apart(f, h)
  /\ f.kind = "bits" /\ g.kind = "bits"
  /\ <<f.low, f.width, g.low, g.width>> \in {<<0, 1, 1, 1>>, <<0, 4, 4, 4>>, <<0, 4, 4, 3>>}

Triple(F, f, g, h) ==
  /\ f # g /\ g # h /\ f # h /\ f.at = g.at /\ f.at = h.at
  /\ f.len = 1 /\ g.len = 1 /\ h.len = 1
  /\ \A e \in F : e = f \/ e = g \/ e = h \/ Apart(f, e)
  /\ f.kind = "bits" /\ g.kind = "bits" /\ h.kind = "bits"
  /\ <<f.low, f.width, g.low, g.width, h.low, h.width>> \in
       {<<0, 1, 1, 1, 2, 1>>, <<0, 4, 4, 1, 5, 1>>}

\* A list of fields of n bytes.
Fills(F, n) ==
  n \in Nat /\ IsFiniteSet(F) /\ Size(F) = n /\ \A f \in F : IsField(f) /\ f.at + f.len <= n

\* The powers as numbers.
LEMMA PowersOf2 ==
  /\ 2^0 = 1 /\ 2^1 = 2 /\ 2^2 = 4 /\ 2^3 = 8 /\ 2^4 = 16 /\ 2^5 = 32 /\ 2^6 = 64 /\ 2^7 = 128
  /\ 2^8 = 256
OBVIOUS

\* The bytes that a field has for itself or shares.
LEMMA BytesOf ==
  ASSUME NEW F, NEW n, Fills(F, n), NEW p, \A f \in F : p[f.name] \in Int
  PROVE  /\ \A f \in F : Alone(F, f) => \A i \in 0..(f.len - 1) :
              Encode(F, p)[f.at + 1 + i] = Put(f, p[f.name], f.at + i)
         /\ \A f, g \in F : Pair(F, f, g) =>
              Encode(F, p)[f.at + 1] = Put(f, p[f.name], f.at) + Put(g, p[g.name], f.at)
         /\ \A f, g, h \in F : Triple(F, f, g, h) =>
              Encode(F, p)[f.at + 1] =
                Put(f, p[f.name], f.at) + Put(g, p[g.name], f.at) + Put(h, p[h.name], f.at)
<1> IsFiniteSet(F) /\ \A f \in F : IsField(f)
  BY DEF Fills
<1> DEFINE Part(f, k) == Put(f, p[f.name], k - 1)
<1>1. ASSUME NEW k \in Nat, NEW f \in F, Covers(f, k)
      PROVE  k \in 1..Max({0} \cup {e.at + e.len : e \in F})
  <2>1. n \in Nat /\ Size(F) = n /\ f.at + f.len <= n /\ IsField(f)
    BY DEF Fills
  <2>2. n = Max({0} \cup {e.at + e.len : e \in F})
    BY <2>1 DEF Size
  <2>3. k \in 1..n
    BY <1>1, <2>1 DEF Covers, IsField
  <2> QED
    BY <2>2, <2>3, Zenon
<1>2. ASSUME NEW k \in Nat, NEW f \in F, Covers(f, k)
      PROVE  /\ (\A e \in F : Covers(e, k) => e = f) => Encode(F, p)[k] = Part(f, k)
             /\ \A g \in F : f # g /\ (\A e \in F : Covers(e, k) => e \in {f, g}) =>
                  Encode(F, p)[k] = Part(f, k) + Part(g, k)
             /\ \A g, h \in F :
                  f # g /\ g # h /\ f # h /\ (\A e \in F : Covers(e, k) => e \in {f, g, h}) =>
                    Encode(F, p)[k] = Part(f, k) + Part(g, k) + Part(h, k)
  <2>1. ByteSums(F, p, k)
    BY <1>1, <1>2, ByteIs
  <2> QED
    BY <2>1, <1>2 DEF ByteSums
<1> HIDE DEF Part
<1>3. ASSUME NEW f \in F, Alone(F, f), NEW i \in 0..(f.len - 1)
      PROVE  Encode(F, p)[f.at + 1 + i] = Put(f, p[f.name], f.at + i)
  <2> DEFINE k == f.at + 1 + i
  <2>1. k \in Nat /\ Covers(f, k) /\ k - 1 = f.at + i
    BY DEF Covers, IsField
  <2>2. \A e \in F : Covers(e, k) => e = f
    BY <1>3, <2>1 DEF Alone, Apart, Covers, IsField
  <2> HIDE DEF k
  <2>3. Encode(F, p)[k] = Part(f, k)
    BY <1>2, <2>1, <2>2
  <2> QED
    BY <2>1, <2>3 DEF Part, k
<1>4. ASSUME NEW f \in F, NEW g \in F, Pair(F, f, g)
      PROVE  Encode(F, p)[f.at + 1] = Put(f, p[f.name], f.at) + Put(g, p[g.name], f.at)
  <2> DEFINE k == f.at + 1
  <2>1. k \in Nat /\ Covers(f, k) /\ k - 1 = f.at
    BY <1>4 DEF Covers, IsField, Pair
  <2>2. \A e \in F : Covers(e, k) => e \in {f, g}
    BY <1>4, <2>1 DEF Pair, Apart, Covers, IsField
  <2>3. f # g
    BY <1>4 DEF Pair
  <2> HIDE DEF k
  <2>4. Encode(F, p)[k] = Part(f, k) + Part(g, k)
    BY <1>2, <2>1, <2>2, <2>3
  <2> QED
    BY <2>1, <2>4 DEF Part, k
<1>5. ASSUME NEW f \in F, NEW g \in F, NEW h \in F, Triple(F, f, g, h)
      PROVE  Encode(F, p)[f.at + 1] =
               Put(f, p[f.name], f.at) + Put(g, p[g.name], f.at) + Put(h, p[h.name], f.at)
  <2> DEFINE k == f.at + 1
  <2>1. k \in Nat /\ Covers(f, k) /\ k - 1 = f.at
    BY <1>5 DEF Covers, IsField, Triple
  <2>2. \A e \in F : Covers(e, k) => e \in {f, g, h}
    BY <1>5, <2>1 DEF Triple, Apart, Covers, IsField
  <2>3. f # g /\ g # h /\ f # h
    BY <1>5 DEF Triple
  <2> HIDE DEF k
  <2>4. Encode(F, p)[k] = Part(f, k) + Part(g, k) + Part(h, k)
    BY <1>2, <2>1, <2>2, <2>3
  <2> QED
    BY <2>1, <2>4 DEF Part, k
<1> QED
  BY <1>3, <1>4, <1>5

\* A field that has its bytes for itself is read back.
LEMMA AloneBack ==
  ASSUME NEW F, NEW n, Fills(F, n), NEW p \in Values(F), NEW f \in F, Alone(F, f),
         f.kind = "margin" => p[f.name] # 0
  PROVE  Take(f, Encode(F, p)) = p[f.name]
<1> DEFINE v == p[f.name]
           raw == Encode(F, p)
<1>1. /\ \A g \in F : p[g.name] \in Int
      /\ IsValue(f, v)
  BY DEF Values, Names
<1>2. IsField(f) /\ v \in Int
  BY <1>1 DEF Fills
<1>3. \A i \in 0..(f.len - 1) : raw[f.at + 1 + i] = Put(f, v, f.at + i)
  BY <1>1, BytesOf
<1> HIDE DEF v, raw
<1>4. ASSUME f.kind = "bits" \/ f.kind = "margin"
      PROVE  f.len = 1 /\ raw[f.at + 1] = Put(f, v, f.at)
  <2>1. f.len = 1 /\ 0 \in 0..(f.len - 1)
    BY <1>4 DEF Alone
  <2>2. f.at + 1 + 0 = f.at + 1 /\ f.at + 0 = f.at
    BY <1>2 DEF IsField
  <2> QED
    BY <1>3, <2>1, <2>2
<1>5. CASE f.kind = "bits"
  <2> DEFINE m == 2^f.width
  <2>1. f.low = 0 /\ f.len = 1 /\ f.width \in 0..8 /\ f.at \in Nat
    BY <1>2, <1>5 DEF Alone, IsField
  <2>2. m \in Nat \ {0}
    <3>1. f.width \in 0..8
      BY <2>1
    <3> QED
      BY <3>1, PowerOf2, Zenon
  <2>3. 2^f.low = 1
    BY <2>1, PowersOf2
  <2>4. v \in Nat /\ v < m
    BY <1>1, <1>5 DEF IsValue
  <2>5. Put(f, v, f.at) = (v % m) * 1
    BY <1>5, <2>1, <2>3 DEF Put
  <2>6. Take(f, raw) = (raw[f.at + 1] \div 1) % m
    BY <1>5, <2>3 DEF Take
  <2> HIDE DEF m
  <2>7. (((v % m) * 1) \div 1) % m = v
    BY SMT, <2>2, <2>4
  <2> QED
    BY <1>4, <1>5, <2>5, <2>6, <2>7 DEF v, raw
<1>6. CASE f.kind = "number"
  <2>1. v \in Nat /\ v < 256^f.len
    BY <1>1, <1>6 DEF IsValue
  <2>2. ASSUME NEW i \in 0..(f.len - 1)
        PROVE  raw[f.at + 1 + i] = (v \div 256^i) % 256
    <3>1. (f.at + i) - f.at = i /\ f.at + i \in f.at..(f.at + f.len - 1)
      BY <1>2 DEF IsField
    <3>2. Put(f, v, f.at + i) = (v \div 256^((f.at + i) - f.at)) % 256
      BY <1>6, <3>1 DEF Put
    <3> QED
      BY <1>3, <3>1, <3>2
  <2>3. f.len \in 1..4 /\ f.at \in Nat
    BY <1>2 DEF IsField
  <2>4. Take(f, raw) = v
    BY <1>6, <2>1, <2>2, <2>3, NumberBack
  <2> QED
    BY <2>4 DEF v, raw
<1>7. CASE f.kind = "margin"
  <2>1. v \in -32..31 /\ v # 0 /\ f.at \in Nat
    BY <1>1, <1>2, <1>7 DEF IsValue, IsField, v
  <2>2. Put(f, v, f.at) = IF v > 0 THEN v % 32 ELSE ((-v - 1) % 32) + 32
    BY <1>4, <1>7, <2>1 DEF Put
  <2>3. Take(f, raw) = IF (raw[f.at + 1] \div 32) % 2 = 1
                       THEN -(raw[f.at + 1] % 32) - 1 ELSE raw[f.at + 1] % 32
    BY <1>7 DEF Take
  <2>4. CASE v > 0
    <3>1. v % 32 = v /\ (v \div 32) % 2 = 0
      BY SMT, <2>1, <2>4
    <3> QED
      BY SMT, <1>4, <1>7, <2>2, <2>3, <2>4, <3>1 DEF v, raw
  <2>5. CASE v < 0
    <3> DEFINE b == ((-v - 1) % 32) + 32
    <3>1. b % 32 = -v - 1 /\ (b \div 32) % 2 = 1 /\ -(-v - 1) - 1 = v
      BY SMT, <2>1, <2>5
    <3> QED
      BY SMT, <1>4, <1>7, <2>1, <2>2, <2>3, <2>5, <3>1 DEF v, raw
  <2> QED
    BY <2>1, <2>4, <2>5
<1> QED
  BY <1>2, <1>5, <1>6, <1>7 DEF IsField

\* The arithmetic of a shared byte.
LEMMA SharedByte ==
  /\ \A a, b \in 0..1 :
       LET byte == (a % 2) * 1 + (b % 2) * 2 IN
       (byte \div 1) % 2 = a /\ (byte \div 2) % 2 = b
  /\ \A a \in 0..15, b \in 0..15 :
       LET byte == (a % 16) * 1 + (b % 16) * 16 IN
       (byte \div 1) % 16 = a /\ (byte \div 16) % 16 = b
  /\ \A a \in 0..15, b \in 0..7 :
       LET byte == (a % 16) * 1 + (b % 8) * 16 IN
       (byte \div 1) % 16 = a /\ (byte \div 16) % 8 = b
  /\ \A a, b, c \in 0..1 :
       LET byte == (a % 2) * 1 + (b % 2) * 2 + (c % 2) * 4 IN
       (byte \div 1) % 2 = a /\ (byte \div 2) % 2 = b /\ (byte \div 4) % 2 = c
  /\ \A a \in 0..15, b, c \in 0..1 :
       LET byte == (a % 16) * 1 + (b % 2) * 16 + (c % 2) * 32 IN
       (byte \div 1) % 16 = a /\ (byte \div 16) % 2 = b /\ (byte \div 32) % 2 = c
BY SMT

\* So are two that share a byte.
LEMMA PairBack ==
  ASSUME NEW F, NEW n, Fills(F, n), NEW p \in Values(F), NEW f \in F, NEW g \in F, Pair(F, f, g)
  PROVE  Take(f, Encode(F, p)) = p[f.name] /\ Take(g, Encode(F, p)) = p[g.name]
<1> DEFINE v == p[f.name]
           w == p[g.name]
           raw == Encode(F, p)
<1>1. /\ \A e \in F : p[e.name] \in Int
      /\ IsValue(f, v) /\ IsValue(g, w)
  BY DEF Values, Names
<1>2. IsField(f) /\ IsField(g)
  BY DEF Fills
<1>3. raw[f.at + 1] = Put(f, v, f.at) + Put(g, w, f.at)
  BY <1>1, BytesOf
<1> HIDE DEF v, w, raw
<1>4. /\ f.at = g.at /\ f.len = 1 /\ g.len = 1 /\ f.kind = "bits" /\ g.kind = "bits"
      /\ f.at \in Nat /\ f.low = 0
  BY <1>2 DEF Pair, IsField
<1>5. f.at \in f.at..(f.at + f.len - 1) /\ f.at \in g.at..(g.at + g.len - 1)
  BY <1>4
<1>6. /\ Put(f, v, f.at) = (v % 2^f.width) * 2^f.low
      /\ Put(g, w, f.at) = (w % 2^g.width) * 2^g.low
  BY <1>4, <1>5 DEF Put
<1>7. /\ Take(f, raw) = (raw[f.at + 1] \div 2^f.low) % 2^f.width
      /\ Take(g, raw) = (raw[f.at + 1] \div 2^g.low) % 2^g.width
  BY <1>4 DEF Take
<1>8. v \in Nat /\ v < 2^f.width /\ w \in Nat /\ w < 2^g.width
  BY <1>1, <1>4 DEF IsValue
<1>9. CASE f.width = 1 /\ g.low = 1 /\ g.width = 1
  <2>1. 2^f.low = 1 /\ 2^f.width = 2 /\ 2^g.low = 2 /\ 2^g.width = 2
    BY <1>4, <1>9, PowersOf2
  <2>2. raw[f.at + 1] = (v % 2) * 1 + (w % 2) * 2
    BY <1>3, <1>6, <2>1
  <2>3. v \in 0..1 /\ w \in 0..1
    BY <1>8, <2>1
  <2>4. /\ (((v % 2) * 1 + (w % 2) * 2) \div 1) % 2 = v
        /\ (((v % 2) * 1 + (w % 2) * 2) \div 2) % 2 = w
    BY SMT, <2>3, SharedByte
  <2> QED
    BY <1>7, <2>1, <2>2, <2>4 DEF v, w, raw
<1>10. CASE f.width = 4 /\ g.low = 4 /\ g.width = 4
  <2>1. 2^f.low = 1 /\ 2^f.width = 16 /\ 2^g.low = 16 /\ 2^g.width = 16
    BY <1>4, <1>10, PowersOf2
  <2>2. raw[f.at + 1] = (v % 16) * 1 + (w % 16) * 16
    BY <1>3, <1>6, <2>1
  <2>3. v \in 0..15 /\ w \in 0..15
    BY <1>8, <2>1
  <2>4. /\ (((v % 16) * 1 + (w % 16) * 16) \div 1) % 16 = v
        /\ (((v % 16) * 1 + (w % 16) * 16) \div 16) % 16 = w
    BY SMT, <2>3, SharedByte
  <2> QED
    BY <1>7, <2>1, <2>2, <2>4 DEF v, w, raw
<1>11. CASE f.width = 4 /\ g.low = 4 /\ g.width = 3
  <2>1. 2^f.low = 1 /\ 2^f.width = 16 /\ 2^g.low = 16 /\ 2^g.width = 8
    BY <1>4, <1>11, PowersOf2
  <2>2. raw[f.at + 1] = (v % 16) * 1 + (w % 8) * 16
    BY <1>3, <1>6, <2>1
  <2>3. v \in 0..15 /\ w \in 0..7
    BY <1>8, <2>1
  <2>4. /\ (((v % 16) * 1 + (w % 8) * 16) \div 1) % 16 = v
        /\ (((v % 16) * 1 + (w % 8) * 16) \div 16) % 8 = w
    BY SMT, <2>3, SharedByte
  <2> QED
    BY <1>7, <2>1, <2>2, <2>4 DEF v, w, raw
<1> QED
  BY <1>9, <1>10, <1>11 DEF Pair

\* So are three.
LEMMA TripleBack ==
  ASSUME NEW F, NEW n, Fills(F, n), NEW p \in Values(F),
         NEW f \in F, NEW g \in F, NEW h \in F, Triple(F, f, g, h)
  PROVE  /\ Take(f, Encode(F, p)) = p[f.name] /\ Take(g, Encode(F, p)) = p[g.name]
         /\ Take(h, Encode(F, p)) = p[h.name]
<1> DEFINE v == p[f.name]
           w == p[g.name]
           u == p[h.name]
           raw == Encode(F, p)
<1>1. /\ \A e \in F : p[e.name] \in Int
      /\ IsValue(f, v) /\ IsValue(g, w) /\ IsValue(h, u)
  BY DEF Values, Names
<1>2. IsField(f) /\ IsField(g) /\ IsField(h)
  BY DEF Fills
<1>3. raw[f.at + 1] = Put(f, v, f.at) + Put(g, w, f.at) + Put(h, u, f.at)
  BY <1>1, BytesOf
<1> HIDE DEF v, w, u, raw
<1>4. /\ f.at = g.at /\ f.at = h.at /\ f.len = 1 /\ g.len = 1 /\ h.len = 1
      /\ f.kind = "bits" /\ g.kind = "bits" /\ h.kind = "bits"
      /\ f.at \in Nat /\ f.low = 0
  BY <1>2 DEF Triple, IsField
<1>5. /\ f.at \in f.at..(f.at + f.len - 1) /\ f.at \in g.at..(g.at + g.len - 1)
      /\ f.at \in h.at..(h.at + h.len - 1)
  BY <1>4
<1>6. /\ Put(f, v, f.at) = (v % 2^f.width) * 2^f.low
      /\ Put(g, w, f.at) = (w % 2^g.width) * 2^g.low
      /\ Put(h, u, f.at) = (u % 2^h.width) * 2^h.low
  BY <1>4, <1>5 DEF Put
<1>7. /\ Take(f, raw) = (raw[f.at + 1] \div 2^f.low) % 2^f.width
      /\ Take(g, raw) = (raw[f.at + 1] \div 2^g.low) % 2^g.width
      /\ Take(h, raw) = (raw[f.at + 1] \div 2^h.low) % 2^h.width
  BY <1>4 DEF Take
<1>8. /\ v \in Nat /\ v < 2^f.width /\ w \in Nat /\ w < 2^g.width
      /\ u \in Nat /\ u < 2^h.width
  BY <1>1, <1>4 DEF IsValue
<1>9. CASE f.width = 1 /\ g.low = 1 /\ g.width = 1 /\ h.low = 2 /\ h.width = 1
  <2>1. /\ 2^f.low = 1 /\ 2^f.width = 2 /\ 2^g.low = 2 /\ 2^g.width = 2
        /\ 2^h.low = 4 /\ 2^h.width = 2
    BY <1>4, <1>9, PowersOf2
  <2>2. raw[f.at + 1] = (v % 2) * 1 + (w % 2) * 2 + (u % 2) * 4
    BY <1>3, <1>6, <2>1
  <2>3. v \in 0..1 /\ w \in 0..1 /\ u \in 0..1
    BY <1>8, <2>1
  <2>4. /\ (((v % 2) * 1 + (w % 2) * 2 + (u % 2) * 4) \div 1) % 2 = v
        /\ (((v % 2) * 1 + (w % 2) * 2 + (u % 2) * 4) \div 2) % 2 = w
        /\ (((v % 2) * 1 + (w % 2) * 2 + (u % 2) * 4) \div 4) % 2 = u
    BY SMT, <2>3, SharedByte
  <2> QED
    BY <1>7, <2>1, <2>2, <2>4 DEF v, w, u, raw
<1>10. CASE f.width = 4 /\ g.low = 4 /\ g.width = 1 /\ h.low = 5 /\ h.width = 1
  <2>1. /\ 2^f.low = 1 /\ 2^f.width = 16 /\ 2^g.low = 16 /\ 2^g.width = 2
        /\ 2^h.low = 32 /\ 2^h.width = 2
    BY <1>4, <1>10, PowersOf2
  <2>2. raw[f.at + 1] = (v % 16) * 1 + (w % 2) * 16 + (u % 2) * 32
    BY <1>3, <1>6, <2>1
  <2>3. v \in 0..15 /\ w \in 0..1 /\ u \in 0..1
    BY <1>8, <2>1
  <2>4. /\ (((v % 16) * 1 + (w % 2) * 16 + (u % 2) * 32) \div 1) % 16 = v
        /\ (((v % 16) * 1 + (w % 2) * 16 + (u % 2) * 32) \div 16) % 2 = w
        /\ (((v % 16) * 1 + (w % 2) * 16 + (u % 2) * 32) \div 32) % 2 = u
    BY SMT, <2>3, SharedByte
  <2> QED
    BY <1>7, <2>1, <2>2, <2>4 DEF v, w, u, raw
<1> QED
  BY <1>9, <1>10 DEF Triple

\* A layout as every class of commands has one.
Laid(F, n) ==
  /\ Fills(F, n)
  /\ \A f, g \in F : f.name = g.name => f = g
  /\ \A f \in F :
       \/ Alone(F, f)
       \/ \E g \in F : Pair(F, f, g) \/ Pair(F, g, f)
       \/ \E g, h \in F : Triple(F, f, g, h) \/ Triple(F, g, f, h) \/ Triple(F, g, h, f)

\* What generate() writes, parse() reads.
LEMMA LaidBack ==
  ASSUME NEW F, NEW n, Laid(F, n), NEW p \in Values(F),
         \A f \in F : f.kind = "margin" => p[f.name] # 0
  PROVE  Decode(F, Encode(F, p)) = p
<1> DEFINE raw == Encode(F, p)
<1>1. ASSUME NEW f \in F
      PROVE  Take(f, raw) = p[f.name]
  <2>0. Fills(F, n)
    BY DEF Laid
  <2>1. CASE Alone(F, f)
    BY <2>0, <2>1, AloneBack
  <2>2. CASE \E g \in F : Pair(F, f, g) \/ Pair(F, g, f)
    BY <2>0, <2>2, PairBack
  <2>3. CASE \E g, h \in F : Triple(F, f, g, h) \/ Triple(F, g, f, h) \/ Triple(F, g, h, f)
    BY <2>0, <2>3, TripleBack
  <2> QED
    BY <2>1, <2>2, <2>3 DEF Laid
<1> HIDE DEF raw
<1>2. ASSUME NEW x \in Names(F)
      PROVE  Take(CHOOSE f \in F : f.name = x, raw) = p[x]
  <2>1. PICK f \in F : f.name = x
    BY DEF Names
  <2>2. f = CHOOSE e \in F : e.name = x
    BY <2>1 DEF Laid
  <2> QED
    BY <1>1, <2>1, <2>2
<1>3. p = [x \in Names(F) |-> p[x]]
  BY DEF Values
<1> QED
  BY <1>2, <1>3 DEF Decode, raw

-----------------------------------------------------------------------------
(* The classes are laid out.                                               *)

\* Sets of up to five elements are finite.
LEMMA FewFinite ==
  /\ IsFiniteSet({})
  /\ \A a, b, c, d, e : /\ IsFiniteSet({a}) /\ IsFiniteSet({a, b}) /\ IsFiniteSet({a, b, c})
       /\ IsFiniteSet({a, b, c, d}) /\ IsFiniteSet({a, b, c, d, e})
<1>1. ASSUME NEW a, NEW b, NEW c, NEW d, NEW e
      PROVE /\ IsFiniteSet({a}) /\ IsFiniteSet({a, b}) /\ IsFiniteSet({a, b, c})
            /\ IsFiniteSet({a, b, c, d}) /\ IsFiniteSet({a, b, c, d, e})
  <2>1. IsFiniteSet({a})
    BY FS_Singleton
  <2>2. IsFiniteSet({a} \cup {b})
    BY <2>1, FS_AddElement
  <2>3. IsFiniteSet(({a} \cup {b}) \cup {c})
    BY <2>2, FS_AddElement
  <2>4. IsFiniteSet((({a} \cup {b}) \cup {c}) \cup {d})
    BY <2>3, FS_AddElement
  <2>5. IsFiniteSet(((({a} \cup {b}) \cup {c}) \cup {d}) \cup {e})
    BY <2>4, FS_AddElement
  <2>6. /\ {a} \cup {b} = {a, b} /\ ({a} \cup {b}) \cup {c} = {a, b, c}
        /\ (({a} \cup {b}) \cup {c}) \cup {d} = {a, b, c, d}
        /\ ((({a} \cup {b}) \cup {c}) \cup {d}) \cup {e} = {a, b, c, d, e}
    OBVIOUS
  <2> QED
    BY <2>1, <2>2, <2>3, <2>4, <2>5, <2>6, Zenon
<1> QED
  BY <1>1, FS_EmptySet, Zenon

\* The size is where the last field ends.
LEMMA SizeIs ==
  ASSUME NEW F, NEW n \in Nat, \A f \in F : f.at + f.len \in Nat /\ f.at + f.len <= n,
         n = 0 \/ \E f \in F : f.at + f.len = n
  PROVE  Size(F) = n
<1> DEFINE T == {0} \cup {f.at + f.len : f \in F}
<1>1. n \in T /\ T \subseteq Nat /\ \A y \in T : n >= y
  OBVIOUS
<1> HIDE DEF T
<1>2. \A x \in T : (\A y \in T : x >= y) => x = n
  BY <1>1
<1>3. Max(T) = n
  BY <1>1, <1>2 DEF Max
<1> QED
  BY <1>3 DEF Size, T

\* parse() and generate() of the class agree on its fields, and SIZE is that of
\* their bytes.
LaidOut(class) == class.parsed = class.generated /\ Laid(class.generated, class.SIZE)

\* A class without fields is.
LEMMA BareLaid ==
  ASSUME NEW name, NEW cid
  PROVE  LaidOut(Bare(name, cid))
<1>1. Fills({}, 0)
  <2>1. IsFiniteSet({}) /\ Size({}) = 0
    BY FewFinite, SizeIs
  <2> QED
    BY <2>1 DEF Fills
<1>2. Laid({}, 0)
  BY <1>1 DEF Laid
<1> QED
  BY <1>2 DEF LaidOut, Bare, Class

\* So is every class but PingSlotChannelReq, each by its fields.
LEMMA LinkADRAnsLaid == LaidOut(LinkADRAns)
<1> DEFINE a == Bits("channel_mask_ack", 0, 0, 1)
           b == Bits("datarate_ack", 0, 1, 1)
           c == Bits("power_ack", 0, 2, 1)
           F == {a, b, c}
<1>1. LinkADRAns.parsed = F /\ LinkADRAns.generated = F /\ LinkADRAns.SIZE = 1
  BY DEF LinkADRAns, Class
<1>2. /\ a.name = "channel_mask_ack" /\ a.kind = "bits"
      /\ a.at = 0 /\ a.len = 1 /\ a.low = 0 /\ a.width = 1
      /\ b.name = "datarate_ack" /\ b.kind = "bits"
      /\ b.at = 0 /\ b.len = 1 /\ b.low = 1 /\ b.width = 1
      /\ c.name = "power_ack" /\ c.kind = "bits"
      /\ c.at = 0 /\ c.len = 1 /\ c.low = 2 /\ c.width = 1
  BY DEF Bits
<1> HIDE DEF a, b, c
<1>3. Fills(F, 1)
  <2>1. \A f \in F : IsField(f) /\ f.at + f.len <= 1
    BY <1>2 DEF IsField
  <2>2. IsFiniteSet(F)
    BY FewFinite, Zenon
  <2>3. Size(F) = 1
    BY <1>2, SizeIs
  <2> QED
    BY <2>1, <2>2, <2>3 DEF Fills
<1>4. Triple(F, a, b, c)
  BY <1>2 DEF Triple, Apart
<1>5. \A f, g \in F : f.name = g.name => f = g
  BY <1>2
<1> QED
  BY <1>1, <1>3, <1>4, <1>5 DEF Laid, LaidOut

LEMMA RXParamSetupAnsLaid == LaidOut(RXParamSetupAns)
<1> DEFINE a == Bits("channel_ack", 0, 0, 1)
           b == Bits("rx2_datarate_ack", 0, 1, 1)
           c == Bits("rx1_datarate_offset_ack", 0, 2, 1)
           F == {a, b, c}
<1>1. RXParamSetupAns.parsed = F /\ RXParamSetupAns.generated = F /\ RXParamSetupAns.SIZE = 1
  BY DEF RXParamSetupAns, Class
<1>2. /\ a.name = "channel_ack" /\ a.kind = "bits"
      /\ a.at = 0 /\ a.len = 1 /\ a.low = 0 /\ a.width = 1
      /\ b.name = "rx2_datarate_ack" /\ b.kind = "bits"
      /\ b.at = 0 /\ b.len = 1 /\ b.low = 1 /\ b.width = 1
      /\ c.name = "rx1_datarate_offset_ack" /\ c.kind = "bits"
      /\ c.at = 0 /\ c.len = 1 /\ c.low = 2 /\ c.width = 1
  BY DEF Bits
<1> HIDE DEF a, b, c
<1>3. Fills(F, 1)
  <2>1. \A f \in F : IsField(f) /\ f.at + f.len <= 1
    BY <1>2 DEF IsField
  <2>2. IsFiniteSet(F)
    BY FewFinite, Zenon
  <2>3. Size(F) = 1
    BY <1>2, SizeIs
  <2> QED
    BY <2>1, <2>2, <2>3 DEF Fills
<1>4. Triple(F, a, b, c)
  BY <1>2 DEF Triple, Apart
<1>5. \A f, g \in F : f.name = g.name => f = g
  BY <1>2
<1> QED
  BY <1>1, <1>3, <1>4, <1>5 DEF Laid, LaidOut

LEMMA DevStatusAnsLaid == LaidOut(DevStatusAns)
<1> DEFINE a == Bits("battery", 0, 0, 8)
           b == Margin("margin", 1)
           F == {a, b}
<1>1. DevStatusAns.parsed = F /\ DevStatusAns.generated = F /\ DevStatusAns.SIZE = 2
  BY DEF DevStatusAns, Plain, Class
<1>2. /\ a.name = "battery" /\ a.kind = "bits"
      /\ a.at = 0 /\ a.len = 1 /\ a.low = 0 /\ a.width = 8
      /\ b.name = "margin" /\ b.kind = "margin"
      /\ b.at = 1 /\ b.len = 1 /\ b.low = 0 /\ b.width = 6
  BY DEF Bits, Margin
<1> HIDE DEF a, b
<1>3. Fills(F, 2)
  <2>1. \A f \in F : IsField(f) /\ f.at + f.len <= 2
    BY <1>2 DEF IsField
  <2>2. IsFiniteSet(F)
    BY FewFinite, Zenon
  <2>3. Size(F) = 2
    BY <1>2, SizeIs
  <2> QED
    BY <2>1, <2>2, <2>3 DEF Fills
<1>4. Alone(F, a) /\ Alone(F, b)
  BY <1>2 DEF Alone, Apart
<1>5. \A f, g \in F : f.name = g.name => f = g
  BY <1>2
<1> QED
  BY <1>1, <1>3, <1>4, <1>5 DEF Laid, LaidOut

LEMMA NewChannelAnsLaid == LaidOut(NewChannelAns)
<1> DEFINE a == Bits("channel_frequency_ack", 0, 0, 1)
           b == Bits("datarate_range_ack", 0, 1, 1)
           F == {a, b}
<1>1. NewChannelAns.parsed = F /\ NewChannelAns.generated = F /\ NewChannelAns.SIZE = 1
  BY DEF NewChannelAns, Class
<1>2. /\ a.name = "channel_frequency_ack" /\ a.kind = "bits"
      /\ a.at = 0 /\ a.len = 1 /\ a.low = 0 /\ a.width = 1
      /\ b.name = "datarate_range_ack" /\ b.kind = "bits"
      /\ b.at = 0 /\ b.len = 1 /\ b.low = 1 /\ b.width = 1
  BY DEF Bits
<1> HIDE DEF a, b
<1>3. Fills(F, 1)
  <2>1. \A f \in F : IsField(f) /\ f.at + f.len <= 1
    BY <1>2 DEF IsField
  <2>2. IsFiniteSet(F)
    BY FewFinite, Zenon
  <2>3. Size(F) = 1
    BY <1>2, SizeIs
  <2> QED
    BY <2>1, <2>2, <2>3 DEF Fills
<1>4. Pair(F, a, b)
  BY <1>2 DEF Pair, Apart
<1>5. \A f, g \in F : f.name = g.name => f = g
  BY <1>2
<1> QED
  BY <1>1, <1>3, <1>4, <1>5 DEF Laid, LaidOut

LEMMA DlChannelAnsLaid == LaidOut(DlChannelAns)
<1> DEFINE a == Bits("channel_frequency_ok", 0, 0, 1)
           b == Bits("uplink_frequency_exists", 0, 1, 1)
           F == {a, b}
<1>1. DlChannelAns.parsed = F /\ DlChannelAns.generated = F /\ DlChannelAns.SIZE = 1
  BY DEF DlChannelAns, Class
<1>2. /\ a.name = "channel_frequency_ok" /\ a.kind = "bits"
      /\ a.at = 0 /\ a.len = 1 /\ a.low = 0 /\ a.width = 1
      /\ b.name = "uplink_frequency_exists" /\ b.kind = "bits"
      /\ b.at = 0 /\ b.len = 1 /\ b.low = 1 /\ b.width = 1
  BY DEF Bits
<1> HIDE DEF a, b
<1>3. Fills(F, 1)
  <2>1. \A f \in F : IsField(f) /\ f.at + f.len <= 1
    BY <1>2 DEF IsField
  <2>2. IsFiniteSet(F)
    BY FewFinite, Zenon
  <2>3. Size(F) = 1
    BY <1>2, SizeIs
  <2> QED
    BY <2>1, <2>2, <2>3 DEF Fills
<1>4. Pair(F, a, b)
  BY <1>2 DEF Pair, Apart
<1>5. \A f, g \in F : f.name = g.name => f = g
  BY <1>2
<1> QED
  BY <1>1, <1>3, <1>4, <1>5 DEF Laid, LaidOut

LEMMA PingSlotInfoReqLaid == LaidOut(PingSlotInfoReq)
<1> DEFINE a == Bits("periodicity", 0, 0, 3)
           F == {a}
<1>1. PingSlotInfoReq.parsed = F /\ PingSlotInfoReq.generated = F /\ PingSlotInfoReq.SIZE = 1
  BY DEF PingSlotInfoReq, Plain, Class
<1>2. /\ a.name = "periodicity" /\ a.kind = "bits"
      /\ a.at = 0 /\ a.len = 1 /\ a.low = 0 /\ a.width = 3
  BY DEF Bits
<1> HIDE DEF a
<1>3. Fills(F, 1)
  <2>1. \A f \in F : IsField(f) /\ f.at + f.len <= 1
    BY <1>2 DEF IsField
  <2>2. IsFiniteSet(F)
    BY FewFinite, Zenon
  <2>3. Size(F) = 1
    BY <1>2, SizeIs
  <2> QED
    BY <2>1, <2>2, <2>3 DEF Fills
<1>4. Alone(F, a)
  BY <1>2 DEF Alone, Apart
<1>5. \A f, g \in F : f.name = g.name => f = g
  BY <1>2
<1> QED
  BY <1>1, <1>3, <1>4, <1>5 DEF Laid, LaidOut

LEMMA BeaconFreqAnsLaid == LaidOut(BeaconFreqAns)
<1> DEFINE a == Bits("status", 0, 0, 1)
           F == {a}
<1>1. BeaconFreqAns.parsed = F /\ BeaconFreqAns.generated = F /\ BeaconFreqAns.SIZE = 1
  BY DEF BeaconFreqAns, Plain, Class
<1>2. /\ a.name = "status" /\ a.kind = "bits"
      /\ a.at = 0 /\ a.len = 1 /\ a.low = 0 /\ a.width = 1
  BY DEF Bits
<1> HIDE DEF a
<1>3. Fills(F, 1)
  <2>1. \A f \in F : IsField(f) /\ f.at + f.len <= 1
    BY <1>2 DEF IsField
  <2>2. IsFiniteSet(F)
    BY FewFinite, Zenon
  <2>3. Size(F) = 1
    BY <1>2, SizeIs
  <2> QED
    BY <2>1, <2>2, <2>3 DEF Fills
<1>4. Alone(F, a)
  BY <1>2 DEF Alone, Apart
<1>5. \A f, g \in F : f.name = g.name => f = g
  BY <1>2
<1> QED
  BY <1>1, <1>3, <1>4, <1>5 DEF Laid, LaidOut

LEMMA PingSlotChannelAnsLaid == LaidOut(PingSlotChannelAns)
<1> DEFINE a == Bits("channel_frequency_status", 0, 0, 1)
           b == Bits("datarate_status", 0, 1, 1)
           F == {a, b}
<1>1. PingSlotChannelAns.parsed = F /\ PingSlotChannelAns.generated = F /\ PingSlotChannelAns.SIZE = 1
  BY DEF PingSlotChannelAns, Class
<1>2. /\ a.name = "channel_frequency_status" /\ a.kind = "bits"
      /\ a.at = 0 /\ a.len = 1 /\ a.low = 0 /\ a.width = 1
      /\ b.name = "datarate_status" /\ b.kind = "bits"
      /\ b.at = 0 /\ b.len = 1 /\ b.low = 1 /\ b.width = 1
  BY DEF Bits
<1> HIDE DEF a, b
<1>3. Fills(F, 1)
  <2>1. \A f \in F : IsField(f) /\ f.at + f.len <= 1
    BY <1>2 DEF IsField
  <2>2. IsFiniteSet(F)
    BY FewFinite, Zenon
  <2>3. Size(F) = 1
    BY <1>2, SizeIs
  <2> QED
    BY <2>1, <2>2, <2>3 DEF Fills
<1>4. Pair(F, a, b)
  BY <1>2 DEF Pair, Apart
<1>5. \A f, g \in F : f.name = g.name => f = g
  BY <1>2
<1> QED
  BY <1>1, <1>3, <1>4, <1>5 DEF Laid, LaidOut

LEMMA BeaconFreqReqLaid == LaidOut(BeaconFreqReq)
<1> DEFINE a == Number("frequency", 0, 3)
           F == {a}
<1>1. BeaconFreqReq.parsed = F /\ BeaconFreqReq.generated = F /\ BeaconFreqReq.SIZE = 3
  BY DEF BeaconFreqReq, Plain, Class
<1>2. /\ a.name = "frequency" /\ a.kind = "number"
      /\ a.at = 0 /\ a.len = 3 /\ a.low = 0 /\ a.width = 8
  BY DEF Number
<1> HIDE DEF a
<1>3. Fills(F, 3)
  <2>1. \A f \in F : IsField(f) /\ f.at + f.len <= 3
    BY <1>2 DEF IsField
  <2>2. IsFiniteSet(F)
    BY FewFinite, Zenon
  <2>3. Size(F) = 3
    BY <1>2, SizeIs
  <2> QED
    BY <2>1, <2>2, <2>3 DEF Fills
<1>4. Alone(F, a)
  BY <1>2 DEF Alone, Apart
<1>5. \A f, g \in F : f.name = g.name => f = g
  BY <1>2
<1> QED
  BY <1>1, <1>3, <1>4, <1>5 DEF Laid, LaidOut

LEMMA LinkCheckAnsLaid == LaidOut(LinkCheckAns)
<1> DEFINE a == Bits("margin", 0, 0, 8)
           b == Bits("gw_cnt", 1, 0, 8)
           F == {a, b}
<1>1. LinkCheckAns.parsed = F /\ LinkCheckAns.generated = F /\ LinkCheckAns.SIZE = 2
  BY DEF LinkCheckAns, Plain, Class
<1>2. /\ a.name = "margin" /\ a.kind = "bits"
      /\ a.at = 0 /\ a.len = 1 /\ a.low = 0 /\ a.width = 8
      /\ b.name = "gw_cnt" /\ b.kind = "bits"
      /\ b.at = 1 /\ b.len = 1 /\ b.low = 0 /\ b.width = 8
  BY DEF Bits
<1> HIDE DEF a, b
<1>3. Fills(F, 2)
  <2>1. \A f \in F : IsField(f) /\ f.at + f.len <= 2
    BY <1>2 DEF IsField
  <2>2. IsFiniteSet(F)
    BY FewFinite, Zenon
  <2>3. Size(F) = 2
    BY <1>2, SizeIs
  <2> QED
    BY <2>1, <2>2, <2>3 DEF Fills
<1>4. Alone(F, a) /\ Alone(F, b)
  BY <1>2 DEF Alone, Apart
<1>5. \A f, g \in F : f.name = g.name => f = g
  BY <1>2
<1> QED
  BY <1>1, <1>3, <1>4, <1>5 DEF Laid, LaidOut

LEMMA LinkADRReqLaid == LaidOut(LinkADRReq)
<1> DEFINE a == Bits("tx_power", 0, 0, 4)
           b == Bits("datarate", 0, 4, 4)
           c == Number("ch_mask", 1, 2)
           d == Bits("nb_trans", 3, 0, 4)
           e == Bits("ch_mask_cntl", 3, 4, 3)
           F == {a, b, c, d, e}
<1>1. LinkADRReq.parsed = F /\ LinkADRReq.generated = F /\ LinkADRReq.SIZE = 4
  BY DEF LinkADRReq, Class
<1>2. /\ a.name = "tx_power" /\ a.kind = "bits"
      /\ a.at = 0 /\ a.len = 1 /\ a.low = 0 /\ a.width = 4
      /\ b.name = "datarate" /\ b.kind = "bits"
      /\ b.at = 0 /\ b.len = 1 /\ b.low = 4 /\ b.width = 4
      /\ c.name = "ch_mask" /\ c.kind = "number"
      /\ c.at = 1 /\ c.len = 2 /\ c.low = 0 /\ c.width = 8
      /\ d.name = "nb_trans" /\ d.kind = "bits"
      /\ d.at = 3 /\ d.len = 1 /\ d.low = 0 /\ d.width = 4
      /\ e.name = "ch_mask_cntl" /\ e.kind = "bits"
      /\ e.at = 3 /\ e.len = 1 /\ e.low = 4 /\ e.width = 3
  BY DEF Bits, Number
<1> HIDE DEF a, b, c, d, e
<1>3. Fills(F, 4)
  <2>1. \A f \in F : IsField(f) /\ f.at + f.len <= 4
    BY <1>2 DEF IsField
  <2>2. IsFiniteSet(F)
    BY FewFinite, Zenon
  <2>3. Size(F) = 4
    BY <1>2, SizeIs
  <2> QED
    BY <2>1, <2>2, <2>3 DEF Fills
<1>4. Pair(F, a, b) /\ Alone(F, c) /\ Pair(F, d, e)
  BY <1>2 DEF Alone, Pair, Apart
<1>5. \A f, g \in F : f.name = g.name => f = g
  BY <1>2
<1> QED
  BY <1>1, <1>3, <1>4, <1>5 DEF Laid, LaidOut

LEMMA DutyCycleReqLaid == LaidOut(DutyCycleReq)
<1> DEFINE a == Bits("max_dcycle", 0, 0, 8)
           F == {a}
<1>1. DutyCycleReq.parsed = F /\ DutyCycleReq.generated = F /\ DutyCycleReq.SIZE = 1
  BY DEF DutyCycleReq, Plain, Class
<1>2. /\ a.name = "max_dcycle" /\ a.kind = "bits"
      /\ a.at = 0 /\ a.len = 1 /\ a.low = 0 /\ a.width = 8
  BY DEF Bits
<1> HIDE DEF a
<1>3. Fills(F, 1)
  <2>1. \A f \in F : IsField(f) /\ f.at + f.len <= 1
    BY <1>2 DEF IsField
  <2>2. IsFiniteSet(F)
    BY FewFinite, Zenon
  <2>3. Size(F) = 1
    BY <1>2, SizeIs
  <2> QED
    BY <2>1, <2>2, <2>3 DEF Fills
<1>4. Alone(F, a)
  BY <1>2 DEF Alone, Apart
<1>5. \A f, g \in F : f.name = g.name => f = g
  BY <1>2
<1> QED
  BY <1>1, <1>3, <1>4, <1>5 DEF Laid, LaidOut

LEMMA RXParamSetupReqLaid == LaidOut(RXParamSetupReq)
<1> DEFINE a == Bits("rx2_datarate", 0, 0, 4)
           b == Bits("rx1_datarate_offset", 0, 4, 3)
           c == Number("rx2_frequency", 1, 3)
           F == {a, b, c}
<1>1. RXParamSetupReq.parsed = F /\ RXParamSetupReq.generated = F /\ RXParamSetupReq.SIZE = 4
  BY DEF RXParamSetupReq, Class
<1>2. /\ a.name = "rx2_datarate" /\ a.kind = "bits"
      /\ a.at = 0 /\ a.len = 1 /\ a.low = 0 /\ a.width = 4
      /\ b.name = "rx1_datarate_offset" /\ b.kind = "bits"
      /\ b.at = 0 /\ b.len = 1 /\ b.low = 4 /\ b.width = 3
      /\ c.name = "rx2_frequency" /\ c.kind = "number"
      /\ c.at = 1 /\ c.len = 3 /\ c.low = 0 /\ c.width = 8
  BY DEF Bits, Number
<1> HIDE DEF a, b, c
<1>3. Fills(F, 4)
  <2>1. \A f \in F : IsField(f) /\ f.at + f.len <= 4
    BY <1>2 DEF IsField
  <2>2. IsFiniteSet(F)
    BY FewFinite, Zenon
  <2>3. Size(F) = 4
    BY <1>2, SizeIs
  <2> QED
    BY <2>1, <2>2, <2>3 DEF Fills
<1>4. Pair(F, a, b) /\ Alone(F, c)
  BY <1>2 DEF Alone, Pair, Apart
<1>5. \A f, g \in F : f.name = g.name => f = g
  BY <1>2
<1> QED
  BY <1>1, <1>3, <1>4, <1>5 DEF Laid, LaidOut

LEMMA NewChannelReqLaid == LaidOut(NewChannelReq)
<1> DEFINE a == Bits("ch_index", 0, 0, 8)
           b == Number("ch_frequency", 1, 3)
           c == Bits("min_datarate", 4, 0, 4)
           d == Bits("max_datarate", 4, 4, 4)
           F == {a, b, c, d}
<1>1. NewChannelReq.parsed = F /\ NewChannelReq.generated = F /\ NewChannelReq.SIZE = 5
  BY DEF NewChannelReq, Class
<1>2. /\ a.name = "ch_index" /\ a.kind = "bits"
      /\ a.at = 0 /\ a.len = 1 /\ a.low = 0 /\ a.width = 8
      /\ b.name = "ch_frequency" /\ b.kind = "number"
      /\ b.at = 1 /\ b.len = 3 /\ b.low = 0 /\ b.width = 8
      /\ c.name = "min_datarate" /\ c.kind = "bits"
      /\ c.at = 4 /\ c.len = 1 /\ c.low = 0 /\ c.width = 4
      /\ d.name = "max_datarate" /\ d.kind = "bits"
      /\ d.at = 4 /\ d.len = 1 /\ d.low = 4 /\ d.width = 4
  BY DEF Bits, Number
<1> HIDE DEF a, b, c, d
<1>3. Fills(F, 5)
  <2>1. \A f \in F : IsField(f) /\ f.at + f.len <= 5
    BY <1>2 DEF IsField
  <2>2. IsFiniteSet(F)
    BY FewFinite, Zenon
  <2>3. Size(F) = 5
    BY <1>2, SizeIs
  <2> QED
    BY <2>1, <2>2, <2>3 DEF Fills
<1>4. Alone(F, a) /\ Alone(F, b) /\ Pair(F, c, d)
  BY <1>2 DEF Alone, Pair, Apart
<1>5. \A f, g \in F : f.name = g.name => f = g
  BY <1>2
<1> QED
  BY <1>1, <1>3, <1>4, <1>5 DEF Laid, LaidOut

LEMMA RXTimingSetupReqLaid == LaidOut(RXTimingSetupReq)
<1> DEFINE a == Bits("delay", 0, 0, 4)
           F == {a}
<1>1. RXTimingSetupReq.parsed = F /\ RXTimingSetupReq.generated = F /\ RXTimingSetupReq.SIZE = 1
  BY DEF RXTimingSetupReq, Plain, Class
<1>2. /\ a.name = "delay" /\ a.kind = "bits"
      /\ a.at = 0 /\ a.len = 1 /\ a.low = 0 /\ a.width = 4
  BY DEF Bits
<1> HIDE DEF a
<1>3. Fills(F, 1)
  <2>1. \A f \in F : IsField(f) /\ f.at + f.len <= 1
    BY <1>2 DEF IsField
  <2>2. IsFiniteSet(F)
    BY FewFinite, Zenon
  <2>3. Size(F) = 1
    BY <1>2, SizeIs
  <2> QED
    BY <2>1, <2>2, <2>3 DEF Fills
<1>4. Alone(F, a)
  BY <1>2 DEF Alone, Apart
<1>5. \A f, g \in F : f.name = g.name => f = g
  BY <1>2
<1> QED
  BY <1>1, <1>3, <1>4, <1>5 DEF Laid, LaidOut

LEMMA TXParamSetupReqLaid == LaidOut(TXParamSetupReq)
<1> DEFINE a == Bits("max_eirp", 0, 0, 4)
           b == Bits("uplink_dwell_time", 0, 4, 1)
           c == Bits("downlink_dwell_time", 0, 5, 1)
           F == {a, b, c}
<1>1. TXParamSetupReq.parsed = F /\ TXParamSetupReq.generated = F /\ TXParamSetupReq.SIZE = 1
  BY DEF TXParamSetupReq, Class
<1>2. /\ a.name = "max_eirp" /\ a.kind = "bits"
      /\ a.at = 0 /\ a.len = 1 /\ a.low = 0 /\ a.width = 4
      /\ b.name = "uplink_dwell_time" /\ b.kind = "bits"
      /\ b.at = 0 /\ b.len = 1 /\ b.low = 4 /\ b.width = 1
      /\ c.name = "downlink_dwell_time" /\ c.kind = "bits"
      /\ c.at = 0 /\ c.len = 1 /\ c.low = 5 /\ c.width = 1
  BY DEF Bits
<1> HIDE DEF a, b, c
<1>3. Fills(F, 1)
  <2>1. \A f \in F : IsField(f) /\ f.at + f.len <= 1
    BY <1>2 DEF IsField
  <2>2. IsFiniteSet(F)
    BY FewFinite, Zenon
  <2>3. Size(F) = 1
    BY <1>2, SizeIs
  <2> QED
    BY <2>1, <2>2, <2>3 DEF Fills
<1>4. Triple(F, a, b, c)
  BY <1>2 DEF Triple, Apart
<1>5. \A f, g \in F : f.name = g.name => f = g
  BY <1>2
<1> QED
  BY <1>1, <1>3, <1>4, <1>5 DEF Laid, LaidOut

LEMMA DlChannelReqLaid == LaidOut(DlChannelReq)
<1> DEFINE a == Bits("ch_index", 0, 0, 8)
           b == Number("freq", 1, 3)
           F == {a, b}
<1>1. DlChannelReq.parsed = F /\ DlChannelReq.generated = F /\ DlChannelReq.SIZE = 4
  BY DEF DlChannelReq, Plain, Class
<1>2. /\ a.name = "ch_index" /\ a.kind = "bits"
      /\ a.at = 0 /\ a.len = 1 /\ a.low = 0 /\ a.width = 8
      /\ b.name = "freq" /\ b.kind = "number"
      /\ b.at = 1 /\ b.len = 3 /\ b.low = 0 /\ b.width = 8
  BY DEF Bits, Number
<1> HIDE DEF a, b
<1>3. Fills(F, 4)
  <2>1. \A f \in F : IsField(f) /\ f.at + f.len <= 4
    BY <1>2 DEF IsField
  <2>2. IsFiniteSet(F)
    BY FewFinite, Zenon
  <2>3. Size(F) = 4
    BY <1>2, SizeIs
  <2> QED
    BY <2>1, <2>2, <2>3 DEF Fills
<1>4. Alone(F, a) /\ Alone(F, b)
  BY <1>2 DEF Alone, Apart
<1>5. \A f, g \in F : f.name = g.name => f = g
  BY <1>2
<1> QED
  BY <1>1, <1>3, <1>4, <1>5 DEF Laid, LaidOut

LEMMA DeviceTimeAnsLaid == LaidOut(DeviceTimeAns)
<1> DEFINE a == Number("seconds", 0, 4)
           b == Bits("fractional_second", 4, 0, 8)
           F == {a, b}
<1>1. DeviceTimeAns.parsed = F /\ DeviceTimeAns.generated = F /\ DeviceTimeAns.SIZE = 5
  BY DEF DeviceTimeAns, Plain, Class
<1>2. /\ a.name = "seconds" /\ a.kind = "number"
      /\ a.at = 0 /\ a.len = 4 /\ a.low = 0 /\ a.width = 8
      /\ b.name = "fractional_second" /\ b.kind = "bits"
      /\ b.at = 4 /\ b.len = 1 /\ b.low = 0 /\ b.width = 8
  BY DEF Bits, Number
<1> HIDE DEF a, b
<1>3. Fills(F, 5)
  <2>1. \A f \in F : IsField(f) /\ f.at + f.len <= 5
    BY <1>2 DEF IsField
  <2>2. IsFiniteSet(F)
    BY FewFinite, Zenon
  <2>3. Size(F) = 5
    BY <1>2, SizeIs
  <2> QED
    BY <2>1, <2>2, <2>3 DEF Fills
<1>4. Alone(F, a) /\ Alone(F, b)
  BY <1>2 DEF Alone, Apart
<1>5. \A f, g \in F : f.name = g.name => f = g
  BY <1>2
<1> QED
  BY <1>1, <1>3, <1>4, <1>5 DEF Laid, LaidOut

\* PingSlotChannelReq has four bytes, and parse() looks behind its SIZE.
LEMMA PingSlotChannelReqFields ==
  /\ Laid(PingSlotChannelReq.generated, 4)
  /\ \E f \in PingSlotChannelReq.parsed : f.at + f.len > PingSlotChannelReq.SIZE
<1> DEFINE a == Number("frequency", 0, 3)
           b == Bits("datarate", 3, 0, 4)
           F == {a, b}
<1>1. /\ PingSlotChannelReq.parsed = F /\ PingSlotChannelReq.generated = F
      /\ PingSlotChannelReq.SIZE = 1
  BY DEF PingSlotChannelReq, Plain, Class
<1>2. /\ a.name = "frequency" /\ a.kind = "number"
      /\ a.at = 0 /\ a.len = 3 /\ a.low = 0 /\ a.width = 8
      /\ b.name = "datarate" /\ b.kind = "bits"
      /\ b.at = 3 /\ b.len = 1 /\ b.low = 0 /\ b.width = 4
  BY DEF Bits, Number
<1> HIDE DEF a, b
<1>3. Fills(F, 4)
  <2>1. \A f \in F : IsField(f) /\ f.at + f.len <= 4
    BY <1>2 DEF IsField
  <2>2. IsFiniteSet(F)
    BY FewFinite, Zenon
  <2>3. Size(F) = 4
    BY <1>2, SizeIs
  <2> QED
    BY <2>1, <2>2, <2>3 DEF Fills
<1>4. Alone(F, a) /\ Alone(F, b)
  BY <1>2 DEF Alone, Apart
<1>5. Laid(F, 4)
  BY <1>2, <1>3, <1>4 DEF Laid
<1> QED
  BY <1>1, <1>2, <1>5

\* An identifier belongs to one class of its direction.
LEMMA UPCIDs ==
  /\ \A c \in mac_commands_map["UP"] : c.CID \in 1..19 /\ c.SIZE \in Nat /\ c.SIZE <= 5
  /\ \A c, e \in mac_commands_map["UP"] : c.CID = e.CID => c = e
<1>1. /\ LinkCheckReq.CID = 2 /\ LinkCheckReq.SIZE = 0
      /\ LinkADRAns.CID = 3 /\ LinkADRAns.SIZE = 1
      /\ DutyCycleAns.CID = 4 /\ DutyCycleAns.SIZE = 0
      /\ RXParamSetupAns.CID = 5 /\ RXParamSetupAns.SIZE = 1
      /\ DevStatusAns.CID = 6 /\ DevStatusAns.SIZE = 2
      /\ NewChannelAns.CID = 7 /\ NewChannelAns.SIZE = 1
      /\ RXTimingSetupAns.CID = 8 /\ RXTimingSetupAns.SIZE = 0
      /\ TXParamSetupAns.CID = 9 /\ TXParamSetupAns.SIZE = 0
      /\ DlChannelAns.CID = 10 /\ DlChannelAns.SIZE = 1
      /\ DeviceTimeReq.CID = 13 /\ DeviceTimeReq.SIZE = 0
      /\ PingSlotInfoReq.CID = 16 /\ PingSlotInfoReq.SIZE = 1
      /\ PingSlotChannelAns.CID = 17 /\ PingSlotChannelAns.SIZE = 1
      /\ BeaconFreqAns.CID = 19 /\ BeaconFreqAns.SIZE = 1
  BY DEF LinkCheckReq, LinkADRAns, DutyCycleAns, RXParamSetupAns,
         DevStatusAns, NewChannelAns, RXTimingSetupAns, TXParamSetupAns,
         DlChannelAns, DeviceTimeReq, PingSlotInfoReq, PingSlotChannelAns,
         BeaconFreqAns,
         Bare, Class, Plain
<1>2. mac_commands_map["UP"] =
        {LinkCheckReq, LinkADRAns, DutyCycleAns, RXParamSetupAns,
         DevStatusAns, NewChannelAns, RXTimingSetupAns, TXParamSetupAns,
         DlChannelAns, DeviceTimeReq, PingSlotInfoReq, PingSlotChannelAns,
         BeaconFreqAns}
  BY DEF mac_commands_map
<1> QED
  BY <1>1, <1>2

\* The same for the other direction.
LEMMA DOWNCIDs ==
  /\ \A c \in mac_commands_map["DOWN"] : c.CID \in 1..19 /\ c.SIZE \in Nat /\ c.SIZE <= 5
  /\ \A c, e \in mac_commands_map["DOWN"] : c.CID = e.CID => c = e
<1>1. /\ LinkCheckAns.CID = 2 /\ LinkCheckAns.SIZE = 2
      /\ LinkADRReq.CID = 3 /\ LinkADRReq.SIZE = 4
      /\ DutyCycleReq.CID = 4 /\ DutyCycleReq.SIZE = 1
      /\ RXParamSetupReq.CID = 5 /\ RXParamSetupReq.SIZE = 4
      /\ DevStatusReq.CID = 6 /\ DevStatusReq.SIZE = 0
      /\ NewChannelReq.CID = 7 /\ NewChannelReq.SIZE = 5
      /\ RXTimingSetupReq.CID = 8 /\ RXTimingSetupReq.SIZE = 1
      /\ TXParamSetupReq.CID = 9 /\ TXParamSetupReq.SIZE = 1
      /\ DlChannelReq.CID = 10 /\ DlChannelReq.SIZE = 4
      /\ DeviceTimeAns.CID = 13 /\ DeviceTimeAns.SIZE = 5
      /\ PingSlotInfoAns.CID = 16 /\ PingSlotInfoAns.SIZE = 0
      /\ PingSlotChannelReq.CID = 17 /\ PingSlotChannelReq.SIZE = 1
      /\ BeaconFreqReq.CID = 19 /\ BeaconFreqReq.SIZE = 3
  BY DEF LinkCheckAns, LinkADRReq, DutyCycleReq, RXParamSetupReq,
         DevStatusReq, NewChannelReq, RXTimingSetupReq, TXParamSetupReq,
         DlChannelReq, DeviceTimeAns, PingSlotInfoAns, PingSlotChannelReq,
         BeaconFreqReq,
         Bare, Class, Plain
<1>2. mac_commands_map["DOWN"] =
        {LinkCheckAns, LinkADRReq, DutyCycleReq, RXParamSetupReq,
         DevStatusReq, NewChannelReq, RXTimingSetupReq, TXParamSetupReq,
         DlChannelReq, DeviceTimeAns, PingSlotInfoAns, PingSlotChannelReq,
         BeaconFreqReq}
  BY DEF mac_commands_map
<1> QED
  BY <1>1, <1>2

\* All classes of the map together.
LEMMA ClassesLaid ==
  ASSUME NEW d \in {"UP", "DOWN"}, NEW class \in mac_commands_map[d], class # PingSlotChannelReq
  PROVE  LaidOut(class)
<1>1. /\ LaidOut(LinkCheckReq)
      /\ LaidOut(DutyCycleAns)
      /\ LaidOut(RXTimingSetupAns)
      /\ LaidOut(TXParamSetupAns)
      /\ LaidOut(DeviceTimeReq)
      /\ LaidOut(DevStatusReq)
      /\ LaidOut(PingSlotInfoAns)
  BY BareLaid, Zenon DEF LinkCheckReq, DutyCycleAns, RXTimingSetupAns,
                         TXParamSetupAns, DeviceTimeReq, DevStatusReq,
                         PingSlotInfoAns
<1>2. CASE d = "UP"
  <2>1. class \in {LinkCheckReq, LinkADRAns, DutyCycleAns, RXParamSetupAns,
                DevStatusAns, NewChannelAns, RXTimingSetupAns,
                TXParamSetupAns, DlChannelAns, DeviceTimeReq,
                PingSlotInfoReq, PingSlotChannelAns, BeaconFreqAns}
    BY <1>2 DEF mac_commands_map
  <2> QED
    BY <1>1, <2>1, LinkADRAnsLaid, RXParamSetupAnsLaid, DevStatusAnsLaid,
       NewChannelAnsLaid, DlChannelAnsLaid, PingSlotInfoReqLaid,
       PingSlotChannelAnsLaid, BeaconFreqAnsLaid, Zenon
<1>3. CASE d = "DOWN"
  <2>1. class \in {LinkCheckAns, LinkADRReq, DutyCycleReq, RXParamSetupReq,
                DevStatusReq, NewChannelReq, RXTimingSetupReq,
                TXParamSetupReq, DlChannelReq, DeviceTimeAns,
                PingSlotInfoAns, PingSlotChannelReq, BeaconFreqReq}
    BY <1>3 DEF mac_commands_map
  <2> QED
    BY <1>1, <2>1, LinkCheckAnsLaid, LinkADRReqLaid, DutyCycleReqLaid,
       RXParamSetupReqLaid, NewChannelReqLaid, RXTimingSetupReqLaid,
       TXParamSetupReqLaid, DlChannelReqLaid, DeviceTimeAnsLaid,
       BeaconFreqReqLaid, Zenon
<1> QED
  BY <1>2, <1>3

\* Only the margin of DevStatusAns has a value that is not read back.
LEMMA NoOtherMargin ==
  ASSUME NEW d \in {"UP", "DOWN"}, NEW class \in mac_commands_map[d],
         NEW f \in class.generated, f.kind = "margin"
  PROVE  class = DevStatusAns /\ f.name = "margin"
<1>1. /\ \A e \in LinkCheckReq.generated : e.kind # "margin"
      /\ \A e \in LinkADRAns.generated : e.kind # "margin"
      /\ \A e \in DutyCycleAns.generated : e.kind # "margin"
      /\ \A e \in RXParamSetupAns.generated : e.kind # "margin"
      /\ \A e \in NewChannelAns.generated : e.kind # "margin"
      /\ \A e \in RXTimingSetupAns.generated : e.kind # "margin"
      /\ \A e \in TXParamSetupAns.generated : e.kind # "margin"
      /\ \A e \in DlChannelAns.generated : e.kind # "margin"
      /\ \A e \in DeviceTimeReq.generated : e.kind # "margin"
      /\ \A e \in PingSlotInfoReq.generated : e.kind # "margin"
      /\ \A e \in PingSlotChannelAns.generated : e.kind # "margin"
      /\ \A e \in BeaconFreqAns.generated : e.kind # "margin"
      /\ \A e \in LinkCheckAns.generated : e.kind # "margin"
      /\ \A e \in LinkADRReq.generated : e.kind # "margin"
      /\ \A e \in DutyCycleReq.generated : e.kind # "margin"
      /\ \A e \in RXParamSetupReq.generated : e.kind # "margin"
      /\ \A e \in DevStatusReq.generated : e.kind # "margin"
      /\ \A e \in NewChannelReq.generated : e.kind # "margin"
      /\ \A e \in RXTimingSetupReq.generated : e.kind # "margin"
      /\ \A e \in TXParamSetupReq.generated : e.kind # "margin"
      /\ \A e \in DlChannelReq.generated : e.kind # "margin"
      /\ \A e \in DeviceTimeAns.generated : e.kind # "margin"
      /\ \A e \in PingSlotInfoAns.generated : e.kind # "margin"
      /\ \A e \in PingSlotChannelReq.generated : e.kind # "margin"
      /\ \A e \in BeaconFreqReq.generated : e.kind # "margin"
  BY DEF LinkCheckReq, LinkADRAns, DutyCycleAns, RXParamSetupAns,
         NewChannelAns, RXTimingSetupAns, TXParamSetupAns, DlChannelAns,
         DeviceTimeReq, PingSlotInfoReq, PingSlotChannelAns, BeaconFreqAns,
         LinkCheckAns, LinkADRReq, DutyCycleReq, RXParamSetupReq,
         DevStatusReq, NewChannelReq, RXTimingSetupReq, TXParamSetupReq,
         DlChannelReq, DeviceTimeAns, PingSlotInfoAns, PingSlotChannelReq,
         BeaconFreqReq,
         Bare, Plain, Class, Bits, Number
<1>2. \A e \in DevStatusAns.generated : e.kind = "margin" => e.name = "margin"
  BY DEF DevStatusAns, Plain, Class, Bits, Margin
<1>3. class \in {LinkCheckReq, LinkADRAns, DutyCycleAns, RXParamSetupAns,
              DevStatusAns, NewChannelAns, RXTimingSetupAns, TXParamSetupAns,
              DlChannelAns, DeviceTimeReq, PingSlotInfoReq,
              PingSlotChannelAns, BeaconFreqAns, LinkCheckAns, LinkADRReq,
              DutyCycleReq, RXParamSetupReq, DevStatusReq, NewChannelReq,
              RXTimingSetupReq, TXParamSetupReq, DlChannelReq, DeviceTimeAns,
              PingSlotInfoAns, PingSlotChannelReq, BeaconFreqReq}
  BY DEF mac_commands_map
<1> QED
  BY <1>1, <1>2, <1>3

\* The bytes of a command: its identifier and the bytes of its fields.
LEMMA Generated ==
  ASSUME NEW d \in {"UP", "DOWN"}, NEW class \in mac_commands_map[d],
         NEW p \in Values(class.generated), NEW m, m = Command(class, p)
  PROVE  /\ generate(m) \in Seq(Int)
         /\ Len(generate(m)) = 1 + Size(class.generated) /\ Size(class.generated) \in Nat
         /\ Encode(class.generated, p) \in Seq(Int)
         /\ Len(Encode(class.generated, p)) = Size(class.generated)
         /\ generate(m)[1] = class.CID
         /\ \A k \in 1..Size(class.generated) :
              generate(m)[k + 1] = Encode(class.generated, p)[k]
<1> DEFINE F == class.generated
           n == Size(F)
<1>1. Fills(F, n) /\ n \in Nat
  <2>1. CASE class = PingSlotChannelReq
    BY <2>1, PingSlotChannelReqFields DEF Laid, Fills
  <2>2. CASE class # PingSlotChannelReq
    BY <2>2, ClassesLaid DEF LaidOut, Laid, Fills
  <2> QED
    BY <2>1, <2>2
<1>2. class.CID \in Int
  BY UPCIDs, DOWNCIDs
<1>3. \A f \in F : p[f.name] \in Int /\ IsField(f)
  BY <1>1 DEF Values, Names, Fills
<1>4. ASSUME NEW k \in 1..n
      PROVE  Encode(F, p)[k] \in Int
  <2>1. k \in 1..Max({0} \cup {f.at + f.len : f \in F}) /\ k \in Nat
    BY DEF Size
  <2>2. IsFiniteSet(F)
    BY <1>1 DEF Fills
  <2> HIDE DEF F, n
  <2> QED
    BY <1>3, <2>1, <2>2, EncodeInt
<1>5. DOMAIN Encode(F, p) = 1..n
  BY DEF Encode, Size
<1>6. Encode(F, p) = [k \in 1..n |-> Encode(F, p)[k]]
  BY DEF Encode, Size
<1>7. Encode(F, p) \in Seq(Int) /\ Len(Encode(F, p)) = n
  <2> HIDE DEF F, n
  <2> QED
    BY <1>1, <1>4, <1>6
<1>8. generate(m) = <<class.CID>> \o Encode(F, p)
  BY DEF generate, Command
<1> HIDE DEF F, n
<1> QED
  BY <1>1, <1>2, <1>7, <1>8 DEF F, n

\* parse() finds in the bytes of a command what was put into them.
LEMMA ParsedBack ==
  ASSUME NEW d \in {"UP", "DOWN"}, NEW class \in mac_commands_map[d],
         class # PingSlotChannelReq,
         NEW p \in Values(class.generated), class = DevStatusAns => p["margin"] # 0
  PROVE  /\ parse(class, Encode(class.generated, p)) = Command(class, p)
         /\ Size(class.generated) = class.SIZE
         /\ \A f \in class.parsed : f.at + f.len <= class.SIZE
<1>1. class.parsed = class.generated /\ Laid(class.generated, class.SIZE)
  BY ClassesLaid DEF LaidOut
<1>2. \A f \in class.generated : f.kind = "margin" => p[f.name] # 0
  BY NoOtherMargin
<1>3. Decode(class.generated, Encode(class.generated, p)) = p
  BY <1>1, <1>2, LaidBack
<1>4. parse(class, Encode(class.generated, p)) = Command(class, p)
  BY <1>1, <1>3 DEF parse
<1> QED
  BY <1>1, <1>4 DEF Laid, Fills

-----------------------------------------------------------------------------
(* The parser on what a sender generates.                                  *)

\* FlattenSeq puts the pieces one behind the other.
LEMMA Flattened ==
  ASSUME NEW seqs, seqs \in Seq(Seq(Int)), NEW B,
         B \in [0..Len(seqs) -> Seq(Int)], B[0] = <<>>,
         \A i \in 1..Len(seqs) : B[i] = B[i - 1] \o seqs[i]
  PROVE  FlattenSeq(seqs) = B[Len(seqs)]
<1> DEFINE n == Len(seqs)
           Is(G) == G = [i \in 1..n |-> IF i = 1 THEN seqs[i] ELSE G[i - 1] \o seqs[i]]
<1>0. n \in Nat
  OBVIOUS
<1>1. CASE n = 0
  BY <1>1 DEF FlattenSeq
<1>2. CASE n > 0
  <2>1. \A i \in 1..n : seqs[i] \in Seq(Int)
    OBVIOUS
  <2> DEFINE G == [i \in 1..n |-> B[i]]
  <2>2. \A i \in 1..n : B[i] = IF i = 1 THEN seqs[i] ELSE G[i - 1] \o seqs[i]
    <3>1. ASSUME NEW i \in 1..n
          PROVE  B[i] = IF i = 1 THEN seqs[i] ELSE G[i - 1] \o seqs[i]
      <4>1. CASE i = 1
        <5>1. 1 \in 1..n /\ 1 - 1 = 0
          BY <1>2
        <5>2. B[1] = <<>> \o seqs[1] /\ seqs[1] \in Seq(Int)
          BY <2>1, <5>1
        <5> QED
          BY <4>1, <5>2
      <4>2. CASE i # 1
        <5>1. i - 1 \in 1..n
          BY <4>2
        <5> QED
          BY <4>2, <5>1
      <4> QED
        BY <4>1, <4>2
    <3> QED
      BY <3>1
  <2>3. Is(G)
    BY <2>2
  <2>4. PICK H : H = CHOOSE K : Is(K)
    OBVIOUS
  <2>5. Is(H)
    <3> HIDE DEF Is, G
    <3> QED
      BY <2>3, <2>4, Zenon
  <2>6. FlattenSeq(seqs) = H[n]
    BY <1>2, <2>4 DEF FlattenSeq
  <2>7. \A i \in 1..n : H[i] = IF i = 1 THEN seqs[i] ELSE H[i - 1] \o seqs[i]
    BY <2>5, Zenon
  <2> DEFINE Same == {i \in 0..n : i # 0 => H[i] = B[i]}
  <2>8. 0..n \subseteq Same
    <3>1. 0 \in Same
      BY <1>0
    <3>2. ASSUME NEW i \in 0..(n - 1), i \in Same
          PROVE  i + 1 \in Same
      <4>1. i + 1 \in 1..n /\ (i + 1) - 1 = i
        BY <1>0
      <4>2. H[i + 1] = IF i + 1 = 1 THEN seqs[i + 1] ELSE H[i] \o seqs[i + 1]
        BY <2>7, <4>1
      <4>3. B[i + 1] = IF i + 1 = 1 THEN seqs[i + 1] ELSE B[i] \o seqs[i + 1]
        BY <2>2, <4>1
      <4>4. i # 0 => H[i] = B[i]
        BY <3>2
      <4> QED
        BY <4>1, <4>2, <4>3, <4>4
    <3> HIDE DEF Same, n
    <3> QED
      BY <1>0, <3>1, <3>2, UpTo
  <2>9. n \in Same
    <3>1. n \in 0..n
      BY <1>0
    <3> HIDE DEF Same, n
    <3> QED
      BY <2>8, <3>1
  <2> QED
    BY <1>2, <2>6, <2>9
<1> QED
  BY <1>0, <1>1, <1>2

\* The bytes of the first commands, the next one's behind them.
IsBytes(B, s) ==
  /\ B \in [0..Len(s) -> Seq(Int)] /\ B[0] = <<>>
  /\ \A i \in 1..Len(s) : B[i] = B[i - 1] \o generate(s[i])
  /\ \A n \in 0..Len(s) : generateAll(SubSeq(s, 1, n)) = B[n]

\* A function on 1..n is a sequence.
LEMMA IsSequence ==
  ASSUME NEW S, NEW n \in Nat, NEW f, f = [i \in 1..n |-> f[i]], \A i \in 1..n : f[i] \in S
  PROVE  f \in Seq(S) /\ Len(f) = n
OBVIOUS

\* The place behind the first n elements, unless they are all.
LEMMA OneFurther ==
  ASSUME NEW S, NEW s \in Seq(S), NEW n \in 0..Len(s), n < Len(s)
  PROVE  /\ n \in Nat /\ n + 1 \in 1..Len(s) /\ n + 1 \in 0..Len(s)
         /\ (n + 1) - 1 = n /\ s[n + 1] \in S
OBVIOUS

\* There are such bytes.
LEMMA BytesExist ==
  ASSUME NEW s, NEW C, s \in Seq(C), \A i \in 1..Len(s) : generate(s[i]) \in Seq(Int)
  PROVE  \E B : IsBytes(B, s)
<1> DEFINE L == Len(s)
           Adds1(b, n) == /\ b \in [0..n -> Seq(Int)] /\ b[0] = <<>>
                          /\ \A i \in 1..n : b[i] = b[i - 1] \o generate(s[i])
           Done == {n \in 0..L : \E b : Adds1(b, n)}
<1>0. L \in Nat
  OBVIOUS
<1>1. 0 \in Done
  <2> DEFINE b == [i \in 0..0 |-> <<>>]
  <2>1. b \in [0..0 -> Seq(Int)] /\ b[0] = <<>>
    OBVIOUS
  <2> HIDE DEF b
  <2>2. Adds1(b, 0)
    BY <2>1
  <2> HIDE DEF Adds1
  <2> QED
    BY <1>0, <2>2
<1>2. ASSUME NEW n \in 0..(L - 1), n \in Done
      PROVE  n + 1 \in Done
  <2>1. PICK b : Adds1(b, n)
    BY <1>2
  <2>2. n + 1 \in 1..L /\ n \in Nat /\ n + 1 \in 0..L
    BY <1>0
  <2> DEFINE next == b[n] \o generate(s[n + 1])
             e == [i \in 0..(n + 1) |-> IF i = n + 1 THEN next ELSE b[i]]
  <2>3. b[n] \in Seq(Int) /\ generate(s[n + 1]) \in Seq(Int)
    BY <2>1, <2>2
  <2>4. next \in Seq(Int)
    BY <2>3
  <2>e. /\ e[n + 1] = next
        /\ \A i \in 0..n : e[i] = b[i]
    <3>1. e[n + 1] = next
      <4>1. n + 1 \in 0..(n + 1)
        BY <2>2
      <4> QED
        BY <4>1, Zenon
    <3>2. ASSUME NEW i \in 0..n
          PROVE  e[i] = b[i]
      <4>1. i \in 0..(n + 1) /\ i # n + 1
        BY <2>2
      <4>2. e[i] = IF i = n + 1 THEN next ELSE b[i]
        BY <4>1, Zenon
      <4> QED
        BY <4>1, <4>2, Zenon
    <3> HIDE DEF next, e
    <3> QED
      BY <3>1, <3>2
  <2> HIDE DEF next
  <2>t. \A i \in 0..n : b[i] \in Seq(Int)
    BY <2>1
  <2>5. e \in [0..(n + 1) -> Seq(Int)]
    <3>1. \A i \in 0..(n + 1) : i # n + 1 => i \in 0..n
      BY <2>2
    <3> QED
      BY <2>4, <2>t, <3>1
  <2> HIDE DEF e
  <2>6. ASSUME NEW i \in 1..(n + 1)
        PROVE  e[i] = e[i - 1] \o generate(s[i])
    <3>1. CASE i = n + 1
      <4>1. i - 1 = n /\ n \in 0..n
        BY <2>2, <3>1
      <4> QED
        BY <2>e, <3>1, <4>1 DEF next
    <3>2. CASE i # n + 1
      <4>1. i \in 1..n /\ i \in 0..n /\ i - 1 \in 0..n
        BY <2>2, <3>2
      <4> QED
        BY <2>1, <2>e, <4>1
    <3> QED
      BY <3>1, <3>2
  <2>7. e[0] = <<>>
    BY <2>1, <2>2, <2>e
  <2>8. Adds1(e, n + 1)
    BY <2>5, <2>6, <2>7
  <2> HIDE DEF Adds1
  <2> QED
    BY <2>2, <2>8
<1>3. L \in Done
  <2> HIDE DEF L, Done
  <2>1. 0..L \subseteq Done
    BY <1>0, <1>1, <1>2, UpTo
  <2> QED
    BY <1>0, <2>1
<1>4. PICK B : Adds1(B, L)
  BY <1>3
<1>5. ASSUME NEW n \in 0..L
      PROVE  generateAll(SubSeq(s, 1, n)) = B[n]
  <2> DEFINE pre == SubSeq(s, 1, n)
             seqs == [i \in DOMAIN pre |-> generate(pre[i])]
             b == [i \in 0..n |-> B[i]]
  <2>1. pre \in Seq(C) /\ Len(pre) = n /\ DOMAIN pre = 1..n /\ \A i \in 1..n : pre[i] = s[i]
    OBVIOUS
  <2> HIDE DEF pre
  <2>2. \A i \in 1..n : seqs[i] = generate(s[i]) /\ generate(s[i]) \in Seq(Int)
    BY <2>1
  <2>3. seqs = [i \in 1..n |-> seqs[i]]
    BY <2>1
  <2>g. generateAll(pre) = FlattenSeq(seqs)
    BY DEF generateAll
  <2> HIDE DEF seqs
  <2>4. seqs \in Seq(Seq(Int)) /\ Len(seqs) = n
    <3>1. n \in Nat /\ \A i \in 1..n : seqs[i] \in Seq(Int)
      BY <2>2
    <3> QED
      BY <2>3, <3>1, IsSequence, Zenon
  <2>5. /\ b \in [0..n -> Seq(Int)] /\ b[0] = <<>> /\ b[n] = B[n]
        /\ \A i \in 1..n : b[i] = b[i - 1] \o seqs[i]
    <3>1. \A i \in 0..n : i \in 0..L
      BY <1>0
    <3>2. \A i \in 0..n : b[i] = B[i] /\ B[i] \in Seq(Int)
      BY <1>4, <3>1
    <3>3. ASSUME NEW i \in 1..n
          PROVE  b[i] = b[i - 1] \o seqs[i]
      <4>1. i \in 1..L /\ i \in 0..n /\ i - 1 \in 0..n
        BY <1>0
      <4>2. B[i] = B[i - 1] \o generate(s[i])
        BY <1>4, <4>1
      <4> QED
        BY <2>2, <3>2, <4>1, <4>2
    <3>4. 0 \in 0..n /\ n \in 0..n /\ B[0] = <<>>
      BY <1>0, <1>4
    <3> QED
      BY <3>2, <3>3, <3>4
  <2> HIDE DEF b
  <2>6. FlattenSeq(seqs) = b[Len(seqs)]
    BY <2>4, <2>5, Flattened
  <2> QED
    BY <2>4, <2>5, <2>6, <2>g DEF pre
<1> QED
  BY <1>4, <1>5 DEF IsBytes

\* IsPrefix, element by element.
LEMMA PrefixIff ==
  ASSUME NEW s, NEW t, s \in Seq(Int), t \in Seq(Int)
  PROVE  IsPrefix(s, t) <=> Len(s) <= Len(t) /\ \A i \in 1..Len(s) : s[i] = t[i]
<1>1. SubSeq(s, 1, Len(s)) = s
  BY SubSeqFull
<1>2. ASSUME Len(s) <= Len(t)
      PROVE  s = SubSeq(t, 1, Len(s)) <=> \A i \in 1..Len(s) : s[i] = t[i]
  <2>1. /\ SubSeq(t, 1, Len(s)) \in Seq(Int) /\ Len(SubSeq(t, 1, Len(s))) = Len(s)
        /\ \A i \in 1..Len(s) : SubSeq(t, 1, Len(s))[i] = t[i]
    BY <1>2
  <2> QED
    BY <2>1, SeqEqual
<1> QED
  BY <1>1, <1>2 DEF IsPrefix

\* The bytes of fewer commands are a beginning of the bytes of more.
LEMMA BytesGrow ==
  ASSUME NEW s, Len(s) \in Nat, NEW B, IsBytes(B, s),
         \A i \in 1..Len(s) : generate(s[i]) \in Seq(Int),
         NEW n \in 0..Len(s), NEW m \in n..Len(s)
  PROVE  IsPrefix(B[n], B[m])
<1> DEFINE L == Len(s)
           Grown == {i \in 0..(L - n) : IsPrefix(B[n], B[n + i])}
<1>0. L \in Nat /\ n \in Nat /\ n <= L /\ L - n \in Nat
  OBVIOUS
<1>1. \A i \in 0..L : B[i] \in Seq(Int)
  BY DEF IsBytes
<1>2. 0 \in Grown
  <2>1. n + 0 = n /\ B[n] \in Seq(Int)
    BY <1>0, <1>1
  <2>2. IsPrefix(B[n], B[n])
    BY <2>1, PrefixIff
  <2> QED
    BY <1>0, <2>1, <2>2
<1>3. ASSUME NEW i \in 0..((L - n) - 1), i \in Grown
      PROVE  i + 1 \in Grown
  <2>1. /\ n + i \in 0..L /\ n + (i + 1) \in 1..L /\ n + (i + 1) \in 0..L
        /\ (n + (i + 1)) - 1 = n + i /\ i + 1 \in 0..(L - n)
    BY <1>0
  <2> DEFINE g == generate(s[n + (i + 1)])
             b == B[n + i]
             e == B[n + (i + 1)]
  <2>2. g \in Seq(Int) /\ b \in Seq(Int) /\ e \in Seq(Int) /\ B[n] \in Seq(Int)
    BY <1>1, <2>1
  <2>3. e = b \o g
    BY <2>1 DEF IsBytes
  <2>4. IsPrefix(B[n], b)
    BY <1>3
  <2> HIDE DEF g, b, e
  <2>5. Len(B[n]) <= Len(b) /\ \A k \in 1..Len(B[n]) : B[n][k] = b[k]
    BY <2>2, <2>4, PrefixIff
  <2>6. Len(B[n]) <= Len(e) /\ \A k \in 1..Len(B[n]) : B[n][k] = e[k]
    BY <2>2, <2>3, <2>5
  <2>7. IsPrefix(B[n], e)
    BY <2>2, <2>6, PrefixIff
  <2> QED
    BY <2>1, <2>7 DEF e
<1>4. m - n \in 0..(L - n) /\ n + (m - n) = m
  BY <1>0
<1>5. 0..(L - n) \subseteq Grown
  <2> HIDE DEF Grown, L
  <2> QED
    BY <1>0, <1>2, <1>3, UpTo
<1> QED
  BY <1>4, <1>5

\* The commands of a direction, with any values that their fields have room
\* for.
Commands(d) ==
  UNION {{Command(class, p) : p \in Values(class.generated)} : class \in mac_commands_map[d]}

\* What a command of the direction is, and its bytes.
LEMMA CommandBytes ==
  ASSUME NEW d \in {"UP", "DOWN"}, NEW m \in Commands(d)
  PROVE  /\ m.class \in mac_commands_map[d] /\ m.params \in Values(m.class.generated)
         /\ m = Command(m.class, m.params)
         /\ generate(m) \in Seq(Int)
         /\ Len(generate(m)) = 1 + Size(m.class.generated) /\ Size(m.class.generated) \in Nat
         /\ generate(m)[1] = m.class.CID /\ m.class.CID \in 1..19
<1>1. PICK class \in mac_commands_map[d] : \E p \in Values(class.generated) : m = Command(class, p)
  BY DEF Commands
<1>2. PICK p \in Values(class.generated) : m = Command(class, p)
  BY <1>1
<1>3. m.class = class /\ m.params = p
  BY <1>2 DEF Command
<1> QED
  BY <1>2, <1>3, Generated, UPCIDs, DOWNCIDs

\* What arrives of the bytes of the commands s: all of them, the end being cut
\* off or not, or those of the first commands and then something unknown,
\* with anything behind it.
Arrives(s, b) ==
  \/ \E cut \in 0..Len(generateAll(s)) : b = SubSeq(generateAll(s), 1, cut)
  \/ \E n \in 0..Len(s) : \E rest \in Seq(Int) :
       b = generateAll(SubSeq(s, 1, n)) \o <<Unknown>> \o rest

\* Behind the first n commands, b goes on with the bytes of the next one as far
\* as both go.
GoesOn(s, b, B, n) ==
  /\ n < Len(s)
  /\ \A k \in 1..Len(generate(s[n + 1])) :
       Len(B[n]) + k <= Len(b) => b[Len(B[n]) + k] = generate(s[n + 1])[k]

\* The next byte is unknown, or the bytes are those of the next command.
LEMMA NextBytes ==
  ASSUME NEW d \in {"UP", "DOWN"}, NEW s \in Seq(Commands(d)), NEW b, Arrives(s, b),
         NEW B, IsBytes(B, s), NEW n \in 0..Len(s), IsPrefix(B[n], b), b \in Seq(Int),
         Len(b) > Len(B[n])
  PROVE  b[Len(B[n]) + 1] = Unknown \/ GoesOn(s, b, B, n)
<1> SUFFICES \/ b[Len(B[n]) + 1] = Unknown
             \/ /\ n < Len(s)
                /\ \A k \in 1..Len(generate(s[n + 1])) :
                     Len(B[n]) + k <= Len(b) => b[Len(B[n]) + k] = generate(s[n + 1])[k]
  BY Zenon DEF GoesOn
<1> DEFINE L == Len(s)
           Agrees(i, t) == /\ i < L /\ Len(B[i]) \in Nat
                           /\ Len(B[i]) + Len(generate(s[i + 1])) <= Len(t)
                           /\ \A k \in 1..Len(generate(s[i + 1])) :
                                t[Len(B[i]) + k] = generate(s[i + 1])[k]
<1>0. L \in Nat /\ n \in Nat /\ n <= L /\ n \in 0..L
  OBVIOUS
<1>1. \A i \in 1..L : generate(s[i]) \in Seq(Int)
  <2>1. \A i \in 1..L : s[i] \in Commands(d)
    OBVIOUS
  <2> QED
    BY <2>1, CommandBytes
<1>2. \A i \in 0..L : B[i] \in Seq(Int) /\ generateAll(SubSeq(s, 1, i)) = B[i]
  BY DEF IsBytes
<1>3. generateAll(s) = B[L]
  <2>1. SubSeq(s, 1, L) = s /\ L \in 0..L
    BY SubSeqFull
  <2> QED
    BY <1>2, <2>1
\* A beginning that is long enough has the bytes of one command more.
<1>4. ASSUME NEW i \in 0..L, i < L, NEW t, t \in Seq(Int), IsPrefix(B[i + 1], t)
      PROVE  Agrees(i, t)
  <2>1. i + 1 \in 1..L /\ i + 1 \in 0..L /\ (i + 1) - 1 = i
    BY <1>0, <1>4
  <2> DEFINE g == generate(s[i + 1])
             a == B[i]
             e == B[i + 1]
  <2>2. e = a \o g
    BY <2>1 DEF IsBytes
  <2>3. g \in Seq(Int) /\ a \in Seq(Int) /\ e \in Seq(Int)
    BY <1>1, <1>2, <2>1
  <2>4. IsPrefix(e, t)
    BY <1>4
  <2> HIDE DEF g, a, e
  <2>5. Len(e) <= Len(t) /\ \A k \in 1..Len(e) : e[k] = t[k]
    BY <1>4, <2>3, <2>4, PrefixIff
  <2>6. Len(a) + Len(g) <= Len(t) /\ \A k \in 1..Len(g) : t[Len(a) + k] = g[k]
    <3>1. Len(e) = Len(a) + Len(g) /\ Len(a) \in Nat /\ Len(g) \in Nat
      BY <2>2, <2>3
    <3>2. ASSUME NEW k \in 1..Len(g)
          PROVE  t[Len(a) + k] = g[k]
      <4>1. Len(a) + k \in 1..Len(e)
        BY <3>1
      <4>2. e[Len(a) + k] = g[k]
        BY <2>2, <2>3, <3>1, <4>1
      <4> QED
        BY <2>5, <4>1, <4>2
    <3> QED
      BY <2>5, <3>1, <3>2
  <2>7. Len(a) \in Nat
    BY <2>3
  <2> QED
    BY <1>4, <2>6, <2>7 DEF g, a
\* So have the bytes of more commands.
<1>5. ASSUME NEW i \in 0..L, NEW m \in 0..L, i < m
      PROVE  Agrees(i, B[m])
  <2>1. i + 1 \in 0..L /\ m \in (i + 1)..L /\ i < L
    BY <1>0, <1>5
  <2>2. IsPrefix(B[i + 1], B[m])
    BY <1>0, <1>1, <2>1, BytesGrow
  <2> HIDE DEF Agrees
  <2> QED
    BY <1>2, <1>4, <2>1, <2>2
<1>6. CASE \E cut \in 0..Len(generateAll(s)) : b = SubSeq(generateAll(s), 1, cut)
  <2> DEFINE G == B[L]
  <2>1. G \in Seq(Int) /\ L \in 0..L
    BY <1>0, <1>2
  <2>2. PICK cut \in 0..Len(G) : b = SubSeq(G, 1, cut)
    BY <1>3, <1>6
  <2>g. n # L
    <3> HIDE DEF G
    <3>1. Len(b) <= Len(G)
      BY <2>1, <2>2
    <3> QED
      BY <2>1, <3>1 DEF G
  <2>3. Agrees(n, G)
    <3> HIDE DEF Agrees, L
    <3>1. n < L
      BY <1>0, <2>g
    <3> QED
      BY <1>0, <1>5, <2>1, <3>1
  <2>4. Len(b) = cut /\ \A k \in 1..cut : b[k] = G[k]
    <3> HIDE DEF G
    <3> QED
      BY <2>1, <2>2
  <2> DEFINE a == Len(B[n])
             g == generate(s[n + 1])
  <2>5. n + 1 \in 1..L
    BY <1>0, <2>3
  <2>6. a \in Nat /\ g \in Seq(Int)
    BY <1>1, <2>3, <2>5
  <2>7. n < L /\ \A k \in 1..Len(g) : G[a + k] = g[k]
    BY <2>3
  <2> HIDE DEF G, a, g, Agrees
  <2>8. \A k \in 1..Len(g) : a + k <= Len(b) => b[a + k] = g[k]
    BY <2>2, <2>4, <2>6, <2>7
  <2> QED
    BY <2>7, <2>8 DEF a, g
<1>7. CASE \E m \in 0..Len(s) : \E rest \in Seq(Int) :
             b = generateAll(SubSeq(s, 1, m)) \o <<Unknown>> \o rest
  <2>1. PICK m \in 0..L : \E rest \in Seq(Int) : b = B[m] \o <<Unknown>> \o rest
    BY <1>2, <1>7
  <2>2. PICK rest \in Seq(Int) : b = B[m] \o <<Unknown>> \o rest
    BY <2>1
  <2>3. B[m] \in Seq(Int) /\ Len(B[m]) \in Nat
    BY <1>2
  <2>4. /\ Len(b) >= Len(B[m]) + 1 /\ b[Len(B[m]) + 1] = Unknown
        /\ \A k \in 1..Len(B[m]) : b[k] = B[m][k]
    <3> DEFINE c == B[m]
    <3> HIDE DEF c
    <3>1. c \in Seq(Int)
      BY <2>3 DEF c
    <3>2. b = c \o <<Unknown>> \o rest
      BY <2>2 DEF c
    <3>3. /\ Len(b) >= Len(c) + 1 /\ b[Len(c) + 1] = Unknown
          /\ \A k \in 1..Len(c) : b[k] = c[k]
      BY <3>1, <3>2
    <3> QED
      BY <3>3 DEF c
  <2>5. CASE n = m
    BY <2>4, <2>5
  <2>6. CASE n < m
    <3>1. Agrees(n, B[m])
      <4> HIDE DEF Agrees, L
      <4> QED
        BY <1>0, <1>5, <2>6
    <3> DEFINE a == Len(B[n])
               g == generate(s[n + 1])
               c == B[m]
    <3>2. n + 1 \in 1..L
      BY <1>0, <3>1
    <3>3. a \in Nat /\ g \in Seq(Int)
      BY <1>1, <3>1, <3>2
    <3>4. n < L /\ a + Len(g) <= Len(c) /\ \A k \in 1..Len(g) : c[a + k] = g[k]
      BY <3>1
    <3>5. Len(c) \in Nat /\ \A k \in 1..Len(c) : b[k] = c[k]
      BY <2>3, <2>4
    <3> HIDE DEF a, g, c, Agrees
    <3>6. \A k \in 1..Len(g) : b[a + k] = g[k]
      BY <3>3, <3>4, <3>5
    <3> QED
      BY <3>4, <3>6 DEF a, g
  <2>7. CASE n > m
    <3>1. Agrees(m, B[n])
      <4> HIDE DEF Agrees, L
      <4> QED
        BY <1>0, <1>5, <2>7
    <3> DEFINE c == B[n]
               g == generate(s[m + 1])
    <3>2. m + 1 \in 1..L /\ s[m + 1] \in Commands(d)
      BY <1>0, <3>1
    <3>3. Len(g) >= 1 /\ g[1] \in 1..19
      <4>1. /\ Len(g) = 1 + Size(s[m + 1].class.generated)
            /\ Size(s[m + 1].class.generated) \in Nat
            /\ g[1] = s[m + 1].class.CID /\ s[m + 1].class.CID \in 1..19
        BY <3>2, CommandBytes
      <4> QED
        BY <4>1
    <3>4. /\ Len(B[m]) + Len(g) <= Len(c)
          /\ \A k \in 1..Len(g) : c[Len(B[m]) + k] = g[k]
      BY <3>1
    <3>5. c \in Seq(Int) /\ g \in Seq(Int)
      BY <1>1, <1>2, <3>2
    <3>6. IsPrefix(c, b)
      OBVIOUS
    <3> HIDE DEF c, g, Agrees
    <3>7. \A k \in 1..Len(c) : c[k] = b[k]
      BY <3>5, <3>6, PrefixIff
    <3>8. b[Len(B[m]) + 1] \in 1..19
      <4>1. 1 \in 1..Len(g) /\ Len(B[m]) + 1 \in 1..Len(c)
        <5>1. Len(g) \in Nat /\ Len(c) \in Nat
          BY <3>5
        <5>2. Len(B[m]) + Len(g) <= Len(c)
          BY <3>4
        <5>3. Len(g) >= 1
          BY <3>3
        <5>4. 1 \in 1..Len(g)
          BY <5>1, <5>3
        <5>5. Len(B[m]) \in Nat
          BY <2>3
        <5>6. Len(B[m]) + 1 <= Len(c)
          BY <5>1, <5>2, <5>3, <5>5
        <5>7. Len(B[m]) + 1 \in 1..Len(c)
          BY <5>1, <5>5, <5>6
        <5> QED
          BY <5>4, <5>7
      <4>2. c[Len(B[m]) + 1] = g[1] /\ c[Len(B[m]) + 1] = b[Len(B[m]) + 1]
        BY <3>4, <3>7, <4>1
      <4> QED
        BY <3>3, <4>2
    <3> QED
      BY <2>4, <3>8 DEF Unknown
  <2> QED
    BY <1>0, <2>5, <2>6, <2>7
<1> QED
  BY <1>6, <1>7 DEF Arrives

\* A part of a sequence, element by element.
LEMMA Slice ==
  ASSUME NEW b \in Seq(Int), NEW x \in Nat, NEW n \in Nat, x + n <= Len(b)
  PROVE  /\ SubSeq(b, x + 1, x + n) \in Seq(Int) /\ Len(SubSeq(b, x + 1, x + n)) = n
         /\ \A k \in 1..n : SubSeq(b, x + 1, x + n)[k] = b[x + k]
<1>1. \A i \in (x + 1)..(x + n) : b[i] \in Int
  OBVIOUS
<1>2. /\ SubSeq(b, x + 1, x + n) \in Seq(Int)
      /\ Len(SubSeq(b, x + 1, x + n)) = IF x + 1 <= x + n THEN (x + n) - (x + 1) + 1 ELSE 0
      /\ \A i \in 1..((x + n) - (x + 1) + 1) : SubSeq(b, x + 1, x + n)[i] = b[(x + 1) + i - 1]
  BY <1>1, SubSeqProperties
<1>3. (x + n) - (x + 1) + 1 = n /\ (n # 0 <=> x + 1 <= x + n)
  OBVIOUS
<1>4. \A k \in 1..n : (x + 1) + k - 1 = x + k
  OBVIOUS
<1> QED
  BY <1>2, <1>3, <1>4

\* The elements of two sequences, one behind the other.
Joined(c, g, e) ==
  /\ e \in Seq(Int) /\ Len(e) = Len(c) + Len(g) /\ Len(c) \in Nat /\ Len(g) \in Nat
  /\ \A k \in 1..Len(c) : e[k] = c[k]
  /\ \A k \in 1..Len(g) : e[Len(c) + k] = g[k]

\* They are those of the concatenation.
LEMMA Concatenated ==
  ASSUME NEW c, c \in Seq(Int), NEW g, g \in Seq(Int)
  PROVE  Joined(c, g, c \o g)
<1>1. Len(c) \in Nat /\ Len(g) \in Nat
  OBVIOUS
<1>2. /\ c \o g \in Seq(Int) /\ Len(c \o g) = Len(c) + Len(g)
      /\ \A i \in 1..(Len(c) + Len(g)) :
           (c \o g)[i] = IF i <= Len(c) THEN c[i] ELSE g[i - Len(c)]
  BY ConcatProperties
<1>3. \A k \in 1..Len(c) : k \in 1..(Len(c) + Len(g)) /\ k <= Len(c)
  BY <1>1
<1>4. \A k \in 1..Len(g) : /\ Len(c) + k \in 1..(Len(c) + Len(g)) /\ ~(Len(c) + k <= Len(c))
                           /\ (Len(c) + k) - Len(c) = k
  BY <1>1
<1> QED
  BY <1>1, <1>2, <1>3, <1>4 DEF Joined

\* If the bytes g come behind c in b, they are there.
LEMMA Continued ==
  ASSUME NEW c, c \in Seq(Int), NEW g, g \in Seq(Int), NEW b, b \in Seq(Int),
         NEW size, size \in Nat, Len(g) = 1 + size, IsPrefix(c \o g, b)
  PROVE  b[Len(c) + 1] = g[1] /\ Len(b) > Len(c) /\ Len(b) - Len(c) - 1 >= size
<1> DEFINE e == c \o g
<1>1. /\ e \in Seq(Int) /\ Len(e) = Len(c) + Len(g) /\ Len(c) \in Nat
      /\ \A k \in 1..Len(g) : e[Len(c) + k] = g[k]
  <2>1. Joined(c, g, e)
    BY Concatenated, Zenon
  <2> QED
    BY <2>1, Zenon DEF Joined
<1>2. IsPrefix(e, b)
  OBVIOUS
<1> HIDE DEF e
<1>3. Len(e) <= Len(b) /\ \A k \in 1..Len(e) : e[k] = b[k]
  BY <1>1, <1>2, PrefixIff
<1>4. Len(e) = Len(c) + 1 + size /\ Len(b) \in Nat /\ 1 \in 1..Len(g) /\ Len(c) + 1 \in 1..Len(e)
  <2>1. Len(e) = Len(c) + (1 + size) /\ Len(c) \in Nat /\ Len(b) \in Nat /\ size \in Nat
    <3>1. Len(b) \in Nat
      OBVIOUS
    <3>2. Len(e) = Len(c) + Len(g)
      BY <1>1, Zenon
    <3>3. Len(e) = Len(c) + (1 + size)
      BY <3>2, Zenon
    <3> QED
      BY <1>1, <3>1, <3>3, Zenon
  <2>2. Len(e) = Len(c) + 1 + size /\ Len(b) \in Nat /\ Len(c) + 1 \in 1..Len(e)
    BY <2>1
  <2>3. 1 \in 1..Len(g)
    OBVIOUS
  <2> QED
    BY <2>2, <2>3
<1>5. b[Len(c) + 1] = g[1]
  BY <1>1, <1>3, <1>4
<1> QED
  BY <1>1, <1>3, <1>4, <1>5

\* Behind c, the bytes of b are those of g: one and then raw.
Framed(c, g, b, raw, size) ==
  /\ c \in Seq(Int) /\ g \in Seq(Int) /\ b \in Seq(Int) /\ raw \in Seq(Int) /\ size \in Nat
  /\ Len(g) = 1 + size /\ Len(raw) = size /\ \A k \in 1..size : g[k + 1] = raw[k]
  /\ IsPrefix(c, b) /\ Len(b) - Len(c) - 1 >= size
  /\ \A k \in 1..Len(g) : Len(c) + k <= Len(b) => b[Len(c) + k] = g[k]

\* Then raw can be read there, and b goes on as far as the end of g.
LEMMA OneMore ==
  ASSUME NEW c, NEW g, NEW b, NEW raw, NEW size, Framed(c, g, b, raw, size)
  PROVE  /\ SubSeq(b, Len(c) + 2, Len(c) + 1 + size) = raw
         /\ Len(c \o g) = Len(c) + 1 + size
         /\ IsPrefix(c \o g, b)
<1> /\ c \in Seq(Int) /\ g \in Seq(Int) /\ b \in Seq(Int) /\ raw \in Seq(Int) /\ size \in Nat
    /\ Len(g) = 1 + size /\ Len(raw) = size /\ \A k \in 1..size : g[k + 1] = raw[k]
    /\ IsPrefix(c, b) /\ Len(b) - Len(c) - 1 >= size
    /\ \A k \in 1..Len(g) : Len(c) + k <= Len(b) => b[Len(c) + k] = g[k]
  BY DEF Framed
<1> DEFINE a == Len(c)
<1>1. a \in Nat /\ Len(b) \in Nat /\ a + Len(g) <= Len(b)
  OBVIOUS
<1>2. \A k \in 1..Len(g) : b[a + k] = g[k]
  BY <1>1
<1>3. \A k \in 1..Len(c) : c[k] = b[k]
  BY PrefixIff
<1>4. SubSeq(b, Len(c) + 2, Len(c) + 1 + size) = raw
  <2> DEFINE t == SubSeq(b, (a + 1) + 1, (a + 1) + size)
  <2>1. a + 1 \in Nat /\ (a + 1) + size <= Len(b) /\ (a + 1) + 1 = Len(c) + 2
    BY <1>1
  <2> HIDE DEF a
  <2>2. /\ t \in Seq(Int) /\ Len(t) = size
        /\ \A k \in 1..size : t[k] = b[(a + 1) + k]
    BY <2>1, Slice
  <2> HIDE DEF t
  <2>3. ASSUME NEW k \in 1..size
        PROVE  t[k] = raw[k]
    <3>1. k + 1 \in 1..Len(g) /\ a + (k + 1) = (a + 1) + k
      BY <1>1
    <3>2. b[a + (k + 1)] = g[k + 1]
      BY <1>2, <3>1
    <3> QED
      BY <2>2, <3>1, <3>2
  <2>4. t = raw
    BY <2>2, <2>3, SeqEqual
  <2> QED
    BY <2>1, <2>4 DEF t, a
<1> DEFINE e == c \o g
<1>5. /\ e \in Seq(Int) /\ Len(e) = a + Len(g)
      /\ \A k \in 1..a : e[k] = c[k]
      /\ \A k \in 1..Len(g) : e[a + k] = g[k]
  <2>1. Joined(c, g, e)
    BY Concatenated, Zenon
  <2> QED
    BY <2>1, Zenon DEF Joined
<1>c. \A k \in 1..a : c[k] = b[k]
  BY <1>3
<1> HIDE DEF e, a
<1>6. ASSUME NEW k \in 1..Len(e)
      PROVE  e[k] = b[k]
  <2>1. CASE k <= a
    <3>1. k \in 1..a
      BY <1>1, <2>1
    <3> QED
      BY <1>c, <1>5, <3>1
  <2>2. CASE k > a
    <3>1. k - a \in 1..Len(g) /\ a + (k - a) = k
      BY <1>1, <1>5, <2>2
    <3>2. e[a + (k - a)] = g[k - a] /\ b[a + (k - a)] = g[k - a]
      BY <1>2, <1>5, <3>1
    <3> QED
      BY <3>1, <3>2
  <2> QED
    BY <1>1, <2>1, <2>2
<1>7. Len(e) <= Len(b)
  BY <1>1, <1>5
<1>8. IsPrefix(e, b)
  BY <1>5, <1>6, <1>7, PrefixIff
<1> QED
  BY <1>1, <1>4, <1>5, <1>8 DEF e, a

\* Bytes arrive.
LEMMA ArrivedBytes ==
  ASSUME NEW d \in {"UP", "DOWN"}, NEW s \in Seq(Commands(d)), NEW b, Arrives(s, b)
  PROVE  b \in Seq(Int) /\ \E B : IsBytes(B, s)
<1>1. \A i \in 1..Len(s) : generate(s[i]) \in Seq(Int)
  <2>1. \A i \in 1..Len(s) : s[i] \in Commands(d)
    OBVIOUS
  <2> QED
    BY <2>1, CommandBytes
<1>2. PICK B : IsBytes(B, s)
  <2> HIDE DEF IsBytes
  <2> QED
    BY <1>1, BytesExist
<1>3. \A i \in 0..Len(s) : generateAll(SubSeq(s, 1, i)) \in Seq(Int)
  BY <1>2 DEF IsBytes
<1>4. generateAll(s) \in Seq(Int)
  <2>1. SubSeq(s, 1, Len(s)) = s /\ Len(s) \in 0..Len(s)
    BY SubSeqFull
  <2> QED
    BY <1>3, <2>1
<1>5. b \in Seq(Int)
  <2>1. CASE \E cut \in 0..Len(generateAll(s)) : b = SubSeq(generateAll(s), 1, cut)
    <3> DEFINE G == generateAll(s)
    <3>1. G \in Seq(Int)
      BY <1>4
    <3>2. PICK cut \in 0..Len(G) : b = SubSeq(G, 1, cut)
      BY <2>1
    <3> HIDE DEF G
    <3> QED
      BY <3>1, <3>2
  <2>2. CASE \E n \in 0..Len(s) : \E rest \in Seq(Int) :
               b = generateAll(SubSeq(s, 1, n)) \o <<Unknown>> \o rest
    <3>1. PICK n \in 0..Len(s), rest \in Seq(Int) :
            b = generateAll(SubSeq(s, 1, n)) \o <<Unknown>> \o rest
      BY <2>2
    <3> DEFINE G == generateAll(SubSeq(s, 1, n))
    <3>2. G \in Seq(Int) /\ b = G \o <<Unknown>> \o rest
      BY <1>3, <3>1
    <3> HIDE DEF G
    <3>3. rest \in Seq(Int) /\ <<Unknown>> \in Seq(Int)
      <4>1. Unknown \in Int
        BY DEF Unknown
      <4> QED
        BY <4>1
    <3> QED
      BY <3>2, <3>3
  <2> QED
    BY <2>1, <2>2 DEF Arrives
<1> QED
  BY <1>2, <1>5

\* The commands whose parameters are all read back; that of a DevStatusAns with
\* a margin of 0 is not.
Readable(s) == \A i \in 1..Len(s) : s[i].class = DevStatusAns => Survives(s[i])

\* Behind the first bytes of b come all those that the class needs.
Complete(class, b, at) ==
  /\ Len(b) > at /\ class.CID = b[at + 1] /\ Len(b) - at - 1 >= class.SIZE
  /\ \A f \in class.parsed : f.at + f.len <= class.SIZE

\* What is created is the next command.
LEMMA CreatedIsNext ==
  ASSUME NEW d \in {"UP", "DOWN"}, NEW s \in Seq(Commands(d)), Readable(s),
         NEW b, Arrives(s, b), b \in Seq(Int),
         NEW B, IsBytes(B, s), NEW n \in 0..Len(s), IsPrefix(B[n], b),
         NEW class \in mac_commands_map[d], Complete(class, b, Len(B[n]))
  PROVE  /\ n < Len(s)
         /\ parse(class, SubSeq(b, Len(B[n]) + 2, Len(B[n]) + 1 + class.SIZE)) = s[n + 1]
         /\ Len(B[n + 1]) = Len(B[n]) + 1 + class.SIZE
         /\ IsPrefix(B[n + 1], b)
<1> DEFINE a == Len(B[n])
           g == generate(s[n + 1])
           p == s[n + 1].params
           raw == Encode(class.generated, p)
<1> /\ Len(b) > Len(B[n]) /\ class.CID = b[Len(B[n]) + 1]
    /\ Len(b) - Len(B[n]) - 1 >= class.SIZE
    /\ \A f \in class.parsed : f.at + f.len <= class.SIZE
  BY DEF Complete
<1>1. class.CID \in 1..19 /\ class.SIZE \in Nat
  BY UPCIDs, DOWNCIDs
<1>2. n < Len(s) /\ \A k \in 1..Len(g) : a + k <= Len(b) => b[a + k] = g[k]
  <2>0. class.CID # Unknown
    <3>1. \A x \in 1..19 : x # Unknown
      BY DEF Unknown
    <3> QED
      BY <1>1, <3>1, Zenon
  <2>1. b[Len(B[n]) + 1] # Unknown
    BY <2>0, Zenon
  <2> HIDE DEF a, g, p, raw
  <2>2. b[Len(B[n]) + 1] = Unknown \/ GoesOn(s, b, B, n)
    BY NextBytes
  <2> QED
    BY <2>1, <2>2, Zenon DEF GoesOn, a, g
<1>3. n \in Nat /\ n + 1 \in 1..Len(s) /\ n + 1 \in 0..Len(s) /\ (n + 1) - 1 = n /\ s[n + 1] \in Commands(d)
  <2>1. n < Len(s)
    BY <1>2, Zenon
  <2> QED
    BY <2>1, OneFurther, Zenon
<1>4. /\ s[n + 1].class \in mac_commands_map[d] /\ p \in Values(s[n + 1].class.generated)
      /\ s[n + 1] = Command(s[n + 1].class, p)
      /\ g \in Seq(Int) /\ Len(g) = 1 + Size(s[n + 1].class.generated)
      /\ Size(s[n + 1].class.generated) \in Nat /\ g[1] = s[n + 1].class.CID
  BY <1>3, CommandBytes
<1>5. B[n] \in Seq(Int) /\ B[n + 1] \in Seq(Int) /\ B[n + 1] = B[n] \o g
  BY <1>3 DEF IsBytes
<1>6. a \in Nat /\ Len(b) \in Nat /\ a + 1 <= Len(b)
  BY <1>5, SMTT(30)
<1>7. class = s[n + 1].class
  <2>1. 1 \in 1..Len(g)
    BY <1>4
  <2>2. b[a + 1] = g[1]
    BY <1>2, <1>6, <2>1
  <2>3. class.CID = s[n + 1].class.CID
    BY <1>4, <2>2
  <2> QED
    BY <1>4, <2>3, UPCIDs, DOWNCIDs
<1>8. class # PingSlotChannelReq
  <2> SUFFICES ASSUME class = PingSlotChannelReq
               PROVE  FALSE
    OBVIOUS
  <2> DEFINE f == Bits("datarate", 3, 0, 4)
  <2>1. f \in class.parsed /\ class.SIZE = 1
    BY DEF PingSlotChannelReq, Plain, Class
  <2>2. f.at = 3 /\ f.len = 1
    BY DEF Bits
  <2> HIDE DEF f
  <2>3. f.at + f.len <= class.SIZE
    BY <2>1, Zenon
  <2> QED
    BY <2>1, <2>2, <2>3
<1>9. class = DevStatusAns => p["margin"] # 0
  BY <1>3, <1>7 DEF Readable, Survives
<1>10. parse(class, raw) = s[n + 1] /\ Size(class.generated) = class.SIZE
  BY <1>4, <1>7, <1>8, <1>9, ParsedBack
<1>11. /\ raw \in Seq(Int) /\ Len(raw) = class.SIZE /\ Len(g) = 1 + class.SIZE
       /\ \A k \in 1..class.SIZE : g[k + 1] = raw[k]
  <2> DEFINE m == s[n + 1]
  <2>1. m = Command(class, p) /\ p \in Values(class.generated)
    BY <1>4, <1>7
  <2> HIDE DEF m, p
  <2>2. /\ Len(generate(m)) = 1 + Size(class.generated)
        /\ Encode(class.generated, p) \in Seq(Int)
        /\ Len(Encode(class.generated, p)) = Size(class.generated)
        /\ \A k \in 1..Size(class.generated) :
             generate(m)[k + 1] = Encode(class.generated, p)[k]
    BY <2>1, Generated, SMTT(30)
  <2> QED
    BY <1>10, <2>2 DEF m, p
<1>12. B[n + 1] = B[n] \o g /\ B[n] \in Seq(Int) /\ g \in Seq(Int)
  BY <1>4, <1>5, Zenon
<1>13. raw \in Seq(Int) /\ class.SIZE \in Nat /\ Len(g) = 1 + class.SIZE /\ Len(raw) = class.SIZE
  BY <1>1, <1>11, Zenon
<1>14. \A k \in 1..class.SIZE : g[k + 1] = raw[k]
  BY <1>11, Zenon
<1> DEFINE c == B[n]
<1>15. \A k \in 1..Len(g) : Len(c) + k <= Len(b) => b[Len(c) + k] = g[k]
  BY <1>2, Zenon
<1> DEFINE size == class.SIZE
<1>16. IsPrefix(c, b) /\ Len(b) - Len(c) - 1 >= size
  OBVIOUS
<1> HIDE DEF g, p, raw, size, c
<1>17. /\ SubSeq(b, Len(c) + 2, Len(c) + 1 + size) = raw
       /\ Len(c \o g) = Len(c) + 1 + size
       /\ IsPrefix(c \o g, b)
  <2>1. c \in Seq(Int) /\ g \in Seq(Int) /\ raw \in Seq(Int)
    BY <1>12, <1>13, Zenon DEF c
  <2>2. size \in Nat /\ Len(g) = 1 + size /\ Len(raw) = size
    BY <1>13, Zenon DEF size
  <2>3. \A k \in 1..size : g[k + 1] = raw[k]
    BY <1>14, Zenon DEF size
  <2> QED
    <3>1. Framed(c, g, b, raw, size)
      BY <1>15, <1>16, <2>1, <2>2, <2>3, Zenon DEF Framed
    <3> QED
      BY <3>1, OneMore, Zenon
<1> QED
  BY <1>2, <1>10, <1>12, <1>17, Zenon DEF raw, c, size

\* The next command can be created if all of its bytes are there.
LEMMA NextIsCreated ==
  ASSUME NEW d \in {"UP", "DOWN"}, NEW s \in Seq(Commands(d)), Readable(s),
         NEW b, b \in Seq(Int),
         NEW B, IsBytes(B, s), NEW n \in 0..Len(s), n < Len(s), IsPrefix(B[n + 1], b),
         NEW class, class = s[n + 1].class, class # PingSlotChannelReq
  PROVE  class \in mac_commands_map[d] /\ Complete(class, b, Len(B[n]))
<1> DEFINE c == B[n]
           e == B[n + 1]
           g == generate(s[n + 1])
           p == s[n + 1].params
<1>1. n \in Nat /\ n + 1 \in 1..Len(s) /\ n + 1 \in 0..Len(s) /\ (n + 1) - 1 = n /\ s[n + 1] \in Commands(d)
  BY OneFurther, Zenon
<1>2. /\ class \in mac_commands_map[d] /\ p \in Values(class.generated)
      /\ g \in Seq(Int) /\ Len(g) = 1 + Size(class.generated)
      /\ Size(class.generated) \in Nat /\ g[1] = class.CID
  BY <1>1, CommandBytes
<1>3. class = DevStatusAns => p["margin"] # 0
  BY <1>1 DEF Readable, Survives
<1>4. /\ Size(class.generated) = class.SIZE
      /\ \A f \in class.parsed : f.at + f.len <= class.SIZE
  BY <1>2, <1>3, ParsedBack
<1>5. c \in Seq(Int) /\ e \in Seq(Int) /\ e = c \o g
  BY <1>1 DEF IsBytes
<1>6. IsPrefix(c \o g, b)
  BY <1>5
<1>7. c \in Seq(Int) /\ g \in Seq(Int)
  BY <1>2, <1>5, Zenon
<1>8. Len(g) = 1 + class.SIZE /\ class.SIZE \in Nat
  BY <1>2, <1>4
<1> DEFINE size == class.SIZE
<1>9. size \in Nat /\ Len(g) = 1 + size
  BY <1>8, Zenon
<1> HIDE DEF c, e, g, p, size
<1>10. b[Len(c) + 1] = g[1] /\ Len(b) > Len(c) /\ Len(b) - Len(c) - 1 >= size
  BY <1>6, <1>7, <1>9, Continued, Zenon
<1>11. class.CID = b[Len(c) + 1]
  BY <1>2, <1>10, Zenon
<1> QED
  BY <1>2, <1>4, <1>10, <1>11, Zenon DEF c, size, Complete

-----------------------------------------------------------------------------
(* The specification, its invariant and the theorems.                      *)

\* The parser on what arrives of the commands of a sender.
ParserInit ==
  /\ direction \in {"UP", "DOWN"}
  /\ sent \in Seq(Commands(direction)) /\ Arrives(sent, buffer)
  /\ position = 0 /\ result = <<>> /\ done = FALSE

ParserNext == Create \/ CreateError \/ End

ParserSpec == ParserInit /\ [][ParserNext]_vars

\* The bytes of the first n commands.
Bytes(n) == generateAll(SubSeq(sent, 1, n))

\* They have arrived.
AllArrived(n) == IsPrefix(Bytes(n), buffer)

\* Why parsing may stop behind n commands.
Stopped(n) ==
  n < Len(sent) => ~AllArrived(n + 1) \/ sent[n + 1].class = PingSlotChannelReq

\* n commands have been parsed: those that were sent first, and the stream has
\* been read as far as their bytes go.
Parsed(n) ==
  /\ result = SubSeq(sent, 1, n)
  /\ position = Len(Bytes(n)) /\ AllArrived(n)
  /\ done => Stopped(n)

\* What was sent and what arrived stays as it is.
Given ==
  /\ direction \in {"UP", "DOWN"}
  /\ sent \in Seq(Commands(direction)) /\ Arrives(sent, buffer)

\* The inductive invariant: parsing is at the boundary of two commands.
ParserInv == Given /\ (Readable(sent) => \E n \in 0..Len(sent) : Parsed(n))

\* Nothing has been parsed at first.
LEMMA ParserInitially == ParserInit => ParserInv
<1> SUFFICES ASSUME ParserInit
             PROVE  ParserInv
  OBVIOUS
<1>1. Given
  BY DEF ParserInit, Given
<1>2. SubSeq(sent, 1, 0) = <<>> /\ 0 \in 0..Len(sent) /\ Len(sent) \in Nat
  BY SubSeqEmpty DEF ParserInit
<1>3. Bytes(0) = <<>>
  BY <1>2 DEF Bytes, generateAll, FlattenSeq
<1>4. buffer \in Seq(Int)
  BY ArrivedBytes DEF ParserInit
<1>5. AllArrived(0) /\ Len(Bytes(0)) = 0
  <2>1. SubSeq(<<>>, 1, 0) = <<>> /\ SubSeq(buffer, 1, 0) = <<>>
    BY SubSeqEmpty
  <2>2. Len(<<>>) = 0 /\ 0 <= Len(buffer)
    BY <1>4
  <2> QED
    BY <1>3, <2>1, <2>2 DEF AllArrived, IsPrefix
<1>6. Parsed(0)
  BY <1>2, <1>5 DEF ParserInit, Parsed
<1> QED
  BY <1>1, <1>2, <1>6 DEF ParserInv

\* A round of the loop goes on by one whole command or ends.
LEMMA ParserStep == ParserInv /\ [ParserNext]_vars => ParserInv'
<1> SUFFICES ASSUME ParserInv, [ParserNext]_vars
             PROVE  ParserInv'
  OBVIOUS
<1>1. Given
  BY DEF ParserInv
<1>2. direction' = direction /\ sent' = sent /\ buffer' = buffer
  BY DEF ParserNext, Create, CreateError, End, vars
<1>3. Given'
  BY <1>1, <1>2 DEF Given
<1>4. ASSUME Readable(sent)
      PROVE  \E n \in 0..Len(sent) : Parsed(n)'
  <2>1. PICK n \in 0..Len(sent) : Parsed(n)
    BY <1>4 DEF ParserInv
  <2>2. buffer \in Seq(Int) /\ \E B : IsBytes(B, sent)
    BY <1>1, ArrivedBytes DEF Given
  <2>3. PICK B : IsBytes(B, sent)
    BY <2>2
  <2>4. \A i \in 0..Len(sent) : Bytes(i) = B[i] /\ B[i] \in Seq(Int)
    BY <2>3 DEF IsBytes, Bytes
  <2>5. \A i \in 0..Len(sent) : (AllArrived(i) <=> IsPrefix(B[i], buffer))
    BY <2>4 DEF AllArrived
  <2>6. /\ position = Len(B[n]) /\ IsPrefix(B[n], buffer) /\ position \in Nat
        /\ result = SubSeq(sent, 1, n)
    BY <2>1, <2>4, <2>5 DEF Parsed
  <2>7. Len(sent) \in Nat
    BY <1>1 DEF Given
  <2>8. CASE Create
    <3>1. PICK class \in Next1 :
            /\ Creatable(class)
            /\ result' = Append(result, parse(class,
                 SubSeq(buffer, position + 2, position + 1 + class.SIZE)))
            /\ position' = position + 1 + class.SIZE
      BY <2>8 DEF Create
    <3>2. class \in mac_commands_map[direction] /\ class.CID = buffer[position + 1]
          /\ Len(buffer) > position
      BY <2>2, <2>6, <3>1 DEF Next1, left
    <3>3. Complete(class, buffer, Len(B[n]))
      BY <2>6, <3>1, <3>2 DEF Creatable, left, Complete
    <3>4. /\ n < Len(sent)
          /\ parse(class, SubSeq(buffer, Len(B[n]) + 2, Len(B[n]) + 1 + class.SIZE)) = sent[n + 1]
          /\ Len(B[n + 1]) = Len(B[n]) + 1 + class.SIZE
          /\ IsPrefix(B[n + 1], buffer)
      BY <1>1, <1>4, <2>2, <2>3, <2>6, <3>2, <3>3, CreatedIsNext DEF Given
    <3>5. n + 1 \in 0..Len(sent) /\ n \in Nat /\ n + 1 \in 1..Len(sent)
      BY <2>7, <3>4
    <3>6. result' = SubSeq(sent, 1, n + 1)
      <4>1. result' = Append(result, sent[n + 1])
        BY <2>6, <3>1, <3>4
      <4>2. SubSeq(sent, 1, n + 1) = SubSeq(sent, 1, n) \o <<sent[n + 1]>>
        <5>1. 1 \in 1..Len(sent) /\ n + 1 \in 1..Len(sent) /\ (n + 1) - 1 = n
          BY <3>5
        <5> QED
          BY <1>1, <5>1, SubSeqRecursiveSecond DEF Given
      <4>3. Append(result, sent[n + 1]) = result \o <<sent[n + 1]>>
        <5>1. result \in Seq(Commands(direction)) /\ sent[n + 1] \in Commands(direction)
          BY <1>1, <2>6, <3>5 DEF Given
        <5> QED
          BY <5>1, AppendIsConcat
      <4> QED
        BY <2>6, <4>1, <4>2, <4>3
    <3>7. position' = Len(Bytes(n + 1)) /\ AllArrived(n + 1)
      BY <2>4, <2>5, <2>6, <3>1, <3>4, <3>5
    <3>8. done' = FALSE
      BY <2>8 DEF Create
    <3>9. Parsed(n + 1)'
      BY <1>2, <3>6, <3>7, <3>8 DEF Parsed, Bytes, AllArrived
    <3> QED
      BY <3>5, <3>9
  <2>9. ASSUME CreateError \/ End
        PROVE  Stopped(n)
    <3> SUFFICES ASSUME n < Len(sent), AllArrived(n + 1),
                        sent[n + 1].class # PingSlotChannelReq
                 PROVE  FALSE
      BY DEF Stopped
    <3>1. n + 1 \in 0..Len(sent) /\ IsPrefix(B[n + 1], buffer)
      BY <2>5, <2>7
    <3> DEFINE class == sent[n + 1].class
    <3> HIDE DEF class
    <3>2. class \in mac_commands_map[direction] /\ Complete(class, buffer, position)
      <4>1. class = sent[n + 1].class /\ class # PingSlotChannelReq
        BY DEF class
      <4>2. class \in mac_commands_map[direction] /\ Complete(class, buffer, Len(B[n]))
        BY <1>1, <1>4, <2>2, <2>3, <3>1, <4>1, NextIsCreated DEF Given
      <4> QED
        BY <2>6, <4>2
    <3>3. left > 0 /\ left - 1 >= class.SIZE /\ left # 0
      BY <2>2, <2>6, <3>2 DEF left, Complete
    <3>4. class \in Next1 /\ Creatable(class)
      BY <2>6, <3>2, <3>3 DEF Next1, Creatable, Complete
    <3> QED
      BY <2>9, <3>3, <3>4 DEF CreateError, End
  <2>10. CASE CreateError \/ End
    <3>1. result' = result /\ position' = position
      BY <2>10 DEF CreateError, End
    <3>2. Parsed(n)'
      BY <1>2, <2>1, <2>9, <2>10, <3>1 DEF Parsed, Bytes, AllArrived, Stopped
    <3> QED
      BY <3>2
  <2>11. CASE UNCHANGED vars
    <3>1. Parsed(n)'
      BY <2>1, <2>11 DEF Parsed, Bytes, AllArrived, Stopped, vars
    <3> QED
      BY <3>1
  <2> QED
    BY <2>8, <2>10, <2>11 DEF ParserNext
<1> QED
  BY <1>2, <1>3, <1>4 DEF ParserInv

\* Hence it is so always.
LEMMA ParserAlways == ParserSpec => []ParserInv
BY ParserInitially, ParserStep, PTL DEF ParserSpec

\* Behind n commands, parsing has not stopped before a command whose bytes
\* have all arrived.
LEMMA NotTooEarly ==
  ASSUME ParserInv, Readable(sent), done, NEW n \in 0..Len(sent), Parsed(n),
         NEW m \in 0..Len(sent), AllArrived(m), \A i \in 1..m : Survives(sent[i])
  PROVE  m <= n
<1> SUFFICES ASSUME n < m
             PROVE  FALSE
  OBVIOUS
<1>0. Len(sent) \in Nat /\ n \in Nat /\ m \in Nat
  BY DEF ParserInv, Given
<1>1. n + 1 \in 1..m /\ n + 1 \in 1..Len(sent) /\ n + 1 \in 0..Len(sent) /\ m \in (n + 1)..Len(sent)
  BY <1>0
<1>2. buffer \in Seq(Int) /\ \E B : IsBytes(B, sent)
  BY ArrivedBytes DEF ParserInv, Given
<1>3. PICK B : IsBytes(B, sent)
  BY <1>2
<1>4. \A i \in 0..Len(sent) : Bytes(i) = B[i] /\ B[i] \in Seq(Int)
  BY <1>3 DEF IsBytes, Bytes
<1>5. \A i \in 1..Len(sent) : generate(sent[i]) \in Seq(Int)
  <2>1. \A i \in 1..Len(sent) : sent[i] \in Commands(direction)
    BY DEF ParserInv, Given
  <2>2. direction \in {"UP", "DOWN"}
    BY DEF ParserInv, Given
  <2> QED
    BY <2>1, <2>2, CommandBytes
<1>6. IsPrefix(B[n + 1], B[m]) /\ IsPrefix(B[m], buffer)
  <2>1. IsPrefix(B[n + 1], B[m])
    BY <1>0, <1>1, <1>3, <1>5, BytesGrow
  <2> QED
    BY <1>4, <2>1 DEF AllArrived
<1>7. IsPrefix(B[n + 1], buffer)
  <2> DEFINE e == B[n + 1]
             f == B[m]
  <2>1. e \in Seq(Int) /\ f \in Seq(Int) /\ IsPrefix(e, f) /\ IsPrefix(f, buffer)
    BY <1>1, <1>4, <1>6
  <2> HIDE DEF e, f
  <2>2. Len(e) <= Len(f) /\ \A k \in 1..Len(e) : e[k] = f[k]
    BY <2>1, PrefixIff
  <2>3. Len(f) <= Len(buffer) /\ \A k \in 1..Len(f) : f[k] = buffer[k]
    BY <1>2, <2>1, PrefixIff
  <2>4. Len(e) <= Len(buffer) /\ \A k \in 1..Len(e) : e[k] = buffer[k]
    BY <1>2, <2>1, <2>2, <2>3
  <2>5. IsPrefix(e, buffer)
    BY <1>2, <2>1, <2>4, PrefixIff
  <2> QED
    BY <2>5 DEF e
<1>8. AllArrived(n + 1) /\ n < Len(sent) /\ sent[n + 1].class # PingSlotChannelReq
  BY <1>0, <1>1, <1>4, <1>7 DEF AllArrived, Survives
<1> QED
  BY <1>8 DEF Parsed, Stopped

\* PrefixParsed follows from the invariant: parsing stops where it has to.
LEMMA ParserPrefix == ParserInv => PrefixParsed
<1> SUFFICES ASSUME ParserInv,
                    \A i \in DOMAIN sent : sent[i].class = DevStatusAns => Survives(sent[i])
             PROVE  /\ IsPrefix(result, sent)
                    /\ done => \A n \in 0..Len(sent) :
                         /\ IsPrefix(generateAll(SubSeq(sent, 1, n)), buffer)
                         /\ \A i \in 1..n : Survives(sent[i])
                         => Len(result) >= n
  BY DEF PrefixParsed
<1>1. sent \in Seq(Commands(direction))
  BY DEF ParserInv, Given
<1>2. Readable(sent)
  BY <1>1 DEF Readable
<1>3. PICK n \in 0..Len(sent) : Parsed(n)
  BY <1>2 DEF ParserInv
<1>4. result = SubSeq(sent, 1, n) /\ Len(result) = n
  BY <1>1, <1>3 DEF Parsed
<1>5. IsPrefix(result, sent)
  BY <1>1, <1>4 DEF IsPrefix
<1>6. ASSUME done, NEW m \in 0..Len(sent),
             IsPrefix(generateAll(SubSeq(sent, 1, m)), buffer),
             \A i \in 1..m : Survives(sent[i])
      PROVE  Len(result) >= m
  <2>1. AllArrived(m)
    BY <1>6 DEF AllArrived, Bytes
  <2>2. m <= n
    BY <1>2, <1>3, <1>6, <2>1, NotTooEarly
  <2> QED
    BY <1>4, <2>2
<1> QED
  BY <1>5, <1>6

\* PrefixParsed, for any commands with any values in their fields, cut off
\* anywhere or with anything unknown behind any of them.
THEOREM PrefixParsedHolds == ParserSpec => []PrefixParsed
BY ParserPrefix, ParserAlways, PTL

\* So does RoundTrip: all of a buffer that arrived whole is parsed.
LEMMA ParserRoundTrips == ParserInv => RoundTrip
<1> SUFFICES ASSUME ParserInv, done, buffer = generateAll(sent),
                    \A i \in DOMAIN sent : Survives(sent[i])
             PROVE  result = sent
  BY DEF RoundTrip
<1>1. sent \in Seq(Commands(direction)) /\ Len(sent) \in Nat /\ DOMAIN sent = 1..Len(sent)
  BY DEF ParserInv, Given
<1>2. Readable(sent)
  BY <1>1 DEF Readable
<1>3. PICK n \in 0..Len(sent) : Parsed(n)
  BY <1>2 DEF ParserInv
<1>4. SubSeq(sent, 1, Len(sent)) = sent /\ Len(sent) \in 0..Len(sent)
  BY <1>1, SubSeqFull
<1>5. AllArrived(Len(sent))
  <2>1. Bytes(Len(sent)) = buffer
    BY <1>4 DEF Bytes
  <2> QED
    BY <2>1 DEF AllArrived, IsPrefix
<1>6. Len(sent) <= n
  BY <1>1, <1>2, <1>3, <1>4, <1>5, NotTooEarly
<1>7. n = Len(sent)
  <2>1. n \in Nat /\ n <= Len(sent) /\ Len(sent) \in Nat
    BY <1>1
  <2> QED
    BY <1>6, <2>1
<1> QED
  BY <1>3, <1>4, <1>7 DEF Parsed

\* RoundTrip, for the same: a buffer that arrived whole is parsed to what was
\* sent.
THEOREM RoundTripHolds == ParserSpec => []RoundTrip
BY ParserRoundTrips, ParserAlways, PTL

-----------------------------------------------------------------------------
(* The offers that the checker takes are such commands, and arrive.        *)

\* A number has two bytes at least.
LEMMA NumbersAreLong ==
  ASSUME NEW d \in {"UP", "DOWN"}, NEW class \in mac_commands_map[d],
         NEW f \in class.generated, f.kind = "number"
  PROVE  f.len \in 2..4
<1>1. /\ \A e \in DevStatusAns.generated : e.kind = "number" => e.len \in 2..4
      /\ \A e \in LinkCheckReq.generated : e.kind = "number" => e.len \in 2..4
      /\ \A e \in LinkADRAns.generated : e.kind = "number" => e.len \in 2..4
      /\ \A e \in DutyCycleAns.generated : e.kind = "number" => e.len \in 2..4
      /\ \A e \in RXParamSetupAns.generated : e.kind = "number" => e.len \in 2..4
      /\ \A e \in NewChannelAns.generated : e.kind = "number" => e.len \in 2..4
      /\ \A e \in RXTimingSetupAns.generated : e.kind = "number" => e.len \in 2..4
      /\ \A e \in TXParamSetupAns.generated : e.kind = "number" => e.len \in 2..4
      /\ \A e \in DlChannelAns.generated : e.kind = "number" => e.len \in 2..4
      /\ \A e \in DeviceTimeReq.generated : e.kind = "number" => e.len \in 2..4
      /\ \A e \in PingSlotInfoReq.generated : e.kind = "number" => e.len \in 2..4
      /\ \A e \in PingSlotChannelAns.generated : e.kind = "number" => e.len \in 2..4
      /\ \A e \in BeaconFreqAns.generated : e.kind = "number" => e.len \in 2..4
      /\ \A e \in LinkCheckAns.generated : e.kind = "number" => e.len \in 2..4
      /\ \A e \in LinkADRReq.generated : e.kind = "number" => e.len \in 2..4
      /\ \A e \in DutyCycleReq.generated : e.kind = "number" => e.len \in 2..4
      /\ \A e \in RXParamSetupReq.generated : e.kind = "number" => e.len \in 2..4
      /\ \A e \in DevStatusReq.generated : e.kind = "number" => e.len \in 2..4
      /\ \A e \in NewChannelReq.generated : e.kind = "number" => e.len \in 2..4
      /\ \A e \in RXTimingSetupReq.generated : e.kind = "number" => e.len \in 2..4
      /\ \A e \in TXParamSetupReq.generated : e.kind = "number" => e.len \in 2..4
      /\ \A e \in DlChannelReq.generated : e.kind = "number" => e.len \in 2..4
      /\ \A e \in DeviceTimeAns.generated : e.kind = "number" => e.len \in 2..4
      /\ \A e \in PingSlotInfoAns.generated : e.kind = "number" => e.len \in 2..4
      /\ \A e \in PingSlotChannelReq.generated : e.kind = "number" => e.len \in 2..4
      /\ \A e \in BeaconFreqReq.generated : e.kind = "number" => e.len \in 2..4
  BY DEF DevStatusAns, LinkCheckReq, LinkADRAns, DutyCycleAns, RXParamSetupAns,
         NewChannelAns, RXTimingSetupAns, TXParamSetupAns, DlChannelAns,
         DeviceTimeReq, PingSlotInfoReq, PingSlotChannelAns, BeaconFreqAns,
         LinkCheckAns, LinkADRReq, DutyCycleReq, RXParamSetupReq,
         DevStatusReq, NewChannelReq, RXTimingSetupReq, TXParamSetupReq,
         DlChannelReq, DeviceTimeAns, PingSlotInfoAns, PingSlotChannelReq,
         BeaconFreqReq,
         Bare, Plain, Class, Bits, Number, Margin
<1>2. class \in {LinkCheckReq, LinkADRAns, DutyCycleAns, RXParamSetupAns,
              DevStatusAns, NewChannelAns, RXTimingSetupAns, TXParamSetupAns,
              DlChannelAns, DeviceTimeReq, PingSlotInfoReq,
              PingSlotChannelAns, BeaconFreqAns, LinkCheckAns, LinkADRReq,
              DutyCycleReq, RXParamSetupReq, DevStatusReq, NewChannelReq,
              RXTimingSetupReq, TXParamSetupReq, DlChannelReq, DeviceTimeAns,
              PingSlotInfoAns, PingSlotChannelReq, BeaconFreqReq}
  BY DEF mac_commands_map
<1> QED
  BY <1>1, <1>2

\* A class tells its fields apart by their names.
LEMMA NamesApart ==
  ASSUME NEW d \in {"UP", "DOWN"}, NEW class \in mac_commands_map[d]
  PROVE  /\ \A f \in class.generated : IsField(f)
         /\ \A f, g \in class.generated : f.name = g.name => f = g
<1>1. CASE class = PingSlotChannelReq
  <2>1. \A f \in class.generated : IsField(f)
    BY <1>1, PingSlotChannelReqFields DEF Laid, Fills
  <2>2. \A f, g \in class.generated : f.name = g.name => f = g
    BY <1>1 DEF PingSlotChannelReq, Plain, Class, Bits, Number
  <2> QED
    BY <2>1, <2>2
<1>2. CASE class # PingSlotChannelReq
  BY <1>2, ClassesLaid DEF LaidOut, Laid, Fills
<1> QED
  BY <1>1, <1>2

\* The largest of a few numbers is one of them.
LEMMA LargestOf ==
  /\ \A a, b, c \in Int : Max({a, b, c}) \in {a, b, c}
  /\ Max({-32, -1, 0, 1, 31}) \in {-32, -1, 0, 1, 31}
<1>1. ASSUME NEW a \in Int, NEW b \in Int, NEW c \in Int
      PROVE  Max({a, b, c}) \in {a, b, c}
  <2>1. \E x \in {a, b, c} : \A y \in {a, b, c} : x >= y
    OBVIOUS
  <2> QED
    BY <2>1, Zenon DEF Max
<1>2. Max({-32, -1, 0, 1, 31}) \in {-32, -1, 0, 1, 31}
  <2>1. \E x \in {-32, -1, 0, 1, 31} : \A y \in {-32, -1, 0, 1, 31} : x >= y
    OBVIOUS
  <2> QED
    BY <2>1, Zenon DEF Max
<1> QED
  BY <1>1, <1>2

\* A field has room for each of its samples, one of which is the largest.
LEMMA SamplesFit ==
  ASSUME NEW d \in {"UP", "DOWN"}, NEW class \in mac_commands_map[d], NEW f \in class.generated
  PROVE  /\ \A v \in SampleValues(f) : v \in Int /\ IsValue(f, v)
         /\ Max(SampleValues(f)) \in SampleValues(f)
<1>1. IsField(f) /\ (f.kind = "number" => f.len \in 2..4)
  BY NamesApart, NumbersAreLong
<1>2. CASE f.kind = "bits"
  <2> DEFINE w == 2^f.width
  <2>1. w \in Nat /\ w >= 2
    <3>1. f.width \in {1, 2, 3, 4, 5, 6, 7, 8}
      BY <1>1 DEF IsField
    <3>2. /\ (f.width = 1 => w = 2) /\ (f.width = 2 => w = 4) /\ (f.width = 3 => w = 8)
          /\ (f.width = 4 => w = 16) /\ (f.width = 5 => w = 32) /\ (f.width = 6 => w = 64)
          /\ (f.width = 7 => w = 128) /\ (f.width = 8 => w = 256)
      <4>1. f.width = 1 => w = 2
        <5>1. f.width = 1 => w = 2^1
          BY Zenon
        <5> QED
          BY <5>1, PowersOf2, SMT
      <4>2. f.width = 2 => w = 4
        <5>1. f.width = 2 => w = 2^2
          BY Zenon
        <5> QED
          BY <5>1, PowersOf2, SMT
      <4>3. f.width = 3 => w = 8
        <5>1. f.width = 3 => w = 2^3
          BY Zenon
        <5> QED
          BY <5>1, PowersOf2, SMT
      <4>4. f.width = 4 => w = 16
        <5>1. f.width = 4 => w = 2^4
          BY Zenon
        <5> QED
          BY <5>1, PowersOf2, SMT
      <4>5. f.width = 5 => w = 32
        <5>1. f.width = 5 => w = 2^5
          BY Zenon
        <5> QED
          BY <5>1, PowersOf2, SMT
      <4>6. f.width = 6 => w = 64
        <5>1. f.width = 6 => w = 2^6
          BY Zenon
        <5> QED
          BY <5>1, PowersOf2, SMT
      <4>7. f.width = 7 => w = 128
        <5>1. f.width = 7 => w = 2^7
          BY Zenon
        <5> QED
          BY <5>1, PowersOf2, SMT
      <4>8. f.width = 8 => w = 256
        <5>1. f.width = 8 => w = 2^8
          BY Zenon
        <5> QED
          BY <5>1, PowersOf2, SMT
      <4> QED
        BY <4>1, <4>2, <4>3, <4>4, <4>5, <4>6, <4>7, <4>8, Zenon
    <3> HIDE DEF w
    <3> QED
      BY <3>1, <3>2
  <2>2. SampleValues(f) = {0, 1, w - 1}
    BY <1>2 DEF SampleValues
  <2>3. \A v : IsValue(f, v) <=> v \in Nat /\ v < w
    BY <1>2 DEF IsValue
  <2> HIDE DEF w
  <2>4. Max({0, 1, w - 1}) \in {0, 1, w - 1}
    BY <2>1, LargestOf
  <2> QED
    BY <2>1, <2>2, <2>3, <2>4
<1>3. CASE f.kind = "number"
  <2> DEFINE w == 256^f.len
             top == IF f.len < 4 THEN w - 1 ELSE 2147483647
  <2>1. w \in Nat /\ top \in Nat /\ w > 256 /\ top < w
    <3>1. f.len = 2 \/ f.len = 3 \/ f.len = 4
      BY <1>1, <1>3
    <3>2. f.len = 2 => w = 65536
      <4>1. f.len = 2 => w = 256^2
        BY Zenon
      <4> QED
        BY <4>1, Powers256, SMT
    <3>3. f.len = 3 => w = 16777216
      <4>1. f.len = 3 => w = 256^3
        BY Zenon
      <4> QED
        BY <4>1, Powers256, SMT
    <3>4. f.len = 4 => w = 4294967296
      <4>1. f.len = 4 => w = 256^4
        BY Zenon
      <4> QED
        BY <4>1, Powers256, SMT
    <3> HIDE DEF w
    <3> QED
      BY <3>1, <3>2, <3>3, <3>4, SMT
  <2>2. SampleValues(f) = {0, 256, top}
    BY <1>3, SMT DEF SampleValues
  <2>3. \A v : IsValue(f, v) <=> v \in Nat /\ v < w
    BY <1>3, SMT DEF IsValue
  <2> HIDE DEF w, top
  <2>4. Max({0, 256, top}) \in {0, 256, top}
    BY <2>1, LargestOf, SMT
  <2> QED
    BY <2>1, <2>2, <2>3, <2>4, SMT
<1>4. CASE f.kind = "margin"
  <2>1. SampleValues(f) = {-32, -1, 0, 1, 31}
    BY <1>4 DEF SampleValues
  <2>2. Max({-32, -1, 0, 1, 31}) \in {-32, -1, 0, 1, 31}
    BY LargestOf
  <2>3. \A v : IsValue(f, v) <=> v \in -32..31
    BY <1>4 DEF IsValue
  <2> QED
    BY <2>1, <2>2, <2>3
<1> QED
  BY <1>1, <1>2, <1>3, <1>4 DEF IsField

\* Samples and Tops are commands.
LEMMA SampleCommands ==
  ASSUME NEW d \in {"UP", "DOWN"}, NEW class \in mac_commands_map[d]
  PROVE  Samples(class) \subseteq Commands(d) /\ Top(class) \in Commands(d)
<1> DEFINE F == class.generated
<1>1. \A p \in Values(F) : Command(class, p) \in Commands(d)
  BY DEF Commands
<1>2. \A x \in Names(F) : \E f \in F : f.name = x
  BY DEF Names
<1>3. \A f \in F : f.name \in Names(F)
  BY DEF Names
<1>4. ASSUME NEW m \in Samples(class)
      PROVE  m \in Commands(d)
  <2>1. PICK p : /\ p \in [Names(F) -> UNION {SampleValues(f) : f \in F}]
                 /\ \A f \in F : p[f.name] \in SampleValues(f)
                 /\ m = Command(class, p)
    BY DEF Samples
  <2>2. \A f \in F : p[f.name] \in Int /\ IsValue(f, p[f.name])
    BY <2>1, SamplesFit
  <2>3. p \in [Names(F) -> Int]
    <3>1. \A x \in Names(F) : p[x] \in Int
      BY <1>2, <2>2
    <3> HIDE DEF F
    <3> QED
      BY <2>1, <3>1
  <2>4. p \in Values(F)
    BY <2>2, <2>3 DEF Values
  <2> QED
    BY <1>1, <2>1, <2>4
<1>5. Top(class) \in Commands(d)
  <2> DEFINE p == [x \in Names(F) |-> Max(SampleValues(CHOOSE f \in F : f.name = x))]
  <2>1. ASSUME NEW f \in F
        PROVE  p[f.name] \in Int /\ IsValue(f, p[f.name])
    <3>1. (CHOOSE e \in F : e.name = f.name) = f
      BY NamesApart
    <3>2. p[f.name] = Max(SampleValues(f))
      BY <1>3, <3>1
    <3>3. Max(SampleValues(f)) \in SampleValues(f)
      BY SamplesFit
    <3> HIDE DEF p, F
    <3> QED
      BY <3>2, <3>3, SamplesFit DEF F
  <2>2. p \in [Names(F) -> Int]
    <3>1. \A x \in Names(F) : p[x] \in Int
      BY <1>2, <2>1
    <3> QED
      BY <3>1
  <2>3. p \in Values(F)
    BY <2>1, <2>2 DEF Values
  <2> QED
    BY <1>1, <2>3 DEF Top
<1> QED
  BY <1>4, <1>5

\* An offer is the bytes of two commands, whole, cut short, or with something
\* unknown in between.
LEMMA OfferKinds ==
  ASSUME NEW d \in {"UP", "DOWN"}, NEW offer \in Offers(d)
  PROVE  \/ \E a \in UNION {Samples(c) : c \in mac_commands_map[d]}, b \in Tops(d) :
              offer = Offer(<< a, b >>, generateAll(<< a, b >>))
         \/ \E a, b \in Tops(d) :
              \/ \E cut \in 0..(Len(generateAll(<< a, b >>)) - 1) :
                   offer = Offer(<< a, b >>, SubSeq(generateAll(<< a, b >>), 1, cut))
              \/ offer = Offer(<< a, b >>, generate(a) \o << Unknown >> \o generate(b))
<1> DEFINE first == UNION {Samples(c) : c \in mac_commands_map[d]}
           one(a, b) == Offer(<<a, b>>, generateAll(<<a, b>>))
           whole == {one(a, b) : a \in first, b \in Tops(d)}
           part(a, b) ==
             LET bytes == generateAll(<<a, b>>) IN
             {Offer(<<a, b>>, SubSeq(bytes, 1, cut)) : cut \in 0..(Len(bytes) - 1)} \cup
             {Offer(<<a, b>>, generate(a) \o <<Unknown>> \o generate(b))}
           parts == {part(a, b) : a \in Tops(d), b \in Tops(d)}
<1>1. Offers(d) = whole \cup UNION parts
  BY DEF Offers
<1>2. offer \in whole => \E a \in first, b \in Tops(d) : offer = one(a, b)
  <2> HIDE DEF first, one
  <2> QED
    OBVIOUS
<1>3. ASSUME NEW a \in Tops(d), NEW b \in Tops(d), offer \in part(a, b)
      PROVE  \/ \E cut \in 0..(Len(generateAll(<<a, b>>)) - 1) :
                  offer = Offer(<<a, b>>, SubSeq(generateAll(<<a, b>>), 1, cut))
             \/ offer = Offer(<<a, b>>, generate(a) \o <<Unknown>> \o generate(b))
  BY <1>3, Zenon
<1>4. offer \in UNION parts => \E a, b \in Tops(d) : offer \in part(a, b)
  <2> HIDE DEF part
  <2> QED
    OBVIOUS
<1>5. offer \in whole \/ offer \in UNION parts
  <2> HIDE DEF whole, parts
  <2> QED
    BY <1>1
<1> HIDE DEF whole, part, parts
<1> QED
  BY <1>2, <1>3, <1>4, <1>5, Zenon

\* Every offer that the checker takes is one of those that the theorems are
\* about: commands of the direction, whole, cut short, or with something
\* unknown behind the first.
THEOREM OffersArrive ==
  ASSUME NEW d \in {"UP", "DOWN"}, NEW offer \in Offers(d)
  PROVE  offer.sent \in Seq(Commands(d)) /\ Arrives(offer.sent, offer.bytes)
<1>1. /\ \A class \in mac_commands_map[d] : Samples(class) \subseteq Commands(d)
      /\ Tops(d) \subseteq Commands(d)
  BY SampleCommands DEF Tops
<1>2. ASSUME NEW a \in Commands(d), NEW b \in Commands(d)
      PROVE  /\ <<a, b>> \in Seq(Commands(d))
             /\ \A cut \in 0..Len(generateAll(<<a, b>>)) :
                  Arrives(<<a, b>>, SubSeq(generateAll(<<a, b>>), 1, cut))
             /\ Arrives(<<a, b>>, generateAll(<<a, b>>))
             /\ Arrives(<<a, b>>, generate(a) \o <<Unknown>> \o generate(b))
  <2> DEFINE s == <<a, b>>
  <2>1. s \in Seq(Commands(d)) /\ Len(s) = 2 /\ SubSeq(s, 1, 2) = s
    <3>1. s \in Seq(Commands(d)) /\ Len(s) = 2 /\ s[1] = a
      OBVIOUS
    <3> HIDE DEF s
    <3>2. SubSeq(s, 1, 2) = s
      BY <3>1, SubSeqFull
    <3> QED
      BY <3>1, <3>2
  <2>2. generate(a) \in Seq(Int) /\ generate(b) \in Seq(Int)
    BY CommandBytes
  <2> HIDE DEF s
  <2>3. \A cut \in 0..Len(generateAll(s)) : Arrives(s, SubSeq(generateAll(s), 1, cut))
    BY DEF Arrives
  <2>4. generateAll(s) \in Seq(Int)
    <3>1. \A i \in 1..Len(s) : generate(s[i]) \in Seq(Int)
      BY <2>1, <2>2 DEF s
    <3>2. PICK B : IsBytes(B, s)
      <4> HIDE DEF IsBytes
      <4> QED
        BY <2>1, <3>1, BytesExist
    <3>3. 2 \in 0..Len(s)
      BY <2>1
    <3>4. generateAll(SubSeq(s, 1, 2)) \in Seq(Int)
      BY <3>2, <3>3 DEF IsBytes
    <3> QED
      BY <2>1, <3>4
  <2>5. Arrives(s, generateAll(s))
    <3> DEFINE G == generateAll(s)
    <3>1. Len(G) \in 0..Len(G) /\ SubSeq(G, 1, Len(G)) = G
      BY <2>4, SubSeqFull
    <3> QED
      BY <2>3, <3>1
  <2>6. generateAll(SubSeq(s, 1, 1)) = generate(a)
    <3>1. \A i \in 1..Len(s) : generate(s[i]) \in Seq(Int)
      BY <2>1, <2>2 DEF s
    <3>2. PICK B : IsBytes(B, s)
      <4> HIDE DEF IsBytes
      <4> QED
        BY <2>1, <3>1, BytesExist
    <3>3. 1 \in 0..Len(s) /\ 1 \in 1..Len(s) /\ 1 - 1 = 0 /\ s[1] = a
      BY <2>1 DEF s
    <3>4. generateAll(SubSeq(s, 1, 1)) = B[1] /\ B[0] = <<>>
      BY <3>2, <3>3 DEF IsBytes
    <3>5. B[1] = B[0] \o generate(a)
      BY <3>2, <3>3 DEF IsBytes
    <3> QED
      BY <2>2, <3>4, <3>5, ConcatEmptySeq
  <2>7. Arrives(s, generate(a) \o <<Unknown>> \o generate(b))
    <3>1. 1 \in 0..Len(s)
      BY <2>1
    <3> QED
      BY <2>2, <2>6, <3>1 DEF Arrives
  <2> QED
    BY <2>1, <2>3, <2>5, <2>7 DEF s
<1>3. CASE \E a \in UNION {Samples(c) : c \in mac_commands_map[d]}, b \in Tops(d) :
             offer = Offer(<<a, b>>, generateAll(<<a, b>>))
  BY <1>1, <1>2, <1>3 DEF Offer
<1>4. CASE \E a, b \in Tops(d) :
             \/ \E cut \in 0..(Len(generateAll(<<a, b>>)) - 1) :
                  offer = Offer(<<a, b>>, SubSeq(generateAll(<<a, b>>), 1, cut))
             \/ offer = Offer(<<a, b>>, generate(a) \o <<Unknown>> \o generate(b))
  <2>1. PICK a \in Tops(d), b \in Tops(d) :
             \/ \E cut \in 0..(Len(generateAll(<<a, b>>)) - 1) :
                  offer = Offer(<<a, b>>, SubSeq(generateAll(<<a, b>>), 1, cut))
             \/ offer = Offer(<<a, b>>, generate(a) \o <<Unknown>> \o generate(b))
    BY <1>4
  <2>2. a \in Commands(d) /\ b \in Commands(d)
    BY <1>1
  <2>3. CASE offer = Offer(<<a, b>>, generate(a) \o <<Unknown>> \o generate(b))
    BY <1>2, <2>2, <2>3 DEF Offer
  <2>4. CASE \E cut \in 0..(Len(generateAll(<<a, b>>)) - 1) :
               offer = Offer(<<a, b>>, SubSeq(generateAll(<<a, b>>), 1, cut))
    <3> DEFINE G == generateAll(<<a, b>>)
    <3>1. PICK cut \in 0..(Len(G) - 1) : offer = Offer(<<a, b>>, SubSeq(G, 1, cut))
      BY <2>4
    <3>2. /\ <<a, b>> \in Seq(Commands(d))
          /\ \A c \in 0..Len(G) : Arrives(<<a, b>>, SubSeq(G, 1, c))
      BY <1>2, <2>2
    <3>3. cut \in 0..Len(G)
      OBVIOUS
    <3> HIDE DEF G
    <3> QED
      BY <3>1, <3>2, <3>3 DEF Offer
  <2> QED
    BY <2>1, <2>3, <2>4
<1> QED
  BY <1>3, <1>4, OfferKinds

-----------------------------------------------------------------------------
(* Lists of fields of the messages, and their values.                      *)

Byte == 0..255

\* A number given by its digits.
IsDigits(f) == f.kind = "digits" /\ f.at \in Nat /\ f.len \in Nat \ {0}

\* What may be a value of the field.
Fits(f, v) ==
  \/ IsField(f) /\ v \in Int
  \/ IsDigits(f) /\ v \in Seq(Byte) /\ Len(v) = f.len

\* A list of fields that end within n bytes, each with a name of its own.
Listed(F, n) ==
  /\ IsFiniteSet(F) /\ n \in Nat /\ Size(F) = n
  /\ \A f \in F : (IsField(f) \/ IsDigits(f)) /\ f.at + f.len <= n
  /\ \A f, g \in F : f.name = g.name => f = g

AllFit(F, h) == \A f \in F : Fits(f, h[f.name])

\* No other field has a bit of the bytes of f.
IsAlone(F, f) == \A g \in F : g = f \/ Apart(f, g)

\* Every field contributes a number.
LEMMA PutNumber ==
  ASSUME NEW f, NEW v, Fits(f, v), NEW k \in Nat
  PROVE  Put(f, v, k - 1) \in Int
<1>1. CASE IsField(f) /\ v \in Int
  <2>1. k \in Int
    OBVIOUS
  <2> QED
    BY <1>1, <2>1, PutInt, Zenon
<1>2. CASE IsDigits(f) /\ v \in Seq(Byte) /\ Len(v) = f.len
  <2>1. CASE k - 1 \notin f.at..(f.at + f.len - 1)
    BY <2>1 DEF Put
  <2>2. CASE k - 1 \in f.at..(f.at + f.len - 1)
    <3>1. Put(f, v, k - 1) = v[f.len - (k - 1 - f.at)]
      BY <1>2, <2>2 DEF Put, IsDigits
    <3>2. f.len - (k - 1 - f.at) \in 1..Len(v)
      BY <1>2, <2>2 DEF IsDigits
    <3>3. v[f.len - (k - 1 - f.at)] \in Byte
      BY <1>2, <3>2
    <3> QED
      BY <3>1, <3>3 DEF Byte
  <2> QED
    BY <2>1, <2>2
<1> QED
  BY <1>1, <1>2 DEF Fits

\* The bytes are numbers, one for each place.
LEMMA EncodedLen ==
  ASSUME NEW F, NEW n, Listed(F, n), NEW h
  PROVE  Encode(F, h) = [k \in 1..n |-> Encode(F, h)[k]]
BY DEF Listed, Encode, Size

\* What the fields contribute to a byte.
Parts(F, h, k) == [f \in F |-> Put(f, h[f.name], k - 1)]

\* Only those of A do so.
IsAll(F, A, k) == A \subseteq F /\ \A f \in F \ A : ~Covers(f, k)

\* A byte as a sum over fields that cover it.
LEMMA EncodedByte ==
  ASSUME NEW F, NEW n, Listed(F, n), NEW h, AllFit(F, h), NEW k \in 1..n,
         NEW A, IsAll(F, A, k)
  PROVE  \E H : Summed(F, Parts(F, h, k), H) /\ Encode(F, h)[k] = H[A]
<1> DEFINE v == Parts(F, h, k)
<1>v. v = [f \in F |-> Put(f, h[f.name], k - 1)]
  BY DEF Parts
<1> HIDE DEF v
<1>1. IsFiniteSet(F) /\ k \in Nat /\ k \in 1..Max({0} \cup {f.at + f.len : f \in F})
  BY DEF Listed, Size
<1>2. \A f \in F : Put(f, h[f.name], k - 1) \in Int
  BY <1>1, PutNumber DEF AllFit
<1>3. PICK H : Summed(F, v, H) /\ Encode(F, h)[k] = H[F]
  BY <1>1, <1>2, <1>v, EncodeSum, SMTT(60)
<1>4. \A f \in F \ A : v[f] = 0
  BY <1>v DEF Covers, Put, IsAll
<1>5. H[F] = H[A]
  BY <1>3, <1>4, ZerosOut DEF IsAll
<1> QED
  BY <1>3, <1>5 DEF v

\* A field that is alone has its bytes to itself.
LEMMA AloneByte ==
  ASSUME NEW F, NEW n, Listed(F, n), NEW h, AllFit(F, h), NEW f \in F, IsAlone(F, f),
         NEW k \in 1..n, Covers(f, k)
  PROVE  Encode(F, h)[k] = Put(f, h[f.name], k - 1)
<1> DEFINE v == Parts(F, h, k)
<1>1. \A g \in F : g.at \in Nat /\ g.len \in Nat
  BY DEF Listed, IsField, IsDigits
<1>2. \A g \in F \ {f} : ~Covers(g, k)
  BY <1>1 DEF IsAlone, Apart, Covers
<1>3. PICK H : Summed(F, v, H) /\ Encode(F, h)[k] = H[{f}]
  <2>1. IsAll(F, {f}, k)
    BY <1>2 DEF IsAll
  <2> QED
    BY <2>1, EncodedByte
<1>4. FewOf(F, v, H)
  BY <1>3, FewAdded
<1>5. H[{f}] = v[f]
  BY <1>4 DEF FewOf
<1>6. v[f] = Put(f, h[f.name], k - 1)
  BY DEF Parts
<1> QED
  BY <1>3, <1>5, <1>6

\* What Decode has for a field.
LEMMA DecodedField ==
  ASSUME NEW F, NEW n, Listed(F, n), NEW b, NEW f \in F
  PROVE  Decode(F, b)[f.name] = Take(f, b)
<1>1. f.name \in Names(F)
  BY DEF Names
<1>2. f = CHOOSE e \in F : e.name = f.name
  BY DEF Listed
<1> QED
  BY <1>1, <1>2 DEF Decode

\* Values are the same if they are so for every field.
LEMMA SameValues ==
  ASSUME NEW F, NEW p, NEW q, p = [x \in Names(F) |-> p[x]], q = [x \in Names(F) |-> q[x]],
         \A f \in F : p[f.name] = q[f.name]
  PROVE  p = q
<1>1. \A x \in Names(F) : p[x] = q[x]
  BY DEF Names
<1> QED
  BY <1>1

\* A field of bits, by its powers.
LEMMA BitsField ==
  ASSUME NEW f, f.kind = "bits", f.len = 1, f.at \in Nat
  PROVE  /\ \A v : Put(f, v, f.at) = (v % 2^f.width) * 2^f.low
         /\ \A b : Take(f, b) = (b[f.at + 1] \div 2^f.low) % 2^f.width
<1>1. f.at \in f.at..(f.at + f.len - 1)
  OBVIOUS
<1>2. ASSUME NEW v
      PROVE  Put(f, v, f.at) = (v % 2^f.width) * 2^f.low
  BY <1>1 DEF Put
<1>3. ASSUME NEW b
      PROVE  Take(f, b) = (b[f.at + 1] \div 2^f.low) % 2^f.width
  BY DEF Take
<1> QED
  BY <1>2, <1>3, Zenon

\* A number of two bytes.
LEMMA TwoBytes ==
  ASSUME NEW f, f.kind = "number", f.len = 2, f.at \in Nat, NEW b,
         b[f.at + 1] \in Int, b[f.at + 2] \in Int
  PROVE  Take(f, b) = b[f.at + 1] * 1 + b[f.at + 2] * 256
<1>1. f.len \in 1..4 /\ f.at + 1 + 0 = f.at + 1 /\ f.at + 1 + 1 = f.at + 2
  OBVIOUS
<1>2. \A i \in 0..(f.len - 1) : b[f.at + 1 + i] \in Int
  <2>1. ASSUME NEW i \in 0..(f.len - 1)
        PROVE  b[f.at + 1 + i] \in Int
    <3>1. i = 0 \/ i = 1
      OBVIOUS
    <3> QED
      BY <1>1, <3>1
  <2> QED
    BY <2>1
<1>3. f.len = 2 => Take(f, b) = b[f.at + 1 + 0] * 1 + b[f.at + 1 + 1] * 256
  <2>1. f.len \in 1..4
    OBVIOUS
  <2> QED
    BY <1>2, <2>1, NumberTaken, SMTT(60)
<1> QED
  BY <1>1, <1>3

\* The digits of a number.
LEMMA DigitsField ==
  ASSUME NEW f, IsDigits(f), NEW v, NEW b
  PROVE  /\ Take(f, b) = Reverse(SubSeq(b, f.at + 1, f.at + f.len))
         /\ \A k \in f.at..(f.at + f.len - 1) : Put(f, v, k) = v[f.len - (k - f.at)]
<1>1. Take(f, b) = Reverse(SubSeq(b, f.at + 1, f.at + f.len))
  BY Zenon DEF Take, IsDigits
<1>2. \A k \in f.at..(f.at + f.len - 1) : Put(f, v, k) = v[f.len - (k - f.at)]
  BY DEF Put, IsDigits
<1> QED
  BY <1>1, <1>2

\* MHDR is a byte, of which three bits are reserved.
LEMMA MHDRListed ==
  LET a == Bits("mtype", 0, 5, 3)
      b == Bits("major", 0, 0, 2)
  IN  MHDR = {a, b} /\ a # b /\ Listed(MHDR, 1) /\ Names(MHDR) = {"mtype", "major"}
<1> DEFINE a == Bits("mtype", 0, 5, 3)
           b == Bits("major", 0, 0, 2)
           F == {a, b}
<1>1. MHDR = F
  BY DEF MHDR
<1>2. /\ a.name = "mtype" /\ a.kind = "bits" /\ a.at = 0 /\ a.len = 1 /\ a.low = 5 /\ a.width = 3
      /\ b.name = "major" /\ b.kind = "bits" /\ b.at = 0 /\ b.len = 1 /\ b.low = 0 /\ b.width = 2
  BY DEF Bits
<1> HIDE DEF a, b
<1>3. IsFiniteSet(F)
  BY FewFinite, Zenon
<1>4. Size(F) = 1
  BY <1>2, SizeIs
<1>5. \A f \in F : IsField(f) /\ f.at + f.len <= 1
  BY <1>2 DEF IsField
<1>6. \A f, g \in F : f.name = g.name => f = g
  BY <1>2
<1>7. Listed(F, 1)
  BY <1>3, <1>4, <1>5, <1>6 DEF Listed
<1>8. a # b /\ Names(F) = {"mtype", "major"}
  BY <1>2 DEF Names
<1> QED
  BY <1>1, <1>7, <1>8 DEF a, b

\* The byte of an MHDR.
LEMMA MHDRBytes ==
  ASSUME NEW h, h["mtype"] \in Int, h["major"] \in Int
  PROVE  Encode(MHDR, h) = << (h["mtype"] % 8) * 32 + (h["major"] % 4) * 1 >>
<1> DEFINE a == Bits("mtype", 0, 5, 3)
           b == Bits("major", 0, 0, 2)
           v == Parts(MHDR, h, 1)
<1>1. MHDR = {a, b} /\ a # b /\ Listed(MHDR, 1)
  BY MHDRListed
<1>2. /\ a.name = "mtype" /\ a.kind = "bits" /\ a.at = 0 /\ a.len = 1 /\ a.low = 5 /\ a.width = 3
      /\ b.name = "major" /\ b.kind = "bits" /\ b.at = 0 /\ b.len = 1 /\ b.low = 0 /\ b.width = 2
  BY DEF Bits
<1> HIDE DEF a, b
<1>3. AllFit(MHDR, h)
  BY <1>1, <1>2 DEF AllFit, Fits, IsField
<1>v. v = [f \in MHDR |-> Put(f, h[f.name], 0)]
  BY DEF Parts
<1>4. v[a] = (h["mtype"] % 8) * 32 /\ v[b] = (h["major"] % 4) * 1
  <2>1. 8 = 2^a.width /\ 32 = 2^a.low /\ 4 = 2^b.width /\ 1 = 2^b.low
    BY <1>2, PowersOf2
  <2>f. a.at \in Nat /\ b.at \in Nat
    BY <1>2
  <2>2. Put(a, h["mtype"], a.at) = (h["mtype"] % 2^a.width) * 2^a.low
    BY <1>2, <2>f, BitsField, Zenon
  <2>3. Put(b, h["major"], b.at) = (h["major"] % 2^b.width) * 2^b.low
    BY <1>2, <2>f, BitsField, Zenon
  <2> QED
    BY <1>1, <1>2, <1>v, <2>1, <2>2, <2>3
<1>5. PICK H : Summed(MHDR, v, H) /\ Encode(MHDR, h)[1] = H[MHDR]
  <2>1. 1 \in 1..1 /\ IsAll(MHDR, MHDR, 1)
    BY DEF IsAll
  <2> QED
    BY <1>1, <1>3, <2>1, EncodedByte
<1>6. H[MHDR] = v[a] + v[b]
  <2>1. FewOf(MHDR, v, H)
    BY <1>5, FewAdded
  <2>2. H[{a, b}] = v[a] + v[b]
    BY <1>1, <2>1 DEF FewOf
  <2> QED
    BY <1>1, <2>2
<1>7. Encode(MHDR, h) = [k \in 1..1 |-> Encode(MHDR, h)[k]]
  BY <1>1, EncodedLen, ZenonT(40)
<1> QED
  BY <1>4, <1>5, <1>6, <1>7

\* The MHDR of a byte.
LEMMA MHDRDecoded ==
  ASSUME NEW b
  PROVE  Decode(MHDR, b) = [mtype |-> (b[1] \div 32) % 8, major |-> (b[1] \div 1) % 4]
<1> DEFINE f == Bits("mtype", 0, 5, 3)
           g == Bits("major", 0, 0, 2)
           d == Decode(MHDR, b)
<1>1. MHDR = {f, g} /\ f # g /\ Listed(MHDR, 1) /\ Names(MHDR) = {"mtype", "major"}
  BY MHDRListed
<1>2. /\ f.name = "mtype" /\ f.kind = "bits" /\ f.at = 0 /\ f.len = 1 /\ f.low = 5 /\ f.width = 3
      /\ g.name = "major" /\ g.kind = "bits" /\ g.at = 0 /\ g.len = 1 /\ g.low = 0 /\ g.width = 2
  BY DEF Bits
<1> HIDE DEF f, g
<1>3. d["mtype"] = Take(f, b) /\ d["major"] = Take(g, b)
  BY <1>1, <1>2, DecodedField
<1>4. Take(f, b) = (b[1] \div 32) % 8 /\ Take(g, b) = (b[1] \div 1) % 4
  <2>1. 8 = 2^f.width /\ 32 = 2^f.low /\ 4 = 2^g.width /\ 1 = 2^g.low
    BY <1>2, PowersOf2
  <2>2. f.at + 1 = 1 /\ g.at + 1 = 1 /\ f.at \in Nat /\ g.at \in Nat
    BY <1>2
  <2>3. Take(f, b) = (b[f.at + 1] \div 2^f.low) % 2^f.width
    BY <1>2, <2>2, BitsField, Zenon
  <2>4. Take(g, b) = (b[g.at + 1] \div 2^g.low) % 2^g.width
    BY <1>2, <2>2, BitsField, Zenon
  <2> QED
    BY <2>1, <2>2, <2>3, <2>4
<1>5. d = [x \in {"mtype", "major"} |-> d[x]]
  BY <1>1 DEF Decode
<1> HIDE DEF d
<1>6. d = [mtype |-> d["mtype"], major |-> d["major"]]
  BY <1>5
<1> QED
  BY <1>3, <1>4, <1>6 DEF d

(* FHDR.                                                                   *)

IsDevAddr(f) == f.name = "dev_addr" /\ IsDigits(f) /\ f.at = 0 /\ f.len = 4
IsFCnt(f) == f.name = "f_cnt" /\ f.kind = "number" /\ f.at = 5 /\ f.len = 2
InFCtrl(f) == f.kind = "bits" /\ f.at = 4 /\ f.len = 1

\* The bytes of an FHDR; B are the fields of FCtrl.
FHDRParts(e, F, B, h) ==
  /\ e = [k \in 1..7 |-> e[k]]
  /\ \A k \in 1..4 : e[k] = h["dev_addr"][5 - k]
  /\ e[6] = (h["f_cnt"] \div 1) % 256 /\ e[7] = (h["f_cnt"] \div 256) % 256
  /\ \E v, H : /\ Summed(F, v, H) /\ e[5] = H[B]
               /\ \A f \in B : v[f] = (h[f.name] % 2^f.width) * 2^f.low

\* The bytes of an FHDR: address, counter, and FCtrl from its fields B.
LEMMA FHDRBytes ==
  ASSUME NEW F, Listed(F, 7), NEW h, AllFit(F, h),
         NEW a \in F, IsDevAddr(a), IsAlone(F, a), NEW c \in F, IsFCnt(c), IsAlone(F, c),
         NEW B, B \subseteq F, \A f \in B : InFCtrl(f), \A f \in F \ B : ~Covers(f, 5)
  PROVE  FHDRParts(Encode(F, h), F, B, h)
<1> DEFINE e == Encode(F, h)
<1>1. e = [k \in 1..7 |-> e[k]]
  BY EncodedLen
<1>2. ASSUME NEW k \in 1..4
      PROVE  e[k] = h["dev_addr"][5 - k]
  <2>1. Covers(a, k) /\ k \in 1..7
    BY DEF Covers, IsDevAddr
  <2>2. e[k] = Put(a, h[a.name], k - 1)
    BY <2>1, AloneByte
  <2>3. Put(a, h[a.name], k - 1) = h["dev_addr"][5 - k]
    <3>1. k - 1 \in a.at..(a.at + a.len - 1) /\ a.len - (k - 1 - a.at) = 5 - k
      BY DEF IsDevAddr
    <3> QED
      BY <3>1 DEF Put, IsDevAddr, IsDigits
  <2> QED
    BY <2>2, <2>3
<1>3. ASSUME NEW k \in 6..7
      PROVE  e[k] = (h["f_cnt"] \div 256^(k - 1 - c.at)) % 256
  <2>1. Covers(c, k) /\ k \in 1..7
    BY DEF Covers, IsFCnt
  <2>2. e[k] = Put(c, h[c.name], k - 1)
    BY <2>1, AloneByte
  <2>3. k - 1 \in c.at..(c.at + c.len - 1)
    BY DEF IsFCnt
  <2> QED
    BY <2>2, <2>3 DEF Put, IsFCnt
<1>4. e[6] = (h["f_cnt"] \div 1) % 256 /\ e[7] = (h["f_cnt"] \div 256) % 256
  <2>1. 6 - 1 - c.at = 0 /\ 7 - 1 - c.at = 1 /\ 6 \in 6..7 /\ 7 \in 6..7
    BY DEF IsFCnt
  <2>2. /\ e[6] = (h["f_cnt"] \div 256^(6 - 1 - c.at)) % 256
        /\ e[7] = (h["f_cnt"] \div 256^(7 - 1 - c.at)) % 256
    BY <1>3, <2>1
  <2>3. 256^0 = 1 /\ 256^1 = 256
    BY Powers256
  <2>4. 256^(6 - 1 - c.at) = 256^0 /\ 256^(7 - 1 - c.at) = 256^1
    BY <2>1, Zenon
  <2>5. 256^(6 - 1 - c.at) = 1 /\ 256^(7 - 1 - c.at) = 256
    BY <2>3, <2>4, Zenon
  <2> QED
    BY <2>2, <2>5, ZenonT(60)
<1>5. \E v, H : /\ Summed(F, v, H) /\ e[5] = H[B]
               /\ \A f \in B : v[f] = (h[f.name] % 2^f.width) * 2^f.low
  <2>1. PICK k \in 1..7 : k = 5
    OBVIOUS
  <2> DEFINE v == Parts(F, h, k)
  <2>2. v = [f \in F |-> Put(f, h[f.name], k - 1)]
    BY DEF Parts
  <2>3. ASSUME NEW f \in B
        PROVE  v[f] = (h[f.name] % 2^f.width) * 2^f.low
    <3>1. f.kind = "bits" /\ f.len = 1 /\ f.at \in Nat /\ f.at = k - 1 /\ f \in F
      BY <2>1 DEF InFCtrl
    <3>2. Put(f, h[f.name], f.at) = (h[f.name] % 2^f.width) * 2^f.low
      BY <3>1, BitsField, Zenon
    <3> QED
      BY <2>2, <3>1, <3>2
  <2>4. IsAll(F, B, k)
    BY <2>1 DEF IsAll
  <2>5. PICK H : Summed(F, v, H) /\ e[k] = H[B]
    BY <2>4, EncodedByte
  <2> QED
    BY <2>1, <2>3, <2>5
<1> HIDE DEF e
<1>6. FHDRParts(e, F, B, h)
  BY <1>1, <1>2, <1>4, <1>5 DEF FHDRParts
<1> QED
  BY <1>6 DEF e

\* The fields of an uplink's FHDR are laid out side by side.
LEMMA FHDRUplinkListed ==
  LET a == Digits("dev_addr", 0, 4)
      c == Number("f_cnt", 5, 2)
      b1 == Bits("adr", 4, 7, 1)
      b2 == Bits("adr_ack_req", 4, 6, 1)
      b3 == Bits("ack", 4, 5, 1)
      b4 == Bits("class_b", 4, 4, 1)
      b5 == Bits("f_opts_len", 4, 0, 4)
      F == {a, c, b1, b2, b3, b4, b5}
  IN  /\ FHDR("MACPayloadUplink") = F /\ Listed(F, 7)
      /\ Names(F) = {"dev_addr", "f_cnt", "adr", "adr_ack_req", "ack", "class_b", "f_opts_len"}
      /\ IsAlone(F, a) /\ IsAlone(F, c)
      /\ \A f \in F \ {b1, b2, b3, b4, b5} : ~Covers(f, 5)
<1> DEFINE a == Digits("dev_addr", 0, 4)
           c == Number("f_cnt", 5, 2)
           b1 == Bits("adr", 4, 7, 1)
           b2 == Bits("adr_ack_req", 4, 6, 1)
           b3 == Bits("ack", 4, 5, 1)
           b4 == Bits("class_b", 4, 4, 1)
           b5 == Bits("f_opts_len", 4, 0, 4)
           F == {a, c, b1, b2, b3, b4, b5}
<1>1. FHDR("MACPayloadUplink") = F
  BY DEF FHDR, FCtrlUplink
<1>2. /\ a.name = "dev_addr" /\ a.kind = "digits"
      /\ a.at = 0 /\ a.len = 4 /\ a.low = 0 /\ a.width = 8
      /\ c.name = "f_cnt" /\ c.kind = "number"
      /\ c.at = 5 /\ c.len = 2 /\ c.low = 0 /\ c.width = 8
      /\ b1.name = "adr" /\ b1.kind = "bits"
      /\ b1.at = 4 /\ b1.len = 1 /\ b1.low = 7 /\ b1.width = 1
      /\ b2.name = "adr_ack_req" /\ b2.kind = "bits"
      /\ b2.at = 4 /\ b2.len = 1 /\ b2.low = 6 /\ b2.width = 1
      /\ b3.name = "ack" /\ b3.kind = "bits"
      /\ b3.at = 4 /\ b3.len = 1 /\ b3.low = 5 /\ b3.width = 1
      /\ b4.name = "class_b" /\ b4.kind = "bits"
      /\ b4.at = 4 /\ b4.len = 1 /\ b4.low = 4 /\ b4.width = 1
      /\ b5.name = "f_opts_len" /\ b5.kind = "bits"
      /\ b5.at = 4 /\ b5.len = 1 /\ b5.low = 0 /\ b5.width = 4
  BY DEF Bits, Number, Digits
<1> HIDE DEF a, c, b1, b2, b3, b4, b5
<1>3. IsFiniteSet(F)
  <2>1. IsFiniteSet({b1, b2, b3, b4, b5}) /\ IsFiniteSet({a, c})
    BY FewFinite, Zenon
  <2>2. IsFiniteSet({b1, b2, b3, b4, b5} \cup {a, c})
    BY <2>1, FS_Union, Zenon
  <2>3. {b1, b2, b3, b4, b5} \cup {a, c} = F
    OBVIOUS
  <2> QED
    BY <2>2, <2>3, Zenon
<1>4. Size(F) = 7
  BY <1>2, SizeIs
<1>5. \A f \in F : (IsField(f) \/ IsDigits(f)) /\ f.at + f.len <= 7
  BY <1>2 DEF IsField, IsDigits
<1>6. \A f, g \in F : f.name = g.name => f = g
  BY <1>2
<1>7. Listed(F, 7)
  BY <1>3, <1>4, <1>5, <1>6 DEF Listed
<1>8. Names(F) = {"dev_addr", "f_cnt", "adr", "adr_ack_req", "ack", "class_b", "f_opts_len"}
  BY <1>2 DEF Names
<1>9. IsAlone(F, a) /\ IsAlone(F, c)
  BY <1>2 DEF IsAlone, Apart
<1>10. \A f \in F \ {b1, b2, b3, b4, b5} : ~Covers(f, 5)
  BY <1>2 DEF Covers
<1> QED
  BY <1>1, <1>7, <1>8, <1>9, <1>10 DEF a, c, b1, b2, b3, b4, b5

\* An uplink's FHDR, field by field.
LEMMA FHDRUplinkDecoded ==
  ASSUME NEW b, NEW d, d = Decode(FHDR("MACPayloadUplink"), b), b[6] \in Int, b[7] \in Int
  PROVE  /\ d = [x \in {"dev_addr", "f_cnt", "adr", "adr_ack_req", "ack", "class_b", "f_opts_len"} |-> d[x]]
         /\ d["dev_addr"] = Reverse(SubSeq(b, 1, 4)) /\ d["f_cnt"] = b[6] * 1 + b[7] * 256
         /\ d["adr"] = (b[5] \div 128) % 2 /\ d["adr_ack_req"] = (b[5] \div 64) % 2
         /\ d["ack"] = (b[5] \div 32) % 2 /\ d["class_b"] = (b[5] \div 16) % 2
         /\ d["f_opts_len"] = (b[5] \div 1) % 16
<1> DEFINE a == Digits("dev_addr", 0, 4)
           c == Number("f_cnt", 5, 2)
           b1 == Bits("adr", 4, 7, 1)
           b2 == Bits("adr_ack_req", 4, 6, 1)
           b3 == Bits("ack", 4, 5, 1)
           b4 == Bits("class_b", 4, 4, 1)
           b5 == Bits("f_opts_len", 4, 0, 4)
           F == {a, c, b1, b2, b3, b4, b5}
<1>1. FHDR("MACPayloadUplink") = F /\ Listed(F, 7) /\ Names(F) = {"dev_addr", "f_cnt", "adr", "adr_ack_req", "ack", "class_b", "f_opts_len"}
  BY FHDRUplinkListed
<1>2. /\ a.name = "dev_addr" /\ a.kind = "digits"
      /\ a.at = 0 /\ a.len = 4 /\ a.low = 0 /\ a.width = 8
      /\ c.name = "f_cnt" /\ c.kind = "number"
      /\ c.at = 5 /\ c.len = 2 /\ c.low = 0 /\ c.width = 8
      /\ b1.name = "adr" /\ b1.kind = "bits"
      /\ b1.at = 4 /\ b1.len = 1 /\ b1.low = 7 /\ b1.width = 1
      /\ b2.name = "adr_ack_req" /\ b2.kind = "bits"
      /\ b2.at = 4 /\ b2.len = 1 /\ b2.low = 6 /\ b2.width = 1
      /\ b3.name = "ack" /\ b3.kind = "bits"
      /\ b3.at = 4 /\ b3.len = 1 /\ b3.low = 5 /\ b3.width = 1
      /\ b4.name = "class_b" /\ b4.kind = "bits"
      /\ b4.at = 4 /\ b4.len = 1 /\ b4.low = 4 /\ b4.width = 1
      /\ b5.name = "f_opts_len" /\ b5.kind = "bits"
      /\ b5.at = 4 /\ b5.len = 1 /\ b5.low = 0 /\ b5.width = 4
  BY DEF Bits, Number, Digits
<1> HIDE DEF a, c, b1, b2, b3, b4, b5
<1>3. \A f \in F : d[f.name] = Take(f, b)
  BY <1>1, DecodedField
<1>4. d = [x \in {"dev_addr", "f_cnt", "adr", "adr_ack_req", "ack", "class_b", "f_opts_len"} |-> d[x]]
  BY <1>1, SMTT(30) DEF Decode
<1>5. d["dev_addr"] = Reverse(SubSeq(b, 1, 4))
  <2>1. IsDigits(a) /\ a.at + 1 = 1 /\ a.at + a.len = 4 /\ a \in F
    BY <1>2 DEF IsDigits
  <2>2. Take(a, b) = Reverse(SubSeq(b, a.at + 1, a.at + a.len))
    BY <2>1, DigitsField
  <2> QED
    BY <1>2, <1>3, <2>1, <2>2
<1>6. d["f_cnt"] = b[6] * 1 + b[7] * 256
  <2>1. c.kind = "number" /\ c.len = 2 /\ c.at \in Nat /\ c.at + 1 = 6 /\ c.at + 2 = 7 /\ c \in F
    BY <1>2
  <2>2. Take(c, b) = b[c.at + 1] * 1 + b[c.at + 2] * 256
    BY <2>1, TwoBytes
  <2> QED
    BY <1>2, <1>3, <2>1, <2>2
<1>7. \A f \in {b1, b2, b3, b4, b5} : d[f.name] = (b[5] \div 2^f.low) % 2^f.width
  <2>1. ASSUME NEW f \in {b1, b2, b3, b4, b5}
        PROVE  d[f.name] = (b[5] \div 2^f.low) % 2^f.width
    <3>1. f.kind = "bits" /\ f.len = 1 /\ f.at \in Nat /\ f.at + 1 = 5 /\ f \in F
      BY <1>2
    <3>2. Take(f, b) = (b[f.at + 1] \div 2^f.low) % 2^f.width
      BY <3>1, BitsField, Zenon
    <3> QED
      BY <1>3, <3>1, <3>2
  <2> QED
    BY <2>1
<1>8. /\ 2^b1.low = 128 /\ 2^b1.width = 2
      /\ 2^b2.low = 64 /\ 2^b2.width = 2
      /\ 2^b3.low = 32 /\ 2^b3.width = 2
      /\ 2^b4.low = 16 /\ 2^b4.width = 2
      /\ 2^b5.low = 1 /\ 2^b5.width = 16
  BY <1>2, PowersOf2
<1>9. /\ d[b1.name] = (b[5] \div 2^b1.low) % 2^b1.width
      /\ d[b2.name] = (b[5] \div 2^b2.low) % 2^b2.width
      /\ d[b3.name] = (b[5] \div 2^b3.low) % 2^b3.width
      /\ d[b4.name] = (b[5] \div 2^b4.low) % 2^b4.width
      /\ d[b5.name] = (b[5] \div 2^b5.low) % 2^b5.width
  BY <1>7
<1>10. /\ d["adr"] = (b[5] \div 128) % 2
       /\ d["adr_ack_req"] = (b[5] \div 64) % 2
       /\ d["ack"] = (b[5] \div 32) % 2
       /\ d["class_b"] = (b[5] \div 16) % 2
       /\ d["f_opts_len"] = (b[5] \div 1) % 16
  BY <1>2, <1>8, <1>9
<1> HIDE DEF F
<1> QED
  BY <1>4, <1>5, <1>6, <1>10

\* An uplink's FHDR, byte by byte.
LEMMA FHDRUplinkBytes ==
  ASSUME NEW h, NEW e, e = Encode(FHDR("MACPayloadUplink"), h),
         h["dev_addr"] \in Seq(Byte), Len(h["dev_addr"]) = 4, h["f_cnt"] \in Int,
         h["adr"] \in Int, h["adr_ack_req"] \in Int, h["ack"] \in Int, h["class_b"] \in Int, h["f_opts_len"] \in Int
  PROVE  /\ e = [k \in 1..7 |-> e[k]]
         /\ \A k \in 1..4 : e[k] = h["dev_addr"][5 - k]
         /\ e[6] = (h["f_cnt"] \div 1) % 256 /\ e[7] = (h["f_cnt"] \div 256) % 256
         /\ e[5] = (h["adr"] % 2) * 128 + (h["adr_ack_req"] % 2) * 64
                   + (h["ack"] % 2) * 32 + (h["class_b"] % 2) * 16 + (h["f_opts_len"] % 16) * 1
<1> DEFINE a == Digits("dev_addr", 0, 4)
           c == Number("f_cnt", 5, 2)
           b1 == Bits("adr", 4, 7, 1)
           b2 == Bits("adr_ack_req", 4, 6, 1)
           b3 == Bits("ack", 4, 5, 1)
           b4 == Bits("class_b", 4, 4, 1)
           b5 == Bits("f_opts_len", 4, 0, 4)
           F == {a, c, b1, b2, b3, b4, b5}
           B == {b1, b2, b3, b4, b5}
<1>1. FHDR("MACPayloadUplink") = F /\ Listed(F, 7) /\ IsAlone(F, a) /\ IsAlone(F, c) /\ \A f \in F \ B : ~Covers(f, 5)
  BY FHDRUplinkListed
<1>2. /\ a.name = "dev_addr" /\ a.kind = "digits"
      /\ a.at = 0 /\ a.len = 4 /\ a.low = 0 /\ a.width = 8
      /\ c.name = "f_cnt" /\ c.kind = "number"
      /\ c.at = 5 /\ c.len = 2 /\ c.low = 0 /\ c.width = 8
      /\ b1.name = "adr" /\ b1.kind = "bits"
      /\ b1.at = 4 /\ b1.len = 1 /\ b1.low = 7 /\ b1.width = 1
      /\ b2.name = "adr_ack_req" /\ b2.kind = "bits"
      /\ b2.at = 4 /\ b2.len = 1 /\ b2.low = 6 /\ b2.width = 1
      /\ b3.name = "ack" /\ b3.kind = "bits"
      /\ b3.at = 4 /\ b3.len = 1 /\ b3.low = 5 /\ b3.width = 1
      /\ b4.name = "class_b" /\ b4.kind = "bits"
      /\ b4.at = 4 /\ b4.len = 1 /\ b4.low = 4 /\ b4.width = 1
      /\ b5.name = "f_opts_len" /\ b5.kind = "bits"
      /\ b5.at = 4 /\ b5.len = 1 /\ b5.low = 0 /\ b5.width = 4
  BY DEF Bits, Number, Digits
<1> HIDE DEF a, c, b1, b2, b3, b4, b5
<1>3. AllFit(F, h)
  <2>1. Fits(a, h[a.name])
    BY <1>2 DEF Fits, IsDigits
  <2>2. Fits(c, h[c.name])
    BY <1>2 DEF Fits, IsField
  <2>3. \A f \in B : IsField(f)
    BY <1>2 DEF IsField
  <2>4. \A f \in B : h[f.name] \in Int
    BY <1>2
  <2>5. F = B \cup {a, c}
    OBVIOUS
  <2> HIDE DEF F, B
  <2> QED
    BY <2>1, <2>2, <2>3, <2>4, <2>5 DEF AllFit, Fits
<1>4. /\ a \in F /\ c \in F /\ B \subseteq F
      /\ IsDevAddr(a) /\ IsFCnt(c) /\ \A f \in B : InFCtrl(f)
  BY <1>2 DEF IsDevAddr, IsFCnt, InFCtrl, IsDigits
<1>5. /\ b1 \in F /\ b2 \in F /\ b3 \in F /\ b4 \in F /\ b5 \in F
      /\ b1 \notin {b2, b3, b4, b5}
      /\ b2 \notin {b3, b4, b5} /\ b3 \notin {b4, b5} /\ b4 # b5
  BY <1>2
<1>6. /\ 2^b1.low = 128 /\ 2^b1.width = 2
      /\ 2^b2.low = 64 /\ 2^b2.width = 2
      /\ 2^b3.low = 32 /\ 2^b3.width = 2
      /\ 2^b4.low = 16 /\ 2^b4.width = 2
      /\ 2^b5.low = 1 /\ 2^b5.width = 16
  BY <1>2, PowersOf2
<1> HIDE DEF F
<1>7. Listed(F, 7) /\ IsAlone(F, a) /\ IsAlone(F, c) /\ \A f \in F \ B : ~Covers(f, 5)
  BY <1>1
<1> DEFINE b == B
<1> HIDE DEF b
<1>8. b \subseteq F /\ (\A f \in b : InFCtrl(f)) /\ \A f \in F \ b : ~Covers(f, 5)
  BY <1>4, <1>7 DEF b
<1>9. FHDRParts(Encode(F, h), F, b, h)
  BY <1>3, <1>4, <1>7, <1>8, FHDRBytes
<1>10. FHDRParts(e, F, b, h)
  BY <1>1, <1>9
<1>11. PICK v, H : /\ Summed(F, v, H) /\ e[5] = H[b]
                  /\ \A f \in b : v[f] = (h[f.name] % 2^f.width) * 2^f.low
  BY <1>10 DEF FHDRParts
<1>12. H[b] = v[b1] + v[b2] + v[b3] + v[b4] + v[b5]
  <2>1. FewOf(F, v, H) /\ Additive(F, v, H)
    BY <1>11, FewAdded, AnyFirst
  <2>2. H[{b3, b4, b5}] = v[b3] + v[b4] + v[b5]
    BY <1>5, <2>1 DEF FewOf
  <2>3. {b2, b3, b4, b5} \in SUBSET F /\ b2 \in {b2, b3, b4, b5} /\ {b2, b3, b4, b5} \ {b2} = {b3, b4, b5}
    BY <1>5
  <2>4. H[{b2, b3, b4, b5}] = v[b2] + H[{b3, b4, b5}]
    BY <2>1, <2>3 DEF Additive
  <2>5. {b1, b2, b3, b4, b5} \in SUBSET F /\ b1 \in {b1, b2, b3, b4, b5} /\ {b1, b2, b3, b4, b5} \ {b1} = {b2, b3, b4, b5}
    BY <1>5
  <2>6. H[{b1, b2, b3, b4, b5}] = v[b1] + H[{b2, b3, b4, b5}]
    BY <2>1, <2>5 DEF Additive
  <2>7. v[b1] \in Int /\ v[b2] \in Int /\ v[b3] \in Int /\ v[b4] \in Int /\ v[b5] \in Int
    BY <1>5, <1>11 DEF Summed
  <2> QED
    BY <2>2, <2>4, <2>6, <2>7, SMTT(30) DEF b
<1>13. /\ v[b1] = (h["adr"] % 2) * 128
       /\ v[b2] = (h["adr_ack_req"] % 2) * 64
       /\ v[b3] = (h["ack"] % 2) * 32
       /\ v[b4] = (h["class_b"] % 2) * 16
       /\ v[b5] = (h["f_opts_len"] % 16) * 1
  BY <1>2, <1>6, <1>11, ZenonT(40) DEF b
<1> QED
  BY <1>10, <1>11, <1>12, <1>13 DEF FHDRParts

\* The same three of a downlink, which has one flag and one reserved bit.
LEMMA FHDRDownlinkListed ==
  LET a == Digits("dev_addr", 0, 4)
      c == Number("f_cnt", 5, 2)
      b1 == Bits("adr", 4, 7, 1)
      b2 == Bits("ack", 4, 5, 1)
      b3 == Bits("f_pending", 4, 4, 1)
      b4 == Bits("f_opts_len", 4, 0, 4)
      F == {a, c, b1, b2, b3, b4}
  IN  /\ FHDR("MACPayloadDownlink") = F /\ Listed(F, 7)
      /\ Names(F) = {"dev_addr", "f_cnt", "adr", "ack", "f_pending", "f_opts_len"}
      /\ IsAlone(F, a) /\ IsAlone(F, c)
      /\ \A f \in F \ {b1, b2, b3, b4} : ~Covers(f, 5)
<1> DEFINE a == Digits("dev_addr", 0, 4)
           c == Number("f_cnt", 5, 2)
           b1 == Bits("adr", 4, 7, 1)
           b2 == Bits("ack", 4, 5, 1)
           b3 == Bits("f_pending", 4, 4, 1)
           b4 == Bits("f_opts_len", 4, 0, 4)
           F == {a, c, b1, b2, b3, b4}
<1>1. FHDR("MACPayloadDownlink") = F
  BY DEF FHDR, FCtrlDownlink
<1>2. /\ a.name = "dev_addr" /\ a.kind = "digits"
      /\ a.at = 0 /\ a.len = 4 /\ a.low = 0 /\ a.width = 8
      /\ c.name = "f_cnt" /\ c.kind = "number"
      /\ c.at = 5 /\ c.len = 2 /\ c.low = 0 /\ c.width = 8
      /\ b1.name = "adr" /\ b1.kind = "bits"
      /\ b1.at = 4 /\ b1.len = 1 /\ b1.low = 7 /\ b1.width = 1
      /\ b2.name = "ack" /\ b2.kind = "bits"
      /\ b2.at = 4 /\ b2.len = 1 /\ b2.low = 5 /\ b2.width = 1
      /\ b3.name = "f_pending" /\ b3.kind = "bits"
      /\ b3.at = 4 /\ b3.len = 1 /\ b3.low = 4 /\ b3.width = 1
      /\ b4.name = "f_opts_len" /\ b4.kind = "bits"
      /\ b4.at = 4 /\ b4.len = 1 /\ b4.low = 0 /\ b4.width = 4
  BY DEF Bits, Number, Digits
<1> HIDE DEF a, c, b1, b2, b3, b4
<1>3. IsFiniteSet(F)
  <2>1. IsFiniteSet({b1, b2, b3, b4}) /\ IsFiniteSet({a, c})
    BY FewFinite, Zenon
  <2>2. IsFiniteSet({b1, b2, b3, b4} \cup {a, c})
    BY <2>1, FS_Union, Zenon
  <2>3. {b1, b2, b3, b4} \cup {a, c} = F
    OBVIOUS
  <2> QED
    BY <2>2, <2>3, Zenon
<1>4. Size(F) = 7
  BY <1>2, SizeIs
<1>5. \A f \in F : (IsField(f) \/ IsDigits(f)) /\ f.at + f.len <= 7
  BY <1>2 DEF IsField, IsDigits
<1>6. \A f, g \in F : f.name = g.name => f = g
  BY <1>2
<1>7. Listed(F, 7)
  BY <1>3, <1>4, <1>5, <1>6 DEF Listed
<1>8. Names(F) = {"dev_addr", "f_cnt", "adr", "ack", "f_pending", "f_opts_len"}
  BY <1>2 DEF Names
<1>9. IsAlone(F, a) /\ IsAlone(F, c)
  BY <1>2 DEF IsAlone, Apart
<1>10. \A f \in F \ {b1, b2, b3, b4} : ~Covers(f, 5)
  BY <1>2 DEF Covers
<1> QED
  BY <1>1, <1>7, <1>8, <1>9, <1>10 DEF a, c, b1, b2, b3, b4

\* A downlink's FHDR, field by field.
LEMMA FHDRDownlinkDecoded ==
  ASSUME NEW b, NEW d, d = Decode(FHDR("MACPayloadDownlink"), b), b[6] \in Int, b[7] \in Int
  PROVE  /\ d = [x \in {"dev_addr", "f_cnt", "adr", "ack", "f_pending", "f_opts_len"} |-> d[x]]
         /\ d["dev_addr"] = Reverse(SubSeq(b, 1, 4)) /\ d["f_cnt"] = b[6] * 1 + b[7] * 256
         /\ d["adr"] = (b[5] \div 128) % 2 /\ d["ack"] = (b[5] \div 32) % 2
         /\ d["f_pending"] = (b[5] \div 16) % 2
         /\ d["f_opts_len"] = (b[5] \div 1) % 16
<1> DEFINE a == Digits("dev_addr", 0, 4)
           c == Number("f_cnt", 5, 2)
           b1 == Bits("adr", 4, 7, 1)
           b2 == Bits("ack", 4, 5, 1)
           b3 == Bits("f_pending", 4, 4, 1)
           b4 == Bits("f_opts_len", 4, 0, 4)
           F == {a, c, b1, b2, b3, b4}
<1>1. FHDR("MACPayloadDownlink") = F /\ Listed(F, 7) /\ Names(F) = {"dev_addr", "f_cnt", "adr", "ack", "f_pending", "f_opts_len"}
  BY FHDRDownlinkListed
<1>2. /\ a.name = "dev_addr" /\ a.kind = "digits"
      /\ a.at = 0 /\ a.len = 4 /\ a.low = 0 /\ a.width = 8
      /\ c.name = "f_cnt" /\ c.kind = "number"
      /\ c.at = 5 /\ c.len = 2 /\ c.low = 0 /\ c.width = 8
      /\ b1.name = "adr" /\ b1.kind = "bits"
      /\ b1.at = 4 /\ b1.len = 1 /\ b1.low = 7 /\ b1.width = 1
      /\ b2.name = "ack" /\ b2.kind = "bits"
      /\ b2.at = 4 /\ b2.len = 1 /\ b2.low = 5 /\ b2.width = 1
      /\ b3.name = "f_pending" /\ b3.kind = "bits"
      /\ b3.at = 4 /\ b3.len = 1 /\ b3.low = 4 /\ b3.width = 1
      /\ b4.name = "f_opts_len" /\ b4.kind = "bits"
      /\ b4.at = 4 /\ b4.len = 1 /\ b4.low = 0 /\ b4.width = 4
  BY DEF Bits, Number, Digits
<1> HIDE DEF a, c, b1, b2, b3, b4
<1>3. \A f \in F : d[f.name] = Take(f, b)
  BY <1>1, DecodedField
<1>4. d = [x \in {"dev_addr", "f_cnt", "adr", "ack", "f_pending", "f_opts_len"} |-> d[x]]
  BY <1>1 DEF Decode
<1>5. d["dev_addr"] = Reverse(SubSeq(b, 1, 4))
  <2>1. IsDigits(a) /\ a.at + 1 = 1 /\ a.at + a.len = 4 /\ a \in F
    BY <1>2 DEF IsDigits
  <2>2. Take(a, b) = Reverse(SubSeq(b, a.at + 1, a.at + a.len))
    BY <2>1, DigitsField
  <2> QED
    BY <1>2, <1>3, <2>1, <2>2
<1>6. d["f_cnt"] = b[6] * 1 + b[7] * 256
  <2>1. c.kind = "number" /\ c.len = 2 /\ c.at \in Nat /\ c.at + 1 = 6 /\ c.at + 2 = 7 /\ c \in F
    BY <1>2
  <2>2. Take(c, b) = b[c.at + 1] * 1 + b[c.at + 2] * 256
    BY <2>1, TwoBytes
  <2> QED
    BY <1>2, <1>3, <2>1, <2>2
<1>7. \A f \in {b1, b2, b3, b4} : d[f.name] = (b[5] \div 2^f.low) % 2^f.width
  <2>1. ASSUME NEW f \in {b1, b2, b3, b4}
        PROVE  d[f.name] = (b[5] \div 2^f.low) % 2^f.width
    <3>1. f.kind = "bits" /\ f.len = 1 /\ f.at \in Nat /\ f.at + 1 = 5 /\ f \in F
      BY <1>2
    <3>2. Take(f, b) = (b[f.at + 1] \div 2^f.low) % 2^f.width
      BY <3>1, BitsField, Zenon
    <3> QED
      BY <1>3, <3>1, <3>2
  <2> QED
    BY <2>1
<1>8. /\ 2^b1.low = 128 /\ 2^b1.width = 2
      /\ 2^b2.low = 32 /\ 2^b2.width = 2
      /\ 2^b3.low = 16 /\ 2^b3.width = 2
      /\ 2^b4.low = 1 /\ 2^b4.width = 16
  BY <1>2, PowersOf2
<1>9. /\ d[b1.name] = (b[5] \div 2^b1.low) % 2^b1.width
      /\ d[b2.name] = (b[5] \div 2^b2.low) % 2^b2.width
      /\ d[b3.name] = (b[5] \div 2^b3.low) % 2^b3.width
      /\ d[b4.name] = (b[5] \div 2^b4.low) % 2^b4.width
  BY <1>7
<1>10. /\ d["adr"] = (b[5] \div 128) % 2
       /\ d["ack"] = (b[5] \div 32) % 2
       /\ d["f_pending"] = (b[5] \div 16) % 2
       /\ d["f_opts_len"] = (b[5] \div 1) % 16
  BY <1>2, <1>8, <1>9
<1> HIDE DEF F
<1> QED
  BY <1>4, <1>5, <1>6, <1>10

\* A downlink's FHDR, byte by byte.
LEMMA FHDRDownlinkBytes ==
  ASSUME NEW h, NEW e, e = Encode(FHDR("MACPayloadDownlink"), h),
         h["dev_addr"] \in Seq(Byte), Len(h["dev_addr"]) = 4, h["f_cnt"] \in Int,
         h["adr"] \in Int, h["ack"] \in Int, h["f_pending"] \in Int, h["f_opts_len"] \in Int
  PROVE  /\ e = [k \in 1..7 |-> e[k]]
         /\ \A k \in 1..4 : e[k] = h["dev_addr"][5 - k]
         /\ e[6] = (h["f_cnt"] \div 1) % 256 /\ e[7] = (h["f_cnt"] \div 256) % 256
         /\ e[5] = (h["adr"] % 2) * 128 + (h["ack"] % 2) * 32
                   + (h["f_pending"] % 2) * 16 + (h["f_opts_len"] % 16) * 1
<1> DEFINE a == Digits("dev_addr", 0, 4)
           c == Number("f_cnt", 5, 2)
           b1 == Bits("adr", 4, 7, 1)
           b2 == Bits("ack", 4, 5, 1)
           b3 == Bits("f_pending", 4, 4, 1)
           b4 == Bits("f_opts_len", 4, 0, 4)
           F == {a, c, b1, b2, b3, b4}
           B == {b1, b2, b3, b4}
<1>1. FHDR("MACPayloadDownlink") = F /\ Listed(F, 7) /\ IsAlone(F, a) /\ IsAlone(F, c) /\ \A f \in F \ B : ~Covers(f, 5)
  BY FHDRDownlinkListed
<1>2. /\ a.name = "dev_addr" /\ a.kind = "digits"
      /\ a.at = 0 /\ a.len = 4 /\ a.low = 0 /\ a.width = 8
      /\ c.name = "f_cnt" /\ c.kind = "number"
      /\ c.at = 5 /\ c.len = 2 /\ c.low = 0 /\ c.width = 8
      /\ b1.name = "adr" /\ b1.kind = "bits"
      /\ b1.at = 4 /\ b1.len = 1 /\ b1.low = 7 /\ b1.width = 1
      /\ b2.name = "ack" /\ b2.kind = "bits"
      /\ b2.at = 4 /\ b2.len = 1 /\ b2.low = 5 /\ b2.width = 1
      /\ b3.name = "f_pending" /\ b3.kind = "bits"
      /\ b3.at = 4 /\ b3.len = 1 /\ b3.low = 4 /\ b3.width = 1
      /\ b4.name = "f_opts_len" /\ b4.kind = "bits"
      /\ b4.at = 4 /\ b4.len = 1 /\ b4.low = 0 /\ b4.width = 4
  BY DEF Bits, Number, Digits
<1> HIDE DEF a, c, b1, b2, b3, b4
<1>3. AllFit(F, h)
  <2>1. Fits(a, h[a.name])
    BY <1>2 DEF Fits, IsDigits
  <2>2. Fits(c, h[c.name])
    BY <1>2 DEF Fits, IsField
  <2>3. \A f \in B : IsField(f)
    BY <1>2 DEF IsField
  <2>4. \A f \in B : h[f.name] \in Int
    BY <1>2
  <2>5. F = B \cup {a, c}
    OBVIOUS
  <2> HIDE DEF F, B
  <2> QED
    BY <2>1, <2>2, <2>3, <2>4, <2>5 DEF AllFit, Fits
<1>4. /\ a \in F /\ c \in F /\ B \subseteq F
      /\ IsDevAddr(a) /\ IsFCnt(c) /\ \A f \in B : InFCtrl(f)
  BY <1>2 DEF IsDevAddr, IsFCnt, InFCtrl, IsDigits
<1>5. /\ b1 \in F /\ b2 \in F /\ b3 \in F /\ b4 \in F
      /\ b1 \notin {b2, b3, b4} /\ b2 \notin {b3, b4} /\ b3 # b4
  BY <1>2
<1>6. /\ 2^b1.low = 128 /\ 2^b1.width = 2
      /\ 2^b2.low = 32 /\ 2^b2.width = 2
      /\ 2^b3.low = 16 /\ 2^b3.width = 2
      /\ 2^b4.low = 1 /\ 2^b4.width = 16
  BY <1>2, PowersOf2
<1> HIDE DEF F
<1>7. Listed(F, 7) /\ IsAlone(F, a) /\ IsAlone(F, c) /\ \A f \in F \ B : ~Covers(f, 5)
  BY <1>1
<1> DEFINE b == B
<1> HIDE DEF b
<1>8. b \subseteq F /\ (\A f \in b : InFCtrl(f)) /\ \A f \in F \ b : ~Covers(f, 5)
  BY <1>4, <1>7 DEF b
<1>9. FHDRParts(Encode(F, h), F, b, h)
  BY <1>3, <1>4, <1>7, <1>8, FHDRBytes
<1>10. FHDRParts(e, F, b, h)
  BY <1>1, <1>9
<1>11. PICK v, H : /\ Summed(F, v, H) /\ e[5] = H[b]
                  /\ \A f \in b : v[f] = (h[f.name] % 2^f.width) * 2^f.low
  BY <1>10 DEF FHDRParts
<1>12. H[b] = v[b1] + v[b2] + v[b3] + v[b4]
  <2>1. FewOf(F, v, H) /\ Additive(F, v, H)
    BY <1>11, FewAdded, AnyFirst
  <2>2. H[{b2, b3, b4}] = v[b2] + v[b3] + v[b4]
    BY <1>5, <2>1 DEF FewOf
  <2>3. {b1, b2, b3, b4} \in SUBSET F /\ b1 \in {b1, b2, b3, b4} /\ {b1, b2, b3, b4} \ {b1} = {b2, b3, b4}
    BY <1>5
  <2>4. H[{b1, b2, b3, b4}] = v[b1] + H[{b2, b3, b4}]
    BY <2>1, <2>3 DEF Additive
  <2>5. v[b1] \in Int /\ v[b2] \in Int /\ v[b3] \in Int /\ v[b4] \in Int
    BY <1>5, <1>11 DEF Summed
  <2> QED
    BY <2>2, <2>4, <2>5 DEF b
<1>13. /\ v[b1] = (h["adr"] % 2) * 128
       /\ v[b2] = (h["ack"] % 2) * 32
       /\ v[b3] = (h["f_pending"] % 2) * 16
       /\ v[b4] = (h["f_opts_len"] % 16) * 1
  BY <1>2, <1>6, <1>11, ZenonT(40) DEF b
<1> QED
  BY <1>10, <1>11, <1>12, <1>13 DEF FHDRParts

\* A part of a sequence.
LEMMA PartOf ==
  ASSUME NEW S, NEW b \in Seq(S), NEW x \in Nat, NEW y \in Nat, 1 <= x, x <= y + 1, y <= Len(b)
  PROVE  /\ SubSeq(b, x, y) \in Seq(S) /\ Len(SubSeq(b, x, y)) = y + 1 - x
         /\ \A k \in 1..(y + 1 - x) : SubSeq(b, x, y)[k] = b[x - 1 + k]
<1>1. PICK n \in Nat : n = y + 1 - x
  OBVIOUS
<1>2. SubSeq(b, x, y) = [k \in 1..n |-> b[x - 1 + k]]
  BY <1>1
<1>3. PICK e : e = SubSeq(b, x, y)
  OBVIOUS
<1>4. \A k \in 1..n : b[x - 1 + k] \in S
  BY <1>1
<1>5. \A k \in 1..n : e[k] = b[x - 1 + k]
  BY <1>2, <1>3, Zenon
<1>6. e = [k \in 1..n |-> e[k]]
  BY <1>2, <1>3, <1>5, Zenon
<1>7. e \in Seq(S) /\ Len(e) = n
  <2>1. \A k \in 1..n : e[k] \in S
    BY <1>4, <1>5, Zenon
  <2>2. [k \in 1..n |-> e[k]] \in [1..n -> S]
    BY <2>1, Zenon
  <2> QED
    BY <1>6, <2>2, SMTT(30)
<1> QED
  BY <1>1, <1>3, <1>5, <1>7, Zenon

\* What ends before it begins is empty.
LEMMA NoPart ==
  ASSUME NEW S, NEW b \in Seq(S), NEW x \in Nat, NEW y \in Nat, y < x
  PROVE  SubSeq(b, x, y) = <<>>
OBVIOUS

\* Bytes are integers.
LEMMA BytesAreInts == Seq(Byte) \subseteq Seq(Int) /\ Byte \subseteq Int
<1>1. Byte \subseteq Int
  BY DEF Byte
<1>2. ASSUME NEW s \in Seq(Byte)
      PROVE  s \in Seq(Int)
  <2>1. s = [k \in 1..Len(s) |-> s[k]] /\ Len(s) \in Nat /\ \A k \in 1..Len(s) : s[k] \in Byte
    OBVIOUS
  <2>2. \A k \in 1..Len(s) : s[k] \in Int
    BY <1>1, <2>1
  <2> QED
    BY <2>1, <2>2, IsSequence
<1> QED
  BY <1>1, <1>2

\* Byte strings that agree in length and in every byte are one.
LEMMA SameBytes ==
  ASSUME NEW r \in Seq(Int), NEW s \in Seq(Int), Len(r) = Len(s), \A k \in 1..Len(r) : r[k] = s[k]
  PROVE  r = s
BY SMTT(30)

\* A sequence in the reverse order.
LEMMA Reversed ==
  ASSUME NEW S, NEW s \in Seq(S)
  PROVE  /\ Reverse(s) \in Seq(S) /\ Len(Reverse(s)) = Len(s)
         /\ \A k \in 1..Len(s) : Reverse(s)[k] = s[Len(s) + 1 - k]
<1>1. Reverse(s) = [k \in 1..Len(s) |-> s[(Len(s) - k) + 1]]
  BY DEF Reverse
<1>2. \A k \in 1..Len(s) : (Len(s) - k) + 1 \in 1..Len(s) /\ (Len(s) - k) + 1 = Len(s) + 1 - k
  OBVIOUS
<1> QED
  BY <1>1, <1>2

\* The bits of a byte.
LEMMA UplinkFCtrlBits ==
  \A x \in Byte :
    (((x \div 128) % 2) % 2) * 128 + (((x \div 64) % 2) % 2) * 64
      + (((x \div 32) % 2) % 2) * 32 + (((x \div 16) % 2) % 2) * 16 + (((x \div 1) % 16) % 16) * 1 = x
BY DEF Byte

\* FCtrl of a downlink, taken apart and put together: bit 6 is lost.
LEMMA DownlinkFCtrlBits ==
  \A x \in Byte :
    (((x \div 128) % 2) % 2) * 128
      + (((x \div 32) % 2) % 2) * 32 + (((x \div 16) % 2) % 2) * 16 + (((x \div 1) % 16) % 16) * 1
    = x - ((x \div 64) % 2) * 64
BY DEF Byte

\* MHDR, taken apart and put together: bits 2 to 4 are lost.
LEMMA MHDRBits ==
  \A x \in Byte :
    (((x \div 32) % 8) % 8) * 32 + (((x \div 1) % 4) % 4) * 1 = x - ((x \div 4) % 8) * 4
BY DEF Byte

\* The two bytes of a counter.
LEMMA CounterBytes ==
  ASSUME NEW x \in Byte, NEW y \in Byte, NEW c, c = x * 1 + y * 256
  PROVE  c \in Nat /\ c < 65536 /\ (c \div 1) % 256 = x /\ (c \div 256) % 256 = y
<1>1. x \in Int /\ 0 <= x /\ x <= 255 /\ y \in Int /\ 0 <= y /\ y <= 255
  BY DEF Byte
<1>2. c = 256 * y + x /\ c \in Int 
  BY <1>1
<1>3. c < 65536 /\ c >= 0
  BY <1>1, <1>2, SMT
<1>4. c % 256 = x
  BY <1>1, <1>2, SMT
<1>5. c \div 256 = y
  BY <1>1, <1>2, SMT
<1>6. y % 256 = y /\ c \div 1 = c
  BY <1>1, <1>2, SMT
<1> QED
  BY <1>1, <1>2, <1>3, <1>4, <1>5, <1>6, SMT

\* An FHDR is generated as it was.
LEMMA UplinkBack ==
  ASSUME NEW b \in Seq(Byte), Len(b) >= 7,
         NEW d, d = Decode(FHDR("MACPayloadUplink"), b), NEW e, e = Encode(FHDR("MACPayloadUplink"), d)
  PROVE  e = [k \in 1..7 |-> e[k]] /\ \A k \in 1..7 : e[k] = b[k]
<1>1. \A k \in 1..7 : b[k] \in Byte
  OBVIOUS
<1>2. b[6] \in Int /\ b[7] \in Int /\ b[5] \in Int
  BY <1>1, BytesAreInts
<1>3. /\ d["dev_addr"] = Reverse(SubSeq(b, 1, 4)) /\ d["f_cnt"] = b[6] * 1 + b[7] * 256
      /\ d["adr"] = (b[5] \div 128) % 2 /\ d["adr_ack_req"] = (b[5] \div 64) % 2
      /\ d["ack"] = (b[5] \div 32) % 2 /\ d["class_b"] = (b[5] \div 16) % 2
      /\ d["f_opts_len"] = (b[5] \div 1) % 16
  <2>1. b[6] \in Int /\ b[7] \in Int /\ d = Decode(FHDR("MACPayloadUplink"), b)
    BY <1>2
  <2> QED
    BY <2>1, FHDRUplinkDecoded, SMTT(60)
<1>4. d["dev_addr"] \in Seq(Byte) /\ Len(d["dev_addr"]) = 4 /\ \A k \in 1..4 : d["dev_addr"][5 - k] = b[k]
  <2>1. SubSeq(b, 1, 4) \in Seq(Byte) /\ Len(SubSeq(b, 1, 4)) = 4 /\ \A k \in 1..4 : SubSeq(b, 1, 4)[k] = b[k]
    BY PartOf
  <2> DEFINE s == SubSeq(b, 1, 4)
  <2> HIDE DEF s
  <2>2. s \in Seq(Byte) /\ Len(s) = 4 /\ \A k \in 1..4 : s[k] = b[k]
    BY <2>1 DEF s
  <2>3. Reverse(s) \in Seq(Byte) /\ Len(Reverse(s)) = 4 /\ \A k \in 1..4 : Reverse(s)[k] = s[5 - k]
    <3>1. /\ Reverse(s) \in Seq(Byte) /\ Len(Reverse(s)) = Len(s)
          /\ \A k \in 1..Len(s) : Reverse(s)[k] = s[Len(s) + 1 - k]
      BY <2>2, Reversed, Zenon
    <3> QED
      BY <2>2, <3>1
  <2>4. \A k \in 1..4 : Reverse(s)[5 - k] = b[k]
    BY <2>2, <2>3
  <2> QED
    BY <1>3, <2>3, <2>4 DEF s
<1>5. /\ d["adr"] \in Int /\ d["adr_ack_req"] \in Int /\ d["ack"] \in Int /\ d["class_b"] \in Int
      /\ d["f_opts_len"] \in Int /\ d["f_cnt"] \in Int
  <2>1. PICK x \in Int : x = b[5]
    BY <1>2
  <2>2. /\ (x \div 128) % 2 \in Int /\ (x \div 64) % 2 \in Int /\ (x \div 32) % 2 \in Int
        /\ (x \div 16) % 2 \in Int /\ (x \div 1) % 16 \in Int
    OBVIOUS
  <2>3. b[6] * 1 + b[7] * 256 \in Int
    BY <1>2
  <2>4. /\ d["adr"] = (x \div 128) % 2 /\ d["adr_ack_req"] = (x \div 64) % 2
        /\ d["ack"] = (x \div 32) % 2 /\ d["class_b"] = (x \div 16) % 2
        /\ d["f_opts_len"] = (x \div 1) % 16
    BY <1>3, <2>1
  <2> QED
    <3>1. d["f_cnt"] \in Int
      BY <1>3, <2>3
    <3>2. d["adr"] \in Int /\ d["adr_ack_req"] \in Int
      BY <2>2, <2>4
    <3>3. d["ack"] \in Int /\ d["class_b"] \in Int /\ d["f_opts_len"] \in Int
      BY <2>2, <2>4
    <3> QED
      BY <3>1, <3>2, <3>3
<1>6. /\ e = [k \in 1..7 |-> e[k]]
      /\ \A k \in 1..4 : e[k] = d["dev_addr"][5 - k]
      /\ e[6] = (d["f_cnt"] \div 1) % 256 /\ e[7] = (d["f_cnt"] \div 256) % 256
      /\ e[5] = (d["adr"] % 2) * 128 + (d["adr_ack_req"] % 2) * 64
                   + (d["ack"] % 2) * 32 + (d["class_b"] % 2) * 16 + (d["f_opts_len"] % 16) * 1
  BY <1>4, <1>5, FHDRUplinkBytes, SMTT(100)
<1>7. e[5] = b[5]
  <2>1. b[5] \in Byte
    BY <1>1
  <2> QED
    BY <1>3, <1>6, <2>1, UplinkFCtrlBits
<1>8. e[6] = b[6] /\ e[7] = b[7]
  <2>1. b[6] \in Byte /\ b[7] \in Byte
    BY <1>1
  <2> QED
    <3>1. PICK x \in Byte, y \in Byte : x = b[6] /\ y = b[7]
      BY <2>1
    <3>2. PICK c : c = d["f_cnt"]
      OBVIOUS
    <3>3. c = x * 1 + y * 256
      BY <1>3, <3>1, <3>2
    <3>4. (c \div 1) % 256 = x /\ (c \div 256) % 256 = y
      BY <3>3, CounterBytes
    <3> QED
      BY <1>6, <3>1, <3>2, <3>4
<1>9. \A k \in 1..7 : k \in 1..4 \/ k = 5 \/ k = 6 \/ k = 7
  OBVIOUS
<1> QED
  BY <1>4, <1>6, <1>7, <1>8, <1>9

\* The same for a downlink, whose FCtrl has a reserved bit.
LEMMA DownlinkBack ==
  ASSUME NEW b \in Seq(Byte), Len(b) >= 7,
         NEW d, d = Decode(FHDR("MACPayloadDownlink"), b), NEW e, e = Encode(FHDR("MACPayloadDownlink"), d)
  PROVE  /\ e = [k \in 1..7 |-> e[k]] /\ \A k \in 1..7 : k # 5 => e[k] = b[k]
         /\ e[5] = b[5] - ((b[5] \div 64) % 2) * 64
<1>1. \A k \in 1..7 : b[k] \in Byte
  OBVIOUS
<1>2. b[6] \in Int /\ b[7] \in Int /\ b[5] \in Int
  BY <1>1, BytesAreInts
<1>3. /\ d["dev_addr"] = Reverse(SubSeq(b, 1, 4)) /\ d["f_cnt"] = b[6] * 1 + b[7] * 256
      /\ d["adr"] = (b[5] \div 128) % 2
      /\ d["ack"] = (b[5] \div 32) % 2 /\ d["f_pending"] = (b[5] \div 16) % 2
      /\ d["f_opts_len"] = (b[5] \div 1) % 16
  <2>1. b[6] \in Int /\ b[7] \in Int /\ d = Decode(FHDR("MACPayloadDownlink"), b)
    BY <1>2
  <2> QED
    BY <2>1, FHDRDownlinkDecoded, SMTT(60)
<1>4. d["dev_addr"] \in Seq(Byte) /\ Len(d["dev_addr"]) = 4 /\ \A k \in 1..4 : d["dev_addr"][5 - k] = b[k]
  <2>1. SubSeq(b, 1, 4) \in Seq(Byte) /\ Len(SubSeq(b, 1, 4)) = 4 /\ \A k \in 1..4 : SubSeq(b, 1, 4)[k] = b[k]
    BY PartOf
  <2> DEFINE s == SubSeq(b, 1, 4)
  <2> HIDE DEF s
  <2>2. s \in Seq(Byte) /\ Len(s) = 4 /\ \A k \in 1..4 : s[k] = b[k]
    BY <2>1 DEF s
  <2>3. Reverse(s) \in Seq(Byte) /\ Len(Reverse(s)) = 4 /\ \A k \in 1..4 : Reverse(s)[k] = s[5 - k]
    <3>1. /\ Reverse(s) \in Seq(Byte) /\ Len(Reverse(s)) = Len(s)
          /\ \A k \in 1..Len(s) : Reverse(s)[k] = s[Len(s) + 1 - k]
      BY <2>2, Reversed, Zenon
    <3> QED
      BY <2>2, <3>1
  <2>4. \A k \in 1..4 : Reverse(s)[5 - k] = b[k]
    BY <2>2, <2>3
  <2> QED
    BY <1>3, <2>3, <2>4 DEF s
<1>5. /\ d["adr"] \in Int /\ d["ack"] \in Int /\ d["f_pending"] \in Int
      /\ d["f_opts_len"] \in Int /\ d["f_cnt"] \in Int
  <2>1. PICK x \in Int : x = b[5]
    BY <1>2
  <2>2. /\ (x \div 128) % 2 \in Int /\ (x \div 32) % 2 \in Int
        /\ (x \div 16) % 2 \in Int /\ (x \div 1) % 16 \in Int
    OBVIOUS
  <2>3. b[6] * 1 + b[7] * 256 \in Int
    BY <1>2
  <2>4. /\ d["adr"] = (x \div 128) % 2
        /\ d["ack"] = (x \div 32) % 2 /\ d["f_pending"] = (x \div 16) % 2
        /\ d["f_opts_len"] = (x \div 1) % 16
    BY <1>3, <2>1
  <2> QED
    <3>1. d["f_cnt"] \in Int
      BY <1>3, <2>3
    <3>2. d["adr"] \in Int
      BY <2>2, <2>4
    <3>3. d["ack"] \in Int /\ d["f_pending"] \in Int /\ d["f_opts_len"] \in Int
      BY <2>2, <2>4
    <3> QED
      BY <3>1, <3>2, <3>3
<1>6. /\ e = [k \in 1..7 |-> e[k]]
      /\ \A k \in 1..4 : e[k] = d["dev_addr"][5 - k]
      /\ e[6] = (d["f_cnt"] \div 1) % 256 /\ e[7] = (d["f_cnt"] \div 256) % 256
      /\ e[5] = (d["adr"] % 2) * 128
                   + (d["ack"] % 2) * 32 + (d["f_pending"] % 2) * 16 + (d["f_opts_len"] % 16) * 1
  BY <1>4, <1>5, FHDRDownlinkBytes, SMTT(100)
<1>7. e[5] = b[5] - ((b[5] \div 64) % 2) * 64
  <2>1. b[5] \in Byte
    BY <1>1
  <2> QED
    BY <1>3, <1>6, <2>1, DownlinkFCtrlBits
<1>8. e[6] = b[6] /\ e[7] = b[7]
  <2>1. b[6] \in Byte /\ b[7] \in Byte
    BY <1>1
  <2> QED
    <3>1. PICK x \in Byte, y \in Byte : x = b[6] /\ y = b[7]
      BY <2>1
    <3>2. PICK c : c = d["f_cnt"]
      OBVIOUS
    <3>3. c = x * 1 + y * 256
      BY <1>3, <3>1, <3>2
    <3>4. (c \div 1) % 256 = x /\ (c \div 256) % 256 = y
      BY <3>3, CounterBytes
    <3> QED
      BY <1>6, <3>1, <3>2, <3>4
<1>9. \A k \in 1..7 : k \in 1..4 \/ k = 5 \/ k = 6 \/ k = 7
  OBVIOUS
<1> QED
  BY <1>4, <1>6, <1>7, <1>8, <1>9

\* JoinRequest.
LEMMA JoinRequestListed ==
  LET a == Digits("app_eui", 0, 8)
      b == Digits("dev_eui", 8, 8)
      c == Number("dev_nonce", 16, 2)
      F == {a, b, c}
  IN  /\ JoinRequestFields = F /\ Listed(F, 18)
      /\ Names(F) = {"app_eui", "dev_eui", "dev_nonce"}
      /\ IsAlone(F, a) /\ IsAlone(F, b) /\ IsAlone(F, c)
<1> DEFINE a == Digits("app_eui", 0, 8)
           b == Digits("dev_eui", 8, 8)
           c == Number("dev_nonce", 16, 2)
           F == {a, b, c}
<1>1. JoinRequestFields = F
  BY DEF JoinRequestFields
<1>2. /\ a.name = "app_eui" /\ a.kind = "digits" /\ a.at = 0 /\ a.len = 8
      /\ b.name = "dev_eui" /\ b.kind = "digits" /\ b.at = 8 /\ b.len = 8
      /\ c.name = "dev_nonce" /\ c.kind = "number" /\ c.at = 16 /\ c.len = 2
      /\ c.low = 0 /\ c.width = 8
  BY DEF Number, Digits
<1> HIDE DEF a, b, c
<1>3. IsFiniteSet(F)
  BY FewFinite, Zenon
<1>4. Size(F) = 18
  BY <1>2, SizeIs
<1>5. \A f \in F : (IsField(f) \/ IsDigits(f)) /\ f.at + f.len <= 18
  BY <1>2 DEF IsField, IsDigits
<1>6. \A f, g \in F : f.name = g.name => f = g
  BY <1>2
<1>7. Listed(F, 18)
  BY <1>3, <1>4, <1>5, <1>6 DEF Listed
<1>8. Names(F) = {"app_eui", "dev_eui", "dev_nonce"}
  BY <1>2 DEF Names
<1>9. IsAlone(F, a) /\ IsAlone(F, b) /\ IsAlone(F, c)
  BY <1>2 DEF IsAlone, Apart
<1> QED
  BY <1>1, <1>7, <1>8, <1>9 DEF a, b, c

\* What is taken out of bytes is a value, and they are the bytes of it.
TakenBack(f, b) ==
  /\ Fits(f, Take(f, b))
  /\ \A k \in 1..Len(b) : Covers(f, k) => Put(f, Take(f, b), k - 1) = b[k]

\* Digits that were read are written as they were.
LEMMA DigitsAgain ==
  ASSUME NEW f, IsDigits(f), NEW b \in Seq(Byte), f.at + f.len <= Len(b)
  PROVE  TakenBack(f, b)
<1>v. PICK v : v = Take(f, b)
  OBVIOUS
<1> DEFINE s == SubSeq(b, f.at + 1, f.at + f.len)
<1>1. f.at \in Nat /\ f.len \in Nat /\ f.len > 0
  BY DEF IsDigits
<1>2. s \in Seq(Byte) /\ Len(s) = f.len /\ \A k \in 1..f.len : s[k] = b[f.at + k]
  <2> DEFINE x == f.at + 1
             y == f.at + f.len
  <2>1. x \in Nat /\ y \in Nat /\ 1 <= x /\ x <= y + 1 /\ y <= Len(b)
    BY <1>1
  <2>2. y + 1 - x = f.len /\ \A k \in 1..f.len : x - 1 + k = f.at + k
    BY <1>1
  <2> HIDE DEF x, y
  <2>3. /\ SubSeq(b, x, y) \in Seq(Byte) /\ Len(SubSeq(b, x, y)) = y + 1 - x
        /\ \A k \in 1..(y + 1 - x) : SubSeq(b, x, y)[k] = b[x - 1 + k]
    BY <2>1, PartOf
  <2>4. s = SubSeq(b, x, y)
    BY DEF x, y
  <2> HIDE DEF s
  <2> QED
    BY <2>2, <2>3, <2>4
<1>3. v = Reverse(s)
  BY <1>v, DigitsField
<1> HIDE DEF s
<1>4. v \in Seq(Byte) /\ Len(v) = f.len /\ \A k \in 1..f.len : v[k] = s[f.len + 1 - k]
  <2>1. /\ Reverse(s) \in Seq(Byte) /\ Len(Reverse(s)) = Len(s)
        /\ \A k \in 1..Len(s) : Reverse(s)[k] = s[Len(s) + 1 - k]
    BY <1>2, Reversed, Zenon
  <2> QED
    BY <1>2, <1>3, <2>1
<1>5. ASSUME NEW k \in 1..Len(b), Covers(f, k)
      PROVE  Put(f, v, k - 1) = b[k]
  <2>1. k - 1 \in f.at..(f.at + f.len - 1)
    BY <1>5 DEF Covers
  <2>2. Put(f, v, k - 1) = v[f.len - (k - 1 - f.at)]
    BY <2>1, DigitsField
  <2>3. PICK j \in 1..f.len : j = f.len - (k - 1 - f.at)
    BY <1>1, <2>1
  <2>4. PICK i \in 1..f.len : i = f.len + 1 - j
    BY <1>1
  <2>5. f.at + i = k
    BY <1>1, <2>3, <2>4, SMTT(30)
  <2>6. v[j] = s[i] /\ s[i] = b[f.at + i]
    BY <1>2, <1>4, <2>4
  <2> QED
    BY <2>2, <2>3, <2>5, <2>6
<1> QED
  BY <1>4, <1>5, <1>v DEF TakenBack, Fits

\* So is a number of two bytes.
LEMMA TwoBytesAgain ==
  ASSUME NEW f, IsField(f), f.kind = "number", f.len = 2, NEW b \in Seq(Byte), f.at + 2 <= Len(b)
  PROVE  TakenBack(f, b)
<1>v. PICK v : v = Take(f, b)
  OBVIOUS
<1>0. f.at \in Nat
  BY DEF IsField
<1>1. PICK x \in Byte, y \in Byte : x = b[f.at + 1] /\ y = b[f.at + 2]
  BY <1>0
<1>2. x \in Int /\ y \in Int
  BY BytesAreInts
<1>3. v = x * 1 + y * 256
  BY <1>v, <1>0, <1>1, <1>2, TwoBytes, SMTT(30)
<1>4. v \in Nat /\ v < 65536 /\ (v \div 1) % 256 = x /\ (v \div 256) % 256 = y
  BY <1>3, CounterBytes
<1>5. ASSUME NEW k \in 1..Len(b), Covers(f, k)
      PROVE  Put(f, v, k - 1) = b[k]
  <2>1. k - 1 \in f.at..(f.at + f.len - 1)
    BY <1>5 DEF Covers
  <2>2. Put(f, v, k - 1) = (v \div 256^(k - 1 - f.at)) % 256
    BY <2>1 DEF Put
  <2>3. PICK j \in {0, 1} : j = k - 1 - f.at
    BY <1>0, <2>1
  <2>4. Put(f, v, k - 1) = (v \div 256^j) % 256
    BY <2>2, <2>3
  <2>5. 256^0 = 1 /\ 256^1 = 256
    BY Powers256
  <2>6. CASE j = 0
    <3>1. k = f.at + 1
      BY <1>0, <2>3, <2>6
    <3>2. 256^j = 1
      BY <2>5, <2>6, Zenon
    <3> QED
      BY <1>1, <1>4, <2>4, <3>1, <3>2
  <2>7. CASE j = 1
    <3>1. k = f.at + 2
      BY <1>0, <2>3, <2>7
    <3>2. 256^j = 256
      BY <2>5, <2>7, Zenon
    <3> QED
      BY <1>1, <1>4, <2>4, <3>1, <3>2
  <2> QED
    BY <2>6, <2>7
<1> QED
  BY <1>4, <1>5, <1>v DEF TakenBack, Fits

\* A JoinRequest that was decoded is encoded to what it was.
LEMMA JoinRequestBack ==
  ASSUME NEW b \in Seq(Byte), Len(b) = 18
  PROVE  Encode(JoinRequestFields, Decode(JoinRequestFields, b)) = b
<1> DEFINE f == Digits("app_eui", 0, 8)
           g == Digits("dev_eui", 8, 8)
           c == Number("dev_nonce", 16, 2)
           F == {f, g, c}
           d == Decode(F, b)
<1>1. JoinRequestFields = F /\ Listed(F, 18) /\ IsAlone(F, f) /\ IsAlone(F, g) /\ IsAlone(F, c)
  BY JoinRequestListed
<1>2. /\ f.name = "app_eui" /\ f.kind = "digits" /\ f.at = 0 /\ f.len = 8
      /\ g.name = "dev_eui" /\ g.kind = "digits" /\ g.at = 8 /\ g.len = 8
      /\ c.name = "dev_nonce" /\ c.kind = "number" /\ c.at = 16 /\ c.len = 2
      /\ c.low = 0 /\ c.width = 8
  BY DEF Number, Digits
<1> HIDE DEF f, g, c
<1>3. f \in F /\ g \in F /\ c \in F
  OBVIOUS
<1>4. d[f.name] = Take(f, b) /\ d[g.name] = Take(g, b) /\ d[c.name] = Take(c, b)
  BY <1>1, <1>3, DecodedField
<1>5. IsDigits(f) /\ IsDigits(g) /\ IsField(c)
  BY <1>2 DEF IsDigits, IsField
<1>6. f.at + f.len <= Len(b) /\ g.at + g.len <= Len(b) /\ c.at + 2 <= Len(b)
  BY <1>2
<1>7. TakenBack(f, b) /\ TakenBack(g, b)
  BY <1>5, <1>6, DigitsAgain
<1>8. TakenBack(c, b)
  BY <1>2, <1>5, <1>6, TwoBytesAgain
<1> HIDE DEF d
<1>9. AllFit(F, d)
  BY <1>4, <1>7, <1>8 DEF AllFit, TakenBack
<1>10. \A k \in 1..18 : Covers(f, k) \/ Covers(g, k) \/ Covers(c, k)
  BY <1>2 DEF Covers
<1> HIDE DEF F
<1>l. Listed(F, 18) /\ IsAlone(F, f) /\ IsAlone(F, g) /\ IsAlone(F, c)
  BY <1>1
<1>11. ASSUME NEW k \in 1..18
       PROVE  Encode(F, d)[k] = b[k]
  <2>1. CASE Covers(f, k)
    <3>1. Encode(F, d)[k] = Put(f, d[f.name], k - 1)
      BY <1>l, <1>3, <1>9, <2>1, AloneByte, SMTT(30)
    <3> QED
      BY <1>4, <1>7, <1>8, <2>1, <3>1 DEF TakenBack
  <2>2. CASE Covers(g, k)
    <3>1. Encode(F, d)[k] = Put(g, d[g.name], k - 1)
      BY <1>l, <1>3, <1>9, <2>2, AloneByte, SMTT(30)
    <3> QED
      BY <1>4, <1>7, <1>8, <2>2, <3>1 DEF TakenBack
  <2>3. CASE Covers(c, k)
    <3>1. Encode(F, d)[k] = Put(c, d[c.name], k - 1)
      BY <1>l, <1>3, <1>9, <2>3, AloneByte, SMTT(30)
    <3> QED
      BY <1>4, <1>7, <1>8, <2>3, <3>1 DEF TakenBack
  <2> QED
    BY <1>10, <2>1, <2>2, <2>3
<1>12. Encode(F, d) = [k \in 1..18 |-> Encode(F, d)[k]]
  BY <1>1, EncodedLen
<1>13. Encode(F, d) = b
  BY <1>11, <1>12
<1> QED
  BY <1>1, <1>13 DEF d

\* The header, but for the reserved bits.
LEMMA MHDRBack ==
  ASSUME NEW b, b[1] \in Byte
  PROVE  /\ Encode(MHDR, Decode(MHDR, b)) = << b[1] - ((b[1] \div 4) % 8) * 4 >>
         /\ b[1] - ((b[1] \div 4) % 8) * 4 \in Int
<1>1. PICK x \in Byte : x = b[1]
  OBVIOUS
<1>2. x \in Int /\ (x \div 32) % 8 \in Int /\ (x \div 1) % 4 \in Int /\ x - ((x \div 4) % 8) * 4 \in Int
  BY BytesAreInts
<1> DEFINE d == Decode(MHDR, b)
<1>3. d = [mtype |-> (b[1] \div 32) % 8, major |-> (b[1] \div 1) % 4]
  BY MHDRDecoded
<1> HIDE DEF d
<1>4. d["mtype"] = (x \div 32) % 8 /\ d["major"] = (x \div 1) % 4
  BY <1>1, <1>3
<1>5. d["mtype"] \in Int /\ d["major"] \in Int
  BY <1>2, <1>4
<1>6. Encode(MHDR, d) = << (d["mtype"] % 8) * 32 + (d["major"] % 4) * 1 >>
  BY <1>5, MHDRBytes
<1>7. (((x \div 32) % 8) % 8) * 32 + (((x \div 1) % 4) % 4) * 1 = x - ((x \div 4) % 8) * 4
  BY MHDRBits
<1>8. (d["mtype"] % 8) * 32 + (d["major"] % 4) * 1 = x - ((x \div 4) % 8) * 4
  BY <1>4, <1>7
<1> QED
  BY <1>1, <1>2, <1>6, <1>8 DEF d

\* Two parts that follow one another.
LEMMA PartsJoined ==
  ASSUME NEW b \in Seq(Int), NEW x \in Nat, NEW y \in Nat, NEW z \in Nat,
         1 <= x, x <= y + 1, y <= z, z <= Len(b)
  PROVE  SubSeq(b, x, y) \o SubSeq(b, y + 1, z) = SubSeq(b, x, z)
<1>1. /\ SubSeq(b, x, y) \in Seq(Int) /\ Len(SubSeq(b, x, y)) = y + 1 - x
      /\ \A k \in 1..(y + 1 - x) : SubSeq(b, x, y)[k] = b[x - 1 + k]
  BY PartOf
<1>2. /\ SubSeq(b, x, z) \in Seq(Int) /\ Len(SubSeq(b, x, z)) = z + 1 - x
      /\ \A k \in 1..(z + 1 - x) : SubSeq(b, x, z)[k] = b[x - 1 + k]
  BY PartOf
<1>3. /\ SubSeq(b, y + 1, z) \in Seq(Int) /\ Len(SubSeq(b, y + 1, z)) = z - y
      /\ \A k \in 1..(z - y) : SubSeq(b, y + 1, z)[k] = b[y + k]
  <2>1. PICK w \in Nat : w = y + 1
    OBVIOUS
  <2>2. /\ SubSeq(b, w, z) \in Seq(Int) /\ Len(SubSeq(b, w, z)) = z + 1 - w
        /\ \A k \in 1..(z + 1 - w) : SubSeq(b, w, z)[k] = b[w - 1 + k]
    BY <2>1, PartOf
  <2>3. z + 1 - w = z - y /\ \A k \in 1..(z - y) : w - 1 + k = y + k
    BY <2>1
  <2> QED
    BY <2>1, <2>2, <2>3
<1> DEFINE p == SubSeq(b, x, y)
           q == SubSeq(b, y + 1, z)
           r == SubSeq(b, x, z)
<1> HIDE DEF p, q, r
<1>4. Joined(p, q, p \o q)
  BY <1>1, <1>3, Concatenated DEF p, q
<1>5. Len(p \o q) = Len(r)
  BY <1>1, <1>2, <1>3, <1>4 DEF p, q, r, Joined
<1>6. ASSUME NEW k \in 1..Len(r)
      PROVE  (p \o q)[k] = r[k]
  <2>1. r[k] = b[x - 1 + k] /\ Len(r) = z + 1 - x /\ Len(p) = y + 1 - x /\ Len(q) = z - y
    BY <1>1, <1>2, <1>3 DEF p, q, r
  <2>2. CASE k <= Len(p)
    <3>1. (p \o q)[k] = p[k] /\ p[k] = b[x - 1 + k]
      BY <1>1, <1>4, <2>1, <2>2 DEF p, Joined
    <3> QED
      BY <2>1, <3>1
  <2>3. CASE k > Len(p)
    <3>1. PICK j \in 1..Len(q) : k = Len(p) + j
      <4>1. k - Len(p) \in 1..Len(q) /\ k = Len(p) + (k - Len(p))
        BY <2>1, <2>3
      <4> QED
        BY <4>1
    <3>2. (p \o q)[k] = q[j]
      BY <1>4, <3>1 DEF Joined
    <3>3. q[j] = b[y + j] /\ y + j = x - 1 + k
      BY <1>3, <2>1, <3>1 DEF q
    <3> QED
      BY <2>1, <3>2, <3>3
  <2> QED
    BY <2>1, <2>2, <2>3, SMTT(30)
<1>7. p \o q \in Seq(Int) /\ r \in Seq(Int)
  BY <1>2, <1>4 DEF Joined, r
<1>8. p \o q = r
  BY <1>5, <1>6, <1>7, SameBytes
<1> QED
  BY <1>8 DEF p, q, r

\* The whole of a byte string.
LEMMA AllOf ==
  ASSUME NEW b \in Seq(Int)
  PROVE  SubSeq(b, 1, Len(b)) = b
OBVIOUS

\* The end of what a MACPayload is generated to.
Rest(m) == m.f_opts \o (IF m.f_port = <<>> THEN <<>> ELSE m.f_port \o m.frm_payload)

\* Parts may be joined in either order.
LEMMA Associated ==
  ASSUME NEW x \in Seq(Int), NEW y \in Seq(Int), NEW z \in Seq(Int)
  PROVE  (x \o y) \o z = x \o (y \o z)
OBVIOUS

\* Nothing is added.
LEMMA NoMore ==
  ASSUME NEW x \in Seq(Int)
  PROVE  x \o <<>> = x
OBVIOUS

\* The lesser of two.
LEMMA LesserOf ==
  ASSUME NEW x \in Int, NEW y \in Int
  PROVE  Min({x, y}) = IF x <= y THEN x ELSE y
<1> DEFINE m == IF x <= y THEN x ELSE y
<1>1. m \in {x, y} /\ \A z \in {x, y} : m <= z
  OBVIOUS
<1>2. \A w \in {x, y} : (\A z \in {x, y} : w <= z) => w = m
  OBVIOUS
<1> HIDE DEF m
<1>3. Min({x, y}) = m
  BY <1>1, <1>2 DEF Min
<1> QED
  BY <1>3 DEF m

DataClasses == {"MACPayloadUplink", "MACPayloadDownlink"}

\* The number of bytes of FOpts.
LEMMA OptsLen ==
  ASSUME NEW class \in DataClasses, NEW b \in Seq(Byte), Len(b) >= 7
  PROVE  Decode(FHDR(class), b).f_opts_len \in 0..15
<1>1. PICK x \in Byte : x = b[5]
  OBVIOUS
<1>2. (x \div 1) % 16 \in 0..15
  BY DEF Byte
<1>3. b[6] \in Int /\ b[7] \in Int
  BY BytesAreInts
<1>4. CASE class = "MACPayloadUplink"
  <2>1. Decode(FHDR("MACPayloadUplink"), b)["f_opts_len"] = (b[5] \div 1) % 16
    BY <1>3, FHDRUplinkDecoded
  <2> QED
    BY <1>1, <1>2, <1>4, <2>1
<1>5. CASE class = "MACPayloadDownlink"
  <2>1. Decode(FHDR("MACPayloadDownlink"), b)["f_opts_len"] = (b[5] \div 1) % 16
    BY <1>3, FHDRDownlinkDecoded
  <2> QED
    BY <1>1, <1>2, <1>5, <2>1
<1> QED
  BY <1>4, <1>5 DEF DataClasses

\* What follows the FHDR is divided, whatever its length is.
LEMMA Divided ==
  ASSUME NEW class \in DataClasses, NEW b \in Seq(Byte), NEW m \in parseMACPayload(class, b)
  PROVE  /\ Len(b) >= 7 /\ m.class = class /\ m.fhdr = Decode(FHDR(class), b)
         /\ m = MACPayload(class, m.fhdr, m.f_opts, m.f_port, m.frm_payload)
         /\ m.f_opts \in Seq(Byte) /\ m.f_port \in Seq(Byte) /\ m.frm_payload \in Seq(Byte)
         /\ Rest(m) = SubSeq(b, 8, Len(b))
<1>1. Len(b) >= 7 /\ Len(b) \in Nat
  BY DEF parseMACPayload
<1> DEFINE d == Decode(FHDR(class), b)
           port == 8 + d.f_opts_len
<1>2. port \in 8..23
  <2>1. PICK l \in 0..15 : l = d.f_opts_len
    BY <1>1, OptsLen, Zenon
  <2>2. port = 8 + l
    BY <2>1, Zenon
  <2> HIDE DEF port
  <2> QED
    BY <2>2
<1>3. m = MACPayload(class, d, SubSeq(b, 8, Min({port - 1, Len(b)})),
              SubSeq(b, port, Min({port, Len(b)})), SubSeq(b, port + 1, Len(b)))
  BY <1>1 DEF parseMACPayload
<1> HIDE DEF port, d
<1>4. /\ m.class = class /\ m.fhdr = d
      /\ m.f_opts = SubSeq(b, 8, Min({port - 1, Len(b)}))
      /\ m.f_port = SubSeq(b, port, Min({port, Len(b)}))
      /\ m.frm_payload = SubSeq(b, port + 1, Len(b))
  BY <1>3 DEF MACPayload
<1>5. m = MACPayload(class, m.fhdr, m.f_opts, m.f_port, m.frm_payload)
  BY <1>3, <1>4
<1>6. b \in Seq(Int)
  BY BytesAreInts
<1>7. CASE Len(b) < port
  <2>1. Min({port - 1, Len(b)}) = Len(b) /\ Min({port, Len(b)}) = Len(b)
    <3>1. port - 1 \in Int /\ port \in Int /\ Len(b) \in Int /\ (port - 1 <= Len(b) => port - 1 = Len(b))
      BY <1>1, <1>2, <1>7
    <3> QED
      BY <1>7, <3>1, LesserOf
  <2>2. m.f_opts = SubSeq(b, 8, Len(b)) /\ m.f_port = <<>> /\ m.frm_payload = <<>>
    <3>1. SubSeq(b, port, Len(b)) = <<>>
      BY <1>1, <1>2, <1>7, NoPart
    <3>2. SubSeq(b, port + 1, Len(b)) = <<>>
      <4>1. PICK x \in Nat : x = port + 1 /\ Len(b) < x
        BY <1>1, <1>2, <1>7
      <4> QED
        BY <1>1, <4>1, NoPart
    <3> QED
      BY <1>4, <2>1, <3>1, <3>2
  <2>3. SubSeq(b, 8, Len(b)) \in Seq(Byte) /\ SubSeq(b, 8, Len(b)) \in Seq(Int)
    BY <1>1, <1>6, PartOf
  <2>4. Rest(m) = SubSeq(b, 8, Len(b))
    BY <2>2, <2>3, NoMore DEF Rest
  <2> QED
    <3>1. <<>> \in Seq(Byte)
      OBVIOUS
    <3> QED
      BY <1>1, <1>4, <1>5, <2>2, <2>3, <2>4, <3>1 DEF d
<1>8. CASE Len(b) >= port
  <2>1. Min({port - 1, Len(b)}) = port - 1 /\ Min({port, Len(b)}) = port
    <3>1. port - 1 \in Int /\ port \in Int /\ Len(b) \in Int /\ port - 1 <= Len(b) /\ port <= Len(b)
      BY <1>1, <1>2, <1>8
    <3> QED
      BY <3>1, LesserOf
  <2>2. PICK p \in Nat, n \in Nat : p = port - 1 /\ n = Len(b)
    BY <1>1, <1>2, SMTT(30)
  <2>3. 8 <= p + 1 /\ p + 1 <= n /\ n = Len(b) /\ p + 1 \in Nat /\ p + 1 + 1 \in Nat
    BY <1>2, <1>8, <2>2
  <2>4. /\ m.f_opts = SubSeq(b, 8, p) /\ m.f_port = SubSeq(b, p + 1, p + 1)
        /\ m.frm_payload = SubSeq(b, (p + 1) + 1, n)
    <3>1. port = p + 1
      BY <1>2, <2>2
    <3> QED
      BY <1>4, <2>1, <2>2, <3>1
  <2>5. /\ SubSeq(b, 8, p) \in Seq(Byte) /\ SubSeq(b, p + 1, p + 1) \in Seq(Byte)
        /\ SubSeq(b, (p + 1) + 1, n) \in Seq(Byte) /\ Len(SubSeq(b, p + 1, p + 1)) = 1
    <3>1. PICK x \in Nat, y \in Nat : x = p + 1 /\ y = (p + 1) + 1
      BY <2>3
    <3>2. x <= Len(b) /\ 1 <= x /\ y <= n + 1 /\ 1 <= y /\ p <= Len(b) /\ x + 1 - x = 1 /\ 8 <= p + 1
      BY <2>3, <3>1
    <3>3. SubSeq(b, 8, p) \in Seq(Byte)
      BY <3>2, PartOf
    <3>4. SubSeq(b, x, x) \in Seq(Byte) /\ Len(SubSeq(b, x, x)) = 1
      BY <3>2, PartOf
    <3>5. SubSeq(b, y, n) \in Seq(Byte)
      BY <2>3, <3>2, PartOf
    <3> QED
      BY <3>1, <3>3, <3>4, <3>5
  <2>6. m.f_port # <<>>
    <3>1. Len(m.f_port) = 1
      BY <2>4, <2>5, Zenon
    <3>2. Len(<< >>) = 0
      OBVIOUS
    <3>3. m.f_port = <<>> => Len(m.f_port) = Len(<< >>)
      BY Zenon
    <3>4. 0 # 1
      OBVIOUS
    <3> QED
      BY <3>1, <3>2, <3>3, <3>4, Zenon
  <2>7. Rest(m) = SubSeq(b, 8, n)
    <3>1. m.f_port \o m.frm_payload = SubSeq(b, p + 1, n)
      <4>1. PICK x \in Nat : x = p + 1
        BY <2>3
      <4>2. PICK y \in Nat : y = x
        OBVIOUS
      <4>3. 1 <= x /\ x <= y + 1 /\ y <= n /\ n <= Len(b)
        BY <2>3, <4>1, <4>2
      <4>4. SubSeq(b, x, y) \o SubSeq(b, y + 1, n) = SubSeq(b, x, n)
        BY <1>6, <4>3, PartsJoined
      <4> QED
        BY <2>4, <4>1, <4>2, <4>4
    <3>2. SubSeq(b, 8, p) \o SubSeq(b, p + 1, n) = SubSeq(b, 8, n)
      <4>1. PICK x \in Nat : x = 8
        OBVIOUS
      <4>2. 1 <= x /\ x <= p + 1 /\ p <= n /\ n <= Len(b)
        BY <2>3, <4>1
      <4>3. SubSeq(b, x, p) \o SubSeq(b, p + 1, n) = SubSeq(b, x, n)
        BY <1>6, <4>2, PartsJoined
      <4> QED
        BY <4>1, <4>3
    <3> QED
      BY <2>4, <2>6, <3>1, <3>2 DEF Rest
  <2> QED
    BY <1>1, <1>4, <1>5, <2>2, <2>4, <2>5, <2>7 DEF d
<1> QED
  BY <1>1, <1>2, <1>7, <1>8

\* Bytes of a MACPayload, but for what is reserved.
IsBack(class, b, w) ==
  /\ w \in Seq(Int) /\ Len(w) = Len(b)
  /\ \A k \in 1..Len(b) : class = "MACPayloadUplink" \/ k # 5 => w[k] = b[k]
  /\ class = "MACPayloadDownlink" => w[5] = b[5] - ((b[5] \div 64) % 2) * 64

\* A frame that was parsed has a counter of two bytes.
LEMMA CounterIsShort ==
  ASSUME NEW class \in DataClasses, NEW b \in Seq(Byte), Len(b) >= 7
  PROVE  Decode(FHDR(class), b).f_cnt \in Nat /\ Decode(FHDR(class), b).f_cnt < 65536
<1>1. PICK x \in Byte, y \in Byte : x = b[6] /\ y = b[7]
  OBVIOUS
<1>2. b[6] \in Int /\ b[7] \in Int
  BY <1>1, BytesAreInts
<1>3. PICK c : c = x * 1 + y * 256
  OBVIOUS
<1>4. c \in Nat /\ c < 65536
  BY <1>3, CounterBytes
<1>5. CASE class = "MACPayloadUplink"
  <2>1. Decode(FHDR("MACPayloadUplink"), b)["f_cnt"] = b[6] * 1 + b[7] * 256
    BY <1>2, FHDRUplinkDecoded
  <2> QED
    BY <1>1, <1>3, <1>4, <1>5, <2>1
<1>6. CASE class = "MACPayloadDownlink"
  <2>1. Decode(FHDR("MACPayloadDownlink"), b)["f_cnt"] = b[6] * 1 + b[7] * 256
    BY <1>2, FHDRDownlinkDecoded
  <2> QED
    BY <1>1, <1>3, <1>4, <1>6, <2>1
<1> QED
  BY <1>5, <1>6 DEF DataClasses

\* A MACPayload is generated as it was.
LEMMA MACPayloadBack ==
  ASSUME NEW class \in DataClasses, NEW b \in Seq(Byte), NEW m \in parseMACPayload(class, b)
  PROVE  \E w : IsBack(class, b, w) /\ generateMACPayload(m) = {w}
<1>1. /\ Len(b) >= 7 /\ Len(b) \in Nat /\ m.class = class /\ m.fhdr = Decode(FHDR(class), b)
      /\ m.f_opts \in Seq(Int) /\ m.f_port \in Seq(Int) /\ m.frm_payload \in Seq(Int)
      /\ Rest(m) = SubSeq(b, 8, Len(b))
  BY Divided, BytesAreInts
<1> DEFINE E == Encode(FHDR(class), m.fhdr)
           s == SubSeq(b, 8, Len(b))
           t == IF m.f_port = <<>> THEN <<>> ELSE m.f_port \o m.frm_payload
           w == E \o s
<1>2. m.fhdr.f_cnt < 65536
  BY <1>1, CounterIsShort
<1>3. /\ E \in Seq(Int) /\ Len(E) = 7
      /\ \A k \in 1..7 : class = "MACPayloadUplink" \/ k # 5 => E[k] = b[k]
      /\ class = "MACPayloadDownlink" => E[5] = b[5] - ((b[5] \div 64) % 2) * 64
  <2>1. \A k \in 1..7 : b[k] \in Int
    BY <1>1, BytesAreInts
  <2>2. PICK x \in Int : x = b[5] /\ x - ((x \div 64) % 2) * 64 \in Int
    BY <2>1
  <2>3. CASE class = "MACPayloadUplink"
    <3>1. E = [k \in 1..7 |-> E[k]] /\ \A k \in 1..7 : E[k] = b[k]
      BY <1>1, <2>3, UplinkBack
    <3>2. \A k \in 1..7 : E[k] \in Int
      BY <2>1, <3>1
    <3> HIDE DEF E
    <3>3. E \in Seq(Int) /\ Len(E) = 7
      BY <3>1, <3>2, IsSequence
    <3> QED
      BY <2>3, <3>1, <3>3
  <2>4. CASE class = "MACPayloadDownlink"
    <3>1. /\ E = [k \in 1..7 |-> E[k]] /\ \A k \in 1..7 : k # 5 => E[k] = b[k]
          /\ E[5] = b[5] - ((b[5] \div 64) % 2) * 64
      BY <1>1, <2>4, DownlinkBack
    <3> HIDE DEF E
    <3>2. \A k \in 1..7 : E[k] \in Int
      BY <2>1, <2>2, <3>1
    <3>3. E \in Seq(Int) /\ Len(E) = 7
      BY <3>1, <3>2, IsSequence
    <3> QED
      BY <2>4, <3>1, <3>3
  <2> QED
    BY <2>3, <2>4 DEF DataClasses
<1> HIDE DEF E
<1>4. s \in Seq(Int) /\ Len(s) = Len(b) - 7 /\ \A k \in 1..(Len(b) - 7) : s[k] = b[7 + k]
  <2>1. PICK x \in Nat, n \in Nat : x = 8 /\ n = Len(b) /\ 1 <= x /\ x <= n + 1 /\ n <= Len(b)
    <3>1. 8 \in Nat /\ Len(b) \in Nat /\ 1 <= 8 /\ 8 <= Len(b) + 1 /\ Len(b) <= Len(b)
      BY <1>1
    <3> QED
      BY <3>1, Zenon
  <2>2. /\ SubSeq(b, x, n) \in Seq(Byte) /\ Len(SubSeq(b, x, n)) = n + 1 - x
        /\ \A k \in 1..(n + 1 - x) : SubSeq(b, x, n)[k] = b[x - 1 + k]
    BY <2>1, PartOf
  <2>3. n + 1 - x = Len(b) - 7 /\ \A k \in Nat : x - 1 + k = 7 + k
    BY <2>1
  <2>4. s \in Seq(Int)
    BY <2>1, <2>2, BytesAreInts
  <2> QED
    BY <2>1, <2>2, <2>3, <2>4
<1> HIDE DEF s
<1>5. Joined(E, s, w)
  BY <1>3, <1>4, Concatenated
<1>6. IsBack(class, b, w)
  <2>1. w \in Seq(Int) /\ Len(w) = Len(b)
    BY <1>1, <1>3, <1>4, <1>5 DEF Joined
  <2>2. \A k \in 1..7 : w[k] = E[k]
    BY <1>3, <1>5 DEF Joined
  <2>3. ASSUME NEW k \in 1..Len(b), k > 7
        PROVE  w[k] = b[k]
    <3>1. PICK j \in 1..(Len(b) - 7) : k = 7 + j
      <4>1. k - 7 \in 1..(Len(b) - 7) /\ k = 7 + (k - 7)
        BY <1>1, <2>3
      <4> QED
        BY <4>1
    <3> QED
      BY <1>3, <1>4, <1>5, <3>1 DEF Joined
  <2>4. \A k \in 1..Len(b) : k \in 1..7 \/ k > 7
    BY <1>1
  <2> HIDE DEF w
  <2>5. \A k \in 1..Len(b) : class = "MACPayloadUplink" \/ k # 5 => w[k] = b[k]
    BY <1>3, <2>2, <2>3, <2>4
  <2>6. class = "MACPayloadDownlink" => w[5] = b[5] - ((b[5] \div 64) % 2) * 64
    BY <1>3, <2>2
  <2> QED
    BY <2>1, <2>5, <2>6 DEF IsBack
<1>7. (E \o m.f_opts) \o t = w
  <2>1. m.f_opts \o t = s
    BY <1>1 DEF Rest, s
  <2>2. t \in Seq(Int)
    BY <1>1, Concatenated DEF Joined
  <2> HIDE DEF t
  <2> QED
    BY <1>1, <1>3, <2>1, <2>2, Associated, ZenonT(40)
<1>8. generateMACPayload(m) = {w}
  <2> HIDE DEF w, t
  <2>1. generateFHDR(m.class, m.fhdr, m.f_opts) = {E \o m.f_opts}
    BY <1>1, <1>2 DEF generateFHDR, E
  <2>2. generateMACPayload(m) = {x \o t : x \in {E \o m.f_opts}}
    BY <2>1 DEF generateMACPayload, t
  <2> QED
    BY <1>7, <2>2
<1> QED
  BY <1>6, <1>8

\* A frame as its parts.
LEMMA PutTogether ==
  ASSUME NEW r \in Seq(Byte), Len(r) >= 5, NEW x \in Int, NEW w \in Seq(Int), Len(w) = Len(r) - 5
  PROVE  (<<x>> \o w) \o SubSeq(r, Len(r) - 3, Len(r)) =
           [k \in 1..Len(r) |->
              IF k = 1 THEN x ELSE IF k <= Len(r) - 4 THEN w[k - 1] ELSE r[k]]
<1>1. PICK n \in Nat : n = Len(r) /\ n >= 5
  OBVIOUS
<1>2. PICK m \in Nat : m = n - 3 /\ 1 <= m /\ m <= n + 1
  <2>1. n - 3 \in Nat /\ 1 <= n - 3 /\ n - 3 <= n + 1
    BY <1>1
  <2> QED
    BY <2>1, Zenon
<1> DEFINE s == SubSeq(r, m, n)
           u == <<x>> \o w
           f == u \o s
<1>3. s \in Seq(Int) /\ Len(s) = 4 /\ \A k \in 1..4 : s[k] = r[n - 4 + k]
  <2>1. s \in Seq(Byte) /\ Len(s) = n + 1 - m /\ \A k \in 1..(n + 1 - m) : s[k] = r[m - 1 + k]
    BY <1>1, <1>2, PartOf
  <2>2. n + 1 - m = 4 /\ \A k \in 1..4 : m - 1 + k = n - 4 + k
    BY <1>1, <1>2
  <2> HIDE DEF s
  <2> QED
    BY <2>1, <2>2, BytesAreInts
<1> HIDE DEF s
<1>4. u \in Seq(Int) /\ Len(u) = n - 4 /\ u[1] = x /\ \A k \in 1..(n - 5) : u[k + 1] = w[k]
  BY <1>1
<1> HIDE DEF u
<1>5. Joined(u, s, f)
  BY <1>3, <1>4, Concatenated
<1> HIDE DEF f
<1>6. f \in Seq(Int) /\ Len(f) = n
  BY <1>1, <1>3, <1>4, <1>5 DEF Joined
<1>7. ASSUME NEW k \in 1..n
      PROVE  f[k] = IF k = 1 THEN x ELSE IF k <= n - 4 THEN w[k - 1] ELSE r[k]
  <2>1. CASE k = 1
    BY <1>1, <1>4, <1>5, <2>1, SMTT(30) DEF Joined
  <2>2. CASE k # 1 /\ k <= n - 4
    <3>1. PICK j \in 1..(n - 5) : k = j + 1 /\ j = k - 1
      <4>1. k - 1 \in 1..(n - 5) /\ k = (k - 1) + 1
        BY <1>1, <2>2
      <4> QED
        BY <4>1
    <3>2. f[k] = u[k] /\ u[j + 1] = w[j]
      BY <1>1, <1>4, <1>5, <2>2 DEF Joined
    <3> QED
      BY <2>2, <3>1, <3>2
  <2>3. CASE k > n - 4
    <3>1. PICK j \in 1..4 : k = (n - 4) + j
      <4>1. k - (n - 4) \in 1..4 /\ k = (n - 4) + (k - (n - 4))
        BY <1>1, <2>3
      <4> QED
        BY <4>1
    <3>2. f[k] = s[j] /\ s[j] = r[n - 4 + j]
      BY <1>3, <1>4, <1>5, <3>1 DEF Joined
    <3>3. k # 1 /\ ~(k <= n - 4)
      BY <1>1, <2>3
    <3> QED
      BY <3>1, <3>2, <3>3
  <2> QED
    BY <1>1, <2>1, <2>2, <2>3
<1>8. f = [k \in 1..n |-> f[k]]
  BY <1>6
<1>9. f = [k \in 1..n |-> IF k = 1 THEN x ELSE IF k <= n - 4 THEN w[k - 1] ELSE r[k]]
  BY <1>7, <1>8
<1>10. f = (<<x>> \o w) \o SubSeq(r, Len(r) - 3, Len(r))
  BY <1>1, <1>2 DEF f, u, s
<1> QED
  BY <1>1, <1>9, <1>10

-----------------------------------------------------------------------------
(* What a sender encodes is decoded again.                                 *)

\* Two sequences of bytes, one behind the other.
LEMMA BytesJoined ==
  ASSUME NEW s \in Seq(Byte), NEW t \in Seq(Byte)
  PROVE  s \o t \in Seq(Byte) /\ Len(s \o t) = Len(s) + Len(t)
OBVIOUS

\* An address, and a number of two bytes.
IsAddr(a) == a \in Seq(Byte) /\ Len(a) = 4
IsShort(d) == d \in Nat /\ d < 65536

\* The values of an FHDR with a counter of two bytes.
IsFHDR(class, h) ==
  /\ h = [x \in Names(FHDR(class)) |-> h[x]]
  /\ IsAddr(h["dev_addr"]) /\ h["f_cnt"] \in Nat /\ h["f_cnt"] < 65536 /\ h["f_opts_len"] \in 0..15
  /\ \A x \in Names(FHDR(class)) \ {"dev_addr", "f_cnt", "f_opts_len"} : h[x] \in 0..1

\* Bytes that begin with those of e.
Begins(b, e) == b \in Seq(Byte) /\ Len(b) >= Len(e) /\ \A k \in 1..Len(e) : b[k] = e[k]

\* What is encoded of an uplink is decoded again.
LEMMA UplinkAgain ==
  ASSUME NEW h, IsFHDR("MACPayloadUplink", h), NEW e, e = Encode(FHDR("MACPayloadUplink"), h)
  PROVE  /\ e \in Seq(Byte) /\ Len(e) = 7
         /\ \A b : Begins(b, e) => Decode(FHDR("MACPayloadUplink"), b) = h
<1>0. Names(FHDR("MACPayloadUplink")) = {"dev_addr", "f_cnt", "adr", "adr_ack_req", "ack", "class_b", "f_opts_len"}
  BY FHDRUplinkListed
<1>1. /\ h = [x \in {"dev_addr", "f_cnt", "adr", "adr_ack_req", "ack", "class_b", "f_opts_len"} |-> h[x]]
      /\ h["dev_addr"] \in Seq(Byte) /\ Len(h["dev_addr"]) = 4 /\ h["f_cnt"] \in Nat /\ h["f_cnt"] < 65536
      /\ h["adr"] \in 0..1 /\ h["adr_ack_req"] \in 0..1 /\ h["ack"] \in 0..1 /\ h["class_b"] \in 0..1
      /\ h["f_opts_len"] \in 0..15
  BY <1>0 DEF IsFHDR, IsAddr
<1>2. PICK x0 \in 0..1, x1 \in 0..1, x2 \in 0..1, x3 \in 0..1, l \in 0..15 :
        x0 = h["adr"] /\ x1 = h["adr_ack_req"] /\ x2 = h["ack"] /\ x3 = h["class_b"] /\ l = h["f_opts_len"]
  BY <1>1
<1>3. PICK c \in Nat : c = h["f_cnt"] /\ c < 65536
  BY <1>1
<1>4. /\ e = [k \in 1..7 |-> e[k]]
      /\ \A k \in 1..4 : e[k] = h["dev_addr"][5 - k]
      /\ e[6] = (h["f_cnt"] \div 1) % 256 /\ e[7] = (h["f_cnt"] \div 256) % 256
      /\ e[5] = (h["adr"] % 2) * 128 + (h["adr_ack_req"] % 2) * 64 + (h["ack"] % 2) * 32 + (h["class_b"] % 2) * 16 + (h["f_opts_len"] % 16) * 1
  <2>1. /\ h["dev_addr"] \in Seq(Byte) /\ Len(h["dev_addr"]) = 4 /\ h["f_cnt"] \in Int
        /\ h["adr"] \in Int /\ h["adr_ack_req"] \in Int /\ h["ack"] \in Int /\ h["class_b"] \in Int /\ h["f_opts_len"] \in Int
    BY <1>1
  <2> QED
    BY <2>1, FHDRUplinkBytes, SMTT(100)
<1>5. PICK x \in Byte, y \in Byte : x = (c \div 1) % 256 /\ y = (c \div 256) % 256 /\ x * 1 + y * 256 = c
  <2>1. (c \div 1) % 256 \in Byte /\ (c \div 256) % 256 \in Byte
    BY DEF Byte
  <2>2. ((c \div 1) % 256) * 1 + ((c \div 256) % 256) * 256 = c
    BY <1>3, SMT
  <2> QED
    BY <2>1, <2>2
<1>6. PICK z \in Byte : /\ z = (x0 % 2) * 128 + (x1 % 2) * 64 + (x2 % 2) * 32 + (x3 % 2) * 16 + (l % 16) * 1
                        /\ (z \div 128) % 2 = x0 /\ (z \div 64) % 2 = x1 /\ (z \div 32) % 2 = x2 /\ (z \div 16) % 2 = x3 /\ (z \div 1) % 16 = l
  <2>1. PICK z : z = (x0 % 2) * 128 + (x1 % 2) * 64 + (x2 % 2) * 32 + (x3 % 2) * 16 + (l % 16) * 1
    OBVIOUS
  <2>2. z \in 0..255 /\ (z \div 128) % 2 = x0 /\ (z \div 64) % 2 = x1 /\ (z \div 32) % 2 = x2 /\ (z \div 16) % 2 = x3 /\ (z \div 1) % 16 = l
    BY <2>1
  <2> QED
    BY <2>1, <2>2 DEF Byte
<1>7. e[5] = z /\ e[6] = x /\ e[7] = y
  BY <1>2, <1>3, <1>4, <1>5, <1>6
<1>8. \A k \in 1..7 : e[k] \in Byte
  <2>1. \A k \in 1..4 : 5 - k \in 1..4
    OBVIOUS
  <2>2. \A k \in 1..4 : h["dev_addr"][k] \in Byte
    BY <1>1
  <2>3. \A k \in 1..4 : e[k] \in Byte
    BY <1>4, <2>1, <2>2
  <2>4. \A k \in 1..7 : k \in 1..4 \/ k = 5 \/ k = 6 \/ k = 7
    OBVIOUS
  <2> QED
    BY <1>7, <2>3, <2>4
<1>9. e \in Seq(Byte) /\ Len(e) = 7
  <2>1. PICK n \in Nat : n = 7
    OBVIOUS
  <2>2. e = [k \in 1..n |-> e[k]] /\ \A k \in 1..n : e[k] \in Byte
    BY <1>4, <1>8, <2>1
  <2>3. e \in Seq(Byte) /\ Len(e) = n
    BY <2>2, IsSequence
  <2> QED
    BY <2>1, <2>3
<1>10. ASSUME NEW b, Begins(b, e)
       PROVE  Decode(FHDR("MACPayloadUplink"), b) = h
  <2>1. b \in Seq(Byte) /\ Len(b) >= 7 /\ \A k \in 1..7 : b[k] = e[k]
    BY <1>9, <1>10 DEF Begins
  <2>2. b[6] \in Int /\ b[7] \in Int
    BY <1>7, <2>1, BytesAreInts, SMTT(30)
  <2>3. PICK d : d = Decode(FHDR("MACPayloadUplink"), b)
    OBVIOUS
  <2>4. /\ d = [u \in {"dev_addr", "f_cnt", "adr", "adr_ack_req", "ack", "class_b", "f_opts_len"} |-> d[u]]
        /\ d["dev_addr"] = Reverse(SubSeq(b, 1, 4)) /\ d["f_cnt"] = b[6] * 1 + b[7] * 256
        /\ d["adr"] = (b[5] \div 128) % 2
          /\ d["adr_ack_req"] = (b[5] \div 64) % 2
          /\ d["ack"] = (b[5] \div 32) % 2
          /\ d["class_b"] = (b[5] \div 16) % 2
        /\ d["f_opts_len"] = (b[5] \div 1) % 16
    BY <2>2, <2>3, FHDRUplinkDecoded
  <2>5. d["dev_addr"] = h["dev_addr"]
    <3>1. SubSeq(b, 1, 4) \in Seq(Byte) /\ Len(SubSeq(b, 1, 4)) = 4 /\ \A k \in 1..4 : SubSeq(b, 1, 4)[k] = b[k]
      BY <2>1, PartOf
    <3> DEFINE s == SubSeq(b, 1, 4)
    <3> HIDE DEF s
    <3>2. s \in Seq(Byte) /\ Len(s) = 4 /\ \A k \in 1..4 : s[k] = b[k]
      BY <3>1 DEF s
    <3>3. Reverse(s) \in Seq(Byte) /\ Len(Reverse(s)) = 4 /\ \A k \in 1..4 : Reverse(s)[k] = s[5 - k]
      <4>1. /\ Reverse(s) \in Seq(Byte) /\ Len(Reverse(s)) = Len(s)
            /\ \A k \in 1..Len(s) : Reverse(s)[k] = s[Len(s) + 1 - k]
        BY <3>2, Reversed, Zenon
      <4> QED
        BY <3>2, <4>1
    <3>4. PICK a : a = h["dev_addr"] /\ a \in Seq(Byte) /\ Len(a) = 4
      BY <1>1
    <3>5. \A k \in 1..4 : 5 - k \in 1..4 /\ 5 - (5 - k) = k
      OBVIOUS
    <3>6. ASSUME NEW k \in 1..4
          PROVE  Reverse(s)[k] = a[k]
      <4>1. PICK j \in 1..4 : j = 5 - k /\ 5 - j = k /\ j \in 1..7
        OBVIOUS
      <4>2. Reverse(s)[k] = s[j] /\ s[j] = b[j]
        BY <3>2, <3>3, <4>1
      <4>3. b[j] = e[j]
        BY <2>1, <4>1
      <4>4. e[j] = a[5 - j]
        BY <1>4, <3>4
      <4> QED
        BY <4>1, <4>2, <4>3, <4>4
    <3>7. Reverse(s) = a
      <4> DEFINE r == Reverse(s)
      <4>1. r \in Seq(Int) /\ a \in Seq(Int) /\ Len(r) = 4 /\ Len(a) = 4 /\ \A k \in 1..4 : r[k] = a[k]
        BY <3>3, <3>4, <3>6, BytesAreInts
      <4> HIDE DEF r
      <4> QED
        BY <4>1, SameBytes DEF r
    <3> QED
      BY <2>4, <3>4, <3>7 DEF s
  <2>6. d["f_cnt"] = h["f_cnt"]
    <3>1. d["f_cnt"] = b[6] * 1 + b[7] * 256
      BY <2>4
    <3>2. b[6] = x /\ b[7] = y
      BY <1>7, <2>1
    <3> QED
      BY <1>3, <1>5, <3>1, <3>2
  <2>7. d["adr"] = h["adr"] /\ d["adr_ack_req"] = h["adr_ack_req"] /\ d["ack"] = h["ack"] /\ d["class_b"] = h["class_b"] /\ d["f_opts_len"] = h["f_opts_len"]
    <3>1. b[5] = z
      BY <1>7, <2>1
    <3> QED
      BY <1>2, <1>6, <2>4, <3>1
  <2>8. d = h
    BY <1>1, <2>4, <2>5, <2>6, <2>7
  <2> QED
    BY <2>3, <2>8
<1> QED
  BY <1>9, <1>10

\* What is encoded of a downlink is decoded again.
LEMMA DownlinkAgain ==
  ASSUME NEW h, IsFHDR("MACPayloadDownlink", h), NEW e, e = Encode(FHDR("MACPayloadDownlink"), h)
  PROVE  /\ e \in Seq(Byte) /\ Len(e) = 7
         /\ \A b : Begins(b, e) => Decode(FHDR("MACPayloadDownlink"), b) = h
<1>0. Names(FHDR("MACPayloadDownlink")) = {"dev_addr", "f_cnt", "adr", "ack", "f_pending", "f_opts_len"}
  BY FHDRDownlinkListed
<1>1. /\ h = [x \in {"dev_addr", "f_cnt", "adr", "ack", "f_pending", "f_opts_len"} |-> h[x]]
      /\ h["dev_addr"] \in Seq(Byte) /\ Len(h["dev_addr"]) = 4 /\ h["f_cnt"] \in Nat /\ h["f_cnt"] < 65536
      /\ h["adr"] \in 0..1 /\ h["ack"] \in 0..1 /\ h["f_pending"] \in 0..1
      /\ h["f_opts_len"] \in 0..15
  BY <1>0 DEF IsFHDR, IsAddr
<1>2. PICK x0 \in 0..1, x1 \in 0..1, x2 \in 0..1, l \in 0..15 :
        x0 = h["adr"] /\ x1 = h["ack"] /\ x2 = h["f_pending"] /\ l = h["f_opts_len"]
  BY <1>1
<1>3. PICK c \in Nat : c = h["f_cnt"] /\ c < 65536
  BY <1>1
<1>4. /\ e = [k \in 1..7 |-> e[k]]
      /\ \A k \in 1..4 : e[k] = h["dev_addr"][5 - k]
      /\ e[6] = (h["f_cnt"] \div 1) % 256 /\ e[7] = (h["f_cnt"] \div 256) % 256
      /\ e[5] = (h["adr"] % 2) * 128 + (h["ack"] % 2) * 32 + (h["f_pending"] % 2) * 16 + (h["f_opts_len"] % 16) * 1
  <2>1. /\ h["dev_addr"] \in Seq(Byte) /\ Len(h["dev_addr"]) = 4 /\ h["f_cnt"] \in Int
        /\ h["adr"] \in Int /\ h["ack"] \in Int /\ h["f_pending"] \in Int /\ h["f_opts_len"] \in Int
    BY <1>1
  <2> QED
    BY <2>1, FHDRDownlinkBytes, SMTT(30)
<1>5. PICK x \in Byte, y \in Byte : x = (c \div 1) % 256 /\ y = (c \div 256) % 256 /\ x * 1 + y * 256 = c
  <2>1. (c \div 1) % 256 \in Byte /\ (c \div 256) % 256 \in Byte
    BY DEF Byte
  <2>2. ((c \div 1) % 256) * 1 + ((c \div 256) % 256) * 256 = c
    BY <1>3, SMT
  <2> QED
    BY <2>1, <2>2
<1>6. PICK z \in Byte : /\ z = (x0 % 2) * 128 + (x1 % 2) * 32 + (x2 % 2) * 16 + (l % 16) * 1
                        /\ (z \div 128) % 2 = x0 /\ (z \div 32) % 2 = x1 /\ (z \div 16) % 2 = x2 /\ (z \div 1) % 16 = l
  <2>1. PICK z : z = (x0 % 2) * 128 + (x1 % 2) * 32 + (x2 % 2) * 16 + (l % 16) * 1
    OBVIOUS
  <2>2. z \in 0..255 /\ (z \div 128) % 2 = x0 /\ (z \div 32) % 2 = x1 /\ (z \div 16) % 2 = x2 /\ (z \div 1) % 16 = l
    BY <2>1
  <2> QED
    BY <2>1, <2>2 DEF Byte
<1>7. e[5] = z /\ e[6] = x /\ e[7] = y
  BY <1>2, <1>3, <1>4, <1>5, <1>6
<1>8. \A k \in 1..7 : e[k] \in Byte
  <2>1. \A k \in 1..4 : 5 - k \in 1..4
    OBVIOUS
  <2>2. \A k \in 1..4 : h["dev_addr"][k] \in Byte
    BY <1>1
  <2>3. \A k \in 1..4 : e[k] \in Byte
    BY <1>4, <2>1, <2>2
  <2>4. \A k \in 1..7 : k \in 1..4 \/ k = 5 \/ k = 6 \/ k = 7
    OBVIOUS
  <2> QED
    BY <1>7, <2>3, <2>4
<1>9. e \in Seq(Byte) /\ Len(e) = 7
  <2>1. PICK n \in Nat : n = 7
    OBVIOUS
  <2>2. e = [k \in 1..n |-> e[k]] /\ \A k \in 1..n : e[k] \in Byte
    BY <1>4, <1>8, <2>1
  <2>3. e \in Seq(Byte) /\ Len(e) = n
    BY <2>2, IsSequence
  <2> QED
    BY <2>1, <2>3
<1>10. ASSUME NEW b, Begins(b, e)
       PROVE  Decode(FHDR("MACPayloadDownlink"), b) = h
  <2>1. b \in Seq(Byte) /\ Len(b) >= 7 /\ \A k \in 1..7 : b[k] = e[k]
    BY <1>9, <1>10 DEF Begins
  <2>2. b[6] \in Int /\ b[7] \in Int
    BY <1>7, <2>1, BytesAreInts, SMTT(30)
  <2>3. PICK d : d = Decode(FHDR("MACPayloadDownlink"), b)
    OBVIOUS
  <2>4. /\ d = [u \in {"dev_addr", "f_cnt", "adr", "ack", "f_pending", "f_opts_len"} |-> d[u]]
        /\ d["dev_addr"] = Reverse(SubSeq(b, 1, 4)) /\ d["f_cnt"] = b[6] * 1 + b[7] * 256
        /\ d["adr"] = (b[5] \div 128) % 2
          /\ d["ack"] = (b[5] \div 32) % 2
          /\ d["f_pending"] = (b[5] \div 16) % 2
        /\ d["f_opts_len"] = (b[5] \div 1) % 16
    BY <2>2, <2>3, FHDRDownlinkDecoded
  <2>5. d["dev_addr"] = h["dev_addr"]
    <3>1. SubSeq(b, 1, 4) \in Seq(Byte) /\ Len(SubSeq(b, 1, 4)) = 4 /\ \A k \in 1..4 : SubSeq(b, 1, 4)[k] = b[k]
      BY <2>1, PartOf
    <3> DEFINE s == SubSeq(b, 1, 4)
    <3> HIDE DEF s
    <3>2. s \in Seq(Byte) /\ Len(s) = 4 /\ \A k \in 1..4 : s[k] = b[k]
      BY <3>1 DEF s
    <3>3. Reverse(s) \in Seq(Byte) /\ Len(Reverse(s)) = 4 /\ \A k \in 1..4 : Reverse(s)[k] = s[5 - k]
      <4>1. /\ Reverse(s) \in Seq(Byte) /\ Len(Reverse(s)) = Len(s)
            /\ \A k \in 1..Len(s) : Reverse(s)[k] = s[Len(s) + 1 - k]
        BY <3>2, Reversed, Zenon
      <4> QED
        BY <3>2, <4>1
    <3>4. PICK a : a = h["dev_addr"] /\ a \in Seq(Byte) /\ Len(a) = 4
      BY <1>1
    <3>5. \A k \in 1..4 : 5 - k \in 1..4 /\ 5 - (5 - k) = k
      OBVIOUS
    <3>6. ASSUME NEW k \in 1..4
          PROVE  Reverse(s)[k] = a[k]
      <4>1. PICK j \in 1..4 : j = 5 - k /\ 5 - j = k /\ j \in 1..7
        OBVIOUS
      <4>2. Reverse(s)[k] = s[j] /\ s[j] = b[j]
        BY <3>2, <3>3, <4>1
      <4>3. b[j] = e[j]
        BY <2>1, <4>1
      <4>4. e[j] = a[5 - j]
        BY <1>4, <3>4
      <4> QED
        BY <4>1, <4>2, <4>3, <4>4
    <3>7. Reverse(s) = a
      <4> DEFINE r == Reverse(s)
      <4>1. r \in Seq(Int) /\ a \in Seq(Int) /\ Len(r) = 4 /\ Len(a) = 4 /\ \A k \in 1..4 : r[k] = a[k]
        BY <3>3, <3>4, <3>6, BytesAreInts
      <4> HIDE DEF r
      <4> QED
        BY <4>1, SameBytes DEF r
    <3> QED
      BY <2>4, <3>4, <3>7 DEF s
  <2>6. d["f_cnt"] = h["f_cnt"]
    <3>1. d["f_cnt"] = b[6] * 1 + b[7] * 256
      BY <2>4
    <3>2. b[6] = x /\ b[7] = y
      BY <1>7, <2>1
    <3> QED
      BY <1>3, <1>5, <3>1, <3>2
  <2>7. d["adr"] = h["adr"] /\ d["ack"] = h["ack"] /\ d["f_pending"] = h["f_pending"] /\ d["f_opts_len"] = h["f_opts_len"]
    <3>1. b[5] = z
      BY <1>7, <2>1
    <3> QED
      BY <1>2, <1>6, <2>4, <3>1
  <2>8. d = h
    BY <1>1, <2>4, <2>5, <2>6, <2>7
  <2> QED
    BY <2>3, <2>8
<1> QED
  BY <1>9, <1>10

\* A part of what has been put together.
IsMiddle(w, x, y, z, i, j) ==
  /\ x \in Seq(Byte) /\ y \in Seq(Byte) /\ z \in Seq(Byte) /\ w = x \o (y \o z)
  /\ i \in Nat /\ i = Len(x) + 1 /\ j \in Nat /\ j = Len(x) + Len(y)

\* The middle of three parts.
LEMMA MiddlePart ==
  ASSUME NEW x, NEW y, NEW z, NEW w, NEW i, NEW j, IsMiddle(w, x, y, z, i, j)
  PROVE  SubSeq(w, i, j) = y
<1>0. /\ x \in Seq(Byte) /\ y \in Seq(Byte) /\ z \in Seq(Byte) /\ w = x \o (y \o z)
      /\ i \in Nat /\ i = Len(x) + 1 /\ j \in Nat /\ j = Len(x) + Len(y)
  BY DEF IsMiddle
<1>1. PICK v : v = y \o z /\ w = x \o v
  BY <1>0
<1>2. v \in Seq(Byte) /\ Len(v) = Len(y) + Len(z)
  BY <1>0, <1>1, BytesJoined
<1>3. w \in Seq(Byte) /\ Len(w) = Len(x) + Len(v)
  BY <1>0, <1>1, <1>2, BytesJoined
<1>4. x \in Seq(Int) /\ y \in Seq(Int) /\ z \in Seq(Int) /\ v \in Seq(Int)
  BY <1>0, <1>2, BytesAreInts
<1>5. Joined(y, z, v) /\ Joined(x, v, w)
  BY <1>1, <1>4, Concatenated
<1>6. PICK a \in Nat, b \in Nat, c \in Nat : a = Len(x) /\ b = Len(y) /\ c = Len(z)
  BY <1>0
<1>i. i \in Nat /\ j \in Nat /\ i = a + 1 /\ j = a + b
  BY <1>0, <1>6
<1>7. 1 <= i /\ i <= j + 1 /\ j <= Len(w) /\ j + 1 - i = b /\ \A k \in 1..b : i - 1 + k = a + k
  BY <1>2, <1>3, <1>6, <1>i
<1> DEFINE s == SubSeq(w, i, j)
<1>8. s \in Seq(Byte) /\ Len(s) = j + 1 - i /\ \A k \in 1..(j + 1 - i) : s[k] = w[i - 1 + k]
  <2>1. w \in Seq(Byte) /\ i \in Nat /\ j \in Nat /\ 1 <= i /\ i <= j + 1 /\ j <= Len(w)
    BY <1>3, <1>7, <1>i
  <2> QED
    BY <2>1, PartOf
<1> HIDE DEF s
<1>9. ASSUME NEW k \in 1..b
      PROVE  s[k] = y[k]
  <2>1. s[k] = w[a + k]
    BY <1>7, <1>8
  <2>2. k \in 1..Len(v)
    BY <1>2, <1>6
  <2>3. w[a + k] = v[k]
    BY <1>5, <1>6, <2>2 DEF Joined
  <2>4. v[k] = y[k]
    BY <1>5, <1>6 DEF Joined
  <2> QED
    BY <2>1, <2>3, <2>4
<1>10. s \in Seq(Int) /\ Len(s) = Len(y) /\ \A k \in 1..Len(s) : s[k] = y[k]
  BY <1>6, <1>7, <1>8, <1>9, BytesAreInts
<1> QED
  BY <1>4, <1>10, SameBytes DEF s

\* A MACPayload that can be generated: what follows the port is only there
\* with a port.
IsMACPayload(m) ==
  /\ m.class \in DataClasses /\ IsFHDR(m.class, m.fhdr) /\ m.fhdr["f_opts_len"] = Len(m.f_opts)
  /\ m.f_opts \in Seq(Byte) /\ m.f_port \in Seq(Byte) /\ m.frm_payload \in Seq(Byte)
  /\ Len(m.f_port) <= 1 /\ (m.f_port = <<>> => m.frm_payload = <<>>)
  /\ m = MACPayload(m.class, m.fhdr, m.f_opts, m.f_port, m.frm_payload)

\* What a sender encodes of an FHDR is decoded again.
LEMMA FHDRAgain ==
  ASSUME NEW class \in DataClasses, NEW h, IsFHDR(class, h), NEW e, e = Encode(FHDR(class), h)
  PROVE  /\ e \in Seq(Byte) /\ Len(e) = 7
         /\ \A b : Begins(b, e) => Decode(FHDR(class), b) = h
<1>1. CASE class = "MACPayloadUplink"
  BY <1>1, UplinkAgain, Zenon
<1>2. CASE class = "MACPayloadDownlink"
  BY <1>2, DownlinkAgain, Zenon
<1> QED
  BY <1>1, <1>2 DEF DataClasses

\* A MACPayload is parsed out of the bytes it is generated to.
LEMMA MACPayloadAgain ==
  ASSUME NEW m, IsMACPayload(m)
  PROVE  \E w \in Seq(Byte) : generateMACPayload(m) = {w} /\ parseMACPayload(m.class, w) = {m}
<1>v. PICK class, h, o, p, f :
        /\ class \in DataClasses /\ o \in Seq(Byte) /\ p \in Seq(Byte) /\ f \in Seq(Byte)
        /\ class = m.class /\ h = m.fhdr /\ o = m.f_opts /\ p = m.f_port /\ f = m.frm_payload
        /\ IsFHDR(class, h) /\ h["f_opts_len"] = Len(o) /\ Len(p) <= 1 /\ (p = <<>> => f = <<>>)
        /\ m = MACPayload(class, h, o, p, f)
  <2>1. /\ m.class \in DataClasses /\ IsFHDR(m.class, m.fhdr) /\ m.fhdr["f_opts_len"] = Len(m.f_opts)
        /\ m.f_opts \in Seq(Byte) /\ m.f_port \in Seq(Byte) /\ m.frm_payload \in Seq(Byte)
        /\ Len(m.f_port) <= 1 /\ (m.f_port = <<>> => m.frm_payload = <<>>)
        /\ m = MACPayload(m.class, m.fhdr, m.f_opts, m.f_port, m.frm_payload)
    BY DEF IsMACPayload
  <2>2. PICK class, h, o, p, f :
          class = m.class /\ h = m.fhdr /\ o = m.f_opts /\ p = m.f_port /\ f = m.frm_payload
    OBVIOUS
  <2>3. class \in DataClasses /\ o \in Seq(Byte) /\ p \in Seq(Byte) /\ f \in Seq(Byte)
    BY <2>1, <2>2
  <2>4. IsFHDR(class, h) /\ h["f_opts_len"] = Len(o) /\ Len(p) <= 1 /\ (p = <<>> => f = <<>>)
    BY <2>1, <2>2
  <2>5. m = MACPayload(class, h, o, p, f)
    BY <2>1, <2>2
  <2> QED
    BY <2>2, <2>3, <2>4, <2>5, Zenon
<1>q. class \in DataClasses /\ o \in Seq(Byte) /\ p \in Seq(Byte) /\ f \in Seq(Byte)
  BY <1>v
<1> USE <1>q
<1>e. PICK e : e = Encode(FHDR(class), h)
  OBVIOUS
<1>1. /\ e \in Seq(Byte) /\ Len(e) = 7
      /\ \A b : Begins(b, e) => Decode(FHDR(class), b) = h
  <2>1. IsFHDR(class, h)
    BY <1>v
  <2> QED
    BY <1>e, <2>1, FHDRAgain, Zenon
<1>2. PICK t : t = p \o f
  OBVIOUS
<1>3. PICK u : u = e \o o
  OBVIOUS
<1>4. PICK w : w = u \o t
  OBVIOUS
<1>5. /\ t \in Seq(Byte) /\ Len(t) = Len(p) + Len(f)
      /\ u \in Seq(Byte) /\ Len(u) = Len(e) + Len(o)
  BY <1>1, <1>2, <1>3, BytesJoined
<1>6. w \in Seq(Byte) /\ Len(w) = Len(u) + Len(t)
  BY <1>4, <1>5, BytesJoined
<1>7. PICK i \in Nat, j \in Nat, k \in Nat : i = Len(o) /\ j = Len(p) /\ k = Len(f) /\ j <= 1
  BY <1>v
<1>8. /\ Len(u) = 7 + i /\ Len(t) = j + k /\ Len(w) = 7 + i + (j + k)
      /\ j = 0 => k = 0
  <2>1. j = 0 => p = <<>>
    <3>1. p \in Seq(Byte) /\ Len(p) = j
      BY <1>7
    <3> QED
      BY <3>1
  <2>2. j = 0 => k = 0
    BY <1>v, <1>7, <2>1
  <2> QED
    BY <1>1, <1>5, <1>6, <1>7, <2>2
<1>9. generateMACPayload(m) = {w}
  <2>1. m.class = class /\ m.fhdr = h /\ m.f_opts = o /\ m.f_port = p /\ m.frm_payload = f
    BY <1>v
  <2>2. h.f_cnt < 65536
    <3>1. IsFHDR(class, h)
      BY <1>v
    <3>2. h["f_cnt"] < 65536
      BY <3>1 DEF IsFHDR
    <3> QED
      BY <3>2
  <2>3. generateFHDR(class, h, o) = {u}
    BY <1>e, <1>3, <2>2 DEF generateFHDR
  <2>4. (IF p = <<>> THEN <<>> ELSE p \o f) = t
    <3>1. CASE p = <<>>
      <4>1. f = <<>> /\ j = 0 /\ k = 0
        BY <1>v, <1>7, <3>1
      <4>2. t = <<>>
        BY <1>5, <1>8, <4>1
      <4> QED
        BY <3>1, <4>2
    <3>2. CASE p # <<>>
      BY <1>2, <3>2
    <3> QED
      BY <3>1, <3>2
  <2>5. generateMACPayload(m) = {x \o (IF p = <<>> THEN <<>> ELSE p \o f) : x \in {u}}
    BY <2>1, <2>3 DEF generateMACPayload
  <2>6. generateMACPayload(m) = {x \o t : x \in {u}}
    BY <2>4, <2>5
  <2> QED
    BY <1>4, <2>6
<1>10. Decode(FHDR(class), w) = h
  <2>1. u \in Seq(Int) /\ t \in Seq(Int) /\ e \in Seq(Int) /\ o \in Seq(Int)
    BY <1>1, <1>5, BytesAreInts
  <2>2. Joined(e, o, u) /\ Joined(u, t, w)
    BY <1>3, <1>4, <2>1, Concatenated
  <2>3. \A x \in 1..7 : w[x] = e[x]
    <3>1. \A x \in 1..7 : x \in 1..Len(u) /\ x \in 1..Len(e)
      BY <1>1, <1>8
    <3> QED
      BY <2>2, <3>1 DEF Joined
  <2>4. Begins(w, e)
    BY <1>1, <1>6, <1>8, <2>3 DEF Begins
  <2> QED
    BY <1>1, <2>4
<1>11. SubSeq(w, 8, 7 + i) = o
  <2>1. w = e \o (o \o t)
    <3>1. u \in Seq(Int) /\ t \in Seq(Int) /\ e \in Seq(Int) /\ o \in Seq(Int)
      BY <1>1, <1>5, BytesAreInts
    <3> QED
      BY <1>3, <1>4, <3>1, Associated
  <2>2. PICK x \in Nat, y \in Nat : x = 8 /\ y = 7 + i /\ x = Len(e) + 1 /\ y = Len(e) + Len(o)
    <3>1. 8 \in Nat /\ 7 + i \in Nat /\ 8 = Len(e) + 1 /\ 7 + i = Len(e) + Len(o)
      BY <1>1, <1>7
    <3> QED
      BY <3>1, Zenon
  <2>3. SubSeq(w, x, y) = o
    <3>1. IsMiddle(w, e, o, t, x, y)
      BY <1>1, <1>5, <2>1, <2>2 DEF IsMiddle
    <3> QED
      BY <3>1, MiddlePart
  <2> QED
    BY <2>2, <2>3
<1>12. SubSeq(w, 8 + i, 7 + i + j) = p
  <2>1. w = u \o (p \o f)
    BY <1>2, <1>4
  <2>2. PICK x \in Nat, y \in Nat : x = 8 + i /\ y = 7 + i + j /\ x = Len(u) + 1 /\ y = Len(u) + Len(p)
    <3>1. 8 + i \in Nat /\ 7 + i + j \in Nat /\ 8 + i = Len(u) + 1 /\ 7 + i + j = Len(u) + Len(p)
      BY <1>7, <1>8
    <3> QED
      BY <3>1, Zenon
  <2>3. SubSeq(w, x, y) = p
    <3>1. IsMiddle(w, u, p, f, x, y)
      BY <1>5, <2>1, <2>2 DEF IsMiddle
    <3> QED
      BY <3>1, MiddlePart
  <2> QED
    BY <2>2, <2>3
<1>13. SubSeq(w, 9 + i, 7 + i + (j + k)) = f
  <2>1. CASE j = 0
    <3>1. f = <<>> /\ 7 + i + (j + k) < 9 + i /\ 9 + i \in Nat /\ 7 + i + (j + k) \in Nat
      BY <1>7, <1>8, <2>1
    <3> QED
      BY <1>6, <3>1, NoPart
  <2>2. CASE j = 1
    <3>1. PICK q : q = u \o p
      OBVIOUS
    <3>2. q \in Seq(Byte) /\ Len(q) = 8 + i
      <4>1. q \in Seq(Byte) /\ Len(q) = Len(u) + Len(p)
        BY <1>5, <3>1, BytesJoined
      <4>2. Len(u) = 7 + i /\ Len(p) = 1
        BY <1>7, <1>8, <2>2
      <4> QED
        BY <4>1, <4>2
    <3>3. w = q \o (f \o <<>>)
      <4>1. u \in Seq(Int) /\ p \in Seq(Int) /\ f \in Seq(Int)
        BY <1>5, BytesAreInts
      <4>2. f \o <<>> = f
        BY <4>1, NoMore
      <4>3. (u \o p) \o f = u \o (p \o f)
        BY <4>1, Associated
      <4> QED
        BY <1>2, <1>4, <3>1, <4>2, <4>3
    <3>4. PICK x \in Nat, y \in Nat : x = 9 + i /\ y = 7 + i + (j + k) /\ x = Len(q) + 1 /\ y = Len(q) + Len(f)
      <4>1. 9 + i \in Nat /\ 7 + i + (j + k) \in Nat /\ 9 + i = Len(q) + 1 /\ 7 + i + (j + k) = Len(q) + Len(f)
        BY <1>7, <2>2, <3>2
      <4> QED
        BY <4>1, Zenon
    <3>5. << >> \in Seq(Byte)
      OBVIOUS
    <3>6. SubSeq(w, x, y) = f
      <4>1. IsMiddle(w, q, f, << >>, x, y)
        BY <3>2, <3>3, <3>4, <3>5 DEF IsMiddle
      <4> QED
        BY <4>1, MiddlePart
    <3> QED
      BY <3>4, <3>6
  <2> QED
    BY <1>7, <2>1, <2>2
<1>14. parseMACPayload(class, w) = {m}
  <2> DEFINE port == 8 + h.f_opts_len
  <2>1. port = 8 + i
    BY <1>v, <1>7
  <2>2. Len(w) >= 7 /\ ~(Len(w) < 7)
    BY <1>7, <1>8
  <2>3. parseMACPayload(class, w) =
          {MACPayload(class, h, SubSeq(w, 8, Min({port - 1, Len(w)})),
              SubSeq(w, port, Min({port, Len(w)})), SubSeq(w, port + 1, Len(w)))}
    <3> HIDE DEF port
    <3>1. port = 8 + Decode(FHDR(class), w).f_opts_len
      BY <1>10 DEF port
    <3> QED
      BY <1>10, <2>2, <3>1 DEF parseMACPayload
  <2> HIDE DEF port
  <2>4. Min({port - 1, Len(w)}) = 7 + i
    <3>1. port - 1 \in Int /\ Len(w) \in Int /\ port - 1 = 7 + i /\ port - 1 <= Len(w)
      BY <1>7, <1>8, <2>1
    <3> QED
      BY <3>1, LesserOf
  <2>5. Min({port, Len(w)}) = 7 + i + j
    <3>1. port \in Int /\ Len(w) \in Int /\ (IF port <= Len(w) THEN port ELSE Len(w)) = 7 + i + j
      BY <1>7, <1>8, <2>1
    <3> QED
      BY <3>1, LesserOf
  <2>6. port + 1 = 9 + i /\ Len(w) = 7 + i + (j + k)
    BY <1>7, <1>8, <2>1
  <2> QED
    BY <1>v, <1>11, <1>12, <1>13, <2>1, <2>3, <2>4, <2>5, <2>6
<1> QED
  BY <1>v, <1>6, <1>9, <1>14

\* An MHDR that can be generated.
IsMHDR(h) == \E t \in 0..7, j \in 0..3 : h = [mtype |-> t, major |-> j]

\* What is encoded of an MHDR is decoded again.
LEMMA MHDRAgain ==
  ASSUME NEW h, IsMHDR(h)
  PROVE  \E x \in Byte : Encode(MHDR, h) = << x >> /\ \A b : b[1] = x => Decode(MHDR, b) = h
<1>1. PICK t \in 0..7, j \in 0..3 : h = [mtype |-> t, major |-> j]
  BY DEF IsMHDR
<1>2. PICK x \in Byte : x = (t % 8) * 32 + (j % 4) * 1 /\ (x \div 32) % 8 = t /\ (x \div 1) % 4 = j
  <2>1. PICK x : x = (t % 8) * 32 + (j % 4) * 1
    OBVIOUS
  <2>2. x \in 0..255 /\ (x \div 32) % 8 = t /\ (x \div 1) % 4 = j
    BY <2>1
  <2> QED
    BY <2>1, <2>2 DEF Byte
<1>3. h["mtype"] = t /\ h["major"] = j /\ t \in Int /\ j \in Int
  BY <1>1
<1>4. Encode(MHDR, h) = << x >>
  <2>1. Encode(MHDR, h) = << (h["mtype"] % 8) * 32 + (h["major"] % 4) * 1 >>
    BY <1>3, MHDRBytes
  <2> QED
    BY <1>2, <1>3, <2>1
<1>5. ASSUME NEW b, b[1] = x
      PROVE  Decode(MHDR, b) = h
  <2>1. Decode(MHDR, b) = [mtype |-> (b[1] \div 32) % 8, major |-> (b[1] \div 1) % 4]
    BY MHDRDecoded
  <2> QED
    BY <1>1, <1>2, <1>5, <2>1
<1> QED
  BY <1>4, <1>5

\* A frame of its three parts.
IsFrameOf(r, x, w, c) ==
  /\ x \in Byte /\ w \in Seq(Byte) /\ c \in Seq(Byte) /\ Len(c) = 4
  /\ r = (<< x >> \o w) \o c

\* A frame is its MHDR, its payload and its MIC.
LEMMA ThreeParts ==
  ASSUME NEW r, NEW x, NEW w, NEW c, IsFrameOf(r, x, w, c)
  PROVE  /\ r \in Seq(Byte) /\ Len(r) = 5 + Len(w) /\ r[1] = x
         /\ SubSeq(r, 2, Len(r) - 4) = w /\ SubSeq(r, Len(r) - 3, Len(r)) = c
<1>0. w \in Seq(Byte) /\ c \in Seq(Byte) /\ Len(c) = 4
  BY DEF IsFrameOf
<1>1. PICK h : h = << x >> /\ r = (h \o w) \o c
  BY DEF IsFrameOf
<1>2. h \in Seq(Byte) /\ Len(h) = 1 /\ h[1] = x
  BY <1>1 DEF IsFrameOf
<1>3. PICK u : u = h \o w /\ r = u \o c
  BY <1>1
<1>4. u \in Seq(Byte) /\ Len(u) = 1 + Len(w)
  BY <1>0, <1>2, <1>3, BytesJoined
<1>5. r = u \o c
  BY <1>3
<1>6. r \in Seq(Byte) /\ Len(r) = Len(u) + 4
  BY <1>0, <1>4, <1>5, BytesJoined
<1>7. PICK n \in Nat : n = Len(w)
  BY <1>0
<1>8. Len(r) = 5 + n /\ Len(u) = 1 + n
  BY <1>0, <1>4, <1>6, <1>7
<1>9. h \in Seq(Int) /\ w \in Seq(Int) /\ c \in Seq(Int) /\ u \in Seq(Int)
  BY <1>0, <1>2, <1>4, BytesAreInts
<1>10. Joined(h, w, u) /\ Joined(u, c, r)
  BY <1>3, <1>5, <1>9, Concatenated
<1>11. r[1] = x
  <2>1. 1 \in 1..Len(h) /\ 1 \in 1..Len(u)
    BY <1>2, <1>7, <1>8
  <2> QED
    BY <1>2, <1>10, <2>1 DEF Joined
<1>12. SubSeq(r, 2, 1 + n) = w
  <2>1. r = h \o (w \o c)
    BY <1>3, <1>5, <1>9, Associated, SMTT(30)
  <2>2. PICK i \in Nat, j \in Nat : i = 2 /\ j = 1 + n /\ i = Len(h) + 1 /\ j = Len(h) + Len(w)
    <3>1. 2 \in Nat /\ 1 + n \in Nat /\ 2 = Len(h) + 1 /\ 1 + n = Len(h) + Len(w)
      BY <1>2, <1>7
    <3> QED
      BY <3>1, Zenon
  <2>3. SubSeq(r, i, j) = w
    <3>1. IsMiddle(r, h, w, c, i, j)
      BY <1>0, <1>2, <2>1, <2>2 DEF IsMiddle
    <3> QED
      BY <3>1, MiddlePart
  <2> QED
    BY <2>2, <2>3
<1>13. SubSeq(r, 2 + n, 5 + n) = c
  <2>1. r = u \o (c \o <<>>)
    BY <1>5, <1>9, NoMore
  <2>2. PICK i \in Nat, j \in Nat : i = 2 + n /\ j = 5 + n /\ i = Len(u) + 1 /\ j = Len(u) + Len(c)
    <3>1. 2 + n \in Nat /\ 5 + n \in Nat /\ 2 + n = Len(u) + 1 /\ 5 + n = Len(u) + Len(c)
      BY <1>0, <1>7, <1>8
    <3> QED
      BY <3>1, Zenon
  <2>3. << >> \in Seq(Byte)
    OBVIOUS
  <2>4. SubSeq(r, i, j) = c
    <3>1. IsMiddle(r, u, c, << >>, i, j)
      BY <1>0, <1>4, <2>1, <2>2, <2>3 DEF IsMiddle
    <3> QED
      BY <3>1, MiddlePart
  <2> QED
    BY <2>2, <2>4
<1>14. Len(r) - 4 = 1 + n /\ Len(r) - 3 = 2 + n /\ Len(r) = 5 + n
  BY <1>7, <1>8
<1>15. SubSeq(r, 2, Len(r) - 4) = w /\ SubSeq(r, Len(r) - 3, Len(r)) = c
  BY <1>12, <1>13, <1>14
<1> QED
  BY <1>6, <1>7, <1>8, <1>11, <1>15

\* A frame is parsed out of its parts when its payload is.
AreParts(r, h, w, c, n) ==
  /\ IsMHDR(h) /\ w \in Seq(Byte) /\ c \in Seq(Byte) /\ Len(c) = 4
  /\ parsePayload(h.mtype, w) = {n} /\ r = (Encode(MHDR, h) \o w) \o c

\* A frame that is put together from parts is parsed to these parts.
LEMMA FrameAgain ==
  ASSUME NEW h, NEW w, NEW c, NEW n, NEW r, AreParts(r, h, w, c, n)
  PROVE  r \in Seq(Byte) /\ parsePHYPayload(r) = {PHYPayload(h, n, c)}
<1>0. /\ IsMHDR(h) /\ w \in Seq(Byte) /\ c \in Seq(Byte) /\ Len(c) = 4
      /\ parsePayload(h.mtype, w) = {n} /\ r = (Encode(MHDR, h) \o w) \o c
  BY DEF AreParts
<1>1. PICK x \in Byte : Encode(MHDR, h) = << x >> /\ \A b : b[1] = x => Decode(MHDR, b) = h
  BY <1>0, MHDRAgain
<1>2. r = (<< x >> \o w) \o c
  BY <1>0, <1>1
<1>3. /\ r \in Seq(Byte) /\ Len(r) = 5 + Len(w) /\ r[1] = x
      /\ SubSeq(r, 2, Len(r) - 4) = w /\ SubSeq(r, Len(r) - 3, Len(r)) = c
  <2>1. IsFrameOf(r, x, w, c)
    BY <1>0, <1>2 DEF IsFrameOf
  <2> QED
    BY <2>1, ThreeParts
<1>4. Decode(MHDR, r) = h /\ ~(Len(r) < 5)
  <2>1. Decode(MHDR, r) = h
    BY <1>1, <1>3, Zenon
  <2>2. ~(Len(r) < 5)
    BY <1>0, <1>3
  <2> QED
    BY <2>1, <2>2
<1>5. parsePHYPayload(r) = {PHYPayload(h, z, c) : z \in parsePayload(h.mtype, w)}
  BY <1>3, <1>4 DEF parsePHYPayload
<1> QED
  BY <1>0, <1>3, <1>5

-----------------------------------------------------------------------------
(* The join messages.                                                      *)

\* The bytes of a number by its digits, and those of a number.
LEMMA DigitsBytes ==
  ASSUME NEW f, IsDigits(f), NEW v \in Seq(Byte), Len(v) = f.len, NEW k \in Nat, Covers(f, k)
  PROVE  Put(f, v, k - 1) \in Byte
<1>1. k - 1 \in f.at..(f.at + f.len - 1)
  BY DEF Covers
<1>2. Put(f, v, k - 1) = v[f.len - (k - 1 - f.at)]
  BY <1>1 DEF Put, IsDigits
<1>3. f.len - (k - 1 - f.at) \in 1..Len(v)
  BY <1>1 DEF IsDigits
<1> QED
  BY <1>2, <1>3

\* A number is written as bytes.
LEMMA NumberBytes ==
  ASSUME NEW f, IsField(f), f.kind = "number", NEW v \in Nat, NEW k \in Nat, Covers(f, k)
  PROVE  Put(f, v, k - 1) \in Byte
<1>1. k - 1 \in f.at..(f.at + f.len - 1)
  BY DEF Covers
<1>2. PICK j \in 0..3 : j = k - 1 - f.at
  BY <1>1 DEF IsField
<1>3. PICK p \in Nat \ {0} : p = 256^j
  <2>1. j \in 0..4
    BY <1>2
  <2>2. 256^j \in Nat \ {0}
    BY <2>1, Powers, Zenon
  <2> QED
    BY <2>2, Zenon
<1>4. Put(f, v, k - 1) = (v \div p) % 256
  BY <1>1, <1>2, <1>3 DEF Put
<1>5. v \div p \in Nat
  OBVIOUS
<1>6. (v \div p) % 256 \in 0..255
  BY <1>5
<1> QED
  BY <1>4, <1>6 DEF Byte

\* A field alone in its bytes has bytes.
HasBytes(f, v) == \A k \in Nat : Covers(f, k) => Put(f, v, k - 1) \in Byte

\* Digits and numbers are.
LEMMA FieldHasBytes ==
  ASSUME NEW f, NEW v,
         \/ IsDigits(f) /\ v \in Seq(Byte) /\ Len(v) = f.len
         \/ IsField(f) /\ f.kind = "number" /\ v \in Nat
  PROVE  HasBytes(f, v) /\ Fits(f, v)
BY DigitsBytes, NumberBytes DEF HasBytes, Fits

\* A list of fields whose bytes are each those of a field alone.
LEMMA AllBytes ==
  ASSUME NEW F, NEW n, Listed(F, n), NEW h, AllFit(F, h),
         \A k \in 1..n : Encode(F, h)[k] \in Byte
  PROVE  Encode(F, h) \in Seq(Byte) /\ Len(Encode(F, h)) = n
<1>1. PICK e : e = Encode(F, h)
  OBVIOUS
<1>2. e = [k \in 1..n |-> e[k]]
  BY <1>1, EncodedLen
<1>3. n \in Nat
  BY DEF Listed
<1>4. e \in Seq(Byte) /\ Len(e) = n
  BY <1>1, <1>2, <1>3, IsSequence
<1> QED
  BY <1>1, <1>4

\* The bytes of b that f has are those of v.
HasBytesOf(b, f, v) == \A k \in Nat : Covers(f, k) => b[k] = Put(f, v, k - 1)

\* A field alone in its bytes has them as they are encoded.
LEMMA AloneHas ==
  ASSUME NEW F, NEW n, Listed(F, n), NEW h, AllFit(F, h), NEW f \in F, IsAlone(F, f)
  PROVE  HasBytesOf(Encode(F, h), f, h[f.name])
<1>1. ASSUME NEW k \in Nat, Covers(f, k)
      PROVE  k \in 1..n
  BY <1>1 DEF Listed, IsField, IsDigits, Covers
<1>2. ASSUME NEW k \in Nat, Covers(f, k)
      PROVE  Encode(F, h)[k] = Put(f, h[f.name], k - 1)
  <2>1. k \in 1..n
    BY <1>1, <1>2
  <2> QED
    BY <1>2, <2>1, AloneByte, SMTT(30)
<1> QED
  BY <1>2 DEF HasBytesOf

\* The values of a JoinRequest.
IsJoinRequest(h) ==
  /\ h["app_eui"] \in Seq(Byte) /\ Len(h["app_eui"]) = 8
  /\ h["dev_eui"] \in Seq(Byte) /\ Len(h["dev_eui"]) = 8
  /\ h["dev_nonce"] \in Nat

\* The bytes of a JoinRequest.
LEMMA JoinRequestBytes ==
  ASSUME NEW h, IsJoinRequest(h)
  PROVE  /\ Encode(JoinRequestFields, h) \in Seq(Byte) /\ Len(Encode(JoinRequestFields, h)) = 18
         /\ \A f \in JoinRequestFields : HasBytesOf(Encode(JoinRequestFields, h), f, h[f.name])
<1> DEFINE f == Digits("app_eui", 0, 8)
           g == Digits("dev_eui", 8, 8)
           c == Number("dev_nonce", 16, 2)
           F == {f, g, c}
<1>1. JoinRequestFields = F /\ Listed(F, 18) /\ IsAlone(F, f) /\ IsAlone(F, g) /\ IsAlone(F, c)
  BY JoinRequestListed
<1>2. /\ f.name = "app_eui" /\ f.kind = "digits" /\ f.at = 0 /\ f.len = 8
      /\ g.name = "dev_eui" /\ g.kind = "digits" /\ g.at = 8 /\ g.len = 8
      /\ c.name = "dev_nonce" /\ c.kind = "number" /\ c.at = 16 /\ c.len = 2
      /\ c.low = 0 /\ c.width = 8
  BY DEF Number, Digits
<1> HIDE DEF f, g, c
<1>3. f \in F /\ g \in F /\ c \in F
  OBVIOUS
<1>4. IsDigits(f) /\ IsDigits(g) /\ IsField(c)
  BY <1>2 DEF IsDigits, IsField
<1>5. /\ HasBytes(f, h[f.name]) /\ HasBytes(g, h[g.name]) /\ HasBytes(c, h[c.name])
      /\ Fits(f, h[f.name]) /\ Fits(g, h[g.name]) /\ Fits(c, h[c.name])
  BY <1>2, <1>4, FieldHasBytes DEF IsJoinRequest
<1>6. AllFit(F, h)
  BY <1>5 DEF AllFit
<1>7. \A k \in 1..18 : Covers(f, k) \/ Covers(g, k) \/ Covers(c, k)
  BY <1>2 DEF Covers
<1> HIDE DEF F
<1>8. Listed(F, 18) /\ IsAlone(F, f) /\ IsAlone(F, g) /\ IsAlone(F, c)
  BY <1>1
<1>9. ASSUME NEW k \in 1..18, NEW x \in F, IsAlone(F, x), HasBytes(x, h[x.name]), Covers(x, k)
      PROVE  Encode(F, h)[k] \in Byte
  <2>1. Encode(F, h)[k] = Put(x, h[x.name], k - 1)
    BY <1>6, <1>8, <1>9, AloneByte, SMTT(30)
  <2> QED
    BY <1>9, <2>1 DEF HasBytes
<1>10. \A k \in 1..18 : Encode(F, h)[k] \in Byte
  BY <1>3, <1>5, <1>7, <1>8, <1>9
<1>11. Encode(F, h) \in Seq(Byte) /\ Len(Encode(F, h)) = 18
  BY <1>6, <1>8, <1>10, AllBytes
<1>12. ASSUME NEW x \in F
       PROVE  HasBytesOf(Encode(F, h), x, h[x.name])
  <2>1. x = f \/ x = g \/ x = c
    BY <1>12 DEF F
  <2>2. IsAlone(F, x)
    BY <1>8, <2>1
  <2> QED
    BY <1>6, <1>8, <1>12, <2>2, AloneHas
<1> QED
  BY <1>1, <1>11, <1>12

\* The values of a JoinAccept.
IsJoinAccept(h) ==
  /\ h["app_nonce"] \in Nat /\ h["net_id"] \in Nat /\ IsAddr(h["dev_addr"]) /\ h["rx_delay"] \in Nat
  /\ h["rx1_dr_offset"] \in Nat /\ h["rx2_datarate"] \in Nat

\* The bytes of a JoinAccept, before the encryption.
LEMMA JoinAcceptBytes ==
  ASSUME NEW h, IsJoinAccept(h)
  PROVE  /\ Encode(JoinAcceptFields, h) \in Seq(Byte) /\ Len(Encode(JoinAcceptFields, h)) = 12
         /\ \A f \in JoinAcceptFields \ DLSettings :
              HasBytesOf(Encode(JoinAcceptFields, h), f, h[f.name])
         /\ Encode(JoinAcceptFields, h)[11] =
              (h["rx1_dr_offset"] % 8) * 16 + (h["rx2_datarate"] % 16) * 1
<1> DEFINE a == Number("app_nonce", 0, 3)
           b == Number("net_id", 3, 3)
           c == Digits("dev_addr", 6, 4)
           d == Number("rx_delay", 11, 1)
           x == Bits("rx1_dr_offset", 10, 4, 3)
           y == Bits("rx2_datarate", 10, 0, 4)
           F == {a, b, c, d} \cup {x, y}
<1>1. JoinAcceptFields = F
  BY DEF JoinAcceptFields, DLSettings
<1>2. /\ a.name = "app_nonce" /\ a.kind = "number" /\ a.at = 0 /\ a.len = 3 /\ a.low = 0 /\ a.width = 8
      /\ b.name = "net_id" /\ b.kind = "number" /\ b.at = 3 /\ b.len = 3 /\ b.low = 0 /\ b.width = 8
      /\ c.name = "dev_addr" /\ c.kind = "digits" /\ c.at = 6 /\ c.len = 4
      /\ d.name = "rx_delay" /\ d.kind = "number" /\ d.at = 11 /\ d.len = 1 /\ d.low = 0 /\ d.width = 8
      /\ x.name = "rx1_dr_offset" /\ x.kind = "bits" /\ x.at = 10 /\ x.len = 1 /\ x.low = 4 /\ x.width = 3
      /\ y.name = "rx2_datarate" /\ y.kind = "bits" /\ y.at = 10 /\ y.len = 1 /\ y.low = 0 /\ y.width = 4
  BY DEF Number, Digits, Bits
<1> HIDE DEF a, b, c, d, x, y
<1>3. IsFiniteSet(F)
  <2>1. IsFiniteSet({a, b, c, d}) /\ IsFiniteSet({x, y})
    BY FewFinite, Zenon
  <2> QED
    BY <2>1, FS_Union
<1>4. Size(F) = 12
  BY <1>2, SizeIs
<1>5. \A f \in F : (IsField(f) \/ IsDigits(f)) /\ f.at + f.len <= 12
  BY <1>2 DEF IsField, IsDigits
<1>6. \A f, g \in F : f.name = g.name => f = g
  BY <1>2
<1>7. Listed(F, 12)
  BY <1>3, <1>4, <1>5, <1>6 DEF Listed
<1>8. IsAlone(F, a) /\ IsAlone(F, b) /\ IsAlone(F, c) /\ IsAlone(F, d)
  BY <1>2 DEF IsAlone, Apart
<1>9. a \in F /\ b \in F /\ c \in F /\ d \in F /\ x \in F /\ y \in F /\ x # y
  BY <1>2
<1>10. IsField(a) /\ IsField(b) /\ IsDigits(c) /\ IsField(d) /\ IsField(x) /\ IsField(y)
  BY <1>2 DEF IsDigits, IsField
<1>11. /\ HasBytes(a, h[a.name]) /\ HasBytes(b, h[b.name]) /\ HasBytes(c, h[c.name]) /\ HasBytes(d, h[d.name])
       /\ Fits(a, h[a.name]) /\ Fits(b, h[b.name]) /\ Fits(c, h[c.name]) /\ Fits(d, h[d.name])
  BY <1>2, <1>10, FieldHasBytes, ZenonT(40) DEF IsJoinAccept, IsAddr
<1>12. Fits(x, h[x.name]) /\ Fits(y, h[y.name])
  BY <1>2, <1>10 DEF Fits, IsJoinAccept
<1>13. AllFit(F, h)
  BY <1>11, <1>12 DEF AllFit
<1>14. \A k \in 1..12 : Covers(a, k) \/ Covers(b, k) \/ Covers(c, k) \/ Covers(d, k) \/ k = 11
  BY <1>2 DEF Covers
<1>15. IsAll(F, {x, y}, 11)
  BY <1>2 DEF IsAll, Covers
<1> HIDE DEF F
<1>16. ASSUME NEW k \in 1..12, NEW f \in F, IsAlone(F, f), HasBytes(f, h[f.name]), Covers(f, k)
       PROVE  Encode(F, h)[k] \in Byte
  <2>1. Encode(F, h)[k] = Put(f, h[f.name], k - 1)
    BY <1>7, <1>13, <1>16, AloneByte, SMTT(30)
  <2> QED
    BY <1>16, <2>1 DEF HasBytes
<1>17. /\ Encode(F, h)[11] \in Byte
       /\ Encode(F, h)[11] = (h["rx1_dr_offset"] % 8) * 16 + (h["rx2_datarate"] % 16) * 1
  <2>0. PICK i \in Nat, j \in Nat : i = h[x.name] /\ j = h[y.name]
    BY <1>2 DEF IsJoinAccept
  <2>1. PICK H : Summed(F, Parts(F, h, 11), H) /\ Encode(F, h)[11] = H[{x, y}]
    <3>1. 11 \in 1..12
      OBVIOUS
    <3> QED
      BY <1>7, <1>13, <1>15, <3>1, EncodedByte
  <2>2. PICK v : v = Parts(F, h, 11)
    OBVIOUS
  <2>3. v[x] = Put(x, i, 10) /\ v[y] = Put(y, j, 10)
    BY <1>9, <2>0, <2>2 DEF Parts
  <2>4. 8 = 2^x.width /\ 16 = 2^x.low /\ 16 = 2^y.width /\ 1 = 2^y.low
    BY <1>2, PowersOf2
  <2>5. Put(x, i, 10) = (i % 8) * 16
    <3>1. Put(x, i, x.at) = (i % 2^x.width) * 2^x.low
      <4>1. x.at \in Nat /\ x.len = 1 /\ x.kind = "bits"
        BY <1>2
      <4> QED
        BY <4>1, BitsField, Zenon
    <3> QED
      BY <1>2, <2>4, <3>1
  <2>6. Put(y, j, 10) = (j % 16) * 1
    <3>1. Put(y, j, y.at) = (j % 2^y.width) * 2^y.low
      <4>1. y.at \in Nat /\ y.len = 1 /\ y.kind = "bits"
        BY <1>2
      <4> QED
        BY <4>1, BitsField, Zenon
    <3> QED
      BY <1>2, <2>4, <3>1
  <2>7. H[{x, y}] = v[x] + v[y]
    <3>1. FewOf(F, v, H)
      BY <2>1, <2>2, FewAdded
    <3> QED
      BY <1>9, <3>1 DEF FewOf
  <2>8. (i % 8) * 16 + (j % 16) * 1 \in 0..255
    OBVIOUS
  <2>9. Encode(F, h)[11] = (i % 8) * 16 + (j % 16) * 1
    BY <2>1, <2>3, <2>5, <2>6, <2>7
  <2>10. Encode(F, h)[11] \in Byte
    BY <2>8, <2>9 DEF Byte
  <2> QED
    BY <1>2, <2>0, <2>9, <2>10
<1>18. \A k \in 1..12 : Encode(F, h)[k] \in Byte
  BY <1>8, <1>9, <1>11, <1>14, <1>16, <1>17
<1>19. Encode(F, h) \in Seq(Byte) /\ Len(Encode(F, h)) = 12
  BY <1>7, <1>13, <1>18, AllBytes
<1>20. F \ DLSettings \subseteq {a, b, c, d}
  BY DEF F, DLSettings, x, y
<1>21. ASSUME NEW f \in F \ DLSettings
       PROVE  HasBytesOf(Encode(F, h), f, h[f.name])
  <2>1. f \in F /\ IsAlone(F, f)
    BY <1>8, <1>20, <1>21
  <2> QED
    BY <1>7, <1>13, <2>1, AloneHas
<1> QED
  BY <1>1, <1>17, <1>19, <1>21

\* Digits and numbers are taken out as they were put in.
LEMMA DigitsTaken ==
  ASSUME NEW f, IsDigits(f), NEW v \in Seq(Byte), Len(v) = f.len,
         NEW b \in Seq(Byte), f.at + f.len <= Len(b), HasBytesOf(b, f, v)
  PROVE  Take(f, b) = v
<1> DEFINE s == SubSeq(b, f.at + 1, f.at + f.len)
<1>1. f.at \in Nat /\ f.len \in Nat /\ f.len > 0
  BY DEF IsDigits
<1>2. s \in Seq(Byte) /\ Len(s) = f.len /\ \A k \in 1..f.len : s[k] = b[f.at + k]
  <2> DEFINE x == f.at + 1
             y == f.at + f.len
  <2>1. x \in Nat /\ y \in Nat /\ 1 <= x /\ x <= y + 1 /\ y <= Len(b)
    BY <1>1
  <2>2. y + 1 - x = f.len /\ \A k \in 1..f.len : x - 1 + k = f.at + k
    BY <1>1
  <2> HIDE DEF x, y
  <2>3. /\ SubSeq(b, x, y) \in Seq(Byte) /\ Len(SubSeq(b, x, y)) = y + 1 - x
        /\ \A k \in 1..(y + 1 - x) : SubSeq(b, x, y)[k] = b[x - 1 + k]
    BY <2>1, PartOf
  <2>4. s = SubSeq(b, x, y)
    BY DEF x, y
  <2> HIDE DEF s
  <2> QED
    BY <2>2, <2>3, <2>4
<1>3. Take(f, b) = Reverse(s)
  BY DigitsField
<1> HIDE DEF s
<1>4. PICK w : w = Reverse(s)
  OBVIOUS
<1>5. w \in Seq(Byte) /\ Len(w) = f.len /\ \A k \in 1..f.len : w[k] = s[f.len + 1 - k]
  <2>1. /\ Reverse(s) \in Seq(Byte) /\ Len(Reverse(s)) = Len(s)
        /\ \A k \in 1..Len(s) : Reverse(s)[k] = s[Len(s) + 1 - k]
    BY <1>2, Reversed, Zenon
  <2> QED
    BY <1>2, <1>4, <2>1
<1>6. ASSUME NEW k \in 1..f.len
      PROVE  w[k] = v[k]
  <2>1. PICK i \in 1..f.len : i = f.len + 1 - k
    BY <1>1
  <2>2. PICK j \in Nat : j = f.at + i
    BY <1>1
  <2>3. Covers(f, j) /\ j - 1 \in f.at..(f.at + f.len - 1) /\ f.len - (j - 1 - f.at) = k
    <3>1. PICK p \in Nat, q \in Nat : p = f.at /\ q = f.len
      BY <1>1
    <3>2. k \in 1..q /\ i \in 1..q /\ i = q + 1 - k /\ j = p + i
      BY <2>1, <2>2, <3>1
    <3>3. j - 1 \in p..(p + q - 1) /\ q - (j - 1 - p) = k
      BY <3>2
    <3> QED
      BY <3>1, <3>3 DEF Covers
  <2>4. b[j] = Put(f, v, j - 1)
    BY <2>3 DEF HasBytesOf
  <2>5. Put(f, v, j - 1) = v[f.len - (j - 1 - f.at)]
    BY <2>3, DigitsField
  <2>6. w[k] = s[i] /\ s[i] = b[j]
    BY <1>2, <1>5, <2>1, <2>2
  <2> QED
    BY <2>3, <2>4, <2>5, <2>6
<1>7. w \in Seq(Int) /\ v \in Seq(Int) /\ Len(w) = Len(v)
  BY <1>5, BytesAreInts
<1>8. \A k \in 1..Len(w) : w[k] = v[k]
  BY <1>5, <1>6
<1> QED
  BY <1>3, <1>4, <1>7, <1>8, SameBytes

\* Three bytes are enough for x.
IsThree(x) == x \in Nat /\ x < 16777216

\* What there is room for in one byte, in two and in three.
LEMMA RoomFor ==
  ASSUME NEW n, NEW v \in Nat,
         \/ n = 1 /\ v < 256
         \/ n = 2 /\ IsShort(v)
         \/ n = 3 /\ IsThree(v)
  PROVE  v < 256^n
<1>1. CASE n = 1 /\ v < 256
  <2>1. 256^n = 256^1
    BY <1>1, Zenon
  <2> QED
    BY <1>1, <2>1, Powers256, SMT
<1>2. CASE n = 2 /\ IsShort(v)
  <2>1. 256^n = 256^2
    BY <1>2, Zenon
  <2> QED
    BY <1>2, <2>1, Powers256, SMT DEF IsShort
<1>3. CASE n = 3 /\ IsThree(v)
  <2>1. 256^n = 256^3
    BY <1>3, Zenon
  <2> QED
    BY <1>3, <2>1, Powers256, SMT DEF IsThree
<1> QED
  BY <1>1, <1>2, <1>3

\* A number is read from the bytes that were written for it.
LEMMA NumberOut ==
  ASSUME NEW f, IsField(f), f.kind = "number", NEW v \in Nat, v < 256^f.len,
         NEW b, HasBytesOf(b, f, v)
  PROVE  Take(f, b) = v
<1>1. f.at \in Nat /\ f.len \in 1..4
  BY DEF IsField
<1>2. ASSUME NEW i \in 0..(f.len - 1)
      PROVE  b[f.at + 1 + i] = (v \div 256^i) % 256
  <2>1. PICK k \in Nat : k = f.at + 1 + i
    BY <1>1
  <2>2. Covers(f, k) /\ k - 1 \in f.at..(f.at + f.len - 1) /\ k - 1 - f.at = i
    BY <1>1, <2>1 DEF Covers
  <2>3. b[k] = Put(f, v, k - 1)
    BY <2>2 DEF HasBytesOf
  <2>4. Put(f, v, k - 1) = (v \div 256^(k - 1 - f.at)) % 256
    BY <2>2 DEF Put
  <2> QED
    BY <2>1, <2>2, <2>3, <2>4
<1> QED
  BY <1>1, <1>2, NumberBack

\* What is encoded of a JoinRequest is decoded again.
LEMMA JoinRequestAgain ==
  ASSUME NEW h, IsJoinRequest(h), h = [u \in {"app_eui", "dev_eui", "dev_nonce"} |-> h[u]],
         IsShort(h["dev_nonce"])
  PROVE  Decode(JoinRequestFields, Encode(JoinRequestFields, h)) = h
<1> DEFINE f == Digits("app_eui", 0, 8)
           g == Digits("dev_eui", 8, 8)
           c == Number("dev_nonce", 16, 2)
           F == {f, g, c}
<1>1. JoinRequestFields = F /\ Listed(F, 18) /\ Names(F) = {"app_eui", "dev_eui", "dev_nonce"}
  BY JoinRequestListed
<1>2. /\ f.name = "app_eui" /\ f.kind = "digits" /\ f.at = 0 /\ f.len = 8
      /\ g.name = "dev_eui" /\ g.kind = "digits" /\ g.at = 8 /\ g.len = 8
      /\ c.name = "dev_nonce" /\ c.kind = "number" /\ c.at = 16 /\ c.len = 2
      /\ c.low = 0 /\ c.width = 8
  BY DEF Number, Digits
<1> HIDE DEF f, g, c
<1>3. f \in F /\ g \in F /\ c \in F
  OBVIOUS
<1>4. IsDigits(f) /\ IsDigits(g) /\ IsField(c)
  BY <1>2 DEF IsDigits, IsField
<1> HIDE DEF F
<1>5. PICK e : e = Encode(F, h)
  OBVIOUS
<1>6. e \in Seq(Byte) /\ Len(e) = 18 /\ \A x \in F : HasBytesOf(e, x, h[x.name])
  BY <1>1, <1>5, JoinRequestBytes
<1>7. Take(f, e) = h["app_eui"] /\ Take(g, e) = h["dev_eui"]
  <2>1. /\ h[f.name] \in Seq(Byte) /\ Len(h[f.name]) = f.len /\ f.at + f.len <= Len(e)
        /\ h[g.name] \in Seq(Byte) /\ Len(h[g.name]) = g.len /\ g.at + g.len <= Len(e)
    BY <1>2, <1>6 DEF IsJoinRequest
  <2>2. HasBytesOf(e, f, h[f.name]) /\ HasBytesOf(e, g, h[g.name])
    BY <1>3, <1>6
  <2>3. Take(f, e) = h[f.name] /\ Take(g, e) = h[g.name]
    BY <1>4, <1>6, <2>1, <2>2, DigitsTaken, ZenonT(40)
  <2> QED
    BY <1>2, <2>3
<1>8. Take(c, e) = h["dev_nonce"]
  <2>1. PICK v \in Nat : v = h[c.name] /\ IsShort(v)
    BY <1>2 DEF IsJoinRequest
  <2>2. v < 256^c.len
    BY <1>2, <2>1, RoomFor
  <2>3. HasBytesOf(e, c, v)
    BY <1>3, <1>6, <2>1
  <2>4. Take(c, e) = v
    BY <1>2, <1>4, <2>2, <2>3, NumberOut, ZenonT(40)
  <2> QED
    BY <1>2, <2>1, <2>4
<1>9. PICK d : d = Decode(F, e)
  OBVIOUS
<1>10. d[f.name] = Take(f, e) /\ d[g.name] = Take(g, e) /\ d[c.name] = Take(c, e)
  BY <1>1, <1>3, <1>9, DecodedField
<1>11. d = [u \in {"app_eui", "dev_eui", "dev_nonce"} |-> d[u]]
  BY <1>1, <1>9 DEF Decode
<1>12. d["app_eui"] = h["app_eui"] /\ d["dev_eui"] = h["dev_eui"] /\ d["dev_nonce"] = h["dev_nonce"]
  BY <1>2, <1>7, <1>8, <1>10
<1>13. \A u \in {"app_eui", "dev_eui", "dev_nonce"} : d[u] = h[u]
  BY <1>12
<1>14. d = h
  BY <1>11, <1>13
<1> QED
  BY <1>1, <1>5, <1>9, <1>14

\* The values of a JoinAccept have room in their fields.
HasRoom(h) ==
  /\ IsThree(h["app_nonce"]) /\ IsThree(h["net_id"]) /\ h["rx_delay"] < 256
  /\ h["rx1_dr_offset"] < 8 /\ h["rx2_datarate"] < 16

JoinAcceptNames ==
  {"app_nonce", "net_id", "dev_addr", "rx_delay", "rx1_dr_offset", "rx2_datarate"}

\* What is encoded of a JoinAccept is decoded again.
LEMMA JoinAcceptAgain ==
  ASSUME NEW h, IsJoinAccept(h), h = [u \in JoinAcceptNames |-> h[u]], HasRoom(h),
         NEW b, Begins(b, Encode(JoinAcceptFields, h))
  PROVE  Decode(JoinAcceptFields, b) = h
<1> DEFINE n == Number("app_nonce", 0, 3)
           i == Number("net_id", 3, 3)
           a == Digits("dev_addr", 6, 4)
           y == Number("rx_delay", 11, 1)
           o == Bits("rx1_dr_offset", 10, 4, 3)
           r == Bits("rx2_datarate", 10, 0, 4)
           F == {n, i, a, y} \cup {o, r}
<1>1. JoinAcceptFields = F /\ DLSettings = {o, r}
  BY DEF JoinAcceptFields, DLSettings
<1>2. /\ n.name = "app_nonce" /\ n.kind = "number" /\ n.at = 0 /\ n.len = 3 /\ n.low = 0 /\ n.width = 8
      /\ i.name = "net_id" /\ i.kind = "number" /\ i.at = 3 /\ i.len = 3 /\ i.low = 0 /\ i.width = 8
      /\ a.name = "dev_addr" /\ a.kind = "digits" /\ a.at = 6 /\ a.len = 4
      /\ y.name = "rx_delay" /\ y.kind = "number" /\ y.at = 11 /\ y.len = 1 /\ y.low = 0 /\ y.width = 8
      /\ o.name = "rx1_dr_offset" /\ o.kind = "bits" /\ o.at = 10 /\ o.len = 1 /\ o.low = 4 /\ o.width = 3
      /\ r.name = "rx2_datarate" /\ r.kind = "bits" /\ r.at = 10 /\ r.len = 1 /\ r.low = 0 /\ r.width = 4
  BY DEF Number, Digits, Bits
<1> HIDE DEF n, i, a, y, o, r
<1>3. Names(F) = JoinAcceptNames
  BY <1>2 DEF Names, JoinAcceptNames
<1>4. IsField(n) /\ IsField(i) /\ IsDigits(a) /\ IsField(y)
  BY <1>2 DEF IsDigits, IsField
<1>5. n \in F /\ i \in F /\ a \in F /\ y \in F /\ o \in F /\ r \in F
  OBVIOUS
<1>6. n \in F \ DLSettings /\ i \in F \ DLSettings /\ a \in F \ DLSettings /\ y \in F \ DLSettings
  BY <1>1, <1>2
<1>7. \A f, g \in F : f.name = g.name => f = g
  BY <1>2
<1> HIDE DEF F
<1>8. PICK e : e = Encode(F, h)
  OBVIOUS
<1>9. /\ e \in Seq(Byte) /\ Len(e) = 12
      /\ \A f \in F \ DLSettings : HasBytesOf(e, f, h[f.name])
      /\ e[11] = (h["rx1_dr_offset"] % 8) * 16 + (h["rx2_datarate"] % 16) * 1
  BY <1>1, <1>8, JoinAcceptBytes
<1>10. b \in Seq(Byte) /\ Len(b) >= 12 /\ \A k \in 1..12 : b[k] = e[k]
  BY <1>1, <1>8, <1>9 DEF Begins
<1>11. HasBytesOf(b, n, h[n.name]) /\ HasBytesOf(b, i, h[i.name]) /\ HasBytesOf(b, a, h[a.name])
       /\ HasBytesOf(b, y, h[y.name])
  <2>1. ASSUME NEW f \in F \ DLSettings, f.at \in Nat, f.at + f.len <= 12, f.len \in Nat
        PROVE  HasBytesOf(b, f, h[f.name])
    <3>1. ASSUME NEW k \in Nat, Covers(f, k)
          PROVE  b[k] = Put(f, h[f.name], k - 1)
      <4>1. k \in 1..12
        BY <2>1, <3>1 DEF Covers
      <4>2. b[k] = e[k]
        BY <1>10, <4>1
      <4>3. e[k] = Put(f, h[f.name], k - 1)
        BY <1>9, <2>1, <3>1 DEF HasBytesOf
      <4> QED
        BY <4>2, <4>3
    <3> QED
      BY <3>1 DEF HasBytesOf
  <2>2. n.at + n.len <= 12 /\ i.at + i.len <= 12 /\ a.at + a.len <= 12 /\ y.at + y.len <= 12
    BY <1>2
  <2> QED
    BY <1>2, <1>6, <2>1, <2>2
<1>12. Take(n, b) = h["app_nonce"] /\ Take(i, b) = h["net_id"] /\ Take(y, b) = h["rx_delay"]
  <2>1. PICK u \in Nat, v \in Nat, w \in Nat :
          u = h[n.name] /\ v = h[i.name] /\ w = h[y.name]
          /\ IsThree(u) /\ IsThree(v) /\ w < 256
    BY <1>2, ZenonT(40) DEF IsJoinAccept, HasRoom
  <2>4. u < 256^n.len /\ v < 256^i.len /\ w < 256^y.len
    BY <1>2, <2>1, RoomFor
  <2>5. HasBytesOf(b, n, u) /\ HasBytesOf(b, i, v) /\ HasBytesOf(b, y, w)
    BY <1>11, <2>1
  <2>6. n.kind = "number" /\ i.kind = "number" /\ y.kind = "number"
    BY <1>2
  <2>7. Take(n, b) = u
    BY <1>4, <2>4, <2>5, <2>6, NumberOut, Zenon
  <2>8. Take(i, b) = v
    BY <1>4, <2>4, <2>5, <2>6, NumberOut, Zenon
  <2>9. Take(y, b) = w
    BY <1>4, <2>4, <2>5, <2>6, NumberOut, Zenon
  <2> QED
    BY <1>2, <2>1, <2>7, <2>8, <2>9
<1>13. Take(a, b) = h["dev_addr"]
  <2>1. h[a.name] \in Seq(Byte) /\ Len(h[a.name]) = a.len /\ a.at + a.len <= Len(b)
    BY <1>2, <1>10, SMTT(30) DEF IsJoinAccept, IsAddr
  <2>2. b \in Seq(Byte) /\ HasBytesOf(b, a, h[a.name]) /\ IsDigits(a)
    BY <1>4, <1>10, <1>11
  <2>3. Take(a, b) = h[a.name]
    BY <2>1, <2>2, DigitsTaken, Zenon
  <2> QED
    BY <1>2, <2>3
<1>14. Take(o, b) = h["rx1_dr_offset"] /\ Take(r, b) = h["rx2_datarate"]
  <2>1. PICK u \in 0..7, v \in 0..15 : u = h["rx1_dr_offset"] /\ v = h["rx2_datarate"]
    BY DEF IsJoinAccept, HasRoom
  <2>2. PICK z : z = b[11] /\ z = (u % 8) * 16 + (v % 16) * 1
    <3>1. 11 \in 1..12
      OBVIOUS
    <3>2. b[11] = e[11]
      BY <1>10, <3>1
    <3> QED
      BY <1>9, <2>1, <3>2
  <2>3. (z \div 16) % 8 = u /\ (z \div 1) % 16 = v
    BY <2>2, SMT
  <2>4. 8 = 2^o.width /\ 16 = 2^o.low /\ 16 = 2^r.width /\ 1 = 2^r.low
    BY <1>2, PowersOf2
  <2>5. o.at + 1 = 11 /\ r.at + 1 = 11
    BY <1>2
  <2>6. /\ Take(o, b) = (b[o.at + 1] \div 2^o.low) % 2^o.width
        /\ Take(r, b) = (b[r.at + 1] \div 2^r.low) % 2^r.width
    <3>1. o.at \in Nat /\ o.len = 1 /\ o.kind = "bits" /\ r.at \in Nat /\ r.len = 1 /\ r.kind = "bits"
      BY <1>2
    <3> QED
      BY <3>1, BitsField, Zenon
  <2>7. Take(o, b) = (z \div 16) % 8 /\ Take(r, b) = (z \div 1) % 16
    BY <2>2, <2>4, <2>5, <2>6
  <2> QED
    BY <2>1, <2>3, <2>7
<1>15. PICK d : d = Decode(F, b)
  OBVIOUS
<1>16. ASSUME NEW f \in F
       PROVE  d[f.name] = Take(f, b)
  <2>1. f.name \in Names(F)
    BY DEF Names
  <2>2. f = CHOOSE g \in F : g.name = f.name
    BY <1>7
  <2> QED
    BY <1>15, <2>1, <2>2 DEF Decode
<1>17. d = [u \in JoinAcceptNames |-> d[u]]
  BY <1>3, <1>15 DEF Decode
<1>18. /\ d["app_nonce"] = h["app_nonce"] /\ d["net_id"] = h["net_id"] /\ d["dev_addr"] = h["dev_addr"]
       /\ d["rx_delay"] = h["rx_delay"] /\ d["rx1_dr_offset"] = h["rx1_dr_offset"]
       /\ d["rx2_datarate"] = h["rx2_datarate"]
  BY <1>2, <1>5, <1>12, <1>13, <1>14, <1>16
<1>19. \A u \in JoinAcceptNames : d[u] = h[u]
  BY <1>18 DEF JoinAcceptNames
<1>20. d = h
  BY <1>17, <1>19
<1> QED
  BY <1>1, <1>15, <1>20
=============================================================================
