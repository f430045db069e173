------------------------ MODULE LineFollowingProofs ------------------------
(***************************************************************************)
(* What the probe scan and the drive law do, proved for every reading of   *)
(* the nine near probes and of the 26 far ones, and for every set of far   *)
(* readings to start from: the three properties of LineFollowing.          *)
(*                                                                         *)
(* The argument.  Everything rests on the truncated mean of a set of       *)
(* positions, and the mean on SumSet, which is a recursive function.  The  *)
(* scans add the positions up in the order of the bits, SumSet in an order *)
(* of its own: lemma SumSetRemove says that the order does not matter, and *)
(* ImageSum what a shift or a mirror image of the positions does to their  *)
(* sum.  Both are proved by induction over the subsets of a finite set,    *)
(* SubsetInduction, with a set of subsets in the place of a predicate.     *)
(***************************************************************************)
EXTENDS LineFollowing, FiniteSetTheorems, TLAPS

-----------------------------------------------------------------------------
(* Induction over the subsets of a finite set.                             *)

\* Among some subsets of a finite set there is a minimal one.
LEMMA MinimalSubset ==
  ASSUME NEW S, IsFiniteSet(S), NEW Bad \in SUBSET SUBSET S, Bad # {}
  PROVE  \E T \in Bad : \A U \in Bad : U \subseteq T => U = T
<1>1. IsWellFoundedOn(StrictSubsetOrdering(S), FiniteSubsetsOf(S))
  BY FS_StrictSubsetOrderingWellFounded
<1>2. FiniteSubsetsOf(S) = SUBSET S
  BY FS_FiniteSubsetsOfFinite
<1>3. PICK T \in Bad : \A U \in Bad : <<U, T>> \notin StrictSubsetOrdering(S)
  BY <1>1, <1>2, WFMin
<1> QED
  BY <1>3 DEF StrictSubsetOrdering

\* What holds for a subset whenever it holds for all smaller ones holds for
\* the whole set.
LEMMA SubsetInduction ==
  ASSUME NEW S, IsFiniteSet(S), NEW Good,
         \A T \in SUBSET S : (\A U \in SUBSET T : U # T => U \in Good) => T \in Good
  PROVE  S \in Good
<1> DEFINE Bad == {T \in SUBSET S : T \notin Good}
<1> SUFFICES ASSUME Bad # {} PROVE FALSE
  OBVIOUS
<1>1. Bad \in SUBSET SUBSET S
  OBVIOUS
<1>2. PICK T \in Bad : \A u \in Bad : u \subseteq T => u = T
  <2> HIDE DEF Bad
  <2> QED BY <1>1, MinimalSubset
<1> QED
  BY <1>2

-----------------------------------------------------------------------------
(* The sum of a set: SumSet takes some element out, its Pick.              *)

Pick(s) == CHOOSE x \in s : TRUE

\* f is the recursive function inside SumSet(S).
Sums(S, f) == f = [s \in SUBSET S |-> IF s = {} THEN 0
                                     ELSE Pick(s) + f[s \ {Pick(s)}]]

LEMMA SumSetIs ==
  ASSUME NEW S
  PROVE  SumSet(S) = (CHOOSE f : Sums(S, f))[S]
BY DEF SumSet, FoldSet, MapThenFoldSet, Sums, Pick

LEMMA SumsAt ==
  ASSUME NEW S, NEW f, Sums(S, f), NEW s \in SUBSET S
  PROVE  f[s] = IF s = {} THEN 0 ELSE Pick(s) + f[s \ {Pick(s)}]
BY DEF Sums

LEMMA PickIn == \A s : s # {} => Pick(s) \in s
BY DEF Pick

\* The functions inside two sums agree on the subsets they share.
LEMMA SumsAgree ==
  ASSUME NEW S, IsFiniteSet(S), NEW f, Sums(S, f),
         NEW T \in SUBSET S, NEW g, Sums(T, g)
  PROVE  f[T] = g[T]
<1> DEFINE Bad == {s \in SUBSET T : f[s] # g[s]}
<1> SUFFICES ASSUME Bad # {} PROVE FALSE
  OBVIOUS
<1>1. Bad \in SUBSET SUBSET S
  OBVIOUS
<1>2. PICK s \in Bad : \A u \in Bad : u \subseteq s => u = s
  <2> HIDE DEF Bad
  <2> QED BY <1>1, MinimalSubset
<1>3. s # {}
  BY SumsAt
<1>4. Pick(s) \in s
  BY <1>3, PickIn
<1>5. s \ {Pick(s)} \notin Bad
  BY <1>2, <1>4
<1>6. f[s \ {Pick(s)}] = g[s \ {Pick(s)}]
  BY <1>5
<1> QED
  BY <1>3, <1>6, SumsAt

\* There is such a function: on a smallest set without one, the sums of the
\* smaller sets would make one.
LEMMA SumsExist ==
  ASSUME NEW S, IsFiniteSet(S)
  PROVE  \E f : Sums(S, f)
<1> DEFINE Bad == {s \in SUBSET S : ~ \E f : Sums(s, f)}
<1> SUFFICES ASSUME Bad # {} PROVE FALSE
  OBVIOUS
<1>1. PICK T \in Bad : \A u \in Bad : u \subseteq T => u = T
  <2>1. Bad \in SUBSET SUBSET S
    OBVIOUS
  <2> HIDE DEF Bad
  <2> QED BY <2>1, MinimalSubset
<1>2. \A u \in SUBSET T : u # T => Sums(u, CHOOSE f : Sums(u, f))
  BY <1>1
<1>3. \A u \in SUBSET T : u # T /\ u # {} =>
         SumSet(u) = Pick(u) + SumSet(u \ {Pick(u)})
  <2> SUFFICES ASSUME NEW u \in SUBSET T, u # T, u # {}
               PROVE  SumSet(u) = Pick(u) + SumSet(u \ {Pick(u)})
    OBVIOUS
  <2> DEFINE v == u \ {Pick(u)}
             f == CHOOSE h : Sums(u, h)
             g == CHOOSE h : Sums(v, h)
  <2>1. Pick(u) \in u /\ v \in SUBSET u /\ v # T /\ v \in SUBSET T
    BY PickIn
  <2>2. Sums(u, f) /\ Sums(v, g)
    BY <1>2, <2>1
  <2>3. IsFiniteSet(u)
    BY FS_Subset
  <2>4. f[v] = g[v]
    <3> HIDE DEF f, g, v
    <3> QED BY <2>1, <2>2, <2>3, SumsAgree
  <2>5. f[u] = Pick(u) + f[v]
    <3> HIDE DEF f
    <3> QED BY <2>2, SumsAt
  <2> QED BY <2>4, <2>5, SumSetIs
<1>4. \A u \in SUBSET T : u # T /\ u = {} => SumSet(u) = 0
  <2> SUFFICES ASSUME {} # T PROVE SumSet({}) = 0
    OBVIOUS
  <2> DEFINE f == CHOOSE h : Sums({}, h)
  <2>1. Sums({}, f)
    BY <1>2
  <2>2. f[{}] = 0
    <3> HIDE DEF f
    <3> QED BY <2>1, SumsAt
  <2> QED BY <2>2, SumSetIs
<1> DEFINE g == [s \in SUBSET T |-> IF s = {} THEN 0 ELSE
                  IF s = T THEN Pick(T) + SumSet(T \ {Pick(T)}) ELSE SumSet(s)]
<1>5. Sums(T, g)
  <2> SUFFICES ASSUME NEW s \in SUBSET T, s # {}
               PROVE  g[s] = Pick(s) + g[s \ {Pick(s)}]
    BY DEF Sums
  <2>1. Pick(s) \in s
    BY PickIn
  <2>2. CASE s = T
    BY <2>1, <2>2, <1>4
  <2>3. CASE s # T
    BY <2>1, <2>3, <1>3, <1>4
  <2> QED BY <2>2, <2>3
<1> QED
  BY <1>5

LEMMA SumSetEmpty == SumSet({}) = 0
<1> DEFINE f == CHOOSE h : Sums({}, h)
<1>1. Sums({}, f)
  BY SumsExist, FS_EmptySet
<1>2. f[{}] = 0
  <2> HIDE DEF f
  <2> QED BY <1>1, SumsAt
<1> QED BY <1>2, SumSetIs

LEMMA SumSetPick ==
  ASSUME NEW S, IsFiniteSet(S), S # {}
  PROVE  SumSet(S) = Pick(S) + SumSet(S \ {Pick(S)})
<1> DEFINE R == S \ {Pick(S)}
           f == CHOOSE h : Sums(S, h)
           g == CHOOSE h : Sums(R, h)
<1>1. IsFiniteSet(R)
  BY FS_Subset
<1>2. Sums(S, f) /\ Sums(R, g)
  BY <1>1, SumsExist
<1>3. f[R] = g[R]
  <2> HIDE DEF f, g
  <2> QED BY <1>2, SumsAgree
<1>4. f[S] = Pick(S) + f[R]
  <2> HIDE DEF f
  <2> QED BY <1>2, SumsAt
<1> QED BY <1>3, <1>4, SumSetIs

\* A finite set of integers.  A name of its own keeps its two halves out of
\* the obligations that do not need them.
IntSet(S) == S \subseteq Int /\ IsFiniteSet(S)

LEMMA IntSubset ==
  ASSUME NEW S, IntSet(S), NEW T \in SUBSET S
  PROVE  IntSet(T) /\ Cardinality(T) \in Nat
BY FS_Subset, FS_CardinalityType DEF IntSet

LEMMA SumSetInt ==
  ASSUME NEW S, IntSet(S)
  PROVE  SumSet(S) \in Int
<1> DEFINE Good == {T \in SUBSET S : SumSet(T) \in Int}
<1>1. ASSUME NEW T \in SUBSET S, \A U \in SUBSET T : U # T => U \in Good
      PROVE  T \in Good
  <2>1. CASE T = {}
    BY <2>1, SumSetEmpty
  <2>2. CASE T # {}
    <3>1. Pick(T) \in T /\ Pick(T) \in Int
      BY <2>2, PickIn DEF IntSet
    <3>2. SumSet(T \ {Pick(T)}) \in Int
      BY <1>1, <3>1
    <3>3. SumSet(T) = Pick(T) + SumSet(T \ {Pick(T)})
      BY <2>2, SumSetPick, IntSubset DEF IntSet
    <3>4. SumSet(T) \in Int
      BY <3>1, <3>2, <3>3
    <3> QED BY <3>4
  <2> QED BY <2>1, <2>2
<1>2. S \in Good
  <2>1. IsFiniteSet(S)
    BY DEF IntSet
  <2> HIDE DEF Good
  <2> QED BY <1>1, <2>1, SubsetInduction
<1> QED BY <1>2

\* Any element may be taken out, not only the one SumSet picks.
LEMMA SumSetRemove ==
  ASSUME NEW S, IntSet(S), NEW y \in S
  PROVE  SumSet(S) = y + SumSet(S \ {y})
<1> DEFINE Good == {T \in SUBSET S : \A z \in T : SumSet(T) = z + SumSet(T \ {z})}
<1>1. ASSUME NEW T \in SUBSET S, \A U \in SUBSET T : U # T => U \in Good
      PROVE  T \in Good
  <2> DEFINE c == Pick(T)
  <2> SUFFICES ASSUME NEW z \in T, c # z PROVE SumSet(T) = z + SumSet(T \ {z})
    BY SumSetPick, IntSubset DEF IntSet
  <2>1. c \in T
    BY PickIn
  <2>2. SumSet(T) = c + SumSet(T \ {c})
    BY SumSetPick, IntSubset DEF IntSet
  <2> HIDE DEF c
  <2>3. SumSet(T \ {c}) = z + SumSet((T \ {c}) \ {z})
    BY <1>1, <2>1
  <2>4. SumSet(T \ {z}) = c + SumSet((T \ {z}) \ {c})
    BY <1>1, <2>1
  <2>5. (T \ {c}) \ {z} = (T \ {z}) \ {c}
    OBVIOUS
  <2>6. SumSet((T \ {c}) \ {z}) \in Int
    BY SumSetInt, IntSubset
  <2>7. c \in Int /\ z \in Int
    BY <2>1 DEF IntSet
  <2> QED BY <2>2, <2>3, <2>4, <2>5, <2>6, <2>7
<1>2. S \in Good
  <2>1. IsFiniteSet(S)
    BY DEF IntSet
  <2> HIDE DEF Good
  <2> QED BY <1>1, <2>1, SubsetInduction
<1> QED BY <1>2

\* A line that drifts moves every position by one (a = 1), a mirrored one
\* turns them round (a = -1).
Image(S, a, d) == {a * b + d : b \in S}

LEMMA ImageSum ==
  ASSUME NEW S, IntSet(S), NEW a \in {-1, 1}, NEW d \in Int
  PROVE  /\ IntSet(Image(S, a, d))
         /\ Cardinality(Image(S, a, d)) = Cardinality(S)
         /\ SumSet(Image(S, a, d)) = a * SumSet(S) + d * Cardinality(S)
<1> DEFINE Good == {T \in SUBSET S :
               /\ IntSet(Image(T, a, d))
               /\ Cardinality(Image(T, a, d)) = Cardinality(T)
               /\ SumSet(Image(T, a, d)) = a * SumSet(T) + d * Cardinality(T)}
<1>1. ASSUME NEW T \in SUBSET S, \A U \in SUBSET T : U # T => U \in Good
      PROVE  T \in Good
  <2>1. CASE T = {}
    <3>1. Image({}, a, d) = {}
      BY DEF Image
    <3>2. SumSet({}) = 0 /\ IntSet({}) /\ Cardinality({}) = 0
      BY SumSetEmpty, FS_EmptySet DEF IntSet
    <3>3. 0 = a * 0 + d * 0
      OBVIOUS
    <3> QED BY <2>1, <3>1, <3>2, <3>3
  <2>2. CASE T # {}
    <3>1. PICK x \in T : TRUE
      BY <2>2
    <3> DEFINE y == a * x + d
               R == T \ {x}
    <3>2. x \in Int /\ y \in Int
      BY <3>1 DEF IntSet
    <3>3. R \in Good /\ IntSet(R) /\ IntSet(T) /\ Cardinality(R) \in Nat /\ R \in SUBSET S
      BY <1>1, <3>1, IntSubset
    <3>4. Image(T, a, d) = Image(R, a, d) \cup {y}
      BY <3>1 DEF Image
    <3>5. y \notin Image(R, a, d)
      <4> SUFFICES ASSUME NEW b \in R, a * b + d = a * x + d PROVE FALSE
        BY DEF Image
      <4>1. b \in Int /\ b # x
        BY DEF IntSet
      <4> QED BY <3>2, <4>1
    <3> DEFINE I == Image(R, a, d)
               n == Cardinality(R)
               s == SumSet(R)
    <3>6. IntSet(I) /\ Cardinality(I) = n /\ SumSet(I) = a * s + d * n
      BY <3>3
    <3>7. IntSet(I \cup {y}) /\ Cardinality(I \cup {y}) = n + 1
      <4>1. IsFiniteSet(I) /\ I \subseteq Int
        BY <3>6 DEF IntSet
      <4>2. y \notin I
        BY <3>5
      <4> HIDE DEF I, y
      <4>3. IsFiniteSet(I \cup {y}) /\ Cardinality(I \cup {y}) = Cardinality(I) + 1
        BY <4>1, <4>2, FS_AddElement
      <4> QED BY <3>2, <3>6, <4>1, <4>3 DEF IntSet
    <3>8. SumSet(I \cup {y}) = y + SumSet(I)
      <4>1. (I \cup {y}) \ {y} = I
        BY <3>5
      <4> HIDE DEF I, y
      <4> QED BY <3>7, <4>1, SumSetRemove
    <3>9. SumSet(T) = x + s /\ Cardinality(T) = n + 1
      <4>1. SumSet(T) = x + s
        BY <3>1, <3>3, SumSetRemove
      <4>2. IsFiniteSet(T) /\ Cardinality(T) \in Nat
        BY <3>3, FS_CardinalityType DEF IntSet
      <4>3. Cardinality(R) = Cardinality(T) - 1
        BY <3>1, <4>2, FS_RemoveElement
      <4> QED BY <4>1, <4>2, <4>3
    <3>10. s \in Int /\ n \in Nat
      BY <3>3, SumSetInt
    <3>11. y + (a * s + d * n) = a * (x + s) + d * (n + 1)
      <4>1. y = a * x + d
        OBVIOUS
      <4> HIDE DEF y, s, n
      <4>2. a * (x + s) = a * x + a * s
        BY <3>2, <3>10
      <4>3. d * (n + 1) = d * n + d
        BY <3>10
      <4>4. a * x \in Int /\ a * s \in Int /\ d * n \in Int
        BY <3>2, <3>10
      <4> QED BY <4>1, <4>2, <4>3, <4>4
    <3>12. SumSet(Image(T, a, d)) = a * SumSet(T) + d * Cardinality(T)
      <4> HIDE DEF y, s, n
      <4> QED BY <3>4, <3>6, <3>8, <3>9, <3>11
    <3> HIDE DEF y, s, n
    <3> QED BY <3>4, <3>7, <3>9, <3>12
  <2> QED BY <2>1, <2>2
<1>2. S \in Good
  <2>1. IsFiniteSet(S)
    BY DEF IntSet
  <2> HIDE DEF Good
  <2> QED BY <1>1, <2>1, SubsetInduction
<1> QED BY <1>2

\* Positions between 1 and hi have a mean between 1 and hi.
LEMMA SumSetBounds ==
  ASSUME NEW S, IntSet(S), NEW hi \in Int, \A x \in S : 1 <= x /\ x <= hi
  PROVE  Cardinality(S) <= SumSet(S) /\ SumSet(S) <= hi * Cardinality(S)
<1> DEFINE Good == {T \in SUBSET S : /\ Cardinality(T) <= SumSet(T)
                                     /\ SumSet(T) <= hi * Cardinality(T)}
<1>1. ASSUME NEW T \in SUBSET S, \A U \in SUBSET T : U # T => U \in Good
      PROVE  T \in Good
  <2>1. CASE T = {}
    <3>1. 0 <= 0 /\ 0 <= hi * 0
      OBVIOUS
    <3> QED BY <2>1, <3>1, SumSetEmpty, FS_EmptySet
  <2>2. CASE T # {}
    <3>1. PICK x \in T : TRUE
      BY <2>2
    <3> DEFINE R == T \ {x}
               n == Cardinality(R)
               s == SumSet(R)
    <3>2. x \in Int /\ 1 <= x /\ x <= hi
      BY <3>1 DEF IntSet
    <3>3. R \in Good /\ IntSet(R) /\ IntSet(T) /\ n \in Nat
      BY <1>1, <3>1, IntSubset
    <3>4. n <= s /\ s <= hi * n
      BY <3>3
    <3>5. SumSet(T) = x + s
      BY <3>1, <3>3, SumSetRemove
    <3>6. Cardinality(T) = n + 1
      <4>2. IsFiniteSet(T) /\ Cardinality(T) \in Nat
        BY <3>3, FS_CardinalityType DEF IntSet
      <4>3. Cardinality(R) = Cardinality(T) - 1
        BY <3>1, <4>2, FS_RemoveElement
      <4> QED BY <4>2, <4>3
    <3>7. s \in Int
      BY <3>3, SumSetInt
    <3>8. n + 1 <= x + s /\ x + s <= hi * (n + 1)
      <4> HIDE DEF n, s
      <4>1. hi * (n + 1) = hi * n + hi /\ hi * n \in Int
        BY <3>3
      <4> QED BY <3>2, <3>3, <3>4, <3>7, <4>1
    <3> QED BY <3>5, <3>6, <3>8
  <2> QED BY <2>1, <2>2
<1>2. S \in Good
  <2>1. IsFiniteSet(S)
    BY DEF IntSet
  <2> HIDE DEF Good
  <2> QED BY <1>1, <2>1, SubsetInduction
<1> QED BY <1>2

-----------------------------------------------------------------------------
(* The mean.                                                               *)

LEMMA QuotientIs ==
  ASSUME NEW a \in Int, NEW c \in Nat, c > 0, NEW k \in Int,
         k * c <= a, a < k * c + c
  PROVE  a \div c = k
OBVIOUS

LEMMA QuotientBounds ==
  ASSUME NEW a \in Int, NEW c \in Nat, c > 0
  PROVE  /\ a \div c \in Int
         /\ (a \div c) * c <= a
         /\ a < (a \div c) * c + c
         /\ a % c = a - (a \div c) * c
OBVIOUS

LEMMA PositiveCount ==
  ASSUME NEW S, IntSet(S), S # {}
  PROVE  Cardinality(S) \in Nat /\ Cardinality(S) > 0
<1>1. IsFiniteSet(S)
  BY DEF IntSet
<1> QED BY <1>1, FS_CardinalityType, FS_EmptySet

\* The mean of positions in 1..hi is one of them or lies between them.
LEMMA MeanRange ==
  ASSUME NEW S, IntSet(S), S # {}, NEW hi \in Int,
         \A x \in S : 1 <= x /\ x <= hi
  PROVE  MeanOf(S) \in 1..hi
<1> DEFINE c == Cardinality(S)
           s == SumSet(S)
           q == s \div c
<1>1. c \in Nat /\ c > 0 /\ s \in Int
  BY PositiveCount, SumSetInt
<1>2. c <= s /\ s <= hi * c
  BY SumSetBounds
<1>3. q \in 1..hi
  <2> HIDE DEF c, s
  <2>1. q \in Int /\ q * c <= s /\ s < q * c + c
    BY <1>1, QuotientBounds
  <2> HIDE DEF q
  <2>2. q >= 1
    <3> SUFFICES ASSUME q <= 0 PROVE FALSE
      BY <2>1
    <3>1. q * c <= 0
      BY <1>1, <2>1
    <3> QED BY <1>1, <1>2, <2>1, <3>1
  <2>3. q <= hi
    <3> SUFFICES ASSUME q >= hi + 1 PROVE FALSE
      BY <2>1
    <3>1. q * c >= (hi + 1) * c
      BY <1>1, <2>1
    <3>2. (hi + 1) * c = hi * c + c
      BY <1>1
    <3>3. hi * c \in Int /\ q * c \in Int
      BY <1>1, <2>1
    <3> QED BY <1>1, <1>2, <2>1, <3>1, <3>2, <3>3
  <2> QED BY <2>1, <2>2, <2>3
<1> QED BY <1>3 DEF MeanOf

\* A line that drifts by one probe moves the mean by exactly one.
LEMMA MeanMoved ==
  ASSUME NEW S, IntSet(S), S # {}
  PROVE  MeanOf(Moved(S, 1)) = MeanOf(S) + 1 /\ MeanOf(S) \in Int
<1> DEFINE c == Cardinality(S)
           s == SumSet(S)
           q == s \div c
<1>1. c \in Nat /\ c > 0 /\ s \in Int
  BY PositiveCount, SumSetInt
<1>2. Moved(S, 1) = Image(S, 1, 1)
  BY DEF Moved, Image, IntSet
<1>3. Cardinality(Moved(S, 1)) = c /\ SumSet(Moved(S, 1)) = 1 * s + 1 * c
  BY <1>2, ImageSum
<1>4. (s + c) \div c = q + 1 /\ q \in Int
  <2> HIDE DEF c, s
  <2>1. q \in Int /\ q * c <= s /\ s < q * c + c
    BY <1>1, QuotientBounds
  <2> HIDE DEF q
  <2>2. (q + 1) * c = q * c + c /\ q * c \in Int
    BY <1>1, <2>1
  <2> QED BY <1>1, <2>1, <2>2, QuotientIs
<1>5. 1 * s + 1 * c = s + c
  BY <1>1
<1> QED BY <1>3, <1>4, <1>5 DEF MeanOf

\* The mean of a mirrored line, up to the truncation.
LEMMA MeanMirrored ==
  ASSUME NEW S, IntSet(S), S # {}
  PROVE  MeanOf(Mirror(S)) = (IF Truncated(S) THEN 26 ELSE 27) - MeanOf(S)
<1> DEFINE c == Cardinality(S)
           s == SumSet(S)
           q == s \div c
<1>1. c \in Nat /\ c > 0 /\ s \in Int
  BY PositiveCount, SumSetInt
<1>2. Mirror(S) = Image(S, -1, 27)
  <2>1. \A b \in S : 27 - b = (-1) * b + 27
    BY DEF IntSet
  <2> QED BY <2>1 DEF Mirror, Image
<1>3. Cardinality(Mirror(S)) = c /\ SumSet(Mirror(S)) = (-1) * s + 27 * c
  BY <1>2, ImageSum
<1>4. ((-1) * s + 27 * c) \div c = (IF s % c # 0 THEN 26 ELSE 27) - q
  <2> HIDE DEF c, s
  <2>1. q \in Int /\ q * c <= s /\ s < q * c + c /\ s % c = s - q * c
    BY <1>1, QuotientBounds
  <2> HIDE DEF q
  <2>2. /\ q * c \in Int
        /\ (26 - q) * c = 26 * c - q * c
        /\ (27 - q) * c = 27 * c - q * c
    BY <1>1, <2>1
  <2>3. CASE s % c # 0
    <3>1. (26 - q) * c <= (-1) * s + 27 * c
      BY <1>1, <2>1, <2>2, <2>3
    <3>2. (-1) * s + 27 * c < (26 - q) * c + c
      BY <1>1, <2>1, <2>2, <2>3
    <3> QED BY <1>1, <2>1, <2>3, <3>1, <3>2, QuotientIs
  <2>4. CASE s % c = 0
    <3>1. (27 - q) * c <= (-1) * s + 27 * c
      BY <1>1, <2>1, <2>2, <2>4
    <3>2. (-1) * s + 27 * c < (27 - q) * c + c
      BY <1>1, <2>1, <2>2, <2>4
    <3> QED BY <1>1, <2>1, <2>4, <3>1, <3>2, QuotientIs
  <2> QED BY <2>3, <2>4
<1> QED BY <1>3, <1>4 DEF MeanOf, Truncated

-----------------------------------------------------------------------------
(* The loop of the scans computes the mean.                                *)

LEMMA SmallestNat ==
  ASSUME NEW Bad \in SUBSET Nat, Bad # {}
  PROVE  \E i \in Bad : \A j \in Bad : i <= j
<1>1. PICK i \in Bad : \A j \in Bad : <<j, i>> \notin OpToRel(<, Nat)
  BY NatLessThanWellFounded, WFMin
<1>2. \A j \in Bad : ~(j < i)
  BY <1>1 DEF OpToRel
<1> QED BY <1>2

\* g is the recursive function inside Total(steps, n).
Totals(steps, n, g) ==
  g = [i \in 0..n |-> IF i = 0 THEN 0 ELSE g[i - 1] + steps[i]]

LEMMA TotalIs ==
  ASSUME NEW steps, NEW n
  PROVE  Total(steps, n) = (CHOOSE g : Totals(steps, n, g))[n]
BY DEF Total, Totals

\* A function that starts at 0 and grows by the steps is the running total.
LEMMA TotalReached ==
  ASSUME NEW n \in Nat, NEW steps, NEW seen, seen = [i \in 0..n |-> seen[i]],
         seen[0] = 0, \A i \in 1..n : seen[i] = seen[i - 1] + steps[i]
  PROVE  Total(steps, n) = seen[n]
<1>1. Totals(steps, n, seen)
  <2>1. \A i \in 0..n : seen[i] = IF i = 0 THEN 0 ELSE seen[i - 1] + steps[i]
    <3>1. \A i \in 0..n : i = 0 \/ i \in 1..n
      OBVIOUS
    <3> QED BY <3>1
  <2> QED BY <2>1 DEF Totals
<1> DEFINE g == CHOOSE h : Totals(steps, n, h)
<1>2. Totals(steps, n, g)
  BY <1>1
<1> HIDE DEF g
<1> DEFINE Bad == {i \in 0..n : g[i] # seen[i]}
<1>3. Bad = {}
  <2> SUFFICES ASSUME Bad # {} PROVE FALSE
    OBVIOUS
  <2>1. PICK i \in Bad : \A j \in Bad : i <= j
    <3>1. Bad \in SUBSET Nat
      OBVIOUS
    <3> HIDE DEF Bad
    <3> QED BY <3>1, SmallestNat
  <2>2. g[0] = 0
    BY <1>2 DEF Totals
  <2>3. i \in 1..n /\ i - 1 \in 0..n
    BY <2>2
  <2>4. g[i - 1] = seen[i - 1]
    BY <2>1, <2>3
  <2>5. g[i] = g[i - 1] + steps[i]
    BY <1>2, <2>3 DEF Totals
  <2>6. seen[i] = seen[i - 1] + steps[i]
    BY <2>3
  <2> QED BY <2>4, <2>5, <2>6
<1>4. g[n] = seen[n]
  BY <1>3
<1> QED BY <1>4, TotalIs DEF g

\* One more bit adds its position to the sum, and one to the count.
SumGrows(S, i) ==
  SumSet(S \cap 1..i) = SumSet(S \cap 1..(i - 1)) + (IF i \in S THEN i ELSE 0)
CountGrows(S, i) ==
  Cardinality(S \cap 1..i)
    = Cardinality(S \cap 1..(i - 1)) + (IF i \in S THEN 1 ELSE 0)

LEMMA OneMoreBit ==
  ASSUME NEW n \in Nat, NEW S, S \subseteq 1..n, NEW i \in 1..n
  PROVE  SumGrows(S, i) /\ CountGrows(S, i)
<1> DEFINE A == S \cap 1..i
           B == S \cap 1..(i - 1)
<1>1. IsFiniteSet(1..n)
  BY FS_Interval
<1>2. IntSet(A) /\ IntSet(B)
  <2>1. A \subseteq 1..n /\ B \subseteq 1..n
    OBVIOUS
  <2>2. IsFiniteSet(A) /\ IsFiniteSet(B)
    BY <1>1, <2>1, FS_Subset
  <2> QED BY <2>2 DEF IntSet
<1>3. SumSet(B) \in Int /\ Cardinality(B) \in Nat /\ Cardinality(A) \in Nat
  BY <1>2, SumSetInt, IntSubset
<1>4. CASE i \notin S
  <2>1. A = B
    BY <1>4
  <2> QED BY <1>3, <1>4, <2>1 DEF SumGrows, CountGrows
<1>5. CASE i \in S
  <2>1. i \in A /\ A \ {i} = B
    BY <1>5
  <2> HIDE DEF A, B
  <2>2. SumSet(A) = i + SumSet(B)
    BY <1>2, <2>1, SumSetRemove
  <2>3. Cardinality(B) = Cardinality(A) - 1
    <3>1. IsFiniteSet(A)
      BY <1>2 DEF IntSet
    <3> QED BY <2>1, <3>1, FS_RemoveElement
  <2>4. SumSet(A) = SumSet(B) + i /\ Cardinality(A) = Cardinality(B) + 1
    BY <1>3, <2>2, <2>3
  <2> QED BY <1>5, <2>4 DEF A, B, SumGrows, CountGrows
<1> QED BY <1>4, <1>5

\* The scans of control_function.c return the truncated mean of the positions
\* of the high bits, for every number of probes and every reading.
THEOREM ScanIsMean ==
  ASSUME NEW n \in Nat, NEW S, S \subseteq 1..n
  PROVE  ScanLoop(S, n) = MeanOf(S)
<1>1. S \cap 1..0 = {} /\ S \cap 1..n = S
  <2>1. 1..0 = {}
    OBVIOUS
  <2>2. S \cap 1..n = S
    OBVIOUS
  <2> QED BY <2>1, <2>2
<1>2. \A i \in 1..n : SumGrows(S, i) /\ CountGrows(S, i)
  BY OneMoreBit
<1> DEFINE positions == [i \in 1..n |-> IF i \in S THEN i ELSE 0]
           ones      == [i \in 1..n |-> IF i \in S THEN 1 ELSE 0]
           sums      == [i \in 0..n |-> SumSet(S \cap 1..i)]
           counts    == [i \in 0..n |-> Cardinality(S \cap 1..i)]
<1>3. Total(positions, n) = SumSet(S)
  <2>1. sums[0] = 0 /\ sums[n] = SumSet(S)
    BY <1>1, SumSetEmpty
  <2>2. ASSUME NEW i \in 1..n PROVE sums[i] = sums[i - 1] + positions[i]
    <3>1. i \in 0..n /\ i - 1 \in 0..n
      OBVIOUS
    <3>2. positions[i] = IF i \in S THEN i ELSE 0
      OBVIOUS
    <3>3. sums[i] = SumSet(S \cap 1..i) /\ sums[i - 1] = SumSet(S \cap 1..(i - 1))
      BY <3>1
    <3> HIDE DEF sums, positions
    <3> QED BY <1>2, <3>2, <3>3 DEF SumGrows
  <2>3. sums = [i \in 0..n |-> sums[i]]
    OBVIOUS
  <2> HIDE DEF sums, positions
  <2> QED BY <2>1, <2>2, <2>3, TotalReached
<1>4. Total(ones, n) = Cardinality(S)
  <2>1. counts[0] = 0 /\ counts[n] = Cardinality(S)
    BY <1>1, FS_EmptySet
  <2>2. ASSUME NEW i \in 1..n PROVE counts[i] = counts[i - 1] + ones[i]
    <3>1. i \in 0..n /\ i - 1 \in 0..n
      OBVIOUS
    <3>2. ones[i] = IF i \in S THEN 1 ELSE 0
      OBVIOUS
    <3>3. /\ counts[i] = Cardinality(S \cap 1..i)
          /\ counts[i - 1] = Cardinality(S \cap 1..(i - 1))
      BY <3>1
    <3> HIDE DEF counts, ones
    <3> QED BY <1>2, <3>2, <3>3 DEF CountGrows
  <2>3. counts = [i \in 0..n |-> counts[i]]
    OBVIOUS
  <2> HIDE DEF counts, ones
  <2> QED BY <2>1, <2>2, <2>3, TotalReached
<1> QED BY <1>3, <1>4 DEF ScanLoop, MeanOf

-----------------------------------------------------------------------------
(* The two scans, for every port reading.                                  *)

LEMMA ProbeSets ==
  /\ \A S : S \subseteq 0..26 => IntSet(S)
  /\ \A S \in SUBSET FarBits : IntSet(S)
<1>1. IsFiniteSet(0..26)
  <2>1. 0 \in Int /\ 26 \in Int
    OBVIOUS
  <2> QED BY <2>1, FS_Interval, Zenon
<1>2. ASSUME NEW S, S \subseteq 0..26 PROVE IntSet(S)
  <2>1. IsFiniteSet(S)
    BY <1>1, <1>2, FS_Subset, Zenon
  <2>2. S \subseteq Int
    BY <1>2
  <2> QED BY <2>1, <2>2 DEF IntSet
<1>3. FarBits \subseteq 0..26
  BY DEF FarBits
<1> QED BY <1>2, <1>3

\* The positions in the row of six are its bits plus one.
LEMMA SixMean ==
  ASSUME NEW port, port \subseteq SixRow, port # {}
  PROVE  /\ MeanOf(Moved(port, 1)) \in 1..6
         /\ NearFeedback(port) = Feedback("six", MeanOf(Moved(port, 1)))
<1>1. IntSet(Moved(port, 1)) /\ Moved(port, 1) # {}
  <2>1. Moved(port, 1) \subseteq 0..26
    BY DEF Moved, SixRow
  <2> QED BY <2>1, ProbeSets DEF Moved
<1>2. \A x \in Moved(port, 1) : 1 <= x /\ x <= 6
  BY DEF Moved, SixRow
<1>3. MeanOf(Moved(port, 1)) \in 1..6
  BY <1>1, <1>2, MeanRange
<1>4. port \cap ThreeRow = {} /\ {b + 1 : b \in port \cap SixRow} = Moved(port, 1)
  <2>1. port \cap ThreeRow = {}
    BY DEF SixRow, ThreeRow
  <2>2. port \cap SixRow = port
    OBVIOUS
  <2> QED BY <2>1, <2>2 DEF Moved
<1>5. ScanLoop(Moved(port, 1), 6) = MeanOf(Moved(port, 1))
  <2>1. Moved(port, 1) \subseteq 1..6
    BY DEF Moved, SixRow
  <2> QED BY <2>1, ScanIsMean
<1>6. NearFeedback(port) = Feedback("six", ScanLoop(Moved(port, 1), 6))
  BY <1>1, <1>4 DEF NearFeedback, ThreeRow
<1> QED BY <1>3, <1>5, <1>6

\* With a bit of the row of three the row of six does not count.
LEMMA ThreeWins ==
  ASSUME NEW port \in SUBSET NearBits, port \cap ThreeRow # {}
  PROVE  NearFeedback(port) \in { Feedback("centre", 65535), Feedback("three", 16),
                                 Feedback("three", 11) }
<1> DEFINE three == port \cap ThreeRow
<1>1. three \in {{6}, {7}, {8}, {6, 7}, {6, 8}, {7, 8}, {6, 7, 8}}
  BY DEF ThreeRow
<1>2. CASE three = {7} \/ three = ThreeRow
  BY <1>2 DEF NearFeedback
<1>3. CASE three # ThreeRow /\ 6 \in three
  BY <1>3 DEF NearFeedback
<1>4. CASE three \in {{8}, {7, 8}}
  BY <1>4 DEF NearFeedback, ThreeRow
<1> QED BY <1>1, <1>2, <1>3, <1>4 DEF ThreeRow

\* The near scan returns one of the ten values the drive law decodes.
LEMMA NearDecoded ==
  ASSUME NEW port \in SUBSET NearBits
  PROVE  NearFeedback(port) \in NearFeedbacks
<1>1. CASE port = {}
  <2>1. NearFeedback({}) = Feedback("none", 0)
    BY DEF NearFeedback, ThreeRow
  <2> QED BY <1>1, <2>1 DEF NearFeedbacks
<1>2. CASE port \cap ThreeRow # {}
  BY <1>2, ThreeWins DEF NearFeedbacks
<1>3. CASE port # {} /\ port \cap ThreeRow = {}
  <2>1. port \subseteq SixRow
    BY <1>3 DEF NearBits, SixRow, ThreeRow
  <2> QED BY <1>3, <2>1, SixMean DEF NearFeedbacks
<1> QED BY <1>1, <1>2, <1>3

\* The far scan returns 0 for no line and a position otherwise.
LEMMA FarDecoded ==
  ASSUME NEW port \in SUBSET FarBits
  PROVE  /\ FarFeedback(port) \in FarFeedbacks
         /\ port # {} => FarFeedback(port) = MeanOf(port) /\ MeanOf(port) \in 1..26
<1>1. CASE port = {}
  BY <1>1 DEF FarFeedback, FarFeedbacks
<1>2. CASE port # {}
  <2>1. IntSet(port)
    BY ProbeSets
  <2>2. \A x \in port : 1 <= x /\ x <= 26
    BY DEF FarBits
  <2>3. MeanOf(port) \in 1..26
    BY <1>2, <2>1, <2>2, MeanRange
  <2>4. ScanLoop(port, 26) = MeanOf(port)
    <3>1. port \subseteq 1..26
      BY DEF FarBits
    <3> QED BY <3>1, ScanIsMean
  <2> QED BY <1>2, <2>3, <2>4 DEF FarFeedback, FarFeedbacks
<1> QED BY <1>1, <1>2

\* So the ten near and 27 far values that ShipControl assumes are all that the
\* scans return (control_function.c:22-35, 46-75).
THEOREM ScansDecoded ==
  /\ \A port \in SUBSET NearBits : NearFeedback(port) \in NearFeedbacks
  /\ \A port \in SUBSET FarBits : FarFeedback(port) \in FarFeedbacks
BY NearDecoded, FarDecoded

-----------------------------------------------------------------------------
(* The drive law.                                                          *)

\* Every pair of feedback values gives commands that are accepted, or none.
LEMMA LawAccepted ==
  ASSUME NEW n \in NearFeedbacks, NEW f \in FarFeedbacks
  PROVE  /\ ServoCommand(n, f) # Hold => ServoAccepts(ServoCommand(n, f))
         /\ MotorCommand(n, f) # Hold => PwmAccepts(MotorCommand(n, f))
<1> USE DEF ServoCommand, MotorCommand, ServoAccepts, PwmAccepts, MaxCompare, Hold,
            FarFeedbacks, Feedback
<1>1. CASE n.group = "none"
  BY <1>1 DEF FarClamp, NearFeedbacks
<1>2. CASE n \in {Feedback("centre", 65535), Feedback("three", 16), Feedback("three", 11)}
  BY <1>2
<1>3. ASSUME NEW m \in 1..6, n = Feedback("six", m)
      PROVE  /\ ServoCommand(n, f) # Hold => ServoAccepts(ServoCommand(n, f))
             /\ MotorCommand(n, f) # Hold => PwmAccepts(MotorCommand(n, f))
  BY <1>3
<1> QED BY <1>1, <1>2, <1>3 DEF NearFeedbacks

LEMMA FarServo ==
  ASSUME NEW m \in 1..26
  PROVE  /\ ServoCommand(NearFeedback({}), m) = FarClamp(m) * 20 + 480
         /\ FarClamp(m) = IF m >= 23 THEN 26 ELSE IF m <= 4 THEN 1 ELSE m
<1>1. NearFeedback({}) = Feedback("none", 0)
  BY DEF NearFeedback, ThreeRow
<1> QED BY <1>1 DEF ServoCommand, FarClamp, Feedback

-----------------------------------------------------------------------------
(* The line under the probes.                                              *)

ProbesInv == near \in SUBSET NearBits /\ far \in SUBSET FarBits

\* The readings stay readings of the probes (the masks of control_function.c:21
\* and 45), whatever far readings the line starts from.
THEOREM ProbesInvariant == Spec => []ProbesInv
<1>1. Init => ProbesInv
  BY FarPatternsAssumption DEF Init, ProbesInv
<1>2. ProbesInv /\ [Next]_vars => ProbesInv'
  <2> SUFFICES ASSUME ProbesInv, [Next]_vars PROVE ProbesInv'
    OBVIOUS
  <2> USE DEF ProbesInv
  <2>1. ASSUME NEW row \in {SixRow, ThreeRow}, NEW by \in {-1, 1}, DriftNear(row, by)
        PROVE  ProbesInv'
    <3>1. row \subseteq NearBits
      BY DEF SixRow, ThreeRow, NearBits
    <3> QED BY <2>1, <3>1 DEF DriftNear
  <2>2. ASSUME NEW by \in {-1, 1}, DriftFar(by) PROVE ProbesInv'
    BY <2>2 DEF DriftFar
  <2>3. CASE LoseLine
    BY <2>3 DEF LoseLine
  <2>4. CASE Approach
    BY <2>4 DEF Approach
  <2>5. CASE FindLine
    BY <2>5, FarPatternsAssumption DEF FindLine
  <2>6. CASE UNCHANGED vars
    BY <2>6 DEF vars
  <2> QED BY <2>1, <2>2, <2>3, <2>4, <2>5, <2>6 DEF Next
<1> QED BY <1>1, <1>2, PTL DEF Spec

\* Every reading of the 35 probes is decoded, and no command that follows from
\* it is refused (steeringengine.c:13, pwm.c:168).
THEOREM CommandsCorrect == Spec => []CommandsAccepted
<1>1. ProbesInv => CommandsAccepted
  BY NearDecoded, FarDecoded, LawAccepted DEF ProbesInv, CommandsAccepted, Servo, Speed
<1> QED BY <1>1, ProbesInvariant, PTL

\* Left and right are treated alike by control_app.c:68-76, up to the truncation
\* of the mean and the one widened end.
THEOREM MirrorCorrect == Spec => []MirrorBias
<1>1. ASSUME ProbesInv, near = {}, far # {}
      PROVE  1500 - (Servo + ServoCommand(NearFeedback({}), FarFeedback(Mirror(far))))
               = (IF Truncated(far) /\ MeanOf(far) \in {4, 22} THEN 80
                  ELSE IF Truncated(far) /\ MeanOf(far) \in 5..21 THEN 20 ELSE 0)
  <2> DEFINE m == MeanOf(far)
             w == MeanOf(Mirror(far))
  <2>1. m \in 1..26 /\ FarFeedback(far) = m
    BY <1>1, FarDecoded DEF ProbesInv
  <2>2. w \in 1..26 /\ FarFeedback(Mirror(far)) = w
    <3>1. Mirror(far) \in SUBSET FarBits /\ Mirror(far) # {}
      BY <1>1 DEF Mirror, ProbesInv, FarBits
    <3> QED BY <3>1, FarDecoded
  <2>3. w = (IF Truncated(far) THEN 26 ELSE 27) - m
    <3>1. IntSet(far)
      BY <1>1, ProbeSets DEF ProbesInv
    <3> QED BY <1>1, <3>1, MeanMirrored
  <2>4. Servo = FarClamp(m) * 20 + 480
    BY <1>1, <2>1, FarServo DEF Servo
  <2>5. ServoCommand(NearFeedback({}), FarFeedback(Mirror(far))) = FarClamp(w) * 20 + 480
    BY <2>2, FarServo
  <2>6. /\ FarClamp(m) = IF m >= 23 THEN 26 ELSE IF m <= 4 THEN 1 ELSE m
        /\ FarClamp(w) = IF w >= 23 THEN 26 ELSE IF w <= 4 THEN 1 ELSE w
    BY <2>1, <2>2, FarServo
  <2> HIDE DEF m, w
  <2>7. CASE Truncated(far)
    BY <2>1, <2>2, <2>3, <2>4, <2>5, <2>6, <2>7 DEF m
  <2>8. CASE ~Truncated(far)
    BY <2>1, <2>2, <2>3, <2>4, <2>5, <2>6, <2>8 DEF m
  <2> QED BY <2>7, <2>8
<1>2. ProbesInv => MirrorBias
  BY <1>1 DEF MirrorBias
<1> QED BY <1>2, ProbesInvariant, PTL

-----------------------------------------------------------------------------
(* The rudder follows the line.                                            *)

\* A set of positions that drifts is no longer the same, and the two
\* directions differ.
LEMMA DriftMoves ==
  ASSUME NEW S, IntSet(S), S # {}
  PROVE  S # Moved(S, 1) /\ Moved(S, -1) # Moved(S, 1)
<1> DEFINE c == Cardinality(S)
           s == SumSet(S)
<1>1. c \in Nat /\ c > 0 /\ s \in Int
  BY PositiveCount, SumSetInt
<1>2. Moved(S, 1) = Image(S, 1, 1)
  BY DEF Moved, Image, IntSet
<1>3. Moved(S, -1) = Image(S, 1, -1)
  BY DEF Moved, Image, IntSet
<1>4. SumSet(Moved(S, 1)) = 1 * s + 1 * c
  BY <1>2, ImageSum
<1>5. SumSet(Moved(S, -1)) = 1 * s + (-1) * c
  BY <1>3, ImageSum
<1>6. s # 1 * s + 1 * c /\ 1 * s + (-1) * c # 1 * s + 1 * c
  <2> HIDE DEF c, s
  <2> QED BY <1>1
<1> QED BY <1>4, <1>5, <1>6

LEMMA FarClampMonotone ==
  ASSUME NEW m \in 1..25
  PROVE  FarClamp(m + 1) >= FarClamp(m) /\ FarClamp(m) \in 1..26 /\ FarClamp(m + 1) \in 1..26
BY DEF FarClamp

\* A step of the far line to the right.
LEMMA FarStep ==
  ASSUME ProbesInv, far # {}, far' = Moved(far, 1), far' \subseteq FarBits,
         UNCHANGED near
  PROVE  Servo' >= Servo
<1> DEFINE m == MeanOf(far)
<1>1. IntSet(far)
  BY ProbeSets DEF ProbesInv
<1>2. far' # {}
  BY DEF Moved
<1>3. FarFeedback(far) = m /\ m \in 1..26
  BY FarDecoded DEF ProbesInv
<1>4. FarFeedback(far') = MeanOf(far') /\ MeanOf(far') \in 1..26
  <2>1. far' \in SUBSET FarBits
    OBVIOUS
  <2> QED BY <1>2, <2>1, FarDecoded
<1>5. MeanOf(far') = m + 1
  BY <1>1, MeanMoved
<1>6. m \in 1..25 /\ FarFeedback(far') = m + 1
  BY <1>3, <1>4, <1>5
<1>7. CASE NearFeedback(near) = Feedback("none", 0)
  <2>1. NearFeedback({}) = Feedback("none", 0)
    BY DEF NearFeedback, ThreeRow
  <2>2. Servo = FarClamp(m) * 20 + 480
    BY <1>3, <1>7, <2>1, FarServo DEF Servo
  <2>3. Servo' = FarClamp(m + 1) * 20 + 480
    BY <1>6, <1>7, <2>1, FarServo DEF Servo
  <2> HIDE DEF m
  <2> QED BY <1>6, <2>2, <2>3, FarClampMonotone
<1>8. CASE NearFeedback(near) # Feedback("none", 0)
  <2>1. NearFeedback(near) \in NearFeedbacks
    BY NearDecoded DEF ProbesInv
  <2>2. NearFeedback(near).group # "none"
    BY <1>8, <2>1 DEF NearFeedbacks, Feedback
  <2>3. ServoCommand(NearFeedback(near), m + 1) = ServoCommand(NearFeedback(near), m)
    BY <2>1, <2>2 DEF ServoCommand, NearFeedbacks, Feedback
  <2>4. Servo' = Servo
    BY <1>3, <1>6, <2>3 DEF Servo
  <2>5. Servo \in Int
    BY <1>3, <2>1, <2>2 DEF Servo, ServoCommand, NearFeedbacks, Feedback
  <2> QED BY <2>4, <2>5
<1> QED BY <1>7, <1>8

\* A step of the line under the row of six to the right.
LEMMA NearStep ==
  ASSUME near # {}, near \subseteq SixRow, near' = Moved(near, 1),
         near' \subseteq SixRow
  PROVE  Servo' >= Servo
<1> DEFINE m == MeanOf(near')
<1>1. near' # {}
  BY DEF Moved
<1>2. NearFeedback(near) = Feedback("six", m) /\ m \in 1..6
  BY SixMean
<1>3. NearFeedback(near') = Feedback("six", MeanOf(Moved(near', 1)))
  BY <1>1, SixMean
<1>4. MeanOf(Moved(near', 1)) = m + 1
  <2>1. IntSet(near')
    <3>1. near' \subseteq 0..26
      BY DEF SixRow
    <3> QED BY <3>1, ProbeSets
  <2> QED BY <1>1, <2>1, MeanMoved
<1>5. \A f, k : ServoCommand(Feedback("six", k), f) = k * 40 + 560
  BY DEF ServoCommand, Feedback
<1>6. Servo = m * 40 + 560 /\ Servo' = (m + 1) * 40 + 560
  BY <1>2, <1>3, <1>4, <1>5 DEF Servo
<1> HIDE DEF m
<1> QED BY <1>2, <1>6

\* When the line drifts along the far row or along the row of six alone, the
\* rudder never turns the other way (control_app.c:52-56, 63-78).
THEOREM RudderCorrect == Spec => RudderFollows
<1>1. ASSUME ProbesInv, ProbesInv', [Next]_vars,
             \/ far # {} /\ far' = Moved(far, 1)
             \/ near # {} /\ near \subseteq SixRow /\ near' = Moved(near, 1)
      PROVE  Servo' >= Servo \/ UNCHANGED vars
  <2>1. near # {} => near # Moved(near, 1) /\ Moved(near, -1) # Moved(near, 1)
    <3>1. near \subseteq 0..26
      BY <1>1 DEF ProbesInv, NearBits
    <3> QED BY <3>1, ProbeSets, DriftMoves
  <2>2. far # {} => far # Moved(far, 1) /\ Moved(far, -1) # Moved(far, 1)
    BY <1>1, ProbeSets, DriftMoves DEF ProbesInv
  <2>3. \A S : S # {} => Moved(S, 1) # {}
    BY DEF Moved
  <2>4. ASSUME NEW by \in {-1, 1}, DriftNear(SixRow, by) PROVE Servo' >= Servo
    <3>1. near # {} /\ near \subseteq SixRow /\ near' = Moved(near, 1)
      BY <1>1, <2>2, <2>4 DEF DriftNear
    <3>2. near' = Moved(near, by) /\ near' \subseteq SixRow
      <4>1. near \cap SixRow = near /\ near \ SixRow = {}
        BY <3>1
      <4> QED BY <2>4, <4>1 DEF DriftNear
    <3>3. by = 1
      BY <2>1, <3>1, <3>2
    <3> QED BY <3>1, <3>2, <3>3, NearStep
  <2>5. ASSUME NEW by \in {-1, 1}, DriftNear(ThreeRow, by) PROVE FALSE
    <3>1. near \subseteq SixRow
      BY <1>1, <2>2, <2>5 DEF DriftNear
    <3>2. near \cap ThreeRow = {}
      BY <3>1 DEF SixRow, ThreeRow
    <3> QED BY <2>5, <3>2 DEF DriftNear
  <2>6. CASE DriftFar(1)
    BY <1>1, <2>6, FarStep DEF DriftFar
  <2>7. CASE DriftFar(-1)
    BY <1>1, <2>1, <2>2, <2>7 DEF DriftFar
  <2>8. CASE LoseLine \/ Approach \/ FindLine
    BY <1>1, <2>1, <2>2, <2>3, <2>8 DEF LoseLine, Approach, FindLine
  <2>9. CASE UNCHANGED vars
    BY <2>9
  <2> QED BY <1>1, <2>4, <2>5, <2>6, <2>7, <2>8, <2>9 DEF Next
<1>2. ProbesInv /\ ProbesInv' /\ [Next]_vars
        => [ /\ \/ far # {} /\ far' = Moved(far, 1)
                \/ near # {} /\ near \subseteq SixRow /\ near' = Moved(near, 1)
             => Servo' >= Servo ]_vars
  BY <1>1
<1> QED BY <1>2, ProbesInvariant, PTL DEF Spec, RudderFollows
=============================================================================
