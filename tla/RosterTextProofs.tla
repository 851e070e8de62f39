------------------------- MODULE RosterTextProofs -------------------------
(***************************************************************************)
(* What reading a roster does, for texts of any length and an int64 of any *)
(* width.  ParseRoster is a fold, and the entries are sums, so the proofs  *)
(* are inductions over data: they rest on sets of numbers instead of       *)
(* predicates (NatSetInduction), on the recursion that the fold and the    *)
(* sum of the community modules have a solution to (FoldExists, SumExists) *)
(* and on its value not depending on where it is taken (FoldsAgree,        *)
(* SumsAgree).  TextsAreDescribed is the result: Describes says of all     *)
(* entries what the comment on ParseRoster says.                           *)
(***************************************************************************)
EXTENDS RosterText, FiniteSetTheorems, TLAPS

---------------------------------------------------------------------------
\* Induction

\* Induction over the numbers, for a set in place of a predicate.
LEMMA NatSetInduction ==
    ASSUME NEW T, 0 \in T, \A n \in Nat : n \in T => n + 1 \in T
    PROVE  Nat \subseteq T
<1> DEFINE R == OpToRel(<, Nat)
           D == Nat \ T
<1>1. \A x, y \in Nat : <<x, y>> \in R <=> x < y
  BY DEF OpToRel
<1>2. IsWellFoundedOn(R, Nat) 
  BY NatLessThanWellFounded
<1>3. SUFFICES ASSUME D # {} PROVE FALSE
  OBVIOUS
<1>4. D \subseteq Nat
  OBVIOUS
<1> HIDE DEF R, D
<1>5. PICK x \in D : \A y \in D : ~ (<<y, x>> \in R)
  BY <1>2, <1>3, <1>4, WFMin, Zenon
<1>6. x \in Nat /\ x # 0 /\ x - 1 \in Nat /\ x - 1 < x /\ x = (x - 1) + 1
  BY DEF D
<1>7. x - 1 \notin D
  BY <1>1, <1>5, <1>6
<1>8. x \in T
  BY <1>6, <1>7 DEF D
<1> QED
  BY <1>8 DEF D

\* A set of numbers below k has a largest one, which Max finds.
LEMMA MaxOfSome ==
    ASSUME NEW k \in Nat, NEW s \in SUBSET (1 .. k), s # {}
    PROVE  Max(s) \in s /\ \A x \in s : x <= Max(s)
<1> DEFINE T == {n \in Nat : \A u \in SUBSET (1 .. n) : u # {} => \E m \in u : \A x \in u : m >= x}
<1>1. 0 \in T
  <2>1. \A u \in SUBSET (1 .. 0) : u = {}
    OBVIOUS
  <2> QED
    BY <2>1
<1>2. ASSUME NEW n \in Nat, n \in T PROVE n + 1 \in T
  <2> SUFFICES ASSUME NEW u \in SUBSET (1 .. n + 1), u # {}
               PROVE  \E m \in u : \A x \in u : m >= x
    OBVIOUS
  <2>1. CASE n + 1 \in u
    BY <2>1
  <2>2. CASE n + 1 \notin u
    <3>1. u \in SUBSET (1 .. n)
      BY <2>2
    <3> QED
      BY <1>2, <3>1
  <2> QED
    BY <2>1, <2>2
<1> HIDE DEF T
<1>3. Nat \subseteq T
  BY <1>1, <1>2, NatSetInduction
<1>4. \E m \in s : \A x \in s : m >= x
  BY <1>3 DEF T
<1>5. Max(s) \in s /\ \A x \in s : Max(s) >= x
  BY <1>4 DEF Max
<1> QED
  BY <1>5

\* Induction over texts, the last line last.
LEMMA TextInduction ==
    ASSUME NEW T, <<>> \in T, T \subseteq Seq(Line),
           \A t \in T : \A line \in Line : Append(t, line) \in T
    PROVE  Seq(Line) \subseteq T
<1> DEFINE N == {n \in Nat : \A t \in Seq(Line) : Len(t) = n => t \in T}
<1>1. 0 \in N
  <2>1. \A t \in Seq(Line) : Len(t) = 0 => t = <<>>
    OBVIOUS
  <2> QED
    BY <2>1
<1>2. ASSUME NEW n \in Nat, n \in N PROVE n + 1 \in N
  <2> SUFFICES ASSUME NEW t \in Seq(Line), Len(t) = n + 1 PROVE t \in T
    OBVIOUS
  <2> DEFINE u == [i \in 1 .. n |-> t[i]]
  <2>1. u \in Seq(Line) /\ Len(u) = n /\ t[n + 1] \in Line
    OBVIOUS
  <2>2. t = Append(u, t[n + 1])
    BY <2>1
  <2>3. u \in T
    BY <1>2, <2>1
  <2> HIDE DEF u
  <2> QED
    BY <2>1, <2>2, <2>3
<1> HIDE DEF N
<1>3. Nat \subseteq N
  BY <1>1, <1>2, NatSetInduction
<1>4. \A t \in Seq(Line) : Len(t) \in N
  BY <1>3
<1> QED
  BY <1>4 DEF N


---------------------------------------------------------------------------
\* Remainders

\* The quotient and the remainder are what they are defined to be, and the
\* only numbers that are.
LEMMA DivMod ==
    ASSUME NEW x \in Int, NEW m \in Nat, m > 0
    PROVE  /\ x \div m \in Int
           /\ x % m \in 0 .. m - 1
           /\ x = m * (x \div m) + (x % m)
OBVIOUS

LEMMA Multiples ==
    ASSUME NEW m \in Nat, m > 0, NEW k \in Int, m * k < m, -m < m * k
    PROVE  k = 0
<1>1. k >= 1 => m * k >= m
  OBVIOUS
<1>2. k <= -1 => m * k <= -m
  OBVIOUS
<1> QED
  BY <1>1, <1>2

LEMMA ModUnique ==
    ASSUME NEW x \in Int, NEW m \in Nat, m > 0, NEW q \in Int, NEW r \in 0 .. m - 1, x = m * q + r
    PROVE  x % m = r
<1> DEFINE p == x \div m
           s == x % m
<1>1. p \in Int /\ s \in 0 .. m - 1 /\ x = m * p + s
  BY DivMod
<1> HIDE DEF p, s
<1>2. m * (q - p) = m * q - m * p
  BY <1>1
<1>4. m * q \in Int /\ m * p \in Int
  BY <1>1
<1>5. m * (q - p) = s - r
  BY <1>1, <1>2, <1>4
<1>3. q - p = 0
  BY <1>1, <1>5, Multiples
<1>6. q = p
  BY <1>1, <1>3
<1>7. s = r
  BY <1>1, <1>4, <1>6
<1> QED
  BY <1>7 DEF s

\* A remainder may be taken before or after adding.
LEMMA ModAdd ==
    ASSUME NEW x \in Int, NEW b \in Int, NEW m \in Nat, m > 0
    PROVE  ((x % m) + b) % m = (x + b) % m
<1> DEFINE p == x \div m
           r == x % m
           q == (r + b) \div m
           s == (r + b) % m
<1>1. p \in Int /\ r \in 0 .. m - 1 /\ x = m * p + r
  BY DivMod
<1>2. r + b \in Int
  BY <1>1
<1>3. q \in Int /\ s \in 0 .. m - 1 /\ r + b = m * q + s
  <2> HIDE DEF r
  <2> QED
    BY <1>2, DivMod
<1> HIDE DEF p, r, q, s
<1>4. m * (p + q) = m * p + m * q /\ m * p \in Int /\ m * q \in Int /\ p + q \in Int
  BY <1>1, <1>3
<1>5. x + b = m * (p + q) + s
  BY <1>1, <1>3, <1>4
<1>6. (x + b) % m = s
  <2>1. x + b \in Int /\ p + q \in Int /\ s \in 0 .. m - 1
    BY <1>3, <1>4
  <2> QED
    BY <2>1, <1>5, ModUnique
<1> QED
  BY <1>6 DEF s, r

---------------------------------------------------------------------------
\* Sums

LEMMA OneLess ==
    ASSUME NEW S, IsFiniteSet(S), NEW n \in Nat, Cardinality(S) = n + 1, NEW x \in S
    PROVE  IsFiniteSet(S \ {x}) /\ Cardinality(S \ {x}) = n
<1>1. IsFiniteSet(S \ {x}) /\ Cardinality(S \ {x}) = Cardinality(S) - 1
  BY FS_RemoveElement
<1> QED
  BY <1>1

\* What MapThenFoldSet(+, 0, ...) is meant to satisfy: the number of one element
\* after the other is added, whichever comes first.
Some(s) == CHOOSE x \in s : TRUE
Adds(g, f, s) == IF s = {} THEN 0 ELSE f[Some(s)] + g[s \ {Some(s)}]
IsSum(g, f, S) == g = [s \in SUBSET S |-> Adds(g, f, s)]

Total(f, S) == (CHOOSE g : IsSum(g, f, S))[S]

\* There is such a function, from the small sets to the large ones.
LEMMA SumExists ==
    ASSUME NEW S, IsFiniteSet(S), NEW f
    PROVE  \E g : IsSum(g, f, S)
<1> DEFINE Upto(n) == {s \in SUBSET S : Cardinality(s) <= n}
           T == {n \in Nat : \E g : g = [s \in Upto(n) |-> Adds(g, f, s)]}
<1>0. \A s \in SUBSET S : IsFiniteSet(s) /\ Cardinality(s) \in Nat
  BY FS_Subset, FS_CardinalityType
<1>1. 0 \in T
  <2>1. \A s \in Upto(0) : s = {}
    BY <1>0, FS_EmptySet
  <2>2. [s \in Upto(0) |-> 0] = [s \in Upto(0) |-> Adds([r \in Upto(0) |-> 0], f, s)]
    BY <2>1 DEF Adds
  <2> QED
    BY <2>2
<1>2. ASSUME NEW n \in Nat, n \in T PROVE n + 1 \in T
  <2>1. PICK g : g = [s \in Upto(n) |-> Adds(g, f, s)]
    BY <1>2
  <2> DEFINE h == [s \in Upto(n + 1) |-> Adds(g, f, s)]
  <2>2. \A s \in Upto(n) : s \in Upto(n + 1)
    BY <1>0
  <2>3. \A s \in Upto(n) : h[s] = g[s]
    <3>1. \A s \in Upto(n) : g[s] = Adds(g, f, s)
      BY <2>1
    <3> QED
      BY <2>2, <3>1
  <2>4. ASSUME NEW s \in Upto(n + 1) PROVE Adds(g, f, s) = Adds(h, f, s)
    <3>1. CASE s = {}
      BY <3>1 DEF Adds
    <3>2. CASE s # {}
      <4>1. Some(s) \in s
        BY <3>2 DEF Some
      <4>2. s \ {Some(s)} \in SUBSET S /\ Cardinality(s \ {Some(s)}) = Cardinality(s) - 1
        BY <1>0, <4>1, FS_RemoveElement
      <4>3. s \ {Some(s)} \in Upto(n)
        BY <1>0, <4>2
      <4>4. h[s \ {Some(s)}] = g[s \ {Some(s)}]
        BY <2>3, <4>3
      <4> HIDE DEF h
      <4> QED
        BY <4>4 DEF Adds
    <3> QED
      BY <3>1, <3>2
  <2>5. h = [s \in Upto(n + 1) |-> Adds(h, f, s)]
    <3> DEFINE k == [s \in Upto(n + 1) |-> Adds(h, f, s)]
    <3>1. DOMAIN h = DOMAIN k /\ \A s \in DOMAIN h : h[s] = k[s]
      BY <2>4
    <3> QED
      BY <3>1, Zenon
  <2> HIDE DEF h
  <2>6. \E k : k = [s \in Upto(n + 1) |-> Adds(k, f, s)]
    BY <2>5
  <2> HIDE DEF Upto
  <2> QED
    BY <2>6
<1>3. Cardinality(S) \in T
  <2> HIDE DEF T
  <2>1. Nat \subseteq T
    BY <1>1, <1>2, NatSetInduction
  <2> QED
    BY <1>0, <2>1
<1>4. Upto(Cardinality(S)) = SUBSET S
  BY FS_Subset
<1> QED
  BY <1>3, <1>4 DEF IsSum

LEMMA TotalIsSum ==
    ASSUME NEW S, IsFiniteSet(S), NEW f
    PROVE  \E g : IsSum(g, f, S) /\ Total(f, S) = g[S]
BY SumExists DEF Total

\* Two sums over the same numbers are equal, whatever else either ranges over.
LEMMA SumsAgree ==
    ASSUME NEW S, IsFiniteSet(S), NEW f, NEW g, IsSum(g, f, S),
           NEW R, NEW e, NEW h, IsSum(h, e, R),
           NEW U \in SUBSET S, U \subseteq R, \A x \in U : f[x] = e[x]
    PROVE  g[U] = h[U]
<1> DEFINE T == {n \in Nat : \A V \in SUBSET U : Cardinality(V) = n => g[V] = h[V]}
<1>0. \A s \in SUBSET S : IsFiniteSet(s) /\ Cardinality(s) \in Nat
  BY FS_Subset, FS_CardinalityType
<1>1. 0 \in T
  <2>1. \A V \in SUBSET U : Cardinality(V) = 0 => V = {}
    BY <1>0, FS_EmptySet
  <2>2. g[{}] = 0 /\ h[{}] = 0
    BY DEF IsSum, Adds
  <2> QED
    BY <2>1, <2>2
<1>2. ASSUME NEW n \in Nat, n \in T PROVE n + 1 \in T
  <2> SUFFICES ASSUME NEW V \in SUBSET U, Cardinality(V) = n + 1 PROVE g[V] = h[V]
    OBVIOUS
  <2>1. V # {}
    BY FS_EmptySet
  <2>2. Some(V) \in V
    BY <2>1 DEF Some
  <2>3. V \ {Some(V)} \in SUBSET U /\ Cardinality(V \ {Some(V)}) = n
    BY <1>0, <2>2, OneLess
  <2>4. g[V \ {Some(V)}] = h[V \ {Some(V)}]
    BY <1>2, <2>3
  <2>5. g[V] = f[Some(V)] + g[V \ {Some(V)}]
    BY <2>1 DEF IsSum, Adds
  <2>6. h[V] = e[Some(V)] + h[V \ {Some(V)}]
    BY <2>1 DEF IsSum, Adds
  <2> QED
    BY <2>2, <2>4, <2>5, <2>6
<1> HIDE DEF T
<1>3. Nat \subseteq T
  BY <1>1, <1>2, NatSetInduction
<1>4. Cardinality(U) \in T
  BY <1>0, <1>3
<1> QED
  BY <1>4 DEF T

LEMMA SumType ==
    ASSUME NEW S, IsFiniteSet(S), NEW f, \A x \in S : f[x] \in Int,
           NEW g, IsSum(g, f, S), NEW U \in SUBSET S
    PROVE  g[U] \in Int
<1> DEFINE T == {n \in Nat : \A V \in SUBSET S : Cardinality(V) = n => g[V] \in Int}
<1>0. \A s \in SUBSET S : IsFiniteSet(s) /\ Cardinality(s) \in Nat
  BY FS_Subset, FS_CardinalityType
<1>1. 0 \in T
  <2>1. \A V \in SUBSET S : Cardinality(V) = 0 => V = {}
    BY <1>0, FS_EmptySet
  <2>2. g[{}] = 0
    BY DEF IsSum, Adds
  <2> QED
    BY <2>1, <2>2
<1>2. ASSUME NEW n \in Nat, n \in T PROVE n + 1 \in T
  <2> SUFFICES ASSUME NEW V \in SUBSET S, Cardinality(V) = n + 1 PROVE g[V] \in Int
    OBVIOUS
  <2>1. V # {}
    BY FS_EmptySet
  <2>2. Some(V) \in V
    BY <2>1 DEF Some
  <2>3. V \ {Some(V)} \in SUBSET S /\ Cardinality(V \ {Some(V)}) = n
    BY <1>0, <2>2, OneLess
  <2>4. g[V] = f[Some(V)] + g[V \ {Some(V)}]
    BY <2>1 DEF IsSum, Adds
  <2> QED
    BY <1>2, <2>2, <2>3, <2>4
<1> HIDE DEF T
<1>3. Nat \subseteq T
  BY <1>1, <1>2, NatSetInduction
<1>4. Cardinality(U) \in T
  BY <1>0, <1>3
<1> QED
  BY <1>4 DEF T

\* Which element is taken out first makes no difference.
LEMMA SumTakes ==
    ASSUME NEW S, IsFiniteSet(S), NEW f, \A x \in S : f[x] \in Int,
           NEW g, IsSum(g, f, S), NEW U \in SUBSET S
    PROVE  g[U] \in Int /\ \A x \in U : g[U] = f[x] + g[U \ {x}]
<1> DEFINE P(V) == g[V] \in Int /\ \A x \in V : g[V] = f[x] + g[V \ {x}]
           T == {n \in Nat : \A V \in SUBSET S : Cardinality(V) = n => P(V)}
<1>0. \A s \in SUBSET S : IsFiniteSet(s) /\ Cardinality(s) \in Nat
  BY FS_Subset, FS_CardinalityType
<1>1. 0 \in T
  <2>1. \A V \in SUBSET S : Cardinality(V) = 0 => V = {}
    BY <1>0, FS_EmptySet
  <2>2. g[{}] = 0
    BY DEF IsSum, Adds
  <2>3. P({})
    BY <2>2
  <2> HIDE DEF P
  <2> QED
    BY <2>1, <2>3
<1>2. ASSUME NEW n \in Nat, n \in T PROVE n + 1 \in T
  <2> HIDE DEF P
  <2> SUFFICES ASSUME NEW V \in SUBSET S, Cardinality(V) = n + 1 PROVE P(V)
    OBVIOUS
  <2> DEFINE y == Some(V)
  <2>1. V # {}
    BY FS_EmptySet
  <2>2. y \in V
    BY <2>1 DEF Some
  <2>3. \A x \in V : V \ {x} \in SUBSET S /\ Cardinality(V \ {x}) = n
    BY <1>0, OneLess
  <2>4. g[V] = f[y] + g[V \ {y}]
    BY <2>1 DEF IsSum, Adds
  <2> HIDE DEF y
  <2>5. \A x \in V : P(V \ {x})
    BY <1>2, <2>3
  <2>6. \A x \in V : f[x] \in Int /\ g[V \ {x}] \in Int
    BY <2>5 DEF P
  <2>7. ASSUME NEW x \in V, x # y PROVE g[V] = f[x] + g[V \ {x}]
    <3> DEFINE W == (V \ {x}) \ {y}
    <3>1. W = (V \ {y}) \ {x} /\ y \in V \ {x} /\ x \in V \ {y}
      BY <2>2, <2>7
    <3>2. g[V \ {x}] = f[y] + g[W]
      BY <2>5, <3>1 DEF P
    <3>3. g[V \ {y}] = f[x] + g[W]
      BY <2>2, <2>5, <3>1 DEF P
    <3>4. W \in SUBSET S
      OBVIOUS
    <3>5. g[W] \in Int
      BY <3>4, SumType
    <3> HIDE DEF W
    <3> QED
      BY <2>2, <2>4, <2>6, <3>2, <3>3, <3>5
  <2>8. g[V] \in Int
    BY SumType
  <2>9. \A x \in V : g[V] = f[x] + g[V \ {x}]
    BY <2>2, <2>4, <2>7
  <2> QED
    BY <2>8, <2>9 DEF P
<1> HIDE DEF T, P
<1>3. Nat \subseteq T
  BY <1>1, <1>2, NatSetInduction
<1>4. Cardinality(U) \in T
  BY <1>0, <1>3
<1> QED
  BY <1>4 DEF T, P

LEMMA TotalType ==
    ASSUME NEW S, IsFiniteSet(S), NEW f, \A x \in S : f[x] \in Int
    PROVE  Total(f, S) \in Int
<1>1. PICK g : IsSum(g, f, S) /\ Total(f, S) = g[S]
  BY TotalIsSum
<1> QED
  BY <1>1, SumType

\* The three laws of sums that the rest needs.
LEMMA TotalNone == ASSUME NEW f PROVE Total(f, {}) = 0
<1>1. PICK g : IsSum(g, f, {}) /\ Total(f, {}) = g[{}]
  BY FS_EmptySet, TotalIsSum
<1> QED
  BY <1>1 DEF IsSum, Adds

LEMMA TotalSame ==
    ASSUME NEW S, IsFiniteSet(S), NEW f, NEW e, \A x \in S : f[x] = e[x]
    PROVE  Total(f, S) = Total(e, S)
<1>1. PICK g : IsSum(g, f, S) /\ Total(f, S) = g[S]
  BY TotalIsSum
<1>2. PICK h : IsSum(h, e, S) /\ Total(e, S) = h[S]
  BY TotalIsSum
<1> QED
  BY <1>1, <1>2, SumsAgree

LEMMA TotalAdd ==
    ASSUME NEW S, IsFiniteSet(S), NEW x, x \notin S,
           NEW f, \A y \in S \cup {x} : f[y] \in Int
    PROVE  Total(f, S \cup {x}) = f[x] + Total(f, S)
<1> DEFINE R == S \cup {x}
<1>1. IsFiniteSet(R) /\ x \in R /\ R \ {x} = S /\ S \in SUBSET R
  BY FS_AddElement
<1>2. PICK g : IsSum(g, f, S) /\ Total(f, S) = g[S]
  BY TotalIsSum
<1>3. PICK h : IsSum(h, f, R) /\ Total(f, R) = h[R]
  BY <1>1, TotalIsSum
<1>4. h[R] = f[x] + h[R \ {x}]
  BY <1>1, <1>3, SumTakes
<1>5. h[S] = g[S]
  BY <1>1, <1>2, <1>3, SumsAgree
<1> QED
  BY <1>1, <1>2, <1>3, <1>4, <1>5

---------------------------------------------------------------------------
\* One line

\* Wrapping stays within the width, and leaves alone what already fits.
LEMMA Int64Range ==
    ASSUME NEW x \in Int
    PROVE  Int64(x) \in -Half .. Half - 1
<1>1. 2 * Half \in Nat /\ 2 * Half > 0 /\ Half \in Nat
  BY WidthAssumption
<1>2. (x + Half) % (2 * Half) \in 0 .. 2 * Half - 1
  BY <1>1
<1> QED
  BY <1>1, <1>2 DEF Int64

\* A number that fits is not changed.
LEMMA Int64Fits ==
    ASSUME NEW x \in -Half .. Half - 1
    PROVE  Int64(x) = x
<1>1. 2 * Half \in Nat /\ 2 * Half > 0 /\ Half \in Nat /\ 2 * Half = Half + Half
  BY WidthAssumption
<1>2. x + Half \in Int /\ x + Half \in 0 .. 2 * Half - 1 /\ x + Half = (2 * Half) * 0 + (x + Half)
  BY <1>1
<1>3. (x + Half) % (2 * Half) = x + Half
  <2> HIDE DEF Int64
  <2> QED
    BY <1>1, <1>2, ModUnique
<1> QED
  BY <1>1, <1>3 DEF Int64

\* It makes no difference when a sum is wrapped.
LEMMA Int64Adds ==
    ASSUME NEW a \in Int, NEW b \in Int
    PROVE  Int64(Int64(a) + b) = Int64(a + b)
<1> DEFINE m == 2 * Half
<1>1. m \in Nat /\ m > 0 /\ Half \in Nat
  BY WidthAssumption
<1> HIDE DEF m
<1>2. (((a + Half) % m) + b) % m = ((a + Half) + b) % m
  <2>1. a + Half \in Int
    BY <1>1
  <2> QED
    BY <1>1, <2>1, ModAdd
<1>3. (a + Half) % m \in Int
  <2>1. a + Half \in Int
    BY <1>1
  <2>2. (a + Half) % m \in 0 .. m - 1
    BY <1>1, <2>1, DivMod
  <2> QED
    BY <1>1, <2>2
<1>4. Int64(a) + b + Half = ((a + Half) % m) + b
  BY <1>1, <1>3 DEF Int64, m
<1>5. (a + Half) + b = a + b + Half
  BY <1>1
<1> QED
  BY <1>2, <1>4, <1>5 DEF Int64, m

\* What a line is read as.
LEMMA ReadType ==
    ASSUME NEW line \in Line
    PROVE  /\ parseLine(line).name \in Name
           /\ AtLeastZero(parseLine(line).count) \in -Half .. Half - 1
           /\ AtLeastZero(parseLine(line).count) \in Nat
<1>1. Half \in Nat /\ Half > 0 /\ TooBig \in -Half .. Half - 1
  BY WidthAssumption, TooBigAssumption
<1>2. parseLine(line).name \in Name
  BY DEF parseLine, Line, Name
<1>3. parseCount(line.count) \in -Half .. Half - 1
  BY <1>1 DEF parseCount, Line
<1>4. parseLine(line).count \in -Half .. Half - 1
  BY <1>1, <1>3 DEF parseLine
<1> QED
  BY <1>1, <1>2, <1>4 DEF AtLeastZero

LEMMA KeyType == ASSUME NEW name \in Name PROVE NameKey(name) \in Key
BY DEF NameKey, Name, Key

\* The three ways a line can go.
LEMMA ReadLineCases ==
    ASSUME NEW es, NEW line
    PROVE  LET name  == parseLine(line).name
               count == AtLeastZero(parseLine(line).count)
           IN
           \/ Blank(name) /\ ReadLine(es, line) = es
           \/ /\ ~Blank(name) /\ Listed(es, NameKey(name))
              /\ ReadLine(es, line) =
                   [i \in DOMAIN es |-> IF es[i].key = NameKey(name)
                                          THEN Merge(es[i], count) ELSE es[i]]
           \/ /\ ~Blank(name) /\ ~Listed(es, NameKey(name))
              /\ ReadLine(es, line) = AddEntry(es, name, count)
BY DEF ReadLine

WellFormed(es) ==
    /\ es \in Seq(Entry)
    /\ \A i \in DOMAIN es : es[i].count \in -Half .. Half - 1
    /\ \A i \in DOMAIN es : es[i].key = NameKey(es[i].name) /\ ~Blank(es[i].name)
    /\ \A i, j \in DOMAIN es : es[i].key = es[j].key => i = j

KeysOf(es) == {es[i].key : i \in DOMAIN es}

LEMMA MergeType ==
    ASSUME NEW entry \in Entry, NEW count \in Int
    PROVE  /\ Merge(entry, count) \in Entry
           /\ Merge(entry, count).count \in -Half .. Half - 1
           /\ Merge(entry, count).key = entry.key
           /\ Merge(entry, count).name = entry.name
<1>1. Int64(entry.count + count) \in -Half .. Half - 1
  BY Int64Range DEF Entry
<1>3. Int64(entry.count + count) \in Int
  BY <1>1, WidthAssumption
<1> DEFINE summed == [entry EXCEPT !.count = Int64(@ + count)]
<1>2. Merge(entry, count) = [summed EXCEPT !.merged = TRUE]
  BY DEF Merge
<1>4. summed \in Entry /\ summed.count = Int64(entry.count + count)
      /\ summed.key = entry.key /\ summed.name = entry.name
  BY <1>3 DEF Entry
<1> HIDE DEF summed
<1> QED
  BY <1>1, <1>2, <1>4 DEF Entry

\* One line keeps entries well formed and adds at most the key it names.
LEMMA ReadLineWellFormed ==
    ASSUME NEW es, WellFormed(es), NEW line \in Line
    PROVE  LET name == parseLine(line).name IN
           /\ WellFormed(ReadLine(es, line))
           /\ KeysOf(ReadLine(es, line)) =
                KeysOf(es) \cup IF Blank(name) THEN {} ELSE {NameKey(name)}
<1> DEFINE name  == parseLine(line).name
           count == AtLeastZero(parseLine(line).count)
           new   == ReadLine(es, line)
<1>1. /\ name \in Name /\ NameKey(name) \in Key
      /\ count \in Nat /\ count \in -Half .. Half - 1
  BY ReadType, KeyType
<1>2. CASE Blank(name) /\ new = es
  BY <1>2
<1>3. CASE /\ ~Blank(name) /\ Listed(es, NameKey(name))
           /\ new = [i \in DOMAIN es |-> IF es[i].key = NameKey(name)
                                           THEN Merge(es[i], count) ELSE es[i]]
  <2>1. \A i \in DOMAIN es :
           /\ new[i] \in Entry /\ new[i].count \in -Half .. Half - 1
           /\ new[i].key = es[i].key /\ new[i].name = es[i].name
    <3> SUFFICES ASSUME NEW i \in DOMAIN es
                 PROVE  /\ new[i] \in Entry /\ new[i].count \in -Half .. Half - 1
                        /\ new[i].key = es[i].key /\ new[i].name = es[i].name
      OBVIOUS
    <3>1. es[i] \in Entry /\ es[i].count \in -Half .. Half - 1
      BY DEF WellFormed
    <3>2. new[i] \in {es[i], Merge(es[i], count)}
      BY <1>3
    <3>3. count \in Int
      BY <1>1
    <3> HIDE DEF new, count
    <3>4. /\ Merge(es[i], count) \in Entry /\ Merge(es[i], count).count \in -Half .. Half - 1
          /\ Merge(es[i], count).key = es[i].key /\ Merge(es[i], count).name = es[i].name
      BY <3>1, <3>3, MergeType
    <3> QED
      BY <3>1, <3>2, <3>4
  <2>2. DOMAIN new = DOMAIN es
    BY <1>3
  <2>3. new \in Seq(Entry)
    BY <1>3, <2>1, <2>2 DEF WellFormed
  <2>4. NameKey(name) \in KeysOf(es)
    BY <1>3 DEF Listed, KeysOf
  <2> HIDE DEF new, name
  <2>5. KeysOf(new) = KeysOf(es)
    BY <2>1, <2>2 DEF KeysOf
  <2>6. WellFormed(new)
    BY <2>1, <2>2, <2>3 DEF WellFormed
  <2> QED
    BY <1>3, <2>4, <2>5, <2>6 DEF new, name
<1>4. CASE ~Blank(name) /\ ~Listed(es, NameKey(name)) /\ new = AddEntry(es, name, count)
  <2> DEFINE entry == [name |-> name, key |-> NameKey(name),
                       count |-> count, merged |-> FALSE]
  <2>1. entry \in Entry
    BY <1>1 DEF Entry
  <2>2. new = Append(es, entry)
    BY <1>4 DEF AddEntry
  <2>3. es \in Seq(Entry)
    BY DEF WellFormed
  <2>4. entry.key = NameKey(name) /\ entry.name = name /\ entry.count = count
    OBVIOUS
  <2> HIDE DEF entry, new
  <2>5. /\ new \in Seq(Entry) /\ DOMAIN new = DOMAIN es \cup {Len(es) + 1}
        /\ \A i \in DOMAIN es : new[i] = es[i]
        /\ new[Len(es) + 1] = entry
        /\ Len(es) + 1 \notin DOMAIN es
    BY <2>1, <2>2, <2>3
  <2>6. \A i \in DOMAIN es : es[i].key # entry.key
    BY <1>4, <2>4 DEF Listed
  <2>7. WellFormed(new)
    BY <1>1, <1>4, <2>4, <2>5, <2>6 DEF WellFormed
  <2>8. KeysOf(new) = KeysOf(es) \cup {entry.key}
    BY <2>5 DEF KeysOf
  <2> QED
    BY <1>4, <2>4, <2>7, <2>8 DEF new
<1> QED
  BY <1>2, <1>3, <1>4, ReadLineCases


---------------------------------------------------------------------------
\* ParseRoster is what its fold computes

\* What FoldLeft's function is meant to satisfy: reading the lines whose numbers
\* are in s, the last one last.
Reads(g, t, s) == IF s = {} THEN <<>> ELSE ReadLine(g[s \ {Max(s)}], t[Max(s)])
IsFold(g, t, S) == g = [s \in SUBSET S |-> Reads(g, t, s)]

\* FoldLeft is a choice among the functions that satisfy it.
LEMMA ParseRosterFolds ==
    ASSUME NEW t
    PROVE  ParseRoster(t) = (CHOOSE g : IsFold(g, t, DOMAIN t))[DOMAIN t]
BY DEF ParseRoster, FoldLeft, MapThenFoldSet, IsFold, Reads

\* There is one, from the short texts to the long ones.
LEMMA FoldExists ==
    ASSUME NEW t, NEW k \in Nat
    PROVE  \E g : IsFold(g, t, 1 .. k)
<1> DEFINE T == {n \in Nat : \E g : IsFold(g, t, 1 .. n)}
<1>1. 0 \in T
  <2>1. IsFold([s \in SUBSET (1 .. 0) |-> <<>>], t, 1 .. 0)
    <3>1. \A s \in SUBSET (1 .. 0) : s = {}
      OBVIOUS
    <3> QED
      BY <3>1 DEF IsFold, Reads
  <2> QED
    BY <2>1
<1>2. ASSUME NEW n \in Nat, n \in T PROVE n + 1 \in T
  <2>1. PICK g : IsFold(g, t, 1 .. n)
    BY <1>2
  <2> DEFINE m == n + 1
             Value(s) == IF m \in s THEN ReadLine(g[s \ {m}], t[m]) ELSE g[s]
             h == [s \in SUBSET (1 .. m) |-> Value(s)]
  <2>2. \A s \in SUBSET (1 .. n) : g[s] = Reads(g, t, s)
    BY <2>1 DEF IsFold
  <2>3. \A s \in SUBSET (1 .. n) : h[s] = g[s]
    <3>1. \A s \in SUBSET (1 .. n) : s \in SUBSET (1 .. m) /\ m \notin s
      OBVIOUS
    <3> QED
      BY <3>1
  <2>4. ASSUME NEW s \in SUBSET (1 .. m) PROVE Value(s) = Reads(h, t, s)
    <3>1. CASE m \in s
      <4>1. Max(s) = m
        <5>1. m \in Nat /\ s # {}
          BY <3>1
        <5>2. Max(s) \in s /\ \A x \in s : x <= Max(s)
          BY <5>1, MaxOfSome, Zenon
        <5> HIDE DEF h, Value
        <5>3. Max(s) \in 1 .. m /\ m <= Max(s)
          BY <3>1, <5>2
        <5> QED
          BY <5>3
      <4>2. s \ {m} \in SUBSET (1 .. n)
        OBVIOUS
      <4>3. h[s \ {m}] = g[s \ {m}]
        BY <2>3, <4>2
      <4> HIDE DEF h
      <4> QED
        BY <3>1, <4>1, <4>3 DEF Reads
    <3>2. CASE m \notin s
      <4>1. s \in SUBSET (1 .. n)
        BY <3>2
      <4>2. Value(s) = Reads(g, t, s)
        BY <2>2, <3>2, <4>1
      <4>3. ASSUME s # {} PROVE h[s \ {Max(s)}] = g[s \ {Max(s)}]
        <5>1. s \ {Max(s)} \in SUBSET (1 .. n)
          BY <4>1
        <5> HIDE DEF h
        <5> QED
          BY <2>3, <5>1
      <4> HIDE DEF h, Value
      <4> QED
        BY <4>2, <4>3 DEF Reads
    <3> QED
      BY <3>1, <3>2
  <2>5. h = [s \in SUBSET (1 .. m) |-> Reads(h, t, s)]
    <3> DEFINE k2 == [s \in SUBSET (1 .. m) |-> Reads(h, t, s)]
    <3>1. DOMAIN h = DOMAIN k2 /\ \A s \in DOMAIN h : h[s] = k2[s]
      BY <2>4
    <3> QED
      BY <3>1, Zenon
  <2>6. IsFold(h, t, 1 .. (n + 1))
    BY <2>5 DEF IsFold
  <2> HIDE DEF h
  <2> QED
    BY <2>6
<1> HIDE DEF T
<1>3. Nat \subseteq T
  BY <1>1, <1>2, NatSetInduction
<1> QED
  BY <1>3 DEF T

LEMMA ParseRosterIsFold ==
    ASSUME NEW t \in Seq(Line)
    PROVE  \E g : IsFold(g, t, 1 .. Len(t)) /\ ParseRoster(t) = g[1 .. Len(t)]
<1>1. DOMAIN t = 1 .. Len(t) /\ Len(t) \in Nat
  OBVIOUS
<1>2. \E g : IsFold(g, t, DOMAIN t)
  BY <1>1, FoldExists
<1>3. IsFold(CHOOSE g : IsFold(g, t, DOMAIN t), t, DOMAIN t)
  BY <1>2
<1> QED
  BY <1>1, <1>3, ParseRosterFolds

\* The value of the fold at the first i lines.
LEMMA FoldStep ==
    ASSUME NEW t, NEW k \in Nat, NEW g, IsFold(g, t, 1 .. k), NEW i \in Nat, i < k
    PROVE  g[1 .. (i + 1)] = ReadLine(g[1 .. i], t[i + 1])
<1>1. (1 .. (i + 1)) \in SUBSET (1 .. k) /\ (1 .. (i + 1)) # {} /\ i + 1 \in Nat
      /\ (1 .. (i + 1)) \in SUBSET (1 .. (i + 1))
  <2>1. i + 1 \in 1 .. (i + 1)
    OBVIOUS
  <2>2. i + 1 <= k
    OBVIOUS
  <2>3. (1 .. (i + 1)) \in SUBSET (1 .. k)
    BY <2>2
  <2>4. (1 .. (i + 1)) \in SUBSET (1 .. (i + 1))
    OBVIOUS
  <2> QED
    BY <2>1, <2>3, <2>4
<1>2. Max(1 .. (i + 1)) = i + 1
  <2>1. Max(1 .. (i + 1)) \in 1 .. (i + 1) /\ \A x \in 1 .. (i + 1) : x <= Max(1 .. (i + 1))
    BY <1>1, MaxOfSome, Zenon
  <2>2. i + 1 \in 1 .. (i + 1)
    OBVIOUS
  <2>3. i + 1 <= Max(1 .. (i + 1))
    BY <2>1, <2>2, Zenon
  <2> QED
    BY <2>1, <2>3
<1>3. (1 .. (i + 1)) \ {i + 1} = 1 .. i
  OBVIOUS
<1>4. g[1 .. (i + 1)] = Reads(g, t, 1 .. (i + 1))
  BY <1>1 DEF IsFold
<1> QED
  BY <1>1, <1>2, <1>3, <1>4 DEF Reads

LEMMA FoldBase ==
    ASSUME NEW t, NEW k \in Nat, NEW g, IsFold(g, t, 1 .. k)
    PROVE  g[1 .. 0] = <<>>
<1>1. (1 .. 0) \in SUBSET (1 .. k) /\ 1 .. 0 = {}
  OBVIOUS
<1> QED
  BY <1>1 DEF IsFold, Reads

\* Texts that start alike are read alike.
LEMMA FoldsAgree ==
    ASSUME NEW t, NEW k \in Nat, NEW g, IsFold(g, t, 1 .. k),
           NEW u, NEW l \in Nat, NEW h, IsFold(h, u, 1 .. l),
           NEW n \in Nat, n <= k, n <= l, \A i \in 1 .. n : t[i] = u[i]
    PROVE  g[1 .. n] = h[1 .. n]
<1> DEFINE T == {i \in Nat : i <= n => g[1 .. i] = h[1 .. i]}
<1>1. 0 \in T
  <2>1. g[1 .. 0] = <<>> /\ h[1 .. 0] = <<>>
    BY FoldBase, Zenon
  <2> QED
    BY <2>1
<1>2. ASSUME NEW i \in Nat, i \in T PROVE i + 1 \in T
  <2> SUFFICES ASSUME i + 1 <= n PROVE g[1 .. (i + 1)] = h[1 .. (i + 1)]
    OBVIOUS
  <2>1. g[1 .. i] = h[1 .. i]
    BY <1>2
  <2>2. i < k /\ i < l /\ t[i + 1] = u[i + 1]
    OBVIOUS
  <2>3. g[1 .. (i + 1)] = ReadLine(g[1 .. i], t[i + 1])
    BY <2>2, FoldStep
  <2>4. h[1 .. (i + 1)] = ReadLine(h[1 .. i], u[i + 1])
    BY <2>2, FoldStep
  <2> QED
    BY <2>1, <2>2, <2>3, <2>4
<1> HIDE DEF T
<1>3. Nat \subseteq T
  BY <1>1, <1>2, NatSetInduction
<1> QED
  BY <1>3 DEF T

\* ParseRoster, line by line.
LEMMA ParseNothing == ParseRoster(<<>>) = <<>>
<1>1. <<>> \in Seq(Line) /\ Len(<<>>) = 0
  OBVIOUS
<1>2. PICK g : IsFold(g, <<>>, 1 .. 0) /\ ParseRoster(<<>>) = g[1 .. 0]
  BY <1>1, ParseRosterIsFold
<1> QED
  BY <1>2, FoldBase

LEMMA ParseOneMore ==
    ASSUME NEW t \in Seq(Line), NEW line \in Line
    PROVE  ParseRoster(Append(t, line)) = ReadLine(ParseRoster(t), line)
<1> DEFINE u == Append(t, line)
<1>1. /\ u \in Seq(Line) /\ Len(u) = Len(t) + 1 /\ Len(t) \in Nat
      /\ \A i \in 1 .. Len(t) : t[i] = u[i]
      /\ u[Len(t) + 1] = line
  OBVIOUS
<1> HIDE DEF u
<1>2. PICK g : IsFold(g, t, 1 .. Len(t)) /\ ParseRoster(t) = g[1 .. Len(t)]
  BY ParseRosterIsFold
<1>3. PICK h : IsFold(h, u, 1 .. (Len(t) + 1)) /\ ParseRoster(u) = h[1 .. (Len(t) + 1)]
  BY <1>1, ParseRosterIsFold
<1>4. h[1 .. (Len(t) + 1)] = ReadLine(h[1 .. Len(t)], line)
  BY <1>1, <1>3, FoldStep
<1>5. g[1 .. Len(t)] = h[1 .. Len(t)]
  BY <1>1, <1>2, <1>3, FoldsAgree
<1> QED
  BY <1>2, <1>3, <1>4, <1>5 DEF u

\* The keys a text names, one line at a time.
NamedKeys(t) == {NameKey(parseLine(t[i]).name) : i \in {j \in DOMAIN t : ~Blank(parseLine(t[j]).name)}}

LEMMA NamedKeysAppend ==
    ASSUME NEW t \in Seq(Line), NEW line \in Line
    PROVE  NamedKeys(Append(t, line)) =
             NamedKeys(t) \cup IF Blank(parseLine(line).name) THEN {}
                               ELSE {NameKey(parseLine(line).name)}
<1>1. /\ DOMAIN Append(t, line) = DOMAIN t \cup {Len(t) + 1}
      /\ \A i \in DOMAIN t : Append(t, line)[i] = t[i]
      /\ Append(t, line)[Len(t) + 1] = line
  OBVIOUS
<1> QED
  BY <1>1 DEF NamedKeys

---------------------------------------------------------------------------
\* What the entries tell of the text

LinesIn(t, key) ==
    {i \in DOMAIN t : ~Blank(parseLine(t[i]).name) /\ NameKey(parseLine(t[i]).name) = key}
CountsIn(t) == [i \in DOMAIN t |-> AtLeastZero(parseLine(t[i]).count)]
FirstIn(t, key) == CHOOSE i \in LinesIn(t, key) : \A j \in LinesIn(t, key) : i <= j

\* An entry tells what the lines of its key say.
Tells(t, entry) ==
    /\ entry.name = parseLine(t[FirstIn(t, entry.key)]).name
    /\ entry.count = Int64(Total(CountsIn(t), LinesIn(t, entry.key)))
    /\ entry.merged <=> Cardinality(LinesIn(t, entry.key)) > 1

InOrder(t, es) ==
    \A i, j \in DOMAIN es : i < j => FirstIn(t, es[i].key) < FirstIn(t, es[j].key)

Describes(t, es) ==
    /\ WellFormed(es)
    /\ KeysOf(es) = NamedKeys(t)
    /\ \A i \in DOMAIN es : Tells(t, es[i])
    /\ InOrder(t, es)

\* The first line of a key is one of its lines.
LEMMA FirstIsLine ==
    ASSUME NEW t \in Seq(Line), NEW key, LinesIn(t, key) # {}
    PROVE  /\ FirstIn(t, key) \in LinesIn(t, key)
           /\ \A j \in LinesIn(t, key) : FirstIn(t, key) <= j
           /\ FirstIn(t, key) \in 1 .. Len(t)
<1> DEFINE R == OpToRel(<, Nat)
           mine == LinesIn(t, key)
<1>1. IsWellFoundedOn(R, Nat) /\ \A x, y \in Nat : <<x, y>> \in R <=> x < y
  BY NatLessThanWellFounded DEF OpToRel
<1>2. mine \subseteq 1 .. Len(t) /\ 1 .. Len(t) \subseteq Nat /\ mine \subseteq Nat
  BY DEF LinesIn
<1> HIDE DEF R, mine
<1>3. mine # {}
  BY DEF mine
<1>4. PICK x \in mine : \A y \in mine : ~ (<<y, x>> \in R)
  <2>1. IsWellFoundedOn(R, Nat)
    BY <1>1
  <2>2. mine \subseteq Nat
    BY <1>2
  <2> QED
    BY <1>3, <2>1, <2>2, WFMin, Zenon
<1>5. ASSUME NEW y \in mine PROVE x <= y
  <2>1. ~ (y < x) /\ y \in Nat /\ x \in Nat
    BY <1>1, <1>2, <1>4
  <2> QED
    BY <2>1
<1>6. FirstIn(t, key) \in mine /\ \A j \in mine : FirstIn(t, key) <= j
  BY <1>5 DEF FirstIn, mine
<1> QED
  BY <1>2, <1>6 DEF mine

\* A key has finitely many lines, none of them beyond the text.
LEMMA LinesFinite ==
    ASSUME NEW t \in Seq(Line), NEW key
    PROVE  /\ IsFiniteSet(LinesIn(t, key)) /\ LinesIn(t, key) \subseteq 1 .. Len(t)
           /\ Len(t) + 1 \notin LinesIn(t, key)
           /\ Cardinality(LinesIn(t, key)) \in Nat
<1>1. LinesIn(t, key) \subseteq 1 .. Len(t) /\ Len(t) + 1 \notin 1 .. Len(t) /\ Len(t) \in Nat
  BY DEF LinesIn
<1>2. IsFiniteSet(1 .. Len(t))
  BY <1>1, FS_Interval
<1>3. IsFiniteSet(LinesIn(t, key))
  BY <1>1, <1>2, FS_Subset
<1> QED
  BY <1>1, <1>3, FS_CardinalityType

\* What one more line changes.
LEMMA LinesAppend ==
    ASSUME NEW t \in Seq(Line), NEW line \in Line, NEW key
    PROVE  LET u    == Append(t, line)
               name == parseLine(line).name
           IN
           /\ LinesIn(u, key) = LinesIn(t, key) \cup
                IF ~Blank(name) /\ NameKey(name) = key THEN {Len(t) + 1} ELSE {}
           /\ \A i \in DOMAIN t : CountsIn(u)[i] = CountsIn(t)[i] /\ u[i] = t[i]
           /\ CountsIn(u)[Len(t) + 1] = AtLeastZero(parseLine(line).count)
           /\ u[Len(t) + 1] = line
           /\ \A i \in 1 .. Len(t) + 1 : CountsIn(u)[i] \in Nat
<1> DEFINE u == Append(t, line)
           n == Len(t) + 1
<1>1. /\ u \in Seq(Line) /\ DOMAIN u = DOMAIN t \cup {n} /\ n \in DOMAIN u
      /\ \A i \in DOMAIN t : u[i] = t[i] /\ i \in DOMAIN u
      /\ u[n] = line /\ n \notin DOMAIN t
      /\ DOMAIN u = 1 .. n
  OBVIOUS
<1>2. \A i \in DOMAIN u : u[i] \in Line
  BY <1>1
<1> HIDE DEF u, n
<1>3. LinesIn(u, key) = LinesIn(t, key) \cup
        IF ~Blank(parseLine(line).name) /\ NameKey(parseLine(line).name) = key THEN {n} ELSE {}
  BY <1>1 DEF LinesIn
<1>4. \A i \in DOMAIN u : CountsIn(u)[i] = AtLeastZero(parseLine(u[i]).count)
  BY DEF CountsIn
<1>5. \A i \in DOMAIN t : CountsIn(t)[i] = AtLeastZero(parseLine(t[i]).count)
  BY DEF CountsIn
<1>6. \A i \in DOMAIN u : CountsIn(u)[i] \in Nat
  BY <1>2, <1>4, ReadType
<1> QED
  BY <1>1, <1>3, <1>4, <1>5, <1>6 DEF u, n

\* A key that has lines already keeps its first one.
LEMMA FirstStays ==
    ASSUME NEW t \in Seq(Line), NEW line \in Line, NEW key, LinesIn(t, key) # {}
    PROVE  FirstIn(Append(t, line), key) = FirstIn(t, key)
<1> DEFINE u == Append(t, line)
<1>1. u \in Seq(Line) /\ Len(t) \in Nat
  OBVIOUS
<1>2. LinesIn(t, key) \subseteq LinesIn(u, key)
      /\ LinesIn(u, key) \subseteq LinesIn(t, key) \cup {Len(t) + 1}
  BY LinesAppend
<1> HIDE DEF u
<1>3. /\ FirstIn(t, key) \in LinesIn(t, key)
      /\ \A j \in LinesIn(t, key) : FirstIn(t, key) <= j
      /\ FirstIn(t, key) \in 1 .. Len(t)
  BY FirstIsLine
<1>4. LinesIn(u, key) # {}
  BY <1>2
<1>5. /\ FirstIn(u, key) \in LinesIn(u, key)
      /\ \A j \in LinesIn(u, key) : FirstIn(u, key) <= j
  BY <1>1, <1>4, FirstIsLine
<1>6. FirstIn(u, key) <= FirstIn(t, key)
  BY <1>2, <1>3, <1>5
<1>7. FirstIn(u, key) \in LinesIn(t, key)
  BY <1>1, <1>2, <1>3, <1>5, <1>6
<1>8. LinesIn(t, key) \subseteq 1 .. Len(t)
  BY LinesFinite
<1>9. FirstIn(t, key) <= FirstIn(u, key)
  BY <1>3, <1>7
<1> QED
  BY <1>3, <1>6, <1>7, <1>8, <1>9 DEF u

\* A key whose first line is the new one.
LEMMA FirstIsNew ==
    ASSUME NEW t \in Seq(Line), NEW line \in Line, ~Blank(parseLine(line).name),
           LinesIn(t, NameKey(parseLine(line).name)) = {}
    PROVE  FirstIn(Append(t, line), NameKey(parseLine(line).name)) = Len(t) + 1
<1> DEFINE u == Append(t, line)
           key == NameKey(parseLine(line).name)
<1>1. u \in Seq(Line)
  OBVIOUS
<1>2. LinesIn(u, key) = {Len(t) + 1}
  BY LinesAppend
<1> HIDE DEF u, key
<1>3. FirstIn(u, key) \in LinesIn(u, key)
  BY <1>1, <1>2, FirstIsLine
<1> QED
  BY <1>2, <1>3 DEF u, key

\* An entry whose key is not on the new line.
LEMMA TellsStill ==
    ASSUME NEW t \in Seq(Line), NEW line \in Line, NEW entry, Tells(t, entry),
           LinesIn(t, entry.key) # {},
           Blank(parseLine(line).name) \/ NameKey(parseLine(line).name) # entry.key
    PROVE  Tells(Append(t, line), entry)
<1> DEFINE u == Append(t, line)
           mine == LinesIn(t, entry.key)
<1> DEFINE name == parseLine(line).name
<1>0. /\ LinesIn(u, entry.key) = mine \cup
            IF ~Blank(name) /\ NameKey(name) = entry.key THEN {Len(t) + 1} ELSE {}
      /\ \A i \in DOMAIN t : CountsIn(u)[i] = CountsIn(t)[i] /\ u[i] = t[i]
  BY LinesAppend
<1>1. /\ LinesIn(u, entry.key) = mine
      /\ \A i \in DOMAIN t : CountsIn(u)[i] = CountsIn(t)[i] /\ u[i] = t[i]
  <2>1. ~(~Blank(name) /\ NameKey(name) = entry.key)
    OBVIOUS
  <2> HIDE DEF name, mine, u
  <2> QED
    BY <1>0, <2>1
<1>2. FirstIn(u, entry.key) = FirstIn(t, entry.key) /\ FirstIn(t, entry.key) \in DOMAIN t
  BY FirstStays, FirstIsLine
<1>3. Total(CountsIn(u), mine) = Total(CountsIn(t), mine)
  <2>1. IsFiniteSet(mine) /\ mine \subseteq DOMAIN t
    BY LinesFinite
  <2> HIDE DEF mine, u
  <2>2. \A i \in mine : CountsIn(u)[i] = CountsIn(t)[i]
    BY <1>1, <2>1
  <2> QED
    BY <2>1, <2>2, TotalSame
<1> HIDE DEF u
<1> QED
  BY <1>1, <1>2, <1>3 DEF Tells, u

\* An entry that the new line is added to.
LEMMA TellsMore ==
    ASSUME NEW t \in Seq(Line), NEW line \in Line, NEW entry \in Entry, Tells(t, entry),
           LinesIn(t, entry.key) # {},
           ~Blank(parseLine(line).name), NameKey(parseLine(line).name) = entry.key
    PROVE  Tells(Append(t, line), Merge(entry, AtLeastZero(parseLine(line).count)))
<1> DEFINE u == Append(t, line)
           n == Len(t) + 1
           mine == LinesIn(t, entry.key)
           count == AtLeastZero(parseLine(line).count)
           sum == Total(CountsIn(t), mine)
<1>1. /\ LinesIn(u, entry.key) = mine \cup {n}
      /\ \A i \in DOMAIN t : CountsIn(u)[i] = CountsIn(t)[i] /\ u[i] = t[i]
      /\ CountsIn(u)[n] = count
      /\ \A i \in 1 .. n : CountsIn(u)[i] \in Nat
  BY LinesAppend
<1>2. FirstIn(u, entry.key) = FirstIn(t, entry.key) /\ FirstIn(t, entry.key) \in DOMAIN t
  BY FirstStays, FirstIsLine
<1>3. IsFiniteSet(mine) /\ mine \subseteq 1 .. Len(t) /\ n \notin mine /\ Cardinality(mine) \in Nat
  BY LinesFinite
<1>4. DOMAIN t = 1 .. Len(t) /\ Len(t) \in Nat
  OBVIOUS
<1>5. mine # {} /\ count \in Nat
  BY ReadType
<1> HIDE DEF u, mine, count
<1>6. Cardinality(mine) >= 1 /\ Cardinality(mine \cup {n}) = Cardinality(mine) + 1
  BY <1>3, <1>5, FS_EmptySet, FS_AddElement
<1>7. \A i \in mine : i \in DOMAIN t /\ i \in 1 .. n
  BY <1>3, <1>4
<1>8. Total(CountsIn(u), mine) = sum
  <2>1. \A i \in mine : CountsIn(u)[i] = CountsIn(t)[i]
    BY <1>1, <1>7
  <2> QED
    BY <1>3, <2>1, TotalSame
<1>9. \A i \in mine \cup {n} : CountsIn(u)[i] \in Int
  BY <1>1, <1>4, <1>7
<1>10. Total(CountsIn(u), mine \cup {n}) = CountsIn(u)[n] + Total(CountsIn(u), mine)
  BY <1>3, <1>9, TotalAdd
<1>11. sum \in Int
  BY <1>3, <1>8, <1>9, TotalType
<1> HIDE DEF sum
<1>12. entry.count = Int64(sum)
  BY DEF Tells, sum, mine
<1>13. Int64(Int64(sum) + count) = Int64(sum + count)
  BY <1>5, <1>11, Int64Adds
<1>14. Merge(entry, count).count = Int64(entry.count + count) /\ Merge(entry, count).merged = TRUE
       /\ Merge(entry, count).name = entry.name /\ Merge(entry, count).key = entry.key
  BY DEF Merge, Entry
<1>15. Merge(entry, count).count = Int64(Total(CountsIn(u), LinesIn(u, entry.key)))
  BY <1>1, <1>5, <1>8, <1>10, <1>11, <1>12, <1>13, <1>14
<1>16. parseLine(u[FirstIn(u, entry.key)]).name = entry.name
  BY <1>1, <1>2 DEF Tells
<1>17. Cardinality(LinesIn(u, entry.key)) > 1
  BY <1>1, <1>3, <1>6
<1> HIDE DEF n
<1> QED
  BY <1>14, <1>15, <1>16, <1>17 DEF Tells, u, count

\* A new entry.
LEMMA TellsNew ==
    ASSUME NEW t \in Seq(Line), NEW line \in Line, ~Blank(parseLine(line).name),
           LinesIn(t, NameKey(parseLine(line).name)) = {},
           NEW entry, entry.name = parseLine(line).name, entry.key = NameKey(entry.name),
           entry.count = AtLeastZero(parseLine(line).count), entry.merged = FALSE
    PROVE  Tells(Append(t, line), entry)
<1> DEFINE u == Append(t, line)
           n == Len(t) + 1
<1>1. /\ LinesIn(u, entry.key) = {n} /\ u[n] = line
      /\ CountsIn(u)[n] = entry.count
  BY LinesAppend
<1>2. FirstIn(u, entry.key) = n
  BY FirstIsNew
<1>3. entry.count \in Int /\ entry.count \in -Half .. Half - 1
  BY ReadType, WidthAssumption
<1> HIDE DEF u
<1>4. Total(CountsIn(u), {n}) = entry.count
  <2>1. IsFiniteSet({}) /\ n \notin {} /\ {} \cup {n} = {n} /\ \A y \in {} \cup {n} : CountsIn(u)[y] \in Int
    BY <1>1, <1>3, FS_EmptySet
  <2>2. Total(CountsIn(u), {} \cup {n}) = CountsIn(u)[n] + Total(CountsIn(u), {})
    BY <2>1, TotalAdd
  <2>3. Total(CountsIn(u), {}) = 0
    BY TotalNone
  <2> QED
    BY <1>1, <1>3, <2>1, <2>2, <2>3
<1>5. Int64(entry.count) = entry.count
  BY <1>3, Int64Fits
<1>6. Cardinality({n}) = 1
  BY FS_Singleton
<1> HIDE DEF n
<1>7. entry.name = parseLine(u[FirstIn(u, entry.key)]).name
  BY <1>1, <1>2
<1>8. entry.count = Int64(Total(CountsIn(u), LinesIn(u, entry.key)))
  BY <1>1, <1>4, <1>5
<1>9. ~ (Cardinality(LinesIn(u, entry.key)) > 1)
  BY <1>1, <1>6
<1> QED
  BY <1>7, <1>8, <1>9 DEF Tells, u

\* A key is named exactly if it has lines.
LEMMA NamedHasLines ==
    ASSUME NEW t, NEW key
    PROVE  key \in NamedKeys(t) <=> LinesIn(t, key) # {}
BY DEF NamedKeys, LinesIn

\* Reading one more line, the entries describe one more line.
LEMMA DescribesStep ==
    ASSUME NEW t \in Seq(Line), NEW es, Describes(t, es), NEW line \in Line
    PROVE  Describes(Append(t, line), ReadLine(es, line))
<1> DEFINE u     == Append(t, line)
           name  == parseLine(line).name
           key   == NameKey(name)
           count == AtLeastZero(parseLine(line).count)
           new   == ReadLine(es, line)
           added == IF Blank(name) THEN {} ELSE {key}
<1>1. WellFormed(es) /\ KeysOf(es) = NamedKeys(t) /\ InOrder(t, es)
      /\ \A i \in DOMAIN es : Tells(t, es[i])
  BY DEF Describes
<1>2. WellFormed(new) /\ KeysOf(new) = KeysOf(es) \cup added
  BY <1>1, ReadLineWellFormed
<1>3. NamedKeys(u) = NamedKeys(t) \cup added
  BY NamedKeysAppend
<1>4. WellFormed(new) /\ KeysOf(new) = NamedKeys(u)
  BY <1>1, <1>2, <1>3
<1>5. \A i \in DOMAIN es : LinesIn(t, es[i].key) # {} /\ es[i] \in Entry
  BY <1>1, NamedHasLines DEF KeysOf, WellFormed
<1>6. \A i \in DOMAIN es : FirstIn(u, es[i].key) = FirstIn(t, es[i].key)
  BY <1>5, FirstStays
<1>7. \A i \in DOMAIN es : Blank(name) \/ key # es[i].key => Tells(u, es[i])
  BY <1>1, <1>5, TellsStill
<1>8. \A i \in DOMAIN es : ~Blank(name) /\ key = es[i].key => Tells(u, Merge(es[i], count))
  BY <1>1, <1>5, TellsMore
<1> HIDE DEF u, new, count
<1>9. CASE Blank(name) /\ new = es
  <2>1. InOrder(u, new)
    BY <1>1, <1>6, <1>9 DEF InOrder
  <2> QED
    BY <1>4, <1>7, <1>9, <2>1 DEF Describes, u, new
<1>10. CASE /\ ~Blank(name) /\ Listed(es, key)
            /\ new = [i \in DOMAIN es |-> IF es[i].key = key
                                            THEN Merge(es[i], count) ELSE es[i]]
  <2>1. DOMAIN new = DOMAIN es /\ \A i \in DOMAIN es : new[i] \in {es[i], Merge(es[i], count)}
    BY <1>10
  <2>2. count \in Int
    BY ReadType DEF count
  <2>3. \A i \in DOMAIN es : new[i].key = es[i].key
    <3>1. \A i \in DOMAIN es : Merge(es[i], count).key = es[i].key
      BY <1>5, <2>2, MergeType
    <3> QED
      BY <2>1, <3>1
  <2>4. InOrder(u, new)
    BY <1>1, <1>6, <2>1, <2>3 DEF InOrder
  <2>5. ASSUME NEW i \in DOMAIN new PROVE Tells(u, new[i])
    <3>1. CASE key = es[i].key
      BY <1>8, <1>10, <2>1, <3>1
    <3>2. CASE key # es[i].key
      BY <1>7, <1>10, <2>1, <3>2
    <3> QED
      BY <3>1, <3>2
  <2> QED
    BY <1>4, <2>4, <2>5 DEF Describes, u, new
<1>11. CASE ~Blank(name) /\ ~Listed(es, key) /\ new = AddEntry(es, name, count)
  <2> DEFINE entry == [name |-> name, key |-> key, count |-> count, merged |-> FALSE]
             n == Len(es) + 1
  <2>1. es \in Seq(Entry) /\ new = Append(es, entry)
    BY <1>1, <1>11 DEF AddEntry, WellFormed
  <2>2. /\ entry.name = name /\ entry.key = NameKey(entry.name)
        /\ entry.count = count /\ entry.merged = FALSE
    OBVIOUS
  <2>3. LinesIn(t, key) = {}
    <3>1. key \notin KeysOf(es)
      BY <1>11 DEF Listed, KeysOf
    <3> QED
      BY <1>1, <3>1, NamedHasLines
  <2>4. Tells(u, entry)
    BY <1>11, <2>2, <2>3, TellsNew DEF u, count
  <2>5. entry.key = key
    OBVIOUS
  <2> HIDE DEF entry
  <2>6. /\ DOMAIN new = DOMAIN es \cup {n} /\ n \notin DOMAIN es
        /\ \A i \in DOMAIN es : new[i] = es[i] /\ i < n /\ i \in Nat
        /\ new[n] = entry /\ n \in Nat
    BY <2>1
  <2>7. FirstIn(u, key) = Len(t) + 1
    BY <1>11, <2>3, FirstIsNew DEF u
  <2>8. \A i \in DOMAIN es : FirstIn(u, es[i].key) \in 1 .. Len(t)
    BY <1>5, <1>6, FirstIsLine
  <2>9. InOrder(u, new)
    <3> SUFFICES ASSUME NEW i \in DOMAIN new, NEW j \in DOMAIN new, i < j
                 PROVE  FirstIn(u, new[i].key) < FirstIn(u, new[j].key)
      BY DEF InOrder
    <3>1. i \in DOMAIN es
      BY <2>6
    <3>2. CASE j \in DOMAIN es
      BY <1>1, <1>6, <2>6, <3>1, <3>2 DEF InOrder
    <3>3. CASE j = n
      <4>1. new[i].key = es[i].key /\ new[j].key = key
        BY <2>5, <2>6, <3>1, <3>3
      <4>2. FirstIn(u, es[i].key) \in 1 .. Len(t) /\ Len(t) \in Nat
        BY <2>8, <3>1
      <4> QED
        BY <2>7, <4>1, <4>2
    <3> QED
      BY <2>6, <3>2, <3>3
  <2>10. \A i \in DOMAIN es : Tells(u, es[i])
    <3>1. \A i \in DOMAIN es : key # es[i].key
      BY <1>11 DEF Listed
    <3> QED
      BY <1>7, <3>1
  <2>11. \A i \in DOMAIN new : Tells(u, new[i])
    BY <2>4, <2>6, <2>10
  <2> QED
    BY <1>4, <2>9, <2>11 DEF Describes, u, new
<1>12. \/ Blank(name) /\ new = es
       \/ /\ ~Blank(name) /\ Listed(es, key)
          /\ new = [i \in DOMAIN es |-> IF es[i].key = key
                                          THEN Merge(es[i], count) ELSE es[i]]
       \/ ~Blank(name) /\ ~Listed(es, key) /\ new = AddEntry(es, name, count)
  BY ReadLineCases DEF new, count
<1> QED
  BY <1>9, <1>10, <1>11, <1>12 DEF u, new

\* THEOREM: whatever text is pasted, ParseRoster's entries are well formed, one
\* for each person it names, in the order and with the spelling of their first
\* lines, and count what their lines add up to in int64.
THEOREM TextsAreDescribed == \A t \in Seq(Line) : Describes(t, ParseRoster(t))
<1> DEFINE T == {t \in Seq(Line) : Describes(t, ParseRoster(t))}
<1>1. <<>> \in T
  <2>1. Describes(<<>>, <<>>)
    BY DEF Describes, WellFormed, KeysOf, NamedKeys, InOrder
  <2> QED
    BY <2>1, ParseNothing
<1>2. ASSUME NEW t \in T, NEW line \in Line PROVE Append(t, line) \in T
  <2>1. t \in Seq(Line) /\ Describes(t, ParseRoster(t))
    OBVIOUS
  <2>2. Describes(Append(t, line), ReadLine(ParseRoster(t), line))
    BY <2>1, DescribesStep
  <2>3. Append(t, line) \in Seq(Line)
    BY <2>1
  <2> QED
    BY <2>1, <2>2, <2>3, ParseOneMore
<1>3. T \subseteq Seq(Line)
  OBVIOUS
<1> HIDE DEF T
<1>4. Seq(Line) \subseteq T
  BY <1>1, <1>2, <1>3, TextInduction
<1> QED
  BY <1>4 DEF T

---------------------------------------------------------------------------
\* Writing and reading back

\* One entry, written as a line and read behind the entries before it.
LEMMA ReadBackLine ==
    ASSUME NEW entry \in Entry, entry.key = NameKey(entry.name), Plain(entry.name),
           entry.count \in 0 .. Half - 1,
           NEW es, ~Listed(es, entry.key)
    PROVE  LET line == [name |-> entry.name, tabbed |-> FALSE,
                        counted |-> TRUE, count |-> entry.count]
           IN  line \in Line
               /\ ReadLine(es, line) = Append(es, [entry EXCEPT !.merged = FALSE])
<1> DEFINE line == [name |-> entry.name, tabbed |-> FALSE,
                    counted |-> TRUE, count |-> entry.count]
<1>1. line \in Line
  BY DEF Line, Entry
<1>2. Half \in Nat /\ entry.name \in Name /\ entry.count \in Int /\ -Half <= 0
  BY WidthAssumption DEF Entry
<1>3. [entry.name EXCEPT !.mark = FALSE] = entry.name
  BY <1>2 DEF Plain, Name
<1>4. parseLine(line).name = entry.name
  BY <1>3 DEF parseLine
<1>5. parseLine(line).count = entry.count
  BY <1>2 DEF parseLine, parseCount
<1>6. AtLeastZero(entry.count) = entry.count
  BY <1>2 DEF AtLeastZero
<1>7. ~Blank(entry.name)
  BY DEF Plain, Blank
<1>8. [name |-> entry.name, key |-> entry.key, count |-> entry.count, merged |-> FALSE]
        = [entry EXCEPT !.merged = FALSE]
  <2>1. \A m : [name |-> entry.name, key |-> entry.key, count |-> entry.count, merged |-> m]
                 = [entry EXCEPT !.merged = m]
    BY DEF Entry
  <2> QED
    BY <2>1, Zenon
<1> HIDE DEF line
<1>9. ReadLine(es, line) = AddEntry(es, entry.name, entry.count)
  BY <1>4, <1>5, <1>6, <1>7, ReadLineCases
<1>10. AddEntry(es, entry.name, entry.count) = Append(es, [entry EXCEPT !.merged = FALSE])
  BY <1>8 DEF AddEntry
<1> QED
  BY <1>1, <1>9, <1>10 DEF line

\* Entries that are well formed survive being written out and read again, as
\* long as their names are plain and no sum has wrapped.
LEMMA ReadsBack ==
    ASSUME NEW es, WellFormed(es),
           \A i \in DOMAIN es : Plain(es[i].name) /\ es[i].count >= 0
    PROVE  ParseRoster(FormatRoster(es)) = Unmerged(es)
<1> DEFINE lineOf(i) == [name |-> es[i].name, tabbed |-> FALSE,
                         counted |-> TRUE, count |-> es[i].count]
           bare(i) == [es[i] EXCEPT !.merged = FALSE]
           Written(k) == [i \in 1 .. k |-> lineOf(i)]
           Read(k) == [i \in 1 .. k |-> bare(i)]
           T == {k \in Nat : k <= Len(es) =>
                   Written(k) \in Seq(Line) /\ ParseRoster(Written(k)) = Read(k)}
<1>0. es \in Seq(Entry) /\ DOMAIN es = 1 .. Len(es) /\ Len(es) \in Nat
  BY DEF WellFormed
<1>1. 0 \in T
  <2>1. Written(0) = <<>> /\ Read(0) = <<>> /\ <<>> \in Seq(Line)
    OBVIOUS
  <2> QED
    BY <2>1, ParseNothing
<1>2. ASSUME NEW k \in Nat, k \in T PROVE k + 1 \in T
  <2> SUFFICES ASSUME k + 1 <= Len(es)
               PROVE  /\ Written(k + 1) \in Seq(Line)
                      /\ ParseRoster(Written(k + 1)) = Read(k + 1)
    OBVIOUS
  <2> DEFINE n == k + 1
  <2>1. n \in DOMAIN es /\ \A i \in 1 .. k : i \in DOMAIN es /\ i # n
    BY <1>0
  <2>2. /\ es[n] \in Entry /\ es[n].key = NameKey(es[n].name) /\ Plain(es[n].name)
        /\ es[n].count \in 0 .. Half - 1
    <3>1. es[n] \in Entry /\ es[n].key = NameKey(es[n].name) /\ es[n].count \in -Half .. Half - 1
      BY <2>1 DEF WellFormed
    <3> QED
      BY <2>1, <3>1, WidthAssumption
  <2>3. Written(k) \in Seq(Line) /\ ParseRoster(Written(k)) = Read(k)
    BY <1>2
  <2>4. ~Listed(Read(k), es[n].key)
    <3>1. \A i \in 1 .. k : Read(k)[i].key = es[i].key
      <4>1. \A i \in 1 .. k : es[i] \in Entry
        BY <2>1 DEF WellFormed
      <4> QED
        BY <4>1 DEF Entry
    <3>2. \A i \in 1 .. k : es[i].key # es[n].key
      BY <2>1 DEF WellFormed
    <3>3. DOMAIN Read(k) = 1 .. k
      OBVIOUS
    <3> HIDE DEF Read
    <3> QED
      BY <3>1, <3>2, <3>3 DEF Listed
  <2>5. lineOf(n) \in Line /\ ReadLine(Read(k), lineOf(n)) = Append(Read(k), bare(n))
    <3> HIDE DEF Read, n
    <3> QED
      BY <2>2, <2>4, ReadBackLine
  <2>6. Written(n) = Append(Written(k), lineOf(n))
    OBVIOUS
  <2>7. Read(n) = Append(Read(k), bare(n))
    OBVIOUS
  <2> HIDE DEF Written, Read, lineOf, bare
  <2>8. ParseRoster(Append(Written(k), lineOf(n))) = ReadLine(ParseRoster(Written(k)), lineOf(n))
    BY <2>3, <2>5, ParseOneMore
  <2>9. Append(Written(k), lineOf(n)) \in Seq(Line)
    BY <2>3, <2>5
  <2> QED
    BY <2>3, <2>5, <2>6, <2>7, <2>8, <2>9
<1>3. Len(es) \in T
  <2> HIDE DEF T
  <2> QED
    BY <1>0, <1>1, <1>2, NatSetInduction
<1>4. Written(Len(es)) = FormatRoster(es) /\ Read(Len(es)) = Unmerged(es)
  BY <1>0 DEF FormatRoster, Unmerged
<1>5. ParseRoster(Written(Len(es))) = Read(Len(es))
  BY <1>0, <1>3
<1> HIDE DEF Written, Read
<1> QED
  BY <1>4, <1>5
=============================================================================
