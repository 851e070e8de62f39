---------------------------- MODULE RaffleProofs ----------------------------
(***************************************************************************)
(* Package raffle: reading a roster line by line (RosterParser), for any   *)
(* lines, any number of them and an int64 of any width, and drawing from   *)
(* it (WeightedDraw), for any pool, any prizes and any keys.               *)
(***************************************************************************)
EXTENDS RosterParser, WeightedDraw, RosterTextProofs, SequenceTheorems

---------------------------------------------------------------------------
\* Reading

ParserInv ==
    /\ text \in Seq(Lines)
    /\ entries = ParseRoster(text)

\* The entries are at all times ParseRoster of the text read so far.
LEMMA ParserReads == ParserSpec => []ParserInv
<1>1. ParserInit => ParserInv
  BY ParseNothing DEF ParserInit, ParserInv
<1>2. ParserInv /\ [ParserNext]_parserVars => ParserInv'
  <2>1. ASSUME ParserInv, NEW line \in Lines, NextLine(line) PROVE ParserInv'
    <3>1. line \in Line /\ text \in Seq(Line)
      BY <2>1, LinesAssumption DEF ParserInv
    <3>2. text' = Append(text, line) /\ entries' = ReadLine(entries, line)
      BY <2>1 DEF NextLine
    <3>3. ParseRoster(Append(text, line)) = ReadLine(ParseRoster(text), line)
      BY <3>1, ParseOneMore
    <3>4. entries' = ParseRoster(text')
      BY <2>1, <3>2, <3>3 DEF ParserInv
    <3> QED
      BY <2>1, <3>2, <3>4 DEF ParserInv
  <2>2. ASSUME ParserInv, UNCHANGED parserVars PROVE ParserInv'
    BY <2>2 DEF ParserInv, parserVars
  <2> QED
    BY <2>1, <2>2 DEF ParserNext
<1> QED
  BY <1>1, <1>2, PTL DEF ParserSpec

\* What holds of ParseRoster holds of the entries read so far.
LEMMA ParserDescribes == ParserInv => text \in Seq(Line) /\ Describes(text, entries)
BY TextsAreDescribed, LinesAssumption DEF ParserInv

\* THEOREM: entries are well formed and no count leaves the width of an int64.
THEOREM ParserTypeCorrect == ParserSpec => []ParserTypeOK
<1>1. ParserInv => ParserTypeOK
  BY ParserDescribes DEF ParserInv, ParserTypeOK, Describes, WellFormed
<1> QED
  BY <1>1, ParserReads, PTL

\* THEOREM: however long the text, everyone it names has exactly one entry.
THEOREM EveryoneOnce == ParserSpec => []OneEntryEach
<1>1. ParserInv => OneEntryEach
  BY ParserDescribes DEF OneEntryEach, Describes, WellFormed, KeysOf, NamedKeys, Usable, KeyAt
<1> QED
  BY <1>1, ParserReads, PTL

\* The definitions of RosterParser are those above, of the text read so far.
LEMMA LinesOfIsLinesIn ==
    ASSUME NEW key
    PROVE  LinesOf(key) = LinesIn(text, key) /\ FirstLine(key) = FirstIn(text, key)
<1>1. LinesOf(key) = LinesIn(text, key)
  BY DEF LinesOf, LinesIn, Usable, KeyAt
<1> QED
  BY <1>1 DEF FirstLine, FirstIn

\* MapThenSumSet over lines is their total.
LEMMA SumIsTotal ==
    ASSUME text \in Seq(Line), NEW S, IsFiniteSet(S), S \subseteq DOMAIN text
    PROVE  MapThenSumSet(CountAt, S) = Total(CountsIn(text), S)
<1> DEFINE f == CountsIn(text)
           F(g) == g = [s \in SUBSET S |-> IF s = {} THEN 0
                                           ELSE CountAt(Some(s)) + g[s \ {Some(s)}]]
<1>1. MapThenSumSet(CountAt, S) = (CHOOSE g : F(g))[S]
  BY DEF MapThenSumSet, MapThenFoldSet, Some
<1>2. ASSUME NEW g, NEW s \in SUBSET S
      PROVE  Adds(g, f, s) = IF s = {} THEN 0 ELSE CountAt(Some(s)) + g[s \ {Some(s)}]
  <2>1. s # {} => Some(s) \in DOMAIN text
    BY DEF Some
  <2>2. s # {} => f[Some(s)] = CountAt(Some(s))
    BY <2>1 DEF CountsIn, CountAt
  <2> HIDE DEF f
  <2> QED
    BY <2>2 DEF Adds
<1>3. \A g : F(g) <=> IsSum(g, f, S)
  BY <1>2 DEF IsSum
<1> HIDE DEF f
<1>4. PICK g0 : IsSum(g0, f, S)
  BY SumExists
<1>5. F(CHOOSE g : F(g))
  BY <1>3, <1>4
<1>6. IsSum(CHOOSE g : F(g), f, S)
  BY <1>3, <1>5
<1>7. PICK h : IsSum(h, f, S) /\ Total(f, S) = h[S]
  BY TotalIsSum
<1>8. (CHOOSE g : F(g))[S] = h[S]
  BY <1>6, <1>7, SumsAgree
<1> QED
  BY <1>1, <1>7, <1>8 DEF f

\* THEOREM: the first line that names a person fixes the position and the
\* spelling, and repeated names are summed in int64, whatever the width.
THEOREM RepeatsAreSummed == ParserSpec => []EntriesAreSums
<1>1. ParserInv => FirstSpellingFirst
  BY ParserDescribes, LinesOfIsLinesIn DEF FirstSpellingFirst, Describes, Tells, InOrder
<1>2. ParserInv => CountsAreSums
  <2> SUFFICES ASSUME ParserInv, NEW i \in DOMAIN entries
               PROVE  LET mine == LinesOf(entries[i].key) IN
                      /\ entries[i].count = Int64(MapThenSumSet(CountAt, mine))
                      /\ entries[i].merged <=> Cardinality(mine) > 1
    BY DEF CountsAreSums
  <2> DEFINE mine == LinesIn(text, entries[i].key)
  <2>1. text \in Seq(Line) /\ Tells(text, entries[i])
    BY ParserDescribes DEF Describes
  <2>2. LinesOf(entries[i].key) = mine
    BY LinesOfIsLinesIn
  <2>3. IsFiniteSet(mine) /\ mine \subseteq DOMAIN text
    BY <2>1, LinesFinite
  <2>4. MapThenSumSet(CountAt, mine) = Total(CountsIn(text), mine)
    BY <2>1, <2>3, SumIsTotal
  <2> QED
    BY <2>1, <2>2, <2>4 DEF Tells
<1> QED
  BY <1>1, <1>2, ParserReads, PTL DEF EntriesAreSums

\* THEOREM: what FormatRoster writes, ParseRoster reads back, as long as no
\* name ends in punctuation and no sum has wrapped.
THEOREM TextSurvives == ParserSpec => []RoundTrip
<1>1. ParserInv => RoundTrip
  BY ParserDescribes, ReadsBack DEF RoundTrip, Describes
<1> QED
  BY <1>1, ParserReads, PTL
---------------------------------------------------------------------------
\* Orders

\* Of finitely many numbers one is the smallest.
LEMMA SmallestOf ==
    ASSUME NEW S, IsFiniteSet(S), S # {}, NEW f, \A x \in S : f[x] \in Int
    PROVE  \E x \in S : \A y \in S : f[x] <= f[y]
<1> DEFINE Has(U) == \E x \in U : \A y \in U : f[x] <= f[y]
           T == {n \in Nat : \A U \in SUBSET S : Cardinality(U) = n + 1 => Has(U)}
<1>0. \A U \in SUBSET S : IsFiniteSet(U) /\ Cardinality(U) \in Nat
  BY FS_Subset, FS_CardinalityType
<1>1. 0 \in T
  <2> SUFFICES ASSUME NEW U \in SUBSET S, Cardinality(U) = 1 PROVE Has(U)
    OBVIOUS
  <2>0. IsFiniteSet(U)
    BY <1>0
  <2>1. PICK x : U = {x}
    BY <2>0, FS_Singleton, Zenon
  <2>2. f[x] \in Int
    BY <2>1
  <2> QED
    BY <2>1, <2>2
<1>2. ASSUME NEW n \in Nat, n \in T PROVE n + 1 \in T
  <2> SUFFICES ASSUME NEW U \in SUBSET S, Cardinality(U) = n + 1 + 1 PROVE Has(U)
    OBVIOUS
  <2>1. U # {}
    <3>1. Cardinality(U) # 0
      OBVIOUS
    <3> HIDE DEF Has
    <3> QED
      BY <3>1, FS_EmptySet, Zenon
  <2>2. PICK x : x \in U
    BY <2>1
  <2>3. Cardinality(U \ {x}) = n + 1
    BY <1>0, <2>2, OneLess
  <2>4. PICK y \in U \ {x} : \A z \in U \ {x} : f[y] <= f[z]
    BY <1>2, <2>3
  <2>5. f[x] \in Int /\ f[y] \in Int /\ \A z \in U : f[z] \in Int
    BY <2>2, <2>4
  <2>6. CASE f[x] <= f[y]
    BY <2>2, <2>4, <2>5, <2>6
  <2>7. CASE f[y] <= f[x]
    BY <2>2, <2>4, <2>5, <2>7
  <2> QED
    BY <2>5, <2>6, <2>7
<1>3. PICK n \in Nat : Cardinality(S) = n + 1
  <2>1. Cardinality(S) \in Nat /\ Cardinality(S) # 0
    BY <1>0, FS_EmptySet
  <2> QED
    BY <2>1
<1>4. n \in T
  <2> HIDE DEF T
  <2> QED
    BY <1>1, <1>2, NatSetInduction
<1> QED
  BY <1>3, <1>4

\* s is S in an order with the largest key first: what sort.Slice makes of it.
IsOrder(s, S, key) ==
    /\ s \in [1 .. Cardinality(S) -> S]
    /\ \A i, j \in 1 .. Cardinality(S) : s[i] = s[j] => i = j
    /\ \A i, j \in 1 .. Cardinality(S) : i < j => key[s[i]] >= key[s[j]]

LEMMA SortExists ==
    ASSUME NEW S, IsFiniteSet(S), NEW key, \A x \in S : key[x] \in Int
    PROVE  \E s : IsOrder(s, S, key)
<1> DEFINE T == {n \in Nat : \A U \in SUBSET S : Cardinality(U) = n => \E s : IsOrder(s, U, key)}
<1>0. \A U \in SUBSET S : IsFiniteSet(U) /\ Cardinality(U) \in Nat
  BY FS_Subset, FS_CardinalityType
<1>1. 0 \in T
  <2> SUFFICES ASSUME NEW U \in SUBSET S, Cardinality(U) = 0 PROVE IsOrder(<<>>, U, key)
    OBVIOUS
  <2>1. U = {} /\ <<>> \in [1 .. 0 -> {}]
    BY <1>0, FS_EmptySet
  <2> QED
    BY <2>1 DEF IsOrder
<1>2. ASSUME NEW n \in Nat, n \in T PROVE n + 1 \in T
  <2> SUFFICES ASSUME NEW U \in SUBSET S, Cardinality(U) = n + 1
               PROVE  \E s : IsOrder(s, U, key)
    OBVIOUS
  <2>1. U # {}
    BY FS_EmptySet
  <2>2. PICK x \in U : \A y \in U : key[x] <= key[y]
    BY <1>0, <2>1, SmallestOf
  <2>3. Cardinality(U \ {x}) = n
    BY <1>0, OneLess
  <2>4. PICK r : IsOrder(r, U \ {x}, key)
    BY <1>2, <2>3
  <2>5. PICK s : s = [i \in 1 .. n + 1 |-> IF i = n + 1 THEN x ELSE r[i]]
    OBVIOUS
  <2>6. /\ \A i \in 1 .. n : r[i] \in U /\ r[i] # x
        /\ \A i, j \in 1 .. n : r[i] = r[j] => i = j
        /\ \A i, j \in 1 .. n : i < j => key[r[i]] >= key[r[j]]
    BY <2>3, <2>4 DEF IsOrder
  <2>7. /\ \A i \in 1 .. n : s[i] = r[i] /\ i \in 1 .. n + 1 /\ i # n + 1
        /\ s[n + 1] = x /\ 1 .. n + 1 = 1 .. n \cup {n + 1}
    BY <2>5
  <2>8. s \in [1 .. n + 1 -> U]
    BY <2>5, <2>6
  <2>9. ASSUME NEW i \in 1 .. n + 1, NEW j \in 1 .. n + 1, s[i] = s[j] PROVE i = j
    BY <2>6, <2>7, <2>9
  <2>10. ASSUME NEW i \in 1 .. n + 1, NEW j \in 1 .. n + 1, i < j PROVE key[s[i]] >= key[s[j]]
    <3>1. i \in 1 .. n
      BY <2>10
    <3>2. CASE j \in 1 .. n
      BY <2>6, <2>7, <2>10, <3>1, <3>2
    <3>3. CASE j = n + 1
      <4>1. r[i] \in U /\ key[r[i]] \in Int /\ key[x] \in Int /\ key[x] <= key[r[i]]
        BY <2>2, <2>6, <3>1
      <4> QED
        BY <2>7, <3>1, <3>3, <4>1
    <3> QED
      BY <3>2, <3>3
  <2> QED
    BY <2>8, <2>9, <2>10 DEF IsOrder
<1>3. Cardinality(S) \in T
  <2> HIDE DEF T
  <2> QED
    BY <1>0, <1>1, <1>2, NatSetInduction
<1> QED
  BY <1>3

\* The first n of some of a set, largest key first, with nothing larger left
\* out, are the first n of the whole set in order.
LEMMA BestFirst ==
    ASSUME NEW S, IsFiniteSet(S), NEW key, \A x \in S : key[x] \in Int,
           NEW n \in Nat, NEW a \in [1 .. n -> S],
           \A i, j \in 1 .. n : a[i] = a[j] => i = j,
           \A i, j \in 1 .. n : i < j => key[a[i]] >= key[a[j]],
           \A x \in S : \/ \E i \in 1 .. n : a[i] = x
                        \/ \A i \in 1 .. n : key[a[i]] >= key[x]
    PROVE  \E s : IsOrder(s, S, key) /\ n <= Cardinality(S) /\ \A i \in 1 .. n : s[i] = a[i]
<1> DEFINE A == {a[i] : i \in 1 .. n}
           R == S \ A
           m == Cardinality(S)
<1>1. IsFiniteSet(A) /\ Cardinality(A) = n
  <2>1. IsFiniteSet(1 .. n) /\ Cardinality(1 .. n) = n
    BY FS_Interval
  <2>2. a \in [1 .. n -> A]
    OBVIOUS
  <2>3. ExistsBijection(1 .. n, A)
    BY <2>2 DEF ExistsBijection, Bijection, Injection, Surjection, IsInjective
  <2> QED
    BY <2>1, <2>3, FS_Bijection
<1>2. /\ IsFiniteSet(R) /\ Cardinality(R) = m - n /\ m \in Nat /\ m - n \in Nat
  <2>1. A \subseteq S /\ R \subseteq S /\ A = S \cap A
    OBVIOUS
  <2>2. IsFiniteSet(R) /\ Cardinality(R) \in Nat /\ m \in Nat
    BY <2>1, FS_Subset, FS_CardinalityType
  <2>3. Cardinality(R) = m - Cardinality(S \cap A)
    BY FS_Difference
  <2> QED
    BY <1>1, <2>1, <2>2, <2>3
<1>3. PICK r : IsOrder(r, R, key)
  <2>1. \A x \in R : key[x] \in Int
    OBVIOUS
  <2> QED
    BY <1>2, <2>1, SortExists
<1>4. PICK s : s = [i \in 1 .. m |-> IF i <= n THEN a[i] ELSE r[i - n]]
  OBVIOUS
<1>5. /\ \A i \in 1 .. m - n : r[i] \in R
      /\ \A i, j \in 1 .. m - n : r[i] = r[j] => i = j
      /\ \A i, j \in 1 .. m - n : i < j => key[r[i]] >= key[r[j]]
  BY <1>2, <1>3 DEF IsOrder
<1>6. \A x \in R : /\ x \in S /\ \A i \in 1 .. n : a[i] # x
                   /\ \A i \in 1 .. n : key[a[i]] >= key[x]
  OBVIOUS
<1> HIDE DEF A, R, m
<1>7. n <= m
  BY <1>2
<1>8. \A i \in 1 .. m : \/ i \in 1 .. n /\ s[i] = a[i]
                        \/ i > n /\ i - n \in 1 .. m - n /\ s[i] = r[i - n] /\ r[i - n] \in R
  BY <1>2, <1>4, <1>5
<1>9. s \in [1 .. m -> S]
  <2>1. \A i \in 1 .. m : s[i] \in S
    BY <1>6, <1>8
  <2> QED
    BY <1>4, <2>1
<1>10. ASSUME NEW i \in 1 .. m, NEW j \in 1 .. m, s[i] = s[j]
       PROVE  i = j
  <2>1. CASE i \in 1 .. n /\ s[i] = a[i]
    <3>1. j \in 1 .. n /\ s[j] = a[j]
      BY <1>6, <1>8, <1>10, <2>1
    <3> QED
      BY <1>10, <2>1, <3>1
  <2>2. CASE i > n /\ i - n \in 1 .. m - n /\ s[i] = r[i - n] /\ r[i - n] \in R
    <3>1. j > n /\ j - n \in 1 .. m - n /\ s[j] = r[j - n]
      BY <1>6, <1>8, <1>10, <2>2
    <3>2. i - n = j - n
      BY <1>5, <1>10, <2>2, <3>1
    <3> QED
      BY <3>2
  <2> QED
    BY <1>8, <2>1, <2>2
<1>11. ASSUME NEW i \in 1 .. m, NEW j \in 1 .. m, i < j
       PROVE  key[s[i]] >= key[s[j]]
  <2>1. CASE j \in 1 .. n /\ s[j] = a[j]
    <3>1. i \in 1 .. n /\ s[i] = a[i]
      BY <1>8, <1>11, <2>1
    <3> QED
      BY <1>11, <2>1, <3>1
  <2>2. CASE j > n /\ j - n \in 1 .. m - n /\ s[j] = r[j - n] /\ r[j - n] \in R
    <3>1. CASE i \in 1 .. n /\ s[i] = a[i]
      BY <1>6, <2>2, <3>1
    <3>2. CASE i > n /\ i - n \in 1 .. m - n /\ s[i] = r[i - n]
      <4>1. i - n < j - n
        BY <1>11
      <4> QED
        BY <1>5, <2>2, <3>2, <4>1
    <3> QED
      BY <1>8, <3>1, <3>2
  <2> QED
    BY <1>8, <2>1, <2>2
<1>12. IsOrder(s, S, key)
  BY <1>9, <1>10, <1>11 DEF IsOrder, m
<1>13. \A i \in 1 .. n : s[i] = a[i]
  BY <1>2, <1>4, <1>7
<1>14. n <= Cardinality(S)
  BY <1>7 DEF m
<1> QED
  BY <1>12, <1>13, <1>14, Zenon

---------------------------------------------------------------------------
\* Drawing

LEMMA EligibleFinite ==
    ASSUME NEW p \in Seq(Int)
    PROVE  IsFiniteSet(Eligible(p)) /\ Cardinality(Eligible(p)) \in Nat
<1>1. Eligible(p) \subseteq 1 .. Len(p) /\ Len(p) \in Nat
  BY DEF Eligible
<1>2. IsFiniteSet(1 .. Len(p))
  BY <1>1, FS_Interval
<1> QED
  BY <1>1, <1>2, FS_Subset, FS_CardinalityType

LEMMA TakeType ==
    ASSUME NEW p \in Seq(Int), NEW n \in Int
    PROVE  /\ Take(p, n) \in Int /\ Take(p, n) <= Cardinality(Eligible(p)) /\ Take(p, n) <= n
           /\ n >= 0 => Take(p, n) \in Nat
BY EligibleFinite DEF Take

LEMMA FirstOf ==
    ASSUME NEW S, NEW m \in Nat, NEW s \in [1 .. m -> S], NEW n \in Nat, n <= m
    PROVE  SubSeq(s, 1, n) = [i \in 1 .. n |-> s[i]]
<1>1. s \in Seq(S) /\ Len(s) = m
  OBVIOUS
<1> QED
  BY <1>1

\* A draw is the beginning of an order of the candidates.
LEMMA DrawIsBeginning ==
    ASSUME NEW p \in Seq(Int), NEW n \in Nat, n > 0, NEW key, NEW a
    PROVE  a \in Draw(p, n, key) <=>
             \E s : IsOrder(s, Eligible(p), key) /\ a = [i \in 1 .. Take(p, n) |-> s[i]]
<1> DEFINE E == Eligible(p)
           m == Cardinality(E)
           t == Take(p, n)
<1>1. m \in Nat /\ t \in Nat /\ t <= m
  BY EligibleFinite, TakeType
<1>2. \A s : IsOrder(s, E, key) <=>
        s \in SetToSeqs(E) /\ \A i, j \in DOMAIN s : i < j => key[s[i]] >= key[s[j]]
  <2> TAKE s
  <2>1. s \in SetToSeqs(E) <=>
          s \in [1 .. m -> E] /\ \A i, j \in 1 .. m : s[i] = s[j] => i = j
    BY DEF SetToSeqs
  <2>2. s \in [1 .. m -> E] => DOMAIN s = 1 .. m
    OBVIOUS
  <2> HIDE DEF E, m
  <2> QED
    BY <2>1, <2>2 DEF IsOrder, m
<1>3. Draw(p, n, key) = {SubSeq(s, 1, t) : s \in {s \in SetToSeqs(E) :
                            \A i, j \in DOMAIN s : i < j => key[s[i]] >= key[s[j]]}}
  BY DEF Draw
<1> HIDE DEF E, m, t
<1>4. \A s : IsOrder(s, E, key) => SubSeq(s, 1, t) = [i \in 1 .. t |-> s[i]]
  BY <1>1, FirstOf DEF IsOrder, m
<1>5. a \in Draw(p, n, key) <=> \E s : IsOrder(s, E, key) /\ a = SubSeq(s, 1, t)
  BY <1>2, <1>3, Zenon
<1>6. a \in Draw(p, n, key) <=>
        \E s : IsOrder(s, E, key) /\ a = [i \in 1 .. t |-> s[i]]
  BY <1>4, <1>5, Zenon
<1> QED
  BY <1>6 DEF E, t

\* A short list of the best, in order, is a draw.
LEMMA BestIsDraw ==
    ASSUME NEW p \in Seq(Int), NEW n \in Nat, n > 0,
           NEW key, \A x \in Eligible(p) : key[x] \in Int,
           NEW a \in [1 .. Take(p, n) -> Eligible(p)],
           \A i, j \in 1 .. Take(p, n) : a[i] = a[j] => i = j,
           \A i, j \in 1 .. Take(p, n) : i < j => key[a[i]] >= key[a[j]],
           \A x \in Eligible(p) : \/ \E i \in 1 .. Take(p, n) : a[i] = x
                                  \/ \A i \in 1 .. Take(p, n) : key[a[i]] >= key[x]
    PROVE  a \in Draw(p, n, key)
<1> DEFINE E == Eligible(p)
           t == Take(p, n)
<1>0. t \in Nat /\ IsFiniteSet(E)
  BY TakeType, EligibleFinite
<1>1. a \in [1 .. t -> E] /\ \A x \in E : key[x] \in Int
  OBVIOUS
<1>5. \A i, j \in 1 .. t : a[i] = a[j] => i = j
  OBVIOUS
<1>6. \A i, j \in 1 .. t : i < j => key[a[i]] >= key[a[j]]
  OBVIOUS
<1>7. \A x \in E : \/ \E i \in 1 .. t : a[i] = x
                  \/ \A i \in 1 .. t : key[a[i]] >= key[x]
  OBVIOUS
<1>2. \A s : IsOrder(s, E, key) /\ a = [i \in 1 .. t |-> s[i]] => a \in Draw(p, n, key)
  BY DrawIsBeginning
<1> HIDE DEF E, t
<1>3. PICK s : IsOrder(s, E, key) /\ t <= Cardinality(E) /\ \A i \in 1 .. t : s[i] = a[i]
  BY <1>0, <1>1, <1>5, <1>6, <1>7, BestFirst, Zenon
<1>4. a = [i \in 1 .. t |-> s[i]]
  BY <1>1, <1>3
<1> QED
  BY <1>2, <1>3, <1>4

\* Nobody is drawn twice, and all of those with diapers can be.
LEMMA DrawIsAnyone ==
    ASSUME NEW p \in Seq(Int), NEW n \in Nat, n > 0
    PROVE  UNION {Draw(p, n, key) : key \in [DOMAIN p -> Keys]}
             = {s \in [1 .. Take(p, n) -> Eligible(p)] :
                  \A i, j \in 1 .. Take(p, n) : s[i] = s[j] => i = j}
<1> DEFINE E == Eligible(p)
           t == Take(p, n)
           Wins == {s \in [1 .. t -> E] : \A i, j \in 1 .. t : s[i] = s[j] => i = j}
<1>1. /\ Cardinality(E) \in Nat /\ t \in Nat /\ t <= Cardinality(E)
  BY EligibleFinite, TakeType
<1>2. ASSUME NEW key \in [DOMAIN p -> Keys], NEW a \in Draw(p, n, key) PROVE a \in Wins
  <2>1. PICK s : IsOrder(s, E, key) /\ a = [i \in 1 .. t |-> s[i]]
    BY DrawIsBeginning
  <2>2. /\ s \in [1 .. Cardinality(E) -> E]
        /\ \A i, j \in 1 .. Cardinality(E) : s[i] = s[j] => i = j
    BY <2>1 DEF IsOrder
  <2> HIDE DEF E, t
  <2>3. \A i \in 1 .. t : i \in 1 .. Cardinality(E)
    BY <1>1
  <2> QED
    BY <2>1, <2>2, <2>3
<1>3. ASSUME NEW a \in Wins PROVE \E key \in [DOMAIN p -> Keys] : a \in Draw(p, n, key)
  <2>1. PICK k \in Keys : k \in Int
    BY NumbersAssumption
  <2>2. PICK key : key = [i \in DOMAIN p |-> k]
    OBVIOUS
  <2>3. key \in [DOMAIN p -> Keys] /\ \A x \in E : key[x] = k
    BY <2>2 DEF Eligible
  <2>4. /\ a \in [1 .. t -> E]
        /\ \A i, j \in 1 .. t : a[i] = a[j] => i = j
        /\ \A i \in 1 .. t : key[a[i]] = k
    BY <2>3
  <2>5. /\ \A x \in E : key[x] \in Int
        /\ \A i, j \in 1 .. t : i < j => key[a[i]] >= key[a[j]]
        /\ \A x \in E : \A i \in 1 .. t : key[a[i]] >= key[x]
    BY <2>1, <2>3, <2>4
  <2>6. a \in Draw(p, n, key)
    BY <2>4, <2>5, BestIsDraw
  <2> QED
    BY <2>3, <2>6
<1> HIDE DEF Wins
<1>4. UNION {Draw(p, n, key) : key \in [DOMAIN p -> Keys]} = Wins
  BY <1>2, <1>3
<1> QED
  BY <1>4 DEF Wins

---------------------------------------------------------------------------
\* The short list

\* new is array with value put in behind the first p, and the last one dropped.
Joined(array, new, value, p, last) ==
    /\ new[p + 1] = value
    /\ \A k \in 1 .. p : new[k] = array[k]
    /\ \A k \in p + 1 .. last - 1 : new[k + 1] = array[k]

LEMMA InsertedJoins ==
    ASSUME NEW t \in Nat, NEW last \in 1 .. t, NEW p \in 0 .. last - 1,
           NEW array, DOMAIN array = 1 .. t, NEW value
    PROVE  Joined(array, Inserted(array, value, p, last), value, p, last)
<1> DEFINE new == Inserted(array, value, p, last)
<1>1. \A k \in 1 .. t : new[k] = CASE k = p + 1              -> value
                                  [] k > p + 1 /\ k <= last -> array[k - 1]
                                  [] OTHER                  -> array[k]
  BY DEF Inserted
<1> HIDE DEF new
<1>2. new[p + 1] = value
  BY <1>1
<1>3. \A k \in 1 .. p : new[k] = array[k]
  BY <1>1
<1>4. \A k \in p + 1 .. last - 1 : new[k + 1] = array[k]
  <2> TAKE k \in p + 1 .. last - 1
  <2>1. /\ k + 1 \in 1 .. t /\ k + 1 # p + 1 /\ k + 1 > p + 1 /\ k + 1 <= last
        /\ (k + 1) - 1 = k
    OBVIOUS
  <2> QED
    BY <1>1, <2>1
<1> QED
  BY <1>2, <1>3, <1>4 DEF new, Joined

LEMMA InsertedType ==
    ASSUME NEW t \in Nat, NEW last \in 1 .. t, NEW p \in 0 .. last - 1,
           NEW S, NEW array \in [1 .. t -> S], NEW value \in S
    PROVE  Inserted(array, value, p, last) \in [1 .. t -> S]
<1> DEFINE new == Inserted(array, value, p, last)
<1>1. /\ new = [k \in 1 .. t |-> new[k]]
      /\ \A k \in 1 .. t : new[k] = CASE k = p + 1              -> value
                                      [] k > p + 1 /\ k <= last -> array[k - 1]
                                      [] OTHER                  -> array[k]
  BY DEF Inserted
<1> HIDE DEF new
<1>2. \A k \in 1 .. t : new[k] \in S
  BY <1>1
<1>3. new \in [1 .. t -> S]
  BY <1>1, <1>2
<1> QED
  BY <1>3 DEF new

\* There is one place for a new key, behind everything that is not smaller.
LEMMA LandingFits ==
    ASSUME NEW t \in Nat, topKey \in [1 .. t -> Int], NEW last \in 0 .. t, NEW key \in Int
    PROVE  LET p == Landing(key, last) IN
           /\ p \in 0 .. last
           /\ p = 0 \/ topKey[p] >= key
           /\ \A q \in p + 1 .. last : topKey[q] < key
<1> DEFINE Lands(p) == /\ p = 0 \/ topKey[p] >= key
                       /\ \A q \in p + 1 .. last : topKey[q] < key
           B == {q \in 1 .. last : topKey[q] >= key}
<1>1. last \in Nat /\ \A q \in 1 .. last : topKey[q] \in Int
  OBVIOUS
<1>2. \E p \in 0 .. last : Lands(p)
  <2>1. CASE B = {}
    <3>1. \A q \in 1 .. last : topKey[q] < key
      BY <1>1, <2>1
    <3> QED
      BY <1>1, <3>1
  <2>2. CASE B # {}
    <3>1. B \in SUBSET (1 .. last)
      OBVIOUS
    <3>2. Max(B) \in B /\ \A x \in B : x <= Max(B)
      <4> HIDE DEF B
      <4> QED
        BY <1>1, <2>2, <3>1, MaxOfSome
    <3>3. PICK p \in B : \A x \in B : x <= p
      BY <3>2
    <3>4. ASSUME NEW q \in p + 1 .. last PROVE topKey[q] < key
      <4>1. q \in 1 .. last /\ q \notin B
        BY <3>3
      <4> QED
        BY <1>1, <4>1
    <3>5. p \in 0 .. last /\ topKey[p] >= key
      OBVIOUS
    <3> QED
      BY <3>4, <3>5
  <2> QED
    BY <2>1, <2>2
<1>3. Landing(key, last) = CHOOSE p \in 0 .. last : Lands(p)
  BY DEF Landing
<1> HIDE DEF Lands
<1>4. Landing(key, last) \in 0 .. last /\ Lands(Landing(key, last))
  BY <1>2, <1>3
<1> QED
  BY <1>4 DEF Lands

\* The list has the f largest of the keys in d, best first, each with its own
\* candidate; a key that is not on it is no larger than any that is.
Best(idx, keys, f, t, d) ==
    /\ \A k \in 1 .. f : idx[k] \in 1 .. Len(d) /\ keys[k] = d[idx[k]]
    /\ \A j, k \in 1 .. f : j < k => idx[j] # idx[k] /\ keys[j] >= keys[k]
    /\ \A i \in 1 .. Len(d) : \/ \E k \in 1 .. f : idx[k] = i
                              \/ f = t /\ d[i] <= keys[t]

LEMMA Transitive ==
    ASSUME NEW a \in Int, NEW b \in Int, NEW c \in Int, a >= b, b >= c PROVE a >= c /\ c <= a
OBVIOUS

LEMMA NotLess == ASSUME NEW a \in Int, NEW b \in Int, a < b PROVE b >= a
OBVIOUS

LEMMA Behind ==
    ASSUME NEW p \in Nat, NEW j \in Nat, NEW k \in Nat, p + 1 <= j, j < k
    PROVE  k \notin 1 .. p /\ k # p + 1
OBVIOUS

LEMMA LengthType ==
    ASSUME NEW d \in Seq(Int)
    PROVE  Len(d) \in Nat /\ Len(d) + 1 \in Nat /\ Len(d) + 1 > 0
OBVIOUS

\* The length of the list when a key has joined it.
Longer(f, t) == IF f < t THEN f + 1 ELSE t

LEMMA BestAfterInsert ==
    ASSUME NEW t \in Nat, t > 0, NEW d \in Seq(Int), NEW f \in 0 .. t,
           NEW idx, NEW keys \in [1 .. t -> Int], Best(idx, keys, f, t, d),
           NEW key \in Int, f = t => key > keys[t],
           NEW last, last = Longer(f, t),
           NEW p \in 0 .. last - 1, p = 0 \/ keys[p] >= key,
           \A q \in p + 1 .. last - 1 : keys[q] < key,
           NEW newIdx, Joined(idx, newIdx, Len(d) + 1, p, last),
           NEW newKeys \in [1 .. t -> Int], Joined(keys, newKeys, key, p, last)
    PROVE  Best(newIdx, newKeys, last, t, Append(d, key))
<1> DEFINE n == Len(d) + 1
           u == Append(d, key)
<1>1. /\ last \in 1 .. t /\ last - 1 <= f /\ p \in Nat /\ n \in Nat /\ n > 0
      /\ f < t => last - 1 = f
      /\ f = t => last = t
  <2>1. f < t => last = f + 1
    BY DEF Longer
  <2>2. ~(f < t) => last = t /\ f = t
    BY DEF Longer
  <2>3. Len(d) \in Nat /\ n \in Nat /\ n > 0
    BY LengthType, Zenon
  <2>4. last \in 1 .. t /\ last - 1 <= f /\ (f < t => last - 1 = f) /\ (f = t => last = t)
    BY <2>1, <2>2
  <2> QED
    BY <2>3, <2>4
<1>2. /\ newIdx[p + 1] = n
      /\ \A k \in 1 .. p : newIdx[k] = idx[k]
      /\ \A k \in p + 1 .. last - 1 : newIdx[k + 1] = idx[k]
  BY DEF Joined
<1>3. /\ newKeys \in [1 .. t -> Int]
      /\ newKeys[p + 1] = key
      /\ \A k \in 1 .. p : newKeys[k] = keys[k]
      /\ \A k \in p + 1 .. last - 1 : newKeys[k + 1] = keys[k]
  BY DEF Joined
<1>4. /\ Len(u) = n /\ u[n] = key /\ \A i \in 1 .. Len(d) : u[i] = d[i] /\ i \in 1 .. n /\ i # n
      /\ \A i \in 1 .. n : i \in 1 .. Len(d) \/ i = n
      /\ n \in 1 .. n
  OBVIOUS
<1>5. /\ \A k \in 1 .. f : idx[k] \in 1 .. Len(d) /\ keys[k] = d[idx[k]]
      /\ \A j, k \in 1 .. f : j < k => idx[j] # idx[k] /\ keys[j] >= keys[k]
      /\ \A i \in 1 .. Len(d) : \/ \E k \in 1 .. f : idx[k] = i
                                \/ f = t /\ d[i] <= keys[t]
  BY DEF Best
<1>6. \A k \in 1 .. t : keys[k] \in Int
  OBVIOUS
<1> HIDE DEF n, u
<1>7. /\ \A k \in 1 .. p : k \in 1 .. f /\ newIdx[k] = idx[k] /\ newKeys[k] = keys[k]
      /\ \A k \in p + 1 .. last - 1 :
            /\ k \in 1 .. f /\ k + 1 \in 1 .. last
            /\ newIdx[k + 1] = idx[k] /\ newKeys[k + 1] = keys[k]
  <2>1. \A k \in 1 .. p : k \in 1 .. f
    BY <1>1
  <2>2. \A k \in p + 1 .. last - 1 : k \in 1 .. f /\ k + 1 \in 1 .. last
    BY <1>1
  <2> QED
    BY <1>2, <1>3, <2>1, <2>2
<1>8. ASSUME NEW k \in 1 .. last
      PROVE  \/ k \in 1 .. p
             \/ k = p + 1
             \/ \E l \in p + 1 .. last - 1 : k = l + 1
  <2>1. k > p + 1 => k - 1 \in p + 1 .. last - 1 /\ k = (k - 1) + 1
    BY <1>1
  <2>2. k <= p => k \in 1 .. p
    BY <1>1
  <2> QED
    BY <1>1, <2>1, <2>2
<1>9. ASSUME NEW k \in 1 .. last
      PROVE  newIdx[k] \in 1 .. Len(u) /\ newKeys[k] = u[newIdx[k]]
  <2>1. \A l \in 1 .. f : idx[l] \in 1 .. Len(u) /\ keys[l] = u[idx[l]]
    BY <1>4, <1>5
  <2>2. CASE k \in 1 .. p
    BY <1>7, <2>1, <2>2
  <2>3. CASE k = p + 1
    BY <1>2, <1>3, <1>4, <2>3
  <2>4. ASSUME NEW l \in p + 1 .. last - 1, k = l + 1
        PROVE  newIdx[k] \in 1 .. Len(u) /\ newKeys[k] = u[newIdx[k]]
    <3>1. l \in 1 .. f /\ newIdx[l + 1] = idx[l] /\ newKeys[l + 1] = keys[l]
      BY <1>7
    <3> QED
      BY <2>1, <2>4, <3>1
  <2> QED
    BY <1>8, <2>2, <2>3, <2>4
<1>10. ASSUME NEW j \in 1 .. last, NEW k \in 1 .. last, j < k
       PROVE  newIdx[j] # newIdx[k] /\ newKeys[j] >= newKeys[k]
  <2>1. \A l \in 1 .. f : idx[l] # n
    BY <1>4, <1>5
  <2>2. CASE j \in 1 .. p
    <3>1. newIdx[j] = idx[j] /\ newKeys[j] = keys[j] /\ j \in 1 .. f /\ keys[j] \in Int
      BY <1>7, <2>2
    <3>2. CASE k \in 1 .. p
      <4>1. newIdx[k] = idx[k] /\ newKeys[k] = keys[k] /\ k \in 1 .. f
        BY <1>7, <3>2
      <4> QED
        BY <1>5, <1>10, <3>1, <4>1
    <3>3. CASE k = p + 1
      <4>1. newIdx[k] = n /\ newKeys[k] = key
        BY <1>2, <1>3, <3>3
      <4>2. p \in 1 .. f /\ keys[p] \in Int /\ keys[p] >= key /\ j <= p
        BY <1>1, <1>6, <1>7, <2>2
      <4>3. keys[j] >= keys[p]
        <5>1. CASE j = p
          BY <4>2, <5>1
        <5>2. CASE j < p
          BY <1>5, <3>1, <4>2, <5>2
        <5> QED
          BY <4>2, <5>1, <5>2
      <4>4. keys[j] >= key
        BY <3>1, <4>2, <4>3, Transitive
      <4>5. idx[j] # n
        BY <2>1, <3>1
      <4> QED
        BY <3>1, <4>1, <4>4, <4>5
    <3>4. ASSUME NEW l \in p + 1 .. last - 1, k = l + 1
          PROVE  newIdx[j] # newIdx[k] /\ newKeys[j] >= newKeys[k]
      <4>1. newIdx[l + 1] = idx[l] /\ newKeys[l + 1] = keys[l] /\ l \in 1 .. f
        BY <1>7
      <4>2. j < l
        BY <1>1, <2>2
      <4> QED
        BY <1>5, <3>1, <3>4, <4>1, <4>2
    <3> QED
      BY <1>8, <3>2, <3>3, <3>4
  <2>3. ASSUME NEW l \in p + 1 .. last - 1, k = l + 1, j = p + 1
        PROVE  newIdx[j] # newIdx[k] /\ newKeys[j] >= newKeys[k]
    <3>1. newIdx[l + 1] = idx[l] /\ newKeys[l + 1] = keys[l] /\ l \in 1 .. f
      BY <1>7
    <3>2. keys[l] < key /\ keys[l] \in Int
      BY <1>6, <3>1
    <3>3. newIdx[j] = n /\ newKeys[j] = key
      BY <1>2, <1>3, <2>3
    <3>4. idx[l] # n
      BY <2>1, <3>1
    <3>5. key >= keys[l]
      BY <3>2, NotLess, Zenon
    <3> QED
      BY <2>3, <3>1, <3>3, <3>4, <3>5
  <2>4. ASSUME NEW l \in p + 1 .. last - 1, k = l + 1,
               NEW h \in p + 1 .. last - 1, j = h + 1
        PROVE  newIdx[j] # newIdx[k] /\ newKeys[j] >= newKeys[k]
    <3>1. /\ newIdx[l + 1] = idx[l] /\ newKeys[l + 1] = keys[l] /\ l \in 1 .. f
          /\ newIdx[h + 1] = idx[h] /\ newKeys[h + 1] = keys[h] /\ h \in 1 .. f
      BY <1>7
    <3>2. h < l
      BY <1>1, <1>10, <2>4
    <3> QED
      BY <1>5, <2>4, <3>1, <3>2
  <2>5. CASE j \notin 1 .. p
    <3>0. j > p /\ j \in Nat /\ k \in Nat
      BY <1>1, <2>5
    <3>3. p + 1 <= j /\ j < k /\ p \in Nat
      BY <1>1, <1>10, <3>0
    <3>1. k \notin 1 .. p /\ k # p + 1
      BY <3>0, <3>3, Behind, Zenon
    <3>2. PICK l \in p + 1 .. last - 1 : k = l + 1
      BY <1>8, <3>1
    <3> QED
      BY <1>8, <2>3, <2>4, <2>5, <3>2
  <2> QED
    BY <2>2, <2>5
<1>11. ASSUME NEW i \in 1 .. Len(u)
       PROVE  \/ \E k \in 1 .. last : newIdx[k] = i
              \/ last = t /\ u[i] <= newKeys[t]
  <2>1. CASE i = n
    BY <1>1, <1>2, <2>1
  <2>2. ASSUME NEW k \in 1 .. last - 1, idx[k] = i
        PROVE  \E l \in 1 .. last : newIdx[l] = i
    <3>1. CASE k \in 1 .. p
      <4>1. k \in 1 .. last
        BY <1>1
      <4>2. newIdx[k] = i
        BY <1>7, <2>2, <3>1
      <4> QED
        BY <4>1, <4>2
    <3>2. CASE k \in p + 1 .. last - 1
      BY <1>7, <2>2, <3>2
    <3> QED
      BY <1>1, <3>1, <3>2
  <2>3. CASE i \in 1 .. Len(d) /\ f < t
    <3>1. PICK k \in 1 .. f : idx[k] = i
      BY <1>5, <2>3
    <3>2. last - 1 = f
      BY <1>1, <2>3
    <3> QED
      BY <2>2, <3>1, <3>2
  <2>4. CASE i \in 1 .. Len(d) /\ f = t
    <3>1. last = t /\ u[i] = d[i] /\ key > keys[t] /\ keys[t] \in Int /\ t \in 1 .. t
      BY <1>1, <1>4, <2>4
    <3>2. newKeys[t] >= keys[t] /\ newKeys[t] \in Int
      <4>1. CASE t = p + 1
        BY <1>3, <3>1, <4>1
      <4>2. ASSUME NEW l \in p + 1 .. last - 1, t = l + 1
            PROVE  newKeys[t] >= keys[t]
        <5>1. newKeys[l + 1] = keys[l] /\ l \in 1 .. f /\ t \in 1 .. f /\ l < t
          BY <1>7, <2>4, <3>1, <4>2
        <5> QED
          BY <1>5, <4>2, <5>1
      <4>3. t \notin 1 .. p /\ t \in 1 .. last
        BY <1>1, <3>1
      <4>5. newKeys[t] \in Int
        BY <1>3, <3>1
      <4>4. newKeys[t] >= keys[t]
        BY <1>8, <4>1, <4>2, <4>3
      <4> QED
        BY <4>4, <4>5
    <3>3. ASSUME NEW k \in 1 .. f, idx[k] = i
          PROVE  \/ k \in 1 .. last - 1
                 \/ d[i] <= keys[t]
      <4>1. CASE k = t
        BY <1>5, <3>1, <3>3, <4>1
      <4>2. CASE k # t
        BY <2>4, <3>1, <4>2
      <4> QED
        BY <4>1, <4>2
    <3>4. CASE d[i] <= keys[t]
      <4>1. d[i] \in Int
        BY <2>4
      <4>2. u[i] \in Int /\ u[i] <= keys[t]
        BY <3>1, <3>4, <4>1
      <4>3. u[i] <= newKeys[t]
        BY <3>1, <3>2, <4>2, Transitive
      <4> QED
        BY <3>1, <4>3
    <3> QED
      BY <1>5, <2>2, <2>4, <3>3, <3>4
  <2> QED
    BY <1>4, <2>1, <2>3, <2>4
<1>12. Best(newIdx, newKeys, last, t, u)
  BY <1>9, <1>10, <1>11 DEF Best
<1> QED
  BY <1>12 DEF u

\* A key that is not larger than the last of a full list changes nothing.
LEMMA BestWithout ==
    ASSUME NEW t \in Nat, t > 0, NEW d \in Seq(Int), NEW idx, NEW keys, Best(idx, keys, t, t, d),
           NEW key \in Int, key <= keys[t]
    PROVE  Best(idx, keys, t, t, Append(d, key))
<1>1. /\ Len(Append(d, key)) = Len(d) + 1 /\ Append(d, key)[Len(d) + 1] = key
      /\ \A i \in 1 .. Len(d) : Append(d, key)[i] = d[i] /\ i \in 1 .. Len(d) + 1
      /\ \A i \in 1 .. Len(d) + 1 : i \in 1 .. Len(d) \/ i = Len(d) + 1
  OBVIOUS
<1> QED
  BY <1>1 DEF Best

---------------------------------------------------------------------------
\* Hits

LEMMA SetInduction ==
    ASSUME NEW S, IsFiniteSet(S), NEW T, {} \in T,
           \A U \in SUBSET S : \A x \in S \ U : U \in T => U \cup {x} \in T
    PROVE  S \in T
<1> DEFINE N == {n \in Nat : \A U \in SUBSET S : Cardinality(U) = n => U \in T}
<1>0. \A U \in SUBSET S : IsFiniteSet(U) /\ Cardinality(U) \in Nat
  BY FS_Subset, FS_CardinalityType
<1>1. 0 \in N
  <2>1. \A U \in SUBSET S : Cardinality(U) = 0 => U = {}
    BY <1>0, FS_EmptySet
  <2> QED
    BY <2>1
<1>2. ASSUME NEW n \in Nat, n \in N PROVE n + 1 \in N
  <2> SUFFICES ASSUME NEW U \in SUBSET S, Cardinality(U) = n + 1 PROVE U \in T
    OBVIOUS
  <2>1. U # {}
    <3>1. Cardinality(U) # 0
      OBVIOUS
    <3> QED
      BY <3>1, FS_EmptySet, Zenon
  <2>2. PICK x : x \in U
    BY <2>1
  <2>3. Cardinality(U \ {x}) = n
    BY <1>0, <2>2, OneLess
  <2>4. U \ {x} \in T
    BY <1>2, <2>3
  <2>5. U \ {x} \in SUBSET S /\ x \in S \ (U \ {x}) /\ (U \ {x}) \cup {x} = U
    BY <2>2
  <2> QED
    BY <2>4, <2>5
<1>3. Cardinality(S) \in N
  <2> HIDE DEF N
  <2> QED
    BY <1>0, <1>1, <1>2, NatSetInduction
<1> QED
  BY <1>3

LEMMA TotalZero ==
    ASSUME NEW S, IsFiniteSet(S), NEW f, \A x \in S : f[x] = 0
    PROVE  Total(f, S) = 0
<1> DEFINE T == {U \in SUBSET S : Total(f, U) = 0}
<1>1. {} \in T
  BY TotalNone
<1>2. ASSUME NEW U \in SUBSET S, NEW x \in S \ U, U \in T PROVE U \cup {x} \in T
  <2>1. Total(f, U \cup {x}) = f[x] + Total(f, U)
    <3>1. IsFiniteSet(U) /\ x \notin U /\ \A y \in U \cup {x} : f[y] \in Int
      BY FS_Subset
    <3> QED
      BY <3>1, TotalAdd
  <2> QED
    BY <1>2, <2>1
<1>3. S \in T
  <2> HIDE DEF T
  <2> QED
    BY <1>1, <1>2, SetInduction
<1> QED
  BY <1>3

\* One more for everybody in H adds as many as H has.
LEMMA TotalMore ==
    ASSUME NEW S, IsFiniteSet(S), NEW H \in SUBSET S,
           NEW f, \A x \in S : f[x] \in Int,
           NEW g, \A x \in S : g[x] = IF x \in H THEN f[x] + 1 ELSE f[x]
    PROVE  Total(g, S) = Total(f, S) + Cardinality(H)
<1> DEFINE T == {U \in SUBSET S : Total(g, U) = Total(f, U) + Cardinality(U \cap H)}
<1>0. \A U \in SUBSET S : /\ IsFiniteSet(U) /\ IsFiniteSet(U \cap H)
                          /\ Cardinality(U \cap H) \in Nat
  BY FS_Subset, FS_CardinalityType
<1>1. {} \in T
  <2>1. {} \cap H = {} /\ Cardinality({}) = 0
    BY FS_EmptySet
  <2> QED
    BY <2>1, TotalNone
<1>2. ASSUME NEW U \in SUBSET S, NEW x \in S \ U, U \in T PROVE U \cup {x} \in T
  <2> DEFINE V == U \cup {x}
  <2>1. /\ IsFiniteSet(U) /\ x \notin U
        /\ \A y \in V : f[y] \in Int /\ g[y] \in Int
    <3>1. IsFiniteSet(U) /\ x \notin U /\ V \subseteq S
      BY <1>0
    <3>2. \A y \in S : f[y] \in Int /\ g[y] \in Int
      OBVIOUS
    <3> QED
      BY <3>1, <3>2
  <2>2. Total(f, V) = f[x] + Total(f, U) /\ Total(g, V) = g[x] + Total(g, U)
    BY <2>1, TotalAdd
  <2>3. Total(f, U) \in Int /\ Total(g, U) \in Int
    BY <2>1, TotalType
  <2>4. CASE x \in H
    <3>1. V \cap H = (U \cap H) \cup {x} /\ x \notin U \cap H
      BY <2>4
    <3>2. Cardinality(V \cap H) = Cardinality(U \cap H) + 1
      BY <1>0, <3>1, FS_AddElement
    <3>3. g[x] = f[x] + 1 /\ f[x] \in Int
      BY <2>4
    <3>4. Total(g, U) = Total(f, U) + Cardinality(U \cap H)
      BY <1>2
    <3>6. Cardinality(U \cap H) \in Nat
      BY <1>0, Zenon
    <3>7. (f[x] + 1) + (Total(f, U) + Cardinality(U \cap H))
            = (f[x] + Total(f, U)) + (Cardinality(U \cap H) + 1)
      BY <2>3, <3>3, <3>6
    <3>5. Total(g, V) = Total(f, V) + Cardinality(V \cap H)
      BY <2>2, <3>2, <3>3, <3>4, <3>7, Zenon
    <3> QED
      BY <3>5
  <2>5. CASE x \notin H
    <3>1. V \cap H = U \cap H
      BY <2>5
    <3>3. g[x] = f[x] /\ f[x] \in Int
      BY <2>5
    <3>4. Total(g, U) = Total(f, U) + Cardinality(U \cap H)
      BY <1>2
    <3>5. Total(g, V) = Total(f, V) + Cardinality(V \cap H)
      BY <1>0, <2>2, <2>3, <3>1, <3>3, <3>4
    <3> QED
      BY <3>5
  <2> QED
    BY <2>4, <2>5
<1>3. S \in T
  <2> HIDE DEF T
  <2> QED
    BY <1>1, <1>2, SetInduction
<1>4. S \cap H = H
  OBVIOUS
<1> QED
  BY <1>3, <1>4

\* The fold that adds up a sequence is its total.
LEMMA FoldIsTotal == ASSUME NEW f PROVE FoldSeq(+, 0, f) = Total(f, DOMAIN f)
BY DEF FoldSeq, FoldFunction, FoldFunctionOnSet, MapThenFoldSet, Total, IsSum, Adds, Some

---------------------------------------------------------------------------
\* Odds

LEMMA PoolType ==
    ASSUME pool \in Pools, prizes \in Prizes
    PROVE  /\ pool \in Seq(Int) /\ prizes \in Int
           /\ IsFiniteSet(Eligible(pool)) /\ entrants \in Nat
           /\ take \in Int /\ take <= entrants /\ take <= prizes
           /\ take > 0 => take \in Nat /\ prizes \in Nat /\ prizes > 0
<1>1. pool \in Seq(Int) /\ prizes \in Int
  BY PoolsAssumption, NumbersAssumption
<1>2. IsFiniteSet(Eligible(pool)) /\ entrants \in Nat
  BY <1>1, EligibleFinite DEF entrants
<1>3. take \in Int /\ take <= entrants /\ take <= prizes
  BY <1>1, TakeType DEF take, entrants
<1> QED
  BY <1>1, <1>2, <1>3

\* How much of the arrays is used after so many candidates.
Shorter(n, t) == IF n < t THEN n ELSE t

\* The list is the best of the keys so far, and every finished draw has scored
\* for take candidates.
SimInv ==
    /\ pool \in Pools /\ prizes \in Prizes
    /\ run \in 0 .. Runs /\ next \in 1 .. entrants + 1
    /\ drawn \in Seq(Keys) /\ Len(drawn) = next - 1
    /\ topKey \in [1 .. take -> Int] /\ topIdx \in [1 .. take -> 0 .. entrants]
    /\ take <= 0 => filled = 0
    /\ take > 0 => /\ filled = Shorter(next - 1, take)
                   /\ Best(topIdx, topKey, filled, take, drawn)
    /\ hits \in [1 .. entrants -> 0 .. run]
    /\ Total(hits, 1 .. entrants) = run * take

LEMMA SimStarts == Init => SimInv
<1> SUFFICES ASSUME Init PROVE SimInv
  OBVIOUS
<1>1. /\ pool \in Pools /\ prizes \in Prizes /\ run = 0 /\ next = 1 /\ drawn = <<>> /\ filled = 0
      /\ topIdx = [k \in 1 .. take |-> 0] /\ topKey = [k \in 1 .. take |-> 0]
      /\ hits = [i \in 1 .. entrants |-> 0]
  BY DEF Init
<1>2. entrants \in Nat /\ take \in Int /\ Runs \in Nat
  BY <1>1, PoolType, NumbersAssumption
<1>3. run \in 0 .. Runs /\ next \in 1 .. entrants + 1
  BY <1>1, <1>2
<1>4. drawn \in Seq(Keys) /\ Len(drawn) = next - 1
  BY <1>1
<1>5. topKey \in [1 .. take -> Int] /\ topIdx \in [1 .. take -> 0 .. entrants]
  BY <1>1, <1>2
<1>6. take > 0 => filled = Shorter(next - 1, take)
  BY <1>1, <1>2 DEF Shorter
<1>7. Best(topIdx, topKey, filled, take, drawn)
  BY <1>1 DEF Best
<1>8. hits \in [1 .. entrants -> 0 .. run]
  BY <1>1
<1>9. Total(hits, 1 .. entrants) = 0
  <2>1. IsFiniteSet(1 .. entrants) /\ \A i \in 1 .. entrants : hits[i] = 0
    BY <1>1, <1>2, FS_Interval
  <2> QED
    BY <2>1, TotalZero
<1>10. run * take = 0
  BY <1>1, <1>2
<1> QED
  BY <1>1, <1>3, <1>4, <1>5, <1>6, <1>7, <1>8, <1>9, <1>10 DEF SimInv

LEMMA ConsiderKeeps ==
    ASSUME SimInv, NEW key \in Keys, Consider(key)
    PROVE  SimInv'
<1>1. /\ run < Runs /\ take > 0 /\ next <= entrants
      /\ drawn' = Append(drawn, key) /\ next' = next + 1
      /\ UNCHANGED <<pool, prizes, run, hits>>
  BY DEF Consider
<1>2. pool \in Pools /\ prizes \in Prizes /\ entrants \in Nat /\ take \in Nat /\ Keys \subseteq Int
  BY <1>1, PoolType, NumbersAssumption DEF SimInv
<1>3. take' = take /\ entrants' = entrants
  BY <1>1 DEF take, entrants
<1>4. /\ next \in 1 .. entrants /\ next \in Nat /\ next > 0
      /\ next' \in 1 .. entrants + 1 /\ next' - 1 = next
  BY <1>1, <1>2 DEF SimInv
<1>5. /\ drawn \in Seq(Int) /\ Len(drawn) = next - 1 /\ Len(drawn) + 1 = next
      /\ drawn' \in Seq(Keys) /\ Len(drawn') = next' - 1
  <2>1. drawn \in Seq(Keys) /\ Len(drawn) = next - 1
    BY DEF SimInv
  <2>2. Append(drawn, key) \in Seq(Keys) /\ Len(Append(drawn, key)) = Len(drawn) + 1
    BY <2>1
  <2>3. drawn \in Seq(Int)
    BY <1>2, <2>1, SeqMonotonic
  <2>4. next - 1 + 1 = next
    BY <1>4
  <2>5. Len(drawn') = next' - 1
    BY <1>1, <1>4, <2>1, <2>2, <2>4
  <2> QED
    BY <1>1, <2>1, <2>2, <2>3, <2>4, <2>5, Zenon
<1>6. /\ topKey \in [1 .. take -> Int] /\ topIdx \in [1 .. take -> 0 .. entrants]
      /\ filled = Shorter(next - 1, take) /\ filled \in 0 .. take
      /\ Best(topIdx, topKey, filled, take, drawn)
  <2>1. filled = Shorter(next - 1, take)
    BY <1>1 DEF SimInv
  <2>2. filled \in 0 .. take
    BY <1>2, <1>4, <2>1 DEF Shorter
  <2> QED
    BY <1>1, <2>1, <2>2 DEF SimInv
<1>7. SUFFICES /\ topKey' \in [1 .. take -> Int] /\ topIdx' \in [1 .. take -> 0 .. entrants]
               /\ filled' = Shorter(next, take)
               /\ Best(topIdx', topKey', filled', take, drawn')
  <2>1. /\ pool' \in Pools /\ prizes' \in Prizes /\ run' \in 0 .. Runs
        /\ hits' \in [1 .. entrants' -> 0 .. run']
        /\ Total(hits', 1 .. entrants') = run' * take'
    BY <1>1, <1>3 DEF SimInv
  <2>2. next' \in 1 .. entrants' + 1 /\ next' - 1 = next
    BY <1>3, <1>4
  <2>3. take' > 0 /\ ~(take' <= 0)
    BY <1>1, <1>2, <1>3
  <2>4. topKey' \in [1 .. take' -> Int] /\ topIdx' \in [1 .. take' -> 0 .. entrants']
    BY <1>3, <1>7
  <2>5. filled' = Shorter(next' - 1, take') /\ Best(topIdx', topKey', filled', take', drawn')
    BY <1>3, <1>7, <2>2, Zenon
  <2>6. drawn' \in Seq(Keys) /\ Len(drawn') = next' - 1
    BY <1>5
  <2>7. SimInv' <=>
          /\ pool' \in Pools /\ prizes' \in Prizes
          /\ run' \in 0 .. Runs /\ next' \in 1 .. entrants' + 1
          /\ drawn' \in Seq(Keys) /\ Len(drawn') = next' - 1
          /\ topKey' \in [1 .. take' -> Int] /\ topIdx' \in [1 .. take' -> 0 .. entrants']
          /\ take' <= 0 => filled' = 0
          /\ take' > 0 => /\ filled' = Shorter(next' - 1, take')
                          /\ Best(topIdx', topKey', filled', take', drawn')
          /\ hits' \in [1 .. entrants' -> 0 .. run']
          /\ Total(hits', 1 .. entrants') = run' * take'
    BY DEF SimInv
  <2> QED
    BY <2>1, <2>2, <2>3, <2>4, <2>5, <2>6, <2>7, Zenon
<1>8. ASSUME NEW last, last = Longer(filled, take), Insert(key, last), filled = take => key > topKey[take]
      PROVE  /\ topKey' \in [1 .. take -> Int] /\ topIdx' \in [1 .. take -> 0 .. entrants]
             /\ Best(topIdx', topKey', last, take, drawn')
  <2>1. PICK p : p = Landing(key, last - 1)
    OBVIOUS
  <2>2. last \in 1 .. take /\ last - 1 \in 0 .. take /\ key \in Int
    BY <1>1, <1>2, <1>6, <1>8 DEF Longer
  <2>3. /\ p \in 0 .. last - 1
        /\ p = 0 \/ topKey[p] >= key
        /\ \A q \in p + 1 .. last - 1 : topKey[q] < key
    BY <1>2, <1>6, <2>1, <2>2, LandingFits
  <2>4. topKey' = Inserted(topKey, key, p, last) /\ topIdx' = Inserted(topIdx, next, p, last)
    BY <1>8, <2>1 DEF Insert
  <2>5. Joined(topKey, topKey', key, p, last) /\ Joined(topIdx, topIdx', next, p, last)
    <3>1. DOMAIN topKey = 1 .. take /\ DOMAIN topIdx = 1 .. take
      BY <1>6
    <3> QED
      BY <1>2, <2>2, <2>3, <2>4, <3>1, InsertedJoins
  <2>6. topKey' \in [1 .. take -> Int]
    BY <1>2, <1>6, <2>2, <2>3, <2>4, InsertedType
  <2>7. topIdx' \in [1 .. take -> 0 .. entrants]
    <3>1. next \in 0 .. entrants
      BY <1>2, <1>4
    <3> QED
      BY <1>2, <1>6, <2>2, <2>3, <2>4, <3>1, InsertedType
  <2>8. Best(topIdx', topKey', last, take, Append(drawn, key))
    BY <1>1, <1>2, <1>5, <1>6, <1>8, <2>2, <2>3, <2>5, <2>6, BestAfterInsert, Zenon
  <2> QED
    BY <1>1, <2>6, <2>7, <2>8
<1>9. CASE filled < take /\ Insert(key, filled + 1) /\ filled' = filled + 1
  <2>1. filled + 1 = Longer(filled, take) /\ ~(filled = take)
    BY <1>2, <1>6, <1>9 DEF Longer
  <2>2. filled' = Shorter(next, take)
    BY <1>2, <1>4, <1>6, <1>9 DEF Shorter
  <2> QED
    BY <1>8, <1>9, <2>1, <2>2
<1>10. CASE filled = take /\ key > topKey[take] /\ Insert(key, take) /\ filled' = filled
  <2>1. take = Longer(filled, take)
    BY <1>2, <1>10 DEF Longer
  <2>2. filled' = Shorter(next, take)
    BY <1>2, <1>4, <1>6, <1>10 DEF Shorter
  <2>3. /\ topKey' \in [1 .. take -> Int] /\ topIdx' \in [1 .. take -> 0 .. entrants]
        /\ Best(topIdx', topKey', take, take, drawn')
    BY <1>8, <1>10, <2>1, Zenon
  <2> QED
    BY <1>10, <2>2, <2>3, Zenon
<1>11. CASE filled = take /\ key <= topKey[take] /\ UNCHANGED <<filled, topIdx, topKey>>
  <2>1. filled' = Shorter(next, take)
    BY <1>2, <1>4, <1>6, <1>11 DEF Shorter
  <2>2. key \in Int /\ Best(topIdx, topKey, take, take, drawn)
    BY <1>2, <1>6, <1>11
  <2>3. Best(topIdx, topKey, take, take, Append(drawn, key))
    BY <1>1, <1>2, <1>5, <1>11, <2>2, BestWithout, Zenon
  <2> QED
    BY <1>1, <1>6, <1>11, <2>1, <2>3
<1> QED
  BY <1>9, <1>10, <1>11 DEF Consider

LEMMA ScoreKeeps ==
    ASSUME SimInv, Score
    PROVE  SimInv'
<1>1. /\ run < Runs /\ take > 0 /\ next > entrants
      /\ hits' = [i \in DOMAIN hits |-> IF Hit(i) THEN hits[i] + 1 ELSE hits[i]]
      /\ run' = run + 1
      /\ next' = 1 /\ drawn' = <<>> /\ filled' = 0
      /\ UNCHANGED <<pool, prizes, topIdx, topKey>>
  BY DEF Score
<1>2. /\ pool \in Pools /\ prizes \in Prizes /\ entrants \in Nat /\ take \in Nat /\ Runs \in Nat
      /\ take <= entrants
  BY <1>1, PoolType, NumbersAssumption DEF SimInv
<1>3. take' = take /\ entrants' = entrants
  BY <1>1 DEF take, entrants
<1>4. next = entrants + 1 /\ Len(drawn) = entrants /\ filled = take /\ run \in Nat /\ run' \in 0 .. Runs
  <2>1. next = entrants + 1 /\ next - 1 = entrants
    BY <1>1, <1>2 DEF SimInv
  <2>2. filled = Shorter(next - 1, take) /\ Len(drawn) = next - 1
    BY <1>1 DEF SimInv
  <2>3. run \in Nat /\ run' \in 0 .. Runs
    BY <1>1, <1>2 DEF SimInv
  <2> QED
    BY <1>2, <2>1, <2>2, <2>3 DEF Shorter
<1>5. /\ \A k \in 1 .. take : topIdx[k] \in 1 .. entrants
      /\ \A j, k \in 1 .. take : topIdx[j] = topIdx[k] => j = k
  <2>1. Best(topIdx, topKey, take, take, drawn)
    BY <1>1, <1>4 DEF SimInv
  <2>2. /\ \A k \in 1 .. take : topIdx[k] \in 1 .. entrants
        /\ \A j, k \in 1 .. take : j < k => topIdx[j] # topIdx[k]
    BY <1>4, <2>1 DEF Best
  <2> QED
    BY <1>2, <2>2
<1> DEFINE H == {topIdx[k] : k \in 1 .. take}
<1>6. H \subseteq 1 .. entrants /\ \A i \in 1 .. entrants : Hit(i) <=> i \in H
  BY <1>4, <1>5 DEF Hit
<1>7. Cardinality(H) = take
  <2>1. IsFiniteSet(1 .. take) /\ Cardinality(1 .. take) = take
    BY <1>2, FS_Interval
  <2>2. PICK a : a = [k \in 1 .. take |-> topIdx[k]]
    OBVIOUS
  <2>3. a \in [1 .. take -> H] /\ \A j, k \in 1 .. take : a[j] = a[k] => j = k
    BY <1>5, <2>2
  <2>5. \A x \in H : \E k \in 1 .. take : a[k] = x
    BY <2>2
  <2>4. ExistsBijection(1 .. take, H)
    BY <2>3, <2>5 DEF ExistsBijection, Bijection, Injection, Surjection, IsInjective
  <2> QED
    BY <2>1, <2>4, FS_Bijection
<1> HIDE DEF H
<1>8. /\ hits \in [1 .. entrants -> 0 .. run]
      /\ \A i \in 1 .. entrants : hits'[i] = IF i \in H THEN hits[i] + 1 ELSE hits[i]
      /\ hits' = [i \in 1 .. entrants |-> hits'[i]]
  <2>1. hits \in [1 .. entrants -> 0 .. run] /\ DOMAIN hits = 1 .. entrants
    BY DEF SimInv
  <2> QED
    BY <1>1, <1>6, <2>1
<1>9. hits' \in [1 .. entrants -> 0 .. run']
  <2>1. \A i \in 1 .. entrants : hits'[i] \in 0 .. run'
    BY <1>1, <1>4, <1>8
  <2> QED
    BY <1>8, <2>1
<1>10. Total(hits', 1 .. entrants) = run' * take
  <2>1. IsFiniteSet(1 .. entrants) /\ \A i \in 1 .. entrants : hits[i] \in Int
    <3>1. IsFiniteSet(1 .. entrants)
      BY <1>2, FS_Interval
    <3>2. \A i \in 1 .. entrants : hits[i] \in Int
      BY <1>4, <1>8
    <3> QED
      BY <3>1, <3>2
  <2>2. Total(hits', 1 .. entrants) = Total(hits, 1 .. entrants) + Cardinality(H)
    BY <1>6, <1>8, <2>1, TotalMore, Zenon
  <2>3. Total(hits, 1 .. entrants) = run * take
    BY DEF SimInv
  <2>4. run * take + take = (run + 1) * take
    BY <1>2, <1>4
  <2> QED
    BY <1>1, <1>7, <2>2, <2>3, <2>4
<1>11. Best(topIdx', topKey', filled', take', drawn')
  BY <1>1 DEF Best
<1>12. filled' = Shorter(next' - 1, take)
  BY <1>1, <1>2 DEF Shorter
<1>13. /\ pool' \in Pools /\ prizes' \in Prizes
       /\ topKey' \in [1 .. take -> Int] /\ topIdx' \in [1 .. take -> 0 .. entrants]
  BY <1>1 DEF SimInv
<1>14. next' \in 1 .. entrants + 1 /\ drawn' \in Seq(Keys) /\ Len(drawn') = next' - 1
  BY <1>1, <1>2
<1> QED
  BY <1>1, <1>3, <1>4, <1>9, <1>10, <1>11, <1>12, <1>13, <1>14 DEF SimInv

LEMMA SimInvariance == Spec => []SimInv
<1>1. SimInv /\ [Next]_vars => SimInv'
  <2>1. ASSUME SimInv, UNCHANGED vars PROVE SimInv'
    BY <2>1 DEF SimInv, vars, take, entrants
  <2> QED
    BY <2>1, ConsiderKeeps, ScoreKeeps DEF Next
<1> QED
  BY SimStarts, <1>1, PTL DEF Spec

LEMMA EmptyOrCounted ==
    ASSUME NEW S, NEW t \in Int, NEW f \in [1 .. t -> S]
    PROVE  f \in Seq(S) /\ Len(f) = IF t > 0 THEN t ELSE 0
<1>1. CASE t > 0
  <2>1. t \in Nat
    BY <1>1
  <2> QED
    BY <1>1, <2>1, SeqDef, LenProperties
<1>2. CASE ~(t > 0)
  <2>1. 1 .. t = 1 .. 0
    BY <1>2
  <2>2. f \in [1 .. 0 -> S]
    BY <2>1
  <2>3. f \in Seq(S) /\ Len(f) = 0
    BY <2>2, SeqDef, LenProperties
  <2> QED
    BY <1>2, <2>3
<1> QED
  BY <1>1, <1>2

\* THEOREM: the arrays never hold more than take candidates, whatever the pool,
\* and negative prizes included.
THEOREM DrawTypeCorrect == Spec => []TypeOK
<1>1. SimInv => TypeOK
  <2> SUFFICES ASSUME SimInv PROVE TypeOK
    OBVIOUS
  <2>1. /\ pool \in Pools /\ prizes \in Prizes
        /\ run \in 0 .. Runs /\ next \in 1 .. entrants + 1
        /\ drawn \in Seq(Keys) /\ Len(drawn) = next - 1
        /\ topKey \in [1 .. take -> Int] /\ topIdx \in [1 .. take -> 0 .. entrants]
    BY DEF SimInv
  <2>2. entrants \in Nat /\ take \in Int /\ Runs \in Nat
    BY <2>1, PoolType, NumbersAssumption
  <2>3. filled \in 0 .. Len(topKey)
    <3>1. Len(topKey) = IF take > 0 THEN take ELSE 0
      BY <2>1, <2>2, EmptyOrCounted
    <3>2. CASE take > 0
      <4>1. filled = Shorter(next - 1, take)
        BY <3>2 DEF SimInv
      <4> QED
        BY <2>1, <2>2, <3>1, <3>2, <4>1 DEF Shorter
    <3>3. CASE ~(take > 0)
      <4>1. filled = 0
        BY <2>2, <3>3 DEF SimInv
      <4> QED
        BY <3>1, <3>3, <4>1
    <3> QED
      BY <3>2, <3>3
  <2>4. hits \in Seq(0 .. Runs)
    <3>1. hits \in [1 .. entrants -> 0 .. run]
      BY DEF SimInv
    <3>2. 0 .. run \subseteq 0 .. Runs
      BY <2>1, <2>2
    <3>3. hits \in [1 .. entrants -> 0 .. Runs]
      BY <3>1, <3>2
    <3> QED
      BY <2>2, <3>3, EmptyOrCounted
  <2> QED
    BY <2>1, <2>3, <2>4 DEF TypeOK
<1> QED
  BY SimInvariance, <1>1, PTL

\* The list is what a draw from the candidates considered so far returns.
LEMMA ListDraws == SimInv => ListIsDraw
<1> SUFFICES ASSUME SimInv, take > 0
             PROVE  SubSeq(topIdx, 1, filled)
                      \in Draw([i \in DOMAIN drawn |-> 1], prizes, drawn)
  BY DEF ListIsDraw
<1>1. /\ pool \in Pools /\ prizes \in Prizes /\ next \in 1 .. entrants + 1
      /\ drawn \in Seq(Keys) /\ Len(drawn) = next - 1
      /\ topIdx \in [1 .. take -> 0 .. entrants] /\ topKey \in [1 .. take -> Int]
      /\ filled = Shorter(next - 1, take)
      /\ Best(topIdx, topKey, filled, take, drawn)
  BY DEF SimInv
<1>2. /\ entrants \in Nat /\ take \in Nat /\ prizes \in Nat /\ prizes > 0
      /\ take = IF prizes > entrants THEN entrants ELSE prizes
  <2>1. take = IF prizes > entrants THEN entrants ELSE prizes
    BY DEF take, entrants, Take
  <2> QED
    BY <1>1, <2>1, PoolType
<1> DEFINE p == [i \in DOMAIN drawn |-> 1]
           n == Len(drawn)
<1>3. /\ n \in Nat /\ n <= entrants /\ p \in Seq(Int) /\ Eligible(p) = 1 .. n
      /\ \A i \in 1 .. n : drawn[i] \in Int
  <2>1. n \in Nat /\ DOMAIN drawn = 1 .. n /\ \A i \in 1 .. n : drawn[i] \in Keys
    BY <1>1
  <2>2. n <= entrants
    BY <1>1, <1>2
  <2>3. p \in [1 .. n -> Int]
    BY <2>1
  <2>4. p \in Seq(Int)
    BY <2>1, <2>3, SeqDef
  <2>5. Eligible(p) = 1 .. n
    BY <2>1 DEF Eligible
  <2> QED
    BY <2>1, <2>2, <2>4, <2>5, NumbersAssumption
<1>4. Take(p, prizes) = filled /\ filled \in Nat /\ filled <= take
  <2>1. Cardinality(Eligible(p)) = n
    <3> HIDE DEF n, p
    <3> QED
      BY <1>3, FS_Interval
  <2>2. Take(p, prizes) = IF prizes > n THEN n ELSE prizes
    BY <2>1 DEF Take
  <2>3. filled = IF n < take THEN n ELSE take
    BY <1>1 DEF Shorter
  <2> HIDE DEF n, p
  <2> QED
    BY <1>2, <1>3, <2>2, <2>3
<1> DEFINE a == [k \in 1 .. filled |-> topIdx[k]]
<1>5. SubSeq(topIdx, 1, filled) = a
  BY <1>1, <1>2, <1>4, FirstOf
<1>6. /\ \A k \in 1 .. filled : topIdx[k] \in 1 .. n /\ topKey[k] = drawn[topIdx[k]]
      /\ \A j, k \in 1 .. filled : j < k => topIdx[j] # topIdx[k] /\ topKey[j] >= topKey[k]
      /\ \A i \in 1 .. n : \/ \E k \in 1 .. filled : topIdx[k] = i
                           \/ filled = take /\ drawn[i] <= topKey[take]
  BY <1>1 DEF Best
<1>7. a \in [1 .. filled -> 1 .. n]
  BY <1>6
<1>8. \A i, j \in 1 .. filled : a[i] = a[j] => i = j
  BY <1>4, <1>6
<1>9. \A i, j \in 1 .. filled : i < j => drawn[a[i]] >= drawn[a[j]]
  BY <1>6
<1>10. ASSUME NEW x \in 1 .. n
       PROVE  \/ \E i \in 1 .. filled : a[i] = x
              \/ \A i \in 1 .. filled : drawn[a[i]] >= drawn[x]
  <2>1. CASE \E k \in 1 .. filled : topIdx[k] = x
    BY <2>1
  <2>2. CASE filled = take /\ drawn[x] <= topKey[take]
    <3>1. take \in 1 .. filled /\ topKey[take] \in Int /\ drawn[x] \in Int
      BY <1>1, <1>2, <1>3, <2>2
    <3>2. ASSUME NEW i \in 1 .. filled PROVE drawn[a[i]] >= drawn[x]
      <4>1. drawn[a[i]] = topKey[i] /\ topKey[i] \in Int
        BY <1>1, <1>6, <2>2
      <4>2. topKey[i] >= topKey[take]
        <5>1. CASE i = take
          BY <3>1, <5>1
        <5>2. CASE i < take
          BY <1>6, <3>1, <5>2
        <5> QED
          BY <2>2, <3>1, <5>1, <5>2
      <4> QED
        BY <2>2, <3>1, <4>1, <4>2
    <3> QED
      BY <3>2
  <2> QED
    BY <1>6, <2>1, <2>2
<1> HIDE DEF a, p, n
<1>11. a \in Draw(p, prizes, drawn)
  <2>1. \A x \in Eligible(p) : drawn[x] \in Int
    BY <1>3
  <2>2. a \in [1 .. Take(p, prizes) -> Eligible(p)]
    BY <1>3, <1>4, <1>7
  <2>3. \A i, j \in 1 .. Take(p, prizes) : a[i] = a[j] => i = j
    BY <1>4, <1>8
  <2>4. \A i, j \in 1 .. Take(p, prizes) : i < j => drawn[a[i]] >= drawn[a[j]]
    BY <1>4, <1>9
  <2>5. \A x \in Eligible(p) : \/ \E i \in 1 .. Take(p, prizes) : a[i] = x
                               \/ \A i \in 1 .. Take(p, prizes) : drawn[a[i]] >= drawn[x]
    BY <1>3, <1>4, <1>10, Zenon
  <2> QED
    BY <1>2, <1>3, <2>1, <2>2, <2>3, <2>4, <2>5, BestIsDraw, Zenon
<1> QED
  BY <1>5, <1>11 DEF p

LEMMA HitsTotal == SimInv => HitsAddUp
<1> SUFFICES ASSUME SimInv PROVE HitsAddUp
  OBVIOUS
<1>1. /\ hits \in [1 .. entrants -> 0 .. run] /\ DOMAIN hits = 1 .. entrants
      /\ run \in 0 .. Runs /\ Total(hits, 1 .. entrants) = run * take
  BY DEF SimInv
<1>2. FoldSeq(+, 0, hits) = run * take
  <2>1. FoldSeq(+, 0, hits) = Total(hits, DOMAIN hits)
    BY FoldIsTotal, Zenon
  <2> QED
    BY <1>1, <2>1, Zenon
<1>3. \A i \in DOMAIN hits : hits[i] <= run
  BY <1>1, NumbersAssumption
<1> QED
  BY <1>2, <1>3, Zenon DEF HitsAddUp

\* THEOREM: each simulated draw selects what Draw would and scores for it once,
\* for any pool, prizes and keys and any number of simulated draws.
THEOREM SimulationSelectsLikeDraw == Spec => []SimulationIsDraw
<1>1. SimInv => SimulationIsDraw
  BY ListDraws, HitsTotal DEF SimulationIsDraw
<1> QED
  BY SimInvariance, <1>1, PTL

\* THEOREM: Draw can return any sequence of different candidates with diapers,
\* as long as the prizes and the candidates reach, and nothing else.
THEOREM AnyoneCanBeDrawn == Spec => []AnyoneCanWin
<1>1. SimInv => AnyoneCanWin
  <2> SUFFICES ASSUME SimInv, prizes > 0
               PROVE  LET n == IF prizes > Cardinality(Eligible(pool))
                               THEN Cardinality(Eligible(pool)) ELSE prizes
                      IN  UNION {Draw(pool, prizes, key) : key \in [DOMAIN pool -> Keys]}
                            = {s \in [1 .. n -> Eligible(pool)] :
                                 \A i, j \in 1 .. n : s[i] = s[j] => i = j}
    BY DEF AnyoneCanWin, Eligible
  <2>1. pool \in Seq(Int) /\ prizes \in Int /\ prizes \in Nat
    <3>1. pool \in Seq(Int) /\ prizes \in Int
      BY PoolType DEF SimInv
    <3> QED
      BY <3>1
  <2> QED
    BY <2>1, DrawIsAnyone DEF Take
<1> QED
  BY SimInvariance, <1>1, PTL
=============================================================================
