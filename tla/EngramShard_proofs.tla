------------------------- MODULE EngramShard_proofs -------------------------
(***************************************************************************)
(* Proofs about EngramShard: for any layouts, world sizes, rank maps, ways  *)
(* of keeping the rows and steps, the ranks compute what one unsharded      *)
(* table would.                                                             *)
(*                                                                         *)
(* The argument is about flat cells. Cell(r, k, i) is what cell i of rank   *)
(* r's part of step k has to be: the row its column's hash names, or zero   *)
(* for a padded head. A lookup yields it because a rank's rows are those of *)
(* its columns; the all-gathers move cells without changing them, and both  *)
(* ways of taking the gathered cells apart arrive at the unsharded row.     *)
(***************************************************************************)
EXTENDS EngramShard, SumLemmas

-----------------------------------------------------------------------------
(* Arithmetic.                                                              *)

\* So many spans of b cover a.
LEMMA Ceil ==
  ASSUME NEW a \in Nat, NEW b \in Nat \ {0}
  PROVE  /\ CeilDiv(a, b) \in Nat
         /\ a <= b * CeilDiv(a, b)
         /\ a > 0 => CeilDiv(a, b) > 0
         /\ a = 0 => CeilDiv(a, b) = 0
BY Ceiling DEF CeilDiv

\* Where entry h of span t is among n spans of l.
LEMMA Place ==
  ASSUME NEW l \in Nat, NEW n \in Nat, NEW t \in 0 .. n - 1, NEW h \in 0 .. l - 1
  PROVE  /\ t * l + h \in 0 .. n * l - 1
         /\ (t * l + h) \div l = t
         /\ (t * l + h) % l = h
<1>1. l \in Nat \ {0} /\ t \in Nat /\ t + 1 \in Nat /\ t + 1 <= n
  OBVIOUS
<1>2. (t + 1) * l <= n * l /\ n * l \in Nat
  BY <1>1, Times
<1>3. (t + 1) * l = t * l + l /\ t * l \in Nat
  BY <1>1
<1> DEFINE x == t * l + h
<1>4. x \in Nat /\ x < n * l
  <2> DEFINE y == t * l
             z == n * l
  <2>1. y \in Nat /\ z \in Nat /\ y + l <= z
    BY <1>2, <1>3
  <2> HIDE DEF y, z
  <2>2. y + h \in Nat /\ y + h < z
    BY <2>1
  <2>3. QED
    BY <2>2 DEF y, z
<1>5. x \div l = t /\ x % l = h
  BY <1>1, <1>4, DivMod
<1>6. n * l \in Int
  BY <1>2
<1>7. QED
  BY <1>4, <1>5, <1>6

\* The other way: the span and the entry of a place.
LEMMA PlaceOf ==
  ASSUME NEW l \in Nat, NEW n \in Nat, NEW i \in 0 .. n * l - 1
  PROVE  /\ i \div l \in 0 .. n - 1
         /\ i % l \in 0 .. l - 1
         /\ i = (i \div l) * l + (i % l)
<1>1. n * l \in Nat
  BY Times
<1>2. i \in Nat /\ i < n * l
  BY <1>1
<1>3. l \in Nat \ {0}
  <2>1. CASE l = 0
    <3>1. n * l = 0
      BY <2>1
    <3>2. QED
      BY <1>2, <3>1
  <2>2. QED
    BY <2>1
<1>4. /\ i \div l \in Nat /\ i % l \in 0 .. l - 1 /\ i = (i \div l) * l + (i % l)
      /\ i \div l < n
  BY <1>2, <1>3, DivModOf
<1>5. i \div l \in 0 .. n - 1
  BY <1>4
<1>6. QED
  BY <1>4, <1>5

-----------------------------------------------------------------------------
(* The layout's columns.                                                    *)

SizesOK(sizes) ==
  /\ sizes \in Seq(Nat \ {0}) /\ sizes # <<>>
  /\ \A c, d \in 1 .. Len(sizes) : c # d => sizes[c] # sizes[d]

Candidates == {n \in VocabSize .. MaxPrime : IsPrime(n)}

\* The draw that follows the draws of s, the k-th of a layout.
Draw(layout, k, s) ==
  FindNextPrime(IF (k - 1) % layout.heads = 0 THEN VocabSize - 1 ELSE s[k - 1], ToSet(s))

\* f[k] is the sequence of the first k draws.
Draws(layout, n, f) ==
  f = [k \in 0 .. n |-> IF k = 0 THEN <<>> ELSE Append(f[k - 1], Draw(layout, k, f[k - 1]))]

\* What the first k draws are: the k least candidates, in order.
LeastOf(k, s) ==
  /\ s \in Seq(Candidates) /\ Len(s) = k
  /\ \A i, j \in 1 .. k : i < j => s[i] < s[j]
  /\ \A p \in Candidates : \A i \in 1 .. k : p < s[i] => \E j \in 1 .. k : s[j] = p

\* The loop of the constructor has a result.
LEMMA DrawsExist ==
  ASSUME NEW layout, NEW n \in Nat
  PROVE  \E f : Draws(layout, n, f)
<1> DEFINE T == {m \in Nat : \E f : Draws(layout, m, f)}
<1>1. 0 \in T
  <2> DEFINE f == [k \in 0 .. 0 |-> <<>>]
  <2>1. \A k \in 0 .. 0 : k = 0
    OBVIOUS
  <2>2. f = [k \in 0 .. 0 |-> IF k = 0 THEN <<>> ELSE Append(f[k - 1], Draw(layout, k, f[k - 1]))]
    BY <2>1
  <2>3. QED
    BY <2>2 DEF Draws
<1>2. ASSUME NEW m \in Nat, m \in T PROVE m + 1 \in T
  <2>1. PICK f : Draws(layout, m, f)
    BY <1>2
  <2> DEFINE Grown(k, s) == IF k = 0 THEN <<>> ELSE Append(s, Draw(layout, k, s))
             g == [k \in 0 .. m + 1 |-> IF k = m + 1 THEN Grown(k, f[m]) ELSE f[k]]
  <2>2. \A k \in 0 .. m : f[k] = Grown(k, f[k - 1])
    BY <2>1 DEF Draws
  <2>3. ASSUME NEW k \in 0 .. m + 1 PROVE g[k] = Grown(k, g[k - 1])
    <3> HIDE DEF Grown
    <3>1. CASE k = m + 1
      <4>1. k - 1 = m /\ m \in 0 .. m + 1 /\ m # m + 1
        BY <3>1
      <4>2. g[k - 1] = f[m]
        BY <4>1
      <4>3. QED
        BY <3>1, <4>2
    <3>2. CASE k # m + 1 /\ k # 0
      <4>1. k \in 0 .. m /\ k - 1 \in 0 .. m /\ k - 1 # m + 1 /\ k - 1 \in 0 .. m + 1
        BY <3>2
      <4>2. g[k] = f[k] /\ g[k - 1] = f[k - 1]
        BY <3>2, <4>1
      <4>3. QED
        BY <2>2, <4>1, <4>2
    <3>3. CASE k = 0
      <4>1. k \in 0 .. m /\ k # m + 1
        BY <3>3
      <4>2. g[k] = f[k]
        BY <4>1
      <4>3. f[k] = <<>> /\ Grown(k, g[k - 1]) = <<>>
        BY <2>2, <3>3, <4>1 DEF Grown
      <4>4. QED
        BY <4>2, <4>3
    <3>4. QED
      BY <3>1, <3>2, <3>3
  <2>4. g = [k \in 0 .. m + 1 |-> Grown(k, g[k - 1])]
    <3>1. g = [k \in 0 .. m + 1 |-> g[k]]
      OBVIOUS
    <3> HIDE DEF g, Grown
    <3>2. QED
      BY <2>3, <3>1
  <2> HIDE DEF g
  <2>5. Draws(layout, m + 1, g)
    BY <2>4 DEF Draws
  <2>6. QED
    BY <2>5
<1> HIDE DEF T
<1>3. n \in T
  BY <1>1, <1>2, Induction
<1>4. QED
  BY <1>3 DEF T

\* The primes of a layout are its draws.
LEMMA PrimesAreDraws ==
  ASSUME NEW layout, NEW n \in Nat
  PROVE  \E f : Draws(layout, n, f) /\ Primes(layout, n) = f[n]
<1> DEFINE f == CHOOSE f : Draws(layout, n, f)
<1>1. Draws(layout, n, f)
  BY DrawsExist
<1>2. Primes(layout, n) = f[n]
  BY DEF Primes, Draws, Draw
<1>3. QED
  BY <1>1, <1>2

\* As long as there is a candidate left, a draw takes the least one: the ones drawn
\* are an initial part of the candidates, so that none is passed over when an n-gram
\* size starts at the vocabulary size again.
LEMMA DrawIsNext ==
  ASSUME NEW layout \in Layouts, NEW k \in Nat, k < Cardinality(Candidates), NEW s, LeastOf(k, s)
  PROVE  LeastOf(k + 1, Append(s, Draw(layout, k + 1, s)))
<1>1. /\ s \in Seq(Candidates) /\ Len(s) = k /\ DOMAIN s = 1 .. k
      /\ \A i \in 1 .. k : s[i] \in Candidates
      /\ \A i, j \in 1 .. k : i < j => s[i] < s[j]
      /\ \A p \in Candidates : \A i \in 1 .. k : p < s[i] => \E j \in 1 .. k : s[j] = p
  BY DEF LeastOf
<1>2. \A p \in Candidates : p \in Nat /\ p >= VocabSize /\ p <= MaxPrime /\ IsPrime(p)
  BY ShardAssumption DEF Candidates
<1> DEFINE current == IF ((k + 1) - 1) % layout.heads = 0 THEN VocabSize - 1 ELSE s[(k + 1) - 1]
           seen == ToSet(s)
           D == {n \in current + 1 .. MaxPrime : IsPrime(n) /\ n \notin seen}
           m == Min(D)
<1>3. seen = {s[i] : i \in 1 .. k}
  BY <1>1 DEF ToSet
<1>4. \E p \in Candidates : p \notin seen
  <2> SUFFICES ASSUME Candidates \subseteq seen PROVE FALSE
    OBVIOUS
  <2>1. IsFiniteSet(1 .. k) /\ Cardinality(1 .. k) = k
    BY FS_Interval
  <2>2. s \in Surjection(1 .. k, seen)
    BY <1>1, <1>3 DEF Surjection
  <2>3. IsFiniteSet(seen) /\ Cardinality(seen) <= k
    BY <2>1, <2>2, FS_Surjection
  <2>4. Cardinality(Candidates) <= Cardinality(seen)
    BY <2>3, FS_Subset
  <2>5. Cardinality(seen) \in Nat /\ Cardinality(Candidates) \in Nat
    BY <2>3, FS_Subset, FS_CardinalityType
  <2>6. QED
    BY <2>3, <2>4, <2>5
\* What lies up to current and is a candidate has been drawn.
<1>5. \/ current = VocabSize - 1
      \/ k \in 1 .. k /\ current = s[k]
  <2>1. (k + 1) - 1 = k
    OBVIOUS
  <2>2. CASE k = 0
    <3>1. layout.heads \in Nat \ {0}
      BY ShardAssumption
    <3>2. 0 % layout.heads = 0
      BY <3>1, DivMod
    <3>3. QED
      BY <2>1, <2>2, <3>2
  <2>3. CASE k # 0
    BY <2>1, <2>3
  <2>4. QED
    BY <2>2, <2>3
<1> HIDE DEF current
<1>6. current \in Nat
  BY <1>1, <1>2, <1>5, ShardAssumption
<1>7. \A p \in Candidates : p <= current => p \in seen
  <2> SUFFICES ASSUME NEW p \in Candidates, p <= current PROVE p \in seen
    OBVIOUS
  <2>1. k \in 1 .. k /\ current = s[k]
    BY <1>2, <1>5, ShardAssumption
  <2>2. CASE p = s[k]
    BY <1>3, <2>1, <2>2
  <2>3. CASE p < s[k]
    BY <1>1, <1>3, <2>1, <2>3
  <2>4. QED
    BY <1>1, <1>2, <2>1, <2>2, <2>3
<1>8. D \subseteq Nat /\ D # {} /\ \A p \in Candidates : p \notin seen => p \in D
  <2>1. \A p \in Candidates : p \notin seen => p \in D
    BY <1>2, <1>6, <1>7, ShardAssumption
  <2>2. D \subseteq Nat
    BY <1>6
  <2>3. QED
    BY <1>4, <2>1, <2>2
<1>9. m \in D /\ \A p \in D : m <= p
  <2> HIDE DEF D
  <2>1. \E x \in D : \A y \in D : x <= y
    BY <1>8, Least
  <2>2. QED
    BY <2>1 DEF Min
<1>10. m \in Candidates /\ m \notin seen
  <2>1. m \in Nat /\ m > current /\ m <= MaxPrime /\ IsPrime(m) /\ m \notin seen
    BY <1>6, <1>9
  <2>2. m >= VocabSize
    BY <1>1, <1>2, <1>5, <2>1, ShardAssumption
  <2>3. QED
    BY <2>1, <2>2, ShardAssumption DEF Candidates
<1>11. Draw(layout, k + 1, s) = m
  BY DEF Draw, FindNextPrime, current
<1> HIDE DEF m, D, seen
<1> DEFINE t == Append(s, m)
<1>12. /\ t \in Seq(Candidates) /\ Len(t) = k + 1
       /\ \A i \in 1 .. k : t[i] = s[i]
       /\ t[k + 1] = m
  BY <1>1, <1>10
<1> HIDE DEF t
<1>13. \A i \in 1 .. k : s[i] < m
  <2> TAKE i \in 1 .. k
  <2>1. s[i] \in Nat /\ m \in Nat /\ s[i] # m
    BY <1>1, <1>2, <1>3, <1>10
  <2>2. ~ (m < s[i])
    BY <1>1, <1>3, <1>10
  <2>3. QED
    BY <2>1, <2>2
<1>14. ASSUME NEW p \in Candidates, NEW i \in 1 .. k + 1, p < t[i]
       PROVE  \E j \in 1 .. k + 1 : t[j] = p
  <2>1. CASE i \in 1 .. k
    BY <1>1, <1>12, <1>14, <2>1
  <2>2. CASE i = k + 1
    <3>1. p < m /\ m \in Nat /\ p \in Nat
      BY <1>2, <1>10, <1>12, <1>14, <2>2
    <3>2. p \in seen
      BY <1>8, <1>9, <3>1
    <3>3. QED
      BY <1>3, <1>12, <3>2
  <2>3. QED
    BY <2>1, <2>2
<1>15. \A i, j \in 1 .. k + 1 : i < j => t[i] < t[j]
  <2> TAKE i, j \in 1 .. k + 1
  <2>1. CASE j = k + 1
    BY <1>12, <1>13, <2>1
  <2>2. CASE j # k + 1
    BY <1>1, <1>12, <2>2
  <2>3. QED
    BY <2>1, <2>2
<1>16. LeastOf(k + 1, t)
  BY <1>12, <1>14, <1>15 DEF LeastOf
<1>17. QED
  BY <1>11, <1>16 DEF t

\* Every layout has its columns, of different sizes: the least primes of the vocabulary.
LEMMA SizesOfLayout ==
  ASSUME NEW layout \in Layouts
  PROVE  SizesOK(HeadSizes(layout))
<1> DEFINE cols == HashCols(layout)
           n == NumLayers * cols
<1>1. cols \in Nat \ {0}
  <2>1. layout.ngram - 1 \in Nat \ {0} /\ layout.heads \in Nat \ {0}
    BY ShardAssumption
  <2>2. \A a, b \in Nat \ {0} : a * b \in Nat \ {0}
    OBVIOUS
  <2>3. QED
    BY <2>1, <2>2 DEF HashCols
<1>2. n \in Nat /\ n <= Cardinality(Candidates)
  <2>1. n \in Nat
    BY <1>1, ShardAssumption
  <2>2. QED
    BY <2>1, PrimesAssumption DEF Candidates
<1>3. PICK f : Draws(layout, n, f) /\ Primes(layout, n) = f[n]
  BY <1>2, PrimesAreDraws
<1> HIDE DEF cols
<1>4. IsFiniteSet(Candidates)
  <2>1. IsFiniteSet(VocabSize .. MaxPrime)
    BY ShardAssumption, FS_Interval
  <2>2. QED
    BY <2>1, FS_Subset DEF Candidates
<1>5. Cardinality(Candidates) \in Nat
  BY <1>4, FS_CardinalityType
<1> DEFINE T == {k \in Nat : k <= n => LeastOf(k, f[k])}
<1> HIDE DEF n
<1>6. 0 \in T
  <2>1. f[0] = <<>>
    BY <1>2, <1>3 DEF Draws
  <2>2. LeastOf(0, <<>>)
    BY DEF LeastOf
  <2>3. QED
    BY <2>1, <2>2
<1>7. ASSUME NEW k \in Nat, k \in T PROVE k + 1 \in T
  <2> SUFFICES ASSUME k + 1 <= n PROVE LeastOf(k + 1, f[k + 1])
    OBVIOUS
  <2>1. k + 1 \in 0 .. n /\ k + 1 # 0 /\ (k + 1) - 1 = k /\ k <= n
    BY <1>2
  <2>2. f[k + 1] = Append(f[k], Draw(layout, k + 1, f[k]))
    BY <1>3, <2>1 DEF Draws
  <2>3. k < Cardinality(Candidates)
    BY <1>2, <1>5
  <2>4. QED
    BY <1>7, <2>1, <2>2, <2>3, DrawIsNext
<1> HIDE DEF T
<1>8. n \in T
  BY <1>2, <1>6, <1>7, Induction
<1>9. LeastOf(n, f[n])
  BY <1>2, <1>8 DEF T
<1> DEFINE a == (Layer - 1) * cols + 1
           b == Layer * cols
<1>10. /\ a \in 1 .. n /\ b \in 1 .. n /\ a <= b /\ b - a + 1 = cols
  <2>1. Layer * cols = (Layer - 1) * cols + cols /\ (Layer - 1) * cols \in Nat
    BY <1>1, ShardAssumption
  <2>2. Layer * cols <= NumLayers * cols
    BY <1>1, ShardAssumption, Times
  <2>3. QED
    BY <1>1, <1>2, <2>1, <2>2 DEF n
<1> HIDE DEF a, b
<1> DEFINE sizes == SubSeq(f[n], a, b)
<1>11. f[n] \in Seq(Candidates) /\ Len(f[n]) = n
  BY <1>9 DEF LeastOf
<1>12. /\ sizes \in Seq(Candidates) /\ Len(sizes) = cols
       /\ \A c \in 1 .. cols : sizes[c] = f[n][a + c - 1]
  BY <1>10, <1>11, Slice
<1>13. sizes = HeadSizes(layout)
  BY <1>3 DEF HeadSizes, cols, n, a, b
<1> HIDE DEF sizes
<1>14. \A c, d \in 1 .. cols : c < d => sizes[c] # sizes[d]
  <2> TAKE c, d \in 1 .. cols
  <2> HAVE c < d
  <2>1. a + c - 1 \in 1 .. n /\ a + d - 1 \in 1 .. n /\ a + c - 1 < a + d - 1
    BY <1>1, <1>2, <1>10
  <2>2. \A i \in 1 .. n : f[n][i] \in Nat
    BY <1>11, ShardAssumption DEF Candidates
  <2>3. f[n][a + c - 1] < f[n][a + d - 1]
    BY <1>9, <2>1 DEF LeastOf
  <2>4. QED
    BY <1>12, <2>1, <2>2, <2>3
<1>15. \A c, d \in 1 .. cols : c # d => sizes[c] # sizes[d]
  <2> TAKE c, d \in 1 .. cols
  <2>1. c < d \/ d < c \/ c = d
    BY <1>1
  <2>2. QED
    BY <1>14, <2>1
<1>16. sizes \in Seq(Nat \ {0})
  <2>1. Candidates \subseteq Nat \ {0}
    BY ShardAssumption DEF Candidates
  <2> DEFINE len == Len(sizes)
  <2>2. len \in Nat /\ sizes \in [1 .. len -> Candidates]
    BY <1>12
  <2> HIDE DEF len
  <2>3. sizes \in [1 .. len -> Nat \ {0}]
    BY <2>1, <2>2
  <2>4. QED
    BY <2>2, <2>3
<1>17. QED
  BY <1>1, <1>12, <1>13, <1>15, <1>16 DEF SizesOK

-----------------------------------------------------------------------------
(* The table's rows.                                                        *)

\* A column's rows follow those of the column before it; past the last column there
\* are no more.
LEMMA RowsInOrder ==
  ASSUME NEW sizes \in Seq(Nat \ {0})
  PROVE  /\ \A n \in Nat : RowsBefore(sizes, n) \in Nat
         /\ \A c \in 0 .. Len(sizes) - 1 :
              RowsBefore(sizes, c + 1) = RowsBefore(sizes, c) + sizes[c + 1]
         /\ \A m, n \in Nat : m <= n => RowsBefore(sizes, m) <= RowsBefore(sizes, n)
         /\ \A n \in Nat : RowsBefore(sizes, n) <= RowsBefore(sizes, Len(sizes))
<1> DEFINE len == Len(sizes)
           sum(k) == SumOf(1 .. k, sizes)
<1>1. len \in Nat
  OBVIOUS
<1>2. \A n \in Nat : RowsBefore(sizes, n) = sum(LesserOf(n, len))
  BY DEF RowsBefore, MapThenSumSet, MapThenFoldSet, SumOf, SumsOf, Taken
<1>3. /\ \A k \in 0 .. len : sum(k) \in Nat
      /\ \A k \in 1 .. len : sum(k) = sum(k - 1) + sizes[k]
      /\ \A i \in 0 .. len : \A j \in i .. len : sum(i) <= sum(j)
  BY Beginnings
<1> HIDE DEF len, sum
<1>4. \A n \in Nat : LesserOf(n, len) \in 0 .. len /\ (n <= len => LesserOf(n, len) = n)
  BY <1>1 DEF LesserOf
<1>5. \A n \in Nat : RowsBefore(sizes, n) \in Nat
  BY <1>2, <1>3, <1>4
<1>6. ASSUME NEW c \in 0 .. len - 1
      PROVE  RowsBefore(sizes, c + 1) = RowsBefore(sizes, c) + sizes[c + 1]
  <2>1. /\ c \in Nat /\ c + 1 \in Nat /\ c <= len /\ c + 1 <= len
        /\ c + 1 \in 1 .. len /\ (c + 1) - 1 = c
    BY <1>1
  <2>2. RowsBefore(sizes, c + 1) = sum(c + 1) /\ RowsBefore(sizes, c) = sum(c)
    BY <1>2, <1>4, <2>1
  <2>3. QED
    BY <1>3, <2>1, <2>2
<1>7. ASSUME NEW m \in Nat, NEW n \in Nat, m <= n
      PROVE  RowsBefore(sizes, m) <= RowsBefore(sizes, n)
  <2>1. LesserOf(m, len) \in 0 .. len /\ LesserOf(n, len) \in LesserOf(m, len) .. len
    BY <1>1, <1>7 DEF LesserOf
  <2>2. QED
    BY <1>2, <1>3, <2>1
<1>8. ASSUME NEW n \in Nat PROVE RowsBefore(sizes, n) <= RowsBefore(sizes, len)
  <2>1. LesserOf(n, len) \in 0 .. len /\ LesserOf(len, len) \in LesserOf(n, len) .. len
    BY <1>1 DEF LesserOf
  <2>2. QED
    BY <1>1, <1>2, <1>3, <2>1
<1>9. QED
  BY <1>5, <1>6, <1>7, <1>8 DEF len

\* A hash names a row of the column it is of.
LEMMA HashInColumn ==
  ASSUME NEW sizes \in Seq(Nat \ {0}), NEW hash \in Nat, NEW c \in 0 .. Len(sizes) - 1
  PROVE  /\ HashIds(sizes, hash)[c] \in Nat
         /\ RowsBefore(sizes, c) <= HashIds(sizes, hash)[c]
         /\ HashIds(sizes, hash)[c] < RowsBefore(sizes, c + 1)
<1>1. c \in Nat /\ c + 1 \in 1 .. Len(sizes) /\ sizes[c + 1] \in Nat \ {0}
  OBVIOUS
<1>2. hash % sizes[c + 1] \in 0 .. sizes[c + 1] - 1
  BY <1>1, DivModOf
<1>3. HashIds(sizes, hash)[c] = RowsBefore(sizes, c) + (hash % sizes[c + 1])
  BY DEF HashIds
<1>4. RowsBefore(sizes, c) \in Nat /\ RowsBefore(sizes, c + 1) = RowsBefore(sizes, c) + sizes[c + 1]
  BY <1>1, RowsInOrder
<1> DEFINE rest == hash % sizes[c + 1]
           size == sizes[c + 1]
           before == RowsBefore(sizes, c)
<1>5. rest \in 0 .. size - 1 /\ size \in Nat \ {0} /\ before \in Nat
  BY <1>1, <1>2, <1>4
<1> HIDE DEF rest, size, before
<1>6. before + rest \in Nat /\ before <= before + rest /\ before + rest < before + size
  BY <1>5
<1>7. QED
  BY <1>3, <1>4, <1>6 DEF rest, size, before

-----------------------------------------------------------------------------
(* The deployment.                                                          *)

\* What Init makes of it and nothing changes.
ConfigOK ==
  /\ config.tp \in TpSizes /\ config.tp \in Nat \ {0}
  /\ SizesOK(config.sizes)
  /\ config.slack \in Int /\ config.surplus \in Int
  /\ config.mode \in Modes
  /\ config.map \in Maps \cup {None}
  /\ config.sp => config.tp > 1
  /\ config.steps \in Steps

\* The columns are dealt out to the ranks in order.
LEMMA Shares ==
  ASSUME ConfigOK
  PROVE  /\ Cols \in Nat \ {0} /\ LocalHeads \in Nat \ {0}
         /\ Cols <= config.tp * LocalHeads
         /\ config.tp = 1 => LocalHeads = Cols
         /\ \A r \in Ranks : HeadStart(r) \in Nat /\ HeadStart(r) = r * LocalHeads
<1>1. Cols \in Nat \ {0} /\ config.tp \in Nat \ {0}
  BY DEF ConfigOK, SizesOK, Cols
<1>2. LocalHeads \in Nat \ {0} /\ Cols <= config.tp * LocalHeads
  <2>1. CeilDiv(Cols, config.tp) \in Nat \ {0} /\ Cols <= config.tp * CeilDiv(Cols, config.tp)
    BY <1>1, Ceil
  <2>2. QED
    BY <2>1 DEF LocalHeads
<1>3. ASSUME config.tp = 1 PROVE LocalHeads = Cols
  BY <1>1, <1>3 DEF LocalHeads, CeilDiv
<1>4. \A r \in Ranks : HeadStart(r) \in Nat /\ HeadStart(r) = r * LocalHeads
  BY <1>1, <1>2 DEF Ranks, HeadStart
<1>5. QED
  BY <1>1, <1>2, <1>3, <1>4

\* A rank's rows are those of its columns.
LEMMA OwnRows ==
  ASSUME ConfigOK, NEW r \in Ranks
  PROVE  /\ VocabStart(r) \in Nat /\ VocabEnd(r) \in Nat /\ VocabStart(r) <= VocabEnd(r)
         /\ VocabEnd(r) <= RowsBefore(config.sizes, Cols)
         /\ RowsBefore(config.sizes, Cols) \in Nat
         /\ OwnsHeads(r) => VocabStart(r) < VocabEnd(r)
         /\ \A c \in 0 .. Cols - 1, hash \in Nat :
              HeadStart(r) <= c /\ c < HeadStart(r) + LocalHeads =>
                /\ HashIds(config.sizes, hash)[c] \in Nat
                /\ IsOwned(r, HashIds(config.sizes, hash)[c])
<1> DEFINE sizes == config.sizes
           first == HeadStart(r)
           last == HeadStart(r) + LocalHeads
<1>1. /\ Cols \in Nat /\ Cols = Len(sizes) /\ first \in Nat /\ last \in Nat /\ first < last
      /\ sizes \in Seq(Nat \ {0})
  <2>1. Cols \in Nat /\ LocalHeads \in Nat \ {0} /\ HeadStart(r) \in Nat
    BY Shares
  <2>2. sizes \in Seq(Nat \ {0}) /\ Cols = Len(sizes)
    BY DEF ConfigOK, SizesOK, Cols
  <2> HIDE DEF sizes
  <2>3. QED
    BY <2>1, <2>2
<1>2. VocabStart(r) = RowsBefore(sizes, first) /\ VocabEnd(r) = RowsBefore(sizes, last)
  BY DEF VocabStart, VocabEnd
<1> HIDE DEF sizes, first, last
<1>3. /\ VocabStart(r) \in Nat /\ VocabEnd(r) \in Nat /\ VocabStart(r) <= VocabEnd(r)
      /\ VocabEnd(r) <= RowsBefore(sizes, Cols) /\ RowsBefore(sizes, Cols) \in Nat
  BY <1>1, <1>2, RowsInOrder
<1>4. ASSUME NEW c \in 0 .. Cols - 1, NEW hash \in Nat, first <= c, c < last
      PROVE  HashIds(sizes, hash)[c] \in Nat /\ IsOwned(r, HashIds(sizes, hash)[c])
  <2>1. c \in 0 .. Len(sizes) - 1 /\ c \in Nat /\ c + 1 \in Nat /\ c + 1 <= last
    BY <1>1, <1>4
  <2>2. /\ HashIds(sizes, hash)[c] \in Nat
        /\ RowsBefore(sizes, c) <= HashIds(sizes, hash)[c]
        /\ HashIds(sizes, hash)[c] < RowsBefore(sizes, c + 1)
    BY <1>1, <2>1, HashInColumn
  <2>3. /\ RowsBefore(sizes, first) <= RowsBefore(sizes, c)
        /\ RowsBefore(sizes, c + 1) <= RowsBefore(sizes, last)
        /\ RowsBefore(sizes, c) \in Nat /\ RowsBefore(sizes, c + 1) \in Nat
    BY <1>1, <1>4, <2>1, RowsInOrder
  <2>4. QED
    BY <1>2, <1>3, <2>2, <2>3 DEF IsOwned
<1>5. ASSUME OwnsHeads(r) PROVE VocabStart(r) < VocabEnd(r)
  <2>1. first < Cols
    BY <1>5 DEF OwnsHeads, first
  <2>2. HashIds(sizes, 0)[first] \in Nat /\ IsOwned(r, HashIds(sizes, 0)[first])
    BY <1>1, <1>4, <2>1
  <2>3. QED
    BY <1>3, <2>2 DEF IsOwned
<1>6. QED
  BY <1>3, <1>4, <1>5 DEF sizes, first, last

\* A step's tokens, and the ids of their columns.
LEMMA StepTokens ==
  ASSUME ConfigOK, NEW k \in 1 .. 2
  PROVE  /\ Len(config.steps) = 2 /\ DOMAIN config.steps = 1 .. 2
         /\ Batch(k) \in Seq([hash : Nat, active : BOOLEAN])
         /\ Len(Batch(k)) \in Nat /\ MaxTokens \in Nat /\ Len(Batch(k)) <= MaxTokens
         /\ \A t \in 1 .. Len(Batch(k)) : Batch(k)[t].hash \in Nat
         /\ Len(Ids(k)) = Len(Batch(k))
         /\ \A t \in 1 .. Len(Batch(k)) : Ids(k)[t] = HashIds(config.sizes, Batch(k)[t].hash)
<1>1. /\ config.steps \in Seq(Seq([hash : Nat, active : BOOLEAN])) /\ Len(config.steps) = 2
      /\ Len(config.steps[1]) <= MaxTokens /\ Len(config.steps[2]) <= MaxTokens
      /\ MaxTokens \in Nat
  BY ShardAssumption DEF ConfigOK
<1>2. /\ Batch(k) \in Seq([hash : Nat, active : BOOLEAN]) /\ Len(Batch(k)) <= MaxTokens
      /\ DOMAIN config.steps = 1 .. 2
  <2>1. k = 1 \/ k = 2
    OBVIOUS
  <2>2. QED
    BY <1>1, <2>1 DEF Batch
<1>3. Len(Batch(k)) \in Nat /\ \A t \in 1 .. Len(Batch(k)) : Batch(k)[t].hash \in Nat
  <2> DEFINE b == Batch(k)
             S == [hash : Nat, active : BOOLEAN]
  <2>1. b \in Seq(S)
    BY <1>2
  <2> HIDE DEF b, S
  <2>2. Len(b) \in Nat /\ \A t \in 1 .. Len(b) : b[t] \in S
    BY <2>1
  <2>3. QED
    BY <2>2 DEF b, S
<1>4. Ids(k) = [t \in 1 .. Len(Batch(k)) |-> HashIds(config.sizes, Batch(k)[t].hash)]
  BY DEF Ids
<1>5. Len(Ids(k)) = Len(Batch(k))
  <2> DEFINE n == Len(Batch(k))
  <2>1. n \in Nat /\ Ids(k) = [t \in 1 .. n |-> HashIds(config.sizes, Batch(k)[t].hash)]
    BY <1>3, <1>4
  <2> HIDE DEF n
  <2>2. Len(Ids(k)) = n
    BY <2>1
  <2>3. QED
    BY <2>2 DEF n
<1>6. QED
  BY <1>1, <1>2, <1>3, <1>4, <1>5

-----------------------------------------------------------------------------
(* Flat cells.                                                              *)

Contents == (0 .. NumEmbeddings - 1) \cup {Zero}

\* The number of cells of a rank's part of step k.
Size(k) == Len(Batch(k)) * LocalHeads

\* What cell i of rank r's part of step k has to be.
Cell(r, k, i) ==
  LET head == HeadStart(r) + (i % LocalHeads) IN
  IF head < Cols THEN HashIds(config.sizes, Batch(k)[(i \div LocalHeads) + 1].hash)[head] ELSE Zero

\* p is rank r's part of step k.
PartOK(r, k, p) == Len(p) = Size(k) /\ \A i \in 0 .. Size(k) - 1 : p[i + 1] = Cell(r, k, i)

\* The row of the unsharded model for token t of step k.
Row(k, t) == [c \in 1 .. Cols |-> HashIds(config.sizes, Batch(k)[t].hash)[c - 1]]

\* A cell is the row its rank looks up, which the rank owns, or zero where it owns none.
LEMMA LocalCell ==
  ASSUME ConfigOK, NEW r \in Ranks, NEW k \in 1 .. 2, NEW i \in 0 .. Size(k) - 1
  PROVE  \/ /\ IsOwned(r, LocalId(r, Ids(k), i))
            /\ Cell(r, k, i) = LocalId(r, Ids(k), i)
            /\ LocalId(r, Ids(k), i) \in Nat
         \/ /\ ~IsOwned(r, LocalId(r, Ids(k), i))
            /\ Cell(r, k, i) = Zero
<1> DEFINE head == HeadStart(r) + (i % LocalHeads)
           t == (i \div LocalHeads) + 1
<1>1. /\ Cols \in Nat \ {0} /\ LocalHeads \in Nat \ {0} /\ HeadStart(r) \in Nat
      /\ Len(Batch(k)) \in Nat
  BY Shares, StepTokens
<1>2. i \div LocalHeads \in 0 .. Len(Batch(k)) - 1 /\ i % LocalHeads \in 0 .. LocalHeads - 1
  BY <1>1, PlaceOf DEF Size
<1>3. /\ t \in 1 .. Len(Batch(k)) /\ head \in Nat
      /\ HeadStart(r) <= head /\ head < HeadStart(r) + LocalHeads
  BY <1>1, <1>2
<1>4. LocalId(r, Ids(k), i) = IF head < Cols THEN Ids(k)[t][head] ELSE -1
  BY DEF LocalId
<1>5. Cell(r, k, i) = IF head < Cols THEN HashIds(config.sizes, Batch(k)[t].hash)[head] ELSE Zero
  BY DEF Cell
<1> HIDE DEF head, t
<1>6. Batch(k)[t].hash \in Nat /\ Ids(k)[t] = HashIds(config.sizes, Batch(k)[t].hash)
  BY <1>3, StepTokens
<1>7. CASE head < Cols
  <2>1. head \in 0 .. Cols - 1
    BY <1>1, <1>3, <1>7
  <2>2. /\ HashIds(config.sizes, Batch(k)[t].hash)[head] \in Nat
        /\ IsOwned(r, HashIds(config.sizes, Batch(k)[t].hash)[head])
    BY <1>3, <1>6, <2>1, OwnRows
  <2>3. QED
    BY <1>4, <1>5, <1>6, <1>7, <2>2
<1>8. CASE ~ (head < Cols)
  <2>1. ~ (VocabStart(r) <= -1)
    <3>1. VocabStart(r) \in Nat
      BY OwnRows
    <3>2. QED
      BY <3>1
  <2>2. QED
    BY <1>4, <1>5, <1>8, <2>1 DEF IsOwned
<1>9. QED
  BY <1>7, <1>8

\* The cell that holds column c of a token: it is at its rank's.
LEMMA CellOfColumn ==
  ASSUME ConfigOK, NEW k \in 1 .. 2, NEW t \in 0 .. Len(Batch(k)) - 1, NEW c \in 0 .. Cols - 1
  PROVE  /\ c \div LocalHeads \in Ranks
         /\ c % LocalHeads \in 0 .. LocalHeads - 1
         /\ t * LocalHeads + (c % LocalHeads) \in 0 .. Size(k) - 1
         /\ Cell(c \div LocalHeads, k, t * LocalHeads + (c % LocalHeads))
              = HashIds(config.sizes, Batch(k)[t + 1].hash)[c]
<1> DEFINE l == LocalHeads
           q == c \div l
           h == c % l
           i == t * l + h
<1>1. l \in Nat \ {0} /\ Cols \in Nat /\ Cols <= config.tp * l /\ config.tp \in Nat \ {0}
      /\ Len(Batch(k)) \in Nat
  BY Shares, StepTokens DEF ConfigOK
<1>2. c \in 0 .. config.tp * l - 1
  <2> DEFINE m == config.tp * l
  <2>1. m \in Nat /\ Cols <= m
    BY <1>1, Times
  <2> HIDE DEF m
  <2>2. c \in 0 .. m - 1
    BY <1>1, <2>1
  <2>3. QED
    BY <2>2 DEF m
<1>3. q \in 0 .. config.tp - 1 /\ h \in 0 .. l - 1 /\ c = q * l + h
  BY <1>1, <1>2, PlaceOf
<1>4. q \in Ranks /\ HeadStart(q) = q * l
  BY <1>3, Shares DEF Ranks
<1>5. i \in 0 .. Len(Batch(k)) * l - 1 /\ i \div l = t /\ i % l = h
  BY <1>1, <1>3, Place
<1>6. HeadStart(q) + (i % l) = c /\ c < Cols
  <2>1. HeadStart(q) + (i % l) = q * l + h
    BY <1>4, <1>5
  <2>2. QED
    BY <1>1, <1>3, <2>1
<1>7. Cell(q, k, i) = HashIds(config.sizes, Batch(k)[t + 1].hash)[c]
  BY <1>5, <1>6 DEF Cell
<1>8. QED
  BY <1>3, <1>4, <1>5, <1>7 DEF Size

-----------------------------------------------------------------------------
(* Lookups.                                                                 *)

\* The rows a rank has loaded.
Loaded(r) == [i \in 1 .. NumRows(r) |-> VocabStart(r) + i - 1]

\* The kernel finds a row in the rank's shard, wherever that was moved.
LEMMA KernelFinds ==
  ASSUME ConfigOK, NEW r \in Ranks, NEW k \in 1 .. 2, NEW i \in 0 .. Size(k) - 1,
         shard[r] = Loaded(r)
  PROVE  KernelRow(r, LocalId(r, Ids(k), i), Storage(r)) = Cell(r, k, i)
<1> DEFINE id == LocalId(r, Ids(k), i)
<1>1. Storage(r) = ptr[r]
  BY DEF Storage
<1>2. CASE ~IsOwned(r, id)
  BY <1>2, LocalCell DEF KernelRow
<1>3. CASE IsOwned(r, id)
  <2>1. id \in Nat /\ Cell(r, k, i) = id
    BY <1>3, LocalCell
  <2>2. VocabStart(r) \in Nat /\ VocabEnd(r) \in Nat /\ VocabStart(r) <= id /\ id < VocabEnd(r)
    BY <1>3, OwnRows DEF IsOwned
  <2> HIDE DEF id
  <2>3. /\ id - VocabStart(r) + 1 \in 1 .. NumRows(r)
        /\ VocabStart(r) + (id - VocabStart(r) + 1) - 1 = id
    BY <2>1, <2>2 DEF NumRows
  <2>4. shard[r][id - VocabStart(r) + 1] = id
    BY <2>3 DEF Loaded
  <2>5. QED
    BY <1>1, <1>3, <2>1, <2>4 DEF KernelRow, id
<1>4. QED
  BY <1>2, <1>3

\* What is at the rank's own rows is in the directory the rank reads.
LEMMA DiskHas ==
  ASSUME ConfigOK, NEW r \in Ranks, VocabEnd(r) <= TableRows, dir[r] = LocalDir(r),
         NEW row \in Nat, IsOwned(r, row)
  PROVE  DiskRow(r, row - VocabStart(r)) = row
<1>1. /\ VocabStart(r) \in Nat /\ VocabEnd(r) \in Nat /\ VocabStart(r) <= row /\ row < VocabEnd(r)
      /\ RowsBefore(config.sizes, Cols) \in Nat
  BY OwnRows DEF IsOwned
<1>2. TableRows \in Int
  BY <1>1 DEF ConfigOK, NumEmbeddings, TableRows
<1> DEFINE copy == CopyOf(config.sizes, config.map, r)
<1>3. dir[r] = "local" => copy[1] <= row /\ row < copy[2]
  <2> HAVE dir[r] = "local"
  <2>1. /\ config.map # None
        /\ copy[1] <= VocabStart(r) /\ VocabStart(r) + NumRows(r) <= copy[2]
    BY DEF LocalDir
  <2>2. copy[1] \in Nat /\ copy[2] \in Nat
    <3> DEFINE part == CeilDiv(Len(config.sizes), config.map)
    <3>1. config.map \in Nat \ {0} /\ config.sizes \in Seq(Nat \ {0})
      BY <2>1, ShardAssumption DEF ConfigOK, SizesOK
    <3>2. Len(config.sizes) \in Nat
      BY <3>1
    <3>5. part \in Nat
      BY <3>1, <3>2, Ceil
    <3>6. r \in Nat
      BY DEF Ranks, ConfigOK
    <3> HIDE DEF part
    <3>3. r * part \in Nat /\ (r + 1) * part \in Nat
      BY <3>5, <3>6
    <3>4. QED
      BY <3>1, <3>3, RowsInOrder DEF CopyOf, part
  <2> HIDE DEF copy
  <2>3. QED
    BY <1>1, <2>1, <2>2 DEF NumRows
<1> HIDE DEF copy
<1>4. VocabStart(r) + (row - VocabStart(r)) = row /\ ~ (row >= TableRows)
  BY <1>1, <1>2
<1>5. QED
  BY <1>3, <1>4 DEF DiskRow, copy

\* A read from disk finds the row too.
LEMMA DiskFinds ==
  ASSUME ConfigOK, NEW r \in Ranks, NEW k \in 1 .. 2, NEW i \in 0 .. Size(k) - 1,
         VocabEnd(r) <= TableRows, dir[r] = LocalDir(r)
  PROVE  Gathered(r, Ids(k), i) = Cell(r, k, i)
<1> DEFINE id == LocalId(r, Ids(k), i)
<1>1. CASE ~IsOwned(r, id)
  BY <1>1, LocalCell DEF Gathered
<1>2. CASE IsOwned(r, id)
  <2>1. id \in Nat /\ Cell(r, k, i) = id
    BY <1>2, LocalCell
  <2>2. DiskRow(r, id - VocabStart(r)) = id
    BY <1>2, <2>1, DiskHas
  <2>3. QED
    BY <1>2, <2>1, <2>2 DEF Gathered, Rel
<1>3. QED
  BY <1>1, <1>2

\* A cell is a row of the table or zero.
LEMMA CellContents ==
  ASSUME ConfigOK, NEW r \in Ranks, NEW k \in 1 .. 2, NEW i \in 0 .. Size(k) - 1,
         VocabEnd(r) <= NumEmbeddings
  PROVE  Cell(r, k, i) \in Contents
<1> DEFINE id == LocalId(r, Ids(k), i)
<1>1. CASE ~IsOwned(r, id)
  BY <1>1, LocalCell DEF Contents
<1>2. CASE IsOwned(r, id)
  <2>1. id \in Nat /\ Cell(r, k, i) = id
    BY <1>2, LocalCell
  <2>2. VocabEnd(r) \in Nat /\ id < VocabEnd(r) /\ NumEmbeddings \in Int
    BY <1>2, OwnRows DEF IsOwned, NumEmbeddings, ConfigOK
  <2> HIDE DEF id
  <2>3. id \in 0 .. NumEmbeddings - 1
    BY <2>1, <2>2
  <2>4. QED
    BY <2>1, <2>3 DEF Contents
<1>3. QED
  BY <1>1, <1>2

\* A rank with a column never reads past the end of the table: a token it has no row
\* for is read at its first row.
LEMMA ReadsEnd ==
  ASSUME ConfigOK, NEW r \in Ranks, NEW k \in 1 .. 2,
         VocabEnd(r) <= TableRows, dir[r] = LocalDir(r), OwnsHeads(r)
  PROVE  ~ReadFails(r, Ids(k))
<1> SUFFICES ASSUME NEW i \in FlatRows(Ids(k)),
                    DiskRow(r, Rel(r, LocalId(r, Ids(k), i))) = Beyond
             PROVE  FALSE
  BY DEF ReadFails
<1> DEFINE id == LocalId(r, Ids(k), i)
<1>1. i \in 0 .. Size(k) - 1
  BY StepTokens DEF FlatRows, Size
<1>2. VocabStart(r) \in Nat /\ VocabEnd(r) \in Nat /\ VocabStart(r) < VocabEnd(r)
  BY OwnRows
<1>3. CASE IsOwned(r, id)
  <2>1. id \in Nat
    BY <1>1, <1>3, LocalCell
  <2>2. DiskRow(r, id - VocabStart(r)) = id
    BY <1>3, <2>1, DiskHas
  <2>3. QED
    BY <1>3, <2>1, <2>2, ShardAssumption DEF Rel
<1>4. CASE ~IsOwned(r, id)
  <2>1. IsOwned(r, VocabStart(r)) /\ VocabStart(r) - VocabStart(r) = 0
    BY <1>2 DEF IsOwned
  <2>2. DiskRow(r, 0) = VocabStart(r)
    BY <1>2, <2>1, DiskHas
  <2>3. QED
    BY <1>2, <1>4, <2>2, ShardAssumption DEF Rel
<1>5. QED
  BY <1>3, <1>4

-----------------------------------------------------------------------------
(* Gathering and fusion.                                                    *)

\* The size of a rank's chunk of the tokens, and what it makes of it.
Chunk(k) == CeilDiv(Len(Batch(k)), config.tp)
FusedWanted(r, k) ==
  IF config.sp
  THEN [i \in 1 .. Chunk(k) |->
          IF r * Chunk(k) + i <= Len(Batch(k)) THEN WantedRows(k)[r * Chunk(k) + i] ELSE <<Untouched>>]
  ELSE WantedRows(k)

\* The parts of an all-gather one after the other.
LEMMA ConcatenatedAt ==
  ASSUME config.tp \in Nat, NEW part, NEW size \in Nat,
         NEW q \in 0 .. config.tp - 1, NEW i \in 0 .. size - 1
  PROVE  Concatenated(part, size)[q * size + i + 1] = part[q][i + 1]
<1> DEFINE x == q * size + i
<1>1. /\ x \in 0 .. config.tp * size - 1 /\ x \div size = q /\ x % size = i
      /\ config.tp * size \in Nat
  BY Place, Times
<1> HIDE DEF x
<1> DEFINE n == config.tp * size
<1> HIDE DEF n
<1>2. x + 1 \in 1 .. n /\ (x + 1) - 1 = x
  BY <1>1 DEF n
<1>3. Concatenated(part, size)[x + 1] = part[((x + 1) - 1) \div size][(((x + 1) - 1) % size) + 1]
  BY <1>2 DEF Concatenated, n
<1>4. QED
  BY <1>1, <1>2, <1>3 DEF x

\* All columns of a rank's chunk of the tokens.
LEMMA ChunkRows ==
  ASSUME ConfigOK, NEW r \in Ranks, NEW k \in 1 .. 2,
         \A q \in Ranks : PartOK(q, k, sent[q][k])
  PROVE  \A j \in 1 .. Chunk(k) : r * Chunk(k) + j <= Len(Batch(k)) =>
           SpRows(r, k)[j] = Row(k, r * Chunk(k) + j)
<1> DEFINE n == Len(Batch(k))
           l == LocalHeads
           chunk == Chunk(k)
<1>1. /\ n \in Nat /\ l \in Nat \ {0} /\ Cols \in Nat \ {0} /\ config.tp \in Nat \ {0}
      /\ r \in 0 .. config.tp - 1
  BY StepTokens, Shares DEF ConfigOK, Ranks
<1>2. chunk \in Nat
  BY <1>1, Ceil DEF Chunk
<1>3. Size(k) = n * l /\ Size(k) \in Nat
  BY <1>1, Times DEF Size
<1>4. GatheredFlat(k) = Concatenated([q \in Ranks |-> sent[q][k]], Size(k))
  <2>1. 0 \in Ranks
    BY <1>1 DEF Ranks
  <2>2. QED
    BY <2>1 DEF GatheredFlat, PartOK
<1> SUFFICES ASSUME NEW j \in 1 .. chunk, r * chunk + j <= n
             PROVE  SpRows(r, k)[j] = Row(k, r * chunk + j)
  OBVIOUS
<1> DEFINE token(o) == r * chunk + (o \div Cols)
           column(o) == o % Cols
           source(o) == ((column(o) \div l) * n + token(o)) * l + (column(o) % l)
           cell(o) == IF token(o) < n THEN GatheredFlat(k)[source(o) + 1] ELSE Zero
<1>5. SpRows(r, k)[j] = [c \in 1 .. Cols |-> cell((j - 1) * Cols + c - 1)]
  BY DEF SpRows, Chunk
<1> HIDE DEF chunk, cell
<1>6. r * chunk \in Nat
  BY <1>1, <1>2
<1>7. ASSUME NEW c \in 1 .. Cols
      PROVE  cell((j - 1) * Cols + c - 1) = HashIds(config.sizes, Batch(k)[r * chunk + j].hash)[c - 1]
  <2> DEFINE o == (j - 1) * Cols + c - 1
             t == r * chunk + j - 1
             d == c - 1
  <2>1. d \in 0 .. Cols - 1 /\ j - 1 \in 0 .. chunk - 1
    BY <1>1, <1>2
  <2>2. o \div Cols = j - 1 /\ o % Cols = d
    <3>1. ((j - 1) * Cols + d) \div Cols = j - 1 /\ ((j - 1) * Cols + d) % Cols = d
      <4> DEFINE before == j - 1
      <4>1. before \in 0 .. chunk - 1 /\ chunk \in Nat /\ Cols \in Nat
        BY <1>1, <1>2, <2>1
      <4> HIDE DEF before, d
      <4>2. (before * Cols + d) \div Cols = before /\ (before * Cols + d) % Cols = d
        BY <2>1, <4>1, Place
      <4>3. QED
        BY <4>2 DEF before
    <3>2. (j - 1) * Cols \in Nat
      BY <1>1, <1>2
    <3>3. (j - 1) * Cols + d = o
      BY <1>1, <3>2
    <3>4. QED
      BY <3>1, <3>3
  <2> DEFINE rc == r * chunk
  <2>3. t \in 0 .. n - 1 /\ t + 1 = r * chunk + j /\ r * chunk + (j - 1) = t /\ t < n
    <3>1. rc \in Nat /\ rc + j <= n
      BY <1>6
    <3> HIDE DEF rc
    <3>2. rc + j - 1 \in 0 .. n - 1 /\ (rc + j - 1) + 1 = rc + j /\ rc + (j - 1) = rc + j - 1
      BY <1>1, <1>2, <3>1
    <3>3. rc + j - 1 < n
      BY <1>1, <3>2
    <3>4. QED
      BY <3>2, <3>3 DEF rc
  <2>4. token(o) = t /\ column(o) = d
    BY <2>2, <2>3
  <2> HIDE DEF o, t, d
  <2> DEFINE q == d \div l
             h == d % l
             i == t * l + h
  <2>5. /\ q \in Ranks /\ h \in 0 .. l - 1 /\ i \in 0 .. Size(k) - 1
        /\ Cell(q, k, i) = HashIds(config.sizes, Batch(k)[t + 1].hash)[d]
    BY <2>1, <2>3, CellOfColumn
  <2>6. source(o) = q * Size(k) + i
    <3>1. source(o) = (q * n + t) * l + h
      BY <2>4
    <3>2. q \in Nat /\ h \in Nat /\ t \in Nat
      BY <1>1, <2>3, <2>5 DEF Ranks
    <3> HIDE DEF q, h, source
    <3>3. (q * n + t) * l = q * (n * l) + t * l
      BY <1>1, <3>2
    <3>4. t * l \in Nat /\ q * (n * l) \in Nat
      BY <1>1, <3>2
    <3>5. QED
      BY <1>3, <3>1, <3>2, <3>3, <3>4
  <2> HIDE DEF q, h, i, source
  <2>7. GatheredFlat(k)[q * Size(k) + i + 1] = sent[q][k][i + 1]
    <3> DEFINE part == [p \in Ranks |-> sent[p][k]]
    <3>1. part[q] = sent[q][k]
      BY <2>5
    <3>2. q \in 0 .. config.tp - 1
      BY <2>5 DEF Ranks
    <3> HIDE DEF part
    <3>3. Concatenated(part, Size(k))[q * Size(k) + i + 1] = part[q][i + 1]
      BY <1>1, <1>3, <2>5, <3>2, ConcatenatedAt
    <3>4. QED
      BY <1>4, <3>1, <3>3 DEF part
  <2>8. sent[q][k][i + 1] = Cell(q, k, i)
    BY <2>5 DEF PartOK
  <2>9. cell(o) = GatheredFlat(k)[source(o) + 1]
    BY <2>3, <2>4 DEF cell
  <2>10. cell(o) = HashIds(config.sizes, Batch(k)[t + 1].hash)[d]
    BY <2>5, <2>6, <2>7, <2>8, <2>9
  <2>11. QED
    BY <2>3, <2>10 DEF o, t, d
<1>8. QED
  BY <1>5, <1>7 DEF Row

\* What a rank fuses is the unsharded model's step, or its chunk of it.
LEMMA FusedIs ==
  ASSUME ConfigOK, NEW r \in Ranks, NEW k \in 1 .. 2,
         IF config.tp = 1
         THEN /\ Len(staged[r]) \in Nat /\ Len(staged[r]) >= Size(k)
              /\ staged[r] \in Seq(Contents)
              /\ \A i \in 0 .. Size(k) - 1 : staged[r][i + 1] = Cell(r, k, i)
         ELSE \A q \in Ranks : PartOK(q, k, sent[q][k])
  PROVE  Fused(r, k) = FusedWanted(r, k)
<1> DEFINE n == Len(Batch(k))
           l == LocalHeads
<1>1. /\ n \in Nat /\ l \in Nat \ {0} /\ Cols \in Nat \ {0} /\ config.tp \in Nat \ {0}
      /\ r \in 0 .. config.tp - 1 /\ (config.tp = 1 => l = Cols)
  BY StepTokens, Shares DEF ConfigOK, Ranks
<1>2. Chunk(k) \in Nat
  BY <1>1, Ceil DEF Chunk
<1>3. WantedRows(k) = [t \in 1 .. n |-> IF Batch(k)[t].active THEN Row(k, t) ELSE <<Untouched>>]
  BY DEF WantedRows, Row
\* The rows of the rank's tokens.
<1>4. ASSUME ~config.sp, NEW t \in 1 .. n PROVE Embed(r, k)[t] = Row(k, t)
  <2>1. t - 1 \in 0 .. n - 1 /\ (t - 1) + 1 = t /\ t - 1 \in Nat
    BY <1>1
  <2>2. CASE config.tp = 1
    <3> DEFINE from == (t - 1) * Cols + 1
               to == t * Cols
               len == Len(staged[r])
    <3>1. Size(k) = n * Cols /\ r = 0 /\ l = Cols
      BY <1>1, <2>2 DEF Size
    <3>2. (t - 1) * Cols \in Nat /\ to = (t - 1) * Cols + Cols /\ to <= n * Cols /\ n * Cols \in Nat
      BY <1>1, <2>1, Times
    <3>3. from \in 1 .. len /\ to \in 1 .. len /\ from <= to /\ to - from + 1 = Cols
      <4> DEFINE before == (t - 1) * Cols
                 whole == n * Cols
                 last == t * Cols
      <4>1. before \in Nat /\ whole \in Nat /\ last = before + Cols /\ last <= whole
        BY <3>2
      <4>2. len \in Nat /\ len >= whole
        BY <2>2, <3>1
      <4> HIDE DEF before, whole, last, len
      <4>3. before + 1 \in 1 .. len /\ last \in 1 .. len /\ before + 1 <= last
            /\ last - (before + 1) + 1 = Cols
        BY <1>1, <4>1, <4>2
      <4>4. QED
        BY <4>3 DEF before, last
    <3>4. Embed(r, k)[t] = SubSeq(staged[r], from, to)
      BY <2>2 DEF Embed
    <3> HIDE DEF from, to, len
    <3>5. /\ SubSeq(staged[r], from, to) \in Seq(Contents)
          /\ Len(SubSeq(staged[r], from, to)) = Cols
          /\ \A c \in 1 .. Cols : SubSeq(staged[r], from, to)[c] = staged[r][from + c - 1]
      BY <2>2, <3>3, Slice DEF len
    <3>6. ASSUME NEW c \in 1 .. Cols
          PROVE  staged[r][from + c - 1] = HashIds(config.sizes, Batch(k)[t].hash)[c - 1]
      <4> DEFINE d == c - 1
                 i == (t - 1) * Cols + d
      <4>1. d \in 0 .. Cols - 1 /\ d \in Nat
        BY <1>1
      <4>2. d \div Cols = 0 /\ d % Cols = d
        <5> HIDE DEF d
        <5>1. d = 0 * Cols + d /\ 0 \in Nat
          BY <1>1, <4>1
        <5>2. QED
          BY <1>1, <4>1, <5>1, Place
      <4>3. from + c - 1 = i + 1
        BY <1>1, <3>2 DEF from
      <4> HIDE DEF d
      <4>4. i \in 0 .. Size(k) - 1 /\ Cell(r, k, i) = HashIds(config.sizes, Batch(k)[t].hash)[d]
        BY <2>1, <3>1, <4>1, <4>2, CellOfColumn
      <4> HIDE DEF i
      <4>5. staged[r][i + 1] = Cell(r, k, i)
        BY <2>2, <4>4
      <4>6. QED
        BY <4>3, <4>4, <4>5 DEF d
    <3>7. SubSeq(staged[r], from, to) = [c \in 1 .. Cols |-> staged[r][from + c - 1]]
      <4> DEFINE s == SubSeq(staged[r], from, to)
      <4>1. s \in Seq(Contents) /\ Len(s) = Cols /\ \A c \in 1 .. Cols : s[c] = staged[r][from + c - 1]
        BY <3>5
      <4> HIDE DEF s
      <4>2. s = [c \in 1 .. Cols |-> s[c]]
        BY <4>1
      <4>3. QED
        BY <4>1, <4>2 DEF s
    <3>8. QED
      BY <3>4, <3>6, <3>7 DEF Row
  <2>3. CASE config.tp # 1
    <3>1. Embed(r, k)[t] = [c \in 1 .. Cols |->
            sent[(c - 1) \div l][k][(t - 1) * l + ((c - 1) % l) + 1]]
      BY <1>4, <2>3 DEF Embed
    <3>2. ASSUME NEW c \in 1 .. Cols
          PROVE  sent[(c - 1) \div l][k][(t - 1) * l + ((c - 1) % l) + 1]
                   = HashIds(config.sizes, Batch(k)[t].hash)[c - 1]
      <4> DEFINE q == (c - 1) \div l
                 i == (t - 1) * l + ((c - 1) % l)
      <4>1. c - 1 \in 0 .. Cols - 1
        BY <1>1
      <4>2. /\ q \in Ranks /\ i \in 0 .. Size(k) - 1
            /\ Cell(q, k, i) = HashIds(config.sizes, Batch(k)[(t - 1) + 1].hash)[c - 1]
        BY <2>1, <4>1, CellOfColumn
      <4> HIDE DEF q, i
      <4>3. sent[q][k][i + 1] = Cell(q, k, i)
        BY <2>3, <4>2 DEF PartOK
      <4>4. QED
        BY <2>1, <4>2, <4>3 DEF q, i
    <3>3. QED
      BY <3>1, <3>2 DEF Row
  <2>4. QED
    BY <2>2, <2>3
<1>5. CASE ~config.sp
  <2>1. Fused(r, k) = [i \in 1 .. n |->
          IF i <= LesserOf(n, n - 0) /\ Batch(k)[0 + i].active THEN Embed(r, k)[i] ELSE <<Untouched>>]
    BY <1>5 DEF Fused
  <2>2. \A i \in 1 .. n : i <= LesserOf(n, n - 0) /\ 0 + i = i
    BY <1>1 DEF LesserOf
  <2>3. Fused(r, k) = WantedRows(k)
    BY <1>3, <1>4, <1>5, <2>1, <2>2
  <2>4. QED
    BY <1>5, <2>3 DEF FusedWanted
<1>6. CASE config.sp
  <2> DEFINE chunk == Chunk(k)
             start == LesserOf(r * chunk, n)
             kv == LesserOf(chunk, n - start)
  <2>1. config.tp # 1 /\ Embed(r, k) = SpRows(r, k)
    BY <1>1, <1>6 DEF Embed, ConfigOK
  <2>2. Fused(r, k) = [i \in 1 .. chunk |->
          IF i <= kv /\ Batch(k)[start + i].active THEN SpRows(r, k)[i] ELSE <<Untouched>>]
    BY <1>6, <2>1 DEF Fused, Chunk
  <2>3. r * chunk \in Nat
    BY <1>1, <1>2
  <2> HIDE DEF chunk
  <2>4. ASSUME NEW i \in 1 .. chunk
        PROVE  (IF i <= kv /\ Batch(k)[start + i].active THEN SpRows(r, k)[i] ELSE <<Untouched>>)
                 = IF r * chunk + i <= n THEN WantedRows(k)[r * chunk + i] ELSE <<Untouched>>
    <3> DEFINE rc == r * chunk
    <3>1. rc \in Nat /\ i \in Nat \ {0} /\ chunk \in Nat /\ i <= chunk
      BY <1>2, <2>3 DEF chunk
    <3>2. CASE rc + i <= n
      <4>1. start = rc /\ i <= kv /\ rc + i \in 1 .. n
        <5> HIDE DEF rc
        <5>1. rc <= n /\ i <= n - rc /\ rc + i \in 1 .. n
          BY <1>1, <3>1, <3>2
        <5>2. start = rc
          BY <5>1 DEF LesserOf, rc
        <5>3. i <= kv
          BY <3>1, <5>1, <5>2 DEF LesserOf
        <5>4. QED
          BY <5>1, <5>2, <5>3
      <4>2. SpRows(r, k)[i] = Row(k, rc + i)
        BY <2>1, <3>2, ChunkRows DEF chunk
      <4>3. WantedRows(k)[rc + i] = IF Batch(k)[rc + i].active THEN Row(k, rc + i) ELSE <<Untouched>>
        BY <1>3, <4>1
      <4> HIDE DEF rc, start, kv
      <4>4. QED
        BY <3>2, <4>1, <4>2, <4>3 DEF rc
    <3>3. CASE ~ (rc + i <= n)
      <4>1. ~ (i <= kv)
        <5> HIDE DEF rc
        <5>1. CASE rc <= n
          <6>1. start = rc
            BY <5>1 DEF LesserOf, rc
          <6>2. ~ (i <= n - rc) /\ n - rc \in Int
            BY <1>1, <3>1, <3>3
          <6>3. QED
            BY <3>1, <6>1, <6>2 DEF LesserOf
        <5>2. CASE ~ (rc <= n)
          <6>1. start = n /\ n - n = 0
            BY <1>1, <5>2 DEF LesserOf, rc
          <6>2. kv <= 0
            BY <3>1, <6>1 DEF LesserOf
          <6>3. kv \in Int
            BY <3>1, <6>1 DEF LesserOf
          <6>4. QED
            BY <3>1, <6>2, <6>3
        <5>3. QED
          BY <5>1, <5>2
      <4>2. QED
        BY <3>3, <4>1
    <3>4. QED
      BY <3>2, <3>3
  <2> HIDE DEF start, kv
  <2>5. Fused(r, k) = [i \in 1 .. chunk |->
          IF r * chunk + i <= n THEN WantedRows(k)[r * chunk + i] ELSE <<Untouched>>]
    BY <2>2, <2>4
  <2>6. QED
    BY <1>6, <2>5 DEF FusedWanted, chunk
<1>7. QED
  BY <1>5, <1>6

-----------------------------------------------------------------------------
(* The inductive invariant.                                                 *)

\* The table fits the checkpoint's, and the rank reads its rows from the right place.
Built(r) ==
  pc[r] \in {"load", "lookup", "gather", "embed", "done"} =>
    /\ RowsBefore(config.sizes, Cols) <= NumEmbeddings
    /\ Len(staged[r]) = MaxTokens * LocalHeads
    /\ config.mode \in DiskModes =>
         pc[r] # "load" /\ dir[r] = LocalDir(r) /\ VocabEnd(r) <= TableRows
    /\ config.mode \notin DiskModes /\ pc[r] # "load" => shard[r] = Loaded(r)

\* What the rank keeps.
Stored(r) ==
  /\ dir[r] \in {"model", "local", None}
  /\ \/ shard[r] = <<>>
     \/ shard[r] = Loaded(r) /\ RowsBefore(config.sizes, Cols) <= NumEmbeddings
  /\ staged[r] \in Seq(Contents)

\* A step's rows are staged until the rank has passed them on, or used them where
\* there is no other rank.
Looked(r) ==
  pc[r] = "gather" \/ (pc[r] = "embed" /\ config.tp = 1) =>
    \A i \in 0 .. Size(StepOf(r)) - 1 : staged[r][i + 1] = Cell(r, StepOf(r), i)

\* Two steps, and one all-gather for each.
Counted(r) ==
  /\ Len(output[r]) \in 0 .. 2
  /\ pc[r] # "done" => Len(output[r]) < 2
  /\ pc[r] = "gather" => config.tp # 1
  /\ IF config.tp = 1 THEN sent[r] = <<>>
     ELSE Len(sent[r]) = Len(output[r]) + (IF pc[r] = "embed" THEN 1 ELSE 0)

\* The parts the rank has given.
PartsGiven(r) ==
  /\ sent[r] \in Seq(Seq(Contents))
  /\ \A k \in 1 .. Len(sent[r]) : PartOK(r, k, sent[r][k])

\* The steps it has finished.
StepsDone(r) ==
  /\ output[r] \in Seq({FusedWanted(r, k) : k \in 1 .. 2})
  /\ \A k \in 1 .. Len(output[r]) : output[r][k] = FusedWanted(r, k)

FailsForAReason(r) ==
  pc[r] = "failed" /\ (OwnsHeads(r) \/ config.mode \notin DiskModes) => Excused(r)

RankOK(r) ==
  /\ pc[r] \in {"construct", "load", "lookup", "gather", "embed", "done", "failed"}
  /\ Built(r) /\ Stored(r) /\ Looked(r) /\ Counted(r) /\ PartsGiven(r) /\ StepsDone(r)
  /\ FailsForAReason(r)

OnRanks ==
  /\ pc = [q \in Ranks |-> pc[q]] /\ dir = [q \in Ranks |-> dir[q]]
  /\ shard = [q \in Ranks |-> shard[q]] /\ staged = [q \in Ranks |-> staged[q]]
  /\ sent = [q \in Ranks |-> sent[q]] /\ output = [q \in Ranks |-> output[q]]

Inv == ConfigOK /\ OnRanks /\ \A r \in Ranks : RankOK(r)

\* Everything that is derived from the deployment stays as it is.
LEMMA ConfigKept ==
  ASSUME config' = config
  PROVE  /\ Ranks' = Ranks /\ Cols' = Cols /\ LocalHeads' = LocalHeads
         /\ NumEmbeddings' = NumEmbeddings /\ Contents' = Contents
         /\ TableRows' = TableRows
         /\ \A r : VocabEnd(r)' = VocabEnd(r) /\ (Excused(r)' <=> Excused(r))
         /\ ConfigOK => ConfigOK'
         /\ \A r : Loaded(r)' = Loaded(r) /\ LocalDir(r)' = LocalDir(r)
         /\ \A r : OwnsHeads(r)' <=> OwnsHeads(r)
         /\ \A k : Size(k)' = Size(k)
         /\ \A r, k, i : Cell(r, k, i)' = Cell(r, k, i)
         /\ \A r, k : FusedWanted(r, k)' = FusedWanted(r, k)
<1>1. Ranks' = Ranks /\ Cols' = Cols /\ LocalHeads' = LocalHeads
  BY DEF Ranks, Cols, LocalHeads
<1>2. NumEmbeddings' = NumEmbeddings
  BY <1>1 DEF NumEmbeddings
<1>3. Contents' = Contents
  BY <1>2 DEF Contents
<1>4. ConfigOK => ConfigOK'
  BY DEF ConfigOK
<1>5. \A r : HeadStart(r)' = HeadStart(r)
  BY <1>1 DEF HeadStart
<1>6. \A r : VocabStart(r)' = VocabStart(r) /\ VocabEnd(r)' = VocabEnd(r)
  BY <1>1, <1>5 DEF VocabStart, VocabEnd
<1>7. \A r : NumRows(r)' = NumRows(r)
  BY <1>6 DEF NumRows
<1>8. \A r : Loaded(r)' = Loaded(r)
  BY <1>6, <1>7 DEF Loaded
<1>9. \A r : LocalDir(r)' = LocalDir(r)
  BY <1>6, <1>7 DEF LocalDir
<1>10. \A r : OwnsHeads(r)' <=> OwnsHeads(r)
  BY <1>1, <1>5 DEF OwnsHeads
<1>11. \A k : Batch(k)' = Batch(k)
  BY DEF Batch
<1>12. \A k : Size(k)' = Size(k) /\ Chunk(k)' = Chunk(k)
  BY <1>1, <1>11 DEF Size, Chunk
<1>13. \A r, k, i : Cell(r, k, i)' = Cell(r, k, i)
  BY <1>1, <1>5, <1>11 DEF Cell
<1>14. \A k : WantedRows(k)' = WantedRows(k)
  BY <1>1, <1>11 DEF WantedRows
<1>15. \A r, k : FusedWanted(r, k)' = FusedWanted(r, k)
  BY <1>11, <1>12, <1>14 DEF FusedWanted
<1>16. TableRows' = TableRows
  BY <1>2 DEF TableRows
<1>17. \A r : Excused(r)' <=> Excused(r)
  BY <1>6, <1>16 DEF Excused
<1>18. QED
  BY <1>1, <1>2, <1>3, <1>4, <1>6, <1>8, <1>9, <1>10, <1>12, <1>13, <1>15, <1>16, <1>17

\* The parts a rank has given stay what they are.
LEMMA PartsKept ==
  ASSUME config' = config, NEW q, sent'[q] = sent[q], PartsGiven(q)
  PROVE  PartsGiven(q)'
<1>1. Contents' = Contents
      /\ (\A k : Size(k)' = Size(k))
      /\ \A k, i : Cell(q, k, i)' = Cell(q, k, i)
  BY ConfigKept
<1>2. sent'[q] \in Seq(Seq(Contents'))
  BY <1>1 DEF PartsGiven
<1>3. ASSUME NEW k \in 1 .. Len(sent'[q]) PROVE PartOK(q, k, sent[q][k])'
  <2>1. PartOK(q, k, sent[q][k])
    BY <1>3 DEF PartsGiven
  <2>2. QED
    BY <1>1, <2>1 DEF PartOK
<1>4. QED
  BY <1>2, <1>3 DEF PartsGiven

\* A rank that does nothing stays right.
LEMMA Others ==
  ASSUME config' = config, NEW q, RankOK(q),
         pc'[q] = pc[q], dir'[q] = dir[q], shard'[q] = shard[q], staged'[q] = staged[q],
         sent'[q] = sent[q], output'[q] = output[q]
  PROVE  RankOK(q)'
<1>1. pc'[q] \in {"construct", "load", "lookup", "gather", "embed", "done", "failed"}
  BY DEF RankOK
<1>2. Built(q)'
  BY ConfigKept DEF RankOK, Built
<1>3. Stored(q)'
  BY ConfigKept DEF RankOK, Stored
<1>4. Looked(q)'
  BY ConfigKept DEF RankOK, Looked, StepOf
<1>5. Counted(q)'
  BY DEF RankOK, Counted
<1>6. PartsGiven(q)'
  BY PartsKept DEF RankOK
<1>7. StepsDone(q)'
  BY ConfigKept DEF RankOK, StepsDone
<1>8. FailsForAReason(q)'
  BY ConfigKept DEF RankOK, FailsForAReason
<1>9. QED
  BY <1>1, <1>2, <1>3, <1>4, <1>5, <1>6, <1>7, <1>8 DEF RankOK

LEMMA InitInv == Init => Inv
<1> SUFFICES ASSUME Init PROVE Inv
  OBVIOUS
<1>1. /\ config \in [tp : TpSizes, sizes : {HeadSizes(l) : l \in Layouts}, slack : Slack,
                     surplus : Surplus, mode : Modes, sp : BOOLEAN, capture : BOOLEAN,
                     trailing : BOOLEAN, map : Maps \cup {None}, steps : Steps,
                     uva : BOOLEAN, sound : BOOLEAN]
      /\ config.sp => config.tp > 1
  BY DEF Init
<1>2. SizesOK(config.sizes)
  <2>1. config.sizes \in {HeadSizes(l) : l \in Layouts}
    BY <1>1
  <2>2. QED
    BY <2>1, SizesOfLayout
<1>3. ConfigOK
  BY <1>1, <1>2, ShardAssumption DEF ConfigOK
<1>4. OnRanks
  BY DEF Init, OnRanks
<1>5. ASSUME NEW r \in Ranks PROVE RankOK(r)
  <2>1. /\ pc[r] = "construct" /\ dir[r] = None /\ shard[r] = <<>> /\ staged[r] = <<>>
        /\ sent[r] = <<>> /\ output[r] = <<>>
    BY DEF Init
  <2>2. Stored(r)
    BY <2>1 DEF Stored
  <2>3. Counted(r)
    BY <2>1 DEF Counted
  <2>4. PartsGiven(r)
    BY <2>1 DEF PartsGiven
  <2>5. StepsDone(r)
    BY <2>1 DEF StepsDone
  <2>6. QED
    BY <2>1, <2>2, <2>3, <2>4, <2>5 DEF RankOK, Built, Looked, FailsForAReason
<1>6. QED
  BY <1>3, <1>4, <1>5 DEF Inv

\* A step of one rank.
Only(r) ==
  /\ config' = config /\ OnRanks'
  /\ \A q \in Ranks \ {r} :
       /\ pc'[q] = pc[q] /\ dir'[q] = dir[q] /\ shard'[q] = shard[q]
       /\ staged'[q] = staged[q] /\ sent'[q] = sent[q] /\ output'[q] = output[q]

LEMMA RankInv ==
  ASSUME Inv, NEW r \in Ranks, Only(r), RankOK(r)'
  PROVE  Inv'
<1>1. ConfigOK' /\ Ranks' = Ranks
  BY ConfigKept DEF Inv, Only
<1>2. \A q \in Ranks : RankOK(q)'
  <2> TAKE q \in Ranks
  <2>1. CASE q = r
    BY <2>1
  <2>2. CASE q # r
    BY <2>2, Others DEF Inv, Only
  <2>3. QED
    BY <2>1, <2>2
<1>3. QED
  BY <1>1, <1>2 DEF Inv, Only

\* A table is built only if the layout's rows fit in it.
LEMMA ConstructOK ==
  ASSUME Inv, NEW r \in Ranks, Construct(r)
  PROVE  Inv'
<1> DEFINE disk == config.mode \in DiskModes
           rows == RowsBefore(config.sizes, Cols)
           bad == \/ rows > NumEmbeddings
                  \/ config.mode = "offload" /\ ~config.uva
                  \/ disk /\ ~InTable(r)
                  \/ /\ config.mode = "prestaged"
                     /\ LesserOf(HeadStart(r) + LocalHeads, Cols) - HeadStart(r) < 0
           stops == /\ bad \/ ~config.sound
                    /\ pc' = [pc EXCEPT ![r] = "failed"] /\ dir' = dir /\ staged' = staged
           zeros == [i \in 1 .. MaxTokens * LocalHeads |-> Zero]
<1>1. /\ ConfigOK /\ OnRanks /\ RankOK(r) /\ pc[r] = "construct"
      /\ config' = config /\ shard' = shard /\ sent' = sent /\ output' = output
  BY DEF Inv, Construct
<1>2. CASE stops
  <2>1. pc' = [pc EXCEPT ![r] = "failed"] /\ dir' = dir /\ staged' = staged
    BY <1>2
  <2>2. Only(r) /\ pc'[r] = "failed"
    BY <1>1, <2>1, ConfigKept DEF Only, OnRanks
  <2>3. FailsForAReason(r)'
    <3>1. /\ config.slack \in Int /\ rows \in Nat /\ VocabStart(r) \in Nat /\ VocabEnd(r) \in Nat
          /\ HeadStart(r) \in Nat /\ LocalHeads \in Nat /\ Cols \in Nat
      BY <1>1, OwnRows, Shares DEF ConfigOK
    <3> HIDE DEF rows
    <3>2. CASE rows > NumEmbeddings
      <4>1. config.slack < 0
        BY <3>1, <3>2 DEF NumEmbeddings, rows
      <4>2. QED
        BY <1>1, <4>1, ConfigKept DEF FailsForAReason, Excused
    <3>3. CASE config.mode = "offload" /\ ~config.uva
      BY <1>1, <3>3, ConfigKept DEF FailsForAReason, Excused
    <3>4. CASE disk /\ ~InTable(r)
      <4>1. TableRows \in Int
        BY <1>1, <3>1 DEF ConfigOK, NumEmbeddings, TableRows, rows
      <4>2. VocabEnd(r) > TableRows
        BY <3>1, <3>4, <4>1 DEF InTable, NumRows
      <4>3. QED
        BY <1>1, <4>2, ConfigKept DEF FailsForAReason, Excused
    <3>5. CASE config.mode = "prestaged" /\ LesserOf(HeadStart(r) + LocalHeads, Cols) - HeadStart(r) < 0
      <4>1. ~ (HeadStart(r) < Cols)
        BY <3>1, <3>5 DEF LesserOf
      <4>2. config.mode \in DiskModes /\ ~OwnsHeads(r)
        BY <3>5, <4>1 DEF DiskModes, OwnsHeads
      <4>3. QED
        BY <1>1, <4>2, ConfigKept DEF FailsForAReason
    <3>6. CASE ~config.sound
      BY <1>1, <3>6, ConfigKept DEF FailsForAReason, Excused
    <3>7. QED
      BY <1>2, <3>2, <3>3, <3>4, <3>5, <3>6
  <2>4. Counted(r)'
    BY <1>1, <2>2 DEF RankOK, Counted
  <2>5. Stored(r)'
    BY <1>1, <2>1, ConfigKept DEF RankOK, Stored
  <2>6. PartsGiven(r)'
    BY <1>1, PartsKept DEF RankOK
  <2>7. StepsDone(r)'
    BY <1>1, ConfigKept DEF RankOK, StepsDone
  <2>8. RankOK(r)'
    BY <2>2, <2>3, <2>4, <2>5, <2>6, <2>7 DEF RankOK, Built, Looked
  <2>9. QED
    BY <2>2, <2>8, RankInv
<1>3. CASE ~stops
  <2>1. /\ ~bad
        /\ dir' = [dir EXCEPT ![r] = IF disk THEN LocalDir(r) ELSE None]
        /\ staged' = [staged EXCEPT ![r] = zeros]
        /\ pc' = [pc EXCEPT ![r] = IF disk THEN "lookup" ELSE "load"]
    BY <1>3 DEF Construct, Goto
  <2> HIDE DEF stops
  <2> HIDE DEF zeros
  <2>2. /\ Only(r)
        /\ dir'[r] = IF disk THEN LocalDir(r) ELSE None
        /\ staged'[r] = zeros
        /\ pc'[r] = IF disk THEN "lookup" ELSE "load"
    BY <1>1, <2>1, ConfigKept DEF Only, OnRanks
  <2>3. zeros \in Seq(Contents) /\ Len(zeros) = MaxTokens * LocalHeads
    <3> DEFINE n == MaxTokens * LocalHeads
    <3>1. n \in Nat
      BY <1>1, Shares, Times, ShardAssumption
    <3>2. Zero \in Contents
      BY DEF Contents
    <3> HIDE DEF n
    <3>3. zeros \in [1 .. n -> Contents]
      BY <3>2 DEF zeros, n
    <3>4. zeros \in Seq(Contents) /\ Len(zeros) = n
      BY <3>1, <3>3
    <3>5. QED
      BY <3>4 DEF n
  <2>4. rows <= NumEmbeddings
    <3>1. rows \in Nat /\ NumEmbeddings \in Int
      BY <1>1, OwnRows DEF NumEmbeddings, ConfigOK
    <3>2. QED
      BY <2>1, <3>1
  <2>13. disk => VocabEnd(r) <= TableRows
    <3>1. VocabStart(r) \in Nat /\ VocabEnd(r) \in Nat /\ rows \in Nat
      BY <1>1, OwnRows
    <3>2. TableRows \in Int
      BY <1>1, <3>1 DEF ConfigOK, NumEmbeddings, TableRows
    <3>3. QED
      BY <2>1, <3>1, <3>2 DEF InTable, NumRows
  <2>5. LocalDir(r) \in {"model", "local"}
    BY DEF LocalDir
  <2>6. Built(r)'
    BY <1>1, <2>2, <2>3, <2>4, <2>13, ConfigKept DEF Built
  <2>7. Counted(r)'
    BY <1>1, <2>2 DEF RankOK, Counted
  <2>8. Stored(r)'
    BY <1>1, <2>2, <2>3, <2>5, ConfigKept DEF RankOK, Stored
  <2>9. PartsGiven(r)'
    BY <1>1, PartsKept DEF RankOK
  <2>10. StepsDone(r)'
    BY <1>1, ConfigKept DEF RankOK, StepsDone
  <2>11. RankOK(r)'
    BY <2>2, <2>6, <2>7, <2>8, <2>9, <2>10 DEF RankOK, Looked, FailsForAReason
  <2>12. QED
    BY <2>2, <2>11, RankInv
<1>4. QED
  BY <1>2, <1>3

\* The rank's rows are copied out of a table that holds them.
LEMMA LoadWeightsOK ==
  ASSUME Inv, NEW r \in Ranks, LoadWeights(r)
  PROVE  Inv'
<1> DEFINE stops == /\ ~InTable(r) \/ ~config.sound
                    /\ pc' = [pc EXCEPT ![r] = "failed"] /\ shard' = shard
<1>1. /\ ConfigOK /\ OnRanks /\ RankOK(r) /\ pc[r] = "load"
      /\ config' = config /\ dir' = dir /\ staged' = staged /\ sent' = sent /\ output' = output
  BY DEF Inv, LoadWeights
<1>2. CASE stops
  <2>1. Only(r) /\ pc'[r] = "failed" /\ shard' = shard
    BY <1>1, <1>2, ConfigKept DEF Only, OnRanks
  <2>2. FailsForAReason(r)'
    <3>1. CASE ~config.sound
      BY <1>1, <3>1, ConfigKept DEF FailsForAReason, Excused
    <3>2. CASE ~InTable(r)
      <4>1. /\ VocabStart(r) \in Nat /\ VocabEnd(r) \in Nat
            /\ RowsBefore(config.sizes, Cols) \in Nat
        BY <1>1, OwnRows
      <4>2. TableRows \in Int
        BY <1>1, <4>1 DEF ConfigOK, NumEmbeddings, TableRows
      <4>3. VocabEnd(r) > TableRows
        BY <3>2, <4>1, <4>2 DEF InTable, NumRows
      <4>4. QED
        BY <1>1, <4>3, ConfigKept DEF FailsForAReason, Excused
    <3>3. QED
      BY <1>2, <3>1, <3>2
  <2>3. Counted(r)'
    BY <1>1, <2>1 DEF RankOK, Counted
  <2>4. Stored(r)'
    BY <1>1, <2>1, ConfigKept DEF RankOK, Stored
  <2>5. PartsGiven(r)'
    BY <1>1, PartsKept DEF RankOK
  <2>6. StepsDone(r)'
    BY <1>1, ConfigKept DEF RankOK, StepsDone
  <2>7. RankOK(r)'
    BY <2>1, <2>2, <2>3, <2>4, <2>5, <2>6 DEF RankOK, Built, Looked
  <2>8. QED
    BY <2>1, <2>7, RankInv
<1>3. CASE ~stops
  <2>1. shard' = [shard EXCEPT ![r] = Loaded(r)] /\ pc' = [pc EXCEPT ![r] = "lookup"]
    BY <1>3 DEF LoadWeights, Goto, Loaded
  <2>2. Only(r) /\ pc'[r] = "lookup" /\ shard'[r] = Loaded(r)
    BY <1>1, <2>1, ConfigKept DEF Only, OnRanks
  <2>3. Built(r)'
    BY <1>1, <2>2, ConfigKept DEF RankOK, Built
  <2>4. Counted(r)'
    BY <1>1, <2>2 DEF RankOK, Counted
  <2>5. Stored(r)'
    BY <1>1, <2>2, ConfigKept DEF RankOK, Built, Stored
  <2>6. PartsGiven(r)'
    BY <1>1, PartsKept DEF RankOK
  <2>7. StepsDone(r)'
    BY <1>1, ConfigKept DEF RankOK, StepsDone
  <2>8. RankOK(r)'
    BY <2>2, <2>3, <2>4, <2>5, <2>6, <2>7 DEF RankOK, Looked, FailsForAReason
  <2>9. QED
    BY <2>2, <2>8, RankInv
<1>4. QED
  BY <1>2, <1>3

LEMMA SwapDataOK ==
  ASSUME Inv, NEW r \in Ranks, SwapData(r)
  PROVE  Inv'
<1>1. /\ RankOK(r) /\ config' = config /\ pc' = pc /\ dir' = dir /\ shard' = shard
      /\ staged' = staged /\ sent' = sent /\ output' = output
  BY DEF Inv, SwapData
<1>2. Only(r)
  BY <1>1, ConfigKept DEF Inv, Only, OnRanks
<1>3. RankOK(r)'
  BY <1>1, Others
<1>4. QED
  BY <1>2, <1>3, RankInv

\* A lookup stages the cells of the rank's part, or fails for a reason.
LEMMA LookupOK ==
  ASSUME Inv, NEW r \in Ranks, Lookup(r)
  PROVE  Inv'
<1> DEFINE k == StepOf(r)
           ids == Ids(k)
           disk == config.mode \in DiskModes
           reads == disk /\ ids # <<>>
           fails == reads /\ (ReadFails(r, ids) \/ (config.mode = "in_forward" /\ config.capture))
           row(i) == IF reads THEN Gathered(r, ids, i) ELSE KernelRow(r, LocalId(r, ids, i), Storage(r))
           stops == /\ fails \/ (reads /\ ~config.sound)
                    /\ pc' = [pc EXCEPT ![r] = "failed"] /\ staged' = staged
           rows == [i \in DOMAIN staged[r] |-> IF i - 1 \in FlatRows(ids) THEN row(i - 1) ELSE staged[r][i]]
<1>1. /\ ConfigOK /\ OnRanks /\ RankOK(r) /\ pc[r] = "lookup"
      /\ config' = config /\ dir' = dir /\ shard' = shard /\ sent' = sent /\ output' = output
  BY DEF Inv, Lookup
<1>2. k \in 1 .. 2 /\ k = Len(output[r]) + 1
  BY <1>1 DEF RankOK, Counted, StepOf
<1>3. /\ RowsBefore(config.sizes, Cols) <= NumEmbeddings
      /\ staged[r] \in Seq(Contents) /\ Len(staged[r]) = MaxTokens * LocalHeads
      /\ disk => dir[r] = LocalDir(r) /\ VocabEnd(r) <= TableRows
      /\ ~disk => shard[r] = Loaded(r)
  BY <1>1 DEF RankOK, Built, Stored
<1>4. VocabEnd(r) <= NumEmbeddings
  <2>1. VocabEnd(r) \in Nat /\ VocabEnd(r) <= RowsBefore(config.sizes, Cols)
        /\ RowsBefore(config.sizes, Cols) \in Nat /\ NumEmbeddings \in Int
    BY <1>1, OwnRows DEF NumEmbeddings, ConfigOK
  <2>2. QED
    BY <1>3, <2>1
<1> HIDE DEF k
<1>5. CASE stops
  <2>1. pc' = [pc EXCEPT ![r] = "failed"] /\ staged' = staged
    BY <1>5
  <2>2. Only(r) /\ pc'[r] = "failed"
    BY <1>1, <2>1, ConfigKept DEF Only, OnRanks
  <2>3. FailsForAReason(r)'
    <3>1. CASE Excused(r)
      BY <1>1, <3>1, ConfigKept DEF FailsForAReason
    <3>2. CASE ~Excused(r)
      <4>1. ReadFails(r, ids) /\ disk /\ dir[r] = LocalDir(r) /\ VocabEnd(r) <= TableRows
        BY <1>3, <1>5, <3>2 DEF Excused
      <4>2. ~OwnsHeads(r)
        BY <1>1, <1>2, <4>1, ReadsEnd
      <4>3. QED
        BY <1>1, <4>1, <4>2, ConfigKept DEF FailsForAReason
    <3>3. QED
      BY <3>1, <3>2
  <2>4. Counted(r)'
    BY <1>1, <2>2 DEF RankOK, Counted
  <2>5. Stored(r)'
    BY <1>1, <2>1, ConfigKept DEF RankOK, Stored
  <2>6. PartsGiven(r)'
    BY <1>1, PartsKept DEF RankOK
  <2>7. StepsDone(r)'
    BY <1>1, ConfigKept DEF RankOK, StepsDone
  <2>8. RankOK(r)'
    BY <2>2, <2>3, <2>4, <2>5, <2>6, <2>7 DEF RankOK, Built, Looked
  <2>9. QED
    BY <2>2, <2>8, RankInv
<1>6. CASE ~stops
  <2> DEFINE next == IF config.tp = 1 THEN "embed" ELSE "gather"
             m == MaxTokens * LocalHeads
  <2>1. staged' = [staged EXCEPT ![r] = rows] /\ pc' = [pc EXCEPT ![r] = next]
    BY <1>6 DEF Lookup, Goto, k
  <2> HIDE DEF stops
  <2>2. \A i \in 0 .. Size(k) - 1 : row(i) = Cell(r, k, i)
    <3>1. CASE disk /\ ids = <<>>
      <4>1. Len(ids) = 0
        BY <3>1
      <4>2. Size(k) = 0
        BY <1>1, <1>2, <4>1, StepTokens, Shares DEF Size
      <4>3. QED
        BY <4>2
    <3>2. CASE ~disk
      BY <1>1, <1>2, <1>3, <3>2, KernelFinds
    <3>3. CASE reads
      BY <1>1, <1>2, <1>3, <3>3, DiskFinds
    <3>4. QED
      BY <3>1, <3>2, <3>3
  <2>3. FlatRows(ids) = 0 .. Size(k) - 1
    BY <1>1, <1>2, StepTokens DEF FlatRows, Size
  <2>4. Size(k) \in Nat /\ m \in Nat /\ Size(k) <= m
    BY <1>1, <1>2, StepTokens, Shares, Times DEF Size
  <2>5. \A i \in 0 .. Size(k) - 1 : Cell(r, k, i) \in Contents
    BY <1>1, <1>2, <1>4, CellContents
  <2> HIDE DEF row
  <2>6. /\ rows \in Seq(Contents) /\ Len(rows) = m
        /\ \A i \in 0 .. Size(k) - 1 : rows[i + 1] = Cell(r, k, i)
    <3> HIDE DEF m, ids
    <3>1. DOMAIN staged[r] = 1 .. m /\ \A i \in 1 .. m : staged[r][i] \in Contents
      BY <1>3, <2>4 DEF m
    <3>2. \A i \in 1 .. m : rows[i] \in Contents
      BY <2>2, <2>3, <2>5, <3>1
    <3>3. rows \in [1 .. m -> Contents]
      BY <3>1, <3>2
    <3>4. ASSUME NEW i \in 0 .. Size(k) - 1 PROVE rows[i + 1] = Cell(r, k, i)
      <4>1. i + 1 \in 1 .. m /\ (i + 1) - 1 = i
        BY <2>4
      <4>2. QED
        BY <2>2, <2>3, <3>1, <4>1
    <3> HIDE DEF rows
    <3>5. rows \in Seq(Contents) /\ Len(rows) = m
      BY <2>4, <3>3
    <3>6. QED
      BY <3>4, <3>5
  <2> HIDE DEF rows
  <2>7. Only(r) /\ pc'[r] = next /\ staged'[r] = rows
    BY <1>1, <2>1, ConfigKept DEF Only, OnRanks
  <2>8. Built(r)'
    BY <1>1, <1>3, <2>6, <2>7, ConfigKept DEF Built
  <2>9. Counted(r)'
    BY <1>1, <2>7 DEF RankOK, Counted
  <2>10. Stored(r)'
    BY <1>1, <2>6, <2>7, ConfigKept DEF RankOK, Stored
  <2>11. PartsGiven(r)'
    BY <1>1, PartsKept DEF RankOK
  <2>12. StepsDone(r)'
    BY <1>1, ConfigKept DEF RankOK, StepsDone
  <2>13. Looked(r)'
    <3>1. StepOf(r)' = k
      BY <1>1 DEF StepOf, k
    <3>2. QED
      BY <1>1, <2>6, <2>7, <3>1, ConfigKept DEF Looked
  <2>14. RankOK(r)'
    BY <2>7, <2>8, <2>9, <2>10, <2>11, <2>12, <2>13 DEF RankOK, FailsForAReason
  <2>15. QED
    BY <2>7, <2>14, RankInv
<1>7. QED
  BY <1>5, <1>6

\* A rank gives its part.
LEMMA AllGatherOK ==
  ASSUME Inv, NEW r \in Ranks, AllGather(r)
  PROVE  Inv'
<1> DEFINE k == StepOf(r)
           part == SubSeq(staged[r], 1, Size(k))
           m == MaxTokens * LocalHeads
<1>1. /\ ConfigOK /\ OnRanks /\ RankOK(r) /\ pc[r] = "gather"
      /\ config' = config /\ dir' = dir /\ shard' = shard /\ staged' = staged /\ output' = output
      /\ pc' = [pc EXCEPT ![r] = "embed"]
  BY DEF Inv, AllGather, Goto
<1>2. sent' = [sent EXCEPT ![r] = Append(sent[r], part)]
  BY DEF AllGather, Given, Size
<1>3. /\ k \in 1 .. 2 /\ k = Len(output[r]) + 1 /\ config.tp # 1 /\ Len(sent[r]) = k - 1
      /\ sent[r] \in Seq(Seq(Contents))
  BY <1>1 DEF RankOK, Counted, PartsGiven, StepOf
<1>4. /\ staged[r] \in Seq(Contents) /\ Len(staged[r]) = m
      /\ \A i \in 0 .. Size(k) - 1 : staged[r][i + 1] = Cell(r, k, i)
  BY <1>1 DEF RankOK, Built, Stored, Looked
<1>5. Size(k) \in Nat /\ m \in Nat /\ Size(k) <= m
  BY <1>1, <1>3, StepTokens, Shares, Times DEF Size
<1> HIDE DEF k, m
<1>6. part \in Seq(Contents) /\ PartOK(r, k, part)
  <2>1. CASE Size(k) = 0
    <3>1. part = <<>>
      BY <1>4, <2>1
    <3>2. QED
      BY <2>1, <3>1 DEF PartOK
  <2>2. CASE Size(k) # 0
    <3>1. 1 \in 1 .. Len(staged[r]) /\ Size(k) \in 1 .. Len(staged[r]) /\ 1 <= Size(k)
      BY <1>4, <1>5, <2>2
    <3>2. /\ part \in Seq(Contents) /\ Len(part) = Size(k) - 1 + 1
          /\ \A c \in 1 .. Size(k) - 1 + 1 : part[c] = staged[r][1 + c - 1]
      BY <1>4, <3>1, Slice
    <3>3. \A i \in 0 .. Size(k) - 1 : part[i + 1] = staged[r][i + 1]
      BY <1>5, <3>2
    <3>4. QED
      BY <1>4, <1>5, <3>2, <3>3 DEF PartOK
  <2>3. QED
    BY <2>1, <2>2
<1> HIDE DEF part
<1>7. Only(r) /\ pc'[r] = "embed" /\ sent'[r] = Append(sent[r], part)
  BY <1>1, <1>2, ConfigKept DEF Only, OnRanks
<1>8. /\ sent'[r] \in Seq(Seq(Contents)) /\ Len(sent'[r]) = k
      /\ \A j \in 1 .. k - 1 : sent'[r][j] = sent[r][j]
      /\ sent'[r][k] = part
  BY <1>3, <1>6, <1>7
<1>9. PartsGiven(r)'
  <2>1. ASSUME NEW j \in 1 .. k PROVE PartOK(r, j, sent'[r][j])
    <3>1. \A h \in 1 .. Len(sent[r]) : PartOK(r, h, sent[r][h])
      BY <1>1 DEF RankOK, PartsGiven
    <3>2. CASE j = k
      BY <1>6, <1>8, <3>2
    <3>3. CASE j # k
      <4>1. j \in 1 .. k - 1
        BY <1>3, <3>3
      <4>2. PartOK(r, j, sent[r][j]) /\ sent'[r][j] = sent[r][j]
        BY <1>3, <1>8, <3>1, <4>1
      <4>3. QED
        BY <4>2
    <3>4. QED
      BY <3>2, <3>3
  <2>2. \A j \in 1 .. k : Len(sent'[r][j]) = Size(j) /\ \A i \in 0 .. Size(j) - 1 : sent'[r][j][i + 1] = Cell(r, j, i)
    BY <2>1 DEF PartOK
  <2>3. QED
    <3>1. Contents' = Contents
          /\ (\A j : Size(j)' = Size(j))
          /\ \A j, i : Cell(r, j, i)' = Cell(r, j, i)
      BY <1>1, ConfigKept
    <3>2. \A j \in 1 .. k : PartOK(r, j, sent[r][j])'
      BY <2>2, <3>1 DEF PartOK
    <3>3. QED
      BY <1>8, <3>1, <3>2 DEF PartsGiven
<1>10. Built(r)'
  BY <1>1, <1>7, ConfigKept DEF RankOK, Built
<1>11. Counted(r)'
  BY <1>1, <1>3, <1>7, <1>8 DEF RankOK, Counted
<1>12. Stored(r)'
  BY <1>1, ConfigKept DEF RankOK, Stored
<1>13. StepsDone(r)'
  BY <1>1, ConfigKept DEF RankOK, StepsDone
<1>14. RankOK(r)'
  BY <1>1, <1>3, <1>7, <1>9, <1>10, <1>11, <1>12, <1>13 DEF RankOK, Looked, FailsForAReason
<1>15. QED
  BY <1>7, <1>14, RankInv

\* Where all have arrived, a rank fuses the unsharded model's rows.
LEMMA ForwardOK ==
  ASSUME Inv, NEW r \in Ranks, Forward(r)
  PROVE  Inv'
<1> DEFINE k == StepOf(r)
           result == FusedWanted(r, k)
           Results == {FusedWanted(r, j) : j \in 1 .. 2}
           next == IF k = Len(config.steps) THEN "done" ELSE "lookup"
<1>1. /\ ConfigOK /\ OnRanks /\ RankOK(r) /\ pc[r] = "embed" /\ Arrived(k)
      /\ config' = config /\ dir' = dir /\ shard' = shard /\ staged' = staged /\ sent' = sent
      /\ pc' = [pc EXCEPT ![r] = next]
      /\ output' = [output EXCEPT ![r] = Append(output[r], Fused(r, k))]
  BY DEF Inv, Forward, Goto
<1>2. /\ k \in 1 .. 2 /\ k = Len(output[r]) + 1 /\ Len(config.steps) = 2
      /\ output[r] \in Seq(Results) /\ \A j \in 1 .. k - 1 : output[r][j] = FusedWanted(r, j)
  BY <1>1, StepTokens DEF RankOK, Counted, StepsDone, StepOf
<1>3. Fused(r, k) = result
  <2>1. CASE config.tp = 1
    <3>1. /\ staged[r] \in Seq(Contents) /\ Len(staged[r]) = MaxTokens * LocalHeads
          /\ \A i \in 0 .. Size(k) - 1 : staged[r][i + 1] = Cell(r, k, i)
      BY <1>1, <2>1 DEF RankOK, Built, Stored, Looked
    <3>2. MaxTokens * LocalHeads \in Nat /\ Size(k) <= MaxTokens * LocalHeads /\ Size(k) \in Nat
      BY <1>1, <1>2, StepTokens, Shares, Times DEF Size
    <3> HIDE DEF k
    <3>3. Len(staged[r]) \in Nat /\ Len(staged[r]) >= Size(k)
      BY <3>1, <3>2
    <3>4. QED
      BY <1>1, <1>2, <2>1, <3>1, <3>3, FusedIs
  <2>2. CASE config.tp # 1
    <3>1. \A q \in Ranks : PartOK(q, k, sent[q][k])
      <4> TAKE q \in Ranks
      <4>1. RankOK(q) /\ Len(sent[q]) >= k
        BY <1>1, <2>2 DEF Inv, Arrived
      <4>2. sent[q] \in Seq(Seq(Contents)) /\ \A j \in 1 .. Len(sent[q]) : PartOK(q, j, sent[q][j])
        BY <4>1 DEF RankOK, PartsGiven
      <4>3. k \in 1 .. Len(sent[q])
        BY <1>2, <4>1, <4>2
      <4>4. QED
        BY <4>2, <4>3
    <3> HIDE DEF k
    <3>2. QED
      BY <1>1, <1>2, <2>2, <3>1, FusedIs
  <2>3. QED
    BY <2>1, <2>2
<1> HIDE DEF k
<1>4. result \in Results
  BY <1>2
<1> HIDE DEF Results, result
<1>5. /\ Only(r) /\ pc'[r] = next /\ output'[r] = Append(output[r], result)
  BY <1>1, <1>3, ConfigKept DEF Only, OnRanks
<1>6. /\ output'[r] \in Seq(Results) /\ Len(output'[r]) = k
      /\ \A j \in 1 .. k - 1 : output'[r][j] = output[r][j]
      /\ output'[r][k] = result
  BY <1>2, <1>4, <1>5
<1>7. StepsDone(r)'
  <2>1. \A j \in 1 .. k : output'[r][j] = FusedWanted(r, j)
    BY <1>2, <1>6 DEF result
  <2>2. QED
    BY <1>1, <1>6, <2>1, ConfigKept DEF StepsDone, Results
<1>8. Counted(r)'
  <2>1. config.tp # 1 => Len(sent[r]) = k
    BY <1>1, <1>2 DEF RankOK, Counted
  <2>2. config.tp = 1 => sent[r] = <<>>
    BY <1>1 DEF RankOK, Counted
  <2>3. pc'[r] \in {"lookup", "done"} /\ (pc'[r] # "done" => k < 2)
    BY <1>2, <1>5
  <2>4. config' = config /\ sent'[r] = sent[r] /\ Len(output'[r]) = k /\ k \in 1 .. 2
    BY <1>1, <1>2, <1>6
  <2>5. QED
    BY <2>1, <2>2, <2>3, <2>4 DEF Counted
<1>9. Built(r)'
  BY <1>1, <1>5, ConfigKept DEF RankOK, Built
<1>10. Stored(r)'
  BY <1>1, ConfigKept DEF RankOK, Stored
<1>11. PartsGiven(r)'
  BY <1>1, PartsKept DEF RankOK
<1>12. RankOK(r)'
  BY <1>5, <1>7, <1>8, <1>9, <1>10, <1>11 DEF RankOK, Looked, FailsForAReason
<1>13. QED
  BY <1>5, <1>12, RankInv

\* The invariant holds of every run.
THEOREM SpecInv == Spec => []Inv
<1>1. Inv /\ [Next]_vars => Inv'
  <2> SUFFICES ASSUME Inv, [Next]_vars PROVE Inv'
    OBVIOUS
  <2>1. ASSUME NEW r \in Ranks, Construct(r) PROVE Inv'
    BY <2>1, ConstructOK
  <2>2. ASSUME NEW r \in Ranks, LoadWeights(r) PROVE Inv'
    BY <2>2, LoadWeightsOK
  <2>3. ASSUME NEW r \in Ranks, Lookup(r) PROVE Inv'
    BY <2>3, LookupOK
  <2>4. ASSUME NEW r \in Ranks, AllGather(r) PROVE Inv'
    BY <2>4, AllGatherOK
  <2>5. ASSUME NEW r \in Ranks, Forward(r) PROVE Inv'
    BY <2>5, ForwardOK
  <2>6. ASSUME NEW r \in Ranks, SwapData(r) PROVE Inv'
    BY <2>6, SwapDataOK
  <2>7. CASE UNCHANGED vars
    <3>1. /\ config' = config /\ pc' = pc /\ dir' = dir /\ shard' = shard /\ staged' = staged
          /\ sent' = sent /\ output' = output
      BY <2>7 DEF vars
    <3>2. OnRanks'
      BY <3>1, ConfigKept DEF Inv, OnRanks
    <3>3. ASSUME NEW r \in Ranks PROVE RankOK(r)'
      BY <3>1, Others DEF Inv
    <3>4. QED
      BY <3>1, <3>2, <3>3, ConfigKept DEF Inv
  <2>8. QED
    BY <2>1, <2>2, <2>3, <2>4, <2>5, <2>6, <2>7 DEF Next, RankStep
<1>2. QED
  BY InitInv, <1>1, PTL DEF Spec

-----------------------------------------------------------------------------
(* The properties.                                                          *)

\* For any deployment: no rank keeps or stages anything but rows of the table and
\* zeros, and each gives one part and computes one output per step.
THEOREM TypeCorrect == Spec => []TypeOK
<1>1. ASSUME Inv PROVE TypeOK
  <2>1. ConfigOK /\ OnRanks /\ \A r \in Ranks : RankOK(r)
    BY <1>1 DEF Inv
  <2>2. config.tp \in TpSizes
    BY <2>1 DEF ConfigOK
  <2>3. pc \in [Ranks -> {"construct", "load", "lookup", "gather", "embed", "done", "failed"}]
    BY <2>1 DEF OnRanks, RankOK
  <2>4. dir \in [Ranks -> {"model", "local", None}]
    BY <2>1 DEF OnRanks, RankOK, Stored
  <2>5. ASSUME NEW r \in Ranks
        PROVE  /\ ToSet(shard[r]) \subseteq 0 .. NumEmbeddings - 1
               /\ ToSet(staged[r]) \subseteq (0 .. NumEmbeddings - 1) \cup {Zero}
               /\ Len(output[r]) <= Len(config.steps)
               /\ Len(sent[r]) - Len(output[r]) \in IF config.tp = 1 THEN -2 .. 0 ELSE {0, 1}
    <3>1. Stored(r) /\ Counted(r)
      BY <2>1 DEF RankOK
    <3>2. ToSet(shard[r]) \subseteq 0 .. NumEmbeddings - 1
      <4>1. CASE shard[r] = <<>>
        BY <4>1 DEF ToSet
      <4>2. CASE shard[r] = Loaded(r) /\ RowsBefore(config.sizes, Cols) <= NumEmbeddings
        <5>1. /\ VocabStart(r) \in Nat /\ VocabEnd(r) \in Nat /\ NumEmbeddings \in Int
              /\ VocabEnd(r) <= NumEmbeddings
          <6>1. /\ VocabStart(r) \in Nat /\ VocabEnd(r) \in Nat
                /\ VocabEnd(r) <= RowsBefore(config.sizes, Cols)
                /\ RowsBefore(config.sizes, Cols) \in Nat
            BY <2>1, OwnRows
          <6>2. NumEmbeddings \in Int
            BY <2>1, <6>1 DEF NumEmbeddings, ConfigOK
          <6>3. QED
            BY <4>2, <6>1, <6>2
        <5>2. \A i \in 1 .. NumRows(r) : VocabStart(r) + i - 1 \in 0 .. NumEmbeddings - 1
          BY <5>1 DEF NumRows
        <5>3. DOMAIN shard[r] = 1 .. NumRows(r)
              /\ \A i \in 1 .. NumRows(r) : shard[r][i] = VocabStart(r) + i - 1
          BY <4>2 DEF Loaded
        <5>4. QED
          BY <5>2, <5>3 DEF ToSet
      <4>3. QED
        BY <3>1, <4>1, <4>2 DEF Stored
    <3>3. ToSet(staged[r]) \subseteq Contents
      <4>1. staged[r] \in Seq(Contents)
        BY <3>1 DEF Stored
      <4>2. \A i \in DOMAIN staged[r] : staged[r][i] \in Contents
        BY <4>1
      <4>3. QED
        BY <4>2 DEF ToSet
    <3>4. Len(config.steps) = 2
      BY <2>1, ShardAssumption DEF ConfigOK
    <3>5. Len(output[r]) \in 0 .. 2
      BY <3>1 DEF Counted
    <3>6. Len(sent[r]) - Len(output[r]) \in IF config.tp = 1 THEN -2 .. 0 ELSE {0, 1}
      <4>1. CASE config.tp = 1
        <5>1. Len(sent[r]) = 0
          BY <3>1, <4>1 DEF Counted
        <5>2. Len(sent[r]) - Len(output[r]) \in -2 .. 0
          <6> DEFINE a == Len(sent[r])
                     b == Len(output[r])
          <6>1. a = 0 /\ b \in 0 .. 2
            BY <3>5, <5>1
          <6> HIDE DEF a, b
          <6>2. a - b \in -2 .. 0
            BY <6>1
          <6>3. QED
            BY <6>2 DEF a, b
        <5>3. QED
          BY <4>1, <5>2
      <4>2. CASE config.tp # 1
        <5>1. Len(sent[r]) = Len(output[r]) + 1 \/ Len(sent[r]) = Len(output[r]) + 0
          BY <3>1, <4>2 DEF Counted
        <5>2. QED
          BY <3>5, <4>2, <5>1
      <4>3. QED
        BY <4>1, <4>2
    <3>7. QED
      <4>1. Len(output[r]) <= Len(config.steps)
        <5> DEFINE b == Len(output[r])
                   c == Len(config.steps)
        <5>1. b \in 0 .. 2 /\ c = 2
          BY <3>4, <3>5
        <5> HIDE DEF b, c
        <5>2. b <= c
          BY <5>1
        <5>3. QED
          BY <5>2 DEF b, c
      <4>2. QED
        BY <3>2, <3>3, <3>6, <4>1 DEF Contents
  <2>6. QED
    BY <2>2, <2>3, <2>4, <2>5 DEF TypeOK
<1>2. QED
  BY <1>1, SpecInv, PTL

\* For any layout, no two columns of a table have the same number of rows.
THEOREM SizesDiffer == Spec => []NoSizeRedrawn
<1>1. Inv => NoSizeRedrawn
  BY DEF Inv, ConfigOK, SizesOK, NoSizeRedrawn, Cols
<1>2. QED
  BY <1>1, SpecInv, PTL

\* For any deployment, a rank that owns columns, or keeps its rows in memory, fails only
\* where the table, the machine or the build does not allow it to go on.
THEOREM RanksFailForReasons == Spec => []RanksGoOn
<1>1. Inv => RanksGoOn
  BY DEF Inv, RankOK, FailsForAReason, RanksGoOn
<1>2. QED
  BY <1>1, SpecInv, PTL

\* Chunks of a step one after the other are the step, and padding after it.
LEMMA ChunksAreStep ==
  ASSUME ConfigOK, config.sp, NEW k \in 1 .. 2,
         \A r \in Ranks : output[r][k] = FusedWanted(r, k)
  PROVE  /\ \A r \in Ranks : Len(output[r][k]) = Len(output[0][k])
         /\ SubSeq(Whole(k), 1, Len(Batch(k))) = WantedRows(k)
         /\ \A i \in Len(Batch(k)) + 1 .. Len(Whole(k)) : Whole(k)[i] = <<Untouched>>
<1> DEFINE n == Len(Batch(k))
           tp == config.tp
           chunk == Chunk(k)
           total == tp * chunk
           whole == Whole(k)
           wanted == WantedRows(k)
<1>1. n \in Nat /\ tp \in Nat \ {0} /\ Ranks = 0 .. tp - 1 /\ 0 \in Ranks
  BY StepTokens DEF ConfigOK, Ranks
<1>2. chunk \in Nat /\ n <= total /\ total \in Nat
  <2>1. CeilDiv(n, tp) \in Nat /\ n <= tp * CeilDiv(n, tp)
    BY <1>1, Ceil
  <2>2. QED
    BY <1>1, <2>1, Times DEF Chunk
<1>3. /\ \A r \in Ranks : Len(output[r][k]) = chunk
      /\ \A r \in Ranks : \A j \in 1 .. chunk :
           output[r][k][j] = IF r * chunk + j <= n THEN wanted[r * chunk + j] ELSE <<Untouched>>
  <2>1. \A r \in Ranks : output[r][k] = [j \in 1 .. chunk |->
          IF r * chunk + j <= n THEN wanted[r * chunk + j] ELSE <<Untouched>>]
    BY DEF FusedWanted
  <2> HIDE DEF chunk, n, wanted
  <2>2. ASSUME NEW r \in Ranks
        PROVE  /\ Len(output[r][k]) = chunk
               /\ \A j \in 1 .. chunk :
                    output[r][k][j] = IF r * chunk + j <= n THEN wanted[r * chunk + j] ELSE <<Untouched>>
    <3> DEFINE o == output[r][k]
    <3>1. o = [j \in 1 .. chunk |->
            IF r * chunk + j <= n THEN wanted[r * chunk + j] ELSE <<Untouched>>]
      BY <2>1
    <3> HIDE DEF o
    <3>2. Len(o) = chunk
      BY <1>2, <3>1
    <3>3. QED
      BY <3>1, <3>2 DEF o
  <2>3. QED
    BY <2>2
<1>4. whole = Concatenated([r \in Ranks |-> output[r][k]], chunk)
  BY <1>1, <1>3 DEF Whole
<1>5. whole = [i \in 1 .. total |-> whole[i]] /\ Len(whole) = total
  <2> DEFINE part == [r \in Ranks |-> output[r][k]]
  <2> HIDE DEF whole
  <2>1. whole = [i \in 1 .. total |-> part[(i - 1) \div chunk][((i - 1) % chunk) + 1]]
    BY <1>4 DEF Concatenated
  <2> HIDE DEF total, part
  <2>2. QED
    BY <1>2, <2>1
<1>6. ASSUME NEW i \in 1 .. total
      PROVE  whole[i] = IF i <= n THEN wanted[i] ELSE <<Untouched>>
  <2> DEFINE x == i - 1
             q == x \div chunk
             h == x % chunk
  <2>1. x \in 0 .. total - 1 /\ x + 1 = i
    BY <1>2
  <2> HIDE DEF x
  <2>2. q \in 0 .. tp - 1 /\ h \in 0 .. chunk - 1 /\ x = q * chunk + h
    BY <1>1, <1>2, <2>1, PlaceOf
  <2> HIDE DEF q, h
  <2>3. whole[q * chunk + h + 1] = output[q][k][h + 1]
    <3> DEFINE part == [p \in Ranks |-> output[p][k]]
    <3> HIDE DEF chunk
    <3>1. part[q] = output[q][k]
      BY <1>1, <2>2
    <3> HIDE DEF part
    <3>2. Concatenated(part, chunk)[q * chunk + h + 1] = part[q][h + 1]
      BY <1>1, <1>2, <2>2, ConcatenatedAt
    <3>3. QED
      BY <1>4, <3>1, <3>2 DEF part
  <2>4. q * chunk \in Nat
    BY <1>1, <1>2, <2>2
  <2>5. q * chunk + h + 1 = i /\ q * chunk + (h + 1) = i /\ h + 1 \in 1 .. chunk
    BY SMTT(30), <1>2, <2>1, <2>2, <2>4
  <2>6. output[q][k][h + 1] = IF q * chunk + (h + 1) <= n THEN wanted[q * chunk + (h + 1)] ELSE <<Untouched>>
    BY <1>1, <1>3, <2>2, <2>5
  <2> HIDE DEF whole, wanted
  <2>7. QED
    BY <2>3, <2>5, <2>6
<1> HIDE DEF whole
<1>7. SubSeq(whole, 1, n) = wanted
  <2>1. SubSeq(whole, 1, n) = [i \in 1 .. n |-> whole[i]]
    <3> DEFINE S == {whole[i] : i \in 1 .. total}
    <3> HIDE DEF total
    <3>1. whole \in [1 .. total -> S]
      BY <1>5
    <3>2. whole \in Seq(S)
      BY <1>2, <3>1
    <3> HIDE DEF S
    <3> DEFINE s == SubSeq(whole, 1, n)
    <3>3. /\ s \in Seq(S) /\ Len(s) = n /\ \A i \in 1 .. n : s[i] = whole[i]
      BY <1>1, <1>2, <1>5, <3>2
    <3> HIDE DEF s
    <3>4. s = [i \in 1 .. n |-> s[i]]
      BY <3>3
    <3>5. QED
      BY <3>3, <3>4 DEF s
  <2>2. wanted = [i \in 1 .. n |-> wanted[i]]
    BY DEF WantedRows
  <2>3. \A i \in 1 .. n : whole[i] = wanted[i]
    <3> HIDE DEF total, wanted
    <3>1. \A i \in 1 .. n : i \in 1 .. total /\ i <= n
      BY <1>1, <1>2
    <3>2. QED
      BY <1>6, <3>1
  <2> HIDE DEF wanted
  <2>4. QED
    BY <2>1, <2>2, <2>3
<1>8. \A i \in n + 1 .. Len(whole) : whole[i] = <<Untouched>>
  <2> HIDE DEF total, wanted
  <2>1. \A i \in n + 1 .. total : i \in 1 .. total /\ ~ (i <= n)
    BY <1>1, <1>2
  <2>2. QED
    BY <1>5, <1>6, <2>1
<1>9. QED
  BY <1>1, <1>3, <1>7, <1>8 DEF whole

\* For any layout, world size, rank map, place of the rows and steps: what a rank has
\* computed of a step is what an unsharded model would, all of it or its own chunk.
THEOREM FusedLikeUnsharded == Spec => []FusedAsUnsharded
<1>1. ASSUME Inv PROVE FusedAsUnsharded
  <2>1. ConfigOK /\ DOMAIN config.steps = 1 .. 2
    BY <1>1, StepTokens DEF Inv
  <2>2. ASSUME NEW r \in Ranks, NEW k \in 1 .. 2, k <= Len(output[r])
        PROVE  output[r][k] = FusedWanted(r, k)
    <3>1. Counted(r) /\ StepsDone(r)
      BY <1>1 DEF Inv, RankOK
    <3>2. k \in 1 .. Len(output[r])
      BY <2>2, <3>1 DEF Counted
    <3>3. QED
      BY <3>1, <3>2 DEF StepsDone
  <2>3. CASE config.sp
    <3>1. ASSUME NEW k \in 1 .. 2, \A r \in Ranks : k <= Len(output[r])
          PROVE  /\ \A r \in Ranks : Len(output[r][k]) = Len(output[0][k])
                 /\ SubSeq(Whole(k), 1, Len(Batch(k))) = WantedRows(k)
                 /\ \A i \in Len(Batch(k)) + 1 .. Len(Whole(k)) : Whole(k)[i] = <<Untouched>>
      <4>1. \A r \in Ranks : output[r][k] = FusedWanted(r, k)
        BY <2>2, <3>1
      <4>2. QED
        BY <2>1, <2>3, <4>1, ChunksAreStep
    <3>2. QED
      BY <2>1, <2>3, <3>1 DEF FusedAsUnsharded
  <2>4. CASE ~config.sp
    <3>1. \A r \in Ranks, k \in 1 .. 2 : k <= Len(output[r]) => output[r][k] = WantedRows(k)
      BY <2>2, <2>4 DEF FusedWanted
    <3>2. QED
      BY <2>1, <2>4, <3>1 DEF FusedAsUnsharded
  <2>5. QED
    BY <2>3, <2>4
<1>2. QED
  BY <1>1, SpecInv, PTL
=============================================================================
