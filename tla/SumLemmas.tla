------------------------------ MODULE SumLemmas ------------------------------
(***************************************************************************)
(* Induction, and the sums the layouts of batches and buffers are made of:  *)
(* where a row's tokens start, how many tokens a step has, how many kernels *)
(* precede one of a stream. They are sums of MapThenSumSet, which takes the *)
(* elements of a set in an order of its own; the lemmas say what such a sum *)
(* is whatever that order.                                                  *)
(***************************************************************************)
EXTENDS Integers, Sequences, FiniteSets, FiniteSetTheorems, WellFoundedInduction, TLAPS

\* The element a sum takes next from the set s.
Taken(s) == CHOOSE x \in s : TRUE

\* sum gives every subset of S the sum of v over it, in the order of Taken: the
\* function that MapThenSumSet defines.
SumsOf(S, v, sum) ==
  sum = [s \in SUBSET S |->
           IF s = {} THEN 0 ELSE v[Taken(s)] + sum[s \ {Taken(s)}]]

-----------------------------------------------------------------------------
(* Every set of naturals has a least element; what holds of 0 and of n + 1  *)
(* whenever it holds of n holds of every natural.                           *)

\* A set of naturals with an element has a least one.
LEMMA Least ==
  ASSUME NEW T \in SUBSET Nat, T # {}
  PROVE  \E x \in T : \A y \in T : x <= y
<1> DEFINE R == {ss \in Nat \X Nat : ss[1] < ss[2]}
<1>1. IsWellFoundedOn(R, Nat)
  BY NatLessThanWellFounded DEF OpToRel
<1> HIDE DEF R
<1>2. PICK x \in T : \A y \in T : <<y, x>> \notin R
  BY <1>1, WFMin
<1>3. \A y \in T : ~ (y < x)
  BY <1>2 DEF R
<1>4. QED
  BY <1>3

\* Induction on the naturals, for what a set can say.
LEMMA Induction ==
  ASSUME NEW T, 0 \in T, \A n \in Nat : n \in T => n + 1 \in T
  PROVE  \A n \in Nat : n \in T
<1> SUFFICES ASSUME Nat \ T # {} PROVE FALSE
  OBVIOUS
<1>1. PICK x \in Nat \ T : \A y \in Nat \ T : x <= y
  BY Least
<1>2. x # 0 /\ x - 1 \in Nat /\ x - 1 \in T
  BY <1>1
<1>3. QED
  BY <1>1, <1>2

\* A finite set of integers with an element has a greatest one.
LEMMA Greatest ==
  ASSUME NEW T \in SUBSET Nat, T # {}, NEW n \in Nat, \A y \in T : y <= n
  PROVE  \E x \in T : \A y \in T : y <= x
<1> DEFINE D == {d \in Nat : n - d \in T}
<1>1. D # {}
  <2>1. PICK y \in T : TRUE
    OBVIOUS
  <2>2. n - y \in D
    BY <2>1
  <2>3. QED
    BY <2>2
<1>2. PICK d \in D : \A e \in D : d <= e
  BY <1>1, Least
<1>3. \A y \in T : n - y \in D
  OBVIOUS
<1>4. n - d \in T /\ d \in Nat
  OBVIOUS
<1>5. \A y \in T : y <= n - d
  <2> TAKE y \in T
  <2>1. d <= n - y
    BY <1>2, <1>3
  <2>2. QED
    BY <2>1, <1>4
<1>6. QED
  BY <1>4, <1>5

-----------------------------------------------------------------------------
(* Sums.                                                                    *)

\* The element a sum takes next is one of the set's, and fewer are left.
LEMMA TakenOf ==
  ASSUME NEW s, IsFiniteSet(s), s # {}
  PROVE  /\ Taken(s) \in s
         /\ IsFiniteSet(s \ {Taken(s)})
         /\ Cardinality(s) \in Nat \ {0}
         /\ Cardinality(s \ {Taken(s)}) = Cardinality(s) - 1
<1>1. Taken(s) \in s
  BY DEF Taken
<1>2. QED
  BY <1>1, FS_RemoveElement, FS_CardinalityType, FS_EmptySet

\* The recursion MapThenSumSet is defined by has a solution.
LEMMA SumsExist ==
  ASSUME NEW S, IsFiniteSet(S), NEW v, \A x \in S : v[x] \in Int
  PROVE  \E sum : SumsOf(S, v, sum)
<1> DEFINE Step(f, s) == IF s = {} THEN 0 ELSE v[Taken(s)] + f[s \ {Taken(s)}]
           Below(k, f) == \A s \in SUBSET S : Cardinality(s) <= k => f[s] = Step(f, s)
           T == {k \in Nat : \E f \in [SUBSET S -> Int] : Below(k, f)}
<1>0. \A s \in SUBSET S : IsFiniteSet(s) /\ Cardinality(s) \in Nat
  BY FS_Subset, FS_CardinalityType
<1>1. 0 \in T
  <2>1. [s \in SUBSET S |-> 0] \in [SUBSET S -> Int]
    OBVIOUS
  <2>2. Below(0, [s \in SUBSET S |-> 0])
    <3> TAKE s \in SUBSET S
    <3>1. HAVE Cardinality(s) <= 0
    <3>2. s = {}
      BY <3>1, <1>0, FS_EmptySet
    <3>3. QED
      BY <3>2
  <2>3. QED
    BY <2>1, <2>2
<1>2. ASSUME NEW k \in Nat, k \in T PROVE k + 1 \in T
  <2>1. PICK f \in [SUBSET S -> Int] : Below(k, f)
    BY <1>2
  <2> DEFINE g == [s \in SUBSET S |-> IF Cardinality(s) = k + 1 THEN Step(f, s) ELSE f[s]]
  <2>2. ASSUME NEW s \in SUBSET S, s # {}
        PROVE  /\ Taken(s) \in S /\ s \ {Taken(s)} \in SUBSET S
               /\ Cardinality(s) \in Nat \ {0}
               /\ Cardinality(s \ {Taken(s)}) = Cardinality(s) - 1
    BY <1>0, <2>2, TakenOf
  <2>3. \A s \in SUBSET S : Step(f, s) \in Int
    <3> TAKE s \in SUBSET S
    <3>1. CASE s = {}
      BY <3>1
    <3>2. CASE s # {}
      <4>1. v[Taken(s)] \in Int
        BY <3>2, <2>2
      <4>2. f[s \ {Taken(s)}] \in Int
        BY <3>2, <2>2
      <4>3. QED
        BY <3>2, <4>1, <4>2
    <3>3. QED
      BY <3>1, <3>2
  <2>4. g \in [SUBSET S -> Int]
    BY <2>3
  <2>5. Below(k + 1, g)
    <3> SUFFICES ASSUME NEW s \in SUBSET S, Cardinality(s) <= k + 1
                 PROVE  g[s] = Step(g, s)
      OBVIOUS
    <3>1. CASE s = {}
      <4>1. Cardinality(s) = 0
        BY <3>1, FS_EmptySet
      <4>2. g[s] = f[s]
        BY <4>1
      <4>3. f[s] = 0
        BY <4>1, <3>1, <2>1
      <4>4. QED
        BY <4>2, <4>3, <3>1
    <3>2. CASE s # {}
      <4> DEFINE rest == s \ {Taken(s)}
      <4>1. rest \in SUBSET S /\ Cardinality(rest) = Cardinality(s) - 1 /\ Cardinality(s) \in Nat
        BY <3>2, <2>2
      <4>2. Cardinality(rest) # k + 1
        BY <4>1
      <4>3. g[rest] = f[rest]
        BY <4>1, <4>2
      <4>4. g[s] = Step(f, s)
        <5>1. CASE Cardinality(s) = k + 1
          BY <5>1
        <5>2. CASE Cardinality(s) # k + 1
          <6>1. Cardinality(s) <= k
            BY <5>2, <4>1
          <6>2. QED
            BY <6>1, <5>2, <2>1
        <5>3. QED
          BY <5>1, <5>2
      <4>5. QED
        BY <4>3, <4>4, <3>2
    <3>3. QED
      BY <3>1, <3>2
  <2> HIDE DEF g, Below
  <2>6. QED
    BY <2>4, <2>5
<1> HIDE DEF T
<1>3. Cardinality(S) \in T
  <2>1. \A n \in Nat : n \in T
    BY <1>1, <1>2, Induction
  <2>2. QED
    BY <2>1, FS_CardinalityType
<1>4. PICK f \in [SUBSET S -> Int] : Below(Cardinality(S), f)
  BY <1>3 DEF T
<1>5. \A s \in SUBSET S : f[s] = Step(f, s)
  BY <1>4, FS_Subset
<1>6. SumsOf(S, v, f)
  BY <1>5 DEF SumsOf
<1>7. QED
  BY <1>6

\* A sum is an integer, and it does not depend on which element is taken first: any
\* element's value and the sum over the others.
LEMMA SumSplits ==
  ASSUME NEW S, IsFiniteSet(S), NEW v, \A x \in S : v[x] \in Int,
         NEW sum, SumsOf(S, v, sum),
         NEW s \in SUBSET S
  PROVE  /\ s = {} => sum[s] = 0
         /\ sum[s] \in Int
         /\ \A x \in s : sum[s] = v[x] + sum[s \ {x}]
<1> DEFINE Good(r) == sum[r] \in Int /\ \A x \in r : sum[r] = v[x] + sum[r \ {x}]
           T == {k \in Nat : \A r \in SUBSET S : Cardinality(r) <= k => Good(r)}
<1>1. /\ \A r \in SUBSET S : r # {} => sum[r] = v[Taken(r)] + sum[r \ {Taken(r)}]
      /\ sum[{}] = 0
  <2>1. \A r \in SUBSET S : sum[r] = IF r = {} THEN 0 ELSE v[Taken(r)] + sum[r \ {Taken(r)}]
    BY DEF SumsOf
  <2>2. QED
    BY <2>1
<1>2. \A r \in SUBSET S : IsFiniteSet(r) /\ Cardinality(r) \in Nat
  BY FS_Subset, FS_CardinalityType
<1>3. 0 \in T
  <2>1. \A r \in SUBSET S : Cardinality(r) <= 0 => r = {}
    BY <1>2, FS_EmptySet
  <2>2. Good({})
    BY <1>1
  <2>3. QED
    BY <2>1, <2>2
<1>4. ASSUME NEW k \in Nat, k \in T PROVE k + 1 \in T
  <2> SUFFICES ASSUME NEW r \in SUBSET S, Cardinality(r) <= k + 1
               PROVE  Good(r)
    OBVIOUS
  <2>1. \A q \in SUBSET S : Cardinality(q) <= k => Good(q)
    BY <1>4
  <2> HIDE DEF T
  <2> SUFFICES ASSUME r # {} PROVE Good(r)
    BY <1>1
  <2>2. r # {}
    OBVIOUS
  <2> DEFINE c == Taken(r)
  <2>3. c \in r /\ r \ {c} \in SUBSET S /\ Cardinality(r \ {c}) <= k
    BY <2>2, <1>2, TakenOf
  <2> HIDE DEF c
  <2>4. sum[r] = v[c] + sum[r \ {c}] /\ sum[r] \in Int
    <3>1. sum[r] = v[c] + sum[r \ {c}]
      BY <1>1, <2>2 DEF c
    <3>2. sum[r \ {c}] \in Int
      BY <2>1, <2>3
    <3>3. v[c] \in Int
      BY <2>3
    <3>4. QED
      BY <3>1, <3>2, <3>3
  <2>5. ASSUME NEW x \in r, x # c PROVE sum[r] = v[x] + sum[r \ {x}]
    <3> DEFINE both == r \ {c, x}
    <3>1. both = (r \ {c}) \ {x} /\ both = (r \ {x}) \ {c} /\ both \in SUBSET S
      OBVIOUS
    <3>2. Cardinality(r \ {x}) <= k /\ r \ {x} \in SUBSET S
      BY <1>2, FS_RemoveElement
    <3>3. sum[r \ {c}] = v[x] + sum[both]
      BY <2>1, <2>3, <2>5, <3>1
    <3>4. sum[r \ {x}] = v[c] + sum[both]
      <4>1. c \in r \ {x}
        BY <2>3, <2>5
      <4>2. sum[r \ {x}] = v[c] + sum[(r \ {x}) \ {c}]
        BY <2>1, <3>2, <4>1
      <4>3. QED
        BY <3>1, <4>2
    <3>5. v[x] \in Int /\ v[c] \in Int
      BY <2>3
    <3>6. sum[both] \in Int
      <4>1. Cardinality(both) <= Cardinality(r \ {x})
        BY <1>2, <3>1, <3>2, FS_Subset
      <4>2. Cardinality(both) <= k
        BY <1>2, <3>1, <3>2, <4>1
      <4>3. QED
        BY <2>1, <3>1, <4>2
    <3>7. QED
      BY <2>4, <3>3, <3>4, <3>5, <3>6
  <2>6. QED
    BY <2>4, <2>5
<1> HIDE DEF T
<1>5. Cardinality(s) \in T
  <2>1. \A n \in Nat : n \in T
    BY <1>3, <1>4, Induction
  <2>2. QED
    BY <2>1, <1>2
<1>6. Good(s)
  <2>1. \A r \in SUBSET S : Cardinality(r) <= Cardinality(s) => Good(r)
    BY <1>5 DEF T
  <2>2. QED
    BY <2>1, <1>2
<1>7. QED
  BY <1>1, <1>6

\* Two sums over the same elements of the same values are the same, whatever sets
\* they were set up over.
LEMMA SumsAgree ==
  ASSUME NEW S, IsFiniteSet(S), NEW v, \A x \in S : v[x] \in Int,
         NEW sum, SumsOf(S, v, sum),
         NEW Z, IsFiniteSet(Z), NEW w, \A x \in Z : w[x] \in Int,
         NEW total, SumsOf(Z, w, total),
         NEW s \in SUBSET (S \cap Z), \A x \in s : v[x] = w[x]
  PROVE  sum[s] = total[s]
<1> DEFINE T == {k \in Nat : \A r \in SUBSET s : Cardinality(r) = k => sum[r] = total[r]}
<1>1. \A r \in SUBSET s : r \in SUBSET S /\ r \in SUBSET Z /\ IsFiniteSet(r)
                          /\ Cardinality(r) \in Nat
  BY FS_Subset, FS_CardinalityType
<1>2. 0 \in T
  <2>1. ASSUME NEW r \in SUBSET s, Cardinality(r) = 0 PROVE sum[r] = total[r]
    <3>1. r = {}
      BY <1>1, <2>1, FS_EmptySet
    <3>2. sum[r] = 0 /\ total[r] = 0
      BY <1>1, <3>1, SumSplits
    <3>3. QED
      BY <3>2
  <2>2. QED
    BY <2>1
<1>3. ASSUME NEW k \in Nat, k \in T PROVE k + 1 \in T
  <2>1. ASSUME NEW r \in SUBSET s, Cardinality(r) = k + 1 PROVE sum[r] = total[r]
    <3>1. r # {}
      BY <2>1, FS_EmptySet
    <3>2. PICK x \in r : TRUE
      BY <3>1
    <3>3. Cardinality(r \ {x}) = k /\ r \ {x} \in SUBSET s
      <4>1. IsFiniteSet(r)
        BY <1>1
      <4>2. Cardinality(r \ {x}) = Cardinality(r) - 1
        BY <4>1, FS_RemoveElement
      <4>3. QED
        BY <2>1, <4>2
    <3>4. sum[r \ {x}] = total[r \ {x}]
      BY <1>3, <3>3
    <3>5. sum[r] = v[x] + sum[r \ {x}]
      BY <1>1, SumSplits
    <3>6. total[r] = w[x] + total[r \ {x}]
      BY <1>1, SumSplits
    <3>7. QED
      BY <3>4, <3>5, <3>6
  <2>2. QED
    BY <2>1
<1> HIDE DEF T
<1>4. Cardinality(s) \in T
  <2>1. \A n \in Nat : n \in T
    BY <1>2, <1>3, Induction
  <2>2. QED
    BY <2>1, <1>1
<1>5. QED
  BY <1>4 DEF T

-----------------------------------------------------------------------------
(* Sums over the first elements of a list: where each begins, when they are *)
(* laid out one after the other.                                            *)

\* SumOf(S, v) is MapThenSumSet(LAMBDA x : v[x], S), its definition expanded.
SumOf(S, v) == (CHOOSE sum : SumsOf(S, v, sum))[S]

\* The sums of a list's beginnings: nothing for the empty one, and one more value for
\* one more element.
LEMMA SumOfBeginnings ==
  ASSUME NEW n \in Nat, NEW v, \A i \in 1 .. n : v[i] \in Int
  PROVE  /\ SumOf(1 .. 0, v) = 0
         /\ \A k \in 0 .. n : SumOf(1 .. k, v) \in Int
         /\ \A k \in 1 .. n : SumOf(1 .. k, v) = SumOf(1 .. k - 1, v) + v[k]
<1> DEFINE sums(k) == CHOOSE sum : SumsOf(1 .. k, v, sum)
<1>0. \A k \in 0 .. n : /\ IsFiniteSet(1 .. k) /\ 1 .. k \in SUBSET (1 .. k)
                        /\ \A i \in 1 .. k : v[i] \in Int
  BY FS_Interval
<1>1. \A k \in 0 .. n : SumsOf(1 .. k, v, sums(k))
  <2> TAKE k \in 0 .. n
  <2>1. \E sum : SumsOf(1 .. k, v, sum)
    BY <1>0, SumsExist
  <2>2. QED
    BY <2>1
<1> HIDE DEF sums
<1>2. \A k \in 0 .. n : SumOf(1 .. k, v) = sums(k)[1 .. k]
  BY DEF SumOf, sums
<1>3. SumOf(1 .. 0, v) = 0
  <2>1. 0 \in 0 .. n /\ 1 .. 0 = {}
    OBVIOUS
  <2>2. sums(0)[1 .. 0] = 0
    BY <1>0, <1>1, <2>1, SumSplits
  <2>3. QED
    BY <1>2, <2>1, <2>2
<1>4. \A k \in 0 .. n : SumOf(1 .. k, v) \in Int
  <2> TAKE k \in 0 .. n
  <2>1. sums(k)[1 .. k] \in Int
    BY <1>0, <1>1, SumSplits
  <2>2. QED
    BY <1>2, <2>1
<1>5. ASSUME NEW k \in 1 .. n PROVE SumOf(1 .. k, v) = SumOf(1 .. k - 1, v) + v[k]
  <2>1. /\ IsFiniteSet(1 .. k) /\ IsFiniteSet(1 .. k - 1)
        /\ (1 .. k) \ {k} = 1 .. k - 1
        /\ k \in 1 .. k /\ k \in 0 .. n /\ k - 1 \in 0 .. n
    BY FS_Interval
  <2>2. sums(k)[1 .. k] = v[k] + sums(k)[1 .. k - 1]
    <3> DEFINE I == 1 .. k
               f == sums(k)
    <3>1. /\ SumsOf(I, v, f) /\ IsFiniteSet(I) /\ I \in SUBSET I
          /\ \A x \in I : v[x] \in Int
      BY <1>0, <1>1, <2>1
    <3>2. k \in I /\ I \ {k} = 1 .. k - 1
      BY <2>1
    <3> HIDE DEF I, f
    <3>3. \A x \in I : f[I] = v[x] + f[I \ {x}]
      BY <3>1, SumSplits
    <3>4. f[I] = v[k] + f[1 .. k - 1]
      BY <3>2, <3>3
    <3>5. QED
      BY <3>4 DEF I, f
  <2>3. sums(k)[1 .. k - 1] = sums(k - 1)[1 .. k - 1]
    <3>1. SumsOf(1 .. k, v, sums(k)) /\ SumsOf(1 .. k - 1, v, sums(k - 1))
      BY <1>1, <2>1
    <3>2. (1 .. k - 1) \in SUBSET ((1 .. k) \cap (1 .. k - 1))
      OBVIOUS
    <3>3. QED
      BY <2>1, <3>1, <3>2, SumsAgree
  <2>4. v[k] \in Int /\ sums(k - 1)[1 .. k - 1] \in Int
    BY <1>2, <1>4, <2>1
  <2>5. QED
    BY <1>2, <2>1, <2>2, <2>3, <2>4
<1>6. QED
  BY <1>3, <1>4, <1>5

\* Lists of naturals: the beginnings' sums grow, and every place below the whole sum
\* belongs to the element whose span it lies in.
LEMMA SpansTile ==
  ASSUME NEW n \in Nat, NEW loc, loc[0] = 0, \A i \in 0 .. n : loc[i] \in Nat,
         NEW t \in Nat, t < loc[n]
  PROVE  \E i \in 1 .. n : loc[i - 1] <= t /\ t < loc[i]
<1> DEFINE T == {i \in Nat : i \in 0 .. n /\ t < loc[i]}
<1>1. n \in T
  OBVIOUS
<1>2. PICK i \in T : \A j \in T : i <= j
  BY <1>1, Least
<1>3. i # 0
  OBVIOUS
<1>4. i \in 1 .. n /\ i - 1 \in 0 .. n /\ i - 1 \notin T
  BY <1>2, <1>3
<1>5. loc[i - 1] <= t
  BY <1>4
<1>6. QED
  BY <1>4, <1>5

\* The beginnings' sums of naturals never shrink.
LEMMA BeginningsGrow ==
  ASSUME NEW n \in Nat, NEW loc, \A i \in 0 .. n : loc[i] \in Nat,
         \A i \in 1 .. n : loc[i - 1] <= loc[i],
         NEW i \in 0 .. n, NEW j \in i .. n
  PROVE  loc[i] <= loc[j]
<1> DEFINE T == {d \in Nat : i + d <= n => loc[i] <= loc[i + d]}
<1>1. 0 \in T
  OBVIOUS
<1>2. ASSUME NEW d \in Nat, d \in T PROVE d + 1 \in T
  <2>1. ASSUME i + (d + 1) <= n PROVE loc[i] <= loc[i + (d + 1)]
    <3>1. i + (d + 1) \in 1 .. n /\ i + (d + 1) - 1 = i + d /\ i + d \in 0 .. n
      BY <2>1
    <3>2. loc[i + d] <= loc[i + (d + 1)]
      BY <3>1
    <3>3. loc[i] <= loc[i + d]
      BY <1>2, <2>1
    <3>4. QED
      BY <3>1, <3>2, <3>3
  <2>2. QED
    BY <2>1
<1> HIDE DEF T
<1>3. j - i \in T
  BY <1>1, <1>2, Induction
<1>4. QED
  <2>1. i + (j - i) = j
    OBVIOUS
  <2>2. QED
    BY <1>3, <2>1 DEF T

\* Where the spans of a sequence of lengths begin: each where the one before it ends.
LEMMA Beginnings ==
  ASSUME NEW lens \in Seq(Nat \ {0})
  PROVE  /\ SumOf(1 .. 0, lens) = 0
         /\ \A k \in 0 .. Len(lens) : SumOf(1 .. k, lens) \in Nat
         /\ \A k \in 1 .. Len(lens) : SumOf(1 .. k, lens) = SumOf(1 .. k - 1, lens) + lens[k]
         /\ \A i \in 0 .. Len(lens) : \A j \in i .. Len(lens) :
              SumOf(1 .. i, lens) <= SumOf(1 .. j, lens)
<1> DEFINE n == Len(lens)
           loc == [k \in 0 .. n |-> SumOf(1 .. k, lens)]
<1>1. n \in Nat /\ \A i \in 1 .. n : lens[i] \in Nat \ {0}
  OBVIOUS
<1>2. /\ SumOf(1 .. 0, lens) = 0
      /\ \A k \in 0 .. n : SumOf(1 .. k, lens) \in Int
      /\ \A k \in 1 .. n : SumOf(1 .. k, lens) = SumOf(1 .. k - 1, lens) + lens[k]
  <2>1. \A i \in 1 .. n : lens[i] \in Int
    BY <1>1
  <2> HIDE DEF n
  <2>2. QED
    BY <1>1, <2>1, SumOfBeginnings
<1> HIDE DEF n
<1>3. \A k \in 0 .. n : SumOf(1 .. k, lens) \in Nat
  <2> DEFINE T == {k \in Nat : k <= n => SumOf(1 .. k, lens) \in Nat}
  <2>1. 0 \in T
    BY <1>2
  <2>2. ASSUME NEW k \in Nat, k \in T PROVE k + 1 \in T
    <3>1. ASSUME k + 1 <= n PROVE SumOf(1 .. k + 1, lens) \in Nat
      <4>1. k + 1 \in 1 .. n /\ (k + 1) - 1 = k /\ k <= n
        BY <1>1, <3>1
      <4>2. SumOf(1 .. k + 1, lens) = SumOf(1 .. k, lens) + lens[k + 1]
        BY <1>2, <4>1
      <4>3. SumOf(1 .. k, lens) \in Nat /\ lens[k + 1] \in Nat
        BY <1>1, <2>2, <4>1
      <4>4. QED
        BY <4>2, <4>3
    <3>2. QED
      BY <3>1
  <2> HIDE DEF T
  <2>3. \A k \in Nat : k \in T
    BY <2>1, <2>2, Induction
  <2>4. QED
    BY <1>1, <2>3 DEF T
<1>4. ASSUME NEW i \in 0 .. n, NEW j \in i .. n PROVE SumOf(1 .. i, lens) <= SumOf(1 .. j, lens)
  <2>1. \A k \in 0 .. n : loc[k] = SumOf(1 .. k, lens) /\ loc[k] \in Nat
    BY <1>3
  <2>2. \A k \in 1 .. n : loc[k - 1] <= loc[k]
    <3> TAKE k \in 1 .. n
    <3>1. k \in 0 .. n /\ k - 1 \in 0 .. n
      BY <1>1
    <3>2. SumOf(1 .. k, lens) = SumOf(1 .. k - 1, lens) + lens[k] /\ lens[k] \in Nat
      BY <1>1, <1>2
    <3>3. SumOf(1 .. k - 1, lens) \in Nat /\ SumOf(1 .. k - 1, lens) <= SumOf(1 .. k, lens)
      BY <1>3, <3>1, <3>2
    <3> HIDE DEF loc
    <3>4. QED
      BY <2>1, <3>1, <3>3
  <2> HIDE DEF loc
  <2>3. loc[i] <= loc[j]
    BY <1>1, <2>1, <2>2, BeginningsGrow
  <2>4. i \in 0 .. n /\ j \in 0 .. n
    BY <1>1
  <2>5. QED
    BY <2>1, <2>3, <2>4
<1>5. QED
  BY <1>2, <1>3, <1>4 DEF n

\* A part of a sequence.
LEMMA Slice ==
  ASSUME NEW S, NEW s \in Seq(S), NEW a \in 1 .. Len(s), NEW b \in 1 .. Len(s), a <= b
  PROVE  /\ SubSeq(s, a, b) \in Seq(S)
         /\ Len(SubSeq(s, a, b)) = b - a + 1
         /\ \A o \in 1 .. b - a + 1 : SubSeq(s, a, b)[o] = s[a + o - 1]
<1>1. SubSeq(s, a, b) \in Seq(S)
  OBVIOUS
<1>2. Len(SubSeq(s, a, b)) = b - a + 1
  OBVIOUS
<1>3. \A o \in 1 .. b - a + 1 : SubSeq(s, a, b)[o] = s[a + o - 1]
  OBVIOUS
<1>4. QED
  BY <1>1, <1>2, <1>3

-----------------------------------------------------------------------------
(* Division: a number of q whole spans of n and p more.                     *)

\* Which span it lies in, and how far into it.
LEMMA DivMod ==
  ASSUME NEW n \in Nat \ {0}, NEW q \in Nat, NEW p \in 0 .. n - 1,
         NEW x \in Nat, x = q * n + p
  PROVE  x \div n = q /\ x % n = p
<1>1. x \div n = q
  OBVIOUS
<1>2. x % n = p
  OBVIOUS
<1>3. QED
  BY <1>1, <1>2

\* Every number is so many whole spans and a rest; below m spans there are fewer than
\* m whole ones.
LEMMA DivModOf ==
  ASSUME NEW n \in Nat \ {0}, NEW x \in Nat
  PROVE  /\ x \div n \in Nat
         /\ x % n \in 0 .. n - 1
         /\ x = (x \div n) * n + (x % n)
         /\ \A m \in Nat : x < m * n => x \div n < m
<1>1. x \div n \in Nat /\ n * (x \div n) <= x
  OBVIOUS
<1>2. x < n * (x \div n) + n
  OBVIOUS
<1> DEFINE q == x \div n
           p == x - q * n
<1>3. q \in Nat
  BY <1>1
<1>4. q * n \in Nat /\ q * n = n * q
  BY <1>3
<1>5. p \in 0 .. n - 1 /\ x = q * n + p
  BY <1>1, <1>2, <1>4
<1>6. x % n = p
  BY <1>3, <1>5, DivMod
<1>7. ASSUME NEW m \in Nat, x < m * n PROVE q < m
  <2> SUFFICES ASSUME m <= q PROVE FALSE
    BY <1>3
  <2> HIDE DEF q
  <2>1. m * n <= q * n
    BY <1>3
  <2>2. QED
    BY <2>1, <1>4, <1>5, <1>7
<1>8. x = q * n + (x % n) /\ x % n \in 0 .. n - 1
  BY <1>5, <1>6
<1>9. QED
  BY <1>1, <1>7, <1>8

\* More spans are no shorter.
LEMMA Times ==
  ASSUME NEW m \in Nat, NEW n \in Nat, m <= n, NEW l \in Nat
  PROVE  m * l \in Nat /\ n * l \in Nat /\ m * l <= n * l
<1> DEFINE d == n - m
<1>1. d \in Nat /\ n = m + d
  OBVIOUS
<1> HIDE DEF d
<1>2. n * l = m * l + d * l /\ d * l \in Nat /\ m * l \in Nat
  BY <1>1
<1>3. QED
  BY <1>2

\* The whole spans of b that cover a.
LEMMA Ceiling ==
  ASSUME NEW a \in Nat, NEW b \in Nat \ {0}
  PROVE  /\ (a + b - 1) \div b \in Nat
         /\ a <= b * ((a + b - 1) \div b)
         /\ a > 0 => (a + b - 1) \div b > 0
         /\ a = 0 => (a + b - 1) \div b = 0
<1> DEFINE x == a + b - 1
           q == x \div b
<1>1. x \in Nat
  OBVIOUS
<1>2. q \in Nat /\ x % b \in 0 .. b - 1 /\ x = q * b + (x % b)
  BY <1>1, DivModOf
<1>3. a = 0 => q = 0
  <2>1. CASE a = 0
    <3>1. x \in 0 .. b - 1 /\ x = 0 * b + x
      BY <2>1
    <3>2. QED
      BY <1>1, <3>1, DivMod
  <2>2. QED
    BY <2>1
<1>4. (a + b - 1) \div b = q
  OBVIOUS
<1>5. a <= q * b
  <2> DEFINE y == q * b
  <2>1. y \in Nat /\ x = y + (x % b)
    BY <1>2
  <2> HIDE DEF y, q
  <2>2. a <= y
    BY <1>2, <2>1
  <2>3. QED
    BY <2>2 DEF y
<1> HIDE DEF q, x
<1>6. a > 0 => q > 0
  BY <1>2, <1>5
<1>7. q * b = b * q
  BY <1>2
<1>8. QED
  BY <1>2, <1>3, <1>4, <1>5, <1>6, <1>7
=============================================================================
