-------------------------- MODULE IndexTopK_proofs --------------------------
(***************************************************************************)
(* Proofs about IndexTopK. A row of topk_indices_buffer is good when this   *)
(* step's own source computed it from the row's own token. The invariant    *)
(* says which rows are good at every point of a layer: the prefill chunks   *)
(* done so far, then the decode rows, then all of the batch's rows, until   *)
(* the next source clears them; and the same of the candidates from the     *)
(* candidate source on.                                                     *)
(*                                                                         *)
(* A padded decode batch takes the weights and the candidates of the wrong  *)
(* rows, and its results overwrite rows of prefill tokens. So the theorems  *)
(* about weights and candidates speak of the steps that need no padding,    *)
(* those about sources of the steps that do not pad decodes next to         *)
(* prefills.                                                                *)
(***************************************************************************)
EXTENDS IndexTopK, DcpMerge, SumLemmas

Uniform == ~RequiresPadding(batch)
Unmixed == RequiresPadding(batch) => batch.prefill = <<>>

\* The first token of chunk c; past the last chunk, the end of the batch.
ChunkStart(b, c) == NumDecodeTokens(b) + SumTo(b.prefill, c - 1)

\* Whether a source of this batch takes the short-context path.
Short(s) == ~batch.replay /\ batch.max_seq_len \div Ratio[s] <= TopK

\* Row t is source s's of this step, computed from token t ...
OwnRow(t, s) ==
  /\ topk[t] # None
  /\ topk[t].step = step
  /\ topk[t].layer = s
  /\ topk[t].token = t
\* ... with t's weights, masked to t's candidates.
OwnInputs(t, s) ==
  /\ topk[t].weights = t
  /\ s > CandidateSource /\ topk[t].mask # Everything => topk[t].mask = Candidates(t, t)
Good(t, s) == OwnRow(t, s) /\ (Uniform => OwnInputs(t, s))

\* The rows from one to before another are good, or the batch is one that is padded
\* next to a prefill.
GoodFrom(s, from, to) == Unmixed => \A t \in from .. to - 1 : Good(t, s)

\* s is the last source up to layer l.
Latest(s, l) == s <= l /\ (\A z \in IndexSources : z <= l => z <= s)

RowsGood ==
  /\ pc = "prefill" => GoodFrom(layer, NumDecodeTokens(batch), ChunkStart(batch, chunk))
  /\ pc = "decode" => GoodFrom(layer, NumDecodeTokens(batch), NumTokens(batch))
  /\ pc = "attend" => \A s \in IndexSources :
       Latest(s, layer) => GoodFrom(s, 0, NumTokens(batch))
  /\ pc = "index" => \A s \in IndexSources :
       Latest(s, layer - 1) => GoodFrom(s, 0, NumTokens(batch))

\* The candidates of the rows from one to before another are their own.
PublishedFrom(from, to) ==
  Uniform => \A t \in from .. to - 1 : cand[t] = Candidates(t, t)

CandidatesGood ==
  /\ pc # "done" /\ layer > CandidateSource /\ ~Short(CandidateSource) =>
       PublishedFrom(0, NumTokens(batch))
  /\ layer = CandidateSource =>
       /\ pc = "prefill" => PublishedFrom(NumDecodeTokens(batch), ChunkStart(batch, chunk))
       /\ pc = "decode" => PublishedFrom(NumDecodeTokens(batch), NumTokens(batch))
       /\ pc = "attend" /\ ~Short(CandidateSource) => PublishedFrom(0, NumTokens(batch))

\* Where the layer is.
Placed ==
  /\ pc # "done" => batch \in Batches /\ step # 0
  /\ pc \in {"prefill", "decode"} => layer \in IndexSources /\ ~Short(layer)
  /\ pc = "prefill" => chunk \in 1 .. Len(batch.prefill) + 1
  /\ pc = "decode" => batch.decode # <<>>

Inv == TypeOK /\ Placed /\ RowsGood /\ CandidatesGood

-----------------------------------------------------------------------------
(* The layout of a batch.                                                   *)

\* SumTo is the sum of SumLemmas.
LEMMA SumToIsSum ==
  ASSUME NEW lens, NEW n
  PROVE  SumTo(lens, n) = SumOf(1 .. n, lens)
BY DEF SumTo, MapThenSumSet, MapThenFoldSet, SumOf, SumsOf, Taken

\* Where the requests of a list of query lengths begin.
LEMMA Starts ==
  ASSUME NEW lens \in Seq(Nat \ {0})
  PROVE  /\ SumTo(lens, 0) = 0
         /\ \A k \in 0 .. Len(lens) : SumTo(lens, k) \in Nat
         /\ \A k \in 1 .. Len(lens) : SumTo(lens, k) = SumTo(lens, k - 1) + lens[k]
         /\ \A i \in 0 .. Len(lens) : \A j \in i .. Len(lens) :
              SumTo(lens, i) <= SumTo(lens, j)
BY SumToIsSum, Beginnings

\* The decode requests' tokens come first; each chunk's follow the one's before it, and
\* the last ends the batch, which has a row for every token.
LEMMA Layout ==
  ASSUME NEW b \in Batches
  PROVE  /\ Len(b.prefill) \in Nat
         /\ NumDecodeTokens(b) \in Nat
         /\ NumTokens(b) \in Nat /\ NumDecodeTokens(b) <= NumTokens(b)
         /\ 0 .. NumTokens(b) - 1 \subseteq Rows
         /\ ChunkStart(b, 1) = NumDecodeTokens(b)
         /\ ChunkStart(b, Len(b.prefill) + 1) = NumTokens(b)
         /\ \A c \in 1 .. Len(b.prefill) :
              /\ ChunkTokens(b, c) = ChunkStart(b, c) .. ChunkStart(b, c + 1) - 1
              /\ ChunkStart(b, c) \in Nat /\ ChunkStart(b, c + 1) \in Nat
              /\ NumDecodeTokens(b) <= ChunkStart(b, c)
              /\ ChunkStart(b, c + 1) <= NumTokens(b)
<1> DEFINE n == Len(b.prefill)
           d == NumDecodeTokens(b)
<1>1. /\ b.decode \in Seq(Nat \ {0}) /\ b.prefill \in Seq(Nat \ {0})
      /\ NumTokens(b) <= MaxRows /\ MaxRows \in Nat
  BY BatchAssumption
<1>2. n \in Nat /\ Len(b.decode) \in Nat
  BY <1>1
<1>3. d \in Nat
  BY <1>1, <1>2, Starts DEF NumDecodeTokens
<1>4. /\ SumTo(b.prefill, 0) = 0
      /\ \A k \in 0 .. n : SumTo(b.prefill, k) \in Nat
      /\ \A k \in 1 .. n : SumTo(b.prefill, k) = SumTo(b.prefill, k - 1) + b.prefill[k]
      /\ \A k \in 0 .. n : SumTo(b.prefill, k) <= SumTo(b.prefill, n)
  BY <1>1, <1>2, Starts
<1>5. NumTokens(b) = d + SumTo(b.prefill, n)
  BY DEF NumTokens
<1>6. \A c : ChunkStart(b, c) = d + SumTo(b.prefill, c - 1)
  BY DEF ChunkStart
<1>7. \A c : ChunkTokens(b, c) = ChunkStart(b, c) .. ChunkStart(b, c) + b.prefill[c] - 1
  BY DEF ChunkTokens, ChunkStart
<1>8. \A c \in 1 .. n : b.prefill[c] \in Nat
  BY <1>1
<1> HIDE DEF n, d
<1>9. NumTokens(b) \in Nat /\ d <= NumTokens(b)
  BY <1>2, <1>3, <1>4, <1>5
<1>10. 0 .. NumTokens(b) - 1 \subseteq Rows
  BY <1>1, <1>9 DEF Rows
<1>11. ChunkStart(b, 1) = d /\ ChunkStart(b, n + 1) = NumTokens(b)
  BY <1>2, <1>3, <1>4, <1>5, <1>6
<1>12. ASSUME NEW c \in 1 .. n
       PROVE  /\ ChunkTokens(b, c) = ChunkStart(b, c) .. ChunkStart(b, c + 1) - 1
              /\ ChunkStart(b, c) \in Nat /\ ChunkStart(b, c + 1) \in Nat
              /\ d <= ChunkStart(b, c)
              /\ ChunkStart(b, c + 1) <= NumTokens(b)
  <2>1. c \in 0 .. n /\ c - 1 \in 0 .. n /\ (c + 1) - 1 = c
    BY <1>2
  <2>2. ChunkStart(b, c) = d + SumTo(b.prefill, c - 1)
    BY <1>6
  <2>3. ChunkStart(b, c + 1) = d + SumTo(b.prefill, c)
    BY <1>6, <2>1
  <2>4. SumTo(b.prefill, c) = SumTo(b.prefill, c - 1) + b.prefill[c]
    BY <1>4
  <2>5. /\ SumTo(b.prefill, c) \in Nat /\ SumTo(b.prefill, c - 1) \in Nat
        /\ SumTo(b.prefill, c) <= SumTo(b.prefill, n) /\ SumTo(b.prefill, n) \in Nat
    BY <1>2, <1>4, <2>1
  <2>6. ChunkStart(b, c + 1) = ChunkStart(b, c) + b.prefill[c]
    BY <1>3, <1>8, <2>2, <2>3, <2>4, <2>5
  <2>7. ChunkStart(b, c) \in Nat /\ ChunkStart(b, c + 1) \in Nat
    BY <1>3, <2>2, <2>3, <2>5
  <2>8. d <= ChunkStart(b, c) /\ ChunkStart(b, c + 1) <= NumTokens(b)
    BY <1>3, <1>5, <2>2, <2>3, <2>5
  <2>9. ChunkTokens(b, c) = ChunkStart(b, c) .. ChunkStart(b, c + 1) - 1
    <3>1. ChunkTokens(b, c) = ChunkStart(b, c) .. ChunkStart(b, c) + b.prefill[c] - 1
      BY <1>7
    <3>2. ChunkStart(b, c) + b.prefill[c] - 1 = ChunkStart(b, c + 1) - 1
      BY <1>8, <2>6, <2>7
    <3>3. QED
      BY <3>1, <3>2
  <2>10. QED
    BY <2>7, <2>8, <2>9
<1>13. QED
  BY <1>2, <1>3, <1>9, <1>10, <1>11, <1>12 DEF n, d

\* The longest of the decode requests is one of them.
LEMMA Longest ==
  ASSUME NEW b \in Batches, b.decode # <<>>
  PROVE  /\ Len(b.decode) \in Nat \ {0}
         /\ NextN(b) \in Nat \ {0}
         /\ \A i \in 1 .. Len(b.decode) : b.decode[i] \in 1 .. NextN(b)
<1> DEFINE n == Len(b.decode)
           Q == {b.decode[i] : i \in DOMAIN b.decode}
<1>1. /\ b.decode \in Seq(Nat \ {0}) /\ n \in Nat \ {0}
      /\ DOMAIN b.decode = 1 .. n
      /\ \A i \in 1 .. n : b.decode[i] \in Nat \ {0}
  BY BatchAssumption
<1>2. \A i \in 1 .. n : b.decode[i] <= NumDecodeTokens(b)
  <2> TAKE i \in 1 .. n
  <2>1. i \in 0 .. n /\ i - 1 \in 0 .. n /\ n \in i .. n
    BY <1>1
  <2>2. SumTo(b.decode, i) = SumTo(b.decode, i - 1) + b.decode[i]
    BY <1>1, Starts
  <2>3. SumTo(b.decode, i) \in Nat /\ SumTo(b.decode, i - 1) \in Nat /\ SumTo(b.decode, n) \in Nat
    BY SMTT(30), <1>1, <2>1, Starts
  <2>4. SumTo(b.decode, i) <= SumTo(b.decode, n)
    BY <1>1, <2>1, Starts
  <2>5. QED
    BY <1>1, <2>2, <2>3, <2>4 DEF NumDecodeTokens
<1>3. NumDecodeTokens(b) \in Nat
  BY Layout
<1>4. Q \in SUBSET Nat /\ Q # {} /\ \A y \in Q : y <= NumDecodeTokens(b)
  <2>1. \A y \in Q : y \in Nat /\ y <= NumDecodeTokens(b)
    BY <1>1, <1>2
  <2>2. b.decode[1] \in Q
    BY <1>1
  <2>3. QED
    BY <2>1, <2>2
<1> HIDE DEF Q
<1>5. \E x \in Q : \A y \in Q : y <= x
  BY <1>3, <1>4, Greatest
<1>6. \E x \in Q : \A y \in Q : x >= y
  BY <1>4, <1>5
<1>7. NextN(b) \in Q /\ \A y \in Q : NextN(b) >= y
  BY <1>6 DEF NextN, Max, Q
<1>8. QED
  <2>1. NextN(b) \in Nat \ {0}
    BY <1>1, <1>7 DEF Q
  <2>2. \A i \in 1 .. n : b.decode[i] \in Q
    BY <1>1 DEF Q
  <2>3. QED
    BY <1>1, <1>7, <2>1, <2>2

\* Without padding, the padded batch is the batch.
LEMMA NoPadding ==
  ASSUME NEW b \in Batches, b.decode # <<>>, ~RequiresPadding(b)
  PROVE  NumPadded(b) = NumDecodeTokens(b)
<1> DEFINE n == Len(b.decode)
           m == NextN(b)
           T == {k \in Nat : k <= n => SumTo(b.decode, k) = k * m}
<1>1. /\ b.decode \in Seq(Nat \ {0}) /\ n \in Nat /\ DOMAIN b.decode = 1 .. n
      /\ m \in Nat /\ \A i \in 1 .. n : b.decode[i] = m
  BY Longest, BatchAssumption DEF RequiresPadding
<1>2. SumTo(b.decode, 0) = 0
  BY <1>1, Starts
<1>3. \A k \in 1 .. n : SumTo(b.decode, k) = SumTo(b.decode, k - 1) + m
  BY <1>1, Starts
<1> HIDE DEF n, m
<1>4. 0 \in T
  BY <1>1, <1>2
<1>5. ASSUME NEW k \in Nat, k \in T PROVE k + 1 \in T
  <2>1. ASSUME k + 1 <= n PROVE SumTo(b.decode, k + 1) = (k + 1) * m
    <3>1. k + 1 \in 1 .. n /\ (k + 1) - 1 = k /\ k <= n
      BY <1>1, <2>1
    <3>2. SumTo(b.decode, k + 1) = k * m + m
      BY <1>3, <1>5, <3>1
    <3>3. (k + 1) * m = k * m + m
      BY <1>1
    <3>4. QED
      BY <3>2, <3>3
  <2>2. QED
    BY <2>1
<1> HIDE DEF T
<1>6. n \in T
  BY <1>1, <1>4, <1>5, Induction
<1>7. QED
  BY <1>1, <1>6 DEF T, NumPadded, NumDecodeTokens, n, m

\* The token whose query each place of the padded batch holds.
DecodeToken(b) ==
  [r \in 0 .. NumPadded(b) - 1 |-> IF RequiresPadding(b) THEN PackedToken(b, r) ELSE r]

\* Every place holds a decode token or padding, and every decode token has a place.
LEMMA Packed ==
  ASSUME NEW b \in Batches, b.decode # <<>>
  PROVE  /\ NumPadded(b) \in Nat /\ 0 .. NumPadded(b) - 1 \subseteq Rows
         /\ \A r \in 0 .. NumPadded(b) - 1 :
              DecodeToken(b)[r] \in 0 .. NumDecodeTokens(b) - 1 \cup {None}
         /\ \A t \in 0 .. NumDecodeTokens(b) - 1 :
              \E r \in 0 .. NumPadded(b) - 1 : DecodeToken(b)[r] = t
<1> DEFINE n == Len(b.decode)
           m == NextN(b)
<1>1. /\ n \in Nat \ {0} /\ m \in Nat \ {0}
      /\ \A i \in 1 .. n : b.decode[i] \in 1 .. m
  BY Longest
<1>2. b.decode \in Seq(Nat \ {0}) /\ NumPadded(b) <= MaxRows /\ MaxRows \in Nat
  BY BatchAssumption
<1>3. NumPadded(b) = n * m
  BY DEF NumPadded
<1>4. /\ SumTo(b.decode, 0) = 0
      /\ \A k \in 0 .. n : SumTo(b.decode, k) \in Nat
      /\ \A k \in 1 .. n : SumTo(b.decode, k) = SumTo(b.decode, k - 1) + b.decode[k]
      /\ \A k \in 0 .. n : SumTo(b.decode, k) <= SumTo(b.decode, n)
  BY <1>1, <1>2, Starts
<1>5. NumDecodeTokens(b) = SumTo(b.decode, n) /\ NumDecodeTokens(b) \in Nat
  BY Layout DEF NumDecodeTokens
<1>6. \A r \in Nat : PackedToken(b, r) =
        IF r % m < b.decode[r \div m + 1] THEN SumTo(b.decode, r \div m) + (r % m) ELSE None
  <2> TAKE r \in Nat
  <2>1. (r \div m + 1) - 1 = r \div m
    <3>1. r \div m \in Nat
      BY <1>1, DivModOf
    <3>2. QED
      BY <3>1
  <2>2. QED
    BY <2>1 DEF PackedToken
<1> HIDE DEF n, m
<1>7. NumPadded(b) \in Nat /\ 0 .. NumPadded(b) - 1 \subseteq Rows
  <2>1. n * m \in Nat
    BY <1>1
  <2> HIDE DEF NumPadded
  <2>2. QED
    BY <1>2, <1>3, <2>1 DEF Rows
<1>8. ASSUME NEW r \in 0 .. NumPadded(b) - 1, RequiresPadding(b)
      PROVE  PackedToken(b, r) \in 0 .. NumDecodeTokens(b) - 1 \cup {None}
  <2> DEFINE q == r \div m
             p == r % m
  <2>1. r \in Nat /\ r < n * m
    BY <1>3, <1>7
  <2>2. q \in Nat /\ p \in Nat /\ q < n
    <3>1. q \in Nat /\ p \in 0 .. m - 1
      BY <1>1, <2>1, DivModOf
    <3>2. \A k \in Nat : r < k * m => q < k
      BY <1>1, <2>1, DivModOf
    <3>3. q < n
      BY <1>1, <2>1, <3>2
    <3>4. QED
      BY <1>1, <3>1, <3>3
  <2>3. PackedToken(b, r) = IF p < b.decode[q + 1] THEN SumTo(b.decode, q) + p ELSE None
    BY <1>6, <2>1
  <2> HIDE DEF q, p
  <2>4. q \in 0 .. n /\ q + 1 \in 1 .. n /\ (q + 1) - 1 = q /\ q + 1 \in 0 .. n
    BY <1>1, <2>2
  <2>5. SumTo(b.decode, q + 1) = SumTo(b.decode, q) + b.decode[q + 1]
    BY <1>4, <2>4
  <2>6. /\ SumTo(b.decode, q) \in Nat /\ b.decode[q + 1] \in Nat
        /\ SumTo(b.decode, q + 1) <= NumDecodeTokens(b)
    <3>1. SumTo(b.decode, q) \in Nat
      BY <1>4, <2>4
    <3>2. SumTo(b.decode, q + 1) <= SumTo(b.decode, n)
      BY <1>4, <2>4
    <3>3. b.decode[q + 1] \in Nat
      BY <1>1, <2>4
    <3>4. QED
      BY <1>5, <3>1, <3>2, <3>3
  <2>7. CASE p < b.decode[q + 1]
    <3>1. SumTo(b.decode, q) + p \in 0 .. NumDecodeTokens(b) - 1
      BY <1>5, <2>2, <2>5, <2>6, <2>7
    <3>2. QED
      BY <2>3, <2>7, <3>1
  <2>8. CASE ~(p < b.decode[q + 1])
    BY <2>3, <2>8
  <2>9. QED
    BY <2>7, <2>8
<1>9. ASSUME NEW t \in 0 .. NumDecodeTokens(b) - 1, RequiresPadding(b)
      PROVE  \E r \in 0 .. NumPadded(b) - 1 : PackedToken(b, r) = t
  <2> DEFINE loc == [k \in 0 .. n |-> SumTo(b.decode, k)]
  <2>1. /\ loc[0] = 0 /\ loc[n] = NumDecodeTokens(b)
        /\ \A k \in 0 .. n : loc[k] = SumTo(b.decode, k) /\ loc[k] \in Nat
    BY <1>1, <1>4, <1>5
  <2> HIDE DEF loc
  <2>2. t \in Nat /\ t < loc[n]
    BY <1>5, <2>1
  <2>3. PICK i \in 1 .. n : loc[i - 1] <= t /\ t < loc[i]
    BY <1>1, <2>1, <2>2, SpansTile
  <2> DEFINE q == i - 1
             p == t - SumTo(b.decode, q)
             r == q * m + p
  <2>4. q \in 0 .. n /\ i \in 0 .. n /\ q \in Nat /\ q + 1 = i /\ i <= n
    BY <1>1
  <2>5. SumTo(b.decode, i) = SumTo(b.decode, q) + b.decode[i]
    BY <1>4
  <2>6. p \in Nat /\ p < b.decode[i] /\ p \in 0 .. m - 1 /\ SumTo(b.decode, q) + p = t
    <3>1. SumTo(b.decode, q) \in Nat /\ SumTo(b.decode, i) \in Nat
      BY <1>4, <2>4
    <3>2. SumTo(b.decode, q) <= t /\ t < SumTo(b.decode, i)
      BY <2>1, <2>3, <2>4
    <3>3. b.decode[i] \in 1 .. m
      BY <1>1
    <3>4. QED
      BY SMTT(30), <1>1, <2>2, <2>5, <3>1, <3>2, <3>3
  <2> HIDE DEF p
  <2>7. q * m \in Nat /\ (q + 1) * m = q * m + m /\ (q + 1) * m <= n * m
    <3>1. q * m \in Nat
      BY <1>1, <2>4
    <3>2. (q + 1) * m = q * m + m
      BY <1>1, <2>4
    <3>3. i * m <= n * m
      BY <1>1, <2>4
    <3>4. QED
      BY <2>4, <3>1, <3>2, <3>3
  <2> HIDE DEF q
  <2>8. r \in Nat /\ r \in 0 .. NumPadded(b) - 1
    BY <1>1, <1>3, <1>7, <2>6, <2>7
  <2>9. r \div m = q /\ r % m = p
    BY <1>1, <2>4, <2>6, <2>8, DivMod
  <2> HIDE DEF r
  <2>10. PackedToken(b, r) = t
    BY <1>6, <2>4, <2>6, <2>8, <2>9
  <2>11. QED
    BY <2>8, <2>10
<1>10. QED
  <2>1. CASE RequiresPadding(b)
    BY <1>7, <1>8, <1>9, <2>1 DEF DecodeToken
  <2>2. CASE ~RequiresPadding(b)
    <3>1. NumPadded(b) = NumDecodeTokens(b)
      BY <2>2, NoPadding
    <3>2. QED
      BY <1>5, <1>7, <2>2, <3>1 DEF DecodeToken
  <2>3. QED
    BY <2>1, <2>2

-----------------------------------------------------------------------------
(* The layers.                                                              *)

\* A layer with compressed positions reads the last source up to it.
LEMMA SourceOf ==
  ASSUME NEW l \in Layers, Ratio[l] > 0
  PROVE  IndexSource(l) \in IndexSources /\ Latest(IndexSource(l), l)
<1> DEFINE Q == {s \in IndexSources : s <= l}
<1>1. /\ IndexSources \in SUBSET Nat /\ l \in Nat
      /\ \E s \in IndexSources : s <= l
  BY SMTT(30), IndexAssumption DEF Layers
<1>2. \E x \in Q : \A y \in Q : y <= x
  BY <1>1, Greatest
<1>3. \E x \in Q : \A y \in Q : x >= y
  BY <1>1, <1>2
<1>4. IndexSource(l) \in Q /\ \A y \in Q : IndexSource(l) >= y
  BY <1>3 DEF IndexSource, Max
<1>5. QED
  BY <1>1, <1>4 DEF Latest

\* From the candidate source on, a batch is short for every source or for none.
LEMMA ShortForAll ==
  ASSUME NEW s \in IndexSources, s >= CandidateSource
  PROVE  Short(s) <=> Short(CandidateSource)
BY IndexAssumption DEF Short

\* What a kernel stores for a row is what TypeOK lets a row hold, and is not None.
LEMMA StoredTyped ==
  ASSUME TypeOK, step # 0, layer \in IndexSources,
         NEW t \in Rows \cup {None}, NEW w \in Rows,
         NEW m \in {None, Everything} \cup CandRows(step)
  PROVE  Selected(t, w, m) \in TopkRows(step) /\ Selected(t, w, m) # None
<1>1. step \in 1 .. step /\ step \in 0 .. MaxSteps /\ MaxSteps \in Nat
  BY BatchAssumption DEF TypeOK
<1>2. CandRows(step) \subseteq CandRows(MaxSteps)
  BY <1>1 DEF CandRows
<1>3. Selected(t, w, m) \in TopkRows(step)
  BY <1>1 DEF Selected, TopkRows
<1>4. Selected(t, w, m) \in TopkRows(MaxSteps)
  BY <1>1, <1>2 DEF Selected, TopkRows
<1>5. QED
  BY <1>3, <1>4, NoneAssumption

\* What it publishes is what TypeOK lets a row of candidates hold.
LEMMA PublishedTyped ==
  ASSUME TypeOK, step # 0, NEW t \in Rows \cup {None}, NEW w \in Rows
  PROVE  Candidates(t, w) \in CandRows(step)
<1>1. step \in 1 .. step
  BY BatchAssumption DEF TypeOK
<1>2. QED
  BY <1>1 DEF Candidates, CandRows

-----------------------------------------------------------------------------
(* The steps.                                                               *)

\* The invariant holds before the first step.
LEMMA InitInv == Init => Inv
<1> SUFFICES ASSUME Init PROVE Inv
  OBVIOUS
<1>1. NumLayers \in Layers /\ MaxSteps \in Nat
  BY IndexAssumption, BatchAssumption DEF Layers
<1>2. TypeOK
  BY <1>1 DEF Init, TypeOK
<1>3. Placed /\ RowsGood /\ CandidatesGood
  BY DEF Init, Placed, RowsGood, CandidatesGood
<1>4. QED
  BY <1>2, <1>3 DEF Inv

\* A new step starts with nothing good, and claims nothing.
LEMMA StartStepInv ==
  ASSUME Inv, NEW b \in Batches, StartStep(b)
  PROVE  Inv'
<1>1. /\ pc' = "index" /\ layer' = 1 /\ step' = step + 1 /\ batch' = b
      /\ UNCHANGED <<chunk, topk, cand>> /\ step < MaxSteps
      /\ step \in 0 .. MaxSteps /\ MaxSteps \in Nat
  BY BatchAssumption DEF StartStep, Inv, TypeOK
<1>2. TypeOK'
  <2>1. step' \in 0 .. MaxSteps
    BY <1>1
  <2>2. layer' \in Layers
    BY <1>1, IndexAssumption DEF Layers
  <2>3. CandRows(step) \subseteq CandRows(step')
    BY <1>1 DEF CandRows
  <2>4. TopkRows(step) \subseteq TopkRows(step')
    BY <1>1, <2>3 DEF TopkRows
  <2>5. topk' \in [Rows -> {None} \cup TopkRows(step')]
    BY <1>1, <2>4 DEF Inv, TypeOK
  <2>6. cand' \in [Rows -> {None} \cup CandRows(step')]
    BY <1>1, <2>3 DEF Inv, TypeOK
  <2>7. QED
    BY <1>1, <2>1, <2>2, <2>5, <2>6 DEF TypeOK
<1>3. Placed'
  BY <1>1 DEF Placed
<1>4. \A s \in IndexSources : s \in Nat \ {0}
  BY IndexAssumption DEF Layers
<1>5. RowsGood'
  BY <1>1, <1>4 DEF RowsGood, Latest
<1>6. CandidatesGood'
  BY <1>1, <1>4, IndexAssumption DEF CandidatesGood
<1>7. QED
  BY <1>2, <1>3, <1>5, <1>6 DEF Inv

\* A layer that is no source leaves the rows to its own source.
LEMMA NoIndexerInv ==
  ASSUME Inv, NoIndexer
  PROVE  Inv'
<1>1. /\ pc = "index" /\ pc' = "attend" /\ layer \notin IndexSources
      /\ UNCHANGED <<step, batch, layer, chunk, topk, cand>>
  BY DEF NoIndexer
<1>2. TypeOK'
  BY <1>1 DEF Inv, TypeOK
<1>3. Placed'
  BY <1>1 DEF Inv, Placed
<1>4. layer \in Nat /\ IndexSources \in SUBSET Nat
  BY IndexAssumption DEF Inv, TypeOK, Layers
<1>5. \A s \in IndexSources : Latest(s, layer) => Latest(s, layer - 1)
  BY <1>1, <1>4 DEF Latest
<1>6. RowsGood'
  BY <1>1, <1>5 DEF Inv, RowsGood, GoodFrom, Good, OwnRow, OwnInputs, Candidates, Unmixed,
       Uniform, Latest
<1>7. CandidatesGood'
  BY <1>1, IndexAssumption DEF Inv, CandidatesGood, PublishedFrom, Uniform, Candidates, Short
<1>8. QED
  BY <1>2, <1>3, <1>6, <1>7 DEF Inv

\* A short context's rows are all good at once.
LEMMA IndexShortInv ==
  ASSUME Inv, IndexShort
  PROVE  Inv'
<1>1. /\ pc = "index" /\ pc' = "attend" /\ layer \in IndexSources /\ Short(layer)
      /\ topk' = [r \in Rows |-> IF r < NumTokens(batch) THEN All(r) ELSE topk[r]]
      /\ UNCHANGED <<step, batch, layer, chunk, cand>>
      /\ batch \in Batches /\ step # 0
  BY DEF IndexShort, ShortContext, Short, Inv, Placed
<1>2. \A r \in Rows : All(r) = Selected(r, r, Everything)
  BY DEF All, Selected
<1>3. \A r \in Rows : All(r) \in TopkRows(step) /\ All(r) # None
  BY <1>1, <1>2, StoredTyped DEF Inv
<1>4. TypeOK'
  BY <1>1, <1>3 DEF Inv, TypeOK
<1>5. Placed'
  BY <1>1 DEF Inv, Placed
<1>6. \A t \in 0 .. NumTokens(batch) - 1 : t \in Rows /\ t < NumTokens(batch)
  BY <1>1, Layout
<1>7. \A t \in 0 .. NumTokens(batch) - 1 : topk'[t] = Selected(t, t, Everything) /\ topk'[t] # None
  BY <1>1, <1>2, <1>3, <1>6
<1>8. \A t \in 0 .. NumTokens(batch) - 1 : Good(t, layer)'
  <2> TAKE t \in 0 .. NumTokens(batch) - 1
  <2>1. topk'[t] = Selected(t, t, Everything) /\ topk'[t] # None
    BY <1>7
  <2>2. /\ topk'[t].step = step /\ topk'[t].layer = layer /\ topk'[t].token = t
        /\ topk'[t].weights = t /\ topk'[t].mask = Everything
    BY <2>1 DEF Selected
  <2>3. QED
    BY <1>1, <2>1, <2>2 DEF Good, OwnRow, OwnInputs
<1>9. \A s \in IndexSources : Latest(s, layer) => s = layer
  BY <1>1, IndexAssumption DEF Latest, Layers
<1>10. RowsGood'
  BY <1>1, <1>8, <1>9 DEF RowsGood, GoodFrom, Latest
<1>11. CandidatesGood'
  BY <1>1 DEF Inv, CandidatesGood, PublishedFrom, Uniform, Candidates, Short
<1>12. QED
  BY <1>4, <1>5, <1>10, <1>11 DEF Inv

\* After the clearing no row is claimed to be good.
LEMMA IndexClearInv ==
  ASSUME Inv, IndexClear
  PROVE  Inv'
<1>1. /\ pc = "index" /\ pc' = "prefill" /\ layer \in IndexSources /\ ~Short(layer)
      /\ topk' = [r \in Rows |-> IF r < NumTokens(batch) THEN None ELSE topk[r]]
      /\ chunk' = 1
      /\ UNCHANGED <<step, batch, layer, cand>>
      /\ batch \in Batches /\ step # 0
  BY DEF IndexClear, ShortContext, Short, Inv, Placed
<1>2. TypeOK'
  BY <1>1 DEF Inv, TypeOK
<1>3. /\ Len(batch.prefill) \in Nat /\ NumDecodeTokens(batch) \in Nat
      /\ ChunkStart(batch, 1) = NumDecodeTokens(batch)
  BY <1>1, Layout
<1>4. Placed'
  BY <1>1, <1>3 DEF Inv, Placed, Short
<1>5. NumDecodeTokens(batch) .. ChunkStart(batch, 1) - 1 = {}
  BY <1>3
<1>6. RowsGood'
  BY <1>1, <1>5 DEF RowsGood, GoodFrom
<1>7. CandidatesGood'
  BY <1>1, <1>5 DEF Inv, CandidatesGood, PublishedFrom, Uniform, Candidates, Short
<1>8. QED
  BY <1>2, <1>4, <1>6, <1>7 DEF Inv

\* What the rows of a kernel call and its candidates hold after it, and what they are
\* stored over.
LEMMA KernelStores ==
  ASSUME TypeOK, step # 0, layer \in IndexSources,
         NEW R \in SUBSET Rows, NEW token \in [R -> Rows \cup {None}]
  PROVE  \A r \in R :
           /\ Results(token, Same(R), Same(R))[r] =
                Selected(token[r], r, IF Masks THEN cand[r] ELSE None)
           /\ Results(token, Same(R), Same(R))[r] \in TopkRows(step)
           /\ Results(token, Same(R), Same(R))[r] # None
           /\ Candidates(token[r], Same(R)[r]) = Candidates(token[r], r)
           /\ Candidates(token[r], Same(R)[r]) \in CandRows(step)
<1> TAKE r \in R
<1>1. r \in Rows /\ token[r] \in Rows \cup {None} /\ Same(R)[r] = r /\ DOMAIN token = R
  BY DEF Same
<1>2. Results(token, Same(R), Same(R))[r] =
        Selected(token[r], r, IF Masks THEN cand[r] ELSE None)
  BY <1>1 DEF Results
<1>3. (IF Masks THEN cand[r] ELSE None) \in {None, Everything} \cup CandRows(step)
  BY <1>1 DEF TypeOK
<1>4. /\ Selected(token[r], r, IF Masks THEN cand[r] ELSE None) \in TopkRows(step)
      /\ Selected(token[r], r, IF Masks THEN cand[r] ELSE None) # None
  BY <1>1, <1>3, StoredTyped
<1>5. Candidates(token[r], r) \in CandRows(step)
  BY <1>1, PublishedTyped
<1>6. QED
  BY <1>1, <1>2, <1>4, <1>5

\* A chunk's rows join the good ones, with the candidates published for them.
LEMMA IndexPrefillInv ==
  ASSUME Inv, IndexPrefill
  PROVE  Inv'
<1> DEFINE R == ChunkTokens(batch, chunk)
           results == Results(Same(R), Same(R), Same(R))
           d == NumDecodeTokens(batch)
           from == ChunkStart(batch, chunk)
           to == ChunkStart(batch, chunk + 1)
<1>1. /\ pc = "prefill" /\ chunk <= Len(batch.prefill)
      /\ Stored(results) /\ PublishCandidates(Same(R), Same(R))
      /\ chunk' = chunk + 1
      /\ UNCHANGED <<step, batch, layer, pc>>
  BY DEF IndexPrefill
<1>2. /\ batch \in Batches /\ step # 0 /\ layer \in IndexSources /\ ~Short(layer)
      /\ chunk \in 1 .. Len(batch.prefill) + 1
  BY <1>1 DEF Inv, Placed
<1>3. /\ Len(batch.prefill) \in Nat /\ chunk \in 1 .. Len(batch.prefill)
      /\ R = from .. to - 1 /\ from \in Nat /\ to \in Nat
      /\ d \in Nat /\ d <= from /\ to <= NumTokens(batch) /\ NumTokens(batch) \in Nat
      /\ 0 .. NumTokens(batch) - 1 \subseteq Rows
  BY <1>1, <1>2, Layout
<1>4. R \in SUBSET Rows /\ R \subseteq 0 .. NumTokens(batch) - 1
  BY <1>3
<1> HIDE DEF R, from, to, d
<1>5. Same(R) \in [R -> Rows \cup {None}] /\ \A r \in R : Same(R)[r] = r
  BY <1>4 DEF Same
<1>6. \A r \in R : /\ results[r] = Selected(r, r, IF Masks THEN cand[r] ELSE None)
                   /\ results[r] \in TopkRows(step) /\ results[r] # None
                   /\ Candidates(Same(R)[r], Same(R)[r]) = Candidates(r, r)
                   /\ Candidates(Same(R)[r], Same(R)[r]) \in CandRows(step)
  BY <1>2, <1>4, <1>5, KernelStores DEF Inv
<1>7. DOMAIN results = R /\ DOMAIN Same(R) = R
  BY DEF Results, Same
<1> HIDE DEF results
<1>8. topk' = [r \in Rows |-> IF r \in R THEN results[r] ELSE topk[r]]
  BY <1>1, <1>7 DEF Stored
<1>9. cand' = [r \in Rows |-> IF Writes /\ r \in R THEN Candidates(r, r) ELSE cand[r]]
  BY <1>1, <1>6, <1>7 DEF PublishCandidates
<1>10. TypeOK'
  <2>1. topk' \in [Rows -> {None} \cup TopkRows(step)]
    BY <1>6, <1>8 DEF Inv, TypeOK
  <2>2. \A r \in R : Candidates(r, r) \in CandRows(step)
    BY <1>6
  <2>3. cand' \in [Rows -> {None} \cup CandRows(step)]
    BY <1>9, <2>2 DEF Inv, TypeOK
  <2>4. QED
    BY <1>1, <2>1, <2>3 DEF Inv, TypeOK
<1>11. Placed'
  BY <1>1, <1>2, <1>3 DEF Inv, Placed, Short
<1>12. ASSUME Unmixed, NEW t \in d .. to - 1 PROVE Good(t, layer)'
  <2>1. t \in Rows /\ (t \in R \/ t \in d .. from - 1)
    BY <1>3
  <2>2. CASE t \notin R
    <3>1. Good(t, layer)
      BY <1>1, <1>12, <2>1, <2>2 DEF Inv, RowsGood, GoodFrom, from, d
    <3>2. topk'[t] = topk[t]
      BY <1>8, <2>1, <2>2
    <3>3. QED
      BY <1>1, <3>1, <3>2 DEF Good, OwnRow, OwnInputs, Uniform, Candidates
  <2>3. CASE t \in R
    <3>1. topk'[t] = Selected(t, t, IF Masks THEN cand[t] ELSE None) /\ topk'[t] # None
      BY <1>6, <1>8, <2>1, <2>3
    <3>2. Uniform /\ layer > CandidateSource => cand[t] = Candidates(t, t)
      <4>1. layer > CandidateSource => ~Short(CandidateSource)
        BY <1>2, ShortForAll, IndexAssumption DEF Layers
      <4>2. t \in 0 .. NumTokens(batch) - 1
        BY <1>4, <2>3
      <4>3. QED
        BY <1>1, <4>1, <4>2 DEF Inv, CandidatesGood, PublishedFrom
    <3>3. /\ topk'[t].step = step /\ topk'[t].layer = layer /\ topk'[t].token = t
          /\ topk'[t].weights = t /\ topk'[t].mask = IF Masks THEN cand[t] ELSE None
      BY <3>1 DEF Selected
    <3>4. QED
      BY <1>1, <3>1, <3>2, <3>3 DEF Good, OwnRow, OwnInputs, Uniform, Candidates, Masks
  <2>4. QED
    BY <2>2, <2>3
<1>13. RowsGood'
  BY <1>1, <1>12 DEF RowsGood, GoodFrom, Unmixed, d, to
<1>14. CandidatesGood'
  <2>1. ASSUME layer > CandidateSource, ~Short(CandidateSource), Uniform,
               NEW t \in 0 .. NumTokens(batch) - 1
        PROVE  cand'[t] = Candidates(t, t)
    <3>1. cand[t] = Candidates(t, t)
      BY <1>1, <2>1 DEF Inv, CandidatesGood, PublishedFrom
    <3>2. t \in Rows
      BY <1>3
    <3>3. QED
      BY <1>9, <3>1, <3>2
  <2>2. ASSUME layer = CandidateSource, Uniform, NEW t \in d .. to - 1
        PROVE  cand'[t] = Candidates(t, t)
    <3>1. t \in Rows /\ (t \in R \/ t \in d .. from - 1)
      BY <1>3
    <3>2. CASE t \in R
      BY <1>9, <2>2, <3>1, <3>2 DEF Writes
    <3>3. CASE t \notin R
      <4>1. cand[t] = Candidates(t, t)
        BY <1>1, <2>2, <3>1, <3>3 DEF Inv, CandidatesGood, PublishedFrom, from, d
      <4>2. QED
        BY <1>9, <3>1, <3>3, <4>1
    <3>4. QED
      BY <3>2, <3>3
  <2>3. QED
    BY <1>1, <2>1, <2>2 DEF CandidatesGood, PublishedFrom, Uniform, Candidates, Short, d, to
<1>15. QED
  BY <1>10, <1>11, <1>13, <1>14 DEF Inv

\* Past the last chunk, the decode rows are left, if there are any.
LEMMA PrefillDoneInv ==
  ASSUME Inv, PrefillDone
  PROVE  Inv'
<1>1. /\ pc = "prefill" /\ chunk > Len(batch.prefill)
      /\ pc' = IF batch.decode = <<>> THEN "attend" ELSE "decode"
      /\ UNCHANGED <<step, batch, layer, chunk, topk, cand>>
  BY DEF PrefillDone
<1>2. /\ batch \in Batches /\ layer \in IndexSources /\ ~Short(layer)
      /\ chunk \in 1 .. Len(batch.prefill) + 1
  BY <1>1 DEF Inv, Placed
<1>3. ChunkStart(batch, chunk) = NumTokens(batch)
  <2>1. chunk = Len(batch.prefill) + 1
    BY <1>1, <1>2, Layout
  <2>2. QED
    BY <1>2, <2>1, Layout
<1>4. batch.decode = <<>> => NumDecodeTokens(batch) = 0
  <2>1. batch.decode \in Seq(Nat \ {0})
    BY <1>2, BatchAssumption
  <2>2. SumTo(batch.decode, 0) = 0
    BY <2>1, Starts
  <2>3. QED
    BY <2>2 DEF NumDecodeTokens
<1>5. TypeOK'
  BY <1>1 DEF Inv, TypeOK
<1>6. Placed'
  BY <1>1 DEF Inv, Placed, Short
<1>7. GoodFrom(layer, NumDecodeTokens(batch), NumTokens(batch))
  BY <1>1, <1>3 DEF Inv, RowsGood
<1>8. RowsGood'
  <2>1. \A s \in IndexSources : Latest(s, layer) => s = layer
    BY <1>2, IndexAssumption DEF Latest, Layers
  <2>2. QED
    BY <1>1, <1>4, <1>7, <2>1 DEF RowsGood, GoodFrom, Good, OwnRow, OwnInputs, Unmixed, Uniform,
         Candidates, Latest
<1>9. CandidatesGood'
  BY <1>1, <1>3, <1>4 DEF Inv, CandidatesGood, PublishedFrom, Uniform, Candidates, Short
<1>10. QED
  BY <1>5, <1>6, <1>8, <1>9 DEF Inv

\* The decode rows join the good ones. A padded batch's own rows do not come from one
\* token's inputs, and they overwrite what follows the decode rows: nothing then.
LEMMA IndexDecodeInv ==
  ASSUME Inv, IndexDecode
  PROVE  Inv'
<1> DEFINE R == 0 .. NumPadded(batch) - 1
           token == DecodeToken(batch)
           results == Results(token, Same(R), Same(R))
           d == NumDecodeTokens(batch)
           decoded == 0 .. d - 1
           stored == [t \in decoded \cup R |->
             IF t \in decoded THEN results[CHOOSE r \in R : token[r] = t] ELSE results[t]]
           n == NumTokens(batch)
<1>1. /\ pc = "decode" /\ pc' = "attend"
      /\ Stored(stored) /\ PublishCandidates(token, Same(R))
      /\ UNCHANGED <<step, batch, layer, chunk>>
  BY DEF IndexDecode, DecodeToken
<1>2. /\ batch \in Batches /\ step # 0 /\ layer \in IndexSources /\ ~Short(layer)
      /\ batch.decode # <<>>
  BY <1>1 DEF Inv, Placed
<1>3. /\ R \in SUBSET Rows
      /\ \A r \in R : token[r] \in 0 .. d - 1 \cup {None}
      /\ \A t \in 0 .. d - 1 : \E r \in R : token[r] = t
      /\ DOMAIN token = R
  BY <1>2, Packed DEF DecodeToken
<1>4. /\ d \in Nat /\ n \in Nat /\ d <= n /\ 0 .. n - 1 \subseteq Rows
  BY <1>2, Layout
<1>5. token \in [R -> Rows \cup {None}]
  <2>1. \A r \in R : token[r] \in Rows \cup {None}
    BY <1>3, <1>4
  <2>2. token = [r \in R |-> token[r]]
    BY DEF DecodeToken
  <2> HIDE DEF token
  <2>3. QED
    BY <2>1, <2>2
<1>6. Uniform => R = 0 .. d - 1 /\ \A r \in R : token[r] = r
  BY <1>2, NoPadding DEF Uniform, DecodeToken
<1> HIDE DEF R, token, d, n
<1>7. \A r \in R : /\ results[r] = Selected(token[r], r, IF Masks THEN cand[r] ELSE None)
                   /\ results[r] \in TopkRows(step) /\ results[r] # None
                   /\ Candidates(token[r], Same(R)[r]) = Candidates(token[r], r)
                   /\ Candidates(token[r], Same(R)[r]) \in CandRows(step)
  BY <1>2, <1>3, <1>5, KernelStores DEF Inv
<1>8. DOMAIN results = R
  BY <1>3 DEF Results
<1> HIDE DEF results
<1> DEFINE place(t) == CHOOSE r \in R : token[r] = t
<1>9. \A t \in 0 .. d - 1 : place(t) \in R /\ token[place(t)] = t /\ stored[t] = results[place(t)]
  BY <1>3
<1> HIDE DEF place
<1>10. topk' = [r \in Rows |-> IF r \in 0 .. d - 1 THEN results[place(r)]
                               ELSE IF r \in R THEN results[r] ELSE topk[r]]
  <2>1. DOMAIN stored = decoded \cup R /\ \A r \in R : r \notin decoded => stored[r] = results[r]
    OBVIOUS
  <2> HIDE DEF stored
  <2>2. topk' = [r \in Rows |-> IF r \in decoded \cup R THEN stored[r] ELSE topk[r]]
    BY <1>1, <2>1 DEF Stored
  <2>3. \A r \in Rows : (IF r \in decoded \cup R THEN stored[r] ELSE topk[r]) =
          IF r \in 0 .. d - 1 THEN results[place(r)] ELSE IF r \in R THEN results[r] ELSE topk[r]
    BY <1>9, <2>1
  <2>4. QED
    BY <2>2, <2>3
<1>11. cand' = [r \in Rows |-> IF Writes /\ r \in R THEN Candidates(token[r], r) ELSE cand[r]]
  BY <1>1, <1>3, <1>7 DEF PublishCandidates
<1>12. TypeOK'
  <2>1. topk' \in [Rows -> {None} \cup TopkRows(step)]
    BY <1>7, <1>9, <1>10 DEF Inv, TypeOK
  <2>2. \A r \in R : Candidates(token[r], r) \in CandRows(step)
    BY <1>7
  <2>3. cand' \in [Rows -> {None} \cup CandRows(step)]
    BY <1>11, <2>2 DEF Inv, TypeOK
  <2>4. QED
    BY <1>1, <2>1, <2>3 DEF Inv, TypeOK
<1>13. Placed'
  BY <1>1 DEF Inv, Placed, Short
<1>14. ASSUME Unmixed, NEW t \in 0 .. n - 1 PROVE Good(t, layer)'
  <2>1. t \in Rows /\ t \in Nat
    BY <1>4
  <2>2. CASE t \in 0 .. d - 1
    <3> DEFINE r == place(t)
    <3>1. r \in R /\ token[r] = t /\ topk'[t] = results[r]
      BY <1>9, <1>10, <2>1, <2>2
    <3> HIDE DEF r
    <3>2. topk'[t] = Selected(t, r, IF Masks THEN cand[r] ELSE None) /\ topk'[t] # None
      BY <1>7, <3>1
    <3>3. /\ topk'[t].step = step /\ topk'[t].layer = layer /\ topk'[t].token = t
          /\ topk'[t].weights = r /\ topk'[t].mask = IF Masks THEN cand[r] ELSE None
      BY <3>2 DEF Selected
    <3>4. Uniform => r = t
      BY <1>6, <3>1
    <3>5. Uniform /\ layer > CandidateSource => cand[t] = Candidates(t, t)
      <4>1. layer > CandidateSource => ~Short(CandidateSource)
        BY <1>2, ShortForAll, IndexAssumption DEF Layers
      <4>2. QED
        BY <1>1, <1>14, <4>1 DEF Inv, CandidatesGood, PublishedFrom, n
    <3>6. QED
      BY <1>1, <3>2, <3>3, <3>4, <3>5 DEF Good, OwnRow, OwnInputs, Uniform, Candidates, Masks
  <2>3. CASE t \notin 0 .. d - 1
    <3>1. t \in d .. n - 1
      BY <1>4, <2>1, <2>3
    <3>2. Uniform
      <4>1. batch.prefill = <<>> => n = d
        <5>1. batch.prefill \in Seq(Nat \ {0})
          BY <1>2, BatchAssumption
        <5>2. SumTo(batch.prefill, 0) = 0
          BY <5>1, Starts
        <5>3. QED
          BY <1>4, <5>2 DEF NumTokens, n, d
      <4>2. QED
        BY <1>4, <1>14, <3>1, <4>1 DEF Unmixed, Uniform
    <3>3. topk'[t] = topk[t]
      BY <1>6, <1>10, <2>1, <2>3, <3>2
    <3>4. Good(t, layer)
      BY <1>1, <1>14, <3>1 DEF Inv, RowsGood, GoodFrom, n, d
    <3>5. QED
      BY <1>1, <3>3, <3>4 DEF Good, OwnRow, OwnInputs, Uniform, Candidates
  <2>4. QED
    BY <2>2, <2>3
<1>15. RowsGood'
  <2>1. \A s \in IndexSources : Latest(s, layer) => s = layer
    BY <1>2, IndexAssumption DEF Latest, Layers
  <2>2. QED
    BY <1>1, <1>14, <2>1 DEF RowsGood, GoodFrom, Unmixed, Latest, n
<1>16. CandidatesGood'
  <2>1. ASSUME layer > CandidateSource, ~Short(CandidateSource), Uniform, NEW t \in 0 .. n - 1
        PROVE  cand'[t] = Candidates(t, t)
    <3>1. cand[t] = Candidates(t, t)
      BY <1>1, <2>1 DEF Inv, CandidatesGood, PublishedFrom, n
    <3>2. ~Writes /\ t \in Rows
      BY <1>2, <1>4, <2>1, IndexAssumption DEF Writes, Layers
    <3>3. QED
      BY <1>11, <3>1, <3>2
  <2>2. ASSUME layer = CandidateSource, Uniform, NEW t \in 0 .. n - 1
        PROVE  cand'[t] = Candidates(t, t)
    <3>1. t \in Rows /\ (t \in R \/ t \in d .. n - 1)
      BY <1>4, <1>6, <2>2
    <3>2. CASE t \in R
      BY <1>6, <1>11, <2>2, <3>1, <3>2 DEF Writes
    <3>3. CASE t \notin R
      <4>1. cand[t] = Candidates(t, t)
        BY <1>1, <2>2, <3>1, <3>3 DEF Inv, CandidatesGood, PublishedFrom, n, d
      <4>2. QED
        BY <1>11, <3>1, <3>3, <4>1
    <3>4. QED
      BY <3>2, <3>3
  <2>3. QED
    BY <1>1, <2>1, <2>2 DEF CandidatesGood, PublishedFrom, Uniform, Candidates, Short, n
<1>17. QED
  BY <1>12, <1>13, <1>15, <1>16 DEF Inv

\* The next layer finds the rows as this one read them.
LEMMA AttendInv ==
  ASSUME Inv, Attend
  PROVE  Inv'
<1>1. /\ pc = "attend" /\ UNCHANGED <<step, batch, chunk, topk, cand>>
      /\ \/ layer < NumLayers /\ layer' = layer + 1 /\ pc' = "index"
         \/ ~(layer < NumLayers) /\ layer' = layer /\ pc' = "done"
  BY DEF Attend
<1>2. layer \in Layers /\ layer \in Nat /\ NumLayers \in Nat /\ CandidateSource \in Nat
  BY IndexAssumption DEF Inv, TypeOK, Layers
<1>3. TypeOK'
  <2>1. layer' \in Layers
    BY <1>1, <1>2 DEF Layers
  <2>2. QED
    BY <1>1, <2>1 DEF Inv, TypeOK
<1>4. Placed'
  BY <1>1 DEF Inv, Placed
<1>5. CASE pc' = "index"
  <2>1. layer' - 1 = layer
    BY <1>1, <1>2, <1>5
  <2>2. RowsGood'
    BY <1>1, <1>5, <2>1 DEF Inv, RowsGood, GoodFrom, Good, OwnRow, OwnInputs, Unmixed, Uniform,
       Candidates, Latest
  <2>3. layer' > CandidateSource => layer > CandidateSource \/ layer = CandidateSource
    BY <1>1, <1>2, <1>5
  <2>4. CandidatesGood'
    BY <1>1, <1>5, <2>3 DEF Inv, CandidatesGood, PublishedFrom, Uniform, Candidates, Short
  <2>5. QED
    BY <1>3, <1>4, <2>2, <2>4 DEF Inv
<1>6. CASE pc' = "done"
  BY <1>3, <1>4, <1>6 DEF Inv, RowsGood, CandidatesGood
<1>7. QED
  BY <1>1, <1>5, <1>6

\* Every step preserves the invariant.
LEMMA NextInv == Inv /\ [Next]_vars => Inv'
<1> SUFFICES ASSUME Inv, [Next]_vars PROVE Inv'
  OBVIOUS
<1>1. CASE UNCHANGED vars
  BY <1>1 DEF vars, Inv, TypeOK, Placed, RowsGood, CandidatesGood, GoodFrom, Good, OwnRow, OwnInputs,
     PublishedFrom, Unmixed, Uniform, Candidates, Short, Latest
<1>2. CASE Next
  BY <1>2, StartStepInv, NoIndexerInv, IndexShortInv, IndexClearInv, IndexPrefillInv,
     PrefillDoneInv, IndexDecodeInv, AttendInv DEF Next
<1>3. QED
  BY <1>1, <1>2

-----------------------------------------------------------------------------
(* The theorems.                                                            *)

\* The invariant holds of every behaviour.
THEOREM SpecInv == Spec => []Inv
BY InitInv, NextInv, PTL DEF Spec

\* The buffers hold what a kernel stored, or nothing: whatever batches are mixed.
THEOREM TypeCorrect == Spec => []TypeOK
<1>1. Inv => TypeOK
  BY DEF Inv
<1>2. QED
  BY <1>1, SpecInv, PTL

\* In every step that does not pad decodes next to prefills, the rows a layer reads were
\* computed in this step, by its own index source, from the rows' own tokens.
THEOREM SourcesAreOwn == Spec => [](Unmixed => RowsFromOwnSource)
<1>1. Inv => (Unmixed => RowsFromOwnSource)
  <2> SUFFICES ASSUME Inv, Unmixed, NEW t \in Consumed
               PROVE  OwnRow(t, IndexSource(layer))
    BY DEF RowsFromOwnSource, OwnRow
  <2>1. pc = "attend" /\ Ratio[layer] > 0 /\ t \in 0 .. NumTokens(batch) - 1 /\ layer \in Layers
    BY DEF Consumed, Inv, TypeOK
  <2>2. QED
    BY <2>1, SourceOf DEF Inv, RowsGood, GoodFrom, Good
<1>2. QED
  BY <1>1, SpecInv, PTL

\* In every step whose decodes need no padding, a row's inputs are its own token's.
LEMMA InputsAreOwn ==
  Inv => (Uniform => RowsFromOwnWeights /\ MaskedByOwnCandidates)
<1> SUFFICES ASSUME Inv, Uniform, NEW t \in Consumed
             PROVE  /\ topk[t].weights = t
                    /\ topk[t].layer > CandidateSource /\ topk[t].mask # Everything =>
                         topk[t].mask = [step |-> step, token |-> t, weights |-> t]
  BY DEF RowsFromOwnWeights, MaskedByOwnCandidates
<1>1. pc = "attend" /\ Ratio[layer] > 0 /\ t \in 0 .. NumTokens(batch) - 1 /\ layer \in Layers
  BY DEF Consumed, Inv, TypeOK
<1>2. Good(t, IndexSource(layer))
  BY <1>1, SourceOf DEF Inv, RowsGood, GoodFrom, Unmixed, Uniform
<1>3. QED
  BY <1>2 DEF Good, OwnRow, OwnInputs, Candidates

\* In every step whose decodes need no padding, a row is weighted by its own token's
\* weights.
THEOREM WeightsAreOwn == Spec => [](Uniform => RowsFromOwnWeights)
<1>1. Inv => (Uniform => RowsFromOwnWeights)
  BY InputsAreOwn
<1>2. QED
  BY <1>1, SpecInv, PTL

\* In every step whose decodes need no padding, a row is masked to the candidates its
\* own token selected in this step, with its own token's weights.
THEOREM MasksAreOwn == Spec => [](Uniform => MaskedByOwnCandidates)
<1>1. Inv => (Uniform => MaskedByOwnCandidates)
  BY InputsAreOwn
<1>2. QED
  BY <1>1, SpecInv, PTL

-----------------------------------------------------------------------------
(* The merge of more ranks' selections (DcpMerge).                           *)

IsLocalTopk(local, score) == \A r \in DcpRanks : IsTopk(local[r], Shard(r), score)

\* Sizes of a selection and of what it is taken from.
LEMMA TopkSize ==
  ASSUME NEW A \in SUBSET DcpRow, NEW S, NEW score, IsTopk(S, A, score)
  PROVE  /\ IsFiniteSet(A) /\ IsFiniteSet(S)
         /\ Cardinality(A) \in Nat /\ Cardinality(S) \in Nat
         /\ Cardinality(S) <= DcpTopk
         /\ S # A => Cardinality(S) = DcpTopk
<1>1. IsFiniteSet(A)
  BY DcpAssumption, FS_Subset
<1>2. S \subseteq A /\ IsFiniteSet(S)
  BY <1>1, FS_Subset DEF IsTopk
<1>3. Cardinality(A) \in Nat /\ Cardinality(S) \in Nat
  BY <1>1, <1>2, FS_CardinalityType
<1>4. Cardinality(S) <= DcpTopk
  BY <1>3, DcpAssumption DEF IsTopk
<1>5. S # A => Cardinality(S) < Cardinality(A)
  BY <1>1, <1>2, <1>3, FS_Subset
<1>6. S # A => Cardinality(S) = DcpTopk
  BY <1>3, <1>5 DEF IsTopk
<1> QED
  BY <1>1, <1>2, <1>3, <1>4, <1>6

\* A position that no rank selected belongs to a rank that selected DcpTopk
\* others, all at least as good.
LEMMA Unselected ==
  ASSUME NEW score \in [DcpRow -> Scores], NEW local \in [DcpRanks -> SUBSET DcpRow],
         IsLocalTopk(local, score), NEW t \in DcpRow \ Gathered(local)
  PROVE  \E L \in SUBSET Gathered(local) :
           /\ IsFiniteSet(L) /\ Cardinality(L) = DcpTopk
           /\ \A z \in L : score[z] >= score[t]
<1> DEFINE r == DcpOwner[t]
<1>1. r \in DcpRanks /\ t \in Shard(r)
  BY DcpAssumption DEF Shard
<1>2. local[r] \subseteq Gathered(local)
  BY <1>1 DEF Gathered
<1>3. t \in Shard(r) \ local[r]
  BY <1>1, <1>2
<1>4. IsTopk(local[r], Shard(r), score)
  BY <1>1 DEF IsLocalTopk
<1>5. Shard(r) \in SUBSET DcpRow
  BY DEF Shard
<1>6. IsFiniteSet(local[r]) /\ Cardinality(local[r]) = DcpTopk
  BY <1>3, <1>4, <1>5, TopkSize
<1>7. \A z \in local[r] : score[z] >= score[t]
  BY <1>3, <1>4 DEF IsTopk
<1> QED
  BY <1>2, <1>6, <1>7

\* The selector applied to the ranks' selections selects from the whole row, for
\* any number of ranks, any sharding, any scores and any way of breaking ties.
LEMMA MergeOfSelections ==
  ASSUME NEW score \in [DcpRow -> Scores], NEW local \in [DcpRanks -> SUBSET DcpRow],
         IsLocalTopk(local, score), NEW S, IsTopk(S, Gathered(local), score)
  PROVE  IsTopk(S, DcpRow, score)
<1> DEFINE G == Gathered(local)
<1>0. G \in SUBSET DcpRow /\ DcpRow \in SUBSET DcpRow
  BY DEF Gathered
<1>1. IsTopk(S, G, score)
  OBVIOUS
<1>2. /\ IsFiniteSet(S) /\ Cardinality(S) \in Nat /\ Cardinality(S) <= DcpTopk
      /\ IsFiniteSet(G) /\ Cardinality(G) \in Nat
  BY <1>0, <1>1, TopkSize
<1>3. IsFiniteSet(DcpRow) /\ Cardinality(DcpRow) \in Nat /\ Cardinality(G) <= Cardinality(DcpRow)
  BY <1>0, DcpAssumption, FS_Subset, FS_CardinalityType
<1>4. CASE G = DcpRow
  BY <1>1, <1>4
<1>5. CASE G # DcpRow
  <2>1. PICK u : u \in DcpRow \ G
    BY <1>0, <1>5
  <2>2. PICK L \in SUBSET G : IsFiniteSet(L) /\ Cardinality(L) = DcpTopk
    BY <2>1, Unselected
  <2>3. DcpTopk <= Cardinality(G)
    BY <1>2, <2>2, FS_Subset
  <2>4. Cardinality(S) = DcpTopk
    BY <1>1, <1>2, <2>3, DcpAssumption DEF IsTopk
  <2>5. Cardinality(S) = IF Cardinality(DcpRow) <= DcpTopk THEN Cardinality(DcpRow) ELSE DcpTopk
    BY <1>2, <1>3, <2>3, <2>4, DcpAssumption
  <2>6. ASSUME NEW s \in S, NEW t \in DcpRow \ S
        PROVE  score[s] >= score[t]
    <3>1. CASE t \in G
      BY <1>1, <3>1 DEF IsTopk
    <3>2. CASE t \notin G
      <4>1. PICK B \in SUBSET G : /\ IsFiniteSet(B) /\ Cardinality(B) = DcpTopk
                                  /\ \A z \in B : score[z] >= score[t]
        BY <3>2, Unselected
      <4>2. CASE B \subseteq S
        <5>1. B \in SUBSET S /\ Cardinality(S) = Cardinality(B)
          BY <2>4, <4>1, <4>2
        <5>2. S = B
          BY <1>2, <5>1, FS_Subset
        <5> QED
          BY <4>1, <5>2
      <4>3. CASE ~(B \subseteq S)
        <5>1. PICK z \in B : z \notin S
          BY <4>3
        <5>2. score[s] >= score[z]
          BY <1>1, <5>1 DEF IsTopk
        <5>3. score[z] >= score[t]
          BY <4>1, <5>1
        <5>4. s \in DcpRow /\ z \in DcpRow /\ t \in DcpRow
          BY <1>0, <1>1, <5>1 DEF IsTopk
        <5>5. score[s] \in Int /\ score[z] \in Int /\ score[t] \in Int
          BY <5>4, DcpAssumption
        <5> QED
          BY <5>2, <5>3, <5>5
      <4> QED
        BY <4>2, <4>3
    <3> QED
      BY <3>1, <3>2
  <2> QED
    BY <1>0, <1>1, <2>5, <2>6 DEF IsTopk
<1> QED
  BY <1>4, <1>5

\* What a rank holds at each point: its shard's selection until it has packed it,
\* the packed selection while any rank merges, the merge of all when it is done.
DcpInv ==
  /\ logits \in [DcpRow -> Scores]
  /\ at \in [DcpRanks -> {"idle", "scored", "selected", "gather", "merged"}]
  /\ topk_indices \in [DcpRanks -> SUBSET DcpRow]
  /\ packed \in [DcpRanks -> SUBSET DcpRow]
  /\ \A r \in DcpRanks : at[r] = "selected" => IsTopk(topk_indices[r], Shard(r), logits)
  /\ Cardinality(DcpRanks) <= 1 =>
       \A r \in DcpRanks : /\ at[r] # "gather"
                           /\ at[r] = "merged" => IsTopk(topk_indices[r], Shard(r), logits)
  /\ ~(Cardinality(DcpRanks) <= 1) =>
       \A r \in DcpRanks :
         /\ at[r] \in {"gather", "merged"} => IsTopk(packed[r], Shard(r), logits)
         /\ at[r] = "merged" => /\ topk_indices[r] = StableTopk[logits][Gathered(packed)]
                                /\ \A q \in DcpRanks : at[q] \in {"gather", "merged"}

LEMMA DcpInitInv == DcpInit => DcpInv
<1> SUFFICES ASSUME DcpInit PROVE DcpInv
  OBVIOUS
<1>1. (CHOOSE s \in Scores : TRUE) \in Scores
  BY DcpAssumption
<1> QED
  BY <1>1 DEF DcpInit, DcpInv

LEMMA DcpStepInv == DcpInv /\ [DcpNext]_dcpvars => DcpInv'
<1> SUFFICES ASSUME DcpInv, [DcpNext]_dcpvars PROVE DcpInv'
  OBVIOUS
<1>1. CASE Score
  BY <1>1 DEF DcpInv, Score
<1>2. ASSUME NEW r \in DcpRanks, SelectLocal(r) PROVE DcpInv'
  <2>1. PICK S \in SUBSET Shard(r) :
          IsTopk(S, Shard(r), logits) /\ topk_indices' = [topk_indices EXCEPT ![r] = S]
    BY <1>2 DEF SelectLocal
  <2>2. S \in SUBSET DcpRow
    BY <2>1 DEF Shard
  <2>3. /\ at[r] = "scored" /\ at' = [at EXCEPT ![r] = "selected"]
        /\ logits' = logits /\ packed' = packed
    BY <1>2 DEF SelectLocal
  <2>4. \A q \in DcpRanks : at[q] # "merged" \/ Cardinality(DcpRanks) <= 1
    BY <2>3 DEF DcpInv
  <2> QED
    BY <2>1, <2>2, <2>3, <2>4 DEF DcpInv, Shard, Gathered
<1>3. ASSUME NEW r \in DcpRanks, Pack(r) PROVE DcpInv'
  <2>1. CASE Cardinality(DcpRanks) <= 1
    BY <1>3, <2>1 DEF DcpInv, Pack, Shard, Gathered
  <2>2. CASE ~(Cardinality(DcpRanks) <= 1)
    <3>1. /\ at[r] = "selected" /\ at' = [at EXCEPT ![r] = "gather"]
          /\ packed' = [packed EXCEPT ![r] = topk_indices[r]]
          /\ logits' = logits /\ topk_indices' = topk_indices
      BY <1>3, <2>2 DEF Pack
    <3>2. \A q \in DcpRanks : at[q] # "merged"
      BY <2>2, <3>1 DEF DcpInv
    <3> QED
      BY <2>2, <3>1, <3>2 DEF DcpInv, Shard
  <2> QED
    BY <2>1, <2>2
<1>4. ASSUME NEW r \in DcpRanks, Merge(r) PROVE DcpInv'
  <2> DEFINE M == StableTopk[logits][Gathered(packed)]
  <2>1. /\ at[r] = "gather" /\ at' = [at EXCEPT ![r] = "merged"]
        /\ \A q \in DcpRanks : at[q] \in {"gather", "merged"}
        /\ topk_indices' = [topk_indices EXCEPT ![r] = M]
        /\ logits' = logits /\ packed' = packed
    BY <1>4 DEF Merge
  <2>2. Gathered(packed) \in SUBSET DcpRow
    BY DEF Gathered, DcpInv
  <2>3. M \in SUBSET DcpRow
    BY <2>2, DcpAssumption DEF IsTopk, DcpInv
  <2>4. ~(Cardinality(DcpRanks) <= 1)
    BY <2>1 DEF DcpInv
  <2>5. Gathered(packed)' = Gathered(packed)
    BY <2>1 DEF Gathered
  <2> HIDE DEF M
  <2>6. M = StableTopk[logits][Gathered(packed)]
    BY DEF M
  <2> QED
    BY <2>1, <2>3, <2>4, <2>5, <2>6 DEF DcpInv, Shard
<1>5. CASE UNCHANGED dcpvars
  BY <1>5 DEF DcpInv, dcpvars, Shard, Gathered
<1> QED
  BY <1>1, <1>2, <1>3, <1>4, <1>5 DEF DcpNext

\* When all ranks are done they hold the same positions, and each localizes its own.
LEMMA DcpInvExact == DcpInv => MergeExact
<1> SUFFICES ASSUME DcpInv, \A r \in DcpRanks : at[r] = "merged"
             PROVE  IsTopk(Attended, DcpRow, logits)
  BY DEF MergeExact
<1>1. CASE Cardinality(DcpRanks) <= 1
  <2>1. PICK r : DcpRanks = {r}
    <3>1. Cardinality(DcpRanks) \in Nat /\ Cardinality(DcpRanks) # 0
      BY DcpAssumption, FS_CardinalityType, FS_EmptySet
    <3>2. Cardinality(DcpRanks) = 1
      BY <1>1, <3>1
    <3> QED
      BY <3>2, DcpAssumption, FS_Singleton
  <2>2. Shard(r) = DcpRow
    BY <2>1, DcpAssumption DEF Shard
  <2>3. IsTopk(topk_indices[r], DcpRow, logits)
    BY <1>1, <2>1, <2>2 DEF DcpInv
  <2>4. Attended = topk_indices[r]
    BY <2>1, <2>2, <2>3 DEF Attended, IsTopk
  <2> QED
    BY <2>3, <2>4
<1>2. CASE ~(Cardinality(DcpRanks) <= 1)
  <2> DEFINE M == StableTopk[logits][Gathered(packed)]
  <2>1. logits \in [DcpRow -> Scores] /\ packed \in [DcpRanks -> SUBSET DcpRow]
    BY DEF DcpInv
  <2>2. IsLocalTopk(packed, logits)
    BY <1>2 DEF IsLocalTopk, DcpInv
  <2>3. Gathered(packed) \in SUBSET DcpRow
    BY <2>1 DEF Gathered
  <2>4. IsTopk(M, Gathered(packed), logits)
    BY <2>1, <2>3, DcpAssumption
  <2>5. IsTopk(M, DcpRow, logits)
    BY <2>1, <2>2, <2>4, MergeOfSelections
  <2>6. \A r \in DcpRanks : topk_indices[r] = M
    BY <1>2 DEF DcpInv
  <2>7. M \subseteq DcpRow
    BY <2>5 DEF IsTopk
  <2> HIDE DEF M
  <2>8. Attended = M
    <3>1. Attended \subseteq M
      BY <2>6 DEF Attended
    <3>2. ASSUME NEW t \in M PROVE t \in Attended
      <4>1. DcpOwner[t] \in DcpRanks /\ t \in Shard(DcpOwner[t])
        BY <2>7, <3>2, DcpAssumption DEF Shard
      <4> QED
        BY <2>6, <3>2, <4>1 DEF Attended
    <3> QED
      BY <3>1, <3>2
  <2> QED
    BY <2>5, <2>8
<1> QED
  BY <1>1, <1>2

\* The positions the ranks attend to are a selection of the whole row, for any
\* number of ranks, any sharding, any scores and any way of breaking ties.
THEOREM MergeIsExact == DcpSpec => []MergeExact
<1>1. DcpInit => DcpInv
  BY DcpInitInv
<1>2. DcpInv /\ [DcpNext]_dcpvars => DcpInv'
  BY DcpStepInv
<1>3. DcpInv => MergeExact
  BY DcpInvExact
<1> QED
  BY <1>1, <1>2, <1>3, PTL DEF DcpSpec

=============================================================================
