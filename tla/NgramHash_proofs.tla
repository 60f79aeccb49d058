-------------------------- MODULE NgramHash_proofs --------------------------
(***************************************************************************)
(* Proofs about NgramHash: on the V2 runner, and on the V1 runner where no  *)
(* KV is loaded from elsewhere, every position is hashed from its own text. *)
(* (With a connector the V1 runner does hash what a slot held before: run   *)
(* ngram_loads.)                                                            *)
(*                                                                         *)
(* The V2 runner looks back in the token history, and the proof is about    *)
(* the layout of a step: a token, its row and its offset. The V1 runner     *)
(* looks back in the slot cache once the prompt ends, and the proof is      *)
(* about who writes which slot: blocks are shared through the prefix cache, *)
(* which promises their contents when they are scheduled, before they are   *)
(* written. The invariant therefore speaks of what a slot will hold when    *)
(* the writes of the batch are done.                                        *)
(***************************************************************************)
EXTENDS NgramHash, SumLemmas

\* The deployments in which the slot cache is read and all its contents are the runner's.
SlotsOnly == ~V2 /\ ~Connector

-----------------------------------------------------------------------------
(* The rows of the batch.                                                   *)

\* The offsets of a row's tokens, and the slot each is written to.
Offsets(row) == 0 .. Len(batch[row].ids) - 1
WritesTo(row, o) == Slot(batch[row].req, batch[row].start + o)

Row == [req : Requests, start : Nat, ids : Seq(Tokens)]

\* A row continues its request where it is, with its text as far as that goes, into
\* blocks the request has.
RowOK(row) ==
  LET r == batch[row].req
      start == batch[row].start
      ids == batch[row].ids
  IN  /\ start = computed[r]
      /\ ids # <<>>
      /\ start < Len(tokens[r])
      /\ start + Len(ids) <= Len(blocks[r]) * BlockSize
      /\ \A o \in 1 .. Len(ids) : start + o <= Len(tokens[r]) => ids[o] = tokens[r][start + o]

BatchOK ==
  /\ runner \in Runners
  /\ batch \in Seq(Row)
  /\ \A row, other \in DOMAIN batch : batch[row].req = batch[other].req => row = other
  /\ \A row \in DOMAIN batch : RowOK(row)
  /\ pc = "sample" => batch # <<>>

\* A request has a block once.
BlocksDiffer ==
  \A r \in Requests : \A i, j \in DOMAIN blocks[r] : blocks[r][i] = blocks[r][j] => i = j

\* Blocks are of the pool that serves, there are none before it is bound, and what is
\* computed lies in them.
RequestsOK ==
  /\ tokens \in [Requests -> Seq(Tokens)]
  /\ computed \in [Requests -> Nat]
  /\ blocks \in [Requests -> Seq(0 .. NumBlocks - 1)]
  /\ \A r \in Requests : \A i \in DOMAIN blocks[r] : blocks[r][i] \in AllBlocks
  /\ \A r \in Requests : blocks[r] # <<>> =>
       bound = Len(Pools) /\ computed[r] <= Len(blocks[r]) * BlockSize
  /\ \A r \in Requests :
       /\ computed[r] <= Len(tokens[r]) /\ Len(Prompt[r]) <= Len(tokens[r])
       /\ blocks[r] = <<>> /\ Len(tokens[r]) < MaxLen => computed[r] = 0
  /\ BlocksDiffer

PoolOK ==
  /\ bound \in 0 .. Len(Pools)
  /\ RequestsOK
  /\ prefix \in [AllBlocks -> Seq(Tokens) \cup {None}]
  /\ \A b \in AllBlocks : prefix[b] # None => b \in 0 .. NumBlocks - 1 /\ bound = Len(Pools)
  /\ V2 => cache = None
  /\ cache = None => cache_ref = 0

-----------------------------------------------------------------------------
(* The slots.                                                               *)

\* What the slot s holds, once the writes of the batch are done.
Holds(s, id) ==
  IF pc = "sample" THEN cache[s] = id
  ELSE \/ \E row \in DOMAIN batch : \E o \in Offsets(row) :
            WritesTo(row, o) = s /\ id = TokenMap[batch[row].ids[o + 1]]
       \/ /\ \A row \in DOMAIN batch : \A o \in Offsets(row) : WritesTo(row, o) # s
          /\ EnsureCache[1][s] = id

\* A cached block of a request is cached for the request's text, which is computed or in
\* the batch up to the block's end.
CachedIsTextOf(r) ==
  \A i \in DOMAIN blocks[r] :
    LET text == prefix[blocks[r][i]] IN text # None =>
      /\ Len(text) = i * BlockSize /\ i * BlockSize <= Len(tokens[r])
      /\ \A k \in 1 .. i * BlockSize : text[k] = tokens[r][k]
      /\ ~Scheduled(r) => i * BlockSize <= computed[r]
      /\ \A row \in DOMAIN batch : batch[row].req = r =>
           i * BlockSize <= batch[row].start + Len(batch[row].ids)
CachedIsText == \A r \in Requests : CachedIsTextOf(r)

\* Requests share cached blocks only.
SharedIsCached ==
  \A r, q \in Requests : r # q =>
    \A i \in DOMAIN blocks[r] : \A j \in DOMAIN blocks[q] :
      blocks[r][i] = blocks[q][j] => prefix[blocks[r][i]] # None

\* No two tokens of a batch are written to one slot.
WritesDiffer ==
  pc = "schedule" =>
    \A row, other \in DOMAIN batch : row # other =>
      \A o \in Offsets(row) : \A u \in Offsets(other) : WritesTo(row, o) # WritesTo(other, u)

\* The slots of what is computed, of what is cached and of what is in the batch.
ComputedHeldOf(r) ==
  blocks[r] # <<>> => \A p \in 0 .. computed[r] - 1 :
    Holds(Slot(r, p), TokenMap[tokens[r][p + 1]])
ComputedHeld == \A r \in Requests : ComputedHeldOf(r)
CachedHeld ==
  \A b \in AllBlocks : prefix[b] # None => \E m \in 1 .. Len(prefix[b]) :
    /\ Len(prefix[b]) = m * BlockSize
    /\ \A o \in 0 .. BlockSize - 1 :
         Holds(b * BlockSize + o, TokenMap[prefix[b][(m - 1) * BlockSize + o + 1]])
BatchHeld ==
  \A row \in DOMAIN batch : \A o \in Offsets(row) :
    Holds(WritesTo(row, o), TokenMap[batch[row].ids[o + 1]])

SlotsOK ==
  SlotsOnly => /\ CachedIsText /\ SharedIsCached /\ WritesDiffer
               /\ ComputedHeld /\ CachedHeld /\ BatchHeld

Exact == V2 \/ ~Connector => HashesExact

Inv == TypeOK /\ BatchOK /\ PoolOK /\ SlotsOK /\ Exact

-----------------------------------------------------------------------------
(* The layout of a step: the rows' tokens one after the other.              *)

\* The number of each row's tokens.
Lens == [row \in DOMAIN batch |-> Len(batch[row].ids)]

\* Where a row starts is the sum of the numbers of tokens before it.
LEMMA StartIsSum ==
  ASSUME batch \in Seq(Row), NEW row \in 1 .. Len(batch) + 1
  PROVE  QueryStartLoc(row) = SumOf(1 .. row - 1, Lens)
<1> DEFINE S == 1 .. row - 1
           Own(f) == f = [s \in SUBSET S |-> IF s = {} THEN 0
                            ELSE Len(batch[Taken(s)].ids) + f[s \ {Taken(s)}]]
<1>1. /\ IsFiniteSet(S) /\ S \subseteq DOMAIN batch
      /\ \A i \in S : Lens[i] = Len(batch[i].ids) /\ Lens[i] \in Int
  <2>1. S \subseteq DOMAIN batch /\ \A i \in DOMAIN batch : Len(batch[i].ids) \in Nat
    BY DEF Row
  <2>2. IsFiniteSet(S)
    <3>1. 1 \in Int /\ row - 1 \in Int
      OBVIOUS
    <3>2. QED
      BY <3>1, FS_Interval
  <2>3. QED
    BY <2>1, <2>2 DEF Lens
<1>2. QueryStartLoc(row) = (CHOOSE f : Own(f))[S]
  BY DEF QueryStartLoc, MapThenSumSet, MapThenFoldSet, Taken
<1>3. \A s \in SUBSET S : s # {} => Taken(s) \in S
  BY DEF Taken
<1> HIDE DEF S
<1>4. \A f : SumsOf(S, Lens, f) <=> Own(f)
  <2> TAKE f
  <2>1. \A s \in SUBSET S :
          (IF s = {} THEN 0 ELSE Lens[Taken(s)] + f[s \ {Taken(s)}])
          = IF s = {} THEN 0 ELSE Len(batch[Taken(s)].ids) + f[s \ {Taken(s)}]
    BY <1>1, <1>3
  <2>2. QED
    BY <2>1 DEF SumsOf
<1> HIDE DEF Own
<1>5. PICK g : SumsOf(S, Lens, g)
  BY <1>1, SumsExist
<1> DEFINE f == CHOOSE h : Own(h)
           h == CHOOSE k : SumsOf(S, Lens, k)
<1>6. SumsOf(S, Lens, f) /\ SumsOf(S, Lens, h)
  BY <1>4, <1>5
<1> HIDE DEF f, h
<1>7. S \in SUBSET (S \cap S)
  OBVIOUS
<1>8. f[S] = h[S]
  BY <1>1, <1>6, <1>7, SumsAgree
<1>9. QED
  BY <1>2, <1>8 DEF f, h, SumOf, S

\* The first row starts at 0, each next where the one before it ends.
LEMMA RowStarts ==
  ASSUME batch \in Seq(Row)
  PROVE  /\ Len(batch) \in Nat /\ DOMAIN batch = 1 .. Len(batch)
         /\ QueryStartLoc(1) = 0
         /\ \A row \in 1 .. Len(batch) + 1 : QueryStartLoc(row) \in Nat
         /\ \A row \in DOMAIN batch :
              /\ Len(batch[row].ids) \in Nat
              /\ QueryStartLoc(row + 1) = QueryStartLoc(row) + Len(batch[row].ids)
<1> DEFINE n == Len(batch)
<1>1. n \in Nat /\ DOMAIN batch = 1 .. n
  OBVIOUS
<1>2. \A row \in 1 .. n : Lens[row] = Len(batch[row].ids) /\ Len(batch[row].ids) \in Nat
  BY <1>1 DEF Lens, Row
<1>3. /\ SumOf(1 .. 0, Lens) = 0
      /\ \A k \in 0 .. n : SumOf(1 .. k, Lens) \in Int
      /\ \A k \in 1 .. n : SumOf(1 .. k, Lens) = SumOf(1 .. k - 1, Lens) + Lens[k]
  <2>1. \A i \in 1 .. n : Lens[i] \in Int
    BY <1>2
  <2> HIDE DEF n
  <2>2. QED
    BY <1>1, <2>1, SumOfBeginnings
<1>4. \A row \in 1 .. n + 1 : QueryStartLoc(row) = SumOf(1 .. row - 1, Lens)
  BY StartIsSum
<1> HIDE DEF n
<1>5. QueryStartLoc(1) = 0
  BY <1>1, <1>3, <1>4
<1>6. ASSUME NEW row \in 1 .. n
      PROVE  QueryStartLoc(row + 1) = QueryStartLoc(row) + Len(batch[row].ids)
  <2>1. row + 1 \in 1 .. n + 1 /\ (row + 1) - 1 = row /\ row \in 1 .. n + 1
    BY <1>1
  <2>2. QueryStartLoc(row + 1) = SumOf(1 .. row, Lens)
    BY <1>4, <2>1
  <2>3. QueryStartLoc(row) = SumOf(1 .. row - 1, Lens)
    BY <1>4, <2>1
  <2>4. QED
    BY <1>2, <1>3, <2>2, <2>3
<1>7. \A row \in 1 .. n + 1 : QueryStartLoc(row) \in Nat
  <2> DEFINE T == {k \in Nat : k <= n => QueryStartLoc(k + 1) \in Nat}
  <2>1. 0 \in T
    BY <1>5
  <2>2. ASSUME NEW k \in Nat, k \in T PROVE k + 1 \in T
    <3>1. ASSUME k + 1 <= n PROVE QueryStartLoc((k + 1) + 1) \in Nat
      <4>1. k + 1 \in 1 .. n /\ k <= n
        BY <1>1, <3>1
      <4>2. QueryStartLoc(k + 1) \in Nat
        BY <2>2, <4>1
      <4>3. QED
        BY <1>2, <1>6, <4>1, <4>2
    <3>2. QED
      BY <3>1
  <2> HIDE DEF T
  <2>3. \A k \in Nat : k \in T
    BY <2>1, <2>2, Induction
  <2>4. ASSUME NEW row \in 1 .. n + 1 PROVE QueryStartLoc(row) \in Nat
    <3>1. row - 1 \in Nat /\ row - 1 <= n /\ (row - 1) + 1 = row
      BY <1>1
    <3>2. QED
      BY <2>3, <3>1 DEF T
  <2>5. QED
    BY <2>4
<1>8. QED
  BY <1>1, <1>2, <1>5, <1>6, <1>7 DEF n

\* Later rows start where earlier ones end, or after.
LEMMA RowsInOrder ==
  ASSUME batch \in Seq(Row), NEW row \in 1 .. Len(batch) + 1, NEW next \in row .. Len(batch) + 1
  PROVE  QueryStartLoc(row) <= QueryStartLoc(next)
<1> DEFINE n == Len(batch)
           loc == [i \in 0 .. n |-> QueryStartLoc(i + 1)]
<1>1. n \in Nat
  OBVIOUS
<1>2. \A i \in 0 .. n : loc[i] = QueryStartLoc(i + 1) /\ loc[i] \in Nat
  <2> TAKE i \in 0 .. n
  <2>1. i + 1 \in 1 .. n + 1
    BY <1>1
  <2>2. QueryStartLoc(i + 1) \in Nat
    BY <2>1, RowStarts
  <2>3. QED
    BY <2>2
<1>3. \A i \in 1 .. n : loc[i - 1] <= loc[i]
  <2> TAKE i \in 1 .. n
  <2>1. i - 1 \in 0 .. n /\ i \in 0 .. n /\ (i - 1) + 1 = i /\ i \in DOMAIN batch /\ i \in 1 .. n + 1
    BY <1>1
  <2>2. QueryStartLoc(i + 1) = QueryStartLoc(i) + Len(batch[i].ids) /\ Len(batch[i].ids) \in Nat
    BY <2>1, RowStarts
  <2>3. QueryStartLoc(i) \in Nat
    BY <2>1, RowStarts
  <2> HIDE DEF loc
  <2>4. loc[i - 1] = QueryStartLoc(i) /\ loc[i] = QueryStartLoc(i + 1)
    BY <1>2, <2>1
  <2>5. QED
    BY <2>2, <2>3, <2>4
<1> HIDE DEF loc, n
<1>4. row - 1 \in 0 .. n /\ next - 1 \in row - 1 .. n /\ (row - 1) + 1 = row /\ (next - 1) + 1 = next
  BY <1>1 DEF n
<1>5. loc[row - 1] <= loc[next - 1]
  BY <1>1, <1>2, <1>3, <1>4, BeginningsGrow
<1>6. loc[row - 1] = QueryStartLoc(row) /\ loc[next - 1] = QueryStartLoc(next)
  BY <1>1, <1>2, <1>4
<1>7. QED
  BY <1>5, <1>6

\* A row and an offset have their token, and the kernels find the row and the offset
\* from it: the inputs they read are the row's.
LEMMA TokenOf ==
  ASSUME batch \in Seq(Row), NEW row \in DOMAIN batch, NEW o \in Offsets(row)
  PROVE  LET t == QueryStartLoc(row) + o IN
         /\ t \in BatchTokens
         /\ OwnRow(t) = row /\ RowOf(t) = row
         /\ Offset(t) = o
         /\ InputId(t) = batch[row].ids[o + 1]
         /\ Position(t) = batch[row].start + o
<1> DEFINE n == Len(batch)
           t == QueryStartLoc(row) + o
           loc(k) == QueryStartLoc(k)
<1>1. /\ n \in Nat /\ DOMAIN batch = 1 .. n /\ row \in 1 .. n
      /\ \A k \in 1 .. n + 1 : loc(k) \in Nat
      /\ loc(1) = 0
      /\ Len(batch[row].ids) \in Nat /\ loc(row + 1) = loc(row) + Len(batch[row].ids)
  BY RowStarts
<1>2. \A k \in 1 .. n + 1 : \A l \in k .. n + 1 : loc(k) <= loc(l)
  BY RowsInOrder
<1> HIDE DEF loc, n
<1>3. o \in Nat /\ o < Len(batch[row].ids)
  BY <1>1 DEF Offsets
<1>4. /\ row \in 1 .. n + 1 /\ row + 1 \in 1 .. n + 1 /\ n + 1 \in row + 1 .. n + 1
      /\ row + 1 \in Nat
  BY <1>1
<1>5. t = loc(row) + o /\ t \in Nat /\ loc(row) <= t /\ t < loc(row + 1)
  BY <1>1, <1>3, <1>4 DEF loc
<1> HIDE DEF t
<1>6. t \in BatchTokens
  <2>1. loc(row + 1) <= loc(n + 1) /\ loc(n + 1) \in Nat /\ loc(row + 1) \in Nat
    BY <1>1, <1>2, <1>4
  <2>2. NumTokens = loc(n + 1)
    BY DEF NumTokens, loc, n
  <2>3. QED
    BY <1>5, <2>1, <2>2 DEF BatchTokens
<1>7. ASSUME NEW k \in 1 .. n, k # row, loc(k) <= t, t < loc(k + 1) PROVE FALSE
  <2>1. k + 1 \in 1 .. n + 1 /\ k \in 1 .. n + 1
    BY <1>1
  <2>2. CASE k < row
    <3>1. row \in k + 1 .. n + 1
      BY <1>1, <2>2
    <3>2. loc(k + 1) <= loc(row)
      BY <1>2, <2>1, <3>1
    <3>3. QED
      BY <1>1, <1>4, <1>5, <1>7, <2>1, <3>2
  <2>3. CASE row < k
    <3>1. k \in row + 1 .. n + 1
      BY <1>1, <2>3
    <3>2. loc(row + 1) <= loc(k)
      BY <1>2, <1>4, <3>1
    <3>3. QED
      BY <1>1, <1>4, <1>5, <1>7, <2>1, <3>2
  <2>4. QED
    BY <1>1, <1>7, <2>2, <2>3
<1>8. OwnRow(t) = row
  <2> DEFINE own(k) == loc(k) <= t /\ t < loc(k + 1)
  <2>1. row \in DOMAIN batch /\ own(row) /\ \A k \in DOMAIN batch : own(k) => k = row
    BY <1>1, <1>5, <1>7
  <2> HIDE DEF own
  <2>2. (CHOOSE k \in DOMAIN batch : own(k)) = row
    BY <2>1
  <2>3. QED
    BY <2>2 DEF own, OwnRow, loc
<1>9. RowOf(t) = row
  <2> DEFINE Q == {k \in DOMAIN batch : t < loc(k + 1)}
  <2>1. row \in Q
    BY <1>1, <1>5
  <2>2. ASSUME NEW k \in Q PROVE row <= k
    <3> SUFFICES ASSUME k < row PROVE FALSE
      BY <1>1
    <3>1. k \in 1 .. n /\ k + 1 \in 1 .. n + 1 /\ row \in k + 1 .. n + 1 /\ k # row
      BY <1>1
    <3>2. loc(k + 1) <= loc(row)
      BY <1>2, <3>1
    <3>3. t < loc(k + 1) /\ loc(k + 1) \in Nat /\ loc(row) \in Nat
      BY <1>1, <1>4, <3>1
    <3>4. QED
      BY <1>5, <3>2, <3>3
  <2>3. \A k \in Q : k \in Nat
    BY <1>1
  <2> HIDE DEF Q
  <2>4. \A x \in Q : (\A y \in Q : x <= y) => x = row
    BY <1>1, <2>1, <2>2, <2>3
  <2>5. Min(Q) = row
    BY <2>1, <2>2, <2>4 DEF Min
  <2>6. QED
    BY <2>5 DEF RowOf, Q, loc
<1>10. Offset(t) = o
  BY <1>1, <1>3, <1>4, <1>5, <1>8 DEF Offset, loc
<1>11. InputId(t) = batch[row].ids[o + 1] /\ Position(t) = batch[row].start + o
  BY <1>8, <1>10 DEF InputId, Position
<1>12. QED
  BY <1>6, <1>8, <1>9, <1>10, <1>11 DEF t

\* Every token of the step is a row's, at an offset.
LEMMA RowsOfTokens ==
  ASSUME batch \in Seq(Row), NEW t \in BatchTokens
  PROVE  \E row \in DOMAIN batch : \E o \in Offsets(row) : t = QueryStartLoc(row) + o
<1> DEFINE n == Len(batch)
           loc == [i \in 0 .. n |-> QueryStartLoc(i + 1)]
<1>1. /\ n \in Nat /\ DOMAIN batch = 1 .. n /\ QueryStartLoc(1) = 0
      /\ \A k \in 1 .. n + 1 : QueryStartLoc(k) \in Nat
  BY RowStarts
<1>2. \A i \in 0 .. n : loc[i] = QueryStartLoc(i + 1) /\ loc[i] \in Nat
  <2> TAKE i \in 0 .. n
  <2>1. i + 1 \in 1 .. n + 1
    BY <1>1
  <2>2. QED
    BY <1>1, <2>1
<1>3. loc[0] = 0 /\ loc[n] = NumTokens
  BY <1>1, <1>2 DEF NumTokens
<1>4. NumTokens \in Nat /\ t \in Nat /\ t < NumTokens
  BY <1>1, <1>2, <1>3 DEF BatchTokens
<1> HIDE DEF loc, n
<1>5. PICK i \in 1 .. n : loc[i - 1] <= t /\ t < loc[i]
  BY <1>1, <1>2, <1>3, <1>4, SpansTile
<1>6. i \in DOMAIN batch /\ i - 1 \in 0 .. n /\ i \in 0 .. n /\ (i - 1) + 1 = i
  BY <1>1
<1>7. /\ QueryStartLoc(i) <= t /\ t < QueryStartLoc(i + 1)
      /\ QueryStartLoc(i) \in Nat
  BY <1>2, <1>5, <1>6
<1>8. QueryStartLoc(i + 1) = QueryStartLoc(i) + Len(batch[i].ids) /\ Len(batch[i].ids) \in Nat
  BY <1>6, RowStarts
<1>9. t - QueryStartLoc(i) \in Offsets(i) /\ t = QueryStartLoc(i) + (t - QueryStartLoc(i))
  BY SMTT(30), <1>4, <1>7, <1>8 DEF Offsets
<1>10. QED
  BY <1>6, <1>9

-----------------------------------------------------------------------------
(* Slots.                                                                   *)

\* A position in one of the request's blocks: the block and the place in it.
LEMMA SlotAt ==
  ASSUME PoolOK, NEW r \in Requests, NEW p \in Nat, p < Len(blocks[r]) * BlockSize
  PROVE  /\ p \div BlockSize \in Nat
         /\ p \div BlockSize + 1 \in DOMAIN blocks[r]
         /\ p % BlockSize \in 0 .. BlockSize - 1
         /\ p = (p \div BlockSize) * BlockSize + (p % BlockSize)
         /\ p < (p \div BlockSize + 1) * BlockSize
         /\ blocks[r][p \div BlockSize + 1] \in AllBlocks
         /\ blocks[r][p \div BlockSize + 1] \in Nat
         /\ Slot(r, p) = blocks[r][p \div BlockSize + 1] * BlockSize + (p % BlockSize)
         /\ Slot(r, p) \in SlotsOf(NumBlocks)
<1> DEFINE q == p \div BlockSize
           o == p % BlockSize
           b == blocks[r][q + 1]
<1>1. /\ BlockSize \in Nat \ {0} /\ blocks[r] \in Seq(0 .. NumBlocks - 1)
      /\ Len(blocks[r]) \in Nat /\ DOMAIN blocks[r] = 1 .. Len(blocks[r])
      /\ \A i \in DOMAIN blocks[r] : blocks[r][i] \in AllBlocks
  BY SMTT(30), NgramAssumption DEF PoolOK, RequestsOK
<1>2. q \in Nat /\ o \in 0 .. BlockSize - 1 /\ p = q * BlockSize + o
  BY <1>1, DivModOf
<1>3. q < Len(blocks[r])
  <2>1. \A m \in Nat : p < m * BlockSize => p \div BlockSize < m
    BY <1>1, DivModOf
  <2>2. QED
    BY <1>1, <2>1
<1>4. Slot(r, p) = b * BlockSize + o
  BY DEF Slot
<1> HIDE DEF q, o
<1>5. q + 1 \in DOMAIN blocks[r]
  BY <1>1, <1>2, <1>3
<1>7. NumBlocks \in Nat
  BY NgramAssumption DEF NumBlocks, PoolOK
<1>6. b \in AllBlocks /\ b \in 0 .. NumBlocks - 1
  <2> DEFINE k == q + 1
             W == 0 .. NumBlocks - 1
  <2>1. k \in DOMAIN blocks[r] /\ blocks[r] \in Seq(W)
    BY <1>1, <1>5
  <2> HIDE DEF k, W
  <2>2. blocks[r][k] \in AllBlocks
    BY <1>1, <2>1
  <2>3. blocks[r][k] \in W
    BY <2>1
  <2>4. QED
    BY <2>2, <2>3 DEF k, W
<1> HIDE DEF b
<1>8. b \in Nat /\ b * BlockSize \in Nat /\ (b + 1) * BlockSize = b * BlockSize + BlockSize
  BY <1>1, <1>6, <1>7
<1>9. b * BlockSize + o \in SlotsOf(NumBlocks)
  <2>1. b + 1 <= NumBlocks /\ NumBlocks \in Nat
    BY <1>6, <1>7, <1>8
  <2>2. (b + 1) * BlockSize <= NumBlocks * BlockSize /\ NumBlocks * BlockSize \in Nat
    BY <1>1, <1>8, <2>1
  <2>3. QED
    BY <1>1, <1>2, <1>8, <2>2 DEF SlotsOf
<1>10. (q + 1) * BlockSize = q * BlockSize + BlockSize
  BY <1>1, <1>2
<1>11. p < (q + 1) * BlockSize
  <2>1. q * BlockSize \in Nat
    BY <1>1, <1>2
  <2>2. QED
    BY <1>1, <1>2, <1>10, <2>1
<1>12. QED
  BY <1>2, <1>4, <1>5, <1>6, <1>8, <1>9, <1>11 DEF q, o, b

\* Two places are one slot only if the blocks and the places in them are the same.
LEMMA OnePlace ==
  ASSUME NEW b \in Nat, NEW c \in Nat,
         NEW o \in 0 .. BlockSize - 1, NEW u \in 0 .. BlockSize - 1,
         b * BlockSize + o = c * BlockSize + u
  PROVE  b = c /\ o = u
<1> DEFINE x == b * BlockSize + o
<1>1. BlockSize \in Nat \ {0}
  BY NgramAssumption
<1>2. x \in Nat
  <2>1. b * BlockSize \in Nat
    BY <1>1
  <2>2. QED
    BY <1>1, <2>1
<1> HIDE DEF x
<1>3. x \div BlockSize = b /\ x % BlockSize = o
  BY <1>1, <1>2, DivMod DEF x
<1>4. x = c * BlockSize + u
  BY DEF x
<1>5. x \div BlockSize = c /\ x % BlockSize = u
  BY <1>1, <1>2, <1>4, DivMod
<1>6. QED
  BY <1>3, <1>5

\* Positions of one slot lie in the same block, and a request's are the same.
LEMMA OneSlot ==
  ASSUME PoolOK, NEW r \in Requests, NEW p \in Nat, p < Len(blocks[r]) * BlockSize,
         NEW q \in Requests, NEW x \in Nat, x < Len(blocks[q]) * BlockSize,
         Slot(r, p) = Slot(q, x)
  PROVE  /\ blocks[r][p \div BlockSize + 1] = blocks[q][x \div BlockSize + 1]
         /\ p % BlockSize = x % BlockSize
         /\ r = q => p = x
<1> DEFINE b == blocks[r][p \div BlockSize + 1]
           c == blocks[q][x \div BlockSize + 1]
<1>1. /\ Slot(r, p) = b * BlockSize + (p % BlockSize) /\ b \in Nat
      /\ p % BlockSize \in 0 .. BlockSize - 1
      /\ p = (p \div BlockSize) * BlockSize + (p % BlockSize)
      /\ p \div BlockSize \in Nat
      /\ p \div BlockSize + 1 \in DOMAIN blocks[r]
  BY SlotAt
<1>2. /\ Slot(q, x) = c * BlockSize + (x % BlockSize) /\ c \in Nat
      /\ x % BlockSize \in 0 .. BlockSize - 1
      /\ x = (x \div BlockSize) * BlockSize + (x % BlockSize)
      /\ x \div BlockSize \in Nat
      /\ x \div BlockSize + 1 \in DOMAIN blocks[q]
  BY SlotAt
<1>3. b * BlockSize + (p % BlockSize) = c * BlockSize + (x % BlockSize)
  BY <1>1, <1>2
<1>4. b = c /\ p % BlockSize = x % BlockSize
  <2> HIDE DEF b, c
  <2>1. QED
    BY <1>1, <1>2, <1>3, OnePlace
<1>5. ASSUME r = q PROVE p = x
  <2>1. p \div BlockSize + 1 = x \div BlockSize + 1
    BY <1>1, <1>2, <1>4, <1>5 DEF PoolOK, RequestsOK, BlocksDiffer
  <2>2. p \div BlockSize = x \div BlockSize
    BY <1>1, <1>2, <2>1
  <2>3. QED
    BY <1>1, <1>2, <1>4, <2>2
<1>6. QED
  BY <1>4, <1>5

\* A row's tokens are written to positions of its blocks.
LEMMA WritesInBlocks ==
  ASSUME BatchOK, PoolOK, NEW row \in DOMAIN batch, NEW o \in Offsets(row)
  PROVE  /\ batch[row].req \in Requests
         /\ batch[row].start \in Nat /\ batch[row].start + o \in Nat
         /\ batch[row].start + o < Len(blocks[batch[row].req]) * BlockSize
         /\ WritesTo(row, o) \in SlotsOf(NumBlocks)
         /\ o \in Nat /\ o + 1 \in 1 .. Len(batch[row].ids) /\ batch[row].ids[o + 1] \in Tokens
<1>2. /\ batch[row] \in Row
      /\ batch[row].req \in Requests /\ batch[row].start \in Nat
      /\ batch[row].ids \in Seq(Tokens)
  <2>1. batch[row] \in Row
    BY DEF BatchOK
  <2>2. QED
    BY <2>1 DEF Row
<1>1. /\ RowOK(row) /\ DOMAIN batch = 1 .. Len(batch)
      /\ Len(batch[row].ids) \in Nat
  BY <1>2 DEF BatchOK
<1>3. o \in Nat /\ o < Len(batch[row].ids) /\ o + 1 \in 1 .. Len(batch[row].ids)
  BY <1>1 DEF Offsets
<1>4. /\ batch[row].start + Len(batch[row].ids) <= Len(blocks[batch[row].req]) * BlockSize
      /\ Len(blocks[batch[row].req]) * BlockSize \in Nat
  <2>1. Len(blocks[batch[row].req]) \in Nat /\ BlockSize \in Nat
    BY <1>2, NgramAssumption DEF PoolOK, RequestsOK
  <2>2. QED
    BY <1>1, <2>1 DEF RowOK
<1>5. /\ batch[row].start + o \in Nat
      /\ batch[row].start + o < Len(blocks[batch[row].req]) * BlockSize
  BY SMTT(30), <1>1, <1>2, <1>3, <1>4
<1>6. Slot(batch[row].req, batch[row].start + o) \in SlotsOf(NumBlocks)
  BY <1>2, <1>5, SlotAt
<1>7. QED
  BY <1>2, <1>3, <1>5, <1>6 DEF WritesTo

\* What the write kernel leaves in a slot: the token written to it, or what was there.
LEMMA WrittenIs ==
  ASSUME BatchOK, PoolOK, WritesDiffer, pc = "schedule",
         NEW c, NEW s \in DOMAIN c
  PROVE  /\ \A row \in DOMAIN batch : \A o \in Offsets(row) :
              WritesTo(row, o) = s => Written(c)[s] = TokenMap[batch[row].ids[o + 1]]
         /\ (\A row \in DOMAIN batch : \A o \in Offsets(row) : WritesTo(row, o) # s) =>
              Written(c)[s] = c[s]
<1> DEFINE hits(t) == Slot(batch[OwnRow(t)].req, Position(t)) = s
           hit == CHOOSE t \in BatchTokens : hits(t)
<1>1. Written(c)[s] = IF \E t \in BatchTokens : hits(t) THEN TokenMap[InputId(hit)] ELSE c[s]
  BY DEF Written
<1>2. batch \in Seq(Row)
  BY DEF BatchOK
<1>3. \A row \in DOMAIN batch : \A o \in Offsets(row) :
        /\ QueryStartLoc(row) + o \in BatchTokens
        /\ hits(QueryStartLoc(row) + o) <=> WritesTo(row, o) = s
        /\ InputId(QueryStartLoc(row) + o) = batch[row].ids[o + 1]
  BY <1>2, TokenOf DEF WritesTo
<1> HIDE DEF hits
<1>4. ASSUME NEW row \in DOMAIN batch, NEW o \in Offsets(row), WritesTo(row, o) = s
      PROVE  Written(c)[s] = TokenMap[batch[row].ids[o + 1]]
  <2>1. \E t \in BatchTokens : hits(t)
    BY <1>3, <1>4
  <2>2. hit \in BatchTokens /\ hits(hit)
    BY <2>1
  <2> HIDE DEF hit
  <2>3. PICK other \in DOMAIN batch : \E u \in Offsets(other) : hit = QueryStartLoc(other) + u
    BY <1>2, <2>2, RowsOfTokens
  <2>8. PICK u \in Offsets(other) : hit = QueryStartLoc(other) + u
    BY <2>3
  <2>4. WritesTo(other, u) = s /\ InputId(hit) = batch[other].ids[u + 1]
    BY <1>3, <2>2, <2>8
  <2>5. other = row
    BY <1>4, <2>4 DEF WritesDiffer
  <2>6. u = o
    <3> DEFINE r == batch[row].req
               p == batch[row].start + o
               x == batch[row].start + u
    <3>1. /\ r \in Requests /\ p \in Nat /\ x \in Nat /\ o \in Nat /\ u \in Nat
          /\ p < Len(blocks[r]) * BlockSize /\ x < Len(blocks[r]) * BlockSize
      BY <2>5, WritesInBlocks
    <3>2. Slot(r, p) = Slot(r, x)
      BY <1>4, <2>4, <2>5 DEF WritesTo
    <3> HIDE DEF r
    <3>3. p = x
      BY <3>1, <3>2, OneSlot
    <3>4. batch[row].start \in Nat
      BY WritesInBlocks
    <3>5. QED
      BY <3>1, <3>3, <3>4
  <2>7. QED
    BY <1>1, <2>1, <2>4, <2>5, <2>6 DEF hit
<1>5. ASSUME \A row \in DOMAIN batch : \A o \in Offsets(row) : WritesTo(row, o) # s
      PROVE  Written(c)[s] = c[s]
  <2>1. ~ \E t \in BatchTokens : hits(t)
    <3> SUFFICES ASSUME NEW t \in BatchTokens, hits(t) PROVE FALSE
      OBVIOUS
    <3>1. PICK row \in DOMAIN batch : \E o \in Offsets(row) : t = QueryStartLoc(row) + o
      BY <1>2, RowsOfTokens
    <3>2. PICK o \in Offsets(row) : t = QueryStartLoc(row) + o
      BY <3>1
    <3>3. WritesTo(row, o) = s
      BY <1>3, <3>2
    <3>4. QED
      BY <1>5, <3>3
  <2>2. QED
    BY <1>1, <2>1
<1>6. QED
  BY <1>4, <1>5

-----------------------------------------------------------------------------
(* Hashing.                                                                 *)

\* The slot cache a step of the V1 runner has covers the pool it serves.
LEMMA EnsureIs ==
  ASSUME TypeOK, PoolOK
  PROVE  /\ NumBlocks \in Nat
         /\ bound # 0 => bound \in DOMAIN Pools /\ NumBlocks = Pools[bound] /\ NumBlocks # 0
         /\ NumBlocks # 0 => bound # 0
         /\ bound # 0 /\ ~V2 =>
              /\ EnsureCache[1] \in [SlotsOf(NumBlocks) -> Ids]
              /\ EnsureCache[2] = bound
              /\ None \notin [SlotsOf(NumBlocks) -> Ids]
<1>1. bound # 0 => bound \in DOMAIN Pools /\ NumBlocks = Pools[bound] /\ NumBlocks \in Nat \ {0}
  BY NgramAssumption DEF NumBlocks, PoolOK
<1>2. bound = 0 => NumBlocks = 0
  BY DEF NumBlocks
<1>3. ASSUME bound # 0, ~V2
      PROVE  /\ EnsureCache[1] \in [SlotsOf(NumBlocks) -> Ids]
             /\ EnsureCache[2] = bound
             /\ None \notin [SlotsOf(NumBlocks) -> Ids]
  <2>1. NumBlocks = Pools[bound] /\ NumBlocks # 0 /\ bound \in DOMAIN Pools
    BY <1>1, <1>3
  <2>2. None \notin [SlotsOf(NumBlocks) -> Ids]
    BY <2>1, NoneAssumption
  <2>3. CASE cache_ref = bound
    <3>1. cache \in [SlotsOf(Pools[cache_ref]) -> Ids]
      BY <2>3, <1>3 DEF PoolOK, RequestsOK, TypeOK
    <3>2. EnsureCache = <<cache, cache_ref>>
      BY <2>1, <2>3 DEF EnsureCache
    <3>3. QED
      BY <2>1, <2>2, <2>3, <3>1, <3>2
  <2>4. CASE cache_ref # bound
    <3>1. EnsureCache = <<[s \in SlotsOf(NumBlocks) |-> ZeroId], bound>>
      BY <1>3, <2>1, <2>4 DEF EnsureCache
    <3>2. [s \in SlotsOf(NumBlocks) |-> ZeroId] \in [SlotsOf(NumBlocks) -> Ids]
      BY DEF Ids
    <3>3. QED
      BY <2>2, <3>1, <3>2
  <2>5. QED
    BY <2>3, <2>4
<1>4. QED
  BY <1>1, <1>2, <1>3

\* What the step sees of a row's text.
LEMMA TextOf ==
  ASSUME TypeOK, BatchOK, PoolOK, NEW row \in DOMAIN batch
  PROVE  /\ batch[row].req \in Requests
         /\ batch[row].start \in Nat
         /\ batch[row].start < Len(tokens[batch[row].req])
         /\ batch[row].ids \in Seq(Tokens) /\ Len(batch[row].ids) \in Nat \ {0}
         /\ tokens[batch[row].req] \in Seq(Tokens)
         /\ Text(row) \in Seq(Tokens)
         /\ Len(Text(row)) = batch[row].start + Len(batch[row].ids)
         /\ \A k \in 1 .. batch[row].start : Text(row)[k] = tokens[batch[row].req][k]
         /\ \A o \in Offsets(row) : Text(row)[batch[row].start + o + 1] = batch[row].ids[o + 1]
<1> DEFINE r == batch[row].req
           start == batch[row].start
           ids == batch[row].ids
           before == SubSeq(tokens[r], 1, start)
<1>1. batch[row] \in Row
  BY DEF BatchOK
<1>2. r \in Requests /\ start \in Nat /\ ids \in Seq(Tokens)
  BY <1>1 DEF Row
<1>3. RowOK(row)
  BY DEF BatchOK
<1>4. tokens[r] \in Seq(Tokens)
  BY <1>2 DEF TypeOK
<1>5. start < Len(tokens[r]) /\ ids # <<>>
  BY <1>3 DEF RowOK
<1>6. Text(row) = before \o ids
  BY DEF Text
<1>7. Offsets(row) = 0 .. Len(ids) - 1
  BY DEF Offsets
<1> HIDE DEF r, start, ids
<1>8. Len(ids) \in Nat \ {0}
  BY <1>2, <1>5
<1>9. /\ before \in Seq(Tokens) /\ Len(before) = start
      /\ \A k \in 1 .. start : before[k] = tokens[r][k]
  BY <1>2, <1>4, <1>5
<1> HIDE DEF before
<1>10. /\ Text(row) \in Seq(Tokens) /\ Len(Text(row)) = start + Len(ids)
       /\ \A k \in 1 .. start : Text(row)[k] = before[k]
       /\ \A k \in 1 .. Len(ids) : Text(row)[start + k] = ids[k]
  <2>1. before \o ids \in Seq(Tokens) /\ Len(before \o ids) = Len(before) + Len(ids)
    BY <1>2, <1>9
  <2>2. \A k \in 1 .. Len(before) : (before \o ids)[k] = before[k]
    BY <1>2, <1>8, <1>9
  <2>3. \A k \in 1 .. Len(ids) : (before \o ids)[Len(before) + k] = ids[k]
    BY <1>2, <1>8, <1>9
  <2>4. QED
    BY <1>6, <1>9, <2>1, <2>2, <2>3
<1>11. \A o \in Offsets(row) : Text(row)[start + o + 1] = ids[o + 1]
  <2> TAKE o \in Offsets(row)
  <2>1. o + 1 \in 1 .. Len(ids) /\ start + (o + 1) = start + o + 1
    BY <1>2, <1>7, <1>8
  <2>2. Text(row)[start + (o + 1)] = ids[o + 1]
    BY <1>10, <2>1
  <2>3. QED
    BY <2>1, <2>2
<1>12. QED
  BY <1>2, <1>4, <1>5, <1>8, <1>9, <1>10, <1>11 DEF r, start, ids

\* What a slot will hold is what the write kernel leaves in it.
LEMMA HeldIsWritten ==
  ASSUME TypeOK, BatchOK, PoolOK, WritesDiffer, pc = "schedule", bound # 0, ~V2,
         NEW s \in SlotsOf(NumBlocks), NEW id, Holds(s, id)
  PROVE  Written(EnsureCache[1])[s] = id
<1>1. DOMAIN EnsureCache[1] = SlotsOf(NumBlocks)
  <2>1. EnsureCache[1] \in [SlotsOf(NumBlocks) -> Ids]
    BY EnsureIs
  <2>2. QED
    BY <2>1
<1> DEFINE c == EnsureCache[1]
<1>2. s \in DOMAIN c
  BY <1>1
<1>3. CASE \E row \in DOMAIN batch : \E o \in Offsets(row) :
             WritesTo(row, o) = s /\ id = TokenMap[batch[row].ids[o + 1]]
  <2> HIDE DEF c
  <2>1. \A row \in DOMAIN batch : \A o \in Offsets(row) :
          WritesTo(row, o) = s => Written(c)[s] = TokenMap[batch[row].ids[o + 1]]
    BY <1>2, WrittenIs
  <2>2. QED
    BY <1>3, <2>1 DEF c
<1>4. CASE /\ \A row \in DOMAIN batch : \A o \in Offsets(row) : WritesTo(row, o) # s
           /\ EnsureCache[1][s] = id
  <2>2. c[s] = id
    BY <1>4
  <2> HIDE DEF c
  <2>1. Written(c)[s] = c[s]
    BY <1>2, <1>4, WrittenIs
  <2>3. QED
    BY <2>1, <2>2 DEF c
<1>5. QED
  BY <1>3, <1>4 DEF Holds

\* A row's request has the blocks its tokens go to.
LEMMA RowHasBlocks ==
  ASSUME TypeOK, BatchOK, PoolOK, NEW row \in DOMAIN batch
  PROVE  LET r == batch[row].req
             ids == batch[row].ids IN
         /\ batch[row].start = computed[r]
         /\ blocks[r] # <<>> /\ blocks[r] \in Seq(0 .. NumBlocks - 1)
         /\ Len(blocks[r]) * BlockSize \in Nat
         /\ computed[r] + Len(ids) <= Len(blocks[r]) * BlockSize
         /\ computed[r] <= Len(blocks[r]) * BlockSize
         /\ computed[r] \in Nat
         /\ \A k \in 1 .. Len(ids) :
              computed[r] + k <= Len(tokens[r]) => ids[k] = tokens[r][computed[r] + k]
<1> DEFINE r == batch[row].req
           ids == batch[row].ids
<1>1. r \in Requests /\ batch[row].start \in Nat /\ Len(ids) \in Nat \ {0}
  BY TextOf
<1>2. /\ batch[row].start = computed[r]
      /\ batch[row].start + Len(ids) <= Len(blocks[r]) * BlockSize
      /\ \A k \in 1 .. Len(ids) :
           batch[row].start + k <= Len(tokens[r]) => ids[k] = tokens[r][batch[row].start + k]
  BY DEF BatchOK, RowOK
<1>3. blocks[r] \in Seq(0 .. NumBlocks - 1) /\ BlockSize \in Nat
  BY <1>1, NgramAssumption DEF PoolOK, RequestsOK
<1> HIDE DEF r, ids
<1>4. Len(blocks[r]) \in Nat /\ (blocks[r] = <<>> => Len(blocks[r]) = 0)
  BY <1>3
<1>5. Len(blocks[r]) * BlockSize \in Nat
  BY <1>3, <1>4
<1>6. blocks[r] # <<>>
  <2> SUFFICES ASSUME Len(blocks[r]) = 0 PROVE FALSE
    BY <1>4
  <2>1. Len(blocks[r]) * BlockSize = 0
    BY <1>3
  <2>2. QED
    BY <1>1, <1>2, <2>1
<1>7. computed[r] <= Len(blocks[r]) * BlockSize /\ computed[r] \in Nat
  BY <1>1, <1>2, <1>5
<1>8. QED
  BY <1>2, <1>3, <1>5, <1>6, <1>7 DEF r, ids

\* What the write kernel leaves is a slot cache.
LEMMA WrittenTyped ==
  ASSUME TypeOK, BatchOK, PoolOK, bound # 0, ~V2
  PROVE  Written(EnsureCache[1]) \in [SlotsOf(NumBlocks) -> Ids]
<1> DEFINE c == EnsureCache[1]
           hits(s, t) == Slot(batch[OwnRow(t)].req, Position(t)) = s
<1>1. c \in [SlotsOf(NumBlocks) -> Ids]
  BY EnsureIs
<1>2. \A t \in BatchTokens : TokenMap[InputId(t)] \in Ids
  <2> TAKE t \in BatchTokens
  <2>1. batch \in Seq(Row)
    BY DEF BatchOK
  <2>2. PICK row \in DOMAIN batch : \E o \in Offsets(row) : t = QueryStartLoc(row) + o
    BY <2>1, RowsOfTokens
  <2>3. PICK o \in Offsets(row) : t = QueryStartLoc(row) + o
    BY <2>2
  <2>4. InputId(t) = batch[row].ids[o + 1]
    BY <2>1, <2>3, TokenOf
  <2>5. batch[row].ids[o + 1] \in Tokens
    BY WritesInBlocks
  <2>6. QED
    BY <2>4, <2>5 DEF Ids
<1>3. Written(c) = [s \in DOMAIN c |->
                      IF \E t \in BatchTokens : hits(s, t)
                      THEN TokenMap[InputId(CHOOSE t \in BatchTokens : hits(s, t))] ELSE c[s]]
  BY DEF Written
<1> HIDE DEF c, hits
<1>4. \A s \in SlotsOf(NumBlocks) :
        (IF \E t \in BatchTokens : hits(s, t)
         THEN TokenMap[InputId(CHOOSE t \in BatchTokens : hits(s, t))] ELSE c[s]) \in Ids
  BY <1>1, <1>2
<1>5. QED
  BY <1>1, <1>3, <1>4 DEF c

\* A shift within the text reads the token that many positions back: from the chunk,
\* from the window, or from the slot the request's token was written to.
LEMMA SourceIs ==
  ASSUME TypeOK, BatchOK, PoolOK, SlotsOK, V2 \/ ~Connector, pc = "schedule", bound # 0,
         NEW c, c = IF V2 THEN None ELSE Written(EnsureCache[1]),
         NEW row \in DOMAIN batch, NEW o \in Offsets(row),
         NEW s \in 0 .. Depth, s <= batch[row].start + o
  PROVE  Source(QueryStartLoc(row) + o, s, c)
           = TokenMap[Text(row)[((batch[row].start + o) - s) + 1]]
<1> DEFINE r == batch[row].req
           start == batch[row].start
           ids == batch[row].ids
           t == QueryStartLoc(row) + o
           lookback == (start + o) - s
           col == start - 1 - lookback
           known == lookback < start /\ col < Depth /\ LookbackToken(row, col) # None
<1>1. /\ r \in Requests /\ start \in Nat /\ start < Len(tokens[r])
      /\ ids \in Seq(Tokens) /\ Len(ids) \in Nat \ {0}
      /\ tokens[r] \in Seq(Tokens)
      /\ \A k \in 1 .. start : Text(row)[k] = tokens[r][k]
      /\ \A u \in Offsets(row) : Text(row)[start + u + 1] = ids[u + 1]
  BY TextOf
<1>2. batch \in Seq(Row) /\ Offsets(row) = 0 .. Len(ids) - 1
  BY DEF BatchOK, Offsets
<1>3. /\ RowOf(t) = row /\ Position(t) = start + o /\ QueryStartLoc(row) \in Nat
      /\ Position(QueryStartLoc(row)) = start
  <2>1. RowOf(t) = row /\ Position(t) = start + o
    BY <1>2, TokenOf
  <2>2. row \in 1 .. Len(batch) + 1
    BY <1>2
  <2>3. QueryStartLoc(row) \in Nat
    BY <1>2, <2>2, RowStarts
  <2>4. 0 \in Offsets(row)
    BY <1>1, <1>2
  <2>5. Position(QueryStartLoc(row) + 0) = start + 0
    BY <1>2, <2>4, TokenOf
  <2>6. QED
    BY <1>1, <2>1, <2>3, <2>5
<1>4. Source(t, s, c) =
        CASE lookback >= start -> TokenMap[InputId(Max({t - s, 0}))]
          [] known -> TokenMap[LookbackToken(row, col)]
          [] lookback < start /\ ~known /\ c # None -> c[Slot(r, Max({lookback, 0}))]
          [] OTHER -> Pad
  <2>1. /\ QueryStartLoc(RowOf(t)) = QueryStartLoc(row)
        /\ Position(QueryStartLoc(RowOf(t))) = start
        /\ Position(t) - s = lookback
    BY <1>3
  <2>2. QED
    BY <1>3, <2>1 DEF Source
<1>10. s <= start + o
  OBVIOUS
<1> HIDE DEF r, start, ids
<1>5. lookback \in Nat /\ s \in Nat /\ o \in Nat /\ lookback < start + Len(ids) /\ o < Len(ids)
  <2>1. Depth \in Nat
    BY NgramAssumption DEF Depth
  <2>2. QED
    BY <1>1, <1>2, <1>10, <2>1
<1>6. \A x \in Nat : Max({x, 0}) = x
  <2> TAKE x \in Nat
  <2> DEFINE T == {x, 0}
  <2>1. x \in T /\ \A y \in T : x >= y
    OBVIOUS
  <2>2. \A z \in T : (\A y \in T : z >= y) => z = x
    OBVIOUS
  <2> HIDE DEF T
  <2>3. Max(T) = x
    BY <2>1, <2>2 DEF Max
  <2>4. QED
    BY <2>3 DEF T
<1>7. CASE lookback >= start
  <2>1. o - s \in Offsets(row) /\ t - s = QueryStartLoc(row) + (o - s) /\ t - s \in Nat
    BY SMTT(30), <1>1, <1>2, <1>3, <1>5, <1>7
  <2>2. InputId(QueryStartLoc(row) + (o - s)) = ids[(o - s) + 1]
    BY <1>2, <2>1, TokenOf DEF ids
  <2>3. Max({t - s, 0}) = t - s
    BY <1>6, <2>1
  <2>8. ~ (lookback < start) /\ ~known
    BY <1>1, <1>5, <1>7
  <2>4. Source(t, s, c) = TokenMap[InputId(t - s)]
    BY <1>4, <1>7, <2>3, <2>8
  <2>5. Text(row)[start + (o - s) + 1] = ids[(o - s) + 1]
    BY <1>1, <2>1
  <2>6. start + (o - s) + 1 = lookback + 1
    BY <1>1, <1>5
  <2>7. QED
    BY <2>1, <2>2, <2>4, <2>5, <2>6 DEF start
<1>8. CASE lookback < start
  <2>0. lookback + 1 \in 1 .. start /\ lookback + 1 \in 1 .. Len(tokens[r])
    BY <1>1, <1>5, <1>8
  <2>1. /\ Text(row)[lookback + 1] = tokens[r][lookback + 1]
        /\ tokens[r][lookback + 1] \in Tokens
    BY <1>1, <2>0
  <2>2. col < Depth /\ col \in Nat /\ start - 1 - col = lookback
    <3>1. Depth \in Nat
      BY NgramAssumption DEF Depth
    <3>2. QED
      BY <1>1, <1>5, <1>8, <3>1
  <2> HIDE DEF col
  <2>3. LookbackToken(row, col) =
          IF V2 \/ lookback < Len(Prompt[r]) THEN tokens[r][lookback + 1] ELSE None
    BY <1>5, <2>2 DEF LookbackToken, r, start
  <2>4. None \notin Tokens
    BY NoneAssumption
  <2> HIDE DEF lookback, r, start
  <2>5. CASE V2 \/ lookback < Len(Prompt[r])
    <3>1. known /\ LookbackToken(row, col) = tokens[r][lookback + 1]
      BY <1>8, <2>1, <2>2, <2>3, <2>4, <2>5
    <3>2. ~ (lookback >= start)
      BY <1>1, <1>5, <1>8
    <3>3. Source(t, s, c) = TokenMap[LookbackToken(row, col)]
      BY <1>4, <3>1, <3>2
    <3>4. QED
      BY <2>1, <3>1, <3>3 DEF lookback, r, start
  <2>6. CASE ~V2 /\ ~ (lookback < Len(Prompt[r]))
    <3>1. c = Written(EnsureCache[1]) /\ SlotsOnly
      BY <2>6 DEF SlotsOnly
    <3>2. ~known
      BY <2>3, <2>6
    <3>3. c # None
      <4>1. DOMAIN EnsureCache[1] = SlotsOf(NumBlocks) /\ None \notin [SlotsOf(NumBlocks) -> Ids]
        BY <2>6, EnsureIs
      <4>2. Written(EnsureCache[1]) \in [SlotsOf(NumBlocks) -> Ids]
        BY <2>6, WrittenTyped
      <4>3. QED
        BY <3>1, <4>1, <4>2
    <3>4. ~ (lookback >= start) /\ Max({lookback, 0}) = lookback
      BY <1>1, <1>5, <1>6, <1>8
    <3>5. Source(t, s, c) = c[Slot(r, lookback)]
      BY <1>4, <1>8, <3>2, <3>3, <3>4
    <3>6. /\ start = computed[r] /\ blocks[r] # <<>>
          /\ start <= Len(blocks[r]) * BlockSize
      BY <1>1, RowHasBlocks DEF r, start
    <3>7. Holds(Slot(r, lookback), TokenMap[tokens[r][lookback + 1]])
      <4>1. lookback \in 0 .. computed[r] - 1
        BY <1>1, <1>5, <1>8, <3>6
      <4>2. QED
        BY <1>1, <3>1, <3>6, <4>1 DEF SlotsOK, ComputedHeld, ComputedHeldOf
    <3>8. Slot(r, lookback) \in SlotsOf(NumBlocks)
      <4>1. lookback < Len(blocks[r]) * BlockSize
        <5>1. Len(blocks[r]) \in Nat /\ BlockSize \in Nat
          BY <1>1, NgramAssumption DEF PoolOK, RequestsOK
        <5>2. Len(blocks[r]) * BlockSize \in Nat
          BY <5>1
        <5>3. QED
          BY <1>1, <1>5, <1>8, <3>6, <5>2
      <4>2. QED
        BY <1>1, <1>5, <4>1, SlotAt
    <3>9. Written(EnsureCache[1])[Slot(r, lookback)] = TokenMap[tokens[r][lookback + 1]]
      <4>1. WritesDiffer
        BY <3>1 DEF SlotsOK
      <4>2. QED
        BY <2>6, <3>7, <3>8, <4>1, HeldIsWritten
    <3>10. QED
      BY <2>1, <3>1, <3>5, <3>9 DEF lookback, r, start
  <2>7. QED
    BY <2>5, <2>6
<1>9. QED
  BY <1>1, <1>5, <1>7, <1>8

\* The kernel's n-gram of a token is the n-gram of the text up to it.
LEMMA NgramIs ==
  ASSUME TypeOK, BatchOK, PoolOK, SlotsOK, V2 \/ ~Connector, pc = "schedule", bound # 0,
         NEW c, c = IF V2 THEN None ELSE Written(EnsureCache[1]),
         NEW t \in BatchTokens
  PROVE  Ngram(t, c) = NgramOf(SubSeq(Text(OwnRow(t)), 1, Position(t) + 1))
<1>1. batch \in Seq(Row)
  BY DEF BatchOK
<1>2. PICK row \in DOMAIN batch : \E o \in Offsets(row) : t = QueryStartLoc(row) + o
  BY <1>1, RowsOfTokens
<1>3. PICK o \in Offsets(row) : t = QueryStartLoc(row) + o
  BY <1>2
<1> DEFINE p == batch[row].start + o
           whole == Text(row)
           text == SubSeq(whole, 1, p + 1)
           out(n) == \E s \in 0 .. n : p - s < 0 \/ Source(t, s, c) = Dead
           ref(n) == \E s \in 0 .. n : s >= Len(text) \/ TokenMap[text[Len(text) - s]] = Dead
<1>4. OwnRow(t) = row /\ Position(t) = p
  BY <1>1, <1>3, TokenOf
<1>5. /\ p \in Nat /\ whole \in Seq(Tokens) /\ p < Len(whole)
  <2>1. /\ batch[row].start \in Nat /\ Len(batch[row].ids) \in Nat \ {0}
        /\ whole \in Seq(Tokens) /\ Len(whole) = batch[row].start + Len(batch[row].ids)
    BY TextOf
  <2>2. Offsets(row) = 0 .. Len(batch[row].ids) - 1
    BY DEF Offsets
  <2>3. QED
    BY <2>1, <2>2
<1>6. ASSUME NEW s \in 0 .. Depth, s <= p
      PROVE  Source(t, s, c) = TokenMap[whole[(p - s) + 1]]
  <2>1. Source(QueryStartLoc(row) + o, s, c) = TokenMap[Text(row)[((batch[row].start + o) - s) + 1]]
    BY <1>6, SourceIs
  <2>2. QED
    BY <1>3, <2>1
<1>7. Ngram(t, c) = [n \in 0 .. Depth |-> IF out(n) THEN Pad ELSE Source(t, n, c)]
  BY <1>4 DEF Ngram
<1>8. NgramOf(text) =
        [n \in 0 .. Depth |-> IF ref(n) THEN Pad ELSE TokenMap[text[Len(text) - n]]]
  BY DEF NgramOf
<1>9. Depth \in Nat
  BY NgramAssumption DEF Depth
<1> HIDE DEF p, whole
<1>10. /\ Len(text) = p + 1
       /\ \A k \in 1 .. p + 1 : text[k] = whole[k]
  BY <1>5
<1> HIDE DEF text
<1>11. ASSUME NEW s \in 0 .. Depth
       PROVE  /\ p - s < 0 <=> s >= Len(text)
              /\ ~ (p - s < 0) => Source(t, s, c) = TokenMap[text[Len(text) - s]]
  <2>1. p - s < 0 <=> s >= Len(text)
    BY <1>5, <1>9, <1>10
  <2>2. ASSUME ~ (p - s < 0) PROVE Source(t, s, c) = TokenMap[text[Len(text) - s]]
    <3>1. s <= p /\ Len(text) - s = (p - s) + 1 /\ (p - s) + 1 \in 1 .. p + 1
      BY <1>5, <1>9, <1>10, <2>2
    <3>2. text[(p - s) + 1] = whole[(p - s) + 1]
      BY <1>10, <3>1
    <3>3. QED
      BY <1>6, <3>1, <3>2
  <2>3. QED
    BY <2>1, <2>2
<1>12. ASSUME NEW n \in 0 .. Depth
       PROVE  (IF out(n) THEN Pad ELSE Source(t, n, c))
                = IF ref(n) THEN Pad ELSE TokenMap[text[Len(text) - n]]
  <2>1. n \in 0 .. n /\ \A s \in 0 .. n : s \in 0 .. Depth
    BY <1>9
  <2>2. out(n) <=> ref(n)
    BY <1>11, <2>1
  <2>3. ASSUME ~out(n) PROVE ~ (p - n < 0)
    BY <2>1, <2>3
  <2>4. QED
    BY <1>11, <2>2, <2>3
<1> HIDE DEF out, ref
<1>13. Ngram(t, c) = NgramOf(text)
  BY ZenonT(30), <1>7, <1>8, <1>12
<1>14. QED
  BY <1>4, <1>13 DEF text, whole

\* A step hashes every position exactly.
LEMMA StepIsExact ==
  ASSUME TypeOK, BatchOK, PoolOK, SlotsOK, V2 \/ ~Connector, pc = "schedule", bound # 0,
         NEW c, c = IF V2 THEN None ELSE Written(EnsureCache[1])
  PROVE  \A h \in Hashed(c) : h[2] = NgramOf(h[1])
<1> SUFFICES ASSUME NEW h \in Hashed(c) PROVE h[2] = NgramOf(h[1])
  OBVIOUS
<1>1. PICK t \in BatchTokens :
        h = <<SubSeq(Text(OwnRow(t)), 1, Position(t) + 1), Ngram(t, c)>>
  BY DEF Hashed
<1>2. Ngram(t, c) = NgramOf(SubSeq(Text(OwnRow(t)), 1, Position(t) + 1))
  BY NgramIs
<1>3. QED
  BY <1>1, <1>2

-----------------------------------------------------------------------------
(* The types, the batch and the pool.                                       *)

Base == TypeOK /\ BatchOK /\ PoolOK

\* A request changes on its own.
LEMMA RequestChanges ==
  ASSUME Base, bound' = bound, NEW r \in Requests,
         NEW text \in Seq(Tokens), NEW done \in Nat, NEW own \in Seq(0 .. NumBlocks - 1),
         tokens' = [tokens EXCEPT ![r] = text],
         computed' = [computed EXCEPT ![r] = done],
         blocks' = [blocks EXCEPT ![r] = own],
         \A i \in DOMAIN own : own[i] \in AllBlocks,
         \A i, j \in DOMAIN own : own[i] = own[j] => i = j,
         own # <<>> => bound = Len(Pools) /\ done <= Len(own) * BlockSize,
         done <= Len(text), Len(Prompt[r]) <= Len(text),
         own = <<>> /\ Len(text) < MaxLen => done = 0
  PROVE  RequestsOK'
<1>1. RequestsOK
  BY DEF Base, PoolOK
<1>2. NumBlocks' = NumBlocks
  BY DEF NumBlocks
<1>3. tokens' \in [Requests -> Seq(Tokens)] /\ computed' \in [Requests -> Nat]
  BY <1>1 DEF RequestsOK
<1>4. blocks' \in [Requests -> Seq(0 .. NumBlocks' - 1)]
  BY <1>1, <1>2 DEF RequestsOK
<1>5. /\ tokens'[r] = text /\ computed'[r] = done /\ blocks'[r] = own
      /\ \A q \in Requests : q # r =>
           tokens'[q] = tokens[q] /\ computed'[q] = computed[q] /\ blocks'[q] = blocks[q]
  BY <1>1 DEF RequestsOK
<1>6. ASSUME NEW q \in Requests
      PROVE  /\ \A i \in DOMAIN blocks'[q] : blocks'[q][i] \in AllBlocks
             /\ \A i, j \in DOMAIN blocks'[q] : blocks'[q][i] = blocks'[q][j] => i = j
             /\ blocks'[q] # <<>> =>
                  bound' = Len(Pools) /\ computed'[q] <= Len(blocks'[q]) * BlockSize
             /\ computed'[q] <= Len(tokens'[q]) /\ Len(Prompt[q]) <= Len(tokens'[q])
             /\ blocks'[q] = <<>> /\ Len(tokens'[q]) < MaxLen => computed'[q] = 0
  <2>1. CASE q = r
    BY <1>5, <2>1
  <2>2. CASE q # r
    <3>1. tokens'[q] = tokens[q] /\ computed'[q] = computed[q] /\ blocks'[q] = blocks[q]
      BY <1>5, <2>2
    <3>2. QED
      BY <1>1, <3>1 DEF RequestsOK, BlocksDiffer
  <2>3. QED
    BY <2>1, <2>2
<1>7. QED
  BY <1>3, <1>4, <1>6 DEF RequestsOK, BlocksDiffer

\* The types of the requests, from the invariant.
LEMMA RequestTypes ==
  ASSUME RequestsOK
  PROVE  /\ tokens \in [Requests -> Seq(Tokens)]
         /\ \A r \in Requests :
              /\ computed[r] < Len(tokens[r]) + 1
              /\ blocks[r] \in Seq(0 .. NumBlocks - 1)
              /\ blocks[r] # <<>> => computed[r] <= Len(blocks[r]) * BlockSize
<1> SUFFICES ASSUME NEW r \in Requests
             PROVE  /\ computed[r] < Len(tokens[r]) + 1
                    /\ blocks[r] \in Seq(0 .. NumBlocks - 1)
                    /\ blocks[r] # <<>> => computed[r] <= Len(blocks[r]) * BlockSize
  BY DEF RequestsOK
<1>1. /\ computed[r] \in Nat /\ tokens[r] \in Seq(Tokens)
      /\ computed[r] <= Len(tokens[r])
  BY DEF RequestsOK
<1>2. computed[r] < Len(tokens[r]) + 1
  BY <1>1
<1>3. QED
  BY <1>2 DEF RequestsOK

\* A step that leaves the rows' requests alone leaves the batch as it should be.
LEMMA BatchKept ==
  ASSUME BatchOK, batch' = batch, runner' = runner, pc' = "sample" => batch # <<>>,
         \A row \in DOMAIN batch :
           /\ tokens'[batch[row].req] = tokens[batch[row].req]
           /\ computed'[batch[row].req] = computed[batch[row].req]
           /\ blocks'[batch[row].req] = blocks[batch[row].req]
  PROVE  BatchOK'
<1>1. \A row \in DOMAIN batch : RowOK(row)'
  <2> TAKE row \in DOMAIN batch
  <2>1. RowOK(row)
    BY DEF BatchOK
  <2>2. QED
    BY <2>1 DEF RowOK
<1>2. QED
  BY <1>1 DEF BatchOK

LEMMA InitBase ==
  ASSUME Init
  PROVE  Base
<1>1. NumBlocks = 0
  BY DEF Init, NumBlocks
<1>2. RequestsOK
  <2>1. tokens \in [Requests -> Seq(Tokens)]
    BY NgramAssumption DEF Init
  <2>2. computed \in [Requests -> Nat] /\ blocks \in [Requests -> Seq(0 .. NumBlocks - 1)]
    BY DEF Init
  <2>3. \A r \in Requests : /\ computed[r] = 0 /\ blocks[r] = <<>> /\ tokens[r] = Prompt[r]
                            /\ Prompt[r] \in Seq(Tokens)
    BY NgramAssumption DEF Init
  <2>4. \A r \in Requests : /\ computed[r] <= Len(tokens[r]) /\ Len(Prompt[r]) <= Len(tokens[r])
                            /\ DOMAIN blocks[r] = {}
    BY <2>3
  <2>5. QED
    BY <2>1, <2>2, <2>3, <2>4 DEF RequestsOK, BlocksDiffer
<1>3. bound \in 0 .. Len(Pools) /\ bound = 0
  BY NgramAssumption DEF Init
<1>4. PoolOK
  <2>1. prefix \in [AllBlocks -> Seq(Tokens) \cup {None}] /\ \A b \in AllBlocks : prefix[b] = None
    BY DEF Init
  <2>2. cache = None /\ cache_ref = 0
    BY DEF Init
  <2>3. QED
    BY <1>2, <1>3, <2>1, <2>2 DEF PoolOK
<1>5. BatchOK
  BY DEF Init, BatchOK
<1>6. TypeOK
  <2>1. pc = "schedule" /\ cache_ref = 0 /\ cache = None
    BY DEF Init
  <2>2. QED
    BY <1>2, <1>3, <2>1, RequestTypes DEF TypeOK
<1>7. QED
  BY <1>4, <1>5, <1>6 DEF Base

LEMMA BindBase ==
  ASSUME Base, BindKVCache
  PROVE  Base' /\ batch = <<>> /\ \A b \in AllBlocks : prefix[b] = None
<1>1. /\ bound \in 0 .. Len(Pools) /\ Len(Pools) \in Nat /\ bound < Len(Pools)
      /\ bound' = bound + 1 /\ bound' \in 0 .. Len(Pools)
  BY NgramAssumption DEF Base, PoolOK, BindKVCache
<1>2. \A r \in Requests : blocks[r] = <<>> /\ computed[r] = 0
  BY DEF BindKVCache
<1>3. \A b \in AllBlocks : prefix[b] = None
  BY <1>1 DEF Base, PoolOK
<1>4. batch = <<>>
  <2> SUFFICES ASSUME batch # <<>> PROVE FALSE
    OBVIOUS
  <2>1. 1 \in DOMAIN batch
    BY DEF Base, BatchOK
  <2>2. batch[1].req \in Requests /\ blocks[batch[1].req] # <<>>
    BY <2>1, TextOf, RowHasBlocks DEF Base
  <2>3. QED
    BY <1>2, <2>2
<1>5. RequestsOK'
  <2>1. RequestsOK
    BY DEF Base, PoolOK
  <2>2. tokens' = tokens /\ computed' = computed /\ blocks' = blocks
    BY DEF BindKVCache
  <2>3. blocks' \in [Requests -> Seq(0 .. NumBlocks' - 1)]
    BY <1>2, <2>1, <2>2 DEF RequestsOK
  <2>4. QED
    BY <1>2, <2>1, <2>2, <2>3 DEF RequestsOK, BlocksDiffer
<1>6. PoolOK'
  BY <1>1, <1>3, <1>5 DEF Base, PoolOK, BindKVCache, V2
<1>7. BatchOK'
  BY <1>4 DEF Base, BatchOK, BindKVCache
<1>8. TypeOK'
  <2>1. cache_ref' \in 0 .. bound'
    BY <1>1 DEF Base, TypeOK, BindKVCache
  <2>2. cache' = None \/ cache' \in [SlotsOf(Pools[cache_ref']) -> Ids]
    BY DEF Base, TypeOK, BindKVCache
  <2>3. pc' = "schedule"
    BY DEF BindKVCache
  <2>4. (RequestsOK => /\ tokens \in [Requests -> Seq(Tokens)]
                       /\ \A r \in Requests :
                            /\ computed[r] < Len(tokens[r]) + 1
                            /\ blocks[r] \in Seq(0 .. NumBlocks - 1)
                            /\ blocks[r] # <<>> => computed[r] <= Len(blocks[r]) * BlockSize)'
    BY RequestTypes, PTL
  <2>5. QED
    BY <1>1, <1>5, <2>1, <2>2, <2>3, <2>4 DEF TypeOK
<1>9. QED
  BY <1>3, <1>4, <1>6, <1>7, <1>8 DEF Base

\* A step that leaves the slot cache alone and keeps the requests typed keeps the types.
LEMMA TypesKept ==
  ASSUME TypeOK, RequestsOK', pc' = pc \/ pc' = "schedule",
         UNCHANGED <<runner, bound, cache, cache_ref>>
  PROVE  TypeOK'
<1>1. (RequestsOK => /\ tokens \in [Requests -> Seq(Tokens)]
                     /\ \A r \in Requests :
                          /\ computed[r] < Len(tokens[r]) + 1
                          /\ blocks[r] \in Seq(0 .. NumBlocks - 1)
                          /\ blocks[r] # <<>> => computed[r] <= Len(blocks[r]) * BlockSize)'
  BY RequestTypes, PTL
<1>2. V2' = V2
  BY DEF V2
<1>3. QED
  BY <1>1, <1>2 DEF TypeOK

LEMMA DummyBase ==
  ASSUME Base, DummyForward
  PROVE  /\ Base'
         /\ EnsureCache'[1] = EnsureCache[1]
<1>0. NumBlocks' = NumBlocks /\ V2' = V2
  BY DEF DummyForward, NumBlocks, V2
<1>1. /\ bound \in Nat
      /\ NumBlocks \in Nat
      /\ NumBlocks # 0 <=> bound # 0
  <2>1. bound \in 0 .. Len(Pools) /\ Len(Pools) \in Nat
    BY NgramAssumption DEF Base, PoolOK
  <2>2. QED
    BY <2>1, EnsureIs DEF Base
<1>2. RequestsOK'
  BY <1>0 DEF Base, PoolOK, RequestsOK, DummyForward, BlocksDiffer
<1>3. /\ pc' = "schedule" /\ bound' = bound
      /\ cache' = EnsureCache[1] /\ cache_ref' = EnsureCache[2]
  BY DEF DummyForward
<1>4. /\ cache_ref' \in 0 .. bound
      /\ cache' = None \/ cache' \in [SlotsOf(Pools[cache_ref']) -> Ids]
      /\ V2 => cache' = None
      /\ cache' = None => cache_ref' = 0
      /\ EnsureCache'[1] = EnsureCache[1]
  <2>1. CASE NumBlocks = 0
    <3>1. EnsureCache = <<None, 0>> /\ EnsureCache' = <<None, 0>>
      BY <1>0, <2>1 DEF EnsureCache
    <3>2. QED
      BY <1>1, <1>3, <3>1
  <2>2. CASE NumBlocks # 0 /\ V2
    <3>1. EnsureCache = <<cache, cache_ref>> /\ EnsureCache' = <<cache', cache_ref'>>
      BY <1>0, <2>2 DEF EnsureCache
    <3>2. QED
      BY <1>3, <3>1 DEF Base, TypeOK, PoolOK
  <2>3. CASE NumBlocks # 0 /\ ~V2
    <3>1. /\ EnsureCache[1] \in [SlotsOf(NumBlocks) -> Ids]
          /\ EnsureCache[2] = bound
          /\ None \notin [SlotsOf(NumBlocks) -> Ids]
          /\ NumBlocks = Pools[bound]
      BY <1>1, <2>3, EnsureIs DEF Base
    <3>2. EnsureCache' = <<cache', cache_ref'>>
      BY <1>0, <1>3, <2>3, <3>1 DEF EnsureCache
    <3>3. QED
      BY <1>1, <1>3, <2>3, <3>1, <3>2
  <2>4. QED
    BY <2>1, <2>2, <2>3
<1>5. PoolOK'
  BY <1>0, <1>2, <1>3, <1>4 DEF Base, PoolOK, DummyForward
<1>6. BatchOK'
  BY BatchKept DEF Base, DummyForward
<1>7. TypeOK'
  <2>1. (RequestsOK => /\ tokens \in [Requests -> Seq(Tokens)]
                       /\ \A r \in Requests :
                            /\ computed[r] < Len(tokens[r]) + 1
                            /\ blocks[r] \in Seq(0 .. NumBlocks - 1)
                            /\ blocks[r] # <<>> => computed[r] <= Len(blocks[r]) * BlockSize)'
    BY RequestTypes, PTL
  <2>2. bound' \in 0 .. Len(Pools)
    BY <1>3 DEF Base, TypeOK
  <2>3. QED
    BY <1>2, <1>3, <1>4, <2>1, <2>2 DEF TypeOK
<1>8. QED
  BY <1>4, <1>5, <1>6, <1>7 DEF Base

\* The prefix a request hits: all of its blocks are cached, and a token is left.
LEMMA HitIs ==
  ASSUME PoolOK, NEW r \in Requests
  PROVE  LET n == HitLength(tokens[r]) IN
         /\ n \in Nat
         /\ n * BlockSize \in Nat /\ n * BlockSize < Len(tokens[r])
         /\ \A i \in 1 .. n : \E b \in AllBlocks :
              prefix[b] = SubSeq(tokens[r], 1, i * BlockSize)
<1> DEFINE text == tokens[r]
           top == (Len(text) - 1) \div BlockSize
           hit(n) == \A i \in 1 .. n : \E b \in AllBlocks : prefix[b] = SubSeq(text, 1, i * BlockSize)
           T == {n \in 0 .. top : hit(n)}
<1>1. /\ text \in Seq(Tokens) /\ Len(text) \in Nat \ {0}
      /\ BlockSize \in Nat \ {0}
  <2>1. /\ text \in Seq(Tokens) /\ Len(Prompt[r]) <= Len(text)
        /\ Prompt[r] \in Seq(Tokens) /\ Prompt[r] # <<>>
        /\ BlockSize \in Nat \ {0}
    BY NgramAssumption DEF PoolOK, RequestsOK
  <2>2. QED
    BY <2>1
<1>2. HitLength(text) = Max(T)
  BY DEF HitLength
<1>3. top \in Nat /\ top * BlockSize \in Nat /\ top * BlockSize < Len(text)
  <2>1. Len(text) - 1 \in Nat
    BY <1>1
  <2> DEFINE x == Len(text) - 1
  <2>2. /\ x \div BlockSize \in Nat
        /\ x % BlockSize \in 0 .. BlockSize - 1
        /\ x = (x \div BlockSize) * BlockSize + (x % BlockSize)
    <3> HIDE DEF x
    <3>1. x \in Nat
      BY <2>1 DEF x
    <3>2. QED
      BY <1>1, <3>1, DivModOf
  <2>3. top = x \div BlockSize /\ x < Len(text) /\ x \in Nat
    BY <1>1, <2>1
  <2> HIDE DEF x, top, text
  <2>4. top * BlockSize \in Nat
    BY <1>1, <2>2, <2>3
  <2>5. QED
    BY <1>1, <2>2, <2>3, <2>4
<1> HIDE DEF top, hit
<1>4. T \in SUBSET Nat /\ 0 \in T /\ \A y \in T : y <= top
  <2>1. hit(0)
    BY DEF hit
  <2>2. QED
    BY <1>3, <2>1
<1>5. PICK n \in T : \A y \in T : y <= n
  <2>1. T # {}
    BY <1>4
  <2> HIDE DEF T
  <2>2. QED
    BY <1>3, <1>4, <2>1, Greatest
<1>6. Max(T) = n
  <2>1. \A x \in T : (\A y \in T : x >= y) => x = n
    BY <1>4, <1>5
  <2>2. n \in T /\ \A y \in T : n >= y
    BY <1>4, <1>5
  <2> HIDE DEF T
  <2>3. QED
    BY <2>1, <2>2 DEF Max
<1>7. n \in Nat /\ n <= top /\ hit(n)
  BY <1>3, <1>4
<1> HIDE DEF T, text
<1>8. n * BlockSize \in Nat /\ n * BlockSize <= top * BlockSize
  BY <1>1, <1>3, <1>7
<1>9. n * BlockSize < Len(text)
  BY <1>1, <1>3, <1>8
<1>10. QED
  BY <1>2, <1>6, <1>7, <1>8, <1>9 DEF hit, text

\* The beginning of a text.
LEMMA Beginning ==
  ASSUME NEW text \in Seq(Tokens), NEW k \in 0 .. Len(text)
  PROVE  /\ SubSeq(text, 1, k) \in Seq(Tokens)
         /\ SubSeq(text, 1, k) # None
         /\ Len(SubSeq(text, 1, k)) = k
         /\ \A i \in 1 .. k : SubSeq(text, 1, k)[i] = text[i]
<1>1. SubSeq(text, 1, k) \in Seq(Tokens) /\ Len(SubSeq(text, 1, k)) = k
  OBVIOUS
<1>2. \A i \in 1 .. k : SubSeq(text, 1, k)[i] = text[i]
  OBVIOUS
<1>3. QED
  BY <1>1, <1>2, NoneAssumption

\* Where blocks begin and end.
LEMMA BlockEnds ==
  ASSUME NEW n \in Nat, NEW i \in 1 .. n
  PROVE  /\ i * BlockSize \in Nat \ {0} /\ (i - 1) * BlockSize \in Nat
         /\ i * BlockSize = (i - 1) * BlockSize + BlockSize
         /\ i * BlockSize <= n * BlockSize
         /\ \A j \in 1 .. n : i * BlockSize = j * BlockSize => i = j
<1>1. BlockSize \in Nat \ {0} /\ i \in Nat \ {0} /\ i <= n
  BY NgramAssumption
<1>2. i * BlockSize \in Nat /\ (i - 1) * BlockSize \in Nat
  BY <1>1
<1>3. i * BlockSize = (i - 1) * BlockSize + BlockSize
  BY <1>1
<1>4. i * BlockSize <= n * BlockSize
  BY <1>1
<1>5. ASSUME NEW j \in 1 .. n, i * BlockSize = j * BlockSize PROVE i = j
  BY <1>1, <1>5
<1>6. QED
  BY <1>1, <1>2, <1>3, <1>4, <1>5

\* A request resumes on the n blocks own, all of them cached for its text.
Resumes(r, n, own) ==
  /\ computed' = [computed EXCEPT ![r] = n * BlockSize]
  /\ blocks' = [blocks EXCEPT ![r] = own]
  /\ n * BlockSize \in Nat /\ n * BlockSize < Len(tokens[r])
  /\ Len(own) = n /\ DOMAIN own = 1 .. n
  /\ \A i \in 1 .. n :
       /\ own[i] \in AllBlocks
       /\ prefix[own[i]] # None
       /\ Len(prefix[own[i]]) = i * BlockSize
       /\ i * BlockSize \in 0 .. Len(tokens[r])
       /\ \A k \in 1 .. i * BlockSize : prefix[own[i]][k] = tokens[r][k]
  /\ \A i, j \in 1 .. n : own[i] = own[j] => i = j

\* What a hit gives the request.
LEMMA HitGives ==
  ASSUME Base, NEW r \in Requests, Hit(r)
  PROVE  \E n \in Nat \ {0} : \E own \in Seq(0 .. NumBlocks - 1) : Resumes(r, n, own)
<1> DEFINE text == tokens[r]
           n == HitLength(text)
           of(i) == CHOOSE b \in AllBlocks : prefix[b] = SubSeq(text, 1, i * BlockSize)
           own == [i \in 1 .. n |-> of(i)]
<1>1. /\ n \in Nat
      /\ n * BlockSize \in Nat /\ n * BlockSize < Len(text)
      /\ \A i \in 1 .. n : \E b \in AllBlocks : prefix[b] = SubSeq(text, 1, i * BlockSize)
  BY HitIs DEF Base
<1>2. n > 0 /\ computed' = [computed EXCEPT ![r] = n * BlockSize] /\ blocks' = [blocks EXCEPT ![r] = own]
  BY DEF Hit
<1>3. text \in Seq(Tokens)
  BY DEF Base, TypeOK
<1>4. \A i \in 1 .. n : of(i) \in AllBlocks /\ prefix[of(i)] = SubSeq(text, 1, i * BlockSize)
  BY <1>1
<1> HIDE DEF text, n, of
<1>5. DOMAIN own = 1 .. n /\ \A i \in 1 .. n : own[i] = of(i)
  OBVIOUS
<1>6. \A i \in 1 .. n : i * BlockSize \in 0 .. Len(text)
  <2> TAKE i \in 1 .. n
  <2>1. i * BlockSize \in Nat /\ i * BlockSize <= n * BlockSize
    BY <1>1, BlockEnds
  <2>2. Len(text) \in Nat
    BY <1>3
  <2>3. QED
    BY <1>1, <2>1, <2>2
<1>7. \A i \in 1 .. n :
        /\ own[i] \in AllBlocks
        /\ prefix[own[i]] = SubSeq(text, 1, i * BlockSize)
        /\ prefix[own[i]] # None
        /\ Len(prefix[own[i]]) = i * BlockSize
        /\ \A k \in 1 .. i * BlockSize : prefix[own[i]][k] = text[k]
  <2> TAKE i \in 1 .. n
  <2> DEFINE e == i * BlockSize
  <2>1. e \in 0 .. Len(text)
    BY <1>6
  <2> HIDE DEF e
  <2>2. /\ SubSeq(text, 1, e) # None
        /\ Len(SubSeq(text, 1, e)) = e
        /\ \A k \in 1 .. e : SubSeq(text, 1, e)[k] = text[k]
    BY <1>3, <2>1, Beginning
  <2>3. own[i] \in AllBlocks /\ prefix[own[i]] = SubSeq(text, 1, e)
    BY <1>4, <1>5 DEF e
  <2>4. QED
    BY <2>2, <2>3 DEF e
<1>8. \A i \in 1 .. n : own[i] \in 0 .. NumBlocks - 1
  BY <1>7 DEF Base, PoolOK
<1>9. \A i, j \in 1 .. n : own[i] = own[j] => i = j
  <2> TAKE i, j \in 1 .. n
  <2>1. HAVE own[i] = own[j]
  <2>2. i * BlockSize = j * BlockSize
    BY <1>7, <2>1
  <2>3. QED
    BY <1>1, <2>2, BlockEnds
<1>10. own \in Seq(0 .. NumBlocks - 1) /\ Len(own) = n
  <2> DEFINE W == 0 .. NumBlocks - 1
  <2>1. own \in [1 .. n -> W]
    BY <1>5, <1>8
  <2> HIDE DEF W, own
  <2>2. own \in Seq(W) /\ Len(own) = n
    BY <1>1, <1>5, <2>1
  <2>3. QED
    BY <2>2 DEF W
<1>11. n \in Nat \ {0}
  BY <1>1, <1>2
<1> HIDE DEF own
<1>12. QED
  <2>1. Resumes(r, n, own)
    BY <1>1, <1>2, <1>5, <1>6, <1>7, <1>9, <1>10 DEF text, Resumes
  <2>2. QED
    BY <1>10, <1>11, <2>1

LEMMA HitBase ==
  ASSUME Base, NEW r \in Requests, Hit(r)
  PROVE  Base'
<1>0. PICK n \in Nat \ {0} : \E own \in Seq(0 .. NumBlocks - 1) : Resumes(r, n, own)
  BY HitGives
<1>9. PICK own \in Seq(0 .. NumBlocks - 1) : Resumes(r, n, own)
  BY <1>0
<1>1. /\ computed' = [computed EXCEPT ![r] = n * BlockSize]
      /\ blocks' = [blocks EXCEPT ![r] = own]
      /\ n * BlockSize \in Nat /\ n * BlockSize < Len(tokens[r])
      /\ Len(own) = n /\ DOMAIN own = 1 .. n
      /\ \A i \in 1 .. n : own[i] \in AllBlocks
      /\ \A i, j \in 1 .. n : own[i] = own[j] => i = j
  BY <1>9 DEF Resumes
<1>2. /\ tokens' = tokens /\ prefix' = prefix /\ batch' = batch
      /\ UNCHANGED <<runner, pc, bound, cache, cache_ref>>
      /\ bound = Len(Pools) /\ ~Scheduled(r) /\ pc = "schedule"
  BY DEF Hit, Serving, Waiting
<1>3. RequestsOK'
  <2>1. /\ tokens[r] \in Seq(Tokens) /\ Len(Prompt[r]) <= Len(tokens[r])
        /\ Len(tokens[r]) \in Nat
        /\ tokens' = [tokens EXCEPT ![r] = tokens[r]]
    BY <1>2 DEF Base, PoolOK, RequestsOK
  <2> DEFINE done == n * BlockSize
             text == tokens[r]
  <2>2. /\ done \in Nat /\ done <= Len(text) /\ done <= Len(own) * BlockSize
        /\ own # <<>>
    BY <1>1, <2>1
  <2>3. text \in Seq(Tokens) /\ Len(Prompt[r]) <= Len(text) /\ tokens' = [tokens EXCEPT ![r] = text]
    BY <2>1
  <2>4. computed' = [computed EXCEPT ![r] = done]
    BY <1>1
  <2> HIDE DEF done, text
  <2>5. bound' = bound /\ bound = Len(Pools) /\ \A i \in DOMAIN own : own[i] \in AllBlocks
    BY <1>1, <1>2
  <2>6. \A i, j \in DOMAIN own : own[i] = own[j] => i = j
    BY <1>1
  <2>7. QED
    BY <1>1, <2>2, <2>3, <2>4, <2>5, <2>6, RequestChanges
<1>4. PoolOK'
  <2>1. NumBlocks' = NumBlocks /\ V2' = V2
    BY <1>2 DEF NumBlocks, V2
  <2>2. QED
    BY <1>2, <1>3, <2>1 DEF Base, PoolOK
<1>5. BatchOK'
  <2>1. \A row \in DOMAIN batch :
           /\ tokens'[batch[row].req] = tokens[batch[row].req]
           /\ computed'[batch[row].req] = computed[batch[row].req]
           /\ blocks'[batch[row].req] = blocks[batch[row].req]
    <3> TAKE row \in DOMAIN batch
    <3>1. batch[row].req \in Requests /\ batch[row].req # r
      BY <1>2, TextOf DEF Base, Scheduled
    <3>2. QED
      BY <1>1, <1>2, <3>1 DEF Base, PoolOK, RequestsOK
  <2>2. QED
    BY <1>2, <2>1, BatchKept DEF Base
<1>6. TypeOK'
  BY <1>2, <1>3, TypesKept DEF Base
<1>7. QED
  BY <1>4, <1>5, <1>6 DEF Base

LEMMA PreemptBase ==
  ASSUME Base, NEW r \in Requests, Preempt(r)
  PROVE  Base'
<1>1. /\ computed' = [computed EXCEPT ![r] = 0]
      /\ blocks' = [blocks EXCEPT ![r] = <<>>]
      /\ tokens' = tokens /\ prefix' = prefix /\ batch' = batch
      /\ UNCHANGED <<runner, pc, bound, cache, cache_ref>>
      /\ bound = Len(Pools) /\ ~Scheduled(r) /\ pc = "schedule"
  BY DEF Preempt, Serving
<1>2. RequestsOK'
  <2> DEFINE done == 0
             own == <<>>
             text == tokens[r]
  <2>1. /\ text \in Seq(Tokens) /\ Len(Prompt[r]) <= Len(text)
        /\ tokens' = [tokens EXCEPT ![r] = text]
    BY <1>1 DEF Base, PoolOK, RequestsOK
  <2>2. done <= Len(text) /\ done \in Nat /\ own \in Seq(0 .. NumBlocks - 1)
    BY <2>1
  <2>3. DOMAIN own = {} /\ own = <<>>
    OBVIOUS
  <2>4. computed' = [computed EXCEPT ![r] = done] /\ blocks' = [blocks EXCEPT ![r] = own]
    BY <1>1
  <2>5. done = 0
    OBVIOUS
  <2> HIDE DEF done, own, text
  <2>6. QED
    BY <1>1, <2>1, <2>2, <2>3, <2>4, <2>5, RequestChanges
<1>3. PoolOK'
  <2>1. NumBlocks' = NumBlocks /\ V2' = V2
    BY <1>1 DEF NumBlocks, V2
  <2>2. QED
    BY <1>1, <1>2, <2>1 DEF Base, PoolOK
<1>4. BatchOK'
  <2>1. \A row \in DOMAIN batch :
           /\ tokens'[batch[row].req] = tokens[batch[row].req]
           /\ computed'[batch[row].req] = computed[batch[row].req]
           /\ blocks'[batch[row].req] = blocks[batch[row].req]
    <3> TAKE row \in DOMAIN batch
    <3>1. batch[row].req \in Requests /\ batch[row].req # r
      BY <1>1, TextOf DEF Base, Scheduled
    <3>2. QED
      BY <1>1, <3>1 DEF Base, PoolOK, RequestsOK
  <2>2. QED
    BY <1>1, <2>1, BatchKept DEF Base
<1>5. TypeOK'
  BY <1>1, <1>2, TypesKept DEF Base
<1>6. QED
  BY <1>3, <1>4, <1>5 DEF Base

LEMMA AllocateBase ==
  ASSUME Base, NEW r \in Requests, NEW b \in AllBlocks, Allocate(r, b)
  PROVE  Base'
<1> DEFINE text == tokens[r]
           own == Append(blocks[r], b)
           end == Len(own) * BlockSize
<1>1. /\ b \in 0 .. NumBlocks - 1
      /\ \A q \in Requests : \A i \in DOMAIN blocks[q] : blocks[q][i] # b
      /\ blocks' = [blocks EXCEPT ![r] = own]
      /\ tokens' = tokens /\ batch' = batch
      /\ UNCHANGED <<runner, pc, bound, cache, cache_ref>>
      /\ bound = Len(Pools) /\ ~Scheduled(r) /\ pc = "schedule"
      /\ Len(text) < MaxLen
  BY DEF Allocate, Serving, FreeBlocks
<1>2. /\ text \in Seq(Tokens) /\ Len(text) \in Nat /\ Len(Prompt[r]) <= Len(text)
      /\ Len(Prompt[r]) \in Nat
      /\ blocks[r] \in Seq(0 .. NumBlocks - 1) /\ Len(blocks[r]) \in Nat
      /\ \A i \in DOMAIN blocks[r] : blocks[r][i] \in AllBlocks
      /\ \A i, j \in DOMAIN blocks[r] : blocks[r][i] = blocks[r][j] => i = j
      /\ computed[r] \in Nat /\ computed[r] <= Len(text)
      /\ blocks[r] # <<>> => computed[r] <= Len(blocks[r]) * BlockSize
      /\ blocks[r] = <<>> => computed[r] = 0
      /\ BlockSize \in Nat
      /\ computed \in [Requests -> Nat]
      /\ blocks \in [Requests -> Seq(0 .. NumBlocks - 1)]
  <2>1. Prompt[r] \in Seq(Tokens) /\ BlockSize \in Nat
    BY NgramAssumption
  <2>2. RequestsOK
    BY DEF Base, PoolOK
  <2>3. QED
    BY <1>1, <2>1, <2>2 DEF RequestsOK, BlocksDiffer
<1>3. /\ own \in Seq(0 .. NumBlocks - 1) /\ own # <<>> /\ Len(own) = Len(blocks[r]) + 1
      /\ DOMAIN own = 1 .. Len(own)
      /\ \A i \in DOMAIN own : own[i] = IF i = Len(own) THEN b ELSE blocks[r][i]
      /\ \A i \in DOMAIN own : i # Len(own) => i \in DOMAIN blocks[r]
  <2> DEFINE W == 0 .. NumBlocks - 1
  <2>1. blocks[r] \in Seq(W) /\ b \in W
    BY <1>1, <1>2
  <2> DEFINE c == blocks[r]
             n == Len(c)
             app == Append(c, b)
  <2>2. c \in Seq(W) /\ n \in Nat
    BY <2>1
  <2> HIDE DEF W, c
  <2>3. /\ app \in Seq(W) /\ app # <<>> /\ Len(app) = n + 1
        /\ DOMAIN app = 1 .. n + 1 /\ DOMAIN c = 1 .. n
    BY <2>1, <2>2
  <2>4. \A i \in 1 .. n + 1 : app[i] = IF i = n + 1 THEN b ELSE c[i]
    BY <2>1, <2>2
  <2>5. \A i \in 1 .. n + 1 : i # n + 1 => i \in 1 .. n
    BY <2>2
  <2> HIDE DEF app, n
  <2>6. /\ app \in Seq(W) /\ app # <<>> /\ Len(app) = n + 1
        /\ DOMAIN app = 1 .. Len(app)
        /\ \A i \in DOMAIN app : app[i] = IF i = Len(app) THEN b ELSE c[i]
        /\ \A i \in DOMAIN app : i # Len(app) => i \in DOMAIN c
    BY <2>3, <2>4, <2>5
  <2>7. QED
    BY <2>6 DEF app, c, n, W
<1>4. blocks'[r] = own
  BY <1>1, <1>2
<1>5. \E done \in Nat : \E cached \in Seq(Tokens) \cup {None} :
        /\ computed' = [computed EXCEPT ![r] = done]
        /\ prefix' = [prefix EXCEPT ![b] = cached]
        /\ done <= Len(text) /\ done <= end
  <2>1. end \in Nat /\ Len(blocks[r]) * BlockSize \in Nat /\ Len(blocks[r]) * BlockSize <= end
    <3> HIDE DEF own
    <3>1. QED
      BY <1>2, <1>3
  <2>2. computed[r] <= end
    BY <1>2, <2>1
  <2>3. CASE prefix' = [prefix EXCEPT ![b] = None] /\ UNCHANGED computed
    <3>1. computed' = [computed EXCEPT ![r] = computed[r]]
      BY <1>2, <2>3
    <3>2. QED
      BY <1>2, <2>2, <2>3, <3>1
  <2>4. CASE /\ end < Len(Prompt[r])
             /\ computed' = [computed EXCEPT ![r] = end]
             /\ prefix' = [[prefix EXCEPT ![b] = None] EXCEPT ![b] = SubSeq(tokens[r], 1, end)]
    <3>1. end \in 0 .. Len(text)
      BY <1>2, <2>1, <2>4
    <3>5. end \in Nat /\ end <= Len(text)
      BY <1>2, <2>1, <3>1
    <3>7. computed' = [computed EXCEPT ![r] = end]
      BY <2>4
    <3> HIDE DEF end
    <3>2. SubSeq(tokens[r], 1, end) \in Seq(Tokens)
      BY <1>2, <3>1
    <3>3. prefix' = [prefix EXCEPT ![b] = SubSeq(tokens[r], 1, end)]
      BY <2>4 DEF Base, PoolOK
    <3> DEFINE cached == SubSeq(tokens[r], 1, end)
    <3>4. cached \in Seq(Tokens) \cup {None} /\ prefix' = [prefix EXCEPT ![b] = cached]
      BY <3>2, <3>3
    <3>8. end <= end
      BY <3>5
    <3> HIDE DEF cached, text
    <3>6. QED
      BY <3>4, <3>5, <3>7, <3>8
  <2>5. QED
    <3> HIDE DEF own
    <3>1. QED
      BY <1>4, <2>3, <2>4 DEF Allocate
<1>6. PICK done \in Nat : \E cached \in Seq(Tokens) \cup {None} :
        /\ computed' = [computed EXCEPT ![r] = done]
        /\ prefix' = [prefix EXCEPT ![b] = cached]
        /\ done <= Len(text) /\ done <= end
  BY <1>5
<1>7. PICK cached \in Seq(Tokens) \cup {None} :
        /\ computed' = [computed EXCEPT ![r] = done]
        /\ prefix' = [prefix EXCEPT ![b] = cached]
        /\ done <= Len(text) /\ done <= end
  BY <1>6
<1>8. RequestsOK'
  <2>1. /\ \A i \in DOMAIN own : own[i] \in AllBlocks
        /\ \A i, j \in DOMAIN own : own[i] = own[j] => i = j
    <3> HIDE DEF own
    <3>1. QED
      BY <1>1, <1>2, <1>3
  <2>2. tokens' = [tokens EXCEPT ![r] = text]
    BY <1>1 DEF Base, TypeOK
  <2>3. bound' = bound /\ bound = Len(Pools) /\ done <= Len(own) * BlockSize /\ done <= Len(text)
    BY <1>1, <1>7
  <2>4. computed' = [computed EXCEPT ![r] = done] /\ blocks' = [blocks EXCEPT ![r] = own]
    BY <1>1, <1>7
  <2>5. own \in Seq(0 .. NumBlocks - 1) /\ own # <<>>
    BY <1>3
  <2>6. text \in Seq(Tokens) /\ Len(Prompt[r]) <= Len(text)
    BY <1>2
  <2> HIDE DEF own, text
  <2>7. QED
    BY <2>1, <2>2, <2>3, <2>4, <2>5, <2>6, RequestChanges
<1>9. PoolOK'
  <2>1. NumBlocks' = NumBlocks /\ V2' = V2
    BY <1>1 DEF NumBlocks, V2
  <2>2. /\ prefix' \in [AllBlocks -> Seq(Tokens) \cup {None}]
        /\ \A c \in AllBlocks : prefix'[c] # None => c \in 0 .. NumBlocks - 1
    BY <1>1, <1>7 DEF Base, PoolOK
  <2>3. QED
    BY <1>1, <1>8, <2>1, <2>2 DEF Base, PoolOK
<1>10. BatchOK'
  <2>1. \A row \in DOMAIN batch :
           /\ tokens'[batch[row].req] = tokens[batch[row].req]
           /\ computed'[batch[row].req] = computed[batch[row].req]
           /\ blocks'[batch[row].req] = blocks[batch[row].req]
    <3> TAKE row \in DOMAIN batch
    <3>1. batch[row].req \in Requests /\ batch[row].req # r
      BY <1>1, TextOf DEF Base, Scheduled
    <3>2. QED
      BY <1>1, <1>2, <1>7, <3>1
  <2>2. QED
    BY <1>1, <2>1, BatchKept DEF Base
<1>11. TypeOK'
  BY <1>1, <1>8, TypesKept DEF Base
<1>12. QED
  BY <1>9, <1>10, <1>11 DEF Base

\* The row a scheduled chunk joins the batch as: n tokens of the text and drafts.
Joins(r, n, ids) ==
  /\ computed[r] \in Nat /\ n \in Nat \ {0}
  /\ tokens[r] \in Seq(Tokens) /\ computed[r] + n <= Len(tokens[r])
  /\ ids \in Seq(Tokens) /\ Len(ids) \in Nat \ {0} /\ n <= Len(ids)
  /\ \A o \in 1 .. n : ids[o] = tokens[r][computed[r] + o]
  /\ \A o \in 1 .. Len(ids) : computed[r] + o <= Len(tokens[r]) => o <= n
  /\ blocks[r] \in Seq(0 .. NumBlocks - 1) /\ Len(blocks[r]) * BlockSize \in Nat
  /\ DOMAIN blocks[r] = 1 .. Len(blocks[r]) /\ Len(blocks[r]) \in Nat
  /\ computed[r] + Len(ids) <= Len(blocks[r]) * BlockSize
  /\ batch' = Append(batch, [req |-> r, start |-> computed[r], ids |-> ids])
  /\ Len(batch) \in Nat
  /\ DOMAIN batch = 1 .. Len(batch) /\ DOMAIN batch' = 1 .. Len(batch) + 1
  /\ \A row \in DOMAIN batch : batch'[row] = batch[row] /\ batch[row].req # r
  /\ batch'[Len(batch) + 1] = [req |-> r, start |-> computed[r], ids |-> ids]

\* The blocks the text fills are cached for it, the others as before.
Caches(r, n) ==
  /\ \A i \in DOMAIN blocks[r] : i * BlockSize <= computed[r] + n =>
       LET text == prefix'[blocks[r][i]] IN
       /\ text \in Seq(Tokens) /\ text # None /\ Len(text) = i * BlockSize
       /\ \A k \in 1 .. i * BlockSize : text[k] = tokens[r][k]
  /\ \A b \in AllBlocks :
       (\A i \in DOMAIN blocks[r] : i * BlockSize <= computed[r] + n => blocks[r][i] # b) =>
         prefix'[b] = prefix[b]

LEMMA ScheduleGives ==
  ASSUME Base, NEW r \in Requests, NEW n \in 1 .. MaxLen, NEW drafts \in Drafts,
         Schedule(r, n, drafts)
  PROVE  Caches(r, n) /\ \E ids : Joins(r, n, ids)
<1> DEFINE start == computed[r]
           end == start + n
           whole == tokens[r]
           chunk == SubSeq(whole, start + 1, end)
           ids == chunk \o drafts
           own == blocks[r]
<1>1. /\ end <= Len(whole)
      /\ drafts # <<>> => end = Len(whole)
      /\ end + Len(drafts) <= Len(own) * BlockSize
      /\ ~Scheduled(r)
      /\ batch' = Append(batch, [req |-> r, start |-> start, ids |-> ids])
      /\ prefix' = [b \in AllBlocks |->
           IF \E i \in DOMAIN own : own[i] = b /\ i * BlockSize <= end
           THEN SubSeq(SubSeq(whole, 1, end), 1,
                       (CHOOSE i \in DOMAIN own : own[i] = b) * BlockSize)
           ELSE prefix[b]]
  BY DEF Schedule
<1>2. /\ whole \in Seq(Tokens) /\ start \in Nat /\ start <= Len(whole)
      /\ own \in Seq(0 .. NumBlocks - 1)
      /\ \A i \in DOMAIN own : own[i] \in AllBlocks
      /\ \A i, j \in DOMAIN own : own[i] = own[j] => i = j
  BY DEF Base, PoolOK, RequestsOK, BlocksDiffer
<1>3. n \in Nat \ {0} /\ drafts \in Seq(Tokens) /\ BlockSize \in Nat \ {0}
  BY NgramAssumption
<1>7. Len(whole) \in Nat /\ end \in Nat /\ end <= Len(whole) /\ end \in 0 .. Len(whole)
  <2>1. end <= Len(whole)
    BY <1>1
  <2> HIDE DEF start, whole
  <2>2. Len(whole) \in Nat /\ end \in Nat
    BY <1>2, <1>3
  <2>3. QED
    BY <2>1, <2>2
<1>4. Joins(r, n, ids)
  <2> HIDE DEF start, whole, own
  <2>1. /\ chunk \in Seq(Tokens) /\ Len(chunk) = n
        /\ \A o \in 1 .. n : chunk[o] = whole[start + o]
    <3>1. start + 1 \in 1 .. Len(whole) /\ end \in 1 .. Len(whole) /\ start + 1 <= end
      BY <1>2, <1>3, <1>7
    <3>2. /\ chunk \in Seq(Tokens) /\ Len(chunk) = end - (start + 1) + 1
          /\ \A o \in 1 .. end - (start + 1) + 1 : chunk[o] = whole[(start + 1) + o - 1]
      BY <1>2, <3>1, Slice
    <3>3. end - (start + 1) + 1 = n
      BY <1>2, <1>3
    <3>4. \A o \in 1 .. n : chunk[o] = whole[(start + 1) + o - 1]
      BY <3>2, <3>3
    <3>5. Len(chunk) = n
      BY <3>2, <3>3
    <3>6. \A o \in 1 .. n : (start + 1) + o - 1 = start + o
      BY <1>2, <1>3
    <3> HIDE DEF chunk
    <3>7. QED
      BY <3>2, <3>4, <3>5, <3>6
  <2> HIDE DEF chunk
  <2>2. /\ ids \in Seq(Tokens) /\ Len(ids) = n + Len(drafts)
        /\ \A o \in 1 .. n : ids[o] = chunk[o]
    BY <1>3, <2>1
  <2>3. Len(drafts) \in Nat /\ (drafts = <<>> => Len(drafts) = 0)
    BY <1>3
  <2> HIDE DEF ids
  <2>4. Len(ids) \in Nat \ {0} /\ n <= Len(ids)
    BY <1>3, <2>2, <2>3
  <2>5. \A o \in 1 .. Len(ids) : start + o <= Len(whole) => o <= n
    <3> TAKE o \in 1 .. Len(ids)
    <3>1. HAVE start + o <= Len(whole)
    <3>2. CASE drafts = <<>>
      BY <1>3, <2>2, <2>3, <3>2
    <3>3. CASE drafts # <<>>
      BY <1>1, <1>2, <1>3, <2>4, <3>1, <3>3
    <3>4. QED
      BY <3>2, <3>3
  <2>6. Len(own) \in Nat /\ DOMAIN own = 1 .. Len(own) /\ Len(own) * BlockSize \in Nat
    BY <1>2, <1>3
  <2>7. start + Len(ids) <= Len(own) * BlockSize
    BY <1>1, <1>2, <1>3, <2>2, <2>3, <2>6
  <2> DEFINE new == [req |-> r, start |-> start, ids |-> ids]
  <2>8. batch \in Seq(Row)
    BY DEF Base, BatchOK
  <2>9. /\ Len(batch) \in Nat
        /\ DOMAIN batch = 1 .. Len(batch) /\ DOMAIN batch' = 1 .. Len(batch) + 1
        /\ \A row \in DOMAIN batch : batch'[row] = batch[row]
        /\ batch'[Len(batch) + 1] = new
    <3> HIDE DEF new
    <3>1. batch' = Append(batch, new)
      BY <1>1 DEF new
    <3>2. QED
      BY <2>8, <3>1
  <2>10. \A row \in DOMAIN batch : batch[row].req # r
    BY <1>1 DEF Scheduled
  <2>11. QED
    BY <1>1, <1>2, <1>3, <2>1, <2>2, <2>4, <2>5, <2>6, <2>7, <2>9, <2>10
       DEF Joins, start, whole, own
<1>5. Caches(r, n)
  <2>1. ASSUME NEW i \in DOMAIN own, i * BlockSize <= end
        PROVE  LET text == prefix'[own[i]] IN
               /\ text \in Seq(Tokens) /\ text # None /\ Len(text) = i * BlockSize
               /\ \A k \in 1 .. i * BlockSize : text[k] = whole[k]
    <3> DEFINE b == own[i]
               e == i * BlockSize
               known == SubSeq(whole, 1, end)
    <3>1. b \in AllBlocks /\ (CHOOSE j \in DOMAIN own : own[j] = b) = i
      BY <1>2
    <3>2. prefix'[b] = SubSeq(known, 1, e)
      BY <1>1, <2>1, <3>1
    <3>3. e \in Nat /\ e <= end /\ end \in 0 .. Len(whole)
      <4>1. i \in Nat
        BY <1>2
      <4>2. e \in Nat
        BY <1>3, <4>1
      <4>3. QED
        BY <1>7, <2>1, <4>2
    <3> HIDE DEF b, e, end, whole
    <3>4. /\ known \in Seq(Tokens) /\ Len(known) = end
          /\ \A k \in 1 .. end : known[k] = whole[k]
      BY <1>2, <3>3, Beginning
    <3> HIDE DEF known
    <3>5. e \in 0 .. Len(known)
      BY <3>3, <3>4
    <3>6. /\ SubSeq(known, 1, e) \in Seq(Tokens) /\ SubSeq(known, 1, e) # None
          /\ Len(SubSeq(known, 1, e)) = e
          /\ \A k \in 1 .. e : SubSeq(known, 1, e)[k] = known[k]
      BY <3>4, <3>5, Beginning
    <3>7. \A k \in 1 .. e : k \in 1 .. end
      BY <3>3
    <3>8. QED
      BY <3>2, <3>4, <3>6, <3>7 DEF b, e
  <2>2. ASSUME NEW b \in AllBlocks,
               \A i \in DOMAIN own : i * BlockSize <= end => own[i] # b
        PROVE  prefix'[b] = prefix[b]
    BY <1>1, <2>2
  <2> HIDE DEF end, own, whole
  <2>3. QED
    BY <2>1, <2>2 DEF Caches, end, own, whole, start
<1>6. QED
  BY <1>4, <1>5

LEMMA ScheduleBase ==
  ASSUME Base, NEW r \in Requests, NEW n \in 1 .. MaxLen, NEW drafts \in Drafts,
         Schedule(r, n, drafts)
  PROVE  Base'
<1>1. PICK ids : Joins(r, n, ids)
  BY ScheduleGives
<1>2. Caches(r, n)
  BY ScheduleGives
<1>3. /\ bound = Len(Pools) /\ pc = "schedule"
      /\ UNCHANGED <<runner, pc, bound, cache, cache_ref, tokens, computed, blocks>>
      /\ prefix' = [b \in AllBlocks |-> prefix'[b]]
  BY DEF Schedule, Serving
<1>4. NumBlocks' = NumBlocks /\ V2' = V2
  BY <1>3 DEF NumBlocks, V2
<1>5. RequestsOK'
  BY <1>3, <1>4 DEF Base, PoolOK, RequestsOK, BlocksDiffer
<1>6. PoolOK'
  <2>1. ASSUME NEW b \in AllBlocks
        PROVE  /\ prefix'[b] \in Seq(Tokens) \cup {None}
               /\ prefix'[b] # None => b \in 0 .. NumBlocks - 1
    <3>1. CASE \A i \in DOMAIN blocks[r] : i * BlockSize <= computed[r] + n => blocks[r][i] # b
      BY <1>2, <3>1 DEF Caches, Base, PoolOK
    <3>2. CASE \E i \in DOMAIN blocks[r] : i * BlockSize <= computed[r] + n /\ blocks[r][i] = b
      <4>1. PICK i \in DOMAIN blocks[r] : i * BlockSize <= computed[r] + n /\ blocks[r][i] = b
        BY <3>2
      <4>2. prefix'[b] \in Seq(Tokens)
        BY <1>2, <4>1 DEF Caches
      <4> DEFINE W == 0 .. NumBlocks - 1
      <4>3. blocks[r] \in Seq(W)
        BY <1>1 DEF Joins
      <4> HIDE DEF W
      <4>4. b \in W
        BY <4>1, <4>3
      <4>5. QED
        BY <4>2, <4>4 DEF W
    <3>3. QED
      BY <3>1, <3>2
  <2>2. prefix' \in [AllBlocks -> Seq(Tokens) \cup {None}]
    BY <1>3, <2>1
  <2>3. QED
    BY <1>3, <1>4, <1>5, <2>1, <2>2 DEF Base, PoolOK
<1>7. BatchOK'
  <2> DEFINE new == [req |-> r, start |-> computed[r], ids |-> ids]
             last == Len(batch) + 1
  <2>1. /\ batch \in Seq(Row) /\ batch' = Append(batch, new)
        /\ DOMAIN batch = 1 .. Len(batch) /\ DOMAIN batch' = 1 .. last
        /\ Len(batch) \in Nat
        /\ \A row \in DOMAIN batch : batch'[row] = batch[row] /\ batch[row].req # r
        /\ batch'[last] = new
    BY <1>1 DEF Base, BatchOK, Joins
  <2>2. new \in Row
    BY <1>1 DEF Joins, Row
  <2>3. new.req = r /\ new.start = computed[r] /\ new.ids = ids
    OBVIOUS
  <2> HIDE DEF new
  <2>4. batch' \in Seq(Row)
    BY <2>1, <2>2
  <2>5. \A row \in DOMAIN batch' : row \in DOMAIN batch \/ row = last
    BY <2>1
  <2> HIDE DEF last
  <2>6. \A row, other \in DOMAIN batch' : batch'[row].req = batch'[other].req => row = other
    <3>1. \A row, other \in DOMAIN batch : batch[row].req = batch[other].req => row = other
      BY DEF Base, BatchOK
    <3>2. QED
      BY <2>1, <2>3, <2>5, <3>1
  <2>7. ASSUME NEW row \in DOMAIN batch' PROVE RowOK(row)'
    <3>1. CASE row \in DOMAIN batch
      <4>1. RowOK(row)
        BY <3>1 DEF Base, BatchOK
      <4>2. batch'[row] = batch[row]
        BY <2>1, <3>1
      <4>3. QED
        BY <1>3, <4>1, <4>2 DEF RowOK
    <3>2. CASE row = last
      <4>1. batch'[row] = new
        BY <2>1, <3>2
      <4>2. /\ ids # <<>> /\ computed[r] < Len(tokens[r])
            /\ computed[r] + Len(ids) <= Len(blocks[r]) * BlockSize
        BY <1>1 DEF Joins
      <4>3. \A o \in 1 .. Len(ids) :
              computed[r] + o <= Len(tokens[r]) => ids[o] = tokens[r][computed[r] + o]
        BY <1>1 DEF Joins
      <4>4. QED
        BY <1>3, <2>3, <4>1, <4>2, <4>3 DEF RowOK
    <3>3. QED
      BY <2>5, <3>1, <3>2
  <2>8. QED
    BY <1>3, <2>4, <2>6, <2>7 DEF Base, BatchOK
<1>8. TypeOK'
  BY <1>3, <1>5, TypesKept DEF Base
<1>9. QED
  BY <1>6, <1>7, <1>8 DEF Base

LEMMA RunStepBase ==
  ASSUME Base, RunStep
  PROVE  /\ Base'
         /\ bound # 0 /\ pc = "schedule" /\ NumBlocks' = NumBlocks /\ V2' = V2
         /\ ~V2 => cache' = Written(EnsureCache[1])
<1>1. /\ bound = Len(Pools) /\ pc = "schedule" /\ batch # <<>>
      /\ cache' = IF V2 THEN None ELSE Written(EnsureCache[1])
      /\ cache_ref' = EnsureCache[2]
      /\ pc' = "sample"
      /\ UNCHANGED <<runner, bound, tokens, computed, blocks, prefix, batch>>
  BY DEF RunStep, Serving
<1>2. bound \in Nat \ {0}
  BY <1>1, NgramAssumption
<1>3. NumBlocks' = NumBlocks /\ V2' = V2
  BY <1>1 DEF NumBlocks, V2
<1>4. /\ NumBlocks # 0 /\ NumBlocks = Pools[bound]
      /\ ~V2 => EnsureCache[2] = bound /\ None \notin [SlotsOf(NumBlocks) -> Ids]
  BY <1>2, EnsureIs DEF Base
<1>5. /\ cache_ref' \in 0 .. bound
      /\ cache' = None \/ cache' \in [SlotsOf(Pools[cache_ref']) -> Ids]
      /\ V2 => cache' = None
      /\ cache' = None => cache_ref' = 0
      /\ V2 \/ cache_ref' = bound
  <2>1. CASE V2
    <3>1. EnsureCache = <<cache, cache_ref>>
      BY <1>4, <2>1 DEF EnsureCache
    <3>2. QED
      BY <1>1, <2>1, <3>1 DEF Base, PoolOK, TypeOK
  <2>2. CASE ~V2
    <3>1. Written(EnsureCache[1]) \in [SlotsOf(NumBlocks) -> Ids]
      BY <1>2, <2>2, WrittenTyped DEF Base
    <3>2. QED
      BY <1>1, <1>2, <1>4, <2>2, <3>1
  <2>3. QED
    BY <2>1, <2>2
<1>6. RequestsOK'
  BY <1>1, <1>3 DEF Base, PoolOK, RequestsOK, BlocksDiffer
<1>7. PoolOK'
  BY <1>1, <1>3, <1>5, <1>6 DEF Base, PoolOK
<1>8. BatchOK'
  BY <1>1, BatchKept DEF Base
<1>9. TypeOK'
  <2>1. (RequestsOK => /\ tokens \in [Requests -> Seq(Tokens)]
                       /\ \A r \in Requests :
                            /\ computed[r] < Len(tokens[r]) + 1
                            /\ blocks[r] \in Seq(0 .. NumBlocks - 1)
                            /\ blocks[r] # <<>> => computed[r] <= Len(blocks[r]) * BlockSize)'
    BY RequestTypes, PTL
  <2>2. bound' \in 0 .. Len(Pools)
    BY <1>1 DEF Base, TypeOK
  <2>3. QED
    BY <1>1, <1>3, <1>5, <1>6, <2>1, <2>2 DEF TypeOK
<1>10. QED
  BY <1>1, <1>2, <1>3, <1>7, <1>8, <1>9 DEF Base

\* Two texts one after the other.
LEMMA TwoTexts ==
  ASSUME NEW one \in Seq(Tokens), NEW two \in Seq(Tokens)
  PROVE  /\ one \o two \in Seq(Tokens)
         /\ Len(one) \in Nat /\ Len(two) \in Nat
         /\ Len(one \o two) = Len(one) + Len(two)
         /\ \A k \in 1 .. Len(one) : (one \o two)[k] = one[k]
         /\ \A k \in 1 .. Len(two) : (one \o two)[Len(one) + k] = two[k]
<1>1. one \o two \in Seq(Tokens) /\ Len(one \o two) = Len(one) + Len(two)
  OBVIOUS
<1>2. \A k \in 1 .. Len(one) : (one \o two)[k] = one[k]
  OBVIOUS
<1>3. \A k \in 1 .. Len(two) : (one \o two)[Len(one) + k] = two[k]
  OBVIOUS
<1>4. QED
  BY <1>1, <1>2, <1>3

\* A row's outcome: the request's text goes on with the row's tokens, as far as they are
\* computed; the request keeps its blocks or has ended.
Outcome(text, done, own) ==
  LET r == batch[1].req
      start == batch[1].start
      ids == batch[1].ids
  IN  /\ tokens' = [tokens EXCEPT ![r] = text]
      /\ computed' = [computed EXCEPT ![r] = done]
      /\ blocks' = [blocks EXCEPT ![r] = own]
      /\ text \in Seq(Tokens) /\ Len(tokens[r]) <= Len(text)
      /\ \A k \in 1 .. Len(tokens[r]) : text[k] = tokens[r][k]
      /\ done \in Nat /\ start <= done /\ done <= start + Len(ids) /\ done <= Len(text)
      /\ \A o \in 1 .. done - start : text[start + o] = ids[o]
      /\ \A x \in Nat : x <= Len(tokens[r]) /\ x <= start + Len(ids) => x <= done
      /\ own = blocks[r] \/ (own = <<>> /\ ~ (Len(text) < MaxLen))

LEMMA SampleGives ==
  ASSUME Base, NEW accepted \in 0 .. MaxLen, NEW token \in Generated, Sample(accepted, token)
  PROVE  1 \in DOMAIN batch /\ \E text, done, own : Outcome(text, done, own)
<1> DEFINE r == batch[1].req
           start == batch[1].start
           ids == batch[1].ids
           before == tokens[r]
           known == Len(before) - start
           drafts == SubSeq(ids, known + 1, Len(ids))
<1>1. 1 \in DOMAIN batch /\ Head(batch) = batch[1]
  BY DEF Base, BatchOK, Sample
<1>2. /\ r \in Requests /\ start \in Nat /\ start < Len(before)
      /\ ids \in Seq(Tokens) /\ Len(ids) \in Nat \ {0}
      /\ before \in Seq(Tokens)
  BY <1>1, TextOf DEF Base
<1>3. /\ start = computed[r]
      /\ \A k \in 1 .. Len(ids) : start + k <= Len(before) => ids[k] = before[start + k]
  BY <1>1, RowHasBlocks DEF Base
<1>4. /\ tokens \in [Requests -> Seq(Tokens)] /\ computed \in [Requests -> Nat]
      /\ blocks \in [Requests -> Seq(0 .. NumBlocks - 1)]
  BY DEF Base, PoolOK, RequestsOK
<1>5. /\ Len(ids) < known =>
           /\ computed' = [computed EXCEPT ![r] = computed[r] + Len(ids)]
           /\ tokens' = tokens /\ blocks' = blocks
      /\ ~ (Len(ids) < known) =>
           /\ accepted <= Len(drafts)
           /\ computed' = [computed EXCEPT ![r] = computed[r] + known + accepted]
           /\ tokens' = [tokens EXCEPT ![r] = (before \o SubSeq(drafts, 1, accepted)) \o <<token>>]
           /\ blocks' = IF Len(tokens'[r]) < MaxLen THEN blocks ELSE [blocks EXCEPT ![r] = <<>>]
  BY <1>1 DEF Sample
<1> HIDE DEF ids, start, before
<1>6. Len(before) \in Nat /\ known \in Nat \ {0}
  BY <1>2
<1>7. CASE Len(ids) < known
  <2> DEFINE done == start + Len(ids)
             own == blocks[r]
  <2>1. /\ tokens' = [tokens EXCEPT ![r] = before] /\ computed' = [computed EXCEPT ![r] = done]
        /\ blocks' = [blocks EXCEPT ![r] = own]
    BY <1>2, <1>3, <1>4, <1>5, <1>7 DEF before
  <2>2. /\ done \in Nat /\ start <= done /\ done <= start + Len(ids) /\ done <= Len(before)
        /\ \A o \in 1 .. done - start : before[start + o] = ids[o]
    <3>1. done \in Nat /\ start <= done /\ done <= Len(before) /\ done - start = Len(ids)
      BY <1>2, <1>6, <1>7
    <3>2. \A o \in 1 .. Len(ids) : start + o <= Len(before)
      BY <1>2, <1>6, <1>7
    <3>3. \A o \in 1 .. Len(ids) : before[start + o] = ids[o]
      BY <1>3, <3>2
    <3> HIDE DEF done
    <3>4. QED
      BY <3>1, <3>3 DEF done
  <2> DEFINE text == before
  <2>5. /\ own = blocks[r] /\ Len(before) <= Len(text) /\ text \in Seq(Tokens)
        /\ \A k \in 1 .. Len(before) : text[k] = before[k]
        /\ \A x \in Nat : x <= start + Len(ids) => x <= done
    BY <1>2, <1>6
  <2>6. /\ tokens' = [tokens EXCEPT ![r] = text] /\ done <= Len(text)
        /\ \A o \in 1 .. done - start : text[start + o] = ids[o]
    BY <2>1, <2>2
  <2> HIDE DEF r, done, own, text
  <2>3. Outcome(text, done, own)
    BY <2>1, <2>2, <2>5, <2>6 DEF Outcome, before, start, ids, r
  <2>4. QED
    BY <1>1, <2>3
<1>8. CASE ~ (Len(ids) < known)
  <2> DEFINE some == SubSeq(drafts, 1, accepted)
             text == (before \o some) \o <<token>>
             done == Len(before) + accepted
             own == IF Len(text) < MaxLen THEN blocks[r] ELSE <<>>
  <2>1. known <= Len(ids) /\ accepted \in Nat /\ token \in Tokens
    BY <1>2, <1>6, <1>8, NgramAssumption
  <2>2. /\ drafts \in Seq(Tokens) /\ Len(drafts) = Len(ids) - known
        /\ \A k \in 1 .. Len(ids) - known : drafts[k] = ids[known + k]
    <3> HIDE DEF known
    <3>1. drafts \in Seq(Tokens)
      BY <1>2, <1>6, <2>1
    <3>2. Len(drafts) = Len(ids) - known
      BY <1>2, <1>6, <2>1
    <3>3. \A k \in 1 .. Len(ids) - known : drafts[k] = ids[known + k]
      <4> TAKE k \in 1 .. Len(ids) - known
      <4>1. drafts[k] = ids[(known + 1) + k - 1]
        BY <1>2, <1>6, <2>1, <3>2
      <4>2. (known + 1) + k - 1 = known + k
        BY <1>6
      <4>3. QED
        BY <4>1, <4>2
    <3>4. QED
      BY <3>1, <3>2, <3>3
  <2>3. accepted <= Len(drafts) /\ accepted \in 0 .. Len(drafts)
    BY <1>2, <1>5, <1>6, <1>8, <2>1, <2>2
  <2> HIDE DEF drafts
  <2>4. /\ some \in Seq(Tokens) /\ Len(some) = accepted
        /\ \A k \in 1 .. accepted : some[k] = drafts[k]
    BY <2>2, <2>3, Beginning
  <2> HIDE DEF some
  <2>5. /\ before \o some \in Seq(Tokens) /\ Len(before \o some) = done
        /\ \A k \in 1 .. Len(before) : (before \o some)[k] = before[k]
        /\ \A k \in 1 .. accepted : (before \o some)[Len(before) + k] = some[k]
    BY <1>2, <2>4, TwoTexts
  <2>6. /\ text \in Seq(Tokens) /\ Len(text) = done + 1
        /\ \A k \in 1 .. done : text[k] = (before \o some)[k]
    <3> DEFINE one == before \o some
               two == <<token>>
    <3>1. two \in Seq(Tokens) /\ Len(two) = 1
      BY <2>1
    <3>2. one \in Seq(Tokens) /\ Len(one) = done /\ text = one \o two
      BY <2>5
    <3> HIDE DEF one, two, text, done
    <3>5. /\ one \o two \in Seq(Tokens) /\ Len(one \o two) = Len(one) + Len(two)
          /\ \A k \in 1 .. Len(one) : (one \o two)[k] = one[k]
      BY <3>1, <3>2, TwoTexts
    <3>3. text \in Seq(Tokens) /\ Len(text) = done + 1 /\ \A k \in 1 .. done : text[k] = one[k]
      BY <3>1, <3>2, <3>5
    <3>4. QED
      BY <3>3 DEF one
  <2> HIDE DEF text
  <2>7. /\ done \in Nat /\ start <= done /\ done <= start + Len(ids) /\ done <= Len(text)
        /\ Len(before) <= Len(text) /\ Len(before) <= done
        /\ done - start = known + accepted
    BY <1>2, <1>6, <2>1, <2>2, <2>3, <2>6
  <2>8. \A k \in 1 .. Len(before) : text[k] = before[k]
    <3>1. \A k \in 1 .. Len(before) : k \in 1 .. done
      BY <1>6, <2>7
    <3>2. QED
      BY <2>5, <2>6, <3>1
  <2>9. \A o \in 1 .. done - start : text[start + o] = ids[o]
    <3> TAKE o \in 1 .. done - start
    <3>1. CASE start + o <= Len(before)
      <4>1. start + o \in 1 .. Len(before) /\ o \in 1 .. Len(ids)
        BY <1>2, <1>6, <2>1, <2>7, <3>1
      <4>2. QED
        BY <1>3, <2>8, <3>1, <4>1
    <3>2. CASE start + o > Len(before)
      <4> DEFINE k == o - known
      <4>1. /\ k \in 1 .. accepted /\ k \in 1 .. Len(ids) - known
            /\ start + o = Len(before) + k /\ known + k = o /\ start + o \in 1 .. done
        BY <1>2, <1>6, <2>1, <2>2, <2>3, <2>7, <3>2
      <4> HIDE DEF k, known, done
      <4>2. text[start + o] = (before \o some)[Len(before) + k]
        BY <2>6, <4>1
      <4>3. (before \o some)[Len(before) + k] = some[k] /\ some[k] = drafts[k]
        BY <2>4, <2>5, <4>1
      <4>4. drafts[k] = ids[o]
        BY <2>2, <4>1
      <4>5. QED
        BY <4>2, <4>3, <4>4
    <3>3. QED
      BY <1>2, <1>6, <2>7, <3>1, <3>2
  <2>10. /\ tokens' = [tokens EXCEPT ![r] = text] /\ computed' = [computed EXCEPT ![r] = done]
         /\ blocks' = [blocks EXCEPT ![r] = own]
    <3>1. tokens' = [tokens EXCEPT ![r] = text]
      BY <1>5, <1>8 DEF text, some
    <3>2. tokens'[r] = text
      BY <1>2, <1>4, <3>1
    <3>3. blocks' = [blocks EXCEPT ![r] = own]
      BY <1>2, <1>4, <1>5, <1>8, <3>2
    <3>4. computed[r] + known + accepted = done
      BY SMTT(30), <1>2, <1>3, <1>6, <2>1
    <3>5. QED
      BY <1>5, <1>8, <3>1, <3>3, <3>4
  <2>11. own = blocks[r] \/ (own = <<>> /\ ~ (Len(text) < MaxLen))
    OBVIOUS
  <2>12. \A x \in Nat : x <= Len(before) => x <= done
    BY <1>6, <2>7
  <2> HIDE DEF r, done, own
  <2>13. Outcome(text, done, own)
    BY <2>6, <2>7, <2>8, <2>9, <2>10, <2>11, <2>12 DEF Outcome, before, start, ids, r
  <2>14. QED
    BY <1>1, <2>13
<1>9. QED
  BY <1>7, <1>8

\* The rows left, and that their requests are others.
LEMMA RowsLeft ==
  ASSUME Base, batch' = Tail(batch), batch # <<>>
  PROVE  /\ batch' \in Seq(Row)
         /\ Len(batch) = 1 <=> batch' = <<>>
         /\ \A row \in DOMAIN batch' :
              /\ row + 1 \in DOMAIN batch /\ row + 1 # 1
              /\ batch'[row] = batch[row + 1]
              /\ batch[row + 1].req # batch[1].req
         /\ \A row \in DOMAIN batch : row # 1 =>
              row - 1 \in DOMAIN batch' /\ batch'[row - 1] = batch[row]
<1>1. batch \in Seq(Row) /\ Len(batch) \in Nat \ {0} /\ DOMAIN batch = 1 .. Len(batch)
  BY DEF Base, BatchOK
<1>2. /\ batch' \in Seq(Row) /\ Len(batch') = Len(batch) - 1 /\ DOMAIN batch' = 1 .. Len(batch) - 1
      /\ \A row \in 1 .. Len(batch) - 1 : batch'[row] = batch[row + 1]
  BY <1>1
<1>3. Len(batch) = 1 <=> batch' = <<>>
  BY <1>1, <1>2
<1>4. \A row \in DOMAIN batch' : row + 1 \in DOMAIN batch /\ row + 1 # 1 /\ 1 \in DOMAIN batch
  BY <1>1, <1>2
<1>5. \A row \in DOMAIN batch' : batch[row + 1].req # batch[1].req
  BY <1>4 DEF Base, BatchOK
<1>6. \A row \in DOMAIN batch : row # 1 =>
        row - 1 \in DOMAIN batch' /\ batch'[row - 1] = batch[row]
  <2> TAKE row \in DOMAIN batch
  <2>1. HAVE row # 1
  <2>2. row - 1 \in 1 .. Len(batch) - 1 /\ (row - 1) + 1 = row
    BY <1>1, <2>1
  <2>3. batch'[row - 1] = batch[(row - 1) + 1]
    BY <1>2, <2>2
  <2>4. QED
    BY <1>2, <2>2, <2>3
<1>7. QED
  BY <1>2, <1>3, <1>4, <1>5, <1>6

LEMMA SampleBase ==
  ASSUME Base, NEW accepted \in 0 .. MaxLen, NEW token \in Generated, Sample(accepted, token)
  PROVE  Base'
<1>1. 1 \in DOMAIN batch /\ \E text, done, own : Outcome(text, done, own)
  BY SampleGives
<1>2. PICK text, done, own : Outcome(text, done, own)
  BY <1>1
<1> DEFINE r == batch[1].req
           start == batch[1].start
           ids == batch[1].ids
<1>3. /\ tokens' = [tokens EXCEPT ![r] = text]
      /\ computed' = [computed EXCEPT ![r] = done]
      /\ blocks' = [blocks EXCEPT ![r] = own]
      /\ text \in Seq(Tokens) /\ Len(tokens[r]) <= Len(text)
      /\ done \in Nat /\ done <= start + Len(ids) /\ done <= Len(text)
      /\ own = blocks[r] \/ (own = <<>> /\ ~ (Len(text) < MaxLen))
  BY <1>2 DEF Outcome
<1>4. /\ pc = "sample"
      /\ batch' = Tail(batch)
      /\ pc' = IF Len(batch) = 1 THEN "schedule" ELSE "sample"
      /\ UNCHANGED <<runner, bound, cache, cache_ref, prefix>>
  BY DEF Sample
<1>5. /\ r \in Requests /\ start \in Nat /\ Len(ids) \in Nat \ {0}
  BY <1>1, TextOf DEF Base
<1>6. /\ start = computed[r] /\ blocks[r] # <<>> /\ blocks[r] \in Seq(0 .. NumBlocks - 1)
      /\ Len(blocks[r]) * BlockSize \in Nat
      /\ start + Len(ids) <= Len(blocks[r]) * BlockSize
  BY <1>1, RowHasBlocks DEF Base
<1>7. RequestsOK
  BY DEF Base, PoolOK
<1>8. RequestsOK'
  <2>1. own \in Seq(0 .. NumBlocks - 1)
    <3>1. <<>> \in Seq(0 .. NumBlocks - 1)
      OBVIOUS
    <3>2. QED
      BY <1>3, <1>6, <3>1, Zenon
  <2>2. own # <<>> => bound = Len(Pools) /\ done <= Len(own) * BlockSize
    <3>1. done <= Len(blocks[r]) * BlockSize
      BY <1>3, <1>5, <1>6
    <3>2. QED
      BY <1>3, <1>5, <1>6, <1>7, <3>1 DEF RequestsOK
  <2>3. Len(Prompt[r]) <= Len(text)
    <3>1. Prompt[r] \in Seq(Tokens) /\ tokens[r] \in Seq(Tokens) /\ Len(Prompt[r]) <= Len(tokens[r])
      BY <1>5, <1>7, NgramAssumption DEF RequestsOK
    <3>2. QED
      BY <1>3, <3>1
  <2>4. own = <<>> /\ Len(text) < MaxLen => done = 0
    BY <1>3, <1>6
  <2>5. /\ \A i \in DOMAIN own : own[i] \in AllBlocks
        /\ \A i, j \in DOMAIN own : own[i] = own[j] => i = j
    <3>1. CASE own = blocks[r]
      BY <1>5, <1>7, <3>1 DEF RequestsOK, BlocksDiffer
    <3>2. CASE own = <<>>
      BY <3>2
    <3>3. QED
      BY <1>3, <3>1, <3>2
  <2> HIDE DEF r, start, ids
  <2>6. bound' = bound
    BY <1>4
  <2>7. QED
    BY <1>3, <1>5, <2>1, <2>2, <2>3, <2>4, <2>5, <2>6, RequestChanges
<1>9. PoolOK'
  <2>1. NumBlocks' = NumBlocks /\ V2' = V2
    BY <1>4 DEF NumBlocks, V2
  <2>2. QED
    BY <1>4, <1>8, <2>1 DEF Base, PoolOK
<1>10. BatchOK'
  <2>1. /\ batch' \in Seq(Row)
        /\ Len(batch) = 1 <=> batch' = <<>>
        /\ \A row \in DOMAIN batch' :
             /\ row \in Nat /\ row + 1 \in DOMAIN batch
             /\ batch'[row] = batch[row + 1]
             /\ batch[row + 1].req # r
    <3>1. batch # <<>>
      BY <1>1
    <3>2. batch' \in Seq(Row)
      BY <1>4, <3>1, RowsLeft
    <3>3. QED
      BY <1>4, <3>1, <3>2, RowsLeft
  <2>2. \A row, other \in DOMAIN batch' : batch'[row].req = batch'[other].req => row = other
    <3> TAKE row, other \in DOMAIN batch'
    <3>1. HAVE batch'[row].req = batch'[other].req
    <3>2. row + 1 = other + 1
      BY <2>1, <3>1 DEF Base, BatchOK
    <3>3. QED
      BY <2>1, <3>2
  <2>3. ASSUME NEW row \in DOMAIN batch' PROVE RowOK(row)'
    <3> DEFINE q == batch[row + 1].req
    <3>1. RowOK(row + 1) /\ q \in Requests /\ q # r /\ batch'[row] = batch[row + 1]
      BY <2>1, TextOf DEF Base, BatchOK
    <3> HIDE DEF r
    <3>2. tokens'[q] = tokens[q] /\ computed'[q] = computed[q] /\ blocks'[q] = blocks[q]
      BY <1>3, <1>7, <3>1 DEF RequestsOK
    <3>3. QED
      BY <3>1, <3>2 DEF RowOK
  <2>4. pc' = "sample" => batch' # <<>>
    BY <1>4, <2>1
  <2>5. QED
    BY <1>4, <2>1, <2>2, <2>3, <2>4 DEF Base, BatchOK
<1>11. TypeOK'
  <2>1. pc' = pc \/ pc' = "schedule"
    BY <1>4
  <2>2. QED
    BY <1>4, <1>8, <2>1, TypesKept DEF Base
<1>12. QED
  BY <1>9, <1>10, <1>11 DEF Base

-----------------------------------------------------------------------------
(* The slots, step by step.                                                 *)

\* A step that writes nothing, and takes no cached prefix for another.
Quiet ==
  /\ pc = "schedule" /\ pc' = "schedule" /\ batch' = batch /\ runner' = runner
  /\ EnsureCache'[1] = EnsureCache[1]
  /\ \A row \in DOMAIN batch : blocks'[batch[row].req] = blocks[batch[row].req]
  /\ \A b \in AllBlocks : prefix'[b] # None => prefix'[b] = prefix[b]

\* It leaves what the slots will hold.
LEMMA QuietKeeps ==
  ASSUME Quiet, WritesDiffer, CachedHeld, BatchHeld
  PROVE  /\ \A s, id : Holds(s, id) => Holds(s, id)'
         /\ WritesDiffer' /\ CachedHeld' /\ BatchHeld'
<1>1. \A row \in DOMAIN batch : Offsets(row)' = Offsets(row)
  BY DEF Quiet, Offsets
<1>2. \A row \in DOMAIN batch : \A o : WritesTo(row, o)' = WritesTo(row, o)
  BY DEF Quiet, WritesTo, Slot
<1>3. ASSUME NEW s, NEW id, Holds(s, id) PROVE Holds(s, id)'
  <2>1. CASE \E row \in DOMAIN batch : \E o \in Offsets(row) :
               WritesTo(row, o) = s /\ id = TokenMap[batch[row].ids[o + 1]]
    <3>1. \E row \in DOMAIN batch' : \E o \in Offsets(row)' :
            WritesTo(row, o)' = s /\ id = TokenMap[batch'[row].ids[o + 1]]
      BY <1>1, <1>2, <2>1 DEF Quiet
    <3>2. QED
      BY <3>1 DEF Holds, Quiet
  <2>2. CASE /\ \A row \in DOMAIN batch : \A o \in Offsets(row) : WritesTo(row, o) # s
             /\ EnsureCache[1][s] = id
    <3>1. /\ \A row \in DOMAIN batch' : \A o \in Offsets(row)' : WritesTo(row, o)' # s
          /\ EnsureCache'[1][s] = id
      BY <1>1, <1>2, <2>2 DEF Quiet
    <3>2. QED
      BY <3>1 DEF Holds, Quiet
  <2>3. QED
    BY <1>3, <2>1, <2>2 DEF Holds, Quiet
<1>4. WritesDiffer'
  BY <1>1, <1>2 DEF Quiet, WritesDiffer
<1>5. CachedHeld'
  <2> SUFFICES ASSUME NEW b \in AllBlocks, prefix'[b] # None
               PROVE  \E m \in 1 .. Len(prefix'[b]) :
                        /\ Len(prefix'[b]) = m * BlockSize
                        /\ \A o \in 0 .. BlockSize - 1 :
                             Holds(b * BlockSize + o,
                                   TokenMap[prefix[b][(m - 1) * BlockSize + o + 1]])'
    BY DEF CachedHeld
  <2>1. prefix'[b] = prefix[b]
    BY DEF Quiet
  <2>2. PICK m \in 1 .. Len(prefix[b]) :
          /\ Len(prefix[b]) = m * BlockSize
          /\ \A o \in 0 .. BlockSize - 1 :
               Holds(b * BlockSize + o, TokenMap[prefix[b][(m - 1) * BlockSize + o + 1]])
    BY <2>1 DEF CachedHeld
  <2>3. \A o \in 0 .. BlockSize - 1 :
          Holds(b * BlockSize + o, TokenMap[prefix[b][(m - 1) * BlockSize + o + 1]])'
    <3> TAKE o \in 0 .. BlockSize - 1
    <3> DEFINE s == b * BlockSize + o
    <3>1. PICK id : id = TokenMap[prefix[b][(m - 1) * BlockSize + o + 1]]
      OBVIOUS
    <3>2. Holds(s, id)
      BY <2>2, <3>1
    <3>3. Holds(s, id)'
      BY <1>3, <3>2
    <3>4. QED
      BY <2>1, <3>1, <3>3
  <2>4. QED
    BY <2>1, <2>2, <2>3
<1>6. BatchHeld'
  <2> SUFFICES ASSUME NEW row \in DOMAIN batch, NEW o \in Offsets(row)
               PROVE  Holds(WritesTo(row, o), TokenMap[batch[row].ids[o + 1]])'
    BY <1>1 DEF BatchHeld, Quiet
  <2>1. PICK s, id : s = WritesTo(row, o) /\ id = TokenMap[batch[row].ids[o + 1]]
    OBVIOUS
  <2>2. Holds(s, id)
    BY <2>1 DEF BatchHeld
  <2>3. Holds(s, id)'
    BY <1>3, <2>2
  <2>4. s = WritesTo(row, o)' /\ id = TokenMap[batch'[row].ids[o + 1]]
    BY <1>2, <2>1 DEF Quiet
  <2>5. QED
    BY <2>3, <2>4 DEF Quiet
<1>7. QED
  BY <1>3, <1>4, <1>5, <1>6

\* A request the step leaves alone keeps what is computed and what is cached.
LEMMA ComputedKept ==
  ASSUME NEW q \in Requests, ComputedHeldOf(q), \A s, id : Holds(s, id) => Holds(s, id)',
         tokens'[q] = tokens[q], computed'[q] = computed[q], blocks'[q] = blocks[q]
  PROVE  ComputedHeldOf(q)'
<1> SUFFICES ASSUME blocks[q] # <<>>, NEW p \in 0 .. computed[q] - 1
             PROVE  Holds(Slot(q, p), TokenMap[tokens[q][p + 1]])'
  BY DEF ComputedHeldOf
<1>1. PICK s, id : s = Slot(q, p) /\ id = TokenMap[tokens[q][p + 1]]
  OBVIOUS
<1>2. Holds(s, id)
  BY <1>1 DEF ComputedHeldOf
<1>3. Holds(s, id)'
  BY <1>2
<1>4. s = Slot(q, p)' /\ id = TokenMap[tokens'[q][p + 1]]
  BY <1>1 DEF Slot
<1>5. QED
  BY <1>3, <1>4

LEMMA CachedKept ==
  ASSUME NEW q \in Requests, CachedIsTextOf(q),
         tokens'[q] = tokens[q], computed'[q] = computed[q], blocks'[q] = blocks[q],
         \A i \in DOMAIN blocks[q] :
           prefix'[blocks[q][i]] # None => prefix'[blocks[q][i]] = prefix[blocks[q][i]],
         batch' = batch
  PROVE  CachedIsTextOf(q)'
<1>1. Scheduled(q)' <=> Scheduled(q)
  BY DEF Scheduled
<1>2. QED
  BY <1>1 DEF CachedIsTextOf

LEMMA BindSlots ==
  ASSUME Base, BindKVCache
  PROVE  SlotsOK'
<1>1. /\ batch' = <<>> /\ \A b \in AllBlocks : prefix'[b] = None
      /\ \A r \in Requests : blocks'[r] = <<>>
  BY BindBase DEF BindKVCache
<1>2. DOMAIN batch' = {} /\ \A r \in Requests : DOMAIN blocks'[r] = {}
  BY <1>1
<1>3. CachedIsText' /\ SharedIsCached'
  BY <1>2 DEF CachedIsText, CachedIsTextOf, SharedIsCached
<1>4. WritesDiffer' /\ ComputedHeld' /\ CachedHeld' /\ BatchHeld'
  BY <1>1, <1>2 DEF WritesDiffer, ComputedHeld, ComputedHeldOf, CachedHeld, BatchHeld
<1>5. QED
  BY <1>3, <1>4 DEF SlotsOK

LEMMA DummySlots ==
  ASSUME Base, SlotsOK, DummyForward
  PROVE  SlotsOK'
<1> SUFFICES ASSUME SlotsOnly'
             PROVE  (/\ CachedIsText /\ SharedIsCached /\ WritesDiffer
                     /\ ComputedHeld /\ CachedHeld /\ BatchHeld)'
  BY DEF SlotsOK
<1>1. UNCHANGED <<runner, pc, tokens, computed, blocks, prefix, batch>> /\ pc = "schedule"
  BY DEF DummyForward
<1>2. SlotsOnly
  BY <1>1 DEF SlotsOnly, V2, Connector
<1>3. EnsureCache'[1] = EnsureCache[1]
  BY DummyBase
<1>4. Quiet
  BY <1>1, <1>3 DEF Quiet
<1>5. /\ CachedIsText /\ SharedIsCached /\ WritesDiffer
      /\ ComputedHeld /\ CachedHeld /\ BatchHeld
  BY <1>2 DEF SlotsOK
<1>6. /\ \A s, id : Holds(s, id) => Holds(s, id)'
      /\ WritesDiffer' /\ CachedHeld' /\ BatchHeld'
  BY <1>4, <1>5, QuietKeeps
<1>7. CachedIsText'
  BY <1>1, <1>5, CachedKept DEF CachedIsText
<1>8. SharedIsCached'
  BY <1>1, <1>5 DEF SharedIsCached
<1>9. ComputedHeld'
  BY <1>1, <1>5, <1>6, ComputedKept DEF ComputedHeld
<1>10. QED
  BY <1>6, <1>7, <1>8, <1>9

LEMMA PreemptSlots ==
  ASSUME Base, SlotsOK, NEW r \in Requests, Preempt(r)
  PROVE  SlotsOK'
<1> SUFFICES ASSUME SlotsOnly'
             PROVE  (/\ CachedIsText /\ SharedIsCached /\ WritesDiffer
                     /\ ComputedHeld /\ CachedHeld /\ BatchHeld)'
  BY DEF SlotsOK
<1>1. /\ computed' = [computed EXCEPT ![r] = 0]
      /\ blocks' = [blocks EXCEPT ![r] = <<>>]
      /\ UNCHANGED <<runner, pc, bound, cache, cache_ref, tokens, prefix, batch>>
      /\ ~Scheduled(r) /\ pc = "schedule"
  BY DEF Preempt, Serving
<1>2. SlotsOnly
  BY <1>1 DEF SlotsOnly, V2, Connector
<1>3. /\ blocks'[r] = <<>> /\ DOMAIN blocks'[r] = {}
      /\ \A q \in Requests : q # r =>
           tokens'[q] = tokens[q] /\ computed'[q] = computed[q] /\ blocks'[q] = blocks[q]
  BY <1>1 DEF Base, PoolOK, RequestsOK
<1>4. Quiet
  <2>1. EnsureCache'[1] = EnsureCache[1]
    BY <1>1 DEF EnsureCache, NumBlocks, V2
  <2>2. \A row \in DOMAIN batch : batch[row].req \in Requests /\ batch[row].req # r
    BY <1>1, TextOf DEF Base, Scheduled
  <2>3. QED
    BY <1>1, <1>3, <2>1, <2>2 DEF Quiet
<1>5. /\ CachedIsText /\ SharedIsCached /\ WritesDiffer
      /\ ComputedHeld /\ CachedHeld /\ BatchHeld
  BY <1>2 DEF SlotsOK
<1>6. /\ \A s, id : Holds(s, id) => Holds(s, id)'
      /\ WritesDiffer' /\ CachedHeld' /\ BatchHeld'
  BY <1>4, <1>5, QuietKeeps
<1>7. CachedIsText'
  <2>1. CachedIsTextOf(r)'
    BY <1>3 DEF CachedIsTextOf
  <2>2. \A q \in Requests : q # r => CachedIsTextOf(q)'
    BY <1>1, <1>3, <1>5, CachedKept DEF CachedIsText
  <2>3. QED
    BY <2>1, <2>2 DEF CachedIsText
<1>8. SharedIsCached'
  BY <1>1, <1>3, <1>5 DEF SharedIsCached
<1>9. ComputedHeld'
  <2>1. ComputedHeldOf(r)'
    BY <1>3 DEF ComputedHeldOf
  <2>2. \A q \in Requests : q # r => ComputedHeldOf(q)'
    BY <1>3, <1>5, <1>6, ComputedKept DEF ComputedHeld
  <2>3. QED
    BY <2>1, <2>2 DEF ComputedHeld
<1>10. QED
  BY <1>6, <1>7, <1>8, <1>9

\* What the slots of a block cached for i blocks of text hold: the last of them.
LEMMA BlockHeld ==
  ASSUME PoolOK, CachedHeld, NEW b \in AllBlocks, prefix[b] # None,
         NEW i \in Nat \ {0}, Len(prefix[b]) = i * BlockSize, NEW o \in 0 .. BlockSize - 1
  PROVE  Holds(b * BlockSize + o, TokenMap[prefix[b][(i - 1) * BlockSize + o + 1]])
<1>1. PICK m \in 1 .. Len(prefix[b]) :
        /\ Len(prefix[b]) = m * BlockSize
        /\ \A u \in 0 .. BlockSize - 1 :
             Holds(b * BlockSize + u, TokenMap[prefix[b][(m - 1) * BlockSize + u + 1]])
  BY DEF CachedHeld
<1>2. prefix[b] \in Seq(Tokens) /\ BlockSize \in Nat \ {0}
  BY NgramAssumption DEF PoolOK
<1>3. m \in Nat \ {0} /\ m * BlockSize = i * BlockSize
  <2>1. Len(prefix[b]) \in Nat
    BY <1>2
  <2>2. m \in Nat \ {0}
    BY <2>1
  <2>3. QED
    BY <1>1, <2>2
<1>4. m = i
  BY <1>2, <1>3
<1>5. QED
  BY <1>1, <1>4

\* A position's place in the text of its block.
LEMMA PlaceOf ==
  ASSUME PoolOK, NEW p \in Nat
  PROVE  /\ p \div BlockSize \in Nat /\ p % BlockSize \in 0 .. BlockSize - 1
         /\ p \div BlockSize + 1 \in Nat \ {0}
         /\ ((p \div BlockSize + 1) - 1) * BlockSize + (p % BlockSize) + 1 = p + 1
         /\ (p \div BlockSize) * BlockSize <= p
         /\ (p \div BlockSize + 1) * BlockSize \in Nat
         /\ p + 1 \in 1 .. (p \div BlockSize + 1) * BlockSize
         /\ \A n \in Nat : p < n * BlockSize => p \div BlockSize + 1 \in 1 .. n
<1>1. BlockSize \in Nat \ {0}
  BY NgramAssumption
<1> DEFINE q == p \div BlockSize
           o == p % BlockSize
<1>2. q \in Nat /\ o \in 0 .. BlockSize - 1 /\ p = q * BlockSize + o
  BY <1>1, DivModOf
<1>3. \A n \in Nat : p < n * BlockSize => p \div BlockSize < n
  BY <1>1, DivModOf
<1>4. \A n \in Nat : p < n * BlockSize => q < n
  BY <1>3
<1> HIDE DEF q, o
<1>5. (q + 1) - 1 = q /\ q * BlockSize \in Nat /\ (q + 1) * BlockSize = q * BlockSize + BlockSize
  BY <1>1, <1>2
<1>6. /\ q * BlockSize + o + 1 = p + 1 /\ q * BlockSize <= p
      /\ (q + 1) * BlockSize \in Nat
      /\ p + 1 \in 1 .. (q + 1) * BlockSize
  BY <1>1, <1>2, <1>5
<1>7. \A n \in Nat : p < n * BlockSize => q + 1 \in 1 .. n
  BY <1>2, <1>4
<1>8. QED
  BY <1>2, <1>5, <1>6, <1>7 DEF q, o

LEMMA HitSlots ==
  ASSUME Base, SlotsOK, NEW r \in Requests, Hit(r)
  PROVE  SlotsOK'
<1> SUFFICES ASSUME SlotsOnly'
             PROVE  (/\ CachedIsText /\ SharedIsCached /\ WritesDiffer
                     /\ ComputedHeld /\ CachedHeld /\ BatchHeld)'
  BY DEF SlotsOK
<1>1. PICK n \in Nat \ {0} : \E own \in Seq(0 .. NumBlocks - 1) : Resumes(r, n, own)
  BY HitGives
<1>2. PICK own \in Seq(0 .. NumBlocks - 1) : Resumes(r, n, own)
  BY <1>1
<1>3. /\ UNCHANGED <<runner, pc, bound, cache, cache_ref, tokens, prefix, batch>>
      /\ ~Scheduled(r) /\ pc = "schedule"
  BY DEF Hit, Serving, Waiting
<1>4. SlotsOnly
  BY <1>3 DEF SlotsOnly, V2, Connector
<1>5. /\ blocks'[r] = own /\ computed'[r] = n * BlockSize
      /\ \A q \in Requests : q # r =>
           tokens'[q] = tokens[q] /\ computed'[q] = computed[q] /\ blocks'[q] = blocks[q]
  BY <1>2, <1>3 DEF Base, PoolOK, RequestsOK, Resumes
<1>6. Quiet
  <2>1. EnsureCache'[1] = EnsureCache[1]
    BY <1>3 DEF EnsureCache, NumBlocks, V2
  <2>2. \A row \in DOMAIN batch : batch[row].req \in Requests /\ batch[row].req # r
    BY <1>3, TextOf DEF Base, Scheduled
  <2>3. QED
    BY <1>3, <1>5, <2>1, <2>2 DEF Quiet
<1>7. /\ CachedIsText /\ SharedIsCached /\ WritesDiffer
      /\ ComputedHeld /\ CachedHeld /\ BatchHeld
  BY <1>4 DEF SlotsOK
<1>8. /\ \A s, id : Holds(s, id) => Holds(s, id)'
      /\ WritesDiffer' /\ CachedHeld' /\ BatchHeld'
  BY <1>6, <1>7, QuietKeeps
<1>9. /\ DOMAIN own = 1 .. n
      /\ \A i \in 1 .. n :
           /\ own[i] \in AllBlocks
           /\ prefix[own[i]] # None
           /\ Len(prefix[own[i]]) = i * BlockSize
           /\ i * BlockSize \in 0 .. Len(tokens[r])
           /\ \A k \in 1 .. i * BlockSize : prefix[own[i]][k] = tokens[r][k]
           /\ i * BlockSize <= n * BlockSize
  BY <1>2, BlockEnds DEF Resumes
<1>10. CachedIsText'
  <2>1. CachedIsTextOf(r)'
    <3> SUFFICES ASSUME NEW i \in 1 .. n
                 PROVE  /\ Len(prefix[own[i]]) = i * BlockSize /\ i * BlockSize <= Len(tokens[r])
                        /\ \A k \in 1 .. i * BlockSize : prefix[own[i]][k] = tokens[r][k]
                        /\ i * BlockSize <= n * BlockSize
                        /\ \A row \in DOMAIN batch : batch[row].req # r
      BY <1>3, <1>5, <1>9 DEF CachedIsTextOf
    <3>1. Len(tokens[r]) \in Nat
      BY DEF Base, TypeOK
    <3>2. i * BlockSize <= Len(tokens[r])
      BY <1>9, <3>1
    <3>3. QED
      BY <1>3, <1>9, <3>2 DEF Scheduled
  <2>2. \A q \in Requests : q # r => CachedIsTextOf(q)'
    BY <1>3, <1>5, <1>7, CachedKept DEF CachedIsText
  <2>3. QED
    BY <2>1, <2>2 DEF CachedIsText
<1>11. SharedIsCached'
  <2> SUFFICES ASSUME NEW q \in Requests, NEW x \in Requests, q # x,
                      NEW i \in DOMAIN blocks'[q], NEW j \in DOMAIN blocks'[x],
                      blocks'[q][i] = blocks'[x][j]
               PROVE  prefix'[blocks'[q][i]] # None
    BY DEF SharedIsCached
  <2>1. CASE q = r
    BY <1>3, <1>5, <1>9, <2>1
  <2>2. CASE x = r
    BY <1>3, <1>5, <1>9, <2>2
  <2>3. CASE q # r /\ x # r
    BY <1>3, <1>5, <1>7, <2>3 DEF SharedIsCached
  <2>4. QED
    BY <2>1, <2>2, <2>3
<1>12. ComputedHeld'
  <2>1. ComputedHeldOf(r)'
    <3> SUFFICES ASSUME NEW p \in 0 .. n * BlockSize - 1
                 PROVE  Holds(Slot(r, p), TokenMap[tokens[r][p + 1]])'
      BY <1>5 DEF ComputedHeldOf
    <3> DEFINE i == p \div BlockSize + 1
               o == p % BlockSize
    <3>0. PICK s, id : s = own[i] * BlockSize + o /\ id = TokenMap[tokens[r][p + 1]]
      OBVIOUS
    <3>1. p \in Nat /\ p < n * BlockSize
      BY <1>2 DEF Resumes
    <3>2. /\ i \in 1 .. n /\ i \in Nat \ {0} /\ o \in 0 .. BlockSize - 1
          /\ (i - 1) * BlockSize + o + 1 = p + 1
          /\ p + 1 \in 1 .. i * BlockSize
      BY <3>1, PlaceOf DEF Base
    <3>3. Slot(r, p)' = s
      BY <1>5, <3>0 DEF Slot
    <3> HIDE DEF i, o
    <3>4. Holds(own[i] * BlockSize + o, TokenMap[prefix[own[i]][(i - 1) * BlockSize + o + 1]])
      BY <1>7, <1>9, <3>2, BlockHeld DEF Base
    <3>5. prefix[own[i]][(i - 1) * BlockSize + o + 1] = tokens[r][p + 1]
      BY <1>9, <3>2
    <3>6. Holds(s, id)
      BY <3>0, <3>4, <3>5
    <3>7. Holds(s, id)'
      BY <1>8, <3>6
    <3>8. id = TokenMap[tokens'[r][p + 1]]
      BY <1>3, <3>0
    <3>9. QED
      BY <3>3, <3>7, <3>8
  <2>2. \A q \in Requests : q # r => ComputedHeldOf(q)'
    BY <1>5, <1>7, <1>8, ComputedKept DEF ComputedHeld
  <2>3. QED
    BY <2>1, <2>2 DEF ComputedHeld
<1>13. QED
  BY <1>8, <1>10, <1>11, <1>12

\* The slots of a cached block are slots of the pool.
LEMMA BlockSlots ==
  ASSUME PoolOK, NEW b \in AllBlocks, prefix[b] # None, NEW o \in 0 .. BlockSize - 1
  PROVE  b \in Nat /\ b * BlockSize + o \in SlotsOf(NumBlocks)
<1>1. b \in 0 .. NumBlocks - 1 /\ BlockSize \in Nat \ {0}
  BY NgramAssumption DEF PoolOK
<1>2. NumBlocks \in Nat
  BY NgramAssumption DEF NumBlocks, PoolOK
<1>3. b \in Nat /\ b + 1 <= NumBlocks
  BY <1>1, <1>2
<1>4. (b + 1) * BlockSize <= NumBlocks * BlockSize /\ NumBlocks * BlockSize \in Nat
  BY <1>1, <1>2, <1>3
<1>5. (b + 1) * BlockSize = b * BlockSize + BlockSize /\ b * BlockSize \in Nat
  BY <1>1, <1>3
<1>6. QED
  BY <1>1, <1>3, <1>4, <1>5 DEF SlotsOf

LEMMA AllocateSlots ==
  ASSUME Base, SlotsOK, NEW r \in Requests, NEW b \in AllBlocks, Allocate(r, b)
  PROVE  SlotsOK'
<1> SUFFICES ASSUME SlotsOnly'
             PROVE  (/\ CachedIsText /\ SharedIsCached /\ WritesDiffer
                     /\ ComputedHeld /\ CachedHeld /\ BatchHeld)'
  BY DEF SlotsOK
<1> DEFINE own == Append(blocks[r], b)
<1>1. /\ \A q \in Requests : \A i \in DOMAIN blocks[q] : blocks[q][i] # b
      /\ blocks' = [blocks EXCEPT ![r] = own]
      /\ UNCHANGED <<runner, pc, bound, cache, cache_ref, tokens, batch>>
      /\ ~Scheduled(r) /\ pc = "schedule" /\ Len(tokens[r]) < MaxLen
  BY DEF Allocate, Serving, FreeBlocks
<1>2. SlotsOnly
  BY <1>1 DEF SlotsOnly, V2, Connector
<1>3. prefix' = [prefix EXCEPT ![b] = None] /\ computed' = computed
  BY <1>2 DEF Allocate, SlotsOnly
<1>4. /\ prefix'[b] = None
      /\ \A c \in AllBlocks : c # b => prefix'[c] = prefix[c]
      /\ \A c \in AllBlocks : prefix'[c] # None => prefix'[c] = prefix[c]
      /\ \A q \in Requests : \A i \in DOMAIN blocks[q] :
           blocks[q][i] # b /\ prefix'[blocks[q][i]] = prefix[blocks[q][i]]
  BY <1>1, <1>3 DEF Base, PoolOK, RequestsOK
<1>5. /\ blocks'[r] = own
      /\ \A q \in Requests : q # r => blocks'[q] = blocks[q]
  BY <1>1 DEF Base, PoolOK, RequestsOK
<1>6. /\ Len(own) \in Nat \ {0}
      /\ DOMAIN own = 1 .. Len(own) /\ DOMAIN blocks[r] = 1 .. Len(own) - 1
      /\ own[Len(own)] = b
      /\ \A i \in DOMAIN blocks[r] : own[i] = blocks[r][i]
      /\ \A i \in DOMAIN own : i \in DOMAIN blocks[r] \/ i = Len(own)
  <2> DEFINE W == 0 .. NumBlocks - 1
             c == blocks[r]
             app == Append(c, b)
  <2>1. c \in Seq(W)
    BY DEF Base, PoolOK, RequestsOK
  <2> HIDE DEF W, c
  <2>2. Len(c) \in Nat /\ DOMAIN c = 1 .. Len(c) /\ Len(app) = Len(c) + 1
        /\ DOMAIN app = 1 .. Len(c) + 1
    BY <2>1
  <2>3. app[Len(c) + 1] = b /\ \A i \in DOMAIN c : app[i] = c[i]
    BY <2>1
  <2> HIDE DEF app
  <2>4. /\ Len(app) \in Nat \ {0}
        /\ DOMAIN app = 1 .. Len(app) /\ DOMAIN c = 1 .. Len(app) - 1
        /\ app[Len(app)] = b
        /\ \A i \in DOMAIN c : app[i] = c[i]
        /\ \A i \in DOMAIN app : i \in DOMAIN c \/ i = Len(app)
    BY <2>2, <2>3
  <2>5. QED
    BY <2>4 DEF app, c
<1> HIDE DEF own
<1>7. Quiet
  <2>1. EnsureCache'[1] = EnsureCache[1]
    BY <1>1 DEF EnsureCache, NumBlocks, V2
  <2>2. \A row \in DOMAIN batch : batch[row].req \in Requests /\ batch[row].req # r
    BY <1>1, TextOf DEF Base, Scheduled
  <2>3. QED
    BY <1>1, <1>4, <1>5, <2>1, <2>2 DEF Quiet
<1>8. /\ CachedIsText /\ SharedIsCached /\ WritesDiffer
      /\ ComputedHeld /\ CachedHeld /\ BatchHeld
  BY <1>2 DEF SlotsOK
<1>9. /\ \A s, id : Holds(s, id) => Holds(s, id)'
      /\ WritesDiffer' /\ CachedHeld' /\ BatchHeld'
  BY <1>7, <1>8, QuietKeeps
<1>10. CachedIsText'
  <2>1. CachedIsTextOf(r)'
    <3> SUFFICES ASSUME NEW i \in DOMAIN own, prefix'[own[i]] # None
                 PROVE  LET text == prefix'[own[i]] IN
                   /\ Len(text) = i * BlockSize /\ i * BlockSize <= Len(tokens'[r])
                   /\ \A k \in 1 .. i * BlockSize : text[k] = tokens'[r][k]
                   /\ ~Scheduled(r)' => i * BlockSize <= computed'[r]
                   /\ \A row \in DOMAIN batch' : batch'[row].req = r =>
                        i * BlockSize <= batch'[row].start + Len(batch'[row].ids)
      BY <1>5 DEF CachedIsTextOf
    <3>1. i \in DOMAIN blocks[r] /\ own[i] = blocks[r][i]
      BY <1>4, <1>6
    <3>2. prefix'[own[i]] = prefix[blocks[r][i]]
      BY <1>4, <3>1
    <3>3. CachedIsTextOf(r) /\ (Scheduled(r)' <=> Scheduled(r))
      BY <1>1, <1>8 DEF CachedIsText, Scheduled
    <3>4. QED
      BY <1>1, <1>3, <3>1, <3>2, <3>3 DEF CachedIsTextOf
  <2>2. \A q \in Requests : q # r => CachedIsTextOf(q)'
    BY <1>1, <1>3, <1>4, <1>5, <1>8, CachedKept DEF CachedIsText
  <2>3. QED
    BY <2>1, <2>2 DEF CachedIsText
<1>11. SharedIsCached'
  <2> SUFFICES ASSUME NEW q \in Requests, NEW x \in Requests, q # x,
                      NEW i \in DOMAIN blocks'[q], NEW j \in DOMAIN blocks'[x],
                      blocks'[q][i] = blocks'[x][j]
               PROVE  prefix'[blocks'[q][i]] # None
    BY DEF SharedIsCached
  <2>1. i \in DOMAIN blocks[q] /\ blocks'[q][i] = blocks[q][i]
    <3>1. CASE q = r
      <4>1. x # r /\ blocks'[x] = blocks[x] /\ blocks[x][j] # b
        BY <1>4, <1>5, <3>1
      <4>2. QED
        BY <1>5, <1>6, <3>1, <4>1
    <3>2. CASE q # r
      BY <1>5, <3>2
    <3>3. QED
      BY <3>1, <3>2
  <2>2. j \in DOMAIN blocks[x] /\ blocks'[x][j] = blocks[x][j]
    <3>1. CASE x = r
      <4>1. blocks'[q][i] # b
        BY <1>4, <2>1
      <4>2. QED
        BY <1>5, <1>6, <3>1, <4>1
    <3>2. CASE x # r
      BY <1>5, <3>2
    <3>3. QED
      BY <3>1, <3>2
  <2>3. prefix[blocks[q][i]] # None
    BY <1>8, <2>1, <2>2 DEF SharedIsCached
  <2>4. QED
    BY <1>4, <2>1, <2>3
<1>12. ComputedHeld'
  <2>1. ComputedHeldOf(r)'
    <3> SUFFICES ASSUME NEW p \in 0 .. computed[r] - 1
                 PROVE  Holds(Slot(r, p), TokenMap[tokens[r][p + 1]])'
      BY <1>3 DEF ComputedHeldOf
    <3>1. /\ computed[r] \in Nat /\ blocks[r] \in Seq(0 .. NumBlocks - 1)
          /\ blocks[r] = <<>> => computed[r] = 0
          /\ blocks[r] # <<>> => computed[r] <= Len(blocks[r]) * BlockSize
      BY <1>1 DEF Base, PoolOK, RequestsOK
    <3>2. blocks[r] # <<>> /\ p \in Nat
      BY <3>1
    <3>3. p < Len(blocks[r]) * BlockSize
      <4>1. Len(blocks[r]) \in Nat /\ BlockSize \in Nat
        BY <3>1, NgramAssumption
      <4>2. Len(blocks[r]) * BlockSize \in Nat
        BY <4>1
      <4>3. QED
        BY <3>1, <3>2, <4>2
    <3>4. p \div BlockSize + 1 \in DOMAIN blocks[r]
      BY <3>2, <3>3, SlotAt DEF Base
    <3>5. blocks'[r][p \div BlockSize + 1] = blocks[r][p \div BlockSize + 1]
      BY <1>5, <1>6, <3>4
    <3>6. PICK s, id : s = Slot(r, p) /\ id = TokenMap[tokens[r][p + 1]]
      OBVIOUS
    <3>7. Holds(s, id)
      BY <1>8, <3>2, <3>6 DEF ComputedHeld, ComputedHeldOf
    <3>8. Holds(s, id)'
      BY <1>9, <3>7
    <3>9. Slot(r, p)' = s /\ id = TokenMap[tokens'[r][p + 1]]
      BY <1>1, <3>5, <3>6 DEF Slot
    <3>10. QED
      BY <3>8, <3>9
  <2>2. \A q \in Requests : q # r => ComputedHeldOf(q)'
    BY <1>1, <1>3, <1>5, <1>8, <1>9, ComputedKept DEF ComputedHeld
  <2>3. QED
    BY <2>1, <2>2 DEF ComputedHeld
<1>13. QED
  BY <1>9, <1>10, <1>11, <1>12

\* After the writes, each slot that is to hold an id holds it.
LEMMA RunStepSlots ==
  ASSUME Base, SlotsOK, RunStep
  PROVE  SlotsOK'
<1> SUFFICES ASSUME SlotsOnly'
             PROVE  (/\ CachedIsText /\ SharedIsCached /\ WritesDiffer
                     /\ ComputedHeld /\ CachedHeld /\ BatchHeld)'
  BY DEF SlotsOK
<1>1. /\ UNCHANGED <<runner, bound, tokens, computed, blocks, prefix, batch>>
      /\ pc' = "sample"
  BY DEF RunStep
<1>2. SlotsOnly
  BY <1>1 DEF SlotsOnly, V2, Connector
<1>3. /\ CachedIsText /\ SharedIsCached /\ WritesDiffer
      /\ ComputedHeld /\ CachedHeld /\ BatchHeld
  BY <1>2 DEF SlotsOK
<1>4. /\ bound # 0 /\ pc = "schedule" /\ NumBlocks' = NumBlocks /\ ~V2
      /\ cache' = Written(EnsureCache[1])
  BY <1>2, RunStepBase DEF SlotsOnly
<1>5. \A s \in SlotsOf(NumBlocks) : \A id : Holds(s, id) => Holds(s, id)'
  <2> SUFFICES ASSUME NEW s \in SlotsOf(NumBlocks), NEW id, Holds(s, id) PROVE Holds(s, id)'
    OBVIOUS
  <2>1. Written(EnsureCache[1])[s] = id
    BY <1>3, <1>4, HeldIsWritten DEF Base
  <2>2. QED
    BY <1>1, <1>4, <2>1 DEF Holds
<1>6. CachedIsText' /\ SharedIsCached' /\ WritesDiffer'
  <2>1. \A r \in Requests : Scheduled(r)' <=> Scheduled(r)
    BY <1>1 DEF Scheduled
  <2>2. CachedIsText'
    BY <1>1, <1>3, <2>1 DEF CachedIsText, CachedIsTextOf
  <2>3. SharedIsCached'
    BY <1>1, <1>3 DEF SharedIsCached
  <2>4. QED
    BY <1>1, <2>2, <2>3 DEF WritesDiffer
<1>7. ComputedHeld'
  <2> SUFFICES ASSUME NEW r \in Requests, blocks[r] # <<>>, NEW p \in 0 .. computed[r] - 1
               PROVE  Holds(Slot(r, p), TokenMap[tokens[r][p + 1]])'
    BY <1>1 DEF ComputedHeld, ComputedHeldOf
  <2>1. PICK s, id : s = Slot(r, p) /\ id = TokenMap[tokens[r][p + 1]]
    OBVIOUS
  <2>2. Holds(s, id)
    BY <1>3, <2>1 DEF ComputedHeld, ComputedHeldOf
  <2>3. p \in Nat /\ p < Len(blocks[r]) * BlockSize
    <3>1. /\ computed[r] \in Nat /\ Len(blocks[r]) \in Nat /\ BlockSize \in Nat
          /\ computed[r] <= Len(blocks[r]) * BlockSize
      BY NgramAssumption DEF Base, PoolOK, RequestsOK
    <3>2. Len(blocks[r]) * BlockSize \in Nat
      BY <3>1
    <3>3. QED
      BY <3>1, <3>2
  <2>4. s \in SlotsOf(NumBlocks)
    BY <2>1, <2>3, SlotAt DEF Base
  <2>5. Holds(s, id)'
    BY <1>5, <2>2, <2>4
  <2>6. s = Slot(r, p)' /\ id = TokenMap[tokens'[r][p + 1]]
    BY <1>1, <2>1 DEF Slot
  <2>7. QED
    BY <2>5, <2>6
<1>8. CachedHeld'
  <2> SUFFICES ASSUME NEW b \in AllBlocks, prefix[b] # None
               PROVE  \E m \in 1 .. Len(prefix'[b]) :
                        /\ Len(prefix'[b]) = m * BlockSize
                        /\ \A o \in 0 .. BlockSize - 1 :
                             Holds(b * BlockSize + o,
                                   TokenMap[prefix[b][(m - 1) * BlockSize + o + 1]])'
    BY <1>1 DEF CachedHeld
  <2>1. PICK m \in 1 .. Len(prefix[b]) :
          /\ Len(prefix[b]) = m * BlockSize
          /\ \A o \in 0 .. BlockSize - 1 :
               Holds(b * BlockSize + o, TokenMap[prefix[b][(m - 1) * BlockSize + o + 1]])
    BY <1>3 DEF CachedHeld
  <2>2. ASSUME NEW o \in 0 .. BlockSize - 1
        PROVE  Holds(b * BlockSize + o, TokenMap[prefix[b][(m - 1) * BlockSize + o + 1]])'
    <3>1. PICK s, id : /\ s = b * BlockSize + o
                       /\ id = TokenMap[prefix[b][(m - 1) * BlockSize + o + 1]]
      OBVIOUS
    <3>2. Holds(s, id)
      BY <2>1, <3>1
    <3>3. s \in SlotsOf(NumBlocks)
      BY <3>1, BlockSlots DEF Base
    <3>4. Holds(s, id)'
      BY <1>5, <3>2, <3>3
    <3>5. id = TokenMap[prefix'[b][(m - 1) * BlockSize + o + 1]]
      BY <1>1, <3>1
    <3>6. QED
      BY <3>1, <3>4, <3>5
  <2>3. QED
    BY <1>1, <2>1, <2>2
<1>9. BatchHeld'
  <2> SUFFICES ASSUME NEW row \in DOMAIN batch, NEW o \in Offsets(row)
               PROVE  Holds(WritesTo(row, o), TokenMap[batch[row].ids[o + 1]])'
    <3>1. \A row \in DOMAIN batch : Offsets(row)' = Offsets(row)
      BY <1>1 DEF Offsets
    <3>2. QED
      BY <1>1, <3>1 DEF BatchHeld
  <2>1. PICK s, id : s = WritesTo(row, o) /\ id = TokenMap[batch[row].ids[o + 1]]
    OBVIOUS
  <2>2. Holds(s, id)
    BY <1>3, <2>1 DEF BatchHeld
  <2>3. s \in SlotsOf(NumBlocks)
    BY <2>1, WritesInBlocks DEF Base
  <2>4. Holds(s, id)'
    BY <1>5, <2>2, <2>3
  <2>5. s = WritesTo(row, o)' /\ id = TokenMap[batch'[row].ids[o + 1]]
    BY <1>1, <2>1 DEF WritesTo, Slot
  <2>6. QED
    BY <2>4, <2>5
<1>10. QED
  BY <1>6, <1>7, <1>8, <1>9

\* A chunk is written into blocks that are not cached, so into no slot of another
\* request's, of what is computed, or of what is cached; the blocks it fills are promised
\* the text that it, and what is computed, make of them.
LEMMA ScheduleSlots ==
  ASSUME Base, SlotsOK, NEW r \in Requests, NEW n \in 1 .. MaxLen, NEW drafts \in Drafts,
         Schedule(r, n, drafts)
  PROVE  SlotsOK'
<1> SUFFICES ASSUME SlotsOnly'
             PROVE  (/\ CachedIsText /\ SharedIsCached /\ WritesDiffer
                     /\ ComputedHeld /\ CachedHeld /\ BatchHeld)'
  BY DEF SlotsOK
<1>1. /\ UNCHANGED <<runner, pc, bound, cache, cache_ref, tokens, computed, blocks>>
      /\ pc = "schedule" /\ ~Scheduled(r)
  BY DEF Schedule, Serving
<1>2. SlotsOnly
  BY <1>1 DEF SlotsOnly, V2, Connector
<1>3. /\ CachedIsText /\ SharedIsCached /\ WritesDiffer
      /\ ComputedHeld /\ CachedHeld /\ BatchHeld
  BY <1>2 DEF SlotsOK
<1>4. PICK ids : Joins(r, n, ids)
  BY ScheduleGives
<1>5. Caches(r, n)
  BY ScheduleGives
<1> DEFINE start == computed[r]
           New == 0 .. Len(ids) - 1
<1>0. PICK last : last = Len(batch) + 1
  OBVIOUS
<1>24. /\ start \in Nat /\ n \in Nat \ {0} /\ Len(ids) \in Nat \ {0} /\ n <= Len(ids)
       /\ Len(tokens[r]) \in Nat /\ start + n <= Len(tokens[r]) /\ BlockSize \in Nat \ {0}
  <2>1. tokens[r] \in Seq(Tokens)
    BY <1>4 DEF Joins
  <2>2. Len(tokens[r]) \in Nat
    BY <2>1
  <2>3. QED
    BY <1>4, <2>2, NgramAssumption DEF Joins
<1>25. /\ batch'[last].req = r /\ batch'[last].start = start /\ batch'[last].ids = ids
  BY <1>0, <1>4 DEF Joins
<1>6. /\ start \in Nat /\ n \in Nat \ {0} /\ Len(ids) \in Nat \ {0} /\ n <= Len(ids)
      /\ tokens[r] \in Seq(Tokens) /\ Len(tokens[r]) \in Nat /\ start + n <= Len(tokens[r])
      /\ \A o \in 1 .. n : ids[o] = tokens[r][start + o]
      /\ DOMAIN batch = 1 .. Len(batch) /\ DOMAIN batch' = 1 .. last /\ Len(batch) \in Nat
      /\ \A row \in DOMAIN batch : batch'[row] = batch[row] /\ batch[row].req # r
      /\ batch'[last].req = r /\ batch'[last].start = start /\ batch'[last].ids = ids
      /\ DOMAIN blocks[r] = 1 .. Len(blocks[r]) /\ Len(blocks[r]) \in Nat
      /\ Len(blocks[r]) * BlockSize \in Nat
      /\ start + Len(ids) <= Len(blocks[r]) * BlockSize
      /\ BlockSize \in Nat \ {0}
  BY <1>0, <1>4, <1>24, <1>25 DEF Joins
<1>7. last \in DOMAIN batch' /\ \A row \in DOMAIN batch' : row \in DOMAIN batch \/ row = last
  BY <1>0, <1>6
<1>8. /\ \A row \in DOMAIN batch : row \in DOMAIN batch' /\ row # last
  BY <1>0, <1>6
<1>9. /\ \A row \in DOMAIN batch : Offsets(row)' = Offsets(row)
      /\ Offsets(last)' = New
      /\ \A row \in DOMAIN batch : \A o : WritesTo(row, o)' = WritesTo(row, o)
      /\ \A o : WritesTo(last, o)' = Slot(r, start + o)
  BY <1>1, <1>6 DEF Offsets, WritesTo, Slot
<1>10. EnsureCache' = EnsureCache
  BY <1>1 DEF EnsureCache, NumBlocks, V2
\* Where the chunk is written.
<1>11. ASSUME NEW o \in New
       PROVE  /\ start + o \in Nat /\ start + o < Len(blocks[r]) * BlockSize
              /\ (start + o) \div BlockSize + 1 \in DOMAIN blocks[r]
              /\ start < ((start + o) \div BlockSize + 1) * BlockSize
              /\ prefix[blocks[r][(start + o) \div BlockSize + 1]] = None
  <2> DEFINE x == start + o
             i == x \div BlockSize + 1
  <2>1. x \in Nat /\ x < Len(blocks[r]) * BlockSize /\ start <= x
    <3> DEFINE N == Len(blocks[r]) * BlockSize
    <3>1. N \in Nat /\ start + Len(ids) <= N
      BY <1>6
    <3> HIDE DEF N
    <3>2. x \in Nat /\ x < N /\ start <= x
      BY SMTT(30), <1>24, <3>1
    <3>3. QED
      BY <3>2 DEF N
  <2> HIDE DEF x
  <2>2. i \in DOMAIN blocks[r]
    BY <2>1, SlotAt DEF Base
  <2>3. i * BlockSize \in Nat /\ x + 1 \in 1 .. i * BlockSize
    BY <2>1, PlaceOf DEF Base
  <2> HIDE DEF i
  <2>4. start < i * BlockSize
    BY <1>6, <2>1, <2>3
  <2>5. prefix[blocks[r][i]] # None => i * BlockSize <= start
    BY <1>1, <1>3, <2>2 DEF CachedIsText, CachedIsTextOf
  <2>6. prefix[blocks[r][i]] = None
    BY <1>6, <2>3, <2>4, <2>5
  <2>7. QED
    BY <2>1, <2>2, <2>4, <2>6 DEF x, i
<1>12. ASSUME NEW o \in New, NEW q \in Requests, NEW p \in Nat,
              p < Len(blocks[q]) * BlockSize, Slot(r, start + o) = Slot(q, p)
       PROVE  q = r /\ p = start + o
  <2> DEFINE x == start + o
  <2>1. x \in Nat /\ x < Len(blocks[r]) * BlockSize /\ x \div BlockSize + 1 \in DOMAIN blocks[r]
    BY <1>11
  <2>2. prefix[blocks[r][x \div BlockSize + 1]] = None
    BY <1>11
  <2>3. Slot(r, x) = Slot(q, p)
    BY <1>12
  <2> HIDE DEF x
  <2>4. p \div BlockSize + 1 \in DOMAIN blocks[q]
    BY <1>12, SlotAt DEF Base
  <2>5. /\ blocks[r][x \div BlockSize + 1] = blocks[q][p \div BlockSize + 1]
        /\ r = q => x = p
    BY <1>12, <2>1, <2>3, OneSlot DEF Base
  <2>6. r = q
    BY <1>3, <2>1, <2>2, <2>4, <2>5 DEF SharedIsCached
  <2>7. QED
    BY <2>5, <2>6 DEF x
\* What the slots will hold.
<1>13. ASSUME NEW s, NEW id, Holds(s, id), \A o \in New : Slot(r, start + o) # s
       PROVE  Holds(s, id)'
  <2>1. CASE \E row \in DOMAIN batch : \E o \in Offsets(row) :
               WritesTo(row, o) = s /\ id = TokenMap[batch[row].ids[o + 1]]
    <3>1. \E row \in DOMAIN batch' : \E o \in Offsets(row)' :
            WritesTo(row, o)' = s /\ id = TokenMap[batch'[row].ids[o + 1]]
      BY <1>6, <1>8, <1>9, <2>1
    <3>2. QED
      BY <1>1, <3>1 DEF Holds
  <2>2. CASE /\ \A row \in DOMAIN batch : \A o \in Offsets(row) : WritesTo(row, o) # s
             /\ EnsureCache[1][s] = id
    <3>1. \A row \in DOMAIN batch' : \A o \in Offsets(row)' : WritesTo(row, o)' # s
      BY <1>7, <1>9, <1>13, <2>2
    <3>2. EnsureCache'[1][s] = id
      BY <1>10, <2>2
    <3>3. QED
      BY <1>1, <3>1, <3>2 DEF Holds
  <2>3. QED
    BY <1>1, <1>13, <2>1, <2>2 DEF Holds
<1>14. \A o \in New : \A s, id :
         s = Slot(r, start + o) /\ id = TokenMap[ids[o + 1]] => Holds(s, id)'
  <2> TAKE o \in New
  <2> TAKE s, id
  <2>1. HAVE s = Slot(r, start + o) /\ id = TokenMap[ids[o + 1]]
  <2>2. \E row \in DOMAIN batch' : \E u \in Offsets(row)' :
            WritesTo(row, u)' = s /\ id = TokenMap[batch'[row].ids[u + 1]]
    BY <1>6, <1>7, <1>9, <2>1
  <2>3. QED
    BY <1>1, <2>2 DEF Holds
<1> HIDE DEF New
<1>15. WritesDiffer'
  <2> SUFFICES ASSUME NEW row \in DOMAIN batch', NEW other \in DOMAIN batch', row # other,
                      NEW o \in Offsets(row)', NEW u \in Offsets(other)',
                      WritesTo(row, o)' = WritesTo(other, u)'
               PROVE  FALSE
    BY DEF WritesDiffer
  <2>1. ASSUME NEW k \in DOMAIN batch, NEW v \in Offsets(k), NEW w \in New,
               Slot(r, start + w) = WritesTo(k, v)
        PROVE  FALSE
    <3>1. /\ batch[k].req \in Requests /\ batch[k].start + v \in Nat
          /\ batch[k].start + v < Len(blocks[batch[k].req]) * BlockSize
      BY WritesInBlocks DEF Base
    <3>2. Slot(r, start + w) = Slot(batch[k].req, batch[k].start + v)
      BY <2>1 DEF WritesTo
    <3>3. batch[k].req = r
      BY <1>12, <3>1, <3>2
    <3>4. QED
      BY <1>6, <3>3
  <2>2. CASE row \in DOMAIN batch /\ other \in DOMAIN batch
    BY <1>1, <1>3, <1>9, <2>2 DEF WritesDiffer
  <2>3. CASE row \in DOMAIN batch /\ other = last
    <3>1. o \in Offsets(row) /\ u \in New /\ Slot(r, start + u) = WritesTo(row, o)
      BY <1>9, <2>3
    <3>2. QED
      BY <2>1, <2>3, <3>1
  <2>4. CASE row = last /\ other \in DOMAIN batch
    <3>1. u \in Offsets(other) /\ o \in New /\ Slot(r, start + o) = WritesTo(other, u)
      BY <1>9, <2>4
    <3>2. QED
      BY <2>1, <2>4, <3>1
  <2>5. QED
    BY <1>7, <2>2, <2>3, <2>4
<1>16. ComputedHeld'
  <2> SUFFICES ASSUME NEW q \in Requests, blocks[q] # <<>>, NEW p \in 0 .. computed[q] - 1
               PROVE  Holds(Slot(q, p), TokenMap[tokens[q][p + 1]])'
    BY <1>1 DEF ComputedHeld, ComputedHeldOf
  <2>1. PICK s, id : s = Slot(q, p) /\ id = TokenMap[tokens[q][p + 1]]
    OBVIOUS
  <2>2. Holds(s, id)
    BY <1>3, <2>1 DEF ComputedHeld, ComputedHeldOf
  <2>3. p \in Nat /\ p < computed[q] /\ p < Len(blocks[q]) * BlockSize
    <3>1. /\ computed[q] \in Nat /\ Len(blocks[q]) \in Nat /\ BlockSize \in Nat
          /\ computed[q] <= Len(blocks[q]) * BlockSize
      BY NgramAssumption DEF Base, PoolOK, RequestsOK
    <3>2. Len(blocks[q]) * BlockSize \in Nat
      BY <3>1
    <3>3. QED
      BY <3>1, <3>2
  <2>4. ASSUME NEW o \in New, Slot(r, start + o) = s PROVE FALSE
    <3>1. q = r /\ p = start + o
      BY <1>12, <2>1, <2>3, <2>4
    <3>2. o \in Nat
      BY <1>6 DEF New
    <3>3. QED
      BY <1>6, <2>3, <3>1, <3>2
  <2>5. Holds(s, id)'
    BY <1>13, <2>2, <2>4
  <2>6. s = Slot(q, p)' /\ id = TokenMap[tokens'[q][p + 1]]
    BY <1>1, <2>1 DEF Slot
  <2>7. QED
    BY <2>5, <2>6
<1>17. BatchHeld'
  <2> SUFFICES ASSUME NEW row \in DOMAIN batch', NEW o \in Offsets(row)'
               PROVE  Holds(WritesTo(row, o), TokenMap[batch[row].ids[o + 1]])'
    BY DEF BatchHeld
  <2>1. PICK s, id : s = WritesTo(row, o)' /\ id = TokenMap[batch'[row].ids[o + 1]]
    OBVIOUS
  <2>2. CASE row = last
    <3>1. o \in New /\ s = Slot(r, start + o) /\ id = TokenMap[ids[o + 1]]
      BY <1>6, <1>9, <2>1, <2>2
    <3>2. Holds(s, id)'
      BY <1>14, <3>1
    <3>3. QED
      BY <2>1, <3>2
  <2>3. CASE row \in DOMAIN batch
    <3>1. o \in Offsets(row) /\ s = WritesTo(row, o) /\ id = TokenMap[batch[row].ids[o + 1]]
      BY <1>6, <1>9, <2>1, <2>3
    <3>2. Holds(s, id)
      BY <1>3, <2>3, <3>1 DEF BatchHeld
    <3>3. ASSUME NEW w \in New, Slot(r, start + w) = s PROVE FALSE
      <4>1. WritesTo(last, w)' = WritesTo(row, o)' /\ w \in Offsets(last)'
        BY <1>9, <2>1, <3>3
      <4>2. pc' = "schedule" /\ row # last /\ row \in DOMAIN batch' /\ last \in DOMAIN batch'
        BY <1>1, <1>7, <1>8, <2>3
      <4>3. QED
        BY <1>15, <4>1, <4>2 DEF WritesDiffer
    <3>4. Holds(s, id)'
      BY <1>13, <3>2, <3>3
    <3>5. QED
      BY <2>1, <3>4
  <2>4. QED
    BY <1>7, <2>2, <2>3
\* The blocks of r the chunk fills, and the others.
<1> DEFINE fills(i) == i \in DOMAIN blocks[r] /\ i * BlockSize <= start + n
<1>18. /\ \A i : fills(i) =>
            /\ prefix'[blocks[r][i]] # None
            /\ Len(prefix'[blocks[r][i]]) = i * BlockSize
            /\ \A k \in 1 .. i * BlockSize : prefix'[blocks[r][i]][k] = tokens[r][k]
       /\ \A b \in AllBlocks : (\A i : fills(i) => blocks[r][i] # b) => prefix'[b] = prefix[b]
  BY <1>5 DEF Caches
<1>19. \A i \in DOMAIN blocks[r] : i \in Nat \ {0} /\ i * BlockSize \in Nat
  BY SMTT(30), <1>6
<1>20. CachedHeld'
  <2> SUFFICES ASSUME NEW b \in AllBlocks, prefix'[b] # None
               PROVE  \E m \in 1 .. Len(prefix'[b]) :
                        /\ Len(prefix'[b]) = m * BlockSize
                        /\ \A o \in 0 .. BlockSize - 1 :
                             Holds(b * BlockSize + o,
                                   TokenMap[prefix[b][(m - 1) * BlockSize + o + 1]])'
    BY DEF CachedHeld
  <2>1. CASE \E i : fills(i) /\ blocks[r][i] = b
    <3>1. PICK i : fills(i) /\ blocks[r][i] = b
      BY <2>1
    <3>2. /\ i \in Nat \ {0} /\ i * BlockSize \in Nat /\ i * BlockSize <= start + n
          /\ i \in DOMAIN blocks[r]
          /\ Len(prefix'[b]) = i * BlockSize
          /\ \A k \in 1 .. i * BlockSize : prefix'[b][k] = tokens[r][k]
      BY <1>18, <1>19, <3>1
    <3>3. i \in 1 .. Len(prefix'[b])
      BY SMTT(30), <1>6, <3>2
    <3>4. ASSUME NEW o \in 0 .. BlockSize - 1
          PROVE  Holds(b * BlockSize + o, TokenMap[prefix[b][(i - 1) * BlockSize + o + 1]])'
      <4> DEFINE p == (i - 1) * BlockSize + o
      <4>1. /\ (i - 1) * BlockSize \in Nat
            /\ i * BlockSize = (i - 1) * BlockSize + BlockSize
        BY <1>6, <3>2
      <4>2. p \in Nat /\ p < i * BlockSize /\ p + 1 \in 1 .. i * BlockSize
        <5>1. o \in Nat /\ o < BlockSize
          BY <1>24
        <5> DEFINE before == (i - 1) * BlockSize
                   e == i * BlockSize
        <5>2. before \in Nat /\ e = before + BlockSize /\ p = before + o
          BY <4>1
        <5> HIDE DEF before, e, p
        <5>3. p \in Nat /\ p < e /\ p + 1 \in 1 .. e
          BY <1>24, <5>1, <5>2
        <5>4. QED
          BY <5>3 DEF e
      <4>3. p \div BlockSize = i - 1 /\ p % BlockSize = o
        <5>1. i - 1 \in Nat /\ p = (i - 1) * BlockSize + o
          BY <3>2
        <5> DEFINE q == i - 1
        <5>2. q \in Nat /\ p = q * BlockSize + o
          BY <5>1
        <5> HIDE DEF p, q
        <5>5. BlockSize \in Nat \ {0} /\ o \in 0 .. BlockSize - 1
          BY <1>24
        <5>3. p \div BlockSize = q /\ p % BlockSize = o
          BY ZenonT(30), <4>2, <5>2, <5>5, DivMod
        <5>4. QED
          BY <5>3 DEF q
      <4>4. (i - 1) + 1 = i
        BY <3>2
      <4>5. Slot(r, p) = b * BlockSize + o
        BY <3>1, <4>3, <4>4 DEF Slot
      <4>6. prefix'[b][p + 1] = tokens[r][p + 1]
        BY <3>2, <4>2
      <4>7. (i - 1) * BlockSize + o + 1 = p + 1
        BY <1>6, <4>1
      <4> HIDE DEF p
      <4>8. PICK s, id : s = b * BlockSize + o /\ id = TokenMap[tokens[r][p + 1]]
        OBVIOUS
      <4>9. Holds(s, id)'
        <5>1. CASE p < start
          <6>1. blocks[r] # <<>> /\ p \in 0 .. computed[r] - 1
            BY <1>6, <3>2, <4>2, <5>1
          <6>2. Holds(s, id)
            BY <1>3, <4>5, <4>8, <6>1 DEF ComputedHeld, ComputedHeldOf
          <6>3. ASSUME NEW w \in New, Slot(r, start + w) = s PROVE FALSE
            <7>1. Slot(r, start + w) = Slot(r, p) /\ p < Len(blocks[r]) * BlockSize
              BY SMTT(30), <1>6, <4>2, <4>5, <4>8, <5>1, <6>3
            <7>2. p = start + w
              BY <1>12, <4>2, <7>1
            <7>3. w \in Nat
              BY <1>6 DEF New
            <7>4. QED
              BY <1>6, <4>2, <5>1, <7>2, <7>3
          <6>4. QED
            BY <1>13, <6>2, <6>3
        <5>2. CASE ~ (p < start)
          <6> DEFINE w == p - start
          <6>0. p < start + n
            <7> DEFINE e == i * BlockSize
            <7>1. e \in Nat /\ e <= start + n /\ p < e
              BY <3>2, <4>2
            <7> HIDE DEF e
            <7>2. QED
              BY <1>24, <4>2, <7>1
          <6>1. /\ w \in 0 .. n - 1 /\ start + w = p /\ start + (w + 1) = p + 1
                /\ w + 1 \in 1 .. n
            BY SMTT(30), <1>24, <4>2, <5>2, <6>0
          <6>2. w \in New
            BY <1>6, <6>1 DEF New
          <6> HIDE DEF w
          <6>3. ids[w + 1] = tokens[r][p + 1]
            BY SMTT(30), <1>6, <6>1
          <6>4. s = Slot(r, start + w) /\ id = TokenMap[ids[w + 1]]
            BY <4>5, <4>8, <6>1, <6>3
          <6>5. QED
            BY <1>14, <6>2, <6>4
        <5>3. QED
          BY <5>1, <5>2
      <4>10. id = TokenMap[prefix'[b][(i - 1) * BlockSize + o + 1]]
        BY <4>6, <4>7, <4>8
      <4>11. QED
        BY <4>8, <4>9, <4>10
    <3>5. QED
      BY <3>2, <3>3, <3>4
  <2>2. CASE \A i : fills(i) => blocks[r][i] # b
    <3>1. prefix'[b] = prefix[b]
      BY <1>18, <2>2
    <3>2. PICK m \in 1 .. Len(prefix[b]) :
            /\ Len(prefix[b]) = m * BlockSize
            /\ \A o \in 0 .. BlockSize - 1 :
                 Holds(b * BlockSize + o, TokenMap[prefix[b][(m - 1) * BlockSize + o + 1]])
      BY <1>3, <3>1 DEF CachedHeld
    <3>3. ASSUME NEW o \in 0 .. BlockSize - 1
          PROVE  Holds(b * BlockSize + o, TokenMap[prefix[b][(m - 1) * BlockSize + o + 1]])'
      <4>1. PICK s, id : /\ s = b * BlockSize + o
                         /\ id = TokenMap[prefix[b][(m - 1) * BlockSize + o + 1]]
        OBVIOUS
      <4>2. Holds(s, id)
        BY <3>2, <4>1
      <4>3. ASSUME NEW w \in New, Slot(r, start + w) = s PROVE FALSE
        <5> DEFINE x == start + w
                   c == blocks[r][x \div BlockSize + 1]
        <5>1. x \in Nat /\ x < Len(blocks[r]) * BlockSize /\ prefix[c] = None
          BY <1>11
        <5>4. Slot(r, x) = s
          BY <4>3
        <5> HIDE DEF x
        <5>2. /\ Slot(r, x) = c * BlockSize + (x % BlockSize) /\ c \in Nat
              /\ x % BlockSize \in 0 .. BlockSize - 1
          BY <5>1, SlotAt DEF Base
        <5>3. b \in Nat
          BY <3>1, BlockSlots DEF Base
        <5> HIDE DEF c
        <5>5. b = c
          BY <4>1, <5>2, <5>3, <5>4, OnePlace
        <5>6. QED
          BY <3>1, <5>1, <5>5
      <4>4. Holds(s, id)'
        BY <1>13, <4>2, <4>3
      <4>5. id = TokenMap[prefix'[b][(m - 1) * BlockSize + o + 1]]
        BY <3>1, <4>1
      <4>6. QED
        BY <4>1, <4>4, <4>5
    <3>4. QED
      BY <3>1, <3>2, <3>3
  <2>3. QED
    BY <2>1, <2>2
<1>21. SharedIsCached'
  <2> SUFFICES ASSUME NEW q \in Requests, NEW y \in Requests, q # y,
                      NEW i \in DOMAIN blocks[q], NEW j \in DOMAIN blocks[y],
                      blocks[q][i] = blocks[y][j]
               PROVE  prefix'[blocks[q][i]] # None
    BY <1>1 DEF SharedIsCached
  <2>1. prefix[blocks[q][i]] # None /\ blocks[q][i] \in AllBlocks
    BY <1>3 DEF SharedIsCached, Base, PoolOK, RequestsOK
  <2>2. CASE \E k : fills(k) /\ blocks[r][k] = blocks[q][i]
    BY <1>18, <2>2
  <2>3. CASE \A k : fills(k) => blocks[r][k] # blocks[q][i]
    BY <1>18, <2>1, <2>3
  <2>4. QED
    BY <2>2, <2>3
<1>22. CachedIsText'
  <2> SUFFICES ASSUME NEW q \in Requests, NEW i \in DOMAIN blocks[q],
                      prefix'[blocks[q][i]] # None
               PROVE  LET text == prefix'[blocks[q][i]] IN
                 /\ Len(text) = i * BlockSize /\ i * BlockSize <= Len(tokens[q])
                 /\ \A k \in 1 .. i * BlockSize : text[k] = tokens[q][k]
                 /\ ~Scheduled(q)' => i * BlockSize <= computed[q]
                 /\ \A row \in DOMAIN batch' : batch'[row].req = q =>
                      i * BlockSize <= batch'[row].start + Len(batch'[row].ids)
    BY <1>1 DEF CachedIsText, CachedIsTextOf
  <2> DEFINE b == blocks[q][i]
  <2>1. b \in AllBlocks
    BY DEF Base, PoolOK, RequestsOK
  <2>2. /\ Scheduled(r)'
        /\ \A row \in DOMAIN batch' : batch'[row].req = r => row = last
    BY <1>6, <1>7 DEF Scheduled
  <2>3. CASE q = r
    <3>1. fills(i)
      <4> SUFFICES ASSUME ~fills(i) PROVE FALSE
        OBVIOUS
      <4>1. \A j : fills(j) => blocks[r][j] # b
        BY <2>3 DEF Base, PoolOK, RequestsOK, BlocksDiffer
      <4>2. prefix[b] # None
        BY <1>18, <2>1, <4>1
      <4>3. i * BlockSize <= start
        BY <1>1, <1>3, <2>3, <4>2 DEF CachedIsText, CachedIsTextOf
      <4>4. i * BlockSize <= start + n
        BY <1>6, <1>19, <2>3, <4>3
      <4>5. QED
        BY <2>3, <4>4
    <3>2. i * BlockSize <= start + n /\ i * BlockSize \in Nat
      BY <1>19, <2>3, <3>1
    <3>3. i * BlockSize <= Len(tokens[r]) /\ i * BlockSize <= start + Len(ids)
      BY <1>6, <3>2
    <3>4. /\ Len(prefix'[b]) = i * BlockSize
          /\ \A k \in 1 .. i * BlockSize : prefix'[b][k] = tokens[q][k]
      BY <1>18, <2>3, <3>1
    <3>5. ASSUME NEW row \in DOMAIN batch', batch'[row].req = q
          PROVE  i * BlockSize <= batch'[row].start + Len(batch'[row].ids)
      <4>1. row = last
        BY <2>2, <2>3, <3>5
      <4>2. QED
        BY <1>25, <3>3, <4>1
    <3>6. QED
      BY <2>2, <2>3, <3>3, <3>4, <3>5
  <2>4. CASE q # r
    <3>1. /\ Scheduled(q)' <=> Scheduled(q)
          /\ \A row \in DOMAIN batch' : batch'[row].req = q =>
               row \in DOMAIN batch /\ batch'[row] = batch[row]
      BY <1>6, <1>7, <1>8, <2>4 DEF Scheduled
    <3>2. CachedIsTextOf(q)
      BY <1>3 DEF CachedIsText
    <3>3. CASE \E k : fills(k) /\ blocks[r][k] = b
      <4>1. PICK k : fills(k) /\ blocks[r][k] = b
        BY <3>3
      <4>2. prefix[b] # None
        BY <1>3, <2>4, <4>1 DEF SharedIsCached
      <4>3. /\ Len(prefix[b]) = k * BlockSize
            /\ \A z \in 1 .. k * BlockSize : prefix[b][z] = tokens[r][z]
        BY <1>3, <4>1, <4>2 DEF CachedIsText, CachedIsTextOf
      <4>4. /\ Len(prefix[b]) = i * BlockSize /\ i * BlockSize <= Len(tokens[q])
            /\ \A z \in 1 .. i * BlockSize : prefix[b][z] = tokens[q][z]
            /\ ~Scheduled(q) => i * BlockSize <= computed[q]
            /\ \A row \in DOMAIN batch : batch[row].req = q =>
                 i * BlockSize <= batch[row].start + Len(batch[row].ids)
        BY <3>2, <4>2 DEF CachedIsTextOf
      <4>5. /\ Len(prefix'[b]) = k * BlockSize
            /\ \A z \in 1 .. k * BlockSize : prefix'[b][z] = tokens[r][z]
        BY <1>18, <4>1
      <4>6. /\ k * BlockSize = i * BlockSize
            /\ \A z \in 1 .. i * BlockSize : prefix'[b][z] = tokens[q][z]
        BY <4>3, <4>4, <4>5
      <4>7. QED
        BY <3>1, <4>4, <4>5, <4>6
    <3>4. CASE \A k : fills(k) => blocks[r][k] # b
      <4>1. prefix'[b] = prefix[b]
        BY <1>18, <2>1, <3>4
      <4>2. QED
        BY <3>1, <3>2, <4>1 DEF CachedIsTextOf
    <3>5. QED
      BY <3>3, <3>4
  <2>5. QED
    BY <2>3, <2>4
<1>23. QED
  BY <1>15, <1>16, <1>17, <1>20, <1>21, <1>22

\* A row's outcome keeps what the slots hold: what is computed of the row was written.
LEMMA SampleSlots ==
  ASSUME Base, SlotsOK, NEW accepted \in 0 .. MaxLen, NEW token \in Generated,
         Sample(accepted, token)
  PROVE  SlotsOK'
<1> SUFFICES ASSUME SlotsOnly'
             PROVE  (/\ CachedIsText /\ SharedIsCached /\ WritesDiffer
                     /\ ComputedHeld /\ CachedHeld /\ BatchHeld)'
  BY DEF SlotsOK
<1>1. /\ pc = "sample" /\ batch' = Tail(batch) /\ batch # <<>>
      /\ pc' = IF Len(batch) = 1 THEN "schedule" ELSE "sample"
      /\ UNCHANGED <<runner, bound, cache, cache_ref, prefix>>
  BY DEF Sample, Base, BatchOK
<1>2. SlotsOnly
  BY <1>1 DEF SlotsOnly, V2, Connector
<1>3. /\ CachedIsText /\ SharedIsCached
      /\ ComputedHeld /\ CachedHeld /\ BatchHeld
  BY <1>2 DEF SlotsOK
<1>4. 1 \in DOMAIN batch /\ \E text, done, own : Outcome(text, done, own)
  BY SampleGives
<1>5. PICK text, done, own : Outcome(text, done, own)
  BY <1>4
<1>6. PICK r, start, ids : r = batch[1].req /\ start = batch[1].start /\ ids = batch[1].ids
  OBVIOUS
<1>7. /\ tokens' = [tokens EXCEPT ![r] = text]
      /\ computed' = [computed EXCEPT ![r] = done]
      /\ blocks' = [blocks EXCEPT ![r] = own]
      /\ text \in Seq(Tokens) /\ Len(tokens[r]) <= Len(text)
      /\ \A k \in 1 .. Len(tokens[r]) : text[k] = tokens[r][k]
      /\ done \in Nat /\ start <= done /\ done <= start + Len(ids) /\ done <= Len(text)
      /\ \A o \in 1 .. done - start : text[start + o] = ids[o]
      /\ \A x \in Nat : x <= Len(tokens[r]) /\ x <= start + Len(ids) => x <= done
      /\ own = blocks[r] \/ (own = <<>> /\ ~ (Len(text) < MaxLen))
  BY <1>5, <1>6 DEF Outcome
<1>8. /\ r \in Requests /\ start \in Nat /\ start < Len(tokens[r])
      /\ Len(ids) \in Nat \ {0} /\ tokens[r] \in Seq(Tokens) /\ Len(tokens[r]) \in Nat
      /\ start = computed[r] /\ blocks[r] # <<>>
      /\ Offsets(1) = 0 .. Len(ids) - 1
  <2>1. tokens[r] \in Seq(Tokens) => Len(tokens[r]) \in Nat
    OBVIOUS
  <2>2. QED
    BY <1>4, <1>6, <2>1, TextOf, RowHasBlocks DEF Base, Offsets
<1>9. /\ tokens'[r] = text /\ computed'[r] = done /\ blocks'[r] = own
      /\ \A q \in Requests : q # r =>
           tokens'[q] = tokens[q] /\ computed'[q] = computed[q] /\ blocks'[q] = blocks[q]
  BY <1>7, <1>8 DEF Base, PoolOK, RequestsOK
<1>10. /\ Len(batch) = 1 <=> batch' = <<>>
       /\ \A row \in DOMAIN batch' :
            /\ row + 1 \in DOMAIN batch
            /\ batch'[row] = batch[row + 1]
            /\ batch[row + 1].req \in Requests /\ batch[row + 1].req # r
       /\ \A row \in DOMAIN batch : row # 1 =>
            row - 1 \in DOMAIN batch' /\ batch'[row - 1] = batch[row]
  <2>1. \A row \in DOMAIN batch : batch[row].req \in Requests
    BY TextOf DEF Base
  <2>2. QED
    BY <1>1, <1>6, <2>1, RowsLeft
<1>11. \A s, id : Holds(s, id) => Holds(s, id)'
  <2> SUFFICES ASSUME NEW s, NEW id, Holds(s, id) PROVE Holds(s, id)'
    OBVIOUS
  <2>1. cache[s] = id
    BY <1>1 DEF Holds
  <2>2. CASE Len(batch) = 1
    <3>1. batch' = <<>> /\ pc' = "schedule"
      BY <1>1, <1>10, <2>2
    <3>2. bound # 0
      <4>1. bound = Len(Pools)
        BY <1>8 DEF Base, PoolOK, RequestsOK
      <4>2. QED
        BY <4>1, NgramAssumption
    <3>3. NumBlocks' # 0 /\ cache_ref = bound /\ ~V2'
      <4>1. NumBlocks # 0
        BY <3>2, EnsureIs DEF Base
      <4>2. NumBlocks' = NumBlocks /\ V2' = V2
        BY <1>1 DEF NumBlocks, V2
      <4>3. QED
        BY <1>1, <1>2, <4>1, <4>2 DEF Base, TypeOK, SlotsOnly
    <3>4. EnsureCache' = <<cache, cache_ref>>
      BY <1>1, <3>3 DEF EnsureCache
    <3>5. EnsureCache'[1][s] = id
      BY <2>1, <3>4
    <3>6. DOMAIN batch' = {}
      BY <3>1
    <3>7. QED
      BY <3>1, <3>5, <3>6 DEF Holds
  <2>3. CASE Len(batch) # 1
    BY <1>1, <2>1, <2>3 DEF Holds
  <2>4. QED
    BY <2>2, <2>3
<1>12. CachedIsText'
  <2>1. \A q \in Requests : q # r => (Scheduled(q)' <=> Scheduled(q))
    <3> TAKE q \in Requests
    <3>1. HAVE q # r
    <3>2. Scheduled(q) => Scheduled(q)'
      BY <1>6, <1>10, <3>1 DEF Scheduled
    <3>3. Scheduled(q)' => Scheduled(q)
      BY <1>10 DEF Scheduled
    <3>4. QED
      BY <3>2, <3>3
  <2>2. ASSUME NEW q \in Requests, q # r PROVE CachedIsTextOf(q)'
    <3>1. CachedIsTextOf(q) /\ (Scheduled(q)' <=> Scheduled(q))
      BY <1>3, <2>1, <2>2 DEF CachedIsText
    <3>2. tokens'[q] = tokens[q] /\ computed'[q] = computed[q] /\ blocks'[q] = blocks[q]
      BY <1>9, <2>2
    <3>3. QED
      BY <1>1, <1>10, <3>1, <3>2 DEF CachedIsTextOf
  <2>3. CachedIsTextOf(r)'
    <3>1. CASE own = <<>>
      BY <1>9, <3>1 DEF CachedIsTextOf
    <3>2. CASE own = blocks[r]
      <4> SUFFICES ASSUME NEW i \in DOMAIN blocks[r], prefix[blocks[r][i]] # None
                   PROVE  LET cached == prefix[blocks[r][i]] IN
                     /\ Len(cached) = i * BlockSize /\ i * BlockSize <= Len(text)
                     /\ \A k \in 1 .. i * BlockSize : cached[k] = text[k]
                     /\ i * BlockSize <= done
                     /\ \A row \in DOMAIN batch' : batch'[row].req # r
        BY <1>1, <1>9, <3>2 DEF CachedIsTextOf
      <4> DEFINE e == i * BlockSize
                 cached == prefix[blocks[r][i]]
      <4>1. /\ Len(cached) = e /\ e <= Len(tokens[r])
            /\ \A k \in 1 .. e : cached[k] = tokens[r][k]
            /\ e <= start + Len(ids)
        BY <1>3, <1>4, <1>6, <1>8 DEF CachedIsText, CachedIsTextOf
      <4>2. e \in Nat
        <5>1. i \in Nat
          BY <1>8 DEF Base, PoolOK, RequestsOK
        <5>2. QED
          BY <5>1, NgramAssumption
      <4> HIDE DEF e, cached
      <4>3. e <= done
        BY <1>7, <4>1, <4>2
      <4>4. e <= Len(text)
        <5>1. Len(text) \in Nat
          BY <1>7
        <5>2. QED
          BY <1>7, <4>2, <4>3, <5>1
      <4>5. \A k \in 1 .. e : cached[k] = text[k]
        <5>1. \A k \in 1 .. e : k \in 1 .. Len(tokens[r])
          BY <1>8, <4>1, <4>2
        <5>2. QED
          BY <1>7, <4>1, <5>1
      <4>6. \A row \in DOMAIN batch' : batch'[row].req # r
        BY <1>10
      <4>7. QED
        BY <4>1, <4>3, <4>4, <4>5, <4>6 DEF e, cached
    <3>3. QED
      BY <1>7, <3>1, <3>2
  <2>4. QED
    BY <2>2, <2>3 DEF CachedIsText
<1>13. SharedIsCached'
  <2> SUFFICES ASSUME NEW q \in Requests, NEW x \in Requests, q # x,
                      NEW i \in DOMAIN blocks'[q], NEW j \in DOMAIN blocks'[x],
                      blocks'[q][i] = blocks'[x][j]
               PROVE  prefix[blocks'[q][i]] # None
    BY <1>1 DEF SharedIsCached
  <2>1. \A y \in Requests : DOMAIN blocks'[y] = {} \/ blocks'[y] = blocks[y]
    BY <1>7, <1>9
  <2>2. blocks'[q] = blocks[q] /\ blocks'[x] = blocks[x]
    BY <2>1
  <2>3. QED
    BY <1>3, <2>2 DEF SharedIsCached
<1>14. WritesDiffer'
  <2> SUFFICES ASSUME pc' = "schedule" PROVE \A row, other \in DOMAIN batch' : FALSE
    BY DEF WritesDiffer
  <2>1. batch' = <<>>
    BY <1>1, <1>10
  <2>2. QED
    BY <2>1
<1>15. ComputedHeld'
  <2>1. ComputedHeldOf(r)'
    <3> SUFFICES ASSUME own # <<>>, NEW p \in 0 .. done - 1
                 PROVE  Holds(Slot(r, p), TokenMap[tokens[r][p + 1]])'
      BY <1>9 DEF ComputedHeldOf
    <3>1. own = blocks[r]
      BY <1>7
    <3>2. PICK s, id : s = Slot(r, p) /\ id = TokenMap[text[p + 1]]
      OBVIOUS
    <3>3. Holds(s, id)
      <4>1. CASE p < start
        <5>1. p \in 0 .. computed[r] - 1 /\ p + 1 \in 1 .. Len(tokens[r])
          BY SMTT(30), <1>7, <1>8, <4>1
        <5>2. text[p + 1] = tokens[r][p + 1]
          BY <1>7, <5>1
        <5>3. QED
          BY <1>3, <1>8, <3>2, <5>1, <5>2 DEF ComputedHeld, ComputedHeldOf
      <4>2. CASE ~ (p < start)
        <5> DEFINE o == p - start
        <5>0. /\ p \in Int /\ done \in Int /\ start \in Int /\ Len(ids) \in Int
              /\ start <= p /\ p < done /\ done <= start + Len(ids)
          BY <1>7, <1>8, <4>2
        <5>1. /\ o \in 0 .. Len(ids) - 1 /\ o + 1 \in 1 .. done - start
              /\ start + o = p /\ start + (o + 1) = p + 1
          BY <5>0
        <5> HIDE DEF o
        <5>2. o \in Offsets(1) /\ text[p + 1] = ids[o + 1]
          BY <1>7, <1>8, <5>1
        <5>3. Holds(WritesTo(1, o), TokenMap[ids[o + 1]])
          BY <1>3, <1>4, <1>6, <5>2 DEF BatchHeld
        <5>4. WritesTo(1, o) = s
          BY <1>6, <3>2, <5>1 DEF WritesTo
        <5>5. QED
          BY <3>2, <5>2, <5>3, <5>4
      <4>3. QED
        BY <4>1, <4>2
    <3>4. Holds(s, id)'
      BY <1>11, <3>3
    <3>5. s = Slot(r, p)' /\ id = TokenMap[tokens'[r][p + 1]]
      BY <1>9, <3>1, <3>2 DEF Slot
    <3>6. QED
      BY <3>4, <3>5
  <2>2. \A q \in Requests : q # r => ComputedHeldOf(q)'
    BY <1>3, <1>9, <1>11, ComputedKept DEF ComputedHeld
  <2>3. QED
    BY <2>1, <2>2 DEF ComputedHeld
<1>16. CachedHeld'
  <2> SUFFICES ASSUME NEW b \in AllBlocks, prefix[b] # None
               PROVE  \E m \in 1 .. Len(prefix'[b]) :
                        /\ Len(prefix'[b]) = m * BlockSize
                        /\ \A o \in 0 .. BlockSize - 1 :
                             Holds(b * BlockSize + o,
                                   TokenMap[prefix[b][(m - 1) * BlockSize + o + 1]])'
    BY <1>1 DEF CachedHeld
  <2>1. PICK m \in 1 .. Len(prefix[b]) :
          /\ Len(prefix[b]) = m * BlockSize
          /\ \A o \in 0 .. BlockSize - 1 :
               Holds(b * BlockSize + o, TokenMap[prefix[b][(m - 1) * BlockSize + o + 1]])
    BY <1>3 DEF CachedHeld
  <2>2. ASSUME NEW o \in 0 .. BlockSize - 1
        PROVE  Holds(b * BlockSize + o, TokenMap[prefix[b][(m - 1) * BlockSize + o + 1]])'
    <3>1. PICK s, id : /\ s = b * BlockSize + o
                       /\ id = TokenMap[prefix[b][(m - 1) * BlockSize + o + 1]]
      OBVIOUS
    <3>2. Holds(s, id)
      BY <2>1, <3>1
    <3>3. Holds(s, id)'
      BY <1>11, <3>2
    <3>4. id = TokenMap[prefix'[b][(m - 1) * BlockSize + o + 1]]
      BY <1>1, <3>1
    <3>5. QED
      BY <3>1, <3>3, <3>4
  <2>3. QED
    BY <1>1, <2>1, <2>2
<1>17. BatchHeld'
  <2> SUFFICES ASSUME NEW row \in DOMAIN batch', NEW o \in Offsets(row)'
               PROVE  Holds(WritesTo(row, o), TokenMap[batch[row].ids[o + 1]])'
    BY DEF BatchHeld
  <2>1. PICK s, id : s = WritesTo(row, o)' /\ id = TokenMap[batch'[row].ids[o + 1]]
    OBVIOUS
  <2>2. PICK next : next = row + 1
    OBVIOUS
  <2>3. /\ next \in DOMAIN batch /\ batch'[row] = batch[next]
        /\ batch[next].req \in Requests /\ batch[next].req # r
    BY <1>10, <2>2
  <2>4. o \in Offsets(next) /\ s = WritesTo(next, o) /\ id = TokenMap[batch[next].ids[o + 1]]
    BY <1>9, <2>1, <2>3 DEF Offsets, WritesTo, Slot
  <2>5. Holds(s, id)
    BY <1>3, <2>3, <2>4 DEF BatchHeld
  <2>6. Holds(s, id)'
    BY <1>11, <2>5
  <2>7. QED
    BY <2>1, <2>6
<1>18. QED
  BY <1>12, <1>13, <1>14, <1>15, <1>16, <1>17

-----------------------------------------------------------------------------
(* The theorems.                                                            *)

LEMMA InitInv ==
  ASSUME Init
  PROVE  Inv
<1>1. Base
  BY InitBase
<1>2. SlotsOK
  <2>1. /\ batch = <<>> /\ \A b \in AllBlocks : prefix[b] = None
        /\ \A r \in Requests : blocks[r] = <<>>
    BY DEF Init
  <2>2. DOMAIN batch = {} /\ \A r \in Requests : DOMAIN blocks[r] = {}
    BY <2>1
  <2>3. CachedIsText /\ SharedIsCached /\ WritesDiffer
    BY <2>2 DEF CachedIsText, CachedIsTextOf, SharedIsCached, WritesDiffer
  <2>4. ComputedHeld /\ CachedHeld /\ BatchHeld
    BY <2>1, <2>2 DEF ComputedHeld, ComputedHeldOf, CachedHeld, BatchHeld
  <2>5. QED
    BY <2>3, <2>4 DEF SlotsOK
<1>3. Exact
  BY DEF Init, Exact, HashesExact
<1>4. QED
  BY <1>1, <1>2, <1>3 DEF Inv, Base

\* A step that hashes nothing leaves what was hashed as it is, or forgets it.
LEMMA ExactKept ==
  ASSUME Exact, runner' = runner, hashed' = hashed \/ hashed' = {}
  PROVE  Exact'
BY DEF Exact, HashesExact, V2, Connector

LEMMA NextInv ==
  ASSUME Inv, [Next]_vars
  PROVE  Inv'
<1>1. Base /\ SlotsOK /\ Exact
  BY DEF Inv, Base
<1> SUFFICES Base' /\ SlotsOK' /\ Exact'
  BY DEF Inv, Base
<1>2. CASE BindKVCache
  <2>1. Exact'
    BY <1>1, <1>2, ExactKept DEF BindKVCache
  <2>2. QED
    BY <1>1, <1>2, <2>1, BindBase, BindSlots
<1>3. CASE DummyForward
  <2>1. Exact'
    BY <1>1, <1>3, ExactKept DEF DummyForward
  <2>2. QED
    BY <1>1, <1>3, <2>1, DummyBase, DummySlots
<1>4. CASE RunStep
  <2>1. runner' = runner /\ hashed' = Hashed(cache') /\ V2' = V2 /\ Connector' = Connector
    BY <1>4 DEF RunStep, V2, Connector
  <2>2. cache' = IF V2 THEN None ELSE Written(EnsureCache[1])
    BY <1>4 DEF RunStep
  <2>3. bound # 0 /\ pc = "schedule" /\ Base'
    BY <1>1, <1>4, RunStepBase
  <2>4. ASSUME V2 \/ ~Connector PROVE HashesExact'
    <3>1. PICK c : c = cache'
      OBVIOUS
    <3>2. \A h \in Hashed(c) : h[2] = NgramOf(h[1])
      BY <1>1, <2>2, <2>3, <2>4, <3>1, StepIsExact DEF Base
    <3>3. QED
      BY <2>1, <3>1, <3>2 DEF HashesExact
  <2>5. Exact'
    BY <2>1, <2>4 DEF Exact
  <2>6. QED
    BY <1>1, <1>4, <2>3, <2>5, RunStepSlots
<1>5. CASE \E r \in Requests : Hit(r)
  <2>1. PICK r \in Requests : Hit(r)
    BY <1>5
  <2>2. Exact'
    BY <1>1, <2>1, ExactKept DEF Hit
  <2>3. QED
    BY <1>1, <2>1, <2>2, HitBase, HitSlots
<1>6. CASE \E r \in Requests : Preempt(r)
  <2>1. PICK r \in Requests : Preempt(r)
    BY <1>6
  <2>2. Exact'
    BY <1>1, <2>1, ExactKept DEF Preempt
  <2>3. QED
    BY <1>1, <2>1, <2>2, PreemptBase, PreemptSlots
<1>7. CASE \E r \in Requests : \E b \in AllBlocks : Allocate(r, b)
  <2>1. PICK r \in Requests : \E b \in AllBlocks : Allocate(r, b)
    BY <1>7
  <2>2. PICK b \in AllBlocks : Allocate(r, b)
    BY <2>1
  <2>3. Exact'
    BY <1>1, <2>2, ExactKept DEF Allocate
  <2>4. QED
    BY <1>1, <2>2, <2>3, AllocateBase, AllocateSlots
<1>8. CASE \E r \in Requests : \E n \in 1 .. MaxLen, drafts \in Drafts : Schedule(r, n, drafts)
  <2>1. PICK r \in Requests : \E n \in 1 .. MaxLen, drafts \in Drafts : Schedule(r, n, drafts)
    BY <1>8
  <2>2. PICK n \in 1 .. MaxLen, drafts \in Drafts : Schedule(r, n, drafts)
    BY <2>1
  <2>3. Exact'
    BY <1>1, <2>2, ExactKept DEF Schedule
  <2>4. QED
    BY <1>1, <2>2, <2>3, ScheduleBase, ScheduleSlots
<1>9. CASE \E accepted \in 0 .. MaxLen, token \in Generated : Sample(accepted, token)
  <2>1. PICK accepted \in 0 .. MaxLen, token \in Generated : Sample(accepted, token)
    BY <1>9
  <2>2. Exact'
    BY <1>1, <2>1, ExactKept DEF Sample
  <2>3. QED
    BY <1>1, <2>1, <2>2, SampleBase, SampleSlots
<1>10. CASE UNCHANGED vars
  <2>1. UNCHANGED <<runner, pc, bound, cache, cache_ref, tokens, computed, blocks, prefix,
                    batch, hashed>>
    BY <1>10 DEF vars
  <2>2. Base'
    BY <1>1, <2>1 DEF Base, TypeOK, BatchOK, PoolOK, RequestsOK, BlocksDiffer, RowOK, V2,
                      NumBlocks
  <2>3. EnsureCache' = EnsureCache
    BY <2>1 DEF EnsureCache, NumBlocks, V2
  <2>4. \A s, id : Holds(s, id)' <=> Holds(s, id)
    BY <2>1, <2>3 DEF Holds, Offsets, WritesTo, Slot
  <2>5. SlotsOK'
    BY <1>1, <2>1, <2>4 DEF SlotsOK, SlotsOnly, V2, Connector, CachedIsText, CachedIsTextOf,
       Scheduled, SharedIsCached, WritesDiffer, ComputedHeld, ComputedHeldOf, CachedHeld,
       BatchHeld, Offsets, WritesTo, Slot
  <2>6. QED
    BY <1>1, <2>1, <2>2, <2>5, ExactKept
<1>11. QED
  BY <1>2, <1>3, <1>4, <1>5, <1>6, <1>7, <1>8, <1>9, <1>10 DEF Next

\* The invariant holds for all prompts, vocabularies, pools, block sizes, n-gram sizes,
\* drafts, bounds and runners.
THEOREM SpecInv == Spec => []Inv
<1>1. Init => Inv
  BY InitInv
<1>2. Inv /\ [Next]_vars => Inv'
  BY NextInv
<1>3. QED
  BY <1>1, <1>2, PTL DEF Spec

\* The variables keep their types, and a slot cache covers the pool it serves.
THEOREM TypeCorrect == Spec => []TypeOK
<1>1. Inv => TypeOK
  BY DEF Inv
<1>2. QED
  BY <1>1, SpecInv, PTL

\* On the V2 runner, and on the V1 runner where no KV comes from another instance,
\* every position is hashed from the n-gram of its own request's text, however the text
\* was cut into chunks, rolled back, preempted and resumed, or shared.
THEOREM HashedFromOwnText == Spec => [](V2 \/ ~Connector => HashesExact)
<1>1. Inv => (V2 \/ ~Connector => HashesExact)
  BY DEF Inv, Exact
<1>2. QED
  BY <1>1, SpecInv, PTL

\* Where no KV comes from another instance, a lookback reads back what the owning request
\* wrote: after a step the slot of every computed position holds its own token's id.
THEOREM SlotsAreOwn == Spec => [](~Connector => SlotsHoldHistory)
<1>1. ASSUME Inv, ~Connector PROVE SlotsHoldHistory
  <2> SUFFICES ASSUME pc = "sample", ~V2, NEW r \in Requests, blocks[r] # <<>>,
                      NEW p \in 0 .. computed[r] - 1
               PROVE  cache[Slot(r, p)] = TokenMap[tokens[r][p + 1]]
    BY DEF SlotsHoldHistory
  <2>1. ComputedHeld
    BY <1>1 DEF Inv, SlotsOK, SlotsOnly
  <2>2. Holds(Slot(r, p), TokenMap[tokens[r][p + 1]])
    BY <2>1 DEF ComputedHeld, ComputedHeldOf
  <2>3. QED
    BY <2>2 DEF Holds
<1>2. QED
  BY <1>1, SpecInv, PTL
=============================================================================
