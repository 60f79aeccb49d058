------------------------- MODULE SwaMetadata_proofs -------------------------
(***************************************************************************)
(* Proofs about SwaMetadata. The invariant follows the keys: which blocks a  *)
(* request's table names, that no block is named twice, and that the slots   *)
(* of the positions its next token can see hold its own keys of this epoch;  *)
(* then what a pass's queries may be, what the builder left in the buffers   *)
(* the layers read, and what the tokens read.                                *)
(***************************************************************************)
EXTENDS SwaMetadata, SumLemmas

\* A position's place in a request's block table, and the request's reserved room.
BlockOf(p) == p \div BlockSize + 1
Room(r) == Len(table[r]) * BlockSize

Key(r, p) == [req |-> r, epoch |-> epoch[r], pos |-> p]

\* Position p of request r has a block, and the block's slot holds its key.
Held(r, p) ==
  /\ BlockOf(p) \in DOMAIN table[r]
  /\ table[r][BlockOf(p)] \in Blocks
  /\ kv[SlotOf(r, p)] = Key(r, p)

\* Blocks the window has not left are there, and none is named twice.
TablesOK ==
  /\ DOMAIN table = Requests
  /\ \A r \in Requests :
       /\ table[r] \in Seq(0 .. NumBlocks)
       /\ \A i \in DOMAIN table[r] : i > Skipped(r) => table[r][i] # 0
  /\ \A r, q \in Requests : \A i \in DOMAIN table[r], j \in DOMAIN table[q] :
       table[r][i] = table[q][j] /\ table[r][i] # 0 => r = q /\ i = j

\* The keys the next token of a request sees are in the cache.
KeysHeld ==
  \A r \in Requests : \A p \in Nat :
    computed[r] - Window + 1 <= p /\ p < computed[r] => Held(r, p)

\* A query of the target's pass: the tokens that come next, with room for the drafts
\* after them; an image is computed whole.
TargetQuery(q) ==
  /\ q.start = computed[q.req]
  /\ q.start + q.n <= MaxLen
  /\ q.start + q.n + NumSpec[drafter] + 1 <= Room(q.req)
  /\ \/ q.start + q.n <= PromptLen[q.req] /\ Atomic(q.req, q.start, q.start + q.n)
     \/ PromptLen[q.req] <= q.start /\ q.n <= 1 + NumSpec[drafter]

\* A query of a draft pass.
DraftQuery(q) ==
  /\ PromptLen[q.req] <= computed[q.req]
  /\ computed[q.req] + NumSpec[drafter] + 1 <= Room(q.req)
  /\ q.start = computed[q.req] + (IF drafter = "mtp" THEN drafts - 1 ELSE 0)
  /\ q.n = (IF drafter = "dspark" THEN DraftBlock ELSE 1)

QuerySet == [req : Requests, start : Nat, n : Nat \ {0}]

QueriesOK ==
  /\ queries \in Seq(QuerySet)
  /\ \A i, j \in DOMAIN queries : queries[i].req = queries[j].req => i = j
  /\ Total(queries) <= MaxTokens
  /\ \A i \in DOMAIN queries :
       IF drafts = 0 THEN TargetQuery(queries[i]) ELSE DraftQuery(queries[i])

\* The keys the queries see are in the cache: those before a query, and, once the
\* layers have run, the query's own.
RowsHeld ==
  \A i \in DOMAIN queries :
    LET q == queries[i] IN
    \A p \in Nat :
      /\ computed[q.req] - Window + (IF drafts = 0 THEN 1 ELSE 0) <= p
      /\ p < (IF pc \in {"sample", "drafted"} THEN q.start + q.n ELSE q.start)
      => Held(q.req, p)

\* What the runner does next, and in which pass.
PhaseOK ==
  /\ drafter \in {"none", "mtp", "dspark"} /\ path \in {"mixed", "sm120"}
  /\ <<drafter, path>> \in Deployments
  /\ computed \in [Requests -> Nat]
  /\ epoch \in [Requests -> Nat]
  /\ pc \in {"schedule", "attend", "sample", "draft", "drafted"}
  /\ drafts \in Nat
  /\ pc \in {"schedule", "sample"} => drafts = 0
  /\ pc \in {"draft", "drafted"} => drafts # 0
  /\ pc = "draft" => drafts = 1
  /\ pc # "schedule" => queries # <<>>
  /\ drafts # 0 => /\ drafter # "none"
                   /\ drafts <= GreaterOf(1, NumSpec[drafter])
                   /\ drafter = "dspark" => drafts = 1

\* What the image tokens of the pass see besides the window, as the layers use it.
Left(i) == IF meta.image THEN left_visible[i] ELSE 0
Right(i) == IF meta.image THEN right_visible[i] ELSE 0

\* The row a layer reads for token i of the pass.
RowFor(i) ==
  IF i > meta.num_decode_tokens
  THEN CausalRow(queries, i, is_valid_token, token_to_req, Left(i), Right(i), PrefillWidth)
  ELSE IF meta.causal
  THEN CausalRow(queries, i, is_valid_token, token_to_req, 0, 0, Window)
  ELSE NoncausalRow(queries, i, is_valid_token, token_to_req)

PassTokens == meta.num_decode_tokens + meta.num_prefill_tokens

\* The metadata is the pass's.
BuiltOK ==
  pc \in {"attend", "sample", "drafted"} =>
    LET decoded == QueryStartLoc(queries, NumDecodes(queries) + 1) IN
    /\ meta.num_decodes = NumDecodes(queries)
    /\ meta.num_decode_tokens \in Nat
    /\ meta.num_prefill_tokens = Total(queries) - decoded
    /\ meta.num_decodes < Len(queries) => meta.num_decode_tokens = decoded
    /\ Total(queries) <= PassTokens /\ PassTokens <= MaxTokens
    /\ meta.causal = (drafts = 0 \/ drafter # "dspark")
    /\ \A i \in 1 .. PassTokens : is_valid_token[i] = (i <= Total(queries))
    /\ \A i \in 1 .. Total(queries) : token_to_req[i] = RowOf(queries, i)
    /\ \A i \in meta.num_decode_tokens + 1 .. PassTokens :
         /\ Left(i) = LeftVisible(QueryOf(i).req, Position(i))
         /\ Right(i) = RightVisible(QueryOf(i).req, Position(i))

\* The buffers hold the pass's rows.
BuffersOK ==
  pc = "attend" =>
    /\ \A i \in 1 .. meta.num_decode_tokens :
         <<decode_swa_indices[i], decode_swa_lens[i]>> = RowFor(i)
    /\ \A i \in 1 .. meta.num_prefill_tokens :
         <<prefill_swa_indices[i], prefill_swa_lens[i]>> = RowFor(meta.num_decode_tokens + i)
    /\ cache = None

\* A token whose image, if it is in one, the layers see.
Seeing(i) ==
  \/ i > meta.num_decode_tokens
  \/ ~meta.causal
  \/ Containing(QueryOf(i), Position(i)) = {}

ReadsOK ==
  pc \in {"sample", "drafted"} =>
    /\ \A i \in 1 .. Total(queries) : Seeing(i) => SeesItsWindow(i)
    /\ \A i \in DOMAIN reads : i > Total(queries) => reads[i] = <<>>

\* The buffers' rows name slots and are no longer than the buffers are wide.
BuffersTyped ==
  \A i \in Tokens :
    /\ ToSet(decode_swa_indices[i]) \cup ToSet(prefill_swa_indices[i])
         \subseteq 0 .. BlockSize * (NumBlocks + 1)  \cup {-1}
    /\ Len(decode_swa_indices[i]) \in Nat
    /\ decode_swa_lens[i] <= GreaterOf(Window, Len(decode_swa_indices[i]))
    /\ prefill_swa_lens[i] <= PrefillWidth
    /\ prefill_swa_lens[i] <= GreaterOf(0, Len(prefill_swa_indices[i]))

Inv ==
  /\ PhaseOK
  /\ TablesOK
  /\ KeysHeld
  /\ QueriesOK
  /\ RowsHeld
  /\ BuiltOK
  /\ BuffersOK
  /\ ReadsOK
  /\ BuffersTyped

-----------------------------------------------------------------------------
(* The configuration.                                                       *)

LEMMA Config ==
  /\ BlockSize \in Nat \ {0} /\ Window \in Nat \ {0} /\ PrefillChunk \in Nat \ {0}
  /\ NumBlocks \in Nat /\ MaxImageTokens \in Nat /\ MaxLen \in Nat /\ MaxTokens \in Nat
  /\ PrefillWidth = Window + MaxImageTokens /\ PrefillWidth \in Nat
  /\ \A r \in Requests : PromptLen[r] \in Nat \ {0}
BY SwaAssumption DEF PrefillWidth

LEMMA Drafters ==
  ASSUME NEW d \in {"none", "mtp", "dspark"}
  PROVE  /\ NumSpec[d] \in Nat /\ Threshold(d) \in Nat \ {0}
         /\ 1 + NumSpec[d] <= Threshold(d)
         /\ DraftBlock \in Nat \ {0} /\ DraftBlock <= 1 + NumSpec["dspark"]
<1>1. NumSpec[d] \in Nat /\ NumSpec["dspark"] \in Nat
  BY SwaAssumption
<1>2. DraftBlock \in Nat \ {0} /\ DraftBlock <= 1 + NumSpec["dspark"]
  BY <1>1, SwaAssumption
<1>3. Threshold(d) = 1 + (IF d = "dspark" THEN 2 ELSE 1) * NumSpec[d]
  BY DEF Threshold
<1>4. QED
  BY <1>1, <1>2, <1>3

\* Image spans lie in the prompt, one after the other.
LEMMA SpansAre ==
  ASSUME NEW r \in Requests
  PROVE  /\ Len(Spans[r]) \in Nat /\ DOMAIN Spans[r] = 1 .. Len(Spans[r])
         /\ \A i \in DOMAIN Spans[r] :
              /\ Spans[r][i][1] \in Nat /\ Spans[r][i][2] \in Nat
              /\ Spans[r][i][1] <= Spans[r][i][2] /\ Spans[r][i][2] < PromptLen[r]
              /\ Spans[r][i][2] - Spans[r][i][1] < MaxImageTokens
         /\ \A i, j \in DOMAIN Spans[r] : j < i => Spans[r][j][2] < Spans[r][i][1]
<1>1. Spans[r] \in Seq(Nat \X Nat)
  BY SwaAssumption
<1>2. /\ Len(Spans[r]) \in Nat /\ DOMAIN Spans[r] = 1 .. Len(Spans[r])
      /\ \A i \in DOMAIN Spans[r] : Spans[r][i] \in Nat \X Nat
  BY <1>1
<1>3. ASSUME NEW i \in DOMAIN Spans[r]
      PROVE  /\ Spans[r][i][1] <= Spans[r][i][2] /\ Spans[r][i][2] < PromptLen[r]
             /\ Spans[r][i][2] - Spans[r][i][1] < MaxImageTokens
             /\ \A j \in 1 .. i - 1 : Spans[r][j][2] < Spans[r][i][1]
  BY SwaAssumption
<1>4. ASSUME NEW i \in DOMAIN Spans[r], NEW j \in DOMAIN Spans[r], j < i
      PROVE  Spans[r][j][2] < Spans[r][i][1]
  <2>1. j \in 1 .. i - 1
    BY <1>2, <1>4
  <2>2. QED
    BY <1>3, <2>1
<1>5. \A i \in DOMAIN Spans[r] : Spans[r][i][1] \in Nat /\ Spans[r][i][2] \in Nat
  BY <1>2
<1>6. QED
  BY <1>2, <1>3, <1>4, <1>5

-----------------------------------------------------------------------------
(* Sets of numbers.                                                         *)

LEMMA MaxIs ==
  ASSUME NEW T \in SUBSET Nat, T # {}, NEW n \in Nat, \A y \in T : y <= n
  PROVE  Max(T) \in T /\ \A y \in T : y <= Max(T)
<1>1. PICK x \in T : \A y \in T : y <= x
  BY Greatest
<1>2. \A y \in T : x >= y
  BY <1>1
<1>3. Max(T) \in T /\ \A y \in T : Max(T) >= y
  BY <1>2 DEF Max
<1>4. \A y \in T : y <= Max(T)
  BY <1>3
<1>5. QED
  BY <1>3, <1>4

LEMMA MinIs ==
  ASSUME NEW T \in SUBSET Nat, T # {}
  PROVE  Min(T) \in T /\ \A y \in T : Min(T) <= y
<1>1. PICK x \in T : \A y \in T : x <= y
  BY Least
<1>2. QED
  BY <1>1 DEF Min

\* A set of numbers has a k-th smallest, for every k up to its size.
LEMMA Ranked ==
  ASSUME NEW n \in Nat, NEW S \in SUBSET (1 .. n), NEW k \in 1 .. Cardinality(S)
  PROVE  \E x \in S : Cardinality({y \in S : y < x}) = k - 1
<1> DEFINE Has(U) == \A j \in 1 .. Cardinality(U) :
                       \E x \in U : Cardinality({y \in U : y < x}) = j - 1
           T == {m \in Nat : \A U \in SUBSET (1 .. m) : Has(U)}
<1>1. 0 \in T
  <2>1. ASSUME NEW U \in SUBSET (1 .. 0) PROVE Has(U)
    <3>1. U = {}
      OBVIOUS
    <3>2. Cardinality(U) = 0
      BY <3>1, FS_EmptySet
    <3>3. QED
      BY <3>2
  <2> HIDE DEF Has
  <2>2. QED
    BY <2>1
<1>2. ASSUME NEW m \in Nat, m \in T PROVE m + 1 \in T
  <2>1. ASSUME NEW U \in SUBSET (1 .. m + 1) PROVE Has(U)
    <3> DEFINE V == U \ {m + 1}
    <3>1. V \in SUBSET (1 .. m)
      OBVIOUS
    <3>2. Has(V)
      BY <1>2, <3>1
    <3>3. CASE m + 1 \notin U
      <4>1. U = V
        BY <3>3
      <4>2. QED
        BY <3>2, <4>1
    <3>4. CASE m + 1 \in U
      <4>1. IsFiniteSet(U)
        <5>1. IsFiniteSet(1 .. m + 1)
          BY FS_Interval
        <5>2. QED
          BY <5>1, FS_Subset
      <4>2. Cardinality(V) = Cardinality(U) - 1 /\ Cardinality(U) \in Nat
        BY <3>4, <4>1, FS_RemoveElement, FS_CardinalityType
      <4> SUFFICES ASSUME NEW j \in 1 .. Cardinality(U)
                   PROVE  \E x \in U : Cardinality({y \in U : y < x}) = j - 1
        OBVIOUS
      <4>3. CASE j = Cardinality(U)
        <5>0. \A y \in U : y < m + 1 <=> y # m + 1
          OBVIOUS
        <5>1. {y \in U : y < m + 1} = V
          BY <5>0
        <5>2. QED
          BY <3>4, <4>2, <4>3, <5>1
      <4>4. CASE j # Cardinality(U)
        <5>1. j \in 1 .. Cardinality(V)
          BY <4>2, <4>4
        <5>2. PICK x \in V : Cardinality({y \in V : y < x}) = j - 1
          BY <3>2, <5>1
        <5>3. {y \in U : y < x} = {y \in V : y < x}
          BY <3>1
        <5>4. QED
          BY <5>2, <5>3
      <4>5. QED
        BY <4>3, <4>4
    <3> HIDE DEF Has
    <3>5. QED
      BY <3>3, <3>4
  <2> HIDE DEF Has
  <2>2. QED
    BY <2>1
<1> HIDE DEF T
<1>3. n \in T
  BY <1>1, <1>2, Induction
<1>4. QED
  BY <1>3 DEF T

\* They are different ones.
LEMMA NthOf ==
  ASSUME NEW n \in Nat, NEW S \in SUBSET (1 .. n)
  PROVE  /\ \A k \in 1 .. Cardinality(S) : Nth(S, k) \in S
         /\ \A k, j \in 1 .. Cardinality(S) : Nth(S, k) = Nth(S, j) => k = j
<1>1. ASSUME NEW k \in 1 .. Cardinality(S)
      PROVE  Nth(S, k) \in S /\ Cardinality({y \in S : y < Nth(S, k)}) = k - 1
  <2>1. \E x \in S : Cardinality({y \in S : y < x}) = k - 1
    BY Ranked
  <2>2. QED
    BY <2>1 DEF Nth
<1>2. ASSUME NEW k \in 1 .. Cardinality(S), NEW j \in 1 .. Cardinality(S),
             Nth(S, k) = Nth(S, j)
      PROVE  k = j
  <2>1. k - 1 = j - 1
    BY <1>1, <1>2
  <2>2. IsFiniteSet(S)
    <3>1. IsFiniteSet(1 .. n)
      BY FS_Interval
    <3>2. QED
      BY <3>1, FS_Subset
  <2>3. k \in Nat /\ j \in Nat
    BY <2>2, FS_CardinalityType
  <2>4. QED
    BY <2>1, <2>3
<1>3. QED
  BY <1>1, <1>2

-----------------------------------------------------------------------------
(* The pass's tokens.                                                       *)

LEMMA LocIsSum ==
  ASSUME NEW qs, NEW row
  PROVE  QueryStartLoc(qs, row) = SumOf(1 .. row - 1, Lens(qs))
BY DEF QueryStartLoc, MapThenSumSet, MapThenFoldSet, SumOf, SumsOf, Taken

\* Where each query's tokens begin: where those before it end.
LEMMA Layout ==
  ASSUME NEW qs \in Seq(QuerySet)
  PROVE  /\ Len(qs) \in Nat /\ DOMAIN qs = 1 .. Len(qs)
         /\ QueryStartLoc(qs, 1) = 0
         /\ \A row \in 1 .. Len(qs) + 1 : QueryStartLoc(qs, row) \in Nat
         /\ \A row \in 1 .. Len(qs) :
              /\ QueryStartLoc(qs, row + 1) = QueryStartLoc(qs, row) + qs[row].n
              /\ qs[row].n \in Nat \ {0} /\ qs[row].start \in Nat /\ qs[row].req \in Requests
         /\ \A i \in 1 .. Len(qs) + 1 : \A j \in i .. Len(qs) + 1 :
              QueryStartLoc(qs, i) <= QueryStartLoc(qs, j)
         /\ Total(qs) = QueryStartLoc(qs, Len(qs) + 1) /\ Total(qs) \in Nat
<1> DEFINE n == Len(qs)
           lens == Lens(qs)
<1>1. n \in Nat /\ DOMAIN qs = 1 .. n
  OBVIOUS
<1>2. \A row \in 1 .. n : qs[row] \in QuerySet
  OBVIOUS
<1>3. \A row \in 1 .. n : /\ qs[row].n \in Nat \ {0} /\ qs[row].start \in Nat
                          /\ qs[row].req \in Requests
  BY <1>2 DEF QuerySet
<1>4. lens = [row \in 1 .. n |-> qs[row].n]
  BY <1>1 DEF Lens
<1>5. lens \in Seq(Nat \ {0}) /\ Len(lens) = n /\ \A row \in 1 .. n : lens[row] = qs[row].n
  BY <1>1, <1>3, <1>4
<1> HIDE DEF n, lens
<1>6. /\ SumOf(1 .. 0, lens) = 0
      /\ \A k \in 0 .. n : SumOf(1 .. k, lens) \in Nat
      /\ \A k \in 1 .. n : SumOf(1 .. k, lens) = SumOf(1 .. k - 1, lens) + lens[k]
      /\ \A i \in 0 .. n : \A j \in i .. n : SumOf(1 .. i, lens) <= SumOf(1 .. j, lens)
  BY <1>5, Beginnings
<1>7. \A row : QueryStartLoc(qs, row) = SumOf(1 .. row - 1, lens)
  BY LocIsSum DEF lens
<1>8. \A row \in 1 .. n + 1 : row - 1 \in 0 .. n
  BY <1>1
<1>9. \A row \in 1 .. n + 1 : QueryStartLoc(qs, row) \in Nat
  BY <1>6, <1>7, <1>8
<1>10. QueryStartLoc(qs, 1) = 0
  <2>1. 1 - 1 = 0
    OBVIOUS
  <2>2. QED
    BY <1>6, <1>7, <2>1
<1>11. \A row \in 1 .. n : QueryStartLoc(qs, row + 1) = QueryStartLoc(qs, row) + qs[row].n
  <2> TAKE row \in 1 .. n
  <2>1. (row + 1) - 1 = row
    BY <1>1
  <2>2. QED
    BY <1>5, <1>6, <1>7, <2>1
<1>12. ASSUME NEW i \in 1 .. n + 1, NEW j \in i .. n + 1
       PROVE  QueryStartLoc(qs, i) <= QueryStartLoc(qs, j)
  <2>1. i - 1 \in 0 .. n /\ j - 1 \in i - 1 .. n
    BY <1>1
  <2>2. QED
    BY <1>6, <1>7, <2>1
<1>13. Total(qs) = QueryStartLoc(qs, n + 1) /\ Total(qs) \in Nat
  <2>1. Total(qs) = QueryStartLoc(qs, n + 1)
    BY DEF Total, n
  <2>2. n + 1 \in 1 .. n + 1
    BY <1>1
  <2>3. QED
    BY <1>9, <2>1, <2>2
<1>14. QED
  BY <1>1, <1>3, <1>9, <1>10, <1>11, <1>12, <1>13 DEF n

\* Every token belongs to one query: the one whose span it lies in.
LEMMA RowUnique ==
  ASSUME NEW qs \in Seq(QuerySet), NEW row \in 1 .. Len(qs), NEW i \in Int,
         QueryStartLoc(qs, row) < i, i <= QueryStartLoc(qs, row + 1)
  PROVE  RowOf(qs, i) = row
<1> DEFINE loc(k) == QueryStartLoc(qs, k)
           In(k) == loc(k) < i /\ i <= loc(k + 1)
<1>1. /\ Len(qs) \in Nat /\ DOMAIN qs = 1 .. Len(qs)
      /\ \A k \in 1 .. Len(qs) + 1 : loc(k) \in Nat
      /\ \A k \in 1 .. Len(qs) + 1 : \A j \in k .. Len(qs) + 1 : loc(k) <= loc(j)
  BY Layout
<1>2. In(row)
  OBVIOUS
<1>3. RowOf(qs, i) = CHOOSE k \in DOMAIN qs : In(k)
  BY DEF RowOf
<1> HIDE DEF loc
<1>4. ASSUME NEW k \in 1 .. Len(qs), In(k) PROVE k = row
  <2>1. ASSUME NEW a \in 1 .. Len(qs), NEW b \in 1 .. Len(qs), In(a), In(b), a < b PROVE FALSE
    <3>1. a + 1 \in 1 .. Len(qs) + 1 /\ b \in a + 1 .. Len(qs) + 1 /\ b \in 1 .. Len(qs) + 1
      BY <1>1, <2>1
    <3>2. loc(a + 1) <= loc(b) /\ loc(a + 1) \in Nat /\ loc(b) \in Nat
      BY <1>1, <3>1
    <3>3. QED
      BY <2>1, <3>2
  <2> HIDE DEF In
  <2>2. ~(k < row) /\ ~(row < k)
    BY <1>2, <1>4, <2>1
  <2>3. QED
    BY <1>1, <2>2
<1> HIDE DEF In
<1>5. QED
  BY <1>1, <1>2, <1>3, <1>4

LEMMA TokenRow ==
  ASSUME NEW qs \in Seq(QuerySet), NEW i \in 1 .. Total(qs)
  PROVE  /\ RowOf(qs, i) \in 1 .. Len(qs)
         /\ QueryStartLoc(qs, RowOf(qs, i)) < i /\ i <= QueryStartLoc(qs, RowOf(qs, i) + 1)
<1> DEFINE n == Len(qs)
           loc == [k \in 0 .. n |-> QueryStartLoc(qs, k + 1)]
<1>1. /\ n \in Nat /\ QueryStartLoc(qs, 1) = 0 /\ QueryStartLoc(qs, n + 1) = Total(qs)
      /\ Total(qs) \in Nat
      /\ \A k \in 1 .. n + 1 : QueryStartLoc(qs, k) \in Nat
  BY Layout
<1> HIDE DEF n
<1>2. \A k \in 0 .. n : loc[k] = QueryStartLoc(qs, k + 1) /\ loc[k] \in Nat
  <2> TAKE k \in 0 .. n
  <2>1. k + 1 \in 1 .. n + 1
    BY <1>1
  <2>2. QED
    BY <1>1, <2>1
<1> HIDE DEF loc
<1>3. loc[0] = 0 /\ loc[n] = Total(qs)
  <2>1. 0 \in 0 .. n /\ n \in 0 .. n /\ 0 + 1 = 1
    BY <1>1
  <2>2. QED
    BY <1>1, <1>2, <2>1
<1>4. i - 1 \in Nat /\ i - 1 < loc[n]
  BY <1>1, <1>3
<1>5. PICK row \in 1 .. n : loc[row - 1] <= i - 1 /\ i - 1 < loc[row]
  BY <1>1, <1>2, <1>3, <1>4, SpansTile
<1>6. /\ row \in 0 .. n /\ row - 1 \in 0 .. n /\ (row - 1) + 1 = row
  BY <1>1
<1>7. QueryStartLoc(qs, row) <= i - 1 /\ i - 1 < QueryStartLoc(qs, row + 1)
  BY <1>2, <1>5, <1>6
<1>8. QueryStartLoc(qs, row) \in Nat /\ QueryStartLoc(qs, row + 1) \in Nat
  BY <1>2, <1>6
<1>9. QueryStartLoc(qs, row) < i /\ i <= QueryStartLoc(qs, row + 1)
  BY <1>7, <1>8
<1>10. RowOf(qs, i) = row
  BY <1>1, <1>9, RowUnique DEF n
<1>11. QED
  BY <1>9, <1>10 DEF n

\* A token's position is one of its query's, and every position of a query has a token.
LEMMA TokenPos ==
  ASSUME NEW qs \in Seq(QuerySet), NEW i \in 1 .. Total(qs)
  PROVE  LET q == qs[RowOf(qs, i)]
             pos == PosOf(qs, RowOf(qs, i), i) IN
         /\ q \in QuerySet /\ pos \in Nat
         /\ q.start <= pos /\ pos < q.start + q.n
<1> DEFINE row == RowOf(qs, i)
<1>1. /\ row \in 1 .. Len(qs) /\ QueryStartLoc(qs, row) < i
      /\ i <= QueryStartLoc(qs, row + 1)
  BY TokenRow
<1> HIDE DEF row
<1>2. /\ Len(qs) \in Nat
      /\ QueryStartLoc(qs, row + 1) = QueryStartLoc(qs, row) + qs[row].n
      /\ qs[row].n \in Nat \ {0} /\ qs[row].start \in Nat
  BY <1>1, Layout
<1>3. QueryStartLoc(qs, row) \in Nat
  <2>1. row \in 1 .. Len(qs) + 1
    BY <1>1, <1>2
  <2>2. QED
    BY <2>1, Layout
<1>4. qs[row] \in QuerySet
  BY <1>1
<1>5. PosOf(qs, row, i) = qs[row].start + i - 1 - QueryStartLoc(qs, row)
  BY DEF PosOf
<1>6. i \in Int
  OBVIOUS
<1>7. /\ PosOf(qs, row, i) \in Nat /\ qs[row].start <= PosOf(qs, row, i)
      /\ PosOf(qs, row, i) < qs[row].start + qs[row].n
  BY SMTT(30), <1>1, <1>2, <1>3, <1>5, <1>6
<1>8. QED
  BY <1>4, <1>7 DEF row

LEMMA TokenAt ==
  ASSUME NEW qs \in Seq(QuerySet), NEW row \in 1 .. Len(qs), NEW p \in Nat,
         qs[row].start <= p, p < qs[row].start + qs[row].n
  PROVE  \E i \in 1 .. Total(qs) : RowOf(qs, i) = row /\ PosOf(qs, row, i) = p
<1> DEFINE i == QueryStartLoc(qs, row) + (p - qs[row].start) + 1
<1>1. /\ Len(qs) \in Nat
      /\ QueryStartLoc(qs, row + 1) = QueryStartLoc(qs, row) + qs[row].n
      /\ qs[row].n \in Nat \ {0} /\ qs[row].start \in Nat
      /\ Total(qs) = QueryStartLoc(qs, Len(qs) + 1) /\ Total(qs) \in Nat
  BY Layout
<1>2. row \in 1 .. Len(qs) + 1 /\ row + 1 \in 1 .. Len(qs) + 1
      /\ Len(qs) + 1 \in row + 1 .. Len(qs) + 1
  BY <1>1
<1>3. QueryStartLoc(qs, row) \in Nat /\ QueryStartLoc(qs, row + 1) <= Total(qs)
  BY <1>1, <1>2, Layout
<1>4. /\ i \in 1 .. Total(qs) /\ QueryStartLoc(qs, row) < i
      /\ i <= QueryStartLoc(qs, row + 1)
  <2> DEFINE a == QueryStartLoc(qs, row)
             b == QueryStartLoc(qs, row + 1)
             d == p - qs[row].start
  <2>1. d \in Nat /\ d + 1 <= qs[row].n
    BY <1>1
  <2>2. a \in Nat /\ b = a + qs[row].n /\ b <= Total(qs) /\ i = a + d + 1
    BY <1>1, <1>3
  <2>0. qs[row].n \in Nat /\ Total(qs) \in Nat
    BY <1>1
  <2> HIDE DEF a, b, d, i
  <2>3. a < i /\ i <= b /\ i \in 1 .. Total(qs)
    <3>1. i \in Nat /\ b \in Nat /\ a < i
      BY <2>0, <2>1, <2>2
    <3>2. i <= b
      BY <2>0, <2>1, <2>2
    <3>3. QED
      BY <2>0, <2>2, <3>1, <3>2
  <2>4. QED
    BY <2>3 DEF a, b
<1>5. PosOf(qs, row, i) = p
  <2>1. PosOf(qs, row, i) = qs[row].start + i - 1 - QueryStartLoc(qs, row)
    BY DEF PosOf
  <2>2. QED
    BY <1>1, <1>3, <2>1
<1> HIDE DEF i
<1>6. RowOf(qs, i) = row
  <2>1. i \in Int
    BY <1>4
  <2>2. QED
    BY <1>4, <2>1, RowUnique
<1>7. QED
  BY <1>4, <1>5, <1>6

\* Queries of the same lengths have their tokens at the same places.
LEMMA SameLayout ==
  ASSUME NEW qs, NEW ps, DOMAIN qs = DOMAIN ps, Len(qs) = Len(ps),
         \A row \in DOMAIN qs : qs[row].n = ps[row].n
  PROVE  /\ Total(qs) = Total(ps) /\ NumDecodes(qs) = NumDecodes(ps)
         /\ \A row : QueryStartLoc(qs, row) = QueryStartLoc(ps, row)
         /\ \A i : RowOf(qs, i) = RowOf(ps, i)
<1>1. Lens(qs) = Lens(ps)
  BY DEF Lens
<1>2. \A row : QueryStartLoc(qs, row) = QueryStartLoc(ps, row)
  BY <1>1, LocIsSum
<1>3. Total(qs) = Total(ps)
  BY <1>2 DEF Total
<1>4. \A i : RowOf(qs, i) = RowOf(ps, i)
  BY <1>2 DEF RowOf
<1>5. NumDecodes(qs) = NumDecodes(ps)
  <2> DEFINE few(xs) == {n \in 0 .. Len(xs) : \A row \in 1 .. n : xs[row].n <= Threshold(drafter)}
  <2>1. \A row : Lens(qs)[row] = Lens(ps)[row]
    BY <1>1
  <2>2. \A n \in 0 .. Len(qs) : \A row \in 1 .. n : qs[row].n = ps[row].n
    OBVIOUS
  <2>3. few(qs) = few(ps)
    BY <2>2
  <2> HIDE DEF few
  <2>4. QED
    BY <2>3 DEF NumDecodes, few
<1>6. QED
  BY <1>2, <1>3, <1>4, <1>5

\* The decodes are queries of few tokens; where all are, all are decodes.
LEMMA Decodes ==
  ASSUME NEW qs \in Seq(QuerySet), drafter \in {"none", "mtp", "dspark"}
  PROVE  /\ NumDecodes(qs) \in 0 .. Len(qs)
         /\ \A row \in 1 .. NumDecodes(qs) : qs[row].n <= Threshold(drafter)
         /\ (\A row \in 1 .. Len(qs) : qs[row].n <= Threshold(drafter)) => NumDecodes(qs) = Len(qs)
<1> DEFINE T == {n \in 0 .. Len(qs) : \A row \in 1 .. n : qs[row].n <= Threshold(drafter)}
<1>1. Len(qs) \in Nat /\ T \in SUBSET Nat /\ 0 \in T /\ \A y \in T : y <= Len(qs)
  OBVIOUS
<1>2. NumDecodes(qs) = Max(T)
  BY DEF NumDecodes
<1> HIDE DEF T
<1>3. Max(T) \in T /\ \A y \in T : y <= Max(T)
  BY <1>1, MaxIs
<1>4. (\A row \in 1 .. Len(qs) : qs[row].n <= Threshold(drafter)) => NumDecodes(qs) = Len(qs)
  <2>1. ASSUME \A row \in 1 .. Len(qs) : qs[row].n <= Threshold(drafter)
        PROVE  NumDecodes(qs) = Len(qs)
    <3>1. Len(qs) \in T
      BY <1>1, <2>1 DEF T
    <3>2. Max(T) \in Nat /\ Len(qs) <= Max(T) /\ Max(T) <= Len(qs)
      BY <1>1, <1>3, <3>1
    <3>3. QED
      BY <1>1, <1>2, <3>2
  <2>2. QED
    BY <2>1
<1>5. QED
  BY <1>2, <1>3, <1>4 DEF T

-----------------------------------------------------------------------------
(* Slots.                                                                   *)

\* A slot names the block it lies in and the place in it.
LEMMA SlotIs ==
  ASSUME NEW r \in Requests, NEW p \in Nat, table[r][BlockOf(p)] \in 0 .. NumBlocks
  PROVE  /\ SlotOf(r, p) \in 0 .. BlockSize * (NumBlocks + 1) - 1
         /\ table[r][BlockOf(p)] \in Blocks => SlotOf(r, p) \in Slots
         /\ SlotOf(r, p) \div BlockSize = table[r][BlockOf(p)]
         /\ SlotOf(r, p) % BlockSize = p % BlockSize
<1> DEFINE b == table[r][BlockOf(p)]
           o == p % BlockSize
           n == BlockSize
           m == NumBlocks + 1
<1>1. n \in Nat \ {0} /\ m \in Nat /\ b \in Nat /\ b + 1 <= m /\ NumBlocks \in Nat
  BY Config
<1>2. o \in 0 .. n - 1
  BY <1>1, DivModOf
<1>3. SlotOf(r, p) = b * n + o
  BY DEF SlotOf, BlockOf
<1>4. Slots = n .. n * m - 1 /\ Blocks = 1 .. NumBlocks
  BY DEF Slots, Blocks
<1> HIDE DEF b, o, n, m
<1>5. (b + 1) * n <= m * n /\ m * n \in Nat
  BY <1>1, Times
<1>6. (b + 1) * n = b * n + n /\ b * n \in Nat /\ n * m = m * n
  BY <1>1
<1> DEFINE x == b * n
           y == m * n
<1>7. x \in Nat /\ y \in Nat /\ x + n <= y
  BY <1>5, <1>6
<1>8. x + o \in 0 .. y - 1
  <2> HIDE DEF x, y
  <2>1. QED
    BY <1>1, <1>2, <1>7
<1>9. b \in 1 .. NumBlocks => n <= x
  <2>1. ASSUME 1 <= b PROVE n <= x
    <3>1. 1 * n <= b * n
      BY <1>1, <2>1, Times
    <3>2. QED
      BY <1>1, <3>1
  <2>2. QED
    BY <2>1
<1>10. b \in 1 .. NumBlocks => x + o \in n .. y - 1
  <2> HIDE DEF x, y
  <2>1. QED
    BY <1>1, <1>2, <1>7, <1>8, <1>9
<1>11. (b * n + o) \div n = b /\ (b * n + o) % n = o
  <2>1. b * n + o \in Nat
    BY <1>8
  <2>2. QED
    BY <1>1, <1>2, <2>1, DivMod
<1>12. y = n * m
  BY <1>6
<1>13. SlotOf(r, p) \in 0 .. n * m - 1
  BY <1>3, <1>8, <1>12
<1>14. b \in Blocks => SlotOf(r, p) \in Slots
  BY <1>3, <1>4, <1>10, <1>12
<1>15. SlotOf(r, p) \div n = b /\ SlotOf(r, p) % n = o
  BY <1>3, <1>11
<1>16. QED
  BY <1>13, <1>14, <1>15 DEF b, o, n, m

\* Two positions share a slot only if they are the same position of the same request.
LEMMA SlotsDiffer ==
  ASSUME TablesOK, NEW r \in Requests, NEW q \in Requests, NEW p \in Nat, NEW o \in Nat,
         BlockOf(p) \in DOMAIN table[r], table[r][BlockOf(p)] \in Blocks,
         BlockOf(o) \in DOMAIN table[q], table[q][BlockOf(o)] \in Blocks,
         SlotOf(r, p) = SlotOf(q, o)
  PROVE  r = q /\ p = o
<1>1. \A b \in Blocks : b \in 0 .. NumBlocks /\ b # 0
  BY Config DEF Blocks
<1>2. table[r][BlockOf(p)] \in 0 .. NumBlocks /\ table[q][BlockOf(o)] \in 0 .. NumBlocks
  BY <1>1
<1>3. table[r][BlockOf(p)] = table[q][BlockOf(o)] /\ p % BlockSize = o % BlockSize
  BY <1>2, SlotIs
<1>4. r = q /\ BlockOf(p) = BlockOf(o)
  BY <1>1, <1>3 DEF TablesOK
<1>5. p \div BlockSize \in Nat /\ o \div BlockSize \in Nat
  BY Config, DivModOf
<1>6. p \div BlockSize = o \div BlockSize
  BY <1>4, <1>5 DEF BlockOf
<1>7. /\ p = (p \div BlockSize) * BlockSize + (p % BlockSize)
      /\ o = (o \div BlockSize) * BlockSize + (o % BlockSize)
  BY Config, DivModOf
<1>8. QED
  BY <1>3, <1>4, <1>6, <1>7

\* A position with room in the table has an entry in it.
LEMMA InTable ==
  ASSUME TablesOK, NEW r \in Requests, NEW p \in Nat, p < Room(r)
  PROVE  BlockOf(p) \in DOMAIN table[r] /\ table[r][BlockOf(p)] \in 0 .. NumBlocks
<1> DEFINE B == 0 .. NumBlocks
<1>1. table[r] \in Seq(B)
  BY DEF TablesOK
<1> HIDE DEF B
<1>2. /\ Len(table[r]) \in Nat /\ DOMAIN table[r] = 1 .. Len(table[r])
      /\ \A i \in DOMAIN table[r] : table[r][i] \in B
  BY <1>1
<1>3. p \div BlockSize \in Nat /\ p \div BlockSize < Len(table[r])
  <2>1. p < Len(table[r]) * BlockSize
    BY DEF Room
  <2>2. QED
    BY <1>2, <2>1, Config, DivModOf
<1>4. BlockOf(p) \in DOMAIN table[r]
  BY <1>2, <1>3 DEF BlockOf
<1>5. QED
  BY <1>2, <1>4 DEF B

\* The window of the next token lies past the blocks that are taken back.
LEMMA PastSkipped ==
  ASSUME computed \in [Requests -> Nat], NEW r \in Requests, NEW p \in Nat,
         computed[r] - Window + 1 <= p
  PROVE  BlockOf(p) > Skipped(r) /\ BlockOf(p) \in Nat /\ Skipped(r) \in Nat
<1> DEFINE g == GreaterOf(computed[r] - Window + 1, 0)
           n == BlockSize
           s == g \div n
           d == p \div n
<1>1. n \in Nat \ {0} /\ g \in Nat /\ g <= p
  BY Config DEF GreaterOf
<1>2. Skipped(r) = s
  BY DEF Skipped
<1>3. BlockOf(p) = d + 1
  BY DEF BlockOf
<1> HIDE DEF g, n
<1>4. /\ s \in Nat /\ d \in Nat
      /\ p = d * n + (p % n) /\ p % n \in 0 .. n - 1
      /\ \A m \in Nat : g < m * n => s < m
  BY <1>1, DivModOf
<1> HIDE DEF s, d
<1>5. d + 1 \in Nat /\ g < (d + 1) * n
  <2>1. (d + 1) * n = d * n + n /\ d * n \in Nat
    BY <1>1, <1>4
  <2> DEFINE x == d * n
  <2> HIDE DEF x
  <2>2. p < x + n
    BY <1>1, <1>4, <2>1 DEF x
  <2>3. g < x + n
    BY <1>1, <2>1, <2>2 DEF x
  <2>4. QED
    BY <1>4, <2>1, <2>3 DEF x
<1>6. s < d + 1
  BY <1>4, <1>5
<1>7. QED
  BY <1>2, <1>3, <1>4, <1>6

\* A position from the window of the next token on, with room in the table, has a block.
LEMMA Mapped ==
  ASSUME TablesOK, computed \in [Requests -> Nat], NEW r \in Requests, NEW p \in Nat,
         computed[r] - Window + 1 <= p, p < Room(r)
  PROVE  BlockOf(p) \in DOMAIN table[r] /\ table[r][BlockOf(p)] \in Blocks
<1>1. BlockOf(p) \in DOMAIN table[r] /\ table[r][BlockOf(p)] \in 0 .. NumBlocks
  BY InTable
<1>2. table[r][BlockOf(p)] # 0
  BY <1>1, PastSkipped DEF TablesOK
<1>3. QED
  BY <1>1, <1>2 DEF Blocks

-----------------------------------------------------------------------------
(* Windows.                                                                 *)

\* The span the kernel finds is the only one that contains the position.
LEMMA SpanIs ==
  ASSUME NEW r \in Requests, NEW pos \in Nat
  PROVE  \/ /\ LeftVisible(r, pos) = 0 /\ RightVisible(r, pos) = 0
            /\ \A k \in DOMAIN Spans[r] : ~(Spans[r][k][1] <= pos /\ pos <= Spans[r][k][2])
         \/ \E k \in DOMAIN Spans[r] :
              /\ Spans[r][k][1] <= pos /\ pos <= Spans[r][k][2]
              /\ LeftVisible(r, pos) = pos - Spans[r][k][1]
              /\ RightVisible(r, pos) = Spans[r][k][2] - pos
              /\ \A j \in DOMAIN Spans[r] : Spans[r][j][1] <= pos /\ pos <= Spans[r][j][2] => j = k
<1> DEFINE In(k) == Spans[r][k][1] <= pos /\ pos <= Spans[r][k][2]
           T == {0} \cup {k \in DOMAIN Spans[r] : In(k)}
           at == SpanAt(r, pos)
<1>1. /\ Len(Spans[r]) \in Nat /\ DOMAIN Spans[r] = 1 .. Len(Spans[r])
      /\ \A i \in DOMAIN Spans[r] :
           /\ Spans[r][i][1] \in Nat /\ Spans[r][i][2] \in Nat
           /\ Spans[r][i][2] - Spans[r][i][1] < MaxImageTokens
      /\ \A i, j \in DOMAIN Spans[r] : j < i => Spans[r][j][2] < Spans[r][i][1]
  BY SpansAre
<1>2. T \in SUBSET Nat /\ 0 \in T /\ \A y \in T : y <= Len(Spans[r])
  BY <1>1
<1>3. at = Max(T)
  BY DEF SpanAt
<1>4. /\ LeftVisible(r, pos) = IF at = 0 THEN 0
                               ELSE LesserOf(pos - Spans[r][at][1], MaxImageTokens - 1)
      /\ RightVisible(r, pos) = IF at = 0 THEN 0
                                ELSE LesserOf(Spans[r][at][2] - pos, MaxImageTokens)
  BY DEF LeftVisible, RightVisible
<1> HIDE DEF at
<1>5. at \in T /\ \A y \in T : y <= at
  <2> HIDE DEF T
  <2>1. QED
    BY <1>1, <1>2, <1>3, MaxIs
<1>6. CASE at = 0
  <2>1. ASSUME NEW k \in DOMAIN Spans[r], In(k) PROVE FALSE
    <3>1. k \in T
      BY <2>1
    <3>2. k <= 0 /\ k \in 1 .. Len(Spans[r])
      BY <1>1, <1>5, <1>6, <3>1
    <3>3. QED
      BY <3>2
  <2> HIDE DEF T
  <2>2. QED
    BY <1>4, <1>6, <2>1
<1>7. CASE at # 0
  <2>1. at \in DOMAIN Spans[r] /\ In(at)
    BY <1>5, <1>7
  <2>2. ASSUME NEW j \in DOMAIN Spans[r], In(j) PROVE j = at
    <3>1. ASSUME NEW a \in DOMAIN Spans[r], NEW b \in DOMAIN Spans[r], In(a), In(b), a < b
          PROVE  FALSE
      <4>1. Spans[r][a][2] < Spans[r][b][1] /\ Spans[r][a][2] \in Nat /\ Spans[r][b][1] \in Nat
        BY <1>1, <3>1
      <4>2. QED
        BY <3>1, <4>1
    <3>2. ~(j < at) /\ ~(at < j)
      BY <2>1, <2>2, <3>1
    <3>3. j \in Nat /\ at \in Nat
      BY <1>1, <2>1
    <3>4. QED
      BY <3>2, <3>3
  <2>3. /\ Spans[r][at][1] \in Nat /\ Spans[r][at][2] \in Nat
        /\ Spans[r][at][2] - Spans[r][at][1] < MaxImageTokens /\ MaxImageTokens \in Nat
    BY <1>1, <2>1, Config
  <2>4. LeftVisible(r, pos) = pos - Spans[r][at][1]
    <3>1. pos - Spans[r][at][1] <= MaxImageTokens - 1
      BY <2>1, <2>3
    <3>2. QED
      BY <1>4, <1>7, <3>1 DEF LesserOf
  <2>5. RightVisible(r, pos) = Spans[r][at][2] - pos
    <3>1. Spans[r][at][2] - pos <= MaxImageTokens
      BY <2>1, <2>3
    <3>2. QED
      BY <1>4, <1>7, <3>1 DEF LesserOf
  <2> HIDE DEF T
  <2>6. QED
    BY <2>1, <2>2, <2>4, <2>5
<1>8. QED
  BY <1>6, <1>7

\* The kernel's window is what the token sees, image or not; it fits the buffer, and
\* so does the window without the image.
LEMMA WindowIs ==
  ASSUME NEW q, q.req \in Requests, NEW pos \in Nat, meta.causal,
         NEW left, left = LeftVisible(q.req, pos), NEW right, right = RightVisible(q.req, pos)
  PROVE  /\ StartPos(pos, left) = FirstSeen(q, pos) /\ EndPos(pos, right) = LastSeen(q, pos) + 1
         /\ FirstSeen(q, pos) \in Nat /\ LastSeen(q, pos) \in Nat
         /\ FirstSeen(q, pos) <= pos /\ pos <= LastSeen(q, pos)
         /\ LastSeen(q, pos) - FirstSeen(q, pos) + 1 <= PrefillWidth
         /\ \/ /\ FirstSeen(q, pos) = GreaterOf(pos - Window + 1, 0) /\ LastSeen(q, pos) = pos
               /\ Containing(q, pos) = {}
            \/ \E k \in DOMAIN Spans[q.req] :
                 /\ Spans[q.req][k][1] <= pos /\ pos <= Spans[q.req][k][2]
                 /\ FirstSeen(q, pos) >= pos - Window + 1 \/ FirstSeen(q, pos) >= Spans[q.req][k][1]
                 /\ LastSeen(q, pos) = Spans[q.req][k][2]
<1> DEFINE r == q.req
           S == Spans[r]
           low == GreaterOf(pos - Window + 1, 0)
<1>0. r \in Requests /\ Window \in Nat \ {0} /\ MaxImageTokens \in Nat
      /\ PrefillWidth = Window + MaxImageTokens
  BY Config
<1>1. /\ FirstSeen(q, pos) = Min({low} \cup {span[1] : span \in Containing(q, pos)})
      /\ LastSeen(q, pos) = Max({pos} \cup {span[2] : span \in Containing(q, pos)})
  BY DEF FirstSeen, LastSeen
<1>2. low \in Nat /\ low <= pos
  BY <1>0 DEF GreaterOf
<1>3. /\ StartPos(pos, left) = GreaterOf(pos - (Window - 1) - GreaterOf(left - (Window - 1), 0), 0)
      /\ EndPos(pos, right) = pos + right + 1
  BY DEF StartPos, EndPos
<1>4. Containing(q, pos) = {S[k] : k \in {j \in DOMAIN S : S[j][1] <= pos /\ pos <= S[j][2]}}
  BY DEF Containing, ToSet
<1>5. CASE /\ left = 0 /\ right = 0
           /\ \A k \in DOMAIN S : ~(S[k][1] <= pos /\ pos <= S[k][2])
  <2>1. Containing(q, pos) = {}
    BY <1>4, <1>5
  <2>2. FirstSeen(q, pos) = Min({low}) /\ LastSeen(q, pos) = Max({pos})
    BY <1>1, <2>1
  <2>3. Min({low}) = low
    <3>1. {low} \in SUBSET Nat /\ {low} # {}
      BY <1>2
    <3>2. QED
      BY <3>1, MinIs
  <2>4. Max({pos}) = pos
    <3>1. {pos} \in SUBSET Nat /\ {pos} # {} /\ \A y \in {pos} : y <= pos
      OBVIOUS
    <3>2. QED
      BY <3>1, MaxIs
  <2>5. StartPos(pos, left) = low /\ EndPos(pos, right) = pos + 1
    BY <1>0, <1>3, <1>5 DEF GreaterOf
  <2>6. pos - low + 1 <= PrefillWidth
    BY <1>0 DEF GreaterOf
  <2> HIDE DEF low
  <2>7. QED
    BY <1>2, <2>1, <2>2, <2>3, <2>4, <2>5, <2>6 DEF low
<1>6. ASSUME NEW k \in DOMAIN S,
             S[k][1] <= pos, pos <= S[k][2],
             left = pos - S[k][1], right = S[k][2] - pos,
             \A j \in DOMAIN S : S[j][1] <= pos /\ pos <= S[j][2] => j = k
      PROVE  /\ StartPos(pos, left) = FirstSeen(q, pos)
             /\ EndPos(pos, right) = LastSeen(q, pos) + 1
             /\ FirstSeen(q, pos) \in Nat /\ LastSeen(q, pos) \in Nat
             /\ FirstSeen(q, pos) <= pos /\ pos <= LastSeen(q, pos)
             /\ LastSeen(q, pos) - FirstSeen(q, pos) + 1 <= PrefillWidth
             /\ FirstSeen(q, pos) >= pos - Window + 1 \/ FirstSeen(q, pos) >= S[k][1]
             /\ LastSeen(q, pos) = S[k][2]
  <2>1. {j \in DOMAIN S : S[j][1] <= pos /\ pos <= S[j][2]} = {k}
    BY <1>6
  <2>2. Containing(q, pos) = {S[k]}
    BY <1>4, <2>1
  <2> DEFINE a == S[k][1]
             b == S[k][2]
  <2>3. FirstSeen(q, pos) = Min({low, a}) /\ LastSeen(q, pos) = Max({pos, b})
    BY <1>1, <2>2
  <2>4. a \in Nat /\ b \in Nat /\ b - a < MaxImageTokens /\ a <= pos /\ pos <= b
    BY <1>0, <1>6, SpansAre
  <2> HIDE DEF low
  <2>5. Min({low, a}) = LesserOf(low, a)
    <3>1. {low, a} \in SUBSET Nat /\ {low, a} # {}
      BY <1>2, <2>4
    <3> HIDE DEF a
    <3>2. Min({low, a}) \in {low, a} /\ \A y \in {low, a} : Min({low, a}) <= y
      BY <3>1, MinIs
    <3>3. QED
      BY <3>1, <3>2 DEF LesserOf
  <2>6. Max({pos, b}) = b
    <3>1. {pos, b} \in SUBSET Nat /\ {pos, b} # {} /\ \A y \in {pos, b} : y <= b
      BY <2>4
    <3> HIDE DEF b
    <3>2. Max({pos, b}) \in {pos, b} /\ \A y \in {pos, b} : y <= Max({pos, b})
      BY <2>4, <3>1, MaxIs
    <3>3. QED
      BY <3>1, <3>2
  <2>7. left = pos - a /\ right = b - pos
    BY <1>6
  <2> HIDE DEF a, b
  <2>8. StartPos(pos, left) = LesserOf(low, a)
    BY <1>0, <1>3, <2>4, <2>7 DEF GreaterOf, LesserOf, low
  <2>9. EndPos(pos, right) = b + 1
    BY <1>3, <2>4, <2>7
  <2> DEFINE f == LesserOf(low, a)
  <2>10. /\ f \in Nat /\ f <= pos /\ b - f + 1 <= PrefillWidth
         /\ f >= pos - Window + 1 \/ f >= a
    BY <1>0, <1>2, <2>4 DEF LesserOf, GreaterOf, low
  <2> HIDE DEF f
  <2>11. FirstSeen(q, pos) = f /\ LastSeen(q, pos) = b
    BY <2>3, <2>5, <2>6 DEF f
  <2>12. StartPos(pos, left) = f
    BY <2>8 DEF f
  <2>13. QED
    BY <2>4, <2>9, <2>10, <2>11, <2>12 DEF a, b
<1>7. QED
  <2>1. \/ /\ left = 0 /\ right = 0
           /\ \A k \in DOMAIN S : ~(S[k][1] <= pos /\ pos <= S[k][2])
        \/ \E k \in DOMAIN S :
             /\ S[k][1] <= pos /\ pos <= S[k][2]
             /\ left = pos - S[k][1] /\ right = S[k][2] - pos
             /\ \A j \in DOMAIN S : S[j][1] <= pos /\ pos <= S[j][2] => j = k
    BY <1>0, SpanIs
  <2>2. CASE \E k \in DOMAIN S :
             /\ S[k][1] <= pos /\ pos <= S[k][2]
             /\ left = pos - S[k][1] /\ right = S[k][2] - pos
             /\ \A j \in DOMAIN S : S[j][1] <= pos /\ pos <= S[j][2] => j = k
    BY <1>6, <2>2
  <2>3. QED
    BY <1>5, <2>1, <2>2

-----------------------------------------------------------------------------
(* What a query's tokens see.                                               *)

\* Queries are given room in the table, and start where the computed text ends or after
\* it; their images are theirs alone.
LEMMA QueryFits ==
  ASSUME PhaseOK, TablesOK, QueriesOK, NEW row \in DOMAIN queries
  PROVE  LET q == queries[row] IN
         /\ q \in QuerySet /\ q.req \in Requests /\ q.start \in Nat /\ q.n \in Nat \ {0}
         /\ computed[q.req] \in Nat /\ computed[q.req] <= q.start
         /\ q.start + q.n <= Room(q.req) /\ Room(q.req) \in Nat
         /\ \A k \in DOMAIN Spans[q.req] : \A pos \in q.start .. q.start + q.n - 1 :
              Spans[q.req][k][1] <= pos /\ pos <= Spans[q.req][k][2] =>
                /\ drafts = 0
                /\ q.start <= Spans[q.req][k][1] /\ Spans[q.req][k][2] < q.start + q.n
<1> DEFINE q == queries[row]
           r == q.req
<1>1. q \in QuerySet
  BY DEF QueriesOK
<1>2. r \in Requests /\ q.start \in Nat /\ q.n \in Nat \ {0}
  BY <1>1 DEF QuerySet
<1>3. IF drafts = 0 THEN TargetQuery(q) ELSE DraftQuery(q)
  BY DEF QueriesOK
<1> HIDE DEF q
<1>4. /\ computed[r] \in Nat /\ drafts \in Nat /\ drafter \in {"none", "mtp", "dspark"}
      /\ drafts # 0 => /\ drafter # "none" /\ drafts <= GreaterOf(1, NumSpec[drafter])
                       /\ drafter = "dspark" => drafts = 1
  BY <1>2 DEF PhaseOK
<1>5. /\ NumSpec[drafter] \in Nat /\ DraftBlock \in Nat \ {0}
      /\ DraftBlock <= 1 + NumSpec["dspark"] /\ PromptLen[r] \in Nat
  BY <1>2, <1>4, Drafters, Config
<1>6. Room(r) \in Nat
  <2>1. table[r] \in Seq(0 .. NumBlocks)
    BY <1>2 DEF TablesOK
  <2>2. Len(table[r]) \in Nat
    BY <2>1
  <2>3. QED
    BY <2>2, Config DEF Room
<1>7. CASE drafts = 0
  <2>1. TargetQuery(q)
    BY <1>3, <1>7
  <2>2. q.start = computed[r] /\ q.start + q.n + NumSpec[drafter] + 1 <= Room(r)
    BY <2>1 DEF TargetQuery
  <2>3. \/ Atomic(r, q.start, q.start + q.n)
        \/ PromptLen[r] <= q.start
    BY <2>1 DEF TargetQuery
  <2>4. ASSUME NEW k \in DOMAIN Spans[r], NEW pos \in q.start .. q.start + q.n - 1,
               Spans[r][k][1] <= pos, pos <= Spans[r][k][2]
        PROVE  q.start <= Spans[r][k][1] /\ Spans[r][k][2] < q.start + q.n
    <3> DEFINE a == Spans[r][k][1]
               b == Spans[r][k][2]
    <3>1. a \in Nat /\ b \in Nat /\ b < PromptLen[r]
      BY <1>2, SpansAre
    <3>2. CASE Atomic(r, q.start, q.start + q.n)
      <4>1. q.start + q.n <= a \/ b < q.start \/ (q.start <= a /\ b < q.start + q.n)
        BY <3>2 DEF Atomic
      <4> HIDE DEF a, b
      <4>2. pos \in Nat /\ q.start <= pos /\ pos < q.start + q.n /\ a <= pos /\ pos <= b
        BY <1>2, <2>4 DEF a, b
      <4>3. q.start <= a /\ b < q.start + q.n
        BY <1>2, <3>1, <4>1, <4>2
      <4>4. QED
        BY <4>3 DEF a, b
    <3>3. CASE PromptLen[r] <= q.start
      <4>1. q.start <= pos /\ pos <= b /\ pos \in Nat
        BY <1>2, <2>4
      <4> HIDE DEF a, b
      <4>2. FALSE
        BY <1>2, <1>5, <3>1, <3>3, <4>1
      <4>3. QED
        BY <4>2
    <3>4. QED
      BY <2>3, <3>2, <3>3
  <2>5. computed[r] <= q.start /\ q.start + q.n <= Room(r)
    BY <1>2, <1>4, <1>5, <1>6, <2>2
  <2>6. QED
    BY <1>1, <1>2, <1>4, <1>6, <1>7, <2>4, <2>5 DEF q
<1>8. CASE drafts # 0
  <2>1. DraftQuery(q)
    BY <1>3, <1>8
  <2>2. /\ PromptLen[r] <= computed[r] /\ computed[r] + NumSpec[drafter] + 1 <= Room(r)
        /\ q.start = computed[r] + (IF drafter = "mtp" THEN drafts - 1 ELSE 0)
        /\ q.n = (IF drafter = "dspark" THEN DraftBlock ELSE 1)
    BY <2>1 DEF DraftQuery
  <2>3. drafter \in {"mtp", "dspark"} /\ drafts \in Nat \ {0}
        /\ drafts <= GreaterOf(1, NumSpec[drafter]) /\ (drafter = "dspark" => drafts = 1)
    BY <1>4, <1>8
  <2>4. computed[r] <= q.start
    BY <1>2, <1>4, <2>2, <2>3
  <2>5. q.start + q.n <= Room(r)
    <3>1. CASE drafter = "mtp"
      <4>1. q.start = computed[r] + (drafts - 1) /\ q.n = 1
        BY <2>2, <3>1
      <4>2. drafts <= 1 + NumSpec[drafter]
        BY <1>5, <2>3 DEF GreaterOf
      <4>3. QED
        BY <1>4, <1>5, <1>6, <2>2, <4>1, <4>2
    <3>2. CASE drafter = "dspark"
      <4>0. DraftBlock <= 1 + NumSpec[drafter]
        BY <1>5, <3>2
      <4>3. drafter # "mtp"
        BY <3>2
      <4>1. q.start = computed[r] /\ q.n = DraftBlock /\ DraftBlock <= 1 + NumSpec[drafter]
        BY <1>4, <2>2, <3>2, <4>0, <4>3
      <4>2. QED
        BY <1>4, <1>5, <1>6, <2>2, <4>1
    <3>3. QED
      BY <2>3, <3>1, <3>2
  <2>6. ASSUME NEW k \in DOMAIN Spans[r], NEW pos \in q.start .. q.start + q.n - 1,
               pos <= Spans[r][k][2]
        PROVE  FALSE
    <3>1. Spans[r][k][2] \in Nat /\ Spans[r][k][2] < PromptLen[r]
      BY <1>2, SpansAre
    <3>2. q.start <= pos /\ pos \in Nat
      BY <1>2
    <3>3. QED
      BY <1>4, <1>5, <2>2, <2>4, <2>6, <3>1, <3>2
  <2>7. QED
    BY <1>1, <1>2, <1>4, <1>6, <2>4, <2>5, <2>6 DEF q
<1>9. QED
  BY <1>7, <1>8

\* A token sees positions of its own query and of the window before it.
LEMMA TokenSees ==
  ASSUME PhaseOK, TablesOK, QueriesOK, NEW i \in 1 .. Total(queries),
         meta.causal = (drafts = 0 \/ drafter # "dspark")
  PROVE  LET q == QueryOf(i)
             first == FirstSeen(q, Position(i))
             last == LastSeen(q, Position(i)) IN
         /\ \E row \in DOMAIN queries : q = queries[row]
         /\ Position(i) \in Nat /\ q.start <= Position(i) /\ Position(i) < q.start + q.n
         /\ first \in Nat /\ last \in Nat /\ first <= last /\ last < q.start + q.n
         /\ computed[q.req] - Window + (IF drafts = 0 THEN 1 ELSE 0) <= first
<1> DEFINE q == QueryOf(i)
           pos == Position(i)
           r == q.req
           low == computed[r] - Window + (IF drafts = 0 THEN 1 ELSE 0)
<1>1. queries \in Seq(QuerySet)
  BY DEF QueriesOK
<1>2. pos \in Nat /\ q.start <= pos /\ pos < q.start + q.n
  BY <1>1, TokenPos DEF QueryOf, Position
<1>3. RowOf(queries, i) \in DOMAIN queries
  BY <1>1, TokenRow
<1>4. PICK row \in DOMAIN queries : q = queries[row]
  BY <1>3 DEF QueryOf
<1> HIDE DEF q, pos
<1>5. /\ r \in Requests /\ q.start \in Nat /\ q.n \in Nat \ {0}
      /\ computed[r] \in Nat /\ computed[r] <= q.start
      /\ \A k \in DOMAIN Spans[r] : \A p \in q.start .. q.start + q.n - 1 :
              Spans[r][k][1] <= p /\ p <= Spans[r][k][2] =>
                /\ drafts = 0
                /\ q.start <= Spans[r][k][1] /\ Spans[r][k][2] < q.start + q.n
  BY <1>4, QueryFits
<1>6. Window \in Nat \ {0}
  BY Config
<1>7. CASE meta.causal
  <2>1. /\ FirstSeen(q, pos) \in Nat /\ LastSeen(q, pos) \in Nat
        /\ FirstSeen(q, pos) <= pos /\ pos <= LastSeen(q, pos)
        /\ \/ FirstSeen(q, pos) = GreaterOf(pos - Window + 1, 0) /\ LastSeen(q, pos) = pos
           \/ \E k \in DOMAIN Spans[q.req] :
                /\ Spans[q.req][k][1] <= pos /\ pos <= Spans[q.req][k][2]
                /\ FirstSeen(q, pos) >= pos - Window + 1 \/ FirstSeen(q, pos) >= Spans[q.req][k][1]
                /\ LastSeen(q, pos) = Spans[q.req][k][2]
    BY <1>2, <1>5, <1>7, WindowIs
  <2>2. CASE FirstSeen(q, pos) = GreaterOf(pos - Window + 1, 0) /\ LastSeen(q, pos) = pos
    <3>1. low <= FirstSeen(q, pos)
      BY <1>2, <1>5, <1>6, <2>2 DEF GreaterOf
    <3>2. QED
      BY <1>2, <1>4, <2>1, <2>2, <3>1 DEF q, pos
  <2>3. ASSUME NEW k \in DOMAIN Spans[r],
               Spans[r][k][1] <= pos, pos <= Spans[r][k][2],
               FirstSeen(q, pos) >= pos - Window + 1 \/ FirstSeen(q, pos) >= Spans[r][k][1],
               LastSeen(q, pos) = Spans[r][k][2]
        PROVE  low <= FirstSeen(q, pos) /\ LastSeen(q, pos) < q.start + q.n
    <3>1. pos \in q.start .. q.start + q.n - 1
      BY <1>2, <1>5
    <3>2. /\ drafts = 0 /\ q.start <= Spans[r][k][1] /\ Spans[r][k][2] < q.start + q.n
      BY <1>5, <2>3, <3>1
    <3>3. Spans[r][k][1] \in Nat
      BY <1>5, SpansAre
    <3> DEFINE f == FirstSeen(q, pos)
    <3> HIDE DEF f
    <3>4. f \in Nat /\ (f >= pos - Window + 1 \/ f >= Spans[r][k][1])
      BY <2>1, <2>3 DEF f
    <3>5. low <= f
      BY <1>2, <1>5, <1>6, <3>2, <3>3, <3>4
    <3>6. QED
      BY <2>3, <3>2, <3>5 DEF f
  <2>4. QED
    BY <1>2, <1>4, <2>1, <2>2, <2>3 DEF q, pos
<1>8. CASE ~meta.causal
  <2>1. drafts # 0
    BY <1>8
  <2>2. FirstSeen(q, pos) = GreaterOf(q.start - Window, 0) /\ LastSeen(q, pos) = q.start + q.n - 1
    BY <1>8 DEF FirstSeen, LastSeen
  <2>3. /\ FirstSeen(q, pos) \in Nat /\ LastSeen(q, pos) \in Nat
        /\ FirstSeen(q, pos) <= LastSeen(q, pos) /\ LastSeen(q, pos) < q.start + q.n
        /\ low <= FirstSeen(q, pos)
    BY <1>5, <1>6, <2>1, <2>2 DEF GreaterOf
  <2>4. QED
    BY <1>2, <1>4, <2>3 DEF q, pos
<1>9. QED
  BY <1>7, <1>8

-----------------------------------------------------------------------------
(* The rows of a pass.                                                      *)

Cells == 0 .. BlockSize * (NumBlocks + 1) \cup {-1}

\* The slots of the positions first .. end - 1, in a buffer of any width; a cleared row.
LEMMA IndexRowIs ==
  ASSUME TablesOK, NEW r \in Requests, NEW first \in Nat, NEW end \in Nat, NEW width \in Nat,
         end <= Room(r)
  PROVE  LET row == IndexRow(r, first, end, width) IN
         /\ Len(row) = width
         /\ ToSet(row) \subseteq Cells
         /\ end - first <= width => \A o \in 1 .. end - first : row[o] = SlotOf(r, first + o - 1)
<1> DEFINE row == IndexRow(r, first, end, width)
<1>1. row = [o \in 1 .. width |-> IF first + o - 1 < end THEN SlotOf(r, first + o - 1) ELSE -1]
  BY DEF IndexRow
<1>2. Len(row) = width /\ DOMAIN row = 1 .. width
  BY <1>1
<1>3. ASSUME NEW o \in 1 .. width PROVE row[o] \in Cells
  <2>1. row[o] = IF first + o - 1 < end THEN SlotOf(r, first + o - 1) ELSE -1
    BY <1>1
  <2>2. CASE first + o - 1 < end
    <3>0. table[r] \in Seq(0 .. NumBlocks)
      BY DEF TablesOK
    <3>1. Room(r) \in Nat
      <4>1. Len(table[r]) \in Nat
        BY <3>0
      <4>2. QED
        BY <4>1, Config DEF Room
    <3>2. first + o - 1 \in Nat /\ first + o - 1 < Room(r)
      BY <2>2, <3>1
    <3>3. table[r][BlockOf(first + o - 1)] \in 0 .. NumBlocks
      BY <3>2, InTable
    <3>4. SlotOf(r, first + o - 1) \in 0 .. BlockSize * (NumBlocks + 1) - 1
      BY <3>2, <3>3, SlotIs
    <3> DEFINE z == BlockSize * (NumBlocks + 1)
    <3>5. z \in Nat
      BY Config
    <3>6. SlotOf(r, first + o - 1) \in 0 .. z - 1
      BY <3>4
    <3> HIDE DEF z
    <3>7. SlotOf(r, first + o - 1) \in 0 .. z
      BY <3>5, <3>6
    <3>8. QED
      BY <2>1, <2>2, <3>7 DEF Cells, z
  <2>3. CASE ~(first + o - 1 < end)
    BY <2>1, <2>3 DEF Cells
  <2>4. QED
    BY <2>2, <2>3
<1>4. ASSUME end - first <= width, NEW o \in 1 .. end - first
      PROVE  row[o] = SlotOf(r, first + o - 1)
  <2>1. o \in 1 .. width /\ first + o - 1 < end
    BY <1>4
  <2>2. QED
    BY <1>1, <2>1
<1> HIDE DEF row
<1>5. ToSet(row) \subseteq Cells
  BY <1>2, <1>3 DEF ToSet
<1>6. QED
  BY <1>2, <1>4, <1>5 DEF row

LEMMA ClearedRow ==
  ASSUME NEW width \in Nat
  PROVE  Len([o \in 1 .. width |-> -1]) = width /\ ToSet([o \in 1 .. width |-> -1]) \subseteq Cells
<1>1. Len([o \in 1 .. width |-> -1]) = width
  OBVIOUS
<1>2. ToSet([o \in 1 .. width |-> -1]) \subseteq {-1}
  BY DEF ToSet
<1>3. QED
  BY <1>1, <1>2 DEF Cells

\* In a draft pass all queries are decodes.
LEMMA DraftPass ==
  ASSUME PhaseOK, QueriesOK, drafts # 0
  PROVE  NumDecodes(queries) = Len(queries)
<1>1. queries \in Seq(QuerySet) /\ drafter \in {"none", "mtp", "dspark"}
  BY DEF QueriesOK, PhaseOK
<1>2. \A row \in 1 .. Len(queries) : queries[row].n <= Threshold(drafter)
  <2> TAKE row \in 1 .. Len(queries)
  <2>1. DraftQuery(queries[row])
    BY <1>1 DEF QueriesOK
  <2>2. queries[row].n = (IF drafter = "dspark" THEN DraftBlock ELSE 1)
    BY <2>1 DEF DraftQuery
  <2>3. CASE drafter = "dspark"
    <3>1. DraftBlock \in Nat /\ DraftBlock <= 1 + NumSpec[drafter] /\ NumSpec[drafter] \in Nat
      BY <2>3, Drafters
    <3>2. Threshold(drafter) \in Nat /\ 1 + NumSpec[drafter] <= Threshold(drafter)
      BY <1>1, Drafters
    <3>3. queries[row].n = DraftBlock
      BY <2>2, <2>3
    <3>4. QED
      BY <3>1, <3>2, <3>3
  <2>4. CASE drafter # "dspark"
    <3>1. Threshold(drafter) \in Nat \ {0}
      BY <1>1, Drafters
    <3>2. queries[row].n = 1
      BY <2>2, <2>4
    <3>3. QED
      BY <3>1, <3>2
  <2>5. QED
    BY <2>3, <2>4
<1>3. QED
  BY <1>1, <1>2, Decodes

Passing == pc \in {"attend", "sample", "drafted"}

\* Past the decodes come the tokens of the other queries, if there are any; all of those
\* are of the target's pass.
LEMMA PassLayout ==
  ASSUME PhaseOK, QueriesOK, BuiltOK, Passing
  PROVE  /\ meta.num_decode_tokens \in Nat /\ meta.num_prefill_tokens \in Nat
         /\ PassTokens \in Nat /\ Total(queries) \in Nat /\ Total(queries) <= PassTokens
         /\ meta.num_prefill_tokens > 0 =>
              /\ meta.num_decodes < Len(queries) /\ PassTokens = Total(queries) /\ drafts = 0
         /\ meta.num_decodes \in 0 .. Len(queries) /\ meta.num_decodes = NumDecodes(queries)
         /\ meta.num_decodes = Len(queries) => meta.num_prefill_tokens = 0
         /\ meta.num_prefill_tokens = Total(queries) - QueryStartLoc(queries, meta.num_decodes + 1)
         /\ meta.num_decodes < Len(queries) =>
              meta.num_decode_tokens = QueryStartLoc(queries, meta.num_decodes + 1)
<1>1. queries \in Seq(QuerySet) /\ drafter \in {"none", "mtp", "dspark"}
  BY DEF QueriesOK, PhaseOK
<1> DEFINE n == Len(queries)
           nd == NumDecodes(queries)
           decoded == QueryStartLoc(queries, nd + 1)
           total == Total(queries)
<1>2. n \in Nat /\ nd \in 0 .. n
  BY <1>1, Layout, Decodes
<1>3. /\ meta.num_decodes = nd /\ meta.num_decode_tokens \in Nat
      /\ meta.num_prefill_tokens = total - decoded
      /\ meta.num_decodes < n => meta.num_decode_tokens = decoded
      /\ total <= PassTokens
  BY DEF BuiltOK, Passing
<1>4. nd + 1 \in 1 .. n + 1 /\ n + 1 \in nd + 1 .. n + 1
  BY <1>2
<1>5. /\ decoded \in Nat /\ total = QueryStartLoc(queries, n + 1) /\ total \in Nat
      /\ decoded <= total
  BY <1>1, <1>4, Layout
<1>6. nd = n => decoded = total
  BY <1>5
<1>7. drafts # 0 => nd = n
  BY DraftPass
<1> HIDE DEF n, nd, decoded, total
<1>8. meta.num_prefill_tokens \in Nat
  BY <1>3, <1>5
<1>9. nd = n => meta.num_prefill_tokens = 0
  BY <1>3, <1>5, <1>6
<1>10. meta.num_prefill_tokens > 0 => nd < n /\ drafts = 0
  BY <1>2, <1>7, <1>8, <1>9
<1>11. PassTokens = meta.num_decode_tokens + meta.num_prefill_tokens
  BY DEF PassTokens
<1>12. nd < n => PassTokens = total
  BY <1>3, <1>5, <1>11
<1>13. PassTokens \in Nat
  BY <1>3, <1>8, <1>11
<1>14. QED
  BY <1>2, <1>3, <1>5, <1>8, <1>9, <1>10, <1>12, <1>13 DEF n, nd, decoded, total

\* What the rows are: no longer than their buffer is wide, made of slots; a padded
\* token's is empty, and another token's holds the slots of what it sees.
LEMMA PassRow ==
  ASSUME PhaseOK, TablesOK, QueriesOK, BuiltOK, Passing, NEW i \in 1 .. PassTokens
  PROVE  LET row == RowFor(i)
             first == FirstSeen(QueryOf(i), Position(i))
             last == LastSeen(QueryOf(i), Position(i)) IN
         /\ ToSet(row[1]) \subseteq Cells
         /\ row[2] \in Int /\ row[2] <= Len(row[1]) /\ Len(row[1]) \in Nat
         /\ i > meta.num_decode_tokens => Len(row[1]) = PrefillWidth
         /\ i > Total(queries) => row[2] = 0
         /\ i <= Total(queries) /\ Seeing(i) =>
              /\ row[2] = last - first + 1
              /\ \A o \in 1 .. last - first + 1 :
                   row[1][o] = SlotOf(QueryOf(i).req, first + o - 1)
<1> DEFINE D == meta.num_decode_tokens
           T == Total(queries)
<1>1. D \in Nat /\ T \in Nat /\ PassTokens \in Nat /\ T <= PassTokens
      /\ PassTokens = D + meta.num_prefill_tokens /\ meta.num_prefill_tokens \in Nat
  BY PassLayout DEF PassTokens
<1>2. Window \in Nat \ {0} /\ PrefillWidth \in Nat
  BY Config
<1>3. is_valid_token[i] = (i <= T)
  BY DEF BuiltOK, Passing
<1>4. meta.causal = (drafts = 0 \/ drafter # "dspark")
  BY DEF BuiltOK, Passing
<1>5. NoncausalWidth \in Nat
  BY <1>2, Drafters DEF NoncausalWidth
<1>6. CASE i > T
  <2>1. ~ is_valid_token[i]
    <3>1. ~(i <= T)
      BY <1>1, <1>6
    <3>2. QED
      BY Zenon, <1>3, <3>1
  <2>2. \E width \in Nat : /\ RowFor(i) = <<[o \in 1 .. width |-> -1], 0>>
                           /\ i > D => width = PrefillWidth
    <3>1. CASE i > D
      <4>1. RowFor(i) = <<[o \in 1 .. PrefillWidth |-> -1], 0>>
        BY <2>1, <3>1 DEF RowFor, CausalRow
      <4>2. QED
        BY <1>2, <4>1
    <3>2. CASE ~(i > D) /\ meta.causal
      <4>1. RowFor(i) = <<[o \in 1 .. Window |-> -1], 0>>
        BY <2>1, <3>2 DEF RowFor, CausalRow
      <4>2. QED
        BY <1>2, <3>2, <4>1
    <3>3. CASE ~(i > D) /\ ~meta.causal
      <4>1. RowFor(i) = <<[o \in 1 .. NoncausalWidth |-> -1], 0>>
        BY <2>1, <3>3 DEF RowFor, NoncausalRow
      <4>2. QED
        BY <1>5, <3>3, <4>1
    <3>4. QED
      BY <3>1, <3>2, <3>3
  <2>3. PICK width \in Nat : /\ RowFor(i) = <<[o \in 1 .. width |-> -1], 0>>
                             /\ i > D => width = PrefillWidth
    BY <2>2
  <2> DEFINE cleared == [o \in 1 .. width |-> -1]
  <2>4. Len(cleared) = width /\ ToSet(cleared) \subseteq Cells
    BY ClearedRow
  <2>5. RowFor(i)[1] = cleared /\ RowFor(i)[2] = 0
    BY <2>3
  <2> HIDE DEF cleared
  <2>6. Len(RowFor(i)[1]) = width /\ ToSet(RowFor(i)[1]) \subseteq Cells
    BY <2>4, <2>5
  <2>7. ~(i <= T)
    BY <1>1, <1>6
  <2>8. RowFor(i)[2] \in Int /\ RowFor(i)[2] <= Len(RowFor(i)[1]) /\ Len(RowFor(i)[1]) \in Nat
    BY <2>3, <2>5, <2>6
  <2>9. QED
    BY <2>3, <2>5, <2>6, <2>7, <2>8
<1>7. CASE ~(i > T)
  <2> DEFINE q == QueryOf(i)
             pos == Position(i)
             r == q.req
             row == RowOf(queries, i)
  <2>1. i \in 1 .. T /\ is_valid_token[i]
    <3>1. i \in 1 .. T /\ i <= T
      BY <1>1, <1>7
    <3>2. is_valid_token[i]
      BY Zenon, <1>3, <3>1
    <3>3. QED
      BY <3>1, <3>2
  <2>2. token_to_req[i] = row
    BY <2>1 DEF BuiltOK, Passing
  <2>3. q = queries[row] /\ pos = PosOf(queries, row, i)
    BY DEF QueryOf, Position
  <2>4. \E k \in DOMAIN queries : q = queries[k]
    BY <1>4, <2>1, TokenSees
  <2>5. /\ pos \in Nat /\ q.start <= pos /\ pos < q.start + q.n
        /\ FirstSeen(q, pos) \in Nat /\ LastSeen(q, pos) \in Nat
        /\ FirstSeen(q, pos) <= LastSeen(q, pos) /\ LastSeen(q, pos) < q.start + q.n
    BY <1>4, <2>1, TokenSees
  <2>6. /\ r \in Requests /\ q.start \in Nat /\ q.n \in Nat \ {0}
        /\ q.start + q.n <= Room(r) /\ Room(r) \in Nat
    BY <2>4, QueryFits
  <2> HIDE DEF row
  <2>7. ASSUME NEW left, NEW right, NEW width
        PROVE  CausalRow(queries, i, is_valid_token, token_to_req, left, right, width)
                 = <<IndexRow(r, StartPos(pos, left), EndPos(pos, right), width),
                     EndPos(pos, right) - StartPos(pos, left)>>
    BY <2>1, <2>2, <2>3 DEF CausalRow
  <2> HIDE DEF q, pos
  <2>8. ASSUME NEW a \in Nat, NEW b \in Nat, NEW width \in Nat, b <= Room(r), b - a <= width,
               RowFor(i) = <<IndexRow(r, a, b, width), b - a>>,
               i > D => width = PrefillWidth,
               Seeing(i) => a = FirstSeen(q, pos) /\ b = LastSeen(q, pos) + 1
        PROVE  /\ ToSet(RowFor(i)[1]) \subseteq Cells
               /\ RowFor(i)[2] \in Int /\ RowFor(i)[2] <= Len(RowFor(i)[1]) /\ Len(RowFor(i)[1]) \in Nat
               /\ i > D => Len(RowFor(i)[1]) = PrefillWidth
               /\ Seeing(i) =>
                    /\ RowFor(i)[2] = LastSeen(q, pos) - FirstSeen(q, pos) + 1
                    /\ \A o \in 1 .. LastSeen(q, pos) - FirstSeen(q, pos) + 1 :
                         RowFor(i)[1][o] = SlotOf(r, FirstSeen(q, pos) + o - 1)
    <3> DEFINE idx == IndexRow(r, a, b, width)
    <3>0. r \in Requests /\ b - a <= width /\ b <= Room(r)
      BY <2>6, <2>8
    <3>1. /\ Len(idx) = width /\ ToSet(idx) \subseteq Cells
          /\ \A o \in 1 .. b - a : idx[o] = SlotOf(r, a + o - 1)
      BY <3>0, IndexRowIs
    <3>2. RowFor(i)[1] = idx /\ RowFor(i)[2] = b - a
      BY <2>8
    <3> HIDE DEF idx
    <3>3. ASSUME Seeing(i)
          PROVE  /\ RowFor(i)[2] = LastSeen(q, pos) - FirstSeen(q, pos) + 1
                 /\ \A o \in 1 .. LastSeen(q, pos) - FirstSeen(q, pos) + 1 :
                      RowFor(i)[1][o] = SlotOf(r, FirstSeen(q, pos) + o - 1)
      <4>1. a = FirstSeen(q, pos) /\ b = LastSeen(q, pos) + 1
        BY <2>8, <3>3
      <4>2. b - a = LastSeen(q, pos) - FirstSeen(q, pos) + 1
        BY <2>5, <4>1
      <4>3. QED
        BY <3>1, <3>2, <4>1, <4>2
    <3>4. QED
      BY <2>8, <3>1, <3>2, <3>3
  <2>9. \E a \in Nat, b \in Nat, width \in Nat :
          /\ b <= Room(r) /\ b - a <= width
          /\ RowFor(i) = <<IndexRow(r, a, b, width), b - a>>
          /\ i > D => width = PrefillWidth
          /\ Seeing(i) => a = FirstSeen(q, pos) /\ b = LastSeen(q, pos) + 1
    <3>1. CASE i > D
      <4>1. meta.num_prefill_tokens > 0
        BY <1>1, <3>1
      <4>2. meta.causal
        BY <1>4, <4>1, PassLayout
      <4>3. i \in D + 1 .. PassTokens
        BY <1>1, <3>1
      <4>4. Left(i) = LeftVisible(r, pos) /\ Right(i) = RightVisible(r, pos)
        BY <4>3 DEF BuiltOK, Passing, q, pos
      <4>5. /\ StartPos(pos, Left(i)) = FirstSeen(q, pos)
            /\ EndPos(pos, Right(i)) = LastSeen(q, pos) + 1
            /\ LastSeen(q, pos) - FirstSeen(q, pos) + 1 <= PrefillWidth
        BY <2>5, <2>6, <4>2, <4>4, WindowIs
      <4>6. RowFor(i) = CausalRow(queries, i, is_valid_token, token_to_req, Left(i), Right(i), PrefillWidth)
        BY <3>1 DEF RowFor
      <4> DEFINE a == FirstSeen(q, pos)
                 b == LastSeen(q, pos) + 1
      <4>7. a \in Nat /\ b \in Nat /\ b <= Room(r) /\ b - a <= PrefillWidth
        BY <2>5, <2>6, <4>5
      <4>8. RowFor(i) = <<IndexRow(r, a, b, PrefillWidth), b - a>>
        BY <2>7, <4>5, <4>6
      <4>9. QED
        BY <1>2, <4>7, <4>8
    <3>2. CASE ~(i > D) /\ meta.causal
      <4> DEFINE a == StartPos(pos, 0)
                 b == EndPos(pos, 0)
      <4>1. a = GreaterOf(pos - Window + 1, 0) /\ b = pos + 1
        BY <1>2, <2>5 DEF StartPos, EndPos, GreaterOf
      <4>2. RowFor(i) = CausalRow(queries, i, is_valid_token, token_to_req, 0, 0, Window)
        BY <3>2 DEF RowFor
      <4>3. RowFor(i) = <<IndexRow(r, a, b, Window), b - a>>
        BY <2>7, <4>2
      <4>4. a \in Nat /\ b \in Nat /\ b <= Room(r) /\ b - a <= Window
        BY <1>2, <2>5, <2>6, <4>1 DEF GreaterOf
      <4>5. ASSUME Seeing(i) PROVE a = FirstSeen(q, pos) /\ b = LastSeen(q, pos) + 1
        <5>1. Containing(q, pos) = {}
          BY <3>2, <4>5 DEF Seeing, q, pos
        <5>2. \A k \in DOMAIN Spans[r] : ~(Spans[r][k][1] <= pos /\ pos <= Spans[r][k][2])
          BY <5>1 DEF Containing, ToSet
        <5>3. FirstSeen(q, pos) = GreaterOf(pos - Window + 1, 0) /\ LastSeen(q, pos) = pos
          BY <2>5, <2>6, <3>2, <5>2, WindowIs
        <5>4. QED
          BY <4>1, <5>3
      <4> HIDE DEF a, b
      <4>6. QED
        BY <1>2, <3>2, <4>3, <4>4, <4>5
    <3>3. CASE ~(i > D) /\ ~meta.causal
      <4> DEFINE a == GreaterOf(q.start - Window, 0)
                 b == q.start + q.n
      <4>1. RowFor(i) = <<IndexRow(r, a, b, NoncausalWidth), b - a>>
        <5>1. RowFor(i) = NoncausalRow(queries, i, is_valid_token, token_to_req)
          BY <3>3 DEF RowFor
        <5>2. QED
          BY <2>1, <2>2, <2>3, <5>1 DEF NoncausalRow, q
      <4>2. FirstSeen(q, pos) = a /\ LastSeen(q, pos) = b - 1
        <5>1. FirstSeen(q, pos) = a
          BY <3>3 DEF FirstSeen
        <5>2. LastSeen(q, pos) = q.start + q.n - 1
          BY <3>3 DEF LastSeen
        <5>3. QED
          BY <2>6, <5>1, <5>2
      <4>3. q.n = DraftBlock
        <5>1. drafts # 0 /\ drafter = "dspark"
          BY <1>4, <3>3
        <5>2. DraftQuery(q)
          BY <2>4, <5>1 DEF QueriesOK
        <5>3. QED
          BY <5>1, <5>2 DEF DraftQuery
      <4>4. a \in Nat /\ b \in Nat /\ b <= Room(r) /\ b - a <= NoncausalWidth
        BY <1>2, <2>6, <4>3 DEF NoncausalWidth, GreaterOf
      <4>5. LastSeen(q, pos) + 1 = b
        BY <4>2, <4>4
      <4> HIDE DEF a, b
      <4>6. QED
        BY <1>5, <3>3, <4>1, <4>2, <4>4, <4>5
    <3>4. QED
      BY <3>1, <3>2, <3>3
  <2>10. /\ ToSet(RowFor(i)[1]) \subseteq Cells
         /\ RowFor(i)[2] \in Int /\ RowFor(i)[2] <= Len(RowFor(i)[1]) /\ Len(RowFor(i)[1]) \in Nat
         /\ i > D => Len(RowFor(i)[1]) = PrefillWidth
         /\ Seeing(i) =>
              /\ RowFor(i)[2] = LastSeen(q, pos) - FirstSeen(q, pos) + 1
              /\ \A o \in 1 .. LastSeen(q, pos) - FirstSeen(q, pos) + 1 :
                   RowFor(i)[1][o] = SlotOf(r, FirstSeen(q, pos) + o - 1)
    BY <2>8, <2>9
  <2>11. QED
    BY <1>7, <2>10 DEF q, pos
<1>8. QED
  BY <1>6, <1>7

-----------------------------------------------------------------------------
(* What the layers read.                                                    *)

\* The chunks of the prefill requests cover the prefill tokens, and no others.
LEMMA Chunks ==
  ASSUME PhaseOK, QueriesOK, BuiltOK, Passing
  PROVE  LET base == QueryStartLoc(queries, meta.num_decodes + 1) IN
         PrefillRows(queries) =
           [t \in {base + i : i \in 1 .. meta.num_prefill_tokens} |->
              <<prefill_swa_indices[t - base], prefill_swa_lens[t - base]>>]
<1> DEFINE nd == meta.num_decodes
           n == Len(queries)
           loc(k) == QueryStartLoc(queries, k)
           base == loc(nd + 1)
           prefills == n - nd
           C == PrefillChunk
           X == CeilDiv(prefills, C)
           first(c) == loc(nd + c * C + 1) - base
           last(c) == loc(nd + LesserOf((c + 1) * C, prefills) + 1) - base
           covered == UNION {first(c) + 1 .. last(c) : c \in 0 .. X - 1}
           P == meta.num_prefill_tokens
<1>1. queries \in Seq(QuerySet)
  BY DEF QueriesOK
<1>2. /\ n \in Nat /\ nd \in 0 .. n /\ P \in Nat /\ P = Total(queries) - base
      /\ Total(queries) = loc(n + 1) /\ Total(queries) \in Nat
      /\ \A k \in 1 .. n + 1 : loc(k) \in Nat
      /\ \A i \in 1 .. n + 1 : \A j \in i .. n + 1 : loc(i) <= loc(j)
  BY <1>1, PassLayout, Layout
<1>3. C \in Nat \ {0} /\ prefills \in Nat
  BY <1>2, Config
<1>4. X \in Nat /\ prefills <= C * X
  BY <1>3, Ceiling DEF CeilDiv
<1>5. base \in Nat
  <2>1. nd + 1 \in 1 .. n + 1
    BY <1>2
  <2>2. QED
    BY <1>2, <2>1
<1>6. ASSUME NEW c \in 0 .. X - 1
      PROVE  /\ c * C \in Nat /\ c * C < prefills
             /\ nd + c * C + 1 \in nd + 1 .. n + 1
             /\ (c + 1) * C = c * C + C
             /\ LesserOf((c + 1) * C, prefills) \in 0 .. prefills
             /\ nd + LesserOf((c + 1) * C, prefills) + 1 \in nd + 1 .. n + 1
  <2>1. c * C \in Nat /\ (c + 1) * C = c * C + C
    BY <1>3
  <2>2. (c + 1) * C <= X * C /\ X * C \in Nat
    BY <1>3, <1>4, Times
  <2>3. X * C <= prefills + C - 1
    <3> DEFINE x == prefills + C - 1
    <3>1. x \in Nat /\ X = x \div C
      BY <1>3 DEF CeilDiv
    <3>2. x % C \in 0 .. C - 1 /\ x = (x \div C) * C + (x % C)
      BY <1>3, <3>1, DivModOf
    <3> HIDE DEF x
    <3>3. x = X * C + (x % C)
      BY <3>1, <3>2
    <3>4. X * C <= x
      BY <2>2, <3>2, <3>3
    <3>5. QED
      BY <3>4 DEF x
  <2> DEFINE y == c * C
             z == X * C
             w == (c + 1) * C
  <2>4. y \in Nat /\ z \in Nat /\ w = y + C /\ w <= z /\ z <= prefills + C - 1
    BY <2>1, <2>2, <2>3
  <2> HIDE DEF y, z, w, X, prefills
  <2>5. y < prefills /\ w \in Nat
    BY <1>3, <2>4
  <2>6. prefills = n - nd
    BY DEF prefills
  <2>7. nd + y + 1 \in nd + 1 .. n + 1
    BY SMTT(30), <1>2, <2>4, <2>5, <2>6
  <2>8. LesserOf(w, prefills) \in 0 .. prefills
    BY <1>3, <2>5 DEF LesserOf
  <2>9. nd + LesserOf(w, prefills) + 1 \in nd + 1 .. n + 1
    BY SMTT(30), <1>2, <2>6, <2>8
  <2>10. QED
    BY <2>1, <2>4, <2>5, <2>7, <2>8, <2>9 DEF y, w
<1>7. ASSUME NEW c \in 0 .. X - 1, NEW i \in first(c) + 1 .. last(c)
      PROVE  i \in 1 .. P
  <2> DEFINE a == nd + c * C + 1
             b == nd + LesserOf((c + 1) * C, prefills) + 1
  <2>1. a \in nd + 1 .. n + 1 /\ b \in nd + 1 .. n + 1
    BY <1>6
  <2>2. first(c) = loc(a) - base /\ last(c) = loc(b) - base
    OBVIOUS
  <2> HIDE DEF a, b, loc, first, last
  <2>3. a \in 1 .. n + 1 /\ b \in 1 .. n + 1 /\ n + 1 \in b .. n + 1 /\ nd + 1 \in 1 .. n + 1
    BY SMTT(30), <1>2, <2>1
  <2>4. base <= loc(a) /\ loc(b) <= loc(n + 1) /\ loc(a) \in Nat /\ loc(b) \in Nat
    BY <1>2, <2>1, <2>3
  <2> HIDE DEF base
  <2>5. QED
    BY SMTT(30), <1>2, <1>5, <2>2, <2>4
<1>8. ASSUME NEW i \in 1 .. P
      PROVE  \E c \in 0 .. X - 1 : i \in first(c) + 1 .. last(c)
  <2> DEFINE t == base + i
             row == RowOf(queries, t)
             j == row - nd - 1
             c == j \div C
  <2>1. t \in 1 .. Total(queries) /\ t > base
    BY <1>2, <1>5
  <2>2. row \in 1 .. n /\ loc(row) < t /\ t <= loc(row + 1)
    BY <1>1, <2>1, TokenRow
  <2> HIDE DEF row
  <2>3. row > nd
    <3> SUFFICES ASSUME row <= nd PROVE FALSE
      BY <1>2, <2>2
    <3>1. row + 1 \in 1 .. n + 1 /\ nd + 1 \in row + 1 .. n + 1
      BY <1>2, <2>2
    <3>2. loc(row + 1) <= base /\ loc(row + 1) \in Nat
      BY <1>2, <3>1
    <3> HIDE DEF loc, base
    <3>3. QED
      BY <1>5, <2>1, <2>2, <3>2
  <2>4. j \in 0 .. prefills - 1 /\ j + 1 = row - nd /\ row = nd + j + 1
    BY SMTT(30), <1>2, <2>2, <2>3
  <2>5. j \in Nat /\ j < X * C
    <3>1. C * X = X * C
      BY <1>3, <1>4
    <3> DEFINE z == C * X
    <3>2. z \in Nat /\ prefills <= z /\ z = X * C
      BY <1>3, <1>4, <3>1
    <3> HIDE DEF z, X
    <3>3. j \in Nat /\ j < z
      BY <1>3, <2>4, <3>2
    <3>4. QED
      BY <3>2, <3>3
  <2> HIDE DEF j
  <2>6. /\ c \in Nat /\ c < X /\ j % C \in 0 .. C - 1
        /\ j = c * C + (j % C)
    BY <1>3, <1>4, <2>5, DivModOf
  <2> HIDE DEF c
  <2>7. c \in 0 .. X - 1
    BY <1>4, <2>6
  <2>8. /\ c * C \in Nat /\ nd + c * C + 1 \in nd + 1 .. n + 1
        /\ (c + 1) * C = c * C + C
        /\ nd + LesserOf((c + 1) * C, prefills) + 1 \in nd + 1 .. n + 1
    BY <1>6, <2>7
  <2> DEFINE y == c * C
             w == (c + 1) * C
             m == LesserOf(w, prefills)
  <2>9. y \in Nat /\ w = y + C /\ j = y + (j % C)
    BY <2>6, <2>8
  <2> HIDE DEF y, w
  <2>10. j <= w - 1 /\ w \in Nat /\ y <= j
    BY <1>3, <2>5, <2>6, <2>9
  <2>11. m >= j + 1 /\ m \in Nat /\ m <= prefills
    BY <1>3, <2>4, <2>5, <2>10 DEF LesserOf
  <2> HIDE DEF m
  <2>12. /\ nd + y + 1 \in 1 .. n + 1 /\ row \in nd + y + 1 .. n + 1
         /\ row + 1 \in 1 .. n + 1 /\ nd + m + 1 \in row + 1 .. n + 1
    <3>1. nd + y + 1 \in 1 .. n + 1 /\ row \in nd + y + 1 .. n + 1
      <4>1. nd \in Nat /\ n \in Nat /\ row \in 1 .. n /\ row = nd + j + 1 /\ j \in Nat
        BY <1>2, <2>2, <2>4, <2>5
      <4>2. nd + y + 1 <= row /\ nd + y + 1 \in Nat
        BY SMTT(30), <2>9, <2>10, <4>1
      <4>3. QED
        BY <2>9, <4>1, <4>2
    <3>2. row + 1 \in 1 .. n + 1
      BY <1>2, <2>2
    <3>3. nd + m + 1 \in row + 1 .. n + 1
      <4>1. nd \in Nat /\ n \in Nat /\ row \in 1 .. n /\ row = nd + j + 1 /\ j \in Nat
        BY <1>2, <2>2, <2>4, <2>5
      <4>2. m <= n - nd
        BY <2>11
      <4>3. QED
        BY <2>11, <4>1, <4>2
    <3>4. QED
      BY <3>1, <3>2, <3>3
  <2>13. nd + m + 1 \in 1 .. n + 1 /\ row \in 1 .. n + 1
    BY <1>2, <2>2, <2>12
  <2>14. /\ loc(nd + y + 1) <= loc(row) /\ loc(row + 1) <= loc(nd + m + 1)
         /\ loc(nd + y + 1) \in Nat /\ loc(nd + m + 1) \in Nat
         /\ loc(row) \in Nat /\ loc(row + 1) \in Nat
    BY <1>2, <2>12, <2>13
  <2>15. first(c) = loc(nd + y + 1) - base /\ last(c) = loc(nd + m + 1) - base
    BY DEF y, w, m
  <2> HIDE DEF loc, first, last, base
  <2>16. first(c) < i /\ i <= last(c) /\ first(c) \in Int /\ last(c) \in Int
    BY SMTT(30), <1>2, <1>5, <2>2, <2>14, <2>15
  <2>17. i \in first(c) + 1 .. last(c)
    BY <1>2, <2>16
  <2>18. QED
    BY <2>7, <2>17
<1>9. covered = 1 .. P
  <2> HIDE DEF first, last, X, P
  <2>1. covered \subseteq 1 .. P
    BY <1>7
  <2>2. 1 .. P \subseteq covered
    BY <1>8
  <2>3. QED
    BY <2>1, <2>2
<1>10. PrefillRows(queries) =
         [t \in {base + i : i \in covered} |->
            <<prefill_swa_indices[t - base], prefill_swa_lens[t - base]>>]
  BY Zenon DEF PrefillRows
<1> HIDE DEF covered
<1>11. QED
  BY <1>9, <1>10

\* Whatever path they take, the layers have the pass's rows.
LEMMA RowsAre ==
  ASSUME PhaseOK, QueriesOK, BuiltOK, BuffersOK, pc = "attend"
  PROVE  DOMAIN Rows = 1 .. PassTokens /\ \A t \in 1 .. PassTokens : Rows[t] = RowFor(t)
<1> DEFINE D == meta.num_decode_tokens
           P == meta.num_prefill_tokens
           base == QueryStartLoc(queries, meta.num_decodes + 1)
<1>1. Passing
  BY DEF Passing
<1>2. /\ D \in Nat /\ P \in Nat /\ PassTokens = D + P
      /\ P > 0 => D = base
  BY <1>1, PassLayout DEF PassTokens
<1>3. /\ \A i \in 1 .. D : <<decode_swa_indices[i], decode_swa_lens[i]>> = RowFor(i)
      /\ \A i \in 1 .. P : <<prefill_swa_indices[i], prefill_swa_lens[i]>> = RowFor(D + i)
      /\ cache = None
  BY DEF BuffersOK
<1>4. DecodeRows = [t \in 1 .. D |-> <<decode_swa_indices[t], decode_swa_lens[t]>>]
  BY DEF DecodeRows
<1>5. PrefillRows(queries) = [t \in {base + i : i \in 1 .. P} |->
         <<prefill_swa_indices[t - base], prefill_swa_lens[t - base]>>]
  BY <1>1, Chunks
<1> HIDE DEF D, P, base
<1>6. {base + i : i \in 1 .. P} = {D + i : i \in 1 .. P}
  BY <1>2
<1>7. 1 .. D \cup {D + i : i \in 1 .. P} = 1 .. PassTokens
  <2>1. \A t \in 1 .. PassTokens : t \notin 1 .. D => t - D \in 1 .. P /\ t = D + (t - D)
    BY <1>2
  <2>2. \A i \in 1 .. P : D + i \in 1 .. PassTokens
    BY <1>2
  <2>3. 1 .. D \subseteq 1 .. PassTokens
    BY <1>2
  <2>4. QED
    BY <2>1, <2>2, <2>3
<1>8. \A t \in {D + i : i \in 1 .. P} : t > D /\ t - base \in 1 .. P /\ D + (t - base) = t
  <2> TAKE t \in {D + i : i \in 1 .. P}
  <2>1. PICK i \in 1 .. P : t = D + i
    OBVIOUS
  <2>2. P > 0
    BY <1>2, <2>1
  <2>3. QED
    BY <1>2, <2>1, <2>2
<1>9. CASE path = "sm120"
  <2>1. Rows = Calls(PrefillRows(queries), DecodeRows)
    BY <1>9 DEF Rows
  <2> DEFINE f == PrefillRows(queries)
             g == DecodeRows
  <2>2. DOMAIN f = {D + i : i \in 1 .. P} /\ DOMAIN g = 1 .. D
    BY <1>4, <1>5, <1>6
  <2>3. ASSUME NEW t \in DOMAIN f PROVE f[t] = RowFor(t)
    <3>1. f[t] = <<prefill_swa_indices[t - base], prefill_swa_lens[t - base]>>
      BY <1>5, <1>6, <2>2, <2>3
    <3>2. t - base \in 1 .. P /\ D + (t - base) = t
      BY <1>8, <2>2, <2>3
    <3> HIDE DEF f
    <3>3. QED
      BY <1>3, <3>1, <3>2
  <2>4. ASSUME NEW t \in DOMAIN g PROVE g[t] = RowFor(t)
    BY <1>3, <1>4, <2>2
  <2> HIDE DEF f, g
  <2>5. Rows = [t \in DOMAIN f \cup DOMAIN g |-> IF t \in DOMAIN f THEN f[t] ELSE g[t]]
    BY <2>1 DEF Calls, f, g
  <2>6. DOMAIN f \cup DOMAIN g = 1 .. PassTokens
    BY <1>7, <2>2
  <2>7. QED
    BY <2>3, <2>4, <2>5, <2>6
<1>10. CASE path # "sm120"
  <2>1. Rows = TwoCalls(MixedRows)
    BY <1>3, <1>10 DEF Rows
  <2>2. MixedRows = [t \in 1 .. PassTokens |-> RowFor(t)]
    <3>1. ASSUME NEW t \in 1 .. PassTokens, t <= D
          PROVE  DecodeRows[t] = RowFor(t)
      <4>1. t \in 1 .. D
        BY <1>2, <3>1
      <4>2. QED
        BY <1>3, <1>4, <4>1
    <3>2. ASSUME NEW t \in 1 .. PassTokens, ~(t <= D)
          PROVE  CausalRow(queries, t, is_valid_token, token_to_req,
                    IF meta.image THEN left_visible[t] ELSE 0,
                    IF meta.image THEN right_visible[t] ELSE 0, PrefillWidth) = RowFor(t)
      <4>1. t > D
        BY <1>2, <3>2
      <4>2. QED
        BY <4>1 DEF RowFor, Left, Right, D
    <3>3. QED
      BY <1>2, <3>1, <3>2 DEF MixedRows, PassTokens, D
  <2> DEFINE f == [t \in 1 .. D |-> MixedRows[t]]
             g == [t \in {D + i : i \in 1 .. P} |-> MixedRows[t]]
  <2>3. Rows = Calls(f, g)
    BY <2>1 DEF TwoCalls, D, P
  <2>4. DOMAIN f \cup DOMAIN g = 1 .. PassTokens
    BY <1>7
  <2>5. \A t \in DOMAIN f : f[t] = MixedRows[t]
    OBVIOUS
  <2>6. \A t \in DOMAIN g : g[t] = MixedRows[t]
    OBVIOUS
  <2> HIDE DEF f, g
  <2>7. Rows = [t \in DOMAIN f \cup DOMAIN g |-> IF t \in DOMAIN f THEN f[t] ELSE g[t]]
    BY <2>3 DEF Calls
  <2>8. QED
    BY <2>2, <2>4, <2>5, <2>6, <2>7
<1>11. QED
  BY <1>9, <1>10

-----------------------------------------------------------------------------
(* The invariant: what the steps leave as it is.                            *)

\* The parts that say what is in the tables and in the cache.
LEMMA HeldKept ==
  ASSUME NEW r \in Requests, NEW p \in Nat, Held(r, p),
         epoch'[r] = epoch[r],
         BlockOf(p) \in DOMAIN table'[r], table'[r][BlockOf(p)] = table[r][BlockOf(p)],
         kv'[SlotOf(r, p)] = kv[SlotOf(r, p)]
  PROVE  Held(r, p)'
<1>1. SlotOf(r, p)' = SlotOf(r, p)
  BY DEF SlotOf, BlockOf
<1>2. Key(r, p)' = Key(r, p)
  BY DEF Key
<1>3. table[r][BlockOf(p)] \in Blocks /\ kv[SlotOf(r, p)] = Key(r, p)
  BY DEF Held
<1>4. QED
  BY <1>1, <1>2, <1>3 DEF Held

LEMMA TablesKept ==
  ASSUME UNCHANGED <<table, kv, epoch>>
  PROVE  /\ \A r, p : Held(r, p)' <=> Held(r, p)
         /\ \A r, p : SlotOf(r, p)' = SlotOf(r, p)
         /\ \A r : Room(r)' = Room(r)
         /\ \A r, p : Key(r, p)' = Key(r, p)
<1>1. \A r, p : SlotOf(r, p)' = SlotOf(r, p)
  BY DEF SlotOf
<1>2. \A r, p : Key(r, p)' = Key(r, p)
  BY DEF Key
<1>3. \A r : Room(r)' = Room(r)
  BY DEF Room
<1>4. \A r, p : Held(r, p)' <=> Held(r, p)
  BY <1>1, <1>2 DEF Held
<1>5. QED
  BY <1>1, <1>2, <1>3, <1>4

LEMMA TableInvKept ==
  ASSUME TablesOK, KeysHeld, UNCHANGED <<computed, table, kv, epoch>>
  PROVE  TablesOK' /\ KeysHeld'
<1>1. \A r : Skipped(r)' = Skipped(r)
  BY DEF Skipped
<1>2. TablesOK'
  BY <1>1 DEF TablesOK
<1>3. KeysHeld'
  BY TablesKept DEF KeysHeld
<1>4. QED
  BY <1>2, <1>3

LEMMA QueriesKept ==
  ASSUME QueriesOK, UNCHANGED <<drafter, computed, table, queries, drafts>>
  PROVE  QueriesOK'
<1>1. \A r : Room(r)' = Room(r)
  BY DEF Room
<1>2. \A q : TargetQuery(q)' <=> TargetQuery(q)
  BY <1>1 DEF TargetQuery
<1>3. \A q : DraftQuery(q)' <=> DraftQuery(q)
  BY <1>1 DEF DraftQuery
<1>4. QED
  BY <1>2, <1>3 DEF QueriesOK

\* Between the layers' passes: nothing is promised of the metadata.
LEMMA Resting ==
  ASSUME pc' \in {"schedule", "draft"}
  PROVE  BuiltOK' /\ BuffersOK' /\ ReadsOK'
<1>1. BuiltOK'
  BY DEF BuiltOK
<1>2. BuffersOK'
  BY DEF BuffersOK
<1>3. ReadsOK'
  BY DEF ReadsOK
<1>4. QED
  BY <1>1, <1>2, <1>3

\* The tables' entries in TypeOK's words.
LEMMA TablesTyped == TablesOK => \A r \in Requests : ToSet(table[r]) \subseteq 0 .. NumBlocks
<1> SUFFICES ASSUME TablesOK, NEW r \in Requests PROVE ToSet(table[r]) \subseteq 0 .. NumBlocks
  OBVIOUS
<1> DEFINE B == 0 .. NumBlocks
<1>1. table[r] \in Seq(B)
  BY DEF TablesOK
<1> HIDE DEF B
<1>2. \A i \in DOMAIN table[r] : table[r][i] \in B
  BY <1>1
<1>3. QED
  BY <1>2 DEF ToSet, B

LEMMA TypeIs == PhaseOK /\ TablesOK /\ BuffersTyped => TypeOK
BY TablesTyped DEF PhaseOK, BuffersTyped, TypeOK

LEMMA BuffersTypedKept ==
  ASSUME BuffersTyped, UNCHANGED buffers
  PROVE  BuffersTyped'
BY DEF BuffersTyped, buffers

-----------------------------------------------------------------------------
(* The invariant: the steps.                                                *)

LEMMA InitInv == Init => Inv
<1> SUFFICES ASSUME Init PROVE Inv
  OBVIOUS
<1>1. /\ pc = "schedule" /\ queries = <<>> /\ drafts = 0
      /\ computed = [r \in Requests |-> 0] /\ epoch = [r \in Requests |-> 0]
      /\ table = [r \in Requests |-> <<>>]
  BY DEF Init
<1>2. PhaseOK
  <2>1. PICK d \in Deployments : drafter = d[1] /\ path = d[2]
    BY DEF Init
  <2>2. d \in {"none", "mtp", "dspark"} \X {"mixed", "sm120"}
    BY SwaAssumption
  <2>3. <<drafter, path>> = d /\ drafter \in {"none", "mtp", "dspark"} /\ path \in {"mixed", "sm120"}
    BY <2>1, <2>2
  <2>4. QED
    BY <1>1, <2>1, <2>3 DEF PhaseOK
<1>3. TablesOK
  BY <1>1 DEF TablesOK
<1>4. KeysHeld
  <2>1. \A p \in Nat : ~(p < 0)
    OBVIOUS
  <2>2. QED
    BY <1>1, <2>1 DEF KeysHeld
<1>5. QueriesOK
  <2>1. queries \in Seq(QuerySet) /\ DOMAIN queries = {} /\ Len(queries) = 0
    BY <1>1
  <2>2. Total(queries) = 0
    <3>1. Total(queries) = QueryStartLoc(queries, Len(queries) + 1) /\ QueryStartLoc(queries, 1) = 0
      BY <2>1, Layout
    <3>2. Len(queries) + 1 = 1
      BY <2>1
    <3>3. QED
      BY <3>1, <3>2
  <2>3. 0 <= MaxTokens
    BY Config
  <2>4. QED
    BY <2>1, <2>2, <2>3 DEF QueriesOK
<1>6. RowsHeld
  BY <1>1 DEF RowsHeld
<1>7. BuiltOK /\ BuffersOK /\ ReadsOK
  BY <1>1 DEF BuiltOK, BuffersOK, ReadsOK
<1>8. BuffersTyped
  <2> SUFFICES ASSUME NEW i \in Tokens
               PROVE  /\ ToSet(decode_swa_indices[i]) \cup ToSet(prefill_swa_indices[i])
                           \subseteq 0 .. BlockSize * (NumBlocks + 1)  \cup {-1}
                      /\ Len(decode_swa_indices[i]) \in Nat
                      /\ decode_swa_lens[i] <= GreaterOf(Window, Len(decode_swa_indices[i]))
                      /\ prefill_swa_lens[i] <= PrefillWidth
                      /\ prefill_swa_lens[i] <= GreaterOf(0, Len(prefill_swa_indices[i]))
    BY DEF BuffersTyped
  <2>1. /\ decode_swa_indices[i] = <<>> /\ prefill_swa_indices[i] = <<>>
        /\ decode_swa_lens[i] = 0 /\ prefill_swa_lens[i] = 0
    BY DEF Init
  <2>2. ToSet(decode_swa_indices[i]) = {} /\ ToSet(prefill_swa_indices[i]) = {}
    BY <2>1 DEF ToSet
  <2>3. Len(decode_swa_indices[i]) = 0 /\ Len(prefill_swa_indices[i]) = 0
    BY <2>1
  <2>4. QED
    BY <2>1, <2>2, <2>3, Config DEF GreaterOf
<1>9. QED
  BY <1>2, <1>3, <1>4, <1>5, <1>6, <1>7, <1>8 DEF Inv

\* A preempted request's blocks and keys are given up, nobody else's.
LEMMA PreemptOK ==
  ASSUME Inv, NEW r \in Requests, Preempt(r)
  PROVE  Inv'
<1>1. /\ pc = "schedule" /\ queries = <<>>
      /\ epoch' = [epoch EXCEPT ![r] = @ + 1]
      /\ computed' = [computed EXCEPT ![r] = 0]
      /\ table' = [table EXCEPT ![r] = <<>>]
      /\ UNCHANGED <<drafter, path, pc, kv, queries, meta, buffers, cache, reads, drafts>>
  BY DEF Preempt
<1>2. PhaseOK /\ TablesOK /\ KeysHeld /\ QueriesOK /\ BuffersTyped
  BY DEF Inv
<1>3. PhaseOK'
  BY <1>1, <1>2 DEF PhaseOK
<1>4. DOMAIN table' = DOMAIN table /\ \A q \in Requests : q # r =>
         computed'[q] = computed[q] /\ epoch'[q] = epoch[q]
  BY <1>1, <1>2 DEF PhaseOK
<1>5. \A q \in Requests : q # r => table'[q] = table[q] /\ Skipped(q)' = Skipped(q)
  BY <1>1, <1>4 DEF Skipped
<1>6. table'[r] = <<>> /\ DOMAIN table' = Requests /\ Len(table'[r]) = 0
  BY <1>1, <1>2 DEF TablesOK
<1>7. \A q \in Requests : \A i \in DOMAIN table'[q] : q # r /\ table'[q] = table[q]
  BY <1>5, <1>6
<1>8. TablesOK'
  <2>1. \A q \in Requests : table'[q] \in Seq(0 .. NumBlocks)
    <3>1. \A q \in Requests : table[q] \in Seq(0 .. NumBlocks)
      BY <1>2 DEF TablesOK
    <3>2. <<>> \in Seq(0 .. NumBlocks)
      OBVIOUS
    <3> DEFINE B == Seq(0 .. NumBlocks)
    <3> HIDE DEF B
    <3>3. (\A q \in Requests : table[q] \in B) /\ <<>> \in B
      BY <3>1, <3>2 DEF B
    <3>4. \A q \in Requests : table'[q] \in B
      BY <1>5, <1>6, <3>3
    <3>5. QED
      BY <3>4 DEF B
  <2>2. \A q \in Requests : \A i \in DOMAIN table'[q] : i > Skipped(q)' => table'[q][i] # 0
    BY <1>2, <1>5, <1>7 DEF TablesOK
  <2>3. ASSUME NEW p \in Requests, NEW q \in Requests, NEW i \in DOMAIN table'[p],
               NEW j \in DOMAIN table'[q], table'[p][i] = table'[q][j], table'[p][i] # 0
        PROVE  p = q /\ i = j
    BY <1>2, <1>7, <2>3 DEF TablesOK
  <2>4. QED
    BY <1>6, <2>1, <2>2, <2>3 DEF TablesOK
<1>9. KeysHeld'
  <2> SUFFICES ASSUME NEW q \in Requests, NEW p \in Nat,
                      computed'[q] - Window + 1 <= p, p < computed'[q]
               PROVE  Held(q, p)'
    BY DEF KeysHeld
  <2>1. q # r
    <3>1. computed'[r] = 0
      BY <1>1, <1>2 DEF PhaseOK
    <3>2. QED
      BY <3>1
  <2>2. Held(q, p)
    BY <1>2, <1>4, <2>1 DEF KeysHeld
  <2>3. BlockOf(p) \in DOMAIN table[q]
    BY <2>2 DEF Held
  <2>4. QED
    BY <1>1, <1>4, <1>5, <2>1, <2>2, <2>3, HeldKept
<1>10. queries' = <<>> /\ DOMAIN queries' = {} /\ queries' = queries
  BY <1>1
<1>11. QueriesOK'
  <2>1. Total(queries)' = Total(queries)
    BY <1>10
  <2>2. QED
    BY <1>2, <1>10, <2>1 DEF QueriesOK
<1>12. RowsHeld'
  BY <1>10 DEF RowsHeld
<1>13. BuiltOK' /\ BuffersOK' /\ ReadsOK'
  BY <1>1, Resting
<1>14. BuffersTyped'
  BY <1>1, <1>2, BuffersTypedKept
<1>15. QED
  BY <1>3, <1>8, <1>9, <1>11, <1>12, <1>13, <1>14 DEF Inv

\* A query more is that many tokens more.
LEMMA Appended ==
  ASSUME NEW qs \in Seq(QuerySet), NEW q \in QuerySet
  PROVE  Append(qs, q) \in Seq(QuerySet) /\ Total(Append(qs, q)) = Total(qs) + q.n
<1> DEFINE ps == Append(qs, q)
           n == Len(qs)
           T == {k \in Nat : k <= n => QueryStartLoc(ps, k + 1) = QueryStartLoc(qs, k + 1)}
<1>1. /\ ps \in Seq(QuerySet) /\ n \in Nat /\ Len(ps) = n + 1
      /\ ps[n + 1] = q /\ \A k \in 1 .. n : ps[k] = qs[k]
  OBVIOUS
<1> HIDE DEF ps, n
<1>2. /\ QueryStartLoc(qs, 1) = 0 /\ QueryStartLoc(ps, 1) = 0
      /\ \A k \in 1 .. n : QueryStartLoc(qs, k + 1) = QueryStartLoc(qs, k) + qs[k].n
      /\ \A k \in 1 .. n + 1 : QueryStartLoc(ps, k + 1) = QueryStartLoc(ps, k) + ps[k].n
      /\ Total(qs) = QueryStartLoc(qs, n + 1) /\ Total(ps) = QueryStartLoc(ps, n + 2)
  <2>1. (n + 1) + 1 = n + 2
    BY <1>1
  <2>2. QED
    BY <1>1, <2>1, Layout DEF n
<1>3. 0 \in T
  <2>1. 0 + 1 = 1
    OBVIOUS
  <2>2. QED
    BY <1>2, <2>1
<1>4. ASSUME NEW k \in Nat, k \in T PROVE k + 1 \in T
  <2>1. CASE k + 1 <= n
    <3>1. k + 1 \in 1 .. n /\ k <= n /\ k + 1 \in 1 .. n + 1
      BY <1>1, <2>1
    <3>2. QueryStartLoc(ps, k + 1) = QueryStartLoc(qs, k + 1)
      BY <1>4, <3>1
    <3>3. ps[k + 1].n = qs[k + 1].n
      BY <1>1, <3>1
    <3>4. QueryStartLoc(ps, (k + 1) + 1) = QueryStartLoc(qs, (k + 1) + 1)
      BY <1>2, <3>1, <3>2, <3>3
    <3>5. QED
      BY <3>4
  <2>2. CASE ~(k + 1 <= n)
    BY <2>2
  <2>3. QED
    BY <2>1, <2>2
<1>5. n \in T
  <2> HIDE DEF T
  <2>1. QED
    BY <1>1, <1>3, <1>4, Induction
<1>6. QueryStartLoc(ps, n + 1) = QueryStartLoc(qs, n + 1)
  BY <1>1, <1>5
<1>7. QueryStartLoc(ps, n + 2) = QueryStartLoc(ps, n + 1) + q.n
  <2>1. n + 1 \in 1 .. n + 1 /\ (n + 1) + 1 = n + 2
    BY <1>1
  <2>2. QED
    BY <1>1, <1>2, <2>1
<1>8. QED
  BY <1>1, <1>2, <1>6, <1>7 DEF ps

\* The table of a request that joins: what the window has left is taken back, the rest
\* stays, and the new blocks are free ones, each given once.
LEMMA Given ==
  ASSUME Inv, NEW r \in Requests, NEW n \in Tokens, Schedule(r, n)
  PROVE  /\ DOMAIN table' = Requests
         /\ \A q \in Requests : q # r => table'[q] = table[q]
         /\ table'[r] \in Seq(0 .. NumBlocks)
         /\ computed[r] + n + NumSpec[drafter] + 1 <= Len(table'[r]) * BlockSize
         /\ Len(table[r]) \in Nat /\ Len(table[r]) <= Len(table'[r])
         /\ \A i \in DOMAIN table[r] :
              table'[r][i] = IF i <= Skipped(r) THEN 0 ELSE table[r][i]
         /\ \A i \in DOMAIN table'[r] \ DOMAIN table[r] : table'[r][i] \in Free(r)
         /\ \A i, j \in DOMAIN table'[r] \ DOMAIN table[r] :
              table'[r][i] = table'[r][j] => i = j
<1> DEFINE L == Len(table[r])
           end == computed[r] + n
           F == Fresh(r, end)
           m == IF F > 0 THEN F ELSE 0
           old == Remaining(r)
           new == [i \in 1 .. F |-> Nth(Free(r), i)]
           B == 0 .. NumBlocks
<1>1. TablesOK /\ PhaseOK
  BY DEF Inv
<1>2. /\ table' = [table EXCEPT ![r] = old \o new]
      /\ F <= Cardinality(Free(r))
  BY DEF Schedule
<1>3. /\ DOMAIN table = Requests /\ table[r] \in Seq(B)
      /\ computed[r] \in Nat /\ drafter \in {"none", "mtp", "dspark"}
  BY <1>1 DEF TablesOK, PhaseOK
<1> HIDE DEF B
<1>4. /\ L \in Nat /\ DOMAIN table[r] = 1 .. L /\ \A i \in 1 .. L : table[r][i] \in B
  BY <1>3
<1> HIDE DEF L
<1>5. n \in Nat /\ end \in Nat /\ NumSpec[drafter] \in Nat
  BY SMTT(30), <1>3, Drafters, Config DEF Tokens
<1> DEFINE need == end + NumSpec[drafter] + 1
           C == CeilDiv(need, BlockSize)
<1>6. need \in Nat /\ need <= BlockSize * C /\ C \in Nat /\ F = C - L
  <2>1. need \in Nat
    BY <1>5
  <2>2. F = C - L
    BY DEF Fresh, L
  <2> HIDE DEF need
  <2>3. QED
    BY <2>1, <2>2, Config, Ceiling DEF CeilDiv
<1> HIDE DEF need, C
<1>7. Free(r) \in SUBSET (1 .. NumBlocks)
  BY DEF Free, Blocks
<1>8. Cardinality(Free(r)) \in Nat
  <2>1. IsFiniteSet(1 .. NumBlocks)
    BY Config, FS_Interval
  <2>2. QED
    BY <1>7, <2>1, FS_Subset, FS_CardinalityType
<1> HIDE DEF F
<1>9. m \in Nat /\ 1 .. F = 1 .. m /\ L + m >= C
  BY <1>4, <1>6
<1>10. 1 .. m \subseteq 1 .. Cardinality(Free(r))
  BY <1>2, <1>6, <1>4, <1>8, <1>9
<1>11. /\ \A i \in 1 .. m : Nth(Free(r), i) \in Free(r)
       /\ \A i, j \in 1 .. m : Nth(Free(r), i) = Nth(Free(r), j) => i = j
  BY <1>7, <1>10, Config, NthOf
<1> HIDE DEF m
<1>12. new = [i \in 1 .. m |-> Nth(Free(r), i)]
  BY <1>9
<1>13. Free(r) \subseteq B
  <2>1. 1 .. NumBlocks \subseteq B
    BY DEF B
  <2>2. QED
    BY <1>7, <2>1
<1>14. new \in Seq(B) /\ Len(new) = m /\ \A i \in 1 .. m : new[i] = Nth(Free(r), i)
  <2>1. \A i \in 1 .. m : Nth(Free(r), i) \in B
    BY <1>11, <1>13
  <2> HIDE DEF new
  <2>2. QED
    BY <1>9, <1>12, <2>1
<1>15. old \in Seq(B) /\ Len(old) = L
       /\ \A i \in 1 .. L : old[i] = IF i <= Skipped(r) THEN 0 ELSE table[r][i]
  <2>1. old = [i \in 1 .. L |-> IF i <= Skipped(r) THEN 0 ELSE table[r][i]]
    BY <1>4 DEF Remaining
  <2>2. 0 \in B
    BY Config DEF B
  <2>3. \A i \in 1 .. L : (IF i <= Skipped(r) THEN 0 ELSE table[r][i]) \in B
    BY <1>4, <2>2
  <2> HIDE DEF old
  <2>4. QED
    BY <1>4, <2>1, <2>3
<1> HIDE DEF old, new
<1> DEFINE s == old \o new
<1>16. /\ s \in Seq(B) /\ Len(s) = L + m
       /\ \A i \in 1 .. L : s[i] = old[i]
       /\ \A i \in L + 1 .. L + m : s[i] = new[i - L]
  BY <1>4, <1>9, <1>14, <1>15
<1>17. DOMAIN table' = Requests /\ table'[r] = s /\ \A q \in Requests : q # r => table'[q] = table[q]
  BY <1>2, <1>3
<1> HIDE DEF s
<1>18. need <= Len(s) * BlockSize
  <2>1. C * BlockSize <= (L + m) * BlockSize
    <3>1. L + m \in Nat
      BY <1>4, <1>9
    <3>2. QED
      BY <1>6, <1>9, <3>1, Config, Times
  <2>2. BlockSize * C = C * BlockSize /\ C * BlockSize \in Nat /\ (L + m) * BlockSize \in Nat
    BY <1>4, <1>6, <1>9, Config
  <2>3. QED
    BY <1>6, <1>16, <2>1, <2>2
<1>19. DOMAIN s \ DOMAIN table[r] = L + 1 .. L + m
  BY <1>4, <1>9, <1>16
<1>20. ASSUME NEW i \in L + 1 .. L + m
       PROVE  i - L \in 1 .. m /\ s[i] = Nth(Free(r), i - L) /\ s[i] \in Free(r)
  <2>1. i - L \in 1 .. m
    BY <1>4, <1>9
  <2>2. QED
    BY <1>11, <1>14, <1>16, <2>1
<1>21. ASSUME NEW i \in L + 1 .. L + m, NEW j \in L + 1 .. L + m, s[i] = s[j]
       PROVE  i = j
  <2>1. i - L = j - L
    BY <1>11, <1>20, <1>21
  <2>2. QED
    BY <1>4, <1>9, <2>1
<1>22. \A i \in DOMAIN table[r] : s[i] = IF i <= Skipped(r) THEN 0 ELSE table[r][i]
  BY <1>4, <1>15, <1>16
<1>23. computed[r] + n + NumSpec[drafter] + 1 <= Len(s) * BlockSize
  BY <1>18 DEF need
<1>24. L <= Len(s)
  BY <1>4, <1>9, <1>16
<1>25. QED
  BY <1>4, <1>16, <1>17, <1>19, <1>20, <1>21, <1>22, <1>23, <1>24 DEF L, B

\* A block that is free for r is in no table, but where the window has left r's.
LEMMA FreeIs ==
  ASSUME TablesOK, computed \in [Requests -> Nat], NEW r \in Requests, NEW x \in Free(r),
         NEW q \in Requests, NEW j \in DOMAIN table[q], table[q][j] = x
  PROVE  q = r /\ j <= Skipped(r)
<1>1. x \in Blocks /\ x # 0
  BY DEF Free, Blocks
<1>2. x \in Used
  <2>1. x \in ToSet(table[q])
    BY DEF ToSet
  <2>2. QED
    BY <1>1, <2>1 DEF Used
<1>3. x \in {table[r][i] : i \in 1 .. LesserOf(Skipped(r), Len(table[r]))}
  BY <1>2 DEF Free
<1>4. PICK i \in 1 .. LesserOf(Skipped(r), Len(table[r])) : table[r][i] = x
  BY <1>3
<1>5. Skipped(r) \in Nat
  <2>1. computed[r] \in Nat /\ computed[r] - Window + 1 <= computed[r]
    BY Config
  <2>2. QED
    BY <2>1, PastSkipped
<1>6. Len(table[r]) \in Nat /\ DOMAIN table[r] = 1 .. Len(table[r])
  BY DEF TablesOK
<1>7. i \in DOMAIN table[r] /\ i <= Skipped(r)
  BY <1>4, <1>5, <1>6 DEF LesserOf
<1>8. QED
  BY <1>1, <1>4, <1>7 DEF TablesOK

LEMMA ScheduleTables ==
  ASSUME Inv, NEW r \in Requests, NEW n \in Tokens, Schedule(r, n)
  PROVE  TablesOK'
<1>1. TablesOK /\ PhaseOK
  BY DEF Inv
<1>2. computed' = computed /\ computed \in [Requests -> Nat]
  BY <1>1 DEF Schedule, PhaseOK
<1>3. \A q : Skipped(q)' = Skipped(q)
  BY <1>2 DEF Skipped
<1> DEFINE old == DOMAIN table[r]
           new == DOMAIN table'[r] \ DOMAIN table[r]
<1>4. /\ DOMAIN table' = Requests
      /\ \A q \in Requests : q # r => table'[q] = table[q]
      /\ table'[r] \in Seq(0 .. NumBlocks)
      /\ \A i \in old : table'[r][i] = IF i <= Skipped(r) THEN 0 ELSE table[r][i]
      /\ \A i \in new : table'[r][i] \in Free(r)
      /\ \A i, j \in new : table'[r][i] = table'[r][j] => i = j
  BY Given
<1>5. \A x \in Free(r) : x # 0
  BY DEF Free, Blocks
<1>6. \A i \in DOMAIN table'[r] : i \in old \/ i \in new
  OBVIOUS
<1> HIDE DEF old, new
<1>7. \A q \in Requests : table'[q] \in Seq(0 .. NumBlocks)
  <2> DEFINE B == Seq(0 .. NumBlocks)
  <2>1. \A q \in Requests : table[q] \in B
    BY <1>1 DEF TablesOK
  <2>2. table'[r] \in B
    BY <1>4
  <2> HIDE DEF B
  <2>3. \A q \in Requests : table'[q] \in B
    BY <1>4, <2>1, <2>2
  <2>4. QED
    BY <2>3 DEF B
<1>8. ASSUME NEW q \in Requests, NEW i \in DOMAIN table'[q], i > Skipped(q)
      PROVE  table'[q][i] # 0
  <2>1. CASE q # r
    BY <1>1, <1>4, <1>8, <2>1 DEF TablesOK
  <2>2. CASE q = r
    <3>1. CASE i \in old
      <4>1. i \in DOMAIN table[r]
        BY <3>1 DEF old
      <4>2. i \in Nat
        BY <1>1, <4>1 DEF TablesOK
      <4>3. Skipped(r) \in Nat
        <5>1. computed[r] \in Nat /\ computed[r] - Window + 1 <= computed[r]
          BY <1>2, Config
        <5>2. QED
          BY <1>2, <5>1, PastSkipped
      <4>4. table'[r][i] = table[r][i]
        BY <1>4, <1>8, <2>2, <3>1, <4>2, <4>3
      <4>5. QED
        BY <1>1, <1>8, <2>2, <4>1, <4>4 DEF TablesOK
    <3>2. CASE i \in new
      BY <1>4, <1>5, <2>2, <3>2
    <3>3. QED
      BY <1>6, <1>8, <2>2, <3>1, <3>2
  <2>3. QED
    BY <2>1, <2>2
\* An entry is an old one or a free block.
<1>9. ASSUME NEW q \in Requests, NEW i \in DOMAIN table'[q], table'[q][i] # 0
      PROVE  \/ i \in DOMAIN table[q] /\ table'[q][i] = table[q][i] /\ ~(q = r /\ i <= Skipped(r))
             \/ q = r /\ i \in new /\ table'[q][i] \in Free(r)
  <2>1. CASE q # r
    BY <1>4, <1>9, <2>1
  <2>2. CASE q = r
    <3>1. CASE i \in old
      BY <1>4, <1>9, <2>2, <3>1 DEF old
    <3>2. CASE i \in new
      BY <1>4, <2>2, <3>2
    <3>3. QED
      BY <1>6, <1>9, <2>2, <3>1, <3>2
  <2>3. QED
    BY <2>1, <2>2
<1>10. ASSUME NEW p \in Requests, NEW q \in Requests,
              NEW i \in DOMAIN table'[p], NEW j \in DOMAIN table'[q],
              table'[p][i] = table'[q][j], table'[p][i] # 0
       PROVE  p = q /\ i = j
  <2> DEFINE Old(o, k) == k \in DOMAIN table[o] /\ table'[o][k] = table[o][k]
                          /\ ~(o = r /\ k <= Skipped(r))
             Fresher(o, k) == o = r /\ k \in new /\ table'[o][k] \in Free(r)
  <2>1. (Old(p, i) \/ Fresher(p, i)) /\ (Old(q, j) \/ Fresher(q, j))
    BY <1>9, <1>10
  <2>2. CASE Old(p, i) /\ Old(q, j)
    <3>1. /\ i \in DOMAIN table[p] /\ j \in DOMAIN table[q]
          /\ table[p][i] = table[q][j] /\ table[p][i] # 0
      BY <1>10, <2>2
    <3>2. QED
      BY <1>1, <3>1 DEF TablesOK
  <2>3. CASE Fresher(p, i) /\ Fresher(q, j)
    BY <1>4, <1>10, <2>3
  <2>4. CASE Old(p, i) /\ Fresher(q, j)
    <3>1. table[p][i] \in Free(r) /\ i \in DOMAIN table[p]
      BY <1>10, <2>4
    <3>2. p = r /\ i <= Skipped(r)
      BY <1>1, <1>2, <3>1, FreeIs
    <3>3. QED
      BY <2>4, <3>2
  <2>5. CASE Fresher(p, i) /\ Old(q, j)
    <3>1. table[q][j] \in Free(r) /\ j \in DOMAIN table[q]
      BY <1>10, <2>5
    <3>2. q = r /\ j <= Skipped(r)
      BY <1>1, <1>2, <3>1, FreeIs
    <3>3. QED
      BY <2>5, <3>2
  <2>6. QED
    BY <2>1, <2>2, <2>3, <2>4, <2>5
<1>11. QED
  BY <1>3, <1>4, <1>7, <1>8, <1>10 DEF TablesOK

\* The slots of the window of the next token stay where they are.
LEMMA ScheduleHeld ==
  ASSUME Inv, NEW r \in Requests, NEW n \in Tokens, Schedule(r, n),
         NEW q \in Requests, NEW p \in Nat, computed[q] - Window + 1 <= p, Held(q, p)
  PROVE  Held(q, p)'
<1>1. TablesOK /\ computed \in [Requests -> Nat] /\ epoch' = epoch /\ kv' = kv
  BY DEF Inv, PhaseOK, Schedule
<1>2. BlockOf(p) > Skipped(q) /\ BlockOf(p) \in Nat /\ Skipped(q) \in Nat
  BY <1>1, PastSkipped
<1>3. BlockOf(p) \in DOMAIN table[q]
  BY DEF Held
<1>4. BlockOf(p) \in DOMAIN table'[q] /\ table'[q][BlockOf(p)] = table[q][BlockOf(p)]
  <2>1. CASE q # r
    BY <1>3, <2>1, Given
  <2>2. CASE q = r
    <3>1. table'[r][BlockOf(p)] = table[r][BlockOf(p)]
      <4>1. ~(BlockOf(p) <= Skipped(r))
        BY <1>2, <2>2
      <4>2. table'[r][BlockOf(p)] = IF BlockOf(p) <= Skipped(r) THEN 0 ELSE table[r][BlockOf(p)]
        BY <1>3, <2>2, Given
      <4>3. QED
        BY <4>1, <4>2
    <3>2. BlockOf(p) \in DOMAIN table'[r]
      <4>1. /\ DOMAIN table[r] = 1 .. Len(table[r]) /\ Len(table[r]) \in Nat
            /\ Len(table[r]) <= Len(table'[r]) /\ table'[r] \in Seq(0 .. NumBlocks)
        BY <1>1, Given DEF TablesOK
      <4>2. DOMAIN table'[r] = 1 .. Len(table'[r]) /\ Len(table'[r]) \in Nat
        BY <4>1
      <4>3. QED
        BY <1>2, <1>3, <2>2, <4>1, <4>2
    <3>3. QED
      BY <2>2, <3>1, <3>2
  <2>3. QED
    BY <2>1, <2>2
<1>5. QED
  BY <1>1, <1>4, HeldKept

LEMMA ScheduleOK ==
  ASSUME Inv, NEW r \in Requests, NEW n \in Tokens, Schedule(r, n)
  PROVE  Inv'
<1> DEFINE end == computed[r] + n
<1>0. PICK q0 : q0 = [req |-> r, start |-> computed[r], n |-> n]
  OBVIOUS
<1>1. /\ pc = "schedule" /\ Total(queries) + n <= MaxTokens /\ end <= MaxLen
      /\ \A row \in DOMAIN queries : queries[row].req # r
      /\ IF computed[r] < PromptLen[r] THEN end <= PromptLen[r] /\ Atomic(r, computed[r], end)
         ELSE n <= 1 + NumSpec[drafter]
      /\ queries' = Append(queries, q0)
      /\ UNCHANGED <<drafter, path, pc, computed, epoch, kv, meta, buffers, cache, reads, drafts>>
  BY <1>0 DEF Schedule
<1>2. PhaseOK /\ TablesOK /\ KeysHeld /\ QueriesOK /\ BuffersTyped
  BY DEF Inv
<1>3. /\ computed \in [Requests -> Nat] /\ computed[r] \in Nat /\ drafts = 0
      /\ drafter \in {"none", "mtp", "dspark"} /\ n \in Nat \ {0} /\ PromptLen[r] \in Nat
  BY <1>1, <1>2, Config DEF PhaseOK, Tokens
<1>4. PhaseOK'
  BY <1>1, <1>2 DEF PhaseOK
<1>5. TablesOK'
  BY ScheduleTables
<1>6. KeysHeld'
  <2> SUFFICES ASSUME NEW q \in Requests, NEW p \in Nat,
                      computed'[q] - Window + 1 <= p, p < computed'[q]
               PROVE  Held(q, p)'
    BY DEF KeysHeld
  <2>1. computed[q] - Window + 1 <= p /\ p < computed[q]
    BY <1>1
  <2>2. Held(q, p)
    BY <1>2, <2>1 DEF KeysHeld
  <2>3. QED
    BY <2>1, <2>2, ScheduleHeld
<1>7. q0 \in QuerySet /\ q0.req = r /\ q0.start = computed[r] /\ q0.n = n
  BY <1>0, <1>3 DEF QuerySet
<1>8. queries \in Seq(QuerySet) /\ \A i \in DOMAIN queries : TargetQuery(queries[i])
  BY <1>2, <1>3 DEF QueriesOK
<1>9. /\ queries' \in Seq(QuerySet) /\ Total(queries)' <= MaxTokens
      /\ DOMAIN queries' = 1 .. Len(queries) + 1 /\ DOMAIN queries = 1 .. Len(queries)
      /\ Len(queries) \in Nat
      /\ queries'[Len(queries) + 1] = q0
      /\ \A i \in DOMAIN queries : queries'[i] = queries[i]
  <2>1. /\ Append(queries, q0) \in Seq(QuerySet)
        /\ Total(Append(queries, q0)) = Total(queries) + n
    BY <1>7, <1>8, Appended
  <2>2. Total(queries)' = Total(queries')
    OBVIOUS
  <2>3. Total(queries)' <= MaxTokens
    BY <1>1, <2>1, <2>2
  <2>4. QED
    BY <1>1, <1>7, <1>8, <2>1, <2>3
<1>10. ASSUME NEW i \in DOMAIN queries'
       PROVE  \/ i \in DOMAIN queries /\ queries'[i] = queries[i]
              \/ i = Len(queries) + 1 /\ queries'[i] = q0
  BY <1>9
<1>11. ASSUME NEW i \in DOMAIN queries', NEW j \in DOMAIN queries',
              queries'[i].req = queries'[j].req
       PROVE  i = j
  <2>1. \A k \in DOMAIN queries : queries[k].req # q0.req
    BY <1>1, <1>7
  <2>2. \A k, l \in DOMAIN queries : queries[k].req = queries[l].req => k = l
    BY <1>2 DEF QueriesOK
  <2>3. QED
    BY <1>10, <1>11, <2>1, <2>2
<1>12. ASSUME NEW q \in QuerySet, TargetQuery(q), q.req # r
       PROVE  TargetQuery(q)'
  <2>1. q.req \in Requests
    BY DEF QuerySet
  <2>2. table'[q.req] = table[q.req]
    BY <1>12, <2>1, Given
  <2>3. Room(q.req)' = Room(q.req)
    BY <2>2 DEF Room
  <2>4. QED
    BY <1>1, <1>12, <2>3 DEF TargetQuery
<1>13. TargetQuery(q0)'
  <2>1. computed[r] + n + NumSpec[drafter] + 1 <= Room(r)'
    BY Given DEF Room
  <2>2. \/ q0.start + q0.n <= PromptLen[r] /\ Atomic(r, q0.start, q0.start + q0.n)
        \/ PromptLen[r] <= q0.start /\ q0.n <= 1 + NumSpec[drafter]
    <3>1. CASE computed[r] < PromptLen[r]
      BY <1>1, <1>7, <3>1
    <3>2. CASE ~(computed[r] < PromptLen[r])
      BY <1>1, <1>3, <1>7, <3>2
    <3>3. QED
      BY <3>1, <3>2
  <2>3. QED
    BY <1>1, <1>7, <2>1, <2>2 DEF TargetQuery
<1>14. QueriesOK'
  <2>1. ASSUME NEW i \in DOMAIN queries' PROVE TargetQuery(queries[i])'
    <3>1. CASE i \in DOMAIN queries /\ queries'[i] = queries[i]
      <4>1. queries[i] \in QuerySet
        BY <1>8, <3>1
      <4>2. TargetQuery(queries[i])
        BY <1>8, <3>1
      <4>3. queries[i].req # r
        BY <1>1, <3>1
      <4>4. PICK k : k = queries[i]
        OBVIOUS
      <4>5. TargetQuery(k)'
        BY <1>12, <4>1, <4>2, <4>3, <4>4
      <4>6. queries'[i] = k
        BY <3>1, <4>4
      <4>7. QED
        BY <4>5, <4>6
    <3>2. CASE i = Len(queries) + 1 /\ queries'[i] = q0
      BY <1>13, <3>2
    <3>3. QED
      BY <1>10, <3>1, <3>2
  <2>2. drafts' = 0
    BY <1>1, <1>3
  <2>3. QED
    BY <1>9, <1>11, <2>1, <2>2 DEF QueriesOK
<1>15. RowsHeld'
  <2> SUFFICES ASSUME NEW i \in DOMAIN queries', NEW p \in Nat,
                      computed'[queries'[i].req] - Window + 1 <= p,
                      p < queries'[i].start
               PROVE  Held(queries[i].req, p)'
    BY <1>1, <1>3 DEF RowsHeld
  <2>1. queries'[i].req \in Requests /\ queries'[i].start = computed'[queries'[i].req]
    <3>1. CASE i \in DOMAIN queries /\ queries'[i] = queries[i]
      <4>1. queries[i] \in QuerySet /\ TargetQuery(queries[i])
        BY <1>8, <3>1
      <4>2. queries[i].req \in Requests /\ queries[i].start = computed[queries[i].req]
        BY <4>1 DEF TargetQuery, QuerySet
      <4>3. QED
        BY <1>1, <3>1, <4>2
    <3>2. CASE i = Len(queries) + 1 /\ queries'[i] = q0
      BY <1>1, <1>7, <3>2
    <3>3. QED
      BY <1>10, <3>1, <3>2
  <2>2. PICK q \in Requests : q = queries'[i].req
    BY <2>1
  <2>3. Held(q, p)'
    BY <1>6, <2>1, <2>2 DEF KeysHeld
  <2>4. QED
    BY <2>2, <2>3
<1>16. BuiltOK' /\ BuffersOK' /\ ReadsOK'
  BY <1>1, Resting
<1>17. BuffersTyped'
  BY <1>1, <1>2, BuffersTypedKept
<1>18. QED
  BY <1>4, <1>5, <1>6, <1>14, <1>15, <1>16, <1>17 DEF Inv

\* The rows of the next state's pass, computed with this state's tables.
NextRowFor(i) ==
  IF i > meta'.num_decode_tokens
  THEN CausalRow(queries', i, is_valid_token', token_to_req', Left(i)', Right(i)', PrefillWidth)
  ELSE IF meta'.causal
  THEN CausalRow(queries', i, is_valid_token', token_to_req', 0, 0, Window)
  ELSE NoncausalRow(queries', i, is_valid_token', token_to_req')

LEMMA RowsKept ==
  ASSUME UNCHANGED table
  PROVE  \A i : RowFor(i)' = NextRowFor(i)
<1>1. \A r, p : SlotOf(r, p)' = SlotOf(r, p)
  BY DEF SlotOf
<1>2. \A r, a, b, w : IndexRow(r, a, b, w)' = IndexRow(r, a, b, w)
  BY <1>1 DEF IndexRow
<1>3. \A i : RowFor(i)' = NextRowFor(i)
  BY <1>2 DEF RowFor, NextRowFor, CausalRow, NoncausalRow
<1>4. QED
  BY <1>3

LEMMA DecodesKept ==
  ASSUME UNCHANGED <<drafter, queries>>
  PROVE  NumDecodes(queries)' = NumDecodes(queries)
BY DEF NumDecodes, Threshold

\* A row is a pair.
LEMMA Pairs ==
  ASSUME NEW qs, NEW i, NEW valid, NEW reqs, NEW left, NEW right, NEW width
  PROVE  /\ LET row == CausalRow(qs, i, valid, reqs, left, right, width) IN
            <<row[1], row[2]>> = row
         /\ LET row == NoncausalRow(qs, i, valid, reqs) IN <<row[1], row[2]>> = row
<1>1. \A a, b : <<a, b>>[1] = a /\ <<a, b>>[2] = b
  OBVIOUS
<1>2. \E a, b : CausalRow(qs, i, valid, reqs, left, right, width) = <<a, b>>
  <2>1. CASE ~valid[i]
    BY <2>1 DEF CausalRow
  <2>2. CASE valid[i]
    BY <2>2 DEF CausalRow
  <2>3. QED
    BY <2>1, <2>2
<1>3. \E a, b : NoncausalRow(qs, i, valid, reqs) = <<a, b>>
  <2>1. CASE ~valid[i]
    BY <2>1 DEF NoncausalRow
  <2>2. CASE valid[i]
    BY <2>2 DEF NoncausalRow
  <2>3. QED
    BY <2>1, <2>2
<1>4. QED
  BY <1>1, <1>2, <1>3

\* The rows of any pass the layers are given, in TypeOK's words.
LEMMA PassTyped ==
  PhaseOK /\ TablesOK /\ QueriesOK /\ BuiltOK /\ Passing =>
    \A i \in 1 .. PassTokens :
      /\ ToSet(RowFor(i)[1]) \subseteq Cells
      /\ RowFor(i)[2] \in Int /\ RowFor(i)[2] <= Len(RowFor(i)[1]) /\ Len(RowFor(i)[1]) \in Nat
      /\ i > meta.num_decode_tokens => Len(RowFor(i)[1]) = PrefillWidth
BY PassRow

\* No image is in the pass, as the builder finds: no token of it sees more.
LEMMA NoImage ==
  ASSUME NEW r \in Requests, NEW pos \in Nat, MaxImageTokens = 0 \/ Spans[r] = <<>>
  PROVE  LeftVisible(r, pos) = 0 /\ RightVisible(r, pos) = 0
<1>1. DOMAIN Spans[r] = {}
  <2>1. CASE Spans[r] = <<>>
    BY <2>1
  <2>2. CASE MaxImageTokens = 0
    <3> SUFFICES ASSUME NEW i \in DOMAIN Spans[r] PROVE FALSE
      OBVIOUS
    <3>1. /\ Spans[r][i][1] \in Nat /\ Spans[r][i][2] \in Nat
          /\ Spans[r][i][1] <= Spans[r][i][2]
          /\ Spans[r][i][2] - Spans[r][i][1] < MaxImageTokens
      BY SpansAre
    <3>2. QED
      BY <2>2, <3>1
  <2>3. QED
    BY <2>1, <2>2
<1>2. QED
  BY <1>1, SpanIs

\* What a build leaves: the metadata, the token maps and the rows of the pass.
LEMMA BuildIs ==
  ASSUME PhaseOK, QueriesOK, NEW causal, NEW pad \in {0, 1}, Build(queries, causal, pad)
  PROVE  LET D == meta'.num_decode_tokens
             P == meta'.num_prefill_tokens
             T == Total(queries)
             nd == NumDecodes(queries) IN
         /\ queries' = queries /\ pc' = "attend" /\ cache' = None
         /\ UNCHANGED <<drafter, path, computed, epoch, table, kv, reads>>
         /\ nd \in 0 .. Len(queries) /\ meta'.num_decodes = nd /\ meta'.causal = causal
         /\ T \in Nat /\ D \in Nat /\ P \in Nat /\ D + P = T + pad /\ T + pad <= MaxTokens
         /\ nd < Len(queries) => pad = 0
         /\ D = QueryStartLoc(queries, nd + 1) + pad
         /\ P = T - QueryStartLoc(queries, nd + 1)
         /\ \A i \in 1 .. D + P : is_valid_token'[i] = (i <= T)
         /\ \A i \in 1 .. T : token_to_req'[i] = RowOf(queries, i)
         /\ meta'.image = (/\ MaxImageTokens > 0 /\ P > 0
                           /\ \E row \in DOMAIN queries : Spans[queries[row].req] # <<>>)
         /\ meta'.image => \A i \in D + 1 .. D + P :
              /\ left_visible'[i] = LeftVisible(queries[token_to_req'[i]].req,
                                                PosOf(queries, token_to_req'[i], i))
              /\ right_visible'[i] = RightVisible(queries[token_to_req'[i]].req,
                                                  PosOf(queries, token_to_req'[i], i))
         /\ \A i \in Tokens :
              IF i <= D
              THEN LET row == IF meta'.causal
                              THEN CausalRow(queries, i, is_valid_token', token_to_req', 0, 0, Window)
                              ELSE NoncausalRow(queries, i, is_valid_token', token_to_req')
                   IN decode_swa_indices'[i] = row[1] /\ decode_swa_lens'[i] = row[2]
              ELSE /\ decode_swa_indices'[i] = decode_swa_indices[i]
                   /\ decode_swa_lens'[i] \in {0, decode_swa_lens[i]}
         /\ \A i \in Tokens :
              IF i <= P
              THEN LET row == CausalRow(queries, D + i, is_valid_token', token_to_req',
                                        IF meta'.image THEN left_visible'[D + i] ELSE 0,
                                        IF meta'.image THEN right_visible'[D + i] ELSE 0,
                                        PrefillWidth)
                   IN prefill_swa_indices'[i] = row[1] /\ prefill_swa_lens'[i] = row[2]
              ELSE /\ prefill_swa_indices'[i] = prefill_swa_indices[i]
                   /\ prefill_swa_lens'[i] = prefill_swa_lens[i]
<1> DEFINE T == Total(queries)
           nd == NumDecodes(queries)
           P == T - QueryStartLoc(queries, nd + 1)
           D == QueryStartLoc(queries, nd + 1) + pad
           image == /\ MaxImageTokens > 0 /\ P > 0
                    /\ \E row \in DOMAIN queries : Spans[queries[row].req] # <<>>
           valid == [i \in Tokens |-> IF i <= T + pad THEN i <= T ELSE is_valid_token[i]]
           reqs == [i \in Tokens |-> IF i <= T THEN RowOf(queries, i) ELSE token_to_req[i]]
           left == [i \in Tokens |-> IF image /\ (D < i /\ i <= D + P)
                      THEN LeftVisible(queries[reqs[i]].req, PosOf(queries, reqs[i], i))
                      ELSE left_visible[i]]
           right == [i \in Tokens |-> IF image /\ (D < i /\ i <= D + P)
                       THEN RightVisible(queries[reqs[i]].req, PosOf(queries, reqs[i], i))
                       ELSE right_visible[i]]
           causal_row(i) == CausalRow(queries, i, valid, reqs, 0, 0, Window)
           block_row(i) == NoncausalRow(queries, i, valid, reqs)
           prefill_row(t) == CausalRow(queries, t, valid, reqs, IF image THEN left[t] ELSE 0,
                                       IF image THEN right[t] ELSE 0, PrefillWidth)
           decode_row == [i \in 1 .. D |-> IF causal THEN causal_row(i) ELSE block_row(i)]
           prefill_rows == [i \in 1 .. P |-> prefill_row(D + i)]
<1>1. /\ queries' = queries /\ pc' = "attend" /\ cache' = None
      /\ UNCHANGED <<drafter, path, computed, epoch, table, kv, reads>>
      /\ nd < Len(queries) => pad = 0
      /\ T + pad <= MaxTokens
      /\ meta' = [num_decodes |-> nd, num_decode_tokens |-> D, num_prefill_tokens |-> P,
                  image |-> image, causal |-> causal]
  BY DEF Build
<1>2. is_valid_token' = valid /\ token_to_req' = reqs
  BY DEF Build
<1>3. left_visible' = left /\ right_visible' = right
  BY DEF Build
<1>4. /\ decode_swa_indices' = [i \in Tokens |->
            IF i <= D THEN decode_row[i][1] ELSE decode_swa_indices[i]]
      /\ decode_swa_lens' = [i \in Tokens |->
            IF i <= D THEN decode_row[i][2] ELSE IF D > 0 THEN 0 ELSE decode_swa_lens[i]]
      /\ prefill_swa_indices' = [i \in Tokens |->
            IF i <= P THEN prefill_rows[i][1] ELSE prefill_swa_indices[i]]
      /\ prefill_swa_lens' = [i \in Tokens |->
            IF i <= P THEN prefill_rows[i][2] ELSE prefill_swa_lens[i]]
  <2>1. decode_swa_indices' = [i \in Tokens |->
            IF i <= D THEN decode_row[i][1] ELSE decode_swa_indices[i]]
    BY Zenon DEF Build
  <2>2. decode_swa_lens' = [i \in Tokens |->
            IF i <= D THEN decode_row[i][2] ELSE IF D > 0 THEN 0 ELSE decode_swa_lens[i]]
    BY Zenon DEF Build
  <2>3. prefill_swa_indices' = [i \in Tokens |->
            IF i <= P THEN prefill_rows[i][1] ELSE prefill_swa_indices[i]]
    BY Zenon DEF Build
  <2>4. prefill_swa_lens' = [i \in Tokens |->
            IF i <= P THEN prefill_rows[i][2] ELSE prefill_swa_lens[i]]
    BY Zenon DEF Build
  <2>5. QED
    BY <2>1, <2>2, <2>3, <2>4
<1>5. /\ queries \in Seq(QuerySet) /\ Len(queries) \in Nat
      /\ T \in Nat /\ nd \in 0 .. Len(queries) /\ QueryStartLoc(queries, nd + 1) \in Nat
      /\ QueryStartLoc(queries, nd + 1) <= T
  <2>1. queries \in Seq(QuerySet) /\ drafter \in {"none", "mtp", "dspark"}
    BY DEF QueriesOK, PhaseOK
  <2>2. nd \in 0 .. Len(queries) /\ Len(queries) \in Nat
    BY <2>1, Decodes
  <2> HIDE DEF nd
  <2>3. nd + 1 \in 1 .. Len(queries) + 1 /\ Len(queries) + 1 \in nd + 1 .. Len(queries) + 1
    BY <2>2
  <2>4. QED
    BY <2>1, <2>2, <2>3, Layout
<1>6. D \in Nat /\ P \in Nat /\ D + P = T + pad
  <2> DEFINE x == QueryStartLoc(queries, nd + 1)
  <2>1. x \in Nat /\ x <= T /\ T \in Nat /\ pad \in Nat
    BY <1>5
  <2>2. D = x + pad /\ P = T - x
    OBVIOUS
  <2> HIDE DEF x, T, D, P
  <2>3. QED
    BY <2>1, <2>2
<1>7. /\ meta'.num_decodes = nd /\ meta'.num_decode_tokens = D /\ meta'.num_prefill_tokens = P
      /\ meta'.causal = causal
  BY <1>1
<1>8. meta'.image = image
  BY <1>1
<1> HIDE DEF T, nd
<1> DEFINE Q == QueryStartLoc(queries, nd + 1)
<1>9. D = Q + pad /\ P = T - Q
  OBVIOUS
<1> HIDE DEF D, P, Q
<1>10. 1 .. D + P \subseteq Tokens /\ MaxTokens \in Nat
  BY <1>1, <1>5, <1>6, Config DEF Tokens
<1>11. \A i \in 1 .. D + P : is_valid_token'[i] = (i <= T)
  <2> TAKE i \in 1 .. D + P
  <2>1. i \in Tokens /\ i <= T + pad
    BY <1>6, <1>10
  <2>2. QED
    BY Zenon, <1>2, <2>1
<1>12. \A i \in 1 .. T : token_to_req'[i] = RowOf(queries, i)
  <2> TAKE i \in 1 .. T
  <2>1. i \in Tokens /\ i <= T
    BY <1>5, <1>6, <1>10
  <2>2. QED
    BY <1>2, <2>1
<1> HIDE DEF image
<1>13. image => \A i \in D + 1 .. D + P :
         /\ left_visible'[i] = LeftVisible(queries[token_to_req'[i]].req,
                                           PosOf(queries, token_to_req'[i], i))
         /\ right_visible'[i] = RightVisible(queries[token_to_req'[i]].req,
                                             PosOf(queries, token_to_req'[i], i))
  <2> SUFFICES ASSUME image, NEW i \in D + 1 .. D + P
               PROVE  /\ left_visible'[i] = LeftVisible(queries[token_to_req'[i]].req,
                                           PosOf(queries, token_to_req'[i], i))
                      /\ right_visible'[i] = RightVisible(queries[token_to_req'[i]].req,
                                             PosOf(queries, token_to_req'[i], i))
    OBVIOUS
  <2>1. i \in Tokens /\ D < i /\ i <= D + P
    BY <1>6, <1>10
  <2> HIDE DEF reqs
  <2>2. /\ left[i] = LeftVisible(queries[reqs[i]].req, PosOf(queries, reqs[i], i))
        /\ right[i] = RightVisible(queries[reqs[i]].req, PosOf(queries, reqs[i], i))
    BY <2>1
  <2> HIDE DEF left, right
  <2>3. QED
    BY <1>2, <1>3, <2>2
<1> HIDE DEF causal_row, block_row, prefill_row, valid, reqs, left, right
<1>14. ASSUME NEW i \in Tokens
       PROVE  IF i <= D
              THEN LET row == IF causal THEN causal_row(i) ELSE block_row(i)
                   IN decode_swa_indices'[i] = row[1] /\ decode_swa_lens'[i] = row[2]
              ELSE /\ decode_swa_indices'[i] = decode_swa_indices[i]
                   /\ decode_swa_lens'[i] \in {0, decode_swa_lens[i]}
  <2>1. CASE i <= D
    <3>1. decode_swa_indices'[i] = decode_row[i][1] /\ decode_swa_lens'[i] = decode_row[i][2]
      BY <1>4, <2>1
    <3>2. i \in 1 .. D
      BY <1>6, <2>1 DEF Tokens
    <3>3. decode_row[i] = IF causal THEN causal_row(i) ELSE block_row(i)
      BY <3>2
    <3> HIDE DEF decode_row
    <3>4. QED
      BY <2>1, <3>1, <3>3
  <2>2. CASE ~(i <= D)
    BY <1>4, <2>2
  <2>3. QED
    BY <2>1, <2>2
<1>15. ASSUME NEW i \in Tokens
       PROVE  IF i <= P
              THEN LET row == prefill_row(D + i)
                   IN prefill_swa_indices'[i] = row[1] /\ prefill_swa_lens'[i] = row[2]
              ELSE /\ prefill_swa_indices'[i] = prefill_swa_indices[i]
                   /\ prefill_swa_lens'[i] = prefill_swa_lens[i]
  <2>1. CASE i <= P
    <3>1. prefill_swa_indices'[i] = prefill_rows[i][1] /\ prefill_swa_lens'[i] = prefill_rows[i][2]
      BY <1>4, <2>1
    <3>2. i \in 1 .. P
      BY <1>6, <2>1 DEF Tokens
    <3>3. prefill_rows[i] = prefill_row(D + i)
      BY <3>2
    <3> HIDE DEF prefill_rows
    <3>4. QED
      BY <2>1, <3>1, <3>3
  <2>2. CASE ~(i <= P)
    BY <1>4, <2>2
  <2>3. QED
    BY <2>1, <2>2
<1>16. image = (/\ MaxImageTokens > 0 /\ P > 0
                /\ \E row \in DOMAIN queries : Spans[queries[row].req] # <<>>)
  BY DEF image
<1>17. \A i : /\ causal_row(i) = CausalRow(queries, i, is_valid_token', token_to_req', 0, 0, Window)
              /\ block_row(i) = NoncausalRow(queries, i, is_valid_token', token_to_req')
              /\ prefill_row(i) = CausalRow(queries, i, is_valid_token', token_to_req',
                                    IF meta'.image THEN left_visible'[i] ELSE 0,
                                    IF meta'.image THEN right_visible'[i] ELSE 0, PrefillWidth)
  <2>1. \A i : /\ causal_row(i) = CausalRow(queries, i, is_valid_token', token_to_req', 0, 0, Window)
               /\ block_row(i) = NoncausalRow(queries, i, is_valid_token', token_to_req')
    BY <1>2 DEF causal_row, block_row
  <2>2. \A i : prefill_row(i) = CausalRow(queries, i, is_valid_token', token_to_req',
                                    IF meta'.image THEN left_visible'[i] ELSE 0,
                                    IF meta'.image THEN right_visible'[i] ELSE 0, PrefillWidth)
    BY <1>2, <1>3, <1>8 DEF prefill_row
  <2>3. QED
    BY <2>1, <2>2
<1>18. \A i \in Tokens :
         IF i <= D
         THEN LET row == IF meta'.causal
                         THEN CausalRow(queries, i, is_valid_token', token_to_req', 0, 0, Window)
                         ELSE NoncausalRow(queries, i, is_valid_token', token_to_req')
              IN decode_swa_indices'[i] = row[1] /\ decode_swa_lens'[i] = row[2]
         ELSE /\ decode_swa_indices'[i] = decode_swa_indices[i]
              /\ decode_swa_lens'[i] \in {0, decode_swa_lens[i]}
  <2>1. causal = meta'.causal
    BY <1>7
  <2>2. QED
    BY <1>14, <1>17, <2>1
<1>19. \A i \in Tokens :
         IF i <= P
         THEN LET row == CausalRow(queries, D + i, is_valid_token', token_to_req',
                                   IF meta'.image THEN left_visible'[D + i] ELSE 0,
                                   IF meta'.image THEN right_visible'[D + i] ELSE 0,
                                   PrefillWidth)
              IN prefill_swa_indices'[i] = row[1] /\ prefill_swa_lens'[i] = row[2]
         ELSE /\ prefill_swa_indices'[i] = prefill_swa_indices[i]
              /\ prefill_swa_lens'[i] = prefill_swa_lens[i]
  BY <1>15, <1>17
<1> HIDE DEF valid, reqs, left, right, causal_row, block_row, prefill_row
<1>20. /\ T = Total(queries) /\ nd = NumDecodes(queries) /\ Q = QueryStartLoc(queries, nd + 1)
  BY DEF T, nd, Q
<1>21. QED
  BY Zenon, <1>1, <1>5, <1>6, <1>7, <1>8, <1>9, <1>11, <1>12, <1>13, <1>16, <1>18, <1>19, <1>20

\* The metadata a build leaves is the pass's.
LEMMA BuildBuilt ==
  ASSUME PhaseOK, QueriesOK, NEW causal, causal = (drafts = 0 \/ drafter # "dspark"),
         NEW pad \in {0, 1}, Build(queries, causal, pad), drafts' = drafts
  PROVE  BuiltOK'
<1> DEFINE D == meta'.num_decode_tokens
           P == meta'.num_prefill_tokens
           T == Total(queries)
           nd == NumDecodes(queries)
           Q == QueryStartLoc(queries, nd + 1)
<1>1. /\ queries' = queries /\ UNCHANGED <<drafter, drafts>>
      /\ nd \in 0 .. Len(queries) /\ meta'.num_decodes = nd /\ meta'.causal = causal
      /\ T \in Nat /\ D \in Nat /\ P \in Nat /\ D + P = T + pad /\ T + pad <= MaxTokens
      /\ nd < Len(queries) => pad = 0
      /\ D = Q + pad /\ P = T - Q
      /\ \A i \in 1 .. D + P : is_valid_token'[i] = (i <= T)
      /\ \A i \in 1 .. T : token_to_req'[i] = RowOf(queries, i)
      /\ meta'.image = (/\ MaxImageTokens > 0 /\ P > 0
                        /\ \E row \in DOMAIN queries : Spans[queries[row].req] # <<>>)
      /\ meta'.image => \A i \in D + 1 .. D + P :
           /\ left_visible'[i] = LeftVisible(queries[token_to_req'[i]].req,
                                             PosOf(queries, token_to_req'[i], i))
           /\ right_visible'[i] = RightVisible(queries[token_to_req'[i]].req,
                                               PosOf(queries, token_to_req'[i], i))
  BY BuildIs
<1>2. queries \in Seq(QuerySet) /\ Len(queries) \in Nat /\ pad \in Nat
  BY DEF QueriesOK
<1>3. NumDecodes(queries)' = nd
  BY <1>1, DecodesKept
<1> HIDE DEF nd
<1>4. QueryStartLoc(queries, NumDecodes(queries) + 1)' = Q
  BY <1>1, <1>3
<1>5. P > 0 => nd < Len(queries)
  <2> SUFFICES ASSUME ~(nd < Len(queries)) PROVE P = 0
    BY <1>1, <1>2
  <2>1. nd = Len(queries)
    BY <1>1, <1>2
  <2>2. Q = T
    BY <1>2, <2>1, Layout
  <2>3. QED
    BY <1>1, <2>2
<1>6. PassTokens' = D + P
  BY DEF PassTokens
<1> HIDE DEF D, P, T, Q
<1>7. ASSUME NEW i \in D + 1 .. D + P
      PROVE  /\ Left(i)' = LeftVisible(QueryOf(i).req, Position(i))'
             /\ Right(i)' = RightVisible(QueryOf(i).req, Position(i))'
  <2>1. P > 0 /\ pad = 0 /\ i \in 1 .. T
    <3>1. P > 0
      BY <1>1
    <3>2. pad = 0
      BY <1>1, <1>5, <3>1
    <3>3. QED
      BY <1>1, <3>1, <3>2
  <2> DEFINE row == RowOf(queries, i)
             r == queries[row].req
             pos == PosOf(queries, row, i)
  <2>2. LeftVisible(QueryOf(i).req, Position(i))' = LeftVisible(r, pos)
    BY <1>1 DEF QueryOf, Position
  <2>3. RightVisible(QueryOf(i).req, Position(i))' = RightVisible(r, pos)
    BY <1>1 DEF QueryOf, Position
  <2>4. token_to_req'[i] = row
    BY <1>1, <2>1
  <2>5. r \in Requests /\ pos \in Nat /\ row \in DOMAIN queries
    <3>1. i \in 1 .. Total(queries)
      BY <2>1 DEF T
    <3>2. row \in 1 .. Len(queries) /\ queries[row] \in QuerySet /\ pos \in Nat
      BY <1>2, <3>1, TokenRow, TokenPos
    <3> HIDE DEF row, pos
    <3>3. QED
      BY <1>2, <3>2 DEF QuerySet
  <2> HIDE DEF row, pos
  <2>6. CASE meta'.image
    <3>1. left_visible'[i] = LeftVisible(r, pos) /\ right_visible'[i] = RightVisible(r, pos)
      BY <1>1, <2>4, <2>6 DEF pos
    <3>2. Left(i)' = left_visible'[i] /\ Right(i)' = right_visible'[i]
      BY <2>6 DEF Left, Right
    <3>3. QED
      BY <2>2, <2>3, <3>1, <3>2
  <2>7. CASE ~meta'.image
    <3>1. ~(MaxImageTokens > 0) \/ \A k \in DOMAIN queries : Spans[queries[k].req] = <<>>
      BY <1>1, <2>1, <2>7
    <3>2. MaxImageTokens = 0 \/ Spans[r] = <<>>
      BY <2>5, <3>1, Config
    <3>3. LeftVisible(r, pos) = 0 /\ RightVisible(r, pos) = 0
      BY <2>5, <3>2, NoImage
    <3>4. Left(i)' = 0 /\ Right(i)' = 0
      BY <2>7 DEF Left, Right
    <3>5. QED
      BY <2>2, <2>3, <3>3, <3>4
  <2>8. QED
    BY <2>6, <2>7
<1>8. meta'.causal = (drafts' = 0 \/ drafter' # "dspark")
  BY Zenon, <1>1
<1>9. \A i \in 1 .. PassTokens' : is_valid_token'[i] = (i <= Total(queries)')
  <2>1. Total(queries)' = T
    BY <1>1 DEF T
  <2>2. QED
    BY Zenon, <1>1, <1>6, <2>1
<1>10. \A i \in 1 .. Total(queries)' : token_to_req'[i] = RowOf(queries, i)'
  <2>1. Total(queries)' = T /\ \A i : RowOf(queries, i)' = RowOf(queries, i)
    BY <1>1 DEF T
  <2>2. QED
    BY <1>1, <2>1
<1>11. /\ meta'.num_decodes = NumDecodes(queries)'
       /\ meta'.num_decode_tokens \in Nat
       /\ meta'.num_prefill_tokens = Total(queries)' - QueryStartLoc(queries, NumDecodes(queries) + 1)'
       /\ meta'.num_decodes < Len(queries)' =>
            meta'.num_decode_tokens = QueryStartLoc(queries, NumDecodes(queries) + 1)'
       /\ Total(queries)' <= PassTokens' /\ PassTokens' <= MaxTokens
  <2>1. Total(queries)' = T
    BY <1>1 DEF T
  <2>2. Q \in Int
    <3>1. nd + 1 \in 1 .. Len(queries) + 1
      BY <1>1, <1>2
    <3>2. QED
      BY <1>2, <3>1, Layout DEF Q
  <2>3. /\ D \in Nat /\ P = T - Q /\ T <= D + P /\ D + P <= MaxTokens
        /\ nd < Len(queries) => D = Q
    BY <1>1, <1>2, <2>2, Config
  <2>4. meta'.num_decode_tokens = D /\ meta'.num_prefill_tokens = P /\ Len(queries)' = Len(queries)
    BY <1>1 DEF D, P
  <2>5. QED
    BY <1>1, <1>3, <1>4, <1>6, <2>1, <2>3, <2>4
<1>12. \A i \in meta'.num_decode_tokens + 1 .. PassTokens' :
         /\ Left(i)' = LeftVisible(QueryOf(i).req, Position(i))'
         /\ Right(i)' = RightVisible(QueryOf(i).req, Position(i))'
  BY <1>6, <1>7 DEF D
<1>13. QED
  BY <1>8, <1>9, <1>10, <1>11, <1>12 DEF BuiltOK

\* And the rows it leaves are the pass's, in the buffers' bounds.
LEMMA BuildBuffers ==
  ASSUME PhaseOK, QueriesOK, BuffersTyped, NEW causal, NEW pad \in {0, 1},
         Build(queries, causal, pad), PhaseOK', TablesOK', QueriesOK', BuiltOK'
  PROVE  BuffersOK' /\ BuffersTyped'
<1>a. PICK D : D = meta'.num_decode_tokens
  OBVIOUS
<1>b. PICK P : P = meta'.num_prefill_tokens
  OBVIOUS
<1> DEFINE causal_row(i) == CausalRow(queries, i, is_valid_token', token_to_req', 0, 0, Window)
           block_row(i) == NoncausalRow(queries, i, is_valid_token', token_to_req')
           prefill_row(i) == CausalRow(queries, i, is_valid_token', token_to_req',
                               IF meta'.image THEN left_visible'[i] ELSE 0,
                               IF meta'.image THEN right_visible'[i] ELSE 0, PrefillWidth)
<1>1. /\ queries' = queries /\ pc' = "attend" /\ cache' = None /\ UNCHANGED <<table, drafter>>
      /\ D \in Nat /\ P \in Nat /\ D + P <= MaxTokens /\ meta'.causal = causal
  <2>1. D + P = Total(queries) + pad /\ Total(queries) + pad <= MaxTokens
    BY <1>a, <1>b, BuildIs
  <2>2. QED
    BY <1>a, <1>b, <2>1, BuildIs
<1>2. \A i \in Tokens :
        IF i <= D
        THEN LET row == IF meta'.causal THEN causal_row(i) ELSE block_row(i)
             IN decode_swa_indices'[i] = row[1] /\ decode_swa_lens'[i] = row[2]
        ELSE /\ decode_swa_indices'[i] = decode_swa_indices[i]
             /\ decode_swa_lens'[i] \in {0, decode_swa_lens[i]}
  BY Zenon, <1>a, BuildIs
<1>3. \A i \in Tokens :
        IF i <= P
        THEN LET row == prefill_row(D + i)
             IN prefill_swa_indices'[i] = row[1] /\ prefill_swa_lens'[i] = row[2]
        ELSE /\ prefill_swa_indices'[i] = prefill_swa_indices[i]
             /\ prefill_swa_lens'[i] = prefill_swa_lens[i]
  BY Zenon, <1>a, <1>b, BuildIs
<1>4. PassTokens' = D + P
  BY <1>a, <1>b DEF PassTokens
<1>5. \A i : RowFor(i)' = IF i > D THEN prefill_row(i)
                          ELSE IF meta'.causal THEN causal_row(i) ELSE block_row(i)
  BY <1>a, <1>1, RowsKept DEF NextRowFor, Left, Right
<1>6. \A i : /\ <<causal_row(i)[1], causal_row(i)[2]>> = causal_row(i)
             /\ <<block_row(i)[1], block_row(i)[2]>> = block_row(i)
             /\ <<prefill_row(i)[1], prefill_row(i)[2]>> = prefill_row(i)
  BY Pairs
<1> HIDE DEF causal_row, block_row, prefill_row
<1>7. \A i : <<(RowFor(i)')[1], (RowFor(i)')[2]>> = RowFor(i)'
  BY <1>5, <1>6
<1>8. \A i \in 1 .. PassTokens' :
        /\ ToSet((RowFor(i)')[1]) \subseteq Cells
        /\ (RowFor(i)')[2] \in Int /\ (RowFor(i)')[2] <= Len((RowFor(i)')[1]) /\ Len((RowFor(i)')[1]) \in Nat
        /\ i > meta'.num_decode_tokens => Len((RowFor(i)')[1]) = PrefillWidth
  <2>1. Passing'
    BY <1>1 DEF Passing
  <2>2. (\A i \in 1 .. PassTokens :
           /\ ToSet(RowFor(i)[1]) \subseteq Cells
           /\ RowFor(i)[2] \in Int /\ RowFor(i)[2] <= Len(RowFor(i)[1]) /\ Len(RowFor(i)[1]) \in Nat
           /\ i > meta.num_decode_tokens => Len(RowFor(i)[1]) = PrefillWidth)'
    BY <2>1, PassTyped, PTL
  <2>3. QED
    BY <2>2
<1>9. 1 .. D \subseteq Tokens /\ 1 .. P \subseteq Tokens /\ MaxTokens \in Nat
  BY <1>1, Config DEF Tokens
<1>10. ASSUME NEW i \in Tokens, i <= D
       PROVE  /\ decode_swa_indices'[i] = (RowFor(i)')[1] /\ decode_swa_lens'[i] = (RowFor(i)')[2]
              /\ i \in 1 .. PassTokens'
  <2>1. ~(i > D) /\ i \in 1 .. D + P
    BY <1>1, <1>10 DEF Tokens
  <2>2. RowFor(i)' = IF meta'.causal THEN causal_row(i) ELSE block_row(i)
    BY <1>5, <2>1
  <2>3. QED
    BY <1>2, <1>4, <1>10, <2>1, <2>2
<1>11. ASSUME NEW i \in Tokens, i <= P
       PROVE  /\ prefill_swa_indices'[i] = (RowFor(D + i)')[1]
              /\ prefill_swa_lens'[i] = (RowFor(D + i)')[2]
              /\ D + i \in 1 .. PassTokens' /\ D + i > D
  <2>1. D + i > D /\ D + i \in 1 .. D + P
    BY <1>1, <1>11 DEF Tokens
  <2>2. RowFor(D + i)' = prefill_row(D + i)
    BY <1>5, <2>1
  <2>3. QED
    BY <1>3, <1>4, <1>11, <2>1, <2>2
<1>12. BuffersOK'
  <2>1. ASSUME NEW i \in 1 .. D PROVE <<decode_swa_indices'[i], decode_swa_lens'[i]>> = RowFor(i)'
    <3>1. i \in Tokens /\ i <= D
      BY <1>1, <1>9
    <3>2. QED
      BY <1>7, <1>10, <3>1
  <2>2. ASSUME NEW i \in 1 .. P
        PROVE  <<prefill_swa_indices'[i], prefill_swa_lens'[i]>> = RowFor(D + i)'
    <3>1. i \in Tokens /\ i <= P
      BY <1>1, <1>9
    <3>2. QED
      BY <1>7, <1>11, <3>1
  <2>3. \A i \in 1 .. meta'.num_prefill_tokens :
          <<prefill_swa_indices'[i], prefill_swa_lens'[i]>> = RowFor(meta.num_decode_tokens + i)'
    BY <1>a, <1>b, <2>2
  <2>4. \A i \in 1 .. meta'.num_decode_tokens :
          <<decode_swa_indices'[i], decode_swa_lens'[i]>> = RowFor(i)'
    BY <1>a, <2>1
  <2>5. QED
    BY <1>1, <2>3, <2>4 DEF BuffersOK
<1>13. BuffersTyped'
  <2> SUFFICES ASSUME NEW i \in Tokens
               PROVE  /\ ToSet(decode_swa_indices'[i]) \subseteq Cells
                      /\ ToSet(prefill_swa_indices'[i]) \subseteq Cells
                      /\ Len(decode_swa_indices'[i]) \in Nat
                      /\ decode_swa_lens'[i] <= GreaterOf(Window, Len(decode_swa_indices'[i]))
                      /\ prefill_swa_lens'[i] <= PrefillWidth
                      /\ prefill_swa_lens'[i] <= GreaterOf(0, Len(prefill_swa_indices'[i]))
    BY DEF BuffersTyped, Cells
  <2>1. /\ ToSet(decode_swa_indices[i]) \subseteq Cells
        /\ ToSet(prefill_swa_indices[i]) \subseteq Cells
        /\ Len(decode_swa_indices[i]) \in Nat
        /\ decode_swa_lens[i] <= GreaterOf(Window, Len(decode_swa_indices[i]))
        /\ prefill_swa_lens[i] <= PrefillWidth
        /\ prefill_swa_lens[i] <= GreaterOf(0, Len(prefill_swa_indices[i]))
    BY DEF BuffersTyped, Cells
  <2>2. /\ ToSet(decode_swa_indices'[i]) \subseteq Cells
        /\ Len(decode_swa_indices'[i]) \in Nat
        /\ decode_swa_lens'[i] <= GreaterOf(Window, Len(decode_swa_indices'[i]))
    <3>1. CASE i <= D
      <4>1. /\ decode_swa_indices'[i] = (RowFor(i)')[1] /\ decode_swa_lens'[i] = (RowFor(i)')[2]
            /\ ToSet((RowFor(i)')[1]) \subseteq Cells
            /\ (RowFor(i)')[2] \in Int /\ (RowFor(i)')[2] <= Len((RowFor(i)')[1]) /\ Len((RowFor(i)')[1]) \in Nat
        BY <1>8, <1>10, <3>1
      <4> DEFINE l == Len(decode_swa_indices'[i])
      <4>2. decode_swa_lens'[i] <= l /\ l \in Nat /\ decode_swa_lens'[i] \in Int
        BY <4>1
      <4> HIDE DEF l
      <4>3. decode_swa_lens'[i] <= GreaterOf(Window, l)
        BY <4>2, Config DEF GreaterOf
      <4>4. QED
        BY <4>1, <4>2, <4>3 DEF l
    <3>2. CASE ~(i <= D)
      <4>1. /\ decode_swa_indices'[i] = decode_swa_indices[i]
            /\ decode_swa_lens'[i] = 0 \/ decode_swa_lens'[i] = decode_swa_lens[i]
        BY <1>2, <3>2
      <4> DEFINE l == Len(decode_swa_indices[i])
      <4>2. 0 <= GreaterOf(Window, l)
        <5>1. l \in Nat
          BY <2>1
        <5> HIDE DEF l
        <5>2. QED
          BY <5>1, Config DEF GreaterOf
      <4>3. QED
        BY <2>1, <4>1, <4>2
    <3>3. QED
      BY <3>1, <3>2
  <2>3. /\ ToSet(prefill_swa_indices'[i]) \subseteq Cells
        /\ prefill_swa_lens'[i] <= PrefillWidth
        /\ prefill_swa_lens'[i] <= GreaterOf(0, Len(prefill_swa_indices'[i]))
    <3>1. CASE i <= P
      <4>0. PICK t : t = D + i
        OBVIOUS
      <4>1. /\ prefill_swa_indices'[i] = (RowFor(t)')[1] /\ prefill_swa_lens'[i] = (RowFor(t)')[2]
            /\ t \in 1 .. PassTokens' /\ t > meta'.num_decode_tokens
        BY <1>a, <1>11, <3>1, <4>0
      <4>2. /\ ToSet((RowFor(t)')[1]) \subseteq Cells
            /\ (RowFor(t)')[2] <= Len((RowFor(t)')[1]) /\ Len((RowFor(t)')[1]) = PrefillWidth
        BY <1>8, <4>1
      <4>3. QED
        BY <4>1, <4>2, Config DEF GreaterOf
    <3>2. CASE ~(i <= P)
      BY <1>3, <2>1, <3>2
    <3>3. QED
      BY <3>1, <3>2
  <2>4. QED
    BY <2>2, <2>3
<1>14. QED
  BY <1>12, <1>13

LEMMA BuildOK ==
  ASSUME Inv, pc \in {"schedule", "draft"}, queries # <<>>,
         NEW causal, causal = (drafts = 0 \/ drafter # "dspark"),
         NEW pad \in {0, 1}, Build(queries, causal, pad), drafts' = drafts
  PROVE  Inv'
<1>1. PhaseOK /\ TablesOK /\ KeysHeld /\ QueriesOK /\ RowsHeld /\ BuffersTyped
  BY DEF Inv
<1>2. /\ queries' = queries /\ pc' = "attend"
      /\ UNCHANGED <<drafter, path, computed, epoch, table, kv, reads, drafts>>
  BY <1>1, BuildIs
<1>3. PhaseOK'
  BY <1>1, <1>2 DEF PhaseOK
<1>4. TablesOK' /\ KeysHeld'
  BY <1>1, <1>2, TableInvKept
<1>5. QueriesOK'
  BY <1>1, <1>2, QueriesKept
<1>6. RowsHeld'
  <2>1. \A r, p : Held(r, p)' <=> Held(r, p)
    BY <1>2, TablesKept
  <2>2. QED
    BY <1>1, <1>2, <2>1 DEF RowsHeld
<1>7. BuiltOK'
  BY <1>1, <1>2, BuildBuilt
<1>8. BuffersOK' /\ BuffersTyped'
  BY <1>1, <1>3, <1>4, <1>5, <1>7, BuildBuffers
<1>9. ReadsOK'
  BY <1>2 DEF ReadsOK
<1>10. QED
  BY <1>3, <1>4, <1>5, <1>6, <1>7, <1>8, <1>9 DEF Inv

LEMMA BuildStepOK ==
  ASSUME Inv, NEW pad \in {0, 1}, BuildStep(pad) \/ BuildDraft(pad)
  PROVE  Inv'
<1>1. PhaseOK
  BY DEF Inv
<1>2. CASE BuildStep(pad)
  <2>1. pc = "schedule" /\ queries # <<>> /\ drafts = 0 /\ drafts' = drafts
    BY <1>1, <1>2 DEF BuildStep, PhaseOK
  <2>2. Build(queries, TRUE, pad)
    BY <1>2 DEF BuildStep
  <2>3. TRUE = (drafts = 0 \/ drafter # "dspark")
    BY <2>1
  <2>4. QED
    BY <2>1, <2>2, <2>3, BuildOK
<1>3. CASE BuildDraft(pad)
  <2>1. pc = "draft" /\ queries # <<>> /\ drafts # 0 /\ drafts' = drafts
    BY <1>1, <1>3 DEF BuildDraft, PhaseOK
  <2>2. PICK causal : causal = (drafter # "dspark")
    OBVIOUS
  <2>3. Build(queries, causal, pad)
    BY <1>3, <2>2 DEF BuildDraft
  <2>4. causal = (drafts = 0 \/ drafter # "dspark")
    BY <2>1, <2>2
  <2>5. QED
    BY <2>1, <2>3, <2>4, BuildOK
<1>4. QED
  BY <1>2, <1>3

-----------------------------------------------------------------------------
(* The layers' pass.                                                        *)

\* A token's key goes to a slot of its request's own.
LEMMA TokenSlot ==
  ASSUME PhaseOK, TablesOK, QueriesOK, NEW i \in 1 .. Total(queries)
  PROVE  /\ QueryOf(i).req \in Requests /\ Position(i) \in Nat
         /\ BlockOf(Position(i)) \in DOMAIN table[QueryOf(i).req]
         /\ table[QueryOf(i).req][BlockOf(Position(i))] \in Blocks
<1> DEFINE row == RowOf(queries, i)
<1>1. queries \in Seq(QuerySet)
  BY DEF QueriesOK
<1>2. row \in DOMAIN queries
  BY <1>1, TokenRow, Layout
<1>3. LET q == queries[row]
          pos == PosOf(queries, row, i) IN
      q \in QuerySet /\ pos \in Nat /\ q.start <= pos /\ pos < q.start + q.n
  BY <1>1, TokenPos
<1> HIDE DEF row
<1> DEFINE q == queries[row]
           p == PosOf(queries, row, i)
<1>4. /\ q.req \in Requests /\ q.start \in Nat /\ q.n \in Nat \ {0}
      /\ computed[q.req] \in Nat /\ computed[q.req] <= q.start
      /\ q.start + q.n <= Room(q.req) /\ Room(q.req) \in Nat
  BY <1>2, QueryFits
<1>5. q.req = QueryOf(i).req /\ p = Position(i)
  BY DEF QueryOf, Position, row
<1>6. p \in Nat /\ q.start <= p /\ p < q.start + q.n
  BY <1>3
<1> HIDE DEF q, p
<1>7. computed[q.req] - Window + 1 <= p /\ p < Room(q.req)
  BY <1>4, <1>6, Config
<1>8. computed \in [Requests -> Nat]
  BY DEF PhaseOK
<1>9. BlockOf(p) \in DOMAIN table[q.req] /\ table[q.req][BlockOf(p)] \in Blocks
  BY <1>4, <1>6, <1>7, <1>8, Mapped
<1>10. QED
  BY <1>4, <1>5, <1>6, <1>9

\* The pass writes the key of a token at its position's slot, and nothing else: no two
\* tokens, and no token and another request's position, share a slot.
LEMMA Written ==
  ASSUME PhaseOK, TablesOK, QueriesOK, Attend, NEW r \in Requests, NEW p \in Nat,
         BlockOf(p) \in DOMAIN table[r], table[r][BlockOf(p)] \in Blocks
  PROVE  /\ (\E i \in 1 .. Total(queries) : QueryOf(i).req = r /\ Position(i) = p)
              => kv'[SlotOf(r, p)] = Key(r, p)
         /\ kv'[SlotOf(r, p)] \in {kv[SlotOf(r, p)], Key(r, p)}
<1> DEFINE T == Total(queries)
           slot(i) == SlotOf(QueryOf(i).req, Position(i))
           key(i) == Key(QueryOf(i).req, Position(i))
           written == {slot(i) : i \in 1 .. T}
           s == SlotOf(r, p)
<1>1. kv' = [x \in Slots |-> IF x \in written THEN key(CHOOSE i \in 1 .. T : slot(i) = x) ELSE kv[x]]
  BY DEF Attend, QueryOf, Position, Key
<1>2. s \in Slots
  <2>1. table[r][BlockOf(p)] \in 0 .. NumBlocks
    BY Config DEF Blocks
  <2>2. QED
    BY <2>1, SlotIs
<1>3. ASSUME NEW i \in 1 .. T, slot(i) = s
      PROVE  QueryOf(i).req = r /\ Position(i) = p
  BY <1>3, TokenSlot, SlotsDiffer
<1> HIDE DEF slot, key, T
<1>4. CASE s \in written
  <2> DEFINE c == CHOOSE i \in 1 .. T : slot(i) = s
  <2>1. c \in 1 .. T /\ slot(c) = s
    BY <1>4
  <2>2. kv'[s] = key(c)
    BY <1>1, <1>2, <1>4
  <2> HIDE DEF c, s
  <2>3. key(c) = Key(r, p)
    BY <1>3, <2>1 DEF key
  <2>4. QED
    BY <2>2, <2>3 DEF s
<1>5. CASE s \notin written
  <2>1. kv'[s] = kv[s]
    BY <1>1, <1>2, <1>5
  <2>2. ~ \E i \in 1 .. Total(queries) : QueryOf(i).req = r /\ Position(i) = p
    <3> SUFFICES ASSUME NEW i \in 1 .. T, QueryOf(i).req = r, Position(i) = p PROVE FALSE
      BY DEF T
    <3>1. slot(i) = s
      BY DEF slot
    <3>2. QED
      BY <1>5, <3>1
  <2>3. QED
    BY <2>1, <2>2
<1>6. QED
  BY <1>4, <1>5

\* What is held stays so, and the pass's own positions are held now.
LEMMA AttendHeld ==
  ASSUME PhaseOK, TablesOK, QueriesOK, Attend
  PROVE  /\ \A r \in Requests : \A p \in Nat : Held(r, p) => Held(r, p)'
         /\ \A i \in 1 .. Total(queries) : Held(QueryOf(i).req, Position(i))'
<1>1. UNCHANGED <<table, epoch, queries>>
  BY DEF Attend
<1>2. \A r, p : SlotOf(r, p)' = SlotOf(r, p) /\ Key(r, p)' = Key(r, p)
  BY <1>1 DEF SlotOf, Key
<1>3. ASSUME NEW r \in Requests, NEW p \in Nat, Held(r, p)
      PROVE  Held(r, p)'
  <2>1. /\ BlockOf(p) \in DOMAIN table[r] /\ table[r][BlockOf(p)] \in Blocks
        /\ kv[SlotOf(r, p)] = Key(r, p)
    BY <1>3 DEF Held
  <2>2. kv'[SlotOf(r, p)] = Key(r, p)
    BY <2>1, Written
  <2>3. QED
    BY <1>1, <1>2, <2>1, <2>2 DEF Held
<1>4. ASSUME NEW i \in 1 .. Total(queries) PROVE Held(QueryOf(i).req, Position(i))'
  <2>1. PICK r \in Requests, p \in Nat : r = QueryOf(i).req /\ p = Position(i)
    BY TokenSlot
  <2>2. BlockOf(p) \in DOMAIN table[r] /\ table[r][BlockOf(p)] \in Blocks
    BY <2>1, TokenSlot
  <2>3. kv'[SlotOf(r, p)] = Key(r, p)
    BY <2>1, <2>2, Written
  <2>4. Held(r, p)'
    BY <1>1, <1>2, <2>2, <2>3 DEF Held
  <2>5. QueryOf(i)' = QueryOf(i) /\ Position(i)' = Position(i)
    BY <1>1 DEF QueryOf, Position
  <2>6. r = QueryOf(i)'.req /\ p = Position(i)'
    BY <2>1, <2>5
  <2>7. QED
    BY <2>4, <2>6
<1>5. QED
  BY <1>3, <1>4

LEMMA BuiltKept ==
  ASSUME BuiltOK, Passing, UNCHANGED <<drafter, queries, meta, buffers, drafts>>
  PROVE  BuiltOK'
<1>1. NumDecodes(queries)' = NumDecodes(queries)
  BY DecodesKept
<1>2. \A i : Left(i)' = Left(i) /\ Right(i)' = Right(i)
  BY DEF Left, Right, buffers
<1>3. \A i : QueryOf(i)' = QueryOf(i) /\ Position(i)' = Position(i)
  BY DEF QueryOf, Position
<1>4. PassTokens' = PassTokens
  BY DEF PassTokens
<1>5. is_valid_token' = is_valid_token /\ token_to_req' = token_to_req
  BY DEF buffers
<1>6. QED
  BY <1>1, <1>2, <1>3, <1>4, <1>5 DEF BuiltOK, Passing

\* After the pass the keys of its queries' own positions are held as well.
LEMMA AttendRows ==
  ASSUME PhaseOK, TablesOK, QueriesOK, RowsHeld, pc = "attend", Attend
  PROVE  RowsHeld'
<1>1. UNCHANGED <<queries, computed, drafts>>
  BY DEF Attend
<1>2. queries \in Seq(QuerySet)
  BY DEF QueriesOK
<1> SUFFICES ASSUME NEW i \in DOMAIN queries, NEW p \in Nat,
                    computed[queries[i].req] - Window + (IF drafts = 0 THEN 1 ELSE 0) <= p,
                    p < queries[i].start + queries[i].n
             PROVE  Held(queries[i].req, p)'
  <2> DEFINE low(i) == computed[queries[i].req] - Window + (IF drafts = 0 THEN 1 ELSE 0)
  <2>1. /\ \A i \in DOMAIN queries : queries[i].start \in Nat /\ queries[i].n \in Nat
        /\ pc' \in {"sample", "drafted"} /\ \A i : low(i)' = low(i)
    <3>1. \A i \in DOMAIN queries : queries[i].start \in Nat /\ queries[i].n \in Nat
      BY <1>2, Layout
    <3>2. pc' \in {"sample", "drafted"}
      BY DEF Attend
    <3>3. \A i : low(i)' = low(i)
      BY <1>1
    <3>4. QED
      BY <3>1, <3>2, <3>3
  <2>2. ASSUME NEW i \in DOMAIN queries, NEW p \in Nat, low(i) <= p,
               p < queries[i].start + queries[i].n
        PROVE  Held(queries[i].req, p)'
    BY <2>2
  <2>3. QED
    BY <1>1, <2>1, <2>2 DEF RowsHeld
<1>3. queries[i].req \in Requests /\ queries[i].start \in Nat /\ queries[i].n \in Nat
  BY <1>2, Layout
<1>4. PICK r \in Requests : r = queries[i].req
  BY <1>3
<1>5. CASE p < queries[i].start
  <2>1. Held(r, p)
    BY <1>4, <1>5 DEF RowsHeld
  <2>2. Held(r, p)'
    BY <2>1, AttendHeld
  <2>3. r = queries'[i].req
    BY <1>1, <1>4
  <2>4. QED
    BY <2>2, <2>3
<1>6. CASE ~(p < queries[i].start)
  <2>1. queries[i].start <= p /\ i \in 1 .. Len(queries)
    BY <1>2, <1>3, <1>6
  <2>2. PICK t \in 1 .. Total(queries) : RowOf(queries, t) = i /\ PosOf(queries, i, t) = p
    BY <1>2, <2>1, TokenAt
  <2>3. QueryOf(t).req = r /\ Position(t) = p
    BY <1>4, <2>2 DEF QueryOf, Position
  <2>4. Held(QueryOf(t).req, Position(t))'
    BY AttendHeld
  <2>5. QueryOf(t)'.req = r /\ Position(t)' = p /\ r = queries'[i].req
    BY <1>1, <1>4, <2>3 DEF QueryOf, Position
  <2>6. QED
    BY <2>4, <2>5
<1>7. QED
  BY <1>5, <1>6

\* What the tokens read.
LEMMA AttendReads ==
  ASSUME PhaseOK, TablesOK, QueriesOK, BuiltOK, BuffersOK, pc = "attend", Attend, RowsHeld'
  PROVE  ReadsOK'
<1>1. UNCHANGED <<drafter, computed, epoch, table, queries, meta, drafts>>
  BY DEF Attend
<1>2. Passing
  BY DEF Passing
<1>3. DOMAIN Rows = 1 .. PassTokens /\ \A t \in 1 .. PassTokens : Rows[t] = RowFor(t)
  BY RowsAre
<1> DEFINE content(s) == IF s \in Slots THEN kv'[s] ELSE None
<1>4. reads' = [t \in 1 .. PassTokens |->
                  [o \in 1 .. RowFor(t)[2] |-> content(RowFor(t)[1][o])]]
  <2>1. reads' = [t \in DOMAIN Rows |-> [o \in 1 .. Rows[t][2] |-> content(Rows[t][1][o])]]
    BY DEF Attend
  <2> HIDE DEF content
  <2>2. QED
    BY <1>3, <2>1
<1>5. Total(queries) \in Nat /\ PassTokens \in Nat /\ Total(queries) <= PassTokens
  BY <1>2, PassLayout
<1>6. /\ \A i : QueryOf(i)' = QueryOf(i) /\ Position(i)' = Position(i)
      /\ \A q, pos : FirstSeen(q, pos)' = FirstSeen(q, pos) /\ LastSeen(q, pos)' = LastSeen(q, pos)
      /\ \A r, p : SlotOf(r, p)' = SlotOf(r, p) /\ Key(r, p)' = Key(r, p)
  <2>1. \A i : QueryOf(i)' = QueryOf(i) /\ Position(i)' = Position(i)
    BY <1>1 DEF QueryOf, Position
  <2>2. \A q, pos : FirstSeen(q, pos)' = FirstSeen(q, pos) /\ LastSeen(q, pos)' = LastSeen(q, pos)
    BY <1>1 DEF FirstSeen, LastSeen, Containing
  <2>3. \A r, p : SlotOf(r, p)' = SlotOf(r, p) /\ Key(r, p)' = Key(r, p)
    BY <1>1 DEF SlotOf, Key
  <2>4. QED
    BY <2>1, <2>2, <2>3
<1>7. ASSUME NEW i \in 1 .. PassTokens, i > Total(queries)
      PROVE  reads'[i] = <<>>
  <2>1. RowFor(i)[2] = 0
    BY <1>2, <1>7, PassRow
  <2> HIDE DEF content
  <2>2. reads'[i] = [o \in 1 .. 0 |-> content(RowFor(i)[1][o])]
    BY <1>4, <2>1
  <2>3. QED
    BY <2>2
<1>8. ASSUME NEW i \in 1 .. Total(queries), Seeing(i)
      PROVE  SeesItsWindow(i)'
  <2>1. PICK r, first, last :
          /\ r = QueryOf(i).req
          /\ first = FirstSeen(QueryOf(i), Position(i))
          /\ last = LastSeen(QueryOf(i), Position(i))
    OBVIOUS
  <2>2. i \in 1 .. PassTokens
    BY <1>5
  <2>3. /\ RowFor(i)[2] = last - first + 1
        /\ \A o \in 1 .. last - first + 1 : RowFor(i)[1][o] = SlotOf(r, first + o - 1)
    <3>1. i <= Total(queries)
      BY <1>5
    <3>2. QED
      BY <1>2, <1>8, <2>1, <2>2, <3>1, PassRow
  <2>4. meta.causal = (drafts = 0 \/ drafter # "dspark")
    BY <1>2 DEF BuiltOK, Passing
  <2>5. PICK row \in DOMAIN queries : QueryOf(i) = queries[row]
    BY <2>4, TokenSees
  <2>6. /\ first \in Nat /\ last \in Nat /\ first <= last
        /\ last < queries[row].start + queries[row].n
        /\ computed[r] - Window + (IF drafts = 0 THEN 1 ELSE 0) <= first
    BY <2>1, <2>4, <2>5, TokenSees
  <2>7. /\ r \in Requests /\ r = queries[row].req /\ computed[r] \in Nat
        /\ queries[row].start \in Nat /\ queries[row].n \in Nat
    BY <2>1, <2>5, QueryFits
  <2>8. ASSUME NEW p \in Nat, first <= p, p <= last
        PROVE  content(SlotOf(r, p)) = Key(r, p)
    <3>1. Held(r, p)'
      <4>1. /\ computed'[queries'[row].req] - Window + (IF drafts' = 0 THEN 1 ELSE 0) <= p
            /\ p < queries'[row].start + queries'[row].n
        <5> DEFINE low == computed[r] - Window + (IF drafts = 0 THEN 1 ELSE 0)
        <5>1. low <= first /\ low \in Int
          BY <2>6, <2>7, Config
        <5>2. computed'[queries'[row].req] - Window + (IF drafts' = 0 THEN 1 ELSE 0) = low
          BY <1>1, <2>7
        <5> HIDE DEF low
        <5>3. low <= p
          BY <2>6, <2>8, <5>1
        <5>4. p < queries[row].start + queries[row].n
          BY <2>6, <2>7, <2>8
        <5>5. QED
          BY <1>1, <5>2, <5>3, <5>4
      <4>2. pc' \in {"sample", "drafted"}
        BY DEF Attend
      <4>3. r = queries'[row].req /\ row \in DOMAIN queries'
        BY <1>1, <2>7
      <4>4. Held(queries[row].req, p)'
        BY <4>1, <4>2, <4>3 DEF RowsHeld
      <4>5. QED
        BY <4>3, <4>4
    <3>2. /\ BlockOf(p) \in DOMAIN table[r] /\ table[r][BlockOf(p)] \in Blocks
          /\ kv'[SlotOf(r, p)] = Key(r, p)
      BY <1>1, <1>6, <3>1 DEF Held
    <3>3. SlotOf(r, p) \in Slots
      <4>1. table[r][BlockOf(p)] \in 0 .. NumBlocks
        BY <3>2, Config DEF Blocks
      <4>2. QED
        BY <2>7, <3>2, <4>1, SlotIs
    <3>4. QED
      BY <3>2, <3>3
  <2>9. \A o \in 1 .. last - first + 1 : content(RowFor(i)[1][o]) = Key(r, first + o - 1)
    <3> TAKE o \in 1 .. last - first + 1
    <3>1. first + o - 1 \in Nat /\ first <= first + o - 1 /\ first + o - 1 <= last
      BY <2>6
    <3>2. RowFor(i)[1][o] = SlotOf(r, first + o - 1)
      BY <2>3
    <3>3. content(SlotOf(r, first + o - 1)) = Key(r, first + o - 1)
      BY <2>8, <3>1
    <3> HIDE DEF content
    <3>4. QED
      BY <3>2, <3>3
  <2> HIDE DEF content
  <2>10. i \in DOMAIN reads' /\ reads'[i] = [o \in 1 .. last - first + 1 |-> Key(r, first + o - 1)]
    <3>1. reads'[i] = [o \in 1 .. last - first + 1 |-> content(RowFor(i)[1][o])]
      BY <1>4, <2>2, <2>3
    <3>2. i \in DOMAIN reads'
      BY <1>4, <2>2
    <3>3. QED
      BY <2>9, <3>1, <3>2
  <2>11. reads'[i] = [o \in 1 .. last - first + 1 |->
                        [req |-> r, epoch |-> epoch'[r], pos |-> first + o - 1]]
    BY <1>1, <2>10 DEF Key
  <2>12. /\ QueryOf(i)'.req = r
         /\ FirstSeen(QueryOf(i), Position(i))' = first
         /\ LastSeen(QueryOf(i), Position(i))' = last
    <3>1. QueryOf(i)'.req = r
      BY <1>6, <2>1
    <3>2. FirstSeen(QueryOf(i), Position(i))' = first
      BY <1>1, <2>1 DEF FirstSeen, Containing, QueryOf, Position
    <3>3. LastSeen(QueryOf(i), Position(i))' = last
      BY <1>1, <2>1 DEF LastSeen, Containing, QueryOf, Position
    <3>4. QED
      BY <3>1, <3>2, <3>3
  <2>13. QED
    BY <2>10, <2>11, <2>12 DEF SeesItsWindow
<1>9. \A i : Seeing(i)' <=> Seeing(i)
  BY <1>1 DEF Seeing, Containing, QueryOf, Position
<1>10. Total(queries)' = Total(queries)
  BY <1>1
<1>11. DOMAIN reads' = 1 .. PassTokens
  BY <1>4
<1>12. /\ \A i \in 1 .. Total(queries)' : Seeing(i)' => SeesItsWindow(i)'
       /\ \A i \in DOMAIN reads' : i > Total(queries)' => reads'[i] = <<>>
  BY <1>7, <1>8, <1>9, <1>10, <1>11
<1>13. QED
  BY <1>12 DEF ReadsOK

LEMMA AttendOK ==
  ASSUME Inv, Attend
  PROVE  Inv'
<1>1. /\ PhaseOK /\ TablesOK /\ KeysHeld /\ QueriesOK /\ RowsHeld /\ BuiltOK /\ BuffersOK
      /\ BuffersTyped
  BY DEF Inv
<1>2. /\ pc = "attend" /\ pc' = (IF drafts = 0 THEN "sample" ELSE "drafted")
      /\ UNCHANGED <<drafter, path, computed, epoch, table, queries, meta, buffers, drafts>>
  BY DEF Attend
<1>3. PhaseOK'
  BY <1>1, <1>2 DEF PhaseOK
<1>4. TablesOK'
  <2>1. \A r : Skipped(r)' = Skipped(r)
    BY <1>2 DEF Skipped
  <2>2. QED
    BY <1>1, <1>2, <2>1 DEF TablesOK
<1>5. KeysHeld'
  <2>1. \A r \in Requests : \A p \in Nat : Held(r, p) => Held(r, p)'
    BY <1>1, AttendHeld
  <2>2. QED
    BY <1>1, <1>2, <2>1 DEF KeysHeld
<1>6. QueriesOK'
  BY <1>1, <1>2, QueriesKept
<1>7. RowsHeld'
  BY <1>1, <1>2, AttendRows
<1>8. BuiltOK'
  BY <1>1, <1>2, BuiltKept DEF Passing
<1>9. BuffersOK'
  BY <1>2 DEF BuffersOK
<1>10. ReadsOK'
  BY <1>1, <1>2, <1>7, AttendReads
<1>11. BuffersTyped'
  BY <1>1, <1>2, BuffersTypedKept
<1>12. QED
  BY <1>3, <1>4, <1>5, <1>6, <1>7, <1>8, <1>9, <1>10, <1>11 DEF Inv

-----------------------------------------------------------------------------
(* After the pass.                                                          *)

\* The window moves on, never back.
LEMMA SkippedGrows ==
  ASSUME NEW r, computed[r] \in Nat, computed'[r] \in Nat, computed[r] <= computed'[r]
  PROVE  Skipped(r) <= Skipped(r)' /\ Skipped(r) \in Nat /\ Skipped(r)' \in Nat
<1> DEFINE x == GreaterOf(computed[r] - Window + 1, 0)
           y == GreaterOf(computed'[r] - Window + 1, 0)
<1>1. x \in Nat /\ y \in Nat /\ x <= y
  BY Config DEF GreaterOf
<1>2. Skipped(r) = x \div BlockSize /\ Skipped(r)' = y \div BlockSize
  BY DEF Skipped
<1> HIDE DEF x, y
<1> DEFINE a == x \div BlockSize
           b == y \div BlockSize
<1>3. /\ a \in Nat /\ b \in Nat /\ y % BlockSize \in 0 .. BlockSize - 1
      /\ y = b * BlockSize + (y % BlockSize)
      /\ \A m \in Nat : x < m * BlockSize => a < m
  BY <1>1, Config, DivModOf
<1>4. y < (b + 1) * BlockSize
  <2>1. (b + 1) * BlockSize = b * BlockSize + BlockSize
    BY <1>3, Config
  <2> DEFINE z == b * BlockSize
  <2>2. z \in Nat
    BY <1>3, Config
  <2> HIDE DEF z, b
  <2>3. QED
    BY <1>3, <2>1, <2>2, Config DEF z
<1> HIDE DEF a, b
<1>5. (b + 1) * BlockSize \in Nat
  BY <1>3, Config
<1> DEFINE e == (b + 1) * BlockSize
<1>6. x < e
  <2> HIDE DEF e
  <2>1. y < e /\ e \in Nat
    BY <1>4, <1>5 DEF e
  <2>2. QED
    BY <1>1, <2>1
<1>7. a < b + 1
  BY <1>3, <1>6
<1>8. QED
  BY <1>2, <1>3, <1>7 DEF a, b

\* What the pass's outcome is: at least a token of every query, never more than it has.
LEMMA Outcome ==
  ASSUME PhaseOK, QueriesOK, pc = "sample",
         NEW accepted \in 0 .. NumSpec[drafter], Sample(accepted)
  PROVE  /\ computed' \in [Requests -> Nat]
         /\ \A r \in Requests : computed[r] <= computed'[r]
         /\ \A row \in DOMAIN queries :
              /\ computed[queries[row].req] < computed'[queries[row].req]
              /\ computed'[queries[row].req] <= queries[row].start + queries[row].n
         /\ \A r \in Requests : (\A row \in DOMAIN queries : queries[row].req # r)
                                  => computed'[r] = computed[r]
<1> DEFINE chosen(r) == CHOOSE row \in DOMAIN queries : queries[row].req = r
           more(q) == IF q.start < PromptLen[q.req] THEN q.n ELSE LesserOf(q.n, accepted + 1)
<1>1. /\ queries \in Seq(QuerySet) /\ drafts = 0 /\ computed \in [Requests -> Nat]
      /\ \A i, j \in DOMAIN queries : queries[i].req = queries[j].req => i = j
      /\ \A i \in DOMAIN queries : TargetQuery(queries[i])
  BY DEF PhaseOK, QueriesOK
<1>2. accepted \in Nat
  <2>1. NumSpec[drafter] \in Nat
    BY Drafters DEF PhaseOK
  <2>2. QED
    BY <2>1
<1>3. computed' = [r \in Requests |->
         IF \E row \in DOMAIN queries : queries[row].req = r
         THEN LET q == queries[chosen(r)] IN
              q.start + IF q.start < PromptLen[r] THEN q.n ELSE LesserOf(q.n, accepted + 1)
         ELSE computed[r]]
  BY DEF Sample
<1>4. ASSUME NEW row \in DOMAIN queries
      PROVE  LET q == queries[row] IN
             /\ q.req \in Requests /\ chosen(q.req) = row
             /\ q.start = computed[q.req] /\ computed[q.req] \in Nat
             /\ q.n \in Nat \ {0} /\ more(q) \in Nat \ {0} /\ more(q) <= q.n
  <2>1. /\ queries[row].req \in Requests /\ queries[row].start \in Nat
        /\ queries[row].n \in Nat \ {0}
    BY <1>1, Layout
  <2>2. chosen(queries[row].req) = row
    BY <1>1
  <2>3. queries[row].start = computed[queries[row].req]
    BY <1>1 DEF TargetQuery
  <2>4. more(queries[row]) \in Nat \ {0} /\ more(queries[row]) <= queries[row].n
    BY <1>2, <2>1 DEF LesserOf
  <2>5. QED
    BY <1>1, <2>1, <2>2, <2>3, <2>4
<1>5. ASSUME NEW row \in DOMAIN queries
      PROVE  computed'[queries[row].req] = queries[row].start + more(queries[row])
  <2>1. /\ queries[row].req \in Requests /\ chosen(queries[row].req) = row
    BY <1>4
  <2> HIDE DEF chosen
  <2>2. QED
    BY <1>3, <2>1
<1>6. ASSUME NEW r \in Requests, \A row \in DOMAIN queries : queries[row].req # r
      PROVE  computed'[r] = computed[r]
  BY <1>3, <1>6
<1> HIDE DEF more
<1>7. ASSUME NEW row \in DOMAIN queries
      PROVE  /\ computed[queries[row].req] < computed'[queries[row].req]
             /\ computed'[queries[row].req] <= queries[row].start + queries[row].n
             /\ computed'[queries[row].req] \in Nat
  BY <1>4, <1>5
<1>8. ASSUME NEW r \in Requests
      PROVE  computed[r] <= computed'[r] /\ computed'[r] \in Nat
  <2>0. computed[r] \in Nat
    BY <1>1
  <2>1. CASE \E row \in DOMAIN queries : queries[row].req = r
    <3>1. PICK row \in DOMAIN queries : queries[row].req = r
      BY <2>1
    <3>2. computed[r] < computed'[r] /\ computed'[r] \in Nat
      BY <1>7, <3>1
    <3>3. QED
      BY <2>0, <3>2
  <2>2. CASE \A row \in DOMAIN queries : queries[row].req # r
    BY <1>6, <2>0, <2>2
  <2>3. QED
    BY <2>1, <2>2
<1>9. computed' \in [Requests -> Nat]
  <2>1. computed' = [r \in Requests |-> computed'[r]]
    BY <1>3
  <2>2. QED
    BY <1>8, <2>1
<1>10. QED
  BY <1>6, <1>7, <1>8, <1>9

\* The tables and the cache serve the next token of the text as it is now.
LEMMA SampleTables ==
  ASSUME PhaseOK, TablesOK, KeysHeld, QueriesOK, RowsHeld, pc = "sample",
         NEW accepted \in 0 .. NumSpec[drafter], Sample(accepted)
  PROVE  /\ TablesOK' /\ KeysHeld'
         /\ \A row \in DOMAIN queries : \A p \in Nat :
              /\ computed'[queries[row].req] - Window <= p
              /\ p < computed'[queries[row].req]
              => Held(queries[row].req, p)
<1>1. UNCHANGED <<table, kv, epoch>>
  BY DEF Sample, EndStep
<1>2. /\ computed' \in [Requests -> Nat]
      /\ \A r \in Requests : computed[r] <= computed'[r]
      /\ \A row \in DOMAIN queries :
           /\ computed[queries[row].req] < computed'[queries[row].req]
           /\ computed'[queries[row].req] <= queries[row].start + queries[row].n
      /\ \A r \in Requests : (\A row \in DOMAIN queries : queries[row].req # r)
                               => computed'[r] = computed[r]
  BY Outcome
<1>3. computed \in [Requests -> Nat] /\ drafts = 0
  BY DEF PhaseOK
<1>4. \A r \in Requests : Skipped(r) <= Skipped(r)' /\ Skipped(r) \in Nat /\ Skipped(r)' \in Nat
  BY <1>2, <1>3, SkippedGrows
<1>5. TablesOK'
  <2>1. ASSUME NEW r \in Requests, NEW i \in DOMAIN table[r], i > Skipped(r)'
        PROVE  table[r][i] # 0
    <3>1. i \in Nat
      BY DEF TablesOK
    <3>2. i > Skipped(r)
      BY <1>4, <2>1, <3>1
    <3>3. QED
      BY <3>2 DEF TablesOK
  <2>2. QED
    BY <1>1, <2>1 DEF TablesOK
<1>6. ASSUME NEW row \in DOMAIN queries, NEW p \in Nat,
             computed'[queries[row].req] - Window <= p, p < computed'[queries[row].req]
      PROVE  Held(queries[row].req, p)
  <2>1. /\ queries[row].req \in Requests /\ queries[row].start \in Nat
        /\ queries[row].n \in Nat \ {0}
    BY Layout DEF QueriesOK
  <2> DEFINE c == computed[queries[row].req]
             d == computed'[queries[row].req]
             e == queries[row].start + queries[row].n
  <2>2. c \in Nat /\ d \in Nat /\ c < d /\ d <= e /\ e \in Nat
    BY <1>2, <1>3, <2>1
  <2>3. d - Window <= p /\ p < d
    BY <1>6
  <2> HIDE DEF c, d, e
  <2>4. c - Window + 1 <= p /\ p < e
    BY <2>2, <2>3, Config
  <2>5. /\ computed[queries[row].req] - Window + (IF drafts = 0 THEN 1 ELSE 0) <= p
        /\ p < queries[row].start + queries[row].n
    BY <1>3, <2>4 DEF c, e
  <2>6. QED
    BY <2>5 DEF RowsHeld
<1>7. KeysHeld'
  <2>1. \A r, p : Held(r, p)' <=> Held(r, p)
    BY <1>1, TablesKept
  <2> SUFFICES ASSUME NEW r \in Requests, NEW p \in Nat,
                      computed'[r] - Window + 1 <= p, p < computed'[r]
               PROVE  Held(r, p)
    BY <2>1 DEF KeysHeld
  <2>2. CASE \E row \in DOMAIN queries : queries[row].req = r
    <3>1. PICK row \in DOMAIN queries : queries[row].req = r
      BY <2>2
    <3>2. computed'[r] - Window <= p
      BY <1>2, Config
    <3>3. QED
      BY <1>6, <3>1, <3>2
  <2>3. CASE \A row \in DOMAIN queries : queries[row].req # r
    BY <1>2, <2>3 DEF KeysHeld
  <2>4. QED
    BY <2>2, <2>3
<1>8. QED
  BY <1>5, <1>6, <1>7

\* A step ends without queries.
LEMMA NoQueries ==
  ASSUME queries' = <<>>
  PROVE  QueriesOK' /\ RowsHeld'
<1>1. DOMAIN queries' = {} /\ queries' \in Seq(QuerySet) /\ Len(queries') = 0
  OBVIOUS
<1>2. Total(queries') = 0
  <2>1. /\ Total(queries') = QueryStartLoc(queries', Len(queries') + 1)
        /\ QueryStartLoc(queries', 1) = 0
    BY <1>1, Layout
  <2>2. Len(queries') + 1 = 1
    BY <1>1
  <2>3. QED
    BY <2>1, <2>2
<1>3. Total(queries)' <= MaxTokens
  BY <1>2, Config
<1>4. QueriesOK'
  BY <1>1, <1>3 DEF QueriesOK
<1>5. RowsHeld'
  BY <1>1 DEF RowsHeld
<1>6. QED
  BY <1>4, <1>5

LEMMA EndStepOK ==
  ASSUME PhaseOK, BuffersTyped, computed' \in [Requests -> Nat], TablesOK', KeysHeld', EndStep
  PROVE  Inv'
<1>1. /\ pc' = "schedule" /\ queries' = <<>> /\ drafts' = 0
      /\ UNCHANGED <<drafter, path, epoch, table, kv, meta, buffers, cache>>
  BY DEF EndStep
<1>2. PhaseOK'
  BY <1>1 DEF PhaseOK
<1>3. QueriesOK' /\ RowsHeld'
  BY <1>1, NoQueries
<1>4. BuiltOK' /\ BuffersOK' /\ ReadsOK'
  BY <1>1, Resting
<1>5. BuffersTyped'
  BY <1>1, BuffersTypedKept
<1>6. QED
  BY <1>2, <1>3, <1>4, <1>5 DEF Inv

\* The queries of the first draft pass.
LEMMA FirstDrafts ==
  ASSUME Inv, pc = "sample", NEW accepted \in 0 .. NumSpec[drafter], Sample(accepted), ~EndStep
  PROVE  /\ pc' = "draft" /\ drafts' = 1 /\ drafter # "none" /\ queries' # <<>>
         /\ UNCHANGED <<drafter, path, epoch, table, kv, meta, buffers, cache>>
         /\ queries' \in Seq(QuerySet) /\ Total(queries)' <= MaxTokens
         /\ \A k \in DOMAIN queries' : \E row \in DOMAIN queries :
              /\ queries'[k].req = queries[row].req
              /\ queries'[k].start = computed'[queries[row].req]
              /\ PromptLen[queries[row].req] <= computed'[queries[row].req]
              /\ queries'[k].n = (IF drafter = "dspark" THEN DraftBlock ELSE 1)
         /\ \A k, l \in DOMAIN queries' : queries'[k].req = queries'[l].req => k = l
<1> DEFINE drafting == {row \in DOMAIN queries :
                          /\ drafter # "none"
                          /\ computed'[queries[row].req] >= PromptLen[queries[row].req]}
           m == Cardinality(drafting)
           size == IF drafter = "dspark" THEN DraftBlock ELSE 1
           query(k) == LET r == queries[Nth(drafting, k)].req IN
                       [req |-> r, start |-> computed'[r], n |-> size]
           next == [k \in 1 .. m |-> query(k)]
<1>1. PhaseOK /\ QueriesOK /\ TablesOK
  BY DEF Inv
<1>2. IF next = <<>> \/ Total(next) > MaxTokens
      THEN EndStep
      ELSE /\ queries' = next
           /\ pc' = "draft"
           /\ drafts' = 1
           /\ reads' = <<>>
           /\ UNCHANGED <<drafter, path, epoch, table, kv, meta, buffers, cache>>
  BY DEF Sample
<1>3. /\ next # <<>> /\ ~(Total(next) > MaxTokens) /\ queries' = next
      /\ pc' = "draft" /\ drafts' = 1
      /\ UNCHANGED <<drafter, path, epoch, table, kv, meta, buffers, cache>>
  BY <1>2
<1>4. /\ queries \in Seq(QuerySet) /\ Len(queries) \in Nat /\ DOMAIN queries = 1 .. Len(queries)
      /\ \A i, j \in DOMAIN queries : queries[i].req = queries[j].req => i = j
      /\ \A i \in DOMAIN queries : queries[i].req \in Requests
      /\ computed' \in [Requests -> Nat] /\ drafter \in {"none", "mtp", "dspark"}
  BY <1>1, Outcome, Layout DEF PhaseOK, QueriesOK
<1>5. drafting \in SUBSET (1 .. Len(queries))
  BY <1>4
<1>6. m \in Nat
  <2>1. IsFiniteSet(1 .. Len(queries))
    BY <1>4, FS_Interval
  <2> HIDE DEF drafting
  <2>2. QED
    BY <1>5, <2>1, FS_Subset, FS_CardinalityType
<1>7. /\ \A k \in 1 .. m : Nth(drafting, k) \in drafting
      /\ \A k, l \in 1 .. m : Nth(drafting, k) = Nth(drafting, l) => k = l
  <2> HIDE DEF drafting
  <2>1. QED
    BY <1>4, <1>5, NthOf
<1>8. size \in Nat \ {0}
  BY <1>4, Drafters
<1>9. ASSUME NEW k \in 1 .. m
      PROVE  /\ Nth(drafting, k) \in DOMAIN queries
             /\ PromptLen[queries[Nth(drafting, k)].req] <= computed'[queries[Nth(drafting, k)].req]
             /\ drafter # "none"
  <2> DEFINE x == Nth(drafting, k)
  <2>1. x \in drafting
    BY <1>7
  <2> HIDE DEF x
  <2>2. /\ x \in DOMAIN queries /\ drafter # "none"
        /\ computed'[queries[x].req] >= PromptLen[queries[x].req]
    BY <2>1
  <2>3. queries[x].req \in Requests
    BY <1>4, <2>2
  <2>4. computed'[queries[x].req] \in Nat /\ PromptLen[queries[x].req] \in Nat
    BY <1>4, <2>3, Config
  <2>5. PromptLen[queries[x].req] <= computed'[queries[x].req]
    BY <2>2, <2>4
  <2>6. QED
    BY <2>2, <2>5 DEF x
<1> HIDE DEF drafting, m, size
<1>10. ASSUME NEW k \in 1 .. m PROVE query(k) \in QuerySet
  <2>1. queries[Nth(drafting, k)].req \in Requests
    BY <1>4, <1>9
  <2>2. computed'[queries[Nth(drafting, k)].req] \in Nat
    BY <1>4, <2>1
  <2>3. QED
    BY <1>8, <2>1, <2>2 DEF QuerySet
<1>11. ASSUME NEW k \in 1 .. m
       PROVE  /\ next[k].req = queries[Nth(drafting, k)].req
              /\ next[k].start = computed'[queries[Nth(drafting, k)].req]
              /\ next[k].n = size
  OBVIOUS
<1>12. next \in Seq(QuerySet) /\ Len(next) = m /\ DOMAIN next = 1 .. m
  <2> HIDE DEF query
  <2>1. QED
    BY <1>6, <1>10
<1> HIDE DEF next
<1>13. Total(next) \in Nat
  BY <1>12, Layout
<1>14. Total(queries)' <= MaxTokens
  <2>1. Total(next) <= MaxTokens
    BY <1>3, <1>13, Config
  <2>2. Total(queries)' = Total(next)
    BY <1>3
  <2>3. QED
    BY <2>1, <2>2
<1>15. drafter # "none"
  <2>1. m # 0
    BY <1>3, <1>12
  <2>2. 1 \in 1 .. m
    BY <1>6, <2>1
  <2>3. QED
    BY <1>9, <2>2
<1>16. ASSUME NEW k \in 1 .. m, NEW l \in 1 .. m, next[k].req = next[l].req
       PROVE  k = l
  <2>1. queries[Nth(drafting, k)].req = queries[Nth(drafting, l)].req
    BY <1>11, <1>16
  <2>2. Nth(drafting, k) = Nth(drafting, l)
    BY <1>4, <1>9, <2>1
  <2>3. QED
    BY <1>7, <2>2
<1>17. ASSUME NEW k \in 1 .. m
       PROVE  \E row \in DOMAIN queries :
                /\ next[k].req = queries[row].req
                /\ next[k].start = computed'[queries[row].req]
                /\ PromptLen[queries[row].req] <= computed'[queries[row].req]
                /\ next[k].n = size
  BY <1>9, <1>11
<1>18. QED
  BY <1>3, <1>12, <1>14, <1>15, <1>16, <1>17 DEF size

LEMMA SampleOK ==
  ASSUME Inv, NEW accepted \in 0 .. NumSpec[drafter], Sample(accepted)
  PROVE  Inv'
<1>1. PhaseOK /\ TablesOK /\ KeysHeld /\ QueriesOK /\ RowsHeld /\ BuffersTyped /\ pc = "sample"
  BY DEF Inv, Sample
<1>2. computed' \in [Requests -> Nat] /\ TablesOK' /\ KeysHeld'
  BY <1>1, Outcome, SampleTables
<1>3. CASE EndStep
  BY <1>1, <1>2, <1>3, EndStepOK
<1>4. CASE ~EndStep
  <2>1. /\ pc' = "draft" /\ drafts' = 1 /\ drafter # "none" /\ queries' # <<>>
        /\ UNCHANGED <<drafter, path, epoch, table, kv, meta, buffers, cache>>
        /\ queries' \in Seq(QuerySet) /\ Total(queries)' <= MaxTokens
        /\ \A k \in DOMAIN queries' : \E row \in DOMAIN queries :
             /\ queries'[k].req = queries[row].req
             /\ queries'[k].start = computed'[queries[row].req]
             /\ PromptLen[queries[row].req] <= computed'[queries[row].req]
             /\ queries'[k].n = (IF drafter = "dspark" THEN DraftBlock ELSE 1)
        /\ \A k, l \in DOMAIN queries' : queries'[k].req = queries'[l].req => k = l
    BY <1>1, <1>4, FirstDrafts
  <2>2. PhaseOK'
    <3>1. drafter' \in {"none", "mtp", "dspark"} /\ NumSpec[drafter'] \in Nat
      BY <1>1, <2>1, Drafters DEF PhaseOK
    <3>2. drafts' <= GreaterOf(1, NumSpec[drafter'])
      BY <2>1, <3>1 DEF GreaterOf
    <3>3. QED
      BY <1>1, <1>2, <2>1, <3>2 DEF PhaseOK
  <2>3. \A r : Room(r)' = Room(r)
    BY <2>1 DEF Room
  <2>4. ASSUME NEW k \in DOMAIN queries' PROVE DraftQuery(queries[k])'
    <3>1. PICK row \in DOMAIN queries :
             /\ queries'[k].req = queries[row].req
             /\ queries'[k].start = computed'[queries[row].req]
             /\ PromptLen[queries[row].req] <= computed'[queries[row].req]
             /\ queries'[k].n = (IF drafter = "dspark" THEN DraftBlock ELSE 1)
      BY <2>1
    <3>2. PICK r \in Requests : r = queries[row].req
      BY Layout, <1>1 DEF QueriesOK
    <3>3. /\ queries[row].start + queries[row].n + NumSpec[drafter] + 1 <= Room(r)
          /\ queries[row].start \in Nat /\ queries[row].n \in Nat
          /\ computed'[r] <= queries[row].start + queries[row].n
      <4>1. TargetQuery(queries[row])
        BY <1>1 DEF QueriesOK, PhaseOK
      <4>2. computed'[r] <= queries[row].start + queries[row].n
        BY <1>1, <3>2, Outcome
      <4>3. QED
        BY <1>1, <3>2, <4>1, <4>2, Layout DEF TargetQuery, QueriesOK
    <3>4. computed'[r] + NumSpec[drafter] + 1 <= Room(r)
      <4>1. computed'[r] \in Nat /\ NumSpec[drafter] \in Nat /\ Room(r) \in Nat
        <5>1. Len(table[r]) \in Nat
          BY <1>1, <3>2 DEF TablesOK
        <5>2. Room(r) \in Nat
          <6> DEFINE l == Len(table[r])
          <6>1. l \in Nat /\ Room(r) = l * BlockSize /\ BlockSize \in Nat
            BY <5>1, Config DEF Room
          <6> HIDE DEF l
          <6>2. QED
            BY <6>1
        <5>3. NumSpec[drafter] \in Nat
          BY <1>1, Drafters DEF PhaseOK
        <5>4. QED
          BY <1>2, <5>2, <5>3
      <4> DEFINE e == queries[row].start + queries[row].n
      <4>2. e \in Nat /\ computed'[r] <= e /\ e + NumSpec[drafter] + 1 <= Room(r)
        BY <3>3
      <4> HIDE DEF e
      <4>3. QED
        BY <4>1, <4>2
    <3>5. /\ PromptLen[r] <= computed'[r] /\ r = queries'[k].req
          /\ queries'[k].start = computed'[r]
      BY <3>1, <3>2
    <3>6. Room(r)' = Room(r)
      BY <2>3
    <3>7. computed'[r] + NumSpec[drafter'] + 1 <= Room(r)'
      BY <2>1, <3>4, <3>6
    <3>8. queries'[k].start = computed'[r] + (IF drafter' = "mtp" THEN drafts' - 1 ELSE 0)
      <4>1. computed'[r] \in Nat
        BY <1>2
      <4>2. QED
        BY <2>1, <3>5, <4>1
    <3>9. queries'[k].n = (IF drafter' = "dspark" THEN DraftBlock ELSE 1)
      BY <2>1, <3>1
    <3>10. QED
      BY <3>5, <3>7, <3>8, <3>9 DEF DraftQuery
  <2>5. QueriesOK'
    BY <2>1, <2>4 DEF QueriesOK
  <2>6. RowsHeld'
    <3>1. \A r, p : Held(r, p)' <=> Held(r, p)
      BY <2>1, TablesKept
    <3> SUFFICES ASSUME NEW k \in DOMAIN queries', NEW p \in Nat,
                        computed'[queries'[k].req] - Window + 0 <= p, p < queries'[k].start
                 PROVE  Held(queries[k].req, p)'
      BY <2>1 DEF RowsHeld
    <3>2. PICK row \in DOMAIN queries :
             /\ queries'[k].req = queries[row].req
             /\ queries'[k].start = computed'[queries[row].req]
      BY <2>1
    <3>3. PICK r \in Requests : r = queries[row].req
      BY Layout, <1>1 DEF QueriesOK
    <3>4. computed'[r] - Window <= p /\ p < computed'[r]
      <4>1. computed'[r] - Window + 0 = computed'[r] - Window
        BY <1>2, Config
      <4>2. QED
        BY <3>2, <3>3, <4>1
    <3>5. Held(r, p)
      BY <1>1, <3>3, <3>4, SampleTables
    <3>6. r = queries'[k].req /\ Held(r, p)'
      BY <3>1, <3>2, <3>3, <3>5
    <3>7. QED
      BY <3>6
  <2>7. BuiltOK' /\ BuffersOK' /\ ReadsOK'
    BY <2>1, Resting
  <2>8. BuffersTyped'
    BY <1>1, <2>1, BuffersTypedKept
  <2>9. QED
    BY <1>2, <2>2, <2>5, <2>6, <2>7, <2>8 DEF Inv
<1>5. QED
  BY <1>3, <1>4

LEMMA EndDraftsOK ==
  ASSUME Inv, EndDrafts
  PROVE  Inv'
<1>1. PhaseOK /\ TablesOK /\ KeysHeld /\ BuffersTyped /\ EndStep /\ UNCHANGED computed
  BY DEF Inv, EndDrafts
<1>2. UNCHANGED <<computed, table, kv, epoch>>
  BY <1>1 DEF EndStep
<1>3. TablesOK' /\ KeysHeld'
  BY <1>1, <1>2, TableInvKept
<1>4. computed' \in [Requests -> Nat]
  BY <1>1 DEF PhaseOK
<1>5. QED
  BY <1>1, <1>3, <1>4, EndStepOK

\* The next MTP pass: its queries are those of the last one, a position on.
LEMMA UpdateQueries ==
  ASSUME Inv, UpdateDraft
  PROVE  /\ pc = "drafted" /\ drafter = "mtp" /\ pc' = "attend"
         /\ drafts \in Nat \ {0} /\ drafts' = drafts + 1 /\ drafts' <= NumSpec[drafter]
         /\ UNCHANGED <<drafter, path, computed, epoch, table, kv, meta, is_valid_token,
                        token_to_req, prefill_swa_indices, prefill_swa_lens, reads>>
         /\ queries' \in Seq(QuerySet) /\ Len(queries') = Len(queries) /\ Len(queries) \in Nat
         /\ DOMAIN queries' = DOMAIN queries /\ DOMAIN queries = 1 .. Len(queries)
         /\ \A row \in DOMAIN queries :
              /\ queries[row] \in QuerySet /\ DraftQuery(queries[row])
              /\ queries'[row].req = queries[row].req
              /\ queries'[row].start = queries[row].start + 1
              /\ queries'[row].n = queries[row].n /\ queries[row].n = 1
<1> DEFINE moved(row) == [queries[row] EXCEPT !.start = @ + 1]
<1>1. PhaseOK /\ QueriesOK
  BY DEF Inv
<1>2. /\ pc = "drafted" /\ drafter = "mtp" /\ drafts < NumSpec[drafter] /\ pc' = "attend"
      /\ queries' = [row \in DOMAIN queries |-> moved(row)]
      /\ drafts' = drafts + 1
      /\ UNCHANGED <<drafter, path, computed, epoch, table, kv, meta, is_valid_token,
                     token_to_req, prefill_swa_indices, prefill_swa_lens, left_visible,
                     right_visible, reads>>
  BY DEF UpdateDraft
<1>3. drafts \in Nat \ {0} /\ NumSpec[drafter] \in Nat
  BY <1>1, <1>2, Drafters DEF PhaseOK
<1>4. /\ queries \in Seq(QuerySet) /\ Len(queries) \in Nat /\ DOMAIN queries = 1 .. Len(queries)
      /\ \A row \in DOMAIN queries : queries[row] \in QuerySet /\ DraftQuery(queries[row])
  BY <1>1, <1>3, Layout DEF QueriesOK
<1>5. ASSUME NEW row \in DOMAIN queries
      PROVE  /\ moved(row) \in QuerySet
             /\ moved(row).req = queries[row].req
             /\ moved(row).start = queries[row].start + 1
             /\ moved(row).n = queries[row].n
  <2>1. PICK q \in QuerySet : q = queries[row]
    BY <1>4
  <2>2. moved(row) = [q EXCEPT !.start = @ + 1]
    BY <2>1
  <2>3. /\ [q EXCEPT !.start = @ + 1] \in QuerySet
        /\ [q EXCEPT !.start = @ + 1].req = q.req
        /\ [q EXCEPT !.start = @ + 1].start = q.start + 1
        /\ [q EXCEPT !.start = @ + 1].n = q.n
    BY DEF QuerySet
  <2>4. QED
    BY <2>1, <2>2, <2>3
<1> HIDE DEF moved
<1>6. /\ queries' \in Seq(QuerySet) /\ Len(queries') = Len(queries)
      /\ DOMAIN queries' = DOMAIN queries
  BY <1>2, <1>4, <1>5
<1>7. ASSUME NEW row \in DOMAIN queries
      PROVE  /\ queries'[row].req = queries[row].req
             /\ queries'[row].start = queries[row].start + 1
             /\ queries'[row].n = queries[row].n
  BY <1>2, <1>5
<1>8. \A row \in DOMAIN queries : queries[row].n = 1
  BY <1>2, <1>4 DEF DraftQuery
<1>9. drafts' <= NumSpec[drafter]
  BY <1>2, <1>3
<1>10. QED
  BY <1>2, <1>3, <1>4, <1>6, <1>7, <1>8, <1>9

\* Its tokens and its metadata are those of the last one; there are no prefills.
LEMMA UpdateBuilt ==
  ASSUME Inv, UpdateDraft
  PROVE  /\ BuiltOK' /\ Total(queries)' = Total(queries)
         /\ meta.num_prefill_tokens = 0 /\ meta.causal
         /\ meta.num_decode_tokens \in Nat \ {0} /\ meta.num_decode_tokens <= MaxTokens
<1>1. PhaseOK /\ QueriesOK /\ BuiltOK
  BY DEF Inv
<1>2. /\ pc = "drafted" /\ drafter = "mtp" /\ pc' = "attend" /\ drafts # 0 /\ drafts' # 0
      /\ drafter' = drafter /\ meta' = meta
      /\ is_valid_token' = is_valid_token /\ token_to_req' = token_to_req
      /\ queries \in Seq(QuerySet)
      /\ DOMAIN queries' = DOMAIN queries /\ Len(queries') = Len(queries)
      /\ \A row \in DOMAIN queries : queries'[row].n = queries[row].n
  BY <1>1, UpdateQueries DEF QueriesOK
<1>3. /\ Total(queries') = Total(queries) /\ NumDecodes(queries') = NumDecodes(queries)
      /\ \A row : QueryStartLoc(queries', row) = QueryStartLoc(queries, row)
      /\ \A i : RowOf(queries', i) = RowOf(queries, i)
  BY <1>2, SameLayout
<1>4. NumDecodes(queries)' = NumDecodes(queries)
  <2>1. NumDecodes(queries)' = NumDecodes(queries')
    BY <1>2 DEF NumDecodes, Threshold
  <2>2. QED
    BY <1>3, <2>1
<1>5. Passing
  BY <1>2 DEF Passing
<1>6. /\ meta.num_prefill_tokens = 0 /\ meta.num_decode_tokens \in Nat
      /\ PassTokens = meta.num_decode_tokens
  <2>1. ~(meta.num_prefill_tokens > 0) /\ meta.num_prefill_tokens \in Nat
    BY <1>1, <1>2, <1>5, PassLayout
  <2>2. meta.num_decode_tokens \in Nat
    BY <1>1, <1>5, PassLayout
  <2>3. QED
    BY <2>1, <2>2 DEF PassTokens
<1>7. meta.causal
  BY <1>1, <1>2 DEF BuiltOK
<1>8. Total(queries) \in Nat \ {0} /\ Total(queries) <= PassTokens /\ PassTokens <= MaxTokens
  <2>1. Total(queries) <= PassTokens /\ PassTokens <= MaxTokens
    BY <1>1, <1>5 DEF BuiltOK, Passing
  <2>2. Len(queries) \in Nat \ {0}
    BY <1>1, <1>2 DEF PhaseOK
  <2>3. /\ QueryStartLoc(queries, 1) = 0 /\ Total(queries) = QueryStartLoc(queries, Len(queries) + 1)
        /\ QueryStartLoc(queries, 1 + 1) = QueryStartLoc(queries, 1) + queries[1].n
        /\ queries[1].n \in Nat \ {0}
        /\ QueryStartLoc(queries, 2) <= QueryStartLoc(queries, Len(queries) + 1)
        /\ Total(queries) \in Nat
    <3>1. 1 \in 1 .. Len(queries) /\ 2 \in 1 .. Len(queries) + 1
          /\ Len(queries) + 1 \in 2 .. Len(queries) + 1
      BY <2>2
    <3>2. QED
      BY <1>2, <3>1, Layout
  <2>4. 1 + 1 = 2
    OBVIOUS
  <2>5. Total(queries) # 0
    BY <2>3, <2>4
  <2>6. QED
    BY <2>1, <2>3, <2>5
<1>9. PassTokens' = PassTokens /\ Total(queries)' = Total(queries)
  BY <1>2, <1>3 DEF PassTokens
<1>10. \A i \in 1 .. Total(queries)' : token_to_req'[i] = RowOf(queries, i)'
  <2>1. \A i : RowOf(queries, i)' = RowOf(queries, i)
    BY <1>3
  <2>2. \A i \in 1 .. Total(queries) : token_to_req[i] = RowOf(queries, i)
    BY <1>1, <1>5 DEF BuiltOK, Passing
  <2>3. QED
    BY <1>2, <1>9, <2>1, <2>2
<1>11. \A i \in 1 .. PassTokens' : is_valid_token'[i] = (i <= Total(queries)')
  <2>1. \A i \in 1 .. PassTokens : is_valid_token[i] = (i <= Total(queries))
    BY <1>1, <1>5 DEF BuiltOK, Passing
  <2>2. QED
    BY Zenon, <1>2, <1>9, <2>1
<1>12. meta'.causal = (drafts' = 0 \/ drafter' # "dspark")
  <2>1. meta.causal = (drafts = 0 \/ drafter # "dspark")
    BY <1>1, <1>5 DEF BuiltOK, Passing
  <2>2. QED
    BY <1>2, <2>1
<1>13. QueryStartLoc(queries, NumDecodes(queries) + 1)' = QueryStartLoc(queries, NumDecodes(queries) + 1)
  BY <1>3, <1>4
<1>14. /\ meta'.num_decodes = NumDecodes(queries)'
       /\ meta'.num_decode_tokens \in Nat
       /\ meta'.num_prefill_tokens = Total(queries)' - QueryStartLoc(queries, NumDecodes(queries) + 1)'
       /\ meta'.num_decodes < Len(queries)' =>
            meta'.num_decode_tokens = QueryStartLoc(queries, NumDecodes(queries) + 1)'
       /\ Total(queries)' <= PassTokens' /\ PassTokens' <= MaxTokens
  <2>1. /\ meta.num_decodes = NumDecodes(queries)
        /\ meta.num_decode_tokens \in Nat
        /\ meta.num_prefill_tokens = Total(queries) - QueryStartLoc(queries, NumDecodes(queries) + 1)
        /\ meta.num_decodes < Len(queries) =>
             meta.num_decode_tokens = QueryStartLoc(queries, NumDecodes(queries) + 1)
        /\ Total(queries) <= PassTokens /\ PassTokens <= MaxTokens
    BY <1>1, <1>5 DEF BuiltOK, Passing
  <2>2. QED
    BY <1>2, <1>4, <1>9, <1>13, <2>1
<1>15. meta'.num_decode_tokens + 1 .. PassTokens' = {}
  BY <1>2, <1>6, <1>9
<1>16. BuiltOK'
  BY <1>10, <1>11, <1>12, <1>14, <1>15 DEF BuiltOK
<1>17. meta.num_decode_tokens # 0
  BY <1>6, <1>8
<1>18. QED
  BY <1>6, <1>7, <1>8, <1>9, <1>16, <1>17

LEMMA UpdateRows ==
  ASSUME Inv, UpdateDraft, PhaseOK', TablesOK', QueriesOK'
  PROVE  BuffersOK' /\ BuffersTyped'
<1>1. /\ pc' = "attend" /\ meta' = meta /\ table' = table
      /\ is_valid_token' = is_valid_token /\ token_to_req' = token_to_req
      /\ prefill_swa_indices' = prefill_swa_indices /\ prefill_swa_lens' = prefill_swa_lens
  BY UpdateQueries
<1>2. /\ BuiltOK' /\ meta.num_prefill_tokens = 0 /\ meta.causal
      /\ meta.num_decode_tokens \in Nat \ {0} /\ meta.num_decode_tokens <= MaxTokens
  BY UpdateBuilt
<1>3. PICK D : D = meta.num_decode_tokens
  OBVIOUS
<1>4. D \in Nat \ {0} /\ D <= MaxTokens /\ MaxTokens \in Nat /\ D = meta'.num_decode_tokens
      /\ PassTokens' = D
  BY <1>1, <1>2, <1>3, Config DEF PassTokens
<1> DEFINE row(i) == CausalRow(queries', i, is_valid_token, token_to_req, 0, 0, Window)
           rows == [i \in 1 .. D |-> row(i)]
<1>5. /\ decode_swa_indices' = [i \in Tokens |->
            IF i <= D THEN rows[i][1] ELSE decode_swa_indices[i]]
      /\ decode_swa_lens' = [i \in Tokens |->
            IF i <= D THEN rows[i][2] ELSE decode_swa_lens[i]]
      /\ cache' = None
  <2> DEFINE next == [k \in DOMAIN queries |-> [queries[k] EXCEPT !.start = @ + 1]]
             nrows == [i \in 1 .. meta.num_decode_tokens |->
                         CausalRow(next, i, is_valid_token, token_to_req, 0, 0, Window)]
  <2>1. /\ queries' = next
        /\ decode_swa_indices' = [i \in Tokens |->
             IF i <= meta.num_decode_tokens THEN nrows[i][1] ELSE decode_swa_indices[i]]
        /\ decode_swa_lens' = [i \in Tokens |->
             IF i <= meta.num_decode_tokens THEN nrows[i][2] ELSE decode_swa_lens[i]]
        /\ cache' = IF meta.num_decode_tokens = 0 THEN cache ELSE None
    BY Zenon DEF UpdateDraft
  <2> HIDE DEF next
  <2>2. nrows = rows
    BY <1>3, <2>1
  <2> HIDE DEF nrows, rows
  <2>3. QED
    BY <1>3, <1>4, <2>1, <2>2
<1>6. ASSUME NEW i \in 1 .. D
      PROVE  RowFor(i)' = row(i) /\ <<row(i)[1], row(i)[2]>> = row(i)
  <2>1. ~(i > meta'.num_decode_tokens) /\ meta'.causal
    BY <1>1, <1>2, <1>4
  <2>2. RowFor(i)' = row(i)
    BY <1>1, <2>1, RowsKept DEF NextRowFor
  <2>3. <<row(i)[1], row(i)[2]>> = row(i)
    BY Pairs
  <2>4. QED
    BY <2>2, <2>3
<1> HIDE DEF row
<1>7. ASSUME NEW i \in 1 .. D
      PROVE  /\ i \in Tokens /\ decode_swa_indices'[i] = row(i)[1] /\ decode_swa_lens'[i] = row(i)[2]
  <2>1. i \in Tokens /\ i <= D
    BY <1>4 DEF Tokens
  <2>2. rows[i] = row(i)
    OBVIOUS
  <2> HIDE DEF rows
  <2>3. QED
    BY <1>5, <2>1, <2>2
<1>8. BuffersOK'
  <2>1. \A i \in 1 .. meta'.num_decode_tokens :
          <<decode_swa_indices'[i], decode_swa_lens'[i]>> = RowFor(i)'
    BY <1>4, <1>6, <1>7
  <2>2. 1 .. meta'.num_prefill_tokens = {}
    BY <1>1, <1>2
  <2>3. QED
    BY <1>5, <2>1, <2>2 DEF BuffersOK
<1>9. \A i \in 1 .. D :
        /\ ToSet((RowFor(i)')[1]) \subseteq Cells
        /\ (RowFor(i)')[2] \in Int /\ (RowFor(i)')[2] <= Len((RowFor(i)')[1])
        /\ Len((RowFor(i)')[1]) \in Nat
  <2>1. Passing'
    BY <1>1 DEF Passing
  <2>2. (\A i \in 1 .. PassTokens :
           /\ ToSet(RowFor(i)[1]) \subseteq Cells
           /\ RowFor(i)[2] \in Int /\ RowFor(i)[2] <= Len(RowFor(i)[1]) /\ Len(RowFor(i)[1]) \in Nat
           /\ i > meta.num_decode_tokens => Len(RowFor(i)[1]) = PrefillWidth)'
    BY <1>2, <2>1, PassTyped, PTL
  <2>3. QED
    BY <1>4, <2>2
<1>10. BuffersTyped'
  <2> SUFFICES ASSUME NEW i \in Tokens
               PROVE  /\ ToSet(decode_swa_indices'[i]) \subseteq Cells
                      /\ Len(decode_swa_indices'[i]) \in Nat
                      /\ decode_swa_lens'[i] <= GreaterOf(Window, Len(decode_swa_indices'[i]))
    BY <1>1 DEF Inv, BuffersTyped, Cells
  <2>1. CASE i <= D
    <3>1. i \in 1 .. D
      BY <1>4, <2>1 DEF Tokens
    <3>2. /\ decode_swa_indices'[i] = (RowFor(i)')[1] /\ decode_swa_lens'[i] = (RowFor(i)')[2]
      BY <1>6, <1>7, <3>1
    <3> DEFINE l == Len(decode_swa_indices'[i])
    <3>3. /\ ToSet(decode_swa_indices'[i]) \subseteq Cells
          /\ decode_swa_lens'[i] <= l /\ l \in Nat /\ decode_swa_lens'[i] \in Int
      BY <1>9, <3>1, <3>2
    <3> HIDE DEF l
    <3>4. decode_swa_lens'[i] <= GreaterOf(Window, l)
      BY <3>3, Config DEF GreaterOf
    <3>5. QED
      BY <3>3, <3>4 DEF l
  <2>2. CASE ~(i <= D)
    <3>1. decode_swa_indices'[i] = decode_swa_indices[i] /\ decode_swa_lens'[i] = decode_swa_lens[i]
      BY <1>5, <2>2
    <3>2. QED
      BY <3>1 DEF Inv, BuffersTyped, Cells
  <2>3. QED
    BY <2>1, <2>2
<1>11. QED
  BY <1>8, <1>10

LEMMA UpdateDraftOK ==
  ASSUME Inv, UpdateDraft
  PROVE  Inv'
<1>1. PhaseOK /\ TablesOK /\ KeysHeld /\ QueriesOK /\ RowsHeld
  BY DEF Inv
<1>2. /\ pc = "drafted" /\ drafter = "mtp" /\ pc' = "attend"
      /\ drafts \in Nat \ {0} /\ drafts' = drafts + 1 /\ drafts' <= NumSpec[drafter]
      /\ UNCHANGED <<drafter, path, computed, epoch, table, kv>>
      /\ queries' \in Seq(QuerySet) /\ Len(queries') = Len(queries) /\ Len(queries) \in Nat
      /\ DOMAIN queries' = DOMAIN queries /\ DOMAIN queries = 1 .. Len(queries)
      /\ \A row \in DOMAIN queries :
           /\ queries[row] \in QuerySet /\ DraftQuery(queries[row])
           /\ queries'[row].req = queries[row].req
           /\ queries'[row].start = queries[row].start + 1
           /\ queries'[row].n = queries[row].n /\ queries[row].n = 1
  BY UpdateQueries
<1>3. Total(queries)' = Total(queries) /\ BuiltOK'
  BY UpdateBuilt
<1>4. PhaseOK'
  <2>1. queries' # <<>>
    <3>1. queries # <<>> /\ queries \in Seq(QuerySet)
      BY <1>1, <1>2 DEF PhaseOK, QueriesOK
    <3>2. Len(queries) # 0
      BY <3>1
    <3>3. QED
      BY <1>2, <3>2
  <2>2. drafts' <= GreaterOf(1, NumSpec[drafter])
    BY <1>1, <1>2, Drafters DEF PhaseOK, GreaterOf
  <2>3. drafts' \in Nat /\ drafts' # 0
    BY <1>2
  <2>4. QED
    BY <1>1, <1>2, <2>1, <2>2, <2>3 DEF PhaseOK
<1>5. TablesOK' /\ KeysHeld'
  BY <1>1, <1>2, TableInvKept
<1>6. QueriesOK'
  <2>1. ASSUME NEW k \in DOMAIN queries' PROVE DraftQuery(queries[k])'
    <3>1. PICK r : r = queries[k].req
      OBVIOUS
    <3>2. r = queries'[k].req /\ r \in Requests
      BY <1>2, <2>1, <3>1 DEF QuerySet
    <3>3. /\ PromptLen[r] <= computed[r]
          /\ computed[r] + NumSpec[drafter] + 1 <= Room(r)
          /\ queries[k].start = computed[r] + (drafts - 1)
          /\ computed[r] \in Nat
      BY <1>1, <1>2, <2>1, <3>1, <3>2 DEF DraftQuery, PhaseOK
    <3>4. Room(r)' = Room(r)
      BY <1>2 DEF Room
    <3>5. queries'[k].start = computed[r] + (drafts' - 1) /\ queries'[k].n = 1
      <4>1. k \in DOMAIN queries
        BY <1>2, <2>1
      <4>2. queries'[k].start = queries[k].start + 1 /\ queries'[k].n = 1
        BY <1>2, <4>1
      <4>3. drafts \in Nat /\ drafts' = drafts + 1
        BY <1>1, <1>2 DEF PhaseOK
      <4>4. QED
        BY <3>3, <4>2, <4>3
    <3>6. QED
      BY <1>2, <3>2, <3>3, <3>4, <3>5 DEF DraftQuery
  <2>2. \A i, j \in DOMAIN queries' : queries'[i].req = queries'[j].req => i = j
    BY <1>1, <1>2 DEF QueriesOK
  <2>3. Total(queries)' <= MaxTokens
    BY <1>1, <1>3 DEF QueriesOK
  <2>4. drafts' # 0
    BY <1>2
  <2>5. QED
    BY <1>2, <2>1, <2>2, <2>3, <2>4 DEF QueriesOK
<1>7. RowsHeld'
  <2>1. \A r, p : Held(r, p)' <=> Held(r, p)
    BY <1>2, TablesKept
  <2>2. drafts' # 0 /\ drafts # 0
    BY <1>2
  <2> SUFFICES ASSUME NEW k \in DOMAIN queries', NEW p \in Nat,
                      computed'[queries'[k].req] - Window + 0 <= p, p < queries'[k].start
               PROVE  Held(queries[k].req, p)'
    BY <1>2, <2>2 DEF RowsHeld
  <2>3. PICK r : r = queries[k].req
    OBVIOUS
  <2>4. r = queries'[k].req
    BY <1>2, <2>3
  <2>5. computed[r] - Window + (IF drafts = 0 THEN 1 ELSE 0) <= p /\ p < queries[k].start + queries[k].n
    BY <1>2, <2>2, <2>4
  <2>6. k \in DOMAIN queries /\ pc = "drafted"
    BY <1>2
  <2>7. Held(r, p)
    BY <1>1, <2>3, <2>5, <2>6 DEF RowsHeld
  <2>8. QED
    BY <2>1, <2>4, <2>7
<1>8. BuffersOK' /\ BuffersTyped'
  BY <1>4, <1>5, <1>6, UpdateRows
<1>9. ReadsOK'
  BY <1>2 DEF ReadsOK
<1>10. QED
  BY <1>3, <1>4, <1>5, <1>6, <1>7, <1>8, <1>9 DEF Inv

\* A step that changes nothing.
LEMMA StutterOK ==
  ASSUME Inv, UNCHANGED vars
  PROVE  Inv'
<1>1. /\ UNCHANGED <<drafter, path, pc, computed, epoch, table, kv, queries, meta, cache, reads, drafts>>
      /\ UNCHANGED buffers
  BY DEF vars
<1>2. /\ PhaseOK /\ TablesOK /\ KeysHeld /\ QueriesOK /\ RowsHeld /\ BuiltOK /\ BuffersOK
      /\ ReadsOK /\ BuffersTyped
  BY DEF Inv
<1>3. PhaseOK'
  BY <1>1, <1>2 DEF PhaseOK
<1>4. TablesOK' /\ KeysHeld'
  BY <1>1, <1>2, TableInvKept
<1>5. QueriesOK'
  BY <1>1, <1>2, QueriesKept
<1>6. RowsHeld'
  <2>1. \A r, p : Held(r, p)' <=> Held(r, p)
    BY <1>1, TablesKept
  <2>2. QED
    BY <1>1, <1>2, <2>1 DEF RowsHeld
<1>7. BuiltOK'
  <2>1. CASE Passing
    BY <1>1, <1>2, <2>1, BuiltKept
  <2>2. CASE ~Passing
    BY <1>1, <2>2 DEF BuiltOK, Passing
  <2>3. QED
    BY <2>1, <2>2
<1>8. BuffersOK'
  <2>1. \A i : Left(i)' = Left(i) /\ Right(i)' = Right(i)
    BY <1>1 DEF Left, Right, buffers
  <2>2. \A i : RowFor(i)' = RowFor(i)
    BY <1>1, <2>1, RowsKept DEF RowFor, NextRowFor, buffers
  <2>3. QED
    BY <1>1, <1>2, <2>2 DEF BuffersOK, buffers
<1>9. ReadsOK'
  <2>1. \A i : SeesItsWindow(i)' <=> SeesItsWindow(i)
    BY <1>1 DEF SeesItsWindow, QueryOf, Position, FirstSeen, LastSeen, Containing
  <2>2. \A i : Seeing(i)' <=> Seeing(i)
    BY <1>1 DEF Seeing, Containing, QueryOf, Position
  <2>3. Total(queries)' = Total(queries)
    BY <1>1
  <2>4. QED
    BY <1>1, <1>2, <2>1, <2>2, <2>3 DEF ReadsOK
<1>10. BuffersTyped'
  BY <1>1, <1>2, BuffersTypedKept
<1>11. QED
  BY <1>3, <1>4, <1>5, <1>6, <1>7, <1>8, <1>9, <1>10 DEF Inv

LEMMA NextInv ==
  ASSUME Inv, [Next]_vars
  PROVE  Inv'
<1>1. CASE \E r \in Requests : Preempt(r)
  BY <1>1, PreemptOK
<1>2. CASE \E r \in Requests, n \in Tokens : Schedule(r, n)
  BY <1>2, ScheduleOK
<1>3. CASE \E pad \in {0, 1} : BuildStep(pad) \/ BuildDraft(pad)
  BY <1>3, BuildStepOK
<1>4. CASE Attend
  BY <1>4, AttendOK
<1>5. CASE \E accepted \in 0 .. NumSpec[drafter] : Sample(accepted)
  BY <1>5, SampleOK
<1>6. CASE UpdateDraft
  BY <1>6, UpdateDraftOK
<1>7. CASE EndDrafts
  BY <1>7, EndDraftsOK
<1>8. CASE UNCHANGED vars
  BY <1>8, StutterOK
<1>9. QED
  BY <1>1, <1>2, <1>3, <1>4, <1>5, <1>6, <1>7, <1>8 DEF Next

\* In every state the tables, the cache, the queries, the metadata, the buffers and what
\* the tokens read are as the invariant says.
THEOREM SpecInv == Spec => []Inv
<1>1. Inv /\ [Next]_vars => Inv'
  BY NextInv
<1>2. QED
  BY <1>1, InitInv, PTL DEF Spec

-----------------------------------------------------------------------------
(* What the invariant says of the properties.                               *)

\* Types: what the runner does next is one of its steps, tables name blocks, rows name
\* slots of the cache and are no longer than their buffers are wide, in every pass of
\* DeepseekSparseSWAMetadataBuilder.build.
THEOREM TypeCorrect == Spec => []TypeOK
<1>1. Inv => TypeOK
  BY TypeIs DEF Inv
<1>2. QED
  BY <1>1, SpecInv, PTL

\* Every image is longer than a query that split_decodes_and_prefills takes for a decode.
ImagesAreLong ==
  \A d \in Deployments, r \in Requests : \A k \in DOMAIN Spans[r] :
    Spans[r][k][2] - Spans[r][k][1] + 1 > Threshold(d[1])

\* A decode's token is then in no image: an image is computed whole, and a query that
\* holds one is no decode.
LEMMA DecodesSeeNoImage ==
  ASSUME ImagesAreLong, PhaseOK, TablesOK, QueriesOK, BuiltOK, Passing, drafts = 0,
         NEW i \in 1 .. Total(queries), i <= meta.num_decode_tokens
  PROVE  Containing(QueryOf(i), Position(i)) = {}
<1>1. queries \in Seq(QuerySet) /\ drafter \in {"none", "mtp", "dspark"}
      /\ <<drafter, path>> \in Deployments
  BY DEF QueriesOK, PhaseOK
<1> DEFINE n == Len(queries)
           nd == meta.num_decodes
<1>2. /\ n \in Nat /\ DOMAIN queries = 1 .. n
      /\ \A k \in 1 .. n + 1 : QueryStartLoc(queries, k) \in Nat
      /\ \A k \in 1 .. n + 1 : \A j \in k .. n + 1 :
           QueryStartLoc(queries, k) <= QueryStartLoc(queries, j)
  BY <1>1, Layout
<1>3. PICK row : row = RowOf(queries, i)
  OBVIOUS
<1>4. row \in 1 .. n /\ QueryStartLoc(queries, row) < i
  BY <1>1, <1>3, TokenRow
<1>5. /\ nd \in 0 .. n /\ nd = NumDecodes(queries)
      /\ nd < n => meta.num_decode_tokens = QueryStartLoc(queries, nd + 1)
  BY PassLayout
<1> HIDE DEF n, nd
<1>6. row <= nd
  <2> SUFFICES ASSUME nd < row PROVE FALSE
    BY <1>2, <1>4, <1>5
  <2>1. nd < n /\ nd + 1 \in 1 .. n + 1 /\ row \in nd + 1 .. n + 1
    BY <1>2, <1>4, <1>5
  <2>2. row \in 1 .. n + 1 /\ QueryStartLoc(queries, row) \in Nat
    BY <1>2, <1>4
  <2>3. QueryStartLoc(queries, nd + 1) <= QueryStartLoc(queries, row)
        /\ QueryStartLoc(queries, nd + 1) \in Nat
    BY <1>2, <2>1
  <2>4. i <= QueryStartLoc(queries, nd + 1)
    BY <1>5, <2>1
  <2>5. i \in Int
    OBVIOUS
  <2>6. QED
    BY <1>4, <2>2, <2>3, <2>4, <2>5
<1>7. PICK q : q = queries[row]
  OBVIOUS
<1>8. q.n <= Threshold(drafter)
  <2>1. row \in 1 .. NumDecodes(queries)
    BY <1>4, <1>5, <1>6
  <2>2. QED
    BY <1>1, <1>7, <2>1, Decodes
<1>9. QueryOf(i) = q
  BY <1>3, <1>7 DEF QueryOf
<1>10. PICK pos : pos = Position(i)
  OBVIOUS
<1>11. pos \in Nat /\ q.start <= pos /\ pos < q.start + q.n
  BY <1>3, <1>7, <1>1, <1>10, TokenPos DEF Position
<1>12. /\ q.req \in Requests /\ q.start \in Nat /\ q.n \in Nat \ {0}
       /\ \A k \in DOMAIN Spans[q.req] : \A p \in q.start .. q.start + q.n - 1 :
            Spans[q.req][k][1] <= p /\ p <= Spans[q.req][k][2] =>
              q.start <= Spans[q.req][k][1] /\ Spans[q.req][k][2] < q.start + q.n
  BY <1>2, <1>4, <1>7, QueryFits DEF n
<1>13. pos \in q.start .. q.start + q.n - 1
  BY <1>11, <1>12
<1>14. ASSUME NEW k \in DOMAIN Spans[q.req],
              Spans[q.req][k][1] <= pos, pos <= Spans[q.req][k][2]
       PROVE  FALSE
  <2>1. Spans[q.req][k][1] \in Nat /\ Spans[q.req][k][2] \in Nat
    BY <1>12, SpansAre
  <2>2. q.start <= Spans[q.req][k][1] /\ Spans[q.req][k][2] < q.start + q.n
    BY <1>12, <1>13, <1>14
  <2>3. Spans[q.req][k][2] - Spans[q.req][k][1] + 1 > Threshold(drafter)
    BY <1>1, <1>12 DEF ImagesAreLong
  <2>4. Threshold(drafter) \in Nat
    BY <1>1, Drafters
  <2>5. QED
    BY <1>8, <1>12, <2>1, <2>2, <2>3, <2>4
<1>15. Containing(q, pos) = {}
  BY <1>14 DEF Containing, ToSet
<1>16. QED
  BY <1>9, <1>10, <1>15

\* Where images are longer than a decode's query, decode tokens are past the images, as
\* build's comment says and its decode rows, which see no image, need.
THEOREM LongImagesArePrefills ==
  ASSUME ImagesAreLong
  PROVE  Spec => []DecodesPastImages
<1>1. Inv => DecodesPastImages
  <2> SUFFICES ASSUME Inv, pc = "attend", drafts = 0,
                      NEW i \in 1 .. Total(queries), i <= meta.num_decode_tokens
               PROVE  Containing(QueryOf(i), Position(i)) = {}
    BY DEF DecodesPastImages
  <2>1. PhaseOK /\ TablesOK /\ QueriesOK /\ BuiltOK /\ Passing
    BY DEF Inv, Passing
  <2>2. QED
    BY <2>1, DecodesSeeNoImage
<1>2. QED
  BY <1>1, SpecInv, PTL

\* In the target's pass every query reads exactly the keys of its window, in order and of
\* its request's present life: through block tables whose blocks go from request to
\* request, padded and chunked batches, and rows kept from the first layer to the last.
THEOREM TargetReadsItsWindow ==
  ASSUME ImagesAreLong
  PROVE  Spec => []WindowExact
<1>1. Inv => WindowExact
  <2> SUFFICES ASSUME Inv, pc = "sample", NEW i \in 1 .. Total(queries)
               PROVE  SeesItsWindow(i)
    BY DEF WindowExact
  <2>1. PhaseOK /\ TablesOK /\ QueriesOK /\ BuiltOK /\ ReadsOK /\ Passing
    BY DEF Inv, Passing
  <2>2. drafts = 0
    BY <2>1 DEF PhaseOK
  <2>3. Seeing(i)
    <3>1. CASE i <= meta.num_decode_tokens
      BY <2>1, <2>2, <3>1, DecodesSeeNoImage DEF Seeing
    <3>2. CASE ~(i <= meta.num_decode_tokens)
      <4>1. meta.num_decode_tokens \in Nat /\ i \in Int
        BY <2>1, PassLayout
      <4>2. i > meta.num_decode_tokens
        BY <3>2, <4>1
      <4>3. QED
        BY <4>2 DEF Seeing
    <3>3. QED
      BY <3>1, <3>2
  <2>4. QED
    BY <2>1, <2>3 DEF ReadsOK
<1>2. QED
  BY <1>1, SpecInv, PTL

\* So does every query of every draft pass, whose rows update_draft_decode_metadata has
\* recomputed in place, or which is a block of DSpark: no hypothesis is needed, since
\* drafts lie past the prompt and its images.
THEOREM DraftsReadTheirWindow == Spec => []DraftWindowExact
<1>1. Inv => DraftWindowExact
  <2> SUFFICES ASSUME Inv, pc = "drafted", NEW i \in 1 .. Total(queries)
               PROVE  SeesItsWindow(i)
    BY DEF DraftWindowExact
  <2>1. PhaseOK /\ TablesOK /\ QueriesOK /\ ReadsOK
    BY DEF Inv
  <2>2. drafts # 0 /\ queries \in Seq(QuerySet)
    BY <2>1 DEF PhaseOK, QueriesOK
  <2>3. PICK row : row = RowOf(queries, i)
    OBVIOUS
  <2>4. row \in 1 .. Len(queries) /\ Len(queries) \in Nat
    BY <2>2, <2>3, TokenRow
  <2>5. PICK q : q = queries[row]
    OBVIOUS
  <2>6. PICK pos : pos = Position(i)
    OBVIOUS
  <2>7. pos \in Nat /\ q.start <= pos /\ pos < q.start + q.n
    BY <2>2, <2>3, <2>5, <2>6, TokenPos DEF Position
  <2>8. /\ q.start \in Nat /\ q.n \in Nat \ {0}
        /\ \A k \in DOMAIN Spans[q.req] : \A p \in q.start .. q.start + q.n - 1 :
             ~(Spans[q.req][k][1] <= p /\ p <= Spans[q.req][k][2])
    <3>1. row \in DOMAIN queries
      BY <2>2, <2>4
    <3>2. QED
      BY <2>1, <2>2, <2>5, <3>1, QueryFits
  <2>9. pos \in q.start .. q.start + q.n - 1
    BY <2>7, <2>8
  <2>10. Containing(q, pos) = {}
    BY <2>8, <2>9 DEF Containing, ToSet
  <2>11. QueryOf(i) = q
    BY <2>3, <2>5 DEF QueryOf
  <2>12. Seeing(i)
    BY <2>6, <2>10, <2>11 DEF Seeing
  <2>13. QED
    BY <2>1, <2>12 DEF ReadsOK
<1>2. QED
  BY <1>1, SpecInv, PTL

\* A padded token of a captured graph reads nothing: the kernels clear its row, whatever
\* request the old entry of the map names.
THEOREM PaddingIsIdle == Spec => []PaddingReadsNothing
<1>1. Inv => PaddingReadsNothing
  BY DEF Inv, ReadsOK, PaddingReadsNothing
<1>2. QED
  BY <1>1, SpecInv, PTL

\* What a prefill's tokens see is gathered: its own tokens, the window before them, and of
\* an image all, because the scheduler lets no chunk end inside one.
THEOREM GatherIsEnough == Spec => []GatherCovers
<1>1. Inv => GatherCovers
  <2> SUFFICES ASSUME Inv, pc = "attend", drafts = 0,
                      NEW row \in meta.num_decodes + 1 .. Len(queries),
                      NEW pos \in queries[row].start .. queries[row].start + queries[row].n - 1
               PROVE  FirstSeen(queries[row], pos) >=
                        queries[row].start + queries[row].n
                          - GatherLen(queries[row].start + queries[row].n, queries[row].n, Window)
    BY DEF GatherCovers
  <2>1. PhaseOK /\ TablesOK /\ QueriesOK /\ BuiltOK /\ Passing
    BY DEF Inv, Passing
  <2>2. row \in DOMAIN queries
    <3>1. meta.num_decodes \in 0 .. Len(queries)
      BY <2>1, PassLayout
    <3>2. queries \in Seq(QuerySet) /\ Len(queries) \in Nat /\ DOMAIN queries = 1 .. Len(queries)
      BY <2>1, Layout DEF QueriesOK
    <3>3. QED
      BY <3>1, <3>2
  <2>3. PICK q : q = queries[row]
    OBVIOUS
  <2>4. /\ q.req \in Requests /\ q.start \in Nat /\ q.n \in Nat \ {0}
        /\ \A k \in DOMAIN Spans[q.req] : \A p \in q.start .. q.start + q.n - 1 :
             Spans[q.req][k][1] <= p /\ p <= Spans[q.req][k][2] =>
               q.start <= Spans[q.req][k][1] /\ Spans[q.req][k][2] < q.start + q.n
    BY <2>1, <2>2, <2>3, QueryFits
  <2>5. pos \in q.start .. q.start + q.n - 1 /\ pos \in Nat /\ q.start <= pos
    BY <2>3, <2>4
  <2>6. meta.causal
    BY <2>1 DEF BuiltOK, Passing
  <2>7. PICK first : first = FirstSeen(q, pos)
    OBVIOUS
  <2>8. /\ first \in Nat
        /\ \/ first = GreaterOf(pos - Window + 1, 0)
           \/ \E k \in DOMAIN Spans[q.req] :
                /\ Spans[q.req][k][1] <= pos /\ pos <= Spans[q.req][k][2]
                /\ first >= pos - Window + 1 \/ first >= Spans[q.req][k][1]
    BY <2>4, <2>5, <2>6, <2>7, WindowIs
  <2>9. first >= pos - Window + 1 \/ first >= q.start
    <3>1. CASE first = GreaterOf(pos - Window + 1, 0)
      BY <2>5, <3>1, Config DEF GreaterOf
    <3>2. ASSUME NEW k \in DOMAIN Spans[q.req],
                 Spans[q.req][k][1] <= pos, pos <= Spans[q.req][k][2],
                 first >= pos - Window + 1 \/ first >= Spans[q.req][k][1]
          PROVE  first >= pos - Window + 1 \/ first >= q.start
      <4>1. q.start <= Spans[q.req][k][1] /\ Spans[q.req][k][1] \in Nat
        BY <2>4, <2>5, <3>2, SpansAre
      <4>2. QED
        BY <2>4, <2>8, <3>2, <4>1
    <3>3. QED
      BY <2>8, <3>1, <3>2
  <2>10. q.start + q.n - GatherLen(q.start + q.n, q.n, Window)
           = q.start - LesserOf(q.start, Window - 1)
    BY SMTT(30), <2>4, Config DEF GatherLen, LesserOf
  <2>11. first >= q.start - LesserOf(q.start, Window - 1)
    BY <2>4, <2>5, <2>8, <2>9, Config DEF LesserOf
  <2>12. QED
    BY <2>3, <2>7, <2>10, <2>11
<1>2. QED
  BY <1>1, SpecInv, PTL

-----------------------------------------------------------------------------
(* The chunks of a prefill plan.                                            *)

\* A prefill the model and a step can have.
PrefillSet == {r \in [seq : Nat, query : Nat] :
                 r.query <= r.seq /\ r.seq <= PlanModelLen /\ r.query <= PlanBatched}
ChunkSet == [first : Nat, last : Nat, compressed : Nat, gather : Nat]

Joined(rs, ratio, chunk, i) ==
  LET c == GreaterOf(chunk.compressed, CompressedLen(rs[i].seq, ratio))
      g == GreaterOf(chunk.gather, GatherLenCpu(rs[i].seq, rs[i].query, PlanWindow))
  IN  [chunk EXCEPT !.last = i, !.compressed = c, !.gather = g]
Opened(rs, ratio, i) == Joined(rs, ratio, [first |-> i, last |-> i, compressed |-> 0, gather |-> 0], i)
Area(chunk) == (chunk.last - chunk.first + 1) * (chunk.compressed + chunk.gather)
Turn(rs, chunk_size, ratio, chunks, i) ==
  IF chunks # <<>> /\ Area(Joined(rs, ratio, Last(chunks), i)) <= MaxArea(chunk_size, ratio)
  THEN Append(Front(chunks), Joined(rs, ratio, Last(chunks), i))
  ELSE Append(chunks, Opened(rs, ratio, i))

\* f is the plan of every number of requests, up to n.
Plans(rs, chunk_size, ratio, n, f) ==
  f = [i \in 0 .. n |-> IF i = 0 THEN <<>> ELSE Turn(rs, chunk_size, ratio, f[i - 1], i)]

LEMMA PlanIs ==
  ASSUME NEW rs, NEW chunk_size, NEW ratio
  PROVE  Plan(rs, chunk_size, ratio)
           = (CHOOSE f : Plans(rs, chunk_size, ratio, Len(rs), f))[Len(rs)]
BY Zenon DEF Plan, Plans, Turn, Opened, Joined, Area

LEMMA PlansExist ==
  ASSUME NEW rs, NEW chunk_size, NEW ratio, NEW n \in Nat
  PROVE  \E f : Plans(rs, chunk_size, ratio, n, f)
<1> DEFINE T == {m \in Nat : \E f : Plans(rs, chunk_size, ratio, m, f)}
           Grown(k, s) == IF k = 0 THEN <<>> ELSE Turn(rs, chunk_size, ratio, s, k)
<1>1. 0 \in T
  <2> DEFINE f == [k \in 0 .. 0 |-> <<>>]
  <2>1. \A k \in 0 .. 0 : k = 0
    OBVIOUS
  <2>2. f = [k \in 0 .. 0 |-> IF k = 0 THEN <<>> ELSE Turn(rs, chunk_size, ratio, f[k - 1], k)]
    BY <2>1
  <2>3. QED
    BY <2>2 DEF Plans
<1>2. ASSUME NEW m \in Nat, m \in T PROVE m + 1 \in T
  <2>1. PICK f : Plans(rs, chunk_size, ratio, m, f)
    BY <1>2
  <2> DEFINE g == [k \in 0 .. m + 1 |-> IF k = m + 1 THEN Grown(k, f[m]) ELSE f[k]]
  <2>2. \A k \in 0 .. m : f[k] = Grown(k, f[k - 1])
    BY <2>1 DEF Plans
  <2>3. ASSUME NEW k \in 0 .. m + 1 PROVE g[k] = Grown(k, g[k - 1])
    <3> HIDE DEF Grown
    <3>1. CASE k = m + 1
      <4>1. k - 1 = m /\ m \in 0 .. m + 1 /\ m # m + 1
        BY <3>1
      <4>2. g[k - 1] = f[m]
        BY <4>1
      <4>3. QED
        BY <3>1, <4>2
    <3>2. CASE k # m + 1 /\ k # 0
      <4>1. k \in 0 .. m /\ k - 1 \in 0 .. m /\ k - 1 # m + 1 /\ k - 1 \in 0 .. m + 1
        BY <3>2
      <4>2. g[k] = f[k] /\ g[k - 1] = f[k - 1]
        BY <3>2, <4>1
      <4>3. QED
        BY <2>2, <4>1, <4>2
    <3>3. CASE k = 0
      <4>1. k \in 0 .. m /\ k # m + 1
        BY <3>3
      <4>2. g[k] = f[k]
        BY <4>1
      <4>3. f[k] = <<>> /\ Grown(k, g[k - 1]) = <<>>
        BY <2>2, <3>3, <4>1 DEF Grown
      <4>4. QED
        BY <4>2, <4>3
    <3>4. QED
      BY <3>1, <3>2, <3>3
  <2>4. g = [k \in 0 .. m + 1 |-> Grown(k, g[k - 1])]
    <3>1. g = [k \in 0 .. m + 1 |-> g[k]]
      OBVIOUS
    <3> HIDE DEF g, Grown
    <3>2. QED
      BY <2>3, <3>1
  <2> HIDE DEF g
  <2>5. Plans(rs, chunk_size, ratio, m + 1, g)
    BY <2>4 DEF Plans
  <2>6. QED
    BY <2>5
<1> HIDE DEF T
<1>3. n \in T
  BY <1>1, <1>2, Induction
<1>4. QED
  BY <1>3 DEF T

\* The host and the kernel gather the same number of tokens.
LEMMA HostGathersSame ==
  ASSUME NEW r \in PrefillSet
  PROVE  GatherLenCpu(r.seq, r.query, PlanWindow) = GatherLen(r.seq, r.query, PlanWindow)
<1>1. r.seq \in Nat /\ r.query \in Nat /\ r.query <= r.seq
  BY DEF PrefillSet
<1>2. GreaterOf(r.seq - r.query, 0) = r.seq - r.query
  BY <1>1 DEF GreaterOf
<1>3. QED
  BY <1>2 DEF GatherLenCpu, GatherLen

\* What one request needs in a workspace row is within what the builder reserved for it.
LEMMA RowBound ==
  ASSUME NEW r \in PrefillSet, NEW chunk_size \in PlanChunkSizes, NEW ratio \in PlanRatios
  PROVE  /\ CompressedLen(r.seq, ratio) \in Nat /\ GatherLen(r.seq, r.query, PlanWindow) \in Nat
         /\ MaxArea(chunk_size, ratio) \in Nat
         /\ CompressedLen(r.seq, ratio) + GatherLen(r.seq, r.query, PlanWindow)
              <= MaxArea(chunk_size, ratio)
<1>1. /\ r.seq \in Nat /\ r.query \in Nat /\ r.query <= r.seq
      /\ r.seq <= PlanModelLen /\ r.query <= PlanBatched
  BY DEF PrefillSet
<1>2. /\ PlanModelLen \in Nat \ {0} /\ PlanBatched \in Nat \ {0} /\ PlanWindow \in Nat \ {0}
      /\ chunk_size \in Nat \ {0} /\ ratio \in Nat
  BY PlanAssumption
<1> DEFINE longest == IF ratio = 0 THEN 0 ELSE CeilDiv(PlanModelLen, ratio)
           c == CompressedLen(r.seq, ratio)
           g == GatherLen(r.seq, r.query, PlanWindow)
<1>3. g \in Nat /\ g <= PlanWindow + PlanBatched
  BY <1>1, <1>2 DEF GatherLen, LesserOf
<1>4. c \in Nat /\ longest \in Nat /\ c <= longest
  <2>1. CASE ratio = 0
    BY <2>1 DEF CompressedLen
  <2>2. CASE ratio # 0
    <3> DEFINE d == r.seq \div ratio
               e == (PlanModelLen + ratio - 1) \div ratio
    <3>1. ratio \in Nat \ {0}
      BY <1>2, <2>2
    <3>2. d \in Nat /\ d * ratio <= r.seq
      <4>1. d \in Nat /\ r.seq % ratio \in 0 .. ratio - 1 /\ r.seq = d * ratio + (r.seq % ratio)
        BY <1>1, <3>1, DivModOf
      <4> DEFINE x == d * ratio
                 y == r.seq % ratio
      <4>2. x \in Nat /\ y \in Nat /\ r.seq = x + y
        BY <3>1, <4>1
      <4> HIDE DEF d, x, y
      <4>3. x <= r.seq
        BY <1>1, <4>2
      <4>4. QED
        BY <4>1, <4>3 DEF d, x
    <3>3. e \in Nat /\ PlanModelLen <= ratio * e
      BY <1>2, <3>1, Ceiling
    <3>4. c = d /\ longest = e
      BY <2>2 DEF CompressedLen, CeilDiv
    <3> HIDE DEF d, e
    <3>5. d <= e
      <4> SUFFICES ASSUME e + 1 <= d PROVE FALSE
        BY <3>2, <3>3
      <4>1. (e + 1) * ratio <= d * ratio /\ (e + 1) * ratio \in Nat /\ d * ratio \in Nat
        BY <3>1, <3>2, <3>3, Times
      <4>2. (e + 1) * ratio = ratio * e + ratio /\ ratio * e \in Nat
        BY <3>1, <3>3
      <4> DEFINE x == ratio * e
                 y == d * ratio
                 z == (e + 1) * ratio
      <4>3. z <= y /\ z = x + ratio /\ x \in Nat /\ y \in Nat /\ PlanModelLen <= x /\ y <= r.seq
        BY <3>2, <3>3, <4>1, <4>2
      <4> HIDE DEF x, y, z
      <4>4. QED
        BY <1>1, <1>2, <3>1, <4>3
    <3>6. QED
      BY <3>2, <3>3, <3>4, <3>5
  <2>3. QED
    BY <2>1, <2>2
<1> DEFINE room == longest + PlanWindow + PlanBatched
<1>5. MaxArea(chunk_size, ratio) = chunk_size * room
  BY DEF MaxArea
<1> HIDE DEF longest, c, g
<1>6. room \in Nat /\ c + g <= room
  BY <1>2, <1>3, <1>4
<1> HIDE DEF room
<1>7. 1 * room <= chunk_size * room /\ chunk_size * room \in Nat
  BY <1>2, <1>6, Times
<1>8. c + g <= chunk_size * room
  <2> DEFINE x == chunk_size * room
  <2>1. room <= x /\ x \in Nat
    BY <1>6, <1>7
  <2> HIDE DEF x
  <2>2. c + g <= x
    BY <1>3, <1>4, <1>6, <2>1
  <2>3. QED
    BY <2>2 DEF x
<1>9. QED
  BY <1>3, <1>4, <1>5, <1>7, <1>8 DEF c, g

\* A chunk that has the requests from its first to its last, and fits.
ChunkHolds(rs, chunk_size, ratio, chunk) ==
  /\ chunk.first <= chunk.last
  /\ \A i \in chunk.first .. chunk.last :
       /\ CompressedLen(rs[i].seq, ratio) <= chunk.compressed
       /\ GatherLen(rs[i].seq, rs[i].query, PlanWindow) <= chunk.gather
  /\ Area(chunk) <= MaxArea(chunk_size, ratio)

\* The chunks of the first n requests follow each other up to the last of them.
Chunked(rs, chunk_size, ratio, n, chunks) ==
  /\ chunks \in Seq(ChunkSet)
  /\ (IF chunks = <<>> THEN 0 ELSE chunks[Len(chunks)].last) = n
  /\ \A c \in DOMAIN chunks :
       /\ chunks[c].first = (IF c = 1 THEN 0 ELSE chunks[c - 1].last) + 1
       /\ chunks[c].last \in 1 .. n
       /\ ChunkHolds(rs, chunk_size, ratio, chunks[c])

LEMMA JoinedIs ==
  ASSUME NEW rs \in Seq(PrefillSet), NEW chunk_size \in PlanChunkSizes, NEW ratio \in PlanRatios,
         NEW i \in DOMAIN rs, NEW chunk \in ChunkSet
  PROVE  LET joined == Joined(rs, ratio, chunk, i) IN
         /\ joined \in ChunkSet /\ joined.first = chunk.first /\ joined.last = i
         /\ joined.compressed = GreaterOf(chunk.compressed, CompressedLen(rs[i].seq, ratio))
         /\ joined.gather = GreaterOf(chunk.gather, GatherLen(rs[i].seq, rs[i].query, PlanWindow))
<1>1. Len(rs) \in Nat /\ DOMAIN rs = 1 .. Len(rs) /\ rs[i] \in PrefillSet
  OBVIOUS
<1> DEFINE c == GreaterOf(chunk.compressed, CompressedLen(rs[i].seq, ratio))
           g == GreaterOf(chunk.gather, GatherLen(rs[i].seq, rs[i].query, PlanWindow))
<1>2. c \in Nat /\ g \in Nat
  <2>1. CompressedLen(rs[i].seq, ratio) \in Nat /\ GatherLen(rs[i].seq, rs[i].query, PlanWindow) \in Nat
    BY <1>1, RowBound
  <2>2. chunk.compressed \in Nat /\ chunk.gather \in Nat
    BY DEF ChunkSet
  <2>3. QED
    BY <2>1, <2>2 DEF GreaterOf
<1>7. GatherLenCpu(rs[i].seq, rs[i].query, PlanWindow) = GatherLen(rs[i].seq, rs[i].query, PlanWindow)
  BY <1>1, HostGathersSame
<1>3. Joined(rs, ratio, chunk, i) = [chunk EXCEPT !.last = i, !.compressed = c, !.gather = g]
  BY Zenon, <1>7 DEF Joined
<1> HIDE DEF c, g
<1>4. i \in Nat
  BY <1>1
<1>5. /\ Joined(rs, ratio, chunk, i) \in ChunkSet
      /\ Joined(rs, ratio, chunk, i).first = chunk.first /\ Joined(rs, ratio, chunk, i).last = i
      /\ Joined(rs, ratio, chunk, i).compressed = c /\ Joined(rs, ratio, chunk, i).gather = g
  BY <1>2, <1>3, <1>4 DEF ChunkSet
<1>6. QED
  BY <1>5 DEF c, g

\* A request that opens a chunk fits the workspace alone.
LEMMA OpenedHolds ==
  ASSUME NEW rs \in Seq(PrefillSet), NEW chunk_size \in PlanChunkSizes, NEW ratio \in PlanRatios,
         NEW i \in DOMAIN rs
  PROVE  LET opened == Opened(rs, ratio, i) IN
         /\ opened \in ChunkSet /\ opened.first = i /\ opened.last = i
         /\ ChunkHolds(rs, chunk_size, ratio, opened)
<1>1. Len(rs) \in Nat /\ DOMAIN rs = 1 .. Len(rs) /\ rs[i] \in PrefillSet /\ i \in Nat
  OBVIOUS
<1> DEFINE new == [first |-> i, last |-> i, compressed |-> 0, gather |-> 0]
           opened == Opened(rs, ratio, i)
           c == CompressedLen(rs[i].seq, ratio)
           g == GatherLen(rs[i].seq, rs[i].query, PlanWindow)
<1>2. new \in ChunkSet /\ new.first = i /\ new.compressed = 0 /\ new.gather = 0
  BY <1>1 DEF ChunkSet
<1>3. opened = Joined(rs, ratio, new, i)
  BY DEF Opened
<1> HIDE DEF new, opened
<1>4. /\ opened \in ChunkSet /\ opened.first = i /\ opened.last = i
      /\ opened.compressed = GreaterOf(0, c) /\ opened.gather = GreaterOf(0, g)
  BY <1>2, <1>3, JoinedIs
<1>5. c \in Nat /\ g \in Nat /\ MaxArea(chunk_size, ratio) \in Nat
      /\ c + g <= MaxArea(chunk_size, ratio)
  BY <1>1, RowBound
<1>6. opened.compressed = c /\ opened.gather = g
  <2> HIDE DEF c, g
  <2>1. QED
    BY <1>4, <1>5 DEF GreaterOf
<1>7. Area(opened) = c + g
  <2> HIDE DEF c, g
  <2>1. opened.last - opened.first + 1 = 1
    BY <1>1, <1>4
  <2>2. Area(opened) = 1 * (c + g)
    BY <1>6, <2>1 DEF Area
  <2>3. QED
    BY <1>5, <2>2
<1>8. \A k \in opened.first .. opened.last : k = i
  BY <1>1, <1>4
<1>9. ChunkHolds(rs, chunk_size, ratio, opened)
  <2>1. opened.first <= opened.last
    BY <1>1, <1>4
  <2>2. c <= opened.compressed /\ g <= opened.gather
    <3> HIDE DEF c, g
    <3>1. QED
      BY <1>5, <1>6
  <2>3. Area(opened) <= MaxArea(chunk_size, ratio)
    BY <1>5, <1>7
  <2>4. QED
    BY <1>8, <2>1, <2>2, <2>3 DEF ChunkHolds
<1>10. QED
  BY <1>4, <1>9 DEF opened

\* A request that joins a chunk leaves the others in it.
LEMMA JoinedHolds ==
  ASSUME NEW rs \in Seq(PrefillSet), NEW chunk_size \in PlanChunkSizes, NEW ratio \in PlanRatios,
         NEW i \in DOMAIN rs, NEW chunk \in ChunkSet, ChunkHolds(rs, chunk_size, ratio, chunk),
         chunk.last = i - 1, chunk.first \in Nat \ {0},
         Area(Joined(rs, ratio, chunk, i)) <= MaxArea(chunk_size, ratio)
  PROVE  ChunkHolds(rs, chunk_size, ratio, Joined(rs, ratio, chunk, i))
<1>1. /\ Len(rs) \in Nat /\ DOMAIN rs = 1 .. Len(rs) /\ i \in Nat
      /\ \A k \in DOMAIN rs : rs[k] \in PrefillSet
  OBVIOUS
<1>2. PICK joined : joined = Joined(rs, ratio, chunk, i)
  OBVIOUS
<1>3. /\ joined \in ChunkSet /\ joined.first = chunk.first /\ joined.last = i
      /\ joined.compressed = GreaterOf(chunk.compressed, CompressedLen(rs[i].seq, ratio))
      /\ joined.gather = GreaterOf(chunk.gather, GatherLen(rs[i].seq, rs[i].query, PlanWindow))
  BY <1>2, JoinedIs
<1>4. /\ chunk.first \in Nat \ {0} /\ chunk.compressed \in Nat /\ chunk.gather \in Nat
      /\ chunk.first <= i - 1
  BY DEF ChunkSet, ChunkHolds
<1>5. ASSUME NEW k \in joined.first .. joined.last
      PROVE  /\ CompressedLen(rs[k].seq, ratio) <= joined.compressed
             /\ GatherLen(rs[k].seq, rs[k].query, PlanWindow) <= joined.gather
  <2> DEFINE c(j) == CompressedLen(rs[j].seq, ratio)
             g(j) == GatherLen(rs[j].seq, rs[j].query, PlanWindow)
  <2>1. k \in DOMAIN rs /\ k \in Nat /\ (k = i \/ k \in chunk.first .. chunk.last)
    BY <1>1, <1>3, <1>4
  <2>2. c(k) \in Nat /\ g(k) \in Nat /\ c(i) \in Nat /\ g(i) \in Nat
    BY <1>1, <2>1, RowBound
  <2>3. k \in chunk.first .. chunk.last => c(k) <= chunk.compressed /\ g(k) <= chunk.gather
    BY DEF ChunkHolds
  <2> HIDE DEF c, g
  <2>4. joined.compressed = GreaterOf(chunk.compressed, c(i)) /\ joined.gather = GreaterOf(chunk.gather, g(i))
    BY <1>3 DEF c, g
  <2>5. c(k) <= joined.compressed /\ g(k) <= joined.gather
    <3>1. CASE k = i
      BY <1>4, <2>2, <2>4, <3>1 DEF GreaterOf
    <3>2. CASE k \in chunk.first .. chunk.last
      BY <1>4, <2>2, <2>3, <2>4, <3>2 DEF GreaterOf
    <3>3. QED
      BY <2>1, <3>1, <3>2
  <2>6. QED
    BY <2>5 DEF c, g
<1>6. joined.first <= joined.last
  BY <1>1, <1>3, <1>4
<1>7. Area(joined) <= MaxArea(chunk_size, ratio)
  BY <1>2
<1>8. QED
  BY <1>2, <1>5, <1>6, <1>7 DEF ChunkHolds

LEMMA TurnChunks ==
  ASSUME NEW rs \in Seq(PrefillSet), NEW chunk_size \in PlanChunkSizes, NEW ratio \in PlanRatios,
         NEW i \in DOMAIN rs, NEW chunks, Chunked(rs, chunk_size, ratio, i - 1, chunks)
  PROVE  Chunked(rs, chunk_size, ratio, i, Turn(rs, chunk_size, ratio, chunks, i))
<1> DEFINE n == Len(chunks)
           Ends(s) == IF s = <<>> THEN 0 ELSE s[Len(s)].last
           Begins(s, c) == s[c].first = (IF c = 1 THEN 0 ELSE s[c - 1].last) + 1
           Within(s, c, m) == s[c].last \in 1 .. m /\ ChunkHolds(rs, chunk_size, ratio, s[c])
<1>1. i \in Nat \ {0}
  OBVIOUS
<1>2. /\ chunks \in Seq(ChunkSet) /\ Ends(chunks) = i - 1
      /\ \A c \in DOMAIN chunks : Begins(chunks, c) /\ Within(chunks, c, i - 1)
  BY DEF Chunked
<1>3. n \in Nat /\ DOMAIN chunks = 1 .. n /\ \A c \in 1 .. n : chunks[c] \in ChunkSet
  BY <1>2
<1>4. \A s, m : /\ s \in Seq(ChunkSet) /\ Ends(s) = m
                /\ \A c \in DOMAIN s : Begins(s, c) /\ Within(s, c, m)
                => Chunked(rs, chunk_size, ratio, m, s)
  BY DEF Chunked
<1>5. CASE chunks # <<>> /\ Area(Joined(rs, ratio, Last(chunks), i)) <= MaxArea(chunk_size, ratio)
  <2>1. PICK old : old = chunks[n]
    OBVIOUS
  <2>2. PICK new : new = Joined(rs, ratio, old, i)
    OBVIOUS
  <2>3. n \in 1 .. n /\ Last(chunks) = old
    BY <1>2, <1>3, <1>5, <2>1 DEF Last
  <2>4. old \in ChunkSet /\ old.last = i - 1 /\ Begins(chunks, n) /\ Within(chunks, n, i - 1)
    BY <1>2, <1>3, <1>5, <2>1, <2>3
  <2>5. ChunkHolds(rs, chunk_size, ratio, old) /\ Area(new) <= MaxArea(chunk_size, ratio)
    BY <1>5, <2>1, <2>2, <2>3, <2>4
  <2>6. new \in ChunkSet /\ new.first = old.first /\ new.last = i
    BY <2>2, <2>4, JoinedIs
  <2>7. old.first \in Nat \ {0}
    <3>1. old.first = (IF n = 1 THEN 0 ELSE chunks[n - 1].last) + 1
      BY <2>1, <2>4
    <3>2. n # 1 => chunks[n - 1].last \in Nat
      <4>1. n # 1 => n - 1 \in 1 .. n
        BY <1>3, <2>3
      <4>2. QED
        BY <1>3, <4>1 DEF ChunkSet
    <3>3. QED
      BY <3>1, <3>2
  <2>8. ChunkHolds(rs, chunk_size, ratio, new)
    BY <2>2, <2>4, <2>5, <2>7, JoinedHolds
  <2>9. PICK s : s = Append(Front(chunks), new)
    OBVIOUS
  <2>10. s \in Seq(ChunkSet) /\ Len(s) = n /\ DOMAIN s = 1 .. n /\ s[n] = new
         /\ \A c \in 1 .. n - 1 : s[c] = chunks[c]
    <3>1. PICK t : t = Front(chunks)
      OBVIOUS
    <3>2. t = SubSeq(chunks, 1, n - 1) /\ n - 1 \in Nat
      BY <1>3, <2>3, <3>1 DEF Front
    <3>3. t \in Seq(ChunkSet) /\ Len(t) = n - 1 /\ \A c \in 1 .. n - 1 : t[c] = chunks[c]
      BY <1>2, <1>3, <3>2
    <3>4. s = Append(t, new)
      BY <2>9, <3>1
    <3> HIDE DEF n
    <3>5. QED
      BY <1>3, <2>3, <2>6, <3>3, <3>4
  <2>11. Turn(rs, chunk_size, ratio, chunks, i) = s
    BY <1>5, <2>2, <2>3, <2>9 DEF Turn
  <2>12. Ends(s) = i
    <3>1. s # <<>>
      BY <2>3, <2>10
    <3>2. QED
      BY <2>6, <2>10, <3>1
  <2>13. ASSUME NEW c \in DOMAIN s PROVE Begins(s, c) /\ Within(s, c, i)
    <3>1. c \in 1 .. n /\ (c # 1 => c - 1 \in 1 .. n - 1)
      BY <1>3, <2>10
    <3>2. c # 1 => s[c - 1] = chunks[c - 1]
      BY <2>10, <3>1
    <3>3. CASE c = n
      <4>1. s[c] = new
        BY <2>10, <3>3
      <4>2. Begins(s, c)
        BY <2>1, <2>4, <2>6, <3>2, <3>3, <4>1
      <4>3. new.last \in 1 .. i
        BY <1>1, <2>6
      <4>4. QED
        BY <2>8, <4>1, <4>2, <4>3
    <3>4. CASE c # n
      <4>1. c \in 1 .. n - 1 /\ c \in DOMAIN chunks
        BY <1>3, <3>1, <3>4
      <4>2. s[c] = chunks[c] /\ Begins(chunks, c) /\ Within(chunks, c, i - 1)
        BY <1>2, <2>10, <4>1
      <4>3. \A x \in 1 .. i - 1 : x \in 1 .. i
        BY <1>1
      <4>4. QED
        BY <3>2, <4>2, <4>3
    <3>5. QED
      BY <3>3, <3>4
  <2> HIDE DEF n, Ends, Begins, Within
  <2>14. QED
    BY <1>4, <2>10, <2>11, <2>12, <2>13
<1>6. CASE ~(chunks # <<>> /\ Area(Joined(rs, ratio, Last(chunks), i)) <= MaxArea(chunk_size, ratio))
  <2>1. PICK new : new = Opened(rs, ratio, i)
    OBVIOUS
  <2>2. new \in ChunkSet /\ new.first = i /\ new.last = i /\ ChunkHolds(rs, chunk_size, ratio, new)
    BY <2>1, OpenedHolds
  <2>3. PICK s : s = Append(chunks, new)
    OBVIOUS
  <2>4. s \in Seq(ChunkSet) /\ Len(s) = n + 1 /\ DOMAIN s = 1 .. n + 1 /\ s[n + 1] = new
        /\ \A c \in 1 .. n : s[c] = chunks[c]
    BY <1>2, <1>3, <2>2, <2>3
  <2>5. Turn(rs, chunk_size, ratio, chunks, i) = s
    BY <1>6, <2>1, <2>3 DEF Turn
  <2>6. Ends(s) = i
    <3>1. s # <<>>
      BY <1>3, <2>4
    <3>2. QED
      BY <2>2, <2>4, <3>1
  <2>7. ASSUME NEW c \in DOMAIN s PROVE Begins(s, c) /\ Within(s, c, i)
    <3>1. c \in 1 .. n + 1 /\ (c # 1 => c - 1 \in 1 .. n)
      BY <1>3, <2>4
    <3>2. c # 1 => s[c - 1] = chunks[c - 1]
      BY <2>4, <3>1
    <3>3. CASE c = n + 1
      <4>1. s[c] = new /\ c - 1 = n
        BY <1>3, <2>4, <3>3
      <4>2. (IF c = 1 THEN 0 ELSE s[c - 1].last) = i - 1
        <5>1. CASE c = 1
          <6>1. chunks = <<>>
            BY <1>2, <1>3, <4>1, <5>1
          <6>2. QED
            BY <1>2, <5>1, <6>1
        <5>2. CASE c # 1
          <6>1. n # 0
            BY <1>3, <3>1, <4>1, <5>2
          <6>2. chunks # <<>>
            BY <6>1
          <6>3. QED
            BY <1>2, <3>2, <4>1, <5>2, <6>2
        <5>3. QED
          BY <5>1, <5>2
      <4>3. Begins(s, c)
        BY <1>1, <2>2, <4>1, <4>2
      <4>4. new.last \in 1 .. i
        BY <1>1, <2>2
      <4>5. QED
        BY <2>2, <4>1, <4>3, <4>4
    <3>4. CASE c # n + 1
      <4>1. c \in 1 .. n /\ c \in DOMAIN chunks
        BY <1>3, <3>1, <3>4
      <4>2. s[c] = chunks[c] /\ Begins(chunks, c) /\ Within(chunks, c, i - 1)
        BY <1>2, <2>4, <4>1
      <4>3. \A x \in 1 .. i - 1 : x \in 1 .. i
        BY <1>1
      <4>4. QED
        BY <3>2, <4>2, <4>3
    <3>5. QED
      BY <3>3, <3>4
  <2> HIDE DEF n, Ends, Begins, Within
  <2>8. QED
    BY <1>4, <2>4, <2>5, <2>6, <2>7
<1>7. QED
  BY <1>5, <1>6

\* The plan of any requests the model and a step can have fits the workspace.
LEMMA PlanHolds ==
  ASSUME NEW rs \in Seq(PrefillSet), NEW chunk_size \in PlanChunkSizes, NEW ratio \in PlanRatios
  PROVE  FitsWorkspace(rs, chunk_size, ratio)
<1> DEFINE n == Len(rs)
<1>1. n \in Nat /\ DOMAIN rs = 1 .. n
  OBVIOUS
<1>2. PICK f : f = CHOOSE x : Plans(rs, chunk_size, ratio, n, x)
  OBVIOUS
<1>3. Plans(rs, chunk_size, ratio, n, f)
  <2>1. \E x : Plans(rs, chunk_size, ratio, n, x)
    BY <1>1, PlansExist
  <2>2. QED
    BY <1>2, <2>1
<1>4. \A k \in 0 .. n : f[k] = IF k = 0 THEN <<>> ELSE Turn(rs, chunk_size, ratio, f[k - 1], k)
  BY <1>3 DEF Plans
<1> DEFINE T == {k \in Nat : k <= n => Chunked(rs, chunk_size, ratio, k, f[k])}
<1>5. 0 \in T
  <2>1. 0 \in 0 .. n
    BY <1>1
  <2>2. f[0] = <<>>
    BY <1>4, <2>1
  <2>3. <<>> \in Seq(ChunkSet) /\ DOMAIN <<>> = {}
    OBVIOUS
  <2>4. Chunked(rs, chunk_size, ratio, 0, <<>>)
    BY <2>3 DEF Chunked
  <2>5. QED
    BY <2>2, <2>4
<1>6. ASSUME NEW k \in Nat, k \in T PROVE k + 1 \in T
  <2>1. ASSUME k + 1 <= n PROVE Chunked(rs, chunk_size, ratio, k + 1, f[k + 1])
    <3>1. k + 1 \in 0 .. n /\ k + 1 \in DOMAIN rs /\ k + 1 # 0 /\ (k + 1) - 1 = k /\ k <= n
      BY <1>1, <2>1
    <3>2. f[k + 1] = Turn(rs, chunk_size, ratio, f[k], k + 1)
      BY <1>4, <3>1
    <3>3. Chunked(rs, chunk_size, ratio, k, f[k])
      BY <1>6, <3>1
    <3>4. QED
      BY <3>1, <3>2, <3>3, TurnChunks
  <2>2. QED
    BY <2>1
<1> HIDE DEF T
<1>7. n \in T
  BY <1>1, <1>5, <1>6, Induction
<1>8. PICK plan : plan = f[n]
  OBVIOUS
<1>9. Chunked(rs, chunk_size, ratio, n, plan)
  BY <1>1, <1>7, <1>8 DEF T
<1>10. Plan(rs, chunk_size, ratio) = plan
  BY <1>2, <1>8, PlanIs
<1>11. (IF plan = <<>> THEN 0 ELSE Last(plan).last) = n
  BY <1>9 DEF Chunked, Last
<1>12. ASSUME NEW c \in DOMAIN plan
       PROVE  LET chunk == plan[c] IN
              /\ chunk.first = (IF c = 1 THEN 0 ELSE plan[c - 1].last) + 1
              /\ chunk.first <= chunk.last
              /\ \A i \in chunk.first .. chunk.last :
                   /\ CompressedLen(rs[i].seq, ratio) <= chunk.compressed
                   /\ GatherLen(rs[i].seq, rs[i].query, PlanWindow) <= chunk.gather
              /\ (chunk.last - chunk.first + 1) * (chunk.compressed + chunk.gather)
                   <= MaxArea(chunk_size, ratio)
  BY Zenon, <1>9 DEF Chunked, ChunkHolds, Area
<1>13. QED
  BY Zenon, <1>10, <1>11, <1>12 DEF FitsWorkspace

\* The prefills of a batch are of the model's length and of a step's tokens.
LEMMA BatchIs ==
  ASSUME Inv, pc = "attend"
  PROVE  BatchPrefills \in Seq(PrefillSet)
<1>1. PhaseOK /\ TablesOK /\ QueriesOK /\ BuiltOK /\ Passing /\ queries \in Seq(QuerySet)
  BY DEF Inv, Passing, QueriesOK
<1>2. PICK n : n = Len(queries)
  OBVIOUS
<1>3. PICK nd : nd = meta.num_decodes
  OBVIOUS
<1>4. n \in Nat /\ DOMAIN queries = 1 .. n /\ nd \in 0 .. n /\ (drafts # 0 => nd = n)
  <2>1. n \in Nat /\ DOMAIN queries = 1 .. n
    BY <1>1, <1>2, Layout
  <2>2. nd \in 0 .. n /\ nd = NumDecodes(queries)
    BY <1>1, <1>2, <1>3, PassLayout
  <2>3. drafts # 0 => NumDecodes(queries) = n
    BY <1>1, <1>2, DraftPass
  <2>4. QED
    BY <2>1, <2>2, <2>3
<1>5. ASSUME NEW i \in 1 .. n - nd
      PROVE  [seq |-> queries[nd + i].start + queries[nd + i].n, query |-> queries[nd + i].n]
               \in PrefillSet
  <2>1. PICK row : row = nd + i
    OBVIOUS
  <2>2. row \in 1 .. n /\ row \in 1 .. n + 1 /\ row + 1 \in 1 .. n + 1 /\ n + 1 \in row + 1 .. n + 1
        /\ drafts = 0
    BY <1>4, <2>1
  <2>3. PICK q : q = queries[row]
    OBVIOUS
  <2>4. TargetQuery(q) /\ q \in QuerySet
    BY <1>1, <1>4, <2>2, <2>3 DEF QueriesOK
  <2>5. q.start \in Nat /\ q.n \in Nat /\ q.start + q.n <= MaxLen
    BY <2>4 DEF TargetQuery, QuerySet
  <2>6. q.n <= MaxTokens
    <3>1. /\ QueryStartLoc(queries, row + 1) = QueryStartLoc(queries, row) + q.n
          /\ QueryStartLoc(queries, row) \in Nat
          /\ QueryStartLoc(queries, row + 1) <= QueryStartLoc(queries, n + 1)
          /\ QueryStartLoc(queries, row + 1) \in Nat
          /\ Total(queries) = QueryStartLoc(queries, n + 1) /\ Total(queries) \in Nat
      BY <1>1, <1>2, <2>2, <2>3, Layout
    <3>2. Total(queries) <= MaxTokens
      BY <1>1 DEF QueriesOK
    <3>3. QED
      BY <2>5, <3>1, <3>2, Config
  <2>7. /\ MaxLen <= PlanModelLen /\ MaxTokens <= PlanBatched /\ PlanModelLen \in Nat
        /\ PlanBatched \in Nat /\ MaxLen \in Nat /\ MaxTokens \in Nat
    BY SwaAssumption, PlanAssumption
  <2>8. [seq |-> q.start + q.n, query |-> q.n] \in PrefillSet
    BY <2>5, <2>6, <2>7 DEF PrefillSet
  <2>9. QED
    BY <2>1, <2>3, <2>8
<1>6. BatchPrefills = [i \in 1 .. n - nd |->
                         [seq |-> queries[nd + i].start + queries[nd + i].n, query |-> queries[nd + i].n]]
  BY <1>2, <1>3 DEF BatchPrefills
<1>7. n - nd \in Nat
  BY <1>4
<1>8. QED
  BY <1>5, <1>6, <1>7

LEMMA PrefillsAre ==
  ASSUME NEW rs \in Prefills
  PROVE  rs \in Seq(PrefillSet)
<1> DEFINE R == {r \in [seq : 1 .. PlanModelLen, query : 1 .. PlanBatched] : r.query <= r.seq}
<1>1. rs \in UNION {[1 .. n -> R] : n \in 1 .. PlanRequests}
  BY Zenon DEF Prefills
<1>2. PICK n \in 1 .. PlanRequests : rs \in [1 .. n -> R]
  BY Zenon, <1>1
<1>3. ASSUME NEW r \in R PROVE r \in PrefillSet
  BY PlanAssumption DEF PrefillSet
<1>4. n \in Nat
  BY PlanAssumption
<1> HIDE DEF R
<1>5. rs \in [1 .. n -> PrefillSet]
  BY <1>2, <1>3
<1>6. QED
  BY <1>4, <1>5

\* Every chunk of every plan fits the workspace the builder reserved when it was made: of
\* any prefills a step can have, and so of the prefills of every batch, whatever the model's
\* length, the step's tokens, the chunk size and the compression. A chunk of one request,
\* which get_prefill_chunk_plan does not compare, fits because of how the area is reserved.
THEOREM PlansFit == Spec => []PlanFits
<1>1. Inv => PlanFits
  <2> SUFFICES ASSUME Inv, pc = "attend" \/ meta = NoMeta,
                      NEW rs \in (IF meta = NoMeta THEN Prefills ELSE {BatchPrefills}),
                      NEW chunk_size \in PlanChunkSizes, NEW ratio \in PlanRatios
               PROVE  FitsWorkspace(rs, chunk_size, ratio)
    BY DEF PlanFits
  <2>1. CASE meta = NoMeta
    <3>1. rs \in Prefills
      BY <2>1
    <3>2. QED
      BY <3>1, PrefillsAre, PlanHolds
  <2>2. CASE meta # NoMeta
    <3>1. rs = BatchPrefills /\ pc = "attend"
      BY <2>2
    <3>2. rs \in Seq(PrefillSet)
      BY <3>1, BatchIs
    <3>3. QED
      BY <3>2, PlanHolds
  <2>3. QED
    BY <2>1, <2>2
<1>2. QED
  BY <1>1, SpecInv, PTL
====
