---------------------------- MODULE EngramShard ----------------------------
(***************************************************************************)
(* One Engram table over the tensor-parallel ranks (patch/engram.py:        *)
(* EngramLayout, ParallelEngramEmbedding, DiskEngramTable, Engram.embed and *)
(* Engram.forward).                                                         *)
(*                                                                          *)
(* The layout gives every (n-gram size, head) pair, a column, a prime range *)
(* of rows of the table. A rank owns the rows of part_n_hash_cols columns:  *)
(* resident, in pinned host memory read through a device view, or on disk.  *)
(* Each step it looks its own columns up and gathers the others'. Ranks run *)
(* asynchronously and meet in the all-gathers only.                         *)
(*                                                                          *)
(* The content of row i of the full table is the number i. A flat cell is   *)
(* one row of DIM elements: DIM divides every flat index alike.             *)
(***************************************************************************)
EXTENDS Integers, Sequences, FiniteSets, SequencesExt, FiniteSetsExt

CONSTANTS
  Layouts,      \* set of [ngram, heads]: max_ngram_size and n_heads
  VocabSize,    \* engram_vocab_size
  MaxPrime,     \* bound: primes the layout may draw
  NumLayers,    \* Engram layers the layout draws primes for
  Layer,        \* the layer this table is for
  Slack,        \* set of num_embeddings - sum(head_sizes)
  Surplus,      \* set of the checkpoint table's rows - num_embeddings
  TpSizes,      \* set of tensor-parallel world sizes
  Steps,        \* set of sequences of steps; a step is a sequence of [hash, active]
  Maps,         \* world sizes whose rank map a node-local copy may be made for
  Zero, Hole, Beyond, Stale, Untouched, None

Modes == {"resident", "offload", "prestaged", "in_forward"}
DiskModes == {"prestaged", "in_forward"}
MaxTokens == Max({Len(s[k]) : s \in Steps, k \in {1, 2}})

ASSUME ShardAssumption ==
  /\ Layouts \subseteq [ngram : Nat \ {0, 1}, heads : Nat \ {0}]
  /\ TpSizes \subseteq Nat \ {0} /\ Maps \subseteq Nat \ {0}
  /\ NumLayers \in Nat /\ Layer \in 1 .. NumLayers
  /\ VocabSize \in Nat \ {0, 1} /\ MaxPrime \in Nat
  /\ Slack \subseteq Int /\ Surplus \subseteq Int
  /\ Steps \subseteq Seq(Seq([hash : Nat, active : BOOLEAN]))
  /\ \A s \in Steps : Len(s) = 2
  /\ MaxTokens \in Nat /\ \A s \in Steps : Len(s[1]) <= MaxTokens /\ Len(s[2]) <= MaxTokens
  /\ None \notin Maps
  /\ Beyond \notin Nat      \* no row's content

CeilDiv(a, b) == (a + b - 1) \div b
LesserOf(a, b) == IF a <= b THEN a ELSE b

-----------------------------------------------------------------------------
(* The layout.                                                              *)

\* Miller-Rabin with bases 2, 7 and 61 decides primality below 2^32.
IsPrime(n) == n >= 2 /\ \A d \in 2 .. n - 1 : n % d # 0

FindNextPrime(start, seen) ==
  Min({n \in start + 1 .. MaxPrime : IsPrime(n) /\ n \notin seen})

\* The primes in the order they are drawn. Each n-gram size starts over at the
\* vocabulary size; the primes drawn before are skipped.
Primes_NotSeen(layout, count) ==
  LET drawn[k \in 0 .. count] ==
        IF k = 0 THEN <<>>
        ELSE LET current == IF (k - 1) % layout.heads = 0 THEN VocabSize - 1
                            ELSE drawn[k - 1][k - 1]
             IN Append(drawn[k - 1], FindNextPrime(current, {}))
  IN drawn[count]
Primes(layout, count) ==
  LET drawn[k \in 0 .. count] ==
        IF k = 0 THEN <<>>
        ELSE LET current == IF (k - 1) % layout.heads = 0 THEN VocabSize - 1
                            ELSE drawn[k - 1][k - 1]
             IN Append(drawn[k - 1], FindNextPrime(current, ToSet(drawn[k - 1])))
  IN drawn[count]

HashCols(layout) == (layout.ngram - 1) * layout.heads

\* There are primes for every column of every layer below the bound.
ASSUME PrimesAssumption ==
  \A layout \in Layouts :
    Cardinality({n \in VocabSize .. MaxPrime : IsPrime(n)}) >= NumLayers * HashCols(layout)

HeadSizes(layout) ==
  LET cols == HashCols(layout)
      primes == Primes(layout, NumLayers * cols)
  IN SubSeq(primes, (Layer - 1) * cols + 1, Layer * cols)

\* sum(head_sizes[:n]): where column n starts in the table.
RowsBefore(sizes, n) == MapThenSumSet(LAMBDA c : sizes[c], 1 .. LesserOf(n, Len(sizes)))

\* The row ids of a token's columns.
HashIds(sizes, hash) ==
  [c \in 0 .. Len(sizes) - 1 |-> RowsBefore(sizes, c) + (hash % sizes[c + 1])]

-----------------------------------------------------------------------------

VARIABLES
  config,   \* what the deployment is: fixed by Init
  pc,       \* [rank -> where it is]
  dir,      \* [rank -> the directory its disk table reads]
  shard,    \* [rank -> contents of the resident or pinned rows]
  ptr,      \* [rank -> storage of the shard: it moves when .data is swapped]
  view,     \* [rank -> the storage its cached device view addresses]
  staged,   \* [rank -> staged_rows, flat]
  sent,     \* [rank -> what it gave to each all-gather]
  output    \* [rank -> each step's result for its tokens]

vars == <<config, pc, dir, shard, ptr, view, staged, sent, output>>

Ranks == 0 .. config.tp - 1
Cols == Len(config.sizes)
LocalHeads == CeilDiv(Cols, config.tp)           \* part_n_hash_cols
HeadStart(r) == r * LocalHeads
VocabStart(r) == RowsBefore(config.sizes, HeadStart(r))
VocabEnd(r) == RowsBefore(config.sizes, HeadStart(r) + LocalHeads)
NumRows_End(r) == VocabEnd(r)
NumRows(r) == VocabEnd(r) - VocabStart(r)        \* part_num_embeddings
OwnsHeads(r) == HeadStart(r) < Cols

Batch(k) == config.steps[k]
StepOf(r) == Len(output[r]) + 1
Ids(k) == [t \in 1 .. Len(Batch(k)) |-> HashIds(config.sizes, Batch(k)[t].hash)]

\* The row range of a node-local copy made for rank r of tp ranks.
CopyOf(sizes, tp, r) ==
  LET part == CeilDiv(Len(sizes), tp) IN
  <<RowsBefore(sizes, r * part), RowsBefore(sizes, (r + 1) * part)>>

\* The checkpoint's table may end before or after the row the model's config names,
\* and other tensors may follow it in its file. A node may have a copy of the rows
\* of a rank under some rank map. An unsound machine runs out of memory or cannot
\* open or read a file at some time, or finds another tensor's shape in it.
Init ==
  /\ config \in [tp : TpSizes, sizes : {HeadSizes(l) : l \in Layouts}, slack : Slack,
                 surplus : Surplus, mode : Modes, sp : BOOLEAN, capture : BOOLEAN,
                 trailing : BOOLEAN, map : Maps \cup {None}, steps : Steps,
                 uva : BOOLEAN, sound : BOOLEAN]
  /\ ~config.uva => config.mode = "offload"
  /\ config.capture => config.mode = "in_forward"
  /\ config.sp => config.tp > 1
  /\ config.map # None => config.mode \in DiskModes
  /\ config.trailing => config.mode \in DiskModes
  /\ pc = [r \in Ranks |-> "construct"]
  /\ dir = [r \in Ranks |-> None]
  /\ shard = [r \in Ranks |-> <<>>]
  /\ ptr = [r \in Ranks |-> 0]
  /\ view = [r \in Ranks |-> None]
  /\ staged = [r \in Ranks |-> <<>>]
  /\ sent = [r \in Ranks |-> <<>>]
  /\ output = [r \in Ranks |-> <<>>]

Goto(r, place) == pc' = [pc EXCEPT ![r] = place]
NumEmbeddings == RowsBefore(config.sizes, Cols) + config.slack
TableRows == NumEmbeddings + config.surplus      \* of the checkpoint's tensor

\* _dsv41_engram_local_dir: the copy is used when its rows cover the rank's.
LocalDir_AnyStart(r) ==
  IF config.map = None THEN "model"
  ELSE LET copy == CopyOf(config.sizes, config.map, r) IN
       IF copy[1] <= VocabStart(r) THEN "local" ELSE "model"
LocalDir(r) ==
  IF config.map = None THEN "model"
  ELSE LET copy == CopyOf(config.sizes, config.map, r) IN
       IF copy[1] <= VocabStart(r) /\ VocabStart(r) + NumRows(r) <= copy[2]
       THEN "local" ELSE "model"

\* The rank's rows are in the checkpoint's table.
InTable(r) == VocabStart(r) + NumRows(r) <= TableRows

\* A rank builds its table. The stager's pinned hash buffer is as wide as the
\* rank's columns, which is negative for a rank that starts beyond the last one.
Construct(r) ==
  LET disk == config.mode \in DiskModes
      width == LesserOf(HeadStart(r) + LocalHeads, Cols) - HeadStart(r)
      fails == \/ RowsBefore(config.sizes, Cols) > NumEmbeddings
               \/ config.mode = "offload" /\ ~config.uva
               \/ disk /\ ~InTable(r)
               \/ config.mode = "prestaged" /\ width < 0
  IN
  /\ pc[r] = "construct"
  /\ \/ /\ fails \/ ~config.sound
        /\ Goto(r, "failed")
        /\ UNCHANGED <<dir, staged>>
     \/ /\ ~fails
        /\ dir' = [dir EXCEPT ![r] = IF disk THEN LocalDir(r) ELSE None]
        /\ staged' = [staged EXCEPT ![r] = [i \in 1 .. MaxTokens * LocalHeads |-> Zero]]
        /\ Goto(r, IF disk THEN "lookup" ELSE "load")
  /\ UNCHANGED <<config, shard, ptr, view, sent, output>>

\* The checkpoint's table arrives and the rank's rows are copied out of it.
LoadWeights(r) ==
  /\ pc[r] = "load"
  /\ \/ /\ ~InTable(r) \/ ~config.sound
        /\ Goto(r, "failed")
        /\ UNCHANGED shard
     \/ /\ InTable(r)
        /\ shard' = [shard EXCEPT ![r] = [i \in 1 .. NumRows(r) |-> VocabStart(r) + i - 1]]
        /\ Goto(r, "lookup")
  /\ UNCHANGED <<config, dir, ptr, view, staged, sent, output>>

\* Something moves the loaded shard to another storage.
SwapData(r) ==
  /\ config.mode = "offload"
  /\ pc[r] = "lookup"
  /\ ptr[r] = 0
  /\ ptr' = [ptr EXCEPT ![r] = 1]
  /\ UNCHANGED <<config, pc, dir, shard, view, staged, sent, output>>

-----------------------------------------------------------------------------
(* A step's lookup.                                                         *)

\* _storage: the device view is rebuilt when the shard has moved.
Storage(r) == IF view[r] # ptr[r] THEN ptr[r] ELSE view[r]

IsOwned(r, id) == VocabStart(r) <= id /\ id < VocabEnd(r)

\* The ids of the rank's columns for flat row i of a step, -1 for padded heads.
LocalId(r, ids, i) ==
  LET head == HeadStart(r) + (i % LocalHeads) IN
  IF head < Cols THEN ids[(i \div LocalHeads) + 1][head] ELSE -1

FlatRows(ids) == 0 .. Len(ids) * LocalHeads - 1

\* _engram_lookup_kernel.
KernelRow(r, id, storage) ==
  IF ~IsOwned(r, id) THEN Zero
  ELSE IF config.mode = "offload" /\ storage # ptr[r] THEN Stale
  ELSE shard[r][id - VocabStart(r) + 1]

\* The table's own row 0 is read for every row that is not owned.
Rel(r, id) == IF IsOwned(r, id) THEN id - VocabStart(r) ELSE 0

\* What a pread at this rank's row `rel` finds: the rows are at the offsets of the
\* full table in both directories.
DiskRow(r, rel) ==
  LET row == VocabStart(r) + rel
      copy == CopyOf(config.sizes, config.map, r)
  IN IF row >= TableRows THEN Beyond
     ELSE IF dir[r] = "local" /\ ~(copy[1] <= row /\ row < copy[2]) THEN Hole
     ELSE row

\* A read past the last tensor of the file finds no bytes.
ReadFails(r, ids) ==
  /\ ~config.trailing
  /\ \E i \in FlatRows(ids) : DiskRow(r, Rel(r, LocalId(r, ids, i))) = Beyond

Gathered(r, ids, i) ==
  LET id == LocalId(r, ids, i) IN
  IF IsOwned(r, id) THEN DiskRow(r, Rel(r, id)) ELSE Zero

\* prepare_embeddings, or the stager's step: the rank's columns of all tokens. The
\* lookup inside the forward cannot be captured in a graph.
Lookup(r) ==
  LET ids == Ids(StepOf(r))
      reads == config.mode \in DiskModes /\ ids # <<>>
      fails == reads /\ (ReadFails(r, ids) \/ (config.mode = "in_forward" /\ config.capture))
      storage == Storage(r)
      row(i) == IF reads THEN Gathered(r, ids, i) ELSE KernelRow(r, LocalId(r, ids, i), storage)
  IN
  /\ pc[r] = "lookup"
  /\ \/ /\ fails \/ (reads /\ ~config.sound)
        /\ Goto(r, "failed")
        /\ UNCHANGED <<view, staged>>
     \/ /\ ~fails
        /\ staged' = [staged EXCEPT ![r] =
             [i \in DOMAIN @ |-> IF i - 1 \in FlatRows(ids) THEN row(i - 1) ELSE @[i]]]
        /\ view' = IF config.mode = "offload" THEN [view EXCEPT ![r] = storage] ELSE view
        /\ Goto(r, IF config.tp = 1 THEN "embed" ELSE "gather")
  /\ UNCHANGED <<config, dir, shard, ptr, sent, output>>

-----------------------------------------------------------------------------
(* The all-gather and the fusion.                                           *)

Given(r) == SubSeq(staged[r], 1, Len(Batch(StepOf(r))) * LocalHeads)

\* The rank enters the step's all-gather.
AllGather_OwnersOnly(r) ==
  /\ pc[r] = "gather"
  /\ sent' = IF OwnsHeads(r) THEN [sent EXCEPT ![r] = Append(@, Given(r))] ELSE sent
  /\ Goto(r, "embed")
  /\ UNCHANGED <<config, dir, shard, ptr, view, staged, output>>
AllGather(r) ==
  /\ pc[r] = "gather"
  /\ sent' = [sent EXCEPT ![r] = Append(@, Given(r))]
  /\ Goto(r, "embed")
  /\ UNCHANGED <<config, dir, shard, ptr, view, staged, output>>

\* All ranks are in the k-th all-gather.
Arrived(k) == config.tp = 1 \/ \A q \in Ranks : Len(sent[q]) >= k

\* The parts, of one size, one after the other: rank 0's first.
Concatenated(part, size) ==
  [i \in 1 .. config.tp * size |-> part[(i - 1) \div size][((i - 1) % size) + 1]]

\* The gathered rows concatenated over the ranks (dim 0), flat.
GatheredFlat(k) == Concatenated([q \in Ranks |-> sent[q][k]], Len(sent[0][k]))

\* _engram_sp_rows_kernel: a rank's chunk of the tokens, all columns.
SpRows_ChunkStride(r, k) ==
  LET num_tokens == Len(Batch(k))
      chunk == CeilDiv(num_tokens, config.tp)
      flat == GatheredFlat(k)
      cell(o) == LET token == r * chunk + (o \div Cols)
                     col == o % Cols
                     source == ((col \div LocalHeads) * chunk + token) * LocalHeads
                               + (col % LocalHeads)
                 IN IF token < num_tokens THEN flat[source + 1] ELSE Zero
  IN [i \in 1 .. chunk |-> [c \in 1 .. Cols |-> cell((i - 1) * Cols + c - 1)]]
SpRows(r, k) ==
  LET num_tokens == Len(Batch(k))
      chunk == CeilDiv(num_tokens, config.tp)
      flat == GatheredFlat(k)
      cell(o) == LET token == r * chunk + (o \div Cols)
                     col == o % Cols
                     source == ((col \div LocalHeads) * num_tokens + token) * LocalHeads
                               + (col % LocalHeads)
                 IN IF token < num_tokens THEN flat[source + 1] ELSE Zero
  IN [i \in 1 .. chunk |-> [c \in 1 .. Cols |-> cell((i - 1) * Cols + c - 1)]]

\* Engram.embed: the rows of the rank's tokens. The gather on dim 1 puts the
\* ranks' columns side by side and drops the padded heads.
Embed(r, k) ==
  IF config.tp = 1
  THEN [t \in 1 .. Len(Batch(k)) |-> SubSeq(staged[r], (t - 1) * Cols + 1, t * Cols)]
  ELSE IF config.sp THEN SpRows(r, k)
  ELSE [t \in 1 .. Len(Batch(k)) |-> [c \in 1 .. Cols |->
          sent[(c - 1) \div LocalHeads][k][(t - 1) * LocalHeads + ((c - 1) % LocalHeads) + 1]]]

\* Engram.forward: a token of this rank is fused with its rows unless it is
\* padding or its mask is off.
Fused(r, k) ==
  LET num_tokens == Len(Batch(k))
      shard_size == IF config.sp THEN CeilDiv(num_tokens, config.tp) ELSE num_tokens
      start == IF config.sp THEN LesserOf(r * shard_size, num_tokens) ELSE 0
      num_kv_tokens == LesserOf(shard_size, num_tokens - start)
      rows == Embed(r, k)
  IN [i \in 1 .. shard_size |->
        IF i <= num_kv_tokens /\ Batch(k)[start + i].active THEN rows[i] ELSE <<Untouched>>]

Forward(r) ==
  /\ pc[r] = "embed"
  /\ Arrived(StepOf(r))
  /\ output' = [output EXCEPT ![r] = Append(@, Fused(r, StepOf(r)))]
  /\ Goto(r, IF StepOf(r) = Len(config.steps) THEN "done" ELSE "lookup")
  /\ UNCHANGED <<config, dir, shard, ptr, view, staged, sent>>

RankStep(r) == Construct(r) \/ LoadWeights(r) \/ Lookup(r) \/ AllGather(r) \/ Forward(r)
Next == \E r \in Ranks : RankStep(r) \/ SwapData(r)
Spec == Init /\ [][Next]_vars
FairSpec == Spec /\ \A r \in 0 .. Max(TpSizes) - 1 : WF_vars(r \in Ranks /\ RankStep(r))

-----------------------------------------------------------------------------
(* Properties.                                                              *)

\* Staged contents are rows of the full table or zeros: never bytes of a hole of
\* a node-local copy, of another tensor or of a storage the shard has left.
TypeOK ==
  /\ config.tp \in TpSizes
  /\ pc \in [Ranks -> {"construct", "load", "lookup", "gather", "embed", "done", "failed"}]
  /\ dir \in [Ranks -> {"model", "local", None}]
  /\ \A r \in Ranks :
       /\ ToSet(shard[r]) \subseteq 0 .. NumEmbeddings - 1
       /\ ToSet(staged[r]) \subseteq (0 .. NumEmbeddings - 1) \cup {Zero}
       /\ Len(output[r]) <= Len(config.steps)
       /\ Len(sent[r]) - Len(output[r]) \in IF config.tp = 1 THEN -2 .. 0 ELSE {0, 1}

\* The reference: an unsharded model fuses every active token with the rows of the
\* full table its n-grams hash to.
WantedRows(k) ==
  [t \in 1 .. Len(Batch(k)) |->
     IF Batch(k)[t].active
     THEN [c \in 1 .. Cols |-> HashIds(config.sizes, Batch(k)[t].hash)[c - 1]]
     ELSE <<Untouched>>]

Whole(k) == Concatenated([q \in Ranks |-> output[q][k]], Len(output[0][k]))

\* Whatever the world size, the rank map, the place of the rows and the directory
\* they are read from, the ranks compute what one rank with the whole table would:
\* each of them all tokens, or, under sequence parallelism, consecutive chunks
\* that make up the step and padding that stays as it is.
FusedAsUnsharded ==
  \A k \in DOMAIN config.steps :
    IF config.sp
    THEN (\A r \in Ranks : k <= Len(output[r])) =>
           /\ \A r \in Ranks : Len(output[r][k]) = Len(output[0][k])
           /\ SubSeq(Whole(k), 1, Len(Batch(k))) = WantedRows(k)
           /\ \A i \in Len(Batch(k)) + 1 .. Len(Whole(k)) : Whole(k)[i] = <<Untouched>>
    ELSE \A r \in Ranks : k <= Len(output[r]) => output[r][k] = WantedRows(k)

\* Although every n-gram size starts its draw at the vocabulary size again, no two
\* columns have the same number of rows: equal columns would collide on the same
\* hashes, and a table with one such column fits the layout like any other.
NoSizeRedrawn == \A c, d \in 1 .. Cols : c # d => config.sizes[c] # config.sizes[d]

\* What lets a rank fail: a table too small for the layout, or for the rank's rows;
\* offloading without UVA; a machine that is not sound; a captured disk lookup.
Excused(r) ==
  \/ config.slack < 0
  \/ VocabEnd(r) > TableRows
  \/ config.mode = "offload" /\ ~config.uva
  \/ ~config.sound
  \/ config.mode = "in_forward" /\ config.capture

\* Without such an excuse a rank goes on whatever it is asked for: no row it reads for
\* a token lies outside its own part of the table, whichever rank map its directory was
\* made for. This does not hold of a disk rank that owns no head.
RanksGoOn ==
  \A r \in Ranks : pc[r] = "failed" /\ (OwnsHeads(r) \/ config.mode \notin DiskModes) => Excused(r)

\* The docstring of _disk_lookup says that padded heads and rows of other ranks are
\* zeros as in the kernel, so that a rank without a head has nothing to fail for.
HeadlessWriteZeros ==
  \A r \in Ranks : pc[r] = "failed" /\ config.mode = "in_forward" /\ ~OwnsHeads(r) => Excused(r)

\* Every rank finishes every step, ranks without a head included, unless some rank
\* has failed: then the others wait for it in the all-gather.
StepsEnd == <>((\A r \in Ranks : pc[r] = "done") \/ (\E r \in Ranks : pc[r] = "failed"))
=============================================================================
