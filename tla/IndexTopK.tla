------------------------------ MODULE IndexTopK ------------------------------
(***************************************************************************)
(* The top-k rows that index-source layers publish and the layers above     *)
(* them read (patch/attention.py: DeepseekV4Attention, DeepseekV4Indexer;   *)
(* patch/sparse_attn_indexer.py: sparse_attn_indexer). All layers share one *)
(* topk_indices_buffer, and the indexers from candidate_source_layer_id on  *)
(* share one buffer of candidate blocks. Both outlive the step.             *)
(*                                                                          *)
(* Tokens are numbered 0, 1, ... in the batch: first those of the decode    *)
(* requests, then those of the prefill chunks. A row of a buffer holds a    *)
(* record of what its content was computed from.                            *)
(***************************************************************************)
EXTENDS Integers, Sequences, FiniteSets, FiniteSetsExt

CONSTANTS
  NumLayers,
  Ratio,             \* compress_ratios: [layer -> 0, 1 or 2]
  IndexSources,      \* index_source_layer_ids
  CandidateSource,   \* candidate_source_layer_id
  TopK,              \* index_topk
  MaxRows,           \* rows of the buffers (max_num_batched_tokens)
  Batches,           \* [decode, prefill: query lengths, max_seq_len, replay]
  MaxSteps,          \* bound: steps
  None,              \* -1, or whatever memory held before
  Everything         \* the short-context selection of every position

Layers == 1 .. NumLayers
Rows == 0 .. MaxRows - 1

\* A consumer's source is below it; a source with candidates has the same kind of
\* compressed positions as the layer that published them.
ASSUME IndexAssumption ==
  /\ NumLayers \in Nat \ {0}
  /\ Ratio \in [Layers -> 0 .. 2]
  /\ IndexSources \subseteq {l \in Layers : Ratio[l] > 0}
  /\ \A l \in Layers : Ratio[l] > 0 => \E s \in IndexSources : s <= l
  /\ CandidateSource \in IndexSources
  /\ \A s \in IndexSources : s >= CandidateSource => Ratio[s] = Ratio[CandidateSource]

VARIABLES
  step,      \* steps begun
  batch,     \* the current step's batch
  layer,     \* the layer that runs
  pc,        \* where the layer is
  chunk,     \* the next prefill chunk
  topk,      \* topk_indices_buffer
  cand       \* candidate_block_buffer

vars == <<step, batch, layer, pc, chunk, topk, cand>>

\* index_source_layer_id: the most recently published source.
IndexSource(l) == Max({s \in IndexSources : s <= l})

-----------------------------------------------------------------------------
(* The batch's layout.                                                      *)

SumTo(lens, n) == MapThenSumSet(LAMBDA i : lens[i], 1 .. n)
NumDecodeTokens(b) == SumTo(b.decode, Len(b.decode))
NumTokens(b) == NumDecodeTokens(b) + SumTo(b.prefill, Len(b.prefill))

ChunkTokens_Short(b, c) ==
  LET start == NumDecodeTokens(b) + SumTo(b.prefill, c - 1)
  IN  start .. start + b.prefill[c] - 2
\* chunk.token_start .. chunk.token_end - 1
ChunkTokens(b, c) ==
  LET start == NumDecodeTokens(b) + SumTo(b.prefill, c - 1)
  IN  start .. start + b.prefill[c] - 1

NextN(b) == Max({b.decode[i] : i \in DOMAIN b.decode})
RequiresPadding(b) == \E i \in DOMAIN b.decode : b.decode[i] # NextN(b)
NumPadded(b) == Len(b.decode) * NextN(b)

\* The token whose query pack_seq_triton puts into a row of the padded batch.
PackedToken(b, row) ==
  LET req == row \div NextN(b) + 1
      pos == row % NextN(b)
  IN  IF pos < b.decode[req] THEN SumTo(b.decode, req - 1) + pos ELSE None

\* A batch has a row of each buffer for every token, and for every place of the padded
\* batch, whose results are written to the buffer before they are unpacked.
ASSUME BatchAssumption ==
  /\ MaxRows \in Nat /\ MaxSteps \in Nat
  /\ \A b \in Batches :
       /\ b.decode \in Seq(Nat \ {0}) /\ b.prefill \in Seq(Nat \ {0})
       /\ NumTokens(b) <= MaxRows
       /\ b.decode # <<>> => NumPadded(b) <= MaxRows

-----------------------------------------------------------------------------
(* What a row can be computed from: the step, the layer, the token whose    *)
(* query and the token whose weights went in, and the candidates the scores *)
(* were masked to, Everything for a short context's rows.                   *)

All(t) == [step |-> step, layer |-> layer, token |-> t, weights |-> t, mask |-> Everything]
Selected(t, w, mask) ==
  [step |-> step, layer |-> layer, token |-> t, weights |-> w, mask |-> mask]
Candidates(t, w) == [step |-> step, token |-> t, weights |-> w]

\* What the rows of the two buffers hold after n steps.
CandRows(n) == [step : 1 .. n, token : Rows \cup {None}, weights : Rows]
TopkRows(n) == [step : 1 .. n, layer : IndexSources, token : Rows \cup {None},
                weights : Rows, mask : {None, Everything} \cup CandRows(n)]

\* A row never written is told from every row that was.
ASSUME NoneAssumption == None \notin TopkRows(MaxSteps)

Writes == layer = CandidateSource
Masks == layer > CandidateSource

\* What the rows of a kernel call get. For each row: the token whose query it holds,
\* the row its weights are taken from and the row of the candidates its scores are
\* masked to.
Results(token, weightsRow, maskRow) ==
  [r \in DOMAIN token |->
     Selected(token[r], weightsRow[r], IF Masks THEN cand[maskRow[r]] ELSE None)]
PublishCandidates(token, weightsRow) ==
  cand' = [r \in Rows |->
    IF Writes /\ r \in DOMAIN token THEN Candidates(token[r], weightsRow[r]) ELSE cand[r]]
Stored(results) ==
  topk' = [r \in Rows |-> IF r \in DOMAIN results THEN results[r] ELSE topk[r]]
Same(R) == [r \in R |-> r]

-----------------------------------------------------------------------------
Init ==
  /\ step = 0
  /\ batch = None
  /\ layer = NumLayers
  /\ pc = "done"
  /\ chunk = 1
  /\ topk = [r \in Rows |-> None]
  /\ cand = [r \in Rows |-> None]

StartStep(b) ==
  /\ pc = "done"
  /\ step < MaxSteps
  /\ step' = step + 1
  /\ batch' = b
  /\ layer' = 1
  /\ pc' = "index"
  /\ UNCHANGED <<chunk, topk, cand>>

\* A graph replay runs what was captured, and the capture never takes this path.
ShortContext ==
  /\ layer \in IndexSources
  /\ ~batch.replay
  /\ batch.max_seq_len \div Ratio[layer] <= TopK

NoIndexer ==
  /\ pc = "index"
  /\ layer \notin IndexSources
  /\ pc' = "attend"
  /\ UNCHANGED <<step, batch, layer, chunk, topk, cand>>

IndexShort ==
  /\ pc = "index"
  /\ ShortContext
  /\ topk' = [r \in Rows |-> IF r < NumTokens(batch) THEN All(r) ELSE topk[r]]
  /\ pc' = "attend"
  /\ UNCHANGED <<step, batch, layer, chunk, cand>>

\* sparse_attn_indexer clears the batch's rows first.
IndexClear_EveryLayer ==
  /\ pc = "index"
  /\ Ratio[layer] > 0
  /\ ~ShortContext
  /\ topk' = [r \in Rows |-> IF r < NumTokens(batch) THEN None ELSE topk[r]]
  /\ pc' = "prefill"
  /\ chunk' = 1
  /\ UNCHANGED <<step, batch, layer, cand>>
IndexClear ==
  /\ pc = "index"
  /\ layer \in IndexSources
  /\ ~ShortContext
  /\ topk' = [r \in Rows |-> IF r < NumTokens(batch) THEN None ELSE topk[r]]
  /\ pc' = "prefill"
  /\ chunk' = 1
  /\ UNCHANGED <<step, batch, layer, cand>>

IndexPrefill_RelativeMask ==
  /\ pc = "prefill"
  /\ chunk <= Len(batch.prefill)
  /\ LET R == ChunkTokens(batch, chunk)
         Relative == [r \in R |-> r - Min(R)] IN
     /\ Stored(Results(Same(R), Same(R), Relative))
     /\ PublishCandidates(Same(R), Same(R))
  /\ chunk' = chunk + 1
  /\ UNCHANGED <<step, batch, layer, pc>>
IndexPrefill_RelativeWeights ==
  /\ pc = "prefill"
  /\ chunk <= Len(batch.prefill)
  /\ LET R == ChunkTokens(batch, chunk)
         Relative == [r \in R |-> r - Min(R)] IN
     /\ Stored(Results(Same(R), Relative, Same(R)))
     /\ PublishCandidates(Same(R), Relative)
  /\ chunk' = chunk + 1
  /\ UNCHANGED <<step, batch, layer, pc>>
IndexPrefill ==
  /\ pc = "prefill"
  /\ chunk <= Len(batch.prefill)
  /\ LET R == ChunkTokens(batch, chunk) IN
     /\ Stored(Results(Same(R), Same(R), Same(R)))
     /\ PublishCandidates(Same(R), Same(R))
  /\ chunk' = chunk + 1
  /\ UNCHANGED <<step, batch, layer, pc>>

PrefillDone ==
  /\ pc = "prefill"
  /\ chunk > Len(batch.prefill)
  /\ pc' = IF batch.decode = <<>> THEN "attend" ELSE "decode"
  /\ UNCHANGED <<step, batch, layer, chunk, topk, cand>>

\* The decode rows, packed when the requests' lengths differ, with the weights and
\* the candidates of the rows as they are; the packed result stays in the buffer
\* until unpack_seq_triton's rows overwrite the first num_decode_tokens of it.
IndexDecode ==
  /\ pc = "decode"
  /\ LET R == 0 .. NumPadded(batch) - 1
         token == [r \in R |-> IF RequiresPadding(batch) THEN PackedToken(batch, r) ELSE r]
         results == Results(token, Same(R), Same(R))
         decoded == 0 .. NumDecodeTokens(batch) - 1
     IN
     /\ Stored([t \in decoded \cup R |->
          IF t \in decoded THEN results[CHOOSE r \in R : token[r] = t] ELSE results[t]])
     /\ PublishCandidates(token, Same(R))
  /\ pc' = "attend"
  /\ UNCHANGED <<step, batch, layer, chunk>>

\* forward_mqa reads the batch's rows; then the next layer, or the end of the step.
Attend ==
  /\ pc = "attend"
  /\ IF layer < NumLayers THEN layer' = layer + 1 /\ pc' = "index"
     ELSE pc' = "done" /\ UNCHANGED layer
  /\ UNCHANGED <<step, batch, chunk, topk, cand>>

Next ==
  \/ \E b \in Batches : StartStep(b)
  \/ NoIndexer
  \/ IndexShort
  \/ IndexClear
  \/ IndexPrefill
  \/ PrefillDone
  \/ IndexDecode
  \/ Attend

Spec == Init /\ [][Next]_vars

-----------------------------------------------------------------------------
(* Properties                                                               *)

TypeOK ==
  /\ step \in 0 .. MaxSteps
  /\ batch \in Batches \cup {None}
  /\ layer \in Layers
  /\ pc \in {"done", "index", "prefill", "decode", "attend"}
  /\ topk \in [Rows -> {None} \cup TopkRows(step)]
  /\ cand \in [Rows -> {None} \cup CandRows(step)]

\* The rows a layer's attention reads.
Consumed == IF pc = "attend" /\ Ratio[layer] > 0 THEN 0 .. NumTokens(batch) - 1 ELSE {}

\* "consumers reuse the topk indices it publishes": every row a layer reads was
\* computed in this step, by its own index source, from the row's own token -
\* never left by an earlier step, another source or a padded row.
RowsFromOwnSource ==
  \A t \in Consumed :
    /\ topk[t] # None
    /\ topk[t].step = step
    /\ topk[t].layer = IndexSource(layer)
    /\ topk[t].token = t

\* "per-token scale is folded into weights": a token's scores are weighted by its own
\* weights.
RowsFromOwnWeights == \A t \in Consumed : topk[t].weights = t

\* "later indexers mask their scores to those blocks": the candidates a row was
\* masked to are those this step's source published for the row's own token.
MaskedByOwnCandidates ==
  \A t \in Consumed :
    topk[t].layer > CandidateSource /\ topk[t].mask # Everything =>
      topk[t].mask = [step |-> step, token |-> t, weights |-> t]
=============================================================================
