---------------------------- MODULE SwaMetadata ----------------------------
(***************************************************************************)
(* Sliding-window attention metadata (patch/sparse_swa.py:                  *)
(* DeepseekSparseSWAMetadataBuilder and its kernels) and the layers that    *)
(* read through it (patch/flashinfer_sparse.py).                            *)
(*                                                                          *)
(* Per forward pass the builder turns query spans, lengths and block tables *)
(* into the cache slots each token attends to, in buffers that live as long *)
(* as the process (captured graphs read them). A step is the pass of the    *)
(* target's queries and then draft passes: one query per request, updated   *)
(* in place from pass to pass (MTP), or one non-causal block per request    *)
(* (DSpark). The scheduler, which gives out blocks and takes back those the *)
(* window has left, is external.                                            *)
(*                                                                          *)
(* A slot's content is [req, epoch, pos]: whose key it is. Positions start  *)
(* at 0; rows and tokens at 1. Block 0 is the null block.                   *)
(***************************************************************************)
EXTENDS Integers, Sequences, FiniteSets, SequencesExt, FiniteSetsExt, PrefillPlan

CONSTANTS
  Requests,
  PromptLen,        \* [request -> length of its prompt]
  Spans,            \* [request -> sequence of image spans <<first, last>>]
  MaxLen,           \* bound: a request's text
  NumBlocks,
  BlockSize,
  Window,           \* sliding_window
  MaxImageTokens,   \* vision_max_n_token, 0 for a text model
  NumSpec,          \* [drafter -> num_speculative_tokens]
  Deployments,      \* set of <<"none", "mtp" or "dspark", "mixed" or "sm120">>
  DraftBlock,       \* queries of a DSpark draft block
  PrefillChunk,     \* PREFILL_CHUNK_SIZE
  MaxTokens,        \* max_num_batched_tokens
  MaxPreempts,      \* bound: a request's preemptions
  None

Threshold(d) == 1 + (IF d = "dspark" THEN 2 ELSE 1) * NumSpec[d]
Blocks == 1 .. NumBlocks
Slots == BlockSize .. BlockSize * (NumBlocks + 1) - 1
PrefillWidth_TextOnly == Window
PrefillWidth == Window + MaxImageTokens    \* prefill_index_width
NoncausalWidth == Window + DraftBlock      \* get_dspark_swa_index_width, before padding

ASSUME SwaAssumption ==
  /\ PromptLen \in [Requests -> Nat \ {0}]
  /\ {BlockSize, Window, PrefillChunk} \subseteq Nat \ {0}
  /\ {NumBlocks, MaxImageTokens, MaxLen, MaxTokens} \subseteq Nat
  /\ NumSpec \in [{"none", "mtp", "dspark"} -> Nat]
  /\ DraftBlock \in 1 .. 1 + NumSpec["dspark"]
  /\ Deployments \subseteq {"none", "mtp", "dspark"} \X {"mixed", "sm120"}
  \* The images of a prompt follow each other, and the vision model bounds an image
  \* by vision_max_n_token.
  /\ \A r \in Requests :
       /\ Spans[r] \in Seq(Nat \X Nat)
       /\ \A i \in DOMAIN Spans[r] :
            LET span == Spans[r][i] IN
            /\ span[1] <= span[2] /\ span[2] < PromptLen[r]
            /\ span[2] - span[1] < MaxImageTokens
            /\ \A j \in 1 .. i - 1 : Spans[r][j][2] < span[1]
  \* The plan is made from the same configuration.
  /\ MaxLen <= PlanModelLen /\ MaxTokens <= PlanBatched

VARIABLES
  drafter, path,   \* the deployment's drafter and attention path
  pc,              \* what the runner does next
  computed,        \* [request -> tokens whose keys are cached]
  epoch,           \* [request -> how often it was preempted]
  table,           \* [request -> block table; 0 for a block the window has left]
  kv,              \* [slot -> content]
  queries,         \* the pass's queries, decodes first: sequence of [req, start, n]
  meta,            \* DeepseekSparseSWAMetadata of the pass
  is_valid_token, token_to_req, decode_swa_indices, decode_swa_lens,
  prefill_swa_indices, prefill_swa_lens, left_visible, right_visible,
  cache,           \* flashinfer_sparse_index_cache["swa_only"]
  reads,           \* history: [token -> the contents it read] of the pass
  drafts           \* the step's pass: 0 for the target's, k for the k-th draft pass

\* Causal and DSpark rows have a buffer each; a pass sees only rows its build wrote, so
\* one variable stands for both.
buffers == <<is_valid_token, token_to_req, decode_swa_indices, decode_swa_lens,
             prefill_swa_indices, prefill_swa_lens, left_visible, right_visible>>
vars == <<drafter, path, pc, computed, epoch, table, kv, queries, meta, buffers,
          cache, reads, drafts>>

Tokens == 1 .. MaxTokens

\* The k-th smallest of a set of numbers.
Nth(S, k) == CHOOSE x \in S : Cardinality({y \in S : y < x}) = k - 1

NoMeta == [num_decodes |-> 0, num_decode_tokens |-> 0, num_prefill_tokens |-> 0,
           image |-> FALSE, causal |-> TRUE]

Init ==
  /\ \E d \in Deployments : drafter = d[1] /\ path = d[2]
  /\ pc = "schedule"
  /\ computed = [r \in Requests |-> 0]
  /\ epoch = [r \in Requests |-> 0]
  /\ table = [r \in Requests |-> <<>>]
  /\ kv = [s \in Slots |-> None]
  /\ queries = <<>>
  /\ meta = NoMeta
  /\ is_valid_token = [i \in Tokens |-> FALSE]
  /\ token_to_req = [i \in Tokens |-> 1]
  /\ decode_swa_indices = [i \in Tokens |-> <<>>]
  /\ decode_swa_lens = [i \in Tokens |-> 0]
  /\ prefill_swa_indices = [i \in Tokens |-> <<>>]
  /\ prefill_swa_lens = [i \in Tokens |-> 0]
  /\ left_visible = [i \in Tokens |-> 0]
  /\ right_visible = [i \in Tokens |-> 0]
  /\ cache = None
  /\ reads = <<>>
  /\ drafts = 0

-----------------------------------------------------------------------------
(* The pass's tokens, flat.                                                 *)

Lens(qs) == [row \in DOMAIN qs |-> qs[row].n]
QueryStartLoc(qs, row) == MapThenSumSet(LAMBDA k : Lens(qs)[k], 1 .. row - 1)
Total(qs) == QueryStartLoc(qs, Len(qs) + 1)
RowOf(qs, i) == CHOOSE row \in DOMAIN qs :
                  QueryStartLoc(qs, row) < i /\ i <= QueryStartLoc(qs, row + 1)
\* pos = prefix_len + token_idx - query_start, with the row the buffer names.
PosOf(qs, row, i) == qs[row].start + i - 1 - QueryStartLoc(qs, row)

SlotOf(r, pos) == table[r][pos \div BlockSize + 1] * BlockSize + (pos % BlockSize)

-----------------------------------------------------------------------------
(* The scheduler.                                                           *)

Used == (UNION {ToSet(table[r]) : r \in Requests}) \ {0}

\* Blocks whose positions all lie before the window of the next token to compute.
Skipped(r) == GreaterOf(computed[r] - Window + 1, 0) \div BlockSize
Remaining(r) ==
  [i \in DOMAIN table[r] |-> IF i <= Skipped(r) THEN 0 ELSE table[r][i]]

\* What r can be given, and what it needs to compute up to position `end`, drafts included.
Free(r) == Blocks \ (Used \ {table[r][i] : i \in 1 .. LesserOf(Skipped(r), Len(table[r]))})
Fresh(r, end) == CeilDiv(end + NumSpec[drafter] + 1, BlockSize) - Len(table[r])

\* An image span is computed in one step.
Atomic(r, start, end) ==
  \A i \in DOMAIN Spans[r] :
    LET span == Spans[r][i] IN
    \/ end <= span[1] \/ span[2] < start
    \/ start <= span[1] /\ span[2] < end

\* Request r joins the step with n tokens: blocks the window has left are taken
\* back, and blocks for the tokens and the drafts after them are given. Requests
\* in their decode join before the others.
Schedule(r, n) ==
  LET start == computed[r]
      end == start + n
  IN
  /\ pc = "schedule"
  /\ \A row \in DOMAIN queries : queries[row].req # r
  /\ Total(queries) + n <= MaxTokens
  /\ end <= MaxLen
  /\ IF start < PromptLen[r]
     THEN end <= PromptLen[r] /\ Atomic(r, start, end)
     ELSE n <= 1 + NumSpec[drafter]
  /\ queries # <<>> => n > Threshold(drafter) \/ queries[Len(queries)].n <= Threshold(drafter)
  /\ Fresh(r, end) <= Cardinality(Free(r))
  /\ table' = [table EXCEPT ![r] = Remaining(r) \o [i \in 1 .. Fresh(r, end) |-> Nth(Free(r), i)]]
  /\ queries' = Append(queries, [req |-> r, start |-> start, n |-> n])
  /\ UNCHANGED <<drafter, path, pc, computed, epoch, kv, meta, buffers, cache, reads, drafts>>

\* A request is preempted when another cannot be given what it needs.
Preempt(r) ==
  /\ pc = "schedule"
  /\ queries = <<>>
  /\ table[r] # <<>>
  /\ \E q \in Requests \ {r} : /\ computed[q] < MaxLen
                              /\ Fresh(q, computed[q] + 1) > Cardinality(Free(q))
  /\ \A q \in Requests : epoch[q] < MaxPreempts
  /\ epoch' = [epoch EXCEPT ![r] = @ + 1]
  /\ computed' = [computed EXCEPT ![r] = 0]
  /\ table' = [table EXCEPT ![r] = <<>>]
  /\ UNCHANGED <<drafter, path, pc, kv, queries, meta, buffers, cache, reads, drafts>>

-----------------------------------------------------------------------------
(* The builder's kernels.                                                   *)

\* The slots of request r's positions start .. end - 1, filled up to the width.
IndexRow(r, start, end, width) ==
  [o \in 1 .. width |-> IF start + o - 1 < end THEN SlotOf(r, start + o - 1) ELSE -1]

\* _compute_image_visibility_kernel: the extra tokens a token sees inside its span.
\* The kernel goes through the spans in order, so the last that contains it counts.
SpanAt(r, pos) ==
  Max({0} \cup {k \in DOMAIN Spans[r] : Spans[r][k][1] <= pos /\ pos <= Spans[r][k][2]})
LeftVisible(r, pos) ==
  LET k == SpanAt(r, pos) IN
  IF k = 0 THEN 0 ELSE LesserOf(pos - Spans[r][k][1], MaxImageTokens - 1)
RightVisible(r, pos) ==
  LET k == SpanAt(r, pos) IN
  IF k = 0 THEN 0 ELSE LesserOf(Spans[r][k][2] - pos, MaxImageTokens)

\* _compute_swa_indices_and_lens_kernel: first position of a token's window.
StartPos(pos, left) ==
  GreaterOf(pos - (Window - 1) - GreaterOf(left - (Window - 1), 0), 0)
EndPos(pos, right) == pos + right + 1

\* The kernel's row for token i of queries qs: <<indices, len>>. A token without a
\* slot gets a cleared row.
CausalRow_AnyToken(qs, i, valid, reqs, left, right, width) ==
  LET row == LesserOf(reqs[i], Len(qs))
      pos == PosOf(qs, row, i)
      start == StartPos(pos, left)
      end == LesserOf(EndPos(pos, right), Len(table[qs[row].req]) * BlockSize)
  IN <<IndexRow(qs[row].req, start, end, width), GreaterOf(end - start, 0)>>
CausalRow(qs, i, valid, reqs, left, right, width) ==
  IF ~valid[i] THEN <<[o \in 1 .. width |-> -1], 0>>
  ELSE LET row == reqs[i]
           pos == PosOf(qs, row, i)
           start == StartPos(pos, left)
           end == EndPos(pos, right)
       IN <<IndexRow(qs[row].req, start, end, width), end - start>>

\* The DSpark block: the window before the block, and all of the block.
NoncausalRow(qs, i, valid, reqs) ==
  IF ~valid[i] THEN <<[o \in 1 .. NoncausalWidth |-> -1], 0>>
  ELSE LET q == qs[reqs[i]]
           start == GreaterOf(q.start - Window, 0)
           end == q.start + q.n
       IN <<IndexRow(q.req, start, end, NoncausalWidth), end - start>>

\* split_decodes_and_prefills: the leading requests with few enough queries.
NumDecodes(qs) ==
  Max({n \in 0 .. Len(qs) : \A row \in 1 .. n : qs[row].n <= Threshold(drafter)})

\* build: metadata for the queries. A batch of decodes may be padded to a captured
\* size; padded tokens have no slot, and their entry of token_to_req is old.
Build(qs, causal, pad) ==
  LET decodes == NumDecodes(qs)
      prefill_tokens == Total(qs) - QueryStartLoc(qs, decodes + 1)
      decode_tokens == QueryStartLoc(qs, decodes + 1) + pad
      tokens == Total(qs)
      valid == [i \in Tokens |-> IF i <= tokens + pad THEN i <= tokens ELSE is_valid_token[i]]
      reqs == [i \in Tokens |-> IF i <= tokens THEN RowOf(qs, i) ELSE token_to_req[i]]
      image == /\ MaxImageTokens > 0 /\ prefill_tokens > 0
               /\ \E row \in DOMAIN qs : Spans[qs[row].req] # <<>>
      prefill(i) == decode_tokens < i /\ i <= decode_tokens + prefill_tokens
      left == [i \in Tokens |-> IF image /\ prefill(i)
                 THEN LeftVisible(qs[reqs[i]].req, PosOf(qs, reqs[i], i)) ELSE left_visible[i]]
      right == [i \in Tokens |-> IF image /\ prefill(i)
                 THEN RightVisible(qs[reqs[i]].req, PosOf(qs, reqs[i], i)) ELSE right_visible[i]]
      decode_row == [i \in 1 .. decode_tokens |->
                       IF causal THEN CausalRow(qs, i, valid, reqs, 0, 0, Window)
                       ELSE NoncausalRow(qs, i, valid, reqs)]
      prefill_row == [i \in 1 .. prefill_tokens |->
                        LET t == decode_tokens + i IN
                        CausalRow(qs, t, valid, reqs, IF image THEN left[t] ELSE 0,
                                  IF image THEN right[t] ELSE 0, PrefillWidth)]
  IN
  /\ decodes < Len(qs) => pad = 0
  /\ tokens + pad <= MaxTokens
  /\ queries' = qs
  /\ is_valid_token' = valid
  /\ token_to_req' = reqs
  /\ left_visible' = left
  /\ right_visible' = right
  /\ decode_swa_indices' = [i \in Tokens |->
       IF i <= decode_tokens THEN decode_row[i][1] ELSE decode_swa_indices[i]]
  /\ decode_swa_lens' = [i \in Tokens |->
       IF i <= decode_tokens THEN decode_row[i][2]
       ELSE IF decode_tokens > 0 THEN 0 ELSE decode_swa_lens[i]]
  /\ prefill_swa_indices' = [i \in Tokens |->
       IF i <= prefill_tokens THEN prefill_row[i][1] ELSE prefill_swa_indices[i]]
  /\ prefill_swa_lens' = [i \in Tokens |->
       IF i <= prefill_tokens THEN prefill_row[i][2] ELSE prefill_swa_lens[i]]
  /\ meta' = [num_decodes |-> decodes, num_decode_tokens |-> decode_tokens,
              num_prefill_tokens |-> prefill_tokens, image |-> image, causal |-> causal]
  /\ cache' = None
  /\ pc' = "attend"
  /\ UNCHANGED <<drafter, path, computed, epoch, table, kv, reads>>

\* The target's pass.
BuildStep(pad) ==
  /\ pc = "schedule"
  /\ queries # <<>>
  /\ Build(queries, TRUE, pad)
  /\ UNCHANGED drafts

-----------------------------------------------------------------------------
(* The layers.                                                              *)

\* _forward_prefill: a kernel call per PrefillChunk requests, each with the rows of
\* the prefill buffer between its first and its last query.
PrefillRows_OnceOnly(qs) ==
  LET base == QueryStartLoc(qs, meta.num_decodes + 1)
      last == LesserOf(PrefillChunk, Len(qs) - meta.num_decodes)
  IN [t \in base + 1 .. QueryStartLoc(qs, meta.num_decodes + last + 1) |->
        <<prefill_swa_indices[t - base], prefill_swa_lens[t - base]>>]
PrefillRows(qs) ==
  LET base == QueryStartLoc(qs, meta.num_decodes + 1)
      prefills == Len(qs) - meta.num_decodes
      chunks == 0 .. CeilDiv(prefills, PrefillChunk) - 1
      first(c) == QueryStartLoc(qs, meta.num_decodes + c * PrefillChunk + 1) - base
      last(c) == QueryStartLoc(qs, meta.num_decodes
                                     + LesserOf((c + 1) * PrefillChunk, prefills) + 1) - base
      covered == UNION {first(c) + 1 .. last(c) : c \in chunks}
  IN [t \in {base + i : i \in covered} |->
        <<prefill_swa_indices[t - base], prefill_swa_lens[t - base]>>]

DecodeRows ==
  [t \in 1 .. meta.num_decode_tokens |-> <<decode_swa_indices[t], decode_swa_lens[t]>>]

\* build_flashinfer_mixed_sparse_indices: the decode rows as they are, prefill rows
\* computed from the pass's lengths.
MixedRows ==
  [t \in 1 .. meta.num_decode_tokens + meta.num_prefill_tokens |->
     IF t <= meta.num_decode_tokens THEN DecodeRows[t]
     ELSE CausalRow(queries, t, is_valid_token, token_to_req,
                    IF meta.image THEN left_visible[t] ELSE 0,
                    IF meta.image THEN right_visible[t] ELSE 0, PrefillWidth)]

\* The rows of two kernel calls, each given its own tokens'.
Calls(one, other) ==
  [t \in DOMAIN one \cup DOMAIN other |-> IF t \in DOMAIN one THEN one[t] ELSE other[t]]

\* _forward: a kernel call for the decodes and one for the prefills, each given its
\* slice of the pass's rows.
TwoCalls(rows) ==
  Calls([t \in 1 .. meta.num_decode_tokens |-> rows[t]],
        [t \in {meta.num_decode_tokens + i : i \in 1 .. meta.num_prefill_tokens} |-> rows[t]])

Rows ==
  IF path = "sm120" THEN Calls(PrefillRows(queries), DecodeRows)
  ELSE TwoCalls(IF cache # None THEN cache ELSE MixedRows)

\* A pass of the layers: every token's key goes to its slot, then tokens read
\* through their rows. On the mixed path the first layer keeps the rows for the rest.
Attend ==
  LET tokens == Total(queries)
      slot(i) == SlotOf(queries[RowOf(queries, i)].req,
                        PosOf(queries, RowOf(queries, i), i))
      key(i) == LET r == queries[RowOf(queries, i)].req IN
                [req |-> r, epoch |-> epoch[r], pos |-> PosOf(queries, RowOf(queries, i), i)]
      written == {slot(i) : i \in 1 .. tokens}
      rows == Rows
      content(s) == IF s \in Slots THEN kv'[s] ELSE None
  IN
  /\ pc = "attend"
  /\ kv' = [s \in Slots |-> IF s \in written
                            THEN key(CHOOSE i \in 1 .. tokens : slot(i) = s) ELSE kv[s]]
  /\ reads' = [t \in DOMAIN rows |-> [o \in 1 .. rows[t][2] |-> content(rows[t][1][o])]]
  /\ cache' = IF path = "mixed" THEN rows ELSE cache
  /\ pc' = IF drafts = 0 THEN "sample" ELSE "drafted"
  /\ UNCHANGED <<drafter, path, computed, epoch, table, queries, meta, buffers, drafts>>

-----------------------------------------------------------------------------
(* After the pass.                                                          *)

EndStep ==
  /\ pc' = "schedule"
  /\ queries' = <<>>
  /\ drafts' = 0
  /\ reads' = <<>>
  /\ UNCHANGED <<drafter, path, epoch, table, kv, meta, buffers, cache>>

\* The target's outcome: a prompt's chunk is computed; of a decode, its token and
\* some of its drafts are. Requests whose prompt is computed go on drafting at their
\* first token not computed: one query each, or a block.
Sample(accepted) ==
  LET drafting == {row \in DOMAIN queries :
                     /\ drafter # "none"
                     /\ computed'[queries[row].req] >= PromptLen[queries[row].req]}
      next == [k \in 1 .. Cardinality(drafting) |->
                 LET r == queries[Nth(drafting, k)].req IN
                 [req |-> r, start |-> computed'[r],
                  n |-> IF drafter = "dspark" THEN DraftBlock ELSE 1]]
  IN
  /\ pc = "sample"
  /\ computed' = [r \in Requests |->
       IF \E row \in DOMAIN queries : queries[row].req = r
       THEN LET q == queries[CHOOSE row \in DOMAIN queries : queries[row].req = r] IN
            q.start + IF q.start < PromptLen[r] THEN q.n ELSE LesserOf(q.n, accepted + 1)
       ELSE computed[r]]
  /\ IF next = <<>> \/ Total(next) > MaxTokens
     THEN EndStep
     ELSE /\ queries' = next
          /\ pc' = "draft"
          /\ drafts' = 1
          /\ reads' = <<>>
          /\ UNCHANGED <<drafter, path, epoch, table, kv, meta, buffers, cache>>

\* The first draft pass.
BuildDraft(pad) ==
  /\ pc = "draft"
  /\ Build(queries, drafter # "dspark", pad)
  /\ UNCHANGED drafts

\* The next MTP pass: the runner moves every query one position on, and
\* update_draft_decode_metadata recomputes the metadata's rows where they are.
UpdateDraft_KeepsCache ==
  LET next == [row \in DOMAIN queries |-> [queries[row] EXCEPT !.start = @ + 1]]
      row == [i \in 1 .. meta.num_decode_tokens |->
                CausalRow(next, i, is_valid_token, token_to_req, 0, 0, Window)]
  IN
  /\ pc = "drafted"
  /\ drafter = "mtp" /\ drafts < NumSpec[drafter]
  /\ queries' = next
  /\ decode_swa_indices' = [i \in Tokens |->
       IF i <= meta.num_decode_tokens THEN row[i][1] ELSE decode_swa_indices[i]]
  /\ decode_swa_lens' = [i \in Tokens |->
       IF i <= meta.num_decode_tokens THEN row[i][2] ELSE decode_swa_lens[i]]
  /\ drafts' = drafts + 1
  /\ pc' = "attend"
  /\ UNCHANGED <<drafter, path, computed, epoch, table, kv, meta, is_valid_token,
                 token_to_req, prefill_swa_indices, prefill_swa_lens, left_visible,
                 right_visible, cache, reads>>
UpdateDraft ==
  LET next == [row \in DOMAIN queries |-> [queries[row] EXCEPT !.start = @ + 1]]
      row == [i \in 1 .. meta.num_decode_tokens |->
                CausalRow(next, i, is_valid_token, token_to_req, 0, 0, Window)]
  IN
  /\ pc = "drafted"
  /\ drafter = "mtp" /\ drafts < NumSpec[drafter]
  /\ queries' = next
  /\ decode_swa_indices' = [i \in Tokens |->
       IF i <= meta.num_decode_tokens THEN row[i][1] ELSE decode_swa_indices[i]]
  /\ decode_swa_lens' = [i \in Tokens |->
       IF i <= meta.num_decode_tokens THEN row[i][2] ELSE decode_swa_lens[i]]
  /\ cache' = IF meta.num_decode_tokens = 0 THEN cache ELSE None
  /\ drafts' = drafts + 1
  /\ pc' = "attend"
  /\ UNCHANGED <<drafter, path, computed, epoch, table, kv, meta, is_valid_token,
                 token_to_req, prefill_swa_indices, prefill_swa_lens, left_visible,
                 right_visible, reads>>

EndDrafts ==
  /\ pc = "drafted"
  /\ drafter = "mtp" => drafts = NumSpec[drafter]
  /\ EndStep
  /\ UNCHANGED computed

Next ==
  \/ \E r \in Requests : Preempt(r) \/ \E n \in Tokens : Schedule(r, n)
  \/ \E pad \in {0, 1} : BuildStep(pad) \/ BuildDraft(pad)
  \/ Attend
  \/ \E accepted \in 0 .. NumSpec[drafter] : Sample(accepted)
  \/ UpdateDraft
  \/ EndDrafts
Spec == Init /\ [][Next]_vars

-----------------------------------------------------------------------------
(* Properties.                                                              *)

\* Rows name slots of the cache, and no row is longer than its buffer is wide: a
\* longer one would run on into the next token's row.
TypeOK ==
  /\ pc \in {"schedule", "attend", "sample", "draft", "drafted"}
  /\ \A r \in Requests : ToSet(table[r]) \subseteq 0 .. NumBlocks
  /\ \A i \in Tokens :
       /\ ToSet(decode_swa_indices[i]) \cup ToSet(prefill_swa_indices[i])
            \subseteq 0 .. BlockSize * (NumBlocks + 1)  \cup {-1}
       /\ decode_swa_lens[i] <= GreaterOf(Window, Len(decode_swa_indices[i]))
       /\ prefill_swa_lens[i] <= PrefillWidth
       /\ prefill_swa_lens[i] <= GreaterOf(0, Len(prefill_swa_indices[i]))

\* Query token i's request and position.
QueryOf(i) == queries[RowOf(queries, i)]
Position(i) == PosOf(queries, RowOf(queries, i), i)
Containing(q, pos) == {span \in ToSet(Spans[q.req]) : span[1] <= pos /\ pos <= span[2]}

\* The reference: a token sees the Window positions that end with its own, a token
\* of an image also all of the image, a DSpark block the Window positions before it
\* and itself.
FirstSeen(q, pos) ==
  IF meta.causal
  THEN Min({GreaterOf(pos - Window + 1, 0)} \cup {span[1] : span \in Containing(q, pos)})
  ELSE GreaterOf(q.start - Window, 0)
LastSeen(q, pos) ==
  IF meta.causal THEN Max({pos} \cup {span[2] : span \in Containing(q, pos)})
  ELSE q.start + q.n - 1

SeesItsWindow(i) ==
  LET q == QueryOf(i)
      first == FirstSeen(q, Position(i))
      last == LastSeen(q, Position(i))
  IN /\ i \in DOMAIN reads
     /\ reads[i] = [o \in 1 .. last - first + 1 |->
                      [req |-> q.req, epoch |-> epoch[q.req], pos |-> first + o - 1]]

\* In the target's pass every query of the batch reads the keys of its own window, in
\* order, whatever was computed, rejected, preempted and given to other requests
\* before: never a block the window had left, another request's key or an older one.
WindowExact == pc = "sample" => \A i \in 1 .. Total(queries) : SeesItsWindow(i)

\* So does every query of every draft pass, though its rows are updated in place and
\* the layers may have kept rows of the pass before.
DraftWindowExact == pc = "drafted" => \A i \in 1 .. Total(queries) : SeesItsWindow(i)

\* A padded token of a captured graph reads nothing, although the rows and the
\* request map it is given still hold values of earlier passes.
PaddingReadsNothing ==
  pc \in {"sample", "drafted"} =>
    \A i \in DOMAIN reads : i > Total(queries) => reads[i] = <<>>

\* Every position a prefill's token sees is gathered: prefill_gather_lens reaches back
\* over the window, and over an image only because images are computed whole.
GatherCovers ==
  pc = "attend" /\ drafts = 0 =>
    \A row \in meta.num_decodes + 1 .. Len(queries) :
      LET q == queries[row] IN
      \A pos \in q.start .. q.start + q.n - 1 :
        FirstSeen(q, pos) >= q.start + q.n - GatherLen(q.start + q.n, q.n, Window)

BatchPrefills ==
  [i \in 1 .. Len(queries) - meta.num_decodes |->
     LET q == queries[meta.num_decodes + i] IN [seq |-> q.start + q.n, query |-> q.n]]

\* The workspace reserved when the builder is made holds every chunk of the plan of
\* whatever prefills a step may have, and of those each batch has: also a chunk of
\* one request, which get_prefill_chunk_plan does not compare (lines 272-306).
PlanFits ==
  pc = "attend" \/ meta = NoMeta =>
    \A rs \in (IF meta = NoMeta THEN Prefills ELSE {BatchPrefills}) :
      \A chunk_size \in PlanChunkSizes, ratio \in PlanRatios : FitsWorkspace(rs, chunk_size, ratio)

\* What build's comment says: "Decode tokens are always past the image spans".
DecodesPastImages ==
  pc = "attend" /\ drafts = 0 =>
    \A i \in 1 .. Total(queries) :
      i <= meta.num_decode_tokens => Containing(QueryOf(i), Position(i)) = {}
=============================================================================
