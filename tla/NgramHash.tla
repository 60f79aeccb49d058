------------------------------ MODULE NgramHash ------------------------------
(***************************************************************************)
(* The n-gram a position is hashed from (patch/engram.py: NgramHashState    *)
(* and its two kernels; patch/model_state.py: the lookback window) when     *)
(* tokens arrive chunk by chunk, drafts are rejected, requests are          *)
(* preempted, share cached prefixes, or start on KV another instance wrote. *)
(*                                                                          *)
(* The hash itself is a function of the n-gram's values and is left out.    *)
(* Scheduler, block pool and prefix cache belong to the engine: they are    *)
(* modelled as far as positions, slots and token histories depend on them.  *)
(***************************************************************************)
EXTENDS Integers, Sequences, FiniteSets, FiniteSetsExt

CONSTANTS
  Requests, Tokens,
  Generated,       \* the tokens a model generates
  Prompt,          \* [request -> its prompt]
  TokenMap,        \* [token -> compressed id], as token_map with the dead mask
  Dead,            \* DEAD_ID, the compressed id of an image token
  Pad,             \* pad_id
  ZeroId,          \* compressed id 0, which fills a new slot cache
  None,            \* no token (-1), no cache
  MaxNgram,        \* engram_max_ngram_size
  BlockSize,       \* positions per block of the sliding-window KV cache
  Pools,           \* numbers of blocks of the KV caches bound, in order
  Runners,         \* set of [v2, connector]: use_v2_model_runner, and whether KV can
                   \* be loaded from another instance
  Drafts,          \* draft tokens a step may carry: sequences of tokens
  MaxLen,          \* bound: tokens of a request
  MaxPreempts      \* bound: preemptions

ASSUME NgramAssumption ==
  /\ Prompt \in [Requests -> Seq(Tokens) \ {<<>>}]
  /\ Tokens \subseteq DOMAIN TokenMap
  /\ Generated \subseteq Tokens
  /\ MaxNgram \in Nat \ {0, 1} /\ BlockSize \in Nat \ {0}
  /\ Pools \in Seq(Nat \ {0}) /\ Pools # <<>>
  /\ Runners \subseteq [v2 : BOOLEAN, connector : BOOLEAN]
  /\ Drafts \subseteq Seq(Tokens) /\ <<>> \in Drafts
  /\ MaxLen \in Nat /\ MaxPreempts \in Nat

VARIABLES
  runner,      \* the deployment's runner, fixed by Init
  pc,          \* "schedule" while a batch is put together, "sample" after it ran
  bound,       \* KV caches bound so far: the last one is bound now
  cache,       \* hash_cache: [slot -> compressed id]
  cache_ref,   \* _kv_cache_ref: the binding the cache was made for
  tokens,      \* all_token_ids: [request -> its prompt and accepted tokens]
  computed,    \* num_computed_tokens
  blocks,      \* block tables: [request -> its blocks], empty while it waits
  prefix,      \* prefix cache: [block -> the text up to its last position, or None]
  batch,       \* the step's rows: [req, start, ids]
  preempts,
  hashed       \* history: <<text, n-gram>> of each position the last step hashed

vars == <<runner, pc, bound, cache, cache_ref, tokens, computed, blocks, prefix, batch,
          preempts, hashed>>

V2 == runner.v2
Connector == runner.connector
Depth == MaxNgram - 1
NumBlocks == IF bound = 0 THEN 0 ELSE Pools[bound]
SlotsOf(n) == 0 .. n * BlockSize - 1
AllBlocks == 0 .. Max({Pools[i] : i \in DOMAIN Pools}) - 1
Ids == {TokenMap[x] : x \in Tokens} \cup {ZeroId}

\* None is told from tokens, texts and slot caches.
ASSUME NoneAssumption ==
  /\ None \notin Tokens \cup Seq(Tokens)
  /\ \A i \in DOMAIN Pools : None \notin [SlotsOf(Pools[i]) -> Ids]

-----------------------------------------------------------------------------
(* The reference: shift n of the n-gram at the end of a text is the         *)
(* compressed id n tokens back, pad from the text's beginning or its last   *)
(* image token on.                                                          *)

NgramOf(text) ==
  [n \in 0 .. Depth |->
     IF \E s \in 0 .. n : s >= Len(text) \/ TokenMap[text[Len(text) - s]] = Dead
     THEN Pad ELSE TokenMap[text[Len(text) - n]]]

-----------------------------------------------------------------------------
(* The step's flattened inputs, as the runner lays them out.                *)

QueryStartLoc(row) == MapThenSumSet(LAMBDA i : Len(batch[i].ids), 1 .. row - 1)
NumTokens == QueryStartLoc(Len(batch) + 1)
BatchTokens == 0 .. NumTokens - 1
OwnRow(t) == CHOOSE row \in DOMAIN batch :
               QueryStartLoc(row) <= t /\ t < QueryStartLoc(row + 1)
Offset(t) == t - QueryStartLoc(OwnRow(t))
InputId(t) == batch[OwnRow(t)].ids[Offset(t) + 1]
Position(t) == batch[OwnRow(t)].start + Offset(t)
Slot(req, position) ==
  blocks[req][position \div BlockSize + 1] * BlockSize + (position % BlockSize)

\* What the step's model sees of a row's text: accepted tokens, then its drafts.
Text(row) == SubSeq(tokens[batch[row].req], 1, batch[row].start) \o batch[row].ids

\* lookback_token_ids. V2 gathers them from the token history; the V1 runner
\* knows prompt positions only.
LookbackToken(row, col) ==
  LET req == batch[row].req
      p == batch[row].start - 1 - col
  IN  IF p >= 0 /\ (V2 \/ p < Len(Prompt[req])) THEN tokens[req][p + 1] ELSE None

-----------------------------------------------------------------------------
(* NgramHashState.                                                          *)

\* What ensure_cache leaves: <<_cache, _kv_cache_ref>>.
EnsureCache_KeepsFirst ==
  IF NumBlocks = 0 THEN <<None, 0>>
  ELSE IF V2 \/ cache_ref # 0 THEN <<cache, cache_ref>>
  ELSE <<[s \in SlotsOf(NumBlocks) |-> ZeroId], bound>>
EnsureCache ==
  IF NumBlocks = 0 THEN <<None, 0>>
  ELSE IF V2 \/ cache_ref = bound THEN <<cache, cache_ref>>
  ELSE <<[s \in SlotsOf(NumBlocks) |-> ZeroId], bound>>

Written_ShortMask(c) ==
  [s \in DOMAIN c |->
     IF \E t \in BatchTokens \ {NumTokens - 1} : Slot(batch[OwnRow(t)].req, Position(t)) = s
     THEN TokenMap[InputId(CHOOSE t \in BatchTokens :
                             Slot(batch[OwnRow(t)].req, Position(t)) = s)]
     ELSE c[s]]
\* _write_hash_cache_kernel: every token of the step into its slot.
Written(c) ==
  [s \in DOMAIN c |->
     IF \E t \in BatchTokens : Slot(batch[OwnRow(t)].req, Position(t)) = s
     THEN TokenMap[InputId(CHOOSE t \in BatchTokens :
                             Slot(batch[OwnRow(t)].req, Position(t)) = s)]
     ELSE c[s]]

\* The binary search in query_start_loc[1:], an upper bound.
RowOf(t) == Min({row \in DOMAIN batch : t < QueryStartLoc(row + 1)})

\* Where the compressed id a shift looks back to comes from: the chunk, else the
\* window, else the slot cache, or pad without one.
Source(t, shift, c) ==
  LET row == RowOf(t)
      start == Position(QueryStartLoc(row))
      lookback == Position(t) - shift
      col == start - 1 - lookback
      known == lookback < start /\ col < Depth /\ LookbackToken(row, col) # None
  IN  CASE lookback >= start -> TokenMap[InputId(Max({t - shift, 0}))]
        [] known -> TokenMap[LookbackToken(row, col)]
        [] lookback < start /\ ~known /\ c # None ->
             c[Slot(batch[row].req, Max({lookback, 0}))]
        [] OTHER -> Pad

\* _hash_ids_kernel: blocked stays set for all deeper shifts.
Ngram(t, c) ==
  [n \in 0 .. Depth |->
     IF \E s \in 0 .. n : Position(t) - s < 0 \/ Source(t, s, c) = Dead
     THEN Pad ELSE Source(t, n, c)]

Hashed(c) ==
  {<<SubSeq(Text(OwnRow(t)), 1, Position(t) + 1), Ngram(t, c)>> : t \in BatchTokens}

-----------------------------------------------------------------------------
Init ==
  /\ runner \in Runners
  /\ pc = "schedule"
  /\ bound = 0
  /\ cache = None
  /\ cache_ref = 0
  /\ tokens = Prompt
  /\ computed = [r \in Requests |-> 0]
  /\ blocks = [r \in Requests |-> <<>>]
  /\ prefix = [b \in AllBlocks |-> None]
  /\ batch = <<>>
  /\ preempts = 0
  /\ hashed = {}

\* The KV caches are bound in turn (graph memory profiling binds a smaller one
\* first), each before it serves a request.
BindKVCache ==
  /\ pc = "schedule"
  /\ bound < Len(Pools)
  /\ \A r \in Requests : blocks[r] = <<>> /\ computed[r] = 0
  /\ bound' = bound + 1
  /\ UNCHANGED <<runner, pc, cache, cache_ref, tokens, computed, blocks, prefix, batch,
                 preempts, hashed>>

\* A warm-up forward: no token has a slot.
DummyForward ==
  /\ pc = "schedule"
  /\ batch = <<>>
  /\ cache' = EnsureCache[1]
  /\ cache_ref' = EnsureCache[2]
  /\ UNCHANGED <<runner, pc, bound, tokens, computed, blocks, prefix, batch, preempts, hashed>>

Serving == pc = "schedule" /\ bound = Len(Pools)
Scheduled(r) == \E row \in DOMAIN batch : batch[row].req = r
FreeBlocks == {b \in 0 .. NumBlocks - 1 :
                 \A r \in Requests : \A i \in DOMAIN blocks[r] : blocks[r][i] # b}

\* The blocks of the cached prefixes of a text, as long as one token is left.
HitLength(text) ==
  Max({n \in 0 .. (Len(text) - 1) \div BlockSize :
         \A i \in 1 .. n : \E b \in AllBlocks : prefix[b] = SubSeq(text, 1, i * BlockSize)})

Waiting(r) == blocks[r] = <<>> /\ ~Scheduled(r) /\ Len(tokens[r]) < MaxLen

\* A waiting request resumes on the blocks its cached prefix hits.
Hit(r) ==
  /\ Serving
  /\ Waiting(r)
  /\ LET n == HitLength(tokens[r]) IN
     /\ n > 0
     /\ computed' = [computed EXCEPT ![r] = n * BlockSize]
     /\ blocks' = [blocks EXCEPT ![r] =
          [i \in 1 .. n |-> CHOOSE b \in AllBlocks :
             prefix[b] = SubSeq(tokens[r], 1, i * BlockSize)]]
  /\ UNCHANGED <<runner, pc, bound, cache, cache_ref, tokens, prefix, batch, preempts, hashed>>

\* A block more. With a connector, the block may come with the KV of the next
\* prompt positions: its slots hold whatever was there.
Allocate(r, b) ==
  /\ Serving
  /\ b \in FreeBlocks
  /\ ~Scheduled(r)
  /\ Waiting(r) => HitLength(tokens[r]) = 0
  /\ Len(blocks[r]) * BlockSize < Len(tokens[r]) + Max({Len(d) : d \in Drafts})
  /\ Len(tokens[r]) < MaxLen
  /\ blocks' = [blocks EXCEPT ![r] = Append(@, b)]
  /\ LET end == Len(blocks'[r]) * BlockSize
         fresh == [prefix EXCEPT ![b] = None] IN
     \/ prefix' = fresh /\ UNCHANGED computed
     \/ /\ Connector
        /\ computed[r] = end - BlockSize /\ end < Len(Prompt[r])
        /\ computed' = [computed EXCEPT ![r] = end]
        /\ prefix' = [fresh EXCEPT ![b] = SubSeq(tokens[r], 1, end)]
  /\ UNCHANGED <<runner, pc, bound, cache, cache_ref, tokens, batch, preempts, hashed>>

\* A chunk of the request's text joins the batch, with drafts once it reaches the
\* end of the text. Blocks the text fills are cached at once.
Schedule(r, n, drafts) ==
  LET start == computed[r]
      end == start + n
      text == SubSeq(tokens[r], 1, end)
  IN
  /\ Serving
  /\ ~Scheduled(r)
  /\ end <= Len(tokens[r])
  /\ drafts # <<>> => end = Len(tokens[r])
  /\ end + Len(drafts) <= Len(blocks[r]) * BlockSize
  /\ Len(tokens[r]) < MaxLen
  /\ batch' = Append(batch, [req |-> r, start |-> start,
                             ids |-> SubSeq(tokens[r], start + 1, end) \o drafts])
  /\ prefix' = [b \in AllBlocks |->
       IF \E i \in DOMAIN blocks[r] : blocks[r][i] = b /\ i * BlockSize <= end
       THEN SubSeq(text, 1, (CHOOSE i \in DOMAIN blocks[r] : blocks[r][i] = b) * BlockSize)
       ELSE prefix[b]]
  /\ UNCHANGED <<runner, pc, bound, cache, cache_ref, tokens, computed, blocks, preempts, hashed>>

\* Scheduling preempts a request that is not in the batch.
Preempt(r) ==
  /\ Serving
  /\ ~Scheduled(r)
  /\ blocks[r] # <<>>
  /\ preempts < MaxPreempts
  /\ preempts' = preempts + 1
  /\ blocks' = [blocks EXCEPT ![r] = <<>>]
  /\ computed' = [computed EXCEPT ![r] = 0]
  /\ UNCHANGED <<runner, pc, bound, cache, cache_ref, tokens, prefix, batch, hashed>>

\* The forward's hashing: the writes are finished before any history is read.
RunStep_HashFirst ==
  /\ Serving
  /\ batch # <<>>
  /\ cache' = IF V2 THEN None ELSE Written(EnsureCache[1])
  /\ cache_ref' = EnsureCache[2]
  /\ hashed' = Hashed(EnsureCache[1])
  /\ pc' = "sample"
  /\ UNCHANGED <<runner, bound, tokens, computed, blocks, prefix, batch, preempts>>
RunStep ==
  /\ Serving
  /\ batch # <<>>
  /\ cache' = IF V2 THEN None ELSE Written(EnsureCache[1])
  /\ cache_ref' = EnsureCache[2]
  /\ hashed' = Hashed(cache')
  /\ pc' = "sample"
  /\ UNCHANGED <<runner, bound, tokens, computed, blocks, prefix, batch, preempts>>

\* A row's outcome: a chunk that ends before the text's end is computed; at the end,
\* some of the drafts are accepted and a token is sampled after them. A request
\* whose text is long enough ends and gives its blocks back.
Sample(accepted, token) ==
  LET row == Head(batch)
      r == row.req
      known == Len(tokens[r]) - row.start
      drafts == SubSeq(row.ids, known + 1, Len(row.ids))
  IN
  /\ pc = "sample"
  /\ IF Len(row.ids) < known
     THEN /\ accepted = 0 /\ token = CHOOSE x \in Generated : TRUE
          /\ computed' = [computed EXCEPT ![r] = @ + Len(row.ids)]
          /\ UNCHANGED <<runner, tokens, blocks>>
     ELSE /\ accepted <= Len(drafts)
          /\ computed' = [computed EXCEPT ![r] = @ + known + accepted]
          /\ tokens' = [tokens EXCEPT ![r] =
               @ \o SubSeq(drafts, 1, accepted) \o <<token>>]
          /\ blocks' = IF Len(tokens'[r]) < MaxLen THEN blocks
                       ELSE [blocks EXCEPT ![r] = <<>>]
  /\ batch' = Tail(batch)
  /\ pc' = IF Len(batch) = 1 THEN "schedule" ELSE "sample"
  /\ hashed' = {}
  /\ UNCHANGED <<runner, bound, cache, cache_ref, prefix, preempts>>

Next ==
  \/ BindKVCache
  \/ DummyForward
  \/ RunStep
  \/ \E r \in Requests :
       \/ Hit(r)
       \/ Preempt(r)
       \/ \E b \in AllBlocks : Allocate(r, b)
       \/ \E n \in 1 .. MaxLen, drafts \in Drafts : Schedule(r, n, drafts)
  \/ \E accepted \in 0 .. MaxLen, token \in Generated : Sample(accepted, token)

Spec == Init /\ [][Next]_vars

-----------------------------------------------------------------------------
(* Properties                                                               *)

\* The types of the variables; a slot cache always covers the pool it serves.
TypeOK ==
  /\ pc \in {"schedule", "sample"}
  /\ bound \in 0 .. Len(Pools)
  /\ cache_ref \in 0 .. bound
  /\ cache = None \/ cache \in [SlotsOf(Pools[cache_ref]) -> Ids]
  /\ tokens \in [Requests -> Seq(Tokens)]
  /\ \A r \in Requests :
       /\ computed[r] < Len(tokens[r]) + 1
       /\ blocks[r] \in Seq(0 .. NumBlocks - 1)
       /\ blocks[r] # <<>> => computed[r] <= Len(blocks[r]) * BlockSize
  /\ pc = "sample" => V2 \/ cache_ref = bound

\* Every position is hashed from the n-gram of its own request's text, however the
\* text was cut into chunks, rolled back, preempted and resumed, or shared.
HashesExact == \A h \in hashed : h[2] = NgramOf(h[1])

\* "Lookbacks read back exactly what the owning request wrote" (the module's
\* docstring): once a step ran, the slot of every computed position holds the id of
\* the request's own token, whoever wrote it.
SlotsHoldHistory ==
  pc = "sample" /\ hashed # {} /\ ~V2 =>
    \A r \in Requests : blocks[r] # <<>> =>
      \A p \in 0 .. computed[r] - 1 : cache[Slot(r, p)] = TokenMap[tokens[r][p + 1]]
=============================================================================
