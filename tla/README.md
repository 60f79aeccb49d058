# Verification of the DeepSeek-V4.1 TP4 deployment

TLA+ models, TLC configurations and TLAPS proofs for the code in `src/`: seven vLLM files
patched to run a DeepSeek-V4.1 checkpoint on four nodes (one GPU each, tensor parallel 4), and
the shell script that brings the service up.

The models are translated from the code. Where a comment or a document says something the code
does not do, a run shows it and `PROJECT.json` lists it under `findings`.

## The system

| Part | Source | State it keeps | Operations |
|---|---|---|---|
| Engram disk staging | `patch/engram.py` (`EngramDiskStager`, `DiskEngramTable`, `gather_dequant_many`), `patch/model_state.py` | pinned `hash_host`, `rows_host`; device `staged_rows`; the CUDA stream; a process-wide read pool | `stage`, `gather`, `preadv` tasks, asynchronous copies, forward |
| N-gram hash state and lookback window | `engram.py` (`NgramHashState`, two kernels), `model_state.py` | `hash_cache`, one compressed id per KV slot | `ensure_cache`, `_write_kernel`, `_hash_kernel`, `_fill_lookback` |
| Engram layout and token map | `engram.py` (`EngramLayout`, `build_compressed_token_map`) | primes, multipliers, map: constant after construction | construction |
| Engram embedding shards | `engram.py` (`ParallelEngramEmbedding`, `DiskEngramTable`) | the rank's rows: resident, pinned with a device view, or on disk | construct, weight loader, lookup, all-gather |
| Engram fusion | `engram.py` (`Engram`) | none beyond the shards | `embed`, `forward` |
| Sparse indexer top-k | `patch/sparse_attn_indexer.py`, `patch/attention.py` | `topk_indices_buffer`, `candidate_block_buffer`, shared by layers | prefill chunks, decode, short context |
| DCP top-k merge | `sparse_attn_indexer.py` (`_merge_dcp_topk_global`) | none | merge of per-rank candidates |
| Attention layer topology | `attention.py` | per-layer source ids | construction |
| Attention streams and events | `attention.py` | two auxiliary CUDA streams, four events per layer | fan-out, join |
| Sliding-window metadata | `patch/sparse_swa.py` | persistent index, length and visibility buffers | `build`, `update_draft_decode_metadata` |
| FlashInfer sparse attention | `patch/flashinfer_sparse.py` | `flashinfer_sparse_index_cache` of a pass | decode and prefill attention |
| Checkpoint weight loading | `patch/weight_utils.py` | lock file, numpy folder and its name list, thread pools, left-over parts | iterators, prefetch, np-cache dump |
| Launcher | `scripts/v41-tuned-tp4.sh` | containers on four nodes | guard check, clear, start, poll |
| Memory guard | documented only (`docs/07-memory-safety.md`) | a process per node | watches memory, kills |
| Mount list | `patch/mounts.txt` | - | - |

How they interact. The scheduler (vLLM, not in `src/`) gives the model runner a batch.
`model_state.prepare_inputs` passes each request's lookback tokens to the Engram layers; the hash
state turns tokens into row ids; the stager, or a lookup in the forward, turns ids into rows; the
ranks exchange rows by all-gather; `Engram.forward` fuses them with the hidden state. Attention
layers read the sliding-window slots the metadata names and the compressed positions the index
sources publish, with their kernels spread over three streams. The launcher starts one container
per rank and waits for the head to answer; before it does, each rank's workers read the checkpoint
through one of the iterators of `weight_utils.py`, all from the same folder.

What is hard in it, and what makes each part correct:

* **Staging**: host, device stream and read threads share pinned buffers. A forward must read its
  own step's rows, a buffer must not be rewritten under a queued copy, no unread byte may reach
  the device, and a failed read must stop the step instead of serving it.
* **Hash state**: chunks, rejected drafts, preemption, shared prefixes and remotely computed KV
  move a request's start; each position must be hashed from the request's own text.
* **Shards**: padded heads, ranks without heads, sequence-parallel chunks and sparse node-local
  copies; the ranks together must compute what one unsharded table would, and no rank may wait
  for ever in a collective.
* **Indexer**: two buffers outlive layers and steps; a layer must read this step's rows, of its
  own source, for its own tokens.
* **Streams**: no two conflicting kernels may overlap.
* **Window metadata**: buffers outlive steps, blocks are taken back and reused, drafts are
  rejected; every token must read exactly its own window, and padding must read nothing.
* **Weight loading**: workers read one folder side by side, dump into it, are killed and started
  again; a load must hand over each tensor once, whatever the way of reading, and never trust a
  dump that was not finished.
* **Launcher**: ssh calls, containers and guards fail one at a time; the script's `OK` must mean
  that this launch serves.

Every hazard is listed at its line in `PROJECT.json` with the properties that would catch it.

## Modules

| Module | Models | Abstract side, instance, proofs |
|---|---|---|
| `EngramStage` | disk staging on one rank, end to end | implements `EngramService`; `MCEngramStage`; `EngramStage_proofs` |
| `EngramShard` | layout, shards, lookup, gathering and fusion over all ranks | reference: the unsharded lookup (`WantedRows`); `MCEngramShard`; `EngramShard_proofs` |
| `NgramHash` | hash cache, kernels, lookback window | reference: `NgramOf` of the text; `MCNgramHash`; `NgramHash_proofs` |
| `IndexTopK` | top-k and candidate buffers across layers and steps | each row records what it was computed from; `MCIndexTopK`, `MCAttention`; `IndexTopK_proofs` |
| `AttnStreams` | kernels, streams and events | reference: the order of the program (`NoRace`); `MCAttention`; `AttnStreams_proofs` |
| `SwaMetadata` | metadata build, draft updates, attention reads | reference: the window by position (`SeesItsWindow`); `MCSwaMetadata`; `SwaMetadata_proofs` |
| `PrefillPlan` | gather lengths and the chunk plan of a step's prefills | reference: what a chunk must hold (`FitsWorkspace`); extended by `SwaMetadata`; `SwaMetadata_proofs` |
| `DcpMerge` | the DCP ranks' selections, their all-gather and merge | reference: a selection of the whole row (`IsTopk`); `MCIndexTopK`; `IndexTopK_proofs` |
| `WeightLoader` | the iterators over one checkpoint folder, killed and restarted workers | reference: the tensors a load was asked for (`Promised`); `MCWeightLoader`, `MCStartup`; `Startup_proofs` |
| `Launcher` | the script against failing nodes | `MCStartup`; `Startup_proofs` |
| `SumLemmas` | nothing: induction and the sums layouts are made of | used by `IndexTopK_proofs`, `NgramHash_proofs`, `EngramShard_proofs`, `SwaMetadata_proofs` and `AttnStreams_proofs` |

### EngramStage

Three kinds of actor. The **host** walks through `stage`: `PrepareStep` enqueues the input copy,
the hash kernel, the copy of the hashes and the event; `SyncHashes` is the event wait together
with the planning of the reads (`PlanReads`: de-duplication, chunking over threads); `ReadsDone`
waits for the futures and dequantizes; `CopyLayer` fills a layer's pinned buffer, pads it, and
enqueues its copy; `LaunchForward` ends the step. `PrepareUnbound` and `PrepareDummy` are the
steps without staging. The **device** (`Execute`) takes the head of one in-order stream. The
**pool** runs `TakeTask`, `Pread` (which may return any part of what is left), `TaskDone` and
`ShortRead`. `MaxAhead` bounds the stream's length.

A token stands for one (token, local hash head) pair. A row's weight and scale bytes are counted,
not stored: `Dequant` yields the table's row when all bytes of both parts are in and `Torn`
otherwise. `EngramService` says what this promises: prepared steps are served in order with
exactly the rows their hashes name, and nothing after a failed read.

### EngramShard

`Init` picks layout, ranks, storage mode (resident, offloaded, read before or inside the forward), sequence
parallelism and, on disk, the rank map a node-local copy was made for; also how many rows the model's config
names beside those of the layout (`slack`), how many the checkpoint's table has beside those (`surplus`),
whether pinned memory can be addressed by the device (`uva`), and whether the machine is `sound`. One that
is not runs out of memory, cannot open or read a file, or finds a tensor of another shape in it, at any
time: constructing, loading and a disk lookup may then fail. `Construct` is the constructor with its
assertions, `LoadWeights` the shard's loader, `SwapData` what sleep mode does to the storage, and `Lookup`,
`AllGather`, `Forward` a step. The content of row *i* is the number *i*, a head's `DIM` elements are one
cell, and Miller-Rabin is replaced by primality. Collectives and `tools/engram_local.py` are external.

### NgramHash

`EnsureCache`, `Written` (`_write_kernel`) and `Ngram` (`_hash_kernel`) over a batch put together by
the engine's `Schedule`, `Hit`, `Preempt` and `Sample`, which are external and modelled as far as
positions, slots and texts depend on them. `Pools` binds a small KV cache before the real one, as
graph memory profiling does. The V1 runner passes prompt tokens only as lookback, V2 all tokens.

### IndexTopK

A step runs the layers in order. A source with a short context selects every position
(`IndexShort`); otherwise it clears the buffer (`IndexClear`), runs the prefill chunks
(`IndexPrefill`) and then the decode (`IndexDecode`), with packing and unpacking when lengths
differ. A row of a buffer is a record of the step, layer, query token, weight token and
candidates it came from. Context-parallel world size is 1, as deployed. `IndexAssumption` states
what the configuration gives and the code does not check: sources from the candidate source on
share one compression ratio.

`DcpMerge` is the merge of more ranks: `SelectLocal`, `Pack`, and `Merge`, which waits in the
all-gather for the last rank. A local selection is any set of the best positions of the rank's
shard, so that ranks may break ties as they like; the selector of the merge is a function, because
it is stable and every rank gathers the same. Each rank attends to the merged positions in its own
shard (`Attended`). `MCIndexTopK` runs the merge on its own, before the first step of the layers:
they share nothing but the result.

### AttnStreams

The host enqueues a layer's kernels and event operations (`Enqueue`); each stream begins and
finishes its first operation (`Begin`, `Finish`, `RecordEvent`, `WaitEvent`). An operation is the
sets of buffers it reads and writes, its number in the host's order (`at`) and, for a wait, the number
of the record of its event that was enqueued last (`of`): a later record of the same event does not
release it. All layers use the same names for temporaries, because the
allocator may hand one layer's memory to the next once the host has left it.
`multi_stream_utils` (the two fan-out helpers) is external and modelled from its callers.

### SwaMetadata

`BuildStep`, `BuildDraft` and `UpdateDraft` are the builder; `Attend` reads slots through the
buffers as the two attention paths do (`mixed`: one set of rows, computed by the first such layer
of a pass, kept for the others and handed to one kernel call for decodes and one for prefills,
`TwoCalls`; `sm120`: decode rows, then prefill rows in chunks of requests). Slots hold whose key
they hold, from which epoch, at which position. Blocks the window has left go back to the pool and
are given out again, which is what makes a wrong window start visible. The scheduler, the block
manager, `split_decodes_and_prefills` and the draft loop are external. Drafts of requests that still
are in their prompt are left out.

`PrefillPlan` is the part of the builder that has no state: the gather lengths, which a kernel computes on
the GPU for the attention (`GatherLen`) and `get_prefill_chunk_plan` again on the host (`GatherLenCpu`), and
`Plan`, the plan's two loops as one recursive function over the prefills. `GatherCovers` ties it to the
builder's state: in every batch `SwaMetadata` reaches, the tokens gathered for a prefill include all that
its tokens see, an image's too. `PlanFits` goes, before the first step, over every batch of up to three
prefills, and later over the batch at hand: the chunks follow each other, a chunk's row, sized by the host's
lengths, holds the widest gather of the attention in it, and its rows fit the reserved workspace, also a
chunk of one request, which the loop never compares.

### WeightLoader

`load` says what a load was started with: one of ten ways to read (`lazy`, `prefetch`, `eager` and `torchao`
are the strategies of `safetensors_weights_iterator`; `threads`, `stream`, `fast`, `pt`, `pt_threads` and
`np` the other iterators, `stream` standing for both streamers), the folder (an index, a duplicate or
training file beside the shards, a missing or unreadable shard), whether `DSV41_ENGRAM_DISK` is set, the
file system, the world, whether GDS works, and whether whatever else the way of reading needs is there
(`fit`): an index that parses, arguments the prefetch accepts, torchao 0.15, the streamer's library and its
GPU, an np folder and a lock that can be written, room on the disk and a dtype numpy has. The launcher
mounts the model folder read-only, so the np cache is not `fit` there.

A worker's iterator is `pc`. `Select` filters the files, starts the prefetch (`PrefetchAll` is its daemon
thread) and submits a pool's files, or raises (`CannotStart`, `MayNotStart`); `NextFile`, `Yield` and `End`
read file by file, with the parts `torchao` could not join in `left`; `OpenStream`, `StreamBreaks` and
`GdsBreaks` are the streams; `WorkerTakes` and `WorkerEnds` are a pool's threads, `NextFuture` and
`PoolCloses` its consumer. The np cache is `NoFolder`, `EnterLock`, `DumpFile`, `DumpOpens`, `DumpSaves`,
`NamesOpen`, `NamesWritten`, and without the lock `ReadNames`, `ReadParam`: opening a file to write it and
having written it are two steps, and `DumpBreaks` is a failure before, between or in them, which leaves a
part-written file behind with nobody killed. `Kill` takes a worker at any point, its lock with it, and
leaves the folder; `Restart` starts it again.

Bounds and abstractions. A pooled load shares nothing with other workers and is run by one. The flags that
change nothing for a way of reading are fixed, and one thing is wrong with a load at a time (`Init`). A
prefetch ends in one step: the page cache is not observed, only the share of files. `netfs` means a network
file system whose checkpoint fits in memory. The workers share one lock: workers on other hosts, or with
another download directory, take other locks and are not modelled. A kill is of a process, so that what was
written stays written.

What the properties leave to the code as it is: a name list left unfinished by a kill fails every later
np-cache load (loudly, which is why `FailsForAReason` lists it), since the dump does not use
`atomic_writer`; and a torchao tensor one of whose parts is in no selected file is dropped without a word
(`Promised`). That only the default iterator leaves the Engram tables on disk under `DSV41_ENGRAM_DISK` is a
finding of its own: run `weight_loader_tables` violates `TablesStayOnDisk`, and `LoadExact` says of the
other iterators what they do with every tensor but these.

### Launcher

One action per ssh call or half of a polling turn: `GuardCheck`, `Clear`, `Start`, `Probe`, `Inspect`. A
call may be lost or hang (`CallHangs`), and it may fail on the node it reached, where the script looks at no
status either: `docker rm -f ... || true` leaves the old container, running, stopped or stuck
(`NotRemoved`), the script for a rank is not written or its `docker run` fails (`RunScript`). Lost calls and
those that remove nothing are counted together, up to `MaxFaults`; a container is which launch made it and
its status. Nodes change by `GuardDies`, `ContainerExits` and `HeadReady`. A guard that dies can be followed
by its node's container being killed; what the guard measures is outside the repository.

## Runs

| Run | Instance | Shows |
|---|---|---|
| `engram_stage` | 2 layers, 3 tokens, 2 read threads, 2 steps, stream ahead of the host by 2; two tokens share a row, one token is another rank's | every forward reads its rows (`ServedRowsCorrect`), none torn (`NoTornRow`), pinned buffers stable (`PinnedStable`), `ImplementsService`, `EveryStepServed` |
| `engram_shard` | layouts of 1, 3 and 4 columns on 1 to 3 ranks, two steps of four and one tokens; tables and checkpoints too small and of the right size, with and without UVA, sound machines and others | `FusedAsUnsharded`, `NoSizeRedrawn`, `RanksGoOn`, `StepsEnd` |
| `engram_headless` | as above | violation of `HeadlessWriteZeros` |
| `ngram_hash` | 2 requests with a common prefix, an image, 3-grams, blocks of 2, one preemption, one draft | `HashesExact`, `SlotsHoldHistory` on V2 with a KV connector and on V1 without |
| `ngram_loads` | as above, V1 with a KV connector | violation of `HashesExact` |
| `attention` | 7 layers, 4 sources, 3 steps, decodes of one length, chunked prefill, graph replays; a row over 2 DCP ranks, top 2; streams of 4 layers (without compression, keys and index, index on another's keys, keys and index again) over 2 steps | `RowsFromOwnSource`, `RowsFromOwnWeights`, `MaskedByOwnCandidates`; `MergeExact`; `NoRace` |
| `index_topk_rows` | decode lengths 1 and 2 next to a prefill | violation of `RowsFromOwnSource` |
| `swa_metadata` | 2 requests, 6 blocks of 2, window 3, texts up to 6, one preemption each; MTP, DSpark, no drafts | `WindowExact`, `DraftWindowExact`, `PaddingReadsNothing`, `GatherCovers`; `PlanFits` on batches of 3 prefills |
| `startup` | 2 workers, 3 shards with a table and a two-part tensor of which worker 1 owns none, 2 pool threads, one missing or unreadable shard or something else missing, one kill; a script over 3 nodes, 2 polling turns, 2 calls lost or failing on their node | `LoadExact`, `NoneTwice`, `FailsForAReason`, `ListedAreWhole`, `PrefetchedOnce`, `LoadEnds`; `OkIsThisLaunch`, `OldOutlivesItsCalls`, `ScriptEnds` |
| `weight_loader_tables` | the loaders of `startup` | violation of `TablesStayOnDisk` |
| `swa_image` | an image of two tokens | violation of `DecodesPastImages` |
| `launcher_guard` | the script of `startup`, with any guards | violation of `GuardGate` |

Every passing run also checks its modules' type invariants. Runs `attention` and `startup` check components
that share no state one after the other or side by side with one of them at rest, so that their state
spaces add up and do not multiply: in `MCAttention` the DCP merge and the streams run before the first
step of the layers; in `MCStartup` either the script runs with no loader started, or the loaders run
beside a script that hangs in its first call on empty nodes. There only the head's guard is on duty at
first, because the script answers to each guard alike; `launcher_guard` starts with any.

Why the bounds are enough. Staging hazards involve two consecutive steps over the same buffers, so two steps
suffice; a second layer makes the copies of one layer overtake those of another possible, and a step shorter
than the one before leaves old rows behind it. Three ranks over four columns give a full shard, a shard with
a padded head and, with three or one columns, ranks with no head. A window of three over blocks of two
starts in the middle of a block as well as at its beginning, and six blocks for two requests force reuse.
Three shards let the parts of a tensor lie in two files with another file before them, and three files for
two pool threads keep one waiting; a dump is interrupted by one kill, after which the other worker and the
restarted one both load. Three steps let a step read what a step before the last left in a shared buffer.
`CHECK_DEADLOCK FALSE` is set where the bounded number of steps, the requests' full length or the end of the
script stops the system.

### Findings

* `launcher_guard`: the guard check matches the remote shell that runs it, and an unreachable
  node's empty answer passes; the launch proceeds without guards.
* `index_topk_rows`: with decode requests of different lengths, the packed results overwrite rows of
  prefill tokens. In the same batches packed queries are scored with other tokens' weights
  (`sparse_attn_indexer.py:650`): checked on that instance, `RowsFromOwnWeights` fails too.
* `ngram_loads`: on V1, a request resumed on a block whose KV came from another instance hashes
  what its slots held before.
* `swa_image`: a prompt chunk with an image no longer than the decode threshold (1 + k, or
  1 + 2k with parallel drafting) loses the image's bidirectional visibility. With drafts of five
  tokens that means an image of at most eleven tokens, or a chunk cut to its size.
* `weight_loader_tables`: docs/04-patch-set.md:47 says of `DSV41_ENGRAM_DISK=1` that the loader skips both Engram
  tables, `engram.py:880` that the weights iterator skips their rows. Only the default branch of
  `safetensors_weights_iterator` does; the eager and torchao branches and the iterators of the other load
  formats read the tables and hand them to a model whose parameters for them have one row.
* `engram_headless`: `engram.py:993` says that padded heads and rows outside the rank's range 'write zeros,
  matching the kernel'. The disk lookup reads the rank's row 0 for each of them first, and a rank that owns no
  hash column (more ranks than groups of columns) has none: it reads behind the table, where its file may end,
  and fails, which leaves the other ranks in the all-gather. When rows are staged before the forward, such
  a rank fails earlier, on a pinned buffer of negative width. `RanksGoOn` is therefore about
  ranks that own a column, or hold their rows in memory.

A comment that says more than the code does, and that no property here contradicts:
`weight_utils.py:989` uses a generator 'so we do not store all the loaded files in memory at the same
time', but `as_completed` makes a set of what it is given, so that every file is submitted before
the first is handed over, as `StartLoad` has it.

### Fairness

* `EngramStage`: the host thread goes on with the step it has begun, the stream executes its head,
  and pool threads work: none of the three can be held up by anything the model leaves out.
  Beginning a step and rebinding the cache are not fair. A read may fail instead of finishing, and
  `EveryStepServed` allows for that.
* `EngramShard`: every rank that can take a step eventually does. Meeting in the all-gather is a
  guard, so a rank that failed is not assumed away: `StepsEnd` names it.
* `WeightLoader`: a worker's thread and its pool's threads run on, and reading a file ends. The
  consumer takes what the iterator yields. Waiting for the lock is a guard: that the holder lets go,
  by finishing, failing or being killed, is what `LoadEnds` shows. Kills and restarts are not fair.
* `Launcher`: the script runs on. `CallHangs` is not excluded: `ConnectTimeout` bounds only the
  connecting, and `ScriptEnds` excepts a call that never returns.

The other modules check safety only.

## Proofs

### The DCP merge

`MergeIsExact` (module `IndexTopK_proofs`) is `DcpSpec => []MergeExact`, for every row, number of ranks,
sharding, scores and number of positions selected; the assumption is `DcpAssumption` (a finite row,
at least one rank, each position on one rank, a selector that selects), which TLC evaluates in run
`attention`. `DcpInv` is inductive: it says what a rank holds at each point, and that once one rank
has merged all have packed, so that the gathered candidates no longer change.

That the merge of the local selections selects from the whole row is `MergeOfSelections`. The
docstring argues that a position of the global best is in its own rank's best; with ties that is so
only for some of them. The proof goes the other way (`Unselected`): a position no rank selected lies
behind `DcpTopk` positions of its rank that are as good and were gathered. If all of those are in the
merge, they are the merge, by cardinality; if one is not, the merge preferred better ones to it.

### Staging

`EngramStage_proofs` proves, for any number of layers, positions, tokens, threads and steps, any
hash, vocabulary ranges and table:

| Theorem | Property |
|---|---|
| `StageSafe` | the inductive invariant `StageInv` |
| `TypeCorrect` | `TypeOK` |
| `ForwardsReadOwnRows` | `ServedRowsCorrect` |
| `RowsNeverTorn` | `NoTornRow` |
| `PinnedBuffersStable` | `PinnedStable` |
| `StagerImplementsService` | `ImplementsService` |

The only assumption is `StageAssumption` of `EngramStage`, which TLC evaluates in run
`engram_stage`: the sizes are positive, a rank's range is not empty, each table has contents for it,
and `Torn` is no content.

`ServedRowsCorrect` is not inductive: it speaks of forwards that have executed, and what the next
one reads depends on the queue. `StageInv` adds what the queue may hold in each phase of the host.
Its heart is that the stream is empty once the host has passed the event, because the event is the
last operation enqueued before the wait and the stream is in order. So at most one step's copies
and forward are in flight, and they belong to the oldest step not served.

* `CopiesInv`: a queued copy carries the rows of that step, and its pinned buffer still holds them;
* `ForwardInv`: there is at most one forward, and each layer it reads is staged or copied before it;
* `CountInv`: how far preparing runs ahead of serving;
* `HashInv`: once the event has passed, `hash_host` holds the step's hashes;
* `PhaseInv`: the kinds of operations the stream may hold in each phase;
* `ReadInv`: the planned tasks cover every row the step needs, and a finished task has all bytes.

Each action has one step, and under it one for each conjunct it can disturb. `PinnedStable` follows
as an action property from the invariant: `CopyLayer` is the only action that writes a pinned
buffer, and in its phase the stream holds copies of other layers only.

### Shards

`EngramShard_proofs` proves every safety property of `EngramShard`, for any layouts, vocabulary size,
world sizes, rank maps, places of the rows and steps:

| Theorem | Property |
|---|---|
| `SpecInv` | the inductive invariant `Inv` |
| `TypeCorrect` | `TypeOK` |
| `FusedLikeUnsharded` | `FusedAsUnsharded` |
| `SizesDiffer` | `NoSizeRedrawn` |
| `RanksFailForReasons` | `RanksGoOn` |

The assumptions are `ShardAssumption` (the sizes are positive, a run is two steps) and
`PrimesAssumption`: below the bound `MaxPrime` there are as many primes as the layout draws. The code has
no bound and searches on.

`FusedAsUnsharded` compares what all ranks have done with the whole table, and no rank knows the
others' rows. The invariant is about cells: `Cell(r, k, i)` is what cell *i* of rank *r*'s part of step *k* has to
be, the row its column's hash names or zero for a padded head, and it depends on the deployment only. So the
invariant (`Inv`) says of each rank by itself that what it has staged (`Looked`), given (`PartsGiven`) and
computed (`StepsDone`) is that. The rest is arithmetic of the flat index:

* a rank's rows are exactly those of its columns (`OwnRows`), so that a row a rank owns is at its place
  in the shard (`KernelFinds`), and in the directory that was chosen, be it a node's copy for other
  ranks (`DiskFinds`); a token the rank has no row for is read at row 0, which is there if the
  rank has a column at all (`ReadsEnd`);
* the column of a token is in the cell of exactly one rank (`CellOfColumn`), wherever the gather on dim 1
  or the sequence-parallel kernel's index (`ChunkRows`) look for it;
* the ranks' chunks one after the other are the step and its padding (`ChunksAreStep`).

That no two columns are of one size is a fact about the draws: although each n-gram size starts at the
vocabulary size again, *k* draws are always the *k* least primes (`LeastOf`), because a draw skips
what is drawn and what is not drawn lies above (`DrawIsNext`). `Primes` is a recursive function, and
`DrawsExist` proves that it has a value.

### N-gram hash state

`NgramHash_proofs` proves, for any prompts, vocabulary and token map, pools, block and n-gram sizes,
drafts and bounds:

| Theorem | Property |
|---|---|
| `SpecInv` | the inductive invariant `Inv` |
| `TypeCorrect` | `TypeOK` |
| `HashedFromOwnText` | `HashesExact` on V2, and on V1 without a KV connector |
| `SlotsAreOwn` | `SlotsHoldHistory` without a KV connector |

The hypothesis is the boundary of the code's correctness and not of the proof: run `ngram_loads` violates
`HashesExact` in the deployment that is left out. The assumptions are `NgramAssumption` and `NoneAssumption`.

The V2 runner looks back in the token history, so that its half is about the layout of a batch: the
row a thread finds for a token (`RowOf`) is the row the token lies in, and the lookback's columns are
the tokens before the row's start. The V1 runner reads the slot cache, and there neither property
is inductive, because a block is shared before it is written: the prefix cache promises a block's text
when its tokens are scheduled, so a request may be put into the same batch behind the one that will
write what it reads. The invariant speaks of what a slot *will hold once the batch's writes are
done* (`Holds`), and says of it

* `ComputedHeld`, `CachedHeld`, `BatchHeld`: the slots of every computed position, of every cached
  block and of every token of the batch will hold the text they stand for;
* `WritesDiffer`: no two tokens of a batch are written to the same slot;
* `SharedIsCached`, `CachedIsText`: requests share cached blocks only, and a block of a request is cached
  only for that request's text, which is computed or in the batch up to the block's end;
* `RequestsOK`, `BatchOK`: rows continue their requests where these are, in blocks they have.

TLC checked `Inv` on the four runners of the `ngram_hash` instance before it was proved. That a
request has a block only once (`BlocksDiffer`) is part of it: otherwise two of its own positions
would share a slot.

### Indexer

`IndexTopK_proofs` proves, for any layers, sources, ratios, buffer sizes and batches that fit:

| Theorem | Property |
|---|---|
| `SpecInv` | the inductive invariant `Inv` |
| `TypeCorrect` | `TypeOK` |
| `SourcesAreOwn` | `RowsFromOwnSource` in every step that does not pad decodes next to prefills |
| `WeightsAreOwn` | `RowsFromOwnWeights` in every step without padding |
| `MasksAreOwn` | `MaskedByOwnCandidates` in every step without padding |

Here too the steps left out are those where the property fails (`index_topk_rows` and the finding
beside it). A step is excepted by itself: what it leaves in the buffers does no harm to the next, because
the proof shows that every row a layer reads was written in the same step. The invariant says which
rows are good at each point of a layer: the chunks done so far, then the decode rows, then all rows
of the batch until the next source clears them (`RowsGood`), and the candidates likewise
from the candidate source on (`CandidatesGood`). `BatchAssumption` says that a batch and its padded
form fit the buffers, which the engine's sizes give and the code does not check.

### Weight loading

`Startup_proofs` holds what is proved of the two components that bring the service up, which share
no state. It proves every safety property of `WeightLoader` for any number of workers, shards,
tensors, pool threads and kills:

| Theorem | Property |
|---|---|
| `SpecInv` | the inductive invariant `Inv` |
| `TypeCorrect` | `TypeOK` |
| `HandedOverOnce` | `NoneTwice` |
| `LoadsAreExact` | `LoadExact` |
| `DumpIsWhole` | `ListedAreWhole` |
| `FailuresHaveReasons` | `FailsForAReason` |
| `FilesPrefetchedOnce` | `PrefetchedOnce` |

A worker's part is a conservation law (`Conserved`): what was handed over, what is in hand, and the parts
`torchao` still waits to join are together what the files opened so far hold, and no two of
them overlap. `LoadExact` is that law with no file left. The folder's part (`Disk`) says what the
dumping worker has still to write: a tensor that is not whole is in its `queue` or `cur`, or
there is no list that names it; it must hold over a kill between any two steps, when there is no such
worker. The assumption is `WeightLoaderAssumption`: shards share no tensor, and a rank skips all
parts of a tensor or none.

### Launcher

`Startup_proofs` proves of `Launcher`, for any number of nodes, polling turns and calls that are lost or
fail on their node:

| Theorem | Property |
|---|---|
| `LaunchSpecInv` | the inductive invariant `LaunchInv` |
| `LaunchTypeCorrect` | `LaunchTypeOK` |
| `UpIsThisLaunch` | `OkIsThisLaunch` |
| `StartsAreClear` | `OldOutlivesItsCalls` |

`OldOutlivesItsCalls` speaks of the sections from the first `docker run` on. The invariant adds where in
its nodes a section is (`RankInSection`), and the clearing loop's half: a rank below the one it is
at has the old container only if its clearing call was lost or failed (`ClearedBelow`). `OkIsThisLaunch` follows
when a probe is answered: the head's start has been called by then, so that an old head which answers
outlived both calls. The histories only grow, so what excused a rank once excuses it to the end.

### Sliding window

`SwaMetadata_proofs` proves, for any requests, prompts, images, blocks, window, drafts, chunk and batch
sizes and any number of preemptions:

| Theorem | Property |
|---|---|
| `SpecInv` | the inductive invariant `Inv` |
| `TypeCorrect` | `TypeOK` |
| `TargetReadsItsWindow` | `WindowExact`, where `ImagesAreLong` |
| `LongImagesArePrefills` | `DecodesPastImages`, where `ImagesAreLong` |
| `DraftsReadTheirWindow` | `DraftWindowExact` |
| `PaddingIsIdle` | `PaddingReadsNothing` |
| `GatherIsEnough` | `GatherCovers` |
| `PlansFit` | `PlanFits` |

The assumptions are `SwaAssumption` and `PlanAssumption`: the images of a prompt follow each other and
are no longer than `vision_max_n_token`, a draft block has no more queries than drafts are
reserved for, and the plan and the batches have the same limits. `ImagesAreLong`, that every image is longer than
the longest query taken for a decode, is a hypothesis of two theorems and the boundary of the
code's correctness: run `swa_image` violates `DecodesPastImages` where it does not hold. The drafts need
no hypothesis, since they lie past the prompt.

What a token reads depends on what every earlier step left: in the slots, in the tables, in buffers that
are not cleared. `WindowExact` speaks of one moment after the layers, so the invariant carries, in
the order in which the code relies on it,

* `TablesOK`: a block the window has not left is in its request's table, and none is there twice or in two
  tables; so `Schedule`, which takes blocks back and gives them out again, and `Preempt` keep
* `KeysHeld`: the slots of the positions the next token can see hold the request's own keys of its
  present life, although rejected drafts and other requests write beside them;
* `QueriesOK`: what a pass's queries may be, with room in the table for the drafts after them, an image
  whole in its query or not there;
* `RowsHeld`: `KeysHeld` for the positions the pass's queries see, which for the target's pass end before a
  query and after the layers include it;
* `BuiltOK`, `BuffersOK`: the metadata and the rows in the buffers are those of the pass's queries, padded
  tokens included. `RowFor` is the row the kernels compute for a token; the two attention
  paths, with their chunks and their kept rows, hand every token that row (`Chunks`, `RowsAre`), and
  `UpdateDraft` makes the rows of the next pass in place;
* `ReadsOK`: what the tokens have read is what the reference says (`SeesItsWindow`), of a token whose
  row sees its image (`Seeing`).

The lemmas between them are about the flat layout of a batch (`Layout`, `TokenRow`, `TokenPos`), about slots
(`SlotIs`, `SlotsDiffer`: two positions of one or two tables share no slot), and about the kernels'
arithmetic of windows and images against the reference (`SpanIs`, `WindowIs`). `Seeing` is where
the hypothesis enters: under `ImagesAreLong` a query with a token of an image is a prefill
(`DecodesSeeNoImage`).

`PlansFit` is about the plan alone and then about the batches the invariant allows. `PlansExist` proves that
the recursive function of the plan has a value, `TurnChunks` that one turn of the loops leaves chunks that
follow each other and fit (`Chunked`), and `HostGathersSame` that the host's gather lengths are those of the
kernel. A chunk a request opens was not compared with the workspace; `RowBound` shows that it fits, because
the reserved area has a row of the longest compressed text and of the window and a whole step.

### Attention streams

`AttnStreams_proofs` proves, for any number of layers, steps, key and index sources and any timing of the
host and the three streams:

| Theorem | Property |
|---|---|
| `SpecInv` | the inductive invariant `Inv` |
| `TypeCorrect` | `StreamsTypeOK` |
| `KernelsNeverRace` | `NoRace` |

`NoRace` is about operations that are pending at once; nothing in it says why they wait. The invariant
therefore says what orders them. A record behind one operation and a wait for it before another are a
`Fence`, and two operations are `Tied` by a fence or by two with a third operation between. `HostOK`: kernels that
conflict are on one stream or tied, whatever of the layers before them is still pending.
`AllJoined`: where the host leaves a layer, the default stream has a fence behind everything pending, so
that what it enqueues next, on any stream it forks from there, comes after it.

Within a layer `AllJoined` does not hold, and the proof follows the code instead. `Open` is a fan-out at its
record: what is pending is before the record, or was enqueued since and uses the buffers listed. A stream has
`Entered` the fan-out when it waits for that record, its work has `Left` a record behind it, and it is
`Back` when the default stream waits for that one; `Closes` gives `AllJoined` back. What the kernels of the branches read
and write is the rest: the buffers of different branches are `Apart`, which `ProjectionsGood` and `PrepareKeeps` check
branch by branch, with the branches that a layer leaves out. That both fan-outs of a layer, and all
steps, use the same four events does no harm because a wait is for the record before it (`RecordIs`, `WaitIs`).

When a stream takes its first operation (`Takes`), a fence may lose its record or its wait. It does so
only after what it was there to order: the record is done when what is before it is, and the wait when
the record is (`FenceKept`, `TiedKept`). The assumption is `StreamsAssumption`: the sources are compressed
layers, and each compressed layer has a source at or before it.

### Sums

The layouts of batches are sums of `MapThenSumSet`, which takes elements in an order of its own, as a
function on the subsets of a set. `SumLemmas` proves that such a function exists and what its
value is whatever the order (`SumsExist`, `SumSplits`, `SumsAgree`, `SumOfBeginnings`), and from it that the
spans of consecutive sums tile the naturals (`SpansTile`, `BeginningsGrow`); `DivMod` and
`DivModOf` are about rows and columns of a padded batch, `Times` and `Ceiling` about rounding up to
whole chunks, `Slice` about part of a sequence. Induction is stated for what a set can say
(`Induction`: a set with 0 and with every successor of its elements holds every natural), and proved
from the well-foundedness of `<`; the induction theorems of the library take an operator and cannot be
instantiated here.

### Model-checked and not proved

Liveness (`EveryStepServed`, `ScriptEnds`, `StepsEnd`, `LoadEnds`): the prover does not handle
fairness and ENABLED. Every safety invariant and action property of a passing run is stated by a theorem,
`WindowExact` under the hypothesis `ImagesAreLong` (see above).

## Not modelled

* **Around the iterators** (`weight_utils.py`): downloads, the bin-to-safetensors conversion and the
  lookup of the quantization config are single calls into the hub's library under the same lock, or
  a chain of lookups without state; `default_weight_loader` and its variants copy one tensor;
  dummy weights are random numbers; `maybe_remap_*` rename tensors of other checkpoint formats.
* **Token map and multipliers**: string normalisation and pseudo-random constants, computed once.
* **Numerics**: scores, gates, quantization and kernels are abstracted to what they are computed
  from.
* **KV cache specifications, FlashMLA tile-scheduler plans, warm-up**: constant functions of the
  configuration or opaque handles. The prefill chunk plan has no caller in the repository;
  `PrefillPlan` states what a caller may rely on. `dense_mha_metadata_layer_name` is always empty and `skip_k_cache_insert` always set here,
  so their other branches are left out.
* **Mount list**, the script's `DRYRUN` and command-line assembly: text.

## Plan

Done, in this order: `EngramStage` with `EngramService` and its proofs, `Launcher`, `IndexTopK`,
`NgramHash`, `AttnStreams`, `EngramShard`, `SwaMetadata`, `WeightLoader`, `DcpMerge` with its
proof, `PrefillPlan`; then the proofs about `WeightLoader`, `Launcher`, `IndexTopK`, `NgramHash`,
`EngramShard`, `SwaMetadata` with `PrefillPlan`, and `AttnStreams`.
That one rank's failing read leaves the others waiting in a collective, once planned as a composition
of its own, is in `EngramShard` (`Lookup` fails, `StepsEnd`).

What is left is liveness, which stays with TLC, and what the section above lists as not modelled.
