---------------------------- MODULE EngramStage ----------------------------
(***************************************************************************)
(* Disk-backed Engram rows on one TP rank under the V2 runner               *)
(* (patch/engram.py: EngramDiskStager, DiskEngramTable, gather_dequant_many *)
(* and the read pool; patch/model_state.py: prepare_inputs).                *)
(*                                                                          *)
(* Three kinds of actor share the pinned buffers and staged_rows:           *)
(*   - the host thread prepares a step: it enqueues the hash kernel and the *)
(*     copy of the hashes to pinned memory, waits on one event, reads the   *)
(*     rows from disk, copies them into pinned buffers, enqueues the copies *)
(*     to the device and launches the forward;                              *)
(*   - the device executes the in-order stream behind the host's back;      *)
(*   - the pool's threads run the preads, in any interleaving.              *)
(*                                                                          *)
(* A token stands for one (token, local hash head) pair: the code flattens  *)
(* them before it looks rows up. A row's content is a member of Values.     *)
(***************************************************************************)
EXTENDS Integers, Sequences, FiniteSets

CONSTANTS
  NumLayers,     \* Engram layers, staged in this order
  Tokens,        \* what an input position may hold, as the hash sees it
  HashId,        \* [layer -> [token -> row id in the full table]]
  VocabStart,    \* [layer -> first row id this rank owns]
  VocabEnd,      \* [layer -> one past the last row id this rank owns]
  Table,         \* [layer -> [rank-local row -> its dequantized content]]
  Values,        \* the contents rows may have
  Zero,          \* the all-zero row
  Torn,          \* a row made of bytes nothing has written
  RowBytes,      \* [part -> bytes of that part of a row]
  MaxTokens,     \* rows of staged_rows (max_num_batched_tokens)
  Threads,       \* DSV41_ENGRAM_DISK_THREADS
  ChunkCap,      \* DSV41_ENGRAM_DISK_CHUNK
  Batches,       \* the steps' possible tokens
  MaxSteps,      \* bound: staged steps
  MaxAhead       \* bound: the host starts no step on a longer stream

Layers == 1 .. NumLayers
Parts == {"w", "s"}     \* the fp8 weight row and its ue8m0 block scales
Positions == 1 .. MaxTokens
Input == UNION {[1 .. n -> Tokens] : n \in Positions}
LocalRows(l) == 0 .. (VocabEnd[l] - VocabStart[l] - 1)

ASSUME StageAssumption ==
  /\ NumLayers \in Nat \ {0}
  /\ HashId \in [Layers -> [Tokens -> Nat]]
  /\ VocabStart \in [Layers -> Nat]
  /\ VocabEnd \in [Layers -> Nat]
  /\ \A l \in Layers : VocabStart[l] < VocabEnd[l]
  /\ \A l \in Layers : Table[l] \in [LocalRows(l) -> Values]
  /\ Zero \in Values
  /\ Torn \notin Values
  /\ RowBytes \in [Parts -> Nat \ {0}]
  /\ MaxTokens \in Nat \ {0}
  /\ Threads \in Nat \ {0}
  /\ ChunkCap \in Nat \ {0}
  /\ Batches \subseteq Input
  /\ MaxSteps \in Nat
  /\ MaxAhead \in Nat

VARIABLES
  host,         \* where the host thread is in prepare_inputs
  bound,        \* the KV cache is bound (NgramHashState.ensure_cache)
  inputs,       \* the staged steps' tokens; the last is the current step's
  stream,       \* operations enqueued on the stream and not yet executed
  input_ids,    \* device buffer: the tokens the runner wrote last
  hash_host,    \* pinned: [position -> [layer -> row id]]
  local,        \* host: the current step's row ids, [layer -> [position -> id]]
  reads,        \* the current batch: [read task -> its future's state]
  got,          \* [<<layer, part, row>> -> bytes of it read so far]
  gathered,     \* host: dequantized rows, [layer -> [position -> content]]
  layer,        \* the next layer whose rows go to its pinned buffer
  rows_host,    \* pinned: [layer -> [position -> content]]
  staged_rows,  \* device: [layer -> [position -> content]]
  served        \* history: what each executed forward of a staged step read

vars == <<host, bound, inputs, stream, input_ids, hash_host, local, reads, got,
          gathered, layer, rows_host, staged_rows, served>>

Step == inputs[Len(inputs)]

-----------------------------------------------------------------------------
(* Row ids and rank-local rows.                                             *)

IsOwned(l, id) == VocabStart[l] <= id /\ id < VocabEnd[l]

\* disk_rel_owned: another rank's id becomes row 0, read and then dropped.
RelRow_NoWhere(l, id) == id - VocabStart[l]
RelRow(l, id) == IF IsOwned(l, id) THEN id - VocabStart[l] ELSE 0

\* The reference definition: what the forward of a step with tokens x must read.
RowsOf(x) ==
  [l \in Layers |-> [t \in DOMAIN x |->
     LET id == HashId[l][x[t]] IN
     IF IsOwned(l, id) THEN Table[l][id - VocabStart[l]] ELSE Zero]]

-----------------------------------------------------------------------------
(* The read batch: a task per chunk of one part of one layer's distinct     *)
(* rows, submitted in the order Before.                                     *)

Distinct(ids, l) == {RelRow(l, ids[l][t]) : t \in DOMAIN ids[l]}

AllReads(ids) ==
  UNION {{<<l, p, row>> : p \in Parts, row \in Distinct(ids, l)} : l \in Layers}

CeilDiv(a, b) == (a + b - 1) \div b
LesserOf(a, b) == IF a <= b THEN a ELSE b
GreaterOf(a, b) == IF a >= b THEN a ELSE b

Chunk(ids) ==
  GreaterOf(1, LesserOf(ChunkCap, CeilDiv(Cardinality(AllReads(ids)), Threads)))

\* A row's index in the sorted list torch.unique returns.
Rank(ids, l, row) == Cardinality({q \in Distinct(ids, l) : q < row})

\* The rows a chunk that starts at index lo holds: rel[lo:min(lo + chunk, len(rel))].
ChunkRows(ids, l, lo, chunk) ==
  {q \in Distinct(ids, l) : Rank(ids, l, q) \in lo .. lo + chunk - 1}

Task == [layer : Layers, part : Parts, lo : 0 .. MaxTokens - 1]

Tasks(ids) ==
  LET chunk == Chunk(ids) IN
  {[layer |-> k.layer, part |-> k.part, lo |-> k.lo,
    rows |-> ChunkRows(ids, k.layer, k.lo, chunk)] :
     k \in {j \in Task : j.lo < Cardinality(Distinct(ids, j.layer)) /\ j.lo % chunk = 0}}

Before(j, k) ==
  \/ j.layer < k.layer
  \/ j.layer = k.layer /\ j.part = "w" /\ k.part = "s"
  \/ j.layer = k.layer /\ j.part = k.part /\ j.lo < k.lo

\* DiskEngramTable.dequant of the bytes read for one row, then out[~owned] = 0.
Dequant(l, id) ==
  IF ~IsOwned(l, id) THEN Zero
  ELSE IF \A p \in Parts : got[<<l, p, RelRow(l, id)>>] = RowBytes[p]
       THEN Table[l][RelRow(l, id)] ELSE Torn

-----------------------------------------------------------------------------
(* The stream. Every operation carries the tokens of its step: the token    *)
(* count n bounds what hash, copy and forward touch.                        *)

OpKind == {"inputs", "hash", "event", "h2d", "forward", "skip"}
Op(kind, l, x) == [op |-> kind, layer |-> l, x |-> x]

\* The first n rows of a buffer overwritten by those of another.
Overwrite(buf, rows, n) == [t \in DOMAIN buf |-> IF t <= n THEN rows[t] ELSE buf[t]]

-----------------------------------------------------------------------------
(* The host thread.                                                         *)

Init ==
  /\ host = "idle"
  /\ bound = FALSE
  /\ inputs = <<>>
  /\ stream = <<>>
  /\ input_ids = <<>>
  /\ hash_host = [t \in Positions |-> [l \in Layers |-> 0]]
  /\ local = [l \in Layers |-> <<>>]
  /\ reads = <<>>
  /\ got = <<>>
  /\ gathered = [l \in Layers |-> <<>>]
  /\ layer = 1
  /\ rows_host = [l \in Layers |-> [t \in Positions |-> Torn]]
  /\ staged_rows = [l \in Layers |-> [t \in Positions |-> Zero]]
  /\ served = <<>>

hostLocals == <<local, reads, got, gathered, layer>>
buffers == <<hash_host, rows_host, staged_rows>>

\* KV cache allocation (and the temporary one of graph memory profiling).
BindKVCache ==
  /\ host = "idle"
  /\ bound' = ~bound
  /\ UNCHANGED <<host, inputs, stream, input_ids, hostLocals, buffers, served>>

\* prepare_inputs up to the event of stage(): the runner's writes of this step's
\* tokens, the hash kernel with the copy of its ids to pinned memory, the event.
PrepareStep(x) ==
  /\ host = "idle"
  /\ bound
  /\ Len(inputs) < MaxSteps
  /\ Len(stream) <= MaxAhead
  /\ inputs' = Append(inputs, x)
  /\ stream' = stream \o <<Op("inputs", 0, x), Op("hash", 0, x), Op("event", 0, x)>>
  /\ host' = "hashing"
  /\ UNCHANGED <<bound, input_ids, hostLocals, buffers, served>>

\* stage() returns 0 while the KV cache is unbound; the forward skips Engram.
PrepareUnbound(x) ==
  /\ host = "idle"
  /\ ~bound
  /\ Len(stream) <= MaxAhead
  /\ stream' = stream \o <<Op("inputs", 0, x), Op("skip", 0, x)>>
  /\ UNCHANGED <<host, bound, inputs, input_ids, hostLocals, buffers, served>>

\* prepare_dummy_inputs: nothing is staged, the warm-up forward's output is dropped.
PrepareDummy(x) ==
  /\ host = "idle"
  /\ Len(stream) <= MaxAhead
  /\ stream' = Append(stream, Op("skip", 0, x))
  /\ UNCHANGED <<host, bound, inputs, input_ids, hostLocals, buffers, served>>

\* hashes_ready.synchronize() returns; the batch of reads is planned and submitted.
PlanReads ==
  LET ids == [l \in Layers |-> [t \in DOMAIN Step |-> hash_host[t][l]]] IN
  /\ local' = ids
  /\ reads' = [k \in Tasks(ids) |-> "queued"]
  /\ got' = [b \in AllReads(ids) |-> 0]
  /\ host' = "reading"
  /\ UNCHANGED <<bound, inputs, stream, input_ids, gathered, layer, buffers, served>>
SyncHashes_NoWait == host = "hashing" /\ PlanReads
SyncHashes ==
  /\ host = "hashing"
  /\ \A i \in DOMAIN stream : stream[i].op # "event"
  /\ PlanReads

\* Every future has returned: dequantize and scatter back to the token positions.
Gather ==
  /\ gathered' = [l \in Layers |-> [t \in DOMAIN Step |-> Dequant(l, local[l][t])]]
  /\ layer' = 1
  /\ host' = "copying"
  /\ UNCHANGED <<bound, inputs, stream, input_ids, local, reads, got, buffers, served>>
ReadsDone_LastOnly ==
  /\ host = "reading"
  /\ \E k \in DOMAIN reads : reads[k] = "ok" /\ \A j \in DOMAIN reads : ~Before(k, j)
  /\ Gather
ReadsDone ==
  /\ host = "reading"
  /\ \A k \in DOMAIN reads : reads[k] = "ok"
  /\ Gather

\* fut.result() raises at the first failed future whose predecessors returned:
\* the exception leaves prepare_inputs and no handler here catches it.
ReadsFail ==
  /\ host = "reading"
  /\ \E k \in DOMAIN reads :
       /\ reads[k] = "err"
       /\ \A j \in DOMAIN reads : Before(j, k) => reads[j] = "ok"
  /\ host' = "failed"
  /\ UNCHANGED <<bound, inputs, stream, input_ids, hostLocals, buffers, served>>

\* One turn of stage()'s last loop: pinned buffer, then the async copy from it.
\* After the last layer stage() returns.
CopyLayer_SkipsLast ==
  /\ host = "copying"
  /\ rows_host' = [rows_host EXCEPT ![layer] = Overwrite(@, gathered[layer], Len(Step))]
  /\ stream' = Append(stream, Op("h2d", layer, Step))
  /\ layer' = layer + 1
  /\ host' = IF layer = NumLayers - 1 THEN "staged" ELSE "copying"
  /\ UNCHANGED <<bound, inputs, input_ids, local, reads, got, gathered,
                 hash_host, staged_rows, served>>
CopyLayer ==
  /\ host = "copying"
  /\ rows_host' = [rows_host EXCEPT ![layer] = Overwrite(@, gathered[layer], Len(Step))]
  /\ stream' = Append(stream, Op("h2d", layer, Step))
  /\ layer' = layer + 1
  /\ host' = IF layer = NumLayers THEN "staged" ELSE "copying"
  /\ UNCHANGED <<bound, inputs, input_ids, local, reads, got, gathered,
                 hash_host, staged_rows, served>>

\* The runner launches the forward (or replays its graph) on the same stream.
LaunchForward ==
  /\ host = "staged"
  /\ stream' = Append(stream, Op("forward", 0, Step))
  /\ host' = "idle"
  /\ UNCHANGED <<bound, inputs, input_ids, hostLocals, buffers, served>>

-----------------------------------------------------------------------------
(* The pool's threads.                                                      *)

OutsidePool == <<host, bound, inputs, stream, input_ids, local, gathered, layer,
                 buffers, served>>

\* A free thread takes the oldest queued task.
TakeTask(k) ==
  /\ reads[k] = "queued"
  /\ Cardinality({j \in DOMAIN reads : reads[j] = "running"}) < Threads
  /\ \A j \in DOMAIN reads : Before(j, k) => reads[j] # "queued"
  /\ reads' = [reads EXCEPT ![k] = "running"]
  /\ UNCHANGED <<got, OutsidePool>>

Unread(k) == {row \in k.rows : got[<<k.layer, k.part, row>>] < RowBytes[k.part]}

\* preadv returns n bytes of the task's first incomplete row.
Pread(k) ==
  /\ reads[k] = "running"
  /\ \E row \in Unread(k) :
       LET b == <<k.layer, k.part, row>> IN
       /\ \A other \in Unread(k) : row <= other
       /\ \E n \in 1 .. RowBytes[k.part] - got[b] : got' = [got EXCEPT ![b] = @ + n]
  /\ UNCHANGED <<reads, OutsidePool>>

TaskDone(k) ==
  /\ reads[k] = "running"
  /\ Unread(k) = {}
  /\ reads' = [reads EXCEPT ![k] = "ok"]
  /\ UNCHANGED <<got, OutsidePool>>

\* preadv returns nothing (end of file) or raises: the future holds the exception.
ShortRead_Spins(k) ==
  /\ reads[k] = "running"
  /\ Unread(k) # {}
  /\ reads' = [reads EXCEPT ![k] = "spinning"]
  /\ UNCHANGED <<got, OutsidePool>>
ShortRead(k) ==
  /\ reads[k] = "running"
  /\ Unread(k) # {}
  /\ reads' = [reads EXCEPT ![k] = "err"]
  /\ UNCHANGED <<got, OutsidePool>>

Pool == \E k \in DOMAIN reads : TakeTask(k) \/ Pread(k) \/ TaskDone(k) \/ ShortRead(k)

-----------------------------------------------------------------------------
(* The device: the oldest operation of the stream takes effect.             *)

Effect(o) ==
  CASE o.op = "inputs" ->
         /\ input_ids' = o.x
         /\ UNCHANGED <<buffers, served>>
    [] o.op = "hash" ->
         /\ hash_host' = [t \in Positions |->
              IF t <= Len(o.x) THEN [l \in Layers |-> HashId[l][input_ids[t]]]
              ELSE hash_host[t]]
         /\ UNCHANGED <<input_ids, rows_host, staged_rows, served>>
    [] o.op = "h2d" ->
         /\ staged_rows' = [staged_rows EXCEPT
              ![o.layer] = Overwrite(@, rows_host[o.layer], Len(o.x))]
         /\ UNCHANGED <<input_ids, hash_host, rows_host, served>>
    [] o.op = "forward" ->
         /\ served' = Append(served,
              [l \in Layers |-> [t \in DOMAIN o.x |-> staged_rows[l][t]]])
         /\ UNCHANGED <<input_ids, buffers>>
    [] OTHER -> UNCHANGED <<input_ids, buffers, served>>

Execute ==
  /\ stream # <<>>
  /\ Effect(Head(stream))
  /\ stream' = Tail(stream)
  /\ UNCHANGED <<host, bound, inputs, hostLocals>>

-----------------------------------------------------------------------------
Next ==
  \/ BindKVCache
  \/ \E x \in Batches : PrepareStep(x) \/ PrepareUnbound(x) \/ PrepareDummy(x)
  \/ SyncHashes
  \/ ReadsDone
  \/ ReadsFail
  \/ CopyLayer
  \/ LaunchForward
  \/ Pool
  \/ Execute

Spec == Init /\ [][Next]_vars

\* The host runs on, the stream executes what it is given, and the threads work:
\* none of it depends on a new step, a rebinding or a failing disk.
Fairness ==
  /\ WF_vars(SyncHashes \/ ReadsDone \/ ReadsFail \/ CopyLayer \/ LaunchForward)
  /\ WF_vars(Execute)
  /\ WF_vars(Pool)

FairSpec == Spec /\ Fairness

-----------------------------------------------------------------------------
(* Properties                                                               *)

Buffer == [Layers -> [Positions -> Values \cup {Torn}]]
Rows == [Layers -> UNION {[1 .. n -> Values \cup {Torn}] : n \in Positions}]

\* The types of the variables; a row id is one of this rank's or becomes row 0,
\* so no read starts outside the rank's rows.
TypeOK ==
  /\ host \in {"idle", "hashing", "reading", "copying", "staged", "failed"}
  /\ bound \in BOOLEAN
  /\ inputs \in Seq(Input)
  /\ stream \in Seq([op : OpKind, layer : 0 .. NumLayers, x : Input])
  /\ input_ids \in Input \cup {<<>>}
  /\ hash_host \in [Positions -> [Layers -> Nat]]
  /\ DOMAIN local = Layers
  /\ reads \in [DOMAIN reads -> {"queued", "running", "ok", "err"}]
  /\ \A b \in DOMAIN got :
       /\ b \in Layers \X Parts \X Nat
       /\ b[3] \in LocalRows(b[1])
       /\ got[b] \in 0 .. RowBytes[b[2]]
  /\ layer \in 1 .. NumLayers + 1
  /\ rows_host \in Buffer
  /\ staged_rows \in Buffer
  /\ served \in Seq(Rows)

\* Every forward of a staged step has read the rows its own tokens hash to:
\* neither rows of an earlier step, nor rows another layer's copy or a late
\* device write put there (EngramDiskStager's "The forward only reads
\* staged_rows").
ServedRowsCorrect ==
  /\ Len(served) <= Len(inputs)
  /\ \A k \in DOMAIN served : served[k] = RowsOf(inputs[k])

\* Padding rows of a graph replay stay finite: whatever part of staged_rows a
\* forward reads, no row in it was made of bytes no read had filled.
NoTornRow ==
  \A l \in Layers, t \in Positions : staged_rows[l][t] \in Values

\* The one host sync per step also orders the rewrite of a pinned buffer after the
\* previous step's asynchronous copy out of it.
PinnedStable ==
  [][\A l \in Layers :
       rows_host'[l] # rows_host[l] =>
         \A i \in DOMAIN stream : ~(stream[i].op = "h2d" /\ stream[i].layer = l)]_vars

\* Every step that was begun is served, unless a read of its rows failed.
EveryStepServed ==
  \A k \in 1 .. MaxSteps : (Len(inputs) >= k) ~> (Len(served) >= k \/ host = "failed")

\* The stager implements the service the model relies on.
Service == INSTANCE EngramService WITH
  Input <- Batches, asked <- inputs, served <- served, broken <- (host = "failed")
ImplementsService == Service!Spec
=============================================================================
