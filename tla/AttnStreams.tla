----------------------------- MODULE AttnStreams -----------------------------
(***************************************************************************)
(* The CUDA streams of an attention layer (patch/attention.py:              *)
(* DeepseekV4Attention.forward, _run_parallel_input_projections,            *)
(* _prepare_and_attn, _sparse_indexer_and_attn, DeepseekV4Indexer.forward). *)
(* The host enqueues a layer's work on the default stream and, through      *)
(* events, on two auxiliary streams; the streams run it concurrently.       *)
(*                                                                          *)
(* A kernel is what it reads and writes. The temporaries of all layers have *)
(* the same names: once the host has left a layer, the allocator may hand   *)
(* their memory to the next one, whatever the streams still do.             *)
(***************************************************************************)
EXTENDS Integers, Sequences, FiniteSets, FiniteSetsExt

CONSTANTS
  NumAttnLayers,
  KvSourceLayers,     \* kv_source_layer_ids: layers with a compressor
  IndexSourceLayers,  \* index_source_layer_ids: layers with an indexer
  Compressed,         \* layers with compress_ratio > 0
  Aux,                \* there are auxiliary streams (aux_stream_list)
  MaxAttnSteps,       \* bound: steps
  MaxAhead            \* bound: the host enqueues no layer on more work

AttnLayers == 1 .. NumAttnLayers

ASSUME StreamsAssumption ==
  /\ NumAttnLayers \in Nat \ {0}
  /\ KvSourceLayers \subseteq Compressed /\ IndexSourceLayers \subseteq Compressed
  /\ Compressed \subseteq AttnLayers
  /\ \A l \in Compressed :
       (\E s \in KvSourceLayers : s <= l) /\ (\E s \in IndexSourceLayers : s <= l)
  /\ Aux \in BOOLEAN /\ MaxAttnSteps \in Nat /\ MaxAhead \in Nat

VARIABLES
  next,      \* [step, layer]: what the host enqueues next
  enqueued,  \* the operations enqueued so far
  last,      \* [event -> the number of the record enqueued last, 0 for none]
  pending,   \* the operations the streams have not finished
  running    \* those that have begun

streamsVars == <<next, enqueued, last, pending, running>>

Streams == {"main", "aux0", "aux1"}
Events == AttnLayers \X (0 .. 3)     \* ln_events of each layer

KvSource(l) == Max({s \in KvSourceLayers : s <= l})

-----------------------------------------------------------------------------
(* Work as the host enqueues it.                                            *)

Operation(op, s, e, reads, writes) ==
  <<[op |-> op, stream |-> s, event |-> e, reads |-> reads, writes |-> writes,
     at |-> 0, of |-> 0]>>
Kernel(s, reads, writes) == Operation("kernel", s, <<>>, reads, writes)
Record(s, e) == Operation("record", s, e, {}, {})
Await(s, e) == Operation("wait", s, e, {}, {})

OnMain(work) == [i \in DOMAIN work |-> [work[i] EXCEPT !.stream = "main"]]

\* maybe_execute_in_parallel: the second part on the auxiliary stream, joined.
Overlap(l, first, second) ==
  IF ~Aux THEN first \o OnMain(second)
  ELSE Record("main", <<l, 0>>) \o first
       \o Await("aux0", <<l, 0>>) \o second \o Record("aux0", <<l, 1>>)
       \o Await("main", <<l, 1>>)

\* The input projections; execute_in_parallel fans out unless the batch is large.
Gemm == Kernel("main", {<<"hidden">>}, {<<"qr_kv">>})
KvScore(l) == IF l \in KvSourceLayers THEN Kernel("aux0", {<<"hidden">>}, {<<"kv_score">>}) ELSE <<>>
Weights(l) ==
  IF l \in IndexSourceLayers THEN Kernel("aux1", {<<"hidden">>}, {<<"weights">>}) ELSE <<>>
Fork(l, s, e, work) ==
  IF work = <<>> THEN <<>> ELSE Await(s, <<l, 0>>) \o work \o Record(s, <<l, e>>)
Join(l, e, work) == IF work = <<>> THEN <<>> ELSE Await("main", <<l, e>>)
Projections_JoinsEarly(l, fan) ==
  IF ~Aux \/ ~fan THEN Gemm \o OnMain(KvScore(l) \o Weights(l))
  ELSE Record("main", <<l, 0>>) \o Join(l, 1, KvScore(l)) \o Join(l, 2, Weights(l))
       \o Fork(l, "aux0", 1, KvScore(l)) \o Fork(l, "aux1", 2, Weights(l)) \o Gemm
Projections(l, fan) ==
  IF ~Aux \/ ~fan THEN Gemm \o OnMain(KvScore(l) \o Weights(l))
  ELSE Record("main", <<l, 0>>)
       \o Fork(l, "aux0", 1, KvScore(l)) \o Fork(l, "aux1", 2, Weights(l)) \o Gemm
       \o Join(l, 1, KvScore(l)) \o Join(l, 2, Weights(l))

\* DeepseekV4Indexer.forward: the index keys where the layer owns them, then the
\* rows of a short context, or the query with its scaled weights ("index_q") that
\* sparse_attn_indexer needs.
Indexer(l, short) ==
  IF l \notin IndexSourceLayers THEN <<>>
  ELSE (IF l \in KvSourceLayers THEN Kernel("main", {<<"latent">>}, {<<"index_k", l>>}) ELSE <<>>)
       \o (IF short THEN Kernel("main", {}, {<<"topk">>})
           ELSE Kernel("main", {<<"qr">>, <<"weights">>}, {<<"index_q">>}))

\* _prepare_and_attn: Q and the SWA insert beside the compressor, the indexer beside
\* the compressed-cache insert.
Prepare_OneFanOut(l, short) ==
  LET query == Kernel("main", {<<"qr">>, <<"kv">>}, {<<"q">>, <<"swa", l>>})
      compress == Kernel("aux0", {<<"kv_score">>}, {<<"latent">>, <<"state", l>>})
      insert == Kernel("aux0", {<<"latent">>}, {<<"compressed", l>>})
  IN  IF l \in KvSourceLayers
      THEN Overlap(l, query \o Indexer(l, short), compress \o insert)
      ELSE query \o Indexer(l, short)
Prepare(l, short) ==
  LET query == Kernel("main", {<<"qr">>, <<"kv">>}, {<<"q">>, <<"swa", l>>})
      compress == Kernel("aux0", {<<"kv_score">>}, {<<"latent">>, <<"state", l>>})
      insert == Kernel("aux0", {<<"latent">>}, {<<"compressed", l>>})
  IN  IF l \in KvSourceLayers
      THEN Overlap(l, query, compress) \o Overlap(l, Indexer(l, short), insert)
      ELSE query \o Indexer(l, short)

Attention(l, short) ==
  (IF l \in IndexSourceLayers /\ ~short
   THEN Kernel("main", {<<"index_q">>, <<"index_k", KvSource(l)>>}, {<<"topk">>})
   ELSE <<>>)
  \o Kernel("main",
       {<<"q">>, <<"swa", l>>} \cup
         (IF l \in Compressed THEN {<<"topk">>, <<"compressed", KvSource(l)>>} ELSE {}),
       {<<"o_padded">>})

Layer(l, fan, short) ==
  Projections(l, fan)
  \o Kernel("main", {<<"qr_kv">>}, {<<"qr">>, <<"kv">>})
  \o Prepare(l, short)
  \o Attention(l, short)
  \o Kernel("main", {<<"o_padded">>}, {<<"hidden">>})

\* An enqueued operation has its number, `at`; a wait is for the record of its event
\* that was enqueued last, number `of`.
Issue(host, o) ==
  LET n == host.enqueued + 1 IN
  [enqueued |-> n,
   last |-> IF o.op = "record" THEN [host.last EXCEPT ![o.event] = n] ELSE host.last,
   pending |-> host.pending \cup
     {[o EXCEPT !.at = n, !.of = IF o.op = "wait" THEN host.last[o.event] ELSE 0]}]
IssueAll(host, work) ==
  LET after[i \in 0 .. Len(work)] == IF i = 0 THEN host ELSE Issue(after[i - 1], work[i])
  IN  after[Len(work)]

-----------------------------------------------------------------------------
StreamsInit ==
  /\ next = [step |-> 1, layer |-> 1]
  /\ enqueued = 0
  /\ last = [e \in Events |-> 0]
  /\ pending = {}
  /\ running = {}

Host == [enqueued |-> enqueued, last |-> last, pending |-> pending]

\* The host runs a layer's code. A host that has not enqueued an operation yet looks
\* like a stream that has not begun it, so that a layer is enqueued at once.
Enqueue(fan, short) ==
  LET host == IssueAll(Host, Layer(next.layer, fan, short)) IN
  /\ next.step <= MaxAttnSteps
  /\ \A s \in Streams : Cardinality({o \in pending : o.stream = s}) <= MaxAhead
  /\ enqueued' = host.enqueued
  /\ last' = host.last
  /\ pending' = host.pending
  /\ next' = IF next.layer < NumAttnLayers THEN [next EXCEPT !.layer = @ + 1]
             ELSE [step |-> next.step + 1, layer |-> 1]
  /\ UNCHANGED running

\* A stream does its operations in order.
First(o) == \A x \in pending : x.stream = o.stream => o.at <= x.at

Done(o) ==
  /\ pending' = pending \ {o}
  /\ UNCHANGED <<next, enqueued, last>>

Begin(o) ==
  /\ o.op = "kernel" /\ First(o) /\ o \notin running
  /\ running' = running \cup {o}
  /\ UNCHANGED <<next, enqueued, last, pending>>

Finish(o) ==
  /\ o \in running
  /\ running' = running \ {o}
  /\ Done(o)

RecordEvent(o) ==
  /\ o.op = "record" /\ First(o)
  /\ Done(o)
  /\ UNCHANGED running

WaitEvent(o) ==
  /\ o.op = "wait" /\ First(o)
  /\ \A x \in pending : x.at # o.of
  /\ Done(o)
  /\ UNCHANGED running

StreamsNext ==
  \/ \E fan, short \in BOOLEAN : Enqueue(fan, short)
  \/ \E o \in pending : Begin(o) \/ Finish(o) \/ RecordEvent(o) \/ WaitEvent(o)

StreamsSpec == StreamsInit /\ [][StreamsNext]_streamsVars

-----------------------------------------------------------------------------
(* Properties                                                               *)

\* The types of the variables; only a stream's first kernel runs, and a stream never
\* waits for an event the host has not had recorded before: that wait would do nothing.
StreamsTypeOK ==
  /\ next \in [step : 1 .. MaxAttnSteps + 1, layer : AttnLayers]
  /\ enqueued \in Nat /\ last \in [Events -> 0 .. enqueued]
  /\ \A o \in pending :
       /\ o.op \in {"kernel", "record", "wait"} /\ o.stream \in Streams
       /\ o.at \in 1 .. enqueued
       /\ o.op = "wait" => o.of \in 1 .. o.at - 1
  /\ running \subseteq {o \in pending : o.op = "kernel" /\ First(o)}

Conflict(a, b) ==
  \/ a.writes \cap (b.reads \cup b.writes) # {}
  \/ b.writes \cap a.reads # {}

\* A running kernel sees what it would see if the host ran everything in program
\* order: no kernel before it that it conflicts with is unfinished. In particular
\* "both cache writes finish before sparse attention reads either cache", "K write
\* must land before indexer_op reads the cache", and no temporary is overwritten by
\* the next layer, or step, while it is still read.
NoRace ==
  \A k \in running, o \in pending : o.op = "kernel" /\ o.at < k.at => ~Conflict(o, k)
=============================================================================
