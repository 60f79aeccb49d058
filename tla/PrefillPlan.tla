---------------------------- MODULE PrefillPlan ----------------------------
(***************************************************************************)
(* patch/sparse_swa.py: how a step's prefill requests are cut into chunks    *)
(* that are gathered into one workspace: DeepseekSparseSWAMetadata.          *)
(* get_prefill_chunk_plan, and the gather lengths the metadata builder's     *)
(* kernel computes. A request is [seq, query]: its length, and the tokens of *)
(* it that this step computes.                                              *)
(***************************************************************************)
EXTENDS Integers, Sequences, SequencesExt

CONSTANTS
  PlanModelLen,    \* max_model_len
  PlanBatched,     \* max_num_batched_tokens
  PlanWindow,      \* window_size
  PlanChunkSizes,  \* values of prefill_chunk_size
  PlanRatios,      \* values of compress_ratio; 0 for a layer without compressed cache
  PlanRequests     \* bound: prefill requests of a step

ASSUME PlanAssumption ==
  /\ {PlanModelLen, PlanBatched, PlanWindow, PlanRequests} \subseteq Nat \ {0}
  /\ PlanChunkSizes \subseteq Nat \ {0} /\ PlanRatios \subseteq Nat

LesserOf(a, b) == IF a <= b THEN a ELSE b
GreaterOf(a, b) == IF a >= b THEN a ELSE b
CeilDiv(a, b) == (a + b - 1) \div b

\* Tokens gathered from the window cache: those of the step and the window before
\* them. A kernel computes them for the attention, and the plan again on the host.
GatherLen_StepOnly(seq, query, window) == query
GatherLen(seq, query, window) == query + LesserOf(seq - query, window - 1)
GatherLenCpu_StepOnly(seq, query, window) == query
GatherLenCpu(seq, query, window) == query + LesserOf(GreaterOf(seq - query, 0), window - 1)

CompressedLen(seq, ratio) == IF ratio = 0 THEN 0 ELSE seq \div ratio

MaxArea(chunk_size, ratio) ==
  chunk_size * ((IF ratio = 0 THEN 0 ELSE CeilDiv(PlanModelLen, ratio))
                + PlanWindow + PlanBatched)

\* One turn of the loops: request i joins the last chunk if that still fits the
\* workspace, or opens the next. A chunk is the plan's tuple.
Plan(requests, chunk_size, ratio) ==
  LET joined(chunk, i) ==
        LET c == GreaterOf(chunk.compressed, CompressedLen(requests[i].seq, ratio))
            g == GreaterOf(chunk.gather, GatherLenCpu(requests[i].seq, requests[i].query, PlanWindow))
        IN  [chunk EXCEPT !.last = i, !.compressed = c, !.gather = g]
      opened(i) == joined([first |-> i, last |-> i, compressed |-> 0, gather |-> 0], i)
      area(chunk) == (chunk.last - chunk.first + 1) * (chunk.compressed + chunk.gather)
      turn(chunks, i) ==
        IF chunks # <<>> /\ area(joined(Last(chunks), i)) <= MaxArea(chunk_size, ratio)
        THEN Append(Front(chunks), joined(Last(chunks), i))
        ELSE Append(chunks, opened(i))
      plan[i \in 0 .. Len(requests)] == IF i = 0 THEN <<>> ELSE turn(plan[i - 1], i)
  IN  plan[Len(requests)]

\* The prefills a step can have
Prefills ==
  LET request == {r \in [seq : 1 .. PlanModelLen, query : 1 .. PlanBatched] : r.query <= r.seq}
      total(rs) == FoldLeft(LAMBDA n, r : n + r.query, 0, rs)
  IN  {rs \in UNION {[1 .. n -> request] : n \in 1 .. PlanRequests} : total(rs) <= PlanBatched}

\* The chunks of the plan follow each other from the first to the last prefill, a
\* workspace row of a chunk holds what the attention gathers for any of its requests,
\* and the rows never exceed the workspace.
FitsWorkspace(requests, chunk_size, ratio) ==
  LET plan == Plan(requests, chunk_size, ratio) IN
  /\ (IF plan = <<>> THEN 0 ELSE Last(plan).last) = Len(requests)
  /\ \A c \in DOMAIN plan :
       LET chunk == plan[c] IN
       /\ chunk.first = (IF c = 1 THEN 0 ELSE plan[c - 1].last) + 1
       /\ chunk.first <= chunk.last
       /\ \A i \in chunk.first .. chunk.last :
            /\ CompressedLen(requests[i].seq, ratio) <= chunk.compressed
            /\ GatherLen(requests[i].seq, requests[i].query, PlanWindow) <= chunk.gather
       /\ (chunk.last - chunk.first + 1) * (chunk.compressed + chunk.gather)
            <= MaxArea(chunk_size, ratio)
=============================================================================
