------------------------- MODULE EngramStage_proofs -------------------------
(***************************************************************************)
(* Proofs about EngramStage: its type invariant, that every forward reads   *)
(* its own step's rows, that no torn row reaches the device, that a pinned  *)
(* buffer is stable under a pending copy, and that the stager implements    *)
(* EngramService - all for any number of layers, tokens, threads and steps. *)
(*                                                                          *)
(* The inductive invariant says what the stream may hold in each phase of   *)
(* the host. Its heart is that the stream is empty once the host has passed *)
(* the event, so at most one step's copies and forward are in flight.       *)
(***************************************************************************)
EXTENDS EngramStage, FiniteSetTheorems, TLAPS

IdsOf(x) == [l \in Layers |-> [t \in DOMAIN x |-> HashId[l][x[t]]]]

\* The oldest step whose forward has not executed.
Oldest == inputs[Len(served) + 1]

HashedFor(x) ==
  \A t \in DOMAIN x : \A l \in Layers : hash_host[t][l] = HashId[l][x[t]]
PinnedFor(x, l) == \A t \in DOMAIN x : rows_host[l][t] = RowsOf(x)[l][t]
StagedFor(x, l) == \A t \in DOMAIN x : staged_rows[l][t] = RowsOf(x)[l][t]

Kinds(K) == \A i \in DOMAIN stream : stream[i].op \in K
Pending == \E i \in DOMAIN stream : stream[i].op = "forward"

\* Copies belong to the oldest unserved step and carry its rows.
CopiesInv ==
  \A i \in DOMAIN stream : stream[i].op = "h2d" =>
    /\ Len(served) < Len(inputs)
    /\ stream[i].layer \in Layers
    /\ stream[i].x = Oldest
    /\ PinnedFor(Oldest, stream[i].layer)

\* There is at most one forward; each layer it reads is in place or copied before it.
ForwardInv ==
  \A i \in DOMAIN stream : stream[i].op = "forward" =>
    /\ Len(served) < Len(inputs)
    /\ stream[i].x = Oldest
    /\ \A j \in DOMAIN stream : stream[j].op = "forward" => j = i
    /\ \A j \in DOMAIN stream : stream[j].op = "h2d" => j < i
    /\ \A l \in Layers : \/ StagedFor(Oldest, l)
                         \/ \E j \in DOMAIN stream : stream[j].op = "h2d" /\ stream[j].layer = l

\* Outside the copying phase copies are followed by their forward.
CountInv ==
  /\ host = "idle" => /\ Pending => Len(inputs) = Len(served) + 1
                      /\ ~Pending => Len(inputs) = Len(served)
  /\ host = "hashing" => /\ Pending => Len(inputs) = Len(served) + 2
                         /\ ~Pending => Len(inputs) = Len(served) + 1
  /\ host \in {"idle", "hashing"} /\ ~Pending =>
       \A i \in DOMAIN stream : stream[i].op # "h2d"

\* While the ids of the current step are on their way, the stream ends with what
\* brings them: the runner's write, the hash and the event, or what is left of it.
HashInv ==
  LET n == Len(stream) IN
  /\ host # "hashing" => \A i \in DOMAIN stream : stream[i].op \notin {"hash", "event"}
  /\ host = "hashing" =>
       /\ n = 0 => HashedFor(Step)
       /\ n > 0 => stream[n].op = "event"
       /\ n = 1 => HashedFor(Step)
       /\ n > 1 => stream[n - 1] = Op("hash", 0, Step)
       /\ n = 2 => input_ids = Step
       /\ n > 2 => stream[n - 2] = Op("inputs", 0, Step)
       /\ \A i \in DOMAIN stream : i < n - 1 => stream[i].op \notin {"hash", "event"}

\* Reading and copying start on an empty stream.
PhaseInv ==
  /\ host \in {"reading", "failed"} => stream = <<>>
  /\ host \in {"reading", "copying", "staged", "failed"} => Len(inputs) = Len(served) + 1
  /\ host \in {"copying", "staged"} => Kinds({"h2d"})
  /\ host = "staged" => layer = NumLayers + 1
  /\ host = "copying" => layer \in Layers
  /\ host \in {"copying", "staged"} =>
       /\ gathered = RowsOf(Step)
       /\ \A i \in DOMAIN stream : stream[i].layer < layer
       /\ \A l \in Layers : l < layer =>
            \/ StagedFor(Step, l)
            \/ \E i \in DOMAIN stream : stream[i].layer = l

\* The batch covers every row the step needs, and a finished task has read its rows.
ReadInv ==
  host = "reading" =>
    /\ local = IdsOf(Step)
    /\ DOMAIN reads = Tasks(local)
    /\ DOMAIN got = AllReads(local)
    /\ \A k \in DOMAIN reads : reads[k] = "ok" => Unread(k) = {}

StageInv ==
  /\ TypeOK
  /\ ServedRowsCorrect
  /\ NoTornRow
  /\ CopiesInv
  /\ ForwardInv
  /\ CountInv
  /\ HashInv
  /\ PhaseInv
  /\ ReadInv

-----------------------------------------------------------------------------
(* Facts about inputs and the reference rows.                               *)

LEMMA InputFacts ==
  ASSUME NEW x \in Input
  PROVE  /\ Len(x) \in Positions
         /\ DOMAIN x = 1 .. Len(x)
         /\ \A t \in DOMAIN x : x[t] \in Tokens
  <1>1. PICK n \in Positions : x \in [1 .. n -> Tokens]
    BY DEF Input
  <1>2. n \in Nat
    BY StageAssumption DEF Positions
  <1>3. x \in Seq(Tokens) /\ Len(x) = n
    BY <1>1, <1>2
  <1>. QED  BY <1>1, <1>3

\* Every row the reference definition names is a row content.
LEMMA RowsOfType ==
  ASSUME NEW x \in Input, NEW l \in Layers, NEW t \in DOMAIN x
  PROVE  RowsOf(x)[l][t] \in Values
  <1>. DEFINE id == HashId[l][x[t]]
  <1>1. id \in Nat
    BY InputFacts, StageAssumption
  <1>2. RowsOf(x)[l][t] = IF IsOwned(l, id) THEN Table[l][id - VocabStart[l]] ELSE Zero
    BY DEF RowsOf
  <1>3. CASE IsOwned(l, id)
    <2>1. id - VocabStart[l] \in LocalRows(l)
      BY <1>1, <1>3, StageAssumption DEF IsOwned, LocalRows
    <2>2. Table[l] \in [LocalRows(l) -> Values]
      BY StageAssumption
    <2>. QED  BY <1>2, <1>3, <2>1, <2>2
  <1>4. CASE ~IsOwned(l, id)
    BY <1>2, <1>4, StageAssumption
  <1>. QED  BY <1>3, <1>4

\* Whatever the id, the row read for it is one of the rank's.
LEMMA RelRowType ==
  ASSUME NEW l \in Layers, NEW id \in Nat
  PROVE  RelRow(l, id) \in LocalRows(l)
  BY StageAssumption DEF RelRow, IsOwned, LocalRows

LEMMA StepType ==
  ASSUME TypeOK, Len(inputs) > 0
  PROVE  Step \in Input
  BY DEF TypeOK, Step

LEMMA StreamType ==
  ASSUME TypeOK
  PROVE  /\ Len(stream) \in Nat /\ DOMAIN stream = 1 .. Len(stream)
         /\ \A i \in DOMAIN stream : /\ stream[i].op \in OpKind
                                     /\ stream[i].layer \in 0 .. NumLayers
                                     /\ stream[i].layer \in Int
                                     /\ stream[i].x \in Input
  <1>. DEFINE Ops == [op : OpKind, layer : 0 .. NumLayers, x : Input]
  <1>1. stream \in Seq(Ops)
    BY DEF TypeOK
  <1>2. \A i \in DOMAIN stream : stream[i] \in Ops
    <2>. HIDE DEF Ops
    <2>. QED  BY <1>1
  <1>3. Len(stream) \in Nat /\ DOMAIN stream = 1 .. Len(stream)
    BY <1>1
  <1>. QED  BY <1>2, <1>3, StageAssumption

-----------------------------------------------------------------------------
(* The read batch of a step covers every row the step needs.                *)

LEMMA DistinctFacts ==
  ASSUME NEW x \in Input, NEW l \in Layers
  PROVE  /\ IsFiniteSet(Distinct(IdsOf(x), l))
         /\ Cardinality(Distinct(IdsOf(x), l)) \in 0 .. MaxTokens
         /\ Distinct(IdsOf(x), l) \subseteq LocalRows(l)
  <1>. DEFINE D == Distinct(IdsOf(x), l)
              f == [t \in DOMAIN x |-> RelRow(l, HashId[l][x[t]])]
  <1>1. D = {RelRow(l, HashId[l][x[t]]) : t \in DOMAIN x}
    BY DEF Distinct, IdsOf
  <1>2. f \in Surjection(DOMAIN x, D)
    BY <1>1 DEF Surjection
  <1>3. IsFiniteSet(DOMAIN x) /\ Cardinality(DOMAIN x) <= MaxTokens
    BY InputFacts, FS_Interval, StageAssumption DEF Positions
  <1>4. IsFiniteSet(D) /\ Cardinality(D) <= Cardinality(DOMAIN x)
    BY <1>2, <1>3, FS_Surjection
  <1>5. Cardinality(D) \in Nat /\ Cardinality(DOMAIN x) \in Nat
    BY <1>3, <1>4, FS_CardinalityType
  <1>6. D \subseteq LocalRows(l)
    <2>. SUFFICES ASSUME NEW t \in DOMAIN x
                  PROVE  RelRow(l, HashId[l][x[t]]) \in LocalRows(l)
      BY <1>1
    <2>1. HashId[l][x[t]] \in Nat
      BY InputFacts, StageAssumption
    <2>. QED  BY <2>1, RelRowType
  <1>. QED  BY <1>3, <1>4, <1>5, <1>6, StageAssumption

LEMMA ChunkFacts ==
  ASSUME NEW x \in Input
  PROVE  Chunk(IdsOf(x)) \in Nat /\ Chunk(IdsOf(x)) > 0
  <1>. DEFINE A == AllReads(IdsOf(x))
              R == UNION {Distinct(IdsOf(x), l) : l \in Layers}
              B == (Layers \X Parts) \X R
              ofLayer == [l \in Layers |-> Distinct(IdsOf(x), l)]
              flat == [b \in B |-> <<b[1][1], b[1][2], b[2]>>]
  <1>1. IsFiniteSet(Layers) /\ IsFiniteSet(Parts)
    <2>1. IsFiniteSet(Layers)
      BY FS_Interval, StageAssumption DEF Layers
    <2>2. IsFiniteSet({"w"} \cup {"s"})
      BY FS_Singleton, FS_AddElement
    <2>3. Parts = {"w"} \cup {"s"}
      BY DEF Parts
    <2>. QED  BY <2>1, <2>2, <2>3
  <1>2. IsFiniteSet(R)
    <2>1. ofLayer \in Surjection(Layers, {Distinct(IdsOf(x), l) : l \in Layers})
      BY DEF Surjection
    <2>2. IsFiniteSet({Distinct(IdsOf(x), l) : l \in Layers})
      BY <1>1, <2>1, FS_Surjection
    <2>. QED  BY <2>2, DistinctFacts, FS_UNION
  <1>3. IsFiniteSet(B)
    BY <1>1, <1>2, FS_Product
  <1>4. flat \in Surjection(B, {flat[b] : b \in B})
    BY DEF Surjection
  <1>5. IsFiniteSet({flat[b] : b \in B})
    BY <1>3, <1>4, FS_Surjection
  <1>6. A \subseteq {flat[b] : b \in B}
    <2>. SUFFICES ASSUME NEW a \in A
                  PROVE  \E b \in B : a = flat[b]
      OBVIOUS
    <2>1. PICK l \in Layers : \E p \in Parts, row \in Distinct(IdsOf(x), l) : a = <<l, p, row>>
      BY DEF AllReads
    <2>4. PICK p \in Parts, row \in Distinct(IdsOf(x), l) : a = <<l, p, row>>
      BY <2>1
    <2>2. <<<<l, p>>, row>> \in B
      OBVIOUS
    <2>3. flat[<<<<l, p>>, row>>] = <<l, p, row>>
      BY <2>2
    <2>. QED  BY <2>2, <2>3, <2>4
  <1>7. Cardinality(A) \in Nat
    BY <1>5, <1>6, FS_Subset, FS_CardinalityType
  <1>8. CeilDiv(Cardinality(A), Threads) \in Int
    BY <1>7, StageAssumption DEF CeilDiv
  <1>. QED  BY <1>8, StageAssumption DEF Chunk, GreaterOf, LesserOf

LEMMA ModFacts ==
  ASSUME NEW r \in Nat, NEW c \in Nat, c > 0
  PROVE  /\ r % c \in 0 .. c - 1
         /\ r % c <= r
         /\ (r - (r % c)) % c = 0
  <1>1. r % c \in 0 .. c - 1
    BY SMT
  <1>2. r % c <= r
    BY SMT
  <1>3. (r - (r % c)) % c = 0
    BY Z3
  <1>. QED  BY <1>1, <1>2, <1>3

\* Every row the batch must read belongs to a task.
LEMMA BatchCovers ==
  ASSUME NEW x \in Input, NEW l \in Layers, NEW p \in Parts,
         NEW row \in Distinct(IdsOf(x), l)
  PROVE  \E k \in Tasks(IdsOf(x)) : k.layer = l /\ k.part = p /\ row \in k.rows
  <1>. DEFINE ids == IdsOf(x)
              D == Distinct(ids, l)
              c == Chunk(ids)
              r == Rank(ids, l, row)
              lo == r - (r % c)
              j == [layer |-> l, part |-> p, lo |-> lo]
              k == [layer |-> l, part |-> p, lo |-> lo, rows |-> ChunkRows(ids, l, lo, c)]
  <1>1. IsFiniteSet(D) /\ Cardinality(D) \in 0 .. MaxTokens /\ D \subseteq Int
    BY DistinctFacts DEF LocalRows
  <1>2. c \in Nat /\ c > 0
    BY ChunkFacts
  <1>3. r \in Nat /\ r < Cardinality(D)
    <2>. DEFINE S == {q \in D : q < row}
    <2>1. S \in SUBSET D /\ S # D
      BY <1>1
    <2>2. IsFiniteSet(S) /\ Cardinality(S) <= Cardinality(D) /\ Cardinality(S) # Cardinality(D)
      BY <1>1, <2>1, FS_Subset
    <2>3. Cardinality(S) \in Nat
      BY <2>2, FS_CardinalityType
    <2>. QED  BY <1>1, <2>2, <2>3 DEF Rank
  <1>4. /\ r % c \in 0 .. c - 1
        /\ r % c <= r
        /\ lo % c = 0
    BY <1>2, <1>3, ModFacts
  <1>5. lo \in 0 .. MaxTokens - 1 /\ lo <= r /\ r < lo + c
    BY <1>1, <1>2, <1>3, <1>4, StageAssumption
  <1>6. j \in Task /\ j.lo < Cardinality(D) /\ j.lo % c = 0
    BY <1>1, <1>3, <1>4, <1>5 DEF Task
  <1>7. k \in Tasks(ids)
    BY <1>6 DEF Tasks
  <1>8. row \in ChunkRows(ids, l, lo, c)
    BY <1>2, <1>3, <1>5 DEF ChunkRows
  <1>. QED  BY <1>7, <1>8

LEMMA TaskInBatch ==
  ASSUME NEW ids, NEW k \in Tasks(ids), NEW row \in k.rows
  PROVE  <<k.layer, k.part, row>> \in AllReads(ids)
  <1>1. /\ k.layer \in Layers /\ k.part \in Parts
        /\ k.rows \subseteq Distinct(ids, k.layer)
    BY DEF Tasks, Task, ChunkRows
  <1>. QED  BY <1>1 DEF AllReads

\* When every task has returned, the dequantized rows are the step's rows.
LEMMA BatchGathersStep ==
  ASSUME StageInv, host = "reading",
         \A k \in DOMAIN reads : reads[k] = "ok"
  PROVE  [l \in Layers |-> [t \in DOMAIN Step |-> Dequant(l, local[l][t])]] = RowsOf(Step)
  <1>. DEFINE x == Step
  <1>1. x \in Input
    BY StepType DEF StageInv, PhaseInv, TypeOK, ServedRowsCorrect
  <1>2. local = IdsOf(x) /\ DOMAIN reads = Tasks(local) /\ DOMAIN got = AllReads(local)
    BY DEF StageInv, ReadInv
  <1>3. ASSUME NEW l \in Layers, NEW t \in DOMAIN x
        PROVE  Dequant(l, local[l][t]) = RowsOf(x)[l][t]
    <2>. DEFINE id == HashId[l][x[t]]
                row == RelRow(l, id)
    <2>1. local[l][t] = id
      BY <1>2 DEF IdsOf
    <2>2. row \in Distinct(local, l)
      BY <1>2, <2>1 DEF Distinct, IdsOf
    <2>3. ASSUME NEW p \in Parts
          PROVE  got[<<l, p, row>>] = RowBytes[p]
      <3>1. PICK k \in Tasks(local) : k.layer = l /\ k.part = p /\ row \in k.rows
        BY <1>1, <1>2, <2>2, BatchCovers
      <3>2. Unread(k) = {}
        BY <1>2, <3>1 DEF StageInv, ReadInv
      <3>3. ~(got[<<l, p, row>>] < RowBytes[p])
        BY <3>1, <3>2 DEF Unread
      <3>4. <<l, p, row>> \in DOMAIN got
        BY <1>2, <2>2 DEF AllReads
      <3>5. got[<<l, p, row>>] \in 0 .. RowBytes[p]
        BY <3>4 DEF StageInv, TypeOK
      <3>6. RowBytes[p] \in Nat
        BY StageAssumption
      <3>. QED  BY <3>3, <3>5, <3>6
    <2>4. CASE IsOwned(l, id)
      BY <2>1, <2>3, <2>4 DEF Dequant, RelRow, RowsOf
    <2>5. CASE ~IsOwned(l, id)
      BY <2>1, <2>5 DEF Dequant, RowsOf
    <2>. QED  BY <2>4, <2>5
  <1>4. RowsOf(x) = [l \in Layers |-> [t \in DOMAIN x |-> RowsOf(x)[l][t]]]
    BY DEF RowsOf
  <1>. HIDE DEF x
  <1>5. [l \in Layers |-> [t \in DOMAIN x |-> Dequant(l, local[l][t])]] = RowsOf(x)
    BY <1>3, <1>4
  <1>. QED  BY <1>5 DEF x

-----------------------------------------------------------------------------
(* The invariant holds initially and every action preserves it.             *)

LEMMA StageInit == Init => StageInv
  <1>. SUFFICES ASSUME Init PROVE StageInv
    OBVIOUS
  <1>1. TypeOK
    <2>1. rows_host \in Buffer /\ staged_rows \in Buffer
      BY StageAssumption DEF Init, Buffer
    <2>2. hash_host \in [Positions -> [Layers -> Nat]] /\ DOMAIN local = Layers
      BY DEF Init
    <2>3. layer \in 1 .. NumLayers + 1
      BY StageAssumption DEF Init
    <2>4. DOMAIN got = {} /\ reads \in [DOMAIN reads -> {"queued", "running", "ok", "err"}]
      BY DEF Init
    <2>5. inputs \in Seq(Input)
          /\ stream \in Seq([op : OpKind, layer : 0 .. NumLayers, x : Input])
      BY DEF Init
    <2>6. bound \in BOOLEAN /\ input_ids \in Input \cup {<<>>}
      BY DEF Init
    <2>7. served \in Seq(Rows)
      <3>. HIDE DEF Rows
      <3>. QED  BY DEF Init
    <2>. QED  BY <2>1, <2>2, <2>3, <2>4, <2>5, <2>6, <2>7, Zenon DEF Init, TypeOK
  <1>2. ServedRowsCorrect /\ NoTornRow
    BY StageAssumption DEF Init, ServedRowsCorrect, NoTornRow
  <1>3. CopiesInv /\ ForwardInv /\ CountInv
    BY DEF Init, CopiesInv, ForwardInv, CountInv, Pending
  <1>4. HashInv /\ PhaseInv /\ ReadInv
    BY DEF Init, HashInv, PhaseInv, ReadInv
  <1>. QED  BY <1>1, <1>2, <1>3, <1>4 DEF StageInv

LEMMA BindPreserves == StageInv /\ BindKVCache => StageInv'
  <1>. SUFFICES ASSUME StageInv, BindKVCache PROVE StageInv'
    OBVIOUS
  <1>. USE DEF BindKVCache, hostLocals, buffers
  <1>1. TypeOK'
    BY DEF StageInv, TypeOK
  <1>2. (ServedRowsCorrect /\ NoTornRow)'
    BY DEF StageInv, ServedRowsCorrect, NoTornRow
  <1>3. (CopiesInv /\ ForwardInv /\ CountInv)'
    BY DEF StageInv, CopiesInv, ForwardInv, CountInv, Pending, Oldest, PinnedFor, StagedFor
  <1>4. (HashInv /\ PhaseInv /\ ReadInv)'
    BY DEF StageInv, HashInv, PhaseInv, ReadInv
  <1>. QED  BY <1>1, <1>2, <1>3, <1>4 DEF StageInv

LEMMA LaunchPreserves == StageInv /\ LaunchForward => StageInv'
  <1>. SUFFICES ASSUME StageInv, LaunchForward PROVE StageInv'
    OBVIOUS
  <1>. USE DEF LaunchForward, hostLocals, buffers
  <1>. DEFINE n == Len(stream)
  <1>0. /\ Len(inputs) = Len(served) + 1 /\ Step = Oldest /\ Step \in Input
        /\ layer = NumLayers + 1 /\ Kinds({"h2d"})
    BY StepType DEF StageInv, PhaseInv, Step, Oldest, TypeOK, ServedRowsCorrect
  <1>1. /\ Len(stream') = n + 1 /\ n \in Nat
        /\ DOMAIN stream = 1 .. n /\ DOMAIN stream' = 1 .. n + 1
        /\ \A i \in 1 .. n : stream'[i] = stream[i]
        /\ stream'[n + 1] = Op("forward", 0, Step)
        /\ stream' \in Seq([op : OpKind, layer : 0 .. NumLayers, x : Input])
    BY <1>0, StageAssumption DEF StageInv, TypeOK, Op, OpKind
  <1>2. TypeOK'
    BY <1>1 DEF StageInv, TypeOK
  <1>3. (ServedRowsCorrect /\ NoTornRow)'
    BY DEF StageInv, ServedRowsCorrect, NoTornRow
  <1>4. CopiesInv'
    BY <1>0, <1>1 DEF StageInv, TypeOK, CopiesInv, Oldest, PinnedFor, Op
  <1>5. ForwardInv'
    <2>1. \A i \in 1 .. n : stream'[i].op = "h2d"
      BY <1>0, <1>1 DEF Kinds
    <2>2. Oldest' = Oldest
      BY DEF Oldest
    <2>3. ASSUME NEW l \in Layers
          PROVE  StagedFor(Oldest, l) \/ \E j \in 1 .. n : stream[j].layer = l
      <3>1. l < layer
        BY <1>0, StageAssumption DEF Layers
      <3>. QED  BY <1>0, <1>1, <3>1 DEF StageInv, PhaseInv
    <2>4. ASSUME NEW i \in DOMAIN stream', stream'[i].op = "forward"
          PROVE  i = n + 1
      BY <1>1, <2>1, <2>4
    <2>5. stream'[n + 1].op = "forward" /\ stream'[n + 1].x = Oldest
      BY <1>0, <1>1 DEF Op
    <2>6. \A j \in DOMAIN stream' : stream'[j].op = "h2d" => j < n + 1
      BY <1>1, <2>5
    <2>7. ASSUME NEW l \in Layers
          PROVE  \/ StagedFor(Oldest, l)'
                 \/ \E j \in DOMAIN stream' : stream'[j].op = "h2d" /\ stream'[j].layer = l
      <3>1. CASE StagedFor(Oldest, l)
        BY <2>2, <3>1 DEF StagedFor
      <3>2. CASE \E j \in 1 .. n : stream[j].layer = l
        BY <1>1, <2>1, <3>2
      <3>. QED  BY <2>3, <3>1, <3>2
    <2>. QED  BY <1>0, <2>2, <2>4, <2>5, <2>6, <2>7 DEF ForwardInv
  <1>6. CountInv'
    <2>1. stream'[n + 1].op = "forward" /\ n + 1 \in DOMAIN stream'
      BY <1>1 DEF Op
    <2>. QED  BY <1>0, <1>1, <2>1 DEF CountInv, Pending
  <1>7. (HashInv /\ PhaseInv /\ ReadInv)'
    BY <1>0, <1>1 DEF StageInv, TypeOK, HashInv, PhaseInv, ReadInv, Op
  <1>. QED  BY <1>2, <1>3, <1>4, <1>5, <1>6, <1>7 DEF StageInv

\* Past the event the stream is empty and hash_host holds the step's own ids.
LEMMA SyncDrains ==
  ASSUME StageInv, SyncHashes
  PROVE  stream = <<>> /\ HashedFor(Step) /\ Len(inputs) = Len(served) + 1
  <1>1. Len(stream) \in Nat /\ DOMAIN stream = 1 .. Len(stream)
    BY DEF StageInv, TypeOK
  <1>2. Len(stream) = 0
    BY <1>1 DEF StageInv, HashInv, SyncHashes
  <1>3. stream = <<>>
    BY <1>2 DEF StageInv, TypeOK
  <1>4. HashedFor(Step)
    BY <1>2 DEF StageInv, HashInv, SyncHashes
  <1>5. ~Pending
    BY <1>1, <1>2 DEF Pending
  <1>. QED  BY <1>3, <1>4, <1>5 DEF StageInv, CountInv, SyncHashes

LEMMA SyncPreserves == StageInv /\ SyncHashes => StageInv'
  <1>. SUFFICES ASSUME StageInv, SyncHashes PROVE StageInv'
    OBVIOUS
  <1>0. stream = <<>> /\ HashedFor(Step) /\ Len(inputs) = Len(served) + 1
    BY SyncDrains
  <1>1. Step \in Input /\ Step' = Step
    BY <1>0, StepType DEF StageInv, TypeOK, ServedRowsCorrect, Step, SyncHashes, PlanReads
  <1>2. [l \in Layers |-> [t \in DOMAIN Step |-> hash_host[t][l]]] = IdsOf(Step)
    BY <1>0 DEF HashedFor, IdsOf
  <1>3. /\ local' = IdsOf(Step)
        /\ reads' = [k \in Tasks(IdsOf(Step)) |-> "queued"]
        /\ got' = [b \in AllReads(IdsOf(Step)) |-> 0]
        /\ host' = "reading"
        /\ UNCHANGED <<bound, inputs, stream, input_ids, gathered, layer, buffers, served>>
    BY <1>2 DEF SyncHashes, PlanReads
  <1>. HIDE DEF SyncHashes
  <1>4. TypeOK'
    <2>1. \A b \in DOMAIN got' : /\ b \in Layers \X Parts \X Nat
                                 /\ b[3] \in LocalRows(b[1])
                                 /\ got'[b] \in 0 .. RowBytes[b[2]]
      <3>. SUFFICES ASSUME NEW b \in AllReads(IdsOf(Step))
                    PROVE  /\ b \in Layers \X Parts \X Nat
                           /\ b[3] \in LocalRows(b[1])
                           /\ 0 \in 0 .. RowBytes[b[2]]
        BY <1>3
      <3>1. PICK l \in Layers : \E p \in Parts, row \in Distinct(IdsOf(Step), l) : b = <<l, p, row>>
        BY DEF AllReads
      <3>2. PICK p \in Parts, row \in Distinct(IdsOf(Step), l) : b = <<l, p, row>>
        BY <3>1
      <3>3. row \in LocalRows(l)
        BY <1>1, DistinctFacts
      <3>4. row \in Nat /\ RowBytes[p] \in Nat
        BY <3>3, StageAssumption DEF LocalRows
      <3>. QED  BY <3>2, <3>3, <3>4
    <2>2. DOMAIN local' = Layers
      BY <1>3 DEF IdsOf
    <2>3. reads' \in [DOMAIN reads' -> {"queued", "running", "ok", "err"}]
      BY <1>3
    <2>4. UNCHANGED <<bound, inputs, stream, input_ids, layer, hash_host, rows_host, staged_rows>>
      BY <1>3 DEF buffers
    <2>. QED  BY <1>3, <2>1, <2>2, <2>3, <2>4 DEF StageInv, TypeOK
  <1>5. (ServedRowsCorrect /\ NoTornRow)'
    BY <1>3 DEF StageInv, ServedRowsCorrect, NoTornRow, buffers
  <1>6. stream' = <<>>
    BY <1>0, <1>3
  <1>7. (CopiesInv /\ ForwardInv /\ CountInv /\ HashInv /\ PhaseInv)'
    BY <1>0, <1>3, <1>6 DEF CopiesInv, ForwardInv, CountInv, HashInv, PhaseInv
  <1>8. ReadInv'
    BY <1>1, <1>3 DEF ReadInv
  <1>. QED  BY <1>4, <1>5, <1>7, <1>8 DEF StageInv

LEMMA ReadsDonePreserves == StageInv /\ ReadsDone => StageInv'
  <1>. SUFFICES ASSUME StageInv, ReadsDone PROVE StageInv'
    OBVIOUS
  <1>0. /\ stream = <<>> /\ Len(inputs) = Len(served) + 1
        /\ Step \in Input /\ Step' = Step
    BY StepType DEF StageInv, TypeOK, ServedRowsCorrect, Step, ReadsDone, Gather, PhaseInv
  <1>1. /\ gathered' = RowsOf(Step) /\ layer' = 1 /\ host' = "copying"
        /\ UNCHANGED <<bound, inputs, stream, input_ids, local, reads, got, buffers, served>>
    BY BatchGathersStep DEF ReadsDone, Gather
  <1>. HIDE DEF ReadsDone
  <1>2. TypeOK'
    BY <1>1, StageAssumption DEF StageInv, TypeOK, buffers
  <1>3. (ServedRowsCorrect /\ NoTornRow)'
    BY <1>1 DEF StageInv, ServedRowsCorrect, NoTornRow, buffers
  <1>4. (CopiesInv /\ ForwardInv /\ CountInv /\ HashInv /\ ReadInv)'
    BY <1>0, <1>1 DEF CopiesInv, ForwardInv, CountInv, HashInv, ReadInv
  <1>5. PhaseInv'
    BY <1>0, <1>1, StageAssumption DEF PhaseInv, Kinds, Layers
  <1>. QED  BY <1>2, <1>3, <1>4, <1>5 DEF StageInv

LEMMA ReadsFailPreserves == StageInv /\ ReadsFail => StageInv'
  <1>. SUFFICES ASSUME StageInv, ReadsFail PROVE StageInv'
    OBVIOUS
  <1>1. /\ host = "reading" /\ host' = "failed"
        /\ UNCHANGED <<bound, inputs, stream, input_ids, hostLocals, buffers, served>>
    BY DEF ReadsFail
  <1>0. stream = <<>> /\ Len(inputs) = Len(served) + 1
    BY <1>1 DEF StageInv, PhaseInv
  <1>2. TypeOK'
    BY <1>1 DEF StageInv, TypeOK, buffers, hostLocals
  <1>3. (ServedRowsCorrect /\ NoTornRow)'
    BY <1>1 DEF StageInv, ServedRowsCorrect, NoTornRow, buffers
  <1>4. (CopiesInv /\ ForwardInv /\ CountInv /\ HashInv /\ PhaseInv /\ ReadInv)'
    BY <1>0, <1>1 DEF CopiesInv, ForwardInv, CountInv, HashInv, PhaseInv, ReadInv
  <1>. QED  BY <1>2, <1>3, <1>4 DEF StageInv

LEMMA PoolPreserves == StageInv /\ Pool => StageInv'
  <1>. SUFFICES ASSUME StageInv, NEW k \in DOMAIN reads,
                       TakeTask(k) \/ Pread(k) \/ TaskDone(k) \/ ShortRead(k)
                PROVE  StageInv'
    BY DEF Pool
  <1>1. /\ UNCHANGED <<host, bound, inputs, stream, input_ids, local, gathered, layer,
                       hash_host, rows_host, staged_rows, served>>
    BY DEF TakeTask, Pread, TaskDone, ShortRead, OutsidePool, buffers
  <1>2. \/ /\ got' = got /\ reads[k] # "ok"
           /\ \E v \in {"running", "ok", "err"} :
                reads' = [reads EXCEPT ![k] = v] /\ (v = "ok" => Unread(k) = {})
        \/ /\ reads' = reads
           /\ \E row \in Unread(k) : LET b == <<k.layer, k.part, row>> IN
                \E n \in 1 .. RowBytes[k.part] - got[b] : got' = [got EXCEPT ![b] = @ + n]
    BY DEF TakeTask, Pread, TaskDone, ShortRead, OutsidePool
  <1>3. (ServedRowsCorrect /\ NoTornRow)'
    BY <1>1 DEF StageInv, ServedRowsCorrect, NoTornRow
  <1>4. (CopiesInv /\ ForwardInv /\ CountInv /\ HashInv)'
    BY <1>1 DEF StageInv, CopiesInv, ForwardInv, CountInv, HashInv, Pending, Oldest, Step,
                PinnedFor, StagedFor, HashedFor
  <1>5. PhaseInv'
    BY <1>1 DEF StageInv, PhaseInv, Kinds, Step, StagedFor
  <1>6. DOMAIN reads' = DOMAIN reads /\ DOMAIN got' = DOMAIN got
    BY <1>2
  <1>7. TypeOK'
    <2>1. reads' \in [DOMAIN reads' -> {"queued", "running", "ok", "err"}]
      BY <1>2, <1>6 DEF StageInv, TypeOK
    <2>2. ASSUME NEW b \in DOMAIN got
          PROVE  got'[b] \in 0 .. RowBytes[b[2]]
      <3>0. b \in Layers \X Parts \X Nat /\ got[b] \in 0 .. RowBytes[b[2]]
        BY DEF StageInv, TypeOK
      <3>1. CASE got' = got
        BY <3>0, <3>1
      <3>2. CASE reads' = reads /\ \E row \in Unread(k) : LET c == <<k.layer, k.part, row>> IN
                \E n \in 1 .. RowBytes[k.part] - got[c] : got' = [got EXCEPT ![c] = @ + n]
        <4>1. PICK row \in Unread(k) : LET c == <<k.layer, k.part, row>> IN
                \E n \in 1 .. RowBytes[k.part] - got[c] : got' = [got EXCEPT ![c] = @ + n]
          BY <3>2
        <4>. DEFINE c == <<k.layer, k.part, row>>
        <4>2. PICK n \in 1 .. RowBytes[k.part] - got[c] : got' = [got EXCEPT ![c] = @ + n]
          BY <4>1
        <4>3. CASE b # c
          BY <3>0, <4>2, <4>3
        <4>4. CASE b = c
          <5>1. b[2] = k.part /\ got'[b] = got[b] + n
            BY <4>2, <4>4
          <5>2. RowBytes[b[2]] \in Nat
            BY <3>0, StageAssumption
          <5>3. n \in 1 .. RowBytes[b[2]] - got[b]
            BY <4>2, <4>4, <5>1
          <5>. QED  BY <3>0, <5>1, <5>2, <5>3
        <4>. QED  BY <4>3, <4>4
      <3>. QED  BY <1>2, <3>1, <3>2
    <2>3. \A b \in DOMAIN got' : /\ b \in Layers \X Parts \X Nat
                                 /\ b[3] \in LocalRows(b[1])
                                 /\ got'[b] \in 0 .. RowBytes[b[2]]
      BY <1>6, <2>2 DEF StageInv, TypeOK
    <2>. QED  BY <1>1, <2>1, <2>3 DEF StageInv, TypeOK
  <1>8. ReadInv'
    <2>. SUFFICES ASSUME host = "reading", NEW j \in DOMAIN reads, reads'[j] = "ok"
                  PROVE  Unread(j)' = {}
      BY <1>1, <1>6 DEF StageInv, ReadInv, Step
    <2>1. CASE got' = got
      <3>1. Unread(j)' = Unread(j)
        BY <2>1 DEF Unread
      <3>2. Unread(j) = {}
        BY <1>2, <2>1 DEF StageInv, ReadInv
      <3>. QED  BY <3>1, <3>2
    <2>2. CASE reads' = reads
      <3>1. Unread(j) = {}
        BY <2>2 DEF StageInv, ReadInv
      <3>2. ASSUME NEW row \in j.rows
            PROVE  ~(got'[<<j.layer, j.part, row>>] < RowBytes[j.part])
        <4>. DEFINE b == <<j.layer, j.part, row>>
        <4>1. ~(got[b] < RowBytes[j.part])
          BY <3>1 DEF Unread
        <4>2. got' = got \/ \E c : c # b /\ \E v : got' = [got EXCEPT ![c] = v]
          BY <1>2, <4>1 DEF Unread
        <4>3. b \in DOMAIN got
          BY TaskInBatch DEF StageInv, ReadInv
        <4>. QED  BY <4>1, <4>2, <4>3
      <3>. QED  BY <3>2 DEF Unread
    <2>. QED  BY <1>2, <2>1, <2>2
  <1>. QED  BY <1>3, <1>4, <1>5, <1>7, <1>8 DEF StageInv

LEMMA OverwriteType ==
  ASSUME NEW S, NEW buf \in [Positions -> S], NEW rows, NEW n \in Nat,
         \A t \in Positions : t <= n => rows[t] \in S
  PROVE  Overwrite(buf, rows, n) \in [Positions -> S]
  BY DEF Overwrite, Positions

LEMMA CopyPreserves == StageInv /\ CopyLayer => StageInv'
  <1>. SUFFICES ASSUME StageInv, CopyLayer PROVE StageInv'
    OBVIOUS
  <1>. DEFINE n == Len(stream)
  <1>0. /\ host = "copying" /\ Len(inputs) = Len(served) + 1 /\ layer \in Layers
        /\ gathered = RowsOf(Step) /\ Step = Oldest /\ Kinds({"h2d"})
        /\ Step \in Input /\ Len(Step) \in Positions /\ Len(Step) \in Nat
        /\ DOMAIN Step = 1 .. Len(Step)
    <2>1. /\ host = "copying" /\ Len(inputs) = Len(served) + 1 /\ layer \in Layers
          /\ gathered = RowsOf(Step) /\ Kinds({"h2d"})
      BY DEF CopyLayer, StageInv, PhaseInv
    <2>2. Step = Oldest
      BY <2>1 DEF Step, Oldest
    <2>3. Step \in Input
      BY <2>1, StepType DEF StageInv, TypeOK, ServedRowsCorrect
    <2>. QED  BY <2>1, <2>2, <2>3, InputFacts, StageAssumption DEF Positions
  <1>1. /\ rows_host' = [rows_host EXCEPT ![layer] = Overwrite(@, RowsOf(Step)[layer], Len(Step))]
        /\ stream' = Append(stream, Op("h2d", layer, Step))
        /\ layer' = layer + 1
        /\ host' = IF layer = NumLayers THEN "staged" ELSE "copying"
        /\ UNCHANGED <<bound, inputs, input_ids, local, reads, got, gathered,
                       hash_host, staged_rows, served>>
    BY <1>0 DEF CopyLayer
  <1>. HIDE DEF CopyLayer
  <1>2. /\ Len(stream') = n + 1 /\ n \in Nat
        /\ DOMAIN stream = 1 .. n /\ DOMAIN stream' = 1 .. n + 1
        /\ \A i \in 1 .. n : stream'[i] = stream[i]
        /\ stream'[n + 1] = Op("h2d", layer, Step)
        /\ stream' \in Seq([op : OpKind, layer : 0 .. NumLayers, x : Input])
    <2>. DEFINE Ops == [op : OpKind, layer : 0 .. NumLayers, x : Input]
    <2>1. Op("h2d", layer, Step) \in Ops
      BY <1>0, StageAssumption DEF Op, OpKind, Layers
    <2>2. stream \in Seq(Ops)
      BY DEF StageInv, TypeOK
    <2>. HIDE DEF Ops
    <2>3. /\ Len(stream') = n + 1 /\ n \in Nat
          /\ DOMAIN stream = 1 .. n /\ DOMAIN stream' = 1 .. n + 1
          /\ \A i \in 1 .. n : stream'[i] = stream[i]
          /\ stream'[n + 1] = Op("h2d", layer, Step)
          /\ stream' \in Seq(Ops)
      BY <1>1, <2>1, <2>2
    <2>. QED  BY <2>3 DEF Ops
  <1>3. /\ Step' = Step /\ Oldest' = Oldest
    BY <1>1 DEF Step, Oldest
  <1>4. /\ rows_host' \in Buffer
        /\ \A t \in DOMAIN Step : rows_host'[layer][t] = RowsOf(Step)[layer][t]
        /\ \A l \in Layers : l # layer => rows_host'[l] = rows_host[l]
    <2>1. rows_host \in Buffer
      BY DEF StageInv, TypeOK
    <2>2. \A t \in Positions : t <= Len(Step) => RowsOf(Step)[layer][t] \in Values \cup {Torn}
      BY <1>0, RowsOfType DEF Positions
    <2>3. Overwrite(rows_host[layer], RowsOf(Step)[layer], Len(Step)) \in [Positions -> Values \cup {Torn}]
      <3>1. rows_host[layer] \in [Positions -> Values \cup {Torn}]
        BY <1>0, <2>1 DEF Buffer
      <3>. QED  BY <1>0, <2>2, <3>1, OverwriteType
    <2>4. rows_host' \in Buffer
      BY <1>1, <2>1, <2>3 DEF Buffer
    <2>5. \A t \in DOMAIN Step :
            Overwrite(rows_host[layer], RowsOf(Step)[layer], Len(Step))[t] = RowsOf(Step)[layer][t]
      BY <1>0, <2>1, StageAssumption DEF Overwrite, Buffer, Positions
    <2>6. \A t \in DOMAIN Step : rows_host'[layer][t] = RowsOf(Step)[layer][t]
      BY <1>0, <1>1, <2>1, <2>5 DEF Buffer
    <2>. QED  BY <1>0, <1>1, <2>1, <2>4, <2>6 DEF Buffer
  <1>5. layer' \in 1 .. NumLayers + 1 /\ (host' = "copying" => layer' \in Layers)
        /\ (host' = "staged" => layer' = NumLayers + 1)
    BY <1>0, <1>1, StageAssumption DEF Layers
  <1>6. TypeOK'
    BY <1>1, <1>2, <1>4, <1>5 DEF StageInv, TypeOK
  <1>7. (ServedRowsCorrect /\ NoTornRow)'
    BY <1>1 DEF StageInv, ServedRowsCorrect, NoTornRow
  <1>8. \A i \in DOMAIN stream' : stream'[i].op = "h2d"
    BY <1>0, <1>2 DEF Kinds, Op
  <1>9. CopiesInv'
    <2>. SUFFICES ASSUME NEW i \in DOMAIN stream'
                  PROVE  /\ stream'[i].layer \in Layers
                         /\ stream'[i].x = Oldest
                         /\ \A t \in DOMAIN Oldest : rows_host'[stream'[i].layer][t]
                                                     = RowsOf(Oldest)[stream'[i].layer][t]
      BY <1>0, <1>1, <1>3 DEF CopiesInv, PinnedFor
    <2>1. CASE i = n + 1
      BY <1>0, <1>2, <1>3, <1>4, <2>1 DEF Op
    <2>2. CASE i \in 1 .. n
      <3>1. /\ stream[i].layer \in Layers /\ stream[i].x = Oldest
            /\ PinnedFor(Oldest, stream[i].layer) /\ stream[i].layer < layer
        BY <1>0, <1>2, <2>2 DEF StageInv, CopiesInv, PhaseInv, Kinds
      <3>2. rows_host'[stream[i].layer] = rows_host[stream[i].layer]
        BY <1>0, <1>4, <3>1 DEF Layers
      <3>. QED  BY <1>2, <1>3, <2>2, <3>1, <3>2 DEF PinnedFor
    <2>. QED  BY <1>2, <2>1, <2>2
  <1>10. (ForwardInv /\ CountInv /\ HashInv /\ ReadInv)'
    BY <1>1, <1>8 DEF ForwardInv, CountInv, HashInv, ReadInv
  <1>11. PhaseInv'
    <2>1. \A i \in DOMAIN stream' : stream'[i].layer < layer'
      <3>1. \A i \in 1 .. n : stream[i].layer < layer
        BY <1>0, <1>2 DEF StageInv, PhaseInv
      <3>2. \A i \in 1 .. n : stream[i].layer \in Int
        BY <1>2, StreamType DEF StageInv
      <3>. QED  BY <1>0, <1>1, <1>2, <3>1, <3>2 DEF Op, Layers
    <2>2. ASSUME NEW l \in Layers, l < layer'
          PROVE  StagedFor(Step, l)' \/ \E i \in DOMAIN stream' : stream'[i].layer = l
      <3>1. CASE l = layer
        BY <1>2, <3>1 DEF Op
      <3>2. CASE l < layer
        BY <1>0, <1>1, <1>2, <1>3, <3>2 DEF StageInv, PhaseInv, StagedFor
      <3>. QED  BY <1>0, <1>1, <2>2, <3>1, <3>2 DEF Layers
    <2>. QED  BY <1>0, <1>1, <1>3, <1>5, <1>8, <2>1, <2>2 DEF PhaseInv, Kinds
  <1>. QED  BY <1>6, <1>7, <1>9, <1>10, <1>11 DEF StageInv

\* A step may be prepared while the previous one's forward is still enqueued.
LEMMA PrepareStepPreserves ==
  ASSUME StageInv, NEW x \in Batches, PrepareStep(x)
  PROVE  StageInv'
  <1>. DEFINE n == Len(stream)
  <1>0. /\ x \in Input /\ host = "idle" /\ host' = "hashing"
        /\ inputs' = Append(inputs, x) /\ Len(inputs) \in Nat /\ inputs \in Seq(Input)
        /\ Len(served) \in Nat /\ Len(served) <= Len(inputs)
        /\ stream' = stream \o <<Op("inputs", 0, x), Op("hash", 0, x), Op("event", 0, x)>>
        /\ UNCHANGED <<bound, input_ids, local, reads, got, gathered, layer,
                       hash_host, rows_host, staged_rows, served>>
    BY SMTT(30), StageAssumption
       DEF PrepareStep, hostLocals, buffers, StageInv, TypeOK, ServedRowsCorrect, CountInv
  <1>1. /\ Len(inputs') = Len(inputs) + 1 /\ inputs' \in Seq(Input)
        /\ \A i \in 1 .. Len(inputs) : inputs'[i] = inputs[i]
        /\ Step' = x
    BY <1>0 DEF Step
  <1>2. /\ n \in Nat /\ DOMAIN stream = 1 .. n
        /\ Len(stream') = n + 3 /\ DOMAIN stream' = 1 .. n + 3
        /\ \A i \in 1 .. n : stream'[i] = stream[i]
        /\ stream'[n + 1] = Op("inputs", 0, x)
        /\ stream'[n + 2] = Op("hash", 0, x)
        /\ stream'[n + 3] = Op("event", 0, x)
    BY <1>0, StreamType DEF StageInv, TypeOK
  <1>3. stream' \in Seq([op : OpKind, layer : 0 .. NumLayers, x : Input])
    <2>1. <<Op("inputs", 0, x), Op("hash", 0, x), Op("event", 0, x)>>
            \in Seq([op : OpKind, layer : 0 .. NumLayers, x : Input])
      BY <1>0, StageAssumption DEF Op, OpKind
    <2>. QED  BY <1>0, <2>1 DEF StageInv, TypeOK
  <1>. HIDE DEF PrepareStep
  <1>4. TypeOK'
    BY <1>0, <1>1, <1>3 DEF StageInv, TypeOK
  <1>5. (ServedRowsCorrect /\ NoTornRow)'
    BY <1>0, <1>1 DEF StageInv, ServedRowsCorrect, NoTornRow
  <1>6. \A i \in DOMAIN stream' : stream'[i].op \in {"h2d", "forward"} => i \in 1 .. n
    BY <1>2 DEF Op
  <1>7. Len(served) < Len(inputs) => Oldest' = Oldest
    BY <1>0, <1>1 DEF Oldest
  <1>8. CopiesInv'
    BY <1>0, <1>1, <1>2, <1>6, <1>7 DEF StageInv, CopiesInv, PinnedFor
  <1>9. ForwardInv'
    <2>. SUFFICES ASSUME NEW i \in 1 .. n, stream[i].op = "forward"
                  PROVE  /\ Len(served) < Len(inputs')
                         /\ stream'[i].x = Oldest'
                         /\ \A j \in DOMAIN stream' : stream'[j].op = "forward" => j = i
                         /\ \A j \in DOMAIN stream' : stream'[j].op = "h2d" => j < i
                         /\ \A l \in Layers :
                              \/ StagedFor(Oldest, l)'
                              \/ \E j \in DOMAIN stream' : stream'[j].op = "h2d" /\ stream'[j].layer = l
      BY <1>0, <1>2, <1>6 DEF ForwardInv
    <2>1. /\ Len(served) < Len(inputs) /\ stream[i].x = Oldest
          /\ \A j \in 1 .. n : stream[j].op = "forward" => j = i
          /\ \A j \in 1 .. n : stream[j].op = "h2d" => j < i
          /\ \A l \in Layers : \/ StagedFor(Oldest, l)
                               \/ \E j \in 1 .. n : stream[j].op = "h2d" /\ stream[j].layer = l
      BY <1>2 DEF StageInv, ForwardInv
    <2>2. \A l \in Layers : StagedFor(Oldest, l) => StagedFor(Oldest, l)'
      BY <1>0, <1>7, <2>1 DEF StagedFor
    <2>3. /\ Len(served) < Len(inputs')
          /\ stream'[i].x = Oldest'
      BY <1>0, <1>1, <1>2, <1>7, <2>1
    <2>4. ASSUME NEW j \in DOMAIN stream'
          PROVE  /\ stream'[j].op = "forward" => j = i
                 /\ stream'[j].op = "h2d" => j < i
      BY <1>2, <1>6, <2>1
    <2>5. ASSUME NEW l \in Layers
          PROVE  \/ StagedFor(Oldest, l)'
                 \/ \E j \in DOMAIN stream' : stream'[j].op = "h2d" /\ stream'[j].layer = l
      BY <1>2, <2>1, <2>2
    <2>. QED  BY <2>3, <2>4, <2>5
  <1>10. CountInv'
    <2>1. Pending' <=> Pending
      BY <1>2, <1>6 DEF Pending
    <2>2. ~Pending => \A i \in DOMAIN stream' : stream'[i].op # "h2d"
      BY <1>0, <1>2, <1>6 DEF StageInv, CountInv
    <2>3. /\ Pending => Len(inputs) = Len(served) + 1
          /\ ~Pending => Len(inputs) = Len(served)
      BY <1>0 DEF StageInv, CountInv
    <2>4. Len(inputs') = Len(inputs) + 1 /\ served' = served
          /\ Len(inputs) \in Nat /\ Len(served) \in Nat
      BY <1>0, <1>1
    <2>5. /\ Len(inputs) = Len(served) + 1 => Len(inputs') = Len(served') + 2
          /\ Len(inputs) = Len(served) => Len(inputs') = Len(served') + 1
      BY <2>4
    <2>6. /\ Pending' => Len(inputs') = Len(served') + 2
          /\ ~Pending' => Len(inputs') = Len(served') + 1
      BY <2>1, <2>3, <2>5, Zenon
    <2>7. host' = "hashing"
      BY <1>0
    <2>. QED  BY <2>1, <2>2, <2>6, <2>7 DEF CountInv
  <1>11. HashInv'
    <2>1. \A i \in DOMAIN stream' : i < n + 2 => stream'[i].op \notin {"hash", "event"}
      BY <1>0, <1>2 DEF StageInv, HashInv, Op
    <2>. QED  BY <1>0, <1>1, <1>2, <2>1 DEF HashInv, Op
  <1>12. (PhaseInv /\ ReadInv)'
    BY <1>0 DEF PhaseInv, ReadInv
  <1>. QED  BY <1>4, <1>5, <1>8, <1>9, <1>10, <1>11, <1>12 DEF StageInv

\* Appending operations that are neither copies, hashes nor forwards to an idle
\* host's stream disturbs nothing.
LEMMA IdleAppendPreserves ==
  ASSUME StageInv, NEW extra \in Seq([op : {"inputs", "skip"}, layer : {0}, x : Input]),
         host = "idle", stream' = stream \o extra,
         UNCHANGED <<host, bound, inputs, input_ids, hostLocals, buffers, served>>
  PROVE  StageInv'
  <1>. DEFINE n == Len(stream)
              m == Len(stream) + Len(extra)
              R == [op : {"inputs", "skip"}, layer : {0}, x : Input]
              Ops == [op : OpKind, layer : 0 .. NumLayers, x : Input]
  <1>0. \A i \in 1 .. Len(extra) : extra[i] \in R
    <2>. HIDE DEF R
    <2>1. extra \in Seq(R)
      BY DEF R
    <2>. QED  BY <2>1
  <1>1. UNCHANGED <<host, bound, inputs, input_ids, local, reads, got, gathered, layer,
                    hash_host, rows_host, staged_rows, served>>
    BY DEF hostLocals, buffers
  <1>2. /\ n \in Nat /\ DOMAIN stream = 1 .. n /\ Len(extra) \in Nat
        /\ Len(stream') = m /\ DOMAIN stream' = 1 .. m
        /\ \A i \in 1 .. n : stream'[i] = stream[i]
        /\ \A i \in 1 .. m : i > n => stream'[i] = extra[i - n]
    BY StreamType DEF StageInv, TypeOK
  <1>3. \A i \in DOMAIN stream' : i > n => stream'[i].op \in {"inputs", "skip"}
    <2>1. \A i \in 1 .. Len(extra) : extra[i].op \in {"inputs", "skip"}
      BY <1>0
    <2>. QED  BY <1>2, <2>1
  <1>4. stream' \in Seq(Ops)
    <2>1. R \subseteq Ops
      BY StageAssumption DEF OpKind
    <2>2. stream \in Seq(Ops)
      BY DEF StageInv, TypeOK
    <2>3. extra \in Seq(Ops)
      <3>. HIDE DEF R, Ops
      <3>1. extra \in Seq(R)
        BY DEF R
      <3>. QED  BY <2>1, <3>1
    <2>. HIDE DEF Ops
    <2>. QED  BY <2>2, <2>3
  <1>5. \A i \in DOMAIN stream' :
          stream'[i].op \in {"h2d", "forward", "hash", "event"} => i \in 1 .. n
    <2>. SUFFICES ASSUME NEW i \in DOMAIN stream', i \notin 1 .. n
                  PROVE  stream'[i].op \notin {"h2d", "forward", "hash", "event"}
      OBVIOUS
    <2>1. i > n
      <3>. HIDE DEF n, m
      <3>1. i \in 1 .. m
        BY <1>2
      <3>. QED  BY <1>2, <3>1
    <2>. QED  BY <1>3, <2>1
  <1>6. TypeOK'
    BY <1>1, <1>4 DEF StageInv, TypeOK
  <1>7. (ServedRowsCorrect /\ NoTornRow)'
    BY <1>1 DEF StageInv, ServedRowsCorrect, NoTornRow
  <1>8. Oldest' = Oldest
    BY <1>1 DEF Oldest
  <1>9. CopiesInv'
    BY <1>1, <1>2, <1>5, <1>8 DEF StageInv, CopiesInv, PinnedFor
  <1>10. ForwardInv'
    <2>. SUFFICES ASSUME NEW i \in 1 .. n, stream[i].op = "forward"
                  PROVE  /\ Len(served) < Len(inputs)
                         /\ stream[i].x = Oldest
                         /\ \A j \in DOMAIN stream' : stream'[j].op = "forward" => j = i
                         /\ \A j \in DOMAIN stream' : stream'[j].op = "h2d" => j < i
                         /\ \A l \in Layers :
                              \/ StagedFor(Oldest, l)'
                              \/ \E j \in DOMAIN stream' : stream'[j].op = "h2d" /\ stream'[j].layer = l
      BY <1>1, <1>2, <1>5, <1>8 DEF ForwardInv
    <2>1. /\ Len(served) < Len(inputs) /\ stream[i].x = Oldest
          /\ \A j \in 1 .. n : stream[j].op = "forward" => j = i
          /\ \A j \in 1 .. n : stream[j].op = "h2d" => j < i
          /\ \A l \in Layers : \/ StagedFor(Oldest, l)
                               \/ \E j \in 1 .. n : stream[j].op = "h2d" /\ stream[j].layer = l
      BY <1>2 DEF StageInv, ForwardInv
    <2>2. \A l \in Layers : StagedFor(Oldest, l) => StagedFor(Oldest, l)'
      BY <1>1, <1>8 DEF StagedFor
    <2>3. ASSUME NEW j \in DOMAIN stream'
          PROVE  /\ stream'[j].op = "forward" => j = i
                 /\ stream'[j].op = "h2d" => j < i
      BY <1>2, <1>5, <2>1
    <2>4. ASSUME NEW l \in Layers
          PROVE  \/ StagedFor(Oldest, l)'
                 \/ \E j \in DOMAIN stream' : stream'[j].op = "h2d" /\ stream'[j].layer = l
      <3>1. 1 .. n \subseteq DOMAIN stream'
        BY <1>2
      <3>. QED  BY <1>2, <2>1, <2>2, <3>1
    <2>. QED  BY <2>1, <2>3, <2>4
  <1>11. CountInv'
    BY <1>1, <1>2, <1>5 DEF StageInv, CountInv, Pending
  <1>12. HashInv'
    BY <1>1, <1>2, <1>5 DEF StageInv, HashInv
  <1>13. (PhaseInv /\ ReadInv)'
    BY <1>1 DEF PhaseInv, ReadInv
  <1>. QED  BY <1>6, <1>7, <1>9, <1>10, <1>11, <1>12, <1>13 DEF StageInv

LEMMA PrepareOtherPreserves ==
  ASSUME StageInv, NEW x \in Batches, PrepareUnbound(x) \/ PrepareDummy(x)
  PROVE  StageInv'
  <1>. DEFINE R == [op : {"inputs", "skip"}, layer : {0}, x : Input]
  <1>0. Op("inputs", 0, x) \in R /\ Op("skip", 0, x) \in R
    BY StageAssumption DEF Op
  <1>1. CASE PrepareUnbound(x)
    <2>1. <<Op("inputs", 0, x), Op("skip", 0, x)>> \in Seq(R)
      <3>. HIDE DEF R
      <3>. QED  BY <1>0
    <2>. QED  BY <1>1, <2>1, IdleAppendPreserves DEF PrepareUnbound
  <1>2. CASE PrepareDummy(x)
    <2>1. <<Op("skip", 0, x)>> \in Seq(R)
      <3>. HIDE DEF R
      <3>. QED  BY <1>0
    <2>2. stream' = stream \o <<Op("skip", 0, x)>>
      BY <1>2 DEF PrepareDummy, StageInv, TypeOK
    <2>. QED  BY <1>2, <2>1, <2>2, IdleAppendPreserves DEF PrepareDummy
  <1>. QED  BY <1>1, <1>2
-----------------------------------------------------------------------------
(* The device executes the head of the stream.                              *)

LEMMA TailFacts ==
  ASSUME StageInv, stream # <<>>, stream' = Tail(stream)
  PROVE  LET n == Len(stream) IN
         /\ n \in Nat /\ n > 0 /\ DOMAIN stream = 1 .. n
         /\ Len(stream') = n - 1 /\ DOMAIN stream' = 1 .. n - 1
         /\ \A i \in 1 .. n - 1 : stream'[i] = stream[i + 1] /\ i + 1 \in 1 .. n
         /\ Head(stream) = stream[1]
         /\ stream' \in Seq([op : OpKind, layer : 0 .. NumLayers, x : Input])
  <1>. DEFINE Ops == [op : OpKind, layer : 0 .. NumLayers, x : Input]
  <1>1. stream \in Seq(Ops)
    BY DEF StageInv, TypeOK
  <1>. HIDE DEF Ops
  <1>2. Len(stream) \in Nat /\ Len(stream) > 0 /\ DOMAIN stream = 1 .. Len(stream)
    BY <1>1
  <1>3. stream' \in Seq(Ops) /\ Len(stream') = Len(stream) - 1 /\ Head(stream) = stream[1]
    BY <1>1
  <1>4. DOMAIN stream' = 1 .. Len(stream) - 1
    BY <1>3
  <1>5. \A i \in 1 .. Len(stream) - 1 : stream'[i] = stream[i + 1] /\ i + 1 \in 1 .. Len(stream)
    BY <1>1, <1>2
  <1>. QED  BY <1>2, <1>3, <1>4, <1>5 DEF Ops

\* A hash kernel runs right after its step's tokens were written.
LEMMA HashReadsStep ==
  ASSUME StageInv, stream # <<>>, stream[1].op = "hash"
  PROVE  /\ host = "hashing" /\ Len(inputs) > 0
         /\ stream[1].x = Step /\ input_ids = Step /\ Step \in Input
  <1>. DEFINE n == Len(stream)
  <1>1. n \in Nat /\ n > 0 /\ DOMAIN stream = 1 .. n
    BY DEF StageInv, TypeOK
  <1>2. host = "hashing"
    BY <1>1 DEF StageInv, HashInv
  <1>3. Len(inputs) > 0
    BY <1>2 DEF StageInv, CountInv, TypeOK, ServedRowsCorrect
  <1>4. ~(1 < n - 1) /\ n # 1
    BY <1>1, <1>2 DEF StageInv, HashInv
  <1>5. n = 2
    BY <1>1, <1>4
  <1>6. stream[1] = Op("hash", 0, Step) /\ input_ids = Step
    BY <1>2, <1>5 DEF StageInv, HashInv
  <1>. QED  BY <1>2, <1>3, <1>6, StepType DEF StageInv, Op

LEMMA ExecuteHash ==
  ASSUME StageInv, Execute
  PROVE  HashInv'
  <1>. DEFINE n == Len(stream)
              o == stream[1]
  <1>1. /\ n \in Nat /\ n > 0 /\ DOMAIN stream = 1 .. n
        /\ Len(stream') = n - 1 /\ DOMAIN stream' = 1 .. n - 1
        /\ \A i \in 1 .. n - 1 : stream'[i] = stream[i + 1] /\ i + 1 \in 1 .. n
        /\ Effect(o) /\ host' = host /\ inputs' = inputs
    BY TailFacts DEF Execute
  <1>2. Step' = Step
    BY <1>1 DEF Step
  <1>3. CASE host # "hashing"
    <2>1. \A i \in 1 .. n : stream[i].op \notin {"hash", "event"}
      BY <1>1, <1>3 DEF StageInv, HashInv
    <2>2. \A i \in 1 .. n - 1 : stream'[i].op \notin {"hash", "event"}
      BY <1>1, <2>1
    <2>. QED  BY <1>1, <1>3, <2>2 DEF HashInv
  <1>4. CASE host = "hashing"
    <2>0. /\ stream[n].op = "event"
          /\ n = 1 => HashedFor(Step)
          /\ n > 1 => stream[n - 1] = Op("hash", 0, Step)
          /\ n = 2 => input_ids = Step
          /\ n > 2 => stream[n - 2] = Op("inputs", 0, Step)
          /\ \A i \in DOMAIN stream : i < n - 1 => stream[i].op \notin {"hash", "event"}
      BY <1>1, <1>4 DEF StageInv, HashInv
    <2>1. ASSUME n = 1 PROVE HashedFor(Step)'
      <3>1. o.op = "event"
        BY <2>0, <2>1
      <3>2. hash_host' = hash_host
        BY <1>1, <3>1 DEF Effect, buffers
      <3>. QED  BY <1>2, <2>0, <2>1, <3>2 DEF HashedFor
    <2>2. ASSUME n = 2 PROVE HashedFor(Step)'
      <3>1. o = Op("hash", 0, Step) /\ input_ids = Step
        BY <2>0, <2>2
      <3>2. Step \in Input
        BY <1>1, <3>1, HashReadsStep DEF Op
      <3>3. hash_host' = [t \in Positions |->
              IF t <= Len(Step) THEN [l \in Layers |-> HashId[l][Step[t]]] ELSE hash_host[t]]
        BY <1>1, <3>1 DEF Effect, Op
      <3>4. Len(Step) \in Positions /\ DOMAIN Step = 1 .. Len(Step)
        BY <3>2, InputFacts
      <3>5. \A t \in DOMAIN Step : t \in Positions /\ t <= Len(Step)
        BY <3>4, StageAssumption DEF Positions
      <3>. QED  BY <1>2, <3>3, <3>5 DEF HashedFor
    <2>3. ASSUME n = 3 PROVE input_ids' = Step
      <3>1. o = Op("inputs", 0, Step)
        BY <2>0, <2>3
      <3>. QED  BY <1>1, <3>1 DEF Effect, Op
    <2>4. n - 1 > 0 => stream'[n - 1] = stream[n]
      BY <1>1
    <2>5. n - 1 > 1 => stream'[n - 2] = stream[n - 1]
      BY <1>1
    <2>6. n - 1 > 2 => stream'[n - 3] = stream[n - 2]
      BY <1>1
    <2>7. \A i \in 1 .. n - 1 : i < n - 2 => stream'[i].op \notin {"hash", "event"}
      BY <1>1, <2>0
    <2>. QED  BY SMTT(30), <1>1, <1>2, <1>4, <2>0, <2>1, <2>2, <2>3, <2>4, <2>5, <2>6, <2>7 DEF HashInv
  <1>. QED  BY <1>3, <1>4

\* Operations that touch neither the copied rows nor what was served.
LEMMA ExecuteQuiet ==
  ASSUME StageInv, Execute, stream[1].op \in {"inputs", "hash", "event", "skip"}
  PROVE  StageInv'
  <1>. DEFINE n == Len(stream)
              o == stream[1]
  <1>1. /\ n \in Nat /\ n > 0 /\ DOMAIN stream = 1 .. n /\ stream # <<>>
        /\ Len(stream') = n - 1 /\ DOMAIN stream' = 1 .. n - 1
        /\ \A i \in 1 .. n - 1 : stream'[i] = stream[i + 1] /\ i + 1 \in 1 .. n
        /\ stream' \in Seq([op : OpKind, layer : 0 .. NumLayers, x : Input])
        /\ Effect(o)
        /\ UNCHANGED <<host, bound, inputs, local, reads, got, gathered, layer>>
    BY TailFacts DEF Execute, hostLocals
  <1>2. UNCHANGED <<rows_host, staged_rows, served>>
    BY <1>1 DEF Effect, buffers
  <1>3. host \notin {"reading", "failed", "copying", "staged"}
    <2>1. host \in {"copying", "staged"} => stream[1].op = "h2d"
      BY <1>1 DEF StageInv, PhaseInv, Kinds
    <2>. QED  BY <1>1, <2>1 DEF StageInv, PhaseInv
  <1>4. input_ids' \in Input \cup {<<>>}
    <2>1. o.x \in Input
      BY <1>1, StreamType DEF StageInv
    <2>. QED  BY <1>1, <2>1 DEF StageInv, TypeOK, Effect, buffers
  <1>5. hash_host' \in [Positions -> [Layers -> Nat]]
    <2>1. CASE o.op = "hash"
      <3>1. o.x = Step /\ input_ids = Step /\ Step \in Input
        BY <1>1, <2>1, HashReadsStep
      <3>2. hash_host' = [t \in Positions |->
              IF t <= Len(Step) THEN [l \in Layers |-> HashId[l][Step[t]]] ELSE hash_host[t]]
        BY <1>1, <2>1, <3>1 DEF Effect
      <3>3. \A t \in Positions : t <= Len(Step) => Step[t] \in Tokens
        BY <3>1, InputFacts DEF Positions
      <3>4. \A l \in Layers : \A y \in Tokens : HashId[l][y] \in Nat
        BY StageAssumption
      <3>5. hash_host \in [Positions -> [Layers -> Nat]]
        BY DEF StageInv, TypeOK
      <3>. QED  BY <3>2, <3>3, <3>4, <3>5
    <2>2. CASE o.op # "hash"
      BY <1>1, <2>2 DEF StageInv, TypeOK, Effect, buffers
    <2>. QED  BY <2>1, <2>2
  <1>6. TypeOK'
    BY <1>1, <1>2, <1>4, <1>5 DEF StageInv, TypeOK
  <1>7. (ServedRowsCorrect /\ NoTornRow)'
    BY <1>1, <1>2 DEF StageInv, ServedRowsCorrect, NoTornRow
  <1>8. Oldest' = Oldest
    BY <1>1, <1>2 DEF Oldest
  <1>9. CopiesInv'
    <2>. SUFFICES ASSUME NEW i \in 1 .. n - 1, stream'[i].op = "h2d"
                  PROVE  /\ Len(served) < Len(inputs)
                         /\ stream'[i].layer \in Layers
                         /\ stream'[i].x = Oldest
                         /\ PinnedFor(Oldest, stream[i + 1].layer)
      BY <1>1, <1>2, <1>8 DEF CopiesInv, PinnedFor
    <2>1. stream'[i] = stream[i + 1] /\ i + 1 \in DOMAIN stream
      BY <1>1
    <2>. QED  BY <2>1 DEF StageInv, CopiesInv
  <1>10. ForwardInv'
    <2>. SUFFICES ASSUME NEW i \in 1 .. n - 1, stream'[i].op = "forward"
                  PROVE  /\ Len(served)' < Len(inputs)'
                         /\ stream'[i].x = Oldest'
                         /\ \A j \in 1 .. n - 1 : stream'[j].op = "forward" => j = i
                         /\ \A j \in 1 .. n - 1 : stream'[j].op = "h2d" => j < i
                         /\ \A l \in Layers :
                              \/ StagedFor(Oldest, l)'
                              \/ \E j \in 1 .. n - 1 : stream'[j].op = "h2d" /\ stream'[j].layer = l
      <3>1. DOMAIN stream' = 1 .. n - 1
        BY <1>1
      <3>. HIDE DEF n
      <3>. QED  BY <3>1 DEF ForwardInv
    <2>0. stream'[i] = stream[i + 1] /\ i + 1 \in DOMAIN stream
      BY <1>1
    <2>1. /\ Len(served) < Len(inputs) /\ stream[i + 1].x = Oldest
          /\ \A j \in 1 .. n : stream[j].op = "forward" => j = i + 1
          /\ \A j \in 1 .. n : stream[j].op = "h2d" => j < i + 1
          /\ \A l \in Layers : \/ StagedFor(Oldest, l)
                               \/ \E j \in 1 .. n : stream[j].op = "h2d" /\ stream[j].layer = l
      BY <1>1, <2>0 DEF StageInv, ForwardInv
    <2>2. \A l \in Layers : StagedFor(Oldest, l) => StagedFor(Oldest, l)'
      BY <1>2, <1>8 DEF StagedFor
    <2>3. ASSUME NEW j \in 1 .. n - 1
          PROVE  /\ stream'[j].op = "forward" => j = i
                 /\ stream'[j].op = "h2d" => j < i
      <3>1. stream'[j] = stream[j + 1] /\ j + 1 \in 1 .. n
        BY <1>1
      <3>. HIDE DEF n
      <3>2. stream'[j].op = "forward" => j + 1 = i + 1
        BY <2>1, <3>1
      <3>3. stream'[j].op = "h2d" => j + 1 < i + 1
        BY <2>1, <3>1
      <3>. QED  BY <3>2, <3>3
    <2>4. ASSUME NEW l \in Layers
          PROVE  \/ StagedFor(Oldest, l)'
                 \/ \E j \in 1 .. n - 1 : stream'[j].op = "h2d" /\ stream'[j].layer = l
      <3>1. ASSUME NEW j \in 1 .. n, stream[j].op = "h2d", stream[j].layer = l
            PROVE  \E q \in 1 .. n - 1 : stream'[q].op = "h2d" /\ stream'[q].layer = l
        <4>1. j # 1
          BY <3>1
        <4>2. j - 1 \in 1 .. n - 1 /\ stream'[j - 1] = stream[j]
          BY <1>1, <4>1
        <4>. QED  BY <3>1, <4>2
      <3>. QED  BY <2>1, <2>2, <3>1
    <2>5. stream'[i].x = Oldest
      BY <2>0, <2>1
    <2>. QED  BY <1>1, <1>2, <1>8, <2>1, <2>3, <2>4, <2>5
  <1>11. CountInv'
    <2>1. Pending' <=> Pending
      <3>1. Pending' => Pending
        BY <1>1 DEF Pending
      <3>2. ASSUME NEW j \in 1 .. n, stream[j].op = "forward" PROVE Pending'
        <4>1. j # 1
          BY <3>2
        <4>2. j - 1 \in 1 .. n - 1 /\ stream'[j - 1] = stream[j]
          BY <1>1, <4>1
        <4>. QED  BY <1>1, <3>2, <4>2 DEF Pending
      <3>. QED  BY <1>1, <3>1, <3>2 DEF Pending
    <2>2. host \in {"idle", "hashing"} /\ ~Pending => \A i \in DOMAIN stream' : stream'[i].op # "h2d"
      BY <1>1 DEF StageInv, CountInv
    <2>. QED  BY <1>1, <1>2, <2>1, <2>2 DEF StageInv, CountInv
  <1>12. (PhaseInv /\ ReadInv)'
    BY <1>1, <1>3 DEF PhaseInv, ReadInv
  <1>. QED  BY <1>6, <1>7, <1>9, <1>10, <1>11, <1>12, ExecuteHash DEF StageInv
\* A copy brings its layer's rows of the oldest unserved step in place.
LEMMA ExecuteCopy ==
  ASSUME StageInv, Execute, stream[1].op = "h2d"
  PROVE  StageInv'
  <1>. DEFINE n == Len(stream)
              o == stream[1]
  <1>1. /\ n \in Nat /\ n > 0 /\ DOMAIN stream = 1 .. n /\ stream # <<>>
        /\ Len(stream') = n - 1 /\ DOMAIN stream' = 1 .. n - 1
        /\ \A i \in 1 .. n - 1 : stream'[i] = stream[i + 1] /\ i + 1 \in 1 .. n
        /\ stream' \in Seq([op : OpKind, layer : 0 .. NumLayers, x : Input])
        /\ Effect(o)
        /\ UNCHANGED <<host, bound, inputs, local, reads, got, gathered, layer>>
    BY TailFacts DEF Execute, hostLocals
  <1>2. PICK m \in Layers :
          /\ stream[1].layer = m
          /\ Len(served) < Len(inputs) /\ o.x = Oldest
          /\ PinnedFor(Oldest, m) /\ Oldest \in Input
    <2>1. /\ Len(served) < Len(inputs) /\ o.layer \in Layers /\ o.x = Oldest
          /\ PinnedFor(Oldest, o.layer)
      BY <1>1 DEF StageInv, CopiesInv
    <2>2. o.x \in Input
      BY <1>1, StreamType DEF StageInv
    <2>. QED  BY <2>1, <2>2
  <1>3. /\ staged_rows' = [staged_rows EXCEPT ![m] = Overwrite(@, rows_host[m], Len(Oldest))]
        /\ UNCHANGED <<input_ids, hash_host, rows_host, served>>
    BY <1>1, <1>2 DEF Effect
  <1>4. Oldest' = Oldest
    BY <1>1, <1>3 DEF Oldest
  <1>5. /\ DOMAIN Oldest = 1 .. Len(Oldest) /\ Len(Oldest) \in Nat
        /\ DOMAIN Oldest \subseteq Positions
    BY <1>2, InputFacts, StageAssumption DEF Positions
  <1>6. \A t \in DOMAIN Oldest : rows_host[m][t] = RowsOf(Oldest)[m][t]
                                 /\ rows_host[m][t] \in Values
    BY <1>2, RowsOfType DEF PinnedFor
  <1>7. staged_rows \in Buffer
    BY DEF StageInv, TypeOK
  <1>8. Overwrite(staged_rows[m], rows_host[m], Len(Oldest)) \in [Positions -> Values]
    <2>1. staged_rows[m] \in [Positions -> Values]
      BY <1>2, <1>7 DEF StageInv, NoTornRow, Buffer
    <2>2. \A t \in Positions : t <= Len(Oldest) => rows_host[m][t] \in Values
      BY <1>5, <1>6 DEF Positions
    <2>. QED  BY <1>5, <2>1, <2>2, OverwriteType
  <1>9. staged_rows' \in Buffer
    BY <1>2, <1>3, <1>7, <1>8 DEF Buffer
  <1>10. NoTornRow'
    BY <1>2, <1>3, <1>7, <1>8 DEF StageInv, NoTornRow, Buffer
  <1>11. TypeOK'
    BY <1>1, <1>3, <1>9 DEF StageInv, TypeOK
  <1>12. ServedRowsCorrect'
    BY <1>1, <1>3 DEF StageInv, ServedRowsCorrect
  <1>13. StagedFor(Oldest, m)'
    <2>1. \A t \in DOMAIN Oldest :
            Overwrite(staged_rows[m], rows_host[m], Len(Oldest))[t] = RowsOf(Oldest)[m][t]
      BY <1>2, <1>5, <1>6, <1>7 DEF Overwrite, Buffer
    <2>2. staged_rows'[m] = Overwrite(staged_rows[m], rows_host[m], Len(Oldest))
      BY <1>2, <1>3, <1>7 DEF Buffer
    <2>. QED  BY <1>4, <2>1, <2>2 DEF StagedFor
  <1>14. \A l \in Layers : StagedFor(Oldest, l) => StagedFor(Oldest, l)'
    <2>. SUFFICES ASSUME NEW l \in Layers, StagedFor(Oldest, l), l # m
                  PROVE  StagedFor(Oldest, l)'
      BY <1>13
    <2>1. staged_rows'[l] = staged_rows[l]
      BY <1>3, <1>7 DEF Buffer
    <2>. QED  BY <1>4, <2>1 DEF StagedFor
  <1>15. CopiesInv'
    <2>. SUFFICES ASSUME NEW i \in 1 .. n - 1, stream'[i].op = "h2d"
                  PROVE  /\ stream'[i].layer \in Layers
                         /\ stream'[i].x = Oldest
                         /\ PinnedFor(Oldest, stream[i + 1].layer)
      BY <1>1, <1>2, <1>3, <1>4 DEF CopiesInv, PinnedFor
    <2>1. stream'[i] = stream[i + 1] /\ i + 1 \in DOMAIN stream
      BY <1>1
    <2>. QED  BY <2>1 DEF StageInv, CopiesInv
  <1>16. \A l \in Layers :
           (\E j \in 1 .. n : stream[j].op = "h2d" /\ stream[j].layer = l)
             => \/ StagedFor(Oldest, l)'
                \/ \E j \in 1 .. n - 1 : stream'[j].op = "h2d" /\ stream'[j].layer = l
    <2>. SUFFICES ASSUME NEW l \in Layers, NEW j \in 1 .. n,
                         stream[j].op = "h2d", stream[j].layer = l
                  PROVE  \/ StagedFor(Oldest, l)'
                         \/ \E q \in 1 .. n - 1 : stream'[q].op = "h2d" /\ stream'[q].layer = l
      OBVIOUS
    <2>1. CASE j = 1
      <3>1. l = m
        BY <1>2, <2>1
      <3>. QED  BY <1>13, <3>1
    <2>2. CASE j # 1
      <3>1. j - 1 \in 1 .. n - 1 /\ stream'[j - 1] = stream[j]
        BY <1>1, <2>2
      <3>. QED  BY <3>1
    <2>. QED  BY <2>1, <2>2
  <1>17. ForwardInv'
    <2>. SUFFICES ASSUME NEW i \in 1 .. n - 1, stream'[i].op = "forward"
                  PROVE  /\ Len(served)' < Len(inputs)'
                         /\ stream'[i].x = Oldest'
                         /\ \A j \in 1 .. n - 1 : stream'[j].op = "forward" => j = i
                         /\ \A j \in 1 .. n - 1 : stream'[j].op = "h2d" => j < i
                         /\ \A l \in Layers :
                              \/ StagedFor(Oldest, l)'
                              \/ \E j \in 1 .. n - 1 : stream'[j].op = "h2d" /\ stream'[j].layer = l
      <3>1. DOMAIN stream' = 1 .. n - 1
        BY <1>1
      <3>. HIDE DEF n
      <3>. QED  BY <3>1 DEF ForwardInv
    <2>0. stream'[i] = stream[i + 1] /\ i + 1 \in DOMAIN stream
      BY <1>1
    <2>1. /\ stream[i + 1].x = Oldest
          /\ \A j \in 1 .. n : stream[j].op = "forward" => j = i + 1
          /\ \A j \in 1 .. n : stream[j].op = "h2d" => j < i + 1
          /\ \A l \in Layers : \/ StagedFor(Oldest, l)
                               \/ \E j \in 1 .. n : stream[j].op = "h2d" /\ stream[j].layer = l
      BY <1>1, <2>0 DEF StageInv, ForwardInv
    <2>2. ASSUME NEW j \in 1 .. n - 1
          PROVE  /\ stream'[j].op = "forward" => j = i
                 /\ stream'[j].op = "h2d" => j < i
      <3>1. stream'[j] = stream[j + 1] /\ j + 1 \in 1 .. n
        BY <1>1
      <3>. HIDE DEF n
      <3>2. stream'[j].op = "forward" => j + 1 = i + 1
        BY <2>1, <3>1
      <3>3. stream'[j].op = "h2d" => j + 1 < i + 1
        BY <2>1, <3>1
      <3>. QED  BY <3>2, <3>3
    <2>3. \A l \in Layers :
            \/ StagedFor(Oldest, l)'
            \/ \E j \in 1 .. n - 1 : stream'[j].op = "h2d" /\ stream'[j].layer = l
      BY <1>14, <1>16, <2>1
    <2>4. stream'[i].x = Oldest
      BY <2>0, <2>1
    <2>. QED  BY <1>1, <1>2, <1>3, <1>4, <2>2, <2>3, <2>4
  <1>18. CountInv'
    <2>1. Pending' <=> Pending
      <3>1. Pending' => Pending
        BY <1>1 DEF Pending
      <3>2. ASSUME NEW j \in 1 .. n, stream[j].op = "forward" PROVE Pending'
        <4>1. j # 1
          BY <3>2
        <4>2. j - 1 \in 1 .. n - 1 /\ stream'[j - 1] = stream[j]
          BY <1>1, <4>1
        <4>. QED  BY <1>1, <3>2, <4>2 DEF Pending
      <3>. QED  BY <1>1, <3>1, <3>2 DEF Pending
    <2>2. host \in {"idle", "hashing"} /\ ~Pending => \A i \in DOMAIN stream' : stream'[i].op # "h2d"
      BY <1>1 DEF StageInv, CountInv
    <2>. QED  BY <1>1, <1>3, <2>1, <2>2 DEF StageInv, CountInv
  <1>19. PhaseInv'
    <2>1. host \notin {"reading", "failed"}
      BY <1>1 DEF StageInv, PhaseInv
    <2>2. CASE host \in {"copying", "staged"}
      <3>1. /\ Kinds({"h2d"}) /\ Len(inputs) = Len(served) + 1 /\ gathered = RowsOf(Step)
            /\ \A i \in DOMAIN stream : stream[i].layer < layer
            /\ \A l \in Layers : l < layer => \/ StagedFor(Step, l)
                                              \/ \E i \in DOMAIN stream : stream[i].layer = l
            /\ host = "staged" => layer = NumLayers + 1
            /\ host = "copying" => layer \in Layers
        BY <2>2 DEF StageInv, PhaseInv
      <3>2. Step = Oldest /\ Step' = Oldest
        BY <1>1, <3>1 DEF Step, Oldest
      <3>3. \A i \in 1 .. n : stream[i].op = "h2d"
        BY <1>1, <3>1 DEF Kinds
      <3>4. \A i \in 1 .. n - 1 : stream'[i].op = "h2d" /\ stream'[i].layer < layer
        <4>. SUFFICES ASSUME NEW i \in 1 .. n - 1
                      PROVE  stream'[i].op = "h2d" /\ stream'[i].layer < layer
          OBVIOUS
        <4>1. stream'[i] = stream[i + 1] /\ i + 1 \in DOMAIN stream
          BY <1>1
        <4>. QED  BY <1>1, <3>1, <3>3, <4>1
      <3>5. ASSUME NEW l \in Layers, l < layer
            PROVE  \/ StagedFor(Oldest, l)'
                   \/ \E i \in 1 .. n - 1 : stream'[i].layer = l
        <4>1. CASE StagedFor(Oldest, l)
          BY <1>14, <4>1
        <4>2. CASE \E j \in 1 .. n : stream[j].op = "h2d" /\ stream[j].layer = l
          BY <1>16, <4>2
        <4>. QED  BY <1>1, <3>1, <3>2, <3>3, <3>5, <4>1, <4>2
      <3>6. \A l \in Layers : StagedFor(Step, l)' <=> StagedFor(Oldest, l)'
        BY <1>4, <3>2 DEF StagedFor
      <3>. QED  BY <1>1, <1>3, <2>2, <3>1, <3>2, <3>4, <3>5, <3>6 DEF PhaseInv, Kinds
    <2>3. CASE host \in {"idle", "hashing"}
      BY <1>1, <2>3 DEF PhaseInv
    <2>. QED  BY <2>1, <2>2, <2>3 DEF StageInv, TypeOK
  <1>20. ReadInv'
    BY <1>1 DEF StageInv, PhaseInv, ReadInv
  <1>. QED  BY <1>10, <1>11, <1>12, <1>15, <1>17, <1>18, <1>19, <1>20, ExecuteHash DEF StageInv

\* A forward reads exactly the rows of its step, and leaves no copy behind it.
LEMMA ForwardServes ==
  ASSUME StageInv, Execute, stream[1].op = "forward"
  PROVE  /\ served' = Append(served, RowsOf(Oldest))
         /\ Len(served) < Len(inputs)
         /\ UNCHANGED <<host, inputs, hash_host, rows_host, staged_rows, input_ids>>
         /\ \A i \in DOMAIN stream' : stream'[i].op \notin {"h2d", "forward"}
         /\ host \in {"idle", "hashing"}
  <1>. DEFINE n == Len(stream)
              o == stream[1]
  <1>1. /\ n \in Nat /\ n > 0 /\ DOMAIN stream = 1 .. n /\ stream # <<>>
        /\ DOMAIN stream' = 1 .. n - 1
        /\ \A i \in 1 .. n - 1 : stream'[i] = stream[i + 1] /\ i + 1 \in 1 .. n
        /\ Effect(o) /\ UNCHANGED <<host, inputs>>
    BY TailFacts DEF Execute
  <1>2. /\ Len(served) < Len(inputs) /\ o.x = Oldest
        /\ \A j \in 1 .. n : stream[j].op = "forward" => j = 1
        /\ \A j \in 1 .. n : stream[j].op = "h2d" => j < 1
        /\ \A l \in Layers : \/ StagedFor(Oldest, l)
                             \/ \E j \in 1 .. n : stream[j].op = "h2d" /\ stream[j].layer = l
    <2>1. 1 \in DOMAIN stream
      BY <1>1
    <2>. HIDE DEF n
    <2>. QED  BY <1>1, <2>1 DEF StageInv, ForwardInv
  <1>3. \A l \in Layers : StagedFor(Oldest, l)
    <2>1. \A j \in 1 .. n : stream[j].op # "h2d"
      BY <1>1, <1>2
    <2>. QED  BY <1>2, <2>1
  <1>4. [l \in Layers |-> [t \in DOMAIN Oldest |-> staged_rows[l][t]]] = RowsOf(Oldest)
    BY <1>3 DEF StagedFor, RowsOf
  <1>5. /\ served' = Append(served, RowsOf(Oldest))
        /\ UNCHANGED <<hash_host, rows_host, staged_rows, input_ids>>
    BY <1>1, <1>2, <1>4 DEF Effect, buffers
  <1>6. \A i \in 1 .. n - 1 : stream'[i].op \notin {"h2d", "forward"}
    <2>. SUFFICES ASSUME NEW i \in 1 .. n - 1
                  PROVE  stream'[i].op \notin {"h2d", "forward"}
      OBVIOUS
    <2>1. stream'[i] = stream[i + 1] /\ i + 1 \in 1 .. n
      BY <1>1
    <2>2. i + 1 # 1 /\ ~(i + 1 < 1)
      BY <1>1
    <2>. QED  BY <1>2, <2>1, <2>2
  <1>7. host \in {"idle", "hashing"}
    <2>1. host \in {"copying", "staged"} => stream[1].op = "h2d"
      BY <1>1 DEF StageInv, PhaseInv, Kinds
    <2>. QED  BY <1>1, <2>1 DEF StageInv, PhaseInv, TypeOK
  <1>. QED  BY <1>1, <1>2, <1>5, <1>6, <1>7

LEMMA ExecuteForward ==
  ASSUME StageInv, Execute, stream[1].op = "forward"
  PROVE  StageInv'
  <1>0. /\ served' = Append(served, RowsOf(Oldest))
        /\ Len(served) < Len(inputs)
        /\ UNCHANGED <<host, inputs, hash_host, rows_host, staged_rows, input_ids>>
        /\ \A i \in DOMAIN stream' : stream'[i].op \notin {"h2d", "forward"}
        /\ host \in {"idle", "hashing"}
    BY ForwardServes
  <1>1. /\ UNCHANGED <<bound, local, reads, got, gathered, layer>>
        /\ stream' \in Seq([op : OpKind, layer : 0 .. NumLayers, x : Input])
        /\ Len(stream) > 0 /\ DOMAIN stream = 1 .. Len(stream)
    BY TailFacts DEF Execute, hostLocals
  <1>2. TypeOK'
    <2>1. Oldest \in Input
      BY <1>0 DEF Oldest, StageInv, TypeOK
    <2>2. RowsOf(Oldest) \in Rows
      <3>1. RowsOf(Oldest) = [l \in Layers |-> [t \in DOMAIN Oldest |-> RowsOf(Oldest)[l][t]]]
        BY DEF RowsOf
      <3>2. \A l \in Layers : \A t \in DOMAIN Oldest : RowsOf(Oldest)[l][t] \in Values
        BY <2>1, RowsOfType
      <3>. QED  BY <2>1, <3>1, <3>2, InputFacts DEF Rows
    <2>3. served' \in Seq(Rows)
      BY <1>0, <2>2 DEF StageInv, TypeOK
    <2>. QED  BY <1>0, <1>1, <2>3 DEF StageInv, TypeOK
  <1>3. /\ Len(served) \in Nat /\ Len(served') = Len(served) + 1
        /\ DOMAIN served = 1 .. Len(served)
        /\ DOMAIN served' = 1 .. Len(served) + 1
        /\ \A k \in 1 .. Len(served) : served'[k] = served[k]
        /\ served'[Len(served) + 1] = RowsOf(Oldest)
    <2>1. served \in Seq(Rows)
      BY DEF StageInv, TypeOK
    <2>. HIDE DEF Rows
    <2>. QED  BY <1>0, <2>1
  <1>4. ServedRowsCorrect'
    <2>1. \A k \in DOMAIN served' : served'[k] = RowsOf(inputs[k])
      <3>. SUFFICES ASSUME NEW k \in DOMAIN served'
                    PROVE  served'[k] = RowsOf(inputs[k])
        OBVIOUS
      <3>1. CASE k = Len(served) + 1
        BY <1>3, <3>1 DEF Oldest
      <3>2. CASE k \in 1 .. Len(served)
        BY <1>3, <3>2 DEF StageInv, ServedRowsCorrect
      <3>. QED  BY <1>3, <3>1, <3>2
    <2>2. \A k \in DOMAIN served' : served'[k] = RowsOf(inputs'[k])
      BY <1>0, <2>1
    <2>. QED  BY <1>0, <1>3, <2>2 DEF StageInv, TypeOK, ServedRowsCorrect
  <1>5. (NoTornRow /\ CopiesInv /\ ForwardInv /\ PhaseInv /\ ReadInv)'
    BY <1>0 DEF StageInv, NoTornRow, CopiesInv, ForwardInv, PhaseInv, ReadInv
  <1>6. CountInv'
    <2>1. Pending /\ ~Pending'
      BY <1>0, <1>1 DEF Pending
    <2>. QED  BY <1>0, <1>3, <2>1 DEF StageInv, CountInv
  <1>. QED  BY <1>2, <1>4, <1>5, <1>6, ExecuteHash DEF StageInv

LEMMA ExecutePreserves == StageInv /\ Execute => StageInv'
  <1>. SUFFICES ASSUME StageInv, Execute PROVE StageInv'
    OBVIOUS
  <1>1. stream[1].op \in OpKind
    BY StreamType, TailFacts DEF StageInv, Execute
  <1>. QED  BY <1>1, ExecuteQuiet, ExecuteCopy, ExecuteForward DEF OpKind

-----------------------------------------------------------------------------
(* The theorems.                                                            *)

LEMMA StutterPreserves == StageInv /\ UNCHANGED vars => StageInv'
  <1>. SUFFICES ASSUME StageInv, UNCHANGED vars PROVE StageInv'
    OBVIOUS
  <1>. USE DEF vars
  <1>1. (TypeOK /\ ServedRowsCorrect /\ NoTornRow)'
    BY DEF StageInv, TypeOK, ServedRowsCorrect, NoTornRow
  <1>2. (CopiesInv /\ ForwardInv /\ CountInv)'
    BY DEF StageInv, CopiesInv, ForwardInv, CountInv, Pending, Oldest, PinnedFor, StagedFor
  <1>3. (HashInv /\ PhaseInv /\ ReadInv)'
    BY DEF StageInv, HashInv, PhaseInv, ReadInv, Step, StagedFor, HashedFor, Unread, Kinds
  <1>. QED  BY <1>1, <1>2, <1>3 DEF StageInv

LEMMA NextPreserves == StageInv /\ [Next]_vars => StageInv'
  <1>. SUFFICES ASSUME StageInv, [Next]_vars PROVE StageInv'
    OBVIOUS
  <1>1. CASE BindKVCache
    BY <1>1, BindPreserves
  <1>2. ASSUME NEW x \in Batches, PrepareStep(x) \/ PrepareUnbound(x) \/ PrepareDummy(x)
        PROVE  StageInv'
    BY <1>2, PrepareStepPreserves, PrepareOtherPreserves
  <1>3. CASE SyncHashes
    BY <1>3, SyncPreserves
  <1>4. CASE ReadsDone
    BY <1>4, ReadsDonePreserves
  <1>5. CASE ReadsFail
    BY <1>5, ReadsFailPreserves
  <1>6. CASE CopyLayer
    BY <1>6, CopyPreserves
  <1>7. CASE LaunchForward
    BY <1>7, LaunchPreserves
  <1>8. CASE Pool
    BY <1>8, PoolPreserves
  <1>9. CASE Execute
    BY <1>9, ExecutePreserves
  <1>10. CASE UNCHANGED vars
    BY <1>10, StutterPreserves
  <1>. QED  BY <1>1, <1>2, <1>3, <1>4, <1>5, <1>6, <1>7, <1>8, <1>9, <1>10 DEF Next

\* The inductive invariant holds in every reachable state.
THEOREM StageSafe == Spec => []StageInv
  BY StageInit, NextPreserves, PTL DEF Spec

\* Types hold, and no read starts outside the rank's rows: disk_rel_owned sends
\* other ranks' ids to row 0 before the read.
THEOREM TypeCorrect == Spec => []TypeOK
  <1>1. StageInv => TypeOK
    BY DEF StageInv
  <1>. QED  BY <1>1, StageSafe, PTL

\* Every forward of a staged step reads the rows its own tokens hash to.
THEOREM ForwardsReadOwnRows == Spec => []ServedRowsCorrect
  <1>1. StageInv => ServedRowsCorrect
    BY DEF StageInv
  <1>. QED  BY <1>1, StageSafe, PTL

\* No row made of bytes that no read filled ever reaches staged_rows.
THEOREM RowsNeverTorn == Spec => []NoTornRow
  <1>1. StageInv => NoTornRow
    BY DEF StageInv
  <1>. QED  BY <1>1, StageSafe, PTL

\* stage()'s single synchronize also keeps a pinned buffer from being rewritten
\* while a copy out of it is still in the stream.
THEOREM PinnedBuffersStable == Spec => PinnedStable
  <1>. DEFINE A == \A l \in Layers :
                rows_host'[l] # rows_host[l] =>
                  \A i \in DOMAIN stream : ~(stream[i].op = "h2d" /\ stream[i].layer = l)
  <1>1. StageInv /\ [Next]_vars => [A]_vars
    <2>. SUFFICES ASSUME StageInv, Next, NEW l \in Layers, rows_host'[l] # rows_host[l],
                         NEW i \in DOMAIN stream, stream[i].op = "h2d"
                  PROVE  stream[i].layer # l
      OBVIOUS
    <2>1. CopyLayer
      <3>1. \A x : ~(PrepareStep(x) \/ PrepareUnbound(x) \/ PrepareDummy(x))
        BY DEF PrepareStep, PrepareUnbound, PrepareDummy, buffers
      <3>2. ~Execute
        BY StreamType, TailFacts DEF Execute, Effect, buffers, StageInv, OpKind
      <3>3. ~Pool
        BY DEF Pool, TakeTask, Pread, TaskDone, ShortRead, OutsidePool, buffers
      <3>4. ~(BindKVCache \/ SyncHashes \/ ReadsDone \/ ReadsFail \/ LaunchForward)
        BY DEF BindKVCache, SyncHashes, PlanReads, ReadsDone, Gather, ReadsFail,
               LaunchForward, buffers
      <3>. QED  BY <3>1, <3>2, <3>3, <3>4 DEF Next
    <2>2. l = layer
      BY <2>1 DEF CopyLayer, StageInv, TypeOK, Buffer
    <2>3. stream[i].layer < layer /\ stream[i].layer \in Int /\ layer \in Int
      BY <2>1, StreamType DEF CopyLayer, StageInv, PhaseInv, TypeOK
    <2>. QED  BY <2>2, <2>3
  <1>. QED  BY <1>1, StageSafe, PTL DEF Spec, PinnedStable

\* The stager implements the service: a prepared step is an Ask, an executed
\* forward a Serve, a failed read a Break, and every other step a stutter.
THEOREM StagerImplementsService == Spec => ImplementsService
  <1>. USE DEF Service!vars
  <1>1. Init => Service!Init
    BY DEF Init, Service!Init
  <1>2. StageInv /\ [Next]_vars => [Service!Next]_(Service!vars)
    <2>. SUFFICES ASSUME StageInv, [Next]_vars
                  PROVE  Service!Next \/ UNCHANGED Service!vars
      OBVIOUS
    <2>1. ASSUME NEW x \in Batches, PrepareStep(x)
          PROVE  Service!Next
      <3>1. Service!Ask(x)
        BY <2>1 DEF PrepareStep, buffers, Service!Ask
      <3>. QED  BY <3>1 DEF Service!Next
    <2>2. CASE ReadsFail
      <3>1. Len(inputs) = Len(served) + 1 /\ Len(served) \in Nat
        BY <2>2 DEF ReadsFail, StageInv, PhaseInv, TypeOK
      <3>2. Service!Break
        BY <2>2, <3>1 DEF ReadsFail, buffers, Service!Break
      <3>. QED  BY <3>2 DEF Service!Next
    <2>3. CASE Execute
      <3>1. CASE stream[1].op = "forward"
        <4>1. Service!Serve
          BY <2>3, <3>1, ForwardServes DEF Service!Serve, Oldest
        <4>. QED  BY <4>1 DEF Service!Next
      <3>2. CASE stream[1].op # "forward"
        BY <2>3, <3>2, StreamType, TailFacts DEF Execute, Effect, buffers, StageInv, OpKind
      <3>. QED  BY <3>1, <3>2
    <2>4. ASSUME NEW x \in Batches, PrepareUnbound(x) \/ PrepareDummy(x)
          PROVE  UNCHANGED Service!vars
      BY <2>4 DEF PrepareUnbound, PrepareDummy, buffers
    <2>5. CASE Pool
      BY <2>5 DEF Pool, TakeTask, Pread, TaskDone, ShortRead, OutsidePool, buffers
    <2>6. CASE BindKVCache \/ SyncHashes \/ ReadsDone \/ CopyLayer \/ LaunchForward
      BY <2>6 DEF BindKVCache, SyncHashes, PlanReads, ReadsDone, Gather, CopyLayer,
                  LaunchForward, buffers
    <2>7. CASE UNCHANGED vars
      BY <2>7 DEF vars
    <2>. QED  BY <2>1, <2>2, <2>3, <2>4, <2>5, <2>6, <2>7 DEF Next
  <1>. QED  BY <1>1, <1>2, StageSafe, PTL DEF Spec, ImplementsService, Service!Spec
=============================================================================
