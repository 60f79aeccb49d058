------------------------------ MODULE DcpMerge ------------------------------
(***************************************************************************)
(* patch/sparse_attn_indexer.py: _merge_dcp_topk_global. With decode context *)
(* parallelism a row's positions are dealt out to ranks; each rank selects   *)
(* from its own shard, the ranks gather each other's selections and select   *)
(* again. The local selections may break ties any way.                       *)
(***************************************************************************)
EXTENDS Integers, FiniteSets

CONSTANTS
  DcpRow,       \* the positions of a row
  DcpRanks,
  DcpOwner,     \* [position -> the rank whose shard holds its key]
  DcpTopk,      \* topk_tokens
  Scores,
  StableTopk    \* the stable selector: [scores -> [candidates -> its selection]]

\* S is a selection of the DcpTopk best of A, or A itself when it is smaller.
IsTopk(S, A, score) ==
  /\ S \subseteq A
  /\ Cardinality(S) = IF Cardinality(A) <= DcpTopk THEN Cardinality(A) ELSE DcpTopk
  /\ \A s \in S, t \in A \ S : score[s] >= score[t]

ASSUME DcpAssumption ==
  /\ IsFiniteSet(DcpRow)
  /\ IsFiniteSet(DcpRanks) /\ DcpRanks # {}
  /\ DcpOwner \in [DcpRow -> DcpRanks]
  /\ DcpTopk \in Nat
  /\ Scores \subseteq Int /\ Scores # {}
  /\ \A score \in [DcpRow -> Scores], A \in SUBSET DcpRow :
       IsTopk(StableTopk[score][A], A, score)

VARIABLES
  logits,         \* the scores of the row, each rank its shard's
  topk_indices,   \* [rank -> its positions: its own selection, then the merge]
  packed,         \* [rank -> the candidates it packed for the others]
  at              \* [rank -> how far it is]

dcpvars == <<logits, topk_indices, packed, at>>

Shard(r) == {t \in DcpRow : DcpOwner[t] = r}

DcpInit ==
  /\ logits = [t \in DcpRow |-> CHOOSE s \in Scores : TRUE]
  /\ topk_indices = [r \in DcpRanks |-> {}]
  /\ packed = [r \in DcpRanks |-> {}]
  /\ at = [r \in DcpRanks |-> "idle"]

\* The ranks have scored the row
Score ==
  /\ \A r \in DcpRanks : at[r] = "idle"
  /\ logits' \in [DcpRow -> Scores]
  /\ at' = [r \in DcpRanks |-> "scored"]
  /\ UNCHANGED <<topk_indices, packed>>

SelectLocal(r) ==
  /\ at[r] = "scored"
  /\ \E S \in SUBSET Shard(r) :
       /\ IsTopk(S, Shard(r), logits)
       /\ topk_indices' = [topk_indices EXCEPT ![r] = S]
  /\ at' = [at EXCEPT ![r] = "selected"]
  /\ UNCHANGED <<logits, packed>>

\* A single rank returns with its own selection; one of several packs it
Pack(r) ==
  /\ at[r] = "selected"
  /\ IF Cardinality(DcpRanks) <= 1
     THEN at' = [at EXCEPT ![r] = "merged"] /\ UNCHANGED packed
     ELSE /\ packed' = [packed EXCEPT ![r] = topk_indices[r]]
          /\ at' = [at EXCEPT ![r] = "gather"]
  /\ UNCHANGED <<logits, topk_indices>>

Gathered_FirstRank(candidates) == candidates[CHOOSE r \in DcpRanks : TRUE]
\* The all-gather of every rank's candidates
Gathered(candidates) == UNION {candidates[r] : r \in DcpRanks}

\* all_gather returns when every rank has entered it; a rank that is done
\* overwrites its positions while others still select
Merge(r) ==
  /\ at[r] = "gather"
  /\ \A q \in DcpRanks : at[q] \in {"gather", "merged"}
  /\ topk_indices' = [topk_indices EXCEPT ![r] = StableTopk[logits][Gathered(packed)]]
  /\ at' = [at EXCEPT ![r] = "merged"]
  /\ UNCHANGED <<logits, packed>>

DcpNext == Score \/ \E r \in DcpRanks : SelectLocal(r) \/ Pack(r) \/ Merge(r)

DcpSpec == DcpInit /\ [][DcpNext]_dcpvars

\* What attention reads: each rank localizes the merged positions to its own shard
Attended == UNION {topk_indices[r] \cap Shard(r) : r \in DcpRanks}

\* Exchanging only the ranks' own selections is exact (docstring, lines 90-100):
\* whatever ties each rank broke, the positions the ranks attend to, each in its own
\* shard, are a selection of the whole row.
MergeExact ==
  (\A r \in DcpRanks : at[r] = "merged") => IsTopk(Attended, DcpRow, logits)
=============================================================================
