----------------------------- MODULE MCAttention -----------------------------
(* The rows of MCIndexTopK, and beside them the streams of four layers: one with *)
(* a sliding window only, one that makes keys and an index, one with an index on *)
(* the other's keys, and again one that makes both. What the streams order and   *)
(* what the rows hold is told apart: the streams run before the first step.      *)
EXTENDS MCIndexTopK, AttnStreams

MCCompressed == {2, 3, 4}
MCKvLayers == {2, 4}
MCIndexLayers == {2, 3, 4}

AttentionInit == MCInit /\ StreamsInit
AttentionNext ==
  \/ enqueued = 0 /\ MCNext /\ UNCHANGED streamsVars
  \/ step = 0 /\ (\A r \in DcpRanks : at[r] = "idle") /\ StreamsNext /\ UNCHANGED <<vars, dcpvars>>
AttentionSpec == AttentionInit /\ [][AttentionNext]_<<vars, dcpvars, streamsVars>>
=============================================================================
