----------------------------- MODULE MCIndexTopK -----------------------------
(* Small instances of IndexTopK: a sliding-window layer, a source and its      *)
(* consumer, the candidate source, a masked source and its consumer, another    *)
(* masked source; batches mix decodes and chunked prefills of short and long    *)
(* contexts.                                                                    *)
EXTENDS IndexTopK, DcpMerge, TLC

MCRatio == <<0, 1, 1, 2, 2, 2, 2>>
MCSources == {2, 4, 5, 7}

Batch(decode, prefill, max_seq_len, replay) ==
  [decode |-> decode, prefill |-> prefill, max_seq_len |-> max_seq_len, replay |-> replay]

\* Decode requests of one length: no padding. Lengths 1 and 2 stand for a step
\* without and with draft tokens.
MCUniform ==
  {Batch(<<1, 1>>, <<>>, n, r) : n \in {2, 3, 9}, r \in BOOLEAN} \cup
  {Batch(<<>>, <<2, 3>>, 9, FALSE), Batch(<<2, 2>>, <<1>>, 9, FALSE),
   Batch(<<2>>, <<1, 2>>, 3, FALSE), Batch(<<2>>, <<1, 2>>, 9, FALSE)}

\* A short chunked prefill counted as a decode next to a request with drafts.
MCPadded == {Batch(<<1, 2>>, <<2>>, 9, FALSE)}

\* Five positions of a row dealt out to two ranks, two by two; three scores, two
\* of every selection.
MCDcpRow == 0 .. 4
MCDcpOwner == [t \in MCDcpRow |-> (t \div 2) % 2]
MCScores == 1 .. 3
\* Among equal scores the stable selector takes the lower positions.
MCStableTopk ==
  [score \in [MCDcpRow -> MCScores] |->
     LET beats(z, t) == score[z] > score[t] \/ (score[z] = score[t] /\ z < t)
     IN  [A \in SUBSET MCDcpRow |-> {t \in A : Cardinality({z \in A : beats(z, t)}) < DcpTopk}]]

\* The merge of a row shares nothing with the steps of the layers but its results:
\* it is run on its own, before the first of them.
MCInit == Init /\ DcpInit
MCNext ==
  \/ Next /\ (\A r \in DcpRanks : at[r] = "idle") /\ UNCHANGED dcpvars
  \/ step = 0 /\ DcpNext /\ UNCHANGED vars
MCSpec == MCInit /\ [][MCNext]_<<vars, dcpvars>>
=============================================================================
