--------------------------- MODULE MCEngramShard ---------------------------
(* Layouts of one, three and four columns over one to three ranks: whole     *)
(* shards, a padded last head, and ranks without a head of their own.       *)
EXTENDS EngramShard
MCLayouts == {[ngram |-> 3, heads |-> 2], [ngram |-> 4, heads |-> 1], [ngram |-> 2, heads |-> 1]}
Token(h, on) == [hash |-> h, active |-> on]
MCSteps ==
  {<< <<Token(1, TRUE), Token(4, FALSE), Token(5, TRUE), Token(9, TRUE)>>,
      <<Token(6, TRUE)>> >>}
MCSlack == {-1, 0}
MCSurplus == {-1, 0}
=============================================================================
