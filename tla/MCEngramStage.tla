--------------------------- MODULE MCEngramStage ---------------------------
(* Two Engram layers and three tokens. Layer 1 owns every row; in layer 2   *)
(* ta and tb share a row and another rank owns the row of token tc.         *)
EXTENDS EngramStage, TLC
CONSTANTS ta, tb, tc, v0, v1, v2

MCHashId == <<ta :> 6 @@ tb :> 5 @@ tc :> 4, ta :> 2 @@ tb :> 2 @@ tc :> 9>>
MCVocabStart == <<4, 2>>
MCVocabEnd == <<7, 3>>
MCTable == <<0 :> v0 @@ 1 :> v1 @@ 2 :> v2, 0 :> v2>>
MCRowBytes == [p \in {"w", "s"} |-> IF p = "w" THEN 2 ELSE 1]
MCBatches == {<<tc, tb>>, <<ta, tb, tc>>}
=============================================================================
