----------------------------- MODULE MCNgramHash -----------------------------
(* Two requests over a pool of three blocks of two positions each, 3-grams,    *)
(* one draft token. One prompt ends in an image; the other is its beginning, so *)
(* that its first block can become one with the first request's.                *)
EXTENDS NgramHash, TLC
CONSTANTS a, b, img, r1, r2, A, B

MCPrompt == r1 :> <<a, b, img>> @@ r2 :> <<a>>
MCTokenMap == a :> A @@ b :> B @@ img :> Dead
MCDrafts == {<<>>, <<a>>}
MCRunners == {[v2 |-> TRUE, connector |-> TRUE], [v2 |-> FALSE, connector |-> FALSE]}
MCLoadingV1 == {[v2 |-> FALSE, connector |-> TRUE]}
MCPools == <<1, 3>>
=============================================================================
