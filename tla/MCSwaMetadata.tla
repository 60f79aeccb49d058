--------------------------- MODULE MCSwaMetadata ---------------------------
(* A request with a text prompt and one with an image in its prompt share    *)
(* blocks of two tokens under a window of three.                            *)
EXTENDS SwaMetadata
CONSTANTS a, b
MCPromptLen == [r \in Requests |-> IF r = a THEN 2 ELSE 5]
MCNumSpec == [d \in {"none", "mtp", "dspark"} |-> CASE d = "none" -> 0 [] d = "mtp" -> 2 [] d = "dspark" -> 1]
MCDeployments == {<<"mtp", "mixed">>, <<"dspark", "sm120">>, <<"none", "sm120">>}
MCSpans == [r \in Requests |-> IF r = a THEN <<>> ELSE << <<1, 4>> >>]
MCShortSpans == [r \in Requests |-> IF r = a THEN <<>> ELSE << <<1, 2>> >>]
=============================================================================
