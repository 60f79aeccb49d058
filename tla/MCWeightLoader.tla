--------------------------- MODULE MCWeightLoader ---------------------------
(* Three shards: a table beside a tensor, and the two parts of one tensor in
   two files; they belong to an expert that rank 1 does not own. *)
EXTENDS WeightLoader, TLC

ModelTensors == {"proj", "table", "qdata", "qscale"}
ModelHeldBy == 1 :> {"proj", "table"} @@ 2 :> {"qdata"} @@ 3 :> {"qscale"}
ModelFaulty == {1, 3}
ModelTables == {"table"}
ModelParts == {"qdata", "qscale"}
ModelSkips == 0 :> {} @@ 1 :> ModelParts
=============================================================================
