----------------------------- MODULE MCLayerRuntime -----------------------------
EXTENDS LayerRuntime

CONSTANTS small, wide

MCModels == {small, wide}

\* In small the hidden state is the longest vector, in wide the query is; in
\* wide every query head has its own key.
MCDims ==
  [m \in MCModels |->
     IF m = small THEN [hidden |-> 4, ffn |-> 6, heads |-> 2, kvHeads |-> 1, headDim |-> 1]
                  ELSE [hidden |-> 2, ffn |-> 2, heads |-> 4, kvHeads |-> 4, headDim |-> 1]]

\* Two layers, one, three (more than the pool has sets for) and none, at the
\* last position of the context and after it.
MCRanges == {<<0, 1>>, <<1, 1>>, <<0, 2>>, <<1, 0>>} \cap (Layers \X Layers)
MCRequests ==
  {[model |-> m, context |-> n, position |-> n - over, first |-> g[1], last |-> g[2]] :
     m \in MCModels, n \in Contexts, over \in {0, 1}, g \in MCRanges}

\* Recoverable failures, and the two kinds that are not.
MCFailureSets == {{"work", "descriptor_pool"}, {"cache"}, {"command_objects"}}

===============================================================================
