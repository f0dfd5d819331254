----------------------------- MODULE MCWeights -----------------------------
EXTENDS Weights

MCPlaces == AllPlaces

\* A matrix of two rows of one block, and one of three rows of two; a vector
\* whose last block is cut off; norms of an odd length and of one element.
Matrices == {[type |-> type, rows |-> shape[1], cols |-> shape[2], roles |-> {"matrix"}] :
               type \in Types, shape \in {<<2, 256>>, <<1, 300>>}}
            \cup {[type |-> type, rows |-> 3, cols |-> 512, roles |-> {"matrix"}] :
                    type \in {"Q4_K", "Q6_K"}}
\* An embedding used for the output too, as in a file without output.weight.
Embeddings == {[type |-> type, rows |-> 2, cols |-> 256, roles |-> {"embedding", "output"}] :
                 type \in Types}
Norms == {[type |-> type, rows |-> 1, cols |-> cols, roles |-> {"norm"}] :
            type \in Flat \cup {"other"}, cols \in {1, 3, 4}}

MCTensors == Matrices \cup Embeddings \cup Norms

\* The tensors of a Q4_K_M model whose output has a matrix of its own.
Q4KMTensors ==
  {[type |-> type, rows |-> 2, cols |-> 256, roles |-> {"matrix"}] : type \in {"Q4_K", "Q6_K"}}
  \cup {[type |-> "Q4_K", rows |-> 2, cols |-> 256, roles |-> {"embedding"}],
        [type |-> "Q6_K", rows |-> 2, cols |-> 256, roles |-> {"output"}],
        [type |-> "F32", rows |-> 1, cols |-> 256, roles |-> {"norm"}]}

OnPc == {"fp16", "quantized"}
=============================================================================
