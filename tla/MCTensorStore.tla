----------------------------- MODULE MCTensorStore -----------------------------
EXTENDS TensorStore

CONSTANTS n1, n2, n3, n4, c1, c2, bad

MCNames == {n1, n2, n3, n4}
MCContents == {c1, c2, bad}
MCAcceptable == {c1, c2}
MCMeta == [c \in MCContents |-> c]

===============================================================================
