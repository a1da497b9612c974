--------------------------- MODULE MCHeapsterPipeline ---------------------------
(* HeapsterPipeline with one pod of two containers, and a sink that may    *)
(* hang.                                                                   *)
EXTENDS HeapsterPipeline

OnePod == [c \in Containers |-> "p"]
OneNamespace == [p \in {"p"} |-> "ns"]
=============================================================================
