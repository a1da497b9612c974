----------------------------- MODULE MCStatusSync -----------------------------
(* StatusSync with replicas on one node or on two.                         *)
EXTENDS StatusSync

CONSTANTS r1, r2, n1, n2

Apart == [r \in {r1, r2} |-> IF r = r1 THEN n1 ELSE n2]
Together == [r \in {r1, r2} |-> n1]
=============================================================================
