------------------------- MODULE MCPrometheusOperator -------------------------
(* PrometheusOperator with two rules that share no ConfigMap, one in the   *)
(* namespace of the Prometheus and one in another.                         *)
EXTENDS PrometheusOperator

CONSTANTS r1, r2, own, other

Files == [r \in {r1, r2} |-> IF r = r1 THEN 1 ELSE 2]
Sizes == [r \in {r1, r2} |-> 1]
Places == [r \in {r1, r2} |-> IF r = r1 THEN own ELSE other]
Labels == [n \in {own, other} |-> "labelled"]

Plain == [paused |-> FALSE, managed |-> TRUE, across |-> TRUE, shape |-> 1]
Other == [Plain EXCEPT !.managed = FALSE, !.across = FALSE, !.shape = 2]
Variants == {Plain, Other, [Plain EXCEPT !.paused = TRUE]}
=============================================================================
